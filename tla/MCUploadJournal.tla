--------------------------- MODULE MCUploadJournal ---------------------------
EXTENDS UploadJournal
=============================================================================
