------------------------ MODULE UploadJournal_proofs ------------------------
(***************************************************************************)
(* SilentWhileAsked, TypeOK and JournalIsExact for every set of covers,    *)
(* quota, window, pause and budget of faults.                              *)
(*                                                                         *)
(* The first part is about two journals, the one on disk and the copy an   *)
(* attempt works on, and about GitHub's own count: until a refusal was     *)
(* missed, the pause on disk is at least what GitHub still asks for, and   *)
(* an attempt that is sending found no pause, in either journal.           *)
(*                                                                         *)
(* The second part is about what the journals name: every remembered blob  *)
(* is one GitHub has or had, the sequence names none twice and keeps its   *)
(* cap, and what an attempt has sent is the newest end of its working      *)
(* copy, but for what is still pending. JournalIsExact needs that end to   *)
(* fit the cap: with a smaller cap an attempt drops what it has itself     *)
(* just stored, and TLC finds that state with MaxBlobs = 2.                *)
(***************************************************************************)
EXTENDS UploadJournal, FiniteSetTheorems, WellFoundedInduction, TLAPS

\* What an attempt remembers is not looked at in this part; only that it is a
\* journal.
IsJournal(j) ==
    /\ j = [blobs |-> j.blobs, pause |-> j.pause, refusals |-> j.refusals]
    /\ j.pause \in 0 .. MaxPause
    /\ j.refusals \in 0 .. MaxRefusals

IsRun(r) ==
    /\ r = [files |-> r.files, send |-> r.send, held |-> r.held,
            working |-> r.working, pending |-> r.pending, sent |-> r.sent,
            unsaved |-> r.unsaved, moved |-> r.moved]
    /\ r.files \subseteq Blobs /\ r.send \subseteq Blobs
    /\ IsJournal(r.working)

Places ==
    /\ gh \in [stored: SUBSET Blobs, tree: SUBSET Blobs, history: SUBSET Blobs,
               gone: SUBSET Blobs, left: 0 .. Quota, window: 1 .. MaxPause,
               wait: 0 .. MaxPause]
    /\ IsJournal(disk)
    /\ IsRun(run)
    /\ missed \in BOOLEAN

PauseKept == gh.wait <= disk.pause \/ missed
NoPauseWhileSending ==
    pc \in Requests => disk.pause = 0 /\ run.working.pause = 0

IInv == Places /\ PauseKept /\ NoPauseWhileSending

-----------------------------------------------------------------------------
(* The journal's operators                                                  *)

\* The empty journal and run are of their kind.
LEMMA EmptyIsJournal == IsJournal(EmptyJournal) /\ IsRun(NoRun)
BY JournalAssumption DEF IsJournal, IsRun, EmptyJournal, NoRun, MaxRefusals

\* Storing blobs keeps the pause.
LEMMA StoredKeepsPause ==
    ASSUME NEW j, IsJournal(j), NEW shas
    PROVE  IsJournal(AfterStored(j, shas)) /\ AfterStored(j, shas).pause = j.pause
<1>1. CASE shas = <<>>
  BY <1>1 DEF AfterStored
<1>2. CASE shas # <<>>
  <2>1. PICK b : AfterStored(j, shas) = [j EXCEPT !.blobs = b, !.refusals = 0]
    BY <1>2 DEF AfterStored
  <2>2. AfterStored(j, shas) = [blobs |-> b, pause |-> j.pause, refusals |-> 0]
    BY <2>1 DEF IsJournal
  <2> QED BY <2>2, JournalAssumption DEF IsJournal, MaxRefusals
<1> QED BY <1>1, <1>2

\* Forgetting blobs keeps the pause.
LEMMA WithoutKeepsPause ==
    ASSUME NEW j, IsJournal(j), NEW shas
    PROVE  IsJournal(WithoutBlobs(j, shas)) /\ WithoutBlobs(j, shas).pause = j.pause
BY DEF IsJournal, WithoutBlobs

\* A landed commit ends the pause.
LEMMA CommittedEndsPause ==
    ASSUME NEW j, IsJournal(j), NEW named
    PROVE  IsJournal(AfterCommitted(j, named)) /\ AfterCommitted(j, named).pause = 0
<1> DEFINE w == WithoutBlobs(j, named)
<1>1. IsJournal(w)
  BY WithoutKeepsPause
<1>2. AfterCommitted(j, named) = [w EXCEPT !.pause = 0, !.refusals = 0]
  BY DEF AfterCommitted
<1> HIDE DEF w
<1>3. AfterCommitted(j, named) = [blobs |-> w.blobs, pause |-> 0, refusals |-> 0]
  BY <1>1, <1>2 DEF IsJournal
<1> QED BY <1>3, JournalAssumption DEF IsJournal, MaxRefusals

\* The pause is at least one unit and at least the hint.
LEMMA PauseCoversHint ==
    ASSUME NEW hint \in 0 .. MaxPause, NEW count \in 1 .. MaxRefusals
    PROVE  /\ PauseAfterRefusal(hint, count) \in 1 .. MaxPause
           /\ PauseAfterRefusal(hint, count) >= hint
<1>1. MaxPause \in Nat /\ MaxPause >= 1
  BY JournalAssumption
<1>2. count - 1 \in Nat
  BY <1>1 DEF MaxRefusals
<1> DEFINE backoff == 2 ^ (count - 1)
<1>3. backoff \in Int
  BY <1>2
<1> HIDE DEF backoff
<1>4. PauseAfterRefusal(hint, count) =
        LET wanted == IF hint > backoff THEN hint ELSE backoff
        IN IF wanted < 1 THEN 1 ELSE IF wanted > MaxPause THEN MaxPause ELSE wanted
  BY DEF PauseAfterRefusal, backoff
<1> QED BY <1>1, <1>3, <1>4

\* A refusal pauses for as long as GitHub asked, and for one unit at least.
LEMMA RefusalPauses ==
    ASSUME NEW j, IsJournal(j), NEW hint \in 0 .. MaxPause
    PROVE  /\ IsJournal(AfterRefusal(j, hint))
           /\ AfterRefusal(j, hint).pause >= hint
           /\ AfterRefusal(j, hint).pause >= 1
<1> DEFINE count == IF j.refusals >= MaxRefusals THEN MaxRefusals ELSE j.refusals + 1
<1>1. count \in 1 .. MaxRefusals
  BY JournalAssumption DEF IsJournal, MaxRefusals
<1> HIDE DEF count
<1> DEFINE pause == PauseAfterRefusal(hint, count)
<1>2. pause \in 1 .. MaxPause /\ pause >= hint
  BY <1>1, PauseCoversHint
<1>3. AfterRefusal(j, hint) = [j EXCEPT !.pause = pause, !.refusals = count]
  BY DEF AfterRefusal, count
<1> HIDE DEF pause
<1>4. AfterRefusal(j, hint) = [blobs |-> j.blobs, pause |-> pause, refusals |-> count]
  BY <1>3 DEF IsJournal
<1> QED BY <1>1, <1>2, <1>4, JournalAssumption DEF IsJournal, MaxRefusals

-----------------------------------------------------------------------------
(* The steps                                                                *)

\* The first state.
LEMMA InitEstablishes == Init => IInv
<1> SUFFICES ASSUME Init PROVE IInv
  OBVIOUS
<1>1. disk.pause = 0 /\ gh.wait = 0 /\ pc \notin Requests /\ missed \in BOOLEAN
  BY DEF Init, EmptyJournal, Requests
<1>2. gh \in [stored: SUBSET Blobs, tree: SUBSET Blobs, history: SUBSET Blobs,
               gone: SUBSET Blobs, left: 0 .. Quota, window: 1 .. MaxPause,
               wait: 0 .. MaxPause]
  BY JournalAssumption DEF Init
<1>3. IsJournal(disk) /\ IsRun(run)
  BY EmptyIsJournal DEF Init
<1> QED BY <1>1, <1>2, <1>3 DEF IInv, Places, PauseKept, NoPauseWhileSending

\* An attempt that sends holds a journal without a pause, also with what it
\* stored since.
LEMMA UnsavedHasNoPause ==
    ASSUME IInv, pc \in Requests
    PROVE  IsJournal(Unsaved) /\ Unsaved.pause = 0
BY StoredKeepsPause DEF IInv, Places, IsRun, NoPauseWhileSending, Unsaved

\* An attempt that ends with a journal without a pause, saved or not, while
\* GitHub asks for no more than before.
LEMMA EndKeeps ==
    ASSUME IInv, pc \in Requests, NEW j, IsJournal(j), j.pause = 0,
           disk' = j \/ disk' = disk, Ends, UNCHANGED missed,
           gh' \in [stored: SUBSET Blobs, tree: SUBSET Blobs,
                    history: SUBSET Blobs, gone: SUBSET Blobs,
                    left: 0 .. Quota, window: 1 .. MaxPause,
                    wait: 0 .. MaxPause],
           gh'.wait = gh.wait
    PROVE  IInv'
<1>1. IsJournal(disk') /\ disk'.pause = 0 /\ disk.pause = 0
  BY DEF IInv, Places, NoPauseWhileSending
<1>2. IsRun(run')
  BY EmptyIsJournal DEF Ends
<1>3. pc' \notin Requests
  BY DEF Ends, Requests
<1> QED BY <1>1, <1>2, <1>3 DEF IInv, Places, PauseKept, NoPauseWhileSending, IsJournal, IsRun

\* A publish starts: only names change.
LEMMA BeginKeeps ==
    ASSUME IInv, NEW files \in SUBSET Blobs, Begin(files)
    PROVE  IInv'
<1>1. \A S \in SUBSET Blobs : Aged(S) \in SUBSET Blobs
  BY DEF Aged, Blobs
<1>2. /\ gh' \in [stored: SUBSET Blobs, tree: SUBSET Blobs,
                  history: SUBSET Blobs, gone: SUBSET Blobs, left: 0 .. Quota,
                  window: 1 .. MaxPause, wait: 0 .. MaxPause]
      /\ gh'.wait = gh.wait
  BY <1>1 DEF Begin, IInv, Places
<1>3. IsJournal(disk') /\ disk'.pause = disk.pause
  BY DEF Begin, IInv, Places, IsJournal
<1>4. IsRun(run')
  <2>1. run' = [NoRun EXCEPT !.files = files]
    BY DEF Begin
  <2> QED BY <2>1, EmptyIsJournal DEF IsRun, NoRun
<1>5. pc' \notin Requests /\ missed' = missed
  BY DEF Begin, Requests
<1> QED BY <1>2, <1>3, <1>4, <1>5 DEF IInv, Places, PauseKept, NoPauseWhileSending

\* The branch is read: nothing but the files to send is new.
LEMMA LookKeeps == ASSUME IInv, Look PROVE IInv'
<1>1. run' = [run EXCEPT !.send = run.files \ gh.tree] /\ IsRun(run)
  BY DEF Look, IInv, Places
<1>2. IsRun(run')
  BY <1>1 DEF IsRun
<1>3. pc' \notin Requests /\ UNCHANGED <<gh, disk, missed>>
  BY DEF Look, Requests
<1> QED BY <1>2, <1>3 DEF IInv, Places, PauseKept, NoPauseWhileSending

\* A refusal leaves GitHub's side of its kind.
LEMMA RefusesIs ==
    ASSUME Places, NEW hint \in Hints
    PROVE  /\ hint \in 0 .. MaxPause
           /\ Refuses(hint) \in [stored: SUBSET Blobs, tree: SUBSET Blobs,
                  history: SUBSET Blobs, gone: SUBSET Blobs, left: 0 .. Quota,
                  window: 1 .. MaxPause, wait: 0 .. MaxPause]
           /\ Refuses(hint).wait = IF hint = 0 THEN 1 ELSE hint
<1>1. hint \in 0 .. MaxPause /\ (IF hint = 0 THEN 1 ELSE hint) \in 0 .. MaxPause
  BY JournalAssumption DEF Hints, Places
<1> QED BY <1>1 DEF Refuses, Places

\* A read that fails: what the journal cannot know of is missed.
LEMMA LookFailsKeeps == ASSUME IInv, LookFails PROVE IInv'
<1>1. /\ gh' \in [stored: SUBSET Blobs, tree: SUBSET Blobs,
                  history: SUBSET Blobs, gone: SUBSET Blobs, left: 0 .. Quota,
                  window: 1 .. MaxPause, wait: 0 .. MaxPause]
  BY RefusesIs DEF LookFails, IInv, Places
<1>2. IsRun(run') /\ pc' \notin Requests /\ disk' = disk
  BY EmptyIsJournal DEF LookFails, Ends, Requests
<1>3. missed' = (missed \/ gh'.wait > disk.pause)
  BY DEF LookFails
<1>4. missed' \in BOOLEAN
  BY <1>3
<1>5. gh'.wait <= disk.pause \/ missed'
  <2>1. gh'.wait \in Int /\ disk.pause \in Int
    BY <1>1 DEF IInv, Places, IsJournal
  <2>2. gh'.wait <= disk.pause \/ gh'.wait > disk.pause
    BY <2>1
  <2> QED BY <1>3, <2>2
<1> QED BY <1>1, <1>2, <1>4, <1>5 DEF IInv, Places, PauseKept, NoPauseWhileSending

\* The journal is read: in a pause the attempt ends, else it has none.
LEMMA ResumeKeeps == ASSUME IInv, Resume PROVE IInv'
<1>1. CASE disk.pause > 0
  <2>1. Ends /\ UNCHANGED <<gh, disk, missed>>
    BY <1>1 DEF Resume
  <2>2. IsRun(run') /\ pc' \notin Requests
    BY <2>1, EmptyIsJournal DEF Ends, Requests
  <2> QED BY <2>1, <2>2 DEF IInv, Places, PauseKept, NoPauseWhileSending
<1>2. CASE ~(disk.pause > 0)
  <2>1. PICK held \in SUBSET run.send :
          run' = [run EXCEPT !.held = held, !.send = @ \ held, !.working = disk]
    BY <1>2 DEF Resume
  <2>2. IsRun(run') /\ run'.working = disk
    BY <2>1 DEF IInv, Places, IsRun
  <2>3. disk.pause = 0 /\ UNCHANGED <<gh, disk, missed>>
    BY <1>2, JournalAssumption DEF Resume, IInv, Places, IsJournal
  <2> QED BY <2>2, <2>3 DEF IInv, Places, PauseKept, NoPauseWhileSending
<1> QED BY <1>1, <1>2

\* A step that goes on sending, with a working journal that keeps its pause.
LEMMA SendingKeeps ==
    ASSUME IInv, pc \in Requests, UNCHANGED missed, IsRun(run'),
           run'.working.pause = 0,
           IsJournal(disk'), disk'.pause = 0,
           gh' \in [stored: SUBSET Blobs, tree: SUBSET Blobs,
                    history: SUBSET Blobs, gone: SUBSET Blobs,
                    left: 0 .. Quota, window: 1 .. MaxPause,
                    wait: 0 .. MaxPause],
           gh'.wait = gh.wait
    PROVE  IInv'
BY DEF IInv, Places, PauseKept, NoPauseWhileSending, IsJournal

\* GitHub's side of a request: it counts, and may store or land.
LEMMA GitHubKeeps ==
    ASSUME IInv, gh.left > 0
    PROVE  \A g \in {Counted, Landed} \cup {Stores(f) : f \in run.send} :
             /\ g \in [stored: SUBSET Blobs, tree: SUBSET Blobs,
                       history: SUBSET Blobs, gone: SUBSET Blobs,
                       left: 0 .. Quota, window: 1 .. MaxPause,
                       wait: 0 .. MaxPause]
             /\ g.wait = gh.wait
<1>1. gh.left - 1 \in 0 .. Quota
  BY JournalAssumption DEF IInv, Places
<1>2. run.files \subseteq Blobs /\ run.send \subseteq Blobs
  BY DEF IInv, Places, IsRun
<1> DEFINE Kept(g) ==
      /\ g \in [stored: SUBSET Blobs, tree: SUBSET Blobs,
                history: SUBSET Blobs, gone: SUBSET Blobs,
                left: 0 .. Quota, window: 1 .. MaxPause,
                wait: 0 .. MaxPause]
      /\ g.wait = gh.wait
<1>3. Kept(Counted)
  BY <1>1 DEF IInv, Places, Counted
<1>4. Kept(Landed)
  <2>1. Counted.tree = gh.tree /\ Counted.history = gh.history
    BY DEF IInv, Places, Counted
  <2>2. gh.tree \cup run.files \subseteq Blobs /\ gh.history \cup run.files \subseteq Blobs
    BY <1>2 DEF IInv, Places
  <2> QED BY <1>3, <2>1, <2>2 DEF Landed
<1>5. ASSUME NEW f \in run.send PROVE Kept(Stores(f))
  <2>1. gh.stored \cup {f} \subseteq Blobs /\ gh.gone \ {f} \subseteq Blobs
    BY <1>2 DEF IInv, Places
  <2> QED BY <1>1, <2>1 DEF IInv, Places, Stores
<1> QED BY <1>3, <1>4, <1>5

\* The head is read and compared.
LEMMA CheckHeadKeeps == ASSUME IInv, CheckHead PROVE IInv'
<1>1. pc \in Requests
  BY DEF CheckHead, Requests
<1>2. CASE run.moved
  <2>1. Ends /\ (disk' = Unsaved \/ disk' = disk) /\ UNCHANGED <<gh, missed>>
    BY <1>2 DEF CheckHead, Persist
  <2> QED BY <1>1, <2>1, UnsavedHasNoPause, EndKeeps DEF IInv, Places
<1>3. CASE ~run.moved
  <2>1. UNCHANGED <<gh, disk, run, missed>>
    BY <1>3 DEF CheckHead
  <2> QED BY <1>1, <2>1 DEF IInv, Places, PauseKept, NoPauseWhileSending
<1> QED BY <1>2, <1>3

\* A stored blob is remembered, in memory or on disk.
LEMMA SendBlobKeeps ==
    ASSUME IInv, NEW f, SendBlob(f)
    PROVE  IInv'
<1>1. pc \in Requests /\ f \in run.send /\ gh.left > 0 /\ gh' = Stores(f) /\ missed' = missed
  BY DEF SendBlob, Requests
<1>2. /\ IsJournal(disk) /\ disk.pause = 0
      /\ IsRun(run) /\ IsJournal(run.working) /\ run.working.pause = 0
  BY <1>1 DEF IInv, Places, IsRun, NoPauseWhileSending
<1>3. CASE Remember(f)
  <2> DEFINE pending == Append(run.pending, f)
             working == AfterStored(run.working, pending)
  <2>1. IsJournal(working) /\ working.pause = 0
    BY <1>2, StoredKeepsPause
  <2> HIDE DEF working, pending
  <2>2. /\ disk' = disk \/ disk' = working
        /\ \E p, w, u : /\ run' = [[run EXCEPT !.send = @ \ {f}, !.sent = @ \cup {f}]
                                     EXCEPT !.pending = p, !.working = w, !.unsaved = u]
                        /\ w = working \/ w = run.working
    <3>1. CASE Len(pending) < SaveEvery
      <4>1. disk' = disk
        BY <1>3, <3>1 DEF Remember, pending, working
      <4>2. run' = [run EXCEPT !.send = @ \ {f}, !.sent = @ \cup {f}, !.pending = pending]
        BY <1>2, <1>3, <3>1 DEF Remember, pending, working, IsRun
      <4>3. run' = [[run EXCEPT !.send = @ \ {f}, !.sent = @ \cup {f}]
                      EXCEPT !.pending = pending, !.working = run.working,
                             !.unsaved = run.unsaved]
        BY <4>2, <1>2 DEF IsRun
      <4> QED BY <4>1, <4>3
    <3>2. CASE ~(Len(pending) < SaveEvery)
      <4>1. disk' = disk \/ disk' = working
        BY <1>3, <3>2 DEF Remember, Persist, pending, working
      <4>2. run' = [[run EXCEPT !.send = @ \ {f}, !.sent = @ \cup {f}]
                      EXCEPT !.pending = <<>>, !.working = working,
                             !.unsaved = disk' # working]
        BY <1>3, <3>2 DEF Remember, pending, working
      <4> QED BY <4>1, <4>2
    <3> QED BY <3>1, <3>2
  <2>3. PICK p, w, u :
          /\ run' = [[run EXCEPT !.send = @ \ {f}, !.sent = @ \cup {f}]
                       EXCEPT !.pending = p, !.working = w, !.unsaved = u]
          /\ w = working \/ w = run.working
    BY <2>2
  <2>4. IsRun(run') /\ run'.working.pause = 0
    <3>1. IsJournal(w) /\ w.pause = 0
      BY <2>1, <2>3, <1>2
    <3>2. run' = [files |-> run.files, send |-> run.send \ {f}, held |-> run.held,
                  working |-> w, pending |-> p, sent |-> run.sent \cup {f},
                  unsaved |-> u, moved |-> run.moved]
      BY <2>3, <1>2 DEF IsRun
    <3> QED BY <3>1, <3>2, <1>2 DEF IsRun
  <2>5. IsJournal(disk') /\ disk'.pause = 0
    BY <1>2, <2>1, <2>2
  <2> QED BY <1>1, <2>4, <2>5, GitHubKeeps, SendingKeeps
<1>4. CASE run' = [run EXCEPT !.send = @ \ {f}] /\ UNCHANGED disk
  <2>1. IsRun(run') /\ run'.working.pause = 0
    BY <1>2, <1>4 DEF IsRun
  <2> QED BY <1>1, <1>2, <1>4, <2>1, GitHubKeeps, SendingKeeps
<1> QED BY <1>3, <1>4 DEF SendBlob

\* A 422 ends the attempt; the remembered blobs are forgotten, the pause is not.
LEMMA UnprocessableEnds ==
    ASSUME IInv, pc \in Requests, Unprocessable
    PROVE  /\ Ends
           /\ \E j : IsJournal(j) /\ j.pause = 0 /\ (disk' = j \/ disk' = disk)
<1> DEFINE j == IF run.held = {} THEN Unsaved ELSE WithoutBlobs(Unsaved, run.held)
<1>1. IsJournal(j) /\ j.pause = 0
  BY UnsavedHasNoPause, WithoutKeepsPause
<1> HIDE DEF j
<1>2. Ends /\ (disk' = j \/ disk' = disk)
  BY DEF Unprocessable, Persist, j
<1> QED BY <1>1, <1>2

\* The tree is accepted, or the attempt ends.
LEMMA PostTreeKeeps == ASSUME IInv, PostTree PROVE IInv'
<1>1. pc \in Requests /\ gh.left > 0 /\ gh' = Counted /\ missed' = missed
  BY DEF PostTree, Requests
<1>2. CASE Unprocessable
  BY <1>1, <1>2, UnprocessableEnds, GitHubKeeps, EndKeeps
<1>3. CASE UNCHANGED <<run, disk>>
  <2>1. IsRun(run') /\ run'.working.pause = 0 /\ IsJournal(disk') /\ disk'.pause = 0
    BY <1>1, <1>3 DEF IInv, Places, NoPauseWhileSending
  <2> QED BY <1>1, <2>1, GitHubKeeps, SendingKeeps
<1> QED BY <1>2, <1>3 DEF PostTree

\* The commit is made.
LEMMA PostCommitKeeps == ASSUME IInv, PostCommit PROVE IInv'
<1>1. pc \in Requests /\ gh.left > 0 /\ gh' = Counted /\ UNCHANGED <<run, disk, missed>>
  BY DEF PostCommit, Requests
<1>2. IsRun(run') /\ run'.working.pause = 0 /\ IsJournal(disk') /\ disk'.pause = 0
  BY <1>1 DEF IInv, Places, NoPauseWhileSending
<1> QED BY <1>1, <1>2, GitHubKeeps, SendingKeeps

\* The branch moves and the pause ends, or it does not move.
LEMMA MoveRefKeeps == ASSUME IInv, MoveRef PROVE IInv'
<1>1. pc \in Requests /\ gh.left > 0 /\ missed' = missed
  BY DEF MoveRef, Requests
<1>2. CASE run.moved
  <2>1. gh' = Counted
    BY <1>2 DEF MoveRef
  <2>2. CASE Unprocessable
    BY <1>1, <2>1, <2>2, UnprocessableEnds, GitHubKeeps, EndKeeps
  <2>3. CASE Ends /\ Persist(Unsaved, events)
    <3>1. disk' = Unsaved \/ disk' = disk
      BY <2>3 DEF Persist
    <3> QED BY <1>1, <2>1, <2>3, <3>1, UnsavedHasNoPause, GitHubKeeps, EndKeeps
  <2> QED BY <1>2, <2>2, <2>3 DEF MoveRef
<1>3. CASE ~run.moved
  <2> DEFINE j == AfterCommitted(run.working, run.files)
  <2>1. IsJournal(j) /\ j.pause = 0
    BY CommittedEndsPause DEF IInv, Places, IsRun
  <2>2. gh' = Landed /\ Ends /\ (disk' = j \/ disk' = disk)
    BY <1>3 DEF MoveRef, Persist
  <2> HIDE DEF j
  <2> QED BY <1>1, <2>1, <2>2, GitHubKeeps, EndKeeps
<1> QED BY <1>2, <1>3

\* A refusal that is saved pauses long enough; one that is not is missed.
LEMMA RateLimitedKeeps == ASSUME IInv, RateLimited PROVE IInv'
<1>1. PICK hint \in Hints :
        /\ gh' = Refuses(hint)
        /\ disk' = AfterRefusal(Unsaved, hint) \/ disk' = disk
        /\ missed' = (disk' = disk)
  BY DEF RateLimited, Persist
<1>2. hint \in 0 .. MaxPause /\ (IF hint = 0 THEN 1 ELSE hint) \in 0 .. MaxPause
  BY RefusesIs, JournalAssumption DEF IInv
<1>3. /\ IsJournal(AfterRefusal(Unsaved, hint))
      /\ AfterRefusal(Unsaved, hint).pause >= (IF hint = 0 THEN 1 ELSE hint)
  BY <1>2, UnsavedHasNoPause, RefusalPauses DEF RateLimited
<1>4. IsJournal(disk') /\ (disk'.pause >= (IF hint = 0 THEN 1 ELSE hint) \/ missed')
  BY <1>1, <1>3 DEF IInv, Places
<1>5. /\ gh' \in [stored: SUBSET Blobs, tree: SUBSET Blobs,
                  history: SUBSET Blobs, gone: SUBSET Blobs, left: 0 .. Quota,
                  window: 1 .. MaxPause, wait: 0 .. MaxPause]
      /\ gh'.wait = IF hint = 0 THEN 1 ELSE hint
  BY <1>1, RefusesIs DEF IInv
<1>6. IsRun(run') /\ pc' \notin Requests
  BY EmptyIsJournal DEF RateLimited, Ends, Requests
<1>7. missed' \in BOOLEAN
  BY <1>1
<1>8. gh'.wait <= disk'.pause \/ missed'
  BY <1>2, <1>4, <1>5 DEF IsJournal
<1> QED BY <1>4, <1>5, <1>6, <1>7, <1>8 DEF IInv, Places, PauseKept, NoPauseWhileSending

\* A lost request or answer.
LEMMA DroppedKeeps == ASSUME IInv, Dropped PROVE IInv'
<1>1. /\ pc \in Requests /\ Ends /\ missed' = missed
      /\ disk' = Unsaved \/ disk' = disk
  BY DEF Dropped, Persist
<1>2. /\ gh' \in [stored: SUBSET Blobs, tree: SUBSET Blobs,
                  history: SUBSET Blobs, gone: SUBSET Blobs, left: 0 .. Quota,
                  window: 1 .. MaxPause, wait: 0 .. MaxPause]
      /\ gh'.wait = gh.wait
  <2>1. CASE UNCHANGED gh
    BY <2>1 DEF IInv, Places
  <2>2. CASE gh.left > 0 /\ gh' \in {Counted, Landed} \cup {Stores(f) : f \in run.send}
    BY <2>2, GitHubKeeps
  <2> QED BY <2>1, <2>2 DEF Dropped
<1> QED BY <1>1, <1>2, UnsavedHasNoPause, EndKeeps

\* GitHub, the device and time.
LEMMA WorldKeeps ==
    ASSUME IInv, Crash \/ Damage \/ Ages \/ Collects \/ AnotherWriter \/ Tick
    PROVE  IInv'
<1>1. CASE Crash
  <2>1. IsRun(run') /\ pc' \notin Requests /\ UNCHANGED <<gh, disk, missed>>
    BY <1>1, EmptyIsJournal DEF Crash, Ends, Requests
  <2> QED BY <2>1 DEF IInv, Places, PauseKept, NoPauseWhileSending
<1>2. CASE Damage
  <2>1. IsJournal(disk') /\ missed' = TRUE /\ pc' \notin Requests /\ UNCHANGED <<gh, run>>
    BY <1>2, EmptyIsJournal DEF Damage, Requests
  <2> QED BY <2>1 DEF IInv, Places, PauseKept, NoPauseWhileSending
<1>3. CASE Ages
  <2>1. /\ IsJournal(disk') /\ disk'.pause = disk.pause
        /\ pc' = pc /\ UNCHANGED <<gh, run, missed>>
    BY <1>3 DEF Ages, IInv, Places, IsJournal
  <2> QED BY <2>1 DEF IInv, Places, PauseKept, NoPauseWhileSending
<1>4. CASE Collects
  <2>1. /\ gh' \in [stored: SUBSET Blobs, tree: SUBSET Blobs,
                    history: SUBSET Blobs, gone: SUBSET Blobs, left: 0 .. Quota,
                    window: 1 .. MaxPause, wait: 0 .. MaxPause]
        /\ gh'.wait = gh.wait /\ UNCHANGED <<disk, pc, run, missed>>
    <3>1. PICK b \in gh.stored :
            gh' = [gh EXCEPT !.stored = @ \ {b}, !.gone = @ \cup {b}]
      BY <1>4 DEF Collects
    <3>2. gh.stored \ {b} \subseteq Blobs /\ gh.gone \cup {b} \subseteq Blobs
      BY DEF IInv, Places
    <3> QED BY <1>4, <3>1, <3>2 DEF Collects, IInv, Places
  <2> QED BY <2>1 DEF IInv, Places, PauseKept, NoPauseWhileSending
<1>5. CASE AnotherWriter
  <2>1. /\ gh' \in [stored: SUBSET Blobs, tree: SUBSET Blobs,
                    history: SUBSET Blobs, gone: SUBSET Blobs, left: 0 .. Quota,
                    window: 1 .. MaxPause, wait: 0 .. MaxPause]
        /\ gh'.wait = gh.wait /\ UNCHANGED <<disk, pc, missed>>
    BY <1>5 DEF AnotherWriter, IInv, Places
  <2>2. IsRun(run') /\ run'.working = run.working
    BY <1>5 DEF AnotherWriter, IInv, Places, IsRun
  <2> QED BY <2>1, <2>2 DEF IInv, Places, PauseKept, NoPauseWhileSending
<1>6. CASE Tick
  <2>1. MaxPause \in Nat /\ MaxPause >= 1 /\ Quota \in Nat
    BY JournalAssumption
  <2>2. \A n \in 0 .. MaxPause : Less(n) \in 0 .. MaxPause
    BY <2>1 DEF Less
  <2>3. \A m, n \in 0 .. MaxPause : m <= n => Less(m) <= Less(n)
    BY <2>1 DEF Less
  <2>4. /\ gh' \in [stored: SUBSET Blobs, tree: SUBSET Blobs,
                    history: SUBSET Blobs, gone: SUBSET Blobs, left: 0 .. Quota,
                    window: 1 .. MaxPause, wait: 0 .. MaxPause]
        /\ gh'.wait = Less(gh.wait)
    <3>1. /\ Less(gh.wait) \in 0 .. MaxPause
          /\ (IF gh.window = 1 THEN MaxPause ELSE gh.window - 1) \in 1 .. MaxPause
          /\ (IF gh.window = 1 THEN Quota ELSE gh.left) \in 0 .. Quota
      BY <2>1, <2>2 DEF IInv, Places
    <3>2. gh' = [gh EXCEPT !.wait = Less(gh.wait),
                           !.window = IF gh.window = 1 THEN MaxPause ELSE gh.window - 1,
                           !.left = IF gh.window = 1 THEN Quota ELSE gh.left]
      BY <1>6 DEF Tick, IInv, Places
    <3> QED BY <3>1, <3>2 DEF IInv, Places
  <2>5. IsJournal(disk') /\ disk'.pause = Less(disk.pause)
    BY <1>6, <2>2 DEF Tick, IInv, Places, IsJournal
  <2>6. gh'.wait <= disk'.pause \/ missed'
    <3>1. CASE gh.wait <= disk.pause
      BY <3>1, <2>3, <2>4, <2>5 DEF IInv, Places, IsJournal
    <3>2. CASE missed
      <4>1. missed' \/ ~(gh'.wait > 0)
        BY <1>6, <3>2 DEF Tick
      <4>2. ~(gh'.wait > 0) => gh'.wait <= disk'.pause
        BY <2>4, <2>5, <2>1 DEF IsJournal
      <4> QED BY <4>1, <4>2
    <3> QED BY <3>1, <3>2 DEF IInv, PauseKept
  <2>7. pc' = pc /\ run' = run /\ missed' \in BOOLEAN
    BY <1>6 DEF Tick
  <2>8. disk.pause = 0 => disk'.pause = 0
    BY <2>5 DEF Less
  <2> QED BY <2>4, <2>5, <2>6, <2>7, <2>8 DEF IInv, Places, PauseKept, NoPauseWhileSending
<1> QED BY <1>1, <1>2, <1>3, <1>4, <1>5, <1>6

-----------------------------------------------------------------------------
(* The theorems                                                             *)

\* The inductive invariant.
THEOREM PauseHolds == Spec => []IInv
<1>1. Init => IInv
  BY InitEstablishes
<1>2. IInv /\ [Next]_vars => IInv'
  <2> SUFFICES ASSUME IInv, [Next]_vars PROVE IInv'
    OBVIOUS
  <2>1. CASE BeginSite \/ BeginOther
    BY <2>1, BeginKeeps DEF BeginSite, BeginOther, Blobs
  <2>2. CASE Goes
    BY <2>2, LookKeeps, ResumeKeeps, CheckHeadKeeps, PostTreeKeeps, PostCommitKeeps,
       MoveRefKeeps, RateLimitedKeeps, SendBlobKeeps DEF Goes
  <2>3. CASE LookFails \/ Dropped
    BY <2>3, LookFailsKeeps, DroppedKeeps
  <2>4. CASE Crash \/ Damage \/ Ages \/ Collects \/ AnotherWriter \/ Tick
    BY <2>4, WorldKeeps
  <2>5. CASE UNCHANGED vars
    BY <2>5 DEF vars, IInv, Places, PauseKept, NoPauseWhileSending
  <2> QED BY <2>1, <2>2, <2>3, <2>4, <2>5 DEF Next
<1> QED BY <1>1, <1>2, PTL DEF Spec

\* While GitHub wants no requests commitFiles sends none, for no flow and after
\* no restart, unless the journal does not know it (ResumableUploadGitHubApi).
\* The reads before commitFiles are sent all the same.
THEOREM SilenceHolds == Spec => []SilentWhileAsked
<1>1. IInv => SilentWhileAsked
  BY DEF IInv, Places, PauseKept, NoPauseWhileSending, SilentWhileAsked
<1> QED BY <1>1, PauseHolds, PTL

-----------------------------------------------------------------------------
(* Sequences without duplicates, and the operators of the journal on them   *)

Distinct(s) == \A i, k \in 1 .. Len(s) : s[i] = s[k] => i = k

\* Every set of natural numbers has a least one.
LEMMA LeastNumber ==
    ASSUME NEW S \in SUBSET Nat, S # {}
    PROVE  \E n \in S : \A m \in S : n <= m
<1>1. PICK n \in S : \A m \in S : <<m, n>> \notin OpToRel(<, Nat)
  BY NatLessThanWellFounded, WFMin
<1>2. \A m \in S : m \in Nat /\ n \in Nat /\ <<m, n>> \in Nat \X Nat
  OBVIOUS
<1>3. \A m \in S : ~(m < n)
  BY <1>1, <1>2 DEF OpToRel
<1> QED BY <1>2, <1>3

\* What the first i entries leave when those of S are dropped.
Dropping(blobs, S, f, n) ==
    [i \in 0 .. n |->
       IF i = 0 THEN <<>>
       ELSE IF blobs[i] \in S THEN f[i - 1] ELSE Append(f[i - 1], blobs[i])]

\* The recursion of Without is one: it has a solution for every length.
LEMMA DroppingExists ==
    ASSUME NEW blobs, NEW S, NEW n \in Nat
    PROVE  \E f : f = Dropping(blobs, S, f, n)
<1> DEFINE Bad == {k \in Nat : ~\E f : f = Dropping(blobs, S, f, k)}
<1> SUFFICES ASSUME Bad # {} PROVE FALSE
  OBVIOUS
<1>1. PICK k \in Bad : \A m \in Bad : k <= m
  <2>1. Bad \in SUBSET Nat
    OBVIOUS
  <2> HIDE DEF Bad
  <2> QED BY <2>1, LeastNumber
<1>2. CASE k = 0
  <2> DEFINE g == [i \in 0 .. 0 |-> <<>>]
  <2>1. g = Dropping(blobs, S, g, 0)
    BY DEF Dropping
  <2> QED BY <1>2, <2>1
<1>3. CASE k # 0
  <2>1. k \in Nat /\ k - 1 \in Nat /\ k - 1 \notin Bad
    BY <1>1, <1>3
  <2>2. PICK f : f = Dropping(blobs, S, f, k - 1)
    BY <2>1
  <2> DEFINE last == IF blobs[k] \in S THEN f[k - 1] ELSE Append(f[k - 1], blobs[k])
             g == [i \in 0 .. k |-> IF i = k THEN last ELSE f[i]]
  <2>3. ASSUME NEW i \in 0 .. k
        PROVE  g[i] = IF i = 0 THEN <<>>
                      ELSE IF blobs[i] \in S THEN g[i - 1] ELSE Append(g[i - 1], blobs[i])
    <3>1. CASE i = k
      BY <1>3, <2>1, <3>1
    <3>2. CASE i # k
      <4>1. i \in 0 .. (k - 1) /\ (i # 0 => i - 1 \in 0 .. k /\ i - 1 # k)
        BY <2>1, <3>2
      <4>2. f[i] = IF i = 0 THEN <<>>
                   ELSE IF blobs[i] \in S THEN f[i - 1] ELSE Append(f[i - 1], blobs[i])
        BY <2>2, <4>1 DEF Dropping
      <4>3. g[i] = f[i] /\ (i # 0 => g[i - 1] = f[i - 1])
        BY <3>2, <4>1
      <4> QED BY <4>2, <4>3
    <3> QED BY <3>1, <3>2
  <2>4. g = [i \in 0 .. k |-> g[i]]
    OBVIOUS
  <2> HIDE DEF g
  <2>5. g = Dropping(blobs, S, g, k)
    BY <2>3, <2>4 DEF Dropping
  <2> QED BY <1>1, <2>5
<1> QED BY <1>2, <1>3

\* What _without leaves: the other blobs, once each.
LEMMA WithoutIs ==
    ASSUME NEW T, NEW blobs \in Seq(T), NEW S
    PROVE  /\ Without(blobs, S) \in Seq(T)
           /\ Named(Without(blobs, S)) = Named(blobs) \ S
           /\ Len(Without(blobs, S)) <= Len(blobs)
           /\ Distinct(blobs) => Distinct(Without(blobs, S))
<1> DEFINE n == Len(blobs)
           kept == CHOOSE f : f = Dropping(blobs, S, f, n)
           Upto(i) == {blobs[k] : k \in 1 .. i}
           Right(i) == /\ kept[i] \in Seq(T)
                       /\ Named(kept[i]) = Upto(i) \ S
                       /\ Len(kept[i]) <= i
                       /\ Distinct(blobs) => Distinct(kept[i])
           Wrong == {i \in 0 .. n : ~Right(i)}
<1>1. n \in Nat
  OBVIOUS
<1>2. kept = Dropping(blobs, S, kept, n)
  <2> HIDE DEF n
  <2> QED BY <1>1, DroppingExists
<1>3. Without(blobs, S) = kept[n]
  BY DEF Without, Dropping
<1> HIDE DEF kept
<1>4. Right(0)
  <2>1. kept[0] = <<>>
    BY <1>1, <1>2 DEF Dropping
  <2> QED BY <2>1 DEF Named, Distinct
<1>5. ASSUME NEW i \in 0 .. n, i # 0, Right(i - 1)
      PROVE  Right(i)
  <2>1. kept[i] = IF blobs[i] \in S THEN kept[i - 1] ELSE Append(kept[i - 1], blobs[i])
    BY <1>2, <1>5 DEF Dropping
  <2>2. i \in 1 .. n /\ i - 1 \in Nat /\ blobs[i] \in T
    BY <1>1, <1>5
  <2>3. Upto(i) = Upto(i - 1) \cup {blobs[i]}
    <3>1. \A k \in 1 .. i : k \in 1 .. (i - 1) \/ k = i
      BY <2>2
    <3>2. i \in 1 .. i /\ \A k \in 1 .. (i - 1) : k \in 1 .. i
      BY <2>2
    <3> QED BY <3>1, <3>2
  <2>4. CASE blobs[i] \in S
    BY <1>5, <2>1, <2>2, <2>3, <2>4
  <2>5. CASE blobs[i] \notin S
    <3> DEFINE old == kept[i - 1]
               m == Len(old)
    <3>1. /\ old \in Seq(T) /\ m \in Nat /\ m <= i - 1
          /\ Named(old) = Upto(i - 1) \ S /\ (Distinct(blobs) => Distinct(old))
      BY <1>5
    <3>2. kept[i] = Append(old, blobs[i])
      BY <2>1, <2>5
    <3> HIDE DEF old
    <3>3. /\ kept[i] \in Seq(T) /\ Len(kept[i]) = m + 1 /\ kept[i][m + 1] = blobs[i]
          /\ \A k \in 1 .. m : kept[i][k] = old[k]
      BY <2>2, <3>1, <3>2
    <3>4. \A k \in 1 .. (m + 1) : k \in 1 .. m \/ k = m + 1
      BY <3>1
    <3>5. m + 1 \in 1 .. (m + 1) /\ \A k \in 1 .. m : k \in 1 .. (m + 1)
      BY <3>1
    <3>6. Named(kept[i]) = Named(old) \cup {blobs[i]}
      BY <3>3, <3>4, <3>5 DEF Named
    <3>7. Distinct(blobs) => Distinct(kept[i])
      <4>1. SUFFICES ASSUME Distinct(blobs) PROVE Distinct(kept[i])
        OBVIOUS
      <4>2. blobs[i] \notin Upto(i - 1)
        <5>1. \A k \in 1 .. (i - 1) : k \in 1 .. n /\ k # i
          BY <1>1, <2>2
        <5> QED BY <2>2, <4>1, <5>1 DEF Distinct
      <4>3. \A k \in 1 .. m : old[k] # blobs[i]
        BY <3>1, <4>2 DEF Named
      <4>4. \A k, l \in 1 .. m : old[k] = old[l] => k = l
        BY <3>1, <4>1 DEF Distinct
      <4> QED BY <3>3, <3>4, <4>3, <4>4 DEF Distinct
    <3> QED BY <2>2, <2>3, <2>5, <3>1, <3>3, <3>6, <3>7
  <2> QED BY <2>4, <2>5
<1> HIDE DEF Right
<1>6. Wrong = {}
  <2> SUFFICES ASSUME Wrong # {} PROVE FALSE
    OBVIOUS
  <2>1. PICK i \in Wrong : \A m \in Wrong : i <= m
    <3>1. Wrong \in SUBSET Nat
      BY <1>1
    <3> HIDE DEF Wrong
    <3> QED BY <3>1, LeastNumber
  <2>2. i \in 0 .. n /\ ~Right(i)
    BY <2>1
  <2>3. i # 0
    BY <1>4, <2>2
  <2>4. i - 1 \in 0 .. n /\ i - 1 \notin Wrong
    BY <1>1, <2>1, <2>2, <2>3
  <2> QED BY <1>5, <2>2, <2>3, <2>4
<1>7. Right(n)
  BY <1>1, <1>6
<1>8. Upto(n) = Named(blobs)
  BY DEF Named
<1> QED BY <1>3, <1>7, <1>8 DEF Right

After(blobs, p) == {blobs[i] : i \in (p + 1) .. Len(blobs)}

\* A journal's blobs with what is stored behind them.
LEMMA ConcatIs ==
    ASSUME NEW T, NEW a \in Seq(T), NEW b \in Seq(T)
    PROVE  /\ a \o b \in Seq(T)
           /\ Named(a \o b) = Named(a) \cup Named(b)
           /\ Distinct(a) /\ Distinct(b) /\ Named(a) \cap Named(b) = {} => Distinct(a \o b)
           /\ \A p \in 0 .. Len(a) : After(a \o b, p) = After(a, p) \cup Named(b)
<1> DEFINE c == a \o b
           m == Len(a)
           n == Len(b)
<1>1. /\ c \in Seq(T) /\ m \in Nat /\ n \in Nat /\ Len(c) = m + n
      /\ \A i \in 1 .. m : c[i] = a[i] /\ i \in 1 .. Len(c)
      /\ \A i \in 1 .. n : c[m + i] = b[i] /\ m + i \in 1 .. Len(c)
  OBVIOUS
<1>2. \A i \in 1 .. Len(c) :
        \/ i \in 1 .. m /\ c[i] = a[i]
        \/ i - m \in 1 .. n /\ c[i] = b[i - m] /\ i = m + (i - m)
  BY <1>1
<1> HIDE DEF c, m, n
<1>3. Named(c) = Named(a) \cup Named(b)
  <2>1. Named(c) \subseteq Named(a) \cup Named(b)
    BY <1>2 DEF Named, m, n
  <2>2. Named(a) \subseteq Named(c)
    BY <1>1 DEF Named, m
  <2>3. Named(b) \subseteq Named(c)
    BY <1>1 DEF Named, n
  <2> QED BY <2>1, <2>2, <2>3
<1>4. ASSUME Distinct(a), Distinct(b), Named(a) \cap Named(b) = {}
      PROVE  Distinct(c)
  <2> SUFFICES ASSUME NEW i \in 1 .. Len(c), NEW k \in 1 .. Len(c), c[i] = c[k]
               PROVE  i = k
    BY DEF Distinct
  <2>1. CASE i \in 1 .. m /\ c[i] = a[i] /\ k \in 1 .. m /\ c[k] = a[k]
    BY <1>4, <2>1 DEF Distinct, m
  <2>2. CASE i - m \in 1 .. n /\ c[i] = b[i - m] /\ k - m \in 1 .. n /\ c[k] = b[k - m]
    <3>1. i - m = k - m
      BY <1>4, <2>2 DEF Distinct, n
    <3> QED BY <1>1, <3>1
  <2>3. ASSUME NEW x \in 1 .. m, NEW y \in 1 .. n, a[x] = b[y] PROVE FALSE
    BY <1>4, <2>3 DEF Named, m, n
  <2> QED BY <1>2, <2>1, <2>2, <2>3
<1>5. ASSUME NEW p \in 0 .. m
      PROVE  After(c, p) = After(a, p) \cup Named(b)
  <2>1. After(c, p) \subseteq After(a, p) \cup Named(b)
    <3> SUFFICES ASSUME NEW i \in (p + 1) .. Len(c) PROVE c[i] \in After(a, p) \cup Named(b)
      BY DEF After
    <3>1. i \in 1 .. Len(c)
      BY <1>1
    <3>2. CASE i \in 1 .. m /\ c[i] = a[i]
      <4>1. i \in (p + 1) .. m
        BY <3>2
      <4> QED BY <3>2, <4>1 DEF After, m
    <3>3. CASE i - m \in 1 .. n /\ c[i] = b[i - m]
      BY <3>3 DEF Named, n
    <3> QED BY <1>2, <3>1, <3>2, <3>3
  <2>2. After(a, p) \subseteq After(c, p)
    <3> SUFFICES ASSUME NEW i \in (p + 1) .. m PROVE a[i] \in After(c, p)
      BY DEF After, m
    <3>1. i \in 1 .. m /\ i \in (p + 1) .. Len(c) /\ c[i] = a[i]
      BY <1>1
    <3> QED BY <3>1 DEF After
  <2>3. Named(b) \subseteq After(c, p)
    <3> SUFFICES ASSUME NEW i \in 1 .. n PROVE b[i] \in After(c, p)
      BY DEF Named, n
    <3>1. m + i \in (p + 1) .. Len(c) /\ c[m + i] = b[i]
      BY <1>1
    <3> QED BY <3>1 DEF After
  <2> QED BY <2>1, <2>2, <2>3
<1> QED BY <1>1, <1>3, <1>4, <1>5 DEF c, m

Site == Covers \cup {Page}
Roomy == Cardinality(Site) <= MaxBlobs

\* Distinct entries are no more than what they are chosen from.
LEMMA DistinctFit ==
    ASSUME NEW blobs, NEW p \in Nat, NEW n \in Nat, p <= n, n = Len(blobs), Distinct(blobs),
           NEW S, IsFiniteSet(S), After(blobs, p) \subseteq S
    PROVE  n - p <= Cardinality(S)
<1> DEFINE f == [i \in (p + 1) .. n |-> blobs[i]]
<1>1. f \in Injection((p + 1) .. n, S)
  <2>1. \A i \in (p + 1) .. n : i \in 1 .. n /\ blobs[i] \in S
    BY DEF After
  <2>2. f \in [(p + 1) .. n -> S]
    BY <2>1
  <2>3. \A i, k \in (p + 1) .. n : f[i] = f[k] => i = k
    BY <2>1 DEF Distinct
  <2> QED BY <2>2, <2>3 DEF Injection, IsInjective
<1> HIDE DEF f
<1>2. Cardinality((p + 1) .. n) <= Cardinality(S)
  BY <1>1, FS_Injection
<1>3. Cardinality((p + 1) .. n) = n - p
  <2>1. p + 1 \in Int /\ n \in Int /\ (p + 1 > n => n - p = 0) /\ n - (p + 1) + 1 = n - p
    OBVIOUS
  <2>2. Cardinality((p + 1) .. n) = IF p + 1 > n THEN 0 ELSE n - (p + 1) + 1
    BY <2>1, FS_Interval
  <2> QED BY <2>1, <2>2
<1> QED BY <1>2, <1>3

LEMMA SiteFits == IsFiniteSet(Site) /\ Cardinality(Site) \in Nat /\ Site \subseteq Blobs
BY JournalAssumption, FS_AddElement, FS_CardinalityType DEF Site, Blobs

\* _pruned keeps the newest, and all of them if they fit.
LEMMA PrunedIs ==
    ASSUME NEW T, NEW blobs \in Seq(T)
    PROVE  /\ Pruned(blobs) \in Seq(T) /\ Len(Pruned(blobs)) <= MaxBlobs
           /\ Named(Pruned(blobs)) \subseteq Named(blobs)
           /\ Distinct(blobs) => Distinct(Pruned(blobs))
           /\ \A p \in 0 .. Len(blobs) :
                Len(blobs) - p <= MaxBlobs =>
                  \E q \in 0 .. Len(Pruned(blobs)) : After(Pruned(blobs), q) = After(blobs, p)
<1> DEFINE n == Len(blobs)
           d == n - MaxBlobs
           cut == Pruned(blobs)
<1>1. MaxBlobs \in Nat /\ MaxBlobs >= 1 /\ n \in Nat /\ d \in Int
  BY JournalAssumption
<1>2. CASE n <= MaxBlobs
  <2>1. cut = blobs
    BY <1>1, <1>2 DEF Pruned
  <2> QED BY <1>1, <1>2, <2>1
<1>3. CASE n > MaxBlobs
  <2>1. cut = SubSeq(blobs, d + 1, n)
    BY <1>1, <1>3 DEF Pruned
  <2>2. /\ cut \in Seq(T) /\ Len(cut) = MaxBlobs /\ d \in Nat
        /\ \A i \in 1 .. MaxBlobs : cut[i] = blobs[d + i] /\ d + i \in 1 .. n
    BY <1>1, <1>3, <2>1
  <2> HIDE DEF cut
  <2>3. Named(cut) \subseteq Named(blobs)
    BY <2>2 DEF Named
  <2>4. Distinct(blobs) => Distinct(cut)
    <3> SUFFICES ASSUME Distinct(blobs), NEW i \in 1 .. MaxBlobs, NEW k \in 1 .. MaxBlobs,
                        cut[i] = cut[k]
                 PROVE  i = k
      BY <2>2 DEF Distinct
    <3>1. /\ d + i \in 1 .. Len(blobs) /\ d + k \in 1 .. Len(blobs)
          /\ blobs[d + i] = blobs[d + k]
      BY <2>2
    <3> HIDE DEF d
    <3>2. d + i = d + k
      BY <3>1 DEF Distinct
    <3> QED BY <1>1, <3>2
  <2>5. ASSUME NEW p \in 0 .. n, n - p <= MaxBlobs
        PROVE  \E q \in 0 .. Len(cut) : After(cut, q) = After(blobs, p)
    <3>1. p - d \in 0 .. Len(cut)
      BY <1>1, <2>2, <2>5
    <3>2. After(cut, p - d) \subseteq After(blobs, p)
      <4> SUFFICES ASSUME NEW i \in ((p - d) + 1) .. MaxBlobs PROVE cut[i] \in After(blobs, p)
        BY <2>2 DEF After
      <4>1. i \in 1 .. MaxBlobs /\ d + i \in (p + 1) .. n
        BY <1>1, <2>2, <3>1
      <4> QED BY <2>2, <4>1 DEF After
    <3>3. After(blobs, p) \subseteq After(cut, p - d)
      <4> SUFFICES ASSUME NEW i \in (p + 1) .. n PROVE blobs[i] \in After(cut, p - d)
        BY DEF After
      <4>1. i - d \in ((p - d) + 1) .. MaxBlobs /\ i - d \in 1 .. MaxBlobs /\ d + (i - d) = i
        BY <1>1, <2>2, <3>1
      <4>2. cut[i - d] = blobs[i]
        BY <2>2, <4>1
      <4> QED BY <2>2, <4>1, <4>2 DEF After
    <3>4. After(cut, p - d) = After(blobs, p)
      BY <3>2, <3>3
    <3> QED BY <3>1, <3>4
  <2> QED BY <2>2, <2>3, <2>4, <2>5 DEF cut
<1> QED BY <1>1, <1>2, <1>3

-----------------------------------------------------------------------------
(* What is remembered: the journal's operators                              *)

\* A journal that could be saved: each blob once, and no more than the cap.
Good(j) == j \in Journals /\ Len(j.blobs) <= MaxBlobs /\ Distinct(j.blobs)

\* The newest entries are what this attempt sent, but for what is pending.
EndsWith(blobs, sent, pending) ==
    \E p \in 0 .. Len(blobs) :
        After(blobs, p) \subseteq sent /\ sent \subseteq After(blobs, p) \cup pending

LEMMA EmptyIsGood == Good(EmptyJournal) /\ Named(EmptyJournal.blobs) = {}
BY JournalAssumption DEF Good, EmptyJournal, Journals, Distinct, Named, MaxRefusals

\* A journal by its fields.
LEMMA GoodFields ==
    ASSUME NEW blobs \in Seq(Blobs), Len(blobs) <= MaxBlobs, Distinct(blobs),
           NEW pause \in 0 .. MaxPause, NEW refusals \in 0 .. MaxRefusals
    PROVE  Good([blobs |-> blobs, pause |-> pause, refusals |-> refusals])
BY DEF Good, Journals

\* What storing adds, and nothing else.
LEMMA StoredIs ==
    ASSUME NEW j, Good(j), NEW shas \in Seq(Blobs), Distinct(shas)
    PROVE  /\ Good(AfterStored(j, shas))
           /\ Named(AfterStored(j, shas).blobs) \subseteq Named(j.blobs) \cup Named(shas)
<1>1. CASE shas = <<>>
  BY <1>1 DEF AfterStored
<1>2. CASE shas # <<>>
  <2> DEFINE rest == Without(shas, Named(j.blobs))
             all == j.blobs \o rest
  <2>1. /\ rest \in Seq(Blobs) /\ Named(rest) = Named(shas) \ Named(j.blobs)
        /\ Distinct(rest)
    BY WithoutIs
  <2>2. j.blobs \in Seq(Blobs) /\ Distinct(j.blobs) /\ j.pause \in 0 .. MaxPause
    BY DEF Good, Journals
  <2> HIDE DEF rest
  <2>3. all \in Seq(Blobs) /\ Named(all) = Named(j.blobs) \cup Named(rest) /\ Distinct(all)
    BY <2>1, <2>2, ConcatIs
  <2>4. AfterStored(j, shas) = [blobs |-> Pruned(all), pause |-> j.pause, refusals |-> 0]
    <3>1. AfterStored(j, shas) = [j EXCEPT !.blobs = Pruned(all), !.refusals = 0]
      BY <1>2 DEF AfterStored, rest
    <3> QED BY <3>1 DEF Good, Journals
  <2> HIDE DEF all
  <2>5. /\ Pruned(all) \in Seq(Blobs) /\ Len(Pruned(all)) <= MaxBlobs
        /\ Named(Pruned(all)) \subseteq Named(all) /\ Distinct(Pruned(all))
    BY <2>3, PrunedIs
  <2>6. Good(AfterStored(j, shas))
    BY <2>2, <2>4, <2>5, GoodFields, JournalAssumption DEF MaxRefusals
  <2>7. AfterStored(j, shas).blobs = Pruned(all)
    BY <2>4
  <2> QED BY <2>1, <2>3, <2>5, <2>6, <2>7
<1> QED BY <1>1, <1>2

\* The cap never costs an attempt what it has just stored itself, if the files
\* of one site fit.
LEMMA StoredEndsWith ==
    ASSUME Roomy, NEW j, Good(j), NEW shas \in Seq(Blobs), Distinct(shas), shas # <<>>,
           Named(shas) \cap Named(j.blobs) = {},
           NEW sent \in SUBSET Site, Named(shas) \subseteq sent,
           EndsWith(j.blobs, sent, Named(shas))
    PROVE  EndsWith(AfterStored(j, shas).blobs, sent, {})
<1> DEFINE rest == Without(shas, Named(j.blobs))
           all == j.blobs \o rest
<1>1. rest \in Seq(Blobs) /\ Named(rest) = Named(shas) /\ Distinct(rest)
  <2>1. /\ rest \in Seq(Blobs) /\ Named(rest) = Named(shas) \ Named(j.blobs)
        /\ Distinct(rest)
    BY WithoutIs
  <2> QED BY <2>1
<1>2. j.blobs \in Seq(Blobs) /\ Distinct(j.blobs) /\ Len(j.blobs) \in Nat
  BY DEF Good, Journals
<1>3. AfterStored(j, shas).blobs = Pruned(all)
  <2>1. AfterStored(j, shas) = [j EXCEPT !.blobs = Pruned(all), !.refusals = 0]
    BY DEF AfterStored
  <2> HIDE DEF all
  <2> QED BY <2>1 DEF Good, Journals
<1> HIDE DEF rest
<1>4. PICK p \in 0 .. Len(j.blobs) :
        After(j.blobs, p) \subseteq sent /\ sent \subseteq After(j.blobs, p) \cup Named(shas)
  BY DEF EndsWith
<1>5. /\ all \in Seq(Blobs) /\ Distinct(all)
      /\ After(all, p) = After(j.blobs, p) \cup Named(rest)
  BY <1>1, <1>2, ConcatIs
<1>6. After(all, p) = sent
  BY <1>1, <1>4, <1>5
<1>7. Len(all) \in Nat /\ p \in 0 .. Len(all) /\ p \in Nat
  BY <1>1, <1>2
<1> HIDE DEF all
<1>8. Len(all) - p <= Cardinality(Site)
  BY <1>5, <1>6, <1>7, SiteFits, DistinctFit
<1>9. Len(all) - p <= MaxBlobs
  BY <1>7, <1>8, SiteFits, JournalAssumption DEF Roomy
<1>10. PICK q \in 0 .. Len(Pruned(all)) : After(Pruned(all), q) = After(all, p)
  BY <1>5, <1>7, <1>9, PrunedIs
<1> QED BY <1>3, <1>6, <1>10 DEF EndsWith

\* Forgetting leaves the rest.
LEMMA WithoutBlobsIs ==
    ASSUME NEW j, Good(j), NEW S
    PROVE  Good(WithoutBlobs(j, S)) /\ Named(WithoutBlobs(j, S).blobs) \subseteq Named(j.blobs)
<1>1. /\ j.blobs \in Seq(Blobs) /\ Distinct(j.blobs) /\ Len(j.blobs) <= MaxBlobs
      /\ Len(j.blobs) \in Nat /\ j.pause \in 0 .. MaxPause /\ j.refusals \in 0 .. MaxRefusals
  BY DEF Good, Journals
<1> DEFINE rest == Without(j.blobs, S)
<1>2. /\ rest \in Seq(Blobs) /\ Distinct(rest) /\ Len(rest) <= Len(j.blobs)
      /\ Named(rest) \subseteq Named(j.blobs) /\ Len(rest) \in Nat
  BY <1>1, WithoutIs
<1>3. WithoutBlobs(j, S) = [blobs |-> rest, pause |-> j.pause, refusals |-> j.refusals]
  BY DEF WithoutBlobs, Good, Journals
<1> HIDE DEF rest
<1>4. Len(rest) <= MaxBlobs
  BY <1>1, <1>2, JournalAssumption
<1> QED BY <1>1, <1>2, <1>3, <1>4, GoodFields

LEMMA CommittedIs ==
    ASSUME NEW j, Good(j), NEW S
    PROVE  Good(AfterCommitted(j, S)) /\ Named(AfterCommitted(j, S).blobs) \subseteq Named(j.blobs)
<1> DEFINE w == WithoutBlobs(j, S)
<1>1. Good(w) /\ Named(w.blobs) \subseteq Named(j.blobs)
  BY WithoutBlobsIs
<1>2. AfterCommitted(j, S) = [w EXCEPT !.pause = 0, !.refusals = 0]
  BY DEF AfterCommitted
<1> HIDE DEF w
<1>3. AfterCommitted(j, S) = [blobs |-> w.blobs, pause |-> 0, refusals |-> 0]
  BY <1>1, <1>2 DEF Good, Journals
<1> QED BY <1>1, <1>3, GoodFields, JournalAssumption DEF Good, Journals, MaxRefusals

LEMMA RefusalIs ==
    ASSUME NEW j, Good(j), NEW hint \in 0 .. MaxPause
    PROVE  Good(AfterRefusal(j, hint)) /\ AfterRefusal(j, hint).blobs = j.blobs
<1>1. /\ j.blobs \in Seq(Blobs) /\ Distinct(j.blobs) /\ Len(j.blobs) <= MaxBlobs
      /\ IsJournal(j)
  BY DEF Good, Journals, IsJournal
<1>2. IsJournal(AfterRefusal(j, hint))
  BY <1>1, RefusalPauses
<1>3. AfterRefusal(j, hint).blobs = j.blobs
  BY DEF AfterRefusal, Good, Journals
<1> HIDE DEF AfterRefusal
<1> QED BY <1>1, <1>2, <1>3, GoodFields DEF IsJournal

\* A new page makes the last one old, in the journal as on GitHub.
LEMMA AgedIs ==
    ASSUME NEW blobs \in Seq(Blobs), Distinct(blobs)
    PROVE  /\ AgedBlobs(blobs) \in Seq(Blobs) /\ Len(AgedBlobs(blobs)) <= Len(blobs)
           /\ Distinct(AgedBlobs(blobs)) /\ Named(AgedBlobs(blobs)) = Aged(Named(blobs))
<1> DEFINE kept == Without(blobs, {Old})
           n == Len(kept)
           Age(b) == IF b = Page THEN Old ELSE b
           aged == [i \in 1 .. n |-> Age(kept[i])]
<1>1. /\ kept \in Seq(Blobs) /\ n \in Nat /\ n <= Len(blobs)
      /\ Named(kept) = Named(blobs) \ {Old} /\ Distinct(kept)
  BY WithoutIs
<1>2. CASE Page \notin Named(blobs)
  BY <1>2 DEF AgedBlobs, Aged
<1>3. CASE Page \in Named(blobs)
  <2>1. AgedBlobs(blobs) = aged
    BY <1>3 DEF AgedBlobs
  <2> HIDE DEF kept
  <2>2. ASSUME NEW i \in 1 .. n PROVE kept[i] \in Blobs /\ kept[i] # Old
    <3>1. kept[i] \in Named(kept)
      BY DEF Named
    <3> QED BY <1>1, <3>1
  <2>3. aged \in Seq(Blobs) /\ Len(aged) = n /\ \A i \in 1 .. n : aged[i] = Age(kept[i])
    BY <1>1, <2>2 DEF Blobs
  <2> HIDE DEF aged
  <2>4. \A i, k \in 1 .. n : Age(kept[i]) = Age(kept[k]) => i = k
    BY <1>1, <2>2 DEF Distinct
  <2>5. Named(aged) = {Age(b) : b \in Named(kept)}
    BY <2>3 DEF Named
  <2>6. {Age(b) : b \in Named(kept)} = (Named(blobs) \ {Page}) \cup {Old}
    BY <1>1, <1>3 DEF Page, Old
  <2> QED BY <1>1, <1>3, <2>1, <2>3, <2>4, <2>5, <2>6 DEF Distinct, Aged
<1> QED BY <1>2, <1>3

-----------------------------------------------------------------------------
(* What is remembered: the invariant                                        *)

Runs == [files: SUBSET Blobs, send: SUBSET Blobs, held: SUBSET Blobs, working: Journals,
         pending: Seq(Blobs), sent: SUBSET Blobs, unsaved: BOOLEAN, moved: BOOLEAN]

\* What GitHub has confirmed, and may have thrown away since.
Knows(g) == g.stored \cup g.gone

\* The copy an attempt works on: what it sent is what it remembers last, and it
\* sends nothing that the copy or the pending list names.
RunHolds(r, known) ==
    /\ r \in Runs /\ Good(r.working) /\ Distinct(r.pending)
    /\ r.files \subseteq Site /\ r.send \subseteq Site /\ r.sent \subseteq Site
    /\ Named(r.pending) \subseteq r.sent /\ r.sent \cap r.send = {}
    /\ Len(r.pending) < SaveEvery
    /\ Named(r.working.blobs) \cup Named(r.pending) \subseteq known
    /\ Named(r.working.blobs) \cap (r.send \cup Named(r.pending)) = {}
    /\ Roomy => EndsWith(r.working.blobs, r.sent, Named(r.pending))

HeldInv ==
    /\ pc \in {"idle", "look", "read", "ref", "blob", "commit", "move"} /\ events \in 0 .. MaxEvents
    /\ Good(disk) /\ Named(disk.blobs) \subseteq Knows(gh)
    /\ RunHolds(run, Knows(gh))
    /\ pc \notin Requests => run.sent = {} /\ run.pending = <<>> /\ run.working = EmptyJournal
    /\ pc \in Requests /\ ~run.unsaved => Named(run.working.blobs) \subseteq Named(disk.blobs)

\* An attempt that has not begun.
LEMMA NoRunHolds ==
    ASSUME NEW known
    PROVE  RunHolds(NoRun, known)
<1>1. NoRun \in Runs /\ Good(NoRun.working) /\ Distinct(NoRun.pending)
  BY EmptyIsGood DEF NoRun, Runs, Distinct, Good
<1>2. Named(NoRun.pending) = {} /\ Named(NoRun.working.blobs) = {}
  <2>1. NoRun.pending = <<>> /\ NoRun.working = EmptyJournal /\ EmptyJournal.blobs = <<>>
    BY DEF NoRun, EmptyJournal
  <2> QED BY <2>1 DEF Named
<1>3. EndsWith(NoRun.working.blobs, NoRun.sent, Named(NoRun.pending))
  BY DEF NoRun, EmptyJournal, EndsWith, After
<1> QED BY <1>1, <1>2, <1>3, JournalAssumption DEF RunHolds, NoRun

\* What an attempt has stored, saved or not.
LEMMA UnsavedIs ==
    ASSUME HeldInv
    PROVE  Good(Unsaved) /\ Named(Unsaved.blobs) \subseteq Knows(gh)
<1>1. /\ Good(run.working) /\ run.pending \in Seq(Blobs) /\ Distinct(run.pending)
      /\ Named(run.working.blobs) \cup Named(run.pending) \subseteq Knows(gh)
  BY DEF HeldInv, RunHolds, Runs
<1> QED BY <1>1, StoredIs DEF Unsaved

\* A save is tried: the journal is the new one or the old one.
LEMMA PersistIs ==
    ASSUME NEW next, NEW left \in 0 .. MaxEvents, Persist(next, left)
    PROVE  events' \in 0 .. MaxEvents /\ (disk' = next \/ (disk' = disk /\ disk' # next))
BY JournalAssumption DEF Persist

LEMMA SpentIs ==
    ASSUME HeldInv, NEW kind, NEW left \in Spent(kind)
    PROVE  left \in 0 .. MaxEvents
BY JournalAssumption DEF HeldInv, Spent

\* An attempt ends with a journal that names nothing unconfirmed.
LEMMA HeldEnds ==
    ASSUME HeldInv, Ends, NEW j, Good(j), Named(j.blobs) \subseteq Knows(gh),
           disk' = j \/ disk' = disk, Knows(gh) \subseteq Knows(gh'),
           events' \in 0 .. MaxEvents
    PROVE  HeldInv'
<1>1. Good(disk') /\ Named(disk'.blobs) \subseteq Knows(gh')
  BY DEF HeldInv
<1>2. RunHolds(run', Knows(gh')) /\ pc' = "idle"
  BY NoRunHolds DEF Ends
<1>3. run'.sent = {} /\ run'.pending = <<>> /\ run'.working = EmptyJournal
  BY DEF Ends, NoRun
<1> QED BY <1>1, <1>2, <1>3 DEF HeldInv, Requests

\* A request that is counted, lands or stores forgets nothing on GitHub.
LEMMA KnowsGrows ==
    ASSUME IInv
    PROVE  /\ Knows(Counted) = Knows(gh) /\ Knows(Landed) = Knows(gh)
           /\ \A f : Knows(Stores(f)) = Knows(gh) \cup {f}
BY DEF IInv, Places, Knows, Counted, Landed, Stores

-----------------------------------------------------------------------------
(* What is remembered: the steps                                            *)

\* A list names no more blobs than it has entries.
LEMMA NamedIsSmall ==
    ASSUME NEW T, NEW s \in Seq(T)
    PROVE  IsFiniteSet(Named(s)) /\ Cardinality(Named(s)) <= Len(s)
<1> DEFINE n == Len(s)
           f == [i \in 1 .. n |-> s[i]]
<1>1. n \in Nat /\ 1 \in Int /\ n \in Int /\ (1 > n => n = 0) /\ n - 1 + 1 = n
  OBVIOUS
<1>2. f \in Surjection(1 .. n, Named(s))
  <2>1. f \in [1 .. n -> Named(s)]
    BY DEF Named
  <2>2. \A b \in Named(s) : \E i \in 1 .. n : f[i] = b
    BY DEF Named
  <2> QED BY <2>1, <2>2 DEF Surjection
<1> HIDE DEF f, n
<1>3. IsFiniteSet(1 .. n) /\ Cardinality(1 .. n) = n
  BY <1>1, FS_Interval
<1>4. IsFiniteSet(Named(s)) /\ Cardinality(Named(s)) <= n
  BY <1>2, <1>3, FS_Surjection
<1> QED BY <1>4 DEF n

\* A blob more is pending.
LEMMA AppendIs ==
    ASSUME NEW T, NEW s \in Seq(T), NEW f \in T
    PROVE  /\ Append(s, f) \in Seq(T) /\ Append(s, f) # <<>>
           /\ Named(Append(s, f)) = Named(s) \cup {f}
           /\ Distinct(s) /\ f \notin Named(s) => Distinct(Append(s, f))
<1> DEFINE one == <<f>>
<1>1. /\ one \in Seq(T) /\ Named(one) = {f} /\ Distinct(one) /\ Append(s, f) = s \o one
  <2>1. one \in Seq(T) /\ Len(one) = 1 /\ one[1] = f /\ Append(s, f) = s \o one
    OBVIOUS
  <2>2. 1 .. 1 = {1}
    OBVIOUS
  <2> HIDE DEF one
  <2> QED BY <2>1, <2>2 DEF Named, Distinct
<1>2. Append(s, f) # <<>>
  <2>1. Len(Append(s, f)) = Len(s) + 1 /\ Len(s) \in Nat /\ Len(<<>>) = 0
    OBVIOUS
  <2> QED BY <2>1
<1> HIDE DEF one
<1>3. /\ s \o one \in Seq(T) /\ Named(s \o one) = Named(s) \cup Named(one)
      /\ Distinct(s) /\ Distinct(one) /\ Named(s) \cap Named(one) = {} => Distinct(s \o one)
  BY <1>1, ConcatIs
<1>4. f \notin Named(s) => Named(s) \cap Named(one) = {}
  BY <1>1
<1> QED BY <1>1, <1>2, <1>3, <1>4

\* A publish begins with no run and an older page.
LEMMA BeginHolds ==
    ASSUME IInv, HeldInv, NEW files \in SUBSET Site, Begin(files), events' \in 0 .. MaxEvents
    PROVE  HeldInv'
<1>1. \A S, T : /\ Aged(S \cup T) = Aged(S) \cup Aged(T)
                /\ S \subseteq T => Aged(S) \subseteq Aged(T)
  BY DEF Aged
<1>2. Knows(gh') = Aged(Knows(gh))
  BY <1>1 DEF Begin, IInv, Places, Knows
<1>3. Good(disk') /\ Named(disk'.blobs) = Aged(Named(disk.blobs))
  <2>1. /\ disk.blobs \in Seq(Blobs) /\ Distinct(disk.blobs) /\ Len(disk.blobs) <= MaxBlobs
        /\ disk.pause \in 0 .. MaxPause /\ disk.refusals \in 0 .. MaxRefusals
    BY DEF HeldInv, Good, Journals
  <2> DEFINE aged == AgedBlobs(disk.blobs)
  <2>2. /\ aged \in Seq(Blobs) /\ Len(aged) <= Len(disk.blobs) /\ Distinct(aged)
        /\ Named(aged) = Aged(Named(disk.blobs))
    BY <2>1, AgedIs
  <2>3. disk' = [disk EXCEPT !.blobs = aged]
    BY DEF Begin
  <2> HIDE DEF aged
  <2>4. disk' = [blobs |-> aged, pause |-> disk.pause, refusals |-> disk.refusals]
    BY <2>3 DEF HeldInv, Good, Journals
  <2>5. Len(aged) <= MaxBlobs
    BY <2>1, <2>2, JournalAssumption
  <2> QED BY <2>1, <2>2, <2>4, <2>5, GoodFields
<1>4. Named(disk'.blobs) \subseteq Knows(gh')
  BY <1>1, <1>2, <1>3 DEF HeldInv
<1>5. RunHolds(run', Knows(gh'))
  <2>1. run' = [NoRun EXCEPT !.files = files]
    BY DEF Begin
  <2>2. /\ run'.files = files /\ run'.send = {} /\ run'.sent = {}
        /\ run'.working = NoRun.working /\ run'.pending = NoRun.pending
    BY <2>1 DEF NoRun
  <2>3. RunHolds(NoRun, Knows(gh')) /\ NoRun.sent = {} /\ NoRun.pending = <<>>
    BY NoRunHolds DEF NoRun
  <2>4. run' \in Runs
    <3>1. files \subseteq Blobs
      BY SiteFits
    <3> QED BY <2>1, <2>3, <3>1 DEF RunHolds, Runs
  <2>5. Named(NoRun.working.blobs) = {}
    BY EmptyIsGood DEF NoRun
  <2> QED BY <2>2, <2>3, <2>4, <2>5 DEF RunHolds
<1>6. pc' = "look" /\ run'.sent = {} /\ run'.pending = <<>> /\ run'.working = EmptyJournal
  BY DEF Begin, NoRun
<1> QED BY <1>3, <1>4, <1>5, <1>6 DEF HeldInv, Requests

\* The branch is read: what its tree does not hold is to be sent.
LEMMA LookHolds == ASSUME HeldInv, Look PROVE HeldInv'
<1>1. /\ run' = [run EXCEPT !.send = run.files \ gh.tree]
      /\ pc = "look" /\ pc' = "read" /\ UNCHANGED <<gh, disk, events>>
  BY DEF Look
<1>2. RunHolds(run, Knows(gh)) /\ run \in Runs
  BY DEF HeldInv, RunHolds
<1>3. /\ run'.send = run.files \ gh.tree /\ run'.working = run.working
      /\ run'.files = run.files /\ run'.sent = run.sent /\ run'.pending = run.pending
  BY <1>1, <1>2 DEF Runs
<1>4. run' \in Runs
  <2>1. run.files \ gh.tree \in SUBSET Blobs
    BY <1>2 DEF Runs
  <2> QED BY <1>1, <1>2, <2>1 DEF Runs
<1>5. run.sent = {} /\ run.pending = <<>> /\ run.working = EmptyJournal
  BY <1>1 DEF HeldInv, Requests
<1>6. Named(run.working.blobs) = {} /\ Named(run.pending) = {}
  <2>1. Named(<<>>) = {}
    BY DEF Named
  <2> QED BY <1>5, <2>1, EmptyIsGood
<1>7. RunHolds(run', Knows(gh'))
  BY <1>1, <1>2, <1>3, <1>4, <1>5, <1>6 DEF RunHolds
<1> QED BY <1>1, <1>3, <1>5, <1>7 DEF HeldInv, Requests

\* The journal is read: what it names is not sent.
LEMMA ResumeHolds == ASSUME HeldInv, Resume PROVE HeldInv'
<1>1. CASE Ends
  <2>1. UNCHANGED <<gh, disk, events>>
    BY DEF Resume
  <2> QED BY <1>1, <2>1, HeldEnds DEF HeldInv
<1>2. CASE ~Ends
  <2> DEFINE held == Named(disk.blobs) \cap run.send
  <2>1. /\ run' = [run EXCEPT !.held = held, !.send = @ \ held, !.working = disk]
        /\ pc = "read" /\ pc' = "ref" /\ UNCHANGED <<gh, disk, events>>
    BY <1>2 DEF Resume
  <2>2. run \in Runs /\ RunHolds(run, Knows(gh)) /\ Good(disk)
    BY DEF HeldInv, RunHolds
  <2>3. /\ run'.send = run.send \ held /\ run'.working = disk /\ run'.files = run.files
        /\ run'.sent = run.sent /\ run'.pending = run.pending
    BY <2>1, <2>2 DEF Runs
  <2>4. run' \in Runs
    <3>1. held \in SUBSET Blobs /\ run.send \ held \in SUBSET Blobs /\ disk \in Journals
      BY <2>2 DEF Runs, Good
    <3> HIDE DEF held
    <3> QED BY <2>1, <2>2, <3>1 DEF Runs
  <2>5. run.sent = {} /\ run.pending = <<>> /\ Named(run.pending) = {}
    BY <2>1 DEF HeldInv, Requests, Named
  <2>6. EndsWith(disk.blobs, {}, Named(run.pending))
    <3>1. Len(disk.blobs) \in Nat /\ After(disk.blobs, Len(disk.blobs)) = {}
      BY <2>2 DEF Good, Journals, After
    <3> QED BY <3>1 DEF EndsWith
  <2>7. Named(disk.blobs) \cap (run'.send \cup Named(run.pending)) = {}
    BY <2>3, <2>5
  <2>8. RunHolds(run', Knows(gh'))
    BY <2>1, <2>2, <2>3, <2>4, <2>5, <2>6, <2>7 DEF HeldInv, RunHolds
  <2> QED BY <2>1, <2>3, <2>8 DEF HeldInv, Requests
<1> QED BY <1>1, <1>2

\* The head is read and compared.
LEMMA CheckHeadHolds == ASSUME HeldInv, CheckHead PROVE HeldInv'
<1>1. pc \in Requests /\ gh' = gh /\ events \in 0 .. MaxEvents
  BY DEF CheckHead, Requests, HeldInv
<1>2. CASE run.moved
  <2>1. Ends /\ Persist(Unsaved, events)
    BY <1>2 DEF CheckHead
  <2>2. events' \in 0 .. MaxEvents /\ (disk' = Unsaved \/ disk' = disk)
    BY <1>1, <2>1, PersistIs
  <2> QED BY <1>1, <2>1, <2>2, UnsavedIs, HeldEnds
<1>3. CASE ~run.moved
  <2>1. UNCHANGED <<gh, disk, run, events>> /\ pc' = "blob"
    BY <1>3 DEF CheckHead
  <2> QED BY <1>1, <2>1 DEF HeldInv, Requests
<1> QED BY <1>2, <1>3

\* What an attempt knows when one more of its blobs is confirmed.
LEMMA PendingHolds ==
    ASSUME IInv, HeldInv, NEW f \in run.send, gh' = Stores(f)
    PROVE  LET pending == Append(run.pending, f)
               sent == run.sent \cup {f}
           IN /\ pending \in Seq(Blobs) /\ pending # <<>> /\ Distinct(pending)
              /\ f \in Site /\ sent \in SUBSET Site /\ Named(pending) \subseteq sent
              /\ sent \cap (run.send \ {f}) = {}
              /\ Named(run.working.blobs) \cap ((run.send \ {f}) \cup Named(pending)) = {}
              /\ Named(run.working.blobs) \cup Named(pending) \subseteq Knows(gh')
              /\ Roomy => EndsWith(run.working.blobs, sent, Named(pending))
              /\ Knows(gh) \subseteq Knows(gh')
<1> DEFINE pending == Append(run.pending, f)
           sent == run.sent \cup {f}
<1>1. /\ run.pending \in Seq(Blobs) /\ Distinct(run.pending) /\ f \in Site /\ f \in Blobs
      /\ f \notin run.sent /\ f \notin Named(run.pending) /\ run.sent \subseteq Site
      /\ Named(run.pending) \subseteq run.sent /\ run.sent \cap run.send = {}
      /\ Named(run.working.blobs) \cup Named(run.pending) \subseteq Knows(gh)
      /\ Named(run.working.blobs) \cap (run.send \cup Named(run.pending)) = {}
  BY SiteFits DEF HeldInv, RunHolds, Runs
<1>2. /\ pending \in Seq(Blobs) /\ pending # <<>> /\ Distinct(pending)
      /\ Named(pending) = Named(run.pending) \cup {f}
  BY <1>1, AppendIs
<1>3. Knows(gh') = Knows(gh) \cup {f}
  BY KnowsGrows
<1>4. ASSUME Roomy
      PROVE  EndsWith(run.working.blobs, sent, Named(pending))
  <2>1. PICK p \in 0 .. Len(run.working.blobs) :
          /\ After(run.working.blobs, p) \subseteq run.sent
          /\ run.sent \subseteq After(run.working.blobs, p) \cup Named(run.pending)
    BY <1>4 DEF HeldInv, RunHolds, EndsWith
  <2>2. /\ After(run.working.blobs, p) \subseteq sent
        /\ sent \subseteq After(run.working.blobs, p) \cup Named(pending)
    BY <1>2, <2>1
  <2> HIDE DEF pending, sent
  <2> QED BY <2>1, <2>2 DEF EndsWith
<1> HIDE DEF pending
<1>5. /\ sent \in SUBSET Site /\ Named(pending) \subseteq sent
      /\ sent \cap (run.send \ {f}) = {}
      /\ Named(run.working.blobs) \cap ((run.send \ {f}) \cup Named(pending)) = {}
      /\ Named(run.working.blobs) \cup Named(pending) \subseteq Knows(gh')
  BY <1>1, <1>2, <1>3
<1> QED BY <1>1, <1>2, <1>3, <1>4, <1>5 DEF pending

\* A confirmed blob is remembered, and every SaveEvery of them are saved.
LEMMA RememberHolds ==
    ASSUME IInv, HeldInv, NEW f \in run.send, gh' = Stores(f), Remember(f),
           pc \in Requests, pc' = pc
    PROVE  HeldInv'
<1> DEFINE pending == Append(run.pending, f)
           sent == run.sent \cup {f}
           working == AfterStored(run.working, pending)
           next == [run EXCEPT !.send = @ \ {f}, !.sent = @ \cup {f}]
<1>1. /\ pending \in Seq(Blobs) /\ pending # <<>> /\ Distinct(pending)
      /\ f \in Site /\ sent \in SUBSET Site /\ Named(pending) \subseteq sent
      /\ sent \cap (run.send \ {f}) = {}
      /\ Named(run.working.blobs) \cap ((run.send \ {f}) \cup Named(pending)) = {}
      /\ Named(run.working.blobs) \cup Named(pending) \subseteq Knows(gh')
      /\ Roomy => EndsWith(run.working.blobs, sent, Named(pending))
      /\ Knows(gh) \subseteq Knows(gh')
  BY PendingHolds
<1>2. /\ Good(run.working) /\ Good(disk) /\ run \in Runs /\ events \in 0 .. MaxEvents
      /\ run.files \subseteq Site /\ run.send \subseteq Site
      /\ Named(disk.blobs) \subseteq Knows(gh)
  BY DEF HeldInv, RunHolds
<1>3. /\ Good(working)
      /\ Named(working.blobs) \subseteq Named(run.working.blobs) \cup Named(pending)
      /\ Roomy => EndsWith(working.blobs, sent, {})
  <2> HIDE DEF pending, sent
  <2>1. Named(pending) \cap Named(run.working.blobs) = {}
    BY <1>1
  <2> QED BY <1>1, <1>2, <2>1, StoredIs, StoredEndsWith
<1>4. CASE Len(pending) < SaveEvery
  <2>1. run' = [next EXCEPT !.pending = pending] /\ UNCHANGED <<disk, events>>
    BY <1>4 DEF Remember
  <2> HIDE DEF pending
  <2>2. run' = [run EXCEPT !.send = @ \ {f}, !.sent = @ \cup {f}, !.pending = pending]
    BY <1>2, <2>1 DEF Runs
  <2>3. /\ run'.send = run.send \ {f} /\ run'.sent = sent /\ run'.pending = pending
        /\ run'.working = run.working /\ run'.files = run.files /\ run'.unsaved = run.unsaved
    BY <1>2, <2>2 DEF Runs
  <2>4. run' \in Runs
    <3>1. run.send \ {f} \in SUBSET Blobs /\ run.sent \cup {f} \in SUBSET Blobs
      BY <1>1, <1>2, SiteFits DEF Runs
    <3> QED BY <1>1, <1>2, <2>2, <3>1 DEF Runs
  <2> HIDE DEF sent
  <2>5. RunHolds(run', Knows(gh'))
    BY <1>1, <1>2, <1>4, <2>3, <2>4 DEF RunHolds
  <2> QED BY <1>1, <1>2, <2>1, <2>3, <2>5 DEF HeldInv
<1>5. CASE ~(Len(pending) < SaveEvery)
  <2>1. /\ Persist(working, events)
        /\ run' = [next EXCEPT !.pending = <<>>, !.working = working,
                               !.unsaved = disk' # working]
    BY <1>5 DEF Remember
  <2>2. events' \in 0 .. MaxEvents /\ (disk' = working \/ (disk' = disk /\ disk' # working))
    <3> HIDE DEF working
    <3> QED BY <1>2, <2>1, PersistIs
  <2> HIDE DEF pending, working
  <2>3. run' = [run EXCEPT !.send = @ \ {f}, !.sent = @ \cup {f}, !.pending = <<>>,
                           !.working = working, !.unsaved = disk' # working]
    BY <1>2, <2>1 DEF Runs
  <2>4. /\ run'.send = run.send \ {f} /\ run'.sent = sent /\ run'.pending = <<>>
        /\ run'.working = working /\ run'.files = run.files
        /\ run'.unsaved = (disk' # working)
    BY <1>2, <2>3 DEF Runs
  <2>5. run' \in Runs
    <3>1. /\ run.send \ {f} \in SUBSET Blobs /\ run.sent \cup {f} \in SUBSET Blobs
          /\ working \in Journals /\ <<>> \in Seq(Blobs) /\ (disk' # working) \in BOOLEAN
      BY <1>1, <1>2, <1>3, SiteFits DEF Runs, Good
    <3> QED BY <1>2, <2>3, <3>1 DEF Runs
  <2>6. Named(<<>>) = {} /\ Distinct(<<>>) /\ Len(<<>>) < SaveEvery
    BY JournalAssumption DEF Named, Distinct
  <2> HIDE DEF sent
  <2>7. RunHolds(run', Knows(gh'))
    BY <1>1, <1>2, <1>3, <2>4, <2>5, <2>6 DEF RunHolds
  <2>8. Good(disk') /\ Named(disk'.blobs) \subseteq Knows(gh')
    BY <1>1, <1>2, <1>3, <2>2
  <2> QED BY <1>1, <2>2, <2>4, <2>7, <2>8 DEF HeldInv
<1> QED BY <1>4, <1>5

\* A blob is sent, and confirmed or not.
LEMMA SendBlobHolds ==
    ASSUME IInv, HeldInv, NEW f, SendBlob(f)
    PROVE  HeldInv'
<1>1. pc \in Requests /\ pc' = pc /\ f \in run.send /\ gh' = Stores(f)
  BY DEF SendBlob, Requests
<1>2. CASE Remember(f)
  BY <1>1, <1>2, RememberHolds
<1>3. CASE events' \in Spent("unproven") /\ run' = [run EXCEPT !.send = @ \ {f}] /\ disk' = disk
  <2>1. run \in Runs /\ RunHolds(run, Knows(gh))
    BY DEF HeldInv, RunHolds
  <2>2. /\ run'.send = run.send \ {f} /\ run'.sent = run.sent /\ run'.pending = run.pending
        /\ run'.working = run.working /\ run'.files = run.files /\ run'.unsaved = run.unsaved
        /\ run' \in Runs
    BY <1>3, <2>1 DEF Runs
  <2>3. Knows(gh) \subseteq Knows(gh') /\ events' \in 0 .. MaxEvents
    BY <1>1, <1>3, KnowsGrows, SpentIs
  <2>4. RunHolds(run', Knows(gh'))
    BY <2>1, <2>2, <2>3 DEF RunHolds
  <2> QED BY <1>1, <1>3, <2>2, <2>3, <2>4 DEF HeldInv
<1> QED BY <1>2, <1>3 DEF SendBlob

\* A 422 ends the attempt and may forget what was named on trust.
LEMMA UnprocessableHolds ==
    ASSUME HeldInv, Unprocessable, Knows(gh) \subseteq Knows(gh')
    PROVE  HeldInv'
<1> DEFINE j == IF run.held = {} THEN Unsaved ELSE WithoutBlobs(Unsaved, run.held)
<1>1. Good(j) /\ Named(j.blobs) \subseteq Knows(gh)
  <2>1. Good(Unsaved) /\ Named(Unsaved.blobs) \subseteq Knows(gh)
    BY UnsavedIs
  <2> QED BY <2>1, WithoutBlobsIs
<1>2. Ends /\ Persist(j, events) /\ events \in 0 .. MaxEvents
  BY DEF Unprocessable, HeldInv
<1> HIDE DEF j
<1>3. events' \in 0 .. MaxEvents /\ (disk' = j \/ disk' = disk)
  BY <1>2, PersistIs
<1> QED BY <1>1, <1>2, <1>3, HeldEnds

\* A request that is answered and stores no blob.
LEMMA RequestsHold ==
    ASSUME IInv, HeldInv, PostTree \/ PostCommit \/ MoveRef
    PROVE  HeldInv'
<1>1. gh' \in {Counted, Landed} /\ pc \in Requests /\ events \in 0 .. MaxEvents
  BY DEF PostTree, PostCommit, MoveRef, Requests, HeldInv
<1>2. Knows(gh') = Knows(gh)
  BY <1>1, KnowsGrows
<1>3. CASE Unprocessable
  BY <1>2, <1>3, UnprocessableHolds
<1>4. CASE pc' \in {"commit", "move"} /\ UNCHANGED <<run, disk, events>>
  BY <1>1, <1>2, <1>4 DEF HeldInv, Requests
<1>5. CASE Ends /\ Persist(Unsaved, events)
  <2>1. events' \in 0 .. MaxEvents /\ (disk' = Unsaved \/ disk' = disk)
    BY <1>1, <1>5, PersistIs
  <2> QED BY <1>2, <1>5, <2>1, UnsavedIs, HeldEnds
<1>6. CASE Ends /\ Persist(AfterCommitted(run.working, run.files), events)
  <2> DEFINE j == AfterCommitted(run.working, run.files)
  <2>1. Good(j) /\ Named(j.blobs) \subseteq Knows(gh)
    <3>1. Good(run.working) /\ Named(run.working.blobs) \subseteq Knows(gh)
      BY DEF HeldInv, RunHolds
    <3> QED BY <3>1, CommittedIs
  <2> HIDE DEF j
  <2>2. events' \in 0 .. MaxEvents /\ (disk' = j \/ disk' = disk)
    BY <1>1, <1>6, PersistIs DEF j
  <2> QED BY <1>2, <1>6, <2>1, <2>2, HeldEnds
<1> QED
  BY <1>3, <1>4, <1>5, <1>6 DEF PostTree, PostCommit, MoveRef, Requests

\* A refusal, or a connection that drops, ends the attempt.
LEMMA FailsHold ==
    ASSUME IInv, HeldInv, RateLimited \/ Dropped
    PROVE  HeldInv'
<1>1. Good(Unsaved) /\ Named(Unsaved.blobs) \subseteq Knows(gh)
  BY UnsavedIs
<1>2. CASE RateLimited
  <2>1. PICK left \in Spent("limit") \cup {events}, hint \in Hints :
          /\ gh' = Refuses(hint)
          /\ Persist(AfterRefusal(Unsaved, hint), left)
    BY <1>2 DEF RateLimited
  <2> DEFINE j == AfterRefusal(Unsaved, hint)
  <2>2. hint \in 0 .. MaxPause
    BY RefusesIs DEF IInv
  <2>3. Good(j) /\ j.blobs = Unsaved.blobs
    BY <1>1, <2>2, RefusalIs
  <2>4. left \in 0 .. MaxEvents
    BY SpentIs DEF HeldInv
  <2>5. Knows(gh') = Knows(gh)
    BY <2>1 DEF Refuses, IInv, Places, Knows
  <2> HIDE DEF j
  <2>6. events' \in 0 .. MaxEvents /\ (disk' = j \/ disk' = disk)
    BY <2>1, <2>4, PersistIs DEF j
  <2>7. Ends
    BY <1>2 DEF RateLimited
  <2> QED BY <1>1, <2>3, <2>5, <2>6, <2>7, HeldEnds
<1>3. CASE Dropped
  <2>1. PICK left \in Spent("net") : Persist(Unsaved, left)
    BY <1>3 DEF Dropped
  <2>2. events' \in 0 .. MaxEvents /\ (disk' = Unsaved \/ disk' = disk)
    BY <2>1, SpentIs, PersistIs
  <2>3. Knows(gh) \subseteq Knows(gh')
    <3>1. gh' = gh \/ gh' = Landed \/ \E f \in run.send : gh' = Stores(f)
      BY <1>3 DEF Dropped
    <3> QED BY <3>1, KnowsGrows
  <2>4. Ends
    BY <1>3 DEF Dropped
  <2> QED BY <1>1, <2>2, <2>3, <2>4, HeldEnds
<1> QED BY <1>2, <1>3

\* A read that fails changes nothing but what GitHub asks for.
LEMMA LookFailsHolds ==
    ASSUME IInv, HeldInv, LookFails
    PROVE  HeldInv'
<1>1. Ends /\ disk' = disk /\ (gh' = gh \/ \E hint \in Hints : gh' = Refuses(hint))
  BY DEF LookFails
<1>2. events' \in 0 .. MaxEvents
  BY SpentIs DEF LookFails, HeldInv
<1>3. Knows(gh') = Knows(gh)
  BY <1>1 DEF Refuses, IInv, Places, Knows
<1> QED BY <1>1, <1>2, <1>3, HeldEnds DEF HeldInv

\* Ages drops the oldest.
LEMMA OldestDropped ==
    ASSUME NEW j, Good(j), NEW m \in 1 .. Len(j.blobs)
    PROVE  LET k == [j EXCEPT !.blobs = SubSeq(@, m + 1, Len(@))]
           IN Good(k) /\ Named(k.blobs) \subseteq Named(j.blobs)
<1> DEFINE blobs == j.blobs
           n == Len(blobs)
           rest == SubSeq(blobs, m + 1, n)
<1>1. /\ blobs \in Seq(Blobs) /\ Distinct(blobs) /\ n <= MaxBlobs /\ n \in Nat /\ m \in 1 .. n
      /\ j.pause \in 0 .. MaxPause /\ j.refusals \in 0 .. MaxRefusals
  BY DEF Good, Journals
<1>2. [j EXCEPT !.blobs = SubSeq(@, m + 1, Len(@))]
        = [blobs |-> rest, pause |-> j.pause, refusals |-> j.refusals]
  <2>1. \A r : [j EXCEPT !.blobs = r] = [blobs |-> r, pause |-> j.pause, refusals |-> j.refusals]
    BY DEF Good, Journals
  <2> QED BY <2>1
<1> HIDE DEF blobs
<1>3. /\ rest \in Seq(Blobs) /\ Len(rest) = n - m
      /\ \A k \in 1 .. (n - m) : rest[k] = blobs[m + k] /\ m + k \in 1 .. n
  BY <1>1, SMTT(30)
<1> HIDE DEF rest, n
<1>4. Named(rest) \subseteq Named(blobs)
  BY <1>3 DEF Named, n
<1>5. Distinct(rest)
  <2> SUFFICES ASSUME NEW k \in 1 .. (n - m), NEW l \in 1 .. (n - m), rest[k] = rest[l]
               PROVE  k = l
    BY <1>3 DEF Distinct
  <2>1. m + k = m + l
    BY <1>1, <1>3 DEF Distinct, n
  <2> QED BY <1>1, <2>1
<1>6. Len(rest) <= MaxBlobs
  BY <1>1, <1>3, JournalAssumption
<1>7. Good([blobs |-> rest, pause |-> j.pause, refusals |-> j.refusals])
  BY <1>1, <1>3, <1>5, <1>6, GoodFields
<1> QED BY <1>2, <1>4, <1>7 DEF blobs

LEMMA AgesIs ==
    ASSUME Good(disk), NEW i \in 1 .. Len(disk.blobs),
           disk' = [disk EXCEPT !.blobs = SubSeq(@, i + 1, Len(@))]
    PROVE  Good(disk') /\ Named(disk'.blobs) \subseteq Named(disk.blobs)
BY OldestDropped

\* GitHub, the device and time.
LEMMA WorldHolds ==
    ASSUME IInv, HeldInv, Crash \/ Damage \/ Ages \/ Collects \/ AnotherWriter \/ Tick
    PROVE  HeldInv'
<1>1. Good(disk) /\ Named(disk.blobs) \subseteq Knows(gh) /\ RunHolds(run, Knows(gh))
      /\ run \in Runs
  BY DEF HeldInv, RunHolds
<1>2. CASE Crash
  <2>1. Ends /\ UNCHANGED <<gh, disk>> /\ events' \in 0 .. MaxEvents
    BY <1>2, SpentIs DEF Crash
  <2> QED BY <1>1, <2>1, HeldEnds
<1>3. CASE Damage
  <2>1. /\ pc \notin Requests /\ disk' = EmptyJournal /\ UNCHANGED <<gh, pc, run>>
        /\ events' \in 0 .. MaxEvents
    BY <1>3, SpentIs DEF Damage, Requests
  <2> QED BY <2>1, EmptyIsGood DEF HeldInv
<1>4. CASE Ages
  <2>1. pc \notin Requests /\ UNCHANGED <<gh, pc, run>> /\ events' \in 0 .. MaxEvents
    BY <1>4, SpentIs DEF Ages, Requests
  <2>2. Good(disk') /\ Named(disk'.blobs) \subseteq Named(disk.blobs)
    BY <1>1, <1>4, AgesIs DEF Ages
  <2> QED BY <2>1, <2>2 DEF HeldInv
<1>5. CASE Collects
  <2>1. PICK b \in gh.stored : gh' = [gh EXCEPT !.stored = @ \ {b}, !.gone = @ \cup {b}]
    BY <1>5 DEF Collects
  <2>2. Knows(gh') = Knows(gh)
    BY <2>1 DEF IInv, Places, Knows
  <2>3. UNCHANGED <<disk, pc, run>> /\ events' \in 0 .. MaxEvents
    BY <1>5, SpentIs DEF Collects
  <2> QED BY <2>2, <2>3 DEF HeldInv
<1>6. CASE AnotherWriter
  <2>1. /\ run' = [run EXCEPT !.moved = pc \notin {"idle", "look"}] /\ UNCHANGED <<disk, pc>>
        /\ events' \in 0 .. MaxEvents
    BY <1>6, SpentIs DEF AnotherWriter
  <2>2. Knows(gh') = Knows(gh)
    BY <1>6 DEF AnotherWriter, IInv, Places, Knows
  <2>3. /\ run'.send = run.send /\ run'.sent = run.sent /\ run'.pending = run.pending
        /\ run'.working = run.working /\ run'.files = run.files /\ run'.unsaved = run.unsaved
        /\ run' \in Runs
    BY <1>1, <2>1 DEF Runs
  <2>4. RunHolds(run', Knows(gh'))
    BY <1>1, <2>2, <2>3 DEF RunHolds
  <2> QED BY <2>1, <2>2, <2>3, <2>4 DEF HeldInv
<1>7. CASE Tick
  <2>1. UNCHANGED <<pc, run, events>> /\ disk' = [disk EXCEPT !.pause = Less(@)]
    BY <1>7 DEF Tick
  <2>2. Knows(gh') = Knows(gh)
    BY <1>7 DEF Tick, IInv, Places, Knows
  <2>3. Good(disk') /\ disk'.blobs = disk.blobs
    <3>1. disk.pause \in 0 .. MaxPause
      BY <1>1 DEF Good, Journals
    <3>2. Less(disk.pause) \in 0 .. MaxPause
      BY <3>1, JournalAssumption DEF Less
    <3>3. disk' = [blobs |-> disk.blobs, pause |-> Less(disk.pause), refusals |-> disk.refusals]
      BY <1>1, <2>1 DEF Good, Journals
    <3>4. /\ disk.blobs \in Seq(Blobs) /\ Distinct(disk.blobs) /\ Len(disk.blobs) <= MaxBlobs
          /\ disk.refusals \in 0 .. MaxRefusals
      BY <1>1 DEF Good, Journals
    <3> QED BY <3>2, <3>3, <3>4, GoodFields
  <2> QED BY <2>1, <2>2, <2>3 DEF HeldInv
<1> QED BY <1>2, <1>3, <1>4, <1>5, <1>6, <1>7

LEMMA HeldInit == Init => HeldInv
<1> SUFFICES ASSUME Init PROVE HeldInv
  OBVIOUS
<1>1. /\ disk = EmptyJournal /\ run = NoRun /\ pc = "idle" /\ events = MaxEvents
  BY DEF Init
<1>2. run.sent = {} /\ run.pending = <<>> /\ run.working = EmptyJournal
  BY <1>1 DEF NoRun
<1> QED BY <1>1, <1>2, EmptyIsGood, NoRunHolds, JournalAssumption DEF HeldInv, Requests

LEMMA HeldNext == IInv /\ HeldInv /\ [Next]_vars => HeldInv'
<1> SUFFICES ASSUME IInv, HeldInv, [Next]_vars PROVE HeldInv'
  OBVIOUS
<1>1. CASE BeginSite \/ BeginOther
  <2>1. events \in 0 .. MaxEvents
    BY DEF HeldInv
  <2>2. CASE BeginSite
    BY <2>1, <2>2, BeginHolds DEF BeginSite, Site
  <2>3. CASE BeginOther
    <3>1. events' \in 0 .. MaxEvents /\ {Page} \in SUBSET Site
      BY <2>3, SpentIs DEF BeginOther, Site
    <3> QED BY <2>3, <3>1, BeginHolds DEF BeginOther
  <2> QED BY <1>1, <2>2, <2>3
<1>2. CASE Goes
  BY <1>2, LookHolds, ResumeHolds, CheckHeadHolds, RequestsHold, FailsHold, SendBlobHolds DEF Goes
<1>3. CASE LookFails \/ Dropped
  BY <1>3, LookFailsHolds, FailsHold
<1>4. CASE Crash \/ Damage \/ Ages \/ Collects \/ AnotherWriter \/ Tick
  BY <1>4, WorldHolds
<1>5. CASE UNCHANGED vars
  BY <1>5 DEF vars, HeldInv
<1> QED BY <1>1, <1>2, <1>3, <1>4, <1>5 DEF Next

LEMMA HeldAlways == Spec => []HeldInv
BY HeldInit, HeldNext, PauseHolds, PTL DEF Spec

-----------------------------------------------------------------------------
(* What is remembered: the theorems                                         *)

\* Every variable keeps its type, and the journal its cap (_pruned).
THEOREM TypesHold == Spec => []TypeOK
<1>1. ASSUME IInv, HeldInv PROVE TypeOK
  <2>1. disk \in Journals /\ Len(disk.blobs) <= MaxBlobs /\ run \in Runs
    BY <1>1 DEF HeldInv, Good, RunHolds
  <2>2. pc \in {"idle", "look", "read", "ref", "blob", "commit", "move"} /\ events \in 0 .. MaxEvents
    BY <1>1 DEF HeldInv
  <2> QED BY <1>1, <2>1, <2>2 DEF IInv, Places, Runs, TypeOK
<1> QED BY <1>1, PauseHolds, HeldAlways, PTL

\* The journal never names a blob that GitHub has not confirmed, whatever cap,
\* damage, lost answer or crash there is (afterStored is called with confirmed
\* shas only).
THEOREM JournalIsConfirmed == Spec => [](Named(disk.blobs) \subseteq gh.stored \cup gh.gone)
<1>1. HeldInv => Named(disk.blobs) \subseteq gh.stored \cup gh.gone
  BY DEF HeldInv, Knows
<1> QED BY <1>1, HeldAlways, PTL

\* The journal is exact in both directions: nothing unconfirmed, and fewer than
\* SaveEvery of this attempt's blobs missing, if the files of one site fit in it;
\* _pruned may otherwise drop what the same attempt has stored.
THEOREM JournalHolds == ASSUME Roomy PROVE Spec => []JournalIsExact
<1>1. ASSUME HeldInv PROVE JournalIsExact
  <2>1. Named(disk.blobs) \subseteq gh.stored \cup gh.gone
    BY <1>1 DEF HeldInv, Knows
  <2>2. ASSUME pc \in Requests, ~run.unsaved
        PROVE  Cardinality(run.sent \ Named(disk.blobs)) < SaveEvery
    <3>1. run.pending \in Seq(Blobs) /\ Len(run.pending) \in Nat /\ Len(run.pending) < SaveEvery
      BY <1>1 DEF HeldInv, RunHolds, Runs
    <3>2. EndsWith(run.working.blobs, run.sent, Named(run.pending))
      BY <1>1 DEF HeldInv, RunHolds
    <3>3. run.sent \subseteq Named(run.working.blobs) \cup Named(run.pending)
      <4>1. \A p \in 0 .. Len(run.working.blobs) :
              After(run.working.blobs, p) \subseteq Named(run.working.blobs)
        BY DEF After, Named
      <4> QED BY <3>2, <4>1 DEF EndsWith
    <3>4. run.sent \ Named(disk.blobs) \subseteq Named(run.pending)
      BY <1>1, <2>2, <3>3 DEF HeldInv
    <3>5. /\ IsFiniteSet(Named(run.pending))
          /\ Cardinality(Named(run.pending)) <= Len(run.pending)
      BY <3>1, NamedIsSmall
    <3>6. /\ Cardinality(run.sent \ Named(disk.blobs)) <= Cardinality(Named(run.pending))
          /\ IsFiniteSet(run.sent \ Named(disk.blobs))
      BY <3>4, <3>5, FS_Subset
    <3>7. /\ Cardinality(run.sent \ Named(disk.blobs)) \in Nat
          /\ Cardinality(Named(run.pending)) \in Nat
      BY <3>5, <3>6, FS_CardinalityType
    <3> QED BY <3>1, <3>5, <3>6, <3>7, JournalAssumption
  <2> QED BY <2>1, <2>2 DEF JournalIsExact
<1> QED BY <1>1, HeldAlways, PTL

-----------------------------------------------------------------------------
(* What is not sent                                                         *)

\* A file that an attempt does not send any more is one that GitHub was given:
\* it was in the tree, the journal held it, or this attempt has sent it.
SkipsKnown ==
    /\ gh.tree \subseteq Knows(gh)
    /\ pc \notin {"idle", "look"} => run.files \subseteq run.send \cup Knows(gh)
    /\ pc \in {"commit", "move"} => run.files \subseteq Knows(gh)

LEMMA SkipsEnds ==
    ASSUME SkipsKnown, Ends, Knows(gh) \subseteq Knows(gh'),
           gh'.tree \subseteq gh.tree \cup Knows(gh')
    PROVE  SkipsKnown'
BY DEF SkipsKnown, Ends, NoRun

\* The plan names the files of the tree; the journal names those it holds.
LEMMA SkipsBegun ==
    ASSUME IInv, HeldInv, SkipsKnown, BeginSite \/ BeginOther \/ Look \/ Resume
    PROVE  SkipsKnown'
<1>1. ASSUME NEW files, Begin(files)
      PROVE  SkipsKnown'
  <2>1. \A S, T : /\ Aged(S \cup T) = Aged(S) \cup Aged(T)
                  /\ S \subseteq T => Aged(S) \subseteq Aged(T)
    BY DEF Aged
  <2>2. Knows(gh') = Aged(Knows(gh)) /\ gh'.tree = Aged(gh.tree)
    BY <1>1, <2>1 DEF Begin, IInv, Places, Knows
  <2>3. pc' = "look"
    BY <1>1 DEF Begin
  <2>4. Aged(gh.tree) \subseteq Aged(Knows(gh))
    BY <2>1 DEF SkipsKnown
  <2> QED BY <2>2, <2>3, <2>4 DEF SkipsKnown
<1>2. CASE Resume
  <2>1. gh' = gh /\ pc = "read"
    BY <1>2 DEF Resume
  <2>2. CASE Ends
    BY <2>1, <2>2, SkipsEnds
  <2>3. CASE ~Ends
    <3>1. /\ run' = [run EXCEPT !.held = Named(disk.blobs) \cap run.send,
                                !.send = @ \ (Named(disk.blobs) \cap run.send),
                                !.working = disk]
          /\ pc' = "ref"
      BY <1>2, <2>3 DEF Resume
    <3>2. run'.files = run.files /\ run'.send = run.send \ (Named(disk.blobs) \cap run.send)
      BY <3>1 DEF HeldInv, RunHolds, Runs
    <3> QED BY <2>1, <3>1, <3>2 DEF SkipsKnown, HeldInv
  <2> QED BY <2>2, <2>3
<1>3. CASE Look
  <2>1. run' = [run EXCEPT !.send = run.files \ gh.tree] /\ pc' = "read" /\ gh' = gh
    BY <1>3 DEF Look
  <2>2. run'.files = run.files /\ run'.send = run.files \ gh.tree
    BY <2>1 DEF HeldInv, RunHolds, Runs
  <2> QED BY <2>1, <2>2 DEF SkipsKnown
<1> QED BY <1>1, <1>2, <1>3 DEF BeginSite, BeginOther

\* A blob that is not sent again was stored, confirmed or not.
LEMMA SkipsSent ==
    ASSUME IInv, HeldInv, SkipsKnown, NEW f, SendBlob(f)
    PROVE  SkipsKnown'
<1>1. pc' = pc /\ pc = "blob" /\ gh' = Stores(f) /\ run \in Runs
  BY DEF SendBlob, HeldInv, RunHolds
<1>2. run'.files = run.files /\ run'.send = run.send \ {f}
  BY <1>1 DEF SendBlob, Remember, Runs
<1>3. Knows(gh') = Knows(gh) \cup {f} /\ gh'.tree = gh.tree
  BY <1>1, KnowsGrows DEF Stores, IInv, Places
<1> QED BY <1>1, <1>2, <1>3 DEF SkipsKnown

\* The tree is asked for when nothing is left to send; a commit lands what it
\* named.
LEMMA SkipsAnswered ==
    ASSUME IInv, HeldInv, SkipsKnown,
           CheckHead \/ PostTree \/ PostCommit \/ MoveRef \/ RateLimited \/ Dropped
    PROVE  SkipsKnown'
<1>1. CASE CheckHead
  <2>1. gh' = gh /\ pc = "ref"
    BY <1>1 DEF CheckHead
  <2>2. CASE Ends
    BY <2>1, <2>2, SkipsEnds
  <2>3. CASE ~Ends
    BY <1>1, <2>1, <2>3 DEF CheckHead, SkipsKnown
  <2> QED BY <2>2, <2>3
<1>2. CASE PostTree \/ PostCommit
  <2>1. gh' = Counted /\ pc \in {"blob", "commit"} /\ (pc = "blob" => run.send = {})
    BY <1>2 DEF PostTree, PostCommit
  <2>2. Knows(gh') = Knows(gh) /\ gh'.tree = gh.tree
    BY <2>1 DEF Counted, Knows, IInv, Places
  <2>3. CASE Ends
    BY <2>2, <2>3, SkipsEnds DEF SkipsKnown
  <2>4. CASE ~Ends
    <3>1. run' = run /\ pc' \in {"commit", "move"}
      BY <1>2, <2>4 DEF PostTree, PostCommit, Unprocessable
    <3> QED BY <2>1, <2>2, <3>1 DEF SkipsKnown
  <2> QED BY <2>3, <2>4
<1>3. CASE MoveRef \/ RateLimited \/ Dropped
  <2>1. Ends
    BY <1>3 DEF MoveRef, RateLimited, Dropped, Unprocessable
  <2>2. \/ gh' = gh \/ gh' = Counted
        \/ pc = "move" /\ gh' = Landed
        \/ \E f : gh' = Stores(f)
        \/ \E w : gh' = [gh EXCEPT !.wait = w]
    BY <1>3 DEF MoveRef, RateLimited, Refuses, Dropped
  <2>3. Knows(gh) \subseteq Knows(gh') /\ gh'.tree \subseteq gh.tree \cup Knows(gh')
    <3>1. CASE gh' = gh \/ gh' = Counted \/ \E w : gh' = [gh EXCEPT !.wait = w]
      BY <3>1 DEF Counted, Knows, IInv, Places
    <3>2. CASE \E f : gh' = Stores(f)
      BY <3>2 DEF Stores, Knows, IInv, Places
    <3>3. CASE pc = "move" /\ gh' = Landed
      <4>1. gh'.tree = gh.tree \cup run.files /\ Knows(gh') = Knows(gh)
        BY <3>3 DEF Landed, Counted, Knows, IInv, Places
      <4> QED BY <3>3, <4>1 DEF SkipsKnown
    <3> QED BY <2>2, <3>1, <3>2, <3>3
  <2> QED BY <2>1, <2>3, SkipsEnds
<1> QED BY <1>1, <1>2, <1>3

LEMMA SkipsNext == IInv /\ HeldInv /\ SkipsKnown /\ [Next]_vars => SkipsKnown'
<1> SUFFICES ASSUME IInv, HeldInv, SkipsKnown, [Next]_vars PROVE SkipsKnown'
  OBVIOUS
<1>1. CASE BeginSite \/ BeginOther \/ Goes \/ Dropped
  BY <1>1, SkipsBegun, SkipsSent, SkipsAnswered DEF Goes
<1>2. CASE Crash \/ LookFails
  <2>1. Ends /\ (gh' = gh \/ \E hint : gh' = Refuses(hint))
    BY <1>2 DEF Crash, LookFails
  <2>2. Knows(gh') = Knows(gh) /\ gh'.tree = gh.tree
    BY <2>1 DEF Refuses, Knows, IInv, Places
  <2> QED BY <2>1, <2>2, SkipsEnds DEF SkipsKnown
<1>3. CASE Damage \/ Ages \/ Collects \/ AnotherWriter \/ Tick
  <2>1. pc' = pc /\ run'.files = run.files /\ run'.send = run.send
    BY <1>3 DEF Damage, Ages, Collects, AnotherWriter, Tick, HeldInv, RunHolds, Runs
  <2>2. Knows(gh') = Knows(gh) /\ gh'.tree \subseteq gh.tree
    BY <1>3 DEF Damage, Ages, Collects, AnotherWriter, Tick, Knows, IInv, Places
  <2> QED BY <2>1, <2>2 DEF SkipsKnown
<1>4. CASE UNCHANGED vars
  BY <1>4 DEF vars, SkipsKnown
<1> QED BY <1>1, <1>2, <1>3, <1>4 DEF Next

\* No attempt leaves a file out that GitHub was never given: when it asks for
\* the tree, GitHub has, or had, every blob the tree names (commitFiles names
\* the files of the tree and of the journal, and sends the rest).
THEOREM SkipsHold == Spec => []SkipsKnown
<1>1. Init => SkipsKnown
  BY DEF Init, SkipsKnown, NoRun
<1> QED BY <1>1, SkipsNext, PauseHolds, HeldAlways, PTL DEF Spec
=============================================================================
