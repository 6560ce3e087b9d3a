---------------------------- MODULE UploadJournal ----------------------------
(***************************************************************************)
(* A GitHub publish that is too large for GitHub's hourly content limit:   *)
(* GitHubCommitWriter.commit sends one request at a time, the decorator    *)
(* ResumableUploadGitHubApi keeps a journal of the blobs GitHub confirmed  *)
(* and of the pause it asked for, and the next attempt goes on from there. *)
(* The use case has read the branch and its tree before commitFiles is     *)
(* called: those requests pass by the journal. They are sent in a pause    *)
(* too, and when GitHub refuses one of them the journal is not told.       *)
(*                                                                         *)
(* A blob is a file's bytes by their sha. Covers keep theirs; the page of  *)
(* a publish (books.json, availability.json) carries its time and is new   *)
(* bytes in every attempt: it is "page" in the attempt that built it and   *)
(* "old" from then on. Time is what is left of a wait, in units of the     *)
(* shortest pause.                                                         *)
(***************************************************************************)
EXTENDS Integers, Sequences, FiniteSets

CONSTANTS
    Covers,         \* cover files of the site
    SaveEvery,      \* stored blobs that are saved together
    MaxBlobs,       \* the most blobs the journal remembers
    Quota,          \* content requests GitHub accepts in one window
    MaxPause,       \* maximumPause, the length of GitHub's window
    Faults,         \* what may happen, of the kinds below
    MaxEvents       \* bound: faults and other commits

Page == "page"
Old == "old"
Blobs == Covers \cup {Page, Old}
MaxRefusals == MaxPause     \* counting on cannot lengthen the pause

\* "lane": a commit of one page, as the availability lane makes; "limit": a
\* refusal GitHub gives no reason for; "net": a request or its answer is
\* lost, or answered with an error of the server; "unproven": an answer without
\* the sha; "save": the journal cannot be written; "damage": nor read; "age": a
\* week passes; "gc": GitHub drops a blob no commit names; "writer": somebody
\* else moves the branch; "crash": the process dies.
FaultKinds == {"lane", "limit", "net", "unproven", "save", "damage", "age",
               "gc", "writer", "crash"}

ASSUME JournalAssumption ==
    /\ IsFiniteSet(Covers) /\ Page \notin Covers /\ Old \notin Covers
    /\ SaveEvery \in Nat \ {0} /\ MaxBlobs \in Nat \ {0}
    /\ Quota \in Nat /\ MaxPause \in Nat \ {0} /\ MaxEvents \in Nat
    /\ Faults \subseteq FaultKinds

VARIABLES
    gh,         \* the repository and the limits GitHub keeps
    disk,       \* github_upload_journal.json
    pc,         \* where the attempt is: "look" before it has read the branch,
                \* "read" before commitFiles has read the journal, then the
                \* request that commitFiles sends next
    run,        \* its locals
    missed,     \* GitHub asks for silence and the journal does not know it
    events      \* faults and other commits that may still happen

vars == <<gh, disk, pc, run, missed, events>>

EmptyJournal == [blobs |-> <<>>, pause |-> 0, refusals |-> 0]
NoRun == [files |-> {}, send |-> {}, held |-> {}, working |-> EmptyJournal,
          pending |-> <<>>, sent |-> {}, unsaved |-> FALSE, moved |-> FALSE]

Named(blobs) == {blobs[i] : i \in 1 .. Len(blobs)}
Spent(kind) == IF kind \in Faults /\ events > 0 THEN {events - 1} ELSE {}

-----------------------------------------------------------------------------
(* GitHubUploadJournal                                                      *)

\* _pruned: beyond the cap the oldest are forgotten first.
Pruned(blobs) == IF Len(blobs) > MaxBlobs
                 THEN SubSeq(blobs, Len(blobs) - MaxBlobs + 1, Len(blobs))
                 ELSE blobs

\* The entries that are not in S, in their order.
Without(blobs, S) ==
    LET kept[i \in 0 .. Len(blobs)] ==
          IF i = 0 THEN <<>>
          ELSE IF blobs[i] \in S THEN kept[i - 1] ELSE Append(kept[i - 1], blobs[i])
    IN kept[Len(blobs)]

AfterStored(j, shas) ==
    IF shas = <<>> THEN j
    ELSE [j EXCEPT !.blobs = Pruned(@ \o Without(shas, Named(@))), !.refusals = 0]

WithoutBlobs(j, shas) == [j EXCEPT !.blobs = Without(@, shas)]

AfterCommitted(j, named) ==
    [WithoutBlobs(j, named) EXCEPT !.pause = 0, !.refusals = 0]

BackoffOnly(hint, count) ==
    LET backoff == 2 ^ (count - 1)
    IN IF backoff > MaxPause THEN MaxPause ELSE backoff

\* GitHubContentLimit.pauseAfterRefusal: the larger of the hint and a
\* doubling wait, within one unit and MaxPause. No hint is 0.
PauseAfterRefusal(hint, count) ==
    LET backoff == 2 ^ (count - 1)
        wanted == IF hint > backoff THEN hint ELSE backoff
    IN IF wanted < 1 THEN 1 ELSE IF wanted > MaxPause THEN MaxPause ELSE wanted

RefusalUncounted(j, hint) ==
    LET count == j.refusals + 1
    IN [j EXCEPT !.pause = PauseAfterRefusal(hint, count), !.refusals = count]

AfterRefusal(j, hint) ==
    LET count == IF j.refusals >= MaxRefusals THEN MaxRefusals ELSE j.refusals + 1
    IN [j EXCEPT !.pause = PauseAfterRefusal(hint, count), !.refusals = count]

-----------------------------------------------------------------------------
(* An attempt: the reads of the use case, then commitFiles                  *)

\* What commitFiles sends.
Requests == {"ref", "blob", "tree", "commit", "move"}

Ends == pc' = "idle" /\ run' = NoRun

\* A save may fail; the commit's own result is returned all the same.
Persist(next, left) ==
    \/ disk' = next /\ events' = left
    \/ next # disk /\ "save" \in Faults /\ left > 0
       /\ disk' = disk /\ events' = left - 1

\* What the attempt stored and has not saved yet.
Unsaved == AfterStored(run.working, run.pending)

\* The bytes of the page before are old now, wherever they are. Old pages
\* count as one: they age out long before they could fill the journal.
Aged(S) == IF Page \in S THEN (S \ {Page}) \cup {Old} ELSE S
AgedBlobs(blobs) ==
    LET kept == Without(blobs, {Old})
    IN IF Page \in Named(blobs)
       THEN [i \in 1 .. Len(kept) |-> IF kept[i] = Page THEN Old ELSE kept[i]]
       ELSE blobs

\* A publish starts and has its files ready.
Begin(files) ==
    /\ pc = "idle"
    /\ gh' = [gh EXCEPT !.stored = Aged(@), !.tree = Aged(@),
                        !.history = Aged(@), !.gone = Aged(@)]
    /\ disk' = [disk EXCEPT !.blobs = AgedBlobs(@)]
    /\ run' = [NoRun EXCEPT !.files = files]
    /\ pc' = "look"
    /\ UNCHANGED missed

BeginSite == Begin(Covers \cup {Page}) /\ UNCHANGED events
BeginOther == Begin({Page}) /\ events' \in Spent("lane")

\* The site, the head of the branch and its tree (or the record of the tree at
\* that head) are read, in a pause as at any other time: what the tree holds is
\* named, the rest is to be sent.
Look ==
    /\ pc = "look"
    /\ run' = [run EXCEPT !.send = run.files \ gh.tree]
    /\ pc' = "read"
    /\ UNCHANGED <<gh, disk, missed, events>>

\* GitHub may say when it wants requests again.
Hints == {0, gh.window}

\* The silence GitHub asked for last.
Refuses(hint) == [gh EXCEPT !.wait = IF hint = 0 THEN 1 ELSE hint]

\* One of these reads is refused, as it may be for as long as GitHub asks for
\* silence, or it is lost. The attempt ends before commitFiles, the journal
\* stays as it was, and the pause GitHub asks for may be longer than the one
\* that is known.
LookFails ==
    /\ pc = "look" /\ Ends
    /\ \/ events' \in Spent("limit") /\ \E hint \in Hints : gh' = Refuses(hint)
       \/ gh.wait > 0 /\ UNCHANGED <<gh, events>>
       \/ events' \in Spent("net") /\ UNCHANGED gh
    /\ missed' = (missed \/ gh'.wait > disk.pause)
    /\ UNCHANGED disk

\* commitFiles sends nothing in a pause; else the blobs the journal holds are
\* named.
Resume ==
    /\ pc = "read"
    /\ IF disk.pause > 0
       THEN Ends
       ELSE LET held == Named(disk.blobs) \cap run.send
            IN /\ run' = [run EXCEPT !.held = held, !.send = @ \ held,
                                     !.working = disk]
               /\ pc' = "ref"
    /\ UNCHANGED <<gh, disk, missed, events>>

\* The head is compared before a blob is sent.
CheckHead ==
    /\ pc = "ref"
    /\ IF run.moved
       THEN Ends /\ Persist(Unsaved, events)
       ELSE pc' = "blob" /\ UNCHANGED <<run, disk, events>>
    /\ UNCHANGED <<gh, missed>>

Stores(f) == [gh EXCEPT !.stored = @ \cup {f}, !.gone = @ \ {f},
                        !.left = @ - 1]
Counted == [gh EXCEPT !.left = @ - 1]

RememberLate(f) ==
    LET pending == Append(run.pending, f)
        working == AfterStored(run.working, pending)
        next == [run EXCEPT !.send = @ \ {f}, !.sent = @ \cup {f}]
    IN IF Len(pending) <= SaveEvery
       THEN /\ run' = [next EXCEPT !.pending = pending]
            /\ UNCHANGED <<disk, events>>
       ELSE /\ Persist(working, events)
            /\ run' = [next EXCEPT !.pending = <<>>, !.working = working,
                                   !.unsaved = disk' # working]

\* onBlobStored: every SaveEvery blobs the journal is saved.
Remember(f) ==
    LET pending == Append(run.pending, f)
        working == AfterStored(run.working, pending)
        next == [run EXCEPT !.send = @ \ {f}, !.sent = @ \cup {f}]
    IN IF Len(pending) < SaveEvery
       THEN /\ run' = [next EXCEPT !.pending = pending]
            /\ UNCHANGED <<disk, events>>
       ELSE /\ Persist(working, events)
            /\ run' = [next EXCEPT !.pending = <<>>, !.working = working,
                                   !.unsaved = disk' # working]

SendBlob(f) ==
    /\ pc = "blob" /\ f \in run.send /\ gh.left > 0
    /\ gh' = Stores(f)
    /\ \/ Remember(f)
       \/ /\ events' \in Spent("unproven")
          /\ run' = [run EXCEPT !.send = @ \ {f}]
          /\ UNCHANGED disk
    /\ UNCHANGED <<pc, missed>>

UnprocessableKept == Ends /\ Persist(Unsaved, events)

\* GitHub answered 422: one of the remembered blobs may be gone.
Unprocessable ==
    /\ Ends
    /\ Persist(IF run.held = {} THEN Unsaved ELSE WithoutBlobs(Unsaved, run.held),
               events)

\* The tree names every file; GitHub refuses one whose blob it does not hold.
PostTree ==
    /\ pc = "blob" /\ run.send = {} /\ gh.left > 0
    /\ gh' = Counted
    /\ IF run.files \subseteq gh.stored
       THEN pc' = "commit" /\ UNCHANGED <<run, disk, events>>
       ELSE Unprocessable
    /\ UNCHANGED missed

PostCommit ==
    /\ pc = "commit" /\ gh.left > 0
    /\ gh' = Counted /\ pc' = "move"
    /\ UNCHANGED <<disk, run, missed, events>>

Landed == [Counted EXCEPT !.tree = @ \cup run.files, !.history = @ \cup run.files]

\* The branch moves if nobody else has moved it; which status code says that
\* it did not is GitHub's side: 422 or another.
MoveRef ==
    /\ pc = "move" /\ gh.left > 0
    /\ IF run.moved
       THEN /\ gh' = Counted
            /\ Unprocessable \/ (Ends /\ Persist(Unsaved, events))
       ELSE /\ gh' = Landed
            /\ Ends /\ Persist(AfterCommitted(run.working, run.files), events)
    /\ UNCHANGED missed

\* GitHub refuses a request of commitFiles, with 403 or 429: the quota is used
\* up, or it has asked for silence and was not heard, or it just does.
RateLimited ==
    /\ pc \in Requests
    /\ \E left \in Spent("limit") \cup
                   (IF gh.wait > 0 \/ (pc # "ref" /\ gh.left = 0) THEN {events} ELSE {}),
          hint \in Hints :
         /\ gh' = Refuses(hint)
         /\ Persist(AfterRefusal(Unsaved, hint), left)
         /\ missed' = (disk' = disk)
    /\ Ends

\* The connection drops before the request arrives, or its answer is lost.
Dropped ==
    /\ pc \in Requests
    /\ \E left \in Spent("net") : Persist(Unsaved, left)
    /\ \/ UNCHANGED gh
       \/ pc = "blob" /\ gh.left > 0 /\ \E f \in run.send : gh' = Stores(f)
       \/ pc = "move" /\ gh.left > 0 /\ ~run.moved /\ gh' = Landed
    /\ Ends /\ UNCHANGED missed

-----------------------------------------------------------------------------
(* GitHub, the device and time                                              *)

\* The process dies; what was not saved is forgotten.
Crash ==
    /\ pc # "idle" /\ events' \in Spent("crash")
    /\ Ends
    /\ UNCHANGED <<gh, disk, missed>>

\* The journal file cannot be read, and is as good as none.
Damage ==
    /\ pc = "idle" /\ events' \in Spent("damage")
    /\ disk' = EmptyJournal /\ missed' = TRUE
    /\ UNCHANGED <<gh, pc, run>>

\* Entries older than maxAge are not named any more, the oldest first.
Ages ==
    /\ pc = "idle" /\ events' \in Spent("age")
    /\ \E i \in 1 .. Len(disk.blobs) :
         disk' = [disk EXCEPT !.blobs = SubSeq(@, i + 1, Len(@))]
    /\ UNCHANGED <<gh, pc, run, missed>>

\* GitHub throws away a blob that no commit names.
Collects ==
    /\ events' \in Spent("gc")
    /\ \E b \in gh.stored \ gh.history :
         /\ ~(pc \in {"commit", "move"} /\ b \in run.files)
         /\ gh' = [gh EXCEPT !.stored = @ \ {b}, !.gone = @ \cup {b}]
    /\ UNCHANGED <<disk, pc, run, missed>>

\* Another device or a human commits, and may take the files away.
AnotherWriter ==
    /\ events' \in Spent("writer")
    /\ gh' \in {gh, [gh EXCEPT !.tree = {}]}
    /\ run' = [run EXCEPT !.moved = pc \notin {"idle", "look"}]
    /\ UNCHANGED <<disk, pc, missed>>

Less(n) == IF n = 0 THEN 0 ELSE n - 1

Tick ==
    /\ gh' = [gh EXCEPT !.wait = Less(@),
                        !.window = IF @ = 1 THEN MaxPause ELSE @ - 1,
                        !.left = IF gh.window = 1 THEN Quota ELSE @]
    /\ disk' = [disk EXCEPT !.pause = Less(@)]
    /\ missed' = (missed /\ gh'.wait > 0)
    /\ UNCHANGED <<pc, run, events>>

-----------------------------------------------------------------------------

\* What an attempt does by itself once it is started.
Goes ==
    \/ Look \/ Resume \/ CheckHead \/ PostTree \/ PostCommit \/ MoveRef \/ RateLimited
    \/ \E f \in Covers \cup {Page} : SendBlob(f)

Next ==
    \/ BeginSite \/ BeginOther \/ Goes \/ LookFails \/ Dropped \/ Tick
    \/ Crash \/ Damage \/ Ages \/ Collects \/ AnotherWriter

Init ==
    /\ gh = [stored |-> {}, tree |-> {}, history |-> {}, gone |-> {},
             left |-> Quota, window |-> MaxPause, wait |-> 0]
    /\ disk = EmptyJournal
    /\ pc = "idle" /\ run = NoRun
    /\ missed = FALSE /\ events = MaxEvents

Spec == Init /\ [][Next]_vars

\* Awaited requests are answered and time passes. Whether anybody publishes
\* is not assumed here.
FairSpec == Spec /\ WF_vars(Goes) /\ WF_vars(Tick)

-----------------------------------------------------------------------------
(* Properties                                                               *)

Journals == [blobs: Seq(Blobs), pause: 0 .. MaxPause, refusals: 0 .. MaxRefusals]

\* Every variable keeps its type, and the journal its cap.
TypeOK ==
    /\ gh \in [stored: SUBSET Blobs, tree: SUBSET Blobs, history: SUBSET Blobs,
               gone: SUBSET Blobs, left: 0 .. Quota, window: 1 .. MaxPause,
               wait: 0 .. MaxPause]
    /\ disk \in Journals /\ Len(disk.blobs) <= MaxBlobs
    /\ pc \in {"idle", "look", "read", "ref", "blob", "commit", "move"}
    /\ run \in [files: SUBSET Blobs, send: SUBSET Blobs, held: SUBSET Blobs,
                working: Journals, pending: Seq(Blobs), sent: SUBSET Blobs,
                unsaved: BOOLEAN, moved: BOOLEAN]
    /\ missed \in BOOLEAN /\ events \in 0 .. MaxEvents

\* The journal names what GitHub has confirmed (and may have thrown away
\* since), never a guess; and whenever the app is closed, fewer than SaveEvery
\* of the blobs this attempt stored are missing from it, unless it could not
\* be saved.
JournalIsExact ==
    /\ Named(disk.blobs) \subseteq gh.stored \cup gh.gone
    /\ pc \in Requests /\ ~run.unsaved
           => Cardinality(run.sent \ Named(disk.blobs)) < SaveEvery

\* While GitHub wants no requests, commitFiles sends none: neither the attempt
\* that was refused nor the next, of whichever flow, nor after a restart. It
\* does when the journal does not know of the refusal: it could not be saved,
\* it was damaged since, or what GitHub refused was a read before commitFiles.
\* Those reads are not among its Requests; they are sent in any pause.
SilentWhileAsked == pc \in Requests => gh.wait = 0 \/ missed

\* A publish that is too large for one window gets there: if the user goes on
\* publishing, the covers are on the site, for good. Each attempt goes on
\* where the last one stopped, whatever was lost, collected or collided.
Publishes == []<><<BeginSite>>_vars => <>[](Covers \subseteq gh.tree)
=============================================================================
