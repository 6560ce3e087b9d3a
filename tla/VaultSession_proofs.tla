------------------------- MODULE VaultSession_proofs -------------------------
(***************************************************************************)
(* Type correctness and the safety of the vault session for every set of   *)
(* passphrases, faults and calls.                                          *)
(*                                                                         *)
(* The invariant has five parts: who owns which secret buffer and which    *)
(* call (QueueInv), whose session the head runs in (HeadInv), what each    *)
(* label knows of the files (DiskInv), which data set the provider serves  *)
(* (ProviderInv), and what the page shows (ViewInv). The pair of the       *)
(* biometric record and its blob has a part of its own (PairInv), because  *)
(* it holds on a device that neither dies nor loses a Keystore call.       *)
(***************************************************************************)
EXTENDS VaultSession, TLAPS

Keepers == [cur: Secrets \cup {NONE}, buf: 0 .. MaxOps, blob: Blobs \cup {NONE},
            bio: BOOLEAN, gen: Nat, life: Nat, disposed: BOOLEAN]
Runnings == [blob: Blobs \cup {NONE}, sec: Secrets \cup {NONE}, bio: BOOLEAN,
             ok: BOOLEAN, life: Nat, ep: Nat, next: Disks \cup {NONE}]
KeyRecords == [key: KeyIds \cup {NONE}, rec: KeyIds \cup {NONE}]
States == {"loading", "uninit", "locked", "unlocked"}

OwnersTyped ==
    /\ queue \in Seq(Calls) /\ keeper \in Keepers
    /\ live \subseteq Ids /\ pending \subseteq Ids /\ nextId \in 1 .. MaxOps + 1

\* Each call has an id of its own, of a generation that was, and of none that a
\* disposed provider will build; one that brought a passphrase has it tracked as
\* long as its session lasts.
CallsInv ==
    /\ \A i, j \in 1 .. Len(queue) : queue[i].id = queue[j].id => i = j
    /\ \A i \in 1 .. Len(queue) :
         /\ queue[i].id < nextId /\ queue[i].gen <= keeper.gen
         /\ keeper.disposed => queue[i].gen # keeper.gen
         /\ queue[i].kind \in Incoming =>
              /\ queue[i].sec \in Passphrases
              /\ IsCurrent(queue[i].gen) => queue[i].id \in pending

\* The held secret came from a call that has returned.
HeldReturned ==
    /\ keeper.buf < nextId
    /\ \A i \in 1 .. Len(queue) : queue[i].id # keeper.buf

QueueInv == OwnersTyped /\ CallsInv /\ HeldReturned /\ SecretsOwned

\* While a call runs, a held secret is one of its own session: nobody else takes
\* one.  A call that started from the held secret still has it, or was locked out.
HeadInv ==
    /\ pc # "wait" => queue # <<>> /\ (keeper.cur # NONE => Fresh)
    /\ pc \in {"write", "written", "reread", "keepRead"} /\ Fresh => keeper.cur # NONE
    /\ pc = "load" /\ Fresh => Op.id \in pending
    /\ pc \in {"create", "wrap", "created"} => Op.kind = "enable"
    /\ pc = "rewrap" => Op.kind = "change"

\* BlobsMatchDatabase of any device.
Matched(d) ==
    \A blob \in {d.blob, d.bio} :
        blob # NONE => d.db # NONE /\ d.blob # NONE /\ blob.key = d.db.key

\* What the locals of the head know of the files.
Place(label, r, d, op) ==
    /\ label = "create" => d.db = NONE /\ r.blob = NONE /\ r.sec \in Secrets
    /\ label = "wrap" => /\ d.db # NONE /\ d.db.key = op.id /\ d.blob = NONE
                         /\ r.blob = NONE /\ r.sec \in Secrets
    /\ label = "created" => /\ d.blob = NONE
                            /\ r.blob # NONE => d.db # NONE /\ d.db.key = r.blob.key
    /\ label = "load" => d.blob # NONE
    /\ label \in {"rewrap", "write", "checkBio", "wrapBio", "keepRead"} =>
         Reads(r.sec, r.blob, d) /\ d.blob # NONE
    /\ label \in {"seal", "prompt", "stored"} =>
         r.blob # NONE /\ d.db # NONE /\ d.db.key = r.blob.key /\ d.blob # NONE
    /\ label \in {"hasBio", "readBio"} => d.blob # NONE
    /\ label \in {"build", "switch"} =>
         /\ r.next \in Disks /\ Matched(r.next)
         /\ op.kind # "restoreVault" /\ IsInitialized(d) => r.next = d

Held(d) == Reads(keeper.cur, keeper.blob, d) /\ d.blob # NONE

DiskInv ==
    /\ Matched(disk)
    /\ keeper.cur # NONE /\ pc # "switched" => Held(disk)
    /\ Place(pc, run, disk, Op)

ProviderInv ==
    /\ epoch >= 1
    /\ phase = "ready" => store = epoch
    /\ phase \in {"ready", "building"} => ~keeper.disposed
    /\ pc \notin {"wait", "switched"} => run.ep = epoch

\* The page shows the rows of the database, or the head wrote one and is about
\* to read them again.
ViewInv ==
    sess = "unlocked" /\ phase = "ready" =>
        /\ keeper.cur # NONE
        /\ view = disk.db.rev \/ (pc \in {"written", "reread"} /\ run.ok /\ Fresh)

RestTyped ==
    /\ disk \in Disks /\ ks \in KeyRecords
    /\ sess \in States /\ view \in Nat
    /\ pc \in Labels /\ run \in Runnings
    /\ phase \in Phases /\ store \in Nat /\ epoch \in Nat

IInv == QueueInv /\ HeadInv /\ DiskInv /\ ProviderInv /\ ViewInv /\ RestTyped

-----------------------------------------------------------------------------
(* Small facts                                                              *)

LEMMA Constants ==
    /\ MaxOps \in Nat /\ NONE \notin Secrets /\ Passphrases \subseteq Secrets
    /\ KeyIds \subseteq Secrets /\ Ids \subseteq KeyIds
    /\ NONE \notin Blobs /\ NONE \notin Databases
    /\ Passphrases # {}
BY ConstantsAssumption, NoneIsNoFile DEF Secrets, KeyIds, Ids

LEMMA EmptyTyped ==
    /\ EmptyKeeper \in Keepers /\ NoRun \in Runnings /\ NoDisk \in Disks /\ Matched(NoDisk)
BY Constants DEF EmptyKeeper, Keepers, NoRun, Runnings, NoDisk, Disks, Matched, Ids

\* What a queued call is.
LEMMA QueuedCall ==
    ASSUME QueueInv, NEW i \in 1 .. Len(queue)
    PROVE  /\ queue[i] \in Calls /\ queue[i].id \in Ids /\ queue[i].kind \in AllKinds
           /\ queue[i].sec \in Passphrases \cup {NONE} /\ queue[i].gen \in Nat
<1>1. queue[i] \in Calls
  BY DEF QueueInv, OwnersTyped
<1> QED BY <1>1 DEF Calls

\* What the head is.
LEMMA HeadCall ==
    ASSUME QueueInv, queue # <<>>
    PROVE  /\ Op = queue[1] /\ 1 \in 1 .. Len(queue) /\ Len(queue) \in Nat
           /\ Op \in Calls /\ Op.id \in Ids /\ Op.id \in Nat \ {0} /\ Op.kind \in AllKinds
           /\ Op.sec \in Passphrases \cup {NONE} /\ Op.gen \in Nat
           /\ Op.id # keeper.buf /\ Op.id < nextId /\ Op.gen <= keeper.gen
           /\ Op.kind \in Incoming =>
                Op.sec \in Passphrases /\ (Fresh => Op.id \in pending)
<1>1. Op = queue[1] /\ 1 \in 1 .. Len(queue) /\ Len(queue) \in Nat
  BY DEF QueueInv, OwnersTyped, Op
<1>2. Op \in Calls /\ Op.id \in Ids /\ Op.kind \in AllKinds
      /\ Op.sec \in Passphrases \cup {NONE} /\ Op.gen \in Nat
  BY <1>1, QueuedCall
<1> QED
  BY <1>1, <1>2, Constants DEF QueueInv, CallsInv, HeldReturned, Fresh, Ids

\* The queue without its head.
LEMMA TailCalls ==
    ASSUME QueueInv, queue # <<>>, queue' = Tail(queue)
    PROVE  /\ queue' \in Seq(Calls) /\ Len(queue') \in Nat
           /\ \A i \in 1 .. Len(queue') :
                i + 1 \in 1 .. Len(queue) /\ queue'[i] = queue[i + 1]
           /\ \A i \in 1 .. Len(queue') : queue'[i].id # Op.id
           /\ \A i, j \in 1 .. Len(queue') : queue'[i].id = queue'[j].id => i = j
           /\ \A i \in 1 .. Len(queue) : queue[i].id # Op.id =>
                \E j \in 1 .. Len(queue') : queue'[j].id = queue[i].id
<1>1. /\ queue \in Seq(Calls) /\ queue' \in Seq(Calls) /\ Len(queue) \in Nat
      /\ Len(queue') = Len(queue) - 1
      /\ \A i \in 1 .. Len(queue') :
           i + 1 \in 1 .. Len(queue) /\ queue'[i] = queue[i + 1]
  BY DEF QueueInv, OwnersTyped
<1>2. Op = queue[1] /\ 1 \in 1 .. Len(queue)
  BY HeadCall
<1>3. ASSUME NEW i \in 1 .. Len(queue')
      PROVE  queue'[i].id # Op.id
  <2>1. i \in Nat /\ i + 1 # 1 /\ i + 1 \in 1 .. Len(queue) /\ queue'[i] = queue[i + 1]
    BY <1>1
  <2> QED BY <1>2, <2>1 DEF QueueInv, CallsInv
<1>4. ASSUME NEW i \in 1 .. Len(queue'), NEW j \in 1 .. Len(queue'),
             queue'[i].id = queue'[j].id
      PROVE  i = j
  <2>1. i + 1 = j + 1
    BY <1>1, <1>4 DEF QueueInv, CallsInv
  <2> QED BY <2>1
<1>5. ASSUME NEW i \in 1 .. Len(queue), queue[i].id # Op.id
      PROVE  \E j \in 1 .. Len(queue') : queue'[j].id = queue[i].id
  <2>1. i # 1
    BY <1>2, <1>5
  <2>2. i - 1 \in 1 .. Len(queue') /\ (i - 1) + 1 = i
    BY <1>1, <2>1
  <2>3. queue'[i - 1] = queue[i]
    BY <1>1, <2>2
  <2> QED BY <2>2, <2>3
<1> QED BY <1>1, <1>3, <1>4, <1>5

-----------------------------------------------------------------------------
(* The owners of the secrets, for each way a step may touch them            *)

\* Finish: the returning call's secret goes with it.
LEMMA FinishOwners ==
    ASSUME QueueInv, queue # <<>>, Finish, UNCHANGED nextId
    PROVE  QueueInv' /\ keeper' = keeper /\ pc' = "wait" /\ run' = NoRun
<1>1. /\ queue' = Tail(queue) /\ pending' = pending \ {Op.id} /\ keeper' = keeper
      /\ pc' = "wait" /\ run' = NoRun
      /\ live' = live \ {Op.id}
  BY HeadCall DEF Finish, Pop
<1>2. OwnersTyped'
  BY <1>1, TailCalls DEF QueueInv, OwnersTyped
<1>3. CallsInv'
  <2>1. ASSUME NEW i \in 1 .. Len(queue')
        PROVE  /\ queue'[i].id < nextId' /\ queue'[i].gen <= keeper'.gen
               /\ keeper'.disposed => queue'[i].gen # keeper'.gen
               /\ queue'[i].kind \in Incoming =>
                    /\ queue'[i].sec \in Passphrases
                    /\ (~keeper'.disposed /\ queue'[i].gen = keeper'.gen) => queue'[i].id \in pending'
    <3>1. i + 1 \in 1 .. Len(queue) /\ queue'[i] = queue[i + 1] /\ queue'[i].id # Op.id
      BY <1>1, TailCalls
    <3> QED BY <1>1, <3>1 DEF QueueInv, CallsInv, IsCurrent
  <2> QED BY <1>1, <2>1, TailCalls DEF CallsInv, IsCurrent
<1>4. HeldReturned'
  BY <1>1, TailCalls DEF QueueInv, HeldReturned
<1>5. SecretsOwned'
  <2>1. live' = pending' \cup ({keeper'.buf} \ {0})
    BY <1>1, HeadCall DEF QueueInv, SecretsOwned
  <2>2. ASSUME NEW id \in pending'
        PROVE  \E i \in 1 .. Len(queue') : queue'[i].id = id
    <3>1. PICK i \in 1 .. Len(queue) : queue[i].id = id
      BY <1>1 DEF QueueInv, SecretsOwned
    <3> QED BY <1>1, <3>1, TailCalls
  <2> QED BY <1>1, <2>1, <2>2 DEF QueueInv, SecretsOwned
<1> QED BY <1>1, <1>2, <1>3, <1>4, <1>5 DEF QueueInv

\* What forgetting leaves.
LEMMA ForgottenIs ==
    ASSUME NEW kp \in Keepers
    PROVE  /\ Forgotten(kp) \in Keepers
           /\ Forgotten(kp).cur = NONE /\ Forgotten(kp).buf = 0
           /\ Forgotten(kp).gen = kp.gen + 1 /\ Forgotten(kp).disposed = kp.disposed
           /\ Forgotten(kp).life = kp.life
<1>1. 0 \in 0 .. MaxOps /\ FALSE \in BOOLEAN /\ kp.gen \in Nat /\ kp.gen + 1 \in Nat
  BY Constants DEF Keepers
<1> QED BY <1>1 DEF Forgotten, Keepers

\* The call returns and the session with it.
LEMMA FinishForgettingOwners ==
    ASSUME QueueInv, queue # <<>>, FinishForgetting, UNCHANGED nextId
    PROVE  /\ QueueInv' /\ pc' = "wait" /\ run' = NoRun
           /\ keeper'.cur = NONE /\ keeper'.disposed = keeper.disposed
<1>1. /\ queue' = Tail(queue) /\ pending' = {} /\ keeper' = Forgotten(keeper)
      /\ pc' = "wait" /\ run' = NoRun
      /\ live' = live \ (pending \cup {keeper.buf, Op.id})
  BY DEF FinishForgetting, Pop
<1>2. /\ keeper' \in Keepers /\ keeper'.cur = NONE /\ keeper'.buf = 0
      /\ keeper'.gen = keeper.gen + 1 /\ keeper'.disposed = keeper.disposed
      /\ keeper.gen \in Nat
  BY <1>1, ForgottenIs DEF QueueInv, OwnersTyped, Keepers
<1>3. OwnersTyped'
  BY <1>1, <1>2, TailCalls DEF QueueInv, OwnersTyped
<1>4. ASSUME NEW i \in 1 .. Len(queue')
      PROVE  /\ queue'[i].id < nextId' /\ queue'[i].gen <= keeper'.gen
             /\ keeper'.disposed => queue'[i].gen # keeper'.gen
             /\ queue'[i].id # 0 /\ ~(~keeper'.disposed /\ queue'[i].gen = keeper'.gen)
             /\ queue'[i].kind \in Incoming => queue'[i].sec \in Passphrases
  <2>1. i + 1 \in 1 .. Len(queue) /\ queue'[i] = queue[i + 1]
    BY <1>1, TailCalls
  <2>2. queue[i + 1].gen \in Nat /\ queue[i + 1].id \in Ids
    BY <2>1, QueuedCall
  <2>3. /\ queue[i + 1].gen <= keeper.gen /\ queue[i + 1].id < nextId
        /\ queue[i + 1].kind \in Incoming => queue[i + 1].sec \in Passphrases
    BY <2>1 DEF QueueInv, CallsInv
  <2> QED BY <1>2, <2>1, <2>2, <2>3 DEF IsCurrent, Ids
<1>5. CallsInv'
  BY <1>1, <1>4, TailCalls DEF CallsInv, IsCurrent
<1>6. HeldReturned'
  BY <1>2, <1>4 DEF QueueInv, OwnersTyped, HeldReturned
<1>7. SecretsOwned'
  BY <1>1, <1>2 DEF QueueInv, SecretsOwned
<1> QED BY <1>1, <1>2, <1>3, <1>5, <1>6, <1>7 DEF QueueInv

\* hold: the call's own tracked secret replaces the held one, which is wiped.
LEMMA FinishHoldingOwners ==
    ASSUME QueueInv, queue # <<>>, NEW secret \in Secrets, NEW blob \in Blobs \cup {NONE},
           NEW bio \in BOOLEAN, FinishHolding(secret, blob, bio), UNCHANGED nextId,
           Op.id \in pending
    PROVE  /\ QueueInv' /\ pc' = "wait" /\ run' = NoRun
           /\ keeper'.cur = secret /\ keeper'.blob = blob /\ keeper'.cur # NONE
           /\ keeper'.disposed = keeper.disposed
<1>1. /\ queue' = Tail(queue) /\ pending' = pending \ {Op.id}
      /\ keeper' = [keeper EXCEPT !.cur = secret, !.buf = Op.id, !.blob = blob, !.bio = bio]
      /\ pc' = "wait" /\ run' = NoRun
      /\ live' = live \ ({keeper.buf} \ {Op.id})
  BY DEF FinishHolding, Pop
<1>2. /\ keeper' \in Keepers /\ keeper'.cur = secret /\ keeper'.buf = Op.id
      /\ keeper'.blob = blob /\ keeper'.gen = keeper.gen
      /\ keeper'.disposed = keeper.disposed /\ secret # NONE
  <2>1. keeper \in Keepers /\ Op.id \in 0 .. MaxOps /\ secret # NONE
    BY HeadCall, Constants DEF QueueInv, OwnersTyped, Ids
  <2> QED BY <1>1, <2>1 DEF Keepers
<1>3. OwnersTyped'
  BY <1>1, <1>2, TailCalls DEF QueueInv, OwnersTyped
<1>4. CallsInv'
  <2>1. ASSUME NEW i \in 1 .. Len(queue')
        PROVE  /\ queue'[i].id < nextId' /\ queue'[i].gen <= keeper'.gen
               /\ keeper'.disposed => queue'[i].gen # keeper'.gen
               /\ queue'[i].kind \in Incoming =>
                    /\ queue'[i].sec \in Passphrases
                    /\ (~keeper'.disposed /\ queue'[i].gen = keeper'.gen) => queue'[i].id \in pending'
    <3>1. i + 1 \in 1 .. Len(queue) /\ queue'[i] = queue[i + 1] /\ queue'[i].id # Op.id
      BY <1>1, TailCalls
    <3> QED BY <1>1, <1>2, <3>1 DEF QueueInv, CallsInv, IsCurrent
  <2> QED BY <1>1, <2>1, TailCalls DEF CallsInv, IsCurrent
<1>5. HeldReturned'
  BY <1>1, <1>2, TailCalls, HeadCall DEF HeldReturned
<1>6. SecretsOwned'
  <2>1. keeper.buf \notin pending
    BY DEF QueueInv, SecretsOwned, HeldReturned
  <2>2. live' = pending' \cup ({keeper'.buf} \ {0})
    BY <1>1, <1>2, <2>1, HeadCall DEF QueueInv, SecretsOwned
  <2>3. ASSUME NEW id \in pending'
        PROVE  \E i \in 1 .. Len(queue') : queue'[i].id = id
    <3>1. PICK i \in 1 .. Len(queue) : queue[i].id = id
      BY <1>1 DEF QueueInv, SecretsOwned
    <3> QED BY <1>1, <3>1, TailCalls
  <2>4. (keeper'.buf = 0) <=> (keeper'.cur = NONE)
    BY <1>2, HeadCall
  <2> QED BY <2>2, <2>3, <2>4 DEF SecretsOwned
<1> QED BY <1>1, <1>2, <1>3, <1>4, <1>5, <1>6 DEF QueueInv

\* A step that leaves calls and secrets alone.
LEMMA SameOwners ==
    ASSUME QueueInv, UNCHANGED <<queue, keeper, live, pending, nextId>>
    PROVE  QueueInv'
BY DEF QueueInv, OwnersTyped, CallsInv, HeldReturned, SecretsOwned, IsCurrent

\* The head tracks a secret it made or read.
LEMMA TrackOwners ==
    ASSUME QueueInv, queue # <<>>,
           pending' = pending \cup {Op.id}, live' = live \cup {Op.id},
           UNCHANGED <<queue, keeper, nextId>>
    PROVE  QueueInv' /\ Op.id \in pending'
<1>1. OwnersTyped' /\ HeldReturned'
  BY HeadCall DEF QueueInv, OwnersTyped, HeldReturned
<1>2. CallsInv'
  BY DEF QueueInv, CallsInv, IsCurrent
<1>3. SecretsOwned'
  <2>1. \A id \in pending' : \E i \in 1 .. Len(queue) : queue[i].id = id
    BY HeadCall DEF QueueInv, SecretsOwned
  <2>2. live' = pending' \cup ({keeper.buf} \ {0})
    BY DEF QueueInv, SecretsOwned
  <2> QED BY <2>1, <2>2 DEF QueueInv, SecretsOwned
<1> QED BY <1>1, <1>2, <1>3 DEF QueueInv

\* lock() and onDispose: nothing is held, nothing is tracked, and no call of the
\* queue is of the session that follows.
LEMMA ForgetOwners ==
    ASSUME QueueInv, HeadInv, keeper' \in Keepers, keeper'.cur = NONE, keeper'.buf = 0,
           keeper'.gen = keeper.gen + 1, pending' = {},
           live' = live \ (pending \cup {keeper.buf}), UNCHANGED <<queue, pc, nextId>>
    PROVE  QueueInv' /\ HeadInv' /\ (queue # <<>> => ~Fresh')
<1>1. keeper.gen \in Nat
  BY DEF QueueInv, OwnersTyped, Keepers
<1>2. ASSUME NEW i \in 1 .. Len(queue)
      PROVE  /\ queue[i].id < nextId /\ queue[i].gen < keeper'.gen /\ queue[i].id # 0
             /\ queue[i].gen <= keeper'.gen /\ queue[i].gen # keeper'.gen
             /\ queue[i].kind \in Incoming => queue[i].sec \in Passphrases
  <2>1. queue[i].gen \in Nat /\ queue[i].id \in Ids
    BY QueuedCall
  <2> QED BY <1>1, <2>1 DEF QueueInv, CallsInv, Ids
<1>3. OwnersTyped' /\ HeldReturned'
  BY <1>2 DEF QueueInv, OwnersTyped, HeldReturned
<1>4. CallsInv'
  BY <1>2 DEF QueueInv, CallsInv, IsCurrent
<1>5. SecretsOwned'
  BY DEF QueueInv, SecretsOwned
<1>6. queue # <<>> => ~Fresh'
  BY <1>2, HeadCall DEF Fresh, IsCurrent, Op
<1>7. HeadInv'
  BY <1>6 DEF HeadInv, Op
<1> QED BY <1>3, <1>4, <1>5, <1>6, <1>7 DEF QueueInv

\* A new call waits behind the others.
LEMMA CallOwners ==
    ASSUME QueueInv, HeadInv, NEW kind \in AllKinds, NEW secret \in Passphrases \cup {NONE},
           kind \in Incoming => secret \in Passphrases, Call(kind, secret)
    PROVE  QueueInv' /\ HeadInv' /\ (queue # <<>> => Op' = Op)
<1> DEFINE call == [id |-> nextId, kind |-> kind, sec |-> secret, gen |-> keeper.gen]
           n == Len(queue)
<1>1. /\ nextId <= MaxOps /\ ~keeper.disposed /\ nextId' = nextId + 1
      /\ IF kind \in Incoming
         THEN pending' = pending \cup {nextId} /\ live' = live \cup {nextId}
         ELSE UNCHANGED <<pending, live>>
      /\ UNCHANGED <<keeper, pc, run>>
  BY DEF Call
<1>2. /\ nextId \in Nat /\ nextId \in Ids /\ nextId' \in 1 .. MaxOps + 1
      /\ keeper.gen \in Nat /\ call \in Calls
  BY <1>1, Constants DEF QueueInv, OwnersTyped, Keepers, Ids, Calls
<1>3. call.id = nextId /\ call.kind = kind /\ call.sec = secret /\ call.gen = keeper.gen
  OBVIOUS
<1>4. queue' = Append(queue, call)
  BY DEF Call
<1> HIDE DEF call
<1>5. /\ queue' \in Seq(Calls) /\ n \in Nat /\ Len(queue') = n + 1
      /\ queue'[n + 1] = call /\ n + 1 \in 1 .. Len(queue')
      /\ \A i \in 1 .. n : queue'[i] = queue[i] /\ i \in 1 .. Len(queue')
      /\ \A i \in 1 .. Len(queue') : i \in 1 .. n \/ i = n + 1
  BY <1>2, <1>4 DEF QueueInv, OwnersTyped
<1>6. \A i \in 1 .. n : queue[i].id < nextId /\ queue[i].id \in Nat
  BY QueuedCall DEF QueueInv, CallsInv, Ids
<1>7. OwnersTyped'
  BY <1>1, <1>2, <1>5 DEF QueueInv, OwnersTyped
<1>8. CallsInv'
  <2>1. \A i, j \in 1 .. Len(queue') : queue'[i].id = queue'[j].id => i = j
    BY <1>2, <1>3, <1>5, <1>6 DEF QueueInv, CallsInv
  <2>2. ASSUME NEW i \in 1 .. Len(queue')
        PROVE  /\ queue'[i].id < nextId' /\ queue'[i].gen <= keeper'.gen
               /\ keeper'.disposed => queue'[i].gen # keeper'.gen
               /\ queue'[i].kind \in Incoming =>
                    /\ queue'[i].sec \in Passphrases
                    /\ (~keeper'.disposed /\ queue'[i].gen = keeper'.gen)
                         => queue'[i].id \in pending'
    <3>1. CASE i \in 1 .. n
      <4>1. queue'[i] = queue[i] /\ queue[i].id < nextId /\ queue[i].id \in Nat
        BY <1>5, <1>6, <3>1
      <4>2. pending \subseteq pending'
        BY <1>1
      <4> QED BY <1>1, <1>2, <3>1, <4>1, <4>2 DEF QueueInv, CallsInv, IsCurrent
    <3>2. CASE i = n + 1
      BY <1>1, <1>2, <1>3, <1>5, <3>2
    <3> QED BY <1>5, <3>1, <3>2
  <2> QED BY <2>1, <2>2 DEF CallsInv, IsCurrent
<1>9. HeldReturned'
  <2>1. keeper.buf < nextId /\ keeper.buf \in Nat
    BY Constants DEF QueueInv, OwnersTyped, HeldReturned, Keepers
  <2>2. \A i \in 1 .. Len(queue') : queue'[i].id # keeper.buf
    BY <1>2, <1>3, <1>5, <2>1 DEF QueueInv, HeldReturned
  <2> QED BY <1>1, <1>2, <2>1, <2>2 DEF HeldReturned
<1>10. SecretsOwned'
  <2>1. live' = pending' \cup ({keeper.buf} \ {0})
    BY <1>1 DEF QueueInv, SecretsOwned
  <2>2. ASSUME NEW id \in pending'
        PROVE  \E i \in 1 .. Len(queue') : queue'[i].id = id
    <3>1. CASE id \in pending
      <4>1. PICK i \in 1 .. n : queue[i].id = id
        BY <3>1 DEF QueueInv, SecretsOwned
      <4> QED BY <1>5, <4>1
    <3>2. CASE id = nextId
      BY <1>3, <1>5, <3>2
    <3> QED BY <1>1, <3>1, <3>2
  <2> QED BY <1>1, <2>1, <2>2 DEF QueueInv, SecretsOwned
<1>11. queue # <<>> => Op' = Op /\ queue' # <<>>
  BY <1>5, HeadCall DEF Op
<1>12. HeadInv'
  BY <1>1, <1>11 DEF HeadInv, Fresh, IsCurrent
<1> QED BY <1>7, <1>8, <1>9, <1>10, <1>11, <1>12 DEF QueueInv

\* A provider that is built again serves no call of the session it disposed.
LEMMA BuildOwners ==
    ASSUME QueueInv, HeadInv, keeper' = [keeper EXCEPT !.disposed = FALSE],
           UNCHANGED <<live, pending, queue, pc, nextId>>
    PROVE  QueueInv' /\ HeadInv' /\ (queue # <<>> => (Fresh' <=> Fresh))
<1>1. /\ keeper' \in Keepers /\ keeper'.cur = keeper.cur /\ keeper'.buf = keeper.buf
      /\ keeper'.gen = keeper.gen /\ keeper'.disposed = FALSE
      /\ keeper.disposed \in BOOLEAN
  BY DEF QueueInv, OwnersTyped, Keepers
<1>2. \A i \in 1 .. Len(queue) : keeper.disposed => queue[i].gen # keeper.gen
  BY DEF QueueInv, CallsInv
<1>3. OwnersTyped' /\ HeldReturned' /\ SecretsOwned'
  BY <1>1 DEF QueueInv, OwnersTyped, HeldReturned, SecretsOwned
<1>4. CallsInv'
  BY <1>1, <1>2 DEF QueueInv, CallsInv, IsCurrent
<1>5. queue # <<>> => (Fresh' <=> Fresh)
  BY <1>1, <1>2, HeadCall DEF Fresh, IsCurrent, Op
<1>6. HeadInv'
  BY <1>1, <1>5 DEF HeadInv, Op
<1> QED BY <1>3, <1>4, <1>5, <1>6 DEF QueueInv

-----------------------------------------------------------------------------
(* The invariant, for each way the head may go                              *)

\* A call about to start: the provider is built and the session its own.
LEMMA HeadStarts ==
    ASSUME IInv, NEW kind, Starts(kind)
    PROVE  /\ queue # <<>> /\ pc = "wait" /\ Fresh /\ Op.kind = kind
           /\ phase = "ready" /\ store = epoch /\ ~keeper.disposed
           /\ keeper.cur # NONE => Held(disk)
           /\ sess = "unlocked" => keeper.cur # NONE /\ view = disk.db.rev
BY DEF Starts, At, IInv, ProviderInv, DiskInv, ViewInv

\* A call at work on the active data set.
LEMMA HeadWorks ==
    ASSUME IInv, NEW label, label # "wait", At(label)
    PROVE  /\ queue # <<>> /\ pc = label
           /\ keeper.cur # NONE => Fresh
           /\ label # "switched" =>
                run.ep = epoch /\ (keeper.cur # NONE => Held(disk))
           /\ Place(label, run, disk, Op) /\ run \in Runnings
BY DEF At, IInv, HeadInv, ProviderInv, DiskInv, RestTyped

\* What the page shows once the head has returned and still holds what it held.
Settled(d) ==
    sess' = "unlocked" /\ phase = "ready" => keeper.cur # NONE /\ view' = d.db.rev

LEMMA FinishKeeps ==
    ASSUME IInv, queue # <<>>, Finish, UNCHANGED <<nextId, provider>>,
           NEW d \in Disks, disk' = d, ks' \in KeyRecords, sess' \in States, view' \in Nat,
           Matched(d), keeper.cur # NONE => Held(d), Settled(d)
    PROVE  IInv'
<1>1. QueueInv' /\ keeper' = keeper /\ pc' = "wait" /\ run' = NoRun
  BY FinishOwners DEF IInv
<1>2. HeadInv'
  BY <1>1 DEF HeadInv
<1>3. DiskInv'
  BY <1>1 DEF DiskInv, Place, Matched, Held
<1>4. ProviderInv'
  BY <1>1 DEF IInv, ProviderInv, provider
<1>5. ViewInv'
  BY <1>1 DEF ViewInv, Settled, provider
<1>6. RestTyped'
  BY <1>1, EmptyTyped DEF IInv, RestTyped, Labels, provider
<1> QED BY <1>1, <1>2, <1>3, <1>4, <1>5, <1>6 DEF IInv

LEMMA ForgettingKeeps ==
    ASSUME IInv, queue # <<>>, FinishForgetting, UNCHANGED <<nextId, provider>>,
           NEW d \in Disks, disk' = d, ks' \in KeyRecords, sess' \in States, view' \in Nat,
           Matched(d), phase = "ready" => sess' # "unlocked"
    PROVE  IInv'
<1>1. /\ QueueInv' /\ pc' = "wait" /\ run' = NoRun
      /\ keeper'.cur = NONE /\ keeper'.disposed = keeper.disposed
  BY FinishForgettingOwners DEF IInv
<1>2. HeadInv'
  BY <1>1 DEF HeadInv
<1>3. DiskInv'
  BY <1>1 DEF DiskInv, Place, Matched
<1>4. ProviderInv'
  BY <1>1 DEF IInv, ProviderInv, provider
<1>5. ViewInv'
  BY <1>1 DEF ViewInv, provider
<1>6. RestTyped'
  BY <1>1, EmptyTyped DEF IInv, RestTyped, Labels, provider
<1> QED BY <1>1, <1>2, <1>3, <1>4, <1>5, <1>6 DEF IInv

LEMMA HoldingKeeps ==
    ASSUME IInv, queue # <<>>, Op.id \in pending,
           NEW secret \in Secrets, NEW blob \in Blobs \cup {NONE}, NEW bio \in BOOLEAN,
           FinishHolding(secret, blob, bio), UNCHANGED <<nextId, provider>>,
           NEW d \in Disks, disk' = d, ks' \in KeyRecords, sess' \in States, view' \in Nat,
           Matched(d), Reads(secret, blob, d), d.blob # NONE,
           sess' = "unlocked" /\ phase = "ready" => view' = d.db.rev
    PROVE  IInv'
<1>1. /\ QueueInv' /\ pc' = "wait" /\ run' = NoRun
      /\ keeper'.cur = secret /\ keeper'.blob = blob /\ keeper'.cur # NONE
      /\ keeper'.disposed = keeper.disposed
  BY FinishHoldingOwners DEF IInv
<1>2. HeadInv'
  BY <1>1 DEF HeadInv
<1>3. DiskInv'
  BY <1>1 DEF DiskInv, Place, Matched, Held, Reads, Opens
<1>4. ProviderInv'
  BY <1>1 DEF IInv, ProviderInv, provider
<1>5. ViewInv'
  BY <1>1 DEF ViewInv, provider
<1>6. RestTyped'
  BY <1>1, EmptyTyped DEF IInv, RestTyped, Labels, provider
<1> QED BY <1>1, <1>2, <1>3, <1>4, <1>5, <1>6 DEF IInv

\* What the session must be for the head to stand at a label.
Stands(label) ==
    /\ keeper.cur # NONE => Fresh
    /\ label \in {"write", "written", "reread", "keepRead"} /\ Fresh => keeper.cur # NONE
    /\ label = "load" /\ Fresh => Op.id \in pending
    /\ label \in {"create", "wrap", "created"} => Op.kind = "enable"
    /\ label = "rewrap" => Op.kind = "change"

\* What the page shows while the head goes on.
Shown(label, r, d) ==
    sess' = "unlocked" /\ phase = "ready" =>
        /\ keeper.cur # NONE
        /\ view' = d.db.rev \/ (label \in {"written", "reread"} /\ r.ok /\ Fresh)

LEMMA GoesOn ==
    ASSUME IInv, queue # <<>>, NEW label \in Labels \ {"wait", "switched"}, Continue(label),
           UNCHANGED <<nextId, provider>>,
           NEW r \in Runnings, run' = r, r.ep = epoch, NEW d \in Disks, disk' = d,
           ks' \in KeyRecords, sess' \in States, view' \in Nat,
           Matched(d), keeper.cur # NONE => Held(d), Place(label, r, d, Op),
           Stands(label), Shown(label, r, d)
    PROVE  IInv'
<1>1. UNCHANGED <<queue, keeper, live, pending>> /\ pc' = label
  BY DEF Continue
<1>2. QueueInv' /\ Op' = Op /\ (Fresh' <=> Fresh)
  BY <1>1, SameOwners DEF IInv, Op, Fresh, IsCurrent
<1>3. HeadInv'
  BY <1>1, <1>2 DEF HeadInv, Stands
<1>4. DiskInv'
  <2>1. Matched(disk') /\ Held(disk)' = Held(d) /\ Place(pc', run', disk', Op')
    BY <1>1, <1>2 DEF Held
  <2> QED BY <1>1, <2>1 DEF DiskInv, Matched, Place
<1>5. ProviderInv'
  BY <1>1 DEF IInv, ProviderInv, provider
<1>6. ViewInv'
  BY <1>1, <1>2 DEF ViewInv, Shown, provider
<1>7. RestTyped'
  BY <1>1 DEF IInv, RestTyped, provider
<1> QED BY <1>2, <1>3, <1>4, <1>5, <1>6, <1>7 DEF IInv

\* The device as it was: nothing to show of it.
LEMMA Device1 ==
    ASSUME IInv
    PROVE  /\ disk \in Disks /\ ks \in KeyRecords /\ sess \in States /\ view \in Nat
           /\ Matched(disk)
           /\ keeper \in Keepers
           /\ pc # "switched" /\ keeper.cur # NONE => Held(disk)
           /\ pc \notin {"written", "reread"} /\ sess = "unlocked" /\ phase = "ready" =>
                keeper.cur # NONE /\ view = disk.db.rev
BY DEF IInv, RestTyped, DiskInv, ViewInv, QueueInv, OwnersTyped

\* The head ends and leaves everything else alone.
LEMMA EndsKeeps ==
    ASSUME IInv, queue # <<>>, pc # "switched",
           pc \in {"written", "reread"} => ~(run.ok /\ Fresh), Ends
    PROVE  IInv'
<1>1. Finish /\ UNCHANGED <<nextId, provider>> /\ disk' = disk /\ ks' = ks
      /\ sess' = sess /\ view' = view
  BY DEF Ends, Quiet
<1>2. Settled(disk)
  BY <1>1 DEF Settled, IInv, ViewInv
<1> QED BY <1>1, <1>2, Device1, FinishKeeps

\* The head waits for an answer and has changed no file.
LEMMA AwaitsKeeps ==
    ASSUME IInv, queue # <<>>, pc # "switched",
           NEW label \in Labels \ {"wait", "switched"}, NEW r \in Runnings, r.ep = epoch,
           Awaits(label, r), UNCHANGED disk, Place(label, r, disk, Op), Stands(label),
           pc \in {"written", "reread"} => label \in {"written", "reread"} /\ r.ok = run.ok
    PROVE  IInv'
<1>1. /\ Continue(label) /\ run' = r /\ UNCHANGED <<nextId, provider>>
      /\ disk' = disk /\ ks' = ks /\ sess' = sess /\ view' = view
  BY DEF Awaits, Quiet
<1>2. Shown(label, r, disk)
  BY <1>1 DEF Shown, IInv, ViewInv
<1> QED BY <1>1, <1>2, Device1, GoesOn

\* The locals of a call that starts.
LEMMA LocalTyped ==
    ASSUME NEW blob \in Blobs \cup {NONE}, NEW secret \in Secrets \cup {NONE},
           NEW bio \in BOOLEAN, store \in Nat
    PROVE  /\ Local(blob, secret, bio) \in Runnings
           /\ Local(blob, secret, bio).blob = blob /\ Local(blob, secret, bio).sec = secret
           /\ Local(blob, secret, bio).ep = store
BY Constants, EmptyTyped DEF Local, NoRun, Runnings

LEMMA InitialState ==
    ASSUME NEW d
    PROVE  InitialStateFor(d) \in {"locked", "uninit"}
BY DEF InitialStateFor

\* discardOrphanDatabase costs a whole vault nothing.
LEMMA DiscardedIs ==
    ASSUME NEW d \in Disks, Matched(d)
    PROVE  /\ Discarded(d) \in Disks /\ Matched(Discarded(d))
           /\ d.blob # NONE => Discarded(d) = d
           /\ ~IsInitialized(d) => Discarded(d).db = NONE /\ Discarded(d).blob = NONE
BY EmptyTyped DEF Discarded, HasOrphanDatabase, IsInitialized, Matched, NoDisk, Disks

-----------------------------------------------------------------------------
(* enable                                                                   *)

LEMMA StartEnableKeeps == ASSUME IInv, StartEnable PROVE IInv'
<1>1. /\ queue # <<>> /\ pc = "wait" /\ Fresh /\ Op.kind = "enable"
      /\ store = epoch /\ Op.sec \in Passphrases
      /\ keeper.cur # NONE => Held(disk)
      /\ sess = "unlocked" => keeper.cur # NONE
  BY HeadStarts, HeadCall DEF StartEnable, IInv, Incoming
<1>2. CASE Ends
  BY <1>1, <1>2, EndsKeeps
<1>3. CASE /\ ~IsInitialized(disk)
           /\ disk' = Discarded(disk)
           /\ Awaits("create", [Local(NONE, Op.sec, FALSE) EXCEPT !.life = keeper.life])
  <2> DEFINE r == [Local(NONE, Op.sec, FALSE) EXCEPT !.life = keeper.life]
             d == Discarded(disk)
  <2>1. r \in Runnings /\ r.blob = NONE /\ r.sec \in Secrets /\ r.ep = epoch
    <3>1. keeper.life \in Nat /\ store \in Nat /\ Op.sec \in Secrets
      BY <1>1, Device1, Constants DEF Keepers, IInv, RestTyped
    <3>2. /\ Local(NONE, Op.sec, FALSE) \in Runnings /\ Local(NONE, Op.sec, FALSE).blob = NONE
          /\ Local(NONE, Op.sec, FALSE).sec = Op.sec /\ Local(NONE, Op.sec, FALSE).ep = store
      BY <3>1, LocalTyped
    <3> QED BY <1>1, <3>1, <3>2 DEF Runnings
  <2>2. /\ d \in Disks /\ Matched(d) /\ d.db = NONE
    BY <1>3, Device1, DiscardedIs
  <2>3. keeper.cur = NONE /\ sess # "unlocked"
    BY <1>1, <1>3 DEF Held, Reads, IsInitialized
  <2>4. /\ Continue("create") /\ run' = r /\ UNCHANGED <<nextId, provider>>
        /\ disk' = d /\ ks' = ks /\ sess' = sess /\ view' = view
    BY <1>3 DEF Awaits, Quiet
  <2> HIDE DEF r, d
  <2>5. Place("create", r, d, Op) /\ Stands("create") /\ Shown("create", r, d)
    BY <1>1, <2>1, <2>2, <2>3, <2>4 DEF Place, Stands, Shown
  <2> QED BY <1>1, <2>1, <2>2, <2>3, <2>4, <2>5, Device1, GoesOn DEF Labels
<1> QED BY <1>2, <1>3 DEF StartEnable

LEMMA CoreCreatesKeeps == ASSUME IInv, CoreCreates PROVE IInv'
<1>1. /\ queue # <<>> /\ pc = "create" /\ run.ep = epoch /\ run \in Runnings
      /\ keeper.cur # NONE => Held(disk)
      /\ disk.db = NONE /\ run.blob = NONE /\ run.sec \in Secrets
      /\ Op.kind = "enable" /\ Op.id \in KeyIds
  BY HeadWorks, HeadCall, Constants DEF CoreCreates, Place, IInv, HeadInv
<1>2. /\ keeper.cur = NONE /\ disk.blob = NONE /\ disk.bio = NONE
      /\ ~(sess = "unlocked" /\ phase = "ready")
  BY <1>1, Device1 DEF Held, Reads, Matched
<1>3. CASE /\ disk' = [disk EXCEPT !.db = [key |-> Op.id, rev |-> 0]]
           /\ Awaits("wrap", run)
  <2> DEFINE d == [disk EXCEPT !.db = [key |-> Op.id, rev |-> 0]]
  <2>1. /\ d \in Disks /\ d.db # NONE /\ d.db.key = Op.id
        /\ d.blob = NONE /\ d.bio = NONE
    <3>1. [key |-> Op.id, rev |-> 0] \in Databases
      BY <1>1 DEF Databases
    <3>2. [key |-> Op.id, rev |-> 0] # NONE
      BY <3>1, Constants
    <3> QED BY <1>2, <3>1, <3>2, Device1 DEF Disks
  <2>2. /\ Continue("wrap") /\ run' = run /\ UNCHANGED <<nextId, provider>>
        /\ disk' = d /\ ks' = ks /\ sess' = sess /\ view' = view
    BY <1>3 DEF Awaits, Quiet
  <2> HIDE DEF d
  <2>3. Matched(d) /\ Place("wrap", run, d, Op) /\ Stands("wrap") /\ Shown("wrap", run, d)
    BY <1>1, <1>2, <2>1, <2>2 DEF Matched, Place, Stands, Shown
  <2> QED BY <1>1, <1>2, <2>1, <2>2, <2>3, Device1, GoesOn DEF Labels
<1>4. CASE Awaits("created", run) /\ UNCHANGED disk
  <2>1. Place("created", run, disk, Op) /\ Stands("created")
    BY <1>1, <1>2 DEF Place, Stands
  <2> QED BY <1>1, <1>4, <2>1, AwaitsKeeps DEF Labels
<1> QED BY <1>3, <1>4 DEF CoreCreates

LEMMA CoreWrapsKeeps == ASSUME IInv, CoreWraps PROVE IInv'
<1>1. /\ queue # <<>> /\ pc = "wrap" /\ run.ep = epoch /\ run \in Runnings
      /\ keeper.cur # NONE => Fresh
      /\ disk.db # NONE /\ disk.db.key = Op.id /\ disk.blob = NONE
      /\ run.blob = NONE /\ run.sec \in Secrets
      /\ Op.kind = "enable" /\ Op.id \in KeyIds
  BY HeadWorks, HeadCall, Constants DEF CoreWraps, Place, IInv, HeadInv
<1> DEFINE r == [run EXCEPT !.blob = [key |-> Op.id, by |-> run.sec]]
<1>2. r \in Runnings /\ r.ep = epoch /\ r.blob.key = Op.id
  <2>1. [key |-> Op.id, by |-> run.sec] \in Blobs
    BY <1>1 DEF Blobs
  <2> QED BY <1>1, <2>1 DEF Runnings
<1> HIDE DEF r
<1>3. ASSUME NEW q \in {r, run}
      PROVE  Place("created", q, disk, Op) /\ Stands("created")
  BY <1>1, <1>2 DEF Place, Stands
<1>4. CASE Awaits("created", r) /\ UNCHANGED disk
  BY <1>1, <1>2, <1>3, <1>4, AwaitsKeeps DEF Labels
<1>5. CASE Awaits("created", run) /\ UNCHANGED disk
  BY <1>1, <1>3, <1>5, AwaitsKeeps DEF Labels
<1> QED BY <1>4, <1>5 DEF CoreWraps, r

LEMMA CreatedKeeps == ASSUME IInv, Created PROVE IInv'
<1>1. /\ queue # <<>> /\ pc = "created" /\ run.ep = epoch /\ run \in Runnings
      /\ keeper.cur # NONE => Held(disk)
      /\ disk.blob = NONE
      /\ run.blob # NONE => disk.db # NONE /\ disk.db.key = run.blob.key
      /\ Op.kind = "enable" /\ (Fresh => Op.id \in pending)
  BY HeadWorks, HeadCall DEF Created, Place, IInv, HeadInv, Incoming
<1>2. /\ keeper.cur = NONE /\ disk.bio = NONE /\ ~(sess = "unlocked" /\ phase = "ready")
  BY <1>1, Device1 DEF Held, Matched
<1>3. ASSUME NEW d \in Disks, Matched(d), disk' = d, Finish, ShowInitial,
             UNCHANGED <<ks, provider, nextId>>
      PROVE  IInv'
  <2>1. sess' \in {"locked", "uninit"} /\ view' = 0
    BY <1>3, InitialState DEF ShowInitial, Show
  <2>2. Settled(d) /\ sess' \in States /\ view' \in Nat /\ ks' \in KeyRecords
    BY <1>3, <2>1, Device1 DEF Settled, States
  <2> QED BY <1>1, <1>2, <1>3, <2>2, FinishKeeps
<1>4. CASE Ends
  BY <1>1, <1>4, EndsKeeps
<1>5. CASE UNCHANGED disk /\ Finish /\ ShowInitial /\ UNCHANGED <<ks, provider, nextId>>
  BY <1>3, <1>5, Device1
<1>6. CASE /\ disk' \in {Discarded(disk), disk}
           /\ Finish /\ ShowInitial /\ UNCHANGED <<ks, provider, nextId>>
  BY <1>3, <1>6, Device1, DiscardedIs
<1>7. CASE /\ run.blob # NONE
           /\ disk' = [disk EXCEPT !.blob = run.blob]
           /\ IF Fresh
              THEN Continue("load") /\ run' = run /\ Quiet
              ELSE Finish /\ ShowInitial
           /\ UNCHANGED <<ks, provider, nextId>>
  <2> DEFINE d == [disk EXCEPT !.blob = run.blob]
  <2>1. /\ d \in Disks /\ d.blob = run.blob /\ d.db = disk.db /\ d.bio = disk.bio
    BY <1>1, Device1 DEF Disks, Runnings
  <2>2. disk' = d
    BY <1>7
  <2> HIDE DEF d
  <2>3. Matched(d)
    BY <1>1, <1>2, <1>7, <2>1 DEF Matched
  <2>4. CASE ~Fresh
    BY <1>3, <1>7, <2>1, <2>2, <2>3, <2>4
  <2>5. CASE Fresh
    <3>1. /\ Continue("load") /\ run' = run /\ UNCHANGED <<nextId, provider>>
          /\ ks' = ks /\ sess' = sess /\ view' = view
      BY <1>7, <2>5 DEF Quiet
    <3>2. Place("load", run, d, Op) /\ Stands("load") /\ Shown("load", run, d)
      BY <1>1, <1>2, <1>7, <2>1, <2>5, <3>1 DEF Place, Stands, Shown
    <3> QED BY <1>1, <1>2, <2>1, <2>2, <2>3, <3>1, <3>2, Device1, GoesOn DEF Labels
  <2> QED BY <2>4, <2>5
<1> QED BY <1>4, <1>5, <1>6, <1>7 DEF Created

\* _holdAndLoad: the secret is held only if it opens the database.
LEMMA LoadedKeeps == ASSUME IInv, Loaded PROVE IInv'
<1>1. /\ queue # <<>> /\ pc = "load" /\ disk.blob # NONE /\ run \in Runnings
      /\ Fresh => Op.id \in pending
  BY HeadWorks DEF Loaded, Place, IInv, HeadInv
<1>2. UNCHANGED <<nextId, provider>> /\ disk' = disk /\ ks' = ks
  BY DEF Loaded
<1>3. CASE ~Fresh /\ Finish /\ Quiet
  BY <1>1, <1>2, <1>3, EndsKeeps DEF Ends
<1>4. CASE /\ Fresh /\ Reads(run.sec, run.blob, disk)
           /\ FinishHolding(run.sec, run.blob, run.bio)
           /\ Show("unlocked", disk.db.rev)
  <2>1. /\ run.blob # NONE /\ run.blob \in Blobs /\ run.bio \in BOOLEAN /\ disk.db # NONE
        /\ run.sec = run.blob.by
    BY <1>1, <1>4 DEF Reads, Opens, Runnings
  <2>2. run.sec \in Secrets /\ disk.db.rev \in Nat
    BY <2>1, Device1 DEF Blobs, Disks, Databases
  <2>3. sess' = "unlocked" /\ view' = disk.db.rev
    BY <1>4 DEF Show
  <2> QED BY <1>1, <1>2, <1>4, <2>1, <2>2, <2>3, Device1, HoldingKeeps DEF States
<1>5. CASE FinishForgetting /\ Show(InitialStateFor(disk), 0)
  <2>1. sess' \in {"locked", "uninit"} /\ view' = 0
    BY <1>5, InitialState DEF Show
  <2> QED BY <1>1, <1>2, <1>5, <2>1, Device1, ForgettingKeeps DEF States
<1> QED BY <1>3, <1>4, <1>5 DEF Loaded

-----------------------------------------------------------------------------
(* unlock, changePassphrase and the writes                                  *)

\* A call that starts from what the session holds.
LEMMA StartsHeld ==
    ASSUME IInv, NEW kind, Starts(kind), keeper.cur # NONE, NEW bio \in BOOLEAN
    PROVE  LET r == Local(keeper.blob, keeper.cur, bio) IN
             /\ r \in Runnings /\ r.ep = epoch
             /\ Reads(r.sec, r.blob, disk) /\ disk.blob # NONE
<1>1. /\ Held(disk) /\ store = epoch /\ store \in Nat
      /\ keeper.blob \in Blobs \cup {NONE} /\ keeper.cur \in Secrets \cup {NONE}
  BY HeadStarts, Device1 DEF Keepers, IInv, RestTyped
<1> QED BY <1>1, LocalTyped DEF Held

LEMMA StartUnlockKeeps == ASSUME IInv, StartUnlock PROVE IInv'
<1>1. /\ queue # <<>> /\ pc = "wait" /\ Fresh /\ Op.kind = "unlock" /\ store = epoch
      /\ Op.sec \in Passphrases /\ Op.id \in pending
  BY HeadStarts, HeadCall DEF StartUnlock, IInv, Incoming
<1>2. CASE Ends
  BY <1>1, <1>2, EndsKeeps
<1>3. CASE /\ disk.blob # NONE
           /\ Awaits("load", Local(disk.blob, Op.sec, FALSE)) /\ UNCHANGED disk
  <2> DEFINE r == Local(disk.blob, Op.sec, FALSE)
  <2>1. r \in Runnings /\ r.ep = epoch
    <3>1. disk.blob \in Blobs \cup {NONE} /\ Op.sec \in Secrets /\ store \in Nat
      BY <1>1, Device1, Constants DEF Disks, IInv, RestTyped
    <3> QED BY <1>1, <3>1, LocalTyped
  <2> HIDE DEF r
  <2>2. Place("load", r, disk, Op) /\ Stands("load")
    BY <1>1, <1>3 DEF Place, Stands
  <2> QED BY <1>1, <1>3, <2>1, <2>2, AwaitsKeeps DEF Labels, r
<1> QED BY <1>2, <1>3 DEF StartUnlock

LEMMA StartChangeKeeps == ASSUME IInv, StartChange PROVE IInv'
<1>1. queue # <<>> /\ pc = "wait" /\ Fresh /\ Op.kind = "change"
  BY HeadStarts DEF StartChange
<1>2. CASE Ends
  BY <1>1, <1>2, EndsKeeps
<1>3. CASE /\ keeper.cur # NONE
           /\ Awaits("rewrap", Local(keeper.blob, keeper.cur, FALSE)) /\ UNCHANGED disk
  <2> DEFINE r == Local(keeper.blob, keeper.cur, FALSE)
  <2>1. r \in Runnings /\ r.ep = epoch /\ Reads(r.sec, r.blob, disk) /\ disk.blob # NONE
    BY <1>3, StartsHeld DEF StartChange
  <2> HIDE DEF r
  <2>2. Place("rewrap", r, disk, Op) /\ Stands("rewrap")
    BY <1>1, <2>1 DEF Place, Stands
  <2> QED BY <1>1, <1>3, <2>1, <2>2, AwaitsKeeps DEF Labels, r
<1> QED BY <1>2, <1>3 DEF StartChange

LEMMA StartMutateKeeps == ASSUME IInv, StartMutate PROVE IInv'
<1>1. queue # <<>> /\ pc = "wait" /\ Fresh /\ keeper.bio \in BOOLEAN
  BY HeadStarts, Device1 DEF StartMutate, Keepers
<1>2. CASE Ends
  BY <1>1, <1>2, EndsKeeps
<1>3. CASE /\ keeper.cur # NONE
           /\ Awaits("write", Local(keeper.blob, keeper.cur, keeper.bio)) /\ UNCHANGED disk
  <2> DEFINE r == Local(keeper.blob, keeper.cur, keeper.bio)
  <2>1. r \in Runnings /\ r.ep = epoch /\ Reads(r.sec, r.blob, disk) /\ disk.blob # NONE
    BY <1>1, <1>3, StartsHeld DEF StartMutate
  <2> HIDE DEF r
  <2>2. Place("write", r, disk, Op) /\ Stands("write")
    BY <1>1, <1>3, <2>1 DEF Place, Stands
  <2> QED BY <1>1, <1>3, <2>1, <2>2, AwaitsKeeps DEF Labels, r
<1> QED BY <1>2, <1>3 DEF StartMutate

\* The same key under another secret: every other blob still matches.
LEMMA RewrapMatches ==
    ASSUME NEW d \in Disks, Matched(d), d.db # NONE, d.blob # NONE,
           NEW blob \in Blobs, blob.key = d.db.key, NEW secret \in Secrets
    PROVE  LET new == Rewrap(blob, secret)
               e == [d EXCEPT !.blob = new]
               b == [d EXCEPT !.bio = new] IN
           /\ new \in Blobs /\ new # NONE /\ new.by = secret /\ new.key = d.db.key
           /\ e \in Disks /\ e.blob = new /\ e.db = d.db /\ Matched(e)
           /\ b \in Disks /\ b.blob = d.blob /\ b.db = d.db /\ Matched(b)
<1> DEFINE new == Rewrap(blob, secret)
<1>1. new \in Blobs /\ new.by = secret /\ new.key = d.db.key
  BY DEF Rewrap, Blobs
<1>2. new # NONE
  BY <1>1, Constants
<1> HIDE DEF new
<1>3. /\ [d EXCEPT !.blob = new] \in Disks /\ [d EXCEPT !.blob = new].blob = new
      /\ [d EXCEPT !.blob = new].db = d.db /\ [d EXCEPT !.blob = new].bio = d.bio
      /\ [d EXCEPT !.bio = new] \in Disks /\ [d EXCEPT !.bio = new].blob = d.blob
      /\ [d EXCEPT !.bio = new].db = d.db /\ [d EXCEPT !.bio = new].bio = new
  BY <1>1 DEF Disks
<1>4. Matched([d EXCEPT !.blob = new]) /\ Matched([d EXCEPT !.bio = new])
  BY <1>1, <1>2, <1>3 DEF Matched
<1> QED BY <1>1, <1>2, <1>3, <1>4 DEF new

LEMMA RewrappedKeeps == ASSUME IInv, Rewrapped PROVE IInv'
<1>1. /\ queue # <<>> /\ pc = "rewrap" /\ run \in Runnings
      /\ Reads(run.sec, run.blob, disk) /\ disk.blob # NONE
      /\ keeper.cur # NONE => Held(disk)
      /\ Op.kind = "change" /\ Op.sec \in Passphrases /\ (Fresh => Op.id \in pending)
  BY HeadWorks, HeadCall DEF Rewrapped, Place, IInv, HeadInv, Incoming
<1>2. CASE Ends
  BY <1>1, <1>2, EndsKeeps
<1> DEFINE new == Rewrap(run.blob, Op.sec)
           d == [disk EXCEPT !.blob = new]
<1>3. CASE /\ Fresh /\ disk' = d
           /\ IF keeper.bio THEN Finish ELSE FinishHolding(Op.sec, new, FALSE)
           /\ UNCHANGED <<ks, provider, nextId>> /\ Quiet
  <2>1. /\ new \in Blobs /\ new # NONE /\ new.by = Op.sec /\ new.key = disk.db.key
        /\ d \in Disks /\ d.blob = new /\ d.db = disk.db /\ Matched(d) /\ d.db # NONE
        /\ Op.sec \in Secrets
    <3>1. run.blob \in Blobs /\ run.blob.key = disk.db.key /\ disk.db # NONE
          /\ Op.sec \in Secrets
      BY <1>1, Constants DEF Reads, Opens, Runnings
    <3> QED BY <1>1, <3>1, RewrapMatches, Device1
  <2>2. /\ disk' = d /\ UNCHANGED <<nextId, provider>>
        /\ ks' = ks /\ sess' = sess /\ view' = view
    BY <1>3 DEF Quiet
  <2> HIDE DEF d, new
  <2>3. /\ Reads(Op.sec, new, d)
        /\ keeper.cur # NONE => Held(d)
        /\ sess' = "unlocked" /\ phase = "ready" => keeper.cur # NONE /\ view' = d.db.rev
    BY <1>1, <2>1, <2>2, Device1 DEF Reads, Opens, Held
  <2>4. CASE keeper.bio
    <3>1. Settled(d)
      BY <2>3 DEF Settled
    <3> QED BY <1>1, <1>3, <2>1, <2>2, <2>3, <2>4, <3>1, Device1, FinishKeeps
  <2>5. CASE ~keeper.bio
    BY <1>1, <1>3, <2>1, <2>2, <2>3, <2>5, Device1, HoldingKeeps
  <2> QED BY <2>4, <2>5
<1> QED BY <1>2, <1>3 DEF Rewrapped

LEMMA CoreWritesKeeps == ASSUME IInv, CoreWrites PROVE IInv'
<1>1. /\ queue # <<>> /\ pc = "write" /\ run.ep = epoch /\ run \in Runnings
      /\ keeper.cur # NONE => Held(disk)
      /\ (keeper.cur # NONE => Fresh) /\ (Fresh => keeper.cur # NONE)
      /\ disk.blob # NONE
  BY HeadWorks DEF CoreWrites, Place, IInv, HeadInv
<1>2. Stands("written")
  BY <1>1 DEF Stands
<1>3. CASE /\ Reads(run.sec, run.blob, disk)
           /\ disk' = [disk EXCEPT !.db.rev = @ + 1]
           /\ Awaits("written", [run EXCEPT !.ok = TRUE])
  <2> DEFINE d == [disk EXCEPT !.db.rev = @ + 1]
             r == [run EXCEPT !.ok = TRUE]
  <2>1. /\ d \in Disks /\ d.db # NONE /\ d.db.key = disk.db.key
        /\ d.blob = disk.blob /\ d.bio = disk.bio
    <3>1. disk.db \in Databases /\ disk.db # NONE
      BY <1>3, Device1 DEF Reads, Disks
    <3>2. d.db = [disk.db EXCEPT !.rev = @ + 1] /\ d.blob = disk.blob /\ d.bio = disk.bio
      BY Device1 DEF Disks
    <3>3. d.db \in Databases /\ d.db.key = disk.db.key
      BY <3>1, <3>2 DEF Databases
    <3>4. d \in Disks
      BY <3>3, Device1 DEF Disks
    <3> QED BY <3>2, <3>3, <3>4, Constants
  <2>2. r \in Runnings /\ r.ep = epoch /\ r.ok
    BY <1>1 DEF Runnings
  <2>3. /\ Continue("written") /\ run' = r /\ UNCHANGED <<nextId, provider>>
        /\ disk' = d /\ ks' = ks /\ sess' = sess /\ view' = view
    BY <1>3 DEF Awaits, Quiet
  <2> HIDE DEF d, r
  <2>4. Matched(d) /\ (keeper.cur # NONE => Held(d))
    BY <1>1, <2>1, Device1 DEF Matched, Held, Reads, Opens
  <2>5. Place("written", r, d, Op) /\ Shown("written", r, d)
    BY <1>1, <2>2, <2>3, Device1 DEF Place, Shown
  <2> QED BY <1>1, <1>2, <2>1, <2>2, <2>3, <2>4, <2>5, Device1, GoesOn DEF Labels
<1>4. CASE Awaits("written", run) /\ UNCHANGED disk
  <2>1. Place("written", run, disk, Op)
    BY DEF Place
  <2> QED BY <1>1, <1>2, <1>4, <2>1, AwaitsKeeps DEF Labels
<1> QED BY <1>3, <1>4 DEF CoreWrites

LEMMA WrittenKeeps == ASSUME IInv, Written PROVE IInv'
<1>1. /\ queue # <<>> /\ pc = "written" /\ run.ep = epoch /\ run \in Runnings
      /\ (keeper.cur # NONE => Fresh) /\ (Fresh => keeper.cur # NONE)
  BY HeadWorks DEF Written, IInv, HeadInv
<1>2. CASE Fresh /\ run.ok
  <2>1. Place("reread", run, disk, Op) /\ Stands("reread")
    BY <1>1 DEF Place, Stands
  <2>2. Awaits("reread", run) /\ UNCHANGED disk
    BY <1>2 DEF Written
  <2> QED BY <1>1, <2>1, <2>2, AwaitsKeeps DEF Labels
<1>3. CASE ~(Fresh /\ run.ok)
  BY <1>1, <1>3, EndsKeeps DEF Written
<1> QED BY <1>2, <1>3

LEMMA RereadKeeps == ASSUME IInv, Reread PROVE IInv'
<1>1. /\ queue # <<>> /\ pc = "reread"
      /\ keeper.cur # NONE => Held(disk)
      /\ Fresh => keeper.cur # NONE
  BY HeadWorks DEF Reread, IInv, HeadInv
<1>2. UNCHANGED <<nextId, provider>> /\ disk' = disk /\ ks' = ks
  BY DEF Reread
<1>3. CASE ~Fresh /\ Finish /\ Quiet
  BY <1>1, <1>2, <1>3, EndsKeeps DEF Ends
<1>4. CASE Fresh /\ Finish /\ Show("unlocked", disk.db.rev)
  <2>1. sess' = "unlocked" /\ view' = disk.db.rev /\ disk.db.rev \in Nat
    BY <1>1, <1>4, Device1 DEF Show, Held, Reads, Disks, Databases
  <2>2. Settled(disk)
    BY <1>1, <1>4, <2>1 DEF Settled
  <2> QED BY <1>1, <1>2, <1>4, <2>1, <2>2, Device1, FinishKeeps DEF States
<1>5. CASE FinishForgetting /\ Show(InitialStateFor(disk), 0)
  <2>1. sess' \in {"locked", "uninit"} /\ view' = 0
    BY <1>5, InitialState DEF Show
  <2> QED BY <1>1, <1>2, <1>5, <2>1, Device1, ForgettingKeeps DEF States
<1> QED BY <1>3, <1>4, <1>5 DEF Reread

LEMMA CancelledKeeps == ASSUME IInv, Cancelled PROVE IInv'
BY EndsKeeps DEF Cancelled, At, Ends

LEMMA ThrowsKeeps == ASSUME IInv, Throws PROVE IInv'
<1>1. queue # <<>> /\ pc \in {"wait", "cleared"}
  BY DEF Throws, Starts, At
<1>2. UNCHANGED <<nextId, provider>> /\ disk' = disk /\ ks' = ks
  BY DEF Throws
<1>3. CASE Finish /\ Quiet
  BY <1>1, <1>2, <1>3, EndsKeeps DEF Ends
<1>4. CASE FinishForgetting /\ Show("locked", 0)
  BY <1>1, <1>2, <1>4, Device1, ForgettingKeeps DEF Show, States
<1> QED BY <1>3, <1>4 DEF Throws

-----------------------------------------------------------------------------
(* Biometric enrolment, unlock and removal                                  *)

\* The head tracks a secret and goes on.
LEMMA TrackKeeps ==
    ASSUME IInv, queue # <<>>, pc \notin {"written", "reread", "switched"},
           NEW label \in {"seal", "load"}, pc' = label,
           NEW r \in Runnings, run' = r, r.ep = epoch,
           pending' = pending \cup {Op.id}, live' = live \cup {Op.id},
           UNCHANGED <<disk, ks, queue, keeper, provider, nextId>>, Quiet,
           Place(label, r, disk, Op), Fresh
    PROVE  IInv'
<1>1. QueueInv' /\ Op.id \in pending' /\ Op' = Op /\ Fresh'
  BY TrackOwners DEF IInv, Op, Fresh, IsCurrent
<1>2. HeadInv'
  BY <1>1 DEF HeadInv
<1>3. DiskInv'
  <2>1. Place(pc', run', disk', Op')
    BY <1>1
  <2>2. Matched(disk) /\ (keeper.cur # NONE => Held(disk))
    BY Device1
  <2> QED BY <2>1, <2>2 DEF DiskInv, Matched, Held, Place
<1>4. ProviderInv'
  BY DEF IInv, ProviderInv, provider
<1>5. ViewInv'
  BY DEF IInv, ViewInv, Quiet, provider
<1>6. RestTyped'
  BY DEF IInv, RestTyped, Quiet, Labels, provider
<1> QED BY <1>1, <1>2, <1>3, <1>4, <1>5, <1>6 DEF IInv

\* The head goes on over a Keystore that may have changed.
LEMMA KeystoreKeeps ==
    ASSUME IInv, queue # <<>>, pc \notin {"written", "reread", "switched"},
           NEW label \in {"prompt", "stored", "destroy", "cleared"}, Continue(label),
           NEW r \in Runnings, run' = r, r.ep = epoch, ks' \in KeyRecords,
           UNCHANGED <<disk, provider, nextId>>, Quiet,
           Place(label, r, disk, Op), keeper.cur # NONE => Fresh
    PROVE  IInv'
<1>1. disk' = disk /\ sess' = sess /\ view' = view /\ UNCHANGED <<nextId, provider>>
  BY DEF Quiet
<1>2. Stands(label) /\ Shown(label, r, disk)
  BY <1>1, Device1 DEF Stands, Shown
<1> QED BY <1>1, <1>2, Device1, GoesOn DEF Labels

LEMMA StartEnrolKeeps == ASSUME IInv, StartEnrol PROVE IInv'
<1>1. queue # <<>> /\ pc = "wait" /\ Fresh
  BY HeadStarts DEF StartEnrol
<1>2. CASE Ends
  BY <1>1, <1>2, EndsKeeps
<1>3. CASE /\ keeper.cur # NONE
           /\ Awaits("checkBio", Local(keeper.blob, keeper.cur, FALSE)) /\ UNCHANGED disk
  <2> DEFINE r == Local(keeper.blob, keeper.cur, FALSE)
  <2>1. r \in Runnings /\ r.ep = epoch /\ Reads(r.sec, r.blob, disk) /\ disk.blob # NONE
    BY <1>3, StartsHeld DEF StartEnrol
  <2> HIDE DEF r
  <2>2. Place("checkBio", r, disk, Op) /\ Stands("checkBio")
    BY <1>1, <2>1 DEF Place, Stands
  <2> QED BY <1>1, <1>3, <2>1, <2>2, AwaitsKeeps DEF Labels, r
<1> QED BY <1>2, <1>3 DEF StartEnrol

LEMMA EnrolAlreadyKeeps == ASSUME IInv, EnrolAlready PROVE IInv'
BY EndsKeeps DEF EnrolAlready, At

LEMMA EnrolCheckedKeeps == ASSUME IInv, EnrolChecked PROVE IInv'
<1>1. /\ queue # <<>> /\ pc = "checkBio" /\ run.ep = epoch /\ run \in Runnings
      /\ keeper.cur # NONE => Fresh
      /\ Reads(run.sec, run.blob, disk) /\ disk.blob # NONE
  BY HeadWorks DEF EnrolChecked, Place
<1>2. CASE Ends
  BY <1>1, <1>2, EndsKeeps
<1>3. CASE Awaits("wrapBio", run) /\ UNCHANGED disk
  <2>1. Place("wrapBio", run, disk, Op) /\ Stands("wrapBio")
    BY <1>1 DEF Place, Stands
  <2> QED BY <1>1, <1>3, <2>1, AwaitsKeeps DEF Labels
<1> QED BY <1>2, <1>3 DEF EnrolChecked

LEMMA EnrolWrappedKeeps == ASSUME IInv, EnrolWrapped PROVE IInv'
<1>1. /\ queue # <<>> /\ pc = "wrapBio" /\ run.ep = epoch /\ run \in Runnings
      /\ run.blob \in Blobs /\ disk.db # NONE /\ disk.blob # NONE
      /\ disk.db.key = run.blob.key /\ Op.id \in Secrets
  BY HeadWorks, HeadCall, Constants DEF EnrolWrapped, Place, Reads, Opens, Runnings, IInv
<1>2. CASE Ends
  BY <1>1, <1>2, EndsKeeps
<1>3. CASE /\ Fresh
           /\ pc' = "seal"
           /\ run' = [run EXCEPT !.blob = Rewrap(run.blob, Op.id)]
           /\ pending' = pending \cup {Op.id} /\ live' = live \cup {Op.id}
           /\ UNCHANGED <<disk, ks, queue, keeper, provider, nextId>> /\ Quiet
  <2> DEFINE new == Rewrap(run.blob, Op.id)
             r == [run EXCEPT !.blob = new]
  <2>1. new \in Blobs /\ new # NONE /\ new.key = disk.db.key
    BY <1>1, RewrapMatches, Device1
  <2> HIDE DEF new
  <2>2. r \in Runnings /\ r.ep = epoch /\ r.blob = new
    BY <1>1, <2>1 DEF Runnings
  <2>3. run' = r
    BY <1>3 DEF new
  <2> HIDE DEF r
  <2>4. Place("seal", r, disk, Op)
    BY <1>1, <2>1, <2>2 DEF Place
  <2> QED BY <1>1, <1>3, <2>2, <2>3, <2>4, TrackKeeps
<1> QED BY <1>2, <1>3 DEF EnrolWrapped

LEMMA SealKeyKeeps == ASSUME IInv, SealKey PROVE IInv'
<1>1. /\ queue # <<>> /\ pc = "seal" /\ run.ep = epoch /\ run \in Runnings
      /\ keeper.cur # NONE => Fresh
      /\ Place("seal", run, disk, Op) /\ Op.id \in KeyIds
  BY HeadWorks, HeadCall, Constants DEF SealKey, IInv
<1>2. ks' \in KeyRecords
  <2>1. ks \in KeyRecords
    BY Device1
  <2>2. [ks EXCEPT !.key = Op.id] \in KeyRecords /\ [ks EXCEPT !.key = NONE] \in KeyRecords
    BY <1>1, <2>1 DEF KeyRecords
  <2> QED BY <2>1, <2>2 DEF SealKey
<1>3. Place("prompt", run, disk, Op) /\ Place("stored", run, disk, Op)
  BY <1>1 DEF Place
<1>4. run' = run /\ UNCHANGED <<disk, provider, nextId>> /\ Quiet
  BY DEF SealKey
<1>5. CASE Continue("prompt")
  BY <1>1, <1>2, <1>3, <1>4, <1>5, KeystoreKeeps
<1>6. CASE Continue("stored")
  BY <1>1, <1>2, <1>3, <1>4, <1>6, KeystoreKeeps
<1> QED BY <1>5, <1>6 DEF SealKey

LEMMA SealedKeeps == ASSUME IInv, Sealed PROVE IInv'
<1>1. /\ queue # <<>> /\ pc = "prompt" /\ run.ep = epoch /\ run \in Runnings
      /\ keeper.cur # NONE => Fresh
      /\ Place("prompt", run, disk, Op) /\ Op.id \in KeyIds
  BY HeadWorks, HeadCall, Constants DEF Sealed, IInv
<1>2. ks' \in KeyRecords
  <2>1. ks \in KeyRecords
    BY Device1
  <2>2. [ks EXCEPT !.rec = Op.id] \in KeyRecords /\ [ks EXCEPT !.key = NONE] \in KeyRecords
    BY <1>1, <2>1 DEF KeyRecords
  <2> QED BY <2>1, <2>2 DEF Sealed
<1> DEFINE r == [run EXCEPT !.ok = TRUE]
<1>3. r \in Runnings /\ r.ep = epoch /\ r.blob = run.blob
  BY <1>1 DEF Runnings
<1>4. run' \in {r, run}
  BY DEF Sealed
<1> HIDE DEF r
<1>5. ASSUME NEW q \in {r, run}
      PROVE  q \in Runnings /\ q.ep = epoch /\ Place("stored", q, disk, Op)
  BY <1>1, <1>3 DEF Place
<1>6. Continue("stored") /\ UNCHANGED <<disk, provider, nextId>> /\ Quiet
  BY DEF Sealed
<1> QED BY <1>1, <1>2, <1>4, <1>5, <1>6, KeystoreKeeps

\* The session that ended, or the one that goes on, clears the record.
LEMMA ClearsKeeps ==
    ASSUME IInv, queue # <<>>, pc \notin {"written", "reread", "switched"},
           NEW r \in Runnings, r.ep = epoch, keeper.cur # NONE => Fresh,
           Awaits("clear", r), UNCHANGED disk
    PROVE  IInv'
<1>1. Place("clear", r, disk, Op) /\ Stands("clear")
  BY DEF Place, Stands
<1> QED BY <1>1, AwaitsKeeps DEF Labels

LEMMA EnrolStoredKeeps == ASSUME IInv, EnrolStored PROVE IInv'
<1>1. /\ queue # <<>> /\ pc = "stored" /\ run.ep = epoch /\ run \in Runnings
      /\ keeper.cur # NONE => Fresh /\ Held(disk)
      /\ run.blob # NONE /\ disk.db # NONE /\ disk.db.key = run.blob.key /\ disk.blob # NONE
  BY HeadWorks DEF EnrolStored, Place
<1>2. CASE Ends
  BY <1>1, <1>2, EndsKeeps
<1>3. CASE Awaits("clear", run) /\ UNCHANGED disk
  BY <1>1, <1>3, ClearsKeeps
<1>4. CASE /\ disk' = [disk EXCEPT !.bio = run.blob]
           /\ Finish
           /\ UNCHANGED <<ks, provider, nextId>> /\ Quiet
  <2> DEFINE d == [disk EXCEPT !.bio = run.blob]
  <2>1. d \in Disks /\ d.db = disk.db /\ d.blob = disk.blob /\ d.bio = run.blob
    BY <1>1, Device1 DEF Disks, Runnings
  <2>2. disk' = d /\ UNCHANGED <<nextId, provider>> /\ ks' = ks
        /\ sess' = sess /\ view' = view
    BY <1>4 DEF Quiet
  <2> HIDE DEF d
  <2>3. Matched(d) /\ (keeper.cur # NONE => Held(d))
    BY <1>1, <2>1, Device1 DEF Matched, Held, Reads, Opens
  <2>4. Settled(d)
    BY <1>1, <2>1, <2>2, Device1 DEF Settled
  <2> QED BY <1>1, <1>4, <2>1, <2>2, <2>3, <2>4, Device1, FinishKeeps
<1> QED BY <1>2, <1>3, <1>4 DEF EnrolStored

LEMMA StartBioUnlockKeeps == ASSUME IInv, StartBioUnlock PROVE IInv'
<1>1. queue # <<>> /\ pc = "wait" /\ Fresh /\ store = epoch
  BY HeadStarts DEF StartBioUnlock
<1>2. CASE Ends
  BY <1>1, <1>2, EndsKeeps
<1>3. CASE /\ disk.bio # NONE
           /\ Awaits("hasBio", Local(disk.bio, NONE, TRUE)) /\ UNCHANGED disk
  <2> DEFINE r == Local(disk.bio, NONE, TRUE)
  <2>1. r \in Runnings /\ r.ep = epoch
    <3>1. disk.bio \in Blobs \cup {NONE} /\ store \in Nat
      BY Device1 DEF Disks, IInv, RestTyped
    <3> QED BY <1>1, <3>1, LocalTyped
  <2> HIDE DEF r
  <2>2. Place("hasBio", r, disk, Op) /\ Stands("hasBio")
    BY <1>1, <1>3, Device1 DEF Place, Stands, Matched
  <2> QED BY <1>1, <1>3, <2>1, <2>2, AwaitsKeeps DEF Labels, r
<1> QED BY <1>2, <1>3 DEF StartBioUnlock

LEMMA BioCheckedKeeps == ASSUME IInv, BioChecked PROVE IInv'
<1>1. /\ queue # <<>> /\ pc = "hasBio" /\ run.ep = epoch /\ run \in Runnings
      /\ keeper.cur # NONE => Fresh
      /\ disk.blob # NONE
  BY HeadWorks DEF BioChecked, Place
<1>2. CASE Ends
  BY <1>1, <1>2, EndsKeeps
<1>3. CASE Awaits("readBio", run) /\ UNCHANGED disk
  <2>1. Place("readBio", run, disk, Op) /\ Stands("readBio")
    BY <1>1 DEF Place, Stands
  <2> QED BY <1>1, <1>3, <2>1, AwaitsKeeps DEF Labels
<1> QED BY <1>2, <1>3 DEF BioChecked

LEMMA BioReadKeeps == ASSUME IInv, BioRead PROVE IInv'
<1>1. /\ queue # <<>> /\ pc = "readBio" /\ run.ep = epoch /\ run \in Runnings
      /\ keeper.cur # NONE => Fresh
      /\ disk.blob # NONE
  BY HeadWorks DEF BioRead, Place
<1>2. CASE Awaits("clear", run) /\ UNCHANGED disk
  BY <1>1, <1>2, ClearsKeeps
<1>3. CASE Ends
  BY <1>1, <1>3, EndsKeeps
<1>4. CASE /\ ks.key # NONE /\ ks.key = ks.rec /\ Fresh
           /\ pc' = "load"
           /\ run' = [run EXCEPT !.sec = ks.rec]
           /\ pending' = pending \cup {Op.id} /\ live' = live \cup {Op.id}
           /\ UNCHANGED <<disk, ks, queue, keeper, provider, nextId>> /\ Quiet
  <2> DEFINE r == [run EXCEPT !.sec = ks.rec]
  <2>1. r \in Runnings /\ r.ep = epoch
    <3>1. ks.rec \in Secrets
      BY <1>4, Device1, Constants DEF KeyRecords
    <3> QED BY <1>1, <3>1 DEF Runnings
  <2>2. run' = r
    BY <1>4
  <2> HIDE DEF r
  <2>3. Place("load", r, disk, Op)
    BY <1>1 DEF Place
  <2> QED BY <1>1, <1>4, <2>1, <2>2, <2>3, TrackKeeps
<1> QED BY <1>2, <1>3, <1>4 DEF BioRead

LEMMA StartDisableKeeps == ASSUME IInv, StartDisable PROVE IInv'
<1>1. queue # <<>> /\ pc = "wait" /\ Fresh /\ store = epoch
  BY HeadStarts DEF StartDisable
<1>2. Local(NONE, NONE, FALSE) \in Runnings /\ Local(NONE, NONE, FALSE).ep = epoch
  BY <1>1, LocalTyped DEF IInv, RestTyped
<1> QED BY <1>1, <1>2, ClearsKeeps DEF StartDisable

LEMMA ClearRecordKeeps == ASSUME IInv, ClearRecord PROVE IInv'
<1>1. /\ queue # <<>> /\ pc = "clear" /\ run.ep = epoch /\ run \in Runnings
      /\ keeper.cur # NONE => Fresh
  BY HeadWorks DEF ClearRecord
<1>2. ks' \in KeyRecords
  BY Device1 DEF ClearRecord, KeyRecords
<1> DEFINE r == [run EXCEPT !.ok = FALSE]
<1>3. r \in Runnings /\ r.ep = epoch
  BY <1>1 DEF Runnings
<1>4. UNCHANGED <<disk, provider, nextId>> /\ Quiet
  BY DEF ClearRecord
<1>5. CASE Continue("destroy") /\ run' = run
  <2>1. Place("destroy", run, disk, Op)
    BY DEF Place
  <2> QED BY <1>1, <1>2, <1>4, <1>5, <2>1, KeystoreKeeps
<1> HIDE DEF r
<1>6. CASE Continue("cleared") /\ run' = r
  <2>1. Place("cleared", r, disk, Op)
    BY DEF Place
  <2> QED BY <1>1, <1>2, <1>3, <1>4, <1>6, <2>1, KeystoreKeeps
<1> QED BY <1>5, <1>6 DEF ClearRecord, r

LEMMA DestroyKeyKeeps == ASSUME IInv, DestroyKey PROVE IInv'
<1>1. /\ queue # <<>> /\ pc = "destroy" /\ run \in Runnings
      /\ run.ep = epoch /\ (keeper.cur # NONE => Fresh)
  BY HeadWorks DEF DestroyKey
<1>2. ks' \in KeyRecords
  BY Device1 DEF DestroyKey, KeyRecords
<1>3. run' \in Runnings /\ run'.ep = epoch
  BY <1>1 DEF DestroyKey, Runnings
<1>4. UNCHANGED <<disk, provider, nextId>> /\ Quiet /\ Continue("cleared")
  BY DEF DestroyKey
<1>5. PICK q \in Runnings : run' = q /\ q.ep = epoch
  BY <1>3
<1>6. Place("cleared", q, disk, Op)
  BY DEF Place
<1> QED BY <1>1, <1>2, <1>4, <1>5, <1>6, KeystoreKeeps

LEMMA ClearedKeeps == ASSUME IInv, Cleared PROVE IInv'
<1>1. queue # <<>> /\ pc = "cleared"
  BY HeadWorks DEF Cleared
<1> DEFINE d == [disk EXCEPT !.bio = NONE]
<1>2. d \in Disks /\ d.db = disk.db /\ d.blob = disk.blob /\ d.bio = NONE
  BY Device1 DEF Disks
<1>3. /\ Finish /\ UNCHANGED <<nextId, provider>> /\ ks' = ks
      /\ sess' = sess /\ view' = view /\ disk' \in {d, disk}
  BY DEF Cleared, Quiet
<1> HIDE DEF d
<1>4. Matched(d) /\ (keeper.cur # NONE => Held(d))
  BY <1>1, <1>2, Device1 DEF Matched, Held, Reads, Opens
<1>5. Settled(d) /\ Settled(disk)
  BY <1>1, <1>2, <1>3, Device1 DEF Settled
<1> QED BY <1>1, <1>2, <1>3, <1>4, <1>5, Device1, FinishKeeps

-----------------------------------------------------------------------------
(* A restore in the vault queue                                             *)

\* lock() before the queue is released: nothing of the session is left to show.
LEMMA LockingKeeps ==
    ASSUME IInv, queue # <<>>, FinishLocking, UNCHANGED <<disk, ks, provider, nextId>>
    PROVE  IInv'
<1>1. FinishForgetting
  BY DEF FinishLocking
<1>2. CASE (store = 0 \/ keeper.disposed) /\ Quiet
  <2>1. phase # "ready"
    BY <1>2 DEF IInv, ProviderInv, RestTyped
  <2>2. sess' \in States /\ view' \in Nat
    BY <1>2, Device1 DEF Quiet
  <2> QED BY <1>1, <2>1, <2>2, Device1, ForgettingKeeps
<1>3. CASE ShowStored(disk)
  <2>1. sess' \in {"locked", "uninit"} /\ view' = 0
    BY <1>3, InitialState DEF ShowStored
  <2> QED BY <1>1, <2>1, Device1, ForgettingKeeps DEF States
<1> QED BY <1>2, <1>3 DEF FinishLocking

\* The next data set, with a vault of its own or none.
LEMMA NextTyped ==
    ASSUME NEW next \in Disks, store \in Nat
    PROVE  LET r == [Local(NONE, NONE, FALSE) EXCEPT !.next = next] IN
             r \in Runnings /\ r.ep = store /\ r.next = next
<1>1. Local(NONE, NONE, FALSE) \in Runnings /\ Local(NONE, NONE, FALSE).ep = store
  BY LocalTyped
<1> QED BY <1>1 DEF Runnings

LEMMA StartRestoreVaultKeeps == ASSUME IInv, StartRestoreVault PROVE IInv'
<1>1. /\ queue # <<>> /\ pc = "wait" /\ Fresh /\ store = epoch /\ store \in Nat
      /\ Op.kind = "restoreVault" /\ Op.id \in KeyIds
  BY HeadStarts, HeadCall, Constants DEF StartRestoreVault, IInv, RestTyped
<1> DEFINE archive(p) == [db |-> [key |-> Op.id, rev |-> 0],
                          blob |-> [key |-> Op.id, by |-> p], bio |-> NONE]
<1>2. PICK p \in Passphrases :
        Awaits("build", [Local(NONE, NONE, FALSE) EXCEPT !.next = archive(p)])
  BY DEF StartRestoreVault
<1>3. archive(p) \in Disks /\ Matched(archive(p))
  <2>1. [key |-> Op.id, rev |-> 0] \in Databases /\ [key |-> Op.id, by |-> p] \in Blobs
    BY <1>1, Constants DEF Databases, Blobs
  <2>2. [key |-> Op.id, rev |-> 0] # NONE /\ [key |-> Op.id, by |-> p] # NONE
    BY <2>1, Constants
  <2> QED BY <2>1, <2>2 DEF Disks, Matched
<1> HIDE DEF archive
<1> DEFINE r == [Local(NONE, NONE, FALSE) EXCEPT !.next = archive(p)]
<1>4. r \in Runnings /\ r.ep = epoch /\ r.next = archive(p)
  BY <1>1, <1>3, NextTyped
<1> HIDE DEF r
<1>5. Place("build", r, disk, Op) /\ Stands("build")
  BY <1>1, <1>3, <1>4 DEF Place, Stands
<1>6. Awaits("build", r) /\ UNCHANGED disk
  BY <1>2 DEF StartRestoreVault, r
<1> QED BY <1>1, <1>4, <1>5, <1>6, AwaitsKeeps DEF Labels

LEMMA StartRestoreKeepKeeps == ASSUME IInv, StartRestoreKeep PROVE IInv'
<1>1. queue # <<>> /\ pc = "wait" /\ Fresh /\ store = epoch /\ store \in Nat
  BY HeadStarts DEF StartRestoreKeep, IInv, RestTyped
<1>2. CASE VaultToKeep /\ Awaits("keepRead", Local(keeper.blob, keeper.cur, keeper.bio))
  <2> DEFINE r == Local(keeper.blob, keeper.cur, keeper.bio)
  <2>1. keeper.cur # NONE /\ keeper.bio \in BOOLEAN
    BY <1>2, Device1 DEF VaultToKeep, Keepers
  <2>2. r \in Runnings /\ r.ep = epoch /\ Reads(r.sec, r.blob, disk) /\ disk.blob # NONE
    BY <2>1, StartsHeld DEF StartRestoreKeep
  <2>3. Awaits("keepRead", r) /\ UNCHANGED disk
    BY <1>2 DEF StartRestoreKeep
  <2> HIDE DEF r
  <2>4. Place("keepRead", r, disk, Op) /\ Stands("keepRead")
    BY <1>1, <2>1, <2>2 DEF Place, Stands
  <2> QED BY <1>1, <2>2, <2>3, <2>4, AwaitsKeeps DEF Labels
<1>3. CASE NoVaultToKeep /\ Awaits("build", [Local(NONE, NONE, FALSE) EXCEPT !.next = NoDisk])
  <2> DEFINE r == [Local(NONE, NONE, FALSE) EXCEPT !.next = NoDisk]
  <2>1. r \in Runnings /\ r.ep = epoch /\ r.next = NoDisk
    BY <1>1, EmptyTyped, NextTyped
  <2>2. Awaits("build", r) /\ UNCHANGED disk
    BY <1>3 DEF StartRestoreKeep
  <2> HIDE DEF r
  <2>3. Place("build", r, disk, Op) /\ Stands("build")
    BY <1>1, <1>3, <2>1, EmptyTyped DEF Place, Stands, NoVaultToKeep
  <2> QED BY <1>1, <2>1, <2>2, <2>3, AwaitsKeeps DEF Labels
<1>4. CASE Finish /\ Quiet /\ UNCHANGED <<ks, provider, nextId>>
  <2>1. Ends
    BY <1>4 DEF StartRestoreKeep, Ends
  <2> QED BY <1>1, <2>1, EndsKeeps
<1> QED BY <1>2, <1>3, <1>4 DEF StartRestoreKeep

LEMMA KeepReadKeeps == ASSUME IInv, KeepRead PROVE IInv'
<1>1. /\ queue # <<>> /\ pc = "keepRead" /\ run.ep = epoch /\ run \in Runnings
      /\ (keeper.cur # NONE => Fresh) /\ (Fresh => keeper.cur # NONE)
  BY HeadWorks DEF KeepRead, IInv, HeadInv
<1>2. CASE Ends
  BY <1>1, <1>2, EndsKeeps
<1>3. CASE /\ Fresh /\ Reads(run.sec, run.blob, disk)
           /\ Continue("build") /\ run' = [run EXCEPT !.next = disk]
           /\ Show("unlocked", disk.db.rev)
           /\ UNCHANGED <<disk, ks, provider, nextId>>
  <2> DEFINE r == [run EXCEPT !.next = disk]
  <2>1. r \in Runnings /\ r.ep = epoch /\ r.next = disk
    BY <1>1, Device1 DEF Runnings
  <2>2. /\ run' = r /\ UNCHANGED <<nextId, provider>> /\ disk' = disk /\ ks' = ks
        /\ sess' = "unlocked" /\ view' = disk.db.rev /\ view' \in Nat
    BY <1>3, Device1 DEF Show, Reads, Disks, Databases
  <2> HIDE DEF r
  <2>3. Place("build", r, disk, Op) /\ Stands("build") /\ Shown("build", r, disk)
    BY <1>1, <1>3, <2>1, <2>2, Device1 DEF Place, Stands, Shown
  <2> QED BY <1>1, <1>3, <2>1, <2>2, <2>3, Device1, GoesOn DEF Labels, States
<1>4. CASE FinishLocking /\ UNCHANGED <<disk, ks, provider, nextId>>
  BY <1>1, <1>4, LockingKeeps
<1> QED BY <1>2, <1>3, <1>4 DEF KeepRead

LEMMA BuildRestoredKeeps == ASSUME IInv, BuildRestored PROVE IInv'
<1>1. /\ queue # <<>> /\ pc = "build" /\ run.ep = epoch /\ run \in Runnings
      /\ keeper.cur # NONE => Fresh
      /\ Place("build", run, disk, Op)
  BY HeadWorks DEF BuildRestored
<1>2. CASE Awaits("switch", run) /\ UNCHANGED disk
  <2>1. Place("switch", run, disk, Op) /\ Stands("switch")
    BY <1>1 DEF Place, Stands
  <2> QED BY <1>1, <1>2, <2>1, AwaitsKeeps DEF Labels
<1>3. CASE FinishLocking /\ UNCHANGED <<disk, ks, provider, nextId>>
  BY <1>1, <1>3, LockingKeeps
<1> QED BY <1>2, <1>3 DEF BuildRestored

LEMMA SwitchKeeps == ASSUME IInv, Switch PROVE IInv'
<1>1. /\ queue # <<>> /\ pc = "switch" /\ run \in Runnings
      /\ keeper.cur # NONE => Fresh
      /\ run.next \in Disks /\ Matched(run.next)
  BY HeadWorks DEF Switch, Place
<1>2. /\ UNCHANGED <<queue, keeper, live, pending, nextId, ks, store, sess, view, run>>
      /\ pc' = "switched" /\ disk' = run.next /\ epoch' = epoch + 1 /\ phase' = "dirty"
  BY DEF Switch, Continue, Quiet
<1>3. QueueInv' /\ Op' = Op /\ (Fresh' <=> Fresh)
  BY <1>2, SameOwners DEF IInv, Op, Fresh, IsCurrent
<1>4. HeadInv'
  BY <1>1, <1>2, <1>3 DEF HeadInv
<1>5. DiskInv'
  BY <1>1, <1>2 DEF DiskInv, Matched, Place
<1>6. ProviderInv' /\ ViewInv'
  BY <1>2 DEF IInv, ProviderInv, ViewInv, RestTyped
<1>7. RestTyped'
  BY <1>1, <1>2 DEF IInv, RestTyped, Phases, Labels
<1> QED BY <1>3, <1>4, <1>5, <1>6, <1>7 DEF IInv

LEMMA SwitchFailsKeeps == ASSUME IInv, SwitchFails PROVE IInv'
BY LockingKeeps DEF SwitchFails, At

LEMMA ReleasedKeeps == ASSUME IInv, Released PROVE IInv'
BY LockingKeeps DEF Released, At

-----------------------------------------------------------------------------
(* The user, the provider, the system                                       *)

\* Nothing is held any more, wherever the head is.
LEMMA SessionEndKeeps ==
    ASSUME IInv, keeper' \in Keepers, keeper'.cur = NONE, keeper'.buf = 0,
           keeper'.gen = keeper.gen + 1, pending' = {},
           live' = live \ (pending \cup {keeper.buf}),
           UNCHANGED <<disk, ks, queue, pc, run, epoch, nextId>>,
           phase' \in Phases, store' \in Nat, sess' \in States, view' \in Nat,
           phase' = "ready" => store' = epoch /\ sess' # "unlocked",
           phase' \in {"ready", "building"} => ~keeper'.disposed
    PROVE  IInv'
<1>1. QueueInv' /\ HeadInv' /\ Op' = Op
  BY ForgetOwners DEF IInv, Op
<1>2. DiskInv'
  BY <1>1 DEF IInv, DiskInv, Matched, Place
<1>3. ProviderInv' /\ ViewInv'
  BY DEF IInv, ProviderInv, ViewInv
<1>4. RestTyped'
  BY DEF IInv, RestTyped
<1> QED BY <1>1, <1>2, <1>3, <1>4 DEF IInv

LEMMA LockKeeps == ASSUME IInv, Lock PROVE IInv'
<1>1. /\ keeper' \in Keepers /\ keeper'.cur = NONE /\ keeper'.buf = 0
      /\ keeper'.gen = keeper.gen + 1 /\ keeper'.disposed = keeper.disposed
      /\ pending' = {} /\ live' = live \ (pending \cup {keeper.buf})
  BY Device1, ForgottenIs DEF Lock, Forget
<1>2. UNCHANGED <<disk, ks, queue, pc, run, provider, nextId>>
  BY DEF Lock
<1>3. sess' \in States /\ view' \in Nat /\ (phase = "ready" => sess' # "unlocked")
  <2>1. CASE (store = 0 \/ keeper.disposed) /\ Quiet
    BY <2>1, Device1 DEF Quiet, IInv, ProviderInv, RestTyped
  <2>2. CASE ShowStored(disk)
    BY <2>2, InitialState DEF ShowStored, States
  <2> QED BY <2>1, <2>2 DEF Lock
<1> QED BY <1>1, <1>2, <1>3, SessionEndKeeps DEF provider, IInv, ProviderInv, RestTyped

LEMMA DisposeKeeps == ASSUME IInv, Dispose PROVE IInv'
<1> DEFINE kp == Forgotten(keeper)
<1>1. /\ kp \in Keepers /\ kp.cur = NONE /\ kp.buf = 0 /\ kp.gen = keeper.gen + 1
  BY Device1, ForgottenIs
<1> HIDE DEF kp
<1>2. keeper' = [kp EXCEPT !.disposed = TRUE, !.life = @ + 1]
  BY DEF Dispose, kp
<1>3. /\ keeper' \in Keepers /\ keeper'.cur = NONE /\ keeper'.buf = 0
      /\ keeper'.gen = keeper.gen + 1
  <2>1. kp.life + 1 \in Nat
    BY <1>1 DEF Keepers
  <2> QED BY <1>1, <1>2, <2>1 DEF Keepers
<1>4. /\ phase' = "disposed" /\ store' = 0 /\ pending' = {}
      /\ live' = live \ (pending \cup {keeper.buf})
      /\ UNCHANGED <<disk, ks, queue, pc, run, epoch, nextId, sess, view>>
  BY DEF Dispose, Quiet
<1> QED BY <1>3, <1>4, Device1, SessionEndKeeps DEF Phases

LEMMA UserCallsKeeps == ASSUME IInv, UserCalls PROVE IInv'
<1>1. PICK kind \in AllKinds, secret \in Passphrases \cup {NONE} :
        (kind \in Incoming => secret \in Passphrases) /\ Call(kind, secret)
  <2>1. Kinds \subseteq AllKinds
    BY ConstantsAssumption
  <2>2. CASE \E kind \in Kinds \cap Incoming, p \in Passphrases : Call(kind, p)
    BY <2>1, <2>2
  <2>3. CASE \E kind \in Kinds \ Incoming : Call(kind, NONE)
    BY <2>1, <2>3
  <2> QED BY <2>2, <2>3 DEF UserCalls
<1>2. QueueInv' /\ HeadInv' /\ (queue # <<>> => Op' = Op)
  BY <1>1, CallOwners DEF IInv
<1>3. UNCHANGED <<disk, ks, keeper, pc, run, phase, store, epoch, sess, view>>
  BY <1>1 DEF Call, provider, Quiet
<1>4. pc # "wait" => queue # <<>>
  BY DEF IInv, HeadInv
<1>5. DiskInv'
  BY <1>2, <1>3, <1>4 DEF IInv, DiskInv, Matched, Held, Place
<1>6. ProviderInv' /\ RestTyped'
  BY <1>3 DEF IInv, ProviderInv, RestTyped
<1>7. ViewInv'
  BY <1>2, <1>3, <1>4 DEF IInv, ViewInv, Fresh, IsCurrent
<1> QED BY <1>2, <1>5, <1>6, <1>7 DEF IInv

\* A step of the provider or the Keystore that leaves the session alone.
LEMMA AsideKeeps ==
    ASSUME IInv, UNCHANGED <<disk, keeper, live, pending, queue, pc, run, epoch, nextId>>,
           ks' \in KeyRecords, phase' \in Phases, store' \in Nat, sess' \in States, view' \in Nat,
           phase' = "ready" => store' = epoch,
           phase' \in {"ready", "building"} => ~keeper.disposed,
           phase' = "ready" /\ sess' = "unlocked" => phase = "ready" /\ UNCHANGED <<sess, view>>
    PROVE  IInv'
<1>1. QueueInv' /\ HeadInv' /\ DiskInv' /\ ProviderInv' /\ RestTyped'
  <2>1. QueueInv' /\ Op' = Op /\ (Fresh' <=> Fresh)
    BY SameOwners DEF IInv, Op, Fresh, IsCurrent
  <2>2. HeadInv'
    BY <2>1 DEF IInv, HeadInv
  <2>3. DiskInv'
    BY <2>1 DEF IInv, DiskInv, Matched, Held, Place
  <2>4. ProviderInv' /\ RestTyped'
    BY DEF IInv, ProviderInv, RestTyped
  <2> QED BY <2>1, <2>2, <2>3, <2>4
<1>2. ViewInv'
  BY DEF IInv, ViewInv, Fresh, IsCurrent, Op
<1> QED BY <1>1, <1>2 DEF IInv

LEMMA InvalidateKeeps == ASSUME IInv, Invalidate PROVE IInv'
BY Device1, AsideKeeps DEF Invalidate, Quiet, Phases, IInv, RestTyped

LEMMA BuiltKeeps == ASSUME IInv, Built PROVE IInv'
<1>1. sess' \in {"locked", "uninit"} /\ view' = 0
  BY InitialState DEF Built, Show
<1>2. /\ UNCHANGED <<disk, ks, keeper, live, pending, queue, pc, run, epoch, nextId>>
      /\ phase' = "ready" /\ store' = epoch /\ ~keeper.disposed /\ epoch \in Nat
  BY DEF Built, IInv, ProviderInv, RestTyped
<1> QED BY <1>1, <1>2, Device1, AsideKeeps DEF Phases, States

LEMMA KeyInvalidatedKeeps == ASSUME IInv, KeyInvalidated PROVE IInv'
<1>1. ks' \in KeyRecords
  BY Device1 DEF KeyInvalidated, KeyRecords
<1>2. UNCHANGED <<disk, keeper, live, pending, queue, pc, run, phase, store, epoch, nextId,
                  sess, view>>
  BY DEF KeyInvalidated, Quiet, provider
<1> QED BY <1>1, <1>2, Device1, AsideKeeps DEF IInv, RestTyped, ProviderInv

LEMMA StutterKeeps == ASSUME IInv, UNCHANGED vars PROVE IInv'
<1>1. UNCHANGED <<disk, ks, keeper, live, pending, queue, pc, run, phase, store, epoch, nextId,
                  sess, view>>
  BY DEF vars
<1> QED BY <1>1, Device1, AsideKeeps DEF IInv, RestTyped, ProviderInv

LEMMA BuildKeeps == ASSUME IInv, Build PROVE IInv'
<1>1. /\ keeper' = [keeper EXCEPT !.disposed = FALSE] /\ phase' = "building"
      /\ UNCHANGED <<disk, ks, live, pending, queue, pc, run, store, epoch, nextId, sess, view>>
  BY DEF Build, Quiet
<1>2. QueueInv' /\ HeadInv' /\ Op' = Op
  BY <1>1, BuildOwners DEF IInv, Op
<1>3. keeper'.cur = keeper.cur /\ keeper'.blob = keeper.blob /\ keeper'.disposed = FALSE
  BY <1>1, Device1 DEF Keepers
<1>4. DiskInv'
  BY <1>1, <1>2, <1>3 DEF IInv, DiskInv, Matched, Held, Place
<1>5. ProviderInv' /\ ViewInv' /\ RestTyped'
  BY <1>1, <1>3 DEF IInv, ProviderInv, ViewInv, RestTyped, Phases
<1> QED BY <1>2, <1>4, <1>5 DEF IInv

LEMMA CrashKeeps == ASSUME IInv, Crash PROVE IInv'
<1>1. /\ keeper' = EmptyKeeper /\ live' = {} /\ pending' = {}
      /\ sess' = "loading" /\ view' = 0 /\ queue' = <<>> /\ pc' = "wait" /\ run' = NoRun
      /\ phase' = "building" /\ store' = 0
      /\ UNCHANGED <<disk, ks, epoch, nextId>>
  BY DEF Crash, Show
<1>2. EmptyKeeper.cur = NONE /\ EmptyKeeper.buf = 0 /\ EmptyKeeper.disposed = FALSE
  BY DEF EmptyKeeper
<1>3. OwnersTyped' /\ HeldReturned'
  BY <1>1, <1>2, EmptyTyped DEF IInv, QueueInv, OwnersTyped, HeldReturned
<1>4. CallsInv' /\ SecretsOwned'
  BY <1>1, <1>2 DEF CallsInv, SecretsOwned
<1>5. HeadInv' /\ ProviderInv' /\ ViewInv'
  BY <1>1, <1>2 DEF IInv, HeadInv, ProviderInv, ViewInv
<1>6. DiskInv'
  BY <1>1, <1>2 DEF IInv, DiskInv, Matched, Place
<1>7. RestTyped'
  BY <1>1, EmptyTyped DEF IInv, RestTyped, States, Labels, Phases
<1> QED BY <1>3, <1>4, <1>5, <1>6, <1>7 DEF IInv, QueueInv

-----------------------------------------------------------------------------
(* The invariant                                                            *)

LEMMA InvInit == Init => IInv
<1> SUFFICES ASSUME Init PROVE IInv
  OBVIOUS
<1>1. PICK kind \in Installed, p \in Passphrases :
        /\ disk = Device(kind, p)
        /\ ks = IF kind = "enrolled" THEN [key |-> 0, rec |-> 0]
                                     ELSE [key |-> NONE, rec |-> NONE]
  BY DEF Init
<1>2. /\ keeper = EmptyKeeper /\ live = {} /\ pending = {}
      /\ sess = "loading" /\ view = 0 /\ queue = <<>> /\ pc = "wait" /\ run = NoRun
      /\ phase = "building" /\ store = 0 /\ epoch = 1 /\ nextId = 1
  BY DEF Init
<1>3. 0 \in KeyIds /\ 0 \in Secrets /\ p \in Secrets /\ 0 \in Nat
  BY Constants DEF KeyIds, Secrets
<1>4. disk \in Disks /\ Matched(disk)
  <2>1. /\ [key |-> 0, rev |-> 0] \in Databases
        /\ [key |-> 0, by |-> p] \in Blobs /\ [key |-> 0, by |-> 0] \in Blobs
    BY <1>3 DEF Databases, Blobs
  <2>2. disk \in Disks
    BY <1>1, <2>1 DEF Device, Disks
  <2>3. CASE kind = "fresh"
    <3>1. disk.db = NONE /\ disk.blob = NONE /\ disk.bio = NONE
      BY <1>1, <2>3 DEF Device
    <3> QED BY <2>2, <3>1 DEF Matched
  <2>4. CASE kind # "fresh"
    <3>1. /\ disk.db = [key |-> 0, rev |-> 0] /\ disk.blob = [key |-> 0, by |-> p]
          /\ disk.bio \in {[key |-> 0, by |-> 0], NONE}
      BY <1>1, <2>4 DEF Device
    <3>2. disk.db # NONE /\ disk.blob # NONE
      BY <2>1, <3>1, Constants
    <3>3. disk.blob.key = 0 /\ disk.db.key = 0 /\ (disk.bio # NONE => disk.bio.key = 0)
      BY <3>1
    <3> QED BY <2>2, <3>2, <3>3 DEF Matched
  <2> QED BY <2>2, <2>3, <2>4
<1>5. ks \in KeyRecords
  BY <1>1, <1>3 DEF KeyRecords
<1>6. EmptyKeeper.cur = NONE /\ EmptyKeeper.buf = 0 /\ EmptyKeeper.disposed = FALSE
  BY DEF EmptyKeeper
<1>7. OwnersTyped /\ HeldReturned
  BY <1>2, <1>6, EmptyTyped, Constants DEF OwnersTyped, HeldReturned
<1>8. CallsInv /\ SecretsOwned
  BY <1>2, <1>6 DEF CallsInv, SecretsOwned
<1>9. HeadInv /\ ProviderInv /\ ViewInv
  BY <1>2, <1>6 DEF HeadInv, ProviderInv, ViewInv
<1>10. DiskInv
  BY <1>2, <1>4, <1>6 DEF DiskInv, Place
<1>11. RestTyped
  BY <1>2, <1>4, <1>5, EmptyTyped DEF RestTyped, States, Labels, Phases
<1> QED BY <1>7, <1>8, <1>9, <1>10, <1>11 DEF IInv, QueueInv

LEMMA InvNext == IInv /\ [Next]_vars => IInv'
<1> SUFFICES ASSUME IInv, [Next]_vars PROVE IInv'
  OBVIOUS
<1>1. CASE Runs
  <2>1. CASE Dispose \/ Build \/ Built \/ Cancelled \/ Throws \/ Loaded
    BY <2>1, DisposeKeeps, BuildKeeps, BuiltKeeps, CancelledKeeps, ThrowsKeeps, LoadedKeeps
  <2>2. CASE StartEnable \/ CoreCreates \/ CoreWraps \/ Created
    BY <2>2, StartEnableKeeps, CoreCreatesKeeps, CoreWrapsKeeps, CreatedKeeps
  <2>3. CASE \/ StartUnlock \/ StartChange \/ Rewrapped
             \/ StartMutate \/ CoreWrites \/ Written \/ Reread
    BY <2>3, StartUnlockKeeps, StartChangeKeeps, RewrappedKeeps, StartMutateKeeps,
       CoreWritesKeeps, WrittenKeeps, RereadKeeps
  <2>4. CASE \/ StartEnrol \/ EnrolAlready \/ EnrolChecked \/ EnrolWrapped
             \/ SealKey \/ Sealed \/ EnrolStored
    BY <2>4, StartEnrolKeeps, EnrolAlreadyKeeps, EnrolCheckedKeeps, EnrolWrappedKeeps,
       SealKeyKeeps, SealedKeeps, EnrolStoredKeeps
  <2>5. CASE \/ StartBioUnlock \/ BioChecked \/ BioRead \/ StartDisable
             \/ ClearRecord \/ DestroyKey \/ Cleared
    BY <2>5, StartBioUnlockKeeps, BioCheckedKeeps, BioReadKeeps, StartDisableKeeps,
       ClearRecordKeeps, DestroyKeyKeeps, ClearedKeeps
  <2>6. CASE \/ StartRestoreVault \/ StartRestoreKeep \/ KeepRead
             \/ BuildRestored \/ Switch \/ SwitchFails \/ Released
    BY <2>6, StartRestoreVaultKeeps, StartRestoreKeepKeeps, KeepReadKeeps,
       BuildRestoredKeeps, SwitchKeeps, SwitchFailsKeeps, ReleasedKeeps
  <2> QED BY <1>1, <2>1, <2>2, <2>3, <2>4, <2>5, <2>6 DEF Runs
<1>2. CASE UserCalls \/ Lock \/ Invalidate \/ Crash \/ KeyInvalidated
  BY <1>2, UserCallsKeeps, LockKeeps, InvalidateKeeps, CrashKeeps, KeyInvalidatedKeeps
<1>3. CASE UNCHANGED vars
  BY <1>3, StutterKeeps
<1> QED BY <1>1, <1>2, <1>3 DEF Next

LEMMA InvAlways == Spec => []IInv
BY InvInit, InvNext, PTL DEF Spec

-----------------------------------------------------------------------------
(* The state properties                                                     *)

\* Every variable keeps its type, whatever is called, fails or dies.
THEOREM TypesHold == Spec => []TypeOK
<1>1. IInv => TypeOK
  BY DEF IInv, QueueInv, OwnersTyped, RestTyped, TypeOK, Keepers, Runnings, KeyRecords,
         States
<1> QED BY <1>1, InvAlways, PTL

\* The key blobs on disk belong to the database on disk, between any two steps
\* of enable, changePassphrase, an enrolment or a restore.
THEOREM BlobsMatch == Spec => []BlobsMatchDatabase
<1>1. IInv => BlobsMatchDatabase
  BY DEF IInv, DiskInv, Matched, BlobsMatchDatabase
<1> QED BY <1>1, InvAlways, PTL

\* The held secret opens, with its blob, the database of the active data set.
THEOREM HeldOpens == Spec => []HeldOpensVault
<1>1. IInv => HeldOpensVault
  BY DEF IInv, DiskInv, Held, HeldOpensVault
<1> QED BY <1>1, InvAlways, PTL

\* Every unwiped secret has an owner that a lock would wipe with it.
THEOREM OwnersHold == Spec => []SecretsOwned
<1>1. IInv => SecretsOwned
  BY DEF IInv, QueueInv
<1> QED BY <1>1, InvAlways, PTL

\* At rest the page shows the rows of the database, under the held secret.
THEOREM ViewHolds == Spec => []ViewCurrent
<1>1. IInv => ViewCurrent
  BY DEF IInv, ViewInv, ViewCurrent
<1> QED BY <1>1, InvAlways, PTL

\* The core is never asked to create a vault over a file.
THEOREM CreateFindsNone == Spec => []CreateFindsNoFile
<1>1. IInv => CreateFindsNoFile
  BY DEF IInv, DiskInv, Place, CreateFindsNoFile
<1> QED BY <1>1, InvAlways, PTL

\* A running operation works on the active data set.
THEOREM StoreHolds == Spec => []StoreIsActive
<1>1. IInv => StoreIsActive
  BY DEF IInv, ProviderInv, StoreIsActive
<1> QED BY <1>1, InvAlways, PTL

-----------------------------------------------------------------------------
(* The action properties                                                    *)

\* A restore replaces the vault of its own session, or of none.
THEOREM SwitchMeets == Spec => SwitchMeetsNoOther
<1>1. IInv /\ [Next]_vars => [Switch => Fresh \/ keeper.cur = NONE]_vars
  BY DEF IInv, HeadInv, Switch, At
<1> QED BY <1>1, InvAlways, PTL DEF Spec, SwitchMeetsNoOther

\* What a step may make of a vault that is complete.
KeptBy(d) ==
    IsInitialized(disk) =>
        d.db # NONE /\ d.blob # NONE /\ d.db.key = disk.db.key /\ d.db.rev >= disk.db.rev

\* A file is replaced only where the labels say that no vault can be lost.
LEMMA StepKeepsVault ==
    ASSUME IInv, Next, ~(Switch /\ Op.kind = "restoreVault")
    PROVE  KeptBy(disk')
<1>1. disk \in Disks /\ Place(pc, run, disk, Op)
  BY DEF IInv, DiskInv, RestTyped
<1>2. disk.db # NONE => disk.db \in Databases /\ disk.db.rev \in Nat /\ disk.db.key \in KeyIds
  BY <1>1 DEF Disks, Databases
<1>3. KeptBy(disk)
  BY <1>2 DEF KeptBy, IsInitialized
<1>4. CASE UNCHANGED disk
  BY <1>3, <1>4
<1>5. CASE StartEnable
  BY <1>4, <1>5 DEF StartEnable, Ends, KeptBy
<1>6. CASE CoreCreates
  BY <1>4, <1>6 DEF CoreCreates, KeptBy, IsInitialized
<1>7. CASE Created
  BY <1>1, <1>7 DEF Created, At, Place, KeptBy, IsInitialized
<1>8. CASE Rewrapped
  <2>1. CASE disk' = [disk EXCEPT !.blob = Rewrap(run.blob, Op.sec)]
    <3>1. Rewrap(run.blob, Op.sec) # NONE
      <4>1. run.blob \in Blobs /\ Op.sec \in Secrets
        <5>1. queue # <<>> /\ Op.kind \in Incoming /\ Op.sec \in Passphrases
          BY <1>8, HeadCall DEF Rewrapped, At, IInv, HeadInv, Incoming
        <5>2. run.blob \in Blobs
          BY <1>1, <1>8 DEF Rewrapped, At, Place, Reads, Opens, IInv, RestTyped, Runnings
        <5> QED BY <5>1, <5>2, Constants
      <4>2. Rewrap(run.blob, Op.sec) \in Blobs
        BY <4>1 DEF Rewrap, Blobs
      <4> QED BY <4>2, Constants
    <3>2. disk'.db = disk.db /\ disk'.blob = Rewrap(run.blob, Op.sec)
      BY <1>1, <2>1 DEF Disks
    <3> QED BY <1>2, <3>1, <3>2 DEF KeptBy, IsInitialized
  <2> QED BY <1>4, <1>8, <2>1 DEF Rewrapped, Ends
<1>9. CASE CoreWrites
  <2>1. CASE disk' = [disk EXCEPT !.db.rev = @ + 1] /\ disk.db # NONE
    <3>1. /\ disk'.blob = disk.blob /\ disk'.db = [disk.db EXCEPT !.rev = @ + 1]
      BY <1>1, <2>1 DEF Disks
    <3>2. disk'.db \in Databases /\ disk'.db.rev = disk.db.rev + 1 /\ disk'.db.key = disk.db.key
      BY <1>2, <2>1, <3>1 DEF Databases
    <3> QED BY <1>2, <2>1, <3>1, <3>2, Constants DEF KeptBy, IsInitialized
  <2> QED BY <1>4, <1>9, <2>1 DEF CoreWrites, Reads
<1>10. CASE EnrolStored \/ Cleared
  <2>1. CASE disk'.db = disk.db /\ disk'.blob = disk.blob
    BY <1>2, <2>1 DEF KeptBy, IsInitialized
  <2>2. ASSUME NEW b, disk' = [disk EXCEPT !.bio = b]
        PROVE  disk'.db = disk.db /\ disk'.blob = disk.blob
    BY <1>1, <2>2 DEF Disks
  <2> QED BY <1>4, <1>10, <2>1, <2>2 DEF EnrolStored, Cleared, Ends
<1>11. CASE Switch
  <2>1. IsInitialized(disk) => disk' = disk
    BY <1>1, <1>11 DEF Switch, At, Place
  <2> QED BY <1>3, <2>1 DEF KeptBy
<1>12. CASE Dispose \/ Build \/ Built \/ Cancelled \/ Throws \/ Loaded \/ CoreWraps
  BY <1>4, <1>12 DEF Dispose, Build, Built, Cancelled, Throws, Loaded, CoreWraps
<1>13. CASE StartUnlock \/ StartChange \/ StartMutate \/ Written \/ Reread
  BY <1>4, <1>13 DEF StartUnlock, StartChange, StartMutate, Written, Reread, Ends
<1>14. CASE StartEnrol \/ EnrolAlready \/ EnrolChecked \/ EnrolWrapped \/ SealKey \/ Sealed
  BY <1>4, <1>14 DEF StartEnrol, EnrolAlready, EnrolChecked, EnrolWrapped, SealKey, Sealed, Ends
<1>15. CASE StartBioUnlock \/ BioChecked \/ BioRead \/ StartDisable \/ ClearRecord \/ DestroyKey
  BY <1>4, <1>15 DEF StartBioUnlock, BioChecked, BioRead, StartDisable, ClearRecord, DestroyKey,
     Ends
<1>16. CASE \/ StartRestoreVault \/ StartRestoreKeep \/ KeepRead \/ BuildRestored
            \/ SwitchFails \/ Released
  BY <1>4, <1>16 DEF StartRestoreVault, StartRestoreKeep, KeepRead, BuildRestored,
     SwitchFails, Released, Ends
<1>17. CASE UserCalls \/ Lock \/ Invalidate \/ Crash \/ KeyInvalidated
  BY <1>4, <1>17 DEF UserCalls, Call, Lock, Invalidate, Crash, KeyInvalidated
<1> QED
  BY <1>5, <1>6, <1>7, <1>8, <1>9, <1>10, <1>11, <1>12, <1>13, <1>14, <1>15, <1>16, <1>17
  DEF Next, Runs

\* The vault of the device, with every row written to it, survives everything
\* but a restore that brings a vault of its own.
THEOREM VaultIsKept == Spec => VaultKept
<1>1. IInv /\ [Next]_vars =>
        [ IsInitialized(disk) /\ ~(Switch /\ Op.kind = "restoreVault")
          => /\ disk'.db # NONE /\ disk'.blob # NONE
             /\ disk'.db.key = disk.db.key /\ disk'.db.rev >= disk.db.rev ]_vars
  BY StepKeepsVault DEF KeptBy
<1> QED BY <1>1, InvAlways, PTL DEF Spec, VaultKept

\* A step that takes no secret and shows no rows.
TakesNothing ==
    /\ keeper'.cur = NONE \/ keeper'.buf = keeper.buf
    /\ sess' # "unlocked" \/ view' = view

InSession == queue # <<>> /\ Fresh

\* What a step that forgets, or leaves the session alone, takes.
LEMMA ForgettingTakesNothing ==
    ASSUME IInv,
           \/ keeper' = keeper \/ keeper' = Forgotten(keeper)
           \/ keeper' = [Forgotten(keeper) EXCEPT !.disposed = TRUE, !.life = @ + 1],
           \/ UNCHANGED <<sess, view>>
           \/ sess' # "unlocked"
    PROVE  TakesNothing
<1>1. keeper \in Keepers
  BY DEF IInv, QueueInv, OwnersTyped
<1>2. Forgotten(keeper).cur = NONE /\ Forgotten(keeper) \in Keepers
  BY <1>1, ForgottenIs
<1>3. [Forgotten(keeper) EXCEPT !.disposed = TRUE, !.life = @ + 1].cur = NONE
  BY <1>2 DEF Keepers
<1> QED BY <1>2, <1>3 DEF TakesNothing

LEMMA LockingTakesNothing ==
    ASSUME IInv, FinishLocking
    PROVE  TakesNothing
BY ForgettingTakesNothing DEF FinishLocking, FinishForgetting, ShowStored, InitialStateFor, Quiet

\* A secret is held and rows are shown by a head whose session has not ended.
LEMMA StepTakesInSession ==
    ASSUME IInv, Next
    PROVE  InSession \/ TakesNothing
<1> USE DEF Quiet, Show
<1>1. ASSUME UNCHANGED keeper, UNCHANGED <<sess, view>>
      PROVE  TakesNothing
  BY <1>1 DEF TakesNothing
<1>2. CASE StartEnable \/ CoreCreates \/ CoreWraps
  BY <1>1, <1>2 DEF StartEnable, CoreCreates, CoreWraps, Ends, Awaits, Continue, Finish
<1>3. CASE Created
  <2>1. UNCHANGED keeper /\ (UNCHANGED <<sess, view>> \/ sess' # "unlocked")
    BY <1>3 DEF Created, Ends, Continue, Finish, ShowInitial, InitialStateFor
  <2> QED BY <2>1, ForgettingTakesNothing
<1>4. CASE Loaded \/ Reread
  BY <1>1, <1>4 DEF Loaded, Reread, At, InSession, Finish
<1>5. CASE Rewrapped \/ KeepRead \/ BuildRestored
  <2>1. CASE Ends
    BY <1>1, <2>1 DEF Ends, Finish
  <2> QED BY <1>1, <1>5, <2>1, LockingTakesNothing
    DEF Rewrapped, KeepRead, BuildRestored, At, InSession, Awaits, Continue
<1>6. CASE Throws
  BY <1>1, <1>6, ForgettingTakesNothing DEF Throws, FinishForgetting, Finish
<1>7. CASE Cancelled \/ StartUnlock \/ StartChange \/ StartMutate \/ CoreWrites \/ Written
  BY <1>1, <1>7 DEF Cancelled, StartUnlock, StartChange, StartMutate, CoreWrites, Written, Ends,
     Awaits, Continue, Finish
<1>8. CASE StartEnrol \/ EnrolAlready \/ EnrolChecked \/ EnrolWrapped \/ SealKey \/ Sealed
  BY <1>1, <1>8 DEF StartEnrol, EnrolAlready, EnrolChecked, EnrolWrapped, SealKey, Sealed, Ends,
     Awaits, Continue, Finish
<1>9. CASE EnrolStored \/ StartBioUnlock \/ BioChecked \/ BioRead
  BY <1>1, <1>9 DEF EnrolStored, StartBioUnlock, BioChecked, BioRead, Ends, Awaits, Continue,
     Finish
<1>10. CASE StartDisable \/ ClearRecord \/ DestroyKey \/ Cleared
  BY <1>1, <1>10 DEF StartDisable, ClearRecord, DestroyKey, Cleared, Awaits, Continue, Finish
<1>11. CASE StartRestoreVault \/ StartRestoreKeep \/ Switch
  BY <1>1, <1>11 DEF StartRestoreVault, StartRestoreKeep, Switch, Awaits, Continue, Finish
<1>12. CASE SwitchFails \/ Released
  BY <1>12, LockingTakesNothing DEF SwitchFails, Released
<1>13. CASE Dispose
  BY <1>13, ForgettingTakesNothing DEF Dispose
<1>14. CASE Build
  <2>1. keeper'.buf = keeper.buf
    BY <1>14 DEF Build, IInv, QueueInv, OwnersTyped, Keepers
  <2> QED BY <1>14, <2>1 DEF Build, TakesNothing
<1>15. CASE Built
  BY <1>15, ForgettingTakesNothing DEF Built, InitialStateFor
<1>16. CASE Crash
  BY <1>16 DEF Crash, EmptyKeeper, TakesNothing
<1>17. CASE Lock
  BY <1>17, ForgettingTakesNothing DEF Lock, Forget, ShowStored, InitialStateFor
<1>18. CASE UserCalls \/ Invalidate \/ KeyInvalidated
  BY <1>1, <1>18 DEF UserCalls, Call, Invalidate, KeyInvalidated
<1> QED
  BY <1>2, <1>3, <1>4, <1>5, <1>6, <1>7, <1>8, <1>9, <1>10, <1>11, <1>12, <1>13, <1>14, <1>15,
     <1>16, <1>17, <1>18
  DEF Next, Runs

\* A lock sticks: no call of a session that has ended takes a secret or shows rows.
THEOREM LockHolds == Spec => LockSticks
<1>1. IInv /\ [Next]_vars =>
        [ (keeper'.cur # NONE /\ keeper'.buf # keeper.buf) \/ (sess' = "unlocked" /\ view' # view)
          => queue # <<>> /\ Op.gen = keeper.gen /\ ~keeper.disposed ]_vars
  BY StepTakesInSession DEF InSession, TakesNothing, Fresh, IsCurrent
<1> QED BY <1>1, InvAlways, PTL DEF Spec, LockSticks

-----------------------------------------------------------------------------
(* The pair of the biometric record and its blob                            *)

Pair == disk.bio # NONE /\ HasSecret => disk.bio.by = ks.rec

\* The labels that know something of the pair.
Marked == {"checkBio", "wrapBio", "seal", "prompt", "stored", "clear", "destroy",
           "cleared", "build", "switch"}

\* Record and blob match but from the write of a new record to the write of its
\* blob, or to the clear that undoes it; a head before that write has not sealed
\* yet, and what is about to be saved is sealed under the secret of this call.
PairInv ==
    /\ pc # "clear" /\ ~(pc = "stored" /\ run.ok) => Pair
    /\ pc \in {"checkBio", "wrapBio", "seal", "prompt"} => ~run.ok
    /\ pc \in {"seal", "prompt", "stored"} => run.blob.by = Op.id
    /\ pc = "stored" /\ run.ok => ks.rec = Op.id
    /\ pc \in {"destroy", "cleared"} => ks.rec = NONE
    /\ pc \in {"build", "switch"} => run.next.bio \in {NONE, disk.bio}

\* The blob and the record stay, or go.
LosesOnly ==
    /\ disk'.bio \in {disk.bio, NONE}
    /\ ks'.rec \in {ks.rec, NONE}

\* A step to an ordinary label from one where the pair matches.
LEMMA PairStays ==
    ASSUME PairInv, LosesOnly, pc' \notin Marked, pc # "clear", ~(pc = "stored" /\ run.ok)
    PROVE  PairInv'
<1>1. Pair
  BY DEF PairInv
<1>2. Pair'
  BY <1>1 DEF Pair, HasSecret, LosesOnly
<1> QED BY <1>2 DEF PairInv, Marked

\* A step of somebody else.
LEMMA PairUntouched ==
    ASSUME PairInv, UNCHANGED <<disk, pc, run>>, ks'.rec = ks.rec, pc # "wait" => Op' = Op
    PROVE  PairInv'
<1>1. Pair' <=> Pair
  BY DEF Pair, HasSecret
<1> QED BY <1>1 DEF PairInv

\* What the ways to end or to go on leave.
LEMMA StepEnds ==
    /\ Finish => pc' = "wait"
    /\ FinishForgetting => pc' = "wait"
    /\ FinishLocking => pc' = "wait"
    /\ \A s, b, o : FinishHolding(s, b, o) => pc' = "wait"
    /\ \A label, locals : Awaits(label, locals) => pc' = label /\ run' = locals /\ ks' = ks
    /\ Ends => pc' = "wait" /\ disk' = disk /\ ks' = ks
BY DEF Finish, FinishForgetting, FinishLocking, FinishHolding, Pop, Awaits, Continue, Ends

\* The operations that have nothing to do with the enrolment.
LEMMA PlainKeepsPair ==
    ASSUME IInv, PairInv,
           \/ Cancelled \/ Throws \/ Loaded
           \/ StartEnable \/ CoreCreates \/ CoreWraps \/ Created
           \/ StartUnlock \/ StartChange \/ Rewrapped
           \/ StartMutate \/ CoreWrites \/ Written \/ Reread
           \/ EnrolAlready \/ StartBioUnlock \/ BioChecked \/ Cleared
           \/ Switch \/ SwitchFails \/ Released
    PROVE  PairInv'
<1> USE StepEnds DEF At, Starts, LosesOnly, Marked
<1>1. disk \in Disks /\ NoDisk.bio = NONE
  BY DEF IInv, RestTyped, NoDisk
<1>2. \A x : /\ [disk EXCEPT !.db = x].bio = disk.bio
             /\ [disk EXCEPT !.blob = x].bio = disk.bio
             /\ [disk EXCEPT !.bio = NONE].bio = NONE
  BY <1>1 DEF Disks
<1>3. Discarded(disk).bio \in {disk.bio, NONE}
  BY <1>1 DEF Discarded
<1>4. CASE Cancelled \/ Throws \/ Loaded
  <2>1. pc' = "wait" /\ disk' = disk /\ ks' = ks /\ pc \in {"wait", "cleared", "load"}
    BY <1>4 DEF Cancelled, Throws, Loaded
  <2> QED BY <2>1, PairStays
<1>5. CASE StartEnable \/ CoreCreates \/ CoreWraps
  <2>1. /\ pc' \in {"wait", "create", "wrap", "created"} /\ ks' = ks
        /\ disk'.bio \in {disk.bio, NONE} /\ pc \in {"wait", "create", "wrap"}
    BY <1>2, <1>3, <1>5 DEF StartEnable, CoreCreates, CoreWraps
  <2> QED BY <2>1, PairStays
<1>6. CASE Created
  <2>1. pc' \in {"wait", "load"} /\ ks' = ks /\ pc = "created"
    BY <1>6 DEF Created, Continue
  <2>2. disk'.bio \in {disk.bio, NONE}
    BY <1>2, <1>3, <1>6 DEF Created
  <2> QED BY <2>1, <2>2, PairStays
<1>7. CASE StartUnlock \/ StartChange \/ StartMutate \/ StartBioUnlock
  <2>1. pc' \in {"wait", "load", "rewrap", "write", "hasBio"} /\ ks' = ks /\ disk' = disk /\ pc = "wait"
    BY <1>7 DEF StartUnlock, StartChange, StartMutate, StartBioUnlock
  <2> QED BY <2>1, PairStays
<1>8. CASE Rewrapped
  <2>1. pc' = "wait" /\ ks' = ks /\ disk'.bio = disk.bio /\ pc = "rewrap"
    BY <1>2, <1>8 DEF Rewrapped
  <2> QED BY <2>1, PairStays
<1>9. CASE CoreWrites
  <2>1. pc' = "written" /\ ks' = ks /\ pc = "write"
    BY <1>9 DEF CoreWrites
  <2>2. disk'.bio = disk.bio
    BY <1>1, <1>9 DEF CoreWrites, Disks
  <2> QED BY <2>1, <2>2, PairStays
<1>10. CASE Written \/ Reread \/ EnrolAlready \/ BioChecked
  <2>1. /\ pc' \in {"wait", "reread", "readBio"} /\ ks' = ks /\ disk' = disk
        /\ pc \in {"written", "reread", "checkBio", "hasBio"}
    BY <1>10 DEF Written, Reread, EnrolAlready, BioChecked
  <2> QED BY <2>1, PairStays
<1>11. CASE Cleared
  <2>1. pc' = "wait" /\ ks' = ks /\ disk'.bio \in {disk.bio, NONE} /\ pc = "cleared"
    BY <1>2, <1>11 DEF Cleared
  <2> QED BY <2>1, PairStays
<1>12. CASE Switch
  <2>1. pc' = "switched" /\ ks' = ks /\ disk' = run.next /\ pc = "switch"
    BY <1>12 DEF Switch, Continue
  <2> QED BY <2>1, PairStays DEF PairInv
<1>13. CASE SwitchFails \/ Released
  <2>1. pc' = "wait" /\ ks' = ks /\ disk' = disk /\ pc \in {"switch", "switched"}
    BY <1>13 DEF SwitchFails, Released
  <2> QED BY <2>1, PairStays
<1> QED BY <1>4, <1>5, <1>6, <1>7, <1>8, <1>9, <1>10, <1>11, <1>12, <1>13

\* An enrolment: checked, wrapped, sealed and stored, or undone.
LEMMA EnrolKeepsPair ==
    ASSUME IInv, PairInv, ~May("keystore"),
           StartEnrol \/ EnrolChecked \/ EnrolWrapped \/ SealKey \/ Sealed \/ EnrolStored
    PROVE  PairInv'
<1> USE StepEnds DEF At, LosesOnly, Marked
<1>1. disk \in Disks /\ ks \in KeyRecords /\ run \in Runnings
  BY DEF IInv, RestTyped
<1>2. CASE Ends /\ pc \in {"wait", "checkBio", "wrapBio"}
  <2>1. pc' = "wait" /\ disk' = disk /\ ks' = ks
    BY <1>2
  <2> QED BY <1>2, <2>1, PairStays
<1>3. CASE StartEnrol /\ ~Ends
  <2>1. /\ pc = "wait" /\ pc' = "checkBio" /\ ks' = ks /\ disk' = disk
        /\ run' = Local(keeper.blob, keeper.cur, FALSE)
    BY <1>3 DEF StartEnrol, Starts
  <2>2. run'.ok = FALSE
    BY <2>1 DEF Local, NoRun
  <2> QED BY <2>1, <2>2 DEF PairInv, Pair, HasSecret
<1>4. CASE EnrolChecked /\ ~Ends
  <2>1. pc = "checkBio" /\ pc' = "wrapBio" /\ ks' = ks /\ disk' = disk /\ run' = run
    BY <1>4 DEF EnrolChecked
  <2> QED BY <2>1 DEF PairInv, Pair, HasSecret
<1>5. CASE EnrolWrapped /\ ~Ends
  <2>1. /\ pc = "wrapBio" /\ pc' = "seal" /\ ks' = ks /\ disk' = disk /\ queue' = queue
        /\ run' = [run EXCEPT !.blob = Rewrap(run.blob, Op.id)]
    BY <1>5 DEF EnrolWrapped
  <2>2. run'.blob = Rewrap(run.blob, Op.id) /\ run'.ok = run.ok
    BY <1>1, <2>1 DEF Runnings
  <2>3. run'.blob.by = Op.id /\ Op' = Op
    BY <2>1, <2>2 DEF Rewrap, Op
  <2> QED BY <2>1, <2>2, <2>3 DEF PairInv, Pair, HasSecret
<1>6. CASE SealKey
  <2>1. /\ pc = "seal" /\ pc' = "prompt" /\ ks' = [ks EXCEPT !.key = Op.id]
        /\ disk' = disk /\ queue' = queue /\ run' = run
    BY <1>6 DEF SealKey, Continue
  <2>2. ks'.rec = ks.rec /\ Op' = Op
    BY <1>1, <2>1 DEF KeyRecords, Op
  <2> QED BY <2>1, <2>2 DEF PairInv, Pair, HasSecret
<1>7. CASE Sealed
  <2>1. pc = "prompt" /\ pc' = "stored" /\ disk' = disk /\ queue' = queue
    BY <1>7 DEF Sealed, Continue
  <2>2. Op' = Op
    BY <2>1 DEF Op
  <2>3. CASE ks' = [ks EXCEPT !.rec = Op.id] /\ run' = [run EXCEPT !.ok = TRUE]
    <3>1. ks'.rec = Op.id /\ run'.ok = TRUE /\ run'.blob = run.blob
      BY <1>1, <2>3 DEF KeyRecords, Runnings
    <3> QED BY <2>1, <2>2, <3>1 DEF PairInv
  <2>4. CASE UNCHANGED <<ks, run>>
    BY <2>1, <2>2, <2>4 DEF PairInv, Pair, HasSecret
  <2> QED BY <1>7, <2>3, <2>4 DEF Sealed
<1>8. CASE EnrolStored
  <2>1. pc = "stored"
    BY <1>8 DEF EnrolStored
  <2>2. CASE ~run.ok /\ Ends
    <3>1. pc' = "wait" /\ disk' = disk /\ ks' = ks
      BY <2>2
    <3> QED BY <2>1, <2>2, <3>1, PairStays
  <2>3. CASE Awaits("clear", run)
    BY <2>3 DEF PairInv
  <2>4. CASE /\ run.ok /\ disk' = [disk EXCEPT !.bio = run.blob] /\ Finish
             /\ UNCHANGED <<ks, provider, nextId>>
    <3>1. pc' = "wait" /\ disk'.bio = run.blob /\ ks' = ks
      BY <1>1, <2>4 DEF Disks
    <3>2. run.blob.by = Op.id /\ ks.rec = Op.id
      BY <2>1, <2>4 DEF PairInv
    <3> QED BY <3>1, <3>2 DEF PairInv, Pair
  <2> QED BY <1>8, <2>2, <2>3, <2>4 DEF EnrolStored
<1> QED
  BY <1>2, <1>3, <1>4, <1>5, <1>6, <1>7, <1>8 DEF StartEnrol, Starts, EnrolChecked, EnrolWrapped

\* The record goes before the blob does.
LEMMA ClearKeepsPair ==
    ASSUME IInv, PairInv, ~May("keystore"),
           BioRead \/ StartDisable \/ ClearRecord \/ DestroyKey
    PROVE  PairInv'
<1> USE StepEnds DEF At, LosesOnly, Marked
<1>1. ks \in KeyRecords
  BY DEF IInv, RestTyped
<1>2. CASE Awaits("clear", run) \/ StartDisable
  <2>1. pc' = "clear"
    BY <1>2 DEF StartDisable
  <2> QED BY <2>1 DEF PairInv
<1>3. CASE BioRead /\ ~Awaits("clear", run)
  <2>1. pc = "readBio" /\ pc' \in {"wait", "load"} /\ disk' = disk /\ ks' = ks
    BY <1>3 DEF BioRead
  <2> QED BY <2>1, PairStays
<1>4. CASE ClearRecord
  <2>1. pc = "clear" /\ pc' = "destroy" /\ ks' = [ks EXCEPT !.rec = NONE]
    BY <1>4 DEF ClearRecord, Continue
  <2>2. ks'.rec = NONE
    BY <1>1, <2>1 DEF KeyRecords
  <2> QED BY <2>1, <2>2 DEF PairInv, Pair, HasSecret
<1>5. CASE DestroyKey
  <2>1. pc = "destroy" /\ pc' = "cleared" /\ (ks' = ks \/ ks' = [ks EXCEPT !.key = NONE])
    BY <1>5 DEF DestroyKey, Continue
  <2>2. ks'.rec = NONE
    BY <1>1, <2>1 DEF KeyRecords, PairInv
  <2> QED BY <2>1, <2>2 DEF PairInv, Pair, HasSecret
<1> QED BY <1>2, <1>3, <1>4, <1>5

\* A restore brings no blob of its own, or the device's.
LEMMA RestoreKeepsPair ==
    ASSUME IInv, PairInv,
           StartRestoreVault \/ StartRestoreKeep \/ KeepRead \/ BuildRestored
    PROVE  PairInv'
<1> USE StepEnds DEF At, LosesOnly, Marked
<1>1. run \in Runnings
  BY DEF IInv, RestTyped
<1>2. CASE pc' \in {"wait", "keepRead"} /\ UNCHANGED <<disk, ks>>
  <2>1. pc \in {"wait", "keepRead", "build"}
    BY DEF StartRestoreVault, StartRestoreKeep, KeepRead, BuildRestored, Starts
  <2> QED BY <1>2, <2>1, PairStays
<1>3. ASSUME pc \in {"wait", "keepRead", "build"}, pc' \in {"build", "switch"},
             UNCHANGED <<disk, ks>>, run'.next.bio \in {NONE, disk.bio}
      PROVE  PairInv'
  BY <1>3 DEF PairInv, Pair, HasSecret
<1>4. CASE StartRestoreVault
  <2>1. PICK p \in Passphrases :
          run' = [Local(NONE, NONE, FALSE) EXCEPT !.next =
                    [db |-> [key |-> Op.id, rev |-> 0],
                     blob |-> [key |-> Op.id, by |-> p], bio |-> NONE]]
    BY <1>4 DEF StartRestoreVault
  <2>2. run'.next.bio = NONE
    BY <2>1 DEF Local, NoRun
  <2>3. pc = "wait" /\ pc' = "build" /\ UNCHANGED <<disk, ks>>
    BY <1>4 DEF StartRestoreVault, Starts
  <2> QED BY <1>3, <2>2, <2>3
<1>5. CASE StartRestoreKeep
  <2>1. pc = "wait" /\ UNCHANGED <<disk, ks>>
    BY <1>5 DEF StartRestoreKeep, Starts
  <2>2. CASE Awaits("build", [Local(NONE, NONE, FALSE) EXCEPT !.next = NoDisk])
    <3>1. pc' = "build" /\ run' = [Local(NONE, NONE, FALSE) EXCEPT !.next = NoDisk]
      BY <2>2 DEF Awaits, Continue
    <3>2. run'.next = NoDisk
      BY <3>1 DEF Local, NoRun
    <3> QED BY <1>3, <2>1, <3>1, <3>2 DEF NoDisk
  <2> QED BY <1>2, <1>5, <2>1, <2>2 DEF StartRestoreKeep
<1>6. CASE KeepRead
  <2>1. pc = "keepRead" /\ UNCHANGED <<disk, ks>>
    BY <1>6 DEF KeepRead
  <2>2. CASE Continue("build") /\ run' = [run EXCEPT !.next = disk]
    <3>1. run'.next = disk /\ pc' = "build"
      BY <1>1, <2>2 DEF Runnings, Continue
    <3> QED BY <1>3, <2>1, <3>1
  <2> QED BY <1>2, <1>6, <2>1, <2>2 DEF KeepRead
<1>7. CASE BuildRestored
  <2>1. pc = "build" /\ UNCHANGED <<disk, ks>>
    BY <1>7 DEF BuildRestored
  <2>2. CASE Awaits("switch", run)
    BY <1>3, <2>1, <2>2 DEF PairInv
  <2> QED BY <1>2, <1>7, <2>1, <2>2 DEF BuildRestored
<1> QED BY <1>4, <1>5, <1>6, <1>7

\* The user, lock() and the provider touch neither file nor Keystore.
LEMMA AsideKeepsPair ==
    ASSUME IInv, PairInv,
           UserCalls \/ Lock \/ Invalidate \/ Dispose \/ Build \/ Built \/ UNCHANGED vars
    PROVE  PairInv'
<1>1. CASE UserCalls
  <2>1. PICK kind \in AllKinds, secret \in Passphrases \cup {NONE} :
          Call(kind, secret) /\ (kind \in Incoming => secret \in Passphrases)
    BY <1>1, ConstantsAssumption DEF UserCalls
  <2>2. pc # "wait" => Op' = Op
    BY <2>1, CallOwners DEF IInv, HeadInv
  <2> QED BY <2>1, <2>2, PairUntouched DEF Call
<1>2. CASE Lock \/ Invalidate \/ Dispose \/ Build \/ Built \/ UNCHANGED vars
  <2>1. UNCHANGED <<disk, ks, pc, run, queue>>
    BY <1>2 DEF Lock, Invalidate, Dispose, Build, Built, vars
  <2> QED BY <2>1, PairUntouched DEF Op
<1> QED BY <1>1, <1>2

\* With no crash and a Keystore that works, a stored S opens the biometric blob
\* beside it: no lock in the middle of an enrolment, failed save, removal or
\* restore leaves a record that another blob is kept with
\* (VaultSessionController.enrollBiometric and its undo).
THEOREM BioPairHolds ==
    ASSUME "crash" \notin Faults, "keystore" \notin Faults
    PROVE  Spec => []BioPairMatches
<1>1. Init => PairInv
  <2> SUFFICES ASSUME Init PROVE PairInv
    OBVIOUS
  <2>1. pc = "wait"
    BY DEF Init
  <2>2. PICK kind \in Installed, p \in Passphrases :
          /\ disk = Device(kind, p)
          /\ ks = IF kind = "enrolled" THEN [key |-> 0, rec |-> 0]
                                       ELSE [key |-> NONE, rec |-> NONE]
    BY DEF Init
  <2>3. Pair
    BY <2>2 DEF Pair, HasSecret, Device
  <2> QED BY <2>1, <2>3 DEF PairInv
<1>2. IInv /\ PairInv /\ [Next]_vars => PairInv'
  <2> SUFFICES ASSUME IInv, PairInv, [Next]_vars PROVE PairInv'
    OBVIOUS
  <2>1. ~May("keystore") /\ ~Crash /\ ~KeyInvalidated
    BY DEF May, Crash, KeyInvalidated
  <2>2. CASE Runs
    BY <2>1, <2>2, PlainKeepsPair, EnrolKeepsPair, ClearKeepsPair, RestoreKeepsPair,
       AsideKeepsPair DEF Runs
  <2>3. CASE UserCalls \/ Lock \/ Invalidate \/ UNCHANGED vars
    BY <2>3, AsideKeepsPair
  <2> QED BY <2>1, <2>2, <2>3 DEF Next
<1>3. PairInv => BioPairMatches
  BY DEF PairInv, Pair, BioPairMatches
<1> QED BY <1>1, <1>2, <1>3, InvAlways, PTL DEF Spec
=============================================================================
