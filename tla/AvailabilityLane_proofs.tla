------------------------ MODULE AvailabilityLane_proofs ------------------------
(***************************************************************************)
(* Safety of the availability lane for any number of moves and faults.     *)
(***************************************************************************)
EXTENDS AvailabilityLane, TLAPS, FiniteSetTheorems

Notices == {"start", "update", "replaced"}
Ops == Notices \cup {"resumed", "sitePublished", "now", "followUp"}
Turners == {"keys", "lane", "catalogue", "restore"}
Sites == [books: [id: Ids, n: Nat], file: Sets \cup {NONE}]
Records == [books: [id: Ids, n: Nat], file: Sets \cup {NONE}, keyed: BOOLEAN]
Inputs == [queue: Seq(Notices), at: {"idle", "reading", "applying"},
           counts: Counts \cup {NONE}, items: Items \cup {NONE},
           stale: BOOLEAN, dirty: BOOLEAN, late: Items \cup {NONE}]
Lanes == [enabled: BOOLEAN, counts: Counts \cup {NONE}, items: Items \cup {NONE},
          timer: BOOLEAN, running: BOOLEAN, rerun: BOOLEAN, waiting: BOOLEAN,
          status: {"off", "notReady", "busy", "upToDate"}]
StepCalls == [op: Ops, enabled: BOOLEAN, counts: Counts \cup {NONE},
              items: Items \cup {NONE}]
StepPlaces == [at: {"idle", "keys"}, now: BOOLEAN, counts: Counts \cup {NONE},
               items: Items \cup {NONE}]
Publishes == [at: {"idle", "sent", "done"}, update: Sets \cup {NONE}, gate: BOOLEAN,
              result: {"none", "sent", "already", "notReady", "blocked", "pending", "failed"}]
Turns == [at: {"idle", "planned", "landed", "reset"}, seen: Sites \cup {NONE},
          site: Sites \cup {NONE}, record: Records \cup {NONE}]

\* The elements of a sequence, and those behind its head.
Elems(q) == {q[i] : i \in 1 .. Len(q)}
Behind(q) == {q[i] : i \in 2 .. Len(q)}
Once(q) == \A i, j \in 1 .. Len(q) : q[i] = q[j] => i = j

Told == \E r \in Elems(steps) : r.op \in Notices
InHand == turn.at \in {"planned", "landed"}

TypesInv ==
    /\ library \in Libraries /\ shown \in Counts \cup {NONE}
    /\ on \in BOOLEAN /\ host \in BOOLEAN /\ outlived \in BOOLEAN
    /\ mem \in Memories /\ store \in Memories
    /\ site \in Sites /\ record \in Records
    /\ input \in Inputs /\ lane \in Lanes /\ steps \in Seq(StepCalls)
    /\ step \in StepPlaces /\ run \in Publishes
    /\ pubq \in Seq(Turners) /\ turn \in Turns
    /\ InHand => turn.seen \in Sites /\ turn.site \in Sites /\ turn.record \in Records
    /\ step.at = "keys" => step.counts \in Counts /\ step.items \in Items

\* Every restore took a move, and one at a time is on its way.
BoundInv ==
    /\ moves \in Nat /\ moves <= MaxEvents /\ faults \subseteq Faults
    /\ library.id >= 1
    /\ library.id + (IF "restore" \in Elems(pubq) THEN 1 ELSE 0) <= moves + 1

\* The publish queue: nothing waits twice, and what its head is doing.
TurnsInv ==
    /\ Once(pubq)
    /\ "keys" \in Elems(pubq) <=> step.at = "keys"
    /\ "lane" \in Elems(pubq) <=> run.at = "sent"
    /\ InHand => pubq # <<>> /\ Head(pubq) \in {"lane", "catalogue"}
    /\ turn.at = "reset" => pubq # <<>> /\ Head(pubq) = "restore"

\* The notifier tells the lane one thing at a time, the oldest first.
OneNotice(q) ==
    \A i, j \in 1 .. Len(q) : q[i].op \in Notices /\ q[j].op \in Notices => i = j
ToldInv ==
    /\ OneNotice(steps)
    /\ step.at = "keys" => steps # <<>>
    /\ input.at # "idle" => input.queue # <<>>
    /\ input.at = "applying" <=> Told
    /\ \A r \in Elems(steps) : r.op \in Notices => r.op = Head(input.queue)

\* At most one publish of the lane is on its way or armed.
RunInv ==
    /\ run.at # "idle" <=> lane.running
    /\ lane.timer => ~lane.running

LaneInv == TypesInv /\ BoundInv /\ TurnsInv /\ ToldInv /\ RunInv

-----------------------------------------------------------------------------
(* Sequences                                                                *)

LEMMA InElems == \A w, q : InQueue(w, q) <=> w \in Elems(q)
BY DEF InQueue, Elems

LEMMA EmptyElems == Elems(<<>>) = {} /\ Behind(<<>>) = {} /\ Once(<<>>)
BY DEF Elems, Behind, Once

LEMMA AppendElems ==
    ASSUME NEW S, NEW q \in Seq(S), NEW x \in S
    PROVE  /\ Append(q, x) \in Seq(S) /\ Append(q, x) # <<>>
           /\ Elems(Append(q, x)) = Elems(q) \cup {x}
           /\ q # <<>> => /\ Head(Append(q, x)) = Head(q)
                          /\ Behind(Append(q, x)) = Behind(q) \cup {x}
           /\ q = <<>> => /\ Head(Append(q, x)) = x /\ Behind(Append(q, x)) = {}
<1> DEFINE r == Append(q, x)
           n == Len(q)
<1>1. r \in Seq(S) /\ n \in Nat /\ Len(r) = n + 1 /\ r # <<>> /\ Head(r) = r[1]
  OBVIOUS
<1>2. \A i \in 1 .. n : r[i] = q[i]
  OBVIOUS
<1>3. r[n + 1] = x
  OBVIOUS
<1>4. \A i \in 1 .. n + 1 : i \in 1 .. n \/ i = n + 1
  BY <1>1
<1>5. Elems(r) = Elems(q) \cup {x}
  <2>1. \A e \in Elems(r) : e \in Elems(q) \cup {x}
    BY <1>1, <1>2, <1>3, <1>4 DEF Elems
  <2>2. \A e \in Elems(q) : e \in Elems(r)
    BY <1>1, <1>2 DEF Elems
  <2>3. x \in Elems(r)
    BY <1>1, <1>3 DEF Elems
  <2> QED BY <2>1, <2>2, <2>3
<1>6. CASE q # <<>>
  <2>1. n >= 1 /\ Head(q) = q[1]
    BY <1>6
  <2>2. Head(r) = Head(q)
    BY <1>1, <1>2, <2>1
  <2>3. \A e \in Behind(r) : e \in Behind(q) \cup {x}
    <3>1. \A i \in 2 .. n + 1 : i \in 2 .. n \/ i = n + 1
      BY <1>1
    <3>2. \A i \in 2 .. n : r[i] = q[i]
      BY <1>1, <1>2
    <3> QED BY <1>1, <1>3, <3>1, <3>2 DEF Behind
  <2>4. \A e \in Behind(q) : e \in Behind(r)
    BY <1>1, <1>2 DEF Behind
  <2>5. x \in Behind(r)
    BY <1>1, <1>3, <2>1 DEF Behind
  <2> QED BY <1>1, <1>5, <1>6, <2>2, <2>3, <2>4, <2>5
<1>7. CASE q = <<>>
  <2>1. n = 0 /\ r[1] = x /\ Len(r) = 1
    BY <1>1, <1>3, <1>7
  <2>2. Behind(r) = {}
    BY <2>1 DEF Behind
  <2> QED BY <1>1, <1>5, <1>7, <2>1, <2>2
<1> QED BY <1>6, <1>7

LEMMA TailElems ==
    ASSUME NEW S, NEW q \in Seq(S), q # <<>>
    PROVE  /\ Tail(q) \in Seq(S) /\ Head(q) \in S /\ Head(q) \in Elems(q)
           /\ Elems(q) = {Head(q)} \cup Behind(q)
           /\ Elems(Tail(q)) = Behind(q) /\ Behind(Tail(q)) \subseteq Behind(q)
           /\ Tail(q) # <<>> => Head(Tail(q)) \in Behind(q)
<1> DEFINE t == Tail(q)
           n == Len(q)
<1>1. /\ t \in Seq(S) /\ n \in Nat /\ n >= 1 /\ Len(t) = n - 1 /\ Head(q) = q[1]
      /\ q[1] \in S
  OBVIOUS
<1>2. \A i \in 1 .. n - 1 : t[i] = q[i + 1]
  OBVIOUS
<1>3. \A i \in 2 .. n : i - 1 \in 1 .. n - 1 /\ t[i - 1] = q[i]
  BY <1>1, <1>2
<1>4. Elems(q) = {Head(q)} \cup Behind(q)
  <2>1. \A i \in 1 .. n : i = 1 \/ i \in 2 .. n
    BY <1>1
  <2>2. 1 \in 1 .. n /\ \A i \in 2 .. n : i \in 1 .. n
    BY <1>1
  <2> QED BY <1>1, <2>1, <2>2 DEF Elems, Behind
<1>5. Elems(t) = Behind(q)
  <2>1. \A e \in Elems(t) : e \in Behind(q)
    BY <1>1, <1>2 DEF Elems, Behind
  <2>2. \A e \in Behind(q) : e \in Elems(t)
    BY <1>1, <1>3 DEF Elems, Behind
  <2> QED BY <2>1, <2>2
<1>6. Behind(t) \subseteq Elems(t)
  BY <1>1 DEF Behind, Elems
<1>7. ASSUME t # <<>> PROVE Head(t) \in Elems(t)
  <2>1. Len(t) >= 1 /\ Head(t) = t[1]
    BY <1>1, <1>7
  <2> QED BY <1>1, <2>1 DEF Elems
<1> QED BY <1>1, <1>4, <1>5, <1>6, <1>7

\* What is unique stays unique when it leaves or when another comes.
LEMMA AppendOnce ==
    ASSUME NEW S, NEW q \in Seq(S), NEW x \in S, Once(q), x \notin Elems(q)
    PROVE  Once(Append(q, x))
<1> DEFINE r == Append(q, x)
           n == Len(q)
<1>1. n \in Nat /\ Len(r) = n + 1
  OBVIOUS
<1>2. \A i \in 1 .. n : r[i] = q[i] /\ q[i] # x
  BY DEF Elems
<1>3. r[n + 1] = x
  OBVIOUS
<1>4. \A i \in 1 .. n + 1 : i \in 1 .. n \/ i = n + 1
  BY <1>1
<1> QED BY <1>1, <1>2, <1>3, <1>4 DEF Once

LEMMA TailOnce ==
    ASSUME NEW S, NEW q \in Seq(S), q # <<>>, Once(q)
    PROVE  Once(Tail(q)) /\ Head(q) \notin Behind(q) /\ Elems(Tail(q)) = Elems(q) \ {Head(q)}
<1> DEFINE t == Tail(q)
           n == Len(q)
<1>1. /\ n \in Nat /\ n >= 1 /\ Len(t) = n - 1 /\ Head(q) = q[1]
      /\ \A i \in 1 .. n - 1 : t[i] = q[i + 1]
  OBVIOUS
<1>2. Once(t)
  <2>1. \A i, j \in 1 .. n - 1 : t[i] = t[j] => i + 1 = j + 1
    BY <1>1 DEF Once
  <2> QED BY <1>1, <2>1 DEF Once
<1>3. Head(q) \notin Behind(q)
  BY <1>1 DEF Once, Behind
<1> QED BY <1>2, <1>3, TailElems

LEMMA AppendNotice ==
    ASSUME NEW q \in Seq(StepCalls), NEW x \in StepCalls, OneNotice(q),
           x.op \in Notices => \A r \in Elems(q) : r.op \notin Notices
    PROVE  OneNotice(Append(q, x))
<1> DEFINE r == Append(q, x)
           n == Len(q)
<1>1. n \in Nat /\ Len(r) = n + 1
  OBVIOUS
<1>2. \A i \in 1 .. n : r[i] = q[i] /\ q[i] \in Elems(q)
  BY DEF Elems
<1>3. r[n + 1] = x
  OBVIOUS
<1>4. \A i \in 1 .. n + 1 : i \in 1 .. n \/ i = n + 1
  BY <1>1
<1> QED BY <1>1, <1>2, <1>3, <1>4 DEF OneNotice

LEMMA TailNotice ==
    ASSUME NEW q \in Seq(StepCalls), q # <<>>, OneNotice(q)
    PROVE  /\ OneNotice(Tail(q))
           /\ Head(q).op \in Notices => \A r \in Behind(q) : r.op \notin Notices
<1> DEFINE t == Tail(q)
           n == Len(q)
<1>1. /\ n \in Nat /\ n >= 1 /\ Len(t) = n - 1 /\ Head(q) = q[1]
      /\ \A i \in 1 .. n - 1 : t[i] = q[i + 1]
  OBVIOUS
<1>2. OneNotice(t)
  <2>1. \A i, j \in 1 .. n - 1 :
          t[i].op \in Notices /\ t[j].op \in Notices => i + 1 = j + 1
    BY <1>1 DEF OneNotice
  <2> QED BY <1>1, <2>1 DEF OneNotice
<1>3. ASSUME Head(q).op \in Notices, NEW i \in 2 .. n PROVE q[i].op \notin Notices
  BY <1>1, <1>3 DEF OneNotice
<1> QED BY <1>2, <1>3 DEF Behind

-----------------------------------------------------------------------------
(* Types                                                                    *)

Known(r) == r.enabled /\ r.counts # NONE /\ r.items # NONE
SameInputs(k, l) ==
    k.enabled = l.enabled /\ k.counts = l.counts /\ k.items = l.items
StillTimed(k, l) == (l.timer => ~l.running) => (k.timer => ~k.running)

LEMMA NoneApart == NONE \notin Counts /\ NONE \notin Items /\ NONE \notin Sets
BY NoneIsNothing

LEMMA Initials ==
    /\ Nothing \in Memories /\ NoInput \in Inputs /\ NoLane \in Lanes
    /\ NoStep \in StepPlaces /\ NoRun \in Publishes /\ NoTurn \in Turns
<1>1. Nothing \in Memories
  BY DEF Nothing, Memories
<1>2. NoInput \in Inputs
  <2>1. <<"start">> \in Seq(Notices)
    BY DEF Notices
  <2> QED BY <2>1 DEF NoInput, Inputs
<1>3. NoLane \in Lanes /\ NoStep \in StepPlaces
  BY DEF NoLane, Lanes, NoStep, StepPlaces
<1>4. NoRun \in Publishes /\ NoTurn \in Turns
  BY DEF NoRun, Publishes, NoTurn, Turns
<1> QED BY <1>1, <1>2, <1>3, <1>4

LEMMA SnapshotType ==
    ASSUME NEW c \in Counts, NEW x \in Items
    PROVE  /\ Snapshot(c, x) \in Sets /\ Snapshot(c, x) # NONE
           /\ Snapshot(c, x).lib = x.id
           /\ Snapshot(c, x).out = (c.lent /\ x.copies = 1)
<1> DEFINE e == c.lent /\ x.copies = 1
<1>1. e \in BOOLEAN /\ x.id \in Ids
  BY DEF Items
<1> HIDE DEF e
<1>2. LET s == [lib |-> x.id, out |-> e] IN s \in Sets /\ s.lib = x.id /\ s.out = e
  BY <1>1 DEF Sets
<1>3. Snapshot(c, x) = [lib |-> x.id, out |-> e]
  BY DEF Snapshot, e
<1>4. Snapshot(c, x) \in Sets /\ Snapshot(c, x).lib = x.id /\ Snapshot(c, x).out = e
  BY <1>2, <1>3
<1> QED BY <1>4, NoneApart DEF e

LEMMA OfLibraryType ==
    ASSUME NEW l \in Libraries
    PROVE  CountsOf(l) \in Counts /\ ItemsOf(l) \in Items
BY DEF Libraries, CountsOf, ItemsOf, Counts, Items

LEMMA MemoryType ==
    ASSUME NEW m \in Memories, NEW s \in Sets \cup {NONE}, NEW b \in BOOLEAN
    PROVE  /\ Kept(m, s) \in Memories /\ Recorded(m, s) \in Memories
           /\ Cleared(m) \in Memories /\ Unpublished(m) \in Memories
           /\ [m EXCEPT !.known = b] \in Memories
BY DEF Memories, Kept, Recorded, Cleared, Unpublished

LEMMA RememberType ==
    ASSUME TypesInv, NEW a \in Memories, NEW b \in Memories, Remember(a, b)
    PROVE  mem' \in Memories /\ store' \in Memories
BY DEF TypesInv, Remember, Memories

LEMMA LaneFields ==
    ASSUME NEW l \in Lanes, NEW m, host \in BOOLEAN
    PROVE  \A k \in {Scheduled(l), Settled(l, m), Reevaluated(l, m)} :
             /\ k \in Lanes /\ SameInputs(k, l) /\ k.running = l.running
             /\ StillTimed(k, l)
<1>1. /\ Scheduled(l) \in Lanes /\ SameInputs(Scheduled(l), l)
      /\ Scheduled(l).running = l.running /\ StillTimed(Scheduled(l), l)
  BY DEF Scheduled, Lanes, SameInputs, StillTimed
<1>2. /\ Settled(l, m) \in Lanes /\ SameInputs(Settled(l, m), l)
      /\ Settled(l, m).running = l.running /\ StillTimed(Settled(l, m), l)
  BY DEF Settled, Lanes, SameInputs, StillTimed
<1>3. /\ Reevaluated(l, m) \in Lanes /\ SameInputs(Reevaluated(l, m), l)
      /\ Reevaluated(l, m).running = l.running /\ StillTimed(Reevaluated(l, m), l)
  <2> DEFINE k == [l EXCEPT !.timer = FALSE, !.status = "off"]
  <2>1. k \in Lanes /\ SameInputs(k, l) /\ k.running = l.running /\ StillTimed(k, l)
    BY DEF Lanes, SameInputs, StillTimed
  <2> QED BY <1>1, <1>2, <2>1 DEF Reevaluated
<1> QED BY <1>1, <1>2, <1>3

\* What a step of the lane works with: what it was told, or what it knew.
Taken == IF Head(steps).op \in Notices THEN Head(steps) ELSE lane
LaneStep == StepStart \/ StepUpdate \/ StepReplaced \/ StepResumed
              \/ StepSitePublished \/ StepNow \/ StepFollowUp

LEMMA HeadStep ==
    ASSUME TypesInv, steps # <<>>
    PROVE  /\ Head(steps) \in StepCalls /\ Head(steps) \in Elems(steps)
           /\ WithInputs(lane) \in Lanes /\ SameInputs(WithInputs(lane), Head(steps))
           /\ WithInputs(lane).running = lane.running /\ WithInputs(lane).timer = lane.timer
<1>1. Head(steps) \in StepCalls /\ Head(steps) \in Elems(steps)
  BY TailElems DEF TypesInv
<1> QED BY <1>1 DEF TypesInv, WithInputs, SameInputs, Lanes, StepCalls

LEMMA ReevaluateOutcome ==
    ASSUME host \in BOOLEAN, NEW l \in Lanes, NEW m, Reevaluate(l, m)
    PROVE  \/ Known(l) /\ AskKeys(l, FALSE)
           \/ /\ lane' = Reevaluated(l, m) /\ lane' \in Lanes /\ SameInputs(lane', l)
              /\ lane'.running = l.running /\ StillTimed(lane', l)
              /\ Finish /\ UNCHANGED queue
<1>1. CASE Known(l)
  BY <1>1 DEF Reevaluate, Known
<1>2. CASE ~Known(l)
  <2>1. lane' = Reevaluated(l, m) /\ Finish /\ UNCHANGED queue
    BY <1>2 DEF Reevaluate, Known
  <2>2. \A k \in {Scheduled(l), Settled(l, m), Reevaluated(l, m)} :
          /\ k \in Lanes /\ SameInputs(k, l) /\ k.running = l.running
          /\ StillTimed(k, l)
    BY LaneFields
  <2>3. /\ lane' \in Lanes /\ SameInputs(lane', l) /\ lane'.running = l.running
        /\ StillTimed(lane', l)
    BY <2>1, <2>2, Zenon
  <2> QED BY <2>1, <2>3
<1> QED BY <1>1, <1>2

LEMMA StepOutcome ==
    ASSUME TypesInv, LaneStep
    PROVE  /\ steps # <<>> /\ step.at = "idle"
           /\ UNCHANGED <<library, shown, on, host, moves, world, run>>
           /\ \E l \in Lanes :
                /\ SameInputs(l, Taken) /\ l.running = lane.running
                /\ l.timer => lane.timer
                /\ \/ Known(l) /\ \E now \in BOOLEAN : AskKeys(l, now)
                   \/ /\ lane' \in Lanes /\ SameInputs(lane', l)
                      /\ lane'.running = l.running /\ StillTimed(lane', l)
                      /\ Finish /\ UNCHANGED queue
<1> DEFINE Out(l) ==
             /\ l \in Lanes /\ SameInputs(l, Taken) /\ l.running = lane.running
             /\ l.timer => lane.timer
             /\ \/ Known(l) /\ \E now \in BOOLEAN : AskKeys(l, now)
                \/ /\ lane' \in Lanes /\ SameInputs(lane', l)
                   /\ lane'.running = l.running /\ StillTimed(lane', l)
                   /\ Finish /\ UNCHANGED queue
           Here == /\ steps # <<>> /\ step.at = "idle"
                   /\ UNCHANGED <<library, shown, on, host, moves, world, run>>
<1> USE DEF Begins
<1>t. host \in BOOLEAN /\ lane \in Lanes
  BY DEF TypesInv
<1>h. ASSUME steps # <<>>, Head(steps).op \in Notices
      PROVE  /\ WithInputs(lane) \in Lanes /\ SameInputs(WithInputs(lane), Taken)
             /\ WithInputs(lane).running = lane.running
             /\ WithInputs(lane).timer = lane.timer
  BY <1>h, HeadStep DEF Taken
<1>o. ASSUME Head(steps).op \notin Notices PROVE Taken = lane
  BY <1>o DEF Taken
<1>r. ASSUME NEW l \in Lanes, NEW m, Reevaluate(l, m), SameInputs(l, Taken),
             l.running = lane.running, l.timer => lane.timer
      PROVE  Out(l)
  BY <1>r, <1>t, ReevaluateOutcome
<1>1. ASSUME StepStart PROVE Here /\ \E l \in Lanes : Out(l)
  <2>1. Here /\ Head(steps).op \in Notices
    BY <1>1 DEF StepStart, phone, world, Notices
  <2>2. Reevaluate(WithInputs(lane), mem')
    BY <1>1 DEF StepStart
  <2> QED BY <2>1, <2>2, <1>h, <1>r
<1>2. ASSUME StepUpdate PROVE Here /\ \E l \in Lanes : Out(l)
  <2>1. Here /\ Head(steps).op \in Notices
    BY <1>2 DEF StepUpdate, phone, world, Notices
  <2>2. Reevaluate(WithInputs(lane), mem)
    BY <1>2 DEF StepUpdate
  <2> QED BY <2>1, <2>2, <1>h, <1>r
<1>3. ASSUME StepReplaced PROVE Here /\ \E l \in Lanes : Out(l)
  <2> DEFINE l == WithInputs([lane EXCEPT !.timer = FALSE])
  <2>1. Here /\ Head(steps).op \in Notices
    BY <1>3 DEF StepReplaced, phone, world, Notices
  <2>2. Reevaluate(l, mem')
    BY <1>3 DEF StepReplaced
  <2>3. l = [WithInputs(lane) EXCEPT !.timer = FALSE]
    BY <1>t DEF WithInputs, Lanes
  <2>4. l \in Lanes /\ SameInputs(l, Taken) /\ l.running = lane.running /\ ~l.timer
    BY <2>1, <2>3, <1>h DEF Lanes, SameInputs
  <2> QED BY <2>1, <2>2, <2>4, <1>r
<1>4. ASSUME StepResumed PROVE Here /\ \E l \in Lanes : Out(l)
  <2>1. Here /\ Taken = lane
    BY <1>4, <1>o DEF StepResumed, phone, world, Notices
  <2>2. Out(lane)
    <3>1. CASE lane.waiting
      BY <1>4, <1>t, <2>1, <3>1 DEF StepResumed, SameInputs, StillTimed
    <3>2. CASE ~lane.waiting
      BY <1>4, <1>t, <1>r, <2>1, <3>2 DEF StepResumed, SameInputs
    <3> QED BY <3>1, <3>2
  <2> QED BY <1>t, <2>1, <2>2
<1>5. ASSUME StepSitePublished PROVE Here /\ \E l \in Lanes : Out(l)
  <2> DEFINE l == [lane EXCEPT !.waiting = FALSE]
  <2>1. Here /\ Taken = lane /\ Reevaluate(l, mem)
    BY <1>5, <1>o DEF StepSitePublished, phone, world, Notices
  <2>2. l \in Lanes /\ SameInputs(l, Taken) /\ l.running = lane.running /\ l.timer = lane.timer
    BY <1>t, <2>1 DEF Lanes, SameInputs
  <2> QED BY <2>1, <2>2, <1>r
<1>6. ASSUME StepNow PROVE Here /\ \E l \in Lanes : Out(l)
  <2> DEFINE l == [lane EXCEPT !.waiting = FALSE]
  <2>1. Here /\ Taken = lane
    BY <1>6, <1>o DEF StepNow, phone, world, Notices
  <2>2. l \in Lanes /\ SameInputs(l, Taken) /\ l.running = lane.running /\ l.timer = lane.timer
    BY <1>t, <2>1 DEF Lanes, SameInputs
  <2>3. CASE Known(l)
    BY <1>6, <2>1, <2>2, <2>3 DEF StepNow, Known
  <2>4. CASE ~Known(l)
    <3>1. lane' \in {Scheduled(l), Settled(l, mem), l} /\ Finish /\ UNCHANGED queue
      BY <1>6, <2>4 DEF StepNow, Known
    <3>2. lane' \in Lanes /\ SameInputs(lane', l) /\ lane'.running = l.running /\ StillTimed(lane', l)
      <4>1. l \in Lanes /\ SameInputs(l, l) /\ StillTimed(l, l)
        BY <2>2 DEF SameInputs, StillTimed
      <4> HIDE DEF l
      <4> QED BY <1>t, <3>1, <4>1, LaneFields
    <3> QED BY <2>1, <2>2, <3>1, <3>2
  <2> QED BY <2>3, <2>4
<1>7. ASSUME StepFollowUp PROVE Here /\ \E l \in Lanes : Out(l)
  <2> DEFINE l == [lane EXCEPT !.rerun = FALSE]
  <2>1. Here /\ Taken = lane
    BY <1>7, <1>o DEF StepFollowUp, phone, world, Notices
  <2>2. l \in Lanes /\ SameInputs(l, Taken) /\ l.running = lane.running /\ l.timer = lane.timer
    BY <1>t, <2>1 DEF Lanes, SameInputs
  <2>3. lane' \in {Scheduled(l), l} /\ Finish /\ UNCHANGED queue
    BY <1>7 DEF StepFollowUp
  <2>4. lane' \in Lanes /\ SameInputs(lane', l) /\ lane'.running = l.running /\ StillTimed(lane', l)
    <3>1. l \in Lanes /\ SameInputs(l, l) /\ StillTimed(l, l)
      BY <2>2 DEF SameInputs, StillTimed
    <3> HIDE DEF l
    <3> QED BY <1>t, <2>3, <3>1, LaneFields
  <2> QED BY <2>1, <2>2, <2>3, <2>4
<1> HIDE DEF Out, Here
<1>8. Here /\ \E l \in Lanes : Out(l)
  BY <1>1, <1>2, <1>3, <1>4, <1>5, <1>6, <1>7 DEF LaneStep
<1> QED BY <1>8 DEF Out, Here

\* A step of the lane ends; the notifier goes on when it was told that one.
LEMMA FinishEnds ==
    ASSUME TypesInv, ToldInv, steps # <<>>, Finish
    PROVE  /\ steps' \in Seq(StepCalls) /\ input' \in Inputs /\ step' = NoStep
           /\ Elems(steps') = Behind(steps)
           /\ IF Head(steps).op \in Notices
              THEN /\ input.at = "applying" /\ input.queue # <<>>
                   /\ Head(steps).op = Head(input.queue)
                   /\ input' = [input EXCEPT !.at = "idle", !.queue = Tail(@)]
                   /\ ~Told'
              ELSE input' = input /\ (Told' <=> Told)
           /\ ToldInv'
<1>1. /\ steps' \in Seq(StepCalls) /\ Head(steps) \in StepCalls
      /\ Elems(steps) = {Head(steps)} \cup Behind(steps) /\ Elems(steps') = Behind(steps)
  BY TailElems DEF TypesInv, Finish
<1>2. /\ OneNotice(steps')
      /\ Head(steps).op \in Notices => \A r \in Behind(steps) : r.op \notin Notices
  BY TailNotice DEF TypesInv, ToldInv, Finish
<1>3. step' = NoStep /\ step'.at = "idle"
  BY DEF Finish, NoStep
<1>4. CASE Head(steps).op \in Notices
  <2>1. input' = [input EXCEPT !.at = "idle", !.queue = Tail(@)]
    BY <1>4 DEF Finish, Notices
  <2>2. input.at = "applying" /\ input.queue # <<>> /\ Head(steps).op = Head(input.queue)
    BY <1>1, <1>4 DEF ToldInv, Told
  <2>3. input' \in Inputs /\ input'.at = "idle"
    <3>1. input.queue \in Seq(Notices) /\ Tail(input.queue) \in Seq(Notices)
      BY <2>2, TailElems DEF TypesInv, Inputs
    <3> QED BY <2>1, <3>1 DEF TypesInv, Inputs
  <2>4. ~Told'
    BY <1>1, <1>2, <1>4 DEF Told
  <2>5. ToldInv'
    BY <1>1, <1>2, <1>3, <1>4, <2>3, <2>4 DEF ToldInv, Told
  <2> QED BY <1>1, <1>3, <1>4, <2>1, <2>2, <2>3, <2>4, <2>5
<1>5. CASE Head(steps).op \notin Notices
  <2>1. input' = input
    BY <1>5 DEF Finish, Notices
  <2>2. Told' <=> Told
    BY <1>1, <1>5 DEF Told
  <2>3. ToldInv'
    BY <1>1, <1>2, <1>3, <2>1, <2>2 DEF ToldInv
  <2> QED BY <1>1, <1>3, <1>5, <2>1, <2>2, <2>3 DEF TypesInv
<1> QED BY <1>4, <1>5

\* The notifier tells the lane the oldest of what it was asked.
LEMMA Tells ==
    ASSUME TypesInv, ToldInv, input.queue # <<>>, input.at # "applying",
           NEW r \in StepCalls, steps' = Append(steps, r), r.op = Head(input.queue),
           input' \in Inputs, input'.queue = input.queue, input'.at = "applying",
           step' = step
    PROVE  /\ steps' \in Seq(StepCalls) /\ r.op \in Notices
           /\ Elems(steps') = Elems(steps) \cup {r} /\ ToldInv'
<1>1. /\ steps' \in Seq(StepCalls) /\ steps' # <<>>
      /\ Elems(steps') = Elems(steps) \cup {r}
  BY AppendElems DEF TypesInv
<1>2. r.op \in Notices
  BY TailElems DEF TypesInv, Inputs
<1>3. \A e \in Elems(steps) : e.op \notin Notices
  BY DEF ToldInv, Told
<1>4. OneNotice(steps')
  BY <1>3, AppendNotice DEF TypesInv, ToldInv
<1> QED BY <1>1, <1>2, <1>3, <1>4 DEF ToldInv, Told

\* Another step comes to the lane's queue.
LEMMA Queues ==
    ASSUME TypesInv, ToldInv, NEW r \in StepCalls, r.op \notin Notices,
           steps' = Append(steps, r), UNCHANGED <<input, step>>
    PROVE  /\ steps' \in Seq(StepCalls) /\ Elems(steps') = Elems(steps) \cup {r}
           /\ steps # <<>> => Head(steps') = Head(steps)
           /\ ToldInv'
<1>1. /\ steps' \in Seq(StepCalls) /\ steps' # <<>>
      /\ Elems(steps') = Elems(steps) \cup {r}
      /\ steps # <<>> => Head(steps') = Head(steps)
  BY AppendElems DEF TypesInv
<1>2. OneNotice(steps')
  BY AppendNotice DEF TypesInv, ToldInv
<1> QED BY <1>1, <1>2 DEF ToldInv, Told

LEMMA StepType ==
    ASSUME TypesInv, NEW op \in Ops
    PROVE  Step(op) \in StepCalls /\ Step(op).op = op
BY DEF TypesInv, Step, StepCalls

\* The notifier is asked one thing more.
LEMMA Asks ==
    ASSUME TypesInv, ToldInv, NEW what \in Notices, UNCHANGED <<steps, step>>,
           input'.queue = Append(input.queue, what), input'.at = input.at
    PROVE  /\ input'.queue \in Seq(Notices) /\ input'.queue # <<>>
           /\ Elems(input'.queue) = Elems(input.queue) \cup {what}
           /\ input.queue # <<>> => /\ Head(input'.queue) = Head(input.queue)
                                    /\ Behind(input'.queue) = Behind(input.queue) \cup {what}
           /\ input.queue = <<>> => /\ Head(input'.queue) = what
                                    /\ Behind(input'.queue) = {}
           /\ ToldInv'
<1>0. input.queue \in Seq(Notices)
  BY DEF TypesInv, Inputs
<1>1. /\ input'.queue \in Seq(Notices) /\ input'.queue # <<>>
      /\ Elems(input'.queue) = Elems(input.queue) \cup {what}
      /\ input.queue # <<>> => /\ Head(input'.queue) = Head(input.queue)
                               /\ Behind(input'.queue) = Behind(input.queue) \cup {what}
      /\ input.queue = <<>> => /\ Head(input'.queue) = what
                               /\ Behind(input'.queue) = {}
  BY <1>0, AppendElems
<1>2. Told' <=> Told
  BY DEF Told
<1>3. input.queue = <<>> => ~Told
  BY DEF ToldInv, TypesInv, Inputs
<1>4. ToldInv'
  BY <1>1, <1>2, <1>3 DEF ToldInv, Told
<1> QED BY <1>1, <1>4

LEMMA TurnEnds ==
    ASSUME TypesInv, TurnsInv, pubq # <<>>, pubq' = Tail(pubq)
    PROVE  /\ pubq' \in Seq(Turners) /\ Once(pubq')
           /\ Elems(pubq') = Behind(pubq) /\ Elems(pubq') = Elems(pubq) \ {Head(pubq)}
           /\ Head(pubq) \in Elems(pubq)
BY TailElems, TailOnce DEF TypesInv, TurnsInv

LEMMA TurnComes ==
    ASSUME TypesInv, TurnsInv, NEW x \in Turners \ Elems(pubq), pubq' = Append(pubq, x)
    PROVE  /\ pubq' \in Seq(Turners) /\ Once(pubq') /\ pubq' # <<>>
           /\ Elems(pubq') = Elems(pubq) \cup {x}
           /\ pubq # <<>> => Head(pubq') = Head(pubq)
BY AppendElems, AppendOnce DEF TypesInv, TurnsInv

\* A turn of the lane or of a catalogue publish ends.
LEMMA TurnAnswered ==
    ASSUME TypesInv, TurnsInv, ToldInv, RunInv,
           pubq # <<>>, Head(pubq) \in {"lane", "catalogue"},
           NEW result \in {"sent", "already", "notReady", "blocked", "pending", "failed"},
           Answers(result), UNCHANGED <<step, input>>, lane' = lane
    PROVE  /\ pubq' \in Seq(Turners) /\ turn' = NoTurn
           /\ Elems(pubq') = Elems(pubq) \ {Head(pubq)}
           /\ \/ /\ Head(pubq) = "lane" /\ run.at = "sent" /\ steps' = steps
                 /\ run' = [run EXCEPT !.at = "done", !.result = result]
              \/ /\ Head(pubq) = "catalogue" /\ run' = run
                 /\ \/ result # "sent" /\ steps' = steps
                    \/ result = "sent" /\ steps' = Append(steps, Step("sitePublished"))
           /\ run' \in Publishes /\ steps' \in Seq(StepCalls)
           /\ TurnsInv' /\ ToldInv' /\ RunInv'
<1>1. /\ pubq' \in Seq(Turners) /\ Once(pubq') /\ turn' = NoTurn /\ turn'.at = "idle"
      /\ Elems(pubq') = Elems(pubq) \ {Head(pubq)} /\ Head(pubq) \in Elems(pubq)
  BY TurnEnds DEF Answers, NoTurn
<1>2. CASE Head(pubq) = "lane"
  <2>1. run.at = "sent" /\ steps' = steps /\ run' = [run EXCEPT !.at = "done", !.result = result]
    BY <1>1, <1>2 DEF Answers, TurnsInv
  <2>2. run' \in Publishes /\ run'.at = "done"
    BY <2>1 DEF TypesInv, Publishes
  <2>3. TurnsInv'
    BY <1>1, <1>2, <2>2 DEF TurnsInv, InHand
  <2>4. ToldInv' /\ RunInv'
    BY <2>1, <2>2 DEF ToldInv, Told, RunInv
  <2> QED BY <1>1, <1>2, <2>1, <2>2, <2>3, <2>4 DEF TypesInv
<1>3. CASE Head(pubq) = "catalogue"
  <2>1. /\ run' = run
        /\ \/ result # "sent" /\ steps' = steps
           \/ result = "sent" /\ steps' = Append(steps, Step("sitePublished"))
    BY <1>3 DEF Answers
  <2>2. Step("sitePublished") \in StepCalls /\ Step("sitePublished").op \notin Notices
    BY StepType DEF Ops, Notices
  <2>3. steps' \in Seq(StepCalls) /\ ToldInv'
    <3>1. CASE steps' = steps
      BY <3>1 DEF ToldInv, Told, TypesInv
    <3>2. CASE steps' = Append(steps, Step("sitePublished"))
      BY <2>2, <3>2, Queues
    <3> QED BY <2>1, <3>1, <3>2
  <2>4. TurnsInv' /\ RunInv'
    BY <1>1, <1>3, <2>1 DEF TurnsInv, InHand, RunInv
  <2> QED BY <1>1, <1>3, <2>1, <2>3, <2>4 DEF TypesInv
<1> QED BY <1>2, <1>3

\* A step asks for keys.
LEMMA AsksKeys ==
    ASSUME TypesInv, TurnsInv, ToldInv, NEW l \in Lanes, NEW now \in BOOLEAN,
           AskKeys(l, now), steps # <<>>, step.at = "idle", run' = run
    PROVE  /\ lane' = l /\ UNCHANGED <<steps, input, turn>>
           /\ step' \in StepPlaces /\ step'.at = "keys"
           /\ step'.counts = l.counts /\ step'.items = l.items
           /\ pubq' \in Seq(Turners) /\ Elems(pubq') = Elems(pubq) \cup {"keys"}
           /\ pubq # <<>> => Head(pubq') = Head(pubq)
           /\ TurnsInv' /\ ToldInv'
<1>1. "keys" \in Turners \ Elems(pubq) /\ pubq' = Append(pubq, "keys")
  BY DEF AskKeys, TurnsInv, Turners
<1>2. /\ pubq' \in Seq(Turners) /\ Once(pubq') /\ pubq' # <<>>
      /\ Elems(pubq') = Elems(pubq) \cup {"keys"}
      /\ pubq # <<>> => Head(pubq') = Head(pubq)
  BY <1>1, TurnComes
<1>3. /\ lane' = l /\ UNCHANGED <<steps, input, turn>>
      /\ step' \in StepPlaces /\ step'.at = "keys"
      /\ step'.counts = l.counts /\ step'.items = l.items
  BY DEF AskKeys, StepPlaces, Lanes
<1>4. TurnsInv' /\ ToldInv'
  BY <1>2, <1>3 DEF TurnsInv, InHand, ToldInv, Told
<1> QED BY <1>2, <1>3, <1>4

\* The keys are there, or cannot be made, and the step ends.
LEMMA KeysOutcome ==
    ASSUME TypesInv, TurnsInv, ToldInv, KeysMade \/ NoKeys
    PROVE  /\ UNCHANGED <<phone, world, run, turn>> /\ steps # <<>> /\ step.at = "keys"
           /\ pubq # <<>> /\ Head(pubq) = "keys" /\ run.at # "done"
           /\ pubq' = Tail(pubq) /\ pubq' \in Seq(Turners)
           /\ Elems(pubq') = Elems(pubq) \ {"keys"} /\ Finish
           /\ lane' \in Lanes /\ SameInputs(lane', lane) /\ lane'.running = lane.running
           /\ StillTimed(lane', lane)
           /\ TurnsInv'
<1>1. /\ Keys
      /\ lane' \in {[lane EXCEPT !.status = "notReady"], Scheduled(lane),
                    Scheduled([lane EXCEPT !.status = "notReady"]),
                    Settled([lane EXCEPT !.status = "notReady"], mem),
                    [lane EXCEPT !.status = IF host THEN "upToDate" ELSE "notReady"],
                    Scheduled([lane EXCEPT !.waiting = FALSE])}
  BY DEF KeysMade, NoKeys, Recomputed
<1>2. /\ UNCHANGED <<phone, world, run, turn>> /\ Finish
      /\ pubq # <<>> /\ Head(pubq) = "keys" /\ pubq' = Tail(pubq) /\ run.at # "done"
  BY <1>1 DEF Keys
<1>3. /\ pubq' \in Seq(Turners) /\ Once(pubq') /\ "keys" \in Elems(pubq)
      /\ Elems(pubq') = Elems(pubq) \ {"keys"}
  BY <1>2, TurnEnds
<1>4. step.at = "keys" /\ steps # <<>>
  BY <1>3 DEF TurnsInv, ToldInv
<1>5. /\ lane' \in Lanes /\ SameInputs(lane', lane) /\ lane'.running = lane.running
      /\ StillTimed(lane', lane)
  <2> DEFINE w == [lane EXCEPT !.waiting = FALSE]
             n == [lane EXCEPT !.status = "notReady"]
             Fine(k) == /\ k \in Lanes /\ SameInputs(k, lane)
                        /\ k.running = lane.running /\ StillTimed(k, lane)
  <2>1. lane \in Lanes /\ host \in BOOLEAN
    BY DEF TypesInv
  <2>2. w \in Lanes /\ SameInputs(w, lane) /\ w.running = lane.running /\ w.timer = lane.timer
    BY <2>1 DEF Lanes, SameInputs
  <2>3. Fine(Scheduled(lane))
    BY <2>1, LaneFields
  <2>4. Fine(Scheduled(w))
    <3>1. /\ Scheduled(w) \in Lanes /\ SameInputs(Scheduled(w), w)
          /\ Scheduled(w).running = w.running /\ StillTimed(Scheduled(w), w)
      <4> HIDE DEF w
      <4> QED BY <2>1, <2>2, LaneFields
    <3> QED BY <2>2, <3>1 DEF SameInputs, StillTimed
  <2>5. n \in Lanes /\ SameInputs(n, lane) /\ n.running = lane.running /\ n.timer = lane.timer
    BY <2>1 DEF Lanes, SameInputs
  <2>k. Fine(n) /\ Fine(Scheduled(n)) /\ Fine(Settled(n, mem))
    <3>1. \A k \in {Scheduled(n), Settled(n, mem)} :
            /\ k \in Lanes /\ SameInputs(k, n) /\ k.running = n.running /\ StillTimed(k, n)
      <4> HIDE DEF n
      <4> QED BY <2>1, <2>5, LaneFields
    <3> QED BY <2>5, <3>1 DEF SameInputs, StillTimed
  <2>6. Fine([lane EXCEPT !.status = IF host THEN "upToDate" ELSE "notReady"])
    BY <2>1 DEF Lanes, SameInputs, StillTimed
  <2> HIDE DEF w, n, Fine
  <2>7. Fine(lane')
    BY <1>1, <2>3, <2>4, <2>k, <2>6 DEF w, n
  <2> QED BY <2>7 DEF Fine
<1>6. TurnsInv'
  <2>1. step'.at = "idle"
    BY <1>2 DEF Finish, NoStep
  <2>2. ~InHand /\ turn.at # "reset"
    BY <1>2 DEF TurnsInv
  <2>3. turn'.at = turn.at /\ run'.at = run.at
    BY <1>2
  <2> QED BY <1>2, <1>3, <2>1, <2>2, <2>3 DEF TurnsInv, InHand
<1> QED BY <1>2, <1>3, <1>4, <1>5, <1>6

-----------------------------------------------------------------------------
(* Types and bounds                                                         *)

LEMMA FailsAdds ==
    ASSUME NEW f, Fails(f)
    PROVE  faults' = faults \cup {f} /\ f \in Faults /\ faults' # faults
BY DEF Fails

LEMMA RememberFails ==
    ASSUME NEW a, NEW b, Remember(a, b)
    PROVE  \/ faults' = faults
           \/ faults' = faults \cup {"store"} /\ "store" \in Faults
BY FailsAdds DEF Remember

\* At most one thing fails in a step, and moves are not made by the rest.
LEMMA FaultsGrow ==
    ASSUME TypesInv, Next
    PROVE  /\ faults' = faults \/ \E f \in Faults : faults' = faults \cup {f}
           /\ moves' = moves \/ User
<1>1. CASE Notifier
  BY <1>1, FailsAdds
  DEF Notifier, ReadInputs, InputsRead, LibraryNotified, phone, memory, machine
<1>2. CASE LaneStep
  <2>1. moves' = moves
    BY <1>2, StepOutcome
  <2>2. CASE StepStart
    BY <2>1, <2>2, FailsAdds DEF StepStart
  <2>3. CASE StepReplaced
    BY <2>1, <2>3, RememberFails DEF StepReplaced, memory
  <2>4. CASE StepUpdate \/ StepResumed \/ StepSitePublished \/ StepNow \/ StepFollowUp
    BY <2>1, <2>4 DEF StepUpdate, StepResumed, StepSitePublished, StepNow, StepFollowUp, memory
  <2> QED BY <1>2, <2>2, <2>3, <2>4 DEF LaneStep
<1>3. CASE KeysMade \/ NoKeys
  <2>1. moves' = moves
    BY <1>3 DEF KeysMade, NoKeys, Keys, phone
  <2> QED BY <1>3, <2>1, FailsAdds, RememberFails DEF KeysMade, NoKeys, Recomputed, memory
<1>4. CASE TimerFires \/ SessionEnds \/ LaneBegins \/ CatalogueBegins \/ Lands
  BY <1>4
  DEF TimerFires, SessionEnds, LaneBegins, CatalogueBegins, Lands, phone, memory, machine
<1>5. CASE Outcomes
  <2>1. moves' = moves
    BY <1>5
    DEF Outcomes, Written, Removed, StaleRemoved, Refused, Postponed, Outcome, phone
  <2> QED BY <1>5, <2>1, RememberFails
      DEF Outcomes, Written, Removed, StaleRemoved, Refused, Postponed, memory
<1>6. CASE NotSent \/ Accepted \/ AnswerLost \/ ResetKeys \/ SwitchLibrary \/ OtherWriter \/ Crash
  BY <1>6, FailsAdds
  DEF NotSent, Accepted, AnswerLost, ResetKeys, SwitchLibrary, OtherWriter, Crash, phone, memory
<1>7. CASE User
  BY <1>7
  DEF User, Lend, Unlock, Lock, EditItem, Switch, ChangeHost, Press, Publish, Restore,
      memory, machine
<1> QED BY <1>1, <1>2, <1>3, <1>4, <1>5, <1>6, <1>7 DEF Next, Lane, LaneStep, Queue

LEMMA FaultsCounted ==
    ASSUME faults \subseteq Faults
    PROVE  Cardinality(faults) \in Nat
<1>1. IsFiniteSet({})
  BY FS_EmptySet
<1>2. IsFiniteSet({"net", "lost", "save"})
  <2>1. IsFiniteSet({} \cup {"net"})
    BY <1>1, FS_AddElement
  <2>2. IsFiniteSet(({} \cup {"net"}) \cup {"lost"})
    BY <2>1, FS_AddElement
  <2>3. IsFiniteSet((({} \cup {"net"}) \cup {"lost"}) \cup {"save"})
    BY <2>2, FS_AddElement
  <2>4. (({} \cup {"net"}) \cup {"lost"}) \cup {"save"} = {"net", "lost", "save"}
    OBVIOUS
  <2> QED BY <2>3, <2>4
<1>3. IsFiniteSet({"store", "damage", "read"})
  <2>1. IsFiniteSet({} \cup {"store"})
    BY <1>1, FS_AddElement
  <2>2. IsFiniteSet(({} \cup {"store"}) \cup {"damage"})
    BY <2>1, FS_AddElement
  <2>3. IsFiniteSet((({} \cup {"store"}) \cup {"damage"}) \cup {"read"})
    BY <2>2, FS_AddElement
  <2>4. (({} \cup {"store"}) \cup {"damage"}) \cup {"read"} = {"store", "damage", "read"}
    OBVIOUS
  <2> QED BY <2>3, <2>4
<1>4. IsFiniteSet({"salt", "other", "crash"})
  <2>1. IsFiniteSet({} \cup {"salt"})
    BY <1>1, FS_AddElement
  <2>2. IsFiniteSet(({} \cup {"salt"}) \cup {"other"})
    BY <2>1, FS_AddElement
  <2>3. IsFiniteSet((({} \cup {"salt"}) \cup {"other"}) \cup {"crash"})
    BY <2>2, FS_AddElement
  <2>4. (({} \cup {"salt"}) \cup {"other"}) \cup {"crash"} = {"salt", "other", "crash"}
    OBVIOUS
  <2> QED BY <2>3, <2>4
<1>5. IsFiniteSet(({"net", "lost", "save"} \cup {"store", "damage", "read"})
                    \cup {"salt", "other", "crash"})
  <2>1. IsFiniteSet({"net", "lost", "save"} \cup {"store", "damage", "read"})
    BY <1>2, <1>3, FS_Union
  <2> QED BY <2>1, <1>4, FS_Union
<1>6. faults \subseteq ({"net", "lost", "save"} \cup {"store", "damage", "read"})
                         \cup {"salt", "other", "crash"}
  BY LaneAssumption
<1>7. IsFiniteSet(faults)
  BY <1>5, <1>6, FS_Subset
<1> QED BY <1>7, FS_CardinalityType

LEMMA MoveCounts ==
    ASSUME BoundInv, User
    PROVE  moves' = moves + 1 /\ moves' \in Nat /\ moves' <= MaxEvents
<1>1. More /\ moves' = moves + 1
  BY DEF User, Lend, Unlock, Lock, EditItem, Switch, ChangeHost, Press, Publish, Restore, Move
<1>2. Cardinality(faults) \in Nat /\ moves \in Nat /\ MaxEvents \in Nat
  BY FaultsCounted, LaneAssumption DEF BoundInv
<1> QED BY <1>1, <1>2 DEF More

\* Who comes to the publish queue, and that only a restore changes the id.
LEMMA RestoresKept ==
    ASSUME TypesInv, BoundInv, TurnsInv, ToldInv, RunInv, Next
    PROVE  /\ library' \in [id: Nat, lent: BOOLEAN, copies: 1 .. 2]
           /\ \/ /\ library'.id = library.id
                 /\ "restore" \in Elems(pubq') => "restore" \in Elems(pubq) \/ Restore
              \/ /\ SwitchLibrary /\ library'.id = library.id + 1
                 /\ "restore" \in Elems(pubq) /\ "restore" \notin Elems(pubq')
<1> DEFINE Id == library'.id = library.id
           Same == library' = library
           Kept1 == "restore" \in Elems(pubq') => "restore" \in Elems(pubq)
<1>l. library \in [id: Nat, lent: BOOLEAN, copies: 1 .. 2] /\ pubq \in Seq(Turners)
  BY DEF TypesInv, Libraries, Ids
<1>p. pubq' = pubq => Kept1
  BY DEF Elems
<1>t. ASSUME pubq # <<>>, pubq' = Tail(pubq) PROVE Kept1
  BY <1>t, TurnEnds
<1>1. CASE Notifier
  BY <1>1, <1>l, <1>p
  DEF Notifier, ReadInputs, InputsRead, LibraryNotified, phone, machine, queue
<1>2. CASE LaneStep
  <2>1. Same
    BY <1>2, StepOutcome
  <2>2. PICK l \in Lanes : \/ \E now \in BOOLEAN : AskKeys(l, now)
                           \/ UNCHANGED queue
    BY <1>2, StepOutcome
  <2>3. Kept1
    <3>1. CASE UNCHANGED queue
      BY <1>p, <3>1 DEF queue
    <3>2. CASE \E now \in BOOLEAN : AskKeys(l, now)
      <4>1. pubq' = Append(pubq, "keys")
        BY <3>2 DEF AskKeys
      <4> QED BY <1>l, <4>1, AppendElems DEF Turners
    <3> QED BY <2>2, <3>1, <3>2
  <2> QED BY <1>l, <2>1, <2>3
<1>3. CASE KeysMade \/ NoKeys
  BY <1>3, <1>l, <1>t DEF KeysMade, NoKeys, Keys, phone
<1>4. CASE TimerFires
  <2>1. Same /\ (pubq' = pubq \/ pubq' = Append(pubq, "lane"))
    BY <1>4 DEF TimerFires, phone
  <2>2. CASE pubq' = Append(pubq, "lane")
    <3>1. Kept1
      BY <1>l, <2>2, AppendElems DEF Turners
    <3> QED BY <1>l, <2>1, <3>1
  <2> QED BY <1>l, <1>p, <2>1, <2>2
<1>5. CASE Outcomes \/ Lands \/ OtherWriter
  BY <1>5, <1>l, <1>p
  DEF Outcomes, Written, Removed, StaleRemoved, Refused, Postponed, Outcome, phone, queue,
      Lands, OtherWriter
<1>6. CASE LaneBegins \/ CatalogueBegins
  <2>1. Same /\ pubq # <<>> /\ (pubq' = pubq \/ pubq' = Tail(pubq))
    BY <1>6 DEF LaneBegins, CatalogueBegins, Turn, Answers, Plan, PlanFile, phone
  <2> QED BY <1>l, <1>p, <1>t, <2>1
<1>7. CASE NotSent \/ Accepted \/ AnswerLost
  <2>1. Same /\ pubq # <<>> /\ pubq' = Tail(pubq)
    BY <1>7 DEF NotSent, Accepted, AnswerLost, Answers, phone, TurnsInv, InHand
  <2> QED BY <1>l, <1>t, <2>1
<1>8. CASE ResetKeys
  <2>1. Same /\ pubq # <<>> /\ (pubq' = pubq \/ pubq' = Tail(pubq))
    BY <1>8 DEF ResetKeys, Turn, phone
  <2> QED BY <1>l, <1>p, <1>t, <2>1
<1>9. CASE SwitchLibrary
  <2>1. /\ pubq # <<>> /\ Head(pubq) = "restore" /\ pubq' = Tail(pubq)
        /\ \E lent \in BOOLEAN :
             library' = [id |-> library.id + 1, lent |-> lent, copies |-> 1]
    BY <1>9 DEF SwitchLibrary, Turn
  <2>2. "restore" \in Elems(pubq) /\ "restore" \notin Elems(pubq')
    BY <2>1, TurnEnds
  <2>3. library' \in [id: Nat, lent: BOOLEAN, copies: 1 .. 2] /\ library'.id = library.id + 1
    BY <1>l, <2>1
  <2> QED BY <1>9, <2>2, <2>3
<1>10. CASE SessionEnds
  BY <1>10, <1>l, <1>p DEF SessionEnds, machine, queue
<1>11. CASE User
  <2>1. CASE Lend \/ EditItem
    <3>1. pubq' = pubq /\ Id /\ library' \in [id: Nat, lent: BOOLEAN, copies: 1 .. 2]
      <4>1. pubq' = pubq
        BY <2>1 DEF Lend, EditItem, machine, queue
      <4> DEFINE b == ~library.lent
                 c == 3 - library.copies
      <4>2. b \in BOOLEAN /\ c \in 1 .. 2
        <5>1. b \in BOOLEAN
          OBVIOUS
        <5>2. c \in 1 .. 2
          BY <1>l
        <5> QED BY <5>1, <5>2
      <4>3. library' = [library EXCEPT !.lent = b] \/ library' = [library EXCEPT !.copies = c]
        BY <2>1 DEF Lend, EditItem
      <4> HIDE DEF b, c
      <4> QED BY <1>l, <4>1, <4>2, <4>3
    <3> QED BY <1>p, <3>1
  <2>2. CASE Unlock \/ Lock \/ Switch \/ ChangeHost \/ Press
    BY <1>l, <1>p, <2>2 DEF Unlock, Lock, Switch, ChangeHost, Press, machine, queue
  <2>3. CASE Publish
    <3>1. Same /\ pubq' = Append(pubq, "catalogue")
      BY <2>3 DEF Publish
    <3>2. Kept1
      BY <1>l, <3>1, AppendElems DEF Turners
    <3> QED BY <1>l, <3>1, <3>2
  <2>4. CASE Restore
    BY <1>l, <2>4 DEF Restore
  <2> QED BY <1>11, <2>1, <2>2, <2>3, <2>4 DEF User
<1>12. CASE Crash
  BY <1>12, <1>l, EmptyElems DEF Crash
<1> QED BY <1>1, <1>2, <1>3, <1>4, <1>5, <1>6, <1>7, <1>8, <1>9, <1>10, <1>11, <1>12
    DEF Next, Lane, LaneStep, Queue

LEMMA BoundSafe ==
    ASSUME TypesInv, BoundInv, TurnsInv, ToldInv, RunInv, Next
    PROVE  BoundInv' /\ library' \in Libraries
<1>1. faults' \subseteq Faults
  BY FaultsGrow DEF BoundInv
<1>2. moves' \in Nat /\ moves' <= MaxEvents /\ (moves' = moves \/ moves' = moves + 1)
  BY FaultsGrow, MoveCounts DEF BoundInv
<1>3. moves \in Nat /\ library.id \in Nat
  BY DEF BoundInv, TypesInv, Libraries, Ids
<1>4. Restore => "restore" \notin Elems(pubq) /\ moves' = moves + 1
  BY InElems, MoveCounts DEF Restore, VaultFree, User
<1>5. /\ library'.id >= 1
      /\ library'.id + (IF "restore" \in Elems(pubq') THEN 1 ELSE 0) <= moves' + 1
  BY <1>2, <1>3, <1>4, RestoresKept DEF BoundInv
<1>6. library'.id \in Nat /\ library'.id <= MaxEvents + 1
  BY <1>2, <1>5, RestoresKept, LaneAssumption
<1>7. library' \in Libraries
  BY <1>6, RestoresKept, LaneAssumption DEF Libraries, Ids
<1> QED BY <1>1, <1>2, <1>5, <1>7 DEF BoundInv

LEMMA PhoneTyped ==
    ASSUME TypesInv, Next
    PROVE  /\ shown' \in Counts \cup {NONE} /\ on' \in BOOLEAN /\ host' \in BOOLEAN
           /\ outlived' \in BOOLEAN
<1> USE DEF TypesInv
<1>o. ASSUME NEW l, SetsOutlive(l) PROVE outlived' \in BOOLEAN
  BY <1>o DEF SetsOutlive
<1>1. CASE Notifier
  BY <1>1 DEF Notifier, ReadInputs, InputsRead, LibraryNotified, phone
<1>2. CASE LaneStep
  <2>1. UNCHANGED <<shown, on, host>>
    BY <1>2, StepOutcome
  <2>2. outlived' \in BOOLEAN
    <3>1. CASE StepReplaced
      BY <1>o, <3>1 DEF StepReplaced
    <3>2. CASE ~StepReplaced
      BY <1>2, <3>2
      DEF LaneStep, StepStart, StepUpdate, StepResumed, StepSitePublished, StepNow,
          StepFollowUp, phone
    <3> QED BY <3>1, <3>2
  <2> QED BY <2>1, <2>2
<1>3. CASE KeysMade \/ NoKeys \/ TimerFires \/ Outcomes
  BY <1>3
  DEF KeysMade, NoKeys, Keys, TimerFires, Outcomes, Written, Removed, StaleRemoved,
      Refused, Postponed, Outcome, phone
<1>4. CASE Queue
  BY <1>4
  DEF Queue, LaneBegins, CatalogueBegins, Lands, NotSent, Accepted, AnswerLost, ResetKeys,
      SwitchLibrary, phone
<1>5. CASE SessionEnds \/ OtherWriter \/ Crash
  BY <1>5 DEF SessionEnds, OtherWriter, Crash, phone
<1>6. CASE User
  <2>1. CASE Lend \/ Unlock
    <3>1. shown' \in Counts
      <4>1. CASE Lend
        <5>1. shown' = [id |-> library'.id, lent |-> library'.lent]
          BY <4>1 DEF Lend, CountsOf
        <5> DEFINE b == ~library.lent
        <5>2. library' = [library EXCEPT !.lent = b] /\ b \in BOOLEAN
          BY <4>1 DEF Lend
        <5> HIDE DEF b
        <5> QED BY <5>1, <5>2 DEF Libraries, Counts
      <4>2. CASE Unlock
        BY <4>2, OfLibraryType DEF Unlock
      <4> QED BY <2>1, <4>1, <4>2
    <3> QED BY <2>1, <3>1 DEF Lend, Unlock
  <2>2. CASE Lock \/ EditItem \/ Switch \/ ChangeHost \/ Press \/ Publish \/ Restore
    <3>1. CASE Switch
      BY <3>1 DEF Switch
    <3>2. CASE ChangeHost
      BY <3>2 DEF ChangeHost
    <3>3. CASE Lock \/ EditItem \/ Press \/ Publish \/ Restore
      BY <3>3 DEF Lock, EditItem, Press, Publish, Restore
    <3> QED BY <2>2, <3>1, <3>2, <3>3
  <2> QED BY <1>6, <2>1, <2>2 DEF User
<1> QED BY <1>1, <1>2, <1>3, <1>4, <1>5, <1>6 DEF Next, Lane, LaneStep

LEMMA MemoryTyped ==
    ASSUME TypesInv, TurnsInv, ToldInv, Next
    PROVE  mem' \in Memories /\ store' \in Memories
<1>0. mem \in Memories /\ store \in Memories
  BY DEF TypesInv
<1>1. CASE Notifier
  BY <1>1, <1>0
  DEF Notifier, ReadInputs, InputsRead, LibraryNotified, memory, machine
<1>2. CASE StepStart
  BY <1>2, <1>0, Initials, MemoryType DEF StepStart
<1>3. CASE StepReplaced
  BY <1>3, <1>0, MemoryType, RememberType DEF StepReplaced, memory
<1>4. CASE StepUpdate \/ StepResumed \/ StepSitePublished \/ StepNow \/ StepFollowUp
  BY <1>4, <1>0
  DEF StepUpdate, StepResumed, StepSitePublished, StepNow, StepFollowUp, memory
<1>5. CASE KeysMade
  <2> DEFINE s == Snapshot(step.counts, step.items)
  <2>1. UNCHANGED memory \/ Remember(Kept(mem, s), Kept(store, s))
    BY <1>5 DEF KeysMade, Recomputed
  <2>2. step.counts \in Counts /\ step.items \in Items
    BY <1>5, KeysOutcome DEF TypesInv
  <2>3. s \in Sets
    BY <2>2, SnapshotType
  <2> HIDE DEF s
  <2>4. Kept(mem, s) \in Memories /\ Kept(store, s) \in Memories
    BY <1>0, <2>3, MemoryType
  <2> QED BY <1>0, <2>1, <2>4, RememberType DEF memory
<1>6. CASE NoKeys \/ TimerFires
  BY <1>6, <1>0 DEF NoKeys, TimerFires, memory
<1>7. CASE Outcomes
  <2>1. run.update \in Sets \cup {NONE}
    BY DEF TypesInv, Publishes
  <2>2. \A s \in Sets \cup {NONE} : /\ Recorded(mem, s) \in Memories
                                  /\ Recorded(store, s) \in Memories
    BY <1>0, MemoryType
  <2>3. /\ Unpublished(mem) \in Memories /\ Unpublished(store) \in Memories
        /\ Cleared(mem) \in Memories /\ Cleared(store) \in Memories
    BY <1>0, MemoryType
  <2> QED BY <1>7, <1>0, <2>1, <2>2, <2>3, RememberType
      DEF Outcomes, Written, Removed, StaleRemoved, Refused, Postponed, memory
<1>8. CASE LaneBegins \/ CatalogueBegins \/ Lands \/ NotSent \/ Accepted \/ AnswerLost
             \/ SwitchLibrary \/ OtherWriter
  BY <1>8, <1>0
  DEF LaneBegins, CatalogueBegins, Lands, NotSent, Accepted, AnswerLost, SwitchLibrary,
      OtherWriter, memory
<1>9. CASE ResetKeys
  <2>1. [Cleared(store) EXCEPT !.known = TRUE] \in Memories
    BY <1>0, MemoryType
  <2> QED BY <1>9, <1>0, <2>1 DEF ResetKeys
<1>10. CASE SessionEnds
  BY <1>10, <1>0 DEF SessionEnds, machine, memory
<1>11. CASE User
  BY <1>11, <1>0
  DEF User, Lend, Unlock, Lock, EditItem, Switch, ChangeHost, Press, Publish, Restore,
      machine, memory
<1>12. CASE Crash
  BY <1>12, <1>0, Initials DEF Crash
<1> QED BY <1>1, <1>2, <1>3, <1>4, <1>5, <1>6, <1>7, <1>8, <1>9, <1>10, <1>11, <1>12
    DEF Next, Lane, Queue

LEMMA ToldSafe ==
    ASSUME TypesInv, TurnsInv, ToldInv, RunInv, Next
    PROVE  /\ steps' \in Seq(StepCalls) /\ input' \in Inputs /\ step' \in StepPlaces
           /\ step'.at = "keys" => step'.counts \in Counts /\ step'.items \in Items
           /\ ToldInv'
<1> DEFINE Typed == /\ steps' \in Seq(StepCalls) /\ input' \in Inputs /\ step' \in StepPlaces
                    /\ step'.at = "keys" => step'.counts \in Counts /\ step'.items \in Items
<1>0. /\ steps \in Seq(StepCalls) /\ input \in Inputs /\ step \in StepPlaces
      /\ step.at = "keys" => step.counts \in Counts /\ step.items \in Items
      /\ input.queue \in Seq(Notices)
  BY DEF TypesInv, Inputs
<1>s. ASSUME UNCHANGED <<steps, step, input>> PROVE Typed /\ ToldInv'
  BY <1>0, <1>s DEF ToldInv, Told
<1>i. ASSUME UNCHANGED <<steps, step>>, input' \in Inputs, input'.queue = input.queue,
             input'.at = input.at
      PROVE  Typed /\ ToldInv'
  BY <1>0, <1>i DEF ToldInv, Told
<1>f. ASSUME NEW what \in Notices, UNCHANGED <<steps, step>>,
             NEW b \in BOOLEAN, NEW d \in BOOLEAN, NEW e \in Items \cup {NONE},
             input' = [input EXCEPT !.queue = Append(@, what), !.stale = b, !.dirty = d,
                                    !.late = e]
      PROVE  Typed /\ ToldInv'
  <2>1. input'.queue = Append(input.queue, what) /\ input'.at = input.at
    BY <1>0, <1>f DEF Inputs
  <2>2. input'.queue \in Seq(Notices) /\ ToldInv'
    BY <1>f, <2>1, Asks
  <2>3. input' \in Inputs
    BY <1>0, <1>f, <2>1, <2>2 DEF Inputs
  <2> QED BY <1>0, <1>f, <2>2, <2>3
<1>q. ASSUME NEW op \in Ops \ Notices, steps' = Append(steps, Step(op)),
             UNCHANGED <<step, input>>
      PROVE  Typed /\ ToldInv'
  BY <1>0, <1>q, StepType, Queues
<1>k. ASSUME steps # <<>>, Finish PROVE Typed /\ ToldInv'
  <2>1. /\ steps' \in Seq(StepCalls) /\ input' \in Inputs /\ step' = NoStep /\ ToldInv'
    BY <1>k, FinishEnds
  <2>2. NoStep \in StepPlaces /\ NoStep.at = "idle"
    BY Initials DEF NoStep
  <2> QED BY <2>1, <2>2
<1>a. ASSUME pubq # <<>>, Head(pubq) \in {"lane", "catalogue"}, UNCHANGED <<step, input, lane>>,
             NEW result \in {"sent", "already", "notReady", "blocked", "pending", "failed"},
             Answers(result)
      PROVE  Typed /\ ToldInv'
  BY <1>0, <1>a, TurnAnswered
<1>t. ASSUME input.queue # <<>>, input.at # "applying", step' = step,
             NEW c \in Counts \cup {NONE}, NEW x \in Items \cup {NONE},
             steps' = Append(steps, [Step(Head(input.queue)) EXCEPT !.counts = c, !.items = x]),
             input' \in Inputs, input'.queue = input.queue, input'.at = "applying"
      PROVE  Typed /\ ToldInv'
  <2> DEFINE r == [Step(Head(input.queue)) EXCEPT !.counts = c, !.items = x]
  <2>1. Head(input.queue) \in Ops
    BY <1>0, <1>t, TailElems DEF Ops
  <2>2. r \in StepCalls /\ r.op = Head(input.queue)
    <3>1. Step(Head(input.queue)) \in StepCalls /\ Step(Head(input.queue)).op = Head(input.queue)
      BY <2>1, StepType
    <3> QED BY <1>t, <3>1 DEF StepCalls
  <2> HIDE DEF r
  <2>3. steps' = Append(steps, r)
    BY <1>t DEF r
  <2>4. steps' \in Seq(StepCalls) /\ ToldInv'
    BY <1>t, <2>2, <2>3, Tells
  <2> QED BY <1>0, <1>t, <2>4
<1> SUFFICES Typed /\ ToldInv'
  OBVIOUS
<1> HIDE DEF Typed
<1>n. shown \in Counts \cup {NONE} /\ library \in Libraries
  BY DEF TypesInv
<1>1. CASE ReadInputs
  <2>1. input.queue # <<>> /\ input.at = "idle" /\ step' = step
    BY <1>1 DEF ReadInputs
  <2>2. CASE shown # NONE /\ input.stale
    <3>1. /\ input' = [input EXCEPT !.at = "reading", !.counts = shown, !.stale = FALSE]
          /\ UNCHANGED <<steps, step>>
      BY <1>1, <2>2 DEF ReadInputs
    <3>2. input' \in Inputs /\ input'.at = "reading" /\ input'.queue = input.queue
      BY <1>0, <1>n, <3>1 DEF Inputs
    <3>3. ToldInv'
      BY <1>0, <2>1, <3>1, <3>2 DEF ToldInv, Told
    <3> QED BY <1>0, <3>1, <3>2, <3>3 DEF Typed
  <2>3. CASE ~(shown # NONE /\ input.stale)
    <3>1. /\ input' = [input EXCEPT !.at = "applying"]
          /\ steps' = Append(steps, [Step(Head(input.queue)) EXCEPT
                                        !.counts = shown, !.items = input.items])
      BY <1>1, <2>3 DEF ReadInputs
    <3>2. /\ input' \in Inputs /\ input'.queue = input.queue /\ input'.at = "applying"
          /\ input.items \in Items \cup {NONE}
      BY <1>0, <3>1 DEF Inputs
    <3> QED BY <1>n, <1>t, <2>1, <3>1, <3>2
  <2> QED BY <2>2, <2>3
<1>2. CASE InputsRead
  <2>1. PICK items \in {ItemsOf(library), input.late, NONE} :
          /\ input' = [input EXCEPT !.at = "applying", !.items = items, !.counts = NONE,
                                    !.stale = items = NONE, !.late = NONE]
          /\ steps' = Append(steps, [Step(Head(input.queue)) EXCEPT
                                       !.counts = input.counts, !.items = items])
    BY <1>2 DEF InputsRead
  <2>2. input.at = "reading" /\ input.queue # <<>> /\ step' = step
    BY <1>2 DEF InputsRead, ToldInv
  <2>3. items \in Items \cup {NONE} /\ input.counts \in Counts \cup {NONE}
    BY <1>0, <1>n, <2>1, OfLibraryType DEF Inputs
  <2>4. input' \in Inputs /\ input'.queue = input.queue /\ input'.at = "applying"
    BY <1>0, <2>1, <2>3 DEF Inputs
  <2> QED BY <1>t, <2>1, <2>2, <2>3, <2>4
<1>3. CASE LibraryNotified
  <2>1. /\ UNCHANGED <<steps, step>> /\ "update" \in Notices
        /\ input.late \in Items \cup {NONE}
        /\ input' = [input EXCEPT !.queue = Append(@, "update"), !.stale = TRUE, !.dirty = FALSE,
                                  !.late = input.late]
    BY <1>0, <1>3 DEF LibraryNotified, Forward, machine, Notices, Inputs
  <2> QED BY <2>1, <1>f
<1>4. CASE LaneStep
  <2>1. steps # <<>> /\ step.at = "idle" /\ run' = run
    BY <1>4, StepOutcome
  <2>2. PICK l \in Lanes : \/ Known(l) /\ \E now \in BOOLEAN : AskKeys(l, now)
                           \/ Finish
    BY <1>4, StepOutcome
  <2>3. CASE Finish
    BY <1>k, <2>1, <2>3
  <2>4. CASE Known(l) /\ \E now \in BOOLEAN : AskKeys(l, now)
    <3>1. PICK now \in BOOLEAN : AskKeys(l, now)
      BY <2>4
    <3>2. /\ UNCHANGED <<steps, input>> /\ step' \in StepPlaces
          /\ step'.counts = l.counts /\ step'.items = l.items /\ ToldInv'
      BY <2>1, <3>1, AsksKeys
    <3>3. l.counts \in Counts /\ l.items \in Items
      BY <2>4 DEF Known, Lanes
    <3> QED BY <1>0, <3>2, <3>3 DEF Typed
  <2> QED BY <2>2, <2>3, <2>4
<1>5. CASE KeysMade \/ NoKeys
  BY <1>5, <1>k, KeysOutcome
<1>6. CASE TimerFires
  <2>1. /\ UNCHANGED <<step, input>> /\ "followUp" \in Ops \ Notices
        /\ steps' = steps \/ steps' = Append(steps, Step("followUp"))
    BY <1>6 DEF TimerFires, FollowUp, Ops, Notices
  <2> QED BY <1>s, <1>q, <2>1
<1>7. CASE Outcomes
  <2>1. /\ UNCHANGED <<step, input>> /\ "followUp" \in Ops \ Notices
        /\ steps' = Append(steps, Step("followUp"))
    BY <1>7
    DEF Outcomes, Written, Removed, StaleRemoved, Refused, Postponed, Outcome, FollowUp, Ops,
        Notices
  <2> QED BY <1>q, <2>1
<1>8. CASE LaneBegins
  <2>1. /\ pubq # <<>> /\ Head(pubq) = "lane" /\ UNCHANGED <<step, input, lane>>
        /\ steps' = steps \/ Answers("blocked") \/ Answers("already") \/ Answers("notReady")
    BY <1>8 DEF LaneBegins, Turn
  <2> QED BY <1>s, <1>a, <2>1
<1>9. CASE CatalogueBegins
  <2>1. /\ pubq # <<>> /\ Head(pubq) = "catalogue" /\ UNCHANGED <<step, input, lane>>
        /\ steps' = steps \/ Answers("failed")
    BY <1>9 DEF CatalogueBegins, Turn
  <2> QED BY <1>s, <1>a, <2>1
<1>10. CASE NotSent \/ Accepted \/ AnswerLost
  <2>1. /\ pubq # <<>> /\ Head(pubq) \in {"lane", "catalogue"}
        /\ UNCHANGED <<step, input, lane>>
        /\ Answers("pending") \/ Answers("sent")
    BY <1>10 DEF NotSent, Accepted, AnswerLost, TurnsInv, InHand
  <2> QED BY <1>a, <2>1
<1>11. CASE Lands \/ ResetKeys \/ OtherWriter
  <2>1. UNCHANGED <<steps, step, input>>
    BY <1>11 DEF Lands, ResetKeys, OtherWriter, notifier
  <2> QED BY <1>s, <2>1
<1>12. CASE SwitchLibrary
  <2> DEFINE e == IF input.at = "reading" /\ input.late = NONE THEN ItemsOf(library) ELSE input.late
  <2>1. /\ UNCHANGED <<steps, step>> /\ "replaced" \in Notices
        /\ input' = [input EXCEPT !.queue = Append(@, "replaced"), !.stale = TRUE, !.dirty = TRUE,
                                  !.late = e]
    BY <1>0, <1>12 DEF SwitchLibrary, Forward, Notices, Inputs
  <2>2. e \in Items \cup {NONE}
    BY <1>0, <1>n, OfLibraryType DEF Inputs
  <2> HIDE DEF e
  <2> QED BY <2>1, <2>2, <1>f
<1>13. CASE SessionEnds \/ Lend \/ Unlock \/ Lock \/ Switch
  <2>1. /\ UNCHANGED <<steps, step>> /\ "update" \in Notices
        /\ input' = [input EXCEPT !.queue = Append(@, "update")]
    BY <1>13 DEF SessionEnds, Lend, Unlock, Lock, Switch, Forward, machine, Notices
  <2>2. /\ input.stale \in BOOLEAN /\ input.dirty \in BOOLEAN /\ input.late \in Items \cup {NONE}
        /\ input' = [input EXCEPT !.queue = Append(@, "update"), !.stale = input.stale,
                                  !.dirty = input.dirty, !.late = input.late]
    BY <1>0, <2>1 DEF Inputs
  <2> QED BY <1>f, <2>1, <2>2
<1>14. CASE EditItem
  <2>1. UNCHANGED <<steps, step>> /\ input' = [input EXCEPT !.dirty = TRUE]
    BY <1>14 DEF EditItem, machine
  <2>2. input' \in Inputs /\ input'.queue = input.queue /\ input'.at = input.at
    BY <1>0, <2>1 DEF Inputs
  <2> QED BY <1>i, <2>1, <2>2
<1>15. CASE Press
  <2>1. /\ UNCHANGED <<step, input>> /\ {"resumed", "now"} \subseteq Ops \ Notices
        /\ \/ steps' = Append(steps, Step("resumed"))
           \/ steps' = Append(steps, Step("now"))
    BY <1>15 DEF Press, Ops, Notices
  <2> QED BY <1>q, <2>1
<1>16. CASE ChangeHost \/ Publish \/ Restore
  <2>1. UNCHANGED <<steps, step, input>>
    BY <1>16 DEF ChangeHost, Publish, Restore, notifier
  <2> QED BY <1>s, <2>1
<1>17. CASE Crash
  <2>1. input' = NoInput /\ steps' = <<>> /\ step' = NoStep
    BY <1>17 DEF Crash
  <2>2. input'.at = "idle" /\ step'.at = "idle"
    BY <2>1 DEF NoInput, NoStep
  <2>3. ToldInv'
    BY <2>1, <2>2, EmptyElems DEF ToldInv, Told, OneNotice
  <2> QED BY <2>1, <2>2, <2>3, Initials DEF Typed
<1> QED
  BY <1>1, <1>2, <1>3, <1>4, <1>5, <1>6, <1>7, <1>8, <1>9, <1>10, <1>11, <1>12, <1>13, <1>14,
     <1>15, <1>16, <1>17
  DEF Next, Notifier, Lane, LaneStep, Queue, User

LEMMA ReconciledType ==
    ASSUME TypesInv
    PROVE  /\ Reconciled \in Records /\ Reconciled.books = site.books
           /\ Reconciled.file = IF record.file = NONE THEN NONE ELSE site.file
           /\ Reconciled.keyed = (record.keyed /\ record.books = site.books)
<1> DEFINE f == IF record.file = NONE THEN NONE ELSE site.file
           k == record.keyed /\ record.books = site.books
<1>1. f \in Sets \cup {NONE} /\ k \in BOOLEAN /\ site.books \in [id: Ids, n: Nat]
  BY DEF TypesInv, Sites, Records
<1>2. Reconciled = [books |-> site.books, file |-> f, keyed |-> k]
  BY DEF Reconciled
<1> HIDE DEF f, k
<1>3. /\ Reconciled \in Records /\ Reconciled.books = site.books
      /\ Reconciled.file = f /\ Reconciled.keyed = k
  BY <1>1, <1>2 DEF Records
<1> QED BY <1>3 DEF f, k

LEMMA PlanTyped ==
    ASSUME TypesInv, NEW s \in Sites, NEW r \in Records, Plan(s, r)
    PROVE  /\ turn' \in Turns /\ turn'.at = "planned" /\ turn'.seen = site
           /\ turn'.site = s /\ turn'.record = r /\ InHand' /\ pubq' = pubq
           /\ turn'.seen \in Sites /\ turn'.site \in Sites /\ turn'.record \in Records
BY DEF TypesInv, Plan, Turns, InHand

\* A turn of the lane plans nothing but another file, or none.
LEMMA LanePlans ==
    ASSUME TypesInv, NEW f \in Sets \cup {NONE}, PlanFile(f)
    PROVE  /\ turn' \in Turns /\ turn'.at = "planned" /\ turn'.seen = site
           /\ turn'.site = [site EXCEPT !.file = f]
           /\ turn'.record = [Reconciled EXCEPT !.file = f]
           /\ InHand' /\ pubq' = pubq
           /\ turn'.seen \in Sites /\ turn'.site \in Sites /\ turn'.record \in Records
<1>1. [site EXCEPT !.file = f] \in Sites
  BY DEF TypesInv, Sites
<1>2. [Reconciled EXCEPT !.file = f] \in Records
  BY ReconciledType DEF Records
<1> QED BY <1>1, <1>2, PlanTyped DEF PlanFile

\* What a catalogue publish plans for availability.json.
CatalogueFile(old) ==
    CASE FileOfCatalogue = "fresh" -> Snapshot(shown, ItemsOf(library))
      [] FileOfCatalogue = "removed" -> NONE
      [] OTHER -> old

LEMMA CataloguePlans ==
    ASSUME TypesInv, CatalogueBegins, host
    PROVE  /\ turn' \in Turns /\ turn'.at = "planned" /\ turn'.seen = site
           /\ turn'.site.books = [id |-> library.id, n |-> site.books.n + 1]
           /\ turn'.site.file = CatalogueFile(site.file)
           /\ turn'.record.books = turn'.site.books /\ turn'.record.keyed
           /\ turn'.record.file = CatalogueFile(Reconciled.file)
           /\ InHand' /\ pubq' = pubq /\ UNCHANGED <<run, steps>>
           /\ turn'.seen \in Sites /\ turn'.site \in Sites /\ turn'.record \in Records
<1> DEFINE books == [id |-> library.id, n |-> site.books.n + 1]
           s == [books |-> books, file |-> CatalogueFile(site.file)]
           r == [books |-> books, file |-> CatalogueFile(Reconciled.file), keyed |-> TRUE]
<1>1. Plan(s, r) /\ UNCHANGED <<run, steps>>
  BY DEF CatalogueBegins, CatalogueFile
<1>2. \A old \in Sets \cup {NONE} : CatalogueFile(old) \in Sets \cup {NONE}
  <2>1. FileOfCatalogue = "fresh" => shown # NONE
    BY DEF FileOfCatalogue
  <2>2. FileOfCatalogue = "fresh" => Snapshot(shown, ItemsOf(library)) \in Sets
    BY <2>1, SnapshotType, OfLibraryType DEF TypesInv
  <2> QED BY <2>2 DEF CatalogueFile
<1>3. site.file \in Sets \cup {NONE} /\ Reconciled.file \in Sets \cup {NONE}
  BY ReconciledType DEF TypesInv, Sites, Records
<1>4. books \in [id: Ids, n: Nat]
  BY DEF TypesInv, Sites, Libraries
<1>5. s \in Sites /\ r \in Records
  <2> HIDE DEF books
  <2> QED BY <1>2, <1>3, <1>4 DEF Sites, Records
<1>6. /\ s.books = books /\ s.file = CatalogueFile(site.file) /\ r.books = books /\ r.keyed
      /\ r.file = CatalogueFile(Reconciled.file)
  OBVIOUS
<1> HIDE DEF s, r, books
<1>7. /\ turn' \in Turns /\ turn'.at = "planned" /\ turn'.seen = site
      /\ turn'.site = s /\ turn'.record = r /\ InHand' /\ pubq' = pubq
      /\ turn'.seen \in Sites /\ turn'.site \in Sites /\ turn'.record \in Records
  BY <1>1, <1>5, PlanTyped
<1> QED BY <1>1, <1>6, <1>7 DEF books

LEMMA TurnsSafe ==
    ASSUME TypesInv, TurnsInv, ToldInv, RunInv, Next
    PROVE  /\ pubq' \in Seq(Turners) /\ turn' \in Turns
           /\ InHand' => turn'.seen \in Sites /\ turn'.site \in Sites /\ turn'.record \in Records
           /\ TurnsInv'
<1> DEFINE Typed ==
      /\ pubq' \in Seq(Turners) /\ turn' \in Turns
      /\ InHand' => turn'.seen \in Sites /\ turn'.site \in Sites /\ turn'.record \in Records
<1> SUFFICES Typed /\ TurnsInv'
  OBVIOUS
<1>0. /\ pubq \in Seq(Turners) /\ turn \in Turns
      /\ InHand => turn.seen \in Sites /\ turn.site \in Sites /\ turn.record \in Records
  BY DEF TypesInv
<1>s. ASSUME UNCHANGED <<pubq, turn>>, step'.at = step.at, run'.at = "sent" <=> run.at = "sent"
      PROVE  Typed /\ TurnsInv'
  BY <1>0, <1>s DEF TurnsInv, InHand
<1>n. NoTurn \in Turns /\ NoTurn.at = "idle"
  BY Initials DEF NoTurn
<1>a. ASSUME pubq # <<>>, Head(pubq) \in {"lane", "catalogue"}, UNCHANGED <<step, input, lane>>,
             NEW result \in {"sent", "already", "notReady", "blocked", "pending", "failed"},
             Answers(result)
      PROVE  Typed /\ TurnsInv'
  <2>1. pubq' \in Seq(Turners) /\ turn' = NoTurn /\ TurnsInv'
    BY <1>a, TurnAnswered
  <2> QED BY <1>n, <2>1 DEF InHand
<1>p. ASSUME pubq # <<>>, Head(pubq) \in {"lane", "catalogue"}, turn' \in Turns,
             turn'.at = "planned", pubq' = pubq, step' = step, run'.at = run.at,
             turn'.seen \in Sites /\ turn'.site \in Sites /\ turn'.record \in Records
      PROVE  Typed /\ TurnsInv'
  BY <1>0, <1>p DEF TurnsInv, InHand
<1>e. ASSUME pubq # <<>>, Head(pubq) = "restore", pubq' = Tail(pubq), turn' = NoTurn,
             UNCHANGED <<step, run>>
      PROVE  Typed /\ TurnsInv'
  <2>1. /\ pubq' \in Seq(Turners) /\ Once(pubq') /\ Elems(pubq') = Elems(pubq) \ {"restore"}
    BY <1>e, TurnEnds
  <2>2. TurnsInv'
    BY <1>e, <1>n, <2>1 DEF TurnsInv, InHand
  <2> QED BY <1>e, <1>n, <2>1, <2>2 DEF InHand
<1>c. ASSUME NEW x \in {"catalogue", "restore"}, x \notin Elems(pubq), pubq' = Append(pubq, x),
             UNCHANGED <<turn, step, run>>
      PROVE  Typed /\ TurnsInv'
  <2>1. x \in Turners \ Elems(pubq)
    BY <1>c DEF Turners
  <2>2. /\ pubq' \in Seq(Turners) /\ Once(pubq') /\ pubq' # <<>>
        /\ Elems(pubq') = Elems(pubq) \cup {x}
        /\ pubq # <<>> => Head(pubq') = Head(pubq)
    BY <1>c, <2>1, TurnComes
  <2>3. TurnsInv'
    BY <1>c, <2>2 DEF TurnsInv, InHand
  <2> QED BY <1>0, <1>c, <2>2, <2>3 DEF InHand
<1> HIDE DEF Typed
<1>1. CASE Notifier \/ SessionEnds
  <2>1. UNCHANGED <<pubq, turn, step, run>>
    BY <1>1
    DEF Notifier, ReadInputs, InputsRead, LibraryNotified, SessionEnds, machine, queue
  <2> QED BY <1>s, <2>1
<1>2. CASE LaneStep
  <2>1. steps # <<>> /\ step.at = "idle" /\ run' = run
    BY <1>2, StepOutcome
  <2>2. PICK l \in Lanes : \/ \E now \in BOOLEAN : AskKeys(l, now)
                           \/ Finish /\ UNCHANGED queue
    BY <1>2, StepOutcome
  <2>3. CASE Finish /\ UNCHANGED queue
    <3>1. UNCHANGED <<pubq, turn>> /\ step' = NoStep /\ NoStep.at = "idle"
      BY <2>3 DEF Finish, queue, NoStep
    <3> QED BY <1>s, <2>1, <3>1
  <2>4. CASE \E now \in BOOLEAN : AskKeys(l, now)
    <3>1. PICK now \in BOOLEAN : AskKeys(l, now)
      BY <2>4
    <3>2. pubq' \in Seq(Turners) /\ turn' = turn /\ TurnsInv'
      BY <2>1, <3>1, AsksKeys
    <3> QED BY <1>0, <3>2 DEF Typed, InHand
  <2> QED BY <2>2, <2>3, <2>4
<1>3. CASE KeysMade \/ NoKeys
  <2>1. pubq' \in Seq(Turners) /\ turn' = turn /\ TurnsInv'
    BY <1>3, KeysOutcome
  <2> QED BY <1>0, <2>1 DEF Typed, InHand
<1>4. CASE TimerFires
  <2>1. UNCHANGED <<turn, step>> /\ lane.timer /\ run.at = "idle"
    BY <1>4 DEF TimerFires, RunInv
  <2>2. CASE UNCHANGED <<run, pubq>>
    BY <1>s, <2>1, <2>2
  <2>3. CASE run'.at = "sent" /\ pubq' = Append(pubq, "lane")
    <3>1. "lane" \in Turners \ Elems(pubq)
      BY <2>1 DEF TurnsInv, Turners
    <3>2. /\ pubq' \in Seq(Turners) /\ Once(pubq') /\ pubq' # <<>>
          /\ Elems(pubq') = Elems(pubq) \cup {"lane"}
          /\ pubq # <<>> => Head(pubq') = Head(pubq)
      BY <2>3, <3>1, TurnComes
    <3>3. TurnsInv'
      BY <2>1, <2>3, <3>2 DEF TurnsInv, InHand
    <3> QED BY <1>0, <2>1, <3>2, <3>3 DEF Typed, InHand
  <2> QED BY <1>4, <2>2, <2>3 DEF TimerFires, NoRun
<1>5. CASE Outcomes
  <2>1. UNCHANGED <<pubq, turn, step>> /\ run.at = "done" /\ run' = NoRun /\ NoRun.at = "idle"
    BY <1>5
    DEF Outcomes, Written, Removed, StaleRemoved, Refused, Postponed, Outcome, Done, queue, NoRun
  <2> QED BY <1>s, <2>1
<1>6. CASE LaneBegins
  <2>1. pubq # <<>> /\ Head(pubq) = "lane" /\ UNCHANGED <<step, input, lane>>
    BY <1>6 DEF LaneBegins, Turn
  <2>2. CASE Answers("blocked") \/ Answers("already") \/ Answers("notReady")
    BY <1>a, <2>1, <2>2
  <2>3. CASE \E f \in Sets \cup {NONE} : PlanFile(f) /\ run'.at = run.at
    BY <1>p, <2>1, <2>3, LanePlans
  <2>4. \/ Answers("blocked") \/ Answers("already") \/ Answers("notReady")
        \/ PlanFile(NONE) /\ run'.at = run.at
        \/ PlanFile(run.update) /\ run'.at = run.at
    BY <1>6 DEF LaneBegins, TypesInv, Publishes
  <2> QED BY <2>2, <2>3, <2>4 DEF TypesInv, Publishes
<1>7. CASE CatalogueBegins
  <2>1. pubq # <<>> /\ Head(pubq) = "catalogue" /\ UNCHANGED <<step, input, lane>>
    BY <1>7 DEF CatalogueBegins, Turn
  <2>2. CASE ~host
    BY <1>7, <1>a, <2>1, <2>2 DEF CatalogueBegins
  <2>3. CASE host
    <3>1. /\ turn' \in Turns /\ turn'.at = "planned" /\ pubq' = pubq /\ run' = run
          /\ turn'.seen \in Sites /\ turn'.site \in Sites /\ turn'.record \in Records
      BY <1>7, <2>3, CataloguePlans
    <3> QED BY <1>p, <2>1, <3>1
  <2> QED BY <2>2, <2>3
<1>8. CASE Lands
  <2>1. /\ turn.at = "planned" /\ turn' = [turn EXCEPT !.at = "landed"]
        /\ UNCHANGED <<pubq, step, run>>
    BY <1>8 DEF Lands, notifier
  <2>2. /\ turn' \in Turns /\ turn'.at = "landed" /\ turn'.seen = turn.seen
        /\ turn'.site = turn.site /\ turn'.record = turn.record
    BY <1>0, <2>1 DEF Turns
  <2>3. TurnsInv'
    BY <2>1, <2>2 DEF TurnsInv, InHand
  <2> QED BY <1>0, <2>1, <2>2, <2>3 DEF Typed, InHand
<1>9. CASE NotSent \/ Accepted \/ AnswerLost
  <2>1. /\ pubq # <<>> /\ Head(pubq) \in {"lane", "catalogue"}
        /\ UNCHANGED <<step, input, lane>>
        /\ Answers("pending") \/ Answers("sent")
    BY <1>9 DEF NotSent, Accepted, AnswerLost, TurnsInv, InHand
  <2> QED BY <1>a, <2>1
<1>10. CASE ResetKeys
  <2>1. pubq # <<>> /\ Head(pubq) = "restore" /\ UNCHANGED <<step, run>>
    BY <1>10 DEF ResetKeys, Turn, notifier
  <2>2. CASE turn' = [NoTurn EXCEPT !.at = "reset"] /\ pubq' = pubq
    <3>1. turn' \in Turns /\ turn'.at = "reset"
      BY <1>n, <2>2 DEF Turns
    <3>2. TurnsInv'
      BY <2>1, <2>2, <3>1 DEF TurnsInv, InHand
    <3> QED BY <1>0, <2>2, <3>1, <3>2 DEF Typed, InHand
  <2>3. CASE pubq' = Tail(pubq) /\ turn' = turn
    <3>1. turn.at = "idle"
      BY <1>10 DEF ResetKeys, Turn
    <3>2. /\ pubq' \in Seq(Turners) /\ Once(pubq') /\ Elems(pubq') = Elems(pubq) \ {"restore"}
      BY <2>1, <2>3, TurnEnds
    <3>3. TurnsInv'
      BY <2>1, <2>3, <3>1, <3>2 DEF TurnsInv, InHand
    <3> QED BY <1>0, <2>3, <3>1, <3>2, <3>3 DEF Typed, InHand
  <2> QED BY <1>10, <2>2, <2>3 DEF ResetKeys
<1>11. CASE SwitchLibrary
  <2>1. /\ pubq # <<>> /\ Head(pubq) = "restore" /\ pubq' = Tail(pubq) /\ turn' = NoTurn
        /\ UNCHANGED <<step, run>>
    BY <1>11 DEF SwitchLibrary, Turn
  <2> QED BY <1>e, <2>1
<1>12. CASE User
  <2>1. CASE Publish
    <3>1. /\ "catalogue" \notin Elems(pubq) /\ pubq' = Append(pubq, "catalogue")
          /\ UNCHANGED <<turn, step, run>>
      BY <2>1, InElems DEF Publish, notifier
    <3> QED BY <1>c, <3>1
  <2>2. CASE Restore
    <3>1. /\ "restore" \notin Elems(pubq) /\ pubq' = Append(pubq, "restore")
          /\ UNCHANGED <<turn, step, run>>
      BY <2>2, InElems DEF Restore, VaultFree, notifier
    <3> QED BY <1>c, <3>1
  <2>3. CASE Lend \/ Unlock \/ Lock \/ EditItem \/ Switch \/ ChangeHost \/ Press
    <3>1. UNCHANGED <<pubq, turn, step, run>>
      BY <2>3
      DEF Lend, Unlock, Lock, EditItem, Switch, ChangeHost, Press, machine, queue, notifier
    <3> QED BY <1>s, <3>1
  <2> QED BY <1>12, <2>1, <2>2, <2>3 DEF User
<1>13. CASE OtherWriter
  <2>1. UNCHANGED <<pubq, turn, step, run>>
    BY <1>13 DEF OtherWriter, queue, notifier
  <2> QED BY <1>s, <2>1
<1>14. CASE Crash
  <2>1. /\ pubq' = <<>> /\ turn' = NoTurn /\ step' = NoStep /\ run' = NoRun
        /\ NoStep.at = "idle" /\ NoRun.at = "idle"
    BY <1>14 DEF Crash, NoStep, NoRun
  <2>2. TurnsInv'
    BY <1>n, <2>1, EmptyElems DEF TurnsInv, InHand
  <2> QED BY <1>n, <2>1, <2>2 DEF Typed, InHand
<1> QED
  BY <1>1, <1>2, <1>3, <1>4, <1>5, <1>6, <1>7, <1>8, <1>9, <1>10, <1>11, <1>12, <1>13, <1>14
  DEF Next, Lane, LaneStep, Queue

LEMMA RunSafe ==
    ASSUME TypesInv, TurnsInv, ToldInv, RunInv, Next
    PROVE  run' \in Publishes /\ lane' \in Lanes /\ RunInv'
<1>0. run \in Publishes /\ lane \in Lanes /\ host \in BOOLEAN
  BY DEF TypesInv
<1>s. ASSUME UNCHANGED <<run, lane>> PROVE run' \in Publishes /\ lane' \in Lanes /\ RunInv'
  BY <1>0, <1>s DEF RunInv
<1>l. ASSUME run' = run, lane' \in Lanes, lane'.running = lane.running, StillTimed(lane', lane)
      PROVE  run' \in Publishes /\ lane' \in Lanes /\ RunInv'
  BY <1>0, <1>l DEF RunInv, StillTimed
<1>a. ASSUME pubq # <<>>, Head(pubq) \in {"lane", "catalogue"}, UNCHANGED <<step, input, lane>>,
             NEW result \in {"sent", "already", "notReady", "blocked", "pending", "failed"},
             Answers(result)
      PROVE  run' \in Publishes /\ lane' \in Lanes /\ RunInv'
  BY <1>0, <1>a, TurnAnswered
<1>1. CASE Notifier \/ SessionEnds \/ User \/ OtherWriter
  <2>1. UNCHANGED <<run, lane>>
    BY <1>1
    DEF Notifier, ReadInputs, InputsRead, LibraryNotified, SessionEnds, User, Lend, Unlock, Lock,
        EditItem, Switch, ChangeHost, Press, Publish, Restore, OtherWriter, machine
  <2> QED BY <1>s, <2>1
<1>2. CASE LaneStep
  <2>1. run' = run
    BY <1>2, StepOutcome
  <2>2. PICK l \in Lanes :
          /\ l.running = lane.running /\ (l.timer => lane.timer)
          /\ \/ \E now \in BOOLEAN : AskKeys(l, now)
             \/ lane' \in Lanes /\ lane'.running = l.running /\ StillTimed(lane', l)
    BY <1>2, StepOutcome
  <2>3. CASE \E now \in BOOLEAN : AskKeys(l, now)
    <3>1. lane' = l
      BY <2>3 DEF AskKeys
    <3> QED BY <1>l, <2>1, <2>2, <3>1 DEF StillTimed
  <2>4. CASE lane' \in Lanes /\ lane'.running = l.running /\ StillTimed(lane', l)
    BY <1>l, <2>1, <2>2, <2>4 DEF StillTimed
  <2> QED BY <2>2, <2>3, <2>4
<1>3. CASE KeysMade \/ NoKeys
  <2>1. /\ run' = run /\ lane' \in Lanes /\ lane'.running = lane.running
        /\ StillTimed(lane', lane)
    BY <1>3, KeysOutcome
  <2> QED BY <1>l, <2>1
<1>4. CASE TimerFires
  <2>1. lane.timer /\ run.at = "idle" /\ ~lane.running
    BY <1>4 DEF TimerFires, RunInv
  <2>2. CASE lane' = Settled([lane EXCEPT !.timer = FALSE], mem) /\ run' = run
    <3> DEFINE l == [lane EXCEPT !.timer = FALSE]
    <3>1. l \in Lanes /\ l.running = lane.running /\ ~l.timer
      BY <1>0 DEF Lanes
    <3> HIDE DEF l
    <3>2. /\ Settled(l, mem) \in Lanes /\ Settled(l, mem).running = l.running
          /\ StillTimed(Settled(l, mem), l)
      BY <1>0, <3>1, LaneFields
    <3>3. lane' = Settled(l, mem)
      BY <2>2 DEF l
    <3>4. StillTimed(lane', lane)
      BY <3>1, <3>2, <3>3 DEF StillTimed
    <3> QED BY <1>l, <2>2, <3>1, <3>2, <3>3, <3>4
  <2>3. CASE /\ lane' = [lane EXCEPT !.timer = FALSE, !.running = TRUE, !.status = "busy"]
             /\ run' = [NoRun EXCEPT !.at = "sent",
                          !.update = IF lane.enabled THEN mem.pending ELSE NONE]
    <3>1. lane' \in Lanes /\ lane'.running /\ ~lane'.timer
      BY <1>0, <2>3 DEF Lanes
    <3>2. mem.pending \in Sets \cup {NONE}
      BY DEF TypesInv, Memories
    <3>3. run' \in Publishes /\ run'.at = "sent"
      BY <2>3, <3>2, Initials DEF Publishes
    <3> QED BY <3>1, <3>3 DEF RunInv
  <2> QED BY <1>4, <2>2, <2>3 DEF TimerFires
<1>5. CASE Outcomes
  <2>1. /\ run.at = "done" /\ run' = NoRun /\ NoRun \in Publishes /\ NoRun.at = "idle"
    BY <1>5, Initials
    DEF Outcomes, Written, Removed, StaleRemoved, Refused, Postponed, Outcome, Done, NoRun
  <2>2. lane.running /\ ~lane.timer
    BY <2>1 DEF RunInv
  <2>3. lane' \in Lanes /\ ~lane'.running /\ ~lane'.timer
    <3>1. CASE Written
      BY <1>0, <2>2, <3>1 DEF Written, Outcome, Lanes
    <3>2. CASE Removed
      BY <1>0, <2>2, <3>2 DEF Removed, Outcome, Lanes
    <3>3. CASE StaleRemoved
      BY <1>0, <2>2, <3>3 DEF StaleRemoved, Outcome, Lanes
    <3>4. CASE Refused
      <4> DEFINE w == lane.waiting \/ run.result = "notReady"
      <4>1. lane' = [[lane EXCEPT !.waiting = w, !.status = "notReady"] EXCEPT !.running = FALSE]
        BY <3>4 DEF Refused, Outcome
      <4>2. w \in BOOLEAN
        OBVIOUS
      <4> HIDE DEF w
      <4> QED BY <1>0, <2>2, <4>1, <4>2 DEF Lanes
    <3>5. CASE Postponed
      <4> DEFINE w == lane.waiting /\ ~run.gate
      <4>1. lane' = [[lane EXCEPT !.waiting = w, !.status = "busy"] EXCEPT !.running = FALSE]
        BY <3>5 DEF Postponed, Outcome
      <4>2. w \in BOOLEAN
        OBVIOUS
      <4> HIDE DEF w
      <4> QED BY <1>0, <2>2, <4>1, <4>2 DEF Lanes
    <3> QED BY <1>5, <3>1, <3>2, <3>3, <3>4, <3>5 DEF Outcomes
  <2> QED BY <2>1, <2>3 DEF RunInv
<1>6. CASE LaneBegins
  <2>1. pubq # <<>> /\ Head(pubq) = "lane" /\ UNCHANGED <<step, input, lane>>
    BY <1>6 DEF LaneBegins, Turn
  <2>2. CASE Answers("blocked") \/ Answers("already") \/ Answers("notReady")
    BY <1>a, <2>1, <2>2
  <2>3. CASE run' = run \/ run' = [run EXCEPT !.gate = TRUE]
    <3>1. run' \in Publishes /\ run'.at = run.at
      BY <1>0, <2>3 DEF Publishes
    <3> QED BY <1>0, <2>1, <3>1 DEF RunInv
  <2> QED BY <1>6, <2>2, <2>3 DEF LaneBegins
<1>7. CASE CatalogueBegins
  <2>1. pubq # <<>> /\ Head(pubq) = "catalogue" /\ UNCHANGED <<step, input, lane, run>>
    BY <1>7 DEF CatalogueBegins, Turn
  <2> QED BY <1>s, <2>1
<1>8. CASE NotSent \/ Accepted \/ AnswerLost
  <2>1. /\ pubq # <<>> /\ Head(pubq) \in {"lane", "catalogue"}
        /\ UNCHANGED <<step, input, lane>>
        /\ Answers("pending") \/ Answers("sent")
    BY <1>8 DEF NotSent, Accepted, AnswerLost, TurnsInv, InHand
  <2> QED BY <1>a, <2>1
<1>9. CASE Lands \/ ResetKeys \/ SwitchLibrary
  <2>1. UNCHANGED <<run, lane>>
    BY <1>9 DEF Lands, ResetKeys, SwitchLibrary
  <2> QED BY <1>s, <2>1
<1>10. CASE Crash
  BY <1>10, Initials DEF Crash, RunInv, NoRun, NoLane
<1> QED BY <1>1, <1>2, <1>3, <1>4, <1>5, <1>6, <1>7, <1>8, <1>9, <1>10
    DEF Next, Lane, LaneStep, Queue

LEMMA WorldTyped ==
    ASSUME TypesInv, TurnsInv, ToldInv, RunInv, Next
    PROVE  site' \in Sites /\ record' \in Records
<1>0. site \in Sites /\ record \in Records
  BY DEF TypesInv
<1>1. CASE LaneStep
  BY <1>0, <1>1, StepOutcome DEF world
<1>2. CASE Notifier \/ SessionEnds \/ User \/ Crash \/ KeysMade \/ NoKeys \/ TimerFires \/ Outcomes
  BY <1>0, <1>2
  DEF Notifier, ReadInputs, InputsRead, LibraryNotified, SessionEnds, User, Lend, Unlock, Lock,
      EditItem, Switch, ChangeHost, Press, Publish, Restore, Crash, KeysMade, NoKeys, Keys,
      TimerFires, Outcomes, Written, Removed, StaleRemoved, Refused, Postponed, Outcome,
      machine, world
<1>3. CASE LaneBegins \/ CatalogueBegins \/ NotSent \/ AnswerLost \/ SwitchLibrary
  BY <1>0, <1>3
  DEF LaneBegins, CatalogueBegins, NotSent, AnswerLost, SwitchLibrary, world
<1>4. CASE Lands
  BY <1>0, <1>4 DEF Lands, TypesInv, InHand
<1>5. CASE Accepted
  BY <1>0, <1>5 DEF Accepted, TypesInv, InHand
<1>6. CASE ResetKeys
  BY <1>0, <1>6 DEF ResetKeys, Records
<1>7. CASE OtherWriter
  <2> DEFINE b == [id |-> 0, n |-> site.books.n + 1]
  <2>1. b \in [id: Ids, n: Nat]
    BY <1>0, LaneAssumption DEF Sites, Ids
  <2>2. site' = [site EXCEPT !.books = b] /\ record' = record
    BY <1>0, <1>7 DEF OtherWriter, Sites
  <2> HIDE DEF b
  <2> QED BY <1>0, <2>1, <2>2 DEF Sites
<1> QED BY <1>1, <1>2, <1>3, <1>4, <1>5, <1>6, <1>7 DEF Next, Lane, LaneStep, Queue

LEMMA LaneInit == Init => LaneInv
<1> SUFFICES ASSUME Init PROVE LaneInv
  OBVIOUS
<1> USE LaneAssumption
<1>1. library \in Libraries /\ library.id = 1 /\ library.copies = 1
  BY DEF Init, Libraries, Ids
<1>2. PICK file \in {NONE} \cup IF on THEN {Snapshot(CountsOf(library), ItemsOf(library))}
                                ELSE {} :
        /\ site = [books |-> [id |-> 1, n |-> 0], file |-> file]
        /\ record = [books |-> site.books, file |-> file, keyed |-> TRUE]
        /\ store = [Nothing EXCEPT !.published = file]
  BY DEF Init
<1>3. file \in Sets \cup {NONE}
  BY <1>1, <1>2, SnapshotType, OfLibraryType
<1>4. [id |-> 1, n |-> 0] \in [id: Ids, n: Nat]
  BY DEF Ids
<1>5. site \in Sites /\ record \in Records
  BY <1>2, <1>3, <1>4 DEF Sites, Records
<1>6. store \in Memories
  BY <1>2, <1>3, Initials DEF Memories
<1>7. /\ shown \in Counts \cup {NONE} /\ on \in BOOLEAN /\ host \in BOOLEAN /\ outlived \in BOOLEAN
      /\ mem = Nothing /\ input = NoInput /\ lane = NoLane /\ steps = <<>> /\ step = NoStep
      /\ run = NoRun /\ pubq = <<>> /\ turn = NoTurn /\ moves = 0 /\ faults = {}
  BY DEF Init
<1>8. /\ input.at = "idle" /\ step.at = "idle" /\ run.at = "idle" /\ turn.at = "idle"
      /\ ~lane.running /\ ~lane.timer
  BY <1>7 DEF NoInput, NoStep, NoRun, NoTurn, NoLane
<1>9. TypesInv
  BY <1>1, <1>5, <1>6, <1>7, <1>8, Initials DEF TypesInv, InHand
<1>10. BoundInv
  BY <1>1, <1>7, EmptyElems DEF BoundInv
<1>11. TurnsInv /\ ToldInv /\ RunInv
  BY <1>7, <1>8, EmptyElems DEF TurnsInv, InHand, ToldInv, Told, OneNotice, RunInv
<1> QED BY <1>9, <1>10, <1>11 DEF LaneInv

LEMMA LaneSafe == LaneInv /\ [Next]_vars => LaneInv'
<1> SUFFICES ASSUME LaneInv, [Next]_vars PROVE LaneInv'
  OBVIOUS
<1>1. CASE Next
  <2>1. TypesInv'
    BY <1>1, BoundSafe, PhoneTyped, MemoryTyped, ToldSafe, TurnsSafe, RunSafe, WorldTyped
    DEF LaneInv, TypesInv
  <2> QED BY <1>1, <2>1, BoundSafe, ToldSafe, TurnsSafe, RunSafe DEF LaneInv
<1>2. CASE UNCHANGED vars
  <2>1. UNCHANGED <<library, shown, on, host, outlived, moves, mem, store, faults, site, record,
                    input, steps, step, pubq, turn, lane, run>>
    BY <1>2 DEF vars, phone, memory, world, notifier, queue
  <2>2. TypesInv' /\ BoundInv'
    BY <2>1 DEF LaneInv, TypesInv, InHand, BoundInv
  <2>3. TurnsInv' /\ ToldInv' /\ RunInv'
    BY <2>1 DEF LaneInv, TurnsInv, InHand, ToldInv, Told, OneNotice, RunInv
  <2> QED BY <2>2, <2>3 DEF LaneInv
<1> QED BY <1>1, <1>2

\* The type invariant of the lane, with what the queues say of the step and of
\* the publish in progress, for any number of moves and faults.
THEOREM TypesHold == Spec => []TypeOK
<1>1. LaneInv => TypeOK
  <2> SUFFICES ASSUME LaneInv PROVE TypeOK
    OBVIOUS
  <2>1. (InQueue("keys", pubq) <=> step.at = "keys") /\ (InQueue("lane", pubq) <=> run.at = "sent")
    BY InElems DEF LaneInv, TurnsInv
  <2>2. Told <=> \E i \in 1 .. Len(steps) : steps[i].op \in {"start", "update", "replaced"}
    BY DEF Told, Elems, Notices
  <2>3. /\ site.file \in Sets \cup {NONE} /\ record.file \in Sets \cup {NONE}
        /\ run.update \in Sets \cup {NONE}
    BY DEF LaneInv, TypesInv, Sites, Records, Publishes
  <2> QED BY <2>1, <2>2, <2>3 DEF LaneInv, TypesInv, ToldInv, RunInv, TypeOK, Lanes
<1> QED BY <1>1, LaneInit, LaneSafe, PTL DEF Spec

-----------------------------------------------------------------------------
(* What the lane knows of the loans and of the catalogue                    *)

\* Steps that the lane and the notifier take no part in, but for what they are
\* told at the end of the lane's queue, and steps that ask the notifier.
Aside == TimerFires \/ Outcomes \/ LaneBegins \/ CatalogueBegins \/ Lands \/ NotSent
           \/ Accepted \/ AnswerLost \/ ResetKeys \/ OtherWriter \/ Press \/ ChangeHost
           \/ Publish \/ Restore
Asking == SwitchLibrary \/ SessionEnds \/ Lend \/ Unlock \/ Lock \/ Switch \/ LibraryNotified

LEMMA NextCases ==
    Next <=> \/ ReadInputs \/ InputsRead \/ LaneStep \/ KeysMade \/ NoKeys
             \/ Aside \/ Asking \/ EditItem \/ Crash
BY DEF Next, Notifier, Lane, Queue, User, LaneStep, Aside, Asking

\* The notice that the lane works on, and whether no other is to come.
Begun == input.at = "applying" /\ step.at = "keys" /\ Head(steps).op \in Notices
Applied == input.at = "applying" => Begun
LastNotice == Behind(input.queue) = {} /\ (input.queue # <<>> => input.at # "idle")

LEMMA AsideSteps ==
    ASSUME LaneInv, Aside
    PROVE  /\ UNCHANGED <<library, shown, on, input, step, outlived>>
           /\ SameInputs(lane', lane)
           /\ \A r \in Elems(steps') : r.op \in Notices => r \in Elems(steps)
           /\ \A r \in Elems(steps) : r \in Elems(steps')
           /\ steps # <<>> => Head(steps') = Head(steps)
           /\ Begun' <=> Begun
<1> DEFINE Same == UNCHANGED <<library, shown, on, input, step, outlived>>
           Tell(op) == steps' = Append(steps, Step(op))
           Told1 == \/ steps' = steps
                    \/ Tell("followUp") \/ Tell("sitePublished") \/ Tell("resumed") \/ Tell("now")
<1> USE DEF LaneInv
<1>0. lane \in Lanes /\ host \in BOOLEAN /\ SameInputs(lane, lane)
  BY DEF TypesInv, SameInputs
<1>1. ASSUME TimerFires PROVE Same /\ SameInputs(lane', lane) /\ Told1
  <2> DEFINE l == [lane EXCEPT !.timer = FALSE]
  <2>1. Same /\ Told1
    BY <1>1 DEF TimerFires, FollowUp, phone
  <2>2. l \in Lanes /\ SameInputs(l, lane)
    BY <1>0 DEF Lanes, SameInputs
  <2>3. SameInputs(Settled(l, mem), l)
    <3> HIDE DEF l
    <3> QED BY <1>0, <2>2, LaneFields
  <2>4. CASE lane' = Settled(l, mem)
    BY <2>1, <2>2, <2>3, <2>4 DEF SameInputs
  <2>5. CASE lane' = [lane EXCEPT !.timer = FALSE, !.running = TRUE, !.status = "busy"]
    BY <1>0, <2>1, <2>5 DEF Lanes, SameInputs
  <2> QED BY <1>1, <2>4, <2>5 DEF TimerFires
<1>2. ASSUME Outcomes PROVE Same /\ SameInputs(lane', lane) /\ Told1
  <2>1. Same /\ Told1
    BY <1>2
    DEF Outcomes, Written, Removed, StaleRemoved, Refused, Postponed, Outcome, FollowUp, phone
  <2>2. SameInputs(lane', lane)
    BY <1>0, <1>2
    DEF Outcomes, Written, Removed, StaleRemoved, Refused, Postponed, Outcome, Lanes, SameInputs
  <2> QED BY <2>1, <2>2
<1>3. ASSUME LaneBegins \/ CatalogueBegins \/ Lands \/ NotSent \/ Accepted \/ AnswerLost
               \/ ResetKeys \/ OtherWriter
      PROVE  Same /\ lane' = lane /\ Told1
  <2>1. Same /\ lane' = lane
    BY <1>3
    DEF LaneBegins, CatalogueBegins, Lands, NotSent, Accepted, AnswerLost, ResetKeys,
        OtherWriter, phone, notifier
  <2>2. Told1
    <3>1. ASSUME NEW result, Answers(result) PROVE Told1
      BY <3>1 DEF Answers
    <3>2. CASE LaneBegins \/ CatalogueBegins
      BY <3>1, <3>2 DEF LaneBegins, CatalogueBegins
    <3>3. CASE Lands \/ ResetKeys \/ OtherWriter
      BY <3>3 DEF Lands, ResetKeys, OtherWriter, notifier
    <3>4. CASE NotSent \/ Accepted \/ AnswerLost
      BY <3>1, <3>4 DEF NotSent, Accepted, AnswerLost
    <3> QED BY <1>3, <3>2, <3>3, <3>4
  <2> QED BY <2>1, <2>2
<1>4. ASSUME Press \/ ChangeHost \/ Publish \/ Restore
      PROVE  Same /\ lane' = lane /\ Told1
  BY <1>4 DEF Press, ChangeHost, Publish, Restore, notifier
<1>5. Same /\ SameInputs(lane', lane) /\ Told1
  <2> HIDE DEF Same, Told1
  <2> QED BY <1>0, <1>1, <1>2, <1>3, <1>4 DEF Aside
<1>6. ASSUME NEW op \in {"followUp", "sitePublished", "resumed", "now"}, Tell(op)
      PROVE  /\ \A r \in Elems(steps') : r.op \in Notices => r \in Elems(steps)
             /\ \A r \in Elems(steps) : r \in Elems(steps')
             /\ steps # <<>> => Head(steps') = Head(steps)
  <2>1. Step(op) \in StepCalls /\ Step(op).op = op /\ op \notin Notices
    BY StepType DEF Ops, Notices
  <2>2. /\ Elems(steps') = Elems(steps) \cup {Step(op)}
        /\ steps # <<>> => Head(steps') = Head(steps)
    BY <1>6, <2>1, AppendElems DEF TypesInv
  <2> QED BY <2>1, <2>2
<1>7. /\ \A r \in Elems(steps') : r.op \in Notices => r \in Elems(steps)
      /\ \A r \in Elems(steps) : r \in Elems(steps')
      /\ steps # <<>> => Head(steps') = Head(steps)
  <2>1. CASE steps' = steps
    BY <2>1
  <2> HIDE DEF Tell
  <2>2. CASE steps' # steps
    BY <1>5, <1>6, <2>2 DEF Tell
  <2> QED BY <2>1, <2>2
<1>8. Begun' <=> Begun
  <2>1. step.at = "keys" => steps # <<>>
    BY DEF ToldInv
  <2> QED BY <1>5, <1>7, <2>1 DEF Begun
<1> QED BY <1>5, <1>7, <1>8

LEMMA AskingSteps ==
    ASSUME LaneInv, Asking
    PROVE  /\ UNCHANGED <<steps, step, lane, run, host, mem, store, faults, outlived, record, site>>
           /\ input' \in Inputs /\ input'.at = input.at /\ input'.items = input.items
           /\ input'.counts = input.counts
           /\ IF Lend \/ Unlock \/ Lock \/ Switch \/ SessionEnds
              THEN input'.stale = input.stale /\ input'.dirty = input.dirty
              ELSE input'.stale
           /\ Lend \/ SwitchLibrary \/ library' = library
           /\ Lend => library'.id = library.id /\ library'.copies = library.copies
           /\ SwitchLibrary => input'.dirty
           /\ (SwitchLibrary /\ input.at = "reading") \/ input'.late = input.late
           /\ LibraryNotified => input.late = NONE
           /\ \E what \in Notices :
                /\ what = "replaced" <=> SwitchLibrary
                /\ what = "update" <=> ~SwitchLibrary
                /\ Elems(input'.queue) = Elems(input.queue) \cup {what}
                /\ input.queue # <<>> => /\ Head(input'.queue) = Head(input.queue)
                                         /\ Behind(input'.queue) = Behind(input.queue) \cup {what}
                /\ input.queue = <<>> => /\ Head(input'.queue) = what
                                         /\ Behind(input'.queue) = {}
           /\ input'.queue # <<>> /\ ~LastNotice' /\ (Begun' <=> Begun)
<1> USE DEF LaneInv
<1>0. input \in Inputs
  BY DEF TypesInv
<1>1. UNCHANGED <<steps, step, lane, run, host, mem, store, faults, outlived, record, site>>
  BY DEF Asking, SwitchLibrary, SessionEnds, Lend, Unlock, Lock, Switch, LibraryNotified,
         phone, memory, world, machine
<1>2. CASE SwitchLibrary
  <2> DEFINE e == IF input.at = "reading" /\ input.late = NONE THEN ItemsOf(library) ELSE input.late
  <2>1. /\ input' = [input EXCEPT !.queue = Append(@, "replaced"), !.stale = TRUE, !.dirty = TRUE,
                                  !.late = e]
        /\ "replaced" \in Notices /\ input.queue \in Seq(Notices)
    BY <1>0, <1>2 DEF SwitchLibrary, Forward, Notices, Inputs
  <2>e. e \in Items \cup {NONE} /\ (input.at # "reading" => e = input.late)
    BY <1>0, OfLibraryType DEF Inputs, TypesInv
  <2> HIDE DEF e
  <2>2. /\ input'.queue = Append(input.queue, "replaced") /\ input'.at = input.at
        /\ input'.items = input.items /\ input'.counts = input.counts
        /\ input'.stale /\ input'.dirty /\ input'.late = e
    BY <1>0, <2>1 DEF Inputs
  <2>3. /\ input'.queue \in Seq(Notices) /\ input'.queue # <<>>
        /\ Elems(input'.queue) = Elems(input.queue) \cup {"replaced"}
        /\ input.queue # <<>> => /\ Head(input'.queue) = Head(input.queue)
                                 /\ Behind(input'.queue) = Behind(input.queue) \cup {"replaced"}
        /\ input.queue = <<>> => /\ Head(input'.queue) = "replaced"
                                 /\ Behind(input'.queue) = {}
    BY <1>1, <2>1, <2>2, Asks
  <2>4. input' \in Inputs
    BY <1>0, <2>1, <2>2, <2>3, <2>e DEF Inputs
  <2>5. ~LastNotice' /\ (Begun' <=> Begun)
    BY <1>1, <2>2, <2>3 DEF LastNotice, Begun, ToldInv
  <2>7. ~LibraryNotified
    BY <2>2 DEF LibraryNotified, Forward, Inputs, TypesInv
  <2>6. ~Lend /\ ~Unlock /\ ~Lock /\ ~Switch /\ ~SessionEnds
    <3>1. pubq # <<>> /\ pubq' = Tail(pubq)
      BY <1>2 DEF SwitchLibrary, Turn
    <3>2. pubq' # pubq
      BY <3>1, TurnEnds
    <3> QED BY <3>2 DEF Lend, Unlock, Lock, Switch, SessionEnds, machine, queue
  <2> QED BY <1>1, <1>2, <2>1, <2>2, <2>3, <2>4, <2>5, <2>6, <2>7, <2>e
<1>3. CASE ~SwitchLibrary
  <2>1. /\ \/ /\ Lend \/ Unlock \/ Lock \/ Switch \/ SessionEnds
              /\ input' = [input EXCEPT !.queue = Append(@, "update")]
           \/ /\ ~(Lend \/ Unlock \/ Lock \/ Switch \/ SessionEnds)
              /\ input' = [input EXCEPT !.queue = Append(@, "update"), !.dirty = FALSE,
                                        !.stale = TRUE]
        /\ "update" \in Notices /\ input.queue \in Seq(Notices)
    <3>1. "update" \in Notices /\ input.queue \in Seq(Notices)
      BY <1>0 DEF Notices, Inputs
    <3>2. CASE Lend \/ Unlock \/ Lock \/ Switch \/ SessionEnds
      BY <3>1, <3>2 DEF SessionEnds, Lend, Unlock, Lock, Switch, Forward
    <3>3. CASE ~(Lend \/ Unlock \/ Lock \/ Switch \/ SessionEnds)
      <4>1. LibraryNotified
        BY <1>3, <3>3 DEF Asking
      <4>2. input' = [input EXCEPT !.queue = Append(@, "update"), !.dirty = FALSE, !.stale = TRUE]
        BY <1>0, <4>1 DEF LibraryNotified, Forward, Inputs
      <4> QED BY <3>1, <3>3, <4>2
    <3> QED BY <3>2, <3>3
  <2>2. /\ input'.queue = Append(input.queue, "update") /\ input'.at = input.at
        /\ input'.items = input.items /\ input'.counts = input.counts
        /\ IF Lend \/ Unlock \/ Lock \/ Switch \/ SessionEnds
           THEN input'.stale = input.stale /\ input'.dirty = input.dirty
           ELSE input'.stale /\ ~input'.dirty
        /\ input'.late = input.late
    BY <1>0, <2>1 DEF Inputs
  <2>3. /\ input'.queue \in Seq(Notices) /\ input'.queue # <<>>
        /\ Elems(input'.queue) = Elems(input.queue) \cup {"update"}
        /\ input.queue # <<>> => /\ Head(input'.queue) = Head(input.queue)
                                 /\ Behind(input'.queue) = Behind(input.queue) \cup {"update"}
        /\ input.queue = <<>> => /\ Head(input'.queue) = "update"
                                 /\ Behind(input'.queue) = {}
    BY <1>1, <2>1, <2>2, Asks
  <2>4. input' \in Inputs
    BY <1>0, <2>1, <2>2, <2>3 DEF Inputs
  <2>5. ~LastNotice' /\ (Begun' <=> Begun)
    BY <1>1, <2>2, <2>3 DEF LastNotice, Begun, ToldInv
  <2>6. Lend \/ library' = library
    BY <1>3 DEF Asking, SessionEnds, Lend, Unlock, Lock, Switch, LibraryNotified, phone
  <2>7. Lend => library'.id = library.id /\ library'.copies = library.copies
    BY DEF Lend, TypesInv, Libraries
  <2>8. LibraryNotified => input.late = NONE
    BY DEF LibraryNotified
  <2> QED BY <1>1, <1>3, <2>1, <2>2, <2>3, <2>4, <2>5, <2>6, <2>7, <2>8
<1> QED BY <1>2, <1>3

\* Told of the last notice, the lane works with what is shown and switched now;
\* the items the notifier holds are those of now unless it knows they are not.
InputsInv ==
    /\ \A r \in Elems(steps) : r.op \in Notices =>
          /\ LastNotice => r.enabled = on /\ r.counts = shown
          /\ r.items = input.items
    /\ LastNotice /\ input.at = "reading" => input.counts = shown
    /\ LastNotice /\ input.at # "reading" /\ Applied => lane.enabled = on /\ lane.counts = shown
    /\ Applied => lane.items = input.items
    /\ ~input.stale /\ ~input.dirty /\ input.at # "reading" => input.items = ItemsOf(library)
    /\ LastNotice /\ ~input.dirty /\ input.at # "reading" /\ shown # NONE =>
          input.items \in {ItemsOf(library), NONE}
    /\ step.at = "keys" => Known(lane) /\ step.counts = lane.counts /\ step.items = lane.items

\* The queue of the notifier after the lane has applied its head.
LEMMA NoticeApplied ==
    ASSUME LaneInv, steps # <<>>, Finish
    PROVE  /\ step'.at = "idle" /\ ~Begun' /\ Elems(steps') = Behind(steps)
           /\ Head(steps) \in Elems(steps) /\ Elems(steps') \subseteq Elems(steps)
           /\ IF Head(steps).op \in Notices
              THEN /\ input.at = "applying" /\ input'.at = "idle" /\ ~Told' /\ Applied'
                   /\ input' = [input EXCEPT !.at = "idle", !.queue = Tail(@)]
                   /\ input'.items = input.items /\ input'.stale = input.stale
                   /\ input'.dirty = input.dirty /\ input'.late = input.late
                   /\ Head(steps).op = Head(input.queue) /\ input.queue # <<>>
                   /\ Elems(input'.queue) = Behind(input.queue)
                   /\ Behind(input'.queue) \subseteq Behind(input.queue)
                   /\ input'.queue # <<>> => Head(input'.queue) \in Behind(input.queue)
                   /\ LastNotice' => LastNotice
              ELSE input' = input /\ (Applied' <=> input.at # "applying")
<1> USE DEF LaneInv
<1>1. /\ input' \in Inputs /\ step' = NoStep /\ Elems(steps') = Behind(steps)
      /\ IF Head(steps).op \in Notices
         THEN /\ input.at = "applying" /\ input.queue # <<>>
              /\ Head(steps).op = Head(input.queue)
              /\ input' = [input EXCEPT !.at = "idle", !.queue = Tail(@)]
              /\ ~Told'
         ELSE input' = input
  BY FinishEnds
<1>2. step'.at = "idle" /\ ~Begun'
  BY <1>1 DEF NoStep, Begun
<1>3. Head(steps) \in Elems(steps) /\ Elems(steps') \subseteq Elems(steps)
  BY <1>1, TailElems DEF TypesInv
<1>4. CASE Head(steps).op \in Notices
  <2>1. /\ input'.at = "idle" /\ input'.queue = Tail(input.queue) /\ input'.items = input.items
        /\ input'.stale = input.stale /\ input'.dirty = input.dirty
        /\ input'.late = input.late /\ input.queue \in Seq(Notices)
    BY <1>1, <1>4 DEF TypesInv, Inputs
  <2>2. /\ Elems(input'.queue) = Behind(input.queue)
        /\ Behind(input'.queue) \subseteq Behind(input.queue)
        /\ input'.queue # <<>> => Head(input'.queue) \in Behind(input.queue)
    BY <1>1, <1>4, <2>1, TailElems
  <2>3. ASSUME LastNotice' PROVE LastNotice
    <3>1. input'.queue = <<>>
      BY <2>1, <2>3 DEF LastNotice
    <3>2. Behind(input.queue) = {}
      BY <2>2, <3>1, EmptyElems
    <3> QED BY <1>1, <1>4, <3>2 DEF LastNotice
  <2> QED BY <1>1, <1>2, <1>3, <1>4, <2>1, <2>2, <2>3 DEF Applied
<1>5. CASE Head(steps).op \notin Notices
  BY <1>1, <1>2, <1>3, <1>5 DEF Applied
<1> QED BY <1>4, <1>5

\* The notifier has asked its inputs of the oldest thing in its queue.
LEMMA NoticeTold ==
    ASSUME LaneInv, ReadInputs, input.stale => shown = NONE
    PROVE  /\ input' = [input EXCEPT !.at = "applying"]
           /\ \E r \in StepCalls :
                /\ steps' = Append(steps, r) /\ Elems(steps') = Elems(steps) \cup {r}
                /\ r.op = Head(input.queue) /\ r.enabled = on /\ r.counts = shown
                /\ r.items = input.items
           /\ ~Told /\ ~Begun' /\ (steps # <<>> => Head(steps') = Head(steps))
<1> USE DEF LaneInv
<1> DEFINE r == [Step(Head(input.queue)) EXCEPT !.counts = shown, !.items = input.items]
<1>1. /\ input.queue # <<>> /\ input.at = "idle" /\ step' = step
      /\ input' = [input EXCEPT !.at = "applying"] /\ steps' = Append(steps, r)
  BY DEF ReadInputs
<1>2. Head(input.queue) \in Ops
  BY <1>1, TailElems DEF TypesInv, Inputs, Ops
<1>3. /\ r \in StepCalls /\ r.op = Head(input.queue) /\ r.enabled = on /\ r.counts = shown
      /\ r.items = input.items
  <2>1. on \in BOOLEAN /\ shown \in Counts \cup {NONE} /\ input.items \in Items \cup {NONE}
    BY DEF TypesInv, Inputs
  <2> QED BY <1>2, <2>1 DEF Step, StepCalls
<1> HIDE DEF r
<1>4. /\ Elems(steps') = Elems(steps) \cup {r}
      /\ steps # <<>> => Head(steps') = Head(steps)
  BY <1>1, <1>3, AppendElems DEF TypesInv
<1>5. ~Told
  BY <1>1 DEF ToldInv
<1>6. ~Begun'
  <2>1. step.at = "keys" => steps # <<>> /\ Head(steps) \in Elems(steps)
    BY HeadStep DEF ToldInv
  <2> QED BY <1>1, <1>4, <1>5, <2>1 DEF Begun, Told
<1> QED BY <1>1, <1>3, <1>4, <1>5, <1>6

LEMMA InputsTold ==
    ASSUME LaneInv, InputsRead
    PROVE  \E items \in {ItemsOf(library), input.late, NONE}, r \in StepCalls :
             /\ input' = [input EXCEPT !.at = "applying", !.items = items, !.counts = NONE,
                                       !.stale = items = NONE, !.late = NONE]
             /\ input.late # NONE => shown = NONE
             /\ steps' = Append(steps, r) /\ Elems(steps') = Elems(steps) \cup {r}
             /\ r.op = Head(input.queue) /\ r.enabled = on /\ r.counts = input.counts
             /\ r.items = items
             /\ ~Told /\ ~Begun' /\ (steps # <<>> => Head(steps') = Head(steps))
<1> USE DEF LaneInv
<1>1. PICK items \in {ItemsOf(library), input.late, NONE} :
        /\ input' = [input EXCEPT !.at = "applying", !.items = items, !.counts = NONE,
                                  !.stale = items = NONE, !.late = NONE]
        /\ input.late # NONE => shown = NONE
        /\ steps' = Append(steps, [Step(Head(input.queue)) EXCEPT
                                     !.counts = input.counts, !.items = items])
  BY DEF InputsRead
<1> DEFINE r == [Step(Head(input.queue)) EXCEPT !.counts = input.counts, !.items = items]
<1>2. input.at = "reading" /\ input.queue # <<>> /\ step' = step
  BY DEF InputsRead, ToldInv
<1>3. Head(input.queue) \in Ops
  BY <1>2, TailElems DEF TypesInv, Inputs, Ops
<1>4. /\ r \in StepCalls /\ r.op = Head(input.queue) /\ r.enabled = on
      /\ r.counts = input.counts /\ r.items = items
  <2>1. /\ on \in BOOLEAN /\ input.counts \in Counts \cup {NONE}
        /\ items \in Items \cup {NONE}
    BY OfLibraryType DEF TypesInv, Inputs
  <2> QED BY <1>3, <2>1 DEF Step, StepCalls
<1>5. steps' = Append(steps, r)
  BY <1>1
<1> HIDE DEF r
<1>6. /\ Elems(steps') = Elems(steps) \cup {r}
      /\ steps # <<>> => Head(steps') = Head(steps)
  BY <1>4, <1>5, AppendElems DEF TypesInv
<1>7. ~Told
  BY <1>2 DEF ToldInv
<1>8. ~Begun'
  <2>1. step.at = "keys" => steps # <<>> /\ Head(steps) \in Elems(steps)
    BY HeadStep DEF ToldInv
  <2> QED BY <1>2, <1>6, <1>7, <2>1 DEF Begun, Told
<1> QED BY <1>1, <1>4, <1>5, <1>6, <1>7, <1>8

\* Items of before a restore are on their way only while they are being read, and
\* the word of the restore and the change of the catalogue are then still to come.
LateInv ==
    input.late # NONE =>
        input.at = "reading" /\ input.stale /\ input.dirty /\ "replaced" \in Behind(input.queue)

LEMMA LateSafe ==
    ASSUME LaneInv, LateInv, Next
    PROVE  LateInv'
<1> USE DEF LaneInv
<1>0. input \in Inputs
  BY DEF TypesInv
<1>1. CASE ReadInputs
  <2>1. input.at = "idle" /\ input'.late = input.late
    BY <1>0, <1>1 DEF ReadInputs, Inputs
  <2> QED BY <2>1 DEF LateInv
<1>2. CASE InputsRead
  <2>1. input'.late = NONE
    BY <1>0, <1>2 DEF InputsRead, Inputs
  <2> QED BY <2>1 DEF LateInv
<1>3. CASE LaneStep \/ KeysMade \/ NoKeys
  <2>1. \/ input' = input
        \/ input.at = "applying" /\ input'.late = input.late
    <3>1. CASE Finish
      <4>1. steps # <<>>
        BY <1>3, StepOutcome, KeysOutcome
      <4> QED BY <3>1, <4>1, NoticeApplied
    <3>2. CASE ~Finish
      BY <1>3, <3>2, StepOutcome, KeysOutcome DEF AskKeys
    <3> QED BY <3>1, <3>2
  <2> QED BY <2>1 DEF LateInv
<1>4. CASE Aside
  BY <1>4, AsideSteps DEF LateInv
<1>5. CASE Asking
  <2>1. /\ input'.at = input.at
        /\ IF Lend \/ Unlock \/ Lock \/ Switch \/ SessionEnds
           THEN input'.stale = input.stale /\ input'.dirty = input.dirty
           ELSE input'.stale
        /\ SwitchLibrary => input'.dirty
        /\ (SwitchLibrary /\ input.at = "reading") \/ input'.late = input.late
        /\ LibraryNotified => input.late = NONE
    BY <1>5, AskingSteps
  <2>2. PICK what \in Notices :
          /\ what = "replaced" <=> SwitchLibrary
          /\ input.queue # <<>> => Behind(input'.queue) = Behind(input.queue) \cup {what}
    BY <1>5, AskingSteps
  <2>3. input.at = "reading" => input.queue # <<>>
    BY DEF ToldInv
  <2>4. CASE SwitchLibrary
    <3>1. SwitchLibrary => ~(Lend \/ Unlock \/ Lock \/ Switch \/ SessionEnds)
      <4>1. SwitchLibrary => pubq # <<>> /\ pubq' = Tail(pubq)
        BY DEF SwitchLibrary, Turn
      <4>2. SwitchLibrary => pubq' # pubq
        BY <4>1, TurnEnds
      <4> QED BY <4>2 DEF Lend, Unlock, Lock, Switch, SessionEnds, machine, queue
    <3> QED BY <2>1, <2>2, <2>3, <2>4, <3>1 DEF LateInv
  <2>5. CASE LibraryNotified /\ ~SwitchLibrary
    BY <2>1, <2>2, <2>3, <2>5 DEF LateInv
  <2>6. CASE ~SwitchLibrary /\ ~LibraryNotified
    BY <1>5, <2>1, <2>2, <2>3, <2>6 DEF LateInv, Asking
  <2> QED BY <2>4, <2>5, <2>6
<1>6. CASE EditItem
  BY <1>0, <1>6 DEF EditItem, LateInv, Inputs
<1>7. CASE Crash
  BY <1>7 DEF Crash, NoInput, LateInv
<1> QED BY <1>1, <1>2, <1>3, <1>4, <1>5, <1>6, <1>7, NextCases

LEMMA InputsSafe ==
    ASSUME LaneInv, LateInv, InputsInv, Next
    PROVE  InputsInv'
<1> USE DEF LaneInv
<1>0. input \in Inputs /\ lane \in Lanes
  BY DEF TypesInv
<1>1. CASE ReadInputs
  <2>0. UNCHANGED <<library, shown, on, step, lane>> /\ input.at = "idle"
    BY <1>1 DEF ReadInputs, phone
  <2>1. CASE shown # NONE /\ input.stale
    <3>1. /\ input' = [input EXCEPT !.at = "reading", !.counts = shown, !.stale = FALSE]
          /\ steps' = steps
      BY <1>1, <2>1 DEF ReadInputs
    <3>2. input'.at = "reading" /\ input'.counts = shown /\ input'.items = input.items
      BY <1>0, <3>1 DEF Inputs
    <3>3. ~Told
      BY <2>0 DEF ToldInv
    <3> QED BY <2>0, <3>1, <3>2, <3>3 DEF InputsInv, Applied, Told, Known
  <2>2. CASE ~(shown # NONE /\ input.stale)
    <3>0. input.stale => shown = NONE
      BY <2>2
    <3>1. PICK r \in StepCalls :
            /\ Elems(steps') = Elems(steps) \cup {r}
            /\ r.enabled = on /\ r.counts = shown /\ r.items = input.items
      BY <1>1, <3>0, NoticeTold
    <3>2. input' = [input EXCEPT !.at = "applying"] /\ ~Told /\ ~Begun'
      BY <1>1, <3>0, NoticeTold
    <3>3. /\ input'.at = "applying" /\ input'.items = input.items /\ input'.stale = input.stale
          /\ input'.dirty = input.dirty /\ ~Applied'
      BY <1>0, <3>2 DEF Inputs, Applied
    <3> QED BY <2>0, <3>0, <3>1, <3>2, <3>3 DEF InputsInv, Told, Known
  <2> QED BY <2>1, <2>2
<1>2. CASE InputsRead
  <2>0. UNCHANGED <<library, shown, on, step, lane>> /\ input.at = "reading"
    BY <1>2 DEF InputsRead, phone
  <2>1. PICK items \in {ItemsOf(library), input.late, NONE}, r \in StepCalls :
          /\ input' = [input EXCEPT !.at = "applying", !.items = items, !.counts = NONE,
                                    !.stale = items = NONE, !.late = NONE]
          /\ Elems(steps') = Elems(steps) \cup {r}
          /\ r.enabled = on /\ r.counts = input.counts /\ r.items = items
          /\ ~Told /\ ~Begun'
    BY <1>2, InputsTold
  <2>2. /\ input'.at = "applying" /\ input'.items = items /\ input'.queue = input.queue
        /\ input'.stale <=> items = NONE
        /\ input'.dirty = input.dirty /\ ~Applied'
    BY <1>0, <2>1 DEF Inputs, Applied
  <2>4. ~input.dirty => items \in {ItemsOf(library), NONE}
    BY <2>1 DEF LateInv
  <2>3. LastNotice' <=> LastNotice
    BY <2>0, <2>2 DEF LastNotice
  <2> QED BY <2>0, <2>1, <2>2, <2>3, <2>4 DEF InputsInv, Told, Known
<1>3. CASE LaneStep
  <2>0. UNCHANGED <<library, shown, on>> /\ steps # <<>> /\ step.at = "idle" /\ ~Begun
    BY <1>3, StepOutcome DEF Begun
  <2>1. PICK l \in Lanes :
          /\ SameInputs(l, Taken)
          /\ \/ Known(l) /\ \E now \in BOOLEAN : AskKeys(l, now)
             \/ SameInputs(lane', l) /\ Finish
    BY <1>3, StepOutcome
  <2>2. Head(steps) \in Elems(steps)
    BY <2>0, HeadStep
  <2>3. CASE SameInputs(lane', l) /\ Finish
    <3>1. /\ step'.at = "idle" /\ Elems(steps') \subseteq Elems(steps)
          /\ IF Head(steps).op \in Notices
             THEN /\ input.at = "applying" /\ input'.at = "idle" /\ ~Told' /\ Applied'
                  /\ input'.items = input.items /\ input'.stale = input.stale
                  /\ input'.dirty = input.dirty
                  /\ LastNotice' => LastNotice
             ELSE input' = input /\ (Applied' <=> input.at # "applying")
      BY <2>0, <2>3, NoticeApplied
    <3>2. CASE Head(steps).op \in Notices
      BY <2>0, <2>1, <2>2, <2>3, <3>1, <3>2 DEF InputsInv, SameInputs, Taken, Told
    <3>3. CASE Head(steps).op \notin Notices
      <4>1. SameInputs(lane', lane)
        BY <2>1, <2>3, <3>3 DEF SameInputs, Taken
      <4>2. LastNotice' <=> LastNotice
        BY <3>1, <3>3 DEF LastNotice
      <4>3. Applied' => Applied
        BY <3>1, <3>3 DEF Applied
      <4> QED BY <2>0, <3>1, <3>3, <4>1, <4>2, <4>3 DEF InputsInv, SameInputs
    <3> QED BY <3>2, <3>3
  <2>4. CASE Known(l) /\ \E now \in BOOLEAN : AskKeys(l, now)
    <3>1. PICK now \in BOOLEAN : AskKeys(l, now)
      BY <2>4
    <3>2. /\ lane' = l /\ UNCHANGED <<steps, input>>
          /\ step'.at = "keys" /\ step'.counts = l.counts /\ step'.items = l.items
      BY <3>1 DEF AskKeys
    <3>3. LastNotice' <=> LastNotice
      BY <3>2 DEF LastNotice
    <3>4. CASE Head(steps).op \in Notices
      <4>1. input.at = "applying"
        BY <2>2, <3>4 DEF ToldInv, Told
      <4> QED BY <2>0, <2>1, <2>2, <2>4, <3>2, <3>3, <3>4, <4>1 DEF InputsInv, SameInputs, Taken
    <3>5. CASE Head(steps).op \notin Notices
      <4>1. SameInputs(lane', lane)
        BY <2>1, <3>2, <3>5 DEF SameInputs, Taken
      <4>2. Applied' => Applied
        BY <2>0, <3>2, <3>5 DEF Applied, Begun
      <4> QED BY <2>0, <2>4, <3>2, <3>3, <4>1, <4>2 DEF InputsInv, SameInputs
    <3> QED BY <3>4, <3>5
  <2> QED BY <2>1, <2>3, <2>4
<1>4. CASE KeysMade \/ NoKeys
  <2>1. /\ UNCHANGED <<library, shown, on>> /\ steps # <<>> /\ step.at = "keys" /\ Finish
        /\ SameInputs(lane', lane)
    BY <1>4, KeysOutcome DEF phone
  <2>2. /\ step'.at = "idle" /\ Elems(steps') \subseteq Elems(steps)
        /\ IF Head(steps).op \in Notices
           THEN /\ input.at = "applying" /\ input'.at = "idle" /\ ~Told' /\ Applied'
                /\ input'.items = input.items /\ input'.stale = input.stale
                /\ input'.dirty = input.dirty
                /\ LastNotice' => LastNotice
           ELSE input' = input /\ (Applied' <=> input.at # "applying")
    BY <2>1, NoticeApplied
  <2>3. CASE Head(steps).op \in Notices
    <3>1. Applied
      BY <2>1, <2>3 DEF Applied, Begun
    <3> QED BY <2>1, <2>2, <2>3, <3>1 DEF InputsInv, SameInputs, Told
  <2>4. CASE Head(steps).op \notin Notices
    <3>1. (LastNotice' <=> LastNotice) /\ (Applied' => Applied)
      BY <2>2, <2>4 DEF LastNotice, Applied
    <3> QED BY <2>1, <2>2, <2>4, <3>1 DEF InputsInv, SameInputs
  <2> QED BY <2>3, <2>4
<1>5. CASE Aside
  <2>1. /\ UNCHANGED <<library, shown, on, input, step>> /\ SameInputs(lane', lane)
        /\ \A r \in Elems(steps') : r.op \in Notices => r \in Elems(steps)
        /\ Begun' <=> Begun
    BY <1>5, AsideSteps
  <2>2. (LastNotice' <=> LastNotice) /\ (Applied' <=> Applied)
    BY <2>1 DEF LastNotice, Applied
  <2> QED BY <2>1, <2>2 DEF InputsInv, SameInputs, Known
<1>6. CASE Asking
  <2>1. /\ UNCHANGED <<steps, step, lane>> /\ input'.at = input.at /\ input'.items = input.items
        /\ ~LastNotice' /\ (Begun' <=> Begun)
        /\ ~input'.stale /\ ~input'.dirty => ~input.stale /\ ~input.dirty
        /\ input'.stale \/ ItemsOf(library') = ItemsOf(library)
    <3>1. ~input'.stale => ItemsOf(library') = ItemsOf(library)
      <4>1. SwitchLibrary => input'.stale
        <5> HIDE DEF LaneInv
        <5>1. SwitchLibrary => ~(Lend \/ Unlock \/ Lock \/ Switch \/ SessionEnds)
          <6>1. SwitchLibrary => pubq # <<>> /\ pubq' = Tail(pubq)
            BY DEF SwitchLibrary, Turn
          <6>2. SwitchLibrary => pubq' # pubq
            BY <6>1, TurnEnds DEF LaneInv
          <6> QED BY <6>2 DEF Lend, Unlock, Lock, Switch, SessionEnds, machine, queue
        <5> QED BY <1>6, <5>1, AskingSteps
      <4>2. library' = library \/ Lend \/ SwitchLibrary
        BY <1>6, AskingSteps
      <4>3. Lend => library'.id = library.id /\ library'.copies = library.copies
        BY <1>6, AskingSteps
      <4> QED BY <4>1, <4>2, <4>3 DEF ItemsOf
    <3>2. ~input'.stale /\ ~input'.dirty => ~input.stale /\ ~input.dirty
      BY <1>6, AskingSteps
    <3> QED BY <1>6, <3>1, <3>2, AskingSteps
  <2>2. Applied' <=> Applied
    BY <2>1 DEF Applied
  <2> QED BY <2>1, <2>2 DEF InputsInv, Known
<1>7. CASE EditItem
  <2>1. UNCHANGED <<steps, step, lane, shown, on>> /\ input' = [input EXCEPT !.dirty = TRUE]
    BY <1>7 DEF EditItem, machine
  <2>2. /\ input'.at = input.at /\ input'.items = input.items /\ input'.dirty
        /\ input'.queue = input.queue /\ input'.counts = input.counts
    BY <1>0, <2>1 DEF Inputs
  <2>3. (LastNotice' <=> LastNotice) /\ (Applied' <=> Applied)
    BY <2>1, <2>2 DEF LastNotice, Applied, Begun
  <2> QED BY <2>1, <2>2, <2>3 DEF InputsInv, Known
<1>8. CASE Crash
  <2>1. input' = NoInput /\ lane' = NoLane /\ steps' = <<>> /\ step' = NoStep
    BY <1>8 DEF Crash
  <2>2. /\ input'.at = "idle" /\ input'.queue # <<>> /\ input'.stale /\ input'.items = NONE
        /\ lane'.items = NONE /\ step'.at = "idle" /\ ~LastNotice'
    BY <2>1 DEF NoInput, NoLane, NoStep, LastNotice
  <2> QED BY <2>1, <2>2, EmptyElems DEF InputsInv
<1> QED BY <1>1, <1>2, <1>3, <1>4, <1>5, <1>6, <1>7, <1>8, NextCases

LEMMA InputsInit == Init => LateInv /\ InputsInv
<1> SUFFICES ASSUME Init PROVE LateInv /\ InputsInv
  OBVIOUS
<1>1. input = NoInput /\ lane = NoLane /\ steps = <<>> /\ step = NoStep
  BY DEF Init
<1>2. /\ input.at = "idle" /\ input.queue # <<>> /\ input.stale /\ input.items = NONE
      /\ lane.items = NONE /\ step.at = "idle" /\ ~LastNotice
  BY <1>1 DEF NoInput, NoLane, NoStep, LastNotice
<1>3. LateInv
  BY <1>1 DEF LateInv, NoInput
<1> QED BY <1>1, <1>2, <1>3, EmptyElems DEF InputsInv

LEMMA InputsAlways == Spec => [](LaneInv /\ LateInv /\ InputsInv)
<1>1. LaneInv /\ LateInv /\ InputsInv /\ [Next]_vars => LateInv' /\ InputsInv'
  <2> SUFFICES ASSUME LaneInv, LateInv, InputsInv, [Next]_vars PROVE LateInv' /\ InputsInv'
    OBVIOUS
  <2>1. CASE Next
    BY <2>1, LateSafe, InputsSafe
  <2>2. CASE UNCHANGED vars
    <3>1. UNCHANGED <<library, shown, on, input, steps, step, lane>>
      BY <2>2 DEF vars, phone, notifier
    <3> QED BY <3>1 DEF LateInv, InputsInv, LastNotice, Applied, Begun, Known
  <2> QED BY <2>1, <2>2
<1> QED BY <1>1, LaneInit, LaneSafe, InputsInit, PTL DEF Spec

\* AvailabilityAutoPublisher: once every notification is applied, the lane works
\* with the loans shown now and the catalogue of now, if it was read.
THEOREM InputsNewest == Spec => []InputsAreNewest
<1>1. LaneInv /\ InputsInv => InputsAreNewest
  <2> SUFFICES ASSUME LaneInv, InputsInv, input.queue = <<>>, ~input.dirty, shown # NONE
               PROVE  lane.counts = shown /\ lane.items \in {ItemsOf(library), NONE}
    BY DEF InputsAreNewest
  <2>1. input.at = "idle" /\ LastNotice /\ Applied
    BY EmptyElems DEF LaneInv, TypesInv, Inputs, ToldInv, LastNotice, Applied
  <2> QED BY <2>1 DEF InputsInv
<1> QED BY <1>1, InputsAlways, PTL

-----------------------------------------------------------------------------
(* The lane at rest                                                         *)

\* Until the lane has read its store it does nothing.
Unstarted == input.queue # <<>> /\ Head(input.queue) = "start" /\ ~Begun
StartInv ==
    /\ "start" \notin Behind(input.queue)
    /\ Unstarted => /\ ~lane.enabled /\ ~lane.timer /\ run.at = "idle" /\ step.at = "idle"
                    /\ mem = Nothing

\* A step to come that looks at the work again; a resume may not.
Wakes == step.at = "keys" \/ \E r \in Elems(steps) : r.op # "resumed"
Timed(l) == l.timer \/ l.status = "notReady"

\* With work to do the lane is running, will look again, is armed, or says that
\* it waits.
WorkInv == Work(lane, mem) /\ run.at = "idle" /\ ~Wakes => Timed(lane)

LEMMA WorkScheduled ==
    ASSUME NEW l \in Lanes, NEW m, NEW k \in {Scheduled(l), Reevaluated(l, m)},
           k = Scheduled(l) \/ Work(l, m), host \in BOOLEAN
    PROVE  k.running \/ Timed(k)
<1>1. k = Scheduled(l)
  BY DEF Reevaluated
<1> QED BY <1>1 DEF Scheduled, Lanes, Timed

LEMMA StepFinishes ==
    ASSUME LaneInv, LaneStep
    PROVE  \/ step'.at = "keys" /\ UNCHANGED <<steps, input>>
              /\ (Head(steps).op \notin Notices => lane.enabled)
           \/ /\ Finish
              /\ \/ Work(lane', mem') => lane'.running \/ Timed(lane')
                 \/ StepResumed /\ UNCHANGED <<lane, mem>>
              /\ Known(lane') => SameInputs(lane', lane) /\ mem' = mem
              /\ Head(steps).op \notin Notices /\ ~lane.enabled /\ ~lane.timer /\ mem = Nothing =>
                   ~lane'.timer
<1> USE DEF LaneInv
<1> DEFINE Asks1 == /\ step'.at = "keys" /\ UNCHANGED <<steps, input>>
                    /\ (Head(steps).op \notin Notices => lane.enabled)
           Ends == /\ Finish
                   /\ \/ Work(lane', mem') => lane'.running \/ Timed(lane')
                      \/ StepResumed /\ UNCHANGED <<lane, mem>>
                   /\ Known(lane') => SameInputs(lane', lane) /\ mem' = mem
                   /\ Head(steps).op \notin Notices /\ ~lane.enabled /\ ~lane.timer /\ mem = Nothing
                        => ~lane'.timer
<1>0. lane \in Lanes /\ host \in BOOLEAN
  BY DEF TypesInv
<1>n. RemovalDue(Nothing) = FALSE
  BY DEF RemovalDue, Nothing
<1>r. ASSUME NEW l \in Lanes, NEW m, m = mem', Reevaluate(l, m),
             Head(steps).op \notin Notices =>
               SameInputs(l, lane) /\ l.timer = lane.timer /\ mem' = mem
      PROVE  Asks1 \/ Ends
  <2>1. CASE Known(l)
    <3>1. AskKeys(l, FALSE)
      BY <1>r, <2>1 DEF Reevaluate, Known
    <3>2. Head(steps).op \notin Notices => lane.enabled
      BY <1>r, <2>1 DEF Known, SameInputs
    <3> QED BY <3>1, <3>2 DEF AskKeys
  <2>2. CASE ~Known(l)
    <3>1. lane' = Reevaluated(l, m) /\ Finish
      BY <1>r, <2>2 DEF Reevaluate, Known
    <3>2. lane' \in Lanes /\ SameInputs(lane', l)
      BY <1>0, <3>1, LaneFields
    <3>3. ~Known(lane')
      BY <2>2, <3>2 DEF Known, SameInputs
    <3>4. Work(lane', mem') <=> Work(l, m)
      BY <1>r, <3>2 DEF Work, SameInputs
    <3>5. Work(lane', mem') => lane'.running \/ Timed(lane')
      BY <1>0, <3>1, <3>4, WorkScheduled
    <3>6. ASSUME Head(steps).op \notin Notices, ~lane.enabled, ~lane.timer, mem = Nothing
          PROVE  ~lane'.timer
      <4>1. ~l.enabled /\ ~Work(l, m)
        BY <1>n, <1>r, <3>6 DEF SameInputs, Work
      <4>2. lane' = [l EXCEPT !.timer = FALSE, !.status = "off"]
        BY <3>1, <4>1 DEF Reevaluated
      <4> QED BY <4>2 DEF Lanes
    <3> QED BY <3>1, <3>3, <3>5, <3>6
  <2> QED BY <2>1, <2>2
<1>k. ASSUME NEW l \in Lanes, SameInputs(l, lane), l.timer = lane.timer, mem' = mem, Finish,
             NEW k \in {Scheduled(l), Settled(l, mem), l}, lane' = k,
             Work(l, mem) => k = Scheduled(l) \/ Timed(k),
             Work(l, mem) \/ k = l \/ l.enabled
      PROVE  Ends
  <2>1. SameInputs(k, l)
    <3>1. \A j \in {Scheduled(l), Settled(l, mem), Reevaluated(l, mem)} : SameInputs(j, l)
      BY <1>0, LaneFields
    <3>2. SameInputs(l, l)
      BY DEF SameInputs
    <3> QED BY <1>k, <3>1, <3>2
  <2>2. SameInputs(lane', lane) /\ (Work(lane', mem') <=> Work(l, mem))
    BY <1>k, <2>1 DEF SameInputs, Work
  <2>3. Work(lane', mem') => lane'.running \/ Timed(lane')
    BY <1>0, <1>k, <2>2, WorkScheduled
  <2>4. ASSUME ~lane.enabled, ~lane.timer, mem = Nothing PROVE ~lane'.timer
    <3>1. ~Work(l, mem)
      BY <1>k, <1>n, <2>4 DEF SameInputs, Work
    <3>2. k = l
      BY <1>k, <2>4, <3>1 DEF SameInputs
    <3> QED BY <1>k, <2>4, <3>2
  <2> QED BY <1>k, <2>2, <2>3, <2>4
<1> HIDE DEF Asks1, Ends
<1> SUFFICES Asks1 \/ Ends
  BY DEF Asks1, Ends
<1>w. ASSUME steps # <<>>
      PROVE  WithInputs(lane) \in Lanes /\ WithInputs(lane).timer = lane.timer
  BY <1>w, HeadStep
<1>1. CASE StepStart \/ StepUpdate
  <2>1. steps # <<>> /\ Head(steps).op \in Notices
    BY <1>1 DEF StepStart, StepUpdate, Begins, Notices
  <2>2. Reevaluate(WithInputs(lane), mem')
    BY <1>1 DEF StepStart, StepUpdate, memory
  <2> QED BY <1>r, <1>w, <2>1, <2>2
<1>2. CASE StepReplaced
  <2> DEFINE l == WithInputs([lane EXCEPT !.timer = FALSE])
  <2>1. steps # <<>> /\ Head(steps).op \in Notices /\ Reevaluate(l, mem')
    BY <1>2 DEF StepReplaced, Begins, Notices
  <2>2. l = [WithInputs(lane) EXCEPT !.timer = FALSE]
    BY <1>0 DEF WithInputs, Lanes
  <2>3. l \in Lanes
    BY <1>w, <2>1, <2>2 DEF Lanes
  <2> HIDE DEF l
  <2> QED BY <1>r, <2>1, <2>3
<1>3. CASE StepResumed
  <2>1. UNCHANGED <<mem>>
    BY <1>3 DEF StepResumed, memory
  <2>2. CASE lane.waiting
    <3>1. Finish /\ lane' = lane
      BY <1>3, <2>2 DEF StepResumed
    <3> QED BY <1>3, <2>1, <3>1 DEF Ends, SameInputs
  <2>3. CASE ~lane.waiting
    <3>1. Reevaluate(lane, mem')
      BY <1>3, <2>1, <2>3 DEF StepResumed
    <3> QED BY <1>0, <1>r, <2>1, <3>1 DEF SameInputs
  <2> QED BY <2>2, <2>3
<1>4. CASE StepSitePublished
  <2> DEFINE l == [lane EXCEPT !.waiting = FALSE]
  <2>1. mem' = mem /\ Reevaluate(l, mem')
    BY <1>4 DEF StepSitePublished, memory
  <2>2. l \in Lanes /\ SameInputs(l, lane) /\ l.timer = lane.timer
    BY <1>0 DEF Lanes, SameInputs
  <2> HIDE DEF l
  <2> QED BY <1>r, <2>1, <2>2
<1>5. CASE StepNow
  <2> DEFINE l == [lane EXCEPT !.waiting = FALSE]
             k == IF Work(l, mem) THEN Scheduled(l)
                  ELSE IF l.enabled THEN Settled(l, mem) ELSE l
  <2>1. mem' = mem /\ l \in Lanes /\ SameInputs(l, lane) /\ l.timer = lane.timer
    BY <1>0, <1>5 DEF StepNow, memory, Lanes, SameInputs
  <2>2. CASE Known(l)
    <3>1. AskKeys(l, TRUE) /\ lane.enabled
      BY <1>5, <2>1, <2>2 DEF StepNow, Known, SameInputs
    <3> QED BY <3>1 DEF AskKeys, Asks1
  <2>3. CASE ~Known(l)
    <3>1. lane' = k /\ Finish
      BY <1>5, <2>3 DEF StepNow, Known
    <3>2. /\ k \in {Scheduled(l), Settled(l, mem), l}
          /\ Work(l, mem) => k = Scheduled(l)
          /\ Work(l, mem) \/ k = l \/ l.enabled
      OBVIOUS
    <3> HIDE DEF k, l
    <3> QED BY <1>k, <2>1, <3>1, <3>2
  <2> QED BY <2>2, <2>3
<1>6. CASE StepFollowUp
  <2> DEFINE l == [lane EXCEPT !.rerun = FALSE]
             k == IF Work(l, mem) /\ (lane.rerun \/ lane.status # "notReady")
                  THEN Scheduled(l) ELSE l
  <2>1. /\ mem' = mem /\ l \in Lanes /\ SameInputs(l, lane) /\ l.timer = lane.timer
        /\ l.status = lane.status
    BY <1>0, <1>6 DEF StepFollowUp, memory, Lanes, SameInputs
  <2>2. lane' = k /\ Finish
    BY <1>6 DEF StepFollowUp
  <2>3. /\ k \in {Scheduled(l), Settled(l, mem), l}
        /\ Work(l, mem) => k = Scheduled(l) \/ Timed(k)
        /\ Work(l, mem) \/ k = l \/ l.enabled
    BY <2>1 DEF Timed
  <2> HIDE DEF k, l
  <2> QED BY <1>k, <2>1, <2>2, <2>3
<1> QED BY <1>1, <1>2, <1>3, <1>4, <1>5, <1>6 DEF LaneStep

\* What a step of the lane does to the memory.
LEMMA StepMemory ==
    ASSUME TypesInv, LaneStep
    PROVE  \/ mem' = mem
           \/ StepStart
           \/ StepReplaced /\ mem'.pending = NONE /\ mem'.published = NONE
<1>1. CASE StepUpdate \/ StepResumed \/ StepSitePublished \/ StepNow \/ StepFollowUp
  BY <1>1 DEF StepUpdate, StepResumed, StepSitePublished, StepNow, StepFollowUp, memory
<1>2. CASE StepReplaced
  <2>1. UNCHANGED memory \/ Remember(Cleared(mem), Cleared(store))
    BY <1>2 DEF StepReplaced
  <2> QED BY <1>2, <2>1 DEF Remember, Cleared, memory, TypesInv, Memories
<1> QED BY <1>1, <1>2 DEF LaneStep

\* The rest of the steps aside, the lane being neither armed nor answered.
LEMMA RestSteps ==
    ASSUME LaneInv, Aside, ~TimerFires, ~Outcomes
    PROVE  /\ UNCHANGED <<lane, mem>> /\ run'.update = run.update
           /\ run'.at = "idle" <=> run.at = "idle"
<1> USE DEF LaneInv
<1>0. run \in Publishes
  BY DEF TypesInv
<1>a. ASSUME NEW result, Answers(result), pubq # <<>>
      PROVE  run'.update = run.update /\ (run'.at = "idle" <=> run.at = "idle")
  <2>1. Head(pubq) = "lane" => run.at = "sent"
    BY <1>a, TailElems DEF TypesInv, TurnsInv
  <2> QED BY <1>0, <1>a, <2>1 DEF Answers, Publishes
<1>1. CASE LaneBegins
  <2>1. /\ UNCHANGED <<lane, mem>> /\ pubq # <<>>
        /\ \/ Answers("blocked") \/ Answers("already") \/ Answers("notReady")
           \/ run' = run \/ run' = [run EXCEPT !.gate = TRUE]
    BY <1>1 DEF LaneBegins, Turn, memory
  <2> QED BY <1>0, <1>a, <2>1 DEF Publishes
<1>2. CASE CatalogueBegins
  BY <1>2 DEF CatalogueBegins, memory
<1>3. CASE NotSent \/ Accepted \/ AnswerLost
  <2>1. /\ UNCHANGED <<lane, mem>> /\ pubq # <<>>
        /\ Answers("pending") \/ Answers("sent")
    BY <1>3 DEF NotSent, Accepted, AnswerLost, TurnsInv, InHand
  <2> QED BY <1>a, <2>1
<1>4. CASE Lands \/ ResetKeys \/ OtherWriter \/ Press \/ ChangeHost \/ Publish \/ Restore
  BY <1>4 DEF Lands, ResetKeys, OtherWriter, Press, ChangeHost, Publish, Restore, memory
<1> QED BY <1>1, <1>2, <1>3, <1>4 DEF Aside

LEMMA StartSafe ==
    ASSUME LaneInv, StartInv, Next
    PROVE  StartInv'
<1> USE DEF LaneInv
<1>0. input \in Inputs /\ input.queue \in Seq(Notices) /\ run \in Publishes
  BY DEF TypesInv, Inputs
<1>f. ASSUME Finish, steps # <<>>, Head(steps).op \in Notices PROVE StartInv'
  <2>1. /\ Behind(input'.queue) \subseteq Behind(input.queue)
        /\ input'.queue # <<>> => Head(input'.queue) \in Behind(input.queue)
    BY <1>f, NoticeApplied
  <2> QED BY <2>1 DEF StartInv, Unstarted
<1>u. ASSUME input'.queue = input.queue, ~Unstarted => ~Unstarted',
             Unstarted => /\ ~lane'.enabled /\ ~lane'.timer /\ run'.at = "idle"
                          /\ step'.at = "idle" /\ mem' = Nothing
      PROVE  StartInv'
  BY <1>u DEF StartInv
<1>1. CASE Notifier
  <2>1. CASE LibraryNotified
    <3>1. Asking
      BY <2>1 DEF Asking
    <3>2. UNCHANGED <<lane, run, step, mem>> /\ (Begun' <=> Begun)
      BY <3>1, AskingSteps
    <3>3. ~SwitchLibrary
      <4>1. SwitchLibrary => pubq # <<>> /\ pubq' = Tail(pubq)
        BY DEF SwitchLibrary, Turn
      <4>2. SwitchLibrary => pubq' # pubq
        BY <4>1, TurnEnds
      <4> QED BY <2>1, <4>2 DEF LibraryNotified, machine, queue
    <3>4. /\ input.queue # <<>> => /\ Head(input'.queue) = Head(input.queue)
                                   /\ Behind(input'.queue) = Behind(input.queue) \cup {"update"}
          /\ input.queue = <<>> => Head(input'.queue) = "update" /\ Behind(input'.queue) = {}
      BY <3>1, <3>3, AskingSteps
    <3> QED BY <3>2, <3>4 DEF StartInv, Unstarted
  <2>2. CASE ReadInputs \/ InputsRead
    <3>1. UNCHANGED <<lane, run, step, mem>> /\ input.at # "applying"
      BY <2>2 DEF ReadInputs, InputsRead, memory
    <3>2. input'.queue = input.queue
      BY <1>0, <2>2 DEF ReadInputs, InputsRead, Inputs
    <3>3. ~Unstarted => ~Unstarted'
      BY <3>1, <3>2 DEF Unstarted, Begun
    <3> QED BY <1>u, <3>1, <3>2, <3>3 DEF StartInv
  <2> QED BY <1>1, <2>1, <2>2 DEF Notifier
<1>2. CASE LaneStep
  <2>1. steps # <<>> /\ step.at = "idle" /\ run' = run /\ ~Begun
    BY <1>2, StepOutcome DEF Begun
  <2>2. Head(steps) \in Elems(steps)
    BY <2>1, HeadStep
  <2>3. CASE step'.at = "keys" /\ UNCHANGED <<steps, input>>
               /\ (Head(steps).op \notin Notices => lane.enabled)
    <3>1. CASE Head(steps).op \in Notices
      <4>1. Begun'
        BY <2>2, <2>3, <3>1 DEF Begun, ToldInv, Told
      <4> QED BY <2>3, <4>1 DEF StartInv, Unstarted
    <3>2. CASE Head(steps).op \notin Notices
      <4>1. ~Unstarted /\ ~Unstarted'
        BY <2>1, <2>3, <3>2 DEF StartInv, Unstarted
      <4> QED BY <2>3, <4>1 DEF StartInv
    <3> QED BY <3>1, <3>2
  <2>4. CASE Finish
    <3>1. CASE Head(steps).op \in Notices
      BY <1>f, <2>1, <2>4, <3>1
    <3>2. CASE Head(steps).op \notin Notices
      <4>1. input' = input /\ step'.at = "idle"
        BY <2>1, <2>4, <3>2, NoticeApplied
      <4>2. mem' = mem
        BY <1>2, <3>2, StepMemory DEF StepStart, StepReplaced, Begins, Notices
      <4>3. SameInputs(lane', lane) \/ lane.enabled
        <5>1. PICK l \in Lanes :
                /\ SameInputs(l, lane)
                /\ \/ Known(l)
                   \/ SameInputs(lane', l)
          BY <1>2, <3>2, StepOutcome DEF Taken
        <5> QED BY <5>1 DEF SameInputs, Known
      <4>4. ~lane.enabled /\ ~lane.timer /\ mem = Nothing => ~lane'.timer
        <5>1. step'.at # "keys"
          BY <4>1
        <5> QED BY <1>2, <3>2, <5>1, StepFinishes
      <4>5. ~Unstarted => ~Unstarted'
        BY <2>1, <4>1 DEF Unstarted
      <4> QED BY <1>u, <2>1, <4>1, <4>2, <4>3, <4>4, <4>5 DEF StartInv, SameInputs
    <3> QED BY <3>1, <3>2
  <2> QED BY <1>2, <2>3, <2>4, StepFinishes
<1>3. CASE KeysMade \/ NoKeys
  <2>1. steps # <<>> /\ step.at = "keys" /\ Finish
    BY <1>3, KeysOutcome
  <2>2. CASE Head(steps).op \in Notices
    BY <1>f, <2>1, <2>2
  <2>3. CASE Head(steps).op \notin Notices
    <3>1. input' = input /\ ~Begun
      BY <2>1, <2>3, NoticeApplied DEF Begun
    <3>2. ~Unstarted /\ ~Unstarted'
      BY <2>1, <3>1 DEF StartInv, Unstarted
    <3> QED BY <3>1, <3>2 DEF StartInv
  <2> QED BY <2>2, <2>3
<1>4. CASE Aside
  <2>1. UNCHANGED <<input, step>> /\ (Begun' <=> Begun)
    BY <1>4, AsideSteps
  <2>2. Unstarted' <=> Unstarted
    BY <2>1 DEF Unstarted
  <2>3. Unstarted => ~TimerFires /\ ~Outcomes
    BY DEF StartInv, TimerFires, Outcomes, Written, Removed, StaleRemoved, Refused, Postponed, Done
  <2>4. Unstarted => UNCHANGED <<lane, mem>> /\ run'.at = "idle"
    BY <1>4, <2>3, RestSteps DEF StartInv
  <2> QED BY <1>u, <2>1, <2>2, <2>4 DEF StartInv
<1>5. CASE Asking
  <2>1. UNCHANGED <<lane, run, step, mem>> /\ (Begun' <=> Begun)
    BY <1>5, AskingSteps
  <2>2. PICK what \in Notices :
          /\ what # "start"
          /\ input.queue # <<>> => /\ Head(input'.queue) = Head(input.queue)
                                   /\ Behind(input'.queue) = Behind(input.queue) \cup {what}
          /\ input.queue = <<>> => Head(input'.queue) = what /\ Behind(input'.queue) = {}
    <3>1. PICK what \in Notices :
            /\ what = "replaced" <=> SwitchLibrary
            /\ what = "update" <=> ~SwitchLibrary
            /\ input.queue # <<>> => /\ Head(input'.queue) = Head(input.queue)
                                     /\ Behind(input'.queue) = Behind(input.queue) \cup {what}
            /\ input.queue = <<>> => Head(input'.queue) = what /\ Behind(input'.queue) = {}
      BY <1>5, AskingSteps
    <3>2. what # "start"
      BY <3>1
    <3> QED BY <3>1, <3>2
  <2> QED BY <2>1, <2>2 DEF StartInv, Unstarted
<1>6. CASE EditItem
  <2>1. UNCHANGED <<steps, step, lane, run, mem>> /\ input' = [input EXCEPT !.dirty = TRUE]
    BY <1>6 DEF EditItem, machine, memory
  <2>2. input'.queue = input.queue /\ (Begun' <=> Begun)
    BY <1>0, <2>1 DEF Inputs, Begun
  <2> QED BY <2>1, <2>2 DEF StartInv, Unstarted
<1>7. CASE Crash
  <2>1. /\ input' = NoInput /\ lane' = NoLane /\ step' = NoStep /\ run' = NoRun
        /\ mem' = Nothing
    BY <1>7 DEF Crash
  <2>2. /\ Behind(input'.queue) = {} /\ ~lane'.enabled /\ ~lane'.timer
        /\ run'.at = "idle" /\ step'.at = "idle"
    BY <2>1 DEF NoInput, NoLane, NoStep, NoRun, Behind
  <2> QED BY <2>1, <2>2 DEF StartInv
<1> QED BY <1>1, <1>2, <1>3, <1>4, <1>5, <1>6, <1>7, NextCases DEF Notifier

LEMMA WorkSafe ==
    ASSUME LaneInv, InputsInv, WorkInv, Next
    PROVE  WorkInv'
<1> USE DEF LaneInv
<1>0. lane \in Lanes /\ host \in BOOLEAN
  BY DEF TypesInv
<1>1. CASE ReadInputs \/ InputsRead
  <2>1. UNCHANGED <<lane, run, step, mem>>
    BY <1>1 DEF ReadInputs, InputsRead, memory
  <2>2. CASE steps' = steps
    BY <2>1, <2>2 DEF WorkInv, Wakes
  <2>3. CASE steps' # steps
    <3>1. ReadInputs => (input.stale => shown = NONE)
      BY <2>3 DEF ReadInputs
    <3>2. input.queue # <<>>
      BY <1>1 DEF ReadInputs, InputsRead, ToldInv
    <3>3. PICK r \in StepCalls : Elems(steps') = Elems(steps) \cup {r} /\ r.op = Head(input.queue)
      BY <1>1, <3>1, NoticeTold, InputsTold
    <3>4. r.op # "resumed"
      BY <3>2, <3>3, TailElems DEF TypesInv, Inputs, Notices
    <3> QED BY <3>3, <3>4 DEF WorkInv, Wakes
  <2> QED BY <2>2, <2>3
<1>2. CASE LaneStep
  <2>1. steps # <<>> /\ step.at = "idle" /\ run' = run
    BY <1>2, StepOutcome
  <2>2. CASE step'.at = "keys"
    BY <2>2 DEF WorkInv, Wakes
  <2>3. CASE Finish /\ (Work(lane', mem') => lane'.running \/ Timed(lane'))
    <3>1. lane'.running <=> run'.at # "idle"
      BY <1>2, RunSafe, NextCases DEF RunInv
    <3> QED BY <2>3, <3>1 DEF WorkInv
  <2>4. CASE Finish /\ StepResumed /\ UNCHANGED <<lane, mem>>
    <3>1. Head(steps).op = "resumed"
      BY <2>4 DEF StepResumed, Begins
    <3>2. Elems(steps) = {Head(steps)} \cup Elems(steps')
      BY <2>1, <2>4, NoticeApplied, TailElems DEF TypesInv
    <3>3. Wakes => Wakes'
      BY <2>1, <3>1, <3>2 DEF Wakes
    <3> QED BY <2>1, <2>4, <3>3 DEF WorkInv
  <2> QED BY <1>2, <2>2, <2>3, <2>4, StepFinishes
<1>3. CASE KeysMade \/ NoKeys
  <2>1. step.at = "keys" /\ run' = run /\ SameInputs(lane', lane)
    BY <1>3, KeysOutcome
  <2>2. lane.enabled
    BY <2>1 DEF InputsInv, Known
  <2>3. lane'.running <=> run'.at # "idle"
    BY <1>3, RunSafe, NextCases DEF RunInv
  <2>4. CASE lane' = Scheduled(lane)
    <3>1. lane'.running \/ Timed(lane')
      BY <1>0, <2>4, WorkScheduled
    <3> QED BY <2>3, <3>1 DEF WorkInv
  <2>5. CASE lane' = Scheduled([lane EXCEPT !.waiting = FALSE])
    <3> DEFINE l == [lane EXCEPT !.waiting = FALSE]
    <3>1. l \in Lanes
      BY <1>0 DEF Lanes
    <3> HIDE DEF l
    <3>2. lane' = Scheduled(l)
      BY <2>5 DEF l
    <3>3. lane'.running \/ Timed(lane')
      BY <1>0, <3>1, <3>2, WorkScheduled
    <3> QED BY <2>3, <3>3 DEF WorkInv
  <2>6. CASE lane' = [lane EXCEPT !.status = "notReady"]
    BY <1>0, <2>6 DEF WorkInv, Timed, Lanes
  <2>8. CASE lane' = Scheduled([lane EXCEPT !.status = "notReady"])
    <3> DEFINE l == [lane EXCEPT !.status = "notReady"]
    <3>1. l \in Lanes
      BY <1>0 DEF Lanes
    <3> HIDE DEF l
    <3>2. lane' = Scheduled(l)
      BY <2>8 DEF l
    <3>3. lane'.running \/ Timed(lane')
      BY <1>0, <3>1, <3>2, WorkScheduled
    <3> QED BY <2>3, <3>3 DEF WorkInv
  <2>7. CASE mem.pending = NONE /\ mem' = mem
    BY <2>1, <2>2, <2>7 DEF WorkInv, Work, SameInputs
  <2> QED BY <1>3, <2>4, <2>5, <2>6, <2>7, <2>8 DEF KeysMade, NoKeys, Recomputed, memory
<1>4. CASE Aside
  <2>1. CASE TimerFires \/ Outcomes
    <3>1. \/ steps' = Append(steps, Step("followUp"))
          \/ run'.at # "idle"
      <4>1. CASE TimerFires
        <5>1. \/ steps' = Append(steps, Step("followUp"))
              \/ run' = [NoRun EXCEPT !.at = "sent",
                          !.update = IF lane.enabled THEN mem.pending ELSE NONE]
          BY <4>1 DEF TimerFires, FollowUp
        <5> QED BY <5>1 DEF NoRun
      <4>2. CASE Outcomes
        BY <4>2
        DEF Outcomes, Written, Removed, StaleRemoved, Refused, Postponed, Outcome, FollowUp
      <4> QED BY <2>1, <4>1, <4>2
    <3>2. Step("followUp") \in StepCalls /\ Step("followUp").op = "followUp"
      BY StepType DEF Ops
    <3>3. CASE steps' = Append(steps, Step("followUp"))
      <4>1. Step("followUp") \in Elems(steps')
        BY <3>2, <3>3, AppendElems DEF TypesInv
      <4> QED BY <3>2, <4>1 DEF WorkInv, Wakes
    <3> QED BY <3>1, <3>3 DEF WorkInv
  <2>2. CASE ~TimerFires /\ ~Outcomes
    <3>1. UNCHANGED <<lane, mem>> /\ (run'.at = "idle" <=> run.at = "idle")
      BY <1>4, <2>2, RestSteps
    <3>2. Wakes => Wakes'
      BY <1>4, AsideSteps DEF Wakes
    <3> QED BY <3>1, <3>2 DEF WorkInv
  <2> QED BY <2>1, <2>2
<1>5. CASE Asking \/ EditItem
  <2>1. UNCHANGED <<steps, step, lane, run, mem>>
    <3>1. CASE Asking
      BY <3>1, AskingSteps
    <3>2. CASE EditItem
      BY <3>2 DEF EditItem, machine, memory
    <3> QED BY <1>5, <3>1, <3>2
  <2> QED BY <2>1 DEF WorkInv, Wakes
<1>6. CASE Crash
  <2>1. lane' = NoLane /\ mem' = Nothing
    BY <1>6 DEF Crash
  <2>2. ~Work(lane', mem')
    BY <2>1 DEF Work, RemovalDue, NoLane, Nothing
  <2> QED BY <2>2 DEF WorkInv
<1> QED BY <1>1, <1>2, <1>3, <1>4, <1>5, <1>6, NextCases

-----------------------------------------------------------------------------
(* What is remembered as published is the newest                            *)

NewestInv ==
    /\ run.at # "idle" /\ run.update # NONE /\ mem.pending = NONE => mem.published = NONE
    /\ Known(lane) /\ "salt" \notin faults /\ step.at # "keys" =>
         /\ mem.pending # NONE => SameKeys(mem.pending, Snapshot(lane.counts, lane.items))
         /\ mem.pending = NONE =>
              /\ mem.published # NONE =>
                   SameKeys(mem.published, Snapshot(lane.counts, lane.items))
              /\ run.at # "idle" => run.update = NONE

\* A set computed from what the lane knows.
LEMMA NewestComputed ==
    ASSUME LaneInv, InputsInv, NewestInv, KeysMade
    PROVE  NewestInv'
<1> USE DEF LaneInv
<1> DEFINE s == Snapshot(step.counts, step.items)
<1>0. mem \in Memories
  BY DEF TypesInv
<1>1. step.at = "keys" /\ run' = run /\ SameInputs(lane', lane)
  BY KeysOutcome
<1>2. step.counts = lane.counts /\ step.items = lane.items /\ s # NONE
  BY <1>1, SnapshotType DEF InputsInv, TypesInv
<1>3. s = Snapshot(lane.counts, lane.items)
  BY <1>2
<1>4. Recomputed(s)
  BY DEF KeysMade
<1> HIDE DEF s
<1>5. CASE mem.pending # NONE /\ SameKeys(mem.pending, s) /\ mem' = mem
  BY <1>1, <1>3, <1>5 DEF NewestInv, SameInputs
<1>6. CASE mem.pending = NONE /\ mem.published # NONE /\ SameKeys(mem.published, s) /\ mem' = mem
  BY <1>1, <1>3, <1>6 DEF NewestInv, SameInputs
<1>7. CASE Remember(Kept(mem, s), Kept(store, s))
  <2>1. mem'.pending = s
    BY <1>0, <1>7 DEF Remember, Kept, Memories
  <2>2. SameKeys(s, s)
    BY DEF SameKeys
  <2> QED BY <1>1, <1>2, <1>3, <2>1, <2>2 DEF NewestInv, SameInputs
<1> QED BY <1>4, <1>5, <1>6, <1>7 DEF Recomputed, memory

\* What the outcome of a publish leaves of the memory.
LEMMA NewestOutcome ==
    ASSUME LaneInv, NewestInv, Outcomes
    PROVE  NewestInv'
<1> USE DEF LaneInv
<1>0. mem \in Memories /\ run.update \in Sets \cup {NONE}
  BY DEF TypesInv, Publishes
<1>1. run.at # "idle" /\ run'.at = "idle"
  BY DEF Outcomes, Written, Removed, StaleRemoved, Refused, Postponed, Outcome, Done, NoRun
<1>2. SameInputs(lane', lane) /\ step' = step
  BY AsideSteps DEF Aside
<1>3. "salt" \notin faults' => "salt" \notin faults
  BY FaultsGrow, NextCases DEF Aside
<1>w. ASSUME mem'.pending = mem.pending, mem'.published \in {NONE, mem.published}
      PROVE  NewestInv'
  BY <1>1, <1>2, <1>3, <1>w DEF NewestInv, SameInputs, Known
<1>4. CASE Written
  <2>1. /\ run.update # NONE /\ mem'.published = run.update
        /\ mem'.pending = IF SameFile(mem.pending, run.update) THEN NONE ELSE mem.pending
    BY <1>0, <1>4 DEF Written, Remember, Recorded, Memories
  <2> QED BY <1>1, <1>2, <1>3, <2>1 DEF NewestInv, SameInputs, Known, SameFile, SameKeys
<1>5. CASE Removed
  <2>1. CASE lane.enabled
    <3>1. mem'.pending = mem.pending /\ mem'.published = NONE
      BY <1>0, <1>5, <2>1 DEF Removed, Remember, Unpublished, Memories
    <3> QED BY <1>w, <3>1
  <2>2. CASE ~lane.enabled
    BY <1>1, <1>2, <2>2 DEF NewestInv, SameInputs, Known
  <2> QED BY <2>1, <2>2
<1>6. CASE StaleRemoved
  <2>1. mem'.pending = mem.pending /\ mem'.published = NONE
    BY <1>0, <1>6 DEF StaleRemoved, Remember, Unpublished, Memories
  <2> QED BY <1>w, <2>1
<1>7. CASE Refused \/ Postponed
  <2>1. mem' = mem
    BY <1>7 DEF Refused, Postponed, memory
  <2> QED BY <1>w, <2>1
<1> QED BY <1>4, <1>5, <1>6, <1>7 DEF Outcomes

LEMMA NewestSafe ==
    ASSUME LaneInv, InputsInv, StartInv, NewestInv, Next
    PROVE  NewestInv'
<1> USE DEF LaneInv
<1>0. lane \in Lanes /\ host \in BOOLEAN
  BY DEF TypesInv
<1>f. "salt" \notin faults' => "salt" \notin faults
  BY FaultsGrow
<1>u. ASSUME SameInputs(lane', lane), step'.at = step.at, mem' = mem,
             run'.at = "idle" <=> run.at = "idle", run'.update = run.update
      PROVE  NewestInv'
  BY <1>f, <1>u DEF NewestInv, SameInputs, Known
<1>1. CASE ReadInputs \/ InputsRead
  <2>1. UNCHANGED <<lane, run, step, mem>>
    BY <1>1 DEF ReadInputs, InputsRead, memory
  <2> QED BY <1>u, <2>1 DEF SameInputs
<1>2. CASE LaneStep
  <2>1. run' = run /\ step.at = "idle" /\ steps # <<>>
    BY <1>2, StepOutcome
  <2>2. \/ mem' = mem \/ run.at = "idle"
        \/ mem'.pending = NONE /\ mem'.published = NONE
    <3>1. ASSUME StepStart PROVE run.at = "idle"
      <4>1. Head(steps).op = "start" /\ Head(steps) \in Elems(steps)
        BY <2>1, <3>1, HeadStep DEF StepStart, Begins
      <4>2. input.at = "applying" /\ Head(input.queue) = "start" /\ input.queue # <<>>
        BY <4>1 DEF ToldInv, Told, Notices
      <4> QED BY <2>1, <4>2 DEF StartInv, Unstarted, Begun
    <3> QED BY <1>2, <3>1, StepMemory
  <2>3. step'.at = "keys" \/ (Known(lane') => SameInputs(lane', lane) /\ mem' = mem)
    BY <1>2, StepFinishes
  <2> QED BY <1>f, <2>1, <2>2, <2>3 DEF NewestInv, SameInputs, Known
<1>3. CASE KeysMade
  BY <1>3, NewestComputed
<1>4. CASE NoKeys
  <2>1. "salt" \in faults' /\ mem' = mem
    BY <1>4, FailsAdds DEF NoKeys
  <2>2. run' = run
    BY <1>4, KeysOutcome
  <2> QED BY <2>1, <2>2 DEF NewestInv
<1>5. CASE Aside
  <2>1. SameInputs(lane', lane) /\ step' = step
    BY <1>5, AsideSteps
  <2>2. CASE TimerFires
    <3>1. mem' = mem /\ run.at = "idle"
      BY <2>2 DEF TimerFires, memory, RunInv
    <3>2. CASE lane.enabled /\ mem.pending = NONE
      <4>1. run' = run
        BY <2>2, <3>2 DEF TimerFires
      <4> QED BY <1>u, <2>1, <3>1, <4>1
    <3>3. CASE ~(lane.enabled /\ mem.pending = NONE)
      <4>1. run' = [NoRun EXCEPT !.at = "sent",
                      !.update = IF lane.enabled THEN mem.pending ELSE NONE]
        BY <2>2, <3>3 DEF TimerFires
      <4>2. run'.update = IF lane.enabled THEN mem.pending ELSE NONE
        BY <4>1 DEF NoRun
      <4> QED BY <1>f, <2>1, <3>1, <3>3, <4>2 DEF NewestInv, SameInputs, Known
    <3> QED BY <3>2, <3>3
  <2>3. CASE Outcomes
    BY <2>3, NewestOutcome
  <2>4. CASE ~TimerFires /\ ~Outcomes
    BY <1>5, <1>u, <2>1, <2>4, RestSteps
  <2> QED BY <2>2, <2>3, <2>4
<1>6. CASE Asking \/ EditItem
  <2>1. UNCHANGED <<step, lane, run, mem>>
    <3>1. CASE Asking
      BY <3>1, AskingSteps
    <3>2. CASE EditItem
      BY <3>2 DEF EditItem, machine, memory
    <3> QED BY <1>6, <3>1, <3>2
  <2> QED BY <1>u, <2>1 DEF SameInputs
<1>7. CASE Crash
  <2>1. lane' = NoLane /\ run' = NoRun
    BY <1>7 DEF Crash
  <2>2. ~Known(lane') /\ run'.at = "idle"
    BY <2>1 DEF Known, NoLane, NoRun
  <2> QED BY <2>2 DEF NewestInv
<1> QED BY <1>1, <1>2, <1>3, <1>4, <1>5, <1>6, <1>7, NextCases

RestInv == LaneInv /\ LateInv /\ InputsInv /\ StartInv /\ WorkInv /\ NewestInv

LEMMA RestInit == Init => RestInv
<1> SUFFICES ASSUME Init PROVE RestInv
  OBVIOUS
<1>1. /\ input = NoInput /\ lane = NoLane /\ step = NoStep /\ run = NoRun /\ mem = Nothing
  BY DEF Init
<1>2. /\ Behind(input.queue) = {} /\ ~lane.enabled /\ ~lane.timer /\ run.at = "idle"
      /\ step.at = "idle"
  BY <1>1 DEF NoInput, NoLane, NoStep, NoRun, Behind
<1>3. StartInv /\ NewestInv
  BY <1>1, <1>2 DEF StartInv, NewestInv, Known
<1>4. WorkInv
  BY <1>1, <1>2 DEF WorkInv, Work, RemovalDue, Nothing
<1> QED BY <1>3, <1>4, LaneInit, InputsInit DEF RestInv

LEMMA RestAlways == Spec => []RestInv
<1>1. RestInv /\ [Next]_vars => RestInv'
  <2> SUFFICES ASSUME RestInv, [Next]_vars PROVE RestInv'
    OBVIOUS
  <2>1. CASE Next
    BY <2>1, LaneSafe, LateSafe, InputsSafe, StartSafe, WorkSafe, NewestSafe DEF RestInv
  <2>2. CASE UNCHANGED vars
    <3>1. UNCHANGED <<library, shown, on, input, steps, step, lane, run, mem, faults>>
      BY <2>2 DEF vars, phone, memory, notifier
    <3>2. LateInv' /\ InputsInv'
      BY <3>1 DEF RestInv, LateInv, InputsInv, LastNotice, Applied, Begun, Known
    <3>3. StartInv' /\ WorkInv' /\ NewestInv'
      BY <3>1 DEF RestInv, StartInv, Unstarted, Begun, WorkInv, Wakes, NewestInv, Known
    <3> QED BY <2>2, <3>2, <3>3, LaneSafe DEF RestInv
  <2> QED BY <2>1, <2>2
<1> QED BY <1>1, RestInit, PTL DEF Spec

\* With nothing left to do the lane knows the switch and the loans of now, and
\* has no work that it does not say it waits with.
LEMMA AtRest ==
    ASSUME RestInv, Quiet
    PROVE  /\ lane.enabled = on /\ lane.counts = shown /\ lane.items = input.items
           /\ ~input.stale => input.items = ItemsOf(library)
           /\ step.at # "keys" /\ run.at = "idle"
           /\ Work(lane, mem) => lane.status = "notReady"
<1> USE DEF RestInv, LaneInv, Quiet
<1>1. input.at = "idle" /\ LastNotice /\ Applied
  BY EmptyElems DEF TypesInv, Inputs, ToldInv, LastNotice, Applied
<1>2. ~Wakes /\ step.at # "keys"
  BY EmptyElems DEF Wakes, ToldInv
<1> QED BY <1>1, <1>2 DEF InputsInv, WorkInv, Timed

\* AvailabilityLane: when nothing is left to do, with the lane on, an open vault
\* and a catalogue that was read, the set remembered as published shows the
\* loans of now, unless the lane says that it waits or keys could not be made.
THEOREM QuietNewest == Spec => []QuietIsNewest
<1>1. RestInv => QuietIsNewest
  <2> SUFFICES ASSUME RestInv, Quiet, on, shown # NONE, ~input.stale, mem.published # NONE,
                      lane.status # "notReady", "salt" \notin faults
               PROVE  SameKeys(mem.published, Snapshot(shown, ItemsOf(library)))
    BY DEF QuietIsNewest
  <2>1. /\ lane.enabled /\ lane.counts = shown /\ lane.items = ItemsOf(library)
        /\ step.at # "keys" /\ mem.pending = NONE
    BY AtRest DEF Work
  <2>2. ItemsOf(library) # NONE
    BY OfLibraryType, NoneApart DEF RestInv, LaneInv, TypesInv
  <2> QED BY <2>1, <2>2 DEF RestInv, NewestInv, Known
<1> QED BY <1>1, RestAlways, PTL

-----------------------------------------------------------------------------
(* The record and the site                                                  *)

\* As long as nothing failed, the record names the file of the site, but for a
\* commit that has landed and is not answered yet.
RecordInv ==
    faults = {} =>
      /\ turn.at = "landed" => site = turn.site
      /\ turn.at # "landed" => record.file = site.file
      /\ InHand => turn.record.file = turn.site.file

LEMMA RecordSafe ==
    ASSUME LaneInv, RecordInv, Next
    PROVE  RecordInv'
<1> USE DEF LaneInv
<1>f. faults' = {} => faults = {} /\ faults' = faults
  BY FaultsGrow
<1>u. ASSUME UNCHANGED <<site, turn>>, record'.file = record.file PROVE RecordInv'
  BY <1>f, <1>u DEF RecordInv, InHand
<1>n. NoTurn.at = "idle"
  BY DEF NoTurn
<1>1. CASE LaneStep
  <2>1. UNCHANGED world /\ turn' = turn
    <3>1. UNCHANGED world /\ \E l \in Lanes : \/ \E now \in BOOLEAN : AskKeys(l, now)
                                             \/ UNCHANGED queue
      BY <1>1, StepOutcome
    <3> QED BY <3>1 DEF AskKeys, queue
  <2> QED BY <1>u, <2>1 DEF world
<1>2. CASE ReadInputs \/ InputsRead \/ LibraryNotified \/ KeysMade \/ NoKeys \/ TimerFires
             \/ Outcomes \/ SessionEnds \/ User
  <2>1. UNCHANGED <<site, record, turn>>
    BY <1>2
    DEF ReadInputs, InputsRead, LibraryNotified, KeysMade, NoKeys, Keys, TimerFires, Outcomes,
        Written, Removed, StaleRemoved, Refused, Postponed, Outcome, SessionEnds, User, Lend,
        Unlock, Lock, EditItem, Switch, ChangeHost, Press, Publish, Restore, machine, world, queue
  <2> QED BY <1>u, <2>1
<1>3. CASE LaneBegins
  <2>1. turn.at = "idle" /\ UNCHANGED <<site, record>>
    BY <1>3 DEF LaneBegins, Turn, world
  <2>2. CASE turn' = NoTurn
    BY <1>f, <1>n, <2>1, <2>2 DEF RecordInv, InHand
  <2>3. CASE \E f \in Sets \cup {NONE} : PlanFile(f)
    <3>1. PICK f \in Sets \cup {NONE} : PlanFile(f)
      BY <2>3
    <3>2. turn'.at = "planned" /\ turn'.record.file = f /\ turn'.site.file = f
      <4>1. /\ turn'.at = "planned" /\ turn'.site = [site EXCEPT !.file = f]
            /\ turn'.record = [Reconciled EXCEPT !.file = f]
        BY <3>1, LanePlans
      <4>2. site \in Sites /\ Reconciled \in Records
        BY ReconciledType DEF TypesInv
      <4> QED BY <4>1, <4>2 DEF Sites, Records
    <3> QED BY <1>f, <2>1, <3>2 DEF RecordInv
  <2> QED BY <1>3, <2>2, <2>3 DEF LaneBegins, Answers, TypesInv, Publishes
<1>4. CASE CatalogueBegins
  <2>1. turn.at = "idle" /\ UNCHANGED <<site, record>>
    BY <1>4 DEF CatalogueBegins, Turn, world
  <2>2. CASE ~host
    <3>1. turn' = NoTurn
      BY <1>4, <2>2 DEF CatalogueBegins, Answers
    <3> QED BY <1>f, <1>n, <2>1, <3>1 DEF RecordInv, InHand
  <2>3. CASE host
    <3>1. /\ turn'.at = "planned" /\ turn'.site.file = CatalogueFile(site.file)
          /\ turn'.record.file = CatalogueFile(Reconciled.file)
      BY <1>4, <2>3, CataloguePlans
    <3>2. record.file = site.file => Reconciled.file = site.file
      BY ReconciledType
    <3> QED BY <1>f, <2>1, <3>1, <3>2 DEF RecordInv, CatalogueFile
  <2> QED BY <2>2, <2>3
<1>5. CASE Lands
  <2>1. /\ turn.at = "planned" /\ site' = turn.site /\ turn' = [turn EXCEPT !.at = "landed"]
        /\ faults' = faults
    BY <1>5 DEF Lands, memory
  <2>2. turn'.at = "landed" /\ turn'.site = turn.site /\ turn'.record = turn.record
    BY <2>1 DEF TypesInv, Turns
  <2> QED BY <2>1, <2>2 DEF RecordInv, InHand
<1>6. CASE NotSent
  <2>1. turn.at # "landed" /\ turn' = NoTurn /\ UNCHANGED <<site, record>>
    BY <1>6 DEF NotSent, Answers, world
  <2> QED BY <1>f, <1>n, <2>1 DEF RecordInv, InHand
<1>7. CASE Accepted
  <2>1. turn.at = "landed" /\ turn' = NoTurn /\ site' = site
    BY <1>7 DEF Accepted, Answers
  <2>2. faults' = faults => record' = turn.record
    BY <1>7, FailsAdds DEF Accepted
  <2> QED BY <1>f, <1>n, <2>1, <2>2 DEF RecordInv, InHand
<1>8. CASE AnswerLost \/ OtherWriter \/ Crash
  <2>1. faults' # faults
    BY <1>8, FailsAdds DEF AnswerLost, OtherWriter, Crash
  <2> QED BY <1>f, <2>1 DEF RecordInv
<1>9. CASE ResetKeys \/ SwitchLibrary
  <2>1. turn.at \in {"idle", "reset"} /\ turn'.at \in {"idle", "reset"}
    BY <1>9, <1>n DEF ResetKeys, SwitchLibrary, Turn, NoTurn
  <2>2. site' = site /\ record'.file = record.file
    BY <1>9 DEF ResetKeys, SwitchLibrary, world, TypesInv, Records
  <2> QED BY <1>f, <2>1, <2>2 DEF RecordInv, InHand
<1> QED BY <1>1, <1>2, <1>3, <1>4, <1>5, <1>6, <1>7, <1>8, <1>9
    DEF Next, Notifier, Lane, LaneStep, Queue

\* AvailabilityLaneMemory.removalDue: when nothing is left to do and the lane is
\* off, a file still on the site is not one the lane remembers, unless the lane
\* says what it waits for; and as long as nothing failed, the next catalogue
\* publish removes it.
THEOREM QuietOff == Spec => []QuietIsOff
<1>1. Init => RecordInv
  <2> SUFFICES ASSUME Init PROVE RecordInv
    OBVIOUS
  <2>1. turn.at = "idle" /\ record.file = site.file
    BY DEF Init, NoTurn
  <2> QED BY <2>1 DEF RecordInv, InHand
<1>2. RestInv /\ RecordInv /\ [Next]_vars => RecordInv'
  <2> SUFFICES ASSUME RestInv, RecordInv, [Next]_vars PROVE RecordInv'
    OBVIOUS
  <2>1. CASE Next
    BY <2>1, RecordSafe DEF RestInv
  <2>2. CASE UNCHANGED vars
    <3>1. UNCHANGED <<site, record, turn, faults>>
      BY <2>2 DEF vars, world, queue, memory
    <3> QED BY <3>1 DEF RecordInv, InHand
  <2> QED BY <2>1, <2>2
<1>3. RestInv /\ RecordInv => QuietIsOff
  <2> SUFFICES ASSUME RestInv, RecordInv, Quiet, ~on, site.file # NONE
               PROVE  /\ RemovalDue(mem) => lane.status = "notReady"
                      /\ faults = {} => FileOfCatalogue = "removed"
    BY DEF QuietIsOff
  <2>1. RemovalDue(mem) => lane.status = "notReady"
    BY AtRest DEF Work
  <2>2. ASSUME faults = {} PROVE FileOfCatalogue = "removed"
    <3>1. turn.at # "landed"
      BY DEF RestInv, LaneInv, TurnsInv, InHand, Quiet
    <3>2. Reconciled.file # NONE
      BY <2>2, <3>1, ReconciledType DEF RecordInv, RestInv, LaneInv
    <3> QED BY <3>2 DEF FileOfCatalogue
  <2> QED BY <2>1, <2>2
<1> QED BY <1>1, <1>2, <1>3, RestAlways, PTL DEF Spec

-----------------------------------------------------------------------------
(* The ids of the library                                                   *)

\* x waits somewhere ahead of y.
Before(q, x, y) == \E i, j \in 1 .. Len(q) : i < j /\ q[i] = x /\ q[j] = y

LEMMA BeforeAppend ==
    ASSUME NEW S, NEW q \in Seq(S), NEW z \in S, NEW x, NEW y, Before(Append(q, z), x, y)
    PROVE  Before(q, x, y) \/ (y = z /\ x \in Elems(q))
<1> DEFINE r == Append(q, z)
           n == Len(q)
<1>1. n \in Nat /\ Len(r) = n + 1 /\ r[n + 1] = z
  OBVIOUS
<1>2. \A i \in 1 .. n : r[i] = q[i]
  OBVIOUS
<1>3. PICK i \in 1 .. n + 1, j \in 1 .. n + 1 : i < j /\ r[i] = x /\ r[j] = y
  BY <1>1 DEF Before
<1>4. i \in 1 .. n
  BY <1>1, <1>3
<1>5. CASE j \in 1 .. n
  BY <1>2, <1>3, <1>4, <1>5 DEF Before
<1>6. CASE j = n + 1
  BY <1>1, <1>2, <1>3, <1>4, <1>6 DEF Elems
<1> QED BY <1>1, <1>5, <1>6

LEMMA BeforeTail ==
    ASSUME NEW S, NEW q \in Seq(S), q # <<>>, NEW x, NEW y
    PROVE  /\ Before(Tail(q), x, y) => Before(q, x, y)
           /\ Head(q) = x /\ y \in Behind(q) => Before(q, x, y)
<1> DEFINE t == Tail(q)
           n == Len(q)
<1>1. /\ n \in Nat /\ n >= 1 /\ Len(t) = n - 1 /\ Head(q) = q[1]
      /\ \A i \in 1 .. n - 1 : t[i] = q[i + 1]
  OBVIOUS
<1>2. ASSUME Before(t, x, y) PROVE Before(q, x, y)
  <2>1. PICK i \in 1 .. n - 1, j \in 1 .. n - 1 : i < j /\ t[i] = x /\ t[j] = y
    BY <1>1, <1>2 DEF Before
  <2>2. i + 1 \in 1 .. n /\ j + 1 \in 1 .. n /\ i + 1 < j + 1
    BY <1>1, <2>1
  <2>3. q[i + 1] = x /\ q[j + 1] = y
    BY <1>1, <2>1
  <2> QED BY <2>2, <2>3 DEF Before
<1>3. ASSUME Head(q) = x, y \in Behind(q) PROVE Before(q, x, y)
  <2>1. PICK j \in 2 .. n : q[j] = y
    BY <1>3 DEF Behind
  <2>2. 1 \in 1 .. n /\ j \in 1 .. n /\ 1 < j /\ q[1] = x
    BY <1>1, <1>3, <2>1
  <2> QED BY <2>1, <2>2 DEF Before
<1> QED BY <1>2, <1>3

\* Only a publish that is asked for comes behind a restore, and only the lane's
\* timer sends its publish behind a catalogue publish.
LEMMA QueueOrder ==
    ASSUME LaneInv, Next
    PROVE  /\ Publish \/ ("catalogue" \in Elems(pubq') => "catalogue" \in Elems(pubq))
           /\ Publish \/ (Before(pubq', "restore", "catalogue") =>
                            Before(pubq, "restore", "catalogue"))
           /\ TimerFires \/ (Before(pubq', "catalogue", "lane") =>
                               Before(pubq, "catalogue", "lane"))
           /\ \/ pubq' = pubq \/ pubq' = <<>> \/ (pubq # <<>> /\ pubq' = Tail(pubq))
              \/ \E x \in Turners : pubq' = Append(pubq, x)
<1> USE DEF LaneInv
<1>0. pubq \in Seq(Turners)
  BY DEF TypesInv
<1>a. ASSUME NEW x \in Turners, pubq' = Append(pubq, x)
      PROVE  /\ x = "catalogue" \/ ("catalogue" \in Elems(pubq') => "catalogue" \in Elems(pubq))
             /\ x = "catalogue" \/ (Before(pubq', "restore", "catalogue") =>
                                      Before(pubq, "restore", "catalogue"))
             /\ x = "lane" \/ (Before(pubq', "catalogue", "lane") =>
                                 Before(pubq, "catalogue", "lane"))
  <2>1. Elems(pubq') = Elems(pubq) \cup {x}
    BY <1>0, <1>a, AppendElems
  <2>2. \A v, w : Before(pubq', v, w) => Before(pubq, v, w) \/ w = x
    BY <1>0, <1>a, BeforeAppend
  <2> QED BY <2>1, <2>2
<1>t. ASSUME pubq # <<>>, pubq' = Tail(pubq)
      PROVE  /\ "catalogue" \in Elems(pubq') => "catalogue" \in Elems(pubq)
             /\ Before(pubq', "restore", "catalogue") => Before(pubq, "restore", "catalogue")
             /\ Before(pubq', "catalogue", "lane") => Before(pubq, "catalogue", "lane")
  BY <1>0, <1>t, TurnEnds, BeforeTail
<1> DEFINE Goal == /\ Publish \/ ("catalogue" \in Elems(pubq') => "catalogue" \in Elems(pubq))
                   /\ Publish \/ (Before(pubq', "restore", "catalogue") =>
                                    Before(pubq, "restore", "catalogue"))
                   /\ TimerFires \/ (Before(pubq', "catalogue", "lane") =>
                                       Before(pubq, "catalogue", "lane"))
                   /\ \/ pubq' = pubq \/ pubq' = <<>> \/ (pubq # <<>> /\ pubq' = Tail(pubq))
                      \/ \E x \in Turners : pubq' = Append(pubq, x)
<1>s. ASSUME pubq' = pubq \/ (pubq # <<>> /\ pubq' = Tail(pubq)) \/ pubq' = Append(pubq, "keys")
      PROVE  Goal
  <2>1. CASE pubq' = pubq
    BY <2>1
  <2>2. CASE pubq # <<>> /\ pubq' = Tail(pubq)
    BY <1>t, <2>2
  <2>3. CASE pubq' = Append(pubq, "keys")
    <3>1. "keys" \in Turners
      BY DEF Turners
    <3> QED BY <1>a, <2>3, <3>1
  <2> QED BY <1>s, <2>1, <2>2, <2>3
<1> SUFFICES Goal
  OBVIOUS
<1>1. CASE Publish
  <2>1. pubq' = Append(pubq, "catalogue") /\ "catalogue" \in Turners
    BY <1>1 DEF Publish, Turners
  <2> QED BY <1>1, <1>a, <2>1
<1>2. CASE TimerFires
  <2>1. "lane" \in Turners /\ (pubq' = pubq \/ pubq' = Append(pubq, "lane"))
    BY <1>2 DEF TimerFires, Turners
  <2>2. CASE pubq' = Append(pubq, "lane")
    BY <1>2, <1>a, <2>1, <2>2
  <2> HIDE DEF Goal
  <2> QED BY <1>s, <2>1, <2>2
<1>3. CASE Restore
  <2>1. pubq' = Append(pubq, "restore") /\ "restore" \in Turners
    BY <1>3 DEF Restore, Turners
  <2> QED BY <1>a, <2>1
<1>4. CASE Crash
  <2>1. pubq' = <<>>
    BY <1>4 DEF Crash
  <2>2. \A v, w : ~Before(<<>>, v, w)
    BY DEF Before
  <2> QED BY <2>1, <2>2, EmptyElems
<1> HIDE DEF Goal
<1>5. CASE LaneStep
  <2>1. (\E l \in Lanes : \E now \in BOOLEAN : AskKeys(l, now)) \/ UNCHANGED queue
    BY <1>5, StepOutcome
  <2>2. pubq' = pubq \/ pubq' = Append(pubq, "keys")
    BY <2>1 DEF AskKeys, queue
  <2> QED BY <1>s, <2>2
<1>6. CASE KeysMade \/ NoKeys
  BY <1>6, <1>s, KeysOutcome
<1>7. CASE LaneBegins \/ CatalogueBegins \/ NotSent \/ Accepted \/ AnswerLost \/ ResetKeys
             \/ SwitchLibrary
  <2>1. pubq # <<>> /\ (pubq' = pubq \/ pubq' = Tail(pubq))
    BY <1>7
    DEF LaneBegins, CatalogueBegins, NotSent, Accepted, AnswerLost, ResetKeys, SwitchLibrary,
        Turn, Answers, Plan, PlanFile, TurnsInv, InHand
  <2> QED BY <1>s, <2>1
<1>8. CASE Notifier \/ Outcomes \/ SessionEnds \/ Lands \/ OtherWriter
  <2>1. pubq' = pubq
    BY <1>8
    DEF Notifier, ReadInputs, InputsRead, LibraryNotified, Outcomes, Written, Removed,
        StaleRemoved, Refused, Postponed, Outcome, SessionEnds, Lands, OtherWriter, machine, queue
  <2> QED BY <1>s, <2>1
<1>9. CASE Lend \/ Unlock \/ Lock \/ EditItem \/ Switch \/ ChangeHost \/ Press
  <2>1. pubq' = pubq
    BY <1>9 DEF Lend, Unlock, Lock, EditItem, Switch, ChangeHost, Press, machine, queue
  <2> QED BY <1>s, <2>1
<1> QED BY <1>1, <1>2, <1>3, <1>4, <1>5, <1>6, <1>7, <1>8, <1>9
    DEF Next, Lane, LaneStep, Queue, User

\* No restore that the lane has not applied yet, but for the notice it works on.
LastReplaced == "replaced" \notin Behind(input.queue)
Current == LastReplaced /\ (input.queue # <<>> /\ Head(input.queue) = "replaced" => Begun)

LEMMA QueueParts ==
    ASSUME LaneInv
    PROVE  /\ input.queue # <<>> =>
                Elems(input.queue) = {Head(input.queue)} \cup Behind(input.queue)
           /\ input.queue = <<>> => Elems(input.queue) = {} /\ Behind(input.queue) = {}
           /\ ~Current => "replaced" \in Elems(input.queue)
<1>1. input.queue \in Seq(Notices)
  BY DEF LaneInv, TypesInv, Inputs
<1>2. input.queue # <<>> => Elems(input.queue) = {Head(input.queue)} \cup Behind(input.queue)
  BY <1>1, TailElems
<1> QED BY <1>2, EmptyElems DEF Current, LastReplaced

LEMMA CurrentKept ==
    ASSUME LaneInv, Next, ~SwitchLibrary, ~Crash
    PROVE  /\ "replaced" \in Elems(input'.queue) => "replaced" \in Elems(input.queue)
           /\ Current' => Current \/ StepReplaced
           /\ LastReplaced' => LastReplaced \/ ~Told'
           /\ LaneStep /\ Head(steps).op \in Notices /\ Current' => LastReplaced
<1> USE DEF LaneInv
<1> DEFINE Goal == /\ "replaced" \in Elems(input'.queue) => "replaced" \in Elems(input.queue)
                   /\ Current' => Current \/ StepReplaced
                   /\ LastReplaced' => LastReplaced \/ ~Told'
                   /\ LaneStep /\ Head(steps).op \in Notices /\ Current' => LastReplaced
<1> SUFFICES Goal
  OBVIOUS
<1>0. input \in Inputs
  BY DEF TypesInv
<1>s. ASSUME input'.queue = input.queue, Begun' => Begun PROVE Goal
  <2>1. (LastReplaced' <=> LastReplaced) /\ (Current' => Current)
    BY <1>s DEF LastReplaced, Current
  <2> QED BY <1>s, <2>1 DEF Current
<1>n. ASSUME steps # <<>>, Finish, Head(steps).op \in Notices
      PROVE  /\ "replaced" \in Elems(input'.queue) => "replaced" \in Elems(input.queue)
             /\ Current' => LastReplaced
             /\ ~Told' /\ Head(steps).op = Head(input.queue)
  <2>1. /\ input.queue # <<>> /\ ~Begun' /\ Elems(input'.queue) = Behind(input.queue)
        /\ ~Told' /\ Head(steps).op = Head(input.queue)
    BY <1>n, NoticeApplied
  <2>2. input'.queue \in Seq(Notices)
    BY <1>n, FinishEnds DEF Inputs
  <2>3. Current' => "replaced" \notin Elems(input'.queue)
    <3>1. CASE input'.queue = <<>>
      BY <3>1, EmptyElems
    <3>2. CASE input'.queue # <<>>
      <4>1. Elems(input'.queue) = {Head(input'.queue)} \cup Behind(input'.queue)
        BY <2>2, <3>2, TailElems
      <4> QED BY <2>1, <3>2, <4>1 DEF Current, LastReplaced
    <3> QED BY <3>1, <3>2
  <2>4. Behind(input.queue) \subseteq Elems(input.queue)
    BY <2>1, QueueParts
  <2> QED BY <2>1, <2>3, <2>4 DEF LastReplaced
<1> HIDE DEF Goal
<1>1. CASE ReadInputs \/ InputsRead
  <2>1. input'.queue = input.queue
    BY <1>0, <1>1 DEF ReadInputs, InputsRead, Inputs
  <2>2. ~Begun'
    <3>1. CASE input'.at # "applying"
      BY <3>1 DEF Begun
    <3>2. CASE input'.at = "applying"
      <4>1. ASSUME ReadInputs, input.stale, shown # NONE PROVE FALSE
        <5>1. input' = [input EXCEPT !.at = "reading", !.counts = shown, !.stale = FALSE]
          BY <4>1 DEF ReadInputs
        <5>2. input'.at = "reading"
          BY <1>0, <5>1 DEF Inputs
        <5> QED BY <3>2, <5>2
      <4> QED BY <1>1, <4>1, NoticeTold, InputsTold
    <3> QED BY <3>1, <3>2
  <2> QED BY <1>s, <2>1, <2>2
<1>2. CASE LaneStep
  <2>1. steps # <<>> /\ step.at = "idle" /\ ~Begun
    BY <1>2, StepOutcome DEF Begun
  <2>2. Head(steps) \in Elems(steps)
    BY <2>1, HeadStep
  <2>3. CASE Head(steps).op \notin Notices
    <3>1. input' = input /\ ~Begun'
      <4>1. CASE UNCHANGED <<steps, input>>
        BY <2>3, <4>1 DEF Begun
      <4>2. CASE Finish
        BY <2>1, <2>3, <4>2, NoticeApplied
      <4> QED BY <1>2, <4>1, <4>2, StepFinishes
    <3> QED BY <1>s, <3>1
  <2>4. CASE Head(steps).op \in Notices
    <3>1. /\ Head(steps).op = Head(input.queue) /\ input.queue # <<>>
          /\ Head(steps).op = "replaced" => StepReplaced
      <4>1. Head(steps).op = "replaced" => StepReplaced
        BY <1>2
        DEF LaneStep, StepStart, StepUpdate, StepReplaced, StepResumed, StepSitePublished,
            StepNow, StepFollowUp, Begins
      <4> QED BY <2>2, <2>4, <4>1 DEF ToldInv, Told
    <3>2. CASE Finish
      <4>1. LastReplaced => Current \/ StepReplaced
        BY <3>1 DEF Current
      <4>2. /\ "replaced" \in Elems(input'.queue) => "replaced" \in Elems(input.queue)
            /\ Current' => LastReplaced
            /\ ~Told'
        BY <1>n, <2>1, <2>4, <3>2
      <4> QED BY <4>1, <4>2 DEF Goal
    <3>3. CASE UNCHANGED <<steps, input>>
      <4>1. LastReplaced' <=> LastReplaced
        BY <3>3 DEF LastReplaced
      <4>2. Current' => LastReplaced
        BY <4>1 DEF Current
      <4>3. LastReplaced => Current \/ StepReplaced
        BY <3>1 DEF Current
      <4> QED BY <3>3, <4>1, <4>2, <4>3 DEF Goal
    <3> QED BY <1>2, <3>2, <3>3, StepFinishes
  <2> QED BY <2>3, <2>4
<1>3. CASE KeysMade \/ NoKeys
  <2>1. steps # <<>> /\ step.at = "keys" /\ Finish
    BY <1>3, KeysOutcome
  <2>2. ~LaneStep
    BY <2>1, StepOutcome
  <2>3. CASE Head(steps).op \notin Notices
    <3>1. input' = input /\ ~Begun'
      BY <2>1, <2>3, NoticeApplied
    <3> QED BY <1>s, <3>1
  <2>4. CASE Head(steps).op \in Notices
    <3>1. input.at = "applying" /\ Begun
      BY <2>1, <2>4, NoticeApplied DEF Begun
    <3>2. LastReplaced => Current
      BY <3>1 DEF Current
    <3>3. /\ "replaced" \in Elems(input'.queue) => "replaced" \in Elems(input.queue)
          /\ Current' => LastReplaced
          /\ ~Told'
      BY <1>n, <2>1, <2>4
    <3> QED BY <2>2, <3>2, <3>3 DEF Goal
  <2> QED BY <2>3, <2>4
<1>4. CASE Aside
  <2>1. input' = input /\ (Begun' <=> Begun)
    BY <1>4, AsideSteps
  <2> QED BY <1>s, <2>1
<1>5. CASE Asking
  <2>1. /\ Elems(input'.queue) = Elems(input.queue) \cup {"update"}
        /\ input.queue # <<>> => /\ Head(input'.queue) = Head(input.queue)
                                 /\ Behind(input'.queue) = Behind(input.queue) \cup {"update"}
        /\ Begun' <=> Begun
        /\ steps' = steps /\ step' = step
    BY <1>5, AskingSteps
  <2>2. LastReplaced' => LastReplaced
    BY <2>1, QueueParts DEF LastReplaced
  <2>3. Current' => Current
    <3>1. input'.queue # <<>>
      BY <1>5, AskingSteps
    <3> QED BY <2>1, <2>2, <3>1 DEF Current
  <2> QED BY <2>1, <2>2, <2>3 DEF Goal, Current
<1>6. CASE EditItem
  <2>1. UNCHANGED <<steps, step>> /\ input' = [input EXCEPT !.dirty = TRUE]
    BY <1>6 DEF EditItem, machine
  <2>2. input'.queue = input.queue /\ (Begun' <=> Begun)
    BY <1>0, <2>1 DEF Inputs, Begun
  <2> QED BY <1>s, <2>2
<1> QED BY <1>1, <1>2, <1>3, <1>4, <1>5, <1>6, NextCases

\* What a restore leaves of the ids that were read: the notifier's items, what
\* the lane was told in one notice, and what it works with.
IdsInv ==
    /\ ~input.stale /\ input.at # "reading" /\ input.items # NONE /\ shown # NONE =>
          input.items.id = library.id
    /\ LastReplaced => \A r \in Elems(steps) :
          r.op \in Notices /\ r.counts # NONE /\ r.items # NONE => r.items.id = library.id
    /\ Current /\ lane.counts # NONE /\ lane.items # NONE => lane.items.id = library.id

\* The id changes in one step, and in that step alone.
LEMMA SameIds ==
    ASSUME LaneInv, Next
    PROVE  /\ ~SwitchLibrary => library'.id = library.id
           /\ outlived => outlived'
           /\ StepReplaced \/ outlived' = outlived
<1>1. ~SwitchLibrary => library'.id = library.id
  BY RestoresKept DEF LaneInv
<1>2. CASE StepReplaced
  <2>1. outlived \in BOOLEAN /\ \E l \in {WithInputs([lane EXCEPT !.timer = FALSE])} : SetsOutlive(l)
    BY <1>2 DEF StepReplaced, LaneInv, TypesInv
  <2> QED BY <1>1, <1>2, <2>1 DEF SetsOutlive
<1>3. CASE ~StepReplaced
  <2> SUFFICES outlived' = outlived
    BY <1>1
  <2>1. CASE Aside \/ Asking
    BY <2>1, AsideSteps, AskingSteps
  <2>2. CASE ReadInputs \/ InputsRead \/ KeysMade \/ NoKeys \/ EditItem \/ Crash
    BY <2>2 DEF ReadInputs, InputsRead, KeysMade, NoKeys, Keys, EditItem, Crash, phone
  <2>3. CASE LaneStep
    BY <1>3, <2>3
    DEF LaneStep, StepStart, StepUpdate, StepResumed, StepSitePublished, StepNow,
        StepFollowUp, phone
  <2> QED BY <2>1, <2>2, <2>3, NextCases
<1> QED BY <1>2, <1>3

\* The restore itself, and what the lane has to be told of it.
LEMMA Switched ==
    ASSUME LaneInv, SwitchLibrary
    PROVE  /\ pubq # <<>> /\ Head(pubq) = "restore" /\ pubq' = Tail(pubq) /\ turn.at = "reset"
           /\ turn' = NoTurn /\ UNCHANGED <<steps, step, lane, run, mem, store, record, site, outlived>>
           /\ input'.stale /\ input'.at = input.at /\ "replaced" \in Elems(input'.queue)
           /\ ~Current' /\ (LastReplaced' => ~Told')
<1>1. /\ pubq # <<>> /\ Head(pubq) = "restore" /\ pubq' = Tail(pubq) /\ turn.at = "reset"
      /\ turn' = NoTurn /\ UNCHANGED <<steps, step, lane, run, mem, store, record, site, outlived>>
  BY DEF SwitchLibrary, Turn, memory, world
<1>2. /\ input' = [Forward("replaced") EXCEPT !.stale = TRUE, !.dirty = TRUE,
                       !.late = IF input.at = "reading" /\ @ = NONE THEN ItemsOf(library) ELSE @]
      /\ input \in Inputs
  BY DEF SwitchLibrary, LaneInv, TypesInv
<1>3. /\ input'.stale /\ input'.at = input.at
      /\ input'.queue = Append(input.queue, "replaced")
  BY <1>2 DEF Forward, Inputs
<1>4. /\ Elems(input'.queue) = Elems(input.queue) \cup {"replaced"}
      /\ input.queue # <<>> => "replaced" \in Behind(input'.queue)
      /\ input.queue = <<>> => Head(input'.queue) = "replaced" /\ input'.queue # <<>>
  <2>1. input.queue \in Seq(Notices) /\ "replaced" \in Notices
    BY <1>2 DEF Inputs, Notices
  <2> QED BY <1>3, <2>1, AppendElems
<1>5. CASE input.queue # <<>>
  BY <1>1, <1>3, <1>4, <1>5 DEF Current, LastReplaced
<1>6. CASE input.queue = <<>>
  <2>1. ~Told /\ input.at = "idle"
    BY <1>2, <1>6 DEF LaneInv, ToldInv, Inputs
  <2>2. ~Told' /\ ~Begun'
    BY <1>1, <1>3, <2>1 DEF Told, Begun
  <2> QED BY <1>1, <1>3, <1>4, <1>6, <2>2 DEF Current
<1> QED BY <1>5, <1>6

\* The word of a restore is applied by the lane alone.
LEMMA ReplacedAlone ==
    ASSUME LaneInv, StepReplaced
    PROVE  ~(ReadInputs \/ InputsRead \/ KeysMade \/ NoKeys \/ Aside \/ Asking \/ EditItem)
<1>1. steps # <<>> /\ step.at = "idle" /\ Head(steps).op = "replaced"
  BY DEF StepReplaced, Begins
<1>2. Head(steps).op \in Notices /\ Head(steps) \in Elems(steps)
  BY <1>1, HeadStep DEF Notices, LaneInv
<1>3. input.at = "applying"
  BY <1>2 DEF LaneInv, ToldInv, Told
<1>4. step'.at # step.at \/ input'.at # input.at
  <2>1. CASE Finish
    BY <1>1, <1>2, <1>3, <2>1, NoticeApplied
  <2>2. CASE ~Finish
    BY <1>1, <2>2, StepFinishes DEF LaneStep
  <2> QED BY <2>1, <2>2
<1>5. ~(KeysMade \/ NoKeys)
  BY <1>1, KeysOutcome DEF LaneInv
<1>6. ~(Aside \/ Asking \/ EditItem)
  <2>1. ASSUME EditItem PROVE step' = step /\ input'.at = input.at
    BY <2>1 DEF EditItem, machine, LaneInv, TypesInv, Inputs
  <2> QED BY <1>4, <2>1, AsideSteps, AskingSteps
<1> QED BY <1>3, <1>5, <1>6 DEF ReadInputs, InputsRead

LEMMA IdsSafe ==
    ASSUME LaneInv, LateInv, InputsInv, IdsInv, Next
    PROVE  IdsInv'
<1> DEFINE ItemsId == ~input.stale /\ input.at # "reading" /\ input.items # NONE /\ shown # NONE =>
                          input.items.id = library.id
           ToldId == LastReplaced => \A r \in Elems(steps) :
                        r.op \in Notices /\ r.counts # NONE /\ r.items # NONE =>
                            r.items.id = library.id
           LaneId == Current /\ lane.counts # NONE /\ lane.items # NONE =>
                        lane.items.id = library.id
<1> SUFFICES ItemsId' /\ ToldId' /\ LaneId'
  BY DEF IdsInv
<1>i. ItemsId /\ ToldId /\ LaneId
  BY DEF IdsInv
<1>t. input \in Inputs /\ library \in Libraries
  BY DEF LaneInv, TypesInv
<1> HIDE DEF ItemsId, ToldId, LaneId
<1>1. CASE SwitchLibrary
  <2>1. input'.stale /\ ~Current' /\ (LastReplaced' => ~Told')
    BY <1>1, Switched
  <2> QED BY <2>1 DEF ItemsId, ToldId, LaneId, Told
<1>2. CASE Crash
  <2>1. input' = NoInput /\ lane' = NoLane /\ steps' = <<>>
    BY <1>2 DEF Crash
  <2>2. input'.stale /\ lane'.counts = NONE /\ Elems(steps') = {}
    BY <2>1, EmptyElems DEF NoInput, NoLane
  <2> QED BY <2>2 DEF ItemsId, ToldId, LaneId
<1>3. CASE ~SwitchLibrary /\ ~Crash
  <2>1. /\ library'.id = library.id
        /\ LastReplaced' => LastReplaced \/ ~Told'
        /\ Current' => Current \/ StepReplaced
        /\ LaneStep /\ Head(steps).op \in Notices /\ Current' => LastReplaced
    BY <1>3, SameIds, CurrentKept
  <2>t. ASSUME \A r \in Elems(steps') : r.op \in Notices => r \in Elems(steps)
        PROVE  ToldId'
    BY <1>i, <2>1, <2>t DEF ToldId, Told
  <2>l. ASSUME SameInputs(lane', lane), ~StepReplaced PROVE LaneId'
    BY <1>i, <2>1, <2>l DEF LaneId, SameInputs
  <2>2. CASE ReadInputs
    <3>1. lane' = lane /\ shown' = shown /\ input.at = "idle" /\ ~StepReplaced
      BY <2>2, ReplacedAlone DEF ReadInputs, phone
    <3>2. LaneId'
      BY <2>l, <3>1 DEF SameInputs
    <3>3. CASE input.stale /\ shown # NONE
      <4>1. /\ input' = [input EXCEPT !.at = "reading", !.counts = shown, !.stale = FALSE]
            /\ steps' = steps
        BY <2>2, <3>3 DEF ReadInputs
      <4>2. input'.at = "reading"
        BY <1>t, <4>1 DEF Inputs
      <4> QED BY <2>t, <3>2, <4>1, <4>2 DEF ItemsId
    <3>4. CASE ~(input.stale /\ shown # NONE)
      <4>1. input' = [input EXCEPT !.at = "applying"] /\ ~Told
        BY <2>2, <3>4, NoticeTold
      <4>2. PICK r \in StepCalls :
              /\ Elems(steps') = Elems(steps) \cup {r}
              /\ r.counts = shown /\ r.items = input.items
        BY <2>2, <3>4, NoticeTold
      <4>3. input'.stale = input.stale /\ input'.items = input.items
        BY <1>t, <4>1 DEF Inputs
      <4>4. ItemsId'
        BY <1>i, <2>1, <3>1, <4>3 DEF ItemsId
      <4>5. r.counts # NONE /\ r.items # NONE => r.items.id = library'.id
        BY <1>i, <2>1, <3>1, <3>4, <4>2 DEF ItemsId
      <4>6. ToldId'
        BY <4>1, <4>2, <4>5 DEF ToldId, Told
      <4> QED BY <3>2, <4>4, <4>6
    <3> QED BY <3>3, <3>4
  <2>3. CASE InputsRead
    <3>1. lane' = lane /\ input.at = "reading" /\ library' = library /\ shown' = shown
      BY <2>3 DEF InputsRead, phone
    <3>2. ~StepReplaced
      BY <2>3, ReplacedAlone
    <3>3. PICK items \in {ItemsOf(library), input.late, NONE}, r \in StepCalls :
            /\ input' = [input EXCEPT !.at = "applying", !.items = items, !.counts = NONE,
                                      !.stale = items = NONE, !.late = NONE]
            /\ input.late # NONE => shown = NONE
            /\ Elems(steps') = Elems(steps) \cup {r}
            /\ r.items = items /\ ~Told
      BY <2>3, InputsTold
    <3>4. ItemsOf(library).id = library'.id
      BY <3>1 DEF ItemsOf
    <3>5. input'.items = items /\ input'.queue = input.queue
      BY <1>t, <3>3 DEF Inputs
    <3>6. LaneId'
      BY <2>l, <3>1, <3>2 DEF SameInputs
    <3>7. CASE input.late = NONE
      BY <3>3, <3>4, <3>5, <3>6, <3>7 DEF ItemsId, ToldId, Told
    <3>8. CASE input.late # NONE
      <4>1. shown' = NONE /\ ~LastReplaced'
        BY <3>1, <3>3, <3>5, <3>8 DEF LateInv, LastReplaced
      <4> QED BY <3>6, <4>1 DEF ItemsId, ToldId
    <3> QED BY <3>7, <3>8
  <2>4. CASE LaneStep
    <3>0. steps # <<>> /\ Head(steps) \in Elems(steps) /\ shown' = shown
      BY <2>4, StepOutcome, HeadStep DEF LaneInv
    <3>1. PICK l \in Lanes :
            /\ SameInputs(l, Taken)
            /\ (\E now \in BOOLEAN : AskKeys(l, now)) \/ (SameInputs(lane', l) /\ Finish)
      BY <2>4, StepOutcome DEF LaneInv
    <3>2. SameInputs(lane', Taken)
      BY <3>1 DEF AskKeys, SameInputs
    <3>3. LaneId'
      <4>1. CASE Head(steps).op \in Notices
        BY <1>i, <2>1, <2>4, <3>0, <3>2, <4>1 DEF LaneId, ToldId, Taken, SameInputs
      <4>2. CASE Head(steps).op \notin Notices
        <5>1. ~StepReplaced
          BY <4>2 DEF StepReplaced, Begins, Notices
        <5> QED BY <2>l, <3>2, <4>2, <5>1 DEF Taken
      <4> QED BY <4>1, <4>2
    <3>4. ItemsId' /\ ToldId'
      <4>1. CASE Finish
        <5>1. /\ Elems(steps') \subseteq Elems(steps)
              /\ input'.items = input.items /\ input'.stale = input.stale
              /\ input'.at # "reading" => input.at # "reading"
          BY <3>0, <4>1, NoticeApplied
        <5> QED BY <1>i, <2>1, <2>t, <3>0, <5>1 DEF ItemsId
      <4>2. CASE UNCHANGED <<steps, input>>
        BY <1>i, <2>1, <2>t, <3>0, <4>2 DEF ItemsId
      <4> QED BY <2>4, <4>1, <4>2, StepFinishes
    <3> QED BY <3>3, <3>4
  <2>5. CASE KeysMade \/ NoKeys
    <3>1. /\ steps # <<>> /\ Finish /\ SameInputs(lane', lane) /\ step.at = "keys"
          /\ shown' = shown
      BY <2>5, KeysOutcome DEF LaneInv, phone
    <3>2. /\ Elems(steps') \subseteq Elems(steps)
          /\ input'.items = input.items /\ input'.stale = input.stale
          /\ input'.at # "reading" => input.at # "reading"
      BY <3>1, NoticeApplied
    <3>3. ~StepReplaced
      BY <2>5, ReplacedAlone
    <3> QED BY <1>i, <2>1, <2>t, <2>l, <3>1, <3>2, <3>3 DEF ItemsId
  <2>6. CASE Aside
    <3>1. /\ input' = input /\ shown' = shown /\ SameInputs(lane', lane)
          /\ \A r \in Elems(steps') : r.op \in Notices => r \in Elems(steps)
          /\ Begun' <=> Begun
      BY <2>6, AsideSteps
    <3>2. Current' => Current
      BY <3>1 DEF Current, LastReplaced
    <3> QED BY <1>i, <2>1, <2>t, <3>1, <3>2 DEF ItemsId, LaneId, SameInputs
  <2>7. CASE Asking
    <3>1. /\ UNCHANGED <<steps, lane>> /\ input'.at = input.at /\ input'.items = input.items
          /\ input'.stale \/ input'.stale = input.stale
      BY <2>7, AskingSteps
    <3>2. ~StepReplaced
      BY <2>7, ReplacedAlone
    <3>3. CASE Unlock
      BY <2>1, <2>t, <2>l, <3>1, <3>2, <3>3 DEF Unlock, OldItems, ItemsId, SameInputs, machine,
         Forward
    <3>4. CASE ~Unlock
      <4>1. shown' # NONE => shown # NONE \/ input'.stale
        BY <2>7, <3>4, AskingSteps
        DEF Asking, SwitchLibrary, SessionEnds, Lend, Lock, Switch, LibraryNotified, phone
      <4> QED BY <1>i, <2>1, <2>t, <2>l, <3>1, <3>2, <4>1 DEF ItemsId, SameInputs
    <3> QED BY <3>3, <3>4
  <2>8. CASE EditItem
    <3>1. UNCHANGED <<steps, lane, shown>> /\ input' = [input EXCEPT !.dirty = TRUE]
      BY <2>8 DEF EditItem, machine
    <3>2. /\ input'.at = input.at /\ input'.items = input.items /\ input'.stale = input.stale
          /\ input'.queue = input.queue
      BY <1>t, <3>1 DEF Inputs
    <3>3. Current' => Current
      BY <2>8, <3>1, <3>2 DEF Current, LastReplaced, Begun, EditItem, machine
    <3> QED BY <1>i, <2>1, <2>t, <3>1, <3>2, <3>3 DEF ItemsId, LaneId
  <2> QED BY <1>3, <2>2, <2>3, <2>4, <2>5, <2>6, <2>7, <2>8, NextCases
<1> QED BY <1>1, <1>2, <1>3

\* A set to send, remembered or saved, has keys of this library's ids, unless
\* the lane has yet to be told of a restore.
OfLibrary(s) == s # NONE => s.lib = library.id
SetsInv == Current /\ ~outlived => OfLibrary(mem.pending) /\ OfLibrary(store.pending)

\* Only the start of the lane, its keys and the word of a restore bring another
\* set to send.
LEMMA PendingKept ==
    ASSUME LaneInv, Next, ~KeysMade, ~StepReplaced, ~Crash
    PROVE  /\ store'.pending \in {store.pending, NONE}
           /\ mem'.pending \in {mem.pending, NONE} \/ (StepStart /\ mem'.pending \in {store.pending, NONE})
<1>0. mem \in Memories /\ store \in Memories
  BY DEF LaneInv, TypesInv
<1>1. CASE StepStart
  BY <1>0, <1>1 DEF StepStart, Nothing
<1>2. CASE Outcomes
  <2>1. CASE Written
    BY <1>0, <2>1 DEF Written, Remember, Recorded, Memories
  <2>2. CASE Removed
    BY <1>0, <2>2 DEF Removed, Remember, Unpublished, Cleared, Memories
  <2>3. CASE StaleRemoved
    BY <1>0, <2>3 DEF StaleRemoved, Remember, Unpublished, Memories
  <2>4. CASE Refused \/ Postponed
    BY <2>4 DEF Refused, Postponed, memory
  <2> QED BY <1>2, <2>1, <2>2, <2>3, <2>4 DEF Outcomes
<1>3. CASE ResetKeys
  <2>1. mem' = mem /\ (store' = store \/ store' = [Cleared(store) EXCEPT !.known = TRUE])
    BY <1>3 DEF ResetKeys
  <2> QED BY <1>0, <2>1 DEF Cleared, Memories
<1>4. CASE LaneStep /\ ~StepStart
  BY <1>4
  DEF LaneStep, StepUpdate, StepResumed, StepSitePublished, StepNow, StepFollowUp, memory
<1>5. CASE Asking
  BY <1>5, AskingSteps
<1>6. CASE \/ ReadInputs \/ InputsRead \/ NoKeys \/ TimerFires \/ LaneBegins \/ CatalogueBegins
           \/ Lands \/ NotSent \/ Accepted \/ AnswerLost \/ OtherWriter \/ Press \/ ChangeHost
           \/ Publish \/ Restore \/ EditItem
  BY <1>6
  DEF ReadInputs, InputsRead, NoKeys, TimerFires, LaneBegins, CatalogueBegins, Lands, NotSent,
      Accepted, AnswerLost, OtherWriter, Press, ChangeHost, Publish, Restore, EditItem, memory,
      machine
<1> QED BY <1>1, <1>2, <1>3, <1>4, <1>5, <1>6, NextCases DEF Aside

LEMMA SetsSafe ==
    ASSUME LaneInv, InputsInv, IdsInv, SetsInv, Overlaps = {}, Next
    PROVE  SetsInv'
<1> SUFFICES ASSUME Current', ~outlived'
             PROVE  OfLibrary(mem.pending)' /\ OfLibrary(store.pending)'
  BY DEF SetsInv
<1>t. mem \in Memories /\ store \in Memories
  BY DEF LaneInv, TypesInv
<1>o. ~outlived
  BY SameIds
<1>1. CASE SwitchLibrary
  BY <1>1, Switched
<1>2. CASE Crash
  <2>1. mem' = Nothing /\ store' = store /\ library' = library
    BY <1>2 DEF Crash
  <2>2. "replaced" \notin Elems(input.queue)
    BY <1>2, InElems DEF Crash, Restoring
  <2>3. Current
    BY <2>2, QueueParts
  <2> QED BY <1>o, <2>1, <2>3 DEF SetsInv, OfLibrary, Nothing
<1>3. CASE StepReplaced
  <2>1. PICK l \in {WithInputs([lane EXCEPT !.timer = FALSE])} :
          /\ IF l.enabled THEN Remember(Cleared(mem), Cleared(store)) ELSE UNCHANGED memory
          /\ SetsOutlive(l)
    BY <1>3 DEF StepReplaced
  <2>2. CASE mem'.pending = NONE /\ store'.pending = NONE
    BY <2>2 DEF OfLibrary
  <2>3. CASE l.enabled /\ faults' = faults
    <3>1. Remember(Cleared(mem), Cleared(store))
      BY <2>1, <2>3
    <3>2. /\ mem' = [Cleared(mem) EXCEPT !.known = TRUE]
          /\ store' = [Cleared(store) EXCEPT !.known = TRUE]
      BY <2>3, <3>1, FailsAdds DEF Remember
    <3> QED BY <1>t, <3>2 DEF Cleared, Memories, OfLibrary
  <2> QED BY <2>1, <2>2, <2>3 DEF SetsOutlive
<1>4. CASE ~SwitchLibrary /\ ~Crash /\ ~StepReplaced
  <2>1. library'.id = library.id /\ Current
    BY <1>4, SameIds, CurrentKept
  <2>2. OfLibrary(mem.pending) /\ OfLibrary(store.pending)
    BY <1>o, <2>1 DEF SetsInv
  <2>3. CASE KeysMade
    <3> DEFINE s == Snapshot(step.counts, step.items)
    <3>1. step.at = "keys" /\ Recomputed(s)
      BY <2>3, KeysOutcome DEF KeysMade, LaneInv
    <3>2. /\ step.counts \in Counts /\ step.items \in Items
          /\ lane.counts # NONE /\ lane.items # NONE /\ step.items = lane.items
      BY <3>1 DEF LaneInv, TypesInv, InputsInv, Known
    <3>3. s.lib = library.id
      BY <2>1, <3>2, SnapshotType DEF IdsInv
    <3> HIDE DEF s
    <3>4. mem'.pending \in {mem.pending, s} /\ store'.pending \in {store.pending, s}
      <4>1. CASE UNCHANGED memory
        BY <4>1 DEF memory
      <4>2. CASE Remember(Kept(mem, s), Kept(store, s))
        BY <1>t, <4>2 DEF Remember, Kept, Memories
      <4> QED BY <3>1, <4>1, <4>2 DEF Recomputed
    <3> QED BY <2>1, <2>2, <3>3, <3>4 DEF OfLibrary
  <2>4. CASE ~KeysMade
    <3>1. /\ store'.pending \in {store.pending, NONE}
          /\ mem'.pending \in {mem.pending, store.pending, NONE}
      BY <1>4, <2>4, PendingKept
    <3> QED BY <2>1, <2>2, <3>1 DEF OfLibrary
  <2> QED BY <2>3, <2>4
<1> QED BY <1>1, <1>2, <1>3, <1>4

\* What a step of the queue plans, and what it leaves of the site and the record.
LEMMA WorldSteps ==
    ASSUME LaneInv, Next
    PROVE  \/ UNCHANGED <<site, record, turn>>
           \/ turn' = NoTurn /\ UNCHANGED <<site, record>>
           \/ OtherWriter /\ turn' = turn /\ record' = record /\ site'.file = site.file
                /\ site'.books.id = 0
           \/ /\ LaneBegins /\ turn'.at = "planned" /\ UNCHANGED <<site, record>>
              /\ turn'.site.books = site.books /\ turn'.record.books = site.books
              /\ turn'.record.keyed = Reconciled.keyed
              /\ turn'.site.file = NONE \/ (turn'.site.file = run.update /\ Reconciled.keyed)
           \/ /\ CatalogueBegins /\ turn'.at = "planned" /\ UNCHANGED <<site, record>>
              /\ turn'.site.books.id = library.id /\ turn'.record.books.id = library.id
              /\ turn'.site.file = CatalogueFile(site.file)
              /\ turn'.record.file = CatalogueFile(Reconciled.file)
           \/ /\ Lands /\ turn.at = "planned" /\ turn'.at = "landed" /\ record' = record
              /\ turn'.site = turn.site /\ turn'.record = turn.record /\ site' = turn.site
           \/ /\ Accepted /\ turn.at = "landed" /\ turn' = NoTurn /\ site' = site
              /\ record' \in {record, turn.record}
           \/ /\ ResetKeys /\ turn' \in {turn, [NoTurn EXCEPT !.at = "reset"]} /\ site' = site
              /\ turn.at = "idle" /\ ~record'.keyed /\ record'.file = record.file
<1> USE DEF LaneInv
<1>1. CASE LaneStep
  <2>1. UNCHANGED world
    BY <1>1, StepOutcome
  <2>2. (\E l \in Lanes : \E now \in BOOLEAN : AskKeys(l, now)) \/ UNCHANGED queue
    BY <1>1, StepOutcome
  <2> QED BY <2>1, <2>2 DEF AskKeys, queue, world
<1>2. CASE ReadInputs \/ InputsRead \/ LibraryNotified \/ KeysMade \/ NoKeys \/ TimerFires
             \/ Outcomes \/ SessionEnds \/ User
  BY <1>2
  DEF ReadInputs, InputsRead, LibraryNotified, KeysMade, NoKeys, Keys, TimerFires, Outcomes,
      Written, Removed, StaleRemoved, Refused, Postponed, Outcome, SessionEnds, User, Lend,
      Unlock, Lock, EditItem, Switch, ChangeHost, Press, Publish, Restore, machine, world, queue
<1>3. CASE LaneBegins
  <2>1. UNCHANGED <<site, record>>
    BY <1>3 DEF LaneBegins, world
  <2>2. ASSUME NEW f \in Sets \cup {NONE}, PlanFile(f)
        PROVE  /\ turn'.at = "planned" /\ turn'.site.books = site.books
               /\ turn'.site.file = f /\ turn'.record.books = site.books
               /\ turn'.record.keyed = Reconciled.keyed
    <3>1. /\ turn'.at = "planned" /\ turn'.site = [site EXCEPT !.file = f]
          /\ turn'.record = [Reconciled EXCEPT !.file = f]
      BY <2>2, LanePlans
    <3>2. site \in Sites /\ Reconciled \in Records /\ Reconciled.books = site.books
      BY ReconciledType DEF TypesInv
    <3> QED BY <3>1, <3>2 DEF Sites, Records
  <2>3. \/ turn' = NoTurn
        \/ PlanFile(NONE)
        \/ PlanFile(run.update) /\ Reconciled.keyed
    BY <1>3 DEF LaneBegins, Answers
  <2>4. run.update \in Sets \cup {NONE}
    BY DEF TypesInv, Publishes
  <2>5. CASE turn' = NoTurn
    BY <2>1, <2>5
  <2>6. CASE PlanFile(NONE)
    <3>1. NONE \in Sets \cup {NONE}
      OBVIOUS
    <3> QED BY <1>3, <2>1, <2>2, <2>6, <3>1
  <2>7. CASE PlanFile(run.update) /\ Reconciled.keyed
    BY <1>3, <2>1, <2>2, <2>4, <2>7
  <2> QED BY <2>3, <2>5, <2>6, <2>7
<1>4. CASE CatalogueBegins
  <2>1. UNCHANGED <<site, record>>
    BY <1>4 DEF CatalogueBegins, world
  <2>2. CASE ~host
    BY <1>4, <2>1, <2>2 DEF CatalogueBegins, Answers
  <2>3. CASE host
    <3>1. /\ turn'.at = "planned"
          /\ turn'.site.books = [id |-> library.id, n |-> site.books.n + 1]
          /\ turn'.site.file = CatalogueFile(site.file)
          /\ turn'.record.books = turn'.site.books
          /\ turn'.record.file = CatalogueFile(Reconciled.file)
      BY <1>4, <2>3, CataloguePlans
    <3>2. turn'.site.books.id = library.id
      BY <3>1
    <3> QED BY <1>4, <2>1, <3>1, <3>2
  <2> QED BY <2>2, <2>3
<1>5. CASE Lands
  <2>1. /\ turn.at = "planned" /\ site' = turn.site /\ record' = record
        /\ turn' = [turn EXCEPT !.at = "landed"]
    BY <1>5 DEF Lands
  <2>2. turn'.at = "landed" /\ turn'.site = turn.site /\ turn'.record = turn.record
    BY <2>1 DEF TypesInv, Turns
  <2> QED BY <1>5, <2>1, <2>2
<1>6. CASE NotSent \/ AnswerLost \/ SwitchLibrary \/ Crash
  BY <1>6 DEF NotSent, AnswerLost, SwitchLibrary, Crash, Answers, world
<1>7. CASE Accepted
  BY <1>7 DEF Accepted, Answers
<1>8. CASE ResetKeys
  <2>1. /\ turn.at = "idle" /\ site' = site /\ record' = [record EXCEPT !.keyed = FALSE]
        /\ turn' \in {turn, [NoTurn EXCEPT !.at = "reset"]}
    BY <1>8 DEF ResetKeys, Turn
  <2> QED BY <1>8, <2>1 DEF TypesInv, Records
<1>9. CASE OtherWriter
  <2> DEFINE b == [id |-> 0, n |-> site.books.n + 1]
  <2>1. site' = [site EXCEPT !.books = b] /\ turn' = turn /\ record' = record
    BY <1>9 DEF OtherWriter, TypesInv, Sites, queue
  <2>2. b.id = 0
    OBVIOUS
  <2> HIDE DEF b
  <2> QED BY <1>9, <2>1, <2>2 DEF TypesInv, Sites
<1> QED BY <1>1, <1>2, <1>3, <1>4, <1>5, <1>6, <1>7, <1>8, <1>9
    DEF Next, Notifier, Lane, LaneStep, Queue

\* A record whose keys may be used names books of this library's ids. From the
\* reset of a restore until the lane was told of it, no record is such a one and
\* no catalogue publish waits that could make one.
KeyedInv ==
    /\ record.keyed => record.books.id = library.id
    /\ InHand /\ turn.record.keyed => turn.record.books.id = library.id
    /\ turn.at = "reset" => ~record.keyed
    /\ "replaced" \in Elems(input.queue) =>
         "catalogue" \notin Elems(pubq) /\ ~record.keyed /\ (InHand => ~turn.record.keyed)
    /\ ~Before(pubq, "restore", "catalogue")

LEMMA KeyedSafe ==
    ASSUME LaneInv, KeyedInv, Overlaps = {}, Next
    PROVE  KeyedInv'
<1> DEFINE Waits == "replaced" \in Elems(input.queue)
<1>q. pubq \in Seq(Turners)
  BY DEF LaneInv, TypesInv
<1>n. NoTurn.at = "idle"
  BY DEF NoTurn
<1>1. CASE SwitchLibrary
  <2>1. /\ pubq # <<>> /\ Head(pubq) = "restore" /\ pubq' = Tail(pubq) /\ turn.at = "reset"
        /\ turn' = NoTurn /\ record' = record
    BY <1>1, Switched
  <2>2. ~record.keyed /\ ~InHand' /\ turn'.at # "reset"
    BY <1>n, <2>1 DEF KeyedInv, InHand
  <2>3. "catalogue" \notin Elems(pubq') /\ ~Before(pubq', "restore", "catalogue")
    BY <1>q, <2>1, BeforeTail, TailElems DEF KeyedInv
  <2> QED BY <2>1, <2>2, <2>3 DEF KeyedInv
<1>2. CASE Crash
  <2>1. /\ record' = record /\ library' = library /\ turn' = NoTurn /\ pubq' = <<>>
        /\ input' = NoInput
    BY <1>2 DEF Crash, world
  <2>2. ~InHand' /\ turn'.at # "reset" /\ ~Before(pubq', "restore", "catalogue")
    BY <1>n, <2>1 DEF InHand, Before
  <2>3. ~Waits'
    <3>1. NoInput.queue = <<"start">>
      BY DEF NoInput
    <3> QED BY <2>1, <3>1 DEF Elems
  <2> QED BY <2>1, <2>2, <2>3 DEF KeyedInv
<1>3. CASE ~SwitchLibrary /\ ~Crash
  <2>1. library'.id = library.id /\ (Waits' => Waits)
    BY <1>3, SameIds, CurrentKept
  <2>2. Waits' => "catalogue" \notin Elems(pubq')
    <3>1. CASE Publish
      BY <3>1, InElems DEF Publish, Restoring, notifier
    <3>2. CASE ~Publish
      BY <2>1, <3>2, QueueOrder DEF KeyedInv
    <3> QED BY <3>1, <3>2
  <2>3. ~Before(pubq', "restore", "catalogue")
    <3>1. CASE Publish
      <4>1. pubq' = Append(pubq, "catalogue") /\ "restore" \notin Elems(pubq)
        BY <3>1, InElems DEF Publish, Restoring
      <4>2. "catalogue" \in Turners
        BY DEF Turners
      <4> QED BY <1>q, <4>1, <4>2, BeforeAppend DEF KeyedInv
    <3>2. CASE ~Publish
      BY <3>2, QueueOrder DEF KeyedInv
    <3> QED BY <3>1, <3>2
  <2> DEFINE Keyed == /\ record.keyed => record.books.id = library.id /\ ~Waits
                      /\ InHand /\ turn.record.keyed =>
                            turn.record.books.id = library.id /\ ~Waits
                      /\ turn.at = "reset" => ~record.keyed
  <2>k. Keyed
    BY DEF KeyedInv
  <2>4. Keyed'
    <3>1. CASE UNCHANGED <<record, turn>>
      BY <2>1, <2>k, <3>1 DEF InHand
    <3>2. CASE turn' = NoTurn /\ record' \in {record} \cup (IF InHand THEN {turn.record} ELSE {})
      BY <1>n, <2>1, <2>k, <3>2 DEF InHand
    <3>3. CASE LaneBegins /\ turn'.at = "planned" /\ record' = record
                 /\ turn'.record.books = site.books /\ turn'.record.keyed = Reconciled.keyed
      BY <2>1, <2>k, <3>3, ReconciledType DEF LaneInv
    <3>4. CASE CatalogueBegins /\ turn'.at = "planned" /\ record' = record
                 /\ turn'.record.books.id = library.id
      <4>1. "catalogue" \in Elems(pubq)
        BY <1>q, <3>4, TailElems DEF CatalogueBegins, Turn
      <4> QED BY <2>1, <2>k, <3>4, <4>1 DEF KeyedInv
    <3>5. CASE Lands /\ turn.at = "planned" /\ turn'.at = "landed" /\ record' = record
                 /\ turn'.record = turn.record
      BY <2>1, <2>k, <3>5 DEF InHand
    <3>6. CASE ResetKeys /\ turn' \in {turn, [NoTurn EXCEPT !.at = "reset"]}
                 /\ turn.at = "idle" /\ ~record'.keyed
      <4>1. ~InHand'
        BY <3>6 DEF InHand, NoTurn
      <4> QED BY <3>6, <4>1
    <3> HIDE DEF Keyed
    <3> QED BY <3>1, <3>2, <3>3, <3>4, <3>5, <3>6, WorldSteps DEF InHand
  <2> QED BY <2>2, <2>3, <2>4 DEF KeyedInv
<1> QED BY <1>1, <1>2, <1>3

\* The lane's publish on its way sends a set of this library, unless no keys are
\* there to send it with and no catalogue publish ahead of it can bring them.
SentInv ==
    run.at = "sent" /\ ~outlived =>
        OfLibrary(run.update) \/ (~Before(pubq, "catalogue", "lane") /\ ~record.keyed)

LEMMA BeforeElems ==
    ASSUME NEW q, NEW x, NEW y, Before(q, x, y)
    PROVE  x \in Elems(q)
BY DEF Before, Elems

\* What the lane sends is decided when its timer fires.
LEMMA SentKept ==
    ASSUME LaneInv, Next, ~TimerFires, run'.at = "sent"
    PROVE  run.at = "sent" /\ run'.update = run.update
<1> USE DEF LaneInv
<1>0. run \in Publishes
  BY DEF TypesInv
<1>1. CASE LaneStep \/ KeysMade \/ NoKeys \/ Asking
  BY <1>1, StepOutcome, KeysOutcome, AskingSteps
<1>2. CASE ReadInputs \/ InputsRead \/ EditItem
  BY <1>2 DEF ReadInputs, InputsRead, EditItem, machine
<1>3. CASE Outcomes \/ Crash
  BY <1>3
  DEF Outcomes, Written, Removed, StaleRemoved, Refused, Postponed, Outcome, Crash, NoRun
<1>4. CASE Aside /\ ~Outcomes
  <2>1. run'.update = run.update
    BY <1>4, RestSteps
  <2>2. run' = run \/ run' = [run EXCEPT !.gate = TRUE] \/ run'.at = "done"
    <3>1. ASSUME NEW result, Answers(result) PROVE run' = run \/ run'.at = "done"
      BY <1>0, <3>1 DEF Answers, Publishes
    <3>2. CASE LaneBegins
      BY <3>1, <3>2 DEF LaneBegins
    <3>3. CASE CatalogueBegins \/ NotSent \/ Accepted \/ AnswerLost
      BY <3>1, <3>3 DEF CatalogueBegins, NotSent, Accepted, AnswerLost
    <3>4. CASE Lands \/ ResetKeys \/ OtherWriter \/ Press \/ ChangeHost \/ Publish \/ Restore
      BY <3>4 DEF Lands, ResetKeys, OtherWriter, Press, ChangeHost, Publish, Restore
    <3> QED BY <1>4, <3>2, <3>3, <3>4 DEF Aside
  <2> QED BY <1>0, <2>1, <2>2 DEF Publishes
<1> QED BY <1>1, <1>2, <1>3, <1>4, NextCases

LEMMA SentSafe ==
    ASSUME LaneInv, SetsInv, KeyedInv, SentInv, Overlaps = {}, Next
    PROVE  SentInv'
<1> SUFFICES ASSUME run'.at = "sent", ~outlived', ~OfLibrary(run.update)'
             PROVE  ~Before(pubq', "catalogue", "lane") /\ ~record'.keyed
  BY DEF SentInv
<1>q. pubq \in Seq(Turners) /\ "lane" \in Turners
  BY DEF LaneInv, TypesInv, Turners
<1>o. ~outlived
  BY SameIds
<1>1. CASE SwitchLibrary
  <2>1. /\ pubq # <<>> /\ Head(pubq) = "restore" /\ pubq' = Tail(pubq) /\ turn.at = "reset"
        /\ record' = record
    BY <1>1, Switched
  <2>2. "catalogue" \notin Elems(pubq')
    BY <1>q, <2>1, BeforeTail, TailElems DEF KeyedInv
  <2> QED BY <2>1, <2>2, BeforeElems DEF KeyedInv
<1>2. CASE TimerFires
  <2>1. library' = library /\ record' = record
    BY <1>2 DEF TimerFires, phone, world
  <2>2. CASE lane.enabled /\ mem.pending = NONE
    <3>1. run' = run /\ lane.timer
      BY <1>2, <2>2 DEF TimerFires
    <3>2. run.at = "idle"
      BY <3>1 DEF LaneInv, RunInv
    <3> QED BY <3>1, <3>2
  <2>3. CASE ~(lane.enabled /\ mem.pending = NONE)
    <3>1. /\ run' = [NoRun EXCEPT !.at = "sent",
                       !.update = IF lane.enabled THEN mem.pending ELSE NONE]
          /\ pubq' = Append(pubq, "lane")
      BY <1>2, <2>3 DEF TimerFires
    <3>2. run'.update = IF lane.enabled THEN mem.pending ELSE NONE
      BY <3>1 DEF NoRun
    <3>3. ~OfLibrary(mem.pending)
      BY <2>1, <3>2 DEF OfLibrary
    <3>4. "replaced" \in Elems(input.queue)
      BY <1>o, <3>3, QueueParts DEF SetsInv
    <3>5. "catalogue" \notin Elems(pubq) /\ ~record.keyed
      BY <3>4 DEF KeyedInv
    <3>6. ~Before(pubq, "catalogue", "lane")
      BY <3>5, BeforeElems
    <3> QED BY <1>q, <2>1, <3>1, <3>5, <3>6, BeforeAppend
  <2> QED BY <2>2, <2>3
<1>3. CASE ~SwitchLibrary /\ ~TimerFires
  <2>1. library'.id = library.id /\ run.at = "sent" /\ run'.update = run.update
    BY <1>3, SameIds, SentKept
  <2>2. ~Before(pubq, "catalogue", "lane") /\ ~record.keyed
    BY <1>o, <2>1 DEF SentInv, OfLibrary
  <2>3. ~Before(pubq', "catalogue", "lane")
    BY <1>3, <2>2, QueueOrder
  <2>4. ASSUME Accepted, turn.at = "landed" PROVE ~record'.keyed
    <3>1. pubq # <<>> /\ Head(pubq) \in {"lane", "catalogue"}
      BY <2>4 DEF LaneInv, TurnsInv, InHand
    <3>2. Head(pubq) # "lane"
      <4>1. Head(pubq) = "lane" => run'.at = "done"
        BY <2>4 DEF Accepted, Answers, LaneInv, TypesInv, Publishes
      <4> QED BY <4>1
    <3>3. "lane" \in Behind(pubq)
      BY <1>q, <2>1, <3>1, <3>2, TailElems DEF LaneInv, TurnsInv
    <3> QED BY <1>q, <2>2, <3>1, <3>2, <3>3, BeforeTail
  <2>5. ~record'.keyed
    BY <2>2, <2>4, WorldSteps
  <2> QED BY <2>3, <2>5
<1> QED BY <1>1, <1>2, <1>3

\* The file of the site, and the one a publish in hand is to write, go with the
\* books beside them, if this phone's record claims them.
FilesInv ==
    /\ ~outlived /\ InHand /\ turn.site.file # NONE /\ turn.site.books.id # 0
         /\ (turn.record.file # NONE \/ record.file # NONE) =>
             turn.site.file.lib = turn.site.books.id
    /\ ~outlived /\ record.file # NONE /\ site.file # NONE /\ site.books.id # 0 =>
         site.file.lib = site.books.id
    /\ turn.at = "landed" => /\ site.file = turn.site.file
                             /\ site.books.id # 0 => site.books = turn.site.books

LEMMA FilesSafe ==
    ASSUME LaneInv, KeyedInv, SentInv, FilesInv, Next
    PROVE  FilesInv'
<1>n. NoTurn.at = "idle"
  BY DEF NoTurn
<1>o. outlived => outlived'
  BY SameIds
<1>r. /\ Reconciled.file = IF record.file = NONE THEN NONE ELSE site.file
      /\ Reconciled.keyed => record.books = site.books /\ record.books.id = library.id
  BY ReconciledType DEF LaneInv, KeyedInv
<1>1. CASE UNCHANGED <<site, record, turn>>
  BY <1>o, <1>1 DEF FilesInv, InHand
<1>2. CASE turn' = NoTurn /\ site' = site /\ record' \in {record} \cup
             (IF turn.at = "landed" THEN {turn.record} ELSE {})
  <2>1. ~InHand' /\ turn'.at # "landed"
    BY <1>n, <1>2 DEF InHand
  <2>2. ASSUME ~outlived, record'.file # NONE, site.file # NONE, site.books.id # 0
        PROVE  site.file.lib = site.books.id
    BY <1>2, <2>2 DEF FilesInv, InHand
  <2> QED BY <1>2, <1>o, <2>1, <2>2 DEF FilesInv
<1>3. CASE OtherWriter /\ turn' = turn /\ record' = record /\ site'.file = site.file
             /\ site'.books.id = 0
  BY <1>o, <1>3 DEF FilesInv, InHand
<1>4. CASE /\ LaneBegins /\ turn'.at = "planned" /\ UNCHANGED <<site, record>>
           /\ turn'.site.books = site.books
           /\ turn'.site.file = NONE \/ (turn'.site.file = run.update /\ Reconciled.keyed)
  <2>1. ASSUME ~outlived, turn'.site.file # NONE PROVE turn'.site.file.lib = turn'.site.books.id
    <3>1. run.at = "sent"
      BY <1>4, TailElems DEF LaneBegins, Turn, LaneInv, TypesInv, TurnsInv
    <3>2. record.keyed
      BY <1>4, <2>1, ReconciledType DEF LaneInv
    <3> QED BY <1>4, <1>r, <2>1, <3>1, <3>2 DEF SentInv, OfLibrary
  <2> QED BY <1>4, <1>o, <2>1 DEF FilesInv
<1>5. CASE /\ CatalogueBegins /\ turn'.at = "planned" /\ UNCHANGED <<site, record>>
           /\ turn'.site.books.id = library.id
           /\ turn'.site.file = CatalogueFile(site.file)
           /\ turn'.record.file = CatalogueFile(Reconciled.file)
  <2>1. ASSUME ~outlived, turn'.site.file # NONE, turn'.record.file # NONE \/ record.file # NONE
        PROVE  turn'.site.file.lib = library.id
    <3>1. CASE FileOfCatalogue = "fresh"
      <4>1. shown \in Counts /\ ItemsOf(library) \in Items /\ ItemsOf(library).id = library.id
        BY <3>1, OfLibraryType DEF FileOfCatalogue, LaneInv, TypesInv, ItemsOf
      <4> QED BY <1>5, <3>1, <4>1, SnapshotType DEF CatalogueFile
    <3>2. CASE FileOfCatalogue = "removed"
      BY <1>5, <2>1, <3>2 DEF CatalogueFile
    <3>3. CASE FileOfCatalogue \notin {"fresh", "removed"}
      <4>1. turn'.site.file = site.file /\ turn'.record.file = Reconciled.file
        BY <1>5, <3>3 DEF CatalogueFile
      <4>2. record.file # NONE /\ Reconciled.file # NONE
        BY <1>r, <2>1, <4>1
      <4>3. Reconciled.keyed
        BY <3>3, <4>2 DEF FileOfCatalogue
      <4>4. site.books.id = library.id /\ library.id # 0
        BY <1>r, <4>3 DEF LaneInv, BoundInv
      <4> QED BY <2>1, <4>1, <4>2, <4>4 DEF FilesInv
    <3> QED BY <3>1, <3>2, <3>3
  <2> QED BY <1>5, <1>o, <2>1 DEF FilesInv
<1>6. CASE /\ turn.at = "planned" /\ turn'.at = "landed" /\ record' = record
           /\ turn'.site = turn.site /\ turn'.record = turn.record /\ site' = turn.site
  BY <1>6, <1>o DEF FilesInv, InHand
<1>7. CASE ResetKeys /\ turn' \in {turn, [NoTurn EXCEPT !.at = "reset"]} /\ site' = site
             /\ turn.at = "idle" /\ record'.file = record.file
  <2>1. ~InHand' /\ turn'.at # "landed"
    BY <1>7 DEF InHand, NoTurn
  <2> QED BY <1>7, <1>o, <2>1 DEF FilesInv
<1> QED BY <1>1, <1>2, <1>3, <1>4, <1>5, <1>6, <1>7, WorldSteps

TagsInv == LateInv /\ InputsInv /\ IdsInv /\ SetsInv /\ KeyedInv /\ SentInv /\ FilesInv

LEMMA TagsInit == Init => LaneInv /\ TagsInv
<1> SUFFICES ASSUME Init PROVE LaneInv /\ TagsInv
  OBVIOUS
<1>1. LaneInv /\ LateInv /\ InputsInv
  BY LaneInit, InputsInit
<1>2. /\ input = NoInput /\ lane = NoLane /\ steps = <<>> /\ run = NoRun /\ pubq = <<>>
      /\ turn = NoTurn /\ mem = Nothing /\ library = [id |-> 1, lent |-> FALSE, copies |-> 1]
  BY DEF Init
<1>3. PICK file \in {NONE} \cup IF on THEN {Snapshot(CountsOf(library), ItemsOf(library))}
                                ELSE {} :
        /\ site = [books |-> [id |-> 1, n |-> 0], file |-> file]
        /\ record = [books |-> site.books, file |-> file, keyed |-> TRUE]
        /\ store = [Nothing EXCEPT !.published = file]
  BY DEF Init
<1>4. /\ input.items = NONE /\ lane.items = NONE /\ Elems(steps) = {} /\ run.at = "idle"
      /\ turn.at = "idle" /\ input.queue = <<"start">> /\ mem.pending = NONE
      /\ library.id = 1
  BY <1>2, EmptyElems DEF NoInput, NoLane, NoRun, NoTurn, Nothing
<1>5. IdsInv
  BY <1>4 DEF IdsInv
<1>6. SetsInv
  <2>1. store.pending = NONE
    BY <1>3 DEF Nothing
  <2> QED BY <1>4, <2>1 DEF SetsInv, OfLibrary
<1>7. KeyedInv
  <2>1. "replaced" \notin Elems(input.queue)
    BY <1>4 DEF Elems
  <2>2. ~Before(pubq, "restore", "catalogue")
    BY <1>2 DEF Before
  <2>3. record.books.id = 1
    BY <1>3
  <2> QED BY <1>4, <2>1, <2>2, <2>3 DEF KeyedInv, InHand
<1>8. SentInv /\ FilesInv
  <2>1. site.file = file /\ site.books.id = 1
    BY <1>3
  <2>2. file # NONE => file.lib = 1
    <3>1. file # NONE => file = Snapshot(CountsOf(library), ItemsOf(library))
      BY <1>3
    <3>2. Snapshot(CountsOf(library), ItemsOf(library)).lib = ItemsOf(library).id
      BY OfLibraryType, SnapshotType, <1>1 DEF LaneInv, TypesInv
    <3> QED BY <1>4, <3>1, <3>2 DEF ItemsOf
  <2> QED BY <1>4, <2>1, <2>2 DEF SentInv, FilesInv, InHand
<1> QED BY <1>1, <1>5, <1>6, <1>7, <1>8 DEF TagsInv

LEMMA TagsStutter ==
    ASSUME TagsInv, UNCHANGED vars
    PROVE  TagsInv'
<1>1. UNCHANGED <<library, shown, on, outlived, mem, store, site, record, input, steps, step,
                  pubq, turn, lane, run>>
  BY DEF vars, phone, memory, world, notifier, queue
<1>2. (Begun' <=> Begun) /\ (LastNotice' <=> LastNotice) /\ (InHand' <=> InHand)
  BY <1>1 DEF Begun, LastNotice, InHand
<1>3. (Applied' <=> Applied) /\ (LastReplaced' <=> LastReplaced) /\ (Current' <=> Current)
  BY <1>1, <1>2 DEF Applied, LastReplaced, Current
<1>4. LateInv' /\ InputsInv'
  BY <1>1, <1>2, <1>3 DEF TagsInv, LateInv, InputsInv, Known
<1>5. IdsInv' /\ SetsInv'
  BY <1>1, <1>3 DEF TagsInv, IdsInv, SetsInv, OfLibrary
<1>6. KeyedInv' /\ SentInv' /\ FilesInv'
  BY <1>1, <1>2 DEF TagsInv, KeyedInv, SentInv, FilesInv, OfLibrary
<1> QED BY <1>4, <1>5, <1>6 DEF TagsInv

\* availability_lane.dart libraryReplaced and gate 7b: the availability.json of
\* this phone's record names the books of books.json, for any number of moves
\* and faults, restores among them, when nothing is published and the process
\* does not die in the middle of a restore; a set that the lane keeps because
\* it is told of the restore while off, or cannot write its store, is excepted.
THEOREM TagsHold == ASSUME Overlaps = {} PROVE Spec => []TagsOfThisLibrary
<1>1. LaneInv /\ TagsInv /\ [Next]_vars => TagsInv'
  <2> SUFFICES ASSUME LaneInv, TagsInv, [Next]_vars PROVE TagsInv'
    OBVIOUS
  <2>1. CASE Next
    BY <2>1, LateSafe, InputsSafe, IdsSafe, SetsSafe, KeyedSafe, SentSafe, FilesSafe DEF TagsInv
  <2>2. CASE UNCHANGED vars
    BY <2>2, TagsStutter
  <2> QED BY <2>1, <2>2
<1>2. LaneInv /\ TagsInv => TagsOfThisLibrary
  <2> SUFFICES ASSUME LaneInv, TagsInv, Reconciled.file # NONE, site.books.id # 0, ~outlived
               PROVE  site.file.lib = site.books.id
    BY DEF TagsOfThisLibrary
  <2>1. record.file # NONE /\ site.file # NONE
    BY ReconciledType DEF LaneInv
  <2> QED BY <2>1 DEF TagsInv, FilesInv
<1> QED BY <1>1, <1>2, TagsInit, LaneSafe, PTL DEF Spec
=============================================================================
