------------------------------ MODULE PushProofs ------------------------------
(***************************************************************************)
(* Theorems about the push service.                                        *)
(***************************************************************************)
EXTENDS Push, TLAPS

\* The log may grow.
LEMMA GoGrows ==
  ASSUME NEW n \in Nat, NEW f \in [Ids -> Goroutines(n)]
  PROVE  f \in [Ids -> Goroutines(n + 1)]
  <1>1. Goroutines(n) \subseteq Goroutines(n + 1)
    BY DEF Goroutines
  <1> QED
    BY <1>1

\* The fields of a new goroutine and of a new pushNotify.
LEMMA GoroutineType ==
  ASSUME NEW n \in Nat, NEW g \in 0..MaxRuns, NEW p \in Steps
  PROVE  Goroutine(p, g) \in Goroutines(n)
  <1>1. 0 \in -1..n /\ 0 \in 0..n /\ 0 \in Nat
    OBVIOUS
  <1> QED
    BY <1>1 DEF Goroutines, Goroutine

LEMMA GoneType ==
  ASSUME NEW n \in Nat
  PROVE  Nobody \in Goroutines(n) /\ Gone \in Goroutines(n)
  BY GoroutineType, PushAssumption DEF Nobody, Gone, Steps

LEMMA NotifyFields ==
  ASSUME NEW c \in 0..ChanBufCap, NEW b \in BOOLEAN, NEW s \in 0..PostFail2Sleep,
         NEW d \in BOOLEAN
  PROVE  [chan |-> c, running |-> b, sleep |-> s, closed |-> d] \in Notifies
  BY DEF Notifies

LEMMA NewNotifyType == NoNotify \in Notifies /\ NewNotify \in Notifies
  <1>1. 0 \in 0..ChanBufCap /\ 1 \in 0..ChanBufCap /\ 0 \in 0..PostFail2Sleep
    BY PushAssumption
  <1> QED
    BY <1>1, NotifyFields DEF NoNotify, NewNotify

\* Where the subscriber stands is a number.
LEMMA AnchorType == ASSUME start \in Starts PROVE Anchor \in Nat
  BY PushAssumption DEF Anchor, Starts

LEMMA InitHolds == Init => PushInv
  <1> SUFFICES ASSUME Init PROVE PushInv
    OBVIOUS
  <1> USE PushAssumption
  <1>1. TypeOK
    <2>1. notify \in [Ids -> Notifies] /\ go \in [Ids -> Goroutines(lastSeq)]
      BY GoneType, NewNotifyType DEF Init
    <2>2. told \in BOOLEAN /\ closing \in BOOLEAN
      BY Zenon DEF Init
    <2>3. lastPush \in -1..lastSeq /\ got \subseteq 1..lastSeq
      BY DEF Init
    <2>4. tasks \in 0..MaxRuns /\ fails \in 0..MaxFails /\ restarts \in 0..MaxRestarts
      BY DEF Init
    <2> QED
      BY <2>1, <2>2, <2>3, <2>4 DEF Init, TypeOK, Stages
  <1>2. WorkInv /\ NoGap /\ PositionInv
    BY DEF Init, WorkInv, NoGap, PositionInv, Anchor, Nobody, Goroutine, Blocked
  <1> QED
    BY <1>1, <1>2 DEF PushInv

LEMMA SaveBlockSequenceStep == PushInv /\ SaveBlockSequence => PushInv'
  <1> SUFFICES ASSUME PushInv, SaveBlockSequence PROVE PushInv'
    OBVIOUS
  <1> USE PushAssumption DEF SaveBlockSequence, PushInv, dbVars
  <1>1. TypeOK'
    <2>0. lastSeq \in Nat /\ go \in [Ids -> Goroutines(lastSeq)]
      BY DEF TypeOK
    <2>1. go' \in [Ids -> Goroutines(lastSeq')]
      BY <2>0, GoGrows
    <2>2. told' \in BOOLEAN /\ closing' \in BOOLEAN
      BY Zenon DEF TypeOK
    <2>3. lastPush' \in -1..lastSeq' /\ got' \subseteq 1..lastSeq'
      BY DEF TypeOK
    <2> QED
      BY <2>1, <2>2, <2>3 DEF TypeOK
  <1>2. WorkInv'
    BY DEF WorkInv, TypeOK, Blocked
  <1>3. NoGap' /\ PositionInv'
    BY DEF NoGap, PositionInv, Anchor
  <1> QED
    BY <1>1, <1>2, <1>3

LEMMA UpdateSeqStep == PushInv /\ UpdateSeq => PushInv'
  <1> SUFFICES ASSUME PushInv, UpdateSeq PROVE PushInv'
    OBVIOUS
  <1> USE PushAssumption DEF UpdateSeq, PushInv, dbVars
  <1>1. TypeOK'
    <2>0. /\ notify \in [Ids -> Notifies]
          /\ tasks # 0 => tasks \in Ids /\ notify[tasks].chan \in 0..ChanBufCap
      BY DEF TypeOK, Ids, Notifies
    <2>1. notify' \in [Ids -> Notifies]
      <3>1. CASE tasks # 0 /\ notify[tasks].chan < ChanBufCap
        <4>1. notify[tasks].chan + 1 \in 0..ChanBufCap
          BY <2>0, <3>1
        <4> QED
          BY <2>0, <3>1, <4>1 DEF Notifies
      <3> QED
        BY <2>0, <3>1
    <2> QED
      BY <2>1 DEF TypeOK
  <1>2. WorkInv'
    BY DEF WorkInv, Blocked
  <1>3. NoGap' /\ PositionInv'
    BY DEF NoGap, PositionInv, Anchor
  <1> QED
    BY <1>1, <1>2, <1>3

LEMMA AddSubscriberStep ==
  ASSUME NEW r \in Requests, PushInv, AddSubscriber(r) PROVE PushInv'
  <1> USE PushAssumption DEF AddSubscriber, PushInv, dbVars, Goto
  <1>1. TypeOK'
    BY DEF TypeOK, Stages
  <1>2. WorkInv'
    BY DEF WorkInv, Blocked, TypeOK
  <1>3. NoGap' /\ PositionInv'
    BY DEF NoGap, PositionInv, Anchor, TypeOK
  <1> QED
    BY <1>1, <1>2, <1>3

LEMMA StoreStartStep ==
  ASSUME NEW r \in Requests, PushInv, StoreStart(r) PROVE PushInv'
  <1> USE PushAssumption DEF StoreStart, PushInv, dbVars, Goto
  <1>1. TypeOK'
    <2>1. Anchor \in Nat /\ (Anchor > 0 => Anchor = start.seq)
      BY AnchorType DEF TypeOK, Anchor
    <2>2. lastPush' \in -1..lastSeq
      BY <2>1 DEF TypeOK
    <2> QED
      BY <2>2 DEF TypeOK, Stages
  <1>2. WorkInv'
    BY DEF WorkInv, Blocked, TypeOK
  <1>3. Anchor' = Anchor /\ Anchor \in Nat
    BY AnchorType DEF Anchor, TypeOK
  <1>4. NoGap'
    BY <1>3 DEF NoGap
  <1>5. PositionInv'
    <2> SUFFICES ASSUME Anchor > 0 PROVE PositionInv'
      BY <1>3 DEF PositionInv
    <2>1. CASE start.seq > lastSeq
      BY <1>3, <2>1 DEF PositionInv, TypeOK
    <2>2. CASE ~(start.seq > lastSeq)
      <3>1. lastPush' = Anchor /\ lastPush' # -1
        BY <1>3, <2>2 DEF TypeOK
      <3> QED
        BY <1>3, <3>1 DEF PositionInv
    <2> QED
      BY <2>1, <2>2
  <1> QED
    BY <1>1, <1>2, <1>4, <1>5

\* The next goroutine is one that was never started.
LEMMA FreeId == ASSUME NEW g \in Free PROVE g \in Ids /\ go[g].pc = "none"
  BY DEF Free

LEMMA NewTaskType ==
  ASSUME TypeOK, NEW g \in Ids, NewTask(g)
  PROVE  /\ notify' \in [Ids -> Notifies] /\ tasks' \in Ids
         /\ go' \in [Ids -> Goroutines(lastSeq)]
  <1>1. Goroutine("start", g) \in Goroutines(lastSeq)
    BY GoroutineType, PushAssumption DEF TypeOK, Steps, Ids
  <1> QED
    BY <1>1, NewNotifyType DEF NewTask, TypeOK

LEMMA RunTaskType ==
  ASSUME TypeOK, NEW g \in Ids, NEW n \in Ids, notify[n].chan < ChanBufCap, RunTask(g, n)
  PROVE  /\ notify' \in [Ids -> Notifies] /\ tasks' = tasks
         /\ go' \in [Ids -> Goroutines(lastSeq)]
  <1>1. Goroutine("start", n) \in Goroutines(lastSeq)
    BY GoroutineType, PushAssumption DEF TypeOK, Steps, Ids
  <1>2. go' \in [Ids -> Goroutines(lastSeq)] /\ tasks' = tasks
    BY <1>1 DEF RunTask, TypeOK
  <1>3. notify \in [Ids -> Notifies] /\ notify[n].chan + 1 \in 0..ChanBufCap
    BY PushAssumption DEF TypeOK, Notifies
  <1>4. notify' \in [Ids -> Notifies]
    BY <1>3 DEF RunTask, Notifies
  <1> QED
    BY <1>2, <1>4

LEMMA AddTaskStep ==
  ASSUME NEW r \in Requests, NEW g \in Free, PushInv, AddTask(r, g) PROVE PushInv'
  <1> USE PushAssumption DEF AddTask, PushInv, dbVars, Goto
  <1>1. TypeOK'
    <2>1. /\ notify' \in [Ids -> Notifies] /\ tasks' \in Ids
          /\ go' \in [Ids -> Goroutines(lastSeq)]
      BY FreeId, NewTaskType
    <2> QED
      BY <2>1 DEF TypeOK, Stages, Ids
  <1>2. WorkInv'
    BY FreeId DEF WorkInv, Blocked, TypeOK, NewTask, Goroutine, Ids
  <1>3. NoGap' /\ PositionInv'
    BY FreeId DEF NoGap, PositionInv, Anchor, TypeOK, NewTask, Goroutine
  <1> QED
    BY <1>1, <1>2, <1>3

LEMMA PersistStep ==
  ASSUME NEW r \in Requests, PushInv, Persist(r) PROVE PushInv'
  <1> USE PushAssumption DEF Persist, PushInv, dbVars, Goto
  <1>1. TypeOK'
    BY DEF TypeOK, Stages
  <1>2. WorkInv'
    BY DEF WorkInv, Blocked, TypeOK
  <1>3. NoGap' /\ PositionInv'
    BY DEF NoGap, PositionInv, Anchor, TypeOK
  <1> QED
    BY <1>1, <1>2, <1>3

LEMMA SetActiveStep ==
  ASSUME NEW r \in Requests, PushInv, SetActive(r) PROVE PushInv'
  <1> USE PushAssumption DEF SetActive, PushInv, dbVars, Goto
  <1>1. TypeOK'
    BY DEF TypeOK, Stages
  <1>2. WorkInv'
    BY DEF WorkInv, Blocked, TypeOK
  <1>3. NoGap' /\ PositionInv'
    BY DEF NoGap, PositionInv, Anchor, TypeOK
  <1> QED
    BY <1>1, <1>2, <1>3

LEMMA DeleteTaskStep ==
  ASSUME NEW g \in Ids, PushInv, DeleteTask(g) PROVE PushInv'
  <1> USE PushAssumption DEF DeleteTask, PushInv, dbVars
  <1>1. TypeOK'
    <2>1. go' \in [Ids -> Goroutines(lastSeq)]
      BY DEF TypeOK, Goroutines, Steps
    <2> QED
      BY <2>1 DEF TypeOK
  <1>2. WorkInv'
    BY DEF WorkInv, Blocked, TypeOK, MuFree
  <1>3. NoGap' /\ PositionInv'
    BY DEF NoGap, PositionInv, Anchor, TypeOK
  <1> QED
    BY <1>1, <1>2, <1>3

LEMMA RunningStep ==
  ASSUME NEW g \in Ids, PushInv, Running(g) PROVE PushInv'
  <1> USE PushAssumption DEF Running, PushInv, dbVars
  <1>1. TypeOK'
    <2>1. go' \in [Ids -> Goroutines(lastSeq)]
      BY DEF TypeOK, Goroutines, Steps
    <2>2. notify' \in [Ids -> Notifies]
      BY DEF TypeOK, WorkInv, Notifies
    <2> QED
      BY <2>1, <2>2 DEF TypeOK
  <1>2. WorkInv'
    BY DEF WorkInv, Blocked, TypeOK
  <1>3. NoGap' /\ PositionInv'
    BY DEF NoGap, PositionInv, Anchor, TypeOK
  <1> QED
    BY <1>1, <1>2, <1>3

LEMMA StartStep ==
  ASSUME NEW g \in Ids, PushInv, Start(g) PROVE PushInv'
  <1> USE PushAssumption DEF Start, PushInv, dbVars
  <1>1. TypeOK'
    <2>1. go' \in [Ids -> Goroutines(lastSeq)]
      BY DEF TypeOK, Goroutines, Steps
    <2> QED
      BY <2>1 DEF TypeOK
  <1>2. WorkInv'
    BY DEF WorkInv, Blocked, TypeOK
  <1>3. NoGap' /\ PositionInv'
    BY DEF NoGap, PositionInv, Anchor, TypeOK
  <1> QED
    BY <1>1, <1>2, <1>3

\* A post from where a goroutine stands leaves no gap.
LEMMA BatchFits ==
  ASSUME PushInv, Anchor > 0, NEW g \in Ids, go[g].pc = "post", NEW u \in Ends(g)
  PROVE  /\ u >= Anchor /\ (Anchor + 1)..u \subseteq got \cup Batch(g, u)
         /\ \A x \in got \cup Batch(g, u) : (Anchor + 1)..x \subseteq got \cup Batch(g, u)
  <1>1. go[g].last >= Anchor /\ (Anchor + 1)..go[g].last \subseteq got
    BY DEF PushInv, PositionInv
  <1>2. Anchor \in Nat /\ go[g].last \in Int /\ go[g].latest \in Int /\ got \subseteq Int
    BY AnchorType, PushAssumption DEF PushInv, TypeOK, Goroutines
  <1>3. u \in Int /\ u > go[g].last
    BY <1>2 DEF Ends
  <1>4. (Anchor + 1)..u \subseteq got \cup Batch(g, u)
    BY <1>1, <1>2, <1>3 DEF Batch
  <1>5. ASSUME NEW x \in got \cup Batch(g, u) PROVE (Anchor + 1)..x \subseteq got \cup Batch(g, u)
    <2>1. CASE x \in got
      BY <2>1 DEF PushInv, NoGap
    <2>2. CASE x \in Batch(g, u)
      BY <2>2, <1>2, <1>3, <1>4 DEF Batch
    <2> QED
      BY <2>1, <2>2
  <1> QED
    BY <1>1, <1>2, <1>3, <1>4, <1>5

LEMMA PostDataStep ==
  ASSUME NEW g \in Ids, NEW u \in Ends(g), PushInv, PostData(g, u) PROVE PushInv'
  <1> USE PushAssumption DEF PostData, PushInv, dbVars, Ends, Batch
  <1>0. Anchor' = Anchor
    BY DEF Anchor
  <1>1. TypeOK'
    <2>1. go' \in [Ids -> Goroutines(lastSeq)]
      BY DEF TypeOK, Goroutines, Steps
    <2>2. got' \subseteq 1..lastSeq
      BY DEF TypeOK, WorkInv, Goroutines
    <2> QED
      BY <2>1, <2>2 DEF TypeOK
  <1>2. WorkInv'
    BY DEF WorkInv, Blocked, TypeOK
  <1>3. got \subseteq got' /\ got' = got \cup Batch(g, u)
    OBVIOUS
  <1>4. NoGap'
    BY <1>0, <1>3, BatchFits DEF NoGap
  <1>5. PositionInv'
    <2> SUFFICES ASSUME Anchor > 0 PROVE PositionInv'
      BY <1>0 DEF PositionInv
    <2>2. u >= Anchor /\ (Anchor + 1)..u \subseteq got'
      BY <1>3, BatchFits
    <2>3. \A h \in Ids : h # g => go'[h] = go[h]
      BY DEF TypeOK
    <2>4. lastPush # -1
      BY DEF PositionInv
    <2>5. go'[g].last = u
      BY DEF TypeOK, Goroutines
    <2> QED
      BY <1>0, <1>3, <2>2, <2>3, <2>4, <2>5 DEF PositionInv
  <1> QED
    BY <1>1, <1>2, <1>4, <1>5

LEMMA UnblockStep ==
  ASSUME NEW r \in Requests, NEW g \in Free, PushInv, Unblock(r, g) PROVE PushInv'
  <1> USE PushAssumption DEF Unblock, PushInv, dbVars, Goto
  <1>0. tasks \in Ids /\ g \in Ids
    BY FreeId DEF TypeOK, WorkInv, Ids
  <1>1. TypeOK'
    <2>2. /\ notify' \in [Ids -> Notifies] /\ tasks' = tasks
          /\ go' \in [Ids -> Goroutines(lastSeq)]
      BY <1>0, RunTaskType
    <2> QED
      BY <2>2 DEF TypeOK, Stages
  <1>2. WorkInv'
    <2>1. go'[g] = Goroutine("start", tasks) /\ \A h \in Ids : h # g => go'[h] = go[h]
      BY <1>0 DEF RunTask, TypeOK
    <2>2. tasks' = tasks /\ tasks # 0
      BY <1>0 DEF RunTask, Ids
    <2> QED
      BY <1>0, <2>1, <2>2 DEF WorkInv, Blocked, Goroutine
  <1>3. NoGap' /\ PositionInv'
    BY FreeId DEF NoGap, PositionInv, Anchor, TypeOK, RunTask, Goroutine, Blocked
  <1> QED
    BY <1>1, <1>2, <1>3

LEMMA TickStep ==
  ASSUME NEW g \in Ids, PushInv, Tick(g) PROVE PushInv'
  <1> USE PushAssumption DEF Tick, PushInv, dbVars
  <1>1. TypeOK'
    <2>0. /\ notify \in [Ids -> Notifies] /\ go[g].note \in Ids
          /\ notify[go[g].note].chan \in 0..ChanBufCap
          /\ notify[go[g].note].sleep \in 0..PostFail2Sleep
      BY DEF TypeOK, WorkInv, Notifies
    <2>1. go' \in [Ids -> Goroutines(lastSeq)]
      BY DEF TypeOK, Goroutines
    <2>2. (IF notify[go[g].note].sleep > 0 THEN notify[go[g].note].sleep - 1 ELSE 0) \in 0..PostFail2Sleep
      BY <2>0
    <2>3. notify' \in [Ids -> Notifies]
      BY <2>0, <2>2 DEF Notifies
    <2> QED
      BY <2>1, <2>3 DEF TypeOK
  <1>2. WorkInv'
    BY DEF WorkInv, Blocked, TypeOK
  <1>3. NoGap' /\ PositionInv'
    BY DEF NoGap, PositionInv, Anchor, TypeOK
  <1> QED
    BY <1>1, <1>2, <1>3

LEMMA SeqUpdateStep ==
  ASSUME NEW g \in Ids, PushInv, SeqUpdate(g) PROVE PushInv'
  <1> USE PushAssumption DEF PushInv, dbVars
  <1> DEFINE s == notify[go[g].note].sleep
             rest == IF s > 0 THEN s - 1 ELSE 0
             old == go[g]
             new == Noticed(old, s)
  <1>1. /\ notify \in [Ids -> Notifies] /\ old.note \in Ids
        /\ notify[old.note].chan \in 0..ChanBufCap /\ s \in 0..PostFail2Sleep
    BY DEF SeqUpdate, TypeOK, WorkInv, Notifies
  <1>2. /\ go \in [Ids -> Goroutines(lastSeq)] /\ lastSeq \in Nat
        /\ old \in Goroutines(lastSeq) /\ old.pc = "select"
    BY DEF SeqUpdate, TypeOK
  <1>3. go' = [go EXCEPT ![g] = new]
    BY DEF SeqUpdate
  <1>4. /\ new \in Goroutines(lastSeq) /\ new.note = old.note
        /\ new.pc \in {"select", "post"} /\ (new.pc = "post" => new.last >= 1)
        /\ new.last = old.last \/ old.last <= 0
    <2> HIDE DEF s, old
    <2>1. CASE s > 1
      BY <1>2, <2>1 DEF Goroutines, Noticed
    <2>2. CASE ~(s > 1) /\ old.last >= lastSeq
      BY <1>2, <2>2 DEF Noticed
    <2>3. CASE ~(s > 1) /\ ~(old.last >= lastSeq) /\ old.last <= 0
      <3>1. new = [old EXCEPT !.last = lastSeq] /\ lastSeq \in -1..lastSeq
        BY <1>2, <2>3 DEF Noticed
      <3> QED
        BY <1>2, <2>3, <3>1 DEF Goroutines
    <2>4. CASE ~(s > 1) /\ ~(old.last >= lastSeq) /\ ~(old.last <= 0)
      <3>1. new = [old EXCEPT !.latest = lastSeq, !.pc = "post"]
        BY <2>4 DEF Noticed
      <3>2. lastSeq \in 0..lastSeq /\ "post" \in Steps /\ old.last \in Int
        BY <1>2 DEF Steps, Goroutines
      <3>3. new \in Goroutines(lastSeq) /\ new.pc = "post"
        BY <1>2, <3>1, <3>2 DEF Goroutines
      <3>4. new.last = old.last /\ new.note = old.note
        BY <1>2, <3>1 DEF Goroutines
      <3> QED
        BY <2>4, <3>2, <3>3, <3>4
    <2> QED
      BY <2>1, <2>2, <2>3, <2>4
  <1>5. notify' \in [Ids -> Notifies]
    <2>1. rest \in 0..PostFail2Sleep
      BY <1>1
    <2>2. notify[old.note].chan > 0 /\ notify[old.note].chan - 1 \in 0..ChanBufCap
      BY <1>1 DEF SeqUpdate
    <2>3. notify' = [notify EXCEPT ![old.note].chan = @ - 1, ![old.note].sleep = rest]
      BY DEF SeqUpdate
    <2> HIDE DEF rest
    <2> QED
      BY <1>1, <2>1, <2>2, <2>3 DEF Notifies
  <1> HIDE DEF new
  <1>6. go' \in [Ids -> Goroutines(lastSeq)] /\ go'[g] = new
    BY <1>2, <1>3, <1>4
  <1>7. \A h \in Ids : h # g => go'[h] = go[h]
    BY <1>2, <1>3
  <1> USE DEF SeqUpdate
  <1>8. TypeOK'
    BY <1>5, <1>6 DEF TypeOK
  <1>9. WorkInv'
    BY <1>1, <1>4, <1>6, <1>7 DEF WorkInv, Blocked
  <1>a. Anchor' = Anchor /\ Anchor \in Nat
    BY AnchorType DEF Anchor, TypeOK
  <1>10. NoGap'
    BY <1>a DEF NoGap
  <1>11. PositionInv'
    BY <1>2, <1>4, <1>6, <1>7, <1>a DEF PositionInv, TypeOK, Goroutines
  <1> QED
    BY <1>8, <1>9, <1>10, <1>11

LEMMA SetLastPushSeqStep ==
  ASSUME NEW g \in Ids, PushInv, SetLastPushSeq(g) PROVE PushInv'
  <1> USE PushAssumption DEF SetLastPushSeq, PushInv, dbVars
  <1>1. TypeOK'
    <2> DEFINE p == IF go[g].last < go[g].latest THEN "more" ELSE "select"
    <2>0. p \in Steps /\ 0 \in 0..lastSeq /\ go \in [Ids -> Goroutines(lastSeq)]
      BY DEF Steps, TypeOK
    <2>a. go' = [go EXCEPT ![g].pc = p, ![g].latest = 0]
      OBVIOUS
    <2> HIDE DEF p, SetLastPushSeq
    <2>1. go' \in [Ids -> Goroutines(lastSeq)]
      BY <2>0, <2>a DEF Goroutines
    <2> USE DEF SetLastPushSeq
    <2>2. lastPush' \in -1..lastSeq
      BY DEF TypeOK, Goroutines
    <2> QED
      BY <2>1, <2>2 DEF TypeOK
  <1>2. WorkInv'
    BY DEF WorkInv, Blocked, TypeOK
  <1>0. Anchor' = Anchor
    BY DEF Anchor
  <1>3. NoGap' /\ PositionInv'
    <2>1. NoGap'
      BY <1>0 DEF NoGap
    <2>2. \A h \in Ids : h # g => go'[h] = go[h]
      BY DEF TypeOK
    <2>3. go'[g].last = go[g].last /\ go[g].pc = "ack"
      BY DEF TypeOK, Goroutines
    <2>4. Anchor > 0 => Anchor \in Nat /\ lastPush # -1 /\ lastPush' >= Anchor /\ lastPush' # -1
      BY AnchorType DEF PositionInv, TypeOK
    <2> QED
      BY <1>0, <2>1, <2>2, <2>3, <2>4 DEF PositionInv
  <1> QED
    BY <1>1, <1>2, <1>3

LEMMA MoreStep ==
  ASSUME NEW g \in Ids, PushInv, More(g) PROVE PushInv'
  <1> USE PushAssumption DEF More, PushInv, dbVars
  <1>1. TypeOK'
    <2>0. /\ notify \in [Ids -> Notifies] /\ go[g].note \in Ids
          /\ notify[go[g].note].chan \in 0..ChanBufCap
          /\ notify[go[g].note].sleep \in 0..PostFail2Sleep
      BY DEF TypeOK, WorkInv, Notifies
    <2>1. go' \in [Ids -> Goroutines(lastSeq)]
      BY DEF TypeOK, Goroutines, Steps
    <2>2. 1 \in 0..ChanBufCap
      OBVIOUS
    <2>3. notify' \in [Ids -> Notifies]
      BY <2>0, <2>2 DEF Notifies
    <2> QED
      BY <2>1, <2>3 DEF TypeOK
  <1>2. WorkInv'
    BY DEF WorkInv, Blocked, TypeOK
  <1>3. NoGap' /\ PositionInv'
    BY DEF NoGap, PositionInv, Anchor, TypeOK
  <1> QED
    BY <1>1, <1>2, <1>3

LEMMA SetNotActiveStep ==
  ASSUME NEW g \in Ids, PushInv, SetNotActive(g) PROVE PushInv'
  <1> USE PushAssumption DEF SetNotActive, PushInv, dbVars
  <1>1. TypeOK'
    <2>1. go' \in [Ids -> Goroutines(lastSeq)]
      BY GoneType DEF TypeOK
    <2> QED
      BY <2>1 DEF TypeOK
  <1>2. WorkInv'
    BY DEF WorkInv, Blocked, TypeOK, Gone, Goroutine
  <1>3. NoGap' /\ PositionInv'
    BY DEF NoGap, PositionInv, Anchor, TypeOK, Gone, Goroutine
  <1> QED
    BY <1>1, <1>2, <1>3

LEMMA CloseTaskStep ==
  ASSUME NEW g \in Ids, PushInv, CloseTask(g) PROVE PushInv'
  <1> USE PushAssumption DEF CloseTask, PushInv, dbVars
  <1>1. TypeOK'
    <2>1. go' \in [Ids -> Goroutines(lastSeq)]
      BY GoneType DEF TypeOK
    <2> QED
      BY <2>1 DEF TypeOK
  <1>2. WorkInv'
    BY DEF WorkInv, Blocked, TypeOK, Gone, Goroutine
  <1>3. NoGap' /\ PositionInv'
    BY DEF NoGap, PositionInv, Anchor, TypeOK, Gone, Goroutine
  <1> QED
    BY <1>1, <1>2, <1>3

LEMMA CloseStep == ASSUME PushInv, Close PROVE PushInv'
  <1> USE PushAssumption DEF Close, PushInv, dbVars
  <1>1. TypeOK'
    <2>0. notify \in [Ids -> Notifies] /\ (tasks # 0 => tasks \in Ids)
      BY DEF TypeOK, Ids
    <2>1. notify' \in [Ids -> Notifies]
      BY <2>0 DEF Notifies
    <2>2. told' \in BOOLEAN /\ closing' \in BOOLEAN
      BY Zenon DEF TypeOK
    <2> QED
      BY <2>1, <2>2 DEF TypeOK, Stages
  <1>2. WorkInv'
    BY DEF WorkInv, Blocked, TypeOK
  <1>3. NoGap' /\ PositionInv'
    BY DEF NoGap, PositionInv, Anchor, TypeOK
  <1> QED
    BY <1>1, <1>2, <1>3

LEMMA RestartStep == ASSUME PushInv, Restart PROVE PushInv'
  <1> USE PushAssumption DEF Restart, PushInv, dbVars
  <1>1. TypeOK'
    <2>1. 1 \in Ids \/ ~(MaxRuns > 0)
      BY DEF Ids
    <2>2. notify' \in [Ids -> Notifies]
      BY NewNotifyType
    <2>3. go' \in [Ids -> Goroutines(lastSeq)]
      <3>1. lastSeq \in Nat
        BY DEF TypeOK
      <3>2. MaxRuns > 0 => Goroutine("start", 1) \in Goroutines(lastSeq)
        BY <3>1, GoroutineType DEF Steps
      <3> QED
        BY <3>1, <3>2, GoneType
    <2>4. told' \in BOOLEAN /\ closing' \in BOOLEAN
      BY Zenon DEF TypeOK
    <2>5. tasks' \in 0..MaxRuns /\ restarts' \in 0..MaxRestarts
      BY DEF TypeOK
    <2>6. req' \in [Requests -> Stages]
      BY DEF Stages
    <2> QED
      BY <2>2, <2>3, <2>4, <2>5, <2>6 DEF TypeOK
  <1>2. WorkInv'
    BY DEF WorkInv, Blocked, TypeOK, Ids, Nobody, Goroutine
  <1>3. NoGap' /\ PositionInv'
    BY DEF NoGap, PositionInv, Anchor, TypeOK, Nobody, Goroutine
  <1> QED
    BY <1>1, <1>2, <1>3

LEMMA Check2ResumePushStep ==
  ASSUME NEW r \in Requests, NEW g \in Free, PushInv, Check2ResumePush(r, g) PROVE PushInv'
  <1> USE PushAssumption DEF PushInv, dbVars, Goto
  <1>0. g \in Ids /\ go[g].pc = "none"
    BY FreeId
  <1>1. CASE tasks = 0
    <2>0. /\ NewTask(g) /\ req[r] = "resume" /\ req' = [req EXCEPT ![r] = "activate"]
          /\ UNCHANGED <<lastSeq, told, dbVars, start, closing, got, fails, restarts>>
      BY <1>1 DEF Check2ResumePush
    <2>1. /\ notify' \in [Ids -> Notifies] /\ tasks' \in Ids
          /\ go' \in [Ids -> Goroutines(lastSeq)]
      BY <1>0, <2>0, NewTaskType
    <2>2. TypeOK'
      BY <2>0, <2>1 DEF TypeOK, Stages, Ids
    <2>3. WorkInv'
      BY <1>0, <2>0 DEF WorkInv, Blocked, TypeOK, NewTask, Goroutine, Ids
    <2>4. NoGap' /\ PositionInv'
      BY <1>0, <2>0 DEF NoGap, PositionInv, Anchor, TypeOK, NewTask, Goroutine
    <2> QED
      BY <2>2, <2>3, <2>4
  <1>2. CASE tasks # 0
    <2>0. tasks \in Ids
      BY <1>2 DEF TypeOK, Ids
    <2>1. CASE notify[tasks].running
      <3> USE <1>2, <2>1 DEF Check2ResumePush
      <3>1. notify' \in [Ids -> Notifies]
        BY <2>0 DEF TypeOK, Notifies
      <3>2. TypeOK'
        BY <3>1 DEF TypeOK, Stages
      <3>3. WorkInv' /\ NoGap' /\ PositionInv'
        BY DEF WorkInv, Blocked, NoGap, PositionInv, Anchor, TypeOK
      <3> QED
        BY <3>2, <3>3
    <2>2. CASE ~notify[tasks].running /\ notify[tasks].chan < ChanBufCap
      <3> USE <1>2, <2>2 DEF Check2ResumePush
      <3>1. RunTask(g, tasks) /\ req' = [req EXCEPT ![r] = "activate"]
        OBVIOUS
      <3>2. /\ notify' \in [Ids -> Notifies] /\ tasks' = tasks
            /\ go' \in [Ids -> Goroutines(lastSeq)]
        BY <1>0, <2>0, <3>1, RunTaskType
      <3>3. TypeOK'
        BY <3>1, <3>2 DEF TypeOK, Stages
      <3>4. WorkInv'
        BY <1>0, <2>0, <3>1 DEF WorkInv, Blocked, TypeOK, RunTask, Goroutine
      <3>5. NoGap' /\ PositionInv'
        BY <1>0, <3>1 DEF NoGap, PositionInv, Anchor, TypeOK, RunTask, Goroutine
      <3> QED
        BY <3>3, <3>4, <3>5
    <2>3. CASE ~notify[tasks].running /\ ~(notify[tasks].chan < ChanBufCap)
      <3>1. /\ req' = [req EXCEPT ![r] = "blocked"]
            /\ UNCHANGED <<tasks, notify, go, lastSeq, told, dbVars, start, closing, got, fails, restarts>>
        BY <1>2, <2>3 DEF Check2ResumePush
      <3>2. TypeOK'
        BY <3>1 DEF TypeOK, Stages
      <3>3. WorkInv' /\ NoGap' /\ PositionInv'
        BY <1>2, <3>1 DEF WorkInv, Blocked, NoGap, PositionInv, Anchor, TypeOK, Check2ResumePush
      <3> QED
        BY <3>2, <3>3
    <2> QED
      BY <2>1, <2>2, <2>3
  <1> QED
    BY <1>1, <1>2

LEMMA PostFailsStep ==
  ASSUME NEW g \in Ids, NEW u \in Ends(g), PushInv, PostFails(g, u) PROVE PushInv'
  <1> USE PushAssumption DEF PostFails, PushInv, dbVars
  <1> DEFINE n == go[g].note
  <1>0. n \in Ids /\ n \in 0..MaxRuns
    BY DEF WorkInv, Ids
  <1>1. /\ go' \in [Ids -> Goroutines(lastSeq)]
        /\ go'[g].note = n /\ go'[g].pc \in {"select", "delete"}
        /\ go'[g].pc = "select" => go'[g].last = go[g].last
    <2>1. CASE go[g].fails + 1 < FailLimit
      BY <2>1 DEF TypeOK, Goroutines, Steps
    <2>2. CASE ~(go[g].fails + 1 < FailLimit)
      <3>1. Goroutine("delete", n) \in Goroutines(lastSeq)
        BY <1>0, GoroutineType DEF TypeOK, Steps
      <3>2. go' = [go EXCEPT ![g] = Goroutine("delete", n)]
        BY <2>2 DEF TypeOK, Goroutines
      <3> QED
        BY <3>1, <3>2 DEF TypeOK, Goroutine
    <2> QED
      BY <2>1, <2>2
  <1>2. \A h \in Ids : h # g => go'[h] = go[h]
    BY DEF TypeOK
  <1>3. notify' \in [Ids -> Notifies]
    <2>1. PostFail2Sleep \in 0..PostFail2Sleep /\ notify \in [Ids -> Notifies]
      BY DEF TypeOK
    <2>2. \/ notify' = [notify EXCEPT ![n].sleep = PostFail2Sleep]
          \/ notify' = [notify EXCEPT ![n].running = FALSE]
      OBVIOUS
    <2> HIDE DEF n, PostFails
    <2> QED
      BY <1>0, <2>1, <2>2 DEF Notifies
  <1>4. got' \subseteq 1..lastSeq
    BY DEF TypeOK, WorkInv, Goroutines, Ends, Batch
  <1>5. got \subseteq got'
    OBVIOUS
  <1>6. TypeOK'
    BY <1>1, <1>3, <1>4 DEF TypeOK
  <1>7. WorkInv'
    BY <1>0, <1>1, <1>2 DEF WorkInv, Blocked
  <1>a. Anchor' = Anchor
    BY DEF Anchor
  <1>8. NoGap'
    BY <1>a, BatchFits DEF NoGap
  <1>9. PositionInv'
    BY <1>1, <1>2, <1>5, <1>a DEF PositionInv
  <1> QED
    BY <1>6, <1>7, <1>8, <1>9

\* Every step of the push service keeps its invariant.
LEMMA NextStep == PushInv /\ [Next]_vars => PushInv'
  <1> SUFFICES ASSUME PushInv, [Next]_vars PROVE PushInv'
    OBVIOUS
  <1>1. CASE SaveBlockSequence \/ UpdateSeq \/ Close \/ Restart
    BY <1>1, SaveBlockSequenceStep, UpdateSeqStep, CloseStep, RestartStep
  <1>2. CASE \E r \in Requests : AddSubscriber(r) \/ Subscription(r)
    BY <1>2, AddSubscriberStep, StoreStartStep, PersistStep, SetActiveStep, AddTaskStep,
       Check2ResumePushStep, UnblockStep DEF Subscription
  <1>3. CASE \E g \in Ids : Task(g)
    BY <1>3, StartStep, RunningStep, TickStep, SeqUpdateStep, PostDataStep, PostFailsStep,
       SetLastPushSeqStep, MoreStep, DeleteTaskStep, SetNotActiveStep, CloseTaskStep DEF Task
  <1>4. CASE UNCHANGED vars
    BY <1>4 DEF vars, dbVars, PushInv, TypeOK, WorkInv, NoGap, PositionInv, Anchor, Blocked
  <1> QED
    BY <1>1, <1>2, <1>3, <1>4 DEF Next

\* The invariant of the push service holds for any number of subscriptions,
\* goroutines, failed posts and restarts.
THEOREM Invariance == Spec => []PushInv
  BY InitHolds, NextStep, PTL DEF Spec

\* Channels keep to their capacity and positions to the log.
THEOREM TypeCorrect == Spec => []TypeOK
  <1>1. PushInv => TypeOK
    BY DEF PushInv
  <1> QED
    BY <1>1, Invariance, PTL

\* A subscriber that said where it stands, with the hash the log has there, has
\* no gap in what it received.
THEOREM NoGapHolds == Spec => []NoGap
  <1>1. PushInv => NoGap
    BY DEF PushInv
  <1> QED
    BY <1>1, Invariance, PTL

LEMMA ServedStep == PushInv /\ ServedInv /\ [Next]_vars => ServedInv'
  <1> SUFFICES ASSUME PushInv, ServedInv, [Next]_vars PROVE ServedInv'
    OBVIOUS
  <1>0. TypeOK /\ WorkInv
    BY DEF PushInv
  <1> USE PushAssumption, <1>0 DEF ServedInv, Served, Serves, Alive, dbVars
  <1>1. CASE SaveBlockSequence
    BY <1>1 DEF SaveBlockSequence
  <1>2. CASE UpdateSeq
    BY <1>2 DEF UpdateSeq, TypeOK, Notifies, Ids
  <1>3. CASE Close
    BY <1>3 DEF Close, TypeOK, Notifies, Ids
  <1>4. CASE Restart
    BY <1>4 DEF Restart, TypeOK, Nobody, Goroutine, NoNotify, NewNotify, Ids
  <1>5. ASSUME NEW r \in Requests, AddSubscriber(r) PROVE ServedInv'
    BY <1>5 DEF AddSubscriber
  <1>6. ASSUME NEW r \in Requests, StoreStart(r) \/ Persist(r) \/ SetActive(r) PROVE ServedInv'
    BY <1>6 DEF StoreStart, Persist, SetActive
  <1>7. ASSUME NEW g \in Ids, Start(g) PROVE ServedInv'
    BY <1>7 DEF Start, TypeOK
  <1>8. ASSUME NEW g \in Ids, Running(g) PROVE ServedInv'
    BY <1>8 DEF Running, TypeOK, WorkInv, Notifies
  <1>9. ASSUME NEW g \in Ids, Tick(g) PROVE ServedInv'
    BY <1>9 DEF Tick, TypeOK, WorkInv, Notifies
  <1>10. ASSUME NEW g \in Ids, SetLastPushSeq(g) PROVE ServedInv'
    BY <1>10 DEF SetLastPushSeq, TypeOK
  <1>11. ASSUME NEW g \in Ids, More(g) PROVE ServedInv'
    BY <1>11 DEF More, TypeOK, WorkInv, Notifies
  <1>12. ASSUME NEW g \in Ids, DeleteTask(g) PROVE ServedInv'
    BY <1>12 DEF DeleteTask, TypeOK
  <1>13. ASSUME NEW g \in Ids, SetNotActive(g) PROVE ServedInv'
    BY <1>13 DEF SetNotActive, TypeOK
  <1>14. ASSUME NEW g \in Ids, CloseTask(g) PROVE ServedInv'
    BY <1>14 DEF CloseTask, TypeOK, WorkInv
  <1>15. ASSUME NEW g \in Ids, NEW u \in Ends(g), PostData(g, u) PROVE ServedInv'
    BY <1>15 DEF PostData, TypeOK
  <1>16. ASSUME NEW g \in Ids, NEW u \in Ends(g), PostFails(g, u) PROVE ServedInv'
    <2>1. go[g].note \in Ids /\ notify \in [Ids -> Notifies] /\ go[g].pc = "post"
      BY <1>16 DEF PostFails, TypeOK, WorkInv
    <2>2. \A n \in Ids : notify'[n].closed = notify[n].closed
      BY <1>16, <2>1 DEF PostFails, Notifies
    <2>3. Alive(g)' /\ go'[g].note = go[g].note
      BY <1>16, <2>1 DEF PostFails, TypeOK, Goroutines, Goroutine
    <2>4. \A h \in Ids : h # g => go'[h] = go[h]
      BY <1>16 DEF PostFails, TypeOK
    <2> QED
      BY <1>16, <2>2, <2>3, <2>4 DEF PostFails
  <1>17. ASSUME NEW g \in Ids, SeqUpdate(g) PROVE ServedInv'
    <2>1. go[g].note \in Ids /\ notify \in [Ids -> Notifies]
      BY <1>17 DEF SeqUpdate, TypeOK, WorkInv
    <2>2. \A n \in Ids : notify'[n].closed = notify[n].closed
      BY <1>17, <2>1 DEF SeqUpdate, Notifies
    <2>3. Alive(g)' /\ go'[g].note = go[g].note
      BY <1>17, <2>1 DEF SeqUpdate, Noticed, TypeOK, Goroutines
    <2>4. \A h \in Ids : h # g => go'[h] = go[h]
      BY <1>17 DEF SeqUpdate, TypeOK
    <2> QED
      BY <1>17, <2>2, <2>3, <2>4 DEF SeqUpdate
  <1>18. ASSUME NEW g \in Free, NewTask(g), closing' = closing PROVE ServedInv'
    BY <1>18, FreeId DEF NewTask, NewNotify, Goroutine, TypeOK
  <1>19. ASSUME NEW g \in Free, NEW n \in Ids, RunTask(g, n), closing' = closing PROVE ServedInv'
    BY <1>19, FreeId DEF RunTask, Goroutine, TypeOK, Notifies
  <1>20. ASSUME NEW r \in Requests, NEW g \in Free,
                AddTask(r, g) \/ Check2ResumePush(r, g) \/ Unblock(r, g)
         PROVE  ServedInv'
    <2>0. tasks # 0 => tasks \in Ids
      BY DEF TypeOK, Ids
    <2>1. CASE AddTask(r, g)
      BY <1>18, <2>1 DEF AddTask
    <2>2. CASE Unblock(r, g)
      BY <1>19, <2>0, <2>2 DEF Unblock, WorkInv
    <2>3. CASE Check2ResumePush(r, g)
      <3>1. CASE tasks = 0
        BY <1>18, <2>3, <3>1 DEF Check2ResumePush
      <3>2. CASE tasks # 0 /\ notify[tasks].running
        BY <2>0, <2>3, <3>2 DEF Check2ResumePush, TypeOK, Notifies
      <3>3. CASE tasks # 0 /\ ~notify[tasks].running /\ notify[tasks].chan < ChanBufCap
        BY <1>19, <2>0, <2>3, <3>3 DEF Check2ResumePush
      <3>4. CASE tasks # 0 /\ ~notify[tasks].running /\ ~(notify[tasks].chan < ChanBufCap)
        BY <2>3, <3>4 DEF Check2ResumePush
      <3> QED
        BY <3>1, <3>2, <3>3, <3>4
    <2> QED
      BY <1>20, <2>1, <2>2, <2>3
  <1>21. CASE UNCHANGED vars
    BY <1>21 DEF vars
  <1>22. CASE \E r \in Requests : AddSubscriber(r) \/ Subscription(r)
    BY <1>5, <1>6, <1>20, <1>22 DEF Subscription
  <1>23. CASE \E g \in Ids : Task(g)
    BY <1>7, <1>8, <1>9, <1>10, <1>11, <1>12, <1>13, <1>14, <1>15, <1>16, <1>17, <1>23 DEF Task
  <1> QED
    BY <1>1, <1>2, <1>3, <1>4, <1>21, <1>22, <1>23 DEF Next

\* While the node runs, what push.tasks has is read by a goroutine, whichever
\* subscriptions overlap and whichever tasks give up.
THEOREM ServedHolds == Spec => []Served
  <1>1. Init => ServedInv
    BY PushAssumption DEF Init, ServedInv, Served, Serves, NoNotify
  <1>2. ServedInv => Served
    BY DEF ServedInv
  <1> QED
    BY <1>1, <1>2, ServedStep, Invariance, PTL DEF Spec
===============================================================================
