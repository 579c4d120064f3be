--------------------------------- MODULE Push ---------------------------------
(***************************************************************************)
(* The push service of a node for one subscriber.  Block processing writes *)
(* a sequence log, one number for each block added or deleted, and tells   *)
(* the subscriber's task; the task posts the log from where the subscriber *)
(* stands, gives up after some failed posts, and is resumed by another     *)
(* subscription.                                                           *)
(*                                                                         *)
(* runTask starts a goroutine every time it is called.  A pushNotify is    *)
(* named after the goroutine it was made for; more goroutines may be       *)
(* started on it, and another pushNotify may take its place in push.tasks. *)
(* The numbers in seqUpdateChan are never used, so the channel is a count. *)
(* push.mu is held for one step, except by a subscription that waits to    *)
(* write to a full channel.                                                *)
(***************************************************************************)
EXTENDS Integers, FiniteSets

CONSTANTS
    Requests,        \* subscriptions for the name, one after another or at once
    StartSeqs,       \* LastSequence the subscriber may give, 0 if none
    InitSeq,         \* last sequence of the log at the start
    MaxSeq,          \* bound on the log
    ChanBufCap,      \* capacity of seqUpdateChan
    PushMaxSeq,      \* sequences in a post
    FailLimit,       \* failed posts in a row after which a task gives up
    PostFail2Sleep,  \* ticks to wait after a failed post
    MaxRuns,         \* bound on goroutines between two restarts
    MaxFails,        \* bound on failed posts
    MaxRestarts      \* bound on restarts

ASSUME PushAssumption ==
    /\ StartSeqs \subseteq Nat /\ InitSeq \in Nat /\ MaxSeq \in Nat
    /\ ChanBufCap \in Nat \ {0} /\ PushMaxSeq \in Nat \ {0}
    /\ FailLimit \in Nat \ {0} /\ PostFail2Sleep \in Nat
    /\ MaxRuns \in Nat /\ MaxFails \in Nat /\ MaxRestarts \in Nat

VARIABLES
    lastSeq,   \* last sequence in the database
    told,      \* UpdateSeq was called for it
    lastPush,  \* last pushed sequence in the database, -1 if none
    status,    \* status of the subscription in the database
    start,     \* LastSequence of the subscriber, and whether its LastBlockHash is
               \* the hash the log has or will have there
    req,       \* where each subscription is
    tasks,     \* the pushNotify in push.tasks, 0 if none
    notify,    \* the pushNotify of each name
    go,        \* the goroutines
    closing,   \* Close was called
    got,       \* what the subscriber received
    fails, restarts

dbVars == <<lastPush, status>>
vars == <<lastSeq, told, dbVars, start, req, tasks, notify, go, closing, got,
          fails, restarts>>

Ids == 1..MaxRuns
Starts == {x \in [seq : StartSeqs, known : BOOLEAN] : x.seq = 0 => ~x.known}
NoNotify == [chan |-> 0, running |-> FALSE, sleep |-> 0, closed |-> FALSE]
NewNotify == [chan |-> 1, running |-> FALSE, sleep |-> 0, closed |-> FALSE]
Goroutine(p, n) == [pc |-> p, note |-> n, last |-> 0, latest |-> 0, fails |-> 0, ticks |-> 0]
Nobody == Goroutine("none", 0)
Gone == Goroutine("exit", 0)

Init ==
    /\ lastSeq = InitSeq /\ told = TRUE
    /\ lastPush = -1 /\ status = "none"
    /\ start \in Starts
    /\ req = [r \in Requests |-> "idle"]
    /\ tasks = 0
    /\ notify = [n \in Ids |-> NoNotify]
    /\ go = [g \in Ids |-> Nobody]
    /\ closing = FALSE
    /\ got = {} /\ fails = 0 /\ restarts = 0

Blocked(r) == req[r] = "blocked"
MuFree == \A r \in Requests : ~Blocked(r)

-------------------------------------------------------------------------------
(* Block processing.                                                       *)

\* saveBlockSequence in the batch of connectBlock or disconnectBlock.
SaveBlockSequence ==
    /\ ~closing /\ told /\ lastSeq < MaxSeq
    /\ lastSeq' = lastSeq + 1
    /\ told' = FALSE
    /\ UNCHANGED <<dbVars, start, req, tasks, notify, go, closing, got, fails, restarts>>

\* Mutant: the room in the channel is not looked at.
UpdateSeqUnchecked ==
    /\ ~told /\ MuFree
    /\ told' = TRUE
    /\ notify' = IF tasks # 0 THEN [notify EXCEPT ![tasks].chan = @ + 1] ELSE notify
    /\ UNCHANGED <<lastSeq, dbVars, start, req, tasks, go, closing, got, fails, restarts>>

\* The task is told unless its channel is full.
UpdateSeq ==
    /\ ~told /\ MuFree
    /\ told' = TRUE
    /\ notify' = IF tasks # 0 /\ notify[tasks].chan < ChanBufCap
                 THEN [notify EXCEPT ![tasks].chan = @ + 1] ELSE notify
    /\ UNCHANGED <<lastSeq, dbVars, start, req, tasks, go, closing, got, fails, restarts>>

-------------------------------------------------------------------------------
(* Subscriptions.                                                          *)

\* The goroutine the next runTask starts.
Free == {g \in Ids : go[g].pc = "none" /\ \A h \in 1..(g - 1) : go[h].pc # "none"}

\* A new pushNotify takes the place in push.tasks, with the first notice of
\* updateLastSeq.
NewTask(g) ==
    /\ notify' = [notify EXCEPT ![g] = NewNotify]
    /\ go' = [go EXCEPT ![g] = Goroutine("start", g)]
    /\ tasks' = g

\* runTask of a pushNotify whose channel has room.
RunTask(g, n) ==
    /\ notify' = [notify EXCEPT ![n].chan = @ + 1]
    /\ go' = [go EXCEPT ![g] = Goroutine("start", n)]
    /\ UNCHANGED tasks

Goto(r, label) == req' = [req EXCEPT ![r] = label]

\* addSubscriber looks the name up.
AddSubscriber(r) ==
    /\ req[r] = "idle" /\ ~closing
    /\ Goto(r, IF status = "none" THEN "new" ELSE "resume")
    /\ UNCHANGED <<lastSeq, told, dbVars, start, tasks, notify, go, closing, got, fails, restarts>>

\* Where the subscriber stands, as far as the node agrees; 0 if it does not say
\* or names a block that the node does not have there.
Anchor == IF start.known THEN start.seq ELSE 0

\* A subscriber that says where it stands has that stored first.  A sequence the
\* log does not have is refused; at another block's hash nothing is stored, and
\* the task will begin at the end of the log.
StoreStart(r) ==
    /\ req[r] = "new" /\ MuFree
    /\ \/ /\ start.seq > lastSeq
          /\ Goto(r, "done")
          /\ UNCHANGED lastPush
       \/ /\ start.seq <= lastSeq
          /\ lastPush' = IF Anchor > 0 THEN Anchor ELSE lastPush
          /\ Goto(r, "add")
    /\ UNCHANGED <<lastSeq, told, status, start, tasks, notify, go, closing, got, fails, restarts>>

AddTask(r, g) ==
    /\ req[r] = "add" /\ MuFree
    /\ NewTask(g)
    /\ Goto(r, "persist")
    /\ UNCHANGED <<lastSeq, told, dbVars, start, closing, got, fails, restarts>>

Persist(r) ==
    /\ req[r] = "persist"
    /\ status' = "active"
    /\ Goto(r, "done")
    /\ UNCHANGED <<lastSeq, told, lastPush, start, tasks, notify, go, closing, got, fails, restarts>>

\* check2ResumePush: a task that is gone is made again, one that runs only
\* stops waiting, one that does not run is started again.
Check2ResumePush(r, g) ==
    /\ req[r] = "resume" /\ MuFree
    /\ \/ /\ tasks = 0
          /\ NewTask(g)
          /\ Goto(r, "activate")
       \/ /\ tasks # 0 /\ notify[tasks].running
          /\ notify' = [notify EXCEPT ![tasks].sleep = 0]
          /\ Goto(r, "activate")
          /\ UNCHANGED <<tasks, go>>
       \/ /\ tasks # 0 /\ ~notify[tasks].running /\ notify[tasks].chan < ChanBufCap
          /\ RunTask(g, tasks)
          /\ Goto(r, "activate")
       \/ /\ tasks # 0 /\ ~notify[tasks].running /\ notify[tasks].chan = ChanBufCap
          /\ Goto(r, "blocked")
          /\ UNCHANGED <<tasks, notify, go>>
    /\ UNCHANGED <<lastSeq, told, dbVars, start, closing, got, fails, restarts>>

\* The channel it waited for with push.mu has room.
Unblock(r, g) ==
    /\ Blocked(r) /\ notify[tasks].chan < ChanBufCap
    /\ RunTask(g, tasks)
    /\ Goto(r, "activate")
    /\ UNCHANGED <<lastSeq, told, dbVars, start, closing, got, fails, restarts>>

SetActive(r) ==
    /\ req[r] = "activate"
    /\ status' = "active"
    /\ Goto(r, "done")
    /\ UNCHANGED <<lastSeq, told, lastPush, start, tasks, notify, go, closing, got, fails, restarts>>

-------------------------------------------------------------------------------
(* A task's goroutine.                                                     *)

\* getLastPushSeq.
Start(g) ==
    /\ go[g].pc = "start"
    /\ go' = [go EXCEPT ![g].last = lastPush, ![g].pc = "read"]
    /\ UNCHANGED <<lastSeq, told, dbVars, start, req, tasks, notify, closing, got, fails, restarts>>

\* Only now does the pushNotify say that it runs.
Running(g) ==
    /\ go[g].pc = "read"
    /\ notify' = [notify EXCEPT ![go[g].note].running = TRUE]
    /\ go' = [go EXCEPT ![g].pc = "select"]
    /\ UNCHANGED <<lastSeq, told, dbVars, start, req, tasks, closing, got, fails, restarts>>

\* A tick of trigeRun, which comes again until the waiting is over.
Tick(g) ==
    LET n == go[g].note
        s == notify[n].sleep
    IN
    /\ go[g].pc = "select" /\ go[g].ticks > 0
    /\ notify' = [notify EXCEPT ![n].sleep = IF s > 0 THEN s - 1 ELSE 0]
    /\ go' = IF s > 1 THEN go ELSE [go EXCEPT ![g].ticks = @ - 1]
    /\ UNCHANGED <<lastSeq, told, dbVars, start, req, tasks, closing, got, fails, restarts>>

\* What a goroutine x that is to wait for s ticks does with a notice: while it
\* waits the notice is a tick; else the log is read, and a subscriber that gave
\* no start begins at its end.
Noticed(x, s) ==
    IF s > 1 THEN [x EXCEPT !.ticks = @ + 1]
    ELSE IF x.last >= lastSeq THEN x
    ELSE IF x.last <= 0 THEN [x EXCEPT !.last = lastSeq]
    ELSE [x EXCEPT !.latest = lastSeq, !.pc = "post"]

SeqUpdate(g) ==
    LET n == go[g].note
        s == notify[n].sleep
    IN
    /\ go[g].pc = "select" /\ notify[n].chan > 0
    /\ notify' = [notify EXCEPT ![n].chan = @ - 1, ![n].sleep = IF s > 0 THEN s - 1 ELSE 0]
    /\ go' = [go EXCEPT ![g] = Noticed(go[g], s)]
    /\ UNCHANGED <<lastSeq, told, dbVars, start, req, tasks, closing, got, fails, restarts>>

\* Where a post may end: at most PushMaxSeq sequences, fewer if they are large.
Ends(g) == {u \in (go[g].last + 1)..go[g].latest : u <= go[g].last + PushMaxSeq}
Batch(g, u) == (go[g].last + 1)..u

\* Mutant: the position moves to the end of the log.
PostDataSkips(g, u) ==
    /\ go[g].pc = "post"
    /\ got' = got \cup Batch(g, u)
    /\ go' = [go EXCEPT ![g].last = go[g].latest, ![g].fails = 0, ![g].pc = "ack"]
    /\ UNCHANGED <<lastSeq, told, dbVars, start, req, tasks, notify, closing, fails, restarts>>

\* PostData up to u, answered with ok.
PostData(g, u) ==
    /\ go[g].pc = "post"
    /\ got' = got \cup Batch(g, u)
    /\ go' = [go EXCEPT ![g].last = u, ![g].fails = 0, ![g].pc = "ack"]
    /\ UNCHANGED <<lastSeq, told, dbVars, start, req, tasks, notify, closing, fails, restarts>>

\* A post that failed, or whose answer was lost.  The task waits, or gives up.
PostFails(g, u) ==
    LET n == go[g].note IN
    /\ go[g].pc = "post" /\ fails < MaxFails
    /\ fails' = fails + 1
    /\ got' \in {got, got \cup Batch(g, u)}
    /\ \/ /\ go[g].fails + 1 < FailLimit
          /\ notify' = [notify EXCEPT ![n].sleep = PostFail2Sleep]
          /\ go' = [go EXCEPT ![g].fails = @ + 1, ![g].ticks = @ + 1,
                              ![g].latest = 0, ![g].pc = "select"]
       \/ /\ go[g].fails + 1 >= FailLimit
          /\ notify' = [notify EXCEPT ![n].running = FALSE]
          /\ go' = [go EXCEPT ![g] = Goroutine("delete", n)]
    /\ UNCHANGED <<lastSeq, told, dbVars, start, req, tasks, closing, restarts>>

\* setLastPushSeq.
SetLastPushSeq(g) ==
    /\ go[g].pc = "ack"
    /\ lastPush' = go[g].last
    /\ go' = [go EXCEPT ![g].pc = IF go[g].last < go[g].latest THEN "more" ELSE "select",
                        ![g].latest = 0]
    /\ UNCHANGED <<lastSeq, told, status, start, req, tasks, notify, closing, got, fails, restarts>>

\* Mutant: the rest of the log waits for the next block.
MoreNothing(g) ==
    /\ go[g].pc = "more" /\ MuFree
    /\ go' = [go EXCEPT ![g].pc = "select"]
    /\ UNCHANGED <<lastSeq, told, dbVars, start, req, tasks, notify, closing, got, fails, restarts>>

\* There is more: the task tells itself, unless a notice is waiting.
More(g) ==
    LET n == go[g].note IN
    /\ go[g].pc = "more" /\ MuFree
    /\ notify' = IF notify[n].chan = 0 THEN [notify EXCEPT ![n].chan = 1] ELSE notify
    /\ go' = [go EXCEPT ![g].pc = "select"]
    /\ UNCHANGED <<lastSeq, told, dbVars, start, req, tasks, closing, got, fails, restarts>>

\* Mutant: the entry stays in push.tasks.
DeleteTaskNot(g) ==
    /\ go[g].pc = "delete" /\ MuFree
    /\ go' = [go EXCEPT ![g].pc = "mark"]
    /\ UNCHANGED <<lastSeq, told, dbVars, start, req, tasks, notify, closing, got, fails, restarts>>

\* A task that gives up removes what push.tasks has for the name.
DeleteTask(g) ==
    /\ go[g].pc = "delete" /\ MuFree
    /\ tasks' = 0
    /\ go' = [go EXCEPT ![g].pc = "mark"]
    /\ UNCHANGED <<lastSeq, told, dbVars, start, req, notify, closing, got, fails, restarts>>

SetNotActive(g) ==
    /\ go[g].pc = "mark"
    /\ status' = "inactive"
    /\ go' = [go EXCEPT ![g] = Gone]
    /\ UNCHANGED <<lastSeq, told, lastPush, start, req, tasks, notify, closing, got, fails, restarts>>

\* The case of closechan.
CloseTask(g) ==
    /\ go[g].pc = "select" /\ notify[go[g].note].closed
    /\ go' = [go EXCEPT ![g] = Gone]
    /\ UNCHANGED <<lastSeq, told, dbVars, start, req, tasks, notify, closing, got, fails, restarts>>

-------------------------------------------------------------------------------
(* The end of the node and its restart.                                    *)

\* Mutant: only tasks that say they run are closed.
CloseRunning ==
    /\ ~closing /\ told
    /\ \A r \in Requests : req[r] \in {"idle", "done"}
    /\ closing' = TRUE
    /\ req' = [r \in Requests |-> "done"]
    /\ notify' = IF tasks # 0 /\ notify[tasks].running
                 THEN [notify EXCEPT ![tasks].closed = TRUE] ELSE notify
    /\ UNCHANGED <<lastSeq, told, dbVars, start, tasks, go, got, fails, restarts>>

\* BlockChain.Close comes to the push service when no message is handled any
\* more and none comes; it closes the tasks and waits for the goroutines.
Close ==
    /\ ~closing /\ told
    /\ \A r \in Requests : req[r] \in {"idle", "done"}
    /\ closing' = TRUE
    /\ req' = [r \in Requests |-> "done"]
    /\ notify' = IF tasks # 0 THEN [notify EXCEPT ![tasks].closed = TRUE] ELSE notify
    /\ UNCHANGED <<lastSeq, told, dbVars, start, tasks, go, got, fails, restarts>>

\* A crash and a start (after Close, a start finds what it could find after a
\* crash): init runs the task of an active subscription.
Restart ==
    /\ restarts < MaxRestarts /\ ~closing
    /\ restarts' = restarts + 1
    /\ told' = TRUE
    /\ req' = [r \in Requests |-> IF req[r] = "idle" THEN "idle" ELSE "done"]
    /\ LET up == status = "active" /\ MaxRuns > 0 IN
       /\ tasks' = IF up THEN 1 ELSE 0
       /\ notify' = [n \in Ids |-> IF up /\ n = 1 THEN NewNotify ELSE NoNotify]
       /\ go' = [g \in Ids |-> IF up /\ g = 1 THEN Goroutine("start", 1) ELSE Nobody]
    /\ UNCHANGED <<lastSeq, dbVars, start, closing, got, fails>>

-------------------------------------------------------------------------------

Subscription(r) ==
    \/ StoreStart(r) \/ Persist(r) \/ SetActive(r)
    \/ \E g \in Free : AddTask(r, g) \/ Check2ResumePush(r, g) \/ Unblock(r, g)

Task(g) ==
    \/ Start(g) \/ Running(g) \/ Tick(g) \/ SeqUpdate(g)
    \/ \E u \in Ends(g) : PostData(g, u) \/ PostFails(g, u)
    \/ SetLastPushSeq(g) \/ More(g) \/ DeleteTask(g) \/ SetNotActive(g) \/ CloseTask(g)

Next ==
    \/ SaveBlockSequence \/ UpdateSeq
    \/ \E r \in Requests : AddSubscriber(r)
    \/ \E r \in Requests : Subscription(r)
    \/ \E g \in Ids : Task(g)
    \/ Close \/ Restart

Spec == Init /\ [][Next]_vars

\* Handlers and goroutines go on while they can.
FairSpec ==
    /\ Spec
    /\ WF_vars(UpdateSeq)
    /\ \A r \in Requests : WF_vars(Subscription(r))
    /\ \A g \in Ids : WF_vars(Task(g))

-------------------------------------------------------------------------------
(* What the specification promises.                                        *)

Stages == {"idle", "new", "add", "persist", "resume", "blocked", "activate", "done"}
Steps == {"none", "start", "read", "select", "post", "ack", "more", "delete", "mark", "exit"}

Notifies == [chan : 0..ChanBufCap, running : BOOLEAN, sleep : 0..PostFail2Sleep, closed : BOOLEAN]
Goroutines(n) == [pc : Steps, note : 0..MaxRuns, last : -1..n, latest : 0..n,
                  fails : Nat, ticks : Nat]

\* Type invariant: no channel over its capacity, no position beyond the log.
TypeOK ==
    /\ lastSeq \in Nat /\ told \in BOOLEAN
    /\ lastPush \in -1..lastSeq /\ status \in {"none", "active", "inactive"}
    /\ start \in Starts
    /\ req \in [Requests -> Stages]
    /\ tasks \in 0..MaxRuns
    /\ notify \in [Ids -> Notifies]
    /\ go \in [Ids -> Goroutines(lastSeq)]
    /\ closing \in BOOLEAN
    /\ got \subseteq 1..lastSeq
    /\ fails \in 0..MaxFails /\ restarts \in 0..MaxRestarts

Alive(g) == go[g].pc \notin {"none", "exit", "mark"}

\* g works on what push.tasks has.
Serves(g) == Alive(g) /\ go[g].note = tasks

\* A subscriber that said where it stands, and named the block the log has there,
\* gets everything from there on: what it has is without gaps, whichever
\* goroutines post, however often.
NoGap == Anchor > 0 => \A x \in got : (Anchor + 1)..x \subseteq got

\* Why: so is what the database and every goroutine believe it has.
PositionInv ==
    Anchor > 0 =>
       /\ lastPush # -1 => lastPush >= Anchor /\ (Anchor + 1)..lastPush \subseteq got
       /\ lastPush = -1 => /\ tasks = 0 /\ status = "none"
                           /\ \A g \in Ids : go[g].pc = "none"
                           /\ \A r \in Requests : req[r] \in {"idle", "new", "done"}
       /\ \A g \in Ids : go[g].pc \in {"read", "select", "post", "ack", "more"} =>
             go[g].last >= Anchor /\ (Anchor + 1)..go[g].last \subseteq got

\* A goroutine at work has a pushNotify, one that posts has a position, and a
\* subscription waits for the channel of a task in push.tasks.
WorkInv ==
    /\ \A r \in Requests : Blocked(r) => tasks # 0
    /\ \A g \in Ids : /\ go[g].pc \notin {"none", "exit"} => go[g].note \in Ids
                      /\ go[g].pc = "post" => go[g].last >= 1

PushInv == TypeOK /\ WorkInv /\ NoGap /\ PositionInv

\* While the node runs, what push.tasks has is read by a goroutine.
Served ==
    tasks # 0 /\ ~closing => \E g \in Ids : Serves(g)

\* Why: goroutines leave a pushNotify of a running node only by DeleteTask.
ServedInv == Served /\ \A n \in Ids : notify[n].closed => closing

\* A subscription waits with push.mu for the channel of a task whose goroutines
\* all wait for push.mu to give up: then block processing waits for ever too.
Jammed ==
    /\ ~MuFree
    /\ \A g \in Ids : Serves(g) => go[g].pc = "delete"

\* The subscriber has the log to its end; one that began at the end of the log,
\* for it gave no start or one of another block, has all from there.
UpToDate ==
    \/ Anchor > 0 /\ (lastSeq <= Anchor \/ lastSeq \in got)
    \/ Anchor = 0 /\ \E g \in Ids : Serves(g) /\ go[g].last >= lastSeq

\* Again and again the subscriber is up to date, except while push.tasks has no
\* task for it, the last post of its task failed, the node is closing or the
\* service is jammed.
CatchesUp ==
    []<>(\/ UpToDate
         \/ tasks = 0 \/ closing
         \/ \E g \in Ids : Serves(g) /\ go[g].fails > 0
         \/ Jammed)

\* The goroutines of the task in push.tasks end once Close closed it.  Close
\* waits for the goroutines of other pushNotifies too, which nothing closes.
CloseEnds == closing ~> \A g \in Ids : ~Serves(g)
===============================================================================
