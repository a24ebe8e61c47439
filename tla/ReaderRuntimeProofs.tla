-------------------------- MODULE ReaderRuntimeProofs --------------------------
(***************************************************************************)
(* Theorems about ReaderRuntime, for every set of request ids and threads, *)
(* every menu of methods and every bound.                                  *)
(***************************************************************************)
EXTENDS ReaderRuntime, TLAPS, FiniteSetTheorems

Holding == {"take", "retire", "emit", "register", "recheck", "unregister", "request"}
Registered == {"recheck", "unregister", "request"}

(***************************************************************************)
(* What each program counter promises about the variables its step reads.  *)
(* TypeOK is not inductive without it: cancel inserts target[p] into a set *)
(* of request ids, and only the label says that there is a target.         *)
(***************************************************************************)
ControlOK ==
  /\ \A t \in Threads : pc[t] \in {"idle"} \union SendLabels \union CancelLabels
  /\ pc[Worker] \in WorkerLabels \union CancelLabels
  /\ \A t \in Threads : pc[t] \in SendLabels => job[t] \in Command
  /\ \A p \in Procs : pc[p] \in CancelLabels => target[p] \in RequestIds
  /\ pc[Worker] \notin {"recv", "exit", "stopped"} => cur \in Command
  /\ pc[Worker] \in Holding => fin.request \in RequestIds
  /\ pc[Worker] = "register" => nextOp <= MaxOps
  /\ pc[Worker] \in Registered => nextOp > 1

TypeInv == TypeOK /\ ControlOK

LEMMA InitTypeInv == Init => TypeInv
<1> SUFFICES ASSUME Init PROVE TypeInv
  OBVIOUS
<1> USE RuntimeAssumption DEF Init
<1>1. TypeOK
  <2>1. active \subseteq RequestIds /\ cancelled \subseteq RequestIds
    OBVIOUS
  <2>2. ops \in [OpIds -> HostOperation \union {NoOp}] /\ nextOp \in 1..(MaxOps + 1)
    BY DEF OpIds
  <2>3. queue \in Seq(WorkItem) /\ rxOpen \in BOOLEAN
    OBVIOUS
  <2>4. shutdown \in BOOLEAN /\ life \in Lives
    BY DEF Lives
  <2>5. pc \in [Procs -> {"idle"} \union SendLabels \union CancelLabels \union WorkerLabels]
    BY DEF WorkerLabels
  <2>6. job \in [Threads -> Command \union {NoCommand}] /\ cur \in Command \union {NoCommand}
    OBVIOUS
  <2>7. target \in [Procs -> RequestIds \union {None}]
    OBVIOUS
  <2>8. fin \in [request : RequestIds \union {None}, event : Events]
    BY DEF NoAnswer, Events
  <2>9. accepts \in [RequestIds -> Int] /\ answers \in [RequestIds -> [Events -> Nat]]
    OBVIOUS
  <2> QED BY <2>1, <2>2, <2>3, <2>4, <2>5, <2>6, <2>7, <2>8, <2>9 DEF TypeOK
<1>2. ControlOK
  BY DEF ControlOK, Procs, SendLabels, CancelLabels, WorkerLabels, Holding, Registered
<1> QED BY <1>1, <1>2 DEF TypeInv

LEMMA StutterTypeInv == ASSUME TypeInv, UNCHANGED vars PROVE TypeInv'
  BY DEF TypeInv, TypeOK, ControlOK, vars, registries, channel, latch, working, history

\* An event only moves one counter, and what the host may send is a command.
LEMMA EmitType ==
  ASSUME answers \in [RequestIds -> [Events -> Nat]], NEW r, NEW event \in Events, Emit(r, event)
  PROVE  answers' \in [RequestIds -> [Events -> Nat]]
<1>1. CASE r \in RequestIds
  <2>1. [answers[r] EXCEPT ![event] = @ + 1] \in [Events -> Nat]
    BY <1>1
  <2> QED BY <1>1, <2>1 DEF Emit
<1>2. CASE r \notin RequestIds
  BY <1>2 DEF Emit
<1> QED BY <1>1, <1>2

LEMMA CommandsType == ASSUME TypeOK, NEW r \in RequestIds PROVE Commands(r) \subseteq Command
<1>1. Menu \subseteq Methods
  BY RuntimeAssumption
<1>2. announced \union {0} \subseteq Nat
  BY DEF TypeOK, OpIds
<1> QED BY <1>1, <1>2 DEF Commands, Command

LEMMA SendTypeInv ==
  ASSUME TypeInv, NEW t \in Threads,
         \/ \E r \in RequestIds : \E c \in Commands(r) : SendBegin(t, c)
         \/ SendReserve(t) \/ SendDuplicate(t) \/ SendEnqueue(t) \/ SendRefused(t)
  PROVE  TypeInv'
<1> USE RuntimeAssumption DEF TypeInv, TypeOK, ControlOK, registries, channel, latch, working,
                              history, Goto, Procs, SendLabels, CancelLabels, WorkerLabels
<1>1. CASE \E r \in RequestIds : \E c \in Commands(r) : SendBegin(t, c)
  <2>0. PICK r \in RequestIds : \E c \in Commands(r) : SendBegin(t, c)
    BY <1>1
  <2>1. PICK c \in Commands(r) : SendBegin(t, c)
    BY <2>0
  <2>2. c \in Command
    BY CommandsType
  <2> QED BY <2>1, <2>2 DEF SendBegin
<1>2. CASE SendReserve(t)
  <2>1. job[t].id \in RequestIds
    BY <1>2 DEF SendReserve, Command
  <2>2. accepts' \in [RequestIds -> Int]
    BY <1>2, <2>1 DEF SendReserve
  <2>3. asked' \subseteq RequestIds /\ active' \subseteq RequestIds
    BY <1>2, <2>1 DEF SendReserve
  <2> QED BY <1>2, <2>1, <2>2, <2>3 DEF SendReserve
<1>3. CASE SendDuplicate(t)
  BY <1>3 DEF SendDuplicate
<1>4. CASE SendEnqueue(t)
  <2>1. job[t] \in Command /\ job[t].id \in RequestIds
    BY <1>4 DEF SendEnqueue, Command
  <2>2. queue' \in Seq(WorkItem)
    BY <1>4, <2>1 DEF SendEnqueue, WorkItem
  <2>3. owed' \subseteq RequestIds
    BY <1>4, <2>1 DEF SendEnqueue
  <2>4. /\ pc[t] = "enqueue" /\ pc' = [pc EXCEPT ![t] = "idle"]
        /\ job' = [job EXCEPT ![t] = NoCommand]
        /\ UNCHANGED <<registries, nextOp, rxOpen, latch, target, working, accepts, answers,
                       announced, asked, acked, delivered>>
    BY <1>4 DEF SendEnqueue
  <2>5. TypeOK'
    BY <2>2, <2>3, <2>4
  <2>6. ControlOK'
    BY <2>4
  <2> QED BY <2>5, <2>6
<1>5. CASE SendRefused(t)
  <2>1. job[t].id \in RequestIds
    BY <1>5 DEF SendRefused, Command
  <2>2. accepts' \in [RequestIds -> Int] /\ active' \subseteq RequestIds
    BY <1>5, <2>1 DEF SendRefused
  <2>3. /\ pc[t] = "enqueue" /\ pc' = [pc EXCEPT ![t] = "idle"]
        /\ job' = [job EXCEPT ![t] = NoCommand]
        /\ UNCHANGED <<cancelled, ops, nextOp, channel, latch, target, working, answers,
                       announced, asked, acked, owed, delivered>>
    BY <1>5 DEF SendRefused
  <2>4. TypeOK'
    BY <2>2, <2>3
  <2>5. ControlOK'
    BY <2>3
  <2> QED BY <2>4, <2>5
<1> QED BY <1>1, <1>2, <1>3, <1>4, <1>5

\* The end of a cancel, on a host thread or on the worker.
LEMMA DoneTypeInv ==
  ASSUME TypeInv, NEW p \in Procs, pc[p] \in CancelLabels, CancelDone(p),
         UNCHANGED <<job, cur, nextOp>>
  PROVE  /\ ControlOK'
         /\ pc' \in [Procs -> {"idle"} \union SendLabels \union CancelLabels \union WorkerLabels]
         /\ target' \in [Procs -> RequestIds \union {None}]
         /\ fin' \in [request : RequestIds \union {None}, event : Events]
<1> USE RuntimeAssumption DEF TypeInv, TypeOK, ControlOK, Goto, Procs, SendLabels, CancelLabels,
                              WorkerLabels, FinishLabels, Holding, Registered
<1>1. CASE p = Worker
  <2>1. cur \in Command /\ cur.id \in RequestIds
    BY <1>1 DEF Command
  <2>2. fin' = [request |-> cur.id, event |-> "outcome"]
    BY <1>1 DEF CancelDone, Answer
  <2>3. pc' = [pc EXCEPT ![p] = "take"] /\ target' = [target EXCEPT ![p] = None]
    BY <1>1 DEF CancelDone
  <2>4. fin' \in [request : RequestIds \union {None}, event : Events] /\ fin'.request \in RequestIds
    BY <2>1, <2>2 DEF Events
  <2>5. ControlOK'
    BY <1>1, <2>1, <2>3, <2>4
  <2> QED BY <2>3, <2>4, <2>5
<1>2. CASE p # Worker
  <2>1. p \in Threads /\ pc' = [pc EXCEPT ![p] = "idle"] /\ target' = [target EXCEPT ![p] = None]
    BY <1>2 DEF CancelDone
  <2>2. fin' = fin
    BY <1>2 DEF CancelDone
  <2>3. pc'[Worker] = pc[Worker] /\ \A q \in Procs \ {p} : pc'[q] = pc[q] /\ target'[q] = target[q]
    BY <1>2, <2>1
  <2>4. ControlOK'
    BY <2>1, <2>2, <2>3
  <2> QED BY <2>1, <2>2, <2>4
<1> QED BY <1>1, <1>2

LEMMA CancelTypeInv ==
  ASSUME TypeInv, NEW p \in Procs, CancelStep(p)
  PROVE  TypeInv'
<1> USE RuntimeAssumption DEF TypeInv, TypeOK, ControlOK, registries, channel, latch, working,
                              history, Goto, Procs, SendLabels, CancelLabels, WorkerLabels
<1>1. CASE CancelMark(p)
  BY <1>1 DEF CancelMark, Holding, Registered
<1>2. CASE CancelUnlink(p)
  <2>1. ops' \in [OpIds -> HostOperation \union {NoOp}]
    BY <1>2 DEF CancelUnlink, Without
  <2>2. CASE OpsOf(target[p]) # {}
    <3>1. pc[p] = "unlink" /\ Goto(p, "unmark") /\ UNCHANGED <<target, fin>>
      BY <1>2, <2>2 DEF CancelUnlink
    <3>2. UNCHANGED <<active, cancelled, nextOp, channel, latch, job, cur, doomed, history>>
      BY <1>2 DEF CancelUnlink
    <3> QED BY <2>1, <3>1, <3>2 DEF Holding, Registered
  <2>3. CASE OpsOf(target[p]) = {}
    BY <1>2, <2>1, <2>3, DoneTypeInv DEF CancelUnlink
  <2> QED BY <2>2, <2>3
<1>3. CASE CancelUnmark(p)
  BY <1>3 DEF CancelUnmark, Holding, Registered
<1>4. CASE CancelRelease(p)
  BY <1>4 DEF CancelRelease, Holding, Registered
<1>5. CASE CancelNotify(p)
  <2>1. answers' \in [RequestIds -> [Events -> Nat]]
    BY <1>5, EmitType DEF CancelNotify, Events
  <2> QED BY <1>5, <2>1, DoneTypeInv DEF CancelNotify
<1> QED BY <1>1, <1>2, <1>3, <1>4, <1>5 DEF CancelStep

\* The worker has answered or suspended the request and returns to its queue.
LEMMA ReturnTypeInv ==
  ASSUME TypeInv, pc[Worker] \in WorkerLabels, cur \in Command, Return,
         UNCHANGED <<job, target, nextOp>>
  PROVE  /\ ControlOK' /\ cur' \in Command \union {NoCommand}
         /\ pc' \in [Procs -> {"idle"} \union SendLabels \union CancelLabels \union WorkerLabels]
<1> USE RuntimeAssumption DEF TypeInv, TypeOK, ControlOK, Goto, Procs, SendLabels, CancelLabels,
                              WorkerLabels, FinishLabels, Holding, Registered
<1>1. CASE cur.method = "shutdown" /\ shutdown
  <2>1. pc' = [pc EXCEPT ![Worker] = "drain"] /\ cur' = cur
    BY <1>1 DEF Return
  <2> QED BY <2>1
<1>2. CASE ~(cur.method = "shutdown" /\ shutdown)
  <2>1. pc' = [pc EXCEPT ![Worker] = "recv"] /\ cur' = NoCommand
    BY <1>2 DEF Return
  <2> QED BY <2>1
<1> QED BY <1>1, <1>2

LEMMA FinishTypeInv ==
  ASSUME TypeInv, FinishTake \/ FinishRetire \/ FinishEmit
  PROVE  TypeInv'
<1> USE RuntimeAssumption DEF TypeInv, TypeOK, ControlOK, registries, channel, latch, working,
                              history, Goto, Procs, SendLabels, CancelLabels, WorkerLabels,
                              FinishLabels, Holding, Registered
<1>1. CASE FinishTake
  BY <1>1 DEF FinishTake, Answer, Events
<1>2. CASE FinishRetire
  BY <1>2 DEF FinishRetire
<1>3. CASE FinishEmit
  <2>1. answers' \in [RequestIds -> [Events -> Nat]]
    BY <1>3, EmitType DEF FinishEmit
  <2>2. fin' \in [request : RequestIds \union {None}, event : Events]
    BY <1>3 DEF FinishEmit, NoAnswer, Events
  <2>3. UNCHANGED <<registries, nextOp, channel, latch, job, target, doomed, accepts,
                    announced, asked, acked, owed, delivered>>
    BY <1>3 DEF FinishEmit
  <2>4. pc[Worker] = "emit" /\ cur \in Command
    BY <1>3 DEF FinishEmit
  <2>5. Return
    BY <1>3 DEF FinishEmit
  <2>6. ControlOK' /\ cur' \in Command \union {NoCommand}
        /\ pc' \in [Procs -> {"idle"} \union SendLabels \union CancelLabels \union WorkerLabels]
    BY <2>3, <2>4, <2>5, ReturnTypeInv
  <2> QED BY <2>1, <2>2, <2>3, <2>6
<1> QED BY <1>1, <1>2, <1>3

LEMMA LoopTypeInv ==
  ASSUME TypeInv, WorkerRecv \/ WorkerExit \/ DrainQueued \/ DrainDone \/ Dispatch
  PROVE  TypeInv'
<1> USE RuntimeAssumption DEF TypeInv, TypeOK, ControlOK, registries, channel, latch, working,
                              history, Goto, Procs, SendLabels, CancelLabels, WorkerLabels,
                              FinishLabels, Holding, Registered
<1>1. CASE WorkerRecv
  <2>1. Head(queue) \in WorkItem /\ queue' \in Seq(WorkItem)
    BY <1>1 DEF WorkerRecv
  <2>2. UNCHANGED <<registries, nextOp, rxOpen, latch, job, target, fin, doomed, history>>
    BY <1>1 DEF WorkerRecv
  <2>3. CASE Head(queue) = Stop \/ shutdown
    <3>1. pc' = [pc EXCEPT ![Worker] = "exit"] /\ cur' = cur
      BY <1>1, <2>3 DEF WorkerRecv
    <3> QED BY <2>1, <2>2, <3>1
  <2>4. CASE ~(Head(queue) = Stop \/ shutdown)
    <3>1. pc' = [pc EXCEPT ![Worker] = "dispatch"] /\ cur' \in Command
      BY <1>1, <2>1, <2>4 DEF WorkerRecv, WorkItem
    <3> QED BY <2>1, <2>2, <3>1
  <2> QED BY <2>3, <2>4
<1>2. CASE WorkerExit
  <2>1. queue' \in Seq(WorkItem) /\ cur' = NoCommand /\ rxOpen' = FALSE
    BY <1>2 DEF WorkerExit
  <2>2. pc' = [pc EXCEPT ![Worker] = "stopped"]
    BY <1>2 DEF WorkerExit
  <2>3. UNCHANGED <<registries, nextOp, latch, job, target, fin, doomed, history>>
    BY <1>2 DEF WorkerExit
  <2> QED BY <2>1, <2>2, <2>3
<1>3. CASE DrainQueued
  <2>1. Head(queue) \in Command /\ queue' \in Seq(WorkItem)
    BY <1>3 DEF DrainQueued, WorkItem
  <2>2. fin' \in [request : RequestIds, event : Events]
    BY <1>3, <2>1 DEF DrainQueued, Answer, Events, Command
  <2> QED BY <1>3, <2>1, <2>2 DEF DrainQueued
<1>4. CASE DrainDone
  <2>1. queue' \in Seq(WorkItem)
    BY <1>4 DEF DrainDone
  <2> QED BY <1>4, <2>1 DEF DrainDone
<1>5. CASE Dispatch
  <2>1. cur \in Command /\ cur.id \in RequestIds
    BY <1>5 DEF Dispatch, Command
  <2>2. cancelled' \subseteq RequestIds
        /\ UNCHANGED <<active, ops, nextOp, channel, latch, job, target, cur, doomed, history>>
    BY <1>5 DEF Dispatch
  <2>3. CASE cur.id \in cancelled
    <3>1. pc' = [pc EXCEPT ![Worker] = "take"] /\ fin' = [request |-> cur.id, event |-> "cancelled"]
      BY <1>5, <2>3 DEF Dispatch, Answer
    <3> QED BY <2>1, <2>2, <3>1 DEF Events
  <2>4. CASE cur.id \notin cancelled
    <3>1. pc' = [pc EXCEPT ![Worker] = "execute"] /\ fin' = fin
      BY <1>5, <2>4 DEF Dispatch
    <3> QED BY <2>1, <2>2, <3>1
  <2> QED BY <2>3, <2>4
<1> QED BY <1>1, <1>2, <1>3, <1>4, <1>5

LEMMA ExecuteTypeInv ==
  ASSUME TypeInv,
         ExecuteAtOnce \/ ExecuteRemote \/ ExecuteHost \/ ExecuteCancel \/ ExecuteReply
  PROVE  TypeInv'
<1> USE RuntimeAssumption DEF TypeInv, TypeOK, ControlOK, registries, channel, latch, working,
                              history, Goto, Procs, SendLabels, CancelLabels, WorkerLabels,
                              FinishLabels, Holding, Registered, Executing
<1>0. cur \in Command /\ cur.id \in RequestIds
  BY DEF Command, ExecuteAtOnce, ExecuteRemote, ExecuteHost, ExecuteCancel, ExecuteReply
<1>1. CASE ExecuteAtOnce
  BY <1>0, <1>1 DEF ExecuteAtOnce, Answer, Events
<1>2. CASE ExecuteRemote
  BY <1>0, <1>2 DEF ExecuteRemote, Answer, Events
<1>3. CASE ExecuteHost
  BY <1>0, <1>3 DEF ExecuteHost, Answer, Events
<1>4. CASE ExecuteCancel
  <2>1. CASE cur.arg = cur.id \/ cur.arg \notin active
    <3>1. pc' = [pc EXCEPT ![Worker] = "take"] /\ fin' = [request |-> cur.id, event |-> "outcome"]
      BY <1>4, <2>1 DEF ExecuteCancel, Answer
    <3>2. UNCHANGED <<target, acked, registries, nextOp, channel, latch, job, cur, doomed, accepts,
                      answers, announced, asked, owed, delivered>>
      BY <1>4, <2>1 DEF ExecuteCancel
    <3> QED BY <1>0, <3>1, <3>2 DEF Events
  <2>2. CASE ~(cur.arg = cur.id \/ cur.arg \notin active)
    <3>1. pc' = [pc EXCEPT ![Worker] = "mark"] /\ target' = [target EXCEPT ![Worker] = cur.arg]
      BY <1>4, <2>2 DEF ExecuteCancel
    <3>2. cur.arg \in RequestIds /\ acked' = acked \union {cur.arg}
      BY <1>4, <2>2 DEF ExecuteCancel
    <3>3. UNCHANGED <<fin, registries, nextOp, channel, latch, job, cur, doomed, accepts,
                      answers, announced, asked, owed, delivered>>
      BY <1>4, <2>2 DEF ExecuteCancel
    <3> QED BY <1>0, <3>1, <3>2, <3>3
  <2> QED BY <2>1, <2>2
<1>5. CASE ExecuteReply
  BY <1>0, <1>5 DEF ExecuteReply
<1> QED BY <1>1, <1>2, <1>3, <1>4, <1>5

LEMMA ShutdownTypeInv ==
  ASSUME TypeInv, ShutdownStep
  PROVE  TypeInv'
<1> USE RuntimeAssumption DEF TypeInv, TypeOK, ControlOK, registries, channel, latch, working,
                              history, Goto, Procs, SendLabels, CancelLabels, WorkerLabels,
                              FinishLabels, Holding, Registered
<1>1. CASE ShutdownLatch
  BY <1>1 DEF ShutdownLatch, Executing
<1>2. CASE ShutdownCollect
  BY <1>2 DEF ShutdownCollect
<1>3. CASE ShutdownDropOps
  <2>1. ops' \in [OpIds -> HostOperation \union {NoOp}]
    BY <1>3 DEF ShutdownDropOps, Without
  <2>2. doomed' \subseteq RequestIds
    BY <1>3 DEF ShutdownDropOps, OthersOps, Pending, HostOperation
  <2> QED BY <1>3, <2>1, <2>2 DEF ShutdownDropOps
<1>4. CASE ShutdownForget
  BY <1>4 DEF ShutdownForget
<1>5. CASE ShutdownAnswer
  BY <1>5 DEF ShutdownAnswer, Answer, Events, Command
<1>6. CASE \E r \in RequestIds : ShutdownNotify(r)
  <2>1. PICK r \in RequestIds : ShutdownNotify(r)
    BY <1>6
  <2>2. answers' \in [RequestIds -> [Events -> Nat]]
    BY <2>1, EmitType DEF ShutdownNotify, Events
  <2> QED BY <2>1, <2>2 DEF ShutdownNotify
<1> QED BY <1>1, <1>2, <1>3, <1>4, <1>5, <1>6 DEF ShutdownStep

LEMMA ClaimTypeInv ==
  ASSUME TypeInv, ClaimMissing \/ ClaimOperation
  PROVE  TypeInv'
<1> USE RuntimeAssumption DEF TypeInv, TypeOK, ControlOK, registries, channel, latch, working,
                              history, Goto, Procs, SendLabels, CancelLabels, WorkerLabels,
                              FinishLabels, Holding, Registered
<1>0. cur \in Command /\ cur.id \in RequestIds
  BY DEF Command, ClaimMissing, ClaimOperation
<1>1. CASE ClaimMissing
  BY <1>0, <1>1 DEF ClaimMissing, Answer, Events
<1>2. CASE ClaimOperation
  <2>1. ops' \in [OpIds -> HostOperation \union {NoOp}]
    BY <1>2 DEF ClaimOperation, Without
  <2>2. ops[cur.arg].request \in RequestIds
    BY <1>2 DEF ClaimOperation, Pending, HostOperation
  <2>3. fin' \in [request : RequestIds, event : Events]
    BY <1>2, <2>2 DEF ClaimOperation, Answer, Events
  <2>4. PICK next \in Continuations(ops[cur.arg]) : Goto(Worker, next)
    BY <1>2 DEF ClaimOperation
  <2>5. next \in {"take", "register"} /\ (next = "register" => nextOp <= MaxOps)
    BY <2>4 DEF Continuations
  <2>6. delivered' \subseteq RequestIds
    BY <1>0, <1>2 DEF ClaimOperation
  <2>7. UNCHANGED <<active, cancelled, nextOp, channel, latch, job, target, cur, doomed,
                    accepts, answers, announced, asked, acked, owed>>
    BY <1>2 DEF ClaimOperation
  <2> QED BY <1>0, <2>1, <2>3, <2>4, <2>5, <2>6, <2>7
<1> QED BY <1>1, <1>2

LEMMA RegisterTypeInv ==
  ASSUME TypeInv, Register \/ RegisterRecheck \/ Unregister \/ HostRequest
  PROVE  TypeInv'
<1> USE RuntimeAssumption DEF TypeInv, TypeOK, ControlOK, registries, channel, latch, working,
                              history, Goto, Procs, SendLabels, CancelLabels, WorkerLabels,
                              FinishLabels, Holding, Registered
<1>1. CASE Register
  <2>1. nextOp \in OpIds
    BY <1>1 DEF Register, OpIds
  <2>2. ops' \in [OpIds -> HostOperation \union {NoOp}]
    BY <1>1, <2>1 DEF Register, HostOperation
  <2>3. nextOp' \in 1..(MaxOps + 1) /\ nextOp' > 1
    BY <1>1, <2>1 DEF Register, OpIds
  <2> QED BY <1>1, <2>2, <2>3 DEF Register
<1>2. CASE RegisterRecheck
  BY <1>2 DEF RegisterRecheck
<1>3. CASE Unregister
  <2>1. ops' \in [OpIds -> HostOperation \union {NoOp}]
    BY <1>3 DEF Unregister, Without
  <2> QED BY <1>3, <2>1 DEF Unregister, Answer, Events
<1>4. CASE HostRequest
  <2>1. announced' \subseteq OpIds
    BY <1>4 DEF HostRequest, OpIds
  <2>2. fin' \in [request : RequestIds \union {None}, event : Events]
    BY <1>4 DEF HostRequest, NoAnswer, Events
  <2>3. UNCHANGED <<registries, nextOp, channel, latch, job, target, doomed, accepts,
                    answers, asked, acked, owed, delivered>>
    BY <1>4 DEF HostRequest
  <2>4. pc[Worker] = "request" /\ cur \in Command
    BY <1>4 DEF HostRequest
  <2>5. Return
    BY <1>4 DEF HostRequest
  <2>6. ControlOK' /\ cur' \in Command \union {NoCommand}
        /\ pc' \in [Procs -> {"idle"} \union SendLabels \union CancelLabels \union WorkerLabels]
    BY <2>3, <2>4, <2>5, ReturnTypeInv
  <2> QED BY <2>1, <2>2, <2>3, <2>6
<1> QED BY <1>1, <1>2, <1>3, <1>4

LEMMA DestroyTypeInv ==
  ASSUME TypeInv, DestroyStep
  PROVE  TypeInv'
<1> USE RuntimeAssumption DEF TypeInv, TypeOK, ControlOK, registries, channel, latch, working,
                              history, Lives
<1>1. CASE DestroyBegin
  BY <1>1 DEF DestroyBegin
<1>2. CASE DestroySignal
  <2>1. queue' \in Seq(WorkItem)
    BY <1>2 DEF DestroySignal, WorkItem
  <2> QED BY <1>2, <2>1 DEF DestroySignal
<1>3. CASE DestroyJoin
  BY <1>3 DEF DestroyJoin
<1> QED BY <1>1, <1>2, <1>3 DEF DestroyStep

LEMMA NextTypeInv == TypeInv /\ [Next]_vars => TypeInv'
<1> SUFFICES ASSUME TypeInv, [Next]_vars PROVE TypeInv'
  OBVIOUS
<1>1. CASE WorkerStep
  <2>1. Worker \in Procs
    BY DEF Procs
  <2> QED BY <1>1, <2>1, LoopTypeInv, ExecuteTypeInv, ClaimTypeInv, RegisterTypeInv,
             FinishTypeInv, ShutdownTypeInv, CancelTypeInv DEF WorkerStep
<1>2. CASE DestroyStep
  BY <1>2, DestroyTypeInv
<1>3. ASSUME NEW t \in Threads, ThreadStep(t) \/ ThreadCall(t) PROVE TypeInv'
  <2>1. t \in Procs
    BY DEF Procs
  <2>2. CASE ThreadStep(t)
    BY <2>1, <2>2, SendTypeInv, CancelTypeInv DEF ThreadStep
  <2>3. CASE \E r \in RequestIds : CancelBegin(t, r)
    BY <2>3, RuntimeAssumption
    DEF CancelBegin, TypeInv, TypeOK, ControlOK, registries, channel, latch, working, history, Goto,
        Procs, SendLabels, CancelLabels, WorkerLabels
  <2>4. CASE \E r \in RequestIds : \E c \in Commands(r) : SendBegin(t, c)
    BY <2>4, SendTypeInv
  <2> QED BY <1>3, <2>2, <2>3, <2>4 DEF ThreadCall
<1>4. CASE UNCHANGED vars
  BY <1>4, StutterTypeInv
<1> QED BY <1>1, <1>2, <1>3, <1>4 DEF Next

LEMMA AlwaysTypeInv == Spec => []TypeInv
<1>1. Init => TypeInv
  BY InitTypeInv
<1>2. TypeInv /\ [Next]_vars => TypeInv'
  BY NextTypeInv
<1> QED BY <1>1, <1>2, PTL DEF Spec

\* The registries, the queue and the worker's variables keep their types: no
\* path of send, cancel, dispatch or shutdown stores a missing request id or a
\* missing command in them.
THEOREM TypeCorrect == Spec => []TypeOK
<1>1. TypeInv => TypeOK
  BY DEF TypeInv
<1> QED BY <1>1, AlwaysTypeInv, PTL

-----------------------------------------------------------------------------
(***************************************************************************)
(* Once a runtime.shutdown has set the latch, and before the host destroys *)
(* the runtime, the worker is on the shutdown path and nowhere else: it    *)
(* collects, notifies, drains, or answers a request with CANCELLED or its  *)
(* own command with the result.                                            *)
(***************************************************************************)
Collecting == {"collect", "dropOps", "forget", "notifyAll", "drain"}

OnShutdownPath ==
  \/ pc[Worker] \in {"exit", "stopped"}
  \/ /\ cur.method = "shutdown"
     /\ \/ pc[Worker] \in Collecting
        \/ /\ pc[Worker] \in FinishLabels
           /\ fin.event = "cancelled" \/ fin.request = cur.id

LatchInv == shutdown /\ life = "running" => OnShutdownPath

LEMMA ThreadLatchInv ==
  ASSUME TypeInv, LatchInv, NEW t \in Threads, ThreadStep(t) \/ ThreadCall(t)
  PROVE  LatchInv'
<1> USE RuntimeAssumption DEF TypeInv, TypeOK, Goto, Procs, latch, working
<1>0. t # Worker
  OBVIOUS
<1>1. pc'[Worker] = pc[Worker] /\ UNCHANGED <<latch, cur, fin>>
  <2>1. CASE ThreadStep(t)
    BY <1>0, <2>1 DEF ThreadStep, SendReserve, SendDuplicate, SendEnqueue, SendRefused, CancelStep,
       CancelMark, CancelUnlink, CancelUnmark, CancelRelease, CancelNotify, CancelDone
  <2>2. CASE ThreadCall(t)
    BY <1>0, <2>2 DEF ThreadCall, CancelBegin, SendBegin
  <2> QED BY <2>1, <2>2
<1> QED BY <1>1 DEF LatchInv, OnShutdownPath

LEMMA WorkerLatchInv ==
  ASSUME TypeInv, LatchInv, WorkerStep
  PROVE  LatchInv'
<1> SUFFICES ASSUME shutdown', life' = "running" PROVE OnShutdownPath'
  BY DEF LatchInv
<1> USE RuntimeAssumption DEF TypeInv, TypeOK, Goto, Procs, latch, working
<1>1. CASE ShutdownLatch
  BY <1>1 DEF ShutdownLatch, Executing, Collecting, OnShutdownPath
<1>2. CASE ~ShutdownLatch
  <2>1. UNCHANGED latch
    BY <1>2 DEF WorkerStep, WorkerRecv, WorkerExit, DrainQueued, DrainDone, Dispatch, ExecuteAtOnce,
       ExecuteRemote, ExecuteHost, ExecuteCancel, ExecuteReply, ClaimMissing, ClaimOperation,
       Register, RegisterRecheck, Unregister, HostRequest, FinishTake, FinishRetire, FinishEmit,
       ShutdownStep, ShutdownCollect, ShutdownDropOps, ShutdownForget, ShutdownAnswer,
       ShutdownNotify, CancelStep, CancelMark, CancelUnlink, CancelUnmark, CancelRelease,
       CancelNotify
  <2>2. shutdown /\ OnShutdownPath
    BY <2>1 DEF LatchInv
  <2>3. pc[Worker] \notin {"recv", "dispatch", "execute", "claim", "register", "recheck",
                           "unregister", "request"} \union CancelLabels
    BY <2>2 DEF OnShutdownPath, Collecting, FinishLabels, CancelLabels
  <2>4. CASE WorkerExit
    BY <2>4 DEF WorkerExit, OnShutdownPath
  <2>5. CASE DrainQueued \/ DrainDone
    BY <2>2, <2>5 DEF DrainQueued, DrainDone, Answer, OnShutdownPath, Collecting, FinishLabels
  <2>6. CASE FinishTake
    <3>1. pc[Worker] = "take" /\ pc' = [pc EXCEPT ![Worker] = "retire"] /\ cur' = cur
      BY <2>6 DEF FinishTake
    <3>2. /\ fin'.request = fin.request
          /\ fin.event = "cancelled" => fin'.event = "cancelled"
      BY <2>6 DEF FinishTake, Answer
    <3> QED BY <2>2, <3>1, <3>2 DEF OnShutdownPath, Collecting, FinishLabels
  <2>7. CASE FinishRetire
    BY <2>2, <2>7 DEF FinishRetire, OnShutdownPath, Collecting, FinishLabels
  <2>8. CASE FinishEmit
    <3>1. cur.method = "shutdown"
      BY <2>2, <2>8 DEF FinishEmit, OnShutdownPath, Collecting
    <3>2. pc' = [pc EXCEPT ![Worker] = "drain"] /\ cur' = cur
      BY <2>2, <2>8, <3>1 DEF FinishEmit, Return
    <3> QED BY <3>1, <3>2 DEF OnShutdownPath, Collecting
  <2>9. CASE ShutdownStep
    <3>1. pc[Worker] \in Collecting /\ cur' = cur
      BY <1>2, <2>9 DEF ShutdownStep, ShutdownCollect, ShutdownDropOps, ShutdownForget,
         ShutdownAnswer, ShutdownNotify, Collecting
    <3>2. CASE ShutdownAnswer
      BY <2>2, <3>1, <3>2 DEF ShutdownAnswer, Answer, OnShutdownPath, Collecting, FinishLabels
    <3>3. CASE ~ShutdownAnswer
      <4>1. pc'[Worker] \in Collecting
        BY <1>2, <2>9, <3>3 DEF ShutdownStep, ShutdownCollect, ShutdownDropOps, ShutdownForget,
           ShutdownNotify, Collecting
      <4> QED BY <2>2, <3>1, <4>1 DEF OnShutdownPath, Collecting, FinishLabels
    <3> QED BY <3>2, <3>3
  <2>10. ~(\/ WorkerRecv \/ Dispatch \/ ExecuteAtOnce \/ ExecuteRemote \/ ExecuteHost
          \/ ExecuteCancel \/ ExecuteReply \/ ClaimMissing \/ ClaimOperation \/ Register
          \/ RegisterRecheck \/ Unregister \/ HostRequest \/ CancelStep(Worker))
    BY <2>3 DEF WorkerRecv, Dispatch, ExecuteAtOnce, ExecuteRemote, ExecuteHost, ExecuteCancel,
       ExecuteReply, Executing, ClaimMissing, ClaimOperation, Register, RegisterRecheck,
       Unregister, HostRequest, CancelStep, CancelMark, CancelUnlink, CancelUnmark,
       CancelRelease, CancelNotify, CancelLabels
  <2> QED BY <2>4, <2>5, <2>6, <2>7, <2>8, <2>9, <2>10 DEF WorkerStep
<1> QED BY <1>1, <1>2

LEMMA NextLatchInv == TypeInv /\ LatchInv /\ [Next]_vars => LatchInv'
<1> SUFFICES ASSUME TypeInv, LatchInv, [Next]_vars PROVE LatchInv'
  OBVIOUS
<1>1. CASE WorkerStep
  BY <1>1, WorkerLatchInv
<1>2. CASE DestroyStep
  BY <1>2 DEF DestroyStep, DestroyBegin, DestroySignal, DestroyJoin, LatchInv, OnShutdownPath,
     working
<1>3. CASE \E t \in Threads : ThreadStep(t) \/ ThreadCall(t)
  BY <1>3, ThreadLatchInv
<1>4. CASE UNCHANGED vars
  BY <1>4 DEF vars, latch, working, LatchInv, OnShutdownPath
<1> QED BY <1>1, <1>2, <1>3, <1>4 DEF Next

\* What one step may do to what the host has seen.
LEMMA StepIsSilent ==
  ASSUME TypeInv, LatchInv, [Next]_vars, shutdown, life = "running"
  PROVE  /\ announced' = announced
         /\ \A r \in RequestIds \ {cur.id} : answers'[r]["outcome"] = answers[r]["outcome"]
<1> USE DEF TypeInv, TypeOK
<1>0. ASSUME NEW r \in RequestIds, Emit(r, "cancelled")
      PROVE  \A q \in RequestIds : answers'[q]["outcome"] = answers[q]["outcome"]
  BY <1>0 DEF Emit, Events
<1>1. CASE HostRequest
  BY <1>1 DEF HostRequest, LatchInv, OnShutdownPath, Collecting, FinishLabels
<1>2. CASE FinishEmit
  <2>1. announced' = announced
    BY <1>2 DEF FinishEmit
  <2>2. fin.event = "cancelled" \/ fin.request = cur.id
    BY <1>2 DEF FinishEmit, LatchInv, OnShutdownPath, Collecting, FinishLabels
  <2>3. answers' = [answers EXCEPT ![fin.request][fin.event] = @ + 1]
    BY <1>2 DEF FinishEmit, Emit
  <2>4. ASSUME NEW r \in RequestIds \ {cur.id}
        PROVE  answers'[r]["outcome"] = answers[r]["outcome"]
    BY <2>2, <2>3, <2>4 DEF Events
  <2> QED BY <2>1, <2>4
<1>3. CASE \E r \in RequestIds : ShutdownNotify(r)
  BY <1>0, <1>3 DEF ShutdownNotify
<1>4. CASE \E p \in Procs : CancelNotify(p)
  BY <1>0, <1>4 DEF CancelNotify, ControlOK, CancelLabels
<1>5. CASE \A p \in Procs : ~HostRequest /\ ~FinishEmit /\ ~CancelNotify(p)
           /\ \A r \in RequestIds : ~ShutdownNotify(r)
  <2>1. UNCHANGED <<announced, answers>>
    <3>1. CASE WorkerStep
      BY <1>5, <3>1 DEF WorkerStep, WorkerRecv, WorkerExit, DrainQueued, DrainDone, Dispatch,
         ExecuteAtOnce, ExecuteRemote, ExecuteHost, ExecuteCancel, ExecuteReply, ClaimMissing,
         ClaimOperation, Register, RegisterRecheck, Unregister, FinishTake, FinishRetire,
         ShutdownStep, ShutdownLatch, ShutdownCollect, ShutdownDropOps, ShutdownForget,
         ShutdownAnswer, CancelStep, CancelMark, CancelUnlink, CancelUnmark, CancelRelease,
         Procs, history
    <3>2. CASE DestroyStep
      BY <3>2 DEF DestroyStep, DestroyBegin, DestroySignal, DestroyJoin, history
    <3>3. ASSUME NEW t \in Threads, ThreadStep(t) \/ ThreadCall(t)
          PROVE  UNCHANGED <<announced, answers>>
      BY <1>5, <3>3 DEF ThreadStep, ThreadCall, SendBegin, SendReserve, SendDuplicate, SendEnqueue,
         SendRefused, CancelBegin, CancelStep, CancelMark, CancelUnlink, CancelUnmark,
         CancelRelease, Procs, history
    <3>4. CASE UNCHANGED vars
      BY <3>4 DEF vars, history
    <3> QED BY <3>1, <3>2, <3>3, <3>4 DEF Next
  <2> QED BY <2>1
<1> QED BY <1>1, <1>2, <1>3, <1>4, <1>5

\* runtime.shutdown is final, whatever is queued, pending or being cancelled by
\* the host threads when it takes effect.
THEOREM ShutdownFinal == Spec => ShutdownIsFinal
<1>1. Init => LatchInv
  BY DEF Init, LatchInv
<1>2. TypeInv /\ LatchInv /\ [Next]_vars => LatchInv'
  BY NextLatchInv
<1>3. Spec => []LatchInv
  BY <1>1, <1>2, AlwaysTypeInv, PTL DEF Spec
<1>4. TypeInv /\ LatchInv /\ [Next]_vars =>
        [ shutdown /\ life = "running" =>
            /\ announced' = announced
            /\ \A r \in RequestIds \ {cur.id} :
                 answers'[r]["outcome"] = answers[r]["outcome"] ]_vars
  BY StepIsSilent
<1> QED BY <1>3, <1>4, AlwaysTypeInv, PTL DEF Spec, ShutdownIsFinal

(***************************************************************************)
(* Where a request can be.                                                 *)
(***************************************************************************)
Linking == {"collect", "dropOps", "forget", "notifyAll"}
HandLabels == {"dispatch", "execute", "claim"} \union Linking \union CancelLabels
Withdrawn == {"unmark", "release"}

HeldByThread(r) == \E t \in Threads : pc[t] = "enqueue" /\ job[t].id = r
InHand(r) == pc[Worker] \in HandLabels /\ cur.id = r
InFin(r) == pc[Worker] \in Holding /\ fin.request = r
HasOp(r) == \E o \in OpIds : ops[o].request = r
Withdrawing(r) == \E p \in Procs : pc[p] \in Withdrawn /\ target[p] = r
Cancelling(r) == \E p \in Procs : pc[p] \in Withdrawn \union {"notify"} /\ target[p] = r

(***************************************************************************)
(* No request is stranded, however often an id is used.                    *)
(***************************************************************************)
Served(r) ==
  \/ HeldByThread(r) \/ Queued(r) \/ HasOp(r) \/ Withdrawing(r)
  \/ InHand(r) /\ pc[Worker] # "claim"
  \/ InFin(r) /\ pc[Worker] \in {"take", "retire", "register"}

ServedInv == ~Finishing => \A r \in active : Served(r)

\* Operations are numbered in the order of their registration, and the last one is
\* the worker's own until it has asked the host.
OpsInv ==
  \A o \in OpIds :
    /\ o >= nextOp => ops[o] = NoOp
    /\ pc[Worker] \in Registered /\ o = nextOp - 1 => ops[o] = NoOp \/ ops[o].request = fin.request

\* Ids accepted while a shutdown is collecting are still on their way to the worker.
CollectedInv ==
  pc[Worker] = "dropOps" => \A r \in active \ {cur.id} : HeldByThread(r) \/ Queued(r)

OrphanInv == ServedInv /\ OpsInv /\ CollectedInv

\* What a send and a receive do to the set of queued ids.
LEMMA QueuedAppend ==
  ASSUME queue \in Seq(WorkItem), NEW c \in WorkItem, queue' = Append(queue, c), NEW r
  PROVE  Queued(r)' <=> Queued(r) \/ c.id = r
<1>1. /\ Len(queue') = Len(queue) + 1 /\ queue'[Len(queue) + 1] = c
      /\ \A i \in 1..Len(queue) : queue'[i] = queue[i]
  OBVIOUS
<1>2. Len(queue) \in Nat
  OBVIOUS
<1> QED BY <1>1, <1>2 DEF Queued

LEMMA QueuedTail ==
  ASSUME queue \in Seq(WorkItem), queue # <<>>, queue' = Tail(queue), NEW r
  PROVE  /\ Queued(r)' => Queued(r)
         /\ Queued(r) => Queued(r)' \/ Head(queue).id = r
<1>1. /\ Len(queue) \in Nat \ {0} /\ Len(queue') = Len(queue) - 1 /\ Head(queue) = queue[1]
      /\ \A i \in 1..Len(queue') : queue'[i] = queue[i + 1]
  OBVIOUS
<1>2. ASSUME Queued(r)' PROVE Queued(r)
  <2>1. PICK i \in 1..Len(queue') : queue'[i].id = r
    BY <1>2 DEF Queued
  <2> QED BY <1>1, <2>1 DEF Queued
<1>3. ASSUME Queued(r), Head(queue).id # r PROVE Queued(r)'
  <2>1. PICK i \in 1..Len(queue) : queue[i].id = r
    BY <1>3 DEF Queued
  <2>2. i - 1 \in 1..Len(queue') /\ queue'[i - 1] = queue[i]
    BY <1>1, <1>3, <2>1
  <2> QED BY <2>1, <2>2 DEF Queued
<1> QED BY <1>2, <1>3

\* A step of the worker outside a cancel leaves the host threads where they are,
\* a step of a thread the worker.
LEMMA WorkerFrame ==
  ASSUME TypeInv, NEW l, pc' = [pc EXCEPT ![Worker] = l], UNCHANGED <<job, target>>,
         {pc[Worker], l} \intersect {"unmark", "release", "notify"} = {}
  PROVE  /\ pc'[Worker] = l
         /\ \A r : /\ HeldByThread(r)' <=> HeldByThread(r)
                   /\ Withdrawing(r)' <=> Withdrawing(r)
                   /\ Cancelling(r)' <=> Cancelling(r)
<1>1. pc'[Worker] = l /\ \A t \in Threads : pc'[t] = pc[t]
  BY RuntimeAssumption DEF TypeInv, TypeOK, Procs
<1>2. ASSUME NEW r PROVE HeldByThread(r)' <=> HeldByThread(r)
  BY <1>1 DEF HeldByThread
<1>3. ASSUME NEW r PROVE Withdrawing(r)' <=> Withdrawing(r)
  BY <1>1 DEF Withdrawing, Withdrawn, Procs
<1>4. ASSUME NEW r PROVE Cancelling(r)' <=> Cancelling(r)
  BY <1>1 DEF Cancelling, Withdrawn, Procs
<1> QED BY <1>1, <1>2, <1>3, <1>4

LEMMA QuietFrame ==
  /\ queue' = queue => \A r : Queued(r)' <=> Queued(r)
  /\ ops' = ops => \A r : HasOp(r)' <=> HasOp(r)
BY DEF Queued, HasOp

\* A step of a host thread leaves the worker where it is.
LEMMA ThreadFrame ==
  ASSUME TypeInv, NEW t \in Threads, NEW l, pc' = [pc EXCEPT ![t] = l]
  PROVE  /\ pc'[Worker] = pc[Worker] /\ pc'[t] = l
         /\ \A p \in Procs \ {t} : pc'[p] = pc[p]
BY RuntimeAssumption DEF TypeInv, TypeOK, Procs

LEMMA SendFrame ==
  ASSUME TypeInv, NEW t \in Threads, NEW l, pc[t] \in {"idle"} \union SendLabels,
         l \in {"idle"} \union SendLabels, pc' = [pc EXCEPT ![t] = l], NEW c,
         job' = [job EXCEPT ![t] = c], target' = target
  PROVE  \A r : /\ HeldByThread(r)' <=>
                     \/ l = "enqueue" /\ c.id = r
                     \/ \E u \in Threads \ {t} : pc[u] = "enqueue" /\ job[u].id = r
                /\ Withdrawing(r)' <=> Withdrawing(r)
                /\ Cancelling(r)' <=> Cancelling(r)
<1>1. /\ pc'[t] = l /\ job'[t] = c
      /\ \A u \in Threads \ {t} : pc'[u] = pc[u] /\ job'[u] = job[u]
      /\ \A p \in Procs \ {t} : pc'[p] = pc[p]
  BY ThreadFrame DEF TypeInv, TypeOK, Procs
<1>2. {pc[t], l} \intersect {"unmark", "release", "notify"} = {}
  BY DEF SendLabels
<1>3. ASSUME NEW r PROVE Withdrawing(r)' <=> Withdrawing(r)
  BY <1>1, <1>2 DEF Withdrawing, Withdrawn
<1>4. ASSUME NEW r PROVE Cancelling(r)' <=> Cancelling(r)
  BY <1>1, <1>2 DEF Cancelling, Withdrawn
<1>5. ASSUME NEW r
      PROVE  HeldByThread(r)' <=> \/ l = "enqueue" /\ c.id = r
                                  \/ \E u \in Threads \ {t} : pc[u] = "enqueue" /\ job[u].id = r
  BY <1>1 DEF HeldByThread
<1> QED BY <1>3, <1>4, <1>5

\* A step of the worker that leaves the queue, the operations and the host threads alone.
LEMMA QuietStep ==
  ASSUME TypeInv, NEW l, pc' = [pc EXCEPT ![Worker] = l], UNCHANGED <<ops, queue, job, target>>,
         {pc[Worker], l} \intersect {"unmark", "release", "notify"} = {}
  PROVE  /\ pc'[Worker] = l
         /\ \A r : /\ HeldByThread(r)' <=> HeldByThread(r)
                   /\ Withdrawing(r)' <=> Withdrawing(r)
                   /\ Cancelling(r)' <=> Cancelling(r)
                   /\ Queued(r)' <=> Queued(r)
                   /\ HasOp(r)' <=> HasOp(r)
BY WorkerFrame, QuietFrame

\* What taking operations out of the registry leaves.
LEMMA WithoutOps ==
  ASSUME NEW S \in SUBSET OpIds, ops' = Without(S)
  PROVE  /\ \A o \in S : ops'[o] = NoOp
         /\ \A o \in OpIds \ S : ops'[o] = ops[o]
         /\ \A r : HasOp(r) => HasOp(r)' \/ \E o \in S : ops[o].request = r
         /\ \A r \in RequestIds : HasOp(r)' => HasOp(r)
<1>1. /\ \A o \in S : ops'[o] = NoOp
      /\ \A o \in OpIds \ S : ops'[o] = ops[o]
  BY DEF Without
<1>2. ASSUME NEW r, HasOp(r) PROVE HasOp(r)' \/ \E o \in S : ops[o].request = r
  BY <1>1, <1>2 DEF HasOp
<1>3. ASSUME NEW r \in RequestIds, HasOp(r)' PROVE HasOp(r)
  <2>1. NoOp.request # r
    BY RuntimeAssumption DEF NoOp
  <2> QED BY <1>1, <1>3, <2>1 DEF HasOp
<1> QED BY <1>1, <1>2, <1>3

LEMMA SendOrphanInv ==
  ASSUME TypeInv, OrphanInv, NEW t \in Threads,
         \/ \E r \in RequestIds : \E c \in Commands(r) : SendBegin(t, c)
         \/ SendReserve(t) \/ SendDuplicate(t) \/ SendEnqueue(t) \/ SendRefused(t)
  PROVE  OrphanInv'
<1> USE DEF OrphanInv, ServedInv, OpsInv, CollectedInv, Finishing, Served, InHand, InFin, registries,
            channel, working, Goto
<1>0. ASSUME NEW r PROVE HeldByThread(r) <=>
              \/ pc[t] = "enqueue" /\ job[t].id = r
              \/ \E u \in Threads \ {t} : pc[u] = "enqueue" /\ job[u].id = r
  BY DEF HeldByThread
<1>1. CASE \E r \in RequestIds : \E c \in Commands(r) : SendBegin(t, c)
  <2>0. PICK r \in RequestIds : \E c \in Commands(r) : SendBegin(t, c)
    BY <1>1
  <2>1. PICK c \in Commands(r) : SendBegin(t, c)
    BY <2>0
  <2>2. /\ pc[t] = "idle" /\ pc' = [pc EXCEPT ![t] = "reserve"] /\ job' = [job EXCEPT ![t] = c]
        /\ UNCHANGED <<active, ops, nextOp, queue, target, cur, fin>>
    BY <2>1 DEF SendBegin
  <2>3. pc'[Worker] = pc[Worker]
    BY <2>2, ThreadFrame
  <2>4. \A q : (HeldByThread(q) => HeldByThread(q)') /\ (Withdrawing(q)' <=> Withdrawing(q))
    BY <1>0, <2>2, SendFrame DEF SendLabels
  <2> QED BY <2>2, <2>3, <2>4, QuietFrame
<1>2. CASE SendReserve(t)
  <2>1. /\ pc[t] = "reserve" /\ pc' = [pc EXCEPT ![t] = "enqueue"]
        /\ active' = active \union {job[t].id}
        /\ UNCHANGED <<job, ops, nextOp, queue, target, cur, fin>>
    BY <1>2 DEF SendReserve
  <2>2. pc'[Worker] = pc[Worker]
    BY <2>1, ThreadFrame
  <2>3. job' = [job EXCEPT ![t] = job[t]]
    BY <2>1 DEF TypeInv, TypeOK
  <2>4. \A q : /\ HeldByThread(q) \/ q = job[t].id => HeldByThread(q)'
               /\ Withdrawing(q)' <=> Withdrawing(q)
    BY <1>0, <2>1, <2>3, SendFrame DEF SendLabels
  <2> QED BY <2>1, <2>2, <2>4, QuietFrame
<1>3. CASE SendDuplicate(t)
  <2>1. /\ pc[t] = "reserve" /\ pc' = [pc EXCEPT ![t] = "idle"]
        /\ job' = [job EXCEPT ![t] = NoCommand]
        /\ UNCHANGED <<active, ops, nextOp, queue, target, cur, fin>>
    BY <1>3 DEF SendDuplicate
  <2>2. pc'[Worker] = pc[Worker]
    BY <2>1, ThreadFrame
  <2>3. \A q : (HeldByThread(q) => HeldByThread(q)') /\ (Withdrawing(q)' <=> Withdrawing(q))
    BY <1>0, <2>1, SendFrame DEF SendLabels
  <2> QED BY <2>1, <2>2, <2>3, QuietFrame
<1>4. CASE SendEnqueue(t)
  <2>1. /\ pc[t] = "enqueue" /\ pc' = [pc EXCEPT ![t] = "idle"]
        /\ job' = [job EXCEPT ![t] = NoCommand] /\ queue' = Append(queue, job[t])
        /\ UNCHANGED <<active, ops, nextOp, target, cur, fin>>
    BY <1>4 DEF SendEnqueue
  <2>2. pc'[Worker] = pc[Worker]
    BY <2>1, ThreadFrame
  <2>3. \A q : /\ HeldByThread(q) => HeldByThread(q)' \/ q = job[t].id
               /\ Withdrawing(q)' <=> Withdrawing(q)
    BY <1>0, <2>1, SendFrame DEF SendLabels
  <2>4. queue \in Seq(WorkItem) /\ job[t] \in WorkItem
    BY <2>1 DEF TypeInv, TypeOK, ControlOK, WorkItem, SendLabels
  <2>5. \A r : Queued(r)' <=> Queued(r) \/ job[t].id = r
    BY <2>1, <2>4, QueuedAppend
  <2> QED BY <2>1, <2>2, <2>3, <2>5, QuietFrame
<1>5. CASE SendRefused(t)
  <2>1. /\ pc[t] = "enqueue" /\ pc' = [pc EXCEPT ![t] = "idle"]
        /\ job' = [job EXCEPT ![t] = NoCommand] /\ active' = active \ {job[t].id}
        /\ UNCHANGED <<queue, ops, nextOp, target, cur, fin>>
    BY <1>5 DEF SendRefused
  <2>2. pc'[Worker] = pc[Worker]
    BY <2>1, ThreadFrame
  <2>3. \A q : /\ HeldByThread(q) => HeldByThread(q)' \/ q = job[t].id
               /\ Withdrawing(q)' <=> Withdrawing(q)
    BY <1>0, <2>1, SendFrame DEF SendLabels
  <2> QED BY <2>1, <2>2, <2>3, QuietFrame
<1> QED BY <1>1, <1>2, <1>3, <1>4, <1>5

\* The end of a cancel: the worker answers runtime.cancel, a thread returns.
LEMMA DoneOrphanInv ==
  ASSUME TypeInv, OrphanInv, NEW p \in Procs, pc[p] \in {"unlink", "notify"}, CancelDone(p),
         UNCHANGED <<active, ops, nextOp, queue, job, cur>>
  PROVE  OrphanInv'
<1> USE RuntimeAssumption DEF TypeInv, TypeOK, ControlOK, OrphanInv, ServedInv, OpsInv, CollectedInv,
        Goto, Procs, Finishing, Served, HeldByThread, InHand, InFin, HasOp, Withdrawing, SendLabels,
        CancelLabels, Withdrawn, Holding, Registered, Queued
<1>1. CASE p = Worker
  <2>1. /\ pc' = [pc EXCEPT ![Worker] = "take"] /\ target' = [target EXCEPT ![Worker] = None]
        /\ fin'.request = cur.id
    BY <1>1 DEF CancelDone, Answer
  <2> QED BY <1>1, <2>1 DEF HandLabels
<1>2. CASE p # Worker
  <2>1. /\ pc' = [pc EXCEPT ![p] = "idle"] /\ target' = [target EXCEPT ![p] = None] /\ fin' = fin
    BY <1>2 DEF CancelDone
  <2> QED BY <1>2, <2>1
<1> QED BY <1>1, <1>2

\* The operations of a cancelled request are withdrawn by the thread that cancels it.
LEMMA UnlinkEffect ==
  ASSUME TypeInv, NEW p \in Procs, CancelUnlink(p), OpsOf(target[p]) # {}
  PROVE  /\ \A r : /\ HasOp(r) => HasOp(r)' \/ r = target[p]
                   /\ HeldByThread(r)' <=> HeldByThread(r)
                   /\ Queued(r)' <=> Queued(r)
                   /\ Withdrawing(r) \/ r = target[p] => Withdrawing(r)'
                   /\ Cancelling(r)' <=> Cancelling(r) \/ r = target[p]
         /\ \A o \in OpIds : ops'[o] = ops[o] \/ ops'[o] = NoOp
         /\ \/ p = Worker /\ pc[Worker] = "unlink" /\ pc'[Worker] = "unmark"
            \/ p # Worker /\ pc'[Worker] = pc[Worker]
         /\ UNCHANGED <<active, nextOp, queue, job, cur, target, fin>>
<1>0. /\ pc[p] = "unlink" /\ ops' = Without(OpsOf(target[p]))
      /\ pc' = [pc EXCEPT ![p] = "unmark"]
      /\ UNCHANGED <<active, nextOp, queue, job, cur, target, fin>>
  BY DEF CancelUnlink, channel, Goto
<1>1. OpsOf(target[p]) \in SUBSET OpIds /\ \A o \in OpsOf(target[p]) : ops[o].request = target[p]
  BY DEF OpsOf
<1>2. /\ \A r : HasOp(r) => HasOp(r)' \/ r = target[p]
      /\ \A o \in OpIds : ops'[o] = ops[o] \/ ops'[o] = NoOp
  BY <1>0, <1>1, WithoutOps
<1>3. /\ pc'[p] = "unmark"
      /\ \A q \in Procs \ {p} : pc'[q] = pc[q]
      /\ Worker \in Procs /\ Threads \subseteq Procs
  BY <1>0 DEF TypeInv, TypeOK, Procs
<1>4. ASSUME NEW r PROVE HeldByThread(r)' <=> HeldByThread(r)
  BY <1>0, <1>3 DEF HeldByThread
<1>5. ASSUME NEW r, Withdrawing(r) \/ r = target[p] PROVE Withdrawing(r)'
  BY <1>0, <1>3, <1>5 DEF Withdrawing, Withdrawn
<1>6. ASSUME NEW r PROVE Cancelling(r)' <=> Cancelling(r) \/ r = target[p]
  BY <1>0, <1>3 DEF Cancelling, Withdrawn
<1>7. \A r : Queued(r)' <=> Queued(r)
  BY <1>0, QuietFrame
<1> QED BY <1>0, <1>2, <1>3, <1>4, <1>5, <1>6, <1>7

LEMMA UnlinkOrphanInv ==
  ASSUME TypeInv, OrphanInv, NEW p \in Procs, CancelUnlink(p)
  PROVE  OrphanInv'
<1>1. CASE OpsOf(target[p]) # {}
  <2>1. ASSUME NEW r, Served(r), ~Finishing PROVE Served(r)'
    BY <1>1, <2>1, UnlinkEffect
    DEF Served, InHand, InFin, HandLabels, CancelLabels, Holding, Registered
  <2>2. ServedInv'
    BY <1>1, <2>1, UnlinkEffect DEF OrphanInv, ServedInv, Finishing
  <2>3. OpsInv'
    BY <1>1, UnlinkEffect DEF OrphanInv, OpsInv, Registered
  <2>4. CollectedInv'
    BY <1>1, UnlinkEffect DEF OrphanInv, CollectedInv
  <2> QED BY <2>2, <2>3, <2>4 DEF OrphanInv
<1>2. CASE OpsOf(target[p]) = {}
  <2>1. ops' = [o \in OpIds |-> ops[o]] /\ CancelDone(p)
    BY <1>2 DEF CancelUnlink, Without
  <2>2. ops' = ops
    BY <2>1 DEF TypeInv, TypeOK
  <2>3. pc[p] = "unlink" /\ UNCHANGED <<active, nextOp, queue, job, cur>>
    BY DEF CancelUnlink, channel
  <2> QED BY <2>1, <2>2, <2>3, DoneOrphanInv
<1> QED BY <1>1, <1>2

LEMMA CancelOrphanInv ==
  ASSUME TypeInv, OrphanInv, NEW p \in Procs, CancelStep(p)
  PROVE  OrphanInv'
<1> USE RuntimeAssumption DEF TypeInv, TypeOK, ControlOK, OrphanInv, ServedInv, OpsInv, CollectedInv,
        registries, channel, latch, working, history, Goto, Procs, Finishing, Served, HeldByThread, InHand, InFin,
        HasOp, Withdrawing, SendLabels, CancelLabels, Withdrawn, Holding, Registered, Queued
<1>1. CASE CancelMark(p)
  BY <1>1 DEF CancelMark, HandLabels
<1>2. CASE CancelUnlink(p)
  BY <1>2, UnlinkOrphanInv
<1>3. CASE CancelUnmark(p)
  BY <1>3 DEF CancelUnmark, HandLabels
<1>4. CASE CancelRelease(p)
  BY <1>4 DEF CancelRelease, HandLabels
<1>5. CASE CancelNotify(p)
  BY <1>5, DoneOrphanInv DEF CancelNotify
<1> QED BY <1>1, <1>2, <1>3, <1>4, <1>5 DEF CancelStep

LEMMA LoopOrphanInv ==
  ASSUME TypeInv, OrphanInv, WorkerRecv \/ WorkerExit \/ DrainQueued \/ DrainDone \/ Dispatch
  PROVE  OrphanInv'
<1> USE DEF OrphanInv, ServedInv, OpsInv, CollectedInv, Finishing, Served, InHand, InFin, HandLabels, Linking,
            CancelLabels, Registered, Holding, Goto
<1>0. queue \in Seq(WorkItem)
  BY DEF TypeInv, TypeOK
<1>1. CASE WorkerRecv
  <2>1. /\ pc[Worker] = "recv" /\ queue # <<>> /\ queue' = Tail(queue)
        /\ UNCHANGED <<active, ops, nextOp, job, target, fin>>
    BY <1>1 DEF WorkerRecv, registries
  <2>2. CASE Head(queue) = Stop \/ shutdown
    <3>1. pc' = [pc EXCEPT ![Worker] = "exit"]
      BY <1>1, <2>2 DEF WorkerRecv
    <3> QED BY <2>1, <3>1, WorkerFrame
  <2>3. CASE ~(Head(queue) = Stop \/ shutdown)
    <3>1. pc' = [pc EXCEPT ![Worker] = "dispatch"] /\ cur' = Head(queue)
      BY <1>1, <2>3 DEF WorkerRecv
    <3>2. \A r : Queued(r) => Queued(r)' \/ cur'.id = r
      BY <1>0, <2>1, <3>1, QueuedTail
    <3>3. \A r : HeldByThread(r)' <=> HeldByThread(r)
      BY <2>1, <3>1, WorkerFrame
    <3>4. \A r : (Withdrawing(r)' <=> Withdrawing(r)) /\ (HasOp(r)' <=> HasOp(r))
      BY <2>1, <3>1, WorkerFrame, QuietFrame
    <3>5. pc'[Worker] = "dispatch"
      BY <2>1, <3>1, WorkerFrame
    <3> QED BY <2>1, <3>1, <3>2, <3>3, <3>4, <3>5
  <2> QED BY <2>2, <2>3
<1>2. CASE WorkerExit
  <2>1. pc' = [pc EXCEPT ![Worker] = "stopped"] /\ UNCHANGED <<ops, nextOp, job, target, fin>>
    BY <1>2 DEF WorkerExit, registries
  <2>2. pc[Worker] = "exit"
    BY <1>2 DEF WorkerExit
  <2> QED BY <2>1, <2>2, WorkerFrame
<1>3. CASE DrainQueued
  <2>1. /\ pc[Worker] = "drain" /\ queue # <<>> /\ queue' = Tail(queue)
        /\ pc' = [pc EXCEPT ![Worker] = "take"] /\ fin'.request = Head(queue).id
        /\ UNCHANGED <<active, ops, nextOp, job, target, cur>>
    BY <1>3 DEF DrainQueued, Answer, registries
  <2>2. \A r : Queued(r) => Queued(r)' \/ fin'.request = r
    BY <1>0, <2>1, QueuedTail
  <2>3. \A r : HeldByThread(r)' <=> HeldByThread(r)
    BY <2>1, WorkerFrame
  <2>4. \A r : (Withdrawing(r)' <=> Withdrawing(r)) /\ (HasOp(r)' <=> HasOp(r))
    BY <2>1, WorkerFrame, QuietFrame
  <2>5. pc'[Worker] = "take"
    BY <2>1, WorkerFrame
  <2> QED BY <2>1, <2>2, <2>3, <2>4, <2>5
<1>4. CASE DrainDone
  <2>1. /\ pc[Worker] = "drain" /\ pc' = [pc EXCEPT ![Worker] = "exit"]
        /\ UNCHANGED <<active, ops, nextOp, job, target, fin>>
    BY <1>4 DEF DrainDone, registries, working
  <2> QED BY <2>1, WorkerFrame
<1>5. CASE Dispatch
  <2>1. /\ pc[Worker] = "dispatch" /\ UNCHANGED <<active, ops, nextOp, queue, job, target, cur>>
        /\ \/ pc' = [pc EXCEPT ![Worker] = "take"] /\ fin'.request = cur.id
           \/ pc' = [pc EXCEPT ![Worker] = "execute"]
    BY <1>5 DEF Dispatch, Answer, channel
  <2>2. CASE pc' = [pc EXCEPT ![Worker] = "take"] /\ fin'.request = cur.id
    BY <2>1, <2>2, WorkerFrame, QuietFrame
  <2>3. CASE pc' = [pc EXCEPT ![Worker] = "execute"]
    BY <2>1, <2>3, WorkerFrame, QuietFrame
  <2> QED BY <2>1, <2>2, <2>3
<1> QED BY <1>1, <1>2, <1>3, <1>4, <1>5

LEMMA ExecuteFrame ==
  ASSUME ExecuteAtOnce \/ ExecuteRemote \/ ExecuteHost \/ ExecuteCancel \/ ExecuteReply
  PROVE  pc[Worker] = "execute" /\ UNCHANGED <<ops, nextOp, queue, job, cur>>
<1>1. CASE ExecuteAtOnce
  BY <1>1 DEF Executing, ExecuteAtOnce, registries, channel
<1>2. CASE ExecuteRemote
  BY <1>2 DEF Executing, ExecuteRemote, registries, channel
<1>3. CASE ExecuteHost
  BY <1>3 DEF Executing, ExecuteHost, registries, channel
<1>4. CASE ExecuteCancel
  BY <1>4 DEF Executing, ExecuteCancel, registries, channel
<1>5. CASE ExecuteReply
  BY <1>5 DEF Executing, ExecuteReply, registries, channel, working
<1> QED BY <1>1, <1>2, <1>3, <1>4, <1>5

LEMMA ExecuteOrphanInv ==
  ASSUME TypeInv, OrphanInv,
         ExecuteAtOnce \/ ExecuteRemote \/ ExecuteHost \/ ExecuteCancel \/ ExecuteReply
  PROVE  OrphanInv'
<1> USE DEF OrphanInv, ServedInv, OpsInv, CollectedInv, Finishing, Served, InHand, InFin, HandLabels, Linking,
            CancelLabels, Registered, Holding, Goto
<1>0. pc[Worker] = "execute" /\ UNCHANGED <<ops, nextOp, queue, job, cur>>
  BY ExecuteFrame
<1>1. CASE ExecuteAtOnce \/ ExecuteRemote \/ ExecuteHost
  <2>1. /\ fin'.request = cur.id /\ UNCHANGED <<active, target>>
        /\ \E l \in {"take", "retire", "register"} : pc' = [pc EXCEPT ![Worker] = l]
    BY <1>1 DEF ExecuteAtOnce, ExecuteRemote, ExecuteHost, Answer, registries
  <2> QED BY <1>0, <2>1, WorkerFrame, QuietFrame
<1>2. CASE ExecuteCancel
  <2>1. CASE cur.arg = cur.id \/ cur.arg \notin active
    <3>1. /\ fin'.request = cur.id /\ pc' = [pc EXCEPT ![Worker] = "take"]
          /\ UNCHANGED <<active, target>>
      BY <1>2, <2>1 DEF ExecuteCancel, Answer, registries
    <3> QED BY <1>0, <3>1, WorkerFrame, QuietFrame
  <2>2. CASE ~(cur.arg = cur.id \/ cur.arg \notin active)
    <3>1. /\ pc' = [pc EXCEPT ![Worker] = "mark"] /\ target' = [target EXCEPT ![Worker] = cur.arg]
          /\ UNCHANGED <<active, fin>>
      BY <1>2, <2>2 DEF ExecuteCancel, registries
    <3>2. /\ pc'[Worker] = "mark"
          /\ \A t \in Threads : t # Worker /\ pc'[t] = pc[t] /\ target'[t] = target[t]
      BY <3>1, RuntimeAssumption DEF TypeInv, TypeOK, Procs
    <3>3. \A r : HeldByThread(r)' <=> HeldByThread(r)
      BY <1>0, <3>2 DEF HeldByThread
    <3>4. \A r : Withdrawing(r) => Withdrawing(r)'
      BY <1>0, <3>2 DEF Withdrawing, Withdrawn, Procs
    <3> QED BY <1>0, <3>1, <3>2, <3>3, <3>4, QuietFrame
  <2> QED BY <2>1, <2>2
<1>3. CASE ExecuteReply
  <2>1. /\ active' = active \ {cur.id} /\ pc' = [pc EXCEPT ![Worker] = "claim"]
        /\ UNCHANGED <<target, fin>>
    BY <1>3 DEF ExecuteReply, working
  <2> QED BY <1>0, <2>1, WorkerFrame, QuietFrame
<1> QED BY <1>1, <1>2, <1>3

LEMMA ShutdownOrphanInv ==
  ASSUME TypeInv, OrphanInv, ShutdownStep
  PROVE  OrphanInv'
<1> USE RuntimeAssumption DEF TypeInv, TypeOK, ControlOK, OrphanInv, ServedInv, OpsInv, CollectedInv,
        registries, channel, latch, working, history, Goto, Procs, Finishing, Served, HeldByThread, InHand, InFin,
        HasOp, Withdrawing, SendLabels, CancelLabels, Withdrawn, Holding, Registered, Queued, HandLabels, Linking
<1>1. CASE ShutdownLatch
  BY <1>1 DEF ShutdownLatch, Executing
<1>2. CASE ShutdownCollect
  BY <1>2 DEF ShutdownCollect
<1>3. CASE ShutdownDropOps
  <2>1. /\ pc[Worker] = "dropOps" /\ pc' = [pc EXCEPT ![Worker] = "forget"]
        /\ UNCHANGED <<active, cancelled, nextOp, channel, latch, job, target, cur, fin, history>>
        /\ ops' = Without(OthersOps(cur.id))
    BY <1>3 DEF ShutdownDropOps
  <2>2. \A o \in OpIds : ops'[o] = ops[o] \/ ops'[o] = NoOp
    BY <2>1 DEF Without
  <2>3. \A r \in active : Served(r)'
    BY <2>1
  <2> QED BY <2>1, <2>2, <2>3
<1>4. CASE ShutdownForget
  BY <1>4 DEF ShutdownForget
<1>5. CASE ShutdownAnswer
  BY <1>5 DEF ShutdownAnswer, Answer
<1>6. CASE \E r \in RequestIds : ShutdownNotify(r)
  BY <1>6 DEF ShutdownNotify
<1> QED BY <1>1, <1>2, <1>3, <1>4, <1>5, <1>6 DEF ShutdownStep

LEMMA OperationOrphanInv ==
  ASSUME TypeInv, OrphanInv,
         ClaimMissing \/ ClaimOperation \/ Register \/ RegisterRecheck \/ Unregister \/ HostRequest
  PROVE  OrphanInv'
<1> USE DEF OrphanInv, ServedInv, OpsInv, CollectedInv, Finishing, Served, InHand, InFin, HandLabels, Linking,
            CancelLabels, Registered, Holding, Goto
<1>0. UNCHANGED <<active, queue, job, target>>
  BY DEF ClaimMissing, ClaimOperation, Register, RegisterRecheck, Unregister, HostRequest, registries, channel
<1>1. CASE ClaimMissing
  <2>1. /\ pc[Worker] = "claim" /\ pc' = [pc EXCEPT ![Worker] = "emit"]
        /\ UNCHANGED <<ops, nextOp, cur>>
    BY <1>1 DEF ClaimMissing, registries
  <2>2. pc'[Worker] = "emit"
        /\ \A r : /\ HeldByThread(r)' <=> HeldByThread(r)
                  /\ Withdrawing(r)' <=> Withdrawing(r)
                  /\ Queued(r)' <=> Queued(r)
                  /\ HasOp(r)' <=> HasOp(r)
    BY <1>0, <2>1, QuietStep
  <2> QED BY <1>0, <2>1, <2>2
<1>2. CASE ClaimOperation
  <2>1. /\ pc[Worker] = "claim" /\ UNCHANGED <<nextOp, cur>> /\ ops' = Without({cur.arg})
        /\ fin'.request = ops[cur.arg].request
        /\ \E l \in {"take", "register"} : pc' = [pc EXCEPT ![Worker] = l]
    BY <1>2 DEF ClaimOperation, Answer, Continuations
  <2>2. \A r : HasOp(r) => HasOp(r)' \/ fin'.request = r
    BY <2>1 DEF HasOp, Without
  <2>3. \A o \in OpIds : o >= nextOp => ops'[o] = NoOp
    BY <2>1 DEF Without
  <2> QED BY <1>0, <2>1, <2>2, <2>3, WorkerFrame, QuietFrame
<1>3. CASE Register
  <2>1. /\ pc[Worker] = "register" /\ pc' = [pc EXCEPT ![Worker] = "recheck"]
        /\ nextOp' = nextOp + 1 /\ UNCHANGED <<cur, fin>> /\ nextOp \in OpIds
    BY <1>3 DEF Register, working, TypeInv, TypeOK, ControlOK, OpIds
  <2>2. /\ ops'[nextOp].request = fin.request
        /\ \A o \in OpIds \ {nextOp} : ops'[o] = ops[o]
    BY <1>3, <2>1 DEF Register, TypeInv, TypeOK
  <2>5. fin.request \in RequestIds /\ ops[nextOp] = NoOp
    BY <1>3, <2>1 DEF Register, TypeInv, TypeOK, ControlOK
  <2>6. NoOp.request = None /\ None \notin RequestIds
    BY RuntimeAssumption DEF NoOp
  <2>3. \A r \in RequestIds : HasOp(r) \/ fin.request = r => HasOp(r)'
    BY <2>1, <2>2, <2>5, <2>6 DEF HasOp
  <2>4. OpsInv'
    BY <2>1, <2>2, RuntimeAssumption DEF OpIds
  <2>7. pc'[Worker] = "recheck" /\ active' \subseteq RequestIds
        /\ \A r : /\ HeldByThread(r)' <=> HeldByThread(r)
                  /\ Withdrawing(r)' <=> Withdrawing(r)
                  /\ Queued(r)' <=> Queued(r)
    BY <1>0, <2>1, WorkerFrame, QuietFrame DEF TypeInv, TypeOK
  <2> QED BY <1>0, <2>1, <2>3, <2>4, <2>7
<1>4. CASE RegisterRecheck
  <2>1. /\ pc[Worker] = "recheck" /\ UNCHANGED <<ops, nextOp, cur, fin>>
        /\ \E l \in {"unregister", "request"} : pc' = [pc EXCEPT ![Worker] = l]
    BY <1>4 DEF RegisterRecheck, working
  <2>2. PICK l \in {"unregister", "request"} : pc' = [pc EXCEPT ![Worker] = l]
    BY <2>1
  <2>3. pc'[Worker] = l
        /\ \A r : /\ HeldByThread(r)' <=> HeldByThread(r)
                  /\ Withdrawing(r)' <=> Withdrawing(r)
                  /\ Queued(r)' <=> Queued(r)
                  /\ HasOp(r)' <=> HasOp(r)
    BY <1>0, <2>1, <2>2, QuietStep
  <2> QED BY <1>0, <2>1, <2>3
<1>5. CASE Unregister
  <2>1. /\ pc[Worker] = "unregister" /\ pc' = [pc EXCEPT ![Worker] = "take"]
        /\ ops' = Without({nextOp - 1}) /\ fin'.request = fin.request /\ UNCHANGED <<nextOp, cur>>
    BY <1>5 DEF Unregister, Answer
  <2>2. nextOp - 1 \in OpIds /\ (ops[nextOp - 1] = NoOp \/ ops[nextOp - 1].request = fin.request)
    BY <2>1, RuntimeAssumption DEF TypeInv, TypeOK, ControlOK, OpIds
  <2>3. NoOp.request = None /\ None \notin RequestIds
    BY RuntimeAssumption DEF NoOp
  <2>4. /\ \A o \in OpIds : o >= nextOp => ops'[o] = NoOp
        /\ \A r \in RequestIds : HasOp(r) => HasOp(r)' \/ fin.request = r
    BY <2>1, <2>2, <2>3, WithoutOps
  <2>5. pc'[Worker] = "take" /\ active' \subseteq RequestIds
        /\ \A r : /\ HeldByThread(r)' <=> HeldByThread(r)
                  /\ Withdrawing(r)' <=> Withdrawing(r)
                  /\ Queued(r)' <=> Queued(r)
    BY <1>0, <2>1, WorkerFrame, QuietFrame DEF TypeInv, TypeOK
  <2> QED BY <1>0, <2>1, <2>4, <2>5
<1>6. CASE HostRequest
  <2>1. /\ pc[Worker] = "request" /\ UNCHANGED <<ops, nextOp>>
        /\ \E l \in {"drain", "recv"} : pc' = [pc EXCEPT ![Worker] = l]
    BY <1>6 DEF HostRequest, Return, registries
  <2>2. PICK l \in {"drain", "recv"} : pc' = [pc EXCEPT ![Worker] = l]
    BY <2>1
  <2>3. pc'[Worker] = l
        /\ \A r : /\ HeldByThread(r)' <=> HeldByThread(r)
                  /\ Withdrawing(r)' <=> Withdrawing(r)
                  /\ Queued(r)' <=> Queued(r)
                  /\ HasOp(r)' <=> HasOp(r)
    BY <1>0, <2>1, <2>2, QuietStep
  <2> QED BY <1>0, <2>1, <2>3
<1> QED BY <1>1, <1>2, <1>3, <1>4, <1>5, <1>6

LEMMA FinishOrphanInv ==
  ASSUME TypeInv, OrphanInv, FinishTake \/ FinishRetire \/ FinishEmit
  PROVE  OrphanInv'
<1> USE DEF OrphanInv, ServedInv, OpsInv, CollectedInv, Finishing, Served, InHand, InFin, HandLabels, Linking,
            CancelLabels, Registered, Holding, Goto
<1>0. UNCHANGED <<ops, nextOp, queue, job, target>>
  BY DEF FinishTake, FinishRetire, FinishEmit, registries, channel
<1>1. CASE FinishTake
  <2>1. /\ pc[Worker] = "take" /\ pc' = [pc EXCEPT ![Worker] = "retire"]
        /\ fin'.request = fin.request /\ UNCHANGED <<active, cur>>
    BY <1>1 DEF FinishTake, Answer
  <2>2. pc'[Worker] = "retire"
        /\ \A r : /\ HeldByThread(r)' <=> HeldByThread(r)
                  /\ Withdrawing(r)' <=> Withdrawing(r)
                  /\ Queued(r)' <=> Queued(r)
                  /\ HasOp(r)' <=> HasOp(r)
    BY <1>0, <2>1, QuietStep
  <2> QED BY <1>0, <2>1, <2>2
<1>2. CASE FinishRetire
  <2>1. /\ pc[Worker] = "retire" /\ pc' = [pc EXCEPT ![Worker] = "emit"]
        /\ active' = active \ {fin.request} /\ UNCHANGED <<cur, fin>>
    BY <1>2 DEF FinishRetire, working
  <2>2. pc'[Worker] = "emit"
        /\ \A r : /\ HeldByThread(r)' <=> HeldByThread(r)
                  /\ Withdrawing(r)' <=> Withdrawing(r)
                  /\ Queued(r)' <=> Queued(r)
                  /\ HasOp(r)' <=> HasOp(r)
    BY <1>0, <2>1, QuietStep
  <2> QED BY <1>0, <2>1, <2>2
<1>3. CASE FinishEmit
  <2>1. /\ pc[Worker] = "emit" /\ UNCHANGED active
        /\ \E l \in {"drain", "recv"} : pc' = [pc EXCEPT ![Worker] = l]
    BY <1>3 DEF FinishEmit, Return, registries
  <2>2. PICK l \in {"drain", "recv"} : pc' = [pc EXCEPT ![Worker] = l]
    BY <2>1
  <2>3. pc'[Worker] = l
        /\ \A r : /\ HeldByThread(r)' <=> HeldByThread(r)
                  /\ Withdrawing(r)' <=> Withdrawing(r)
                  /\ Queued(r)' <=> Queued(r)
                  /\ HasOp(r)' <=> HasOp(r)
    BY <1>0, <2>1, <2>2, QuietStep
  <2> QED BY <1>0, <2>1, <2>3
<1> QED BY <1>1, <1>2, <1>3

LEMMA DestroyOrphanInv ==
  ASSUME TypeInv, OrphanInv, DestroyStep
  PROVE  OrphanInv'
<1> USE RuntimeAssumption DEF TypeInv, TypeOK, OrphanInv, ServedInv, OpsInv, CollectedInv,
        registries, channel, latch, working, history, Finishing, Served, HeldByThread, InHand, InFin,
        HasOp, Withdrawing
<1>1. CASE DestroyBegin
  BY <1>1 DEF DestroyBegin, Queued
<1>2. CASE DestroySignal
  <2>1. \A r : Queued(r) => Queued(r)'
    <3>1. CASE rxOpen
      BY <1>2, <3>1, QueuedAppend DEF DestroySignal, WorkItem
    <3>2. CASE ~rxOpen
      BY <1>2, <3>2, QuietFrame DEF DestroySignal
    <3> QED BY <3>1, <3>2
  <2> QED BY <1>2, <2>1 DEF DestroySignal
<1>3. CASE DestroyJoin
  BY <1>3 DEF DestroyJoin, Queued
<1> QED BY <1>1, <1>2, <1>3 DEF DestroyStep

LEMMA NextOrphanInv == TypeInv /\ OrphanInv /\ [Next]_vars => OrphanInv'
<1> SUFFICES ASSUME TypeInv, OrphanInv, [Next]_vars PROVE OrphanInv'
  OBVIOUS
<1>1. CASE WorkerStep
  <2>1. Worker \in Procs
    BY DEF Procs
  <2> QED BY <1>1, <2>1, LoopOrphanInv, ExecuteOrphanInv, OperationOrphanInv, FinishOrphanInv,
             ShutdownOrphanInv, CancelOrphanInv DEF WorkerStep
<1>2. CASE DestroyStep
  BY <1>2, DestroyOrphanInv
<1>3. ASSUME NEW t \in Threads, ThreadStep(t) \/ ThreadCall(t) PROVE OrphanInv'
  <2>1. t \in Procs
    BY DEF Procs
  <2>2. CASE ThreadStep(t)
    BY <2>1, <2>2, SendOrphanInv, CancelOrphanInv DEF ThreadStep
  <2>3. CASE \E r \in RequestIds : \E c \in Commands(r) : SendBegin(t, c)
    BY <2>3, SendOrphanInv
  <2>4. CASE \E r \in RequestIds : CancelBegin(t, r)
    <3>1. /\ pc[t] = "idle" /\ pc' = [pc EXCEPT ![t] = "mark"]
          /\ \A p \in Procs \ {t} : target'[p] = target[p]
          /\ UNCHANGED <<active, ops, nextOp, queue, job, cur, fin>>
      BY <2>1, <2>4
      DEF CancelBegin, Goto, registries, channel, working, TypeInv, TypeOK
    <3>2. /\ pc'[t] = "mark" /\ pc'[Worker] = pc[Worker]
          /\ \A p \in Procs \ {t} : pc'[p] = pc[p]
      BY <3>1, ThreadFrame
    <3>3. ASSUME NEW r PROVE /\ HeldByThread(r) => HeldByThread(r)'
                             /\ Withdrawing(r) => Withdrawing(r)'
      BY <3>1, <3>2 DEF HeldByThread, Withdrawing, Withdrawn, Procs
    <3> QED BY <3>1, <3>2, <3>3, QuietFrame
        DEF OrphanInv, ServedInv, OpsInv, CollectedInv, Finishing, Served, InHand, InFin
  <2> QED BY <1>3, <2>2, <2>3, <2>4 DEF ThreadCall
<1>4. CASE UNCHANGED vars
  BY <1>4 DEF vars, registries, channel, working, OrphanInv, ServedInv, OpsInv, CollectedInv,
     Finishing, Served, InHand, InFin, HeldByThread, Withdrawing, Queued, HasOp
<1> QED BY <1>1, <1>2, <1>3, <1>4 DEF Next

LEMMA AlwaysOrphanInv == Spec => []OrphanInv
<1>1. Init => OrphanInv
  BY RuntimeAssumption DEF Init, OrphanInv, ServedInv, OpsInv, CollectedInv, Procs, Registered
<1>2. TypeInv /\ OrphanInv /\ [Next]_vars => OrphanInv'
  BY NextOrphanInv
<1> QED BY <1>1, <1>2, AlwaysTypeInv, PTL DEF Spec

\* No request is stranded, whatever races between send, cancel, the worker, a
\* runtime.shutdown and the destruction of the runtime: while the worker runs, an
\* id that send would turn down as a duplicate has something left to release it.
THEOREM NoRequestStranded == Spec => []NoOrphan
<1>1. OrphanInv => NoOrphan
  BY DEF OrphanInv, ServedInv, Served, NoOrphan, Tracked, HeldByThread, InHand, InFin, HasOp,
     Withdrawing, Withdrawn
<1> QED BY <1>1, AlwaysOrphanInv, PTL
=============================================================================
