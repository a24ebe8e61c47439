-------------------------- MODULE FreshRequestProofs --------------------------
(***************************************************************************)
(* The life of a request whose id is used once: theorems about             *)
(* ReaderRuntime for a host that keeps its request ids fresh (FreshIds).   *)
(* send turns down only the ids of requests that are still active, so the  *)
(* rest is up to the host. The sets of ids and threads, the menu and the   *)
(* number of host operations are arbitrary.                                *)
(***************************************************************************)
EXTENDS ReaderRuntimeProofs

FreshIds == \A r \in RequestIds : MaxUses[r] <= 1

Live(r) == HeldByThread(r) \/ Queued(r) \/ InHand(r) \/ InFin(r) \/ HasOp(r)
Dead(r) == answers[r]["cancelled"] > 0 \/ r \in doomed \/ Cancelling(r)

\* The worker has collected the ids of a shutdown, or stops.
Collected ==
  \/ pc[Worker] \in {"dropOps", "forget", "notifyAll", "drain", "exit", "stopped"}
  \/ pc[Worker] \in FinishLabels /\ cur.method = "shutdown" /\ shutdown

(***************************************************************************)
(* The latch, the stop item (the only one queued without an id) and the    *)
(* end of the worker.                                                      *)
(***************************************************************************)
StopInv ==
  /\ life # "running" => shutdown
  /\ Queued(None) => life \in {"signalled", "destroyed"}
  /\ pc[Worker] \in Collecting \union {"exit", "stopped"} => shutdown
  /\ pc[Worker] \in Collecting => cur.method = "shutdown"
  /\ pc[Worker] = "register" => fin.event = "outcome"
  /\ rxOpen = (pc[Worker] # "stopped")
  /\ doomed # {} => pc[Worker] \in {"dropOps", "forget", "notifyAll"}

(***************************************************************************)
(* One sender of an id, and one use of it.                                 *)
(***************************************************************************)
Unused(r) ==
  /\ accepts[r] = 0 /\ r \notin active
  /\ \A e \in Events : answers[r][e] = 0
  /\ r \notin delivered \union acked \union owed

SenderInv ==
  /\ \A t \in Threads : pc[t] \notin SendLabels => job[t] = NoCommand
  /\ \A t, u \in Threads : job[t].id \in RequestIds /\ job[t].id = job[u].id => t = u
  /\ \A t \in Threads : pc[t] = "reserve" => Unused(job[t].id)

UsedOnce(r) ==
  /\ accepts[r] \in {0, 1}
  /\ accepts[r] = 0 /\ ~shutdown => Unused(r)
  /\ Live(r) \/ Cancelling(r) \/ r \in doomed => accepts[r] = 1

(***************************************************************************)
(* A request is in one place.                                              *)
(***************************************************************************)
QueueOnce ==
  \A i, j \in 1..Len(queue) : queue[i].id \in RequestIds /\ queue[i].id = queue[j].id => i = j

OpsOnce ==
  /\ \A o, q \in OpIds : Pending(o) /\ ops[o].request = ops[q].request => o = q
  /\ pc[Worker] \in Registered =>
       /\ HasOp(fin.request) \/ Dead(fin.request)
       /\ \A o \in OpIds : ops[o].request = fin.request => o = nextOp - 1

OnePlace(r) ==
  /\ HeldByThread(r) => ~Queued(r) /\ ~InHand(r) /\ ~InFin(r) /\ ~HasOp(r)
  /\ Queued(r) => ~InHand(r) /\ ~InFin(r) /\ ~HasOp(r)
  /\ InHand(r) => ~HasOp(r)
  /\ InFin(r) /\ HasOp(r) => pc[Worker] \in Registered

\* A request that is alive has no answer; one whose CANCELLED is out or on its way
\* can get no result any more.
OneAnswer(r) ==
  /\ Live(r) \/ Dead(r) => answers[r]["outcome"] = 0 /\ r \notin delivered
  /\ Cancelling(r) => ~HeldByThread(r) /\ ~Queued(r)
  /\ Dead(r) =>
       /\ HeldByThread(r) \/ Queued(r) => Collected
       /\ ~InHand(r)
       /\ InFin(r) => fin.event = "cancelled" \/ pc[Worker] \in Registered
       /\ HasOp(r) => pc[Worker] = "dropOps"

\* The id is reserved as long as the request is alive.
Reserved(r) ==
  /\ ~Collected => (HeldByThread(r) \/ Queued(r) => r \in active)
  /\ InHand(r) /\ pc[Worker] # "claim" => r \in active
  /\ InFin(r) /\ pc[Worker] = "register" => r \in active
  /\ HasOp(r) => r \in active \/ pc[Worker] = "dropOps"

(***************************************************************************)
(* What a confirmed cancel leaves behind.                                  *)
(***************************************************************************)
Blocked(r) == HeldByThread(r) \/ Queued(r) => r \in cancelled \/ Collected

NoResult(r) ==
  /\ Blocked(r)
  /\ InHand(r) => pc[Worker] = "dispatch" /\ r \in cancelled
  /\ InFin(r) => fin.event = "cancelled" \/ pc[Worker] \in Registered
  /\ HasOp(r) => pc[Worker] = "dropOps"

AckHolds(r) ==
  r \in acked =>
    /\ answers[r]["outcome"] = 0
    /\ \/ NoResult(r)
       \/ pc[Worker] = "mark" /\ target[Worker] = r /\ cur.id # r
       \/ pc[Worker] = "unlink" /\ target[Worker] = r /\ cur.id # r /\ Blocked(r)

(***************************************************************************)
(* What is owed to a request when a runtime.shutdown takes effect.         *)
(***************************************************************************)
Answered(r) == \E e \in Events : answers[r][e] > 0

Due(r) ==
  life = "running" /\ r \in owed =>
    \/ Answered(r) \/ r \in delivered \/ r \in doomed \/ Cancelling(r)
    \/ Queued(r) /\ ~Finishing
    \/ InHand(r) \/ InFin(r) \/ HasOp(r)

NoneWaits ==
  life = "running" /\ shutdown /\ pc[Worker] \notin {"collect", "dropOps"} =>
    \A o \in OpIds : ~Pending(o)

Fresh(r) ==
  UsedOnce(r) /\ OnePlace(r) /\ OneAnswer(r) /\ Reserved(r) /\ AckHolds(r) /\ Due(r)

FreshInv ==
  /\ StopInv /\ SenderInv /\ QueueOnce /\ OpsOnce /\ NoneWaits
  /\ \A r \in RequestIds : Fresh(r)

-----------------------------------------------------------------------------
(***************************************************************************)
(* StopInv.                                                                *)
(***************************************************************************)
LEMMA WorkerStopInv ==
  ASSUME TypeInv, LatchInv, StopInv, WorkerStep
  PROVE  StopInv'
<1> USE RuntimeAssumption DEF StopInv, Goto, latch, Collecting, channel, registries, working
<1>0. /\ queue \in Seq(WorkItem)
      /\ pc \in [Procs -> {"idle"} \union SendLabels \union CancelLabels \union WorkerLabels]
      /\ Worker \in Procs
  BY DEF TypeInv, TypeOK, Procs
<1>1. CASE WorkerRecv
  <2>1. queue # <<>> /\ queue' = Tail(queue) /\ UNCHANGED <<latch, rxOpen, fin, doomed>>
    BY <1>1 DEF WorkerRecv
  <2>2. Queued(None)' => Queued(None)
    BY <1>0, <2>1, QueuedTail
  <2>3. Head(queue) = Stop => Queued(None)
    BY <1>0, <2>1 DEF Queued, Stop
  <2>4. pc[Worker] = "recv" /\ \/ pc'[Worker] = "exit" /\ (Head(queue) = Stop \/ shutdown)
                               \/ pc'[Worker] = "dispatch"
    BY <1>0, <1>1 DEF WorkerRecv
  <2> QED BY <2>1, <2>2, <2>3, <2>4
<1>2. CASE WorkerExit
  <2>1. pc[Worker] = "exit" /\ pc'[Worker] = "stopped" /\ rxOpen' = FALSE /\ queue' = <<>>
        /\ UNCHANGED <<latch, doomed>>
    BY <1>0, <1>2 DEF WorkerExit
  <2>2. ~Queued(None)'
    BY <2>1 DEF Queued
  <2> QED BY <2>1, <2>2
<1>3. CASE DrainQueued
  <2>1. queue # <<>> /\ queue' = Tail(queue) /\ UNCHANGED <<latch, rxOpen, doomed>>
        /\ pc[Worker] = "drain" /\ pc'[Worker] = "take"
    BY <1>0, <1>3 DEF DrainQueued
  <2>2. Queued(None)' => Queued(None)
    BY <1>0, <2>1, QueuedTail
  <2> QED BY <2>1, <2>2
<1>4. CASE DrainDone \/ Dispatch
  <2>1. UNCHANGED <<channel, latch, doomed, cur>>
    BY <1>4 DEF DrainDone, Dispatch
  <2>2. \/ pc[Worker] = "drain" /\ pc'[Worker] = "exit"
        \/ pc[Worker] = "dispatch" /\ pc'[Worker] \in {"take", "execute"}
    BY <1>0, <1>4 DEF DrainDone, Dispatch
  <2> QED BY <2>1, <2>2, QuietFrame
<1>5. CASE ExecuteAtOnce \/ ExecuteRemote \/ ExecuteHost \/ ExecuteCancel \/ ExecuteReply
  <2>1. UNCHANGED <<channel, latch, doomed>>
    BY <1>5 DEF ExecuteAtOnce, ExecuteRemote, ExecuteHost, ExecuteCancel, ExecuteReply
  <2>2. /\ pc[Worker] = "execute"
        /\ \/ pc'[Worker] \in {"take", "retire", "mark", "claim"}
           \/ pc'[Worker] = "register" /\ fin'.event = "outcome"
    BY <1>0, <1>5
    DEF ExecuteAtOnce, ExecuteRemote, ExecuteHost, ExecuteCancel, ExecuteReply, Executing, Answer
  <2> QED BY <2>1, <2>2, QuietFrame
<1>6. CASE ClaimMissing \/ ClaimOperation
  <2>1. UNCHANGED <<channel, latch, doomed>>
    BY <1>6 DEF ClaimMissing, ClaimOperation
  <2>2. /\ pc[Worker] = "claim"
        /\ \/ pc'[Worker] \in {"emit", "take"}
           \/ pc'[Worker] = "register" /\ fin'.event = "outcome"
    BY <1>0, <1>6 DEF ClaimMissing, ClaimOperation, Continuations, Answer
  <2> QED BY <2>1, <2>2, QuietFrame
<1>7. CASE Register \/ RegisterRecheck \/ Unregister
  <2>1. UNCHANGED <<channel, latch, doomed>>
    BY <1>7 DEF Register, RegisterRecheck, Unregister
  <2>2. /\ pc[Worker] \in {"register"} \union Registered
        /\ pc'[Worker] \in Registered \union {"take"}
    BY <1>0, <1>7 DEF Register, RegisterRecheck, Unregister, Registered
  <2> QED BY <2>1, <2>2, QuietFrame DEF Registered
<1>8. CASE HostRequest \/ FinishEmit
  <2>1. UNCHANGED <<channel, latch, doomed>>
    BY <1>8 DEF HostRequest, FinishEmit
  <2>2. /\ pc[Worker] \in {"request", "emit"}
        /\ \/ pc'[Worker] = "recv"
           \/ pc'[Worker] = "drain" /\ shutdown /\ cur' = cur /\ cur.method = "shutdown"
    BY <1>0, <1>8 DEF HostRequest, FinishEmit, Return
  <2> QED BY <2>1, <2>2, QuietFrame
<1>9. CASE FinishTake \/ FinishRetire
  <2>1. UNCHANGED <<channel, latch, doomed>>
    BY <1>9 DEF FinishTake, FinishRetire
  <2>2. pc[Worker] \in {"take", "retire"} /\ pc'[Worker] \in {"retire", "emit"}
    BY <1>0, <1>9 DEF FinishTake, FinishRetire
  <2> QED BY <2>1, <2>2, QuietFrame
<1>10. CASE ShutdownStep
  <2>1. UNCHANGED <<channel, life, cur>> /\ (shutdown => shutdown')
    BY <1>10 DEF ShutdownStep, ShutdownLatch, ShutdownCollect, ShutdownDropOps, ShutdownForget,
       ShutdownAnswer, ShutdownNotify
  <2>2. \/ /\ pc[Worker] = "execute" /\ pc'[Worker] = "collect"
           /\ cur.method = "shutdown" /\ shutdown' /\ doomed' = doomed
        \/ pc[Worker] = "collect" /\ pc'[Worker] = "dropOps"
        \/ pc[Worker] = "dropOps" /\ pc'[Worker] = "forget"
        \/ pc[Worker] = "forget" /\ pc'[Worker] = "notifyAll" /\ doomed' = doomed
        \/ pc[Worker] = "notifyAll" /\ pc'[Worker] = "take" /\ doomed = {} /\ doomed' = doomed
        \/ pc[Worker] = "notifyAll" /\ pc'[Worker] = "notifyAll"
    <3>1. CASE ShutdownLatch
      BY <1>0, <3>1 DEF ShutdownLatch, Executing
    <3>2. CASE ShutdownCollect \/ ShutdownDropOps \/ ShutdownForget
      BY <1>0, <3>2 DEF ShutdownCollect, ShutdownDropOps, ShutdownForget
    <3>3. CASE ShutdownAnswer \/ \E r \in RequestIds : ShutdownNotify(r)
      BY <1>0, <3>3 DEF ShutdownAnswer, ShutdownNotify
    <3> QED BY <1>10, <3>1, <3>2, <3>3 DEF ShutdownStep
  <2> QED BY <2>1, <2>2, QuietFrame
<1>11. CASE CancelStep(Worker)
  <2>1. UNCHANGED <<channel, latch, doomed>>
    BY <1>11 DEF CancelStep, CancelMark, CancelUnlink, CancelUnmark, CancelRelease, CancelNotify
  <2>2. pc[Worker] \in CancelLabels /\ pc'[Worker] \in CancelLabels \union {"take"}
    BY <1>0, <1>11
    DEF CancelStep, CancelMark, CancelUnlink, CancelUnmark, CancelRelease, CancelNotify,
        CancelDone, CancelLabels
  <2> QED BY <2>1, <2>2, QuietFrame DEF CancelLabels
<1> QED BY <1>1, <1>2, <1>3, <1>4, <1>5, <1>6, <1>7, <1>8, <1>9, <1>10, <1>11 DEF WorkerStep

LEMMA HostStopInv ==
  ASSUME TypeInv, StopInv,
         \/ DestroyStep \/ UNCHANGED vars
         \/ \E t \in Threads : ThreadStep(t) \/ ThreadCall(t)
  PROVE  StopInv'
<1> USE RuntimeAssumption DEF latch, channel, working
<1>0. queue \in Seq(WorkItem) /\ pc[Worker] \in WorkerLabels \union CancelLabels /\ life \in Lives
  BY DEF TypeInv, TypeOK, ControlOK
<1>1. CASE DestroyBegin
  <2>1. life = "running" /\ shutdown' /\ life' = "closing"
        /\ UNCHANGED <<channel, pc, working>>
    BY <1>1 DEF DestroyBegin
  <2> QED BY <2>1, QuietFrame DEF StopInv
<1>2. CASE DestroySignal
  BY <1>2 DEF DestroySignal, StopInv
<1>3. CASE DestroyJoin
  BY <1>3, QuietFrame DEF DestroyJoin, StopInv
<1>4. ASSUME NEW t \in Threads, ThreadStep(t) \/ ThreadCall(t) PROVE StopInv'
  <2>1. UNCHANGED <<rxOpen, latch, cur, fin, doomed>> /\ pc'[Worker] = pc[Worker]
    <3>1. CASE ThreadStep(t)
      BY <3>1 DEF ThreadStep, SendReserve, SendDuplicate, SendEnqueue, SendRefused, CancelStep,
         CancelMark, CancelUnlink, CancelUnmark, CancelRelease, CancelNotify, CancelDone, Goto,
         TypeInv, TypeOK, Procs
    <3>2. CASE ThreadCall(t)
      BY <3>2 DEF ThreadCall, CancelBegin, SendBegin, Goto, TypeInv, TypeOK, Procs
    <3> QED BY <1>4, <3>1, <3>2
  <2>2. Queued(None)' => Queued(None)
    <3>1. CASE SendEnqueue(t)
      <4>1. job[t] \in WorkItem /\ job[t].id # None /\ queue' = Append(queue, job[t])
        BY <3>1 DEF SendEnqueue, TypeInv, ControlOK, SendLabels, Command, WorkItem
      <4> QED BY <1>0, <4>1, QueuedAppend
    <3>2. CASE ~SendEnqueue(t)
      <4>1. queue' = queue
        BY <1>4, <3>2
        DEF ThreadStep, SendReserve, SendDuplicate, SendRefused, CancelStep, CancelMark,
            CancelUnlink, CancelUnmark, CancelRelease, CancelNotify, ThreadCall, CancelBegin,
            SendBegin
      <4> QED BY <4>1, QuietFrame
    <3> QED BY <3>1, <3>2
  <2> QED BY <2>1, <2>2 DEF StopInv
<1>5. CASE UNCHANGED vars
  BY <1>5, QuietFrame DEF vars, StopInv
<1> QED BY <1>1, <1>2, <1>3, <1>4, <1>5 DEF DestroyStep

LEMMA NextStopInv == TypeInv /\ LatchInv /\ StopInv /\ [Next]_vars => StopInv'
BY WorkerStopInv, HostStopInv DEF Next

-----------------------------------------------------------------------------
(***************************************************************************)
(* FreshInv. First what the steps leave alone: a request that a step is not*)
(* about stays where it is.                                                *)
(***************************************************************************)
LEMMA DeadFrame ==
  ASSUME UNCHANGED <<answers, doomed>>, \A r : Cancelling(r)' <=> Cancelling(r)
  PROVE  \A r : Dead(r)' <=> Dead(r)
BY DEF Dead

LEMMA UnusedFrame ==
  ASSUME UNCHANGED <<accepts, answers, delivered, acked, owed>>, active' \subseteq active
  PROVE  \A r : Unused(r) => Unused(r)'
BY DEF Unused

\* The request does not move, as far as the queue, the operations and the host
\* threads say; where the worker has it is a matter of its label.
StaysPut(r) ==
  /\ HeldByThread(r)' <=> HeldByThread(r)
  /\ Cancelling(r)' <=> Cancelling(r)
  /\ Queued(r)' <=> Queued(r)
  /\ HasOp(r)' <=> HasOp(r)
  /\ Dead(r)' <=> Dead(r)
  /\ Unused(r) => Unused(r)'

seen == <<accepts, answers, acked, owed, delivered>>

\* A step of the worker that leaves the host threads, the queue and the operations
\* alone, and what the host has seen.
LEMMA QuietFresh ==
  ASSUME TypeInv, FreshInv, NEW l, pc' = [pc EXCEPT ![Worker] = l],
         {pc[Worker], l} \intersect {"unmark", "release", "notify"} = {},
         UNCHANGED <<ops, queue, job, target, doomed, seen>>, active' \subseteq active
  PROVE  SenderInv' /\ QueueOnce' /\ pc'[Worker] = l /\ \A r : StaysPut(r)
<1> USE DEF seen
<1>1. /\ pc'[Worker] = l
      /\ \A r : /\ HeldByThread(r)' <=> HeldByThread(r)
                /\ Cancelling(r)' <=> Cancelling(r)
                /\ Queued(r)' <=> Queued(r)
                /\ HasOp(r)' <=> HasOp(r)
  BY QuietStep
<1>2. \A r : (Dead(r)' <=> Dead(r)) /\ (Unused(r) => Unused(r)')
  BY <1>1, DeadFrame, UnusedFrame
<1>3. \A t \in Threads : pc'[t] = pc[t]
  BY RuntimeAssumption DEF TypeInv, TypeOK, Procs
<1>4. SenderInv'
  BY <1>2, <1>3 DEF FreshInv, SenderInv
<1>5. QueueOnce'
  BY DEF FreshInv, QueueOnce
<1> QED BY <1>1, <1>2, <1>4, <1>5 DEF StaysPut

LEMMA LoopQuietFresh ==
  ASSUME TypeInv, FreshInv, StopInv', DrainDone \/ Dispatch
  PROVE  FreshInv'
<1> USE DEF registries, channel, latch, working, history, Goto, seen
<1>1. CASE DrainDone
  <2>1. /\ pc[Worker] = "drain" /\ pc' = [pc EXCEPT ![Worker] = "exit"]
        /\ UNCHANGED <<ops, nextOp, queue, life, job, target, doomed, seen, active, cancelled,
                       shutdown, cur, fin>>
    BY <1>1 DEF DrainDone
  <2>2. SenderInv' /\ QueueOnce' /\ pc'[Worker] = "exit" /\ \A r : StaysPut(r)
    BY <2>1, QuietFresh
  <2>3. \A r : Queued(r) => life # "running"
    <3>1. queue \in Seq(WorkItem) /\ (queue # <<>> => queue[1] = Stop)
      BY <1>1 DEF DrainDone, TypeInv, TypeOK
    <3>2. ASSUME NEW r, Queued(r) PROVE Queued(None)
      BY <3>1, <3>2 DEF Queued, Stop
    <3> QED BY <3>2 DEF FreshInv, StopInv
  <2>4. ASSUME NEW r \in RequestIds PROVE Fresh(r)'
    BY <2>1, <2>2, <2>3
    DEF FreshInv, Fresh, UsedOnce, OnePlace, OneAnswer, Reserved, AckHolds, Due, StaysPut, Live,
        InHand, InFin, HandLabels, Linking, CancelLabels, Holding, Registered, FinishLabels,
        Collected, Blocked, NoResult, Answered, Finishing, Unused, seen
  <2>5. OpsOnce' /\ NoneWaits'
    BY <2>1, <2>2, <2>3 DEF FreshInv, OpsOnce, NoneWaits, Pending, Registered, StaysPut
  <2> QED BY <2>2, <2>4, <2>5 DEF FreshInv
<1>2. CASE Dispatch
  <2>1. /\ pc[Worker] = "dispatch" /\ cancelled' = cancelled \ {cur.id}
        /\ pc' = [pc EXCEPT ![Worker] = IF cur.id \in cancelled THEN "take" ELSE "execute"]
        /\ cur.id \in cancelled => fin' = [request |-> cur.id, event |-> "cancelled"]
        /\ UNCHANGED <<ops, nextOp, queue, life, job, target, doomed, seen, active, shutdown,
                       cur>>
    BY <1>2 DEF Dispatch, Answer
  <2>2. SenderInv' /\ QueueOnce' /\ pc'[Worker] = (IF cur.id \in cancelled THEN "take" ELSE "execute") /\ \A r : StaysPut(r)
    BY <2>1, QuietFresh
  <2>3. ASSUME NEW r \in RequestIds PROVE Fresh(r)'
    BY <2>1, <2>2
    DEF FreshInv, Fresh, UsedOnce, OnePlace, OneAnswer, Reserved, AckHolds, Due, StaysPut, Live,
        InHand, InFin, HandLabels, Linking, CancelLabels, Holding, Registered, FinishLabels,
        Collected, Blocked, NoResult, Answered, Finishing, Unused, seen
  <2>4. OpsOnce' /\ NoneWaits'
    BY <2>1, <2>2 DEF FreshInv, OpsOnce, NoneWaits, Pending, Registered, StaysPut
  <2> QED BY <2>2, <2>3, <2>4 DEF FreshInv
<1> QED BY <1>1, <1>2

LEMMA ExecuteQuietFresh ==
  ASSUME TypeInv, FreshInv, StopInv', ExecuteAtOnce \/ ExecuteRemote \/ ExecuteHost \/ ExecuteReply
  PROVE  FreshInv'
<1> USE DEF registries, channel, latch, working, history, Goto, seen
<1>1. CASE ExecuteAtOnce
  <2>1. /\ pc[Worker] = "execute" /\ pc' = [pc EXCEPT ![Worker] = "take"]
        /\ fin' = [request |-> cur.id, event |-> "outcome"]
        /\ UNCHANGED <<ops, nextOp, queue, life, job, target, doomed, seen, active, cancelled,
                       shutdown, cur>>
    BY <1>1 DEF ExecuteAtOnce, Executing, Answer
  <2>2. SenderInv' /\ QueueOnce' /\ pc'[Worker] = "take" /\ \A r : StaysPut(r)
    BY <2>1, QuietFresh
  <2>3. ASSUME NEW r \in RequestIds PROVE Fresh(r)'
    BY <2>1, <2>2
    DEF FreshInv, Fresh, UsedOnce, OnePlace, OneAnswer, Reserved, AckHolds, Due, StaysPut, Live,
        InHand, InFin, HandLabels, Linking, CancelLabels, Holding, Registered, FinishLabels,
        Collected, Blocked, NoResult, Answered, Finishing, Unused, seen
  <2>4. OpsOnce' /\ NoneWaits'
    BY <2>1, <2>2 DEF FreshInv, OpsOnce, NoneWaits, Pending, Registered, StaysPut
  <2> QED BY <2>2, <2>3, <2>4 DEF FreshInv
<1>2. CASE ExecuteRemote
  <2>1. /\ pc[Worker] = "execute" /\ pc' = [pc EXCEPT ![Worker] = "retire"]
        /\ fin' = [request |-> cur.id, event |-> "outcome"]
        /\ UNCHANGED <<ops, nextOp, queue, life, job, target, doomed, seen, active, cancelled,
                       shutdown, cur>>
    BY <1>2 DEF ExecuteRemote, Executing, Answer
  <2>2. SenderInv' /\ QueueOnce' /\ pc'[Worker] = "retire" /\ \A r : StaysPut(r)
    BY <2>1, QuietFresh
  <2>3. ASSUME NEW r \in RequestIds PROVE Fresh(r)'
    BY <2>1, <2>2
    DEF FreshInv, Fresh, UsedOnce, OnePlace, OneAnswer, Reserved, AckHolds, Due, StaysPut, Live,
        InHand, InFin, HandLabels, Linking, CancelLabels, Holding, Registered, FinishLabels,
        Collected, Blocked, NoResult, Answered, Finishing, Unused, seen
  <2>4. OpsOnce' /\ NoneWaits'
    BY <2>1, <2>2 DEF FreshInv, OpsOnce, NoneWaits, Pending, Registered, StaysPut
  <2> QED BY <2>2, <2>3, <2>4 DEF FreshInv
<1>3. CASE ExecuteHost
  <2>1. /\ pc[Worker] = "execute" /\ pc' = [pc EXCEPT ![Worker] = "register"]
        /\ fin' = [request |-> cur.id, event |-> "outcome"]
        /\ UNCHANGED <<ops, nextOp, queue, life, job, target, doomed, seen, active, cancelled,
                       shutdown, cur>>
    BY <1>3 DEF ExecuteHost, Executing, Answer
  <2>2. SenderInv' /\ QueueOnce' /\ pc'[Worker] = "register" /\ \A r : StaysPut(r)
    BY <2>1, QuietFresh
  <2>3. ASSUME NEW r \in RequestIds PROVE Fresh(r)'
    BY <2>1, <2>2
    DEF FreshInv, Fresh, UsedOnce, OnePlace, OneAnswer, Reserved, AckHolds, Due, StaysPut, Live,
        InHand, InFin, HandLabels, Linking, CancelLabels, Holding, Registered, FinishLabels,
        Collected, Blocked, NoResult, Answered, Finishing, Unused, seen
  <2>4. OpsOnce' /\ NoneWaits'
    BY <2>1, <2>2 DEF FreshInv, OpsOnce, NoneWaits, Pending, Registered, StaysPut
  <2> QED BY <2>2, <2>3, <2>4 DEF FreshInv
<1>4. CASE ExecuteReply
  <2>1. /\ pc[Worker] = "execute" /\ pc' = [pc EXCEPT ![Worker] = "claim"]
        /\ active' = active \ {cur.id}
        /\ UNCHANGED <<ops, nextOp, queue, life, job, target, doomed, seen, cancelled, shutdown,
                       cur, fin>>
    BY <1>4 DEF ExecuteReply, Executing
  <2>2. SenderInv' /\ QueueOnce' /\ pc'[Worker] = "claim" /\ \A r : StaysPut(r)
    BY <2>1, QuietFresh
  <2>3. ASSUME NEW r \in RequestIds PROVE Fresh(r)'
    BY <2>1, <2>2
    DEF FreshInv, Fresh, UsedOnce, OnePlace, OneAnswer, Reserved, AckHolds, Due, StaysPut, Live,
        InHand, InFin, HandLabels, Linking, CancelLabels, Holding, Registered, FinishLabels,
        Collected, Blocked, NoResult, Answered, Finishing, Unused, seen
  <2>4. OpsOnce' /\ NoneWaits'
    BY <2>1, <2>2 DEF FreshInv, OpsOnce, NoneWaits, Pending, Registered, StaysPut
  <2> QED BY <2>2, <2>3, <2>4 DEF FreshInv
<1> QED BY <1>1, <1>2, <1>3, <1>4

LEMMA FinishQuietFresh ==
  ASSUME TypeInv, FreshInv, StopInv', 
         ClaimMissing \/ RegisterRecheck \/ HostRequest \/ FinishTake \/ FinishRetire
  PROVE  FreshInv'
<1> USE DEF registries, channel, latch, working, history, Goto, seen
<1>1. CASE ClaimMissing
  <2>1. /\ pc[Worker] = "claim" /\ pc' = [pc EXCEPT ![Worker] = "emit"]
        /\ fin' = [request |-> cur.id, event |-> "outcome"]
        /\ UNCHANGED <<ops, nextOp, queue, life, job, target, doomed, seen, active, cancelled,
                       shutdown, cur>>
    BY <1>1 DEF ClaimMissing, Answer
  <2>2. SenderInv' /\ QueueOnce' /\ pc'[Worker] = "emit" /\ \A r : StaysPut(r)
    BY <2>1, QuietFresh
  <2>3. ASSUME NEW r \in RequestIds PROVE Fresh(r)'
    BY <2>1, <2>2
    DEF FreshInv, Fresh, UsedOnce, OnePlace, OneAnswer, Reserved, AckHolds, Due, StaysPut, Live,
        InHand, InFin, HandLabels, Linking, CancelLabels, Holding, Registered, FinishLabels,
        Collected, Blocked, NoResult, Answered, Finishing, Unused, seen
  <2>4. OpsOnce' /\ NoneWaits'
    BY <2>1, <2>2 DEF FreshInv, OpsOnce, NoneWaits, Pending, Registered, StaysPut
  <2> QED BY <2>2, <2>3, <2>4 DEF FreshInv
<1>2. CASE RegisterRecheck
  <2>1. /\ pc[Worker] = "recheck" /\ cancelled' = cancelled \ {fin.request}
        /\ \E l \in {"unregister", "request"} : pc' = [pc EXCEPT ![Worker] = l]
        /\ UNCHANGED <<ops, nextOp, queue, life, job, target, doomed, seen, active, shutdown,
                       cur, fin>>
    BY <1>2 DEF RegisterRecheck
  <2>2. PICK l \in {"unregister", "request"} : pc' = [pc EXCEPT ![Worker] = l]
    BY <2>1
  <2>3. SenderInv' /\ QueueOnce' /\ pc'[Worker] = l /\ \A r : StaysPut(r)
    BY <2>1, <2>2, QuietFresh
  <2>4. ASSUME NEW r \in RequestIds PROVE Fresh(r)'
    BY <2>1, <2>2, <2>3
    DEF FreshInv, Fresh, UsedOnce, OnePlace, OneAnswer, Reserved, AckHolds, Due, StaysPut, Live,
        InHand, InFin, HandLabels, Linking, CancelLabels, Holding, Registered, FinishLabels,
        Collected, Blocked, NoResult, Answered, Finishing, Unused, seen
  <2>5. OpsOnce' /\ NoneWaits'
    BY <2>1, <2>2, <2>3 DEF FreshInv, OpsOnce, NoneWaits, Pending, Registered, StaysPut
  <2> QED BY <2>3, <2>4, <2>5 DEF FreshInv
<1>3. CASE HostRequest
  <2>1. /\ pc[Worker] = "request"
        /\ pc' = [pc EXCEPT ![Worker] = IF cur.method = "shutdown" /\ shutdown THEN "drain" ELSE "recv"]
        /\ UNCHANGED <<ops, nextOp, queue, life, job, target, doomed, seen, active, cancelled,
                       shutdown>>
    BY <1>3 DEF HostRequest, Return
  <2>2. SenderInv' /\ QueueOnce' /\ pc'[Worker] = (IF cur.method = "shutdown" /\ shutdown THEN "drain" ELSE "recv") /\ \A r : StaysPut(r)
    BY <2>1, QuietFresh
  <2>3. ASSUME NEW r \in RequestIds PROVE Fresh(r)'
    BY <2>1, <2>2
    DEF FreshInv, Fresh, UsedOnce, OnePlace, OneAnswer, Reserved, AckHolds, Due, StaysPut, Live,
        InHand, InFin, HandLabels, Linking, CancelLabels, Holding, Registered, FinishLabels,
        Collected, Blocked, NoResult, Answered, Finishing, Unused, OpsOnce, Dead, Events, seen
  <2>4. OpsOnce' /\ NoneWaits'
    BY <2>1, <2>2 DEF FreshInv, OpsOnce, NoneWaits, Pending, Registered, StaysPut
  <2> QED BY <2>2, <2>3, <2>4 DEF FreshInv
<1>4. CASE FinishTake
  <2>1. /\ pc[Worker] = "take" /\ pc' = [pc EXCEPT ![Worker] = "retire"]
        /\ fin'.request = fin.request /\ cancelled' = cancelled \ {fin.request}
        /\ fin'.event = IF fin.request \in cancelled THEN "cancelled" ELSE fin.event
        /\ UNCHANGED <<ops, nextOp, queue, life, job, target, doomed, seen, active, shutdown,
                       cur>>
    BY <1>4 DEF FinishTake, Answer
  <2>2. SenderInv' /\ QueueOnce' /\ pc'[Worker] = "retire" /\ \A r : StaysPut(r)
    BY <2>1, QuietFresh
  <2>3. ASSUME NEW r \in RequestIds PROVE Fresh(r)'
    BY <2>1, <2>2
    DEF FreshInv, Fresh, UsedOnce, OnePlace, OneAnswer, Reserved, AckHolds, Due, StaysPut, Live,
        InHand, InFin, HandLabels, Linking, CancelLabels, Holding, Registered, FinishLabels,
        Collected, Blocked, NoResult, Answered, Finishing, Unused, seen
  <2>4. OpsOnce' /\ NoneWaits'
    BY <2>1, <2>2 DEF FreshInv, OpsOnce, NoneWaits, Pending, Registered, StaysPut
  <2> QED BY <2>2, <2>3, <2>4 DEF FreshInv
<1>5. CASE FinishRetire
  <2>1. /\ pc[Worker] = "retire" /\ pc' = [pc EXCEPT ![Worker] = "emit"]
        /\ active' = active \ {fin.request}
        /\ UNCHANGED <<ops, nextOp, queue, life, job, target, doomed, seen, cancelled, shutdown,
                       cur, fin>>
    BY <1>5 DEF FinishRetire
  <2>2. SenderInv' /\ QueueOnce' /\ pc'[Worker] = "emit" /\ \A r : StaysPut(r)
    BY <2>1, QuietFresh
  <2>3. ASSUME NEW r \in RequestIds PROVE Fresh(r)'
    BY <2>1, <2>2
    DEF FreshInv, Fresh, UsedOnce, OnePlace, OneAnswer, Reserved, AckHolds, Due, StaysPut, Live,
        InHand, InFin, HandLabels, Linking, CancelLabels, Holding, Registered, FinishLabels,
        Collected, Blocked, NoResult, Answered, Finishing, Unused, seen
  <2>4. OpsOnce' /\ NoneWaits'
    BY <2>1, <2>2 DEF FreshInv, OpsOnce, NoneWaits, Pending, Registered, StaysPut
  <2> QED BY <2>2, <2>3, <2>4 DEF FreshInv
<1> QED BY <1>1, <1>2, <1>3, <1>4, <1>5

LEMMA ShutdownQuietFresh ==
  ASSUME TypeInv, FreshInv, StopInv', ShutdownLatch \/ ShutdownForget \/ ShutdownAnswer
  PROVE  FreshInv'
<1> USE DEF registries, channel, latch, working, history, Goto, seen
<1>1. CASE ShutdownLatch
  <2>1. /\ pc[Worker] = "execute" /\ pc' = [pc EXCEPT ![Worker] = "collect"]
        /\ shutdown'
        /\ UNCHANGED <<ops, nextOp, queue, life, job, target, doomed, seen, active, cancelled,
                       cur, fin>>
    BY <1>1 DEF ShutdownLatch, Executing
  <2>2. SenderInv' /\ QueueOnce' /\ pc'[Worker] = "collect" /\ \A r : StaysPut(r)
    BY <2>1, QuietFresh
  <2>3. ASSUME NEW r \in RequestIds PROVE Fresh(r)'
    BY <2>1, <2>2
    DEF FreshInv, Fresh, UsedOnce, OnePlace, OneAnswer, Reserved, AckHolds, Due, StaysPut, Live,
        InHand, InFin, HandLabels, Linking, CancelLabels, Holding, Registered, FinishLabels,
        Collected, Blocked, NoResult, Answered, Finishing, Unused, seen
  <2>4. OpsOnce' /\ NoneWaits'
    BY <2>1, <2>2 DEF FreshInv, OpsOnce, NoneWaits, Pending, Registered, StaysPut
  <2> QED BY <2>2, <2>3, <2>4 DEF FreshInv
<1>2. CASE ShutdownForget
  <2>1. /\ pc[Worker] = "forget" /\ pc' = [pc EXCEPT ![Worker] = "notifyAll"]
        /\ cancelled' = cancelled \ doomed
        /\ UNCHANGED <<ops, nextOp, queue, life, job, target, doomed, seen, active, shutdown,
                       cur, fin>>
    BY <1>2 DEF ShutdownForget
  <2>2. SenderInv' /\ QueueOnce' /\ pc'[Worker] = "notifyAll" /\ \A r : StaysPut(r)
    BY <2>1, QuietFresh
  <2>3. ASSUME NEW r \in RequestIds PROVE Fresh(r)'
    BY <2>1, <2>2
    DEF FreshInv, Fresh, UsedOnce, OnePlace, OneAnswer, Reserved, AckHolds, Due, StaysPut, Live,
        InHand, InFin, HandLabels, Linking, CancelLabels, Holding, Registered, FinishLabels,
        Collected, Blocked, NoResult, Answered, Finishing, Unused, seen
  <2>4. OpsOnce' /\ NoneWaits'
    BY <2>1, <2>2 DEF FreshInv, OpsOnce, NoneWaits, Pending, Registered, StaysPut
  <2> QED BY <2>2, <2>3, <2>4 DEF FreshInv
<1>3. CASE ShutdownAnswer
  <2>1. /\ pc[Worker] = "notifyAll" /\ pc' = [pc EXCEPT ![Worker] = "take"]
        /\ fin' = [request |-> cur.id, event |-> "outcome"]
        /\ UNCHANGED <<ops, nextOp, queue, life, job, target, doomed, seen, active, cancelled,
                       shutdown, cur>>
    BY <1>3 DEF ShutdownAnswer, Answer
  <2>2. SenderInv' /\ QueueOnce' /\ pc'[Worker] = "take" /\ \A r : StaysPut(r)
    BY <2>1, QuietFresh
  <2>3. ASSUME NEW r \in RequestIds PROVE Fresh(r)'
    BY <2>1, <2>2
    DEF FreshInv, Fresh, UsedOnce, OnePlace, OneAnswer, Reserved, AckHolds, Due, StaysPut, Live,
        InHand, InFin, HandLabels, Linking, CancelLabels, Holding, Registered, FinishLabels,
        Collected, Blocked, NoResult, Answered, Finishing, Unused, StopInv, Collecting, seen
  <2>4. OpsOnce' /\ NoneWaits'
    BY <2>1, <2>2 DEF FreshInv, OpsOnce, NoneWaits, Pending, Registered, StaysPut
  <2> QED BY <2>2, <2>3, <2>4 DEF FreshInv
<1> QED BY <1>1, <1>2, <1>3

\* A step that takes an item from the queue.
LEMMA TakenOnce ==
  ASSUME TypeInv, QueueOnce, queue # <<>>, queue' = Tail(queue)
  PROVE  /\ QueueOnce'
         /\ \A r \in RequestIds : Queued(r)' => r # Head(queue).id
         /\ Queued(Head(queue).id)
         /\ Head(queue) \in WorkItem
<1>1. /\ queue \in Seq(WorkItem)
      /\ Len(queue) \in Nat \ {0} /\ Len(queue') = Len(queue) - 1 /\ Head(queue) = queue[1]
      /\ \A i \in 1..Len(queue') : queue'[i] = queue[i + 1]
  BY DEF TypeInv, TypeOK
<1>2. QueueOnce'
  BY <1>1 DEF QueueOnce
<1>3. ASSUME NEW r \in RequestIds, Queued(r)', r = queue[1].id PROVE FALSE
  <2>1. PICK i \in 1..Len(queue') : queue'[i].id = queue[1].id
    BY <1>1, <1>3 DEF Queued
  <2>2. i + 1 \in 1..Len(queue) /\ 1 \in 1..Len(queue) /\ queue[i + 1].id = queue[1].id /\ i + 1 # 1
    BY <1>1, <2>1
  <2> QED BY <1>1, <1>3, <2>2 DEF QueueOnce
<1>4. Queued(Head(queue).id) /\ Head(queue) \in WorkItem
  BY <1>1 DEF Queued
<1> QED BY <1>2, <1>3, <1>4

\* What a step of the worker on the queue leaves alone.
LEMMA TakeFrame ==
  ASSUME TypeInv, FreshInv, NEW l, pc' = [pc EXCEPT ![Worker] = l],
         {pc[Worker], l} \intersect {"unmark", "release", "notify"} = {},
         UNCHANGED <<active, ops, job, target, doomed, seen>>
  PROVE  /\ SenderInv' /\ pc'[Worker] = l
         /\ \A r : /\ HeldByThread(r)' <=> HeldByThread(r)
                   /\ Cancelling(r)' <=> Cancelling(r)
                   /\ HasOp(r)' <=> HasOp(r)
                   /\ Dead(r)' <=> Dead(r)
                   /\ Unused(r) => Unused(r)'
<1> USE DEF seen
<1>1. /\ pc'[Worker] = l
      /\ \A r : /\ HeldByThread(r)' <=> HeldByThread(r)
                /\ Cancelling(r)' <=> Cancelling(r)
                /\ HasOp(r)' <=> HasOp(r)
  BY WorkerFrame, QuietFrame
<1>2. \A r : (Dead(r)' <=> Dead(r)) /\ (Unused(r) => Unused(r)')
  BY <1>1, DeadFrame, UnusedFrame
<1>3. \A t \in Threads : pc'[t] = pc[t]
  BY RuntimeAssumption DEF TypeInv, TypeOK, Procs
<1>4. SenderInv'
  BY <1>2, <1>3 DEF FreshInv, SenderInv
<1> QED BY <1>1, <1>2, <1>4

LEMMA QueueFresh ==
  ASSUME TypeInv, FreshInv, StopInv', LatchInv, WorkerRecv \/ DrainQueued \/ WorkerExit
  PROVE  FreshInv'
<1> USE DEF registries, channel, latch, working, history, Goto, seen
<1>1. CASE WorkerRecv
  <2>1. /\ pc[Worker] = "recv" /\ queue # <<>> /\ queue' = Tail(queue)
        /\ UNCHANGED <<active, cancelled, ops, nextOp, shutdown, life, job, target, fin, doomed,
                       seen>>
    BY <1>1 DEF WorkerRecv
  <2>2. /\ QueueOnce' /\ Queued(Head(queue).id) /\ Head(queue) \in WorkItem
        /\ \A r \in RequestIds : Queued(r)' => r # Head(queue).id
    BY <2>1, TakenOnce DEF FreshInv
  <2>3. \A r : (Queued(r)' => Queued(r)) /\ (Queued(r) => Queued(r)' \/ Head(queue).id = r)
    BY <2>1, QueuedTail DEF TypeInv, TypeOK
  <2>4. CASE Head(queue) = Stop \/ shutdown
    <3>1. pc' = [pc EXCEPT ![Worker] = "exit"] /\ cur' = cur
      BY <1>1, <2>4 DEF WorkerRecv
    <3>2. life # "running"
      BY <2>1, <2>2, <2>4
      DEF LatchInv, OnShutdownPath, Collecting, FinishLabels, FreshInv, StopInv, Stop
    <3>3. /\ SenderInv' /\ pc'[Worker] = "exit"
          /\ \A r : /\ HeldByThread(r)' <=> HeldByThread(r)
                    /\ Cancelling(r)' <=> Cancelling(r)
                    /\ HasOp(r)' <=> HasOp(r)
                    /\ Dead(r)' <=> Dead(r)
                    /\ Unused(r) => Unused(r)'
      BY <2>1, <3>1, TakeFrame
    <3>4. ASSUME NEW r \in RequestIds PROVE Fresh(r)'
      BY <2>1, <2>3, <3>1, <3>2, <3>3
      DEF FreshInv, Fresh, UsedOnce, OnePlace, OneAnswer, Reserved, AckHolds, Due, StaysPut, Live,
          InHand, InFin, HandLabels, Linking, CancelLabels, Holding, Registered, FinishLabels,
          Collected, Blocked, NoResult, Answered, Finishing, Unused
    <3>5. OpsOnce' /\ NoneWaits'
      BY <2>1, <3>2, <3>3 DEF FreshInv, OpsOnce, NoneWaits, Pending, Registered
    <3> QED BY <2>2, <3>3, <3>4, <3>5 DEF FreshInv
  <2>5. CASE ~(Head(queue) = Stop \/ shutdown)
    <3>1. pc' = [pc EXCEPT ![Worker] = "dispatch"] /\ cur' = Head(queue)
      BY <1>1, <2>5 DEF WorkerRecv
    <3>2. cur'.id \in RequestIds
      BY <2>2, <2>5, <3>1 DEF WorkItem, Command
    <3>3. /\ SenderInv' /\ pc'[Worker] = "dispatch"
          /\ \A r : /\ HeldByThread(r)' <=> HeldByThread(r)
                    /\ Cancelling(r)' <=> Cancelling(r)
                    /\ HasOp(r)' <=> HasOp(r)
                    /\ Dead(r)' <=> Dead(r)
                    /\ Unused(r) => Unused(r)'
      BY <2>1, <3>1, TakeFrame
    <3>4. ASSUME NEW r \in RequestIds PROVE Fresh(r)'
      BY <2>1, <2>2, <2>3, <2>5, <3>1, <3>2, <3>3
      DEF FreshInv, Fresh, UsedOnce, OnePlace, OneAnswer, Reserved, AckHolds, Due, StaysPut, Live,
          InHand, InFin, HandLabels, Linking, CancelLabels, Holding, Registered, FinishLabels,
          Collected, Blocked, NoResult, Answered, Finishing, Unused
    <3>5. OpsOnce' /\ NoneWaits'
      BY <2>1, <2>5, <3>3 DEF FreshInv, OpsOnce, NoneWaits, Pending, Registered
    <3> QED BY <2>2, <3>3, <3>4, <3>5 DEF FreshInv
  <2> QED BY <2>4, <2>5
<1>2. CASE DrainQueued
  <2>1. /\ pc[Worker] = "drain" /\ queue # <<>> /\ queue' = Tail(queue) /\ Head(queue) # Stop
        /\ pc' = [pc EXCEPT ![Worker] = "take"]
        /\ fin' = [request |-> Head(queue).id, event |-> "cancelled"]
        /\ UNCHANGED <<active, cancelled, ops, nextOp, shutdown, life, job, target, cur, doomed,
                       seen>>
    BY <1>2 DEF DrainQueued, Answer
  <2>2. /\ QueueOnce' /\ Queued(Head(queue).id) /\ Head(queue) \in WorkItem
        /\ \A r \in RequestIds : Queued(r)' => r # Head(queue).id
    BY <2>1, TakenOnce DEF FreshInv
  <2>3. \A r : (Queued(r)' => Queued(r)) /\ (Queued(r) => Queued(r)' \/ Head(queue).id = r)
    BY <2>1, QueuedTail DEF TypeInv, TypeOK
  <2>4. fin'.request \in RequestIds
    BY <2>1, <2>2 DEF WorkItem, Command
  <2>5. /\ SenderInv' /\ pc'[Worker] = "take"
        /\ \A r : /\ HeldByThread(r)' <=> HeldByThread(r)
                  /\ Cancelling(r)' <=> Cancelling(r)
                  /\ HasOp(r)' <=> HasOp(r)
                  /\ Dead(r)' <=> Dead(r)
                  /\ Unused(r) => Unused(r)'
    BY <2>1, TakeFrame
  <2>6. ASSUME NEW r \in RequestIds PROVE Fresh(r)'
    BY <2>1, <2>2, <2>3, <2>4, <2>5
    DEF FreshInv, Fresh, UsedOnce, OnePlace, OneAnswer, Reserved, AckHolds, Due, StaysPut, Live,
        InHand, InFin, HandLabels, Linking, CancelLabels, Holding, Registered, FinishLabels,
        Collected, Blocked, NoResult, Answered, Finishing, Unused, StopInv, Collecting
  <2>7. OpsOnce' /\ NoneWaits'
    BY <2>1, <2>5 DEF FreshInv, OpsOnce, NoneWaits, Pending, Registered
  <2> QED BY <2>2, <2>5, <2>6, <2>7 DEF FreshInv
<1>3. CASE WorkerExit
  <2>1. /\ pc[Worker] = "exit" /\ queue' = <<>> /\ pc' = [pc EXCEPT ![Worker] = "stopped"]
        /\ UNCHANGED <<active, cancelled, ops, nextOp, shutdown, life, job, target, fin, doomed,
                       seen>>
    BY <1>3 DEF WorkerExit
  <2>2. QueueOnce' /\ \A r : ~Queued(r)'
    BY <2>1 DEF QueueOnce, Queued
  <2>3. /\ SenderInv' /\ pc'[Worker] = "stopped"
        /\ \A r : /\ HeldByThread(r)' <=> HeldByThread(r)
                  /\ Cancelling(r)' <=> Cancelling(r)
                  /\ HasOp(r)' <=> HasOp(r)
                  /\ Dead(r)' <=> Dead(r)
                  /\ Unused(r) => Unused(r)'
    BY <2>1, TakeFrame
  <2>4. ASSUME NEW r \in RequestIds PROVE Fresh(r)'
    BY <2>1, <2>2, <2>3
    DEF FreshInv, Fresh, UsedOnce, OnePlace, OneAnswer, Reserved, AckHolds, Due, StaysPut, Live,
        InHand, InFin, HandLabels, Linking, CancelLabels, Holding, Registered, FinishLabels,
        Collected, Blocked, NoResult, Answered, Finishing, Unused
  <2>5. OpsOnce' /\ NoneWaits'
    BY <2>1, <2>3 DEF FreshInv, OpsOnce, NoneWaits, Pending, Registered
  <2> QED BY <2>2, <2>3, <2>4, <2>5 DEF FreshInv
<1> QED BY <1>1, <1>2, <1>3

\* An active request is alive or being withdrawn.
LEMMA ActiveIsAlive ==
  ASSUME OrphanInv, ~Finishing, NEW r \in active
  PROVE  Live(r) \/ Cancelling(r)
BY DEF OrphanInv, ServedInv, Served, Live, Cancelling, Withdrawing, Withdrawn

\* A step of the worker leaves the senders alone if it touches no unused id.
LEMMA SenderFrame ==
  ASSUME TypeInv, SenderInv, NEW l, pc' = [pc EXCEPT ![Worker] = l], job' = job,
         \A r \in RequestIds : Unused(r) => Unused(r)'
  PROVE  SenderInv'
<1>1. \A t \in Threads : pc'[t] = pc[t] /\ (pc[t] = "reserve" => job[t].id \in RequestIds)
  BY RuntimeAssumption DEF TypeInv, TypeOK, ControlOK, Procs, SendLabels, Command
<1> QED BY <1>1 DEF SenderInv

\* What a step of the worker on the operations leaves alone.
LEMMA OperationFrame ==
  ASSUME TypeInv, FreshInv, NEW l, pc' = [pc EXCEPT ![Worker] = l],
         {pc[Worker], l} \intersect {"unmark", "release", "notify"} = {},
         UNCHANGED <<queue, job, target, answers>>
  PROVE  /\ QueueOnce' /\ pc'[Worker] = l
         /\ \A r : /\ HeldByThread(r)' <=> HeldByThread(r)
                   /\ Cancelling(r)' <=> Cancelling(r)
                   /\ Queued(r)' <=> Queued(r)
         /\ doomed' = doomed => \A r : Dead(r)' <=> Dead(r)
<1>1. /\ pc'[Worker] = l
      /\ \A r : /\ HeldByThread(r)' <=> HeldByThread(r)
                /\ Cancelling(r)' <=> Cancelling(r)
                /\ Queued(r)' <=> Queued(r)
  BY WorkerFrame, QuietFrame
<1>2. doomed' = doomed => \A r : Dead(r)' <=> Dead(r)
  BY <1>1, DeadFrame
<1>3. QueueOnce'
  BY DEF FreshInv, QueueOnce
<1> QED BY <1>1, <1>2, <1>3

\* Operations taken out leave every request with at most one.
LEMMA WithoutOnce ==
  ASSUME TypeInv, OpsOnce, NEW S \in SUBSET OpIds, ops' = Without(S)
  PROVE  /\ \A o, q \in OpIds : Pending(o)' /\ ops'[o].request = ops'[q].request => o = q
         /\ \A o \in OpIds : Pending(o)' => Pending(o) /\ o \notin S
<1>1. (\A o \in S : ops'[o] = NoOp) /\ \A o \in OpIds \ S : ops'[o] = ops[o]
  BY WithoutOps
<1>2. \A o \in OpIds : Pending(o)' => Pending(o) /\ o \notin S
  BY <1>1 DEF Pending
<1>3. \A o \in OpIds : Pending(o) => ops[o].request # NoOp.request
  BY RuntimeAssumption DEF Pending, TypeInv, TypeOK, HostOperation, NoOp
<1>4. \A o, q \in OpIds : Pending(o)' /\ ops'[o].request = ops'[q].request => o = q
  BY <1>1, <1>2, <1>3 DEF OpsOnce
<1> QED BY <1>2, <1>4

LEMMA ClaimFresh ==
  ASSUME TypeInv, FreshInv, StopInv', ClaimOperation
  PROVE  FreshInv'
<1> DEFINE w == ops[cur.arg].request
<1>1. /\ pc[Worker] = "claim" /\ cur.arg \in OpIds /\ Pending(cur.arg) /\ ops' = Without({cur.arg})
      /\ fin' = [request |-> w, event |-> "outcome"] /\ delivered' = delivered \union {cur.id}
      /\ \E l \in {"take", "register"} : pc' = [pc EXCEPT ![Worker] = l]
      /\ UNCHANGED <<active, cancelled, queue, shutdown, life, job, target, cur, doomed, accepts,
                     answers, acked, owed, nextOp>>
  BY DEF ClaimOperation, Answer, Continuations, channel, latch, Goto
<1>2. w \in RequestIds /\ cur.id \in RequestIds
  BY <1>1 DEF Pending, TypeInv, TypeOK, ControlOK, HostOperation, Command
<1> HIDE DEF w
<1>3. PICK l \in {"take", "register"} : pc' = [pc EXCEPT ![Worker] = l]
  BY <1>1
<1>4. /\ QueueOnce' /\ pc'[Worker] = l
      /\ \A r : /\ HeldByThread(r)' <=> HeldByThread(r)
                /\ Cancelling(r)' <=> Cancelling(r)
                /\ Queued(r)' <=> Queued(r)
                /\ Dead(r)' <=> Dead(r)
  BY <1>1, <1>3, OperationFrame
<1>5. /\ ops'[cur.arg] = NoOp /\ \A o \in OpIds \ {cur.arg} : ops'[o] = ops[o]
      /\ \A r \in RequestIds : HasOp(r)' => HasOp(r)
      /\ \A r \in RequestIds : HasOp(r) => HasOp(r)' \/ r = w
  BY <1>1, WithoutOps DEF w
<1>6. HasOp(w) /\ \A r \in RequestIds : HasOp(r)' => r # w
  <2>1. ASSUME NEW o \in OpIds, ops'[o].request = w PROVE FALSE
    <3>1. o # cur.arg
      BY <1>2, <1>5, <2>1, RuntimeAssumption DEF NoOp
    <3>2. ops[cur.arg].request = ops[o].request
      BY <1>5, <2>1, <3>1 DEF w
    <3> QED BY <1>1, <3>1, <3>2 DEF FreshInv, OpsOnce
  <2> QED BY <1>1, <2>1 DEF HasOp, w
<1>7. InHand(cur.id) /\ accepts[cur.id] = 1
  BY <1>1, <1>2 DEF InHand, HandLabels, FreshInv, Fresh, UsedOnce, Live
<1>8. \A r \in RequestIds : Unused(r) => Unused(r)'
  BY <1>1, <1>7 DEF Unused
<1>9. SenderInv'
  BY <1>1, <1>3, <1>8, SenderFrame DEF FreshInv
<1>10. ASSUME NEW r \in RequestIds PROVE Fresh(r)'
  BY <1>1, <1>2, <1>4, <1>5, <1>6, <1>7, <1>8
  DEF FreshInv, Fresh, UsedOnce, OnePlace, OneAnswer, Reserved, AckHolds, Due, StaysPut, Live,
      InHand, InFin, HandLabels, Linking, CancelLabels, Holding, Registered, FinishLabels,
      Collected, Blocked, NoResult, Answered, Finishing, Unused
<1>11. OpsOnce' /\ NoneWaits'
  BY <1>1, <1>4, WithoutOnce DEF FreshInv, OpsOnce, NoneWaits, Registered
<1> QED BY <1>4, <1>9, <1>10, <1>11 DEF FreshInv

LEMMA RegisterFresh ==
  ASSUME TypeInv, FreshInv, StopInv', LatchInv, OrphanInv, Register
  PROVE  FreshInv'
<1>1. /\ pc[Worker] = "register" /\ pc' = [pc EXCEPT ![Worker] = "recheck"] /\ nextOp' = nextOp + 1
      /\ UNCHANGED <<active, cancelled, queue, shutdown, life, job, target, cur, fin, doomed,
                     seen>>
  BY DEF Register, Goto, channel, latch, working, history, seen
<1>2. /\ nextOp \in OpIds /\ ops[nextOp] = NoOp /\ fin.request \in RequestIds
      /\ ops'[nextOp].request = fin.request /\ \A o \in OpIds \ {nextOp} : ops'[o] = ops[o]
  BY <1>1, RuntimeAssumption
  DEF Register, TypeInv, TypeOK, ControlOK, Holding, OpIds, OrphanInv, OpsInv
<1>3. \A r \in RequestIds : HasOp(r)' <=> HasOp(r) \/ r = fin.request
  <2>1. NoOp.request \notin RequestIds
    BY RuntimeAssumption DEF NoOp
  <2> QED BY <1>2, <2>1 DEF HasOp
<1>4. /\ QueueOnce' /\ pc'[Worker] = "recheck"
      /\ \A r : /\ HeldByThread(r)' <=> HeldByThread(r)
                /\ Cancelling(r)' <=> Cancelling(r)
                /\ Queued(r)' <=> Queued(r)
                /\ Dead(r)' <=> Dead(r)
  BY <1>1, OperationFrame DEF seen
<1>5. InFin(fin.request) /\ ~HasOp(fin.request)
  BY <1>1, <1>2 DEF InFin, Holding, FreshInv, Fresh, OnePlace, Registered
<1>6. \A r \in RequestIds : Unused(r) => Unused(r)'
  BY <1>1 DEF Unused, seen
<1>7. SenderInv'
  BY <1>1, <1>6, SenderFrame DEF FreshInv
<1>8. ~(shutdown /\ life = "running")
  BY <1>1 DEF LatchInv, OnShutdownPath, Collecting, FinishLabels
<1>9. ASSUME NEW r \in RequestIds PROVE Fresh(r)'
  BY <1>1, <1>2, <1>3, <1>4, <1>5, <1>6
  DEF FreshInv, Fresh, UsedOnce, OnePlace, OneAnswer, Reserved, AckHolds, Due, StaysPut, Live,
      InHand, InFin, HandLabels, Linking, CancelLabels, Holding, Registered, FinishLabels,
      Collected, Blocked, NoResult, Answered, Finishing, Unused, seen, StopInv
<1>10. NoneWaits'
  BY <1>1, <1>8 DEF NoneWaits
<1>11. OpsOnce'
  <2>1. \A o \in OpIds \ {nextOp} : ops'[o].request # fin.request /\ ops'[o] = ops[o]
    BY <1>2, <1>5 DEF HasOp
  <2>2. HasOp(fin.request)'
    BY <1>1, <1>2 DEF HasOp
  <2>3. nextOp' - 1 = nextOp /\ nextOp \in Int
    BY <1>1, <1>2 DEF OpIds
  <2>4. \A o \in OpIds : ops'[o].request = fin'.request => o = nextOp' - 1
    BY <1>1, <2>1, <2>3
  <2>5. \A o, q \in OpIds : Pending(o)' /\ ops'[o].request = ops'[q].request => o = q
    BY <1>2, <2>1 DEF FreshInv, OpsOnce, Pending
  <2> QED BY <2>2, <2>4, <2>5 DEF OpsOnce
<1> QED BY <1>4, <1>7, <1>9, <1>10, <1>11 DEF FreshInv

LEMMA UnregisterFresh ==
  ASSUME TypeInv, FreshInv, StopInv', OrphanInv, Unregister
  PROVE  FreshInv'
<1>1. /\ pc[Worker] = "unregister" /\ pc' = [pc EXCEPT ![Worker] = "take"]
      /\ ops' = Without({nextOp - 1}) /\ fin' = [request |-> fin.request, event |-> "cancelled"]
      /\ UNCHANGED <<active, cancelled, queue, shutdown, life, job, target, cur, doomed, seen,
                     nextOp>>
  BY DEF Unregister, Answer, Goto, channel, latch, history, seen
<1>2. /\ nextOp - 1 \in OpIds /\ fin.request \in RequestIds
      /\ ops[nextOp - 1] = NoOp \/ ops[nextOp - 1].request = fin.request
  BY <1>1, RuntimeAssumption
  DEF TypeInv, TypeOK, ControlOK, Registered, Holding, OpIds, OrphanInv, OpsInv
<1>3. /\ ops'[nextOp - 1] = NoOp /\ \A o \in OpIds \ {nextOp - 1} : ops'[o] = ops[o]
      /\ \A r \in RequestIds : HasOp(r)' => HasOp(r)
      /\ \A r \in RequestIds : HasOp(r) => HasOp(r)' \/ r = fin.request
  <2>1. NoOp.request \notin RequestIds
    BY RuntimeAssumption DEF NoOp
  <2> QED BY <1>1, <1>2, <2>1, WithoutOps
<1>4. \A r \in RequestIds : HasOp(r)' => r # fin.request
  <2>1. ASSUME NEW o \in OpIds, ops'[o].request = fin.request PROVE FALSE
    <3>1. o = nextOp - 1
      BY <1>1, <1>3, <2>1 DEF FreshInv, OpsOnce, Registered
    <3> QED BY <1>2, <1>3, <2>1, <3>1, RuntimeAssumption DEF NoOp
  <2> QED BY <2>1 DEF HasOp
<1>5. /\ QueueOnce' /\ pc'[Worker] = "take"
      /\ \A r : /\ HeldByThread(r)' <=> HeldByThread(r)
                /\ Cancelling(r)' <=> Cancelling(r)
                /\ Queued(r)' <=> Queued(r)
                /\ Dead(r)' <=> Dead(r)
  BY <1>1, OperationFrame DEF seen
<1>6. \A r \in RequestIds : Unused(r) => Unused(r)'
  BY <1>1 DEF Unused, seen
<1>7. SenderInv'
  BY <1>1, <1>6, SenderFrame DEF FreshInv
<1>8. ASSUME NEW r \in RequestIds PROVE Fresh(r)'
  BY <1>1, <1>2, <1>3, <1>4, <1>5, <1>6
  DEF FreshInv, Fresh, UsedOnce, OnePlace, OneAnswer, Reserved, AckHolds, Due, StaysPut, Live,
      InHand, InFin, HandLabels, Linking, CancelLabels, Holding, Registered, FinishLabels,
      Collected, Blocked, NoResult, Answered, Finishing, Unused, seen
<1>9. OpsOnce' /\ NoneWaits'
  BY <1>1, <1>2, <1>5, WithoutOnce DEF FreshInv, OpsOnce, NoneWaits, Registered
<1> QED BY <1>5, <1>7, <1>8, <1>9 DEF FreshInv

\* An event moves one counter.
LEMMA EmitFrame ==
  ASSUME TypeInv, NEW q \in RequestIds, NEW event \in Events, Emit(q, event)
  PROVE  /\ answers'[q][event] = answers[q][event] + 1
         /\ \A e \in Events \ {event} : answers'[q][e] = answers[q][e]
         /\ \A r \in RequestIds \ {q} : answers'[r] = answers[r]
         /\ \A r \in RequestIds : \A e \in Events : answers[r][e] \in Nat /\ answers'[r][e] \in Nat
BY DEF Emit, TypeInv, TypeOK

LEMMA EmitFresh ==
  ASSUME TypeInv, FreshInv, StopInv', FinishEmit
  PROVE  FreshInv'
<1>0. PICK q \in RequestIds : q = fin.request
  BY DEF FinishEmit, TypeInv, ControlOK, Holding
<1> DEFINE l == IF cur.method = "shutdown" /\ shutdown THEN "drain" ELSE "recv"
<1>1. /\ pc[Worker] = "emit" /\ pc' = [pc EXCEPT ![Worker] = l] /\ Emit(q, fin.event)
      /\ fin' = NoAnswer /\ l \in {"drain", "recv"}
      /\ UNCHANGED <<active, cancelled, ops, nextOp, queue, shutdown, life, job, target, doomed,
                     accepts, acked, owed, delivered>>
  BY <1>0 DEF FinishEmit, Return, Goto, registries, channel, latch
<1>2. fin.event \in Events /\ InFin(q)
  BY <1>0, <1>1 DEF TypeInv, TypeOK, Holding, InFin
<1>3. /\ QueueOnce' /\ pc'[Worker] = l
      /\ \A r : /\ HeldByThread(r)' <=> HeldByThread(r)
                /\ Cancelling(r)' <=> Cancelling(r)
                /\ Queued(r)' <=> Queued(r)
                /\ HasOp(r)' <=> HasOp(r)
  <2>1. QueueOnce'
    BY <1>1 DEF FreshInv, QueueOnce
  <2> QED BY <1>1, <2>1, QuietStep
<1> HIDE DEF l
<1>4. /\ answers'[q][fin.event] = answers[q][fin.event] + 1
      /\ \A e \in Events \ {fin.event} : answers'[q][e] = answers[q][e]
      /\ \A r \in RequestIds \ {q} : answers'[r] = answers[r]
      /\ \A r \in RequestIds : \A e \in Events : answers[r][e] \in Nat /\ answers'[r][e] \in Nat
  BY <1>1, <1>2, EmitFrame
<1>5. /\ \A r \in RequestIds \ {q} : Dead(r)' <=> Dead(r)
      /\ fin.event = "outcome" => (Dead(q)' <=> Dead(q))
  BY <1>1, <1>3, <1>4 DEF Dead, Events
<1>6. accepts[q] = 1
  BY <1>2 DEF FreshInv, Fresh, UsedOnce, Live
<1>7. \A r \in RequestIds : Unused(r) => r # q /\ Unused(r)'
  BY <1>1, <1>4, <1>6 DEF Unused
<1>8. SenderInv'
  BY <1>1, <1>7, SenderFrame DEF FreshInv
<1>9. ASSUME NEW r \in RequestIds PROVE Fresh(r)'
  <2>1. CASE r # q
    BY <1>1, <1>2, <1>3, <1>4, <1>5, <1>7, <2>1, <1>0
    DEF FreshInv, Fresh, UsedOnce, OnePlace, OneAnswer, Reserved, AckHolds, Due, StaysPut, Live,
        InHand, InFin, HandLabels, Linking, CancelLabels, Holding, Registered, FinishLabels,
        Collected, Blocked, NoResult, Answered, Finishing, Unused, NoAnswer, l
  <2>2. CASE r = q
    <3>1. ~HeldByThread(q) /\ ~Queued(q) /\ ~HasOp(q) /\ (~Dead(q) \/ fin.event = "cancelled")
      BY <1>1, <1>2 DEF FreshInv, Fresh, OneAnswer, OnePlace, Registered
    <3>2. ~HeldByThread(q)' /\ ~Queued(q)' /\ ~HasOp(q)' /\ ~InHand(q)' /\ ~InFin(q)'
      BY <1>1, <1>2, <1>3
      DEF FreshInv, Fresh, OnePlace, Registered, InHand, InFin, HandLabels, Linking, CancelLabels,
          Holding
    <3>3. fin.event # "outcome" => fin.event = "cancelled"
      BY <1>2 DEF Events
    <3>4. UsedOnce(q)'
      BY <1>1, <1>6 DEF UsedOnce
    <3>5. OneAnswer(q)'
      BY <1>1, <1>2, <1>3, <1>4, <1>5, <3>1, <3>2, <3>3
      DEF FreshInv, Fresh, OneAnswer, Live, Registered, Events
    <3>6. AckHolds(q)'
      BY <1>1, <1>2, <1>3, <1>4, <3>2, <3>3
      DEF FreshInv, Fresh, AckHolds, NoResult, Blocked, Registered, Events
    <3>7. Due(q)'
      BY <1>2, <1>4 DEF Due, Answered, Events
    <3> QED BY <2>2, <3>2, <3>4, <3>5, <3>6, <3>7 DEF Fresh, OnePlace, Reserved
  <2> QED BY <2>1, <2>2
<1>10. OpsOnce' /\ NoneWaits'
  BY <1>1, <1>3 DEF FreshInv, OpsOnce, NoneWaits, Pending, Registered
<1> QED BY <1>3, <1>8, <1>9, <1>10 DEF FreshInv

LEMMA NotifyFresh ==
  ASSUME TypeInv, FreshInv, StopInv', NEW q \in RequestIds, ShutdownNotify(q)
  PROVE  FreshInv'
<1>1. /\ pc[Worker] = "notifyAll" /\ q \in doomed /\ Emit(q, "cancelled") /\ doomed' = doomed \ {q}
      /\ UNCHANGED <<active, cancelled, ops, nextOp, queue, shutdown, life, pc, job, target, cur, fin,
                     accepts, acked, owed, delivered>>
  BY DEF ShutdownNotify, registries, channel, latch
<1>2. /\ answers'[q]["cancelled"] = answers[q]["cancelled"] + 1
      /\ answers'[q]["outcome"] = answers[q]["outcome"]
      /\ \A r \in RequestIds \ {q} : answers'[r] = answers[r]
      /\ \A r \in RequestIds : \A e \in Events : answers[r][e] \in Nat /\ answers'[r][e] \in Nat
  BY <1>1, EmitFrame DEF Events
<1>3. \A r : /\ HeldByThread(r)' <=> HeldByThread(r)
             /\ Cancelling(r)' <=> Cancelling(r)
             /\ Queued(r)' <=> Queued(r)
             /\ HasOp(r)' <=> HasOp(r)
  BY <1>1, QuietFrame DEF HeldByThread, Cancelling
<1>4. \A r \in RequestIds : Dead(r)' <=> Dead(r)
  BY <1>1, <1>2, <1>3 DEF Dead, Events
<1>5. \A r \in RequestIds : Unused(r) => r # q /\ Unused(r)'
  BY <1>1, <1>2 DEF Unused, FreshInv, Fresh, UsedOnce
<1>6. SenderInv'
  BY <1>1, <1>5 DEF FreshInv, SenderInv, TypeInv, ControlOK, SendLabels, Command
<1>7. ASSUME NEW r \in RequestIds PROVE Fresh(r)'
  BY <1>1, <1>2, <1>3, <1>4, <1>5
  DEF FreshInv, Fresh, UsedOnce, OnePlace, OneAnswer, Reserved, AckHolds, Due, StaysPut, Live,
      InHand, InFin, HandLabels, Linking, CancelLabels, Holding, Registered, FinishLabels,
      Collected, Blocked, NoResult, Answered, Finishing, Unused, Events
<1>8. QueueOnce' /\ OpsOnce' /\ NoneWaits'
  BY <1>1, <1>3 DEF FreshInv, QueueOnce, OpsOnce, NoneWaits, Pending, Registered
<1> QED BY <1>6, <1>7, <1>8 DEF FreshInv

LEMMA CollectFresh ==
  ASSUME TypeInv, FreshInv, StopInv', OrphanInv, ShutdownCollect
  PROVE  FreshInv'
<1>1. /\ pc[Worker] = "collect" /\ pc' = [pc EXCEPT ![Worker] = "dropOps"]
      /\ doomed' = active \ {cur.id} /\ active' = active \intersect {cur.id}
      /\ UNCHANGED <<cancelled, ops, nextOp, queue, shutdown, life, job, target, cur, fin, seen>>
  BY DEF ShutdownCollect, Goto, channel, latch, history, seen
<1>2. /\ QueueOnce' /\ pc'[Worker] = "dropOps"
      /\ \A r : /\ HeldByThread(r)' <=> HeldByThread(r)
                /\ Cancelling(r)' <=> Cancelling(r)
                /\ Queued(r)' <=> Queued(r)
                /\ HasOp(r)' <=> HasOp(r)
  <2>1. QueueOnce'
    BY <1>1 DEF FreshInv, QueueOnce
  <2> QED BY <1>1, <2>1, QuietStep
<1>3. doomed = {} /\ InHand(cur.id)
  BY <1>1 DEF FreshInv, StopInv, InHand, HandLabels, Linking
<1>4. \A r \in RequestIds : Dead(r)' <=> Dead(r) \/ r \in doomed'
  BY <1>1, <1>2, <1>3 DEF Dead, seen
<1>5. \A r \in doomed' : r \in active /\ r # cur.id /\ (Live(r) \/ Cancelling(r))
  BY <1>1, ActiveIsAlive DEF Finishing
<1>6. \A r \in RequestIds : Unused(r) => Unused(r)'
  BY <1>1 DEF Unused, seen
<1>7. SenderInv'
  BY <1>1, <1>6, SenderFrame DEF FreshInv
<1>8. ASSUME NEW r \in RequestIds PROVE Fresh(r)'
  BY <1>1, <1>2, <1>3, <1>4, <1>5, <1>6
  DEF FreshInv, Fresh, UsedOnce, OnePlace, OneAnswer, Reserved, AckHolds, Due, StaysPut, Live,
      InHand, InFin, HandLabels, Linking, CancelLabels, Holding, Registered, FinishLabels,
      Collected, Blocked, NoResult, Answered, Finishing, Unused, seen, Dead
<1>9. OpsOnce' /\ NoneWaits'
  BY <1>1, <1>2 DEF FreshInv, OpsOnce, NoneWaits, Pending, Registered
<1> QED BY <1>2, <1>7, <1>8, <1>9 DEF FreshInv

LEMMA DropOpsFresh ==
  ASSUME TypeInv, FreshInv, StopInv', ShutdownDropOps
  PROVE  FreshInv'
<1>1. /\ pc[Worker] = "dropOps" /\ pc' = [pc EXCEPT ![Worker] = "forget"]
      /\ ops' = Without(OthersOps(cur.id))
      /\ doomed' = doomed \union {ops[o].request : o \in OthersOps(cur.id)}
      /\ UNCHANGED <<active, cancelled, nextOp, queue, shutdown, life, job, target, cur, fin,
                     seen>>
  BY DEF ShutdownDropOps, Goto, channel, latch, history, seen
<1>2. cur.id \in RequestIds /\ InHand(cur.id) /\ ~HasOp(cur.id)
  BY <1>1
  DEF InHand, HandLabels, Linking, FreshInv, Fresh, OnePlace, TypeInv, ControlOK, Command
<1>3. /\ OthersOps(cur.id) \in SUBSET OpIds
      /\ \A o \in OpIds : Pending(o) <=> o \in OthersOps(cur.id)
  BY <1>2 DEF OthersOps, HasOp
<1>4. \A o \in OpIds : ~Pending(o)'
  BY <1>1, <1>3, WithoutOnce DEF FreshInv
<1>5. \A r \in RequestIds : ~HasOp(r)'
  BY <1>4, RuntimeAssumption DEF HasOp, Pending, NoOp
<1>6. \A r \in RequestIds : HasOp(r) <=> \E o \in OthersOps(cur.id) : ops[o].request = r
  <2>1. \A o \in OpIds : ~Pending(o) => ops[o].request \notin RequestIds
    BY RuntimeAssumption DEF Pending, NoOp
  <2> QED BY <1>3, <2>1 DEF HasOp
<1>7. \A r \in RequestIds : r \in doomed' <=> r \in doomed \/ HasOp(r)
  BY <1>1, <1>6
<1>8. /\ QueueOnce' /\ pc'[Worker] = "forget"
      /\ \A r : /\ HeldByThread(r)' <=> HeldByThread(r)
                /\ Cancelling(r)' <=> Cancelling(r)
                /\ Queued(r)' <=> Queued(r)
  BY <1>1, OperationFrame DEF seen
<1>9. \A r \in RequestIds : Dead(r)' <=> Dead(r) \/ HasOp(r)
  BY <1>1, <1>7, <1>8 DEF Dead, seen
<1>10. \A r \in RequestIds : Unused(r) => Unused(r)'
  BY <1>1 DEF Unused, seen
<1>11. SenderInv'
  BY <1>1, <1>10, SenderFrame DEF FreshInv
<1>12. ASSUME NEW r \in RequestIds PROVE Fresh(r)'
  BY <1>1, <1>2, <1>5, <1>7, <1>8, <1>9, <1>10
  DEF FreshInv, Fresh, UsedOnce, OnePlace, OneAnswer, Reserved, AckHolds, Due, StaysPut, Live,
      InHand, InFin, HandLabels, Linking, CancelLabels, Holding, Registered, FinishLabels,
      Collected, Blocked, NoResult, Answered, Finishing, Unused, seen
<1>13. OpsOnce' /\ NoneWaits'
  BY <1>4, <1>8 DEF OpsOnce, NoneWaits, Registered
<1> QED BY <1>8, <1>11, <1>12, <1>13 DEF FreshInv

LEMMA ExecuteCancelFresh ==
  ASSUME TypeInv, FreshInv, StopInv', OrphanInv, ExecuteCancel
  PROVE  FreshInv'
<1>1. pc[Worker] = "execute" /\ cur.id \in RequestIds
      /\ UNCHANGED <<active, cancelled, ops, nextOp, queue, shutdown, life, job, cur, doomed, accepts,
                     answers, owed, delivered>>
  BY DEF ExecuteCancel, Executing, registries, channel, latch, TypeInv, ControlOK, Command
<1>2. CASE cur.arg = cur.id \/ cur.arg \notin active
  <2>1. /\ pc' = [pc EXCEPT ![Worker] = "take"] /\ fin' = [request |-> cur.id, event |-> "outcome"]
        /\ UNCHANGED <<target, acked>>
    BY <1>2 DEF ExecuteCancel, Answer, Goto
  <2>2. SenderInv' /\ QueueOnce' /\ pc'[Worker] = "take" /\ \A r : StaysPut(r)
    BY <1>1, <2>1, QuietFresh DEF seen
  <2>3. ASSUME NEW r \in RequestIds PROVE Fresh(r)'
    BY <1>1, <2>1, <2>2
    DEF FreshInv, Fresh, UsedOnce, OnePlace, OneAnswer, Reserved, AckHolds, Due, StaysPut, Live,
        InHand, InFin, HandLabels, Linking, CancelLabels, Holding, Registered, FinishLabels,
        Collected, Blocked, NoResult, Answered, Finishing, Unused
  <2>4. OpsOnce' /\ NoneWaits'
    BY <1>1, <2>1, <2>2 DEF FreshInv, OpsOnce, NoneWaits, Pending, Registered, StaysPut
  <2> QED BY <2>2, <2>3, <2>4 DEF FreshInv
<1>3. CASE ~(cur.arg = cur.id \/ cur.arg \notin active)
  <2> DEFINE x == cur.arg
  <2>1. /\ pc' = [pc EXCEPT ![Worker] = "mark"] /\ target' = [target EXCEPT ![Worker] = x]
        /\ acked' = acked \union {x} /\ fin' = fin
    BY <1>3 DEF ExecuteCancel, Goto
  <2>2. x \in active /\ x \in RequestIds /\ x # cur.id
    BY <1>3 DEF TypeInv, TypeOK
  <2> HIDE DEF x
  <2>3. /\ pc'[Worker] = "mark" /\ target'[Worker] = x
        /\ \A t \in Threads : pc'[t] = pc[t] /\ target'[t] = target[t]
    BY <2>1, RuntimeAssumption DEF TypeInv, TypeOK, Procs
  <2>4. \A r : /\ HeldByThread(r)' <=> HeldByThread(r)
               /\ Cancelling(r)' <=> Cancelling(r)
               /\ Queued(r)' <=> Queued(r)
               /\ HasOp(r)' <=> HasOp(r)
               /\ Dead(r)' <=> Dead(r)
    <3>1. \A r : HeldByThread(r)' <=> HeldByThread(r)
      BY <1>1, <2>3 DEF HeldByThread
    <3>2. \A r : Cancelling(r)' <=> Cancelling(r)
      BY <1>1, <2>3 DEF Cancelling, Withdrawn, Procs
    <3> QED BY <1>1, <3>1, <3>2, QuietFrame, DeadFrame
  <2>5. answers[x]["outcome"] = 0
    <3>1. Live(x) \/ Cancelling(x)
      BY <1>1, <2>2, ActiveIsAlive DEF Finishing
    <3> QED BY <2>2, <3>1 DEF FreshInv, Fresh, OneAnswer, Dead
  <2>6. \A r \in RequestIds : Unused(r) => Unused(r)'
    BY <1>1, <2>1, <2>2 DEF Unused
  <2>7. SenderInv'
    BY <1>1, <2>1, <2>6, SenderFrame DEF FreshInv
  <2>8. ASSUME NEW r \in RequestIds PROVE Fresh(r)'
    BY <1>1, <2>1, <2>2, <2>3, <2>4, <2>5, <2>6
    DEF FreshInv, Fresh, UsedOnce, OnePlace, OneAnswer, Reserved, AckHolds, Due, StaysPut, Live,
        InHand, InFin, HandLabels, Linking, CancelLabels, Holding, Registered, FinishLabels,
        Collected, Blocked, NoResult, Answered, Finishing, Unused
  <2>9. QueueOnce' /\ OpsOnce' /\ NoneWaits'
    BY <1>1, <2>3 DEF FreshInv, QueueOnce, OpsOnce, NoneWaits, Pending, Registered
  <2> QED BY <2>7, <2>8, <2>9 DEF FreshInv
<1> QED BY <1>2, <1>3

\* The steps of a cancel, on a host thread or on the worker.
LEMMA CancelFrame ==
  ASSUME TypeInv, FreshInv, NEW p \in Procs, pc[p] \in CancelLabels, NEW l, l \notin SendLabels,
         pc' = [pc EXCEPT ![p] = l], UNCHANGED <<job, queue>>,
         \A r \in RequestIds : Unused(r) => Unused(r)'
  PROVE  /\ SenderInv' /\ QueueOnce'
         /\ \A r : (HeldByThread(r)' <=> HeldByThread(r)) /\ (Queued(r)' <=> Queued(r))
         /\ pc'[p] = l /\ \A q \in Procs \ {p} : pc'[q] = pc[q]
         /\ \/ p = Worker /\ pc'[Worker] = l
            \/ p # Worker /\ pc'[Worker] = pc[Worker]
<1>1. /\ pc'[p] = l /\ \A q \in Procs \ {p} : pc'[q] = pc[q]
      /\ Worker \in Procs /\ Threads \subseteq Procs
      /\ pc[p] \notin SendLabels /\ "enqueue" \in SendLabels /\ "reserve" \in SendLabels
  BY DEF TypeInv, TypeOK, Procs, SendLabels, CancelLabels
<1>2. ASSUME NEW r PROVE HeldByThread(r)' <=> HeldByThread(r)
  BY <1>1 DEF HeldByThread
<1>3. \A t \in Threads : pc[t] = "reserve" => job[t].id \in RequestIds
  BY DEF TypeInv, ControlOK, SendLabels, Command
<1>4. SenderInv'
  BY <1>1, <1>3 DEF FreshInv, SenderInv
<1>5. QueueOnce' /\ \A r : Queued(r)' <=> Queued(r)
  BY QuietFrame DEF FreshInv, QueueOnce
<1> QED BY <1>1, <1>2, <1>4, <1>5

\* A cancel that goes on with the same request.
LEMMA CancelGoesOn ==
  ASSUME TypeInv, NEW p \in Procs, NEW l, pc' = [pc EXCEPT ![p] = l], target' = target,
         pc[p] \in Withdrawn \union {"notify"} <=> l \in Withdrawn \union {"notify"}
  PROVE  \A r : Cancelling(r)' <=> Cancelling(r)
<1>1. pc'[p] = l /\ \A q \in Procs \ {p} : pc'[q] = pc[q]
  BY DEF TypeInv, TypeOK
<1> QED BY <1>1 DEF Cancelling

\* The end of a cancel.
LEMMA CancelEnds ==
  ASSUME TypeInv, NEW p \in Procs, CancelDone(p)
  PROVE  /\ p = Worker => /\ pc' = [pc EXCEPT ![p] = "take"]
                          /\ fin' = [request |-> cur.id, event |-> "outcome"]
         /\ p # Worker => pc' = [pc EXCEPT ![p] = "idle"] /\ fin' = fin
         /\ target'[p] = None /\ \A q \in Procs \ {p} : target'[q] = target[q]
         /\ \A r \in RequestIds : Cancelling(r)' => Cancelling(r)
         /\ \A r : Cancelling(r) => Cancelling(r)' \/ r = target[p]
         /\ pc[p] \notin Withdrawn \union {"notify"} =>
              \A r \in RequestIds : Cancelling(r) => Cancelling(r)'
<1>1. /\ p = Worker => /\ pc' = [pc EXCEPT ![p] = "take"]
                       /\ fin' = [request |-> cur.id, event |-> "outcome"]
      /\ p # Worker => pc' = [pc EXCEPT ![p] = "idle"] /\ fin' = fin
      /\ target'[p] = None /\ \A q \in Procs \ {p} : target'[q] = target[q]
  BY DEF CancelDone, Answer, Goto, TypeInv, TypeOK
<1>2. /\ \A q \in Procs \ {p} : pc'[q] = pc[q]
      /\ pc'[p] \in {"idle", "take"}
  BY <1>1 DEF TypeInv, TypeOK
<1> QED BY <1>1, <1>2 DEF Cancelling, Withdrawn

LEMMA MarkFresh ==
  ASSUME TypeInv, FreshInv, StopInv', NEW p \in Procs, CancelMark(p)
  PROVE  FreshInv'
<1>1. /\ pc[p] = "mark" /\ pc' = [pc EXCEPT ![p] = "unlink"]
      /\ cancelled' = cancelled \union {target[p]}
      /\ UNCHANGED <<active, ops, nextOp, queue, shutdown, life, job, target, cur, fin, doomed,
                     seen>>
  BY DEF CancelMark, Goto, channel, latch, working, seen
<1>2. \A r \in RequestIds : Unused(r) => Unused(r)'
  BY <1>1 DEF Unused, seen
<1>3. /\ SenderInv' /\ QueueOnce'
      /\ \A r : (HeldByThread(r)' <=> HeldByThread(r)) /\ (Queued(r)' <=> Queued(r))
      /\ \/ p = Worker /\ pc'[Worker] = "unlink"
         \/ p # Worker /\ pc'[Worker] = pc[Worker]
  BY <1>1, <1>2, CancelFrame DEF SendLabels, CancelLabels
<1>4. \A r : /\ Cancelling(r)' <=> Cancelling(r)
             /\ HasOp(r)' <=> HasOp(r)
             /\ Dead(r)' <=> Dead(r)
  BY <1>1, CancelGoesOn, QuietFrame, DeadFrame DEF Withdrawn, seen
<1>5. ASSUME NEW r \in RequestIds PROVE Fresh(r)'
  BY <1>1, <1>2, <1>3, <1>4
  DEF FreshInv, Fresh, UsedOnce, OnePlace, OneAnswer, Reserved, AckHolds, Due, StaysPut, Live,
      InHand, InFin, HandLabels, Linking, CancelLabels, Holding, Registered, FinishLabels,
      Collected, Blocked, NoResult, Answered, Finishing, Unused, seen
<1>6. OpsOnce' /\ NoneWaits'
  BY <1>1, <1>3, <1>4 DEF FreshInv, OpsOnce, NoneWaits, Pending, Registered
<1> QED BY <1>3, <1>5, <1>6 DEF FreshInv

LEMMA UnmarkFresh ==
  ASSUME TypeInv, FreshInv, StopInv', NEW p \in Procs, CancelUnmark(p) \/ CancelRelease(p)
  PROVE  FreshInv'
<1>0. PICK x \in RequestIds : x = target[p]
  BY DEF CancelUnmark, CancelRelease, TypeInv, ControlOK, CancelLabels
<1>1. /\ pc[p] \in {"unmark", "release"}
      /\ cancelled' \in {cancelled, cancelled \ {x}} /\ active' \in {active, active \ {x}}
      /\ UNCHANGED <<ops, nextOp, queue, shutdown, life, job, target, cur, fin, doomed, seen>>
  BY <1>0 DEF CancelUnmark, CancelRelease, channel, latch, working, history, seen
<1>2. PICK l \in {"release", "notify"} : pc' = [pc EXCEPT ![p] = l]
  BY DEF CancelUnmark, CancelRelease, Goto
<1>3. \A r \in RequestIds : Unused(r) => Unused(r)'
  BY <1>1 DEF Unused, seen
<1>4. /\ SenderInv' /\ QueueOnce'
      /\ \A r : (HeldByThread(r)' <=> HeldByThread(r)) /\ (Queued(r)' <=> Queued(r))
      /\ \/ p = Worker /\ pc'[Worker] = l
         \/ p # Worker /\ pc'[Worker] = pc[Worker]
  BY <1>1, <1>2, <1>3, CancelFrame DEF SendLabels, CancelLabels
<1>5. \A r : /\ Cancelling(r)' <=> Cancelling(r)
             /\ HasOp(r)' <=> HasOp(r)
             /\ Dead(r)' <=> Dead(r)
  BY <1>1, <1>2, CancelGoesOn, QuietFrame, DeadFrame DEF Withdrawn, seen
<1>6. Cancelling(x) /\ Dead(x)
  BY <1>0, <1>1 DEF Cancelling, Withdrawn, Dead
<1>7. ASSUME NEW r \in RequestIds PROVE Fresh(r)'
  BY <1>1, <1>3, <1>4, <1>5, <1>6
  DEF FreshInv, Fresh, UsedOnce, OnePlace, OneAnswer, Reserved, AckHolds, Due, StaysPut, Live,
      InHand, InFin, HandLabels, Linking, CancelLabels, Holding, Registered, FinishLabels,
      Collected, Blocked, NoResult, Answered, Finishing, Unused, seen, StopInv
<1>8. OpsOnce' /\ NoneWaits'
  BY <1>1, <1>4, <1>5 DEF FreshInv, OpsOnce, NoneWaits, Pending, Registered
<1> QED BY <1>4, <1>7, <1>8 DEF FreshInv

LEMMA UnlinkFresh ==
  ASSUME TypeInv, FreshInv, StopInv', NEW p \in Procs, CancelUnlink(p)
  PROVE  FreshInv'
<1>0. PICK x \in RequestIds : x = target[p]
  BY DEF CancelUnlink, TypeInv, ControlOK, CancelLabels
<1>1. /\ pc[p] = "unlink" /\ ops' = Without(OpsOf(x))
      /\ UNCHANGED <<active, cancelled, nextOp, queue, shutdown, life, job, cur, doomed, seen>>
  BY <1>0 DEF CancelUnlink, channel, latch, history, seen
<1>2. \A r \in RequestIds : Unused(r) => Unused(r)'
  BY <1>1 DEF Unused, seen
<1>3. CASE OpsOf(x) # {}
  <2>1. pc' = [pc EXCEPT ![p] = "unmark"] /\ UNCHANGED <<target, fin>>
    BY <1>0, <1>3 DEF CancelUnlink, Goto
  <2>2. /\ SenderInv' /\ QueueOnce'
        /\ \A r : (HeldByThread(r)' <=> HeldByThread(r)) /\ (Queued(r)' <=> Queued(r))
        /\ \/ p = Worker /\ pc'[Worker] = "unmark"
           \/ p # Worker /\ pc'[Worker] = pc[Worker]
    BY <1>1, <1>2, <2>1, CancelFrame DEF SendLabels, CancelLabels
  <2>3. \A r : Cancelling(r)' <=> Cancelling(r) \/ r = x
    BY <1>0, <1>3, UnlinkEffect
  <2>4. \A r : Dead(r)' <=> Dead(r) \/ r = x
    BY <1>1, <2>3 DEF Dead, seen
  <2>5. /\ OpsOf(x) \in SUBSET OpIds /\ HasOp(x)
        /\ \A o \in OpsOf(x) : ops[o].request = x
    BY <1>3 DEF OpsOf, HasOp
  <2>6. /\ \A r : HasOp(r) => HasOp(r)' \/ r = x
        /\ \A r \in RequestIds : HasOp(r)' => HasOp(r)
        /\ \A o \in OpIds : ops'[o] = ops[o] \/ ops'[o] = NoOp
    BY <1>1, <2>5, WithoutOps
  <2>7. \A r \in RequestIds : HasOp(r)' => r # x
    <3>1. ASSUME NEW o \in OpIds, ops'[o].request = x PROVE FALSE
      <4>1. CASE o \in OpsOf(x)
        BY <1>1, <2>5, <3>1, <4>1, WithoutOps, RuntimeAssumption DEF NoOp
      <4>2. CASE o \notin OpsOf(x)
        BY <1>1, <2>5, <3>1, <4>2, WithoutOps DEF OpsOf
      <4> QED BY <4>1, <4>2
    <3> QED BY <3>1 DEF HasOp
  <2>8. ASSUME NEW r \in RequestIds PROVE Fresh(r)'
    BY <1>0, <1>1, <1>2, <2>1, <2>2, <2>3, <2>4, <2>5, <2>6, <2>7
    DEF FreshInv, Fresh, UsedOnce, OnePlace, OneAnswer, Reserved, AckHolds, Due, StaysPut, Live,
        InHand, InFin, HandLabels, Linking, CancelLabels, Holding, Registered, FinishLabels,
        Collected, Blocked, NoResult, Answered, Finishing, Unused, seen
  <2>9. NoneWaits'
    BY <1>1, <2>2, <2>5, WithoutOnce DEF FreshInv, NoneWaits
  <2>10. \A o, q \in OpIds : Pending(o)' /\ ops'[o].request = ops'[q].request => o = q
    BY <1>1, <2>5, WithoutOnce DEF FreshInv
  <2>11. pc'[Worker] \in Registered => pc[Worker] \in Registered /\ fin.request \in RequestIds
    BY <2>2 DEF Registered, Holding, TypeInv, ControlOK
  <2>12. OpsOnce'
    <3>1. ASSUME pc'[Worker] \in Registered PROVE (HasOp(fin.request) \/ Dead(fin.request))'
      <4>1. PICK q \in RequestIds : q = fin.request
        BY <2>11, <3>1
      <4>2. HasOp(q)' \/ Dead(q)'
        BY <2>4, <2>6, <2>11, <3>1, <4>1 DEF FreshInv, OpsOnce
      <4> QED BY <2>1, <4>1, <4>2 DEF HasOp, Dead, Cancelling
    <3>2. ASSUME pc'[Worker] \in Registered, NEW o \in OpIds, ops'[o].request = fin'.request
          PROVE  o = nextOp' - 1
      <4>1. ops'[o] = ops[o]
        BY <2>1, <2>6, <2>11, <3>2, RuntimeAssumption DEF NoOp
      <4> QED BY <1>1, <2>1, <2>11, <3>2, <4>1 DEF FreshInv, OpsOnce
    <3> QED BY <2>10, <3>1, <3>2 DEF OpsOnce
  <2> QED BY <2>2, <2>8, <2>9, <2>12 DEF FreshInv
<1>4. CASE OpsOf(x) = {}
  <2>1. ops' = ops /\ CancelDone(p)
    <3>1. ops' = [o \in OpIds |-> ops[o]]
      BY <1>1, <1>4 DEF Without
    <3>2. ops = [o \in OpIds |-> ops[o]]
      BY DEF TypeInv, TypeOK
    <3> QED BY <1>0, <1>4, <3>1, <3>2 DEF CancelUnlink
  <2>2. /\ p = Worker => /\ pc' = [pc EXCEPT ![p] = "take"]
                         /\ fin' = [request |-> cur.id, event |-> "outcome"]
        /\ p # Worker => pc' = [pc EXCEPT ![p] = "idle"] /\ fin' = fin
        /\ target'[p] = None /\ \A q \in Procs \ {p} : target'[q] = target[q]
        /\ \A r \in RequestIds : Cancelling(r)' <=> Cancelling(r)
    BY <1>1, <2>1, CancelEnds DEF Withdrawn
  <2>3. PICK l \in {"idle", "take"} : pc' = [pc EXCEPT ![p] = l] /\ (p = Worker <=> l = "take")
    BY <2>2
  <2>4. /\ SenderInv' /\ QueueOnce'
        /\ \A r : (HeldByThread(r)' <=> HeldByThread(r)) /\ (Queued(r)' <=> Queued(r))
        /\ \/ p = Worker /\ pc'[Worker] = "take"
           \/ p # Worker /\ pc'[Worker] = pc[Worker]
    BY <1>1, <1>2, <2>3, CancelFrame DEF SendLabels, CancelLabels
  <2>5. /\ \A r : HasOp(r)' <=> HasOp(r)
        /\ \A r \in RequestIds : Dead(r)' <=> Dead(r)
    BY <1>1, <2>1, <2>2, QuietFrame DEF Dead, seen
  <2>6. ~HasOp(x)
    BY <1>4 DEF HasOp, OpsOf
  <2>7. ASSUME NEW r \in RequestIds PROVE Fresh(r)'
    BY <1>0, <1>1, <1>2, <2>1, <2>2, <2>4, <2>5, <2>6, RuntimeAssumption
    DEF FreshInv, Fresh, UsedOnce, OnePlace, OneAnswer, Reserved, AckHolds, Due, StaysPut, Live,
        InHand, InFin, HandLabels, Linking, CancelLabels, Holding, Registered, FinishLabels,
        Collected, Blocked, NoResult, Answered, Finishing, Unused, seen, Procs
  <2>8. OpsOnce' /\ NoneWaits'
    <3>1. pc'[Worker] \in Registered => pc[Worker] \in Registered /\ fin.request \in RequestIds
                                        /\ fin' = fin
      BY <2>2, <2>4 DEF Registered, Holding, TypeInv, ControlOK
    <3>2. NoneWaits'
      BY <1>1, <2>1, <2>4 DEF FreshInv, NoneWaits, Pending
    <3> QED BY <1>1, <2>1, <2>5, <3>1, <3>2 DEF FreshInv, OpsOnce, Pending
  <2> QED BY <2>4, <2>7, <2>8 DEF FreshInv
<1> QED BY <1>3, <1>4

LEMMA NotifiedFresh ==
  ASSUME TypeInv, FreshInv, StopInv', NEW p \in Procs, CancelNotify(p)
  PROVE  FreshInv'
<1>0. PICK x \in RequestIds : x = target[p]
  BY DEF CancelNotify, TypeInv, ControlOK, CancelLabels
<1>1. /\ pc[p] = "notify" /\ Emit(x, "cancelled") /\ CancelDone(p)
      /\ UNCHANGED <<active, cancelled, ops, nextOp, queue, shutdown, life, job, cur, doomed,
                     accepts, acked, owed, delivered>>
  BY <1>0 DEF CancelNotify, registries, channel, latch
<1>2. /\ answers'[x]["cancelled"] = answers[x]["cancelled"] + 1
      /\ answers'[x]["outcome"] = answers[x]["outcome"]
      /\ \A r \in RequestIds \ {x} : answers'[r] = answers[r]
      /\ \A r \in RequestIds : \A e \in Events : answers[r][e] \in Nat /\ answers'[r][e] \in Nat
  BY <1>1, EmitFrame DEF Events
<1>3. Cancelling(x) /\ accepts[x] = 1
  BY <1>0, <1>1 DEF Cancelling, FreshInv, Fresh, UsedOnce
<1>4. \A r \in RequestIds : Unused(r) => r # x /\ Unused(r)'
  BY <1>1, <1>2, <1>3 DEF Unused
<1>5. /\ p = Worker => /\ pc' = [pc EXCEPT ![p] = "take"]
                       /\ fin' = [request |-> cur.id, event |-> "outcome"]
      /\ p # Worker => pc' = [pc EXCEPT ![p] = "idle"] /\ fin' = fin
      /\ target'[p] = None /\ \A q \in Procs \ {p} : target'[q] = target[q]
      /\ \A r \in RequestIds : Cancelling(r)' => Cancelling(r)
      /\ \A r : Cancelling(r) => Cancelling(r)' \/ r = x
  BY <1>0, <1>1, CancelEnds
<1>6. PICK l \in {"idle", "take"} : pc' = [pc EXCEPT ![p] = l] /\ (p = Worker <=> l = "take")
  BY <1>5
<1>7. /\ SenderInv' /\ QueueOnce'
      /\ \A r : (HeldByThread(r)' <=> HeldByThread(r)) /\ (Queued(r)' <=> Queued(r))
      /\ \/ p = Worker /\ pc'[Worker] = "take"
         \/ p # Worker /\ pc'[Worker] = pc[Worker]
  BY <1>1, <1>4, <1>6, CancelFrame DEF SendLabels, CancelLabels
<1>8. /\ \A r : HasOp(r)' <=> HasOp(r)
      /\ \A r \in RequestIds : Dead(r)' <=> Dead(r)
  BY <1>1, <1>2, <1>3, <1>5, QuietFrame DEF Dead, Events
<1>9. ASSUME NEW r \in RequestIds PROVE Fresh(r)'
  BY <1>0, <1>1, <1>2, <1>3, <1>4, <1>5, <1>7, <1>8, RuntimeAssumption
  DEF FreshInv, Fresh, UsedOnce, OnePlace, OneAnswer, Reserved, AckHolds, Due, StaysPut, Live,
      InHand, InFin, HandLabels, Linking, CancelLabels, Holding, Registered, FinishLabels,
      Collected, Blocked, NoResult, Answered, Finishing, Unused, Procs, Events
<1>10. OpsOnce' /\ NoneWaits'
  <2>1. pc'[Worker] \in Registered => pc[Worker] \in Registered /\ fin.request \in RequestIds
                                      /\ fin' = fin
    BY <1>5, <1>7 DEF Registered, Holding, TypeInv, ControlOK
  <2>2. NoneWaits'
    BY <1>1, <1>7 DEF FreshInv, NoneWaits, Pending
  <2> QED BY <1>1, <1>8, <2>1, <2>2 DEF FreshInv, OpsOnce, Pending
<1> QED BY <1>7, <1>9, <1>10 DEF FreshInv

\* The steps of a host thread in send.
LEMMA HostFrame ==
  ASSUME TypeInv, FreshInv, NEW t \in Threads, NEW l, pc' = [pc EXCEPT ![t] = l],
         pc[t] \in {"idle"} \union SendLabels, l \in {"idle"} \union SendLabels,
         NEW c, job' = [job EXCEPT ![t] = c], UNCHANGED <<target, ops, doomed, answers>>
  PROVE  /\ pc'[Worker] = pc[Worker] /\ pc'[t] = l /\ job'[t] = c
         /\ \A u \in Threads \ {t} : pc'[u] = pc[u] /\ job'[u] = job[u]
         /\ \A r : /\ Cancelling(r)' <=> Cancelling(r)
                   /\ HasOp(r)' <=> HasOp(r)
                   /\ Dead(r)' <=> Dead(r)
                   /\ HeldByThread(r)' => HeldByThread(r) \/ (l = "enqueue" /\ c.id = r)
                   /\ l = "enqueue" /\ c.id = r => HeldByThread(r)'
                   /\ HeldByThread(r) => HeldByThread(r)' \/ (pc[t] = "enqueue" /\ job[t].id = r)
<1>1. /\ pc'[Worker] = pc[Worker] /\ pc'[t] = l /\ job'[t] = c
      /\ \A u \in Threads \ {t} : pc'[u] = pc[u] /\ job'[u] = job[u]
  BY RuntimeAssumption DEF TypeInv, TypeOK, Procs
<1>2. \A r : (Cancelling(r)' <=> Cancelling(r)) /\ (HasOp(r)' <=> HasOp(r))
  BY SendFrame, QuietFrame
<1>3. \A r : Dead(r)' <=> Dead(r)
  BY <1>2, DeadFrame
<1>4. ASSUME NEW r
      PROVE  /\ HeldByThread(r)' => HeldByThread(r) \/ (l = "enqueue" /\ c.id = r)
             /\ l = "enqueue" /\ c.id = r => HeldByThread(r)'
             /\ HeldByThread(r) => HeldByThread(r)' \/ (pc[t] = "enqueue" /\ job[t].id = r)
  <2>1. HeldByThread(r) <=> \/ pc[t] = "enqueue" /\ job[t].id = r
                            \/ \E u \in Threads \ {t} : pc[u] = "enqueue" /\ job[u].id = r
    BY DEF HeldByThread
  <2>2. HeldByThread(r)' <=> \/ pc'[t] = "enqueue" /\ job'[t].id = r
                             \/ \E u \in Threads \ {t} : pc'[u] = "enqueue" /\ job'[u].id = r
    BY DEF HeldByThread
  <2>3. HeldByThread(r)' <=> \/ l = "enqueue" /\ c.id = r
                             \/ \E u \in Threads \ {t} : pc[u] = "enqueue" /\ job[u].id = r
    BY <1>1, <2>2
  <2> QED BY <2>1, <2>3
<1> QED BY <1>1, <1>2, <1>3, <1>4

LEMMA BeginFresh ==
  ASSUME TypeInv, FreshInv, StopInv', FreshIds, NEW t \in Threads,
         NEW c \in Command, SendBegin(t, c)
  PROVE  FreshInv'
<1>1. /\ pc[t] = "idle" /\ ~shutdown /\ pc' = [pc EXCEPT ![t] = "reserve"]
      /\ job' = [job EXCEPT ![t] = c] /\ c.id \in RequestIds
      /\ accepts[c.id] + Cardinality(Sending(c.id)) < MaxUses[c.id]
      /\ UNCHANGED <<active, cancelled, ops, nextOp, queue, shutdown, life, target, cur, fin,
                     doomed, seen>>
  BY DEF SendBegin, Goto, registries, channel, latch, working, history, seen, Command
<1>2. accepts[c.id] = 0 /\ Sending(c.id) = {}
  <2>1. Sending(c.id) \in SUBSET Threads /\ IsFiniteSet(Threads)
    BY RuntimeAssumption DEF Sending
  <2>2. IsFiniteSet(Sending(c.id))
    BY <2>1, FS_Subset
  <2>3. Cardinality(Sending(c.id)) \in Nat /\ (Cardinality(Sending(c.id)) = 0 <=> Sending(c.id) = {})
    BY <2>2, FS_CardinalityType, FS_EmptySet
  <2>4. MaxUses[c.id] \in Nat /\ MaxUses[c.id] <= 1 /\ accepts[c.id] \in {0, 1}
    BY <1>1, RuntimeAssumption DEF FreshIds, FreshInv, Fresh, UsedOnce
  <2> QED BY <1>1, <2>3, <2>4
<1>3. /\ pc'[Worker] = pc[Worker] /\ pc'[t] = "reserve" /\ job'[t] = c
      /\ \A u \in Threads \ {t} : pc'[u] = pc[u] /\ job'[u] = job[u]
      /\ \A r : /\ Cancelling(r)' <=> Cancelling(r)
                /\ HasOp(r)' <=> HasOp(r)
                /\ Dead(r)' <=> Dead(r)
                /\ HeldByThread(r)' <=> HeldByThread(r)
  BY <1>1, HostFrame DEF seen, SendLabels
<1>4. \A r : (Queued(r)' <=> Queued(r)) /\ (Unused(r)' <=> Unused(r))
  BY <1>1, QuietFrame DEF Unused, seen
<1>5. SenderInv'
  <2>1. Unused(c.id)'
    BY <1>1, <1>2, <1>4 DEF FreshInv, Fresh, UsedOnce
  <2>2. \A u \in Threads : job[u].id # c.id
    BY <1>2 DEF Sending
  <2> QED BY <1>3, <1>4, <2>1, <2>2 DEF FreshInv, SenderInv, SendLabels
<1>6. ASSUME NEW r \in RequestIds PROVE Fresh(r)'
  BY <1>1, <1>3, <1>4
  DEF FreshInv, Fresh, UsedOnce, OnePlace, OneAnswer, Reserved, AckHolds, Due, StaysPut, Live,
      InHand, InFin, HandLabels, Linking, CancelLabels, Holding, Registered, FinishLabels,
      Collected, Blocked, NoResult, Answered, Finishing, Unused, seen
<1>7. QueueOnce' /\ OpsOnce' /\ NoneWaits'
  BY <1>1, <1>3 DEF FreshInv, QueueOnce, OpsOnce, NoneWaits, Pending
<1> QED BY <1>5, <1>6, <1>7 DEF FreshInv

LEMMA ReserveFresh ==
  ASSUME TypeInv, FreshInv, StopInv', NEW t \in Threads, SendReserve(t)
  PROVE  FreshInv'
<1>0. PICK q \in RequestIds : q = job[t].id
  BY DEF SendReserve, TypeInv, ControlOK, SendLabels, Command
<1>1. /\ pc[t] = "reserve" /\ pc' = [pc EXCEPT ![t] = "enqueue"] /\ active' = active \union {q}
      /\ accepts' = [accepts EXCEPT ![q] = @ + 1]
      /\ acked' = acked \ {q} /\ owed' = owed \ {q} /\ delivered' = delivered \ {q}
      /\ UNCHANGED <<cancelled, ops, nextOp, queue, shutdown, life, job, target, cur, fin,
                     doomed, answers>>
  BY <1>0 DEF SendReserve, Goto, channel, latch, working
<1>2. Unused(q) /\ accepts[q] = 0 /\ q \notin active
  BY <1>0, <1>1 DEF FreshInv, SenderInv, Unused
<1>3. accepts'[q] = 1 /\ \A r \in RequestIds \ {q} : accepts'[r] = accepts[r]
  BY <1>1, <1>2 DEF TypeInv, TypeOK
<1>4. job' = [job EXCEPT ![t] = job[t]]
  BY <1>1 DEF TypeInv, TypeOK
<1>5. /\ pc'[Worker] = pc[Worker] /\ pc'[t] = "enqueue"
      /\ \A u \in Threads \ {t} : pc'[u] = pc[u]
      /\ \A r : /\ Cancelling(r)' <=> Cancelling(r)
                /\ HasOp(r)' <=> HasOp(r)
                /\ Dead(r)' <=> Dead(r)
                /\ HeldByThread(r)' <=> HeldByThread(r) \/ r = q
  <2>1. /\ pc'[Worker] = pc[Worker] /\ pc'[t] = "enqueue"
        /\ \A u \in Threads \ {t} : pc'[u] = pc[u]
    BY <1>1, RuntimeAssumption DEF TypeInv, TypeOK, Procs
  <2>2. \A r : (Cancelling(r)' <=> Cancelling(r)) /\ (HasOp(r)' <=> HasOp(r))
    BY <1>1, <1>4, SendFrame, QuietFrame DEF SendLabels
  <2>3. \A r : Dead(r)' <=> Dead(r)
    BY <1>1, <2>2, DeadFrame
  <2>4. ASSUME NEW r PROVE HeldByThread(r)' <=> HeldByThread(r) \/ r = q
    <3>1. HeldByThread(r) <=> \E u \in Threads \ {t} : pc[u] = "enqueue" /\ job[u].id = r
      BY <1>1 DEF HeldByThread
    <3>2. HeldByThread(r)' <=> \/ q = r
                               \/ \E u \in Threads \ {t} : pc[u] = "enqueue" /\ job[u].id = r
      BY <1>0, <1>1, <2>1 DEF HeldByThread
    <3> QED BY <3>1, <3>2
  <2> QED BY <2>1, <2>2, <2>3, <2>4
<1>6. \A r : Queued(r)' <=> Queued(r)
  BY <1>1, QuietFrame
<1>7. \A r \in RequestIds \ {q} : Unused(r) => Unused(r)'
  BY <1>1, <1>3 DEF Unused
<1>8. ~Live(q) /\ ~Cancelling(q) /\ q \notin doomed /\ ~Dead(q) /\ answers[q]["outcome"] = 0
  BY <1>2 DEF FreshInv, Fresh, UsedOnce, Unused, Dead, Events
<1>9. SenderInv'
  BY <1>0, <1>1, <1>5, <1>7 DEF FreshInv, SenderInv, SendLabels, TypeInv, ControlOK, Command
<1>10. ASSUME NEW r \in RequestIds PROVE Fresh(r)'
  BY <1>1, <1>2, <1>3, <1>5, <1>6, <1>7, <1>8
  DEF FreshInv, Fresh, UsedOnce, OnePlace, OneAnswer, Reserved, AckHolds, Due, StaysPut, Live,
      InHand, InFin, HandLabels, Linking, CancelLabels, Holding, Registered, FinishLabels,
      Collected, Blocked, NoResult, Answered, Finishing, Unused
<1>11. QueueOnce' /\ OpsOnce' /\ NoneWaits'
  BY <1>1, <1>5 DEF FreshInv, QueueOnce, OpsOnce, NoneWaits, Pending
<1> QED BY <1>9, <1>10, <1>11 DEF FreshInv

\* A fresh id is never turned down as a duplicate.
LEMMA NoDuplicate ==
  ASSUME FreshInv, NEW t \in Threads
  PROVE  ~SendDuplicate(t)
BY DEF FreshInv, SenderInv, Unused, SendDuplicate

LEMMA EnqueueFresh ==
  ASSUME TypeInv, FreshInv, StopInv', NEW t \in Threads, SendEnqueue(t)
  PROVE  FreshInv'
<1>0. PICK q \in RequestIds : q = job[t].id
  BY DEF SendEnqueue, TypeInv, ControlOK, SendLabels, Command
<1>1. /\ pc[t] = "enqueue" /\ pc' = [pc EXCEPT ![t] = "idle"] /\ job' = [job EXCEPT ![t] = NoCommand]
      /\ queue' = Append(queue, job[t]) /\ owed' \in {owed, owed \union {q}}
      /\ shutdown => owed' = owed
      /\ UNCHANGED <<active, cancelled, ops, nextOp, shutdown, life, target, cur, fin, doomed,
                     accepts, answers, acked, delivered>>
  BY <1>0 DEF SendEnqueue, Goto, registries, latch, working
<1>2. queue \in Seq(WorkItem) /\ job[t] \in WorkItem
  BY <1>1 DEF TypeInv, TypeOK, ControlOK, SendLabels, WorkItem
<1>3. \A r : Queued(r)' <=> Queued(r) \/ r = q
  BY <1>0, <1>1, <1>2, QueuedAppend
<1>4. HeldByThread(q) /\ ~Queued(q) /\ accepts[q] = 1
  BY <1>0, <1>1 DEF HeldByThread, FreshInv, Fresh, OnePlace, UsedOnce, Live
<1>5. /\ pc'[Worker] = pc[Worker] /\ pc'[t] = "idle" /\ job'[t] = NoCommand
      /\ \A u \in Threads \ {t} : pc'[u] = pc[u] /\ job'[u] = job[u]
      /\ \A r : /\ Cancelling(r)' <=> Cancelling(r)
                /\ HasOp(r)' <=> HasOp(r)
                /\ Dead(r)' <=> Dead(r)
                /\ HeldByThread(r)' => HeldByThread(r)
                /\ HeldByThread(r) => HeldByThread(r)' \/ r = q
  <2>1. /\ pc[t] \in {"idle"} \union SendLabels /\ "idle" \in {"idle"} \union SendLabels
        /\ pc' = [pc EXCEPT ![t] = "idle"] /\ job' = [job EXCEPT ![t] = NoCommand]
        /\ UNCHANGED <<target, ops, doomed, answers>>
    BY <1>1 DEF SendLabels
  <2>2. /\ pc'[Worker] = pc[Worker] /\ pc'[t] = "idle" /\ job'[t] = NoCommand
        /\ \A u \in Threads \ {t} : pc'[u] = pc[u] /\ job'[u] = job[u]
    BY <2>1, HostFrame
  <2>3. \A r : /\ Cancelling(r)' <=> Cancelling(r)
               /\ HasOp(r)' <=> HasOp(r)
               /\ Dead(r)' <=> Dead(r)
    BY <2>1, HostFrame
  <2>4. \A r : /\ HeldByThread(r)' => HeldByThread(r) \/ ("idle" = "enqueue" /\ NoCommand.id = r)
               /\ HeldByThread(r) => HeldByThread(r)' \/ (pc[t] = "enqueue" /\ job[t].id = r)
    BY <2>1, HostFrame
  <2> QED BY <1>0, <2>2, <2>3, <2>4
<1>6. ~HeldByThread(q)'
  BY <1>0, <1>1, <1>5 DEF HeldByThread, FreshInv, SenderInv
<1>7. \A r \in RequestIds : Unused(r) => Unused(r)'
  BY <1>1, <1>4 DEF Unused
<1>8. SenderInv'
  <2>1. NoCommand.id \notin RequestIds
    BY RuntimeAssumption DEF NoCommand
  <2> QED BY <1>5, <1>7, <2>1 DEF FreshInv, SenderInv, SendLabels, TypeInv, ControlOK, Command
<1>9. QueueOnce'
  <2>1. /\ Len(queue') = Len(queue) + 1 /\ queue'[Len(queue) + 1] = job[t] /\ Len(queue) \in Nat
        /\ \A i \in 1..Len(queue) : queue'[i] = queue[i]
    BY <1>1, <1>2
  <2>2. \A i \in 1..Len(queue) : queue[i].id # q
    BY <1>4 DEF Queued
  <2> QED BY <1>0, <2>1, <2>2 DEF FreshInv, QueueOnce
<1>10. Finishing => shutdown
  BY DEF FreshInv, StopInv, Finishing
<1>11. ASSUME NEW r \in RequestIds PROVE Fresh(r)'
  BY <1>1, <1>3, <1>4, <1>5, <1>6, <1>7, <1>10
  DEF FreshInv, Fresh, UsedOnce, OnePlace, OneAnswer, Reserved, AckHolds, Due, StaysPut, Live,
      InHand, InFin, HandLabels, Linking, CancelLabels, Holding, Registered, FinishLabels,
      Collected, Blocked, NoResult, Answered, Finishing, Unused
<1>12. OpsOnce' /\ NoneWaits'
  BY <1>1, <1>5 DEF FreshInv, OpsOnce, NoneWaits, Pending
<1> QED BY <1>8, <1>9, <1>11, <1>12 DEF FreshInv

LEMMA RefusedFresh ==
  ASSUME TypeInv, FreshInv, StopInv', NEW t \in Threads, SendRefused(t)
  PROVE  FreshInv'
<1>0. PICK q \in RequestIds : q = job[t].id
  BY DEF SendRefused, TypeInv, ControlOK, SendLabels, Command
<1>1. /\ pc[t] = "enqueue" /\ pc' = [pc EXCEPT ![t] = "idle"] /\ job' = [job EXCEPT ![t] = NoCommand]
      /\ active' = active \ {q} /\ accepts' = [accepts EXCEPT ![q] = @ - 1] /\ ~rxOpen
      /\ UNCHANGED <<cancelled, ops, nextOp, queue, shutdown, life, target, cur, fin, doomed,
                     answers, acked, owed, delivered>>
  BY <1>0 DEF SendRefused, Goto, channel, latch, working
<1>2. pc[Worker] = "stopped" /\ shutdown /\ doomed = {}
  BY <1>1 DEF FreshInv, StopInv
<1>3. HeldByThread(q) /\ accepts[q] = 1
  BY <1>0, <1>1 DEF HeldByThread, FreshInv, Fresh, UsedOnce, Live
<1>4. accepts'[q] = 0 /\ \A r \in RequestIds \ {q} : accepts'[r] = accepts[r]
  BY <1>1, <1>3 DEF TypeInv, TypeOK
<1>5. /\ pc'[Worker] = pc[Worker] /\ pc'[t] = "idle" /\ job'[t] = NoCommand
      /\ \A u \in Threads \ {t} : pc'[u] = pc[u] /\ job'[u] = job[u]
      /\ \A r : /\ Cancelling(r)' <=> Cancelling(r)
                /\ HasOp(r)' <=> HasOp(r)
                /\ Dead(r)' <=> Dead(r)
                /\ HeldByThread(r)' => HeldByThread(r)
                /\ HeldByThread(r) => HeldByThread(r)' \/ r = q
  <2>1. /\ pc[t] \in {"idle"} \union SendLabels /\ "idle" \in {"idle"} \union SendLabels
        /\ pc' = [pc EXCEPT ![t] = "idle"] /\ job' = [job EXCEPT ![t] = NoCommand]
        /\ UNCHANGED <<target, ops, doomed, answers>>
    BY <1>1 DEF SendLabels
  <2>2. /\ pc'[Worker] = pc[Worker] /\ pc'[t] = "idle" /\ job'[t] = NoCommand
        /\ \A u \in Threads \ {t} : pc'[u] = pc[u] /\ job'[u] = job[u]
    BY <2>1, HostFrame
  <2>3. \A r : /\ Cancelling(r)' <=> Cancelling(r)
               /\ HasOp(r)' <=> HasOp(r)
               /\ Dead(r)' <=> Dead(r)
    BY <2>1, HostFrame
  <2>4. \A r : /\ HeldByThread(r)' => HeldByThread(r) \/ ("idle" = "enqueue" /\ NoCommand.id = r)
               /\ HeldByThread(r) => HeldByThread(r)' \/ (pc[t] = "enqueue" /\ job[t].id = r)
    BY <2>1, HostFrame
  <2> QED BY <1>0, <2>2, <2>3, <2>4
<1>6. ~HeldByThread(q)'
  BY <1>0, <1>1, <1>5 DEF HeldByThread, FreshInv, SenderInv
<1>7. \A r : Queued(r)' <=> Queued(r)
  BY <1>1, QuietFrame
<1>8. \A r \in RequestIds : Unused(r) => r # q /\ Unused(r)'
  BY <1>1, <1>3, <1>4 DEF Unused
<1>9. SenderInv'
  <2>1. NoCommand.id \notin RequestIds
    BY RuntimeAssumption DEF NoCommand
  <2> QED BY <1>5, <1>8, <2>1 DEF FreshInv, SenderInv, SendLabels, TypeInv, ControlOK, Command
<1>10. ASSUME NEW r \in RequestIds PROVE Fresh(r)'
  BY <1>1, <1>2, <1>3, <1>4, <1>5, <1>6, <1>7, <1>8
  DEF FreshInv, Fresh, UsedOnce, OnePlace, OneAnswer, Reserved, AckHolds, Due, StaysPut, Live,
      InHand, InFin, HandLabels, Linking, CancelLabels, Holding, Registered, FinishLabels,
      Collected, Blocked, NoResult, Answered, Finishing, Unused
<1>11. QueueOnce' /\ OpsOnce' /\ NoneWaits'
  BY <1>1, <1>5 DEF FreshInv, QueueOnce, OpsOnce, NoneWaits, Pending
<1> QED BY <1>9, <1>10, <1>11 DEF FreshInv

LEMMA CancelBeginFresh ==
  ASSUME TypeInv, FreshInv, StopInv', NEW t \in Threads, NEW q \in RequestIds, CancelBegin(t, q)
  PROVE  FreshInv'
<1>1. /\ pc[t] = "idle" /\ pc' = [pc EXCEPT ![t] = "mark"] /\ target' = [target EXCEPT ![t] = q]
      /\ UNCHANGED <<active, cancelled, ops, nextOp, queue, shutdown, life, job, cur, fin,
                     doomed, seen>>
  BY DEF CancelBegin, Goto, registries, channel, latch, working, history, seen
<1>2. /\ pc'[t] = "mark" /\ pc'[Worker] = pc[Worker] /\ target'[Worker] = target[Worker]
      /\ \A p \in Procs \ {t} : pc'[p] = pc[p] /\ target'[p] = target[p]
  BY <1>1, RuntimeAssumption DEF TypeInv, TypeOK, Procs
<1>3. \A r : HeldByThread(r)' <=> HeldByThread(r)
  BY <1>1, <1>2 DEF HeldByThread, Procs
<1>4. \A r : Cancelling(r)' <=> Cancelling(r)
  BY <1>1, <1>2 DEF Cancelling, Withdrawn, Procs
<1>5. \A r : /\ Queued(r)' <=> Queued(r)
             /\ HasOp(r)' <=> HasOp(r)
             /\ Dead(r)' <=> Dead(r)
             /\ Unused(r)' <=> Unused(r)
  BY <1>1, <1>4, QuietFrame, DeadFrame DEF Unused, seen
<1>6. SenderInv'
  BY <1>1, <1>2, <1>5 DEF FreshInv, SenderInv, SendLabels, Procs
<1>7. ASSUME NEW r \in RequestIds PROVE Fresh(r)'
  BY <1>1, <1>2, <1>3, <1>4, <1>5
  DEF FreshInv, Fresh, UsedOnce, OnePlace, OneAnswer, Reserved, AckHolds, Due, StaysPut, Live,
      InHand, InFin, HandLabels, Linking, CancelLabels, Holding, Registered, FinishLabels,
      Collected, Blocked, NoResult, Answered, Finishing, Unused, seen
<1>8. QueueOnce' /\ OpsOnce' /\ NoneWaits'
  BY <1>1, <1>2, <1>5 DEF FreshInv, QueueOnce, OpsOnce, NoneWaits, Pending
<1> QED BY <1>6, <1>7, <1>8 DEF FreshInv

LEMMA DestroyFresh ==
  ASSUME TypeInv, FreshInv, StopInv', DestroyStep \/ UNCHANGED vars
  PROVE  FreshInv'
<1>1. /\ UNCHANGED <<active, cancelled, ops, nextOp, pc, job, target, cur, fin, doomed, seen>>
      /\ shutdown => shutdown'
      /\ life' = "running" => life = "running" /\ shutdown' = shutdown
      /\ queue' = queue \/ queue' = Append(queue, Stop)
  BY DEF DestroyStep, DestroyBegin, DestroySignal, DestroyJoin, vars, registries, channel, latch,
     working, history, seen
<1>2. queue \in Seq(WorkItem) /\ Stop \in WorkItem /\ Stop.id \notin RequestIds
  BY RuntimeAssumption DEF TypeInv, TypeOK, WorkItem, Stop
<1>3. QueueOnce' /\ \A r \in RequestIds : Queued(r)' <=> Queued(r)
  <2>1. CASE queue' = queue
    BY <2>1, QuietFrame DEF FreshInv, QueueOnce
  <2>2. CASE queue' = Append(queue, Stop)
    <3>1. /\ Len(queue') = Len(queue) + 1 /\ queue'[Len(queue) + 1] = Stop /\ Len(queue) \in Nat
          /\ \A i \in 1..Len(queue) : queue'[i] = queue[i]
      BY <1>2, <2>2
    <3>2. QueueOnce'
      BY <1>2, <3>1 DEF FreshInv, QueueOnce
    <3>3. \A r \in RequestIds : Queued(r)' <=> Queued(r)
      BY <1>2, <2>2, QueuedAppend
    <3> QED BY <3>2, <3>3
  <2> QED BY <1>1, <2>1, <2>2
<1>4. \A r : /\ HeldByThread(r)' <=> HeldByThread(r)
             /\ Cancelling(r)' <=> Cancelling(r)
             /\ HasOp(r)' <=> HasOp(r)
             /\ Dead(r)' <=> Dead(r)
             /\ Unused(r)' <=> Unused(r)
  BY <1>1, QuietFrame DEF HeldByThread, Cancelling, Dead, Unused, seen
<1>5. SenderInv'
  BY <1>1, <1>4 DEF FreshInv, SenderInv
<1>6. ASSUME NEW r \in RequestIds PROVE Fresh(r)'
  BY <1>1, <1>3, <1>4
  DEF FreshInv, Fresh, UsedOnce, OnePlace, OneAnswer, Reserved, AckHolds, Due, StaysPut, Live,
      InHand, InFin, HandLabels, Linking, CancelLabels, Holding, Registered, FinishLabels,
      Collected, Blocked, NoResult, Answered, Finishing, Unused, seen
<1>7. OpsOnce' /\ NoneWaits'
  BY <1>1, <1>4 DEF FreshInv, OpsOnce, NoneWaits, Pending
<1> QED BY <1>3, <1>5, <1>6, <1>7 DEF FreshInv

-----------------------------------------------------------------------------
(***************************************************************************)
(* The invariant, and what follows from it.                                *)
(***************************************************************************)
LEMMA NextFreshInv ==
  ASSUME FreshIds
  PROVE  TypeInv /\ LatchInv /\ OrphanInv /\ FreshInv /\ [Next]_vars => FreshInv'
<1> SUFFICES ASSUME TypeInv, LatchInv, OrphanInv, FreshInv, [Next]_vars PROVE FreshInv'
  OBVIOUS
<1>0. StopInv'
  BY NextStopInv DEF FreshInv
<1>1. CASE WorkerStep
  <2>1. CASE ShutdownStep
    BY <1>0, <2>1, ShutdownQuietFresh, CollectFresh, DropOpsFresh, NotifyFresh DEF ShutdownStep
  <2>2. CASE CancelStep(Worker)
    BY <1>0, <2>2, MarkFresh, UnlinkFresh, UnmarkFresh, NotifiedFresh DEF CancelStep, Procs
  <2> QED BY <1>0, <1>1, <2>1, <2>2, QueueFresh, LoopQuietFresh, ExecuteQuietFresh,
             ExecuteCancelFresh, FinishQuietFresh, ClaimFresh, RegisterFresh, UnregisterFresh,
             EmitFresh
          DEF WorkerStep
<1>2. ASSUME NEW t \in Threads, ThreadStep(t) PROVE FreshInv'
  <2>1. CASE CancelStep(t)
    BY <1>0, <2>1, MarkFresh, UnlinkFresh, UnmarkFresh, NotifiedFresh DEF CancelStep, Procs
  <2> QED BY <1>0, <1>2, <2>1, ReserveFresh, NoDuplicate, EnqueueFresh, RefusedFresh
          DEF ThreadStep
<1>3. ASSUME NEW t \in Threads, ThreadCall(t) PROVE FreshInv'
  <2>1. CASE \E r \in RequestIds : CancelBegin(t, r)
    BY <1>0, <2>1, CancelBeginFresh
  <2>2. ASSUME NEW r \in RequestIds, NEW c \in Commands(r), SendBegin(t, c) PROVE FreshInv'
    <3>1. c \in Command
      BY CommandsType DEF TypeInv
    <3> QED BY <1>0, <2>2, <3>1, BeginFresh
  <2> QED BY <1>3, <2>1, <2>2 DEF ThreadCall
<1>4. CASE DestroyStep \/ UNCHANGED vars
  BY <1>0, <1>4, DestroyFresh
<1> QED BY <1>1, <1>2, <1>3, <1>4 DEF Next

LEMMA InitFreshInv == Init => FreshInv
<1> SUFFICES ASSUME Init PROVE FreshInv
  OBVIOUS
<1>1. /\ active = {} /\ queue = <<>> /\ rxOpen = TRUE /\ shutdown = FALSE /\ life = "running"
      /\ pc[Worker] = "recv" /\ \A t \in Threads : pc[t] = "idle" /\ job[t] = NoCommand
      /\ cur = NoCommand /\ fin = NoAnswer /\ doomed = {}
      /\ \A o \in OpIds : ops[o] = NoOp
      /\ \A r \in RequestIds : accepts[r] = 0 /\ \A e \in Events : answers[r][e] = 0
      /\ acked = {} /\ owed = {} /\ delivered = {}
  BY RuntimeAssumption DEF Init, Procs
<1>2. /\ \A p \in Procs : pc[p] \in {"recv", "idle"}
      /\ NoCommand.id \notin RequestIds /\ NoAnswer.request \notin RequestIds
      /\ NoOp.request \notin RequestIds /\ "outcome" \in Events
  BY <1>1, RuntimeAssumption DEF Procs, NoCommand, NoAnswer, NoOp, Events
<1>3. ASSUME NEW r \in RequestIds
      PROVE  ~Live(r) /\ ~Cancelling(r) /\ ~Dead(r) /\ Unused(r)
  <2>1. ~HeldByThread(r) /\ ~Queued(r) /\ ~InHand(r) /\ ~InFin(r) /\ ~HasOp(r)
    BY <1>1, <1>2
    DEF HeldByThread, Queued, InHand, InFin, HasOp, HandLabels, Linking, CancelLabels, Holding
  <2>2. ~Cancelling(r)
    BY <1>2 DEF Cancelling, Withdrawn
  <2> QED BY <1>1, <2>1, <2>2 DEF Live, Dead, Unused, Events
<1>4. StopInv
  <2>1. ~Queued(None)
    BY <1>1 DEF Queued
  <2>2. rxOpen = (pc[Worker] # "stopped")
    BY <1>1
  <2> QED BY <1>1, <2>1, <2>2 DEF StopInv, Collecting
<1>5. SenderInv /\ QueueOnce /\ NoneWaits
  BY <1>1, <1>2 DEF SenderInv, QueueOnce, NoneWaits, SendLabels, Pending
<1>6. OpsOnce
  BY <1>1 DEF OpsOnce, Registered, Pending
<1>7. ASSUME NEW r \in RequestIds PROVE Fresh(r)
  BY <1>1, <1>2, <1>3 DEF Fresh, UsedOnce, OnePlace, OneAnswer, Reserved, AckHolds, Due, Live
<1> QED BY <1>4, <1>5, <1>6, <1>7 DEF FreshInv

LEMMA AlwaysFreshInv ==
  ASSUME FreshIds
  PROVE  Spec => [](TypeInv /\ LatchInv /\ OrphanInv /\ FreshInv)
<1>1. Init => LatchInv /\ FreshInv
  BY InitFreshInv DEF Init, LatchInv
<1>2. TypeInv /\ LatchInv /\ [Next]_vars => LatchInv'
  BY NextLatchInv
<1>3. TypeInv /\ LatchInv /\ OrphanInv /\ FreshInv /\ [Next]_vars => FreshInv'
  BY NextFreshInv
<1> QED BY <1>1, <1>2, <1>3, AlwaysTypeInv, AlwaysOrphanInv, PTL DEF Spec

\* The reservation lasts as long as the command: an id is not free to be accepted
\* again while its command still waits in the queue, unless the latch is set.
THEOREM QueuedStaysReserved ==
  ASSUME FreshIds
  PROVE  Spec => []QueuedIsReserved
<1>1. FreshInv => QueuedIsReserved
  <2> SUFFICES ASSUME FreshInv, ~shutdown, NEW r \in RequestIds, Queued(r) PROVE r \in active
    BY DEF QueuedIsReserved
  <2>1. ~Collected
    BY DEF FreshInv, StopInv, Collected, Collecting
  <2> QED BY <2>1 DEF FreshInv, Fresh, Reserved
<1> QED BY <1>1, AlwaysFreshInv, PTL

\* A pending host operation serves one active request, and no request waits for
\* two, however registrations, claims, cancels and a shutdown interleave.
THEOREM OperationServesOne ==
  ASSUME FreshIds
  PROVE  Spec => []PendingServesActive
<1>1. TypeInv /\ FreshInv => PendingServesActive
  <2> SUFFICES ASSUME TypeInv, FreshInv, NEW o \in OpIds, Pending(o)
               PROVE  /\ ops[o].request \in active \/ pc[Worker] = "dropOps"
                      /\ \A q \in OpIds \ {o} : ops[q].request # ops[o].request
    BY DEF PendingServesActive
  <2>1. ops[o].request \in RequestIds
    BY DEF TypeInv, TypeOK, Pending, HostOperation
  <2>2. HasOp(ops[o].request)
    BY DEF HasOp
  <2> QED BY <2>1, <2>2 DEF FreshInv, Fresh, Reserved, OpsOnce
<1> QED BY <1>1, AlwaysFreshInv, PTL

\* A cancel that runtime.cancel has confirmed is final: whatever the worker, the
\* host's replies and the other cancels do next, the request gets no result.
THEOREM ConfirmedCancelIsFinal ==
  ASSUME FreshIds
  PROVE  Spec => []ConfirmedCancelHolds
<1>1. TypeInv /\ FreshInv => ConfirmedCancelHolds
  BY DEF TypeInv, TypeOK, FreshInv, Fresh, AckHolds, ConfirmedCancelHolds
<1> QED BY <1>1, AlwaysFreshInv, PTL

\* A runtime.shutdown leaves no command unanswered that was accepted before the
\* latch: it has an answer, it was a host reply that arrived, or a host thread that
\* took its operation away is about to answer it.
THEOREM ShutdownLeavesNone ==
  ASSUME FreshIds
  PROVE  Spec => []ShutdownAnswersAll
<1>1. TypeInv /\ FreshInv => ShutdownAnswersAll
  <2> SUFFICES ASSUME TypeInv, FreshInv, life = "running", pc[Worker] = "stopped", NEW r \in owed
               PROVE  \/ \E e \in Events : answers[r][e] > 0
                      \/ r \in delivered
                      \/ \E t \in Threads : target[t] = r /\ pc[t] \in {"unmark", "release", "notify"}
    BY DEF ShutdownAnswersAll
  <2>1. r \in RequestIds /\ shutdown /\ doomed = {} /\ Finishing
    BY DEF TypeInv, TypeOK, FreshInv, StopInv, Finishing
  <2>2. ~InHand(r) /\ ~InFin(r)
    BY DEF InHand, InFin, HandLabels, Linking, CancelLabels, Holding
  <2>3. ~HasOp(r)
    <3>1. \A o \in OpIds : ops[o] = NoOp
      BY <2>1 DEF FreshInv, NoneWaits, Pending
    <3> QED BY <2>1, <3>1, RuntimeAssumption DEF HasOp, NoOp
  <2>4. Answered(r) \/ r \in delivered \/ Cancelling(r)
    BY <2>1, <2>2, <2>3 DEF FreshInv, Fresh, Due
  <2> QED BY <2>4 DEF Answered, Cancelling, Withdrawn, Procs
<1> QED BY <1>1, AlwaysFreshInv, PTL

-----------------------------------------------------------------------------
(***************************************************************************)
(* The engine implements RequestLifecycle: the phase of a request, as the  *)
(* host sees it, and how each step moves it.                               *)
(***************************************************************************)
Phases == [r \in RequestIds |-> Phase(r)]
Outcome(r) == answers[r]["outcome"]
Cancels(r) == answers[r]["cancelled"]

\* The phase of a request with at most one result and not both answers.
LEMMA PhaseValue ==
  ASSUME NEW r, Outcome(r) \in Nat, Cancels(r) \in Nat
  PROVE  /\ Outcome(r) = 1 /\ Cancels(r) = 0 => Phase(r) = "answered"
         /\ Outcome(r) = 0 /\ Cancels(r) > 0 => Phase(r) = "cancelled"
         /\ Outcome(r) = 0 /\ Cancels(r) = 0 =>
              /\ r \in delivered => Phase(r) = "delivered"
              /\ r \notin delivered /\ accepts[r] > 0 => Phase(r) = "live"
              /\ r \notin delivered /\ ~(accepts[r] > 0) => Phase(r) = "new"
BY DEF Outcome, Cancels, Phase

LEMMA PhaseFrame ==
  ASSUME NEW r, answers'[r] = answers[r], accepts'[r] = accepts[r],
         r \in delivered' <=> r \in delivered
  PROVE  Phase(r)' = Phase(r)
BY DEF Phase

LEMMA CountsAreNat ==
  ASSUME TypeInv
  PROVE  \A r \in RequestIds : Outcome(r) \in Nat /\ Cancels(r) \in Nat
BY DEF TypeInv, TypeOK, Outcome, Cancels, Events

\* One request moves, the others keep their phase.
LEMMA OneMoves ==
  ASSUME NEW q \in RequestIds, \A r \in RequestIds \ {q} : Phase(r)' = Phase(r),
         \/ Phase(q)' = Phase(q)
         \/ Phase(q) = "new" /\ Phase(q)' = "live"
         \/ Phase(q) = "live" /\ Phase(q)' \in {"new", "answered", "cancelled", "delivered"}
  PROVE  Lifecycle!Next \/ Phases' = Phases
<1>0. Phases[q] = Phase(q)
  BY DEF Phases
<1>1. Phases' = [Phases EXCEPT ![q] = Phase(q)']
  BY DEF Phases
<1>2. CASE Phase(q)' = Phase(q)
  BY <1>1, <1>2 DEF Phases
<1>3. CASE Phase(q) = "new" /\ Phase(q)' = "live"
  <2>1. Lifecycle!Accept(q)
    BY <1>0, <1>1, <1>3 DEF Lifecycle!Accept, Lifecycle!Move, Phases
  <2> QED BY <2>1 DEF Lifecycle!Next
<1>4. CASE Phase(q) = "live" /\ Phase(q)' \in {"new", "answered", "cancelled", "delivered"}
  <2>1. Lifecycle!Refuse(q) \/ Lifecycle!Answer(q) \/ Lifecycle!Cancel(q) \/ Lifecycle!Deliver(q)
    BY <1>0, <1>1, <1>4
    DEF Lifecycle!Refuse, Lifecycle!Answer, Lifecycle!Cancel, Lifecycle!Deliver, Lifecycle!Move,
        Phases
  <2> QED BY <2>1 DEF Lifecycle!Next
<1> QED BY <1>2, <1>3, <1>4

\* A step that tells the host nothing moves no phase.
LEMMA SilentStep ==
  ASSUME [Next]_vars,
         ~ \/ FinishEmit \/ ClaimOperation
           \/ \E r \in RequestIds : ShutdownNotify(r)
           \/ \E p \in Procs : CancelNotify(p)
           \/ \E t \in Threads : SendReserve(t) \/ SendRefused(t)
  PROVE  UNCHANGED <<accepts, answers, delivered>>
<1> USE DEF history
<1>1. CASE WorkerStep
  <2>1. CASE ShutdownStep
    BY <2>1 DEF ShutdownStep, ShutdownLatch, ShutdownCollect, ShutdownDropOps, ShutdownForget,
       ShutdownAnswer
  <2>2. CASE CancelStep(Worker)
    BY <2>2 DEF CancelStep, CancelMark, CancelUnlink, CancelUnmark, CancelRelease, Procs
  <2>3. CASE WorkerRecv \/ WorkerExit \/ DrainQueued \/ DrainDone \/ Dispatch
    BY <2>3 DEF WorkerRecv, WorkerExit, DrainQueued, DrainDone, Dispatch
  <2>4. CASE ExecuteAtOnce \/ ExecuteRemote \/ ExecuteHost \/ ExecuteCancel \/ ExecuteReply
    BY <2>4 DEF ExecuteAtOnce, ExecuteRemote, ExecuteHost, ExecuteCancel, ExecuteReply
  <2>5. CASE ClaimMissing \/ Register \/ RegisterRecheck \/ Unregister \/ HostRequest
    BY <2>5 DEF ClaimMissing, Register, RegisterRecheck, Unregister, HostRequest
  <2>6. CASE FinishTake \/ FinishRetire
    BY <2>6 DEF FinishTake, FinishRetire
  <2> QED BY <1>1, <2>1, <2>2, <2>3, <2>4, <2>5, <2>6 DEF WorkerStep
<1>2. CASE DestroyStep \/ UNCHANGED vars
  BY <1>2 DEF DestroyStep, DestroyBegin, DestroySignal, DestroyJoin, vars
<1>3. ASSUME NEW t \in Threads, ThreadStep(t) \/ ThreadCall(t)
      PROVE  UNCHANGED <<accepts, answers, delivered>>
  <2>1. CASE CancelStep(t)
    BY <2>1 DEF CancelStep, CancelMark, CancelUnlink, CancelUnmark, CancelRelease, Procs
  <2>2. CASE SendDuplicate(t) \/ SendEnqueue(t) \/ ThreadCall(t)
    BY <2>2 DEF SendDuplicate, SendEnqueue, ThreadCall, CancelBegin, SendBegin
  <2> QED BY <1>3, <2>1, <2>2 DEF ThreadStep
<1> QED BY <1>1, <1>2, <1>3 DEF Next

\* An answer is emitted for a request that has none, or a further CANCELLED for one
\* that is CANCELLED.
LEMMA EmitMoves ==
  ASSUME TypeInv, NEW q \in RequestIds, NEW event \in Events, Emit(q, event),
         UNCHANGED <<accepts, delivered>>,
         accepts[q] = 1, Outcome(q) = 0, q \notin delivered,
         event = "outcome" => Cancels(q) = 0
  PROVE  Lifecycle!Next \/ Phases' = Phases
<1>1. /\ answers'[q][event] = answers[q][event] + 1
      /\ \A e \in Events \ {event} : answers'[q][e] = answers[q][e]
      /\ \A r \in RequestIds \ {q} : answers'[r] = answers[r]
  BY EmitFrame
<1>2. \A r \in RequestIds \ {q} : Phase(r)' = Phase(r)
  BY <1>1, PhaseFrame
<1>3. Outcome(q) \in Nat /\ Cancels(q) \in Nat
  BY CountsAreNat
<1>4. CASE event = "outcome"
  <2>1. Outcome(q)' = 1 /\ Cancels(q)' = 0
    BY <1>1, <1>4 DEF Outcome, Cancels, Events
  <2>2. Phase(q)' = "answered"
    BY <2>1, PhaseValue DEF Phase, Outcome, Cancels
  <2>3. Phase(q) = "live"
    BY <1>3, <1>4, PhaseValue
  <2> QED BY <1>2, <2>2, <2>3, OneMoves
<1>5. CASE event = "cancelled"
  <2>1. Outcome(q)' = 0 /\ Cancels(q)' = Cancels(q) + 1
    BY <1>1, <1>5 DEF Outcome, Cancels, Events
  <2>2. Phase(q)' = "cancelled"
    BY <1>3, <2>1 DEF Phase, Outcome, Cancels
  <2>3. Phase(q) \in {"live", "cancelled"}
    BY <1>3, PhaseValue
  <2> QED BY <1>2, <2>2, <2>3, OneMoves
<1> QED BY <1>4, <1>5 DEF Events

LEMMA NextMoves == TypeInv /\ FreshInv /\ [Next]_vars => Lifecycle!Next \/ Phases' = Phases
<1> SUFFICES ASSUME TypeInv, FreshInv, [Next]_vars PROVE Lifecycle!Next \/ Phases' = Phases
  OBVIOUS
<1>1. CASE FinishEmit
  <2>1. PICK q \in RequestIds : q = fin.request
    BY <1>1 DEF FinishEmit, TypeInv, ControlOK, Holding
  <2>2. PICK event \in Events : event = fin.event
    BY DEF TypeInv, TypeOK
  <2>3. Emit(q, event) /\ UNCHANGED <<accepts, delivered>>
    BY <1>1, <2>1, <2>2 DEF FinishEmit
  <2>4. InFin(q) /\ pc[Worker] \notin Registered
    BY <1>1, <2>1 DEF FinishEmit, InFin, Holding, Registered
  <2>5. accepts[q] = 1 /\ Outcome(q) = 0 /\ q \notin delivered
    BY <2>4 DEF FreshInv, Fresh, UsedOnce, OneAnswer, Live, Outcome
  <2>6. event = "outcome" => ~Dead(q)
    BY <2>2, <2>4 DEF FreshInv, Fresh, OneAnswer
  <2>7. event = "outcome" => Cancels(q) = 0
    BY <2>6, CountsAreNat DEF Dead, Cancels
  <2> QED BY <2>3, <2>5, <2>7, EmitMoves
<1>2. ASSUME NEW p \in Procs, CancelNotify(p) PROVE Lifecycle!Next \/ Phases' = Phases
  <2>1. PICK q \in RequestIds : q = target[p]
    BY <1>2 DEF CancelNotify, TypeInv, ControlOK, CancelLabels
  <2>2. Emit(q, "cancelled") /\ UNCHANGED <<accepts, delivered>>
    BY <1>2, <2>1 DEF CancelNotify
  <2>3. Cancelling(q)
    BY <1>2, <2>1 DEF CancelNotify, Cancelling
  <2>4. accepts[q] = 1 /\ Outcome(q) = 0 /\ q \notin delivered
    BY <2>3 DEF FreshInv, Fresh, UsedOnce, OneAnswer, Dead, Outcome
  <2> QED BY <2>2, <2>4, EmitMoves DEF Events
<1>3. ASSUME NEW q \in RequestIds, ShutdownNotify(q) PROVE Lifecycle!Next \/ Phases' = Phases
  <2>1. Emit(q, "cancelled") /\ q \in doomed /\ UNCHANGED <<accepts, delivered>>
    BY <1>3 DEF ShutdownNotify
  <2>2. accepts[q] = 1 /\ Outcome(q) = 0 /\ q \notin delivered
    BY <2>1 DEF FreshInv, Fresh, UsedOnce, OneAnswer, Dead, Outcome
  <2> QED BY <2>1, <2>2, EmitMoves DEF Events
<1>4. CASE ClaimOperation
  <2>1. PICK q \in RequestIds : q = cur.id
    BY <1>4 DEF ClaimOperation, TypeInv, ControlOK, Command
  <2>2. delivered' = delivered \union {q} /\ UNCHANGED <<accepts, answers>>
    BY <1>4, <2>1 DEF ClaimOperation
  <2>3. InHand(q)
    BY <1>4, <2>1 DEF ClaimOperation, InHand, HandLabels
  <2>4. accepts[q] = 1 /\ Outcome(q) = 0 /\ q \notin delivered /\ ~Dead(q)
    BY <2>3 DEF FreshInv, Fresh, UsedOnce, OneAnswer, Live, Outcome
  <2>5. Cancels(q) = 0 /\ Cancels(q) \in Nat /\ Outcome(q) \in Nat
    BY <2>4, CountsAreNat DEF Dead, Cancels
  <2>6. Phase(q) = "live"
    BY <2>4, <2>5, PhaseValue
  <2>7. Phase(q)' = "delivered"
    BY <2>2, <2>4, <2>5 DEF Phase, Outcome, Cancels
  <2>8. \A r \in RequestIds \ {q} : Phase(r)' = Phase(r)
    BY <2>2, PhaseFrame
  <2> QED BY <2>6, <2>7, <2>8, OneMoves
<1>5. ASSUME NEW t \in Threads, SendReserve(t) PROVE Lifecycle!Next \/ Phases' = Phases
  <2>1. PICK q \in RequestIds : q = job[t].id
    BY <1>5 DEF SendReserve, TypeInv, ControlOK, SendLabels, Command
  <2>2. /\ accepts' = [accepts EXCEPT ![q] = @ + 1] /\ delivered' = delivered \ {q}
        /\ answers' = answers
    BY <1>5, <2>1 DEF SendReserve
  <2>3. Unused(q)
    BY <1>5, <2>1 DEF SendReserve, FreshInv, SenderInv
  <2>4. accepts[q] = 0 /\ Outcome(q) = 0 /\ Cancels(q) = 0 /\ q \notin delivered
    BY <2>3 DEF Unused, Outcome, Cancels, Events
  <2>5. /\ accepts'[q] = 1 /\ q \notin delivered'
        /\ \A r \in RequestIds \ {q} : accepts'[r] = accepts[r] /\ (r \in delivered' <=> r \in delivered)
    BY <2>2, <2>4 DEF TypeInv, TypeOK
  <2>6. Phase(q) = "new"
    BY <2>4, PhaseValue
  <2>7. Phase(q)' = "live"
    BY <2>2, <2>4, <2>5 DEF Phase, Outcome, Cancels
  <2>8. \A r \in RequestIds \ {q} : Phase(r)' = Phase(r)
    BY <2>2, <2>5, PhaseFrame
  <2> QED BY <2>6, <2>7, <2>8, OneMoves
<1>6. ASSUME NEW t \in Threads, SendRefused(t) PROVE Lifecycle!Next \/ Phases' = Phases
  <2>1. PICK q \in RequestIds : q = job[t].id
    BY <1>6 DEF SendRefused, TypeInv, ControlOK, SendLabels, Command
  <2>2. /\ accepts' = [accepts EXCEPT ![q] = @ - 1] /\ UNCHANGED <<answers, delivered>>
    BY <1>6, <2>1 DEF SendRefused
  <2>3. HeldByThread(q)
    BY <1>6, <2>1 DEF SendRefused, HeldByThread
  <2>4. accepts[q] = 1 /\ Outcome(q) = 0 /\ q \notin delivered /\ Cancels(q) \in Nat
    BY <2>3, CountsAreNat DEF FreshInv, Fresh, UsedOnce, OneAnswer, Live, Outcome
  <2>5. accepts'[q] = 0 /\ \A r \in RequestIds \ {q} : accepts'[r] = accepts[r]
    BY <2>2, <2>4 DEF TypeInv, TypeOK
  <2>6. Cancels(q) > 0 => Phase(q) = "cancelled" /\ Phase(q)' = "cancelled"
    BY <2>2, <2>4 DEF Phase, Outcome, Cancels
  <2>7. Cancels(q) = 0 => Phase(q) = "live" /\ Phase(q)' = "new"
    BY <2>2, <2>4, <2>5 DEF Phase, Outcome, Cancels
  <2>8. \A r \in RequestIds \ {q} : Phase(r)' = Phase(r)
    BY <2>2, <2>5, PhaseFrame
  <2> QED BY <2>4, <2>6, <2>7, <2>8, OneMoves
<1>7. CASE UNCHANGED <<accepts, answers, delivered>>
  BY <1>7 DEF Phases, Phase
<1> QED BY <1>1, <1>2, <1>3, <1>4, <1>5, <1>6, <1>7, SilentStep

\* The engine implements RequestLifecycle. Whatever races between send, cancel, the
\* worker, runtime.shutdown and destroy, the host sees an id accepted, perhaps
\* refused, and answered, cancelled or delivered once: never a result after a
\* CANCELLED, a CANCELLED after a result, or two results.
THEOREM ImplementsLifecycle ==
  ASSUME FreshIds
  PROVE  Spec => LifecycleSpec
<1>1. Init => Lifecycle!Init
  BY DEF Init, Lifecycle!Init, Phase, Events
<1>2. TypeInv /\ FreshInv /\ [Next]_vars => [Lifecycle!Next]_[r \in RequestIds |-> Phase(r)]
  BY NextMoves DEF Phases
<1> QED BY <1>1, <1>2, AlwaysFreshInv, PTL DEF Spec, LifecycleSpec, Lifecycle!Spec

-----------------------------------------------------------------------------
(***************************************************************************)
(* Only what was cancelled is answered CANCELLED. A mark is there, is      *)
(* taken and becomes an answer in steps of several threads; an id that was *)
(* not accepted yet has none, and nobody is on the way to leave one.       *)
(***************************************************************************)
Unmarked(r) ==
  r \notin cancelled /\ \A p \in Procs : pc[p] \in CancelLabels => target[p] # r

MarkInv ==
  ~shutdown =>
    /\ cancelled \subseteq asked
    /\ \A p \in Procs : pc[p] \in CancelLabels \ {"mark"} => target[p] \in asked
    /\ pc[Worker] \in Holding /\ (fin.event = "cancelled" \/ pc[Worker] = "unregister")
         => fin.request \in asked
    /\ \A r \in RequestIds : accepts[r] = 0 => Unmarked(r)

\* A step of the worker outside cancellation that forgets or keeps the marks.
LEMMA WorkerKeepsMarks ==
  ASSUME TypeInv, MarkInv, ~shutdown, UNCHANGED <<target, asked, accepts>>,
         cancelled' \subseteq cancelled, \A t \in Threads : pc'[t] = pc[t],
         pc'[Worker] \notin CancelLabels,
         pc'[Worker] \in Holding /\ (fin'.event = "cancelled" \/ pc'[Worker] = "unregister")
           => fin'.request \in asked
  PROVE  MarkInv'
<1>1. \A p \in Procs : pc'[p] \in CancelLabels => pc'[p] = pc[p]
  BY DEF Procs
<1> QED BY <1>1 DEF MarkInv, Unmarked

LEMMA WorkerMarks ==
  ASSUME TypeInv, FreshInv, MarkInv, ~shutdown', WorkerStep, ~CancelStep(Worker)
  PROVE  MarkInv'
<1> USE DEF channel, registries, working, history, latch
<1>0. /\ Worker \in Procs /\ Worker \notin Threads
      /\ pc \in [Procs -> {"idle"} \union SendLabels \union CancelLabels \union WorkerLabels]
      /\ \A label : (Goto(Worker, label) =>
            pc'[Worker] = label /\ \A t \in Threads : pc'[t] = pc[t])
  BY RuntimeAssumption DEF TypeInv, TypeOK, Procs, Goto
<1>1. CASE WorkerRecv \/ WorkerExit \/ DrainDone
  <2>1. pc'[Worker] \in {"exit", "dispatch", "stopped"} /\ \A t \in Threads : pc'[t] = pc[t]
    BY <1>0, <1>1 DEF WorkerRecv, WorkerExit, DrainDone
  <2>2. UNCHANGED <<target, asked, accepts, cancelled, shutdown>>
    BY <1>1 DEF WorkerRecv, WorkerExit, DrainDone
  <2> QED BY <2>1, <2>2, WorkerKeepsMarks DEF Holding, CancelLabels
<1>2. CASE DrainQueued
  <2>1. shutdown /\ shutdown' = shutdown
    BY <1>2 DEF DrainQueued, FreshInv, StopInv, Collecting
  <2> QED BY <2>1
<1>3. CASE Dispatch
  <2>1. UNCHANGED <<target, asked, accepts, shutdown>> /\ cancelled' \subseteq cancelled
    BY <1>3 DEF Dispatch
  <2>2. /\ \A t \in Threads : pc'[t] = pc[t]
        /\ \/ pc'[Worker] = "take" /\ fin'.request \in cancelled
           \/ pc'[Worker] = "execute"
    BY <1>0, <1>3 DEF Dispatch, Answer
  <2> QED BY <2>1, <2>2, WorkerKeepsMarks DEF Holding, CancelLabels, MarkInv
<1>4. CASE ExecuteAtOnce \/ ExecuteRemote \/ ExecuteHost \/ ExecuteReply
  <2>1. UNCHANGED <<target, asked, accepts, cancelled, shutdown>>
    BY <1>4 DEF ExecuteAtOnce, ExecuteRemote, ExecuteHost, ExecuteReply
  <2>2. /\ \A t \in Threads : pc'[t] = pc[t]
        /\ \/ pc'[Worker] \in {"take", "retire", "register"} /\ fin'.event = "outcome"
           \/ pc'[Worker] = "claim"
    BY <1>0, <1>4 DEF ExecuteAtOnce, ExecuteRemote, ExecuteHost, ExecuteReply, Answer
  <2> QED BY <2>1, <2>2, WorkerKeepsMarks DEF Holding, CancelLabels
<1>5. CASE ExecuteCancel
  <2>1. UNCHANGED <<asked, accepts, cancelled, shutdown>> /\ \A t \in Threads : pc'[t] = pc[t]
    BY <1>0, <1>5 DEF ExecuteCancel
  <2>2. CASE pc'[Worker] = "take" /\ fin'.event = "outcome" /\ target' = target
    BY <2>1, <2>2, WorkerKeepsMarks DEF Holding, CancelLabels
  <2>3. CASE pc'[Worker] = "mark" /\ cur.arg \in active /\ target' = [target EXCEPT ![Worker] = cur.arg]
    <3>1. target'[Worker] = cur.arg /\ \A t \in Threads : target'[t] = target[t]
      BY <1>0, <2>3 DEF TypeInv, TypeOK
    <3>2. \A r \in RequestIds : accepts[r] = 0 => cur.arg # r
      BY <2>1, <2>3 DEF FreshInv, Fresh, UsedOnce, Unused
    <3> QED BY <2>1, <2>3, <3>1, <3>2 DEF MarkInv, Unmarked, Procs, Holding
  <2> QED BY <1>0, <1>5, <2>2, <2>3 DEF ExecuteCancel, Answer
<1>6. CASE ClaimMissing \/ ClaimOperation
  <2>1. UNCHANGED <<target, asked, accepts, cancelled, shutdown>>
    BY <1>6 DEF ClaimMissing, ClaimOperation
  <2>2. /\ \A t \in Threads : pc'[t] = pc[t]
        /\ pc'[Worker] \in {"take", "register", "emit"} /\ fin'.event = "outcome"
    BY <1>0, <1>6 DEF ClaimMissing, ClaimOperation, Continuations, Answer
  <2> QED BY <2>1, <2>2, WorkerKeepsMarks DEF Holding, CancelLabels
<1>7. CASE Register \/ RegisterRecheck \/ Unregister
  <2>1. UNCHANGED <<target, asked, accepts, shutdown>> /\ cancelled' \subseteq cancelled
    BY <1>7 DEF Register, RegisterRecheck, Unregister
  <2>2. CASE Register
    <3>1. pc[Worker] = "register" /\ pc'[Worker] = "recheck" /\ fin' = fin /\ \A t \in Threads : pc'[t] = pc[t]
      BY <1>0, <2>2 DEF Register
    <3> QED BY <2>1, <3>1, WorkerKeepsMarks DEF Holding, CancelLabels, MarkInv
  <2>3. CASE RegisterRecheck
    <3>1. /\ pc[Worker] = "recheck" /\ fin' = fin /\ \A t \in Threads : pc'[t] = pc[t]
          /\ \/ pc'[Worker] = "unregister" /\ fin.request \in cancelled
             \/ pc'[Worker] = "request"
      BY <1>0, <2>3 DEF RegisterRecheck
    <3> QED BY <2>1, <3>1, WorkerKeepsMarks DEF Holding, CancelLabels, MarkInv
  <2>4. CASE Unregister
    <3>1. /\ pc[Worker] = "unregister" /\ pc'[Worker] = "take" /\ fin'.request = fin.request
          /\ \A t \in Threads : pc'[t] = pc[t]
      BY <1>0, <2>4 DEF Unregister, Answer
    <3> QED BY <2>1, <3>1, WorkerKeepsMarks DEF Holding, CancelLabels, MarkInv
  <2> QED BY <1>7, <2>2, <2>3, <2>4
<1>8. CASE HostRequest \/ FinishEmit
  <2>1. UNCHANGED <<target, asked, accepts, cancelled, shutdown>>
    BY <1>8 DEF HostRequest, FinishEmit
  <2>2. pc'[Worker] \in {"drain", "recv"} /\ \A t \in Threads : pc'[t] = pc[t]
    BY <1>0, <1>8 DEF HostRequest, FinishEmit, Return
  <2> QED BY <2>1, <2>2, WorkerKeepsMarks DEF Holding, CancelLabels
<1>9. CASE FinishTake \/ FinishRetire
  <2>1. UNCHANGED <<target, asked, accepts, shutdown>> /\ cancelled' \subseteq cancelled
    BY <1>9 DEF FinishTake, FinishRetire
  <2>2. /\ pc[Worker] \in {"take", "retire"} /\ pc'[Worker] \in {"retire", "emit"}
        /\ fin'.request = fin.request /\ \A t \in Threads : pc'[t] = pc[t]
        /\ fin'.event = "cancelled" => fin.event = "cancelled" \/ fin.request \in cancelled
    BY <1>0, <1>9 DEF FinishTake, FinishRetire, Answer
  <2> QED BY <2>1, <2>2, WorkerKeepsMarks DEF Holding, CancelLabels, MarkInv
<1>10. CASE ShutdownStep
  <2>1. shutdown'
    <3>1. shutdown \/ shutdown' \/ pc[Worker] \in Collecting
      BY <1>10 DEF ShutdownStep, ShutdownLatch, ShutdownCollect, ShutdownDropOps, ShutdownForget,
         ShutdownAnswer, ShutdownNotify, Collecting
    <3>2. shutdown => shutdown'
      BY <1>10 DEF ShutdownStep, ShutdownLatch, ShutdownCollect, ShutdownDropOps, ShutdownForget,
         ShutdownAnswer, ShutdownNotify
    <3> QED BY <3>1, <3>2 DEF FreshInv, StopInv
  <2> QED BY <2>1
<1> QED BY <1>1, <1>2, <1>3, <1>4, <1>5, <1>6, <1>7, <1>8, <1>9, <1>10 DEF WorkerStep

LEMMA CancelMarks ==
  ASSUME TypeInv, FreshInv, MarkInv, ~shutdown', NEW p \in Procs, CancelStep(p)
  PROVE  MarkInv'
<1>0. /\ UNCHANGED <<accepts, shutdown>> /\ ~shutdown
      /\ pc[p] \in CancelLabels /\ target[p] \in RequestIds
      /\ \A q \in Procs \ {p} : pc'[q] = pc[q] /\ target'[q] = target[q]
  BY DEF CancelStep, CancelMark, CancelUnlink, CancelUnmark, CancelRelease, CancelNotify, CancelDone,
     Goto, latch, history, TypeInv, TypeOK, ControlOK, CancelLabels
<1>1. CASE CancelMark(p)
  <2>1. /\ cancelled' = cancelled \union {target[p]} /\ asked' = asked \union {target[p]}
        /\ UNCHANGED <<target, fin>> /\ pc[p] = "mark" /\ pc'[p] = "unlink"
    BY <1>1 DEF CancelMark, Goto, working, TypeInv, TypeOK
  <2>2. accepts[target[p]] # 0
    BY <1>0 DEF MarkInv, Unmarked
  <2>3. pc'[Worker] \in Holding => pc[Worker] = pc'[Worker]
    BY <1>0, <2>1, RuntimeAssumption DEF Holding, Procs
  <2> QED BY <1>0, <2>1, <2>2, <2>3 DEF MarkInv, Unmarked, CancelLabels
<1>2. CASE ~CancelMark(p)
  <2>1. /\ cancelled' \subseteq cancelled /\ asked' = asked
        /\ \/ pc[p] \in CancelLabels \ {"mark"} /\ pc'[p] \in CancelLabels \ {"mark"} /\ target'[p] = target[p]
              /\ fin' = fin
           \/ p = Worker /\ pc'[p] = "take" /\ fin'.event = "outcome"
           \/ p # Worker /\ pc'[p] = "idle" /\ fin' = fin
    <3> USE DEF Goto, Answer, working, history, registries, CancelLabels
    <3>0. \A label : Goto(p, label) => pc'[p] = label
      BY DEF TypeInv, TypeOK
    <3>1. CASE CancelUnlink(p)
      <4>1. cancelled' = cancelled /\ asked' = asked /\ pc[p] = "unlink"
        BY <3>1 DEF CancelUnlink
      <4>2. CASE Goto(p, "unmark") /\ UNCHANGED <<target, fin>>
        BY <3>0, <4>1, <4>2
      <4>3. CASE CancelDone(p)
        BY <3>0, <4>1, <4>3 DEF CancelDone
      <4> QED BY <3>1, <4>2, <4>3 DEF CancelUnlink
    <3>2. CASE CancelUnmark(p) \/ CancelRelease(p)
      BY <3>0, <3>2 DEF CancelUnmark, CancelRelease
    <3>3. CASE CancelNotify(p)
      <4>1. cancelled' = cancelled /\ asked' = asked /\ CancelDone(p)
        BY <3>3 DEF CancelNotify
      <4> QED BY <3>0, <4>1 DEF CancelDone
    <3> QED BY <1>2, <3>1, <3>2, <3>3, Zenon DEF CancelStep
  <2>2. pc'[Worker] \in Holding =>
          \/ pc[Worker] = pc'[Worker] /\ fin' = fin
          \/ pc'[Worker] = "take" /\ fin'.event = "outcome"
    <3>1. CASE p = Worker
      BY <2>1, <3>1 DEF Holding, CancelLabels
    <3>2. CASE p # Worker
      <4>1. pc'[Worker] = pc[Worker]
        BY <1>0, <3>2 DEF Procs
      <4> QED BY <2>1, <3>2, <4>1
    <3> QED BY <3>1, <3>2
  <2>3. \A q \in Procs : pc'[q] \in CancelLabels =>
          /\ target'[q] = target[q] /\ pc[q] \in CancelLabels
          /\ pc'[q] # "mark" => pc[q] # "mark"
    BY <1>0, <2>1 DEF CancelLabels
  <2> QED BY <1>0, <2>1, <2>2, <2>3 DEF MarkInv, Unmarked
<1> QED BY <1>1, <1>2

LEMMA HostMarks ==
  ASSUME TypeInv, FreshInv, MarkInv, ~shutdown', NEW t \in Threads,
         (ThreadStep(t) /\ ~CancelStep(t)) \/ ThreadCall(t)
  PROVE  MarkInv'
<1>0. /\ t \in Procs /\ t # Worker /\ UNCHANGED <<cancelled, fin, shutdown>> /\ ~shutdown
      /\ \A q \in Procs \ {t} : pc'[q] = pc[q] /\ target'[q] = target[q]
  BY RuntimeAssumption
  DEF ThreadStep, ThreadCall, SendReserve, SendDuplicate, SendEnqueue, SendRefused, CancelBegin,
      SendBegin, Procs, Goto, latch, registries, working, TypeInv, TypeOK
<1>1. CASE SendReserve(t)
  <2>1. PICK r \in RequestIds : r = job[t].id
    BY <1>1 DEF SendReserve, TypeInv, ControlOK, SendLabels, Command
  <2>2. /\ accepts' = [accepts EXCEPT ![r] = @ + 1] /\ asked \ {r} \subseteq asked'
        /\ pc'[t] = "enqueue" /\ target' = target
    BY <1>1, <2>1 DEF SendReserve, Goto, TypeInv, TypeOK, Procs
  <2>3. accepts[r] = 0
    BY <1>1, <2>1 DEF SendReserve, FreshInv, SenderInv, Unused
  <2>4. \A q \in RequestIds : accepts'[q] = 0 => accepts[q] = 0
    BY <2>2, <2>3 DEF TypeInv, TypeOK
  <2>5. Unmarked(r)
    BY <1>0, <2>3 DEF MarkInv
  <2>6. pc[Worker] \in Holding => fin.request # r
    BY <2>3 DEF FreshInv, Fresh, UsedOnce, Live, InFin
  <2>7. pc'[t] \notin CancelLabels /\ Worker \in Procs
    BY <2>2 DEF CancelLabels, Procs
  <2> QED BY <1>0, <2>2, <2>4, <2>5, <2>6, <2>7 DEF MarkInv, Unmarked
<1>2. CASE SendDuplicate(t) \/ SendEnqueue(t) \/ \E r \in RequestIds : \E c \in Commands(r) : SendBegin(t, c)
  <2>1. UNCHANGED <<target, asked, accepts>> /\ pc'[t] \in {"idle", "reserve"}
    BY <1>0, <1>2 DEF SendDuplicate, SendEnqueue, SendBegin, Goto, history, TypeInv, TypeOK
  <2>2. pc'[t] \notin CancelLabels /\ Worker \in Procs
    BY <2>1 DEF CancelLabels, Procs
  <2> QED BY <1>0, <2>1, <2>2 DEF MarkInv, Unmarked
<1>3. CASE SendRefused(t)
  <2>1. shutdown
    BY <1>3 DEF SendRefused, FreshInv, StopInv
  <2> QED BY <1>0, <2>1
<1>4. ASSUME NEW r \in RequestIds, CancelBegin(t, r) PROVE MarkInv'
  <2>1. /\ r \in active /\ target'[t] = r /\ pc'[t] = "mark" /\ UNCHANGED <<asked, accepts>>
    BY <1>0, <1>4 DEF CancelBegin, Goto, history, TypeInv, TypeOK
  <2>2. accepts[r] # 0
    BY <1>0, <2>1 DEF FreshInv, Fresh, UsedOnce, Unused
  <2>3. Worker \in Procs
    BY DEF Procs
  <2> QED BY <1>0, <2>1, <2>2, <2>3 DEF MarkInv, Unmarked
<1> QED BY <1>1, <1>2, <1>3, <1>4 DEF ThreadStep, ThreadCall

LEMMA NextMarkInv == TypeInv /\ FreshInv /\ MarkInv /\ [Next]_vars => MarkInv'
<1> SUFFICES ASSUME TypeInv, FreshInv, MarkInv, [Next]_vars, ~shutdown' PROVE MarkInv'
  BY DEF MarkInv
<1>1. CASE WorkerStep
  BY <1>1, WorkerMarks, CancelMarks DEF Procs
<1>2. ASSUME NEW t \in Threads, ThreadStep(t) \/ ThreadCall(t) PROVE MarkInv'
  BY <1>2, HostMarks, CancelMarks DEF Procs
<1>3. CASE DestroyStep \/ UNCHANGED vars
  <2>1. UNCHANGED <<cancelled, asked, accepts, pc, target, fin>> /\ (shutdown => shutdown')
    BY <1>3 DEF DestroyStep, DestroyBegin, DestroySignal, DestroyJoin, vars, registries, latch,
       working, history
  <2> QED BY <2>1 DEF MarkInv, Unmarked
<1> QED BY <1>1, <1>2, <1>3 DEF Next

\* While no shutdown is under way, CANCELLED answers only a request that was cancelled:
\* no mark is left for another one, none is taken for another one.
THEOREM CancelledWasAsked ==
  ASSUME FreshIds
  PROVE  Spec => NoSpuriousCancel
<1>1. Init => MarkInv
  <2> SUFFICES ASSUME Init PROVE MarkInv
    OBVIOUS
  <2>1. cancelled = {} /\ \A p \in Procs : pc[p] \in {"recv", "idle"}
    BY DEF Init, Procs
  <2> QED BY <2>1 DEF MarkInv, Unmarked, CancelLabels, Holding, Procs
<1>2. TypeInv /\ FreshInv /\ MarkInv /\ [Next]_vars
      => [\A r \in RequestIds :
            answers'[r]["cancelled"] > answers[r]["cancelled"] => r \in asked \/ shutdown]_vars
  <2> SUFFICES ASSUME TypeInv, FreshInv, MarkInv, [Next]_vars, ~shutdown, NEW r \in RequestIds,
                      answers'[r]["cancelled"] > answers[r]["cancelled"]
               PROVE  r \in asked
    OBVIOUS
  <2>1. /\ \A q \in RequestIds, event \in Events : Emit(q, event) =>
             r = q /\ event = "cancelled"
        /\ answers' # answers
    <3>1. answers[r]["cancelled"] \in Nat
      BY DEF TypeInv, TypeOK, Events
    <3>2. ~(answers[r]["cancelled"] > answers[r]["cancelled"])
      BY <3>1
    <3>3. ASSUME NEW q \in RequestIds, NEW event \in Events, Emit(q, event) PROVE r = q /\ event = "cancelled"
      BY <3>2, <3>3, EmitFrame DEF Events
    <3> QED BY <3>2, <3>3
  <2>2. CASE FinishEmit
    <3>1. Emit(fin.request, fin.event) /\ pc[Worker] = "emit" /\ fin.request \in RequestIds /\ fin.event \in Events
      BY <2>2 DEF FinishEmit, TypeInv, TypeOK, ControlOK, Holding
    <3> QED BY <2>1, <3>1 DEF MarkInv, Holding
  <2>3. ASSUME NEW p \in Procs, CancelNotify(p) PROVE r \in asked
    <3>1. Emit(target[p], "cancelled") /\ pc[p] = "notify" /\ target[p] \in RequestIds
      BY <2>3 DEF CancelNotify, TypeInv, ControlOK, CancelLabels
    <3> QED BY <2>1, <3>1 DEF MarkInv, CancelLabels, Events
  <2>4. ASSUME NEW q \in RequestIds, ShutdownNotify(q) PROVE r \in asked
    BY <2>4 DEF ShutdownNotify, FreshInv, StopInv, Collecting
  <2>5. CASE ClaimOperation \/ \E t \in Threads : SendReserve(t) \/ SendRefused(t)
    BY <2>1, <2>5 DEF ClaimOperation, SendReserve, SendRefused
  <2> QED BY <2>1, <2>2, <2>3, <2>4, <2>5, SilentStep
<1> QED BY <1>1, <1>2, NextMarkInv, AlwaysFreshInv, PTL DEF Spec, NoSpuriousCancel
=============================================================================
