----------------------- MODULE HostCallbackBridgeProofs -----------------------
(***************************************************************************)
(* Theorems about HostCallbackBridge, for every finite set of requests,    *)
(* every set of host threads and every bound.                              *)
(***************************************************************************)
EXTENDS HostCallbackBridge, FiniteSetTheorems, TLAPS

(***************************************************************************)
(* The inductive invariant. Whether an entry of the map of callbacks may   *)
(* outlive its callback depends on who else can still reach the callback:  *)
(* as long as it is in the map, nobody has taken it.                       *)
(***************************************************************************)
Calling == {"emit", "wait", "expired"}
Running == {"script", "register"} \union Calling

\* The worker: in a callback it has one of the ids given out so far, while it runs
\* rules the stamp is the request it serves.
WorkerInv ==
  /\ wpc \in Calling => jsOp \in JsIds /\ jsOp < nextJs
  /\ wpc \notin Calling => jsOp = None
  /\ wpc \in Running => serving \in Requests /\ stamp = serving
  /\ wpc = "emit" => owner[jsOp] = serving
  /\ wpc = "register" => nextOp - 1 \in OpIds

\* A host thread inside send has a reply, and delivers it to a callback only.
HostInv ==
  \A t \in Threads :
    /\ hpc[t] # "idle" => hcmd[t] \in Reply
    /\ hpc[t] = "deliver" => hcmd[t].about \in JsIds

\* No command and no abort has taken the callback.
Untaken(o) ==
  /\ slot[o] = "empty" /\ reached[o] = 0 /\ o \notin drained
  /\ \A t \in Threads : ~(hpc[t] = "deliver" /\ hcmd[t].about = o)

UntakenInv == \A o \in JsIds : o \in pending \/ o >= nextJs => Untaken(o)

AskedInv ==
  \A a \in asked : a.op \in JsIds \ OpIds => a.op < nextJs /\ a.request = owner[a.op]

IInv == TypeOK /\ WorkerInv /\ HostInv /\ NoLeak /\ UntakenInv /\ AskedInv /\ ReachedOnce

LEMMA InitIInv == Init => IInv
<1> SUFFICES ASSUME Init PROVE IInv
  OBVIOUS
<1> USE BridgeAssumption DEF Init
<1>1. queue \in Seq(WorkItem)
  <2>1. PICK q \in [1..Cardinality(Requests) -> {Start(r) : r \in Requests}] : queue = q
    OBVIOUS
  <2>2. Cardinality(Requests) \in Nat
    BY FS_CardinalityType
  <2>3. {Start(r) : r \in Requests} \subseteq WorkItem
    BY DEF Start, WorkItem
  <2> QED BY <2>1, <2>2, <2>3
<1>2. TypeOK
  <2>1. hostOps \in [OpIds -> Requests \union {None}] /\ nextOp \in 1..(MaxOps + 1)
    OBVIOUS
  <2>2. nextJs \in JsBase..(JsBase + MaxJs) /\ pending \subseteq JsIds /\ drained \subseteq JsIds
    OBVIOUS
  <2>3. /\ wpc \in WorkerLabels /\ jsOp \in JsIds \union {None}
        /\ stamp \in Requests \union {None} /\ serving \in Requests \union {None}
    BY DEF WorkerLabels
  <2>4. /\ hpc \in [Threads -> {"idle", "intercept", "enqueue", "deliver"}]
        /\ hcmd \in [Threads -> Reply \union {NoReply}]
    OBVIOUS
  <2>5. slot \in [JsIds -> {"empty", "complete", "error"}] /\ owner \in [JsIds -> Requests \union {None}]
    OBVIOUS
  <2>6. reached \in [JsIds -> Nat] /\ asked \subseteq Asked /\ sent \in 0..MaxReplies
    OBVIOUS
  <2>7. latch \in BOOLEAN /\ life \in Lives
    BY DEF Lives
  <2> QED BY <1>1, <2>1, <2>2, <2>3, <2>4, <2>5, <2>6, <2>7 DEF TypeOK
<1>3. WorkerInv /\ HostInv /\ NoLeak /\ UntakenInv /\ AskedInv /\ ReachedOnce
  BY DEF WorkerInv, Calling, Running, HostInv, NoLeak, UntakenInv, Untaken, AskedInv, ReachedOnce
<1> QED BY <1>2, <1>3 DEF IInv

LEMMA QueueIInv ==
  ASSUME IInv, WorkerStop \/ StartRequest \/ ReplyUnknown \/ ResumeRequest \/ FailRequest
  PROVE  IInv'
<1> USE BridgeAssumption DEF IInv, TypeOK, WorkerInv, HostInv, NoLeak, UntakenInv, Untaken,
        AskedInv, ReachedOnce, bridge, worker, runtime, host, closing, history, Calling, Running, WorkerLabels
<1>1. CASE WorkerStop
  BY <1>1 DEF WorkerStop
<1>2. CASE StartRequest
  <2>1. Head(queue) \in WorkItem /\ queue' \in Seq(WorkItem)
    BY <1>2 DEF StartRequest
  <2>2. stamp' = serving' /\ serving' \in Requests
    BY <1>2, <2>1 DEF StartRequest, WorkItem, Reply
  <2> QED BY <1>2, <2>1, <2>2 DEF StartRequest
<1>3. CASE ReplyUnknown
  <2>0. queue # <<>> /\ queue' = Tail(queue)
    BY <1>3 DEF ReplyUnknown, Replying
  <2>1. queue' \in Seq(WorkItem)
    BY <2>0
  <2>2. UNCHANGED <<bridge, worker, hostOps, nextOp, host, closing, history>>
    BY <1>3 DEF ReplyUnknown
  <2> QED BY <2>1, <2>2
<1>4. CASE ResumeRequest
  BY <1>4 DEF ResumeRequest, Replying, Waits
<1>5. CASE FailRequest
  BY <1>5 DEF FailRequest, Replying, Waits
<1> QED BY <1>1, <1>2, <1>3, <1>4, <1>5

LEMMA RequestIInv ==
  ASSUME IInv, AnswerRequest \/ RegisterOperation \/ RequestPage
  PROVE  IInv'
<1> USE BridgeAssumption DEF IInv, TypeOK, WorkerInv, HostInv, NoLeak, UntakenInv, Untaken,
        AskedInv, ReachedOnce, bridge, worker, runtime, host, closing, history, Calling, Running, WorkerLabels
<1>1. CASE AnswerRequest
  BY <1>1 DEF AnswerRequest, NextCommand
<1>2. CASE RegisterOperation
  BY <1>2 DEF RegisterOperation, OpIds
<1>3. CASE RequestPage
  BY <1>3 DEF RequestPage, NextCommand, Asked
<1> QED BY <1>1, <1>2, <1>3

LEMMA CallbackIInv ==
  ASSUME IInv, CallHost \/ RequestHost \/ Wake \/ Timeout \/ CleanUp
  PROVE  IInv'
<1> USE BridgeAssumption DEF IInv, TypeOK, WorkerInv, HostInv, NoLeak, UntakenInv, Untaken,
        AskedInv, ReachedOnce, bridge, worker, runtime, host, closing, history, Calling, Running, WorkerLabels
<1>1. CASE CallHost
  BY <1>1 DEF CallHost, JsIds
<1>2. CASE RequestHost
  BY <1>2 DEF RequestHost, Asked
<1>3. CASE Wake
  BY <1>3 DEF Wake
<1>4. CASE Timeout
  BY <1>4 DEF Timeout
<1>5. CASE CleanUp
  BY <1>5 DEF CleanUp
<1> QED BY <1>1, <1>2, <1>3, <1>4, <1>5

LEMMA HostIInv ==
  ASSUME IInv, NEW t \in Threads, HostStep(t) \/ \E reply \in Reply : SendReply(t, reply)
  PROVE  IInv'
<1> USE BridgeAssumption DEF IInv, TypeOK, WorkerInv, HostInv, NoLeak, UntakenInv, Untaken,
        AskedInv, ReachedOnce, bridge, worker, runtime, host, closing, history, Calling, Running, WorkerLabels
<1>1. CASE FallThrough(t)
  BY <1>1 DEF FallThrough
<1>2. CASE EnqueueReply(t)
  BY <1>2 DEF EnqueueReply, WorkItem
<1>3. CASE Intercept(t)
  <2>0. DEFINE o == hcmd[t].about
  <2>1. /\ o \in pending /\ o \in JsIds /\ Untaken(o) /\ hcmd[t] \in Reply
        /\ pending' = pending \ {o} /\ reached' = [reached EXCEPT ![o] = @ + 1]
        /\ hpc' = [hpc EXCEPT ![t] = "deliver"]
        /\ UNCHANGED <<slot, nextJs, stamp, worker, runtime, hcmd, closing, asked, owner, sent>>
    BY <1>3 DEF Intercept
  <2>2. TypeOK' /\ WorkerInv' /\ HostInv' /\ NoLeak' /\ AskedInv' /\ ReachedOnce'
    BY <2>1
  <2>3. o < nextJs
    BY <2>1 DEF JsIds
  <2>4. ASSUME NEW q \in JsIds, q \in pending' \/ q >= nextJs' PROVE Untaken(q)'
    <3>1. q # o /\ (q \in pending \/ q >= nextJs)
      BY <2>1, <2>3, <2>4 DEF JsIds
    <3>2. Untaken(q)
      BY <3>1
    <3> QED BY <2>1, <3>1, <3>2
  <2>5. UntakenInv'
    BY <2>4
  <2> QED BY <2>2, <2>5
<1>4. CASE Deliver(t)
  BY <1>4 DEF Deliver, Filled, Reply
<1>5. CASE \E reply \in Reply : SendReply(t, reply)
  BY <1>5 DEF SendReply
<1> QED BY <1>1, <1>2, <1>3, <1>4, <1>5 DEF HostStep

LEMMA DropIInv ==
  ASSUME IInv, DropLatch \/ DropStep \/ DropDetach
  PROVE  IInv'
<1> USE BridgeAssumption DEF IInv, TypeOK, WorkerInv, HostInv, NoLeak, UntakenInv, Untaken,
        AskedInv, ReachedOnce, bridge, worker, runtime, host, closing, history, Calling, Running, WorkerLabels, Lives
<1>1. CASE DropLatch
  BY <1>1 DEF DropLatch
<1>2. CASE DropAbort
  <2>1. /\ pending' = {} /\ drained' = pending /\ life' = "aborting"
        /\ UNCHANGED <<slot, nextJs, stamp, worker, runtime, host, latch, history>>
    BY <1>2 DEF DropAbort
  <2>2. TypeOK' /\ WorkerInv' /\ HostInv' /\ NoLeak' /\ AskedInv' /\ ReachedOnce'
    BY <2>1
  <2>3. \A o \in pending : o < nextJs
    BY DEF JsIds
  <2>4. ASSUME NEW q \in JsIds, q \in pending' \/ q >= nextJs' PROVE Untaken(q)'
    <3>1. q \notin pending /\ q >= nextJs
      BY <2>1, <2>3, <2>4 DEF JsIds
    <3>2. Untaken(q)
      BY <3>1
    <3> QED BY <2>1, <3>1, <3>2
  <2>5. UntakenInv'
    BY <2>4
  <2> QED BY <2>2, <2>5
<1>3. CASE \E o \in JsIds : DropWake(o)
  BY <1>3 DEF DropWake, Filled
<1>4. CASE DropSignal
  BY <1>4 DEF DropSignal, WorkItem
<1>5. CASE DropJoin
  BY <1>5 DEF DropJoin
<1>6. CASE DropDetach
  BY <1>6 DEF DropDetach
<1> QED BY <1>1, <1>2, <1>3, <1>4, <1>5, <1>6 DEF DropStep

LEMMA NextIInv == IInv /\ [Next]_vars => IInv'
<1> SUFFICES ASSUME IInv, [Next]_vars PROVE IInv'
  OBVIOUS
<1>1. CASE WorkerStep \/ Timeout
  BY <1>1, QueueIInv, RequestIInv, CallbackIInv DEF WorkerStep
<1>2. CASE \E t \in Threads : HostStep(t) \/ \E reply \in Reply : SendReply(t, reply)
  BY <1>2, HostIInv
<1>3. CASE DropLatch \/ DropStep \/ DropDetach
  BY <1>3, DropIInv
<1>4. CASE UNCHANGED vars
  BY <1>4 DEF vars, bridge, worker, runtime, host, closing, history, IInv, TypeOK, WorkerInv,
     HostInv, NoLeak, UntakenInv, Untaken, AskedInv, ReachedOnce
<1> QED BY <1>1, <1>2, <1>3, <1>4 DEF Next

LEMMA AlwaysIInv == Spec => []IInv
<1>1. Init => IInv
  BY InitIInv
<1>2. IInv /\ [Next]_vars => IInv'
  BY NextIInv
<1> QED BY <1>1, <1>2, PTL DEF Spec

-----------------------------------------------------------------------------
\* The queue, the map of callbacks, the worker and the host threads keep their
\* types: no reply, timeout or abort leaves an id that is none.
THEOREM TypeCorrect == Spec => []TypeOK
<1>1. IInv => TypeOK
  BY DEF IInv
<1> QED BY <1>1, AlwaysIInv, PTL

\* However the timeout of a callback, the host's replies and the abort of destroy
\* overtake each other, the map of pending callbacks keeps no stale entry.
THEOREM NoEntryLeaks == Spec => []NoLeak
<1>1. IInv => NoLeak
  BY DEF IInv
<1> QED BY <1>1, AlwaysIInv, PTL

\* A host.request that a script makes is stamped with the script's own request,
\* also after the worker has served others in between.
THEOREM StampIsRight == Spec => []StampedRequest
<1>1. IInv => StampedRequest
  BY DEF IInv, AskedInv, StampedRequest
<1> QED BY <1>1, AlwaysIInv, PTL

\* No callback swallows a second reply, however many threads send one.
THEOREM ReplyReachesOnce == Spec => []ReachedOnce
<1>1. IInv => ReachedOnce
  BY DEF IInv
<1> QED BY <1>1, AlwaysIInv, PTL
=============================================================================
