-------------------------- MODULE HostCallbackBridge --------------------------
(***************************************************************************)
(* JavaScript that calls the host (host_callback_bridge.rs): a rule script *)
(* runs on the worker thread, asks the host for an HTTP response and blocks*)
(* until a host thread delivers it. send hands such a host.complete or     *)
(* host.error straight to the blocked callback; one for an operation of the*)
(* runtime's own registry goes through the worker's queue.                 *)
(*                                                                         *)
(* The registries that send and cancel share are in ReaderRuntime; here a  *)
(* request is what the worker is serving, and the host only answers the    *)
(* operations it was asked for, until it destroys the runtime.             *)
(***************************************************************************)
EXTENDS Naturals, Sequences, FiniteSets

CONSTANTS
  Requests,  \* the requests the host has sent, each one a command in the queue
  Threads,   \* the host threads that answer host.request events
  None,      \* no request, no operation
  JsBase,    \* JS_CALLBACK_OP_ID_BASE: operation ids of JS callbacks start here
  MaxOps,    \* bound: the runtime registers at most this many operations
  MaxJs,     \* bound: the scripts make at most this many callbacks
  MaxReplies \* bound: the host sends at most this many replies

ASSUME BridgeAssumption ==
  /\ IsFiniteSet(Requests) /\ None \notin Requests /\ None \notin Nat
  /\ JsBase \in Nat \ {0} /\ MaxOps \in Nat /\ MaxJs \in Nat /\ MaxReplies \in Nat

VARIABLES
  queue,      \* commands on their way to the worker
  hostOps,    \* the request that waits for each operation of the runtime's registry
  nextOp,     \* next_operation_id of the runtime
  pending,    \* ids of the JS callbacks a completion can reach
  slot,       \* PendingCallback.result of each JS callback
  nextJs,     \* next_op_id of the bridge
  stamp,      \* current_request_id
  wpc,        \* where the worker is
  serving,    \* the request the worker is working for
  jsOp,       \* the JS callback the worker is making
  hpc, hcmd,  \* where each host thread is, and the command it sends
  latch,      \* the shutdown latch
  life,       \* how far rc_runtime_destroy has come
  drained,    \* callbacks abort_all_pending took and has not yet completed
  \* What the host has seen (history variables):
  asked,      \* the operations it was asked for, with the stamped request
  owner,      \* the request whose script made each JS callback
  reached,    \* how many commands send handed to each JS callback
  sent        \* replies the host has sent

bridge == <<pending, slot, nextJs, stamp>>
worker == <<wpc, serving, jsOp>>
runtime == <<queue, hostOps, nextOp>>
host == <<hpc, hcmd>>
closing == <<latch, life, drained>>
history == <<asked, owner, reached, sent>>
vars == <<bridge, worker, runtime, host, closing, history>>

OpIds == 1..MaxOps
JsIds == JsBase..(JsBase + MaxJs - 1)
Lives == {"running", "latched", "aborting", "signalled", "destroyed"}
WorkerLabels == {"recv", "script", "emit", "wait", "expired", "register", "stopped"}

Start(r) == [kind |-> "start", about |-> r]
Reply == [kind : {"complete", "error"}, about : OpIds \union JsIds]
NoReply == [kind |-> "none", about |-> None]
WorkItem == [kind : {"start"}, about : Requests] \union Reply \union {[kind |-> "stop", about |-> None]}
Asked == [op : OpIds \union JsIds, request : Requests \union {None}]

Init ==
  /\ queue \in {q \in [1..Cardinality(Requests) -> {Start(r) : r \in Requests}] :
                  \A r \in Requests : \E i \in DOMAIN q : q[i] = Start(r)}
  /\ hostOps = [o \in OpIds |-> None] /\ nextOp = 1
  /\ pending = {} /\ slot = [o \in JsIds |-> "empty"] /\ nextJs = JsBase
  /\ stamp = None
  /\ wpc = "recv" /\ serving = None /\ jsOp = None
  /\ hpc = [t \in Threads |-> "idle"] /\ hcmd = [t \in Threads |-> NoReply]
  /\ latch = FALSE /\ life = "running" /\ drained = {}
  /\ asked = {} /\ owner = [o \in JsIds |-> None]
  /\ reached = [o \in JsIds |-> 0] /\ sent = 0

NextCommand == wpc' = "recv" /\ serving' = None

-----------------------------------------------------------------------------
(***************************************************************************)
(* The worker: dispatch_remote and dispatch_host_complete stamp the request*)
(* and run its rules, which may call the host from JavaScript.             *)
(***************************************************************************)
WorkerStop ==
  /\ wpc = "recv" /\ queue # <<>>
  /\ latch \/ Head(queue).kind = "stop"
  /\ wpc' = "stopped" /\ queue' = <<>>
  /\ UNCHANGED <<bridge, serving, jsOp, hostOps, nextOp, host, closing, history>>

StartRequest ==
  /\ wpc = "recv" /\ ~latch
  /\ queue # <<>> /\ Head(queue).kind = "start"
  /\ queue' = Tail(queue)
  /\ stamp' = Head(queue).about /\ serving' = Head(queue).about
  /\ wpc' = "script"
  /\ UNCHANGED <<pending, slot, nextJs, jsOp, hostOps, nextOp, host, closing, history>>

\* A host.complete or host.error that send did not hand to a JS callback.
Replying(kind) ==
  /\ wpc = "recv" /\ ~latch
  /\ queue # <<>> /\ Head(queue).kind = kind
  /\ queue' = Tail(queue)

Waits(o) == o \in OpIds /\ hostOps[o] # None

ReplyUnknown ==
  /\ Replying("complete") \/ Replying("error")
  /\ ~Waits(Head(queue).about)
  /\ UNCHANGED <<bridge, worker, hostOps, nextOp, host, closing, history>>

ResumeRequest_KeepsStamp ==
  LET o == Head(queue).about IN
  /\ Replying("complete") /\ Waits(o)
  /\ hostOps' = [hostOps EXCEPT ![o] = None]
  /\ serving' = hostOps[o] /\ wpc' = "script"
  /\ UNCHANGED <<bridge, jsOp, nextOp, host, closing, history>>

ResumeRequest ==
  LET o == Head(queue).about IN
  /\ Replying("complete") /\ Waits(o)
  /\ hostOps' = [hostOps EXCEPT ![o] = None]
  /\ stamp' = hostOps[o] /\ serving' = hostOps[o] /\ wpc' = "script"
  /\ UNCHANGED <<pending, slot, nextJs, jsOp, nextOp, host, closing, history>>

FailRequest ==
  LET o == Head(queue).about IN
  /\ Replying("error") /\ Waits(o)
  /\ hostOps' = [hostOps EXCEPT ![o] = None]
  /\ UNCHANGED <<bridge, worker, nextOp, host, closing, history>>

\* The rules are done: the request is answered, or asks the host for a page.
AnswerRequest ==
  /\ wpc = "script"
  /\ NextCommand
  /\ UNCHANGED <<bridge, jsOp, runtime, host, closing, history>>

RegisterOperation ==
  /\ wpc = "script" /\ nextOp <= MaxOps
  /\ hostOps' = [hostOps EXCEPT ![nextOp] = serving]
  /\ nextOp' = nextOp + 1
  /\ wpc' = "register"
  /\ UNCHANGED <<bridge, serving, jsOp, queue, host, closing, history>>

RequestPage ==
  /\ wpc = "register"
  /\ asked' = asked \union {[op |-> nextOp - 1, request |-> serving]}
  /\ NextCommand
  /\ UNCHANGED <<bridge, jsOp, runtime, host, closing, owner, reached, sent>>

-----------------------------------------------------------------------------
(***************************************************************************)
(* dispatch_and_wait: one callback from JavaScript to the host. The script *)
(* goes on after an answer and after an error; it may call again.          *)
(***************************************************************************)
CallHost ==
  /\ wpc = "script" /\ nextJs \in JsIds
  /\ pending' = pending \union {nextJs} /\ nextJs' = nextJs + 1
  /\ owner' = [owner EXCEPT ![nextJs] = serving]
  /\ jsOp' = nextJs /\ wpc' = "emit"
  /\ UNCHANGED <<slot, stamp, serving, runtime, host, closing, asked, reached, sent>>

RequestHost ==
  /\ wpc = "emit"
  /\ asked' = asked \union {[op |-> jsOp, request |-> stamp]}
  /\ wpc' = "wait"
  /\ UNCHANGED <<bridge, serving, jsOp, runtime, host, closing, owner, reached, sent>>

Wake ==
  /\ wpc = "wait" /\ slot[jsOp] # "empty"
  /\ slot' = [slot EXCEPT ![jsOp] = "empty"]
  /\ IF slot[jsOp] = "complete" THEN wpc' = "script" /\ jsOp' = None
                                ELSE wpc' = "expired" /\ UNCHANGED jsOp
  /\ UNCHANGED <<pending, nextJs, stamp, serving, runtime, host, closing, history>>

\* The 30 seconds are over and nothing was delivered.
Timeout ==
  /\ wpc = "wait" /\ slot[jsOp] = "empty"
  /\ wpc' = "expired"
  /\ UNCHANGED <<bridge, serving, jsOp, runtime, host, closing, history>>

CleanUp_LeavesEntry ==
  /\ wpc = "expired"
  /\ wpc' = "script" /\ jsOp' = None
  /\ UNCHANGED <<bridge, serving, runtime, host, closing, history>>

CleanUp ==
  /\ wpc = "expired"
  /\ pending' = pending \ {jsOp}
  /\ wpc' = "script" /\ jsOp' = None
  /\ UNCHANGED <<slot, nextJs, stamp, serving, runtime, host, closing, history>>

-----------------------------------------------------------------------------
(***************************************************************************)
(* Runtime::send of a host.complete or host.error: a host thread answers an*)
(* operation it was asked for, once or again.                              *)
(***************************************************************************)
SendReply(t, reply) ==
  /\ hpc[t] = "idle" /\ life = "running" /\ ~latch /\ sent < MaxReplies
  /\ \E a \in asked : a.op = reply.about
  /\ hcmd' = [hcmd EXCEPT ![t] = reply]
  /\ hpc' = [hpc EXCEPT ![t] = "intercept"]
  /\ sent' = sent + 1
  /\ UNCHANGED <<bridge, worker, runtime, closing, asked, owner, reached>>

\* The id is not the bridge's: the command goes to the worker.
FallThrough(t) ==
  /\ hpc[t] = "intercept" /\ hcmd[t].about \notin pending
  /\ hpc' = [hpc EXCEPT ![t] = "enqueue"]
  /\ UNCHANGED <<bridge, worker, runtime, hcmd, closing, history>>

EnqueueReply_ClearsFirst(t) ==
  /\ hpc[t] = "enqueue"
  /\ hcmd' = [hcmd EXCEPT ![t] = NoReply]
  /\ queue' = IF wpc = "stopped" THEN queue ELSE Append(queue, hcmd'[t])
  /\ hpc' = [hpc EXCEPT ![t] = "idle"]
  /\ UNCHANGED <<bridge, worker, hostOps, nextOp, closing, history>>

EnqueueReply(t) ==
  /\ hpc[t] = "enqueue"
  /\ queue' = IF wpc = "stopped" THEN queue ELSE Append(queue, hcmd[t])
  /\ hpc' = [hpc EXCEPT ![t] = "idle"] /\ hcmd' = [hcmd EXCEPT ![t] = NoReply]
  /\ UNCHANGED <<bridge, worker, hostOps, nextOp, closing, history>>

Intercept_Peeks(t) ==
  LET o == hcmd[t].about IN
  /\ hpc[t] = "intercept" /\ o \in pending
  /\ reached' = [reached EXCEPT ![o] = @ + 1]
  /\ hpc' = [hpc EXCEPT ![t] = "deliver"]
  /\ UNCHANGED <<bridge, worker, runtime, hcmd, closing, asked, owner, sent>>

Intercept_Enqueues(t) ==
  /\ hpc[t] = "intercept" /\ hcmd[t].about \in pending
  /\ hpc' = [hpc EXCEPT ![t] = "enqueue"]
  /\ UNCHANGED <<bridge, worker, runtime, hcmd, closing, history>>

\* try_complete takes the callback out of the map, then fills its slot.
Intercept(t) ==
  LET o == hcmd[t].about IN
  /\ hpc[t] = "intercept" /\ o \in pending
  /\ pending' = pending \ {o}
  /\ reached' = [reached EXCEPT ![o] = @ + 1]
  /\ hpc' = [hpc EXCEPT ![t] = "deliver"]
  /\ UNCHANGED <<slot, nextJs, stamp, worker, runtime, hcmd, closing, asked, owner, sent>>

\* PendingCallback::complete: the first result stays.
Filled(o, result) == slot' = [slot EXCEPT ![o] = IF @ = "empty" THEN result ELSE @]

Deliver(t) ==
  /\ hpc[t] = "deliver"
  /\ Filled(hcmd[t].about, hcmd[t].kind)
  /\ hpc' = [hpc EXCEPT ![t] = "idle"] /\ hcmd' = [hcmd EXCEPT ![t] = NoReply]
  /\ UNCHANGED <<pending, nextJs, stamp, worker, runtime, closing, history>>

-----------------------------------------------------------------------------
(***************************************************************************)
(* Drop for Runtime: latch, abort_all_pending, the stop item, and a join   *)
(* that gives up after five seconds. The host serialises it with its calls.*)
(***************************************************************************)
DropLatch ==
  /\ life = "running" /\ \A t \in Threads : hpc[t] = "idle"
  /\ latch' = TRUE /\ life' = "latched"
  /\ UNCHANGED <<bridge, worker, runtime, host, drained, history>>

DropAbort_Forgets ==
  /\ life = "latched"
  /\ pending' = {} /\ drained' = {}
  /\ life' = "aborting"
  /\ UNCHANGED <<slot, nextJs, stamp, worker, runtime, host, latch, history>>

DropAbort ==
  /\ life = "latched"
  /\ pending' = {} /\ drained' = pending
  /\ life' = "aborting"
  /\ UNCHANGED <<slot, nextJs, stamp, worker, runtime, host, latch, history>>

DropWake(o) ==
  /\ life = "aborting" /\ o \in drained
  /\ Filled(o, "error")
  /\ drained' = drained \ {o}
  /\ UNCHANGED <<pending, nextJs, stamp, worker, runtime, host, latch, life, history>>

DropSignal ==
  /\ life = "aborting" /\ drained = {}
  /\ queue' = IF wpc = "stopped" THEN queue ELSE Append(queue, [kind |-> "stop", about |-> None])
  /\ life' = "signalled"
  /\ UNCHANGED <<bridge, worker, hostOps, nextOp, host, latch, drained, history>>

\* The worker has ended.
DropJoin ==
  /\ life = "signalled" /\ wpc = "stopped"
  /\ life' = "destroyed"
  /\ UNCHANGED <<bridge, worker, runtime, host, latch, drained, history>>

\* The five seconds are over. A script that is blocked in a callback is all that
\* lasts as long: between its other steps the worker waits for nobody.
DropDetach ==
  /\ life = "signalled" /\ wpc = "wait"
  /\ life' = "destroyed"
  /\ UNCHANGED <<bridge, worker, runtime, host, latch, drained, history>>

-----------------------------------------------------------------------------
WorkerStep ==
  \/ WorkerStop \/ StartRequest \/ ReplyUnknown \/ ResumeRequest \/ FailRequest
  \/ AnswerRequest \/ RegisterOperation \/ RequestPage
  \/ CallHost \/ RequestHost \/ Wake \/ CleanUp

HostStep(t) == FallThrough(t) \/ EnqueueReply(t) \/ Intercept(t) \/ Deliver(t)

DropStep == DropAbort \/ (\E o \in JsIds : DropWake(o)) \/ DropSignal \/ DropJoin

Next ==
  \/ WorkerStep \/ Timeout
  \/ \E t \in Threads : HostStep(t) \/ \E reply \in Reply : SendReply(t, reply)
  \/ DropLatch \/ DropStep \/ DropDetach

Spec == Init /\ [][Next]_vars

\* The worker, the calls of the host and a begun destroy go on. No fairness is
\* assumed of the clock: neither timeout has to fire.
FairSpec ==
  /\ Spec
  /\ WF_vars(WorkerStep) /\ WF_vars(DropStep)
  /\ \A t \in Threads : WF_vars(HostStep(t))

-----------------------------------------------------------------------------
TypeOK ==
  /\ queue \in Seq(WorkItem)
  /\ hostOps \in [OpIds -> Requests \union {None}] /\ nextOp \in 1..(MaxOps + 1)
  /\ pending \subseteq JsIds /\ nextJs \in JsBase..(JsBase + MaxJs)
  /\ slot \in [JsIds -> {"empty", "complete", "error"}]
  /\ stamp \in Requests \union {None} /\ serving \in Requests \union {None}
  /\ wpc \in WorkerLabels /\ jsOp \in JsIds \union {None}
  /\ hpc \in [Threads -> {"idle", "intercept", "enqueue", "deliver"}]
  /\ hcmd \in [Threads -> Reply \union {NoReply}]
  /\ latch \in BOOLEAN /\ life \in Lives /\ drained \subseteq JsIds
  /\ asked \subseteq Asked /\ owner \in [JsIds -> Requests \union {None}]
  /\ reached \in [JsIds -> Nat] /\ sent \in 0..MaxReplies

\* The map of pending callbacks holds the one the script is blocked in and no
\* other: whatever the timeout, a completion and the abort do to each other, no
\* entry outlives its callback.
NoLeak == pending \subseteq {jsOp}

\* A host.request from JavaScript carries the request whose rules are running,
\* also when a host.complete resumed them after another request had run.
StampedRequest ==
  \A a \in asked : a.op \in JsIds \ OpIds => a.request = owner[a.op]

\* One command reaches a callback: a second one is not swallowed by it.
ReachedOnce == \A o \in JsIds : reached[o] <= 1

\* A completion on its way to the script that waits for it wakes the script,
\* though the worker cannot take a command: no timeout is needed.
CompletionWakesScript ==
  \A t \in Threads :
    (wpc = "wait" /\ hpc[t] = "intercept" /\ hcmd[t].about = jsOp) ~> (wpc # "wait")

\* A script that is blocked when destroy sets the latch is woken by the abort.
AbortWakesScript == (wpc = "wait" /\ life = "latched") ~> (wpc # "wait")

-----------------------------------------------------------------------------
\* rc_runtime_destroy: after it returned, no further callbacks fire. A destroyed
\* runtime must not take a step that emits an event. A script that calls the host
\* after the abort is blocked when the join gives up; it times out later.
EmitsEvent == RequestHost \/ RequestPage \/ AnswerRequest \/ ReplyUnknown \/ FailRequest

NoCallbackAfterDestroy == [][life = "destroyed" => ~EmitsEvent]_vars
=============================================================================
