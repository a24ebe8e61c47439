---------------------------- MODULE ReaderRuntime ----------------------------
(***************************************************************************)
(* The request engine of Reader-Core (crates/reader-runtime/runtime.rs):   *)
(* host threads call send, cancel and, at the end of the runtime's life,   *)
(* destroy; one worker thread dispatches the queued commands and answers   *)
(* them through the event sink.                                            *)
(*                                                                         *)
(* Three registries are shared, each behind a mutex of its own: the active *)
(* request ids, the cancelled request ids, and the pending host operations.*)
(* A step of this module is one critical section, one atomic access, one   *)
(* channel operation or one call of the event sink, so every interleaving  *)
(* the code admits between two of them is a behaviour of the model.        *)
(***************************************************************************)
EXTENDS Integers, Sequences, FiniteSets

CONSTANTS
  RequestIds,  \* the request ids the host uses
  Threads,     \* the host threads that call send and cancel
  Worker,      \* the worker thread
  None,        \* the absence of a command, a request or an argument
  Menu,        \* the methods the host sends, a subset of Methods
  MaxUses,     \* bound: how often each request id is accepted (once: ids are fresh)
  MaxOps       \* bound: how many host operations are ever registered

(***************************************************************************)
(* What the methods of dispatch_command do to the registries. A command    *)
(* whose params do not parse is answered like a builtin one (Malformed).   *)
(*   builtin  core.info, runtime.ping, runtime.status, unknown methods     *)
(*   smoke    runtime.hostSmoke: registers an Echo operation               *)
(*   remote   the vertical and tts.* commands: answered at once, without a *)
(*            look at the cancelled ids, or continued by a host operation  *)
(*   cancel, shutdown            runtime.cancel, runtime.shutdown          *)
(*   complete, fail              host.complete, host.error                 *)
(***************************************************************************)
Methods == {"builtin", "smoke", "remote", "cancel", "shutdown", "complete", "fail"}

ASSUME RuntimeAssumption ==
  /\ None \notin RequestIds
  /\ Worker \notin Threads
  /\ None \notin Threads \union {Worker} /\ IsFiniteSet(Threads)
  /\ Menu \subseteq Methods
  /\ MaxUses \in [RequestIds -> Nat] /\ MaxOps \in Nat

VARIABLES
  active,     \* ids accepted by send and not yet completed
  cancelled,  \* ids cancelled and not yet noticed by the worker
  ops,        \* the pending host operations, NoOp where there is none
  nextOp,     \* next_operation_id
  queue,      \* the mpsc channel from send to the worker
  rxOpen,     \* the worker still holds the receiving end of the channel
  shutdown,   \* the shutdown latch
  life,       \* the host's progress through rc_runtime_destroy
  pc,         \* where each thread is
  job,        \* the command a host thread is sending
  target,     \* the request a thread is cancelling
  cur,        \* the command the worker has dequeued
  fin,        \* the request the worker is working for, and its answer
  doomed,     \* ids runtime.shutdown has collected and not yet notified
  \* What the host has seen and asked for (history variables):
  accepts,    \* how often send reserved the id
  answers,    \* terminal events emitted for the id, by kind
  announced,  \* operations whose host.request was emitted
  asked,      \* ids whose current use was cancelled, by the host or a shutdown
  acked,      \* ids for which runtime.cancel replied cancelled: true
  owed,       \* ids enqueued before the shutdown latch was set
  delivered   \* host.complete and host.error commands that reached an operation

registries == <<active, cancelled, ops>>
channel    == <<queue, rxOpen>>
latch      == <<shutdown, life>>
working    == <<cur, fin, doomed>>
history    == <<accepts, answers, announced, asked, acked, owed, delivered>>
vars == <<registries, nextOp, channel, latch, pc, job, target, working, history>>

(***************************************************************************)
(* Values.                                                                 *)
(***************************************************************************)
Procs == Threads \union {Worker}
OpIds == 1..MaxOps

\* A host operation: the request it serves, and whether host.complete ends
\* the request (echo) or resumes a remote continuation.
NoOp == [request |-> None, continuation |-> "none"]
HostOperation == [request : RequestIds, continuation : {"echo", "remote"}]

Command == [id : RequestIds, method : Methods, arg : RequestIds \union Nat \union {None}]
Stop == [id |-> None, method |-> "stop", arg |-> None]
NoCommand == [id |-> None, method |-> "none", arg |-> None]
WorkItem == Command \union {Stop}

Events == {"outcome", "cancelled"}
NoAnswer == [request |-> None, event |-> "outcome"]

SendLabels   == {"reserve", "enqueue"}
CancelLabels == {"mark", "unlink", "unmark", "release", "notify"}
FinishLabels == {"take", "retire", "emit"}
WorkerLabels == {"recv", "dispatch", "execute", "claim", "register", "recheck",
                 "unregister", "request", "dropOps", "forget", "notifyAll",
                 "collect", "drain", "exit", "stopped"} \union FinishLabels
Lives == {"running", "closing", "signalled", "destroyed"}

Commands(r) ==
  LET plain == Menu \intersect {"builtin", "smoke", "remote", "shutdown"}
      about == Menu \intersect {"complete", "fail"}
  IN  [id : {r}, method : plain, arg : {None}]
        \union [id : {r}, method : Menu \intersect {"cancel"}, arg : RequestIds]
        \union [id : {r}, method : about, arg : announced \union {0}]

Pending(o) == ops[o] # NoOp
OpsOf(r) == {o \in OpIds : ops[o].request = r}
Without(S) == [o \in OpIds |-> IF o \in S THEN NoOp ELSE ops[o]]

Goto(p, label) == pc' = [pc EXCEPT ![p] = label]
Emit(r, event) == answers' = [answers EXCEPT ![r][event] = @ + 1]
Answer(r, event) == fin' = [request |-> r, event |-> event]

Init ==
  /\ active = {} /\ cancelled = {}
  /\ ops = [o \in OpIds |-> NoOp] /\ nextOp = 1
  /\ queue = <<>> /\ rxOpen = TRUE
  /\ shutdown = FALSE /\ life = "running"
  /\ pc = [p \in Procs |-> IF p = Worker THEN "recv" ELSE "idle"]
  /\ job = [t \in Threads |-> NoCommand]
  /\ target = [p \in Procs |-> None]
  /\ cur = NoCommand /\ fin = NoAnswer /\ doomed = {}
  /\ accepts = [r \in RequestIds |-> 0]
  /\ answers = [r \in RequestIds |-> [e \in Events |-> 0]]
  /\ announced = {} /\ asked = {} /\ acked = {} /\ owed = {} /\ delivered = {}

-----------------------------------------------------------------------------
(***************************************************************************)
(* Runtime::send. The shutdown check, the reservation of the request id    *)
(* and the hand-over to the channel are three separate steps.              *)
(***************************************************************************)
Sending(r) == {t \in Threads : job[t].id = r}

\* The host has seen an answer for every use of the id it made so far.
Settled(r) == accepts[r] = answers[r]["outcome"] + answers[r]["cancelled"]

SendBegin(t, c) ==
  /\ pc[t] = "idle" /\ life = "running"
  /\ ~shutdown
  /\ accepts[c.id] + Cardinality(Sending(c.id)) < MaxUses[c.id]
  /\ job' = [job EXCEPT ![t] = c]
  /\ Goto(t, "reserve")
  /\ UNCHANGED <<registries, nextOp, channel, latch, target, working, history>>

\* The first of two senders of one id; the other is told it is a duplicate.
SendReserve(t) ==
  LET r == job[t].id IN
  /\ pc[t] = "reserve" /\ r \notin active
  /\ active' = active \union {r}
  /\ Goto(t, "enqueue")
  /\ accepts' = [accepts EXCEPT ![r] = @ + 1]
  /\ asked' = IF Settled(r) THEN asked \ {r} ELSE asked
  /\ acked' = acked \ {r}
  /\ owed' = owed \ {r} /\ delivered' = delivered \ {r}
  /\ UNCHANGED <<cancelled, ops, nextOp, channel, latch, job, target, working,
                 answers, announced>>

SendDuplicate(t) ==
  /\ pc[t] = "reserve" /\ job[t].id \in active
  /\ job' = [job EXCEPT ![t] = NoCommand]
  /\ Goto(t, "idle")
  /\ UNCHANGED <<registries, nextOp, channel, latch, target, working, history>>

SendEnqueue(t) ==
  LET c == job[t] IN
  /\ pc[t] = "enqueue" /\ rxOpen
  /\ queue' = Append(queue, c)
  /\ owed' = IF shutdown THEN owed ELSE owed \union {c.id}
  /\ job' = [job EXCEPT ![t] = NoCommand]
  /\ Goto(t, "idle")
  /\ UNCHANGED <<registries, nextOp, rxOpen, latch, target, working, accepts,
                 answers, announced, asked, acked, delivered>>

\* The worker is gone: the reservation is undone and send fails.
SendRefused(t) ==
  LET r == job[t].id IN
  /\ pc[t] = "enqueue" /\ ~rxOpen
  /\ active' = active \ {r}
  /\ accepts' = [accepts EXCEPT ![r] = @ - 1]
  /\ job' = [job EXCEPT ![t] = NoCommand]
  /\ Goto(t, "idle")
  /\ UNCHANGED <<cancelled, ops, nextOp, channel, latch, target, working, answers,
                 announced, asked, acked, owed, delivered>>

-----------------------------------------------------------------------------
(***************************************************************************)
(* Cancellation: Runtime::cancel on a host thread, cancel_request_by_id on *)
(* the worker for runtime.cancel. Both look the id up, mark it cancelled   *)
(* and drop its host operations; if there was one they also clear the mark,*)
(* release the id and emit CANCELLED, each under a lock of its own.        *)
(***************************************************************************)
CancelBegin(t, r) ==
  /\ pc[t] = "idle" /\ life = "running"
  /\ r \in active
  /\ target' = [target EXCEPT ![t] = r]
  /\ Goto(t, "mark")
  /\ UNCHANGED <<registries, nextOp, channel, latch, job, working, history>>

CancelMark_ReleasesAtOnce(p) ==
  /\ pc[p] = "mark"
  /\ cancelled' = cancelled \union {target[p]}
  /\ asked' = asked \union {target[p]}
  /\ active' = active \ {target[p]}
  /\ Goto(p, "unlink")
  /\ UNCHANGED <<ops, nextOp, channel, latch, job, target, working, accepts,
                 answers, announced, acked, owed, delivered>>

CancelMark(p) ==
  /\ pc[p] = "mark"
  /\ cancelled' = cancelled \union {target[p]}
  /\ asked' = asked \union {target[p]}
  /\ Goto(p, "unlink")
  /\ UNCHANGED <<active, ops, nextOp, channel, latch, job, target, working, accepts,
                 answers, announced, acked, owed, delivered>>

\* A host thread returns to its caller; the worker replies to runtime.cancel.
CancelDone(p) ==
  /\ target' = [target EXCEPT ![p] = None]
  /\ IF p = Worker THEN Goto(p, "take") /\ Answer(cur.id, "outcome")
                   ELSE Goto(p, "idle") /\ UNCHANGED fin

CancelUnlink(p) ==
  LET mine == OpsOf(target[p]) IN
  /\ pc[p] = "unlink"
  /\ ops' = Without(mine)
  /\ IF mine # {} THEN Goto(p, "unmark") /\ UNCHANGED <<target, fin>>
                  ELSE CancelDone(p)
  /\ UNCHANGED <<active, cancelled, nextOp, channel, latch, job, cur, doomed, history>>

CancelUnmark(p) ==
  /\ pc[p] = "unmark"
  /\ cancelled' = cancelled \ {target[p]}
  /\ Goto(p, "release")
  /\ UNCHANGED <<active, ops, nextOp, channel, latch, job, target, working, history>>

CancelRelease(p) ==
  /\ pc[p] = "release"
  /\ active' = active \ {target[p]}
  /\ Goto(p, "notify")
  /\ UNCHANGED <<cancelled, ops, nextOp, channel, latch, job, target, working, history>>

CancelNotify(p) ==
  /\ pc[p] = "notify"
  /\ Emit(target[p], "cancelled")
  /\ CancelDone(p)
  /\ UNCHANGED <<registries, nextOp, channel, latch, job, cur, doomed, accepts,
                 announced, asked, acked, owed, delivered>>

CancelStep(p) ==
  CancelMark(p) \/ CancelUnlink(p) \/ CancelUnmark(p) \/ CancelRelease(p) \/ CancelNotify(p)

-----------------------------------------------------------------------------
(***************************************************************************)
(* finish_request: the answer turns into CANCELLED if the id was cancelled *)
(* in the meantime; the id is released; the answer is emitted. The worker  *)
(* then returns to its queue, or drains it after a runtime.shutdown.       *)
(***************************************************************************)
FinishTake ==
  /\ pc[Worker] = "take"
  /\ cancelled' = cancelled \ {fin.request}
  /\ Answer(fin.request, IF fin.request \in cancelled THEN "cancelled" ELSE fin.event)
  /\ Goto(Worker, "retire")
  /\ UNCHANGED <<active, ops, nextOp, channel, latch, job, target, cur, doomed, history>>

FinishRetire ==
  /\ pc[Worker] = "retire"
  /\ active' = active \ {fin.request}
  /\ Goto(Worker, "emit")
  /\ UNCHANGED <<cancelled, ops, nextOp, channel, latch, job, target, working, history>>

Return ==
  IF cur.method = "shutdown" /\ shutdown
  THEN Goto(Worker, "drain") /\ UNCHANGED cur
  ELSE Goto(Worker, "recv") /\ cur' = NoCommand

FinishEmit ==
  /\ pc[Worker] = "emit"
  /\ Emit(fin.request, fin.event)
  /\ Return
  /\ fin' = NoAnswer
  /\ UNCHANGED <<registries, nextOp, channel, latch, job, target, doomed, accepts,
                 announced, asked, acked, owed, delivered>>

-----------------------------------------------------------------------------
(***************************************************************************)
(* The worker loop.                                                        *)
(***************************************************************************)
WorkerRecv ==
  /\ pc[Worker] = "recv" /\ queue # <<>>
  /\ queue' = Tail(queue)
  /\ IF Head(queue) = Stop \/ shutdown
     THEN Goto(Worker, "exit") /\ UNCHANGED cur
     ELSE Goto(Worker, "dispatch") /\ cur' = Head(queue)
  /\ UNCHANGED <<registries, nextOp, rxOpen, latch, job, target, fin, doomed, history>>

DrainQueued_Answers ==
  /\ pc[Worker] = "drain" /\ queue # <<>> /\ Head(queue) # Stop
  /\ queue' = Tail(queue)
  /\ Answer(Head(queue).id, "outcome")
  /\ Goto(Worker, "take")
  /\ UNCHANGED <<registries, nextOp, rxOpen, latch, job, target, cur, doomed, history>>

\* After a runtime.shutdown took effect, the queued commands are CANCELLED.
DrainQueued ==
  /\ pc[Worker] = "drain" /\ queue # <<>> /\ Head(queue) # Stop
  /\ queue' = Tail(queue)
  /\ Answer(Head(queue).id, "cancelled")
  /\ Goto(Worker, "take")
  /\ UNCHANGED <<registries, nextOp, rxOpen, latch, job, target, cur, doomed, history>>

DrainDone ==
  /\ pc[Worker] = "drain"
  /\ queue # <<>> => Head(queue) = Stop
  /\ Goto(Worker, "exit")
  /\ UNCHANGED <<registries, nextOp, channel, latch, job, target, working, history>>

\* The worker returns: the receiving end and what is still queued are dropped.
WorkerExit ==
  /\ pc[Worker] = "exit"
  /\ rxOpen' = FALSE /\ queue' = <<>>
  /\ cur' = NoCommand
  /\ Goto(Worker, "stopped")
  /\ UNCHANGED <<registries, nextOp, latch, job, target, fin, doomed, history>>

Dispatch_SkipsMark ==
  /\ pc[Worker] = "dispatch"
  /\ Goto(Worker, "execute")
  /\ UNCHANGED <<registries, nextOp, channel, latch, job, target, working, history>>

\* dispatch_command starts by asking whether the command was cancelled.
Dispatch ==
  /\ pc[Worker] = "dispatch"
  /\ cancelled' = cancelled \ {cur.id}
  /\ IF cur.id \in cancelled
     THEN Goto(Worker, "take") /\ Answer(cur.id, "cancelled")
     ELSE Goto(Worker, "execute") /\ UNCHANGED fin
  /\ UNCHANGED <<active, ops, nextOp, channel, latch, job, target, cur, doomed, history>>

Executing(methods) == pc[Worker] = "execute" /\ cur.method \in methods

\* Commands answered at once: builtin ones, and any whose params are invalid.
ExecuteAtOnce ==
  /\ Executing(Methods \ {"remote"})
  /\ Answer(cur.id, "outcome")
  /\ Goto(Worker, "take")
  /\ UNCHANGED <<registries, nextOp, channel, latch, job, target, cur, doomed, history>>

\* remote.rs and tts.rs have a finish of their own: it does not take the mark.
ExecuteRemote ==
  /\ Executing({"remote"})
  /\ Answer(cur.id, "outcome")
  /\ Goto(Worker, "retire")
  /\ UNCHANGED <<registries, nextOp, channel, latch, job, target, cur, doomed, history>>

ExecuteHost ==
  /\ Executing({"smoke", "remote"}) /\ nextOp <= MaxOps
  /\ Answer(cur.id, "outcome")
  /\ Goto(Worker, "register")
  /\ UNCHANGED <<registries, nextOp, channel, latch, job, target, cur, doomed, history>>

\* runtime.cancel: of its own id or of an inactive one it only replies.
ExecuteCancel ==
  /\ Executing({"cancel"})
  /\ IF cur.arg = cur.id \/ cur.arg \notin active
     THEN /\ Answer(cur.id, "outcome") /\ Goto(Worker, "take")
          /\ UNCHANGED <<target, acked>>
     ELSE /\ target' = [target EXCEPT ![Worker] = cur.arg] /\ Goto(Worker, "mark")
          /\ acked' = acked \union {cur.arg}
          /\ UNCHANGED fin
  /\ UNCHANGED <<registries, nextOp, channel, latch, job, cur, doomed, accepts,
                 answers, announced, asked, owed, delivered>>

-----------------------------------------------------------------------------
(***************************************************************************)
(* runtime.shutdown: set the latch, take every other active id, drop every *)
(* other request's operations, clear the marks and emit CANCELLED for each *)
(* id collected, then answer the command itself.                           *)
(***************************************************************************)
ShutdownLatch ==
  /\ Executing({"shutdown"})
  /\ shutdown' = TRUE
  /\ Goto(Worker, "collect")
  /\ UNCHANGED <<registries, nextOp, channel, life, job, target, working, history>>

ShutdownCollect ==
  /\ pc[Worker] = "collect"
  /\ doomed' = active \ {cur.id}
  /\ active' = active \intersect {cur.id}
  /\ Goto(Worker, "dropOps")
  /\ UNCHANGED <<cancelled, ops, nextOp, channel, latch, job, target, cur, fin, history>>

\* The pending operations of every request but r.
OthersOps_Unfiltered(r) == {o \in OpIds : ops[o].request # r}
OthersOps(r) == {o \in OpIds : Pending(o) /\ ops[o].request # r}

ShutdownDropOps ==
  LET others == OthersOps(cur.id) IN
  /\ pc[Worker] = "dropOps"
  /\ ops' = Without(others)
  /\ doomed' = doomed \union {ops[o].request : o \in others}
  /\ Goto(Worker, "forget")
  /\ UNCHANGED <<active, cancelled, nextOp, channel, latch, job, target, cur, fin, history>>

ShutdownForget ==
  /\ pc[Worker] = "forget"
  /\ cancelled' = cancelled \ doomed
  /\ Goto(Worker, "notifyAll")
  /\ UNCHANGED <<active, ops, nextOp, channel, latch, job, target, working, history>>

ShutdownNotify(r) ==
  /\ pc[Worker] = "notifyAll" /\ r \in doomed
  /\ Emit(r, "cancelled")
  /\ doomed' = doomed \ {r}
  /\ UNCHANGED <<registries, nextOp, channel, latch, pc, job, target, cur, fin, accepts,
                 announced, asked, acked, owed, delivered>>

ShutdownAnswer_Early ==
  /\ pc[Worker] = "notifyAll"
  /\ doomed' = {}
  /\ Answer(cur.id, "outcome")
  /\ Goto(Worker, "take")
  /\ UNCHANGED <<registries, nextOp, channel, latch, job, target, cur, history>>

ShutdownAnswer ==
  /\ pc[Worker] = "notifyAll" /\ doomed = {}
  /\ Answer(cur.id, "outcome")
  /\ Goto(Worker, "take")
  /\ UNCHANGED <<registries, nextOp, channel, latch, job, target, cur, doomed, history>>

ShutdownStep ==
  \/ ShutdownLatch \/ ShutdownCollect \/ ShutdownDropOps \/ ShutdownForget
  \/ ShutdownAnswer \/ \E r \in RequestIds : ShutdownNotify(r)

-----------------------------------------------------------------------------
(***************************************************************************)
(* host.complete and host.error: the command's own id is released, then the*)
(* operation is taken out of the registry. Without one the command itself  *)
(* is answered; otherwise the request that owns the operation is, unless a *)
(* remote continuation asks the host again.                                *)
(***************************************************************************)
ExecuteReply_KeepsReservation ==
  /\ Executing({"complete", "fail"})
  /\ Goto(Worker, "claim")
  /\ UNCHANGED <<registries, nextOp, channel, latch, job, target, working, history>>

ExecuteReply ==
  /\ Executing({"complete", "fail"})
  /\ active' = active \ {cur.id}
  /\ Goto(Worker, "claim")
  /\ UNCHANGED <<cancelled, ops, nextOp, channel, latch, job, target, working, history>>

ClaimMissing ==
  /\ pc[Worker] = "claim"
  /\ cur.arg \in OpIds => ~Pending(cur.arg)
  /\ Answer(cur.id, "outcome")
  /\ Goto(Worker, "emit")
  /\ UNCHANGED <<registries, nextOp, channel, latch, job, target, cur, doomed, history>>

\* Where the owner of the claimed operation goes next.
Continuations(op) ==
  IF cur.method = "complete" /\ op.continuation = "remote" /\ nextOp <= MaxOps
  THEN {"take", "register"} ELSE {"take"}

ClaimOperation_Peeks ==
  /\ pc[Worker] = "claim"
  /\ cur.arg \in OpIds /\ Pending(cur.arg)
  /\ Answer(ops[cur.arg].request, "outcome")
  /\ delivered' = delivered \union {cur.id}
  /\ \E next \in Continuations(ops[cur.arg]) : Goto(Worker, next)
  /\ UNCHANGED <<registries, nextOp, channel, latch, job, target, cur, doomed,
                 accepts, answers, announced, asked, acked, owed>>

ClaimOperation ==
  /\ pc[Worker] = "claim"
  /\ cur.arg \in OpIds /\ Pending(cur.arg)
  /\ ops' = Without({cur.arg})
  /\ Answer(ops[cur.arg].request, "outcome")
  /\ delivered' = delivered \union {cur.id}
  /\ \E next \in Continuations(ops[cur.arg]) : Goto(Worker, next)
  /\ UNCHANGED <<active, cancelled, nextOp, channel, latch, job, target, cur, doomed,
                 accepts, answers, announced, asked, acked, owed>>

(***************************************************************************)
(* Registering an operation for fin.request (dispatch_host_smoke,          *)
(* dispatch_remote_host_request and register_pending_host_request agree):  *)
(* insert it, look for a mark, and either withdraw it or ask the host.     *)
(***************************************************************************)
Register ==
  /\ pc[Worker] = "register"
  /\ ops' = [ops EXCEPT ![nextOp] =
                [request |-> fin.request,
                 continuation |-> IF cur.method = "smoke" THEN "echo" ELSE "remote"]]
  /\ nextOp' = nextOp + 1
  /\ Goto(Worker, "recheck")
  /\ UNCHANGED <<active, cancelled, channel, latch, job, target, working, history>>

RegisterRecheck ==
  /\ pc[Worker] = "recheck"
  /\ cancelled' = cancelled \ {fin.request}
  /\ Goto(Worker, IF fin.request \in cancelled THEN "unregister" ELSE "request")
  /\ UNCHANGED <<active, ops, nextOp, channel, latch, job, target, working, history>>

Unregister_KeepsOperation ==
  /\ pc[Worker] = "unregister"
  /\ Answer(fin.request, "cancelled")
  /\ Goto(Worker, "take")
  /\ UNCHANGED <<registries, nextOp, channel, latch, job, target, cur, doomed, history>>

Unregister ==
  /\ pc[Worker] = "unregister"
  /\ ops' = Without({nextOp - 1})
  /\ Answer(fin.request, "cancelled")
  /\ Goto(Worker, "take")
  /\ UNCHANGED <<active, cancelled, nextOp, channel, latch, job, target, cur, doomed, history>>

HostRequest_Silent ==
  /\ pc[Worker] = "request"
  /\ Return
  /\ fin' = NoAnswer
  /\ UNCHANGED <<registries, nextOp, channel, latch, job, target, doomed, history>>

HostRequest ==
  /\ pc[Worker] = "request"
  /\ announced' = announced \union {nextOp - 1}
  /\ Return
  /\ fin' = NoAnswer
  /\ UNCHANGED <<registries, nextOp, channel, latch, job, target, doomed, accepts,
                 answers, asked, acked, owed, delivered>>

-----------------------------------------------------------------------------
(***************************************************************************)
(* Drop for Runtime (rc_runtime_destroy): the host has finished its calls; *)
(* set the latch, send the stop item, join the worker.                     *)
(***************************************************************************)
DestroyBegin ==
  /\ life = "running" /\ \A t \in Threads : pc[t] = "idle"
  /\ shutdown' = TRUE /\ life' = "closing"
  /\ UNCHANGED <<registries, nextOp, channel, pc, job, target, working, history>>

DestroySignal_NoWake ==
  /\ life = "closing"
  /\ life' = "signalled"
  /\ UNCHANGED <<registries, nextOp, channel, shutdown, pc, job, target, working, history>>

DestroySignal ==
  /\ life = "closing"
  /\ life' = "signalled"
  /\ queue' = IF rxOpen THEN Append(queue, Stop) ELSE queue
  /\ UNCHANGED <<registries, nextOp, rxOpen, shutdown, pc, job, target, working, history>>

DestroyJoin ==
  /\ life = "signalled" /\ pc[Worker] = "stopped"
  /\ life' = "destroyed"
  /\ UNCHANGED <<registries, nextOp, channel, shutdown, pc, job, target, working, history>>

-----------------------------------------------------------------------------
WorkerStep ==
  \/ WorkerRecv \/ WorkerExit \/ DrainQueued \/ DrainDone \/ Dispatch
  \/ ExecuteAtOnce \/ ExecuteRemote \/ ExecuteHost \/ ExecuteCancel \/ ExecuteReply
  \/ ClaimMissing \/ ClaimOperation
  \/ Register \/ RegisterRecheck \/ Unregister \/ HostRequest
  \/ FinishTake \/ FinishRetire \/ FinishEmit
  \/ ShutdownStep \/ CancelStep(Worker)

\* A call of a host thread that has begun, and how one begins.
ThreadStep(t) ==
  SendReserve(t) \/ SendDuplicate(t) \/ SendEnqueue(t) \/ SendRefused(t) \/ CancelStep(t)

ThreadCall(t) ==
  \E r \in RequestIds : CancelBegin(t, r) \/ \E c \in Commands(r) : SendBegin(t, c)

DestroyStep == DestroyBegin \/ DestroySignal \/ DestroyJoin

Next == WorkerStep \/ DestroyStep \/ \E t \in Threads : ThreadStep(t) \/ ThreadCall(t)

Spec == Init /\ [][Next]_vars

\* A thread that is inside a call, the worker and a begun destroy keep running;
\* whether the host calls at all is its own affair.
Fairness ==
  /\ WF_vars(WorkerStep)
  /\ WF_vars(DestroySignal) /\ WF_vars(DestroyJoin)
  /\ \A t \in Threads : WF_vars(ThreadStep(t))

FairSpec == Spec /\ Fairness

-----------------------------------------------------------------------------
TypeOK ==
  /\ active \subseteq RequestIds /\ cancelled \subseteq RequestIds
  /\ ops \in [OpIds -> HostOperation \union {NoOp}] /\ nextOp \in 1..(MaxOps + 1)
  /\ queue \in Seq(WorkItem) /\ rxOpen \in BOOLEAN
  /\ shutdown \in BOOLEAN /\ life \in Lives
  /\ pc \in [Procs -> {"idle"} \union SendLabels \union CancelLabels \union WorkerLabels]
  /\ job \in [Threads -> Command \union {NoCommand}]
  /\ target \in [Procs -> RequestIds \union {None}]
  /\ cur \in Command \union {NoCommand}
  /\ fin \in [request : RequestIds \union {None}, event : Events]
  /\ doomed \subseteq RequestIds
  /\ accepts \in [RequestIds -> Int]
  /\ answers \in [RequestIds -> [Events -> Nat]]
  /\ announced \subseteq OpIds
  /\ asked \subseteq RequestIds /\ acked \subseteq RequestIds
  /\ owed \subseteq RequestIds /\ delivered \subseteq RequestIds

-----------------------------------------------------------------------------
(***************************************************************************)
(* Safety.                                                                 *)
(***************************************************************************)
Queued(r) == \E i \in 1..Len(queue) : queue[i].id = r
Finishing == pc[Worker] \in {"exit", "stopped"}

\* Somebody is left who will release the id.
Tracked(r) ==
  \/ \E t \in Threads : pc[t] = "enqueue" /\ job[t].id = r
  \/ Queued(r)
  \/ r \in {cur.id, fin.request}
  \/ \E o \in OpIds : ops[o].request = r
  \/ \E p \in Procs : pc[p] \in {"unmark", "release"} /\ target[p] = r

\* No request is stranded: while the worker runs, every id that send would turn
\* down as a duplicate has something left that will release it.
NoOrphan == ~Finishing => \A r \in active : Tracked(r)

\* The reservation lasts as long as the command (fresh ids): an id cannot be
\* accepted again while its command waits in the queue, unless a shutdown has
\* answered it there.
QueuedIsReserved ==
  ~shutdown => \A r \in RequestIds : Queued(r) => r \in active

\* A pending host operation serves a request that is still active (fresh ids;
\* runtime.shutdown releases the ids one step before it drops the operations),
\* and no request waits for two operations at once.
PendingServesActive ==
  \A o \in OpIds : Pending(o) =>
    /\ ops[o].request \in active \/ pc[Worker] = "dropOps"
    /\ \A q \in OpIds \ {o} : ops[q].request # ops[o].request

\* A cancellation that runtime.cancel confirmed (cancelled: true) is final: the
\* request never gets a result afterwards (fresh ids).
ConfirmedCancelHolds == \A r \in acked : answers[r]["outcome"] = 0

\* When runtime.shutdown has stopped the worker, every command accepted before
\* the latch was set has been answered, has delivered its host reply, or is
\* about to be answered by a thread inside cancel.
ShutdownAnswersAll ==
  life = "running" /\ pc[Worker] = "stopped" =>
    \A r \in owed :
      \/ \E e \in Events : answers[r][e] > 0
      \/ r \in delivered
      \/ \E t \in Threads : target[t] = r /\ pc[t] \in {"unmark", "release", "notify"}

\* Once runtime.shutdown has set the latch, the host is asked for nothing more
\* and is told no result but that of the shutdown command itself.
ShutdownIsFinal ==
  [][ shutdown /\ life = "running" =>
        /\ announced' = announced
        /\ \A r \in RequestIds \ {cur.id} : answers'[r]["outcome"] = answers[r]["outcome"] ]_vars

\* The life of a request id as the host sees it (fresh ids). Two results, or a
\* result and a CANCELLED, map to no phase of RequestLifecycle.
Phase(r) ==
  LET outcome == answers[r]["outcome"]
      cancels == answers[r]["cancelled"]
  IN  CASE outcome > 1 \/ (outcome = 1 /\ cancels > 0) -> "conflicting"
        [] outcome = 1 /\ cancels = 0 -> "answered"
        [] outcome = 0 /\ cancels > 0 -> "cancelled"
        [] outcome = 0 /\ cancels = 0 /\ r \in delivered -> "delivered"
        [] outcome = 0 /\ cancels = 0 /\ r \notin delivered /\ accepts[r] > 0 -> "live"
        [] OTHER -> "new"

Lifecycle == INSTANCE RequestLifecycle WITH phase <- [r \in RequestIds |-> Phase(r)]

\* The engine implements RequestLifecycle: whatever races between send, cancel,
\* the worker and shutdown, the host never sees a result after a CANCELLED, a
\* CANCELLED after a result, or two results.
LifecycleSpec == Lifecycle!Spec

-----------------------------------------------------------------------------
(***************************************************************************)
(* Liveness, under FairSpec.                                               *)
(***************************************************************************)
WaitsForHost(r) == \E o \in announced : ops[o].request = r

\* The worker never sits on a request: an active id is released, or the host has
\* been asked to complete an operation for it, or the worker is finishing.
ActiveIsServed ==
  \A r \in RequestIds : r \in active ~> (r \notin active \/ WaitsForHost(r) \/ Finishing)

\* A set latch, whoever set it and whatever is queued, makes the worker stop.
LatchStopsWorker == shutdown ~> ~rxOpen

\* Destroy returns: the join never waits for a worker that waits for a command.
DestroyReturns == life = "closing" ~> life = "destroyed"

-----------------------------------------------------------------------------
(***************************************************************************)
(* What the comments and the C header say, and the code does not do; the   *)
(* second holds as long as the host uses each id once.                     *)
(***************************************************************************)

\* reader_core.h: cancelling an already-completed request does not emit an event.
\* cancel must not emit CANCELLED for a request that has been answered.
CompletedIsSilent ==
  [][ \A t \in Threads : CancelNotify(t) =>
        \A e \in Events : answers[target[t]][e] = 0 ]_vars

\* Runtime::cancel: the worker answers a cancelled request with CANCELLED when
\* it observes the cancellation. So only a use that was cancelled, or that a
\* shutdown ended, is answered CANCELLED.
NoSpuriousCancel ==
  [][ \A r \in RequestIds :
        answers'[r]["cancelled"] > answers[r]["cancelled"] => r \in asked \/ shutdown ]_vars

=============================================================================
