--------------------------- MODULE DownloadQueue ---------------------------
(***************************************************************************)
(* The chapter download queue of reader-storage (in-memory backend) and    *)
(* the workers of the host that claim its tasks, fetch and report.         *)
(*                                                                         *)
(* Every call takes the lock of the store once, so a call is one step.     *)
(* Between its claim and its report a worker holds nothing but the key of  *)
(* the task: the queue keeps no lease and the reports check no status.     *)
(***************************************************************************)
EXTENDS Integers, FiniteSets

CONSTANTS
  Tasks,        \* the download keys, in the order of (source, book, chapter)
  BookOf,       \* the book of each task
  Workers,
  None,         \* what a worker holds that holds nothing
  Priorities,
  Limits,       \* the values of max_attempts that enqueue is called with
  Created,      \* the creation times that enqueue is called with
  Times         \* the values of `now`, which the callers pass

ASSUME QueueAssumption ==
  /\ Tasks \subseteq Nat /\ None \notin Tasks
  /\ Priorities \subseteq Int /\ Limits \subseteq Nat
  /\ Created \subseteq Int /\ Times \subseteq Int

VARIABLES
  queue,        \* the tasks in the queue, by key
  held,         \* the key each worker works on
  lost,         \* history: keys whose worker died, or that came from a backup
  requeued      \* history: keys enqueued or restored while a worker held them

queueVars == <<queue, held, lost, requeued>>

Statuses == {"Pending", "InProgress", "Completed", "Failed", "Cancelled"}

Task == [priority : Priorities, status : Statuses, created : Created,
         updated : Times, attempts : Nat, limit : Limits]

\* validate_chapter_download_task, as far as a task is data of this model.
ValidTask(task) == task.limit > 0 /\ task.attempts <= task.limit

Holders(k) == {w \in Workers : held[w] = k}
HeldKeys == {held[w] : w \in Workers} \ {None}

\* The keys of a store with one more of them.
With(table, k, row) ==
  [x \in DOMAIN table \union {k} |-> IF x = k THEN row ELSE table[x]]

QueueInit ==
  /\ queue = [k \in {} |-> None]
  /\ held = [w \in Workers |-> None]
  /\ lost = {} /\ requeued = {}

(* ----------------------------- the calls ------------------------------ *)

\* A new task, or a known one from the start: only its creation time stays.
Enqueued(k, p, l, created, now) ==
  [priority |-> p, status |-> "Pending", updated |-> now, attempts |-> 0, limit |-> l,
   created |-> IF k \in DOMAIN queue THEN queue[k].created ELSE created]

Enqueue(k, p, l, created, now) ==
  /\ ValidTask(Enqueued(k, p, l, created, now))
  /\ queue' = With(queue, k, Enqueued(k, p, l, created, now))
  /\ requeued' = requeued \union ({k} \intersect HeldKeys)
  /\ UNCHANGED <<held, lost>>

Claimable(task) ==
  /\ task.status \in {"Pending", "Failed"}
  /\ task.attempts < task.limit

\* Urgent first, then the one that has not been touched for the longest time.
ClaimedBefore(j, k) ==
  LET a == queue[j]
      b == queue[k]
  IN \/ a.priority > b.priority
     \/ a.priority = b.priority /\
        (\/ a.updated < b.updated
         \/ a.updated = b.updated /\
            (\/ a.created < b.created
             \/ a.created = b.created /\ j < k))

NextClaim(k) ==
  /\ k \in DOMAIN queue /\ Claimable(queue[k])
  /\ \A j \in DOMAIN queue \ {k} : Claimable(queue[j]) => ClaimedBefore(k, j)

Claim(w, k, now) ==
  /\ held[w] = None
  /\ NextClaim(k)
  /\ queue' = [queue EXCEPT ![k].status = "InProgress", ![k].attempts = @ + 1,
                            ![k].updated = now]
  /\ held' = [held EXCEPT ![w] = k]
  /\ lost' = lost \ {k}
  /\ UNCHANGED requeued

\* A key that is not there is refused (DownloadTaskNotFound).
Marked(k, status, now) ==
  IF k \in DOMAIN queue
  THEN [queue EXCEPT ![k].status = status, ![k].updated = now]
  ELSE queue

Complete(w, now) ==
  /\ held[w] # None
  /\ queue' = Marked(held[w], "Completed", now)
  /\ held' = [held EXCEPT ![w] = None]
  /\ UNCHANGED <<lost, requeued>>

\* The worker gives a reason: a blank one is refused and the task stays as it is.
Fail(w, now) ==
  /\ held[w] # None
  /\ queue' = Marked(held[w], "Failed", now)
  /\ held' = [held EXCEPT ![w] = None]
  /\ UNCHANGED <<lost, requeued>>

Cancel(k, now) ==
  /\ k \in DOMAIN queue
  /\ queue' = Marked(k, "Cancelled", now)
  /\ UNCHANGED <<held, lost, requeued>>

Finished(k) == queue[k].status \in {"Completed", "Cancelled"}

ClearFinished(book) ==
  /\ queue' = [k \in {x \in DOMAIN queue : ~(BookOf[x] = book /\ Finished(x))} |-> queue[k]]
  /\ UNCHANGED <<held, lost, requeued>>

(* --------------------- what happens to the workers -------------------- *)

\* The process ends: the tasks are stored, the workers and what they hold not.
Crash ==
  /\ HeldKeys # {}
  /\ held' = [w \in Workers |-> None]
  /\ lost' = lost \union HeldKeys
  /\ UNCHANGED <<queue, requeued>>

\* A backup takes the place of the queue; the workers do not hear of it.
RestoreQueue(backup) ==
  /\ queue' = backup
  /\ lost' = {k \in DOMAIN backup : backup[k].status = "InProgress"}
  /\ requeued' = requeued \union HeldKeys
  /\ UNCHANGED held

Report(w, now) == Complete(w, now) \/ Fail(w, now)

QueueNext ==
  \/ \E k \in Tasks, p \in Priorities, l \in Limits, created \in Created, now \in Times :
       Enqueue(k, p, l, created, now)
  \/ \E w \in Workers, k \in Tasks, now \in Times : Claim(w, k, now)
  \/ \E w \in Workers, now \in Times : Complete(w, now)
  \/ \E w \in Workers, now \in Times : Fail(w, now)
  \/ \E k \in Tasks, now \in Times : Cancel(k, now)
  \/ \E book \in {BookOf[k] : k \in Tasks} : ClearFinished(book)
  \/ Crash

(* ----------------------------- properties ----------------------------- *)

\* Types: every task in the queue is one the code would accept.
QueueTypeOK ==
  /\ DOMAIN queue \subseteq Tasks
  /\ \A k \in DOMAIN queue : queue[k] \in Task /\ ValidTask(queue[k])
  /\ held \in [Workers -> Tasks \union {None}]
  /\ lost \subseteq Tasks /\ requeued \subseteq Tasks

\* A task that is InProgress is being worked on, unless its worker died with
\* the process or it was InProgress in a backup: no order of claims, late
\* reports and requeues leaves one behind (no call but enqueue frees such a task).
InProgressIsHeld ==
  \A k \in DOMAIN queue :
    queue[k].status = "InProgress" => Holders(k) # {} \/ k \in lost

\* Two workers download the same chapter only after it was enqueued, or a
\* backup restored, while the first one was at it: claim_next_chapter_download
\* alone hands no task out twice.
OneWorkerPerTask ==
  \A k \in HeldKeys \ requeued : \E w \in Workers : Holders(k) = {w}

Settled(k) ==
  \/ k \notin DOMAIN queue
  \/ Finished(k)
  \/ queue[k].status = "Failed" /\ ~Claimable(queue[k])
  \/ queue[k].status = "InProgress" /\ k \in lost

\* No task is enqueued or restored in this step.
NoNewWork ==
  \A k \in DOMAIN queue' :
    /\ k \in DOMAIN queue /\ queue[k].attempts <= queue'[k].attempts
    /\ queue'[k].status = "Pending" => queue[k].status = "Pending"

\* Once nothing new is enqueued, every task is completed, cancelled, removed or
\* out of attempts in the end: a retry of an urgent task cannot keep the others
\* waiting for ever.  Only a task whose worker died stays as it is.
TasksSettle ==
  <>[][NoNewWork]_queue => \A k \in Tasks : []<>Settled(k)
=============================================================================
