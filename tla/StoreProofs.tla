------------------------------ MODULE StoreProofs ------------------------------
(***************************************************************************)
(* Theorems about SqliteStore, for every set of tasks, workers, times and  *)
(* backups: the download queue between its workers, the chapters fetched   *)
(* ahead, the tables with the progress of each book, what stays when the   *)
(* cache is pruned, and the statements on the tables against the calls of  *)
(* the store in memory: the queue first, then every table.                 *)
(***************************************************************************)
EXTENDS SqliteStore, FiniteOrders

(***************************************************************************)
(* The download queue.                                                     *)
(***************************************************************************)
\* What the database asks for is the first of a finite set.
LEMMA LexLessFour ==
  ASSUME NEW a1 \in Int, NEW a2 \in Int, NEW a3 \in Int, NEW a4 \in Int,
         NEW b1 \in Int, NEW b2 \in Int, NEW b3 \in Int, NEW b4 \in Int
  PROVE  LexLess(<<a1, a2, a3, a4>>, <<b1, b2, b3, b4>>) <=>
           \/ a1 < b1
           \/ a1 = b1 /\ a2 < b2
           \/ a1 = b1 /\ a2 = b2 /\ a3 < b3
           \/ a1 = b1 /\ a2 = b2 /\ a3 = b3 /\ a4 < b4
<1> DEFINE x == <<a1, a2, a3, a4>>
           y == <<b1, b2, b3, b4>>
<1>1. DOMAIN x = 1..4 /\ x[1] = a1 /\ x[2] = a2 /\ x[3] = a3 /\ x[4] = a4
      /\ y[1] = b1 /\ y[2] = b2 /\ y[3] = b3 /\ y[4] = b4
  OBVIOUS
<1> HIDE DEF x, y
<1>3. LexLess(x, y) <=>
        \/ x[1] < y[1] /\ \A m \in 1..0 : x[m] = y[m]
        \/ x[2] < y[2] /\ \A m \in 1..1 : x[m] = y[m]
        \/ x[3] < y[3] /\ \A m \in 1..2 : x[m] = y[m]
        \/ x[4] < y[4] /\ \A m \in 1..3 : x[m] = y[m]
  BY <1>1 DEF LexLess
<1> QED BY <1>1, <1>3 DEF x, y

QueueTyped == QueueTypeOK /\ queue \in [DOMAIN queue -> Task] /\ IsFiniteSet(DOMAIN queue)

LEMMA RowFacts ==
  ASSUME QueueTyped, NEW k \in DOMAIN queue
  PROVE  /\ k \in Int /\ queue[k].priority \in Int /\ -queue[k].priority \in Int
         /\ queue[k].updated \in Int /\ queue[k].created \in Int
<1>1. k \in Tasks /\ queue[k] \in Task
  BY DEF QueueTyped, QueueTypeOK
<1>2. queue[k].priority \in Priorities /\ queue[k].updated \in Times /\ queue[k].created \in Created
  BY <1>1 DEF Task
<1>3. Tasks \subseteq Nat /\ Priorities \subseteq Int /\ Created \subseteq Int /\ Times \subseteq Int
  BY QueueAssumption
<1>4. k \in Int
  BY <1>1, <1>3
<1>5. queue[k].priority \in Int
  BY <1>2, <1>3
<1>6. queue[k].updated \in Int /\ queue[k].created \in Int
  BY <1>2, <1>3
<1>7. -queue[k].priority \in Int
  BY <1>5
<1> QED BY <1>4, <1>5, <1>6, <1>7

LEMMA FirstOfCandidates ==
  ASSUME QueueTyped, Candidates # {}
  PROVE  NextClaim(FirstCandidate)
<1> DEFINE C == Candidates
           R == {p \in C \X C : LexLess(ClaimKey(p[1]), ClaimKey(p[2]))}
           Less(j, k) == LexLess(ClaimKey(j), ClaimKey(k))
<1>1. C \subseteq DOMAIN queue /\ IsFiniteSet(C)
  BY FS_Subset DEF Candidates, QueueTyped
<1>2. \A k \in DOMAIN queue :
        /\ k \in Int /\ queue[k].priority \in Int /\ -queue[k].priority \in Int
        /\ queue[k].updated \in Int /\ queue[k].created \in Int
  BY RowFacts
<1>3. ASSUME NEW j \in DOMAIN queue, NEW k \in DOMAIN queue
      PROVE  Less(j, k) <=> ClaimedBefore(j, k)
  <2> DEFINE a1 == queue[j].priority
             a2 == queue[j].updated
             a3 == queue[j].created
             b1 == queue[k].priority
             b2 == queue[k].updated
             b3 == queue[k].created
  <2>1. /\ -a1 \in Int /\ a1 \in Int /\ a2 \in Int /\ a3 \in Int /\ j \in Int
        /\ -b1 \in Int /\ b1 \in Int /\ b2 \in Int /\ b3 \in Int /\ k \in Int
    BY <1>2
  <2>2. ClaimKey(j) = <<-a1, a2, a3, j>> /\ ClaimKey(k) = <<-b1, b2, b3, k>>
    BY DEF ClaimKey
  <2>3. ClaimedBefore(j, k) <=>
          \/ a1 > b1
          \/ a1 = b1 /\ a2 < b2
          \/ a1 = b1 /\ a2 = b2 /\ a3 < b3
          \/ a1 = b1 /\ a2 = b2 /\ a3 = b3 /\ j < k
    BY DEF ClaimedBefore
  <2> HIDE DEF a1, a2, a3, b1, b2, b3, Less
  <2>4. LexLess(<<-a1, a2, a3, j>>, <<-b1, b2, b3, k>>) <=>
          \/ -a1 < -b1
          \/ -a1 = -b1 /\ a2 < b2
          \/ -a1 = -b1 /\ a2 = b2 /\ a3 < b3
          \/ -a1 = -b1 /\ a2 = b2 /\ a3 = b3 /\ j < k
    BY <2>1, LexLessFour
  <2>5. (-a1 < -b1 <=> a1 > b1) /\ (-a1 = -b1 <=> a1 = b1)
    BY <2>1
  <2> QED BY <2>2, <2>3, <2>4, <2>5 DEF Less
<1>4. TransitiveOn(R, C) /\ TotalOn(R, C)
  <2>1. ASSUME NEW i \in C, NEW j \in C, NEW k \in C PROVE
          /\ Less(i, j) /\ Less(j, k) => Less(i, k)
          /\ i = j \/ Less(i, j) \/ Less(j, i)
    <3>1. i \in DOMAIN queue /\ j \in DOMAIN queue /\ k \in DOMAIN queue
      BY <1>1
    <3>2. /\ ClaimedBefore(i, j) /\ ClaimedBefore(j, k) => ClaimedBefore(i, k)
          /\ i = j \/ ClaimedBefore(i, j) \/ ClaimedBefore(j, i)
      BY <1>2, <3>1 DEF ClaimedBefore
    <3> HIDE DEF Less
    <3> QED BY <1>3, <3>1, <3>2
  <2>2. \A j, k : <<j, k>> \in R <=> j \in C /\ k \in C /\ Less(j, k)
    OBVIOUS
  <2> HIDE DEF R, C, Less
  <2>3. TransitiveOn(R, C)
    BY <2>1, <2>2 DEF TransitiveOn
  <2>4. TotalOn(R, C)
    BY <2>1, <2>2 DEF TotalOn
  <2> QED BY <2>3, <2>4
<1>5. PICK k : FirstIn(k, R, C)
  <2> HIDE DEF R
  <2> QED BY <1>1, <1>4, FirstExists DEF C
<1>6. k \in C /\ \A j \in C \ {k} : Less(k, j)
  BY <1>5 DEF FirstIn
<1>7. FirstCandidate \in C /\ \A j \in C \ {FirstCandidate} : Less(FirstCandidate, j)
  BY <1>6 DEF FirstCandidate
<1>8. \A j \in DOMAIN queue : j \in C <=> Claimable(queue[j])
  BY DEF Candidates, Claimable
<1> HIDE DEF C, Less
<1> QED BY <1>1, <1>3, <1>7, <1>8 DEF NextClaim

\* An UPDATE of one row writes what the in-memory call writes.
LEMMA UpdateMarks ==
  ASSUME QueueTyped, NEW k, NEW status, NEW now, UpdateTask(k, status, now)
  PROVE  queue' = Marked(k, status, now)
<1> DEFINE row == [queue[k] EXCEPT !.status = status, !.updated = now]
<1>1. queue' = [x \in DOMAIN queue |-> IF x = k THEN row ELSE queue[x]]
  BY DEF UpdateTask
<1>2. Marked(k, status, now) =
        IF k \in DOMAIN queue THEN [x \in DOMAIN queue |-> IF x = k THEN row ELSE queue[x]]
        ELSE queue
  BY DEF Marked
<1>3. queue \in [DOMAIN queue -> Task]
  BY DEF QueueTyped
<1> QED BY <1>1, <1>2, <1>3

LEMMA ClaimImplements ==
  ASSUME QueueTyped, NEW w \in Workers, NEW now \in Times, SqlClaim(w, now)
  PROVE  FirstCandidate \in Tasks /\ Claim(w, FirstCandidate, now)
<1> DEFINE k == FirstCandidate
           row == [queue[k] EXCEPT !.status = "InProgress", !.attempts = @ + 1, !.updated = now]
<1>1. NextClaim(k)
  BY FirstOfCandidates DEF SqlClaim
<1>2. k \in DOMAIN queue /\ k \in Tasks
  BY <1>1 DEF NextClaim, QueueTyped, QueueTypeOK
<1>3. queue' = [x \in DOMAIN queue \union {k} |-> IF x = k THEN row ELSE queue[x]]
  BY DEF SqlClaim, Upsert
<1> HIDE DEF k
<1>4. queue' = [queue EXCEPT ![k].status = "InProgress", ![k].attempts = @ + 1, ![k].updated = now]
  <2>1. queue' = [x \in DOMAIN queue |-> IF x = k THEN row ELSE queue[x]]
    BY <1>2, <1>3
  <2> QED BY <1>2, <2>1
<1>5. /\ held[w] = None /\ held' = [held EXCEPT ![w] = k]
      /\ lost' = lost \ {k} /\ UNCHANGED requeued
  BY DEF SqlClaim, k
<1>6. Claim(w, k, now)
  BY <1>1, <1>4, <1>5 DEF Claim
<1> QED BY <1>2, <1>6 DEF k

LEMMA EnqueueImplements ==
  ASSUME NEW k, NEW p, NEW l, NEW created, NEW now, SqlEnqueue(k, p, l, created, now)
  PROVE  Enqueue(k, p, l, created, now)
<1> DEFINE stored == {queue[x].created : x \in DOMAIN queue \intersect {k}}
           first == IF stored = {} THEN created ELSE CHOOSE t \in stored : TRUE
<1>1. first = IF k \in DOMAIN queue THEN queue[k].created ELSE created
  <2>1. CASE k \in DOMAIN queue
    <3>1. stored = {queue[k].created}
      BY <2>1
    <3> QED BY <2>1, <3>1
  <2>2. CASE k \notin DOMAIN queue
    <3>1. stored = {}
      BY <2>2
    <3> QED BY <2>2, <3>1
  <2> QED BY <2>1, <2>2
<1> DEFINE row == [priority |-> p, status |-> "Pending", attempts |-> 0, limit |-> l, updated |-> now,
                   created |-> first]
<1>2. row = Enqueued(k, p, l, created, now)
  <2> HIDE DEF first
  <2> QED BY <1>1 DEF Enqueued
<1>3. /\ ValidTask(row) /\ queue' = Upsert(queue, k, row)
      /\ requeued' = requeued \union ({k} \intersect HeldKeys) /\ UNCHANGED <<held, lost>>
  BY DEF SqlEnqueue
<1>4. Upsert(queue, k, row) = With(queue, k, row)
  BY DEF Upsert, With
<1> HIDE DEF row
<1> QED BY <1>2, <1>3, <1>4 DEF Enqueue

\* The queue steps of the database are those of the store in memory.
LEMMA QueueImplements ==
  ASSUME QueueTyped, SqlQueueNext PROVE QueueNext
<1>1. ASSUME NEW k \in Tasks, NEW p \in Priorities, NEW l \in Limits, NEW created \in Created,
             NEW now \in Times, SqlEnqueue(k, p, l, created, now)
      PROVE  QueueNext
  BY <1>1, EnqueueImplements DEF QueueNext
<1>2. ASSUME NEW w \in Workers, NEW now \in Times, SqlClaim(w, now) PROVE QueueNext
  <2>1. FirstCandidate \in Tasks /\ Claim(w, FirstCandidate, now)
    BY <1>2, ClaimImplements
  <2> QED BY <2>1 DEF QueueNext
<1>3. ASSUME NEW w \in Workers, NEW now \in Times, SqlReport(w, now) PROVE QueueNext
  <2>1. PICK status \in {"Completed", "Failed"} : UpdateTask(held[w], status, now)
    BY <1>3 DEF SqlReport
  <2>2. queue' = Marked(held[w], status, now)
    BY <2>1, UpdateMarks
  <2>3. Complete(w, now) \/ Fail(w, now)
    BY <1>3, <2>2 DEF SqlReport, Complete, Fail
  <2> QED BY <2>3 DEF QueueNext
<1>4. ASSUME NEW k \in Tasks, NEW now \in Times, SqlCancel(k, now) PROVE QueueNext
  <2>1. queue' = Marked(k, "Cancelled", now)
    BY <1>4, UpdateMarks DEF SqlCancel
  <2>2. Cancel(k, now)
    BY <1>4, <2>1 DEF SqlCancel, Cancel
  <2> QED BY <2>2 DEF QueueNext
<1>5. ASSUME NEW book \in {BookOf[k] : k \in Tasks}, SqlClearFinished(book) PROVE QueueNext
  <2> DEFINE gone == {k \in DOMAIN queue : BookOf[k] = book /\ queue[k].status \in {"Completed", "Cancelled"}}
             kept == {x \in DOMAIN queue : ~(BookOf[x] = book /\ Finished(x))}
  <2>1. queue' = [k \in DOMAIN queue \ gone |-> queue[k]] /\ UNCHANGED <<held, lost, requeued>>
    BY <1>5 DEF SqlClearFinished, Delete
  <2>2. DOMAIN queue \ gone = kept
    BY DEF Finished
  <2>3. queue' = [k \in kept |-> queue[k]]
    BY <2>1, <2>2
  <2>4. ClearFinished(book)
    BY <2>1, <2>3 DEF ClearFinished
  <2> QED BY <2>4 DEF QueueNext
<1> QED BY <1>1, <1>2, <1>3, <1>4, <1>5 DEF SqlQueueNext, QueueNext

-----------------------------------------------------------------------------
\* A key that was claimed and neither enqueued again nor restored has one
\* worker, and its task waits for the report or was cancelled meanwhile.
Sole ==
  \A x \in HeldKeys \ requeued :
    /\ \A v, u \in Workers : held[v] = x /\ held[u] = x => v = u
    /\ x \in DOMAIN queue => queue[x].status \in {"InProgress", "Cancelled"}

QueueInv == QueueTyped /\ InProgressIsHeld /\ Sole

LEMMA HeldFacts ==
  ASSUME QueueTyped, NEW w \in Workers, NEW x \in Tasks \union {None}, held' = [held EXCEPT ![w] = x]
  PROVE  /\ held \in [Workers -> Tasks \union {None}] /\ None \notin Tasks
         /\ held' \in [Workers -> Tasks \union {None}]
         /\ \A v \in Workers : held'[v] = IF v = w THEN x ELSE held[v]
  BY QueueAssumption DEF QueueTyped, QueueTypeOK

\* One row is put in or replaced.
LEMMA RowWritten ==
  ASSUME QueueTyped, NEW k \in Tasks, NEW row \in Task, ValidTask(row),
         queue' = [x \in DOMAIN queue \union {k} |-> IF x = k THEN row ELSE queue[x]]
  PROVE  /\ queue' \in [DOMAIN queue' -> Task] /\ IsFiniteSet(DOMAIN queue')
         /\ DOMAIN queue' = DOMAIN queue \union {k} /\ DOMAIN queue' \subseteq Tasks
         /\ queue'[k] = row /\ \A x \in DOMAIN queue \ {k} : queue'[x] = queue[x]
         /\ \A x \in DOMAIN queue' : queue'[x] \in Task /\ ValidTask(queue'[x])
<1>1. DOMAIN queue' = DOMAIN queue \union {k}
  OBVIOUS
<1>2. IsFiniteSet(DOMAIN queue')
  BY <1>1, FS_AddElement DEF QueueTyped
<1>3. /\ DOMAIN queue \subseteq Tasks
      /\ \A x \in DOMAIN queue : queue[x] \in Task /\ ValidTask(queue[x])
  BY DEF QueueTyped, QueueTypeOK
<1>4. \A x \in DOMAIN queue' : queue'[x] = IF x = k THEN row ELSE queue[x]
  BY <1>1
<1>5. \A x \in DOMAIN queue' : queue'[x] \in Task /\ ValidTask(queue'[x])
  BY <1>1, <1>3, <1>4
<1>6. queue' \in [DOMAIN queue' -> Task]
  BY <1>1, <1>5
<1> QED BY <1>1, <1>2, <1>3, <1>4, <1>5, <1>6

LEMMA MarkFacts ==
  ASSUME QueueTyped, NEW k, NEW status \in Statuses, NEW now \in Times,
         queue' = Marked(k, status, now)
  PROVE  /\ queue' \in [DOMAIN queue' -> Task] /\ IsFiniteSet(DOMAIN queue')
         /\ DOMAIN queue' \subseteq Tasks /\ DOMAIN queue' = DOMAIN queue
         /\ k \in DOMAIN queue => queue'[k].status = status
         /\ \A x \in DOMAIN queue \ {k} : queue'[x] = queue[x]
         /\ \A x \in DOMAIN queue' : queue'[x] \in Task /\ ValidTask(queue'[x])
<1>1. CASE k \notin DOMAIN queue
  BY <1>1 DEF Marked, QueueTyped, QueueTypeOK
<1>2. CASE k \in DOMAIN queue
  <2> DEFINE row == [queue[k] EXCEPT !.status = status, !.updated = now]
  <2>1. k \in Tasks /\ queue[k] \in Task /\ ValidTask(queue[k]) /\ DOMAIN queue \union {k} = DOMAIN queue
    BY <1>2 DEF QueueTyped, QueueTypeOK
  <2>2. row \in Task /\ ValidTask(row) /\ row.status = status
    BY <2>1 DEF Task, ValidTask
  <2>3. queue' = [x \in DOMAIN queue |-> IF x = k THEN row ELSE queue[x]]
    BY <1>2 DEF Marked
  <2>4. queue' = [x \in DOMAIN queue \union {k} |-> IF x = k THEN row ELSE queue[x]]
    BY <2>1, <2>3
  <2> HIDE DEF row
  <2>5. /\ queue' \in [DOMAIN queue' -> Task] /\ IsFiniteSet(DOMAIN queue')
        /\ DOMAIN queue' = DOMAIN queue \union {k} /\ DOMAIN queue' \subseteq Tasks
        /\ queue'[k] = row /\ \A x \in DOMAIN queue \ {k} : queue'[x] = queue[x]
        /\ \A x \in DOMAIN queue' : queue'[x] \in Task /\ ValidTask(queue'[x])
    BY <2>1, <2>2, <2>4, RowWritten
  <2> QED BY <2>1, <2>2, <2>5
<1> QED BY <1>1, <1>2

LEMMA EnqueueQueueInv ==
  ASSUME QueueInv, NEW k \in Tasks, NEW p \in Priorities, NEW l \in Limits, NEW created \in Created,
         NEW now \in Times, Enqueue(k, p, l, created, now)
  PROVE  QueueInv'
<1> DEFINE row == Enqueued(k, p, l, created, now)
<1>1. row \in Task /\ ValidTask(row) /\ row.status = "Pending"
  <2>1. k \in DOMAIN queue => queue[k].created \in Created
    BY DEF QueueInv, QueueTyped, QueueTypeOK, Task
  <2>2. 0 \in Nat /\ "Pending" \in Statuses
    BY DEF Statuses
  <2> QED BY <2>1, <2>2 DEF Enqueued, Task, Enqueue
<1>2. queue' = [x \in DOMAIN queue \union {k} |-> IF x = k THEN row ELSE queue[x]]
  BY DEF Enqueue, With
<1>3. UNCHANGED <<held, lost>> /\ requeued' = requeued \union ({k} \intersect HeldKeys)
  BY DEF Enqueue
<1> HIDE DEF row
<1>4. /\ queue' \in [DOMAIN queue' -> Task] /\ IsFiniteSet(DOMAIN queue')
      /\ DOMAIN queue' = DOMAIN queue \union {k} /\ DOMAIN queue' \subseteq Tasks
      /\ queue'[k] = row /\ \A x \in DOMAIN queue \ {k} : queue'[x] = queue[x]
      /\ \A x \in DOMAIN queue' : queue'[x] \in Task /\ ValidTask(queue'[x])
  BY <1>1, <1>2, RowWritten DEF QueueInv
<1>5. QueueTyped'
  BY <1>3, <1>4 DEF QueueInv, QueueTyped, QueueTypeOK
<1>6. InProgressIsHeld'
  BY <1>1, <1>3, <1>4 DEF QueueInv, InProgressIsHeld, Holders
<1>7. Sole'
  BY <1>3, <1>4 DEF QueueInv, Sole, HeldKeys
<1> QED BY <1>5, <1>6, <1>7 DEF QueueInv

LEMMA ClaimQueueInv ==
  ASSUME QueueInv, NEW w \in Workers, NEW k \in Tasks, NEW now \in Times, Claim(w, k, now)
  PROVE  QueueInv'
<1> DEFINE row == [queue[k] EXCEPT !.status = "InProgress", !.attempts = @ + 1, !.updated = now]
<1>1. /\ k \in DOMAIN queue /\ Claimable(queue[k]) /\ held[w] = None
      /\ held' = [held EXCEPT ![w] = k] /\ lost' = lost \ {k} /\ UNCHANGED requeued
  BY DEF Claim, NextClaim
<1>2. queue[k] \in Task /\ ValidTask(queue[k]) /\ queue \in [DOMAIN queue -> Task]
      /\ DOMAIN queue \union {k} = DOMAIN queue
  BY <1>1 DEF QueueInv, QueueTyped, QueueTypeOK
<1>3. row \in Task /\ ValidTask(row) /\ row.status = "InProgress"
  <2> DEFINE a == queue[k].attempts
             m == queue[k].limit
  <2>1. a \in Nat /\ m \in Limits /\ Limits \subseteq Nat /\ m > 0 /\ a < m
    BY <1>1, <1>2, QueueAssumption DEF Task, ValidTask, Claimable
  <2> HIDE DEF a, m
  <2>2. a + 1 \in Nat /\ a + 1 <= m
    BY <2>1
  <2>3. row.attempts = a + 1 /\ row.limit = m /\ row.status = "InProgress"
    BY <1>2 DEF Task, a, m
  <2>4. row \in Task
    <3>1. a + 1 \in Nat /\ "InProgress" \in Statuses
      BY <2>2 DEF Statuses
    <3> QED BY <1>2, <3>1 DEF Task, a
  <2>5. ValidTask(row)
    <3> HIDE DEF row
    <3> QED BY <2>1, <2>2, <2>3 DEF ValidTask
  <2> QED BY <2>3, <2>4, <2>5
<1>4. queue' = [x \in DOMAIN queue \union {k} |-> IF x = k THEN row ELSE queue[x]]
  <2>1. queue' = [queue EXCEPT ![k].status = "InProgress", ![k].attempts = @ + 1, ![k].updated = now]
    BY DEF Claim
  <2>2. queue' = [x \in DOMAIN queue |-> IF x = k THEN row ELSE queue[x]]
    BY <1>1, <1>2, <2>1
  <2> QED BY <1>2, <2>2
<1> HIDE DEF row
<1>5. /\ queue' \in [DOMAIN queue' -> Task] /\ IsFiniteSet(DOMAIN queue')
      /\ DOMAIN queue' = DOMAIN queue \union {k} /\ DOMAIN queue' \subseteq Tasks
      /\ queue'[k] = row /\ \A x \in DOMAIN queue \ {k} : queue'[x] = queue[x]
      /\ \A x \in DOMAIN queue' : queue'[x] \in Task /\ ValidTask(queue'[x])
  BY <1>3, <1>4, RowWritten DEF QueueInv
<1>6. /\ held \in [Workers -> Tasks \union {None}] /\ None \notin Tasks
      /\ held' \in [Workers -> Tasks \union {None}]
      /\ \A v \in Workers : held'[v] = IF v = w THEN k ELSE held[v]
  BY <1>1, HeldFacts DEF QueueInv
<1>7. QueueTyped'
  BY <1>1, <1>5, <1>6 DEF QueueInv, QueueTyped, QueueTypeOK
<1>8. InProgressIsHeld'
  <2>1. SUFFICES ASSUME NEW x \in DOMAIN queue', queue'[x].status = "InProgress"
                 PROVE  Holders(x)' # {} \/ x \in lost'
    BY DEF InProgressIsHeld
  <2>2. CASE x = k
    BY <1>6, <2>2 DEF Holders
  <2>3. CASE x # k
    <3>1. x \in DOMAIN queue /\ queue[x].status = "InProgress"
      BY <1>5, <2>1, <2>3
    <3>2. CASE x \in lost
      BY <1>1, <2>3, <3>2
    <3>3. CASE Holders(x) # {}
      <4>1. PICK v \in Workers : held[v] = x
        BY <3>3 DEF Holders
      <4>2. x \in Tasks
        BY <3>1 DEF QueueInv, QueueTyped, QueueTypeOK
      <4>3. held'[v] = x
        BY <1>1, <1>6, <4>1, <4>2
      <4> QED BY <4>3 DEF Holders
    <3> QED BY <3>1, <3>2, <3>3 DEF QueueInv, InProgressIsHeld
  <2> QED BY <2>2, <2>3
<1>9. Sole'
  <2>1. SUFFICES ASSUME NEW x \in HeldKeys' \ requeued'
                 PROVE  /\ \A v, u \in Workers : held'[v] = x /\ held'[u] = x => v = u
                        /\ x \in DOMAIN queue' => queue'[x].status \in {"InProgress", "Cancelled"}
    BY DEF Sole
  <2>2. k \notin HeldKeys \ requeued
    BY <1>1 DEF QueueInv, Sole, Claimable
  <2>3. CASE x = k
    <3>1. \A v \in Workers : held[v] # k
      <4>1. k \notin HeldKeys /\ k # None
        BY <1>1, <1>6, <2>1, <2>2, <2>3
      <4> QED BY <4>1 DEF HeldKeys
    <3> QED BY <1>3, <1>5, <1>6, <2>3, <3>1
  <2>4. CASE x # k
    <3>1. x \in HeldKeys \ requeued
      BY <1>1, <1>6, <2>1, <2>4 DEF HeldKeys
    <3>2. \A v \in Workers : held'[v] = x => held[v] = x
      BY <1>6, <2>4
    <3>3. \A v, u \in Workers : held'[v] = x /\ held'[u] = x => v = u
      BY <3>1, <3>2 DEF QueueInv, Sole
    <3>4. x \in DOMAIN queue' => x \in DOMAIN queue /\ queue'[x] = queue[x]
      BY <1>5, <2>4
    <3>5. x \in DOMAIN queue' => queue'[x].status \in {"InProgress", "Cancelled"}
      BY <3>1, <3>4 DEF QueueInv, Sole
    <3> QED BY <3>3, <3>5
  <2> QED BY <2>3, <2>4
<1> QED BY <1>7, <1>8, <1>9 DEF QueueInv

LEMMA ReportQueueInv ==
  ASSUME QueueInv, NEW w \in Workers, NEW now \in Times, Complete(w, now) \/ Fail(w, now)
  PROVE  QueueInv'
<1> DEFINE k == held[w]
<1>1. PICK status \in {"Completed", "Failed"} : queue' = Marked(k, status, now)
  BY DEF Complete, Fail
<1>2. k # None /\ held' = [held EXCEPT ![w] = None] /\ UNCHANGED <<lost, requeued>>
  BY DEF Complete, Fail
<1>3. /\ queue' \in [DOMAIN queue' -> Task] /\ IsFiniteSet(DOMAIN queue')
      /\ DOMAIN queue' \subseteq Tasks /\ DOMAIN queue' = DOMAIN queue
      /\ k \in DOMAIN queue => queue'[k].status = status
      /\ \A x \in DOMAIN queue \ {k} : queue'[x] = queue[x]
      /\ \A x \in DOMAIN queue' : queue'[x] \in Task /\ ValidTask(queue'[x])
  BY <1>1, MarkFacts DEF QueueInv, Statuses
<1>4. /\ held \in [Workers -> Tasks \union {None}] /\ None \notin Tasks
      /\ held' \in [Workers -> Tasks \union {None}]
      /\ \A v \in Workers : held'[v] = IF v = w THEN None ELSE held[v]
  BY <1>2, HeldFacts DEF QueueInv
<1>5. QueueTyped'
  BY <1>2, <1>3, <1>4 DEF QueueInv, QueueTyped, QueueTypeOK
<1>6. \A x \in Tasks \ {k} : Holders(x)' = Holders(x)
  BY <1>4 DEF Holders
<1>7. InProgressIsHeld'
  BY <1>2, <1>3, <1>6 DEF QueueInv, InProgressIsHeld
<1>8. Sole'
  <2>1. SUFFICES ASSUME NEW x \in HeldKeys' \ requeued
                 PROVE  /\ \A v, u \in Workers : held'[v] = x /\ held'[u] = x => v = u
                        /\ x \in DOMAIN queue' => queue'[x].status \in {"InProgress", "Cancelled"}
    BY <1>2 DEF Sole
  <2>2. PICK v \in Workers : held'[v] = x /\ held[v] = x /\ v # w
    BY <1>4 DEF HeldKeys
  <2>3. x \in HeldKeys \ requeued
    BY <2>1, <2>2 DEF HeldKeys
  <2>4. x # k
    BY <2>2, <2>3 DEF QueueInv, Sole
  <2>5. \A v1, u1 \in Workers : held'[v1] = x /\ held'[u1] = x => v1 = u1
    <3>1. x # None
      BY <2>3 DEF HeldKeys
    <3>2. ASSUME NEW v1 \in Workers, held'[v1] = x PROVE held[v1] = x
      BY <1>4, <3>1, <3>2
    <3> QED BY <2>3, <3>2 DEF QueueInv, Sole
  <2>6. ASSUME x \in DOMAIN queue' PROVE queue'[x].status \in {"InProgress", "Cancelled"}
    <3>1. x \in DOMAIN queue \ {k}
      BY <1>3, <2>4, <2>6
    <3>2. queue'[x] = queue[x]
      BY <1>3, <3>1
    <3> QED BY <2>3, <3>1, <3>2 DEF QueueInv, Sole
  <2> QED BY <2>5, <2>6
<1> QED BY <1>5, <1>7, <1>8 DEF QueueInv

LEMMA CancelQueueInv ==
  ASSUME QueueInv, NEW k, NEW now \in Times, Cancel(k, now) PROVE QueueInv'
<1>1. queue' = Marked(k, "Cancelled", now) /\ UNCHANGED <<held, lost, requeued>>
  BY DEF Cancel
<1>2. /\ queue' \in [DOMAIN queue' -> Task] /\ IsFiniteSet(DOMAIN queue')
      /\ DOMAIN queue' \subseteq Tasks /\ DOMAIN queue' = DOMAIN queue
      /\ k \in DOMAIN queue => queue'[k].status = "Cancelled"
      /\ \A x \in DOMAIN queue \ {k} : queue'[x] = queue[x]
      /\ \A x \in DOMAIN queue' : queue'[x] \in Task /\ ValidTask(queue'[x])
  BY <1>1, MarkFacts DEF QueueInv, Statuses
<1>3. QueueTyped'
  BY <1>1, <1>2 DEF QueueInv, QueueTyped, QueueTypeOK
<1>4. InProgressIsHeld'
  BY <1>1, <1>2 DEF QueueInv, InProgressIsHeld, Holders
<1>5. Sole'
  BY <1>1, <1>2 DEF QueueInv, Sole, HeldKeys
<1> QED BY <1>3, <1>4, <1>5 DEF QueueInv

LEMMA ClearQueueInv ==
  ASSUME QueueInv, NEW book, ClearFinished(book) PROVE QueueInv'
<1> DEFINE kept == {x \in DOMAIN queue : ~(BookOf[x] = book /\ Finished(x))}
<1>1. /\ queue' = [k \in kept |-> queue[k]] /\ kept \subseteq DOMAIN queue
      /\ UNCHANGED <<held, lost, requeued>>
  BY DEF ClearFinished
<1> HIDE DEF kept
<1>2. DOMAIN queue' = kept /\ \A x \in kept : queue'[x] = queue[x]
  BY <1>1
<1>3. IsFiniteSet(DOMAIN queue')
  BY <1>1, <1>2, FS_Subset DEF QueueInv, QueueTyped
<1>4. \A x \in kept : queue'[x] \in Task /\ ValidTask(queue'[x])
  BY <1>1, <1>2 DEF QueueInv, QueueTyped, QueueTypeOK
<1>5. queue' \in [DOMAIN queue' -> Task]
  BY <1>1, <1>2, <1>4
<1>6. QueueTyped'
  BY <1>1, <1>2, <1>3, <1>4, <1>5 DEF QueueInv, QueueTyped, QueueTypeOK
<1>7. InProgressIsHeld'
  BY <1>1, <1>2 DEF QueueInv, InProgressIsHeld, Holders
<1>8. Sole'
  BY <1>1, <1>2 DEF QueueInv, Sole, HeldKeys
<1> QED BY <1>6, <1>7, <1>8 DEF QueueInv

LEMMA CrashQueueInv == QueueInv /\ Crash => QueueInv'
<1> SUFFICES ASSUME QueueInv, Crash PROVE QueueInv'
  OBVIOUS
<1>1. /\ held' = [w \in Workers |-> None] /\ lost' = lost \union HeldKeys
      /\ UNCHANGED <<queue, requeued>>
  BY DEF Crash
<1>2. HeldKeys \subseteq Tasks /\ HeldKeys' = {}
  BY <1>1 DEF HeldKeys, QueueInv, QueueTyped, QueueTypeOK
<1>3. QueueTyped'
  BY <1>1, <1>2 DEF QueueInv, QueueTyped, QueueTypeOK
<1>4. InProgressIsHeld'
  <2>1. SUFFICES ASSUME NEW x \in DOMAIN queue, queue[x].status = "InProgress" PROVE x \in lost'
    BY <1>1 DEF InProgressIsHeld
  <2>2. Holders(x) # {} => x \in HeldKeys
    <3>1. x # None
      BY QueueAssumption DEF QueueInv, QueueTyped, QueueTypeOK
    <3> QED BY <3>1 DEF Holders, HeldKeys
  <2> QED BY <1>1, <2>1, <2>2 DEF QueueInv, InProgressIsHeld
<1>5. Sole'
  BY <1>2 DEF Sole
<1> QED BY <1>3, <1>4, <1>5 DEF QueueInv

LEMMA RestoreQueueInv ==
  ASSUME QueueInv, NEW backup, IsFiniteSet(DOMAIN backup), DOMAIN backup \subseteq Tasks,
         backup \in [DOMAIN backup -> Task], \A k \in DOMAIN backup : ValidTask(backup[k]),
         RestoreQueue(backup)
  PROVE  QueueInv'
<1>1. /\ queue' = backup /\ lost' = {k \in DOMAIN backup : backup[k].status = "InProgress"}
      /\ requeued' = requeued \union HeldKeys /\ UNCHANGED held
  BY DEF RestoreQueue
<1>2. HeldKeys \subseteq Tasks /\ HeldKeys' = HeldKeys
  BY <1>1 DEF HeldKeys, QueueInv, QueueTyped, QueueTypeOK
<1>3. QueueTyped'
  <2>1. QueueTypeOK'
    BY <1>1, <1>2 DEF QueueInv, QueueTyped, QueueTypeOK
  <2> QED BY <1>1, <2>1 DEF QueueTyped
<1>4. InProgressIsHeld'
  BY <1>1 DEF InProgressIsHeld
<1>5. Sole'
  BY <1>1, <1>2 DEF Sole
<1> QED BY <1>3, <1>4, <1>5 DEF QueueInv

LEMMA QueueNextInv == QueueInv /\ QueueNext => QueueInv'
  BY EnqueueQueueInv, ClaimQueueInv, ReportQueueInv, CancelQueueInv, ClearQueueInv, CrashQueueInv
  DEF QueueNext

-----------------------------------------------------------------------------
\* What the queue sees of a step of the store.
QueueStep == QueueNext \/ \E backup : RestoreQueue(backup)

LEMMA SqlStepOnQueue ==
  ASSUME QueueTyped, SqlNext PROVE QueueStep \/ UNCHANGED queueVars
  BY QueueImplements DEF SqlNext, QueueStep, SqlReplace

LEMMA SqlNextQueueInv == QueueInv /\ [SqlNext]_sqlVars => QueueInv'
<1> SUFFICES ASSUME QueueInv, [SqlNext]_sqlVars PROVE QueueInv'
  OBVIOUS
<1>1. CASE UNCHANGED queueVars
  BY <1>1 DEF queueVars, QueueInv, QueueTyped, QueueTypeOK, InProgressIsHeld, Holders, Sole, HeldKeys
<1>2. CASE SqlQueueNext
  BY <1>2, QueueImplements, QueueNextInv DEF QueueInv
<1>3. ASSUME NEW snap \in Backups \union {Memory!Snapshot}, SqlReplace(snap) PROVE QueueInv'
  <2>1. RestoreQueue(snap.queue) /\ \A k \in DOMAIN snap.queue : ValidTask(snap.queue[k])
    BY <1>3 DEF SqlReplace, Memory!ValidSnapshot, Memory!ValidTask, ValidTask
  <2>2. /\ IsFiniteSet(DOMAIN snap.queue) /\ DOMAIN snap.queue \subseteq Tasks
        /\ snap.queue \in [DOMAIN snap.queue -> Task]
    <3>1. CASE snap \in Backups
      BY <3>1, BackupAssumption DEF Exported
    <3>2. CASE snap = Memory!Snapshot
      <4>1. snap.queue = queue
        BY <3>2 DEF Memory!Snapshot
      <4> QED BY <4>1 DEF QueueInv, QueueTyped, QueueTypeOK
    <3> QED BY <3>1, <3>2
  <2> QED BY <2>1, <2>2, RestoreQueueInv
<1> QED BY <1>1, <1>2, <1>3 DEF SqlNext, sqlVars

LEMMA SqlInitQueueInv == SqlInit => QueueInv
<1> SUFFICES ASSUME SqlInit PROVE QueueInv
  OBVIOUS
<1>1. DOMAIN queue = {} /\ queue = [k \in {} |-> None]
  BY DEF SqlInit, QueueInit
<1>2. IsFiniteSet(DOMAIN queue)
  BY <1>1, FS_EmptySet
<1> QED BY <1>1, <1>2 DEF SqlInit, QueueInit, QueueInv, QueueTyped, QueueTypeOK, InProgressIsHeld,
           Sole, HeldKeys

LEMMA AlwaysQueueInv == SqlSpec => []QueueInv
  BY SqlInitQueueInv, SqlNextQueueInv, PTL DEF SqlSpec

\* Whatever the workers, the tasks and the backups: a task that is InProgress is
\* being worked on, unless its worker died or it came so from a backup.
THEOREM NoneLeftBehind == SqlSpec => []InProgressIsHeld
<1>1. QueueInv => InProgressIsHeld
  BY DEF QueueInv
<1> QED BY <1>1, AlwaysQueueInv, PTL

\* claim_next_chapter_download hands no task out twice by itself.
THEOREM NoTaskTwice == SqlSpec => []OneWorkerPerTask
<1>1. QueueInv => OneWorkerPerTask
  <2> SUFFICES ASSUME QueueInv, NEW k \in HeldKeys \ requeued
               PROVE  \E w \in Workers : Holders(k) = {w}
    BY DEF OneWorkerPerTask
  <2>1. PICK w \in Workers : held[w] = k
    BY DEF HeldKeys
  <2>2. Holders(k) = {w}
    BY <2>1 DEF QueueInv, Sole, Holders
  <2> QED BY <2>2
<1> QED BY <1>1, AlwaysQueueInv, PTL

\* The statements that the database runs on the queue do what the calls of the
\* store in memory do: the row that SELECT ... ORDER BY ... LIMIT 1 finds is there,
\* and is the task that the in-memory claim picks.
THEOREM QueueRefines == SqlSpec => QueueInit /\ [][QueueStep]_queueVars
<1>1. SqlInit => QueueInit
  BY DEF SqlInit
<1>2. QueueInv /\ [SqlNext]_sqlVars => [QueueStep]_queueVars
  BY SqlStepOnQueue DEF QueueInv, sqlVars
<1> QED BY <1>1, <1>2, AlwaysQueueInv, PTL DEF SqlSpec

(***************************************************************************)
(* The chapters to fetch ahead.                                            *)
(***************************************************************************)
\* The bounds of the window saturate, and cut off nothing of what is wanted.
LEMMA WindowFacts ==
  ASSUME NEW count \in Counts, NEW before \in Counts, NEW after \in Counts,
         NEW anchor \in 0..(count - 1), NEW i \in 0..(count - 1)
  PROVE  i >= WindowStart(anchor, before) /\ i < WindowEnd(count, anchor, after)
           <=> anchor - before <= i /\ i <= anchor + after
<1>1. /\ IndexMax \in Nat /\ count \in 0..IndexMax /\ before \in 0..IndexMax /\ after \in 0..IndexMax
      /\ anchor \in Nat /\ i \in Nat /\ anchor < count /\ i < count
  BY CacheAssumption
<1>2. i >= WindowStart(anchor, before) <=> anchor - before <= i
  BY <1>1 DEF WindowStart, SaturatingSub
<1>3. i < WindowEnd(count, anchor, after) <=> i <= anchor + after
  <2>1. CASE anchor + after > IndexMax
    BY <1>1, <2>1 DEF WindowEnd, SaturatingAdd
  <2>2. CASE anchor + after <= IndexMax
    BY <1>1, <2>2 DEF WindowEnd, SaturatingAdd
  <2> QED BY <1>1, <2>1, <2>2
<1> QED BY <1>2, <1>3

LEMMA PrefetchFacts ==
  ASSUME NEW book, NEW count \in Counts, NEW before \in Counts, NEW after \in Counts,
         NEW max \in Nat, NEW anchor \in 0..(count - 1), NEW wanted,
         \A i : i \in wanted <=>
           /\ i \in 0..(count - 1)
           /\ anchor - before <= i /\ i <= anchor + after
           /\ \A f \in BookEntries(book) : EntryIndex[f] # i
  PROVE  LET plan == Prefetch(book, count, anchor, before, after, max)
         IN /\ plan \subseteq wanted /\ Cardinality(plan) <= max
            /\ \A i \in wanted \ plan : Cardinality(plan) = max /\ \A j \in plan : j < i
<1> DEFINE plan == Prefetch(book, count, anchor, before, after, max)
           window == {i \in Missing(book, count) :
                        i >= WindowStart(anchor, before) /\ i < WindowEnd(count, anchor, after)}
           below == [i \in wanted |-> {j \in wanted : j < i}]
<1>1. window = wanted
  <2>1. ASSUME NEW i PROVE i \in Missing(book, count) <=>
          i \in 0..(count - 1) /\ \A f \in BookEntries(book) : EntryIndex[f] # i
    BY DEF Missing
  <2>2. ASSUME NEW i PROVE i \in window <=> i \in wanted
    BY <2>1, WindowFacts
  <2> QED BY <2>2
<1>2. plan = {i \in wanted : Cardinality({j \in wanted : j < i}) < max}
  BY <1>1 DEF Prefetch
<1>3. \A i \in wanted : below[i] = {j \in wanted : j < i}
  OBVIOUS
<1>4. \A i : i \in plan <=> i \in wanted /\ Cardinality(below[i]) < max
  BY <1>2, <1>3
<1>5. wanted \in SUBSET Int /\ IsFiniteSet(wanted)
  <2>1. count \in Int
    BY CacheAssumption
  <2>2. IsFiniteSet(0..(count - 1)) /\ wanted \in SUBSET (0..(count - 1))
    BY <2>1, FS_Interval
  <2> QED BY <2>1, <2>2, FS_Subset
<1>6. below \in [wanted -> SUBSET wanted] /\ \A i, j \in wanted : j \in below[i] <=> j < i
  OBVIOUS
<1> HIDE DEF below, plan
<1>7. /\ Cardinality(plan) <= max
      /\ \A i \in wanted \ plan : Cardinality(plan) = max /\ \A j \in plan : j < i
  BY <1>4, <1>5, <1>6, FirstOfIntegers
<1> QED BY <1>4, <1>7 DEF plan

\* For any sizes of the window, of the list of chapters and of the largest index: a
\* plan fetches just what is missing around the anchor, the first ones if not all.
THEOREM PrefetchExact == SqlSpec => []PrefetchIsExact
<1>1. PrefetchIsExact
  <2>1. SUFFICES ASSUME NEW e \in DOMAIN cached, NEW count \in Counts \ {0}, NEW before \in Counts,
                        NEW after \in Counts, NEW max \in Counts \ {0}, NEW anchor \in 0..(count - 1)
                 PROVE  LET book == EntryBook[e]
                            plan == Prefetch(book, count, anchor, before, after, max)
                            wanted == {i \in 0..(count - 1) :
                                         /\ anchor - before <= i /\ i <= anchor + after
                                         /\ \A f \in BookEntries(book) : EntryIndex[f] # i}
                        IN /\ plan \subseteq wanted /\ Cardinality(plan) <= max
                           /\ \A i \in wanted \ plan :
                                Cardinality(plan) = max /\ \A j \in plan : j < i
    BY DEF PrefetchIsExact
  <2> DEFINE book == EntryBook[e]
             wanted == {i \in 0..(count - 1) :
                          /\ anchor - before <= i /\ i <= anchor + after
                          /\ \A f \in BookEntries(book) : EntryIndex[f] # i}
  <2>2. max \in Nat /\ count \in Counts
    BY CacheAssumption
  <2>3. \A i : i \in wanted <=>
           /\ i \in 0..(count - 1)
           /\ anchor - before <= i /\ i <= anchor + after
           /\ \A f \in BookEntries(book) : EntryIndex[f] # i
    OBVIOUS
  <2> HIDE DEF wanted, book
  <2>4. LET plan == Prefetch(book, count, anchor, before, after, max)
        IN /\ plan \subseteq wanted /\ Cardinality(plan) <= max
           /\ \A i \in wanted \ plan : Cardinality(plan) = max /\ \A j \in plan : j < i
    BY <2>2, <2>3, PrefetchFacts
  <2> QED BY <2>4 DEF wanted, book
<1> QED BY <1>1, PTL

(***************************************************************************)
(* The tables: their types, and the progress of a book.                    *)
(***************************************************************************)
TablesTyped ==
  /\ IsFiniteSet(DOMAIN cached)
  /\ DOMAIN cached \subseteq Entries /\ cached \in [DOMAIN cached -> [at : Stamps, size : Sizes]]
  /\ DOMAIN shelf \subseteq Books /\ shelf \in [DOMAIN shelf -> ShelfEntry]
  /\ records \in [Kinds -> SUBSET Ids]
  /\ IsFiniteSet(DOMAIN log)
  /\ \A x \in DOMAIN log : x = <<x[1], x[2]>> /\ x[1] \in Books /\ x[2] \in Nat /\ log[x] \in Progress
  /\ \A r \in DOMAIN rows : r = <<r[1], r[2]>> /\ rows[r].chapter \in Chapters

\* A book that is kept under a source of its own, unlike the older model's.
Own(b) == SourceOf[b] # LegacySource
Saved(b, n) == <<b, n>> \in DOMAIN log

\* The row of a book is in the log, and nothing in the log is newer.
NewestRow(b) ==
  /\ (\E n : Saved(b, n)) => RowOf(b) \in DOMAIN rows
  /\ RowOf(b) \in DOMAIN rows =>
       /\ rows[RowOf(b)] \in Progress
       /\ \E n : Saved(b, n) /\ log[<<b, n>>] = rows[RowOf(b)]
       /\ \A n : Saved(b, n) => log[<<b, n>>].at <= rows[RowOf(b)].at

TablesInv == TablesTyped /\ \A b \in Books : Own(b) => NewestRow(b)

LEMMA NumbersFacts ==
  ASSUME TablesTyped, NEW b \in Books
  PROVE  /\ IsFiniteSet(Numbers(b)) /\ Numbers(b) \subseteq Nat
         /\ \A n : n \in Numbers(b) <=> Saved(b, n)
<1> DEFINE mine == {x \in DOMAIN log : x[1] = b}
           g == [x \in mine |-> x[2]]
<1>1. IsFiniteSet(mine)
  BY FS_Subset DEF TablesTyped
<1>2. Numbers(b) = {g[x] : x \in mine}
  BY DEF Numbers
<1>3. IsFiniteSet({g[x] : x \in mine})
  <2> HIDE DEF mine, g
  <2> QED BY <1>1, ImageIsFinite
<1>4. \A n : n \in Numbers(b) <=> Saved(b, n)
  <2>1. ASSUME NEW n, n \in Numbers(b) PROVE Saved(b, n)
    <3>1. PICK x \in DOMAIN log : x[1] = b /\ n = x[2]
      BY <2>1 DEF Numbers
    <3> QED BY <3>1 DEF TablesTyped, Saved
  <2>2. ASSUME NEW n, Saved(b, n) PROVE n \in Numbers(b)
    <3>1. <<b, n>> \in DOMAIN log /\ <<b, n>>[1] = b /\ <<b, n>>[2] = n
      BY <2>2 DEF Saved
    <3> QED BY <3>1 DEF Numbers
  <2> QED BY <2>1, <2>2
<1>5. Numbers(b) \subseteq Nat
  <2>1. ASSUME NEW n, Saved(b, n) PROVE n \in Nat
    <3>1. <<b, n>> \in DOMAIN log /\ <<b, n>>[2] = n
      BY <2>1 DEF Saved
    <3> QED BY <3>1 DEF TablesTyped
  <2> QED BY <1>4, <2>1
<1> QED BY <1>2, <1>3, <1>4, <1>5

LEMMA NextNumberIsNew ==
  ASSUME TablesTyped, NEW b \in Books
  PROVE  NextNumber(b) \in Nat /\ ~Saved(b, NextNumber(b))
<1> DEFINE S == Numbers(b)
<1>1. IsFiniteSet(S) /\ S \subseteq Nat /\ (\A n : n \in S <=> Saved(b, n))
  BY NumbersFacts
<1>2. CASE S = {}
  BY <1>1, <1>2 DEF NextNumber
<1>3. CASE S # {}
  <2>1. S \in SUBSET Int
    BY <1>1
  <2>2. \E x \in S : \A y \in S : x >= y
    <3> HIDE DEF S
    <3> QED BY <1>1, <1>3, <2>1, GreatestExists
  <2>3. LastNumber(b) \in S /\ \A y \in S : y <= LastNumber(b)
    <3>1. \E x \in S : \A y \in S : y <= x
      BY <2>1, <2>2
    <3> QED BY <3>1 DEF LastNumber
  <2>4. NextNumber(b) = LastNumber(b) + 1
    BY <1>3 DEF NextNumber
  <2>5. LastNumber(b) + 1 \in Nat /\ LastNumber(b) + 1 \notin S
    BY <1>1, <2>3
  <2> QED BY <1>1, <2>4, <2>5
<1> QED BY <1>2, <1>3

LEMMA RowsDiffer ==
  /\ \A a, b \in Books : RowOf(a) = RowOf(b) => a = b
  /\ \A b \in Books : \A id : Own(b) => RowOf(b) # <<LegacySource, id>>
  BY ShelfAssumption DEF RowOf, Own

\* A step that leaves the rows of a book alone.
LEMMA BookKept ==
  ASSUME NEW b, NewestRow(b),
         \A n : Saved(b, n)' <=> Saved(b, n),
         \A n : Saved(b, n) => log'[<<b, n>>] = log[<<b, n>>],
         RowOf(b) \in DOMAIN rows' <=> RowOf(b) \in DOMAIN rows,
         RowOf(b) \in DOMAIN rows => rows'[RowOf(b)] = rows[RowOf(b)]
  PROVE  NewestRow(b)'
  BY DEF NewestRow, RowOf

LEMMA LastReadTyped ==
  ASSUME TablesTyped, NEW b, NEW t \in Moments \union {Never}, shelf' = ShelfWithLastRead(b, t)
  PROVE  DOMAIN shelf' \subseteq Books /\ shelf' \in [DOMAIN shelf' -> ShelfEntry]
<1>1. DOMAIN shelf' = DOMAIN shelf
  BY DEF ShelfWithLastRead
<1>2. ASSUME NEW x \in DOMAIN shelf' PROVE shelf'[x] \in ShelfEntry
  <2>1. shelf[x] \in ShelfEntry
    BY <1>1, <1>2 DEF TablesTyped
  <2>2. [shelf[x] EXCEPT !.lastRead = t] \in ShelfEntry
    BY <2>1 DEF ShelfEntry
  <2>3. shelf'[x] = IF x = b THEN [shelf[x] EXCEPT !.lastRead = t] ELSE shelf[x]
    BY <1>1, <1>2 DEF ShelfWithLastRead
  <2> QED BY <2>1, <2>2, <2>3
<1>3. shelf' \in [DOMAIN shelf' -> ShelfEntry]
  <2>1. shelf' = [x \in DOMAIN shelf' |-> shelf'[x]]
    BY <1>1 DEF ShelfWithLastRead
  <2> QED BY <1>2, <2>1
<1> QED BY <1>1, <1>3 DEF TablesTyped

LEMMA MomentsAreNumbers == Moments \subseteq Nat
  BY ShelfAssumption

\* A new row in the log: the number is the next one of its book.
LEMMA LogExtended ==
  ASSUME TablesTyped, NEW b \in Books, NEW entry \in Progress, NEW m, m = NextNumber(b),
         log' = Upsert(log, <<b, m>>, entry)
  PROVE  /\ IsFiniteSet(DOMAIN log')
         /\ \A x \in DOMAIN log' : x = <<x[1], x[2]>> /\ x[1] \in Books /\ x[2] \in Nat /\ log'[x] \in Progress
         /\ \A a, n : Saved(a, n)' <=> Saved(a, n) \/ (a = b /\ n = m)
         /\ \A a, n : Saved(a, n) => log'[<<a, n>>] = log[<<a, n>>]
         /\ log'[<<b, m>>] = entry
<1> DEFINE k == <<b, m>>
<1>1. m \in Nat /\ k \notin DOMAIN log
  BY NextNumberIsNew DEF Saved
<1>2. /\ DOMAIN log' = DOMAIN log \union {k} /\ log'[k] = entry
      /\ \A x \in DOMAIN log : x # k => log'[x] = log[x]
  <2>1. log' = Upsert(log, k, entry)
    OBVIOUS
  <2> HIDE DEF k
  <2>2. Upsert(log, k, entry)[k] = entry /\ DOMAIN Upsert(log, k, entry) = DOMAIN log \union {k}
    BY DEF Upsert
  <2>3. \A x \in DOMAIN log : x # k => Upsert(log, k, entry)[x] = log[x]
    BY DEF Upsert
  <2> QED BY <2>1, <2>2, <2>3
<1>3. IsFiniteSet(DOMAIN log')
  <2>1. IsFiniteSet(DOMAIN log)
    BY DEF TablesTyped
  <2> HIDE DEF k
  <2> QED BY <1>2, <2>1, FS_AddElement
<1>4. ASSUME NEW x \in DOMAIN log'
      PROVE  x = <<x[1], x[2]>> /\ x[1] \in Books /\ x[2] \in Nat /\ log'[x] \in Progress
  <2>1. CASE x = k
    BY <1>1, <1>2, <2>1
  <2>2. CASE x # k
    BY <1>2, <2>2 DEF TablesTyped
  <2> QED BY <2>1, <2>2
<1>5. ASSUME NEW a, NEW n PROVE Saved(a, n)' <=> Saved(a, n) \/ (a = b /\ n = m)
  <2>1. <<a, n>> = k <=> (a = b /\ n = m)
    OBVIOUS
  <2>2. <<a, n>> \in DOMAIN log' <=> <<a, n>> \in DOMAIN log \/ <<a, n>> = k
    <3> HIDE DEF k
    <3> QED BY <1>2
  <2> QED BY <2>1, <2>2 DEF Saved
<1>6. ASSUME NEW a, NEW n, Saved(a, n) PROVE log'[<<a, n>>] = log[<<a, n>>]
  <2>1. <<a, n>> \in DOMAIN log /\ <<a, n>> # k
    BY <1>1, <1>6 DEF Saved
  <2> QED BY <1>2, <2>1
<1> QED BY <1>2, <1>3, <1>4, <1>5, <1>6

LEMMA SaveTables ==
  ASSUME TablesInv, NEW b \in Books, NEW entry \in Progress, SqlSaveReading(b, entry),
         UNCHANGED <<cached, records>>
  PROVE  TablesInv'
<1> PICK m : m = NextNumber(b)
  OBVIOUS
<1>1. log' = Upsert(log, <<b, m>>, entry)
  BY DEF SqlSaveReading
<1>2. /\ IsFiniteSet(DOMAIN log')
      /\ \A x \in DOMAIN log' : x = <<x[1], x[2]>> /\ x[1] \in Books /\ x[2] \in Nat /\ log'[x] \in Progress
      /\ \A a, n : Saved(a, n)' <=> Saved(a, n) \/ (a = b /\ n = m)
      /\ \A a, n : Saved(a, n) => log'[<<a, n>>] = log[<<a, n>>]
      /\ log'[<<b, m>>] = entry
  BY <1>1, LogExtended DEF TablesInv
<1> DEFINE newer == RowOf(b) \in DOMAIN rows => entry.at >= rows[RowOf(b)].at
<1>3. CASE newer
  <2>1. rows' = Upsert(rows, RowOf(b), entry) /\ shelf' = ShelfWithLastRead(b, entry.at)
    BY <1>3 DEF SqlSaveReading
  <2>2. /\ DOMAIN rows' = DOMAIN rows \union {RowOf(b)} /\ rows'[RowOf(b)] = entry
        /\ \A r \in DOMAIN rows : r # RowOf(b) => rows'[r] = rows[r]
    BY <2>1 DEF Upsert
  <2>3. entry.at \in Moments /\ entry.chapter \in Chapters
    BY DEF Progress
  <2>4. DOMAIN shelf' \subseteq Books /\ shelf' \in [DOMAIN shelf' -> ShelfEntry]
    BY <2>1, <2>3, LastReadTyped DEF TablesInv
  <2>5. \A r \in DOMAIN rows' : r = <<r[1], r[2]>> /\ rows'[r].chapter \in Chapters
    <3>1. ASSUME NEW r \in DOMAIN rows' PROVE r = <<r[1], r[2]>> /\ rows'[r].chapter \in Chapters
      <4>1. CASE r = RowOf(b)
        BY <2>2, <2>3, <4>1 DEF RowOf
      <4>2. CASE r # RowOf(b)
        BY <2>2, <4>2 DEF TablesInv, TablesTyped
      <4> QED BY <4>1, <4>2
    <3> QED BY <3>1
  <2>6. TablesTyped'
    BY <1>2, <2>4, <2>5 DEF TablesInv, TablesTyped
  <2>7. ASSUME NEW a \in Books, Own(a) PROVE NewestRow(a)'
    <3>1. NewestRow(a)
      BY <2>7 DEF TablesInv
    <3>2. CASE a # b
      <4>1. RowOf(a) # RowOf(b)
        BY <3>2, RowsDiffer
      <4>2. \A n : Saved(a, n)' <=> Saved(a, n)
        BY <1>2, <3>2
      <4>3. \A n : Saved(a, n) => log'[<<a, n>>] = log[<<a, n>>]
        BY <1>2
      <4>4. /\ RowOf(a) \in DOMAIN rows' <=> RowOf(a) \in DOMAIN rows
            /\ RowOf(a) \in DOMAIN rows => rows'[RowOf(a)] = rows[RowOf(a)]
        BY <2>2, <4>1
      <4> QED BY <3>1, <4>2, <4>3, <4>4, BookKept
    <3>3. CASE a = b
      <4>1. RowOf(b) \in DOMAIN rows' /\ rows'[RowOf(b)] = entry /\ Saved(b, m)'
        BY <2>2, <1>2
      <4>2. ASSUME NEW n, Saved(b, n)' PROVE log'[<<b, n>>].at <= entry.at
        <5>1. CASE n = m
          <6>1. log'[<<b, n>>] = entry
            BY <1>2, <5>1
          <6>2. entry.at <= entry.at
            <7>1. PICK t : t = entry.at
              OBVIOUS
            <7>2. t \in Nat
              BY <2>3, <7>1, MomentsAreNumbers
            <7> QED BY <7>1, <7>2
          <6> QED BY <6>1, <6>2
        <5>2. CASE Saved(b, n)
          <6>1. /\ RowOf(b) \in DOMAIN rows /\ log'[<<b, n>>] = log[<<b, n>>]
                /\ log[<<b, n>>].at <= rows[RowOf(b)].at /\ rows[RowOf(b)] \in Progress
            BY <1>2, <3>1, <3>3, <5>2 DEF NewestRow
          <6>2. log[<<b, n>>] \in Progress
            BY <5>2 DEF TablesInv, TablesTyped, Saved
          <6>3. log[<<b, n>>].at \in Moments /\ rows[RowOf(b)].at \in Moments /\ Moments \subseteq Nat
            BY <6>1, <6>2, MomentsAreNumbers DEF Progress
          <6>4. entry.at >= rows[RowOf(b)].at /\ entry.at \in Nat
            BY <1>3, <2>3, <6>1, <6>3
          <6>5. log[<<b, n>>].at <= entry.at
            <7>1. PICK t, u, v : t = log[<<b, n>>].at /\ u = rows[RowOf(b)].at /\ v = entry.at
              OBVIOUS
            <7>2. t \in Nat /\ u \in Nat /\ v \in Nat /\ t <= u /\ v >= u
              BY <6>1, <6>3, <6>4, <7>1
            <7> QED BY <7>1, <7>2
          <6> QED BY <6>1, <6>5
        <5> QED BY <1>2, <4>2, <5>1, <5>2
      <4>3. RowOf(b)' = RowOf(b)
        BY DEF RowOf
      <4>4. \E n : Saved(b, n)' /\ log'[<<b, n>>] = entry
        BY <1>2, <4>1
      <4> HIDE DEF newer
      <4> QED BY <3>3, <4>1, <4>2, <4>3, <4>4 DEF NewestRow
    <3> QED BY <3>2, <3>3
  <2> QED BY <2>6, <2>7 DEF TablesInv, Own
<1>4. CASE ~newer
  <2>1. UNCHANGED <<rows, shelf>>
    BY <1>4 DEF SqlSaveReading
  <2>2. TablesTyped'
    BY <1>2, <2>1 DEF TablesInv, TablesTyped
  <2>3. ASSUME NEW a \in Books, Own(a) PROVE NewestRow(a)'
    <3>1. NewestRow(a)
      BY <2>3 DEF TablesInv
    <3>2. CASE a # b
      <4>2. \A n : Saved(a, n)' <=> Saved(a, n)
        BY <1>2, <3>2
      <4>3. \A n : Saved(a, n) => log'[<<a, n>>] = log[<<a, n>>]
        BY <1>2
      <4> QED BY <2>1, <3>1, <4>2, <4>3, BookKept
    <3>3. CASE a = b
      <4>1. RowOf(b) \in DOMAIN rows /\ entry.at <= rows[RowOf(b)].at
        <5>1. RowOf(b) \in DOMAIN rows /\ rows[RowOf(b)] \in Progress /\ ~(entry.at >= rows[RowOf(b)].at)
          BY <1>4, <3>1, <3>3 DEF NewestRow
        <5>2. rows[RowOf(b)].at \in Moments /\ entry.at \in Moments /\ Moments \subseteq Nat
          BY <5>1, MomentsAreNumbers DEF Progress
        <5>3. PICK t, u : t = entry.at /\ u = rows[RowOf(b)].at
          OBVIOUS
        <5>4. t \in Nat /\ u \in Nat /\ ~(t >= u)
          BY <5>1, <5>2, <5>3
        <5>5. t <= u
          BY <5>4
        <5> QED BY <5>1, <5>3, <5>5
      <4>2. ASSUME NEW n, Saved(b, n)' PROVE log'[<<b, n>>].at <= rows[RowOf(b)].at
        <5>1. CASE n = m
          BY <1>2, <4>1, <5>1
        <5>2. CASE Saved(b, n)
          BY <1>2, <3>1, <3>3, <4>1, <5>2 DEF NewestRow
        <5> QED BY <1>2, <4>2, <5>1, <5>2
      <4>3. \E n : Saved(b, n)' /\ log'[<<b, n>>] = rows[RowOf(b)]
        BY <1>2, <3>1, <3>3, <4>1 DEF NewestRow
      <4>4. rows[RowOf(b)] \in Progress /\ rows' = rows /\ RowOf(b)' = RowOf(b)
        BY <2>1, <3>1, <3>3, <4>1 DEF NewestRow, RowOf
      <4> HIDE DEF newer
      <4> QED BY <3>3, <4>1, <4>2, <4>3, <4>4 DEF NewestRow
    <3> QED BY <3>2, <3>3
  <2> QED BY <2>2, <2>3 DEF TablesInv, Own
<1> QED BY <1>3, <1>4

LEMMA ClearTables ==
  ASSUME TablesInv, NEW b \in Books, SqlClearReading(b), UNCHANGED <<cached, records>>
  PROVE  TablesInv'
<1> DEFINE gone == {x \in DOMAIN log : x[1] = b}
<1>1. /\ rows' = Delete(rows, {RowOf(b)}) /\ log' = Delete(log, gone)
      /\ shelf' = ShelfWithLastRead(b, Never)
  BY DEF SqlClearReading
<1>2. /\ DOMAIN rows' = DOMAIN rows \ {RowOf(b)}
      /\ \A r \in DOMAIN rows \ {RowOf(b)} : rows'[r] = rows[r]
  BY <1>1 DEF Delete
<1>3. DOMAIN log' = DOMAIN log \ gone /\ \A x \in DOMAIN log \ gone : log'[x] = log[x]
  BY <1>1 DEF Delete
<1>4. DOMAIN shelf' \subseteq Books /\ shelf' \in [DOMAIN shelf' -> ShelfEntry]
  BY <1>1, LastReadTyped DEF TablesInv
<1>5. IsFiniteSet(DOMAIN log')
  <2>1. IsFiniteSet(DOMAIN log) /\ DOMAIN log' \in SUBSET DOMAIN log
    BY <1>3 DEF TablesInv, TablesTyped
  <2> QED BY <2>1, FS_Subset
<1>6. TablesTyped'
  BY <1>2, <1>3, <1>4, <1>5 DEF TablesInv, TablesTyped
<1>7. ASSUME NEW a, NEW n PROVE Saved(a, n)' <=> Saved(a, n) /\ a # b
  <2>1. <<a, n>> \in DOMAIN log => (<<a, n>> \in gone <=> a = b)
    OBVIOUS
  <2> HIDE DEF gone
  <2> QED BY <1>3, <2>1 DEF Saved
<1>8. ASSUME NEW a \in Books, Own(a) PROVE NewestRow(a)'
  <2>1. CASE a = b
    <3>1. (\A n : ~Saved(b, n)') /\ RowOf(b) \notin DOMAIN rows' /\ RowOf(b)' = RowOf(b)
      BY <1>2, <1>7 DEF RowOf
    <3> QED BY <2>1, <3>1 DEF NewestRow
  <2>2. CASE a # b
    <3>1. RowOf(a) # RowOf(b) /\ NewestRow(a)
      BY <1>8, <2>2, RowsDiffer DEF TablesInv
    <3>2. \A n : Saved(a, n)' <=> Saved(a, n)
      BY <1>7, <2>2
    <3>3. ASSUME NEW n, Saved(a, n) PROVE log'[<<a, n>>] = log[<<a, n>>]
      <4>1. <<a, n>> \in DOMAIN log \ gone
        BY <2>2, <3>3 DEF Saved
      <4> HIDE DEF gone
      <4> QED BY <1>3, <4>1
    <3>4. /\ RowOf(a) \in DOMAIN rows' <=> RowOf(a) \in DOMAIN rows
          /\ RowOf(a) \in DOMAIN rows => rows'[RowOf(a)] = rows[RowOf(a)]
      BY <1>2, <3>1
    <3> QED BY <3>1, <3>2, <3>3, <3>4, BookKept
  <2> QED BY <2>1, <2>2
<1> QED BY <1>6, <1>8 DEF TablesInv, Own

LEMMA PutLegacyTables ==
  ASSUME TablesInv, NEW id, NEW chapter \in Chapters, SqlPutLegacy(id, chapter),
         UNCHANGED <<cached, records>>
  PROVE  TablesInv'
<1> DEFINE k == <<LegacySource, id>>
           row == [chapter |-> chapter, at |-> 0]
<1>1. /\ rows' = Upsert(rows, k, row) /\ UNCHANGED <<shelf, log, cached, records>>
  BY DEF SqlPutLegacy
<1>2. /\ DOMAIN rows' = DOMAIN rows \union {k} /\ rows'[k] = row
      /\ \A r \in DOMAIN rows : r # k => rows'[r] = rows[r]
  <2> HIDE DEF k, row
  <2> QED BY <1>1 DEF Upsert
<1>3. ASSUME NEW r \in DOMAIN rows' PROVE r = <<r[1], r[2]>> /\ rows'[r].chapter \in Chapters
  <2>1. CASE r = k
    BY <1>2, <2>1
  <2>2. CASE r # k
    BY <1>2, <2>2 DEF TablesInv, TablesTyped
  <2> QED BY <2>1, <2>2
<1>4. TablesTyped'
  BY <1>1, <1>3 DEF TablesInv, TablesTyped
<1>5. ASSUME NEW a \in Books, Own(a) PROVE NewestRow(a)'
  <2>1. RowOf(a) # k /\ NewestRow(a)
    BY <1>5, RowsDiffer DEF TablesInv
  <2>2. /\ RowOf(a) \in DOMAIN rows' <=> RowOf(a) \in DOMAIN rows
        /\ RowOf(a) \in DOMAIN rows => rows'[RowOf(a)] = rows[RowOf(a)]
    <3> HIDE DEF k, row
    <3> QED BY <1>2, <2>1
  <2>3. /\ \A n : Saved(a, n)' <=> Saved(a, n)
        /\ \A n : Saved(a, n) => log'[<<a, n>>] = log[<<a, n>>]
    BY <1>1 DEF Saved
  <2> QED BY <2>1, <2>2, <2>3, BookKept
<1> QED BY <1>4, <1>5 DEF TablesInv, Own

\* Nothing is written to the progress.
LEMMA ProgressKept ==
  ASSUME TablesInv, TablesTyped', UNCHANGED <<rows, log>> PROVE TablesInv'
<1>1. ASSUME NEW a \in Books, Own(a) PROVE NewestRow(a)'
  <2>1. NewestRow(a)
    BY <1>1 DEF TablesInv
  <2>2. /\ \A n : Saved(a, n)' <=> Saved(a, n)
        /\ \A n : Saved(a, n) => log'[<<a, n>>] = log[<<a, n>>]
    BY DEF Saved
  <2> QED BY <2>1, <2>2, BookKept
<1> QED BY <1>1 DEF TablesInv, Own

LEMMA AddTables ==
  ASSUME TablesInv, NEW new \in NewEntries, SqlAddToShelf(new.book, new.entry),
         UNCHANGED <<cached, records>>
  PROVE  TablesInv'
<1> DEFINE b == new.book
           row == IF b \in DOMAIN shelf THEN [new.entry EXCEPT !.added = shelf[b].added] ELSE new.entry
<1>1. b \in Books /\ new.entry \in ShelfEntry
  BY ShelfAssumption
<1>2. DOMAIN shelf \subseteq Books /\ shelf \in [DOMAIN shelf -> ShelfEntry]
  BY DEF TablesInv, TablesTyped
<1>3. row \in ShelfEntry
  <2>1. ASSUME b \in DOMAIN shelf PROVE [new.entry EXCEPT !.added = shelf[b].added] \in ShelfEntry
    <3>1. shelf[b].added \in Moments
      BY <1>2, <2>1 DEF ShelfEntry
    <3> HIDE DEF b
    <3> QED BY <1>1, <3>1 DEF ShelfEntry
  <2> QED BY <1>1, <2>1
<1>4. shelf' = Upsert(shelf, b, row) /\ UNCHANGED <<rows, log, cached, records>>
  BY DEF SqlAddToShelf
<1> HIDE DEF b, row
<1>5. DOMAIN shelf' = DOMAIN shelf \union {b} /\ shelf' \in [DOMAIN shelf \union {b} -> ShelfEntry]
  BY <1>2, <1>3, <1>4 DEF Upsert
<1>6. TablesTyped'
  BY <1>1, <1>2, <1>4, <1>5 DEF TablesInv, TablesTyped
<1> QED BY <1>4, <1>6, ProgressKept

LEMMA ShelfTables ==
  ASSUME TablesInv, SqlShelfNext, UNCHANGED <<cached, records>> PROVE TablesInv'
<1>1. ASSUME NEW b \in Books, SqlRemoveFromShelf(b) PROVE TablesInv'
  <2>1. shelf' = Delete(shelf, {b}) /\ UNCHANGED <<rows, log>>
    BY <1>1 DEF SqlRemoveFromShelf
  <2>2. DOMAIN shelf \subseteq Books /\ shelf \in [DOMAIN shelf -> ShelfEntry]
    BY DEF TablesInv, TablesTyped
  <2>3. DOMAIN shelf' = DOMAIN shelf \ {b} /\ shelf' \in [DOMAIN shelf \ {b} -> ShelfEntry]
    BY <2>1, <2>2 DEF Delete
  <2>4. TablesTyped'
    BY <2>1, <2>2, <2>3 DEF TablesInv, TablesTyped
  <2> QED BY <2>1, <2>4, ProgressKept
<1>2. ASSUME NEW b \in Books, NEW t \in Moments, SqlUpdateLastRead(b, t) PROVE TablesInv'
  <2>1. shelf' = ShelfWithLastRead(b, t) /\ UNCHANGED <<rows, log>>
    BY <1>2 DEF SqlUpdateLastRead
  <2>2. DOMAIN shelf' \subseteq Books /\ shelf' \in [DOMAIN shelf' -> ShelfEntry]
    BY <2>1, LastReadTyped DEF TablesInv
  <2>3. TablesTyped'
    BY <2>1, <2>2 DEF TablesInv, TablesTyped
  <2> QED BY <2>1, <2>3, ProgressKept
<1>3. ASSUME NEW b \in Books, NEW group \in Texts \union {NoGroup}, NEW rank \in Ranks,
             SqlMove(b, group, rank)
      PROVE  TablesInv'
  <2>1. /\ b \in DOMAIN shelf /\ shelf' = [shelf EXCEPT ![b].group = group, ![b].rank = rank]
        /\ UNCHANGED <<rows, log>>
    BY <1>3 DEF SqlMove
  <2>2. DOMAIN shelf \subseteq Books /\ shelf \in [DOMAIN shelf -> ShelfEntry]
    BY DEF TablesInv, TablesTyped
  <2>3. [shelf[b] EXCEPT !.group = group, !.rank = rank] \in ShelfEntry
    BY <2>1, <2>2 DEF ShelfEntry
  <2>4. DOMAIN shelf' = DOMAIN shelf /\ shelf' \in [DOMAIN shelf -> ShelfEntry]
    <3>1. shelf' = [x \in DOMAIN shelf |->
                      IF x = b THEN [shelf[b] EXCEPT !.group = group, !.rank = rank] ELSE shelf[x]]
      BY <2>1, <2>2
    <3> QED BY <2>2, <2>3, <3>1
  <2>5. TablesTyped'
    BY <2>1, <2>2, <2>4 DEF TablesInv, TablesTyped
  <2> QED BY <2>1, <2>5, ProgressKept
<1> QED BY <1>1, <1>2, <1>3, AddTables, SaveTables, ClearTables, PutLegacyTables DEF SqlShelfNext

LEMMA CacheTables ==
  ASSUME TablesInv, SqlCacheNext, UNCHANGED <<shelf, rows, log, records>> PROVE TablesInv'
<1> DEFINE Good(c) == /\ IsFiniteSet(DOMAIN c) /\ DOMAIN c \subseteq Entries
                      /\ c \in [DOMAIN c -> [at : Stamps, size : Sizes]]
<1>1. Good(cached)
  BY DEF TablesInv, TablesTyped
<1>2. ASSUME NEW keys, cached' = Delete(cached, keys) PROVE Good(cached')
  <2>1. DOMAIN cached' = DOMAIN cached \ keys
    BY <1>2 DEF Delete
  <2>2. DOMAIN cached' \in SUBSET DOMAIN cached
    BY <2>1
  <2>3. IsFiniteSet(DOMAIN cached')
    BY <1>1, <2>2, FS_Subset
  <2> QED BY <1>1, <1>2, <2>3 DEF Delete
<1>3. ASSUME NEW e \in Entries, NEW at \in Stamps, NEW size \in Sizes, SqlPutCache(e, at, size)
      PROVE  Good(cached')
  <2> DEFINE row == [at |-> at, size |-> size]
  <2>1. row \in [at : Stamps, size : Sizes] /\ cached' = Upsert(cached, e, row)
    BY <1>3 DEF SqlPutCache
  <2> HIDE DEF row
  <2>2. DOMAIN cached' = DOMAIN cached \union {e}
    BY <2>1 DEF Upsert
  <2>3. IsFiniteSet(DOMAIN cached')
    BY <1>1, <2>2, FS_AddElement
  <2> QED BY <1>1, <2>1, <2>3 DEF Upsert
<1>4. Good(cached')
  <2>1. ASSUME NEW policy \in Policies, SqlPrune(policy) PROVE \E keys : cached' = Delete(cached, keys)
    BY <2>1 DEF SqlPrune
  <2> HIDE DEF Good
  <2> QED BY <1>2, <1>3, <2>1 DEF SqlCacheNext, SqlRemoveCache, SqlClearCache
<1>5. TablesTyped'
  BY <1>4 DEF TablesInv, TablesTyped
<1> QED BY <1>5, ProgressKept

LEMMA RecordTables ==
  ASSUME TablesInv, SqlRecordsNext, UNCHANGED <<cached, shelf, rows, log>> PROVE TablesInv'
<1>1. records' \in [Kinds -> SUBSET Ids]
  BY DEF TablesInv, TablesTyped, SqlRecordsNext, SqlPutRecord, SqlDeleteRecord
<1>2. TablesTyped'
  BY <1>1 DEF TablesInv, TablesTyped
<1> QED BY <1>2, ProgressKept

\* What was exported is a good store wherever it is restored.
LEMMA ReplaceTables ==
  ASSUME NEW snap, Exported(snap), SqlReplace(snap) PROVE TablesInv'
<1> DEFINE H == snap.history
           legacyRows == {<<LegacySource, id>> : id \in DOMAIN snap.legacy}
           ownRows == {RowOf(b) : b \in DOMAIN snap.reading}
           booksAt(r) == {b \in DOMAIN snap.reading : RowOf(b) = r}
           rowAt(r) == IF booksAt(r) # {} THEN snap.reading[CHOOSE b \in booksAt(r) : TRUE]
                       ELSE [chapter |-> snap.legacy[r[2]], at |-> 0]
           keys == {<<H[n].book, n - 1>> : n \in DOMAIN H}
<1>1. /\ cached' = snap.cached /\ shelf' = snap.shelf /\ records' = snap.records
      /\ rows' = [r \in legacyRows \union ownRows |-> rowAt(r)]
      /\ log' = [x \in keys |-> H[x[2] + 1].entry]
  BY DEF SqlReplace
<1>2. /\ IsFiniteSet(DOMAIN snap.cached) /\ DOMAIN snap.cached \subseteq Entries
      /\ snap.cached \in [DOMAIN snap.cached -> [at : Stamps, size : Sizes]]
      /\ DOMAIN snap.shelf \subseteq Books /\ snap.shelf \in [DOMAIN snap.shelf -> ShelfEntry]
      /\ snap.legacy \in [DOMAIN snap.legacy -> Chapters]
      /\ DOMAIN snap.reading \subseteq Books /\ snap.reading \in [DOMAIN snap.reading -> Progress]
      /\ H \in Seq([book : Books, entry : Progress])
      /\ snap.records \in [Kinds -> SUBSET Ids]
  BY DEF Exported
<1>3. ASSUME NEW b \in Books
      PROVE  LET saves == {H[n].entry : n \in {m \in DOMAIN H : H[m].book = b}}
             IN /\ saves # {} => b \in DOMAIN snap.reading
                /\ b \in DOMAIN snap.reading => /\ snap.reading[b] \in saves
                                                /\ \A entry \in saves : entry.at <= snap.reading[b].at
  BY DEF Exported
<1>4. /\ Len(H) \in Nat /\ DOMAIN H = 1..Len(H)
      /\ \A n \in DOMAIN H : n \in Int /\ H[n] \in [book : Books, entry : Progress]
  <2> DEFINE T == [book : Books, entry : Progress]
  <2>1. H \in Seq(T)
    BY <1>2
  <2> HIDE DEF H, T
  <2>2. Len(H) \in Nat /\ DOMAIN H = 1..Len(H) /\ \A n \in 1..Len(H) : H[n] \in T
    BY <2>1
  <2>3. \A n \in 1..Len(H) : n \in Int
    BY <2>2
  <2> QED BY <2>2, <2>3 DEF T
<1> HIDE DEF H
<1>5. IsFiniteSet(DOMAIN log')
  <2> DEFINE g == [n \in DOMAIN H |-> <<H[n].book, n - 1>>]
  <2>1. IsFiniteSet(DOMAIN H)
    BY <1>4, FS_Interval
  <2>2. IsFiniteSet({g[n] : n \in DOMAIN H})
    <3> HIDE DEF g
    <3> QED BY <2>1, ImageIsFinite
  <2>3. keys = {g[n] : n \in DOMAIN H}
    OBVIOUS
  <2>4. DOMAIN log' = keys
    BY <1>1
  <2> HIDE DEF keys, g
  <2> QED BY <2>2, <2>3, <2>4
<1>6. ASSUME NEW x \in DOMAIN log'
      PROVE  x = <<x[1], x[2]>> /\ x[1] \in Books /\ x[2] \in Nat /\ log'[x] \in Progress
  <2>1. PICK n \in DOMAIN H : x = <<H[n].book, n - 1>>
    BY <1>1, <1>6
  <2>2. x[1] = H[n].book /\ x[2] = n - 1 /\ log'[x] = H[x[2] + 1].entry
    BY <1>1, <2>1
  <2>3. x[2] + 1 = n /\ n - 1 \in Nat
    BY <1>4, <2>2
  <2> QED BY <1>4, <2>1, <2>2, <2>3
<1>7. ASSUME NEW b, NEW m
      PROVE  /\ Saved(b, m)' <=> \E n \in DOMAIN H : H[n].book = b /\ m = n - 1
             /\ Saved(b, m)' => log'[<<b, m>>] = H[m + 1].entry
  <2>1. <<b, m>> \in keys <=> \E n \in DOMAIN H : H[n].book = b /\ m = n - 1
    OBVIOUS
  <2>2. DOMAIN log' = keys
    BY <1>1
  <2>3. Saved(b, m)' <=> <<b, m>> \in keys
    <3> HIDE DEF keys
    <3> QED BY <2>2 DEF Saved
  <2>4. ASSUME <<b, m>> \in keys PROVE log'[<<b, m>>] = H[m + 1].entry
    BY <1>1, <2>4
  <2> QED BY <2>1, <2>3, <2>4
<1>8. ASSUME NEW r \in DOMAIN rows' PROVE r = <<r[1], r[2]>> /\ rows'[r].chapter \in Chapters
  <2>1. rows'[r] = rowAt(r) /\ (r \in legacyRows \/ r \in ownRows)
    BY <1>1, <1>8
  <2>2. r = <<r[1], r[2]>>
    BY <2>1 DEF RowOf
  <2>3. CASE booksAt(r) # {}
    <3>1. rowAt(r) \in Progress
      BY <1>2, <2>3
    <3> QED BY <2>1, <2>2, <3>1 DEF Progress
  <2>4. CASE booksAt(r) = {}
    <3>1. r \in legacyRows
      BY <2>1, <2>4
    <3>2. PICK id \in DOMAIN snap.legacy : r = <<LegacySource, id>>
      BY <3>1
    <3>3. rowAt(r) = [chapter |-> snap.legacy[id], at |-> 0]
      BY <2>4, <3>2
    <3> QED BY <1>2, <2>1, <2>2, <3>3
  <2> QED BY <2>3, <2>4
<1>9. TablesTyped'
  BY <1>1, <1>2, <1>5, <1>6, <1>8 DEF TablesTyped
<1>10. ASSUME NEW b \in Books, Own(b)
       PROVE  /\ RowOf(b) \in DOMAIN rows' <=> b \in DOMAIN snap.reading
              /\ b \in DOMAIN snap.reading => rows'[RowOf(b)] = snap.reading[b]
  <2>1. RowOf(b) \notin legacyRows
    BY <1>10, RowsDiffer
  <2>2. RowOf(b) \in ownRows <=> b \in DOMAIN snap.reading
    BY <1>2, RowsDiffer
  <2>3. b \in DOMAIN snap.reading => booksAt(RowOf(b)) = {b}
    BY <1>2, RowsDiffer
  <2>4. b \in DOMAIN snap.reading => rowAt(RowOf(b)) = snap.reading[b]
    BY <2>3
  <2> HIDE DEF legacyRows, ownRows, booksAt, rowAt
  <2> QED BY <1>1, <2>1, <2>2, <2>4
<1>11. ASSUME NEW b \in Books, Own(b) PROVE NewestRow(b)'
  <2> DEFINE saves == {H[n].entry : n \in {m \in DOMAIN H : H[m].book = b}}
  <2>1. /\ saves # {} => b \in DOMAIN snap.reading
        /\ b \in DOMAIN snap.reading => /\ snap.reading[b] \in saves
                                        /\ \A entry \in saves : entry.at <= snap.reading[b].at
    BY <1>3
  <2>2. ASSUME NEW m, Saved(b, m)' PROVE log'[<<b, m>>] \in saves
    <3>1. PICK n \in DOMAIN H : H[n].book = b /\ m = n - 1
      BY <1>7, <2>2
    <3>2. m + 1 = n
      BY <1>4, <3>1
    <3>3. log'[<<b, m>>] = H[n].entry
      BY <1>7, <2>2, <3>2
    <3> QED BY <3>1, <3>3
  <2>3. ASSUME NEW entry \in saves PROVE \E m : Saved(b, m)' /\ log'[<<b, m>>] = entry
    <3>1. PICK n \in DOMAIN H : H[n].book = b /\ H[n].entry = entry
      BY <2>3
    <3>2. PICK m : m = n - 1
      OBVIOUS
    <3>3. m + 1 = n
      BY <1>4, <3>2
    <3>4. Saved(b, m)'
      BY <1>7, <3>1, <3>2
    <3>5. log'[<<b, m>>] = entry
      BY <1>7, <3>1, <3>3, <3>4
    <3> QED BY <3>4, <3>5
  <2>4. RowOf(b)' = RowOf(b) /\ (b \in DOMAIN snap.reading => snap.reading[b] \in Progress)
    BY <1>2 DEF RowOf
  <2> HIDE DEF saves
  <2>5. (\E n : Saved(b, n)') => RowOf(b) \in DOMAIN rows'
    BY <1>10, <1>11, <2>1, <2>2
  <2>6. ASSUME RowOf(b) \in DOMAIN rows'
        PROVE  /\ rows'[RowOf(b)] \in Progress
               /\ \E n : Saved(b, n)' /\ log'[<<b, n>>] = rows'[RowOf(b)]
               /\ \A n : Saved(b, n)' => log'[<<b, n>>].at <= rows'[RowOf(b)].at
    <3>1. b \in DOMAIN snap.reading /\ rows'[RowOf(b)] = snap.reading[b]
      BY <1>10, <1>11, <2>6
    <3>2. \E n : Saved(b, n)' /\ log'[<<b, n>>] = rows'[RowOf(b)]
      BY <2>1, <2>3, <3>1
    <3>3. \A n : Saved(b, n)' => log'[<<b, n>>].at <= rows'[RowOf(b)].at
      BY <2>1, <2>2, <3>1
    <3> QED BY <2>4, <3>1, <3>2, <3>3
  <2> QED BY <2>4, <2>5, <2>6 DEF NewestRow
<1> QED BY <1>9, <1>11 DEF TablesInv, Own

-----------------------------------------------------------------------------
\* The log of a book, read in the order of its numbers.
LEMMA LogOfFacts ==
  ASSUME TablesTyped, NEW b \in Books
  PROVE  /\ DOMAIN LogOf(b) = 1..Cardinality(Numbers(b)) /\ Cardinality(Numbers(b)) \in Nat
         /\ LogOf(b) \in Seq(Progress)
         /\ \A i \in DOMAIN LogOf(b) :
              \E n \in Numbers(b) : /\ Cardinality({m \in Numbers(b) : m < n}) = i - 1
                                    /\ LogOf(b)[i] = log[<<b, n>>]
         /\ \A n \in Numbers(b) : \E i \in DOMAIN LogOf(b) : LogOf(b)[i] = log[<<b, n>>]
<1> DEFINE N == Numbers(b)
           R == {p \in N \X N : p[1] < p[2]}
           below == [n \in N |-> {m \in N : m < n}]
           Nth(i) == CHOOSE n \in N : Cardinality({m \in N : m < n}) = i - 1
<1>1. IsFiniteSet(N) /\ N \subseteq Nat /\ (\A n : n \in N <=> Saved(b, n))
  BY NumbersFacts
<1>2. LogOf(b) = [i \in 1..Cardinality(N) |-> log[<<b, Nth(i)>>]]
  BY DEF LogOf
<1> HIDE DEF N
<1>3. TransitiveOn(R, N) /\ TotalOn(R, N) /\ (\A x \in N : <<x, x>> \notin R)
      /\ (\A x, y \in N : y \in below[x] <=> <<y, x>> \in R) /\ below \in [N -> SUBSET N]
  BY <1>1 DEF TransitiveOn, TotalOn
<1>4. /\ \A n \in N : Cardinality(below[n]) \in 0..(Cardinality(N) - 1)
      /\ \A x, y \in N : <<x, y>> \in R <=> Cardinality(below[x]) < Cardinality(below[y])
      /\ \A i \in 1..Cardinality(N) : \E n \in N : Cardinality(below[n]) = i - 1
  <2> HIDE DEF R, below
  <2> QED BY <1>1, <1>3, RanksInOrder
<1>5. \A n \in N : below[n] = {m \in N : m < n}
  OBVIOUS
<1>6. Cardinality(N) \in Nat
  BY <1>1, FS_CardinalityType
<1>7. ASSUME NEW i \in 1..Cardinality(N)
      PROVE  Nth(i) \in N /\ Cardinality({m \in N : m < Nth(i)}) = i - 1
  <2>1. \E n \in N : Cardinality({m \in N : m < n}) = i - 1
    BY <1>4, <1>5
  <2> QED BY <2>1
<1>8. ASSUME NEW n \in N PROVE \E i \in 1..Cardinality(N) : Nth(i) = n
  <2> DEFINE c == Cardinality(below[n])
  <2>1. c \in 0..(Cardinality(N) - 1)
    BY <1>4
  <2>2. c + 1 \in 1..Cardinality(N) /\ (c + 1) - 1 = c
    <3> HIDE DEF c, below
    <3> QED BY <1>6, <2>1
  <2>3. PICK i : i = c + 1
    OBVIOUS
  <2>4. i \in 1..Cardinality(N) /\ i - 1 = c
    <3> HIDE DEF c, below
    <3> QED BY <2>2, <2>3
  <2>5. Nth(i) \in N /\ Cardinality(below[Nth(i)]) = Cardinality(below[n])
    BY <1>5, <1>7, <2>4
  <2>6. <<Nth(i), n>> \notin R /\ <<n, Nth(i)>> \notin R
    <3>1. Cardinality(below[n]) \in Int
      <4> HIDE DEF below, R
      <4> QED BY <1>4, <1>6
    <3> HIDE DEF Nth, below, R
    <3> QED BY <1>4, <2>5, <3>1
  <2>7. Nth(i) = n
    <3> HIDE DEF Nth, below, R
    <3> QED BY <1>3, <2>5, <2>6 DEF TotalOn
  <2> QED BY <2>4, <2>7
<1> HIDE DEF Nth
<1>9. ASSUME NEW n \in N PROVE log[<<b, n>>] \in Progress
  BY <1>1, <1>9 DEF Saved, TablesTyped
<1>10. DOMAIN LogOf(b) = 1..Cardinality(N) /\ LogOf(b) \in Seq(Progress)
  <2>1. DOMAIN LogOf(b) = 1..Cardinality(N)
    BY <1>2
  <2>2. ASSUME NEW i \in 1..Cardinality(N) PROVE log[<<b, Nth(i)>>] \in Progress
    BY <1>7, <1>9
  <2>3. LogOf(b) \in [1..Cardinality(N) -> Progress]
    BY <1>2, <2>2
  <2>4. PICK c \in Nat : c = Cardinality(N)
    BY <1>6
  <2>5. LogOf(b) \in [1..c -> Progress]
    BY <2>3, <2>4
  <2>6. LogOf(b) \in Seq(Progress)
    <3> DEFINE T == Progress
               f == LogOf(b)
    <3>1. f \in [1..c -> T] /\ c \in Nat
      BY <2>5
    <3> HIDE DEF T, f
    <3>2. f \in Seq(T)
      BY <3>1
    <3> QED BY <3>2 DEF T, f
  <2> QED BY <2>1, <2>6
<1>11. \A i \in DOMAIN LogOf(b) : LogOf(b)[i] = log[<<b, Nth(i)>>]
  BY <1>2
<1>12. ASSUME NEW i \in DOMAIN LogOf(b)
       PROVE  \E n \in N : Cardinality({m \in N : m < n}) = i - 1 /\ LogOf(b)[i] = log[<<b, n>>]
  BY <1>7, <1>10, <1>11
<1>13. ASSUME NEW n \in N PROVE \E i \in DOMAIN LogOf(b) : LogOf(b)[i] = log[<<b, n>>]
  BY <1>8, <1>10, <1>11
<1> QED BY <1>6, <1>10, <1>12, <1>13 DEF N

\* The order of keys of four numbers is strict and total.
LEMMA FourNumbers ==
  ASSUME NEW a \in Int \X Int \X Int \X Int, NEW b \in Int \X Int \X Int \X Int
  PROVE  LexLess(a, b) <=>
           \/ a[1] < b[1]
           \/ a[1] = b[1] /\ a[2] < b[2]
           \/ a[1] = b[1] /\ a[2] = b[2] /\ a[3] < b[3]
           \/ a[1] = b[1] /\ a[2] = b[2] /\ a[3] = b[3] /\ a[4] < b[4]
<1>1. DOMAIN a = 1..4
  OBVIOUS
<1>2. /\ a[1] \in Int /\ a[2] \in Int /\ a[3] \in Int /\ a[4] \in Int
      /\ b[1] \in Int /\ b[2] \in Int /\ b[3] \in Int /\ b[4] \in Int
  OBVIOUS
<1>3. LexLess(a, b) <=>
        \/ a[1] < b[1] /\ \A m \in 1..0 : a[m] = b[m]
        \/ a[2] < b[2] /\ \A m \in 1..1 : a[m] = b[m]
        \/ a[3] < b[3] /\ \A m \in 1..2 : a[m] = b[m]
        \/ a[4] < b[4] /\ \A m \in 1..3 : a[m] = b[m]
  BY <1>1 DEF LexLess
<1> QED BY <1>2, <1>3

LEMMA FourNumbersOrder ==
  ASSUME NEW a \in Int \X Int \X Int \X Int, NEW b \in Int \X Int \X Int \X Int,
         NEW c \in Int \X Int \X Int \X Int
  PROVE  /\ ~LexLess(a, a)
         /\ a = b \/ LexLess(a, b) \/ LexLess(b, a)
         /\ LexLess(a, b) /\ LexLess(b, c) => LexLess(a, c)
<1>1. ~LexLess(a, a)
  BY FourNumbers
<1>2. a = b \/ LexLess(a, b) \/ LexLess(b, a)
  <2>1. a = <<a[1], a[2], a[3], a[4]>> /\ b = <<b[1], b[2], b[3], b[4]>>
    OBVIOUS
  <2>2. (a[1] = b[1] /\ a[2] = b[2] /\ a[3] = b[3] /\ a[4] = b[4])
        \/ LexLess(a, b) \/ LexLess(b, a)
    BY FourNumbers
  <2>3. a[1] = b[1] /\ a[2] = b[2] /\ a[3] = b[3] /\ a[4] = b[4] => a = b
    BY <2>1
  <2> QED BY <2>2, <2>3
<1>3. LexLess(a, b) /\ LexLess(b, c) => LexLess(a, c)
  BY FourNumbers
<1> QED BY <1>1, <1>2, <1>3

\* Keys of four numbers that differ put a set in an order.
LEMMA FourKeysOrder ==
  ASSUME NEW S, NEW key,
         \A x \in S : key[x] \in Int \X Int \X Int \X Int,
         \A x, y \in S : key[x] = key[y] => x = y
  PROVE  \A x, y, z \in S :
           /\ ~LexLess(key[x], key[x])
           /\ x = y \/ LexLess(key[x], key[y]) \/ LexLess(key[y], key[x])
           /\ LexLess(key[x], key[y]) /\ LexLess(key[y], key[z]) => LexLess(key[x], key[z])
<1> SUFFICES ASSUME NEW x \in S, NEW y \in S, NEW z \in S
             PROVE  /\ ~LexLess(key[x], key[x])
                    /\ x = y \/ LexLess(key[x], key[y]) \/ LexLess(key[y], key[x])
                    /\ LexLess(key[x], key[y]) /\ LexLess(key[y], key[z]) => LexLess(key[x], key[z])
  OBVIOUS
<1> QED BY FourNumbersOrder

\* The list of a finite set in the order of its keys has each
\* member at a place of its own, after those with lower keys.
LEMMA SortedPlaces ==
  ASSUME NEW S, IsFiniteSet(S), NEW key,
         \A x, y, z \in S :
           /\ ~LexLess(key[x], key[x])
           /\ x = y \/ LexLess(key[x], key[y]) \/ LexLess(key[y], key[x])
           /\ LexLess(key[x], key[y]) /\ LexLess(key[y], key[z]) => LexLess(key[x], key[z])
  PROVE  /\ DOMAIN Sorted(S, key) = 1..Cardinality(S) /\ Cardinality(S) \in Nat
         /\ \A n \in 1..Cardinality(S) : Sorted(S, key)[n] \in S
         /\ \A x \in S : \E n \in 1..Cardinality(S) : Sorted(S, key)[n] = x
         /\ \A n, m \in 1..Cardinality(S) :
              LexLess(key[Sorted(S, key)[n]], key[Sorted(S, key)[m]]) <=> n < m
         /\ \A n \in 1..Cardinality(S) :
              Cardinality({y \in S : LexLess(key[y], key[Sorted(S, key)[n]])}) = n - 1
<1> DEFINE R == {p \in S \X S : LexLess(key[p[1]], key[p[2]])}
           below == [x \in S |-> {y \in S : LexLess(key[y], key[x])}]
           rank == [x \in S |-> Cardinality({y \in S : LexLess(key[y], key[x])})]
           Nth(n) == CHOOSE x \in S : rank[x] = n - 1
<1>1. Sorted(S, key) = [n \in 1..Cardinality(S) |-> Nth(n)]
  BY DEF Sorted
<1>2. \A x, y : <<x, y>> \in R <=> x \in S /\ y \in S /\ LexLess(key[x], key[y])
  OBVIOUS
<1>3. below \in [S -> SUBSET S] /\ \A x, y \in S : y \in below[x] <=> LexLess(key[y], key[x])
  OBVIOUS
<1>4. \A x \in S : rank[x] = Cardinality(below[x])
  OBVIOUS
<1> HIDE DEF R, below, rank
<1>5. TransitiveOn(R, S)
  BY <1>2 DEF TransitiveOn
<1>6. TotalOn(R, S)
  BY <1>2 DEF TotalOn
<1>7. \A x \in S : <<x, x>> \notin R
  BY <1>2
<1>8. \A x, y \in S : y \in below[x] <=> <<y, x>> \in R
  BY <1>2, <1>3
<1>9. /\ \A x \in S : Cardinality(below[x]) \in 0..(Cardinality(S) - 1)
      /\ \A x, y \in S : <<x, y>> \in R <=> Cardinality(below[x]) < Cardinality(below[y])
      /\ \A n \in 1..Cardinality(S) : \E x \in S : Cardinality(below[x]) = n - 1
  BY <1>3, <1>5, <1>6, <1>7, <1>8, RanksInOrder
<1>10. Cardinality(S) \in Nat
  BY FS_CardinalityType
<1>11. ASSUME NEW n \in 1..Cardinality(S) PROVE Nth(n) \in S /\ rank[Nth(n)] = n - 1
  <2>1. \E x \in S : rank[x] = n - 1
    BY <1>4, <1>9
  <2> QED BY <2>1
<1>12. ASSUME NEW x \in S PROVE \E n \in 1..Cardinality(S) : Nth(n) = x
  <2>1. PICK n : n = rank[x] + 1
    OBVIOUS
  <2>2. n \in 1..Cardinality(S) /\ n - 1 = rank[x]
    BY <1>4, <1>9, <1>10, <2>1
  <2>3. Nth(n) \in S /\ rank[Nth(n)] = rank[x]
    BY <1>11, <2>2
  <2>4. <<Nth(n), x>> \notin R /\ <<x, Nth(n)>> \notin R
    <3>1. rank[x] \in Int
      BY <1>4, <1>9, <1>10
    <3> HIDE DEF Nth
    <3> QED BY <1>4, <1>9, <2>3, <3>1
  <2>5. Nth(n) = x
    <3> HIDE DEF Nth
    <3> QED BY <1>6, <2>3, <2>4 DEF TotalOn
  <2> QED BY <2>2, <2>5
<1> HIDE DEF Nth
<1>13. ASSUME NEW n \in 1..Cardinality(S), NEW m \in 1..Cardinality(S)
       PROVE  LexLess(key[Nth(n)], key[Nth(m)]) <=> n < m
  <2>1. LexLess(key[Nth(n)], key[Nth(m)]) <=> rank[Nth(n)] < rank[Nth(m)]
    <3>1. PICK x \in S : x = Nth(n)
      BY <1>11
    <3>2. PICK y \in S : y = Nth(m)
      BY <1>11
    <3>3. LexLess(key[x], key[y]) <=> Cardinality(below[x]) < Cardinality(below[y])
      BY <1>2, <1>9
    <3>4. rank[x] = Cardinality(below[x]) /\ rank[y] = Cardinality(below[y])
      BY <1>4
    <3> QED BY <3>1, <3>2, <3>3, <3>4
  <2>2. n - 1 < m - 1 <=> n < m
    BY <1>10
  <2> QED BY <1>11, <2>1, <2>2
<1>14. ASSUME NEW n \in 1..Cardinality(S)
       PROVE  Cardinality({y \in S : LexLess(key[y], key[Nth(n)])}) = n - 1
  <2>1. rank[Nth(n)] = Cardinality({y \in S : LexLess(key[y], key[Nth(n)])})
    BY <1>11 DEF rank
  <2> QED BY <1>11, <2>1
<1> QED BY <1>1, <1>10, <1>11, <1>12, <1>13, <1>14

\* So it is a list of its members.
LEMMA SortedFacts ==
  ASSUME NEW S, IsFiniteSet(S), NEW key,
         \A x, y, z \in S :
           /\ ~LexLess(key[x], key[x])
           /\ x = y \/ LexLess(key[x], key[y]) \/ LexLess(key[y], key[x])
           /\ LexLess(key[x], key[y]) /\ LexLess(key[y], key[z]) => LexLess(key[x], key[z])
  PROVE  /\ DOMAIN Sorted(S, key) = 1..Cardinality(S) /\ Cardinality(S) \in Nat
         /\ \A n \in 1..Cardinality(S) : Sorted(S, key)[n] \in S
         /\ \A x \in S : \E n \in 1..Cardinality(S) : Sorted(S, key)[n] = x
  BY SortedPlaces

\* The store in memory that the tables stand for orders and counts as the tables do.
LEMMA MemoryCounts ==
  /\ \A S : Memory!IsFiniteSet(S) <=> IsFiniteSet(S)
  /\ \A S : Memory!Cardinality(S) = Cardinality(S)
  /\ \A x, y : Memory!LexLess(x, y) <=> LexLess(x, y)
<1>1. \A S : Memory!IsFiniteSet(S) <=> IsFiniteSet(S)
  BY DEF Memory!IsFiniteSet, IsFiniteSet
<1>2. \A S : Memory!Cardinality(S) = Cardinality(S)
  BY DEF Memory!Cardinality, Cardinality
<1>3. \A x, y : Memory!LexLess(x, y) <=> LexLess(x, y)
  BY DEF Memory!LexLess, LexLess
<1> QED BY <1>1, <1>2, <1>3

LEMMA MemorySorts ==
  ASSUME NEW S, NEW key PROVE Memory!Sorted(S, key) = Sorted(S, key)
<1> DEFINE rank == [x \in S |-> Cardinality({y \in S : LexLess(key[y], key[x])})]
           mrank == [x \in S |-> Memory!Cardinality({y \in S : Memory!LexLess(key[y], key[x])})]
           Nth(n) == CHOOSE x \in S : rank[x] = n - 1
           MNth(n) == CHOOSE x \in S : mrank[x] = n - 1
<1>1. ASSUME NEW x \in S PROVE rank[x] = mrank[x]
  <2>1. {y \in S : Memory!LexLess(key[y], key[x])} = {y \in S : LexLess(key[y], key[x])}
    BY MemoryCounts
  <2> QED BY <2>1, MemoryCounts
<1>2. rank = mrank
  <2>1. rank = [x \in S |-> rank[x]] /\ mrank = [x \in S |-> mrank[x]]
    OBVIOUS
  <2> HIDE DEF rank, mrank
  <2> QED BY <1>1, <2>1
<1>3. Sorted(S, key) = [n \in 1..Cardinality(S) |-> Nth(n)]
  BY DEF Sorted
<1>4. Memory!Sorted(S, key) = [n \in 1..Memory!Cardinality(S) |-> MNth(n)]
  BY DEF Memory!Sorted
<1>5. \A n : Nth(n) = MNth(n)
  <2> HIDE DEF rank, mrank
  <2> QED BY <1>2
<1>6. Memory!Cardinality(S) = Cardinality(S)
  BY MemoryCounts
<1> HIDE DEF rank, mrank, Nth, MNth
<1> QED BY <1>3, <1>4, <1>5, <1>6

\* The histories that the tables stand for.
Hist == [b \in Books |-> IF SourceOf[b] = LegacySource THEN <<>> ELSE LogOf(b)]

LEMMA HistFacts ==
  ASSUME TablesTyped, NEW b \in Books
  PROVE  /\ Hist[b] \in Seq(Progress)
         /\ ~Own(b) => DOMAIN Hist[b] = {}
         /\ Own(b) => Hist[b] = LogOf(b)
<1>1. CASE Own(b)
  <2>1. Hist[b] = LogOf(b)
    BY <1>1 DEF Hist, Own
  <2> QED BY <1>1, <2>1, LogOfFacts
<1>2. CASE ~Own(b)
  <2>1. Hist[b] = <<>>
    BY <1>2 DEF Hist, Own
  <2>2. <<>> \in Seq(Progress) /\ DOMAIN <<>> = {}
    OBVIOUS
  <2> QED BY <1>2, <2>1, <2>2
<1> QED BY <1>1, <1>2

LEMMA SavesFacts ==
  ASSUME TablesTyped
  PROVE  /\ IsFiniteSet(Memory!Saves(Hist))
         /\ \A x : x \in Memory!Saves(Hist) <=>
              \E b \in Books : \E i \in DOMAIN Hist[b] : x = <<b, i>>
<1> DEFINE saves == Memory!Saves(Hist)
           place == [x \in DOMAIN log |->
                       <<x[1], Cardinality({m \in Numbers(x[1]) : m < x[2]}) + 1>>]
<1>1. \A x : x \in saves <=> \E b \in Books : \E i \in DOMAIN Hist[b] : x = <<b, i>>
  BY DEF Memory!Saves
<1>2. ASSUME NEW x \in saves PROVE \E y \in DOMAIN log : x = place[y]
  <2>0. PICK b \in Books : \E i \in DOMAIN Hist[b] : x = <<b, i>>
    BY <1>1
  <2>1. PICK i \in DOMAIN Hist[b] : x = <<b, i>>
    BY <2>0
  <2>2. Own(b) /\ i \in DOMAIN LogOf(b)
    BY <2>1, HistFacts
  <2>3. PICK n \in Numbers(b) : Cardinality({m \in Numbers(b) : m < n}) = i - 1
    BY <2>1, <2>2, LogOfFacts
  <2>4. <<b, n>> \in DOMAIN log
    BY <2>1, <2>3, NumbersFacts DEF Saved
  <2>5. place[<<b, n>>] = <<b, Cardinality({m \in Numbers(b) : m < n}) + 1>>
    BY <2>4
  <2>6. i \in Int
    BY <2>1, <2>2, LogOfFacts
  <2>7. (i - 1) + 1 = i
    BY <2>6
  <2> HIDE DEF place
  <2>8. place[<<b, n>>] = <<b, i>>
    BY <2>3, <2>5, <2>7
  <2> QED BY <2>1, <2>4, <2>8
<1>3. IsFiniteSet(DOMAIN log)
  BY DEF TablesTyped
<1> HIDE DEF place, saves
<1>5. IsFiniteSet(saves)
  <2>1. IsFiniteSet({place[x] : x \in DOMAIN log})
    BY <1>3, ImageIsFinite
  <2>2. saves \in SUBSET {place[x] : x \in DOMAIN log}
    BY <1>2
  <2> QED BY <2>1, <2>2, FS_Subset
<1> QED BY <1>1, <1>5 DEF saves

\* A snapshot lists every progress of every history, and nothing else.
LEMMA SortedHistoryFacts ==
  ASSUME TablesTyped
  PROVE  /\ Memory!SortedHistory(Hist) \in Seq([book : Books, entry : Progress])
         /\ \A n \in DOMAIN Memory!SortedHistory(Hist) :
              LET row == Memory!SortedHistory(Hist)[n]
              IN \E i \in DOMAIN Hist[row.book] : row.entry = Hist[row.book][i]
         /\ \A b \in Books : \A i \in DOMAIN Hist[b] :
              \E n \in DOMAIN Memory!SortedHistory(Hist) :
                 Memory!SortedHistory(Hist)[n] = [book |-> b, entry |-> Hist[b][i]]
<1> DEFINE saves == Memory!Saves(Hist)
           key == [x \in saves |-> Memory!SaveKey(Hist, x)]
           order == Sorted(saves, key)
           out == Memory!SortedHistory(Hist)
<1>1. IsFiniteSet(saves)
      /\ \A x : x \in saves <=> \E b \in Books : \E i \in DOMAIN Hist[b] : x = <<b, i>>
  BY SavesFacts
<1>2. out = [n \in DOMAIN order |-> [book |-> order[n][1], entry |-> Hist[order[n][1]][order[n][2]]]]
  <2>1. out = [n \in DOMAIN Memory!Sorted(saves, key) |->
                 [book |-> Memory!Sorted(saves, key)[n][1],
                  entry |-> Memory!SaveOf(Hist, Memory!Sorted(saves, key)[n])]]
    BY DEF Memory!SortedHistory
  <2>2. Memory!Sorted(saves, key) = order
    <3> HIDE DEF saves, key
    <3> QED BY MemorySorts
  <2> HIDE DEF order, key, saves, out
  <2> QED BY <2>1, <2>2 DEF Memory!SaveOf
<1>3. ASSUME NEW x \in saves
      PROVE  /\ x = <<x[1], x[2]>> /\ x[1] \in Books /\ x[2] \in DOMAIN Hist[x[1]]
             /\ Hist[x[1]][x[2]] \in Progress
             /\ key[x] = <<x[1], Hist[x[1]][x[2]].at, Hist[x[1]][x[2]].chapter, x[2]>>
             /\ key[x] \in Int \X Int \X Int \X Int
  <2>1. PICK b \in Books : \E i \in DOMAIN Hist[b] : x = <<b, i>>
    BY <1>1
  <2>2. PICK i \in DOMAIN Hist[b] : x = <<b, i>>
    BY <2>1
  <2>3. Hist[b] \in Seq(Progress)
    BY <2>1, HistFacts
  <2>4. i \in Nat /\ Hist[b][i] \in Progress
    <3> DEFINE T == Progress
               f == Hist[b]
    <3>1. f \in Seq(T) /\ i \in DOMAIN f
      BY <2>2, <2>3
    <3> HIDE DEF T, f
    <3>2. i \in Nat /\ f[i] \in T
      BY <3>1
    <3> QED BY <3>2 DEF T, f
  <2>5. x = <<x[1], x[2]>> /\ x[1] = b /\ x[2] = i
    BY <2>2
  <2>6. key[x] = <<x[1], Hist[x[1]][x[2]].at, Hist[x[1]][x[2]].chapter, x[2]>>
    BY DEF Memory!SaveKey, Memory!SaveOf
  <2>7. /\ b \in Int /\ i \in Int
        /\ Hist[b][i].at \in Int /\ Hist[b][i].chapter \in Int
    <3>1. Hist[b][i].at \in Moments /\ Hist[b][i].chapter \in Chapters
      BY <2>4 DEF Progress
    <3>2. Books \subseteq Nat /\ Moments \subseteq Nat /\ Chapters \subseteq Nat
      BY ShelfAssumption
    <3>3. b \in Int
      BY <2>1, <3>2
    <3>4. i \in Int
      BY <2>4
    <3>5. PICK t \in Moments, c \in Chapters : t = Hist[b][i].at /\ c = Hist[b][i].chapter
      BY <3>1
    <3>6. t \in Int /\ c \in Int
      BY <3>2, <3>5
    <3> QED BY <3>3, <3>4, <3>5, <3>6
  <2> HIDE DEF key
  <2>8. key[x] \in Int \X Int \X Int \X Int
    BY <2>5, <2>6, <2>7
  <2> QED BY <2>1, <2>2, <2>4, <2>5, <2>6, <2>8
<1>4. ASSUME NEW x \in saves, NEW y \in saves, key[x] = key[y] PROVE x = y
  <2> HIDE DEF key, saves
  <2>1. x = <<x[1], x[2]>> /\ key[x] = <<x[1], Hist[x[1]][x[2]].at, Hist[x[1]][x[2]].chapter, x[2]>>
    BY <1>3
  <2>2. y = <<y[1], y[2]>> /\ key[y] = <<y[1], Hist[y[1]][y[2]].at, Hist[y[1]][y[2]].chapter, y[2]>>
    BY <1>3
  <2>3. /\ key[x][1] = x[1] /\ key[x][4] = x[2]
        /\ key[y][1] = y[1] /\ key[y][4] = y[2]
    BY <2>1, <2>2
  <2> QED BY <1>4, <2>1, <2>2, <2>3
<1>5. \A x \in saves : key[x] \in Int \X Int \X Int \X Int
  BY <1>3
<1> HIDE DEF key, saves
<1>6. \A x, y, z \in saves :
        /\ ~LexLess(key[x], key[x])
        /\ x = y \/ LexLess(key[x], key[y]) \/ LexLess(key[y], key[x])
        /\ LexLess(key[x], key[y]) /\ LexLess(key[y], key[z]) => LexLess(key[x], key[z])
  BY <1>4, <1>5, FourKeysOrder
<1>7. /\ DOMAIN order = 1..Cardinality(saves) /\ Cardinality(saves) \in Nat
      /\ \A n \in 1..Cardinality(saves) : order[n] \in saves
      /\ \A x \in saves : \E n \in 1..Cardinality(saves) : order[n] = x
  BY <1>1, <1>6, SortedFacts
<1> HIDE DEF order
<1>8. DOMAIN out = DOMAIN order
  BY <1>2
<1>9. ASSUME NEW n \in DOMAIN out
      PROVE  /\ out[n] \in [book : Books, entry : Progress]
             /\ \E i \in DOMAIN Hist[out[n].book] : out[n].entry = Hist[out[n].book][i]
  <2>1. order[n] \in saves /\ n \in DOMAIN order
    BY <1>7, <1>8
  <2>2. PICK x : x = order[n]
    OBVIOUS
  <2>3. x \in saves /\ out[n] = [book |-> x[1], entry |-> Hist[x[1]][x[2]]]
    BY <1>2, <2>1, <2>2
  <2>4. x[1] \in Books /\ x[2] \in DOMAIN Hist[x[1]] /\ Hist[x[1]][x[2]] \in Progress
    BY <1>3, <2>3
  <2> HIDE DEF out
  <2>5. out[n].book = x[1] /\ out[n].entry = Hist[x[1]][x[2]]
    BY <2>3
  <2> QED BY <2>3, <2>4, <2>5
<1>10. out \in Seq([book : Books, entry : Progress])
  <2> DEFINE T == [book : Books, entry : Progress]
  <2>1. PICK c \in Nat : c = Cardinality(saves)
    BY <1>7
  <2>2. DOMAIN out = 1..c
    BY <1>7, <1>8, <2>1
  <2>3. out = [n \in DOMAIN out |-> out[n]]
    BY <1>2
  <2>4. \A n \in 1..c : out[n] \in T
    BY <1>9, <2>2
  <2> HIDE DEF out, T
  <2>5. out \in [1..c -> T]
    BY <2>2, <2>3, <2>4
  <2>6. out \in Seq(T)
    BY <2>1, <2>5
  <2> QED BY <2>6 DEF T
<1>11. ASSUME NEW b \in Books, NEW i \in DOMAIN Hist[b]
       PROVE  \E n \in DOMAIN out : out[n] = [book |-> b, entry |-> Hist[b][i]]
  <2>1. <<b, i>> \in saves
    BY <1>1
  <2>2. PICK n \in 1..Cardinality(saves) : order[n] = <<b, i>>
    BY <1>7, <2>1
  <2>3. n \in DOMAIN out
    BY <1>7, <1>8, <2>2
  <2>4. order[n][1] = b /\ order[n][2] = i
    BY <2>2
  <2>5. out[n] = [book |-> b, entry |-> Hist[b][i]]
    BY <1>2, <1>8, <2>3, <2>4
  <2> QED BY <2>3, <2>5
<1> QED BY <1>9, <1>10, <1>11

\* The progress the tables stand for.
LEMMA ReadingFacts ==
  ASSUME TablesInv, NEW b \in Books
  PROVE  /\ b \in ReadingBooks <=> Own(b) /\ RowOf(b) \in DOMAIN rows
         /\ DOMAIN Hist[b] # {} => b \in ReadingBooks
         /\ b \in ReadingBooks =>
              /\ rows[RowOf(b)] \in Progress
              /\ \E i \in DOMAIN Hist[b] : Hist[b][i] = rows[RowOf(b)]
              /\ \A i \in DOMAIN Hist[b] : Hist[b][i].at <= rows[RowOf(b)].at
<1>1. b \in ReadingBooks <=> Own(b) /\ RowOf(b) \in DOMAIN rows
  BY DEF ReadingBooks, Own
<1>2. TablesTyped /\ (Own(b) => NewestRow(b))
  BY DEF TablesInv
<1>3. CASE ~Own(b)
  BY <1>1, <1>2, <1>3, HistFacts
<1>4. CASE Own(b)
  <2>1. Hist[b] = LogOf(b) /\ NewestRow(b)
    BY <1>2, <1>4, HistFacts
  <2>2. \A n : n \in Numbers(b) <=> Saved(b, n)
    BY <1>2, NumbersFacts
  <2>3. /\ \A i \in DOMAIN Hist[b] : \E n : Saved(b, n) /\ Hist[b][i] = log[<<b, n>>]
        /\ \A n : Saved(b, n) => \E i \in DOMAIN Hist[b] : Hist[b][i] = log[<<b, n>>]
    <3>1. /\ \A i \in DOMAIN LogOf(b) : \E n \in Numbers(b) : LogOf(b)[i] = log[<<b, n>>]
          /\ \A n \in Numbers(b) : \E i \in DOMAIN LogOf(b) : LogOf(b)[i] = log[<<b, n>>]
      BY <1>2, LogOfFacts
    <3> QED BY <2>1, <2>2, <3>1
  <2>4. DOMAIN Hist[b] # {} => RowOf(b) \in DOMAIN rows
    BY <2>1, <2>3 DEF NewestRow
  <2>5. ASSUME RowOf(b) \in DOMAIN rows
        PROVE  /\ rows[RowOf(b)] \in Progress
               /\ \E i \in DOMAIN Hist[b] : Hist[b][i] = rows[RowOf(b)]
               /\ \A i \in DOMAIN Hist[b] : Hist[b][i].at <= rows[RowOf(b)].at
    <3>1. /\ rows[RowOf(b)] \in Progress
          /\ \E n : Saved(b, n) /\ log[<<b, n>>] = rows[RowOf(b)]
          /\ \A n : Saved(b, n) => log[<<b, n>>].at <= rows[RowOf(b)].at
      BY <2>1, <2>5 DEF NewestRow
    <3>2. \E i \in DOMAIN Hist[b] : Hist[b][i] = rows[RowOf(b)]
      BY <2>3, <3>1
    <3>3. ASSUME NEW i \in DOMAIN Hist[b] PROVE Hist[b][i].at <= rows[RowOf(b)].at
      <4>1. PICK n : Saved(b, n) /\ Hist[b][i] = log[<<b, n>>]
        BY <2>3
      <4>2. log[<<b, n>>].at <= rows[RowOf(b)].at
        BY <3>1, <4>1
      <4> QED BY <4>1, <4>2
    <3> QED BY <3>1, <3>2, <3>3
  <2> QED BY <1>1, <1>4, <2>4, <2>5
<1> QED BY <1>3, <1>4

LEMMA LegacyFacts ==
  ASSUME TablesTyped, NEW id \in LegacyIds PROVE rows[<<LegacySource, id>>].chapter \in Chapters
<1>1. PICK r \in DOMAIN rows : r[1] = LegacySource /\ r[2] = id
  BY DEF LegacyIds
<1>2. r = <<r[1], r[2]>> /\ rows[r].chapter \in Chapters
  BY <1>1 DEF TablesTyped
<1> QED BY <1>1, <1>2

\* What a store exports can be restored.
LEMMA SnapshotExported ==
  ASSUME QueueTyped, TablesInv PROVE Exported(Memory!Snapshot)
<1> DEFINE snap == Memory!Snapshot
           H == Memory!SortedHistory(Hist)
<1>1. /\ snap.queue = queue /\ snap.cached = cached /\ snap.shelf = shelf /\ snap.records = records
      /\ snap.legacy = [id \in LegacyIds |-> rows[<<LegacySource, id>>].chapter]
      /\ snap.reading = [b \in ReadingBooks |-> rows[RowOf(b)]]
      /\ snap.history = H
  BY DEF Memory!Snapshot, Hist
<1> HIDE DEF snap
<1>2. /\ IsFiniteSet(DOMAIN snap.queue) /\ DOMAIN snap.queue \subseteq Tasks
      /\ snap.queue \in [DOMAIN snap.queue -> Task]
  BY <1>1 DEF QueueTyped, QueueTypeOK
<1>3. /\ IsFiniteSet(DOMAIN snap.cached) /\ DOMAIN snap.cached \subseteq Entries
      /\ snap.cached \in [DOMAIN snap.cached -> [at : Stamps, size : Sizes]]
      /\ DOMAIN snap.shelf \subseteq Books /\ snap.shelf \in [DOMAIN snap.shelf -> ShelfEntry]
      /\ snap.records \in [Kinds -> SUBSET Ids]
  BY <1>1 DEF TablesInv, TablesTyped
<1>4. snap.legacy \in [DOMAIN snap.legacy -> Chapters]
  BY <1>1, LegacyFacts DEF TablesInv
<1>5. DOMAIN snap.reading = ReadingBooks /\ ReadingBooks \subseteq Books
      /\ (\A b \in ReadingBooks : snap.reading[b] = rows[RowOf(b)])
  BY <1>1 DEF ReadingBooks
<1>6. snap.reading \in [DOMAIN snap.reading -> Progress]
  BY <1>1, <1>5, ReadingFacts
<1>7. /\ H \in Seq([book : Books, entry : Progress])
      /\ \A n \in DOMAIN H : \E i \in DOMAIN Hist[H[n].book] : H[n].entry = Hist[H[n].book][i]
      /\ \A b \in Books : \A i \in DOMAIN Hist[b] :
           \E n \in DOMAIN H : H[n] = [book |-> b, entry |-> Hist[b][i]]
  BY SortedHistoryFacts DEF TablesInv
<1> HIDE DEF H
<1>8. ASSUME NEW b \in Books, NEW saves,
             saves = {H[n].entry : n \in {m \in DOMAIN H : H[m].book = b}}
      PROVE  /\ saves # {} => b \in DOMAIN snap.reading
             /\ b \in DOMAIN snap.reading => /\ snap.reading[b] \in saves
                                            /\ \A entry \in saves : entry.at <= snap.reading[b].at
  <2>1. ASSUME NEW entry PROVE entry \in saves <=> \E i \in DOMAIN Hist[b] : entry = Hist[b][i]
    <3>1. ASSUME entry \in saves PROVE \E i \in DOMAIN Hist[b] : entry = Hist[b][i]
      <4>1. PICK n \in DOMAIN H : H[n].book = b /\ entry = H[n].entry
        BY <1>8, <3>1
      <4> QED BY <1>7, <4>1
    <3>2. ASSUME NEW i \in DOMAIN Hist[b], entry = Hist[b][i] PROVE entry \in saves
      <4>1. PICK n \in DOMAIN H : H[n] = [book |-> b, entry |-> Hist[b][i]]
        BY <1>7
      <4>2. H[n].book = b /\ H[n].entry = entry
        BY <3>2, <4>1
      <4> QED BY <1>8, <4>2
    <3> QED BY <3>1, <3>2
  <2>2. saves # {} => b \in DOMAIN snap.reading
    BY <1>5, <2>1, ReadingFacts
  <2>3. ASSUME b \in DOMAIN snap.reading
        PROVE  snap.reading[b] \in saves /\ \A entry \in saves : entry.at <= snap.reading[b].at
    <3>1. snap.reading[b] = rows[RowOf(b)] /\ b \in ReadingBooks
      BY <1>5, <2>3
    <3> QED BY <2>1, <3>1, ReadingFacts
  <2> QED BY <2>2, <2>3
<1>9. snap.history \in Seq([book : Books, entry : Progress])
  BY <1>1, <1>7
<1>10. \A b \in Books :
         LET saves == {snap.history[n].entry : n \in {m \in DOMAIN snap.history : snap.history[m].book = b}}
         IN /\ saves # {} => b \in DOMAIN snap.reading
            /\ b \in DOMAIN snap.reading => /\ snap.reading[b] \in saves
                                           /\ \A entry \in saves : entry.at <= snap.reading[b].at
  <2> TAKE b \in Books
  <2> DEFINE saves == {H[n].entry : n \in {m \in DOMAIN H : H[m].book = b}}
  <2>1. saves = {H[n].entry : n \in {m \in DOMAIN H : H[m].book = b}}
    OBVIOUS
  <2> HIDE DEF saves
  <2>2. /\ saves # {} => b \in DOMAIN snap.reading
        /\ b \in DOMAIN snap.reading => /\ snap.reading[b] \in saves
                                       /\ \A entry \in saves : entry.at <= snap.reading[b].at
    BY <1>8, <2>1
  <2>3. saves = {snap.history[n].entry : n \in {m \in DOMAIN snap.history : snap.history[m].book = b}}
    BY <1>1, <2>1
  <2> QED BY <2>2, <2>3
<1>11. DOMAIN snap.shelf \subseteq Books /\ DOMAIN snap.reading \subseteq Books
  BY <1>3, <1>5
<1>12. Exported(snap)
  BY <1>2, <1>3, <1>4, <1>6, <1>9, <1>10, <1>11 DEF Exported
<1> QED BY <1>12 DEF snap

LEMMA SqlInitTables == SqlInit => TablesInv
<1> SUFFICES ASSUME SqlInit PROVE TablesInv
  OBVIOUS
<1>1. DOMAIN cached = {} /\ DOMAIN shelf = {} /\ DOMAIN rows = {} /\ DOMAIN log = {}
      /\ records \in [Kinds -> SUBSET Ids]
  BY DEF SqlInit, CacheInit, NothingCached
<1>2. cached \in [DOMAIN cached -> [at : Stamps, size : Sizes]] /\ shelf \in [DOMAIN shelf -> ShelfEntry]
  BY <1>1 DEF SqlInit, CacheInit, NothingCached
<1>3. IsFiniteSet(DOMAIN log) /\ IsFiniteSet(DOMAIN cached)
  BY <1>1, FS_EmptySet
<1>4. TablesTyped
  BY <1>1, <1>2, <1>3 DEF TablesTyped
<1>5. \A b \in Books : NewestRow(b)
  BY <1>1 DEF NewestRow, Saved
<1> QED BY <1>4, <1>5 DEF TablesInv

LEMMA SqlNextTables == QueueInv /\ TablesInv /\ [SqlNext]_sqlVars => TablesInv'
<1> SUFFICES ASSUME QueueInv, TablesInv, [SqlNext]_sqlVars PROVE TablesInv'
  OBVIOUS
<1>1. ASSUME UNCHANGED <<cached, shelf, rows, log, records>> PROVE TablesInv'
  BY <1>1 DEF TablesInv, TablesTyped, NewestRow, Own, Saved, RowOf
<1>2. CASE UNCHANGED sqlVars
  BY <1>1, <1>2 DEF sqlVars
<1>3. CASE SqlNext
  <2>1. CASE SqlQueueNext /\ UNCHANGED <<cached, shelf, rows, log, records>>
    BY <1>1, <2>1
  <2>2. CASE SqlCacheNext /\ UNCHANGED <<queueVars, shelf, rows, log, records>>
    BY <2>2, CacheTables
  <2>3. CASE SqlShelfNext /\ UNCHANGED <<queueVars, cached, records>>
    BY <2>3, ShelfTables
  <2>4. CASE SqlRecordsNext /\ UNCHANGED <<queueVars, cached, shelf, rows, log>>
    BY <2>4, RecordTables
  <2>5. ASSUME NEW snap \in Backups \union {Memory!Snapshot}, SqlReplace(snap) PROVE TablesInv'
    <3>1. Exported(snap)
      BY BackupAssumption, SnapshotExported DEF QueueInv
    <3> QED BY <2>5, <3>1, ReplaceTables
  <2> QED BY <1>3, <2>1, <2>2, <2>3, <2>4, <2>5 DEF SqlNext
<1> QED BY <1>2, <1>3

\* Along every behaviour: the queue's invariant carries the tables' through an export.
LEMMA AlwaysTablesInv == SqlSpec => [](QueueInv /\ TablesInv)
<1>1. SqlInit => QueueInv /\ TablesInv
  BY SqlInitQueueInv, SqlInitTables
<1>2. (QueueInv /\ TablesInv) /\ [SqlNext]_sqlVars => (QueueInv /\ TablesInv)'
  BY SqlNextQueueInv, SqlNextTables
<1> QED BY <1>1, <1>2, PTL DEF SqlSpec

\* For any tables and backups: what the rows stand for is a store in memory, with
\* its shelf, its progress, its histories and its queue of the right types.
THEOREM StoreTypeCorrect == SqlSpec => []TypeOK
<1>1. QueueInv /\ TablesInv => TypeOK
  <2> SUFFICES ASSUME QueueInv, TablesInv PROVE TypeOK
    OBVIOUS
  <2>1. Memory!QueueTypeOK
    <3>1. QueueTypeOK
      BY DEF QueueInv, QueueTyped
    <3>2. Memory!Task = Task
      BY DEF Task, Statuses, Memory!Task, Memory!Statuses
    <3> QED BY <3>1, <3>2 DEF QueueTypeOK, ValidTask, Memory!QueueTypeOK, Memory!ValidTask
  <2>2. Memory!CacheTypeOK
    BY DEF TablesInv, TablesTyped, Memory!CacheTypeOK
  <2>3. Memory!ShelfTypeOK
    <3>1. Memory!ShelfEntry = ShelfEntry /\ Memory!Progress = Progress
      BY DEF ShelfEntry, Progress, Never, Memory!ShelfEntry, Memory!Progress, Memory!Never
    <3>2. DOMAIN shelf \subseteq Books /\ \A b \in DOMAIN shelf : shelf[b] \in ShelfEntry
      BY DEF TablesInv, TablesTyped
    <3>3. ReadingBooks \subseteq Books /\ \A b \in ReadingBooks : rows[RowOf(b)] \in Progress
      BY ReadingFacts DEF ReadingBooks
    <3>4. Hist \in [Books -> Seq(Progress)]
      BY HistFacts DEF Hist, TablesInv
    <3>5. \A id \in LegacyIds : rows[<<LegacySource, id>>].chapter \in Chapters
      BY LegacyFacts DEF TablesInv
    <3> QED BY <3>1, <3>2, <3>3, <3>4, <3>5 DEF Memory!ShelfTypeOK, Hist
  <2>4. records \in [Kinds -> SUBSET Ids]
    BY DEF TablesInv, TablesTyped
  <2> QED BY <2>1, <2>2, <2>3, <2>4 DEF TypeOK, Memory!TypeOK
<1> QED BY <1>1, AlwaysTablesInv, PTL

\* For any number of saves in any order, and any backups restored between them: the
\* progress of a book is the newest in its history, and is there if any was saved.
THEOREM ProgressNewest == SqlSpec => []ProgressIsNewest
<1>1. TablesInv => ProgressIsNewest
  <2> SUFFICES ASSUME TablesInv PROVE ProgressIsNewest
    OBVIOUS
  <2>1. ASSUME NEW b \in Books
        PROVE  /\ Hist[b] # <<>> => b \in ReadingBooks
               /\ b \in ReadingBooks =>
                    /\ \E i \in DOMAIN Hist[b] : Hist[b][i] = rows[RowOf(b)]
                    /\ \A i \in DOMAIN Hist[b] : Hist[b][i].at <= rows[RowOf(b)].at
    <3>1. Hist[b] # <<>> => DOMAIN Hist[b] # {}
      <4>1. Hist[b] \in Seq(Progress)
        BY HistFacts DEF TablesInv
      <4> DEFINE T == Progress
                 f == Hist[b]
      <4>2. f \in Seq(T)
        BY <4>1
      <4> HIDE DEF T, f
      <4>3. ASSUME DOMAIN f = {} PROVE f = <<>>
        <5>1. Len(f) = 0
          BY <4>2, <4>3
        <5> QED BY <4>2, <5>1
      <4> QED BY <4>3 DEF f
    <3> QED BY <3>1, ReadingFacts
  <2> DEFINE reading == [b \in ReadingBooks |-> rows[RowOf(b)]]
  <2>2. DOMAIN reading = ReadingBooks /\ \A b \in ReadingBooks : reading[b] = rows[RowOf(b)]
    OBVIOUS
  <2> HIDE DEF reading
  <2>3. \A b \in Books :
          /\ Hist[b] # <<>> => b \in DOMAIN reading
          /\ b \in DOMAIN reading =>
               /\ \E i \in DOMAIN Hist[b] : Hist[b][i] = reading[b]
               /\ \A i \in DOMAIN Hist[b] : Hist[b][i].at <= reading[b].at
    BY <2>1, <2>2
  <2> QED BY <2>3 DEF ProgressIsNewest, Memory!ProgressIsNewest, Hist, reading
<1> QED BY <1>1, AlwaysTablesInv, PTL

(***************************************************************************)
(* What stays in the cache when it is pruned.                              *)
(***************************************************************************)
CacheTyped ==
  /\ IsFiniteSet(DOMAIN cached)
  /\ \A e \in DOMAIN cached : e \in Int /\ cached[e].at \in Int /\ cached[e].size \in Nat

LEMMA CacheIsTyped == TablesInv => CacheTyped
BY CacheAssumption DEF TablesInv, TablesTyped, CacheTyped

\* The chapters are in a strict and total order of age.
LEMMA OlderOrder ==
  ASSUME CacheTyped
  PROVE  \A e, f, g \in DOMAIN cached :
           /\ ~Older(e, e)
           /\ e = f \/ Older(e, f) \/ Older(f, e)
           /\ Older(e, f) /\ Older(f, g) => Older(e, g)
BY DEF CacheTyped, Older

\* Some of the chapters have an oldest one.
LEMMA OldestExists ==
  ASSUME CacheTyped, NEW keys \in SUBSET DOMAIN cached, keys # {}
  PROVE  \E e \in keys : keys \ {e} \subseteq Younger(keys, e)
<1> DEFINE R == {p \in keys \X keys : Older(p[1], p[2])}
<1>1. \A e, f : <<e, f>> \in R <=> e \in keys /\ f \in keys /\ Older(e, f)
  OBVIOUS
<1> HIDE DEF R
<1>2. TransitiveOn(R, keys) /\ TotalOn(R, keys)
  BY <1>1, OlderOrder DEF TransitiveOn, TotalOn
<1>3. IsFiniteSet(keys)
  BY FS_Subset DEF CacheTyped
<1>4. PICK e : FirstIn(e, R, keys)
  BY <1>2, <1>3, FirstExists
<1> QED BY <1>1, <1>4 DEF FirstIn, Younger

LEMMA BytesFacts ==
  ASSUME CacheTyped, NEW keys \in SUBSET DOMAIN cached, NEW some \in SUBSET keys
  PROVE  Bytes(some) \in Nat /\ Bytes(some) <= Bytes(keys) /\ Bytes({}) = 0
<1> DEFINE texts == [e \in keys |-> {e} \X (1..cached[e].size)]
           All == {{e} \X (1..cached[e].size) : e \in keys}
           Part == {{e} \X (1..cached[e].size) : e \in some}
<1>1. IsFiniteSet(keys)
  BY FS_Subset DEF CacheTyped
<1>2. ASSUME NEW e \in keys PROVE IsFiniteSet({e} \X (1..cached[e].size))
  <2>1. IsFiniteSet({e})
    BY FS_Singleton
  <2>2. cached[e].size \in Int
    BY DEF CacheTyped
  <2>3. IsFiniteSet(1..cached[e].size)
    BY <2>2, FS_Interval
  <2> QED BY <2>1, <2>3, FS_Product
<1>3. IsFiniteSet(All)
  <2>1. {texts[e] : e \in keys} = All
    OBVIOUS
  <2>2. IsFiniteSet({texts[e] : e \in keys})
    <3> HIDE DEF texts
    <3> QED BY <1>1, ImageIsFinite
  <2> QED BY <2>1, <2>2
<1>4. \A T \in All : IsFiniteSet(T)
  BY <1>2
<1>5. UNION Part \in SUBSET UNION All
  OBVIOUS
<1>6. IsFiniteSet(UNION All)
  <2> HIDE DEF All
  <2> QED BY <1>3, <1>4, FS_UNION
<1>7. IsFiniteSet(UNION Part) /\ Cardinality(UNION Part) <= Cardinality(UNION All)
  <2> HIDE DEF All, Part
  <2> QED BY <1>5, <1>6, FS_Subset
<1>8. Bytes(some) = Cardinality(UNION Part) /\ Bytes(keys) = Cardinality(UNION All)
  BY DEF Bytes
<1>9. Bytes({}) = Cardinality({})
  <2>1. UNION {{e} \X (1..cached[e].size) : e \in {}} = {}
    OBVIOUS
  <2> QED BY <2>1 DEF Bytes
<1> HIDE DEF All, Part
<1> QED BY <1>7, <1>8, <1>9, FS_CardinalityType, FS_EmptySet

\* A younger chapter has fewer after it.
LEMMA YoungerFacts ==
  ASSUME CacheTyped, NEW keys \in SUBSET DOMAIN cached, NEW e \in keys
  PROVE  /\ Younger(keys, e) \subseteq keys /\ e \notin Younger(keys, e)
         /\ IsFiniteSet(Younger(keys, e)) /\ Cardinality(Younger(keys, e)) \in Nat
         /\ \A f \in Younger(keys, e) : Younger(keys, f) \subseteq Younger(keys, e)
         /\ \A some \in SUBSET Younger(keys, e) : Cardinality(some) <= Cardinality(Younger(keys, e))
<1>1. Younger(keys, e) \subseteq keys /\ e \notin Younger(keys, e)
  BY OlderOrder DEF Younger
<1>2. IsFiniteSet(Younger(keys, e))
  BY <1>1, FS_Subset DEF CacheTyped
<1>3. \A f \in Younger(keys, e) : Younger(keys, f) \subseteq Younger(keys, e)
  BY OlderOrder DEF Younger
<1> QED BY <1>1, <1>2, <1>3, FS_Subset, FS_CardinalityType

LEMMA PolicyTyped ==
  ASSUME NEW policy \in Policies
  PROVE  /\ policy.minAt # Unlimited => policy.minAt \in Int
         /\ policy.maxEntries # Unlimited => policy.maxEntries \in Nat
         /\ policy.maxBytes # Unlimited => policy.maxBytes \in Nat
<1>1. /\ policy.minAt \in Stamps \union {Unlimited}
      /\ policy.maxEntries \in Counts \union {Unlimited}
      /\ policy.maxBytes \in Counts \union {Unlimited}
  BY DEF Policies
<1>2. Stamps \subseteq Int /\ Counts \subseteq Nat
  BY CacheAssumption
<1> QED BY <1>1, <1>2

LEMMA CountKeeps ==
  ASSUME CacheTyped, NEW policy \in Policies
  PROVE  /\ policy.maxEntries # Unlimited => Cardinality(WithinCount(policy)) <= policy.maxEntries
         /\ \A e \in WithinCount(policy), f \in YoungEnough(policy) :
              Older(e, f) => f \in WithinCount(policy)
<1> DEFINE rest == YoungEnough(policy)
           kept == WithinCount(policy)
<1>1. rest \subseteq DOMAIN cached /\ kept \subseteq rest
  BY DEF YoungEnough, WithinCount
<1>2. policy.maxEntries # Unlimited => policy.maxEntries \in Nat
  BY PolicyTyped
<1>3. \A e \in rest : e \in kept <=>
        policy.maxEntries = Unlimited \/ Cardinality(Younger(rest, e)) < policy.maxEntries
  BY DEF WithinCount
<1> HIDE DEF rest, kept
<1>4. ASSUME policy.maxEntries # Unlimited PROVE Cardinality(kept) <= policy.maxEntries
  <2>1. CASE kept = {}
    BY <1>2, <1>4, <2>1, FS_EmptySet
  <2>2. CASE kept # {}
    <3>1. PICK e \in kept : kept \ {e} \subseteq Younger(kept, e)
      BY <1>1, <2>2, OldestExists
    <3>2. kept \ {e} \subseteq Younger(rest, e)
      BY <1>1, <3>1 DEF Younger
    <3>3. IsFiniteSet(kept)
      BY <1>1, FS_Subset DEF CacheTyped
    <3>4. Cardinality(kept \ {e}) = Cardinality(kept) - 1
      BY <3>3, FS_RemoveElement
    <3>5. Cardinality(kept \ {e}) <= Cardinality(Younger(rest, e))
      BY <1>1, <3>2, YoungerFacts
    <3>6. Cardinality(Younger(rest, e)) < policy.maxEntries
      BY <1>1, <1>3, <1>4
    <3>7. Cardinality(Younger(rest, e)) \in Nat /\ Cardinality(kept) \in Nat
      BY <1>1, <3>3, YoungerFacts, FS_CardinalityType
    <3> QED BY <1>2, <1>4, <3>4, <3>5, <3>6, <3>7
  <2> QED BY <2>1, <2>2
<1>5. ASSUME NEW e \in kept, NEW f \in rest, Older(e, f) PROVE f \in kept
  <2>1. f \in Younger(rest, e)
    BY <1>5 DEF Younger
  <2>2. Cardinality(Younger(rest, f)) <= Cardinality(Younger(rest, e))
    BY <1>1, <2>1, YoungerFacts
  <2>3. Cardinality(Younger(rest, f)) \in Nat /\ Cardinality(Younger(rest, e)) \in Nat
    BY <1>1, YoungerFacts
  <2> QED BY <1>1, <1>2, <1>3, <2>2, <2>3
<1> QED BY <1>4, <1>5 DEF kept, rest

LEMMA BytesKeep ==
  ASSUME CacheTyped, NEW policy \in Policies
  PROVE  /\ policy.maxBytes # Unlimited => Bytes(WithinBytes(policy)) <= policy.maxBytes
         /\ \A e \in WithinBytes(policy), f \in WithinCount(policy) :
              Older(e, f) => f \in WithinBytes(policy)
<1> DEFINE rest == WithinCount(policy)
           kept == WithinBytes(policy)
           Onward(e) == {e} \union Younger(rest, e)
<1>1. rest \subseteq DOMAIN cached /\ kept \subseteq rest
  BY DEF YoungEnough, WithinCount, WithinBytes
<1>2. policy.maxBytes # Unlimited => policy.maxBytes \in Nat
  BY PolicyTyped
<1>3. \A e \in rest : e \in kept <=> policy.maxBytes = Unlimited \/ Bytes(Onward(e)) <= policy.maxBytes
  BY DEF WithinBytes
<1> HIDE DEF rest, kept
<1>4. ASSUME NEW e \in rest PROVE Onward(e) \in SUBSET DOMAIN cached
  BY <1>1, YoungerFacts
<1>5. ASSUME policy.maxBytes # Unlimited PROVE Bytes(kept) <= policy.maxBytes
  <2>1. CASE kept = {}
    BY <1>2, <1>5, <2>1, BytesFacts
  <2>2. CASE kept # {}
    <3>1. PICK e \in kept : kept \ {e} \subseteq Younger(kept, e)
      BY <1>1, <2>2, OldestExists
    <3>2. kept \in SUBSET Onward(e)
      BY <1>1, <3>1 DEF Younger
    <3>3. Onward(e) \in SUBSET DOMAIN cached /\ Bytes(Onward(e)) <= policy.maxBytes
      BY <1>1, <1>3, <1>4, <1>5
    <3> HIDE DEF Onward
    <3>4. Bytes(kept) \in Nat /\ Bytes(kept) <= Bytes(Onward(e)) /\ Bytes(Onward(e)) \in Nat
      BY <3>2, <3>3, BytesFacts
    <3> QED BY <1>2, <1>5, <3>3, <3>4
  <2> QED BY <2>1, <2>2
<1>6. ASSUME NEW e \in kept, NEW f \in rest, Older(e, f) PROVE f \in kept
  <2>1. f \in Younger(rest, e)
    BY <1>6 DEF Younger
  <2>2. Onward(f) \in SUBSET Onward(e) /\ Onward(e) \in SUBSET DOMAIN cached
    BY <1>1, <1>4, <2>1, YoungerFacts
  <2> HIDE DEF Onward
  <2>3. Bytes(Onward(f)) \in Nat /\ Bytes(Onward(f)) <= Bytes(Onward(e)) /\ Bytes(Onward(e)) \in Nat
    BY <2>2, BytesFacts
  <2> QED BY <1>1, <1>2, <1>3, <2>3
<1> QED BY <1>5, <1>6 DEF kept, rest

\* Every limit is kept, and nothing stays for which something younger went.
LEMMA PruneFacts ==
  ASSUME CacheTyped, NEW policy \in Policies
  PROVE  LET kept == WithinBytes(policy)
         IN /\ Allowed(policy, kept) /\ NewestOnly(kept)
            /\ \A keys \in SUBSET DOMAIN cached :
                 Allowed(policy, keys) /\ NewestOnly(keys) => keys \subseteq kept
<1> DEFINE young == YoungEnough(policy)
           few == WithinCount(policy)
           kept == WithinBytes(policy)
<1>1. young \subseteq DOMAIN cached /\ few \subseteq young /\ kept \subseteq few
  BY DEF YoungEnough, WithinCount, WithinBytes
<1>2. /\ policy.minAt # Unlimited => policy.minAt \in Int
      /\ policy.maxEntries # Unlimited => policy.maxEntries \in Nat
      /\ policy.maxBytes # Unlimited => policy.maxBytes \in Nat
  BY PolicyTyped
<1>3. \A e \in DOMAIN cached : e \in young <=> policy.minAt = Unlimited \/ cached[e].at >= policy.minAt
  BY DEF YoungEnough
<1>4. \A e \in young : e \in few <=>
        policy.maxEntries = Unlimited \/ Cardinality(Younger(young, e)) < policy.maxEntries
  BY DEF WithinCount
<1>5. \A e \in few : e \in kept <=>
        policy.maxBytes = Unlimited \/ Bytes({e} \union Younger(few, e)) <= policy.maxBytes
  BY DEF WithinBytes
<1>6. /\ policy.maxEntries # Unlimited => Cardinality(few) <= policy.maxEntries
      /\ \A e \in few, f \in young : Older(e, f) => f \in few
  BY CountKeeps
<1>7. /\ policy.maxBytes # Unlimited => Bytes(kept) <= policy.maxBytes
      /\ \A e \in kept, f \in few : Older(e, f) => f \in kept
  BY BytesKeep
<1> HIDE DEF young, few, kept
<1>8. Allowed(policy, kept)
  <2>1. policy.minAt # Unlimited => \A e \in kept : cached[e].at >= policy.minAt
    BY <1>1, <1>3
  <2>2. policy.maxEntries # Unlimited => Cardinality(kept) <= policy.maxEntries
    <3>1. IsFiniteSet(few)
      BY <1>1, FS_Subset DEF CacheTyped
    <3>2. IsFiniteSet(kept) /\ Cardinality(kept) <= Cardinality(few)
      BY <1>1, <3>1, FS_Subset
    <3>3. Cardinality(kept) \in Nat /\ Cardinality(few) \in Nat
      BY <3>1, <3>2, FS_CardinalityType
    <3> QED BY <1>2, <1>6, <3>2, <3>3
  <2> QED BY <1>7, <2>1, <2>2 DEF Allowed
<1>9. NewestOnly(kept)
  <2>1. SUFFICES ASSUME NEW e \in kept, NEW f \in DOMAIN cached, Older(e, f) PROVE f \in kept
    BY DEF NewestOnly
  <2>2. f \in young
    <3>1. cached[f].at >= cached[e].at /\ cached[f].at \in Int /\ cached[e].at \in Int
      BY <1>1, <2>1 DEF Older, CacheTyped
    <3> QED BY <1>1, <1>2, <1>3, <3>1
  <2> QED BY <1>1, <1>6, <1>7, <2>1, <2>2
<1>10. ASSUME NEW keys \in SUBSET DOMAIN cached, Allowed(policy, keys), NewestOnly(keys)
       PROVE  keys \subseteq kept
  <2>1. keys \subseteq young
    BY <1>3, <1>10 DEF Allowed
  <2>2. \A all \in SUBSET DOMAIN cached : \A e \in keys : Younger(all, e) \subseteq keys
    BY <1>10 DEF NewestOnly, Younger
  <2>3. ASSUME NEW e \in keys PROVE e \in few
    <3>1. CASE policy.maxEntries = Unlimited
      BY <1>4, <2>1, <3>1
    <3>2. CASE policy.maxEntries # Unlimited
      <4>1. Younger(young, e) \in SUBSET (keys \ {e})
        BY <1>1, <2>1, <2>2, YoungerFacts
      <4>2. IsFiniteSet(keys) /\ IsFiniteSet(keys \ {e})
        BY FS_Subset, FS_RemoveElement DEF CacheTyped
      <4>3. Cardinality(keys \ {e}) = Cardinality(keys) - 1
        BY <4>2, FS_RemoveElement
      <4>4. Cardinality(Younger(young, e)) <= Cardinality(keys \ {e})
        BY <4>1, <4>2, FS_Subset
      <4>5. Cardinality(keys) <= policy.maxEntries
        BY <1>10, <3>2 DEF Allowed
      <4>6. Cardinality(keys) \in Nat /\ Cardinality(Younger(young, e)) \in Nat
        BY <1>1, <2>1, <4>2, FS_CardinalityType, YoungerFacts
      <4>7. Cardinality(Younger(young, e)) < policy.maxEntries
        BY <1>2, <3>2, <4>3, <4>4, <4>5, <4>6
      <4> QED BY <1>4, <2>1, <4>7
    <3> QED BY <3>1, <3>2
  <2>4. ASSUME NEW e \in keys PROVE e \in kept
    <3>1. CASE policy.maxBytes = Unlimited
      BY <1>5, <2>3, <3>1
    <3>2. CASE policy.maxBytes # Unlimited
      <4> DEFINE tail == {e} \union Younger(few, e)
      <4>1. tail \in SUBSET keys
        BY <1>1, <2>2
      <4> HIDE DEF tail
      <4>2. Bytes(tail) \in Nat /\ Bytes(tail) <= Bytes(keys) /\ Bytes(keys) \in Nat
        BY <4>1, BytesFacts
      <4>3. Bytes(keys) <= policy.maxBytes
        BY <1>10, <3>2 DEF Allowed
      <4>4. Bytes(tail) <= policy.maxBytes
        BY <1>2, <3>2, <4>2, <4>3
      <4> QED BY <1>5, <2>3, <4>4 DEF tail
    <3> QED BY <3>1, <3>2
  <2> QED BY <2>4
<1> QED BY <1>8, <1>9, <1>10 DEF kept

\* For any texts and any limits: what prune_chapter_cache leaves is the largest set of
\* the newest chapters that keeps every limit of the policy.
THEOREM PruneNewest == SqlSpec => []PruneKeepsNewest
<1>1. TablesInv => PruneKeepsNewest
  BY CacheIsTyped, PruneFacts DEF PruneKeepsNewest
<1> QED BY <1>1, AlwaysTablesInv, PTL

(***************************************************************************)
(* The calls on the tables against the calls of the store in memory.       *)
(***************************************************************************)
\* Books have sources of their own, and group names need no trimming: where the
\* two backends agree (not on other group names, see the run store_groups).
PlainNames ==
  /\ \A b \in Books : Own(b)
  /\ \A text \in Texts : Trim[text] = text /\ text # Blank
  /\ NoGroup # Blank

LEMMA SequenceIsFunction ==
  ASSUME NEW T, NEW list \in Seq(T)
  PROVE  /\ Len(list) \in Nat /\ DOMAIN list = 1..Len(list)
         /\ list = [i \in DOMAIN list |-> list[i]]
         /\ \A i \in DOMAIN list : list[i] \in T
<1>1. list \in [1..Len(list) -> T] /\ Len(list) \in Nat
  OBVIOUS
<1> QED BY <1>1

Before(numbers, n) == Cardinality({m \in numbers : m < n})

\* How many come before a number tells it from the others.
LEMMA BeforeFacts ==
  ASSUME NEW numbers \in SUBSET Int, IsFiniteSet(numbers)
  PROVE  /\ Cardinality(numbers) \in Nat
         /\ \A n \in numbers : Before(numbers, n) \in 0..(Cardinality(numbers) - 1)
         /\ \A n, m \in numbers : Before(numbers, n) = Before(numbers, m) => n = m
<1> DEFINE R == {p \in numbers \X numbers : p[1] < p[2]}
           below == [n \in numbers |-> {m \in numbers : m < n}]
<1>1. TransitiveOn(R, numbers) /\ TotalOn(R, numbers) /\ (\A x \in numbers : <<x, x>> \notin R)
      /\ (\A x, y \in numbers : y \in below[x] <=> <<y, x>> \in R) /\ below \in [numbers -> SUBSET numbers]
  BY DEF TransitiveOn, TotalOn
<1>2. \A x, y \in numbers : <<x, y>> \in R <=> x < y
  OBVIOUS
<1>3. \A n \in numbers : below[n] = {m \in numbers : m < n}
  OBVIOUS
<1> HIDE DEF R, below
<1>4. /\ \A n \in numbers : Cardinality(below[n]) \in 0..(Cardinality(numbers) - 1)
      /\ \A x, y \in numbers : <<x, y>> \in R <=> Cardinality(below[x]) < Cardinality(below[y])
  BY <1>1, RanksInOrder
<1>5. \A n \in numbers : Before(numbers, n) = Cardinality(below[n])
  BY <1>3 DEF Before
<1>6. Cardinality(numbers) \in Nat
  BY FS_CardinalityType
<1>7. ASSUME NEW n \in numbers, NEW m \in numbers, Before(numbers, n) = Before(numbers, m) PROVE n = m
  <2>1. Cardinality(below[n]) \in Int /\ Cardinality(below[n]) = Cardinality(below[m])
    BY <1>4, <1>5, <1>6, <1>7
  <2>2. ~(n < m) /\ ~(m < n)
    <3>1. PICK c \in Int : c = Cardinality(below[n]) /\ c = Cardinality(below[m])
      BY <2>1
    <3>2. ~(c < c)
      OBVIOUS
    <3>3. <<n, m>> \notin R /\ <<m, n>> \notin R
      BY <1>4, <3>1, <3>2
    <3> QED BY <1>2, <3>3
  <2>3. n \in Int /\ m \in Int
    OBVIOUS
  <2> QED BY <2>2, <2>3
<1> QED BY <1>4, <1>5, <1>6, <1>7

-----------------------------------------------------------------------------
\* The log of a book is the one list with each row at the place of its number.
LogView ==
  TablesTyped => \A b \in Books :
    LET numbers == Numbers(b)
    IN /\ IsFiniteSet(numbers) /\ numbers \subseteq Nat /\ \A n : n \in numbers <=> Saved(b, n)
       /\ LogOf(b) \in Seq(Progress) /\ Len(LogOf(b)) = Cardinality(numbers)
       /\ \A n \in numbers : LogOf(b)[Before(numbers, n) + 1] = log[<<b, n>>]
       /\ \A list : /\ list = [i \in 1..Cardinality(numbers) |-> list[i]]
                    /\ \A n \in numbers : list[Before(numbers, n) + 1] = log[<<b, n>>]
                    => list = LogOf(b)

LEMMA LogIsView == LogView
<1> SUFFICES ASSUME TablesTyped, NEW b \in Books, NEW numbers, numbers = Numbers(b)
      PROVE /\ IsFiniteSet(numbers) /\ numbers \subseteq Nat /\ \A n : n \in numbers <=> Saved(b, n)
            /\ LogOf(b) \in Seq(Progress) /\ Len(LogOf(b)) = Cardinality(numbers)
            /\ \A n \in numbers : LogOf(b)[Before(numbers, n) + 1] = log[<<b, n>>]
            /\ \A list : /\ list = [i \in 1..Cardinality(numbers) |-> list[i]]
                         /\ \A n \in numbers : list[Before(numbers, n) + 1] = log[<<b, n>>]
                         => list = LogOf(b)
  BY DEF LogView
<1>1. IsFiniteSet(numbers) /\ numbers \subseteq Nat /\ \A n : n \in numbers <=> Saved(b, n)
  BY NumbersFacts
<1>2. /\ DOMAIN LogOf(b) = 1..Cardinality(numbers) /\ Cardinality(numbers) \in Nat
      /\ LogOf(b) \in Seq(Progress)
      /\ \A i \in DOMAIN LogOf(b) :
           \E n \in numbers : Before(numbers, n) = i - 1 /\ LogOf(b)[i] = log[<<b, n>>]
  BY LogOfFacts DEF Before
<1>3. LogOf(b) = [i \in 1..Cardinality(numbers) |-> LogOf(b)[i]]
  BY DEF LogOf
<1>4. Len(LogOf(b)) = Cardinality(numbers)
  <2> DEFINE T == Progress
             f == LogOf(b)
  <2>1. PICK c \in Nat : c = Cardinality(numbers)
    BY <1>2
  <2>2. f \in Seq(T) /\ DOMAIN f = 1..c
    BY <1>2, <2>1
  <2> HIDE DEF f, T
  <2>3. Len(f) = c
    BY <2>2
  <2> QED BY <2>1, <2>3 DEF f
<1>5. ASSUME NEW n \in numbers PROVE LogOf(b)[Before(numbers, n) + 1] = log[<<b, n>>]
  <2>1. /\ Before(numbers, n) \in 0..(Cardinality(numbers) - 1)
        /\ \A m \in numbers : Before(numbers, n) = Before(numbers, m) => n = m
    BY <1>1, BeforeFacts
  <2>2. PICK i : i = Before(numbers, n) + 1
    OBVIOUS
  <2>3. i \in DOMAIN LogOf(b) /\ i - 1 = Before(numbers, n)
    BY <1>2, <2>1, <2>2
  <2>4. PICK m \in numbers : Before(numbers, m) = i - 1 /\ LogOf(b)[i] = log[<<b, m>>]
    BY <1>2, <2>3
  <2> QED BY <2>1, <2>2, <2>3, <2>4
<1>6. ASSUME NEW list, list = [i \in 1..Cardinality(numbers) |-> list[i]],
             \A n \in numbers : list[Before(numbers, n) + 1] = log[<<b, n>>]
      PROVE  list = LogOf(b)
  <2>1. ASSUME NEW i \in 1..Cardinality(numbers) PROVE list[i] = LogOf(b)[i]
    <3>1. PICK n \in numbers : Before(numbers, n) = i - 1 /\ LogOf(b)[i] = log[<<b, n>>]
      BY <1>2
    <3>2. (i - 1) + 1 = i
      BY <1>2
    <3> QED BY <1>6, <3>1, <3>2
  <2> QED BY <1>3, <1>6, <2>1
<1> QED BY <1>1, <1>2, <1>4, <1>5, <1>6

LEMMA LogIsViewNext == LogView'
  BY LogIsView, PTL

\* Nothing happened to the log of a book.
LEMMA LogKept ==
  ASSUME TablesTyped, TablesTyped', NEW b \in Books,
         \A n : Saved(b, n)' <=> Saved(b, n),
         \A n : Saved(b, n) => log'[<<b, n>>] = log[<<b, n>>]
  PROVE  LogOf(b)' = LogOf(b)
<1>1. /\ \A n : n \in Numbers(b) <=> Saved(b, n)
      /\ \A n : n \in Numbers(b)' <=> Saved(b, n)'
  BY LogIsView, LogIsViewNext DEF LogView
<1>2. Numbers(b)' = Numbers(b)
  BY <1>1
<1>3. PICK numbers : numbers = Numbers(b)
  OBVIOUS
<1>4. LogOf(b) = [i \in 1..Cardinality(numbers) |-> LogOf(b)[i]]
  BY <1>3 DEF LogOf
<1>5. \A n \in numbers : LogOf(b)[Before(numbers, n) + 1] = log'[<<b, n>>]
  BY <1>1, <1>3, LogIsView DEF LogView
<1>6. \A list : /\ list = [i \in 1..Cardinality(numbers) |-> list[i]]
                /\ \A n \in numbers : list[Before(numbers, n) + 1] = log'[<<b, n>>]
                => list = LogOf(b)'
  BY <1>2, <1>3, LogIsViewNext DEF LogView
<1>7. PICK list : list = LogOf(b)
  OBVIOUS
<1> QED BY <1>4, <1>5, <1>6, <1>7

\* A row with a higher number comes to its end.
LEMMA LogAppended ==
  ASSUME TablesTyped, TablesTyped', NEW b \in Books, NEW entry \in Progress, NEW m \in Nat,
         \A n \in Numbers(b) : n < m,
         \A n : Saved(b, n)' <=> Saved(b, n) \/ n = m,
         \A n : Saved(b, n) => log'[<<b, n>>] = log[<<b, n>>],
         log'[<<b, m>>] = entry
  PROVE  LogOf(b)' = Append(LogOf(b), entry)
<1> DEFINE list == LogOf(b)
           longer == Append(list, entry)
<1>1. PICK old : old = Numbers(b)
  OBVIOUS
<1>2. PICK new : new = Numbers(b)'
  OBVIOUS
<1>3. /\ IsFiniteSet(old) /\ old \subseteq Nat /\ \A n : n \in old <=> Saved(b, n)
      /\ list \in Seq(Progress) /\ Len(list) = Cardinality(old)
      /\ \A n \in old : list[Before(old, n) + 1] = log[<<b, n>>]
  BY <1>1, LogIsView DEF LogView
<1>4. \A n : n \in new <=> Saved(b, n)'
  BY <1>2, LogIsViewNext DEF LogView
<1>5. new = old \union {m} /\ m \notin old
  BY <1>1, <1>3, <1>4
<1>6. Cardinality(new) = Cardinality(old) + 1 /\ Cardinality(old) \in Nat
  BY <1>3, <1>5, FS_AddElement, FS_CardinalityType
<1>7. \A s : /\ s = [i \in 1..Cardinality(new) |-> s[i]]
             /\ \A n \in new : s[Before(new, n) + 1] = log'[<<b, n>>]
             => s = LogOf(b)'
  BY <1>2, LogIsViewNext DEF LogView
<1> HIDE DEF list
<1>8. /\ DOMAIN longer = 1..(Cardinality(old) + 1) /\ longer = [i \in DOMAIN longer |-> longer[i]]
      /\ \A i \in 1..Cardinality(old) : longer[i] = list[i]
      /\ longer[Cardinality(old) + 1] = entry
  <2> DEFINE T == Progress
  <2>1. list \in Seq(T) /\ entry \in T /\ Len(list) = Cardinality(old)
    BY <1>3
  <2> HIDE DEF T
  <2>2. Append(list, entry) \in Seq(T)
    BY <2>1
  <2>3. /\ Len(Append(list, entry)) = Len(list) + 1
        /\ \A i \in 1..Len(list) : Append(list, entry)[i] = list[i]
        /\ Append(list, entry)[Len(list) + 1] = entry
    BY <2>1
  <2>4. DOMAIN Append(list, entry) = 1..Len(Append(list, entry))
    BY <2>2
  <2>5. Append(list, entry) = [i \in DOMAIN Append(list, entry) |-> Append(list, entry)[i]]
    <3>1. PICK app : app = Append(list, entry)
      OBVIOUS
    <3>2. app = [i \in DOMAIN app |-> app[i]]
      <4>1. app \in Seq(T)
        BY <2>2, <3>1
      <4> QED BY <4>1, SequenceIsFunction
    <3> QED BY <3>1, <3>2
  <2> QED BY <2>1, <2>3, <2>4, <2>5
<1> HIDE DEF longer
<1>9. ASSUME NEW n \in new PROVE longer[Before(new, n) + 1] = log'[<<b, n>>]
  <2>1. CASE n = m
    <3>1. \A k \in new : k < n <=> k \in old
      <4>1. ~(m < m) /\ \A k \in old : k < m
        BY <1>1
      <4> QED BY <1>5, <2>1, <4>1
    <3>2. {k \in new : k < n} = old
      BY <1>5, <3>1
    <3> QED BY <1>8, <2>1, <3>2 DEF Before
  <2>2. CASE n \in old
    <3>1. {k \in new : k < n} = {k \in old : k < n}
      BY <1>1, <1>3, <1>5, <2>2
    <3>2. Before(new, n) = Before(old, n)
      BY <3>1 DEF Before
    <3>3. Before(old, n) \in 0..(Cardinality(old) - 1)
      BY <1>3, <2>2, BeforeFacts
    <3>4. Before(old, n) + 1 \in 1..Cardinality(old)
      BY <1>6, <3>3
    <3> QED BY <1>3, <1>8, <2>2, <3>2, <3>4
  <2> QED BY <1>5, <2>1, <2>2
<1>10. longer = LogOf(b)'
  BY <1>6, <1>7, <1>8, <1>9
<1> QED BY <1>10 DEF longer, list

\* The progress that the rows stand for, of the older model and of the books.
LegacyProgress == [id \in LegacyIds |-> rows[<<LegacySource, id>>].chapter]
Current == [b \in ReadingBooks |-> rows[RowOf(b)]]

RowView ==
  PlainNames /\ TablesTyped =>
    /\ LegacyProgress = [id \in LegacyIds |-> rows[<<LegacySource, id>>].chapter]
    /\ Current = [b \in ReadingBooks |-> rows[RowOf(b)]]
    /\ \A id : id \in LegacyIds <=> <<LegacySource, id>> \in DOMAIN rows
    /\ \A b : b \in ReadingBooks <=> b \in Books /\ RowOf(b) \in DOMAIN rows

LEMMA RowsView == RowView
<1> SUFFICES ASSUME PlainNames, TablesTyped
      PROVE /\ \A id : id \in LegacyIds <=> <<LegacySource, id>> \in DOMAIN rows
            /\ \A b : b \in ReadingBooks <=> b \in Books /\ RowOf(b) \in DOMAIN rows
  BY DEF RowView, LegacyProgress, Current
<1>1. ASSUME NEW id, id \in LegacyIds PROVE <<LegacySource, id>> \in DOMAIN rows
  <2>1. PICK r \in DOMAIN rows : r[1] = LegacySource /\ r[2] = id
    BY <1>1 DEF LegacyIds
  <2> QED BY <2>1 DEF TablesTyped
<1>2. ASSUME NEW id, <<LegacySource, id>> \in DOMAIN rows PROVE id \in LegacyIds
  <2>1. PICK r \in DOMAIN rows : r = <<LegacySource, id>>
    BY <1>2
  <2>2. r[1] = LegacySource /\ r[2] = id
    BY <2>1
  <2> QED BY <2>2 DEF LegacyIds
<1>3. ASSUME NEW b PROVE b \in ReadingBooks <=> b \in Books /\ RowOf(b) \in DOMAIN rows
  BY DEF ReadingBooks, PlainNames, Own
<1> QED BY <1>1, <1>2, <1>3

LEMMA RowsViewNext == RowView'
  BY RowsView, PTL

LEMMA RowsKept ==
  ASSUME PlainNames, TablesTyped, TablesTyped', UNCHANGED rows
  PROVE  LegacyProgress' = LegacyProgress /\ Current' = Current
<1>1. LegacyIds' = LegacyIds /\ ReadingBooks' = ReadingBooks
  BY DEF LegacyIds, ReadingBooks, RowOf
<1> QED BY <1>1 DEF LegacyProgress, Current, RowOf

\* What a row that is written or deleted does to the progress that is read back.
LEMMA RowPut ==
  ASSUME PlainNames, TablesTyped, TablesTyped', NEW b \in Books, NEW entry,
         rows' = Upsert(rows, RowOf(b), entry)
  PROVE  LegacyProgress' = LegacyProgress /\ Current' = Memory!Put(Current, b, entry)
<1>1. PICK key : key = RowOf(b)
  OBVIOUS
<1>2. /\ DOMAIN rows' = DOMAIN rows \union {key}
      /\ \A r \in DOMAIN rows' : rows'[r] = IF r = key THEN entry ELSE rows[r]
  BY <1>1 DEF Upsert
<1>3. \A id : key # <<LegacySource, id>>
  BY <1>1, RowsDiffer DEF PlainNames
<1>4. \A a \in Books : RowOf(a)' = RowOf(a) /\ (RowOf(a) = key <=> a = b)
  BY <1>1, RowsDiffer DEF RowOf
<1>5. LegacyProgress' = LegacyProgress
  <2>1. LegacyIds' = LegacyIds
    BY <1>2, <1>3, RowsView, RowsViewNext DEF RowView
  <2>2. \A id \in LegacyIds : rows'[<<LegacySource, id>>] = rows[<<LegacySource, id>>]
    BY <1>2, <1>3, RowsView DEF RowView
  <2> QED BY <2>1, <2>2 DEF LegacyProgress
<1>6. Current' = Memory!Put(Current, b, entry)
  <2>1. ReadingBooks' = ReadingBooks \union {b}
    BY <1>2, <1>4, RowsView, RowsViewNext DEF RowView
  <2>2. \A a \in ReadingBooks' : rows'[RowOf(a)'] = IF a = b THEN entry ELSE rows[RowOf(a)]
    BY <1>2, <1>4, RowsView, RowsViewNext DEF RowView
  <2>3. Current' = [a \in ReadingBooks \union {b} |-> IF a = b THEN entry ELSE rows[RowOf(a)]]
    BY <2>1, <2>2 DEF Current
  <2>4. DOMAIN Current = ReadingBooks /\ \A a \in ReadingBooks : Current[a] = rows[RowOf(a)]
    BY DEF Current
  <2> QED BY <2>3, <2>4 DEF Memory!Put
<1> QED BY <1>5, <1>6

LEMMA RowRemoved ==
  ASSUME PlainNames, TablesTyped, TablesTyped', NEW b \in Books,
         rows' = Delete(rows, {RowOf(b)})
  PROVE  LegacyProgress' = LegacyProgress /\ Current' = Memory!Without(Current, b)
<1>1. PICK key : key = RowOf(b)
  OBVIOUS
<1>2. /\ DOMAIN rows' = DOMAIN rows \ {key}
      /\ \A r \in DOMAIN rows' : rows'[r] = rows[r]
  BY <1>1 DEF Delete
<1>3. \A id : key # <<LegacySource, id>>
  BY <1>1, RowsDiffer DEF PlainNames
<1>4. \A a \in Books : RowOf(a)' = RowOf(a) /\ (RowOf(a) = key <=> a = b)
  BY <1>1, RowsDiffer DEF RowOf
<1>5. LegacyProgress' = LegacyProgress
  <2>1. LegacyIds' = LegacyIds
    BY <1>2, <1>3, RowsView, RowsViewNext DEF RowView
  <2>2. \A id \in LegacyIds : rows'[<<LegacySource, id>>] = rows[<<LegacySource, id>>]
    BY <1>2, <1>3, RowsView DEF RowView
  <2> QED BY <2>1, <2>2 DEF LegacyProgress
<1>6. Current' = Memory!Without(Current, b)
  <2>1. ReadingBooks' = ReadingBooks \ {b}
    BY <1>2, <1>4, RowsView, RowsViewNext DEF RowView
  <2>2. \A a \in ReadingBooks' : rows'[RowOf(a)'] = rows[RowOf(a)]
    BY <1>2, <1>4, RowsView, RowsViewNext DEF RowView
  <2>3. Current' = [a \in ReadingBooks \ {b} |-> rows[RowOf(a)]]
    BY <2>1, <2>2 DEF Current
  <2>4. DOMAIN Current = ReadingBooks /\ \A a \in ReadingBooks : Current[a] = rows[RowOf(a)]
    BY DEF Current
  <2> QED BY <2>3, <2>4 DEF Memory!Without
<1> QED BY <1>5, <1>6

LEMMA LegacyRowPut ==
  ASSUME PlainNames, TablesTyped, TablesTyped', NEW id, NEW chapter,
         rows' = Upsert(rows, <<LegacySource, id>>, [chapter |-> chapter, at |-> 0])
  PROVE  LegacyProgress' = Memory!Put(LegacyProgress, id, chapter) /\ Current' = Current
<1>1. PICK key : key = <<LegacySource, id>>
  OBVIOUS
<1>2. PICK row : row = [chapter |-> chapter, at |-> 0]
  OBVIOUS
<1>3. row.chapter = chapter /\ rows' = Upsert(rows, key, row)
  BY <1>1, <1>2
<1>4. /\ DOMAIN rows' = DOMAIN rows \union {key}
      /\ \A r \in DOMAIN rows' : rows'[r] = IF r = key THEN row ELSE rows[r]
  BY <1>3 DEF Upsert
<1>5. \A x : <<LegacySource, x>> = key <=> x = id
  BY <1>1
<1>6. \A a \in Books : RowOf(a)' = RowOf(a) /\ RowOf(a) # key
  BY <1>1, RowsDiffer DEF RowOf, PlainNames
<1>7. LegacyProgress' = Memory!Put(LegacyProgress, id, chapter)
  <2>1. LegacyIds' = LegacyIds \union {id}
    BY <1>4, <1>5, RowsView, RowsViewNext DEF RowView
  <2>2. \A x \in LegacyIds' : rows'[<<LegacySource, x>>].chapter =
                                IF x = id THEN chapter ELSE rows[<<LegacySource, x>>].chapter
    BY <1>3, <1>4, <1>5, RowsViewNext DEF RowView
  <2>3. LegacyProgress' = [x \in LegacyIds \union {id} |->
                             IF x = id THEN chapter ELSE rows[<<LegacySource, x>>].chapter]
    BY <2>1, <2>2 DEF LegacyProgress
  <2>4. /\ DOMAIN LegacyProgress = LegacyIds
        /\ \A x \in LegacyIds : LegacyProgress[x] = rows[<<LegacySource, x>>].chapter
    BY DEF LegacyProgress
  <2> QED BY <2>3, <2>4 DEF Memory!Put
<1>8. Current' = Current
  <2>1. ReadingBooks' = ReadingBooks
    BY <1>4, <1>6, RowsView, RowsViewNext DEF RowView
  <2>2. \A a \in ReadingBooks : rows'[RowOf(a)'] = rows[RowOf(a)]
    BY <1>4, <1>6, RowsView DEF RowView
  <2> QED BY <2>1, <2>2 DEF Current
<1> QED BY <1>7, <1>8

\* The histories, when only the log of one book changes.
LEMMA HistKept ==
  ASSUME PlainNames, TablesTyped, TablesTyped', UNCHANGED log
  PROVE  Hist' = Hist
<1>1. \A a \in Books : LogOf(a)' = LogOf(a)
  <2> TAKE a \in Books
  <2>1. \A n : Saved(a, n)' <=> Saved(a, n)
    BY DEF Saved
  <2> QED BY <2>1, LogKept
<1> QED BY <1>1 DEF Hist

LEMMA HistChanged ==
  ASSUME PlainNames, TablesTyped, TablesTyped', NEW b \in Books, NEW list,
         LogOf(b)' = list,
         \A a \in Books \ {b} : \A n : Saved(a, n)' <=> Saved(a, n),
         \A a \in Books \ {b} : \A n : Saved(a, n) => log'[<<a, n>>] = log[<<a, n>>]
  PROVE  Hist' = [Hist EXCEPT ![b] = list]
<1>1. \A a \in Books \ {b} : LogOf(a)' = LogOf(a)
  BY LogKept
<1>2. \A a \in Books : SourceOf[a] # LegacySource
  BY DEF PlainNames, Own
<1>3. Hist' = [a \in Books |-> LogOf(a)'] /\ Hist = [a \in Books |-> LogOf(a)]
  BY <1>2 DEF Hist
<1> QED BY <1>1, <1>3

Typed == PlainNames /\ TablesTyped /\ TablesTyped'

\* The shelf.
LEMMA LastReadIs ==
  ASSUME TablesTyped, NEW b, NEW t
  PROVE  ShelfWithLastRead(b, t) = Memory!SetLastRead(b, t)
<1>1. shelf = [x \in DOMAIN shelf |-> shelf[x]]
  BY DEF TablesTyped
<1> QED BY <1>1 DEF ShelfWithLastRead, Memory!SetLastRead

\* The progress and the histories stay.
LEMMA ProgressUntouched ==
  ASSUME Typed, UNCHANGED <<rows, log>>
  PROVE  LegacyProgress' = LegacyProgress /\ Current' = Current /\ Hist' = Hist
  BY RowsKept, HistKept DEF Typed

LEMMA AddIs ==
  ASSUME Typed, NEW b, NEW entry, SqlAddToShelf(b, entry)
  PROVE  Memory!AddToShelf(b, entry)
<1>1. LegacyProgress' = LegacyProgress /\ Current' = Current /\ Hist' = Hist
  BY ProgressUntouched DEF SqlAddToShelf
<1> QED BY <1>1 DEF SqlAddToShelf, Upsert, Memory!AddToShelf, Memory!Put, LegacyProgress, Current, Hist

LEMMA RemoveIs ==
  ASSUME Typed, NEW b, SqlRemoveFromShelf(b)
  PROVE  Memory!RemoveFromShelf(b)
<1>1. LegacyProgress' = LegacyProgress /\ Current' = Current /\ Hist' = Hist
  BY ProgressUntouched DEF SqlRemoveFromShelf
<1> QED BY <1>1 DEF SqlRemoveFromShelf, Delete, Memory!RemoveFromShelf, Memory!Without,
           LegacyProgress, Current, Hist

LEMMA UpdateLastReadIs ==
  ASSUME Typed, NEW b, NEW t, SqlUpdateLastRead(b, t)
  PROVE  Memory!UpdateLastRead(b, t)
<1>1. LegacyProgress' = LegacyProgress /\ Current' = Current /\ Hist' = Hist
  BY ProgressUntouched DEF SqlUpdateLastRead
<1>2. b \in DOMAIN shelf /\ shelf' = Memory!SetLastRead(b, t)
  BY LastReadIs DEF SqlUpdateLastRead, Typed
<1> QED BY <1>1, <1>2 DEF Memory!UpdateLastRead, LegacyProgress, Current, Hist

LEMMA MoveIs ==
  ASSUME Typed, NEW b, NEW group \in Texts \union {NoGroup}, NEW rank, SqlMove(b, group, rank)
  PROVE  Memory!Move(b, group, rank)
<1>1. LegacyProgress' = LegacyProgress /\ Current' = Current /\ Hist' = Hist
  BY ProgressUntouched DEF SqlMove
<1>2. Memory!Normalized(group) = group /\ group # Blank
  BY DEF Typed, PlainNames, Memory!Normalized
<1> QED BY <1>1, <1>2 DEF SqlMove, Memory!Move, LegacyProgress, Current, Hist

\* The next number is above those of the book, so the row is the last of its list.
LEMMA NextNumberIsLast ==
  ASSUME TablesTyped, NEW b \in Books PROVE \A n \in Numbers(b) : n < NextNumber(b)
<1> DEFINE S == Numbers(b)
<1>1. IsFiniteSet(S) /\ S \subseteq Nat
  BY NumbersFacts
<1>2. SUFFICES ASSUME S # {} PROVE \A n \in S : n < NextNumber(b)
  OBVIOUS
<1>3. \E x \in S : \A y \in S : x >= y
  <2> HIDE DEF S
  <2> QED BY <1>1, <1>2, GreatestExists
<1>4. LastNumber(b) \in S /\ \A y \in S : y <= LastNumber(b)
  <2>1. \E x \in S : \A y \in S : y <= x
    BY <1>1, <1>3
  <2> QED BY <2>1 DEF LastNumber
<1>5. NextNumber(b) = LastNumber(b) + 1
  BY <1>2 DEF NextNumber
<1> QED BY <1>1, <1>4, <1>5

\* The progress and its history.
LEMMA SaveIs ==
  ASSUME Typed, NEW b \in Books, NEW entry \in Progress, SqlSaveReading(b, entry)
  PROVE  Memory!SaveReading(b, entry)
<1>1. PICK m : m = NextNumber(b)
  OBVIOUS
<1>2. /\ Cardinality(Numbers(b)) < MaxSaves
      /\ log' = Upsert(log, <<b, m>>, entry)
      /\ IF RowOf(b) \in DOMAIN rows => entry.at >= rows[RowOf(b)].at
         THEN rows' = Upsert(rows, RowOf(b), entry) /\ shelf' = ShelfWithLastRead(b, entry.at)
         ELSE UNCHANGED <<rows, shelf>>
  BY <1>1 DEF SqlSaveReading
<1>3. /\ \A a, n : Saved(a, n)' <=> Saved(a, n) \/ (a = b /\ n = m)
      /\ \A a, n : Saved(a, n) => log'[<<a, n>>] = log[<<a, n>>]
      /\ log'[<<b, m>>] = entry
  BY <1>1, <1>2, LogExtended DEF Typed
<1>4. m \in Nat /\ \A n \in Numbers(b) : n < m
  BY <1>1, NextNumberIsNew, NextNumberIsLast DEF Typed
<1>5. LogOf(b)' = Append(LogOf(b), entry)
  BY <1>3, <1>4, LogAppended DEF Typed
<1>6. Hist[b] = LogOf(b) /\ Hist = [a \in Books |-> Hist[a]]
  BY DEF Hist, Typed, PlainNames, Own
<1>7. Hist' = [Hist EXCEPT ![b] = Append(Hist[b], entry)]
  <2>1. PICK list : list = Append(LogOf(b), entry)
    OBVIOUS
  <2>2. Hist' = [Hist EXCEPT ![b] = list]
    BY <1>3, <1>5, <2>1, HistChanged DEF Typed
  <2> QED BY <1>6, <2>1, <2>2
<1>8. Len(Hist[b]) < MaxSaves
  BY <1>2, <1>6, LogIsView DEF LogView, Typed
<1>9. /\ b \in DOMAIN Current <=> RowOf(b) \in DOMAIN rows
      /\ b \in DOMAIN Current => Current[b] = rows[RowOf(b)]
  BY RowsView DEF RowView, Current, Typed
<1>10. CASE RowOf(b) \in DOMAIN rows => entry.at >= rows[RowOf(b)].at
  <2>1. rows' = Upsert(rows, RowOf(b), entry) /\ shelf' = Memory!SetLastRead(b, entry.at)
    BY <1>2, <1>10, LastReadIs DEF Typed
  <2>2. LegacyProgress' = LegacyProgress /\ Current' = Memory!Put(Current, b, entry)
    BY <2>1, RowPut DEF Typed
  <2>3. b \in DOMAIN Current => entry.at >= Current[b].at
    BY <1>9, <1>10
  <2> QED BY <1>7, <1>8, <2>1, <2>2, <2>3
          DEF Memory!SaveReading, Memory!Advances, LegacyProgress, Current, Hist
<1>11. CASE ~(RowOf(b) \in DOMAIN rows => entry.at >= rows[RowOf(b)].at)
  <2>1. UNCHANGED rows /\ shelf' = shelf
    BY <1>2, <1>11
  <2>2. LegacyProgress' = LegacyProgress /\ Current' = Current
    BY <2>1, RowsKept DEF Typed
  <2>3. ~(b \in DOMAIN Current => entry.at >= Current[b].at)
    BY <1>9, <1>11
  <2> QED BY <1>7, <1>8, <2>1, <2>2, <2>3
          DEF Memory!SaveReading, Memory!Advances, LegacyProgress, Current, Hist
<1> QED BY <1>10, <1>11

LEMMA ClearIs ==
  ASSUME Typed, NEW b \in Books, SqlClearReading(b)
  PROVE  Memory!ClearReading(b)
<1>1. LegacyProgress' = LegacyProgress /\ Current' = Memory!Without(Current, b)
  BY RowRemoved DEF SqlClearReading, Typed
<1>2. log' = [x \in DOMAIN log \ {x \in DOMAIN log : x[1] = b} |-> log[x]]
  BY DEF SqlClearReading, Delete
<1>3. \A a, n : Saved(a, n)' <=> Saved(a, n) /\ a # b
  <2> TAKE a, n
  <2>1. <<a, n>>[1] = a
    OBVIOUS
  <2>2. <<a, n>> \in DOMAIN log' <=> <<a, n>> \in DOMAIN log /\ <<a, n>>[1] # b
    BY <1>2
  <2> QED BY <2>1, <2>2 DEF Saved
<1>4. \A a, n : Saved(a, n)' => log'[<<a, n>>] = log[<<a, n>>]
  BY <1>2 DEF Saved
<1>5. LogOf(b)' = <<>>
  <2>1. PICK numbers : numbers = Numbers(b)'
    OBVIOUS
  <2>2. numbers = {}
    <3>1. \A n : n \in numbers <=> Saved(b, n)'
      BY <2>1, LogIsViewNext DEF LogView, Typed
    <3> QED BY <1>3, <3>1
  <2>3. \A list : /\ list = [i \in 1..Cardinality(numbers) |-> list[i]]
                  /\ \A n \in numbers : list[Before(numbers, n) + 1] = log'[<<b, n>>]
                  => list = LogOf(b)'
    BY <2>1, LogIsViewNext DEF LogView, Typed
  <2>4. Cardinality(numbers) = 0
    BY <2>2, FS_EmptySet
  <2>5. <<>> = [i \in 1..0 |-> <<>>[i]]
    OBVIOUS
  <2> QED BY <2>2, <2>3, <2>4, <2>5
<1>6. Hist' = [Hist EXCEPT ![b] = <<>>]
  <2>1. /\ \A a \in Books \ {b} : \A n : Saved(a, n)' <=> Saved(a, n)
        /\ \A a \in Books \ {b} : \A n : Saved(a, n) => log'[<<a, n>>] = log[<<a, n>>]
    BY <1>3, <1>4
  <2> QED BY <1>5, <2>1, HistChanged DEF Typed
<1>7. shelf' = Memory!SetLastRead(b, Memory!Never)
  BY LastReadIs DEF SqlClearReading, Typed, Never, Memory!Never
<1> QED BY <1>1, <1>6, <1>7 DEF Memory!ClearReading, LegacyProgress, Current, Hist

LEMMA PutLegacyIs ==
  ASSUME Typed, NEW id, NEW chapter, SqlPutLegacy(id, chapter)
  PROVE  Memory!PutLegacy(id, chapter)
<1>1. LegacyProgress' = Memory!Put(LegacyProgress, id, chapter) /\ Current' = Current
  BY LegacyRowPut DEF SqlPutLegacy, Typed
<1>2. Hist' = Hist
  BY HistKept DEF SqlPutLegacy, Typed
<1> QED BY <1>1, <1>2 DEF SqlPutLegacy, Memory!PutLegacy, LegacyProgress, Current, Hist

LEMMA ShelfIs ==
  ASSUME Typed, SqlShelfNext PROVE Memory!ShelfNext
<1>1. Memory!Progress = Progress
  BY DEF Progress, Memory!Progress
<1> QED BY <1>1, AddIs, RemoveIs, UpdateLastReadIs, MoveIs, SaveIs, ClearIs, PutLegacyIs
        DEF SqlShelfNext, Memory!ShelfNext

\* The store in memory prunes by the same rule.
LEMMA MemoryPrunes ==
  ASSUME NEW policy PROVE Memory!WithinBytes(policy) = WithinBytes(policy)
<1>1. Memory!YoungEnough(policy) = YoungEnough(policy)
  BY DEF YoungEnough, Memory!YoungEnough
<1>2. ASSUME NEW keys, NEW e PROVE Memory!Younger(keys, e) = Younger(keys, e)
  BY DEF Younger, Memory!Younger, Older, Memory!Older
<1>3. ASSUME NEW keys PROVE Memory!Bytes(keys) = Bytes(keys)
  <2>1. PICK texts : texts = UNION {{e} \X (1..cached[e].size) : e \in keys}
    OBVIOUS
  <2>2. Bytes(keys) = Cardinality(texts)
    BY <2>1 DEF Bytes
  <2>3. Memory!Bytes(keys) = Memory!Cardinality(texts)
    BY <2>1 DEF Memory!Bytes
  <2> QED BY <2>2, <2>3, MemoryCounts
<1>4. Memory!WithinCount(policy) = WithinCount(policy)
  <2>1. ASSUME NEW keys, NEW e
        PROVE  Memory!Cardinality(Memory!Younger(keys, e)) = Cardinality(Younger(keys, e))
    <3>1. PICK some : some = Younger(keys, e)
      OBVIOUS
    <3>2. Memory!Younger(keys, e) = some
      BY <1>2, <3>1
    <3> QED BY <3>1, <3>2, MemoryCounts
  <2>2. PICK young : young = YoungEnough(policy)
    OBVIOUS
  <2>3. WithinCount(policy) = {e \in young : \/ policy.maxEntries = Unlimited
                                             \/ Cardinality(Younger(young, e)) < policy.maxEntries}
    BY <2>2 DEF WithinCount
  <2>4. Memory!WithinCount(policy) =
          {e \in young : \/ policy.maxEntries = Unlimited
                         \/ Memory!Cardinality(Memory!Younger(young, e)) < policy.maxEntries}
    BY <1>1, <2>2 DEF Memory!WithinCount
  <2> QED BY <2>1, <2>3, <2>4
<1> QED BY <1>2, <1>3, <1>4 DEF WithinBytes, Memory!WithinBytes

\* The list of the rows in the order of eviction.
AgeKey(keys) == [e \in keys |-> <<cached[e].at, e>>]

\* Pruning: the rows in the order of their age, from which the statements cut off the
\* first ones, against the rank of each chapter.
LEMMA AgeKeys ==
  ASSUME CacheTyped, NEW keys \in SUBSET DOMAIN cached
  PROVE  /\ \A e, f \in keys : LexLess(AgeKey(keys)[e], AgeKey(keys)[f]) <=> Older(e, f)
         /\ IsFiniteSet(keys)
<1>1. ASSUME NEW a \in Int, NEW b \in Int, NEW c \in Int, NEW d \in Int
      PROVE  LexLess(<<a, b>>, <<c, d>>) <=> a < c \/ (a = c /\ b < d)
  <2>1. PICK x : x = <<a, b>>
    OBVIOUS
  <2>2. PICK y : y = <<c, d>>
    OBVIOUS
  <2>3. DOMAIN x = 1..2 /\ x[1] = a /\ x[2] = b /\ y[1] = c /\ y[2] = d
    BY <2>1, <2>2
  <2>4. LexLess(x, y) <=> \/ x[1] < y[1] /\ \A m \in 1..0 : x[m] = y[m]
                          \/ x[2] < y[2] /\ \A m \in 1..1 : x[m] = y[m]
    BY <2>3 DEF LexLess
  <2> QED BY <2>1, <2>2, <2>3, <2>4
<1>2. ASSUME NEW e \in keys, NEW f \in keys
      PROVE  LexLess(AgeKey(keys)[e], AgeKey(keys)[f]) <=> Older(e, f)
  <2>1. AgeKey(keys)[e] = <<cached[e].at, e>> /\ AgeKey(keys)[f] = <<cached[f].at, f>>
    BY DEF AgeKey
  <2>2. e \in Int /\ f \in Int /\ cached[e].at \in Int /\ cached[f].at \in Int
    BY DEF CacheTyped
  <2> QED BY <1>1, <2>1, <2>2 DEF Older
<1>3. IsFiniteSet(keys)
  BY FS_Subset DEF CacheTyped
<1> QED BY <1>2, <1>3

ByAge(keys, list, len) ==
  /\ DOMAIN list = 1..len
  /\ \A n \in 1..len : list[n] \in keys
  /\ \A e \in keys : \E n \in 1..len : list[n] = e
  /\ \A n, m \in 1..len : Older(list[n], list[m]) <=> n < m

LEMMA RowsByAge ==
  ASSUME CacheTyped, NEW keys \in SUBSET DOMAIN cached, NEW list, list = Sorted(keys, AgeKey(keys))
  PROVE  Cardinality(keys) \in Nat /\ ByAge(keys, list, Cardinality(keys))
<1> DEFINE key == AgeKey(keys)
<1>1. IsFiniteSet(keys) /\ \A e, f \in keys : LexLess(key[e], key[f]) <=> Older(e, f)
  BY AgeKeys
<1> HIDE DEF key
<1>2. \A x, y, z \in keys :
        /\ ~LexLess(key[x], key[x])
        /\ x = y \/ LexLess(key[x], key[y]) \/ LexLess(key[y], key[x])
        /\ LexLess(key[x], key[y]) /\ LexLess(key[y], key[z]) => LexLess(key[x], key[z])
  BY <1>1, OlderOrder
<1>3. /\ DOMAIN Sorted(keys, key) = 1..Cardinality(keys) /\ Cardinality(keys) \in Nat
      /\ \A n \in 1..Cardinality(keys) : Sorted(keys, key)[n] \in keys
      /\ \A x \in keys : \E n \in 1..Cardinality(keys) : Sorted(keys, key)[n] = x
      /\ \A n, m \in 1..Cardinality(keys) :
              LexLess(key[Sorted(keys, key)[n]], key[Sorted(keys, key)[m]]) <=> n < m
  BY <1>1, <1>2, SortedPlaces
<1>4. list = Sorted(keys, key)
  BY DEF key
<1> QED BY <1>1, <1>3, <1>4 DEF ByAge

\* In such a list the younger rows are the later ones; how many they are.
LEMMA LaterRows ==
  ASSUME CacheTyped, NEW keys \in SUBSET DOMAIN cached, NEW list, NEW len \in Nat,
         ByAge(keys, list, len), NEW n \in 1..len
  PROVE  /\ Younger(keys, list[n]) = {list[m] : m \in (n + 1)..len}
         /\ {list[n]} \union Younger(keys, list[n]) = {list[m] : m \in n..len}
         /\ Cardinality(Younger(keys, list[n])) = len - n
<1>0. /\ DOMAIN list = 1..len
      /\ \A k \in 1..len : list[k] \in keys
      /\ \A e \in keys : \E k \in 1..len : list[k] = e
      /\ \A k, m \in 1..len : Older(list[k], list[m]) <=> k < m
  BY DEF ByAge
<1>1. Younger(keys, list[n]) = {list[m] : m \in (n + 1)..len}
  <2>1. \A f : f \in Younger(keys, list[n]) <=> \E m \in 1..len : f = list[m] /\ n < m
    BY <1>0 DEF Younger
  <2>2. \A m : m \in (n + 1)..len <=> m \in 1..len /\ n < m
    OBVIOUS
  <2> QED BY <2>1, <2>2
<1>2. {list[n]} \union Younger(keys, list[n]) = {list[m] : m \in n..len}
  <2>1. \A m : m \in n..len <=> m = n \/ m \in (n + 1)..len
    OBVIOUS
  <2> QED BY <1>1, <2>1
<1>3. Cardinality(Younger(keys, list[n])) = len - n
  <2> DEFINE T == (n + 1)..len
             later == {list[m] : m \in T}
             f == [m \in T |-> list[m]]
  <2>1. \A k, m \in T : list[k] = list[m] => k = m
    <3> SUFFICES ASSUME NEW k \in T, NEW m \in T, list[k] = list[m] PROVE k = m
      OBVIOUS
    <3>1. k \in 1..len /\ m \in 1..len /\ k \in Int /\ m \in Int
      OBVIOUS
    <3>2. ~Older(list[k], list[k])
      BY <1>0, <3>1, OlderOrder
    <3>3. ~(k < m) /\ ~(m < k)
      BY <1>0, <3>1, <3>2
    <3> QED BY <3>1, <3>3
  <2>2. f \in Surjection(T, later)
    BY DEF Surjection
  <2>3. f \in Injection(T, later)
    BY <2>1 DEF Injection, IsInjective
  <2>4. IsFiniteSet(T) /\ Cardinality(T) = len - n
    <3>1. n + 1 \in Int /\ len \in Int
      OBVIOUS
    <3>2. IsFiniteSet(T) /\ Cardinality(T) = IF n + 1 > len THEN 0 ELSE len - (n + 1) + 1
      BY <3>1, FS_Interval
    <3> QED BY <3>2
  <2>5. Cardinality(later) = Cardinality(T)
    <3> HIDE DEF T, later, f
    <3> QED BY <2>2, <2>3, <2>4, FS_Surjection
  <2> QED BY <1>1, <2>4, <2>5
<1> QED BY <1>1, <1>2, <1>3

LEMMA SortedIsList ==
  ASSUME NEW S, NEW key PROVE Sorted(S, key) = [n \in 1..Cardinality(S) |-> Sorted(S, key)[n]]
<1> DEFINE rank == [x \in S |-> Cardinality({y \in S : LexLess(key[y], key[x])})]
           Nth(n) == CHOOSE x \in S : rank[x] = n - 1
<1>1. Sorted(S, key) = [n \in 1..Cardinality(S) |-> Nth(n)]
  BY DEF Sorted
<1> HIDE DEF Nth
<1> QED BY <1>1

LEMMA TailOfList ==
  ASSUME NEW T, NEW list \in Seq(T), NEW k \in 0..Len(list), NEW rest,
         rest = SubSeq(list, k + 1, Len(list))
  PROVE  /\ Len(rest) = Len(list) - k /\ DOMAIN rest = 1..(Len(list) - k)
         /\ \A n \in 1..(Len(list) - k) : rest[n] = list[k + n]
<1>1. Len(list) \in Nat
  OBVIOUS
<1>2. rest \in Seq(T)
  BY <1>1
<1>3. Len(rest) = Len(list) - k
  BY <1>1
<1>4. DOMAIN rest = 1..Len(rest)
  BY <1>2
<1>5. ASSUME NEW n \in 1..(Len(list) - k) PROVE rest[n] = list[k + n]
  BY <1>1
<1> QED BY <1>3, <1>4, <1>5

LEMMA ListOfSet ==
  ASSUME NEW T, NEW len \in Nat, NEW list, DOMAIN list = 1..len, list = [n \in 1..len |-> list[n]],
         \A n \in 1..len : list[n] \in T
  PROVE  list \in Seq(T) /\ Len(list) = len
<1>1. list \in [1..len -> T]
  OBVIOUS
<1> QED BY <1>1

\* The walk of the database over its rows leaves what the rule of the store in memory
\* leaves: dropping rows from the front of the list is keeping the youngest.
LEMMA PruneIs ==
  ASSUME CacheTyped, NEW policy \in Policies, SqlPrune(policy)
  PROVE  Memory!Prune(policy)
<1> DEFINE young == {e \in DOMAIN cached : policy.minAt # Unlimited => cached[e].at >= policy.minAt}
           few == WithinCount(policy)
           list == Sorted(young, AgeKey(young))
           overflow == IF policy.maxEntries = Unlimited \/ Len(list) < policy.maxEntries THEN 0
                       ELSE Len(list) - policy.maxEntries
           rest == SubSeq(list, overflow + 1, Len(list))
           fits == {idx \in 0..Len(rest) :
                      Bytes({rest[n] : n \in (idx + 1)..Len(rest)}) <= policy.maxBytes}
           evicted == IF policy.maxBytes = Unlimited THEN 0
                      ELSE CHOOSE idx \in fits : \A j \in fits : idx <= j
           kept == {rest[n] : n \in (evicted + 1)..Len(rest)}
<1>0. young = YoungEnough(policy)
  BY DEF YoungEnough
<1>1. cached' = Delete(cached, DOMAIN cached \ kept)
  BY DEF SqlPrune, AgeKey
<1>2. young \in SUBSET DOMAIN cached /\ few \subseteq young
  BY <1>0 DEF WithinCount
<1>3. /\ policy.maxEntries # Unlimited => policy.maxEntries \in Nat
      /\ policy.maxBytes # Unlimited => policy.maxBytes \in Nat
  BY PolicyTyped
<1>4. \A e \in young : e \in few <=>
        policy.maxEntries = Unlimited \/ Cardinality(Younger(young, e)) < policy.maxEntries
  BY <1>0 DEF WithinCount
<1>5. \A e : e \in WithinBytes(policy) <=>
        e \in few /\ (policy.maxBytes = Unlimited \/ Bytes({e} \union Younger(few, e)) <= policy.maxBytes)
  BY DEF WithinBytes
<1>6. PICK len \in Nat : len = Cardinality(young)
  BY <1>2, FS_Subset, FS_CardinalityType DEF CacheTyped
<1>7. list = [n \in 1..len |-> list[n]]
  <2>1. list = [n \in 1..Cardinality(young) |-> list[n]]
    <3> HIDE DEF young
    <3> QED BY SortedIsList
  <2> HIDE DEF young, list
  <2> QED BY <1>6, <2>1
<1>8. ByAge(young, list, len)
  <2> HIDE DEF young, list
  <2>1. list = Sorted(young, AgeKey(young))
    BY DEF list
  <2> QED BY <1>2, <1>6, <2>1, RowsByAge
<1> HIDE DEF young, few, list
<1>9. list \in Seq(young) /\ Len(list) = len
  BY <1>7, <1>8, ListOfSet DEF ByAge
<1>10. /\ overflow \in 0..len
       /\ \A n \in 1..len : list[n] \in few <=> n > overflow
  <2>1. overflow \in 0..len
    BY <1>3, <1>9
  <2>2. ASSUME NEW n \in 1..len PROVE list[n] \in few <=> n > overflow
    <3>1. Cardinality(Younger(young, list[n])) = len - n
      BY <1>2, <1>8, LaterRows
    <3>2. list[n] \in few <=> policy.maxEntries = Unlimited \/ len - n < policy.maxEntries
      BY <1>4, <1>8, <3>1 DEF ByAge
    <3> QED BY <1>3, <1>9, <3>2
  <2> QED BY <2>1, <2>2
<1> HIDE DEF overflow
<1>11. PICK left \in Nat : left = len - overflow
  BY <1>10
<1>12. /\ Len(rest) = left /\ DOMAIN rest = 1..left
       /\ \A n \in 1..left : rest[n] = list[overflow + n]
  <2>1. PICK r : r = rest
    OBVIOUS
  <2>2. overflow \in 0..Len(list) /\ r = SubSeq(list, overflow + 1, Len(list))
    BY <1>9, <1>10, <2>1
  <2> HIDE DEF rest
  <2>3. /\ Len(r) = len - overflow /\ DOMAIN r = 1..(len - overflow)
        /\ \A n \in 1..(len - overflow) : r[n] = list[overflow + n]
    BY <1>9, <2>2, TailOfList
  <2> QED BY <1>11, <2>1, <2>3
<1> HIDE DEF rest
<1>13. ByAge(few, rest, left)
  <2>0. /\ DOMAIN list = 1..len
        /\ \A n \in 1..len : list[n] \in young
        /\ \A e \in young : \E n \in 1..len : list[n] = e
        /\ \A n, m \in 1..len : Older(list[n], list[m]) <=> n < m
    BY <1>8 DEF ByAge
  <2>1. \A n \in 1..left : overflow + n \in 1..len /\ overflow + n > overflow
    BY <1>10, <1>11
  <2>2. \A n \in 1..left : rest[n] \in few
    BY <1>10, <1>12, <2>1
  <2>3. ASSUME NEW e \in few PROVE \E n \in 1..left : rest[n] = e
    <3>1. PICK m \in 1..len : list[m] = e
      BY <1>2, <2>0
    <3>2. PICK n \in 1..left : m = overflow + n
      <4>1. m > overflow
        BY <1>10, <3>1
      <4>2. m - overflow \in 1..left /\ m = overflow + (m - overflow)
        BY <1>10, <1>11, <4>1
      <4> QED BY <4>2
    <3> QED BY <1>12, <3>1, <3>2
  <2>4. ASSUME NEW n \in 1..left, NEW m \in 1..left PROVE Older(rest[n], rest[m]) <=> n < m
    <3>1. rest[n] = list[overflow + n] /\ rest[m] = list[overflow + m]
      BY <1>12
    <3>2. Older(list[overflow + n], list[overflow + m]) <=> overflow + n < overflow + m
      BY <2>0, <2>1
    <3>3. overflow + n < overflow + m <=> n < m
      BY <1>10
    <3> QED BY <3>1, <3>2, <3>3
  <2> QED BY <1>12, <2>2, <2>3, <2>4 DEF ByAge
<1> DEFINE From(n) == {rest[m] : m \in n..left}
<1>14. ASSUME NEW n \in 1..left PROVE {rest[n]} \union Younger(few, rest[n]) = From(n)
  <2>1. few \in SUBSET DOMAIN cached
    BY <1>2
  <2>2. {rest[n]} \union Younger(few, rest[n]) = {rest[m] : m \in n..left}
    <3> HIDE DEF From
    <3> QED BY <1>13, <2>1, LaterRows
  <2> QED BY <2>2
<1>15. ASSUME NEW n \in 1..(left + 1), NEW m \in 1..(left + 1), n <= m
       PROVE  Bytes(From(m)) \in Nat /\ Bytes(From(m)) <= Bytes(From(n)) /\ Bytes(From(n)) \in Nat
  <2>1. \A k : k \in m..left => k \in n..left
    BY <1>15
  <2>2. \A k \in n..left : rest[k] \in DOMAIN cached
    BY <1>2, <1>13 DEF ByAge
  <2>3. From(m) \in SUBSET From(n) /\ From(n) \in SUBSET DOMAIN cached
    BY <2>1, <2>2
  <2> HIDE DEF From
  <2> QED BY <2>3, BytesFacts
<1>16. fits = {idx \in 0..left : Bytes(From(idx + 1)) <= policy.maxBytes}
  BY <1>12
<1> HIDE DEF fits
<1>17. ASSUME policy.maxBytes # Unlimited
       PROVE  evicted \in fits /\ \A j \in fits : evicted <= j
  <2>1. left \in fits
    <3>1. (left + 1)..left = {}
      OBVIOUS
    <3>2. From(left + 1) = {}
      BY <3>1
    <3>3. Bytes({}) = 0
      BY BytesFacts
    <3> HIDE DEF From
    <3> QED BY <1>3, <1>16, <1>17, <3>2, <3>3
  <2>2. fits \in SUBSET Int /\ IsFiniteSet(fits)
    <3>1. fits \in SUBSET (0..left) /\ 0 \in Int /\ left \in Int
      BY <1>16
    <3>2. IsFiniteSet(0..left)
      BY <3>1, FS_Interval
    <3>3. IsFiniteSet(fits)
      BY <3>1, <3>2, FS_Subset
    <3>4. fits \in SUBSET Int
      BY <3>1
    <3> QED BY <3>3, <3>4
  <2>3. \E x \in fits : \A y \in fits : x <= y
    BY <2>1, <2>2, LeastExists
  <2> QED BY <1>17, <2>3
<1>18. evicted \in 0..left
  BY <1>16, <1>17
<1>19. ASSUME NEW n \in 1..left
       PROVE  n > evicted <=> policy.maxBytes = Unlimited \/ Bytes(From(n)) <= policy.maxBytes
  <2>1. CASE policy.maxBytes = Unlimited
    BY <2>1
  <2>2. CASE policy.maxBytes # Unlimited
    <3>1. ASSUME n > evicted PROVE Bytes(From(n)) <= policy.maxBytes
      <4>1. PICK k : k = evicted + 1
        <5> HIDE DEF evicted
        <5> QED OBVIOUS
      <4>2. k \in 1..(left + 1) /\ n \in 1..(left + 1) /\ k <= n
        <5> HIDE DEF evicted
        <5> QED BY <1>18, <3>1, <4>1
      <4>3. Bytes(From(k)) <= policy.maxBytes
        BY <1>16, <1>17, <2>2, <4>1
      <4>4. Bytes(From(n)) \in Nat /\ Bytes(From(n)) <= Bytes(From(k)) /\ Bytes(From(k)) \in Nat
        BY <1>15, <4>2
      <4> HIDE DEF From
      <4> QED BY <1>3, <2>2, <4>3, <4>4
    <3>2. ASSUME Bytes(From(n)) <= policy.maxBytes PROVE n > evicted
      <4>1. n - 1 \in 0..left /\ (n - 1) + 1 = n
        OBVIOUS
      <4>2. n - 1 \in fits
        BY <1>16, <3>2, <4>1
      <4>3. evicted <= n - 1
        BY <1>17, <2>2, <4>2
      <4> HIDE DEF evicted
      <4> QED BY <1>18, <4>3
    <3> QED BY <2>2, <3>1, <3>2
  <2> QED BY <2>1, <2>2
<1> HIDE DEF evicted
<1>20. kept = WithinBytes(policy)
  <2>1. \A n \in 1..left : n \in (evicted + 1)..left <=> rest[n] \in WithinBytes(policy)
    <3> TAKE n \in 1..left
    <3>1. n \in (evicted + 1)..left <=> n > evicted
      BY <1>18
    <3>2. rest[n] \in few /\ {rest[n]} \union Younger(few, rest[n]) = From(n)
      BY <1>13, <1>14 DEF ByAge
    <3> HIDE DEF From
    <3> QED BY <1>5, <1>19, <3>1, <3>2
  <2>2. ASSUME NEW e \in kept PROVE e \in WithinBytes(policy)
    <3>1. PICK n \in (evicted + 1)..left : e = rest[n]
      BY <1>12, <2>2
    <3>2. n \in 1..left
      BY <1>18
    <3> QED BY <2>1, <3>1, <3>2
  <2>3. ASSUME NEW e \in WithinBytes(policy) PROVE e \in kept
    <3>1. PICK n \in 1..left : rest[n] = e
      BY <1>5, <1>13, <2>3 DEF ByAge
    <3> QED BY <1>12, <2>1, <2>3, <3>1
  <2> QED BY <2>2, <2>3
<1> HIDE DEF kept
<1>21. cached' = [e \in kept |-> cached[e]]
  <2>1. kept \subseteq DOMAIN cached
    BY <1>2, <1>5, <1>20
  <2>2. DOMAIN cached \ (DOMAIN cached \ kept) = kept
    BY <2>1
  <2> QED BY <1>1, <2>2 DEF Delete
<1> QED BY <1>20, <1>21, MemoryPrunes DEF Memory!Prune, Memory!Keep

\* The cache, the records and the queue.
LEMMA CacheIs ==
  ASSUME CacheTyped, SqlCacheNext PROVE Memory!CacheNext
<1>1. ASSUME NEW e, NEW at, NEW size, SqlPutCache(e, at, size) PROVE Memory!PutCache(e, at, size)
  BY <1>1 DEF SqlPutCache, Upsert, Memory!PutCache
<1>2. ASSUME NEW e, SqlRemoveCache(e) PROVE Memory!RemoveCache(e)
  BY <1>2 DEF SqlRemoveCache, Delete, Memory!RemoveCache, Memory!Keep
<1>3. ASSUME NEW book, SqlClearCache(book) PROVE Memory!ClearCache(book)
  BY <1>3 DEF SqlClearCache, Delete, Memory!ClearCache, Memory!BookEntries, Memory!Keep
<1>4. Memory!Policies = Policies
  BY DEF Policies, Memory!Policies
<1> QED BY <1>1, <1>2, <1>3, <1>4, PruneIs DEF SqlCacheNext, Memory!CacheNext

LEMMA RecordsIs ==
  ASSUME SqlRecordsNext PROVE Memory!RecordsNext
<1>1. ASSUME NEW kind, NEW id, SqlPutRecord(kind, id) PROVE Memory!PutRecord(kind, id)
  BY <1>1, StoreAssumption DEF SqlPutRecord, Memory!PutRecord
<1>2. ASSUME NEW kind, NEW id, SqlDeleteRecord(kind, id) PROVE Memory!DeleteRecord(kind, id)
  BY <1>2 DEF SqlDeleteRecord, Memory!DeleteRecord
<1> QED BY <1>1, <1>2 DEF SqlRecordsNext, Memory!RecordsNext

\* The queue of either backend is the same module.
LEMMA MemoryQueue ==
  /\ QueueNext => Memory!QueueNext
  /\ \A backup : RestoreQueue(backup) => Memory!RestoreQueue(backup)
  /\ QueueInit => Memory!QueueInit
<1>1. \A k, p, l, created, now : Enqueue(k, p, l, created, now) => Memory!Enqueue(k, p, l, created, now)
  BY DEF Enqueue, Enqueued, ValidTask, With, HeldKeys,
         Memory!Enqueue, Memory!Enqueued, Memory!ValidTask, Memory!With, Memory!HeldKeys
<1>2. \A k : NextClaim(k) => Memory!NextClaim(k)
  BY DEF NextClaim, Claimable, ClaimedBefore, Memory!NextClaim, Memory!Claimable, Memory!ClaimedBefore
<1>3. \A w, k, now : Claim(w, k, now) => Memory!Claim(w, k, now)
  BY <1>2 DEF Claim, Memory!Claim
<1>4. \A k, status, now : Memory!Marked(k, status, now) = Marked(k, status, now)
  BY DEF Marked, Memory!Marked
<1>5. \A w, now : /\ Complete(w, now) => Memory!Complete(w, now)
                  /\ Fail(w, now) => Memory!Fail(w, now)
  BY <1>4 DEF Complete, Fail, Memory!Complete, Memory!Fail
<1>6. \A k, now : Cancel(k, now) => Memory!Cancel(k, now)
  BY <1>4 DEF Cancel, Memory!Cancel
<1>7. \A book : ClearFinished(book) => Memory!ClearFinished(book)
  BY DEF ClearFinished, Finished, Memory!ClearFinished, Memory!Finished
<1>8. Crash => Memory!Crash
  BY DEF Crash, HeldKeys, Memory!Crash, Memory!HeldKeys
<1>9. \A backup : RestoreQueue(backup) => Memory!RestoreQueue(backup)
  BY DEF RestoreQueue, HeldKeys, Memory!RestoreQueue, Memory!HeldKeys
<1>10. QueueInit => Memory!QueueInit
  BY DEF QueueInit, Memory!QueueInit
<1>11. QueueNext => Memory!QueueNext
  BY <1>1, <1>3, <1>5, <1>6, <1>7, <1>8 DEF QueueNext, Memory!QueueNext
<1> QED BY <1>9, <1>10, <1>11

-----------------------------------------------------------------------------
\* A snapshot: exported, and restored.
LEMMA ShiftedDown ==
  ASSUME NEW numbers \in SUBSET Int, IsFiniteSet(numbers)
  PROVE  Cardinality({n - 1 : n \in numbers}) = Cardinality(numbers)
<1> DEFINE T == {n - 1 : n \in numbers}
           f == [n \in numbers |-> n - 1]
<1>1. f \in Surjection(numbers, T)
  BY DEF Surjection
<1>2. f \in Injection(numbers, T)
  <2>1. \A n, m \in numbers : f[n] = f[m] => n = m
    <3> SUFFICES ASSUME NEW n \in numbers, NEW m \in numbers, f[n] = f[m] PROVE n = m
      OBVIOUS
    <3>1. n - 1 = m - 1 /\ n \in Int /\ m \in Int
      OBVIOUS
    <3> QED BY <3>1
  <2>2. f \in [numbers -> T]
    OBVIOUS
  <2> HIDE DEF f, T
  <2> QED BY <2>1, <2>2 DEF Injection, IsInjective
<1> HIDE DEF T, f
<1>3. Cardinality(T) = Cardinality(numbers)
  BY <1>1, <1>2, FS_Surjection
<1> QED BY <1>3 DEF T

\* The rows of a snapshot's histories, read back: the saves of each book in their order.
LEMMA RestoredLog ==
  ASSUME NEW snap, Exported(snap), SqlReplace(snap), TablesTyped', NEW b \in Books
  PROVE  LogOf(b)' = Memory!HistoryIn(snap, b)
<1> DEFINE H == snap.history
           mine == {n \in DOMAIN H : H[n].book = b}
           key == [n \in mine |-> <<n>>]
           order == Sorted(mine, key)
           list == [i \in DOMAIN order |-> H[order[i]].entry]
<1>1. /\ Len(H) \in Nat /\ DOMAIN H = 1..Len(H)
  <2> DEFINE T == [book : Books, entry : Progress]
  <2>1. H \in Seq(T)
    BY DEF Exported
  <2> HIDE DEF H, T
  <2> QED BY <2>1
<1>2. Memory!HistoryIn(snap, b) = list
  <2>1. Memory!Sorted(mine, key) = order
    <3> HIDE DEF mine, key
    <3> QED BY MemorySorts
  <2>2. Memory!HistoryIn(snap, b) =
          [i \in DOMAIN Memory!Sorted(mine, key) |-> H[Memory!Sorted(mine, key)[i]].entry]
    BY DEF Memory!HistoryIn
  <2> HIDE DEF order, mine, key, H
  <2> QED BY <2>1, <2>2
<1>3. /\ DOMAIN log' = {<<H[n].book, n - 1>> : n \in DOMAIN H}
      /\ \A x \in DOMAIN log' : log'[x] = H[x[2] + 1].entry
  BY DEF SqlReplace
<1> HIDE DEF H
<1>4. mine \in SUBSET Int /\ IsFiniteSet(mine)
  <2>1. mine \in SUBSET (DOMAIN H) /\ DOMAIN H \subseteq Int
    BY <1>1
  <2>2. IsFiniteSet(DOMAIN H)
    BY <1>1, FS_Interval
  <2>3. IsFiniteSet(mine)
    BY <2>1, <2>2, FS_Subset
  <2> QED BY <2>1, <2>3
<1>5. \A n, m \in mine : LexLess(key[n], key[m]) <=> n < m
  <2>1. ASSUME NEW n, NEW m PROVE LexLess(<<n>>, <<m>>) <=> n < m
    <3>1. PICK x : x = <<n>>
      OBVIOUS
    <3>2. PICK y : y = <<m>>
      OBVIOUS
    <3>3. DOMAIN x = 1..1 /\ x[1] = n /\ y[1] = m
      BY <3>1, <3>2
    <3>4. LexLess(x, y) <=> x[1] < y[1] /\ \A i \in 1..0 : x[i] = y[i]
      BY <3>3 DEF LexLess
    <3> QED BY <3>1, <3>2, <3>3, <3>4
  <2> QED BY <2>1
<1> HIDE DEF mine, key
<1>6. /\ DOMAIN order = 1..Cardinality(mine) /\ Cardinality(mine) \in Nat
      /\ \A i \in 1..Cardinality(mine) : order[i] \in mine
      /\ \A n \in mine : \E i \in 1..Cardinality(mine) : order[i] = n
      /\ \A i \in 1..Cardinality(mine) :
           Cardinality({m \in mine : LexLess(key[m], key[order[i]])}) = i - 1
  <2>1. \A x, y, z \in mine :
          /\ ~LexLess(key[x], key[x])
          /\ x = y \/ LexLess(key[x], key[y]) \/ LexLess(key[y], key[x])
          /\ LexLess(key[x], key[y]) /\ LexLess(key[y], key[z]) => LexLess(key[x], key[z])
    BY <1>4, <1>5
  <2> QED BY <1>4, <2>1, SortedPlaces
<1> HIDE DEF order
<1>7. \A i \in 1..Cardinality(mine) : Before(mine, order[i]) = i - 1
  <2> TAKE i \in 1..Cardinality(mine)
  <2>1. {m \in mine : LexLess(key[m], key[order[i]])} = {m \in mine : m < order[i]}
    BY <1>5, <1>6
  <2> QED BY <1>6, <2>1 DEF Before
<1>8. PICK numbers : numbers = Numbers(b)'
  OBVIOUS
<1>9. /\ \A n : n \in numbers <=> Saved(b, n)'
      /\ \A s : /\ s = [i \in 1..Cardinality(numbers) |-> s[i]]
                /\ \A n \in numbers : s[Before(numbers, n) + 1] = log'[<<b, n>>]
                => s = LogOf(b)'
  BY <1>8, LogIsViewNext DEF LogView
<1>10. numbers = {n - 1 : n \in mine}
  <2>1. \A m : <<b, m>> \in DOMAIN log' <=> \E n \in DOMAIN H : H[n].book = b /\ m = n - 1
    BY <1>3
  <2>2. \A m : m \in numbers <=> \E n \in mine : m = n - 1
    BY <1>9, <2>1 DEF Saved, mine
  <2> QED BY <2>2
<1>11. Cardinality(numbers) = Cardinality(mine)
  BY <1>4, <1>10, ShiftedDown
<1>12. ASSUME NEW n \in mine PROVE Before(numbers, n - 1) = Before(mine, n)
  <2> DEFINE lower == {m \in mine : m < n}
  <2>1. {k \in numbers : k < n - 1} = {m - 1 : m \in lower}
    <3>1. \A m \in mine : m - 1 < n - 1 <=> m < n
      BY <1>4
    <3> QED BY <1>10, <3>1
  <2>2. lower \in SUBSET Int /\ IsFiniteSet(lower)
    <3>1. lower \in SUBSET mine
      OBVIOUS
    <3>2. IsFiniteSet(lower)
      BY <1>4, <3>1, FS_Subset
    <3> QED BY <1>4, <3>1, <3>2
  <2>3. Before(numbers, n - 1) = Cardinality({m - 1 : m \in lower})
    BY <2>1 DEF Before
  <2>4. Before(mine, n) = Cardinality(lower)
    BY DEF Before
  <2> HIDE DEF lower
  <2> QED BY <2>2, <2>3, <2>4, ShiftedDown
<1>13. ASSUME NEW k \in numbers PROVE list[Before(numbers, k) + 1] = log'[<<b, k>>]
  <2>1. PICK n \in mine : k = n - 1
    BY <1>10
  <2>2. PICK i \in 1..Cardinality(mine) : order[i] = n
    BY <1>6
  <2>3. Before(numbers, k) = i - 1 /\ (i - 1) + 1 = i
    BY <1>6, <1>7, <1>12, <2>1, <2>2
  <2>4. list[i] = H[n].entry
    BY <1>6, <2>2
  <2>5. log'[<<b, k>>] = H[n].entry
    <3>1. <<b, k>> \in DOMAIN log' /\ <<b, k>>[2] = k
      BY <1>9 DEF Saved
    <3>2. k + 1 = n
      BY <1>4, <2>1
    <3> QED BY <1>3, <3>1, <3>2
  <2> HIDE DEF list
  <2> QED BY <2>3, <2>4, <2>5
<1>14. list = [i \in 1..Cardinality(numbers) |-> list[i]]
  BY <1>6, <1>11
<1> HIDE DEF list
<1> QED BY <1>2, <1>9, <1>13, <1>14

\* What is restored stands for the snapshot.
LEMMA ReplaceIs ==
  ASSUME Typed, NEW snap, Exported(snap), SqlReplace(snap)
  PROVE  Memory!Replace(snap)
<1> DEFINE legacyRows == {<<LegacySource, id>> : id \in DOMAIN snap.legacy}
           ownRows == {RowOf(b) : b \in DOMAIN snap.reading}
           booksAt(r) == {b \in DOMAIN snap.reading : RowOf(b) = r}
           rowAt(r) == IF booksAt(r) # {} THEN snap.reading[CHOOSE b \in booksAt(r) : TRUE]
                       ELSE [chapter |-> snap.legacy[r[2]], at |-> 0]
<1>1. rows' = [r \in legacyRows \union ownRows |-> rowAt(r)]
  BY DEF SqlReplace
<1>2. /\ snap.legacy = [id \in DOMAIN snap.legacy |-> snap.legacy[id]]
      /\ DOMAIN snap.reading \subseteq Books
      /\ snap.reading = [b \in DOMAIN snap.reading |-> snap.reading[b]]
  BY DEF Exported
<1>3. LegacyProgress' = snap.legacy
  <2>1. ASSUME NEW id PROVE <<LegacySource, id>> \in DOMAIN rows' <=> id \in DOMAIN snap.legacy
    <3>1. <<LegacySource, id>> \notin ownRows
      BY <1>2, RowsDiffer DEF Typed, PlainNames
    <3>2. <<LegacySource, id>> \in legacyRows <=> id \in DOMAIN snap.legacy
      OBVIOUS
    <3> HIDE DEF ownRows, legacyRows, rowAt
    <3> QED BY <1>1, <3>1, <3>2
  <2>2. LegacyIds' = DOMAIN snap.legacy
    BY <2>1, RowsViewNext DEF RowView, Typed
  <2>3. ASSUME NEW id \in DOMAIN snap.legacy
        PROVE  rows'[<<LegacySource, id>>].chapter = snap.legacy[id]
    <3>1. PICK r : r = <<LegacySource, id>>
      OBVIOUS
    <3>2. booksAt(r) = {}
      BY <1>2, <3>1, RowsDiffer DEF Typed, PlainNames
    <3>3. rowAt(r) = [chapter |-> snap.legacy[id], at |-> 0]
      BY <3>1, <3>2
    <3>4. rowAt(r).chapter = snap.legacy[id]
      BY <3>3
    <3>5. rows'[r] = rowAt(r)
      <4>1. r \in legacyRows
        BY <3>1
      <4> HIDE DEF legacyRows, ownRows, rowAt
      <4> QED BY <1>1, <4>1
    <3> HIDE DEF rowAt
    <3> QED BY <3>1, <3>4, <3>5
  <2> QED BY <1>2, <2>2, <2>3 DEF LegacyProgress
<1>4. Current' = snap.reading
  <2>1. ASSUME NEW b \in Books
        PROVE  /\ RowOf(b) \in DOMAIN rows' <=> b \in DOMAIN snap.reading
               /\ b \in DOMAIN snap.reading => rows'[RowOf(b)] = snap.reading[b]
    <3>1. RowOf(b) \notin legacyRows
      BY RowsDiffer DEF Typed, PlainNames
    <3>2. RowOf(b) \in ownRows <=> b \in DOMAIN snap.reading
      BY <1>2, RowsDiffer
    <3>3. b \in DOMAIN snap.reading => booksAt(RowOf(b)) = {b}
      BY <1>2, RowsDiffer
    <3>4. b \in DOMAIN snap.reading => rowAt(RowOf(b)) = snap.reading[b]
      BY <3>3
    <3> HIDE DEF legacyRows, ownRows, booksAt, rowAt
    <3> QED BY <1>1, <3>1, <3>2, <3>4
  <2>2. \A b \in Books : RowOf(b)' = RowOf(b)
    BY DEF RowOf
  <2>3. ReadingBooks' = DOMAIN snap.reading
    BY <1>2, <2>1, <2>2, RowsViewNext DEF RowView, Typed
  <2>4. \A b \in DOMAIN snap.reading : rows'[RowOf(b)'] = snap.reading[b]
    BY <1>2, <2>1, <2>2
  <2> QED BY <1>2, <2>3, <2>4 DEF Current
<1>5. Hist' = [b \in Books |-> Memory!HistoryIn(snap, b)]
  <2>1. \A b \in Books : LogOf(b)' = Memory!HistoryIn(snap, b)
    BY RestoredLog DEF Typed
  <2>2. \A b \in Books : SourceOf[b] # LegacySource
    BY DEF Typed, PlainNames, Own
  <2> QED BY <2>1, <2>2 DEF Hist
<1>6. /\ Memory!ValidSnapshot(snap) /\ Memory!RestoreQueue(snap.queue)
      /\ cached' = snap.cached /\ shelf' = snap.shelf /\ records' = snap.records
  BY MemoryQueue DEF SqlReplace
<1> QED BY <1>3, <1>4, <1>5, <1>6 DEF Memory!Replace, LegacyProgress, Current, Hist

-----------------------------------------------------------------------------
LEMMA InitIs ==
  ASSUME PlainNames, SqlInit PROVE Memory!Init
<1>1. rows = [r \in {} |-> 0] /\ log = [x \in {} |-> 0] /\ DOMAIN rows = {} /\ DOMAIN log = {}
  BY DEF SqlInit
<1>2. LegacyIds = {} /\ ReadingBooks = {}
  BY <1>1 DEF LegacyIds, ReadingBooks
<1>3. LegacyProgress = [b \in {} |-> 0] /\ Current = [b \in {} |-> 0]
  BY <1>2 DEF LegacyProgress, Current
<1>4. ASSUME NEW b \in Books PROVE LogOf(b) = <<>>
  <2>1. TablesTyped
    BY SqlInitTables DEF TablesInv
  <2>2. Numbers(b) = {}
    BY <1>1 DEF Numbers
  <2>3. PICK list : list = LogOf(b)
    OBVIOUS
  <2>4. list \in Seq(Progress) /\ Len(list) = 0
    BY <2>1, <2>2, <2>3, LogIsView, FS_EmptySet DEF LogView
  <2>5. list = <<>>
    <3> DEFINE T == Progress
    <3>1. list \in Seq(T) /\ Len(list) = 0
      BY <2>4
    <3> HIDE DEF T
    <3> QED BY <3>1
  <2> QED BY <2>3, <2>5
<1>5. Hist = [b \in Books |-> <<>>]
  BY <1>4 DEF Hist
<1>6. Memory!QueueInit
  BY MemoryQueue DEF SqlInit
<1> QED BY <1>3, <1>5, <1>6
        DEF SqlInit, CacheInit, NothingCached, Memory!Init, Memory!CacheInit, Memory!NothingCached,
            Memory!ShelfInit, LegacyProgress, Current, Hist

LEMMA StepIs ==
  ASSUME PlainNames, QueueInv, TablesInv, TablesInv', [SqlNext]_sqlVars
  PROVE  [Memory!Next]_(Memory!storeVars)
<1>1. Typed /\ CacheTyped
  BY CacheIsTyped DEF Typed, TablesInv
<1>2. ASSUME UNCHANGED <<rows, log>>
      PROVE  LegacyProgress' = LegacyProgress /\ Current' = Current /\ Hist' = Hist
  BY <1>1, <1>2, ProgressUntouched
<1>3. CASE UNCHANGED sqlVars
  <2>1. LegacyProgress' = LegacyProgress /\ Current' = Current /\ Hist' = Hist
    BY <1>2, <1>3 DEF sqlVars
  <2> QED BY <1>3, <2>1 DEF sqlVars, queueVars, Memory!storeVars, Memory!queueVars, Memory!shelfVars,
          LegacyProgress, Current, Hist
<1>4. CASE SqlNext
  <2>1. UNCHANGED menu
    BY <1>4 DEF SqlNext
  <2>2. CASE "queue" \in menu /\ SqlQueueNext /\ UNCHANGED <<cached, shelf, rows, log, records>>
    <3>1. Memory!QueueNext
      BY <2>2, QueueImplements, MemoryQueue DEF QueueInv
    <3>2. LegacyProgress' = LegacyProgress /\ Current' = Current /\ Hist' = Hist
      BY <1>2, <2>2
    <3> QED BY <2>1, <2>2, <3>1, <3>2 DEF Memory!Next, Memory!shelfVars, LegacyProgress, Current, Hist
  <2>3. CASE "cache" \in menu /\ SqlCacheNext /\ UNCHANGED <<queueVars, shelf, rows, log, records>>
    <3>1. Memory!CacheNext
      BY <1>1, <2>3, CacheIs
    <3>2. LegacyProgress' = LegacyProgress /\ Current' = Current /\ Hist' = Hist
      BY <1>2, <2>3
    <3> QED BY <2>1, <2>3, <3>1, <3>2
            DEF Memory!Next, queueVars, Memory!queueVars, Memory!shelfVars, LegacyProgress, Current, Hist
  <2>4. CASE "shelf" \in menu /\ SqlShelfNext /\ UNCHANGED <<queueVars, cached, records>>
    <3>1. Memory!ShelfNext
      BY <1>1, <2>4, ShelfIs
    <3> QED BY <2>1, <2>4, <3>1 DEF Memory!Next, queueVars, Memory!queueVars
  <2>5. CASE "records" \in menu /\ SqlRecordsNext /\ UNCHANGED <<queueVars, cached, shelf, rows, log>>
    <3>1. Memory!RecordsNext
      BY <2>5, RecordsIs
    <3>2. LegacyProgress' = LegacyProgress /\ Current' = Current /\ Hist' = Hist
      BY <1>2, <2>5
    <3> QED BY <2>1, <2>5, <3>1, <3>2
            DEF Memory!Next, queueVars, Memory!queueVars, Memory!shelfVars, LegacyProgress, Current, Hist
  <2>6. ASSUME "restore" \in menu, NEW snap \in Backups \union {Memory!Snapshot}, SqlReplace(snap)
        PROVE  Memory!Next
    <3>1. Exported(snap)
      BY BackupAssumption, SnapshotExported DEF QueueInv
    <3>2. Memory!Replace(snap)
      BY <1>1, <2>6, <3>1, ReplaceIs
    <3> QED BY <2>1, <2>6, <3>2 DEF Memory!Next
  <2> QED BY <1>4, <2>2, <2>3, <2>4, <2>5, <2>6 DEF SqlNext
<1> QED BY <1>3, <1>4

\* For any books, chapters, tasks, records and backups, where the books have sources of
\* their own and group names need no trimming: every call does to the tables what the
\* call of the same name does to InMemoryStorage.
THEOREM TablesImplementMemory ==
  ASSUME PlainNames PROVE SqlSpec => InMemorySpec
<1>1. SqlInit => Memory!Init
  BY InitIs
<1>2. (QueueInv /\ TablesInv) /\ (QueueInv /\ TablesInv)' /\ [SqlNext]_sqlVars
      => [Memory!Next]_(Memory!storeVars)
  BY StepIs
<1> QED BY <1>1, <1>2, AlwaysTablesInv, PTL DEF SqlSpec, InMemorySpec, Memory!Spec

===============================================================================
