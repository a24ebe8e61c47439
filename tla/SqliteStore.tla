----------------------------- MODULE SqliteStore -----------------------------
(***************************************************************************)
(* SqliteStorage of reader-storage: the same calls as InMemoryStorage on   *)
(* the tables of a database.                                               *)
(*                                                                         *)
(* One connection behind a mutex; a call that writes more than one row is  *)
(* one transaction, so a call is one step and a crash loses no part of it. *)
(* Two tables are laid out differently: the progress of the older model    *)
(* lives in reading_progress under a source of its own, and a history is   *)
(* the rows of a book in the order of their numbers.                       *)
(***************************************************************************)
EXTENDS DownloadQueue, ChapterCache, StoreData, Sequences

CONSTANT LegacySource   \* the source id the rows of the older model are stored under

\* What a store writes (export_snapshot): rows of the right types, and with the
\* history of a book its newest progress.
Exported(snap) ==
  /\ IsFiniteSet(DOMAIN snap.queue) /\ DOMAIN snap.queue \subseteq Tasks
  /\ snap.queue \in [DOMAIN snap.queue -> Task]
  /\ IsFiniteSet(DOMAIN snap.cached) /\ DOMAIN snap.cached \subseteq Entries
  /\ snap.cached \in [DOMAIN snap.cached -> [at : Stamps, size : Sizes]]
  /\ DOMAIN snap.shelf \subseteq Books /\ snap.shelf \in [DOMAIN snap.shelf -> ShelfEntry]
  /\ snap.legacy \in [DOMAIN snap.legacy -> Chapters]
  /\ DOMAIN snap.reading \subseteq Books /\ snap.reading \in [DOMAIN snap.reading -> Progress]
  /\ snap.history \in Seq([book : Books, entry : Progress])
  /\ snap.records \in [Kinds -> SUBSET Ids]
  /\ \A b \in Books :
       LET saves == {snap.history[n].entry : n \in {m \in DOMAIN snap.history : snap.history[m].book = b}}
       IN /\ saves # {} => b \in DOMAIN snap.reading
          /\ b \in DOMAIN snap.reading => /\ snap.reading[b] \in saves
                                         /\ \A entry \in saves : entry.at <= snap.reading[b].at

ASSUME BackupAssumption == \A snap \in Backups : Exported(snap)

VARIABLES
  shelf,        \* bookshelf
  rows,         \* reading_progress, by source and book id
  log,          \* reading_progress_history, by book and number
  records,      \* the ids in the other tables, by kind
  menu          \* bound: the family of calls of this behaviour

sqlVars == <<queueVars, cached, shelf, rows, log, records, menu>>

RowOf(b) == <<SourceOf[b], IdOf[b]>>

(* ------------------- what the tables stand for ------------------------- *)

LegacyIds == {r[2] : r \in {x \in DOMAIN rows : x[1] = LegacySource}}
Numbers(b) == {row[2] : row \in {x \in DOMAIN log : x[1] = b}}
\* SELECT ... ORDER BY seq
LogOf(b) ==
  LET numbers == Numbers(b)
      Nth(i) == CHOOSE n \in numbers : Cardinality({m \in numbers : m < n}) = i - 1
  IN [i \in 1..Cardinality(numbers) |-> log[<<b, Nth(i)>>]]
ReadingBooks == {b \in Books : SourceOf[b] # LegacySource /\ RowOf(b) \in DOMAIN rows}

Memory == INSTANCE ReaderStore WITH
  legacy <- [id \in LegacyIds |-> rows[<<LegacySource, id>>].chapter],
  reading <- [b \in ReadingBooks |-> rows[RowOf(b)]],
  history <- [b \in Books |-> IF SourceOf[b] = LegacySource THEN <<>> ELSE LogOf(b)]

\* INSERT OR REPLACE, DELETE ... WHERE, UPDATE ... WHERE.
Upsert(table, k, row) == [x \in DOMAIN table \union {k} |-> IF x = k THEN row ELSE table[x]]
Delete(table, keys) == [x \in DOMAIN table \ keys |-> table[x]]

(* --------------------- chapter_download_queue -------------------------- *)

SqlEnqueue(k, p, l, created, now) ==
  LET stored == {queue[x].created : x \in DOMAIN queue \intersect {k}}
      row == [priority |-> p, status |-> "Pending", attempts |-> 0, limit |-> l, updated |-> now,
              created |-> IF stored = {} THEN created ELSE CHOOSE t \in stored : TRUE]
  IN /\ ValidTask(row)
     /\ queue' = Upsert(queue, k, row)
     /\ requeued' = requeued \union ({k} \intersect HeldKeys)
     /\ UNCHANGED <<held, lost>>

\* Mutants: a task that used up its attempts is tried again; one in progress is
\* handed out again; one that failed is not tried again.
Candidates_Unlimited == {k \in DOMAIN queue : queue[k].status \in {"Pending", "Failed"}}
Candidates_Unfinished ==
  {k \in DOMAIN queue : queue[k].status \notin {"Completed", "Cancelled"}
                        /\ queue[k].attempts < queue[k].limit}
Candidates_PendingOnly ==
  {k \in DOMAIN queue : queue[k].status = "Pending" /\ queue[k].attempts < queue[k].limit}

\* WHERE status IN ('pending', 'failed') AND attempts < max_attempts
Candidates ==
  {k \in DOMAIN queue : queue[k].status \in {"Pending", "Failed"}
                        /\ queue[k].attempts < queue[k].limit}

\* ORDER BY priority DESC, updated_at ASC, created_at ASC, key ASC LIMIT 1
ClaimKey(k) == <<-queue[k].priority, queue[k].updated, queue[k].created, k>>
FirstCandidate == CHOOSE k \in Candidates :
                    \A j \in Candidates \ {k} : LexLess(ClaimKey(k), ClaimKey(j))

SqlClaim(w, now) ==
  /\ held[w] = None
  /\ Candidates # {}
  /\ queue' = Upsert(queue, FirstCandidate,
       [queue[FirstCandidate] EXCEPT !.status = "InProgress", !.attempts = @ + 1, !.updated = now])
  /\ held' = [held EXCEPT ![w] = FirstCandidate]
  /\ lost' = lost \ {FirstCandidate}
  /\ UNCHANGED requeued

\* Mutant: the last attempt is not reported.
UpdateTask_SkipsLast(k, status, now) ==
  queue' = [x \in DOMAIN queue |->
              IF x = k /\ queue[x].attempts < queue[x].limit
              THEN [queue[x] EXCEPT !.status = status, !.updated = now] ELSE queue[x]]

\* SELECT, change, UPDATE of one row; nothing when the row is not there.
UpdateTask(k, status, now) ==
  queue' = [x \in DOMAIN queue |->
              IF x = k THEN [queue[x] EXCEPT !.status = status, !.updated = now] ELSE queue[x]]

SqlReport(w, now) ==
  /\ held[w] # None
  /\ \E status \in {"Completed", "Failed"} : UpdateTask(held[w], status, now)
  /\ held' = [held EXCEPT ![w] = None]
  /\ UNCHANGED <<lost, requeued>>

SqlCancel(k, now) ==
  /\ k \in DOMAIN queue
  /\ UpdateTask(k, "Cancelled", now)
  /\ UNCHANGED <<held, lost, requeued>>

SqlClearFinished(book) ==
  /\ queue' = Delete(queue, {k \in DOMAIN queue : BookOf[k] = book
                              /\ queue[k].status \in {"Completed", "Cancelled"}})
  /\ UNCHANGED <<held, lost, requeued>>

SqlQueueNext ==
  \/ \E k \in Tasks, p \in Priorities, l \in Limits, created \in Created, now \in Times :
       SqlEnqueue(k, p, l, created, now)
  \/ \E w \in Workers, now \in Times : SqlClaim(w, now)
  \/ \E w \in Workers, now \in Times : SqlReport(w, now)
  \/ \E k \in Tasks, now \in Times : SqlCancel(k, now)
  \/ \E book \in {BookOf[k] : k \in Tasks} : SqlClearFinished(book)
  \/ Crash

(* ----------------------------- chapter_cache --------------------------- *)

SqlPutCache(e, at, size) == cached' = Upsert(cached, e, [at |-> at, size |-> size])
SqlRemoveCache(e) == cached' = Delete(cached, {e})
SqlClearCache(book) == cached' = Delete(cached, {e \in DOMAIN cached : EntryBook[e] = book})

\* One walk over the rows, the oldest first: those too old, then as many of
\* the rest as there are too many, then from the front until the rest fits.
SqlPrune(policy) ==
  LET young == {e \in DOMAIN cached : policy.minAt # Unlimited => cached[e].at >= policy.minAt}
      remaining == Sorted(young, [e \in young |-> <<cached[e].at, e>>])
      overflow == IF policy.maxEntries = Unlimited \/ Len(remaining) < policy.maxEntries THEN 0
                  ELSE Len(remaining) - policy.maxEntries
      rest == SubSeq(remaining, overflow + 1, Len(remaining))
      fits == {idx \in 0..Len(rest) :
                 Bytes({rest[n] : n \in (idx + 1)..Len(rest)}) <= policy.maxBytes}
      evicted == IF policy.maxBytes = Unlimited THEN 0
                 ELSE CHOOSE idx \in fits : \A j \in fits : idx <= j
      kept == {rest[n] : n \in (evicted + 1)..Len(rest)}
  IN cached' = Delete(cached, DOMAIN cached \ kept)

SqlCacheNext ==
  \/ \E e \in Entries, at \in Stamps, size \in Sizes : SqlPutCache(e, at, size)
  \/ \E e \in Entries : SqlRemoveCache(e)
  \/ \E e \in Entries : SqlClearCache(EntryBook[e])
  \/ \E policy \in Policies : SqlPrune(policy)

(* --------------------- bookshelf and reading_progress ------------------ *)

SqlAddToShelf(b, entry) ==
  /\ shelf' = Upsert(shelf, b,
       IF b \in DOMAIN shelf THEN [entry EXCEPT !.added = shelf[b].added] ELSE entry)
  /\ UNCHANGED <<rows, log>>

SqlRemoveFromShelf(b) == shelf' = Delete(shelf, {b}) /\ UNCHANGED <<rows, log>>

\* UPDATE bookshelf SET last_read_at = ... WHERE ...
ShelfWithLastRead(b, t) ==
  [x \in DOMAIN shelf |-> IF x = b THEN [shelf[x] EXCEPT !.lastRead = t] ELSE shelf[x]]

SqlUpdateLastRead(b, t) ==
  /\ b \in DOMAIN shelf
  /\ shelf' = ShelfWithLastRead(b, t)
  /\ UNCHANGED <<rows, log>>

\* The group goes into the row as it is passed.
SqlMove(b, group, rank) ==
  /\ b \in DOMAIN shelf
  /\ shelf' = [shelf EXCEPT ![b].group = group, ![b].rank = rank]
  /\ UNCHANGED <<rows, log>>

\* Mutant: SELECT COUNT(*).
NextNumber_Count(b) == Cardinality(Numbers(b))

\* SELECT COALESCE(MAX(seq), -1) + 1
LastNumber(b) == CHOOSE n \in Numbers(b) : \A m \in Numbers(b) : m <= n
NextNumber(b) == IF Numbers(b) = {} THEN 0 ELSE LastNumber(b) + 1

\* Mutant: the last call wins.
SqlSaveReading_LastCall(b, entry) ==
  /\ Cardinality(Numbers(b)) < MaxSaves
  /\ log' = Upsert(log, <<b, NextNumber(b)>>, entry)
  /\ rows' = Upsert(rows, RowOf(b), entry) /\ shelf' = ShelfWithLastRead(b, entry.at)

SqlSaveReading(b, entry) ==
  /\ Cardinality(Numbers(b)) < MaxSaves
  /\ log' = Upsert(log, <<b, NextNumber(b)>>, entry)
  /\ IF RowOf(b) \in DOMAIN rows => entry.at >= rows[RowOf(b)].at
     THEN rows' = Upsert(rows, RowOf(b), entry) /\ shelf' = ShelfWithLastRead(b, entry.at)
     ELSE UNCHANGED <<rows, shelf>>

SqlClearReading(b) ==
  /\ rows' = Delete(rows, {RowOf(b)})
  /\ log' = Delete(log, {x \in DOMAIN log : x[1] = b})
  /\ shelf' = ShelfWithLastRead(b, Never)

SqlPutLegacy(id, chapter) ==
  /\ rows' = Upsert(rows, <<LegacySource, id>>, [chapter |-> chapter, at |-> 0])
  /\ UNCHANGED <<shelf, log>>

SqlShelfNext ==
  \/ \E new \in NewEntries : SqlAddToShelf(new.book, new.entry)
  \/ \E b \in Books : SqlRemoveFromShelf(b)
  \/ \E b \in Books, t \in Moments : SqlUpdateLastRead(b, t)
  \/ \E b \in Books, group \in Texts \union {NoGroup}, rank \in Ranks : SqlMove(b, group, rank)
  \/ \E b \in Books, entry \in Progress : SqlSaveReading(b, entry)
  \/ \E b \in Books : SqlClearReading(b)
  \/ \E b \in Books, chapter \in Chapters : SqlPutLegacy(IdOf[b], chapter)

(* ----------------------- records and snapshots ------------------------- *)

\* Every table with a text for its key refuses a blank one.
SqlPutRecord(kind, id) ==
  /\ kind \in Named => id # Blank
  /\ records' = [records EXCEPT ![kind] = @ \union {id}]

SqlDeleteRecord(kind, id) ==
  /\ kind \in Deletable
  /\ records' = [records EXCEPT ![kind] = @ \ {id}]

SqlRecordsNext ==
  \/ \E kind \in Kinds, id \in Ids : SqlPutRecord(kind, id)
  \/ \E kind \in Kinds, id \in Ids : SqlDeleteRecord(kind, id)

\* All tables are emptied and filled in one transaction; the rows of all
\* histories are numbered through, in the order of the snapshot.
SqlReplace(snap) ==
  /\ Memory!ValidSnapshot(snap)
  /\ RestoreQueue(snap.queue)
  /\ cached' = snap.cached /\ shelf' = snap.shelf /\ records' = snap.records
  /\ rows' = [r \in {<<LegacySource, id>> : id \in DOMAIN snap.legacy}
                      \union {RowOf(b) : b \in DOMAIN snap.reading} |->
                LET books == {b \in DOMAIN snap.reading : RowOf(b) = r}
                IN IF books # {} THEN snap.reading[CHOOSE b \in books : TRUE]
                   ELSE [chapter |-> snap.legacy[r[2]], at |-> 0]]
  /\ log' = [x \in {<<snap.history[n].book, n - 1>> : n \in DOMAIN snap.history} |->
               snap.history[x[2] + 1].entry]

(* ------------------------------- the store ----------------------------- *)

SqlInit ==
  /\ QueueInit /\ CacheInit
  /\ shelf = [b \in {} |-> 0] /\ rows = [r \in {} |-> 0] /\ log = [x \in {} |-> 0]
  /\ records = [kind \in Kinds |-> {}]
  /\ menu \in Menus

SqlNext ==
  /\ UNCHANGED menu
  /\ \/ "queue" \in menu /\ SqlQueueNext /\ UNCHANGED <<cached, shelf, rows, log, records>>
     \/ "cache" \in menu /\ SqlCacheNext /\ UNCHANGED <<queueVars, shelf, rows, log, records>>
     \/ "shelf" \in menu /\ SqlShelfNext /\ UNCHANGED <<queueVars, cached, records>>
     \/ "records" \in menu /\ SqlRecordsNext /\ UNCHANGED <<queueVars, cached, shelf, rows, log>>
     \/ "restore" \in menu /\ \E snap \in Backups \union {Memory!Snapshot} : SqlReplace(snap)

SqlSpec == SqlInit /\ [][SqlNext]_sqlVars

(* ------------------------------ properties ----------------------------- *)

\* Types: what the tables stand for is a store in memory.
TypeOK == Memory!TypeOK

\* The current progress of a book is the newest in its history, whatever the
\* order the saves of several devices arrive in; backups and restores keep it so.
ProgressIsNewest == Memory!ProgressIsNewest

\* A worker that is free claims what is there, and one that holds a task
\* reports some time: a fetch ends, by its own time limit if by nothing else.
FairWorkers ==
  \A w \in Workers :
    /\ WF_queueVars(\E now \in Times : "queue" \in menu /\ SqlClaim(w, now))
    /\ WF_queueVars(\E now \in Times : "queue" \in menu /\ SqlReport(w, now))

SqlFairSpec == SqlSpec /\ FairWorkers

\* What both backends promise: every call does to the tables what the call of
\* the same name does to InMemoryStorage, read through the mapping above.
InMemorySpec == Memory!Spec
=============================================================================
