----------------------------- MODULE ReaderStore -----------------------------
(***************************************************************************)
(* InMemoryStorage of reader-storage: the shelf and the progress, the      *)
(* cached chapters, the download queue and the plain keyed records, behind *)
(* one lock, with export to and replacement by a snapshot.                 *)
(*                                                                         *)
(* Every call holds the lock from its first read to its last write, so a   *)
(* call is one step.  Calls that only read are the operators they return.  *)
(***************************************************************************)
EXTENDS ReadingShelf, ChapterCache, DownloadQueue

VARIABLES
  records,      \* the ids that are there, by kind
  menu          \* bound: the family of calls of this behaviour

storeVars == <<queueVars, cached, shelfVars, records, menu>>

Init ==
  /\ QueueInit /\ CacheInit /\ ShelfInit
  /\ records = [kind \in Kinds |-> {}]
  /\ menu \in Menus

(* ------------------------- the keyed records --------------------------- *)

\* put_source, put_book and put_cache take any key, put_dict_rule and
\* put_read_record refuse a blank one.
PutRecord(kind, id) ==
  /\ kind \in Checked => id # Blank
  /\ records' = [records EXCEPT ![kind] = @ \union {id}]

DeleteRecord(kind, id) ==
  /\ kind \in Deletable
  /\ records' = [records EXCEPT ![kind] = @ \ {id}]

(* ----------------------------- snapshots ------------------------------- *)

\* All histories in one list, by book, time and position (sort_storage_snapshot).
Saves(hist) == UNION {{<<b, i>> : i \in DOMAIN hist[b]} : b \in Books}
SaveOf(hist, x) == hist[x[1]][x[2]]
SaveKey(hist, x) == <<x[1], SaveOf(hist, x).at, SaveOf(hist, x).chapter, x[2]>>
SortedHistory(hist) ==
  LET order == Sorted(Saves(hist), [x \in Saves(hist) |-> SaveKey(hist, x)])
  IN [n \in DOMAIN order |-> [book |-> order[n][1], entry |-> SaveOf(hist, order[n])]]

Snapshot ==
  [queue |-> queue, cached |-> cached, shelf |-> shelf, legacy |-> legacy,
   reading |-> reading, history |-> SortedHistory(history), records |-> records]

\* StorageSnapshot::validate; the keys of a table are distinct by construction.
ValidSnapshot(snap) ==
  /\ \A k \in DOMAIN snap.queue : ValidTask(snap.queue[k])
  /\ \A kind \in Named : Blank \notin snap.records[kind]

\* The saves of a book, in the order of the snapshot.
HistoryIn(snap, b) ==
  LET mine == {n \in DOMAIN snap.history : snap.history[n].book = b}
      order == Sorted(mine, [n \in mine |-> <<n>>])
  IN [i \in DOMAIN order |-> snap.history[order[i]].entry]

Replace(snap) ==
  /\ ValidSnapshot(snap)
  /\ RestoreQueue(snap.queue)
  /\ cached' = snap.cached /\ shelf' = snap.shelf /\ legacy' = snap.legacy
  /\ reading' = snap.reading
  /\ history' = [b \in Books |-> HistoryIn(snap, b)]
  /\ records' = snap.records

(* ------------------------------- the store ----------------------------- *)

RecordsNext ==
  \/ \E kind \in Kinds, id \in Ids : PutRecord(kind, id)
  \/ \E kind \in Kinds, id \in Ids : DeleteRecord(kind, id)

Next ==
  /\ UNCHANGED menu
  /\ \/ "queue" \in menu /\ QueueNext /\ UNCHANGED <<cached, shelfVars, records>>
     \/ "cache" \in menu /\ CacheNext /\ UNCHANGED <<queueVars, shelfVars, records>>
     \/ "shelf" \in menu /\ ShelfNext /\ UNCHANGED <<queueVars, cached, records>>
     \/ "records" \in menu /\ RecordsNext /\ UNCHANGED <<queueVars, cached, shelfVars>>
     \/ "restore" \in menu /\ \E snap \in Backups \union {Snapshot} : Replace(snap)

Spec == Init /\ [][Next]_storeVars

(* ------------------------------ properties ----------------------------- *)

TypeOK ==
  /\ QueueTypeOK /\ CacheTypeOK /\ ShelfTypeOK
  /\ records \in [Kinds -> SUBSET Ids]
=============================================================================
