---------------------------- MODULE MCSqliteStore ----------------------------
(***************************************************************************)
(* Instances of SqliteStore, and of the InMemoryStorage it is compared     *)
(* with, for TLC.                                                          *)
(***************************************************************************)
EXTENDS SqliteStore

CONSTANTS w1, w2

\* Two books that have the same id in two sources.
Source == [b \in {1, 2} |-> IF b = 1 THEN "s1" ELSE "s2"]
Id == [b \in {1, 2} |-> "b"]

\* Two chapters of the first book and one of the second.
Owner == [e \in {1, 2, 3} |-> IF e = 3 THEN 2 ELSE 1]
Index == [e \in {1, 2, 3} |-> IF e = 2 THEN 1 ELSE 0]
NoEntry == [e \in {} |-> 0]

OneEntry ==
  {[book |-> 1, entry |-> [added |-> 1, lastRead |-> t, group |-> NoGroup, rank |-> 0]] : t \in {Never, 1}}

Trimmed == [text \in {"g", " g", " "} |-> IF text = " " THEN "" ELSE "g"]

NoRecords == [kind \in {"source", "book", "text", "dict", "record", "rule"} |-> {}]

\* What another device kept: histories of both books, one of them with two
\* saves of the same time, and a download it was in the middle of.
Backup ==
  [queue |-> [k \in {1} |-> [priority |-> 0, status |-> "InProgress", created |-> 1,
                             updated |-> 2, attempts |-> 1, limit |-> 2]],
   cached |-> NoEntry, shelf |-> NoEntry,
   legacy |-> [id \in {"b"} |-> 1],
   reading |-> [b \in {1, 2} |-> [chapter |-> 1, at |-> b]],
   history |-> << [book |-> 1, entry |-> [chapter |-> 0, at |-> 1]],
                  [book |-> 1, entry |-> [chapter |-> 1, at |-> 1]],
                  [book |-> 2, entry |-> [chapter |-> 1, at |-> 2]] >>,
   records |-> [NoRecords EXCEPT !["source"] = {"x"}]]

OneBackup == {Backup}

\* One family of calls at a time, and those that a backup can disturb with it.
ShelfOnly == {{"shelf"}}
Families == {{"queue"}, {"cache"}, {"shelf", "restore"}, {"records", "restore"}}
=============================================================================
