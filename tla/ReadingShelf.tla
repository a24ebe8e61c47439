---------------------------- MODULE ReadingShelf ----------------------------
(***************************************************************************)
(* The bookshelf and the reading progress of reader-storage (in-memory     *)
(* backend).  A book is known by the pair of its source and its id; the    *)
(* progress of the older model ("legacy") is kept by the id alone.         *)
(***************************************************************************)
EXTENDS StoreData, FiniteSets, Sequences

VARIABLES
  shelf,        \* the books on the shelf
  legacy,       \* the position of the older model, by book id
  reading,      \* the current progress of a book
  history       \* every progress saved for a book, in the order of the calls

shelfVars == <<shelf, legacy, reading, history>>

Put(table, k, row) == [x \in DOMAIN table \union {k} |-> IF x = k THEN row ELSE table[x]]
Without(table, k) == [x \in DOMAIN table \ {k} |-> table[x]]

ShelfInit ==
  /\ shelf = [b \in {} |-> 0] /\ legacy = [b \in {} |-> 0]
  /\ reading = [b \in {} |-> 0] /\ history = [b \in Books |-> <<>>]

(* ------------------------------ the shelf ------------------------------ *)

\* A book that is on the shelf keeps the time it was added.
AddToShelf(b, entry) ==
  /\ shelf' = Put(shelf, b,
       IF b \in DOMAIN shelf THEN [entry EXCEPT !.added = shelf[b].added] ELSE entry)
  /\ UNCHANGED <<legacy, reading, history>>

RemoveFromShelf(b) ==
  /\ shelf' = Without(shelf, b)
  /\ UNCHANGED <<legacy, reading, history>>

SetLastRead(b, t) ==
  IF b \in DOMAIN shelf THEN [shelf EXCEPT ![b].lastRead = t] ELSE shelf

UpdateLastRead(b, t) ==
  /\ b \in DOMAIN shelf
  /\ shelf' = SetLastRead(b, t)
  /\ UNCHANGED <<legacy, reading, history>>

\* normalize_group: no group is a group, a blank name is refused.
Normalized(group) == IF group = NoGroup THEN NoGroup ELSE Trim[group]

Move(b, group, rank) ==
  /\ b \in DOMAIN shelf
  /\ Normalized(group) # Blank
  /\ shelf' = [shelf EXCEPT ![b].group = Normalized(group), ![b].rank = rank]
  /\ UNCHANGED <<legacy, reading, history>>

(* ----------------------------- the progress ---------------------------- *)

Advances(b, entry) == b \in DOMAIN reading => entry.at >= reading[b].at

\* Every save goes to the history; one that is not older than the current
\* progress takes its place and the shelf shows its time.
SaveReading(b, entry) ==
  /\ Len(history[b]) < MaxSaves
  /\ history' = [history EXCEPT ![b] = Append(@, entry)]
  /\ IF Advances(b, entry)
     THEN reading' = Put(reading, b, entry) /\ shelf' = SetLastRead(b, entry.at)
     ELSE UNCHANGED <<reading, shelf>>
  /\ UNCHANGED legacy

ClearReading(b) ==
  /\ reading' = Without(reading, b)
  /\ history' = [history EXCEPT ![b] = <<>>]
  /\ shelf' = SetLastRead(b, Never)
  /\ UNCHANGED legacy

PutLegacy(id, chapter) ==
  /\ legacy' = Put(legacy, id, chapter)
  /\ UNCHANGED <<shelf, reading, history>>

ShelfNext ==
  \/ \E new \in NewEntries : AddToShelf(new.book, new.entry)
  \/ \E b \in Books : RemoveFromShelf(b)
  \/ \E b \in Books, t \in Moments : UpdateLastRead(b, t)
  \/ \E b \in Books, group \in Texts \union {NoGroup}, rank \in Ranks : Move(b, group, rank)
  \/ \E b \in Books, entry \in Progress : SaveReading(b, entry)
  \/ \E b \in Books : ClearReading(b)
  \/ \E b \in Books, chapter \in Chapters : PutLegacy(IdOf[b], chapter)

(* ------------------------------ properties ----------------------------- *)

\* Types: an entry of the shelf, a progress and a history are what is stored.
ShelfTypeOK ==
  /\ DOMAIN shelf \subseteq Books /\ \A b \in DOMAIN shelf : shelf[b] \in ShelfEntry
  /\ DOMAIN reading \subseteq Books /\ \A b \in DOMAIN reading : reading[b] \in Progress
  /\ history \in [Books -> Seq(Progress)]
  /\ \A id \in DOMAIN legacy : legacy[id] \in Chapters

\* The current progress of a book is the newest in its history, whatever the
\* order the saves of several devices arrive in, and is there as soon as the
\* history is not empty; backups and restores keep it so.
ProgressIsNewest ==
  \A b \in Books :
    /\ history[b] # <<>> => b \in DOMAIN reading
    /\ b \in DOMAIN reading =>
         /\ \E i \in DOMAIN history[b] : history[b][i] = reading[b]
         /\ \A i \in DOMAIN history[b] : history[b][i].at <= reading[b].at
=============================================================================
