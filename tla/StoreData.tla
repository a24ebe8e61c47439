------------------------------ MODULE StoreData ------------------------------
(***************************************************************************)
(* What the shelf and the plain records of reader-storage are made of, in  *)
(* either backend.                                                         *)
(***************************************************************************)
EXTENDS Integers, FiniteSets

CONSTANTS
  Books,        \* the (source, book) keys, in their order
  NewEntries,   \* bound: the books and entries add_to_shelf is called with
  SourceOf,     \* the source of a key
  IdOf,         \* the book id of a key
  Chapters,     \* positions in a book: the progress, without its fractions
  Moments,      \* timestamps
  Texts,        \* group names as callers pass them...
  Trim,         \* ... and without the white space around them
  Blank,        \* the empty text
  NoGroup,
  Ranks,        \* values of sort_index
  MaxSaves,     \* bound on the length of a history
  Kinds,        \* the tables that are only put, read and deleted by key
  Named,        \* the kinds whose key is a text
  Checked,      \* the kinds whose put refuses a blank key
  Deletable,    \* the kinds that have a delete
  Ids,          \* keys of such records
  Backups,      \* snapshots of other stores
  Menus         \* bound: the families of calls a behaviour uses

Never == -1     \* last_read_at of a book that was not read

ShelfEntry == [added : Moments, lastRead : Moments \union {Never},
               group : Texts \union {NoGroup}, rank : Ranks]

Progress == [chapter : Chapters, at : Moments]

ASSUME ShelfAssumption ==
  /\ Books \subseteq Nat /\ \A a, b \in Books : SourceOf[a] = SourceOf[b] /\ IdOf[a] = IdOf[b] => a = b
  /\ Chapters \subseteq Nat /\ Moments \subseteq Nat /\ Ranks \subseteq Int
  /\ (\A text \in Texts : Trim[text] \in Texts \union {Blank}) /\ NoGroup \notin Texts
  /\ NewEntries \subseteq [book : Books, entry : ShelfEntry]
  /\ MaxSaves \in Nat

ASSUME StoreAssumption ==
  Named \subseteq Kinds /\ Checked \subseteq Named /\ Deletable \subseteq Kinds

(* ------------------------------ sorted lists --------------------------- *)

LexLess(x, y) == \E n \in DOMAIN x : x[n] < y[n] /\ \A m \in 1..(n - 1) : x[m] = y[m]

\* The members of a finite set in the order of their keys, which differ.
Sorted(set, key) ==
  LET rank == [x \in set |-> Cardinality({y \in set : LexLess(key[y], key[x])})]
  IN [n \in 1..Cardinality(set) |-> CHOOSE x \in set : rank[x] = n - 1]
=============================================================================
