----------------------------- MODULE RssLibrary -----------------------------
(***************************************************************************)
(* The RSS subscriptions of reader-rss and their entries: what a refresh   *)
(* adds and announces, what the reader has read, and the unread counts.    *)
(* A feed is a sequence of entries; an entry is its id and its contents.   *)
(* Dates, the last entry of a subscription and blank ids are left out.     *)
(***************************************************************************)
EXTENDS Integers, FiniteSets, Sequences
LOCAL INSTANCE FiniteSetsExt

CONSTANTS
  Feeds,         \* the subscriptions
  EntryIds,
  Contents,      \* versions of the text of an entry
  MaxFeed,       \* bound on the length of a feed
  Counters,      \* bound: unread counts of subscriptions that the host writes
  Snapshots      \* bound: libraries the host imports, valid or not

ASSUME RssAssumption == MaxFeed \in Nat /\ Counters \subseteq Nat

VARIABLES
  subscriptions,  \* the unread count of each subscription
  entries,        \* the entries, by subscription and id
  announced,      \* history: how often an entry was announced since it is there
  edited          \* history: subscriptions the host wrote after the last count

rssVars == <<subscriptions, entries, announced, edited>>

FeedPages == UNION {[1..n -> [id : EntryIds, text : Contents]] : n \in 0..MaxFeed}

Empty == [k \in {} |-> 0]

RssInit ==
  /\ subscriptions = Empty /\ entries = Empty
  /\ announced = Empty /\ edited = {}

EntriesOf(table, f) == {k \in DOMAIN table : k[1] = f}
Unread(table, f) == Cardinality({k \in EntriesOf(table, f) : ~table[k].read})
Only(table, keys) == [k \in keys |-> table[k]]

Recounted(table, f) == [subscriptions EXCEPT ![f] = Unread(table, f)]

\* The host writes a whole subscription, with the count it knows.
UpsertSubscription(f, unread) ==
  /\ subscriptions' = [x \in DOMAIN subscriptions \union {f} |->
       IF x = f THEN unread ELSE subscriptions[x]]
  /\ edited' = edited \union {f}
  /\ UNCHANGED <<entries, announced>>

RemoveSubscription(f) ==
  /\ subscriptions' = Only(subscriptions, DOMAIN subscriptions \ {f})
  /\ entries' = Only(entries, DOMAIN entries \ EntriesOf(entries, f))
  /\ announced' = Only(announced, DOMAIN announced \ EntriesOf(announced, f))
  /\ edited' = edited \ {f}

(* ------------------------------- refresh ------------------------------- *)

\* An entry that is new is added, unread; one that is known is rewritten and keeps
\* what the reader did with it. An id that the feed repeats has its last text.
Merged(f, feed) ==
  LET Places(k) == {i \in DOMAIN feed : <<f, feed[i].id>> = k}
      keys == DOMAIN entries \union {<<f, feed[i].id>> : i \in DOMAIN feed}
      Text(k) == feed[Max(Places(k))].text
  IN [k \in keys |-> IF Places(k) = {} THEN entries[k]
                     ELSE IF k \in DOMAIN entries THEN [entries[k] EXCEPT !.text = Text(k)]
                     ELSE [text |-> Text(k), read |-> FALSE, starred |-> FALSE]]

\* Mutant: what an item repeats of the feed itself is announced again.
NewEntries_Repeats(f, feed) ==
  LET New(i) == <<f, feed[i].id>> \notin DOMAIN entries
  IN {i \in DOMAIN feed : New(i)}

\* The places of the feed that refresh_subscription announces.
NewEntries(f, feed) ==
  LET New(i) == /\ <<f, feed[i].id>> \notin DOMAIN entries
                /\ \A j \in 1..(i - 1) : feed[j].id # feed[i].id
  IN {i \in DOMAIN feed : New(i)}

Refresh(f, feed) ==
  /\ f \in DOMAIN subscriptions
  /\ entries' = Merged(f, feed)
  /\ subscriptions' = Recounted(entries', f)
  /\ announced' = [k \in DOMAIN entries' |->
       (IF k \in DOMAIN announced THEN announced[k] ELSE 0)
       + Cardinality({i \in NewEntries(f, feed) : <<f, feed[i].id>> = k})]
  /\ edited' = edited \ {f}

(* ------------------------------ the reader ----------------------------- *)

UpdateEntry(f, table) ==
  /\ entries' = table
  /\ subscriptions' = Recounted(table, f)
  /\ edited' = edited \ {f}
  /\ UNCHANGED announced

Known(f, id) == f \in DOMAIN subscriptions /\ <<f, id>> \in DOMAIN entries

MarkEntryRead(f, id) == Known(f, id) /\ UpdateEntry(f, [entries EXCEPT ![<<f, id>>].read = TRUE])
MarkEntryUnread(f, id) == Known(f, id) /\ UpdateEntry(f, [entries EXCEPT ![<<f, id>>].read = FALSE])
SetEntryStarred(f, id, starred) ==
  Known(f, id) /\ UpdateEntry(f, [entries EXCEPT ![<<f, id>>].starred = starred])

MarkAllRead(f) ==
  /\ f \in DOMAIN subscriptions
  /\ UpdateEntry(f, [k \in DOMAIN entries |->
       IF k[1] = f THEN [entries[k] EXCEPT !.read = TRUE] ELSE entries[k]])

(* ------------------------------ snapshots ------------------------------ *)

\* What validate asks for beyond unique keys.
ValidLibrary(subs, table) == \A k \in DOMAIN table : k[1] \in DOMAIN subs

\* A snapshot replaces everything; the counts it brings are not believed.
ImportLibrary(subs, table) ==
  /\ ValidLibrary(subs, table)
  /\ subscriptions' = [f \in DOMAIN subs |-> Unread(table, f)]
  /\ entries' = table
  /\ announced' = [k \in DOMAIN table |-> 1]
  /\ edited' = {}

RssNext ==
  \/ \E f \in Feeds :
       \/ \E unread \in Counters : UpsertSubscription(f, unread)
       \/ RemoveSubscription(f)
       \/ \E feed \in FeedPages : Refresh(f, feed)
       \/ \E id \in EntryIds : MarkEntryRead(f, id)
       \/ \E id \in EntryIds : MarkEntryUnread(f, id)
       \/ \E id \in EntryIds, starred \in BOOLEAN : SetEntryStarred(f, id, starred)
       \/ MarkAllRead(f)
  \/ \E snapshot \in Snapshots : ImportLibrary(snapshot.subscriptions, snapshot.entries)

RssSpec == RssInit /\ [][RssNext]_rssVars

(* ------------------------------ properties ----------------------------- *)

\* After any sequence of refreshes with repeated and rewritten entries, marks,
\* removals and imports: no entry is left without its subscription, so the
\* library can be exported; every entry was announced as new exactly once; and
\* an unread count is the number of unread entries, until the host writes the
\* subscription itself.
LibraryIsConsistent ==
  /\ ValidLibrary(subscriptions, entries)
  /\ DOMAIN announced = DOMAIN entries /\ \A k \in DOMAIN entries : announced[k] = 1
  /\ \A f \in DOMAIN subscriptions \ edited : subscriptions[f] = Unread(entries, f)
=============================================================================
