----------------------------- MODULE ProgressCloud -----------------------------
(***************************************************************************)
(* Reading progress that devices share through one file of the cloud       *)
(* (ProgressCloudSyncRecord and the progress plans in reader-sync). A      *)
(* device merges what it pulls into its own records, and keeps the newest  *)
(* of a book. To push it pulls the file, resolves, and writes the result:  *)
(* the file may change in between.                                         *)
(***************************************************************************)
EXTENDS Integers, FiniteSets
LOCAL INSTANCE FiniteSetsExt

CONSTANTS
  Readers,            \* the devices
  ProgressRecords,    \* [book, chapter, device, updatedAt, version, fraction]
  Instants,           \* the times a pull may start from
  MaxRecordsPerBook   \* max_records_per_book

ASSUME ProgressAssumption ==
  /\ MaxRecordsPerBook \in Nat \ {0}
  /\ \A r \in ProgressRecords :    \* a book is only compared for equality
       r \in [book : {r.book}, chapter : Int, device : Int, updatedAt : Int, version : Int, fraction : Int]

VARIABLES
  progress,   \* the records of each device
  cloud,      \* the shared file
  pulled,     \* a set of what a device that is pushing has read of the file
  met         \* history: the records that were merged on each device

progressVars == <<progress, cloud, pulled, met>>

NotPushing == {}

ProgressInit ==
  /\ progress = [d \in Readers |-> {}] /\ met = [d \in Readers |-> {}]
  /\ cloud = {} /\ pulled = [d \in Readers |-> NotPushing]

(* -------------------------------- merging ------------------------------ *)

ProgressKey(r) == <<r.book, r.chapter, r.device>>

\* r stands before s when they are ordered by these numbers, the largest first.
Precedes(r, s, Numbers(_)) ==
  \E i \in DOMAIN Numbers(r) :
    /\ Numbers(r)[i] > Numbers(s)[i]
    /\ \A j \in 1..(i - 1) : Numbers(r)[j] = Numbers(s)[j]

\* choose_progress_record.
Newer(r, s) == Precedes(r, s, LAMBDA x : <<x.updatedAt, x.version, x.fraction>>)

\* compare_progress_retention_order.
Keeps(r, s) == Precedes(r, s, LAMBDA x : <<x.updatedAt, x.version, x.chapter, x.device>>)

NewestOfEach(records) ==
  {r \in records : ~\E s \in records : ProgressKey(s) = ProgressKey(r) /\ Newer(s, r)}

\* apply_progress_record_limit.
WithinLimit(records) ==
  {r \in records :
     Cardinality({s \in records : s.book = r.book /\ Keeps(s, r)}) < MaxRecordsPerBook}

\* Mutant: the limit counts the records that are about to be replaced.
MergeProgress_LimitFirst(local, remote) == NewestOfEach(WithinLimit(local \union remote))

MergeProgress(local, remote) == WithinLimit(NewestOfEach(local \union remote))

Take(d, records) ==
  /\ progress' = [progress EXCEPT ![d] = MergeProgress(@, records)]
  /\ met' = [met EXCEPT ![d] = @ \union records]

\* The reader turns a page on this device.
RecordProgress(d, r) ==
  /\ r.device = d
  /\ Take(d, {r})
  /\ UNCHANGED <<cloud, pulled>>

\* progress_cloud_records_since, and the merge of what it returns.
PullProgress(d, since) ==
  /\ Take(d, {r \in cloud : r.updatedAt > since})
  /\ UNCHANGED <<cloud, pulled>>

(* -------------------------------- pushing ------------------------------ *)

\* Of two records of the same time, the push prefers the lower version, and then
\* the one that stands first in its input: the device's own.
Pushed(local, remote) ==
  LET all == local \union remote
      Beats(s, r) == /\ ProgressKey(s) = ProgressKey(r)
                     /\ \/ Precedes(s, r, LAMBDA x : <<x.updatedAt, -x.version>>)
                        \/ /\ s.updatedAt = r.updatedAt /\ s.version = r.version
                           /\ s \in local /\ r \notin local
  IN {r \in all : ~\E s \in all : Beats(s, r)}

\* PullRemoteBeforePush; there is nothing to push without records.
StartPush(d) ==
  /\ progress[d] # {} /\ pulled[d] = NotPushing
  /\ pulled' = [pulled EXCEPT ![d] = {cloud}]
  /\ UNCHANGED <<progress, cloud, met>>

\* ResolveConflicts and PushResolvedRecords, with the records the plan was made of.
FinishPush(d) ==
  /\ \E remote \in pulled[d] : cloud' = Pushed(progress[d], remote)
  /\ pulled' = [pulled EXCEPT ![d] = NotPushing]
  /\ UNCHANGED <<progress, met>>

ProgressNext ==
  \E d \in Readers :
    \/ \E r \in ProgressRecords : RecordProgress(d, r)
    \/ \E since \in Instants : PullProgress(d, since)
    \/ StartPush(d)
    \/ FinishPush(d)

ProgressSpec == ProgressInit /\ [][ProgressNext]_progressVars

(* ------------------------------ properties ----------------------------- *)

\* Pulls that come late, in part or after another device has overwritten the
\* file do not matter: what a device has depends only on the set of records it
\* ever met, and is the newest of each key, up to the limit of a book. So
\* devices that met the same records agree. And the file has one record of a
\* key, however the pushes overtake each other.
ProgressAgrees ==
  /\ \A d \in Readers : progress[d] = WithinLimit(NewestOfEach(met[d]))
  /\ \A r, s \in cloud : ProgressKey(r) = ProgressKey(s) => r = s
=============================================================================
