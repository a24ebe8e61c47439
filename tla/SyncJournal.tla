------------------------------ MODULE SyncJournal ------------------------------
(***************************************************************************)
(* Devices that synchronise through a shared file (SyncJournal and         *)
(* merge_packages in reader-sync/src/lib.rs). A device journals its local  *)
(* changes, ships the pending ones in a package, and acknowledges them when*)
(* it learns that the package has been merged into the shared snapshot.    *)
(*                                                                         *)
(* The transport belongs to the host: packages and acknowledgements are    *)
(* lost, repeated, delayed and reordered. The journal is persistable: the  *)
(* host saves it at times of its own choosing and a restart resumes from   *)
(* what it saved last.                                                     *)
(***************************************************************************)
EXTENDS SyncRecords, FiniteSets

CONSTANTS
  Devices,     \* the device ids, numbers that order like the strings
  Payloads,    \* the contents an upsert may store
  Times,       \* the updated_at a device's clock may show; clocks may disagree
  MaxChanges,  \* bound: changes a device journals (with restarts, revisions)
  MaxPackages  \* bound: packages ever sent

ASSUME JournalAssumption ==
  /\ Devices \subseteq Nat /\ Payloads \subseteq Nat \ {0} /\ Times \subseteq Nat
  /\ MaxChanges \in Nat /\ MaxPackages \in Nat

VARIABLES
  journal,   \* the SyncJournal of each device
  saved,     \* the snapshot of it the host saved last
  packages,  \* the snapshots sent; each may arrive any number of times
  merged,    \* packages merged into the shared snapshot, to be acknowledged
  shared     \* the shared snapshot

vars == <<journal, saved, packages, merged, shared>>

Statuses == {"pending", "acknowledged"}
NoEntry == [sequence |-> 0, record |-> NoRecord, status |-> "acknowledged"]
Entry == [sequence : Nat \ {0}, record : Record, status : Statuses]
Journal == [nextSequence : Nat, nextRevision : Nat, entries : [Keys -> Entry \union {NoEntry}]]

\* Mutant: counters start at zero.
New_FromZero == [nextSequence |-> 0, nextRevision |-> 0, entries |-> [k \in Keys |-> NoEntry]]

\* SyncJournal::new.
New == [nextSequence |-> 1, nextRevision |-> 1, entries |-> [k \in Keys |-> NoEntry]]

Init ==
  /\ journal = [d \in Devices |-> New] /\ saved = journal
  /\ packages = {} /\ merged = {}
  /\ shared = [k \in Keys |-> NoRecord]

-----------------------------------------------------------------------------
\* record_change: the new entry replaces the one of its key, whatever its status.
Change(d, k, record) ==
  LET j == journal[d] IN
  /\ j.nextRevision <= MaxChanges
  /\ journal' = [journal EXCEPT ![d] =
       [nextSequence |-> j.nextSequence + 1,
        nextRevision |-> j.nextRevision + 1,
        entries |-> [j.entries EXCEPT ![k] =
          [sequence |-> j.nextSequence, record |-> record, status |-> "pending"]]]]
  /\ UNCHANGED <<saved, packages, merged, shared>>

RecordUpsert(d, k, payload, time) ==
  Change(d, k, Upsert(d, journal[d].nextRevision, payload, time))

RecordTombstone(d, k, time) ==
  Change(d, k, Tombstone(d, journal[d].nextRevision, time))

PendingRecords(j) ==
  [k \in Keys |-> IF j.entries[k].status = "pending" THEN j.entries[k].record ELSE NoRecord]

PendingPackage(d) == PendingRecords(journal[d])

SendPackage(d) ==
  /\ Cardinality(packages) < MaxPackages
  /\ PendingPackage(d) \notin packages
  /\ \E k \in Keys : PendingPackage(d)[k] # NoRecord
  /\ packages' = packages \union {PendingPackage(d)}
  /\ UNCHANGED <<journal, saved, merged, shared>>

\* A package arrives, for the first time or again.
MergePackage(p) ==
  /\ p \in packages
  /\ shared' = MergeSnapshots(shared, p)
  /\ merged' = merged \union {p}
  /\ UNCHANGED <<journal, saved, packages>>

\* Mutant: acknowledges whatever is pending for the key.
Acknowledged_ByKey(entry, record) ==
  IF entry.status = "pending" /\ record # NoRecord
  THEN [entry EXCEPT !.status = "acknowledged"] ELSE entry

\* A pending entry is cleared only if its very record was sent.
Acknowledged(entry, record) ==
  IF entry.status = "pending" /\ entry.record = record
  THEN [entry EXCEPT !.status = "acknowledged"] ELSE entry

\* acknowledge_package, when the host says that the package has been merged. The
\* package need not be the device's own: a record names its device.
AcknowledgePackage(d, p) ==
  /\ p \in merged
  /\ journal' = [journal EXCEPT ![d].entries =
                   [k \in Keys |-> Acknowledged(@[k], p[k])]]
  /\ UNCHANGED <<saved, packages, merged, shared>>

-----------------------------------------------------------------------------
\* export_snapshot and from_snapshot.
Save(d) ==
  /\ saved' = [saved EXCEPT ![d] = journal[d]]
  /\ UNCHANGED <<journal, packages, merged, shared>>

\* Mutant: from_snapshot without the counters of the snapshot.
Restart_ResetsCounters(d) ==
  /\ journal' = [journal EXCEPT ![d] = [New EXCEPT !.entries = saved[d].entries]]
  /\ UNCHANGED <<saved, packages, merged, shared>>

Restart(d) ==
  /\ journal' = [journal EXCEPT ![d] = saved[d]]
  /\ UNCHANGED <<saved, packages, merged, shared>>

-----------------------------------------------------------------------------
LocalChange(d) ==
  \E k \in Keys, time \in Times :
    RecordTombstone(d, k, time) \/ \E payload \in Payloads : RecordUpsert(d, k, payload, time)

Acknowledge(d) == \E p \in packages : AcknowledgePackage(d, p)

Next ==
  \/ \E d \in Devices :
       LocalChange(d) \/ SendPackage(d) \/ Acknowledge(d) \/ Save(d) \/ Restart(d)
  \/ \E p \in packages : MergePackage(p)

Spec == Init /\ [][Next]_vars

-----------------------------------------------------------------------------
TypeOK ==
  /\ journal \in [Devices -> Journal] /\ saved \in [Devices -> Journal]
  /\ packages \subseteq Snapshot /\ merged \subseteq packages
  /\ shared \in Snapshot

\* What was sent of a key in the packages that arrived.
Arrived(k) == {p[k] : p \in merged}

\* The shared snapshot is the latest of all that arrived, however often and in
\* whatever order it arrived.
SharedIsLatest ==
  \A k \in Keys :
    /\ shared[k] \in Arrived(k) \union {NoRecord}
    /\ \A r \in Arrived(k) : Covers(shared[k], r)

\* An acknowledged change is safe: the shared snapshot has it or a later one, even
\* if the key was changed again, the acknowledgement is old or the journal restarted.
AcknowledgedIsShared ==
  \A d \in Devices, k \in Keys :
    journal[d].entries[k].status = "acknowledged" =>
      Covers(shared[k], journal[d].entries[k].record)

\* SyncJournalSnapshot::validate accepts every journal: the counters are ahead of
\* every entry, so the host can always save and restart.
Valid(j) ==
  /\ j.nextSequence > 0 /\ j.nextRevision > 0
  /\ \A k \in Keys : j.entries[k] # NoEntry =>
       /\ j.entries[k].sequence \in 1..(j.nextSequence - 1)
       /\ j.entries[k].record.revision \in 1..(j.nextRevision - 1)

JournalIsValid == \A d \in Devices : Valid(journal[d])

\* The shared snapshot never goes back to an earlier record.
SharedNeverRegresses == [][\A k \in Keys : Covers(shared'[k], shared[k])]_vars
=============================================================================
