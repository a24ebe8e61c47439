------------------------------ MODULE SyncRecords ------------------------------
(***************************************************************************)
(* Records of reader-sync and their deterministic last-write-wins merge    *)
(* (choose_record and merge_snapshots in reader-sync/src/lib.rs).          *)
(*                                                                         *)
(* Device ids and payloads are strings the code compares lexicographically;*)
(* here they are numbers, and 0 is the empty payload of a tombstone. A     *)
(* snapshot maps every key to its record, or to NoRecord.                  *)
(***************************************************************************)
EXTENDS Naturals

CONSTANTS Keys, NoRecord

Record == [updatedAt : Nat, deleted : BOOLEAN, revision : Nat, device : Nat, payload : Nat]
Snapshot == [Keys -> Record \union {NoRecord}]

ASSUME RecordAssumption == NoRecord \notin Record

Upsert(device, revision, payload, time) ==
  [updatedAt |-> time, deleted |-> FALSE, revision |-> revision, device |-> device,
   payload |-> payload]

Tombstone(device, revision, time) ==
  [updatedAt |-> time, deleted |-> TRUE, revision |-> revision, device |-> device, payload |-> 0]

\* The candidate replaces the existing record. Ties are broken by the tombstone,
\* the revision, the device and the payload, in this order.
Supersedes(candidate, existing) ==
  \/ candidate.updatedAt > existing.updatedAt
  \/ /\ candidate.updatedAt = existing.updatedAt
     /\ \/ candidate.deleted /\ ~existing.deleted
        \/ /\ candidate.deleted = existing.deleted
           /\ \/ candidate.revision > existing.revision
              \/ /\ candidate.revision = existing.revision
                 /\ \/ candidate.device > existing.device
                    \/ /\ candidate.device = existing.device
                       /\ candidate.payload > existing.payload

ChooseRecord(existing, candidate) ==
  IF Supersedes(candidate, existing) THEN candidate ELSE existing

\* Mutant: the side merged in wins.
Latest_PreferRemote(local, remote) == IF remote = NoRecord THEN local ELSE remote

\* Mutant: what is there already is never replaced.
Latest_PreferLocal(local, remote) == IF local = NoRecord THEN remote ELSE local

\* What a merge keeps of one key.
Latest(local, remote) ==
  IF local = NoRecord THEN remote
  ELSE IF remote = NoRecord THEN local
  ELSE ChooseRecord(local, remote)

MergeSnapshots(local, remote) == [k \in Keys |-> Latest(local[k], remote[k])]

\* Nothing of b would replace a.
Covers(a, b) == b \in {a, NoRecord} \/ (a # NoRecord /\ ~Supersedes(b, a))
=============================================================================
