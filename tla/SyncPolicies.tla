----------------------------- MODULE SyncPolicies -----------------------------
(***************************************************************************)
(* Merging snapshots under a conflict policy (merge_snapshots_with_policy  *)
(* in reader-sync): last write wins, a priority of devices, refusing what  *)
(* diverges, or keeping both. Replicas merge records as they come, and one *)
(* another's snapshots.                                                    *)
(*                                                                         *)
(* Here a snapshot is a function from keys to records. A key is an id, the *)
(* device and the revision of a conflict copy; 0 and 0 without a copy.     *)
(***************************************************************************)
EXTENDS SyncRecords, FiniteSets, Sequences

CONSTANTS
  Replicas,
  Versions,        \* the records that devices have written, [key, record]
  DevicePriority   \* the devices with a rank, best first; 0 is no device

ASSUME PolicyAssumption ==
  /\ \A v \in Versions : v.record \in Record /\ v.key[2] = 0 /\ v.record.device # 0
  /\ DevicePriority \in Seq(Nat)

VARIABLES
  policy,     \* the SyncMergePolicy, the same on every replica
  replica,    \* the snapshot of each replica
  known       \* history: the versions that each replica has merged

policyVars == <<policy, replica, known>>

ConflictPolicies == {"lastWriteWins", "devicePriority", "manual", "keepBoth"}

PolicyInit ==
  /\ policy \in ConflictPolicies
  /\ replica = [d \in Replicas |-> [k \in {} |-> NoRecord]]
  /\ known = [d \in Replicas |-> {}]

(* ------------------------------- one key ------------------------------- *)

Equivalent(r, s) == r = [s EXCEPT !.device = r.device]

\* conflict_reason. The same payload at another time is no conflict.
InConflict(r, s) ==
  /\ ~Equivalent(r, s)
  /\ \/ r.deleted # s.deleted
     \/ r.updatedAt = s.updatedAt
     \/ r.payload # s.payload

\* The first place of the device among those with a priority, if it has one.
DeviceRank(r) == {i \in DOMAIN DevicePriority :
                    /\ DevicePriority[i] = r.device
                    /\ \A j \in DOMAIN DevicePriority : DevicePriority[j] = r.device => i <= j}

\* Both devices have a rank, and s has the better one.
Outranks(s, r) == \E i \in DeviceRank(s), j \in DeviceRank(r) : i < j

Winner(local, remote) ==
  IF policy = "devicePriority" /\ InConflict(local, remote) /\ Outranks(local, remote) THEN local
  ELSE IF policy = "devicePriority" /\ InConflict(local, remote) /\ Outranks(remote, local) THEN remote
  ELSE ChooseRecord(local, remote)

\* Mutant: copies of one device have the same id.
CopyKey_NoRevision(key, r) == <<key[1], r.device, 1>>

\* The id of conflict_copy_record.
CopyKey(key, r) == <<key[1], r.device, r.revision>>

\* What a merge makes of two records of a key.
Resolved(key, local, remote) ==
  LET winner == Winner(local, remote)
      loser == IF winner = local THEN remote ELSE local
  IN {<<key, winner>>} \union
     (IF policy = "keepBoth" /\ InConflict(local, remote) /\ ~loser.deleted
      THEN {<<CopyKey(key, loser), loser>>} ELSE {})

(* ------------------------------ snapshots ------------------------------ *)

\* normalized_records, as every snapshot is read: the latest of each key.
Normalized(records) ==
  [k \in {kr[1] : kr \in records} |->
     CHOOSE r \in {kr[2] : kr \in {x \in records : x[1] = k}} :
       \A kr \in records : kr[1] = k => ~Supersedes(kr[2], r)]

Refused(local, remote) ==
  /\ policy = "manual"
  /\ \E k \in DOMAIN local \intersect DOMAIN remote : InConflict(local[k], remote[k])

MergeWithPolicy(local, remote) ==
  LET both == DOMAIN local \intersect DOMAIN remote
  IN Normalized({<<k, local[k]>> : k \in DOMAIN local \ both}
                \union {<<k, remote[k]>> : k \in DOMAIN remote \ both}
                \union UNION {Resolved(k, local[k], remote[k]) : k \in both})

MergeInto(d, remote, versions) ==
  /\ ~Refused(replica[d], remote)
  /\ replica' = [replica EXCEPT ![d] = MergeWithPolicy(@, remote)]
  /\ known' = [known EXCEPT ![d] = @ \union versions]
  /\ UNCHANGED policy

\* A version comes alone, for the first time or again.
Receive(d, v) == MergeInto(d, [k \in {v.key} |-> v.record], {v})

MergeReplica(d, e) == MergeInto(d, replica[e], known[e])

PolicyNext ==
  \E d \in Replicas :
    \/ \E v \in Versions : Receive(d, v)
    \/ \E e \in Replicas \ {d} : MergeReplica(d, e)

PolicySpec == PolicyInit /\ [][PolicyNext]_policyVars

(* ------------------------------ properties ----------------------------- *)

\* It makes no difference which of two replicas merges the other.
MergeIsSymmetric ==
  \A d, e \in Replicas :
    /\ Refused(replica[d], replica[e]) = Refused(replica[e], replica[d])
    /\ MergeWithPolicy(replica[d], replica[e]) = MergeWithPolicy(replica[e], replica[d])

\* The payload is in the snapshot, at its id or in a conflict copy of it.
Holds(snapshot, v) ==
  \E k \in DOMAIN snapshot :
    k[1] = v.key[1] /\ ~snapshot[k].deleted /\ snapshot[k].payload = v.record.payload

\* No device has used a revision twice. A journal that restarts from an old save
\* does (Restart in SyncJournal).
RevisionsOnce ==
  \A v, w \in Versions :
    v.record.device = w.record.device /\ v.record.revision = w.record.revision => v = w

\* Nothing that is written is lost by a merge that has to keep both sides, or to
\* refuse: in whatever order versions and snapshots come, and however often. It
\* holds where RevisionsOnce does.
NothingIsLost ==
  policy \in {"keepBoth", "manual"} =>
    \A d \in Replicas : \A v \in known[d] : v.record.deleted \/ Holds(replica[d], v)

\* What the comment on merge_snapshots_with_policy says of its policies.
PoliciesKeepTheirWord == MergeIsSymmetric /\ NothingIsLost
=============================================================================
