------------------------------ MODULE SyncProofs ------------------------------
(***************************************************************************)
(* Theorems about the merge of records, about SyncJournal, SyncPolicies    *)
(* and ProgressCloud, for every set of keys, devices, payloads, times and  *)
(* records and every bound.                                                *)
(***************************************************************************)
EXTENDS SyncJournal, SyncPolicies, ProgressCloud, FiniteOrders

Slot == Record \union {NoRecord}

(***************************************************************************)
(* Supersedes is a strict total order on records.                          *)
(***************************************************************************)
LEMMA Irreflexive == ASSUME NEW a \in Record PROVE ~Supersedes(a, a)
  BY DEF Supersedes, Record

LEMMA Asymmetric ==
  ASSUME NEW a \in Record, NEW b \in Record, Supersedes(a, b) PROVE ~Supersedes(b, a)
  BY DEF Supersedes, Record

LEMMA Transitive ==
  ASSUME NEW a \in Record, NEW b \in Record, NEW c \in Record, Supersedes(a, b), Supersedes(b, c)
  PROVE  Supersedes(a, c)
  BY DEF Supersedes, Record

LEMMA Connected ==
  ASSUME NEW a \in Record, NEW b \in Record, ~Supersedes(a, b), ~Supersedes(b, a)
  PROVE  a = b
  BY DEF Supersedes, Record

(***************************************************************************)
(* The merge of a key is a least upper bound: it keeps one of the two      *)
(* sides, and the one that covers the other.                               *)
(***************************************************************************)
LEMMA LatestType == ASSUME NEW a \in Slot, NEW b \in Slot PROVE Latest(a, b) \in {a, b}
  BY DEF Latest, ChooseRecord

LEMMA LatestCovers ==
  ASSUME NEW a \in Slot, NEW b \in Slot
  PROVE  Covers(Latest(a, b), a) /\ Covers(Latest(a, b), b)
<1>1. CASE a = NoRecord \/ b = NoRecord
  BY <1>1 DEF Covers, Latest
<1>2. CASE a # NoRecord /\ b # NoRecord
  <2>1. a \in Record /\ b \in Record
    BY <1>2 DEF Slot
  <2> QED BY <1>2, <2>1, Asymmetric DEF Covers, Latest, ChooseRecord
<1> QED BY <1>1, <1>2

LEMMA CoversTransitive ==
  ASSUME NEW a \in Slot, NEW b \in Slot, NEW c \in Slot, Covers(a, b), Covers(b, c)
  PROVE  Covers(a, c)
<1>1. CASE c = NoRecord \/ a = b \/ b = c
  BY <1>1 DEF Covers
<1>2. CASE c # NoRecord /\ a # b /\ b # c
  <2>1. a \in Record /\ b \in Record /\ c \in Record
    BY <1>2 DEF Covers, Slot
  <2>2. Supersedes(a, b) /\ Supersedes(b, c)
    BY <1>2, <2>1, Connected, RecordAssumption DEF Covers
  <2>3. ~Supersedes(c, a)
    BY <2>1, <2>2, Transitive, Asymmetric
  <2> QED BY <1>2, <2>1, <2>3, RecordAssumption DEF Covers
<1> QED BY <1>1, <1>2

LEMMA CoversAntisymmetric ==
  ASSUME NEW a \in Slot, NEW b \in Slot, Covers(a, b), Covers(b, a) PROVE a = b
  BY Connected, RecordAssumption DEF Covers, Slot

LEMMA LatestIsLeast ==
  ASSUME NEW a \in Slot, NEW b \in Slot, NEW c \in Slot, Covers(c, a), Covers(c, b)
  PROVE  Covers(c, Latest(a, b))
  BY LatestType

(***************************************************************************)
(* What "the tie-breaks make repeated backup/restore runs stable" promises *)
(* of merge_snapshots: repeating a merge changes nothing, and neither the  *)
(* order nor the grouping of merges matters.                               *)
(***************************************************************************)
LEMMA LatestCommutes ==
  ASSUME NEW a \in Slot, NEW b \in Slot PROVE Latest(a, b) = Latest(b, a)
<1>1. Latest(a, b) \in Slot /\ Latest(b, a) \in Slot
  BY LatestType
<1>2. Covers(Latest(a, b), Latest(b, a)) /\ Covers(Latest(b, a), Latest(a, b))
  BY LatestType, LatestCovers
<1> QED BY <1>1, <1>2, CoversAntisymmetric

LEMMA LatestAssociates ==
  ASSUME NEW a \in Slot, NEW b \in Slot, NEW c \in Slot
  PROVE  Latest(Latest(a, b), c) = Latest(a, Latest(b, c))
<1> DEFINE ab == Latest(a, b)  bc == Latest(b, c)
           l == Latest(ab, c)  r == Latest(a, bc)
<1>1. ab \in Slot /\ bc \in Slot
  BY LatestType
<1>2. l \in Slot /\ r \in Slot
  BY <1>1, LatestType
<1>3. Covers(l, ab) /\ Covers(l, c) /\ Covers(r, a) /\ Covers(r, bc)
  BY <1>1, LatestCovers
<1>4. Covers(ab, a) /\ Covers(ab, b) /\ Covers(bc, b) /\ Covers(bc, c)
  BY LatestCovers
<1> HIDE DEF ab, bc, l, r
<1>5. Covers(l, a) /\ Covers(l, b) /\ Covers(r, b) /\ Covers(r, c)
  BY <1>1, <1>2, <1>3, <1>4, CoversTransitive
<1>6. Covers(l, bc) /\ Covers(r, ab)
  BY <1>2, <1>3, <1>5, LatestIsLeast DEF ab, bc
<1>7. Covers(l, r) /\ Covers(r, l)
  BY <1>1, <1>2, <1>3, <1>5, <1>6, LatestIsLeast DEF l, r
<1> QED BY <1>2, <1>7, CoversAntisymmetric DEF l, r, ab, bc

\* merge_snapshots is a semilattice on snapshots.
THEOREM MergeIsStable ==
  ASSUME NEW s \in Snapshot, NEW t \in Snapshot, NEW u \in Snapshot
  PROVE  /\ MergeSnapshots(s, s) = s
         /\ MergeSnapshots(s, t) = MergeSnapshots(t, s)
         /\ MergeSnapshots(MergeSnapshots(s, t), u) = MergeSnapshots(s, MergeSnapshots(t, u))
<1>1. \A k \in Keys : s[k] \in Slot /\ t[k] \in Slot /\ u[k] \in Slot
  BY DEF Snapshot, Slot
<1>2. MergeSnapshots(s, s) = s
  <2>1. \A k \in Keys : Latest(s[k], s[k]) = s[k]
    BY <1>1, LatestType
  <2> QED BY <2>1 DEF MergeSnapshots, Snapshot
<1>3. MergeSnapshots(s, t) = MergeSnapshots(t, s)
  BY <1>1, LatestCommutes DEF MergeSnapshots
<1>4. MergeSnapshots(MergeSnapshots(s, t), u) = MergeSnapshots(s, MergeSnapshots(t, u))
  BY <1>1, LatestAssociates DEF MergeSnapshots
<1> QED BY <1>2, <1>3, <1>4

-----------------------------------------------------------------------------
(***************************************************************************)
(* The strengthening. An acknowledgement is safe only because the saved    *)
(* journals, from which a restart resumes, are covered too, and because    *)
(* what has been merged stays covered.                                     *)
(***************************************************************************)
AckedIsShared(j) ==
  \A k \in Keys : j.entries[k].status = "acknowledged" => Covers(shared[k], j.entries[k].record)

JournalOK(j) == j \in Journal /\ Valid(j) /\ AckedIsShared(j)

Inv ==
  /\ packages \subseteq Snapshot /\ merged \subseteq packages /\ shared \in Snapshot
  /\ journal \in [Devices -> Journal] /\ saved \in [Devices -> Journal]
  /\ \A d \in Devices : JournalOK(journal[d]) /\ JournalOK(saved[d])
  /\ SharedIsLatest

LEMMA RecordTypes ==
  ASSUME NEW d \in Devices, NEW payload \in Payloads, NEW time \in Times, NEW revision \in Nat
  PROVE  Upsert(d, revision, payload, time) \in Record /\ Tombstone(d, revision, time) \in Record
  BY JournalAssumption DEF Upsert, Tombstone, Record

LEMMA EntryFacts ==
  ASSUME NEW e \in Entry \union {NoEntry}
  PROVE  e.record \in Slot /\ e.status \in Statuses /\ (e.record = NoRecord <=> e = NoEntry)
  BY RecordAssumption DEF Entry, NoEntry, Slot, Statuses

LEMMA AcknowledgedFacts ==
  ASSUME NEW e \in Entry \union {NoEntry}, NEW r \in Slot
  PROVE  LET a == Acknowledged(e, r) IN
         /\ a \in Entry \union {NoEntry} /\ a.record = e.record /\ a.sequence = e.sequence
         /\ a # NoEntry => e # NoEntry
         /\ a.status = "acknowledged" => e.status = "acknowledged" \/ e.record = r
<1>1. CASE e.status = "pending" /\ e.record = r
  <2>1. e \in Entry
    BY <1>1 DEF NoEntry
  <2>2. Acknowledged(e, r) = [sequence |-> e.sequence, record |-> r, status |-> "acknowledged"]
    BY <1>1, <2>1 DEF Acknowledged, Entry
  <2> QED BY <1>1, <2>1, <2>2, RecordAssumption DEF Entry, NoEntry, Statuses
<1>2. CASE ~(e.status = "pending" /\ e.record = r)
  <2>1. Acknowledged(e, r) = e
    BY <1>2 DEF Acknowledged
  <2>2. e.status \in Statuses
    BY EntryFacts
  <2> QED BY <1>2, <2>1, <2>2 DEF Statuses
<1> QED BY <1>1, <1>2

LEMMA SlotFacts == ASSUME Inv PROVE
  /\ \A k \in Keys : shared[k] \in Slot
  /\ \A p \in packages, k \in Keys : p[k] \in Slot
  BY DEF Inv, Snapshot, Slot

LEMMA InitInv == Init => Inv
<1> SUFFICES ASSUME Init PROVE Inv
  OBVIOUS
<1>1. New \in Journal /\ Valid(New) /\ AckedIsShared(New)
  BY DEF Init, New, Journal, Valid, AckedIsShared, NoEntry, Covers
<1>2. SharedIsLatest
  BY DEF Init, SharedIsLatest, Arrived
<1>3. shared \in Snapshot
  BY DEF Init, Snapshot
<1> QED BY <1>1, <1>2, <1>3 DEF Init, Inv, JournalOK

(***************************************************************************)
(* A step that only replaces one journal by a good one keeps the           *)
(* invariant: all local steps of a device are of this kind.                *)
(***************************************************************************)
LEMMA LocalStep ==
  ASSUME Inv, NEW d \in Devices, NEW j, JournalOK(j),
         UNCHANGED <<packages, merged, shared>>,
         \/ journal' = [journal EXCEPT ![d] = j] /\ saved' = saved
         \/ saved' = [saved EXCEPT ![d] = j] /\ journal' = journal
  PROVE  Inv'
<1>1. (packages \subseteq Snapshot /\ merged \subseteq packages /\ shared \in Snapshot)'
  BY DEF Inv
<1>2. (journal \in [Devices -> Journal] /\ saved \in [Devices -> Journal])'
  BY DEF Inv, JournalOK
<1>3. \A e \in Devices : journal'[e] \in {j, journal[e]} /\ saved'[e] \in {j, saved[e]}
  BY DEF Inv
<1>4. ASSUME NEW i, JournalOK(i) PROVE JournalOK(i)'
  BY <1>4 DEF JournalOK, AckedIsShared, Valid
<1>5. (\A e \in Devices : JournalOK(journal[e]) /\ JournalOK(saved[e]))'
  <2> SUFFICES ASSUME NEW e \in Devices PROVE JournalOK(journal[e])' /\ JournalOK(saved[e])'
    OBVIOUS
  <2>1. JournalOK(journal'[e]) /\ JournalOK(saved'[e])
    BY <1>3 DEF Inv
  <2> QED BY <2>1 DEF JournalOK, AckedIsShared, Valid
<1>6. SharedIsLatest'
  BY DEF Inv, SharedIsLatest, Arrived
<1> QED BY <1>1, <1>2, <1>5, <1>6 DEF Inv

LEMMA ChangeInv ==
  ASSUME Inv, NEW d \in Devices, NEW k \in Keys, NEW record \in Record,
         record.revision = journal[d].nextRevision, Change(d, k, record)
  PROVE  Inv'
<1> DEFINE old == journal[d]
           entry == [sequence |-> old.nextSequence, record |-> record, status |-> "pending"]
           new == [nextSequence |-> old.nextSequence + 1, nextRevision |-> old.nextRevision + 1,
                   entries |-> [old.entries EXCEPT ![k] = entry]]
<1>1. old \in Journal /\ Valid(old) /\ AckedIsShared(old)
  BY DEF Inv, JournalOK
<1>2. old.nextSequence \in Nat \ {0} /\ old.nextRevision \in Nat \ {0}
  BY <1>1 DEF Journal, Valid
<1>3. entry \in Entry
  BY <1>2 DEF Entry, Statuses
<1>4. new \in Journal
  BY <1>1, <1>2, <1>3 DEF Journal
<1>5. \A i \in Keys : new.entries[i] = IF i = k THEN entry ELSE old.entries[i]
  BY <1>1 DEF Journal
<1>6. Valid(new)
  <2> SUFFICES ASSUME NEW i \in Keys, new.entries[i] # NoEntry
               PROVE  /\ new.entries[i].sequence \in 1..(new.nextSequence - 1)
                      /\ new.entries[i].record.revision \in 1..(new.nextRevision - 1)
    BY <1>2 DEF Valid
  <2>1. CASE i = k
    BY <1>2, <1>5, <2>1
  <2>2. CASE i # k
    <3>1. old.entries[i] # NoEntry
      BY <1>5, <2>2
    <3>2. /\ old.entries[i].sequence \in 1..(old.nextSequence - 1)
          /\ old.entries[i].record.revision \in 1..(old.nextRevision - 1)
      BY <1>1, <3>1 DEF Valid
    <3>3. /\ old.entries[i].sequence \in 1..old.nextSequence
          /\ old.entries[i].record.revision \in 1..old.nextRevision
      BY <1>2, <3>2
    <3> QED BY <1>2, <1>5, <2>2, <3>3
  <2> QED BY <2>1, <2>2
<1>7. AckedIsShared(new)
  BY <1>1, <1>5 DEF AckedIsShared
<1>8. JournalOK(new)
  BY <1>4, <1>6, <1>7 DEF JournalOK
<1> QED BY <1>8, LocalStep DEF Change

LEMMA SendInv == ASSUME Inv, NEW d \in Devices, SendPackage(d) PROVE Inv'
<1>1. PendingPackage(d) \in Snapshot
  <2>1. \A k \in Keys : journal[d].entries[k].record \in Slot
    BY EntryFacts DEF Inv, Journal
  <2> QED BY <2>1 DEF PendingPackage, PendingRecords, Snapshot, Slot
<1>2. UNCHANGED <<journal, saved, merged, shared>> /\ packages' = packages \union {PendingPackage(d)}
  BY DEF SendPackage
<1>3. (\A e \in Devices : JournalOK(journal[e]) /\ JournalOK(saved[e]))'
  BY <1>2 DEF Inv, JournalOK, AckedIsShared, Valid
<1>4. SharedIsLatest'
  BY <1>2 DEF Inv, SharedIsLatest, Arrived
<1> QED BY <1>1, <1>2, <1>3, <1>4 DEF Inv

LEMMA AcknowledgeInv ==
  ASSUME Inv, NEW d \in Devices, NEW p \in packages, AcknowledgePackage(d, p) PROVE Inv'
<1> DEFINE old == journal[d]
           new == [old EXCEPT !.entries = [k \in Keys |-> Acknowledged(old.entries[k], p[k])]]
<1>1. old \in Journal /\ Valid(old) /\ AckedIsShared(old)
  BY DEF Inv, JournalOK
<1>2. \A k \in Keys : new.entries[k] = Acknowledged(old.entries[k], p[k])
  BY <1>1 DEF Journal
<1>3. \A k \in Keys : old.entries[k] \in Entry \union {NoEntry}
  BY <1>1 DEF Journal
<1>4. \A k \in Keys : /\ new.entries[k] \in Entry \union {NoEntry}
                      /\ new.entries[k].record = old.entries[k].record
                      /\ new.entries[k].sequence = old.entries[k].sequence
                      /\ new.entries[k] # NoEntry => old.entries[k] # NoEntry
                      /\ new.entries[k].status = "acknowledged" =>
                           old.entries[k].status = "acknowledged" \/ old.entries[k].record = p[k]
  <2> TAKE k \in Keys
  <2>1. old.entries[k] \in Entry \union {NoEntry} /\ p[k] \in Slot
    BY <1>3, SlotFacts
  <2>2. new.entries[k] = Acknowledged(old.entries[k], p[k])
    BY <1>2
  <2> HIDE DEF new, old
  <2> QED BY <2>1, <2>2, AcknowledgedFacts
<1>5. new \in Journal
  BY <1>1, <1>2, <1>4 DEF Journal
<1>6. Valid(new)
  BY <1>1, <1>4 DEF Valid, Journal
<1>7. \A k \in Keys : Covers(shared[k], p[k])
  BY DEF AcknowledgePackage, Inv, SharedIsLatest, Arrived
<1>8. AckedIsShared(new)
  BY <1>1, <1>4, <1>7 DEF AckedIsShared
<1>9. journal' = [journal EXCEPT ![d] = new]
  BY DEF AcknowledgePackage
<1> HIDE DEF new
<1> QED BY <1>5, <1>6, <1>8, <1>9, LocalStep DEF AcknowledgePackage, JournalOK

\* A merge never uncovers what was covered.
LEMMA MergeCovers ==
  ASSUME Inv, NEW p \in packages, MergePackage(p), NEW k \in Keys, NEW r \in Slot
  PROVE  /\ shared'[k] = Latest(shared[k], p[k])
         /\ Covers(shared'[k], shared[k]) /\ Covers(shared'[k], p[k])
         /\ Covers(shared[k], r) => Covers(shared'[k], r)
<1>1. shared'[k] = Latest(shared[k], p[k])
  BY DEF MergePackage, MergeSnapshots
<1>2. shared[k] \in Slot /\ p[k] \in Slot
  BY SlotFacts
<1>3. shared'[k] \in Slot
  BY <1>1, <1>2, LatestType
<1>4. Covers(shared'[k], shared[k]) /\ Covers(shared'[k], p[k])
  BY <1>1, <1>2, LatestCovers
<1> QED BY <1>1, <1>2, <1>3, <1>4, CoversTransitive

LEMMA MergeInv == ASSUME Inv, NEW p \in packages, MergePackage(p) PROVE Inv'
<1>1. /\ UNCHANGED <<journal, saved, packages>> /\ merged' = merged \union {p}
      /\ shared' = [k \in Keys |-> Latest(shared[k], p[k])]
  BY DEF MergePackage, MergeSnapshots
<1>2. \A k \in Keys : shared'[k] \in {shared[k], p[k]}
  BY <1>1, SlotFacts, LatestType
<1>3. shared' \in Snapshot
  BY <1>1, <1>2, SlotFacts DEF Snapshot, Slot
<1>4. ASSUME NEW j, JournalOK(j) PROVE AckedIsShared(j)'
  <2>1. \A k \in Keys : j.entries[k].record \in Slot
    BY <1>4, EntryFacts DEF JournalOK, Journal
  <2>2. \A k \in Keys : Covers(shared[k], j.entries[k].record) => Covers(shared'[k], j.entries[k].record)
    BY <2>1, MergeCovers
  <2> QED BY <1>4, <2>2 DEF JournalOK, AckedIsShared
<1>5. (\A d \in Devices : JournalOK(journal[d]) /\ JournalOK(saved[d]))'
  BY <1>1, <1>4 DEF Inv, JournalOK, Valid, AckedIsShared
<1>6. SharedIsLatest'
  <2> SUFFICES ASSUME NEW k \in Keys
               PROVE  /\ shared'[k] \in {q[k] : q \in merged'} \union {NoRecord}
                      /\ \A q \in merged' : Covers(shared'[k], q[k])
    BY DEF SharedIsLatest, Arrived
  <2>1. shared[k] \in {q[k] : q \in merged} \union {NoRecord}
    BY DEF Inv, SharedIsLatest, Arrived
  <2>2. shared'[k] \in {q[k] : q \in merged'} \union {NoRecord}
    BY <1>1, <1>2, <2>1
  <2>3. ASSUME NEW q \in merged' PROVE Covers(shared'[k], q[k])
    <3>1. CASE q = p
      BY <3>1, SlotFacts, MergeCovers
    <3>2. CASE q \in merged
      <4>1. Covers(shared[k], q[k]) /\ q[k] \in Slot
        BY <3>2, SlotFacts DEF Inv, SharedIsLatest, Arrived
      <4> QED BY <4>1, MergeCovers
    <3> QED BY <1>1, <3>1, <3>2
  <2> QED BY <2>2, <2>3
<1> QED BY <1>1, <1>3, <1>5, <1>6 DEF Inv

LEMMA NextInv == Inv /\ [Next]_vars => Inv'
<1> SUFFICES ASSUME Inv, [Next]_vars PROVE Inv'
  OBVIOUS
<1>1. ASSUME NEW d \in Devices, LocalChange(d) PROVE Inv'
  <2>1. journal[d].nextRevision \in Nat
    BY DEF Inv, Journal
  <2>2. ASSUME NEW k \in Keys, NEW time \in Times, RecordTombstone(d, k, time) PROVE Inv'
    <3>1. Tombstone(d, journal[d].nextRevision, time) \in Record
      BY <2>1, JournalAssumption DEF Tombstone, Record
    <3>2. Tombstone(d, journal[d].nextRevision, time).revision = journal[d].nextRevision
      BY DEF Tombstone
    <3> QED BY <2>2, <3>1, <3>2, ChangeInv DEF RecordTombstone
  <2>3. ASSUME NEW k \in Keys, NEW time \in Times, NEW payload \in Payloads,
               RecordUpsert(d, k, payload, time)
        PROVE  Inv'
    <3>1. Upsert(d, journal[d].nextRevision, payload, time) \in Record
      BY <2>1, RecordTypes
    <3>2. Upsert(d, journal[d].nextRevision, payload, time).revision = journal[d].nextRevision
      BY DEF Upsert
    <3> QED BY <2>3, <3>1, <3>2, ChangeInv DEF RecordUpsert
  <2> QED BY <1>1, <2>2, <2>3 DEF LocalChange
<1>2. ASSUME NEW d \in Devices, SendPackage(d) PROVE Inv'
  BY <1>2, SendInv
<1>3. ASSUME NEW d \in Devices, Acknowledge(d) PROVE Inv'
  BY <1>3, AcknowledgeInv DEF Acknowledge
<1>4. ASSUME NEW d \in Devices, Save(d) PROVE Inv'
  BY <1>4, LocalStep DEF Save, Inv
<1>5. ASSUME NEW d \in Devices, Restart(d) PROVE Inv'
  BY <1>5, LocalStep DEF Restart, Inv
<1>6. ASSUME NEW p \in packages, MergePackage(p) PROVE Inv'
  BY <1>6, MergeInv
<1>7. CASE UNCHANGED vars
  BY <1>7 DEF vars, Inv, JournalOK, Valid, AckedIsShared, SharedIsLatest, Arrived
<1> QED BY <1>1, <1>2, <1>3, <1>4, <1>5, <1>6, <1>7 DEF Next

LEMMA AlwaysInv == Spec => []Inv
  BY InitInv, NextInv, PTL DEF Spec

\* The state has its type.
THEOREM JournalTypes == Spec => []TypeOK
<1>1. Inv => TypeOK
  BY DEF Inv, TypeOK
<1> QED BY <1>1, AlwaysInv, PTL

\* The shared snapshot is the latest of what arrived, in any order and number.
THEOREM SharedConverges == Spec => []SharedIsLatest
<1>1. Inv => SharedIsLatest
  BY DEF Inv
<1> QED BY <1>1, AlwaysInv, PTL

\* What a device believes acknowledged is in the shared snapshot or superseded there.
THEOREM AcknowledgementsAreSafe == Spec => []AcknowledgedIsShared
<1>1. Inv => AcknowledgedIsShared
  BY DEF Inv, JournalOK, AckedIsShared, AcknowledgedIsShared
<1> QED BY <1>1, AlwaysInv, PTL

\* Every journal passes the validation that saving and restarting run.
THEOREM JournalsAreValid == Spec => []JournalIsValid
<1>1. Inv => JournalIsValid
  BY DEF Inv, JournalOK, JournalIsValid
<1> QED BY <1>1, AlwaysInv, PTL

\* The shared snapshot never goes back.
THEOREM SharedMovesForward == Spec => SharedNeverRegresses
<1>1. Inv /\ [Next]_vars => [\A k \in Keys : Covers(shared'[k], shared[k])]_vars
  <2> SUFFICES ASSUME Inv, Next, NEW k \in Keys PROVE Covers(shared'[k], shared[k])
    OBVIOUS
  <2>1. CASE shared' = shared
    BY <2>1 DEF Covers
  <2>2. ASSUME NEW p \in packages, MergePackage(p) PROVE Covers(shared'[k], shared[k])
    BY <2>2, SlotFacts, MergeCovers
  <2> QED BY <2>1, <2>2 DEF Next, LocalChange, RecordTombstone, RecordUpsert, Change,
                            SendPackage, Acknowledge, AcknowledgePackage, Save, Restart
<1> QED BY <1>1, AlwaysInv, PTL DEF Spec, SharedNeverRegresses

(***************************************************************************)
(* Merging snapshots under a policy.                                       *)
(***************************************************************************)
\* A record of a snapshot is a version some device wrote, at its own key or in
\* the conflict copy that is named after it.
AtHome(k, r) == \E v \in Versions : r = v.record /\ k \in {v.key, CopyKey(v.key, v.record)}
Home(snapshot) == \A k \in DOMAIN snapshot : AtHome(k, snapshot[k])

LEMMA VersionFacts ==
  ASSUME NEW v \in Versions
  PROVE  /\ v.record \in Record /\ v.key[2] = 0 /\ v.record.device # 0
         /\ CopyKey(v.key, v.record)[1] = v.key[1] /\ CopyKey(v.key, v.record)[2] = v.record.device
         /\ CopyKey(v.key, v.record)[3] = v.record.revision
  BY PolicyAssumption DEF CopyKey

LEMMA HomeIsRecord == ASSUME NEW k, NEW r, AtHome(k, r) PROVE r \in Record
  BY VersionFacts DEF AtHome

\* A conflict copy is of one version.
LEMMA CopiesAgree ==
  ASSUME RevisionsOnce, NEW k, NEW r, NEW s, AtHome(k, r), AtHome(k, s), k[2] # 0
  PROVE  r = s
<1>1. PICK v \in Versions : r = v.record /\ k \in {v.key, CopyKey(v.key, v.record)}
  BY DEF AtHome
<1>2. PICK w \in Versions : s = w.record /\ k \in {w.key, CopyKey(w.key, w.record)}
  BY DEF AtHome
<1>3. k = CopyKey(v.key, v.record) /\ k = CopyKey(w.key, w.record)
  BY <1>1, <1>2, VersionFacts
<1>4. v.record.device = w.record.device /\ v.record.revision = w.record.revision
  BY <1>3, VersionFacts
<1>5. v = w
  BY <1>4 DEF RevisionsOnce
<1> QED BY <1>1, <1>2, <1>5

\* Whatever is put at a conflict copy of a record at home is at home there.
LEMMA CopyIsHome ==
  ASSUME NEW k, NEW r, AtHome(k, r)
  PROVE  AtHome(CopyKey(k, r), r) /\ CopyKey(k, r)[2] # 0 /\ CopyKey(k, r)[1] = k[1]
<1>1. PICK v \in Versions : r = v.record /\ k \in {v.key, CopyKey(v.key, v.record)}
  BY DEF AtHome
<1>2. k[1] = v.key[1]
  BY <1>1, VersionFacts
<1>3. CopyKey(k, r) = CopyKey(v.key, v.record)
  BY <1>1, <1>2 DEF CopyKey
<1> QED BY <1>1, <1>2, <1>3, VersionFacts DEF AtHome

(* --------------------------- a pair of records ------------------------- *)

LEMMA EquivalentFacts ==
  ASSUME NEW r \in Record, NEW s \in Record
  PROVE  Equivalent(r, s) <=> /\ r.updatedAt = s.updatedAt /\ r.deleted = s.deleted
                              /\ r.revision = s.revision /\ r.payload = s.payload
  BY DEF Equivalent, Record

LEMMA ConflictIsSymmetric ==
  ASSUME NEW r \in Record, NEW s \in Record PROVE InConflict(r, s) <=> InConflict(s, r)
  BY EquivalentFacts DEF InConflict

\* Two records that are not in conflict say the same.
LEMMA NoConflictSame ==
  ASSUME NEW r \in Record, NEW s \in Record, ~InConflict(r, s)
  PROVE  r.deleted = s.deleted /\ r.payload = s.payload
  BY EquivalentFacts DEF InConflict

LEMMA RanksDiffer ==
  ASSUME NEW r, NEW s PROVE ~(Outranks(r, s) /\ Outranks(s, r))
<1> SUFFICES ASSUME Outranks(r, s), Outranks(s, r) PROVE FALSE
  OBVIOUS
<1>1. PICK i \in DeviceRank(r), j \in DeviceRank(s) : i < j
  BY DEF Outranks
<1>2. PICK m \in DeviceRank(s), n \in DeviceRank(r) : m < n
  BY DEF Outranks
<1>3. DOMAIN DevicePriority \subseteq Nat
  BY PolicyAssumption
<1>4. i \in Nat /\ j \in Nat /\ m \in Nat /\ n \in Nat
  BY <1>1, <1>2, <1>3 DEF DeviceRank
<1>5. j <= m /\ n <= i
  BY <1>1, <1>2 DEF DeviceRank
<1> QED BY <1>1, <1>2, <1>4, <1>5

LEMMA WinnerFacts ==
  ASSUME NEW r \in Record, NEW s \in Record
  PROVE  Winner(r, s) \in {r, s} /\ Winner(r, s) = Winner(s, r)
<1>1. ChooseRecord(r, s) = ChooseRecord(s, r) /\ ChooseRecord(r, s) \in {r, s}
  BY Asymmetric, Connected DEF ChooseRecord
<1> QED BY <1>1, ConflictIsSymmetric, RanksDiffer DEF Winner

LEMMA ResolvedIsSymmetric ==
  ASSUME NEW k, NEW r \in Record, NEW s \in Record
  PROVE  Resolved(k, r, s) = Resolved(k, s, r)
<1>1. CASE r = s
  BY <1>1
<1>2. CASE r # s
  <2>1. Winner(r, s) \in {r, s} /\ Winner(r, s) = Winner(s, r)
    BY WinnerFacts
  <2>2. (IF Winner(r, s) = r THEN s ELSE r) = (IF Winner(s, r) = s THEN r ELSE s)
    BY <1>2, <2>1
  <2> QED BY <2>1, <2>2, ConflictIsSymmetric DEF Resolved
<1> QED BY <1>1, <1>2

(* ------------------------------- snapshots ----------------------------- *)

\* The records that a merge of two snapshots puts together.
MergedRecords(local, remote) ==
  LET both == DOMAIN local \intersect DOMAIN remote
  IN {<<k, local[k]>> : k \in DOMAIN local \ both}
     \union {<<k, remote[k]>> : k \in DOMAIN remote \ both}
     \union UNION {Resolved(k, local[k], remote[k]) : k \in both}

LEMMA MergedFacts ==
  ASSUME NEW local, NEW remote, NEW x
  PROVE  x \in MergedRecords(local, remote) <=>
           \/ \E k \in DOMAIN local \ DOMAIN remote : x = <<k, local[k]>>
           \/ \E k \in DOMAIN remote \ DOMAIN local : x = <<k, remote[k]>>
           \/ \E k \in DOMAIN local \intersect DOMAIN remote : x \in Resolved(k, local[k], remote[k])
  BY DEF MergedRecords

LEMMA MergeIsNormalized ==
  ASSUME NEW local, NEW remote
  PROVE  MergeWithPolicy(local, remote) = Normalized(MergedRecords(local, remote))
  BY DEF MergeWithPolicy, MergedRecords

LEMMA MergedSymmetric ==
  ASSUME NEW local, NEW remote, Home(local), Home(remote)
  PROVE  MergedRecords(local, remote) = MergedRecords(remote, local)
<1>1. ASSUME NEW k \in DOMAIN local \intersect DOMAIN remote
      PROVE  Resolved(k, local[k], remote[k]) = Resolved(k, remote[k], local[k])
  <2>1. local[k] \in Record /\ remote[k] \in Record
    BY HomeIsRecord DEF Home
  <2> QED BY <2>1, ResolvedIsSymmetric
<1>2. ASSUME NEW x PROVE x \in MergedRecords(local, remote) <=> x \in MergedRecords(remote, local)
  BY <1>1, MergedFacts
<1> QED BY <1>2

\* What a record of a merge is: the only one at its key, and at home there.
LEMMA ResolvedFacts ==
  ASSUME NEW k, NEW r, NEW s, AtHome(k, r), AtHome(k, s), NEW x \in Resolved(k, r, s)
  PROVE  /\ x = <<x[1], x[2]>> /\ AtHome(x[1], x[2])
         /\ x = <<k, Winner(r, s)>> \/ x[1][2] # 0
<1>1. r \in Record /\ s \in Record /\ Winner(r, s) \in {r, s}
  BY HomeIsRecord, WinnerFacts
<1>2. CASE x = <<k, Winner(r, s)>>
  BY <1>1, <1>2
<1>3. CASE x # <<k, Winner(r, s)>>
  <2>1. PICK loser \in {r, s} : x = <<CopyKey(k, loser), loser>>
    BY <1>3 DEF Resolved
  <2> QED BY <2>1, CopyIsHome
<1> QED BY <1>2, <1>3

LEMMA MergedIsHome ==
  ASSUME NEW local, NEW remote, Home(local), Home(remote),
         NEW x \in MergedRecords(local, remote)
  PROVE  x = <<x[1], x[2]>> /\ AtHome(x[1], x[2])
<1>1. CASE \E k \in DOMAIN local \ DOMAIN remote : x = <<k, local[k]>>
  BY <1>1 DEF Home
<1>2. CASE \E k \in DOMAIN remote \ DOMAIN local : x = <<k, remote[k]>>
  BY <1>2 DEF Home
<1>3. ASSUME NEW k \in DOMAIN local \intersect DOMAIN remote, x \in Resolved(k, local[k], remote[k])
      PROVE  x = <<x[1], x[2]>> /\ AtHome(x[1], x[2])
  <2>1. AtHome(k, local[k]) /\ AtHome(k, remote[k])
    BY DEF Home
  <2> QED BY <1>3, <2>1, ResolvedFacts
<1> QED BY <1>1, <1>2, <1>3, MergedFacts

LEMMA MergedOnce ==
  ASSUME RevisionsOnce, NEW local, NEW remote, Home(local), Home(remote),
         NEW x \in MergedRecords(local, remote), NEW y \in MergedRecords(local, remote), x[1] = y[1]
  PROVE  x = y
<1>1. x = <<x[1], x[2]>> /\ AtHome(x[1], x[2]) /\ y = <<y[1], y[2]>> /\ AtHome(y[1], y[2])
  BY MergedIsHome
<1>2. CASE x[1][2] # 0
  BY <1>1, <1>2, CopiesAgree
<1>3. CASE x[1][2] = 0
  <2> DEFINE k == x[1]
             only == IF k \notin DOMAIN remote THEN local[k]
                     ELSE IF k \notin DOMAIN local THEN remote[k] ELSE Winner(local[k], remote[k])
  <2>1. ASSUME NEW z \in MergedRecords(local, remote), z[1] = k PROVE z = <<k, only>>
    <3>1. CASE \E l \in DOMAIN local \ DOMAIN remote : z = <<l, local[l]>>
      BY <2>1, <3>1
    <3>2. CASE \E l \in DOMAIN remote \ DOMAIN local : z = <<l, remote[l]>>
      BY <2>1, <3>2
    <3>3. ASSUME NEW l \in DOMAIN local \intersect DOMAIN remote, z \in Resolved(l, local[l], remote[l])
          PROVE  z = <<k, only>>
      <4>1. AtHome(l, local[l]) /\ AtHome(l, remote[l])
        BY DEF Home
      <4>2. z = <<l, Winner(local[l], remote[l])>> \/ z[1][2] # 0
        BY <3>3, <4>1, ResolvedFacts
      <4>3. z = <<l, Winner(local[l], remote[l])>>
        BY <1>3, <2>1, <4>2
      <4>4. l = k
        BY <2>1, <4>3
      <4> QED BY <4>3, <4>4
    <3> QED BY <3>1, <3>2, <3>3, MergedFacts
  <2> HIDE DEF only
  <2> QED BY <2>1
<1> QED BY <1>2, <1>3

LEMMA NormalizedFacts ==
  ASSUME NEW P, \A x \in P : x = <<x[1], x[2]>> /\ x[2] \in Record,
         \A x, y \in P : x[1] = y[1] => x = y
  PROVE  /\ \A k : k \in DOMAIN Normalized(P) <=> \E r : <<k, r>> \in P
         /\ \A k, r : <<k, r>> \in P => Normalized(P)[k] = r
<1>1. ASSUME NEW k PROVE k \in {kr[1] : kr \in P} <=> \E r : <<k, r>> \in P
  OBVIOUS
<1>2. DOMAIN Normalized(P) = {kr[1] : kr \in P}
  BY DEF Normalized
<1>3. ASSUME NEW k, NEW r, <<k, r>> \in P PROVE Normalized(P)[k] = r
  <2> DEFINE at == {kr[2] : kr \in {x \in P : x[1] = k}}
             Best(s) == \A kr \in P : kr[1] = k => ~Supersedes(kr[2], s)
  <2>1. \A s : s \in at <=> s = r
    BY <1>3
  <2>2. \A kr \in P : kr[1] = k => kr[2] = r
    BY <1>3
  <2>3. Best(r)
    BY <1>3, <2>2, Irreflexive
  <2>4. Normalized(P)[k] = CHOOSE s \in at : Best(s)
    BY <1>3, <1>1 DEF Normalized
  <2> HIDE DEF at, Best
  <2> QED BY <2>1, <2>3, <2>4
<1> QED BY <1>1, <1>2, <1>3

\* A merge of two snapshots at home has just the merged records, and is at home.
LEMMA MergeFacts ==
  ASSUME RevisionsOnce, NEW local, NEW remote, Home(local), Home(remote)
  PROVE  /\ Home(MergeWithPolicy(local, remote))
         /\ \A k, r : <<k, r>> \in MergedRecords(local, remote) =>
              /\ k \in DOMAIN MergeWithPolicy(local, remote)
              /\ MergeWithPolicy(local, remote)[k] = r
<1> DEFINE P == MergedRecords(local, remote)
           result == MergeWithPolicy(local, remote)
<1>1. \A x \in P : x = <<x[1], x[2]>> /\ AtHome(x[1], x[2]) /\ x[2] \in Record
  BY MergedIsHome, HomeIsRecord
<1>2. \A x, y \in P : x[1] = y[1] => x = y
  BY MergedOnce
<1>3. result = Normalized(P)
  BY MergeIsNormalized
<1> HIDE DEF P, result
<1>4. /\ \A k : k \in DOMAIN result <=> \E r : <<k, r>> \in P
      /\ \A k, r : <<k, r>> \in P => result[k] = r
  BY <1>1, <1>2, <1>3, NormalizedFacts
<1>5. ASSUME NEW k \in DOMAIN result PROVE AtHome(k, result[k])
  <2>1. PICK r : <<k, r>> \in P
    BY <1>4
  <2>2. AtHome(k, r)
    BY <1>1, <2>1
  <2> QED BY <1>4, <2>1, <2>2
<1> QED BY <1>4, <1>5 DEF Home, P, result

(* ------------------------------- the word ------------------------------ *)

\* A merge that keeps both sides, or that was not refused, holds what a side held.
LEMMA MergeHolds ==
  ASSUME RevisionsOnce, NEW local, NEW remote, Home(local), Home(remote), ~Refused(local, remote),
         policy \in {"keepBoth", "manual"}, NEW v, Holds(local, v)
  PROVE  Holds(MergeWithPolicy(local, remote), v)
<1> DEFINE result == MergeWithPolicy(local, remote)
<1>1. PICK k \in DOMAIN local :
        k[1] = v.key[1] /\ ~local[k].deleted /\ local[k].payload = v.record.payload
  BY DEF Holds
<1>2. \A l, r : <<l, r>> \in MergedRecords(local, remote) => l \in DOMAIN result /\ result[l] = r
  BY MergeFacts
<1> HIDE DEF result
<1> DEFINE Says(l, r) == l[1] = k[1] /\ r.deleted = local[k].deleted /\ r.payload = local[k].payload
           Put(l, r) == <<l, r>> \in MergedRecords(local, remote)
<1>3. ASSUME NEW l, NEW r, Put(l, r), Says(l, r) PROVE Holds(MergeWithPolicy(local, remote), v)
  <2>1. l \in DOMAIN result /\ result[l] = r
    BY <1>2, <1>3
  <2>2. l[1] = v.key[1] /\ ~result[l].deleted /\ result[l].payload = v.record.payload
    BY <1>1, <1>3, <2>1
  <2> QED BY <2>1, <2>2 DEF Holds, result
<1>4. CASE k \notin DOMAIN remote
  <2>1. Put(k, local[k]) /\ Says(k, local[k])
    BY <1>4, MergedFacts
  <2> HIDE DEF Put, Says
  <2> QED BY <1>3, <2>1
<1>5. CASE k \in DOMAIN remote
  <2> DEFINE r == local[k]
             s == remote[k]
             winner == Winner(r, s)
  <2>1. r \in Record /\ s \in Record /\ AtHome(k, r)
    BY <1>5, HomeIsRecord DEF Home
  <2>2. winner \in {r, s}
    BY <2>1, WinnerFacts
  <2>3. \A x \in Resolved(k, r, s) : x \in MergedRecords(local, remote)
    BY <1>5, MergedFacts
  <2>4. <<k, winner>> \in Resolved(k, r, s)
    BY DEF Resolved
  <2>5. <<k, winner>> \in MergedRecords(local, remote)
    BY <2>3, <2>4
  <2>6. CASE winner = r
    <3>1. Put(k, winner) /\ Says(k, winner)
      BY <2>5, <2>6
    <3> HIDE DEF Put, Says, winner
    <3> QED BY <1>3, <3>1
  <2>7. CASE winner # r /\ ~InConflict(r, s)
    <3>1. winner.deleted = r.deleted /\ winner.payload = r.payload
      BY <2>1, <2>2, <2>7, NoConflictSame
    <3>2. Put(k, winner) /\ Says(k, winner)
      BY <2>5, <3>1
    <3> HIDE DEF Put, Says, winner
    <3> QED BY <1>3, <3>2
  <2>8. CASE winner # r /\ InConflict(r, s)
    <3>1. policy = "keepBoth"
      BY <1>5, <2>8 DEF Refused
    <3>2. winner = s /\ ~r.deleted
      BY <1>1, <2>2, <2>8
    <3>3. (IF winner = r THEN s ELSE r) = r
      BY <2>8
    <3>4. <<CopyKey(k, r), r>> \in Resolved(k, r, s)
      BY <2>8, <3>1, <3>2, <3>3 DEF Resolved
    <3>5. <<CopyKey(k, r), r>> \in MergedRecords(local, remote) /\ CopyKey(k, r)[1] = k[1]
      BY <2>1, <2>3, <3>4, CopyIsHome
    <3>6. Put(CopyKey(k, r), r) /\ Says(CopyKey(k, r), r)
      BY <3>5
    <3> HIDE DEF Put, Says
    <3> QED BY <1>3, <3>6
  <2> QED BY <2>6, <2>7, <2>8
<1> QED BY <1>4, <1>5

LEMMA MergeSymmetric ==
  ASSUME NEW local, NEW remote, Home(local), Home(remote)
  PROVE  /\ Refused(local, remote) <=> Refused(remote, local)
         /\ MergeWithPolicy(local, remote) = MergeWithPolicy(remote, local)
<1>1. Refused(local, remote) <=> Refused(remote, local)
  <2>1. ASSUME NEW k \in DOMAIN local \intersect DOMAIN remote
        PROVE  InConflict(local[k], remote[k]) <=> InConflict(remote[k], local[k])
    <3>1. local[k] \in Record /\ remote[k] \in Record
      BY HomeIsRecord DEF Home
    <3> QED BY <3>1, ConflictIsSymmetric
  <2> QED BY <2>1 DEF Refused
<1>2. MergeWithPolicy(local, remote) = MergeWithPolicy(remote, local)
  BY MergedSymmetric, MergeIsNormalized
<1> QED BY <1>1, <1>2

Kept(d) == \A v \in known[d] : v.record.deleted \/ Holds(replica[d], v)

PolicyInv ==
  /\ DOMAIN replica = Replicas /\ replica = [d \in Replicas |-> replica[d]]
  /\ known \in [Replicas -> SUBSET Versions]
  /\ \A d \in Replicas : Home(replica[d])
  /\ policy \in {"keepBoth", "manual"} => \A d \in Replicas : Kept(d)

LEMMA MergeIntoInv ==
  ASSUME RevisionsOnce, PolicyInv, NEW d \in Replicas, NEW remote,
         NEW versions \in SUBSET Versions, Home(remote),
         MergeInto(d, remote, versions),
         policy \in {"keepBoth", "manual"} =>
           \A v \in versions : v.record.deleted \/ Holds(remote, v)
  PROVE  PolicyInv'
<1> DEFINE result == MergeWithPolicy(replica[d], remote)
<1>1. Home(replica[d]) /\ ~Refused(replica[d], remote) /\ policy' = policy
  BY DEF PolicyInv, MergeInto
<1>2. Home(result)
  BY <1>1, MergeFacts
<1>3. ASSUME policy \in {"keepBoth", "manual"}, NEW v \in known[d] \union versions
      PROVE  v.record.deleted \/ Holds(result, v)
  <2>1. CASE v \in known[d]
    <3>1. v.record.deleted \/ Holds(replica[d], v)
      BY <1>3, <2>1 DEF PolicyInv, Kept
    <3> QED BY <1>1, <1>3, <3>1, MergeHolds
  <2>2. CASE v \in versions
    <3>1. v.record.deleted \/ Holds(remote, v)
      BY <1>3, <2>2
    <3>2. ~Refused(remote, replica[d]) /\ result = MergeWithPolicy(remote, replica[d])
      BY <1>1, MergeSymmetric
    <3>3. Holds(remote, v) => Holds(MergeWithPolicy(remote, replica[d]), v)
      BY <1>1, <1>3, <3>2, MergeHolds
    <3> QED BY <3>1, <3>2, <3>3
  <2> QED BY <1>3, <2>1, <2>2
<1> HIDE DEF result
<1>4. replica' = [replica EXCEPT ![d] = result] /\ known' = [known EXCEPT ![d] = @ \union versions]
  BY DEF MergeInto, result
<1>5. DOMAIN replica' = Replicas /\ replica' = [e \in Replicas |-> replica'[e]]
      /\ known' \in [Replicas -> SUBSET Versions]
  BY <1>4 DEF PolicyInv
<1>6. replica'[d] = result /\ known'[d] = known[d] \union versions
      /\ \A e \in Replicas \ {d} : replica'[e] = replica[e] /\ known'[e] = known[e]
  BY <1>4 DEF PolicyInv
<1>7. \A e \in Replicas : Home(replica'[e])
  BY <1>2, <1>6 DEF PolicyInv
<1>8. ASSUME policy \in {"keepBoth", "manual"}, NEW e \in Replicas,
             NEW v \in known'[e] PROVE v.record.deleted \/ Holds(replica'[e], v)
  <2>1. CASE e = d
    BY <1>3, <1>6, <1>8, <2>1
  <2>2. CASE e # d
    BY <1>6, <1>8, <2>2 DEF PolicyInv, Kept
  <2> QED BY <2>1, <2>2
<1> QED BY <1>1, <1>5, <1>7, <1>8 DEF PolicyInv, Kept, Home, Holds

LEMMA PolicyNextInv ==
  ASSUME RevisionsOnce, PolicyInv, [PolicyNext]_policyVars
  PROVE  PolicyInv'
<1>1. ASSUME NEW d \in Replicas, NEW v \in Versions, Receive(d, v) PROVE PolicyInv'
  <2> DEFINE alone == [k \in {v.key} |-> v.record]
  <2>1. Home(alone) /\ (v.record.deleted \/ Holds(alone, v))
    BY DEF Home, AtHome, Holds
  <2>2. MergeInto(d, alone, {v})
    BY <1>1 DEF Receive
  <2> HIDE DEF alone
  <2> QED BY <2>1, <2>2, MergeIntoInv
<1>2. ASSUME NEW d \in Replicas, NEW e \in Replicas, MergeReplica(d, e) PROVE PolicyInv'
  <2>1. Home(replica[e]) /\ known[e] \in SUBSET Versions
    BY DEF PolicyInv
  <2>2. policy \in {"keepBoth", "manual"} => \A v \in known[e] : v.record.deleted \/ Holds(replica[e], v)
    BY DEF PolicyInv, Kept
  <2>3. MergeInto(d, replica[e], known[e])
    BY <1>2 DEF MergeReplica
  <2> QED BY <2>1, <2>2, <2>3, MergeIntoInv
<1>3. CASE UNCHANGED policyVars
  BY <1>3 DEF policyVars, PolicyInv, Kept, Home, Holds
<1> QED BY <1>1, <1>2, <1>3 DEF PolicyNext

\* For any versions whose devices have used no revision twice, any replicas and
\* priorities, and merges in any order and number: which replica merges the other
\* makes no difference, and under keep-both and manual what was written is in every
\* snapshot that met it, at its id or in a conflict copy.
THEOREM PoliciesHold ==
  ASSUME RevisionsOnce
  PROVE  PolicySpec => []PoliciesKeepTheirWord
<1>1. PolicyInit => PolicyInv
  BY DEF PolicyInit, PolicyInv, Home, Kept
<1>2. PolicyInv => PoliciesKeepTheirWord
  <2> SUFFICES ASSUME PolicyInv PROVE PoliciesKeepTheirWord
    OBVIOUS
  <2>1. MergeIsSymmetric
    <3> SUFFICES ASSUME NEW d \in Replicas, NEW e \in Replicas
                 PROVE  /\ Refused(replica[d], replica[e]) = Refused(replica[e], replica[d])
                        /\ MergeWithPolicy(replica[d], replica[e]) = MergeWithPolicy(replica[e], replica[d])
      BY DEF MergeIsSymmetric
    <3>1. Home(replica[d]) /\ Home(replica[e])
      BY DEF PolicyInv
    <3>2. Refused(replica[d], replica[e]) = Refused(replica[e], replica[d])
      BY <3>1, MergeSymmetric DEF Refused
    <3>3. MergeWithPolicy(replica[d], replica[e]) = MergeWithPolicy(replica[e], replica[d])
      BY <3>1, MergeSymmetric
    <3> QED BY <3>2, <3>3
  <2>2. NothingIsLost
    BY DEF PolicyInv, Kept, NothingIsLost
  <2> QED BY <2>1, <2>2 DEF PoliciesKeepTheirWord
<1>3. PolicyInv /\ [PolicyNext]_policyVars => PolicyInv'
  BY PolicyNextInv
<1> QED BY <1>1, <1>2, <1>3, PTL DEF PolicySpec

(***************************************************************************)
(* Reading progress in a shared file.                                      *)
(***************************************************************************)
(* ---------------------- the two orders of progress --------------------- *)

IsProgress(r) == r \in [book : {r.book}, chapter : Int, device : Int, updatedAt : Int, version : Int, fraction : Int]
SameKey(r, s) == r.book = s.book /\ r.chapter = s.chapter /\ r.device = s.device

LEMMA SameKeyMeans == ASSUME NEW r, NEW s PROVE ProgressKey(r) = ProgressKey(s) <=> SameKey(r, s)
  BY DEF ProgressKey, SameKey

LEMMA NewerMeans ==
  ASSUME NEW r, NEW s
  PROVE  Newer(r, s) <=>
           \/ r.updatedAt > s.updatedAt
           \/ r.updatedAt = s.updatedAt /\ r.version > s.version
           \/ r.updatedAt = s.updatedAt /\ r.version = s.version /\ r.fraction > s.fraction
<1> DEFINE x == <<r.updatedAt, r.version, r.fraction>>
           y == <<s.updatedAt, s.version, s.fraction>>
<1>1. Newer(r, s) <=> \E i \in DOMAIN x : x[i] > y[i] /\ \A j \in 1..(i - 1) : x[j] = y[j]
  BY DEF Newer, Precedes
<1>2. DOMAIN x = 1..3 /\ x[1] = r.updatedAt /\ x[2] = r.version /\ x[3] = r.fraction
      /\ y[1] = s.updatedAt /\ y[2] = s.version /\ y[3] = s.fraction
  OBVIOUS
<1> HIDE DEF x, y
<1>3. Newer(r, s) <=>
        \/ x[1] > y[1] /\ \A j \in 1..0 : x[j] = y[j]
        \/ x[2] > y[2] /\ \A j \in 1..1 : x[j] = y[j]
        \/ x[3] > y[3] /\ \A j \in 1..2 : x[j] = y[j]
  BY <1>1, <1>2
<1> QED BY <1>2, <1>3

LEMMA KeepsMeans ==
  ASSUME NEW r, NEW s
  PROVE  Keeps(r, s) <=>
           \/ r.updatedAt > s.updatedAt
           \/ r.updatedAt = s.updatedAt /\ r.version > s.version
           \/ r.updatedAt = s.updatedAt /\ r.version = s.version /\ r.chapter > s.chapter
           \/ r.updatedAt = s.updatedAt /\ r.version = s.version /\ r.chapter = s.chapter /\ r.device > s.device
<1> DEFINE x == <<r.updatedAt, r.version, r.chapter, r.device>>
           y == <<s.updatedAt, s.version, s.chapter, s.device>>
<1>1. Keeps(r, s) <=> \E i \in DOMAIN x : x[i] > y[i] /\ \A j \in 1..(i - 1) : x[j] = y[j]
  BY DEF Keeps, Precedes
<1>2. DOMAIN x = 1..4 /\ x[1] = r.updatedAt /\ x[2] = r.version /\ x[3] = r.chapter /\ x[4] = r.device
      /\ y[1] = s.updatedAt /\ y[2] = s.version /\ y[3] = s.chapter /\ y[4] = s.device
  OBVIOUS
<1> HIDE DEF x, y
<1>3. Keeps(r, s) <=>
        \/ x[1] > y[1] /\ \A j \in 1..0 : x[j] = y[j]
        \/ x[2] > y[2] /\ \A j \in 1..1 : x[j] = y[j]
        \/ x[3] > y[3] /\ \A j \in 1..2 : x[j] = y[j]
        \/ x[4] > y[4] /\ \A j \in 1..3 : x[j] = y[j]
  BY <1>1, <1>2
<1> QED BY <1>2, <1>3

\* Of two records of a key one is newer, and nothing is newer than itself.
LEMMA NewerOrder ==
  ASSUME NEW r, NEW s, NEW t, IsProgress(r), IsProgress(s), IsProgress(t)
  PROVE  /\ ~Newer(r, r)
         /\ Newer(r, s) /\ Newer(s, t) => Newer(r, t)
         /\ SameKey(r, s) => r = s \/ Newer(r, s) \/ Newer(s, r)
<1>1. ~Newer(r, r)
  BY NewerMeans DEF IsProgress
<1>2. Newer(r, s) /\ Newer(s, t) => Newer(r, t)
  BY NewerMeans DEF IsProgress
<1>3. SameKey(r, s) => r = s \/ Newer(r, s) \/ Newer(s, r)
  BY NewerMeans DEF IsProgress, SameKey
<1> QED BY <1>1, <1>2, <1>3

\* What is kept first: of two keys of a book one; and a newer record keeps its place.
LEMMA KeepsOrder ==
  ASSUME NEW r, NEW s, NEW t, IsProgress(r), IsProgress(s), IsProgress(t)
  PROVE  /\ ~Keeps(r, r)
         /\ Keeps(r, s) /\ Keeps(s, t) => Keeps(r, t)
         /\ r.book = s.book => SameKey(r, s) \/ Keeps(r, s) \/ Keeps(s, r)
         /\ SameKey(r, s) /\ Newer(r, s) /\ Keeps(s, t) => Keeps(r, t)
         /\ SameKey(s, t) /\ Newer(s, t) /\ Keeps(r, s) => Keeps(r, t)
<1>1. ~Keeps(r, r)
  BY KeepsMeans DEF IsProgress
<1>2. Keeps(r, s) /\ Keeps(s, t) => Keeps(r, t)
  BY KeepsMeans DEF IsProgress
<1>3. r.book = s.book => SameKey(r, s) \/ Keeps(r, s) \/ Keeps(s, r)
  BY KeepsMeans DEF IsProgress, SameKey
<1>4. SameKey(r, s) /\ Newer(r, s) /\ Keeps(s, t) => Keeps(r, t)
  BY KeepsMeans, NewerMeans DEF IsProgress, SameKey
<1>5. SameKey(s, t) /\ Newer(s, t) /\ Keeps(r, s) => Keeps(r, t)
  BY KeepsMeans, NewerMeans DEF IsProgress, SameKey
<1> QED BY <1>1, <1>2, <1>3, <1>4, <1>5

(* ------------------------- the newest of each key ---------------------- *)

ProgressSet(S) == IsFiniteSet(S) /\ \A r \in S : IsProgress(r)
OnePerKey(S) == \A r, s \in S : SameKey(r, s) => r = s

\* u is r, or a newer record of its key.
Updates(u, r) == SameKey(u, r) /\ (u = r \/ Newer(u, r))

LEMMA NewestMeans ==
  ASSUME NEW S, NEW r
  PROVE  r \in NewestOfEach(S) <=> r \in S /\ \A s \in S : SameKey(s, r) => ~Newer(s, r)
  BY SameKeyMeans DEF NewestOfEach

LEMMA NewestFacts ==
  ASSUME NEW S, ProgressSet(S)
  PROVE  /\ NewestOfEach(S) \subseteq S /\ ProgressSet(NewestOfEach(S)) /\ OnePerKey(NewestOfEach(S))
         /\ \A r \in S : \E u \in NewestOfEach(S) : Updates(u, r)
<1>1. NewestOfEach(S) \subseteq S
  BY NewestMeans
<1>2. ProgressSet(NewestOfEach(S))
  <2>1. IsFiniteSet(S) /\ NewestOfEach(S) \in SUBSET S
    BY <1>1 DEF ProgressSet
  <2>2. IsFiniteSet(NewestOfEach(S))
    BY <2>1, FS_Subset
  <2> QED BY <1>1, <2>2 DEF ProgressSet
<1>3. OnePerKey(NewestOfEach(S))
  <2> SUFFICES ASSUME NEW r \in NewestOfEach(S), NEW s \in NewestOfEach(S), SameKey(r, s) PROVE r = s
    BY DEF OnePerKey
  <2>1. r \in S /\ s \in S /\ IsProgress(r) /\ IsProgress(s) /\ SameKey(s, r)
    BY <1>1 DEF ProgressSet, SameKey
  <2>2. ~Newer(r, s) /\ ~Newer(s, r)
    BY <2>1, NewestMeans
  <2> QED BY <2>1, <2>2, NewerOrder
<1>4. ASSUME NEW r \in S PROVE \E u \in NewestOfEach(S) : Updates(u, r)
  <2> DEFINE T == {s \in S : SameKey(s, r)}
             R == {p \in T \X T : Newer(p[1], p[2])}
  <2>1. \A s : s \in T <=> s \in S /\ SameKey(s, r)
    OBVIOUS
  <2>2. \A s, t : <<s, t>> \in R <=> s \in T /\ t \in T /\ Newer(s, t)
    OBVIOUS
  <2>3. IsFiniteSet(T)
    <3>1. IsFiniteSet(S) /\ T \in SUBSET S
      BY DEF ProgressSet
    <3> QED BY <3>1, FS_Subset
  <2> HIDE DEF T, R
  <2>4. r \in T
    BY <2>1 DEF SameKey
  <2>5. \A s \in T : IsProgress(s)
    BY <2>1 DEF ProgressSet
  <2>6. \A s, t \in T : SameKey(s, t)
    BY <2>1 DEF SameKey
  <2>7. TransitiveOn(R, T) /\ TotalOn(R, T)
    BY <2>2, <2>5, <2>6, NewerOrder DEF TransitiveOn, TotalOn
  <2>8. PICK u : FirstIn(u, R, T)
    BY <2>3, <2>4, <2>7, FirstExists
  <2>9. u \in T /\ \A s \in T : s = u \/ Newer(u, s)
    BY <2>2, <2>8 DEF FirstIn
  <2>10. Updates(u, r)
    BY <2>1, <2>4, <2>9 DEF Updates
  <2>11. ASSUME NEW s \in S, SameKey(s, u) PROVE ~Newer(s, u)
    <3>1. s \in T
      BY <2>1, <2>9, <2>11 DEF SameKey
    <3>2. IsProgress(s) /\ IsProgress(u)
      BY <2>5, <2>9, <3>1
    <3> QED BY <2>9, <3>1, <3>2, NewerOrder
  <2>12. u \in NewestOfEach(S)
    BY <2>1, <2>9, <2>11, NewestMeans
  <2> QED BY <2>10, <2>12
<1> QED BY <1>1, <1>2, <1>3, <1>4

(* --------------------------- the limit of a book ----------------------- *)

\* The records of its book that are kept before r.
Above(S, r) == {s \in S : s.book = r.book /\ Keeps(s, r)}

LEMMA LimitMeans ==
  ASSUME NEW S, NEW r
  PROVE  r \in WithinLimit(S) <=> r \in S /\ Cardinality(Above(S, r)) < MaxRecordsPerBook
  BY DEF WithinLimit, Above

LEMMA AboveFacts ==
  ASSUME NEW S, ProgressSet(S), NEW r
  PROVE  /\ IsFiniteSet(Above(S, r)) /\ Cardinality(Above(S, r)) \in Nat
         /\ \A s : s \in Above(S, r) <=> s \in S /\ s.book = r.book /\ Keeps(s, r)
<1>1. IsFiniteSet(S) /\ Above(S, r) \in SUBSET S
  BY DEF ProgressSet, Above
<1>2. IsFiniteSet(Above(S, r))
  BY <1>1, FS_Subset
<1>3. \A s : s \in Above(S, r) <=> s \in S /\ s.book = r.book /\ Keeps(s, r)
  BY DEF Above
<1> QED BY <1>2, <1>3, FS_CardinalityType

\* What is above one is above what stands below it.
LEMMA AboveGrows ==
  ASSUME NEW S, ProgressSet(S), NEW s, IsProgress(s), NEW r, IsProgress(r),
         s.book = r.book, Keeps(s, r)
  PROVE  Above(S, s) \subseteq Above(S, r) /\ Cardinality(Above(S, s)) <= Cardinality(Above(S, r))
<1>1. ASSUME NEW t \in Above(S, s) PROVE t \in Above(S, r)
  <2>1. t \in S /\ t.book = s.book /\ Keeps(t, s)
    BY AboveFacts
  <2>2. IsProgress(t)
    BY <2>1 DEF ProgressSet
  <2>3. Keeps(t, r)
    BY <2>1, <2>2, KeepsOrder
  <2> QED BY <2>1, <2>3, AboveFacts
<1>2. Above(S, s) \in SUBSET Above(S, r) /\ IsFiniteSet(Above(S, r))
  BY <1>1, AboveFacts
<1> QED BY <1>2, FS_Subset

\* A set that updates another has as many records before an update of r.
LEMMA UpdatesKeepPlaces ==
  ASSUME NEW S, ProgressSet(S), OnePerKey(S), NEW U, ProgressSet(U),
         \A s \in S : \E u \in U : Updates(u, s),
         NEW r, NEW t, IsProgress(r), IsProgress(t), Updates(r, t)
  PROVE  Cardinality(Above(S, r)) <= Cardinality(Above(U, t))
<1> DEFINE f == [s \in Above(S, r) |-> CHOOSE u \in U : Updates(u, s)]
<1>1. ASSUME NEW s \in Above(S, r) PROVE f[s] \in U /\ Updates(f[s], s)
  <2>1. s \in S
    BY AboveFacts
  <2>2. \E u \in U : Updates(u, s)
    BY <2>1
  <2>3. f[s] = CHOOSE u \in U : Updates(u, s)
    OBVIOUS
  <2> HIDE DEF f
  <2> QED BY <2>2, <2>3
<1>2. f = [s \in Above(S, r) |-> f[s]]
  OBVIOUS
<1> HIDE DEF f
<1>3. ASSUME NEW s \in Above(S, r) PROVE f[s] \in Above(U, t)
  <2>1. s \in S /\ s.book = r.book /\ Keeps(s, r)
    BY AboveFacts
  <2>2. f[s] \in U /\ Updates(f[s], s)
    BY <1>1
  <2>3. IsProgress(s) /\ IsProgress(f[s])
    BY <2>1, <2>2 DEF ProgressSet
  <2>4. Keeps(s, t)
    BY <2>1, <2>3, KeepsOrder DEF Updates
  <2>5. Keeps(f[s], t)
    BY <2>2, <2>3, <2>4, KeepsOrder DEF Updates
  <2>6. f[s].book = t.book
    BY <2>1, <2>2 DEF Updates, SameKey
  <2> QED BY <2>2, <2>5, <2>6, AboveFacts
<1>4. ASSUME NEW a \in Above(S, r), NEW b \in Above(S, r), f[a] = f[b] PROVE a = b
  <2>1. a \in S /\ b \in S
    BY AboveFacts
  <2>2. SameKey(f[a], a) /\ SameKey(f[b], b)
    BY <1>1 DEF Updates
  <2>3. SameKey(a, b)
    BY <1>4, <2>2 DEF SameKey
  <2> QED BY <2>1, <2>3 DEF OnePerKey
<1>5. f \in Injection(Above(S, r), Above(U, t))
  BY <1>2, <1>3, <1>4 DEF Injection, IsInjective
<1>6. IsFiniteSet(Above(U, t))
  BY AboveFacts
<1> QED BY <1>5, <1>6, FS_Injection

\* The first records of a book are within the limit: what is cut off has the limit
\* reached by records that are not.
LEMMA CutOffBehindLimit ==
  ASSUME NEW S, ProgressSet(S), OnePerKey(S), NEW r \in S, r \notin WithinLimit(S)
  PROVE  Cardinality(Above(WithinLimit(S), r)) >= MaxRecordsPerBook
<1> DEFINE T == Above(S, r)
           R == {p \in T \X T : Keeps(p[1], p[2])}
           before == [s \in T |-> {t \in T : Keeps(t, s)}]
           nth == [n \in 1..MaxRecordsPerBook |-> CHOOSE s \in T : Cardinality(before[s]) = n - 1]
           kept == Above(WithinLimit(S), r)
<1>1. /\ IsFiniteSet(T) /\ Cardinality(T) \in Nat /\ MaxRecordsPerBook \in Nat
      /\ Cardinality(T) >= MaxRecordsPerBook /\ IsProgress(r)
      /\ \A s : s \in T <=> s \in S /\ s.book = r.book /\ Keeps(s, r)
  <2>1. IsFiniteSet(T) /\ Cardinality(T) \in Nat /\ MaxRecordsPerBook \in Nat /\ IsProgress(r)
        /\ \A s : s \in T <=> s \in S /\ s.book = r.book /\ Keeps(s, r)
    BY AboveFacts, ProgressAssumption DEF ProgressSet
  <2>2. ~(Cardinality(T) < MaxRecordsPerBook)
    BY LimitMeans
  <2> HIDE DEF T
  <2> QED BY <2>1, <2>2
<1>2. \A s, t : <<s, t>> \in R <=> s \in T /\ t \in T /\ Keeps(s, t)
  OBVIOUS
<1>3. before \in [T -> SUBSET T] /\ \A s, t \in T : t \in before[s] <=> Keeps(t, s)
  OBVIOUS
<1> HIDE DEF T, R, before
<1>4. \A s \in T : s \in S /\ IsProgress(s) /\ s.book = r.book /\ Keeps(s, r)
  BY <1>1 DEF ProgressSet
<1>5. \A s, t \in T : s = t \/ Keeps(s, t) \/ Keeps(t, s)
  BY <1>4, KeepsOrder DEF OnePerKey
<1>6. TransitiveOn(R, T) /\ TotalOn(R, T) /\ (\A s \in T : <<s, s>> \notin R)
  BY <1>2, <1>4, <1>5, KeepsOrder DEF TransitiveOn, TotalOn
<1>7. \A s, t \in T : t \in before[s] <=> <<t, s>> \in R
  BY <1>2, <1>3
<1>8. \A n \in 1..Cardinality(T) : \E s \in T : Cardinality(before[s]) = n - 1
  BY <1>1, <1>3, <1>6, <1>7, RanksInOrder
<1>9. ASSUME NEW n \in 1..MaxRecordsPerBook PROVE nth[n] \in T /\ Cardinality(before[nth[n]]) = n - 1
  <2>1. n \in 1..Cardinality(T)
    BY <1>1
  <2>2. \E s \in T : Cardinality(before[s]) = n - 1
    BY <1>8, <2>1
  <2>3. nth[n] = CHOOSE s \in T : Cardinality(before[s]) = n - 1
    OBVIOUS
  <2> HIDE DEF nth
  <2> QED BY <2>2, <2>3
<1>10. nth = [n \in 1..MaxRecordsPerBook |-> nth[n]]
  OBVIOUS
<1> HIDE DEF nth
<1>11. ASSUME NEW s \in T PROVE Above(S, s) = before[s]
  <2>1. ASSUME NEW t PROVE t \in Above(S, s) <=> t \in before[s]
    <3>1. t \in Above(S, s) <=> t \in S /\ t.book = s.book /\ Keeps(t, s)
      BY AboveFacts
    <3>2. t \in before[s] <=> t \in T /\ Keeps(t, s)
      BY <1>3
    <3>3. ASSUME t \in S, t.book = s.book, Keeps(t, s) PROVE t \in T
      <4>1. IsProgress(t) /\ IsProgress(s) /\ Keeps(s, r) /\ s.book = r.book
        BY <1>4, <3>3 DEF ProgressSet
      <4>2. Keeps(t, r)
        BY <1>1, <3>3, <4>1, KeepsOrder
      <4> QED BY <1>1, <3>3, <4>1, <4>2
    <3>4. t \in T => t \in S /\ t.book = s.book
      BY <1>4
    <3> QED BY <3>1, <3>2, <3>3, <3>4
  <2> QED BY <2>1
<1>12. ProgressSet(WithinLimit(S))
  <2>1. IsFiniteSet(S) /\ WithinLimit(S) \in SUBSET S
    BY LimitMeans DEF ProgressSet
  <2>2. IsFiniteSet(WithinLimit(S))
    BY <2>1, FS_Subset
  <2> QED BY <2>1, <2>2 DEF ProgressSet
<1>13. ASSUME NEW n \in 1..MaxRecordsPerBook PROVE nth[n] \in kept
  <2>1. nth[n] \in T /\ Cardinality(Above(S, nth[n])) = n - 1
    BY <1>9, <1>11
  <2>2. n - 1 < MaxRecordsPerBook
    BY <1>1
  <2>3. nth[n] \in WithinLimit(S)
    BY <1>4, <2>1, <2>2, LimitMeans
  <2> QED BY <1>4, <1>12, <2>1, <2>3, AboveFacts
<1>14. ASSUME NEW m \in 1..MaxRecordsPerBook, NEW n \in 1..MaxRecordsPerBook, nth[m] = nth[n]
       PROVE  m = n
  <2>1. m - 1 = n - 1
    BY <1>9, <1>14
  <2>2. m \in Int /\ n \in Int
    BY <1>1
  <2> QED BY <2>1, <2>2
<1> HIDE DEF kept
<1>15. nth \in Injection(1..MaxRecordsPerBook, kept)
  BY <1>10, <1>13, <1>14 DEF Injection, IsInjective
<1>16. IsFiniteSet(kept) /\ Cardinality(kept) \in Nat
  BY <1>12, AboveFacts DEF kept
<1>17. Cardinality(1..MaxRecordsPerBook) <= Cardinality(kept)
  BY <1>15, <1>16, FS_Injection
<1>18. Cardinality(1..MaxRecordsPerBook) = MaxRecordsPerBook
  <2>1. MaxRecordsPerBook \in Int /\ 1 \in Int /\ MaxRecordsPerBook >= 1
    BY ProgressAssumption
  <2>2. Cardinality(1..MaxRecordsPerBook) =
          IF 1 > MaxRecordsPerBook THEN 0 ELSE MaxRecordsPerBook - 1 + 1
    BY <2>1, FS_Interval
  <2> QED BY <2>1, <2>2
<1> QED BY <1>1, <1>16, <1>17, <1>18 DEF kept

\* The limit may be applied early: what it cut off before stays cut off, and nothing
\* takes its place that would not have it anyway.
LEMMA LimitMayBeEarly ==
  ASSUME NEW A, ProgressSet(A), NEW B, ProgressSet(B)
  PROVE  WithinLimit(NewestOfEach(WithinLimit(NewestOfEach(A)) \union B))
           = WithinLimit(NewestOfEach(A \union B))
<1> DEFINE X == NewestOfEach(A)
           Y == WithinLimit(X)
           Z == NewestOfEach(Y \union B)
           T == NewestOfEach(A \union B)
           M == MaxRecordsPerBook
<1>1. ProgressSet(X) /\ OnePerKey(X) /\ X \subseteq A
      /\ \A s : s \in X <=> s \in A /\ \A t \in A : SameKey(t, s) => ~Newer(t, s)
  BY NewestFacts, NewestMeans
<1>2. \A s : s \in Y <=> s \in X /\ Cardinality(Above(X, s)) < M
  BY LimitMeans
<1> HIDE DEF X
<1>3. ProgressSet(Y) /\ OnePerKey(Y)
  <2>1. IsFiniteSet(X) /\ Y \in SUBSET X
    BY <1>1, <1>2 DEF ProgressSet
  <2>2. IsFiniteSet(Y)
    BY <2>1, FS_Subset
  <2> QED BY <1>1, <2>1, <2>2 DEF ProgressSet, OnePerKey
<1>4. \A s \in X \ Y : Cardinality(Above(Y, s)) >= M
  BY <1>1, CutOffBehindLimit
<1> HIDE DEF Y
<1>5. ProgressSet(Y \union B) /\ ProgressSet(A \union B)
  BY <1>3, FS_Union DEF ProgressSet
<1>6. /\ ProgressSet(Z) /\ OnePerKey(Z) /\ Z \subseteq Y \union B
      /\ \A s : s \in Z <=> s \in Y \union B /\ \A t \in Y \union B : SameKey(t, s) => ~Newer(t, s)
      /\ \A s \in Y \union B : \E u \in Z : Updates(u, s)
  BY <1>5, NewestFacts, NewestMeans
<1>7. /\ ProgressSet(T) /\ OnePerKey(T) /\ T \subseteq A \union B
      /\ \A s : s \in T <=> s \in A \union B /\ \A t \in A \union B : SameKey(t, s) => ~Newer(t, s)
      /\ \A s \in A \union B : \E u \in T : Updates(u, s)
  BY <1>5, NewestFacts, NewestMeans
<1> HIDE DEF Z, T
<1>8. Y \subseteq A
  BY <1>1, <1>2
<1>9. \A s \in Y : (\E u \in Z : Updates(u, s)) /\ (\E u \in T : Updates(u, s))
  BY <1>6, <1>7, <1>8
<1>10. \A s \in Z : \E u \in T : Updates(u, s)
  BY <1>6, <1>7, <1>8
<1>11. \A s : IsProgress(s) =>
         /\ Cardinality(Above(Y, s)) \in Nat /\ Cardinality(Above(Z, s)) \in Nat
         /\ Cardinality(Above(T, s)) \in Nat
  BY <1>3, <1>6, <1>7, AboveFacts
\* What was cut off, and what it updates, has no place in either.
<1>12. ASSUME NEW s \in X \ Y, NEW t, IsProgress(t), Updates(s, t)
       PROVE  Cardinality(Above(Z, t)) >= M /\ Cardinality(Above(T, t)) >= M
  <2>1. IsProgress(s) /\ Cardinality(Above(Y, s)) >= M
    BY <1>1, <1>4 DEF ProgressSet
  <2>2. Cardinality(Above(Y, s)) <= Cardinality(Above(Z, t))
    BY <1>3, <1>6, <1>9, <1>12, <2>1, UpdatesKeepPlaces
  <2>3. Cardinality(Above(Y, s)) <= Cardinality(Above(T, t))
    BY <1>3, <1>7, <1>9, <1>12, <2>1, UpdatesKeepPlaces
  <2>4. M \in Nat
    BY ProgressAssumption
  <2> QED BY <1>11, <1>12, <2>1, <2>2, <2>3, <2>4
<1>13. \A s \in T \ Z : s \in X \ Y
  BY <1>1, <1>2, <1>6, <1>7, <1>8
<1>14. ASSUME NEW s \in Z \ T PROVE Cardinality(Above(Z, s)) >= M
  <2>1. PICK t \in T : Updates(t, s)
    BY <1>10
  <2>2. SameKey(t, s) /\ Newer(t, s)
    BY <1>14, <2>1 DEF Updates
  <2>3. t \notin Z
    BY <1>6, <1>14, <2>2
  <2>4. IsProgress(s)
    BY <1>6, <1>14 DEF ProgressSet
  <2> QED BY <1>12, <1>13, <2>1, <2>3, <2>4
<1>15. ASSUME NEW r \in Z \intersect T
       PROVE  Cardinality(Above(Z, r)) < M <=> Cardinality(Above(T, r)) < M
  <2>1. IsProgress(r) /\ Updates(r, r)
    BY <1>6 DEF ProgressSet, Updates, SameKey
  <2>2. Cardinality(Above(Z, r)) <= Cardinality(Above(T, r))
    BY <1>6, <1>7, <1>10, <2>1, UpdatesKeepPlaces
  <2>3. ASSUME Cardinality(Above(Z, r)) < M PROVE Cardinality(Above(T, r)) <= Cardinality(Above(Z, r))
    <3>1. ASSUME NEW s \in Above(T, r) PROVE s \in Above(Z, r)
      <4>1. s \in T /\ s.book = r.book /\ Keeps(s, r)
        BY <1>7, AboveFacts
      <4>2. IsProgress(s) /\ Updates(s, s)
        BY <1>7, <4>1 DEF ProgressSet, Updates, SameKey
      <4>3. s \in Z
        <5>1. SUFFICES ASSUME s \notin Z PROVE FALSE
          OBVIOUS
        <5>2. Cardinality(Above(Z, s)) >= M
          BY <1>12, <1>13, <4>1, <4>2, <5>1
        <5>3. Cardinality(Above(Z, s)) <= Cardinality(Above(Z, r))
          BY <1>6, <2>1, <4>1, <4>2, AboveGrows
        <5>4. M \in Nat
          BY ProgressAssumption
        <5> QED BY <1>11, <2>1, <2>3, <4>2, <5>2, <5>3, <5>4
      <4> QED BY <1>6, <4>1, <4>3, AboveFacts
    <3>2. IsFiniteSet(Above(Z, r)) /\ Above(T, r) \in SUBSET Above(Z, r)
      BY <1>6, <3>1, AboveFacts
    <3> QED BY <3>2, FS_Subset
  <2>4. M \in Nat
    BY ProgressAssumption
  <2> QED BY <1>11, <2>1, <2>2, <2>3, <2>4
<1>16. ASSUME NEW s \in T \ Z PROVE Cardinality(Above(T, s)) >= M
  <2>1. s \in X \ Y /\ IsProgress(s) /\ Updates(s, s)
    BY <1>7, <1>13 DEF ProgressSet, Updates, SameKey
  <2> QED BY <1>12, <2>1
<1>17. ASSUME NEW s PROVE s \in WithinLimit(Z) <=> s \in WithinLimit(T)
  <2>1. /\ s \in WithinLimit(Z) <=> s \in Z /\ Cardinality(Above(Z, s)) < M
        /\ s \in WithinLimit(T) <=> s \in T /\ Cardinality(Above(T, s)) < M
    BY LimitMeans
  <2>2. ASSUME s \in Z \union T
        PROVE  /\ Cardinality(Above(Z, s)) \in Nat /\ Cardinality(Above(T, s)) \in Nat /\ M \in Nat
    BY <1>6, <1>7, <1>11, <2>2, ProgressAssumption DEF ProgressSet
  <2>3. s \in Z \ T => ~(Cardinality(Above(Z, s)) < M)
    BY <1>14, <2>2
  <2>4. s \in T \ Z => ~(Cardinality(Above(T, s)) < M)
    BY <1>16, <2>2
  <2> QED BY <1>15, <2>1, <2>3, <2>4
<1> QED BY <1>17 DEF T, Z, Y, X

(* ------------------------------- the file ------------------------------ *)

\* A push writes one record of a key: of two from one side neither is there twice,
\* and of two from both sides the device's own beats the other.
LEMMA PushedFacts ==
  ASSUME NEW local, ProgressSet(local), OnePerKey(local),
         NEW remote, ProgressSet(remote), OnePerKey(remote)
  PROVE  ProgressSet(Pushed(local, remote)) /\ OnePerKey(Pushed(local, remote))
         /\ Pushed(local, remote) \subseteq local \union remote
<1> DEFINE all == local \union remote
           Later(s, r) == Precedes(s, r, LAMBDA x : <<x.updatedAt, -x.version>>)
           Beats(s, r) == /\ ProgressKey(s) = ProgressKey(r)
                          /\ \/ Later(s, r)
                             \/ /\ s.updatedAt = r.updatedAt /\ s.version = r.version
                                /\ s \in local /\ r \notin local
           out == Pushed(local, remote)
<1>1. out = {r \in all : ~\E s \in all : Beats(s, r)}
  BY DEF Pushed
<1>2. ASSUME NEW r, NEW s, IsProgress(r), IsProgress(s), ~Later(r, s), ~Later(s, r)
      PROVE  r.updatedAt = s.updatedAt /\ r.version = s.version
  <2>1. ASSUME NEW p, NEW q, IsProgress(p), IsProgress(q), ~Later(p, q)
        PROVE  /\ ~(p.updatedAt > q.updatedAt)
               /\ p.updatedAt = q.updatedAt => ~(-p.version > -q.version)
    <3> DEFINE x == <<p.updatedAt, -p.version>>
               y == <<q.updatedAt, -q.version>>
    <3>1. Later(p, q) <=> \E i \in DOMAIN x : x[i] > y[i] /\ \A j \in 1..(i - 1) : x[j] = y[j]
      BY DEF Precedes
    <3>2. DOMAIN x = 1..2 /\ x[1] = p.updatedAt /\ x[2] = -p.version
          /\ y[1] = q.updatedAt /\ y[2] = -q.version
      OBVIOUS
    <3> HIDE DEF x, y, Later
    <3>3. x[1] > y[1] => Later(p, q)
      BY <3>1, <3>2
    <3>4. x[1] = y[1] /\ x[2] > y[2] => Later(p, q)
      BY <3>1, <3>2
    <3> QED BY <2>1, <3>2, <3>3, <3>4
  <2> HIDE DEF Later
  <2>2. /\ ~(r.updatedAt > s.updatedAt) /\ ~(s.updatedAt > r.updatedAt)
        /\ r.updatedAt = s.updatedAt => ~(-r.version > -s.version) /\ ~(-s.version > -r.version)
    BY <1>2, <2>1
  <2>3. r.updatedAt \in Int /\ s.updatedAt \in Int /\ r.version \in Int /\ s.version \in Int
    BY <1>2 DEF IsProgress
  <2> QED BY <2>2, <2>3
<1>3. ProgressSet(all)
  BY FS_Union DEF ProgressSet
<1>4. ProgressSet(out) /\ out \subseteq all
  <2>1. IsFiniteSet(all) /\ out \in SUBSET all
    BY <1>1, <1>3 DEF ProgressSet
  <2>2. IsFiniteSet(out)
    BY <2>1, FS_Subset
  <2> QED BY <1>3, <2>1, <2>2 DEF ProgressSet
<1>5. ASSUME NEW r \in out, NEW s \in out, SameKey(r, s) PROVE r = s
  <2>1. r \in all /\ s \in all /\ ~Beats(r, s) /\ ~Beats(s, r)
    BY <1>1
  <2>2. ProgressKey(r) = ProgressKey(s)
    BY <1>5, SameKeyMeans
  <2>3. IsProgress(r) /\ IsProgress(s)
    BY <1>3, <2>1 DEF ProgressSet
  <2>4. ~Later(r, s) /\ ~Later(s, r)
    BY <2>1, <2>2
  <2> HIDE DEF Later
  <2>5. r.updatedAt = s.updatedAt /\ r.version = s.version
    BY <1>2, <2>3, <2>4
  <2>6. r \in local <=> s \in local
    BY <2>1, <2>2, <2>5
  <2>7. CASE r \in local
    BY <1>5, <2>6, <2>7 DEF OnePerKey
  <2>8. CASE r \notin local
    BY <1>5, <2>1, <2>6, <2>8 DEF OnePerKey
  <2> QED BY <2>7, <2>8
<1> QED BY <1>4, <1>5 DEF OnePerKey

\* What can be in the file, and what a device keeps of what it met.
FileOK(S) == S \subseteq ProgressRecords /\ ProgressSet(S) /\ OnePerKey(S)

CloudInv ==
  /\ DOMAIN progress = Readers /\ progress = [d \in Readers |-> progress[d]]
  /\ DOMAIN met = Readers /\ met = [d \in Readers |-> met[d]]
  /\ DOMAIN pulled = Readers /\ pulled = [d \in Readers |-> pulled[d]]
  /\ \A d \in Readers : /\ met[d] \subseteq ProgressRecords /\ ProgressSet(met[d])
                        /\ progress[d] = WithinLimit(NewestOfEach(met[d]))
                        /\ \A remote \in pulled[d] : FileOK(remote)
  /\ FileOK(cloud)

LEMMA KeptFacts ==
  ASSUME NEW S, S \subseteq ProgressRecords, ProgressSet(S)
  PROVE  FileOK(WithinLimit(NewestOfEach(S)))
<1> DEFINE N == NewestOfEach(S)
<1>1. ProgressSet(N) /\ OnePerKey(N) /\ N \subseteq S
  BY NewestFacts
<1> HIDE DEF N
<1>2. IsFiniteSet(N) /\ WithinLimit(N) \in SUBSET N
  BY <1>1, LimitMeans DEF ProgressSet
<1>3. IsFiniteSet(WithinLimit(N))
  BY <1>2, FS_Subset
<1>4. FileOK(WithinLimit(N))
  BY <1>1, <1>2, <1>3 DEF FileOK, ProgressSet, OnePerKey
<1> QED BY <1>4 DEF N

LEMMA TakeInv ==
  ASSUME CloudInv, NEW d \in Readers, NEW S, S \subseteq ProgressRecords, ProgressSet(S),
         Take(d, S), UNCHANGED <<cloud, pulled>>
  PROVE  CloudInv'
<1>1. progress' = [progress EXCEPT ![d] = MergeProgress(progress[d], S)]
      /\ met' = [met EXCEPT ![d] = met[d] \union S]
  BY DEF Take
<1>2. met[d] \subseteq ProgressRecords /\ ProgressSet(met[d])
      /\ progress[d] = WithinLimit(NewestOfEach(met[d]))
  BY DEF CloudInv
<1>3. MergeProgress(progress[d], S) = WithinLimit(NewestOfEach(met[d] \union S))
  BY <1>2, LimitMayBeEarly DEF MergeProgress
<1>4. ProgressSet(met[d] \union S) /\ met[d] \union S \subseteq ProgressRecords
  BY <1>2, FS_Union DEF ProgressSet
<1>5. /\ DOMAIN progress' = Readers /\ progress' = [e \in Readers |-> progress'[e]]
      /\ DOMAIN met' = Readers /\ met' = [e \in Readers |-> met'[e]]
      /\ progress'[d] = WithinLimit(NewestOfEach(met[d] \union S)) /\ met'[d] = met[d] \union S
      /\ \A e \in Readers \ {d} : progress'[e] = progress[e] /\ met'[e] = met[e]
  BY <1>1, <1>3 DEF CloudInv
<1>6. \A e \in Readers : /\ met'[e] \subseteq ProgressRecords /\ ProgressSet(met'[e])
                         /\ progress'[e] = WithinLimit(NewestOfEach(met'[e]))
  <2> TAKE e \in Readers
  <2>1. CASE e = d
    BY <1>4, <1>5, <2>1
  <2>2. CASE e # d
    BY <1>5, <2>2 DEF CloudInv
  <2> QED BY <2>1, <2>2
<1> QED BY <1>5, <1>6 DEF CloudInv

LEMMA ProgressNextInv == CloudInv /\ [ProgressNext]_progressVars => CloudInv'
<1> SUFFICES ASSUME CloudInv, [ProgressNext]_progressVars PROVE CloudInv'
  OBVIOUS
<1>1. ASSUME NEW d \in Readers, NEW r \in ProgressRecords, RecordProgress(d, r) PROVE CloudInv'
  <2>1. ProgressSet({r})
    BY ProgressAssumption, FS_Singleton DEF ProgressSet, IsProgress
  <2> QED BY <1>1, <2>1, TakeInv DEF RecordProgress
<1>2. ASSUME NEW d \in Readers, NEW since \in Instants, PullProgress(d, since) PROVE CloudInv'
  <2> DEFINE S == {r \in cloud : r.updatedAt > since}
  <2>1. cloud \subseteq ProgressRecords /\ ProgressSet(cloud)
    BY DEF CloudInv, FileOK
  <2>2. IsFiniteSet(cloud) /\ S \in SUBSET cloud
    BY <2>1 DEF ProgressSet
  <2>3. IsFiniteSet(S)
    BY <2>2, FS_Subset
  <2>4. S \subseteq ProgressRecords /\ ProgressSet(S)
    BY <2>1, <2>3 DEF ProgressSet
  <2>5. Take(d, S) /\ UNCHANGED <<cloud, pulled>>
    BY <1>2 DEF PullProgress
  <2> HIDE DEF S
  <2> QED BY <2>4, <2>5, TakeInv
<1>3. ASSUME NEW d \in Readers, StartPush(d) PROVE CloudInv'
  <2>1. pulled' = [pulled EXCEPT ![d] = {cloud}] /\ UNCHANGED <<progress, cloud, met>>
    BY <1>3 DEF StartPush
  <2> QED BY <2>1 DEF CloudInv
<1>4. ASSUME NEW d \in Readers, FinishPush(d) PROVE CloudInv'
  <2>1. PICK remote \in pulled[d] : cloud' = Pushed(progress[d], remote)
    BY <1>4 DEF FinishPush
  <2>2. pulled' = [pulled EXCEPT ![d] = NotPushing] /\ UNCHANGED <<progress, met>>
    BY <1>4 DEF FinishPush
  <2>3. FileOK(remote) /\ FileOK(progress[d])
    BY <2>1, KeptFacts DEF CloudInv
  <2>4. FileOK(cloud')
    BY <2>1, <2>3, PushedFacts DEF FileOK
  <2> QED BY <2>2, <2>4 DEF CloudInv, NotPushing
<1>5. CASE UNCHANGED progressVars
  BY <1>5 DEF progressVars, CloudInv
<1> QED BY <1>1, <1>2, <1>3, <1>4, <1>5 DEF ProgressNext

\* For any devices, records and limit, and pulls that come late, in part or after another
\* device has overwritten the file: what a device has depends only on the records it met.
THEOREM ProgressConverges == ProgressSpec => []ProgressAgrees
<1>1. ProgressInit => CloudInv
  <2> SUFFICES ASSUME ProgressInit PROVE CloudInv
    OBVIOUS
  <2>1. ProgressSet({}) /\ FileOK({}) /\ NewestOfEach({}) = {} /\ WithinLimit({}) = {}
    BY FS_EmptySet, NewestMeans, LimitMeans DEF ProgressSet, OnePerKey, FileOK
  <2>2. \A d \in Readers : progress[d] = {} /\ met[d] = {} /\ pulled[d] = {}
    BY DEF ProgressInit, NotPushing
  <2> QED BY <2>1, <2>2 DEF ProgressInit, CloudInv
<1>2. CloudInv => ProgressAgrees
  BY SameKeyMeans DEF CloudInv, FileOK, OnePerKey, ProgressAgrees
<1> QED BY <1>1, <1>2, ProgressNextInv, PTL DEF ProgressSpec
=============================================================================
