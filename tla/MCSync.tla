-------------------------------- MODULE MCSync --------------------------------
(***************************************************************************)
(* The parts of reader-sync, each in an instance of its own: in a behaviour*)
(* only one of them moves.                                                 *)
(***************************************************************************)
EXTENDS SyncJournal, SyncPolicies, ProgressCloud

VARIABLE part    \* the part that moves

\* Two devices and a third one without a rank write one key: two payloads of one
\* device, a payload written twice, and a tombstone, at two times.
SomeVersions ==
  LET V(record) == [key |-> <<"k1", 0, 0>>, record |-> record]
  IN {V(Upsert(1, 1, 1, 1)), V(Upsert(1, 2, 2, 1)), V(Upsert(2, 1, 1, 1)),
      V(Upsert(2, 2, 3, 2)), V(Tombstone(2, 3, 2)), V(Upsert(3, 1, 1, 2))}

\* None of them uses a revision twice.
ASSUME SomeVersionsOnce == RevisionsOnce

Ranks == <<2, 1>>

\* Two devices read two chapters of a book; one key has three records of a time.
SomeProgress ==
  LET P(chapter, device, at, version, fraction) ==
        [book |-> "b", chapter |-> chapter, device |-> device, updatedAt |-> at,
         version |-> version, fraction |-> fraction]
  IN {P(1, 1, 1, 1, 1), P(1, 1, 1, 2, 1), P(1, 1, 1, 2, 2), P(2, 1, 2, 1, 1),
      P(1, 2, 2, 1, 1), P(2, 2, 1, 1, 1)}

SyncInit ==
  /\ part \in {"journal", "policies", "progress"}
  /\ Init /\ PolicyInit /\ ProgressInit
  /\ part # "policies" => policy = "lastWriteWins"

SyncNext ==
  /\ UNCHANGED part
  /\ \/ part = "journal" /\ Next /\ UNCHANGED <<policyVars, progressVars>>
     \/ part = "policies" /\ PolicyNext /\ UNCHANGED <<vars, progressVars>>
     \/ part = "progress" /\ ProgressNext /\ UNCHANGED <<vars, policyVars>>

SyncSpec == SyncInit /\ [][SyncNext]_<<part, vars, policyVars, progressVars>>
=============================================================================
