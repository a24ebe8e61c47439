---------------------------- MODULE ChapterCache ----------------------------
(***************************************************************************)
(* The cache of chapter texts of reader-storage (in-memory backend): what  *)
(* is stored, what is missing for a book, which chapters to fetch ahead,   *)
(* and which ones go when the cache is pruned.                             *)
(***************************************************************************)
EXTENDS Integers, FiniteSets

CONSTANTS
  Entries,      \* the cache keys, in the order of (source, book, chapter)
  EntryBook,    \* the book of each key
  EntryIndex,   \* the chapter index of each key
  Stamps,       \* values of cached_at
  Sizes,        \* lengths of a text in bytes
  Unlimited,    \* an absent limit of a retention policy
  Counts,       \* values a limit, a chapter count and a window may have
  IndexMax      \* u32::MAX, cut down: where the sums of a window saturate

ASSUME CacheAssumption ==
  /\ Entries \subseteq Nat /\ Stamps \subseteq Int /\ Sizes \subseteq Nat
  /\ IndexMax \in Nat /\ Counts \subseteq 0..IndexMax /\ Unlimited \notin Int

VARIABLE cached   \* the chapters in the cache: cached_at and size, by key

NothingCached == [e \in {} |-> 0]
CacheInit == cached = NothingCached

BookEntries(book) == {e \in DOMAIN cached : EntryBook[e] = book}

Keep(keys) == [e \in keys |-> cached[e]]

PutCache(e, at, size) ==
  cached' = [x \in DOMAIN cached \union {e} |->
               IF x = e THEN [at |-> at, size |-> size] ELSE cached[x]]

RemoveCache(e) == cached' = Keep(DOMAIN cached \ {e})

ClearCache(book) == cached' = Keep(DOMAIN cached \ BookEntries(book))

(* ----------------- what is missing, what to fetch ahead ---------------- *)

\* chapter_cache_coverage: the indexes below the chapter count without a text.
Missing(book, count) ==
  (0..(count - 1)) \ {EntryIndex[e] : e \in BookEntries(book)}

SaturatingSub(a, b) == IF a < b THEN 0 ELSE a - b
\* Mutant: wraps around.
SaturatingAdd_Wraps(a, b) == (a + b) % (IndexMax + 1)
SaturatingAdd(a, b) == IF a + b > IndexMax THEN IndexMax ELSE a + b

WindowStart(anchor, before) == SaturatingSub(anchor, before)
WindowEnd(count, anchor, after) ==
  LET end == SaturatingAdd(SaturatingAdd(anchor, after), 1)
  IN IF end < count THEN end ELSE count

\* plan_chapter_cache_prefetch: the first `max` missing chapters of the window.
Prefetch(book, count, anchor, before, after, max) ==
  LET window == {i \in Missing(book, count) :
                   i >= WindowStart(anchor, before) /\ i < WindowEnd(count, anchor, after)}
  IN {i \in window : Cardinality({j \in window : j < i}) < max}

(* ------------------------------- pruning ------------------------------- *)

\* The order of eviction: the oldest first, then by key.
Older(e, f) ==
  \/ cached[e].at < cached[f].at
  \/ cached[e].at = cached[f].at /\ e < f

Younger(keys, e) == {f \in keys : Older(e, f)}

\* The length of the texts of some chapters: how many bytes they have together.
Bytes(keys) == Cardinality(UNION {{e} \X (1..cached[e].size) : e \in keys})

YoungEnough(policy) ==
  {e \in DOMAIN cached : policy.minAt = Unlimited \/ cached[e].at >= policy.minAt}

\* Mutant: one too many stays.
WithinCount_OffByOne(policy) ==
  LET rest == YoungEnough(policy)
  IN {e \in rest : \/ policy.maxEntries = Unlimited
                   \/ Cardinality(Younger(rest, e)) <= policy.maxEntries}

\* The oldest of the rest go while there are too many of them: those that stay
\* have fewer than the limit after them...
WithinCount(policy) ==
  LET rest == YoungEnough(policy)
  IN {e \in rest : \/ policy.maxEntries = Unlimited
                   \/ Cardinality(Younger(rest, e)) < policy.maxEntries}

\* ... and then while their texts are too long: those stay that are within the
\* limit together with what comes after them.
WithinBytes(policy) ==
  LET rest == WithinCount(policy)
  IN {e \in rest : \/ policy.maxBytes = Unlimited
                   \/ Bytes({e} \union Younger(rest, e)) <= policy.maxBytes}

Prune(policy) == cached' = Keep(WithinBytes(policy))

Policies ==
  [minAt : Stamps \union {Unlimited}, maxEntries : Counts \union {Unlimited},
   maxBytes : Counts \union {Unlimited}]

CacheNext ==
  \/ \E e \in Entries, at \in Stamps, size \in Sizes : PutCache(e, at, size)
  \/ \E e \in Entries : RemoveCache(e)
  \/ \E e \in Entries : ClearCache(EntryBook[e])
  \/ \E policy \in Policies : Prune(policy)

(* ------------------------------ properties ----------------------------- *)

\* Types: what is cached has a time and a size.
CacheTypeOK ==
  /\ DOMAIN cached \subseteq Entries
  /\ \A e \in DOMAIN cached : cached[e] \in [at : Stamps, size : Sizes]

Allowed(policy, keys) ==
  /\ policy.minAt # Unlimited => \A e \in keys : cached[e].at >= policy.minAt
  /\ policy.maxEntries # Unlimited => Cardinality(keys) <= policy.maxEntries
  /\ policy.maxBytes # Unlimited => Bytes(keys) <= policy.maxBytes

NewestOnly(keys) ==
  \A e \in keys, f \in DOMAIN cached : Older(e, f) => f \in keys

\* prune_chapter_cache keeps the newest chapters and as many of them as the
\* policy allows: of all sets without a gap towards the newest that keep every
\* limit, the three passes over the candidates leave the largest.
PruneKeepsNewest ==
  cached # NothingCached => \A policy \in Policies :
    LET kept == WithinBytes(policy)
    IN /\ Allowed(policy, kept) /\ NewestOnly(kept)
       /\ \A keys \in SUBSET DOMAIN cached :
            Allowed(policy, keys) /\ NewestOnly(keys) => keys \subseteq kept

\* plan_chapter_cache_prefetch, whose sums saturate at u32::MAX and at zero,
\* fetches chapters of a book that are not there, in the window around the
\* anchor and below the chapter count, and misses none unless its limit is
\* reached, and then only later ones.
PrefetchIsExact ==
  \A e \in DOMAIN cached, count \in Counts \ {0}, before, after \in Counts, max \in Counts \ {0} :
    \A anchor \in 0..(count - 1) :
      LET book == EntryBook[e]
          plan == Prefetch(book, count, anchor, before, after, max)
          wanted == {i \in 0..(count - 1) :
                       /\ anchor - before <= i /\ i <= anchor + after
                       /\ \A f \in BookEntries(book) : EntryIndex[f] # i}
      IN /\ plan \subseteq wanted /\ Cardinality(plan) <= max
         /\ \A i \in wanted \ plan :
              Cardinality(plan) = max /\ \A j \in plan : j < i
=============================================================================
