------------------------------ MODULE TocRefresh ------------------------------
(***************************************************************************)
(* What happens to the reader's place when a table of contents is fetched  *)
(* again (diff_toc and remap_reading_progress in reader-content).          *)
(*                                                                         *)
(* A chapter is its url and its title as normalize_identity leaves them,   *)
(* trimmed, without fragment and case; either may be blank. Its index is   *)
(* its place in the table. Here the first chapter is 1, of the index 0, and*)
(* 0 says that there is none.                                              *)
(***************************************************************************)
EXTENDS Integers, FiniteSets, Sequences
LOCAL INSTANCE FiniteSetsExt

CONSTANTS
  TocEntries,   \* the chapters a source may list, [url, title]
  Blank,        \* a url or title that is missing
  MaxToc,       \* bound on the chapters of a table of contents
  IndexText     \* the index of each chapter as a text, which may be a title too

ASSUME TocAssumption == MaxToc \in Nat

VARIABLES
  toc,       \* the table of contents
  place      \* the ReadingProgress: a chapter, and whether the reader is inside it

tocVars == <<toc, place>>

Tocs == UNION {[1..n -> TocEntries] : n \in 0..MaxToc}

TocInit == toc = <<>> /\ place = [chapter |-> 1, inside |-> FALSE]

(* ------------------------------- identity ------------------------------ *)

HasUrl(t, i) == t[i].url # Blank
HasTitle(t, i) == t[i].title # Blank

\* How many of these chapters stand before this one.
Before(t, i, Alike(_)) == Cardinality({j \in 1..(i - 1) : Alike(j)})

Nameless(t, i) == ~HasUrl(t, i) /\ ~HasTitle(t, i)

\* What stands for the title of a chapter that has none is its index.
Name(t, i) == IF HasTitle(t, i) THEN t[i].title ELSE IndexText[i]

\* toc_identities. Names are numbered among the chapters without a url.
Identity(t, i) ==
  IF HasUrl(t, i)
  THEN <<"url", t[i].url, Before(t, i, LAMBDA j : t[j].url = t[i].url)>>
  ELSE <<"title", Name(t, i), Before(t, i, LAMBDA j : ~HasUrl(t, j) /\ Name(t, j) = Name(t, i))>>

\* title_occurrence_for. Titles are numbered among all chapters.
TitlePlace(t, i) == <<"title", t[i].title, Before(t, i, LAMBDA j : t[j].title = t[i].title)>>

(* --------------------------------- diff -------------------------------- *)

Keyed(t, i) == {Identity(t, i)} \union (IF HasTitle(t, i) THEN {TitlePlace(t, i)} ELSE {})

\* Mutant: the first chapter of a key stays in the map.
Find_First(t, key) ==
  LET hits == {i \in DOMAIN t : key \in Keyed(t, i)} IN IF hits = {} THEN 0 ELSE Min(hits)

\* url_map and title_map: the last chapter that was put under a key.
Find(t, key) ==
  LET hits == {i \in DOMAIN t : key \in Keyed(t, i)} IN IF hits = {} THEN 0 ELSE Max(hits)

\* diff_toc: where an old chapter is now.
NewIndex(old, new, i) ==
  LET own == Find(new, Identity(old, i))
  IN IF own = 0 /\ HasUrl(old, i) /\ HasTitle(old, i)
     THEN Find(new, TitlePlace(old, i)) ELSE own

(* -------------------------------- progress ----------------------------- *)

Survivors(old, new) == {i \in DOMAIN old : NewIndex(old, new, i) # 0}

\* The place of the next chapter that survives, else of the previous one.
NearestSurviving(old, new, chapter) ==
  LET later == {i \in Survivors(old, new) : i > chapter}
      earlier == {i \in Survivors(old, new) : i < chapter}
  IN IF later # {} THEN NewIndex(old, new, Min(later))
     ELSE IF earlier # {} THEN NewIndex(old, new, Max(earlier)) ELSE 1

RemapReadingProgress(old, new, at) ==
  IF new = <<>> THEN [chapter |-> 1, inside |-> FALSE]
  ELSE IF at.chapter \in Survivors(old, new)
       THEN [at EXCEPT !.chapter = NewIndex(old, new, at.chapter)]
       ELSE [chapter |-> NearestSurviving(old, new, at.chapter), inside |-> FALSE]

RefreshToc(new) ==
  /\ toc' = new
  /\ place' = RemapReadingProgress(toc, new, place)

ReadOn(chapter) ==
  /\ place' = [chapter |-> chapter, inside |-> TRUE]
  /\ UNCHANGED toc

TocNext ==
  \/ \E new \in Tocs : RefreshToc(new)
  \/ \E chapter \in DOMAIN toc : ReadOn(chapter)

TocSpec == TocInit /\ [][TocNext]_tocVars

(* ------------------------------ properties ----------------------------- *)

\* The chapters share a url or a title.
Related(c, d) == c.url \in {d.url} \ {Blank} \/ c.title \in {d.title} \ {Blank}

Distinct(t) == \A i, j \in DOMAIN t : i # j => ~Related(t[i], t[j])

AllTitled(t) == \A i \in DOMAIN t : HasTitle(t, i)

\* No old title is the index of a nameless chapter in the new table.
NoIndexIsTitle(old, new) ==
  \A i \in DOMAIN new, j \in DOMAIN old : Nameless(new, i) => old[j].title # IndexText[i]

Stays(old, new, at) ==
  \E i \in DOMAIN new :
    /\ new[i] = old[at.chapter]
    /\ RemapReadingProgress(old, new, at) = [at EXCEPT !.chapter = i]

\* Whatever the next refresh brings, the reader finds the place again: the place
\* is one of the new chapters; a repeated url is told apart by its number; and if
\* no chapter without url and title is mistaken for one titled with its index,
\* nothing moves when nothing has changed, however many urls and titles repeat,
\* and where urls and titles are unambiguous, the reader stays in a chapter that
\* is still there, wherever it stands now, and never lands inside another one.
PlaceSurvives ==
  \A new \in Tocs :
    LET now == RemapReadingProgress(toc, new, place)
        here == place.chapter
        listed == here \in DOMAIN toc
    IN /\ now.chapter = 1 \/ now.chapter \in DOMAIN new
       /\ \A i \in DOMAIN new :
            listed /\ HasUrl(toc, here) /\ Identity(new, i) = Identity(toc, here) =>
              now = [place EXCEPT !.chapter = i]
       /\ new = toc /\ listed /\ NoIndexIsTitle(toc, toc) => now = place
       /\ listed /\ Distinct(toc) /\ Distinct(new) /\ AllTitled(toc) /\ NoIndexIsTitle(toc, new) =>
            IF \E i \in DOMAIN new : new[i] = toc[here]
            THEN Stays(toc, new, place)
            ELSE place.inside /\ now.inside => Related(new[now.chapter], toc[here])

\* A refresh preserves the identity of chapters (comment on diff_toc): in a table
\* that has not changed, every chapter is where it was.
IdentityPreserved == \A i \in DOMAIN toc : NewIndex(toc, toc, i) = i

\* Chapters that repeat a url or a title do not collapse into a single chapter
\* (comment on diff_toc), whatever becomes of chapters without a title.
NoTwoBecomeOne ==
  \A new \in Tocs : \A i, j \in Survivors(toc, new) :
    AllTitled(new) /\ HasTitle(toc, i) /\ HasTitle(toc, j) /\ i # j =>
      NewIndex(toc, new, i) # NewIndex(toc, new, j)
=============================================================================
