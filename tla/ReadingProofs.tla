------------------------------ MODULE ReadingProofs ------------------------------
(***************************************************************************)
(* Theorems about what stands between a source and the reader: the place   *)
(* in a table of contents that is fetched again, the RSS library, and the  *)
(* slices of a chapter that are spoken. Tables, feeds, libraries and texts *)
(* are arbitrary.                                                          *)
(***************************************************************************)
EXTENDS TocRefresh, RssLibrary, TtsQueue, FiniteOrders
LOCAL INSTANCE FiniteSetsExt

\* Max and Min are what they say.
LEMMA MaxFacts ==
  ASSUME NEW S \in SUBSET Int, IsFiniteSet(S), S # {}
  PROVE  Max(S) \in S /\ Max(S) \in Int /\ \A x \in S : x <= Max(S)
  BY GreatestExists DEF Max

LEMMA MinFacts ==
  ASSUME NEW S \in SUBSET Int, IsFiniteSet(S), S # {}
  PROVE  Min(S) \in S /\ Min(S) \in Int /\ \A x \in S : Min(S) <= x
  BY LeastExists DEF Min

(***************************************************************************)
(* The reader's place.                                                     *)
(***************************************************************************)
\* The chapters before this one that its identity is numbered among.
UrlsBefore(t, i) == {j \in 1..(i - 1) : t[j].url = t[i].url}
BareBefore(t, i) == {j \in 1..(i - 1) : ~HasUrl(t, j) /\ Name(t, j) = Name(t, i)}
TitlesBefore(t, i) == {j \in 1..(i - 1) : t[j].title = t[i].title}

LEMMA IdentityIs ==
  ASSUME NEW t, NEW i
  PROVE  /\ HasUrl(t, i) => Identity(t, i) = <<"url", t[i].url, Cardinality(UrlsBefore(t, i))>>
         /\ ~HasUrl(t, i) => Identity(t, i) = <<"title", Name(t, i), Cardinality(BareBefore(t, i))>>
         /\ TitlePlace(t, i) = <<"title", t[i].title, Cardinality(TitlesBefore(t, i))>>
  BY DEF Identity, TitlePlace, Before, UrlsBefore, BareBefore, TitlesBefore

\* A key says what it is made of.
LEMMA KeyTells ==
  ASSUME NEW t, NEW j, NEW key \in Keyed(t, j)
  PROVE  /\ key[1] \in {"url", "title"}
         /\ key[1] = "url" => key = <<"url", t[j].url, Cardinality(UrlsBefore(t, j))>>
         /\ key[1] = "title" =>
              \/ ~HasUrl(t, j) /\ key = <<"title", Name(t, j), Cardinality(BareBefore(t, j))>>
              \/ HasTitle(t, j) /\ key = <<"title", t[j].title, Cardinality(TitlesBefore(t, j))>>
<1>1. CASE HasUrl(t, j) /\ key = <<"url", t[j].url, Cardinality(UrlsBefore(t, j))>>
  BY <1>1
<1>2. CASE ~HasUrl(t, j) /\ key = <<"title", Name(t, j), Cardinality(BareBefore(t, j))>>
  BY <1>2
<1>3. CASE HasTitle(t, j) /\ key = <<"title", t[j].title, Cardinality(TitlesBefore(t, j))>>
  BY <1>3
<1> QED BY <1>1, <1>2, <1>3, IdentityIs DEF Keyed

LEMMA Tags ==
  ASSUME NEW t, NEW i
  PROVE  /\ TitlePlace(t, i)[1] = "title" /\ TitlePlace(t, i)[2] = t[i].title
         /\ HasUrl(t, i) => Identity(t, i)[1] = "url" /\ Identity(t, i)[2] = t[i].url
         /\ ~HasUrl(t, i) => Identity(t, i)[1] = "title" /\ Identity(t, i)[2] = Name(t, i)
<1> DEFINE url == <<"url", t[i].url, Cardinality(UrlsBefore(t, i))>>
           name == <<"title", Name(t, i), Cardinality(BareBefore(t, i))>>
           title == <<"title", t[i].title, Cardinality(TitlesBefore(t, i))>>
<1>0. /\ url[1] = "url" /\ url[2] = t[i].url
      /\ name[1] = "title" /\ name[2] = Name(t, i)
      /\ title[1] = "title" /\ title[2] = t[i].title
  OBVIOUS
<1>1. TitlePlace(t, i) = title
  BY IdentityIs
<1>2. CASE HasUrl(t, i)
  <2>1. Identity(t, i) = url
    BY <1>2, IdentityIs
  <2> HIDE DEF url, title
  <2> QED BY <1>0, <1>1, <1>2, <2>1
<1>3. CASE ~HasUrl(t, i)
  <2>1. Identity(t, i) = name
    BY <1>3, IdentityIs
  <2> HIDE DEF name, title
  <2> QED BY <1>0, <1>1, <1>3, <2>1
<1> QED BY <1>2, <1>3

\* A set with one more element counts more.
LEMMA CountsMore ==
  ASSUME NEW B, IsFiniteSet(B), NEW A \in SUBSET B, NEW e \in B, e \notin A
  PROVE  Cardinality(A) # Cardinality(B)
  BY FS_Subset

LEMMA TocFacts ==
  ASSUME NEW t \in Tocs
  PROVE  /\ Len(t) \in Nat /\ DOMAIN t = 1..Len(t) /\ (t = <<>> <=> Len(t) = 0)
         /\ \A i \in DOMAIN t : i \in Nat /\ i # 0
<1>1. PICK n \in 0..MaxToc : t \in [1..n -> TocEntries]
  BY DEF Tocs
<1>2. n \in Nat /\ t \in Seq(TocEntries) /\ Len(t) = n
  BY <1>1, TocAssumption
<1> QED BY <1>1, <1>2

\* A key leads to the last chapter that has it, or nowhere.
LEMMA FindFacts ==
  ASSUME NEW t \in Tocs, NEW key
  PROVE  \/ Find(t, key) = 0 /\ \A i \in DOMAIN t : key \notin Keyed(t, i)
         \/ /\ Find(t, key) \in DOMAIN t /\ key \in Keyed(t, Find(t, key))
            /\ \A i \in DOMAIN t : key \in Keyed(t, i) => i <= Find(t, key)
<1> DEFINE hits == {i \in DOMAIN t : key \in Keyed(t, i)}
<1>1. Find(t, key) = IF hits = {} THEN 0 ELSE Max(hits)
  BY DEF Find
<1>2. DOMAIN t = 1..Len(t) /\ Len(t) \in Nat
  BY TocFacts
<1>3. hits \in SUBSET Int /\ IsFiniteSet(hits)
  <2>1. hits \in SUBSET (1..Len(t)) /\ IsFiniteSet(1..Len(t))
    BY <1>2, FS_Interval
  <2>2. IsFiniteSet(hits)
    <3> HIDE DEF hits
    <3> QED BY <2>1, FS_Subset
  <2> QED BY <1>2, <2>1, <2>2
<1>4. CASE hits = {}
  BY <1>1, <1>4
<1>5. CASE hits # {}
  <2>1. Max(hits) \in hits /\ \A x \in hits : x <= Max(hits)
    <3> HIDE DEF hits
    <3> QED BY <1>3, <1>5, MaxFacts
  <2> QED BY <1>1, <1>5, <2>1
<1> QED BY <1>4, <1>5

LEMMA BeforeFacts ==
  ASSUME NEW t, NEW i \in Nat, NEW j \in Nat, 1 <= i, i < j
  PROVE  /\ IsFiniteSet(UrlsBefore(t, j)) /\ IsFiniteSet(BareBefore(t, j))
         /\ IsFiniteSet(TitlesBefore(t, j))
         /\ t[i].url = t[j].url => UrlsBefore(t, i) \subseteq UrlsBefore(t, j) /\ i \in UrlsBefore(t, j)
         /\ t[i].title = t[j].title => i \in TitlesBefore(t, j)
         /\ Name(t, i) = Name(t, j) /\ ~HasUrl(t, i) =>
              BareBefore(t, i) \subseteq BareBefore(t, j) /\ i \in BareBefore(t, j)
         /\ i \notin UrlsBefore(t, i) /\ i \notin BareBefore(t, i)
<1>1. IsFiniteSet(1..(j - 1))
  BY FS_Interval
<1>2. UrlsBefore(t, j) \subseteq 1..(j - 1) /\ BareBefore(t, j) \subseteq 1..(j - 1)
      /\ TitlesBefore(t, j) \subseteq 1..(j - 1)
  BY DEF UrlsBefore, BareBefore, TitlesBefore
<1>3. /\ IsFiniteSet(UrlsBefore(t, j)) /\ IsFiniteSet(BareBefore(t, j))
      /\ IsFiniteSet(TitlesBefore(t, j))
  BY <1>1, <1>2, FS_Subset
<1>4. /\ t[i].url = t[j].url => UrlsBefore(t, i) \subseteq UrlsBefore(t, j) /\ i \in UrlsBefore(t, j)
      /\ i \notin UrlsBefore(t, i)
  BY DEF UrlsBefore
<1>5. t[i].title = t[j].title => i \in TitlesBefore(t, j)
  BY DEF TitlesBefore
<1>6. /\ Name(t, i) = Name(t, j) /\ ~HasUrl(t, i) =>
           BareBefore(t, i) \subseteq BareBefore(t, j) /\ i \in BareBefore(t, j)
      /\ i \notin BareBefore(t, i)
  BY DEF BareBefore
<1> QED BY <1>3, <1>4, <1>5, <1>6

\* Nothing in the table takes the title of this chapter for an index, or its index for a title.
Clear(t, i) ==
  \/ HasUrl(t, i)
  \/ HasTitle(t, i) /\ \A k \in DOMAIN t : Nameless(t, k) => t[i].title # IndexText[k]
  \/ Nameless(t, i) /\ \A k \in DOMAIN t : t[k].title # IndexText[i]

\* The bare chapters of a clear title all have that title.
LEMMA ClearTitle ==
  ASSUME NEW t \in Tocs, NEW i \in DOMAIN t, Clear(t, i), ~HasUrl(t, i), HasTitle(t, i)
  PROVE  \A k \in BareBefore(t, i) : k \in DOMAIN t /\ t[k].title = t[i].title
<1> SUFFICES ASSUME NEW k \in BareBefore(t, i)
             PROVE  k \in DOMAIN t /\ t[k].title = t[i].title
  OBVIOUS
<1>1. k \in DOMAIN t
  BY TocFacts DEF BareBefore
<1>2. ~HasUrl(t, k) /\ Name(t, k) = t[i].title
  BY DEF BareBefore, Name
<1>3. HasTitle(t, k)
  BY <1>1, <1>2 DEF Clear, Nameless, Name
<1> QED BY <1>1, <1>2, <1>3 DEF Name

\* However often urls and titles repeat, no later chapter takes the key of a clear one.
LEMMA FindsItself ==
  ASSUME NEW t \in Tocs, NEW i \in DOMAIN t, Clear(t, i)
  PROVE  Find(t, Identity(t, i)) = i
<1> DEFINE key == Identity(t, i)
<1>1. key \in Keyed(t, i)
  BY DEF Keyed
<1>2. ASSUME NEW j \in DOMAIN t, key \in Keyed(t, j), i < j PROVE FALSE
  <2> HIDE DEF key
  <2>1. i \in Nat /\ j \in Nat /\ 1 <= i
    BY TocFacts
  <2>2. CASE HasUrl(t, i)
    <3>1. key = <<"url", t[i].url, Cardinality(UrlsBefore(t, i))>>
      BY <2>2, IdentityIs DEF key
    <3>2. key = <<"url", t[j].url, Cardinality(UrlsBefore(t, j))>>
      BY <1>2, <3>1, KeyTells
    <3>3. t[i].url = t[j].url /\ Cardinality(UrlsBefore(t, i)) = Cardinality(UrlsBefore(t, j))
      BY <3>1, <3>2
    <3> QED BY <1>2, <2>1, <3>3, BeforeFacts, CountsMore
  <2>3. CASE ~HasUrl(t, i)
    <3>1. key = <<"title", Name(t, i), Cardinality(BareBefore(t, i))>>
      BY <2>3, IdentityIs DEF key
    <3>2. \/ ~HasUrl(t, j) /\ key = <<"title", Name(t, j), Cardinality(BareBefore(t, j))>>
          \/ HasTitle(t, j) /\ key = <<"title", t[j].title, Cardinality(TitlesBefore(t, j))>>
      BY <1>2, <3>1, KeyTells
    <3>3. CASE key = <<"title", Name(t, j), Cardinality(BareBefore(t, j))>>
      <4>1. Name(t, i) = Name(t, j)
            /\ Cardinality(BareBefore(t, i)) = Cardinality(BareBefore(t, j))
        BY <3>1, <3>3
      <4> QED BY <1>2, <2>1, <2>3, <4>1, BeforeFacts, CountsMore
    <3>4. CASE key = <<"title", t[j].title, Cardinality(TitlesBefore(t, j))>>
      <4>1. t[j].title = Name(t, i)
            /\ Cardinality(BareBefore(t, i)) = Cardinality(TitlesBefore(t, j))
        BY <3>1, <3>4
      <4>2. HasTitle(t, i) /\ t[i].title = t[j].title
        BY <2>3, <4>1 DEF Clear, Nameless, Name
      <4>3. BareBefore(t, i) \subseteq TitlesBefore(t, j)
        <5>1. \A k \in BareBefore(t, i) : k \in 1..(i - 1) /\ t[k].title = t[j].title
          BY <2>3, <4>2, ClearTitle DEF BareBefore
        <5> QED BY <1>2, <2>1, <5>1 DEF TitlesBefore
      <4> QED BY <1>2, <2>1, <4>1, <4>2, <4>3, BeforeFacts, CountsMore
    <3> QED BY <3>2, <3>3, <3>4
  <2> QED BY <2>2, <2>3
<1> HIDE DEF key
<1>3. Find(t, key) \in DOMAIN t /\ key \in Keyed(t, Find(t, key)) /\ i <= Find(t, key)
  BY <1>1, FindFacts
<1>4. i \in Nat /\ Find(t, key) \in Nat
  BY <1>3, TocFacts
<1>5. Find(t, key) = i
  BY <1>2, <1>3, <1>4
<1> QED BY <1>5 DEF key

\* A chapter is found, if at all, where something bears its key.
LEMMA NewIndexFacts ==
  ASSUME NEW old \in Tocs, NEW new \in Tocs, NEW i \in DOMAIN old
  PROVE  LET k == NewIndex(old, new, i)
         IN  k = 0 \/ /\ k \in DOMAIN new
                      /\ \/ Identity(old, i) \in Keyed(new, k)
                         \/ HasTitle(old, i) /\ TitlePlace(old, i) \in Keyed(new, k)
<1>1. /\ Find(new, Identity(old, i)) = 0
         \/ /\ Find(new, Identity(old, i)) \in DOMAIN new
            /\ Identity(old, i) \in Keyed(new, Find(new, Identity(old, i)))
      /\ Find(new, TitlePlace(old, i)) = 0
         \/ /\ Find(new, TitlePlace(old, i)) \in DOMAIN new
            /\ TitlePlace(old, i) \in Keyed(new, Find(new, TitlePlace(old, i)))
  BY FindFacts
<1> QED BY <1>1 DEF NewIndex

LEMMA StaysWhereFound ==
  ASSUME NEW old \in Tocs, NEW new \in Tocs, NEW at, at.chapter \in DOMAIN old,
         NEW i \in DOMAIN new, Clear(new, i), Identity(new, i) = Identity(old, at.chapter)
  PROVE  RemapReadingProgress(old, new, at) = [at EXCEPT !.chapter = i]
<1>1. Find(new, Identity(old, at.chapter)) = i /\ i # 0 /\ new # <<>>
  BY FindsItself, TocFacts
<1>2. NewIndex(old, new, at.chapter) = i
  BY <1>1 DEF NewIndex
<1> QED BY <1>1, <1>2 DEF RemapReadingProgress, Survivors

LEMMA NearestFacts ==
  ASSUME NEW old \in Tocs, NEW new \in Tocs, NEW chapter
  PROVE  NearestSurviving(old, new, chapter) = 1 \/ NearestSurviving(old, new, chapter) \in DOMAIN new
<1> DEFINE later == {i \in Survivors(old, new) : i > chapter}
           earlier == {i \in Survivors(old, new) : i < chapter}
<1>1. IsFiniteSet(DOMAIN old) /\ DOMAIN old \in SUBSET Int
  BY TocFacts, FS_Interval
<1>2. later \subseteq DOMAIN old /\ earlier \subseteq DOMAIN old
      /\ later \subseteq Survivors(old, new) /\ earlier \subseteq Survivors(old, new)
  BY DEF Survivors
<1>3. NearestSurviving(old, new, chapter) =
        IF later # {} THEN NewIndex(old, new, Min(later))
        ELSE IF earlier # {} THEN NewIndex(old, new, Max(earlier)) ELSE 1
  BY DEF NearestSurviving
<1> HIDE DEF later, earlier
<1>4. /\ later # {} => Min(later) \in Survivors(old, new)
      /\ earlier # {} => Max(earlier) \in Survivors(old, new)
  BY <1>1, <1>2, FS_Subset, MinFacts, MaxFacts
<1>5. \A i \in Survivors(old, new) : NewIndex(old, new, i) \in DOMAIN new
  BY NewIndexFacts DEF Survivors
<1> QED BY <1>3, <1>4, <1>5

\* What bears the key of a titled chapter shares its url or its title.
LEMMA KeyRelates ==
  ASSUME NEW old, NEW new, NEW i \in DOMAIN old, NEW k \in DOMAIN new,
         HasTitle(old, i), NoIndexIsTitle(old, new),
         \E key \in Keyed(new, k) : key = Identity(old, i) \/ key = TitlePlace(old, i)
  PROVE  Related(new[k], old[i])
<1>1. PICK key \in Keyed(new, k) : key = Identity(old, i) \/ key = TitlePlace(old, i)
  OBVIOUS
<1>2. CASE key[1] = "url"
  <2>1. HasUrl(old, i) /\ key[2] = old[i].url
    BY <1>1, <1>2, Tags
  <2>2. key[2] = new[k].url
    BY <1>1, <1>2, KeyTells
  <2>3. new[k].url = old[i].url /\ old[i].url # Blank
    BY <2>1, <2>2 DEF HasUrl
  <2> QED BY <2>3 DEF Related
<1>3. CASE key[1] = "title"
  <2>1. key[2] = old[i].title
    <3>1. CASE HasUrl(old, i)
      BY <1>1, <1>3, <3>1, Tags
    <3>2. CASE ~HasUrl(old, i)
      BY <1>1, <1>3, <3>2, Tags DEF Name
    <3> QED BY <3>1, <3>2
  <2>2. \/ ~HasUrl(new, k) /\ key[2] = Name(new, k)
        \/ key[2] = new[k].title
    BY <1>3, KeyTells
  <2>3. new[k].title = old[i].title
    BY <2>1, <2>2 DEF Name, Nameless, NoIndexIsTitle
  <2> QED BY <2>3 DEF Related, HasTitle
<1> QED BY <1>1, <1>2, <1>3, KeyTells

\* Among chapters that are told apart, nothing is numbered but the first.
LEMMA DistinctCounts ==
  ASSUME NEW t \in Tocs, Distinct(t), NEW i \in DOMAIN t
  PROVE  /\ HasUrl(t, i) => UrlsBefore(t, i) = {}
         /\ ~HasUrl(t, i) /\ HasTitle(t, i) /\ Clear(t, i) => BareBefore(t, i) = {}
<1>1. ASSUME NEW j \in 1..(i - 1) PROVE j \in DOMAIN t /\ j # i /\ ~Related(t[j], t[i])
  <2>1. j \in DOMAIN t /\ j # i
    BY TocFacts
  <2> QED BY <2>1 DEF Distinct
<1>2. ASSUME ~HasUrl(t, i), HasTitle(t, i), Clear(t, i) PROVE BareBefore(t, i) = {}
  <2>1. \A j \in BareBefore(t, i) : t[j].title = t[i].title /\ j \in 1..(i - 1)
    BY <1>2, ClearTitle DEF BareBefore
  <2> QED BY <1>1, <1>2, <2>1 DEF Related, HasTitle
<1> QED BY <1>1, <1>2 DEF UrlsBefore, Related, HasUrl

LEMMA DistinctIdentity ==
  ASSUME NEW old \in Tocs, NEW new \in Tocs, Distinct(old), Distinct(new),
         NEW h \in DOMAIN old, HasTitle(old, h), Clear(old, h),
         NEW i \in DOMAIN new, Clear(new, i), new[i] = old[h]
  PROVE  Identity(new, i) = Identity(old, h)
<1>1. (HasUrl(new, i) <=> HasUrl(old, h)) /\ HasTitle(new, i)
      /\ new[i].url = old[h].url /\ new[i].title = old[h].title
  BY DEF HasUrl, HasTitle
<1>2. CASE HasUrl(old, h)
  <2>1. UrlsBefore(new, i) = {} /\ UrlsBefore(old, h) = {}
    BY <1>1, <1>2, DistinctCounts
  <2>2. /\ Identity(new, i) = <<"url", new[i].url, Cardinality(UrlsBefore(new, i))>>
        /\ Identity(old, h) = <<"url", old[h].url, Cardinality(UrlsBefore(old, h))>>
    BY <1>1, <1>2, IdentityIs
  <2> QED BY <1>1, <2>1, <2>2
<1>3. CASE ~HasUrl(old, h)
  <2>1. BareBefore(new, i) = {} /\ BareBefore(old, h) = {}
    BY <1>1, <1>3, DistinctCounts
  <2>2. /\ Identity(new, i) = <<"title", new[i].title, Cardinality(BareBefore(new, i))>>
        /\ Identity(old, h) = <<"title", old[h].title, Cardinality(BareBefore(old, h))>>
    BY <1>1, <1>3, IdentityIs DEF Name
  <2> QED BY <1>1, <2>1, <2>2
<1> QED BY <1>2, <1>3

TocInv == toc \in Tocs /\ place \in [chapter : Nat, inside : BOOLEAN]

LEMMA RemapFacts ==
  ASSUME NEW old \in Tocs, NEW new \in Tocs, NEW at \in [chapter : Nat, inside : BOOLEAN]
  PROVE  LET now == RemapReadingProgress(old, new, at)
         IN  /\ now \in [chapter : Nat, inside : BOOLEAN]
             /\ now.chapter = 1 \/ now.chapter \in DOMAIN new
             /\ now.inside => /\ at.inside /\ at.chapter \in Survivors(old, new)
                              /\ now.chapter = NewIndex(old, new, at.chapter)
<1> DEFINE index == NewIndex(old, new, at.chapter)
           near == NearestSurviving(old, new, at.chapter)
<1>1. DOMAIN new \subseteq Nat
  BY TocFacts
<1>2. CASE new = <<>>
  <2>1. RemapReadingProgress(old, new, at) = [chapter |-> 1, inside |-> FALSE]
    BY <1>2 DEF RemapReadingProgress
  <2> QED BY <2>1
<1>3. CASE new # <<>> /\ at.chapter \notin Survivors(old, new)
  <2>1. RemapReadingProgress(old, new, at) = [chapter |-> near, inside |-> FALSE]
    BY <1>3 DEF RemapReadingProgress
  <2>2. near = 1 \/ near \in DOMAIN new
    BY NearestFacts
  <2> HIDE DEF near
  <2> QED BY <1>1, <2>1, <2>2
<1>4. CASE new # <<>> /\ at.chapter \in Survivors(old, new)
  <2>1. RemapReadingProgress(old, new, at) = [at EXCEPT !.chapter = index]
    BY <1>4 DEF RemapReadingProgress
  <2>2. index \in DOMAIN new
    BY <1>4, NewIndexFacts DEF Survivors
  <2>3. LET now == [at EXCEPT !.chapter = index]
        IN  now \in [chapter : Nat, inside : BOOLEAN] /\ now.chapter = index /\ now.inside = at.inside
    <3> HIDE DEF index
    <3> QED BY <1>1, <2>2
  <2> HIDE DEF index
  <2>4. /\ RemapReadingProgress(old, new, at) \in [chapter : Nat, inside : BOOLEAN]
        /\ RemapReadingProgress(old, new, at).chapter = index
        /\ RemapReadingProgress(old, new, at).inside = at.inside
    BY <2>1, <2>3
  <2> QED BY <1>4, <2>2, <2>4 DEF index
<1> QED BY <1>2, <1>3, <1>4

LEMMA PlaceIsFound == TocInv => PlaceSurvives
<1> SUFFICES ASSUME TocInv, NEW new \in Tocs
             PROVE  LET now == RemapReadingProgress(toc, new, place)
                        here == place.chapter
                        listed == here \in DOMAIN toc
                    IN /\ now.chapter = 1 \/ now.chapter \in DOMAIN new
                       /\ \A i \in DOMAIN new :
                            listed /\ HasUrl(toc, here) /\ Identity(new, i) = Identity(toc, here) =>
                              now = [place EXCEPT !.chapter = i]
                       /\ new = toc /\ listed /\ NoIndexIsTitle(toc, toc) => now = place
                       /\ listed /\ Distinct(toc) /\ Distinct(new) /\ AllTitled(toc)
                          /\ NoIndexIsTitle(toc, new) =>
                            IF \E i \in DOMAIN new : new[i] = toc[here]
                            THEN Stays(toc, new, place)
                            ELSE place.inside /\ now.inside => Related(new[now.chapter], toc[here])
  BY DEF PlaceSurvives
<1> DEFINE now == RemapReadingProgress(toc, new, place)
           here == place.chapter
<1>1. toc \in Tocs /\ place \in [chapter : Nat, inside : BOOLEAN]
  BY DEF TocInv
<1>2. ASSUME here \in DOMAIN toc, NEW i \in DOMAIN new, Clear(new, i),
             Identity(new, i) = Identity(toc, here)
      PROVE  now = [place EXCEPT !.chapter = i]
  BY <1>1, <1>2, StaysWhereFound
<1>3. ASSUME here \in DOMAIN toc, HasUrl(toc, here), NEW i \in DOMAIN new,
             Identity(new, i) = Identity(toc, here)
      PROVE  now = [place EXCEPT !.chapter = i]
  <2>1. HasUrl(new, i)
    BY <1>3, Tags
  <2> QED BY <1>2, <1>3, <2>1 DEF Clear
<1>4. ASSUME new = toc, here \in DOMAIN toc, NoIndexIsTitle(toc, toc) PROVE now = place
  <2>1. Clear(toc, here)
    BY <1>4 DEF Clear, NoIndexIsTitle, Nameless
  <2> QED BY <1>1, <1>2, <1>4, <2>1
<1>5. /\ now.chapter = 1 \/ now.chapter \in DOMAIN new
      /\ now.inside => here \in Survivors(toc, new) /\ now.chapter = NewIndex(toc, new, here)
  BY <1>1, RemapFacts
<1>6. ASSUME here \in DOMAIN toc, Distinct(toc), Distinct(new), AllTitled(toc),
             NoIndexIsTitle(toc, new), NEW i \in DOMAIN new, new[i] = toc[here]
      PROVE  Stays(toc, new, place)
  <2>1. HasTitle(toc, here) /\ Clear(toc, here)
    BY <1>6 DEF AllTitled, Clear, Nameless
  <2>2. HasTitle(new, i) /\ Clear(new, i)
    BY <1>6, <2>1 DEF Clear, NoIndexIsTitle, HasTitle
  <2>3. Identity(new, i) = Identity(toc, here)
    BY <1>1, <1>6, <2>1, <2>2, DistinctIdentity
  <2> QED BY <1>2, <1>6, <2>2, <2>3 DEF Stays
<1>7. ASSUME here \in DOMAIN toc, AllTitled(toc), NoIndexIsTitle(toc, new), now.inside
      PROVE  Related(new[now.chapter], toc[here])
  <2>1. now.chapter = NewIndex(toc, new, here) /\ now.chapter # 0 /\ HasTitle(toc, here)
    BY <1>5, <1>7 DEF Survivors, AllTitled
  <2>2. /\ now.chapter \in DOMAIN new
        /\ \/ Identity(toc, here) \in Keyed(new, now.chapter)
           \/ TitlePlace(toc, here) \in Keyed(new, now.chapter)
    BY <1>1, <1>7, <2>1, NewIndexFacts
  <2> QED BY <1>7, <2>1, <2>2, KeyRelates
<1> HIDE DEF now, here
<1>8. /\ now.chapter = 1 \/ now.chapter \in DOMAIN new
      /\ \A i \in DOMAIN new :
           here \in DOMAIN toc /\ HasUrl(toc, here) /\ Identity(new, i) = Identity(toc, here) =>
             now = [place EXCEPT !.chapter = i]
      /\ new = toc /\ here \in DOMAIN toc /\ NoIndexIsTitle(toc, toc) => now = place
      /\ here \in DOMAIN toc /\ Distinct(toc) /\ Distinct(new) /\ AllTitled(toc)
         /\ NoIndexIsTitle(toc, new) =>
           IF \E i \in DOMAIN new : new[i] = toc[here]
           THEN Stays(toc, new, place)
           ELSE place.inside /\ now.inside => Related(new[now.chapter], toc[here])
  BY <1>3, <1>4, <1>5, <1>6, <1>7
<1> QED BY <1>8 DEF now, here

LEMMA AlwaysTocInv == TocSpec => []TocInv
<1>1. TocInit => TocInv
  <2>1. <<>> \in Tocs
    <3>1. <<>> \in [1..0 -> TocEntries] /\ 0 \in 0..MaxToc
      BY TocAssumption
    <3> QED BY <3>1 DEF Tocs
  <2> QED BY <2>1 DEF TocInit, TocInv
<1>2. TocInv /\ [TocNext]_tocVars => TocInv'
  <2> SUFFICES ASSUME TocInv, [TocNext]_tocVars PROVE TocInv'
    OBVIOUS
  <2>1. ASSUME NEW new \in Tocs, RefreshToc(new) PROVE TocInv'
    BY <2>1, RemapFacts DEF RefreshToc, TocInv
  <2>2. ASSUME NEW chapter \in DOMAIN toc, ReadOn(chapter) PROVE TocInv'
    BY <2>2, TocFacts DEF ReadOn, TocInv
  <2>3. CASE UNCHANGED tocVars
    BY <2>3 DEF tocVars, TocInv
  <2> QED BY <2>1, <2>2, <2>3 DEF TocNext
<1> QED BY <1>1, <1>2, PTL DEF TocSpec

\* Tables of contents of any length, with whatever urls and titles, in any order
\* of refreshes and reading: the next refresh finds the reader's place again, as
\* PlaceSurvives says; what needs it is said only where no chapter without url
\* and title can be mistaken for one that is titled with its index.
THEOREM PlaceIsKept == TocSpec => []PlaceSurvives
  BY AlwaysTocInv, PlaceIsFound, PTL

(***************************************************************************)
(* The RSS library.                                                        *)
(***************************************************************************)
\* The tables agree on what is unread in a subscription.
Same(table, other, f) ==
  \A k : /\ k \in EntriesOf(table, f) <=> k \in EntriesOf(other, f)
         /\ k \in EntriesOf(table, f) => (table[k].read <=> other[k].read)

LEMMA SameUnread ==
  ASSUME NEW table, NEW other, NEW f, Same(table, other, f)
  PROVE  Unread(table, f) = Unread(other, f)
<1>1. {k \in EntriesOf(table, f) : ~table[k].read} = {k \in EntriesOf(other, f) : ~other[k].read}
  BY DEF Same
<1> QED BY <1>1 DEF Unread

LEMMA MergedFacts ==
  ASSUME NEW f, NEW feed
  PROVE  /\ \A k : k \in DOMAIN Merged(f, feed) <=>
              k \in DOMAIN entries \/ \E i \in DOMAIN feed : k = <<f, feed[i].id>>
         /\ \A g : g # f => Same(Merged(f, feed), entries, g)
<1> DEFINE Places(k) == {i \in DOMAIN feed : <<f, feed[i].id>> = k}
           Text(k) == feed[Max(Places(k))].text
           keys == DOMAIN entries \union {<<f, feed[i].id>> : i \in DOMAIN feed}
           m == [k \in keys |-> IF Places(k) = {} THEN entries[k]
                                ELSE IF k \in DOMAIN entries THEN [entries[k] EXCEPT !.text = Text(k)]
                                ELSE [text |-> Text(k), read |-> FALSE, starred |-> FALSE]]
<1>1. Merged(f, feed) = m
  BY DEF Merged
<1>2. \A k : k \in DOMAIN m <=> k \in DOMAIN entries \/ \E i \in DOMAIN feed : k = <<f, feed[i].id>>
  OBVIOUS
<1>3. ASSUME NEW k, k[1] # f PROVE Places(k) = {} /\ (k \in keys <=> k \in DOMAIN entries)
  BY <1>3
<1>4. ASSUME NEW k \in keys, Places(k) = {} PROVE m[k] = entries[k]
  BY <1>4
<1>5. ASSUME NEW g, g # f PROVE Same(m, entries, g)
  <2>1. DOMAIN m = keys
    OBVIOUS
  <2> HIDE DEF m, keys, Places
  <2> QED BY <1>3, <1>4, <1>5, <2>1 DEF Same, EntriesOf
<1> HIDE DEF m
<1> QED BY <1>1, <1>2, <1>5

\* A new id is announced at its first place in the feed, and only there.
LEMMA AnnouncedOnce ==
  ASSUME NEW f, NEW feed \in FeedPages, NEW k,
         k \notin DOMAIN entries, \E i \in DOMAIN feed : k = <<f, feed[i].id>>
  PROVE  Cardinality({i \in NewEntries(f, feed) : <<f, feed[i].id>> = k}) = 1
<1> DEFINE places == {i \in NewEntries(f, feed) : <<f, feed[i].id>> = k}
           all == {i \in DOMAIN feed : <<f, feed[i].id>> = k}
<1>1. PICK n \in Nat : DOMAIN feed = 1..n
  BY RssAssumption DEF FeedPages
<1>2. all \in SUBSET Int /\ IsFiniteSet(all) /\ all # {}
  <2>1. all \in SUBSET (1..n) /\ all # {}
    BY <1>1
  <2>2. IsFiniteSet(all)
    <3> HIDE DEF all
    <3>1. IsFiniteSet(1..n)
      BY FS_Interval
    <3> QED BY <2>1, <3>1, FS_Subset
  <2> QED BY <2>1, <2>2
<1>3. PICK i \in all : \A j \in all : i <= j
  <2> HIDE DEF all
  <2> QED BY <1>2, LeastExists
<1>4. i \in places
  <2>1. \A j \in 1..(i - 1) : feed[j].id # feed[i].id
    BY <1>1, <1>3
  <2> QED BY <1>3, <2>1 DEF NewEntries
<1>5. ASSUME NEW j \in places PROVE j = i
  <2>1. j \in all /\ i \in Int /\ j \in Int /\ i <= j
    BY <1>2, <1>3 DEF NewEntries
  <2>2. ~(i \in 1..(j - 1))
    <3>1. feed[i].id = feed[j].id
      BY <1>3, <1>5
    <3> QED BY <1>5, <3>1 DEF NewEntries
  <2> QED BY <1>1, <1>3, <2>1, <2>2
<1>6. places = {i}
  <2> HIDE DEF places
  <2> QED BY <1>4, <1>5
<1> HIDE DEF places
<1>7. Cardinality(places) = 1
  BY <1>6, FS_Singleton
<1> QED BY <1>7 DEF places

LEMMA RefreshConsistent ==
  ASSUME LibraryIsConsistent, NEW f, NEW feed \in FeedPages, Refresh(f, feed)
  PROVE  LibraryIsConsistent'
<1> DEFINE m == Merged(f, feed)
<1>1. /\ f \in DOMAIN subscriptions /\ entries' = m
      /\ DOMAIN subscriptions' = DOMAIN subscriptions
      /\ subscriptions'[f] = Unread(m, f)
      /\ \A g \in DOMAIN subscriptions \ {f} : subscriptions'[g] = subscriptions[g]
      /\ edited' = edited \ {f}
  BY DEF Refresh, Recounted
<1>2. \A k : k \in DOMAIN m <=> k \in DOMAIN entries \/ \E i \in DOMAIN feed : k = <<f, feed[i].id>>
  BY MergedFacts
<1>3. \A g : g # f => Same(m, entries, g)
  BY MergedFacts
<1> HIDE DEF m
<1>4. \A g \in DOMAIN subscriptions' \ edited' : subscriptions'[g] = Unread(entries', g)
  BY <1>1, <1>3, SameUnread DEF LibraryIsConsistent
<1>5. ValidLibrary(subscriptions', entries')
  BY <1>1, <1>2 DEF LibraryIsConsistent, ValidLibrary
<1>6. DOMAIN announced' = DOMAIN entries' /\ \A k \in DOMAIN entries' : announced'[k] = 1
  <2> DEFINE Until(k) == IF k \in DOMAIN announced THEN announced[k] ELSE 0
             Now(k) == Cardinality({i \in NewEntries(f, feed) : <<f, feed[i].id>> = k})
  <2>1. announced' = [k \in DOMAIN entries' |-> Until(k) + Now(k)]
    BY DEF Refresh
  <2>2. ASSUME NEW k \in DOMAIN entries' PROVE Until(k) + Now(k) = 1
    <3>1. CASE k \in DOMAIN entries
      <4>1. Until(k) = 1
        BY <3>1 DEF LibraryIsConsistent
      <4>2. Now(k) = 0
        <5>1. {i \in NewEntries(f, feed) : <<f, feed[i].id>> = k} = {}
          BY <3>1 DEF NewEntries
        <5> QED BY <5>1, FS_EmptySet
      <4> HIDE DEF Until, Now
      <4> QED BY <3>1, <4>1, <4>2
    <3>2. CASE k \notin DOMAIN entries
      <4>1. Until(k) = 0
        BY <3>2 DEF LibraryIsConsistent
      <4>2. Now(k) = 1
        BY <1>1, <1>2, <3>2, AnnouncedOnce
      <4> HIDE DEF Until, Now
      <4> QED BY <4>1, <4>2
    <3> QED BY <3>1, <3>2
  <2> HIDE DEF Until, Now
  <2> QED BY <2>1, <2>2
<1> QED BY <1>4, <1>5, <1>6 DEF LibraryIsConsistent

\* The reader marks entries of one subscription.
LEMMA UpdateConsistent ==
  ASSUME LibraryIsConsistent, NEW f \in DOMAIN subscriptions, NEW table, UpdateEntry(f, table),
         DOMAIN table = DOMAIN entries, \A g : g # f => Same(table, entries, g)
  PROVE  LibraryIsConsistent'
<1>1. /\ entries' = table /\ announced' = announced
      /\ DOMAIN subscriptions' = DOMAIN subscriptions
      /\ subscriptions'[f] = Unread(table, f)
      /\ \A g \in DOMAIN subscriptions \ {f} : subscriptions'[g] = subscriptions[g]
      /\ edited' = edited \ {f}
  BY DEF UpdateEntry, Recounted
<1>2. \A g \in DOMAIN subscriptions' \ edited' : subscriptions'[g] = Unread(entries', g)
  BY <1>1, SameUnread DEF LibraryIsConsistent
<1> QED BY <1>1, <1>2 DEF LibraryIsConsistent, ValidLibrary

LEMMA MarkConsistent ==
  ASSUME LibraryIsConsistent, NEW f, NEW id,
         \/ MarkEntryRead(f, id) \/ MarkEntryUnread(f, id)
         \/ \E starred : SetEntryStarred(f, id, starred)
  PROVE  LibraryIsConsistent'
<1>1. PICK table : /\ UpdateEntry(f, table) /\ DOMAIN table = DOMAIN entries
                   /\ \A k \in DOMAIN entries : k # <<f, id>> => table[k] = entries[k]
  BY DEF MarkEntryRead, MarkEntryUnread, SetEntryStarred
<1>2. f \in DOMAIN subscriptions
  BY DEF MarkEntryRead, MarkEntryUnread, SetEntryStarred, Known
<1>3. \A g : g # f => Same(table, entries, g)
  BY <1>1 DEF Same, EntriesOf
<1> QED BY <1>1, <1>2, <1>3, UpdateConsistent

LEMMA MarkAllConsistent ==
  ASSUME LibraryIsConsistent, NEW f, MarkAllRead(f) PROVE LibraryIsConsistent'
<1> DEFINE table == [k \in DOMAIN entries |->
                       IF k[1] = f THEN [entries[k] EXCEPT !.read = TRUE] ELSE entries[k]]
<1>1. f \in DOMAIN subscriptions /\ UpdateEntry(f, table)
  BY DEF MarkAllRead
<1>2. DOMAIN table = DOMAIN entries /\ \A k \in DOMAIN entries : k[1] # f => table[k] = entries[k]
  OBVIOUS
<1> HIDE DEF table
<1>3. \A g : g # f => Same(table, entries, g)
  BY <1>2 DEF Same, EntriesOf
<1> QED BY <1>1, <1>2, <1>3, UpdateConsistent

LEMMA RemoveConsistent ==
  ASSUME LibraryIsConsistent, NEW f, RemoveSubscription(f) PROVE LibraryIsConsistent'
<1>1. /\ DOMAIN subscriptions' = DOMAIN subscriptions \ {f}
      /\ \A g \in DOMAIN subscriptions' : subscriptions'[g] = subscriptions[g]
      /\ edited' = edited \ {f}
  BY DEF RemoveSubscription, Only
<1>2. /\ DOMAIN entries' = DOMAIN entries \ EntriesOf(entries, f)
      /\ \A k \in DOMAIN entries' : entries'[k] = entries[k]
      /\ DOMAIN announced' = DOMAIN announced \ EntriesOf(announced, f)
      /\ \A k \in DOMAIN announced' : announced'[k] = announced[k]
  BY DEF RemoveSubscription, Only
<1>3. \A g : g # f => Same(entries', entries, g)
  BY <1>2 DEF Same, EntriesOf
<1>4. \A g \in DOMAIN subscriptions' \ edited' : subscriptions'[g] = Unread(entries', g)
  BY <1>1, <1>3, SameUnread DEF LibraryIsConsistent
<1> QED BY <1>1, <1>2, <1>4 DEF LibraryIsConsistent, ValidLibrary, EntriesOf

LEMMA RssNextConsistent == LibraryIsConsistent /\ [RssNext]_rssVars => LibraryIsConsistent'
<1> SUFFICES ASSUME LibraryIsConsistent, [RssNext]_rssVars PROVE LibraryIsConsistent'
  OBVIOUS
<1>1. CASE UNCHANGED rssVars
  BY <1>1 DEF rssVars, LibraryIsConsistent, ValidLibrary, Unread, EntriesOf
<1>2. ASSUME NEW f, NEW unread, UpsertSubscription(f, unread) PROVE LibraryIsConsistent'
  BY <1>2 DEF UpsertSubscription, LibraryIsConsistent, ValidLibrary, Unread, EntriesOf
<1>3. ASSUME NEW subs, NEW table, ImportLibrary(subs, table) PROVE LibraryIsConsistent'
  BY <1>3 DEF ImportLibrary, LibraryIsConsistent, ValidLibrary, Unread, EntriesOf
<1> QED BY <1>1, <1>2, <1>3, RefreshConsistent, MarkConsistent, MarkAllConsistent, RemoveConsistent
        DEF RssNext

\* For every feed, every library that is imported and every order of the calls:
\* no entry without its subscription, every entry announced exactly once, and the
\* unread counts right but where the host has written the subscription itself.
THEOREM LibraryConsistent == RssSpec => []LibraryIsConsistent
<1>1. RssInit => LibraryIsConsistent
  BY DEF RssInit, Empty, LibraryIsConsistent, ValidLibrary
<1> QED BY <1>1, RssNextConsistent, PTL DEF RssSpec

(***************************************************************************)
(* The slicer, for texts of any length.                                    *)
(***************************************************************************)
\* Where a stretch begins that ends at e, after the end before it or after low.
CutStart(E, low, e) == Max({low} \union {i \in E : i < e}) + 1

\* Ends cut a stretch into stretches that follow each other and leave nothing out.
LEMMA Cuts ==
  ASSUME NEW low \in Int, NEW E \in SUBSET Int, IsFiniteSet(E), \A e \in E : low < e
  PROVE  /\ \A e \in E : /\ CutStart(E, low, e) \in Int
                         /\ low < CutStart(E, low, e) /\ CutStart(E, low, e) <= e
         /\ \A e, f \in E : e < f => e < CutStart(E, low, f)
         /\ \A x \in Int : low < x /\ (\E e \in E : x <= e) =>
              \E e \in E : CutStart(E, low, e) <= x /\ x <= e
<1>1. ASSUME NEW e \in E
      PROVE  LET earlier == {low} \union {i \in E : i < e}
             IN  /\ Max(earlier) \in earlier /\ Max(earlier) \in Int
                 /\ \A x \in earlier : x <= Max(earlier)
  <2> DEFINE before == {i \in E : i < e}
  <2>1. IsFiniteSet(before)
    BY FS_Subset
  <2>2. IsFiniteSet({low} \union before)
    BY <2>1, FS_Singleton, FS_Union
  <2> QED BY <2>2, MaxFacts
<1>2. ASSUME NEW e \in E
      PROVE  /\ CutStart(E, low, e) \in Int
             /\ low < CutStart(E, low, e) /\ CutStart(E, low, e) <= e
  <2> DEFINE earlier == {low} \union {i \in E : i < e}
  <2>1. Max(earlier) \in Int /\ low <= Max(earlier) /\ Max(earlier) < e
    BY <1>1
  <2>2. CutStart(E, low, e) = Max(earlier) + 1
    BY DEF CutStart
  <2> HIDE DEF earlier
  <2> QED BY <2>1, <2>2
<1>3. ASSUME NEW e \in E, NEW f \in E, e < f PROVE e < CutStart(E, low, f)
  <2> DEFINE earlier == {low} \union {i \in E : i < f}
  <2>1. Max(earlier) \in Int /\ e <= Max(earlier)
    BY <1>1, <1>3
  <2>2. CutStart(E, low, f) = Max(earlier) + 1
    BY DEF CutStart
  <2> HIDE DEF earlier
  <2> QED BY <2>1, <2>2
<1>4. ASSUME NEW x \in Int, low < x, NEW f \in E, x <= f
      PROVE  \E e \in E : CutStart(E, low, e) <= x /\ x <= e
  <2> DEFINE later == {e \in E : x <= e}
  <2>1. IsFiniteSet(later) /\ later # {} /\ later \subseteq Int
    BY <1>4, FS_Subset
  <2>2. PICK e \in later : \A d \in later : e <= d
    BY <2>1, LeastExists
  <2> DEFINE earlier == {low} \union {i \in E : i < e}
  <2>3. Max(earlier) \in earlier /\ Max(earlier) \in Int
    BY <1>1
  <2>4. \A i \in earlier : i < x
    BY <1>4, <2>2
  <2>5. CutStart(E, low, e) = Max(earlier) + 1
    BY DEF CutStart
  <2>6. Max(earlier) < x
    BY <2>3, <2>4
  <2> HIDE DEF earlier
  <2> QED BY <2>2, <2>3, <2>5, <2>6
<1> QED BY <1>2, <1>3, <1>4

\* Stretches one after the other.
Follows(t, s) == s[1] <= s[2] /\ s[2] < t[1] /\ t[1] <= t[2]
Apart(s, t) == s = t \/ Follows(s, t) \/ Follows(t, s)

LEMMA VisibleFacts ==
  ASSUME NEW text, NEW a \in Int, NEW b \in Int
  PROVE  /\ Visible(text, a, b) \in SUBSET Int /\ IsFiniteSet(Visible(text, a, b))
         /\ \A x : x \in Visible(text, a, b) <=>
              x \in Int /\ a <= x /\ x <= b /\ text[x] \in {"letter", "terminal"}
<1>1. Visible(text, a, b) \in SUBSET (a..b)
  BY DEF Visible
<1>2. IsFiniteSet(Visible(text, a, b))
  BY <1>1, FS_Interval, FS_Subset
<1> QED BY <1>1, <1>2 DEF Visible

LEMMA TextFacts ==
  ASSUME NEW text \in TtsTexts
  PROVE  Len(text) \in Nat /\ \A i \in 1..Len(text) : text[i] \in {"letter", "terminal", "space", "newline"}
  BY TtsAssumption

LEMMA LineFacts ==
  ASSUME NEW text \in TtsTexts
  PROVE  /\ IsFiniteSet(FullLines(text))
         /\ \A s \in FullLines(text) :
              /\ s = <<s[1], s[2]>> /\ s[1] \in Int /\ s[2] \in Int
              /\ 1 <= s[1] /\ s[1] <= s[2] /\ s[2] <= Len(text)
              /\ Visible(text, s[1], s[2]) # {}
         /\ \A s, t \in FullLines(text) : Apart(s, t)
         /\ \A line \in Lines(text) :
              line[1] \in Int /\ \A s \in FullLines(text) : s[1] = line[1] => s = line
         /\ \A x \in Visible(text, 1, Len(text)) :
              \E s \in FullLines(text) : x \in Visible(text, s[1], s[2])
<1> DEFINE n == Len(text)
           E == LineEnds(text)
           L(e) == <<CutStart(E, 0, e), e - 1>>
           g == [e \in E |-> L(e)]
<1>0. n \in Nat /\ \A i \in 1..n : text[i] \in {"letter", "terminal", "space", "newline"}
  BY TextFacts
<1>1. E \in SUBSET Int /\ IsFiniteSet(E) /\ (\A e \in E : 0 < e /\ e <= n + 1) /\ n + 1 \in E
      /\ \A e \in E : e = n + 1 \/ text[e] = "newline"
  <2>1. {i \in 1..n : text[i] = "newline"} \in SUBSET (1..n)
    OBVIOUS
  <2>2. IsFiniteSet({i \in 1..n : text[i] = "newline"})
    <3>1. IsFiniteSet(1..n)
      BY <1>0, FS_Interval
    <3> QED BY <2>1, <3>1, FS_Subset
  <2>3. IsFiniteSet(E)
    BY <2>2, FS_Singleton, FS_Union DEF LineEnds
  <2> QED BY <1>0, <2>3 DEF LineEnds
<1>2. Lines(text) = {L(e) : e \in E}
  BY DEF Lines, CutStart
<1> HIDE DEF E
<1>3. Lines(text) = {g[e] : e \in E}
  BY <1>2
<1>4. IsFiniteSet(FullLines(text))
  <2>1. IsFiniteSet({g[x] : x \in E})
    <3> HIDE DEF g
    <3> QED BY <1>1, ImageIsFinite
  <2>2. IsFiniteSet(Lines(text))
    <3> HIDE DEF g
    <3> QED BY <1>3, <2>1
  <2> QED BY <2>2, FS_Subset DEF FullLines
<1>5. /\ \A e \in E : CutStart(E, 0, e) \in Int /\ 0 < CutStart(E, 0, e) /\ CutStart(E, 0, e) <= e
      /\ \A e, f \in E : e < f => e < CutStart(E, 0, f)
      /\ \A x \in Int : 0 < x /\ (\E e \in E : x <= e) =>
              \E e \in E : CutStart(E, 0, e) <= x /\ x <= e
  <2>1. 0 \in Int /\ E \in SUBSET Int /\ IsFiniteSet(E) /\ \A e \in E : 0 < e
    BY <1>1
  <2> QED BY <2>1, Cuts
<1>6. ASSUME NEW s \in FullLines(text)
      PROVE  \E e \in E : /\ s = L(e) /\ s[1] = CutStart(E, 0, e) /\ s[2] = e - 1
                          /\ s[1] <= s[2] /\ Visible(text, s[1], s[2]) # {}
  <2>1. PICK e \in E : s = L(e)
    BY <1>2 DEF FullLines
  <2>2. s[1] = CutStart(E, 0, e) /\ s[2] = e - 1 /\ Visible(text, s[1], s[2]) # {}
    BY <2>1 DEF FullLines
  <2>3. s[1] \in Int /\ s[2] \in Int
    BY <1>1, <1>5, <2>2
  <2>4. s[1] <= s[2]
    BY <2>2, <2>3, VisibleFacts
  <2> QED BY <2>1, <2>2, <2>4
<1>7. ASSUME NEW s \in FullLines(text)
      PROVE  /\ s = <<s[1], s[2]>> /\ s[1] \in Int /\ s[2] \in Int
             /\ 1 <= s[1] /\ s[1] <= s[2] /\ s[2] <= Len(text)
             /\ Visible(text, s[1], s[2]) # {}
  <2>1. PICK e \in E : /\ s = L(e) /\ s[1] = CutStart(E, 0, e) /\ s[2] = e - 1
                       /\ s[1] <= s[2] /\ Visible(text, s[1], s[2]) # {}
    BY <1>6
  <2> QED BY <1>0, <1>1, <1>5, <2>1
<1>8. ASSUME NEW s \in FullLines(text), NEW t \in FullLines(text) PROVE Apart(s, t)
  <2>1. PICK e \in E : s = L(e) /\ s[1] = CutStart(E, 0, e) /\ s[2] = e - 1 /\ s[1] <= s[2]
    BY <1>6
  <2>2. PICK f \in E : t = L(f) /\ t[1] = CutStart(E, 0, f) /\ t[2] = f - 1 /\ t[1] <= t[2]
    BY <1>6
  <2>3. e \in Int /\ f \in Int
    BY <1>1
  <2>4. CASE e = f
    BY <2>1, <2>2, <2>4 DEF Apart, Follows
  <2>5. CASE e < f
    <3>1. e < CutStart(E, 0, f) /\ CutStart(E, 0, f) \in Int
      BY <1>5, <2>5
    <3> QED BY <2>1, <2>2, <2>3, <3>1 DEF Apart, Follows
  <2>6. CASE f < e
    <3>1. f < CutStart(E, 0, e) /\ CutStart(E, 0, e) \in Int
      BY <1>5, <2>6
    <3> QED BY <2>1, <2>2, <2>3, <3>1 DEF Apart, Follows
  <2> QED BY <2>3, <2>4, <2>5, <2>6
<1>9. ASSUME NEW x \in Visible(text, 1, n)
      PROVE  \E s \in FullLines(text) : x \in Visible(text, s[1], s[2])
  <2>1. x \in Int /\ 1 <= x /\ x <= n /\ text[x] \in {"letter", "terminal"}
    BY <1>0, <1>9, VisibleFacts
  <2>2. x <= n + 1
    BY <1>0, <2>1
  <2>3. PICK e \in E : CutStart(E, 0, e) <= x /\ x <= e
    BY <1>1, <1>5, <2>1, <2>2
  <2>4. x # e
    BY <1>0, <1>1, <2>1
  <2>5. x <= e - 1 /\ e - 1 \in Int /\ CutStart(E, 0, e) \in Int
    BY <1>1, <1>5, <2>1, <2>3, <2>4
  <2>6. x \in Visible(text, CutStart(E, 0, e), e - 1)
    BY <2>1, <2>3, <2>5, VisibleFacts
  <2>7. L(e) \in FullLines(text)
    BY <1>2, <2>6 DEF FullLines
  <2> QED BY <2>6, <2>7
<1>10. ASSUME NEW line \in Lines(text)
       PROVE  line[1] \in Int /\ \A s \in FullLines(text) : s[1] = line[1] => s = line
  <2>1. PICK e \in E : line = L(e)
    BY <1>2
  <2>2. line[1] = CutStart(E, 0, e) /\ line[1] \in Int /\ line[1] <= e /\ e \in Int
    BY <1>1, <1>5, <2>1
  <2>3. ASSUME NEW s \in FullLines(text), s[1] = line[1] PROVE s = line
    <3>1. PICK f \in E : s = L(f) /\ s[1] = CutStart(E, 0, f)
      BY <1>6
    <3>2. f \in Int /\ CutStart(E, 0, f) <= f
      BY <1>1, <1>5
    <3>3. e = f
      BY <1>5, <2>2, <2>3, <3>1, <3>2
    <3> QED BY <2>1, <3>1, <3>3
  <2> QED BY <2>2, <2>3
<1> QED BY <1>4, <1>7, <1>8, <1>9, <1>10

LEMMA SentenceFacts ==
  ASSUME NEW text \in TtsTexts, NEW a \in Int, NEW b \in Int, a <= b + 1
  PROVE  /\ IsFiniteSet(Sentences(text, a, b))
         /\ \A s \in Sentences(text, a, b) :
              /\ s = <<s[1], s[2]>> /\ s[1] \in Int /\ s[2] \in Int
              /\ a <= s[1] /\ s[1] <= s[2] /\ s[2] <= b
              /\ Visible(text, s[1], s[2]) # {}
         /\ \A s, t \in Sentences(text, a, b) : Apart(s, t)
         /\ \A x \in Visible(text, a, b) :
              \E s \in Sentences(text, a, b) : x \in Visible(text, s[1], s[2])
<1> DEFINE low == a - 1
           E == {i \in a..b : text[i] = "terminal"} \union {b}
           C(e) == CutStart(E, low, e)
           g == [e \in E |-> <<C(e), e>>]
<1>1. Sentences(text, a, b)
        = {<<C(e), e>> : e \in {x \in E : Visible(text, C(x), x) # {}}}
  BY DEF Sentences, CutStart
<1>2. low \in Int /\ E \in SUBSET Int /\ IsFiniteSet(E) /\ b \in E /\ \A e \in E : e <= b
  <2>1. {i \in a..b : text[i] = "terminal"} \in SUBSET (a..b) /\ IsFiniteSet(a..b)
    BY FS_Interval
  <2>2. IsFiniteSet({i \in a..b : text[i] = "terminal"})
    BY <2>1, FS_Subset
  <2>3. IsFiniteSet({i \in a..b : text[i] = "terminal"} \union {b})
    BY <2>2, FS_Singleton, FS_Union
  <2>4. b \in E /\ \A e \in E : e \in Int /\ e <= b
    OBVIOUS
  <2> QED BY <2>3, <2>4
<1>3. CASE a = b + 1
  <2>1. low = b /\ E = {b}
    BY <1>3
  <2>2. CutStart({b}, b, b) = Max({b}) + 1
    <3>1. {b} \union {i \in {b} : i < b} = {b}
      BY <1>2
    <3> QED BY <3>1 DEF CutStart
  <2>3. Max({b}) = b
    <3>1. {b} \in SUBSET Int /\ {b} # {} /\ IsFiniteSet({b})
      BY FS_Singleton
    <3> QED BY <3>1, MaxFacts
  <2>4. Visible(text, b + 1, b) = {}
    BY VisibleFacts
  <2>5. \A x \in E : Visible(text, C(x), x) = {}
    BY <2>1, <2>2, <2>3, <2>4
  <2>6. Sentences(text, a, b) = {}
    <3> HIDE DEF E, C
    <3> QED BY <1>1, <2>5
  <2>7. Visible(text, a, b) = {}
    BY <1>3, <2>4
  <2> QED BY <2>6, <2>7, FS_EmptySet
<1>4. CASE a <= b
  <2>0. \A e \in E : low < e
    BY <1>4
  <2> HIDE DEF E
  <2>1. /\ \A e \in E : C(e) \in Int /\ low < C(e) /\ C(e) <= e
        /\ \A e, f \in E : e < f => e < C(f)
        /\ \A x \in Int : low < x /\ (\E e \in E : x <= e) => \E e \in E : C(e) <= x /\ x <= e
    BY <1>2, <2>0, Cuts
  <2> HIDE DEF C
  <2>2. IsFiniteSet(Sentences(text, a, b))
    <3>1. IsFiniteSet({g[e] : e \in E})
      <4> HIDE DEF g
      <4> QED BY <1>2, ImageIsFinite
    <3>2. Sentences(text, a, b) \subseteq {g[e] : e \in E}
      BY <1>1
    <3> HIDE DEF g
    <3> QED BY <3>1, <3>2, FS_Subset
  <2>3. ASSUME NEW s \in Sentences(text, a, b)
        PROVE  \E e \in E : /\ s = <<C(e), e>> /\ s[1] = C(e) /\ s[2] = e
                            /\ Visible(text, s[1], s[2]) # {}
    BY <1>1
  <2>4. ASSUME NEW s \in Sentences(text, a, b)
        PROVE  /\ s = <<s[1], s[2]>> /\ s[1] \in Int /\ s[2] \in Int
               /\ a <= s[1] /\ s[1] <= s[2] /\ s[2] <= b
               /\ Visible(text, s[1], s[2]) # {}
    <3>1. PICK e \in E : s = <<C(e), e>> /\ s[1] = C(e) /\ s[2] = e /\ Visible(text, s[1], s[2]) # {}
      BY <2>3
    <3>2. C(e) \in Int /\ low < C(e) /\ C(e) <= e /\ e \in Int /\ e <= b
      BY <1>2, <2>1
    <3> QED BY <3>1, <3>2
  <2>5. ASSUME NEW s \in Sentences(text, a, b), NEW t \in Sentences(text, a, b) PROVE Apart(s, t)
    <3>1. PICK e \in E : s = <<C(e), e>> /\ s[1] = C(e) /\ s[2] = e
      BY <2>3
    <3>2. PICK f \in E : t = <<C(f), f>> /\ t[1] = C(f) /\ t[2] = f
      BY <2>3
    <3>3. /\ e \in Int /\ f \in Int /\ C(e) \in Int /\ C(f) \in Int
          /\ C(e) <= e /\ C(f) <= f /\ (e < f => e < C(f)) /\ (f < e => f < C(e))
      BY <1>2, <2>1
    <3> QED BY <3>1, <3>2, <3>3 DEF Apart, Follows
  <2>6. ASSUME NEW x \in Visible(text, a, b)
        PROVE  \E s \in Sentences(text, a, b) : x \in Visible(text, s[1], s[2])
    <3>1. x \in Int /\ a <= x /\ x <= b /\ text[x] \in {"letter", "terminal"}
      BY <2>6, VisibleFacts
    <3>2. PICK e \in E : C(e) <= x /\ x <= e
      BY <1>2, <2>1, <3>1
    <3>3. x \in Visible(text, C(e), e)
      BY <1>2, <2>1, <3>1, <3>2, VisibleFacts
    <3>4. <<C(e), e>> \in Sentences(text, a, b)
      BY <1>1, <3>3
    <3> QED BY <3>3, <3>4
  <2> QED BY <2>2, <2>4, <2>5, <2>6
<1> QED BY <1>3, <1>4

\* The lines from one to the other are full.
Together(text, s, t) == \A line \in Lines(text) :
                          s[1] <= line[1] /\ line[1] <= t[1] => line \in FullLines(text)
Opens(text, s) == ~\E q \in FullLines(text) : q[1] < s[1] /\ Together(text, q, s)
Run(text, s) == {x \in FullLines(text) : s[1] <= x[1] /\ Together(text, s, x)}
LastOf(text, s) == Max({x[2] : x \in Run(text, s)})

LEMMA ParagraphFacts ==
  ASSUME NEW text \in TtsTexts
  PROVE  /\ IsFiniteSet(Paragraphs(text))
         /\ \A p \in Paragraphs(text) :
              /\ p = <<p[1], p[2]>> /\ p[1] \in Int /\ p[2] \in Int
              /\ 1 <= p[1] /\ p[1] <= p[2] /\ p[2] <= Len(text)
              /\ \E s \in FullLines(text) : s[1] = p[1] /\ s[2] <= p[2]
         /\ \A p, q \in Paragraphs(text) : Apart(p, q)
         /\ \A x \in Visible(text, 1, Len(text)) :
              \E p \in Paragraphs(text) : x \in Visible(text, p[1], p[2])
<1> DEFINE F == FullLines(text)
           O == {s \in F : Opens(text, s)}
           P(s) == <<s[1], LastOf(text, s)>>
           g == [s \in O |-> P(s)]
<1>1. Paragraphs(text) = {P(s) : s \in O}
  BY DEF Paragraphs, Opens, Together, LastOf, Run
<1>2. /\ IsFiniteSet(F)
      /\ \A s \in F : /\ s[1] \in Int /\ s[2] \in Int
                       /\ 1 <= s[1] /\ s[1] <= s[2] /\ s[2] <= Len(text)
      /\ \A s, t \in F : Apart(s, t)
      /\ \A line \in Lines(text) : line[1] \in Int /\ \A s \in F : s[1] = line[1] => s = line
      /\ Len(text) \in Nat
  BY LineFacts, TextFacts
<1>3. \A s \in F : Together(text, s, s)
  BY <1>2 DEF Together
<1>4. ASSUME NEW q \in F, NEW s \in F, NEW t \in F, Together(text, q, s), Together(text, s, t)
      PROVE  Together(text, q, t)
  BY <1>2, <1>4 DEF Together
<1>5. ASSUME NEW s \in F
      PROVE  \E x \in F : /\ s[1] <= x[1] /\ Together(text, s, x) /\ LastOf(text, s) = x[2]
                          /\ s[2] <= x[2] /\ \A y \in Run(text, s) : y[2] <= x[2]
  <2> DEFINE R == Run(text, s)
             E == {x[2] : x \in R}
             h == [x \in R |-> x[2]]
  <2>1. s \in R /\ R \subseteq F /\ \A x \in R : s[1] <= x[1] /\ Together(text, s, x)
    BY <1>2, <1>3 DEF Run
  <2>2. IsFiniteSet(R)
    BY <1>2, <2>1, FS_Subset
  <2>3. IsFiniteSet({h[x] : x \in R})
    <3> HIDE DEF h, R
    <3> QED BY <2>2, ImageIsFinite
  <2>4. {h[x] : x \in R} = E
    OBVIOUS
  <2>5. E \in SUBSET Int /\ E # {} /\ IsFiniteSet(E)
    <3>1. E \in SUBSET Int /\ E # {}
      BY <1>2, <2>1
    <3>2. IsFiniteSet(E)
      <4> HIDE DEF E, h, R
      <4> QED BY <2>3, <2>4
    <3> QED BY <3>1, <3>2
  <2>6. Max(E) \in E /\ \A y \in E : y <= Max(E)
    <3> HIDE DEF E
    <3> QED BY <2>5, MaxFacts
  <2>7. PICK x \in R : Max(E) = x[2]
    BY <2>6
  <2>8. s[2] <= x[2] /\ \A y \in R : y[2] <= x[2]
    BY <2>1, <2>6, <2>7
  <2> QED BY <2>1, <2>7, <2>8 DEF LastOf
<1>6. IsFiniteSet(Paragraphs(text))
  <2>1. IsFiniteSet(O)
    BY <1>2, FS_Subset
  <2>2. IsFiniteSet({g[s] : s \in O})
    <3> HIDE DEF g, O
    <3> QED BY <2>1, ImageIsFinite
  <2>3. {g[s] : s \in O} = {P(s) : s \in O}
    <3> HIDE DEF O, P
    <3> QED OBVIOUS
  <2> HIDE DEF g, O, P
  <2> QED BY <1>1, <2>2, <2>3
<1>7. ASSUME NEW p \in Paragraphs(text)
      PROVE  /\ p = <<p[1], p[2]>> /\ p[1] \in Int /\ p[2] \in Int
             /\ 1 <= p[1] /\ p[1] <= p[2] /\ p[2] <= Len(text)
             /\ \E s \in F : s[1] = p[1] /\ s[2] <= p[2]
  <2>1. PICK s \in O : p = P(s)
    BY <1>1
  <2>2. PICK x \in F : LastOf(text, s) = x[2] /\ s[2] <= x[2]
    BY <1>5
  <2>3. p[1] = s[1] /\ p[2] = x[2] /\ p = <<p[1], p[2]>>
    BY <2>1, <2>2
  <2> QED BY <1>2, <2>2, <2>3
<1>8. ASSUME NEW s \in O, NEW t \in O, s[1] < t[1] PROVE Follows(P(t), P(s))
  <2>1. PICK x \in F : Together(text, s, x) /\ LastOf(text, s) = x[2] /\ s[1] <= x[1] /\ s[2] <= x[2]
    BY <1>5
  <2>2. PICK y \in F : LastOf(text, t) = y[2] /\ t[2] <= y[2]
    BY <1>5
  <2>3. x[1] < t[1]
    <3>1. ASSUME t[1] <= x[1] PROVE Together(text, s, t)
      BY <1>2, <2>1, <3>1 DEF Together
    <3>2. ~Together(text, s, t)
      BY <1>8 DEF Opens
    <3> QED BY <1>2, <3>1, <3>2
  <2>4. x[2] < t[1]
    BY <1>2, <2>3 DEF Apart, Follows
  <2> QED BY <1>2, <2>1, <2>2, <2>4 DEF Follows
<1>9. ASSUME NEW p \in Paragraphs(text), NEW q \in Paragraphs(text) PROVE Apart(p, q)
  <2>1. PICK s \in O : p = P(s)
    BY <1>1
  <2>2. PICK t \in O : q = P(t)
    BY <1>1
  <2>3. s[1] = t[1] => s = t
    BY <1>2 DEF Apart, Follows
  <2>4. s = t \/ s[1] < t[1] \/ t[1] < s[1]
    BY <1>2, <2>3
  <2> HIDE DEF P
  <2> QED BY <1>8, <2>1, <2>2, <2>4 DEF Apart
<1>10. ASSUME NEW x \in Visible(text, 1, Len(text))
       PROVE  \E p \in Paragraphs(text) : x \in Visible(text, p[1], p[2])
  <2>1. PICK l \in F : x \in Visible(text, l[1], l[2])
    BY LineFacts
  <2> DEFINE K == {s \in F : s[1] <= l[1] /\ Together(text, s, l)}
             h == [s \in K |-> s[1]]
             E == {h[s] : s \in K}
  <2>2. IsFiniteSet(K) /\ l \in K
    BY <1>2, <1>3, FS_Subset
  <2>3. IsFiniteSet(E)
    <3> HIDE DEF h, K
    <3> QED BY <2>2, ImageIsFinite
  <2>4. E \in SUBSET Int /\ E # {}
    BY <1>2, <2>2
  <2>5. PICK e \in E : \A d \in E : e <= d
    <3> HIDE DEF E
    <3> QED BY <2>3, <2>4, LeastExists
  <2>6. PICK s \in K : e = s[1]
    BY <2>5
  <2>7. \A t \in K : s[1] <= t[1]
    BY <2>5, <2>6
  <2>8. s \in O
    <3>1. SUFFICES ASSUME NEW q \in F, q[1] < s[1], Together(text, q, s) PROVE FALSE
      BY DEF Opens
    <3>2. Together(text, q, l)
      BY <1>4, <2>6, <3>1
    <3>3. q[1] <= l[1]
      BY <1>2, <2>6, <3>1
    <3>4. q \in K
      BY <3>2, <3>3
    <3> QED BY <1>2, <2>6, <2>7, <3>1, <3>4
  <2>9. l \in Run(text, s)
    BY <2>6 DEF Run
  <2>10. l[2] <= LastOf(text, s) /\ LastOf(text, s) \in Int
    BY <1>2, <1>5, <2>6, <2>9
  <2>11. x \in Visible(text, s[1], LastOf(text, s))
    <3>1. x \in Int /\ l[1] <= x /\ x <= l[2] /\ text[x] \in {"letter", "terminal"}
      BY <1>2, <2>1, VisibleFacts
    <3> QED BY <1>2, <2>6, <2>10, <3>1, VisibleFacts
  <2>12. P(s) \in Paragraphs(text)
    BY <1>1, <2>8
  <2> QED BY <2>11, <2>12
<1> QED BY <1>6, <1>7, <1>9, <1>10

\* The slices say all that is visible, each from its start, one after the other.
SaysFirst(s, t) == (\A p \in s.says, q \in t.says : p < q) /\ s.paragraph <= t.paragraph

TellsAll(S, text) ==
  /\ IsFiniteSet(S)
  /\ UNION {s.says : s \in S} = Visible(text, 1, Len(text))
  /\ \A s \in S : /\ s.start \in Int /\ s.says \in SUBSET Int
                   /\ s.start + 1 = Min(s.says) /\ s.start + 1 \in s.says
  /\ \A s, t \in S : s = t \/ SaysFirst(s, t) \/ SaysFirst(t, s)

LEMMA StretchesTellAll ==
  ASSUME NEW text \in TtsTexts, NEW T, IsFiniteSet(T),
         \A s \in T : /\ s[1] \in Int /\ s[2] \in Int /\ 1 <= s[1] /\ s[2] <= Len(text)
                      /\ Visible(text, s[1], s[2]) # {},
         \A s, t \in T : Apart(s, t),
         \A x \in Visible(text, 1, Len(text)) : \E s \in T : x \in Visible(text, s[1], s[2]),
         NEW spot,
         \A s \in T : Min(Visible(text, spot[s][1], spot[s][2])) = Min(Visible(text, s[1], s[2])),
         NEW par, \A s, t \in T : Follows(t, s) => par[s] <= par[t],
         \A s \in T : par[s] \in Nat,
         NEW S, \A a : a \in S <=>
           \E s \in T : a = Slice(text, spot[s], Visible(text, s[1], s[2]), par[s])
  PROVE  TellsAll(S, text)
<1> DEFINE V(s) == Visible(text, s[1], s[2])
           A(s) == Slice(text, spot[s], V(s), par[s])
           g == [s \in T |-> A(s)]
<1>0. S = {A(s) : s \in T}
  OBVIOUS
<1>1. IsFiniteSet(S)
  <2>1. IsFiniteSet({g[s] : s \in T})
    <3> HIDE DEF g
    <3> QED BY ImageIsFinite
  <2>2. {g[s] : s \in T} = S
    <3> HIDE DEF A
    <3> QED BY <1>0
  <2> HIDE DEF g
  <2> QED BY <2>1, <2>2
<1>2. ASSUME NEW s \in T
      PROVE  /\ A(s).says = V(s) /\ A(s).start = Min(V(s)) - 1 /\ A(s).paragraph = par[s]
             /\ V(s) \in SUBSET Int /\ Min(V(s)) \in V(s)
             /\ V(s) \subseteq s[1]..s[2] /\ V(s) \subseteq Visible(text, 1, Len(text))
  <2>1. V(s) \in SUBSET Int /\ V(s) # {} /\ IsFiniteSet(V(s))
    BY VisibleFacts
  <2>2. Min(V(s)) \in V(s)
    <3> HIDE DEF V
    <3> QED BY <2>1, MinFacts
  <2>3. V(s) \subseteq s[1]..s[2] /\ V(s) \subseteq Visible(text, 1, Len(text))
    BY TextFacts, VisibleFacts DEF Visible
  <2> QED BY <2>1, <2>2, <2>3 DEF Slice
<1>3. UNION {a.says : a \in S} = Visible(text, 1, Len(text))
  <2>1. ASSUME NEW x \in UNION {a.says : a \in S} PROVE x \in Visible(text, 1, Len(text))
    <3>1. PICK s \in T : x \in A(s).says
      BY <1>0
    <3> HIDE DEF A, V
    <3> QED BY <1>2, <3>1
  <2>2. ASSUME NEW x \in Visible(text, 1, Len(text)) PROVE x \in UNION {a.says : a \in S}
    <3>1. PICK s \in T : x \in V(s)
      OBVIOUS
    <3>2. x \in A(s).says /\ A(s) \in S
      <4> HIDE DEF A, V
      <4> QED BY <1>0, <1>2, <3>1
    <3> HIDE DEF A
    <3> QED BY <3>2
  <2> QED BY <2>1, <2>2
<1>4. ASSUME NEW a \in S
      PROVE  /\ a.start \in Int /\ a.says \in SUBSET Int
             /\ a.start + 1 = Min(a.says) /\ a.start + 1 \in a.says
  <2>1. PICK s \in T : a = A(s)
    BY <1>0
  <2> HIDE DEF A, V
  <2>2. Min(V(s)) \in Int /\ Min(V(s)) - 1 + 1 = Min(V(s))
    BY <1>2
  <2> QED BY <1>2, <2>1, <2>2
<1>5. ASSUME NEW s \in T, NEW t \in T, Follows(t, s) PROVE SaysFirst(A(s), A(t))
  <2>0. par[s] <= par[t] /\ s[2] \in Int /\ t[1] \in Int /\ s[2] < t[1]
    BY <1>5 DEF Follows
  <2> HIDE DEF A, V
  <2>1. \A p \in V(s), q \in V(t) : p < q
    BY <1>2, <2>0
  <2> QED BY <1>2, <2>0, <2>1 DEF SaysFirst
<1>6. ASSUME NEW a \in S, NEW b \in S PROVE a = b \/ SaysFirst(a, b) \/ SaysFirst(b, a)
  <2>1. PICK s \in T : a = A(s)
    BY <1>0
  <2>2. PICK t \in T : b = A(t)
    BY <1>0
  <2> HIDE DEF A
  <2> QED BY <1>5, <2>1, <2>2 DEF Apart
<1> QED BY <1>1, <1>3, <1>4, <1>6 DEF TellsAll

\* InOrder numbers slices through that have places of their own.
LEMMA SlicesInOrder ==
  ASSUME NEW text, NEW S, TellsAll(S, text)
  PROVE  /\ Len(InOrder(S)) \in Nat /\ DOMAIN InOrder(S) = 1..Len(InOrder(S))
         /\ {InOrder(S)[i] : i \in DOMAIN InOrder(S)} = S
         /\ \A i, j \in DOMAIN InOrder(S) : i < j => SaysFirst(InOrder(S)[i], InOrder(S)[j])
<1> DEFINE n == Cardinality(S)
           below(s) == {t \in S : t.start < s.start}
           rank == [s \in S |-> Place(s, S)]
<1>1. IsFiniteSet(S) /\ n \in Nat
  BY FS_CardinalityType DEF TellsAll
<1>2. ASSUME NEW s \in S, NEW t \in S, s # t
      PROVE  /\ s.start \in Int /\ t.start \in Int
             /\ \/ SaysFirst(s, t) /\ s.start < t.start
                \/ SaysFirst(t, s) /\ t.start < s.start
  <2>1. /\ s.start \in Int /\ s.start + 1 \in s.says
        /\ t.start \in Int /\ t.start + 1 \in t.says
        /\ SaysFirst(s, t) \/ SaysFirst(t, s)
    BY <1>2 DEF TellsAll
  <2> QED BY <2>1 DEF SaysFirst
<1>3. ASSUME NEW s \in S
      PROVE  IsFiniteSet(below(s)) /\ Cardinality(below(s)) \in Nat /\ Place(s, S) \in 1..n
  <2>1. below(s) \in SUBSET S /\ s \notin below(s)
    BY DEF TellsAll
  <2>2. /\ IsFiniteSet(below(s)) /\ Cardinality(below(s)) <= n
        /\ (n = Cardinality(below(s)) => S = below(s))
    <3> HIDE DEF below
    <3> QED BY <1>1, <2>1, FS_Subset
  <2>3. Cardinality(below(s)) \in Nat
    <3> HIDE DEF below
    <3> QED BY <2>2, FS_CardinalityType
  <2>4. Place(s, S) = Cardinality(below(s)) + 1
    BY DEF Place
  <2> HIDE DEF below
  <2> QED BY <1>1, <2>1, <2>2, <2>3, <2>4
<1>4. ASSUME NEW s \in S, NEW t \in S, s.start < t.start PROVE Place(s, S) < Place(t, S)
  <2>1. below(s) \in SUBSET below(t) /\ s \in below(t) /\ s \notin below(s)
    BY <1>4 DEF TellsAll
  <2>2. /\ Cardinality(below(s)) <= Cardinality(below(t))
        /\ (Cardinality(below(t)) = Cardinality(below(s)) => below(t) = below(s))
    <3>1. IsFiniteSet(below(t))
      BY <1>3
    <3> HIDE DEF below
    <3> QED BY <2>1, <3>1, FS_Subset
  <2>3. Cardinality(below(s)) \in Nat /\ Cardinality(below(t)) \in Nat
    BY <1>3
  <2>4. Place(s, S) = Cardinality(below(s)) + 1 /\ Place(t, S) = Cardinality(below(t)) + 1
    BY DEF Place
  <2> HIDE DEF below
  <2> QED BY <2>1, <2>2, <2>3, <2>4
<1>5. \A s, t \in S : Place(s, S) = Place(t, S) => s = t
  <2>1. SUFFICES ASSUME NEW s \in S, NEW t \in S, s # t PROVE Place(s, S) # Place(t, S)
    OBVIOUS
  <2>2. s.start < t.start \/ t.start < s.start
    BY <1>2, <2>1
  <2>3. Place(s, S) < Place(t, S) \/ Place(t, S) < Place(s, S)
    BY <1>4, <2>2
  <2>4. Place(s, S) \in 1..n /\ Place(t, S) \in 1..n
    BY <1>3
  <2> HIDE DEF n
  <2> QED BY <2>3, <2>4
<1>6. \A i \in 1..n : \E s \in S : Place(s, S) = i
  <2>1. rank \in [S -> 1..Cardinality(S)]
    BY <1>3
  <2>2. \A s, t \in S : rank[s] = rank[t] => s = t
    BY <1>5
  <2>3. \A i \in 1..Cardinality(S) : \E s \in S : rank[s] = i
    <3> HIDE DEF rank
    <3> QED BY <1>1, <2>1, <2>2, RanksNumber
  <2> QED BY <2>3
<1>7. InOrder(S) = [i \in 1..n |-> CHOOSE s \in S : Place(s, S) = i]
  BY DEF InOrder
<1> HIDE DEF n
<1>8. Len(InOrder(S)) = n /\ DOMAIN InOrder(S) = 1..n
  BY <1>1, <1>7
<1>9. \A i \in 1..n : InOrder(S)[i] \in S /\ Place(InOrder(S)[i], S) = i
  BY <1>6, <1>7
<1>10. \A s \in S : InOrder(S)[Place(s, S)] = s
  BY <1>3, <1>5, <1>9
<1>11. {InOrder(S)[i] : i \in 1..n} = S
  BY <1>3, <1>9, <1>10
<1>12. ASSUME NEW i \in 1..n, NEW j \in 1..n, i < j
       PROVE  SaysFirst(InOrder(S)[i], InOrder(S)[j])
  <2> DEFINE s == InOrder(S)[i]
             t == InOrder(S)[j]
  <2>1. s \in S /\ t \in S /\ Place(s, S) = i /\ Place(t, S) = j
    BY <1>9
  <2> HIDE DEF s, t
  <2>2. s # t
    BY <1>12, <2>1
  <2>3. ~(t.start < s.start)
    BY <1>1, <1>4, <1>12, <2>1
  <2> QED BY <1>2, <2>1, <2>2, <2>3 DEF s, t
<1> QED BY <1>1, <1>8, <1>11, <1>12

LEMMA RankFacts ==
  ASSUME NEW T, IsFiniteSet(T), \A x \in T : x[1] \in Int,
         NEW s, NEW t, s[1] \in Int, t[1] \in Int, s[1] <= t[1]
  PROVE  Rank(s, T) \in Nat /\ Rank(s, T) <= Rank(t, T)
<1> DEFINE A == {x \in T : x[1] < s[1]}
           B == {x \in T : x[1] < t[1]}
<1>1. A \in SUBSET B /\ B \in SUBSET T
  OBVIOUS
<1>2. Rank(s, T) = Cardinality(A) /\ Rank(t, T) = Cardinality(B)
  BY DEF Rank
<1> HIDE DEF A, B
<1>3. IsFiniteSet(B)
  BY <1>1, FS_Subset
<1>4. IsFiniteSet(A) /\ Cardinality(A) <= Cardinality(B)
  BY <1>1, <1>3, FS_Subset
<1> QED BY <1>2, <1>4, FS_CardinalityType

\* A slice that says what is visible in its place.
LEMMA SliceOfItself ==
  ASSUME NEW text, NEW s, s[1] \in Int, s[2] \in Int, Visible(text, s[1], s[2]) # {}, NEW n
  PROVE  LET a == Slice(text, s, Visible(text, s[1], s[2]), n)
         IN  a.says = Visible(text, a.start + 1, a.end)
<1> DEFINE V == Visible(text, s[1], s[2])
           a == Slice(text, s, V, n)
<1>1. V \in SUBSET Int /\ IsFiniteSet(V) /\ V # {}
  BY VisibleFacts
<1>2. /\ Min(V) \in Int /\ Min(V) \in V /\ \A x \in V : Min(V) <= x
      /\ Max(V) \in Int /\ Max(V) \in V /\ \A x \in V : x <= Max(V)
  <2> HIDE DEF V
  <2> QED BY <1>1, MinFacts, MaxFacts
<1>3. s[1] <= Min(V) /\ Max(V) <= s[2]
  <2>1. \A x \in V : s[1] <= x /\ x <= s[2]
    BY VisibleFacts
  <2> HIDE DEF V
  <2> QED BY <1>2, <2>1
<1>4. V = Visible(text, Min(V), Max(V))
  <2>1. \A x : x \in V => x \in Visible(text, Min(V), Max(V))
    BY <1>2, VisibleFacts
  <2>2. \A x : x \in Visible(text, Min(V), Max(V)) => x \in V
    <3>1. SUFFICES ASSUME NEW x \in Visible(text, Min(V), Max(V)) PROVE x \in V
      OBVIOUS
    <3>2. x \in Int /\ Min(V) <= x /\ x <= Max(V) /\ text[x] \in {"letter", "terminal"}
      <4> HIDE DEF V
      <4> QED BY <1>2, VisibleFacts
    <3> QED BY <1>2, <1>3, <3>2, VisibleFacts
  <2> HIDE DEF V
  <2> QED BY <2>1, <2>2
<1>5. a.says = V /\ a.start = Min(V) - 1 /\ a.end = Max(V)
  BY DEF Slice
<1> HIDE DEF V, a
<1>6. a.start + 1 = Min(V)
  BY <1>2, <1>5
<1>7. a.says = Visible(text, a.start + 1, a.end)
  BY <1>4, <1>5, <1>6
<1> QED BY <1>7 DEF a, V

\* A paragraph begins with its first line, and is that line if no line ends in it.
LEMMA FirstLineShows ==
  ASSUME NEW text \in TtsTexts, NEW s \in FullLines(text), NEW p, p[2] \in Int,
         s[1] = p[1], s[2] <= p[2], p[2] <= Len(text), NEW n
  PROVE  LET a == Slice(text, s, Visible(text, p[1], p[2]), n)
         IN  /\ Named(text, a) \subseteq a.says
             /\ OnOneLine(text, a.says) => Named(text, a) = a.says
<1> DEFINE V == Visible(text, s[1], s[2])
           W == Visible(text, p[1], p[2])
           a == Slice(text, s, W, n)
<1>1. /\ s[1] \in Int /\ s[2] \in Int /\ V # {} /\ Len(text) \in Nat
      /\ s[2] + 1 \in LineEnds(text)
  <2>1. s \in Lines(text) /\ V # {}
    BY DEF FullLines
  <2>2. PICK end \in LineEnds(text) :
          s = <<Max({0} \union {i \in LineEnds(text) : i < end}) + 1, end - 1>>
    BY <2>1 DEF Lines
  <2>3. s[1] \in Int /\ s[2] \in Int /\ Len(text) \in Nat
    BY LineFacts, TextFacts
  <2>4. end \in Int
    BY <2>3 DEF LineEnds
  <2>5. s[2] = end - 1
    BY <2>2
  <2> QED BY <2>1, <2>3, <2>4, <2>5
<1>2. Named(text, a) = V
  <2>1. LET b == Slice(text, s, V, n) IN b.says = Visible(text, b.start + 1, b.end)
    BY <1>1, SliceOfItself
  <2>2. LET b == Slice(text, s, V, n) IN b.says = V /\ b.start = a.start /\ b.end = a.end
    BY DEF Slice
  <2> QED BY <2>1, <2>2 DEF Named
<1>3. a.says = W
  BY DEF Slice
<1>4. V \subseteq W
  <2>1. \A x \in V : x \in W
    BY <1>1, VisibleFacts
  <2> QED BY <2>1
<1>5. ASSUME \A k \in Min(W)..Max(W) : text[k] # "newline" PROVE W \subseteq V
  <2>1. /\ Min(W) \in Int /\ Max(W) \in Int /\ \A x \in W : Min(W) <= x /\ x <= Max(W)
    <3>1. W \in SUBSET Int /\ IsFiniteSet(W)
      BY <1>1, VisibleFacts
    <3> HIDE DEF V, W
    <3> QED BY <1>1, <1>4, <3>1, MinFacts, MaxFacts
  <2>2. PICK y \in V : y \in Int /\ y <= s[2]
    BY <1>1, VisibleFacts
  <2>3. ASSUME NEW x \in W PROVE x \in V
    <3>1. x \in Int /\ p[1] <= x /\ x <= p[2] /\ text[x] \in {"letter", "terminal"}
      BY <1>1, VisibleFacts
    <3>2. x <= s[2]
      <4> SUFFICES ASSUME s[2] + 1 <= x PROVE FALSE
        BY <1>1, <3>1
      <4>1. text[s[2] + 1] = "newline"
        BY <1>1, <3>1 DEF LineEnds
      <4>2. Min(W) <= y /\ x <= Max(W)
        BY <1>4, <2>1, <2>2, <2>3
      <4>3. s[2] + 1 \in Min(W)..Max(W)
        <5> HIDE DEF V, W
        <5> QED BY <1>1, <2>1, <2>2, <3>1, <4>2
      <4> QED BY <1>5, <4>1, <4>3
    <3> QED BY <1>1, <3>1, <3>2, VisibleFacts
  <2> QED BY <2>3
<1> HIDE DEF V, W, a
<1>6. /\ Named(text, a) \subseteq a.says
      /\ OnOneLine(text, a.says) => Named(text, a) = a.says
  BY <1>2, <1>3, <1>4, <1>5 DEF OnOneLine
<1> QED BY <1>6 DEF a, W

\* Whatever the strategy, the slices tell the text; each says what is at its place
\* and, unless it is a paragraph of several lines, nothing else.
Tells(S, text, strategy) ==
  /\ TellsAll(S, text)
  /\ \A s \in S :
       /\ Named(text, s) \subseteq s.says
       /\ strategy # "paragraph" \/ OnOneLine(text, s.says) => Named(text, s) = s.says

LEMMA LinesTell ==
  ASSUME NEW text \in TtsTexts
  PROVE  Tells(SlicesOf(text, "lineBreak"), text, "lineBreak")
<1> DEFINE T == FullLines(text)
           spot == [s \in T |-> s]
           par == [s \in T |-> Rank(s, T)]
           S == {Slice(text, s, Visible(text, s[1], s[2]), Rank(s, T)) : s \in T}
<1>1. SlicesOf(text, "lineBreak") = S
  BY DEF SlicesOf
<1>2. \A a : a \in S <=> \E s \in T : a = Slice(text, spot[s], Visible(text, s[1], s[2]), par[s])
  OBVIOUS
<1>3. /\ IsFiniteSet(T)
      /\ \A s \in T : /\ s[1] \in Int /\ s[2] \in Int /\ 1 <= s[1] /\ s[2] <= Len(text)
                       /\ Visible(text, s[1], s[2]) # {}
      /\ \A s, t \in T : Apart(s, t)
      /\ \A x \in Visible(text, 1, Len(text)) : \E s \in T : x \in Visible(text, s[1], s[2])
  BY LineFacts
<1>4. \A s \in T : spot[s] = s /\ par[s] = Rank(s, T)
  OBVIOUS
<1>5. \A a \in S : a.says = Visible(text, a.start + 1, a.end)
  <2>1. SUFFICES ASSUME NEW s \in T, NEW a, a = Slice(text, s, Visible(text, s[1], s[2]), Rank(s, T))
                 PROVE  a.says = Visible(text, a.start + 1, a.end)
    OBVIOUS
  <2> HIDE DEF T
  <2> QED BY <1>3, <2>1, SliceOfItself
<1> HIDE DEF T, spot, par, S
<1>6. /\ \A s \in T : par[s] \in Nat
      /\ \A s, t \in T : Follows(t, s) => par[s] <= par[t]
  BY <1>3, <1>4, RankFacts DEF Follows
<1>7. \A s \in T : Min(Visible(text, spot[s][1], spot[s][2])) = Min(Visible(text, s[1], s[2]))
  BY <1>4
<1>8. TellsAll(S, text)
  BY <1>2, <1>3, <1>6, <1>7, StretchesTellAll
<1> QED BY <1>1, <1>5, <1>8 DEF Tells, Named

LEMMA SentencesTell ==
  ASSUME NEW text \in TtsTexts
  PROVE  Tells(SlicesOf(text, "sentence"), text, "sentence")
<1> DEFINE T == Sentences(text, 1, Len(text))
           spot == [s \in T |-> s]
           par == [s \in T |-> 0]
           S == {Slice(text, s, Visible(text, s[1], s[2]), 0) : s \in T}
<1>1. SlicesOf(text, "sentence") = S
  BY DEF SlicesOf
<1>2. \A a : a \in S <=> \E s \in T : a = Slice(text, spot[s], Visible(text, s[1], s[2]), par[s])
  OBVIOUS
<1>3. /\ IsFiniteSet(T)
      /\ \A s \in T : /\ s[1] \in Int /\ s[2] \in Int /\ 1 <= s[1] /\ s[2] <= Len(text)
                       /\ Visible(text, s[1], s[2]) # {}
      /\ \A s, t \in T : Apart(s, t)
      /\ \A x \in Visible(text, 1, Len(text)) : \E s \in T : x \in Visible(text, s[1], s[2])
  <2> DEFINE n == Len(text)
  <2>1. n \in Int /\ 1 <= n + 1 /\ 1 \in Int
    BY TextFacts
  <2> HIDE DEF n
  <2>2. T = Sentences(text, 1, n)
    BY DEF n
  <2> HIDE DEF T
  <2>3. /\ IsFiniteSet(T)
        /\ \A s \in T : /\ s[1] \in Int /\ s[2] \in Int /\ 1 <= s[1] /\ s[2] <= n
                         /\ Visible(text, s[1], s[2]) # {}
        /\ \A s, t \in T : Apart(s, t)
        /\ \A x \in Visible(text, 1, n) : \E s \in T : x \in Visible(text, s[1], s[2])
    BY <2>1, <2>2, SentenceFacts
  <2> QED BY <2>3 DEF n
<1>4. \A s \in T : spot[s] = s /\ par[s] = 0
  OBVIOUS
<1>5. \A a \in S : a.says = Visible(text, a.start + 1, a.end)
  <2>1. SUFFICES ASSUME NEW s \in T, NEW a, a = Slice(text, s, Visible(text, s[1], s[2]), 0)
                 PROVE  a.says = Visible(text, a.start + 1, a.end)
    OBVIOUS
  <2> HIDE DEF T
  <2> QED BY <1>3, <2>1, SliceOfItself
<1> HIDE DEF T, spot, par, S
<1>6. /\ \A s \in T : par[s] \in Nat
      /\ \A s, t \in T : Follows(t, s) => par[s] <= par[t]
  BY <1>4
<1>7. \A s \in T : Min(Visible(text, spot[s][1], spot[s][2])) = Min(Visible(text, s[1], s[2]))
  BY <1>4
<1>8. TellsAll(S, text)
  BY <1>2, <1>3, <1>6, <1>7, StretchesTellAll
<1> QED BY <1>1, <1>5, <1>8 DEF Tells, Named

\* The first thing of a stretch is the first thing of any longer one.
LEMMA FirstOfLonger ==
  ASSUME NEW text, NEW a \in Int, NEW b \in Int, NEW c \in Int, b <= c,
         Visible(text, a, b) # {}
  PROVE  Min(Visible(text, a, b)) = Min(Visible(text, a, c)) /\ Visible(text, a, c) # {}
<1> DEFINE V == Visible(text, a, b)
           W == Visible(text, a, c)
<1>1. V \in SUBSET Int /\ IsFiniteSet(V) /\ W \in SUBSET Int /\ IsFiniteSet(W)
  BY VisibleFacts
<1>2. V \subseteq W /\ \A x \in W, y \in V : x <= y => x \in V
  <2>1. \A x \in V : x \in W
    BY VisibleFacts
  <2>2. ASSUME NEW x \in W, NEW y \in V, x <= y PROVE x \in V
    <3>1. x \in Int /\ a <= x /\ text[x] \in {"letter", "terminal"} /\ y \in Int /\ y <= b
      BY VisibleFacts
    <3> QED BY <2>2, <3>1, VisibleFacts
  <2> QED BY <2>1, <2>2
<1> HIDE DEF V, W
<1>3. V # {} /\ W # {}
  BY <1>2 DEF V
<1>4. /\ Min(V) \in V /\ Min(V) \in Int /\ \A x \in V : Min(V) <= x
      /\ Min(W) \in W /\ Min(W) \in Int /\ \A x \in W : Min(W) <= x
  BY <1>1, <1>3, MinFacts
<1>5. Min(V) = Min(W)
  BY <1>2, <1>4
<1> QED BY <1>3, <1>5 DEF V, W

LEMMA ParagraphsTell ==
  ASSUME NEW text \in TtsTexts
  PROVE  Tells(SlicesOf(text, "paragraph"), text, "paragraph")
<1> DEFINE F == FullLines(text)
           T == Paragraphs(text)
           FirstLine(p) == CHOOSE line \in F : line[1] = p[1]
           spot == [p \in T |-> FirstLine(p)]
           par == [p \in T |-> Rank(p, T)]
           S == {Slice(text, FirstLine(p), Visible(text, p[1], p[2]), Rank(p, T)) : p \in T}
<1>1. SlicesOf(text, "paragraph") = S
  BY DEF SlicesOf
<1>2. \A a : a \in S <=> \E p \in T : a = Slice(text, spot[p], Visible(text, p[1], p[2]), par[p])
  OBVIOUS
<1>3. /\ IsFiniteSet(T)
      /\ \A p \in T : /\ p[1] \in Int /\ p[2] \in Int /\ 1 <= p[1] /\ p[2] <= Len(text)
                       /\ \E s \in F : s[1] = p[1] /\ s[2] <= p[2]
      /\ \A p, q \in T : Apart(p, q)
      /\ \A x \in Visible(text, 1, Len(text)) : \E p \in T : x \in Visible(text, p[1], p[2])
  BY ParagraphFacts
<1>4. /\ \A s \in F : s[1] \in Int /\ s[2] \in Int /\ Visible(text, s[1], s[2]) # {}
      /\ \A s, t \in F : s[1] = t[1] => s = t
  <2>1. F \subseteq Lines(text)
    BY DEF FullLines
  <2> QED BY <2>1, LineFacts
<1>5. ASSUME NEW p \in T
      PROVE  /\ Visible(text, p[1], p[2]) # {}
             /\ Min(Visible(text, spot[p][1], spot[p][2])) = Min(Visible(text, p[1], p[2]))
  <2>1. PICK s \in F : s[1] = p[1] /\ s[2] <= p[2]
    BY <1>3
  <2>2. spot[p] = s
    BY <1>4, <2>1
  <2>3. /\ p[1] \in Int /\ s[2] \in Int /\ p[2] \in Int
        /\ Visible(text, p[1], s[2]) # {}
    BY <1>3, <1>4, <2>1
  <2>4. /\ Visible(text, p[1], p[2]) # {}
        /\ Min(Visible(text, p[1], s[2])) = Min(Visible(text, p[1], p[2]))
    BY <2>1, <2>3, FirstOfLonger
  <2> HIDE DEF spot
  <2> QED BY <2>1, <2>2, <2>4
<1>6. \A p \in T : par[p] = Rank(p, T)
  OBVIOUS
<1>0. \A a \in S :
        /\ Named(text, a) \subseteq a.says
        /\ OnOneLine(text, a.says) => Named(text, a) = a.says
  <2> SUFFICES ASSUME NEW p \in T, NEW a,
                      a = Slice(text, FirstLine(p), Visible(text, p[1], p[2]), Rank(p, T))
               PROVE  /\ Named(text, a) \subseteq a.says
                      /\ OnOneLine(text, a.says) => Named(text, a) = a.says
    OBVIOUS
  <2>1. PICK s \in F : s[1] = p[1] /\ s[2] <= p[2]
    BY <1>3
  <2>2. FirstLine(p) = s
    BY <1>4, <2>1
  <2>3. p[2] \in Int /\ p[2] <= Len(text)
    BY <1>3
  <2>4. LET b == Slice(text, s, Visible(text, p[1], p[2]), Rank(p, T))
        IN  /\ Named(text, b) \subseteq b.says
            /\ OnOneLine(text, b.says) => Named(text, b) = b.says
    <3> HIDE DEF T
    <3> QED BY <2>1, <2>3, FirstLineShows
  <2>5. a = Slice(text, s, Visible(text, p[1], p[2]), Rank(p, T))
    BY <2>2
  <2> QED BY <2>4, <2>5
<1> HIDE DEF F, T, spot, par, S
<1>7. /\ \A p \in T : par[p] \in Nat
      /\ \A p, q \in T : Follows(q, p) => par[p] <= par[q]
  BY <1>3, <1>6, RankFacts DEF Follows
<1>8. TellsAll(S, text)
  <2>1. \A p \in T : /\ p[1] \in Int /\ p[2] \in Int /\ 1 <= p[1] /\ p[2] <= Len(text)
                     /\ Visible(text, p[1], p[2]) # {}
    BY <1>3, <1>5
  <2>2. /\ IsFiniteSet(T)
        /\ \A p, q \in T : Apart(p, q)
        /\ \A x \in Visible(text, 1, Len(text)) : \E p \in T : x \in Visible(text, p[1], p[2])
    BY <1>3
  <2>3. \A p \in T : Min(Visible(text, spot[p][1], spot[p][2])) = Min(Visible(text, p[1], p[2]))
    BY <1>5
  <2> QED BY <1>2, <1>7, <2>1, <2>2, <2>3, StretchesTellAll
<1> QED BY <1>0, <1>1, <1>8 DEF Tells

LEMMA ParagraphSentencesTell ==
  ASSUME NEW text \in TtsTexts
  PROVE  Tells(SlicesOf(text, "paragraphThenSentence"), text, "paragraphThenSentence")
<1> DEFINE P == Paragraphs(text)
           Of(p) == Sentences(text, p[1], p[2])
           g == [p \in P |-> Of(p)]
           T == UNION {g[p] : p \in P}
           home == [s \in T |-> CHOOSE p \in P : s \in Of(p)]
           spot == [s \in T |-> s]
           par == [s \in T |-> Rank(home[s], P)]
           S == UNION {{Slice(text, s, Visible(text, s[1], s[2]), Rank(p, P)) : s \in Of(p)} : p \in P}
<1>1. SlicesOf(text, "paragraphThenSentence") = S
  BY DEF SlicesOf
<1>2. /\ IsFiniteSet(P)
      /\ \A p \in P : p[1] \in Int /\ p[2] \in Int /\ 1 <= p[1] /\ p[1] <= p[2] /\ p[2] <= Len(text)
      /\ \A p, q \in P : Apart(p, q)
      /\ \A x \in Visible(text, 1, Len(text)) : \E p \in P : x \in Visible(text, p[1], p[2])
      /\ Len(text) \in Nat
  BY ParagraphFacts, TextFacts
<1>3. ASSUME NEW p \in P
      PROVE  /\ IsFiniteSet(Of(p))
             /\ \A s \in Of(p) : /\ s[1] \in Int /\ s[2] \in Int
                                  /\ p[1] <= s[1] /\ s[1] <= s[2] /\ s[2] <= p[2]
                                  /\ Visible(text, s[1], s[2]) # {}
             /\ \A s, t \in Of(p) : Apart(s, t)
             /\ \A x \in Visible(text, p[1], p[2]) : \E s \in Of(p) : x \in Visible(text, s[1], s[2])
  <2>1. p[1] \in Int /\ p[2] \in Int /\ p[1] <= p[2] + 1
    BY <1>2
  <2> HIDE DEF P
  <2> QED BY <2>1, SentenceFacts
<1> HIDE DEF P
<1>4. \A s : s \in T <=> \E p \in P : s \in Of(p)
  <2> HIDE DEF Of
  <2> QED OBVIOUS
<1>5. IsFiniteSet(T)
  <2>1. IsFiniteSet({g[p] : p \in P})
    <3> HIDE DEF g
    <3> QED BY <1>2, ImageIsFinite
  <2>2. \A U \in {g[p] : p \in P} : IsFiniteSet(U)
    <3> HIDE DEF Of
    <3> QED BY <1>3
  <2> HIDE DEF g
  <2> QED BY <2>1, <2>2, FS_UNION
<1> HIDE DEF Of
<1>6. \A s \in T : home[s] \in P /\ s \in Of(home[s])
  <2> HIDE DEF T
  <2> QED BY <1>4
<1>7. ASSUME NEW p \in P, NEW q \in P, NEW s \in Of(p), NEW t \in Of(q), Follows(q, p)
      PROVE  Follows(t, s)
  BY <1>2, <1>3, <1>7 DEF Follows
<1>8. ASSUME NEW p \in P, NEW q \in P, NEW s \in Of(p), s \in Of(q) PROVE p = q
  <2>1. ~Follows(s, s)
    BY <1>3 DEF Follows
  <2> QED BY <1>2, <1>7, <1>8, <2>1 DEF Apart
<1>9. \A p \in P : \A s \in Of(p) : s \in T /\ home[s] = p /\ par[s] = Rank(p, P) /\ spot[s] = s
  <2>1. \A p \in P : \A s \in Of(p) : s \in T
    BY <1>4
  <2> HIDE DEF T
  <2> QED BY <1>6, <1>8, <2>1
<1> HIDE DEF T, home, spot, par
<1>10. ASSUME NEW a
       PROVE  a \in S <=> \E s \in T : a = Slice(text, spot[s], Visible(text, s[1], s[2]), par[s])
  <2>1. a \in S <=> \E p \in P : \E s \in Of(p) :
                      a = Slice(text, s, Visible(text, s[1], s[2]), Rank(p, P))
    OBVIOUS
  <2>2. a \in S => \E s \in T : a = Slice(text, spot[s], Visible(text, s[1], s[2]), par[s])
    <3> HIDE DEF S
    <3> QED BY <1>9, <2>1
  <2>3. ASSUME NEW s \in T, a = Slice(text, spot[s], Visible(text, s[1], s[2]), par[s])
        PROVE  a \in S
    <3>1. PICK p \in P : s \in Of(p)
      BY <1>4
    <3>2. a = Slice(text, s, Visible(text, s[1], s[2]), Rank(p, P))
      BY <1>9, <2>3, <3>1
    <3> HIDE DEF S
    <3> QED BY <2>1, <3>1, <3>2
  <2> HIDE DEF S
  <2> QED BY <2>2, <2>3
<1>11. /\ \A s \in T : /\ s[1] \in Int /\ s[2] \in Int /\ 1 <= s[1] /\ s[2] <= Len(text)
                        /\ Visible(text, s[1], s[2]) # {}
  BY <1>2, <1>3, <1>4
<1>12. \A s, t \in T : Apart(s, t)
  <2>1. SUFFICES ASSUME NEW s \in T, NEW t \in T PROVE Apart(s, t)
    OBVIOUS
  <2>2. PICK p \in P : s \in Of(p)
    BY <1>4
  <2>3. PICK q \in P : t \in Of(q)
    BY <1>4
  <2>4. CASE p = q
    BY <1>3, <2>2, <2>3, <2>4
  <2>5. CASE Follows(q, p) \/ Follows(p, q)
    BY <1>7, <2>2, <2>3, <2>5 DEF Apart
  <2> QED BY <1>2, <2>4, <2>5 DEF Apart
<1>13. \A x \in Visible(text, 1, Len(text)) : \E s \in T : x \in Visible(text, s[1], s[2])
  BY <1>2, <1>3, <1>4
<1>14. \A a \in S : a.says = Visible(text, a.start + 1, a.end)
  <2>1. SUFFICES ASSUME NEW p \in P, NEW s \in Of(p), NEW a,
                        a = Slice(text, s, Visible(text, s[1], s[2]), Rank(p, P))
                 PROVE  a.says = Visible(text, a.start + 1, a.end)
    OBVIOUS
  <2>2. s[1] \in Int /\ s[2] \in Int /\ Visible(text, s[1], s[2]) # {}
    BY <1>3
  <2> QED BY <2>1, <2>2, SliceOfItself
<1> HIDE DEF S
<1>15. \A s \in T : par[s] \in Nat
  BY <1>2, <1>4, <1>9, RankFacts
<1>16. ASSUME NEW s \in T, NEW t \in T, Follows(t, s) PROVE par[s] <= par[t]
  <2>1. PICK p \in P : s \in Of(p)
    BY <1>4
  <2>2. PICK q \in P : t \in Of(q)
    BY <1>4
  <2>3. p[1] <= q[1]
    <3>1. ~Follows(s, t)
      BY <1>11, <1>16 DEF Follows
    <3>2. p = q \/ Follows(q, p)
      BY <1>2, <1>7, <2>1, <2>2, <3>1 DEF Apart
    <3> QED BY <1>2, <3>2 DEF Follows
  <2>4. Rank(p, P) <= Rank(q, P)
    BY <1>2, <2>3, RankFacts
  <2> QED BY <1>9, <2>1, <2>2, <2>4
<1>17. \A s \in T : Min(Visible(text, spot[s][1], spot[s][2])) = Min(Visible(text, s[1], s[2]))
  BY <1>4, <1>9
<1>18. TellsAll(S, text)
  BY <1>5, <1>10, <1>11, <1>12, <1>13, <1>15, <1>16, <1>17, StretchesTellAll
<1> QED BY <1>1, <1>14, <1>18 DEF Tells, Named

LEMMA SlicesTell ==
  ASSUME NEW text \in TtsTexts, NEW strategy \in Strategies
  PROVE  Tells(SlicesOf(text, strategy), text, strategy)
  BY LinesTell, SentencesTell, ParagraphsTell, ParagraphSentencesTell DEF Strategies

LEMMA ChapterIsTold ==
  ASSUME NEW text \in TtsTexts, NEW strategy \in Strategies
  PROVE  /\ Len(SlicePlans[text][strategy]) \in Nat
         /\ SaysTheText(SlicePlans[text][strategy], text, strategy)
<1> DEFINE S == SlicesOf(text, strategy)
           slices == InOrder(S)
<1>1. SlicePlans[text][strategy] = slices
  BY DEF SlicePlans, SliceChapter
<1>2. Tells(S, text, strategy)
  BY SlicesTell
<1> HIDE DEF S
<1>3. /\ Len(slices) \in Nat /\ DOMAIN slices = 1..Len(slices)
      /\ {slices[i] : i \in DOMAIN slices} = S
      /\ \A i, j \in DOMAIN slices : i < j => SaysFirst(slices[i], slices[j])
  BY <1>2, SlicesInOrder DEF Tells
<1> HIDE DEF slices
<1>4. UNION {slices[i].says : i \in DOMAIN slices} = Visible(text, 1, Len(text))
  <2>1. UNION {s.says : s \in S} = Visible(text, 1, Len(text))
    BY <1>2 DEF Tells, TellsAll
  <2>2. \A x : x \in UNION {s.says : s \in S} <=> \E s \in S : x \in s.says
    OBVIOUS
  <2>3. \A x : x \in UNION {slices[i].says : i \in DOMAIN slices} <=>
                 \E i \in DOMAIN slices : x \in slices[i].says
    OBVIOUS
  <2>4. \A s : s \in S <=> \E i \in DOMAIN slices : s = slices[i]
    BY <1>3
  <2> QED BY <2>1, <2>2, <2>3, <2>4
<1>5. \A i \in DOMAIN slices :
        /\ slices[i].start + 1 = Min(slices[i].says)
        /\ Named(text, slices[i]) \subseteq slices[i].says
        /\ strategy # "paragraph" \/ OnOneLine(text, slices[i].says) =>
             Named(text, slices[i]) = slices[i].says
  <2>1. \A i \in DOMAIN slices : slices[i] \in S
    BY <1>3
  <2> QED BY <1>2, <2>1 DEF Tells, TellsAll
<1>6. \A i \in DOMAIN slices : \A j \in (i + 1)..Len(slices) : SaysFirst(slices[i], slices[j])
  BY <1>3
<1>7. SaysTheText(slices, text, strategy)
  BY <1>4, <1>5, <1>6 DEF SaysTheText, SaysFirst
<1> QED BY <1>1, <1>3, <1>7

(***************************************************************************)
(* Text to speech.                                                         *)
(***************************************************************************)
TtsPlans == {SlicePlans[text][strategy] : text \in TtsTexts, strategy \in Strategies}

TtsEntry ==
  [state : {"playing", "paused", "stopped", "completed"}, current : Nat, plan : TtsPlans,
   statuses : Seq({"pending", "speaking", "done"})]

\* More than SpeaksCurrent says: a slice stays "speaking" until the queue leaves it
\* or completes, and the last one is not done before.
Orderly(q) ==
  LET here == q.current + 1
  IN /\ here \in DOMAIN q.statuses /\ Len(q.statuses) = Len(q.plan)
     /\ \A i \in DOMAIN q.statuses :
          /\ q.statuses[i] = "speaking" <=> i = here /\ q.state # "completed"
          /\ i > here => q.statuses[i] = "pending"
          /\ q.statuses[i] = "done" /\ i < here - 1 => q.statuses[i + 1] = "done"
     /\ q.state = "completed" <=> q.statuses[Len(q.plan)] = "done"

TtsInv ==
  /\ chapterText \in TtsTexts
  /\ queues \in [DOMAIN queues -> TtsEntry]
  /\ \A c \in DOMAIN queues : Orderly(queues[c])

LEMMA EntryWithStatuses ==
  ASSUME NEW q \in TtsEntry, Orderly(q)
  PROVE  /\ q.statuses \in Seq({"pending", "speaking", "done"})
         /\ Len(q.plan) \in Nat /\ DOMAIN q.statuses = 1..Len(q.plan)
         /\ q.current \in Nat /\ q.current + 1 <= Len(q.plan)
<1>1. q.statuses \in Seq({"pending", "speaking", "done"}) /\ q.current \in Nat
  BY DEF TtsEntry
<1>2. Len(q.statuses) \in Nat /\ DOMAIN q.statuses = 1..Len(q.statuses)
  BY <1>1
<1> QED BY <1>1, <1>2 DEF Orderly

\* A call replaces the queue of one chapter.
LEMMA ReplaceQueue ==
  ASSUME TtsInv, UNCHANGED chapterText, NEW c, NEW q \in TtsEntry, Orderly(q),
         queues' = [x \in DOMAIN queues \union {c} |-> IF x = c THEN q ELSE queues[x]]
  PROVE  TtsInv'
  BY DEF TtsInv

LEMMA PlayInv ==
  ASSUME TtsInv, UNCHANGED chapterText, NEW c, NEW plan \in TtsPlans, Len(plan) \in Nat,
         NEW start \in 0..(Len(plan) - 1), Play(c, plan, start)
  PROVE  TtsInv'
<1> DEFINE statuses == [i \in 1..Len(plan) |-> IF i = start + 1 THEN "speaking" ELSE "pending"]
           q == [state |-> "playing", current |-> start, plan |-> plan, statuses |-> statuses]
<1>1. statuses \in Seq({"pending", "speaking", "done"}) /\ Len(statuses) = Len(plan)
      /\ DOMAIN statuses = 1..Len(plan)
      /\ \A i \in 1..Len(plan) : statuses[i] = IF i = start + 1 THEN "speaking" ELSE "pending"
  OBVIOUS
<1>2. start \in Nat /\ Len(plan) \in 1..Len(plan)
  OBVIOUS
<1>3. q \in TtsEntry
  BY <1>1, <1>2 DEF TtsEntry
<1>4. Orderly(q)
  <2> HIDE DEF statuses
  <2> QED BY <1>1, <1>2 DEF Orderly
<1>5. queues' = [x \in DOMAIN queues \union {c} |-> IF x = c THEN q ELSE queues[x]]
  BY DEF Play
<1> HIDE DEF q
<1> QED BY <1>3, <1>4, <1>5, ReplaceQueue

\* The queue goes from its slice to the j-th, which is `here`, and leaves its own as `left`.
MovedTo(q, here, j, left) ==
  [q EXCEPT !.current = here,
            !.statuses = [@ EXCEPT ![q.current + 1] = left, ![j] = "speaking"]]

LEMMA MovedSpeaks ==
  ASSUME NEW q \in TtsEntry, Orderly(q), q.state # "completed", NEW left, NEW here \in Nat, here < Len(q.plan), NEW j, j = here + 1,
         \/ left = "done" /\ here = q.current + 1
         \/ left = "pending" /\ here = q.current - 1
  PROVE  MovedTo(q, here, j, left) \in TtsEntry /\ Orderly(MovedTo(q, here, j, left))
<1> DEFINE i == q.current + 1
           n == Len(q.plan)
           moved == [q.statuses EXCEPT ![i] = left, ![j] = "speaking"]
           r == MovedTo(q, here, j, left)
<1>1. /\ q.statuses \in Seq({"pending", "speaking", "done"})
      /\ n \in Nat /\ DOMAIN q.statuses = 1..n
      /\ q.current \in Nat /\ i \in 1..n /\ Len(q.statuses) = n
  BY EntryWithStatuses DEF Orderly
<1>2. j \in 1..n /\ j # i /\ left \in {"pending", "speaking", "done"}
  BY <1>1
<1>3. /\ moved \in Seq({"pending", "speaking", "done"}) /\ Len(moved) = n
      /\ DOMAIN moved = 1..n /\ moved[i] = left /\ moved[j] = "speaking"
      /\ \A k \in 1..n : k \notin {i, j} => moved[k] = q.statuses[k]
  BY <1>1, <1>2
<1>4. r \in TtsEntry
  BY <1>2, <1>3 DEF TtsEntry, MovedTo
<1>5. r.statuses = moved /\ r.plan = q.plan /\ r.current = here /\ r.state = q.state
  BY DEF TtsEntry, MovedTo
<1>6. /\ \A k \in 1..n : q.statuses[k] = "speaking" <=> k = i
      /\ \A k \in 1..n : k > i => q.statuses[k] = "pending"
      /\ \A k \in 1..n : q.statuses[k] = "done" /\ k < i - 1 => q.statuses[k + 1] = "done"
      /\ q.statuses[n] # "done"
  BY <1>1 DEF Orderly
<1>7. moved[n] # "done"
  BY <1>1, <1>2, <1>3, <1>6
<1>8. ASSUME NEW k \in 1..n
      PROVE  /\ moved[k] = "speaking" <=> k = j
             /\ k > j => moved[k] = "pending"
             /\ moved[k] = "done" /\ k < j - 1 => moved[k + 1] = "done"
  <2> HIDE DEF moved, n
  <2>1. CASE k = i
    BY <1>1, <1>2, <1>3, <2>1
  <2>2. CASE k = j
    BY <1>1, <1>2, <1>3, <2>2
  <2>3. CASE k \notin {i, j}
    BY <1>1, <1>2, <1>3, <1>6, <2>3
  <2>4. ASSUME moved[k] = "done", k < j - 1 PROVE moved[k + 1] = "done"
    <3>1. k \notin {i, j} /\ k + 1 # j /\ k + 1 \in 1..n /\ q.statuses[k] = "done"
      BY <1>1, <1>2, <1>3, <2>4
    <3>2. CASE k + 1 = i
      BY <1>1, <1>2, <1>3, <2>4, <3>1, <3>2
    <3>3. CASE k + 1 # i
      BY <1>1, <1>2, <1>3, <1>6, <2>4, <3>1, <3>3
    <3> QED BY <3>2, <3>3
  <2> QED BY <2>1, <2>2, <2>3, <2>4
<1>9. Orderly(r)
  <2> HIDE DEF r, moved
  <2> QED BY <1>1, <1>2, <1>3, <1>5, <1>7, <1>8 DEF Orderly
<1> QED BY <1>4, <1>9

LEMMA DriveInv ==
  ASSUME TtsInv, UNCHANGED chapterText, NEW c,
         Pause(c) \/ Resume(c) \/ Stop(c) \/ NextSlice(c) \/ PrevSlice(c)
  PROVE  TtsInv'
<1> DEFINE q == queues[c]
           i == q.current + 1
<1>1. c \in DOMAIN queues
  BY DEF Pause, Resume, Stop, NextSlice, PrevSlice, TtsActive
<1>2. q \in TtsEntry /\ Orderly(q)
  BY <1>1 DEF TtsInv
<1>3. /\ q.statuses \in Seq({"pending", "speaking", "done"})
      /\ Len(q.plan) \in Nat /\ DOMAIN q.statuses = 1..Len(q.plan)
      /\ q.current \in Nat /\ i <= Len(q.plan)
  BY <1>2, EntryWithStatuses
<1>4. ASSUME NEW r \in TtsEntry, Orderly(r), queues' = [queues EXCEPT ![c] = r]
      PROVE  TtsInv'
  <2>1. queues' = [x \in DOMAIN queues \union {c} |-> IF x = c THEN r ELSE queues[x]]
    BY <1>1, <1>4 DEF TtsInv
  <2> QED BY <1>4, <2>1, ReplaceQueue
<1>5. ASSUME NEW now \in {"playing", "paused", "stopped"}, q.state # "completed",
             queues' = [queues EXCEPT ![c].state = now]
      PROVE  TtsInv'
  <2> DEFINE r == [q EXCEPT !.state = now]
  <2>1. r \in TtsEntry
    BY <1>2 DEF TtsEntry
  <2>2. /\ r.statuses = q.statuses /\ r.plan = q.plan /\ r.current = q.current
        /\ r.state = now
    BY <1>2 DEF TtsEntry
  <2>3. Orderly(r)
    <3> HIDE DEF r, q
    <3> QED BY <1>2, <1>5, <2>2 DEF Orderly
  <2>4. queues' = [queues EXCEPT ![c] = r]
    BY <1>5
  <2> HIDE DEF r
  <2> QED BY <1>4, <2>1, <2>3, <2>4
<1>6. CASE Pause(c) \/ Resume(c) \/ Stop(c)
  BY <1>5, <1>6 DEF Pause, Resume, Stop
<1>7. ASSUME q.state \in {"playing", "paused"} PROVE q.state # "completed"
  BY <1>7
<1>8. CASE NextSlice(c) /\ i >= Len(q.plan)
  <2> DEFINE done == [q.statuses EXCEPT ![i] = "done"]
             r == [q EXCEPT !.statuses = done, !.state = "completed"]
  <2>1. q.state # "completed"
    BY <1>8 DEF NextSlice, TtsActive
  <2>2. i \in 1..Len(q.plan) /\ i = Len(q.plan)
    BY <1>3, <1>8
  <2>3. /\ done \in Seq({"pending", "speaking", "done"}) /\ Len(done) = Len(q.plan)
        /\ DOMAIN done = 1..Len(q.plan) /\ done[i] = "done"
        /\ \A j \in 1..Len(q.plan) : j # i => done[j] = q.statuses[j]
    BY <1>3, <2>2, <1>2 DEF Orderly
  <2>4. r \in TtsEntry
    BY <1>2, <2>3 DEF TtsEntry
  <2>5. /\ r.statuses = done /\ r.plan = q.plan /\ r.current = q.current
        /\ r.state = "completed"
    BY <1>2 DEF TtsEntry
  <2>6. Orderly(r)
    <3> HIDE DEF r, q, done
    <3>1. \A j \in 1..Len(q.plan) :
            /\ q.statuses[j] = "speaking" <=> j = i
            /\ q.statuses[j] = "done" /\ j < i - 1 => q.statuses[j + 1] = "done"
      BY <1>2, <1>3, <2>1 DEF Orderly
    <3>2. ASSUME NEW j \in 1..Len(q.plan)
          PROVE  /\ done[j] # "speaking" /\ ~(j > i)
                 /\ done[j] = "done" /\ j < i - 1 => done[j + 1] = "done"
      <4>1. CASE j = i
        BY <2>2, <2>3, <4>1
      <4>2. CASE j # i
        <5>1. done[j] = q.statuses[j] /\ ~(j > i)
          BY <1>3, <2>2, <2>3, <4>2
        <5>2. ASSUME j < i - 1 PROVE j + 1 \in 1..Len(q.plan) /\ j + 1 # i
          BY <1>3, <2>2, <5>2
        <5> QED BY <2>3, <3>1, <4>2, <5>1, <5>2
      <4> QED BY <4>1, <4>2
    <3> HIDE DEF i
    <3>3. i = q.current + 1
      BY DEF i
    <3> QED BY <1>3, <2>2, <2>3, <2>5, <3>2, <3>3 DEF Orderly
  <2>7. queues' = [queues EXCEPT ![c] = r]
    BY <1>8 DEF NextSlice
  <2> HIDE DEF r
  <2> QED BY <1>4, <2>4, <2>6, <2>7
<1>9. CASE NextSlice(c) /\ ~(i >= Len(q.plan))
  <2>1. q.state # "completed" /\ i \in Nat /\ i < Len(q.plan) /\ i = q.current + 1
    BY <1>3, <1>9 DEF NextSlice, TtsActive
  <2>2. queues' = [queues EXCEPT ![c] = MovedTo(q, i, i + 1, "done")]
    BY <1>3, <1>9 DEF NextSlice, MovedTo
  <2>3. MovedTo(q, i, i + 1, "done") \in TtsEntry /\ Orderly(MovedTo(q, i, i + 1, "done"))
    <3> HIDE DEF q
    <3> QED BY <1>2, <2>1, MovedSpeaks
  <2> QED BY <1>4, <2>2, <2>3
<1>10. CASE PrevSlice(c)
  <2>1. q.state # "completed" /\ i - 2 \in Nat /\ i - 2 < Len(q.plan) /\ i - 2 = q.current - 1
        /\ i - 1 = i - 2 + 1
    BY <1>3, <1>10 DEF PrevSlice, TtsActive
  <2>2. queues' = [queues EXCEPT ![c] = MovedTo(q, i - 2, i - 1, "pending")]
    BY <1>3, <1>10 DEF PrevSlice, MovedTo
  <2>3. MovedTo(q, i - 2, i - 1, "pending") \in TtsEntry /\ Orderly(MovedTo(q, i - 2, i - 1, "pending"))
    <3> HIDE DEF q
    <3> QED BY <1>2, <2>1, MovedSpeaks
  <2> QED BY <1>4, <2>2, <2>3
<1> QED BY <1>6, <1>8, <1>9, <1>10

LEMMA PlansAreFinite == \A plan \in TtsPlans : Len(plan) \in Nat
  BY ChapterIsTold DEF TtsPlans

LEMMA TtsNextInv == TtsInv /\ [TtsNext]_ttsVars => TtsInv'
<1> SUFFICES ASSUME TtsInv, [TtsNext]_ttsVars PROVE TtsInv'
  OBVIOUS
<1>1. CASE UNCHANGED ttsVars
  BY <1>1 DEF TtsInv, ttsVars
<1>2. ASSUME NEW c \in TtsChapters, UNCHANGED chapterText, NEW strategy \in Strategies,
             NEW start \in 0..(Len(SlicePlans[chapterText][strategy]) - 1),
             Play(c, SlicePlans[chapterText][strategy], start)
      PROVE  TtsInv'
  <2> DEFINE plan == SlicePlans[chapterText][strategy]
  <2>1. plan \in TtsPlans /\ Len(plan) \in Nat
    BY PlansAreFinite DEF TtsPlans, TtsInv
  <2>2. start \in 0..(Len(plan) - 1) /\ Play(c, plan, start)
    BY <1>2
  <2> HIDE DEF plan
  <2> QED BY <1>2, <2>1, <2>2, PlayInv
<1> QED BY <1>1, <1>2, DriveInv DEF TtsNext

LEMMA AlwaysTtsInv == TtsSpec => []TtsInv
<1>1. TtsInit => TtsInv
  BY DEF TtsInit, TtsInv
<1> QED BY <1>1, TtsNextInv, PTL DEF TtsSpec

\* The host calls play, pause, resume, stop, next and previous in any order on
\* any chapter: no slice but the current one is being spoken, what is done is one
\* stretch up to it, and no queue completes before its last slice is done.
THEOREM OnlyCurrentIsSpoken == TtsSpec => []SpeaksOnlyCurrent
<1>1. TtsInv => SpeaksOnlyCurrent
  <2> SUFFICES ASSUME TtsInv, NEW c \in DOMAIN queues PROVE SpeaksCurrent(queues[c])
    BY DEF SpeaksOnlyCurrent
  <2> DEFINE q == queues[c]
  <2>1. q \in TtsEntry /\ Orderly(q)
    BY DEF TtsInv
  <2> HIDE DEF q
  <2>2. Len(q.plan) \in DOMAIN q.statuses
    BY <2>1, EntryWithStatuses
  <2> QED BY <2>1, <2>2 DEF Orderly, SpeaksCurrent, q
<1> QED BY <1>1, AlwaysTtsInv, PTL

\* Whatever the text, its length and the strategy, slice_chapter says all of it,
\* in its order and nothing twice, and each slice names the place it says, of a
\* paragraph of several lines only its first line.
THEOREM NothingIsUnsaid == TtsSpec => []SlicesSayTheText
<1>1. TtsInv => SlicesSayTheText
  BY ChapterIsTold DEF TtsInv, SlicesSayTheText
<1> QED BY <1>1, AlwaysTtsInv, PTL
=============================================================================
