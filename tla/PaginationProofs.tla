---------------------------- MODULE PaginationProofs ----------------------------
(***************************************************************************)
(* Theorems about Pagination, for every web of pages and every limit.      *)
(***************************************************************************)
EXTENDS Pagination, TLAPS

(***************************************************************************)
(* While the chain goes on, every url of a next page that came, and every  *)
(* url a redirect of one ended at, is in visited_urls; so is the one the   *)
(* host is asked for. The counter counts the pages that came.              *)
(***************************************************************************)
Untouched == visited = {} /\ pagesFetched = 0 /\ accumulated = <<>> /\ served = <<>>

Chain ==
  /\ asking \in visited
  /\ Len(served) = pagesFetched /\ Len(accumulated) = pagesFetched
  /\ pagesFetched \in 1..MaxNextPages
  /\ \A i \in 2..Len(served) : served[i].url \in visited /\ served[i].landed \in visited \union {None}

Inv ==
  /\ TypeOK /\ NextPageOnce /\ NoPageLost
  /\ phase \in {"new", "first"} => Untouched
  /\ phase = "next" => Chain

LEMMA InitInv == Init => Inv
  BY PaginationAssumption DEF Init, Inv, TypeOK, NextPageOnce, NoPageLost, Untouched, Optional, Phases

LEMMA FirstPageInv ==
  ASSUME Inv, NEW url \in Optional, NEW landed \in Optional, NEW next \in Optional,
         FirstPage(url, landed, next)
  PROVE  Inv'
<1> USE PaginationAssumption DEF Inv, TypeOK, Optional, Phases, Page
<1>1. served' = <<[url |-> url, landed |-> landed]>> /\ accumulated' = <<1>> /\ paramUrl' = paramUrl
  BY DEF FirstPage
<1>2. Len(served') = 1 /\ Len(accumulated') = 1 /\ accumulated'[1] = 1
  BY <1>1
<1>3. served' \in Seq(Page) /\ accumulated' \in Seq(Nat)
  BY <1>1
<1>4. CASE next = None
  BY <1>1, <1>2, <1>3, <1>4 DEF FirstPage, Finish, NextPageOnce, NoPageLost
<1>5. CASE next # None
  <2>1. /\ phase' = "next" /\ asking' = next /\ pagesFetched' = 1
        /\ visited' = InitialUrls(landed) \union {next}
    BY <1>5 DEF FirstPage, Ask
  <2>2. visited' \subseteq Urls
    BY <1>5, <2>1 DEF InitialUrls
  <2>3. Chain'
    BY <1>2, <2>1 DEF Chain
  <2> QED BY <1>1, <1>2, <1>3, <2>1, <2>2, <2>3 DEF NextPageOnce, NoPageLost
<1> QED BY <1>4, <1>5

\* The facts every reply to the request for a next page starts from.
LEMMA NextPageFacts ==
  ASSUME Inv, NEW landed \in Optional, NextPage(landed)
  PROVE  /\ Chain /\ served' \in Seq(Page) /\ Len(served') = Len(served) + 1
         /\ \A i \in 1..Len(served) : served'[i] = served[i]
         /\ served'[Len(served')] = [url |-> asking, landed |-> landed]
         /\ \A i, j \in 2..Len(served') :
              i < j => served'[j].url \notin {served'[i].url, served'[i].landed}
         /\ \A i \in 2..Len(served') : /\ served'[i].url \in Seen(landed)
                                       /\ served'[i].landed \in Seen(landed) \union {None}
<1> USE PaginationAssumption DEF Inv, TypeOK
<1> DEFINE page == [url |-> asking, landed |-> landed]
<1>1. Chain /\ served' = Append(served, page) /\ page \in Page
  BY DEF NextPage, Page, Optional
<1>2. /\ served' \in Seq(Page) /\ Len(served') = Len(served) + 1
      /\ \A i \in 1..Len(served) : served'[i] = served[i]
      /\ served'[Len(served')] = page
  BY <1>1
<1>3. ASSUME NEW i \in 2..Len(served'), NEW j \in 2..Len(served'), i < j
      PROVE  served'[j].url \notin {served'[i].url, served'[i].landed}
  <2>1. i \in 2..Len(served) /\ served'[i] = served[i]
    BY <1>2, <1>3
  <2>2. CASE j = Len(served')
    BY <1>2, <2>1, <2>2 DEF NextPage, NextPageOnce
  <2>3. CASE j # Len(served')
    <3>1. j \in 2..Len(served) /\ served'[j] = served[j]
      BY <1>2, <2>3
    <3> QED BY <1>3, <2>1, <3>1 DEF NextPageOnce
  <2> QED BY <2>2, <2>3
<1>4. ASSUME NEW i \in 2..Len(served')
      PROVE  served'[i].url \in Seen(landed) /\ served'[i].landed \in Seen(landed) \union {None}
  <2>1. CASE i = Len(served')
    BY <1>1, <1>2, <2>1 DEF Chain, Seen
  <2>2. CASE i # Len(served')
    <3>1. i \in 2..Len(served) /\ served'[i] = served[i]
      BY <1>2, <2>2
    <3> QED BY <1>1, <3>1 DEF Chain, Seen
  <2> QED BY <2>1, <2>2
<1> QED BY <1>1, <1>2, <1>3, <1>4

LEMMA LimitInv == ASSUME Inv, NEW landed \in Optional, LimitReached(landed) PROVE Inv'
<1> USE PaginationAssumption DEF Inv, TypeOK
<1>1. NextPage(landed) /\ AtLimit /\ phase = "next" /\ paramUrl' = paramUrl
      /\ phase' = "done" /\ asking' = None /\ UNCHANGED state
  BY DEF LimitReached, Finish, NextPage
<1>2. /\ Chain /\ served' \in Seq(Page) /\ Len(served') = Len(served) + 1
      /\ \A i, j \in 2..Len(served') :
           i < j => served'[j].url \notin {served'[i].url, served'[i].landed}
  BY <1>1, NextPageFacts
<1>3. Len(served) = MaxNextPages /\ Len(accumulated) = MaxNextPages
  BY <1>1, <1>2 DEF AtLimit, Chain
<1>4. NoPageLost'
  BY <1>1, <1>2, <1>3 DEF NoPageLost, state
<1>5. TypeOK' /\ NextPageOnce'
  BY <1>1, <1>2 DEF state, Optional, Phases, NextPageOnce
<1> QED BY <1>1, <1>4, <1>5

LEMMA MergeFacts ==
  ASSUME Inv, NEW landed \in Optional, NextPage(landed), Merge
  PROVE  /\ accumulated' \in Seq(Nat) /\ Len(accumulated') = Len(served')
         /\ \A i \in DOMAIN accumulated' : accumulated'[i] = i
<1>1. Chain /\ Len(served') = Len(served) + 1 /\ accumulated \in Seq(Nat) /\ served \in Seq(Page)
  BY NextPageFacts DEF Inv, TypeOK
<1>2. \A i \in DOMAIN accumulated : accumulated[i] = i
  BY DEF Inv, NoPageLost, NextPage
<1> QED BY <1>1, <1>2 DEF Merge, Chain

LEMMA ContinueInv ==
  ASSUME Inv, NEW landed \in Optional, NEW next \in Optional, Continue(landed, next) PROVE Inv'
<1> USE PaginationAssumption DEF Inv, TypeOK
<1>1. /\ NextPage(landed) /\ Merge /\ ~AtLimit /\ IsNew(next, landed)
      /\ phase = "next" /\ phase' = "next" /\ paramUrl' = paramUrl /\ asking' = next
      /\ visited' = Seen(landed) \union {next} /\ pagesFetched' = pagesFetched + 1
  BY DEF Continue, NextPage, Ask
<1>2. next \in Urls /\ next \notin Seen(landed) /\ visited' \subseteq Urls
  BY <1>1 DEF IsNew, Optional, Seen
<1>3. pagesFetched' \in 1..MaxNextPages /\ pagesFetched = Len(served)
  BY <1>1, NextPageFacts DEF AtLimit, Chain
<1>4. Chain'
  BY <1>1, <1>2, <1>3, NextPageFacts, MergeFacts DEF Chain
<1>8. /\ served' \in Seq(Page)
      /\ \A i, j \in 2..Len(served') :
           i < j => served'[j].url \notin {served'[i].url, served'[i].landed}
      /\ \A i \in 2..Len(served') : /\ served'[i].url \in Seen(landed)
                                    /\ served'[i].landed \in Seen(landed) \union {None}
  BY <1>1, NextPageFacts
<1>9. accumulated' \in Seq(Nat)
  BY <1>1, MergeFacts
<1>5. NextPageOnce'
  <2>1. next # None
    BY <1>2
  <2>2. \A i \in 2..Len(served') : next \notin {served'[i].url, served'[i].landed}
    BY <1>2, <1>8, <2>1
  <2> QED BY <1>1, <1>8, <2>2 DEF NextPageOnce
<1>6. NoPageLost'
  BY <1>1, MergeFacts DEF NoPageLost
<1>7. TypeOK'
  BY <1>1, <1>2, <1>3, <1>8, <1>9 DEF Optional
<1> QED BY <1>1, <1>4, <1>5, <1>6, <1>7

LEMMA LastPageInv ==
  ASSUME Inv, NEW landed \in Optional, NEW next \in Optional, LastPage(landed, next) PROVE Inv'
<1> USE PaginationAssumption DEF Inv, TypeOK
<1>1. /\ NextPage(landed) /\ Merge /\ phase' = "done" /\ asking' = None
      /\ paramUrl' = paramUrl /\ UNCHANGED <<visited, pagesFetched>>
  BY DEF LastPage, Finish, NextPage
<1>2. NextPageOnce' /\ NoPageLost'
  BY <1>1, NextPageFacts, MergeFacts DEF NextPageOnce, NoPageLost
<1>3. TypeOK'
  BY <1>1, NextPageFacts, MergeFacts DEF Optional, Phases
<1> QED BY <1>1, <1>2, <1>3

LEMMA NextInv == Inv /\ [Next]_vars => Inv'
<1> SUFFICES ASSUME Inv, [Next]_vars PROVE Inv'
  OBVIOUS
<1>1. ASSUME NEW url \in Urls, Request(url) PROVE Inv'
  BY <1>1, PaginationAssumption DEF Request, Ask, state, Inv, TypeOK, NextPageOnce, NoPageLost, Untouched,
     Optional, Phases
<1>2. CASE WithUrl
  BY <1>1, <1>2 DEF WithUrl, Inv, TypeOK, Optional
<1>3. CASE \E url \in Urls : WithRequest(url)
  BY <1>1, <1>3 DEF WithRequest
<1>4. CASE \E next \in Optional : WithResponse(next)
  BY <1>4, FirstPageInv DEF WithResponse, Optional
<1>5. ASSUME NEW landed \in Optional, NEW next \in Optional, FirstReply(landed, next) PROVE Inv'
  BY <1>5, FirstPageInv DEF FirstReply, Inv, TypeOK
<1>6. CASE Fail
  BY <1>6 DEF Fail, state, Inv, TypeOK, NextPageOnce, NoPageLost, Optional, Phases
<1>7. CASE UNCHANGED vars
  BY <1>7 DEF vars, state, Inv, TypeOK, NextPageOnce, NoPageLost, Untouched, Chain
<1> QED BY <1>2, <1>3, <1>4, <1>5, <1>6, <1>7, LimitInv, ContinueInv, LastPageInv DEF Next

LEMMA AlwaysInv == Spec => []Inv
  BY InitInv, NextInv, PTL DEF Spec

\* The state has its type; in particular the counter never passes the limit.
THEOREM PaginationTypes == Spec => []TypeOK
<1>1. Inv => TypeOK
  BY DEF Inv
<1> QED BY <1>1, AlwaysInv, PTL

\* However a broken source links its pages, the chain asks for at most MAX_NEXT_PAGES.
THEOREM ChainIsBounded == Spec => []FetchesBounded
<1>1. Inv => FetchesBounded
  BY PaginationAssumption DEF Inv, Chain, FetchesBounded
<1> QED BY <1>1, AlwaysInv, PTL

\* No next page is fetched twice.
THEOREM NextPagesAreNew == Spec => []NextPageOnce
<1>1. Inv => NextPageOnce
  BY DEF Inv
<1> QED BY <1>1, AlwaysInv, PTL

\* The result is what came, in order, but for the page that reaches the limit.
THEOREM ResultIsComplete == Spec => []NoPageLost
<1>1. Inv => NoPageLost
  BY DEF Inv
<1> QED BY <1>1, AlwaysInv, PTL
=============================================================================
