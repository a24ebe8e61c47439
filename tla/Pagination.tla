------------------------------- MODULE Pagination -------------------------------
(***************************************************************************)
(* The page chain of one book.toc or chapter.content request (remote.rs):  *)
(* a page names the next one, which the host is asked to fetch, until there*)
(* is no next page, it was visited before, or the limit is reached. Both   *)
(* commands run the same loop, over chapters and over text.                *)
(*                                                                         *)
(* The web answers as it likes: a page may link anywhere, redirect anywhere*)
(* and hide where it redirected to. What happens to the request while it   *)
(* waits for the host is in ReaderRuntime.                                 *)
(***************************************************************************)
EXTENDS Naturals, Sequences

CONSTANTS
  Urls,         \* the urls of pages
  None,         \* no url
  MaxNextPages  \* MAX_NEXT_PAGES

ASSUME PaginationAssumption == None \notin Urls /\ MaxNextPages \in Nat \ {0}

VARIABLES
  phase,        \* how far the request is
  paramUrl,     \* the tocUrl or chapterUrl of the params
  asking,       \* the url the host is asked for
  visited,      \* visited_urls
  pagesFetched, \* pages_fetched
  accumulated,  \* the pages merged so far, by their number in served
  served        \* history: the pages that came, with the url asked for and the
                \* final url the host reported

state == <<visited, pagesFetched, accumulated>>
vars == <<phase, paramUrl, asking, state, served>>

Optional == Urls \union {None}
Phases == {"new", "first", "next", "done", "failed"}
Page == [url : Optional, landed : Optional]

Init ==
  /\ phase = "new" /\ paramUrl \in Optional /\ asking = None
  /\ visited = {} /\ pagesFetched = 0 /\ accumulated = <<>> /\ served = <<>>

-----------------------------------------------------------------------------
Ask(url) == asking' = url

Finish == phase' = "done" /\ asking' = None

\* Mutant: a first page of unknown url is recorded.
InitialUrls_Unchecked(landed) == {IF landed # None THEN landed ELSE paramUrl}

\* The url of the first page, as far as it is known.
InitialUrls(landed) ==
  IF landed # None THEN {landed} ELSE IF paramUrl # None THEN {paramUrl} ELSE {}

\* The first page has come, from the params or from the host.
FirstPage(url, landed, next) ==
  /\ served' = <<[url |-> url, landed |-> landed]>>
  /\ accumulated' = <<1>>
  /\ IF next = None
     THEN Finish /\ UNCHANGED <<visited, pagesFetched>>
     ELSE /\ phase' = "next" /\ Ask(next)
          /\ visited' = InitialUrls(landed) \union {next}
          /\ pagesFetched' = 1
  /\ UNCHANGED paramUrl

\* The params carry the first page, a request for it, or its url.
WithResponse(next) == phase = "new" /\ FirstPage(None, None, next)

Request(url) ==
  /\ phase = "new"
  /\ phase' = "first" /\ Ask(url)
  /\ UNCHANGED <<paramUrl, state, served>>

WithRequest(url) == Request(url)
WithUrl == paramUrl # None /\ Request(paramUrl)

FirstReply(landed, next) == phase = "first" /\ FirstPage(asking, landed, next)

-----------------------------------------------------------------------------
\* A next page has come.
NextPage(landed) ==
  /\ phase = "next"
  /\ served' = Append(served, [url |-> asking, landed |-> landed])
  /\ UNCHANGED paramUrl

Seen(landed) == visited \union ({landed} \ {None})
Merge == accumulated' = Append(accumulated, Len(served'))

\* Mutant: one fetch too many.
AtLimit_OffByOne == pagesFetched > MaxNextPages

AtLimit == pagesFetched >= MaxNextPages

\* The limit is looked at first: the page that reaches it is not merged.
LimitReached(landed) ==
  /\ NextPage(landed) /\ AtLimit
  /\ Finish
  /\ UNCHANGED state

\* Mutant: visited urls are not looked at.
IsNew_Unchecked(next, landed) == next # None

IsNew(next, landed) == next # None /\ next \notin Seen(landed)

Continue(landed, next) ==
  /\ NextPage(landed) /\ ~AtLimit /\ IsNew(next, landed)
  /\ Merge
  /\ visited' = Seen(landed) \union {next}
  /\ pagesFetched' = pagesFetched + 1
  /\ Ask(next)
  /\ UNCHANGED phase

\* Mutant: the last page is not merged.
LastPage_Dropped(landed, next) ==
  /\ NextPage(landed) /\ ~AtLimit /\ ~IsNew(next, landed)
  /\ Finish
  /\ UNCHANGED state

LastPage(landed, next) ==
  /\ NextPage(landed) /\ ~AtLimit /\ ~IsNew(next, landed)
  /\ Merge
  /\ Finish
  /\ UNCHANGED <<visited, pagesFetched>>

\* No params to start from, a page or a url that cannot be processed, an error from
\* the host or a source that has gone: the request fails and what came is dropped.
Fail ==
  /\ phase \in {"new", "first", "next"}
  /\ phase' = "failed" /\ asking' = None
  /\ UNCHANGED <<paramUrl, state, served>>

Next ==
  \/ WithUrl \/ Fail
  \/ \E next \in Optional : WithResponse(next)
  \/ \E url \in Urls : WithRequest(url)
  \/ \E landed \in Optional :
       \/ LimitReached(landed)
       \/ \E next \in Optional :
            FirstReply(landed, next) \/ Continue(landed, next) \/ LastPage(landed, next)

Spec == Init /\ [][Next]_vars

-----------------------------------------------------------------------------
TypeOK ==
  /\ phase \in Phases /\ paramUrl \in Optional /\ asking \in Optional
  /\ visited \subseteq Urls /\ pagesFetched \in 0..MaxNextPages
  /\ accumulated \in Seq(Nat) /\ served \in Seq(Page)

\* The host is never asked for more next pages than the limit, wherever the pages
\* of a broken source link and redirect to. (The page it is asked for now counts.)
FetchesBounded == phase = "next" => Len(served) <= MaxNextPages

\* A next page is not fetched again under a url that led to a next page before, be it
\* the url asked for or the one a redirect ended at.
NextPageOnce ==
  /\ \A i, j \in 2..Len(served) :
       i < j => served[j].url \notin {served[i].url, served[i].landed}
  /\ phase = "next" =>
       \A i \in 2..Len(served) : asking \notin {served[i].url, served[i].landed}

\* The result consists of the pages that came, in order and each once; only a page
\* that comes when the limit has been reached is left out.
NoPageLost ==
  phase \in {"next", "done"} =>
    /\ \A i \in DOMAIN accumulated : accumulated[i] = i
    /\ \/ Len(accumulated) = Len(served)
       \/ /\ phase = "done" /\ Len(accumulated) = MaxNextPages
          /\ Len(served) = MaxNextPages + 1

\* The host is never asked for a url it has fetched for the request before: the result
\* is emitted when the next url "was already visited" (BookTocNextPageState).
NoPageTwice == \A i \in DOMAIN served : served[i].url = None \/ served[i].url # asking
=============================================================================
