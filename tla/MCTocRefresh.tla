----------------------------- MODULE MCTocRefresh -----------------------------
(***************************************************************************)
(* Instances of TocRefresh for TLC: two urls that share a title, and a     *)
(* chapter of the same title without a url; thorough instances add one     *)
(* that was renamed to the index of the first, and one without a title.    *)
(***************************************************************************)
EXTENDS TocRefresh

TitledAlike == [url : {"u", "v", Blank}, title : {"T"}]
Numbered == {[url |-> "u", title |-> "0"], [url |-> Blank, title |-> Blank]}
MixedChapters == TitledAlike \union Numbered

Numerals == <<"0", "1", "2">>
=============================================================================
