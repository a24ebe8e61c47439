------------------------------- MODULE MCReading -------------------------------
(***************************************************************************)
(* What happens between a source and the reader: the pages of a request,   *)
(* the refreshed table of contents, RSS, and reading aloud. In a behaviour *)
(* only one of these parts moves.                                          *)
(***************************************************************************)
EXTENDS MCPagination, MCTocRefresh, RssLibrary, TtsQueue

CONSTANT MaxText    \* bound on the characters of a text that is read aloud

VARIABLE part       \* the part that moves

Texts == UNION {[1..n -> {"letter", "terminal", "space", "newline"}] : n \in 0..MaxText}

\* Libraries with every entry of one feed, and any of the subscriptions.
SomeLibraries ==
  LET kept == [text |-> 1, read |-> FALSE, starred |-> TRUE]
      keys == {CHOOSE f \in Feeds : TRUE} \X EntryIds
  IN {[subscriptions |-> [f \in fs |-> 1], entries |-> [k \in keys |-> kept]]
      : fs \in SUBSET Feeds}

ReadingInit ==
  /\ part \in {"pages", "toc", "rss", "tts"}
  /\ Init /\ TocInit /\ RssInit /\ TtsInit
  /\ part # "pages" => paramUrl = None
  /\ part # "tts" => chapterText = <<>>

ReadingNext ==
  /\ UNCHANGED part
  /\ \/ part = "pages" /\ Next /\ UNCHANGED <<tocVars, rssVars, ttsVars>>
     \/ part = "toc" /\ TocNext /\ UNCHANGED <<vars, rssVars, ttsVars>>
     \/ part = "rss" /\ RssNext /\ UNCHANGED <<vars, tocVars, ttsVars>>
     \/ part = "tts" /\ TtsNext /\ UNCHANGED <<vars, tocVars, rssVars>>

ReadingSpec == ReadingInit /\ [][ReadingNext]_<<part, vars, tocVars, rssVars, ttsVars>>
=============================================================================
