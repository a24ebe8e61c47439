---------------------------- MODULE MCReadingClaims ----------------------------
(***************************************************************************)
(* What comments and contract say of the table of contents and of reading  *)
(* aloud, and the code does not do. Two chapters of two lines are read     *)
(* aloud, then the table is fetched.                                       *)
(***************************************************************************)
EXTENDS MCTocRefresh, TtsQueue

TwoLines == {<<"letter", "newline", "letter">>}

\* Chapters that share a title, with a url and without, and two of which one is
\* taken for the other.
OddChapters == Numbered \union [url : {"v", Blank}, title : {"T"}]

Indexes == <<"0", "1", "2", "3">>

ClaimsInit == TocInit /\ TtsInit

ClaimsNext ==
  /\ toc = <<>>
  /\ \/ TtsNext /\ UNCHANGED tocVars
     \/ DOMAIN queues = TtsChapters /\ TocNext /\ UNCHANGED ttsVars

ClaimsSpec == ClaimsInit /\ [][ClaimsNext]_<<tocVars, ttsVars>>

\* One at least of the six sentences holds. The state that refutes this refutes
\* each of them: a refresh of the same table leaves every chapter where it was, and
\* chapters that repeat a title do not collapse (diff_toc); a completed queue has
\* spoken all its slices and can be stopped, the current slice of a paused queue is
\* the next pending one, and a slice names the range it says (contract of tts).
SomeClaimHolds ==
  \/ CompletedMeansAllDone \/ StopFromCompleted \/ PausedIsPending \/ RangeIsWhatIsSaid
  \/ IdentityPreserved \/ NoTwoBecomeOne
=============================================================================
