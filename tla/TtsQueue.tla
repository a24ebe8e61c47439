------------------------------ MODULE TtsQueue ------------------------------
(***************************************************************************)
(* Text to speech: the slicer that cuts a chapter into utterances, and the *)
(* playback queue that the host drives, one per chapter.  The core speaks  *)
(* nothing itself: it says which slice is current.                         *)
(*                                                                         *)
(* A text is a sequence of kinds of characters; the position of the first  *)
(* is 1, so a slice from a to b has charStart a - 1 and charEnd b.         *)
(***************************************************************************)
EXTENDS Integers, FiniteSets, Sequences
LOCAL INSTANCE FiniteSetsExt

CONSTANTS
  TtsChapters,
  TtsTexts      \* texts, as sequences of "letter", "terminal", "space", "newline"

ASSUME TtsAssumption ==
  TtsTexts \subseteq Seq({"letter", "terminal", "space", "newline"})

VARIABLES
  queues,       \* TtsState: the queue of each chapter that was loaded
  chapterText   \* the host's: the text that it has sliced

ttsVars == <<queues, chapterText>>

Strategies == {"lineBreak", "paragraph", "sentence", "paragraphThenSentence"}

(* ------------------------------ the slicer ----------------------------- *)

\* The characters of a stretch that are no white space.
Visible(text, a, b) == {i \in a..b : text[i] \in {"letter", "terminal"}}

\* The lines of a text, as stretches without the newline; the last may be empty.
LineEnds(text) == {i \in 1..Len(text) : text[i] = "newline"} \union {Len(text) + 1}
Lines(text) ==
  {<<Max({0} \union {i \in LineEnds(text) : i < end}) + 1, end - 1>> : end \in LineEnds(text)}
FullLines(text) == {line \in Lines(text) : Visible(text, line[1], line[2]) # {}}

\* The paragraphs: the longest runs of lines that are not blank.
Paragraphs(text) ==
  LET Together(p, q) == \A line \in Lines(text) :
                          p[1] <= line[1] /\ line[1] <= q[1] => line \in FullLines(text)
      First(p) == ~\E q \in FullLines(text) : q[1] < p[1] /\ Together(q, p)
      LastOf(p) == Max({q[2] : q \in {x \in FullLines(text) : p[1] <= x[1] /\ Together(p, x)}})
  IN {<<p[1], LastOf(p)>> : p \in {x \in FullLines(text) : First(x)}}

\* Mutant: what follows the last full stop is not said.
Sentences_Terminated(text, a, b) ==
  LET ends == {i \in a..b : text[i] = "terminal"}
      Start(end) == Max({a - 1} \union {i \in ends : i < end}) + 1
  IN {<<Start(end), end>> : end \in {e \in ends : Visible(text, Start(e), e) # {}}}

\* The sentences of a stretch end with a terminal, the last one with the stretch.
Sentences(text, a, b) ==
  LET ends == {i \in a..b : text[i] = "terminal"} \union {b}
      Start(end) == Max({a - 1} \union {i \in ends : i < end}) + 1
  IN {<<Start(end), end>> : end \in {e \in ends : Visible(text, Start(e), e) # {}}}

\* A slice: the place it names in the text, its paragraph, and what it says.
Slice(text, stretch, says, paragraph) ==
  LET shown == Visible(text, stretch[1], stretch[2])
  IN [start |-> Min(shown) - 1, end |-> Max(shown), paragraph |-> paragraph, says |-> says]

\* How many of the stretches come before this one.
Rank(stretch, all) == Cardinality({s \in all : s[1] < stretch[1]})

SlicesOf(text, strategy) ==
  LET lines == FullLines(text)
      paragraphs == Paragraphs(text)
      Said(s) == Visible(text, s[1], s[2])
      FirstLine(p) == CHOOSE line \in lines : line[1] = p[1]
  IN CASE strategy = "lineBreak" ->
            {Slice(text, s, Said(s), Rank(s, lines)) : s \in lines}
       [] strategy = "paragraph" ->
            {Slice(text, FirstLine(p), Said(p), Rank(p, paragraphs)) : p \in paragraphs}
       [] strategy = "sentence" ->
            {Slice(text, s, Said(s), 0) : s \in Sentences(text, 1, Len(text))}
       [] strategy = "paragraphThenSentence" ->
            UNION {{Slice(text, s, Said(s), Rank(p, paragraphs)) : s \in Sentences(text, p[1], p[2])}
                   : p \in paragraphs}

\* tts.slice: slice_chapter emits the slices in the order of the text.
Place(slice, slices) == Cardinality({s \in slices : s.start < slice.start}) + 1
InOrder(slices) == [i \in 1..Cardinality(slices) |-> CHOOSE s \in slices : Place(s, slices) = i]

SliceChapter(text, strategy) == InOrder(SlicesOf(text, strategy))

SlicePlans == [text \in TtsTexts |-> [strategy \in Strategies |-> SliceChapter(text, strategy)]]

(* --------------------------- the playback queue ------------------------ *)

TtsInit == queues = [c \in {} |-> 0] /\ chapterText \in TtsTexts

TtsActive(c) == c \in DOMAIN queues /\ queues[c].state \in {"playing", "paused"}

\* A stopped or finished queue starts anew, an active one is left alone.
Play(c, plan, start) ==
  LET entry == [state |-> "playing", current |-> start, plan |-> plan,
                statuses |-> [i \in 1..Len(plan) |-> IF i = start + 1 THEN "speaking" ELSE "pending"]]
  IN /\ start < Len(plan)       \* so an empty plan is refused
     /\ ~TtsActive(c)
     /\ queues' = [x \in DOMAIN queues \union {c} |-> IF x = c THEN entry ELSE queues[x]]

Pause(c) ==
  /\ c \in DOMAIN queues /\ queues[c].state = "playing"
  /\ queues' = [queues EXCEPT ![c].state = "paused"]

Resume(c) ==
  /\ c \in DOMAIN queues /\ queues[c].state = "paused"
  /\ queues' = [queues EXCEPT ![c].state = "playing"]

Stop(c) ==
  /\ c \in DOMAIN queues /\ queues[c].state \notin {"stopped", "completed"}
  /\ queues' = [queues EXCEPT ![c].state = "stopped"]

NextSlice(c) ==
  /\ TtsActive(c)
  /\ LET i == queues[c].current + 1
     IN queues' = IF i >= Len(queues[c].plan)
                  THEN [queues EXCEPT ![c].statuses[i] = "done", ![c].state = "completed"]
                  ELSE [queues EXCEPT ![c].current = i,
                          ![c].statuses = [@ EXCEPT ![i] = "done", ![i + 1] = "speaking"]]

\* Mutant: the slice that is left stays as it is.
PrevSlice_KeepsStatus(c) ==
  /\ TtsActive(c) /\ queues[c].current > 0
  /\ LET i == queues[c].current + 1
     IN queues' = [queues EXCEPT ![c].current = i - 2, ![c].statuses[i - 1] = "speaking"]

PrevSlice(c) ==
  /\ TtsActive(c) /\ queues[c].current > 0
  /\ LET i == queues[c].current + 1
     IN queues' = [queues EXCEPT ![c].current = i - 2,
                     ![c].statuses = [@ EXCEPT ![i] = "pending", ![i - 1] = "speaking"]]

TtsNext ==
  /\ UNCHANGED chapterText
  /\ \E c \in TtsChapters :
       \/ \E strategy \in Strategies :
            LET plan == SlicePlans[chapterText][strategy]
            IN \E start \in 0..(Len(plan) - 1) : Play(c, plan, start)
       \/ Pause(c)
       \/ Resume(c)
       \/ Stop(c)
       \/ NextSlice(c)
       \/ PrevSlice(c)

TtsSpec == TtsInit /\ [][TtsNext]_ttsVars

(* ------------------------------ properties ----------------------------- *)

\* The current slice of a queue divides what was spoken from what was not.
SpeaksCurrent(q) ==
  LET here == q.current + 1
      Is(i, status) == q.statuses[i] = status
  IN /\ here \in DOMAIN q.statuses /\ Len(q.statuses) = Len(q.plan)
     /\ \A i \in DOMAIN q.statuses :
          /\ Is(i, "speaking") => i = here
          /\ i > here => Is(i, "pending")
          /\ Is(i, "done") /\ i < here - 1 => Is(i + 1, "done")
     /\ q.state = "playing" => Is(here, "speaking")
     /\ q.state = "completed" => Is(Len(q.plan), "done")

\* However the host goes back and forth, pauses, stops and starts again: no slice
\* but the current one is being spoken, and while the queue plays that one is;
\* nothing after it was spoken; what is done is one stretch up to it, without a
\* gap; and a queue is not completed before its last slice is done.
SpeaksOnlyCurrent == \A c \in DOMAIN queues : SpeaksCurrent(queues[c])

\* Completed: all slices in the plan have been spoken (comment on TtsQueueState).
CompletedMeansAllDone ==
  \A c \in DOMAIN queues : queues[c].state = "completed" =>
    \A i \in DOMAIN queues[c].statuses : queues[c].statuses[i] = "done"

\* A queue that plays, is paused or is completed can be stopped (state machine
\* above TtsQueuePlayParams).
StopFromCompleted ==
  \A c \in DOMAIN queues : queues[c].state \in {"playing", "paused", "completed"} => ENABLED Stop(c)

\* The current slice of a paused queue is the next pending one (comment on
\* TtsQueueSnapshot).
PausedIsPending ==
  \A c \in DOMAIN queues : queues[c].state = "paused" =>
    queues[c].statuses[queues[c].current + 1] = "pending"

\* What is visible of the place that a slice names.
Named(text, slice) == Visible(text, slice.start + 1, slice.end)

\* No line ends between the first and the last of these characters.
OnOneLine(text, says) == \A k \in Min(says)..Max(says) : text[k] # "newline"

SaysTheText(slices, text, strategy) ==
  /\ UNION {slices[i].says : i \in DOMAIN slices} = Visible(text, 1, Len(text))
  /\ \A i \in DOMAIN slices :
       LET says == slices[i].says
       IN /\ slices[i].start + 1 = Min(says)
          /\ Named(text, slices[i]) \subseteq says
          /\ strategy # "paragraph" \/ OnOneLine(text, says) => Named(text, slices[i]) = says
          /\ \A j \in (i + 1)..Len(slices) :
               /\ \A p \in says, q \in slices[j].says : p < q
               /\ slices[i].paragraph <= slices[j].paragraph

\* tts.slice loses nothing of a text and says nothing twice, whatever the
\* strategy: the slices say all that is visible, in its order; each names a
\* place that begins with the first thing it says and shows nothing that it does
\* not say, and unless it is a paragraph of several lines, it says all of it.
SlicesSayTheText ==
  \A strategy \in Strategies :
    SaysTheText(SlicePlans[chapterText][strategy], chapterText, strategy)

\* charStart and charEnd are the range of the slice in the content of the chapter
\* (comment on TtsSlice): what a slice says is what stands there.
RangeIsWhatIsSaid ==
  \A strategy \in Strategies :
    LET slices == SlicePlans[chapterText][strategy]
    IN \A i \in DOMAIN slices : Named(chapterText, slices[i]) = slices[i].says
=============================================================================
