------------------------------- MODULE TextWrap -------------------------------
(***************************************************************************)
(* CaptionModel::wrap: breaks what the current speaker has said into lines *)
(* of at most LINE_LENGTH characters and shows the last two of them.  A    *)
(* word is its length, and a line its first word and its width; the room   *)
(* left on a line is a size_t, and a size_t below zero is a very large one.*)
(***************************************************************************)
EXTENDS Integers, Sequences

CONSTANTS
  LINE_LENGTH,  \* 30 in the code
  SizeValues,   \* how many values a size_t has
  WordLength,   \* the lengths of words
  LongestWord,  \* bound: the length of a word
  MaxWords      \* bound: words in an utterance

ASSUME LineAssumption == LINE_LENGTH \in Nat \ {0}
ASSUME WordAssumption ==
  /\ LongestWord \in Nat /\ MaxWords \in Nat
  /\ WordLength \subseteq 1 .. LongestWord
(* An utterance fits into memory, so its length fits into a size_t. *)
ASSUME SizeAssumption ==
  SizeValues \in Nat /\ SizeValues > LINE_LENGTH + MaxWords * (LongestWord + 1)

VARIABLES
  unread,         \* the words still in the stream
  wrapped_lines,  \* each line: its first word, and its width with the blanks
  space_left,     \* characters left on the last line
  returned,       \* wrap has returned
  result          \* what it returned: the lines to show

vars == <<unread, wrapped_lines, space_left, returned, result>>

Line == [first : WordLength, width : Nat]

Init ==
  /\ \E n \in 0 .. MaxWords : unread \in [1 .. n -> WordLength]
  /\ wrapped_lines = <<>>
  /\ space_left = 0
  /\ returned = FALSE
  /\ result = <<>>

-------------------------------------------------------------------------------
(* Mutated form: signed arithmetic. *)
SignedMinus(a, b) == a - b

(* Subtraction of two values of a size_t. *)
Minus(a, b) == IF a >= b THEN a - b ELSE a - b + SizeValues

LineOf(word) == [first |-> word, width |-> word]

(* The first word starts the first line. *)
FirstWord ==
  /\ wrapped_lines = <<>>
  /\ unread # <<>>
  /\ wrapped_lines' = <<LineOf(Head(unread))>>
  /\ space_left' = Minus(LINE_LENGTH, Head(unread))
  /\ unread' = Tail(unread)
  /\ UNCHANGED <<returned, result>>

(* Mutated form: the blank before the word is forgotten. *)
FitsWithoutBlank(word) == space_left >= word

Fits(word) == space_left >= word + 1

(* Mutated form: a blank is counted before the first word of a line. *)
NewLineShortRoom ==
  /\ wrapped_lines # <<>>
  /\ unread # <<>>
  /\ ~ Fits(Head(unread))
  /\ wrapped_lines' = Append(wrapped_lines, LineOf(Head(unread)))
  /\ space_left' = Minus(LINE_LENGTH, Head(unread) + 1)
  /\ unread' = Tail(unread)
  /\ UNCHANGED <<returned, result>>

NewLine ==
  /\ wrapped_lines # <<>>
  /\ unread # <<>>
  /\ ~ Fits(Head(unread))
  /\ wrapped_lines' = Append(wrapped_lines, LineOf(Head(unread)))
  /\ space_left' = Minus(LINE_LENGTH, Head(unread))
  /\ unread' = Tail(unread)
  /\ UNCHANGED <<returned, result>>

SameLine ==
  /\ wrapped_lines # <<>>
  /\ unread # <<>>
  /\ Fits(Head(unread))
  /\ wrapped_lines' = [wrapped_lines EXCEPT ![Len(wrapped_lines)].width =
                         @ + 1 + Head(unread)]
  /\ space_left' = Minus(space_left, Head(unread) + 1)
  /\ unread' = Tail(unread)
  /\ UNCHANGED <<returned, result>>

(* Mutated form: the first two lines. *)
FirstTwo(lines) == SubSeq(lines, 1, IF Len(lines) < 2 THEN Len(lines) ELSE 2)

LastTwo(lines) == SubSeq(lines, IF Len(lines) < 2 THEN 1 ELSE Len(lines) - 1, Len(lines))

Return ==
  /\ ~returned
  /\ unread = <<>>
  /\ returned' = TRUE
  /\ result' = LastTwo(wrapped_lines)
  /\ UNCHANGED <<unread, wrapped_lines, space_left>>

Next == FirstWord \/ NewLine \/ SameLine \/ Return

Spec == Init /\ [][Next]_vars

-------------------------------------------------------------------------------
Long(word) == word > LINE_LENGTH

TypeOK ==
  /\ unread \in Seq(WordLength)
  /\ wrapped_lines \in Seq(Line)
  /\ space_left \in 0 .. SizeValues - 1
  /\ returned \in BOOLEAN
  /\ result \in Seq(Line)

(* A line is too wide only if it begins with a word that is too long       *)
(* itself: as long as every word fits on a line, so does every line        *)
(* (captions.cpp:12-18).                                                   *)
LinesFit ==
  \A k \in 1 .. Len(wrapped_lines) :
    wrapped_lines[k].width > LINE_LENGTH => Long(wrapped_lines[k].first)

(* Lines are filled greedily: the word that begins a line would have made  *)
(* the line before it too wide (captions.cpp:14).  So no utterance takes   *)
(* more lines than it must, and as much of it as possible is shown.        *)
LinesAreFilled ==
  \A k \in 2 .. Len(wrapped_lines) :
    wrapped_lines[k - 1].width + 1 + wrapped_lines[k].first > LINE_LENGTH

(* A word too long for a line makes the room left wrap around to an        *)
(* enormous value, and nothing ever starts another line after it           *)
(* (captions.cpp:12, 16): the rest of the utterance runs on on one line.   *)
LongWordEndsWrapping ==
  \A k \in 1 .. Len(wrapped_lines) :
    Long(wrapped_lines[k].first) => k = Len(wrapped_lines)

(* What is shown is the end of the utterance: at least its last word, and  *)
(* all of it while it takes no more than two lines (captions.cpp:23-29).   *)
ShowsTheEnd ==
  returned =>
    /\ Len(wrapped_lines) <= 2 => result = wrapped_lines
    /\ wrapped_lines # <<>> =>
         result # <<>> /\ result[Len(result)] = wrapped_lines[Len(wrapped_lines)]

===============================================================================
