---------------------------- MODULE TextWrapProofs ----------------------------
(***************************************************************************)
(* The properties of wrap for every line length and every utterance that   *)
(* fits into memory.                                                       *)
(***************************************************************************)
EXTENDS TextWrap, SequenceTheorems, TLAPS

(* The most a word can take on a line, with the blank before it. *)
Slot == LongestWord + 1

LastLine == wrapped_lines[Len(wrapped_lines)]

(* A line has room for all the words that are still to come, not on the    *)
(* screen but in a size_t.                                                 *)
Fitting ==
  /\ wrapped_lines = <<>> => Len(unread) <= MaxWords
  /\ wrapped_lines # <<>> =>
       LastLine.width + Len(unread) * Slot <= MaxWords * Slot

(* What is left on the last line, below zero as a size_t has it. *)
Room ==
  wrapped_lines # <<>> =>
    space_left = IF LastLine.width <= LINE_LENGTH
                   THEN LINE_LENGTH - LastLine.width
                   ELSE LINE_LENGTH - LastLine.width + SizeValues

(* Nothing is left to read when wrap returns. *)
Returned == returned => unread = <<>>

(* A line is at least as wide as its first word. *)
FirstInLine ==
  \A k \in 1 .. Len(wrapped_lines) : wrapped_lines[k].first <= wrapped_lines[k].width

Inv ==
  /\ TypeOK
  /\ FirstInLine
  /\ Returned
  /\ Fitting
  /\ Room
  /\ LinesFit
  /\ LinesAreFilled
  /\ LongWordEndsWrapping
  /\ ShowsTheEnd

-------------------------------------------------------------------------------
LEMMA Numbers ==
  /\ LINE_LENGTH \in Nat /\ LongestWord \in Nat /\ MaxWords \in Nat
  /\ SizeValues \in Nat /\ Slot \in Nat \ {0}
  /\ SizeValues > LINE_LENGTH + MaxWords * Slot
  /\ \A word \in WordLength : word \in Nat /\ 0 < word /\ word + 1 <= Slot
BY LineAssumption, WordAssumption, SizeAssumption DEF Slot

(* One word less leaves one slot less to reserve. *)
LEMMA OneSlotLess ==
  ASSUME NEW n \in Nat, n > 0, NEW c \in Nat
  PROVE  n * c = (n - 1) * c + c
OBVIOUS

LEMMA FewerSlots ==
  ASSUME NEW m \in Nat, NEW n \in 0 .. m, NEW c \in Nat
  PROVE  n * c <= m * c
<1>1. m * c = n * c + (m - n) * c
  OBVIOUS
<1>2. (m - n) * c \in Nat /\ n * c \in Nat
  OBVIOUS
<1> QED
  BY <1>1, <1>2

LEMMA SlotsAreNumbers ==
  ASSUME NEW n \in Nat
  PROVE  n * Slot \in Nat
BY Numbers

LEMMA LastLineType ==
  ASSUME TypeOK, wrapped_lines # <<>>
  PROVE  /\ Len(wrapped_lines) \in Nat \ {0}
         /\ LastLine \in Line
         /\ LastLine.width \in Nat /\ LastLine.first \in WordLength
<1>1. wrapped_lines \in Seq(Line)
  BY DEF TypeOK
<1>2. Len(wrapped_lines) \in Nat \ {0}
  BY <1>1, EmptySeq
<1>3. wrapped_lines[Len(wrapped_lines)] \in Line
  BY <1>1, <1>2, ElementOfSeq
<1> QED
  BY <1>2, <1>3 DEF LastLine, Line

LEMMA WrapInit == Init => Inv
<1> SUFFICES ASSUME Init PROVE Inv
  OBVIOUS
<1>1. PICK n \in 0 .. MaxWords : unread \in [1 .. n -> WordLength]
  BY DEF Init
<1>2. unread \in Seq(WordLength) /\ Len(unread) = n
  BY <1>1, Numbers, SeqDef
<1>3. TypeOK
  <2>1. SizeValues \in Nat /\ SizeValues > 0
    BY Numbers, SlotsAreNumbers
  <2>2. <<>> \in Seq(Line)
    BY EmptySeq
  <2>3. wrapped_lines \in Seq(Line) /\ result \in Seq(Line) /\ returned \in BOOLEAN
    BY <2>2 DEF Init
  <2>4. 0 \in 0 .. SizeValues - 1
    BY <2>1
  <2>5. space_left \in 0 .. SizeValues - 1
    BY <2>4 DEF Init
  <2> QED
    BY <1>2, <2>3, <2>5 DEF TypeOK
<1>4. wrapped_lines = <<>> /\ Len(wrapped_lines) = 0 /\ ~returned
  BY DEF Init
<1> QED
  BY <1>2, <1>3, <1>4 DEF Inv, Returned, Fitting, Room, LinesFit, LinesAreFilled,
    LongWordEndsWrapping, FirstInLine, ShowsTheEnd

(* What is known of the next word, and of the room there is for it. *)
LEMMA NextWord ==
  ASSUME TypeOK, Fitting, unread # <<>>
  PROVE  /\ Head(unread) \in WordLength
         /\ Tail(unread) \in Seq(WordLength)
         /\ Len(Tail(unread)) \in Nat
         /\ wrapped_lines = <<>> => Head(unread) + Len(Tail(unread)) * Slot <= MaxWords * Slot
         /\ wrapped_lines # <<>> =>
              LastLine.width + 1 + Head(unread) + Len(Tail(unread)) * Slot <= MaxWords * Slot
<1>1. /\ Head(unread) \in WordLength /\ Tail(unread) \in Seq(WordLength)
      /\ Len(unread) \in Nat /\ Len(unread) > 0 /\ Len(Tail(unread)) = Len(unread) - 1
  BY DEF TypeOK
<1> DEFINE rest == Len(Tail(unread)) * Slot
<1>2. Len(unread) * Slot = rest + Slot
  BY <1>1, OneSlotLess, Numbers
<1>3. Head(unread) \in Nat /\ Head(unread) + 1 <= Slot
  BY <1>1, Numbers
<1>4. rest \in Nat /\ MaxWords * Slot \in Nat /\ Slot \in Nat
  BY <1>1, SlotsAreNumbers, Numbers
<1>5. ASSUME wrapped_lines = <<>> PROVE Head(unread) + rest <= MaxWords * Slot
  <2>1. Len(unread) * Slot <= MaxWords * Slot
    BY <1>1, <1>5, FewerSlots, Numbers DEF Fitting
  <2> QED
    BY <1>2, <1>3, <1>4, <2>1
<1>6. ASSUME wrapped_lines # <<>>
      PROVE  LastLine.width + 1 + Head(unread) + rest <= MaxWords * Slot
  <2>1. LastLine.width \in Nat
    BY <1>6, LastLineType
  <2>2. LastLine.width + Len(unread) * Slot <= MaxWords * Slot
    BY <1>6 DEF Fitting
  <2> HIDE DEF rest
  <2> QED
    BY <1>2, <1>3, <1>4, <2>1, <2>2
<1> QED
  BY <1>1, <1>5, <1>6

(* A new line for a word. *)
LEMMA NewLineRoom ==
  ASSUME NEW word \in WordLength, word <= MaxWords * Slot
  PROVE  /\ LineOf(word) \in Line
         /\ Minus(LINE_LENGTH, word) = IF word <= LINE_LENGTH
                                         THEN LINE_LENGTH - word
                                         ELSE LINE_LENGTH - word + SizeValues
         /\ Minus(LINE_LENGTH, word) \in 0 .. SizeValues - 1
<1>1. MaxWords * Slot \in Nat
  BY SlotsAreNumbers, Numbers
<1>2. LineOf(word) \in Line
  BY Numbers DEF LineOf, Line
<1> QED
  BY <1>1, <1>2, Numbers DEF Minus

LEMMA LastTwoLines ==
  ASSUME NEW lines \in Seq(Line)
  PROVE  /\ LastTwo(lines) \in Seq(Line)
         /\ Len(lines) <= 2 => LastTwo(lines) = lines
         /\ lines # <<>> =>
              LastTwo(lines) # <<>> /\ LastTwo(lines)[Len(LastTwo(lines))] = lines[Len(lines)]
<1> DEFINE from == IF Len(lines) < 2 THEN 1 ELSE Len(lines) - 1
<1>1. /\ Len(lines) \in Nat /\ from \in 1 .. Len(lines) + 1
      /\ LastTwo(lines) = SubSeq(lines, from, Len(lines))
      /\ Len(lines) <= 2 => from = 1
      /\ lines # <<>> => from <= Len(lines)
  <2>1. Len(lines) \in Nat /\ (lines # <<>> => Len(lines) > 0)
    BY EmptySeq
  <2>2. from \in 1 .. Len(lines) + 1 /\ (Len(lines) <= 2 => from = 1)
    <3>1. ASSUME NEW n \in Nat
          PROVE  LET k == IF n < 2 THEN 1 ELSE n - 1
                 IN  k \in 1 .. n + 1 /\ (n <= 2 => k = 1)
      OBVIOUS
    <3> QED
      BY <2>1, <3>1
  <2>3. lines # <<>> => from <= Len(lines)
    BY <2>1
  <2>4. LastTwo(lines) = SubSeq(lines, from, Len(lines))
    BY DEF LastTwo
  <2> QED
    BY <2>1, <2>2, <2>3, <2>4
<1> HIDE DEF from
<1>2. /\ LastTwo(lines) \in Seq(Line)
      /\ Len(LastTwo(lines)) = Len(lines) - from + 1
      /\ \A k \in 1 .. Len(lines) - from + 1 : LastTwo(lines)[k] = lines[from + k - 1]
  BY <1>1, SubSeqProperties
<1>3. from = 1 => LastTwo(lines) = lines
  BY <1>1, <1>2, SeqEqual
<1>4. ASSUME lines # <<>>
      PROVE  LastTwo(lines) # <<>> /\ LastTwo(lines)[Len(LastTwo(lines))] = lines[Len(lines)]
  <2>1. Len(LastTwo(lines)) \in 1 .. Len(lines) - from + 1
    BY <1>1, <1>2, <1>4
  <2>2. LastTwo(lines)[Len(LastTwo(lines))] = lines[from + Len(LastTwo(lines)) - 1]
    BY <1>2, <2>1
  <2>3. from + Len(LastTwo(lines)) - 1 = Len(lines)
    BY <1>1, <1>2
  <2> QED
    BY <1>2, <2>1, <2>2, <2>3, EmptySeq
<1> QED
  BY <1>1, <1>2, <1>3, <1>4

(* Taking a word and its blank from the room left keeps the room the       *)
(* length of a line less the line's width, whether it has wrapped or not.  *)
LEMMA RoomTaken ==
  ASSUME NEW length \in Nat, NEW values \in Nat, NEW width \in Nat, NEW taken \in Nat,
         NEW room \in Nat, NEW left, NEW wider,
         room = IF width <= length THEN length - width ELSE length - width + values,
         room >= taken + 1,
         left = room - (taken + 1),
         wider = width + 1 + taken
  PROVE  /\ wider <= length <=> width <= length
         /\ left = IF wider <= length THEN length - wider ELSE length - wider + values
<1>1. CASE width <= length
  BY <1>1
<1>2. CASE width > length
  BY <1>2
<1> QED
  BY <1>1, <1>2

LEMMA WrapNext == Inv /\ [Next]_vars => Inv'
<1> SUFFICES ASSUME Inv, [Next]_vars PROVE Inv'
  OBVIOUS
<1> DEFINE word == Head(unread)
           last == Len(wrapped_lines)
           rest == Len(Tail(unread)) * Slot
           most == MaxWords * Slot
<1>0. TypeOK /\ Fitting
  BY DEF Inv
<1>1. most \in Nat /\ (unread # <<>> => rest \in Nat)
  BY <1>0, NextWord, SlotsAreNumbers, Numbers
<1>2. CASE FirstWord
  <2>1. /\ wrapped_lines = <<>> /\ unread # <<>> /\ unread' = Tail(unread)
        /\ wrapped_lines' = <<LineOf(word)>> /\ space_left' = Minus(LINE_LENGTH, word)
        /\ returned' = returned /\ result' = result
    BY <1>2 DEF FirstWord
  <2>2. /\ word \in WordLength /\ Tail(unread) \in Seq(WordLength)
        /\ word + rest <= most
    BY <1>0, <2>1, NextWord
  <2>3. word \in Nat /\ word <= most
    BY <1>1, <2>1, <2>2, Numbers
  <2>4. /\ LineOf(word) \in Line
        /\ Minus(LINE_LENGTH, word) = IF word <= LINE_LENGTH
                                        THEN LINE_LENGTH - word
                                        ELSE LINE_LENGTH - word + SizeValues
        /\ Minus(LINE_LENGTH, word) \in 0 .. SizeValues - 1
    BY <2>2, <2>3, NewLineRoom
  <2>5. TypeOK'
    BY <1>0, <2>1, <2>2, <2>4 DEF TypeOK
  <2>6. /\ Len(wrapped_lines') = 1 /\ wrapped_lines'[1] = LineOf(word)
        /\ wrapped_lines' # <<>>
    BY <2>1
  <2>7. LastLine'.width = word /\ LastLine'.first = word
    BY <2>6 DEF LastLine, LineOf
  <2>8. Fitting' /\ Room'
    BY <2>1, <2>2, <2>4, <2>6, <2>7 DEF Fitting, Room
  <2>9. LinesFit' /\ LinesAreFilled' /\ LongWordEndsWrapping' /\ FirstInLine'
    BY <2>3, <2>6 DEF LinesFit, LinesAreFilled, LongWordEndsWrapping, FirstInLine, Long, LineOf
  <2>10. Returned' /\ ShowsTheEnd'
    BY <2>1 DEF Inv, Returned, ShowsTheEnd
  <2> QED
    BY <2>5, <2>8, <2>9, <2>10 DEF Inv
<1>3. CASE NewLine
  <2>1. /\ wrapped_lines # <<>> /\ unread # <<>> /\ unread' = Tail(unread)
        /\ ~Fits(word)
        /\ wrapped_lines' = Append(wrapped_lines, LineOf(word))
        /\ space_left' = Minus(LINE_LENGTH, word)
        /\ returned' = returned /\ result' = result
    BY <1>3 DEF NewLine
  <2>2. /\ word \in WordLength /\ Tail(unread) \in Seq(WordLength)
        /\ LastLine.width + 1 + word + rest <= most
    BY <1>0, <2>1, NextWord
  <2>3. LastLine \in Line /\ last \in Nat \ {0} /\ LastLine.width \in Nat
    BY <1>0, <2>1, LastLineType
  <2>4. word \in Nat /\ word + rest <= most /\ word <= most
    <3>1. word \in Nat
      BY <2>2, Numbers
    <3> HIDE DEF word, rest, most
    <3> QED
      BY <1>1, <2>1, <2>2, <2>3, <3>1
  <2>5. /\ LineOf(word) \in Line
        /\ Minus(LINE_LENGTH, word) = IF word <= LINE_LENGTH
                                        THEN LINE_LENGTH - word
                                        ELSE LINE_LENGTH - word + SizeValues
        /\ Minus(LINE_LENGTH, word) \in 0 .. SizeValues - 1
    BY <2>2, <2>4, NewLineRoom
  <2>6. TypeOK'
    BY <1>0, <2>1, <2>2, <2>5 DEF TypeOK
  <2>7. /\ Len(wrapped_lines') = last + 1 /\ wrapped_lines'[last + 1] = LineOf(word)
        /\ \A k \in 1 .. last : wrapped_lines'[k] = wrapped_lines[k]
        /\ wrapped_lines' # <<>>
    BY <1>0, <2>1, <2>5 DEF TypeOK
  <2>8. LastLine'.width = word
    BY <2>7 DEF LastLine, LineOf
  <2>9. Fitting' /\ Room'
    BY <2>1, <2>4, <2>5, <2>7, <2>8 DEF Fitting, Room
  <2>10. space_left < word + 1
    BY <1>0, <2>1, <2>4, Numbers DEF Fits, TypeOK
  <2>11. LastLine.width <= LINE_LENGTH /\ LastLine.width + 1 + word > LINE_LENGTH
    <3>1. space_left = IF LastLine.width <= LINE_LENGTH
                         THEN LINE_LENGTH - LastLine.width
                         ELSE LINE_LENGTH - LastLine.width + SizeValues
      BY <2>1 DEF Inv, Room
    <3>2. LastLine.width + 1 + word <= most
      BY <1>1, <2>1, <2>2, <2>3, <2>4
    <3> QED
      BY <1>1, <2>3, <2>4, <2>10, <3>1, <3>2, Numbers
  <2>12. \A k \in 1 .. last : ~Long(wrapped_lines[k].first)
    <3>1. ASSUME NEW k \in 1 .. last, Long(wrapped_lines[k].first) PROVE FALSE
      <4>1. k = last /\ Long(LastLine.first)
        BY <3>1 DEF Inv, LongWordEndsWrapping, LastLine
      <4>2. LastLine.first <= LastLine.width
        BY <2>1 DEF Inv, FirstInLine, LastLine
      <4> QED
        BY <2>3, <2>11, <4>1, <4>2, Numbers DEF Long, Line
    <3> QED
      BY <3>1
  <2>13. LinesFit'
    BY <2>3, <2>4, <2>7 DEF Inv, LinesFit, Long, LineOf
  <2>14. LongWordEndsWrapping'
    BY <2>3, <2>7, <2>12 DEF LongWordEndsWrapping
  <2>15. LinesAreFilled'
    <3> SUFFICES ASSUME NEW k \in 2 .. last + 1
                 PROVE  wrapped_lines'[k - 1].width + 1 + wrapped_lines'[k].first > LINE_LENGTH
      BY <2>7 DEF LinesAreFilled
    <3>1. CASE k \in 2 .. last
      BY <2>3, <2>7, <3>1 DEF Inv, LinesAreFilled
    <3>2. CASE k = last + 1
      BY <2>3, <2>7, <2>11, <3>2 DEF LastLine, LineOf
    <3> QED
      BY <2>3, <3>1, <3>2
  <2>16. FirstInLine'
    BY <2>3, <2>4, <2>7 DEF Inv, FirstInLine, LineOf
  <2>17. Returned' /\ ShowsTheEnd'
    BY <2>1 DEF Inv, Returned, ShowsTheEnd
  <2> QED
    BY <2>6, <2>9, <2>13, <2>14, <2>15, <2>16, <2>17 DEF Inv
<1>4. CASE SameLine
  <2>1. /\ wrapped_lines # <<>> /\ unread # <<>> /\ unread' = Tail(unread)
        /\ Fits(word)
        /\ wrapped_lines' = [wrapped_lines EXCEPT ![last].width = @ + 1 + word]
        /\ space_left' = Minus(space_left, word + 1)
        /\ returned' = returned /\ result' = result
    BY <1>4 DEF SameLine
  <2>2. /\ word \in WordLength /\ Tail(unread) \in Seq(WordLength)
        /\ LastLine.width + 1 + word + rest <= most
    BY <1>0, <2>1, NextWord
  <2>3. LastLine \in Line /\ last \in Nat \ {0} /\ LastLine.width \in Nat
    BY <1>0, <2>1, LastLineType
  <2>4. word \in Nat
    BY <2>2, Numbers
  <2> DEFINE longer == [LastLine EXCEPT !.width = @ + 1 + word]
  <2>5. /\ longer \in Line /\ longer.first = LastLine.first
        /\ longer.width = LastLine.width + 1 + word
    BY <2>3, <2>4 DEF Line
  <2>6. /\ wrapped_lines' \in Seq(Line) /\ Len(wrapped_lines') = last
        /\ wrapped_lines'[last] = longer
        /\ \A k \in 1 .. last - 1 : wrapped_lines'[k] = wrapped_lines[k]
        /\ wrapped_lines' # <<>>
    <3>1. wrapped_lines' = [wrapped_lines EXCEPT ![last] = longer]
      BY <2>1 DEF LastLine
    <3> HIDE DEF longer
    <3> QED
      BY <1>0, <2>3, <2>5, <3>1 DEF TypeOK
  <2> HIDE DEF longer
  <2>7. LastLine' = longer
    BY <2>6 DEF LastLine
  <2>8. space_left >= word + 1 /\ space_left \in Nat /\ space_left' = space_left - (word + 1)
    BY <1>0, <2>1, <2>4, Numbers DEF Fits, TypeOK, Minus
  <2>9. space_left = IF LastLine.width <= LINE_LENGTH
                       THEN LINE_LENGTH - LastLine.width
                       ELSE LINE_LENGTH - LastLine.width + SizeValues
    BY <2>1 DEF Inv, Room
  <2>10. TypeOK'
    <3>1. space_left' \in 0 .. SizeValues - 1
      BY <1>0, <2>4, <2>8, Numbers DEF TypeOK
    <3> QED
      BY <1>0, <2>1, <2>2, <2>6, <3>1 DEF TypeOK
  <2>11. Fitting'
    BY <2>1, <2>2, <2>5, <2>6, <2>7 DEF Fitting
  <2>12. LINE_LENGTH \in Nat /\ SizeValues \in Nat
    BY Numbers
  <2>13. /\ longer.width <= LINE_LENGTH <=> LastLine.width <= LINE_LENGTH
         /\ space_left' = IF longer.width <= LINE_LENGTH
                            THEN LINE_LENGTH - longer.width
                            ELSE LINE_LENGTH - longer.width + SizeValues
    <3> HIDE DEF word
    <3> DEFINE width == LastLine.width
               wider == longer.width
               left == space_left'
    <3>1. /\ width \in Nat /\ word \in Nat /\ space_left \in Nat
          /\ wider = width + 1 + word
          /\ space_left >= word + 1 /\ left = space_left - (word + 1)
          /\ space_left = IF width <= LINE_LENGTH THEN LINE_LENGTH - width
                                                ELSE LINE_LENGTH - width + SizeValues
      BY <2>3, <2>4, <2>5, <2>8, <2>9
    <3> HIDE DEF width, wider, left
    <3>2. /\ wider <= LINE_LENGTH <=> width <= LINE_LENGTH
          /\ left = IF wider <= LINE_LENGTH THEN LINE_LENGTH - wider
                                            ELSE LINE_LENGTH - wider + SizeValues
      BY <2>12, <3>1, RoomTaken
    <3> QED
      BY <3>2 DEF width, wider, left
  <2>13a. Room'
    BY <2>7, <2>13 DEF Room
  <2>14. LastLine.width > LINE_LENGTH => Long(LastLine.first)
    BY <2>3 DEF Inv, LinesFit, LastLine
  <2>15. LinesFit'
    <3> SUFFICES ASSUME NEW k \in 1 .. last, wrapped_lines'[k].width > LINE_LENGTH
                 PROVE  Long(wrapped_lines'[k].first)
      BY <2>6 DEF LinesFit
    <3>1. CASE k \in 1 .. last - 1
      BY <2>3, <2>6, <3>1 DEF Inv, LinesFit
    <3>2. CASE k = last
      <4>1. longer.width > LINE_LENGTH /\ wrapped_lines'[k].first = LastLine.first
        BY <2>5, <2>6, <3>2
      <4>2. LastLine.width > LINE_LENGTH
        BY <2>3, <2>4, <2>5, <2>13, <4>1, Numbers
      <4> QED
        BY <2>14, <4>1, <4>2
    <3> QED
      BY <2>3, <3>1, <3>2
  <2>16. \A k \in 1 .. last : wrapped_lines'[k].first = wrapped_lines[k].first
    BY <2>3, <2>5, <2>6 DEF LastLine
  <2>17. LinesAreFilled' /\ LongWordEndsWrapping'
    BY <2>3, <2>6, <2>16 DEF Inv, LinesAreFilled, LongWordEndsWrapping
  <2>18. FirstInLine'
    <3>1. LastLine.first <= LastLine.width /\ LastLine.first \in Nat
      BY <2>3, Numbers DEF Inv, FirstInLine, LastLine, Line
    <3>2. longer.first <= longer.width
      BY <2>3, <2>4, <2>5, <3>1
    <3> QED
      BY <2>3, <2>6, <3>2 DEF Inv, FirstInLine
  <2>19. Returned' /\ ShowsTheEnd'
    BY <2>1 DEF Inv, Returned, ShowsTheEnd
  <2> QED
    BY <2>10, <2>11, <2>13a, <2>15, <2>17, <2>18, <2>19 DEF Inv
<1>5. CASE Return
  <2>1. /\ UNCHANGED <<unread, wrapped_lines, space_left>> /\ unread = <<>>
        /\ returned' = TRUE /\ result' = LastTwo(wrapped_lines)
    BY <1>5 DEF Return
  <2>2. wrapped_lines \in Seq(Line) /\ last \in Nat
    BY <1>0 DEF TypeOK
  <2>3. /\ LastTwo(wrapped_lines) \in Seq(Line)
        /\ last <= 2 => LastTwo(wrapped_lines) = wrapped_lines
        /\ wrapped_lines # <<>> =>
             /\ LastTwo(wrapped_lines) # <<>>
             /\ LastTwo(wrapped_lines)[Len(LastTwo(wrapped_lines))] = wrapped_lines[last]
    BY <2>2, LastTwoLines
  <2>4. TypeOK' /\ ShowsTheEnd' /\ Returned'
    BY <1>0, <2>1, <2>3 DEF TypeOK, ShowsTheEnd, Returned
  <2>5. Fitting' /\ Room' /\ LinesFit' /\ LinesAreFilled' /\ LongWordEndsWrapping' /\ FirstInLine'
    BY <2>1 DEF Inv, Fitting, Room, LinesFit, LinesAreFilled, LongWordEndsWrapping,
      FirstInLine, LastLine
  <2> QED
    BY <2>4, <2>5 DEF Inv
<1>6. CASE UNCHANGED vars
  BY <1>6 DEF vars, Inv, TypeOK, Returned, Fitting, Room, LinesFit, LinesAreFilled,
    LongWordEndsWrapping, FirstInLine, ShowsTheEnd, LastLine
<1> QED
  BY <1>2, <1>3, <1>4, <1>5, <1>6 DEF Next

LEMMA WrapInvariance == Spec => []Inv
  BY WrapInit, WrapNext, PTL DEF Spec

-------------------------------------------------------------------------------
(* captions.cpp:5-30: the room left stays within a size_t. *)
THEOREM WrapTypeCorrectness == Spec => []TypeOK
<1>1. Inv => TypeOK
  BY DEF Inv
<1> QED
  BY <1>1, WrapInvariance, PTL

(* captions.cpp:12-18: a line that is too wide begins with a word that is. *)
THEOREM LinesFitHolds == Spec => []LinesFit
<1>1. Inv => LinesFit
  BY DEF Inv
<1> QED
  BY <1>1, WrapInvariance, PTL

(* captions.cpp:14: lines are filled greedily. *)
THEOREM LinesAreFilledHolds == Spec => []LinesAreFilled
<1>1. Inv => LinesAreFilled
  BY DEF Inv
<1> QED
  BY <1>1, WrapInvariance, PTL

(* captions.cpp:12 and 16: no line is begun after a word that is too long. *)
THEOREM LongWordEndsWrappingHolds == Spec => []LongWordEndsWrapping
<1>1. Inv => LongWordEndsWrapping
  BY DEF Inv
<1> QED
  BY <1>1, WrapInvariance, PTL

(* captions.cpp:23-29: what is shown ends with the end of the utterance. *)
THEOREM ShowsTheEndHolds == Spec => []ShowsTheEnd
<1>1. Inv => ShowsTheEnd
  BY DEF Inv
<1> QED
  BY <1>1, WrapInvariance, PTL

===============================================================================
