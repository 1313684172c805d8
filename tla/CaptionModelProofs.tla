-------------------------- MODULE CaptionModelProofs --------------------------
(***************************************************************************)
(* The caption model holds the current speaker's utterance, and what VLC's *)
(* thread shows of it are atomic looks at it: the server implements        *)
(* UtteranceBoard.                                                         *)
(***************************************************************************)
EXTENDS GroupConvoProofs

Word(k) == [speaker |-> caption_json[k].speaker, text |-> caption_json[k].text]

(* The turn that caption k belongs to begins with caption first. *)
TurnBegins(first, k) ==
  /\ \A m \in first .. k : caption_json[m].speaker = caption_json[k].speaker
  /\ first = 1 \/ caption_json[first - 1].speaker # caption_json[k].speaker

(* The caption model holds the captions from first to k. *)
Holds(first, k) ==
  /\ Len(spoken_so_far) = k - first + 1
  /\ \A i \in 1 .. k - first + 1 : spoken_so_far[i] = Word(first + i - 1)

SpokenUpTo(k) ==
  IF k = 0 THEN spoken_so_far = <<>>
           ELSE \E first \in 1 .. k : TurnBegins(first, k) /\ Holds(first, k)

(* Between its two steps add_word has cleared the model or has found that  *)
(* the speaker goes on.                                                    *)
SpokenInv ==
  /\ captions_pc # "emplace_back" => SpokenUpTo(next - 1)
  /\ captions_pc = "emplace_back" =>
       \/ /\ spoken_so_far = <<>>
          /\ next = 1 \/ caption_json[next - 1].speaker # caption_json[next].speaker
       \/ /\ next > 1
          /\ SpokenUpTo(next - 1)
          /\ caption_json[next - 1].speaker = caption_json[next].speaker

LEMMA SpokenInit == Init => SpokenInv
  BY DEF Init, SharedInit, CaptionsInit, SpokenInv, SpokenUpTo

LEMMA SpokenNext == TypeInv /\ SpokenInv /\ [Next]_vars => SpokenInv'
<1> SUFFICES ASSUME TypeInv, SpokenInv, [Next]_vars PROVE SpokenInv'
  OBVIOUS
<1>0. /\ next \in Nat /\ next >= 1 /\ Len(caption_json) \in Nat
      /\ spoken_so_far \in Seq(SpokenWord) /\ Len(spoken_so_far) \in Nat
  <2>1. spoken_so_far \in Seq(SpokenWord)
    BY DEF TypeInv, TypeOK, SharedTypeOK
  <2> QED BY <2>1, TimeTypes
<1>1. ASSUME UNCHANGED <<caption_json, next, spoken_so_far>>,
             captions_pc # "emplace_back", captions_pc' # "emplace_back"
      PROVE  SpokenInv'
  BY <1>1 DEF SpokenInv, SpokenUpTo, TurnBegins, Holds, Word
<1>2. CASE UNCHANGED <<captions_pc, caption_json, next, spoken_so_far>>
  BY <1>2 DEF SpokenInv, SpokenUpTo, TurnBegins, Holds, Word
<1>3. CASE CaptionThread
  <2>1. CASE NextCaption BY <1>1, <2>1 DEF NextCaption, touchedByCaptions
  <2>2. CASE UnknownSpeaker BY <1>1, <2>2 DEF UnknownSpeaker, captionVars
  <2>3. CASE StreamEnds BY <1>1, <2>3 DEF StreamEnds, touchedByCaptions
  <2>4. CASE WakeUp BY <1>1, <2>4 DEF WakeUp, touchedByCaptions
  <2>5. CASE LockSocketToSend BY <1>1, <2>5 DEF LockSocketToSend
  <2>6. CASE Sendto BY <1>1, <2>6 DEF Sendto
  <2>7. CASE LockText BY <1>1, <2>7 DEF LockText
  <2>8. CASE ClearOnNewSpeaker
    <3>1. /\ UNCHANGED <<caption_json, next>>
          /\ captions_pc = "clear" /\ captions_pc' = "emplace_back"
          /\ spoken_so_far' =
               IF spoken_so_far # <<>>
                    /\ spoken_so_far[Len(spoken_so_far)].speaker # caption_json[next].speaker
                 THEN <<>> ELSE spoken_so_far
      BY <2>8 DEF ClearOnNewSpeaker
    <3>2. SpokenUpTo(next - 1)
      BY <3>1 DEF SpokenInv
    <3>3. CASE next = 1
      <4>1. spoken_so_far = <<>>
        BY <3>2, <3>3 DEF SpokenUpTo
      <4> QED BY <3>1, <3>3, <4>1 DEF SpokenInv
    <3>4. CASE next > 1
      <4>1. PICK first \in 1 .. next - 1 : TurnBegins(first, next - 1) /\ Holds(first, next - 1)
        BY <1>0, <3>2, <3>4 DEF SpokenUpTo
      <4>2. /\ Len(spoken_so_far) = next - first
            /\ spoken_so_far[next - first] = Word(next - 1)
        BY <1>0, <3>4, <4>1 DEF Holds
      <4>3. spoken_so_far # <<>>
        BY <1>0, <3>4, <4>1, <4>2
      <4>4. spoken_so_far[Len(spoken_so_far)].speaker = caption_json[next - 1].speaker
        BY <4>2 DEF Word
      <4>5. CASE caption_json[next - 1].speaker # caption_json[next].speaker
        <5>1. spoken_so_far' = <<>>
          BY <3>1, <4>3, <4>4, <4>5
        <5> QED BY <3>1, <4>5, <5>1 DEF SpokenInv
      <4>6. CASE caption_json[next - 1].speaker = caption_json[next].speaker
        <5>1. spoken_so_far' = spoken_so_far
          BY <3>1, <4>4, <4>6
        <5>2. SpokenUpTo(next - 1)'
          BY <3>1, <3>2, <5>1 DEF SpokenUpTo, TurnBegins, Holds, Word
        <5> QED BY <3>1, <3>4, <4>6, <5>2 DEF SpokenInv
      <4> QED BY <4>5, <4>6
    <3> QED BY <1>0, <3>3, <3>4
  <2>9. CASE EmplaceBack
    <3>1. /\ UNCHANGED caption_json /\ next' = next + 1
          /\ captions_pc = "emplace_back" /\ captions_pc' = "next_caption"
          /\ spoken_so_far' = Append(spoken_so_far, Word(next))
      BY <2>9 DEF EmplaceBack, Word
    <3>2. Word(next) \in SpokenWord
      BY <1>0, <3>1, CaptionType DEF TypeInv, TypeOK, CaptionsTypeOK, InFlight, Word, SpokenWord
    <3>3. /\ Len(spoken_so_far') = Len(spoken_so_far) + 1
          /\ \A i \in 1 .. Len(spoken_so_far) : spoken_so_far'[i] = spoken_so_far[i]
          /\ spoken_so_far'[Len(spoken_so_far) + 1] = Word(next)
      BY <1>0, <3>1, <3>2, AppendProperties
    <3>4. \A k : Word(k)' = Word(k)
      BY <3>1 DEF Word
    <3>5. PICK n \in Nat : n = next
      BY <1>0
    <3>6. ASSUME spoken_so_far = <<>>,
                 next = 1 \/ caption_json[next - 1].speaker # caption_json[next].speaker
          PROVE  \E first \in 1 .. n : (TurnBegins(first, n) /\ Holds(first, n))'
      <4>1. TurnBegins(n, n)'
        BY <1>0, <3>1, <3>5, <3>6 DEF TurnBegins
      <4>2. Holds(n, n)'
        <5>1. Len(spoken_so_far') = 1 /\ spoken_so_far'[1] = Word(next)
          BY <3>3, <3>6
        <5> QED BY <3>4, <3>5, <5>1 DEF Holds
      <4> QED BY <1>0, <3>5, <4>1, <4>2
    <3>7. ASSUME next > 1,
                 SpokenUpTo(next - 1),
                 caption_json[next - 1].speaker = caption_json[next].speaker
          PROVE  \E first \in 1 .. n : (TurnBegins(first, n) /\ Holds(first, n))'
      <4>1. PICK first \in 1 .. n - 1 : TurnBegins(first, n - 1) /\ Holds(first, n - 1)
        BY <1>0, <3>5, <3>7 DEF SpokenUpTo
      <4>2. TurnBegins(first, n)
        BY <1>0, <3>5, <3>7, <4>1 DEF TurnBegins
      <4>3. Len(spoken_so_far) = n - first /\ Len(spoken_so_far') = n - first + 1
        BY <1>0, <3>3, <4>1 DEF Holds
      <4>4. ASSUME NEW i \in 1 .. n - first + 1
            PROVE  spoken_so_far'[i] = Word(first + i - 1)
        <5>1. CASE i = n - first + 1
          BY <3>3, <3>5, <4>3, <5>1
        <5>2. CASE i \in 1 .. n - first
          BY <3>3, <4>1, <4>3, <5>2 DEF Holds
        <5> QED BY <4>1, <5>1, <5>2
      <4>5. TurnBegins(first, n)'
        BY <3>1, <4>2 DEF TurnBegins
      <4>6. Holds(first, n)'
        BY <3>4, <4>3, <4>4 DEF Holds
      <4> QED BY <4>5, <4>6
    <3>8. \E first \in 1 .. n : (TurnBegins(first, n) /\ Holds(first, n))'
      BY <3>1, <3>6, <3>7 DEF SpokenInv
    <3>9. SpokenUpTo(n)'
      BY <1>0, <3>5, <3>8 DEF SpokenUpTo
    <3>10. next' - 1 = n
      BY <1>0, <3>1, <3>5
    <3>11. SpokenUpTo(next - 1)'
      BY <3>9, <3>10 DEF SpokenUpTo, TurnBegins, Holds
    <3> QED BY <3>1, <3>11 DEF SpokenInv
  <2> QED BY <1>3, <2>1, <2>2, <2>3, <2>4, <2>5, <2>6, <2>7, <2>8, <2>9 DEF CaptionThread, CaptionStream
<1>4. CASE MainStartsCaptions
  BY <1>1, <1>4 DEF MainStartsCaptions, StartThread, othersOfMain
<1> QED BY <1>2, <1>3, <1>4 DEF Next, Phone, OrientationThread, Clock, Tick, VlcThread, MainSteps, MainWaits,
           MainPlays, othersOfOrientation, othersOfMain, captionVars, vars, sharedVars, touchedByCaptions,
           PhoneSends, touchedByOrientation

LEMMA SpokenInvariant == Spec => [](TypeInv /\ SpokenInv)
  BY TypeInit, TypeNext, SpokenInit, SpokenNext, PTL DEF Spec

LEMMA SpokenUpToIsUtterance ==
  ASSUME NEW k \in Nat, SpokenUpTo(k)
  PROVE  Board!IsUtterance(k, CurrentJuror, CurrentWords)
<1>1. CASE k = 0
  <2>1. spoken_so_far = <<>>
    BY <1>1 DEF SpokenUpTo
  <2> QED BY <1>1, <2>1 DEF Board!IsUtterance, CurrentJuror, CurrentWords
<1>2. CASE k > 0
  <2>1. PICK first \in 1 .. k : TurnBegins(first, k) /\ Holds(first, k)
    BY <1>2 DEF SpokenUpTo
  <2>2. Len(spoken_so_far) = k - first + 1 /\ spoken_so_far # <<>> /\ spoken_so_far[1] = Word(first)
    BY <2>1 DEF Holds
  <2>3. CurrentJuror = caption_json[k].speaker
    BY <2>1, <2>2 DEF CurrentJuror, Word, TurnBegins
  <2>4. CurrentWords = [i \in 1 .. k - first + 1 |-> caption_json[first + i - 1].text]
    <3>1. ASSUME NEW i \in 1 .. k - first + 1
          PROVE  spoken_so_far[i].text = caption_json[first + i - 1].text
      <4>1. spoken_so_far[i] = Word(first + i - 1)
        BY <2>1, <3>1 DEF Holds
      <4>2. Word(first + i - 1).text = caption_json[first + i - 1].text
        BY DEF Word
      <4> QED BY <4>1, <4>2
    <3>2. CurrentWords = [i \in 1 .. k - first + 1 |-> spoken_so_far[i].text]
      BY <2>2 DEF CurrentWords
    <3> QED BY <3>1, <3>2
  <2> QED BY <1>2, <2>1, <2>3, <2>4 DEF Board!IsUtterance, TurnBegins
<1> QED BY <1>1, <1>2

(* Outside add_word the caption model holds exactly the current speaker's  *)
(* utterance (captions.cpp:32-39).                                         *)
THEOREM ModelHoldsUtterance == Spec => []SpokenIsUtterance
<1>1. TypeInv /\ SpokenInv => SpokenIsUtterance
  <2> SUFFICES ASSUME TypeInv, SpokenInv, captions_pc # "emplace_back"
               PROVE  Board!IsUtterance(next - 1, CurrentJuror, CurrentWords)
    BY DEF SpokenIsUtterance
  <2>1. next - 1 \in Nat
    BY TimeTypes
  <2> QED BY <2>1, SpokenUpToIsUtterance DEF SpokenInv
<1> QED BY SpokenInvariant, <1>1, PTL

(* Every look of VLC's thread at the caption model is atomic: the server   *)
(* implements UtteranceBoard (captions.cpp:32-51).                         *)
THEOREM LooksAreAtomic == Spec => BoardSpec
<1>1. Init => Board!Init
  BY CaptionFileAssumption
     DEF Init, CaptionsInit, FramesInit, NoOverlay, Board!Init
<1>2. TypeInv /\ SpokenInv /\ LockDiscipline /\ [Next]_vars
        => [Board!Next]_<<caption_json, next - 1, [juror |-> overlay.juror, words |-> overlay.words]>>
  <2> SUFFICES ASSUME TypeInv, SpokenInv, LockDiscipline, [Next]_vars
               PROVE  [Board!Next]_<<caption_json, next - 1,
                                     [juror |-> overlay.juror, words |-> overlay.words]>>
    OBVIOUS
  <2>1. CASE UNCHANGED <<caption_json, next, overlay.juror, overlay.words>>
    BY <2>1
  <2>2. CASE CaptionThread /\ EmplaceBack
    <3>1. /\ UNCHANGED <<caption_json, overlay>> /\ next' = next + 1
          /\ next \in Nat /\ next <= Len(caption_json)
      BY <2>2, TimeTypes DEF CaptionThread, EmplaceBack, othersOfCaptions, frameVars, TypeInv, InFlight
    <3>2. next - 1 < Len(caption_json) /\ next' - 1 = (next - 1) + 1
      BY <3>1, TimeTypes
    <3> QED BY <3>1, <3>2 DEF Board!Next, Board!Hear
  <2>3. CASE VlcThread /\ CopyText
    <3>1. /\ UNCHANGED <<caption_json, next>>
          /\ overlay' = [overlay EXCEPT !.juror = CurrentJuror, !.words = CurrentWords]
          /\ vlc_pc = "copy_text"
      BY <2>3 DEF VlcThread, CopyText, captionVars
    <3>2. overlay'.juror = CurrentJuror /\ overlay'.words = CurrentWords
      BY <3>1 DEF TypeInv, TypeOK, FramesTypeOK, Overlay
    <3>3. SpokenUpTo(next - 1) /\ next - 1 \in Nat
      BY <3>1, TimeTypes DEF LockDiscipline, SpokenInv
    <3>4. Board!IsUtterance(next - 1, overlay'.juror, overlay'.words)
      BY <3>2, <3>3, SpokenUpToIsUtterance
    <3> QED BY <3>1, <3>4 DEF Board!Next, Board!Look
  <2>4. \/ UNCHANGED <<caption_json, next, overlay.juror, overlay.words>>
        \/ CaptionThread /\ EmplaceBack
        \/ VlcThread /\ CopyText
    <3>1. CASE VlcThread
      <4>1. UNCHANGED <<caption_json, next>>
        BY <3>1 DEF VlcThread, captionVars
      <4>2. CASE Average
        <5>1. overlay' = [overlay EXCEPT !.samples = azimuth_buffer] /\ overlay \in Overlay
          BY <4>2 DEF Average, TypeInv, TypeOK, FramesTypeOK
        <5>2. overlay'.juror = overlay.juror /\ overlay'.words = overlay.words
          BY <5>1 DEF Overlay
        <5> QED BY <4>1, <5>2
      <4> QED BY <3>1, <4>1, <4>2 DEF VlcThread, VideoOutput, LockFrame, FilterAzimuth,
                GetCurrentText, Present, Display
    <3>2. CASE CaptionThread
      BY <3>2 DEF CaptionThread, CaptionStream, othersOfCaptions, frameVars, captionVars, NextCaption,
           UnknownSpeaker, StreamEnds, WakeUp, LockSocketToSend, Sendto, LockText, ClearOnNewSpeaker
    <3> QED BY <3>1, <3>2 DEF Next, Phone, OrientationThread, Clock, Tick, MainSteps, MainWaits,
             MainPlays, MainStartsCaptions, StartThread, othersOfOrientation, othersOfCaptions,
             othersOfMain, captionVars, frameVars, vars
  <2> QED BY <2>1, <2>2, <2>3, <2>4
<1> QED BY <1>1, <1>2, SpokenInvariant, LockDisciplineInit, LockDisciplineNext, PTL
        DEF Spec, BoardSpec, Board!Spec

-------------------------------------------------------------------------------
(* How old a caption may be. *)

(* Where VLC's thread has the text of this frame. *)
HasText ==
  \/ FirstInput = "lock_azimuth" /\ vlc_pc = "present"
  \/ FirstInput = "lock_text" /\ vlc_pc \in {"lock_azimuth", "average", "present"}

TextSinceLock ==
  \E k \in heard_at_lock .. next - 1 : Board!IsUtterance(k, overlay.juror, overlay.words)

FreshInv ==
  /\ heard_at_lock <= next - 1
  /\ HasText => TextSinceLock

(* A frame that VLC begins after a caption has been added shows that       *)
(* caption or a later one, however long the callbacks wait for the other   *)
(* threads, and never an utterance from before the frame                   *)
(* (main.cpp:57-82, captions.cpp:41-51).                                   *)
THEOREM CaptionsAreFresh == Spec => []FreshCaption
<1>1. Init => FreshInv
  BY DEF Init, FramesInit, CaptionsInit, FreshInv, HasText
<1>2. TypeInv /\ SpokenInv /\ LockDiscipline /\ FreshInv /\ [Next]_vars => FreshInv'
  <2> SUFFICES ASSUME TypeInv, SpokenInv, LockDiscipline, FreshInv, [Next]_vars
               PROVE  FreshInv'
    OBVIOUS
  <2>0. /\ next \in Nat /\ next >= 1 /\ heard_at_lock \in Nat /\ overlay \in Overlay
        /\ caption_json' = caption_json
    BY TimeTypes, FileStays DEF TypeInv, TypeOK, FramesTypeOK
  <2>1. ASSUME heard_at_lock .. next - 1 \subseteq heard_at_lock' .. next' - 1,
               overlay'.juror = overlay.juror, overlay'.words = overlay.words, TextSinceLock
        PROVE  TextSinceLock'
    <3>1. PICK k \in heard_at_lock .. next - 1 : Board!IsUtterance(k, overlay.juror, overlay.words)
      BY <2>1 DEF TextSinceLock
    <3>2. k \in heard_at_lock' .. next' - 1
      BY <2>1
    <3>3. Board!IsUtterance(k, overlay.juror, overlay.words)'
      BY <2>0, <2>1, <3>1 DEF Board!IsUtterance
    <3> QED BY <3>2, <3>3 DEF TextSinceLock
  <2>2. CASE VlcThread
    <3>0. UNCHANGED <<next, presentation_method>> /\ FirstInput' = FirstInput
      BY <2>2 DEF VlcThread, captionVars, FirstInput
    <3>1. heard_at_lock' <= next' - 1
      BY <2>0, <2>2, <3>0 DEF VlcThread, FreshInv
    <3>2. CASE LockFrame
      <4>1. ~ HasText'
        BY <3>0, <3>2 DEF LockFrame, HasText
      <4> QED BY <3>1, <4>1 DEF FreshInv
    <3>3. ASSUME vlc_pc \notin {"idle", "present"}, HasText' => HasText,
                 overlay'.juror = overlay.juror, overlay'.words = overlay.words
          PROVE  FreshInv'
      <4>1. heard_at_lock' = heard_at_lock
        BY <2>2, <3>3 DEF VlcThread
      <4>2. heard_at_lock .. next - 1 \subseteq heard_at_lock' .. next' - 1
        BY <3>0, <4>1
      <4>3. TextSinceLock => TextSinceLock'
        BY <2>1, <3>3, <4>2
      <4> QED BY <3>1, <3>3, <4>3 DEF FreshInv
    <3>4. CASE FilterAzimuth
      BY <3>0, <3>3, <3>4 DEF FilterAzimuth, HasText
    <3>5. CASE Average
      <4>1. overlay'.juror = overlay.juror /\ overlay'.words = overlay.words
        BY <2>0, <3>5 DEF Average, Overlay
      <4> QED BY <3>0, <3>3, <3>5, <4>1 DEF Average, HasText
    <3>6. CASE GetCurrentText
      BY <3>0, <3>3, <3>6 DEF GetCurrentText, HasText
    <3>7. CASE CopyText
      <4>1. /\ vlc_pc = "copy_text"
            /\ overlay' = [overlay EXCEPT !.juror = CurrentJuror, !.words = CurrentWords]
        BY <3>7 DEF CopyText
      <4>2. overlay'.juror = CurrentJuror /\ overlay'.words = CurrentWords
        BY <2>0, <4>1 DEF Overlay
      <4>3. SpokenUpTo(next - 1) /\ next - 1 \in Nat
        BY <2>0, <4>1 DEF LockDiscipline, SpokenInv
      <4>4. Board!IsUtterance(next - 1, overlay'.juror, overlay'.words)
        BY <4>2, <4>3, SpokenUpToIsUtterance
      <4>5. heard_at_lock' = heard_at_lock /\ heard_at_lock <= next - 1
        BY <2>2, <4>1 DEF VlcThread, FreshInv
      <4>6. next - 1 \in heard_at_lock' .. next' - 1
        BY <2>0, <3>0, <4>5
      <4>7. TextSinceLock'
        BY <2>0, <4>4, <4>6 DEF TextSinceLock, Board!IsUtterance
      <4> QED BY <3>1, <4>7 DEF FreshInv
    <3>8. CASE Present \/ Display
      <4>1. ~ HasText'
        BY <3>8 DEF Present, Display, HasText
      <4> QED BY <3>1, <4>1 DEF FreshInv
    <3> QED BY <2>2, <3>2, <3>4, <3>5, <3>6, <3>7, <3>8 DEF VlcThread, VideoOutput
  <2>3. CASE UNCHANGED <<frameVars, presentation_method, heard_at_lock>> /\ next' \in {next, next + 1}
    <3>0. /\ heard_at_lock' = heard_at_lock
          /\ next' = next \/ next' = next + 1
      BY <2>3
    <3>1. (HasText' => HasText) /\ UNCHANGED overlay
      BY <2>3 DEF frameVars, HasText, FirstInput
    <3>2. heard_at_lock .. next - 1 \subseteq heard_at_lock' .. next' - 1
      BY <2>0, <3>0
    <3>3. heard_at_lock <= next - 1
      BY DEF FreshInv
    <3>4. TextSinceLock => TextSinceLock'
      BY <2>1, <3>1, <3>2
    <3>5. heard_at_lock' <= next' - 1
      BY <2>0, <3>0, <3>3
    <3> QED BY <3>1, <3>4, <3>5 DEF FreshInv
  <2>4. VlcThread \/ (UNCHANGED <<frameVars, presentation_method, heard_at_lock>>
                       /\ next' \in {next, next + 1})
    <3>1. CaptionStream => next' \in {next, next + 1}
      BY DEF CaptionStream, NextCaption, UnknownSpeaker, StreamEnds, WakeUp, LockSocketToSend,
             Sendto, LockText, ClearOnNewSpeaker, EmplaceBack, captionVars
    <3> QED BY <3>1 DEF Next, Phone, OrientationThread, Clock, Tick, CaptionThread, MainSteps,
          MainWaits, MainPlays, MainStartsCaptions, StartThread, othersOfOrientation,
          othersOfCaptions, othersOfMain, captionVars, vars, sharedVars
  <2> QED BY <2>2, <2>3, <2>4
<1>3. FreshInv => FreshCaption
  <2>1. FirstInput \in {"lock_text", "lock_azimuth", "present"}
    BY DEF FirstInput
  <2> QED BY <2>1 DEF FreshInv, HasText, TextSinceLock, FreshCaption
<1> QED BY <1>1, <1>2, <1>3, SpokenInvariant, LockDisciplineInit, LockDisciplineNext, PTL DEF Spec

===============================================================================
