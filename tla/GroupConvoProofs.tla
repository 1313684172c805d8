--------------------------- MODULE GroupConvoProofs ---------------------------
(***************************************************************************)
(* Invariance proofs for the running server.                               *)
(***************************************************************************)
EXTENDS GroupConvo, SequenceTheorems, TLAPS

(* A thread holds a mutex exactly between its lock and its unlock. *)
LockDiscipline ==
  /\ socket_mutex = "orientation" <=> orientation_pc \in {"first_recvfrom", "recvfrom"}
  /\ socket_mutex = "captions" <=> captions_pc = "sendto"
  /\ azimuth_mutex = "orientation" <=> orientation_pc \in {"pop_front", "push_back"}
  /\ azimuth_mutex = "vlc" <=> vlc_pc = "average"
  /\ text_mutex = "captions" <=> captions_pc \in {"clear", "emplace_back"}
  /\ text_mutex = "vlc" <=> vlc_pc = "copy_text"
  /\ sdl_mutex = "vlc" <=> vlc_pc \notin {"idle", "display"}

LEMMA LockDisciplineInit == Init => LockDiscipline
  BY DEF Init, SharedInit, OrientationInit, CaptionsInit, FramesInit, LockDiscipline, Free

LEMMA LockDisciplineNext == LockDiscipline /\ [Next]_vars => LockDiscipline'
<1> SUFFICES ASSUME LockDiscipline, [Next]_vars PROVE LockDiscipline'
  OBVIOUS
<1> USE DEF LockDiscipline, Free
<1>1. CASE Phone
  BY <1>1 DEF Phone, PhoneSends, touchedByOrientation, othersOfOrientation, captionVars, frameVars
<1>2. CASE OrientationThread
  <2> USE <1>2 DEF OrientationThread, othersOfOrientation, captionVars, frameVars
  <2>1. CASE LockSocket BY <2>1 DEF LockSocket
  <2>2. CASE Recvfrom BY <2>2 DEF Recvfrom
  <2>3. CASE RecvfromFails BY <2>3 DEF RecvfromFails
  <2>4. CASE LockAzimuth BY <2>4 DEF LockAzimuth
  <2>5. CASE PopFront BY <2>5 DEF PopFront
  <2>6. CASE PushBack BY <2>6 DEF PushBack
  <2> QED BY <2>1, <2>2, <2>3, <2>4, <2>5, <2>6 DEF ReadOrientation
<1>3. CASE Clock
  BY <1>3 DEF Clock, Tick, touchedByCaptions, othersOfCaptions, orientationVars, frameVars
<1>4. CASE CaptionThread
  <2> USE <1>4 DEF CaptionThread, othersOfCaptions, orientationVars, frameVars,
                   captionVars, touchedByCaptions
  <2>1. CASE NextCaption BY <2>1 DEF NextCaption
  <2>2. CASE UnknownSpeaker BY <2>2 DEF UnknownSpeaker
  <2>3. CASE StreamEnds BY <2>3 DEF StreamEnds
  <2>4. CASE WakeUp BY <2>4 DEF WakeUp
  <2>5. CASE LockSocketToSend BY <2>5 DEF LockSocketToSend
  <2>6. CASE Sendto BY <2>6 DEF Sendto
  <2>7. CASE LockText BY <2>7 DEF LockText
  <2>8. CASE ClearOnNewSpeaker BY <2>8 DEF ClearOnNewSpeaker
  <2>9. CASE EmplaceBack BY <2>9 DEF EmplaceBack
  <2> QED BY <2>1, <2>2, <2>3, <2>4, <2>5, <2>6, <2>7, <2>8, <2>9 DEF CaptionStream
<1>5. CASE VlcThread
  <2> USE <1>5 DEF VlcThread, orientationVars, captionVars, touchedByFrames
  <2>1. CASE LockFrame BY <2>1 DEF LockFrame, FirstInput
  <2>2. CASE FilterAzimuth BY <2>2 DEF FilterAzimuth
  <2>3. CASE Average BY <2>3 DEF Average
  <2>4. CASE GetCurrentText BY <2>4 DEF GetCurrentText
  <2>5. CASE CopyText BY <2>5 DEF CopyText
  <2>6. CASE Present BY <2>6 DEF Present
  <2>7. CASE Display BY <2>7 DEF Display
  <2> QED BY <2>1, <2>2, <2>3, <2>4, <2>5, <2>6, <2>7 DEF VideoOutput
<1>6. CASE MainSteps
  BY <1>6 DEF MainSteps, MainWaits, MainPlays, MainStartsCaptions, StartThread, othersOfMain,
              orientationVars, captionVars, frameVars, touchedByCaptions
<1>7. CASE UNCHANGED vars
  BY <1>7 DEF vars, sharedVars, orientationVars, captionVars, frameVars
<1> QED BY <1>1, <1>2, <1>3, <1>4, <1>5, <1>6, <1>7 DEF Next

(* The window of azimuths, the client's address and the caption model are  *)
(* never touched by two threads at once (orientation.cpp:27-61,            *)
(* captions.cpp:32-51, 82-87).                                             *)
THEOREM RaceFreedom == Spec => []RaceFree
<1>1. LockDiscipline => RaceFree
  BY DEF LockDiscipline, RaceFree
<1> QED BY LockDisciplineInit, LockDisciplineNext, <1>1, PTL DEF Spec

-------------------------------------------------------------------------------
(* What a thread has established earlier and relies on between two steps.  *)
InFlight ==
  /\ orientation_pc \notin {"first_lock", "first_recvfrom", "returned"}
       => datagram \in Azimuth /\ cliaddr \in Address
  /\ orientation_pc = "push_back" => Len(azimuth_buffer) < MOVING_AVG_SIZE
  /\ captions_pc \notin {"not_started", "next_caption", "returned"}
       => next <= Len(caption_json) /\ caption_json[next].speaker \in Juror

TypeInv == TypeOK /\ InFlight

LEMMA CaptionType ==
  ASSUME NEW file \in CaptionFile, NEW k \in 1 .. Len(file)
  PROVE  /\ Len(file) \in Nat
         /\ file[k] \in Caption
         /\ file[k].speaker \in Speaker
         /\ file[k].text \in Text
         /\ file[k].delay \in Int
<1>1. file \in Seq(Caption)
  BY CaptionFileAssumption
<1>2. file[k] \in Caption /\ Len(file) \in Nat
  BY <1>1
<1> QED BY <1>2 DEF Caption

LEMMA CurrentTextType ==
  ASSUME spoken_so_far \in Seq(SpokenWord)
  PROVE  CurrentJuror \in Juror /\ CurrentWords \in Seq(Text)
<1>1. \A k \in 1 .. Len(spoken_so_far) :
        spoken_so_far[k].speaker \in Juror /\ spoken_so_far[k].text \in Text
  <2>1. ASSUME NEW k \in 1 .. Len(spoken_so_far) PROVE spoken_so_far[k] \in SpokenWord
    BY ElementOfSeq
  <2> QED BY <2>1 DEF SpokenWord
<1>2. spoken_so_far # <<>> => 1 \in 1 .. Len(spoken_so_far)
  BY EmptySeq
<1>3. CurrentJuror \in Juror
  BY <1>1, <1>2, JurorAssumption DEF CurrentJuror
<1>4. CurrentWords \in [1 .. Len(spoken_so_far) -> Text] /\ Len(spoken_so_far) \in Nat
  BY <1>1 DEF CurrentWords
<1> QED BY <1>3, <1>4, SeqDef

LEMMA TypeInit == Init => TypeInv
<1> SUFFICES ASSUME Init PROVE TypeInv
  OBVIOUS
<1> USE DEF Init
<1>1. SharedTypeOK
  <2>1. /\ process \in {"running", "aborted"}
        /\ socket_mutex \in {Free, "orientation", "captions"}
        /\ azimuth_mutex \in {Free, "orientation", "vlc"}
        /\ text_mutex \in {Free, "captions", "vlc"}
        /\ sdl_mutex \in {Free, "vlc"}
    BY DEF SharedInit
  <2>2. azimuth_buffer \in Seq(Azimuth) /\ spoken_so_far \in Seq(SpokenWord)
    BY DEF SharedInit
  <2>3. Len(azimuth_buffer) <= MOVING_AVG_SIZE
    BY WindowAssumption DEF SharedInit
  <2>4. /\ cliaddr \in Address \cup {NoAddress}
        /\ presentation_method \in PresentationMethod
        /\ playing \in BOOLEAN
    BY MethodAssumption DEF SharedInit
  <2> QED BY <2>1, <2>2, <2>3, <2>4, Zenon DEF SharedTypeOK
<1>2. OrientationTypeOK
  BY InboxAssumption DEF OrientationInit, OrientationTypeOK
<1>3. CaptionsTypeOK
  <2>1. Len(caption_json) \in Nat /\ caption_json \in CaptionFile
    BY CaptionFileAssumption DEF CaptionsInit
  <2> QED BY <2>1 DEF CaptionsInit, CaptionsTypeOK
<1>4. FramesTypeOK
  BY VideoFramesAssumption, JurorAssumption
     DEF FramesInit, FramesTypeOK, NoFrame, NoOverlay, Overlay
<1>5. MainTypeOK
  BY DEF MainInit, MainTypeOK
<1>6. InFlight
  BY DEF InFlight, OrientationInit, CaptionsInit
<1> QED BY <1>1, <1>2, <1>3, <1>4, <1>5, <1>6 DEF TypeInv, TypeOK

(* The caption file is never changed. *)
LEMMA FileStays == [Next]_vars => caption_json' = caption_json
<1>1. CaptionStream => caption_json' = caption_json
  BY DEF CaptionStream, NextCaption, UnknownSpeaker, StreamEnds, WakeUp, LockSocketToSend, Sendto,
         LockText, ClearOnNewSpeaker, EmplaceBack, captionVars
<1> QED BY <1>1 DEF Next, Phone, OrientationThread, Clock, Tick, CaptionThread, VlcThread,
        MainSteps, MainWaits, MainPlays, MainStartsCaptions, StartThread, othersOfOrientation,
        captionVars, vars

LEMMA HeardAtLockType ==
  TypeInv /\ [Next]_vars => heard_at_lock' \in 0 .. Len(caption_json')
<1> SUFFICES ASSUME TypeInv, [Next]_vars PROVE heard_at_lock' \in 0 .. Len(caption_json)
  BY FileStays
<1>1. /\ Len(caption_json) \in Nat /\ next \in 1 .. Len(caption_json) + 1
      /\ heard_at_lock \in 0 .. Len(caption_json)
  BY CaptionFileAssumption DEF TypeInv, TypeOK, CaptionsTypeOK
<1>2. heard_at_lock' \in {heard_at_lock, next - 1, 0}
  BY DEF Next, Phone, OrientationThread, Clock, CaptionThread, VlcThread, MainSteps, MainWaits,
         MainPlays, MainStartsCaptions, othersOfOrientation, othersOfCaptions, othersOfMain, vars
<1> QED BY <1>1, <1>2

LEMMA TypeNext == TypeInv /\ [Next]_vars => TypeInv'
<1> SUFFICES ASSUME TypeInv, [Next]_vars PROVE TypeInv'
  OBVIOUS
<1>0. (heard_at_lock \in 0 .. Len(caption_json))'
  BY HeardAtLockType
<1> USE DEF TypeInv, TypeOK
<1>1. CASE Phone
  <2> USE <1>1 DEF Phone, PhoneSends, othersOfOrientation, touchedByOrientation
  <2>1. OrientationTypeOK'
    <3>1. PICK from \in Address, azimuth \in Azimuth :
            /\ Len(inbox) < InboxCapacity
            /\ inbox' = Append(inbox, [from |-> from, azimuth |-> azimuth])
            /\ UNCHANGED <<orientation_pc, datagram>>
      OBVIOUS
    <3>2. [from |-> from, azimuth |-> azimuth] \in Datagram
      BY DEF Datagram
    <3>3. inbox' \in Seq(Datagram) /\ Len(inbox') <= InboxCapacity
      BY <3>1, <3>2, InboxAssumption DEF OrientationTypeOK
    <3> QED BY <3>1, <3>3 DEF OrientationTypeOK
  <2>2. SharedTypeOK' /\ CaptionsTypeOK' /\ FramesTypeOK' /\ MainTypeOK' /\ InFlight'
    BY DEF SharedTypeOK, CaptionsTypeOK, FramesTypeOK, MainTypeOK, InFlight, captionVars,
           frameVars, mainVars
  <2> QED BY <1>0, <2>1, <2>2
<1>2. CASE OrientationThread
  <2> USE <1>2 DEF OrientationThread, othersOfOrientation
  <2>1. CaptionsTypeOK' /\ FramesTypeOK' /\ MainTypeOK'
    BY DEF CaptionsTypeOK, FramesTypeOK, MainTypeOK, captionVars, frameVars, mainVars
  <2>2. SharedTypeOK' /\ OrientationTypeOK' /\ InFlight'
    <3> USE DEF SharedTypeOK, OrientationTypeOK, InFlight, captionVars
    <3>1. CASE LockSocket BY <3>1 DEF LockSocket
    <3>2. CASE Recvfrom
      <4>1. Head(inbox) \in Datagram /\ Tail(inbox) \in Seq(Datagram)
            /\ Len(Tail(inbox)) <= InboxCapacity
        BY <3>2, InboxAssumption DEF Recvfrom
      <4>2. Head(inbox).azimuth \in Azimuth /\ Head(inbox).from \in Address
        BY <4>1 DEF Datagram
      <4> QED BY <3>2, <4>1, <4>2 DEF Recvfrom
    <3>3. CASE RecvfromFails BY <3>3 DEF RecvfromFails, Free
    <3>4. CASE LockAzimuth BY <3>4 DEF LockAzimuth
    <3>5. CASE PopFront BY <3>5, WindowAssumption DEF PopFront
    <3>6. CASE PushBack BY <3>6, WindowAssumption DEF PushBack, Free
    <3> QED BY <3>1, <3>2, <3>3, <3>4, <3>5, <3>6 DEF ReadOrientation
  <2> QED BY <1>0, <2>1, <2>2
<1>3. CASE Clock
  BY <1>3 DEF Clock, Tick, touchedByCaptions, othersOfCaptions, orientationVars, frameVars, mainVars,
     SharedTypeOK, OrientationTypeOK, CaptionsTypeOK, FramesTypeOK, MainTypeOK, InFlight
<1>4. CASE CaptionThread
  <2> USE <1>4 DEF CaptionThread, othersOfCaptions
  <2>1. OrientationTypeOK' /\ FramesTypeOK' /\ MainTypeOK'
    BY DEF OrientationTypeOK, FramesTypeOK, MainTypeOK, orientationVars, frameVars, mainVars
  <2>2. SharedTypeOK' /\ CaptionsTypeOK' /\ InFlight'
    <3> USE DEF SharedTypeOK, CaptionsTypeOK, InFlight, orientationVars, captionVars, touchedByCaptions
    <3>0. Len(caption_json) \in Nat
      BY CaptionFileAssumption
    <3>1. CASE NextCaption
      <4>1. Delay(next) \in Int
        <5>1. \A k \in 1 .. Len(caption_json) : caption_json[k].delay \in Int
          BY CaptionType DEF TypeInv, TypeOK
        <5>2. next \in Nat /\ 1 <= next /\ next <= Len(caption_json)
          BY <3>1 DEF NextCaption, TypeInv, TypeOK
        <5>3. CASE next = 1
          <6>1. caption_json[1].delay \in Int
            BY <5>1, <5>2, <5>3, <3>0
          <6> QED BY <5>3, <6>1 DEF Delay
        <5>4. CASE next # 1
          <6>1. next \in 1 .. Len(caption_json) /\ next - 1 \in 1 .. Len(caption_json)
            BY <3>0, <5>2, <5>4
          <6>2. caption_json[next].delay \in Int /\ caption_json[next - 1].delay \in Int
            BY <5>1, <6>1
          <6> QED BY <5>4, <6>2 DEF Delay
        <5> QED BY <5>3, <5>4
      <4> QED BY <3>0, <3>1, <4>1 DEF NextCaption
    <3>2. CASE UnknownSpeaker BY <3>2 DEF UnknownSpeaker
    <3>3. CASE StreamEnds BY <3>3 DEF StreamEnds
    <3>4. CASE WakeUp BY <3>4 DEF WakeUp
    <3>5. CASE LockSocketToSend BY <3>5 DEF LockSocketToSend
    <3>6. CASE Sendto
      <4>1. [caption |-> next, to |-> cliaddr]
              \in [caption : 1 .. Len(caption_json), to : Address \cup {NoAddress}]
        BY <3>0, <3>6 DEF Sendto
      <4> DEFINE Sent == [caption : 1 .. Len(caption_json), to : Address \cup {NoAddress}]
      <4>2. outbox' \in Seq(Sent)
        <5>1. outbox \in Seq(Sent) /\ [caption |-> next, to |-> cliaddr] \in Sent
          BY <4>1
        <5>2. outbox' = Append(outbox, [caption |-> next, to |-> cliaddr]) \/ outbox' = outbox
          BY <3>6 DEF Sendto
        <5> HIDE DEF Sent
        <5>3. Append(outbox, [caption |-> next, to |-> cliaddr]) \in Seq(Sent)
          BY <5>1, AppendProperties
        <5> QED BY <5>1, <5>2, <5>3, Zenon
      <4> QED BY <3>6, <4>2 DEF Sendto
    <3>7. CASE LockText BY <3>7 DEF LockText
    <3>8. CASE ClearOnNewSpeaker BY <3>8 DEF ClearOnNewSpeaker
    <3>9. CASE EmplaceBack
      <4>1. [speaker |-> caption_json[next].speaker, text |-> caption_json[next].text] \in SpokenWord
        BY <3>9, CaptionType DEF EmplaceBack, SpokenWord
      <4> QED BY <3>0, <3>9, <4>1 DEF EmplaceBack, Free
    <3> QED BY <3>1, <3>2, <3>3, <3>4, <3>5, <3>6, <3>7, <3>8, <3>9 DEF CaptionStream
  <2> QED BY <1>0, <2>1, <2>2
<1>5. CASE VlcThread
  <2> USE <1>5 DEF VlcThread
  <2>1. OrientationTypeOK' /\ CaptionsTypeOK' /\ MainTypeOK' /\ InFlight'
    BY DEF OrientationTypeOK, CaptionsTypeOK, MainTypeOK, InFlight, orientationVars, captionVars,
           mainVars
  <2>2. SharedTypeOK' /\ FramesTypeOK'
    <3> USE DEF SharedTypeOK, FramesTypeOK, touchedByFrames
    <3>1. CASE LockFrame BY <3>1, VideoFramesAssumption DEF LockFrame, FirstInput
    <3>2. CASE FilterAzimuth BY <3>2 DEF FilterAzimuth
    <3>3. CASE Average BY <3>3 DEF Average, Overlay, Free
    <3>4. CASE GetCurrentText BY <3>4 DEF GetCurrentText
    <3>5. CASE CopyText
      <4>1. CurrentJuror \in Juror /\ CurrentWords \in Seq(Text)
        BY CurrentTextType
      <4> QED BY <3>5, <4>1 DEF CopyText, Overlay, Free
    <3>6. CASE Present
      <4>1. overlay.words \in Seq(Text) /\ <<>> \in Seq(Text)
        BY DEF Overlay
      <4>2. PICK words \in {overlay.words, <<>>} : screen' = [video |-> target, words |-> words]
        BY <3>6 DEF Present, FirstInput
      <4> QED BY <3>6, <4>1, <4>2 DEF Present, Free
    <3>7. CASE Display BY <3>7 DEF Display
    <3> QED BY <3>1, <3>2, <3>3, <3>4, <3>5, <3>6, <3>7 DEF VideoOutput
  <2> QED BY <1>0, <2>1, <2>2
<1>6. CASE MainSteps
  <2> USE DEF othersOfMain, orientationVars, captionVars, frameVars, SharedTypeOK,
       OrientationTypeOK, CaptionsTypeOK, FramesTypeOK, MainTypeOK, InFlight
  <2>1. CASE MainWaits BY <2>1 DEF MainWaits, Wait, touchedByMain
  <2>2. CASE MainPlays BY <2>2 DEF MainPlays, PlayVideo
  <2>3. CASE MainStartsCaptions
    BY <2>3 DEF MainStartsCaptions, StartCaptions, StartThread, touchedByCaptions, touchedByMain
  <2> QED BY <1>6, <2>1, <2>2, <2>3 DEF MainSteps
<1>7. CASE UNCHANGED vars
  BY <1>7 DEF vars, sharedVars, orientationVars, captionVars, frameVars, mainVars,
     SharedTypeOK, OrientationTypeOK, CaptionsTypeOK, FramesTypeOK, MainTypeOK, InFlight
<1> QED BY <1>1, <1>2, <1>3, <1>4, <1>5, <1>6, <1>7 DEF Next

LEMMA TypeInvariant == Spec => []TypeInv
  BY TypeInit, TypeNext, PTL DEF Spec

(* Every variable keeps its type; in particular the window never outgrows  *)
(* MOVING_AVG_SIZE and no speaker but a juror enters the caption model     *)
(* (orientation.cpp:34-38, captions.cpp:55-70).                            *)
THEOREM TypeCorrectness == Spec => []TypeOK
  BY TypeInvariant, PTL DEF TypeInv

(* However the readings, the captions and the frames interleave, no thread *)
(* that holds a mutex somebody waits for is waiting itself: the mutexes    *)
(* cannot deadlock (main.cpp:48-86, orientation.cpp:27-61,                 *)
(* captions.cpp:32-51, 82-87).                                             *)
THEOREM NobodyWaitsForAWaiter == Spec => []HoldersDoNotWait
<1>1. TypeInv /\ LockDiscipline => HoldersDoNotWait
  <2> SUFFICES ASSUME TypeInv, LockDiscipline PROVE HoldersDoNotWait
    OBVIOUS
  <2>1. WaitedFor("orientation") =
          IF orientation_pc \in {"first_lock", "lock_socket"} THEN socket_mutex
          ELSE IF orientation_pc = "lock_azimuth" THEN azimuth_mutex ELSE Free
    BY DEF WaitedFor
  <2>2. WaitedFor("captions") =
          IF captions_pc = "lock_socket" THEN socket_mutex
          ELSE IF captions_pc = "lock_text" THEN text_mutex ELSE Free
    BY DEF WaitedFor
  <2>3. WaitedFor("vlc") =
          IF vlc_pc = "idle" THEN sdl_mutex
          ELSE IF vlc_pc = "lock_azimuth" THEN azimuth_mutex
          ELSE IF vlc_pc = "lock_text" THEN text_mutex ELSE Free
    BY DEF WaitedFor
  <2>4. ASSUME NEW thread, thread \notin {"orientation", "captions", "vlc"}
        PROVE  WaitedFor(thread) = Free
    BY <2>4 DEF WaitedFor
  <2>5. WaitedFor(socket_mutex) = Free
    <3>1. socket_mutex \in {Free, "orientation", "captions"}
      BY DEF TypeInv, TypeOK, SharedTypeOK
    <3> QED BY <2>1, <2>2, <2>4, <3>1 DEF LockDiscipline, Free
  <2>6. WaitedFor(azimuth_mutex) = Free
    <3>1. azimuth_mutex \in {Free, "orientation", "vlc"}
      BY DEF TypeInv, TypeOK, SharedTypeOK
    <3> QED BY <2>1, <2>3, <2>4, <3>1 DEF LockDiscipline, Free
  <2>7. WaitedFor(text_mutex) = Free
    <3>1. text_mutex \in {Free, "captions", "vlc"}
      BY DEF TypeInv, TypeOK, SharedTypeOK
    <3> QED BY <2>2, <2>3, <2>4, <3>1 DEF LockDiscipline, Free
  <2>8. vlc_pc = "idle" => sdl_mutex = Free
    BY DEF TypeInv, TypeOK, SharedTypeOK, LockDiscipline
  <2>9. WaitedFor(Free) = Free
    BY <2>4 DEF Free
  <2>10. \A thread \in {"orientation", "captions", "vlc"} :
           WaitedFor(thread) \in {Free, socket_mutex, azimuth_mutex, text_mutex}
    BY <2>1, <2>2, <2>3, <2>8
  <2> QED BY <2>5, <2>6, <2>7, <2>9, <2>10 DEF HoldersDoNotWait
<1> QED BY TypeInvariant, LockDisciplineInit, LockDisciplineNext, <1>1, PTL DEF Spec

-------------------------------------------------------------------------------
(* The order in which main starts things, and what the wait guarantees.    *)
WindowIsFull ==
  Len(azimuth_buffer) = IF orientation_pc = "push_back" THEN MOVING_AVG_SIZE - 1
                                                        ELSE MOVING_AVG_SIZE

StartOrder ==
  /\ orientation_pc \in {"first_lock", "first_recvfrom", "returned"} => azimuth_buffer = <<>>
  /\ playing => main_pc \in {"start_captions", "events"}
  /\ captions_pc # "not_started" => main_pc = "events"
  /\ wait_loop # "elided" /\ main_pc \in {"play", "start_captions", "events"} => WindowIsFull

LEMMA StartOrderInit == Init => StartOrder
  BY DEF Init, SharedInit, OrientationInit, CaptionsInit, MainInit, StartOrder

LEMMA StartOrderNext == TypeInv /\ StartOrder /\ [Next]_vars => StartOrder'
<1> SUFFICES ASSUME TypeInv, StartOrder, [Next]_vars PROVE StartOrder'
  OBVIOUS
<1>0. /\ azimuth_buffer \in Seq(Azimuth) /\ Len(azimuth_buffer) \in Nat
      /\ Len(azimuth_buffer) <= MOVING_AVG_SIZE /\ MOVING_AVG_SIZE \in Nat \ {0}
      /\ wait_loop \in WaitOutcomes
  BY WindowAssumption DEF TypeInv, TypeOK, SharedTypeOK, MainTypeOK
<1> USE DEF StartOrder, WindowIsFull
<1>1. CASE Phone
  BY <1>1 DEF Phone, PhoneSends, touchedByOrientation, othersOfOrientation, captionVars, mainVars
<1>2. CASE OrientationThread
  <2> USE <1>0, <1>2 DEF OrientationThread, othersOfOrientation, captionVars, mainVars
  <2>1. CASE LockSocket BY <2>1 DEF LockSocket
  <2>2. CASE Recvfrom BY <2>2 DEF Recvfrom
  <2>3. CASE RecvfromFails BY <2>3 DEF RecvfromFails
  <2>4. CASE LockAzimuth BY <2>4 DEF LockAzimuth
  <2>5. CASE PopFront
    <3>1. azimuth_buffer # <<>> => Len(Tail(azimuth_buffer)) = Len(azimuth_buffer) - 1
      BY HeadTailProperties
    <3> QED BY <2>5, <3>1, EmptySeq DEF PopFront
  <2>6. CASE PushBack
    <3>1. /\ datagram \in Azimuth
          /\ azimuth_buffer' = Append(azimuth_buffer, datagram)
          /\ orientation_pc = "push_back" /\ orientation_pc' = "lock_socket"
      BY <2>6 DEF PushBack, TypeInv, InFlight
    <3>2. Len(azimuth_buffer') = Len(azimuth_buffer) + 1
      BY <3>1, AppendProperties
    <3> QED BY <3>1, <3>2
  <2> QED BY <2>1, <2>2, <2>3, <2>4, <2>5, <2>6 DEF ReadOrientation
<1>3. CASE Clock
  BY <1>3 DEF Clock, Tick, touchedByCaptions, othersOfCaptions, orientationVars, mainVars
<1>4. CASE CaptionThread
  <2>1. UNCHANGED <<orientation_pc, azimuth_buffer, playing, main_pc, wait_loop>>
    BY <1>4 DEF CaptionThread, othersOfCaptions, orientationVars, mainVars
  <2>2. captions_pc # "not_started"
    BY <1>4 DEF CaptionThread, CaptionStream, NextCaption, UnknownSpeaker, StreamEnds, WakeUp,
                LockSocketToSend, Sendto, LockText, ClearOnNewSpeaker, EmplaceBack
  <2> QED BY <2>1, <2>2
<1>5. CASE VlcThread
  BY <1>5 DEF VlcThread, orientationVars, captionVars, mainVars
<1>6. CASE MainSteps
  <2> USE DEF othersOfMain, orientationVars, captionVars
  <2>1. CASE MainWaits
    <3>1. /\ UNCHANGED <<orientation_pc, azimuth_buffer, playing, captions_pc, wait_loop>>
          /\ main_pc = "wait"
          /\ \/ WindowFull
             \/ wait_loop = "elided"
             \/ main_pc' = "hung"
      BY <2>1 DEF MainWaits, Wait, touchedByMain
    <3>2. orientation_pc = "push_back" => Len(azimuth_buffer) < MOVING_AVG_SIZE
      BY DEF TypeInv, InFlight
    <3> QED BY <1>0, <3>1, <3>2 DEF WindowFull
  <2>2. CASE MainPlays BY <2>2 DEF MainPlays, PlayVideo
  <2>3. CASE MainStartsCaptions
    BY <2>3 DEF MainStartsCaptions, StartCaptions, touchedByMain
  <2> QED BY <1>6, <2>1, <2>2, <2>3 DEF MainSteps
<1>7. CASE UNCHANGED vars
  BY <1>7 DEF vars, sharedVars, orientationVars, captionVars, mainVars
<1> QED BY <1>1, <1>2, <1>3, <1>4, <1>5, <1>6, <1>7 DEF Next

LEMMA StartOrderInvariant == Spec => [](TypeInv /\ StartOrder)
  BY TypeInit, TypeNext, StartOrderInit, StartOrderNext, PTL DEF Spec

(* Unless the wait is compiled away, VLC's thread only ever averages a     *)
(* full window (main.cpp:285, orientation.cpp:32-38).                      *)
THEOREM WindowStaysFull == Spec => []FullWindow
<1>1. StartOrder /\ LockDiscipline => FullWindow
  BY DEF StartOrder, LockDiscipline, FullWindow, WindowIsFull
<1> QED BY StartOrderInvariant, LockDisciplineInit, LockDisciplineNext, <1>1, PTL DEF Spec

(* Where VLC's thread has the readings of this frame. *)
HasSamples ==
  \/ FirstInput = "lock_azimuth" /\ vlc_pc \in {"lock_text", "copy_text", "present"}
  \/ FirstInput = "lock_text" /\ vlc_pc = "present" /\ overlay.words # <<>>

PlacedInv ==
  /\ vlc_pc # "idle" => playing
  /\ wait_loop # "elided" /\ HasSamples => Len(overlay.samples) = MOVING_AVG_SIZE

(* Unless the wait is compiled away, no caption is placed by the mean of a *)
(* window that is still filling up or in the middle of a replacement, for  *)
(* any size of window and each presentation method                         *)
(* (orientation.cpp:50-76, presentation_methods.cpp:42-99).                *)
THEOREM PlacedByFullWindowHolds == Spec => []PlacedByFullWindow
<1>1. Init => PlacedInv
  BY DEF Init, FramesInit, PlacedInv, HasSamples
<1>2. TypeInv /\ StartOrder /\ LockDiscipline /\ PlacedInv /\ [Next]_vars => PlacedInv'
  <2> SUFFICES ASSUME TypeInv, StartOrder, LockDiscipline, PlacedInv, [Next]_vars
               PROVE  PlacedInv'
    OBVIOUS
  <2>0. overlay \in Overlay
    BY DEF TypeInv, TypeOK, FramesTypeOK
  <2>1. CASE VlcThread
    <3>0. UNCHANGED <<playing, wait_loop, presentation_method>> /\ FirstInput' = FirstInput
      BY <2>1 DEF VlcThread, mainVars, FirstInput
    <3> USE DEF PlacedInv, HasSamples
    <3>1. CASE LockFrame
      <4>1. playing' /\ vlc_pc' = FirstInput
        BY <3>0, <3>1 DEF LockFrame
      <4> QED BY <3>0, <4>1
    <3>2. CASE FilterAzimuth BY <3>0, <3>2 DEF FilterAzimuth
    <3>3. CASE Average
      <4>1. vlc_pc = "average" /\ overlay' = [overlay EXCEPT !.samples = azimuth_buffer]
        BY <3>3 DEF Average
      <4>2. overlay'.samples = azimuth_buffer
        BY <2>0, <4>1 DEF Overlay
      <4>3. wait_loop # "elided" => Len(azimuth_buffer) = MOVING_AVG_SIZE
        BY <4>1 DEF StartOrder, LockDiscipline, WindowIsFull
      <4> QED BY <3>0, <4>1, <4>2, <4>3
    <3>4. CASE GetCurrentText BY <3>0, <3>4 DEF GetCurrentText
    <3>5. CASE CopyText
      <4>1. /\ vlc_pc = "copy_text"
            /\ overlay' = [overlay EXCEPT !.juror = CurrentJuror, !.words = CurrentWords]
            /\ vlc_pc' = IF FirstInput = "lock_text" /\ CurrentWords # <<>>
                           THEN "lock_azimuth" ELSE "present"
        BY <3>5 DEF CopyText
      <4>2. overlay'.samples = overlay.samples /\ overlay'.words = CurrentWords
        BY <2>0, <4>1 DEF Overlay
      <4> QED BY <3>0, <4>1, <4>2
    <3>6. CASE Present BY <3>0, <3>6 DEF Present
    <3>7. CASE Display BY <3>0, <3>7 DEF Display
    <3> QED BY <2>1, <3>1, <3>2, <3>3, <3>4, <3>5, <3>6, <3>7 DEF VlcThread, VideoOutput
  <2>2. CASE UNCHANGED <<frameVars, wait_loop, presentation_method>> /\ (playing => playing')
    BY <2>2 DEF frameVars, PlacedInv, HasSamples, FirstInput
  <2> QED BY <2>1, <2>2 DEF Next, Phone, OrientationThread, Clock, CaptionThread, MainSteps,
        MainWaits, Wait, touchedByMain, MainPlays, PlayVideo, MainStartsCaptions, StartCaptions,
        othersOfOrientation, othersOfCaptions, othersOfMain, mainVars, vars, sharedVars
<1>3. PlacedInv => PlacedByFullWindow
  BY DEF PlacedInv, HasSamples, PlacedByFullWindow, Placed
<1> QED BY StartOrderInvariant, LockDisciplineInit, LockDisciplineNext, <1>1, <1>2, <1>3, PTL
        DEF Spec

(* Unless the wait is compiled away, every caption goes to an address that *)
(* a datagram has come from (captions.cpp:82-87, orientation.cpp:28-30).   *)
THEOREM CaptionsGoToPhone == Spec => []SentToPhone
<1>1. Init => SentToPhone
  BY DEF Init, CaptionsInit, SentToPhone
<1>2. TypeInv /\ StartOrder /\ SentToPhone /\ [Next]_vars => SentToPhone'
  <2> SUFFICES ASSUME TypeInv, StartOrder, SentToPhone, [Next]_vars, wait_loop' # "elided",
                      NEW m \in 1 .. Len(outbox')
               PROVE  outbox'[m].to \in Address
    BY DEF SentToPhone
  <2>1. wait_loop # "elided"
    BY DEF Next, Phone, OrientationThread, Clock, CaptionThread, VlcThread, MainSteps, MainWaits,
           MainPlays, MainStartsCaptions, othersOfOrientation, othersOfCaptions, Wait, PlayVideo,
           StartCaptions, mainVars, vars
  <2>2. CASE outbox' = outbox
    BY <2>1, <2>2 DEF SentToPhone
  <2>3. CASE outbox' # outbox
    <3>1. captions_pc = "sendto" /\ outbox' = Append(outbox, [caption |-> next, to |-> cliaddr])
      BY <2>3 DEF Next, Phone, OrientationThread, Clock, CaptionThread, VlcThread, MainSteps,
           MainWaits, MainPlays, MainStartsCaptions, StartThread, othersOfOrientation, captionVars,
           vars, Tick, CaptionStream, NextCaption, UnknownSpeaker, StreamEnds, WakeUp,
           LockSocketToSend, Sendto, LockText, ClearOnNewSpeaker, EmplaceBack
    <3>2. WindowIsFull
      BY <2>1, <3>1 DEF StartOrder
    <3>3. orientation_pc \notin {"first_lock", "first_recvfrom", "returned"}
      BY <3>2, WindowAssumption DEF StartOrder, WindowIsFull
    <3>4. cliaddr \in Address
      BY <3>3 DEF TypeInv, InFlight
    <3> DEFINE Sent == [caption : 1 .. Len(caption_json), to : Address \cup {NoAddress}]
    <3>5. outbox \in Seq(Sent)
      BY DEF TypeInv, TypeOK, CaptionsTypeOK
    <3>6. [caption |-> next, to |-> cliaddr] \in Sent
      BY <3>1, <3>4 DEF TypeInv, TypeOK, CaptionsTypeOK, InFlight
    <3>7. /\ Len(outbox') = Len(outbox) + 1
          /\ \A i \in 1 .. Len(outbox) : outbox'[i] = outbox[i]
          /\ outbox'[Len(outbox) + 1] = [caption |-> next, to |-> cliaddr]
      <4> HIDE DEF Sent
      <4> QED BY <3>1, <3>5, <3>6, AppendProperties
    <3>8. Len(outbox) \in Nat
      BY <3>5
    <3>9. CASE m = Len(outbox) + 1
      BY <3>4, <3>7, <3>9
    <3>10. CASE m \in 1 .. Len(outbox)
      BY <2>1, <3>7, <3>10 DEF SentToPhone
    <3> QED BY <3>7, <3>8, <3>9, <3>10
  <2> QED BY <2>2, <2>3
<1> QED BY StartOrderInvariant, <1>1, <1>2, PTL DEF Spec

-------------------------------------------------------------------------------
(* When caption k is due, and what the caption thread knows about the time *)
(* while it handles a caption.                                             *)
Due(k) == played_at + caption_json[k].delay

Timely ==
  /\ played_at <= now
  /\ captions_pc = "not_started" => next = 1 /\ outbox = <<>>
  /\ \A k \in 1 .. next - 1 : now >= Due(k)
  /\ captions_pc = "sleeping" => wake >= Due(next)
  /\ captions_pc \in {"lock_socket", "sendto", "lock_text", "clear", "emplace_back"}
       => now >= Due(next)
  /\ \A m \in 1 .. Len(outbox) : now >= Due(outbox[m].caption)

LEMMA TimelyInit == Init => Timely
  BY DEF Init, CaptionsInit, MainInit, Timely

(* The types that the arithmetic below needs. *)
LEMMA TimeTypes ==
  ASSUME TypeInv
  PROVE  /\ now \in Nat /\ wake \in Int /\ played_at \in Nat /\ next \in Nat /\ next >= 1
         /\ Len(caption_json) \in Nat /\ next <= Len(caption_json) + 1
         /\ \A k \in 1 .. Len(caption_json) :
              caption_json[k].delay \in Int /\ Due(k) \in Int
         /\ Len(outbox) \in Nat
         /\ \A m \in 1 .. Len(outbox) : outbox[m].caption \in 1 .. Len(caption_json)
<1> DEFINE Sent == [caption : 1 .. Len(caption_json), to : Address \cup {NoAddress}]
<1>1. caption_json \in CaptionFile /\ now \in Nat /\ wake \in Int /\ played_at \in Nat
      /\ next \in 1 .. Len(caption_json) + 1 /\ outbox \in Seq(Sent)
  BY DEF TypeInv, TypeOK, CaptionsTypeOK, MainTypeOK
<1>2. Len(caption_json) \in Nat
  BY <1>1, CaptionFileAssumption
<1>3. \A k \in 1 .. Len(caption_json) : caption_json[k].delay \in Int
  BY <1>1, CaptionType
<1>4. \A m \in 1 .. Len(outbox) : outbox[m] \in Sent
  <2> HIDE DEF Sent
  <2> QED BY <1>1, ElementOfSeq
<1>5. Len(outbox) \in Nat
  BY <1>1
<1> QED BY <1>1, <1>2, <1>3, <1>4, <1>5 DEF Due

LEMMA TimelyNext == TypeInv /\ StartOrder /\ Timely /\ [Next]_vars => Timely'
<1> SUFFICES ASSUME TypeInv, StartOrder, Timely, [Next]_vars PROVE Timely'
  OBVIOUS
<1>0. /\ now \in Nat /\ wake \in Int /\ played_at \in Nat /\ next \in Nat /\ next >= 1
      /\ Len(caption_json) \in Nat /\ next <= Len(caption_json) + 1
      /\ \A k \in 1 .. Len(caption_json) : caption_json[k].delay \in Int /\ Due(k) \in Int
      /\ Len(outbox) \in Nat
      /\ \A m \in 1 .. Len(outbox) : outbox[m].caption \in 1 .. Len(caption_json)
  BY TimeTypes
<1>1. CASE Phone
  BY <1>1 DEF Phone, othersOfOrientation, captionVars, mainVars, Timely, Due
<1>2. CASE OrientationThread
  BY <1>2 DEF OrientationThread, othersOfOrientation, captionVars, mainVars, Timely, Due
<1>3. CASE Clock
  <2>1. /\ now' = now + 1
        /\ UNCHANGED <<captions_pc, caption_json, next, wake, outbox, played_at>>
    BY <1>3 DEF Clock, Tick, othersOfCaptions, mainVars
  <2>2. ASSUME NEW d \in Int, now >= d PROVE now' >= d
    BY <1>0, <2>1, <2>2
  <2>3. ASSUME NEW k \in 1 .. next' - 1
        PROVE  now' >= Due(k)
    <3>1. k \in 1 .. next - 1 /\ k \in 1 .. Len(caption_json)
      BY <1>0, <2>1
    <3>2. Due(k) \in Int /\ now >= Due(k)
      BY <1>0, <3>1 DEF Timely
    <3> QED BY <2>2, <3>2
  <2>4. ASSUME NEW m \in 1 .. Len(outbox')
        PROVE  now' >= Due(outbox[m].caption)
    <3>1. m \in 1 .. Len(outbox)
      BY <2>1
    <3>2. Due(outbox[m].caption) \in Int /\ now >= Due(outbox[m].caption)
      BY <1>0, <3>1 DEF Timely
    <3> QED BY <2>2, <3>2
  <2>5. captions_pc' \in {"lock_socket", "sendto", "lock_text", "clear", "emplace_back"}
          => now' >= Due(next)
    <3>1. captions_pc \in {"lock_socket", "sendto", "lock_text", "clear", "emplace_back"}
            => next \in 1 .. Len(caption_json)
      BY <1>0 DEF TypeInv, InFlight
    <3> QED BY <1>0, <2>1, <2>2, <3>1 DEF Timely
  <2> QED BY <1>0, <2>1, <2>3, <2>4, <2>5 DEF Timely, Due
<1>4. CASE CaptionThread
  <2>0. UNCHANGED <<played_at, caption_json, now>>
    BY <1>4 DEF CaptionThread, othersOfCaptions, mainVars, CaptionStream, NextCaption,
                UnknownSpeaker, StreamEnds, WakeUp, LockSocketToSend, Sendto, LockText,
                ClearOnNewSpeaker, EmplaceBack, captionVars
  <2> USE <1>0, <2>0 DEF Timely, Due
  <2>1. CASE NextCaption
    <3>1. wake' = now + Delay(next) /\ next \in 1 .. Len(caption_json)
      BY <2>1 DEF NextCaption
    <3>2. wake' >= Due(next)
      <4>1. CASE next = 1
        BY <3>1, <4>1 DEF Delay
      <4>2. CASE next > 1
        <5>1. now >= Due(next - 1) /\ next - 1 \in 1 .. Len(caption_json)
          BY <4>2
        <5>2. wake' = now + (caption_json[next].delay - caption_json[next - 1].delay)
          BY <3>1, <4>2 DEF Delay
        <5>3. caption_json[next].delay \in Int /\ caption_json[next - 1].delay \in Int
          BY <3>1, <5>1
        <5> QED BY <5>1, <5>2, <5>3
      <4> QED BY <4>1, <4>2
    <3> QED BY <2>1, <3>2 DEF NextCaption
  <2>2. CASE UnknownSpeaker BY <2>2 DEF UnknownSpeaker, captionVars
  <2>3. CASE StreamEnds BY <2>3 DEF StreamEnds
  <2>4. CASE WakeUp
    <3>1. Due(next) \in Int
      BY <2>4 DEF WakeUp, TypeInv, InFlight
    <3> QED BY <2>4, <3>1 DEF WakeUp
  <2>5. CASE LockSocketToSend BY <2>5 DEF LockSocketToSend
  <2>6. CASE Sendto
    <3>1. now >= Due(next) /\ UNCHANGED next
          /\ captions_pc = "sendto" /\ captions_pc' = "lock_text"
      BY <2>6 DEF Sendto
    <3>2. CASE outbox' = outbox
      BY <3>1, <3>2
    <3>3. CASE outbox' = Append(outbox, [caption |-> next, to |-> cliaddr])
      <4>1. \A m \in 1 .. Len(outbox') :
              \/ outbox'[m] = outbox[m] /\ m \in 1 .. Len(outbox)
              \/ outbox'[m].caption = next
        BY <3>3, TypeInv DEF TypeInv, TypeOK, CaptionsTypeOK
      <4> QED BY <3>1, <4>1
    <3> QED BY <2>6, <3>2, <3>3 DEF Sendto
  <2>7. CASE LockText BY <2>7 DEF LockText
  <2>8. CASE ClearOnNewSpeaker BY <2>8 DEF ClearOnNewSpeaker
  <2>9. CASE EmplaceBack BY <2>9 DEF EmplaceBack
  <2> QED BY <1>4, <2>1, <2>2, <2>3, <2>4, <2>5, <2>6, <2>7, <2>8, <2>9
          DEF CaptionThread, CaptionStream
<1>5. CASE VlcThread
  BY <1>5 DEF VlcThread, captionVars, mainVars, Timely, Due
<1>6. CASE MainSteps
  <2>1. CASE MainWaits
    BY <2>1 DEF MainWaits, Wait, captionVars, Timely, Due
  <2>2. CASE MainPlays
    <3>1. UNCHANGED captionVars /\ played_at' = now /\ captions_pc = "not_started"
      BY <2>2 DEF MainPlays, PlayVideo, StartOrder
    <3>2. next = 1 /\ outbox = <<>>
      BY <3>1 DEF Timely
    <3> QED BY <1>0, <3>1, <3>2 DEF captionVars, Timely, Due
  <2>3. CASE MainStartsCaptions
    BY <2>3 DEF MainStartsCaptions, StartCaptions, StartThread, Timely, Due
  <2> QED BY <1>6, <2>1, <2>2, <2>3 DEF MainSteps
<1>7. CASE UNCHANGED vars
  BY <1>7 DEF vars, captionVars, mainVars, Timely, Due
<1> QED BY <1>1, <1>2, <1>3, <1>4, <1>5, <1>6, <1>7 DEF Next

(* No caption is sent or shown before its time in the video, whatever the  *)
(* delays in the file and however the threads are scheduled                *)
(* (captions.cpp:94-110).                                                  *)
THEOREM CaptionsNeverEarly == Spec => []NeverEarly
<1>1. TypeInv /\ Timely => NeverEarly
  <2> SUFFICES ASSUME TypeInv, Timely PROVE NeverEarly
    OBVIOUS
  <2>1. next \in Nat /\ (\A k \in 1 .. next - 1 : now >= Due(k))
    BY TimeTypes DEF Timely
  <2>2. \A k \in 1 .. Heard : now >= Due(k)
    BY <2>1 DEF Heard, Timely
  <2> QED BY <2>2 DEF NeverEarly, Timely, Due
<1> QED BY StartOrderInvariant, TimelyInit, TimelyNext, <1>1, PTL DEF Spec

-------------------------------------------------------------------------------
(* The order in which captions are sent. *)

(* The outbox changes only in sendto, by the caption the loop is at, and   *)
(* only then does the caption model get ahead of it.                       *)
LEMMA OutboxSteps ==
  ASSUME TypeInv, [Next]_vars
  PROVE  \/ outbox' = outbox /\ Heard' = Heard
         \/ /\ outbox' \in {outbox, Append(outbox, [caption |-> next, to |-> cliaddr])}
            /\ Heard = next - 1 /\ Heard' = next
<1>0. next \in Nat
  BY TimeTypes
<1>1. CASE Phone \/ OrientationThread \/ VlcThread \/ MainWaits \/ MainPlays \/ UNCHANGED vars
  BY <1>1 DEF Phone, OrientationThread, VlcThread, MainWaits, MainPlays, othersOfOrientation,
              captionVars, vars, Heard
<1>2. CASE Clock \/ MainStartsCaptions
  BY <1>2 DEF Clock, Tick, MainStartsCaptions, StartThread, Heard
<1>3. CASE CaptionThread
  <2>1. CASE Sendto
    BY <2>1 DEF Sendto, Heard
  <2>2. CASE EmplaceBack
    BY <1>0, <2>2 DEF EmplaceBack, Heard
  <2>3. CASE NextCaption \/ UnknownSpeaker \/ StreamEnds \/ WakeUp \/ LockSocketToSend
    BY <2>3 DEF NextCaption, UnknownSpeaker, StreamEnds, WakeUp, LockSocketToSend, captionVars,
                Heard
  <2>4. CASE LockText \/ ClearOnNewSpeaker
    BY <2>4 DEF LockText, ClearOnNewSpeaker, Heard
  <2> QED BY <1>3, <2>1, <2>2, <2>3, <2>4 DEF CaptionThread, CaptionStream
<1> QED BY <1>1, <1>2, <1>3 DEF Next, MainSteps

(* What the phone has been sent is a subsequence of the file, and none of  *)
(* it is kept from the screen (captions.cpp:83-86 and 108-109).            *)
THEOREM CaptionsSentInOrder == Spec => []SentInOrder
<1>1. Init => SentInOrder
  BY DEF Init, CaptionsInit, SentInOrder
<1>2. TypeInv /\ SentInOrder /\ [Next]_vars => SentInOrder'
  <2> SUFFICES ASSUME TypeInv, SentInOrder, [Next]_vars PROVE SentInOrder'
    OBVIOUS
  <2> DEFINE Sent == [caption : 1 .. Len(caption_json), to : Address \cup {NoAddress}]
             message == [caption |-> next, to |-> cliaddr]
  <2>1. next \in Nat /\ Len(outbox) \in Nat
        /\ \A m \in 1 .. Len(outbox) : outbox[m].caption \in Nat
    BY TimeTypes
  <2>2. CASE outbox' = outbox /\ Heard' = Heard
    BY <2>2 DEF SentInOrder
  <2>3. CASE outbox' = outbox /\ Heard = next - 1 /\ Heard' = next
    BY <2>1, <2>3 DEF SentInOrder
  <2>4. CASE outbox' = Append(outbox, message) /\ Heard = next - 1 /\ Heard' = next
    <3>1. outbox \in Seq(Sent)
      BY DEF TypeInv, TypeOK, CaptionsTypeOK
    <3>2. /\ Len(outbox') = Len(outbox) + 1
          /\ \A m \in 1 .. Len(outbox) : outbox'[m] = outbox[m]
          /\ outbox'[Len(outbox) + 1] = message
      BY <2>4, <3>1 DEF Sent
    <3>3. outbox'[Len(outbox) + 1].caption = next
      BY <3>2
    <3>4. \A m \in 1 .. Len(outbox) : outbox'[m].caption < next
      BY <2>1, <2>4, <3>2 DEF SentInOrder
    <3> HIDE DEF Sent, message
    <3>5. ASSUME NEW m \in 1 .. Len(outbox'), NEW n \in 1 .. Len(outbox'), m < n
          PROVE  outbox'[m].caption < outbox'[n].caption
      <4>1. m \in 1 .. Len(outbox)
        BY <2>1, <3>2, <3>5
      <4>2. CASE n = Len(outbox) + 1
        BY <3>3, <3>4, <4>1, <4>2
      <4>3. CASE n \in 1 .. Len(outbox)
        BY <3>2, <3>5, <4>1, <4>3 DEF SentInOrder
      <4> QED BY <2>1, <3>2, <4>2, <4>3
    <3>6. ASSUME NEW m \in 1 .. Len(outbox') PROVE outbox'[m].caption <= Heard'
      BY <2>1, <2>4, <3>2, <3>3, <3>4
    <3> QED BY <3>5, <3>6 DEF SentInOrder
  <2> QED BY <2>2, <2>3, <2>4, OutboxSteps
<1> QED BY TypeInvariant, <1>1, <1>2, PTL DEF Spec

-------------------------------------------------------------------------------
(* A speaker that is not one of the jury. *)

(* What the caption thread has handled, or is handling, is a juror's; only *)
(* a stranger's caption makes it end the process.                          *)
OnlyJurorsHeard ==
  /\ \A k \in 1 .. next - 1 : caption_json[k].speaker \in Juror
  /\ process = "aborted" => captions_pc = "next_caption" /\ caption_json[next].speaker \notin Juror

LEMMA OnlyJurorsHeardInvariant == Spec => []OnlyJurorsHeard
<1>1. Init => OnlyJurorsHeard
  BY DEF Init, SharedInit, CaptionsInit, OnlyJurorsHeard
<1>2. TypeInv /\ OnlyJurorsHeard /\ [Next]_vars => OnlyJurorsHeard'
  <2> SUFFICES ASSUME TypeInv, OnlyJurorsHeard, [Next]_vars PROVE OnlyJurorsHeard'
    OBVIOUS
  <2>0. next \in Nat
    BY TimeTypes
  <2>1. CASE CaptionThread
    <3> USE <2>1 DEF CaptionThread, Running, OnlyJurorsHeard, captionVars
    <3>0. caption_json' = caption_json
      BY FileStays
    <3>1. CASE UnknownSpeaker
      BY <3>1 DEF UnknownSpeaker
    <3>2. CASE EmplaceBack
      <4>1. caption_json[next].speaker \in Juror /\ next' = next + 1 /\ process' = process
        BY <3>2 DEF EmplaceBack, TypeInv, InFlight, touchedByCaptions
      <4> QED BY <2>0, <3>0, <4>1
    <3>3. CASE NextCaption \/ StreamEnds \/ WakeUp \/ LockSocketToSend \/ Sendto \/ LockText
               \/ ClearOnNewSpeaker
      <4>1. next' = next /\ process' = process
        BY <3>3 DEF NextCaption, StreamEnds, WakeUp, LockSocketToSend, Sendto, LockText,
          ClearOnNewSpeaker, touchedByCaptions
      <4> QED BY <3>0, <4>1
    <3> QED BY <3>1, <3>2, <3>3 DEF CaptionStream
  <2>2. CASE UNCHANGED vars
    BY <2>2 DEF vars, sharedVars, captionVars, OnlyJurorsHeard
  <2>3. CASE ~ CaptionThread /\ Next
    <3>1. Running /\ process' = process /\ UNCHANGED <<caption_json, next>>
      BY <2>3 DEF Next, Phone, OrientationThread, Clock, Tick, VlcThread, MainSteps, MainWaits,
        MainPlays, MainStartsCaptions, StartThread, othersOfOrientation, othersOfMain,
        touchedByCaptions, captionVars
    <3> QED BY <3>1 DEF OnlyJurorsHeard, Running
  <2> QED BY <2>1, <2>2, <2>3
<1> QED BY TypeInvariant, <1>1, <1>2, PTL DEF Spec

(* Whatever the caption file says, the process ends at the first caption   *)
(* of a stranger and between two captions: nothing of it or after it has   *)
(* been sent or shown, and the thread that ends it holds no mutex          *)
(* (captions.cpp:55-69 and 102-109).                                       *)
THEOREM StrangersEndTheStream == Spec => []StrangerEndsStream
<1>1. TypeInv /\ LockDiscipline /\ SentInOrder /\ OnlyJurorsHeard => StrangerEndsStream
  <2> SUFFICES ASSUME TypeInv, LockDiscipline, SentInOrder, OnlyJurorsHeard
               PROVE  StrangerEndsStream
    OBVIOUS
  <2>0. next \in Nat /\ \A m \in 1 .. Len(outbox) : outbox[m].caption \in 1 .. Len(caption_json)
    BY TimeTypes
  <2>1. \A k \in 1 .. Heard : caption_json[k].speaker \in Juror
    BY <2>0 DEF OnlyJurorsHeard, Heard, TypeInv, InFlight
  <2>2. \A m \in 1 .. Len(outbox) : outbox[m].caption \in 1 .. Heard
    BY <2>0 DEF SentInOrder, Heard
  <2>3. process = "aborted" => "captions" \notin {socket_mutex, text_mutex} /\ Heard = next - 1
    BY DEF OnlyJurorsHeard, LockDiscipline, Heard
  <2> QED BY <2>1, <2>2, <2>3 DEF StrangerEndsStream, OnlyJurorsHeard
<1>2. Spec => []LockDiscipline
  BY LockDisciplineInit, LockDisciplineNext, PTL DEF Spec
<1> QED BY TypeInvariant, CaptionsSentInOrder, OnlyJurorsHeardInvariant, <1>1, <1>2, PTL

-------------------------------------------------------------------------------
(* The frames of the video. *)

(* Which frame is where between two callbacks. *)
FramesInStep ==
  CASE vlc_pc = "idle" -> texture = video_frame /\ target = video_frame
    [] vlc_pc = "display" -> texture = video_frame /\ target = video_frame - 1
    [] OTHER -> target = video_frame - 1

LEMMA FramesInStepInvariant == Spec => []FramesInStep
<1>1. Init => FramesInStep
  BY DEF Init, FramesInit, FramesInStep
<1>2. TypeInv /\ FramesInStep /\ [Next]_vars => FramesInStep'
  <2> SUFFICES ASSUME TypeInv, FramesInStep, [Next]_vars PROVE FramesInStep'
    OBVIOUS
  <2>0. video_frame \in Nat
    BY VideoFramesAssumption DEF TypeInv, TypeOK, FramesTypeOK
  <2>1. CASE VlcThread
    <3> USE DEF FramesInStep
    <3>1. CASE LockFrame BY <2>0, <3>1 DEF LockFrame, FirstInput
    <3>2. CASE FilterAzimuth BY <3>2 DEF FilterAzimuth
    <3>3. CASE Average BY <3>3 DEF Average
    <3>4. CASE GetCurrentText BY <3>4 DEF GetCurrentText
    <3>5. CASE CopyText BY <3>5 DEF CopyText
    <3>6. CASE Present BY <3>6 DEF Present
    <3>7. CASE Display BY <3>7 DEF Display
    <3> QED BY <2>1, <3>1, <3>2, <3>3, <3>4, <3>5, <3>6, <3>7 DEF VlcThread, VideoOutput
  <2>2. CASE UNCHANGED frameVars
    BY <2>2 DEF frameVars, FramesInStep
  <2> QED BY <2>1, <2>2 DEF Next, Phone, OrientationThread, Clock, CaptionThread, MainSteps,
        MainWaits, MainPlays, MainStartsCaptions, othersOfOrientation, othersOfCaptions,
        othersOfMain, vars
<1> QED BY TypeInvariant, <1>1, <1>2, PTL DEF Spec

(* Every frame that VLC hands to the callbacks is followed on the screen   *)
(* by exactly one frame of lag: the captions of frame n are presented over *)
(* frame n - 1, for every n (main.cpp:83-85 and 94-105).                   *)
THEOREM LagIsOneFrame == Spec => PresentsPreviousFrame
<1>1. FramesInStep /\ [Next]_vars
        => (vlc_pc = "present" /\ vlc_pc' # "present" => screen'.video = video_frame - 1)
  <2> SUFFICES ASSUME FramesInStep, [Next]_vars, vlc_pc = "present", vlc_pc' # "present"
               PROVE  screen'.video = video_frame - 1
    OBVIOUS
  <2>1. Present
    BY DEF Next, Phone, OrientationThread, Clock, CaptionThread, MainSteps, MainWaits, MainPlays,
      MainStartsCaptions, othersOfOrientation, othersOfCaptions, othersOfMain, vars, frameVars,
      VlcThread, VideoOutput, LockFrame, FilterAzimuth, Average, GetCurrentText, CopyText, Display
  <2>2. screen'.video = target
    BY <2>1 DEF Present
  <2> QED BY <2>2 DEF FramesInStep
<1> QED BY FramesInStepInvariant, <1>1, PTL DEF Spec, PresentsPreviousFrame

===============================================================================
