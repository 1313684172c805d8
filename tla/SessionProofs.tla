---------------------------- MODULE SessionProofs ----------------------------
(***************************************************************************)
(* What Session's runs show for two window sizes holds for all: the race   *)
(* for the layout heals within a frame, and no thread outlives a local.    *)
(***************************************************************************)
EXTENDS Session, SequenceTheorems, TLAPS

-------------------------------------------------------------------------------
(* Type correctness. *)

LEMMA SizesAreNumbers ==
  /\ StartSize \in [Field -> Nat]
  /\ \A size \in WindowSize : size \in [Field -> Nat]
  /\ \A size \in WindowSize : size.w \in Nat /\ size.h \in Nat
BY SizeAssumption DEF Field

LEMMA ThreeQuartersIsNumber == \A h \in Nat : ThreeQuarters(h) \in Nat
BY DEF ThreeQuarters

(* The assignments of a resize are assignments. *)
LEMMA ResizeAssigns == \A size \in WindowSize : Resize(size) \subseteq Assignment
BY SizesAreNumbers, ThreeQuartersIsNumber DEF Resize, Assignment

(* A word on the queue: taking and adding events leaves a queue of events. *)
LEMMA QueueOfEvents ==
  ASSUME queue \in Seq(Event)
  PROVE  /\ \A e \in Event : Append(queue, e) \in Seq(Event)
         /\ queue # <<>> => Head(queue) \in Event /\ Tail(queue) \in Seq(Event)
OBVIOUS

LEMMA ScopeOfLocals ==
  /\ Scope \in Seq(Thread \cup Local)
  /\ Scope # <<>>
  /\ Head(Scope) = "play_captions_thread"
<1>1. \A i \in 1 .. 9 : Scope[i] \in Thread \cup Local
  BY DEF Scope, Thread, Local
<1>2. Len(Scope) = 9
  BY DEF Scope
<1>3. Scope = [i \in 1 .. 9 |-> Scope[i]]
  BY DEF Scope
<1>4. Scope \in Seq(Thread \cup Local)
  BY <1>1, <1>3, SeqDef
<1> QED
  BY <1>2, <1>4 DEF Scope

(* Every variable has its type in every state of the session: in           *)
(* particular display never stores what it has not loaded                  *)
(* (main.cpp:98-105).                                                      *)
THEOREM TypeCorrectness == Spec => []TypeOK
<1>1. Init => TypeOK
  <2> SUFFICES ASSUME Init PROVE TypeOK
    OBVIOUS
  <2>1. LayoutTypeOK
    BY SizeAssumption, SizesAreNumbers, ThreeQuartersIsNumber, MethodAssumption
    DEF Init, LayoutInit, LayoutTypeOK, Field
  <2>2. EventTypeOK
    <3>1. queue \in Seq(Event)
      BY EmptySeq DEF Init, EventInit
    <3>2. scope \in Seq(Thread \cup Local)
      BY ScopeOfLocals DEF Init, EventInit
    <3>3. os_size \in WindowSize
      BY SizeAssumption DEF Init, EventInit
    <3> QED
      BY <3>1, <3>2, <3>3 DEF Init, EventInit, EventTypeOK
  <2>3. LayoutFramesTypeOK
    BY DEF Init, LayoutFramesInit, LayoutFramesTypeOK, NothingDrawn, Drawn, NoSize, Field
  <2> QED
    BY <2>1, <2>2, <2>3 DEF Init, TypeOK
<1>2. TypeOK /\ [Next]_vars => TypeOK'
  <2> SUFFICES ASSUME TypeOK, [Next]_vars PROVE TypeOK'
    OBVIOUS
  <2> USE DEF TypeOK
  <2>1. CASE User
    <3>1. EventTypeOK'
      <4>1. ASSUME NEW key \in Key, PressKey(key) PROVE EventTypeOK'
        BY <4>1, QueueOfEvents, EventBoundsAssumption DEF PressKey, Post, EventTypeOK, Event
      <4>2. CASE CloseWindow
        BY <4>2, QueueOfEvents DEF CloseWindow, Post, EventTypeOK, Event
      <4>3. CASE ResizeWindow
        BY <4>3, QueueOfEvents DEF ResizeWindow, Post, EventTypeOK, Event
      <4> QED
        BY <2>1, <4>1, <4>2, <4>3 DEF User
    <3>2. LayoutTypeOK' /\ LayoutFramesTypeOK'
      BY <2>1 DEF User, LayoutTypeOK, LayoutFramesTypeOK, layoutVars, layoutFrameVars
    <3> QED
      BY <3>1, <3>2, <2>1 DEF User
  <2>2. CASE MainEndsBatch
    BY <2>2 DEF MainEndsBatch, BatchEnds, othersOfMain, LayoutTypeOK, EventTypeOK,
      LayoutFramesTypeOK, layoutVars, layoutFrameVars
  <2>3. CASE MainHandles
    <3>1. LayoutFramesTypeOK'
      BY <2>3 DEF MainHandles, othersOfMain, LayoutFramesTypeOK, layoutFrameVars
    <3>2. torn' \in Nat
      BY <2>3 DEF MainHandles, NoteWrite
    <3>3. LayoutTypeOK' /\ EventTypeOK'
      <4>1. CASE PollQuit
        BY <2>3, <4>1, QueueOfEvents DEF MainHandles, othersOfMain, PollQuit, PollEvent,
          LayoutTypeOK, EventTypeOK, layoutVars
      <4>2. CASE PollKey
        <5>1. Head(queue) \in Event /\ Head(queue).type = "SDL_KEYDOWN"
          BY <4>2, QueueOfEvents DEF PollKey, PollEvent, EventTypeOK
        <5>2. Head(queue).sym \in Key
          BY <5>1 DEF Event
        <5> QED
          BY <2>3, <4>2, <5>2, QueueOfEvents DEF MainHandles, othersOfMain, PollKey,
            PollEvent, LayoutTypeOK, EventTypeOK, layoutVars
      <4>3. CASE PollResized
        <5>1. Head(queue) \in Event /\ Head(queue).type = "SDL_WINDOWEVENT_RESIZED"
          BY <4>3, QueueOfEvents DEF PollResized, PollEvent, EventTypeOK
        <5>2. Head(queue).data \in WindowSize
          BY <5>1 DEF Event
        <5>3. to_store' \subseteq Assignment
          BY <4>3, <5>2, ResizeAssigns DEF PollResized
        <5> QED
          BY <2>3, <4>3, <5>3, QueueOfEvents DEF MainHandles, othersOfMain, PollResized,
            PollEvent, LayoutTypeOK, EventTypeOK, layoutVars
      <4>4. CASE StoreLayout
        <5>1. PICK a \in to_store :
                 /\ to_store' = to_store \ {a}
                 /\ window' = CASE a.to = "window_w" -> [window EXCEPT !.w = a.value]
                                [] a.to = "window_h" -> [window EXCEPT !.h = a.value]
                                [] OTHER -> window
                 /\ display_rect' = CASE a.to = "rect_w" -> [display_rect EXCEPT !.w = a.value]
                                      [] a.to = "rect_h" -> [display_rect EXCEPT !.h = a.value]
                                      [] OTHER -> display_rect
                 /\ y' = IF a.to = "y" THEN a.value ELSE y
          BY <4>4 DEF StoreLayout
        <5>2. a.value \in Nat
          BY <5>1 DEF EventTypeOK, Assignment
        <5>3. window' \in [Field -> Nat]
          BY <5>1, <5>2 DEF LayoutTypeOK, Field
        <5>4. display_rect' \in [Field -> Nat]
          BY <5>1, <5>2 DEF LayoutTypeOK, Field
        <5>5. y' \in Int
          BY <5>1, <5>2 DEF LayoutTypeOK
        <5>6. EventTypeOK'
          BY <4>4, <5>1 DEF StoreLayout, EventTypeOK
        <5> QED
          BY <2>3, <5>3, <5>4, <5>5, <5>6 DEF MainHandles, othersOfMain, LayoutTypeOK
      <4>5. CASE Act
        BY <2>3, <4>5 DEF MainHandles, othersOfMain, Act, LayoutTypeOK, EventTypeOK
      <4> QED
        BY <2>3, <4>1, <4>2, <4>3, <4>4, <4>5 DEF MainHandles, HandleEvents
    <3> QED
      BY <3>1, <3>2, <3>3
  <2>4. CASE MainTearsDown
    <3>1. EventTypeOK' /\ alive' \subseteq alive
      BY <2>4 DEF MainTearsDown, TearDown, CloseFont, DestroyMutex, DestroyRenderer,
        DestroyWindow, QuitLibraries, Goto, EventTypeOK
    <3> QED
      BY <2>4, <3>1 DEF MainTearsDown, othersOfMain, LayoutTypeOK, LayoutFramesTypeOK,
        layoutVars, layoutFrameVars
  <2>5. CASE MainReturns
    <3>1. scope # <<>> => Tail(scope) \in Seq(Thread \cup Local)
      BY DEF EventTypeOK
    <3>2. scope' \in Seq(Thread \cup Local)
      BY <2>5, <3>1 DEF MainReturns, DestroyLocal, EventTypeOK
    <3>3. EventTypeOK'
      BY <2>5, <3>2 DEF MainReturns, DestroyLocal, Goto, EventTypeOK
    <3>4. alive' \subseteq alive /\ process' \in {"running", "aborted", "crashed"}
      BY <2>5 DEF MainReturns, DestroyLocal, LayoutTypeOK
    <3> QED
      BY <2>5, <3>3, <3>4 DEF MainReturns, othersOfMain, LayoutTypeOK, LayoutFramesTypeOK,
        layoutVars, layoutFrameVars
  <2>6. CASE VlcDraws
    <3>1. LayoutTypeOK' /\ EventTypeOK'
      BY <2>6 DEF VlcDraws, othersOfVlc, eventVars, LayoutTypeOK, EventTypeOK
    <3>2. drawn' \in Drawn /\ UNCHANGED <<loaded, stored>>
      <4>1. CASE ReadRect
        BY <4>1 DEF ReadRect, LayoutFramesTypeOK, LayoutTypeOK, Drawn
      <4>2. CASE DrawFov \/ DrawLine
        BY <4>2 DEF DrawFov, DrawLine, LayoutFramesTypeOK, LayoutTypeOK, Drawn, Field
      <4>3. CASE RenderText \/ RenderArrow
        BY <4>3 DEF RenderText, RenderArrow, LayoutFramesTypeOK, LayoutTypeOK, Drawn
      <4>4. CASE NoCaption \/ RegisteredCaption
        BY <4>4 DEF NoCaption, RegisteredCaption, LayoutFramesTypeOK
      <4> QED
        BY <2>6, <4>1, <4>2, <4>3, <4>4 DEF VlcDraws, DrawCaptions
    <3>3. LayoutFramesTypeOK'
      BY <2>6, <3>2 DEF VlcDraws, DrawCaptions, NoCaption, RegisteredCaption, ReadRect,
        DrawFov, DrawLine, RenderText, RenderArrow, LayoutFramesTypeOK
    <3> QED
      BY <2>6, <3>1, <3>3 DEF VlcDraws
  <2>7. CASE VlcSizes
    <3>1. EventTypeOK'
      BY <2>7 DEF VlcSizes, othersOfVlc, eventVars, EventTypeOK
    <3>2. LayoutTypeOK' /\ LayoutFramesTypeOK'
      <4>1. CASE LoadSize
        BY <2>7, <4>1 DEF VlcSizes, othersOfVlc, LoadSize, LayoutTypeOK, LayoutFramesTypeOK
      <4>2. CASE StoreSize
        <5>1. PICK f \in Field \ stored :
                 /\ loaded[f] # NotRead
                 /\ display_rect' = [display_rect EXCEPT ![f] = loaded[f]]
                 /\ Stored(f)
          BY <4>2 DEF StoreSize
        <5>2. loaded[f] \in Nat
          BY <5>1 DEF LayoutFramesTypeOK
        <5>3. display_rect' \in [Field -> Nat]
          BY <5>1, <5>2 DEF LayoutTypeOK
        <5>4. NoSize \in [Field -> Nat \cup {NotRead}]
          BY DEF NoSize, Field
        <5>5. LayoutFramesTypeOK'
          BY <4>2, <5>1, <5>4 DEF StoreSize, Stored, LayoutFramesTypeOK
        <5> QED
          BY <2>7, <5>3, <5>5 DEF VlcSizes, othersOfVlc, LayoutTypeOK
      <4> QED
        BY <2>7, <4>1, <4>2 DEF VlcSizes
    <3> QED
      BY <2>7, <3>1, <3>2 DEF VlcSizes
  <2>8. CASE VlcLocks \/ VlcPresents \/ VlcCopies \/ VlcEnds
    <3>1. LayoutTypeOK' /\ EventTypeOK'
      BY <2>8 DEF VlcLocks, VlcPresents, VlcCopies, VlcEnds, othersOfVlc, eventVars,
        LayoutTypeOK, EventTypeOK
    <3>2. NoSize \in [Field -> Nat \cup {NotRead}] /\ NothingDrawn \in Drawn
      BY DEF NoSize, NothingDrawn, Drawn, Field
    <3>3. LayoutFramesTypeOK'
      <4>1. CASE VlcCopies
        <5>1. drawn' \in Drawn /\ vlc_pc' \in {"copy", "idle"} /\ UNCHANGED <<loaded, stored>>
          BY <4>1 DEF VlcCopies, CopyTexture, LayoutFramesTypeOK, LayoutTypeOK, Drawn
        <5> QED BY <5>1 DEF LayoutFramesTypeOK
      <4> QED
        BY <2>8, <3>2, <4>1 DEF VlcLocks, LockTexture, VlcPresents, PresentAndUnlock, VlcEnds,
          VideoEnds, LayoutFramesTypeOK
    <3>4. torn' \in Nat
      BY <2>8 DEF VlcLocks, VlcPresents, VlcCopies, VlcEnds
    <3> QED
      BY <3>1, <3>3, <3>4
  <2>9. CASE VlcCrashes
    BY <2>9 DEF VlcCrashes, layoutVars, eventVars, layoutFrameVars,
      LayoutTypeOK, EventTypeOK, LayoutFramesTypeOK
  <2>10. CASE UNCHANGED vars
    BY <2>10 DEF vars, layoutVars, eventVars, layoutFrameVars,
      LayoutTypeOK, EventTypeOK, LayoutFramesTypeOK
  <2> QED
    BY <2>1, <2>2, <2>3, <2>4, <2>5, <2>6, <2>7, <2>8, <2>9, <2>10
    DEF Next, MainThread, VideoThread
<1> QED
  BY <1>1, <1>2, PTL DEF Spec
-------------------------------------------------------------------------------
(* The layout.                                                             *)

Displaying == vlc_pc \in {"display", "copy"}

(* Nothing of a display is left when it is over. *)
DisplayEnds == vlc_pc # "display" => loaded = NoSize /\ stored = {}

(* Nothing of a frame is left when the next one begins. *)
FrameBegins ==
  /\ vlc_pc = "display" => drawn.video = NoSize
  /\ Displaying =>
       /\ drawn.rect = NoSize
       /\ {drawn.fov_height, drawn.line_height, drawn.text_y, drawn.arrow_y} = {NotRead}

(* The display that follows a torn frame starts from nothing and repairs   *)
(* the rectangle; from then on every read of the layout gives what main    *)
(* has.                                                                    *)
TearHeals ==
  torn # 0 =>
    /\ torn = 1
    /\ \A f \in Field : loaded[f] \in {NotRead, window[f]}
    /\ \A f \in stored : display_rect[f] = window[f]
    /\ vlc_pc # "display" => display_rect = window
    /\ \A f \in Field : drawn.video[f] \in {NotRead, window[f]}
    /\ ~Displaying => FitsWindow

LayoutInv == DisplayEnds /\ FrameBegins /\ TearHeals

LEMMA LayoutInvInit == Init => LayoutInv
  BY DEF Init, LayoutFramesInit, LayoutInv, DisplayEnds, FrameBegins, TearHeals, Displaying,
    NoSize, Field

LEMMA LayoutInvNext == TypeOK /\ LayoutInv /\ [Next]_vars => LayoutInv'
<1> SUFFICES ASSUME TypeOK, LayoutInv, [Next]_vars PROVE LayoutInv'
  OBVIOUS
<1>0. /\ window \in [Field -> Nat] /\ display_rect \in [Field -> Nat]
      /\ loaded \in [Field -> Nat \cup {NotRead}] /\ stored \subseteq Field
      /\ drawn \in Drawn
      /\ torn \in Nat
  BY DEF TypeOK, LayoutTypeOK, LayoutFramesTypeOK
<1>00. /\ DOMAIN NoSize = Field /\ \A f \in Field : NoSize[f] = NotRead
       /\ NothingDrawn.video = NoSize /\ NothingDrawn.rect = NoSize
       /\ NothingDrawn.fov_height = NotRead /\ NothingDrawn.line_height = NotRead
       /\ NothingDrawn.text_y = NotRead /\ NothingDrawn.arrow_y = NotRead
  BY DEF NoSize, NothingDrawn, Field
<1>1. ASSUME UNCHANGED <<layoutVars, layoutFrameVars, torn>> PROVE LayoutInv'
  BY <1>1 DEF layoutVars, layoutFrameVars, LayoutInv, DisplayEnds, FrameBegins,
    TearHeals, Displaying, FitsWindow
<1>2. CASE User \/ MainEndsBatch \/ MainTearsDown \/ MainReturns \/ VlcCrashes \/ UNCHANGED vars
  <2>1. UNCHANGED <<layoutVars, layoutFrameVars, torn>>
    BY <1>2 DEF User, MainEndsBatch, BatchEnds, MainTearsDown, MainReturns, VlcCrashes,
      othersOfMain, vars
  <2> QED
    BY <1>1, <2>1
<1>3. CASE MainHandles
  <2>1. UNCHANGED layoutFrameVars
    BY <1>3 DEF MainHandles, othersOfMain
  <2>2. CASE layoutVars' = layoutVars
    BY <1>1, <1>3, <2>1, <2>2 DEF MainHandles, NoteWrite
  <2>3. CASE layoutVars' # layoutVars
    <3>1. torn' = 0
      BY <1>3, <2>3 DEF MainHandles, NoteWrite
    <3> QED
      BY <2>1, <3>1 DEF layoutFrameVars, LayoutInv, DisplayEnds, FrameBegins, TearHeals,
        Displaying
  <2> QED
    BY <2>2, <2>3
<1>4. CASE VlcLocks \/ VlcEnds
  <2>1. /\ UNCHANGED <<window, y, display_rect, torn, drawn, loaded, stored>>
        /\ ~Displaying /\ ~Displaying' /\ vlc_pc # "display" /\ vlc_pc' # "display"
        /\ vlc_pc' # "copy"
    BY <1>4 DEF VlcLocks, LockTexture, VlcEnds, VideoEnds, othersOfVlc, Displaying
  <2> QED
    BY <2>1 DEF LayoutInv, DisplayEnds, FrameBegins, TearHeals, FitsWindow
<1>5. CASE VlcDraws
  <2>1. /\ UNCHANGED <<window, y, display_rect, torn, loaded, stored>>
        /\ ~Displaying /\ ~Displaying' /\ vlc_pc # "display" /\ vlc_pc' # "display"
        /\ vlc_pc' # "copy"
    BY <1>5 DEF VlcDraws, othersOfVlc, DrawCaptions, NoCaption, RegisteredCaption,
      ReadRect, DrawFov, DrawLine, RenderText, RenderArrow, Displaying
  <2>2. drawn'.video = drawn.video
    BY <1>0, <1>5 DEF VlcDraws, DrawCaptions, NoCaption, RegisteredCaption, ReadRect, DrawFov,
      DrawLine, RenderText, RenderArrow, Drawn
  <2>3. DisplayEnds' /\ FrameBegins'
    BY <2>1 DEF LayoutInv, DisplayEnds, FrameBegins
  <2>4. TearHeals'
    <3> SUFFICES ASSUME torn # 0 PROVE FitsWindow'
      BY <2>1, <2>2 DEF LayoutInv, TearHeals
    <3>1. display_rect = window /\ FitsWindow
      BY <2>1 DEF LayoutInv, TearHeals
    <3> USE <1>0, <2>1, <2>2, <3>1 DEF FitsWindow, Drawn
    <3>2. CASE ReadRect
      BY <3>2 DEF ReadRect
    <3>3. CASE DrawFov \/ DrawLine
      BY <3>3 DEF DrawFov, DrawLine
    <3>4. CASE RenderText \/ RenderArrow
      BY <3>4 DEF RenderText, RenderArrow
    <3>5. CASE NoCaption \/ RegisteredCaption
      BY <3>5 DEF NoCaption, RegisteredCaption
    <3> QED
      BY <1>5, <3>2, <3>3, <3>4, <3>5 DEF VlcDraws, DrawCaptions
  <2> QED
    BY <2>3, <2>4 DEF LayoutInv
<1>6. CASE VlcPresents
  <2>1. /\ UNCHANGED <<window, y, display_rect, loaded, stored>>
        /\ vlc_pc = "present" /\ vlc_pc' = "display" /\ drawn' = NothingDrawn
        /\ torn' = IF FitsWindow THEN torn ELSE torn + 1
    BY <1>6 DEF VlcPresents, PresentAndUnlock, othersOfVlc
  <2>2. loaded = NoSize /\ stored = {} /\ ~Displaying
    BY <2>1 DEF LayoutInv, DisplayEnds, Displaying
  <2>3. torn' # 0 => torn' = 1
    BY <1>0, <2>1, <2>2 DEF LayoutInv, TearHeals
  <2> QED
    BY <1>00, <2>1, <2>2, <2>3 DEF LayoutInv, DisplayEnds, FrameBegins, TearHeals, Displaying
<1>7. CASE VlcSizes
  <2>1. UNCHANGED <<window, y, drawn, torn>>
    BY <1>7 DEF VlcSizes, LoadSize, StoreSize, othersOfVlc
  <2>2. vlc_pc = "display" /\ vlc_pc' \in {"display", "copy"}
    BY <1>7 DEF VlcSizes, LoadSize, StoreSize, Stored
  <2>3. FrameBegins' /\ Displaying'
    BY <2>1, <2>2 DEF LayoutInv, FrameBegins, Displaying
  <2>4. CASE LoadSize
    <3>1. PICK f \in Field : loaded' = [loaded EXCEPT ![f] = window[f]]
      BY <2>4 DEF LoadSize
    <3>2. vlc_pc' = "display" /\ UNCHANGED <<stored, display_rect>>
      BY <2>2, <2>4 DEF LoadSize
    <3>3. torn # 0 => \A g \in Field : loaded'[g] \in {NotRead, window[g]}
      BY <1>0, <3>1 DEF LayoutInv, DisplayEnds, TearHeals
    <3> QED
      BY <2>1, <2>3, <3>2, <3>3 DEF LayoutInv, DisplayEnds, TearHeals
  <2>5. CASE StoreSize
    <3>1. PICK f \in Field \ stored :
             /\ loaded[f] # NotRead
             /\ display_rect' = [display_rect EXCEPT ![f] = loaded[f]]
             /\ Stored(f)
      BY <2>5 DEF StoreSize
    <3>2. torn # 0 => loaded[f] = window[f]
      BY <3>1 DEF LayoutInv, DisplayEnds, TearHeals
    <3>3. torn # 0 => \A g \in stored \cup {f} : display_rect'[g] = window[g]
      BY <1>0, <3>1, <3>2 DEF LayoutInv, DisplayEnds, TearHeals
    <3>4. CASE stored \cup {f} = Field
      <4>1. vlc_pc' = "copy" /\ loaded' = NoSize /\ stored' = {}
        BY <3>1, <3>4 DEF Stored
      <4>2. torn # 0 => display_rect' = window
        BY <1>0, <3>1, <3>3, <3>4
      <4> QED
        BY <1>00, <2>1, <2>3, <4>1, <4>2 DEF LayoutInv, DisplayEnds, TearHeals
    <3>5. CASE stored \cup {f} # Field
      <4>1. vlc_pc' = "display" /\ loaded' = loaded /\ stored' = stored \cup {f}
        BY <2>2, <3>1, <3>5 DEF Stored
      <4> QED
        BY <2>1, <2>3, <3>3, <4>1 DEF LayoutInv, DisplayEnds, TearHeals
    <3> QED
      BY <3>4, <3>5
  <2> QED
    BY <1>7, <2>4, <2>5 DEF VlcSizes
<1>8. CASE VlcCopies
  <2>1. /\ vlc_pc = "copy" /\ vlc_pc' \in {"copy", "idle"}
        /\ UNCHANGED <<window, y, display_rect, loaded, stored, torn>>
    BY <1>8 DEF VlcCopies, CopyTexture, othersOfVlc
  <2>2. PICK f \in Field :
          /\ drawn' = [drawn EXCEPT !.video[f] = display_rect[f]]
          /\ vlc_pc' = "idle" => NotRead \notin {drawn'.video.w, drawn'.video.h}
    BY <1>8 DEF VlcCopies, CopyTexture
  <2>3. /\ loaded = NoSize /\ stored = {} /\ drawn.rect = NoSize /\ Displaying
        /\ {drawn.fov_height, drawn.line_height, drawn.text_y, drawn.arrow_y} = {NotRead}
    BY <2>1 DEF LayoutInv, DisplayEnds, FrameBegins, Displaying
  <2>4. /\ drawn'.rect = NoSize
        /\ {drawn'.fov_height, drawn'.line_height, drawn'.text_y, drawn'.arrow_y} = {NotRead}
        /\ drawn'.video = [drawn.video EXCEPT ![f] = display_rect[f]]
        /\ drawn'.video \in [Field -> Nat \cup {NotRead}]
    BY <1>0, <2>2, <2>3 DEF Drawn
  <2>5. DisplayEnds'
    BY <1>00, <2>1, <2>3 DEF LayoutInv, DisplayEnds, Displaying
  <2>6. FrameBegins'
    BY <2>1, <2>4 DEF FrameBegins
  <2>7. TearHeals'
    <3> SUFFICES ASSUME torn # 0 PROVE TearHeals'
      BY <2>1 DEF TearHeals
    <3>1. torn = 1 /\ display_rect = window /\ \A g \in Field : drawn.video[g] \in {NotRead, window[g]}
      BY <2>1 DEF LayoutInv, TearHeals
    <3>2. \A g \in Field : drawn'.video[g] \in {NotRead, window[g]}
      BY <1>0, <2>4, <3>1 DEF Drawn
    <3>3. vlc_pc' = "idle" => drawn'.video = window
      BY <1>0, <2>2, <2>4, <3>2 DEF Field
    <3>4. vlc_pc' = "idle" => FitsWindow'
      BY <1>00, <2>1, <2>4, <3>3 DEF FitsWindow
    <3> QED
      BY <1>00, <2>1, <2>3, <3>1, <3>2, <3>4 DEF TearHeals, Displaying
  <2> QED
    BY <2>5, <2>6, <2>7 DEF LayoutInv
<1> QED
  BY <1>2, <1>3, <1>4, <1>5, <1>6, <1>7, <1>8 DEF Next, MainThread, VideoThread

LEMMA LayoutInvariance == Spec => []LayoutInv
  BY TypeCorrectness, LayoutInvInit, LayoutInvNext, PTL DEF Spec

(* However main's writes, the reads of unlock, the loads and stores of     *)
(* display and the copy interleave, no second frame is presented that does *)
(* not fit the window, unless main has written the layout once more: the   *)
(* display after a torn frame starts from nothing and repairs the          *)
(* rectangle (main.cpp:98-104 and 306-310, presentation_methods.cpp:48-122). *)
THEOREM OneTornFrame == Spec => []TearsOneFrame
<1>1. LayoutInv => TearsOneFrame
  BY DEF LayoutInv, TearHeals, TearsOneFrame
<1> QED
  BY <1>1, LayoutInvariance, PTL

-------------------------------------------------------------------------------
(* The end of main. *)

(* The first destructor is a thread's, and it does not return. *)
NothingUnwound == scope = Scope /\ Local \subseteq alive

(* main.cpp:264-288 and 340: no thread is left with a destroyed local of   *)
(* main, however far the loop and the teardown have come.                  *)
THEOREM ThreadsKeepTheirLocals == Spec => []LocalsOutliveThreads
<1>1. Init => NothingUnwound
  BY DEF Init, LayoutInit, EventInit, NothingUnwound
<1>2. NothingUnwound /\ [Next]_vars => NothingUnwound'
  <2> SUFFICES ASSUME NothingUnwound, [Next]_vars PROVE NothingUnwound'
    OBVIOUS
  <2> USE DEF NothingUnwound
  <2>1. CASE User
    BY <2>1 DEF User, PressKey, CloseWindow, ResizeWindow, Post
  <2>2. CASE MainEndsBatch
    BY <2>2 DEF MainEndsBatch, BatchEnds
  <2>3. CASE MainHandles
    BY <2>3 DEF MainHandles, HandleEvents, PollQuit, PollKey, PollResized, PollEvent,
      StoreLayout, Act
  <2>4. CASE MainTearsDown
    BY <2>4 DEF MainTearsDown, TearDown, CloseFont, DestroyMutex, DestroyRenderer,
      DestroyWindow, QuitLibraries, Goto, Local
  <2>5. CASE MainReturns
    BY <2>5, ScopeOfLocals DEF MainReturns, DestroyLocal, Joinable, Thread
  <2>6. CASE VlcLocks \/ VlcDraws \/ VlcPresents \/ VlcSizes \/ VlcCopies \/ VlcEnds
    BY <2>6 DEF VlcLocks, VlcDraws, VlcPresents, VlcSizes, VlcCopies, VlcEnds, othersOfVlc,
      eventVars
  <2>7. CASE VlcCrashes \/ UNCHANGED vars
    BY <2>7 DEF VlcCrashes, vars, eventVars
  <2> QED
    BY <2>1, <2>2, <2>3, <2>4, <2>5, <2>6, <2>7 DEF Next, MainThread, VideoThread
<1>3. NothingUnwound => LocalsOutliveThreads
  BY DEF NothingUnwound, LocalsOutliveThreads, Uses, ThreadName, Local
<1> QED
  BY <1>1, <1>2, <1>3, PTL DEF Spec

-------------------------------------------------------------------------------
(* The queue of events: what posting and polling do to it. *)

LEMMA Posting ==
  ASSUME TypeOK, NEW event \in Event, Post(event)
  PROVE  /\ \A i \in DOMAIN queue : i \in DOMAIN queue' /\ queue'[i] = queue[i]
         /\ DOMAIN queue' = DOMAIN queue \cup {Len(queue) + 1}
         /\ queue'[Len(queue) + 1] = event
         /\ Len(queue) \in Nat /\ DOMAIN queue = 1 .. Len(queue)
         /\ UNCHANGED <<main_pc, done, action, to_store, scope>>
<1>1. queue \in Seq(Event) /\ queue' = Append(queue, event)
  BY DEF TypeOK, EventTypeOK, Post
<1> QED BY <1>1 DEF Post

LEMMA Polling ==
  ASSUME TypeOK, NEW type, PollEvent(type)
  PROVE  /\ Len(queue) \in Nat /\ 1 \in DOMAIN queue /\ queue[1].type = type
         /\ queue[1] = Head(queue) /\ queue[1] \in Event
         /\ DOMAIN queue = 1 .. Len(queue) /\ DOMAIN queue' = 1 .. Len(queue) - 1
         /\ \A i \in DOMAIN queue : i # 1 => i - 1 \in DOMAIN queue' /\ queue'[i - 1] = queue[i]
         /\ \A i \in DOMAIN queue' : i + 1 \in DOMAIN queue /\ queue'[i] = queue[i + 1]
         /\ main_pc = "poll"
<1>1. queue \in Seq(Event) /\ queue # <<>> /\ queue' = Tail(queue) /\ Head(queue).type = type
      /\ main_pc = "poll"
  BY DEF TypeOK, EventTypeOK, PollEvent
<1>2. Len(queue) \in Nat /\ Len(queue) # 0 /\ DOMAIN queue = 1 .. Len(queue)
  BY <1>1, EmptySeq
<1>3. queue[1] = Head(queue) /\ queue[1] \in Event
  BY <1>1, <1>2
<1>4. Len(queue') = Len(queue) - 1 /\ DOMAIN queue' = 1 .. Len(queue) - 1
      /\ \A i \in 1 .. Len(queue) - 1 : queue'[i] = queue[i + 1]
  BY <1>1, <1>2, HeadTailProperties
<1> QED BY <1>1, <1>2, <1>3, <1>4

(* Which steps leave the queue and what main has taken from it alone. *)
LEMMA LoopIdles ==
  ASSUME [Next]_vars
  PROVE  \/ User
         \/ MainHandles
         \/ /\ UNCHANGED <<queue, os_size, done, action, to_store>>
            /\ UNCHANGED window
            /\ main_pc = "store" <=> main_pc' = "store"
<1>1. CASE MainEndsBatch
  BY <1>1 DEF MainEndsBatch, BatchEnds, layoutVars
<1>2. CASE MainTearsDown \/ MainReturns
  BY <1>2 DEF MainTearsDown, TearDown, CloseFont, DestroyMutex, DestroyRenderer, DestroyWindow,
    QuitLibraries, MainReturns, DestroyLocal, Goto, layoutVars
<1>3. CASE VideoThread \/ VlcCrashes \/ VlcEnds \/ UNCHANGED vars
  BY <1>3 DEF VideoThread, VlcLocks, VlcDraws, VlcPresents, VlcSizes, VlcCopies, VlcCrashes,
    VlcEnds, othersOfVlc, eventVars, layoutVars, vars
<1> QED BY <1>1, <1>2, <1>3 DEF Next, MainThread

(* Every event that a user causes is one that main knows. *)
LEMMA UserPosts ==
  ASSUME TypeOK, User
  PROVE  \E event \in Event :
           /\ Post(event) /\ UNCHANGED window
           /\ \/ event.type # "SDL_WINDOWEVENT_RESIZED" /\ os_size' = os_size
              \/ event.type = "SDL_WINDOWEVENT_RESIZED" /\ event.data = os_size'
<1>1. ASSUME NEW key \in Key, PressKey(key)
      PROVE  Post([type |-> "SDL_KEYDOWN", sym |-> key]) /\ os_size' = os_size
  BY <1>1 DEF PressKey
<1>2. ASSUME NEW key \in Key
      PROVE  [type |-> "SDL_KEYDOWN", sym |-> key] \in Event
  BY DEF Event
<1>3. [type |-> "SDL_QUIT"] \in Event
  BY DEF Event
<1>4. ASSUME NEW size \in WindowSize
      PROVE  [type |-> "SDL_WINDOWEVENT_RESIZED", data |-> size] \in Event
  BY DEF Event
<1>5. UNCHANGED window
  BY DEF User, layoutVars
<1>6. CASE \E key \in Key : PressKey(key)
  BY <1>1, <1>2, <1>5, <1>6
<1>7. CASE CloseWindow
  BY <1>3, <1>5, <1>7 DEF CloseWindow
<1>8. CASE ResizeWindow
  <2>1. PICK size \in WindowSize :
          os_size' = size /\ Post([type |-> "SDL_WINDOWEVENT_RESIZED", data |-> size])
    BY <1>8 DEF ResizeWindow
  <2> QED BY <1>4, <1>5, <2>1
<1> QED BY <1>6, <1>7, <1>8 DEF User

(* Closing the window is never forgotten, in whatever batch it comes and   *)
(* whatever is in it (main.cpp:299-301 and 316-320).                       *)
THEOREM ClosingIsNeverForgotten == Spec => QuitIsKept
<1>1. TypeOK /\ [Next]_vars => (QuitPending => QuitPending')
  <2> SUFFICES ASSUME TypeOK, [Next]_vars, QuitPending PROVE QuitPending'
    OBVIOUS
  <2>1. CASE User
    <3>1. PICK event \in Event : Post(event)
      BY <2>1, UserPosts
    <3> QED BY <3>1, Posting DEF QuitPending
  <2>2. CASE MainHandles
    <3>1. CASE PollQuit
      BY <3>1 DEF PollQuit, QuitPending
    <3>2. ASSUME NEW type, type # "SDL_QUIT", PollEvent(type), done' = done PROVE QuitPending'
      BY <3>2, Polling DEF QuitPending
    <3>3. CASE PollKey \/ PollResized
      BY <3>2, <3>3 DEF PollKey, PollResized
    <3>4. CASE StoreLayout \/ Act
      BY <3>4 DEF StoreLayout, Act, QuitPending
    <3> QED BY <2>2, <3>1, <3>3, <3>4 DEF MainHandles, HandleEvents
  <2>3. CASE UNCHANGED <<queue, done>>
    BY <2>3 DEF QuitPending
  <2> QED BY <2>1, <2>2, <2>3, LoopIdles
<1> QED BY TypeCorrectness, <1>1, PTL DEF Spec, QuitIsKept

(* A key that should end the server is replaced or it ends the server: no  *)
(* batch, resize or quit in between drops it (main.cpp:302-304, 316-331).  *)
THEOREM KeysAreOnlyReplaced == Spec => LostOnlyToAnotherKey
<1>1. TypeOK /\ [Next]_vars
        => (KeyPending(Quitting)
              => KeyPending(Quitting)' \/ KeyPending(Key \ Quitting)' \/ done')
  <2> SUFFICES ASSUME TypeOK, [Next]_vars, KeyPending(Quitting), ~ done'
               PROVE  KeyPending(Quitting)' \/ KeyPending(Key \ Quitting)'
    OBVIOUS
  <2>1. CASE User
    <3>1. PICK event \in Event : Post(event)
      BY <2>1, UserPosts
    <3> QED BY <3>1, Posting DEF KeyPending, Waits
  <2>2. CASE MainHandles
    <3>1. ASSUME NEW type, type # "SDL_KEYDOWN", PollEvent(type), action' = action
          PROVE  KeyPending(Quitting)'
      BY <3>1, Polling DEF KeyPending, Waits
    <3>2. CASE PollQuit \/ PollResized
      BY <3>1, <3>2 DEF PollQuit, PollResized
    <3>3. CASE PollKey
      <4>1. queue[1] = Head(queue) /\ queue[1] \in Event /\ queue[1].type = "SDL_KEYDOWN"
        BY <3>3, Polling DEF PollKey
      <4>2. queue[1].sym \in Key
        BY <4>1 DEF Event
      <4>3. action' \in Key
        BY <3>3, <4>1, <4>2 DEF PollKey
      <4> QED BY <4>3 DEF KeyPending
    <3>4. CASE StoreLayout
      BY <3>4 DEF StoreLayout, KeyPending, Waits
    <3>5. CASE Act
      BY <3>5 DEF Act, Quitting, KeyPending, Waits
    <3> QED BY <2>2, <3>2, <3>3, <3>4, <3>5 DEF MainHandles, HandleEvents
  <2>3. CASE UNCHANGED <<queue, action>>
    BY <2>3 DEF KeyPending, Waits
  <2> QED BY <2>1, <2>2, <2>3, LoopIdles
<1> QED BY TypeCorrectness, <1>1, PTL DEF Spec, LostOnlyToAnotherKey

-------------------------------------------------------------------------------
(* The sizes of the window. *)

(* What is being stored is the last size, unless there is one to come. *)
StoresLastSize ==
  Sizes = {} =>
    \A a \in to_store : /\ a.to = "window_w" => a.value = os_size.w
                        /\ a.to = "window_h" => a.value = os_size.h

LEMMA LastSizeNext ==
  TypeOK /\ LastSizeArrives /\ StoresLastSize /\ [Next]_vars
    => LastSizeArrives' /\ StoresLastSize'
<1> SUFFICES ASSUME TypeOK, LastSizeArrives, StoresLastSize, [Next]_vars
             PROVE  LastSizeArrives' /\ StoresLastSize'
  OBVIOUS
<1>1. CASE User
  <2>1. PICK event \in Event :
          /\ Post(event) /\ UNCHANGED window
          /\ \/ event.type # "SDL_WINDOWEVENT_RESIZED" /\ os_size' = os_size
             \/ event.type = "SDL_WINDOWEVENT_RESIZED" /\ event.data = os_size'
    BY <1>1, UserPosts
  <2>2. /\ \A i \in DOMAIN queue : i \in DOMAIN queue' /\ queue'[i] = queue[i]
        /\ DOMAIN queue' = DOMAIN queue \cup {Len(queue) + 1}
        /\ queue'[Len(queue) + 1] = event
        /\ Len(queue) \in Nat /\ DOMAIN queue = 1 .. Len(queue)
        /\ UNCHANGED <<main_pc, to_store>>
    BY <2>1, Posting
  <2>3. CASE event.type # "SDL_WINDOWEVENT_RESIZED" /\ os_size' = os_size
    <3>1. Sizes' = Sizes
      BY <2>2, <2>3 DEF Sizes
    <3>2. \A i \in Sizes : queue'[i] = queue[i]
      BY <2>2 DEF Sizes
    <3> QED BY <2>1, <2>2, <2>3, <3>1, <3>2 DEF LastSizeArrives, StoresLastSize
  <2>4. CASE event.type = "SDL_WINDOWEVENT_RESIZED" /\ event.data = os_size'
    <3>1. Len(queue) + 1 \in Sizes' /\ \A i \in Sizes' : i <= Len(queue) + 1
      BY <2>2, <2>4 DEF Sizes
    <3> QED BY <2>2, <2>4, <3>1 DEF LastSizeArrives, StoresLastSize
  <2> QED BY <2>1, <2>3, <2>4
<1>2. CASE MainHandles
  <2>1. ASSUME NEW type, PollEvent(type)
        PROVE  /\ \A i \in Sizes : i # 1 => i - 1 \in Sizes' /\ queue'[i - 1] = queue[i]
               /\ \A i \in Sizes' : i + 1 \in Sizes /\ i \in Int
               /\ \A i \in Sizes : i \in Int
               /\ queue[1] = Head(queue) /\ queue[1] \in Event /\ queue[1].type = type
               /\ 1 \in DOMAIN queue /\ main_pc = "poll" /\ os_size' = os_size
    <3>1. os_size' = os_size
      BY <2>1 DEF PollEvent
    <3> QED BY <2>1, <3>1, Polling DEF Sizes
  <2>2. ASSUME NEW type, PollEvent(type), NEW last \in Sizes, last # 1,
               queue[last].data = os_size, \A i \in Sizes : i <= last
        PROVE  LastSizeArrives' /\ StoresLastSize'
    <3>1. last - 1 \in Sizes' /\ queue'[last - 1].data = os_size'
      BY <2>1, <2>2
    <3>2. \A i \in Sizes' : i <= last - 1
      BY <2>1, <2>2
    <3> QED BY <3>1, <3>2 DEF LastSizeArrives, StoresLastSize
  <2>3. ASSUME NEW type, PollEvent(type), type # "SDL_WINDOWEVENT_RESIZED",
               UNCHANGED <<to_store, main_pc, window>>
        PROVE  LastSizeArrives' /\ StoresLastSize'
    <3>1. 1 \notin Sizes
      BY <2>1, <2>3 DEF Sizes
    <3>2. CASE Sizes # {}
      BY <2>2, <2>3, <3>1, <3>2 DEF LastSizeArrives
    <3>3. CASE Sizes = {}
      <4>1. Sizes' = {}
        BY <2>1, <2>3, <3>3
      <4> QED BY <2>1, <2>3, <3>3, <4>1 DEF LastSizeArrives, StoresLastSize
    <3> QED BY <3>2, <3>3
  <2>4. CASE PollQuit \/ PollKey
    BY <2>3, <2>4 DEF PollQuit, PollKey, layoutVars, PollEvent
  <2>5. CASE PollResized
    <3>1. /\ PollEvent("SDL_WINDOWEVENT_RESIZED") /\ to_store' = Resize(Head(queue).data)
          /\ main_pc' = "store"
      BY <2>5 DEF PollResized
    <3>2. 1 \in Sizes
      BY <2>1, <3>1 DEF Sizes
    <3>3. PICK last \in Sizes : queue[last].data = os_size /\ \A i \in Sizes : i <= last
      BY <3>2 DEF LastSizeArrives
    <3>4. CASE last # 1
      BY <2>2, <3>1, <3>3, <3>4
    <3>5. CASE last = 1
      <4>1. Sizes' = {}
        <5> SUFFICES ASSUME NEW i \in Sizes' PROVE FALSE
          OBVIOUS
        <5>1. i + 1 \in Sizes /\ i \in 1 .. Len(queue)
          BY <3>1, Polling DEF Sizes
        <5> QED BY <3>3, <3>5, <5>1
      <4>2. to_store' = Resize(os_size')
        BY <2>1, <3>1, <3>3, <3>5
      <4>3. /\ [to |-> "window_w", value |-> os_size'.w] \in to_store'
            /\ [to |-> "window_h", value |-> os_size'.h] \in to_store'
        BY <4>2 DEF Resize
      <4>4. \A a \in to_store' : /\ a.to = "window_w" => a.value = os_size'.w
                                 /\ a.to = "window_h" => a.value = os_size'.h
        BY <4>2 DEF Resize
      <4> QED BY <3>1, <4>1, <4>3, <4>4 DEF LastSizeArrives, StoresLastSize
    <3> QED BY <3>4, <3>5
  <2>6. CASE StoreLayout
    <3>1. PICK a \in to_store :
             /\ to_store' = to_store \ {a}
             /\ window' = CASE a.to = "window_w" -> [window EXCEPT !.w = a.value]
                            [] a.to = "window_h" -> [window EXCEPT !.h = a.value]
                            [] OTHER -> window
      BY <2>6 DEF StoreLayout
    <3>2. /\ UNCHANGED <<queue, os_size>> /\ main_pc = "store"
          /\ main_pc' = IF to_store' = {} THEN "poll" ELSE "store"
      BY <2>6 DEF StoreLayout
    <3>3. Sizes' = Sizes
      BY <3>2 DEF Sizes
    <3>4. StoresLastSize'
      BY <3>1, <3>2, <3>3 DEF StoresLastSize
    <3>5. CASE Sizes # {}
      BY <3>2, <3>3, <3>4, <3>5 DEF LastSizeArrives
    <3>6. CASE Sizes = {}
      <4> DEFINE StoringW == [to |-> "window_w", value |-> os_size.w]
                 StoringH == [to |-> "window_h", value |-> os_size.h]
      <4>0. window \in [Field -> Nat]
        BY DEF TypeOK, LayoutTypeOK
      <4>1. (window.w = os_size.w \/ StoringW \in to_store)
            /\ (window.h = os_size.h \/ StoringH \in to_store)
        BY <3>6 DEF LastSizeArrives
      <4>2. ASSUME window'.w = os_size.w \/ StoringW \in to_store',
                   window'.h = os_size.h \/ StoringH \in to_store'
            PROVE  LastSizeArrives'
        <5>1. to_store' # {} => main_pc' = "store"
          BY <3>2
        <5> QED BY <3>2, <3>3, <3>6, <4>2, <5>1 DEF LastSizeArrives
      <4>3. CASE a.to = "window_w"
        <5>1. window'.w = os_size.w /\ window'.h = window.h /\ a # StoringH
          BY <3>1, <3>6, <4>0, <4>3 DEF StoresLastSize, Field
        <5> HIDE DEF StoringW, StoringH
        <5> QED BY <3>1, <3>4, <4>1, <4>2, <5>1
      <4>4. CASE a.to = "window_h"
        <5>1. window'.h = os_size.h /\ window'.w = window.w /\ a # StoringW
          BY <3>1, <3>6, <4>0, <4>4 DEF StoresLastSize, Field
        <5> HIDE DEF StoringW, StoringH
        <5> QED BY <3>1, <3>4, <4>1, <4>2, <5>1
      <4>5. CASE a.to \notin {"window_w", "window_h"}
        <5>1. window' = window /\ a # StoringW /\ a # StoringH
          BY <3>1, <4>5
        <5> HIDE DEF StoringW, StoringH
        <5> QED BY <3>1, <3>4, <4>1, <4>2, <5>1
      <4> QED BY <4>3, <4>4, <4>5
    <3> QED BY <3>4, <3>5, <3>6
  <2>7. CASE Act
    <3>1. UNCHANGED <<queue, os_size, to_store, window>> /\ main_pc # "store"
      BY <2>7 DEF Act
    <3> QED BY <3>1 DEF LastSizeArrives, StoresLastSize, Sizes
  <2> QED BY <1>2, <2>4, <2>5, <2>6, <2>7 DEF MainHandles, HandleEvents
<1>3. CASE /\ UNCHANGED <<queue, os_size, to_store, window>>
           /\ main_pc = "store" <=> main_pc' = "store"
  BY <1>3 DEF LastSizeArrives, StoresLastSize, Sizes
<1> QED BY <1>1, <1>2, <1>3, LoopIdles

(* The size main ends up with is the last one the desktop has reported,    *)
(* however resizes, keys and frames interleave (main.cpp:306-310).         *)
THEOREM LastSizeIsKept == Spec => []LastSizeArrives
<1>1. Init => LastSizeArrives /\ StoresLastSize
  BY DEF Init, LayoutInit, EventInit, LastSizeArrives, StoresLastSize, Sizes
<1> QED BY TypeCorrectness, <1>1, LastSizeNext, PTL DEF Spec

===============================================================================
