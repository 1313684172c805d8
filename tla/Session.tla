-------------------------------- MODULE Session --------------------------------
(***************************************************************************)
(* The server from the event loop to its end: the user, main, and the      *)
(* video thread over the window's geometry.  The orientation thread and    *)
(* the caption thread, which do not touch it, are taken to run until the   *)
(* process ends.  GroupConvo has the same threads over the data of         *)
(* captions and readings, which the loop does not touch.                   *)
(***************************************************************************)
EXTENDS EventLoop, LayoutFrames

VARIABLE torn  \* history: frames that did not fit, presented since the last write

vars ==
  <<process, presentation_method, alive, layoutVars, eventVars, layoutFrameVars, torn>>

ThreadName == {"orientation", "captions", "vlc"}

(* The locals of main whose addresses a thread was given. *)
Uses ==
  [t \in ThreadName |->
     CASE t = "orientation" -> {"cliaddr", "socket_mutex", "azimuth_mutex", "azimuth_buffer"}
       [] t = "captions" -> {"cliaddr", "socket_mutex", "json", "caption_model"}
       [] t = "vlc" -> {"app_context", "caption_model", "azimuth_mutex", "azimuth_buffer"}]

Init ==
  /\ LayoutInit
  /\ EventInit
  /\ LayoutFramesInit
  /\ torn = 0

-------------------------------------------------------------------------------
Running == process = "running"

(* What a write to the layout makes of the history. *)
NoteWrite == torn' = IF layoutVars' = layoutVars THEN torn ELSE 0

User ==
  /\ Running
  /\ (\E key \in Key : PressKey(key)) \/ CloseWindow \/ ResizeWindow
  /\ UNCHANGED <<process, presentation_method, alive, layoutVars, layoutFrameVars,
                 torn>>

othersOfMain == <<presentation_method, layoutFrameVars>>

MainHandles ==
  /\ Running
  /\ HandleEvents
  /\ NoteWrite
  /\ UNCHANGED <<process, alive, othersOfMain>>

MainEndsBatch ==
  /\ Running
  /\ BatchEnds
  /\ UNCHANGED <<process, alive, torn, othersOfMain>>

MainTearsDown ==
  /\ Running
  /\ TearDown
  /\ UNCHANGED <<process, layoutVars, torn, othersOfMain>>

MainReturns ==
  /\ Running
  /\ DestroyLocal
  /\ UNCHANGED <<layoutVars, torn, othersOfMain>>

othersOfVlc == <<process, presentation_method, alive, window, y, eventVars>>

(* A callback that is handed a destroyed object may work all the same. *)
VlcLocks ==
  /\ Running
  /\ LockTexture
  /\ UNCHANGED <<othersOfVlc, display_rect, torn>>

VlcDraws ==
  /\ Running
  /\ DrawCaptions
  /\ UNCHANGED <<othersOfVlc, display_rect, torn>>

(* The video and the captions of the frame that is about to be presented   *)
(* are laid out for the window and the height that main has now.           *)
FitsWindow ==
  /\ drawn.video = window
  /\ \A f \in Field : drawn.rect[f] \in {NotRead, window[f]}
  /\ {drawn.fov_height, drawn.line_height} \subseteq {NotRead, window.h}
  /\ {drawn.text_y, drawn.arrow_y} \subseteq {NotRead, y}

VlcPresents ==
  /\ Running
  /\ PresentAndUnlock
  /\ torn' = IF FitsWindow THEN torn ELSE torn + 1
  /\ UNCHANGED <<othersOfVlc, display_rect>>

VlcSizes ==
  /\ Running
  /\ LoadSize \/ StoreSize
  /\ UNCHANGED <<othersOfVlc, torn>>

VlcCopies ==
  /\ Running
  /\ CopyTexture
  /\ UNCHANGED <<othersOfVlc, display_rect, torn>>

(* ... or end the process. *)
VlcCrashes ==
  /\ Running
  /\ ~ Needs \subseteq alive
  /\ process' = "crashed"
  /\ UNCHANGED <<presentation_method, alive, layoutVars, eventVars, layoutFrameVars,
                 torn>>

VlcEnds ==
  /\ Running
  /\ VideoEnds
  /\ UNCHANGED <<othersOfVlc, display_rect, torn>>

VideoThread == VlcLocks \/ VlcDraws \/ VlcPresents \/ VlcSizes \/ VlcCopies

MainThread == MainHandles \/ MainTearsDown \/ MainReturns

Next ==
  User \/ MainEndsBatch \/ MainThread \/ VideoThread \/ VlcCrashes \/ VlcEnds

Spec == Init /\ [][Next]_vars

(* A batch comes to its end: to take an event costs main no time, and the  *)
(* user and the window manager pause for longer than that now and then.    *)
BatchesEnd == []<>(queue = <<>> \/ ~Running)

(* Main and the video thread go on, and a batch that can end again and     *)
(* again does end.  Nothing is assumed of the user but BatchesEnd, and     *)
(* nothing of the end of the video.                                        *)
Fairness ==
  /\ WF_vars(MainThread)
  /\ SF_vars(MainEndsBatch)
  /\ WF_vars(VideoThread)
  /\ BatchesEnd

FairSpec == Spec /\ Fairness

-------------------------------------------------------------------------------
TypeOK ==
  /\ LayoutTypeOK
  /\ EventTypeOK
  /\ LayoutFramesTypeOK
  /\ torn \in Nat

(* Nothing keeps main from writing the layout between any two reads of it  *)
(* by a frame, and nothing keeps display from writing an old size back     *)
(* over the new one, so frames are torn.  But a change of the layout tears *)
(* one frame and no second one: the video, the captions and the arrow of   *)
(* every frame after that fit the window, until main writes again.  The    *)
(* same holds of the first frame of all, which is laid out before display  *)
(* has ever written the rectangle (main.cpp:98-104 and 306-310,            *)
(* presentation_methods.cpp:48, 60 and 77, 89-90, 114 and 122).            *)
TearsOneFrame == torn <= 1

(* No thread is left with the address of a local that main has destroyed   *)
(* (main.cpp:264-288 and 340).  That is so because the first destructor to *)
(* run is that of a joinable thread, which ends the process.               *)
LocalsOutliveThreads ==
  \A t \in ThreadName : Uses[t] \subseteq alive \/ (t = "vlc" /\ vlc_pc = "ended")

(* Closing the window ends the server, in whatever batch the event comes   *)
(* and whatever else is in it (main.cpp:299-301).                          *)
QuitIsHonoured == (\E i \in DOMAIN queue : queue[i].type = "SDL_QUIT") ~> ~Running

Waits(keys) ==
  \E i \in DOMAIN queue : queue[i].type = "SDL_KEYDOWN" /\ queue[i].sym \in keys

(* Escape ends the server unless another key is pressed after it, before   *)
(* or after the batch of the escape has ended (main.cpp:303 and 316-320).  *)
LastEscapeQuits == Waits({"escape"}) ~> ~Running \/ Waits(Key \ {"escape"})

(* Once the window has been closed, nothing that is in the same batch, or  *)
(* comes after it, makes main forget that: the event waits in the queue    *)
(* until done is set, and done stays set, whatever the last key of the     *)
(* batch says (main.cpp:299-301 and 316-320).                              *)
QuitPending == done \/ \E i \in DOMAIN queue : queue[i].type = "SDL_QUIT"
QuitIsKept == [][QuitPending => QuitPending']_vars

(* A key that ends the server is forgotten in one way only: another key    *)
(* takes its place (main.cpp:302-304 and 316-331).                         *)
Quitting == {"escape", "q"}
KeyPending(keys) == action \in keys \/ Waits(keys)
LostOnlyToAnotherKey ==
  [][KeyPending(Quitting) => KeyPending(Quitting)' \/ KeyPending(Key \ Quitting)' \/ done']_vars

(* The last size that the desktop has reported is never forgotten: main    *)
(* has taken it over, is just storing it, or will find it in the queue,    *)
(* as the last of the sizes there (main.cpp:306-310).                      *)
Sizes == {i \in DOMAIN queue : queue[i].type = "SDL_WINDOWEVENT_RESIZED"}
LastSizeArrives ==
  IF Sizes = {}
    THEN LET Storing(field, value) ==
               main_pc = "store" /\ [to |-> field, value |-> value] \in to_store
         IN  /\ window.w = os_size.w \/ Storing("window_w", os_size.w)
             /\ window.h = os_size.h \/ Storing("window_h", os_size.h)
    ELSE \E last \in Sizes : queue[last].data = os_size /\ \A i \in Sizes : i <= last

(* However a resize and the frames of the video interleave, the video ends *)
(* up in a rectangle of the size the window has, unless the server or the  *)
(* video ends first (main.cpp:100-101 and 306-310).                        *)
EventuallyFillsWindow == <>[](~Running \/ done \/ vlc_pc = "ended" \/ display_rect = os_size)

-------------------------------------------------------------------------------
(* Escape quits (main.cpp:296). *)
EscapeQuits == Waits({"escape"}) ~> ~Running

(* VLC renders to the texture in peace: from lock to unlock nobody else    *)
(* touches it (main.cpp:39-40).                                            *)
Writing == vlc_pc \in {"unlock", "place", "fov", "line", "arrow", "present"}
RendersPeacefully == [][Writing /\ "texture" \in alive => "texture" \in alive']_vars

===============================================================================
