------------------------------ MODULE GroupConvo ------------------------------
(***************************************************************************)
(* The running server: the main thread, the orientation thread with the    *)
(* phone, the caption thread and the video output thread of libvlc, over   *)
(* the mutexes and the data they share.                                    *)
(***************************************************************************)
EXTENDS Orientation, Captions, Frames, MainThread

VARIABLE heard_at_lock  \* history: the captions in the model when the frame was locked

vars == <<sharedVars, orientationVars, captionVars, frameVars, mainVars, heard_at_lock>>

Init ==
  /\ SharedInit
  /\ OrientationInit
  /\ CaptionsInit
  /\ FramesInit
  /\ MainInit
  /\ heard_at_lock = 0

-------------------------------------------------------------------------------
Running == process = "running"

(* One step of the phone or of the orientation thread. *)
othersOfOrientation ==
  <<process, text_mutex, sdl_mutex, spoken_so_far, presentation_method, playing,
    captionVars, frameVars, mainVars, heard_at_lock>>

Phone == Running /\ PhoneSends /\ UNCHANGED othersOfOrientation

OrientationThread == Running /\ ReadOrientation /\ UNCHANGED othersOfOrientation

(* One step of the clock or of the caption thread. *)
othersOfCaptions ==
  <<azimuth_mutex, sdl_mutex, cliaddr, azimuth_buffer, presentation_method, playing,
    orientationVars, frameVars, mainVars, heard_at_lock>>

Clock == Running /\ Tick /\ UNCHANGED othersOfCaptions

CaptionThread == Running /\ CaptionStream /\ UNCHANGED othersOfCaptions

(* One step of the video output thread. *)
VlcThread ==
  /\ Running
  /\ VideoOutput
  /\ heard_at_lock' = CASE vlc_pc = "idle" -> next - 1
                        [] vlc_pc = "present" -> 0
                        [] OTHER -> heard_at_lock
  /\ UNCHANGED <<process, socket_mutex, cliaddr, azimuth_buffer, spoken_so_far,
                 presentation_method, playing, orientationVars, captionVars, mainVars>>

(* One step of the main thread. *)
othersOfMain ==
  <<process, socket_mutex, azimuth_mutex, text_mutex, sdl_mutex, cliaddr,
    azimuth_buffer, spoken_so_far, presentation_method, orientationVars, frameVars,
    heard_at_lock>>

MainWaits == Running /\ Wait /\ UNCHANGED <<othersOfMain, captionVars>>

MainPlays == Running /\ PlayVideo(now) /\ UNCHANGED <<othersOfMain, captionVars>>

MainStartsCaptions ==
  Running /\ StartCaptions /\ StartThread /\ UNCHANGED othersOfMain

MainSteps == MainWaits \/ MainPlays \/ MainStartsCaptions

Next ==
  Phone \/ OrientationThread \/ Clock \/ CaptionThread \/ VlcThread \/ MainSteps

Spec == Init /\ [][Next]_vars

(* Every thread that can take a step does so eventually, the clock does    *)
(* not stop and the phone goes on sending.  Two threads need more: main,   *)
(* which polls a size that drops by one inside each replacement, and VLC's *)
(* thread, which competes for azimuth_mutex.  The orientation thread       *)
(* leaves both alone for as long as it waits in recvfrom, and that is most *)
(* of the time; it keeps socket_mutex there, so the caption thread gets no *)
(* more than weak fairness.                                                *)
Fairness ==
  /\ WF_vars(Phone)
  /\ WF_vars(OrientationThread)
  /\ WF_vars(Clock)
  /\ WF_vars(CaptionThread)
  /\ SF_vars(VlcThread)
  /\ SF_vars(MainSteps)

FairSpec == Spec /\ Fairness

-------------------------------------------------------------------------------
TypeOK ==
  /\ SharedTypeOK
  /\ OrientationTypeOK
  /\ CaptionsTypeOK
  /\ FramesTypeOK
  /\ MainTypeOK
  /\ heard_at_lock \in 0 .. Len(caption_json)

(* No two threads are about to touch the same data, one of them writing    *)
(* it: the window of azimuths (orientation.cpp:34-38 and 51-60, 65-74),    *)
(* the client's address (orientation.cpp:41 and captions.cpp:83) and the   *)
(* caption model (captions.cpp:34-37 and 45-50).  The three are guarded by *)
(* three mutexes, each locked and unlocked by hand on every path.  Main's  *)
(* read of the size of the window is not covered: see WaitsForPhone.       *)
RaceFree ==
  /\ ~ (orientation_pc \in {"pop_front", "push_back"} /\ vlc_pc = "average")
  /\ ~ (orientation_pc \in {"first_recvfrom", "recvfrom"} /\ captions_pc = "sendto")
  /\ ~ (captions_pc \in {"clear", "emplace_back"} /\ vlc_pc = "copy_text")

(* The thread that holds the mutex at which another one waits; Free if the *)
(* thread does not wait.                                                   *)
WaitedFor(thread) ==
  CASE thread = "orientation" /\ orientation_pc \in {"first_lock", "lock_socket"} -> socket_mutex
    [] thread = "orientation" /\ orientation_pc = "lock_azimuth" -> azimuth_mutex
    [] thread = "captions" /\ captions_pc = "lock_socket" -> socket_mutex
    [] thread = "captions" /\ captions_pc = "lock_text" -> text_mutex
    [] thread = "vlc" /\ vlc_pc = "idle" -> sdl_mutex
    [] thread = "vlc" /\ vlc_pc = "lock_azimuth" -> azimuth_mutex
    [] thread = "vlc" /\ vlc_pc = "lock_text" -> text_mutex
    [] OTHER -> Free

(* The threads cannot block each other at their mutexes: whoever holds a   *)
(* mutex that another thread waits for does not itself wait for one, so    *)
(* waits form no cycle, and no chain.  VLC's thread does take             *)
(* azimuth_mutex and text_mutex inside the frame's mutex (main.cpp:48 and  *)
(* 57-85), but one after the other, and nobody waits for the frame's mutex *)
(* meanwhile.                                                              *)
HoldersDoNotWait ==
  \A thread \in {"orientation", "captions", "vlc"} :
    WaitedFor(thread) # Free => WaitedFor(WaitedFor(thread)) = Free

(* The azimuth that VLC's thread takes is never the mean of a window that  *)
(* is still filling up: from the moment the video is started, whenever the *)
(* orientation thread is not in the middle of a replacement, the window    *)
(* holds exactly MOVING_AVG_SIZE readings (main.cpp:285,                   *)
(* orientation.cpp:34-38).  Whether the size is read again or only once,   *)
(* it is enough that the wait is there.                                    *)
FullWindow ==
  wait_loop # "elided" /\ playing /\ azimuth_mutex # "orientation"
    => Len(azimuth_buffer) = MOVING_AVG_SIZE

(* No caption is ever sent to the all-zero address that connect_to_client  *)
(* returns (experiment_setup.cpp:59, captions.cpp:83): the first datagram  *)
(* has replaced it before the caption thread exists, if the wait is there. *)
SentToPhone ==
  wait_loop # "elided" => \A m \in 1 .. Len(outbox) : outbox[m].to \in Address

(* The wait does what its comment says (main.cpp:283-284): when the video  *)
(* plays, the phone has started to transmit.                               *)
WaitsForPhone == playing => azimuth_buffer # <<>>

(* unlock overlays the caption on the frame that VLC has just written and  *)
(* presents the two together (main.cpp:55): a caption that appears on the  *)
(* screen is on the frame it was drawn for.                                *)
PresentsNewFrame ==
  [][vlc_pc = "present" /\ vlc_pc' # "present" /\ screen'.words # <<>>
       => screen'.video = video_frame]_vars

(* What unlock does present is the frame before, every time: the video on  *)
(* the screen is one frame late, but of the frames that VLC hands to the   *)
(* callbacks none is left out or shown under two frames' captions          *)
(* (main.cpp:83 and 94-105).                                               *)
PresentsPreviousFrame ==
  [][vlc_pc = "present" /\ vlc_pc' # "present" => screen'.video = video_frame - 1]_vars

(* How many captions the caption model has been given, counting the one    *)
(* that is being given.                                                    *)
Heard == IF captions_pc \in {"lock_text", "clear", "emplace_back"} THEN next ELSE next - 1

(* No caption reaches the phone or the screen before its time in the       *)
(* video: the sleeps are the differences of the delays, and what the       *)
(* thread spends between two sleeps, and a difference below zero, can only *)
(* make it late (captions.cpp:97-108).                                     *)
NeverEarly ==
  /\ \A k \in 1 .. Heard : now >= played_at + caption_json[k].delay
  /\ \A m \in 1 .. Len(outbox) :
       now >= played_at + caption_json[outbox[m].caption].delay

(* The captions are handed to the network in the order of the file and     *)
(* none of them twice, and the caption model is given whatever the network *)
(* was: sendto may fail, and then the phone misses a caption, but it is    *)
(* never ahead of the screen by more than the caption that is being added  *)
(* (captions.cpp:83-86 and 108-109).                                       *)
SentInOrder ==
  /\ \A m, n \in 1 .. Len(outbox) : m < n => outbox[m].caption < outbox[n].caption
  /\ \A m \in 1 .. Len(outbox) : outbox[m].caption <= Heard

(* A speaker id that is none of the jurors' ends the process, and it does  *)
(* so between two captions: everything up to the one before has been said  *)
(* in full, nothing of the stranger or of anyone after is sent or shown,   *)
(* and the caption thread itself leaves no mutex locked and no utterance   *)
(* half added (captions.cpp:55-69 and 102-109).                            *)
StrangerEndsStream ==
  /\ \A k \in 1 .. Heard : caption_json[k].speaker \in Juror
  /\ \A m \in 1 .. Len(outbox) : caption_json[outbox[m].caption].speaker \in Juror
  /\ process = "aborted" =>
       /\ Heard = next - 1
       /\ caption_json[next].speaker \notin Juror
       /\ "captions" \notin {socket_mutex, text_mutex}

Board == INSTANCE UtteranceBoard WITH
  Foreman <- JuryForeman,
  Line <- Caption,
  script <- caption_json,
  heard <- next - 1,
  shown <- [juror |-> overlay.juror, words |-> overlay.words]

(* Whenever the caption thread is not inside add_word, the caption model   *)
(* holds exactly the utterance of the current speaker: all of it, in       *)
(* order, and nothing of the speaker before (captions.cpp:32-39).          *)
SpokenIsUtterance ==
  captions_pc # "emplace_back" => Board!IsUtterance(next - 1, CurrentJuror, CurrentWords)

(* A look at the caption model by VLC's thread is atomic: although         *)
(* add_word and get_current_text take several steps each, what is drawn is *)
(* the utterance up to the last caption added, as if both took one.        *)
BoardSpec == Board!Spec

(* The caption of a frame is no older than the frame: all that was in the  *)
(* caption model when VLC locked the frame is considered, whatever thread  *)
(* the callbacks had to wait for meanwhile, and what is drawn is the       *)
(* utterance as it was at one moment since then (main.cpp:57-82,           *)
(* presentation_methods.cpp:42-99).                                        *)
FreshCaption ==
  vlc_pc = "present" /\ FirstInput # "present" =>
    \E k \in heard_at_lock .. next - 1 : Board!IsUtterance(k, overlay.juror, overlay.words)

(* A caption is placed by the mean of a full window, unless the wait is    *)
(* compiled away.  Registered captions without a text are not placed       *)
(* (presentation_methods.cpp:44, 56-57, 73-74, 91-99).                     *)
Placed ==
  \/ FirstInput = "lock_azimuth"
  \/ FirstInput = "lock_text" /\ overlay.words # <<>>

PlacedByFullWindow ==
  wait_loop # "elided" /\ vlc_pc = "present" /\ Placed
    => Len(overlay.samples) = MOVING_AVG_SIZE

(* Where a reading that the orientation thread has received but not yet    *)
(* put into the window will end up.                                        *)
WindowToCome ==
  CASE orientation_pc \in {"lock_azimuth", "pop_front"} ->
         Append(IF Len(azimuth_buffer) = MOVING_AVG_SIZE THEN Tail(azimuth_buffer)
                                                         ELSE azimuth_buffer, datagram)
    [] orientation_pc = "push_back" -> Append(azimuth_buffer, datagram)
    [] OTHER -> azimuth_buffer

Window == INSTANCE SlidingWindow WITH
  Size <- MOVING_AVG_SIZE,
  Reading <- Azimuth,
  NoReading <- NoAzimuth,
  latest <- datagram,
  window <- WindowToCome

(* The orientation thread maintains a sliding window of the readings: none *)
(* is lost or reordered between recvfrom and push_back, and the only       *)
(* reading that can enter twice is the latest one, after a failed recvfrom *)
(* (orientation.cpp:32-47).                                                *)
WindowSpec == Window!Spec

(* Every frame that VLC has begun is presented: its callbacks do not keep  *)
(* the frame's mutex for ever while they wait for the orientation thread   *)
(* and the caption thread.                                                 *)
FramesArePresented == sdl_mutex = "vlc" ~> sdl_mutex = Free

(* The video starts if the phone keeps sending, whichever calls of         *)
(* recvfrom fail, except the first: then nobody fills the window           *)
(* (main.cpp:285-287, orientation.cpp:28-32).  A wait that reads the size  *)
(* only once hangs unless the window is full already, and is excluded.     *)
(* That main, which polls a size that drops inside each replacement, does  *)
(* not miss the full window every time is an assumption (MainSteps).       *)
VideoStarts == wait_loop # "hoisted" => <>(playing \/ orientation_pc = "returned")

(* What main polls for and what the caption thread waits for is there      *)
(* again and again, so that nothing but their luck is assumed: the window  *)
(* fills up, and after every replacement it is full again; socket_mutex is *)
(* given back after every datagram (main.cpp:285, orientation.cpp:28-47).  *)
WindowIsFullAgain ==
  []<>(Len(azimuth_buffer) = MOVING_AVG_SIZE \/ orientation_pc = "returned" \/ ~Running)

SocketIsReleased ==
  []<>(socket_mutex = Free \/ ~Running)

(* Once started, the caption thread gets through its file, provided that   *)
(* it is not starved at the socket mutex, which the orientation thread     *)
(* releases only for the moment it takes to store a reading.               *)
StreamCompletes ==
  SF_vars(CaptionThread)
    => (captions_pc = "next_caption" ~> captions_pc = "returned" \/ ~Running)

===============================================================================
