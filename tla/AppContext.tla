------------------------------ MODULE AppContext ------------------------------
(***************************************************************************)
(* What the threads of the captioning server share: the mutexes, the       *)
(* phone's address, the window of azimuths, the caption model and the      *)
(* state of the video player.  The pointers to most of it are gathered in  *)
(* struct AppContext; the rest are locals of main passed by address to the *)
(* threads that main starts.                                               *)
(***************************************************************************)
EXTENDS Integers, Sequences

(* The values of main's -m option that unlock() tells apart.  "UNKNOWN"    *)
(* stands for every other integer.                                         *)
PresentationMethod ==
  {"REGISTERED_GRAPHICS", "NONREGISTERED_GRAPHICS",
   "NONREGISTERED_GRAPHICS_WITH_ARROWS", "CONTROL", "UNKNOWN"}

CONSTANTS
  MOVING_AVG_SIZE,  \* capacity of the azimuth window (100 in the code)
  Azimuth,          \* the head orientations a phone can report
  NoAzimuth,        \* the zeroed receive buffer before the first datagram
  Address,          \* the socket addresses phones send from
  NoAddress,        \* the zeroed sockaddr_in that connect_to_client returns
  Juror,            \* the speakers juror_from_string knows
  JuryForeman,      \* the one reported while nobody has spoken
  Text,             \* the texts of captions
  MethodGiven       \* the presentation methods the server is started with

ASSUME WindowAssumption == MOVING_AVG_SIZE \in Nat \ {0}
ASSUME NoValueAssumption == NoAzimuth \notin Azimuth /\ NoAddress \notin Address
ASSUME JurorAssumption == JuryForeman \in Juror
ASSUME MethodAssumption == MethodGiven \subseteq PresentationMethod

VARIABLES
  process,              \* "running", or "aborted" after std::terminate
  socket_mutex,         \* each mutex: the thread that holds it, or Free
  azimuth_mutex,
  text_mutex,
  sdl_mutex,            \* AppContext::mutex
  cliaddr,              \* where the last datagram came from
  azimuth_buffer,       \* the last azimuths, oldest first
  spoken_so_far,        \* CaptionModel: the words of the current speaker
  presentation_method,  \* chosen on the command line, never changed
  playing               \* libvlc_media_player_play has been called

sharedVars ==
  <<process, socket_mutex, azimuth_mutex, text_mutex, sdl_mutex, cliaddr,
    azimuth_buffer, spoken_so_far, presentation_method, playing>>

Free == "free"

(* One entry of CaptionModel::spoken_so_far. *)
SpokenWord == [speaker : Juror, text : Text]

SharedInit ==
  /\ process = "running"
  /\ socket_mutex = Free
  /\ azimuth_mutex = Free
  /\ text_mutex = Free
  /\ sdl_mutex = Free
  /\ cliaddr = NoAddress
  /\ azimuth_buffer = <<>>
  /\ spoken_so_far = <<>>
  /\ presentation_method \in MethodGiven
  /\ playing = FALSE

SharedTypeOK ==
  /\ process \in {"running", "aborted"}
  /\ socket_mutex \in {Free, "orientation", "captions"}
  /\ azimuth_mutex \in {Free, "orientation", "vlc"}
  /\ text_mutex \in {Free, "captions", "vlc"}
  /\ sdl_mutex \in {Free, "vlc"}
  /\ cliaddr \in Address \cup {NoAddress}
  /\ azimuth_buffer \in Seq(Azimuth)
  /\ Len(azimuth_buffer) <= MOVING_AVG_SIZE
  /\ spoken_so_far \in Seq(SpokenWord)
  /\ presentation_method \in PresentationMethod
  /\ playing \in BOOLEAN

===============================================================================
