-------------------------------- MODULE Startup --------------------------------
(***************************************************************************)
(* main from its first line to the start of the video: the options, the    *)
(* socket, SDL and its libraries, libvlc, the orientation thread and the   *)
(* caption file.  Everything may fail, and what then happens differs from  *)
(* call to call: main exits, or goes on with a null pointer, or ends by an *)
(* exception nobody catches.                                               *)
(*                                                                         *)
(* GroupConvo and Session begin where this ends well.                      *)
(***************************************************************************)
EXTENDS Integers, Sequences

CONSTANTS
  Number,            \* the ints on the command line and in fresh variables
  CaptionedSection,  \* the sections with a caption file in resources/captions
  Omitted            \* an option that has not been given

ASSUME NumberAssumption == Number \subseteq Int /\ Omitted \notin Int
ASSUME SectionAssumption == CaptionedSection \subseteq 1 .. 4

FONT_SIZE_SMALL == 26
NoFont == 0

VARIABLES
  process,        \* "running", "exited", "aborted" by std::terminate, "crashed"
  main_pc,        \* which of the Calls comes next
  video_section,
  font_size,
  path_to_font,   \* whether the option has been given
  smallest_font,  \* the size it is opened in, or NoFont
  acquired,       \* the calls that have succeeded
  threads,        \* the threads that run beside main
  playing         \* libvlc_media_player_play has been called

options == <<video_section, font_size, path_to_font>>
vars == <<process, main_pc, options, smallest_font, acquired, threads, playing>>

(* Mutated form: libvlc is initialised when the phone already sends. *)
CallsThreadFirst ==
  <<"parse_arguments", "socket", "bind", "SDL_Init", "TTF_Init", "TTF_OpenFont",
    "IMG_Init", "SDL_CreateWindow", "SDL_CreateRenderer", "SDL_CreateTexture",
    "SDL_CreateMutex", "read_orientation_thread", "back_arrow",
    "forward_arrow", "libvlc_new", "media_player", "captions_file",
    "play">>

(* What main calls, in its order. *)
Calls ==
  <<"parse_arguments", "socket", "bind", "SDL_Init", "TTF_Init", "TTF_OpenFont",
    "IMG_Init", "SDL_CreateWindow", "SDL_CreateRenderer", "SDL_CreateTexture",
    "SDL_CreateMutex", "back_arrow", "forward_arrow",
    "libvlc_new", "media_player", "read_orientation_thread", "captions_file",
    "play">>

(* The calls of which main keeps a pointer or a status. *)
Library ==
  {"socket", "bind", "SDL_Init", "TTF_Init", "IMG_Init", "SDL_CreateWindow",
   "SDL_CreateRenderer", "SDL_CreateTexture", "SDL_CreateMutex",
   "back_arrow", "forward_arrow", "libvlc_new"}

(* Mutated form: the second arrow is not checked. *)
CheckedButForward ==
  {"socket", "bind", "SDL_Init", "TTF_Init", "SDL_CreateWindow",
   "back_arrow", "libvlc_new"}

(* The calls after whose failure main exits or returns. *)
Checked ==
  {"socket", "bind", "SDL_Init", "TTF_Init", "SDL_CreateWindow",
   "back_arrow", "forward_arrow", "libvlc_new"}

Init ==
  /\ process = "running"
  /\ main_pc = 1
  /\ video_section = Omitted
  /\ font_size = Omitted
  /\ path_to_font = FALSE
  /\ smallest_font = NoFont
  /\ acquired = {}
  /\ threads = {}
  /\ playing = FALSE

-------------------------------------------------------------------------------
At(call) == process = "running" /\ main_pc \in DOMAIN Calls /\ Calls[main_pc] = call

Advance == main_pc' = main_pc + 1 /\ UNCHANGED process

Ends(how) == process' = how /\ UNCHANGED main_pc

(* getopt_long returns -v.  A section without a video ends the program. *)
VideoSectionOption ==
  /\ At("parse_arguments")
  /\ \E n \in Number :
       IF n <= 0 \/ n > 4
         THEN Ends("exited") /\ UNCHANGED video_section
         ELSE video_section' = n /\ UNCHANGED <<process, main_pc>>
  /\ UNCHANGED <<font_size, path_to_font, smallest_font, acquired, threads, playing>>

FontSizeOption ==
  /\ At("parse_arguments")
  /\ font_size' \in Number
  /\ UNCHANGED <<process, main_pc, video_section, path_to_font, smallest_font,
                 acquired, threads, playing>>

PathToFontOption ==
  /\ At("parse_arguments")
  /\ path_to_font' = TRUE
  /\ UNCHANGED <<process, main_pc, video_section, font_size, smallest_font,
                 acquired, threads, playing>>

(* std::stoi throws, on a number or on a part of a colour. *)
MalformedOption ==
  /\ At("parse_arguments")
  /\ Ends("aborted")
  /\ UNCHANGED <<options, smallest_font, acquired, threads, playing>>

(* An int nobody has assigned to has any value.  (font_size is not read.)  *)
OptionsEnd ==
  /\ At("parse_arguments")
  /\ video_section' \in IF video_section = Omitted THEN Number ELSE {video_section}
  /\ Advance
  /\ UNCHANGED <<font_size, path_to_font, smallest_font, acquired, threads, playing>>

-------------------------------------------------------------------------------
Succeeds ==
  \E call \in Library :
    /\ At(call)
    /\ call = "SDL_CreateTexture" => "SDL_CreateRenderer" \in acquired
    /\ acquired' = acquired \cup {call}
    /\ Advance
    /\ UNCHANGED <<options, smallest_font, threads, playing>>

Exits ==
  \E call \in Checked :
    /\ At(call)
    /\ Ends("exited")
    /\ UNCHANGED <<options, smallest_font, acquired, threads, playing>>

(* After any other failure main goes on, with a null pointer for what it   *)
(* wanted; two of the four failures are logged.                            *)
GoesOnWithout ==
  \E call \in Library \ Checked :
    /\ At(call)
    /\ Advance
    /\ UNCHANGED <<options, smallest_font, acquired, threads, playing>>

(* Without a path there is no file to open; with one there may be none. *)
OpenFont ==
  /\ At("TTF_OpenFont")
  /\ smallest_font' \in IF path_to_font THEN {FONT_SIZE_SMALL, NoFont} ELSE {NoFont}
  /\ Advance
  /\ UNCHANGED <<options, acquired, threads, playing>>

(* The media, the player, its callbacks and its format.  libvlc follows a  *)
(* pointer to a media or a player that it could not make.                  *)
MakePlayer ==
  /\ At("media_player")
  /\ \/ acquired' = acquired \cup {"media_player"} /\ Advance
     \/ Ends("crashed") /\ UNCHANGED acquired
  /\ UNCHANGED <<options, smallest_font, threads, playing>>

(* The constructor of std::thread throws when there are no resources. *)
StartOrientationThread ==
  /\ At("read_orientation_thread")
  /\ \/ threads' = threads \cup {"orientation"} /\ Advance
     \/ Ends("aborted") /\ UNCHANGED threads
  /\ UNCHANGED <<options, smallest_font, acquired, playing>>

(* Mutated form: a file that is not there is an empty one. *)
LoadCaptionsLeniently ==
  /\ At("captions_file")
  /\ acquired' = acquired \cup {"captions_file"}
  /\ Advance
  /\ UNCHANGED <<options, smallest_font, threads, playing>>

(* A file that is missing or malformed makes the parser throw. *)
LoadCaptions ==
  /\ At("captions_file")
  /\ \/ /\ video_section \in CaptionedSection
        /\ acquired' = acquired \cup {"captions_file"}
        /\ Advance
     \/ Ends("aborted") /\ UNCHANGED acquired
  /\ UNCHANGED <<options, smallest_font, threads, playing>>

(* After the wait for a full window, which MainThread models. *)
Play ==
  /\ At("play")
  /\ playing' = TRUE
  /\ Advance
  /\ UNCHANGED <<options, smallest_font, acquired, threads>>

ParseArguments ==
  VideoSectionOption \/ FontSizeOption \/ PathToFontOption \/ MalformedOption \/ OptionsEnd

Next ==
  \/ ParseArguments \/ Succeeds \/ Exits \/ GoesOnWithout \/ OpenFont
  \/ MakePlayer \/ StartOrientationThread \/ LoadCaptions \/ Play

Spec == Init /\ [][Next]_vars

-------------------------------------------------------------------------------
TypeOK ==
  /\ process \in {"running", "exited", "aborted", "crashed"}
  /\ main_pc \in 1 .. Len(Calls) + 1
  /\ video_section \in Number \cup {Omitted}
  /\ font_size \in Number \cup {Omitted}
  /\ path_to_font \in BOOLEAN
  /\ smallest_font \in {FONT_SIZE_SMALL, NoFont}
  /\ acquired \subseteq Library \cup {"media_player", "captions_file"}
  /\ threads \subseteq {"orientation"}
  /\ playing \in BOOLEAN

(* main never exits beside a running thread, whose stack holds pointers to *)
(* main's locals and whose receive would outlive them: whatever can fail   *)
(* in an orderly way has been tried before the orientation thread starts   *)
(* (main.cpp:151-251 and 269).                                             *)
ExitsAlone == process = "exited" => threads = {}

(* A video plays only for one of the four sections, also when -v has been  *)
(* omitted and the section is whatever was on the stack: no other section  *)
(* has captions, and they are loaded first (main.cpp:255-287,              *)
(* experiment_setup.cpp:86-105).                                           *)
PlaysKnownSection == playing => video_section \in 1 .. 4

(* When the video plays, what its callbacks and the caption thread use     *)
(* without a look has been made: the socket, the window, both arrows, the  *)
(* player, the captions, and somebody who fills the buffer of azimuths     *)
(* (main.cpp:126-287).  (Fonts, renderer, texture and mutex may be null.)  *)
NothingMissing ==
  playing =>
    /\ {"socket", "bind", "SDL_Init", "TTF_Init", "SDL_CreateWindow", "back_arrow",
        "forward_arrow", "libvlc_new", "media_player", "captions_file"} \subseteq acquired
    /\ threads = {"orientation"}

===============================================================================
