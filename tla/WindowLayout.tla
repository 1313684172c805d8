----------------------------- MODULE WindowLayout -----------------------------
(***************************************************************************)
(* What the event loop and the video callbacks share: the fields of struct *)
(* AppContext that say how big the window is and where captions go, none   *)
(* of them under a mutex, and the objects that main destroys when it ends. *)
(***************************************************************************)
EXTENDS Integers, Sequences, FiniteSets

(* UNKNOWN stands for every number that is none of the other four. *)
PresentationMethod ==
  {"REGISTERED_GRAPHICS", "NONREGISTERED_GRAPHICS",
   "NONREGISTERED_GRAPHICS_WITH_ARROWS", "CONTROL", "UNKNOWN"}

CONSTANTS
  WindowSize,   \* the sizes a window can have, [w |-> width, h |-> height]
  StartSize,    \* the size it is created with
  MethodGiven,  \* the presentation methods the server is started with
  NotRead       \* a register nothing has been loaded into

ASSUME SizeAssumption ==
  /\ WindowSize \subseteq [w : Nat \ {0}, h : Nat \ {0}]
  /\ StartSize \in WindowSize
ASSUME MethodAssumption == MethodGiven \subseteq PresentationMethod
ASSUME NotReadAssumption == NotRead \notin Int

VARIABLES
  process,              \* "running"; "aborted" by std::terminate; "crashed"
  window,               \* AppContext::window_width and window_height
  display_rect,         \* AppContext::display_rect; its x and y stay 0
  y,                    \* AppContext::y, the height of non-registered captions
  presentation_method,  \* chosen on the command line, never changed
  alive                 \* the objects that have not been destroyed

layoutVars == <<window, display_rect, y>>

(* Objects of SDL and TTF, "video" for SDL's video subsystem, and locals   *)
(* of main of which threads have the address.                              *)
SdlObject ==
  {"mutex", "texture", "renderer", "window", "smallest_font", "medium_font", "video"}
Local == {"azimuth_mutex", "azimuth_buffer", "socket_mutex", "cliaddr", "json",
          "caption_model", "app_context"}

Field == {"w", "h"}
NoSize == [w |-> NotRead, h |-> NotRead]

(* app_context.y = app_context.window_height * 0.75, truncated to int. *)
ThreeQuarters(height) == (3 * height) \div 4

LayoutInit ==
  /\ process = "running"
  /\ window = StartSize
  /\ display_rect = [w |-> 0, h |-> 0]
  /\ y = ThreeQuarters(StartSize.h)
  /\ presentation_method \in MethodGiven
  /\ alive = SdlObject \cup Local

LayoutTypeOK ==
  /\ process \in {"running", "aborted", "crashed"}
  /\ window \in [Field -> Nat]
  /\ display_rect \in [Field -> Nat]
  /\ y \in Int
  /\ presentation_method \in PresentationMethod
  /\ alive \subseteq SdlObject \cup Local

===============================================================================
