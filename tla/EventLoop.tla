------------------------------- MODULE EventLoop -------------------------------
(***************************************************************************)
(* The main thread after it has started the caption thread: the loop over  *)
(* SDL's events, and the way out of main.                                  *)
(*                                                                         *)
(* Ten times a second main empties the queue of events and then acts on    *)
(* the last key it found there.  A resize writes five ints that the video  *)
(* thread reads; with no call and no lock between the assignments, the     *)
(* compiler may make them in any order.                                    *)
(***************************************************************************)
EXTENDS WindowLayout

CONSTANTS
  Key,             \* the keys the user presses
  QueueCapacity,   \* bound: the events waiting at a time
  MaxMoves         \* bound: resizes and arrow keys in a session

ASSUME KeyAssumption == Key \subseteq {"escape", "q", "up", "down", "other"}
ASSUME EventBoundsAssumption == QueueCapacity \in Nat /\ MaxMoves \in Nat

VARIABLES
  queue,      \* SDL's events, oldest first
  os_size,    \* the size of the window on the desktop
  moves,      \* how many resizes and arrow keys there have been
  main_pc,    \* where the thread is
  done,       \* leave the loop
  action,     \* the last key of the batch
  to_store,   \* the assignments of a resize that are still to be made
  scope       \* the locals of main that have not been destroyed, last first

eventVars ==
  <<queue, os_size, moves, main_pc, done, action, to_store, scope>>

NoKey == "none"
Arrow == {"up", "down"}

Event ==
  [type : {"SDL_QUIT"}] \cup [type : {"SDL_KEYDOWN"}, sym : Key]
    \cup [type : {"SDL_WINDOWEVENT_RESIZED"}, data : WindowSize]

(* An assignment to one of the five ints. *)
Assignment ==
  [to : {"window_w", "window_h", "rect_w", "rect_h", "y"}, value : Nat]

(* The locals of main, in the order in which their destructors run. *)
Scope ==
  <<"play_captions_thread", "caption_model", "json", "read_orientation_thread",
    "socket_mutex", "azimuth_buffer", "azimuth_mutex", "app_context", "cliaddr">>
Thread == {"play_captions_thread", "read_orientation_thread"}

EventInit ==
  /\ queue = <<>>
  /\ os_size = StartSize
  /\ moves = 0
  /\ main_pc = "poll"
  /\ done = FALSE
  /\ action = NoKey
  /\ to_store = {}
  /\ scope = Scope

EventTypeOK ==
  /\ queue \in Seq(Event)
  /\ os_size \in WindowSize
  /\ moves \in Nat
  /\ main_pc \in {"poll", "store", "act", "close_font", "destroy_mutex",
                  "destroy_renderer", "destroy_window", "quit", "unwind"}
  /\ done \in BOOLEAN
  /\ action \in Key \cup {NoKey}
  /\ to_store \subseteq Assignment
  /\ scope \in Seq(Thread \cup Local)

-------------------------------------------------------------------------------
(* The user and the window manager.  The bounds keep queue and y small;    *)
(* keys that move nothing may be pressed for ever.                         *)
Post(event) ==
  /\ Len(queue) < QueueCapacity
  /\ queue' = Append(queue, event)
  /\ UNCHANGED <<main_pc, done, action, to_store, scope>>

PressKey(key) ==
  /\ Post([type |-> "SDL_KEYDOWN", sym |-> key])
  /\ IF key \in Arrow THEN moves < MaxMoves /\ moves' = moves + 1
                      ELSE UNCHANGED moves
  /\ UNCHANGED os_size

CloseWindow ==
  /\ Post([type |-> "SDL_QUIT"])
  /\ UNCHANGED <<os_size, moves>>

(* SDL reports a size only when it differs from the last one. *)
ResizeWindow ==
  /\ moves < MaxMoves
  /\ moves' = moves + 1
  /\ \E size \in WindowSize \ {os_size} :
       /\ os_size' = size
       /\ Post([type |-> "SDL_WINDOWEVENT_RESIZED", data |-> size])

-------------------------------------------------------------------------------
(* SDL_PollEvent takes the oldest event. *)
PollEvent(type) ==
  /\ main_pc = "poll"
  /\ queue # <<>>
  /\ Head(queue).type = type
  /\ queue' = Tail(queue)
  /\ UNCHANGED <<os_size, moves, scope>>

(* The rest of the batch is still read. *)
PollQuit ==
  /\ PollEvent("SDL_QUIT")
  /\ done' = TRUE
  /\ UNCHANGED <<main_pc, action, to_store, layoutVars>>

(* Mutated form: the first key of the batch is kept. *)
PollFirstKey ==
  /\ PollEvent("SDL_KEYDOWN")
  /\ action' = IF action = NoKey THEN Head(queue).sym ELSE action
  /\ UNCHANGED <<main_pc, done, to_store, layoutVars>>

(* A key replaces the one before it in the batch. *)
PollKey ==
  /\ PollEvent("SDL_KEYDOWN")
  /\ action' = Head(queue).sym
  /\ UNCHANGED <<main_pc, done, to_store, layoutVars>>

(* Mutated form: window_height is left as it is. *)
ResizeRectOnly(size) ==
  { [to |-> "window_w", value |-> size.w], [to |-> "rect_w", value |-> size.w],
    [to |-> "rect_h", value |-> size.h], [to |-> "y", value |-> ThreeQuarters(size.h)] }

Resize(size) ==
  { [to |-> "window_w", value |-> size.w], [to |-> "rect_w", value |-> size.w],
    [to |-> "window_h", value |-> size.h], [to |-> "rect_h", value |-> size.h],
    [to |-> "y", value |-> ThreeQuarters(size.h)] }

(* The call before the assignments, SDL_RenderSetViewport(renderer, NULL), *)
(* sets a viewport that is the whole window already.                       *)
PollResized ==
  /\ PollEvent("SDL_WINDOWEVENT_RESIZED")
  /\ to_store' = Resize(Head(queue).data)
  /\ main_pc' = "store"
  /\ UNCHANGED <<done, action, layoutVars>>

(* One of the assignments of a resize. *)
StoreLayout ==
  /\ main_pc = "store"
  /\ \E a \in to_store :
       /\ to_store' = to_store \ {a}
       /\ window' = CASE a.to = "window_w" -> [window EXCEPT !.w = a.value]
                      [] a.to = "window_h" -> [window EXCEPT !.h = a.value]
                      [] OTHER -> window
       /\ display_rect' = CASE a.to = "rect_w" -> [display_rect EXCEPT !.w = a.value]
                            [] a.to = "rect_h" -> [display_rect EXCEPT !.h = a.value]
                            [] OTHER -> display_rect
       /\ y' = IF a.to = "y" THEN a.value ELSE y
  /\ main_pc' = IF to_store' = {} THEN "poll" ELSE "store"
  /\ UNCHANGED <<queue, os_size, moves, done, action, scope>>

(* Mutated form: action is reset after the batch instead of before it. *)
BatchEndsForgetful ==
  /\ main_pc = "poll"
  /\ queue = <<>>
  /\ main_pc' = "act"
  /\ action' = NoKey
  /\ UNCHANGED <<queue, os_size, moves, done, to_store, scope, layoutVars>>

BatchEnds ==
  /\ main_pc = "poll"
  /\ queue = <<>>
  /\ main_pc' = "act"
  /\ UNCHANGED <<queue, os_size, moves, done, action, to_store, scope,
                 layoutVars>>

(* Mutated form: what the key says replaces what SDL_QUIT said. *)
ActOnKeyOnly ==
  /\ main_pc = "act"
  /\ done' = (action \in {"escape", "q"})
  /\ y' = CASE action = "down" -> y + 100
            [] action = "up" -> y - 100
            [] OTHER -> y
  /\ action' = NoKey
  /\ main_pc' = IF done' THEN "close_font" ELSE "poll"
  /\ UNCHANGED <<queue, os_size, moves, to_store, scope, window, display_rect>>

(* The last key of the batch, the delay, and the head of the loop. *)
Act ==
  /\ main_pc = "act"
  /\ done' = (done \/ action \in {"escape", "q"})
  /\ y' = CASE action = "down" -> y + 100
            [] action = "up" -> y - 100
            [] OTHER -> y
  /\ action' = NoKey
  /\ main_pc' = IF done' THEN "close_font" ELSE "poll"
  /\ UNCHANGED <<queue, os_size, moves, to_store, scope, window, display_rect>>

-------------------------------------------------------------------------------
Goto(from, to) ==
  /\ main_pc = from
  /\ main_pc' = to
  /\ UNCHANGED <<queue, os_size, moves, done, action, to_store>>

CloseFont ==
  /\ Goto("close_font", "destroy_mutex")
  /\ alive' = alive \ {"smallest_font"}
  /\ UNCHANGED scope

DestroyMutex ==
  /\ Goto("destroy_mutex", "destroy_renderer")
  /\ alive' = alive \ {"mutex"}
  /\ UNCHANGED scope

(* SDL destroys the textures of a renderer with it. *)
DestroyRenderer ==
  /\ Goto("destroy_renderer", "destroy_window")
  /\ alive' = alive \ {"renderer", "texture"}
  /\ UNCHANGED scope

DestroyWindow ==
  /\ Goto("destroy_window", "quit")
  /\ alive' = alive \ {"window"}
  /\ UNCHANGED scope

(* IMG_Quit, TTF_Quit and SDL_Quit: with TTF go the fonts that are still   *)
(* open, the one of the captions among them.                               *)
QuitLibraries ==
  /\ Goto("quit", "unwind")
  /\ alive' = alive \ {"medium_font", "video"}
  /\ UNCHANGED scope

(* Mutated form: the threads have been detached. *)
DetachedThreads == {}

(* The std::threads that are neither joined nor detached: all of them, and *)
(* whether or not their function has returned.                             *)
Joinable == Thread

(* The destructor of a local.  That of a joinable thread calls             *)
(* std::terminate.                                                         *)
DestroyLocal ==
  /\ Goto("unwind", "unwind")
  /\ scope # <<>>
  /\ IF Head(scope) \in Joinable
       THEN process' = "aborted" /\ UNCHANGED <<alive, scope>>
       ELSE /\ scope' = Tail(scope)
            /\ alive' = alive \ {Head(scope)}
            /\ UNCHANGED process

(* The steps of the loop, and those after it. *)
HandleEvents == PollQuit \/ PollKey \/ PollResized \/ StoreLayout \/ Act

TearDown ==
  CloseFont \/ DestroyMutex \/ DestroyRenderer \/ DestroyWindow \/ QuitLibraries

===============================================================================
