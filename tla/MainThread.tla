------------------------------ MODULE MainThread ------------------------------
(***************************************************************************)
(* The main thread from the start of the orientation thread on: it waits   *)
(* until the window of azimuths is full, starts the video and starts the   *)
(* caption thread.                                                         *)
(*                                                                         *)
(* The wait is a loop with an empty body around an unsynchronised read of  *)
(* azimuth_buffer.size(), while another thread writes the buffer: a data   *)
(* race.  WaitOutcomes says which programs compilers make of it:           *)
(*   "reread"   every iteration reads the size again (no optimisation);    *)
(*   "hoisted"  the size is read once, before the loop;                    *)
(*   "elided"   the loop has no effect and is removed.                     *)
(***************************************************************************)
EXTENDS AppContext

CONSTANT WaitOutcomes

ASSUME WaitOutcomesAssumption == WaitOutcomes \subseteq {"reread", "hoisted", "elided"}

VARIABLES
  main_pc,     \* where the thread is
  wait_loop,   \* what the compiler made of the wait, never changed
  played_at    \* history: when the video was started

mainVars == <<main_pc, wait_loop, played_at>>

(* Of the shared variables, the ones this thread may change. *)
touchedByMain == <<playing>>

MainInit ==
  /\ main_pc = "wait"
  /\ wait_loop \in WaitOutcomes
  /\ played_at = 0

MainTypeOK ==
  /\ main_pc \in {"wait", "hung", "play", "start_captions", "events"}
  /\ wait_loop \in WaitOutcomes
  /\ played_at \in Nat

-------------------------------------------------------------------------------
(* Mutated form: one reading too few is enough. *)
WindowAlmostFull == Len(azimuth_buffer) + 1 >= MOVING_AVG_SIZE

WindowFull == Len(azimuth_buffer) >= MOVING_AVG_SIZE

(* while (azimuth_buffer.size() < MOVING_AVG_SIZE) {} *)
Wait ==
  /\ main_pc = "wait"
  /\ \/ wait_loop = "reread" /\ WindowFull /\ main_pc' = "play"
     \/ wait_loop = "hoisted" /\ main_pc' = IF WindowFull THEN "play" ELSE "hung"
     \/ wait_loop = "elided" /\ main_pc' = "play"
  /\ UNCHANGED <<wait_loop, played_at, touchedByMain>>

PlayVideo(time) ==
  /\ main_pc = "play"
  /\ playing' = TRUE
  /\ played_at' = time
  /\ main_pc' = "start_captions"
  /\ UNCHANGED wait_loop

StartCaptions ==
  /\ main_pc = "start_captions"
  /\ main_pc' = "events"
  /\ UNCHANGED <<wait_loop, played_at, touchedByMain>>

===============================================================================
