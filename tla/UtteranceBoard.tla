---------------------------- MODULE UtteranceBoard ----------------------------
(***************************************************************************)
(* What the caption model promises the thread that draws: a look at it     *)
(* shows everything the current speaker has said since taking the turn,    *)
(* up to and including the last caption heard, in one step.  Nothing of    *)
(* the previous speaker, nothing twice, nothing half done.                 *)
(***************************************************************************)
EXTENDS Integers, Sequences

CONSTANTS
  Foreman,  \* the speaker shown while nobody has spoken
  Line      \* the captions: records with a speaker and a text

VARIABLES
  script,  \* the captions in order, never changed
  heard,   \* how many of them have been spoken
  shown    \* the utterance shown

(* The utterance that caption k belongs to, up to k. *)
IsUtterance(k, juror, words) ==
  \/ /\ k = 0
     /\ juror = Foreman
     /\ words = <<>>
  \/ /\ k > 0
     /\ \E first \in 1 .. k :
          /\ \A m \in first .. k : script[m].speaker = juror
          /\ first = 1 \/ script[first - 1].speaker # juror
          /\ words = [i \in 1 .. k - first + 1 |-> script[first + i - 1].text]

Init ==
  /\ script \in Seq(Line)
  /\ heard = 0
  /\ shown = [juror |-> Foreman, words |-> <<>>]

Hear ==
  /\ heard < Len(script)
  /\ heard' = heard + 1
  /\ UNCHANGED <<script, shown>>

Look ==
  /\ IsUtterance(heard, shown'.juror, shown'.words)
  /\ UNCHANGED <<script, heard>>

Next == Hear \/ Look

Spec == Init /\ [][Next]_<<script, heard, shown>>

===============================================================================
