----------------------------- MODULE SlidingWindow ----------------------------
(***************************************************************************)
(* What the orientation thread promises the threads that read the window:  *)
(* it is the last Size readings in the order they were received, and a     *)
(* reading enters it in one step.  A failed recvfrom enters the latest     *)
(* reading once more.                                                      *)
(***************************************************************************)
EXTENDS Naturals, Sequences

CONSTANTS Size, Reading, NoReading

VARIABLES latest, window

Slide(w, r) == Append(IF Len(w) = Size THEN Tail(w) ELSE w, r)

Init == latest = NoReading /\ window = <<>>

Sample ==
  \E r \in Reading :
    /\ latest' = r
    /\ window' = Slide(window, r)

Repeat ==
  /\ latest \in Reading
  /\ window' = Slide(window, latest)
  /\ UNCHANGED latest

Next == Sample \/ Repeat

Spec == Init /\ [][Next]_<<latest, window>>

===============================================================================
