----------------------------- MODULE WindowProofs -----------------------------
(***************************************************************************)
(* The orientation thread implements SlidingWindow: the proof that its     *)
(* three steps between recvfrom and unlock look like one.                  *)
(***************************************************************************)
EXTENDS GroupConvoProofs

(* What the window is about to become depends on the thread's place, its   *)
(* buffer and the window only; no other thread changes these.              *)
LEMMA OthersLeaveWindow ==
  ASSUME UNCHANGED <<orientation_pc, datagram, azimuth_buffer>>
  PROVE  UNCHANGED <<datagram, WindowToCome>>
BY DEF WindowToCome

LEMMA WindowStep ==
  ASSUME TypeInv, [Next]_vars
  PROVE  [Window!Next]_<<datagram, WindowToCome>>
<1> USE DEF OrientationThread, othersOfOrientation
<1>0. /\ azimuth_buffer \in Seq(Azimuth)
      /\ Len(azimuth_buffer) \in Nat
      /\ MOVING_AVG_SIZE \in Nat
  BY WindowAssumption, LenProperties DEF TypeInv, TypeOK, SharedTypeOK
<1>1. CASE OrientationThread
  <2>1. CASE LockSocket
    <3>1. UNCHANGED <<datagram, azimuth_buffer>>
      BY <2>1 DEF LockSocket
    <3>2. WindowToCome = azimuth_buffer /\ WindowToCome' = azimuth_buffer'
      BY <2>1 DEF LockSocket, WindowToCome
    <3> QED BY <3>1, <3>2
  <2>2. CASE Recvfrom
    <3>1. datagram' \in Azimuth
      <4>1. inbox \in Seq(Datagram) /\ inbox # <<>>
        BY <2>2 DEF Recvfrom, TypeInv, TypeOK, OrientationTypeOK
      <4>2. Head(inbox) \in Datagram
        BY <4>1, HeadTailProperties
      <4> QED BY <2>2, <4>2 DEF Recvfrom, Datagram
    <3>2. WindowToCome = azimuth_buffer
      BY <2>2 DEF Recvfrom, WindowToCome
    <3>3. WindowToCome' = Window!Slide(azimuth_buffer, datagram')
      BY <2>2 DEF Recvfrom, WindowToCome, Window!Slide
    <3> QED BY <3>1, <3>2, <3>3 DEF Window!Next, Window!Sample
  <2>3. CASE RecvfromFails
    <3>1. CASE orientation_pc = "first_recvfrom"
      <4>1. UNCHANGED <<datagram, azimuth_buffer>>
        BY <2>3 DEF RecvfromFails
      <4>2. WindowToCome = azimuth_buffer /\ WindowToCome' = azimuth_buffer'
        BY <2>3, <3>1 DEF RecvfromFails, WindowToCome
      <4> QED BY <4>1, <4>2
    <3>2. CASE orientation_pc = "recvfrom"
      <4>1. datagram \in Azimuth
        BY <3>2 DEF TypeInv, InFlight
      <4>2. UNCHANGED <<datagram, azimuth_buffer>> /\ orientation_pc' = "lock_azimuth"
        BY <2>3, <3>2 DEF RecvfromFails
      <4>3. WindowToCome = azimuth_buffer
        BY <3>2 DEF WindowToCome
      <4>4. WindowToCome' = Window!Slide(azimuth_buffer, datagram)
        BY <4>2 DEF WindowToCome, Window!Slide
      <4> QED BY <4>1, <4>2, <4>3, <4>4 DEF Window!Next, Window!Repeat
    <3> QED BY <2>3, <3>1, <3>2 DEF RecvfromFails
  <2>4. CASE LockAzimuth
    <3>1. UNCHANGED <<datagram, azimuth_buffer>> /\ orientation_pc = "lock_azimuth"
          /\ orientation_pc' = "pop_front"
      BY <2>4 DEF LockAzimuth
    <3>2. UNCHANGED WindowToCome
      BY <3>1 DEF WindowToCome
    <3> QED BY <3>1, <3>2
  <2>5. CASE PopFront
    <3>1. UNCHANGED datagram /\ orientation_pc = "pop_front" /\ orientation_pc' = "push_back"
          /\ azimuth_buffer' = IF Len(azimuth_buffer) = MOVING_AVG_SIZE
                                 THEN Tail(azimuth_buffer)
                                 ELSE azimuth_buffer
      BY <2>5 DEF PopFront
    <3>2. UNCHANGED WindowToCome
      BY <3>1 DEF WindowToCome
    <3> QED BY <3>1, <3>2
  <2>6. CASE PushBack
    <3>1. UNCHANGED datagram /\ orientation_pc = "push_back" /\ orientation_pc' = "lock_socket"
          /\ azimuth_buffer' = Append(azimuth_buffer, datagram)
      BY <2>6 DEF PushBack
    <3>2. UNCHANGED WindowToCome
      BY <3>1 DEF WindowToCome
    <3> QED BY <3>1, <3>2
  <2> QED BY <1>1, <2>1, <2>2, <2>3, <2>4, <2>5, <2>6 DEF ReadOrientation
<1>2. CASE ~ OrientationThread
  <2>1. UNCHANGED <<orientation_pc, datagram, azimuth_buffer>>
    BY <1>2 DEF Next, Phone, PhoneSends, touchedByOrientation, Clock, Tick, touchedByCaptions,
                CaptionThread, othersOfCaptions, orientationVars, VlcThread, MainSteps,
                MainWaits, MainPlays, MainStartsCaptions, othersOfMain, vars, sharedVars
  <2> QED BY <2>1, OthersLeaveWindow
<1> QED BY <1>1, <1>2

(* The window is always the last readings in the order they were received, *)
(* the latest once more after a failed recvfrom; none is lost between      *)
(* recvfrom and push_back (orientation.cpp:32-47).                         *)
THEOREM ReadingsSlideThrough == Spec => WindowSpec
<1>1. Init => Window!Init
  BY DEF Init, SharedInit, OrientationInit, WindowToCome, Window!Init
<1>2. TypeInv /\ [Next]_vars => [Window!Next]_<<datagram, WindowToCome>>
  BY WindowStep
<1> QED BY <1>1, <1>2, TypeInit, TypeNext, PTL DEF Spec, WindowSpec, Window!Spec

===============================================================================
