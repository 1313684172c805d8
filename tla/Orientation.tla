----------------------------- MODULE Orientation ------------------------------
(***************************************************************************)
(* The orientation thread (read_orientation) and the phone that feeds it.  *)
(*                                                                         *)
(* The thread holds socket_mutex across a blocking recvfrom, then moves    *)
(* the reading into the window under azimuth_mutex.  pop_front and         *)
(* push_back are separate steps: main reads the size of the window without *)
(* the mutex and can see the state between them.                           *)
(***************************************************************************)
EXTENDS AppContext

CONSTANTS
  InboxCapacity,  \* bound: datagrams waiting in the socket's receive queue
  RecvMayFail     \* whether recvfrom may return -1

ASSUME InboxAssumption == InboxCapacity \in Nat /\ RecvMayFail \in BOOLEAN

VARIABLES
  orientation_pc,  \* where the thread is
  inbox,           \* the socket's receive queue
  datagram         \* the azimuth in the thread's 1024-byte buffer

orientationVars == <<orientation_pc, inbox, datagram>>

(* Of the shared variables, the ones this thread may change. *)
touchedByOrientation == <<socket_mutex, azimuth_mutex, cliaddr, azimuth_buffer>>

Datagram == [from : Address, azimuth : Azimuth]

OrientationInit ==
  /\ orientation_pc = "first_lock"
  /\ inbox = <<>>
  /\ datagram = NoAzimuth

OrientationTypeOK ==
  /\ orientation_pc \in {"first_lock", "first_recvfrom", "lock_azimuth", "pop_front",
                         "push_back", "lock_socket", "recvfrom", "returned"}
  /\ inbox \in Seq(Datagram)
  /\ Len(inbox) <= InboxCapacity
  /\ datagram \in Azimuth \cup {NoAzimuth}

-------------------------------------------------------------------------------
(* A phone's datagram reaches the socket.  Datagrams that the network      *)
(* loses never get here, and nothing relates the order of arrival to the   *)
(* order of sending.                                                       *)
PhoneSends ==
  \E from \in Address, azimuth \in Azimuth :
    /\ Len(inbox) < InboxCapacity
    /\ inbox' = Append(inbox, [from |-> from, azimuth |-> azimuth])
    /\ UNCHANGED <<orientation_pc, datagram, touchedByOrientation>>

LockSocket ==
  /\ \/ orientation_pc = "first_lock" /\ orientation_pc' = "first_recvfrom"
     \/ orientation_pc = "lock_socket" /\ orientation_pc' = "recvfrom"
  /\ socket_mutex = Free
  /\ socket_mutex' = "orientation"
  /\ UNCHANGED <<azimuth_mutex, cliaddr, azimuth_buffer, inbox, datagram>>

(* Mutated form: the mutex is not given back. *)
RecvfromKeepsLock ==
  /\ orientation_pc \in {"first_recvfrom", "recvfrom"}
  /\ inbox # <<>>
  /\ inbox' = Tail(inbox)
  /\ datagram' = Head(inbox).azimuth
  /\ cliaddr' = Head(inbox).from
  /\ orientation_pc' = "lock_azimuth"
  /\ UNCHANGED <<socket_mutex, azimuth_mutex, azimuth_buffer>>

(* recvfrom blocks until a datagram is there; it fills the buffer and      *)
(* overwrites the client's address.                                        *)
Recvfrom ==
  /\ orientation_pc \in {"first_recvfrom", "recvfrom"}
  /\ inbox # <<>>
  /\ inbox' = Tail(inbox)
  /\ datagram' = Head(inbox).azimuth
  /\ cliaddr' = Head(inbox).from
  /\ socket_mutex' = Free
  /\ orientation_pc' = "lock_azimuth"
  /\ UNCHANGED <<azimuth_mutex, azimuth_buffer>>

(* Only the result of the first call decides whether the loop is entered:  *)
(* num_bytes_read is not assigned again, so after a later failure the loop *)
(* goes on with the bytes of the previous datagram.                        *)
RecvfromFails ==
  /\ RecvMayFail
  /\ \/ orientation_pc = "first_recvfrom" /\ orientation_pc' = "returned"
     \/ orientation_pc = "recvfrom" /\ orientation_pc' = "lock_azimuth"
  /\ socket_mutex' = Free
  /\ UNCHANGED <<azimuth_mutex, cliaddr, azimuth_buffer, inbox, datagram>>

LockAzimuth ==
  /\ orientation_pc = "lock_azimuth"
  /\ azimuth_mutex = Free
  /\ azimuth_mutex' = "orientation"
  /\ orientation_pc' = "pop_front"
  /\ UNCHANGED <<socket_mutex, cliaddr, azimuth_buffer, inbox, datagram>>

(* Mutated form: pops when the window has already overflowed. *)
PopFrontLate ==
  /\ orientation_pc = "pop_front"
  /\ azimuth_buffer' = IF Len(azimuth_buffer) > MOVING_AVG_SIZE
                         THEN Tail(azimuth_buffer)
                         ELSE azimuth_buffer
  /\ orientation_pc' = "push_back"
  /\ UNCHANGED <<socket_mutex, azimuth_mutex, cliaddr, inbox, datagram>>

(* Mutated form: makes room for one reading too many. *)
PopFrontEarly ==
  /\ orientation_pc = "pop_front"
  /\ azimuth_buffer' = IF Len(azimuth_buffer) + 1 = MOVING_AVG_SIZE
                         THEN Tail(azimuth_buffer)
                         ELSE azimuth_buffer
  /\ orientation_pc' = "push_back"
  /\ UNCHANGED <<socket_mutex, azimuth_mutex, cliaddr, inbox, datagram>>

PopFront ==
  /\ orientation_pc = "pop_front"
  /\ azimuth_buffer' = IF Len(azimuth_buffer) = MOVING_AVG_SIZE
                         THEN Tail(azimuth_buffer)
                         ELSE azimuth_buffer
  /\ orientation_pc' = "push_back"
  /\ UNCHANGED <<socket_mutex, azimuth_mutex, cliaddr, inbox, datagram>>

(* Mutated form: the reading enters at the old end. *)
PushFront ==
  /\ orientation_pc = "push_back"
  /\ azimuth_buffer' = <<datagram>> \o azimuth_buffer
  /\ azimuth_mutex' = Free
  /\ orientation_pc' = "lock_socket"
  /\ UNCHANGED <<socket_mutex, cliaddr, inbox, datagram>>

PushBack ==
  /\ orientation_pc = "push_back"
  /\ azimuth_buffer' = Append(azimuth_buffer, datagram)
  /\ azimuth_mutex' = Free
  /\ orientation_pc' = "lock_socket"
  /\ UNCHANGED <<socket_mutex, cliaddr, inbox, datagram>>

(* The steps of the thread itself. *)
ReadOrientation ==
  LockSocket \/ Recvfrom \/ RecvfromFails \/ LockAzimuth \/ PopFront \/ PushBack

===============================================================================
