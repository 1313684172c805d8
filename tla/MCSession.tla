------------------------------- MODULE MCSession -------------------------------
(* Small instances of Session for TLC. *)
EXTENDS Session

MCWide == [w |-> 8, h |-> 4]
MCTall == [w |-> 4, h |-> 8]
MCSizes == {MCWide, MCTall}

===============================================================================
