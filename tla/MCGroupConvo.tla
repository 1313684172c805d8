----------------------------- MODULE MCGroupConvo -----------------------------
(* Small instances of GroupConvo for TLC. *)
EXTENDS GroupConvo

CONSTANTS a1, a2, phone, phone2, ja, jb, foreman, stranger, t1, t2, t3

(* The first caption has its own delay, the third comes before the second. *)
MCCaptions ==
  << [speaker |-> ja, text |-> t1, delay |-> 1],
     [speaker |-> ja, text |-> t2, delay |-> 2],
     [speaker |-> jb, text |-> t3, delay |-> 1] >>

(* A speaker comes back after another one has spoken. *)
MCReturningSpeaker ==
  << [speaker |-> ja, text |-> t1, delay |-> 0],
     [speaker |-> jb, text |-> t2, delay |-> 1],
     [speaker |-> ja, text |-> t3, delay |-> 1] >>

(* The second caption's speaker is none of the jurors. *)
MCUnknownSpeaker ==
  << [speaker |-> ja, text |-> t1, delay |-> 0],
     [speaker |-> stranger, text |-> t2, delay |-> 1] >>

MCSingle == << [speaker |-> ja, text |-> t1, delay |-> 0] >>

MCFiles == {MCCaptions, MCReturningSpeaker}
MCShortFiles == {MCSingle, MCUnknownSpeaker}

(* Two speakers, the second one later. *)
MCTwoSpeakers ==
  << [speaker |-> ja, text |-> t1, delay |-> 0],
     [speaker |-> jb, text |-> t2, delay |-> 1] >>

MCOneFile == {MCTwoSpeakers}

===============================================================================
