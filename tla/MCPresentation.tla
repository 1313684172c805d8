---------------------------- MODULE MCPresentation ----------------------------
(* A small screen, ints of five bits and every azimuth, for TLC. *)
EXTENDS Presentation

MCTextPosition == [x : {0, 5}, y : {0, 3}]
MCTextSize == [w : {1, 5}, h : {1, 2}]
MCWindowHeight == {0, 4}
MCCaptionY == {-3, 0, 3}
MCArrowSize == [w |-> 2, h |-> 1]

===============================================================================
