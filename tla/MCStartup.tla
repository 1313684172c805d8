------------------------------- MODULE MCStartup -------------------------------
(* A small instance of Startup for TLC. *)
EXTENDS Startup

(* The ends of the range of sections, and two sizes of font. *)
MCNumber == {0, 1, 4, 5, FONT_SIZE_SMALL}
MCCaptionedSection == 1 .. 4

===============================================================================
