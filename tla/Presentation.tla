------------------------------ MODULE Presentation ------------------------------
(***************************************************************************)
(* Where a frame has its captions, for the three presentation methods that *)
(* show any: under the juror who speaks (RegisteredCaption), or in front   *)
(* of the wearer, with or without an arrow beside the text.  A frame for   *)
(* which nobody has spoken draws nothing and is a stuttering step.         *)
(*                                                                         *)
(* The arrow's x is computed in doubles and then converted to int.  A      *)
(* double out of range becomes the smallest int on x86 and the int nearest *)
(* to it on ARM; C++ leaves it undefined.                                  *)
(***************************************************************************)
EXTENDS RegisteredCaption

CONSTANTS
  ScreenWidth,  \* SCREEN_PIXEL_WIDTH
  CaptionY,     \* the values of AppContext::y
  ArrowSize     \* how large both arrows are: a record with w and h

ASSUME WidthAssumption == ScreenWidth \in Nat /\ ScreenWidth < IntHalf
ASSUME PlacementAssumption ==
  /\ CaptionY \subseteq CInt
  /\ \A size \in TextSize : size.w \in CInt /\ size.h \in CInt
  /\ ArrowSize \in [w : CInt, h : CInt] /\ ArrowSize.w >= 0

VARIABLES
  presentation_method,
  text_rect,  \* where the last frame has its text, as a set of at most one
  arrow_rect  \* ... and its arrow

presentationVars == <<vars, presentation_method, text_rect, arrow_rect>>

NonRegistered == {"NONREGISTERED_GRAPHICS", "NONREGISTERED_GRAPHICS_WITH_ARROWS"}

PresentationInit ==
  /\ Init
  /\ presentation_method \in NonRegistered \cup {"REGISTERED_GRAPHICS"}
  /\ text_rect = {}
  /\ arrow_rect = {}

-------------------------------------------------------------------------------
(* Mutated form: no conversion. *)
StaysDouble(v) == {v}

(* What a conversion from double to int can give. *)
ToInt(v) == IF v \in CInt THEN {v} ELSE {-IntHalf, IntHalf - 1}

RectAt(x, y, size) == [x |-> x, y |-> y, w |-> size.w, h |-> size.h]

(* Mutated form: the arrow is drawn over the text. *)
ArrowOverText(left_x, text_width) == ToInt(left_x)

(* The left edge of the arrow.  It is always the forward arrow: the code   *)
(* sets should_show_back_arrow and should_show_forward_arrow to constants. *)
ArrowX(left_x, text_width) == ToInt(left_x + text_width)

Register ==
  /\ presentation_method = "REGISTERED_GRAPHICS"
  /\ RenderRegisteredCaptions
  /\ UNCHANGED <<presentation_method, text_rect, arrow_rect>>

RenderNonregisteredCaptions ==
  /\ presentation_method = "NONREGISTERED_GRAPHICS"
  /\ \E left_x \in AzimuthX, y \in CaptionY, size \in TextSize :
       text_rect' = {RectAt(left_x, y, size)}
  /\ arrow_rect' = {}
  /\ UNCHANGED <<vars, presentation_method>>

(* render_nonregistered_captions_with_indicators; y is read twice. *)
RenderWithIndicators ==
  /\ presentation_method = "NONREGISTERED_GRAPHICS_WITH_ARROWS"
  /\ \E left_x \in AzimuthX, text_y \in CaptionY, arrow_y \in CaptionY, size \in TextSize :
       /\ text_rect' = {RectAt(left_x, text_y, size)}
       /\ \E x \in ArrowX(left_x, size.w) : arrow_rect' = {RectAt(x, arrow_y, ArrowSize)}
  /\ UNCHANGED <<vars, presentation_method>>

PresentationNext == Register \/ RenderNonregisteredCaptions \/ RenderWithIndicators

PresentationSpec == PresentationInit /\ [][PresentationNext]_presentationVars

-------------------------------------------------------------------------------
PlacementTypeOK ==
  /\ presentation_method \in NonRegistered \cup {"REGISTERED_GRAPHICS"}
  /\ text_rect \subseteq Rect
  /\ arrow_rect \subseteq Rect

(* Some column of the screen is covered by r. *)
Visible(r) == r.x < ScreenWidth /\ r.x + r.w > 0

(* An arrow that can be seen begins where its text ends, whichever way the *)
(* head is turned: where the sum leaves the range of int, the arrow leaves *)
(* the screen, and it never jumps to the other side of it                  *)
(* (presentation_methods.cpp:70-78).                                       *)
ArrowBesideText ==
  \A arrow \in arrow_rect, text \in text_rect :
    Visible(arrow) => arrow.x = text.x + text.w

===============================================================================
