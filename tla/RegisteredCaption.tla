-------------------------- MODULE RegisteredCaption ---------------------------
(***************************************************************************)
(* The geometry of render_registered_captions and rectangle_intersection:  *)
(* a caption has its place under the juror who speaks, and what is drawn   *)
(* of it is the part that lies in the field of view around the direction   *)
(* of the wearer's head.                                                   *)
(*                                                                         *)
(* Rectangles are SDL_Rects: their fields and every sum and difference of  *)
(* them are ints.  A sum that overflows wraps around, as it does on the    *)
(* machines the program is built for.                                      *)
(***************************************************************************)
EXTENDS Integers

CONSTANTS
  IntHalf,       \* ints are -IntHalf .. IntHalf - 1 (2^31 in the code)
  TextPosition,  \* where captions may be placed: records with x and y
  TextSize,      \* how large a rendered caption may be: records with w and h
  AzimuthX,      \* the pixel positions azimuths are mapped to
  HalfFov,       \* angle_to_pixel_position(to_radians(HALF_FOV))
  WindowHeight   \* the heights the window may have

CInt == -IntHalf .. IntHalf - 1
Rect == [x : CInt, y : CInt, w : CInt, h : CInt]

ASSUME IntAssumption == IntHalf \in Nat \ {0}

(* Captions are on the screen, far enough from the largest int for the     *)
(* field of view not to reach it.                                          *)
ASSUME ScreenAssumption ==
  /\ AzimuthX \subseteq CInt
  /\ WindowHeight \subseteq CInt
  /\ HalfFov \in Nat
  /\ 2 * HalfFov <= IntHalf
  /\ \A text \in TextPosition : text.x \in Nat /\ text.y \in Nat
  /\ \A size \in TextSize : size.w \in Nat /\ size.h \in Nat
  /\ \A text \in TextPosition, size \in TextSize :
       /\ text.x + size.w + 2 * HalfFov <= IntHalf
       /\ text.y + size.h < IntHalf

VARIABLES
  surface_rect,  \* the whole caption on the screen
  azimuth_x,     \* where the wearer looks
  fov_height,    \* the height of the window
  drawn          \* source and destination of SDL_RenderCopy, if it is called

vars == <<surface_rect, azimuth_x, fov_height, drawn>>

-------------------------------------------------------------------------------
Larger(i, j) == IF i >= j THEN i ELSE j
Smaller(i, j) == IF i <= j THEN i ELSE j

(* int arithmetic. *)
Wrap(i) ==
  IF i >= IntHalf THEN i - 2 * IntHalf ELSE IF i < -IntHalf THEN i + 2 * IntHalf ELSE i

Right(r) == Wrap(r.x + r.w)
Bottom(r) == Wrap(r.y + r.h)

(* The rectangle from (left, top) to (right, bottom), these excluded. *)
Corners(left, top, right, bottom) ==
  [x |-> left, y |-> top, w |-> Wrap(right - left), h |-> Wrap(bottom - top)]

(* The intersection as a set of at most one rectangle: std::optional. *)
RectangleIntersection(a, b) ==
  LET left == Larger(a.x, b.x)
      top == Larger(a.y, b.y)
      right == Smaller(Right(a), Right(b))
      bottom == Smaller(Bottom(a), Bottom(b))
  IN  IF left >= right \/ top >= bottom
        THEN {} ELSE {Corners(left, top, right, bottom)}

FovRegion(middle, height) ==
  LET fov_x == Wrap(middle - HalfFov)
      fov_x_2 == Wrap(middle + HalfFov)
  IN  [x |-> fov_x, y |-> 0, w |-> Wrap(fov_x_2 - fov_x), h |-> height]

(* Mutated form: the beginning of the text is drawn, whatever part of it   *)
(* is in view.                                                             *)
ClipFromStart(intersection, surface) ==
  [x |-> 0, y |-> 0, w |-> intersection.w, h |-> intersection.h]

(* Which part of the text surface is drawn at the intersection. *)
ClipRegion(intersection, surface) ==
  [x |-> Wrap(intersection.x - surface.x), y |-> Wrap(intersection.y - surface.y),
   w |-> intersection.w, h |-> intersection.h]

-------------------------------------------------------------------------------
Init ==
  /\ surface_rect = [x |-> 0, y |-> 0, w |-> 0, h |-> 0]
  /\ azimuth_x = 0
  /\ fov_height = 0
  /\ drawn = {}

RenderRegisteredCaptions ==
  /\ \E text \in TextPosition, size \in TextSize :
       surface_rect' = [x |-> text.x, y |-> text.y, w |-> size.w, h |-> size.h]
  /\ azimuth_x' \in AzimuthX
  /\ fov_height' \in WindowHeight
  /\ drawn' = {[source |-> ClipRegion(intersection, surface_rect'),
                destination |-> intersection] :
                 intersection \in RectangleIntersection(surface_rect',
                                    FovRegion(azimuth_x', fov_height'))}

Next == RenderRegisteredCaptions

Spec == Init /\ [][Next]_vars

-------------------------------------------------------------------------------
(* Pixel (x, y) lies in r. *)
Covers(r, x, y) == r.x <= x /\ x < r.x + r.w /\ r.y <= y /\ y < r.y + r.h

InView(x, y) ==
  /\ azimuth_x - HalfFov <= x /\ x < azimuth_x + HalfFov
  /\ 0 <= y /\ y < fov_height

(* A pixel of the caption is drawn if and only if it is in the wearer's    *)
(* field of view, for every azimuth: also for those near a right angle,    *)
(* whose pixel position leaves the range of int                            *)
(* (presentation_methods.cpp:104-133).                                     *)
DrawsWhatIsInView ==
  \A x, y \in CInt :
    (\E blit \in drawn : Covers(blit.destination, x, y))
      <=> Covers(surface_rect, x, y) /\ InView(x, y)

(* Clipping does not move the text: the pixel drawn at a place is the one  *)
(* the whole caption has there, and it exists: "this won't ever be         *)
(* negative" (presentation_methods.cpp:135-149).                           *)
ClipsInPlace ==
  \A blit \in drawn :
    LET source == blit.source
        destination == blit.destination
    IN  /\ source.x + surface_rect.x = destination.x
        /\ source.y + surface_rect.y = destination.y
        /\ source.w = destination.w /\ source.h = destination.h
        /\ source.x >= 0 /\ source.x + source.w <= surface_rect.w
        /\ source.y >= 0 /\ source.y + source.h <= surface_rect.h
        /\ source.w > 0 /\ source.h > 0

===============================================================================
