---------------------------- MODULE GeometryProofs ----------------------------
(***************************************************************************)
(* The clipping of registered captions is exact, and the other captions    *)
(* keep their arrow, for every screen, caption and azimuth.                *)
(***************************************************************************)
EXTENDS Presentation, TLAPS

(* What render_registered_captions draws, for given inputs. *)
Blits(surface, middle, height) ==
  {[source |-> ClipRegion(i, surface), destination |-> i] :
     i \in RectangleIntersection(surface, FovRegion(middle, height))}

OnScreen(surface) ==
  /\ surface \in [x : Nat, y : Nat, w : Nat, h : Nat]
  /\ surface.x + surface.w + 2 * HalfFov <= IntHalf
  /\ surface.y + surface.h < IntHalf

(* The four edges of the field of view: where they should be, or, when one *)
(* of the sums overflows, a region that lies right of everything on the    *)
(* screen and ends left of it.                                             *)
LEMMA FovEdges ==
  ASSUME NEW middle \in CInt, NEW height \in CInt
  PROVE  LET fov == FovRegion(middle, height)
         IN  /\ fov.x \in Int /\ fov.y = 0
             /\ Right(fov) \in Int /\ Bottom(fov) = height
             /\ \/ fov.x = middle - HalfFov /\ Right(fov) = middle + HalfFov
                \/ Right(fov) <= 0
<1> DEFINE fov_x == Wrap(middle - HalfFov)
           fov_x_2 == Wrap(middle + HalfFov)
           fov == FovRegion(middle, height)
<1>1. IntHalf \in Nat /\ HalfFov \in Nat /\ 2 * HalfFov <= IntHalf
      /\ middle \in Int /\ height \in Int /\ -IntHalf <= middle /\ middle < IntHalf /\ -IntHalf <= height /\ height < IntHalf
  BY IntAssumption, ScreenAssumption DEF CInt
<1>2. fov.x = fov_x /\ fov.y = 0 /\ fov.w = Wrap(fov_x_2 - fov_x) /\ fov.h = height
  BY DEF FovRegion
<1>3. fov_x \in Int /\ fov_x_2 \in Int /\ -IntHalf <= fov_x /\ fov_x < IntHalf
  BY <1>1 DEF Wrap
<1>4. Wrap(fov_x_2 - fov_x) = 2 * HalfFov \/ (2 * HalfFov = IntHalf /\ Wrap(fov_x_2 - fov_x) = -IntHalf)
  BY <1>1 DEF Wrap
<1>5. Right(fov) = Wrap(fov_x + fov.w)
  BY <1>2 DEF Right
<1>6. Bottom(fov) = height
  BY <1>1, <1>2 DEF Bottom, Wrap
<1>7. Right(fov) \in Int
  BY <1>1, <1>2, <1>3, <1>4, <1>5 DEF Wrap
<1>8. \/ fov_x = middle - HalfFov /\ Right(fov) = middle + HalfFov
      \/ Right(fov) <= 0
  BY <1>1, <1>2, <1>4, <1>5 DEF Wrap
<1> QED BY <1>2, <1>3, <1>6, <1>7, <1>8

-------------------------------------------------------------------------------
(* When part of the caption is in the field of view, the intersection is   *)
(* that part, to the pixel, and both ends of the clipping are in place.    *)
LEMMA IntersectionEdges ==
  ASSUME NEW surface, OnScreen(surface), NEW middle \in CInt, NEW height \in CInt,
         NEW i \in RectangleIntersection(surface, FovRegion(middle, height))
  PROVE  /\ i.x = Larger(surface.x, middle - HalfFov)
         /\ i.y = Larger(surface.y, 0)
         /\ i.w = Smaller(surface.x + surface.w, middle + HalfFov) - i.x
         /\ i.h = Smaller(surface.y + surface.h, height) - i.y
         /\ i.w > 0 /\ i.h > 0
<1> DEFINE fov == FovRegion(middle, height)
           left == Larger(surface.x, fov.x)
           top == Larger(surface.y, fov.y)
           right == Smaller(Right(surface), Right(fov))
           bottom == Smaller(Bottom(surface), Bottom(fov))
<1>1. /\ IntHalf \in Nat /\ HalfFov \in Nat
      /\ middle \in Int /\ height \in Int
      /\ surface.x \in Nat /\ surface.y \in Nat /\ surface.w \in Nat /\ surface.h \in Nat
      /\ surface.x + surface.w <= IntHalf /\ surface.y + surface.h < IntHalf
      /\ surface.x + surface.w + 2 * HalfFov <= IntHalf
      /\ -IntHalf <= middle /\ middle < IntHalf /\ height < IntHalf
  BY IntAssumption, ScreenAssumption DEF CInt, OnScreen
<1>2. /\ fov.x \in Int /\ fov.y = 0
      /\ Right(fov) \in Int /\ Bottom(fov) = height
      /\ \/ fov.x = middle - HalfFov /\ Right(fov) = middle + HalfFov
         \/ Right(fov) <= 0
  BY FovEdges
<1>3. Bottom(surface) = surface.y + surface.h
  BY <1>1 DEF Bottom, Wrap
<1>4. \/ Right(surface) = surface.x + surface.w /\ surface.x + surface.w < IntHalf
      \/ Right(surface) = -IntHalf
  BY <1>1 DEF Right, Wrap
<1>5. left < right /\ top < bottom /\ i = Corners(left, top, right, bottom)
  <2>1. left \in Int /\ top \in Int /\ right \in Int /\ bottom \in Int
    <3> HIDE DEF fov
    <3> QED BY <1>1, <1>2, <1>3, <1>4 DEF Larger, Smaller
  <2>2. i \in IF left >= right \/ top >= bottom
                THEN {} ELSE {Corners(left, top, right, bottom)}
    BY DEF RectangleIntersection
  <2> HIDE DEF left, top, right, bottom
  <2> QED BY <2>1, <2>2
<1>6. /\ fov.x = middle - HalfFov /\ Right(fov) = middle + HalfFov
      /\ Right(surface) = surface.x + surface.w /\ surface.x + surface.w < IntHalf
  <2> HIDE DEF fov
  <2> QED BY <1>1, <1>2, <1>4, <1>5 DEF Larger, Smaller
<1>7. /\ left = Larger(surface.x, middle - HalfFov)
      /\ top = Larger(surface.y, 0)
      /\ right = Smaller(surface.x + surface.w, middle + HalfFov)
      /\ bottom = Smaller(surface.y + surface.h, height)
  BY <1>2, <1>3, <1>6
<1>8. left >= 0 /\ right < IntHalf /\ top >= 0 /\ bottom < IntHalf
  <2> HIDE DEF left, top, right, bottom
  <2> QED BY <1>1, <1>6, <1>7 DEF Larger, Smaller
<1> HIDE DEF left, top, right, bottom
<1> QED BY <1>1, <1>5, <1>7, <1>8 DEF Corners, Wrap, Larger, Smaller

(* When no part of the caption is in the field of view, no pixel of it is. *)
LEMMA NoIntersection ==
  ASSUME NEW surface, OnScreen(surface), NEW middle \in CInt, NEW height \in CInt,
         RectangleIntersection(surface, FovRegion(middle, height)) = {},
         NEW x \in CInt, NEW y \in CInt, Covers(surface, x, y),
         middle - HalfFov <= x, x < middle + HalfFov, 0 <= y, y < height
  PROVE  FALSE
<1> DEFINE fov == FovRegion(middle, height)
           left == Larger(surface.x, fov.x)
           top == Larger(surface.y, fov.y)
           right == Smaller(Right(surface), Right(fov))
           bottom == Smaller(Bottom(surface), Bottom(fov))
<1>1. /\ IntHalf \in Nat /\ HalfFov \in Nat /\ 2 * HalfFov <= IntHalf
      /\ middle \in Int /\ height \in Int /\ x \in Int /\ y \in Int
      /\ surface.x \in Nat /\ surface.y \in Nat /\ surface.w \in Nat /\ surface.h \in Nat
      /\ surface.x + surface.w + 2 * HalfFov <= IntHalf
      /\ surface.y + surface.h < IntHalf
      /\ -IntHalf <= middle /\ middle < IntHalf /\ height < IntHalf
  BY IntAssumption, ScreenAssumption DEF CInt, OnScreen
<1>2. /\ surface.x <= x /\ x < surface.x + surface.w
      /\ surface.y <= y /\ y < surface.y + surface.h
  BY DEF Covers
<1>3. HalfFov > 0
  BY <1>1
<1>4. Right(surface) = surface.x + surface.w /\ Bottom(surface) = surface.y + surface.h
  BY <1>1, <1>3 DEF Right, Bottom, Wrap
<1>5. fov.x = middle - HalfFov /\ Right(fov) = middle + HalfFov
  <2>1. -IntHalf <= middle - HalfFov /\ middle + HalfFov < IntHalf
    BY <1>1, <1>2, <1>3
  <2>2. Wrap(middle - HalfFov) = middle - HalfFov /\ Wrap(middle + HalfFov) = middle + HalfFov
    BY <1>1, <2>1 DEF Wrap
  <2>3. fov.x = middle - HalfFov
    BY <2>2 DEF FovRegion
  <2>4. fov.w = Wrap(2 * HalfFov)
    <3>1. (middle + HalfFov) - (middle - HalfFov) = 2 * HalfFov
      BY <1>1
    <3> QED BY <2>2, <3>1 DEF FovRegion
  <2>5. Right(fov) = middle + HalfFov
    <3> HIDE DEF fov
    <3> QED BY <1>1, <2>1, <2>3, <2>4 DEF Right, Wrap
  <2> QED BY <2>3, <2>5
<1>6. fov.y = 0 /\ Bottom(fov) = height
  BY FovEdges
<1>7. left >= right \/ top >= bottom
  <2>1. (IF left >= right \/ top >= bottom
           THEN {} ELSE {Corners(left, top, right, bottom)}) = {}
    BY DEF RectangleIntersection
  <2> HIDE DEF left, top, right, bottom
  <2> QED BY <2>1
<1> HIDE DEF fov
<1> QED BY <1>1, <1>2, <1>4, <1>5, <1>6, <1>7 DEF Larger, Smaller

-------------------------------------------------------------------------------
(* What is on the screen is what the last call drew. *)
GInv ==
  /\ OnScreen(surface_rect)
  /\ azimuth_x \in CInt
  /\ fov_height \in CInt
  /\ drawn = Blits(surface_rect, azimuth_x, fov_height)

LEMMA NoTextNothingDrawn ==
  ASSUME NEW surface, surface = [x |-> 0, y |-> 0, w |-> 0, h |-> 0]
  PROVE  OnScreen(surface) /\ Blits(surface, 0, 0) = {}
<1>1. OnScreen(surface) /\ 0 \in CInt
  BY IntAssumption, ScreenAssumption DEF OnScreen, CInt
<1>2. ASSUME NEW i \in RectangleIntersection(surface, FovRegion(0, 0))
      PROVE  FALSE
  <2>1. i.y = Larger(surface.y, 0) /\ i.h = Smaller(surface.y + surface.h, 0) - i.y /\ i.h > 0
    BY <1>1, IntersectionEdges
  <2> QED BY <2>1 DEF Larger, Smaller
<1> QED BY <1>1, <1>2 DEF Blits

LEMMA GInvHolds == Spec => []GInv
<1>1. Init => GInv
  BY NoTextNothingDrawn, IntAssumption DEF Init, GInv, CInt
<1>2. GInv /\ [Next]_vars => GInv'
  <2> SUFFICES ASSUME GInv, [Next]_vars PROVE GInv'
    OBVIOUS
  <2>1. CASE RenderRegisteredCaptions
    <3>1. PICK text \in TextPosition, size \in TextSize :
            surface_rect' = [x |-> text.x, y |-> text.y, w |-> size.w, h |-> size.h]
      BY <2>1 DEF RenderRegisteredCaptions
    <3>2. OnScreen(surface_rect')
      BY <3>1, ScreenAssumption DEF OnScreen
    <3>3. azimuth_x' \in CInt /\ fov_height' \in CInt
      BY <2>1, ScreenAssumption DEF RenderRegisteredCaptions
    <3>4. drawn' = Blits(surface_rect', azimuth_x', fov_height')
      BY <2>1 DEF RenderRegisteredCaptions, Blits
    <3> QED BY <3>2, <3>3, <3>4 DEF GInv, OnScreen
  <2>2. CASE UNCHANGED vars
    BY <2>2 DEF GInv, vars, OnScreen, Blits
  <2> QED BY <2>1, <2>2 DEF Next
<1> QED BY <1>1, <1>2, PTL DEF Spec

(* The other presentation methods leave the registered caption alone. *)
LEMMA OthersStutter == PresentationSpec => Spec
<1>1. PresentationInit => Init
  BY DEF PresentationInit
<1>2. [PresentationNext]_presentationVars => [Next]_vars
  BY DEF PresentationNext, presentationVars, Register, RenderNonregisteredCaptions,
         RenderWithIndicators, Next
<1> QED BY <1>1, <1>2, PTL DEF Spec, PresentationSpec

(* Every pixel of a registered caption is drawn if and only if it is in    *)
(* the wearer's field of view, for every screen, caption and azimuth       *)
(* (presentation_methods.cpp:104-133).                                     *)
THEOREM DrawsWhatIsInViewHolds == PresentationSpec => []DrawsWhatIsInView
<1>1. GInv => DrawsWhatIsInView
  <2> SUFFICES ASSUME GInv, NEW x \in CInt, NEW y \in CInt
               PROVE  (\E blit \in drawn : Covers(blit.destination, x, y))
                        <=> Covers(surface_rect, x, y) /\ InView(x, y)
    BY DEF DrawsWhatIsInView
  <2> DEFINE found == RectangleIntersection(surface_rect, FovRegion(azimuth_x, fov_height))
  <2>0. /\ HalfFov \in Nat /\ azimuth_x \in Int /\ fov_height \in Int /\ x \in Int /\ y \in Int
        /\ surface_rect.x \in Nat /\ surface_rect.y \in Nat
        /\ surface_rect.w \in Nat /\ surface_rect.h \in Nat
    BY ScreenAssumption, IntAssumption DEF GInv, CInt, OnScreen
  <2>1. (\E blit \in drawn : Covers(blit.destination, x, y))
          <=> \E i \in found : Covers(i, x, y)
    <3>1. drawn = {[source |-> ClipRegion(i, surface_rect), destination |-> i] : i \in found}
      BY DEF GInv, Blits
    <3>2. ASSUME NEW i \in found
          PROVE  [source |-> ClipRegion(i, surface_rect), destination |-> i] \in drawn
      BY <3>1
    <3>3. ASSUME NEW blit \in drawn
          PROVE  blit.destination \in found
      <4>1. PICK i \in found :
              blit = [source |-> ClipRegion(i, surface_rect), destination |-> i]
        BY <3>1
      <4> QED BY <4>1
    <3>4. ASSUME NEW i \in found, Covers(i, x, y)
          PROVE  \E blit \in drawn : Covers(blit.destination, x, y)
      <4> DEFINE blit == [source |-> ClipRegion(i, surface_rect), destination |-> i]
      <4>1. blit \in drawn /\ blit.destination = i
        BY <3>2
      <4> QED BY <3>4, <4>1
    <3> QED BY <3>3, <3>4
  <2>2. ASSUME NEW i \in found
        PROVE  Covers(i, x, y) <=> Covers(surface_rect, x, y) /\ InView(x, y)
    <3>1. /\ i.x = Larger(surface_rect.x, azimuth_x - HalfFov)
          /\ i.y = Larger(surface_rect.y, 0)
          /\ i.w = Smaller(surface_rect.x + surface_rect.w, azimuth_x + HalfFov) - i.x
          /\ i.h = Smaller(surface_rect.y + surface_rect.h, fov_height) - i.y
      BY <2>2, IntersectionEdges DEF GInv
    <3> HIDE DEF found
    <3> QED BY <2>0, <3>1 DEF Covers, InView, Larger, Smaller
  <2>3. found = {} => ~ (Covers(surface_rect, x, y) /\ InView(x, y))
    BY NoIntersection DEF GInv, InView
  <2> QED BY <2>1, <2>2, <2>3
<1> QED BY <1>1, GInvHolds, OthersStutter, PTL

(* Clipping never reads outside the text surface and never moves the text, *)
(* for every screen, caption and azimuth                                   *)
(* (presentation_methods.cpp:135-149).                                     *)
THEOREM ClipsInPlaceHolds == PresentationSpec => []ClipsInPlace
<1>1. GInv => ClipsInPlace
  <2> SUFFICES ASSUME GInv, NEW blit \in drawn
               PROVE  LET source == blit.source
                          destination == blit.destination
                      IN  /\ source.x + surface_rect.x = destination.x
                          /\ source.y + surface_rect.y = destination.y
                          /\ source.w = destination.w /\ source.h = destination.h
                          /\ source.x >= 0 /\ source.x + source.w <= surface_rect.w
                          /\ source.y >= 0 /\ source.y + source.h <= surface_rect.h
                          /\ source.w > 0 /\ source.h > 0
    BY DEF ClipsInPlace
  <2>1. PICK i \in RectangleIntersection(surface_rect, FovRegion(azimuth_x, fov_height)) :
          blit = [source |-> ClipRegion(i, surface_rect), destination |-> i]
    BY DEF GInv, Blits
  <2>2. /\ i.x = Larger(surface_rect.x, azimuth_x - HalfFov)
        /\ i.y = Larger(surface_rect.y, 0)
        /\ i.w = Smaller(surface_rect.x + surface_rect.w, azimuth_x + HalfFov) - i.x
        /\ i.h = Smaller(surface_rect.y + surface_rect.h, fov_height) - i.y
        /\ i.w > 0 /\ i.h > 0
    BY IntersectionEdges DEF GInv
  <2>3. /\ IntHalf \in Nat /\ HalfFov \in Nat /\ azimuth_x \in Int /\ fov_height \in Int
        /\ surface_rect.x \in Nat /\ surface_rect.y \in Nat
        /\ surface_rect.w \in Nat /\ surface_rect.h \in Nat
        /\ surface_rect.x + surface_rect.w <= IntHalf
        /\ surface_rect.y + surface_rect.h < IntHalf
    BY ScreenAssumption, IntAssumption DEF GInv, CInt, OnScreen
  <2>4. /\ i.x \in Int /\ i.y \in Int /\ i.w \in Int /\ i.h \in Int
        /\ i.x - surface_rect.x >= 0 /\ i.y - surface_rect.y >= 0
        /\ i.x - surface_rect.x + i.w <= surface_rect.w
        /\ i.y - surface_rect.y + i.h <= surface_rect.h
    BY <2>2, <2>3 DEF Larger, Smaller
  <2>5. /\ Wrap(i.x - surface_rect.x) = i.x - surface_rect.x
        /\ Wrap(i.y - surface_rect.y) = i.y - surface_rect.y
    BY <2>2, <2>3, <2>4 DEF Wrap
  <2>6. /\ blit.source = [x |-> i.x - surface_rect.x, y |-> i.y - surface_rect.y,
                          w |-> i.w, h |-> i.h]
        /\ blit.destination = i
    BY <2>1, <2>5 DEF ClipRegion
  <2> QED BY <2>2, <2>3, <2>4, <2>6
<1> QED BY <1>1, GInvHolds, OthersStutter, PTL

-------------------------------------------------------------------------------
LEMMA Conversion ==
  ASSUME NEW v \in Int, NEW x \in ToInt(v)
  PROVE  x \in CInt /\ (x = v \/ x = -IntHalf \/ x = IntHalf - 1)
BY IntAssumption DEF ToInt, CInt

LEMMA RectIsRect ==
  ASSUME NEW x \in CInt, NEW y \in CInt, NEW size, size.w \in CInt, size.h \in CInt
  PROVE  RectAt(x, y, size) \in Rect
BY DEF RectAt, Rect

(* The arrow was placed from the text of its own frame. *)
PlacedByText ==
  \A arrow \in arrow_rect, text \in text_rect :
    arrow.w = ArrowSize.w /\ arrow.x \in ToInt(text.x + text.w)

PInv == PlacementTypeOK /\ PlacedByText

LEMMA PInvHolds == PresentationSpec => []PInv
<1>1. PresentationInit => PInv
  BY DEF PresentationInit, PInv, PlacementTypeOK, PlacedByText
<1>2. PInv /\ [PresentationNext]_presentationVars => PInv'
  <2> SUFFICES ASSUME PInv, [PresentationNext]_presentationVars PROVE PInv'
    OBVIOUS
  <2>0. PlacementTypeOK /\ PlacedByText
    BY DEF PInv
  <2>1. CASE Register \/ UNCHANGED presentationVars
    BY <2>0, <2>1
    DEF Register, presentationVars, PInv, PlacementTypeOK, PlacedByText
  <2>2. CASE RenderNonregisteredCaptions
    <3>1. PICK left_x \in AzimuthX, y \in CaptionY, size \in TextSize :
            text_rect' = {RectAt(left_x, y, size)}
      BY <2>2 DEF RenderNonregisteredCaptions
    <3>2. RectAt(left_x, y, size) \in Rect
      BY ScreenAssumption, PlacementAssumption, RectIsRect
    <3>3. PlacementTypeOK'
      BY <2>0, <2>2, <3>1, <3>2 DEF RenderNonregisteredCaptions, PlacementTypeOK
    <3>4. PlacedByText'
      BY <2>2 DEF RenderNonregisteredCaptions, PlacedByText
    <3> QED BY <3>3, <3>4 DEF PInv
  <2>3. CASE RenderWithIndicators
    <3>0. PICK left_x \in AzimuthX, text_y \in CaptionY, arrow_y \in CaptionY,
               size \in TextSize :
            /\ text_rect' = {RectAt(left_x, text_y, size)}
            /\ \E x \in ToInt(left_x + size.w) :
                 arrow_rect' = {RectAt(x, arrow_y, ArrowSize)}
      BY <2>3 DEF RenderWithIndicators, ArrowX
    <3>1. PICK x \in ToInt(left_x + size.w) :
            /\ text_rect' = {RectAt(left_x, text_y, size)}
            /\ arrow_rect' = {RectAt(x, arrow_y, ArrowSize)}
      BY <3>0
    <3>2. /\ left_x \in CInt /\ text_y \in CInt /\ arrow_y \in CInt
          /\ size.w \in CInt /\ size.h \in CInt
          /\ ArrowSize.w \in CInt /\ ArrowSize.h \in CInt
      BY ScreenAssumption, PlacementAssumption
    <3>3. left_x + size.w \in Int
      BY <3>2, IntAssumption DEF CInt
    <3>4. x \in CInt
      BY <3>3, Conversion
    <3>5. RectAt(left_x, text_y, size) \in Rect /\ RectAt(x, arrow_y, ArrowSize) \in Rect
      BY <3>2, <3>4, RectIsRect
    <3>6. PlacementTypeOK'
      BY <2>0, <2>3, <3>1, <3>5 DEF RenderWithIndicators, PlacementTypeOK
    <3>7. \A arrow \in arrow_rect' : arrow.x = x /\ arrow.w = ArrowSize.w
      BY <3>1 DEF RectAt
    <3>8. \A text \in text_rect' : text.x = left_x /\ text.w = size.w
      BY <3>1 DEF RectAt
    <3>9. PlacedByText'
      BY <3>7, <3>8 DEF PlacedByText
    <3> QED BY <3>6, <3>9 DEF PInv
  <2> QED BY <2>1, <2>2, <2>3 DEF PresentationNext
<1> QED BY <1>1, <1>2, PTL DEF PresentationSpec

(* Both rectangles of a frame are SDL_Rects of ints                        *)
(* (presentation_methods.cpp:42-79).                                       *)
THEOREM PlacementTypeCorrectness == PresentationSpec => []PlacementTypeOK
BY PInvHolds, PTL DEF PInv

(* A visible arrow is beside its text, also when the sum of its position   *)
(* and the text's width is not an int (presentation_methods.cpp:70-78).    *)
THEOREM ArrowBesideTextHolds == PresentationSpec => []ArrowBesideText
<1>1. PInv => ArrowBesideText
  <2> SUFFICES ASSUME PInv, NEW arrow \in arrow_rect, Visible(arrow), NEW text \in text_rect
               PROVE  arrow.x = text.x + text.w
    BY DEF ArrowBesideText
  <2>1. text.x + text.w \in Int
    BY IntAssumption DEF PInv, PlacementTypeOK, Rect, CInt
  <2>2. arrow.w = ArrowSize.w /\ arrow.x \in ToInt(text.x + text.w)
    BY DEF PInv, PlacedByText
  <2>3. arrow.x = text.x + text.w \/ arrow.x = -IntHalf \/ arrow.x = IntHalf - 1
    BY <2>1, <2>2, Conversion
  <2>4. arrow.x < ScreenWidth /\ arrow.x + ArrowSize.w > 0
    BY <2>2 DEF Visible
  <2>5. ArrowSize.w \in 0 .. IntHalf - 1
    BY PlacementAssumption, IntAssumption DEF CInt
  <2> QED BY <2>3, <2>4, <2>5, WidthAssumption, IntAssumption
<1> QED BY <1>1, PInvHolds, PTL

===============================================================================
