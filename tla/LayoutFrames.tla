----------------------------- MODULE LayoutFrames -----------------------------
(***************************************************************************)
(* The video thread of libvlc once more, seen from the layout of a frame:  *)
(* what unlock and display read of the window's geometry, in which order,  *)
(* and which objects of SDL the callbacks need.                            *)
(***************************************************************************)
EXTENDS WindowLayout

VARIABLES
  vlc_pc,   \* where the thread is
  drawn,    \* what this frame has been laid out with, the video and the captions
  loaded,   \* the window's size as far as display has read it
  stored    \* the fields that display has written

layoutFrameVars == <<vlc_pc, drawn, loaded, stored>>

(* What has been read for one frame: display_rect for the video, and once  *)
(* more, with window_height, for registered captions; the two reads of y   *)
(* for the others.                                                         *)
NothingDrawn ==
  [video |-> NoSize, rect |-> NoSize, fov_height |-> NotRead, line_height |-> NotRead,
   text_y |-> NotRead, arrow_y |-> NotRead]

(* The values read for one frame. *)
Drawn ==
  [video : [Field -> Nat \cup {NotRead}], rect : [Field -> Nat \cup {NotRead}],
   fov_height : Nat \cup {NotRead}, line_height : Nat \cup {NotRead},
   text_y : Int \cup {NotRead}, arrow_y : Int \cup {NotRead}]

LayoutFramesInit ==
  /\ vlc_pc = "idle"
  /\ drawn = NothingDrawn
  /\ loaded = NoSize
  /\ stored = {}

LayoutFramesTypeOK ==
  /\ vlc_pc \in {"idle", "unlock", "place", "fov", "line", "arrow", "present",
                 "display", "copy", "ended"}
  /\ drawn \in Drawn
  /\ loaded \in [Field -> Nat \cup {NotRead}]
  /\ stored \subseteq Field

-------------------------------------------------------------------------------
(* The objects that the thread passes to SDL where it stands. *)
Needs ==
  CASE vlc_pc \in {"idle", "ended"} -> {}
    [] vlc_pc \in {"display", "copy"} -> {"video", "texture", "renderer"}
    [] vlc_pc \in {"unlock", "place"} -> {"video", "mutex", "texture", "renderer", "medium_font"}
    [] OTHER -> {"video", "mutex", "texture", "renderer"}

(* The lock callback; VLC then writes the pixels of the next frame. *)
LockTexture ==
  /\ vlc_pc = "idle"
  /\ vlc_pc' = "unlock"
  /\ UNCHANGED <<drawn, loaded, stored>>

(* The video comes to its end between two frames. *)
VideoEnds ==
  /\ vlc_pc = "idle"
  /\ vlc_pc' = "ended"
  /\ UNCHANGED <<drawn, loaded, stored>>

(* There are no captions with this method, or nobody has spoken yet. *)
NoCaption ==
  /\ vlc_pc = "unlock"
  /\ vlc_pc' = "present"
  /\ UNCHANGED <<drawn, loaded, stored>>

RegisteredCaption ==
  /\ vlc_pc = "unlock"
  /\ presentation_method = "REGISTERED_GRAPHICS"
  /\ vlc_pc' = "place"
  /\ UNCHANGED <<drawn, loaded, stored>>

(* display_rect.w and display_rect.h, in any order. *)
ReadRect ==
  /\ vlc_pc = "place"
  /\ \E f \in Field :
       /\ drawn.rect[f] = NotRead
       /\ drawn' = [drawn EXCEPT !.rect[f] = display_rect[f]]
  /\ vlc_pc' = IF NotRead \in {drawn'.rect.w, drawn'.rect.h} THEN "place" ELSE "fov"
  /\ UNCHANGED <<loaded, stored>>

(* Mutated form: the height of the screen, as in angle_to_pixel_position. *)
DrawFovOfScreen ==
  /\ vlc_pc = "fov"
  /\ drawn' = [drawn EXCEPT !.fov_height = StartSize.h]
  /\ vlc_pc' = "line"
  /\ UNCHANGED <<loaded, stored>>

(* The height of the field of view, and of the line through its centre. *)
DrawFov ==
  /\ vlc_pc = "fov"
  /\ drawn' = [drawn EXCEPT !.fov_height = window.h]
  /\ vlc_pc' = "line"
  /\ UNCHANGED <<loaded, stored>>

DrawLine ==
  /\ vlc_pc = "line"
  /\ drawn' = [drawn EXCEPT !.line_height = window.h]
  /\ vlc_pc' = "present"
  /\ UNCHANGED <<loaded, stored>>

(* render_text of the two other methods. *)
RenderText ==
  /\ vlc_pc = "unlock"
  /\ presentation_method \in {"NONREGISTERED_GRAPHICS", "NONREGISTERED_GRAPHICS_WITH_ARROWS"}
  /\ drawn' = [drawn EXCEPT !.text_y = y]
  /\ vlc_pc' = IF presentation_method = "NONREGISTERED_GRAPHICS" THEN "present" ELSE "arrow"
  /\ UNCHANGED <<loaded, stored>>

RenderArrow ==
  /\ vlc_pc = "arrow"
  /\ drawn' = [drawn EXCEPT !.arrow_y = y]
  /\ vlc_pc' = "present"
  /\ UNCHANGED <<loaded, stored>>

(* SDL_RenderPresent shows what the last display has copied and what the   *)
(* captions have added; the texture and the mutex are unlocked.            *)
PresentAndUnlock ==
  /\ vlc_pc = "present"
  /\ vlc_pc' = "display"
  /\ drawn' = NothingDrawn
  /\ UNCHANGED <<loaded, stored>>

(* window_width and window_height into registers, in any order. *)
LoadSize ==
  /\ vlc_pc = "display"
  /\ \E f \in Field :
       /\ loaded[f] = NotRead
       /\ loaded' = [loaded EXCEPT ![f] = window[f]]
  /\ UNCHANGED <<vlc_pc, drawn, stored, display_rect>>

(* After the second store the registers are not needed any more. *)
Stored(f) ==
  IF stored \cup {f} = Field
    THEN vlc_pc' = "copy" /\ loaded' = NoSize /\ stored' = {}
    ELSE stored' = stored \cup {f} /\ UNCHANGED <<vlc_pc, loaded>>

(* Mutated form: a register is stored before it is loaded. *)
StoreUnloaded ==
  /\ vlc_pc = "display"
  /\ \E f \in Field \ stored :
       /\ display_rect' = [display_rect EXCEPT ![f] = loaded[f]]
       /\ Stored(f)
  /\ UNCHANGED drawn

(* Mutated form: display_rect keeps its height. *)
StoreWidthOnly ==
  /\ vlc_pc = "display"
  /\ \E f \in Field \ stored :
       /\ loaded[f] # NotRead
       /\ display_rect' = [display_rect EXCEPT !.w = loaded.w]
       /\ Stored(f)
  /\ UNCHANGED drawn

(* ... and from there into display_rect. *)
StoreSize ==
  /\ vlc_pc = "display"
  /\ \E f \in Field \ stored :
       /\ loaded[f] # NotRead
       /\ display_rect' = [display_rect EXCEPT ![f] = loaded[f]]
       /\ Stored(f)
  /\ UNCHANGED drawn

(* SDL_RenderCopy reads the rectangle once more, where main may have       *)
(* written again.                                                          *)
CopyTexture ==
  /\ vlc_pc = "copy"
  /\ \E f \in Field :
       /\ drawn.video[f] = NotRead
       /\ drawn' = [drawn EXCEPT !.video[f] = display_rect[f]]
  /\ vlc_pc' = IF NotRead \in {drawn'.video.w, drawn'.video.h} THEN "copy" ELSE "idle"
  /\ UNCHANGED <<loaded, stored>>

(* The steps that lay out the captions of a frame. *)
DrawCaptions ==
  NoCaption \/ RegisteredCaption \/ ReadRect \/ DrawFov \/ DrawLine \/ RenderText \/ RenderArrow

===============================================================================
