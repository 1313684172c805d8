-------------------------------- MODULE Frames --------------------------------
(***************************************************************************)
(* The video output thread of libvlc and the three callbacks that main     *)
(* registers with it.  For every frame of the video libvlc calls lock,     *)
(* writes the pixels, calls unlock and then display.  unlock draws the     *)
(* caption as the presentation method asks and presents the render target; *)
(* display clears the target and copies the texture onto it for the next   *)
(* frame.                                                                  *)
(*                                                                         *)
(* The position of a caption is kept as the azimuths whose mean it is      *)
(* computed from; what arithmetic makes of the mean is not in this module. *)
(***************************************************************************)
EXTENDS AppContext

CONSTANT VideoFrames  \* the number of frames in the video

ASSUME VideoFramesAssumption == VideoFrames \in Nat

VARIABLES
  vlc_pc,       \* where the thread is
  video_frame,  \* the frame VLC decoded last
  texture,      \* the frame in the streaming texture
  target,       \* the frame in the render target, before it is presented
  overlay,      \* the caption being drawn
  screen        \* what was presented last

frameVars == <<vlc_pc, video_frame, texture, target, overlay, screen>>

(* Of the shared variables, the ones this thread may change. *)
touchedByFrames == <<azimuth_mutex, text_mutex, sdl_mutex>>

NoFrame == 0
Overlay == [juror : Juror, words : Seq(Text), samples : Seq(Azimuth)]
NoOverlay == [juror |-> JuryForeman, words |-> <<>>, samples |-> <<>>]

FramesInit ==
  /\ vlc_pc = "idle"
  /\ video_frame = NoFrame
  /\ texture = NoFrame
  /\ target = NoFrame
  /\ overlay = NoOverlay
  /\ screen = [video |-> NoFrame, words |-> <<>>]

FramesTypeOK ==
  /\ vlc_pc \in {"idle", "lock_azimuth", "average", "lock_text", "copy_text",
                 "present", "display"}
  /\ video_frame \in 0 .. VideoFrames
  /\ texture \in 0 .. VideoFrames
  /\ target \in 0 .. VideoFrames
  /\ overlay \in Overlay
  /\ screen \in [video : 0 .. VideoFrames, words : Seq(Text)]

-------------------------------------------------------------------------------
(* Which of its two inputs each way of presenting captions takes first:    *)
(* registered captions need the speaker before they look at the azimuth,   *)
(* the others follow the head whoever speaks.                              *)
FirstInput ==
  CASE presentation_method = "REGISTERED_GRAPHICS" -> "lock_text"
    [] presentation_method \in {"NONREGISTERED_GRAPHICS",
                                "NONREGISTERED_GRAPHICS_WITH_ARROWS"} -> "lock_azimuth"
    [] OTHER -> "present"

(* CaptionModel::get_current_text, before the text is wrapped: the speaker *)
(* of the first word, and all the words.                                   *)
CurrentJuror == IF spoken_so_far = <<>> THEN JuryForeman ELSE spoken_so_far[1].speaker
CurrentWords == [k \in 1 .. Len(spoken_so_far) |-> spoken_so_far[k].text]

-------------------------------------------------------------------------------
(* The lock callback, after which VLC writes the pixels of the next frame. *)
LockFrame ==
  /\ vlc_pc = "idle"
  /\ playing
  /\ video_frame < VideoFrames
  /\ sdl_mutex = Free
  /\ sdl_mutex' = "vlc"
  /\ video_frame' = video_frame + 1
  /\ vlc_pc' = FirstInput
  /\ UNCHANGED <<texture, target, overlay, screen, azimuth_mutex, text_mutex>>

FilterAzimuth ==
  /\ vlc_pc = "lock_azimuth"
  /\ azimuth_mutex = Free
  /\ azimuth_mutex' = "vlc"
  /\ vlc_pc' = "average"
  /\ UNCHANGED <<video_frame, texture, target, overlay, screen, text_mutex, sdl_mutex>>

(* The mean of the window; of an empty window it is 0. *)
Average ==
  /\ vlc_pc = "average"
  /\ overlay' = [overlay EXCEPT !.samples = azimuth_buffer]
  /\ azimuth_mutex' = Free
  /\ vlc_pc' = IF FirstInput = "lock_azimuth" THEN "lock_text" ELSE "present"
  /\ UNCHANGED <<video_frame, texture, target, screen, text_mutex, sdl_mutex>>

(* Mutated form: the mutex is taken without waiting for it. *)
GetCurrentTextUnlocked ==
  /\ vlc_pc = "lock_text"
  /\ text_mutex' = "vlc"
  /\ vlc_pc' = "copy_text"
  /\ UNCHANGED <<video_frame, texture, target, overlay, screen, azimuth_mutex, sdl_mutex>>

(* Mutated form: when the mutex is taken, the frame gets the text of the   *)
(* frame before.                                                           *)
GetCurrentTextIfFree ==
  /\ vlc_pc = "lock_text"
  /\ \/ text_mutex = Free /\ text_mutex' = "vlc" /\ vlc_pc' = "copy_text"
     \/ text_mutex # Free /\ text_mutex' = text_mutex
          /\ vlc_pc' = IF FirstInput = "lock_text" THEN "lock_azimuth" ELSE "present"
  /\ UNCHANGED <<video_frame, texture, target, overlay, screen, azimuth_mutex, sdl_mutex>>

GetCurrentText ==
  /\ vlc_pc = "lock_text"
  /\ text_mutex = Free
  /\ text_mutex' = "vlc"
  /\ vlc_pc' = "copy_text"
  /\ UNCHANGED <<video_frame, texture, target, overlay, screen, azimuth_mutex, sdl_mutex>>

(* Mutated form: a registered caption is drawn where the last one was. *)
CopyTextOnly ==
  /\ vlc_pc = "copy_text"
  /\ overlay' = [overlay EXCEPT !.juror = CurrentJuror, !.words = CurrentWords]
  /\ text_mutex' = Free
  /\ vlc_pc' = "present"
  /\ UNCHANGED <<video_frame, texture, target, screen, azimuth_mutex, sdl_mutex>>

(* Registered captions return early when there is no text.  The others     *)
(* already have their position and only skip the drawing.                  *)
CopyText ==
  /\ vlc_pc = "copy_text"
  /\ overlay' = [overlay EXCEPT !.juror = CurrentJuror, !.words = CurrentWords]
  /\ text_mutex' = Free
  /\ vlc_pc' = IF FirstInput = "lock_text" /\ CurrentWords # <<>>
                 THEN "lock_azimuth" ELSE "present"
  /\ UNCHANGED <<video_frame, texture, target, screen, azimuth_mutex, sdl_mutex>>

(* Mutated form: without a text to draw, unlock leaves the texture locked. *)
PresentWithoutUnlock ==
  /\ vlc_pc = "present"
  /\ screen' = [video |-> target, words |-> overlay.words]
  /\ texture' = IF overlay.words = <<>> THEN texture ELSE video_frame
  /\ sdl_mutex' = Free
  /\ vlc_pc' = "display"
  /\ UNCHANGED <<video_frame, target, overlay, azimuth_mutex, text_mutex>>

(* A registered caption is drawn only where it meets the field of view, so *)
(* it may be left out.  SDL_RenderPresent comes before SDL_UnlockTexture:  *)
(* what is presented under the caption is the target that display made     *)
(* from the previous frame.                                                *)
Present ==
  /\ vlc_pc = "present"
  /\ \E words \in CASE FirstInput = "present" -> {<<>>}
                    [] FirstInput = "lock_azimuth" -> {overlay.words}
                    [] FirstInput = "lock_text" -> {overlay.words, <<>>} :
       screen' = [video |-> target, words |-> words]
  /\ texture' = video_frame
  /\ sdl_mutex' = Free
  /\ vlc_pc' = "display"
  /\ UNCHANGED <<video_frame, target, overlay, azimuth_mutex, text_mutex>>

(* The display callback takes no mutex. *)
Display ==
  /\ vlc_pc = "display"
  /\ target' = texture
  /\ vlc_pc' = "idle"
  /\ UNCHANGED <<video_frame, texture, overlay, screen, touchedByFrames>>

(* The steps of the thread itself. *)
VideoOutput ==
  LockFrame \/ FilterAzimuth \/ Average \/ GetCurrentText \/ CopyText \/ Present \/ Display

===============================================================================
