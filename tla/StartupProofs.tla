----------------------------- MODULE StartupProofs -----------------------------
(***************************************************************************)
(* The invariants of Startup, for any numbers on the command line and any  *)
(* set of sections that have captions.                                     *)
(***************************************************************************)
EXTENDS Startup, TLAPS

(* The calls before main_pc have been made, and those that are checked     *)
(* have succeeded; what a later one needs is known from then on.           *)
Succeeded ==
  /\ main_pc > 2 => "socket" \in acquired
  /\ main_pc > 3 => "bind" \in acquired
  /\ main_pc > 4 => "SDL_Init" \in acquired
  /\ main_pc > 5 => "TTF_Init" \in acquired
  /\ main_pc > 8 => "SDL_CreateWindow" \in acquired
  /\ main_pc > 12 => "back_arrow" \in acquired
  /\ main_pc > 13 => "forward_arrow" \in acquired
  /\ main_pc > 14 => "libvlc_new" \in acquired
  /\ main_pc > 15 => "media_player" \in acquired
  /\ main_pc > 17 => "captions_file" \in acquired

SoFar ==
  /\ threads = IF main_pc > 16 THEN {"orientation"} ELSE {}
  /\ main_pc > 17 => video_section \in CaptionedSection
  /\ playing => main_pc = 19
  /\ process = "exited" => main_pc < 16

IInv == TypeOK /\ Succeeded /\ SoFar

LEMMA CallsInOrder ==
  /\ Len(Calls) = 18 /\ DOMAIN Calls = 1 .. 18
  /\ Calls[1] = "parse_arguments" /\ Calls[2] = "socket"
  /\ Calls[3] = "bind" /\ Calls[4] = "SDL_Init"
  /\ Calls[5] = "TTF_Init" /\ Calls[6] = "TTF_OpenFont"
  /\ Calls[7] = "IMG_Init" /\ Calls[8] = "SDL_CreateWindow"
  /\ Calls[9] = "SDL_CreateRenderer" /\ Calls[10] = "SDL_CreateTexture"
  /\ Calls[11] = "SDL_CreateMutex" /\ Calls[12] = "back_arrow"
  /\ Calls[13] = "forward_arrow" /\ Calls[14] = "libvlc_new"
  /\ Calls[15] = "media_player" /\ Calls[16] = "read_orientation_thread"
  /\ Calls[17] = "captions_file" /\ Calls[18] = "play"
BY DEF Calls

(* Where main is when a call is next. *)
LEMMA Positions ==
  ASSUME NEW call, At(call), TypeOK
  PROVE  /\ main_pc \in 1 .. 18
         /\ main_pc = 1 <=> call = "parse_arguments"
         /\ main_pc = 2 <=> call = "socket"
         /\ main_pc = 3 <=> call = "bind"
         /\ main_pc = 4 <=> call = "SDL_Init"
         /\ main_pc = 5 <=> call = "TTF_Init"
         /\ main_pc = 6 <=> call = "TTF_OpenFont"
         /\ main_pc = 7 <=> call = "IMG_Init"
         /\ main_pc = 8 <=> call = "SDL_CreateWindow"
         /\ main_pc = 9 <=> call = "SDL_CreateRenderer"
         /\ main_pc = 10 <=> call = "SDL_CreateTexture"
         /\ main_pc = 11 <=> call = "SDL_CreateMutex"
         /\ main_pc = 12 <=> call = "back_arrow"
         /\ main_pc = 13 <=> call = "forward_arrow"
         /\ main_pc = 14 <=> call = "libvlc_new"
         /\ main_pc = 15 <=> call = "media_player"
         /\ main_pc = 16 <=> call = "read_orientation_thread"
         /\ main_pc = 17 <=> call = "captions_file"
         /\ main_pc = 18 <=> call = "play"
<1>1. main_pc \in 1 .. 18 /\ Calls[main_pc] = call
  BY CallsInOrder DEF At, TypeOK
<1> QED BY <1>1, CallsInOrder

LEMMA Start == Init => IInv
<1> SUFFICES ASSUME Init PROVE IInv
  OBVIOUS
<1>1. TypeOK
  <2>1. main_pc \in 1 .. Len(Calls) + 1
    BY CallsInOrder DEF Init
  <2>2. smallest_font \in {FONT_SIZE_SMALL, NoFont}
    BY DEF Init
  <2>3. path_to_font \in BOOLEAN /\ playing \in BOOLEAN
    BY DEF Init
  <2> QED BY <2>1, <2>2, <2>3 DEF Init, TypeOK
<1>2. Succeeded
  BY DEF Init, Succeeded
<1>3. SoFar
  BY DEF Init, SoFar
<1> QED BY <1>1, <1>2, <1>3 DEF IInv

(* A step of main that ends the process, or the reading of an option.      *)
LEMMA Staying ==
  ASSUME IInv, TypeOK', UNCHANGED <<main_pc, acquired, threads, playing>>,
         process' = "exited" => main_pc < 16,
         main_pc > 1 => UNCHANGED video_section
  PROVE  IInv'
BY CallsInOrder DEF IInv, TypeOK, Succeeded, SoFar

LEMMA Step == IInv /\ [Next]_vars => IInv'
<1> SUFFICES ASSUME IInv, [Next]_vars PROVE IInv'
  OBVIOUS
<1>0. TypeOK /\ Succeeded /\ SoFar /\ Len(Calls) = 18
  BY CallsInOrder DEF IInv
<1>1. CASE VideoSectionOption
  <2>1. main_pc = 1 /\ TypeOK'
    BY <1>0, <1>1, Positions DEF VideoSectionOption, Ends, TypeOK
  <2> QED BY <1>1, <2>1, Staying DEF VideoSectionOption, Ends
<1>2. CASE FontSizeOption
  <2>1. TypeOK'
    BY <1>0, <1>2 DEF FontSizeOption, TypeOK
  <2> QED BY <1>0, <1>2, <2>1, Staying DEF FontSizeOption, SoFar
<1>3. CASE PathToFontOption
  <2>1. TypeOK'
    BY <1>0, <1>3 DEF PathToFontOption, TypeOK
  <2> QED BY <1>0, <1>3, <2>1, Staying DEF PathToFontOption, SoFar
<1>4. CASE MalformedOption
  <2>1. TypeOK'
    BY <1>0, <1>4 DEF MalformedOption, Ends, TypeOK, options
  <2> QED BY <1>4, <2>1, Staying DEF MalformedOption, Ends, options
<1>5. CASE OptionsEnd
  <2>1. main_pc = 1
    BY <1>0, <1>5, Positions DEF OptionsEnd
  <2> QED BY <1>0, <1>5, <2>1
      DEF OptionsEnd, Advance, IInv, TypeOK, Succeeded, SoFar
<1>6. CASE Succeeds
  <2> PICK call \in Library :
        /\ At(call)
        /\ acquired' = acquired \cup {call}
        /\ Advance
        /\ UNCHANGED <<options, smallest_font, threads, playing>>
    BY <1>6 DEF Succeeds
  <2>1. TypeOK'
    BY <1>0, Positions DEF Advance, TypeOK, options
  <2>2. Succeeded'
    BY <1>0, Positions DEF Advance, Succeeded, TypeOK
  <2>3. SoFar'
    BY <1>0, Positions DEF Advance, SoFar, TypeOK, Library, At, options
  <2> QED BY <2>1, <2>2, <2>3 DEF IInv
<1>7. CASE Exits
  <2> PICK call \in Checked :
        /\ At(call)
        /\ Ends("exited")
        /\ UNCHANGED <<options, smallest_font, acquired, threads, playing>>
    BY <1>7 DEF Exits
  <2>1. TypeOK'
    BY <1>0 DEF Ends, TypeOK, options
  <2>2. main_pc < 16
    BY <1>0, Positions DEF Checked
  <2> QED BY <2>1, <2>2, Staying DEF Ends, options
<1>8. CASE GoesOnWithout
  <2> PICK call \in Library \ Checked :
        /\ At(call)
        /\ Advance
        /\ UNCHANGED <<options, smallest_font, acquired, threads, playing>>
    BY <1>8 DEF GoesOnWithout
  <2>1. TypeOK'
    BY <1>0, Positions DEF Advance, TypeOK, options
  <2>2. main_pc \in {7, 9, 10, 11} /\ process = "running"
    BY <1>0, Positions DEF Library, Checked, At
  <2>3. Succeeded' /\ SoFar'
    BY <1>0, <2>2 DEF Advance, Succeeded, SoFar, options
  <2> QED BY <2>1, <2>3 DEF IInv
<1>9. CASE OpenFont
  <2>1. main_pc = 6 /\ process = "running"
    BY <1>0, <1>9, Positions DEF OpenFont, At
  <2> QED BY <1>0, <1>9, <2>1
      DEF OpenFont, Advance, IInv, TypeOK, Succeeded, SoFar, options
<1>10. CASE MakePlayer
  <2>1. main_pc = 15 /\ process = "running"
    BY <1>0, <1>10, Positions DEF MakePlayer, At
  <2> QED BY <1>0, <1>10, <2>1
      DEF MakePlayer, Advance, Ends, IInv, TypeOK, Succeeded, SoFar, options
<1>11. CASE StartOrientationThread
  <2>1. main_pc = 16 /\ process = "running"
    BY <1>0, <1>11, Positions DEF StartOrientationThread, At
  <2> QED BY <1>0, <1>11, <2>1
      DEF StartOrientationThread, Advance, Ends, IInv, TypeOK, Succeeded, SoFar, options
<1>12. CASE LoadCaptions
  <2>1. main_pc = 17 /\ process = "running"
    BY <1>0, <1>12, Positions DEF LoadCaptions, At
  <2> QED BY <1>0, <1>12, <2>1
      DEF LoadCaptions, Advance, Ends, IInv, TypeOK, Succeeded, SoFar, options
<1>13. CASE Play
  <2>1. main_pc = 18 /\ process = "running"
    BY <1>0, <1>13, Positions DEF Play, At
  <2> QED BY <1>0, <1>13, <2>1
      DEF Play, Advance, IInv, TypeOK, Succeeded, SoFar, options
<1>14. CASE UNCHANGED vars
  BY <1>0, <1>14 DEF vars, options, IInv, TypeOK, Succeeded, SoFar
<1> QED
  BY <1>1, <1>2, <1>3, <1>4, <1>5, <1>6, <1>7, <1>8, <1>9, <1>10, <1>11, <1>12,
     <1>13, <1>14 DEF Next, ParseArguments

LEMMA Invariant == Spec => []IInv
BY Start, Step, PTL DEF Spec

(* Every variable keeps its type: the sequence of calls is never left, and *)
(* the font has the fixed size or is missing (main.cpp:107-287).           *)
THEOREM StartupTypeCorrectness == Spec => []TypeOK
BY Invariant, PTL DEF IInv

(* main exits only while it is alone (main.cpp:151-269). *)
THEOREM ExitsAloneHolds == Spec => []ExitsAlone
<1>1. IInv => ExitsAlone
  BY DEF IInv, TypeOK, SoFar, ExitsAlone
<1> QED BY Invariant, <1>1, PTL

(* Only sections 1 to 4 are ever played (main.cpp:255-287). *)
THEOREM PlaysKnownSectionHolds == Spec => []PlaysKnownSection
<1>1. IInv /\ playing => video_section \in CaptionedSection
  BY DEF IInv, SoFar
<1>2. \A section \in CaptionedSection : section \in 1 .. 4
  BY SectionAssumption
<1>3. IInv => PlaysKnownSection
  BY <1>1, <1>2, Zenon DEF PlaysKnownSection
<1> QED BY Invariant, <1>3, PTL

(* Nothing main checks for is missing when the video plays                 *)
(* (main.cpp:126-287).                                                     *)
THEOREM NothingMissingHolds == Spec => []NothingMissing
<1>1. IInv => NothingMissing
  BY DEF IInv, Succeeded, SoFar, NothingMissing
<1> QED BY Invariant, <1>1, PTL

===============================================================================
