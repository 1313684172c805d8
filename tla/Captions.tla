------------------------------- MODULE Captions -------------------------------
(***************************************************************************)
(* The caption thread (start_caption_stream, transmit_caption) and the     *)
(* caption model it feeds (CaptionModel::add_word, get_current_text).      *)
(*                                                                         *)
(* For each entry of the caption file the thread sleeps, sends the caption *)
(* to the phone under socket_mutex and then adds it to the model under     *)
(* text_mutex.  Time is a counter: one unit is the resolution at which the *)
(* delays of the file are told apart.                                      *)
(***************************************************************************)
EXTENDS AppContext

CONSTANTS
  Speaker,      \* the speaker ids a caption file may hold
  CaptionFile,  \* the caption files that may be loaded
  MaxTime       \* bound: the clock runs freely up to there

Caption == [speaker : Speaker, text : Text, delay : Int]

ASSUME SpeakerAssumption == Juror \subseteq Speaker
ASSUME CaptionFileAssumption == CaptionFile \subseteq Seq(Caption)
ASSUME MaxTimeAssumption == MaxTime \in Nat

VARIABLES
  captions_pc,   \* where the thread is
  caption_json,  \* the parsed caption file, never changed
  next,          \* the caption the loop is at (i + 1 in the code)
  now,           \* the clock
  wake,          \* when the current sleep ends
  outbox         \* the captions handed to the network, with their address

captionVars == <<captions_pc, caption_json, next, now, wake, outbox>>

(* Of the shared variables, the ones this thread may change. *)
touchedByCaptions == <<process, socket_mutex, text_mutex, spoken_so_far>>

CaptionsInit ==
  /\ captions_pc = "not_started"
  /\ caption_json \in CaptionFile
  /\ next = 1
  /\ now = 0
  /\ wake = 0
  /\ outbox = <<>>

CaptionsTypeOK ==
  /\ captions_pc \in {"not_started", "next_caption", "sleeping", "lock_socket", "sendto",
                      "lock_text", "clear", "emplace_back", "returned"}
  /\ caption_json \in CaptionFile
  /\ next \in 1 .. Len(caption_json) + 1
  /\ now \in Nat
  /\ wake \in Int
  /\ outbox \in Seq([caption : 1 .. Len(caption_json), to : Address \cup {NoAddress}])

-------------------------------------------------------------------------------
(* Mutated form: the first caption does not wait. *)
DelayFromFirst(i) ==
  IF i = 1 THEN 0 ELSE caption_json[i].delay - caption_json[i - 1].delay

(* How long the thread sleeps before caption i: the entry's own delay for  *)
(* the first one, the difference to the previous entry for the others.     *)
Delay(i) ==
  IF i = 1 THEN caption_json[1].delay
           ELSE caption_json[i].delay - caption_json[i - 1].delay

(* std::thread: main starts the thread. *)
StartThread ==
  /\ captions_pc = "not_started"
  /\ captions_pc' = "next_caption"
  /\ UNCHANGED <<caption_json, next, now, wake, outbox, touchedByCaptions>>

(* Bound: past MaxTime the clock moves only to end a sleep. *)
Tick ==
  /\ \/ now < MaxTime
     \/ captions_pc = "sleeping" /\ now < wake
  /\ now' = now + 1
  /\ UNCHANGED <<captions_pc, caption_json, next, wake, outbox, touchedByCaptions>>

(* Mutated form: whatever the speaker id, it is taken for a juror. *)
NextCaptionUnchecked ==
  /\ captions_pc = "next_caption"
  /\ next <= Len(caption_json)
  /\ wake' = now + Delay(next)
  /\ captions_pc' = "sleeping"
  /\ UNCHANGED <<caption_json, next, now, outbox, touchedByCaptions>>

(* The head of the loop: read the entry and go to sleep.  sleep_for        *)
(* returns at once when the time to wait is not positive.                  *)
NextCaption ==
  /\ captions_pc = "next_caption"
  /\ next <= Len(caption_json)
  /\ caption_json[next].speaker \in Juror
  /\ wake' = now + Delay(next)
  /\ captions_pc' = "sleeping"
  /\ UNCHANGED <<caption_json, next, now, outbox, touchedByCaptions>>

(* juror_from_string rethrows with nothing to rethrow: std::terminate. *)
UnknownSpeaker ==
  /\ captions_pc = "next_caption"
  /\ next <= Len(caption_json)
  /\ caption_json[next].speaker \notin Juror
  /\ process' = "aborted"
  /\ UNCHANGED <<captionVars, socket_mutex, text_mutex, spoken_so_far>>

StreamEnds ==
  /\ captions_pc = "next_caption"
  /\ next > Len(caption_json)
  /\ captions_pc' = "returned"
  /\ UNCHANGED <<caption_json, next, now, wake, outbox, touchedByCaptions>>

WakeUp ==
  /\ captions_pc = "sleeping"
  /\ now >= wake
  /\ captions_pc' = "lock_socket"
  /\ UNCHANGED <<caption_json, next, now, wake, outbox, touchedByCaptions>>

LockSocketToSend ==
  /\ captions_pc = "lock_socket"
  /\ socket_mutex = Free
  /\ socket_mutex' = "captions"
  /\ captions_pc' = "sendto"
  /\ UNCHANGED <<caption_json, next, now, wake, outbox, process, text_mutex, spoken_so_far>>

(* Mutated form: the mutex is not given back. *)
SendtoKeepsLock ==
  /\ captions_pc = "sendto"
  /\ outbox' = Append(outbox, [caption |-> next, to |-> cliaddr])
  /\ captions_pc' = "lock_text"
  /\ UNCHANGED <<caption_json, next, now, wake, touchedByCaptions>>

(* Mutated form: a sendto that reports a failure is tried again.           *)
SendtoRetries ==
  /\ captions_pc = "sendto"
  /\ outbox' = Append(outbox, [caption |-> next, to |-> cliaddr])
  /\ socket_mutex' = Free
  /\ captions_pc' \in {"lock_socket", "lock_text"}
  /\ UNCHANGED <<caption_json, next, now, wake, process, text_mutex, spoken_so_far>>

(* A failed sendto is only logged: the caption is lost to the phone but    *)
(* still shown on the screen.                                              *)
Sendto ==
  /\ captions_pc = "sendto"
  /\ \/ outbox' = Append(outbox, [caption |-> next, to |-> cliaddr])
     \/ outbox' = outbox
  /\ socket_mutex' = Free
  /\ captions_pc' = "lock_text"
  /\ UNCHANGED <<caption_json, next, now, wake, process, text_mutex, spoken_so_far>>

LockText ==
  /\ captions_pc = "lock_text"
  /\ text_mutex = Free
  /\ text_mutex' = "captions"
  /\ captions_pc' = "clear"
  /\ UNCHANGED <<caption_json, next, now, wake, outbox, process, socket_mutex, spoken_so_far>>

(* Mutated forms: the previous speaker's words stay; the mutex is given    *)
(* back before the new word is in.                                         *)
KeepPreviousSpeaker ==
  /\ captions_pc = "clear"
  /\ captions_pc' = "emplace_back"
  /\ UNCHANGED <<caption_json, next, now, wake, outbox, touchedByCaptions>>

ClearAndUnlock ==
  /\ captions_pc = "clear"
  /\ spoken_so_far' =
       IF spoken_so_far # <<>>
            /\ spoken_so_far[Len(spoken_so_far)].speaker # caption_json[next].speaker
         THEN <<>>
         ELSE spoken_so_far
  /\ text_mutex' = Free
  /\ captions_pc' = "emplace_back"
  /\ UNCHANGED <<caption_json, next, now, wake, outbox, process, socket_mutex>>

(* add_word drops what the previous speaker said ... *)
ClearOnNewSpeaker ==
  /\ captions_pc = "clear"
  /\ spoken_so_far' =
       IF spoken_so_far # <<>>
            /\ spoken_so_far[Len(spoken_so_far)].speaker # caption_json[next].speaker
         THEN <<>>
         ELSE spoken_so_far
  /\ captions_pc' = "emplace_back"
  /\ UNCHANGED <<caption_json, next, now, wake, outbox, process, socket_mutex, text_mutex>>

(* Mutated form: the mutex is not given back. *)
EmplaceBackKeepsLock ==
  /\ captions_pc = "emplace_back"
  /\ spoken_so_far' = Append(spoken_so_far, [speaker |-> caption_json[next].speaker,
                                             text |-> caption_json[next].text])
  /\ next' = next + 1
  /\ captions_pc' = "next_caption"
  /\ UNCHANGED <<caption_json, now, wake, outbox, process, socket_mutex, text_mutex>>

(* ... and appends the new word; the loop moves to the next entry. *)
EmplaceBack ==
  /\ captions_pc = "emplace_back"
  /\ spoken_so_far' = Append(spoken_so_far, [speaker |-> caption_json[next].speaker,
                                             text |-> caption_json[next].text])
  /\ text_mutex' = Free
  /\ next' = next + 1
  /\ captions_pc' = "next_caption"
  /\ UNCHANGED <<caption_json, now, wake, outbox, process, socket_mutex>>

(* The steps of the thread itself. *)
CaptionStream ==
  \/ NextCaption \/ UnknownSpeaker \/ StreamEnds \/ WakeUp
  \/ LockSocketToSend \/ Sendto \/ LockText \/ ClearOnNewSpeaker \/ EmplaceBack

===============================================================================
