# Verification of the Captioning on Glass server

The program (`src/src/*.cpp`, `src/include/*.hpp`, about 1000 lines of C++17)
plays a video of a four-person conversation and captions it for a wearer of a
head-worn display. A phone on the wearer's head sends its orientation over UDP;
the server shows the captions on the screen, placed by the orientation and the
speaker, and sends each caption back to the phone. This directory holds its
TLA+ specification: modules translated from the source, TLC runs over small
instances, and TLAPS proofs for all instances.

Contents: 1 the system, 2 the modules, 3 the runs, 4 the proofs, 5 findings and
observations, 6 what is not modelled, 7 the plan.

## 1. The system

### Threads and what they share

| thread | code | state of its own | shared state it touches |
|---|---|---|---|
| main | `main.cpp:107-341` | command-line values, the batch of events it is reading | the number of readings (without a mutex); `window_width`, `window_height`, `y`, `display_rect` (without a mutex); the objects it destroys at the end |
| orientation | `read_orientation`, `orientation.cpp:21-48` | a 1024-byte buffer, the result of the first `recvfrom` | `cliaddr` and the socket under `socket_mutex`; `azimuth_buffer` under `azimuth_mutex` |
| captions | `start_caption_stream`, `captions.cpp:91-111` | index into the caption file, its sleep | `cliaddr` and the socket under `socket_mutex`; `spoken_so_far` under `text_mutex` |
| video output (libvlc) | `lock`, `unlock`, `display`, `main.cpp:45-105` | the frame being decoded | texture, renderer under `AppContext::mutex` (not in `display`); the readings under `azimuth_mutex`, the caption model under `text_mutex`; the four ints of main without a mutex |
| the phone | outside | | sends datagrams, receives captions |
| the user, the window manager | outside | | press keys, resize and close the window: events in SDL's queue |

### Components, their operations and what makes each correct

* **Start-up** (`experiment_setup.cpp`, `main.cpp:107-269`): parse the options,
  print a QR code with the server's address, bind a UDP socket, initialise SDL,
  TTF and libvlc, start the orientation thread, load the captions. Nothing
  connects: `connect_to_client` returns an all-zero address. Correct if main exits only
  while it is alone, if a video that plays is one of the four with captions, and if
  nothing that main checks for is missing then.
* **Orientation thread**: receive a datagram (blocking, holding `socket_mutex`),
  then replace the oldest of `MOVING_AVG_SIZE` azimuths under `azimuth_mutex`.
  Correct if the window is the last readings in order, never longer than its
  capacity, and full whenever a reader averages it.
* **Caption thread**: for each entry of the caption file sleep for the
  difference of two delays, send the caption, add it to the caption model.
  Correct if no caption is early, every caption is reached, and an unknown
  speaker is not taken for a juror.
* **Caption model** (`CaptionModel`): `add_word` clears the words of the previous
  speaker and appends, `get_current_text` copies them and wraps the text.
  Correct if a reader sees exactly the current speaker's utterance, and if
  `wrap` shows the end of it in lines that fit.
* **Video callbacks and presentation methods** (`presentation_methods.cpp`): once
  per frame take the text and the mean azimuth (in an order that depends on the
  method), draw, present. Correct if every frame is presented, reads are
  consistent, and a registered caption is drawn exactly where it is in view.
* **Main thread, wait**: wait for a full window, start the video and the caption
  thread.
* **Main thread, event loop**: ten times a second read all events, then act on the last
  key. A resize assigns five ints that the video callbacks read. Correct if a quit is
  never lost, and if torn sizes do not outlive the next frame.
* **Main thread, teardown**: destroy SDL's objects and return, with all the other threads
  running.

### Interactions and hard behaviours

Four mutexes, each locked and unlocked by hand. `socket_mutex` orders `recvfrom`
against `sendto` and protects `cliaddr`; because `recvfrom` blocks while the
mutex is held, captions depend on the phone. `azimuth_mutex` and `text_mutex` are
taken one after the other, never nested, by the video callbacks, which hold the
frame mutex around both. Main reads the number of readings with no mutex in a loop
with an empty body. Later it writes the geometry of the window with no mutex
while the callbacks read it twice per frame, and `display` writes a part of it too.
At the end it destroys what the callbacks draw with. The hazards, each with its line and the properties that cover
it, are listed in `PROJECT.json`.

## 2. The modules

| module | models | state and actions |
|---|---|---|
| `AppContext` | what the threads share | one variable per mutex (its holder or `Free`), `cliaddr`, `azimuth_buffer`, `spoken_so_far`, `presentation_method`, `playing`, and `process`, which becomes `"aborted"` on `std::terminate` |
| `Orientation` | `read_orientation`, the phone, the receive queue | `PhoneSends`; `LockSocket`, `Recvfrom`, `RecvfromFails`, `LockAzimuth`, `PopFront`, `PushBack` |
| `Captions` | `start_caption_stream`, `transmit_caption`, `juror_from_string`, `add_word` | `Tick` (the clock); `NextCaption`, `UnknownSpeaker`, `StreamEnds`, `WakeUp`, `LockSocketToSend`, `Sendto`, `LockText`, `ClearOnNewSpeaker`, `EmplaceBack` |
| `Frames` | `lock`, `unlock`, `display`, and the order in which each presentation method reads its inputs | `LockFrame`, `FilterAzimuth`, `Average`, `GetCurrentText`, `CopyText`, `Present`, `Display` |
| `MainThread` | the wait, the start of the video and of the caption thread | `Wait`, `PlayVideo`, `StartCaptions` |
| `GroupConvo` | the running server: the composition of the five | `Next`, `Fairness`, a history variable (`heard_at_lock`: the captions that were there when the frame began), the properties and the two refinement mappings |
| `SlidingWindow` | what the orientation thread promises | `Sample`, `Repeat` |
| `UtteranceBoard` | what the caption model promises a reader | `Hear`, `Look` |
| `TextWrap` | `CaptionModel::wrap` | the words left, the lines so far (first word and width), the `size_t` room left; one action per branch of its loop, and `Return` |
| `RegisteredCaption` | `rectangle_intersection`, `render_registered_captions` | one action per call |
| `Presentation` | all three methods that show captions: extends `RegisteredCaption` by the other two and the arrow | `Register`, `RenderNonregisteredCaptions`, `RenderWithIndicators` |
| `WindowLayout` | what the event loop and the callbacks share: `window_width`, `window_height`, `display_rect`, `y`, and which objects exist | |
| `EventLoop` | the event loop, the teardown, the user | `PressKey`, `CloseWindow`, `ResizeWindow`; `PollQuit`, `PollKey`, `PollResized`, `StoreLayout`, `BatchEnds`, `Act`; `CloseFont` to `QuitLibraries`, `DestroyLocal` |
| `LayoutFrames` | the video callbacks seen from the geometry they read and the objects they need | `LockTexture`, `ReadRect`, `DrawFov`, `DrawLine`, `RenderText`, `RenderArrow`, `PresentAndUnlock`, `LoadSize`, `StoreSize`, `CopyTexture` |
| `Session` | the server from the event loop to its end: the composition of the three | `Next`, `Fairness`, the properties, a history variable (`torn`: the frames presented since main last wrote the layout that did not fit the window) |
| `Startup` | main from its first line to the start of the video | one action per option and per kind of outcome of a call, in the order of `Calls` |
| `MC...` | instances for TLC | |
| `...Proofs` | theorems | |

Three compositions cover the life of the program: `Startup`, then `GroupConvo` for the
data (readings, captions, mutexes) and `Session` for the window (geometry, events, end).
The event loop touches none of the data, and the orientation and caption threads touch
none of the geometry, so the two are independent but for the video thread, which appears
in both: as `Frames` with what it reads of the data, and as `LayoutFrames` with what it
reads of the geometry. In `Session` the other two threads are taken to run until the
process ends.

A step of a thread is the code between two lock operations; a place between two
steps is a value of the thread's `..._pc`. Code under a mutex is split further
where another thread could look: `pop_front` and `push_back` are two steps because
main polls the size, and so are the clearing and the appending of `add_word`, so
that atomicity is something the mutexes achieve and not something the model assumes.

Abstractions:

* An azimuth, a text and an address are model values. A position on the screen is
  kept as the sequence of readings whose mean it is; `RegisteredCaption` takes up
  from there with every int the arithmetic may produce.
* The video thread of `LayoutFrames` reads an int per step, because nothing protects the
  ints; `SDL_RenderCopy` reads `display_rect` once more, after `display` has stored it. The five assignments of a resize and the copies in `display` have no call and no
  lock between them, so the compiler may make them in any order, and the modules do.
* An object that main has destroyed may serve a callback all the same, or crash the
  process (`VlcCrashes`): undefined behaviour is both. Which objects a callback needs is
  `Needs`; SDL's video subsystem and the font of the captions are among them, and go with
  `SDL_Quit` and `TTF_Quit` (`QuitLibraries`).
* `SDL_RenderSetViewport` (`main.cpp:307`) is a part of `PollResized` that changes nothing
  the modules keep: the viewport is the whole window before and after. The implicit end of a local of main is an action too (`DestroyLocal`), in the
  order of the destructors; a joinable `std::thread` ends the process there.
* A number of `y` is truncated to an int (`ThreeQuarters`). A double too large for an int
  becomes the largest or the smallest int (`ToInt`), which is what ARM and x86 make of it.
* An option that is an int and was not given is any number (`OptionsEnd`).
* Resizes come from the window manager; the code does not ask for a resizable window,
  and handles the event all the same.
* Wrapping applies to a local copy of the text and is left out of `Frames`;
  `TextWrap` models it on word lengths.
* Time is a counter; a sleep ends at some step at or after its time, so that
  every delay in the code is a longer sleep. A negative sleep returns at once.
* The wait of main is undefined behaviour. `WaitOutcomes` has the three programs a
  compiler can make of it: the size is read again in each iteration, is read
  once, or the loop is removed. The build directory holds a release build.
* `std::deque::size()` is one number that drops by one at `pop_front` and grows
  at `push_back`, as in libc++. In libstdc++ it is computed from iterators; up to
  the first full window, where the wait looks, only pushes within the deque's
  first block happen and the two agree.
* A datagram is an address and an azimuth. The network may lose and reorder; both
  happen before `PhoneSends`, so they need no action.
* `recvfrom` fails only if `RecvMayFail`. Only the result of the first call is
  tested by the loop; after a later failure the old bytes are read again.
* Ints of the geometry wrap around (`Wrap`), as they do on the machines the program
  is built for.

## 3. The runs

| run | configuration | shows | bounds |
|---|---|---|---|
| `captions` | `CaptionsRun.cfg` | `TypeOK`, `RaceFree`, `HoldersDoNotWait`, `SentToPhone`, `NeverEarly`, `SentInOrder`, `SpokenIsUtterance`, `FreshCaption`, `BoardSpec`, `PresentsPreviousFrame` | one reading, a window of 1, two files of three captions, clock to 2, two frames |
| `window` | `WindowRun.cfg` | `StrangerEndsStream`, `FullWindow`, `PlacedByFullWindow`, `WindowSpec` | two readings, a window of 2, receive errors, all outcomes of the wait, files of one and two captions (one with an unknown speaker), one frame |
| `live` | `LiveRun.cfg` | `VideoStarts`, `WindowIsFullAgain`, `SocketIsReleased`, `FramesArePresented`, `StreamCompletes` | one reading, a window of 2, receive errors, all outcomes of the wait, two captions of two speakers, a clock that moves for sleeps only, one frame, two presentation methods |
| `wrap` | `TextWrap.cfg` | `TypeOK`, `LinesFit`, `LinesAreFilled`, `LongWordEndsWrapping`, `ShowsTheEnd` | lines of 6, words of 1 to 7, up to 6 words, a `size_t` of 64 values |
| `clip` | `Presentation.cfg` | `PlacementTypeOK`, `DrawsWhatIsInView`, `ClipsInPlace`, `ArrowBesideText` | ints of five bits, every azimuth position, all combinations of four places, four sizes and three heights, a screen 12 wide |
| `session` | `SessionRun.cfg` | `TypeOK`, `TearsOneFrame`, `LocalsOutliveThreads`, `LastSizeArrives`, `QuitIsKept`, `LostOnlyToAnotherKey` | keys q and down, two sizes of window, two moves (resizes or arrow keys), two events waiting, two presentation methods |
| `session_live` | `SessionLive.cfg` | `QuitIsHonoured`, `LastEscapeQuits`, `EventuallyFillsWindow` | keys escape and another, one resize, one event waiting, registered captions |
| `startup` | `StartupRun.cfg` | `ExitsAlone`, `PlaysKnownSection`, `NothingMissing` | the numbers 0, 1, 4, 5 and 26, every failure of every call |
| `wait_race` | `WaitRace.cfg` | violates `WaitsForPhone` | finding F1 |
| `frame_lag` | `FrameLag.cfg` | violates `PresentsNewFrame` | finding F2 |
| `escape_lost` | `EscapeLost.cfg` | violates `EscapeQuits` | finding F3 |
| `torn_down` | `TornDown.cfg` | violates `RendersPeacefully` | finding F4 |

Bounds and why they are enough:

* `MOVING_AVG_SIZE`. A window of 1 already has the replacement (pop to empty, push
  to full); 2 has an order of readings to get wrong and a half-full window. The
  proofs cover every size.
* `CaptionFile`. `MCCaptions` has a turn of two captions followed by another
  speaker and a delay smaller than the one before; `MCReturningSpeaker` has a
  speaker who returns after another, so that a word kept by mistake from the
  earlier turn would be noticed; `MCUnknownSpeaker` aborts in the middle.
* `MaxTime` stops the clock when nobody sleeps. Past it time moves only to end a
  sleep, so a caption can be late by any number of units up to the bound.
* `InboxCapacity = 1`: the thread takes one datagram at a time; a longer queue
  delays readings and adds no behaviour to the threads.
* `MethodGiven`. All five methods in `captions` and `window`. In `live` the registered
  captions and the plain ones: they take the text and the azimuth in the two orders there
  are, the other two add no wait to them.
* `VideoFrames = 2` lets a frame meet the state its predecessor left (texture,
  target); the wait and the window need one.
* `MaxWords = 6` with lines of 6 gives from one to six lines, hence both cases of
  "last two", and a long word with words before and after it. `SizeValues` has to
  be larger than an utterance (`SizeAssumption`), as an utterance is in memory.
* `IntHalf = 16` with `HalfFov = 3` makes the sums around both ends of the int
  range overflow for a good part of the azimuths. Captions are on the screen
  (`ScreenAssumption`), as juror positions are fractions of the window.
* Two moves in `session` let two resizes overlap with one frame, a resize and an arrow
  key, or a resize and back; the two sizes differ in both directions, so every mixture of
  old and new is another size. Of the arrow keys there is one: that `y` changes by 100 is
  what matters, not the sign. Two events may wait, in either order: two sizes, a
  size behind a key, a key behind the closing of the window. The queue does not bound a
  batch: the user can post the next event before main has found the queue empty.
* The two methods of `session` make all the reads of the geometry there are: registered
  captions those of the field of view and of `display_rect`, captions with arrows both
  reads of `y`. Captions without arrows make the first of these only.
* `session_live` has one move and one event waiting, because temporal checking pays for every state several
  times over; the key that is neither escape nor a move may be pressed for ever.
* The numbers of `startup` are the two ends of the range of sections, a value beyond
  each, and the font's size.

Deadlock is checked in `captions`, where the phone can always send another reading, and
in `clip`. The system of the other runs really may stop: `window` and `live` (an unknown
speaker ends the process; main hangs when the first `recvfrom` fails or the loop was
hoisted), `session` and `startup` (the process ends), `wrap` (it returns). The violation
runs stop at their counterexample.

### Fairness

`WF` of the orientation thread, the caption thread, the clock: the operating
system runs every thread that can run. `WF` of the phone: it goes on sending; without
it nothing after the first `recvfrom` is promised, since the server blocks there.
`SF` of the video thread and of main: the mutexes are not fair, and main polls a
value that is right and wrong in turns, but what they compete with is the
orientation thread, which is away in `recvfrom` nearly all the time; and when it is
there, neither `azimuth_mutex` nor the window changes. The caption thread does not
have this excuse: the orientation thread waits in `recvfrom` *with*
`socket_mutex`, and gives it back only to store a reading. So `Fairness` has no more
than `WF` for it, and `StreamCompletes` names the strong fairness it depends on as an
assumption of the property: captions arrive only if the caption thread is lucky
enough at that mutex. With `WF` only, TLC finds the starvation.

Two of the properties say how much luck is assumed. `SF` of main assumes that main does not
look at the window inside a replacement every time, and `StreamCompletes` that the caption
thread is not late for `socket_mutex` every time. `WindowIsFullAgain` and
`SocketIsReleased` say that what the two wait for comes again and again, and need weak
fairness only: the rest is luck, which the code does nothing to guarantee.

`VideoStarts` makes two exceptions. After a failure of the first `recvfrom` the window stays
empty. And if the compiler has made the wait read the size only once (`"hoisted"`), main hangs
unless the window is full at that moment, although every `recvfrom` succeeds: that is
finding F1, and no fairness helps. The run has all three outcomes of the wait; the other
four properties hold for each of them. Nobody closes the window in these runs; that is
`Session`.

In `Session`: `WF` of the video thread and of what main does with an event or after the
loop. The inner loop ends only when the queue is empty at the moment main looks, so
that step has `SF`, and `BatchesEnd` assumes that the queue is empty again and again.
It takes main microseconds to read an event and a user longer to press the next key.
Without `BatchesEnd` a user with a stuck key keeps the server running for ever,
window closed or not. Nothing is assumed about the user otherwise, nor that the video
ends.

## 4. The proofs

`tlapm` checks every leaf. In `GroupConvoProofs`:

* `LockDiscipline` relates each mutex to the places of the threads that hold it. It is
  inductive by itself and implies `RaceFree` (`RaceFreedom`).
* `TypeInv == TypeOK /\ InFlight`. `TypeOK` alone is not inductive: that a push keeps
  the window within its capacity needs "at `push_back` there is room", that the word
  added has a juror for a speaker needs the check made at the head of the loop, and
  that a stored reading is one needs that the first `recvfrom` succeeded. `InFlight`
  states the three. (`TypeCorrectness`)
* `StartOrder` says that nothing is played, sent or drawn before the window has
  been full, and that a full window stays full outside the replacement. It gives
  `FullWindow` (`WindowStaysFull`) and `SentToPhone` (`CaptionsGoToPhone`), both unless
  `wait_loop = "elided"`: reading the size once is no weaker than reading it again, as it
  is never above its capacity and only a full window ends the wait.
* `HoldersDoNotWait` follows from `LockDiscipline` alone (`NobodyWaitsForAWaiter`): the
  only places where a thread waits with a mutex in its hands are VLC's, for
  `azimuth_mutex` and `text_mutex`, and what it holds is the frame mutex, which nobody
  else takes.
* `FramesInStep` relates the frame in the texture, the one in the target and the one
  VLC has written, for each place of the callbacks. It makes the action property
  `PresentsPreviousFrame` a consequence of one step (`LagIsOneFrame`).
* `SentInOrder` is inductive as it stands: its second part, that nothing sent is ahead of
  what the caption model has been given, makes the next caption sent a later one than all
  before (`CaptionsSentInOrder`).
* `PlacedInv` carries the full window of the moment of `Average` to the moment of
  presenting, past the wait for `text_mutex` (`PlacedByFullWindowHolds`).
* `OnlyJurorsHeard` adds to `StrangerEndsStream` where the thread stands when it ends the
  process; with `InFlight` (the id has been checked before the sleep), `SentInOrder` and
  `LockDiscipline` it gives the rest. (`StrangersEndTheStream`)
* `Timely` adds to `NeverEarly` what the thread knows between captions: the previous
  caption was not early, and the current sleep ends no earlier than the entry's delay.
  (`CaptionsNeverEarly`)

In `CaptionModelProofs`, `SpokenInv` says that the caption model holds the captions
from `first` to the last one added, where `first` begins the current speaker's turn,
and what holds half way through `add_word`. It gives `SpokenIsUtterance`
(`ModelHoldsUtterance`) and, with `LockDiscipline`, that a copy is never made half
way: the server implements `UtteranceBoard` (`LooksAreAtomic`). `FreshInv` says when
VLC's thread has the text of the frame, and that from then on it is the utterance up to
a caption that is no older than the frame; captions added while VLC waits for
`azimuth_mutex` only widen the range. It gives `FreshCaption` (`CaptionsAreFresh`).

In `WindowProofs`, the refinement mapping puts a received reading where it will end
up (`WindowToCome`), so `Recvfrom` is the abstract step and the four steps after it
stutter: the server implements `SlidingWindow` (`ReadingsSlideThrough`).

In `GeometryProofs`, for any width of int: when a sum of the field of view overflows,
the region ends left of the screen and nothing is drawn (`FovEdges`); otherwise
the intersection is the visible part to the pixel. It gives `DrawsWhatIsInViewHolds`
and `ClipsInPlaceHolds`.

The assumptions are the named `ASSUME`s of the modules: a window of at least one
reading, distinguished null values, caption files that are sequences of captions, and
captions placed on the screen.

The same module carries the results over to `Presentation` (`OthersStutter`: to a
registered caption the steps of the other methods are stuttering) and proves
`ArrowBesideText` from `PlacedByText`, which says that the arrow's x is a conversion of
the text's right edge (`ArrowBesideTextHolds`).

In `SessionProofs`: `TypeOK` says among the rest that `display` stores only what it has
loaded. (`TypeCorrectness`) `TearHeals` follows the frame after a torn one through its
steps: the display that comes first has empty registers (`DisplayEnds`), so what it loads
and stores is the window as main left it, what the copy reads is that, and what the next
`unlock` reads fits it. It makes `TearsOneFrame` inductive; without it a second frame could
be torn by registers, a rectangle or a copy left from the first. (`OneTornFrame`)
`NothingUnwound` says that no destructor of a local of main ever completes, because
the first is that of a joinable thread. (`ThreadsKeepTheirLocals`)
`StoresLastSize` adds to `LastSizeArrives` that, with no size in the queue, what is still to
be stored is the last size and not one before it. (`LastSizeIsKept`)
The two action properties rest on lemmas about the queue (`Posting`, `Polling`: what an event
at the end, or the end of the first event, changes) and need no invariant but
`TypeOK`. (`ClosingIsNeverForgotten`, `KeysAreOnlyReplaced`)

In `TextWrapProofs`: `Room` says what `space_left` is in terms of the last line,
wrapped around or not, and `Fitting` that the utterance still to come fits into a
`size_t`. From the two follows that after a line longer than `LINE_LENGTH` every word
fits (`NewLine`'s guard is false), which is what makes `LongWordEndsWrapping`, `LinesFit` and
`LinesAreFilled` inductive; `FirstInLine` and `Returned` are what they and
`ShowsTheEnd` need besides.

In `StartupProofs`: `Succeeded` says which of the calls before `main_pc` must have
succeeded, and `SoFar` relates the thread, the section, the video and an exit to
`main_pc`. They give `ExitsAloneHolds`, `PlaysKnownSectionHolds` and `NothingMissingHolds`.
The types of `Startup` are proved (`StartupTypeCorrectness`) and not the subject of a run.

Only model-checked: the eight liveness properties, as fairness is out of the prover's
reach. Every invariant, every action property and both refinements of a passing run are
theorems.

## 5. Findings and observations

* **F1** (`wait_race`, `main.cpp:285`). The wait for the phone is a data race and a
  loop without effect. If it is removed, the video and the captions start with an
  empty window, and captions go to address zero; if the size is read once, main hangs.
  The comment above it promises to wait.
* **F2** (`frame_lag`, `main.cpp:83`). `SDL_RenderPresent` comes before
  `SDL_UnlockTexture`, and the texture is copied by `display`. Captions are presented
  over the previous frame, while the comment of `unlock` says they are overlaid on the
  frame just written. The run ends with the first frame's registered caption on the screen
  over a target that nothing has been copied to. What does hold is `PresentsPreviousFrame`: one frame late, never more.
* **F3** (`escape_lost`, `main.cpp:303`). Each key replaces the one before it in the batch,
  and only the last is acted on. An escape followed by another key within a tenth of a
  second is lost, while the comment at `main.cpp:296` says that escape quits. What does
  hold is `LastEscapeQuits`, and `LostOnlyToAnotherKey` for every key that ends the server.
* **F4** (`torn_down`, `main.cpp:334`). The mutex, the renderer and the texture are destroyed
  while VLC goes on calling the callbacks; the comment at `main.cpp:39-40` says VLC
  renders to the texture peacefully. In the last state of the run the three are gone and VLC
  is between `lock` and `unlock`.

Observed while reading or in the models, without a run:

* The program never ends in an orderly way: at `main.cpp:340` the destructor of
  `play_captions_thread`, which nobody joined, calls `std::terminate`. It is also what keeps
  `LocalsOutliveThreads` true.
* If the first `recvfrom` fails the thread returns and main waits for ever
  (`orientation.cpp:32`).
* `SentInOrder` and `NeverEarly` end where the program does: captions are handed to UDP in
  order, and the network may still reorder them; and the time counts from the call that
  starts the player, which returns before the first frame is there.
* A resize calls `SDL_RenderSetViewport` without the frame mutex (`main.cpp:307`), while
  VLC's thread may be drawing with the same renderer.
* A registered caption drawn before the first `display`, or during a resize, is placed
  with a `display_rect` of 0 by 0 or of mixed sizes (`presentation_methods.cpp:89`). It is
  the one torn frame that `TearsOneFrame` allows; the shipped caption files start a second
  or more into the video.
* `-s` is parsed and never used: the font is opened with `FONT_SIZE_SMALL`
  (`main.cpp:161`), and the result is not checked; without `-p` there is no font.
* The arrow always points forward (`presentation_methods.cpp:62-63`), while
  `main.cpp:217` and the repository's `README.md:99-100` say it points to the next speaker.
* The keys enter and space, named at `main.cpp:296`, are not handled.
* `long_options` has no terminating entry of zeros.
* `render_registered_captions` resets the blend mode before it fills the field of view,
  which becomes opaque black (`presentation_methods.cpp:116-119`).
* Every caption is sent as 1024 bytes whatever its size (`captions.cpp:83`).
* `connect_to_client` does not wait although its caller's comment says so
  (`main.cpp:125`).

## 6. Not modelled

* FlatBuffers, JSON, SDL, TTF, libvlc: third-party, modelled where the code calls them. The
  vendored FlatBuffers tree (its library, its compiler and generators for a dozen
  languages, its tests) is nearly all of the 51,000 lines of code in the repository;
  the program itself has about 1000, of which the modules cover nearly all that is
  not a declaration. The layout of a message inside its 1024 bytes is part of this.
* `print_connection_qr`, the colours, the value of `-m`: formatting, and values passed on;
  every presentation method is an initial state of the modules that depend on it.
* The mean and the tangent: floating point. The mean is not circular; which readings
  it is taken over is `WindowSpec`, and every result of the tangent is an input of
  `Presentation`.
* Files and the network before `PhoneSends`: a missing file is a failing call in `Startup`,
  a lost datagram one that was not sent.
* More than one phone: every datagram replaces the client's address, and nothing in the
  code promises anything about a second sender.

## 7. Plan

Done: start-up, the four threads over the data, the event loop, resizing and teardown, the
two abstract specifications, wrapping, the placement of all methods, and proofs of all
safety and action properties. What is left, in order of use:

1. The message: the builder of FlatBuffers as `transmit_caption` uses it, and the reader
   as `read_orientation` does, with the promise that what is read is what was written and that
   1024 bytes hold it.
2. A circular mean of azimuths as an abstract specification, once the program has one.
3. A second sender, once the program says which one it answers to.
