# A verification project for kkapture

kkapture records demos: a launcher starts a Windows program with `kkapturedll`
injected, and the DLL replaces the program's clock, its sleeping, its sound and
its presentation functions so that every frame the program shows becomes one
frame of a video, however long it took to render. Time for the program is the
number of frames captured so far. Two things make this hard. It is concurrent:
the program has threads kkapture knows nothing about, kkapture adds its own (the
encoder thread, the watchdog, the keyboard hook, DirectShow's streaming
threads), and the capture may end at any moment, from any of them. And it stands
between two parties that both keep state: what a hook does has to fit whatever
the program, Direct3D, DirectDraw or DirectShow did before.

This directory models those parts in TLA+, checks them with TLC on small
instances and proves with TLAPS, for every instance, the safety properties that
TLC checks (section 4 says under which hypotheses). Line numbers are those of
`src/kkapturedll/` unless another directory is named.

## 1. The system

### 1.1 Components

| Component | Source | State it keeps | Operations | Model |
|---|---|---|---|---|
| Frame barrier and hooked waits | `timing.cpp` 274-390, 392-565 | three manual-reset events, `waitCounter`, `currentFrame`, the watchdog's timer | `Mine_Sleep`, `Mine_WaitFor...`, `nextFrameTiming`, `doneTiming`, `stuckThreadProc` | `FrameSync` |
| Multimedia timers | `timing.cpp` 162-265 | 256 slots under a recursive lock | `timeSetEvent`, `timeKillEvent`, `ProcessEventTimers` | `EventTimers` |
| Virtual clock | `timing.cpp` 60-160 | timer seeds, hammering counter | time queries | `VirtualClock` |
| Encoder thread | `mt_proxy_videoencoder.cpp` | bounded list, semaphore, exit event | the encoder interface, `QueueRunner`, destructor | `MTProxy` |
| Capture lifecycle | `main.cpp`, `video.cpp` | encoder pointer, capture buffer, part counter, `initialized` | `nextFrame`, `skipFrame`, `setCaptureResolution`, `videoStartNextPart`, `done`, ctrl+break | `Lifecycle` |
| waveOut device | `sound_waveout.cpp` | linked list of buffers, loop state, sample positions | `waveOutWrite` ... `waveOutReset`, `processFrame` | `WaveOut` (partly) |
| DirectSound buffer | `sound_directsound.cpp` | cursors, frame and sample positions, a lock, reference counts | `Lock`, `Play`, `Stop`, `GetCurrentPosition`, `Release`, `encodeLastFrameAudio` | `DirectSound` (partly) |
| VFW and BMP/WAV encoders | `avi_videoencoder_vfw.cpp`, `bmp_videoencoder.cpp` | files, streams, frame and sample numbers, segment size | the encoder interface | `Writers` |
| Resampler | `audio_resample.cpp` | fraction, start-up state | `Init`, `Resample`, `MaxOutputSamples` | `Resampler` |
| DirectShow video pin | `avi_videoencoder_dshow.cpp` 64-248 | ring of 4 frames, two indices, two auto-reset events | `PushData`, `FillBuffer`, `Terminate` | `DShowRing` |
| DirectShow audio pin and graph | `avi_videoencoder_dshow.cpp` 279-876, `src/dshow_base/` | ring, partial buffer, streaming thread, allocator | the encoder interface, `FillBuffer`, the base class's worker | `AudioPin` (partly) |
| Direct3D 8 and 9 capture | `video_direct3d8.cpp`, `video_direct3d9.cpp` | the device's reference count, capture surfaces | `AddRef`, `Release`, `Reset`, `Present`, `CreateDevice` | `Direct3D` |
| DirectDraw capture | `video_directdraw.cpp` | primary surface and its version, patched interfaces, virtual framebuffer | `CreateSurface`, `QueryInterface`, `Blt`, `Flip`, `Lock`, `Unlock` | `DirectDraw` (partly) |
| OpenGL, Direct3D 10, GDI capture | `video_opengl.cpp`, `video_direct3d10.cpp`, `video_gdi.cpp` | next to none | a frame's capture | in `Lifecycle` (partly) |
| Conversion and blitting | `bltutils.cpp` | the capture buffer | copies | its size and life, in `Lifecycle` |
| BASS/FMOD hooks, process interception, launcher, log | `sound_bass.cpp`, `sound_fmod.cpp`, `intercept.cpp`, `src/kkapture/`, `util.cpp` | next to none | - | not modelled |
| Vendored | the rest of `src/dshow_base`, `src/detours`, `src/d3d8` | - | - | not modelled |

### 1.2 How they interact

A presentation hook copies the picture, calls `encoder->WriteFrame` and then
`nextFrame` (`video.cpp` 175), which is `nextFrameTiming` followed by
`nextFrameSound`. `nextFrameTiming` releases every hooked wait once (the frame
barrier), runs the multimedia timers of the frame, re-arms the watchdog and
counts the frame. `nextFrameSound` asks the current sound device for exactly the
samples of that frame and hands them to `encoder->WriteAudioFrame`. The encoder
may be the proxy, which queues the call for its own thread; behind it is the VFW
or the BMP writer, or the DirectShow one, which hands pictures and sound to
streaming threads through two rings. Time queries and position queries that are
repeated too often call `skipFrame` or `nextFrame` from wherever they are, and so
does the watchdog. A change of the picture's size, a new device or a reset
deletes the encoder and creates the next one.

    program threads --Sleep, Wait...--> FrameSync <--nextFrameTiming-- presenting thread
                                           |  ^                             |
                  watchdog --skipFrame-----+  +--doneTiming-- ExitProcess   |
                                           v                                v
       VirtualClock <--currentFrame--> EventTimers              WaveOut | DirectSound
                                                                            |
     Direct3D | DirectDraw --WriteFrame-->  Lifecycle  <--WriteAudioFrame---+
                                 |  (which encoder, which file, which size)
                                 v
                              MTProxy --> Writers (VFW | BMP, Resampler)
                                     \--> DirectShow: DShowRing, AudioPin --> filter graph

### 1.3 What is hard, and the properties that make a component correct

* *Frame barrier.* No lock, four shared objects read and written one at a time.
  Correct means: a frame releases every wait in progress once, no wait sees two
  frames, the presenting thread always gets through, and after the last release
  no wait uses the events any more.
* *Timers and clock.* `timeKillEvent` takes no lock; callbacks run inside the loop
  over the slots; the seeds of the clock are read after a double-checked test;
  any thread may ask, and asking may advance the frame. Correct means: a timer
  fires as often as frames have passed, the answers follow the frames from one
  pair of seeds, and a program that waits for either gets on.
* *Lifecycle.* The encoder is a global pointer that three threads use and that
  is exchanged in the middle of a capture. Correct means: a call finds an encoder,
  the picture is as large as that encoder was told, no file is made twice, all are
  finished in the end, and the way out does not wait for itself.
* *Encoder thread, DirectShow pins.* Hand-overs between threads, bounded, without
  loss, duplication or reordering, that can be shut down at any time. Both rings
  give a slot back before they copy from it.
* *Sound devices.* Time that has to stay in step with the picture whatever the
  program does with the device: loops, resets, restarts, changes of rate,
  positions polled until the query itself advances the frame.
* *Writers.* Files that may fail to open at any step, a stream of sound that
  starts late, segments, two rates.
* *Graphics.* kkapture's own surfaces and calls among the program's, without the
  program or kkapture's own hooks being misled by them.

`PROJECT.json` lists the hazards with their lines and the properties that cover
them, or why none does.

## 2. Modules

| Module | Contents |
|---|---|
| `FrameSync`, `MCFrameSync`, `FrameSyncProofs` | the barrier, its waits, the watchdog and the exit; threads as model values; theorems |
| `FrameSyncExit` | the same with one history variable, for what the exit promises the waits; `ApartSpec`, its executions in which no two threads are inside the barrier at once |
| `EventTimers`, `VirtualClock`, `Timekeeping` | the multimedia timers, the time queries, and both on the frames they share |
| `EncoderFifo` | what a hand-over promises: abstract specification, with liveness |
| `MTProxy` | the encoder thread |
| `DShowRing` | the ring of the video pin; its `RingSpec`, `RingNext` and so on have names of their own so that one module can extend both |
| `Handover` | either of the two, for TLC |
| `HandoverProofs` | theorems about `MTProxy` and `DShowRing`, the two that implement `EncoderFifo` |
| `AudioPin`, `AudioPinProofs` | the audio pin with its partial buffer, its streaming thread and its allocator; its theorems |
| `Lifecycle`, `LifecycleProofs` | which encoder there is, and who may still call it; its theorems |
| `WaveOut`, `MCWaveOut`, `WaveOutProofs` | the waveOut device, with a plain buffer and a self loop; its theorems |
| `DirectSound`, `DirectSoundProofs` | the emulated DirectSound buffers, their theorems |
| `Resampler` | positions and counts of the resampler |
| `Writers`, `WritersProofs` | the encoders that write files themselves, extending `Resampler`; theorems about both |
| `Direct3D`, `DirectDraw`, `Graphics` | the two families of hooks, and a program that uses either |
| `HookProofs` | theorems about `Timekeeping` and `Graphics` |

Definitions called `...Forgotten`, `...Ignored` and the like, each marked
"Mutant", are not used by any specification. Each is a plausible slip in the
definition that follows it (a missing decrement, an event that is not set, an
off-by-one), kept to show that the property named with it in `PROJECT.json`
would notice.

In `Lifecycle`, `Writers`, `AudioPin`, `Direct3D` and `DirectDraw` a hooked call is
the sequence of the steps its thread has still to take; each step is one access to
what is shared, and may put the steps of a call it makes in front of the rest.
That is the code's call stack, with what is done between two accesses folded
into the access before it.

### 2.1 FrameSync

One step is one access to a shared object: `SetEvent`, `ResetEvent`, a test of
`waitCounter`, an interlocked add, the two halves of `currentFrame++`. `pc[t]` is
the line a thread is about to execute: the waits run
`run -> atResync -> admitted -> counted -> woken (-> signalling) -> run`, the
barrier runs `closing -> releasing -> reading -> arming | marking -> polling
<-> recheck -> withdrawing -> reopening -> ticking -> loading -> storing`.
`doneTiming` repeats the first half of the barrier (lines 459-468) and is the
same actions, with `AfterLoop` telling them apart. A thread that is about to
enter a kernel wait and one blocked in it are one program point, because the
wait returns in every state where its event is set and a preempted thread may
miss a pulse. `SetEvent` on a manual-reset event wakes everybody who is inside
the wait; the model lets such a thread be slow, which only adds behaviours.

Threads are in four constant sets: `Sleepers`, `Renderers`, `Breakers` (the
keyboard hook's thread, which can only end the process) and `Stuck` (the
watchdog). A wait ends by `nextFrameEvent` (`ReleaseWait`) or by its own handle
or timeout (`EndWait`); how long the timeout is does not matter and is not
modelled. What `nextFrameTiming` does between the barrier and `currentFrame++`
(timers, re-arming the watchdog, the clean exit) is `Tick`. `done()` lets one
thread through; others stay at `barred`.

`released`, `missed` and `falseSignal` are history variables. They count,
saturating at 2, releases of a thread during one frame and releases begun since
a wait was counted, and record whether some thread set `noOneWaiting` while
others were counted again. `FrameSyncExit` adds `caught`, the waits `doneTiming` released
that are still in progress.

### 2.2 EventTimers, VirtualClock and Timekeeping

A slot has the fields of `EventTimerDef`. `Visit`, `FireTimer`, `AfterCallback`,
`NotDue` are the statements of the loop; while a callback runs, timers may be set
(the lock is recursive, so only by the callback) and killed (by anybody, at any
time, since `timeKillEvent` takes no lock). `EndProcess` leaves the lock (264) and
`CountFrame` counts the frame (559); between the two (`pc` is "left") any thread may set a
timer. A frame lasts `Millis / FrameSpan` milliseconds, a fraction, so that the rounding of
`UMulDiv` matters.

`VirtualClock` has the three statements of `seedAllTimers` and the double-checked
test around them as steps, the load and the store of `currentFrame++` apart, the
hammering counter, and the frame that a query has read before it seeds. Two
clocks stand for all: one whose unit is not a millisecond
(`QueryPerformanceCounter`) and one whose unit is (`timeGetTime`; `GetTickCount`
and the file time have the same formula and seed). The frame barrier is not
repeated: several threads may be between the load and the store.

`Timekeeping` runs both on `currentFrame`, the only variable they have in common.
The variable `asks` chooses which of them the program uses: the product of the two
interleavings would show nothing about either.

### 2.3 EncoderFifo, MTProxy, DShowRing and AudioPin

`EncoderFifo` accepts items while open, delivers them in order, at most
`Capacity` of them undelivered; once it is closing, what is waiting may be thrown
away, and after that nothing is delivered. Its fairness says that accepted items
do not wait for ever and that closing ends.

`MTProxy` has the program's threads in two sets, one writing frames, one
samples. A call is `Call`, `AcquireSlot` or `DropCommand` (the 15 s timeout, any
time the semaphore is 0), `QueueAppend`, `Return`. The runner is `RunnerWait` (the
10 ms wait for `queue_exit`, an auto-reset event), `QueuePop`, `ReleaseSlot`,
`Execute`; on the way out it drains. A frame is identified with the size it was
copied with, samples with their format: that is all the real encoder depends on
for memory safety, and `CommandsFitEncoder` compares it with what the encoder was
told. Under the refinement mapping the FIFO's content is the entry the runner
holds followed by the list, and its capacity is MAX_QUEUED + 1: the semaphore is
released before the command is executed.

`DShowRing` keeps both indices, both auto-reset events and the flag; every test
and set is a step, `memcpy` into a slot is two (the slot holds nothing in
between). Frames are numbers, so that order, loss and duplication show. The
mapping to `EncoderFifo` reads the ring from `BufferReadPtr` to `BufferWritePtr`
plus the slot being copied out. It is checked for safety; liveness is stated
directly as `RingCallsEnd`, since the graph may be stopped with frames waiting and
a program may never push again.

`AudioPin` is the same idea with what the video pin has not: the block that is
filled in parts and exchanged with a slot's by its pointer, and the whole life of
the thread on the other side. The worker's loop (`ThreadProc`, `DoBufferProcessingLoop`
in `src/dshow_base/source.cpp`), the request with its two events (`CallWorker`,
`Reply` in `wxutil.cpp`) and the allocator with its semaphore and its late
decommit (`amfilter.cpp`) are modelled from their source. The multiplexer is
external: it takes a sample or refuses it, keeps some and gives each back. The
video pin's worker is the same code; the two pins meet only in the multiplexer and
are checked one at a time.

### 2.4 Lifecycle

Three threads: the program (graphics, sound, `ExitProcess`), the watchdog
(`skipFrame`) and the keyboard hook (ctrl+break and right ctrl). An encoder is a
record of what it was told and has done; the global pointer is an index, and a
call through it when it is null, deleted, or was never told the sound format
stops the behaviour with a `fault`. The locks `captureDataLock` and `shuttingDown`
are their owners. Direct3D 9 and OpenGL stand for the two orders in which a frame
is captured: the size from the device, or with every picture. A picture that could not
be read back, or is not captured because the user switched `CaptureVideo` off, is not
written (`WriteNothing`, `ProgramAdvances`); that nobody ever has to call `skipFrame`
covers `EnableAutoSkip` switched off.

No lock covers the exchange of an encoder (`video.cpp` 128-172, `main.cpp` 114-131).
With `Overlap` FALSE the model has no behaviour in which a thread exchanges it
during another thread's call; what the project states of the lifecycle is said
under that restriction, except for `AbortIsSafe`, which is checked without it and
fails.

### 2.5 WaveOut and DirectSound

The list of `WaveOut` is `qHead`, `Current`, `qTail` and `lpNext`, the flags are the
sets `prepared` and `inQueue` (WHDR_DONE is the absence of WHDR_INQUEUE). Samples
are counted, not valued. `processFrame` is `BeginFrame`, one `Consume` per turn of
its loop, and `EndFrame`; `reset` has a step per turn of its `while(Head)`, so that
a loop that does not end is a behaviour. `getPosition` counts calls and, at the
limit, advances the frame as `skipFrame` does. History variables record the
buffers written and not done (`playQueue`), the loops asked for, and the samples
encoded. They stop at the first reset, because the device restarts its clock
there. The program's calls fall between two frames or come from the callback that
tells it of a finished buffer, which `doneBuffer` makes before it unlinks that
buffer (`pc` is then `doneInFrame` or `doneInReset`, and `Unlink` follows). A callback
that writes the very buffer ends the behaviour (`lost`): the list is gone, see 6.

`DirectSound` has two buffers and two threads: "main" presents, "sound" makes all
other calls, at any moment. `encodeLastFrameAudio` is the read of the frame number,
the call with a buffer's lock, and the write; `GetCurrentPosition` at its limit
leaves the lock, advances a frame and enters it again, which is where the two
threads meet. Positions and frame differences are DWORDs and wrap at `DWordRange`.
A sample is a byte. Two flags mark what the properties have to except:
`careless`, a call that hits a buffer between two steps of the frame that encodes
it, and `dropped`, a buffer that is deleted while it plays. The constructor does not
initialise `FirstFrame`, and `Play` publishes the buffer before it sets it, which is two
steps; `Garbage` is what it may hold until then. `clamped`, of `SurplusIsOnce`, starts
anew when the buffer is started, stopped or retuned.

### 2.6 Resampler and Writers

`Resampler` keeps of `audio_resample.cpp` what decides how much is read and
written: `tFrac` in units of 1/OutRate sample, the samples that fill the history
of the spline, and the counts. A block is begun by `ResampleBlock` and worked off by
`ResamplerStep`, one output or one input sample at a time; `Identical` rates are copied.

`Writers` is driven the way `nextFrame` drives an encoder: a picture, then the
frame's sound, whose format may change between two frames. `kind` chooses the VFW
or the BMP/WAV encoder. Opening a file, creating a stream and writing a picture may
fail, up to `MaxFailures` times: the VFW encoder ignores a picture that
`AVIStreamWrite` refused and counts it, the BMP encoder uses the null pointer of a file
that could not be opened, which ends the model (`fault`). For VFW the first picture starts the encoding,
`Segment` looks at the size, `CleanupSegment` and `InitSegment` exchange the files;
the first sound starts its stream (`StartAudio`), and `Fill` and `Block` write the
silence of the frames before it.

### 2.7 Direct3D, DirectDraw and Graphics

`Direct3D`: the hooks count the program's references in `deviceRefCount` and give
up the capture surfaces with the last one; the real count of a device is in `refs`. A
surface that is freed gives up its own reference of the device, through the replaced
method or past it (`inside`, chosen once: which of the two Direct3D does is not in
the repository). `Reset` adds `Protection` references for its duration. Creating
a surface, resetting and copying may fail; without the texture no other surface is
made. The program may create a device while it has others, whose count and surfaces the
hooks then forget: `owner` is the device a surface was made for, `overlapped` records
that it happened.

`DirectDraw`: the methods of every version of the interfaces are patched for all
objects at once, in an order that `patched` keeps. `shared` chooses whether DirectDraw
implements two versions with the same code, so that one call comes through the
hooks of both, the latest first. The Lock hooks of versions 7 (and 2) call the original of
version 1, so that such a call goes past version 1's hook and those between
(`LockHooks`), through a null pointer if version 1 has not been patched, or round for ever
if it was patched later (`LockLost`, the end of the model). Presenting a picture is a
`Blt` to the primary surface, a `Flip` of any surface (the hook asks only for the version)
or an `Unlock`, whether DirectDraw does it or refuses. Reading it back is a blit to a
surface of kkapture's own and a lock, which come through kkapture's hooks again and may
fail; that surface's pointer is not initialised, so that when DirectDraw refuses to make it
`ReadBack` may go on with an earlier surface, find null, or crash. With the virtual
framebuffer the program draws to memory instead.

`Graphics` composes the two by the API a program draws with: both sets of hooks
are installed in every process (`initVideo`, `video.cpp` 200), and a program uses one.

## 3. Runs

| Run | Instance | Checks | Distinct states |
|---|---|---|---|
| `FrameSync_counted` | three sleepers, one presenting thread, a key that ends the process; no two threads inside the barrier | `OneReleasePerFrame`, `CountedWaitSpansOneFrame`, `ActiveWaitsFinished` | 2 247 000 |
| `FrameSync_watchdog` | one sleeper, one presenting thread, watchdog, exits | `BarrierTerminates` | 122 000 |
| `FrameSync_exit` | two sleepers, one presenting thread, the key; any interleaving | `ActiveWaitsFinished`: violated | |
| `Timekeeping` | 2 timers, delays 0, 1 and 4, 4 frames of 2.5 ms; or 2 threads that ask, 2 frames | `FiredOnTime`, `ProcessEnds`, `ClockFollowsFrames`, `TimeMovesOn` | 298 000 |
| `Handover` | two callers, list of 2, 5 calls, two sizes; or 4 slots, 9 frames | `ProxyIsSound`, `CommandsFitEncoder`, `ImplementsFifo`, `FrameIntact`, `RingIsSound`, `RingCallsEnd`, `RingImplementsFifo` | 349 000 |
| `AudioPin` | 3 slots of 2 units, 2 samples, 9 units in calls of up to 3 | `SoundIntact`, `NothingUsedAfterDelete`, `CallsReturn` | 49 000 |
| `Lifecycle` | two sizes, 6 calls, three threads | `EncoderAtHand`, `FilesComplete`, `PicturesFit`, `OneSizePerFile`, `CallsEnd` | 367 000 |
| `Lifecycle_break` | 4 calls, exchanges overlap calls | `AbortIsSafe`: violated | |
| `WaveOut` | a plain and a looping buffer, 4 frames | `QueueIntact`, `SoundInStep`, `DoneMeansPlayed`, `WaveOutCallsEnd` | 536 000 |
| `DirectSound` | two buffers of 8 samples, 2 frames, 4 calls | `AudioInStep`, `ReadsInside`, `BuffersAtHand`, `SurplusIsOnce`, `CallsReturn` | 988 000 |
| `Writers` | both encoders, 5 pictures, 2 formats, one failure | `EveryPictureFiled`, `SegmentsFinished`, `SoundMatchesPicture`, `NoDrift`, `OutputFits` | 462 000 |
| `Graphics` | 2 devices, 3 surfaces, 2 references of each, a failure; or 3 pictures by DirectDraw | `NothingReleasedTwice`, `DeviceDiesWithProgram`, `OnePictureOneFrame` | 4 722 000 |

The type invariant of each module is a conjunct of one of its properties.

### 3.1 Bounds

* `FrameSync`: `FrameModulus = 2` is the range of the frame counter; nothing but
  the counter itself depends on it. Two sleepers are needed for the races
  between the thread that takes the counter to 0 and the others; the third is a
  waiter in a place one of the two can be in. The number of frames is not
  bounded.
* `Timekeeping`: delays of 1 ms and 4 ms are below and above the 2.5 ms frame, 0
  is refused. Two slots let a callback take its own, an earlier or a later one.
  Two threads that ask, a threshold of 3 queries, and a real clock that may move
  between the readings of two seeds, before and after the first picture.
* `Handover`: the two share nothing, so that their product would show nothing about
  either. `MTProxy`: with a list of 2 and five calls the list fills, a command is
  dropped, a size changes between two frames and the destructor finds entries
  left. `MaxCalls` bounds the histories; the theorems hold without it mattering.
  `DShowRing`: the four slots of the code; nine frames let both indices wrap
  twice.
* `AudioPin`: calls of 1 to 3 units end inside, at the end of and across
  slots of 2; nine units fill three slots, the partial buffer and the sample in
  flight; with two frames the graph starts with and without sound.
* `Lifecycle`: of the two sizes one is a multiple of four and one is rounded to
  it; six calls are enough to create a device, present, resize, reset, present and
  exit, with a skipped frame or an abort in between.
* `WaveOut`: 5 samples in 2 frames, so frames are 2 and 3 samples long and
  buffers of 2 and 3 samples end inside, at the end of and across frames. `MaxLoops`
  = 2 gives a loop that is entered, repeated and left. `DWordRange` is larger than
  any count the run reaches; the wrap itself is only hit after a reset.
* `DirectSound`: frames of 2 and of 3 or 4 samples at the two rates; a buffer
  holds two to four frames, and the cursor may be anywhere, so that the two
  stretches of a wrapped read occur; `DWordRange` is small enough to wrap through
  and more than twice the buffer. `FirstFrame` holds 0 or one of two later frame
  numbers at first, so that the difference to the current frame wraps. Two position
  queries advance a frame.
* `Writers`: the rates 40 and 54 have no small common multiple; segments are two
  pictures long, the silence before late sound is cut into blocks of 8.
* `FrameSync_counted`: the threads that advance the frame, and the one that exits, do
  not meet inside the barrier, which is what the code relies on in the normal case and
  the theorems assume. `FrameSync_exit` is without that, for what line 458 claims; two
  sleepers are enough for it. Barriers that meet because of the watchdog are in
  `FrameSync_watchdog`.
* `Graphics`: two devices, of which the program may have both at once, the second
  made at any moment of the first one's life, or one after the other; a count of two
  tells the last reference from another. One failure of any of the fallible calls, at any
  moment; the theorem for a device that is the only one has any number. Three pictures:
  the first patches and allocates, the second and third meet what is left over (a lock,
  memory of kkapture's).
* `CHECK_DEADLOCK FALSE` everywhere: the process may end, the program may stop
  calling, and the bounds end a behaviour.

### 3.2 Fairness, and why the code justifies it

* A thread inside `nextFrameTiming` is running or polling with a 5 ms timeout:
  `WF_vars(Advance(t))`. In the polling loop it looks at the event or the counter
  again and again: `SF_vars(LeaveLoop(t))` says that it does not miss each of
  infinitely many moments at which either would let it go.
* A hooked wait that has begun goes on (weak fairness of its steps), but nothing
  is assumed about its handle or timeout, and nothing makes the program call.
  `TimeoutSpec` adds that waits time out, which is true of all but a
  `Sleep(INFINITE)` that is made to last one frame (line 298); the run with the
  watchdog needs it.
* The runner of the proxy, both sides of the rings, the worker of the audio pin,
  and a call inside waveOut, DirectSound or the lifecycle are threads that run. The
  graph downstream takes every picture (`WF_vars(DeliverSample)`), and the
  multiplexer gives every sample back in the end (`WF_vars(MuxReleases)`): that is
  external code, and an assumption.
* Timer callbacks return: weak fairness of `ProcessEventTimers` includes
  `AfterCallback`. A program that asks for the time in order to wait for it asks
  again and again (`TimeSpec`): that is the premise of the comment at line 60.
  The callbacks of waveOut return, too.

### 3.3 What the runs show

*Barrier.* With any interleaving of three sleeping threads, one presenting thread and a
key that ends the process, as long as no two are inside the barrier, a frame releases no
thread twice.
A wait, once counted, sees one frame only, with a single exception that the property
names: a thread that took the counter to 0 and is preempted before
`SetEvent(noOneWaiting)` (line 284) may set it in a later frame and end that frame's
barrier early. `falseSignal` records exactly that. A thread that ends the process,
whichever it is, leaves no wait behind that it released. When another thread is inside the
barrier, it may (`FrameSync_exit`): the presenting thread has found `waitCounter` at 0,
a wait is counted, `doneTiming` releases it, finds it counted and resets `noOneWaiting`;
now the presenting thread sets `noOneWaiting`, as it had decided, and `doneTiming` goes on
to close the events although the wait is in progress. The comment at line 458 and
`changelog.txt` 97 say that this is excluded. The presenting thread and the watchdog
always get through their barriers, although the wake-up through `noOneWaiting` can
be lost: the second look at `waitCounter` every 5 ms is what they depend on (drop
it, and `BarrierTerminates` fails). That holds for one sleeper, for barriers that
do not meet and for waits that cease; see 6 for the rest.

*Time.* A timer set outside callbacks has fired, after every frame, exactly as
often as its delay fits into the frames' time since it was set; a one-shot timer
once. One that is set after a frame's timers are done and before that frame is counted
is not charged for it, and stays late by one frame. A timer set by a callback is excepted: in a later slot it is charged for
the running frame at once, and in the slot of the timer being fired, after that
one killed itself, it is marked dead by the line that follows the callback (257).
All clocks answer from one pair of seeds plus the frames, whichever threads asked
first and whatever they saw of the double-checked test; a program that only asks
gets its next frame.

*Lifecycle.* As long as no call overlaps an exchange of the encoder, every call
finds one, pictures have the size it was told, every file is made once and
finished, and no thread waits for its own lock on the way out. With ctrl+break,
which runs `done()` on the hook's thread, the program may create the finished file
again (`AbortIsSafe`, `changelog.txt` 95).

*Hand-overs.* The proxy is a FIFO with a capacity, ends when it is told to and
keeps commands in the order in which they were appended; frames reach the encoder
with the size they were copied for as long as no SETSIZE was dropped. The ring of
the video pin never overwrites the slot being copied, loses no wake-up and no
frame but those that wait when it is stopped, and can always be stopped. Sound reaches the multiplexer in the pieces the
ring holds, whole and in order, through a start, a stop and late allocator frees;
every call of the encoder returns, except that `PushData` waits for ever if no worker
takes samples any more.

*Sound.* The waveOut device keeps sound as long as the picture, plays loops as
often as asked, returns buffers only when played, and its list is intact after
any sequence of calls and of callbacks that write other buffers - with
single-buffer loops, and until a callback writes the buffer it was called for. A
DirectSound buffer that was started once and plays gives exactly the samples of the
frames since, also when a position query advanced one of them on another
thread; starting or retuning it costs at most one buffer of surplus sound, once.
The encoder never reads outside the buffer, unless a call moved the cursor
between the two steps of the frame that encodes it (`careless`); it finds its buffer,
and a size it can compute, with the same exception and unless the buffer was deleted
while it played or the program is in the middle of `Play`.

*Files.* Both writers file every picture in order as long as nothing fails, and
finish all segments but the last even then. Sound is late by the frame in which
it starts and by what a change of format costs, and in step from there on, over
segments. The resampler neither drifts nor writes more than
`MaxOutputSamples` says, unless it is slowed down to less than an eighth.

*Graphics.* The capture surfaces of a device that is the only one neither keep it alive
nor end it early while nothing fails, whether Direct3D's own calls pass the hooks or
not; nothing is released twice whatever fails and however many devices there are. With
two devices more is not to be had: see 6. Each call of a DirectDraw
program that presents a picture counts as one frame, those that DirectDraw refused
included: neither kkapture's own blits nor methods shared by two versions count. Its picture
is written once, but for those that DirectDraw would not hand over (`refused`) and those
of an `Unlock` whose `Lock` was of a part, failed, or did not reach the hook of the
primary's version (`undrawn`).

## 4. Proofs

TLAPS proves the following for every value of the constants that satisfies the
modules' named assumptions (finite sets of threads, MAX_QUEUED > 0, a ring of more
than two slots, ...). Those assumptions and the hypotheses in the table are all that
is assumed; the bounds on frames, calls and pictures are constants like any other.

| Theorem | Module | States | Hypotheses |
|---|---|---|---|
| `TypeCorrect` | `FrameSyncProofs` | `Spec => []TypeOK` | |
| `BarriersApart` | `FrameSyncProofs` | `Spec /\ []Apart => []BarrierInv` | |
| `ReleasedOnce`, `CountedWaitsEnd` | `FrameSyncProofs` | the same for `OneReleasePerFrame`, `CountedWaitSpansOneFrame` | barriers do not meet (`[]Apart`) |
| `OneRelease`, `OneFrame` | `FrameSyncProofs` | `Spec => []OneReleasePerFrame`, `[]CountedWaitSpansOneFrame` | one presenting thread, no watchdog, no key that ends the process |
| `TeardownWaits` | `FrameSyncProofs` | `ExitSpec /\ []Apart => []ActiveWaitsFinished` | barriers do not meet (`[]Apart`) |
| `ClockCorrect`, `TimersCorrect` | `HookProofs` | `TimeSpec => []ClockFollowsFrames`, `[]FiredOnTime` | |
| `SlotsAreConserved`, `ListIsBounded`, `CommandsFit` | `HandoverProofs` | `Spec => []ProxyIsSound`, `[](Len(queue) <= MaxQueued)`, `[]CommandsFitEncoder` | |
| `ProxyRefinesFifo` | `HandoverProofs` | `Spec => Fifo!Init /\ [][Fifo!Next]_...` | |
| `RingHoldsFrames`, `RingCopiesWholeFrames` | `HandoverProofs` | `RingSpec => []RingIsSound`, `[]FrameIntact` | |
| `RingRefinesFifo` | `HandoverProofs` | `RingSpec => RingImplementsFifo` | |
| `EncoderAtHandHolds`, `FilesCompleteHolds`, `PicturesFitHolds` | `LifecycleProofs` | `FairSpec => []EncoderAtHand`, `[]FilesComplete`, `[]PicturesFit` | `Overlap = FALSE` |
| `OneSizePerFileHolds` | `LifecycleProofs` | `FairSpec => OneSizePerFile` | `Overlap = FALSE` |
| `SoundCopiedWhole`, `DeletedWhenUnused` | `AudioPinProofs` | `FairSpec => []SoundIntact`, `[]NothingUsedAfterDelete` | |
| `ListIntact`, `SoundWithFrames`, `DoneOnlyWhenPlayed` | `WaveOutProofs` | `FairSpec => []QueueIntact`, `[]SoundInStep`, `DoneMeansPlayed` | `LoopsOfOne` |
| `ReadsAreInside` | `DirectSoundProofs` | `FairSpec => []ReadsInside` | |
| `BuffersAreAtHand` | `DirectSoundProofs` | `FairSpec => []BuffersAtHand` | `FramesFit` |
| `AudioKeepsStep` | `DirectSoundProofs` | `FairSpec => []AudioInStep` | `FramesFit`, `FrameInBuffer` |
| `OneSurplusAtMost` | `DirectSoundProofs` | `FairSpec => SurplusIsOnce` | `FrameInBuffer`, `ManySamples` |
| `SoundDoesNotDrift`, `OutputAlwaysFits` | `WritersProofs` | `ResamplerSpec => []NoDrift`, `[]OutputFits` | |
| `PicturesFiled`, `SegmentsEnd`, `WritersDoNotDrift`, `WritersOutputFits` | `WritersProofs` | `Spec => []EveryPictureFiled`, `[]SegmentsFinished`, `[]NoDrift`, `[]OutputFits` | |
| `SoundKeepsStep` | `WritersProofs` | `Spec => []SoundMatchesPicture` | `FrameHoldsFour` |
| `DeviceDies` | `HookProofs` | `GraphicsSpec => []DeviceDiesWithProgram` | |
| `PicturesCounted` | `HookProofs` | `GraphicsSpec => []OnePictureOneFrame` | |

Every proof has the same form: an invariant that is inductive where the property
is not, a lemma per action or per family of actions, and a last step that puts them
together. TLC found each of these invariants true on the runs' instances before it
was proved. What follows is what each needs besides the property.

*Barrier, types.* `waitCounter \in 0..Cardinality(Sleepers)` is not inductive: a
decrement at 0 has to be excluded. `CounterExact`, which says that `waitCounter` is
the number of threads at `counted` or `woken`, is what every way into and out of
a wait preserves. The frame number is typed as a natural number only: `currentFrame++`
is a load and a store, so with three threads a late store can undo more than the
saturation of a counter would allow for.

*Barrier, releases.* `BarrierInv` holds as long as no two threads are inside a barrier
(`Apart`), whoever they are. The gate and the pulse are never open together
(`GateClosed`), so that a thread released in this frame is out of its wait and not
admitted to another (`ReleasedAreOut`), and a wait that was counted is held for by a
thread that will look at the counter again (`ReleaseHeld`); the late
`SetEvent(noOneWaiting)` of line 284 is what takes that last part away. With a single
presenting thread and no other way in, `Apart` is itself proved (`Alone`), so that
`OneRelease` and `OneFrame` assume nothing of the behaviour. `TeardownWaits` speaks of an exit by
any thread, and of behaviours in which it meets no other thread's barrier; `ExitInv` says that
the waits `doneTiming` caught are among those that are held for.

*Clock.* The lock is held by exactly the thread that is inside (`SeedLockHeld`), and
once the flag is set nobody is on the way to seed again (`SeededOnce`). Before the first
picture the seeds are taken and left unmarked, to be taken again; `PictureSeen` says that
a thread which has read a later frame and is past the lock has found, or left, them
marked, and so final. Until then the seeds only grow (`SeedsAdvance`).

*Timers.* `KeepsTime` relates the counter, the frames' time since the timer was set and
the number of times it fired; `TimeSeen` is the time up to which a slot has been
brought, which is the next frame's for the slots the loop has passed, and for a timer set
in the gap at the end of a frame, whose time starts with the next one.

*Encoder thread.* `SlotInv` adds to the types and to the counting of slots that
whoever is inside a call has a command, and that the runner has one between taking
it and executing it. Counting keeps the semaphore below MAX_QUEUED, so types and
counting are proved together. `PipeInv` is the order: what was appended is what was
executed, what is in hand and what is in the list, until entries are thrown away;
the refinement follows from it step by step. `CommandsFit` argues over positions
in that history: `InForce` is the size (or format) that the commands before a
position have set, the proxy remembers the one after all of them, and the encoder
has the one after those that were executed.

*Video pin.* The two indices are all either side knows of the other, so `RingInv` says
what they stand for: their distance is the number of frames written and not taken
(`IndicesCount`), the slots between them hold those frames (`SlotsHoldFrames`), the
capturing thread writes only with a second slot free (`GapKept`), and the slot being
copied from is the one behind the read index (`SourceKept`). The steps that matter
are the two writes into a slot: the write index differs from every waiting slot and,
because of the gap, from the one being copied. `RingRefinesFifo` adds only that the
stream has ended before the graph stops.

*Lifecycle.* The properties say nothing of the middle of a call, so `LifeInv` describes
what a thread still has to do. `Rest` is about a call alone, whatever the state: which
step may follow which (`Fits`), that a new part and a new buffer are told their size
later in the same call, that a picture written is counted as seen later, and that no
size is set once a call has begun with its picture. `CallersInv` says that a call which
will exchange something is the only one: that is what `Overlap = FALSE` gives, and
`Racing` looks at the whole rest of a call, so it lasts until the exchange is over.
`EncoderInv` then has three cases: there has been no encoder yet (`Fresh`), there is one
and every thread's next step finds it (`Live`), or one call, alone, is between two parts
or on the way out (`Between`). The files follow from the part counter, which is ahead of
every file whenever the next step makes one (`FilesInv`); the sizes from the fact that
an encoder with a picture is never between being made and being told (`SizeInv`), which
rests on `seenFrames`: a change of size after it makes a new part. `FormatInv` carries the
sound format over the exchange, from `getFormat` to `resumeSound`. The hypothesis is the
restriction under which the run checks these properties (2.4); it is a constant, not a
condition on behaviours. Under it the call that ends the process is the only one that is
under way, so `FilesCompleteHolds` says nothing of an exit during another thread's call.

*Audio pin.* `SoundInv` is the same argument one level up: the slots are pointers, so
that the blocks must also be pairwise different (`OwnBlocks`), and the block being
filled is the next one, as far as it is filled (`FillInv`). `CallInv` says for each
call how far its rest and the worker can be; `AllocInv` counts the allocator's samples
and its two references, which is why the late decommit deletes it exactly once.

*waveOut.* `ListInv` ties the linked list to the sequence of buffers written and not
done, through the callback that is made while the finished buffer is still linked.
`PlayedInv` counts the turns of the loop, `StepInv` the samples; silent frames move
`FirstFrame` on, so `StepInv` keeps their share apart. `LoopsOfOne`, that a buffer which
begins a loop ends it, is what the code needs: it follows `lpNext` within a loop but
takes finished buffers from the head (66-76), and TLC shows its own "this is a kkapture
bug" state with a loop of two. The rate must fit in the counters (`WaveOutAssumption`).

*DirectSound.* Up to two frames can be under way, one on each thread. `Late` counts
those whose sound is still to come; `UpToDate` says that the buffer has given the
sound of all others, and a write ahead of the count is in `frameSize`. The reads are
inside because the end of a frame is computed under the lock (`ReadInv`). `SurplusInv`
needs remainders, because a surplus can come after the position has wrapped: a buffer
that has given all it holds is at the frame's position from then on (`CaughtUp`).
`FramesFit`: the position in bytes stays below 2^32, over six hours of 16-bit stereo
at 44100 Hz. `FrameInBuffer`: two frames are shorter than the buffer, as
they are at 30 frames per second if it holds a tenth of a second. `ManySamples`: a frame has two samples or more.
Without the second a buffer is read round more than once, and the sound cannot be in
step.

*Resampler and writers.* `Position` says what the one variable that crosses blocks means:
`tFrac` is the output written minus the input read, in units of both rates, and
stays below one sample of the input between blocks; `NoDrift` is that, solved for
the output. `BlockSoFar` bounds a block's output by its length. Products of variables
are expanded once (`Distributes`), and the steps are linear in them. On `Writers` the
same invariant is a conjunct of `WritersInv`, and the others say which step may follow
which in a call (`StackInv`), that only the last segment is open (`OpenInv`), and where
the next picture belongs (`NextPlace`): behind the last one, or first in the segment
that the exchange under way will open. Only `FiledInv` is restricted to captures without
failures.

*Sound and picture.* `SoundMatchesPicture` compares the sound in the file with the frames,
and is not inductive: between the two stand what is left of the call, what the
resampler has read and not written, and what it has not read yet. `VfwInv`
lists the shapes a call's remainder takes (`AtRest`, `InPicture`, `Cut`, `CutSound`,
`Starting`, `Playing`) with three facts about the stream at that point. `Fed`: the
silence and the program's frames since the format was set have been read, are left of the
block or are still to come, but for the `InitSamples` (three at most) that the resampler keeps
back at a start. `Level`: where the file was against the pictures when the format was set,
in units of both rates and the frame rate, so that no division has to be undone.
`Priced`: how much may be missing by then. A new file in the middle of the stream counts
the frames from 0 again (`NewFile`) and fills in silence for the frame it starts with;
a new format starts the resampler anew (`FlowAnew`) and forfeits what it held back, and
that is what the bound pays for: `ChangeCost`, four samples of the slowest rate in
samples of the file's. A bound of four samples a change, whatever the rates, holds for
rates as close as the run's and not for 8000 Hz into 48000. `BmpInv` is the same
for the wave file, which takes samples as they come. `FrameHoldsFour` says that a frame is
at least four samples long at every rate, so that the frame of silence covers what
is kept back; the slowest rate Windows offers, 8000 Hz, does so up to 2000 frames
per second.

*Direct3D.* The theorem is about programs that have one device at a time: `overlapped`, once
true, stays so, and the invariant is only needed before. `RefInv` says what both counts are at every step of every call, however
far the loop over the surfaces has come. `Lent(n)` is Direct3D's own count: the program's
references, one for each living surface, and `n` that the call is about to give up or
has yet to take; it may be too large by one for each failure, never too small.
`Counted` is the hooks' count, and differs with `inside`: if Direct3D gives up a
surface's reference through the hook, the count stands below the real one by the number
of surfaces when nothing fails, and is off by at most the failures otherwise; if not, it
is the program's references exactly. With losses it can fall below zero, so it is read as a
signed number (`Balance`), and without the protection while `Reset` adds it:
`Direct3DAssumption` makes the protection larger than all that can go meanwhile, so that
the count does not meet 0 there, and the word larger than twice the protection, so that
the signed reading is unique. The last reference of the program then meets the count that
frees the surfaces, once (`FreeLast`). Cardinalities of the living surfaces change
by one with each step of a loop; that `Each` lists every surface once is proved from
`SubSeq`, without induction.

*DirectDraw.* `PictureInv` lists what is left of a call (`Shapes`) with the balance at
that point: `Due(p, f)` says how many pictures are still undecided and how many
frames uncounted. Whatever `shared` and `patched` are, the hooks that a call passes
count once, because the version of the primary surface is one of the patched ones
(`PrimaryKept`) and the test picks it alone (`HookedOnce`); kkapture's own calls on its blit
surface pass the same hooks and are picked by none. `Tied` says that the program has
memory of kkapture's exactly if its `Lock` was seen, which decides at the `Unlock` between a
picture and one that is `undrawn`; that memory has the capture buffer's size unless the program
blitted meanwhile. A hook that used a pointer to nowhere is the end (`Crashed`), with the
frames balanced up to the call it was in.

Only model-checked:

* Liveness: `BarrierTerminates`, `RingCallsEnd`, `CallsReturn`, `CallsEnd`,
  `WaveOutCallsEnd`, `ProcessEnds`, `TimeMovesOn` and the fairness half of the proxy's
  `ImplementsFifo`. Fairness and ENABLED are beyond the prover.
* The barrier with two presenting threads at once: there the properties are false (6).
* `NothingReleasedTwice`, which includes two devices at once; `DeviceDies` is about a
  device that is the only one.

## 5. Not modelled

* Picture and sound data, colour conversion, formats beyond what tells them
  apart, file and registry access, dialogs, the log. `bltutils.cpp` is loops over
  pixels without state; the spline of the resampler is arithmetic on samples.
* Detouring, COM vtable patching and the injection into processes are Windows
  mechanics; the launcher is a dialog. The BASS and FMOD hooks change parameters
  of foreign calls. Direct3D 10's hook advances the frame and captures nothing.
* The vendored directories are third-party code. Of the DirectShow base classes,
  which are by far the largest part of the repository, only what the audio pin's
  thread runs through is modelled; the filter graph, the multiplexer and the
  negotiation of media types are external, as are Direct3D and DirectDraw.
* waveOut: opening, closing and capability queries, and callbacks that reset,
  or ask for the position, from inside a frame. DirectSound: volume, panning,
  capabilities, the 3D interface, `SetFormat`. DirectDraw: versions 2 and 3 of
  surfaces, which are never the primary's version (their hooks do what those of 7 and 4
  do), enumeration of modes.
* Two threads in waveOut at once, two threads in a graphics API at once, and the
  exchange of an encoder during another thread's call (but for `AbortIsSafe`): no
  lock covers these, and the code makes no claim about them.
* Captures long enough for `frame * frameRateDenom` to wrap (6).

## 6. Observations

What the models show of the code besides the properties that hold. Two contradict what
the repository says and are listed as findings with their runs: `Lifecycle_break` and
`FrameSync_exit`.

*Lifecycle.* An abort by ctrl+break may create the finished file again and truncate
it (`Lifecycle_break`). Sound resumes after a change of part only if the last part
had sound: its format is lost with it (`lostFormat`).

*Barrier.* Between the wait for `resyncEvent` and `IncrementWaiting` (294-296) a
wait is neither held back nor counted, and can sleep through a release. When two barriers
run at once and the first withdraws its events (533-534), waits of two threads
that overlap without end hold the second one for ever. During ctrl+break, a wait
may still be active when `doneTiming` goes on, against the comment at 458
(`FrameSync_exit`). `currentFrame++` (559) may lose one of
two increments.

*Time.* `frame * frameRateDenom` is a 32-bit product (120) and wraps after about
20 hours. A timer that another thread sets between 264 and 559 runs one frame late. A killed timer may fire again (219); a timer that a callback sets in its own
slot is marked dead (257). `TimerSeedLock` is deleted while a thread may be between the test and
entering it (481).

*Encoder thread.* What waits in the list when the encoder is deleted is not
executed; `videoStartNextPart` deletes it in the middle of a capture.

*waveOut.* A loop over several buffers breaks `doneBuffer`'s assumption that the
current buffer is the head; it logs "this is a kkapture bug" (74), after which
`waveOutReset` does not return (223). A callback that writes the buffer it was called
for clears the `lpNext` that `doneBuffer` is about to read (66-68, 193): what was queued
behind it is lost and never comes back. A reset makes the next frame encode the silence of the
whole capture so far. `waveOutClose` leaves `currentWaveOut` behind (409).

*DirectSound.* A frame that begins in the middle of `Play` on another thread uses the
`FirstFrame` of the last `Play`, or one that was never written (`sound_directsound.h` 50,
`sound_directsound.cpp` 556-562): its `UMulDiv` may overflow, or the buffer gives a
surplus of all it holds.

*Writers.* Sound of 8 bits keeps its format (`util.cpp` 195), which the resampler
refuses to write: the AVI gets a stream of sound that stays empty. `frame` is not initialised before `SetSize`
(`bmp_videoencoder.cpp` 141). After a segment that could not be opened pictures are
still written (`avi_videoencoder_vfw.cpp` 345).
`ResampleInit` shares `InitSamples` between the channels (`audio_resample.cpp` 148).

*DirectShow.* A `RenderStream` that fails is only logged (741-752), the pin stays
unconnected and `PushData` waits for ever; so it does after a sample was refused,
which ends the worker. A second `SetAudioFormat` feeds the silence of the beginning again.
`Frames` is never incremented (205), so that all pictures carry the same time. The
last, partly filled sound buffer is dropped.

*Direct3D.* A second device overwrites the count and the capture surfaces of the first
(260-263): the first one's surfaces and with them that device are never released, and the next
`Release` of either gives up those of the second, although the program may have references
of it; line 182 has "our surface is the last one" of that moment. A surface that
cannot be created, a reset that fails or a `StretchRect` that fails leaves the count off
by a reference; the last one leaks the back buffer (134-140).

*DirectDraw.* Locking surfaces of versions 2 and 7 calls the original of version 1
(627, 802): past version 1's hook if the versions share their code, and through a null
pointer if version 1 was not patched. `Flip` asks only for the version (555), so that a flip of
another chain is a frame and its back buffer a picture, in the primary's size.
`PrimarySurface` is not cleared when it is released. `Unlock` derives the stride from the
depth (498); a blit surface is leaked when its lock fails (226), and `GetBlitSurface`
returns an uninitialised pointer when it cannot be made (91-137).

## 7. Plan

What is left, in this order:

1. `AudioPin` and `DShowRing` behind one multiplexer that interleaves; it is the
   interleaving, an assumption about external code (651), that decides whether the
   two pins can wait for each other.
2. `Lifecycle` with `MTProxy` as its encoder, through `EncoderFifo`.
