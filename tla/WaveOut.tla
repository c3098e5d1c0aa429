------------------------------- MODULE WaveOut -------------------------------
(***************************************************************************)
(* The emulated waveOut device (src/kkapturedll/sound_waveout.cpp).        *)
(*                                                                         *)
(* The program queues buffers; once per captured frame processFrame hands  *)
(* the encoder as many samples as the frame is long, from the queue or     *)
(* silent ones. There is no lock: this models a program whose calls come   *)
(* between two frames, or from the callback that tells it a buffer is done, *)
(* which doneBuffer makes before it takes the buffer from the list.        *)
(*                                                                         *)
(* A buffer that was written is in the queue (WHDR_INQUEUE) until it is    *)
(* done (WHDR_DONE); its contents are the number of its samples.           *)
(***************************************************************************)
EXTENDS Integers, Sequences

CONSTANTS
  Headers,         \* the WAVEHDRs of the program
  None,            \* the null pointer
  Length,          \* samples in each
  BeginLoop,       \* headers with WHDR_BEGINLOOP
  EndLoop,         \* headers with WHDR_ENDLOOP
  MaxLoops,        \* bound on the dwLoops the program asks for
  Rate, FrameRate, \* samples and frames per second
  MaxGetPosition,  \* MAX_GETPOSITION_PER_FRAME
  MaxFrames,       \* bound on the number of frames
  DWordRange       \* 2^32 in the code

ASSUME WaveOutAssumption ==
  /\ None \notin Headers
  /\ Length \in [Headers -> Nat]
  /\ BeginLoop \subseteq Headers /\ EndLoop \subseteq Headers
  /\ {MaxLoops, Rate, FrameRate, MaxGetPosition, MaxFrames, DWordRange} \subseteq Nat \ {0}
  /\ Rate < DWordRange

VARIABLES
  qHead, Current, qTail,     \* Head, Current and Tail of the queue
  lpNext, dwLoops,           \* fields of the headers
  inQueue, prepared,         \* the headers with these flags
  CurrentBufferPos, CurrentSamplePos,
  Paused, InLoop,
  FirstFrame, FirstWriteFrame, FrameInitialized,
  GetPositionCounter,
  currentWaveOut,            \* the device is the one nextFrameSound serves
  frame,                     \* getFrameTiming()
  pc,                        \* "idle", in processFrame or in reset, or in a callback of either;
                             \* "lost" after a buffer was written while it was taken from the list
  sampleCount,               \* samples this frame still needs
  playQueue,                 \* history: the buffers written and not done, in order
  asked,                     \* history: dwLoops of each when it was written
  given,                     \* history: samples of each encoded since it was written
  encoded, played,           \* history: samples encoded, and those of buffers
  hadReset,                  \* history: reset was called
  inconsistent               \* history: doneBuffer met a Current that is not Head

queueVars == <<qHead, Current, qTail, lpNext, dwLoops, inQueue, playQueue, InLoop, inconsistent>>
timeVars == <<FirstFrame, FirstWriteFrame, FrameInitialized, currentWaveOut>>
soundVars == <<CurrentBufferPos, CurrentSamplePos, sampleCount, asked, given, encoded, played>>
callVars == <<prepared, Paused, GetPositionCounter, hadReset>>
vars == <<queueVars, timeVars, soundVars, callVars, frame, pc>>

Smaller(a, b) == IF a < b THEN a ELSE b

\* UMulDiv(frames, nSamplesPerSec * frameRateDenom, frameRateScaled)
SamplesIn(frames) == (frames * Rate) \div FrameRate

TypeOK ==
  /\ {qHead, Current, qTail} \subseteq Headers \union {None}
  /\ lpNext \in [Headers -> Headers \union {None}]
  /\ dwLoops \in [Headers -> 0..MaxLoops]
  /\ inQueue \subseteq Headers /\ prepared \subseteq Headers
  /\ CurrentBufferPos \in Nat /\ CurrentSamplePos \in Nat
  /\ {Paused, InLoop, FrameInitialized, currentWaveOut, hadReset, inconsistent} \subseteq BOOLEAN
  /\ GetPositionCounter \in 0..MaxGetPosition-1
  /\ frame \in 0..MaxFrames /\ FirstFrame \in 0..MaxFrames /\ FirstWriteFrame \in 0..frame
  /\ pc \in {"idle", "consume", "reset", "doneInFrame", "doneInReset", "lost"}
  /\ sampleCount \in 0..DWordRange-1
  /\ playQueue \in Seq(Headers)
  /\ asked \in [Headers -> 0..MaxLoops] /\ given \in [Headers -> Nat] /\ encoded \in Nat /\ played \in Nat

Init ==
  /\ qHead = None /\ Current = None /\ qTail = None
  /\ lpNext = [h \in Headers |-> None] /\ dwLoops = [h \in Headers |-> 0]
  /\ inQueue = {} /\ prepared = {} /\ playQueue = <<>>
  /\ CurrentBufferPos = 0 /\ CurrentSamplePos = 0 /\ sampleCount = 0
  /\ Paused = FALSE /\ InLoop = FALSE /\ inconsistent = FALSE
  /\ FirstFrame = 0 /\ FirstWriteFrame = 0 /\ FrameInitialized = FALSE
  /\ GetPositionCounter = 0 /\ currentWaveOut = FALSE /\ hadReset = FALSE
  /\ frame = 0 /\ pc = "idle"
  /\ asked = [h \in Headers |-> 0] /\ given = [h \in Headers |-> 0] /\ encoded = 0 /\ played = 0

-----------------------------------------------------------------------------
(* The queue. *)

\* The state of InLoop once h is the current buffer.
LoopFrom(h, loops) == InLoop \/ (h \in BeginLoop /\ loops[h] # 0)

\* doneBuffer up to the callback. Anything but a current buffer at the head is logged
\* and left as it is.
doneBuffer(callback) ==
  \/ /\ qHead # None /\ qHead = Current
     /\ inQueue' = inQueue \ {Current}
     /\ playQueue' = Tail(playQueue)
     /\ pc' = callback
     /\ UNCHANGED inconsistent
  \/ /\ qHead = None \/ qHead # Current
     /\ inconsistent' = TRUE
     /\ UNCHANGED <<inQueue, playQueue, pc>>

\* Mutant: the tail keeps pointing at the last buffer played.
UnlinkKeepsTail ==
  /\ Current' = lpNext[Current] /\ qHead' = lpNext[Current]
  /\ UNCHANGED qTail

\* Mutant: the head stays where it is.
UnlinkKeepsHead ==
  /\ Current' = lpNext[Current]
  /\ qTail' = IF lpNext[Current] = None THEN None ELSE qTail
  /\ UNCHANGED qHead

\* The rest of doneBuffer.
Unlink ==
  /\ Current' = lpNext[Current] /\ qHead' = lpNext[Current]
  /\ qTail' = IF lpNext[Current] = None THEN None ELSE qTail

\* Mutant: the end of a loop goes on to the next buffer at once.
AdvanceBufferSkipsLoop ==
  /\ doneBuffer("doneInFrame")
  /\ UNCHANGED <<qHead, Current, qTail, InLoop, dwLoops>>

advanceBuffer ==
  \/ /\ InLoop /\ Current \in EndLoop
     /\ Current' = qHead
     /\ dwLoops' = [dwLoops EXCEPT ![qHead] = @ - 1]
     /\ InLoop' = (dwLoops'[qHead] # 0)
     /\ UNCHANGED <<qHead, qTail, inQueue, playQueue, inconsistent, pc>>
  \/ /\ InLoop /\ Current \notin EndLoop
     /\ Current' = lpNext[Current]
     /\ UNCHANGED <<qHead, qTail, dwLoops, InLoop, inQueue, playQueue, inconsistent, pc>>
  \/ /\ ~InLoop
     /\ doneBuffer("doneInFrame")
     /\ UNCHANGED <<qHead, Current, qTail, dwLoops, InLoop>>

\* The program's code: between two calls of kkapture, or in a callback.
InProgram == pc \in {"idle", "doneInFrame", "doneInReset"}

\* The callback writes the buffer it was told about, whose lpNext doneBuffer still needs.
WriteDone ==
  /\ pc = "doneInFrame" /\ Current \in prepared
  /\ pc' = "lost"
  /\ UNCHANGED <<queueVars, timeVars, soundVars, callVars, frame>>

\* waveOutWrite; a header that is in the queue already is ignored. A callback of reset
\* does not write: reset would go on as long as it does.
write(h) ==
  /\ pc = "idle" \/ (pc = "doneInFrame" /\ h # Current)
  /\ h \in prepared \ inQueue
  /\ \E n \in (IF h \in BeginLoop THEN 1..MaxLoops ELSE {0}) :
       dwLoops' = [dwLoops EXCEPT ![h] = n] /\ asked' = [asked EXCEPT ![h] = n]
  /\ IF FrameInitialized THEN UNCHANGED timeVars
     ELSE /\ FirstFrame' = frame /\ FirstWriteFrame' = frame
          /\ FrameInitialized' = TRUE /\ currentWaveOut' = TRUE
  /\ inQueue' = inQueue \union {h}
  /\ playQueue' = Append(playQueue, h)
  /\ given' = [given EXCEPT ![h] = 0]
  /\ qTail' = h
  /\ \/ /\ qTail # None
        /\ lpNext' = [lpNext EXCEPT ![h] = None, ![qTail] = h]
        /\ UNCHANGED <<qHead, Current, InLoop>>
     \/ /\ qTail = None
        /\ lpNext' = [lpNext EXCEPT ![h] = None]
        /\ qHead' = h /\ Current' = h
        /\ InLoop' = LoopFrom(h, dwLoops')
  /\ UNCHANGED <<CurrentBufferPos, CurrentSamplePos, sampleCount, encoded, played,
                 callVars, frame, pc, inconsistent>>

-----------------------------------------------------------------------------
(* nextFrameSound and processFrame. *)

\* Samples count towards the properties up to the first reset.
Encode(n) == encoded' = IF hadReset THEN encoded ELSE encoded + n

\* Mutant: a frame that finds the queue empty does not write anything.
BeginFrameSkipsSilence ==
  LET sampleNew == SamplesIn(frame' - FirstWriteFrame)
      count == (sampleNew - CurrentSamplePos) % DWordRange
  IN  IF Current = None \/ Paused
      THEN /\ FirstFrame' = FirstFrame + 1
           /\ CurrentSamplePos' = sampleNew
           /\ UNCHANGED <<sampleCount, pc, encoded>>
      ELSE /\ pc' = "consume" /\ sampleCount' = count
           /\ UNCHANGED <<FirstFrame, encoded, CurrentSamplePos>>

\* The frame needs the samples between the last frame's and its own position,
\* as DWORDs; without a current buffer they are all silent.
BeginFrame ==
  LET sampleNew == SamplesIn(frame' - FirstWriteFrame)
      count == (sampleNew - CurrentSamplePos) % DWordRange
  IN  IF Current = None \/ Paused
      THEN /\ Encode(count)
           /\ FirstFrame' = FirstFrame + 1
           /\ CurrentSamplePos' = sampleNew
           /\ UNCHANGED <<sampleCount, pc>>
      ELSE /\ pc' = "consume" /\ sampleCount' = count
           /\ UNCHANGED <<FirstFrame, encoded, CurrentSamplePos>>

\* nextFrame: time moves on, then the sound of the frame is encoded.
AdvanceFrame ==
  /\ pc = "idle" /\ frame < MaxFrames
  /\ frame' = frame + 1
  /\ IF currentWaveOut
     THEN BeginFrame
     ELSE UNCHANGED <<encoded, FirstFrame, CurrentSamplePos, sampleCount, pc>>
  /\ UNCHANGED <<queueVars, FirstWriteFrame, FrameInitialized, currentWaveOut, CurrentBufferPos,
                 asked, given, played, prepared, Paused, hadReset>>

nextFrame ==
  /\ AdvanceFrame
  /\ GetPositionCounter' = IF currentWaveOut THEN 0 ELSE GetPositionCounter

\* One turn of the loop: as much of the current buffer as the frame needs.
Consume ==
  /\ pc = "consume" /\ sampleCount # 0 /\ Current # None
  /\ LET smps == Smaller(sampleCount, Length[Current] - CurrentBufferPos)
         pos == CurrentBufferPos + smps
     IN  /\ sampleCount' = sampleCount - smps
         /\ given' = [given EXCEPT ![Current] = @ + smps]
         /\ played' = IF hadReset THEN played ELSE played + smps
         /\ Encode(smps)
         /\ IF pos >= Length[Current]
            THEN advanceBuffer /\ CurrentBufferPos' = 0
            ELSE CurrentBufferPos' = pos /\ UNCHANGED <<queueVars, pc>>
  /\ UNCHANGED <<lpNext, CurrentSamplePos, asked, timeVars, callVars, frame>>

\* The callback has returned to advanceBuffer.
AfterCallback ==
  /\ pc = "doneInFrame" /\ pc' = "consume"
  /\ Unlink
  /\ InLoop' = LoopFrom(Current', dwLoops)
  /\ UNCHANGED <<lpNext, dwLoops, inQueue, playQueue, inconsistent, timeVars, soundVars, callVars, frame>>

\* The queue ran out, or the frame has all its samples.
EndFrame ==
  /\ pc = "consume" /\ (sampleCount = 0 \/ Current = None)
  /\ Encode(sampleCount)
  /\ sampleCount' = 0
  /\ CurrentSamplePos' = SamplesIn(frame - FirstWriteFrame)
  /\ pc' = "idle"
  /\ UNCHANGED <<queueVars, timeVars, CurrentBufferPos, asked, given, played, callVars, frame>>

-----------------------------------------------------------------------------
(* The other calls. *)

\* A program that polls for the position to change is given the next frame.
getPosition ==
  /\ pc = "idle"
  /\ IF GetPositionCounter + 1 >= MaxGetPosition
     THEN AdvanceFrame /\ GetPositionCounter' = 0
     ELSE /\ GetPositionCounter' = GetPositionCounter + 1
          /\ UNCHANGED <<queueVars, timeVars, soundVars, prepared, Paused, hadReset, frame, pc>>

prepareHeader(h) ==
  /\ InProgram
  /\ prepared' = prepared \union {h}
  /\ UNCHANGED <<queueVars, timeVars, soundVars, Paused, GetPositionCounter, hadReset, frame, pc>>

unprepareHeader(h) ==
  /\ InProgram
  /\ h \notin inQueue
  /\ prepared' = prepared \ {h}
  /\ UNCHANGED <<queueVars, timeVars, soundVars, Paused, GetPositionCounter, hadReset, frame, pc>>

pause ==
  /\ InProgram
  /\ Paused' = TRUE
  /\ UNCHANGED <<queueVars, timeVars, soundVars, prepared, GetPositionCounter, hadReset, frame, pc>>

restart ==
  /\ InProgram
  /\ Paused' = FALSE
  /\ UNCHANGED <<queueVars, timeVars, soundVars, prepared, GetPositionCounter, hadReset, frame, pc>>

reset ==
  /\ pc = "idle"
  /\ pc' = "reset"
  /\ hadReset' = TRUE
  /\ UNCHANGED <<queueVars, timeVars, soundVars, prepared, Paused, GetPositionCounter, frame>>

\* while(Head) doneBuffer();
ResetDoneBuffer ==
  /\ pc = "reset" /\ qHead # None
  /\ doneBuffer("doneInReset")
  /\ UNCHANGED <<qHead, Current, qTail, lpNext, dwLoops, InLoop, timeVars, soundVars, callVars, frame>>

ResetUnlink ==
  /\ pc = "doneInReset" /\ pc' = "reset"
  /\ Unlink
  /\ UNCHANGED <<lpNext, dwLoops, inQueue, playQueue, InLoop, inconsistent, timeVars, soundVars, callVars, frame>>

EndReset ==
  /\ pc = "reset" /\ qHead = None
  /\ pc' = "idle"
  /\ CurrentBufferPos' = 0 /\ CurrentSamplePos' = 0
  /\ Paused' = FALSE /\ InLoop' = FALSE
  /\ FirstFrame' = 0 /\ FirstWriteFrame' = 0 /\ FrameInitialized' = FALSE
  /\ UNCHANGED <<qHead, Current, qTail, lpNext, dwLoops, inQueue, playQueue, inconsistent,
                 currentWaveOut, sampleCount, asked, given, encoded, played, prepared,
                 GetPositionCounter, hadReset, frame>>

-----------------------------------------------------------------------------
processFrame == Consume \/ AfterCallback \/ EndFrame
Resetting == ResetDoneBuffer \/ ResetUnlink \/ EndReset

Next ==
  \/ \E h \in Headers : write(h) \/ prepareHeader(h) \/ unprepareHeader(h)
  \/ WriteDone \/ nextFrame \/ getPosition \/ pause \/ restart \/ reset
  \/ processFrame \/ Resetting

Spec == Init /\ [][Next]_vars

\* A call that was made runs on: the thread in processFrame or reset is scheduled.
FairSpec == Spec /\ WF_vars(processFrame) /\ WF_vars(Resetting)

-----------------------------------------------------------------------------
(* Properties. *)

\* The list from Head along lpNext to Tail is what was written and is not done,
\* in the order it was written, and exactly that carries WHDR_INQUEUE; a buffer
\* lost from it never comes back to the program (lines 60-75, 193-204). During a
\* callback the buffer that is done is still in front of it, and others may be written
\* behind it. As long as no loop is of more than one buffer, doneBuffer never meets its
\* "inconsistent state in waveOut (this is a kkapture bug)" (line 74).
QueueIntact ==
  /\ TypeOK /\ ~inconsistent
  /\ inQueue = {playQueue[i] : i \in DOMAIN playQueue}
  /\ LET listed == IF pc \in {"doneInFrame", "doneInReset", "lost"} THEN <<Current>> \o playQueue ELSE playQueue
     IN  \/ listed = <<>> /\ qHead = None /\ qTail = None
         \/ /\ listed # <<>>
            /\ qHead = listed[1] /\ qTail = listed[Len(listed)]
            /\ lpNext[qTail] = None
            /\ \A i \in 1..Len(listed)-1 : lpNext[listed[i]] = listed[i+1]

\* A buffer comes back to the program as done only after all of it was encoded,
\* a loop as often as it was asked for, unless it was reset (lines 77-95).
DoneMeansPlayed ==
  [][\A h \in inQueue \ inQueue' :
       \/ pc = "reset"
       \/ \E n \in 1..MaxLoops+1 : n >= asked[h] /\ given'[h] = n * Length[h]]_vars

\* Sound and picture stay together: since playback started the encoder has been
\* given the samples of the frames presented, no fewer and no more, whatever was
\* played, paused or missing meanwhile (lines 311-351).
AudioKeepsUp ==
  pc = "idle" /\ currentWaveOut /\ ~hadReset => encoded = SamplesIn(frame - FirstWriteFrame)

\* The position a program reads does not fall behind the sound already encoded,
\* but for one sample of rounding per silent frame (lines 275, 328).
PositionCoversPlayed ==
  pc = "idle" /\ currentWaveOut /\ ~hadReset =>
    played <= SamplesIn(frame - FirstFrame) + (FirstFrame - FirstWriteFrame)

\* Sound in the file and sound as the program sees it, both against the frames.
SoundInStep == AudioKeepsUp /\ PositionCoversPlayed

\* waveOutReset and the sound of a frame come to an end (lines 223, 332).
WaveOutCallsEnd == pc # "idle" ~> pc \in {"idle", "lost"}
=============================================================================
