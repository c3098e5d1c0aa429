----------------------------- MODULE DirectSound -----------------------------
(***************************************************************************)
(* The emulated DirectSound buffers (src/kkapturedll/sound_directsound.cpp). *)
(*                                                                            *)
(* nextFrame advances the time and has the buffer that plays, playBuffer,  *)
(* hand the encoder the samples of the frame. A program that polls the     *)
(* position too often gives up the buffer's lock and advances a frame      *)
(* itself. Two threads: "main" presents, "sound" makes the other calls.    *)
(* A sample is one byte (nBlockAlign = 1).                                 *)
(***************************************************************************)
EXTENDS Integers

CONSTANTS
  Buffers,        \* the program's secondary buffers
  None,           \* the null pointer, or no thread
  Bytes,          \* the size of each
  Frequencies,    \* sample rates the program sets
  FirstFrequency, \* the format's
  Garbage,        \* what the constructor may leave in FirstFrame
  FrameRate,      \* frames per second
  MaxSkip,        \* SoundMaxSkip, in samples
  MaxGetPosition, \* MAX_GETPOSITION_PER_FRAME
  MaxFrames,      \* bound on the frames
  MaxCalls,       \* bound on the program's calls
  DWordRange      \* 2^32 in the code

ASSUME DirectSoundAssumption ==
  /\ None \notin Buffers \union {"main", "sound", "lost"}
  /\ {Bytes, FrameRate, MaxGetPosition, DWordRange} \subseteq Nat \ {0}
  /\ 2 * Bytes < DWordRange
  /\ {MaxSkip, MaxFrames, MaxCalls} \subseteq Nat /\ MaxFrames + 1 < DWordRange
  /\ Garbage \subseteq 0..DWordRange-1
  /\ Frequencies \subseteq Nat /\ FirstFrequency \in Frequencies

VARIABLES
  playBuffer, frame, RefCount, \* RefCount 0: deleted
  Playing, PlayCursor, SkipAllowed, SamplesPlayed, GetPosThisFrame, FirstFrame, Frequency,
  BufferLock,       \* its owner; "lost" after it was left once too often
  pc, ptr,          \* for each thread: where it is, and the buffer its frame encodes
  subject,          \* the buffer the sound thread's call is about
  frameSize, end,   \* for each buffer: locals of the thread in encodeLastFrameAudio
  calls,            \* calls made so far
  fault,            \* a null or deleted buffer was used, or a division overflowed
  careless,         \* history: a call has hit a buffer while a frame was using it
  dropped,          \* history: a buffer was deleted while it played
  encoded, uneven,  \* history: samples encoded; buffers restarted or retuned
  clamped,          \* history: buffers that encoded all they hold in the last frame and play on
  inside            \* history: no read has left a buffer

cursors == <<Playing, PlayCursor, SkipAllowed, SamplesPlayed, FirstFrame, Frequency>>
threads == <<pc, ptr, subject, frameSize, end>>
history == <<careless, dropped, encoded, uneven, clamped, inside>>
vars == <<playBuffer, frame, RefCount, cursors, GetPosThisFrame, BufferLock, threads, calls, fault, history>>

Threads == {"main", "sound"}
DWord == 0..DWordRange-1

TypeOK ==
  /\ playBuffer \in Buffers \union {None} /\ frame \in 0..MaxFrames + 1 /\ calls \in 0..MaxCalls
  /\ RefCount \in [Buffers -> 0..MaxCalls + 1]
  /\ Playing \in [Buffers -> BOOLEAN] /\ SkipAllowed \in [Buffers -> BOOLEAN]
  /\ PlayCursor \in [Buffers -> 0..Bytes-1] /\ SamplesPlayed \in [Buffers -> DWord]
  /\ GetPosThisFrame \in [Buffers -> 0..MaxGetPosition-1]
  /\ FirstFrame \in [Buffers -> DWord] /\ Frequency \in [Buffers -> Frequencies]
  /\ BufferLock \in [Buffers -> Threads \union {None, "lost"}]
  /\ pc \in [Threads -> {"idle", "sound", "encode", "write", "hammer", "resume", "first"}]
  /\ ptr \in [Threads -> Buffers \union {None}] /\ subject \in Buffers \union {None}
  /\ frameSize \in [Buffers -> DWord] /\ end \in [Buffers -> DWord]
  /\ {fault, careless, inside, dropped} \subseteq BOOLEAN
  /\ encoded \in [Buffers -> Nat] /\ uneven \subseteq Buffers /\ clamped \subseteq Buffers

\* The constructor leaves FirstFrame as it finds it.
Init ==
  /\ playBuffer = None /\ frame = 0 /\ calls = 0
  /\ RefCount = [b \in Buffers |-> 1]
  /\ Playing = [b \in Buffers |-> FALSE] /\ SkipAllowed = [b \in Buffers |-> FALSE]
  /\ PlayCursor = [b \in Buffers |-> 0] /\ SamplesPlayed = [b \in Buffers |-> 0]
  /\ GetPosThisFrame = [b \in Buffers |-> 0] /\ Frequency = [b \in Buffers |-> FirstFrequency]
  /\ FirstFrame \in {[b \in Buffers |-> garbage] : garbage \in Garbage}
  /\ BufferLock = [b \in Buffers |-> None]
  /\ pc = [t \in Threads |-> "idle"] /\ ptr = [t \in Threads |-> None] /\ subject = None
  /\ frameSize = [b \in Buffers |-> 0] /\ end = [b \in Buffers |-> 0]
  /\ fault = FALSE /\ careless = FALSE /\ dropped = FALSE
  /\ encoded = [b \in Buffers |-> 0] /\ uneven = {} /\ clamped = {} /\ inside = TRUE

\* UMulDiv(frames, Frequency * frameRateDenom, frameRateScaled)
SamplesIn(frames, freq) == (frames * freq) \div FrameRate


\* A thread is about to encode b, or does.
InUse(b) ==
  \E t \in Threads : (pc[t] = "encode" /\ b \in {ptr[t], playBuffer}) \/ (pc[t] = "write" /\ b = ptr[t])

Alive == {b \in Buffers : RefCount[b] > 0}
CanEnter(b, t) == BufferLock[b] \in {None, t}
At(t, label) == ~fault /\ pc[t] = label

-----------------------------------------------------------------------------
(* A frame: nextFrameTiming, then nextFrameSound. *)

nextFrameTiming(t) ==
  /\ frame' = frame + 1 /\ pc' = [pc EXCEPT ![t] = "sound"]
  /\ UNCHANGED <<playBuffer, RefCount, cursors, ptr, subject, frameSize, end, calls, fault, history>>

Present ==
  /\ At("main", "idle") /\ frame < MaxFrames
  /\ nextFrameTiming("main") /\ UNCHANGED <<GetPosThisFrame, BufferLock>>

\* What follows a frame: the program, or the rest of GetCurrentPosition.
AfterFrame(t) == IF t = "main" THEN "idle" ELSE "resume"

nextFrameSound(t) ==
  /\ At(t, "sound")
  /\ ptr' = [ptr EXCEPT ![t] = playBuffer]
  /\ pc' = [pc EXCEPT ![t] = IF playBuffer = None THEN AfterFrame(t) ELSE "encode"]
  /\ UNCHANGED <<playBuffer, frame, RefCount, cursors, GetPosThisFrame, BufferLock, subject,
                 frameSize, end, calls, fault, history>>

\* Mutant: every frame has the same number of samples.
NextFrameSizeAlike(b) == SamplesIn(1, Frequency[b])

\* NextFrameSize; a quotient beyond 32 bits is a fault of the division.
NextFrameSize(b) == (SamplesIn((frame - FirstFrame[b]) % DWordRange, Frequency[b]) - SamplesPlayed[b]) % DWordRange
Overflows(b) == SamplesIn((frame - FirstFrame[b]) % DWordRange, Frequency[b]) >= DWordRange

\* Mutant: what the subtraction has wrapped to is not cut down to the buffer.
EndOfFrameUnclamped(b, size) == (PlayCursor[b] + size) % DWordRange

EndOfFrame(b, size) == PlayCursor[b] + (IF size > Bytes THEN Bytes ELSE size)

\* encodeLastFrameAudio up to the writes. The pointer was tested in a read of its
\* own: the buffer is the one tested or the one found later.
EncodeBegin(t) ==
  \E b \in {ptr[t], playBuffer} :
    /\ At(t, "encode")
    /\ ptr' = [ptr EXCEPT ![t] = b]
    /\ \/ /\ b \notin Alive /\ fault' = TRUE
          /\ UNCHANGED <<BufferLock, pc, frameSize, end, clamped>>
       \/ /\ b \in Alive /\ CanEnter(b, t) /\ fault' = Overflows(b)
          /\ BufferLock' = [BufferLock EXCEPT ![b] = t] /\ pc' = [pc EXCEPT ![t] = "write"]
          /\ frameSize' = [frameSize EXCEPT ![b] = NextFrameSize(b)]
          /\ end' = [end EXCEPT ![b] = EndOfFrame(b, NextFrameSize(b))]
          /\ clamped' = IF NextFrameSize(b) > Bytes THEN clamped \union {b} ELSE clamped \ {b}
    /\ UNCHANGED <<playBuffer, frame, RefCount, cursors, GetPosThisFrame, subject, calls,
                   careless, dropped, encoded, uneven, inside>>

\* What the writes read: a stretch, or one up to the end and one from the start.
Stretches(b) ==
  IF end[b] > Bytes THEN {<<PlayCursor[b], Bytes>>, <<0, end[b] - Bytes>>} ELSE {<<PlayCursor[b], end[b]>>}

\* Mutant: what is counted as played is what the buffer could give.
SamplesGiven(b) == (SamplesPlayed[b] + end[b] - PlayCursor[b]) % DWordRange

SamplesCounted(b) == (SamplesPlayed[b] + frameSize[b]) % DWordRange

\* Mutant: the lock is kept.
KeepLock(b) == UNCHANGED BufferLock

LeaveLock(b) == BufferLock' = [BufferLock EXCEPT ![b] = None]

EncodeWrite(t) ==
  LET b == ptr[t]
  IN  /\ At(t, "write")
      /\ inside' = (inside /\ \A s \in Stretches(b) : s[1] <= s[2] /\ s[2] <= Bytes)
      /\ encoded' = [encoded EXCEPT ![b] = @ + ((end[b] - PlayCursor[b]) % DWordRange)]
      /\ PlayCursor' = [PlayCursor EXCEPT ![b] = end[b] % Bytes]
      /\ SamplesPlayed' = [SamplesPlayed EXCEPT ![b] = SamplesCounted(b)]
      /\ GetPosThisFrame' = [GetPosThisFrame EXCEPT ![b] = 0]
      /\ LeaveLock(b) /\ pc' = [pc EXCEPT ![t] = AfterFrame(t)]
      /\ frameSize' = [frameSize EXCEPT ![b] = 0] /\ end' = [end EXCEPT ![b] = 0] /\ ptr' = [ptr EXCEPT ![t] = None]
      /\ UNCHANGED <<playBuffer, frame, RefCount, Playing, SkipAllowed, FirstFrame, Frequency,
                     subject, calls, fault, careless, dropped, uneven, clamped>>

-----------------------------------------------------------------------------
(* The program's calls, of a buffer it still has a reference to. *)

Call(b) == At("sound", "idle") /\ b \in Alive /\ calls < MaxCalls /\ calls' = calls + 1

\* Some milliseconds of silence at the start are skipped; whether the buffer holds
\* silence there is the program's doing.
SkipSilence(b) ==
  \/ /\ SkipAllowed[b] /\ MaxSkip > 0
     /\ PlayCursor' = [PlayCursor EXCEPT ![b] = (@ + MaxSkip) % Bytes]
     /\ UNCHANGED SkipAllowed
  \/ SkipAllowed' = [SkipAllowed EXCEPT ![b] = FALSE] /\ UNCHANGED PlayCursor

\* The rest of GetCurrentPosition, after a poll that is not one too many or with the
\* lock taken again.
ReportPosition(b) ==
  /\ SkipSilence(b) /\ pc' = [pc EXCEPT !["sound"] = "idle"]
  /\ UNCHANGED <<playBuffer, frame, RefCount, Playing, SamplesPlayed, FirstFrame, Frequency,
                 BufferLock, ptr, subject, frameSize, end, fault, history>>

GetCurrentPosition(b) ==
  /\ Call(b) /\ CanEnter(b, "sound")
  /\ \/ /\ GetPosThisFrame[b] + 1 < MaxGetPosition
        /\ GetPosThisFrame' = [GetPosThisFrame EXCEPT ![b] = @ + 1]
        /\ ReportPosition(b)
     \/ /\ GetPosThisFrame[b] + 1 >= MaxGetPosition /\ frame <= MaxFrames
        /\ GetPosThisFrame' = [GetPosThisFrame EXCEPT ![b] = 0]
        /\ subject' = b /\ pc' = [pc EXCEPT !["sound"] = "hammer"]
        /\ UNCHANGED <<playBuffer, frame, RefCount, cursors, BufferLock, ptr, frameSize, end, fault, history>>

Hammer ==
  /\ At("sound", "hammer")
  /\ nextFrameTiming("sound") /\ UNCHANGED <<GetPosThisFrame, BufferLock>>

Resume ==
  /\ At("sound", "resume") /\ CanEnter(subject, "sound")
  /\ ReportPosition(subject) /\ UNCHANGED <<GetPosThisFrame, calls>>

\* Lock with an offset or a length beyond the buffer leaves the critical section
\* twice, after which it may be entered by anyone or by nobody.
LockOutOfRange(b) ==
  /\ Call(b) /\ CanEnter(b, "sound")
  /\ BufferLock' \in {BufferLock, [BufferLock EXCEPT ![b] = "lost"]}
  /\ UNCHANGED <<playBuffer, frame, RefCount, cursors, GetPosThisFrame, threads, fault, history>>

\* Play, in whose middle the buffer is the one that plays without a FirstFrame.
Play(b) ==
  /\ Call(b)
  /\ SkipAllowed' = [SkipAllowed EXCEPT ![b] = @ \/ ~Playing[b]]
  /\ Playing' = [Playing EXCEPT ![b] = TRUE]
  /\ playBuffer' = b
  /\ pc' = [pc EXCEPT !["sound"] = "first"] /\ subject' = b
  /\ clamped' = clamped \ {b, playBuffer}
  /\ UNCHANGED <<frame, RefCount, PlayCursor, SamplesPlayed, GetPosThisFrame, FirstFrame, Frequency, BufferLock,
                 ptr, frameSize, end, fault, careless, dropped, encoded, uneven, inside>>

SetFirstFrame ==
  /\ At("sound", "first")
  /\ FirstFrame' = [FirstFrame EXCEPT ![subject] = frame]
  /\ pc' = [pc EXCEPT !["sound"] = "idle"]
  /\ careless' = (careless \/ InUse(subject))
  /\ uneven' = IF SamplesPlayed[subject] = 0 /\ encoded[subject] = 0 THEN uneven ELSE uneven \union {subject}
  /\ clamped' = clamped \ {subject}
  /\ UNCHANGED <<playBuffer, frame, RefCount, Playing, PlayCursor, SkipAllowed, SamplesPlayed, GetPosThisFrame,
                 Frequency, BufferLock, ptr, subject, frameSize, end, calls, fault, dropped, encoded, inside>>

\* Mutant: the frames go on with the buffer that was stopped.
StopKeepsPlayBuffer(b) ==
  /\ Call(b)
  /\ Playing' = [Playing EXCEPT ![b] = FALSE]
  /\ careless' = (careless \/ InUse(b))
  /\ UNCHANGED <<playBuffer, frame, RefCount, PlayCursor, SkipAllowed, SamplesPlayed, GetPosThisFrame, FirstFrame,
                 Frequency, BufferLock, threads, fault, dropped, encoded, uneven, clamped, inside>>

Stop(b) ==
  /\ Call(b)
  /\ Playing' = [Playing EXCEPT ![b] = FALSE]
  /\ playBuffer' = IF playBuffer = b THEN None ELSE playBuffer
  /\ careless' = (careless \/ InUse(b)) /\ clamped' = clamped \ {b}
  /\ UNCHANGED <<frame, RefCount, PlayCursor, SkipAllowed, SamplesPlayed, GetPosThisFrame, FirstFrame,
                 Frequency, BufferLock, threads, fault, dropped, encoded, uneven, inside>>

\* The program stays within the buffer; the code does not look.
SetCurrentPosition(b, position) ==
  /\ Call(b)
  /\ PlayCursor' = [PlayCursor EXCEPT ![b] = position]
  /\ careless' = (careless \/ InUse(b))
  /\ UNCHANGED <<playBuffer, frame, RefCount, Playing, SkipAllowed, SamplesPlayed, GetPosThisFrame, FirstFrame,
                 Frequency, BufferLock, threads, fault, dropped, encoded, uneven, clamped, inside>>

SetFrequency(b, freq) ==
  /\ Call(b) /\ Frequency[b] # freq
  /\ Frequency' = [Frequency EXCEPT ![b] = freq]
  /\ uneven' = IF SamplesPlayed[b] = 0 /\ playBuffer # b THEN uneven ELSE uneven \union {b}
  /\ clamped' = clamped \ {b}
  /\ UNCHANGED <<playBuffer, frame, RefCount, Playing, PlayCursor, SkipAllowed, SamplesPlayed, GetPosThisFrame,
                 FirstFrame, BufferLock, threads, fault, careless, dropped, encoded, inside>>

\* DuplicateSoundBuffer hands out the same buffer again.
AddRef(b) ==
  /\ Call(b)
  /\ RefCount' = [RefCount EXCEPT ![b] = @ + 1]
  /\ UNCHANGED <<playBuffer, frame, cursors, GetPosThisFrame, BufferLock, threads, fault, history>>

\* The destructor waits for the lock; nothing makes playBuffer forget the buffer.
Release(b) ==
  /\ Call(b)
  /\ RefCount[b] = 1 => CanEnter(b, "sound")
  /\ RefCount' = [RefCount EXCEPT ![b] = @ - 1]
  /\ dropped' = (dropped \/ (RefCount'[b] = 0 /\ (Playing[b] \/ InUse(b))))
  /\ UNCHANGED <<playBuffer, frame, cursors, GetPosThisFrame, BufferLock, threads, fault,
                 careless, encoded, uneven, clamped, inside>>

Step(t) ==
  nextFrameSound(t) \/ EncodeBegin(t) \/ EncodeWrite(t) \/ (t = "sound" /\ (Hammer \/ Resume \/ SetFirstFrame))

Poll == \E b \in Buffers : GetCurrentPosition(b)

Next ==
  \/ Present \/ Poll \/ \E t \in Threads : Step(t)
  \/ \E b \in Buffers :
       \/ LockOutOfRange(b) \/ Play(b) \/ Stop(b) \/ AddRef(b) \/ Release(b)
       \/ SetCurrentPosition(b, Bytes - 1)
       \/ \E freq \in Frequencies : SetFrequency(b, freq)

Spec == Init /\ [][Next]_vars

\* A thread inside the emulation runs on.
FairSpec == Spec /\ \A t \in Threads : WF_vars(Step(t))

-----------------------------------------------------------------------------
(* Properties. *)

\* The buffer that plays has given the encoder the sound of every frame since Play,
\* whichever thread advanced it (sound.cpp:65, sound_directsound.cpp:399).
AudioInStep ==
  \A b \in Buffers \ uneven :
    playBuffer = b /\ ~careless /\ pc["sound"] # "first"
      /\ (\A t \in Threads : pc[t] \notin {"sound", "encode", "write"})
    => encoded[b] = SamplesIn(frame - FirstFrame[b], Frequency[b])

\* The encoder is handed memory of the buffer only, whatever the difference of two
\* DWORDs has wrapped to (sound_directsound.cpp:623-638).
ReadsInside == TypeOK /\ (inside \/ careless)

\* Starting or retuning a buffer costs at most one buffer of surplus sound: the
\* frame after it is back in step (sound_directsound.cpp:626, 641). Starting it has two
\* steps, and a frame between them may cost another (sound_directsound.cpp:556-562).
SurplusIsOnce ==
  [][\A b \in clamped \intersect clamped' : BufferLock'[b] \in Threads => BufferLock[b] = BufferLock'[b]]_vars

\* A frame finds its buffer and its size, unless the program deleted the buffer while
\* it played, called in the middle of a frame, or the frame came in the middle of
\* Play, before FirstFrame is set (sound.cpp:67, sound_directsound.h:50, 79).
BuffersAtHand == fault => careless \/ dropped \/ pc["sound"] = "first"

\* GetCurrentPosition returns, having advanced a frame without the lock.
CallsReturn == \A t \in Threads : pc[t] # "idle" ~> pc[t] = "idle" \/ fault \/ ~(\A b \in Buffers : BufferLock[b] # "lost")
=============================================================================
