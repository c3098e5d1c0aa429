------------------------------- MODULE Writers -------------------------------
(***************************************************************************)
(* The encoders that write files themselves: Video for Windows             *)
(* (src/kkapturedll/avi_videoencoder_vfw.cpp, "vfw") and single pictures   *)
(* with a WAV file (bmp_videoencoder.cpp, "bmp"), driven the way           *)
(* nextFrame drives an encoder: a picture, then the frame's sound.         *)
(*                                                                         *)
(* Calls hold the encoder's lock and do not overlap; a call is the stack   *)
(* of steps it still has to take, and a step that opens or writes to a     *)
(* file may fail. CaptureVideo and CaptureAudio are on.                    *)
(***************************************************************************)
EXTENDS Resampler, Sequences

CONSTANTS
  Bits,        \* of a sample, a subset of {8, 16, 32}
  FrameRate,   \* frames per second
  BlockLength, \* samples of silence written at a time, 1024
  FrameBytes,  \* a picture's share of a file
  Limit,       \* size at which the next segment starts, 1800 MB
  Garbage,     \* what memory holds that nobody has written
  None,
  MaxPictures, MaxFormats, MaxFailures \* bounds on pictures, calls of SetAudioFormat, failures

ASSUME WritersAssumption ==
  /\ Bits \subseteq {8, 16, 32}
  /\ {FrameRate, BlockLength, FrameBytes, Limit} \subseteq Nat \ {0}
  /\ {Garbage, MaxPictures, MaxFormats, MaxFailures} \subseteq Nat
  /\ None \notin [rate : Rates, bits : {8, 16, 32}, chans : {1, 2}]

VARIABLES
  kind, hasSize,
  file, vid, aud, initialized, \* vfw: what is open; bmp: aud is the wave file
  formatSet, segment, frame, audioSample, overflowCounter,
  wfx, targetFormat, audioOk,
  todo,      \* steps the call has still to take, each with a number
  pictures, formats, failures, \* counted against the bounds
  sounding, since, soundDue,   \* the program's sound: on, frames so far, this frame's to come
  filed,     \* history: for each picture its segment and its number there
  unfinished, \* history: segments opened and not released
  steady,    \* history: once there was a stream of sound, every frame had sound that could be written
  deleted, fault

files == <<file, vid, aud, initialized, unfinished>>
counters == <<formatSet, segment, frame, audioSample, overflowCounter>>
sound == <<wfx, targetFormat, audioOk>>
driver == <<pictures, formats, sounding, since, soundDue>>
ghosts == <<filed, steady>>
vars == <<resampler, kind, hasSize, files, counters, sound, todo, driver, failures, ghosts, deleted, fault>>

Format == [rate : Rates, bits : Bits, chans : {1, 2}]
Steps == {"startEncode", "segment", "cleanup", "init", "writeVideo", "startAudio", "fill", "block", "resampled"}

WritersTypeOK ==
  /\ ResamplerTypeOK /\ kind \in {"vfw", "bmp"}
  /\ {hasSize, file, vid, aud, initialized, formatSet, audioOk, sounding, soundDue, steady, deleted, fault} \subseteq BOOLEAN
  /\ {segment, frame, audioSample, overflowCounter, since} \subseteq Nat
  /\ wfx \in Format \union {None} /\ targetFormat \in [rate : Rates, bits : Bits \union {16}, chans : {1, 2}] \union {None}
  /\ todo \in Seq(Steps \X Nat) /\ filed \in Seq(Nat \X Nat) /\ unfinished \subseteq 1..segment
  /\ pictures \in 0..MaxPictures /\ formats \in 0..MaxFormats /\ failures \in 0..MaxFailures

\* Init of the Video for Windows encoder: all is open, or the file could not be made,
\* or one of its streams, and then Cleanup finds nothing initialized.
Opened == {<<TRUE, TRUE>>, <<FALSE, FALSE>>, <<TRUE, FALSE>>}

Init ==
  /\ kind \in {"vfw", "bmp"} /\ hasSize = FALSE
  /\ \E open \in Opened :
       /\ kind = "bmp" => open = <<FALSE, FALSE>>
       /\ MaxFailures = 0 => (open[2] = (kind = "vfw"))
       /\ file = open[1] /\ vid = open[2] /\ initialized = open[2]
       /\ failures = IF kind = "bmp" \/ open[2] THEN 0 ELSE 1
       /\ unfinished = IF open[1] THEN {1} ELSE {}
  /\ aud = FALSE /\ formatSet = FALSE /\ segment = 1 /\ audioSample = 0 /\ overflowCounter = 0
  /\ frame \in (IF kind = "vfw" THEN {0} ELSE {0, Garbage})
  /\ wfx = None /\ targetFormat = None /\ audioOk = FALSE
  /\ \E rate \in Rates : ResamplerInit(rate, rate, 1, TRUE)
  /\ todo = <<>> /\ pictures = 0 /\ formats = 0
  /\ sounding = FALSE /\ since = 0 /\ soundDue = FALSE
  /\ filed = <<>> /\ steady = TRUE /\ deleted = FALSE /\ fault = FALSE

\* Samples of so many frames: as the sound systems count them, as the encoders do (MulDiv).
SamplesIn(frames, rate) == (frames * rate) \div FrameRate
SamplesNear(frames, rate) == (frames * rate + FrameRate \div 2) \div FrameRate

-----------------------------------------------------------------------------
(* The calls. *)

Ready == ~deleted /\ ~fault /\ todo = <<>>

SetSize ==
  /\ Ready /\ pictures = 0 /\ hasSize' = TRUE
  /\ frame' = IF kind = "bmp" THEN 0 ELSE frame
  /\ UNCHANGED <<resampler, kind, files, formatSet, segment, audioSample, overflowCounter, sound, todo, driver,
                 failures, ghosts, deleted, fault>>

WriteFrame ==
  /\ Ready /\ hasSize /\ ~soundDue /\ pictures < MaxPictures
  /\ pictures' = pictures + 1 /\ soundDue' = sounding
  /\ todo' = IF kind = "bmp" THEN <<<<"writeVideo", 0>>>>
             ELSE (IF frame = 0 /\ ~formatSet THEN <<<<"startEncode", 0>>>> ELSE <<>>) \o <<<<"segment", 0>>>>
  /\ steady' = (steady /\ (aud => sounding))
  /\ UNCHANGED <<resampler, kind, hasSize, files, counters, sound, formats, sounding, since, failures, filed, deleted, fault>>

WriteAudioFrame ==
  LET n == SamplesIn(since + 1, wfx.rate) - SamplesIn(since, wfx.rate)
  IN  /\ Ready /\ soundDue
      /\ soundDue' = FALSE /\ since' = since + 1
      /\ todo' = (IF kind = "vfw" /\ ~aud THEN <<<<"startAudio", 0>>>> ELSE <<>>) \o <<<<"block", n>>>>
      /\ UNCHANGED <<resampler, kind, hasSize, files, counters, sound, pictures, formats, sounding, failures,
                     ghosts, deleted, fault>>

\* BounceFormat: float becomes 16 bit, the only kind the resampler writes.
Bounce(f) == IF f.bits = 32 THEN [f EXCEPT !.bits = 16] ELSE f

\* The encoder's part of SetAudioFormat; the wave file has its format once and for all.
VfwFormat(f) ==
  /\ targetFormat' = IF targetFormat = None \/ ~aud THEN Bounce(f) ELSE targetFormat
  /\ audioOk' = (targetFormat'.bits = 16)
  /\ IF audioOk' THEN Setup(f.rate, targetFormat'.rate, f.chans, f.bits = 16 /\ f.chans = targetFormat'.chans)
                 ELSE UNCHANGED resampler
  /\ UNCHANGED <<files, todo, failures>>

BmpFormat(f) ==
  /\ targetFormat' = IF aud THEN targetFormat ELSE f
  /\ todo' = IF aud THEN todo ELSE <<<<"fill", SamplesNear(frame, f.rate)>>>>
  /\ \/ aud' = TRUE /\ UNCHANGED failures
     \/ ~aud /\ failures < MaxFailures /\ failures' = failures + 1 /\ UNCHANGED aud
  /\ UNCHANGED <<resampler, file, vid, initialized, unfinished, audioOk>>

SetAudioFormat(f) ==
  /\ Ready /\ ~soundDue /\ formats < MaxFormats
  /\ formats' = formats + 1 /\ sounding' = TRUE /\ since' = 0
  /\ wfx' = f
  /\ IF kind = "vfw" THEN VfwFormat(f) ELSE BmpFormat(f)
  /\ steady' = (steady /\ IF kind = "vfw" THEN audioOk' ELSE hasSize /\ (aud => f = wfx))
  /\ UNCHANGED <<kind, hasSize, counters, pictures, soundDue, filed, deleted, fault>>

SoundStops ==
  /\ Ready /\ sounding /\ ~soundDue /\ sounding' = FALSE
  /\ UNCHANGED <<resampler, kind, hasSize, files, counters, sound, todo, pictures, formats, since, soundDue,
                 failures, ghosts, deleted, fault>>

-----------------------------------------------------------------------------
(* The steps. *)

At(step) == ~fault /\ todo # <<>> /\ Head(todo)[1] = step
Number == Head(todo)[2]
Continue(steps) == todo' = steps \o Tail(todo)

Step(steps) == Continue(steps) /\ UNCHANGED <<kind, hasSize, sound, driver, steady, deleted>>

\* Mutant: the file is never released.
CleanupKeepsFile ==
  IF initialized
  THEN vid' = FALSE /\ aud' = FALSE /\ initialized' = FALSE /\ UNCHANGED <<file, unfinished>>
  ELSE UNCHANGED files

\* Cleanup does nothing unless all was opened.
Cleanup ==
  IF initialized
  THEN file' = FALSE /\ vid' = FALSE /\ aud' = FALSE /\ initialized' = FALSE /\ unfinished' = unfinished \ {segment}
  ELSE UNCHANGED files

Fail == failures < MaxFailures /\ failures' = failures + 1

\* Mutant: the pictures of the next segment are numbered on.
StartEncodeNumbersOn ==
  /\ At("startEncode") /\ Step(<<>>)
  /\ formatSet' = (formatSet \/ file)
  /\ UNCHANGED <<resampler, files, segment, frame, audioSample, overflowCounter, failures, filed, fault>>

\* The first picture of a file sets the format of its stream.
StartEncode ==
  /\ At("startEncode") /\ Step(<<>>)
  /\ \/ ~file /\ UNCHANGED <<files, formatSet, frame, failures, fault>>
     \/ file /\ ~vid /\ fault' = TRUE /\ UNCHANGED <<files, formatSet, frame, failures>>
     \/ file /\ vid /\ formatSet' = TRUE /\ frame' = 0 /\ UNCHANGED <<files, failures, fault>>
     \/ file /\ vid /\ Fail /\ Cleanup /\ UNCHANGED <<formatSet, frame, fault>>
  /\ UNCHANGED <<resampler, segment, audioSample, overflowCounter, filed>>

\* A segment that has reached its size is followed by the next one.
Segment ==
  /\ At("segment")
  /\ Step(IF ~(formatSet /\ vid) THEN <<>>
          ELSE (IF overflowCounter >= Limit
                THEN <<<<"cleanup", 0>>, <<"init", 0>>, <<"startEncode", 0>>>>
                     \o (IF aud THEN <<<<"startAudio", 0>>>> ELSE <<>>)
                ELSE <<>>) \o <<<<"writeVideo", 0>>>>)
  /\ UNCHANGED <<resampler, files, counters, failures, filed, fault>>

CleanupSegment ==
  /\ At("cleanup") /\ Step(<<>>) /\ Cleanup
  /\ UNCHANGED <<resampler, counters, failures, filed, fault>>

InitSegment ==
  /\ At("init") /\ Step(<<>>)
  /\ segment' = segment + 1 /\ overflowCounter' = 0
  /\ \E open \in Opened :
       /\ file' = open[1] /\ vid' = open[2] /\ initialized' = open[2]
       /\ IF open[2] THEN UNCHANGED failures ELSE Fail
       /\ unfinished' = unfinished \union IF open[1] THEN {segment'} ELSE {}
  /\ UNCHANGED <<resampler, aud, formatSet, frame, audioSample, filed, fault>>

\* vfw does not look at the stream again; a picture that could not be written counts
\* as a frame all the same. bmp writes to a file that could not be made.
WriteVideo ==
  /\ At("writeVideo") /\ Step(<<>>)
  /\ \/ /\ kind = "bmp" \/ vid
        /\ filed' = Append(filed, <<segment, frame>>) /\ frame' = frame + 1
        /\ overflowCounter' = overflowCounter + FrameBytes
        /\ UNCHANGED <<failures, fault>>
     \/ kind = "vfw" /\ vid /\ Fail /\ frame' = frame + 1 /\ UNCHANGED <<filed, overflowCounter, fault>>
     \/ kind = "bmp" /\ Fail /\ fault' = TRUE /\ UNCHANGED <<filed, frame, overflowCounter>>
     \/ kind = "vfw" /\ ~vid /\ fault' = TRUE /\ UNCHANGED <<filed, frame, overflowCounter, failures>>
  /\ UNCHANGED <<resampler, files, formatSet, segment, audioSample>>

Silence == <<<<"fill", SamplesNear(frame, wfx.rate)>>>>

\* The stream of sound, which starts with silence for the frames so far.
StartAudio ==
  /\ At("startAudio")
  /\ \/ ~file /\ Step(<<>>) /\ UNCHANGED <<files, audioSample, failures>>
     \/ file /\ Step(Silence) /\ aud' = TRUE /\ audioSample' = 0 /\ UNCHANGED <<file, vid, initialized, unfinished, failures>>
     \/ file /\ Step(<<>>) /\ Fail /\ Cleanup /\ UNCHANGED audioSample
  /\ UNCHANGED <<resampler, formatSet, segment, frame, overflowCounter, filed, fault>>

\* Mutant: only whole blocks are written.
FillWholeBlocks ==
  /\ At("fill")
  /\ Step(IF Number < BlockLength THEN <<>> ELSE <<<<"block", BlockLength>>, <<"fill", Number - BlockLength>>>>)
  /\ UNCHANGED <<resampler, files, counters, failures, filed, fault>>

Fill ==
  LET n == AtMost(Number, BlockLength)
  IN  /\ At("fill")
      /\ Step(IF n = 0 THEN <<>> ELSE <<<<"block", n>>, <<"fill", Number - n>>>>)
      /\ UNCHANGED <<resampler, files, counters, failures, filed, fault>>

\* The rest of WriteAudioFrame: what vfw writes has gone through the resampler.
Block ==
  /\ At("block")
  /\ \/ kind = "vfw" /\ aud /\ audioOk /\ ResampleBlock(Number) /\ Step(<<<<"resampled", 0>>>>) /\ UNCHANGED audioSample
     \/ ~(aud /\ (kind = "vfw" => audioOk)) /\ Step(<<>>) /\ UNCHANGED <<resampler, audioSample>>
     \/ kind = "bmp" /\ aud /\ audioSample' = audioSample + Number /\ Step(<<>>) /\ UNCHANGED resampler
  /\ UNCHANGED <<files, formatSet, segment, frame, overflowCounter, failures, filed, fault>>

Resample ==
  /\ At("resampled") /\ ResamplerStep
  /\ UNCHANGED <<kind, hasSize, files, counters, sound, todo, driver, failures, ghosts, deleted, fault>>

\* The samples are counted, also if the file does not take them.
Resampled ==
  /\ At("resampled") /\ nInSamples = 0 /\ Step(<<>>)
  /\ audioSample' = audioSample + count
  /\ \/ overflowCounter' = overflowCounter + count /\ UNCHANGED failures
     \/ count > 0 /\ Fail /\ UNCHANGED overflowCounter
  /\ UNCHANGED <<resampler, files, formatSet, segment, frame, filed, fault>>

\* The destructor; finishing the wave file always works.
Delete ==
  /\ Ready /\ deleted' = TRUE
  /\ IF kind = "vfw" THEN Cleanup ELSE aud' = FALSE /\ UNCHANGED <<file, vid, initialized, unfinished>>
  /\ UNCHANGED <<resampler, kind, hasSize, counters, sound, todo, driver, failures, ghosts, fault>>

Next ==
  \/ SetSize \/ WriteFrame \/ WriteAudioFrame \/ SoundStops \/ Delete
  \/ \E f \in Format : SetAudioFormat(f)
  \/ StartEncode \/ Segment \/ CleanupSegment \/ InitSegment \/ WriteVideo
  \/ StartAudio \/ Fill \/ Block \/ Resample \/ Resampled

Spec == Init /\ [][Next]_vars

-----------------------------------------------------------------------------
(* Properties; NoDrift and OutputFits of Resampler hold as well. *)

\* The types of the state, and: unless a file could not be made, the streams that are
\* written to are there and every picture is in a file, in order and without a gap
\* (avi_videoencoder_vfw.cpp:325-347).
EveryPictureFiled ==
  /\ WritersTypeOK
  /\ failures = 0 =>
       /\ ~fault
       /\ todo = <<>> => Len(filed) = pictures
       /\ \A i \in 1..Len(filed)-1 :
            \/ filed[i+1] = <<filed[i][1], filed[i][2] + 1>>
            \/ filed[i+1] = <<filed[i][1] + 1, 0>>

\* Whatever fails, the segments before the last are finished; without failures all are.
SegmentsFinished ==
  /\ todo = <<>> => unfinished \subseteq {segment}
  /\ deleted /\ failures = 0 => unfinished = {}

\* What a change of format costs at most: four samples of the slowest sound.
Slowest == CHOOSE r \in Rates : \A other \in Rates : r <= other
ChangeCost(rate) == (4 * rate + Slowest - 1) \div Slowest

\* Sound stays with the picture from the moment it starts, in every segment: it is
\* late by the frame in which it starts and by what each change of format costs.
SoundMatchesPicture ==
  ~fault /\ todo = <<>> /\ ~soundDue /\ aud /\ steady =>
    /\ audioSample + 4 + ChangeCost(targetFormat.rate) * (formats - 1) >= SamplesIn(frame, targetFormat.rate)
    /\ audioSample <= SamplesIn(frame + 1, targetFormat.rate) + formats + 1
=============================================================================
