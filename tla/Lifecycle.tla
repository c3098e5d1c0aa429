------------------------------ MODULE Lifecycle ------------------------------
(***************************************************************************)
(* The life of the encoder (src/kkapturedll/main.cpp, video.cpp): created  *)
(* when it is first needed, replaced when the picture changes its size or  *)
(* the device is reset, deleted at exit.                                   *)
(*                                                                         *)
(* A hooked call is the sequence of steps its thread has still to take; a  *)
(* step accesses one shared object, a method of the encoder is one step.   *)
(* Three threads call: the program (graphics, sound, ExitProcess), the     *)
(* watchdog for stuck frames (skipFrame), the keyboard hook (ctrl+break).  *)
(***************************************************************************)
EXTENDS Integers, Sequences

CONSTANTS
  Widths,   \* the sizes of picture the program asks for, a number each
  MaxCalls, \* bound on the calls made
  Overlap,  \* an encoder may be exchanged during another thread's call
  Nobody    \* no thread, no encoder

ASSUME LifecycleAssumption ==
  /\ Widths \subseteq Nat
  /\ MaxCalls \in Nat /\ Overlap \in BOOLEAN
  /\ Nobody \notin Nat \union {"program", "watchdog", "hook"}

Threads == {"program", "watchdog", "hook"}

VARIABLES
  encoder,      \* the global pointer, to one of objs
  objs,         \* the encoders created
  partCounter, seenFrames, firstCreate,
  captureWidth, \* captureBuffer.width, 0 without data
  asked,        \* the size the program's call is about
  gotDataLock, captureDataLock, shuttingDown, \* the locks' owners
  initialized, exitNextFrame,
  soundOpen,    \* the program has created its sound object
  playing,      \* playBuffer or currentWaveOut is set
  armed,        \* the timer of the watchdog has been set
  endStuck,     \* endStuckEvent
  realEncoder,  \* the encoder done() took
  wfx,          \* videoStartNextPart has the sound format of the last part
  calls,        \* what each thread has left to do
  made,         \* calls made so far
  fault,        \* the access that ended the process, or "none"
  over,         \* the process has ended
  lostFormat    \* history: a part ended that had a sound format and no sound

picture == <<partCounter, seenFrames, firstCreate, captureWidth, asked>>
locks == <<gotDataLock, captureDataLock, shuttingDown>>
sound == <<soundOpen, playing, wfx, lostFormat>>
control == <<initialized, exitNextFrame, armed, endStuck, realEncoder>>
vars == <<encoder, objs, picture, locks, sound, control, calls, made, fault, over>>

\* setCaptureResolution cuts a size that is no multiple of four down to one.
Aligned(size) == (size \div 4) * 4

\* An encoder: its file, the size it was told (0: none), whether it was told the
\* sound format and has a sound stream, whether it has pictures and was deleted.
Encoder == [file : Nat, size : Nat, format : BOOLEAN, aud : BOOLEAN,
            pictures : BOOLEAN, deleted : BOOLEAN]

\* The steps of the calls.
Steps == {"need", "create", "getFormat", "delete", "nextPart", "createPart", "autoSize", "resumeSound",
          "resolution", "destroyBuffer", "initBuffer", "setSize",
          "enterData", "write", "writeAgain", "leaveData", "seen", "timing", "arm", "sound", "format",
          "enterShutdown", "takeEncoder", "deleteEncoder", "doneVideo", "leaveShutdown", "terminate"}

TypeOK ==
  /\ {encoder, realEncoder} \subseteq 1..Len(objs) \union {Nobody}
  /\ objs \in Seq(Encoder)
  /\ partCounter \in Nat /\ asked \in Widths \union {0} /\ made \in 0..MaxCalls
  /\ captureWidth \in {Aligned(w) : w \in Widths \union {0}}
  /\ {seenFrames, firstCreate, gotDataLock, initialized, exitNextFrame, soundOpen, playing, armed,
      endStuck, wfx, over, lostFormat} \subseteq BOOLEAN
  /\ {captureDataLock, shuttingDown} \subseteq Threads \union {Nobody}
  /\ calls \in [Threads -> Seq(Steps)]
  /\ fault \in {"none", "null", "deleted", "no format"}

Init ==
  /\ encoder = Nobody /\ objs = <<>> /\ made = 0
  /\ partCounter = 1 /\ seenFrames = FALSE /\ firstCreate = TRUE /\ captureWidth = 0 /\ asked = 0
  /\ gotDataLock = TRUE /\ captureDataLock = Nobody /\ shuttingDown = Nobody
  /\ soundOpen = FALSE /\ playing = FALSE /\ wfx = FALSE /\ lostFormat = FALSE
  /\ initialized = TRUE /\ exitNextFrame = FALSE /\ armed = FALSE /\ endStuck = FALSE /\ realEncoder = Nobody
  /\ calls = [t \in Threads |-> <<>>]
  /\ fault = "none" /\ over = FALSE

-----------------------------------------------------------------------------
(* The calls, as the steps they are made of. *)

\* Mutant: the next part is not told the size of the picture.
NextPartUnsized(autoSize) == <<"need", "getFormat", "delete", "nextPart", "createPart", "resumeSound">>

videoStartNextPart(autoSize) ==
  <<"need", "getFormat", "delete", "nextPart", "createPart">>
  \o (IF autoSize THEN <<"autoSize">> ELSE <<>>) \o <<"resumeSound">>

setCaptureResolution == <<"need", "resolution">>
nextFrame == <<"need", "seen", "timing", "sound">>

\* Mutant: the lock is kept.
SkipFrameKeepsLock == <<"need", "enterData", "writeAgain">> \o nextFrame

skipFrame == <<"need", "enterData", "writeAgain", "leaveData">> \o nextFrame

Mine_ExitProcess ==
  (IF initialized
   THEN <<"enterShutdown", "takeEncoder", "deleteEncoder", "doneVideo", "leaveShutdown">>
   ELSE <<>>) \o <<"terminate">>

\* Direct3D and DirectDraw learn the size of the picture from the device,
\* OpenGL and GDI with every picture.
Present == <<"need", "enterData", "write", "leaveData">> \o nextFrame
SwapBuffers == <<"need">> \o setCaptureResolution \o <<"enterData", "writeAgain", "leaveData">> \o nextFrame
CreateDevice ==
  (IF firstCreate THEN <<>> ELSE videoStartNextPart(TRUE)) \o setCaptureResolution \o <<"arm">>
Reset == setCaptureResolution \o videoStartNextPart(TRUE)

\* Steps of a call during which another thread must not be in a call: the rest leave
\* the encoder and the buffer what and where they are.
Exchanges == {"create", "resolution", "getFormat", "delete", "nextPart", "createPart", "autoSize",
              "resumeSound", "destroyBuffer", "initBuffer", "setSize", "takeEncoder", "deleteEncoder", "doneVideo",
              "leaveShutdown", "terminate"}
Racing(c) ==
  \E t, u \in Threads :
    /\ t # u /\ c[u] # <<>>
    /\ \E i \in DOMAIN c[t] : c[t][i] \in Exchanges \/ (c[t][i] = "timing" /\ exitNextFrame)

Running == ~over /\ fault = "none"

Call(t, steps) ==
  /\ Running /\ calls[t] = <<>> /\ made < MaxCalls
  /\ made' = made + 1
  /\ calls' = [calls EXCEPT ![t] = steps]
  /\ ~(~Overlap /\ Racing(calls'))
  /\ UNCHANGED <<encoder, objs, locks, fault, over>>

ProgramPresents ==
  /\ ~firstCreate
  /\ Call("program", Present)
  /\ UNCHANGED <<picture, sound, control>>

\* A picture nobody captures: no capture surfaces, no CaptureVideo, a format the
\* capture of GDI does not know.
ProgramAdvances ==
  /\ Call("program", nextFrame)
  /\ UNCHANGED <<picture, sound, control>>

ProgramSwapsBuffers(w) ==
  /\ Call("program", SwapBuffers) /\ asked' = w
  /\ UNCHANGED <<partCounter, seenFrames, firstCreate, captureWidth, sound, control>>

ProgramCreatesDevice(w) ==
  /\ Call("program", CreateDevice) /\ asked' = w /\ firstCreate' = FALSE
  /\ UNCHANGED <<partCounter, seenFrames, captureWidth, sound, control>>

ProgramResetsDevice(w) ==
  /\ ~firstCreate
  /\ Call("program", Reset) /\ asked' = w
  /\ UNCHANGED <<partCounter, seenFrames, firstCreate, captureWidth, sound, control>>

ProgramOpensSound ==
  /\ ~soundOpen
  /\ Call("program", <<"need">>) /\ soundOpen' = TRUE
  /\ UNCHANGED <<picture, playing, wfx, lostFormat, control>>

ProgramPlays ==
  /\ soundOpen
  /\ Call("program", <<"format">>)
  /\ UNCHANGED <<picture, sound, control>>

ProgramStops ==
  /\ playing
  /\ Call("program", <<>>) /\ playing' = FALSE
  /\ UNCHANGED <<picture, soundOpen, wfx, lostFormat, control>>

\* A program that asks for the time or a position again and again is given a frame.
ProgramHammers == Call("program", skipFrame) /\ UNCHANGED <<picture, sound, control>>
\* Without EnableAutoSkip the watchdog makes no call: nobody has to make one here.
FrameTimesOut ==
  /\ armed /\ ~endStuck
  /\ Call("watchdog", skipFrame)
  /\ UNCHANGED <<picture, sound, control>>

ProgramExits == Call("program", Mine_ExitProcess) /\ UNCHANGED <<picture, sound, control>>
CtrlBreak == Call("hook", Mine_ExitProcess) /\ UNCHANGED <<picture, sound, control>>

RightCtrl ==
  /\ Running /\ ~exitNextFrame
  /\ ~(~Overlap /\ \E t, u \in Threads : t # u /\ calls[t] # <<>> /\ calls[u] # <<>>)
  /\ exitNextFrame' = TRUE
  /\ UNCHANGED <<encoder, objs, picture, locks, sound, initialized, armed, endStuck, realEncoder,
                 calls, made, fault, over>>

-----------------------------------------------------------------------------
(* The steps. *)

At(t, step) == Running /\ calls[t] # <<>> /\ Head(calls[t]) = step

\* t takes these steps before the rest of its call.
Continue(t, steps) == calls' = [calls EXCEPT ![t] = steps \o Tail(@)]

Quiet == UNCHANGED <<picture, sound, control, made>>

\* A step that touches neither encoder nor locks.
Local(t, steps) == Continue(t, steps) /\ UNCHANGED <<encoder, objs, locks, fault, over>>

\* A method of the encoder; a null pointer and a deleted encoder end the process.
Method(t, e, new) ==
  /\ Continue(t, <<>>)
  /\ fault' = CASE e = Nobody -> "null" [] e # Nobody /\ objs[e].deleted -> "deleted" [] OTHER -> "none"
  /\ objs' = IF fault' = "none" THEN [objs EXCEPT ![e] = new] ELSE objs
  /\ UNCHANGED <<encoder, locks, over>>

MethodIfAny(t, e, new) == IF e # Nobody THEN Method(t, e, new) ELSE Local(t, <<>>)

CreateFor(t, file) ==
  /\ objs' = Append(objs, [file |-> file, size |-> 0, format |-> FALSE, aud |-> FALSE,
                           pictures |-> FALSE, deleted |-> FALSE])
  /\ encoder' = Len(objs')
  /\ Continue(t, <<>>)
  /\ UNCHANGED <<picture, locks, sound, control, made, fault, over>>

\* videoNeedEncoder tests the pointer, then creates the encoder for params.FileName.
Need(t) ==
  /\ At(t, "need")
  /\ Local(t, IF encoder = Nobody THEN <<"create">> ELSE <<>>)
  /\ Quiet
Create(t) == At(t, "create") /\ CreateFor(t, 1)
CreatePart(t) == At(t, "createPart") /\ CreateFor(t, partCounter)

\* GetAudioFormat: the format is known once there is a sound stream.
GetFormat(t) ==
  /\ At(t, "getFormat")
  /\ Method(t, encoder, objs[encoder])
  /\ wfx' = (fault' = "none" /\ objs[encoder].aud)
  /\ lostFormat' = (lostFormat \/ (fault' = "none" /\ objs[encoder].format /\ ~objs[encoder].aud))
  /\ UNCHANGED <<picture, soundOpen, playing, control, made>>

Delete(t) == At(t, "delete") /\ Method(t, encoder, [objs[encoder] EXCEPT !.deleted = TRUE]) /\ Quiet

\* The pointer is cleared and the part gets its number; seenFrames is cleared
\* a little later in the code, where only this thread looks at it.
NextPart(t) ==
  /\ At(t, "nextPart")
  /\ encoder' = Nobody /\ partCounter' = partCounter + 1 /\ seenFrames' = FALSE
  /\ Continue(t, <<>>)
  /\ UNCHANGED <<objs, firstCreate, captureWidth, asked, locks, sound, control, made, fault, over>>

\* Mutant: the sound format is not handed on.
ResumeSoundForgotten(t) == At(t, "resumeSound") /\ Local(t, <<>>) /\ Quiet

ResumeSound(t) ==
  /\ At(t, "resumeSound")
  /\ IF wfx THEN Method(t, encoder, [objs[encoder] EXCEPT !.format = TRUE]) ELSE Local(t, <<>>)
  /\ Quiet

\* Mutant: a size that differs goes to the part that has pictures already.
ResolutionSamePart(t) ==
  LET width == Aligned(asked)
  IN  /\ At(t, "resolution")
      /\ Local(t, IF width = captureWidth THEN <<>> ELSE <<"destroyBuffer", "initBuffer", "setSize">>)
      /\ Quiet

\* A new size starts a new part if the last one has been seen.
Resolution(t) ==
  LET width == Aligned(asked)
  IN  /\ At(t, "resolution")
      /\ Local(t, IF width = captureWidth THEN <<>>
                  ELSE (IF seenFrames THEN videoStartNextPart(FALSE) ELSE <<>>)
                       \o <<"destroyBuffer", "initBuffer", "setSize">>)
      /\ Quiet

CanEnter(lock, t) == lock \in {Nobody, t}
LockOnly(t) == Continue(t, <<>>) /\ Quiet /\ UNCHANGED <<encoder, objs, fault, over>>

SetBuffer(t, width) ==
  /\ gotDataLock => CanEnter(captureDataLock, t)
  /\ captureWidth' = width
  /\ Local(t, <<>>)
  /\ UNCHANGED <<partCounter, seenFrames, firstCreate, asked, sound, control, made>>
DestroyBuffer(t) == At(t, "destroyBuffer") /\ SetBuffer(t, 0)

InitBuffer(t) == At(t, "initBuffer") /\ SetBuffer(t, Aligned(asked))

\* SetSize, in setCaptureResolution only if there is an encoder.
SetSize(t) ==
  /\ \/ At(t, "autoSize") /\ Method(t, encoder, [objs[encoder] EXCEPT !.size = captureWidth])
     \/ At(t, "setSize") /\ MethodIfAny(t, encoder, [objs[encoder] EXCEPT !.size = Aligned(asked)])
  /\ Quiet

\* VideoCaptureDataLock does nothing once the lock is gone.
EnterData(t) ==
  /\ At(t, "enterData")
  /\ gotDataLock => CanEnter(captureDataLock, t)
  /\ captureDataLock' = IF gotDataLock THEN t ELSE captureDataLock
  /\ UNCHANGED <<gotDataLock, shuttingDown>> /\ LockOnly(t)
LeaveData(t) ==
  /\ At(t, "leaveData")
  /\ captureDataLock' = IF gotDataLock THEN Nobody ELSE captureDataLock
  /\ UNCHANGED <<gotDataLock, shuttingDown>> /\ LockOnly(t)

\* WriteFrame of the capture buffer, which does nothing before SetSize; skipFrame,
\* OpenGL and GDI look at the pointer first.
Write(t) ==
  LET written == IF objs[encoder].size = 0 THEN objs[encoder] ELSE [objs[encoder] EXCEPT !.pictures = TRUE]
  IN  /\ \/ At(t, "write") /\ Method(t, encoder, written)
         \/ At(t, "writeAgain") /\ MethodIfAny(t, encoder, written)
      /\ Quiet

\* The picture could not be read back, or CaptureVideo is off: nothing is written.
WriteNothing(t) ==
  /\ At(t, "write") \/ At(t, "writeAgain")
  /\ Local(t, <<>>) /\ Quiet

Seen(t) ==
  /\ At(t, "seen")
  /\ seenFrames' = TRUE
  /\ Local(t, <<>>)
  /\ UNCHANGED <<partCounter, firstCreate, captureWidth, asked, sound, control, made>>

\* nextFrameTiming: the clean exit that was asked for, or the next frame.
Timing(t) ==
  /\ At(t, "timing")
  /\ armed' = TRUE
  /\ Local(t, IF exitNextFrame THEN Mine_ExitProcess ELSE <<>>)
  /\ UNCHANGED <<picture, sound, initialized, exitNextFrame, endStuck, realEncoder, made>>
Arm(t) ==
  /\ At(t, "arm")
  /\ armed' = TRUE
  /\ Local(t, <<>>)
  /\ UNCHANGED <<picture, sound, initialized, exitNextFrame, endStuck, realEncoder, made>>

\* nextFrameSound: the first sound needs the format for its stream.
Sound(t) ==
  /\ At(t, "sound")
  /\ \/ ~playing /\ Local(t, <<>>)
     \/ /\ playing /\ (encoder # Nobody => objs[encoder].format)
        /\ Method(t, encoder, [objs[encoder] EXCEPT !.aud = TRUE])
     \/ /\ playing /\ encoder # Nobody /\ ~objs[encoder].format
        /\ Continue(t, <<>>)
        /\ fault' = "no format"
        /\ UNCHANGED <<encoder, objs, locks, over>>
  /\ Quiet

\* Play or waveOutWrite: SetAudioFormat, then the buffer is the one that plays.
Format(t) ==
  /\ At(t, "format")
  /\ Method(t, encoder, [objs[encoder] EXCEPT !.format = TRUE])
  /\ playing' = TRUE
  /\ UNCHANGED <<picture, soundOpen, wfx, lostFormat, control, made>>

\* done: the second test of initialized is under the lock.
EnterShutdown(t) ==
  /\ At(t, "enterShutdown") /\ CanEnter(shuttingDown, t)
  /\ shuttingDown' = t
  /\ calls' = [calls EXCEPT ![t] = IF initialized THEN Tail(@) ELSE <<"leaveShutdown", "terminate">>]
  /\ UNCHANGED <<encoder, objs, picture, gotDataLock, captureDataLock, sound, control, made, fault, over>>

\* doneTiming tells the watchdog to end, but waits for it only half a second.
TakeEncoder(t) ==
  /\ At(t, "takeEncoder")
  /\ realEncoder' = encoder /\ encoder' = Nobody /\ endStuck' = TRUE
  /\ Continue(t, <<>>)
  /\ UNCHANGED <<objs, picture, locks, sound, initialized, exitNextFrame, armed, made, fault, over>>

\* Mutant: the encoder is looked for where it no longer is.
DeleteEncoderNotTaken(t) ==
  At(t, "deleteEncoder") /\ MethodIfAny(t, encoder, [objs[encoder] EXCEPT !.deleted = TRUE]) /\ Quiet

DeleteEncoder(t) ==
  /\ At(t, "deleteEncoder")
  /\ MethodIfAny(t, realEncoder, [objs[realEncoder] EXCEPT !.deleted = TRUE])
  /\ Quiet

\* captureBuffer.destroy under its lock, which is deleted; initialized follows.
DoneVideo(t) ==
  /\ At(t, "doneVideo") /\ (gotDataLock => CanEnter(captureDataLock, t))
  /\ captureWidth' = 0 /\ gotDataLock' = FALSE /\ captureDataLock' = Nobody /\ initialized' = FALSE
  /\ Continue(t, <<>>)
  /\ UNCHANGED <<encoder, objs, partCounter, seenFrames, firstCreate, asked, shuttingDown, sound,
                 exitNextFrame, armed, endStuck, realEncoder, made, fault, over>>

LeaveShutdown(t) ==
  /\ At(t, "leaveShutdown")
  /\ shuttingDown' = Nobody
  /\ UNCHANGED <<gotDataLock, captureDataLock>> /\ LockOnly(t)

\* Real_ExitProcess stops every other thread where it is.
Terminate(t) ==
  /\ At(t, "terminate")
  /\ over' = TRUE
  /\ Continue(t, <<>>)
  /\ UNCHANGED <<encoder, objs, picture, locks, sound, control, made, fault>>

Step(t) ==
  \/ Need(t) \/ Create(t) \/ GetFormat(t) \/ Delete(t) \/ NextPart(t) \/ CreatePart(t) \/ ResumeSound(t)
  \/ Resolution(t) \/ DestroyBuffer(t) \/ InitBuffer(t) \/ SetSize(t)
  \/ EnterData(t) \/ LeaveData(t) \/ Write(t) \/ WriteNothing(t) \/ Seen(t) \/ Timing(t) \/ Arm(t) \/ Sound(t) \/ Format(t)
  \/ EnterShutdown(t) \/ TakeEncoder(t) \/ DeleteEncoder(t) \/ DoneVideo(t)
  \/ LeaveShutdown(t) \/ Terminate(t)

Program ==
  \/ \E w \in Widths : ProgramSwapsBuffers(w) \/ ProgramCreatesDevice(w) \/ ProgramResetsDevice(w)
  \/ ProgramPresents \/ ProgramAdvances \/ ProgramHammers \/ ProgramOpensSound \/ ProgramPlays \/ ProgramStops \/ ProgramExits

Next == Program \/ FrameTimesOut \/ CtrlBreak \/ RightCtrl \/ \E t \in Threads : Step(t)

Spec == Init /\ [][Next]_vars

\* A thread that is in a call runs on; nobody has to make calls.
FairSpec == Spec /\ \A t \in Threads : WF_vars(Step(t))

-----------------------------------------------------------------------------
(* Properties. Up to CallsEnd they hold without Overlap: no lock covers the exchange
   of an encoder. *)

\* Every call finds an encoder that exists, and sound finds its format unless it
\* was lost with a part that never had sound.
EncoderAtHand == fault = "none" \/ (fault = "no format" /\ lostFormat)

\* What the capture buffer holds when it is written is as large as the encoder
\* was told, so WriteFrame neither reads past it nor drops the picture.
PicturesFit ==
  /\ TypeOK
  /\ \A t \in Threads : (At(t, "write") \/ At(t, "writeAgain")) /\ encoder # Nobody
    => objs[encoder].size = captureWidth

\* A file keeps the size of its first picture (video.cpp:159-161).
OneSizePerFile ==
  [][\A e \in DOMAIN objs : objs[e].pictures => objs'[e].size = objs[e].size]_vars

\* No file is created twice: the second encoder would truncate the first one's.
FilesDistinct ==
  \A i, j \in DOMAIN objs : i # j => objs[i].file # objs[j].file

\* When the process ends every encoder has been deleted, which is what finishes its file.
FilesFinished == over => \A e \in DOMAIN objs : objs[e].deleted

\* Nothing of the capture is lost on the way: no file is made again, and all are finished.
FilesComplete == FilesDistinct /\ FilesFinished

\* A call does not wait for ever for a lock of its own or another thread.
CallsEnd == \A t \in Threads : calls[t] # <<>> ~> calls[t] = <<>> \/ ~Running

\* changelog.txt:95 "magic exit key: press ctrl+break to safely abort a capture": a
\* finished file with pictures is not created again while the abort is under way.
AbortIsSafe ==
  [][\A i \in DOMAIN objs, j \in DOMAIN objs' \ DOMAIN objs :
       calls["hook"] # <<>> /\ objs[i].deleted /\ objs[i].pictures
         => objs'[j].file # objs[i].file]_vars
=============================================================================
