------------------------------- MODULE AudioPin -------------------------------
(***************************************************************************)
(* The audio source pin of the DirectShow encoder (src/kkapturedll/         *)
(* avi_videoencoder_dshow.cpp) with the thread that streams its samples    *)
(* and the allocator they come from (src/dshow_base/source.cpp, wxutil.cpp, *)
(* amfilter.cpp).                                                           *)
(*                                                                          *)
(* The program's thread calls the encoder; a call is the sequence of steps *)
(* it has still to take. The worker has the ring's other end. The          *)
(* multiplexer behind it is not part of the program: it takes a sample or  *)
(* refuses it, keeps some for a while, and gives every one back.           *)
(***************************************************************************)
EXTENDS Integers, Sequences

CONSTANTS
  BufferCount,   \* slots of the ring
  BufferSize,    \* of a slot, in units of sound
  Samples,       \* of the allocator, BufferCount in the code
  UnitsPerFrame, \* the sound of a frame
  MaxPush, MaxFrames, MaxUnits \* bounds: units in one call, frames, units in all

ASSUME AudioPinAssumption ==
  /\ BufferCount \in Nat /\ BufferCount > 1
  /\ {BufferSize, Samples} \subseteq Nat \ {0}
  /\ {UnitsPerFrame, MaxPush, MaxFrames, MaxUnits} \subseteq Nat

Slots == 0..BufferCount-1
Blocks == 0..BufferCount \* the memory of the slots and of the partial buffer

VARIABLES
  BufferReadPtr, BufferWritePtr, BufferReadChange, BufferWriteChange, Terminating,
  Buffers, PartialBuffer, PartialBufferPos, \* which block a slot has, and the one being filled
  memory,      \* for each block the numbers of the units in it
  EventSend, EventComplete, param,          \* the request to the worker
  Committed, DecommitInProgress, Free, Waiting, Sem, RefCount, \* the allocator
  held, shared, \* samples the multiplexer has; it has the worker's as well
  refused,     \* history: the multiplexer has refused a sample
  pin,         \* "none" before the first picture, "deleted" after the last call
  connected,   \* to the multiplexer
  audioOk, frame,
  todo, left,  \* the call's steps, and its units still to be pushed
  worker, next, \* where the worker is, and where it goes after a reply
  source,      \* the slot it copies from
  pushed, delivered \* history: units pushed, samples filled

ring == <<BufferReadPtr, BufferWritePtr, BufferReadChange, BufferWriteChange, Terminating>>
buffers == <<Buffers, PartialBuffer, PartialBufferPos, memory>>
request == <<EventSend, EventComplete, param>>
allocator == <<Committed, DecommitInProgress, Free, Waiting, Sem, RefCount>>
mux == <<held, shared, refused>>
encoder == <<pin, connected, audioOk, frame>>
app == <<todo, left, pushed>>
stream == <<worker, next, source, delivered>>
vars == <<ring, buffers, request, allocator, mux, encoder, app, stream>>

PushSteps == {"copy", "look", "room", "swap", "advance", "signal"}
OtherSteps == {"commit", "create", "init", "pause", "stop", "exit", "await", "close", "decommit", "terminate", "wake",
               "release"}

HasSample == worker \in {"test", "look", "wait", "advance", "signal", "copyOut", "deliver", "release", "finish"}

TypeOK ==
  /\ {BufferReadPtr, BufferWritePtr, source} \subseteq Slots
  /\ {BufferReadChange, BufferWriteChange, Terminating, EventSend, EventComplete, Committed, DecommitInProgress,
      shared, refused, connected, audioOk} \subseteq BOOLEAN
  /\ Buffers \in [Slots -> Blocks] /\ PartialBuffer \in Blocks /\ PartialBufferPos \in 0..BufferSize
  /\ memory \in [Blocks -> [0..BufferSize-1 -> 0..pushed]]
  /\ param \in {"init", "pause", "stop", "exit"}
  /\ Free \in 0..Samples /\ held \in 0..Samples /\ {Waiting, Sem} \subseteq 0..1 /\ RefCount \in 0..2
  /\ pin \in {"none", "alive", "deleted"} /\ frame \in 0..MaxFrames
  /\ todo \in Seq(PushSteps \union OtherSteps) /\ left \in 0..MaxUnits /\ pushed \in 0..MaxUnits /\ delivered \in 0..MaxUnits
  /\ HasSample \/ worker \in {"none", "request", "reply", "complete", "check", "getBuffer", "semaphore", "gone"}
  /\ next \in {"request", "check", "gone"}

Init ==
  /\ BufferReadPtr = 0 /\ BufferWritePtr = 0 /\ BufferReadChange = FALSE /\ BufferWriteChange = FALSE
  /\ Terminating = FALSE
  /\ Buffers = [s \in Slots |-> s] /\ PartialBuffer = BufferCount /\ PartialBufferPos = 0
  /\ memory = [b \in Blocks |-> [i \in 0..BufferSize-1 |-> 0]]
  /\ EventSend = FALSE /\ EventComplete = FALSE /\ param = "init"
  /\ Committed = FALSE /\ DecommitInProgress = FALSE /\ Free = Samples /\ Waiting = 0 /\ Sem = 0 /\ RefCount = 0
  /\ held = 0 /\ shared = FALSE /\ refused = FALSE
  /\ pin = "none" /\ connected = FALSE /\ audioOk = FALSE /\ frame = 0
  /\ todo = <<>> /\ left = 0 /\ pushed = 0
  /\ worker = "none" /\ next = "request" /\ source = 0 /\ delivered = 0

Succ(s) == (s + 1) % BufferCount
Pred(s) == (s + BufferCount - 1) % BufferCount
AtMost(a, b) == IF a <= b THEN a ELSE b

-----------------------------------------------------------------------------
(* The calls of the encoder. *)

Idle == todo = <<>> /\ pin # "deleted"

\* CSourceStream::Active commits the allocator, starts the worker and has it play.
Active == <<"commit", "create", "init", "await", "pause", "await">>

\* CSourceStream::Inactive.
Inactive == <<"decommit", "stop", "await", "exit", "await", "close">>

\* The first picture builds the graph and runs it; a pin that could not be connected
\* is neither activated nor does anybody notice.
WriteFrame ==
  /\ Idle /\ frame < MaxFrames
  /\ frame' = frame + 1
  /\ \/ /\ pin = "none" /\ pin' = "alive" /\ connected' \in BOOLEAN
        /\ RefCount' = IF connected' THEN 1 ELSE 0
        /\ todo' = IF connected' THEN Active ELSE <<>>
     \/ pin = "alive" /\ UNCHANGED <<pin, connected, RefCount, todo>>
  /\ UNCHANGED <<ring, buffers, request, Committed, DecommitInProgress, Free, Waiting, Sem, mux, audioOk,
                 left, pushed, stream>>

Push(n) ==
  /\ pushed + n <= MaxUnits
  /\ left' = n /\ todo' = IF n = 0 THEN <<>> ELSE <<"copy">>
  /\ UNCHANGED <<ring, buffers, request, allocator, mux, pin, connected, frame, pushed, stream>>

\* FeedZeroFrames of all pictures so far.
SetAudioFormat ==
  /\ Idle
  /\ audioOk' \in BOOLEAN
  /\ Push(IF pin = "alive" /\ audioOk' THEN frame * UnitsPerFrame ELSE 0)

WriteAudioFrame(n) == Idle /\ pin = "alive" /\ audioOk /\ Push(n) /\ UNCHANGED audioOk

\* The destructor: Cleanup stops the graph and breaks the connection.
Delete ==
  /\ Idle
  /\ todo' = (IF pin = "alive" THEN <<"terminate", "wake">> ELSE <<>>)
             \o (IF connected THEN Inactive \o <<"decommit">> ELSE <<>>) \o <<"release">>
  /\ UNCHANGED <<ring, buffers, request, allocator, mux, encoder, left, pushed, stream>>

-----------------------------------------------------------------------------
(* The steps of the calls. *)

At(step) == todo # <<>> /\ Head(todo) = step
Continue(steps) == todo' = steps \o Tail(todo)

\* PushData: what fits is added to the partial buffer,
CopyIn ==
  LET n == AtMost(left, BufferSize - PartialBufferPos)
      new == [i \in PartialBufferPos..PartialBufferPos+n-1 |-> pushed + 1 + i - PartialBufferPos]
  IN  /\ At("copy")
      /\ memory' = [memory EXCEPT ![PartialBuffer] = [i \in 0..BufferSize-1 |-> IF i \in DOMAIN new THEN new[i] ELSE @[i]]]
      /\ PartialBufferPos' = PartialBufferPos + n /\ left' = left - n /\ pushed' = pushed + n
      /\ Continue(IF PartialBufferPos' = BufferSize THEN <<"look">> ELSE <<>>)
      /\ UNCHANGED <<ring, Buffers, PartialBuffer, request, allocator, mux, encoder, stream>>

\* and when that is full it changes places with the next slot, if there is room.
LookForRoom ==
  /\ At("look")
  /\ Continue(IF Pred(BufferReadPtr) # BufferWritePtr THEN <<"swap">> ELSE <<"room">>)
  /\ UNCHANGED <<ring, buffers, request, allocator, mux, encoder, left, pushed, stream>>

WaitForRoom ==
  /\ At("room") /\ BufferReadChange
  /\ BufferReadChange' = FALSE /\ Continue(<<"look">>)
  /\ UNCHANGED <<BufferReadPtr, BufferWritePtr, BufferWriteChange, Terminating, buffers, request, allocator, mux,
                 encoder, left, pushed, stream>>

\* Mutant: the slot gets the full block, the partial buffer stays what it was.
SwapKeepsPartial ==
  /\ At("swap")
  /\ Buffers' = [Buffers EXCEPT ![BufferWritePtr] = PartialBuffer]
  /\ Continue(<<"advance">>)
  /\ UNCHANGED <<ring, PartialBuffer, PartialBufferPos, memory, request, allocator, mux, encoder, left, pushed, stream>>

Swap ==
  /\ At("swap")
  /\ PartialBuffer' = Buffers[BufferWritePtr]
  /\ Buffers' = [Buffers EXCEPT ![BufferWritePtr] = PartialBuffer]
  /\ Continue(<<"advance">>)
  /\ UNCHANGED <<ring, PartialBufferPos, memory, request, allocator, mux, encoder, left, pushed, stream>>

AdvanceWrite ==
  /\ At("advance")
  /\ BufferWritePtr' = Succ(BufferWritePtr) /\ Continue(<<"signal">>)
  /\ UNCHANGED <<BufferReadPtr, BufferReadChange, BufferWriteChange, Terminating, buffers, request, allocator, mux,
                 encoder, left, pushed, stream>>

SignalWrite ==
  /\ At("signal")
  /\ BufferWriteChange' = TRUE /\ PartialBufferPos' = 0
  /\ Continue(IF left > 0 THEN <<"copy">> ELSE <<>>)
  /\ UNCHANGED <<BufferReadPtr, BufferWritePtr, BufferReadChange, Terminating, Buffers, PartialBuffer, memory,
                 request, allocator, mux, encoder, left, pushed, stream>>

Terminate ==
  /\ \/ At("terminate") /\ Terminating' = TRUE /\ UNCHANGED BufferWriteChange
     \/ At("wake") /\ BufferWriteChange' = TRUE /\ UNCHANGED Terminating
  /\ Continue(<<>>)
  /\ UNCHANGED <<BufferReadPtr, BufferWritePtr, BufferReadChange, buffers, request, allocator, mux, encoder,
                 left, pushed, stream>>

\* CAMThread::Create.
Create ==
  /\ At("create")
  /\ worker' = "request" /\ Continue(<<>>)
  /\ UNCHANGED <<ring, buffers, request, allocator, mux, encoder, left, pushed, next, source, delivered>>

\* CAMThread::CallWorker: the request, then the wait for the reply.
CallWorker ==
  /\ \E command \in {"init", "pause", "stop", "exit"} : At(command) /\ param' = command
  /\ EventSend' = TRUE /\ Continue(<<>>)
  /\ UNCHANGED <<ring, buffers, EventComplete, allocator, mux, encoder, left, pushed, stream>>

AwaitReply ==
  /\ At("await") /\ EventComplete
  /\ EventComplete' = FALSE /\ Continue(<<>>)
  /\ UNCHANGED <<ring, buffers, EventSend, param, allocator, mux, encoder, left, pushed, stream>>

\* CAMThread::Close waits for the end of the thread.
Close ==
  /\ At("close") /\ worker = "gone" /\ Continue(<<>>)
  /\ UNCHANGED <<ring, buffers, request, allocator, mux, encoder, left, pushed, stream>>

-----------------------------------------------------------------------------
(* The allocator, whose methods hold its lock. *)

\* NotifySample: everybody who waits may look again.
NotifySample == Sem' = Sem + Waiting /\ Waiting' = 0

Commit ==
  /\ At("commit") /\ Continue(<<>>)
  /\ Committed' = TRUE /\ RefCount' = RefCount + 1
  /\ UNCHANGED <<ring, buffers, request, DecommitInProgress, Free, Waiting, Sem, mux, encoder, left, pushed, stream>>

\* Mutant: samples that are out are forgotten.
DecommitAtOnce ==
  /\ At("decommit") /\ Continue(<<>>)
  /\ Committed' = FALSE /\ NotifySample
  /\ RefCount' = IF Committed THEN RefCount - 1 ELSE RefCount
  /\ UNCHANGED <<ring, buffers, request, DecommitInProgress, Free, mux, encoder, left, pushed, stream>>

\* The memory goes when the last sample is back, and with it the reference of Commit.
Decommit ==
  /\ At("decommit") /\ Continue(<<>>)
  /\ \/ /\ ~Committed /\ ~DecommitInProgress
        /\ UNCHANGED <<Committed, DecommitInProgress, Waiting, Sem, RefCount>>
     \/ /\ Committed \/ DecommitInProgress
        /\ Committed' = FALSE /\ DecommitInProgress' = (Free < Samples)
        /\ RefCount' = IF Free < Samples THEN RefCount ELSE RefCount - 1
        /\ NotifySample
  /\ UNCHANGED <<ring, buffers, request, Free, mux, encoder, left, pushed, stream>>

ReleaseBuffer ==
  /\ Free' = Free + 1 /\ NotifySample
  /\ IF DecommitInProgress /\ Free' = Samples
     THEN DecommitInProgress' = FALSE /\ RefCount' = RefCount - 1
     ELSE UNCHANGED <<DecommitInProgress, RefCount>>
  /\ UNCHANGED Committed

\* BreakConnect gives up the pin's reference; the filter and its pin are deleted.
ReleasePin ==
  /\ At("release") /\ Continue(<<>>)
  /\ RefCount' = IF connected THEN RefCount - 1 ELSE RefCount
  /\ pin' = "deleted" /\ connected' = FALSE
  /\ UNCHANGED <<ring, buffers, request, Committed, DecommitInProgress, Free, Waiting, Sem, mux, audioOk, frame,
                 left, pushed, stream>>

-----------------------------------------------------------------------------
(* The worker: ThreadProc and DoBufferProcessingLoop. *)

WorkerAt(label) == worker = label
Go(label) == worker' = label
Elsewhere == UNCHANGED <<encoder, app>>

GetRequest ==
  /\ WorkerAt("request") /\ EventSend
  /\ next' = CASE param = "pause" -> "check" [] param = "exit" -> "gone" [] OTHER -> "request"
  /\ Go("reply")
  /\ UNCHANGED <<ring, buffers, request, allocator, mux, source, delivered>> /\ Elsewhere

\* Mutant: the caller is told before the request is taken back.
ReplySignalsFirst ==
  /\ \/ WorkerAt("reply") /\ EventComplete' = TRUE /\ Go("complete") /\ UNCHANGED EventSend
     \/ WorkerAt("complete") /\ EventSend' = FALSE /\ Go(next) /\ UNCHANGED EventComplete
  /\ UNCHANGED <<ring, buffers, param, allocator, mux, next, source, delivered>> /\ Elsewhere

Reply ==
  /\ \/ WorkerAt("reply") /\ EventSend' = FALSE /\ Go("complete") /\ UNCHANGED EventComplete
     \/ WorkerAt("complete") /\ EventComplete' = TRUE /\ Go(next) /\ UNCHANGED EventSend
  /\ UNCHANGED <<ring, buffers, param, allocator, mux, next, source, delivered>> /\ Elsewhere

\* The loop ends with a request to stop, which GetRequest finds again and answers.
CheckRequest ==
  /\ WorkerAt("check")
  /\ Go(IF EventSend THEN "request" ELSE "getBuffer")
  /\ UNCHANGED <<ring, buffers, request, allocator, mux, next, source, delivered>> /\ Elsewhere

\* GetBuffer fails when the allocator is decommitted, and waits when it is empty.
GetBuffer ==
  /\ WorkerAt("getBuffer")
  /\ \/ ~Committed /\ Go("check") /\ UNCHANGED <<Free, Waiting>>
     \/ Committed /\ Free > 0 /\ Free' = Free - 1 /\ Go("test") /\ UNCHANGED Waiting
     \/ Committed /\ Free = 0 /\ Waiting' = Waiting + 1 /\ Go("semaphore") /\ UNCHANGED Free
  /\ UNCHANGED <<ring, buffers, request, Committed, DecommitInProgress, Sem, RefCount, mux, next, source, delivered>>
  /\ Elsewhere

WaitForSample ==
  /\ WorkerAt("semaphore") /\ Sem > 0
  /\ Sem' = Sem - 1 /\ Go("getBuffer")
  /\ UNCHANGED <<ring, buffers, request, Committed, DecommitInProgress, Free, Waiting, RefCount, mux, next, source, delivered>>
  /\ Elsewhere

\* FillBuffer.
TestTerminating ==
  /\ WorkerAt("test")
  /\ BufferWriteChange' = (BufferWriteChange \/ Terminating)
  /\ Go(IF Terminating THEN "finish" ELSE "look")
  /\ UNCHANGED <<BufferReadPtr, BufferWritePtr, BufferReadChange, Terminating, buffers, request, allocator, mux,
                 next, source, delivered>> /\ Elsewhere

LookForSound ==
  /\ WorkerAt("look")
  /\ IF BufferReadPtr # BufferWritePtr THEN source' = BufferReadPtr /\ Go("advance") ELSE Go("wait") /\ UNCHANGED source
  /\ UNCHANGED <<ring, buffers, request, allocator, mux, next, delivered>> /\ Elsewhere

WaitForSound ==
  /\ WorkerAt("wait") /\ BufferWriteChange
  /\ BufferWriteChange' = FALSE /\ Go("test")
  /\ UNCHANGED <<BufferReadPtr, BufferWritePtr, BufferReadChange, Terminating, buffers, request, allocator, mux,
                 next, source, delivered>> /\ Elsewhere

AdvanceRead ==
  /\ \/ /\ WorkerAt("advance") /\ Go("signal")
        /\ BufferReadPtr' = Succ(BufferReadPtr) /\ UNCHANGED BufferReadChange
     \/ /\ WorkerAt("signal") /\ Go("copyOut")
        /\ BufferReadChange' = TRUE /\ UNCHANGED BufferReadPtr
  /\ UNCHANGED <<BufferWritePtr, BufferWriteChange, Terminating, buffers, request, allocator, mux,
                 next, source, delivered>> /\ Elsewhere

CopyOut ==
  /\ WorkerAt("copyOut") /\ Go("deliver")
  /\ delivered' = delivered + 1 /\ source' = 0
  /\ UNCHANGED <<ring, buffers, request, allocator, mux, next>> /\ Elsewhere

\* Deliver: the multiplexer may keep a reference, or refuse, which ends the loop.
Deliver ==
  /\ WorkerAt("deliver")
  /\ \/ shared' \in BOOLEAN /\ Go("release") /\ UNCHANGED refused
     \/ refused' = TRUE /\ Go("finish") /\ UNCHANGED shared
  /\ UNCHANGED <<ring, buffers, request, allocator, held, next, source, delivered>> /\ Elsewhere

\* The worker gives up its sample, which may be the multiplexer's alone then.
ReleaseSample ==
  /\ \/ WorkerAt("release") /\ Go("check")
     \/ WorkerAt("finish") /\ Go("request")
  /\ IF shared THEN held' = held + 1 /\ shared' = FALSE /\ UNCHANGED allocator
               ELSE ReleaseBuffer /\ UNCHANGED <<held, shared>>
  /\ UNCHANGED <<ring, buffers, request, refused, next, source, delivered>> /\ Elsewhere

\* The multiplexer gives a sample back.
MuxReleases ==
  /\ \/ held > 0 /\ held' = held - 1 /\ ReleaseBuffer /\ UNCHANGED shared
     \/ shared /\ shared' = FALSE /\ UNCHANGED <<held, allocator>>
  /\ UNCHANGED <<ring, buffers, request, refused, stream>> /\ Elsewhere

-----------------------------------------------------------------------------
App ==
  \/ CopyIn \/ LookForRoom \/ WaitForRoom \/ Swap \/ AdvanceWrite \/ SignalWrite \/ Terminate
  \/ Create \/ CallWorker \/ AwaitReply \/ Close \/ Commit \/ Decommit \/ ReleasePin

Worker ==
  \/ GetRequest \/ Reply \/ CheckRequest \/ GetBuffer \/ WaitForSample \/ TestTerminating \/ LookForSound
  \/ WaitForSound \/ AdvanceRead \/ CopyOut \/ Deliver \/ ReleaseSample

Next ==
  \/ WriteFrame \/ SetAudioFormat \/ Delete \/ \E n \in 1..MaxPush : WriteAudioFrame(n)
  \/ App \/ Worker \/ MuxReleases

Spec == Init /\ [][Next]_vars

\* Both threads run on, and the multiplexer does not keep a sample for ever.
FairSpec == Spec /\ WF_vars(App) /\ WF_vars(Worker) /\ WF_vars(MuxReleases)

-----------------------------------------------------------------------------
(* Properties. *)

\* What the worker copies out of a slot it has given back already (AudioSourcePin::
\* FillBuffer) is the next whole slot of what was pushed, in pieces of any size, before.
SoundIntact ==
  /\ TypeOK
  /\ worker = "copyOut" =>
       \A i \in 0..BufferSize-1 : memory[Buffers[source]][i] = delivered * BufferSize + i + 1

\* Nobody uses what is gone: the pin is deleted after its worker has ended, the allocator
\* after its last sample has come back (CSourceStream::Inactive, CBaseAllocator).
NothingUsedAfterDelete ==
  /\ pin = "deleted" => worker \in {"none", "gone"}
  /\ held > 0 \/ HasSample => RefCount > 0

\* Every call of the encoder returns, the destructor from wherever the worker is. Only
\* PushData waits for ever, if no worker takes the sound any more.
CallsReturn == todo # <<>> ~> todo = <<>> \/ (At("room") /\ (refused \/ ~connected))
=============================================================================
