------------------------------ MODULE MTProxy ------------------------------
(***************************************************************************)
(* The encoder thread (src/kkapturedll/mt_proxy_videoencoder.cpp).         *)
(*                                                                         *)
(* Threads of the captured program call the proxy as if it were the        *)
(* encoder; every call becomes a command in a list guarded by queue_lock   *)
(* and bounded by queue_semaphore, which QueueRunner executes against the  *)
(* real encoder. A command that finds no room for 15 seconds is dropped.   *)
(*                                                                         *)
(* A frame or a block of samples is known by what its copy was sized with  *)
(* (the resolution, the audio format): that is what the encoder relies on. *)
(***************************************************************************)
EXTENDS Integers, Sequences, FiniteSets

CONSTANTS
  VideoCallers,  \* threads that set the size and write frames
  AudioCallers,  \* threads that set the format and write samples
  MaxQueued,     \* MAX_QUEUED
  Sizes,         \* resolutions the program renders at
  Formats,       \* audio formats the program plays
  None,          \* no resolution, no format, no command
  MaxCalls       \* bound on the number of calls in a behaviour

ASSUME ProxyAssumption ==
  /\ IsFiniteSet(VideoCallers \union AudioCallers)
  /\ MaxQueued \in Nat \ {0}
  /\ MaxCalls \in Nat
  /\ None \notin Sizes \union Formats

Producers == VideoCallers \union AudioCallers

Command ==
  [cmd : {"SETSIZE", "WRITEFRAME"}, arg : Sizes] \union
  [cmd : {"SETAUDIOFORMAT", "WRITEAUDIOFRAME"}, arg : Formats]

NoCommand == [cmd |-> "NONE", arg |-> None]

VARIABLES
  queue,       \* queue_head .. queue_tail
  semaphore,   \* queue_semaphore
  queueExit,   \* queue_exit, an auto-reset event
  size,        \* the proxy's xRes, yRes
  wfx,         \* the proxy's copy of the audio format
  pc, call,    \* where each producer is, and its command
  runner, hand,\* where QueueRunner is, and the entry it holds
  encoder,     \* resolution and audio format of the real encoder
  life,        \* "alive", "closing" (in the destructor) or "deleted"
  calls,       \* number of calls so far
  accepted,    \* history: the commands appended
  done,        \* history: the commands executed
  lostSetup    \* history: a SETSIZE or SETAUDIOFORMAT was dropped

queueVars == <<queue, semaphore>>
proxyVars == <<size, wfx>>
callVars == <<pc, call, calls>>
runVars == <<runner, hand, encoder, done>>
endVars == <<queueExit, life>>
vars == <<queueVars, proxyVars, callVars, runVars, endVars, accepted, lostSetup>>

TypeOK ==
  /\ queue \in Seq(Command)
  /\ semaphore \in 0..MaxQueued
  /\ queueExit \in BOOLEAN /\ lostSetup \in BOOLEAN
  /\ size \in Sizes \union {None} /\ wfx \in Formats \union {None}
  /\ pc \in [Producers -> {"idle", "waiting", "granted", "returning"}]
  /\ call \in [Producers -> Command \union {NoCommand}]
  /\ runner \in {"wait", "pop", "release", "execute", "drain", "drainRelease", "ended"}
  /\ hand \in Command \union {NoCommand}
  /\ encoder \in [size : Sizes \union {None}, format : Formats \union {None}]
  /\ life \in {"alive", "closing", "deleted"}
  /\ calls \in 0..MaxCalls
  /\ accepted \in Seq(Command) /\ done \in Seq(Command)

Init ==
  /\ queue = <<>> /\ semaphore = MaxQueued
  /\ queueExit = FALSE /\ life = "alive"
  /\ size = None /\ wfx = None
  /\ pc = [p \in Producers |-> "idle"]
  /\ call = [p \in Producers |-> NoCommand]
  /\ calls = 0
  /\ runner = "wait" /\ hand = NoCommand
  /\ encoder = [size |-> None, format |-> None]
  /\ accepted = <<>> /\ done = <<>>
  /\ lostSetup = FALSE

-----------------------------------------------------------------------------
(* The program's threads. *)

\* A public method creates its entry, with the copy of the data, and waits for
\* the semaphore.
Call(p, c) ==
  /\ life = "alive"
  /\ calls < MaxCalls
  /\ pc[p] = "idle"
  /\ pc' = [pc EXCEPT ![p] = "waiting"]
  /\ call' = [call EXCEPT ![p] = c]
  /\ calls' = calls + 1
  /\ UNCHANGED <<queueVars, proxyVars, runVars, endVars, accepted, lostSetup>>

SetSize(p) == \E s \in Sizes : Call(p, [cmd |-> "SETSIZE", arg |-> s])

\* Without a resolution nothing is queued.
WriteFrame(p) == size # None /\ Call(p, [cmd |-> "WRITEFRAME", arg |-> size])

SetAudioFormat(p) == \E f \in Formats : Call(p, [cmd |-> "SETAUDIOFORMAT", arg |-> f])

\* The sound code writes samples only after it has set a format.
WriteAudioFrame(p) == wfx # None /\ Call(p, [cmd |-> "WRITEAUDIOFRAME", arg |-> wfx])

AcquireSlot(p) ==
  /\ pc[p] = "waiting"
  /\ semaphore > 0
  /\ semaphore' = semaphore - 1
  /\ pc' = [pc EXCEPT ![p] = "granted"]
  /\ UNCHANGED <<queue, proxyVars, call, calls, runVars, endVars, accepted, lostSetup>>

\* No room for 15 seconds: the entry is deleted and the command forgotten.
DropCommand(p) ==
  /\ pc[p] = "waiting"
  /\ semaphore = 0
  /\ pc' = [pc EXCEPT ![p] = "returning"]
  /\ lostSetup' = (lostSetup \/ call[p].cmd \in {"SETSIZE", "SETAUDIOFORMAT"})
  /\ UNCHANGED <<queueVars, proxyVars, call, calls, runVars, endVars, accepted>>

\* Mutant: the entry is linked in at the head.
QueueAppendAtHead(p) ==
  /\ pc[p] = "granted"
  /\ queue' = <<call[p]>> \o queue
  /\ accepted' = Append(accepted, call[p])
  /\ pc' = [pc EXCEPT ![p] = "returning"]
  /\ UNCHANGED <<semaphore, proxyVars, call, calls, runVars, endVars, lostSetup>>

\* Under queue_lock.
QueueAppend(p) ==
  /\ pc[p] = "granted"
  /\ queue' = Append(queue, call[p])
  /\ accepted' = Append(accepted, call[p])
  /\ pc' = [pc EXCEPT ![p] = "returning"]
  /\ UNCHANGED <<semaphore, proxyVars, call, calls, runVars, endVars, lostSetup>>

\* SetSize and SetAudioFormat remember their argument, dropped or not.
Return(p) ==
  /\ pc[p] = "returning"
  /\ pc' = [pc EXCEPT ![p] = "idle"]
  /\ call' = [call EXCEPT ![p] = NoCommand]
  /\ size' = IF call[p].cmd = "SETSIZE" THEN call[p].arg ELSE size
  /\ wfx' = IF call[p].cmd = "SETAUDIOFORMAT" THEN call[p].arg ELSE wfx
  /\ UNCHANGED <<queueVars, calls, runVars, endVars, accepted, lostSetup>>

\* The destructor. Its caller must not let anybody else use the proxy any more.
BeginDelete ==
  /\ life = "alive"
  /\ \A p \in Producers : pc[p] = "idle"
  /\ life' = "closing"
  /\ queueExit' = TRUE
  /\ UNCHANGED <<queueVars, proxyVars, callVars, runVars, accepted, lostSetup>>

\* The thread handle is signalled; the real encoder goes with the proxy.
EndDelete ==
  /\ life = "closing"
  /\ runner = "ended"
  /\ life' = "deleted"
  /\ UNCHANGED <<queueVars, proxyVars, callVars, runVars, queueExit, accepted, lostSetup>>

-----------------------------------------------------------------------------
(* QueueRunner. *)

\* Mutant: queue_exit is cleared before it is looked at.
RunnerWaitMissesExit ==
  /\ runner = "wait"
  /\ runner' = "pop"
  /\ queueExit' = FALSE
  /\ UNCHANGED <<queueVars, proxyVars, callVars, hand, encoder, done, life,
                 accepted, lostSetup>>

\* The 10 ms wait for queue_exit: it takes the event back or times out.
RunnerWait ==
  /\ runner = "wait"
  /\ runner' = IF queueExit THEN "drain" ELSE "pop"
  /\ queueExit' = FALSE
  /\ UNCHANGED <<queueVars, proxyVars, callVars, hand, encoder, done, life,
                 accepted, lostSetup>>

\* QueuePop, as far as queue_lock covers it.
QueuePop(from, found, empty) ==
  /\ runner = from
  /\ \/ /\ queue # <<>>
        /\ hand' = Head(queue)
        /\ queue' = Tail(queue)
        /\ runner' = found
     \/ /\ queue = <<>>
        /\ runner' = empty
        /\ UNCHANGED <<hand, queue>>
  /\ UNCHANGED <<semaphore, proxyVars, callVars, encoder, done, endVars, accepted,
                 lostSetup>>

Pop == QueuePop("pop", "release", "wait")

\* Mutant: ReleaseSemaphore is forgotten.
ReleaseSlotForgotten ==
  /\ runner = "release"
  /\ runner' = "execute"
  /\ UNCHANGED <<queueVars, proxyVars, callVars, hand, encoder, done, endVars, accepted,
                 lostSetup>>

ReleaseSlot ==
  /\ runner = "release"
  /\ semaphore' = semaphore + 1
  /\ runner' = "execute"
  /\ UNCHANGED <<queue, proxyVars, callVars, hand, encoder, done, endVars, accepted,
                 lostSetup>>

\* The command is carried out by the real encoder and its entry freed.
Execute ==
  /\ runner = "execute"
  /\ encoder' = CASE hand.cmd = "SETSIZE" -> [encoder EXCEPT !.size = hand.arg]
                  [] hand.cmd = "SETAUDIOFORMAT" -> [encoder EXCEPT !.format = hand.arg]
                  [] OTHER -> encoder
  /\ done' = Append(done, hand)
  /\ hand' = NoCommand
  /\ runner' = "pop"
  /\ UNCHANGED <<queueVars, proxyVars, callVars, endVars, accepted, lostSetup>>

\* On the way out the entries are freed without being executed.
DrainPop == QueuePop("drain", "drainRelease", "ended")

DrainRelease ==
  /\ runner = "drainRelease"
  /\ semaphore' = semaphore + 1
  /\ hand' = NoCommand
  /\ runner' = "drain"
  /\ UNCHANGED <<queue, proxyVars, callVars, encoder, done, endVars, accepted, lostSetup>>

-----------------------------------------------------------------------------
QueueRunner == RunnerWait \/ Pop \/ ReleaseSlot \/ Execute \/ DrainPop \/ DrainRelease

Next ==
  \/ \E p \in VideoCallers : SetSize(p) \/ WriteFrame(p)
  \/ \E p \in AudioCallers : SetAudioFormat(p) \/ WriteAudioFrame(p)
  \/ \E p \in Producers : AcquireSlot(p) \/ DropCommand(p) \/ QueueAppend(p) \/ Return(p)
  \/ BeginDelete \/ EndDelete
  \/ QueueRunner

Spec == Init /\ [][Next]_vars

\* The runner thread and the destructor are scheduled, and the real encoder's
\* calls return; nothing obliges the program to call.
FairSpec == Spec /\ WF_vars(QueueRunner) /\ WF_vars(EndDelete)

-----------------------------------------------------------------------------
(* Properties. *)

\* The semaphore counts the free places exactly: what is in the list, granted to
\* a producer or popped but not yet given back is missing from it. Otherwise the
\* list outgrows MAX_QUEUED or the producers stall for good (lines 68, 83, 104).
SlotsConserved ==
  semaphore + Len(queue)
    + Cardinality({p \in Producers : pc[p] = "granted"})
    + (IF runner \in {"release", "drainRelease"} THEN 1 ELSE 0) = MaxQueued

ProxyIsSound == TypeOK /\ SlotsConserved

\* A frame or a block of samples reaches the real encoder with the resolution or
\* the format it was copied for, as long as no SETSIZE or SETAUDIOFORMAT was
\* dropped and no second thread sets them: the encoder reads that many bytes
\* (lines 129-143, 200, 219).
CommandsFitEncoder ==
  runner = "execute" /\ ~lostSetup =>
    /\ hand.cmd = "WRITEFRAME" /\ Cardinality(VideoCallers) = 1 => hand.arg = encoder.size
    /\ hand.cmd = "WRITEAUDIOFRAME" /\ Cardinality(AudioCallers) = 1
         => hand.arg = encoder.format

\* To its callers the proxy is a FIFO of commands: executed once, in the order
\* in which they were appended, none lost but those waiting when it is deleted.
Fifo == INSTANCE EncoderFifo WITH
  Items <- Command,
  Capacity <- MaxQueued + 1,
  pending <- (IF runner \in {"release", "execute"} THEN <<hand>> ELSE <<>>) \o queue,
  delivered <- done,
  phase <- CASE life = "alive" -> "open"
             [] life = "closing" ->
                  IF accepted = done \o queue \/ runner \in {"release", "execute"}
                  THEN "closing" ELSE "discarding"
             [] life = "deleted" -> "closed"

ImplementsFifo == Fifo!Spec
=============================================================================
