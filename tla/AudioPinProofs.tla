---------------------------- MODULE AudioPinProofs ----------------------------
(***************************************************************************)
(* Theorems about the audio pin, for a ring and an allocator of any size   *)
(* and pictures and sound of any number.                                   *)
(***************************************************************************)
EXTENDS AudioPin, SequenceTheorems, TLAPS

One(p) == IF p THEN 1 ELSE 0

-----------------------------------------------------------------------------
(* The calls: what a call has left to do says how far the worker can be. *)

\* t is what is left of the steps s.
EndOf(t, s) == Len(t) <= Len(s) /\ \A i \in 1..Len(t) : t[i] = s[i + Len(s) - Len(t)]

\* The destructor's steps with a connected pin.
Teardown == <<"terminate", "wake", "decommit", "stop", "await", "exit", "await", "close", "decommit", "release">>

Steps == PushSteps \union OtherSteps

Pushing == \E step \in PushSteps : todo = <<step>>
Starting == todo # <<>> /\ EndOf(todo, Active)
Stopping == todo # <<>> /\ EndOf(todo, Teardown)
Leaving == todo \in {<<"terminate", "wake", "release">>, <<"wake", "release">>, <<"release">>}

Uncommitted == ~Committed /\ ~DecommitInProgress

UnderWay ==
  \/ todo = <<>> \/ Pushing
  \/ Starting /\ connected /\ (Len(todo) = 6 => Uncommitted) /\ (Len(todo) >= 5 => worker = "none")
  \/ Stopping /\ connected /\ (Len(todo) <= 2 => worker = "gone")
  \/ Leaving /\ ~connected

\* Without a connection there is no worker and no allocated sample.
Disconnected ==
  /\ ~connected /\ pin # "deleted" => worker = "none" /\ Uncommitted
  /\ pin = "none" => ~connected /\ todo \in {<<>>, <<"release">>}
  /\ pin = "deleted" => ~connected /\ todo = <<>> /\ worker \in {"none", "gone"}

CallInv == todo \in Seq(Steps) /\ UnderWay /\ Disconnected

(* The allocator: the references of its two owners, and where the samples are. *)

AllocInv ==
  /\ RefCount = One(connected) + One(Committed \/ DecommitInProgress)
  /\ Free + held + One(HasSample) = Samples
  /\ Uncommitted => Free = Samples
  /\ DecommitInProgress => ~Committed /\ Free < Samples
  /\ Waiting + Sem = One(worker = "semaphore")

(* The ring: the slots from the read index on hold the sound that was pushed, and
   the partial buffer what comes after it. *)

Ahead(s) == IF BufferReadPtr <= s THEN s - BufferReadPtr ELSE s - BufferReadPtr + BufferCount
InRing == Ahead(BufferWritePtr)

\* Slots the worker has taken, and slots that were filled.
Taken == delivered + One(worker \in {"signal", "copyOut"})
Written == Taken + InRing

\* Block b has the n-th whole block of the sound.
Holds(b, n) == \A i \in 0..BufferSize-1 : memory[b][i] = n * BufferSize + i + 1

\* The block being filled, and how far it is; Handing it over begins when it is full.
Filling == IF At("advance") THEN Buffers[BufferWritePtr] ELSE PartialBuffer
Filled == IF At("signal") THEN 0 ELSE PartialBufferPos
Handing == At("look") \/ At("room") \/ At("swap") \/ At("advance") \/ At("signal")

FillInv ==
  /\ pushed = Written * BufferSize + Filled
  /\ \A i \in 0..Filled-1 : memory[Filling][i] = Written * BufferSize + i + 1
  /\ IF Handing THEN PartialBufferPos = BufferSize ELSE PartialBufferPos < BufferSize
  /\ pushed + left <= MaxUnits

SlotsHold == \A s \in Slots : Ahead(s) < InRing => Holds(Buffers[s], Taken + Ahead(s))

\* The worker copies out of the slot behind the read index, which it has given back.
SourceHeld ==
  /\ worker = "advance" => source = BufferReadPtr /\ InRing > 0
  /\ worker \in {"signal", "copyOut"} => source = Pred(BufferReadPtr) /\ Holds(Buffers[source], delivered)

\* The program exchanges a slot only if the one behind it is free as well.
GapKept == At("swap") \/ At("advance") => InRing < BufferCount - 1

OwnBlocks ==
  /\ \A s \in Slots : Buffers[s] # PartialBuffer
  /\ \A s, u \in Slots : s # u => Buffers[s] # Buffers[u]

SoundInv == FillInv /\ SlotsHold /\ SourceHeld /\ GapKept /\ OwnBlocks

PinInv == TypeOK /\ CallInv /\ AllocInv /\ SoundInv

-----------------------------------------------------------------------------
\* What is left after a step.
LEMMA EndOfTail ==
  ASSUME NEW s \in Seq(Steps), NEW t \in Seq(Steps), t # <<>>, EndOf(t, s)
  PROVE  /\ Head(t) = s[1 + Len(s) - Len(t)] /\ EndOf(Tail(t), s)
         /\ Len(t) \in 1..Len(s) /\ Len(Tail(t)) = Len(t) - 1
<1>1. Len(s) \in Nat /\ Len(t) \in Nat /\ Len(t) > 0 /\ Len(t) <= Len(s)
  BY DEF EndOf
<1>2. Head(t) = t[1] /\ Len(Tail(t)) = Len(t) - 1 /\ Tail(t) \in Seq(Steps)
  BY <1>1
<1>3. \A i \in 1..Len(Tail(t)) : Tail(t)[i] = t[i + 1]
  BY <1>1
<1>4. ASSUME NEW i \in 1..Len(Tail(t))
      PROVE  Tail(t)[i] = s[i + Len(s) - Len(Tail(t))]
  <2>1. Tail(t)[i] = t[i + 1] /\ i + 1 \in 1..Len(t) /\ i \in Int
    BY <1>1, <1>2, <1>3
  <2>2. t[i + 1] = s[i + 1 + Len(s) - Len(t)]
    BY <2>1 DEF EndOf
  <2>3. i + 1 + Len(s) - Len(t) = i + Len(s) - Len(Tail(t))
    BY <1>1, <1>2, <2>1
  <2> QED
    BY <2>1, <2>2, <2>3
<1>5. t[1] = s[1 + Len(s) - Len(t)]
  BY <1>1 DEF EndOf
<1> QED
  BY <1>1, <1>2, <1>4, <1>5 DEF EndOf

\* The steps of starting the worker, by the number of them that are left.
LEMMA StartingStep ==
  ASSUME todo \in Seq(Steps), Starting
  PROVE  /\ Len(todo) \in 1..6
         /\ Head(todo) \in {"commit", "create", "init", "await", "pause"}
         /\ Head(todo) = "commit" <=> Len(todo) = 6
         /\ Head(todo) = "create" <=> Len(todo) = 5
         /\ Len(Tail(todo)) = Len(todo) - 1
         /\ Tail(todo) = <<>> \/ EndOf(Tail(todo), Active)
<1>0. Active \in Seq(Steps)
  BY DEF Active, Steps, PushSteps, OtherSteps
<1>1. /\ Len(Active) = 6
      /\ Active[1] = "commit" /\ Active[2] = "create" /\ Active[3] = "init" /\ Active[4] = "await"
      /\ Active[5] = "pause" /\ Active[6] = "await"
  BY DEF Active
<1>2. /\ Head(todo) = Active[7 - Len(todo)] /\ EndOf(Tail(todo), Active)
      /\ Len(todo) \in 1..6 /\ Len(Tail(todo)) = Len(todo) - 1
  <2>1. /\ Head(todo) = Active[1 + Len(Active) - Len(todo)] /\ EndOf(Tail(todo), Active)
        /\ Len(todo) \in 1..6 /\ Len(Tail(todo)) = Len(todo) - 1
    BY <1>0, <1>1, EndOfTail DEF Starting
  <2>2. 1 + Len(Active) - Len(todo) = 7 - Len(todo)
    BY <1>1, <2>1
  <2> QED
    BY <2>1, <2>2
<1>3. ASSUME NEW n \in Int, NEW h, h = Active[7 - n]
      PROVE  /\ n = 6 => h = "commit"
             /\ n = 5 => h = "create"
             /\ n = 4 => h = "init"
             /\ n = 3 => h = "await"
             /\ n = 2 => h = "pause"
             /\ n = 1 => h = "await"
  BY <1>1, <1>3
<1>4. ASSUME NEW n \in 1..6, NEW h, h = Active[7 - n]
      PROVE  /\ h \in {"commit", "create", "init", "await", "pause"}
             /\ h = "commit" <=> n = 6
             /\ h = "create" <=> n = 5
  <2>1. n \in {1, 2, 3, 4, 5, 6}
    OBVIOUS
  <2> QED
    BY <1>3, <1>4, <2>1
<1> QED
  BY <1>2, <1>4

\* The same for stopping it.
LEMMA StoppingStep ==
  ASSUME todo \in Seq(Steps), Stopping
  PROVE  /\ Len(todo) \in 1..10
         /\ Head(todo) \in {"terminate", "wake", "decommit", "stop", "await", "exit", "close", "release"}
         /\ Head(todo) = "close" <=> Len(todo) = 3
         /\ Head(todo) = "release" <=> Len(todo) = 1
         /\ Len(Tail(todo)) = Len(todo) - 1
         /\ Tail(todo) = <<>> \/ EndOf(Tail(todo), Teardown)
<1>0. Teardown \in Seq(Steps)
  BY DEF Teardown, Steps, PushSteps, OtherSteps
<1>1. /\ Len(Teardown) = 10
      /\ Teardown[1] = "terminate" /\ Teardown[2] = "wake" /\ Teardown[3] = "decommit"
      /\ Teardown[4] = "stop" /\ Teardown[5] = "await" /\ Teardown[6] = "exit" /\ Teardown[7] = "await"
      /\ Teardown[8] = "close" /\ Teardown[9] = "decommit" /\ Teardown[10] = "release"
  BY DEF Teardown
<1>2. /\ Head(todo) = Teardown[11 - Len(todo)] /\ EndOf(Tail(todo), Teardown)
      /\ Len(todo) \in 1..10 /\ Len(Tail(todo)) = Len(todo) - 1
  <2>1. /\ Head(todo) = Teardown[1 + Len(Teardown) - Len(todo)] /\ EndOf(Tail(todo), Teardown)
        /\ Len(todo) \in 1..10 /\ Len(Tail(todo)) = Len(todo) - 1
    BY <1>0, <1>1, EndOfTail DEF Stopping
  <2>2. 1 + Len(Teardown) - Len(todo) = 11 - Len(todo)
    BY <1>1, <2>1
  <2> QED
    BY <2>1, <2>2
<1>3. ASSUME NEW n \in Int, NEW h, h = Teardown[11 - n]
      PROVE  /\ n = 10 => h = "terminate"
             /\ n = 9 => h = "wake"
             /\ n = 8 => h = "decommit"
             /\ n = 7 => h = "stop"
             /\ n = 6 => h = "await"
             /\ n = 5 => h = "exit"
             /\ n = 4 => h = "await"
             /\ n = 3 => h = "close"
             /\ n = 2 => h = "decommit"
             /\ n = 1 => h = "release"
  BY <1>1, <1>3
<1>4. ASSUME NEW n \in 1..10, NEW h, h = Teardown[11 - n]
      PROVE  /\ h \in {"terminate", "wake", "decommit", "stop", "await", "exit", "close", "release"}
             /\ h = "close" <=> n = 3
             /\ h = "release" <=> n = 1
  <2>1. n \in {1, 2, 3, 4, 5, 6, 7, 8, 9, 10}
    OBVIOUS
  <2> QED
    BY <1>3, <1>4, <2>1
<1> QED
  BY <1>2, <1>4

LEMMA LeavingStep ==
  ASSUME todo \in Seq(Steps), Leaving
  PROVE  /\ todo # <<>> /\ Head(todo) \in {"terminate", "wake", "release"}
         /\ Head(todo) = "release" => Tail(todo) = <<>>
         /\ Head(todo) # "release" => Tail(todo) \in {<<"wake", "release">>, <<"release">>}
<1>1. CASE todo = <<"terminate", "wake", "release">>
  BY <1>1
<1>2. CASE todo = <<"wake", "release">>
  BY <1>2
<1>3. CASE todo = <<"release">>
  BY <1>3
<1> QED
  BY <1>1, <1>2, <1>3 DEF Leaving

\* Two sequences one after the other, element by element.
LEMMA OneAfterTheOther ==
  ASSUME NEW s \in Seq(Steps), NEW t \in Seq(Steps), NEW u \in Seq(Steps), Len(u) = Len(s) + Len(t),
         \A i \in 1..Len(s) : u[i] = s[i],
         \A i \in 1..Len(t) : u[Len(s) + i] = t[i]
  PROVE  s \o t = u
<1>1. /\ s \o t \in Seq(Steps) /\ Len(s \o t) = Len(u)
      /\ \A i \in 1..Len(s \o t) : (s \o t)[i] = IF i <= Len(s) THEN s[i] ELSE t[i - Len(s)]
  BY ConcatProperties
<1>2. ASSUME NEW i \in 1..Len(s \o t) PROVE (s \o t)[i] = u[i]
  <2>1. CASE i <= Len(s)
    BY <1>1, <2>1
  <2>2. CASE i > Len(s)
    <3>1. i - Len(s) \in 1..Len(t) /\ Len(s) + (i - Len(s)) = i
      BY <1>1, <2>2
    <3> QED
      BY <1>1, <2>2, <3>1
  <2> QED
    BY <2>1, <2>2
<1> QED
  BY <1>1, <1>2, SeqEqual

\* The destructor's steps, with and without a connection.
LEMMA TeardownIs ==
  /\ (<<"terminate", "wake">> \o (Inactive \o <<"decommit">>)) \o <<"release">> = Teardown
  /\ (<<"terminate", "wake">> \o <<>>) \o <<"release">> = <<"terminate", "wake", "release">>
  /\ (<<>> \o <<>>) \o <<"release">> = <<"release">>
<1> DEFINE begin == <<"terminate", "wake">>
           again == <<"decommit">>
           last == <<"release">>
           middle == <<"decommit", "stop", "await", "exit", "await", "close", "decommit">>
           most == <<"terminate", "wake", "decommit", "stop", "await", "exit", "await", "close", "decommit">>
           short == <<"terminate", "wake", "release">>
<1>1. /\ begin \in Seq(Steps) /\ again \in Seq(Steps) /\ last \in Seq(Steps) /\ middle \in Seq(Steps)
      /\ most \in Seq(Steps) /\ short \in Seq(Steps)
  BY DEF Steps, PushSteps, OtherSteps
<1>2. Teardown \in Seq(Steps) /\ Inactive \in Seq(Steps)
  BY DEF Steps, PushSteps, OtherSteps, Teardown, Inactive
<1>3. /\ Len(begin) = 2 /\ Len(again) = 1 /\ Len(last) = 1 /\ Len(middle) = 7 /\ Len(most) = 9
      /\ Len(short) = 3 /\ Len(Inactive) = 6 /\ Len(Teardown) = 10
  BY DEF Inactive, Teardown
<1>4. /\ \A i \in 1..6 : middle[i] = Inactive[i]
      /\ \A i \in 1..1 : middle[6 + i] = again[i]
  BY DEF Inactive
<1>5. /\ \A i \in 1..2 : most[i] = begin[i]
      /\ \A i \in 1..7 : most[2 + i] = middle[i]
  OBVIOUS
<1>6. /\ \A i \in 1..9 : Teardown[i] = most[i]
      /\ \A i \in 1..1 : Teardown[9 + i] = last[i]
  BY DEF Teardown
<1>7. /\ \A i \in 1..2 : short[i] = begin[i]
      /\ \A i \in 1..1 : short[2 + i] = last[i]
  OBVIOUS
<1> HIDE DEF begin, again, last, middle, most, short
<1>8. Inactive \o again = middle
  <2>1. Len(Inactive) = 6 /\ Len(again) = 1 /\ Len(middle) = 7
    BY <1>3
  <2>2. /\ Len(middle) = Len(Inactive) + Len(again)
        /\ \A i \in 1..Len(Inactive) : middle[i] = Inactive[i]
        /\ \A i \in 1..Len(again) : middle[Len(Inactive) + i] = again[i]
    BY <1>4, <2>1
  <2>3. Inactive \in Seq(Steps) /\ again \in Seq(Steps) /\ middle \in Seq(Steps)
    BY <1>1, <1>2
  <2> QED
    BY <2>2, <2>3, OneAfterTheOther
<1>9. begin \o middle = most
  <2>1. Len(begin) = 2 /\ Len(middle) = 7 /\ Len(most) = 9
    BY <1>3
  <2>2. /\ Len(most) = Len(begin) + Len(middle)
        /\ \A i \in 1..Len(begin) : most[i] = begin[i]
        /\ \A i \in 1..Len(middle) : most[Len(begin) + i] = middle[i]
    BY <1>5, <2>1
  <2>3. begin \in Seq(Steps) /\ middle \in Seq(Steps) /\ most \in Seq(Steps)
    BY <1>1, <1>2
  <2> QED
    BY <2>2, <2>3, OneAfterTheOther
<1>10. most \o last = Teardown
  <2>1. Len(most) = 9 /\ Len(last) = 1 /\ Len(Teardown) = 10
    BY <1>3
  <2>2. /\ Len(Teardown) = Len(most) + Len(last)
        /\ \A i \in 1..Len(most) : Teardown[i] = most[i]
        /\ \A i \in 1..Len(last) : Teardown[Len(most) + i] = last[i]
    BY <1>6, <2>1
  <2>3. most \in Seq(Steps) /\ last \in Seq(Steps) /\ Teardown \in Seq(Steps)
    BY <1>1, <1>2
  <2> QED
    BY <2>2, <2>3, OneAfterTheOther
<1>11. begin \o last = short
  <2>1. Len(begin) = 2 /\ Len(last) = 1 /\ Len(short) = 3
    BY <1>3
  <2>2. /\ Len(short) = Len(begin) + Len(last)
        /\ \A i \in 1..Len(begin) : short[i] = begin[i]
        /\ \A i \in 1..Len(last) : short[Len(begin) + i] = last[i]
    BY <1>7, <2>1
  <2>3. begin \in Seq(Steps) /\ last \in Seq(Steps) /\ short \in Seq(Steps)
    BY <1>1, <1>2
  <2> QED
    BY <2>2, <2>3, OneAfterTheOther
<1>12. begin \o <<>> = begin /\ (<<>> \o <<>>) \o last = last
  BY <1>1, ConcatEmptySeq
<1> QED
  BY <1>8, <1>9, <1>10, <1>11, <1>12 DEF begin, again, last, short

-----------------------------------------------------------------------------
(* Every step keeps CallInv. *)

\* A step that only takes itself off the call.
LEMMA CallGoesOn ==
  ASSUME CallInv, ~Pushing, todo # <<>>, Continue(<<>>), UNCHANGED <<pin, connected>>,
         Head(todo) # "release", Head(todo) = "close" => worker = "gone",
         Head(todo) = "create" \/ worker' = worker,
         ~connected /\ pin # "deleted" => worker' = "none" /\ Uncommitted'
  PROVE  CallInv'
<1>1. todo \in Seq(Steps) /\ todo' = Tail(todo) /\ todo' \in Seq(Steps)
  BY DEF CallInv, Continue
<1>2. Disconnected'
  <2>1. pin # "none" /\ pin # "deleted"
    BY DEF CallInv, Disconnected
  <2> QED
    BY <2>1 DEF CallInv, Disconnected, Uncommitted
<1>3. ASSUME Starting, connected, Len(todo) >= 5 => worker = "none"
      PROVE  UnderWay'
  <2>1. /\ Len(todo) \in 1..6 /\ (Head(todo) = "create" <=> Len(todo) = 5)
        /\ Len(todo') = Len(todo) - 1 /\ (todo' = <<>> \/ EndOf(todo', Active))
    BY <1>1, <1>3, StartingStep
  <2>2. Len(todo') # 6 /\ (Len(todo') >= 5 => worker' = "none")
    BY <1>3, <2>1
  <2> QED
    BY <1>3, <2>1, <2>2 DEF UnderWay, Starting
<1>4. ASSUME Stopping, connected, Len(todo) <= 2 => worker = "gone"
      PROVE  UnderWay'
  <2>1. /\ Len(todo) \in 1..10 /\ (Head(todo) = "close" <=> Len(todo) = 3)
        /\ Head(todo) # "create"
        /\ Len(todo') = Len(todo) - 1 /\ (todo' = <<>> \/ EndOf(todo', Teardown))
    BY <1>1, <1>4, StoppingStep
  <2>2. Len(todo') <= 2 => worker' = "gone"
    BY <1>4, <2>1
  <2> QED
    BY <1>4, <2>1, <2>2 DEF UnderWay, Stopping
<1>5. ASSUME Leaving, ~connected
      PROVE  UnderWay'
  BY <1>1, <1>5, LeavingStep DEF UnderWay, Leaving
<1>6. UnderWay'
  BY <1>3, <1>4, <1>5 DEF CallInv, UnderWay
<1> QED
  BY <1>1, <1>2, <1>6 DEF CallInv

\* A step of PushData is the last of its call, or replaced by another one.
LEMMA PushIsPushing ==
  ASSUME CallInv, todo # <<>>, Head(todo) \in PushSteps
  PROVE  Pushing /\ Tail(todo) = <<>> /\ pin # "none" /\ pin # "deleted"
<1>1. todo \in Seq(Steps)
  BY DEF CallInv
<1>2. ~Starting /\ ~Stopping
  BY <1>1, StartingStep, StoppingStep DEF PushSteps
<1>3. ~Leaving
  BY <1>1, LeavingStep DEF PushSteps
<1>4. PICK step \in PushSteps : todo = <<step>>
  BY <1>2, <1>3 DEF CallInv, UnderWay, Pushing
<1>5. pin # "none" /\ pin # "deleted"
  <2>1. todo # <<"release">>
    BY <1>4 DEF PushSteps
  <2> QED
    BY <2>1 DEF CallInv, Disconnected
<1> QED
  BY <1>4, <1>5 DEF Pushing

LEMMA PushGoesOn ==
  ASSUME CallInv, todo # <<>>, Head(todo) \in PushSteps,
         UNCHANGED <<pin, connected, worker, Committed, DecommitInProgress>>,
         \/ Continue(<<>>)
         \/ \E step \in PushSteps : Continue(<<step>>)
  PROVE  CallInv'
<1>1. Pushing /\ Tail(todo) = <<>> /\ pin # "none" /\ pin # "deleted"
  BY PushIsPushing
<1>2. CASE Continue(<<>>)
  <2>1. todo' = <<>>
    BY <1>1, <1>2 DEF Continue
  <2> QED
    BY <1>1, <2>1 DEF CallInv, UnderWay, Disconnected, Uncommitted
<1>3. ASSUME NEW step \in PushSteps, Continue(<<step>>)
      PROVE  CallInv'
  <2>1. todo' = <<step>>
    <3>1. <<step>> \in Seq(Steps)
      BY DEF Steps
    <3> QED
      BY <1>1, <1>3, <3>1, ConcatEmptySeq DEF Continue
  <2>2. todo' \in Seq(Steps) /\ Pushing'
    BY <2>1 DEF Steps, Pushing
  <2> QED
    BY <1>1, <2>2 DEF CallInv, UnderWay, Disconnected, Uncommitted
<1> QED
  BY <1>2, <1>3

\* A step of the worker or of the multiplexer.
LEMMA CallStays ==
  ASSUME CallInv, UNCHANGED <<todo, pin, connected>>,
         worker \notin {"none", "gone"} \/ worker' = worker,
         Uncommitted => Uncommitted'
  PROVE  CallInv'
<1>1. worker = "none" => worker' = "none"
  OBVIOUS
<1>2. worker = "gone" => worker' = "gone"
  OBVIOUS
<1>3. Disconnected'
  BY <1>1, <1>2 DEF CallInv, Disconnected
<1>4. UnderWay'
  BY <1>1, <1>2 DEF CallInv, UnderWay, Pushing, Starting, Stopping, Leaving
<1> QED
  BY <1>3, <1>4 DEF CallInv

\* The calls of the encoder.
LEMMA CallBegins ==
  ASSUME TypeOK, CallInv, WriteFrame \/ SetAudioFormat \/ Delete \/ \E n \in 1..MaxPush : WriteAudioFrame(n)
  PROVE  CallInv'
<1>0. todo = <<>> /\ pin # "deleted" /\ pin' # "deleted" /\ worker' = worker
  <2>1. todo = <<>> /\ pin # "deleted" /\ worker' = worker
    BY DEF WriteFrame, SetAudioFormat, Delete, WriteAudioFrame, Push, Idle, stream
  <2>2. pin' # "deleted"
    BY <2>1 DEF WriteFrame, SetAudioFormat, Delete, WriteAudioFrame, Push, Idle, encoder
  <2> QED
    BY <2>1, <2>2
<1>1. CASE WriteFrame
  <2>1. CASE pin = "none"
    <3>1. worker = "none" /\ Uncommitted /\ Uncommitted' /\ pin' = "alive"
      BY <1>0, <1>1, <2>1 DEF CallInv, Disconnected, Uncommitted, WriteFrame
    <3>2. CASE connected'
      <4>1. todo' = Active
        BY <1>1, <2>1, <3>2 DEF WriteFrame
      <4>2. todo' \in Seq(Steps) /\ todo' # <<>> /\ Len(todo') = 6
        BY <4>1 DEF Active, Steps, PushSteps, OtherSteps
      <4>3. EndOf(todo', Active)
        BY <4>1, <4>2 DEF EndOf
      <4> QED
        BY <1>0, <3>1, <3>2, <4>2, <4>3 DEF CallInv, UnderWay, Starting, Disconnected
    <3>3. CASE ~connected'
      <4>1. todo' = <<>>
        BY <1>1, <2>1, <3>3 DEF WriteFrame
      <4> QED
        BY <1>0, <3>1, <3>3, <4>1 DEF CallInv, UnderWay, Disconnected
    <3> QED
      BY <3>2, <3>3
  <2>2. CASE pin # "none"
    <3>1. UNCHANGED <<todo, pin, connected, Committed, DecommitInProgress>>
      BY <1>1, <2>2 DEF WriteFrame
    <3> QED
      BY <1>0, <3>1, CallStays DEF Uncommitted
  <2> QED
    BY <2>1, <2>2
<1>2. CASE SetAudioFormat \/ \E n \in 1..MaxPush : WriteAudioFrame(n)
  <2>1. UNCHANGED <<pin, connected, Committed, DecommitInProgress>>
    BY <1>2 DEF SetAudioFormat, WriteAudioFrame, Push, allocator
  <2>2. /\ todo' \in {<<>>, <<"copy">>}
        /\ pin = "none" => todo' = <<>>
    BY <1>2 DEF SetAudioFormat, WriteAudioFrame, Push
  <2>3. todo' \in Seq(Steps) /\ (todo' = <<>> \/ Pushing')
    <3>1. CASE todo' = <<>>
      BY <3>1
    <3>2. CASE todo' = <<"copy">>
      <4>1. "copy" \in PushSteps /\ "copy" \in Steps
        BY DEF Steps, PushSteps
      <4> QED
        BY <3>2, <4>1 DEF Pushing
    <3> QED
      BY <2>2, <3>1, <3>2
  <2> QED
    BY <1>0, <2>1, <2>2, <2>3 DEF CallInv, UnderWay, Disconnected, Uncommitted
<1>3. CASE Delete
  <2>1. UNCHANGED <<pin, connected, Committed, DecommitInProgress>>
    BY <1>3 DEF Delete, encoder, allocator
  <2>2. CASE connected
    <3>1. pin # "none" /\ pin # "deleted"
      BY <2>2 DEF CallInv, Disconnected
    <3>2. CASE pin = "alive"
      <4>1. todo' = Teardown
        BY <1>3, <2>2, <3>2, TeardownIs DEF Delete
      <4>2. todo' \in Seq(Steps) /\ todo' # <<>> /\ Len(todo') = 10
        BY <4>1 DEF Teardown, Steps, PushSteps, OtherSteps
      <4>3. EndOf(todo', Teardown)
        BY <4>1, <4>2 DEF EndOf
      <4> QED
        BY <1>0, <2>1, <2>2, <3>1, <4>2, <4>3 DEF CallInv, UnderWay, Stopping, Disconnected
    <3> QED
      BY <3>1, <3>2 DEF TypeOK
  <2>3. CASE ~connected
    <3>1. /\ todo' \in {<<"terminate", "wake", "release">>, <<"release">>}
          /\ pin = "none" => todo' = <<"release">>
      BY <1>3, <2>3, TeardownIs DEF Delete
    <3>2. todo' \in Seq(Steps) /\ Leaving'
      <4>1. Leaving'
        BY <3>1 DEF Leaving
      <4>2. {"terminate", "wake", "release"} \subseteq Steps
        BY DEF Steps, OtherSteps
      <4>3. CASE todo' = <<"terminate", "wake", "release">>
        BY <4>1, <4>2, <4>3
      <4>4. CASE todo' = <<"release">>
        BY <4>1, <4>2, <4>4
      <4> QED
        BY <3>1, <4>3, <4>4
    <3> QED
      BY <1>0, <2>1, <2>3, <3>1, <3>2 DEF CallInv, UnderWay, Disconnected, Uncommitted
  <2> QED
    BY <2>2, <2>3
<1> QED
  BY <1>1, <1>2, <1>3

\* The heads of what is left to do, by the kind of call.
LEMMA OwnStep ==
  ASSUME CallInv, todo # <<>>, Head(todo) \in OtherSteps
  PROVE  /\ ~Pushing /\ pin # "deleted"
         /\ Head(todo) \in {"commit", "create"} => connected /\ worker = "none"
         /\ Head(todo) = "commit" => Uncommitted
         /\ Head(todo) \notin {"terminate", "wake", "release"} => connected
         /\ Head(todo) = "release" => Tail(todo) = <<>> /\ (connected => worker = "gone")
<1>1. todo \in Seq(Steps) /\ pin # "deleted"
  BY DEF CallInv, Disconnected
<1>2. ~Pushing
  BY DEF Pushing, PushSteps, OtherSteps
<1>3. ASSUME Starting, connected, Len(todo) = 6 => Uncommitted, Len(todo) >= 5 => worker = "none"
      PROVE  /\ Head(todo) \in {"commit", "create"} => worker = "none"
             /\ Head(todo) = "commit" => Uncommitted
             /\ Head(todo) # "release"
  <2>1. /\ Len(todo) \in 1..6 /\ (Head(todo) = "create" <=> Len(todo) = 5)
        /\ (Head(todo) = "commit" <=> Len(todo) = 6) /\ Head(todo) # "release"
    <3>1. /\ Len(todo) \in 1..6
          /\ Head(todo) \in {"commit", "create", "init", "await", "pause"}
          /\ (Head(todo) = "create" <=> Len(todo) = 5) /\ (Head(todo) = "commit" <=> Len(todo) = 6)
      BY <1>1, <1>3, StartingStep
    <3> QED
      BY <3>1
  <2> QED
    BY <1>3, <2>1
<1>4. ASSUME Stopping, connected, Len(todo) <= 2 => worker = "gone"
      PROVE  /\ Head(todo) \notin {"commit", "create"}
             /\ Head(todo) = "release" => Tail(todo) = <<>> /\ worker = "gone"
  <2>1. /\ Len(todo) \in 1..10 /\ (Head(todo) = "release" <=> Len(todo) = 1)
        /\ Head(todo) \notin {"commit", "create"} /\ Len(Tail(todo)) = Len(todo) - 1
    <3>1. /\ Len(todo) \in 1..10 /\ (Head(todo) = "release" <=> Len(todo) = 1)
          /\ Head(todo) \in {"terminate", "wake", "decommit", "stop", "await", "exit", "close", "release"}
          /\ Len(Tail(todo)) = Len(todo) - 1
      BY <1>1, <1>4, StoppingStep
    <3> QED
      BY <3>1
  <2>2. Head(todo) = "release" => Tail(todo) = <<>>
    <3>1. Tail(todo) \in Seq(Steps)
      BY <1>1
    <3>2. Len(Tail(todo)) = 0 => Tail(todo) = <<>>
      BY <3>1, EmptySeq
    <3> QED
      BY <2>1, <3>2
  <2> QED
    BY <1>4, <2>1, <2>2
<1>5. ASSUME Leaving, ~connected
      PROVE  /\ Head(todo) \in {"terminate", "wake", "release"}
             /\ Head(todo) = "release" => Tail(todo) = <<>>
  BY <1>1, <1>5, LeavingStep
<1>6. \/ Starting /\ connected /\ (Len(todo) = 6 => Uncommitted) /\ (Len(todo) >= 5 => worker = "none")
      \/ Stopping /\ connected /\ (Len(todo) <= 2 => worker = "gone")
      \/ Leaving /\ ~connected
  BY <1>2 DEF CallInv, UnderWay
<1> QED
  BY <1>1, <1>2, <1>3, <1>4, <1>5, <1>6

\* The steps of the calls.
LEMMA CallStep ==
  ASSUME TypeOK, CallInv, App
  PROVE  CallInv'
<1> USE DEF OtherSteps, PushSteps
<1>1. CASE CopyIn \/ LookForRoom \/ WaitForRoom \/ Swap \/ AdvanceWrite \/ SignalWrite
  <2>1. todo # <<>> /\ Head(todo) \in PushSteps
    BY <1>1 DEF CopyIn, LookForRoom, WaitForRoom, Swap, AdvanceWrite, SignalWrite, At
  <2>2. UNCHANGED <<pin, connected, worker, Committed, DecommitInProgress>>
    BY <1>1 DEF CopyIn, LookForRoom, WaitForRoom, Swap, AdvanceWrite, SignalWrite, encoder, allocator, stream
  <2>3. Continue(<<>>) \/ \E step \in PushSteps : Continue(<<step>>)
    <3>1. CASE CopyIn
      BY <3>1 DEF CopyIn
    <3>2. CASE LookForRoom
      BY <3>2 DEF LookForRoom
    <3>3. CASE WaitForRoom \/ Swap \/ AdvanceWrite
      BY <3>3 DEF WaitForRoom, Swap, AdvanceWrite
    <3>4. CASE SignalWrite
      BY <3>4 DEF SignalWrite
    <3> QED
      BY <1>1, <3>1, <3>2, <3>3, <3>4
  <2> QED
    BY <2>1, <2>2, <2>3, PushGoesOn
<1>2. CASE Terminate \/ CallWorker \/ AwaitReply \/ Close \/ Decommit
  <2>1. /\ todo # <<>> /\ Head(todo) \in OtherSteps \ {"release", "create"}
        /\ Head(todo) = "close" => worker = "gone"
        /\ Continue(<<>>) /\ UNCHANGED <<pin, connected, worker>>
    BY <1>2 DEF Terminate, CallWorker, AwaitReply, Close, Decommit, At, WorkerAt, encoder, stream
  <2>2. Uncommitted => Uncommitted'
    BY <1>2 DEF Terminate, CallWorker, AwaitReply, Close, Decommit, Uncommitted, allocator
  <2>3. ~connected /\ pin # "deleted" => worker' = "none" /\ Uncommitted'
    BY <2>1, <2>2 DEF CallInv, Disconnected
  <2> QED
    BY <2>1, <2>3, OwnStep, CallGoesOn
<1>3. CASE Create
  <2>1. /\ todo # <<>> /\ Head(todo) = "create" /\ Continue(<<>>) /\ UNCHANGED <<pin, connected>>
    BY <1>3 DEF Create, At, encoder
  <2> QED
    BY <2>1, OwnStep, CallGoesOn
<1>4. CASE Commit
  <2>1. /\ todo # <<>> /\ Head(todo) = "commit" /\ Continue(<<>>) /\ UNCHANGED <<pin, connected, worker>>
    BY <1>4 DEF Commit, At, encoder, stream
  <2> QED
    BY <2>1, OwnStep, CallGoesOn
<1>5. CASE ReleasePin
  <2>1. /\ todo # <<>> /\ Head(todo) = "release" /\ todo' = <<>> \o Tail(todo)
        /\ pin' = "deleted" /\ connected' = FALSE /\ worker' = worker
    BY <1>5 DEF ReleasePin, At, Continue, stream
  <2>2. Tail(todo) = <<>> /\ (connected => worker = "gone") /\ pin # "deleted"
    BY <2>1, OwnStep
  <2>3. todo' = <<>>
    BY <2>1, <2>2
  <2>4. worker' \in {"none", "gone"}
    BY <2>1, <2>2 DEF CallInv, Disconnected
  <2> QED
    BY <2>1, <2>3, <2>4 DEF CallInv, UnderWay, Disconnected
<1> QED
  BY <1>1, <1>2, <1>3, <1>4, <1>5 DEF App

\* The steps of the worker, which there must be, and of the multiplexer.
LEMMA WorkerStep ==
  ASSUME CallInv, Worker \/ MuxReleases
  PROVE  CallInv'
<1>1. CASE Worker
  <2>1. UNCHANGED <<todo, pin, connected>> /\ worker \notin {"none", "gone"}
    BY <1>1 DEF Worker, GetRequest, Reply, CheckRequest, GetBuffer, WaitForSample, TestTerminating, LookForSound,
       WaitForSound, AdvanceRead, CopyOut, Deliver, ReleaseSample, WorkerAt, Elsewhere, encoder, app
  <2>2. UNCHANGED Committed /\ (DecommitInProgress' => DecommitInProgress)
    BY <1>1 DEF Worker, GetRequest, Reply, CheckRequest, GetBuffer, WaitForSample, TestTerminating, LookForSound,
       WaitForSound, AdvanceRead, CopyOut, Deliver, ReleaseSample, ReleaseBuffer, allocator
  <2> QED
    BY <2>1, <2>2, CallStays DEF Uncommitted
<1>2. CASE MuxReleases
  <2>1. UNCHANGED <<todo, pin, connected, worker>>
    BY <1>2 DEF MuxReleases, Elsewhere, encoder, app, stream
  <2>2. UNCHANGED Committed /\ (DecommitInProgress' => DecommitInProgress)
    BY <1>2 DEF MuxReleases, ReleaseBuffer, allocator
  <2> QED
    BY <2>1, <2>2, CallStays DEF Uncommitted
<1> QED
  BY <1>1, <1>2

-----------------------------------------------------------------------------
(* Every step keeps AllocInv. *)

AllocTypes ==
  /\ Free \in Nat /\ held \in Nat /\ Waiting \in Nat /\ Sem \in Nat /\ RefCount \in Int
  /\ Committed \in BOOLEAN /\ DecommitInProgress \in BOOLEAN /\ connected \in BOOLEAN /\ Samples \in Nat

LEMMA AllocatorTypes == TypeOK => AllocTypes
<1>1. Samples \in Nat
  BY AudioPinAssumption
<1>2. TypeOK => /\ {Free, held, Waiting, Sem} \subseteq Nat /\ RefCount \in Int
                /\ {Committed, DecommitInProgress, connected} \subseteq BOOLEAN
  BY <1>1 DEF TypeOK
<1> QED
  BY <1>1, <1>2 DEF AllocTypes

\* A step that is not the allocator's.
LEMMA AllocStays ==
  ASSUME AllocInv, UNCHANGED <<allocator, held, connected>>,
         worker' = worker \/ (~HasSample /\ ~HasSample' /\ worker # "semaphore" /\ worker' # "semaphore")
                         \/ (HasSample /\ HasSample')
  PROVE  AllocInv'
<1>1. HasSample' = HasSample /\ (worker' = "semaphore") = (worker = "semaphore")
  BY DEF HasSample
<1> QED
  BY <1>1 DEF AllocInv, allocator, Uncommitted, One

LEMMA CallKeepsAlloc ==
  ASSUME TypeOK, CallInv, AllocInv,
         WriteFrame \/ SetAudioFormat \/ Delete \/ (\E n \in 1..MaxPush : WriteAudioFrame(n)) \/ App
  PROVE  AllocInv'
<1>0. AllocTypes
  BY AllocatorTypes
<1>1. CASE \/ CopyIn \/ LookForRoom \/ WaitForRoom \/ Swap \/ AdvanceWrite \/ SignalWrite \/ Terminate
           \/ CallWorker \/ AwaitReply \/ Close
           \/ SetAudioFormat \/ Delete \/ \E n \in 1..MaxPush : WriteAudioFrame(n)
  <2>1. UNCHANGED <<allocator, held, connected, worker>>
    BY <1>1 DEF CopyIn, LookForRoom, WaitForRoom, Swap, AdvanceWrite, SignalWrite, Terminate, CallWorker,
       AwaitReply, Close, SetAudioFormat, Delete, WriteAudioFrame, Push, allocator, mux, encoder, stream
  <2> QED
    BY <2>1, AllocStays
<1>2. CASE Create
  <2>1. todo # <<>> /\ Head(todo) = "create"
    BY <1>2 DEF Create, At
  <2>2. worker = "none"
    BY <2>1, OwnStep DEF OtherSteps
  <2>3. worker' = "request" /\ UNCHANGED <<allocator, held, connected>>
    BY <1>2 DEF Create, mux, encoder
  <2> QED
    BY <2>2, <2>3, AllocStays DEF HasSample
<1>3. CASE WriteFrame
  <2>1. UNCHANGED <<Committed, DecommitInProgress, Free, Waiting, Sem, held, worker>>
    BY <1>3 DEF WriteFrame, mux, stream
  <2>2. CASE pin = "none"
    <3>1. ~connected /\ Uncommitted
      BY <2>2 DEF CallInv, Disconnected
    <3>2. connected' \in BOOLEAN /\ RefCount' = One(connected')
      BY <1>3, <2>2 DEF WriteFrame, One
    <3> QED
      BY <2>1, <3>1, <3>2 DEF AllocInv, Uncommitted, One, HasSample
  <2>3. CASE pin # "none"
    <3>1. UNCHANGED <<connected, RefCount>>
      BY <1>3, <2>3 DEF WriteFrame
    <3> QED
      BY <2>1, <3>1, AllocStays DEF allocator
  <2> QED
    BY <2>2, <2>3
<1>4. CASE Commit
  <2>1. todo # <<>> /\ Head(todo) = "commit"
    BY <1>4 DEF Commit, At
  <2>2. connected /\ Uncommitted
    BY <2>1, OwnStep DEF OtherSteps
  <2>3. /\ Committed' = TRUE /\ RefCount' = RefCount + 1
        /\ UNCHANGED <<DecommitInProgress, Free, Waiting, Sem, held, worker, connected>>
    BY <1>4 DEF Commit, mux, encoder, stream
  <2> QED
    BY <1>0, <2>2, <2>3 DEF AllocInv, Uncommitted, One, HasSample, AllocTypes
<1>5. CASE Decommit
  <2>1. UNCHANGED <<Free, held, worker, connected>>
    BY <1>5 DEF Decommit, mux, encoder, stream
  <2>2. CASE Uncommitted
    <3>1. UNCHANGED <<Committed, DecommitInProgress, Waiting, Sem, RefCount>>
      BY <1>5, <2>2 DEF Decommit, Uncommitted
    <3> QED
      BY <2>1, <3>1, AllocStays DEF allocator
  <2>3. CASE ~Uncommitted
    <3>1. /\ Committed' = FALSE /\ DecommitInProgress' = (Free < Samples)
          /\ RefCount' = (IF Free < Samples THEN RefCount ELSE RefCount - 1)
          /\ Sem' = Sem + Waiting /\ Waiting' = 0
      BY <1>5, <2>3 DEF Decommit, Uncommitted, NotifySample
    <3>2. Free <= Samples
      BY <1>0 DEF AllocInv, AllocTypes, One
    <3>3. Waiting' + Sem' = One(worker' = "semaphore") /\ Free' + held' + One(HasSample') = Samples
      BY <1>0, <2>1, <3>1 DEF AllocInv, AllocTypes, HasSample
    <3>4. RefCount' = One(connected') + One(Committed' \/ DecommitInProgress')
      BY <1>0, <2>1, <2>3, <3>1 DEF AllocInv, AllocTypes, Uncommitted, One
    <3> QED
      BY <1>0, <2>1, <3>1, <3>2, <3>3, <3>4 DEF AllocInv, AllocTypes, Uncommitted
  <2> QED
    BY <2>2, <2>3
<1>6. CASE ReleasePin
  <2>1. /\ RefCount' = (IF connected THEN RefCount - 1 ELSE RefCount) /\ connected' = FALSE
        /\ UNCHANGED <<Committed, DecommitInProgress, Free, Waiting, Sem, held, worker>>
    BY <1>6 DEF ReleasePin, mux, stream
  <2> QED
    BY <1>0, <2>1 DEF AllocInv, AllocTypes, Uncommitted, One, HasSample
<1> QED
  BY <1>1, <1>2, <1>3, <1>4, <1>5, <1>6 DEF App

\* A sample comes back, from the worker or from the multiplexer.
LEMMA SampleComesBack ==
  ASSUME AllocTypes, AllocInv, ReleaseBuffer, UNCHANGED connected, held' \in Nat,
         held' + One(HasSample') + 1 = held + One(HasSample),
         (worker' = "semaphore") = (worker = "semaphore")
  PROVE  AllocInv'
<1>0. One(HasSample) \in Nat /\ One(HasSample') \in Nat
  BY DEF One
<1>1. Free' = Free + 1 /\ Free' \in Nat /\ Free' <= Samples /\ Free < Samples
  <2>1. Free + held + One(HasSample) = Samples /\ Free' = Free + 1
    BY DEF ReleaseBuffer, AllocInv
  <2> QED
    BY <1>0, <2>1 DEF AllocTypes
<1>2. Free' + held' + One(HasSample') = Samples
  BY <1>0, <1>1 DEF AllocInv, AllocTypes
<1>3. Waiting' + Sem' = One(worker' = "semaphore")
  BY DEF ReleaseBuffer, NotifySample, AllocInv, AllocTypes
<1>4. ~Uncommitted /\ Committed' = Committed
  BY <1>1 DEF AllocInv, AllocTypes, ReleaseBuffer
<1>5. CASE DecommitInProgress /\ Free' = Samples
  <2>1. DecommitInProgress' = FALSE /\ RefCount' = RefCount - 1
    BY <1>5 DEF ReleaseBuffer
  <2>2. RefCount' = One(connected') + One(Committed' \/ DecommitInProgress')
    BY <1>4, <1>5, <2>1 DEF AllocInv, AllocTypes, One
  <2> QED
    BY <1>1, <1>2, <1>3, <1>4, <1>5, <2>1, <2>2 DEF AllocInv, AllocTypes, Uncommitted
<1>6. CASE ~(DecommitInProgress /\ Free' = Samples)
  <2>1. UNCHANGED <<DecommitInProgress, RefCount>>
    BY <1>6 DEF ReleaseBuffer
  <2>2. RefCount' = One(connected') + One(Committed' \/ DecommitInProgress')
    BY <1>4, <2>1 DEF AllocInv
  <2> QED
    BY <1>1, <1>2, <1>3, <1>4, <1>6, <2>1, <2>2 DEF AllocInv, AllocTypes, Uncommitted
<1> QED
  BY <1>5, <1>6

LEMMA WorkerKeepsAlloc ==
  ASSUME TypeOK, AllocInv, Worker \/ MuxReleases
  PROVE  AllocInv'
<1>0. AllocTypes
  BY AllocatorTypes
<1>1. UNCHANGED connected
  BY DEF Worker, GetRequest, Reply, CheckRequest, GetBuffer, WaitForSample, TestTerminating, LookForSound,
     WaitForSound, AdvanceRead, CopyOut, Deliver, ReleaseSample, MuxReleases, Elsewhere, encoder
<1>2. CASE GetRequest \/ Reply \/ CheckRequest
  <2>1. UNCHANGED <<allocator, held>>
    BY <1>2 DEF GetRequest, Reply, CheckRequest, mux
  <2>2. ~HasSample /\ ~HasSample' /\ worker # "semaphore" /\ worker' # "semaphore"
    BY <1>2 DEF GetRequest, Reply, CheckRequest, WorkerAt, Go, HasSample, TypeOK
  <2> QED
    BY <1>1, <2>1, <2>2, AllocStays
<1>3. CASE TestTerminating \/ LookForSound \/ WaitForSound \/ AdvanceRead \/ CopyOut \/ Deliver
  <2>1. UNCHANGED <<allocator, held>>
    BY <1>3 DEF TestTerminating, LookForSound, WaitForSound, AdvanceRead, CopyOut, Deliver, mux
  <2>2. HasSample /\ HasSample'
    BY <1>3 DEF TestTerminating, LookForSound, WaitForSound, AdvanceRead, CopyOut, Deliver, WorkerAt, Go, HasSample
  <2> QED
    BY <1>1, <2>1, <2>2, AllocStays
<1>4. CASE GetBuffer
  <2>1. UNCHANGED <<Committed, DecommitInProgress, Sem, RefCount, held>>
    BY <1>4 DEF GetBuffer, mux
  <2>2. ~HasSample /\ worker # "semaphore"
    BY <1>4 DEF GetBuffer, WorkerAt, HasSample
  <2>3. CASE ~Committed /\ worker' = "check" /\ UNCHANGED <<Free, Waiting>>
    BY <1>1, <2>1, <2>2, <2>3, AllocStays DEF allocator, HasSample
  <2>4. CASE Committed /\ Free > 0 /\ Free' = Free - 1 /\ worker' = "test" /\ UNCHANGED Waiting
    <3>1. HasSample' /\ worker' # "semaphore"
      BY <2>4 DEF HasSample
    <3> QED
      BY <1>0, <1>1, <2>1, <2>2, <2>4, <3>1 DEF AllocInv, AllocTypes, Uncommitted, One
  <2>5. CASE Committed /\ Free = 0 /\ Waiting' = Waiting + 1 /\ worker' = "semaphore" /\ UNCHANGED Free
    <3>1. ~HasSample' /\ worker' = "semaphore"
      BY <2>5 DEF HasSample
    <3> QED
      BY <1>0, <1>1, <2>1, <2>2, <2>5, <3>1 DEF AllocInv, AllocTypes, Uncommitted, One
  <2> QED
    BY <1>4, <2>3, <2>4, <2>5 DEF GetBuffer, Go
<1>5. CASE WaitForSample
  <2>1. /\ worker = "semaphore" /\ worker' = "getBuffer" /\ Sem > 0 /\ Sem' = Sem - 1
        /\ UNCHANGED <<Committed, DecommitInProgress, Free, Waiting, RefCount, held>>
    BY <1>5 DEF WaitForSample, WorkerAt, Go, mux
  <2>2. ~HasSample /\ ~HasSample'
    BY <2>1 DEF HasSample
  <2> QED
    BY <1>0, <1>1, <2>1, <2>2 DEF AllocInv, AllocTypes, Uncommitted, One
<1>6. CASE ReleaseSample
  <2>1. HasSample /\ ~HasSample' /\ worker # "semaphore" /\ worker' # "semaphore"
    BY <1>6 DEF ReleaseSample, WorkerAt, Go, HasSample
  <2>2. CASE shared
    <3>1. held' = held + 1 /\ UNCHANGED allocator
      BY <1>6, <2>2 DEF ReleaseSample
    <3> QED
      BY <1>0, <1>1, <2>1, <3>1 DEF AllocInv, AllocTypes, Uncommitted, One, allocator
  <2>3. CASE ~shared
    <3>1. ReleaseBuffer /\ held' = held
      BY <1>6, <2>3 DEF ReleaseSample
    <3>2. held' + One(HasSample') + 1 = held + One(HasSample)
      BY <1>0, <2>1, <3>1 DEF One, AllocTypes
    <3> QED
      BY <1>0, <1>1, <2>1, <3>1, <3>2, SampleComesBack DEF AllocTypes
  <2> QED
    BY <2>2, <2>3
<1>7. CASE MuxReleases
  <2>1. worker' = worker
    BY <1>7 DEF MuxReleases, stream
  <2>2. CASE held > 0 /\ held' = held - 1 /\ ReleaseBuffer
    <3>1. held' \in Nat /\ held' + One(HasSample') + 1 = held + One(HasSample)
      BY <1>0, <2>1, <2>2 DEF One, AllocTypes, HasSample
    <3> QED
      BY <1>0, <1>1, <2>1, <2>2, <3>1, SampleComesBack
  <2>3. CASE UNCHANGED <<held, allocator>>
    BY <1>1, <2>1, <2>3, AllocStays
  <2> QED
    BY <1>7, <2>2, <2>3 DEF MuxReleases
<1> QED
  BY <1>2, <1>3, <1>4, <1>5, <1>6, <1>7 DEF Worker

-----------------------------------------------------------------------------
(* Every step keeps SoundInv. *)

SoundTypes ==
  /\ BufferReadPtr \in Slots /\ BufferWritePtr \in Slots /\ source \in Slots
  /\ Buffers \in [Slots -> Blocks] /\ PartialBuffer \in Blocks /\ PartialBufferPos \in 0..BufferSize
  /\ memory \in [Blocks -> [0..BufferSize-1 -> 0..pushed]]
  /\ left \in Nat /\ pushed \in Nat /\ delivered \in Nat

LEMMA SoundHasTypes == TypeOK => SoundTypes
BY AudioPinAssumption DEF TypeOK, SoundTypes

LEMMA Sizes == BufferCount \in Nat /\ BufferCount > 1 /\ BufferSize \in Nat /\ BufferSize > 0
BY AudioPinAssumption

\* The next slot and the one before, without the modulus.
LEMMA Neighbours ==
  ASSUME NEW s \in Slots
  PROVE  /\ Succ(s) \in Slots /\ Succ(s) = IF s = BufferCount - 1 THEN 0 ELSE s + 1
         /\ Pred(s) \in Slots /\ Pred(s) = IF s = 0 THEN BufferCount - 1 ELSE s - 1
<1>1. ASSUME NEW x \in Nat, x < 2 * BufferCount
      PROVE  x % BufferCount = IF x < BufferCount THEN x ELSE x - BufferCount
  <2>1. CASE x < BufferCount
    BY Sizes, <2>1
  <2>2. CASE x >= BufferCount
    BY Sizes, <1>1, <2>2
  <2> QED
    BY Sizes, <2>1, <2>2
<1>2. (s + 1) % BufferCount = IF s + 1 < BufferCount THEN s + 1 ELSE s + 1 - BufferCount
  BY Sizes, <1>1 DEF Slots
<1>3. (s + BufferCount - 1) % BufferCount
        = IF s + BufferCount - 1 < BufferCount THEN s + BufferCount - 1 ELSE s + BufferCount - 1 - BufferCount
  BY Sizes, <1>1 DEF Slots
<1> QED
  BY Sizes, <1>2, <1>3 DEF Slots, Succ, Pred

\* How far the slots are ahead of the read index.
LEMMA Distances ==
  ASSUME SoundTypes
  PROVE  /\ \A s \in Slots : Ahead(s) \in 0..BufferCount-1 /\ (Ahead(s) = 0 <=> s = BufferReadPtr)
         /\ \A s, u \in Slots : Ahead(s) = Ahead(u) => s = u
         /\ Ahead(Pred(BufferReadPtr)) = BufferCount - 1
         /\ \A s \in Slots : Ahead(s) < BufferCount - 1 => Ahead(Succ(s)) = Ahead(s) + 1
         /\ Pred(Succ(BufferReadPtr)) = BufferReadPtr
<1>1. BufferReadPtr \in Slots
  BY DEF SoundTypes
<1>2. \A s \in Slots : Ahead(s) \in 0..BufferCount-1 /\ (Ahead(s) = 0 <=> s = BufferReadPtr)
  BY <1>1, Sizes DEF Slots, Ahead
<1>3. \A s, u \in Slots : Ahead(s) = Ahead(u) => s = u
  BY <1>1, Sizes DEF Slots, Ahead
<1>4. Ahead(Pred(BufferReadPtr)) = BufferCount - 1
  BY <1>1, Sizes, Neighbours DEF Slots, Ahead
<1>5. ASSUME NEW s \in Slots, Ahead(s) < BufferCount - 1
      PROVE  Ahead(Succ(s)) = Ahead(s) + 1
  BY <1>1, <1>5, Sizes, Neighbours DEF Slots, Ahead
<1>6. Pred(Succ(BufferReadPtr)) = BufferReadPtr
  BY <1>1, Sizes, Neighbours DEF Slots
<1> QED
  BY <1>2, <1>3, <1>4, <1>5, <1>6

\* One block more.
LEMMA NextBlock ==
  ASSUME NEW n \in Nat
  PROVE  /\ n * BufferSize \in Nat /\ n <= n * BufferSize
         /\ (n + 1) * BufferSize = n * BufferSize + BufferSize
BY Sizes

LEMMA Counts ==
  ASSUME SoundTypes
  PROVE  InRing \in 0..BufferCount-1 /\ Taken \in Nat /\ Written \in Nat /\ Written = Taken + InRing
<1>1. InRing \in 0..BufferCount-1
  BY Distances DEF InRing, SoundTypes
<1>2. Taken \in Nat
  BY DEF Taken, One, SoundTypes
<1> QED
  BY <1>1, <1>2, Sizes DEF Written

\* A step that touches neither the ring nor the sound.
LEMMA SoundStays ==
  ASSUME SoundInv, UNCHANGED <<BufferReadPtr, BufferWritePtr, buffers, pushed, delivered, source>>,
         pushed + left' <= MaxUnits,
         todo' = todo \/ (~Handing /\ ~Handing'),
         worker' = worker \/ (/\ worker \notin {"advance", "signal", "copyOut"}
                              /\ worker' \notin {"advance", "signal", "copyOut"})
  PROVE  SoundInv'
<1>1. /\ (At("advance"))' = At("advance") /\ (At("signal"))' = At("signal") /\ Handing' = Handing
      /\ (At("swap"))' = At("swap")
  BY DEF At, Handing
<1>2. worker' \in {"signal", "copyOut"} <=> worker \in {"signal", "copyOut"}
  OBVIOUS
<1>3. \A s : (Ahead(s))' = Ahead(s)
  BY DEF Ahead
<1>4. InRing' = InRing /\ Taken' = Taken /\ Written' = Written
  BY <1>2 DEF InRing, Ahead, Taken, Written, One
<1>5. \A b, n : (Holds(b, n))' = Holds(b, n)
  BY DEF Holds, buffers
<1>6. Filling' = Filling /\ Filled' = Filled
  BY <1>1 DEF Filling, Filled, buffers
<1>7. FillInv'
  BY <1>1, <1>4, <1>6 DEF SoundInv, FillInv, buffers
<1>8. SlotsHold'
  BY <1>3, <1>4, <1>5 DEF SoundInv, SlotsHold, buffers
<1>9. SourceHeld'
  <2>1. (worker' = "advance") = (worker = "advance")
    OBVIOUS
  <2> QED
    BY <1>2, <1>4, <1>5, <2>1 DEF SoundInv, SourceHeld, buffers
<1>10. GapKept'
  BY <1>1, <1>4 DEF SoundInv, GapKept
<1>11. OwnBlocks'
  BY DEF SoundInv, OwnBlocks, buffers
<1> QED
  BY <1>7, <1>8, <1>9, <1>10, <1>11 DEF SoundInv

\* Where PushData is, from its own steps.
LEMMA AtStep ==
  ASSUME NEW here, At(here)
  PROVE  \A step \in PushSteps : At(step) <=> step = here
BY DEF At

\* The only step of PushData that is left.
LEMMA OneStepLeft ==
  /\ <<"copy">> \o <<>> = <<"copy">> /\ <<"look">> \o <<>> = <<"look">> /\ <<"room">> \o <<>> = <<"room">>
  /\ <<"swap">> \o <<>> = <<"swap">> /\ <<"advance">> \o <<>> = <<"advance">>
  /\ <<"signal">> \o <<>> = <<"signal">> /\ <<>> \o <<>> = <<>>
<1>1. ASSUME NEW step \in PushSteps PROVE <<step>> \o <<>> = <<step>>
  <2>1. <<step>> \in Seq(PushSteps)
    OBVIOUS
  <2> QED
    BY <2>1, ConcatEmptySeq
<1>2. <<>> \o <<>> = <<>>
  OBVIOUS
<1> QED
  BY <1>1, <1>2 DEF PushSteps

\* Room is looked for, and waited for, with a full block.
LEMMA RoomKeepsSound ==
  ASSUME SoundTypes, CallInv, SoundInv, LookForRoom \/ WaitForRoom
  PROVE  SoundInv'
<1>1. UNCHANGED <<BufferReadPtr, BufferWritePtr, buffers, pushed, left, delivered, source, worker>>
  BY DEF LookForRoom, WaitForRoom, ring, stream
<1>2. Handing /\ ~At("advance") /\ ~At("signal") /\ Tail(todo) = <<>>
  <2>1. At("look") \/ At("room")
    BY DEF LookForRoom, WaitForRoom
  <2> QED
    BY <2>1, PushIsPushing DEF At, Handing, PushSteps
<1>3. todo' = <<"swap">> \/ todo' = <<"room">> \/ todo' = <<"look">>
  BY <1>2, OneStepLeft DEF LookForRoom, WaitForRoom, Continue
<1>4. Handing' /\ ~(At("advance"))' /\ ~(At("signal"))'
  BY <1>3 DEF At, Handing
<1>5. (At("swap"))' => InRing < BufferCount - 1
  <2>1. CASE LookForRoom /\ Pred(BufferReadPtr) # BufferWritePtr
    <3>1. Pred(BufferReadPtr) \in Slots /\ BufferWritePtr \in Slots
      BY Neighbours DEF SoundTypes
    <3>2. Ahead(Pred(BufferReadPtr)) = BufferCount - 1
      BY Distances
    <3>3. InRing # BufferCount - 1
      BY <2>1, <3>1, <3>2, Distances DEF InRing
    <3> QED
      BY <3>3, Counts, Sizes
  <2>2. CASE WaitForRoom \/ Pred(BufferReadPtr) = BufferWritePtr
    <3>1. todo' = <<"room">> \/ todo' = <<"look">>
      BY <1>2, <2>2, OneStepLeft DEF LookForRoom, WaitForRoom, Continue
    <3> QED
      BY <3>1 DEF At
  <2> QED
    BY <2>1, <2>2
<1>6. /\ \A s : (Ahead(s))' = Ahead(s)
      /\ InRing' = InRing /\ Taken' = Taken /\ Written' = Written
      /\ \A b, n : (Holds(b, n))' = Holds(b, n)
  BY <1>1 DEF InRing, Ahead, Taken, Written, Holds, buffers
<1>7. Filling' = Filling /\ Filled' = Filled
  BY <1>1, <1>2, <1>4 DEF Filling, Filled, buffers
<1>8. FillInv'
  BY <1>1, <1>2, <1>4, <1>6, <1>7 DEF SoundInv, FillInv, buffers
<1>9. SlotsHold'
  BY <1>1, <1>6 DEF SoundInv, SlotsHold, buffers
<1>10. SourceHeld'
  BY <1>1, <1>6 DEF SoundInv, SourceHeld, buffers
<1>11. GapKept'
  BY <1>4, <1>5, <1>6 DEF GapKept
<1>12. OwnBlocks'
  BY <1>1 DEF SoundInv, OwnBlocks, buffers
<1> QED
  BY <1>8, <1>9, <1>10, <1>11, <1>12 DEF SoundInv

\* What fits is added behind the sound in the partial buffer.
LEMMA CopyInKeepsSound ==
  ASSUME SoundTypes, CallInv, SoundInv, CopyIn
  PROVE  SoundInv'
<1> DEFINE n == AtMost(left, BufferSize - PartialBufferPos)
<1>1. UNCHANGED <<BufferReadPtr, BufferWritePtr, Buffers, PartialBuffer, delivered, source, worker>>
  BY DEF CopyIn, ring, stream
<1>2. At("copy") /\ ~Handing /\ ~At("advance") /\ ~At("signal") /\ ~At("swap") /\ Tail(todo) = <<>>
  <2>1. At("copy")
    BY DEF CopyIn
  <2> QED
    BY <2>1, PushIsPushing DEF At, Handing, PushSteps
<1>3. /\ n \in Nat /\ n <= left /\ PartialBufferPos + n <= BufferSize /\ PartialBufferPos < BufferSize
      /\ PartialBufferPos' = PartialBufferPos + n /\ left' = left - n /\ pushed' = pushed + n
  BY <1>2, Sizes DEF CopyIn, AtMost, SoundTypes, SoundInv, FillInv
<1>4. todo' = IF PartialBufferPos' = BufferSize THEN <<"look">> ELSE <<>>
  BY <1>2, OneStepLeft DEF CopyIn, Continue
<1>5. /\ ~(At("advance"))' /\ ~(At("signal"))' /\ ~(At("swap"))'
      /\ Handing' <=> PartialBufferPos' = BufferSize
  BY <1>4 DEF At, Handing
<1>6. ASSUME NEW i \in 0..BufferSize-1
      PROVE  memory'[PartialBuffer][i]
               = IF i \in PartialBufferPos..PartialBufferPos+n-1 THEN pushed + 1 + i - PartialBufferPos
                                                                 ELSE memory[PartialBuffer][i]
  BY <1>3 DEF CopyIn, SoundTypes
<1>7. \A b \in Blocks : b # PartialBuffer => memory'[b] = memory[b]
  BY DEF CopyIn, SoundTypes
<1>8. /\ \A s : (Ahead(s))' = Ahead(s)
      /\ InRing' = InRing /\ Taken' = Taken /\ Written' = Written
  BY <1>1 DEF InRing, Ahead, Taken, Written
<1>9. FillInv'
  <2>1. /\ Filling = PartialBuffer /\ Filling' = PartialBuffer
        /\ Filled = PartialBufferPos /\ Filled' = PartialBufferPos + n
    BY <1>1, <1>2, <1>3, <1>5 DEF Filling, Filled
  <2> DEFINE base == Written * BufferSize
  <2>2. base \in Nat /\ Written' * BufferSize = base /\ pushed = base + PartialBufferPos
    BY <1>8, <2>1, Counts, NextBlock DEF SoundInv, FillInv
  <2>3. \A i \in 0..PartialBufferPos-1 : memory[PartialBuffer][i] = base + i + 1
    BY <2>1 DEF SoundInv, FillInv
  <2> HIDE DEF base
  <2>4. ASSUME NEW i \in 0..PartialBufferPos+n-1
        PROVE  memory'[PartialBuffer][i] = base + i + 1
    <3>1. i \in 0..BufferSize-1 /\ PartialBufferPos \in Nat
      <4>1. PartialBufferPos \in Nat
        BY Sizes DEF SoundTypes
      <4>2. n \in Nat /\ PartialBufferPos + n <= BufferSize
        BY <1>3
      <4> HIDE DEF n
      <4> QED
        BY <4>1, <4>2, Sizes
    <3>2. CASE i < PartialBufferPos
      <4>1. memory'[PartialBuffer][i] = memory[PartialBuffer][i]
        BY <1>6, <3>1, <3>2
      <4> QED
        BY <2>3, <3>1, <3>2, <4>1
    <3>3. CASE i >= PartialBufferPos
      <4>1. memory'[PartialBuffer][i] = pushed + 1 + i - PartialBufferPos
        BY <1>3, <1>6, <3>1, <3>3
      <4> QED
        BY <2>2, <3>1, <4>1 DEF SoundTypes
    <3> QED
      BY <3>1, <3>2, <3>3
  <2>5. pushed' = Written' * BufferSize + Filled'
    BY <1>3, <2>1, <2>2 DEF SoundTypes
  <2>6. \A i \in 0..Filled'-1 : memory'[Filling'][i] = Written' * BufferSize + i + 1
    <3> SUFFICES ASSUME NEW i \in 0..Filled'-1
                 PROVE  memory'[Filling'][i] = Written' * BufferSize + i + 1
      OBVIOUS
    <3>1. i \in 0..PartialBufferPos+n-1
      BY <1>3, <2>1 DEF SoundTypes
    <3>2. memory'[PartialBuffer][i] = base + i + 1
      BY <2>4, <3>1
    <3> QED
      BY <2>1, <2>2, <3>2
  <2>7. IF Handing' THEN PartialBufferPos' = BufferSize ELSE PartialBufferPos' < BufferSize
    BY <1>3, <1>5, Sizes DEF SoundTypes
  <2>8. pushed' + left' <= MaxUnits
    BY <1>3 DEF SoundInv, FillInv, SoundTypes
  <2> QED
    BY <2>5, <2>6, <2>7, <2>8 DEF FillInv
<1>10. \A s \in Slots : memory'[Buffers'[s]] = memory[Buffers[s]]
  BY <1>1, <1>7 DEF SoundInv, OwnBlocks, SoundTypes
<1>11. \A s \in Slots : \A m : (Holds(Buffers[s], m))' = Holds(Buffers[s], m)
  BY <1>1, <1>10 DEF Holds
<1>12. SlotsHold'
  BY <1>1, <1>8, <1>11 DEF SoundInv, SlotsHold
<1>13. SourceHeld'
  BY <1>1, <1>8, <1>11 DEF SoundInv, SourceHeld, SoundTypes
<1>14. GapKept'
  BY <1>5 DEF GapKept
<1>15. OwnBlocks'
  BY <1>1 DEF SoundInv, OwnBlocks
<1> QED
  BY <1>9, <1>12, <1>13, <1>14, <1>15 DEF SoundInv

\* The full block changes places with that of a slot nobody reads.
LEMMA SwapKeepsSound ==
  ASSUME SoundTypes, CallInv, SoundInv, Swap
  PROVE  SoundInv'
<1>1. UNCHANGED <<BufferReadPtr, BufferWritePtr, memory, PartialBufferPos, pushed, left, delivered, source, worker>>
  BY DEF Swap, ring, stream
<1>2. At("swap") /\ Handing /\ ~At("advance") /\ ~At("signal") /\ Tail(todo) = <<>>
  <2>1. At("swap")
    BY DEF Swap
  <2> QED
    BY <2>1, PushIsPushing DEF At, Handing, PushSteps
<1>3. /\ (At("advance"))' /\ Handing' /\ ~(At("signal"))'
      /\ Buffers' = [Buffers EXCEPT ![BufferWritePtr] = PartialBuffer]
      /\ PartialBuffer' = Buffers[BufferWritePtr]
  <2>1. todo' = <<"advance">>
    BY <1>2, OneStepLeft DEF Swap, Continue
  <2> QED
    BY <2>1 DEF At, Handing, Swap
<1>4. /\ Buffers'[BufferWritePtr] = PartialBuffer
      /\ \A s \in Slots : s # BufferWritePtr => Buffers'[s] = Buffers[s]
  BY <1>3 DEF SoundTypes
<1>5. InRing < BufferCount - 1 /\ InRing \in Nat
  BY <1>2, Counts DEF SoundInv, GapKept
<1>6. /\ \A s : (Ahead(s))' = Ahead(s)
      /\ InRing' = InRing /\ Taken' = Taken /\ Written' = Written
      /\ \A b, n : (Holds(b, n))' = Holds(b, n)
  BY <1>1 DEF InRing, Ahead, Taken, Written, Holds
<1>7. Filling = PartialBuffer /\ Filling' = PartialBuffer /\ Filled' = Filled
  BY <1>1, <1>2, <1>3, <1>4 DEF Filling, Filled
<1>8. FillInv'
  BY <1>1, <1>2, <1>3, <1>6, <1>7 DEF SoundInv, FillInv
<1>9. SlotsHold'
  <2> SUFFICES ASSUME NEW s \in Slots, Ahead(s) < InRing
               PROVE  Holds(Buffers'[s], Taken + Ahead(s))
    BY <1>6 DEF SlotsHold
  <2>1. s # BufferWritePtr
    BY <1>5 DEF InRing
  <2> QED
    BY <1>4, <2>1 DEF SoundInv, SlotsHold
<1>10. SourceHeld'
  <2>1. ASSUME worker \in {"signal", "copyOut"}
        PROVE  Buffers'[source] = Buffers[source]
    <3>1. source = Pred(BufferReadPtr) /\ BufferWritePtr \in Slots /\ source \in Slots
      BY <2>1 DEF SoundInv, SourceHeld, SoundTypes
    <3>2. Ahead(source) = BufferCount - 1
      BY <3>1, Distances
    <3>3. source # BufferWritePtr
      BY <1>5, <3>2, Sizes DEF InRing
    <3> QED
      BY <1>4, <3>1, <3>3
  <2> QED
    BY <1>1, <1>6, <2>1 DEF SoundInv, SourceHeld
<1>11. GapKept'
  BY <1>5, <1>6 DEF GapKept
<1>12. OwnBlocks'
  <2>1. \A s, u \in Slots : s # u => Buffers'[s] # Buffers'[u]
    BY <1>4 DEF SoundInv, OwnBlocks
  <2>2. \A s \in Slots : Buffers'[s] # Buffers[BufferWritePtr]
    BY <1>4 DEF SoundInv, OwnBlocks, SoundTypes
  <2> QED
    BY <1>3, <2>1, <2>2 DEF OwnBlocks
<1> QED
  BY <1>8, <1>9, <1>10, <1>11, <1>12 DEF SoundInv

\* The slot is one of those to be read.
LEMMA AdvanceKeepsSound ==
  ASSUME SoundTypes, CallInv, SoundInv, AdvanceWrite
  PROVE  SoundInv'
<1>1. UNCHANGED <<BufferReadPtr, buffers, pushed, left, delivered, source, worker>>
  BY DEF AdvanceWrite, stream
<1>2. At("advance") /\ Handing /\ ~At("signal") /\ Tail(todo) = <<>>
  <2>1. At("advance")
    BY DEF AdvanceWrite
  <2> QED
    BY <2>1, PushIsPushing DEF At, Handing, PushSteps
<1>3. (At("signal"))' /\ Handing' /\ ~(At("advance"))' /\ ~(At("swap"))' /\ BufferWritePtr' = Succ(BufferWritePtr)
  <2>1. todo' = <<"signal">>
    BY <1>2, OneStepLeft DEF AdvanceWrite, Continue
  <2> QED
    BY <2>1 DEF At, Handing, AdvanceWrite
<1>4. InRing < BufferCount - 1 /\ InRing \in Nat /\ Taken \in Nat /\ Written = Taken + InRing
  BY <1>2, Counts DEF SoundInv, GapKept
<1>5. /\ \A s : (Ahead(s))' = Ahead(s)
      /\ Taken' = Taken
      /\ \A b, n : (Holds(b, n))' = Holds(b, n)
  BY <1>1 DEF Ahead, Taken, Holds, buffers
<1>6. InRing' = InRing + 1 /\ Written' = Written + 1
  <2>1. Ahead(Succ(BufferWritePtr)) = Ahead(BufferWritePtr) + 1
    BY <1>4, Distances DEF InRing, SoundTypes
  <2>2. InRing' = Ahead(Succ(BufferWritePtr))
    BY <1>1, <1>3 DEF InRing, Ahead
  <2>3. InRing' = InRing + 1
    BY <2>1, <2>2 DEF InRing
  <2> QED
    BY <1>4, <1>5, <2>3 DEF Written
<1>7. Filled = BufferSize /\ Filled' = 0
  BY <1>2, <1>3 DEF Filled, SoundInv, FillInv
<1>8. FillInv'
  <2>1. Written \in Nat /\ (Written + 1) * BufferSize = Written * BufferSize + BufferSize /\ Written * BufferSize \in Nat
    BY <1>4, NextBlock
  <2>2. pushed' = Written' * BufferSize + Filled'
    BY <1>1, <1>6, <1>7, <2>1, Sizes DEF SoundInv, FillInv
  <2>3. \A i \in 0..Filled'-1 : memory'[Filling'][i] = Written' * BufferSize + i + 1
    BY <1>7
  <2> QED
    BY <1>1, <1>2, <1>3, <2>2, <2>3 DEF SoundInv, FillInv, buffers
<1>9. SlotsHold'
  <2> SUFFICES ASSUME NEW s \in Slots, Ahead(s) < InRing + 1
               PROVE  Holds(Buffers[s], Taken + Ahead(s))
    BY <1>1, <1>5, <1>6 DEF SlotsHold, buffers
  <2>1. Ahead(s) \in Nat
    BY Distances
  <2>2. CASE Ahead(s) < InRing
    BY <2>2 DEF SoundInv, SlotsHold
  <2>3. CASE Ahead(s) = InRing
    <3>1. s = BufferWritePtr
      BY <2>3, Distances DEF InRing, SoundTypes
    <3>2. Filling = Buffers[s] /\ Written = Taken + Ahead(s)
      BY <1>2, <1>4, <2>3, <3>1 DEF Filling
    <3> QED
      BY <1>7, <3>2 DEF SoundInv, FillInv, Holds
  <2> QED
    BY <1>4, <2>1, <2>2, <2>3
<1>10. SourceHeld'
  BY <1>1, <1>4, <1>5, <1>6 DEF SoundInv, SourceHeld, buffers
<1>11. GapKept'
  BY <1>3 DEF GapKept
<1>12. OwnBlocks'
  BY <1>1 DEF SoundInv, OwnBlocks, buffers
<1> QED
  BY <1>8, <1>9, <1>10, <1>11, <1>12 DEF SoundInv

\* The partial buffer is empty again.
LEMMA SignalKeepsSound ==
  ASSUME SoundTypes, CallInv, SoundInv, SignalWrite
  PROVE  SoundInv'
<1>1. UNCHANGED <<BufferReadPtr, BufferWritePtr, Buffers, memory, pushed, left, delivered, source, worker>>
  BY DEF SignalWrite, stream
<1>2. At("signal") /\ Handing /\ ~At("advance") /\ Tail(todo) = <<>>
  <2>1. At("signal")
    BY DEF SignalWrite
  <2> QED
    BY <2>1, PushIsPushing DEF At, Handing, PushSteps
<1>3. ~Handing' /\ ~(At("advance"))' /\ ~(At("signal"))' /\ ~(At("swap"))' /\ PartialBufferPos' = 0
  <2>1. todo' = <<"copy">> \/ todo' = <<>>
    BY <1>2, OneStepLeft DEF SignalWrite, Continue
  <2> QED
    BY <2>1 DEF At, Handing, SignalWrite
<1>4. /\ \A s : (Ahead(s))' = Ahead(s)
      /\ InRing' = InRing /\ Taken' = Taken /\ Written' = Written
      /\ \A b, n : (Holds(b, n))' = Holds(b, n)
  BY <1>1 DEF InRing, Ahead, Taken, Written, Holds
<1>5. Filled = 0 /\ Filled' = 0
  BY <1>2, <1>3 DEF Filled
<1>6. FillInv'
  BY <1>1, <1>3, <1>4, <1>5, Sizes DEF SoundInv, FillInv
<1>7. SlotsHold'
  BY <1>1, <1>4 DEF SoundInv, SlotsHold
<1>8. SourceHeld'
  BY <1>1, <1>4 DEF SoundInv, SourceHeld
<1>9. GapKept'
  BY <1>3 DEF GapKept
<1>10. OwnBlocks'
  <2>1. PartialBuffer' = PartialBuffer
    BY DEF SignalWrite
  <2> QED
    BY <1>1, <2>1 DEF SoundInv, OwnBlocks
<1> QED
  BY <1>6, <1>7, <1>8, <1>9, <1>10 DEF SoundInv

\* The worker remembers the slot it reads,
LEMMA LookKeepsSound ==
  ASSUME SoundTypes, SoundInv, LookForSound
  PROVE  SoundInv'
<1>1. UNCHANGED <<BufferReadPtr, BufferWritePtr, buffers, pushed, left, delivered, todo>> /\ worker = "look"
  BY DEF LookForSound, ring, Elsewhere, app, WorkerAt
<1>2. CASE BufferReadPtr = BufferWritePtr
  <2>1. worker' = "wait" /\ source' = source
    BY <1>2 DEF LookForSound, Go
  <2>2. pushed + left' <= MaxUnits
    BY <1>1 DEF SoundInv, FillInv
  <2> QED
    BY <1>1, <2>1, <2>2, SoundStays
<1>3. CASE BufferReadPtr # BufferWritePtr
  <2>1. worker' = "advance" /\ source' = BufferReadPtr
    BY <1>3 DEF LookForSound, Go
  <2>2. InRing > 0
    BY <1>3, Distances DEF InRing, SoundTypes
  <2>3. (At("advance"))' = At("advance") /\ (At("signal"))' = At("signal") /\ Handing' = Handing
        /\ (At("swap"))' = At("swap")
    BY <1>1 DEF At, Handing
  <2>4. Taken' = Taken
    BY <1>1, <2>1 DEF Taken
  <2>5. /\ \A s : (Ahead(s))' = Ahead(s)
        /\ InRing' = InRing /\ Written' = Written
        /\ \A b, n : (Holds(b, n))' = Holds(b, n)
    BY <1>1, <2>4 DEF InRing, Ahead, Written, Holds, buffers
  <2>6. Filling' = Filling /\ Filled' = Filled
    BY <1>1, <2>3 DEF Filling, Filled, buffers
  <2>7. FillInv'
    BY <1>1, <2>3, <2>5, <2>6 DEF SoundInv, FillInv, buffers
  <2>8. SlotsHold'
    BY <1>1, <2>4, <2>5 DEF SoundInv, SlotsHold, buffers
  <2>9. SourceHeld'
    BY <1>1, <2>1, <2>2, <2>5 DEF SourceHeld
  <2>10. GapKept' /\ OwnBlocks'
    BY <1>1, <2>3, <2>5 DEF SoundInv, GapKept, OwnBlocks, buffers
  <2> QED
    BY <2>7, <2>8, <2>9, <2>10 DEF SoundInv
<1> QED
  BY <1>2, <1>3

\* gives it back,
LEMMA TakeKeepsSound ==
  ASSUME SoundTypes, SoundInv, AdvanceRead, worker = "advance"
  PROVE  SoundInv'
<1>1. /\ UNCHANGED <<BufferWritePtr, buffers, pushed, left, delivered, todo, source>>
      /\ worker' = "signal" /\ BufferReadPtr' = Succ(BufferReadPtr)
  BY DEF AdvanceRead, WorkerAt, Go, Elsewhere, app
<1>2. BufferReadPtr \in Slots /\ source = BufferReadPtr /\ InRing > 0 /\ InRing \in 0..BufferCount-1
  BY Counts DEF SoundInv, SourceHeld, SoundTypes
<1>3. ASSUME NEW s \in Slots
      PROVE  (Ahead(s))' = IF s = BufferReadPtr THEN BufferCount - 1 ELSE Ahead(s) - 1
  BY <1>1, <1>2, Sizes, Neighbours DEF Ahead, Slots
<1>4. InRing' = InRing - 1
  <2>1. BufferWritePtr \in Slots /\ BufferWritePtr # BufferReadPtr
    BY <1>2, Distances DEF InRing, SoundTypes
  <2>2. InRing' = (Ahead(BufferWritePtr))'
    BY <1>1 DEF InRing
  <2>3. (Ahead(BufferWritePtr))' = Ahead(BufferWritePtr) - 1
    BY <1>1, <1>2, <2>1, Sizes, Neighbours DEF Ahead, Slots
  <2> QED
    BY <2>2, <2>3 DEF InRing
<1>5. Taken = delivered /\ Taken' = Taken + 1 /\ Taken \in Nat
  BY <1>1 DEF Taken, One, SoundTypes
<1>6. Written' = Written
  BY <1>2, <1>4, <1>5 DEF Written
<1>7. /\ \A b, n : (Holds(b, n))' = Holds(b, n)
      /\ (At("advance"))' = At("advance") /\ (At("signal"))' = At("signal") /\ Handing' = Handing
      /\ (At("swap"))' = At("swap")
  BY <1>1 DEF At, Handing, Holds, buffers
<1>8. Filling' = Filling /\ Filled' = Filled
  BY <1>1, <1>7 DEF Filling, Filled, buffers
<1>9. FillInv'
  BY <1>1, <1>6, <1>7, <1>8 DEF SoundInv, FillInv, buffers
<1>10. SlotsHold'
  <2> SUFFICES ASSUME NEW s \in Slots, (Ahead(s))' < InRing'
               PROVE  Holds(Buffers[s], Taken' + (Ahead(s))')
    BY <1>1, <1>7 DEF SlotsHold, buffers
  <2>1. s # BufferReadPtr
    BY <1>2, <1>3, <1>4, Sizes
  <2>2. (Ahead(s))' = Ahead(s) - 1 /\ Ahead(s) \in Nat
    BY <1>3, <2>1, Distances
  <2>3. Ahead(s) < InRing /\ Taken' + (Ahead(s))' = Taken + Ahead(s)
    BY <1>2, <1>4, <1>5, <2>2
  <2> QED
    BY <2>3 DEF SoundInv, SlotsHold
<1>11. SourceHeld'
  <2>1. Pred(BufferReadPtr') = BufferReadPtr
    BY <1>1, Distances
  <2>2. Ahead(BufferReadPtr) = 0
    BY <1>2, Distances
  <2>3. Holds(Buffers[BufferReadPtr], Taken + 0)
    BY <1>2, <2>2 DEF SoundInv, SlotsHold
  <2>4. Holds(Buffers[source], delivered)
    BY <1>2, <1>5, <2>3
  <2> QED
    BY <1>1, <1>2, <1>7, <2>1, <2>4 DEF SourceHeld, buffers
<1>12. GapKept'
  BY <1>2, <1>4, <1>7, Sizes DEF SoundInv, GapKept
<1>13. OwnBlocks'
  BY <1>1 DEF SoundInv, OwnBlocks, buffers
<1> QED
  BY <1>9, <1>10, <1>11, <1>12, <1>13 DEF SoundInv

\* signals that, and copies.
LEMMA CopyOutKeepsSound ==
  ASSUME SoundTypes, SoundInv, CopyOut \/ (AdvanceRead /\ worker = "signal")
  PROVE  SoundInv'
<1>1. UNCHANGED <<BufferReadPtr, BufferWritePtr, buffers, pushed, left, todo>>
  BY DEF AdvanceRead, CopyOut, WorkerAt, ring, Elsewhere, app
<1>2. Taken' = Taken
  <2>1. CASE CopyOut
    <3>1. worker = "copyOut" /\ worker' = "deliver" /\ delivered' = delivered + 1
      BY <2>1 DEF CopyOut, WorkerAt, Go
    <3> QED
      BY <3>1 DEF Taken, One, SoundTypes
  <2>2. CASE AdvanceRead /\ worker = "signal"
    <3>1. worker' = "copyOut" /\ delivered' = delivered
      BY <2>2 DEF AdvanceRead, WorkerAt, Go
    <3> QED
      BY <2>2, <3>1 DEF Taken, One
  <2> QED
    BY <2>1, <2>2
<1>3. (At("advance"))' = At("advance") /\ (At("signal"))' = At("signal") /\ Handing' = Handing
      /\ (At("swap"))' = At("swap")
  BY <1>1 DEF At, Handing
<1>4. /\ \A s : (Ahead(s))' = Ahead(s)
      /\ InRing' = InRing /\ Written' = Written
      /\ \A b, n : (Holds(b, n))' = Holds(b, n)
  BY <1>1, <1>2 DEF InRing, Ahead, Written, Holds, buffers
<1>5. Filling' = Filling /\ Filled' = Filled
  BY <1>1, <1>3 DEF Filling, Filled, buffers
<1>6. FillInv'
  BY <1>1, <1>3, <1>4, <1>5 DEF SoundInv, FillInv, buffers
<1>7. SlotsHold'
  BY <1>1, <1>2, <1>4 DEF SoundInv, SlotsHold, buffers
<1>8. SourceHeld'
  <2>1. CASE CopyOut
    <3>1. worker' = "deliver"
      BY <2>1 DEF CopyOut, Go
    <3> QED
      BY <3>1 DEF SourceHeld
  <2>2. CASE AdvanceRead /\ worker = "signal"
    <3>1. worker' = "copyOut" /\ delivered' = delivered /\ source' = source
      BY <2>2 DEF AdvanceRead, WorkerAt, Go
    <3> QED
      BY <1>1, <1>4, <2>2, <3>1 DEF SoundInv, SourceHeld, buffers
  <2> QED
    BY <2>1, <2>2
<1>9. GapKept' /\ OwnBlocks'
  BY <1>1, <1>3, <1>4 DEF SoundInv, GapKept, OwnBlocks, buffers
<1> QED
  BY <1>6, <1>7, <1>8, <1>9 DEF SoundInv

LEMMA WorkerKeepsSound ==
  ASSUME TypeOK, SoundInv, Worker \/ MuxReleases
  PROVE  SoundInv'
<1>1. SoundTypes
  BY SoundHasTypes
<1>2. CASE LookForSound
  BY <1>1, <1>2, LookKeepsSound
<1>3. CASE AdvanceRead
  BY <1>1, <1>3, TakeKeepsSound, CopyOutKeepsSound DEF AdvanceRead, WorkerAt
<1>4. CASE CopyOut
  BY <1>1, <1>4, CopyOutKeepsSound
<1>5. CASE \/ GetRequest \/ Reply \/ CheckRequest \/ GetBuffer \/ WaitForSample \/ TestTerminating
           \/ WaitForSound \/ Deliver \/ ReleaseSample \/ MuxReleases
  <2>1. UNCHANGED <<BufferReadPtr, BufferWritePtr, buffers, pushed, left, delivered, source, todo>>
    BY <1>5 DEF GetRequest, Reply, CheckRequest, GetBuffer, WaitForSample, TestTerminating, WaitForSound, Deliver,
       ReleaseSample, MuxReleases, ring, Elsewhere, app, stream
  <2>2. worker' = worker \/ (/\ worker \notin {"advance", "signal", "copyOut"}
                             /\ worker' \notin {"advance", "signal", "copyOut"})
    BY <1>5 DEF GetRequest, Reply, CheckRequest, GetBuffer, WaitForSample, TestTerminating, WaitForSound, Deliver,
       ReleaseSample, MuxReleases, WorkerAt, Go, stream, TypeOK
  <2>3. pushed + left' <= MaxUnits
    BY <2>1 DEF SoundInv, FillInv
  <2> QED
    BY <2>1, <2>2, <2>3, SoundStays
<1> QED
  BY <1>2, <1>3, <1>4, <1>5 DEF Worker

\* Behind a step that is not PushData's comes no step of PushData.
LEMMA OthersFollow ==
  ASSUME CallInv, todo # <<>>, Head(todo) \in OtherSteps, Tail(todo) # <<>>
  PROVE  Head(Tail(todo)) \in OtherSteps
<1> DEFINE rest == Tail(todo)
<1>1. todo \in Seq(Steps) /\ rest \in Seq(Steps)
  BY DEF CallInv
<1>2. ASSUME NEW s \in Seq(Steps), NEW t \in Seq(Steps), t # <<>>, EndOf(t, s), \A i \in 1..Len(s) : s[i] \in OtherSteps
      PROVE  Head(t) \in OtherSteps
  <2>1. Head(t) = s[1 + Len(s) - Len(t)] /\ Len(t) \in 1..Len(s) /\ Len(s) \in Nat
    BY <1>2, EndOfTail
  <2>2. 1 + Len(s) - Len(t) \in 1..Len(s)
    BY <2>1
  <2> QED
    BY <1>2, <2>1, <2>2
<1>3. /\ Active \in Seq(Steps) /\ \A i \in 1..Len(Active) : Active[i] \in OtherSteps
      /\ Teardown \in Seq(Steps) /\ \A i \in 1..Len(Teardown) : Teardown[i] \in OtherSteps
  BY DEF Active, Teardown, Steps, PushSteps, OtherSteps
<1>4. CASE Starting
  <2>1. EndOf(rest, Active)
    BY <1>1, <1>4, StartingStep
  <2> QED
    BY <1>1, <1>2, <1>3, <2>1
<1>5. CASE Stopping
  <2>1. EndOf(rest, Teardown)
    BY <1>1, <1>5, StoppingStep
  <2> QED
    BY <1>1, <1>2, <1>3, <2>1
<1>6. CASE Leaving
  <2>1. rest \in {<<"wake", "release">>, <<"release">>}
    BY <1>1, <1>6, LeavingStep
  <2> HIDE DEF rest
  <2>2. Head(rest) \in OtherSteps
    BY <2>1 DEF OtherSteps
  <2> QED
    BY <2>2 DEF rest
<1>7. Starting \/ Stopping \/ Leaving
  <2>1. ~Pushing
    BY OwnStep
  <2> QED
    BY <2>1 DEF CallInv, UnderWay
<1> QED
  BY <1>4, <1>5, <1>6, <1>7

LEMMA CallKeepsSound ==
  ASSUME TypeOK, CallInv, SoundInv,
         WriteFrame \/ SetAudioFormat \/ Delete \/ (\E n \in 1..MaxPush : WriteAudioFrame(n)) \/ App
  PROVE  SoundInv'
<1>0. SoundTypes
  BY SoundHasTypes
<1>1. CASE CopyIn \/ LookForRoom \/ WaitForRoom \/ Swap \/ AdvanceWrite \/ SignalWrite
  BY <1>0, <1>1, CopyInKeepsSound, RoomKeepsSound, SwapKeepsSound, AdvanceKeepsSound, SignalKeepsSound
<1>2. CASE Terminate \/ CallWorker \/ AwaitReply \/ Close \/ Decommit \/ Create \/ Commit \/ ReleasePin
  <2>1. UNCHANGED <<BufferReadPtr, BufferWritePtr, buffers, pushed, left, delivered, source>>
    BY <1>2 DEF Terminate, CallWorker, AwaitReply, Close, Decommit, Create, Commit, ReleasePin, ring, stream
  <2>2. todo # <<>> /\ Head(todo) \in OtherSteps /\ todo' = <<>> \o Tail(todo)
    BY <1>2 DEF Terminate, CallWorker, AwaitReply, Close, Decommit, Create, Commit, ReleasePin, At, Continue, OtherSteps
  <2>3. todo' = Tail(todo)
    BY <2>2 DEF CallInv
  <2>4. ~Handing /\ ~Handing'
    BY <2>2, <2>3, OthersFollow DEF Handing, At, OtherSteps
  <2>5. worker' = worker \/ (worker = "none" /\ worker' = "request")
    <3>1. CASE Create
      <4>1. Head(todo) = "create" /\ worker' = "request"
        BY <3>1 DEF Create, At
      <4> QED
        BY <2>2, <4>1, OwnStep
    <3>2. CASE Terminate \/ CallWorker \/ AwaitReply \/ Close \/ Decommit \/ Commit \/ ReleasePin
      BY <3>2 DEF Terminate, CallWorker, AwaitReply, Close, Decommit, Commit, ReleasePin, stream
    <3> QED
      BY <1>2, <3>1, <3>2
  <2>6. pushed + left' <= MaxUnits
    BY <2>1 DEF SoundInv, FillInv
  <2> QED
    BY <2>1, <2>4, <2>5, <2>6, SoundStays
<1>3. CASE WriteFrame \/ SetAudioFormat \/ Delete \/ \E n \in 1..MaxPush : WriteAudioFrame(n)
  <2>1. UNCHANGED <<BufferReadPtr, BufferWritePtr, buffers, pushed, delivered, source, worker>> /\ todo = <<>>
    BY <1>3 DEF WriteFrame, SetAudioFormat, Delete, WriteAudioFrame, Push, Idle, ring, stream
  <2>2. pushed + left' <= MaxUnits
    <3>1. CASE WriteFrame \/ Delete
      <4>1. left' = left
        BY <3>1 DEF WriteFrame, Delete
      <4> QED
        BY <4>1 DEF SoundInv, FillInv
    <3>2. CASE SetAudioFormat \/ \E n \in 1..MaxPush : WriteAudioFrame(n)
      BY <3>2 DEF SetAudioFormat, WriteAudioFrame, Push
    <3> QED
      BY <1>3, <3>1, <3>2
  <2>3. todo' = <<>> \/ Head(todo') \in {"copy", "commit", "terminate", "release"}
    <3>1. CASE WriteFrame
      BY <2>1, <3>1 DEF WriteFrame, Active
    <3>2. CASE SetAudioFormat \/ \E n \in 1..MaxPush : WriteAudioFrame(n)
      BY <3>2 DEF SetAudioFormat, WriteAudioFrame, Push
    <3>3. CASE Delete
      <4>1. connected => pin = "alive"
        BY DEF CallInv, Disconnected, TypeOK
      <4>2. todo' \in {Teardown, <<"terminate", "wake", "release">>, <<"release">>}
        BY <3>3, <4>1, TeardownIs DEF Delete
      <4> QED
        BY <4>2 DEF Teardown
    <3> QED
      BY <1>3, <3>1, <3>2, <3>3
  <2>4. ~Handing /\ ~Handing'
    BY <2>1, <2>3 DEF Handing, At
  <2> QED
    BY <2>1, <2>2, <2>4, SoundStays
<1> QED
  BY <1>1, <1>2, <1>3 DEF App

-----------------------------------------------------------------------------
(* Types: the counters are bounded by AllocInv and SoundInv, the call by CallInv. *)

LEMMA RingTypes ==
  ASSUME TypeOK, Next
  PROVE  /\ {BufferReadPtr, BufferWritePtr, source}' \subseteq Slots
         /\ {BufferReadChange, BufferWriteChange, Terminating}' \subseteq BOOLEAN
<1>0. BufferReadPtr \in Slots /\ BufferWritePtr \in Slots /\ source \in Slots /\ 0 \in Slots
  BY Sizes DEF TypeOK, Slots
<1>1. Succ(BufferReadPtr) \in Slots /\ Succ(BufferWritePtr) \in Slots
  BY <1>0, Neighbours
<1>2. CASE UNCHANGED ring /\ UNCHANGED source
  BY <1>2 DEF TypeOK, ring
<1>3. CASE WaitForRoom \/ AdvanceWrite \/ SignalWrite \/ Terminate
  BY <1>0, <1>1, <1>3 DEF WaitForRoom, AdvanceWrite, SignalWrite, Terminate, stream, TypeOK
<1>4. CASE TestTerminating \/ LookForSound \/ WaitForSound \/ AdvanceRead \/ CopyOut
  BY <1>0, <1>1, <1>4 DEF TestTerminating, LookForSound, WaitForSound, AdvanceRead, CopyOut, ring, TypeOK
<1>5. CASE WriteFrame \/ SetAudioFormat \/ Delete \/ \E n \in 1..MaxPush : WriteAudioFrame(n)
  BY <1>2, <1>5 DEF WriteFrame, SetAudioFormat, Delete, WriteAudioFrame, Push, stream
<1>6. CASE CopyIn \/ LookForRoom \/ Swap \/ Create \/ CallWorker \/ AwaitReply \/ Close \/ Commit \/ Decommit \/ ReleasePin
  BY <1>2, <1>6 DEF CopyIn, LookForRoom, Swap, Create, CallWorker, AwaitReply, Close, Commit, Decommit, ReleasePin, stream
<1>7. CASE GetRequest \/ Reply \/ CheckRequest \/ GetBuffer \/ WaitForSample \/ Deliver \/ ReleaseSample \/ MuxReleases
  BY <1>2, <1>7 DEF GetRequest, Reply, CheckRequest, GetBuffer, WaitForSample, Deliver, ReleaseSample, MuxReleases, stream
<1> QED
  BY <1>3, <1>4, <1>5, <1>6, <1>7 DEF Next, App, Worker

LEMMA BufferTypes ==
  ASSUME TypeOK, SoundInv, Next
  PROVE  /\ Buffers' \in [Slots -> Blocks] /\ PartialBuffer' \in Blocks /\ PartialBufferPos' \in 0..BufferSize
         /\ memory' \in [Blocks -> [0..BufferSize-1 -> 0..pushed']]
         /\ left' \in 0..MaxUnits /\ pushed' \in 0..MaxUnits
<1>0. SoundTypes /\ MaxUnits \in Nat
  BY SoundHasTypes, AudioPinAssumption
<1>1. CASE UNCHANGED <<buffers, pushed, left>>
  BY <1>1 DEF TypeOK, buffers
<1>2. CASE CopyIn
  <2> DEFINE n == AtMost(left, BufferSize - PartialBufferPos)
             new == [i \in PartialBufferPos..PartialBufferPos+n-1 |-> pushed + 1 + i - PartialBufferPos]
  <2>1. /\ n \in Nat /\ n <= left /\ PartialBufferPos + n <= BufferSize
        /\ PartialBufferPos' = PartialBufferPos + n /\ left' = left - n /\ pushed' = pushed + n
        /\ UNCHANGED <<Buffers, PartialBuffer>>
    BY <1>0, <1>2, Sizes DEF CopyIn, AtMost, SoundTypes
  <2>2. pushed' \in Nat /\ pushed <= pushed' /\ pushed' <= MaxUnits /\ left' \in 0..MaxUnits
    <3>1. left \in Nat /\ left <= MaxUnits /\ pushed \in Nat
      BY <1>0 DEF TypeOK, SoundTypes
    <3>2. pushed + left <= MaxUnits
      BY DEF SoundInv, FillInv
    <3> HIDE DEF n
    <3> QED
      BY <1>0, <2>1, <3>1, <3>2
  <2>3. [i \in 0..BufferSize-1 |-> IF i \in DOMAIN new THEN new[i] ELSE memory[PartialBuffer][i]]
          \in [0..BufferSize-1 -> 0..pushed']
    <3> SUFFICES ASSUME NEW i \in 0..BufferSize-1
                 PROVE  (IF i \in DOMAIN new THEN new[i] ELSE memory[PartialBuffer][i]) \in 0..pushed'
      OBVIOUS
    <3>1. CASE i \in DOMAIN new
      <4>1. new[i] = pushed + 1 + i - PartialBufferPos /\ i >= PartialBufferPos /\ i <= PartialBufferPos + n - 1
        BY <1>0, <2>1, <3>1 DEF SoundTypes
      <4> QED
        BY <1>0, <2>1, <3>1, <4>1 DEF SoundTypes
    <3>2. CASE i \notin DOMAIN new
      <4>1. memory[PartialBuffer][i] \in 0..pushed
        BY <1>0 DEF SoundTypes
      <4> QED
        BY <1>0, <2>2, <3>2, <4>1 DEF SoundTypes
    <3> QED
      BY <3>1, <3>2
  <2>4. memory \in [Blocks -> [0..BufferSize-1 -> 0..pushed']]
    BY <1>0, <2>2 DEF SoundTypes
  <2>5. memory' = [memory EXCEPT ![PartialBuffer] =
                     [i \in 0..BufferSize-1 |-> IF i \in DOMAIN new THEN new[i] ELSE memory[PartialBuffer][i]]]
    BY <1>2 DEF CopyIn
  <2>6. memory' \in [Blocks -> [0..BufferSize-1 -> 0..pushed']]
    <3> HIDE DEF new
    <3> QED
      BY <1>0, <2>3, <2>4, <2>5 DEF SoundTypes
  <2>7. PartialBufferPos' \in 0..BufferSize /\ pushed' \in 0..MaxUnits
    <3> HIDE DEF n
    <3>1. PartialBufferPos \in Nat
      BY <1>0, Sizes DEF SoundTypes
    <3>2. PartialBufferPos' \in Nat /\ PartialBufferPos' <= BufferSize
      BY <2>1, <3>1
    <3> QED
      BY <1>0, <2>2, <3>2, Sizes
  <2> QED
    BY <1>0, <2>1, <2>2, <2>6, <2>7 DEF SoundTypes
<1>3. CASE Swap
  <2>1. /\ Buffers' = [Buffers EXCEPT ![BufferWritePtr] = PartialBuffer] /\ PartialBuffer' = Buffers[BufferWritePtr]
        /\ UNCHANGED <<PartialBufferPos, memory, left, pushed>>
    BY <1>3 DEF Swap
  <2>2. Buffers' \in [Slots -> Blocks] /\ PartialBuffer' \in Blocks
    BY <1>0, <2>1 DEF SoundTypes
  <2> QED
    BY <2>1, <2>2 DEF TypeOK
<1>7. CASE SignalWrite
  <2>1. PartialBufferPos' = 0 /\ UNCHANGED <<Buffers, PartialBuffer, memory, left, pushed>>
    BY <1>7 DEF SignalWrite
  <2>2. 0 \in 0..BufferSize
    BY Sizes
  <2> QED
    BY <2>1, <2>2 DEF TypeOK
<1>4. CASE SetAudioFormat \/ \E n \in 1..MaxPush : WriteAudioFrame(n)
  <2>1. UNCHANGED <<buffers, pushed>>
    BY <1>4 DEF SetAudioFormat, WriteAudioFrame, Push
  <2>2. frame * UnitsPerFrame \in Nat
    BY AudioPinAssumption DEF TypeOK
  <2>3. PICK n \in Nat : Push(n)
    <3>1. CASE SetAudioFormat
      BY <2>2, <3>1 DEF SetAudioFormat
    <3>2. CASE \E n \in 1..MaxPush : WriteAudioFrame(n)
      BY <3>2 DEF WriteAudioFrame
    <3> QED
      BY <1>4, <3>1, <3>2
  <2>4. left' \in 0..MaxUnits
    BY <1>0, <2>3 DEF Push, SoundTypes
  <2> QED
    BY <2>1, <2>4 DEF TypeOK, buffers
<1>5. CASE \/ WriteFrame \/ Delete \/ LookForRoom \/ WaitForRoom \/ AdvanceWrite \/ Terminate
           \/ Create \/ CallWorker \/ AwaitReply \/ Close \/ Commit \/ Decommit \/ ReleasePin
  BY <1>1, <1>5 DEF WriteFrame, Delete, LookForRoom, WaitForRoom, AdvanceWrite, Terminate, Create, CallWorker,
     AwaitReply, Close, Commit, Decommit, ReleasePin
<1>6. CASE Worker \/ MuxReleases
  BY <1>1, <1>6 DEF Worker, GetRequest, Reply, CheckRequest, GetBuffer, WaitForSample, TestTerminating, LookForSound,
     WaitForSound, AdvanceRead, CopyOut, Deliver, ReleaseSample, MuxReleases, Elsewhere, app
<1> QED
  BY <1>2, <1>3, <1>4, <1>5, <1>6, <1>7 DEF Next, App

\* The worker has taken no more than was pushed.
LEMMA DeliveredType ==
  ASSUME TypeOK, SoundInv, Next
  PROVE  delivered' \in 0..MaxUnits
<1>1. CASE CopyOut
  <2>1. delivered' = delivered + 1 /\ worker = "copyOut"
    BY <1>1 DEF CopyOut, WorkerAt
  <2>2. SoundTypes /\ MaxUnits \in Nat
    BY SoundHasTypes, AudioPinAssumption
  <2>3. delivered' = Taken
    BY <2>1, <2>2 DEF Taken, One, SoundTypes
  <2>4. /\ Taken \in Nat /\ Taken <= Written /\ Written <= Written * BufferSize
        /\ Written \in Nat /\ Written * BufferSize \in Nat
    BY <2>2, Counts, NextBlock
  <2>5. Filled \in Nat
    BY <2>2 DEF Filled, SoundTypes
  <2>6. Written * BufferSize <= pushed /\ pushed <= MaxUnits
    <3>1. pushed = Written * BufferSize + Filled
      BY DEF SoundInv, FillInv
    <3> QED
      BY <2>4, <2>5, <3>1 DEF TypeOK
  <2> QED
    BY <2>2, <2>3, <2>4, <2>6 DEF SoundTypes
<1>2. CASE ~CopyOut
  <2>1. delivered' = delivered
    BY <1>2 DEF Next, App, Worker, WriteFrame, SetAudioFormat, Delete, WriteAudioFrame, Push, CopyIn, LookForRoom,
       WaitForRoom, Swap, AdvanceWrite, SignalWrite, Terminate, Create, CallWorker, AwaitReply, Close, Commit,
       Decommit, ReleasePin, GetRequest, Reply, CheckRequest, GetBuffer, WaitForSample, TestTerminating, LookForSound,
       WaitForSound, AdvanceRead, Deliver, ReleaseSample, MuxReleases, stream
  <2> QED
    BY <2>1 DEF TypeOK
<1> QED
  BY <1>1, <1>2

LEMMA RequestTypes ==
  ASSUME TypeOK, Next
  PROVE  /\ EventSend' \in BOOLEAN /\ EventComplete' \in BOOLEAN /\ param' \in {"init", "pause", "stop", "exit"}
         /\ next' \in {"request", "check", "gone"}
         /\ HasSample' \/ worker' \in {"none", "request", "reply", "complete", "check", "getBuffer", "semaphore", "gone"}
<1>1. CASE UNCHANGED <<request, next, worker>>
  BY <1>1 DEF TypeOK, request, HasSample
<1>2. CASE CallWorker \/ AwaitReply \/ Create
  BY <1>2 DEF CallWorker, AwaitReply, Create, TypeOK, HasSample, stream, request
<1>3. CASE GetRequest \/ Reply \/ CheckRequest
  BY <1>3 DEF GetRequest, Reply, CheckRequest, TypeOK, HasSample, WorkerAt, Go, request
<1>4. CASE \/ GetBuffer \/ WaitForSample \/ TestTerminating \/ LookForSound
           \/ WaitForSound \/ AdvanceRead \/ CopyOut \/ Deliver \/ ReleaseSample
  <2>1. UNCHANGED <<request, next>>
    BY <1>4 DEF GetBuffer, WaitForSample, TestTerminating, LookForSound, WaitForSound, AdvanceRead, CopyOut, Deliver,
       ReleaseSample
  <2>2. HasSample' \/ worker' \in {"request", "check", "getBuffer", "semaphore"}
    BY <1>4 DEF GetBuffer, WaitForSample, TestTerminating, LookForSound, WaitForSound, AdvanceRead, CopyOut, Deliver,
       ReleaseSample, Go, HasSample
  <2> QED
    BY <2>1, <2>2 DEF TypeOK, request
<1>5. CASE \/ WriteFrame \/ SetAudioFormat \/ Delete \/ (\E n \in 1..MaxPush : WriteAudioFrame(n))
           \/ CopyIn \/ LookForRoom \/ WaitForRoom \/ Swap \/ AdvanceWrite \/ SignalWrite \/ Terminate
           \/ Close \/ Commit \/ Decommit \/ ReleasePin \/ MuxReleases
  BY <1>1, <1>5 DEF WriteFrame, SetAudioFormat, Delete, WriteAudioFrame, Push, CopyIn, LookForRoom, WaitForRoom,
     Swap, AdvanceWrite, SignalWrite, Terminate, Close, Commit, Decommit, ReleasePin, MuxReleases, stream
<1> QED
  BY <1>2, <1>3, <1>4, <1>5 DEF Next, App, Worker

LEMMA FlagTypes ==
  ASSUME TypeOK, Next
  PROVE  /\ Committed' \in BOOLEAN /\ DecommitInProgress' \in BOOLEAN /\ shared' \in BOOLEAN /\ refused' \in BOOLEAN
         /\ connected' \in BOOLEAN /\ audioOk' \in BOOLEAN
         /\ pin' \in {"none", "alive", "deleted"} /\ frame' \in 0..MaxFrames
<1>1. CASE WriteFrame
  <2>1. UNCHANGED <<Committed, DecommitInProgress, mux, audioOk>> /\ frame < MaxFrames /\ frame' = frame + 1
    BY <1>1 DEF WriteFrame
  <2>2. connected' \in BOOLEAN /\ pin' \in {"none", "alive", "deleted"}
    BY <1>1 DEF WriteFrame, TypeOK
  <2>3. frame' \in 0..MaxFrames
    BY <2>1, AudioPinAssumption DEF TypeOK
  <2> QED
    BY <2>1, <2>2, <2>3 DEF TypeOK, mux
<1>2. CASE SetAudioFormat \/ \E n \in 1..MaxPush : WriteAudioFrame(n)
  <2>1. UNCHANGED <<allocator, mux, pin, connected, frame>> /\ audioOk' \in BOOLEAN
    BY <1>2 DEF SetAudioFormat, WriteAudioFrame, Push, TypeOK
  <2> QED
    BY <2>1 DEF TypeOK, mux, allocator
<1>3. CASE ReleasePin \/ Commit \/ Decommit
  <2>1. UNCHANGED <<mux, audioOk, frame>>
    BY <1>3 DEF ReleasePin, Commit, Decommit, encoder
  <2>2. Committed' \in BOOLEAN /\ DecommitInProgress' \in BOOLEAN
    <3>1. CASE ReleasePin \/ Commit
      BY <1>3, <3>1 DEF ReleasePin, Commit, TypeOK
    <3>2. CASE Decommit
      <4>1. (Free < Samples) \in BOOLEAN
        OBVIOUS
      <4>2. \/ UNCHANGED <<Committed, DecommitInProgress>>
            \/ Committed' = FALSE /\ DecommitInProgress' = (Free < Samples)
        BY <3>2 DEF Decommit
      <4> QED
        BY <4>1, <4>2 DEF TypeOK
    <3> QED
      BY <1>3, <3>1, <3>2
  <2>3. connected' \in BOOLEAN /\ pin' \in {"none", "alive", "deleted"}
    BY <1>3 DEF ReleasePin, Commit, Decommit, TypeOK, encoder
  <2> QED
    BY <2>1, <2>2, <2>3 DEF TypeOK, mux
<1>4. CASE Deliver \/ ReleaseSample \/ MuxReleases
  <2>1. UNCHANGED encoder /\ UNCHANGED Committed /\ (DecommitInProgress' = FALSE \/ UNCHANGED DecommitInProgress)
    BY <1>4 DEF Deliver, ReleaseSample, MuxReleases, ReleaseBuffer, Elsewhere, allocator
  <2>2. shared' \in BOOLEAN /\ refused' \in BOOLEAN
    BY <1>4 DEF Deliver, ReleaseSample, MuxReleases, TypeOK
  <2> QED
    BY <2>1, <2>2 DEF TypeOK, encoder
<1>5. CASE \/ Delete \/ CopyIn \/ LookForRoom \/ WaitForRoom \/ Swap \/ AdvanceWrite \/ SignalWrite \/ Terminate
           \/ Create \/ CallWorker \/ AwaitReply \/ Close
           \/ GetRequest \/ Reply \/ CheckRequest \/ GetBuffer \/ WaitForSample \/ TestTerminating \/ LookForSound
           \/ WaitForSound \/ AdvanceRead \/ CopyOut
  <2>1. UNCHANGED <<Committed, DecommitInProgress, mux, encoder>>
    BY <1>5 DEF Delete, CopyIn, LookForRoom, WaitForRoom, Swap, AdvanceWrite, SignalWrite, Terminate, Create,
       CallWorker, AwaitReply, Close, GetRequest, Reply, CheckRequest, GetBuffer, WaitForSample, TestTerminating,
       LookForSound, WaitForSound, AdvanceRead, CopyOut, Elsewhere, allocator
  <2> QED
    BY <2>1 DEF TypeOK, mux, encoder
<1> QED
  BY <1>1, <1>2, <1>3, <1>4, <1>5 DEF Next, App, Worker

\* The allocator's counters do not become negative, and so keep within its samples.
LEMMA CounterTypes ==
  ASSUME TypeOK, CallInv, AllocInv, Next, AllocInv'
  PROVE  /\ Free' \in 0..Samples /\ held' \in 0..Samples /\ {Waiting, Sem}' \subseteq 0..1 /\ RefCount' \in 0..2
<1>0. AllocTypes
  BY AllocatorTypes
<1>1. Free' \in Nat /\ held' \in Nat /\ Waiting' \in Nat /\ Sem' \in Nat
  <2>1. CASE UNCHANGED <<Free, Waiting, Sem, held>>
    BY <1>0, <2>1 DEF AllocTypes
  <2>2. CASE Decommit \/ GetBuffer \/ WaitForSample
    BY <1>0, <2>2 DEF Decommit, GetBuffer, WaitForSample, NotifySample, mux, AllocTypes
  <2>3. CASE ReleaseSample \/ MuxReleases
    BY <1>0, <2>3 DEF ReleaseSample, MuxReleases, ReleaseBuffer, NotifySample, allocator, AllocTypes
  <2>4. CASE \/ WriteFrame \/ SetAudioFormat \/ Delete \/ (\E n \in 1..MaxPush : WriteAudioFrame(n))
             \/ CopyIn \/ LookForRoom \/ WaitForRoom \/ Swap \/ AdvanceWrite \/ SignalWrite \/ Terminate
             \/ Create \/ CallWorker \/ AwaitReply \/ Close \/ Commit \/ ReleasePin
    BY <2>1, <2>4 DEF WriteFrame, SetAudioFormat, Delete, WriteAudioFrame, Push, CopyIn, LookForRoom, WaitForRoom,
       Swap, AdvanceWrite, SignalWrite, Terminate, Create, CallWorker, AwaitReply, Close, Commit, ReleasePin,
       allocator, mux
  <2>5. CASE \/ GetRequest \/ Reply \/ CheckRequest \/ TestTerminating \/ LookForSound
             \/ WaitForSound \/ AdvanceRead \/ CopyOut \/ Deliver
    BY <2>1, <2>5 DEF GetRequest, Reply, CheckRequest, TestTerminating, LookForSound, WaitForSound, AdvanceRead,
       CopyOut, Deliver, allocator, mux
  <2> QED
    BY <2>2, <2>3, <2>4, <2>5 DEF Next, App, Worker
<1>2. Free' \in 0..Samples /\ held' \in 0..Samples
  <2>1. One(HasSample') \in Nat
    BY DEF One
  <2> QED
    BY <1>0, <1>1, <2>1 DEF AllocInv, AllocTypes
<1>3. Waiting' \in 0..1 /\ Sem' \in 0..1
  <2>1. One(worker' = "semaphore") \in 0..1
    BY DEF One
  <2> QED
    BY <1>1, <2>1 DEF AllocInv
<1>4. RefCount' \in 0..2
  BY DEF AllocInv, One
<1> QED
  BY <1>2, <1>3, <1>4

-----------------------------------------------------------------------------
(* The inductive invariant. *)

\* Nothing is committed, pushed or taken in the beginning.
LEMMA PinInit == Init => PinInv
<1> SUFFICES ASSUME Init PROVE PinInv
  OBVIOUS
<1>1. TypeOK
  BY Sizes, AudioPinAssumption DEF Init, TypeOK, Slots, Blocks, HasSample
<1>2. CallInv
  BY DEF Init, CallInv, UnderWay, Disconnected, Uncommitted
<1>3. AllocInv
  BY AudioPinAssumption DEF Init, AllocInv, Uncommitted, One, HasSample
<1>4. SoundInv
  <2>1. ~Handing /\ Filled = 0 /\ InRing = 0 /\ Taken = 0 /\ Written = 0 /\ ~At("swap") /\ ~At("advance")
    BY DEF Init, Handing, At, Filled, InRing, Ahead, Taken, Written, One
  <2>2. 0 * BufferSize = 0
    BY Sizes
  <2>3. FillInv
    BY <2>1, <2>2, Sizes, AudioPinAssumption DEF Init, FillInv
  <2>4. SlotsHold
    <3>1. \A s \in Slots : ~(Ahead(s) < 0)
      BY Sizes DEF Init, Ahead, Slots
    <3> QED
      BY <2>1, <3>1 DEF SlotsHold
  <2>5. SourceHeld /\ GapKept
    BY <2>1 DEF Init, SourceHeld, GapKept
  <2>6. OwnBlocks
    BY Sizes DEF Init, OwnBlocks, Slots
  <2> QED
    BY <2>3, <2>4, <2>5, <2>6 DEF SoundInv
<1> QED
  BY <1>1, <1>2, <1>3, <1>4 DEF PinInv

LEMMA PinStep == PinInv /\ [Next]_vars => PinInv'
<1> SUFFICES ASSUME PinInv, [Next]_vars PROVE PinInv'
  OBVIOUS
<1> USE DEF PinInv
<1>1. CASE Next
  <2>1. CallInv'
    BY <1>1, CallBegins, CallStep, WorkerStep DEF Next
  <2>2. AllocInv'
    BY <1>1, CallKeepsAlloc, WorkerKeepsAlloc DEF Next
  <2>3. SoundInv'
    BY <1>1, CallKeepsSound, WorkerKeepsSound DEF Next
  <2>4. todo' \in Seq(PushSteps \union OtherSteps)
    BY <2>1 DEF CallInv, Steps
  <2>5. TypeOK'
    <3>1. /\ {BufferReadPtr, BufferWritePtr, source}' \subseteq Slots
          /\ {BufferReadChange, BufferWriteChange, Terminating}' \subseteq BOOLEAN
      BY <1>1, RingTypes
    <3>2. /\ Buffers' \in [Slots -> Blocks] /\ PartialBuffer' \in Blocks /\ PartialBufferPos' \in 0..BufferSize
          /\ memory' \in [Blocks -> [0..BufferSize-1 -> 0..pushed']]
          /\ left' \in 0..MaxUnits /\ pushed' \in 0..MaxUnits
      BY <1>1, BufferTypes
    <3>3. /\ EventSend' \in BOOLEAN /\ EventComplete' \in BOOLEAN /\ param' \in {"init", "pause", "stop", "exit"}
          /\ next' \in {"request", "check", "gone"}
          /\ HasSample' \/ worker' \in {"none", "request", "reply", "complete", "check", "getBuffer", "semaphore", "gone"}
      BY <1>1, RequestTypes
    <3>4. /\ Committed' \in BOOLEAN /\ DecommitInProgress' \in BOOLEAN /\ shared' \in BOOLEAN /\ refused' \in BOOLEAN
          /\ connected' \in BOOLEAN /\ audioOk' \in BOOLEAN
          /\ pin' \in {"none", "alive", "deleted"} /\ frame' \in 0..MaxFrames
      BY <1>1, FlagTypes
    <3>5. /\ Free' \in 0..Samples /\ held' \in 0..Samples /\ {Waiting, Sem}' \subseteq 0..1 /\ RefCount' \in 0..2
      BY <1>1, <2>2, CounterTypes
    <3>6. delivered' \in 0..MaxUnits
      BY <1>1, DeliveredType
    <3>7. {BufferReadChange, BufferWriteChange, Terminating, EventSend, EventComplete, Committed, DecommitInProgress,
           shared, refused, connected, audioOk}' \subseteq BOOLEAN
      BY <3>1, <3>3, <3>4
    <3> QED
      BY <2>4, <3>1, <3>2, <3>3, <3>4, <3>5, <3>6, <3>7 DEF TypeOK
  <2> QED
    BY <2>1, <2>2, <2>3, <2>5
<1>2. CASE UNCHANGED vars
  <2>1. /\ UNCHANGED <<todo, left, pushed, worker, next, source, delivered, pin, connected, audioOk, frame>>
        /\ UNCHANGED <<allocator, mux, buffers, ring, request>>
    BY <1>2 DEF vars, app, stream, encoder
  <2>2. CallInv'
    BY <2>1, CallStays DEF allocator, Uncommitted
  <2>3. AllocInv'
    BY <2>1, AllocStays DEF mux
  <2>4. SoundInv'
    <3>1. pushed + left' <= MaxUnits
      BY <2>1 DEF SoundInv, FillInv
    <3> QED
      BY <2>1, <3>1, SoundStays DEF ring
  <2>5. TypeOK'
    BY <2>1 DEF TypeOK, HasSample, allocator, mux, buffers, ring, request
  <2> QED
    BY <2>2, <2>3, <2>4, <2>5
<1> QED
  BY <1>1, <1>2

THEOREM PinInvariant == Spec => []PinInv
BY PinInit, PinStep, PTL DEF Spec

\* The worker copies out of the slot it has given back the sound that was pushed next,
\* whatever the program pushes into the ring meanwhile (AudioSourcePin::FillBuffer,
\* PushData): the free slot the program leaves is what keeps the two apart.
THEOREM SoundCopiedWhole == FairSpec => []SoundIntact
<1>1. PinInv => SoundIntact
  <2> SUFFICES ASSUME PinInv PROVE SoundIntact
    OBVIOUS
  <2>1. worker = "copyOut" => Holds(Buffers[source], delivered)
    BY DEF PinInv, SoundInv, SourceHeld
  <2> QED
    BY <2>1 DEF PinInv, SoundIntact, Holds
<1> QED
  BY <1>1, PinInvariant, PTL DEF FairSpec

\* When the pin is deleted its worker has ended, wherever it was when the destructor began,
\* and the allocator lives on for every sample somebody has (CSourceStream::Inactive,
\* CBaseAllocator::Decommit and ReleaseBuffer).
THEOREM DeletedWhenUnused == FairSpec => []NothingUsedAfterDelete
<1>1. PinInv => NothingUsedAfterDelete
  <2> SUFFICES ASSUME PinInv PROVE NothingUsedAfterDelete
    OBVIOUS
  <2>1. pin = "deleted" => worker \in {"none", "gone"}
    BY DEF PinInv, CallInv, Disconnected
  <2>2. held > 0 \/ HasSample => RefCount > 0
    <3> SUFFICES ASSUME held > 0 \/ HasSample PROVE RefCount > 0
      OBVIOUS
    <3>1. AllocTypes /\ AllocInv
      BY AllocatorTypes DEF PinInv
    <3>2. Free < Samples
      BY <3>1 DEF AllocInv, AllocTypes, One
    <3>3. Committed \/ DecommitInProgress
      BY <3>1, <3>2 DEF AllocInv, AllocTypes, Uncommitted
    <3> QED
      BY <3>1, <3>3 DEF AllocInv, AllocTypes, One
  <2> QED
    BY <2>1, <2>2 DEF NothingUsedAfterDelete
<1> QED
  BY <1>1, PinInvariant, PTL DEF FairSpec
=============================================================================
