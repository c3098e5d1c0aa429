--------------------------- MODULE HandoverProofs ---------------------------
(***************************************************************************)
(* Theorems about the two components that hand work to another thread and  *)
(* promise EncoderFifo: the encoder thread (MTProxy), for every number of  *)
(* producers, every MAX_QUEUED and every number of calls, and the frame    *)
(* ring of the video pin (DShowRing), for a ring of any size and any       *)
(* number of frames. The two systems share nothing: the theorems of one    *)
(* have its specification (Spec, RingSpec) as their hypothesis.            *)
(***************************************************************************)
EXTENDS MTProxy, DShowRing, FiniteSetTheorems, SequenceTheorems, TLAPS

-----------------------------------------------------------------------------
(* The encoder thread. *)

\* The producers that hold a place granted by the semaphore.
Granted == {p \in Producers : pc[p] = "granted"}

\* The place of the entry QueuePop has unlinked and not yet given back.
InHand == IF runner \in {"release", "drainRelease"} THEN 1 ELSE 0

\* Who is inside a call has a command, and so has the runner between the list
\* and the encoder.
CommandsInHand ==
  /\ \A p \in Producers : pc[p] # "idle" => call[p] \in Command
  /\ runner \in {"release", "execute", "drainRelease"} => hand \in Command

\* The places add up: this bounds the semaphore from above, which its type needs.
SlotInv == TypeOK /\ CommandsInHand /\ SlotsConserved

\* Finitely many threads are past the semaphore without a place in the list.
LEMMA GrantedFinite == IsFiniteSet(Granted) /\ Cardinality(Granted) \in Nat
<1>1. IsFiniteSet(Granted)
  BY ProxyAssumption, FS_Subset DEF Granted, Producers
<1> QED
  BY <1>1, FS_CardinalityType

\* SlotsConserved, with the counted sets named.
LEMMA SlotsDef ==
  SlotsConserved <=> semaphore + Len(queue) + Cardinality(Granted) + InHand = MaxQueued
  BY DEF SlotsConserved, Granted, InHand

\* A command carries the kind of argument its method was called with.
LEMMA CommandArgs ==
  ASSUME NEW c \in Command
  PROVE  /\ c.cmd = "SETSIZE" => c.arg \in Sizes
         /\ c.cmd = "SETAUDIOFORMAT" => c.arg \in Formats
BY DEF Command

\* The constructor starts with an empty list and all places free.
THEOREM InitSlotInv == Init => SlotInv
<1> SUFFICES ASSUME Init PROVE SlotInv
  OBVIOUS
<1>1. TypeOK
  <2>1. queue \in Seq(Command) /\ accepted \in Seq(Command) /\ done \in Seq(Command)
    BY DEF Init
  <2>2. semaphore \in 0..MaxQueued /\ calls \in 0..MaxCalls
    BY ProxyAssumption DEF Init
  <2> QED
    BY <2>1, <2>2 DEF Init, TypeOK
<1>2. Granted = {} /\ InHand = 0 /\ Len(queue) = 0
  BY DEF Init, Granted, InHand
<1>3. SlotsConserved
  BY <1>2, FS_EmptySet, ProxyAssumption, SlotsDef DEF Init
<1>4. CommandsInHand
  BY DEF Init, CommandsInHand
<1> QED
  BY <1>1, <1>3, <1>4 DEF SlotInv

\* Starting a call takes no place yet.
LEMMA CallSlotInv ==
  ASSUME SlotInv, NEW p \in Producers, NEW c \in Command, Call(p, c) PROVE SlotInv'
<1>1. pc \in [Producers -> {"idle", "waiting", "granted", "returning"}]
  BY DEF SlotInv, TypeOK
<1>2. TypeOK'
  <2>1. pc' \in [Producers -> {"idle", "waiting", "granted", "returning"}]
    BY <1>1 DEF Call
  <2>2. call' \in [Producers -> Command \union {NoCommand}]
    BY DEF Call, SlotInv, TypeOK
  <2>3. calls' \in 0..MaxCalls
    BY ProxyAssumption DEF Call, SlotInv, TypeOK
  <2> QED
    BY <2>1, <2>2, <2>3 DEF SlotInv, TypeOK, Call, queueVars, proxyVars, runVars, endVars
<1>3. Granted' = Granted /\ InHand' = InHand
  BY <1>1 DEF Call, Granted, InHand, runVars
<1>4. SlotsConserved'
  BY <1>3, SlotsDef DEF SlotInv, SlotsConserved, Call, queueVars, runVars, Granted, InHand
<1>5. CommandsInHand'
  BY <1>1 DEF Call, CommandsInHand, SlotInv, TypeOK, runVars
<1> QED
  BY <1>2, <1>4, <1>5 DEF SlotInv

\* Nor do the other steps of a call: a place is taken at the semaphore, handed
\* to the list by QueueAppend, and a dropped command never had one.
LEMMA ProducerSlotInv ==
  ASSUME SlotInv, NEW p \in Producers,
         AcquireSlot(p) \/ DropCommand(p) \/ QueueAppend(p) \/ Return(p)
  PROVE  SlotInv'
<1> USE DEF queueVars, proxyVars, callVars, runVars, endVars
<1>t. /\ pc \in [Producers -> {"idle", "waiting", "granted", "returning"}]
      /\ call \in [Producers -> Command \union {NoCommand}]
      /\ semaphore \in Nat /\ MaxQueued \in Nat
      /\ queue \in Seq(Command) /\ Len(queue) \in Nat
      /\ Cardinality(Granted) \in Nat /\ IsFiniteSet(Granted) /\ InHand \in {0, 1}
      /\ semaphore + Len(queue) + Cardinality(Granted) + InHand = MaxQueued
  BY ProxyAssumption, GrantedFinite, SlotsDef DEF SlotInv, TypeOK, InHand
<1>c. \A q \in Producers : pc[q] # "idle" => call[q] \in Command
  BY DEF SlotInv, CommandsInHand
<1>1. CASE AcquireSlot(p)
  <2>1. p \notin Granted /\ Granted' = Granted \union {p}
    BY <1>1, <1>t DEF AcquireSlot, Granted
  <2>2. Cardinality(Granted') = Cardinality(Granted) + 1
    BY <2>1, <1>t, FS_AddElement
  <2>3. SlotsConserved'
    BY <1>1, <1>t, <2>2 DEF AcquireSlot, SlotsConserved, Granted, InHand
  <2>4. pc' \in [Producers -> {"idle", "waiting", "granted", "returning"}]
    BY <1>1, <1>t DEF AcquireSlot
  <2>5. semaphore' \in 0..MaxQueued
    BY <1>1, <1>t DEF AcquireSlot
  <2>6. CommandsInHand'
    BY <1>1, <1>t, <1>c DEF AcquireSlot, SlotInv, CommandsInHand
  <2> QED
    BY <1>1, <2>3, <2>4, <2>5, <2>6 DEF AcquireSlot, SlotInv, TypeOK
<1>2. CASE DropCommand(p)
  <2>1. Granted' = Granted
    BY <1>2, <1>t DEF DropCommand, Granted
  <2>2. SlotsConserved'
    BY <1>2, <1>t, <2>1 DEF DropCommand, SlotsConserved, Granted, InHand
  <2>3. pc' \in [Producers -> {"idle", "waiting", "granted", "returning"}]
    BY <1>2, <1>t DEF DropCommand
  <2>4. lostSetup' \in BOOLEAN
    BY <1>2 DEF DropCommand
  <2>5. CommandsInHand'
    BY <1>2, <1>t, <1>c DEF DropCommand, SlotInv, CommandsInHand
  <2> QED
    BY <1>2, <2>2, <2>3, <2>4, <2>5 DEF DropCommand, SlotInv, TypeOK
<1>3. CASE QueueAppend(p)
  <2>1. p \in Granted /\ Granted' = Granted \ {p}
    BY <1>3, <1>t DEF QueueAppend, Granted
  <2>2. Cardinality(Granted') = Cardinality(Granted) - 1
    BY <2>1, <1>t, FS_RemoveElement
  <2>3. Len(queue') = Len(queue) + 1
    BY <1>3, <1>t DEF QueueAppend
  <2>4. SlotsConserved'
    BY <1>3, <1>t, <2>2, <2>3 DEF QueueAppend, SlotsConserved, Granted, InHand
  <2>5. pc' \in [Producers -> {"idle", "waiting", "granted", "returning"}]
    BY <1>3, <1>t DEF QueueAppend
  <2>6. call[p] \in Command
    BY <1>3, <1>t, <1>c DEF QueueAppend
  <2>7. queue' \in Seq(Command) /\ accepted' \in Seq(Command)
    BY <1>3, <1>t, <2>6 DEF QueueAppend, SlotInv, TypeOK
  <2>8. CommandsInHand'
    BY <1>3, <1>t, <1>c DEF QueueAppend, SlotInv, CommandsInHand
  <2> QED
    BY <1>3, <2>4, <2>5, <2>7, <2>8 DEF QueueAppend, SlotInv, TypeOK
<1>4. CASE Return(p)
  <2>1. Granted' = Granted
    BY <1>4, <1>t DEF Return, Granted
  <2>2. SlotsConserved'
    BY <1>4, <1>t, <2>1 DEF Return, SlotsConserved, Granted, InHand
  <2>3. /\ pc' \in [Producers -> {"idle", "waiting", "granted", "returning"}]
        /\ call' \in [Producers -> Command \union {NoCommand}]
    BY <1>4, <1>t DEF Return
  <2>4. call[p] \in Command
    BY <1>4, <1>c DEF Return
  <2>5. size' \in Sizes \union {None} /\ wfx' \in Formats \union {None}
    BY <1>4, <2>4, CommandArgs DEF Return, SlotInv, TypeOK
  <2>6. CommandsInHand'
    BY <1>4, <1>t, <1>c DEF Return, SlotInv, CommandsInHand
  <2> QED
    BY <1>4, <2>2, <2>3, <2>5, <2>6 DEF Return, SlotInv, TypeOK
<1> QED
  BY <1>1, <1>2, <1>3, <1>4

\* The encoder thread gives back exactly the place of the command it took out.
LEMMA RunnerSlotInv == ASSUME SlotInv, QueueRunner PROVE SlotInv'
<1> USE DEF queueVars, proxyVars, callVars, runVars, endVars
<1>t. /\ semaphore \in Nat /\ MaxQueued \in Nat
      /\ queue \in Seq(Command) /\ Len(queue) \in Nat
      /\ Cardinality(Granted) \in Nat /\ InHand \in {0, 1}
      /\ semaphore + Len(queue) + Cardinality(Granted) + InHand = MaxQueued
  BY ProxyAssumption, GrantedFinite, SlotsDef DEF SlotInv, TypeOK, InHand
<1>1. CASE RunnerWait
  <2>1. SlotsConserved'
    BY <1>1, <1>t DEF RunnerWait, SlotsConserved, Granted, InHand
  <2>2. CommandsInHand'
    BY <1>1 DEF RunnerWait, SlotInv, CommandsInHand
  <2> QED
    BY <1>1, <2>1, <2>2 DEF RunnerWait, SlotInv, TypeOK
<1>2. ASSUME NEW from, NEW found \in {"release", "drainRelease"}, NEW empty \in {"wait", "ended"},
             from \in {"pop", "drain"}, QueuePop(from, found, empty)
      PROVE  SlotInv'
  <2>1. CASE queue # <<>>
    <3>1. /\ hand' = Head(queue) /\ queue' = Tail(queue) /\ runner' = found
          /\ Head(queue) \in Command /\ Tail(queue) \in Seq(Command)
          /\ Len(Tail(queue)) = Len(queue) - 1
      BY <1>2, <1>t, <2>1, HeadTailProperties DEF QueuePop
    <3>2. SlotsConserved'
      <4>1. InHand = 0 /\ InHand' = 1 /\ Granted' = Granted /\ semaphore' = semaphore
        BY <1>2, <3>1 DEF QueuePop, InHand, Granted
      <4>2. Len(queue') = Len(queue) - 1
        BY <3>1
      <4>3. semaphore' + Len(queue') + Cardinality(Granted') + InHand' = MaxQueued
        BY <4>1, <4>2, <1>t
      <4> QED
        BY <4>3 DEF SlotsConserved, Granted, InHand
    <3>3. CommandsInHand'
      BY <1>2, <3>1 DEF QueuePop, SlotInv, CommandsInHand
    <3> QED
      BY <1>2, <3>1, <3>2, <3>3 DEF QueuePop, SlotInv, TypeOK
  <2>2. CASE queue = <<>>
    <3>1. SlotsConserved'
      BY <1>2, <1>t, <2>2 DEF QueuePop, SlotsConserved, Granted, InHand
    <3>2. CommandsInHand'
      BY <1>2, <2>2 DEF QueuePop, SlotInv, CommandsInHand
    <3> QED
      BY <1>2, <2>2, <3>1, <3>2 DEF QueuePop, SlotInv, TypeOK
  <2> QED
    BY <2>1, <2>2
<1>3. CASE Pop
  BY <1>2, <1>3 DEF Pop
<1>4. CASE DrainPop
  BY <1>2, <1>4 DEF DrainPop
<1>5. CASE ReleaseSlot
  <2>1. SlotsConserved'
    BY <1>5, <1>t DEF ReleaseSlot, SlotsConserved, Granted, InHand
  <2>2. CommandsInHand'
    BY <1>5 DEF ReleaseSlot, SlotInv, CommandsInHand
  <2>3. semaphore' \in 0..MaxQueued
    BY <1>5, <1>t DEF ReleaseSlot, InHand
  <2> QED
    BY <1>5, <2>1, <2>2, <2>3 DEF ReleaseSlot, SlotInv, TypeOK
<1>6. CASE Execute
  <2>1. hand \in Command
    BY <1>6 DEF Execute, SlotInv, CommandsInHand
  <2>2. encoder' \in [size : Sizes \union {None}, format : Formats \union {None}]
    BY <1>6, <2>1, CommandArgs DEF Execute, SlotInv, TypeOK
  <2>3. done' \in Seq(Command)
    BY <1>6, <2>1 DEF Execute, SlotInv, TypeOK
  <2>4. SlotsConserved'
    BY <1>6, <1>t DEF Execute, SlotsConserved, Granted, InHand
  <2>5. CommandsInHand'
    BY <1>6 DEF Execute, SlotInv, CommandsInHand
  <2> QED
    BY <1>6, <2>2, <2>3, <2>4, <2>5 DEF Execute, SlotInv, TypeOK
<1>7. CASE DrainRelease
  <2>1. SlotsConserved'
    BY <1>7, <1>t DEF DrainRelease, SlotsConserved, Granted, InHand
  <2>2. CommandsInHand'
    BY <1>7 DEF DrainRelease, SlotInv, CommandsInHand
  <2>3. semaphore' \in 0..MaxQueued
    BY <1>7, <1>t DEF DrainRelease, InHand
  <2> QED
    BY <1>7, <2>1, <2>2, <2>3 DEF DrainRelease, SlotInv, TypeOK
<1> QED
  BY <1>1, <1>3, <1>4, <1>5, <1>6, <1>7 DEF QueueRunner

\* Types, the commands in hand and the places add up in every reachable state.
THEOREM SlotInvariant == Spec => []SlotInv
<1>1. ASSUME SlotInv, [Next]_vars PROVE SlotInv'
  <2>1. ASSUME NEW p \in Producers,
               SetSize(p) \/ WriteFrame(p) \/ SetAudioFormat(p) \/ WriteAudioFrame(p)
        PROVE  SlotInv'
    <3>1. PICK c \in Command : Call(p, c)
      <4>1. /\ \A x \in Sizes : [cmd |-> "SETSIZE", arg |-> x] \in Command
                               /\ [cmd |-> "WRITEFRAME", arg |-> x] \in Command
            /\ \A x \in Formats : [cmd |-> "SETAUDIOFORMAT", arg |-> x] \in Command
                                 /\ [cmd |-> "WRITEAUDIOFRAME", arg |-> x] \in Command
        BY DEF Command
      <4>2. (size # None => size \in Sizes) /\ (wfx # None => wfx \in Formats)
        BY <1>1 DEF SlotInv, TypeOK
      <4> QED
        BY <2>1, <4>1, <4>2 DEF SetSize, WriteFrame, SetAudioFormat, WriteAudioFrame
    <3> QED
      BY <1>1, <3>1, CallSlotInv
  <2>2. ASSUME NEW p \in Producers,
               AcquireSlot(p) \/ DropCommand(p) \/ QueueAppend(p) \/ Return(p)
        PROVE  SlotInv'
    BY <1>1, <2>2, ProducerSlotInv
  <2>3. CASE QueueRunner
    BY <1>1, <2>3, RunnerSlotInv
  <2>4. CASE BeginDelete \/ EndDelete \/ UNCHANGED vars
    <3> USE DEF vars, queueVars, proxyVars, callVars, runVars, endVars
    <3>1. SlotsConserved'
      BY <1>1, <2>4 DEF BeginDelete, EndDelete, SlotInv, SlotsConserved
    <3>2. CommandsInHand'
      BY <1>1, <2>4 DEF BeginDelete, EndDelete, SlotInv, CommandsInHand
    <3> QED
      BY <1>1, <2>4, <3>1, <3>2 DEF BeginDelete, EndDelete, SlotInv, TypeOK
  <2> QED
    BY <1>1, <2>1, <2>2, <2>3, <2>4 DEF Next, Producers
<1> QED
  BY InitSlotInv, <1>1, PTL DEF Spec

\* The proxy's state, and the real encoder's, keep their types, and no place in the
\* list is lost or made up, whatever the threads do.
THEOREM SlotsAreConserved == Spec => []ProxyIsSound
<1>1. SlotInv => ProxyIsSound
  BY DEF SlotInv, ProxyIsSound
<1> QED
  BY SlotInvariant, <1>1, PTL

\* So the list never holds more than MAX_QUEUED commands.
THEOREM ListIsBounded == Spec => [](Len(queue) <= MaxQueued)
<1>1. SlotInv => Len(queue) <= MaxQueued
  BY GrantedFinite, SlotsDef, ProxyAssumption DEF SlotInv, TypeOK, InHand
<1> QED
  BY SlotInvariant, <1>1, PTL

-----------------------------------------------------------------------------
(* The proxy is a FIFO of commands.                                          *)

Draining == {"drain", "drainRelease", "ended"}

\* The command between the list and the encoder.
Held == IF runner \in {"release", "execute"} THEN <<hand>> ELSE <<>>

\* Until the runner throws entries away, what was appended is what was executed,
\* what is in hand and what is in the list, in this order; the destructor runs
\* alone, and the runner is through with the list before it ends.
PipeInv ==
  /\ runner \notin Draining => accepted = done \o (Held \o queue)
  /\ Len(done) + Len(queue) <= Len(accepted)
  /\ life = "alive" => ~queueExit /\ runner \notin Draining
  /\ life # "alive" => \A p \in Producers : pc[p] = "idle"
  /\ life = "deleted" => runner = "ended"
  /\ runner = "ended" => queue = <<>>

\* Appending at the end of what waits is appending to the whole.
LEMMA AppendBehind ==
  ASSUME NEW s \in Seq(Command), NEW t \in Seq(Command), NEW x \in Command
  PROVE  Append(s \o t, x) = s \o Append(t, x)
OBVIOUS

\* Taking the first entry in hand changes nothing in the order ...
LEMMA TakeFirst ==
  ASSUME NEW q \in Seq(Command), q # <<>>
  PROVE  /\ <<Head(q)>> \o Tail(q) = q
         /\ Tail(q) = SubSeq(q, 1 + 1, Len(q))
         /\ Head(q) \in Command /\ Tail(q) \in Seq(Command) /\ Len(Tail(q)) = Len(q) - 1
BY HeadTailProperties, TailIsSubSeq

\* ... nor does passing on what is in hand.
LEMMA PassOn ==
  ASSUME NEW s \in Seq(Command), NEW q \in Seq(Command), NEW x \in Command
  PROVE  /\ Append(s, x) \o q = s \o (<<x>> \o q)
         /\ Head(<<x>> \o q) = x /\ Tail(<<x>> \o q) = q
         /\ <<x>> \o q # <<>> /\ Len(<<x>> \o q) = Len(q) + 1
OBVIOUS

\* Every step keeps the order.
LEMMA PipeStep ==
  ASSUME SlotInv, SlotInv', PipeInv, [Next]_vars PROVE PipeInv'
<1> USE DEF queueVars, proxyVars, callVars, runVars, endVars
<1>t. /\ queue \in Seq(Command) /\ accepted \in Seq(Command) /\ done \in Seq(Command)
      /\ queue' \in Seq(Command) /\ accepted' \in Seq(Command) /\ done' \in Seq(Command)
      /\ pc \in [Producers -> {"idle", "waiting", "granted", "returning"}]
      /\ Held \in Seq(Command)
  BY DEF SlotInv, TypeOK, CommandsInHand, Held
<1>1. ASSUME NEW p \in Producers, NEW c, Call(p, c) PROVE PipeInv'
  BY <1>1 DEF Call, PipeInv, Held
<1>2. ASSUME NEW p \in Producers, AcquireSlot(p) \/ DropCommand(p) \/ Return(p) PROVE PipeInv'
  <2>1. UNCHANGED <<queue, accepted, done, hand, runner, life, queueExit>> /\ life = "alive"
    BY <1>2 DEF AcquireSlot, DropCommand, Return, PipeInv, SlotInv, TypeOK
  <2> QED
    BY <2>1 DEF PipeInv, Held
<1>3. ASSUME NEW p \in Producers, QueueAppend(p) PROVE PipeInv'
  <2>1. call[p] \in Command /\ life = "alive" /\ runner \notin Draining
    BY <1>3 DEF QueueAppend, PipeInv, SlotInv, CommandsInHand
  <2>2. /\ queue' = Append(queue, call[p]) /\ accepted' = Append(accepted, call[p])
        /\ UNCHANGED <<done, hand, runner, life, queueExit>>
    BY <1>3 DEF QueueAppend
  <2>3. accepted' = done' \o (Held' \o queue')
    <3>1. accepted = done \o (Held \o queue)
      BY <2>1 DEF PipeInv
    <3>2. Held \o queue \in Seq(Command)
      BY <1>t
    <3>3. Held \o queue' = Append(Held \o queue, call[p])
      BY <1>t, <2>1, <2>2, AppendBehind
    <3>4. Append(done \o (Held \o queue), call[p]) = done \o Append(Held \o queue, call[p])
      BY <1>t, <2>1, <3>2, AppendBehind
    <3>5. Held' = Held
      BY <2>2 DEF Held
    <3> QED
      BY <2>2, <3>1, <3>3, <3>4, <3>5
  <2>4. Len(queue') = Len(queue) + 1 /\ Len(accepted') = Len(accepted) + 1
    BY <1>t, <2>1, <2>2
  <2> QED
    BY <1>t, <2>1, <2>2, <2>3, <2>4 DEF PipeInv, Draining
<1>4. CASE BeginDelete
  BY <1>4 DEF BeginDelete, PipeInv, Held
<1>5. CASE EndDelete
  BY <1>5 DEF EndDelete, PipeInv, Held
<1>6. CASE RunnerWait
  BY <1>6 DEF RunnerWait, PipeInv, Held, Draining
<1>7. CASE Pop
  <2>1. CASE queue # <<>>
    <3>1. /\ runner = "pop" /\ runner' = "release" /\ hand' = Head(queue)
          /\ queue' = Tail(queue)
          /\ UNCHANGED <<done, accepted, life, queueExit, pc>>
      BY <1>7, <2>1 DEF Pop, QueuePop
    <3>2. Held \o queue = queue /\ Held' \o queue' = queue /\ Len(queue') = Len(queue) - 1
      BY <1>t, <2>1, <3>1, TakeFirst, ConcatEmptySeq DEF Held
    <3>3. accepted = done \o queue /\ life # "deleted"
      BY <3>1, <3>2 DEF PipeInv, Draining
    <3>4. Len(done') + Len(queue') <= Len(accepted')
      BY <1>t, <3>1, <3>2 DEF PipeInv
    <3>5. accepted' = done' \o (Held' \o queue')
      BY <3>1, <3>2, <3>3
    <3> QED
      BY <3>1, <3>3, <3>4, <3>5 DEF PipeInv, Draining
  <2>2. CASE queue = <<>>
    BY <1>7, <2>2 DEF Pop, QueuePop, PipeInv, Held, Draining
  <2> QED
    BY <2>1, <2>2
<1>8. CASE ReleaseSlot
  BY <1>8 DEF ReleaseSlot, PipeInv, Held, Draining
<1>9. CASE Execute
  <2>1. hand \in Command /\ Held = <<hand>> /\ Held' = <<>> /\ done' = Append(done, hand)
        /\ UNCHANGED <<queue, accepted, life, queueExit, pc>> /\ runner' = "pop"
    BY <1>9 DEF Execute, SlotInv, CommandsInHand, Held
  <2>2. accepted = done \o (<<hand>> \o queue)
    BY <1>9, <2>1 DEF Execute, PipeInv, Draining
  <2>3. accepted' = done' \o (Held' \o queue')
    BY <1>t, <2>1, <2>2, PassOn, ConcatEmptySeq
  <2>4. Len(done') + Len(queue') <= Len(accepted')
    BY <1>t, <2>1, <2>3, ConcatProperties, ConcatEmptySeq
  <2>5. life # "deleted"
    BY <1>9 DEF Execute, PipeInv
  <2> QED
    BY <2>1, <2>3, <2>4, <2>5 DEF PipeInv, Draining
<1>10. CASE DrainPop
  <2>1. CASE queue # <<>>
    <3>1. Len(queue') = Len(queue) - 1
      BY <1>10, <1>t, <2>1, TakeFirst DEF DrainPop, QueuePop
    <3> QED
      BY <1>10, <1>t, <2>1, <3>1 DEF DrainPop, QueuePop, PipeInv, Draining
  <2>2. CASE queue = <<>>
    BY <1>10, <2>2 DEF DrainPop, QueuePop, PipeInv, Draining
  <2> QED
    BY <2>1, <2>2
<1>11. CASE DrainRelease
  BY <1>11 DEF DrainRelease, PipeInv, Draining
<1>12. CASE UNCHANGED vars
  BY <1>12 DEF vars, PipeInv, Held
<1> QED
  BY <1>1, <1>2, <1>3, <1>4, <1>5, <1>6, <1>7, <1>8, <1>9, <1>10, <1>11, <1>12
     DEF Next, QueueRunner, SetSize, WriteFrame, SetAudioFormat, WriteAudioFrame, Producers

\* No command is lost, doubled or overtaken before the destructor throws away what
\* is still in the list.
THEOREM PipeInvariant == Spec => []PipeInv
<1>1. Init => PipeInv
  BY DEF Init, PipeInv, Held, Draining
<1> QED
  BY <1>1, SlotInvariant, PipeStep, PTL DEF Spec

\* What the abstract FIFO sees of the proxy.
Pending == Held \o queue
Phase ==
  CASE life = "alive" -> "open"
    [] life = "closing" -> IF accepted = done \o queue \/ runner \in {"release", "execute"}
                           THEN "closing" ELSE "discarding"
    [] life = "deleted" -> "closed"

\* A step that changes none of it is a stutter of the FIFO.
LEMMA Stutter ==
  ASSUME Pending' = Pending, done' = done, Phase' = Phase PROVE UNCHANGED Fifo!fifoVars
BY DEF Fifo!fifoVars, Pending, Phase, Held

\* While the proxy is not torn down, or its runner still executes, the order is
\* kept; that is when the FIFO is open or closing.
PhaseOfLife ==
  /\ life = "alive" => Phase = "open"
  /\ life = "closing" /\ runner \notin Draining => Phase = "closing"
  /\ life = "closing" => Phase \in {"closing", "discarding"}
  /\ life = "deleted" => Phase = "closed"

LEMMA PhaseOf == SlotInv /\ PipeInv => PhaseOfLife
<1> SUFFICES ASSUME TypeOK, PipeInv PROVE PhaseOfLife
  BY DEF SlotInv
<1>1. CASE runner \in {"release", "execute"}
  BY <1>1 DEF Phase, TypeOK, PhaseOfLife
<1>2. CASE runner \in {"wait", "pop"}
  <2>1. <<>> \o queue = queue
    BY ConcatEmptySeq DEF TypeOK
  <2>2. accepted = done \o queue
    BY <1>2, <2>1 DEF PipeInv, Held, Draining
  <2> QED
    BY <2>2 DEF Phase, TypeOK, PhaseOfLife
<1>3. CASE runner \in Draining
  BY <1>3 DEF Phase, TypeOK, Draining, PhaseOfLife
<1> QED
  BY <1>1, <1>2, <1>3 DEF TypeOK, Draining

\* The same after a step.
LEMMA PhaseAfter == SlotInv' /\ PipeInv' => PhaseOfLife'
  BY PhaseOf, PTL

\* The steps of a call: only the append shows, as the abstract Accept, and the
\* semaphore has kept a place for it.
LEMMA ProducerRefines ==
  ASSUME SlotInv, PipeInv, SlotInv', PipeInv', NEW p \in Producers,
         (\E c : Call(p, c)) \/ AcquireSlot(p) \/ DropCommand(p) \/ QueueAppend(p) \/ Return(p)
  PROVE  [Fifo!Next]_Fifo!fifoVars
<1> USE DEF queueVars, proxyVars, callVars, runVars, endVars
<1>1. CASE (\E c : Call(p, c)) \/ AcquireSlot(p) \/ DropCommand(p) \/ Return(p)
  <2>1. UNCHANGED <<queue, accepted, done, hand, runner, life>>
    BY <1>1 DEF Call, AcquireSlot, DropCommand, Return
  <2>2. Pending' = Pending /\ Phase' = Phase
    BY <2>1 DEF Pending, Phase, Held
  <2> QED
    BY <2>1, <2>2, Stutter
<1>2. CASE QueueAppend(p)
  <2>1. /\ call[p] \in Command /\ life = "alive"
        /\ Phase = "open" /\ Phase' = "open"
    <3>1. call[p] \in Command /\ life = "alive" /\ life' = "alive"
      BY <1>2 DEF QueueAppend, SlotInv, TypeOK, CommandsInHand, PipeInv
    <3> QED
      BY <3>1 DEF Phase
  <2>2. queue \in Seq(Command) /\ Held \in Seq(Command)
    BY DEF SlotInv, TypeOK, CommandsInHand, Held
  <2>3. Pending' = Append(Pending, call[p]) /\ done' = done
    BY <1>2, <2>1, <2>2, AppendBehind DEF QueueAppend, Pending, Held
  <2>4. Len(Pending) < MaxQueued + 1
    <3>1. semaphore + Len(queue) + Cardinality(Granted) + InHand = MaxQueued
      BY SlotsDef DEF SlotInv
    <3>2. Granted # {} /\ IsFiniteSet(Granted) /\ Cardinality(Granted) \in Nat
      BY <1>2, GrantedFinite DEF QueueAppend, Granted
    <3>3. Cardinality(Granted) # 0
      BY <3>2, FS_EmptySet
    <3>4. Len(queue) \in Nat /\ Len(Held) <= 1 /\ Len(Held) \in Nat
      BY <2>2 DEF Held
    <3>5. semaphore \in Nat /\ InHand \in {0, 1} /\ MaxQueued \in Nat
      BY ProxyAssumption DEF SlotInv, TypeOK, InHand
    <3>6. Len(queue) < MaxQueued
      BY <3>1, <3>2, <3>3, <3>4, <3>5
    <3>7. Len(Pending) = Len(Held) + Len(queue)
      BY <2>2, ConcatProperties DEF Pending
    <3> QED
      BY <3>4, <3>5, <3>6, <3>7
  <2>5. Fifo!Accept(call[p])
    BY <2>1, <2>3, <2>4 DEF Fifo!Accept, Pending, Phase, Held
  <2> QED
    BY <2>1, <2>5 DEF Fifo!Next
<1> QED
  BY <1>1, <1>2

\* The runner: executing a command is the abstract Deliver, taking an entry out to
\* throw it away is Discard, all else does not show.
LEMMA RunnerRefines ==
  ASSUME SlotInv, PipeInv, SlotInv', PipeInv', QueueRunner
  PROVE  [Fifo!Next]_Fifo!fifoVars
<1> USE DEF queueVars, proxyVars, callVars, runVars, endVars
<1>t. /\ queue \in Seq(Command) /\ accepted \in Seq(Command) /\ done \in Seq(Command)
      /\ TypeOK /\ TypeOK' /\ life \in {"alive", "closing", "deleted"}
  BY DEF SlotInv, TypeOK
<1>1. CASE RunnerWait
  <2>1. Pending' = Pending
    BY <1>1 DEF RunnerWait, Pending, Held
  <2>2. Phase' = Phase
    BY <1>1 DEF RunnerWait, Phase
  <2> QED
    BY <1>1, <2>1, <2>2, Stutter DEF RunnerWait
<1>2. CASE Pop
  <2>1. Pending' = Pending
    <3>1. CASE queue # <<>>
      BY <1>2, <3>1, <1>t, TakeFirst, ConcatEmptySeq DEF Pop, QueuePop, Pending, Held
    <3>2. CASE queue = <<>>
      BY <1>2, <3>2 DEF Pop, QueuePop, Pending, Held
    <3> QED
      BY <3>1, <3>2
  <2>2. runner \notin Draining /\ runner' \notin Draining /\ life' = life /\ life # "deleted"
    BY <1>2 DEF Pop, QueuePop, Draining, PipeInv
  <2>3. Phase = IF life = "alive" THEN "open" ELSE "closing"
    BY <1>t, <2>2, PhaseOf DEF PhaseOfLife
  <2>4. Phase' = IF life = "alive" THEN "open" ELSE "closing"
    BY <1>t, <2>2, PhaseAfter DEF PhaseOfLife
  <2> QED
    BY <1>2, <2>1, <2>3, <2>4, Stutter DEF Pop, QueuePop
<1>3. CASE ReleaseSlot
  <2>1. Pending' = Pending
    BY <1>3 DEF ReleaseSlot, Pending, Held
  <2>2. Phase' = Phase
    BY <1>3 DEF ReleaseSlot, Phase
  <2> QED
    BY <1>3, <2>1, <2>2, Stutter DEF ReleaseSlot
<1>4. CASE Execute
  <2>1. hand \in Command /\ Pending = <<hand>> \o queue /\ Pending' = <<>> \o queue
    BY <1>4 DEF Execute, SlotInv, CommandsInHand, Pending, Held
  <2>2. Pending # <<>> /\ Pending' = Tail(Pending) /\ done' = Append(done, Head(Pending))
    BY <1>4, <1>t, <2>1, PassOn, ConcatEmptySeq DEF Execute
  <2>3. runner \notin Draining /\ runner' \notin Draining /\ life' = life /\ life # "deleted"
    BY <1>4 DEF Execute, Draining, PipeInv
  <2>4. Phase = IF life = "alive" THEN "open" ELSE "closing"
    BY <1>t, <2>3, PhaseOf DEF PhaseOfLife
  <2>5. Phase' = IF life = "alive" THEN "open" ELSE "closing"
    BY <1>t, <2>3, PhaseAfter DEF PhaseOfLife
  <2>6. Fifo!Deliver
    BY <2>2, <2>4, <2>5 DEF Fifo!Deliver, Pending, Phase, Held
  <2> QED
    BY <2>6 DEF Fifo!Next
<1>5. CASE DrainPop
  <2>1. life = "closing" /\ Phase \in {"closing", "discarding"} /\ runner = "drain"
    <3>1. life = "closing" /\ runner = "drain"
      BY <1>5, <1>t DEF DrainPop, QueuePop, Draining, PipeInv
    <3> QED
      BY <1>t, <3>1, PhaseOf DEF PhaseOfLife
  <2>2. CASE queue # <<>>
    <3>1. Pending = queue /\ Pending' = Tail(queue) /\ done' = done
      BY <1>5, <1>t, <2>1, <2>2, TakeFirst, ConcatEmptySeq DEF DrainPop, QueuePop, Pending, Held
    <3>2. Phase' = "discarding"
      <4>1. Len(done) + Len(queue) <= Len(accepted) /\ Len(Tail(queue)) = Len(queue) - 1
        BY <1>t, <2>2, TakeFirst DEF PipeInv
      <4>2. Len(done \o Tail(queue)) = Len(done) + Len(queue) - 1
        BY <1>t, <2>2, <4>1, TakeFirst, ConcatProperties
      <4>3. accepted # done \o Tail(queue)
        BY <1>t, <4>1, <4>2
      <4>4. /\ queue' = Tail(queue) /\ UNCHANGED <<accepted, done, life>>
            /\ runner' = "drainRelease"
        BY <1>5, <2>2 DEF DrainPop, QueuePop
      <4> QED
        BY <2>1, <4>3, <4>4 DEF Phase
    <3>3. 1 \in 1..Len(Pending) /\ Pending' = SubSeq(Pending, 1 + 1, Len(Pending))
      BY <1>t, <2>2, <3>1, TakeFirst
    <3>4. Fifo!Discard
      BY <2>1, <3>1, <3>2, <3>3 DEF Fifo!Discard, Pending, Phase, Held
    <3> QED
      BY <3>4 DEF Fifo!Next
  <2>3. CASE queue = <<>>
    <3>1. Pending' = Pending /\ Phase' = Phase /\ done' = done
      BY <1>5, <2>1, <2>3 DEF DrainPop, QueuePop, Pending, Phase, Held
    <3> QED
      BY <3>1, Stutter
  <2> QED
    BY <2>2, <2>3
<1>6. CASE DrainRelease
  <2>1. Pending' = Pending
    BY <1>6 DEF DrainRelease, Pending, Held
  <2>2. Phase' = Phase
    BY <1>6 DEF DrainRelease, Phase
  <2> QED
    BY <1>6, <2>1, <2>2, Stutter DEF DrainRelease
<1> QED
  BY <1>1, <1>2, <1>3, <1>4, <1>5, <1>6 DEF QueueRunner

\* The destructor closes the FIFO and, when the runner has ended, finishes it.
LEMMA DeleteRefines ==
  ASSUME SlotInv, PipeInv, SlotInv', PipeInv', BeginDelete \/ EndDelete
  PROVE  [Fifo!Next]_Fifo!fifoVars
<1> USE DEF queueVars, proxyVars, callVars, runVars, endVars
<1>t. TypeOK /\ TypeOK'
  BY DEF SlotInv
<1>1. CASE BeginDelete
  <2>1. Pending' = Pending /\ done' = done /\ Phase = "open"
    BY <1>1 DEF BeginDelete, Pending, Phase, Held
  <2>2. life' = "closing" /\ runner' \notin Draining
    BY <1>1 DEF BeginDelete, PipeInv
  <2>3. Phase' = "closing"
    BY <1>t, <2>2, PhaseAfter DEF PhaseOfLife
  <2>4. Fifo!Close
    BY <2>1, <2>3 DEF Fifo!Close, Pending, Phase, Held
  <2> QED
    BY <2>4 DEF Fifo!Next
<1>2. CASE EndDelete
  <2>1. queue = <<>> /\ runner = "ended" /\ life = "closing" /\ life' = "deleted"
        /\ UNCHANGED <<queue, runner, hand, done>>
    BY <1>2 DEF EndDelete, PipeInv
  <2>2. Pending = <<>> /\ Pending' = <<>> /\ done' = done
    BY <2>1, ConcatEmptySeq DEF Pending, Held
  <2>3. Phase \in {"closing", "discarding"} /\ Phase' = "closed"
    BY <1>t, <2>1, PhaseOf, PhaseAfter DEF PhaseOfLife
  <2>4. Fifo!Finish
    BY <2>2, <2>3 DEF Fifo!Finish, Pending, Phase, Held
  <2> QED
    BY <2>4 DEF Fifo!Next
<1> QED
  BY <1>1, <1>2

\* Every step of the proxy is a step of the FIFO or none, from the same start: the
\* safety half of ImplementsFifo, for every MAX_QUEUED and every number of callers.
THEOREM ProxyRefinesFifo == Spec => Fifo!Init /\ [][Fifo!Next]_Fifo!fifoVars
<1>1. Init => Fifo!Init
  <2> SUFFICES ASSUME Init PROVE Fifo!Init
    OBVIOUS
  <2>1. Pending = <<>> /\ done = <<>> /\ Phase = "open"
    BY DEF Init, Pending, Phase, Held
  <2> QED
    BY <2>1 DEF Fifo!Init, Pending, Phase, Held
<1>2. ASSUME SlotInv, PipeInv, SlotInv', PipeInv', [Next]_vars
      PROVE  [Fifo!Next]_Fifo!fifoVars
  <2>1. CASE UNCHANGED vars
    <3> USE DEF vars, queueVars, proxyVars, callVars, runVars, endVars
    <3>1. Pending' = Pending /\ Phase' = Phase /\ done' = done
      BY <2>1 DEF Pending, Phase, Held
    <3> QED
      BY <3>1, Stutter
  <2> QED
    BY <1>2, <2>1, ProducerRefines, RunnerRefines, DeleteRefines
       DEF Next, SetSize, WriteFrame, SetAudioFormat, WriteAudioFrame, Producers
<1> QED
  BY <1>1, <1>2, SlotInvariant, PipeInvariant, PTL DEF Spec

-----------------------------------------------------------------------------
(* What reaches the encoder fits it. The two pairs of commands are the same  *)
(* argument twice: kind is SETSIZE or SETAUDIOFORMAT, and p the only thread  *)
(* that makes calls of that pair.                                            *)

Kinds == {"SETSIZE", "SETAUDIOFORMAT"}
Use(kind) == IF kind = "SETSIZE" THEN "WRITEFRAME" ELSE "WRITEAUDIOFRAME"
Owners(kind) == IF kind = "SETSIZE" THEN VideoCallers ELSE AudioCallers
Remembered(kind) == IF kind = "SETSIZE" THEN size ELSE wfx
InEncoder(kind) == IF kind = "SETSIZE" THEN encoder.size ELSE encoder.format

\* x is what the last of the first n commands of this kind in s has set.
InForce(s, kind, n, x) ==
  \/ x = None /\ \A j \in 1..n : s[j].cmd # kind
  \/ \E j \in 1..n : /\ s[j].cmd = kind /\ s[j].arg = x
                     /\ \A k \in (j + 1)..n : s[k].cmd # kind

\* What the proxy remembers, or will when the call returns.
Current(kind, p) ==
  IF pc[p] = "returning" /\ call[p].cmd = kind THEN call[p].arg ELSE Remembered(kind)

\* Every use among the appended commands carries what is in force before it; the
\* proxy remembers what is in force after them all, and the encoder has what is
\* in force after those that were executed. A dropped command breaks the first two.
FitInv(kind, p) ==
  /\ \A q \in Producers \ {p} : call[q].cmd \notin {kind, Use(kind)}
  /\ pc[p] \in {"waiting", "granted"} /\ call[p].cmd = Use(kind) =>
       call[p].arg = Remembered(kind)
  /\ InForce(accepted, kind, Len(done), InEncoder(kind))
  /\ ~lostSetup =>
       /\ \A i \in 1..Len(accepted) :
            accepted[i].cmd = Use(kind) => InForce(accepted, kind, i - 1, accepted[i].arg)
       /\ InForce(accepted, kind, Len(accepted), Current(kind, p))

\* Only one value is in force at a time ...
LEMMA InForceUnique ==
  ASSUME NEW s, NEW kind, NEW n \in Nat, NEW x, NEW y,
         InForce(s, kind, n, x), InForce(s, kind, n, y)
  PROVE  x = y
BY DEF InForce

\* ... it does not change when commands are appended behind it ...
LEMMA StillInForce ==
  ASSUME NEW s \in Seq(Command), NEW c \in Command, NEW kind, NEW n \in 0..Len(s), NEW x,
         InForce(s, kind, n, x)
  PROVE  InForce(Append(s, c), kind, n, x)
<1>1. \A j \in 1..Len(s) : Append(s, c)[j] = s[j]
  BY AppendProperties
<1>2. Len(s) \in Nat
  OBVIOUS
<1> QED
  BY <1>1, <1>2 DEF InForce

\* ... and the next command replaces it or leaves it.
LEMMA NextInForce ==
  ASSUME NEW s, NEW kind, NEW n \in Nat, NEW x, InForce(s, kind, n, x)
  PROVE  InForce(s, kind, n + 1, IF s[n + 1].cmd = kind THEN s[n + 1].arg ELSE x)
<1>1. CASE s[n + 1].cmd = kind
  <2>1. n + 1 \in 1..(n + 1) /\ \A k \in (n + 1 + 1)..(n + 1) : s[k].cmd # kind
    OBVIOUS
  <2> QED
    BY <1>1, <2>1 DEF InForce
<1>2. CASE s[n + 1].cmd # kind
  BY <1>2 DEF InForce
<1> QED
  BY <1>1, <1>2

\* Appending keeps what is said about the commands before it.
LEMMA AppendFits ==
  ASSUME NEW s \in Seq(Command), NEW c \in Command, NEW kind \in Kinds, NEW x,
         \A i \in 1..Len(s) : s[i].cmd = Use(kind) => InForce(s, kind, i - 1, s[i].arg),
         InForce(s, kind, Len(s), x),
         c.cmd = Use(kind) => c.arg = x
  PROVE  LET t == Append(s, c)
         IN  /\ \A i \in 1..Len(t) : t[i].cmd = Use(kind) => InForce(t, kind, i - 1, t[i].arg)
             /\ InForce(t, kind, Len(t), IF c.cmd = kind THEN c.arg ELSE x)
<1> DEFINE t == Append(s, c)
<1>1. /\ Len(s) \in Nat /\ Len(t) = Len(s) + 1 /\ t[Len(s) + 1] = c
      /\ \A j \in 1..Len(s) : t[j] = s[j]
  BY AppendProperties
<1>2. InForce(t, kind, Len(s), x)
  BY <1>1, StillInForce
<1>3. ASSUME NEW i \in 1..Len(t), t[i].cmd = Use(kind) PROVE InForce(t, kind, i - 1, t[i].arg)
  <2>1. CASE i = Len(s) + 1
    BY <1>1, <1>2, <1>3, <2>1
  <2>2. CASE i # Len(s) + 1
    <3>1. i \in 1..Len(s) /\ i - 1 \in 0..Len(s) /\ t[i] = s[i]
      BY <1>1, <2>2
    <3>2. InForce(s, kind, i - 1, s[i].arg)
      BY <1>3, <3>1
    <3> QED
      BY <3>1, <3>2, StillInForce
  <2> QED
    BY <2>1, <2>2
<1>4. InForce(t, kind, Len(t), IF c.cmd = kind THEN c.arg ELSE x)
  <2> HIDE DEF t
  <2>1. InForce(t, kind, Len(s) + 1, IF t[Len(s) + 1].cmd = kind THEN t[Len(s) + 1].arg ELSE x)
    BY <1>1, <1>2, NextInForce
  <2> QED
    BY <1>1, <2>1
<1> QED
  BY <1>3, <1>4

\* A step that touches neither the commands nor the encoder keeps the fit.
LEMMA QuietFits ==
  ASSUME NEW kind \in Kinds, NEW p \in Producers, FitInv(kind, p),
         UNCHANGED <<pc, call, size, wfx, accepted, done, encoder, lostSetup>>
  PROVE  FitInv(kind, p)'
BY DEF FitInv, Current, Remembered, InEncoder

\* A call that starts: only p makes calls of its pair, and WriteFrame copies with
\* the resolution the proxy remembers.
LEMMA CallFits ==
  ASSUME SlotInv, NEW kind \in Kinds, NEW p \in Producers, FitInv(kind, p),
         NEW q \in Producers, NEW c, Call(q, c),
         q # p => c.cmd \notin {kind, Use(kind)},
         c.cmd = Use(kind) => c.arg = Remembered(kind)
  PROVE  FitInv(kind, p)'
<1>1. /\ pc \in [Producers -> {"idle", "waiting", "granted", "returning"}]
      /\ call \in [Producers -> Command \union {NoCommand}]
  BY DEF SlotInv, TypeOK
<1>2. /\ pc[q] = "idle" /\ pc'[q] = "waiting" /\ call'[q] = c
      /\ \A o \in Producers \ {q} : pc'[o] = pc[o] /\ call'[o] = call[o]
      /\ UNCHANGED <<size, wfx, accepted, done, encoder, lostSetup>>
  BY <1>1 DEF Call, queueVars, proxyVars, runVars, endVars
<1>3. Current(kind, p)' = Current(kind, p) /\ Remembered(kind)' = Remembered(kind)
      /\ InEncoder(kind)' = InEncoder(kind)
  BY <1>2 DEF Current, Remembered, InEncoder
<1> QED
  BY <1>2, <1>3 DEF FitInv

\* A command that finds no room, or is let in: a setup that is dropped ends the
\* promise, anything else that is dropped leaves no trace.
LEMMA QueueingFits ==
  ASSUME SlotInv, NEW kind \in Kinds, NEW p \in Producers, FitInv(kind, p),
         NEW q \in Producers, AcquireSlot(q) \/ DropCommand(q)
  PROVE  FitInv(kind, p)'
<1> USE DEF queueVars, proxyVars, callVars, runVars, endVars
<1>1. pc \in [Producers -> {"idle", "waiting", "granted", "returning"}]
  BY DEF SlotInv, TypeOK
<1>2. /\ pc[q] = "waiting" /\ pc'[q] \in {"granted", "returning"}
      /\ \A o \in Producers \ {q} : pc'[o] = pc[o]
      /\ UNCHANGED <<call, size, wfx, accepted, done, encoder>>
  BY <1>1 DEF AcquireSlot, DropCommand
<1>3. Remembered(kind)' = Remembered(kind) /\ InEncoder(kind)' = InEncoder(kind)
  BY <1>2 DEF Remembered, InEncoder
<1>4. ~lostSetup' => ~lostSetup /\ (pc'[q] = "returning" => call[q].cmd # kind)
  BY <1>1 DEF AcquireSlot, DropCommand, Kinds
<1>5. ~lostSetup' => Current(kind, p)' = Current(kind, p)
  BY <1>2, <1>3, <1>4 DEF Current
<1> QED
  BY <1>2, <1>3, <1>4, <1>5 DEF FitInv

\* A command is appended: p's own use fits what p set before, and other threads'
\* commands are of other kinds.
LEMMA AppendStepFits ==
  ASSUME SlotInv, PipeInv, NEW kind \in Kinds, NEW p \in Producers, FitInv(kind, p),
         NEW q \in Producers, QueueAppend(q)
  PROVE  FitInv(kind, p)'
<1> USE DEF queueVars, proxyVars, callVars, runVars, endVars
<1>1. /\ pc \in [Producers -> {"idle", "waiting", "granted", "returning"}]
      /\ accepted \in Seq(Command) /\ call[q] \in Command
      /\ Len(done) \in 0..Len(accepted)
  <2>1. pc[q] = "granted" /\ Len(done) \in Nat /\ Len(queue) \in Nat /\ Len(accepted) \in Nat
    BY DEF QueueAppend, SlotInv, TypeOK
  <2> QED
    BY <2>1 DEF SlotInv, TypeOK, CommandsInHand, PipeInv
<1>2. /\ pc[q] = "granted" /\ pc'[q] = "returning"
      /\ \A o \in Producers \ {q} : pc'[o] = pc[o]
      /\ accepted' = Append(accepted, call[q])
      /\ UNCHANGED <<call, size, wfx, done, encoder, lostSetup>>
  BY <1>1 DEF QueueAppend
<1>3. Remembered(kind)' = Remembered(kind) /\ InEncoder(kind)' = InEncoder(kind)
  BY <1>2 DEF Remembered, InEncoder
<1>4. InForce(accepted', kind, Len(done'), InEncoder(kind)')
  BY <1>1, <1>2, <1>3, StillInForce DEF FitInv
<1>5. Use(kind) # kind
  BY DEF Use, Kinds
<1>6. call[q].cmd \in {kind, Use(kind)} => q = p
  BY DEF FitInv
<1>7. call[q].cmd = Use(kind) => call[q].arg = Current(kind, p)
  BY <1>2, <1>5, <1>6 DEF FitInv, Current
<1>8. Current(kind, p)' = IF call[q].cmd = kind THEN call[q].arg ELSE Current(kind, p)
  BY <1>2, <1>3, <1>6 DEF Current
<1>9. ~lostSetup' =>
        /\ \A i \in 1..Len(accepted') :
             accepted'[i].cmd = Use(kind) => InForce(accepted', kind, i - 1, accepted'[i].arg)
        /\ InForce(accepted', kind, Len(accepted'), Current(kind, p)')
  BY <1>1, <1>2, <1>7, <1>8, AppendFits DEF FitInv
<1> QED
  BY <1>2, <1>3, <1>4, <1>9 DEF FitInv

\* A call returns, and the proxy remembers what it set.
LEMMA ReturnFits ==
  ASSUME SlotInv, NEW kind \in Kinds, NEW p \in Producers, FitInv(kind, p),
         NEW q \in Producers, Return(q)
  PROVE  FitInv(kind, p)'
<1> USE DEF queueVars, proxyVars, callVars, runVars, endVars
<1>1. /\ pc \in [Producers -> {"idle", "waiting", "granted", "returning"}]
      /\ call \in [Producers -> Command \union {NoCommand}]
  BY DEF SlotInv, TypeOK
<1>2. /\ pc[q] = "returning" /\ pc'[q] = "idle" /\ call'[q] = NoCommand
      /\ \A o \in Producers \ {q} : pc'[o] = pc[o] /\ call'[o] = call[o]
      /\ UNCHANGED <<accepted, done, encoder, lostSetup>>
  BY <1>1 DEF Return
<1>3. InEncoder(kind)' = InEncoder(kind) /\ NoCommand.cmd \notin {kind, Use(kind)}
  BY <1>2 DEF InEncoder, NoCommand, Kinds, Use
<1>4. Remembered(kind)' = IF call[q].cmd = kind THEN call[q].arg ELSE Remembered(kind)
  BY DEF Return, Remembered, Kinds
<1>5. call[q].cmd = kind => q = p
  BY DEF FitInv
<1>6. Current(kind, p)' = Current(kind, p)
  BY <1>2, <1>4, <1>5 DEF Current
<1>7. q # p => Remembered(kind)' = Remembered(kind)
  BY <1>4, <1>5
<1> QED
  BY <1>2, <1>3, <1>6, <1>7 DEF FitInv

\* The encoder takes over what it executes.
LEMMA ExecuteFits ==
  ASSUME SlotInv, PipeInv, NEW kind \in Kinds, NEW p \in Producers, FitInv(kind, p), Execute
  PROVE  FitInv(kind, p)'
<1> USE DEF queueVars, proxyVars, callVars, runVars, endVars
<1>1. hand \in Command /\ done \in Seq(Command) /\ queue \in Seq(Command)
      /\ encoder \in [size : Sizes \union {None}, format : Formats \union {None}]
  BY DEF Execute, SlotInv, TypeOK, CommandsInHand
<1>2. accepted = done \o (<<hand>> \o queue)
  BY DEF Execute, PipeInv, Held, Draining
<1>3. accepted[Len(done) + 1] = hand /\ Len(done') = Len(done) + 1 /\ Len(done) \in Nat
  BY <1>1, <1>2 DEF Execute
<1>4. InEncoder(kind)' = IF hand.cmd = kind THEN hand.arg ELSE InEncoder(kind)
  BY <1>1 DEF Execute, InEncoder, Kinds
<1>5. InForce(accepted, kind, Len(done) + 1, InEncoder(kind)')
  BY <1>3, <1>4, NextInForce DEF FitInv
<1>6. UNCHANGED <<accepted, pc, call, size, wfx, lostSetup>>
  BY DEF Execute
<1>7. Current(kind, p)' = Current(kind, p) /\ Remembered(kind)' = Remembered(kind)
  BY <1>6 DEF Current, Remembered
<1> QED
  BY <1>3, <1>5, <1>6, <1>7 DEF FitInv

\* Nothing is set when the proxy is created.
LEMMA FitInit ==
  ASSUME NEW kind \in Kinds, NEW p, Owners(kind) = {p}, Init PROVE FitInv(kind, p)
<1>p. p \in Producers
  BY DEF Owners, Producers, Kinds
<1>1. \A q \in Producers : call[q].cmd \notin {kind, Use(kind)} /\ pc[q] = "idle"
  BY DEF Init, NoCommand, Kinds, Use
<1>2. InEncoder(kind) = None /\ Remembered(kind) = None /\ Current(kind, p) = None
  BY <1>p, <1>1 DEF Init, InEncoder, Remembered, Current
<1>3. Len(accepted) = 0 /\ Len(done) = 0
  BY DEF Init
<1> QED
  BY <1>p, <1>1, <1>2, <1>3 DEF FitInv, InForce

\* Every step keeps the fit of a pair of commands that only one thread uses.
LEMMA FitStep ==
  ASSUME NEW kind \in Kinds, NEW p, Owners(kind) = {p},
         SlotInv, PipeInv, FitInv(kind, p), [Next]_vars
  PROVE  FitInv(kind, p)'
<1>p. p \in Producers
  BY DEF Owners, Producers, Kinds
<1>1. ASSUME NEW q \in VideoCallers, SetSize(q) \/ WriteFrame(q) PROVE FitInv(kind, p)'
  <2>1. ASSUME NEW c, Call(q, c),
               c.cmd = "SETSIZE" \/ (c.cmd = "WRITEFRAME" /\ c.arg = size)
        PROVE  FitInv(kind, p)'
    <3>1. /\ q # p => c.cmd \notin {kind, Use(kind)}
          /\ c.cmd = Use(kind) => c.arg = Remembered(kind)
      BY <1>1, <2>1 DEF Kinds, Use, Owners, Remembered
    <3> QED
      BY <1>p, <1>1, <2>1, <3>1, CallFits DEF Producers
  <2>2. CASE SetSize(q)
    BY <2>1, <2>2 DEF SetSize
  <2>3. CASE WriteFrame(q)
    BY <2>1, <2>3 DEF WriteFrame
  <2> QED
    BY <1>1, <2>2, <2>3
<1>2. ASSUME NEW q \in AudioCallers, SetAudioFormat(q) \/ WriteAudioFrame(q)
      PROVE  FitInv(kind, p)'
  <2>1. ASSUME NEW c, Call(q, c),
               c.cmd = "SETAUDIOFORMAT" \/ (c.cmd = "WRITEAUDIOFRAME" /\ c.arg = wfx)
        PROVE  FitInv(kind, p)'
    <3>1. /\ q # p => c.cmd \notin {kind, Use(kind)}
          /\ c.cmd = Use(kind) => c.arg = Remembered(kind)
      BY <1>2, <2>1 DEF Kinds, Use, Owners, Remembered
    <3> QED
      BY <1>p, <1>2, <2>1, <3>1, CallFits DEF Producers
  <2>2. CASE SetAudioFormat(q)
    BY <2>1, <2>2 DEF SetAudioFormat
  <2>3. CASE WriteAudioFrame(q)
    BY <2>1, <2>3 DEF WriteAudioFrame
  <2> QED
    BY <1>2, <2>2, <2>3
<1>3. ASSUME NEW q \in Producers, AcquireSlot(q) \/ DropCommand(q) PROVE FitInv(kind, p)'
  BY <1>p, <1>3, QueueingFits
<1>4. ASSUME NEW q \in Producers, QueueAppend(q) PROVE FitInv(kind, p)'
  BY <1>p, <1>4, AppendStepFits
<1>5. ASSUME NEW q \in Producers, Return(q) PROVE FitInv(kind, p)'
  BY <1>p, <1>5, ReturnFits
<1>6. CASE Execute
  BY <1>p, <1>6, ExecuteFits
<1>7. CASE \/ RunnerWait \/ Pop \/ ReleaseSlot \/ DrainPop \/ DrainRelease
           \/ BeginDelete \/ EndDelete \/ UNCHANGED vars
  <2>1. UNCHANGED <<pc, call, size, wfx, accepted, done, encoder, lostSetup>>
    BY <1>7 DEF RunnerWait, Pop, ReleaseSlot, DrainPop, DrainRelease, QueuePop, BeginDelete,
                EndDelete, vars, queueVars, proxyVars, callVars, runVars, endVars
  <2> QED
    BY <1>p, <2>1, QuietFits
<1> QED
  BY <1>1, <1>2, <1>3, <1>4, <1>5, <1>6, <1>7 DEF Next, QueueRunner

\* The command about to be executed fits the encoder.
LEMMA HandFits ==
  ASSUME SlotInv, PipeInv, NEW kind \in Kinds, NEW p, FitInv(kind, p),
         runner = "execute", ~lostSetup, hand.cmd = Use(kind)
  PROVE  hand.arg = InEncoder(kind)
<1>1. hand \in Command /\ done \in Seq(Command) /\ queue \in Seq(Command)
  BY DEF SlotInv, TypeOK, CommandsInHand
<1>2. accepted = done \o (<<hand>> \o queue)
  BY DEF PipeInv, Held, Draining
<1>3. /\ accepted[Len(done) + 1] = hand /\ Len(done) \in Nat
      /\ Len(done) + 1 \in 1..Len(accepted)
  BY <1>1, <1>2
<1>4. InForce(accepted, kind, Len(done) + 1 - 1, hand.arg)
  BY <1>3 DEF FitInv
<1>5. InForce(accepted, kind, Len(done), hand.arg)
  BY <1>3, <1>4
<1> QED
  BY <1>3, <1>5, InForceUnique DEF FitInv

\* A frame reaches the encoder with the resolution it was copied for, and samples
\* with their format, for every MAX_QUEUED and however many threads do the rest,
\* unless the queue stayed full so long that the setup itself was dropped.
THEOREM CommandsFit == Spec => []CommandsFitEncoder
<1> DEFINE VideoFits == runner = "execute" /\ ~lostSetup /\ hand.cmd = "WRITEFRAME" =>
                          hand.arg = encoder.size
           AudioFits == runner = "execute" /\ ~lostSetup /\ hand.cmd = "WRITEAUDIOFRAME" =>
                          hand.arg = encoder.format
<1>1. Cardinality(VideoCallers) = 1 => (Spec => []VideoFits)
  <2> SUFFICES ASSUME Cardinality(VideoCallers) = 1 PROVE Spec => []VideoFits
    OBVIOUS
  <2>1. PICK p : Owners("SETSIZE") = {p}
    <3>1. IsFiniteSet(VideoCallers)
      BY ProxyAssumption, FS_Subset
    <3> QED
      BY <3>1, FS_Singleton DEF Owners
  <2>2. Spec => []FitInv("SETSIZE", p)
    <3>1. Init => FitInv("SETSIZE", p)
      BY <2>1, FitInit DEF Kinds
    <3>2. SlotInv /\ PipeInv /\ FitInv("SETSIZE", p) /\ [Next]_vars => FitInv("SETSIZE", p)'
      BY <2>1, FitStep DEF Kinds
    <3> QED
      BY <3>1, <3>2, SlotInvariant, PipeInvariant, PTL DEF Spec
  <2>3. SlotInv /\ PipeInv /\ FitInv("SETSIZE", p) => VideoFits
    BY HandFits DEF Kinds, Use, InEncoder
  <2> QED
    BY <2>2, <2>3, SlotInvariant, PipeInvariant, PTL
<1>2. Cardinality(AudioCallers) = 1 => (Spec => []AudioFits)
  <2> SUFFICES ASSUME Cardinality(AudioCallers) = 1 PROVE Spec => []AudioFits
    OBVIOUS
  <2>1. PICK p : Owners("SETAUDIOFORMAT") = {p}
    <3>1. IsFiniteSet(AudioCallers)
      BY ProxyAssumption, FS_Subset
    <3> QED
      BY <3>1, FS_Singleton DEF Owners
  <2>2. Spec => []FitInv("SETAUDIOFORMAT", p)
    <3>1. Init => FitInv("SETAUDIOFORMAT", p)
      BY <2>1, FitInit DEF Kinds
    <3>2. SlotInv /\ PipeInv /\ FitInv("SETAUDIOFORMAT", p) /\ [Next]_vars => FitInv("SETAUDIOFORMAT", p)'
      BY <2>1, FitStep DEF Kinds
    <3> QED
      BY <3>1, <3>2, SlotInvariant, PipeInvariant, PTL DEF Spec
  <2>3. SlotInv /\ PipeInv /\ FitInv("SETAUDIOFORMAT", p) => AudioFits
    BY HandFits DEF Kinds, Use, InEncoder
  <2> QED
    BY <2>2, <2>3, SlotInvariant, PipeInvariant, PTL
<1>3. /\ (Cardinality(VideoCallers) = 1 => VideoFits)
      /\ (Cardinality(AudioCallers) = 1 => AudioFits)
      => CommandsFitEncoder
  BY DEF CommandsFitEncoder
<1>4. CASE Cardinality(VideoCallers) = 1 /\ Cardinality(AudioCallers) = 1
  <2>1. VideoFits /\ AudioFits => CommandsFitEncoder
    BY <1>3
  <2> QED
    BY <1>1, <1>2, <1>4, <2>1, PTL
<1>5. CASE Cardinality(VideoCallers) = 1 /\ Cardinality(AudioCallers) # 1
  <2>1. VideoFits => CommandsFitEncoder
    BY <1>3, <1>5
  <2> QED
    BY <1>1, <1>5, <2>1, PTL
<1>6. CASE Cardinality(VideoCallers) # 1 /\ Cardinality(AudioCallers) = 1
  <2>1. AudioFits => CommandsFitEncoder
    BY <1>3, <1>6
  <2> QED
    BY <1>2, <1>6, <2>1, PTL
<1>7. CASE Cardinality(VideoCallers) # 1 /\ Cardinality(AudioCallers) # 1
  <2>1. CommandsFitEncoder
    BY <1>3, <1>7
  <2> QED
    BY <2>1, PTL
<1> QED
  BY <1>4, <1>5, <1>6, <1>7

-----------------------------------------------------------------------------
(* The frame ring of the video pin. *)

\* The frames whose push is over as far as the write index shows it.
Written == IF app \in {"look", "wait", "copy", "advance"} THEN pushed - 1 ELSE pushed

\* The indices count frames: their distance is what was written and not taken.
IndicesCount ==
  /\ Waiting = Written - Taken
  /\ app \in {"look", "wait", "copy", "advance"} => pushed > 0

\* The capturing thread is at work on a slot with another free slot behind it,
\* the one the streaming thread may still be copying from.
GapKept ==
  /\ app \in {"copy", "advance"} => Waiting < BufferCount - 1
  /\ app = "advance" => Buffers[BufferWritePtr] = pushed

\* The streaming thread's slot: the oldest frame before it has moved its index,
\* the slot behind the index until it has copied the frame out.
SourceKept ==
  /\ stream = "advance" => source = BufferReadPtr /\ Waiting > 0
  /\ stream \in {"signal", "copy"} =>
       source = Pred(BufferReadPtr) /\ Buffers[source] = Taken

RingInv == RingTypeOK /\ IndicesCount /\ SlotsHoldFrames /\ GapKept /\ SourceKept

-----------------------------------------------------------------------------
\* Below twice the size of the ring the remainder takes off one round at most.
LEMMA OneRound ==
  ASSUME NEW x \in Nat, x < 2 * BufferCount
  PROVE  x % BufferCount = IF x < BufferCount THEN x ELSE x - BufferCount
<1>1. BufferCount \in Nat /\ BufferCount > 2
  BY RingAssumption
<1>2. CASE x < BufferCount
  BY <1>1, <1>2, SMT
<1>3. CASE x >= BufferCount
  BY <1>1, <1>3, SMT
<1> QED
  BY <1>1, <1>2, <1>3

\* A slot counted from another one is a slot, and two different distances below
\* the size of the ring lead to two different slots.
LEMMA Place ==
  ASSUME NEW r \in Slots, NEW i \in Slots
  PROVE  /\ (r + i) % BufferCount \in Slots
         /\ (r + i) % BufferCount = IF r + i < BufferCount THEN r + i ELSE r + i - BufferCount
<1>1. BufferCount \in Nat /\ BufferCount > 2 /\ r \in Nat /\ i \in Nat
      /\ r < BufferCount /\ i < BufferCount
  BY RingAssumption DEF Slots
<1>2. r + i \in Nat /\ r + i < 2 * BufferCount
  BY <1>1
<1>3. (r + i) % BufferCount = IF r + i < BufferCount THEN r + i ELSE r + i - BufferCount
  BY <1>1, <1>2, OneRound
<1> QED
  BY <1>1, <1>3 DEF Slots

\* The neighbours of a slot.
LEMMA Neighbours ==
  ASSUME NEW s \in Slots
  PROVE  /\ Succ(s) = IF s + 1 = BufferCount THEN 0 ELSE s + 1
         /\ Pred(s) = IF s = 0 THEN BufferCount - 1 ELSE s - 1
         /\ Succ(s) \in Slots /\ Pred(s) \in Slots
<1>1. BufferCount \in Nat /\ BufferCount > 2 /\ s \in Nat /\ s < BufferCount
  BY RingAssumption DEF Slots
<1>2. 1 \in Slots /\ BufferCount - 1 \in Slots
  BY <1>1 DEF Slots
<1>3. Succ(s) = IF s + 1 < BufferCount THEN s + 1 ELSE s + 1 - BufferCount
  BY <1>2, Place DEF Succ
<1>4. s + BufferCount - 1 = s + (BufferCount - 1)
  BY <1>1
<1>5. Pred(s) = IF s + (BufferCount - 1) < BufferCount
                THEN s + (BufferCount - 1) ELSE s + (BufferCount - 1) - BufferCount
  BY <1>2, <1>4, Place DEF Pred
<1> QED
  BY <1>1, <1>3, <1>5 DEF Slots

\* The distance from a slot to another one, which the indices of the ring hold.
LEMMA DistanceOf ==
  ASSUME NEW r \in Slots, NEW w \in Slots
  PROVE  (w + BufferCount - r) % BufferCount = IF r <= w THEN w - r ELSE w - r + BufferCount
<1>1. /\ BufferCount \in Nat /\ BufferCount > 2
      /\ r \in Nat /\ r < BufferCount /\ w \in Nat /\ w < BufferCount
  BY RingAssumption DEF Slots
<1>2. w + BufferCount - r \in Nat /\ w + BufferCount - r < 2 * BufferCount
  BY <1>1
<1>3. (w + BufferCount - r) % BufferCount =
        IF w + BufferCount - r < BufferCount
        THEN w + BufferCount - r ELSE w + BufferCount - r - BufferCount
  BY <1>1, <1>2, OneRound
<1> QED
  BY <1>1, <1>3

\* The same for the two indices: the write index is found by counting from the
\* read index.
LEMMA Distance ==
  ASSUME BufferReadPtr \in Slots, BufferWritePtr \in Slots
  PROVE  /\ Waiting = IF BufferReadPtr <= BufferWritePtr
                      THEN BufferWritePtr - BufferReadPtr
                      ELSE BufferWritePtr - BufferReadPtr + BufferCount
         /\ Waiting \in Slots
         /\ BufferWritePtr = (BufferReadPtr + Waiting) % BufferCount
<1>1. /\ BufferCount \in Nat /\ BufferCount > 2
      /\ BufferReadPtr \in Nat /\ BufferReadPtr < BufferCount
      /\ BufferWritePtr \in Nat /\ BufferWritePtr < BufferCount
  BY RingAssumption DEF Slots
<1>2. Waiting = IF BufferReadPtr <= BufferWritePtr
                THEN BufferWritePtr - BufferReadPtr
                ELSE BufferWritePtr - BufferReadPtr + BufferCount
  BY DistanceOf DEF Waiting
<1>3. Waiting \in Slots
  BY <1>1, <1>2 DEF Slots
<1>4. (BufferReadPtr + Waiting) % BufferCount =
        IF BufferReadPtr + Waiting < BufferCount
        THEN BufferReadPtr + Waiting ELSE BufferReadPtr + Waiting - BufferCount
  BY <1>3, Place
<1> QED
  BY <1>1, <1>2, <1>3, <1>4

\* What the invariant says of the numbers involved.
LEMMA RingNumbers ==
  ASSUME RingTypeOK
  PROVE  /\ BufferCount \in Nat /\ BufferCount > 2 /\ MaxFrames \in Nat
         /\ Len(delivered) \in Nat /\ pushed \in Nat /\ Taken \in Nat /\ Written \in Int
         /\ Waiting \in Nat /\ Waiting < BufferCount
<1>1. Waiting \in Slots
  BY Distance DEF RingTypeOK
<1>2. Len(delivered) \in Nat
  BY LenProperties DEF RingTypeOK
<1> QED
  BY <1>1, <1>2, RingAssumption DEF RingTypeOK, Slots, Taken, Written

\* Slots at different distances from the read index differ.
LEMMA SlotsDiffer ==
  ASSUME NEW r \in Slots, NEW i \in Slots, NEW j \in Slots, i # j
  PROVE  (r + i) % BufferCount # (r + j) % BufferCount
<1>1. BufferCount \in Nat /\ r \in Nat /\ i \in Nat /\ j \in Nat
      /\ r < BufferCount /\ i < BufferCount /\ j < BufferCount
  BY RingAssumption DEF Slots
<1>2. (r + i) % BufferCount = IF r + i < BufferCount THEN r + i ELSE r + i - BufferCount
  BY Place
<1>3. (r + j) % BufferCount = IF r + j < BufferCount THEN r + j ELSE r + j - BufferCount
  BY Place
<1> QED
  BY <1>1, <1>2, <1>3

\* Filling the slot at the write index touches neither a waiting frame nor the
\* slot that is being copied from, as long as a second slot is free.
LEMMA WriteSlot ==
  ASSUME RingInv, Waiting < BufferCount - 1, NEW v,
         Buffers' = [Buffers EXCEPT ![BufferWritePtr] = v],
         UNCHANGED <<BufferReadPtr, BufferWritePtr, streamVars>>
  PROVE  /\ Waiting' = Waiting /\ Taken' = Taken
         /\ SlotsHoldFrames' /\ SourceKept'
<1>1. /\ Buffers \in [Slots -> 0..MaxFrames]
      /\ BufferReadPtr \in Slots /\ BufferWritePtr \in Slots
      /\ Waiting \in Slots /\ Waiting \in Nat /\ BufferCount \in Nat /\ BufferCount > 2
      /\ BufferWritePtr = (BufferReadPtr + Waiting) % BufferCount
  BY RingNumbers, Distance DEF RingInv, RingTypeOK
<1>2. Waiting' = Waiting /\ Taken' = Taken
  BY DEF Waiting, Taken, streamVars
<1>3. SlotsHoldFrames'
  <2>1. SUFFICES ASSUME NEW i \in 0..Waiting-1
                 PROVE  Buffers'[(BufferReadPtr + i) % BufferCount] = Taken + i + 1
    BY <1>2 DEF SlotsHoldFrames
  <2>2. i \in Slots /\ i # Waiting
    BY <1>1 DEF Slots
  <2>3. (BufferReadPtr + i) % BufferCount # BufferWritePtr
        /\ (BufferReadPtr + i) % BufferCount \in Slots
    BY <1>1, <2>2, SlotsDiffer, Place
  <2>4. Buffers[(BufferReadPtr + i) % BufferCount] = Taken + i + 1
    BY <2>1 DEF RingInv, SlotsHoldFrames
  <2> QED
    BY <1>1, <2>3, <2>4
<1>4. SourceKept'
  <2>1. Pred(BufferReadPtr) # BufferWritePtr /\ Pred(BufferReadPtr) \in Slots
    <3>1. BufferCount - 1 \in Slots /\ BufferCount - 1 # Waiting
      BY <1>1 DEF Slots
    <3>2. BufferReadPtr + BufferCount - 1 = BufferReadPtr + (BufferCount - 1)
      BY <1>1 DEF Slots
    <3> QED
      BY <1>1, <3>1, <3>2, SlotsDiffer, Place DEF Pred
  <2>2. Pred(BufferReadPtr)' = Pred(BufferReadPtr)
    BY DEF Pred
  <2>3. CASE stream = "advance"
    BY <1>2, <2>3 DEF RingInv, SourceKept, streamVars
  <2>4. CASE stream \in {"signal", "copy"}
    BY <1>1, <1>2, <2>1, <2>2, <2>4 DEF RingInv, SourceKept, streamVars
  <2> QED
    BY <2>3, <2>4 DEF SourceKept, streamVars
<1> QED
  BY <1>2, <1>3, <1>4

-----------------------------------------------------------------------------
\* An empty ring, nothing pushed: there is nothing to hold.
THEOREM InitRingInv == RingInit => RingInv
<1> SUFFICES ASSUME RingInit PROVE RingInv
  OBVIOUS
<1>1. BufferCount \in Nat /\ BufferCount > 2 /\ MaxFrames \in Nat /\ 0 \in Slots
  BY RingAssumption DEF Slots
<1>2. RingTypeOK
  <2>1. delivered \in Seq(0..MaxFrames)
    BY DEF RingInit
  <2> QED
    BY <1>1, <2>1 DEF RingInit, RingTypeOK, AppPoints, StreamPoints
<1>3. Waiting = 0
  BY <1>1, Distance DEF RingInit
<1>4. Written = 0 /\ Taken = 0
  BY DEF RingInit, Written, Taken
<1> QED
  BY <1>2, <1>3, <1>4 DEF RingInit, RingInv, IndicesCount, SlotsHoldFrames, GapKept, SourceKept

\* Every step of both threads keeps the types; AdvanceWrite and AdvanceRead need
\* the wrap-around of their index for it.
LEMMA RingType ==
  ASSUME RingTypeOK, [RingNext]_ringVars PROVE RingTypeOK'
<1> USE DEF RingTypeOK, ring, events, appVars, streamVars, AppPoints, StreamPoints
<1>0. MaxFrames \in Nat
  BY RingNumbers
<1>1. CASE PushData \/ SetTerminating \/ WaitForRoom \/ SignalWrite \/ SignalTermination \/ StopGraph
  <2>1. CASE PushData
    <3>1. pushed' \in 0..MaxFrames
      BY <1>0, <2>1 DEF PushData
    <3> QED
      BY <2>1, <3>1 DEF PushData
  <2>2. CASE SetTerminating
    BY <2>2 DEF SetTerminating
  <2>3. CASE WaitForRoom \/ StopGraph
    BY <2>3 DEF WaitForRoom, StopGraph
  <2>4. CASE SignalWrite \/ SignalTermination
    BY <2>4 DEF SignalWrite, SignalTermination
  <2> QED
    BY <1>1, <2>1, <2>2, <2>3, <2>4
<1>2. CASE LookForRoom
  <2>1. Buffers' \in [Slots -> 0..MaxFrames]
    BY <1>0, <1>2 DEF LookForRoom
  <2>2. app' \in AppPoints
    BY <1>2 DEF LookForRoom
  <2> QED
    BY <1>2, <2>1, <2>2 DEF LookForRoom
<1>3. CASE CopyIn
  BY <1>0, <1>3 DEF CopyIn
<1>4. CASE AdvanceWrite
  BY <1>4, Neighbours DEF AdvanceWrite
<1>5. CASE TestTerminating \/ LookForFrame \/ WaitForFrame \/ SignalRead \/ DeliverSample \/ LeaveStream
  BY <1>5 DEF TestTerminating, LookForFrame, WaitForFrame, SignalRead, DeliverSample, LeaveStream
<1>6. CASE AdvanceRead
  BY <1>6, Neighbours DEF AdvanceRead
<1>7. CASE CopyOut
  <2>1. Buffers[source] \in 0..MaxFrames
    OBVIOUS
  <2>2. delivered' \in Seq(0..MaxFrames)
    BY <1>7, <2>1 DEF CopyOut
  <2> QED
    BY <1>7, <2>2 DEF CopyOut
<1>8. CASE UNCHANGED ringVars
  BY <1>8 DEF ringVars
<1> QED
  BY <1>1, <1>2, <1>3, <1>4, <1>5, <1>6, <1>7, <1>8 DEF RingNext, App, FillBuffer

\* The capturing thread's steps, with the write index as the last word on what
\* has been written.
LEMMA AppRingInv ==
  ASSUME RingInv, RingTypeOK', PushData \/ SetTerminating \/ App PROVE RingInv'
<1> USE DEF ring, events
<1>0. /\ BufferCount \in Nat /\ BufferCount > 2 /\ pushed \in Nat /\ Taken \in Nat
      /\ Waiting \in Nat /\ Waiting < BufferCount
      /\ BufferReadPtr \in Slots /\ BufferWritePtr \in Slots
      /\ Buffers \in [Slots -> 0..MaxFrames]
  BY RingNumbers DEF RingInv, RingTypeOK
<1>n. /\ BufferReadPtr \in Nat /\ BufferReadPtr < BufferCount
      /\ BufferWritePtr \in Nat /\ BufferWritePtr < BufferCount
  BY <1>0 DEF Slots
<1>d. Waiting = IF BufferReadPtr <= BufferWritePtr
                THEN BufferWritePtr - BufferReadPtr
                ELSE BufferWritePtr - BufferReadPtr + BufferCount
  BY <1>0, Distance
<1>1. CASE PushData \/ SetTerminating \/ WaitForRoom \/ SignalWrite \/ SignalTermination \/ StopGraph
  <2> USE DEF PushData, SetTerminating, WaitForRoom, SignalWrite, SignalTermination, StopGraph
  <2>1. UNCHANGED <<ring, streamVars>>
    BY <1>1
  <2>2. Waiting' = Waiting /\ Taken' = Taken
    BY <2>1 DEF Waiting, Taken, streamVars
  <2>3. Written' = Written /\ (app' \in {"look", "wait", "copy", "advance"} => pushed' > 0)
    BY <1>0, <1>1 DEF Written, RingInv, IndicesCount
  <2>4. app' \notin {"copy", "advance"}
    BY <1>1
  <2>5. IndicesCount' /\ GapKept'
    BY <2>2, <2>3, <2>4 DEF RingInv, IndicesCount, GapKept
  <2>6. SlotsHoldFrames' /\ SourceKept'
    BY <2>1, <2>2 DEF RingInv, SlotsHoldFrames, SourceKept, Pred, streamVars
  <2> QED
    BY <2>5, <2>6 DEF RingInv
<1>2. CASE LookForRoom
  <2>1. CASE Pred(BufferReadPtr) # BufferWritePtr /\ app' = "copy"
             /\ Buffers' = [Buffers EXCEPT ![BufferWritePtr] = 0]
    <3>1. Waiting < BufferCount - 1
      <4>1. Pred(BufferReadPtr) =
              IF BufferReadPtr = 0 THEN BufferCount - 1 ELSE BufferReadPtr - 1
        BY <1>0, Neighbours
      <4> QED
        BY <1>0, <1>n, <1>d, <2>1, <4>1
    <3>2. UNCHANGED <<BufferReadPtr, BufferWritePtr, streamVars, pushed>>
      BY <1>2 DEF LookForRoom
    <3>3. Waiting' = Waiting /\ Taken' = Taken /\ SlotsHoldFrames' /\ SourceKept'
      BY <2>1, <3>1, <3>2, WriteSlot
    <3>4. IndicesCount' /\ GapKept'
      BY <1>2, <2>1, <3>1, <3>2, <3>3
         DEF LookForRoom, RingInv, IndicesCount, GapKept, Written
    <3> QED
      BY <3>3, <3>4 DEF RingInv
  <2>2. CASE app' = "wait" /\ UNCHANGED Buffers
    <3>1. UNCHANGED <<ring, streamVars, pushed>> /\ app = "look"
      BY <1>2, <2>2 DEF LookForRoom
    <3>2. Waiting' = Waiting /\ Taken' = Taken /\ Written' = Written
      BY <2>2, <3>1 DEF Waiting, Taken, Written, streamVars
    <3>3. IndicesCount' /\ GapKept'
      BY <2>2, <3>1, <3>2 DEF RingInv, IndicesCount, GapKept
    <3>4. SlotsHoldFrames' /\ SourceKept'
      BY <3>1, <3>2 DEF RingInv, SlotsHoldFrames, SourceKept, Pred, streamVars
    <3> QED
      BY <3>3, <3>4 DEF RingInv
  <2> QED
    BY <1>2, <2>1, <2>2 DEF LookForRoom
<1>3. CASE CopyIn
  <2>1. Waiting < BufferCount - 1
    BY <1>3 DEF CopyIn, RingInv, GapKept
  <2>2. UNCHANGED <<BufferReadPtr, BufferWritePtr, streamVars, pushed>>
        /\ Buffers' = [Buffers EXCEPT ![BufferWritePtr] = pushed]
    BY <1>3 DEF CopyIn
  <2>3. Waiting' = Waiting /\ Taken' = Taken /\ SlotsHoldFrames' /\ SourceKept'
    BY <2>1, <2>2, WriteSlot
  <2>4. Buffers'[BufferWritePtr'] = pushed'
    BY <1>0, <2>2
  <2>5. IndicesCount' /\ GapKept'
    BY <1>3, <2>1, <2>2, <2>3, <2>4 DEF CopyIn, RingInv, IndicesCount, GapKept, Written
  <2> QED
    BY <2>3, <2>5 DEF RingInv
<1>4. CASE AdvanceWrite
  <2>1. /\ Waiting < BufferCount - 1 /\ Buffers[BufferWritePtr] = pushed
        /\ app = "advance" /\ app' = "signal"
        /\ UNCHANGED <<Buffers, BufferReadPtr, streamVars, pushed>>
        /\ BufferWritePtr' = Succ(BufferWritePtr)
    BY <1>4 DEF AdvanceWrite, RingInv, GapKept, appVars
  <2>2. Waiting' = Waiting + 1
    <3>1. BufferWritePtr' \in Slots /\ BufferReadPtr' \in Slots
      BY DEF RingTypeOK
    <3>2. Waiting' = IF BufferReadPtr' <= BufferWritePtr'
                     THEN BufferWritePtr' - BufferReadPtr'
                     ELSE BufferWritePtr' - BufferReadPtr' + BufferCount
      BY <3>1, DistanceOf DEF Waiting
    <3>3. BufferWritePtr' =
            IF BufferWritePtr + 1 = BufferCount THEN 0 ELSE BufferWritePtr + 1
      BY <1>0, <2>1, Neighbours
    <3> QED
      BY <1>0, <1>n, <1>d, <2>1, <3>2, <3>3
  <2>3. Taken' = Taken /\ Written' = Written + 1 /\ Written = pushed - 1
    BY <1>0, <2>1 DEF Taken, Written, streamVars
  <2>4. IndicesCount' /\ GapKept'
    BY <1>0, <2>1, <2>2, <2>3 DEF RingInv, IndicesCount, GapKept, Written
  <2>5. SlotsHoldFrames'
    <3>1. SUFFICES ASSUME NEW i \in 0..Waiting
                   PROVE  Buffers[(BufferReadPtr + i) % BufferCount] = Taken + i + 1
      BY <1>0, <2>1, <2>2, <2>3 DEF SlotsHoldFrames
    <3>2. CASE i = Waiting
      <4>1. (BufferReadPtr + i) % BufferCount = BufferWritePtr
        BY <1>0, <3>2, Distance
      <4>2. pushed = Taken + Waiting + 1
        BY <1>0, <2>3 DEF RingInv, IndicesCount
      <4> QED
        BY <2>1, <3>2, <4>1, <4>2
    <3>3. CASE i # Waiting
      <4>1. i \in 0..Waiting-1
        BY <1>0, <3>1, <3>3
      <4> QED
        BY <4>1 DEF RingInv, SlotsHoldFrames
    <3> QED
      BY <3>2, <3>3
  <2>6. SourceKept'
    BY <1>0, <2>1, <2>2, <2>3 DEF RingInv, SourceKept, Pred, streamVars
  <2> QED
    BY <2>4, <2>5, <2>6 DEF RingInv
<1> QED
  BY <1>1, <1>2, <1>3, <1>4 DEF App

\* The streaming thread's steps: it gives a slot back before it has copied the
\* frame, and counts that frame as taken from then on.
LEMMA StreamRingInv ==
  ASSUME RingInv, RingTypeOK', FillBuffer \/ DeliverSample PROVE RingInv'
<1> USE DEF ring, events
<1>0. /\ BufferCount \in Nat /\ BufferCount > 2 /\ pushed \in Nat /\ Taken \in Nat
      /\ Written \in Int /\ Waiting \in Nat /\ Waiting < BufferCount
      /\ BufferReadPtr \in Slots /\ BufferWritePtr \in Slots
      /\ Buffers \in [Slots -> 0..MaxFrames] /\ Len(delivered) \in Nat
  BY RingNumbers DEF RingInv, RingTypeOK
<1>n. /\ BufferReadPtr \in Nat /\ BufferReadPtr < BufferCount
      /\ BufferWritePtr \in Nat /\ BufferWritePtr < BufferCount
  BY <1>0 DEF Slots
<1>d. Waiting = IF BufferReadPtr <= BufferWritePtr
                THEN BufferWritePtr - BufferReadPtr
                ELSE BufferWritePtr - BufferReadPtr + BufferCount
  BY <1>0, Distance
<1>1. CASE TestTerminating \/ LookForFrame \/ WaitForFrame \/ SignalRead
           \/ CopyOut \/ DeliverSample \/ LeaveStream
  <2> USE DEF TestTerminating, LookForFrame, WaitForFrame, SignalRead, CopyOut,
              DeliverSample, LeaveStream
  <2>1. UNCHANGED <<ring, appVars>>
    BY <1>1 DEF appVars
  <2>2. Waiting' = Waiting /\ Written' = Written
    BY <2>1 DEF Waiting, Written, appVars
  <2>3. Taken' = Taken
    <3>1. CASE CopyOut
      <4>1. Len(delivered') = Len(delivered) + 1
        BY <3>1 DEF RingInv, RingTypeOK
      <4> QED
        BY <3>1, <4>1 DEF Taken
    <3>2. CASE ~CopyOut
      BY <1>1, <3>2 DEF Taken
    <3> QED
      BY <3>1, <3>2
  <2>4. IndicesCount' /\ GapKept' /\ SlotsHoldFrames'
    BY <2>1, <2>2, <2>3 DEF RingInv, IndicesCount, GapKept, SlotsHoldFrames, appVars
  <2>5. SourceKept'
    <3>1. CASE LookForFrame
      BY <1>0, <1>n, <1>d, <2>2, <3>1 DEF SourceKept
    <3>2. CASE SignalRead
      BY <2>1, <2>3, <3>2 DEF RingInv, SourceKept, Pred
    <3>3. CASE ~LookForFrame /\ ~SignalRead
      BY <1>1, <3>3 DEF SourceKept
    <3> QED
      BY <3>1, <3>2, <3>3
  <2> QED
    BY <2>4, <2>5 DEF RingInv
<1>2. CASE AdvanceRead
  <2>1. /\ stream = "advance" /\ stream' = "signal" /\ Waiting > 0
        /\ source = BufferReadPtr /\ BufferReadPtr' = Succ(BufferReadPtr)
        /\ UNCHANGED <<Buffers, BufferWritePtr, appVars, source, delivered>>
    BY <1>2 DEF AdvanceRead, RingInv, SourceKept
  <2>2. BufferReadPtr' = IF BufferReadPtr + 1 = BufferCount THEN 0 ELSE BufferReadPtr + 1
    BY <1>0, <2>1, Neighbours
  <2>3. BufferReadPtr' \in Slots /\ BufferWritePtr' \in Slots
    BY DEF RingTypeOK
  <2>4. Waiting' = Waiting - 1
    <3>1. Waiting' = IF BufferReadPtr' <= BufferWritePtr'
                     THEN BufferWritePtr' - BufferReadPtr'
                     ELSE BufferWritePtr' - BufferReadPtr' + BufferCount
      BY <2>3, DistanceOf DEF Waiting
    <3> QED
      BY <1>0, <1>n, <1>d, <2>1, <2>2, <3>1
  <2>5. Taken' = Taken + 1 /\ Written' = Written
    BY <1>0, <2>1 DEF Taken, Written, appVars
  <2>6. IndicesCount' /\ GapKept'
    BY <1>0, <2>1, <2>4, <2>5 DEF RingInv, IndicesCount, GapKept, appVars
  <2>7. SlotsHoldFrames'
    <3>1. SUFFICES ASSUME NEW i \in 0..Waiting-2
                   PROVE  Buffers[(BufferReadPtr' + i) % BufferCount] = Taken + i + 2
      BY <1>0, <2>1, <2>4, <2>5 DEF SlotsHoldFrames
    <3>2. i \in Slots /\ i + 1 \in Slots /\ i \in Nat /\ i + 1 \in 0..Waiting-1
      BY <1>0, <3>1 DEF Slots
    <3>3. (BufferReadPtr' + i) % BufferCount =
            IF BufferReadPtr' + i < BufferCount
            THEN BufferReadPtr' + i ELSE BufferReadPtr' + i - BufferCount
      BY <2>3, <3>2, Place
    <3>4. (BufferReadPtr + (i + 1)) % BufferCount =
            IF BufferReadPtr + (i + 1) < BufferCount
            THEN BufferReadPtr + (i + 1) ELSE BufferReadPtr + (i + 1) - BufferCount
      BY <1>0, <3>2, Place
    <3>5. i < BufferCount - 1
      BY <1>0, <3>2
    <3>6. (BufferReadPtr' + i) % BufferCount = (BufferReadPtr + (i + 1)) % BufferCount
      BY <1>0, <1>n, <2>2, <3>2, <3>3, <3>4, <3>5
    <3>7. Buffers[(BufferReadPtr + (i + 1)) % BufferCount] = Taken + (i + 1) + 1
      BY <3>2 DEF RingInv, SlotsHoldFrames
    <3> QED
      BY <1>0, <3>2, <3>6, <3>7
  <2>8. SourceKept'
    <3>1. Pred(BufferReadPtr') = BufferReadPtr
      <4>1. Pred(BufferReadPtr') =
              IF BufferReadPtr' = 0 THEN BufferCount - 1 ELSE BufferReadPtr' - 1
        BY <2>3, Neighbours
      <4> QED
        BY <1>0, <1>n, <2>2, <4>1
    <3>2. Buffers[BufferReadPtr] = Taken + 1
      <4>1. 0 \in 0..Waiting-1 /\ 0 \in Slots
        BY <1>0, <2>1 DEF Slots
      <4>2. (BufferReadPtr + 0) % BufferCount = BufferReadPtr
        BY <1>0, <1>n, OneRound
      <4>3. Buffers[(BufferReadPtr + 0) % BufferCount] = Taken + 0 + 1
        BY <4>1 DEF RingInv, SlotsHoldFrames
      <4> QED
        BY <1>0, <4>2, <4>3
    <3> QED
      BY <2>1, <2>5, <3>1, <3>2 DEF SourceKept, Pred
  <2> QED
    BY <2>6, <2>7, <2>8 DEF RingInv
<1> QED
  BY <1>1, <1>2 DEF FillBuffer

\* The invariant of the ring holds for any number of slots above two: nothing in
\* the hand-over depends on the four the code has.
THEOREM RingInvariant == RingSpec => []RingInv
<1>1. RingInit => RingInv
  BY InitRingInv
<1>2. RingInv /\ [RingNext]_ringVars => RingInv'
  <2> SUFFICES ASSUME RingInv, [RingNext]_ringVars PROVE RingInv'
    OBVIOUS
  <2>1. RingTypeOK'
    BY RingType DEF RingInv
  <2>2. CASE PushData \/ SetTerminating \/ App
    BY <2>1, <2>2, AppRingInv
  <2>3. CASE FillBuffer \/ DeliverSample
    BY <2>1, <2>3, StreamRingInv
  <2>4. CASE UNCHANGED ringVars
    <3>1. UNCHANGED <<ring, appVars, streamVars>>
      BY <2>4 DEF ringVars
    <3>2. Waiting' = Waiting /\ Taken' = Taken /\ Written' = Written
      BY <3>1 DEF Waiting, Taken, Written, ring, appVars, streamVars
    <3> QED
      BY <2>1, <3>1, <3>2
         DEF RingInv, IndicesCount, SlotsHoldFrames, GapKept, SourceKept, Pred,
             ring, appVars, streamVars
  <2> QED
    BY <2>2, <2>3, <2>4 DEF RingNext
<1> QED
  BY <1>1, <1>2, PTL DEF RingSpec

\* The slots between the indices hold the frames not yet taken, in order, however
\* many slots the ring has, and the state keeps its type.
THEOREM RingHoldsFrames == RingSpec => []RingIsSound
<1>1. RingInv => RingIsSound
  BY DEF RingInv, RingIsSound
<1> QED
  BY <1>1, RingInvariant, PTL

\* The streaming thread always copies the next frame, whole, although it gives
\* the slot back first: one slot kept free is enough in a ring of any size.
THEOREM RingCopiesWholeFrames == RingSpec => []FrameIntact
<1>1. RingInv => FrameIntact
  <2> SUFFICES ASSUME RingInv, stream \in {"advance", "signal", "copy"}
               PROVE  Buffers[source] = Len(delivered) + 1
    BY DEF FrameIntact
  <2>0. /\ BufferReadPtr \in Slots /\ BufferCount \in Nat /\ Waiting \in Nat
        /\ Len(delivered) \in Nat
    BY RingNumbers DEF RingInv, RingTypeOK
  <2>1. CASE stream = "advance"
    <3>1. source = BufferReadPtr /\ Waiting > 0 /\ Taken = Len(delivered)
      BY <2>1 DEF RingInv, SourceKept, Taken
    <3>2. 0 \in 0..Waiting-1
      BY <2>0, <3>1
    <3>3. BufferReadPtr \in Nat /\ BufferReadPtr < BufferCount
      BY <2>0 DEF Slots
    <3>4. (BufferReadPtr + 0) % BufferCount = BufferReadPtr
      BY <2>0, <3>3, OneRound
    <3>5. Buffers[(BufferReadPtr + 0) % BufferCount] = Taken + 0 + 1
      BY <3>2 DEF RingInv, SlotsHoldFrames
    <3> QED
      BY <2>0, <3>1, <3>4, <3>5
  <2>2. CASE stream \in {"signal", "copy"}
    BY <2>2 DEF RingInv, SourceKept, Taken
  <2> QED
    BY <2>1, <2>2
<1> QED
  BY <1>1, RingInvariant, PTL

-----------------------------------------------------------------------------
(* To its two sides the ring is a FIFO of frames.                            *)

\* Terminate is called between two frames, and the graph stops after the stream.
EndInv ==
  /\ Terminating <=> app \in {"wake", "stop", "stopped"}
  /\ app = "stopped" => stream = "ended"

THEOREM EndInvariant == RingSpec => []EndInv
<1>1. RingInit => EndInv
  BY DEF RingInit, EndInv
<1>2. EndInv /\ [RingNext]_ringVars => EndInv'
  BY DEF EndInv, RingNext, App, FillBuffer, PushData, SetTerminating, LookForRoom, WaitForRoom,
         CopyIn, AdvanceWrite, SignalWrite, SignalTermination, StopGraph, TestTerminating,
         LookForFrame, WaitForFrame, AdvanceRead, SignalRead, CopyOut, DeliverSample,
         LeaveStream, ringVars, ring, events, appVars, streamVars
<1> QED
  BY <1>1, <1>2, PTL DEF RingSpec

\* What the abstract FIFO sees of the ring.
RingPending ==
  (IF stream \in {"signal", "copy"} THEN <<Buffers[source]>> ELSE <<>>)
    \o (IF app = "stopped" THEN <<>>
        ELSE [i \in 1..Waiting |-> Buffers[(BufferReadPtr + i - 1) % BufferCount]])
RingPhase ==
  CASE ~Terminating -> "open"
    [] Terminating /\ (app # "stopped" \/ Waiting = 0) -> "closing"
    [] app = "stopped" /\ Waiting # 0 -> "discarding"

\* n frames in order, from the one after frame a.
Frames(a, n) == [i \in 1..n |-> a + i]

\* It is a sequence of n numbers ...
LEMMA FramesAre ==
  ASSUME NEW a \in Nat, NEW n \in Nat
  PROVE  /\ Frames(a, n) \in Seq(Nat)
         /\ Len(Frames(a, n)) = n
         /\ \A i \in 1..n : Frames(a, n)[i] = a + i
BY DEF Frames

\* ... and any such sequence is it.
LEMMA SameFrames ==
  ASSUME NEW a \in Nat, NEW n \in Nat, NEW s \in Seq(Nat),
         Len(s) = n, \A i \in 1..n : s[i] = a + i
  PROVE  s = Frames(a, n)
<1>1. Len(s) = Len(Frames(a, n)) /\ Frames(a, n) \in Seq(Nat)
  BY FramesAre
<1>2. \A i \in 1..Len(s) : s[i] = Frames(a, n)[i]
  BY FramesAre
<1> QED
  BY <1>1, <1>2, SeqEqual

\* The next frame goes behind it ...
LEMMA FramesGrow ==
  ASSUME NEW a \in Nat, NEW n \in Nat
  PROVE  Append(Frames(a, n), a + n + 1) = Frames(a, n + 1)
<1>1. n + 1 \in Nat /\ a + n + 1 \in Nat
  OBVIOUS
<1>2. PICK s \in Seq(Nat) : s = Frames(a, n) /\ Len(s) = n /\ \A i \in 1..n : s[i] = a + i
  BY FramesAre
<1>3. Append(s, a + n + 1) = Frames(a, n + 1)
  <2>1. /\ Append(s, a + n + 1) \in Seq(Nat) /\ Len(Append(s, a + n + 1)) = n + 1
        /\ \A i \in 1..n : Append(s, a + n + 1)[i] = s[i]
        /\ Append(s, a + n + 1)[n + 1] = a + n + 1
    BY <1>1, <1>2, AppendProperties
  <2>2. \A i \in 1..(n + 1) : Append(s, a + n + 1)[i] = a + i
    BY <1>2, <2>1
  <2> QED
    BY <1>1, <2>1, <2>2, SameFrames
<1> QED
  BY <1>2, <1>3

\* ... and the oldest one is taken in front.
LEMMA FramesFrom ==
  ASSUME NEW a \in Nat, NEW n \in Nat
  PROVE  /\ <<a + 1>> \o Frames(a + 1, n) = Frames(a, n + 1)
         /\ Frames(a, n + 1) # <<>>
         /\ Head(Frames(a, n + 1)) = a + 1 /\ Tail(Frames(a, n + 1)) = Frames(a + 1, n)
<1>1. n + 1 \in Nat /\ a + 1 \in Nat
  OBVIOUS
<1>2. PICK s \in Seq(Nat) : /\ s = Frames(a + 1, n) /\ Len(s) = n
                            /\ \A i \in 1..n : s[i] = a + 1 + i
  BY <1>1, FramesAre
<1>3. <<a + 1>> \in Seq(Nat) /\ Len(<<a + 1>>) = 1 /\ <<a + 1>>[1] = a + 1
  BY <1>1
<1>4. <<a + 1>> \o s = Frames(a, n + 1)
  <2>1. /\ <<a + 1>> \o s \in Seq(Nat)
        /\ Len(<<a + 1>> \o s) = n + 1
    BY <1>2, <1>3, ConcatProperties
  <2>2. ASSUME NEW i \in 1..(n + 1) PROVE (<<a + 1>> \o s)[i] = a + i
    <3>1. (<<a + 1>> \o s)[i] = IF i <= 1 THEN <<a + 1>>[i] ELSE s[i - 1]
      BY <1>2, <1>3, ConcatProperties
    <3>2. CASE i = 1
      BY <1>3, <3>1, <3>2
    <3>3. CASE i # 1
      <4>1. i - 1 \in 1..n
        BY <3>3
      <4>2. s[i - 1] = a + 1 + (i - 1)
        BY <1>2, <4>1
      <4>3. ~(i <= 1) /\ a + 1 + (i - 1) = a + i
        BY <3>3
      <4> QED
        BY <3>1, <4>2, <4>3, Zenon
    <3> QED
      BY <3>2, <3>3
  <2> QED
    BY <1>1, <2>1, <2>2, SameFrames
<1>5. Head(<<a + 1>> \o s) = a + 1 /\ Tail(<<a + 1>> \o s) = s /\ <<a + 1>> \o s # <<>>
  BY <1>1
<1> QED
  BY <1>2, <1>4, <1>5

\* Nothing waits when none is left.
LEMMA NoFrames == ASSUME NEW a \in Nat PROVE Frames(a, 0) = <<>>
BY DEF Frames

\* As long as the graph runs, what waits in the ring or in the hand of the streaming
\* thread are the frames from the last one delivered to the last one written.
PendingFrames ==
  app # "stopped" => RingPending = Frames(Len(delivered), Written - Len(delivered))
                     /\ Written - Len(delivered) \in Nat

LEMMA RingFrames == RingInv => PendingFrames
<1> SUFFICES ASSUME RingInv, app # "stopped"
             PROVE  RingPending = Frames(Len(delivered), Written - Len(delivered))
                    /\ Written - Len(delivered) \in Nat
  BY DEF PendingFrames
<1>0. /\ Waiting \in Nat /\ Len(delivered) \in Nat /\ Taken \in Nat /\ Written \in Int
      /\ BufferReadPtr \in Nat /\ Waiting = Written - Taken
  BY RingNumbers DEF RingInv, IndicesCount, RingTypeOK, Slots
<1>1. [i \in 1..Waiting |-> Buffers[(BufferReadPtr + i - 1) % BufferCount]]
        = Frames(Taken, Waiting)
  <2>1. ASSUME NEW i \in 1..Waiting
        PROVE  Buffers[(BufferReadPtr + i - 1) % BufferCount] = Taken + i
    <3>1. i - 1 \in 0..Waiting-1 /\ BufferReadPtr + i - 1 = BufferReadPtr + (i - 1)
      BY <1>0
    <3>2. Buffers[(BufferReadPtr + (i - 1)) % BufferCount] = Taken + (i - 1) + 1
      BY <3>1 DEF RingInv, SlotsHoldFrames
    <3> QED
      BY <1>0, <3>1, <3>2
  <2> QED
    BY <2>1 DEF Frames
<1>2. CASE stream \in {"signal", "copy"}
  <2>1. Taken = Len(delivered) + 1 /\ Buffers[source] = Taken
    BY <1>2 DEF RingInv, SourceKept, Taken
  <2>2. RingPending = <<Len(delivered) + 1>> \o Frames(Len(delivered) + 1, Waiting)
    BY <1>1, <1>2, <2>1 DEF RingPending
  <2>3. Written - Len(delivered) = Waiting + 1
    BY <1>0, <2>1
  <2>4. RingPending = Frames(Len(delivered), Waiting + 1)
    BY <1>0, <2>2, FramesFrom
  <2> QED
    BY <1>0, <2>3, <2>4
<1>3. CASE stream \notin {"signal", "copy"}
  <2>1. Taken = Len(delivered)
    BY <1>3 DEF Taken
  <2>2. RingPending = <<>> \o Frames(Taken, Waiting)
    BY <1>1, <1>3 DEF RingPending
  <2>3. RingPending = Frames(Taken, Waiting)
    BY <1>0, <2>2, FramesAre, ConcatEmptySeq
  <2>4. Written - Len(delivered) = Waiting
    BY <1>0, <2>1
  <2> QED
    BY <1>0, <2>1, <2>3, <2>4
<1> QED
  BY <1>2, <1>3

LEMMA RingFramesAfter == RingInv' => PendingFrames'
  BY RingFrames, PTL

\* A step that moves no frame past either end is a stutter of the FIFO.
LEMMA RingStutter ==
  ASSUME RingInv, RingInv', app # "stopped", app' # "stopped",
         Written' = Written, delivered' = delivered, Terminating' = Terminating
  PROVE  UNCHANGED RingFifo!fifoVars
<1>1. RingPending' = RingPending
  BY RingFrames, RingFramesAfter DEF PendingFrames
<1>2. RingPhase' = RingPhase
  BY DEF RingPhase
<1> QED
  BY <1>1, <1>2 DEF RingFifo!fifoVars, RingPending, RingPhase

\* The capturing thread: a frame is accepted when the write index moves past it;
\* Terminate closes the FIFO, and stopping the graph throws away what is left.
LEMMA AppRefines ==
  ASSUME RingInv, RingInv', EndInv, EndInv', PushData \/ SetTerminating \/ App
  PROVE  [RingFifo!Next]_RingFifo!fifoVars
<1> USE DEF ring, events
<1>0. /\ BufferCount \in Nat /\ BufferCount > 2 /\ pushed \in Nat /\ Waiting \in Nat
      /\ Len(delivered) \in Nat /\ pushed \in 0..MaxFrames /\ MaxFrames \in Nat
  BY RingNumbers DEF RingInv, RingTypeOK
<1>1. CASE PushData \/ LookForRoom \/ WaitForRoom \/ CopyIn \/ SignalWrite \/ SignalTermination
  <2>1. /\ Written' = Written /\ delivered' = delivered /\ Terminating' = Terminating
        /\ app # "stopped" /\ app' # "stopped"
    BY <1>0, <1>1 DEF PushData, LookForRoom, WaitForRoom, CopyIn, SignalWrite,
                      SignalTermination, Written, streamVars
  <2> QED
    BY <2>1, RingStutter
<1>2. CASE AdvanceWrite
  <2>1. /\ app = "advance" /\ app' = "signal" /\ delivered' = delivered
        /\ Terminating' = Terminating /\ ~Terminating
        /\ pushed > 0 /\ pushed' = pushed /\ Waiting < BufferCount - 1
    BY <1>2 DEF AdvanceWrite, streamVars, EndInv, RingInv, GapKept, IndicesCount
  <2>2. Written = pushed - 1 /\ Written' = pushed
    BY <2>1 DEF Written
  <2>3. /\ RingPending = Frames(Len(delivered), Written - Len(delivered))
        /\ Written - Len(delivered) \in Nat
    BY <2>1, RingFrames DEF PendingFrames
  <2>4. RingPending' = Frames(Len(delivered), Written - Len(delivered) + 1)
    <3>1. RingPending' = Frames(Len(delivered'), Written' - Len(delivered'))
      BY <2>1, RingFramesAfter DEF PendingFrames
    <3>2. Written' - Len(delivered') = Written - Len(delivered) + 1
      BY <1>0, <2>1, <2>2
    <3> QED
      BY <2>1, <3>1, <3>2
  <2>5. RingPending' = Append(RingPending, pushed)
    <3>1. Len(delivered) + (Written - Len(delivered)) + 1 = pushed
      BY <1>0, <2>2
    <3> QED
      BY <1>0, <2>3, <2>4, <3>1, FramesGrow
  <2>6. Len(RingPending) < BufferCount
    <3>1. Len(RingPending) = Written - Len(delivered)
      BY <1>0, <2>3, FramesAre
    <3>2. Waiting = Written - Taken /\ Taken <= Len(delivered) + 1
      BY <1>0 DEF RingInv, IndicesCount, Taken
    <3>3. Taken \in Nat
      BY <1>0 DEF Taken
    <3> QED
      BY <1>0, <2>1, <2>2, <3>1, <3>2, <3>3
  <2>7. RingPhase = "open" /\ RingPhase' = "open"
    BY <2>1 DEF RingPhase
  <2>8. pushed \in 1..MaxFrames
    BY <1>0, <2>1
  <2>9. ASSUME NEW i \in 1..MaxFrames, i = pushed
        PROVE  RingFifo!Accept(i)
    BY <2>1, <2>5, <2>6, <2>7, <2>9 DEF RingFifo!Accept, RingPending, RingPhase
  <2>10. \E i \in 1..MaxFrames : RingFifo!Accept(i)
    BY <2>8, <2>9
  <2> QED
    BY <2>10, Zenon DEF RingFifo!Next
<1>3. CASE SetTerminating
  <2>1. /\ app = "idle" /\ app' = "wake" /\ delivered' = delivered /\ pushed' = pushed
        /\ ~Terminating /\ Terminating'
    BY <1>3 DEF SetTerminating, streamVars, EndInv
  <2>2. RingPending' = RingPending
    <3>1. Written' = Written
      BY <2>1 DEF Written
    <3> QED
      BY <2>1, <3>1, RingFrames, RingFramesAfter DEF PendingFrames
  <2>3. RingPhase = "open" /\ RingPhase' = "closing"
    BY <2>1 DEF RingPhase
  <2>4. RingFifo!Close
    BY <2>1, <2>2, <2>3 DEF RingFifo!Close, RingPending, RingPhase
  <2> QED
    BY <2>4 DEF RingFifo!Next
<1>4. CASE StopGraph
  <2>1. /\ app = "stop" /\ app' = "stopped" /\ stream = "ended" /\ stream' = "ended"
        /\ Terminating /\ Terminating' /\ delivered' = delivered /\ Waiting' = Waiting
    BY <1>4 DEF StopGraph, streamVars, EndInv, Waiting
  <2>2. RingPending' = <<>>
    BY <2>1 DEF RingPending
  <2>3. RingPending = Frames(Len(delivered), Waiting) /\ Len(RingPending) = Waiting
    <3>1. Written - Len(delivered) = Waiting
      BY <1>0, <2>1 DEF RingInv, IndicesCount, Taken
    <3>2. RingPending = Frames(Len(delivered), Waiting)
      BY <2>1, <3>1, RingFrames DEF PendingFrames
    <3> QED
      BY <1>0, <3>2, FramesAre
  <2>4. CASE Waiting = 0
    <3>1. RingPending = <<>> /\ RingPhase = "closing" /\ RingPhase' = "closing"
      BY <1>0, <2>1, <2>3, <2>4, NoFrames DEF RingPhase
    <3> QED
      BY <2>1, <2>2, <3>1 DEF RingFifo!fifoVars, RingPending, RingPhase
  <2>5. CASE Waiting # 0
    <3>1. RingPhase = "closing" /\ RingPhase' = "discarding"
      BY <2>1, <2>5 DEF RingPhase
    <3>2. /\ Waiting \in 1..Len(RingPending)
          /\ SubSeq(RingPending, Waiting + 1, Len(RingPending)) = <<>>
      BY <1>0, <2>3, <2>5, SubSeqEmpty
    <3>3. \E n \in 1..Len(RingPending) : RingPending' = SubSeq(RingPending, n + 1, Len(RingPending))
      BY <2>2, <3>2
    <3>4. RingFifo!Discard
      BY <2>1, <3>1, <3>3 DEF RingFifo!Discard, RingPending, RingPhase
    <3> QED
      BY <3>4 DEF RingFifo!Next
  <2> QED
    BY <2>4, <2>5
<1> QED
  BY <1>1, <1>2, <1>3, <1>4, Zenon DEF App

\* The streaming thread: a frame is delivered when it has been copied out.
LEMMA StreamRefines ==
  ASSUME RingInv, RingInv', EndInv, EndInv', FillBuffer \/ DeliverSample
  PROVE  [RingFifo!Next]_RingFifo!fifoVars
<1> USE DEF ring, events
<1>0. /\ app # "stopped" /\ UNCHANGED <<app, pushed, Terminating>>
  BY DEF EndInv, FillBuffer, TestTerminating, LookForFrame, WaitForFrame, AdvanceRead,
         SignalRead, CopyOut, DeliverSample, LeaveStream, appVars
<1>1. Written' = Written
  BY <1>0 DEF Written
<1>2. CASE CopyOut
  <2>1. /\ stream = "copy" /\ stream' = "deliver"
        /\ delivered' = Append(delivered, Buffers[source])
        /\ delivered \in Seq(0..MaxFrames) /\ Len(delivered) \in Nat
        /\ Buffers[source] = Len(delivered) + 1
    BY <1>2 DEF CopyOut, RingInv, RingTypeOK, SourceKept, Taken
  <2>2. Len(delivered') = Len(delivered) + 1 /\ Written \in Int
    BY <2>1, RingNumbers DEF RingInv
  <2>3. /\ RingPending = Frames(Len(delivered), Written - Len(delivered))
        /\ RingPending' = Frames(Len(delivered) + 1, Written - Len(delivered) - 1)
        /\ Written - Len(delivered) - 1 \in Nat
    <3>1. Written' - Len(delivered') = Written - Len(delivered) - 1
      BY <1>1, <2>1, <2>2
    <3> QED
      BY <1>0, <2>2, <3>1, RingFrames, RingFramesAfter DEF PendingFrames
  <2>4. RingPending = Frames(Len(delivered), (Written - Len(delivered) - 1) + 1)
    BY <2>1, <2>2, <2>3
  <2>5. /\ RingPending # <<>> /\ Head(RingPending) = Len(delivered) + 1
        /\ RingPending' = Tail(RingPending)
    BY <2>1, <2>3, <2>4, FramesFrom
  <2>6. RingPhase \in {"open", "closing"} /\ RingPhase' = RingPhase
    BY <1>0 DEF RingPhase
  <2>7. RingFifo!Deliver
    BY <2>1, <2>5, <2>6 DEF RingFifo!Deliver, RingPending, RingPhase
  <2> QED
    BY <2>7 DEF RingFifo!Next
<1>3. CASE ~CopyOut
  <2>1. delivered' = delivered
    BY <1>3 DEF FillBuffer, TestTerminating, LookForFrame, WaitForFrame, AdvanceRead,
                SignalRead, DeliverSample, LeaveStream
  <2> QED
    BY <1>0, <1>1, <2>1, RingStutter
<1> QED
  BY <1>2, <1>3

\* The ring implements the FIFO, whatever the number of its slots: the frames come
\* out in order, none is lost or doubled before the stream is terminated.
THEOREM RingRefinesFifo == RingSpec => RingImplementsFifo
<1>1. RingInit => RingFifo!Init
  <2> SUFFICES ASSUME RingInit PROVE RingFifo!Init
    OBVIOUS
  <2>1. RingInv
    BY InitRingInv
  <2>2. Written = 0 /\ Len(delivered) = 0 /\ app # "stopped" /\ ~Terminating
        /\ delivered = <<>>
    BY DEF RingInit, Written
  <2>3. RingPending = <<>> /\ RingPhase = "open"
    BY <2>1, <2>2, RingFrames, NoFrames DEF PendingFrames, RingPhase
  <2> QED
    BY <2>2, <2>3 DEF RingFifo!Init, RingPending, RingPhase
<1>2. ASSUME RingInv, RingInv', EndInv, EndInv', [RingNext]_ringVars
      PROVE  [RingFifo!Next]_RingFifo!fifoVars
  <2>1. CASE UNCHANGED ringVars
    <3> USE DEF ringVars, ring, appVars, streamVars
    <3>1. RingPending' = RingPending /\ RingPhase' = RingPhase /\ delivered' = delivered
      BY <2>1 DEF RingPending, RingPhase, Waiting
    <3> QED
      BY <3>1 DEF RingFifo!fifoVars, RingPending, RingPhase
  <2> QED
    BY <1>2, <2>1, AppRefines, StreamRefines DEF RingNext
<1> QED
  BY <1>1, <1>2, RingInvariant, EndInvariant, PTL DEF RingSpec, RingImplementsFifo
=============================================================================
