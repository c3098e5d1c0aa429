---------------------------- MODULE WaveOutProofs ----------------------------
(***************************************************************************)
(* Theorems about the waveOut device, for any buffers, rates and frames.   *)
(***************************************************************************)
EXTENDS WaveOut, TLAPS

\* The code follows lpNext inside a loop but takes its buffers back from Head: a loop of
\* more than one buffer ends in its inconsistent state, so a buffer that begins a loop
\* ends it here.
LoopsOfOne == BeginLoop \subseteq EndLoop

-----------------------------------------------------------------------------
(* The invariant. *)

Callback == pc \in {"doneInFrame", "doneInReset", "lost"}

\* The buffers written and not done, each once, are linked from the first to the tail;
\* in a callback the one that is done is still in front of them.
ListInv ==
  /\ \A h \in Headers : h \in inQueue <=> \E i \in 1..Len(playQueue) : playQueue[i] = h
  /\ \A i, j \in 1..Len(playQueue) : playQueue[i] = playQueue[j] => i = j
  /\ \A i \in 1..Len(playQueue)-1 : lpNext[playQueue[i]] = playQueue[i+1]
  /\ playQueue # <<>> => qTail = playQueue[Len(playQueue)]
  /\ qTail # None => lpNext[qTail] = None
  /\ qHead = Current
  /\ Callback => /\ Current \in Headers /\ Current \notin inQueue
                 /\ playQueue = <<>> => qTail = Current
                 /\ playQueue # <<>> => lpNext[Current] = playQueue[1]
  /\ ~Callback => /\ playQueue = <<>> => Current = None /\ qTail = None
                  /\ playQueue # <<>> => Current = playQueue[1]

Serving == pc \in {"idle", "consume", "doneInFrame"}
Playing == pc \in {"idle", "consume"} /\ Current # None

\* The device is in a loop as long as the buffer that plays has turns left.
LoopInv ==
  /\ Serving /\ ~Playing => ~InLoop /\ CurrentBufferPos = 0
  /\ Playing => (InLoop <=> dwLoops[Current] # 0)
  /\ \A h \in Headers : dwLoops[h] # 0 => h \in BeginLoop

\* What was encoded of the buffer that plays are its whole turns and the present one;
\* nothing was of those behind it.
PlayedInv ==
  /\ Playing =>
       /\ CurrentBufferPos <= Length[Current] /\ dwLoops[Current] <= asked[Current]
       /\ given[Current] = (asked[Current] - dwLoops[Current]) * Length[Current] + CurrentBufferPos
  /\ \A h \in inQueue : Serving /\ (Playing => h # Current) => given[h] = 0 /\ dwLoops[h] = asked[h]

\* The silent frames, which move FirstFrame on, and the sound each has at least.
Silent == FirstFrame - FirstWriteFrame
Quota == Rate \div FrameRate
Due == SamplesIn(frame - FirstWriteFrame)
InFrame == pc \in {"consume", "doneInFrame"}

\* Until the first reset all sound that is due is encoded or still to come in this frame,
\* and what was played leaves out the share of the silent frames.
StepInv ==
  /\ currentWaveOut =>
       /\ FirstWriteFrame <= FirstFrame
       /\ pc = "idle" => encoded = Due /\ CurrentSamplePos = Due /\ played + Silent * Quota <= Due
       /\ InFrame => encoded + sampleCount = Due /\ played + sampleCount + Silent * Quota <= Due
  /\ ~currentWaveOut => encoded = 0 /\ played = 0 /\ CurrentSamplePos = 0
  /\ FrameInitialized = currentWaveOut

SoundInv ==
  /\ FirstFrame <= frame
  /\ InFrame => currentWaveOut
  /\ pc \in {"reset", "doneInReset"} => hadReset
  /\ ~hadReset => StepInv

WaveInv == TypeOK /\ ~inconsistent /\ ListInv /\ LoopInv /\ PlayedInv /\ SoundInv

-----------------------------------------------------------------------------
(* Every step keeps the list. *)

LEMMA Constants ==
  /\ None \notin Headers /\ Length \in [Headers -> Nat] /\ BeginLoop \subseteq Headers
  /\ MaxLoops \in Nat \ {0} /\ Rate \in Nat \ {0} /\ FrameRate \in Nat \ {0}
  /\ MaxGetPosition \in Nat \ {0} /\ MaxFrames \in Nat \ {0} /\ DWordRange \in Nat \ {0}
  /\ Rate < DWordRange
BY WaveOutAssumption

ListTypes ==
  /\ qHead \in Headers \union {None} /\ Current \in Headers \union {None} /\ qTail \in Headers \union {None}
  /\ lpNext \in [Headers -> Headers \union {None}] /\ inQueue \subseteq Headers /\ playQueue \in Seq(Headers)

LEMMA ListHasTypes == TypeOK => ListTypes
BY DEF TypeOK, ListTypes

LEMMA ListStays ==
  ASSUME ListInv, UNCHANGED <<qHead, Current, qTail, lpNext, inQueue, playQueue>>, Callback' <=> Callback
  PROVE  ListInv'
BY DEF ListInv

\* In the list are headers; its tail is one unless it is empty.
LEMMA ListEnds ==
  ASSUME ListTypes, ListInv
  PROVE  /\ Len(playQueue) \in Nat /\ \A i \in 1..Len(playQueue) : playQueue[i] \in Headers /\ playQueue[i] \in inQueue
         /\ qTail = None <=> playQueue = <<>> /\ ~Callback
         /\ ~Callback => (Current = None <=> playQueue = <<>>)
         /\ ~Callback /\ playQueue # <<>> => Current \in inQueue
<1>1. Len(playQueue) \in Nat /\ \A i \in 1..Len(playQueue) : playQueue[i] \in Headers
  BY DEF ListTypes
<1>2. \A i \in 1..Len(playQueue) : playQueue[i] \in inQueue
  BY <1>1 DEF ListInv
<1>3. playQueue # <<>> => 1 \in 1..Len(playQueue) /\ Len(playQueue) \in 1..Len(playQueue)
  BY <1>1 DEF ListTypes
<1>4. qTail = None <=> playQueue = <<>> /\ ~Callback
  BY <1>1, <1>3, Constants DEF ListInv
<1>5. ~Callback => (Current = None <=> playQueue = <<>>)
  BY <1>1, <1>3, Constants DEF ListInv
<1>6. ~Callback /\ playQueue # <<>> => Current \in inQueue
  BY <1>2, <1>3 DEF ListInv
<1> QED
  BY <1>1, <1>2, <1>4, <1>5, <1>6

\* The buffer at the head is done; the callback follows.
LEMMA DoneKeepsList ==
  ASSUME ListTypes, ListInv, ~Callback, Current # None, doneBuffer(pc'), Callback',
         UNCHANGED <<qHead, Current, qTail, lpNext>>
  PROVE  /\ ListInv' /\ inconsistent' = inconsistent
         /\ Current \in inQueue /\ inQueue' = inQueue \ {Current}
<1>1. /\ qHead = Current /\ playQueue # <<>> /\ Current = playQueue[1] /\ Current \in inQueue
      /\ Current \in Headers
  BY ListEnds DEF ListInv, ListTypes
<1>2. inQueue' = inQueue \ {Current} /\ playQueue' = Tail(playQueue) /\ inconsistent' = inconsistent
  BY <1>1 DEF doneBuffer
<1>3. /\ Len(playQueue) \in Nat \ {0} /\ Len(playQueue') = Len(playQueue) - 1
      /\ \A i \in 1..Len(playQueue') : playQueue'[i] = playQueue[i + 1] /\ i + 1 \in 1..Len(playQueue)
      /\ playQueue' \in Seq(Headers)
  BY <1>1, <1>2 DEF ListTypes
<1>4. \A i, j \in 1..Len(playQueue) : playQueue[i] = playQueue[j] => i = j
  BY DEF ListInv
<1>5. ASSUME NEW h \in Headers
      PROVE  h \in inQueue' <=> \E i \in 1..Len(playQueue') : playQueue'[i] = h
  <2>1. ASSUME h \in inQueue'
        PROVE  \E i \in 1..Len(playQueue') : playQueue'[i] = h
    <3>1. h \in inQueue /\ h # playQueue[1]
      BY <1>1, <1>2, <2>1
    <3>2. PICK j \in 1..Len(playQueue) : playQueue[j] = h
      BY <3>1 DEF ListInv
    <3>3. j - 1 \in 1..Len(playQueue') /\ playQueue'[j - 1] = h
      BY <1>3, <3>1, <3>2
    <3> QED
      BY <3>3
  <2>2. ASSUME NEW i \in 1..Len(playQueue'), playQueue'[i] = h
        PROVE  h \in inQueue'
    <3>1. playQueue[i + 1] = h /\ i + 1 \in 1..Len(playQueue) /\ 1 \in 1..Len(playQueue) /\ i + 1 # 1
      BY <1>3, <2>2
    <3>2. h \in inQueue /\ h # playQueue[1]
      BY <1>4, <3>1 DEF ListInv
    <3> QED
      BY <1>1, <1>2, <3>2
  <2> QED
    BY <2>1, <2>2
<1>6. ASSUME NEW i \in 1..Len(playQueue'), NEW j \in 1..Len(playQueue'), playQueue'[i] = playQueue'[j]
      PROVE  i = j
  <2>1. i + 1 = j + 1
    BY <1>3, <1>4, <1>6
  <2> QED
    BY <1>3, <2>1
<1>7. \A i \in 1..Len(playQueue')-1 : lpNext'[playQueue'[i]] = playQueue'[i+1]
  BY <1>3 DEF ListInv
<1>8. playQueue' # <<>> => qTail' = playQueue'[Len(playQueue')] /\ lpNext'[Current'] = playQueue'[1]
  <2> SUFFICES ASSUME playQueue' # <<>>
               PROVE  qTail' = playQueue'[Len(playQueue')] /\ lpNext'[Current'] = playQueue'[1]
    OBVIOUS
  <2>1. 1 \in 1..Len(playQueue') /\ Len(playQueue') \in 1..Len(playQueue')
    BY <1>3
  <2>2. playQueue'[Len(playQueue')] = playQueue[Len(playQueue)] /\ playQueue'[1] = playQueue[2]
    BY <1>3, <2>1
  <2>3. lpNext[playQueue[1]] = playQueue[2]
    BY <1>3, <2>1 DEF ListInv
  <2> QED
    BY <1>1, <2>2, <2>3 DEF ListInv
<1>9. playQueue' = <<>> => qTail' = Current'
  <2>1. playQueue' = <<>> => Len(playQueue) = 1
    BY <1>3
  <2> QED
    BY <1>1, <2>1 DEF ListInv
<1>10. Current' \in Headers /\ Current' \notin inQueue'
  BY <1>1, <1>2
<1> QED
  BY <1>1, <1>2, <1>5, <1>6, <1>7, <1>8, <1>9, <1>10 DEF ListInv

\* The callback has returned: the next buffer is at the head.
LEMMA UnlinkKeepsList ==
  ASSUME ListTypes, ListInv, Callback, ~Callback', Unlink, UNCHANGED <<lpNext, inQueue, playQueue>>
  PROVE  /\ ListInv' /\ Current' = lpNext[Current]
         /\ Current' # None => Current' \in inQueue
<1>1. /\ Current' = lpNext[Current] /\ qHead' = Current' /\ Current \in Headers
      /\ qTail' = IF Current' = None THEN None ELSE qTail
  BY DEF Unlink, ListInv
<1>2. playQueue = <<>> => Current' = None
  BY <1>1, Constants DEF ListInv
<1>3. playQueue # <<>> => Current' = playQueue[1] /\ playQueue[1] \in Headers /\ playQueue[1] \in inQueue
  BY <1>1, ListEnds DEF ListInv, ListTypes
<1>4. Current' = None <=> playQueue = <<>>
  BY <1>2, <1>3, Constants
<1>5. qTail' # None => lpNext'[qTail'] = None
  BY <1>1 DEF ListInv
<1>6. playQueue # <<>> => qTail' = playQueue[Len(playQueue)]
  BY <1>1, <1>4 DEF ListInv
<1> QED
  BY <1>1, <1>2, <1>3, <1>4, <1>5, <1>6 DEF ListInv

\* A buffer is put behind the others, or is the one that plays.
LEMMA WriteKeepsList ==
  ASSUME ListTypes, ListInv, NEW h \in Headers, write(h)
  PROVE  /\ ListInv'
         /\ IF qTail = None
            THEN pc = "idle" /\ Current = None /\ Current' = h /\ InLoop' = LoopFrom(h, dwLoops')
            ELSE UNCHANGED <<Current, InLoop>> /\ (pc = "idle" => Current # None /\ Current # h)
<1>1. /\ h \notin inQueue /\ inQueue' = inQueue \union {h} /\ playQueue' = Append(playQueue, h) /\ qTail' = h
      /\ pc' = pc /\ (pc = "idle" \/ (pc = "doneInFrame" /\ h # Current))
      /\ h # None
  BY Constants DEF write
<1> DEFINE n == Len(playQueue)
<1>2. /\ n \in Nat /\ Len(playQueue') = n + 1 /\ playQueue'[n + 1] = h
      /\ \A i \in 1..n : playQueue'[i] = playQueue[i] /\ playQueue[i] \in Headers /\ playQueue[i] # h
  BY <1>1, ListEnds DEF ListTypes
<1>3. \A i \in 1..n+1 : i \in 1..n \/ i = n + 1
  BY <1>2
<1>4. ASSUME NEW b \in Headers
      PROVE  b \in inQueue' <=> \E i \in 1..Len(playQueue') : playQueue'[i] = b
  <2>1. CASE b = h
    BY <1>1, <1>2, <2>1
  <2>2. CASE b # h
    <3>1. b \in inQueue' <=> \E i \in 1..n : playQueue[i] = b
      BY <1>1, <2>2 DEF ListInv
    <3>2. (\E i \in 1..Len(playQueue') : playQueue'[i] = b) <=> \E i \in 1..n : playQueue[i] = b
      BY <1>2, <1>3, <2>2
    <3> QED
      BY <3>1, <3>2
  <2> QED
    BY <2>1, <2>2
<1>5. ASSUME NEW i \in 1..Len(playQueue'), NEW j \in 1..Len(playQueue'), playQueue'[i] = playQueue'[j]
      PROVE  i = j
  BY <1>2, <1>3, <1>5 DEF ListInv
<1>6. playQueue' # <<>> /\ qTail' = playQueue'[Len(playQueue')]
  BY <1>1, <1>2
<1>7. CASE qTail # None
  <2>1. lpNext' = [lpNext EXCEPT ![h] = None, ![qTail] = h] /\ UNCHANGED <<qHead, Current, InLoop>>
    BY <1>7 DEF write
  <2>2. qTail \in Headers /\ qTail # h
    <3>1. CASE playQueue # <<>>
      <4>1. n \in 1..n
        BY <1>2, <3>1 DEF ListTypes
      <4> QED
        BY <1>2, <3>1, <4>1 DEF ListInv
    <3>2. CASE playQueue = <<>>
      <4>1. qTail = Current /\ Callback /\ Current \in Headers
        BY <1>7, <3>2, ListEnds DEF ListInv
      <4> QED
        BY <1>1, <4>1 DEF Callback
    <3> QED
      BY <3>1, <3>2
  <2>3. lpNext'[h] = None /\ lpNext'[qTail] = h /\ \A b \in Headers \ {h, qTail} : lpNext'[b] = lpNext[b]
    BY <2>1, <2>2 DEF ListTypes
  <2>4. ASSUME NEW i \in 1..Len(playQueue')-1
        PROVE  lpNext'[playQueue'[i]] = playQueue'[i+1]
    <3>1. CASE i = n
      <4>1. playQueue # <<>> /\ playQueue'[i] = qTail
        BY <1>2, <2>4, <3>1 DEF ListInv
      <4> QED
        BY <1>2, <2>3, <3>1, <4>1
    <3>2. CASE i # n
      <4>1. i \in 1..n-1 /\ i \in 1..n /\ i + 1 \in 1..n /\ n \in 1..n
        BY <1>2, <2>4, <3>2
      <4>2. playQueue[i] # qTail
        <5>1. playQueue # <<>> /\ qTail = playQueue[n]
          BY <4>1 DEF ListInv
        <5> QED
          BY <3>2, <4>1, <5>1 DEF ListInv
      <4>3. lpNext'[playQueue[i]] = lpNext[playQueue[i]]
        BY <1>2, <2>3, <4>1, <4>2
      <4> QED
        BY <1>2, <4>1, <4>3 DEF ListInv
    <3> QED
      BY <3>1, <3>2
  <2>5. ~Callback' => Current' = playQueue'[1] /\ Current # None /\ Current # h
    <3> SUFFICES ASSUME ~Callback' PROVE Current' = playQueue'[1] /\ Current # None /\ Current # h
      OBVIOUS
    <3>1. ~Callback
      BY <1>1 DEF Callback
    <3>2. playQueue # <<>>
      BY <1>7, <3>1, ListEnds
    <3>3. 1 \in 1..n /\ Current = playQueue[1]
      BY <1>2, <3>1, <3>2 DEF ListInv, ListTypes
    <3> QED
      BY <1>2, <2>1, <3>3, Constants
  <2>6. Callback' => /\ Current' \in Headers /\ Current' \notin inQueue'
                     /\ lpNext'[Current'] = playQueue'[1]
    <3> SUFFICES ASSUME Callback'
                 PROVE  /\ Current' \in Headers /\ Current' \notin inQueue'
                        /\ lpNext'[Current'] = playQueue'[1]
      OBVIOUS
    <3>1. Callback /\ h # Current
      BY <1>1 DEF Callback
    <3>2. Current \in Headers /\ Current \notin inQueue
      BY <3>1 DEF ListInv
    <3>3. CASE playQueue = <<>>
      <4>1. qTail = Current /\ n = 0
        BY <3>1, <3>3 DEF ListInv
      <4> QED
        BY <1>1, <1>2, <2>1, <2>3, <3>1, <3>2, <4>1
    <3>4. CASE playQueue # <<>>
      <4>1. 1 \in 1..n /\ n \in 1..n
        BY <1>2, <3>4 DEF ListTypes
      <4>2. Current # qTail
        <5>1. qTail \in inQueue
          BY <3>4, <4>1, ListEnds DEF ListInv
        <5> QED
          BY <3>2, <5>1
      <4>3. lpNext'[Current] = playQueue[1]
        BY <2>3, <3>1, <3>2, <3>4, <4>2 DEF ListInv
      <4> QED
        BY <1>1, <1>2, <2>1, <3>1, <3>2, <4>1, <4>3
    <3> QED
      BY <3>3, <3>4
  <2>7. Callback' <=> Callback
    BY <1>1 DEF Callback
  <2>8. ListInv'
    BY <1>1, <1>4, <1>5, <1>6, <2>1, <2>3, <2>4, <2>5, <2>6 DEF ListInv
  <2>9. pc = "idle" => ~Callback'
    BY <1>1 DEF Callback
  <2> QED
    BY <1>7, <2>1, <2>5, <2>8, <2>9
<1>8. CASE qTail = None
  <2>1. /\ lpNext' = [lpNext EXCEPT ![h] = None] /\ qHead' = h /\ Current' = h
        /\ InLoop' = LoopFrom(h, dwLoops')
    BY <1>8 DEF write
  <2>2. playQueue = <<>> /\ ~Callback /\ n = 0
    BY <1>8, ListEnds
  <2>3. ~Callback' /\ pc = "idle" /\ Current = None
    BY <1>1, <2>2, ListEnds DEF Callback
  <2>4. lpNext'[h] = None
    BY <2>1 DEF ListTypes
  <2>5. \A i \in 1..Len(playQueue')-1 : lpNext'[playQueue'[i]] = playQueue'[i+1]
    BY <1>2, <2>2
  <2>6. ListInv'
    BY <1>1, <1>2, <1>4, <1>5, <1>6, <2>1, <2>2, <2>3, <2>4, <2>5 DEF ListInv
  <2> QED
    BY <1>8, <2>1, <2>3, <2>6
<1> QED
  BY <1>7, <1>8

-----------------------------------------------------------------------------
(* Every step keeps the count of the turns. *)

PlayTypes ==
  /\ Current \in Headers \union {None} /\ inQueue \subseteq Headers
  /\ dwLoops \in [Headers -> 0..MaxLoops] /\ asked \in [Headers -> 0..MaxLoops] /\ given \in [Headers -> Nat]
  /\ CurrentBufferPos \in Nat /\ sampleCount \in Nat /\ InLoop \in BOOLEAN

LEMMA PlayHasTypes == TypeOK => PlayTypes
BY Constants DEF TypeOK, PlayTypes

\* A turn of the buffer that plays is one turn less to come.
LEMMA OneTurn ==
  ASSUME NEW a \in Nat, NEW d \in Nat, NEW l \in Nat
  PROVE  (a - d) * l + l = (a - (d - 1)) * l /\ (a - 0) * l + l = (a + 1) * l
OBVIOUS

LEMMA PlayStays ==
  ASSUME LoopInv, PlayedInv,
         UNCHANGED <<Current, InLoop, dwLoops, inQueue, asked, given, CurrentBufferPos>>,
         Playing' => Playing, Serving' => Serving /\ (Playing => Playing')
  PROVE  LoopInv' /\ PlayedInv'
<1>1. LoopInv'
  BY DEF LoopInv
<1>2. PlayedInv'
  BY DEF PlayedInv
<1> QED
  BY <1>1, <1>2

LEMMA WriteKeepsPlay ==
  ASSUME PlayTypes, ListTypes, ListInv, LoopInv, PlayedInv, NEW h \in Headers, write(h)
  PROVE  LoopInv' /\ PlayedInv'
<1>1. /\ h \notin inQueue /\ inQueue' = inQueue \union {h} /\ pc' = pc
      /\ (pc = "idle" \/ (pc = "doneInFrame" /\ h # Current)) /\ h # None
      /\ given' = [given EXCEPT ![h] = 0] /\ CurrentBufferPos' = CurrentBufferPos
  BY Constants DEF write
<1>2. PICK n \in 0..MaxLoops : /\ dwLoops' = [dwLoops EXCEPT ![h] = n] /\ asked' = [asked EXCEPT ![h] = n]
                               /\ n # 0 => h \in BeginLoop
  <2>1. CASE h \in BeginLoop
    <3>1. PICK n \in 1..MaxLoops : dwLoops' = [dwLoops EXCEPT ![h] = n] /\ asked' = [asked EXCEPT ![h] = n]
      BY <2>1 DEF write
    <3>2. n \in 0..MaxLoops
      BY Constants
    <3> QED
      BY <2>1, <3>1, <3>2
  <2>2. CASE h \notin BeginLoop
    <3>1. dwLoops' = [dwLoops EXCEPT ![h] = 0] /\ asked' = [asked EXCEPT ![h] = 0]
      BY <2>2 DEF write
    <3>2. 0 \in 0..MaxLoops
      BY Constants
    <3> QED
      BY <3>1, <3>2
  <2> QED
    BY <2>1, <2>2
<1>3. /\ dwLoops'[h] = n /\ asked'[h] = n /\ given'[h] = 0
      /\ \A b \in Headers : b # h => dwLoops'[b] = dwLoops[b] /\ asked'[b] = asked[b] /\ given'[b] = given[b]
  BY <1>1, <1>2 DEF PlayTypes
<1>4. \A b \in Headers : dwLoops'[b] # 0 => b \in BeginLoop
  BY <1>2, <1>3 DEF LoopInv
<1>5. CASE qTail # None
  <2>1. UNCHANGED <<Current, InLoop>> /\ (pc = "idle" => Current # None /\ Current # h)
    BY <1>5, WriteKeepsList
  <2>2. (Playing' <=> Playing) /\ (Serving' <=> Serving)
    BY <1>1, <2>1 DEF Playing, Serving
  <2>3. Playing => Current # h /\ Current \in Headers
    BY <1>1, <2>1 DEF Playing, PlayTypes
  <2>4. LoopInv'
    BY <1>1, <1>3, <1>4, <2>1, <2>2, <2>3 DEF LoopInv
  <2>5. PlayedInv'
    <3>1. Playing' =>
            /\ CurrentBufferPos' <= Length[Current'] /\ dwLoops'[Current'] <= asked'[Current']
            /\ given'[Current'] = (asked'[Current'] - dwLoops'[Current']) * Length[Current'] + CurrentBufferPos'
      BY <1>1, <1>3, <2>1, <2>2, <2>3 DEF PlayedInv
    <3>2. ASSUME NEW b \in inQueue', Serving', Playing' => b # Current'
          PROVE  given'[b] = 0 /\ dwLoops'[b] = asked'[b]
      <4>1. CASE b = h
        BY <1>3, <4>1
      <4>2. CASE b # h
        <5>1. b \in inQueue /\ b \in Headers
          BY <1>1, <3>2, <4>2 DEF PlayTypes
        <5> QED
          BY <1>3, <2>1, <2>2, <3>2, <4>2, <5>1 DEF PlayedInv
      <4> QED
        BY <4>1, <4>2
    <3> QED
      BY <3>1, <3>2 DEF PlayedInv
  <2> QED
    BY <2>4, <2>5
<1>6. CASE qTail = None
  <2>1. pc = "idle" /\ Current = None /\ Current' = h /\ InLoop' = LoopFrom(h, dwLoops')
    BY <1>6, WriteKeepsList
  <2>2. ~Playing /\ Serving /\ Playing' /\ Serving'
    BY <1>1, <2>1 DEF Playing, Serving
  <2>3. ~InLoop /\ CurrentBufferPos' = 0
    BY <1>1, <2>2 DEF LoopInv
  <2>4. InLoop' <=> dwLoops'[Current'] # 0
    BY <1>2, <1>3, <2>1, <2>3 DEF LoopFrom
  <2>5. inQueue = {}
    <3>1. playQueue = <<>>
      BY <1>6, ListEnds
    <3> QED
      BY <3>1 DEF ListInv, PlayTypes
  <2>6. LoopInv'
    BY <1>4, <2>2, <2>4 DEF LoopInv
  <2>7. (asked'[h] - dwLoops'[h]) * Length[h] + 0 = 0
    BY <1>3, Constants
  <2>8. PlayedInv'
    BY <1>1, <1>3, <2>1, <2>2, <2>3, <2>5, <2>7, Constants DEF PlayedInv
  <2> QED
    BY <2>6, <2>8
<1> QED
  BY <1>5, <1>6

\* The frame takes what is left of the buffer that plays, or all it needs itself.
LEMMA ConsumeKeepsPlay ==
  ASSUME LoopsOfOne, PlayTypes, ListTypes, ListInv, LoopInv, PlayedInv, Consume
  PROVE  /\ LoopInv' /\ PlayedInv' /\ ListInv' /\ inconsistent' = inconsistent
         /\ (pc' = "consume" \/ pc' = "doneInFrame") /\ inQueue' \subseteq inQueue
         /\ qHead' = qHead /\ Current' = Current /\ qTail' = qTail /\ lpNext' = lpNext
         /\ dwLoops' \in [Headers -> 0..MaxLoops] /\ InLoop' \in BOOLEAN /\ playQueue' \in Seq(Headers)
         /\ CurrentBufferPos' \in Nat /\ given' \in [Headers -> Nat]
         /\ \A h \in inQueue \ inQueue' : given'[h] = (asked[h] + 1) * Length[h]
         /\ LET smps == Smaller(sampleCount, Length[Current] - CurrentBufferPos)
            IN  smps \in Nat /\ smps <= sampleCount
<1> DEFINE smps == Smaller(sampleCount, Length[Current] - CurrentBufferPos)
           pos == CurrentBufferPos + smps
<1>1. /\ pc = "consume" /\ Current # None /\ Current \in Headers /\ Playing /\ Serving /\ ~Callback
      /\ UNCHANGED <<lpNext, asked>> /\ given' = [given EXCEPT ![Current] = @ + smps]
  BY DEF Consume, Playing, Serving, PlayTypes, Callback
<1>2. Length[Current] \in Nat /\ CurrentBufferPos \in Nat /\ CurrentBufferPos <= Length[Current] /\ sampleCount \in Nat
  BY <1>1, Constants DEF PlayedInv, PlayTypes
<1>3. smps \in Nat /\ smps <= sampleCount /\ pos \in Nat /\ pos <= Length[Current]
  BY <1>2 DEF Smaller
<1>4. /\ given'[Current] = given[Current] + smps /\ given' \in [Headers -> Nat]
      /\ \A h \in Headers : h # Current => given'[h] = given[h]
  <2> HIDE DEF smps
  <2> QED
    BY <1>1, <1>3 DEF PlayTypes
<1>5. given[Current] = (asked[Current] - dwLoops[Current]) * Length[Current] + CurrentBufferPos
      /\ dwLoops[Current] <= asked[Current] /\ asked[Current] \in Nat /\ dwLoops[Current] \in Nat
  BY <1>1 DEF PlayedInv, PlayTypes
<1>6. Current \in inQueue /\ qHead = Current /\ Len(playQueue) \in Nat
  <2>1. playQueue # <<>>
    BY <1>1, ListEnds
  <2> QED
    BY <1>1, <2>1, ListEnds DEF ListInv
<1>7. CASE pos < Length[Current]
  <2>1. CurrentBufferPos' = pos /\ UNCHANGED queueVars /\ pc' = pc
    BY <1>2, <1>3, <1>7 DEF Consume
  <2>2. UNCHANGED <<qHead, Current, qTail, dwLoops, inQueue, playQueue, InLoop, inconsistent>>
    BY <2>1 DEF queueVars
  <2>3. (Playing' <=> Playing) /\ (Serving' <=> Serving) /\ (Callback' <=> Callback)
    BY <2>1, <2>2 DEF Playing, Serving, Callback
  <2>4. ListInv'
    BY <1>1, <2>2, <2>3, ListStays
  <2>5. LoopInv'
    BY <1>1, <2>2, <2>3 DEF LoopInv
  <2>6. given'[Current'] = (asked'[Current'] - dwLoops'[Current']) * Length[Current'] + CurrentBufferPos'
    <3> HIDE DEF smps
    <3> QED
      BY <1>1, <1>2, <1>3, <1>4, <1>5, <2>1, <2>2
  <2>7. PlayedInv'
    BY <1>1, <1>3, <1>4, <1>5, <2>1, <2>2, <2>3, <2>6 DEF PlayedInv, PlayTypes
  <2> QED
    BY <1>1, <1>3, <1>4, <2>1, <2>2, <2>4, <2>5, <2>7 DEF PlayTypes, ListTypes
<1>8. CASE pos >= Length[Current]
  <2>1. CurrentBufferPos' = 0 /\ advanceBuffer /\ CurrentBufferPos + smps = Length[Current]
    BY <1>2, <1>3, <1>8 DEF Consume
  <2>2. CASE InLoop
    <3>1. dwLoops[Current] # 0 /\ Current \in EndLoop
      BY <1>1, <2>2 DEF LoopInv, LoopsOfOne
    <3>2. /\ Current' = Current /\ dwLoops' = [dwLoops EXCEPT ![Current] = @ - 1] /\ (InLoop' <=> dwLoops'[Current] # 0)
          /\ InLoop' \in BOOLEAN /\ UNCHANGED <<qHead, qTail, inQueue, playQueue, inconsistent, pc>>
      BY <1>6, <2>1, <2>2, <3>1 DEF advanceBuffer
    <3>3. /\ dwLoops'[Current] = dwLoops[Current] - 1 /\ dwLoops' \in [Headers -> 0..MaxLoops]
          /\ \A h \in Headers : h # Current => dwLoops'[h] = dwLoops[h]
      BY <1>1, <3>1, <3>2, Constants DEF PlayTypes
    <3>4. (Playing' <=> Playing) /\ (Serving' <=> Serving) /\ (Callback' <=> Callback)
      BY <3>2 DEF Playing, Serving, Callback
    <3>5. ListInv'
      BY <1>1, <3>2, <3>4, ListStays
    <3>6. LoopInv'
      BY <1>1, <3>1, <3>2, <3>3, <3>4 DEF LoopInv
    <3>7. given'[Current] = (asked[Current] - dwLoops'[Current]) * Length[Current]
      <4>1. given'[Current] = (asked[Current] - dwLoops[Current]) * Length[Current] + Length[Current]
        <5> DEFINE turns == (asked[Current] - dwLoops[Current]) * Length[Current]
        <5>1. turns \in Int
          BY <1>2, <1>5
        <5>2. given[Current] = turns + CurrentBufferPos
          BY <1>5
        <5> HIDE DEF smps, turns
        <5>3. given'[Current] = turns + Length[Current]
          BY <1>2, <1>3, <1>4, <2>1, <5>1, <5>2
        <5> QED
          BY <5>3 DEF turns
      <4> QED
        BY <1>2, <1>5, <3>3, <4>1, OneTurn
    <3>8. PlayedInv'
      BY <1>1, <1>2, <1>4, <1>5, <2>1, <3>2, <3>3, <3>4, <3>7 DEF PlayedInv, PlayTypes
    <3> QED
      BY <1>1, <1>3, <1>4, <2>1, <3>2, <3>3, <3>5, <3>6, <3>8 DEF ListTypes
  <2>3. CASE ~InLoop
    <3>1. doneBuffer("doneInFrame") /\ UNCHANGED <<qHead, Current, qTail, InLoop, dwLoops>>
      BY <2>1, <2>3 DEF advanceBuffer
    <3>2. pc' = "doneInFrame" /\ playQueue' = Tail(playQueue)
      BY <1>1, <1>6, <3>1 DEF doneBuffer
    <3>3. ~Playing' /\ Serving' /\ Callback'
      BY <3>2 DEF Playing, Serving, Callback
    <3>4. ListInv' /\ inconsistent' = inconsistent /\ inQueue' = inQueue \ {Current}
      BY <1>1, <3>1, <3>2, <3>3, DoneKeepsList
    <3>5. dwLoops[Current] = 0
      BY <1>1, <1>5, <2>3 DEF LoopInv
    <3>6. LoopInv'
      BY <2>1, <2>3, <3>1, <3>3 DEF LoopInv
    <3>7. PlayedInv'
      BY <1>1, <1>4, <3>1, <3>3, <3>4 DEF PlayedInv, PlayTypes
    <3>8. given'[Current] = (asked[Current] + 1) * Length[Current]
      <4>1. given[Current] = (asked[Current] - 0) * Length[Current] + CurrentBufferPos
        BY <1>5, <3>5
      <4> DEFINE turns == (asked[Current] - 0) * Length[Current]
      <4>2. turns \in Int
        BY <1>2, <1>5
      <4>3. given[Current] = turns + CurrentBufferPos
        BY <4>1
      <4>4. given'[Current] = turns + Length[Current]
        <5> HIDE DEF smps, turns
        <5> QED
          BY <1>2, <1>3, <1>4, <2>1, <4>2, <4>3
      <4> QED
        BY <1>2, <1>5, <4>4, OneTurn
    <3>9. playQueue' \in Seq(Headers)
      <4>1. playQueue # <<>>
        BY <1>1, ListEnds
      <4> QED
        BY <3>2, <4>1 DEF ListTypes
    <3> QED
      BY <1>1, <1>3, <1>4, <2>1, <3>1, <3>2, <3>4, <3>6, <3>7, <3>8, <3>9 DEF PlayTypes
  <2> QED
    BY <2>2, <2>3 DEF PlayTypes
<1> QED
  BY <1>2, <1>3, <1>7, <1>8

\* The next buffer plays from its beginning.
LEMMA NextKeepsPlay ==
  ASSUME PlayTypes, ListTypes, ListInv, LoopInv, PlayedInv, AfterCallback
  PROVE  /\ LoopInv' /\ PlayedInv' /\ ListInv'
         /\ Current' \in Headers \union {None} /\ InLoop' \in BOOLEAN
<1>1. /\ pc = "doneInFrame" /\ pc' = "consume" /\ Unlink /\ InLoop' = LoopFrom(Current', dwLoops)
      /\ UNCHANGED <<lpNext, dwLoops, inQueue, playQueue, asked, given, CurrentBufferPos>>
  BY DEF AfterCallback, soundVars
<1>2. Callback /\ ~Callback' /\ Serving /\ ~Playing /\ Serving'
  BY <1>1 DEF Callback, Serving, Playing
<1>3. ListInv' /\ Current' = lpNext[Current] /\ (Current' # None => Current' \in inQueue')
  BY <1>1, <1>2, UnlinkKeepsList
<1>4. Current' # None => Current' \in Headers
  BY <1>1, <1>3 DEF PlayTypes
<1>5. ~InLoop /\ CurrentBufferPos' = 0
  BY <1>1, <1>2 DEF LoopInv
<1>6. Playing' <=> Current' # None
  BY <1>1 DEF Playing
<1>7. Playing' => (InLoop' <=> dwLoops'[Current'] # 0)
  BY <1>1, <1>4, <1>5, <1>6 DEF LoopFrom, LoopInv
<1>8. ~Playing' => ~InLoop'
  BY <1>1, <1>5, <1>6, Constants DEF LoopFrom
<1>9. LoopInv'
  BY <1>1, <1>5, <1>7, <1>8 DEF LoopInv
<1>10. \A h \in inQueue' : given'[h] = 0 /\ dwLoops'[h] = asked'[h]
  BY <1>1, <1>2 DEF PlayedInv
<1>11. Playing' => (asked'[Current'] - dwLoops'[Current']) * Length[Current'] + CurrentBufferPos' = 0
  <2> SUFFICES ASSUME Playing' PROVE (asked'[Current'] - dwLoops'[Current']) * Length[Current'] + CurrentBufferPos' = 0
    OBVIOUS
  <2>1. asked'[Current'] - dwLoops'[Current'] = 0 /\ Length[Current'] \in Nat
    BY <1>1, <1>3, <1>4, <1>6, <1>10, Constants DEF PlayTypes
  <2> QED
    BY <1>5, <2>1
<1>12. PlayedInv'
  BY <1>1, <1>3, <1>4, <1>5, <1>6, <1>10, <1>11, Constants DEF PlayedInv, PlayTypes
<1>13. InLoop' \in BOOLEAN
  BY <1>1 DEF LoopFrom
<1> QED
  BY <1>3, <1>4, <1>9, <1>12, <1>13

-----------------------------------------------------------------------------
(* The sound of the frames. *)

LEMMA Quotient ==
  ASSUME NEW F \in Nat \ {0}, NEW x \in Nat, NEW q \in Nat, NEW r \in Nat, r < F, x = q * F + r
  PROVE  x \div F = q
OBVIOUS

LEMMA Division ==
  ASSUME NEW F \in Nat \ {0}, NEW x \in Nat
  PROVE  /\ x \div F \in Nat /\ x % F \in Nat /\ x % F < F
         /\ x = (x \div F) * F + (x % F)
OBVIOUS

\* What the quotient of a number below k * F is below.
LEMMA QuotientBelow ==
  ASSUME NEW F \in Nat \ {0}, NEW x \in Nat, NEW k \in Nat, x < k * F
  PROVE  x \div F < k
OBVIOUS

LEMMA NoSamples == SamplesIn(0) = 0
BY Constants DEF SamplesIn

\* A frame is Quota samples long, or one more.
LEMMA SamplesOfFrame ==
  ASSUME NEW n \in Nat
  PROVE  /\ SamplesIn(n) \in Nat /\ Quota \in Nat
         /\ SamplesIn(n) + Quota <= SamplesIn(n + 1)
         /\ SamplesIn(n + 1) <= SamplesIn(n) + Rate
<1> DEFINE x == n * Rate
           S == x \div FrameRate
           t == x % FrameRate
           r == Rate % FrameRate
<1>1. x \in Nat /\ Rate \in Nat /\ FrameRate \in Nat \ {0} /\ Rate # 0 /\ (n + 1) * Rate = x + Rate
  BY Constants
<1>2. S \in Nat /\ t \in Nat /\ t < FrameRate /\ x = S * FrameRate + t
  <2> HIDE DEF x
  <2> QED
    BY <1>1, Division
<1>3. Quota \in Nat /\ r \in Nat /\ r < FrameRate /\ Rate = Quota * FrameRate + r
  BY <1>1, Division DEF Quota
<1>4. x + Rate = (S + Quota) * FrameRate + (t + r)
  <2> HIDE DEF x, S, t, r
  <2> QED
    BY <1>1, <1>2, <1>3
<1>5. SamplesIn(n) = S /\ SamplesIn(n + 1) = (x + Rate) \div FrameRate
  BY <1>1 DEF SamplesIn
<1> HIDE DEF x, S, t, r
<1>6. CASE t + r < FrameRate
  <2>1. (x + Rate) \div FrameRate = S + Quota
    BY <1>1, <1>2, <1>3, <1>4, <1>6, Quotient
  <2>2. Quota <= Rate
    BY <1>1, <1>3
  <2> QED
    BY <1>1, <1>2, <1>3, <1>5, <2>1, <2>2
<1>7. CASE t + r >= FrameRate
  <2>1. x + Rate = (S + Quota + 1) * FrameRate + (t + r - FrameRate)
    BY <1>1, <1>2, <1>3, <1>4
  <2>2. (x + Rate) \div FrameRate = S + Quota + 1
    <3>1. t + r - FrameRate \in Nat /\ t + r - FrameRate < FrameRate /\ S + Quota + 1 \in Nat /\ x + Rate \in Nat
      BY <1>1, <1>2, <1>3, <1>7
    <3> QED
      BY <1>1, <2>1, <3>1, Quotient
  <2>3. r >= 1
    BY <1>1, <1>2, <1>3, <1>7
  <2>4. Quota + 1 <= Rate
    BY <1>1, <1>3, <2>3
  <2> QED
    BY <1>1, <1>2, <1>3, <1>5, <2>2, <2>4
<1> QED
  BY <1>1, <1>2, <1>3, <1>6, <1>7

\* s frames are at most s * (Quota + 1) samples long.
LEMMA SamplesOfSilence ==
  ASSUME NEW n \in Nat, NEW s \in Nat
  PROVE  SamplesIn(n + s) <= SamplesIn(n) + s * Quota + s
<1> DEFINE x == n * Rate
           y == s * Rate
           S == x \div FrameRate
           t == x % FrameRate
           r == Rate % FrameRate
<1>1. x \in Nat /\ y \in Nat /\ Rate \in Nat /\ FrameRate \in Nat \ {0} /\ (n + s) * Rate = x + y
  BY Constants
<1>2. S \in Nat /\ t \in Nat /\ t < FrameRate /\ x = S * FrameRate + t
  <2> HIDE DEF x
  <2> QED
    BY <1>1, Division
<1>3. Quota \in Nat /\ r \in Nat /\ r < FrameRate /\ Rate = Quota * FrameRate + r
  BY <1>1, Division DEF Quota
<1> DEFINE k == S + s * Quota + s + 1
<1>4. y = s * Quota * FrameRate + s * r /\ s * r <= s * FrameRate /\ s * Quota \in Nat /\ s * r \in Nat
  <2> HIDE DEF r
  <2>1. y = s * (Quota * FrameRate + r)
    BY <1>3
  <2> HIDE DEF y
  <2> QED
    BY <1>1, <1>3, <2>1
<1>5. k * FrameRate = S * FrameRate + (s * Quota) * FrameRate + s * FrameRate + FrameRate
  <2> HIDE DEF S
  <2> QED
    BY <1>1, <1>2, <1>4
<1>6. x + y < k * FrameRate /\ k \in Nat
  <2> HIDE DEF x, y, S, t, r, k
  <2>1. k \in Nat
    BY <1>1, <1>2, <1>3, <1>4 DEF k
  <2> QED
    BY <1>1, <1>2, <1>3, <1>4, <1>5, <2>1
<1>7. SamplesIn(n + s) < k
  <2> HIDE DEF x, y, k
  <2>1. SamplesIn(n + s) = (x + y) \div FrameRate
    BY <1>1 DEF SamplesIn
  <2> QED
    BY <1>1, <1>6, <2>1, QuotientBelow
<1>8. SamplesIn(n) = S /\ SamplesIn(n + s) \in Int
  BY Constants DEF SamplesIn
<1> HIDE DEF S
<1> QED
  BY <1>2, <1>4, <1>7, <1>8

-----------------------------------------------------------------------------
(* Every step keeps the invariant. *)

FrameTypes ==
  /\ prepared \subseteq Headers
  /\ CurrentSamplePos \in Nat /\ sampleCount \in 0..DWordRange-1 /\ encoded \in Nat /\ played \in Nat
  /\ Paused \in BOOLEAN /\ FrameInitialized \in BOOLEAN /\ currentWaveOut \in BOOLEAN
  /\ hadReset \in BOOLEAN /\ inconsistent \in BOOLEAN
  /\ GetPositionCounter \in 0..MaxGetPosition-1
  /\ frame \in 0..MaxFrames /\ FirstFrame \in 0..MaxFrames /\ FirstWriteFrame \in 0..frame
  /\ pc \in {"idle", "consume", "reset", "doneInFrame", "doneInReset", "lost"}

LEMMA AllTypes == TypeOK <=> ListTypes /\ PlayTypes /\ FrameTypes
<1>1. TypeOK => ListTypes /\ PlayTypes
  BY ListHasTypes, PlayHasTypes
<1>2. TypeOK => FrameTypes
  BY DEF TypeOK, FrameTypes
<1>3. ListTypes /\ PlayTypes /\ FrameTypes => TypeOK
  BY DEF TypeOK, ListTypes, PlayTypes, FrameTypes
<1> QED
  BY <1>1, <1>2, <1>3

LEMMA InvariantKept ==
  ASSUME ListTypes', PlayTypes', FrameTypes', ListInv', LoopInv', PlayedInv', SoundInv', ~inconsistent'
  PROVE  WaveInv'
<1>1. TypeOK'
  BY DEF TypeOK, ListTypes, PlayTypes, FrameTypes
<1> QED
  BY <1>1 DEF WaveInv

\* The queue, the loop and what was given of each buffer stay as they are.
QueueStays ==
  UNCHANGED <<qHead, Current, qTail, lpNext, dwLoops, inQueue, playQueue, InLoop, inconsistent,
              asked, given, CurrentBufferPos>>

LEMMA QuietStep ==
  ASSUME WaveInv, QueueStays, sampleCount' \in Nat, Callback' <=> Callback,
         Playing' => Playing, Serving' => Serving /\ (Playing => Playing')
  PROVE  ListTypes' /\ PlayTypes' /\ ListInv' /\ LoopInv' /\ PlayedInv' /\ ~inconsistent'
<1>1. ListTypes /\ PlayTypes /\ ListInv /\ LoopInv /\ PlayedInv /\ ~inconsistent
  BY AllTypes DEF WaveInv
<1>2. ListTypes' /\ PlayTypes' /\ ~inconsistent'
  BY <1>1 DEF ListTypes, PlayTypes, QueueStays
<1>3. ListInv'
  BY <1>1, ListStays DEF QueueStays
<1>4. LoopInv' /\ PlayedInv'
  BY <1>1, PlayStays DEF QueueStays
<1> QED
  BY <1>2, <1>3, <1>4

\* The calls that touch neither the queue nor the sound.
OtherCall ==
  \/ WriteDone \/ pause \/ restart \/ reset
  \/ \E h \in Headers : prepareHeader(h) \/ unprepareHeader(h)
  \/ pc = "idle" /\ GetPositionCounter + 1 < MaxGetPosition /\ getPosition

LEMMA OtherCallKeeps == WaveInv /\ OtherCall => WaveInv'
<1> SUFFICES ASSUME WaveInv, OtherCall PROVE WaveInv'
  OBVIOUS
<1>1. TypeOK /\ FrameTypes /\ PlayTypes /\ SoundInv /\ ListInv
  BY AllTypes DEF WaveInv
<1>2. /\ UNCHANGED <<queueVars, timeVars, soundVars, frame>>
      /\ \/ pc' = pc /\ hadReset' = hadReset
         \/ pc = "doneInFrame" /\ pc' = "lost" /\ hadReset' = hadReset
         \/ pc = "idle" /\ pc' = "reset" /\ hadReset' = TRUE
      /\ prepared' \subseteq Headers /\ Paused' \in BOOLEAN /\ GetPositionCounter' \in 0..MaxGetPosition-1
  <2>1. CASE WriteDone
    BY <1>1, <2>1 DEF WriteDone, callVars, FrameTypes
  <2>2. CASE pause
    BY <1>1, <2>2 DEF pause, FrameTypes
  <2>3. CASE restart
    BY <1>1, <2>3 DEF restart, FrameTypes
  <2>4. CASE reset
    BY <1>1, <2>4 DEF reset, FrameTypes
  <2>5. CASE \E h \in Headers : prepareHeader(h) \/ unprepareHeader(h)
    <3>1. PICK h \in Headers : prepareHeader(h) \/ unprepareHeader(h)
      BY <2>5
    <3>2. UNCHANGED <<queueVars, timeVars, soundVars, frame, pc, hadReset, Paused, GetPositionCounter>>
      BY <3>1 DEF prepareHeader, unprepareHeader
    <3>3. prepared' = prepared \union {h} \/ prepared' = prepared \ {h}
      BY <3>1 DEF prepareHeader, unprepareHeader
    <3> QED
      BY <1>1, <3>2, <3>3 DEF FrameTypes
  <2>6. CASE pc = "idle" /\ GetPositionCounter + 1 < MaxGetPosition /\ getPosition
    <3>1. /\ UNCHANGED <<queueVars, timeVars, soundVars, prepared, Paused, hadReset, frame, pc>>
          /\ GetPositionCounter' = GetPositionCounter + 1
      BY <1>1, <2>6, Constants DEF getPosition, FrameTypes
    <3> QED
      BY <1>1, <2>6, <3>1, Constants DEF FrameTypes
  <2> QED
    BY <2>1, <2>2, <2>3, <2>4, <2>5, <2>6 DEF OtherCall
<1>3. /\ QueueStays /\ UNCHANGED <<FirstFrame, FirstWriteFrame, FrameInitialized, currentWaveOut, frame>>
      /\ UNCHANGED <<CurrentSamplePos, sampleCount, encoded, played>>
  BY <1>2 DEF QueueStays, queueVars, timeVars, soundVars
<1>4. (Callback' <=> Callback) /\ (Playing' => Playing) /\ (Serving' => Serving /\ (Playing => Playing'))
  BY <1>2, <1>3 DEF Callback, Playing, Serving, QueueStays
<1>5. sampleCount' \in Nat
  BY <1>1, <1>3 DEF PlayTypes
<1>6. ListTypes' /\ PlayTypes' /\ ListInv' /\ LoopInv' /\ PlayedInv' /\ ~inconsistent'
  BY <1>3, <1>4, <1>5, QuietStep
<1>7. FrameTypes'
  BY <1>1, <1>2, <1>3, <1>6 DEF FrameTypes, QueueStays
<1>8. SoundInv'
  <2>1. ~hadReset' => StepInv'
    <3> SUFFICES ASSUME ~hadReset' PROVE StepInv'
      OBVIOUS
    <3>1. ~hadReset /\ (pc' = pc \/ pc' = "lost")
      BY <1>2
    <3> QED
      BY <1>1, <1>3, <3>1 DEF SoundInv, StepInv, InFrame, Due, Silent
  <2> QED
    BY <1>1, <1>2, <1>3, <2>1 DEF SoundInv, InFrame
<1> QED
  BY <1>6, <1>7, <1>8, InvariantKept

\* A buffer that is written is not yet played.
LEMMA WriteKeeps ==
  ASSUME WaveInv, NEW h \in Headers, write(h)
  PROVE  WaveInv'
<1>1. ListTypes /\ PlayTypes /\ FrameTypes /\ ListInv /\ LoopInv /\ PlayedInv /\ SoundInv /\ ~inconsistent
  BY AllTypes DEF WaveInv
<1>2. /\ UNCHANGED <<CurrentBufferPos, CurrentSamplePos, sampleCount, encoded, played>>
      /\ UNCHANGED <<prepared, Paused, GetPositionCounter, hadReset, frame, pc, inconsistent>>
      /\ inQueue' = inQueue \union {h} /\ playQueue' = Append(playQueue, h) /\ qTail' = h
      /\ given' = [given EXCEPT ![h] = 0]
      /\ pc = "idle" \/ pc = "doneInFrame"
  BY DEF write, callVars
<1>3. ListInv' /\ LoopInv' /\ PlayedInv'
  BY <1>1, WriteKeepsList, WriteKeepsPlay
<1>4. ListTypes'
  <2>1. lpNext' \in [Headers -> Headers \union {None}]
    BY <1>1 DEF write, ListTypes
  <2>2. qHead' \in Headers \union {None} /\ Current' \in Headers \union {None}
    BY <1>1 DEF write, ListTypes
  <2>3. playQueue' \in Seq(Headers)
    BY <1>1, <1>2 DEF ListTypes
  <2> QED
    BY <1>1, <1>2, <2>1, <2>2, <2>3 DEF ListTypes
<1>5. PlayTypes'
  <2>1. PICK n \in (IF h \in BeginLoop THEN 1..MaxLoops ELSE {0}) :
          dwLoops' = [dwLoops EXCEPT ![h] = n] /\ asked' = [asked EXCEPT ![h] = n]
    BY DEF write
  <2>2. n \in 0..MaxLoops
    BY Constants
  <2>3. dwLoops' \in [Headers -> 0..MaxLoops] /\ asked' \in [Headers -> 0..MaxLoops]
    BY <1>1, <2>1, <2>2 DEF PlayTypes
  <2>4. InLoop' \in BOOLEAN
    BY <1>1 DEF write, PlayTypes, LoopFrom
  <2>5. given' \in [Headers -> Nat]
    BY <1>1, <1>2 DEF PlayTypes
  <2> QED
    BY <1>1, <1>2, <1>4, <2>3, <2>4, <2>5 DEF PlayTypes, ListTypes
<1>6. CASE FrameInitialized
  <2>1. UNCHANGED <<FirstFrame, FirstWriteFrame, FrameInitialized, currentWaveOut>>
    BY <1>6 DEF write, timeVars
  <2>2. FrameTypes'
    BY <1>1, <1>2, <2>1 DEF FrameTypes
  <2>3. SoundInv'
    <3>1. StepInv => StepInv'
      BY <1>2, <2>1 DEF StepInv, InFrame, Due, Silent
    <3> QED
      BY <1>1, <1>2, <2>1, <3>1 DEF SoundInv, InFrame
  <2> QED
    BY <1>1, <1>2, <1>3, <1>4, <1>5, <2>2, <2>3, InvariantKept
<1>7. CASE ~FrameInitialized
  <2>1. FirstFrame' = frame /\ FirstWriteFrame' = frame /\ FrameInitialized' = TRUE /\ currentWaveOut' = TRUE
    BY <1>7 DEF write
  <2>2. FrameTypes'
    <3>1. frame \in 0..frame /\ frame \in Nat
      BY <1>1, Constants DEF FrameTypes
    <3> QED
      BY <1>1, <1>2, <2>1, <3>1 DEF FrameTypes
  <2>3. ASSUME ~hadReset PROVE StepInv'
    <3>1. ~currentWaveOut /\ encoded = 0 /\ played = 0 /\ CurrentSamplePos = 0 /\ pc = "idle"
      BY <1>1, <1>2, <1>7, <2>3 DEF SoundInv, StepInv, InFrame
    <3>2. frame - frame = 0 /\ frame <= frame /\ Quota \in Nat /\ 0 * Quota = 0
      BY <1>1, Constants, SamplesOfFrame DEF FrameTypes
    <3>3. Due' = 0 /\ Silent' = 0
      BY <1>2, <2>1, <3>2, NoSamples DEF Due, Silent
    <3>4. Quota' = Quota
      BY DEF Quota
    <3> QED
      BY <1>2, <2>1, <3>1, <3>2, <3>3, <3>4 DEF StepInv, InFrame
  <2>4. SoundInv'
    <3>1. frame <= frame
      BY <1>1 DEF FrameTypes
    <3> QED
      BY <1>1, <1>2, <2>1, <2>3, <3>1 DEF SoundInv, InFrame
  <2> QED
    BY <1>1, <1>2, <1>3, <1>4, <1>5, <2>2, <2>4, InvariantKept
<1> QED
  BY <1>6, <1>7

\* The next frame is a frame of sound longer, which is encoded at once or is to come.
LEMMA AdvanceKeeps ==
  ASSUME WaveInv, AdvanceFrame, GetPositionCounter' \in 0..MaxGetPosition-1
  PROVE  WaveInv'
<1>1. ListTypes /\ PlayTypes /\ FrameTypes /\ ListInv /\ LoopInv /\ PlayedInv /\ SoundInv /\ ~inconsistent
  BY AllTypes DEF WaveInv
<1>2. /\ pc = "idle" /\ frame < MaxFrames /\ frame' = frame + 1
      /\ UNCHANGED <<queueVars, FirstWriteFrame, FrameInitialized, currentWaveOut, CurrentBufferPos,
                     asked, given, played, prepared, Paused, hadReset>>
  BY DEF AdvanceFrame
<1>3. QueueStays /\ UNCHANGED Current
  BY <1>2 DEF QueueStays, queueVars
<1>4. /\ frame \in Nat /\ frame' \in 0..MaxFrames /\ FirstFrame \in Nat /\ FirstFrame <= frame
      /\ FirstWriteFrame \in Nat /\ FirstWriteFrame <= frame /\ FirstWriteFrame \in 0..frame'
      /\ sampleCount \in 0..DWordRange-1 /\ encoded \in Nat /\ played \in Nat /\ CurrentSamplePos \in Nat
      /\ DWordRange \in Nat \ {0}
  BY <1>1, <1>2, Constants DEF FrameTypes, SoundInv
<1> DEFINE k == frame - FirstWriteFrame
           new == SamplesIn(k + 1)
           count == (new - CurrentSamplePos) % DWordRange
<1>5. /\ k \in Nat /\ SamplesIn(k) \in Nat /\ new \in Nat /\ Quota \in Nat
      /\ SamplesIn(k) + Quota <= new /\ new <= SamplesIn(k) + Rate
      /\ Rate \in Nat /\ Rate < DWordRange
  <2>1. k \in Nat
    BY <1>4
  <2>2. k + 1 \in Nat
    BY <2>1
  <2> HIDE DEF k
  <2> QED
    BY <2>1, <2>2, SamplesOfFrame, Constants
<1>6. count \in 0..DWordRange-1 /\ count \in Nat
  <2>1. new - CurrentSamplePos \in Int
    BY <1>4, <1>5
  <2> HIDE DEF new
  <2> QED
    BY <1>4, <2>1
<1>7. SamplesIn(frame' - FirstWriteFrame) = new
  <2>1. frame' - FirstWriteFrame = k + 1
    BY <1>2, <1>4
  <2> QED
    BY <2>1
<1>8. Due = SamplesIn(k) /\ Due' = new
  BY <1>2, <1>7 DEF Due
<1>9. ASSUME currentWaveOut, ~hadReset
      PROVE  /\ encoded = Due /\ CurrentSamplePos = Due /\ played + Silent * Quota <= Due
             /\ count = new - Due /\ FirstWriteFrame <= FirstFrame /\ FrameInitialized = currentWaveOut
  <2>1. /\ encoded = Due /\ CurrentSamplePos = Due /\ played + Silent * Quota <= Due
        /\ FirstWriteFrame <= FirstFrame /\ FrameInitialized = currentWaveOut
    BY <1>1, <1>2, <1>9 DEF SoundInv, StepInv
  <2>2. new - Due \in 0..DWordRange-1
    <3> HIDE DEF new, k
    <3> QED
      BY <1>4, <1>5, <1>8
  <2>3. count = new - Due
    <3> HIDE DEF new, k
    <3> QED
      BY <1>4, <2>1, <2>2
  <2> QED
    BY <2>1, <2>3
<1> HIDE DEF new, count
<1>10. CASE ~currentWaveOut
  <2>1. UNCHANGED <<encoded, FirstFrame, CurrentSamplePos, sampleCount, pc>>
    BY <1>10 DEF AdvanceFrame
  <2>2. ListTypes' /\ PlayTypes' /\ ListInv' /\ LoopInv' /\ PlayedInv' /\ ~inconsistent'
    BY <1>3, <1>4, <2>1, QuietStep DEF Callback, Playing, Serving
  <2>3. FrameTypes'
    BY <1>1, <1>2, <1>3, <1>4, <2>1, <2>2 DEF FrameTypes, QueueStays
  <2>4. StepInv => StepInv'
    BY <1>2, <1>10, <2>1 DEF StepInv
  <2>5. SoundInv'
    BY <1>1, <1>2, <1>4, <2>1, <2>4 DEF SoundInv, InFrame
  <2> QED
    BY <2>2, <2>3, <2>5, InvariantKept
<1>11. CASE currentWaveOut /\ (Current = None \/ Paused)
  <2>1. /\ encoded' = IF hadReset THEN encoded ELSE encoded + count
        /\ FirstFrame' = FirstFrame + 1 /\ CurrentSamplePos' = new /\ UNCHANGED <<sampleCount, pc>>
    BY <1>7, <1>11 DEF AdvanceFrame, BeginFrame, Encode, count
  <2>2. ListTypes' /\ PlayTypes' /\ ListInv' /\ LoopInv' /\ PlayedInv' /\ ~inconsistent'
    BY <1>3, <1>4, <2>1, QuietStep DEF Callback, Playing, Serving
  <2>3. FirstFrame' \in 0..MaxFrames /\ FirstFrame' <= frame' /\ encoded' \in Nat
    BY <1>2, <1>4, <1>6, <2>1, Constants
  <2>4. FrameTypes'
    BY <1>1, <1>2, <1>3, <1>4, <1>5, <2>1, <2>2, <2>3 DEF FrameTypes, QueueStays
  <2>5. ASSUME ~hadReset PROVE StepInv'
    <3>1. /\ encoded = Due /\ CurrentSamplePos = Due /\ played + Silent * Quota <= Due
          /\ count = new - Due /\ FirstWriteFrame <= FirstFrame /\ FrameInitialized = currentWaveOut
      BY <1>9, <1>11, <2>5
    <3>2. Silent' = Silent + 1 /\ Silent \in Nat
      BY <1>2, <1>4, <2>1, <3>1 DEF Silent
    <3>3. (Silent + 1) * Quota = Silent * Quota + Quota /\ Silent * Quota \in Nat
      BY <1>5, <3>2
    <3>4. played' + Silent' * Quota <= Due'
      <4> DEFINE share == Silent * Quota
      <4>1. Silent' * Quota = share + Quota
        BY <3>2, <3>3
      <4>2. played + share <= Due /\ share \in Nat /\ played' = played
        BY <1>2, <3>1, <3>3
      <4> HIDE DEF share, k
      <4> QED
        BY <1>4, <1>5, <1>8, <4>1, <4>2
    <3>5. encoded' = new
      BY <1>4, <1>5, <1>8, <2>1, <2>5, <3>1
    <3>6. FirstWriteFrame' <= FirstFrame'
      BY <1>2, <1>4, <2>1, <3>1
    <3>7. Quota' = Quota /\ pc' = "idle"
      BY <1>2, <2>1 DEF Quota
    <3> QED
      BY <1>2, <1>8, <1>11, <2>1, <3>1, <3>4, <3>5, <3>6, <3>7 DEF StepInv, InFrame
  <2>6. SoundInv'
    BY <1>2, <1>11, <2>1, <2>3, <2>5 DEF SoundInv, InFrame
  <2> QED
    BY <2>2, <2>4, <2>6, InvariantKept
<1>12. CASE currentWaveOut /\ ~(Current = None \/ Paused)
  <2>1. /\ pc' = "consume" /\ sampleCount' = count
        /\ UNCHANGED <<FirstFrame, encoded, CurrentSamplePos>>
    BY <1>7, <1>12 DEF AdvanceFrame, BeginFrame, count
  <2>2. ListTypes' /\ PlayTypes' /\ ListInv' /\ LoopInv' /\ PlayedInv' /\ ~inconsistent'
    BY <1>2, <1>3, <1>6, <2>1, QuietStep DEF Callback, Playing, Serving
  <2>3. FrameTypes'
    BY <1>1, <1>2, <1>3, <1>4, <1>6, <2>1, <2>2 DEF FrameTypes, QueueStays
  <2>4. ASSUME ~hadReset PROVE StepInv'
    <3>1. /\ encoded = Due /\ played + Silent * Quota <= Due
          /\ count = new - Due /\ FirstWriteFrame <= FirstFrame /\ FrameInitialized = currentWaveOut
      BY <1>9, <1>12, <2>4
    <3>2. Silent' = Silent /\ Silent \in Nat /\ Quota' = Quota
      BY <1>2, <1>4, <2>1, <3>1 DEF Silent, Quota
    <3>3. encoded' + sampleCount' = new
      BY <1>4, <1>5, <1>8, <2>1, <3>1
    <3>4. played' + sampleCount' + Silent' * Quota' <= new
      <4> DEFINE share == Silent * Quota
      <4>1. share \in Nat
        BY <1>5, <3>2
      <4>2. played' = played /\ sampleCount' = new - Due /\ Silent' * Quota' = share /\ played + share <= Due
        BY <1>2, <2>1, <3>1, <3>2
      <4>3. Due \in Nat
        BY <1>5, <1>8
      <4> HIDE DEF share
      <4> QED
        BY <1>4, <1>5, <4>1, <4>2, <4>3
    <3> QED
      BY <1>2, <1>8, <1>12, <2>1, <3>1, <3>3, <3>4 DEF StepInv, InFrame
  <2>5. SoundInv'
    BY <1>2, <1>4, <1>12, <2>1, <2>4 DEF SoundInv, InFrame
  <2> QED
    BY <2>2, <2>3, <2>5, InvariantKept
<1> QED
  BY <1>10, <1>11, <1>12

\* What the frame takes from the buffer is no longer to come.
LEMMA ConsumeKeeps ==
  ASSUME LoopsOfOne, WaveInv, Consume
  PROVE  /\ WaveInv'
         /\ \A h \in inQueue \ inQueue' : given'[h] = (asked[h] + 1) * Length[h]
<1>1. ListTypes /\ PlayTypes /\ FrameTypes /\ ListInv /\ LoopInv /\ PlayedInv /\ SoundInv /\ ~inconsistent
  BY AllTypes DEF WaveInv
<1> DEFINE smps == Smaller(sampleCount, Length[Current] - CurrentBufferPos)
<1>2. /\ pc = "consume" /\ sampleCount' = sampleCount - smps
      /\ played' = IF hadReset THEN played ELSE played + smps
      /\ encoded' = IF hadReset THEN encoded ELSE encoded + smps
      /\ UNCHANGED <<lpNext, CurrentSamplePos, asked, timeVars, callVars, frame>>
  BY DEF Consume, Encode
<1>3. /\ LoopInv' /\ PlayedInv' /\ ListInv' /\ inconsistent' = inconsistent
      /\ pc' = "consume" \/ pc' = "doneInFrame"
      /\ inQueue' \subseteq inQueue
      /\ qHead' = qHead /\ Current' = Current /\ qTail' = qTail /\ lpNext' = lpNext
      /\ dwLoops' \in [Headers -> 0..MaxLoops] /\ InLoop' \in BOOLEAN /\ playQueue' \in Seq(Headers)
      /\ CurrentBufferPos' \in Nat /\ given' \in [Headers -> Nat]
      /\ \A h \in inQueue \ inQueue' : given'[h] = (asked[h] + 1) * Length[h]
      /\ smps \in Nat /\ smps <= sampleCount
  BY <1>1, ConsumeKeepsPlay
<1> HIDE DEF smps
<1>4. sampleCount \in 0..DWordRange-1 /\ encoded \in Nat /\ played \in Nat /\ DWordRange \in Nat \ {0}
  BY <1>1, Constants DEF FrameTypes
<1>5. sampleCount' \in 0..DWordRange-1 /\ sampleCount' \in Nat /\ encoded' \in Nat /\ played' \in Nat
  BY <1>2, <1>3, <1>4
<1>6. ListTypes' /\ PlayTypes'
  BY <1>1, <1>2, <1>3, <1>5 DEF ListTypes, PlayTypes
<1>7. /\ UNCHANGED <<FirstFrame, FirstWriteFrame, FrameInitialized, currentWaveOut, frame>>
      /\ UNCHANGED <<prepared, Paused, GetPositionCounter, hadReset>>
  BY <1>2 DEF timeVars, callVars
<1>8. FrameTypes'
  BY <1>1, <1>2, <1>3, <1>5, <1>7 DEF FrameTypes
<1>9. ASSUME ~hadReset PROVE StepInv'
  <2>1. /\ currentWaveOut /\ encoded + sampleCount = Due /\ FirstWriteFrame <= FirstFrame
        /\ played + sampleCount + Silent * Quota <= Due /\ FrameInitialized = currentWaveOut
    BY <1>1, <1>2, <1>9 DEF SoundInv, StepInv, InFrame
  <2>2. Due' = Due /\ Silent' * Quota' = Silent * Quota
    BY <1>7 DEF Due, Silent, Quota
  <2>3. encoded' + sampleCount' = encoded + sampleCount /\ played' + sampleCount' = played + sampleCount
    BY <1>2, <1>3, <1>4, <1>9
  <2>4. played' + sampleCount' + Silent' * Quota' <= Due'
    BY <2>1, <2>2, <2>3
  <2> QED
    BY <1>3, <1>7, <2>1, <2>2, <2>3, <2>4 DEF StepInv, InFrame
<1>10. SoundInv'
  BY <1>1, <1>2, <1>3, <1>7, <1>9 DEF SoundInv, InFrame
<1> QED
  BY <1>1, <1>3, <1>6, <1>8, <1>10, InvariantKept

LEMMA AfterCallbackKeeps == WaveInv /\ AfterCallback => WaveInv'
<1> SUFFICES ASSUME WaveInv, AfterCallback PROVE WaveInv'
  OBVIOUS
<1>1. ListTypes /\ PlayTypes /\ FrameTypes /\ ListInv /\ LoopInv /\ PlayedInv /\ SoundInv /\ ~inconsistent
  BY AllTypes DEF WaveInv
<1>2. /\ pc = "doneInFrame" /\ pc' = "consume" /\ Unlink
      /\ UNCHANGED <<lpNext, dwLoops, inQueue, playQueue, inconsistent, timeVars, soundVars, callVars, frame>>
  BY DEF AfterCallback
<1>3. LoopInv' /\ PlayedInv' /\ ListInv' /\ Current' \in Headers \union {None} /\ InLoop' \in BOOLEAN
  BY <1>1, NextKeepsPlay
<1>4. qHead' = Current' /\ qTail' \in Headers \union {None}
  BY <1>1, <1>2 DEF Unlink, ListTypes
<1>5. UNCHANGED <<CurrentBufferPos, CurrentSamplePos, sampleCount, asked, given, encoded, played>>
  BY <1>2 DEF soundVars
<1>6. ListTypes' /\ PlayTypes'
  BY <1>1, <1>2, <1>3, <1>4, <1>5 DEF ListTypes, PlayTypes
<1>7. /\ UNCHANGED <<FirstFrame, FirstWriteFrame, FrameInitialized, currentWaveOut, frame>>
      /\ UNCHANGED <<prepared, Paused, GetPositionCounter, hadReset>>
  BY <1>2 DEF timeVars, callVars
<1>8. FrameTypes'
  BY <1>1, <1>2, <1>5, <1>7 DEF FrameTypes
<1>9. StepInv => StepInv'
  BY <1>2, <1>5, <1>7 DEF StepInv, InFrame, Due, Silent, Quota
<1>10. SoundInv'
  BY <1>1, <1>2, <1>7, <1>9 DEF SoundInv, InFrame
<1> QED
  BY <1>1, <1>2, <1>3, <1>6, <1>8, <1>10, InvariantKept

\* What the queue did not have is silent.
LEMMA EndFrameKeeps == WaveInv /\ EndFrame => WaveInv'
<1> SUFFICES ASSUME WaveInv, EndFrame PROVE WaveInv'
  OBVIOUS
<1>1. ListTypes /\ PlayTypes /\ FrameTypes /\ SoundInv
  BY AllTypes DEF WaveInv
<1>2. /\ pc = "consume" /\ pc' = "idle" /\ sampleCount' = 0
      /\ encoded' = IF hadReset THEN encoded ELSE encoded + sampleCount
      /\ CurrentSamplePos' = Due
      /\ UNCHANGED <<queueVars, timeVars, CurrentBufferPos, asked, given, played, callVars, frame>>
  BY DEF EndFrame, Encode, Due
<1>3. /\ QueueStays /\ UNCHANGED <<FirstFrame, FirstWriteFrame, FrameInitialized, currentWaveOut, frame>>
      /\ UNCHANGED <<prepared, Paused, GetPositionCounter, hadReset, Current>>
  BY <1>2 DEF QueueStays, queueVars, timeVars, callVars
<1>4. ListTypes' /\ PlayTypes' /\ ListInv' /\ LoopInv' /\ PlayedInv' /\ ~inconsistent'
  <2>1. sampleCount' \in Nat /\ (Callback' <=> Callback)
    BY <1>2 DEF Callback
  <2>2. (Playing' <=> Playing) /\ (Serving' <=> Serving)
    BY <1>2, <1>3 DEF Playing, Serving
  <2> QED
    BY <1>3, <2>1, <2>2, QuietStep
<1>5. Due \in Nat /\ sampleCount \in Nat /\ encoded \in Nat /\ 0 \in 0..DWordRange-1
  <2>1. frame - FirstWriteFrame \in Nat
    BY <1>1, Constants DEF FrameTypes
  <2> QED
    BY <1>1, <2>1, SamplesOfFrame, Constants DEF Due, FrameTypes
<1>6. FrameTypes'
  BY <1>1, <1>2, <1>3, <1>4, <1>5 DEF FrameTypes, QueueStays
<1>7. ASSUME ~hadReset PROVE StepInv'
  <2>1. /\ currentWaveOut /\ encoded + sampleCount = Due /\ FirstWriteFrame <= FirstFrame
        /\ played + sampleCount + Silent * Quota <= Due /\ FrameInitialized = currentWaveOut
    BY <1>1, <1>2, <1>7 DEF SoundInv, StepInv, InFrame
  <2>2. Due' = Due /\ Silent' * Quota' = Silent * Quota /\ played' = played
    BY <1>2, <1>3 DEF Due, Silent, Quota
  <2>3. Silent * Quota \in Int
    BY <1>1, SamplesOfFrame DEF FrameTypes, Silent
  <2>4. played' + Silent' * Quota' <= Due'
    BY <1>1, <1>5, <2>1, <2>2, <2>3 DEF FrameTypes
  <2> QED
    BY <1>2, <1>3, <1>7, <2>1, <2>2, <2>4 DEF StepInv, InFrame
<1>8. SoundInv'
  BY <1>1, <1>2, <1>3, <1>7 DEF SoundInv, InFrame
<1> QED
  BY <1>4, <1>6, <1>8, InvariantKept

\* reset takes every buffer from the list and starts the device anew.
LEMMA ResettingKeeps == WaveInv /\ Resetting => WaveInv'
<1> SUFFICES ASSUME WaveInv, Resetting PROVE WaveInv'
  OBVIOUS
<1>1. ListTypes /\ PlayTypes /\ FrameTypes /\ ListInv /\ LoopInv /\ PlayedInv /\ SoundInv /\ ~inconsistent
  BY AllTypes DEF WaveInv
<1>2. CASE ResetDoneBuffer
  <2>1. /\ pc = "reset" /\ qHead # None /\ doneBuffer("doneInReset")
        /\ UNCHANGED <<qHead, Current, qTail, lpNext, dwLoops, InLoop, timeVars, soundVars, callVars, frame>>
    BY <1>2 DEF ResetDoneBuffer
  <2>2. ~Callback /\ Current # None /\ qHead = Current
    BY <1>1, <2>1 DEF Callback, ListInv
  <2>3. pc' = "doneInReset" /\ playQueue' = Tail(playQueue)
    BY <2>1, <2>2 DEF doneBuffer
  <2>4. ListInv' /\ inconsistent' = inconsistent /\ inQueue' = inQueue \ {Current}
    BY <1>1, <2>1, <2>2, <2>3, DoneKeepsList DEF Callback
  <2>5. playQueue' \in Seq(Headers)
    <3>1. playQueue # <<>>
      BY <1>1, <2>2, ListEnds
    <3> QED
      BY <1>1, <2>3, <3>1 DEF ListTypes
  <2>6. UNCHANGED <<CurrentBufferPos, CurrentSamplePos, sampleCount, asked, given, encoded, played>>
    BY <2>1 DEF soundVars
  <2>7. ListTypes' /\ PlayTypes'
    BY <1>1, <2>1, <2>4, <2>5, <2>6 DEF ListTypes, PlayTypes
  <2>8. ~Serving' /\ ~Playing'
    BY <2>3 DEF Serving, Playing
  <2>9. LoopInv' /\ PlayedInv'
    BY <1>1, <2>1, <2>8 DEF LoopInv, PlayedInv
  <2>10. /\ UNCHANGED <<FirstFrame, FirstWriteFrame, FrameInitialized, currentWaveOut, frame>>
         /\ UNCHANGED <<prepared, Paused, GetPositionCounter, hadReset>>
    BY <2>1 DEF timeVars, callVars
  <2>11. FrameTypes'
    BY <1>1, <2>3, <2>4, <2>6, <2>10 DEF FrameTypes
  <2>12. hadReset'
    BY <1>1, <2>1, <2>10 DEF SoundInv
  <2>13. SoundInv'
    BY <1>1, <2>3, <2>10, <2>12 DEF SoundInv, InFrame
  <2> QED
    BY <1>1, <2>4, <2>7, <2>9, <2>11, <2>13, InvariantKept
<1>3. CASE ResetUnlink
  <2>1. /\ pc = "doneInReset" /\ pc' = "reset" /\ Unlink
        /\ UNCHANGED <<lpNext, dwLoops, inQueue, playQueue, InLoop, inconsistent,
                       timeVars, soundVars, callVars, frame>>
    BY <1>3 DEF ResetUnlink
  <2>2. Callback /\ ~Callback' /\ ~Serving' /\ ~Playing'
    BY <2>1 DEF Callback, Serving, Playing
  <2>3. ListInv' /\ Current' = lpNext[Current] /\ Current \in Headers
    BY <1>1, <2>1, <2>2, UnlinkKeepsList DEF ListInv
  <2>4. qHead' = Current' /\ qTail' \in Headers \union {None} /\ Current' \in Headers \union {None}
    BY <1>1, <2>1, <2>3 DEF Unlink, ListTypes
  <2>5. UNCHANGED <<CurrentBufferPos, CurrentSamplePos, sampleCount, asked, given, encoded, played>>
    BY <2>1 DEF soundVars
  <2>6. ListTypes' /\ PlayTypes'
    BY <1>1, <2>1, <2>4, <2>5 DEF ListTypes, PlayTypes
  <2>7. LoopInv' /\ PlayedInv'
    BY <1>1, <2>1, <2>2 DEF LoopInv, PlayedInv
  <2>8. /\ UNCHANGED <<FirstFrame, FirstWriteFrame, FrameInitialized, currentWaveOut, frame>>
        /\ UNCHANGED <<prepared, Paused, GetPositionCounter, hadReset>>
    BY <2>1 DEF timeVars, callVars
  <2>9. FrameTypes'
    BY <1>1, <2>1, <2>5, <2>8 DEF FrameTypes
  <2>10. SoundInv'
    BY <1>1, <2>1, <2>8 DEF SoundInv, InFrame
  <2> QED
    BY <1>1, <2>1, <2>3, <2>6, <2>7, <2>9, <2>10, InvariantKept
<1>4. CASE EndReset
  <2>1. /\ pc = "reset" /\ qHead = None /\ pc' = "idle"
        /\ CurrentBufferPos' = 0 /\ CurrentSamplePos' = 0 /\ Paused' = FALSE /\ InLoop' = FALSE
        /\ FirstFrame' = 0 /\ FirstWriteFrame' = 0 /\ FrameInitialized' = FALSE
        /\ UNCHANGED <<qHead, Current, qTail, lpNext, dwLoops, inQueue, playQueue, inconsistent>>
        /\ UNCHANGED <<currentWaveOut, sampleCount, asked, given, encoded, played, prepared>>
        /\ UNCHANGED <<GetPositionCounter, hadReset, frame>>
    BY <1>4 DEF EndReset
  <2>2. Current = None /\ ~Callback /\ ~Callback'
    BY <1>1, <2>1 DEF ListInv, Callback
  <2>3. playQueue = <<>>
    BY <1>1, <2>2, ListEnds
  <2>4. inQueue = {}
    BY <1>1, <2>3 DEF ListInv, PlayTypes
  <2>5. ListTypes' /\ PlayTypes'
    BY <1>1, <2>1 DEF ListTypes, PlayTypes
  <2>6. ListInv'
    BY <1>1, <2>1, <2>2, ListStays
  <2>7. ~Playing'
    BY <2>1, <2>2 DEF Playing
  <2>8. LoopInv' /\ PlayedInv'
    BY <1>1, <2>1, <2>4, <2>7 DEF LoopInv, PlayedInv
  <2>9. frame \in Nat /\ 0 \in 0..MaxFrames /\ 0 \in 0..frame /\ 0 <= frame
    BY <1>1, Constants DEF FrameTypes
  <2>10. FrameTypes'
    BY <1>1, <2>1, <2>9 DEF FrameTypes
  <2>11. SoundInv'
    BY <1>1, <2>1, <2>9 DEF SoundInv, InFrame
  <2> QED
    BY <1>1, <2>1, <2>5, <2>6, <2>8, <2>10, <2>11, InvariantKept
<1> QED
  BY <1>2, <1>3, <1>4 DEF Resetting

\* Everything starts empty.
LEMMA InitHolds == Init => WaveInv
<1> SUFFICES ASSUME Init PROVE WaveInv
  OBVIOUS
<1>1. 0 \in 0..MaxLoops /\ 0 \in 0..DWordRange-1 /\ 0 \in 0..MaxGetPosition-1 /\ 0 \in 0..MaxFrames /\ 0 \in 0..0
  BY Constants
<1>2. ListTypes
  BY DEF Init, ListTypes
<1>3. PlayTypes
  BY <1>1 DEF Init, PlayTypes
<1>4. FrameTypes
  BY <1>1 DEF Init, FrameTypes
<1>5. ListInv
  BY DEF Init, ListInv, Callback
<1>6. LoopInv /\ PlayedInv
  BY DEF Init, LoopInv, PlayedInv, Playing, Serving
<1>7. SoundInv
  <2>1. StepInv
    BY DEF Init, StepInv
  <2>2. FirstFrame <= frame /\ ~InFrame /\ pc = "idle"
    BY DEF Init, InFrame
  <2> QED
    BY <2>1, <2>2 DEF SoundInv
<1> QED
  BY <1>2, <1>3, <1>4, <1>5, <1>6, <1>7, AllTypes DEF WaveInv, Init

LEMMA StepKeeps == LoopsOfOne /\ WaveInv /\ [Next]_vars => WaveInv'
<1> SUFFICES ASSUME LoopsOfOne, WaveInv, [Next]_vars PROVE WaveInv'
  OBVIOUS
<1>1. FrameTypes /\ 0 \in 0..MaxGetPosition-1 /\ MaxGetPosition \in Nat \ {0}
  BY AllTypes, Constants DEF WaveInv
<1>2. CASE \E h \in Headers : write(h)
  BY <1>2, WriteKeeps
<1>3. CASE OtherCall
  BY <1>3, OtherCallKeeps
<1>4. CASE nextFrame
  <2>1. AdvanceFrame /\ GetPositionCounter' \in 0..MaxGetPosition-1
    BY <1>1, <1>4 DEF nextFrame, FrameTypes
  <2> QED
    BY <2>1, AdvanceKeeps
<1>5. CASE getPosition
  <2>1. CASE GetPositionCounter + 1 < MaxGetPosition
    <3>1. OtherCall
      BY <1>5, <2>1 DEF OtherCall, getPosition
    <3> QED
      BY <3>1, OtherCallKeeps
  <2>2. CASE ~(GetPositionCounter + 1 < MaxGetPosition)
    <3>1. GetPositionCounter + 1 >= MaxGetPosition
      BY <1>1, <2>2 DEF FrameTypes
    <3>2. AdvanceFrame /\ GetPositionCounter' = 0
      BY <1>5, <3>1 DEF getPosition
    <3> QED
      BY <1>1, <3>2, AdvanceKeeps
  <2> QED
    BY <2>1, <2>2
<1>6. CASE processFrame
  BY <1>6, ConsumeKeeps, AfterCallbackKeeps, EndFrameKeeps DEF processFrame
<1>7. CASE Resetting
  BY <1>7, ResettingKeeps
<1>8. CASE UNCHANGED vars
  <2>1. UNCHANGED <<queueVars, timeVars, soundVars, callVars, frame, pc>>
    BY <1>8 DEF vars
  <2>2. /\ QueueStays /\ UNCHANGED <<FirstFrame, FirstWriteFrame, FrameInitialized, currentWaveOut, frame, pc>>
        /\ UNCHANGED <<CurrentSamplePos, sampleCount, encoded, played, prepared, Paused, GetPositionCounter, hadReset>>
    BY <2>1 DEF QueueStays, queueVars, timeVars, soundVars, callVars
  <2>3. ListTypes /\ PlayTypes /\ FrameTypes /\ SoundInv
    BY AllTypes DEF WaveInv
  <2>4. ListTypes' /\ PlayTypes' /\ ListInv' /\ LoopInv' /\ PlayedInv' /\ ~inconsistent'
    <3>1. sampleCount' \in Nat /\ (Callback' <=> Callback) /\ (Playing' <=> Playing) /\ (Serving' <=> Serving)
      BY <2>2, <2>3 DEF PlayTypes, Callback, Playing, Serving, QueueStays
    <3> QED
      BY <2>2, <3>1, QuietStep
  <2>5. FrameTypes'
    BY <2>2, <2>3, <2>4 DEF FrameTypes, QueueStays
  <2>6. SoundInv'
    BY <2>2, <2>3 DEF SoundInv, StepInv, InFrame, Due, Silent
  <2> QED
    BY <2>4, <2>5, <2>6, InvariantKept
<1>9. Next => \/ \E h \in Headers : write(h)
              \/ OtherCall \/ nextFrame \/ getPosition \/ processFrame \/ Resetting
  BY DEF Next, OtherCall
<1> QED
  BY <1>2, <1>3, <1>4, <1>5, <1>6, <1>7, <1>8, <1>9

\* The list, the loops, what was played and what was encoded stay as they should be.
THEOREM WaveInvariant ==
  ASSUME LoopsOfOne
  PROVE  Spec => []WaveInv
<1>1. Init => WaveInv
  BY InitHolds
<1>2. WaveInv /\ [Next]_vars => WaveInv'
  BY StepKeeps
<1> QED
  BY <1>1, <1>2, PTL DEF Spec

-----------------------------------------------------------------------------
(* What the runs check. *)

\* The list from Head to Tail is what was written and is not done, in that order, and
\* doneBuffer does not meet its inconsistent state.
LEMMA ListIsIntact == WaveInv => QueueIntact
<1> SUFFICES ASSUME WaveInv PROVE QueueIntact
  OBVIOUS
<1>1. TypeOK /\ ~inconsistent /\ ListTypes /\ ListInv
  BY AllTypes DEF WaveInv
<1>2. Len(playQueue) \in Nat /\ DOMAIN playQueue = 1..Len(playQueue)
      /\ (\A i \in 1..Len(playQueue) : playQueue[i] \in Headers /\ playQueue[i] \in inQueue)
      /\ (qTail = None <=> playQueue = <<>> /\ ~Callback)
  BY <1>1, ListEnds DEF ListTypes
<1>3. inQueue = {playQueue[i] : i \in DOMAIN playQueue}
  <2>1. ASSUME NEW h \in inQueue PROVE h \in {playQueue[i] : i \in DOMAIN playQueue}
    BY <1>1, <1>2 DEF ListInv, ListTypes
  <2>2. ASSUME NEW i \in DOMAIN playQueue PROVE playQueue[i] \in inQueue
    BY <1>2
  <2> QED
    BY <2>1, <2>2
<1> DEFINE listed == IF Callback THEN <<Current>> \o playQueue ELSE playQueue
<1>4. \/ listed = <<>> /\ qHead = None /\ qTail = None
      \/ /\ listed # <<>>
         /\ qHead = listed[1] /\ qTail = listed[Len(listed)]
         /\ lpNext[qTail] = None
         /\ \A i \in 1..Len(listed)-1 : lpNext[listed[i]] = listed[i+1]
  <2>1. CASE ~Callback
    <3>1. listed = playQueue
      BY <2>1
    <3>2. CASE playQueue = <<>>
      BY <1>1, <2>1, <3>1, <3>2 DEF ListInv
    <3>3. CASE playQueue # <<>>
      BY <1>1, <1>2, <2>1, <3>1, <3>3 DEF ListInv
    <3> QED
      BY <3>2, <3>3
  <2>2. CASE Callback
    <3>1. listed = <<Current>> \o playQueue /\ Current \in Headers
      BY <1>1, <2>2 DEF ListInv
    <3> DEFINE n == Len(playQueue)
    <3>2. /\ Len(listed) = n + 1 /\ listed[1] = Current
          /\ \A i \in 1..n : listed[i + 1] = playQueue[i]
      BY <1>1, <3>1 DEF ListTypes
    <3> HIDE DEF listed
    <3>3. qHead = listed[1] /\ lpNext[qTail] = None /\ listed # <<>>
      BY <1>1, <1>2, <2>2, <3>2 DEF ListInv
    <3>4. qTail = listed[Len(listed)]
      <4>1. CASE playQueue = <<>>
        BY <1>1, <2>2, <3>2, <4>1 DEF ListInv
      <4>2. CASE playQueue # <<>>
        <5>1. n \in 1..n
          BY <1>1, <4>2 DEF ListTypes
        <5> QED
          BY <1>1, <3>2, <4>2, <5>1 DEF ListInv
      <4> QED
        BY <4>1, <4>2
    <3>5. ASSUME NEW i \in 1..Len(listed)-1 PROVE lpNext[listed[i]] = listed[i+1]
      <4>1. i \in 1..n /\ n \in Nat /\ playQueue # <<>>
        BY <1>2, <3>2
      <4>2. CASE i = 1
        BY <1>1, <2>2, <3>2, <4>1, <4>2 DEF ListInv
      <4>3. CASE i # 1
        <5>1. i - 1 \in 1..n-1 /\ i - 1 \in 1..n /\ (i - 1) + 1 = i
          BY <4>1, <4>3
        <5>2. listed[i] = playQueue[i - 1] /\ listed[i + 1] = playQueue[i]
          BY <3>2, <4>1, <5>1
        <5>3. lpNext[playQueue[i - 1]] = playQueue[i]
          BY <1>1, <5>1 DEF ListInv
        <5> QED
          BY <5>2, <5>3
      <4> QED
        BY <4>2, <4>3
    <3> QED
      BY <3>3, <3>4, <3>5
  <2> QED
    BY <2>1, <2>2
<1> QED
  BY <1>1, <1>3, <1>4 DEF QueueIntact, Callback

\* Between two frames the encoder has the sound of the frames, and the position the
\* program reads covers what was played.
LEMMA InStep == WaveInv => SoundInStep
<1> SUFFICES ASSUME WaveInv, pc = "idle", currentWaveOut, ~hadReset
             PROVE  /\ encoded = SamplesIn(frame - FirstWriteFrame)
                    /\ played <= SamplesIn(frame - FirstFrame) + (FirstFrame - FirstWriteFrame)
  BY DEF SoundInStep, AudioKeepsUp, PositionCoversPlayed
<1>1. FrameTypes /\ SoundInv
  BY AllTypes DEF WaveInv
<1>2. encoded = Due /\ played + Silent * Quota <= Due /\ FirstWriteFrame <= FirstFrame /\ FirstFrame <= frame
  BY <1>1 DEF SoundInv, StepInv
<1> DEFINE n == frame - FirstFrame
<1>3. n \in Nat /\ Silent \in Nat /\ frame - FirstWriteFrame = n + Silent /\ played \in Nat
  BY <1>1, <1>2 DEF FrameTypes, Silent
<1>4. Due <= SamplesIn(n) + Silent * Quota + Silent
  <2> HIDE DEF n
  <2> QED
    BY <1>3, SamplesOfSilence DEF Due
<1>5. SamplesIn(n) \in Nat /\ Silent * Quota \in Nat /\ Due \in Nat
  <2> HIDE DEF n
  <2> QED
    BY <1>3, SamplesOfFrame DEF Due
<1>6. played <= SamplesIn(n) + Silent
  <2> DEFINE share == Silent * Quota
  <2> HIDE DEF share, n
  <2>1. played + share <= Due /\ Due <= SamplesIn(n) + share + Silent /\ share \in Nat
    BY <1>2, <1>4, <1>5 DEF share
  <2> QED
    BY <1>3, <1>5, <2>1
<1> QED
  BY <1>2, <1>6 DEF Due, Silent

\* Only reset takes a buffer back before all its turns were encoded.
LEMMA DonePlayed ==
  ASSUME LoopsOfOne, WaveInv, [Next]_vars, NEW h \in inQueue \ inQueue'
  PROVE  \/ pc = "reset"
         \/ \E n \in 1..MaxLoops+1 : n >= asked[h] /\ given'[h] = n * Length[h]
<1>1. CASE Consume
  <2>1. given'[h] = (asked[h] + 1) * Length[h]
    BY <1>1, ConsumeKeeps
  <2>2. asked[h] \in 0..MaxLoops /\ asked[h] + 1 \in 1..MaxLoops+1 /\ asked[h] + 1 >= asked[h]
    <3>1. asked[h] \in 0..MaxLoops
      BY AllTypes DEF WaveInv, PlayTypes
    <3> QED
      BY <3>1, Constants
  <2> QED
    BY <2>1, <2>2
<1>2. CASE ResetDoneBuffer
  BY <1>2 DEF ResetDoneBuffer
<1>3. CASE \E b \in Headers : write(b)
  BY <1>3 DEF write
<1>4. CASE nextFrame \/ getPosition
  BY <1>4 DEF nextFrame, getPosition, AdvanceFrame, queueVars
<1>5. CASE OtherCall
  BY <1>5 DEF OtherCall, WriteDone, pause, restart, reset, prepareHeader, unprepareHeader, getPosition,
              AdvanceFrame, queueVars
<1>6. CASE AfterCallback \/ EndFrame \/ ResetUnlink \/ EndReset
  BY <1>6 DEF AfterCallback, EndFrame, ResetUnlink, EndReset, queueVars
<1>7. CASE UNCHANGED vars
  BY <1>7 DEF vars, queueVars
<1> QED
  BY <1>1, <1>2, <1>3, <1>4, <1>5, <1>6, <1>7 DEF Next, OtherCall, processFrame, Resetting

\* The list of buffers is intact whatever is written, played, looped, reset or written
\* from a callback, for any number of buffers.
THEOREM ListIntact ==
  ASSUME LoopsOfOne
  PROVE  FairSpec => []QueueIntact
<1>1. Spec => []WaveInv
  BY WaveInvariant
<1>2. WaveInv => QueueIntact
  BY ListIsIntact
<1> QED
  BY <1>1, <1>2, PTL DEF FairSpec

\* Until the first reset the encoder has been given the sound of the frames presented,
\* whatever the rates are.
THEOREM SoundWithFrames ==
  ASSUME LoopsOfOne
  PROVE  FairSpec => []SoundInStep
<1>1. Spec => []WaveInv
  BY WaveInvariant
<1>2. WaveInv => SoundInStep
  BY InStep
<1> QED
  BY <1>1, <1>2, PTL DEF FairSpec

\* A buffer comes back only when all of it was encoded, as often as the program asked.
THEOREM DoneOnlyWhenPlayed ==
  ASSUME LoopsOfOne
  PROVE  FairSpec => DoneMeansPlayed
<1>1. Spec => []WaveInv
  BY WaveInvariant
<1>2. WaveInv /\ [Next]_vars =>
        [\A h \in inQueue \ inQueue' :
           \/ pc = "reset"
           \/ \E n \in 1..MaxLoops+1 : n >= asked[h] /\ given'[h] = n * Length[h]]_vars
  BY DonePlayed
<1> QED
  BY <1>1, <1>2, PTL DEF FairSpec, Spec, DoneMeansPlayed
=============================================================================
