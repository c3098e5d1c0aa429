--------------------------- MODULE DirectSoundProofs ---------------------------
(***************************************************************************)
(* Theorems about the DirectSound buffers, for any buffers, rates, calls   *)
(* and frames.                                                             *)
(***************************************************************************)
EXTENDS DirectSound, TLAPS

-----------------------------------------------------------------------------
(* The invariant. *)

Writes(t, b) == pc[t] = "write" /\ ptr[t] = b

\* Where the threads are, and what the counters stay below.
CallInv ==
  /\ pc["main"] \in {"idle", "sound", "encode", "write"}
  /\ pc["sound"] # "idle" => subject \in Buffers
  /\ pc["sound"] = "hammer" => frame <= MaxFrames
  /\ \A b \in Buffers : RefCount[b] <= calls + 1

\* A thread that writes has the lock of its buffer, and no other thread is between the
\* sizes of a frame and its writes.
LockInv ==
  /\ \A t \in Threads : pc[t] = "write" => ptr[t] \in Buffers /\ BufferLock[ptr[t]] = t
  /\ \A b \in Buffers, t \in Threads : BufferLock[b] = t => Writes(t, b)
  /\ \A b \in Buffers : (\A t \in Threads : ~Writes(t, b)) => frameSize[b] = 0

\* The cursor stays where it was when the end of the frame was computed.
ReadInv ==
  ~careless =>
    /\ inside
    /\ \A t \in Threads : pc[t] = "write" =>
         end[ptr[t]] = PlayCursor[ptr[t]] + (IF frameSize[ptr[t]] > Bytes THEN Bytes ELSE frameSize[ptr[t]])

\* The buffer that plays has its FirstFrame, and the frames that are under way are its own,
\* but for the time Play takes.
PointerInv ==
  /\ pc["sound"] = "first" => playBuffer = subject
  /\ playBuffer # None /\ pc["sound"] # "first" => FirstFrame[playBuffer] <= frame
  /\ pc["sound"] = "encode" /\ ~fault => ptr["sound"] = playBuffer
  /\ ~careless /\ pc["sound"] # "first" => \A t \in Threads : pc[t] = "encode" => ptr[t] = playBuffer

\* What a frame may encode is there.
HandInv ==
  ~careless /\ ~dropped =>
    /\ playBuffer # None => playBuffer \in Alive /\ Playing[playBuffer]
    /\ \A t \in Threads : pc[t] = "encode" => ptr[t] \in Alive /\ playBuffer \in Alive
    /\ fault => pc["sound"] = "first"

\* The frames that have begun and whose sound b has yet to give.
Behind(t, b) == pc[t] = "sound" \/ (pc[t] = "encode" /\ ptr[t] = b)
Late(b) == (IF Behind("main", b) THEN 1 ELSE 0) + (IF Behind("sound", b) THEN 1 ELSE 0)
Counted(b) == SamplesPlayed[b] + frameSize[b]

Tracked(b) == playBuffer = b /\ b \notin uneven /\ ~careless /\ pc["sound"] # "first"

\* All frames but those have had their sound.
UpToDate(b) ==
  /\ encoded[b] = SamplesPlayed[b] /\ frameSize[b] <= Bytes
  /\ \E k \in 0..Late(b) : /\ FirstFrame[b] + k <= frame
                           /\ Counted(b) = SamplesIn(frame - k - FirstFrame[b], Frequency[b])

StepInv == \A b \in Buffers : Tracked(b) => UpToDate(b)

\* A buffer that has given too much is up to date from then on.
CaughtUp(b) ==
  \E k \in 0..Late(b) :
    LET pos == SamplesIn((frame - k - FirstFrame[b]) % DWordRange, Frequency[b])
    IN  pos < DWordRange /\ Counted(b) % DWordRange = pos

SurplusInv ==
  ~fault => \A b \in clamped :
    /\ playBuffer # b => \A t \in Threads : ~(pc[t] = "encode" /\ ptr[t] = b)
    /\ playBuffer = b => CaughtUp(b)

BaseInv == TypeOK /\ CallInv /\ LockInv /\ ReadInv /\ PointerInv

-----------------------------------------------------------------------------
LEMMA Constants ==
  /\ None \notin Buffers /\ None \notin Threads /\ None # "lost"
  /\ Bytes \in Nat \ {0} /\ FrameRate \in Nat \ {0} /\ MaxGetPosition \in Nat \ {0} /\ DWordRange \in Nat \ {0}
  /\ 2 * Bytes < DWordRange /\ MaxFrames + 1 < DWordRange
  /\ MaxSkip \in Nat /\ MaxFrames \in Nat /\ MaxCalls \in Nat
  /\ Garbage \subseteq 0..DWordRange-1 /\ Frequencies \subseteq Nat /\ FirstFrequency \in Frequencies
BY DirectSoundAssumption DEF Threads

LEMMA WordRange == \A x \in Int : x % DWordRange \in DWord /\ x % DWordRange \in Nat
BY Constants DEF DWord

LEMMA SmallWord == \A x \in Nat : x < DWordRange => x % DWordRange = x
BY Constants

LEMMA CursorRange == \A x \in Int : x % Bytes \in 0..Bytes-1
BY Constants

LEMMA SamplesType == \A n \in Nat, f \in Nat : SamplesIn(n, f) \in Nat
<1> TAKE n \in Nat, f \in Nat
<1>1. n * f \in Nat
  OBVIOUS
<1> QED
  BY <1>1, Constants DEF SamplesIn

LEMMA FrameSizeType ==
  ASSUME TypeOK, NEW b \in Buffers
  PROVE  /\ NextFrameSize(b) \in DWord
         /\ EndOfFrame(b, NextFrameSize(b)) \in DWord
<1> DEFINE n == (frame - FirstFrame[b]) % DWordRange
           s == SamplesIn(n, Frequency[b])
<1>1. /\ frame \in Nat /\ FirstFrame[b] \in Nat /\ Frequency[b] \in Nat /\ SamplesPlayed[b] \in Nat
      /\ PlayCursor[b] \in Nat /\ PlayCursor[b] < Bytes
  <2>1. frame \in Nat /\ Frequency[b] \in Nat
    <3>1. frame \in 0..MaxFrames + 1 /\ Frequency[b] \in Frequencies
      BY DEF TypeOK
    <3>2. frame \in Nat
      BY <3>1
    <3>3. Frequencies \subseteq Nat
      BY Constants
    <3> QED
      BY <3>1, <3>2, <3>3
  <2>2. FirstFrame[b] \in DWord /\ SamplesPlayed[b] \in DWord /\ PlayCursor[b] \in 0..Bytes-1
    BY DEF TypeOK
  <2> QED
    BY <2>1, <2>2, Constants DEF DWord
<1>2. n \in Nat
  BY <1>1, WordRange
<1> HIDE DEF n
<1>3. s - SamplesPlayed[b] \in Int
  <2>1. s \in Nat
    BY <1>1, <1>2, SamplesType
  <2> HIDE DEF s
  <2> QED
    BY <1>1, <2>1
<1>4. NextFrameSize(b) = (s - SamplesPlayed[b]) % DWordRange
  BY DEF NextFrameSize, n
<1> HIDE DEF s
<1>5. NextFrameSize(b) \in DWord
  BY <1>3, <1>4, WordRange
<1>6. EndOfFrame(b, NextFrameSize(b)) \in DWord
  BY <1>1, <1>5, Constants DEF EndOfFrame, DWord
<1> QED
  BY <1>5, <1>6

LEMMA SkipType ==
  ASSUME TypeOK, NEW b \in Buffers, SkipSilence(b)
  PROVE  PlayCursor' \in [Buffers -> 0..Bytes-1] /\ SkipAllowed' \in [Buffers -> BOOLEAN]
         /\ \A o \in Buffers : o # b => PlayCursor'[o] = PlayCursor[o]
<1>1. PlayCursor \in [Buffers -> 0..Bytes-1] /\ SkipAllowed \in [Buffers -> BOOLEAN]
  BY DEF TypeOK
<1>2. CASE PlayCursor' = [PlayCursor EXCEPT ![b] = (@ + MaxSkip) % Bytes] /\ UNCHANGED SkipAllowed
  <2>1. (PlayCursor[b] + MaxSkip) % Bytes \in 0..Bytes-1
    <3>1. PlayCursor[b] + MaxSkip \in Int
      BY <1>1, Constants
    <3> QED
      BY <3>1, CursorRange
  <2> QED
    BY <1>1, <1>2, <2>1
<1>3. CASE SkipAllowed' = [SkipAllowed EXCEPT ![b] = FALSE] /\ UNCHANGED PlayCursor
  BY <1>1, <1>3
<1> QED
  BY <1>2, <1>3 DEF SkipSilence

\* The steps of a thread in a frame, and the calls.
LEMMA TypesKept == TypeOK /\ CallInv /\ LockInv /\ Next => TypeOK' /\ CallInv'
<1> SUFFICES ASSUME TypeOK, CallInv, LockInv, Next PROVE TypeOK' /\ CallInv'
  OBVIOUS
<1> USE Constants DEF TypeOK, CallInv, Threads, DWord, At, cursors, threads, history
<1>1. CASE Present
  BY <1>1 DEF Present, nextFrameTiming
<1>2. ASSUME NEW t \in Threads, nextFrameSound(t) PROVE TypeOK' /\ CallInv'
  BY <1>2 DEF nextFrameSound, AfterFrame
<1>3. ASSUME NEW t \in Threads, EncodeBegin(t) PROVE TypeOK' /\ CallInv'
  <2>1. PICK b \in {ptr[t], playBuffer} :
          /\ ptr' = [ptr EXCEPT ![t] = b]
          /\ \/ /\ b \notin Alive /\ fault' = TRUE
                /\ UNCHANGED <<BufferLock, pc, frameSize, end, clamped>>
             \/ /\ b \in Alive /\ fault' = Overflows(b)
                /\ BufferLock' = [BufferLock EXCEPT ![b] = t] /\ pc' = [pc EXCEPT ![t] = "write"]
                /\ frameSize' = [frameSize EXCEPT ![b] = NextFrameSize(b)]
                /\ end' = [end EXCEPT ![b] = EndOfFrame(b, NextFrameSize(b))]
                /\ clamped' = IF NextFrameSize(b) > Bytes THEN clamped \union {b} ELSE clamped \ {b}
    BY <1>3 DEF EncodeBegin
  <2>2. /\ UNCHANGED <<playBuffer, frame, RefCount, cursors, GetPosThisFrame, subject, calls,
                       careless, dropped, encoded, uneven, inside>>
        /\ pc[t] = "encode"
    BY <1>3 DEF EncodeBegin
  <2>3. CASE b \notin Alive
    <3> HIDE DEF DWord
    <3>1. b \in Buffers \union {None}
      OBVIOUS
    <3>2. ptr' \in [Threads -> Buffers \union {None}]
      BY <2>1, <3>1
    <3>3. TypeOK'
      BY <2>1, <2>2, <2>3, <3>2
    <3>4. CallInv'
      BY <2>1, <2>2, <2>3
    <3> QED
      BY <3>3, <3>4
  <2>4. CASE b \in Alive
    <3>1. b \in Buffers
      BY <2>4 DEF Alive
    <3>2. NextFrameSize(b) \in DWord /\ EndOfFrame(b, NextFrameSize(b)) \in DWord /\ Overflows(b) \in BOOLEAN
      BY <3>1, FrameSizeType DEF Overflows
    <3> HIDE DEF DWord
    <3>3. TypeOK'
      BY <2>1, <2>2, <2>4, <3>1, <3>2
    <3>4. CallInv'
      BY <2>1, <2>2, <2>4, <3>1
    <3> QED
      BY <3>3, <3>4
  <2> QED
    BY <2>1, <2>3, <2>4
<1>4. ASSUME NEW t \in Threads, EncodeWrite(t) PROVE TypeOK' /\ CallInv'
  <2> DEFINE b == ptr[t]
  <2>1. b \in Buffers
    BY <1>4 DEF EncodeWrite, LockInv
  <2>2. /\ (end[b] - PlayCursor[b]) % DWordRange \in Nat /\ end[b] % Bytes \in 0..Bytes-1
        /\ SamplesCounted(b) \in DWord /\ 0 \in DWord /\ 0 \in 0..MaxGetPosition-1
    <3>1. end[b] \in Int /\ PlayCursor[b] \in Int /\ SamplesPlayed[b] \in Int /\ frameSize[b] \in Int
      BY <2>1
    <3>2. end[b] - PlayCursor[b] \in Int /\ SamplesPlayed[b] + frameSize[b] \in Int
      BY <3>1
    <3>3. SamplesCounted(b) \in DWord /\ (end[b] - PlayCursor[b]) % DWordRange \in Nat
      BY <3>2, WordRange DEF SamplesCounted
    <3>4. end[b] % Bytes \in 0..Bytes-1
      BY <3>1, CursorRange
    <3> QED
      BY <3>3, <3>4
  <2> HIDE DEF DWord
  <2>3. /\ pc[t] = "write" /\ encoded' = [encoded EXCEPT ![b] = @ + ((end[b] - PlayCursor[b]) % DWordRange)]
        /\ PlayCursor' = [PlayCursor EXCEPT ![b] = end[b] % Bytes]
        /\ SamplesPlayed' = [SamplesPlayed EXCEPT ![b] = SamplesCounted(b)]
        /\ GetPosThisFrame' = [GetPosThisFrame EXCEPT ![b] = 0]
        /\ BufferLock' = [BufferLock EXCEPT ![b] = None] /\ pc' = [pc EXCEPT ![t] = AfterFrame(t)]
        /\ frameSize' = [frameSize EXCEPT ![b] = 0] /\ end' = [end EXCEPT ![b] = 0] /\ ptr' = [ptr EXCEPT ![t] = None]
        /\ inside' \in BOOLEAN
    BY <1>4 DEF EncodeWrite, LeaveLock
  <2>4. UNCHANGED <<playBuffer, frame, RefCount, Playing, SkipAllowed, FirstFrame, Frequency,
                    subject, calls, fault, careless, dropped, uneven, clamped>>
    BY <1>4 DEF EncodeWrite
  <2>5. TypeOK'
    BY <2>1, <2>2, <2>3, <2>4 DEF AfterFrame
  <2>6. CallInv'
    BY <2>1, <2>3, <2>4 DEF AfterFrame
  <2> QED
    BY <2>5, <2>6
<1>5. ASSUME NEW b \in Buffers, GetCurrentPosition(b) PROVE TypeOK' /\ CallInv'
  <2>1. CASE ReportPosition(b)
    <3>1. PlayCursor' \in [Buffers -> 0..Bytes-1] /\ SkipAllowed' \in [Buffers -> BOOLEAN]
      BY <2>1, SkipType DEF ReportPosition
    <3> QED
      BY <1>5, <2>1, <3>1 DEF GetCurrentPosition, Call, ReportPosition
  <2>2. CASE ~ReportPosition(b)
    BY <1>5, <2>2 DEF GetCurrentPosition, Call
  <2> QED
    BY <2>1, <2>2
<1>6. CASE Hammer
  BY <1>6 DEF Hammer, nextFrameTiming
<1>7. CASE Resume
  <2>1. PlayCursor' \in [Buffers -> 0..Bytes-1] /\ SkipAllowed' \in [Buffers -> BOOLEAN]
    BY <1>7, SkipType DEF Resume, ReportPosition
  <2> QED
    BY <1>7, <2>1 DEF Resume, ReportPosition
<1>8. CASE SetFirstFrame
  BY <1>8 DEF SetFirstFrame
<1>9. ASSUME NEW b \in Buffers, LockOutOfRange(b) PROVE TypeOK' /\ CallInv'
  BY <1>9 DEF LockOutOfRange, Call
<1>10. ASSUME NEW b \in Buffers, Play(b) PROVE TypeOK' /\ CallInv'
  BY <1>10 DEF Play, Call
<1>11. ASSUME NEW b \in Buffers, Stop(b) PROVE TypeOK' /\ CallInv'
  BY <1>11 DEF Stop, Call
<1>12. ASSUME NEW b \in Buffers, AddRef(b) PROVE TypeOK' /\ CallInv'
  BY <1>12 DEF AddRef, Call
<1>13. ASSUME NEW b \in Buffers, Release(b) PROVE TypeOK' /\ CallInv'
  BY <1>13 DEF Release, Call, Alive
<1>14. ASSUME NEW b \in Buffers, SetCurrentPosition(b, Bytes - 1) PROVE TypeOK' /\ CallInv'
  BY <1>14 DEF SetCurrentPosition, Call
<1>15. ASSUME NEW b \in Buffers, NEW f \in Frequencies, SetFrequency(b, f) PROVE TypeOK' /\ CallInv'
  BY <1>15 DEF SetFrequency, Call
<1> QED
  BY <1>1, <1>2, <1>3, <1>4, <1>5, <1>6, <1>7, <1>8, <1>9, <1>10, <1>11, <1>12, <1>13, <1>14, <1>15
     DEF Next, Step, Poll

-----------------------------------------------------------------------------
(* The locks. *)

\* What a step of a thread in the encoder does, without its values.
LEMMA EncodeBeginIs ==
  ASSUME TypeOK, NEW t \in Threads, EncodeBegin(t)
  PROVE  \E b \in {ptr[t], playBuffer} :
           /\ pc[t] = "encode" /\ ~fault /\ ptr' = [ptr EXCEPT ![t] = b] /\ ptr'[t] = b
           /\ \A u \in Threads : u # t => ptr'[u] = ptr[u] /\ pc'[u] = pc[u]
           /\ UNCHANGED <<playBuffer, frame, RefCount, cursors, GetPosThisFrame, subject, calls,
                          careless, dropped, encoded, uneven, inside>>
           /\ \/ b \notin Alive /\ fault' /\ UNCHANGED <<BufferLock, pc, frameSize, end, clamped>>
              \/ /\ b \in Alive /\ b \in Buffers /\ CanEnter(b, t) /\ pc'[t] = "write"
                 /\ fault' = Overflows(b)
                 /\ BufferLock' = [BufferLock EXCEPT ![b] = t]
                 /\ frameSize' = [frameSize EXCEPT ![b] = NextFrameSize(b)]
                 /\ end' = [end EXCEPT ![b] = EndOfFrame(b, NextFrameSize(b))]
                 /\ clamped' = IF NextFrameSize(b) > Bytes THEN clamped \union {b} ELSE clamped \ {b}
<1>1. PICK b \in {ptr[t], playBuffer} :
        /\ pc[t] = "encode" /\ ~fault /\ ptr' = [ptr EXCEPT ![t] = b]
        /\ UNCHANGED <<playBuffer, frame, RefCount, cursors, GetPosThisFrame, subject, calls,
                       careless, dropped, encoded, uneven, inside>>
        /\ \/ b \notin Alive /\ fault' /\ UNCHANGED <<BufferLock, pc, frameSize, end, clamped>>
           \/ /\ b \in Alive /\ CanEnter(b, t) /\ pc' = [pc EXCEPT ![t] = "write"]
              /\ fault' = Overflows(b)
              /\ BufferLock' = [BufferLock EXCEPT ![b] = t]
              /\ frameSize' = [frameSize EXCEPT ![b] = NextFrameSize(b)]
              /\ end' = [end EXCEPT ![b] = EndOfFrame(b, NextFrameSize(b))]
              /\ clamped' = IF NextFrameSize(b) > Bytes THEN clamped \union {b} ELSE clamped \ {b}
  BY DEF EncodeBegin, At
<1>2. ptr \in [Threads -> Buffers \union {None}] /\ DOMAIN pc = Threads
  BY DEF TypeOK
<1>3. ptr'[t] = b /\ \A u \in Threads : u # t => ptr'[u] = ptr[u] /\ pc'[u] = pc[u]
  BY <1>1, <1>2
<1>4. b \in Alive => b \in Buffers
  BY DEF Alive
<1>5. pc' = [pc EXCEPT ![t] = "write"] => pc'[t] = "write"
  BY <1>2
<1> QED
  BY <1>1, <1>3, <1>4, <1>5

LEMMA EncodeWriteIs ==
  ASSUME TypeOK, LockInv, NEW t \in Threads, EncodeWrite(t)
  PROVE  /\ pc[t] = "write" /\ ~fault /\ ptr[t] \in Buffers
         /\ inside' = (inside /\ \A s \in Stretches(ptr[t]) : s[1] <= s[2] /\ s[2] <= Bytes)
         /\ encoded' = [encoded EXCEPT ![ptr[t]] = @ + ((end[ptr[t]] - PlayCursor[ptr[t]]) % DWordRange)]
         /\ PlayCursor' = [PlayCursor EXCEPT ![ptr[t]] = end[ptr[t]] % Bytes]
         /\ SamplesPlayed' = [SamplesPlayed EXCEPT ![ptr[t]] = SamplesCounted(ptr[t])]
         /\ BufferLock' = [BufferLock EXCEPT ![ptr[t]] = None]
         /\ frameSize' = [frameSize EXCEPT ![ptr[t]] = 0] /\ end' = [end EXCEPT ![ptr[t]] = 0]
         /\ ptr'[t] = None /\ pc'[t] = AfterFrame(t)
         /\ \A u \in Threads : u # t => ptr'[u] = ptr[u] /\ pc'[u] = pc[u]
         /\ UNCHANGED <<playBuffer, frame, RefCount, Playing, SkipAllowed, FirstFrame, Frequency,
                        subject, calls, fault, careless, dropped, uneven, clamped>>
<1>1. DOMAIN ptr = Threads /\ DOMAIN pc = Threads
  BY DEF TypeOK
<1>2. pc[t] = "write" /\ ~fault /\ ptr[t] \in Buffers
  BY DEF EncodeWrite, At, LockInv
<1>3. ptr'[t] = None /\ pc'[t] = AfterFrame(t) /\ \A u \in Threads : u # t => ptr'[u] = ptr[u] /\ pc'[u] = pc[u]
  BY <1>1 DEF EncodeWrite
<1> QED
  BY <1>2, <1>3 DEF EncodeWrite, LeaveLock

\* The steps that do not enter or leave a buffer's lock to encode.
Other ==
  \/ Present \/ Poll \/ \E t \in Threads : nextFrameSound(t)
  \/ Hammer \/ Resume \/ SetFirstFrame
  \/ \E b \in Buffers :
       \/ LockOutOfRange(b) \/ Play(b) \/ Stop(b) \/ AddRef(b) \/ Release(b)
       \/ SetCurrentPosition(b, Bytes - 1)
       \/ \E freq \in Frequencies : SetFrequency(b, freq)

LEMMA NextIs == Next => Other \/ \E t \in Threads : EncodeBegin(t) \/ EncodeWrite(t)
BY DEF Next, Step, Other

\* They leave the writing threads alone.
Aside ==
  /\ UNCHANGED <<SamplesPlayed, frameSize, end, fault, encoded, inside>>
  /\ \A t \in Threads : pc[t] = "write" <=> pc'[t] = "write"
  /\ \A t \in Threads : pc[t] = "write" => ptr'[t] = ptr[t]
  /\ careless => careless'
  /\ UNCHANGED BufferLock \/ \E b \in Buffers : BufferLock[b] = None /\ BufferLock' = [BufferLock EXCEPT ![b] = "lost"]

LEMMA OtherIs ==
  ASSUME TypeOK, CallInv, LockInv, Other
  PROVE  ~fault /\ Aside
<1> USE DEF Threads, At, Call, cursors, threads, history, TypeOK, Aside
<1>1. CASE Present
  BY <1>1 DEF Present, nextFrameTiming
<1>2. CASE Hammer
  BY <1>2 DEF Hammer, nextFrameTiming
<1>3. ASSUME NEW t \in Threads, nextFrameSound(t) PROVE ~fault /\ Aside
  BY <1>3 DEF nextFrameSound, AfterFrame
<1>4. ASSUME NEW b \in Buffers, GetCurrentPosition(b) PROVE ~fault /\ Aside
  BY <1>4 DEF GetCurrentPosition, ReportPosition
<1>5. CASE Resume
  BY <1>5 DEF Resume, ReportPosition
<1>6. CASE SetFirstFrame
  BY <1>6 DEF SetFirstFrame
<1>7. ASSUME NEW b \in Buffers, LockOutOfRange(b) PROVE ~fault /\ Aside
  <2>1. BufferLock[b] = None
    <3>1. BufferLock[b] # "sound"
      BY <1>7 DEF LockOutOfRange, LockInv, Writes
    <3> QED
      BY <1>7, <3>1 DEF LockOutOfRange, CanEnter
  <2> QED
    BY <1>7, <2>1 DEF LockOutOfRange
<1>8. ASSUME NEW b \in Buffers, Play(b) PROVE ~fault /\ Aside
  BY <1>8 DEF Play
<1>9. ASSUME NEW b \in Buffers, Stop(b) PROVE ~fault /\ Aside
  BY <1>9 DEF Stop
<1>10. ASSUME NEW b \in Buffers, AddRef(b) \/ Release(b) PROVE ~fault /\ Aside
  BY <1>10 DEF AddRef, Release
<1>11. ASSUME NEW b \in Buffers, SetCurrentPosition(b, Bytes - 1) PROVE ~fault /\ Aside
  BY <1>11 DEF SetCurrentPosition
<1>12. ASSUME NEW b \in Buffers, NEW f \in Frequencies, SetFrequency(b, f) PROVE ~fault /\ Aside
  BY <1>12 DEF SetFrequency
<1> QED
  BY <1>1, <1>2, <1>3, <1>4, <1>5, <1>6, <1>7, <1>8, <1>9, <1>10, <1>11, <1>12 DEF Other, Poll

LEMMA LockKept == TypeOK /\ CallInv /\ LockInv /\ Next => LockInv'
<1> SUFFICES ASSUME TypeOK, CallInv, LockInv, Next PROVE LockInv'
  OBVIOUS
<1> USE Constants DEF Writes
<1>1. CASE Other
  <2>1. Aside
    BY <1>1, OtherIs
  <2>2. \A t \in Threads, b \in Buffers : Writes(t, b)' <=> Writes(t, b)
    BY <2>1 DEF Aside
  <2>3. \A b \in Buffers, t \in Threads : BufferLock'[b] = t <=> BufferLock[b] = t
    BY <2>1 DEF Aside, TypeOK, Threads
  <2> QED
    BY <2>1, <2>2, <2>3 DEF Aside, LockInv
<1>2. ASSUME NEW t \in Threads, EncodeBegin(t) PROVE LockInv'
  <2>1. PICK b \in {ptr[t], playBuffer} :
           /\ pc[t] = "encode" /\ ptr'[t] = b
           /\ \A u \in Threads : u # t => ptr'[u] = ptr[u] /\ pc'[u] = pc[u]
           /\ \/ UNCHANGED <<BufferLock, pc, frameSize>>
              \/ /\ b \in Buffers /\ CanEnter(b, t) /\ pc'[t] = "write"
                 /\ BufferLock' = [BufferLock EXCEPT ![b] = t]
                 /\ frameSize' = [frameSize EXCEPT ![b] = NextFrameSize(b)]
    BY <1>2, EncodeBeginIs
  <2>2. CASE UNCHANGED <<BufferLock, pc, frameSize>>
    <3>1. \A u \in Threads, o \in Buffers : Writes(u, o)' <=> Writes(u, o)
      BY <2>1, <2>2
    <3> QED
      BY <2>2, <3>1, <2>1 DEF LockInv
  <2>3. CASE /\ b \in Buffers /\ CanEnter(b, t) /\ pc'[t] = "write"
             /\ BufferLock' = [BufferLock EXCEPT ![b] = t]
             /\ frameSize' = [frameSize EXCEPT ![b] = NextFrameSize(b)]
    <3>1. \A u \in Threads : BufferLock[b] # u
      BY <2>1, <2>3 DEF CanEnter, LockInv, Threads
    <3>2. BufferLock'[b] = t /\ \A o \in Buffers : o # b => BufferLock'[o] = BufferLock[o] /\ frameSize'[o] = frameSize[o]
      BY <2>3 DEF TypeOK
    <3>3. \A u \in Threads, o \in Buffers : o # b => (Writes(u, o)' <=> Writes(u, o))
      BY <2>1, <2>3
    <3>4. \A u \in Threads : Writes(u, b)' <=> u = t
      BY <2>1, <2>3, <3>1 DEF LockInv
    <3>5. \A u \in Threads : pc'[u] = "write" => ptr'[u] \in Buffers /\ BufferLock'[ptr'[u]] = u
      BY <2>1, <2>3, <3>1, <3>2 DEF LockInv
    <3>6. \A o \in Buffers, u \in Threads : BufferLock'[o] = u => Writes(u, o)'
      BY <3>2, <3>3, <3>4 DEF LockInv
    <3>7. \A o \in Buffers : (\A u \in Threads : ~Writes(u, o)') => frameSize'[o] = 0
      BY <3>2, <3>3, <3>4 DEF LockInv
    <3> QED
      BY <3>5, <3>6, <3>7 DEF LockInv
  <2> QED
    BY <2>1, <2>2, <2>3
<1>3. ASSUME NEW t \in Threads, EncodeWrite(t) PROVE LockInv'
  <2> DEFINE b == ptr[t]
  <2>1. /\ pc[t] = "write" /\ b \in Buffers
        /\ BufferLock' = [BufferLock EXCEPT ![b] = None] /\ frameSize' = [frameSize EXCEPT ![b] = 0]
        /\ ptr'[t] = None /\ pc'[t] = AfterFrame(t)
        /\ \A u \in Threads : u # t => ptr'[u] = ptr[u] /\ pc'[u] = pc[u]
    BY <1>3, EncodeWriteIs
  <2>2. BufferLock[b] = t /\ pc'[t] # "write"
    BY <2>1 DEF LockInv, AfterFrame
  <2> HIDE DEF b
  <2>3. /\ BufferLock'[b] = None /\ frameSize'[b] = 0
        /\ \A o \in Buffers : o # b => BufferLock'[o] = BufferLock[o] /\ frameSize'[o] = frameSize[o]
    BY <2>1 DEF TypeOK
  <2>4. \A u \in Threads, o \in Buffers : o # b => (Writes(u, o)' <=> Writes(u, o))
    BY <2>1, <2>2 DEF b
  <2>5. \A u \in Threads : pc'[u] = "write" => u # t /\ ptr'[u] # b
    BY <2>1, <2>2 DEF LockInv
  <2>6. \A u \in Threads : pc'[u] = "write" => ptr'[u] \in Buffers /\ BufferLock'[ptr'[u]] = u
    BY <2>1, <2>3, <2>5 DEF LockInv
  <2>7. \A o \in Buffers, u \in Threads : BufferLock'[o] = u => Writes(u, o)'
    BY <2>3, <2>4 DEF LockInv
  <2>8. \A o \in Buffers : (\A u \in Threads : ~Writes(u, o)') => frameSize'[o] = 0
    BY <2>3, <2>4 DEF LockInv
  <2> QED
    BY <2>6, <2>7, <2>8 DEF LockInv
<1> QED
  BY <1>1, <1>2, <1>3, NextIs

-----------------------------------------------------------------------------
(* What is read. *)

\* Nobody moves the cursor of a buffer between the sizes of a frame and its writes.
LEMMA CursorStays ==
  ASSUME TypeOK, CallInv, LockInv, Other, ~careless', NEW t \in Threads, pc[t] = "write"
  PROVE  PlayCursor'[ptr[t]] = PlayCursor[ptr[t]]
<1> USE DEF At, Call, cursors, threads, history
<1>1. ptr[t] \in Buffers /\ BufferLock[ptr[t]] = t /\ InUse(ptr[t])
  BY DEF LockInv, InUse
<1>2. ASSUME NEW b \in Buffers, CanEnter(b, "sound"), pc["sound"] # "write"
      PROVE  b # ptr[t]
  <2>1. t = "main" /\ None # "main"
    BY <1>2, Constants DEF Threads
  <2> QED
    BY <1>1, <1>2, <2>1 DEF CanEnter
<1>3. CASE Present \/ Hammer \/ \E u \in Threads : nextFrameSound(u)
  BY <1>3 DEF Present, Hammer, nextFrameTiming, nextFrameSound
<1>4. CASE SetFirstFrame \/ \E b \in Buffers : LockOutOfRange(b) \/ Play(b) \/ Stop(b) \/ AddRef(b) \/ Release(b)
  BY <1>4 DEF SetFirstFrame, LockOutOfRange, Play, Stop, AddRef, Release
<1>5. ASSUME NEW b \in Buffers, GetCurrentPosition(b) PROVE PlayCursor'[ptr[t]] = PlayCursor[ptr[t]]
  <2>1. CASE SkipSilence(b)
    BY <1>1, <1>2, <1>5, <2>1, SkipType DEF GetCurrentPosition
  <2>2. CASE ~SkipSilence(b)
    BY <1>5, <2>2 DEF GetCurrentPosition, ReportPosition
  <2> QED
    BY <2>1, <2>2
<1>6. CASE Resume
  <2>1. subject \in Buffers /\ CanEnter(subject, "sound") /\ pc["sound"] = "resume" /\ SkipSilence(subject)
    BY <1>6 DEF Resume, ReportPosition, CallInv
  <2> QED
    BY <1>1, <1>2, <2>1, SkipType
<1>7. ASSUME NEW b \in Buffers, SetCurrentPosition(b, Bytes - 1) PROVE PlayCursor'[ptr[t]] = PlayCursor[ptr[t]]
  <2>1. b # ptr[t]
    BY <1>1, <1>7 DEF SetCurrentPosition
  <2> QED
    BY <1>1, <1>7, <2>1 DEF SetCurrentPosition, TypeOK
<1>8. ASSUME NEW b \in Buffers, NEW f \in Frequencies, SetFrequency(b, f) PROVE PlayCursor'[ptr[t]] = PlayCursor[ptr[t]]
  BY <1>8 DEF SetFrequency
<1> QED
  BY <1>3, <1>4, <1>5, <1>6, <1>7, <1>8 DEF Other, Poll

\* What the writes of a frame read is inside the buffer.
LEMMA StretchesInside ==
  ASSUME TypeOK, NEW b \in Buffers,
         end[b] = PlayCursor[b] + (IF frameSize[b] > Bytes THEN Bytes ELSE frameSize[b])
  PROVE  /\ \A s \in Stretches(b) : s[1] <= s[2] /\ s[2] <= Bytes
         /\ PlayCursor[b] <= end[b]
<1>1. PlayCursor[b] \in 0..Bytes-1 /\ frameSize[b] \in Nat /\ Bytes \in Nat
  BY Constants DEF TypeOK, DWord
<1>2. CASE end[b] > Bytes
  <2>1. PlayCursor[b] <= Bytes /\ Bytes <= Bytes /\ 0 <= end[b] - Bytes /\ end[b] - Bytes <= Bytes
    BY <1>1, <1>2
  <2> QED
    BY <1>1, <1>2, <2>1 DEF Stretches
<1>3. CASE ~(end[b] > Bytes)
  <2>1. PlayCursor[b] <= end[b] /\ end[b] <= Bytes
    BY <1>1, <1>3
  <2> QED
    BY <1>3, <2>1 DEF Stretches
<1> QED
  BY <1>1, <1>2, <1>3

LEMMA ReadKept == TypeOK /\ CallInv /\ LockInv /\ ReadInv /\ Next => ReadInv'
<1> SUFFICES ASSUME TypeOK, CallInv, LockInv, ReadInv, Next, ~careless'
             PROVE  /\ inside'
                    /\ \A t \in Threads : pc'[t] = "write" =>
                         end'[ptr'[t]] = PlayCursor'[ptr'[t]] + (IF frameSize'[ptr'[t]] > Bytes THEN Bytes ELSE frameSize'[ptr'[t]])
  BY DEF ReadInv
<1>1. CASE Other
  <2>1. Aside
    BY <1>1, OtherIs
  <2>2. \A t \in Threads : pc[t] = "write" => PlayCursor'[ptr[t]] = PlayCursor[ptr[t]]
    BY <1>1, CursorStays
  <2> QED
    BY <2>1, <2>2 DEF Aside, ReadInv
<1>2. ASSUME NEW t \in Threads, EncodeBegin(t)
      PROVE  /\ inside'
             /\ \A u \in Threads : pc'[u] = "write" =>
                  end'[ptr'[u]] = PlayCursor'[ptr'[u]] + (IF frameSize'[ptr'[u]] > Bytes THEN Bytes ELSE frameSize'[ptr'[u]])
  <2>1. PICK b \in {ptr[t], playBuffer} :
           /\ pc[t] = "encode" /\ ptr'[t] = b
           /\ \A u \in Threads : u # t => ptr'[u] = ptr[u] /\ pc'[u] = pc[u]
           /\ UNCHANGED <<PlayCursor, careless, inside>>
           /\ \/ UNCHANGED <<BufferLock, pc, frameSize, end>>
              \/ /\ b \in Buffers /\ CanEnter(b, t) /\ pc'[t] = "write"
                 /\ frameSize' = [frameSize EXCEPT ![b] = NextFrameSize(b)]
                 /\ end' = [end EXCEPT ![b] = EndOfFrame(b, NextFrameSize(b))]
    BY <1>2, EncodeBeginIs DEF cursors
  <2>2. CASE UNCHANGED <<BufferLock, pc, frameSize, end>>
    BY <2>1, <2>2 DEF ReadInv
  <2>3. CASE /\ b \in Buffers /\ CanEnter(b, t) /\ pc'[t] = "write"
             /\ frameSize' = [frameSize EXCEPT ![b] = NextFrameSize(b)]
             /\ end' = [end EXCEPT ![b] = EndOfFrame(b, NextFrameSize(b))]
    <3>1. frameSize'[b] = NextFrameSize(b) /\ end'[b] = EndOfFrame(b, NextFrameSize(b))
          /\ \A o \in Buffers : o # b => frameSize'[o] = frameSize[o] /\ end'[o] = end[o]
      BY <2>3 DEF TypeOK
    <3>2. ASSUME NEW u \in Threads, u # t, pc[u] = "write" PROVE ptr[u] \in Buffers /\ ptr[u] # b
      <4>1. ptr[u] \in Buffers /\ BufferLock[ptr[u]] = u
        BY <3>2 DEF LockInv
      <4> QED
        BY <2>3, <3>2, <4>1, Constants DEF CanEnter
    <3>3. \A u \in Threads : u # t /\ pc'[u] = "write" =>
            end'[ptr'[u]] = PlayCursor'[ptr'[u]] + (IF frameSize'[ptr'[u]] > Bytes THEN Bytes ELSE frameSize'[ptr'[u]])
      BY <2>1, <3>1, <3>2 DEF ReadInv
    <3>4. end'[b] = PlayCursor'[b] + (IF frameSize'[b] > Bytes THEN Bytes ELSE frameSize'[b])
      BY <2>1, <3>1 DEF EndOfFrame
    <3> QED
      BY <2>1, <3>3, <3>4 DEF ReadInv
  <2> QED
    BY <2>1, <2>2, <2>3
<1>3. ASSUME NEW t \in Threads, EncodeWrite(t)
      PROVE  /\ inside'
             /\ \A u \in Threads : pc'[u] = "write" =>
                  end'[ptr'[u]] = PlayCursor'[ptr'[u]] + (IF frameSize'[ptr'[u]] > Bytes THEN Bytes ELSE frameSize'[ptr'[u]])
  <2> DEFINE b == ptr[t]
  <2>1. /\ pc[t] = "write" /\ b \in Buffers
        /\ inside' = (inside /\ \A s \in Stretches(b) : s[1] <= s[2] /\ s[2] <= Bytes)
        /\ PlayCursor' = [PlayCursor EXCEPT ![b] = end[b] % Bytes]
        /\ frameSize' = [frameSize EXCEPT ![b] = 0] /\ end' = [end EXCEPT ![b] = 0]
        /\ pc'[t] = AfterFrame(t) /\ careless' = careless
        /\ \A u \in Threads : u # t => ptr'[u] = ptr[u] /\ pc'[u] = pc[u]
    BY <1>3, EncodeWriteIs
  <2>2. inside /\ end[b] = PlayCursor[b] + (IF frameSize[b] > Bytes THEN Bytes ELSE frameSize[b])
    BY <2>1 DEF ReadInv
  <2>3. \A s \in Stretches(b) : s[1] <= s[2] /\ s[2] <= Bytes
    BY <2>1, <2>2, StretchesInside
  <2>4. inside'
    BY <2>1, <2>2, <2>3
  <2>5. \A o \in Buffers : o # b => PlayCursor'[o] = PlayCursor[o] /\ frameSize'[o] = frameSize[o] /\ end'[o] = end[o]
    BY <2>1 DEF TypeOK
  <2>6. \A u \in Threads : pc'[u] = "write" => u # t /\ pc[u] = "write" /\ ptr[u] \in Buffers /\ ptr[u] # b
    BY <2>1 DEF AfterFrame, LockInv
  <2> HIDE DEF b
  <2>7. \A u \in Threads : pc'[u] = "write" =>
          end'[ptr'[u]] = PlayCursor'[ptr'[u]] + (IF frameSize'[ptr'[u]] > Bytes THEN Bytes ELSE frameSize'[ptr'[u]])
    BY <2>1, <2>5, <2>6 DEF ReadInv
  <2> QED
    BY <2>4, <2>7
<1> QED
  BY <1>1, <1>2, <1>3, NextIs

-----------------------------------------------------------------------------
(* Which buffer the frames are about. *)

LEMMA PointerKept == TypeOK /\ CallInv /\ LockInv /\ PointerInv /\ Next => PointerInv'
<1> SUFFICES ASSUME TypeOK, CallInv, LockInv, PointerInv, Next PROVE PointerInv'
  OBVIOUS
<1> USE Constants DEF At, Call, cursors, threads, history, Threads
<1>0. /\ frame \in Nat /\ FirstFrame \in [Buffers -> Nat] /\ playBuffer \in Buffers \union {None}
      /\ DOMAIN pc = Threads /\ DOMAIN ptr = Threads
  BY DEF TypeOK, DWord
<1>1. CASE Present
  BY <1>0, <1>1 DEF Present, nextFrameTiming, PointerInv
<1>2. CASE Hammer
  BY <1>0, <1>2 DEF Hammer, nextFrameTiming, PointerInv
<1>3. ASSUME NEW t \in Threads, nextFrameSound(t) PROVE PointerInv'
  BY <1>0, <1>3 DEF nextFrameSound, AfterFrame, PointerInv
<1>4. ASSUME NEW b \in Buffers, GetCurrentPosition(b) PROVE PointerInv'
  BY <1>0, <1>4 DEF GetCurrentPosition, ReportPosition, PointerInv
<1>5. CASE Resume
  BY <1>0, <1>5 DEF Resume, ReportPosition, PointerInv
<1>6. CASE SetFirstFrame
  <2>1. /\ playBuffer = subject /\ pc' = [pc EXCEPT !["sound"] = "idle"] /\ pc["sound"] = "first"
        /\ FirstFrame' = [FirstFrame EXCEPT ![subject] = frame] /\ careless' = (careless \/ InUse(subject))
        /\ UNCHANGED <<playBuffer, frame, ptr, subject, fault>>
    BY <1>6 DEF SetFirstFrame, PointerInv
  <2>2. playBuffer # None => FirstFrame'[playBuffer] = frame
    BY <1>0, <2>1
  <2>3. ~careless' => \A t \in Threads : pc[t] # "encode"
    BY <2>1 DEF InUse
  <2>4. pc'["sound"] = "idle" /\ \A t \in Threads : t # "sound" => pc'[t] = pc[t]
    BY <1>0, <2>1
  <2> QED
    BY <1>0, <2>1, <2>2, <2>3, <2>4 DEF PointerInv
<1>7. ASSUME NEW b \in Buffers, Play(b) PROVE PointerInv'
  BY <1>0, <1>7 DEF Play, PointerInv
<1>8. ASSUME NEW b \in Buffers, Stop(b) PROVE PointerInv'
  <2>1. /\ pc["sound"] = "idle" /\ playBuffer' = IF playBuffer = b THEN None ELSE playBuffer
        /\ careless' = (careless \/ InUse(b))
        /\ UNCHANGED <<frame, FirstFrame, pc, ptr, subject, fault>>
    BY <1>8 DEF Stop
  <2>2. CASE playBuffer = b
    <3>1. ~careless' => ~careless /\ \A t \in Threads : pc[t] # "encode"
      BY <2>1, <2>2 DEF InUse
    <3> QED
      BY <2>1, <2>2, <3>1 DEF PointerInv
  <2>3. CASE playBuffer # b
    BY <2>1, <2>3 DEF PointerInv
  <2> QED
    BY <2>2, <2>3
<1>9. ASSUME NEW b \in Buffers, LockOutOfRange(b) \/ AddRef(b) \/ Release(b) PROVE PointerInv'
  BY <1>0, <1>9 DEF LockOutOfRange, AddRef, Release, PointerInv
<1>10. ASSUME NEW b \in Buffers, SetCurrentPosition(b, Bytes - 1) PROVE PointerInv'
  BY <1>0, <1>10 DEF SetCurrentPosition, PointerInv
<1>11. ASSUME NEW b \in Buffers, NEW f \in Frequencies, SetFrequency(b, f) PROVE PointerInv'
  BY <1>0, <1>11 DEF SetFrequency, PointerInv
<1>12. ASSUME NEW t \in Threads, EncodeBegin(t) PROVE PointerInv'
  <2>1. PICK b \in {ptr[t], playBuffer} :
           /\ pc[t] = "encode" /\ ~fault /\ ptr'[t] = b
           /\ \A u \in Threads : u # t => ptr'[u] = ptr[u] /\ pc'[u] = pc[u]
           /\ UNCHANGED <<playBuffer, frame, FirstFrame, subject, careless>>
           /\ \/ pc' = pc /\ fault'
              \/ pc'[t] = "write"
    BY <1>12, EncodeBeginIs
  <2> QED
    BY <2>1 DEF PointerInv
<1>13. ASSUME NEW t \in Threads, EncodeWrite(t) PROVE PointerInv'
  <2>1. /\ pc[t] = "write" /\ pc'[t] = AfterFrame(t)
        /\ \A u \in Threads : u # t => ptr'[u] = ptr[u] /\ pc'[u] = pc[u]
        /\ UNCHANGED <<playBuffer, frame, FirstFrame, subject, careless, fault>>
    BY <1>13, EncodeWriteIs
  <2> QED
    BY <2>1 DEF PointerInv, AfterFrame
<1> QED
  BY <1>1, <1>2, <1>3, <1>4, <1>5, <1>6, <1>7, <1>8, <1>9, <1>10, <1>11, <1>12, <1>13 DEF Next, Step, Poll

LEMMA BaseStart == Init => BaseInv
<1> SUFFICES ASSUME Init PROVE BaseInv
  OBVIOUS
<1> USE Constants DEF Init
<1>1. TypeOK
  <2>1. FirstFrame \in [Buffers -> DWord]
    BY DEF DWord
  <2>2. 0 \in DWord /\ 0 \in 0..Bytes-1 /\ 0 \in 0..MaxFrames+1 /\ 0 \in 0..MaxCalls /\ 1 \in 0..MaxCalls+1
        /\ 0 \in 0..MaxGetPosition-1
    BY DEF DWord
  <2> HIDE DEF DWord
  <2> QED
    BY <2>1, <2>2 DEF TypeOK
<1>2. CallInv /\ LockInv /\ ReadInv /\ PointerInv
  BY DEF CallInv, LockInv, ReadInv, PointerInv, Threads, Writes
<1> QED
  BY <1>1, <1>2 DEF BaseInv

LEMMA BaseKept == BaseInv /\ [Next]_vars => BaseInv'
<1>1. BaseInv /\ Next => BaseInv'
  BY TypesKept, LockKept, ReadKept, PointerKept DEF BaseInv
<1>2. BaseInv /\ UNCHANGED vars => BaseInv'
  BY DEF BaseInv, vars, cursors, threads, history, TypeOK, CallInv, LockInv, Writes, ReadInv, PointerInv
<1> QED
  BY <1>1, <1>2

\* Types, locks and pointers are as they should be, for any number of buffers.
THEOREM BaseInvariant == Spec => []BaseInv
<1>1. Init => BaseInv
  BY BaseStart
<1>2. BaseInv /\ [Next]_vars => BaseInv'
  BY BaseKept
<1> QED
  BY <1>1, <1>2, PTL DEF Spec

\* The encoder is handed memory of the buffer only, whatever FirstFrame held before
\* Play and however the differences of DWORDs wrap.
THEOREM ReadsAreInside == FairSpec => []ReadsInside
<1>1. Spec => []BaseInv
  BY BaseInvariant
<1>2. BaseInv => ReadsInside
  BY DEF BaseInv, ReadInv, ReadsInside
<1> QED
  BY <1>1, <1>2, PTL DEF FairSpec

-----------------------------------------------------------------------------
(* What a frame finds. *)

\* The capture is short enough for the position of a buffer to be a DWORD.
FramesFit == \A f \in Frequencies : SamplesIn(MaxFrames + 1, f) < DWordRange

\* More frames have more samples.
LEMMA SamplesGrow ==
  ASSUME NEW n \in Nat, NEW m \in Nat, n <= m, NEW f \in Nat
  PROVE  SamplesIn(n, f) <= SamplesIn(m, f)
<1>1. n * f \in Nat /\ m * f \in Nat /\ n * f <= m * f
  <2>1. m = n + (m - n) /\ m - n \in Nat
    OBVIOUS
  <2>2. (n + (m - n)) * f = n * f + (m - n) * f /\ (m - n) * f \in Nat /\ n * f \in Nat
    BY <2>1
  <2> QED
    BY <2>1, <2>2
<1> DEFINE x == n * f
           y == m * f
<1> HIDE DEF x, y
<1>2. x \div FrameRate <= y \div FrameRate
  BY <1>1, Constants DEF x, y
<1> QED
  BY <1>2 DEF SamplesIn, x, y

\* The position of a buffer that has its FirstFrame.
LEMMA PositionFits ==
  ASSUME FramesFit, TypeOK, NEW b \in Buffers, FirstFrame[b] <= frame
  PROVE  /\ (frame - FirstFrame[b]) % DWordRange = frame - FirstFrame[b] /\ frame - FirstFrame[b] \in Nat
         /\ SamplesIn(frame - FirstFrame[b], Frequency[b]) \in Nat
         /\ SamplesIn(frame - FirstFrame[b], Frequency[b]) < DWordRange
         /\ ~Overflows(b)
<1>1. /\ frame \in Nat /\ frame <= MaxFrames + 1 /\ FirstFrame[b] \in Nat
      /\ Frequency[b] \in Frequencies /\ Frequency[b] \in Nat /\ MaxFrames + 1 \in Nat
  <2>1. frame \in 0..MaxFrames+1 /\ FirstFrame[b] \in DWord /\ Frequency[b] \in Frequencies
    BY DEF TypeOK
  <2>2. Frequency[b] \in Nat
    BY <2>1, Constants
  <2>3. FirstFrame[b] \in Nat /\ MaxFrames + 1 \in Nat
    BY <2>1, Constants DEF DWord
  <2>4. frame \in Nat /\ frame <= MaxFrames + 1
    BY <2>1, <2>3
  <2> QED
    BY <2>1, <2>2, <2>3, <2>4
<1> DEFINE n == frame - FirstFrame[b]
<1>2. n \in Nat /\ n <= MaxFrames + 1 /\ n < DWordRange /\ n % DWordRange = n
  BY <1>1, Constants
<1> HIDE DEF n
<1>3. SamplesIn(n, Frequency[b]) \in Nat /\ SamplesIn(n, Frequency[b]) < DWordRange
  <2>1. SamplesIn(n, Frequency[b]) <= SamplesIn(MaxFrames + 1, Frequency[b])
    BY <1>1, <1>2, SamplesGrow
  <2>2. SamplesIn(MaxFrames + 1, Frequency[b]) < DWordRange
    BY <1>1 DEF FramesFit
  <2>3. SamplesIn(n, Frequency[b]) \in Nat /\ SamplesIn(MaxFrames + 1, Frequency[b]) \in Nat
    BY <1>1, <1>2, SamplesType
  <2> QED
    BY <2>1, <2>2, <2>3, Constants
<1>4. ~Overflows(b)
  <2>1. Overflows(b) <=> SamplesIn(n, Frequency[b]) >= DWordRange
    BY <1>2 DEF Overflows, n
  <2> QED
    BY <1>3, <2>1, Constants
<1> QED
  BY <1>2, <1>3, <1>4 DEF n

LEMMA HandKept == FramesFit /\ BaseInv /\ HandInv /\ Next => HandInv'
<1> SUFFICES ASSUME FramesFit, BaseInv, HandInv, Next, ~careless', ~dropped'
             PROVE  /\ playBuffer' # None => playBuffer' \in Alive' /\ Playing'[playBuffer']
                    /\ \A t \in Threads : pc'[t] = "encode" => ptr'[t] \in Alive' /\ playBuffer' \in Alive'
                    /\ fault' => pc'["sound"] = "first"
  BY DEF HandInv
<1> USE DEF At, Call, cursors, threads, history, Threads, Alive
<1>0. /\ TypeOK /\ CallInv /\ LockInv /\ PointerInv /\ playBuffer \in Buffers \union {None}
      /\ DOMAIN pc = Threads /\ DOMAIN ptr = Threads /\ DOMAIN Playing = Buffers
      /\ RefCount \in [Buffers -> Nat] /\ None \notin Buffers
  BY Constants DEF BaseInv, TypeOK
<1> DEFINE Goal == /\ playBuffer' # None => playBuffer' \in Alive' /\ Playing'[playBuffer']
                   /\ \A t \in Threads : pc'[t] = "encode" => ptr'[t] \in Alive' /\ playBuffer' \in Alive'
                   /\ fault' => pc'["sound"] = "first"
<1>1. CASE Present
  BY <1>0, <1>1 DEF Present, nextFrameTiming, HandInv
<1>2. CASE Hammer
  BY <1>0, <1>2 DEF Hammer, nextFrameTiming, HandInv
<1>3. ASSUME NEW t \in Threads, nextFrameSound(t) PROVE Goal
  BY <1>0, <1>3 DEF nextFrameSound, AfterFrame, HandInv
<1>4. ASSUME NEW b \in Buffers, GetCurrentPosition(b) PROVE Goal
  BY <1>0, <1>4 DEF GetCurrentPosition, ReportPosition, HandInv
<1>5. CASE Resume
  BY <1>0, <1>5 DEF Resume, ReportPosition, HandInv
<1>6. CASE SetFirstFrame
  BY <1>0, <1>6 DEF SetFirstFrame, HandInv
<1>7. ASSUME NEW b \in Buffers, Play(b) PROVE Goal
  BY <1>0, <1>7 DEF Play, HandInv
<1>8. ASSUME NEW b \in Buffers, Stop(b) PROVE Goal
  BY <1>0, <1>8 DEF Stop, HandInv, InUse
<1>9. ASSUME NEW b \in Buffers, LockOutOfRange(b) \/ AddRef(b) PROVE Goal
  BY <1>0, <1>9 DEF LockOutOfRange, AddRef, HandInv
<1>10. ASSUME NEW b \in Buffers, SetCurrentPosition(b, Bytes - 1) PROVE Goal
  BY <1>0, <1>10 DEF SetCurrentPosition, HandInv
<1>11. ASSUME NEW b \in Buffers, NEW f \in Frequencies, SetFrequency(b, f) PROVE Goal
  BY <1>0, <1>11 DEF SetFrequency, HandInv
<1>12. ASSUME NEW b \in Buffers, Release(b) PROVE Goal
  <2>1. /\ ~careless /\ ~dropped /\ RefCount' = [RefCount EXCEPT ![b] = @ - 1] /\ RefCount[b] > 0
        /\ RefCount'[b] = 0 => ~Playing[b] /\ ~InUse(b)
        /\ UNCHANGED <<playBuffer, Playing, pc, ptr, fault>> /\ ~fault
    BY <1>12 DEF Release
  <2>2. \A o \in Alive : o # b \/ (~(RefCount'[b] = 0)) => o \in Alive'
    BY <1>0, <2>1
  <2> QED
    BY <1>0, <2>1, <2>2 DEF HandInv, InUse
<1>13. ASSUME NEW t \in Threads, EncodeBegin(t) PROVE Goal
  <2>1. PICK b \in {ptr[t], playBuffer} :
           /\ pc[t] = "encode" /\ ~fault /\ ptr'[t] = b
           /\ \A u \in Threads : u # t => ptr'[u] = ptr[u] /\ pc'[u] = pc[u]
           /\ UNCHANGED <<playBuffer, frame, FirstFrame, Playing, RefCount, careless, dropped>>
           /\ \/ b \notin Alive
              \/ pc'[t] = "write" /\ fault' = Overflows(b)
    BY <1>0, <1>13, EncodeBeginIs
  <2>2. b \in Alive /\ b \in Buffers /\ ptr[t] \in Alive /\ playBuffer \in Alive
    BY <2>1 DEF HandInv
  <2>3. pc["sound"] # "first" => ~Overflows(b)
    <3> SUFFICES ASSUME pc["sound"] # "first" PROVE ~Overflows(b)
      OBVIOUS
    <3>1. b = playBuffer /\ FirstFrame[b] <= frame
      BY <1>0, <2>1, <2>2 DEF PointerInv
    <3> QED
      BY <1>0, <2>2, <3>1, PositionFits
  <2>4. fault' => pc'["sound"] = "first"
    BY <2>1, <2>2, <2>3
  <2> QED
    BY <2>1, <2>2, <2>4 DEF HandInv
<1>14. ASSUME NEW t \in Threads, EncodeWrite(t) PROVE Goal
  <2>1. /\ pc[t] = "write" /\ pc'[t] = AfterFrame(t) /\ ~fault
        /\ \A u \in Threads : u # t => ptr'[u] = ptr[u] /\ pc'[u] = pc[u]
        /\ UNCHANGED <<playBuffer, Playing, RefCount, careless, dropped, fault>>
    BY <1>0, <1>14, EncodeWriteIs
  <2> QED
    BY <2>1 DEF HandInv, AfterFrame
<1> QED
  BY <1>1, <1>2, <1>3, <1>4, <1>5, <1>6, <1>7, <1>8, <1>9, <1>10, <1>11, <1>12, <1>13, <1>14 DEF Next, Step, Poll

\* A frame finds its buffer alive and its size within 32 bits, unless the program
\* deleted the buffer while it played, called in the middle of a frame, or was in Play.
THEOREM BuffersAreAtHand ==
  ASSUME FramesFit
  PROVE  FairSpec => []BuffersAtHand
<1>1. Spec => []BaseInv
  BY BaseInvariant
<1>2. Init => HandInv
  BY DEF Init, HandInv, Threads
<1>3. BaseInv /\ HandInv /\ [Next]_vars => HandInv'
  <2>1. BaseInv /\ HandInv /\ Next => HandInv'
    BY HandKept
  <2>2. HandInv /\ UNCHANGED vars => HandInv'
    BY DEF HandInv, vars, cursors, threads, history, Alive
  <2> QED
    BY <2>1, <2>2
<1>4. HandInv => BuffersAtHand
  BY DEF HandInv, BuffersAtHand
<1> QED
  BY <1>1, <1>2, <1>3, <1>4, PTL DEF Spec, FairSpec

-----------------------------------------------------------------------------
(* Sound and frames. *)

\* Two frames are less than a buffer.
FrameInBuffer == \A f \in Frequencies : SamplesIn(2, f) < Bytes

\* Samples of frames add up, but for a rounding.
LEMMA SamplesAdd ==
  ASSUME NEW n \in Nat, NEW k \in Nat, NEW f \in Nat
  PROVE  SamplesIn(n + k, f) <= SamplesIn(n, f) + SamplesIn(k, f) + 1
<1> DEFINE x == n * f
           y == k * f
           d == FrameRate
<1>1. x \in Nat /\ y \in Nat /\ d \in Nat /\ d > 0
  BY Constants
<1>2. (n + k) * f = x + y
  OBVIOUS
<1>3. /\ SamplesIn(n + k, f) = (x + y) \div d /\ SamplesIn(n, f) = x \div d /\ SamplesIn(k, f) = y \div d
  BY <1>2 DEF SamplesIn
<1> HIDE DEF x, y, d
<1> DEFINE p == x \div d
           q == y \div d
           r == (x + y) \div d
<1>4. p \in Nat /\ x < d * p + d
  BY <1>1
<1>5. q \in Nat /\ y < d * q + d
  BY <1>1
<1>6. r \in Nat /\ d * r <= x + y
  BY <1>1
<1> HIDE DEF p, q, r
<1>7. r < p + q + 2
  <2>1. d * r < d * p + d * q + 2 * d
    <3>1. d * p \in Nat /\ d * q \in Nat /\ d * r \in Nat
      BY <1>1, <1>4, <1>5, <1>6
    <3> QED
      BY <1>1, <1>4, <1>5, <1>6, <3>1
  <2>2. d * p + d * q + 2 * d = d * (p + q + 2)
    BY <1>1, <1>4, <1>5
  <2>3. d * r < d * (p + q + 2)
    BY <2>1, <2>2
  <2> DEFINE e == p + q + 2
  <2>4. e \in Nat
    BY <1>4, <1>5
  <2> HIDE DEF e
  <2>5. CASE r >= e
    <3>1. r = e + (r - e) /\ r - e \in Nat
      BY <2>4, <2>5, <1>6
    <3>2. d * r = d * e + d * (r - e) /\ d * (r - e) \in Nat /\ d * e \in Nat
      BY <3>1, <2>4, <1>1
    <3>3. d * r < d * e
      BY <2>3 DEF e
    <3> QED
      BY <3>2, <3>3
  <2>6. CASE r < e
    BY <2>6 DEF e
  <2> QED
    BY <2>4, <2>5, <2>6, <1>6
<1> QED
  BY <1>3, <1>4, <1>5, <1>6, <1>7 DEF p, q, r

\* The frames two threads have begun fit into the buffer.
LEMMA LateFits ==
  ASSUME FrameInBuffer, NEW f \in Frequencies, NEW n \in Nat, NEW k \in 0..2
  PROVE  SamplesIn(n + k, f) - SamplesIn(n, f) \in 0..Bytes
<1>1. f \in Nat /\ Bytes \in Nat /\ k \in Nat /\ n + k \in Nat
  BY Constants
<1>2. SamplesIn(n, f) \in Nat /\ SamplesIn(n + k, f) \in Nat /\ SamplesIn(k, f) \in Nat /\ SamplesIn(2, f) \in Nat
  BY <1>1, SamplesType
<1>3. SamplesIn(n, f) <= SamplesIn(n + k, f) /\ SamplesIn(k, f) <= SamplesIn(2, f)
  BY <1>1, SamplesGrow
<1>4. SamplesIn(n + k, f) <= SamplesIn(n, f) + SamplesIn(k, f) + 1
  BY <1>1, SamplesAdd
<1>5. SamplesIn(2, f) < Bytes
  BY DEF FrameInBuffer
<1> QED
  BY <1>1, <1>2, <1>3, <1>4, <1>5

LEMMA LateType == ASSUME NEW b PROVE Late(b) \in 0..2
BY DEF Late

\* A buffer that is left alone is as up to date as before.
LEMMA StepSame ==
  ASSUME NEW b \in Buffers, UpToDate(b), frame' = frame, Late(b)' = Late(b),
         encoded'[b] = encoded[b], SamplesPlayed'[b] = SamplesPlayed[b], frameSize'[b] = frameSize[b],
         FirstFrame'[b] = FirstFrame[b], Frequency'[b] = Frequency[b]
  PROVE  UpToDate(b)'
<1> HIDE DEF Late
<1>1. PICK k \in 0..Late(b) :
        FirstFrame[b] + k <= frame /\ Counted(b) = SamplesIn(frame - k - FirstFrame[b], Frequency[b])
  BY DEF UpToDate
<1>2. Counted(b)' = Counted(b)
  BY DEF Counted
<1>3. /\ k \in 0..Late(b)'
      /\ FirstFrame'[b] + k <= frame' /\ Counted(b)' = SamplesIn(frame' - k - FirstFrame'[b], Frequency'[b])
  BY <1>1, <1>2 DEF SamplesIn
<1> QED
  BY <1>3 DEF UpToDate

\* Another frame begins.
LEMMA StepLater ==
  ASSUME TypeOK, NEW b \in Buffers, UpToDate(b), frame' = frame + 1, Late(b)' = Late(b) + 1,
         encoded'[b] = encoded[b], SamplesPlayed'[b] = SamplesPlayed[b], frameSize'[b] = frameSize[b],
         FirstFrame'[b] = FirstFrame[b], Frequency'[b] = Frequency[b]
  PROVE  UpToDate(b)'
<1> HIDE DEF Late
<1>1. PICK k \in 0..Late(b) :
        FirstFrame[b] + k <= frame /\ Counted(b) = SamplesIn(frame - k - FirstFrame[b], Frequency[b])
  BY DEF UpToDate
<1>2. Counted(b)' = Counted(b)
  BY DEF Counted
<1>3. frame \in Nat /\ FirstFrame[b] \in Nat /\ Late(b) \in Nat
  BY Constants, LateType DEF TypeOK, DWord
<1>4. k + 1 \in 0..Late(b)' /\ FirstFrame'[b] + (k + 1) <= frame'
      /\ frame' - (k + 1) - FirstFrame'[b] = frame - k - FirstFrame[b]
  BY <1>1, <1>3
<1>5. Counted(b)' = SamplesIn(frame' - (k + 1) - FirstFrame'[b], Frequency'[b])
  BY <1>1, <1>2, <1>4 DEF SamplesIn
<1> QED
  BY <1>4, <1>5 DEF UpToDate

\* A thread hands over the frames that are late: one, or both threads' at once.
LEMMA StepBegun ==
  ASSUME FramesFit, FrameInBuffer, TypeOK, LockInv, NEW b \in Buffers, NEW t \in Threads,
         UpToDate(b), pc[t] = "encode", CanEnter(b, t),
         UNCHANGED <<frame, cursors, encoded>>, frameSize' = [frameSize EXCEPT ![b] = NextFrameSize(b)]
  PROVE  UpToDate(b)'
<1> HIDE DEF Late
<1>0. PICK k \in 0..Late(b) :
        FirstFrame[b] + k <= frame /\ Counted(b) = SamplesIn(frame - k - FirstFrame[b], Frequency[b])
  BY DEF UpToDate
<1> DEFINE n == frame - k - FirstFrame[b]
           f == Frequency[b]
<1>1. /\ frame \in Nat /\ FirstFrame[b] \in Nat /\ f \in Frequencies /\ f \in Nat /\ SamplesPlayed[b] \in Nat
      /\ DWordRange \in Nat /\ Bytes \in Nat /\ Bytes < DWordRange
  <2>1. frame \in 0..MaxFrames+1 /\ FirstFrame[b] \in DWord /\ f \in Frequencies /\ SamplesPlayed[b] \in DWord
    BY DEF TypeOK
  <2>2. frame \in Nat /\ FirstFrame[b] \in Nat /\ SamplesPlayed[b] \in Nat
    BY <2>1, Constants DEF DWord
  <2>3. f \in Nat
    BY <2>1, Constants
  <2> QED
    BY <2>1, <2>2, <2>3, Constants
<1>2. k \in 0..2 /\ n \in Nat /\ n + k = frame - FirstFrame[b] /\ FirstFrame[b] <= frame
  BY <1>0, <1>1, LateType
<1>3. frameSize[b] = 0
  <2>1. BufferLock[b] # t
    BY DEF LockInv, Writes
  <2>2. BufferLock[b] = None
    BY <2>1 DEF CanEnter
  <2>3. \A u \in Threads : ~Writes(u, b)
    BY <2>2, Constants DEF LockInv, Writes
  <2> QED
    BY <2>3 DEF LockInv
<1>4. SamplesPlayed[b] = SamplesIn(n, f)
  BY <1>0, <1>1, <1>3 DEF Counted
<1>5. NextFrameSize(b) = (SamplesIn(n + k, f) - SamplesIn(n, f)) % DWordRange
  <2>1. (frame - FirstFrame[b]) % DWordRange = n + k
    BY <1>2, PositionFits
  <2> QED
    BY <1>4, <2>1 DEF NextFrameSize
<1> HIDE DEF n, f
<1>6. SamplesIn(n + k, f) - SamplesIn(n, f) \in 0..Bytes /\ SamplesIn(n, f) \in Nat /\ SamplesIn(n + k, f) \in Nat
  <2>1. n + k \in Nat
    BY <1>2
  <2> QED
    BY <1>1, <1>2, <2>1, LateFits, SamplesType
<1>7. NextFrameSize(b) = SamplesIn(n + k, f) - SamplesIn(n, f)
  <2> DEFINE x == SamplesIn(n + k, f) - SamplesIn(n, f)
  <2>1. x \in Nat /\ x < DWordRange
    BY <1>1, <1>6
  <2> HIDE DEF x
  <2>2. x % DWordRange = x
    BY <2>1, SmallWord
  <2> QED
    BY <1>5, <2>2 DEF x
<1>8. frameSize'[b] = SamplesIn(n + k, f) - SamplesIn(n, f)
  BY <1>7 DEF TypeOK
<1>9. encoded'[b] = SamplesPlayed'[b] /\ frameSize'[b] <= Bytes
  BY <1>1, <1>6, <1>8 DEF UpToDate, cursors
<1>10. Counted(b)' = SamplesIn(n + k, f)
  BY <1>4, <1>6, <1>8 DEF Counted, cursors
<1>11. Counted(b)' = SamplesIn(frame' - 0 - FirstFrame'[b], Frequency'[b]) /\ FirstFrame'[b] + 0 <= frame'
  <2>1. frame' - 0 - FirstFrame'[b] = n + k /\ FirstFrame'[b] + 0 <= frame'
    BY <1>1, <1>2 DEF cursors
  <2>2. Frequency'[b] = f
    BY DEF f, cursors
  <2> QED
    BY <1>10, <2>1, <2>2 DEF SamplesIn
<1>12. 0 \in 0..Late(b)'
  BY DEF Late
<1> QED
  BY <1>9, <1>11, <1>12 DEF UpToDate

\* A thread has handed over what it computed.
LEMMA StepWritten ==
  ASSUME FramesFit, BaseInv, NEW t \in Threads, EncodeWrite(t), ~careless,
         NEW b \in Buffers, ptr[t] = b, UpToDate(b)
  PROVE  UpToDate(b)'
<1> HIDE DEF Late
<1>0. PICK k \in 0..Late(b) :
        FirstFrame[b] + k <= frame /\ Counted(b) = SamplesIn(frame - k - FirstFrame[b], Frequency[b])
  BY DEF UpToDate
<1>1. /\ pc[t] = "write" /\ pc'[t] = AfterFrame(t)
      /\ encoded' = [encoded EXCEPT ![b] = @ + ((end[b] - PlayCursor[b]) % DWordRange)]
      /\ SamplesPlayed' = [SamplesPlayed EXCEPT ![b] = SamplesCounted(b)]
      /\ frameSize' = [frameSize EXCEPT ![b] = 0]
      /\ \A u \in Threads : u # t => ptr'[u] = ptr[u] /\ pc'[u] = pc[u]
      /\ UNCHANGED <<frame, FirstFrame, Frequency>>
  BY EncodeWriteIs DEF BaseInv
<1>2. /\ frame \in Nat /\ FirstFrame[b] \in Nat /\ Frequency[b] \in Frequencies /\ Frequency[b] \in Nat
      /\ SamplesPlayed[b] \in Nat /\ frameSize[b] \in Nat /\ encoded[b] \in Nat /\ PlayCursor[b] \in Nat
      /\ DWordRange \in Nat /\ Bytes \in Nat /\ Bytes < DWordRange
  <2>1. /\ frame \in 0..MaxFrames+1 /\ FirstFrame[b] \in DWord /\ Frequency[b] \in Frequencies /\ SamplesPlayed[b] \in DWord
        /\ frameSize[b] \in DWord /\ encoded[b] \in Nat /\ PlayCursor[b] \in 0..Bytes-1
    BY DEF BaseInv, TypeOK
  <2>2. frame \in Nat /\ FirstFrame[b] \in Nat /\ SamplesPlayed[b] \in Nat /\ frameSize[b] \in Nat /\ PlayCursor[b] \in Nat
    BY <2>1, Constants DEF DWord
  <2>3. Frequency[b] \in Nat
    BY <2>1, Constants
  <2> QED
    BY <2>1, <2>2, <2>3, Constants
<1>3. frameSize[b] <= Bytes /\ encoded[b] = SamplesPlayed[b] /\ end[b] = PlayCursor[b] + frameSize[b]
  <2>1. end[b] = PlayCursor[b] + (IF frameSize[b] > Bytes THEN Bytes ELSE frameSize[b])
    BY <1>1 DEF BaseInv, ReadInv
  <2>2. frameSize[b] <= Bytes /\ encoded[b] = SamplesPlayed[b]
    BY DEF UpToDate
  <2> QED
    BY <1>2, <2>1, <2>2
<1>4. (end[b] - PlayCursor[b]) % DWordRange = frameSize[b]
  <2>1. end[b] - PlayCursor[b] = frameSize[b] /\ frameSize[b] < DWordRange
    BY <1>2, <1>3
  <2> QED
    BY <1>2, <2>1, SmallWord
<1>5. Counted(b) < DWordRange /\ Counted(b) \in Nat
  <2> DEFINE m == frame - k - FirstFrame[b]
  <2>1. m \in Nat /\ m <= MaxFrames + 1 /\ MaxFrames + 1 \in Nat
    <3>1. frame \in 0..MaxFrames + 1
      BY DEF BaseInv, TypeOK
    <3>2. k \in Nat
      BY LateType
    <3> QED
      BY <1>0, <1>2, <3>1, <3>2, Constants
  <2>2. SamplesIn(m, Frequency[b]) <= SamplesIn(MaxFrames + 1, Frequency[b])
    BY <1>2, <2>1, SamplesGrow
  <2>3. SamplesIn(m, Frequency[b]) \in Nat /\ SamplesIn(MaxFrames + 1, Frequency[b]) \in Nat
    BY <1>2, <2>1, SamplesType
  <2>4. SamplesIn(MaxFrames + 1, Frequency[b]) < DWordRange
    BY <1>2 DEF FramesFit
  <2>5. Counted(b) = SamplesIn(m, Frequency[b])
    BY <1>0
  <2> QED
    BY <1>2, <2>2, <2>3, <2>4, <2>5
<1>6. SamplesCounted(b) = Counted(b)
  <2>1. Counted(b) % DWordRange = Counted(b)
    BY <1>2, <1>5
  <2> QED
    BY <2>1 DEF SamplesCounted, Counted
<1>7. SamplesPlayed'[b] = Counted(b) /\ frameSize'[b] = 0 /\ encoded'[b] = Counted(b)
  <2>1. SamplesPlayed'[b] = Counted(b) /\ frameSize'[b] = 0
    BY <1>1, <1>6 DEF BaseInv, TypeOK
  <2>2. encoded'[b] = encoded[b] + frameSize[b]
    BY <1>1, <1>4 DEF BaseInv, TypeOK
  <2> QED
    BY <1>3, <2>1, <2>2 DEF Counted
<1>8. Late(b)' = Late(b)
  <2>1. pc'[t] \notin {"sound", "encode"}
    BY <1>1 DEF AfterFrame
  <2>2. \A u \in Threads : Behind(u, b)' <=> Behind(u, b)
    BY <1>1, <2>1 DEF Behind
  <2> QED
    BY <2>2 DEF Late, Threads
<1>9. Counted(b)' = Counted(b)
  BY <1>5, <1>7 DEF Counted
<1>10. /\ k \in 0..Late(b)' /\ FirstFrame'[b] + k <= frame'
       /\ Counted(b)' = SamplesIn(frame' - k - FirstFrame'[b], Frequency'[b])
  BY <1>0, <1>1, <1>8, <1>9 DEF SamplesIn
<1>11. encoded'[b] = SamplesPlayed'[b] /\ frameSize'[b] <= Bytes
  BY <1>2, <1>7
<1> QED
  BY <1>10, <1>11 DEF UpToDate

LEMMA StepKept == FramesFit /\ FrameInBuffer /\ BaseInv /\ StepInv /\ Next => StepInv'
<1> SUFFICES ASSUME FramesFit, FrameInBuffer, BaseInv, StepInv, Next, NEW b \in Buffers, Tracked(b)'
             PROVE  UpToDate(b)'
  BY DEF StepInv
<1> USE DEF At, Call, cursors, threads, history, Threads
<1>0. /\ TypeOK /\ CallInv /\ LockInv /\ PointerInv /\ DOMAIN pc = Threads /\ DOMAIN ptr = Threads
      /\ DOMAIN SamplesPlayed = Buffers /\ DOMAIN FirstFrame = Buffers /\ DOMAIN Frequency = Buffers
      /\ playBuffer' = b /\ b \notin uneven' /\ ~careless' /\ pc'["sound"] # "first" /\ b # None
  BY Constants DEF BaseInv, TypeOK, Tracked
<1>a. Tracked(b) => UpToDate(b)
  BY DEF StepInv
<1> DEFINE Same == UNCHANGED <<frame, SamplesPlayed, frameSize, encoded, FirstFrame>> /\ Frequency'[b] = Frequency[b]
                   /\ \A t \in Threads : Behind(t, b)' <=> Behind(t, b)
<1>b. ASSUME Same, UpToDate(b) PROVE UpToDate(b)'
  <2>1. Late(b)' = Late(b)
    BY <1>b DEF Late
  <2> QED
    BY <1>b, <2>1, StepSame
<1>c. ASSUME NEW t \in Threads, pc[t] \notin {"sound", "encode"}, frame' = frame + 1, pc' = [pc EXCEPT ![t] = "sound"],
             UNCHANGED <<ptr, SamplesPlayed, frameSize, encoded, FirstFrame, Frequency>>, UpToDate(b)
      PROVE  UpToDate(b)'
  <2>1. ~Behind(t, b) /\ Behind(t, b)' /\ \A u \in Threads : u # t => (Behind(u, b)' <=> Behind(u, b))
    BY <1>0, <1>c DEF Behind
  <2>2. Late(b)' = Late(b) + 1
    BY <2>1 DEF Late
  <2> QED
    BY <1>0, <1>c, <2>2, StepLater
<1>1. CASE Present
  <2>1. /\ pc["main"] = "idle" /\ frame' = frame + 1 /\ pc' = [pc EXCEPT !["main"] = "sound"]
        /\ UNCHANGED <<ptr, SamplesPlayed, frameSize, encoded, FirstFrame, Frequency, playBuffer, uneven, careless>>
    BY <1>1 DEF Present, nextFrameTiming
  <2>2. Tracked(b)
    BY <1>0, <2>1 DEF Tracked
  <2> QED
    BY <1>a, <1>c, <2>1, <2>2
<1>2. CASE Hammer
  <2>1. /\ pc["sound"] = "hammer" /\ frame' = frame + 1 /\ pc' = [pc EXCEPT !["sound"] = "sound"]
        /\ UNCHANGED <<ptr, SamplesPlayed, frameSize, encoded, FirstFrame, Frequency, playBuffer, uneven, careless>>
    BY <1>2 DEF Hammer, nextFrameTiming
  <2>2. Tracked(b)
    BY <1>0, <2>1 DEF Tracked
  <2> QED
    BY <1>a, <1>c, <2>1, <2>2
<1>3. ASSUME NEW t \in Threads, nextFrameSound(t) PROVE UpToDate(b)'
  <2>1. /\ pc[t] = "sound" /\ ptr' = [ptr EXCEPT ![t] = playBuffer]
        /\ pc' = [pc EXCEPT ![t] = IF playBuffer = None THEN AfterFrame(t) ELSE "encode"]
        /\ UNCHANGED <<frame, SamplesPlayed, frameSize, encoded, FirstFrame, Frequency, playBuffer, uneven, careless>>
    BY <1>3 DEF nextFrameSound
  <2>2. playBuffer = b /\ pc'[t] = "encode" /\ ptr'[t] = b
    BY <1>0, <2>1
  <2>3. Tracked(b)
    BY <1>0, <2>1, <2>2 DEF Tracked
  <2>4. Same
    BY <1>0, <2>1, <2>2 DEF Behind
  <2> QED
    BY <1>a, <1>b, <2>3, <2>4
<1>4. ASSUME NEW o \in Buffers, GetCurrentPosition(o) PROVE UpToDate(b)'
  <2>1. /\ pc["sound"] = "idle" /\ \E l \in {"idle", "hammer"} : pc' = [pc EXCEPT !["sound"] = l]
        /\ UNCHANGED <<ptr, frame, SamplesPlayed, frameSize, encoded, FirstFrame, Frequency, playBuffer, uneven, careless>>
    BY <1>4 DEF GetCurrentPosition, ReportPosition
  <2>2. Tracked(b)
    BY <1>0, <2>1 DEF Tracked
  <2>3. Same
    BY <1>0, <2>1 DEF Behind
  <2> QED
    BY <1>a, <1>b, <2>2, <2>3
<1>5. CASE Resume
  <2>1. /\ pc["sound"] = "resume" /\ pc' = [pc EXCEPT !["sound"] = "idle"]
        /\ UNCHANGED <<ptr, frame, SamplesPlayed, frameSize, encoded, FirstFrame, Frequency, playBuffer, uneven, careless>>
    BY <1>5 DEF Resume, ReportPosition
  <2>2. Tracked(b)
    BY <1>0, <2>1 DEF Tracked
  <2>3. Same
    BY <1>0, <2>1 DEF Behind
  <2> QED
    BY <1>a, <1>b, <2>2, <2>3
<1>6. CASE SetFirstFrame
  <2>1. /\ pc["sound"] = "first" /\ FirstFrame' = [FirstFrame EXCEPT ![subject] = frame]
        /\ careless' = (careless \/ InUse(subject))
        /\ uneven' = IF SamplesPlayed[subject] = 0 /\ encoded[subject] = 0 THEN uneven ELSE uneven \union {subject}
        /\ UNCHANGED <<frame, playBuffer, SamplesPlayed, frameSize, encoded, Frequency>>
    BY <1>6 DEF SetFirstFrame
  <2>2. subject = b
    BY <1>0, <2>1 DEF PointerInv
  <2>3. SamplesPlayed[b] = 0 /\ encoded[b] = 0
    BY <1>0, <2>1, <2>2
  <2>4. frameSize[b] = 0
    <3>1. \A t \in Threads : ~Writes(t, b)
      BY <1>0, <2>1, <2>2 DEF InUse, Writes
    <3> QED
      BY <1>0, <3>1 DEF LockInv
  <2>5. Counted(b)' = 0
    BY <2>1, <2>3, <2>4 DEF Counted
  <2>6. FirstFrame'[b] = frame /\ frame \in Nat /\ Frequency[b] \in Nat
    <3>1. frame \in 0..MaxFrames+1 /\ Frequency[b] \in Frequencies
      BY <1>0 DEF TypeOK
    <3>2. Frequency[b] \in Nat
      BY <3>1, Constants
    <3>3. frame \in Nat
      BY <3>1, Constants
    <3>4. FirstFrame'[b] = frame
      BY <1>0, <2>1, <2>2
    <3> QED
      BY <3>2, <3>3, <3>4
  <2>7. SamplesIn(0, Frequency[b]) = 0
    <3>1. 0 * Frequency[b] = 0
      BY <2>6
    <3>2. 0 \div FrameRate = 0
      BY Constants
    <3> QED
      BY <3>1, <3>2 DEF SamplesIn
  <2>8. FirstFrame'[b] + 0 <= frame' /\ frame' - 0 - FirstFrame'[b] = 0 /\ Frequency'[b] = Frequency[b]
    BY <2>1, <2>6
  <2>9. 0 \in 0..Late(b)' /\ encoded'[b] = SamplesPlayed'[b] /\ frameSize'[b] <= Bytes
    BY <2>1, <2>3, <2>4, Constants DEF Late
  <2>10. Counted(b)' = SamplesIn(frame' - 0 - FirstFrame'[b], Frequency'[b])
    BY <2>5, <2>7, <2>8
  <2> QED
    BY <2>8, <2>9, <2>10 DEF UpToDate
<1>7. ASSUME NEW o \in Buffers, LockOutOfRange(o) \/ AddRef(o) \/ Release(o) PROVE UpToDate(b)'
  <2>1. /\ UNCHANGED <<pc, ptr, frame, SamplesPlayed, frameSize, encoded, FirstFrame, Frequency, playBuffer, uneven, careless>>
    BY <1>7 DEF LockOutOfRange, AddRef, Release
  <2>2. Tracked(b)
    BY <1>0, <2>1 DEF Tracked
  <2>3. Same
    BY <2>1 DEF Behind
  <2> QED
    BY <1>a, <1>b, <2>2, <2>3
<1>8. ASSUME NEW o \in Buffers, Play(o) PROVE UpToDate(b)'
  BY <1>0, <1>8 DEF Play
<1>9. ASSUME NEW o \in Buffers, Stop(o) \/ SetCurrentPosition(o, Bytes - 1) PROVE UpToDate(b)'
  <2>1. /\ UNCHANGED <<pc, ptr, frame, SamplesPlayed, frameSize, encoded, FirstFrame, Frequency, uneven>>
        /\ playBuffer' \in {playBuffer, None} /\ ~careless
    BY <1>0, <1>9 DEF Stop, SetCurrentPosition
  <2>2. Tracked(b)
    BY <1>0, <2>1 DEF Tracked
  <2>3. Same
    BY <2>1 DEF Behind
  <2> QED
    BY <1>a, <1>b, <2>2, <2>3
<1>10. ASSUME NEW o \in Buffers, NEW freq \in Frequencies, SetFrequency(o, freq) PROVE UpToDate(b)'
  <2>1. /\ UNCHANGED <<pc, ptr, frame, SamplesPlayed, frameSize, encoded, FirstFrame, playBuffer, careless>>
        /\ Frequency' = [Frequency EXCEPT ![o] = freq]
        /\ uneven' = IF SamplesPlayed[o] = 0 /\ playBuffer # o THEN uneven ELSE uneven \union {o}
    BY <1>10 DEF SetFrequency
  <2>2. o # b
    BY <1>0, <2>1
  <2>3. Tracked(b)
    BY <1>0, <2>1, <2>2 DEF Tracked
  <2>4. Same
    BY <1>0, <2>1, <2>2 DEF Behind
  <2> QED
    BY <1>a, <1>b, <2>3, <2>4
<1>11. ASSUME NEW t \in Threads, EncodeBegin(t) PROVE UpToDate(b)'
  <2>1. PICK o \in {ptr[t], playBuffer} :
          /\ pc[t] = "encode" /\ ~fault /\ ptr'[t] = o
          /\ \A u \in Threads : u # t => ptr'[u] = ptr[u] /\ pc'[u] = pc[u]
          /\ UNCHANGED <<frame, cursors, playBuffer, careless, uneven, encoded>>
          /\ \/ UNCHANGED <<pc, frameSize>>
             \/ CanEnter(o, t) /\ pc'[t] = "write" /\ frameSize' = [frameSize EXCEPT ![o] = NextFrameSize(o)]
    BY <1>0, <1>11, EncodeBeginIs
  <2>2. pc["sound"] # "first" /\ playBuffer = b /\ ~careless
    BY <1>0, <2>1
  <2>3. ptr[t] = b /\ o = b
    BY <1>0, <2>1, <2>2 DEF PointerInv
  <2>4. UpToDate(b)
    BY <1>0, <1>a, <2>1, <2>2 DEF Tracked
  <2>5. CASE UNCHANGED <<pc, frameSize>>
    <3>1. Same
      BY <2>1, <2>3, <2>5 DEF Behind
    <3> QED
      BY <1>b, <2>4, <3>1
  <2>6. CASE CanEnter(o, t) /\ pc'[t] = "write" /\ frameSize' = [frameSize EXCEPT ![o] = NextFrameSize(o)]
    BY <1>0, <2>1, <2>3, <2>4, <2>6, StepBegun
  <2> QED
    BY <2>1, <2>5, <2>6
<1>12. ASSUME NEW t \in Threads, EncodeWrite(t) PROVE UpToDate(b)'
  <2>1. /\ pc[t] = "write" /\ pc'[t] = AfterFrame(t) /\ ptr[t] \in Buffers
        /\ encoded' = [encoded EXCEPT ![ptr[t]] = @ + ((end[ptr[t]] - PlayCursor[ptr[t]]) % DWordRange)]
        /\ SamplesPlayed' = [SamplesPlayed EXCEPT ![ptr[t]] = SamplesCounted(ptr[t])]
        /\ frameSize' = [frameSize EXCEPT ![ptr[t]] = 0]
        /\ \A u \in Threads : u # t => ptr'[u] = ptr[u] /\ pc'[u] = pc[u]
        /\ UNCHANGED <<playBuffer, frame, FirstFrame, Frequency, careless, uneven>>
    BY <1>0, <1>12, EncodeWriteIs
  <2>2. pc["sound"] # "first" /\ playBuffer = b /\ ~careless /\ b \notin uneven
    BY <1>0, <2>1
  <2>3. UpToDate(b)
    BY <1>a, <2>2 DEF Tracked
  <2>4. CASE ptr[t] = b
    BY <1>12, <2>2, <2>3, <2>4, StepWritten
  <2>5. CASE ptr[t] # b
    <3>1. encoded'[b] = encoded[b] /\ SamplesPlayed'[b] = SamplesPlayed[b] /\ frameSize'[b] = frameSize[b]
      BY <1>0, <2>1, <2>5 DEF TypeOK
    <3>2. \A u \in Threads : Behind(u, b)' <=> Behind(u, b)
      BY <2>1 DEF Behind, AfterFrame
    <3>3. Late(b)' = Late(b)
      BY <3>2 DEF Late
    <3> QED
      BY <2>1, <2>3, <3>1, <3>3, StepSame
  <2> QED
    BY <2>4, <2>5
<1> QED
  BY <1>1, <1>2, <1>3, <1>4, <1>5, <1>6, <1>7, <1>8, <1>9, <1>10, <1>11, <1>12 DEF Next, Step, Poll

\* The buffer that plays has given the encoder the sound of every frame since Play, whichever
\* thread advanced it, in any capture whose positions fit into 32 bits, with buffers that hold
\* more than the two frames that two threads can begin at once.
THEOREM AudioKeepsStep ==
  ASSUME FramesFit, FrameInBuffer
  PROVE  FairSpec => []AudioInStep
<1>1. Spec => []BaseInv
  BY BaseInvariant
<1>2. Init => StepInv
  BY Constants DEF Init, StepInv, Tracked
<1>3. BaseInv /\ StepInv /\ [Next]_vars => StepInv'
  <2>1. BaseInv /\ StepInv /\ Next => StepInv'
    BY StepKept
  <2>2. ASSUME StepInv, UNCHANGED vars PROVE StepInv'
    <3> USE DEF vars, cursors, threads, history
    <3> SUFFICES ASSUME NEW b \in Buffers, Tracked(b)' PROVE UpToDate(b)'
      BY DEF StepInv
    <3>1. UpToDate(b) /\ Late(b)' = Late(b)
      BY <2>2 DEF StepInv, Tracked, Late, Behind
    <3> QED
      BY <2>2, <3>1, StepSame
  <2> QED
    BY <2>1, <2>2
<1>4. BaseInv /\ StepInv => AudioInStep
  <2> SUFFICES ASSUME BaseInv, StepInv, NEW b \in Buffers \ uneven, playBuffer = b, ~careless, pc["sound"] # "first",
                      \A t \in Threads : pc[t] \notin {"sound", "encode", "write"}
               PROVE  encoded[b] = SamplesIn(frame - FirstFrame[b], Frequency[b])
    BY DEF AudioInStep
  <2>1. UpToDate(b)
    BY DEF StepInv, Tracked
  <2>2. Late(b) = 0
    BY DEF Late, Behind, Threads
  <2>3. encoded[b] = SamplesPlayed[b] /\ Counted(b) = SamplesIn(frame - 0 - FirstFrame[b], Frequency[b])
    BY <2>1, <2>2 DEF UpToDate
  <2>4. frameSize[b] = 0
    BY DEF BaseInv, LockInv, Writes
  <2>5. SamplesPlayed[b] \in Nat /\ frame \in Nat /\ FirstFrame[b] \in Nat
    BY Constants DEF BaseInv, TypeOK, DWord
  <2>6. Counted(b) = encoded[b] /\ frame - 0 - FirstFrame[b] = frame - FirstFrame[b]
    BY <2>3, <2>4, <2>5 DEF Counted
  <2> QED
    BY <2>3, <2>6
<1> QED
  BY <1>1, <1>2, <1>3, <1>4, PTL DEF Spec, FairSpec

-----------------------------------------------------------------------------
(* A surplus. *)

\* A frame has two samples or more, so that a position of 32 bits leaves room for frames.
ManySamples == \A f \in Frequencies : 2 * FrameRate <= f

LEMMA TwoAFrame ==
  ASSUME ManySamples, NEW f \in Frequencies, NEW n \in Nat
  PROVE  2 * n <= SamplesIn(n, f)
<1>1. f \in Nat /\ FrameRate \in Nat /\ FrameRate > 0
  BY Constants
<1>2. 2 * FrameRate <= f
  BY DEF ManySamples
<1> DEFINE g == f - 2 * FrameRate
<1>3. g \in Nat /\ f = 2 * FrameRate + g
  BY <1>1, <1>2
<1> HIDE DEF g
<1>4. n * f = FrameRate * (2 * n) + n * g /\ n * g \in Nat
  BY <1>1, <1>3
<1> DEFINE x == n * f
           q == x \div FrameRate
<1>5. x \in Nat /\ FrameRate * (2 * n) <= x
  BY <1>1, <1>4
<1> HIDE DEF x
<1>6. q \in Nat /\ x < FrameRate * q + FrameRate
  BY <1>1, <1>5
<1> HIDE DEF q
<1> DEFINE m == 2 * n
<1>7. m \in Nat /\ FrameRate * m <= x
  BY <1>5
<1> HIDE DEF m
<1>8. SamplesIn(n, f) = q
  BY DEF q, x, SamplesIn
<1>9. ~(q < m)
  <2> DEFINE fm == FrameRate * m
             fq == FrameRate * q
             rest == FrameRate * (m - q - 1)
  <2> SUFFICES ASSUME q < m PROVE FALSE
    OBVIOUS
  <2>1. m = q + 1 + (m - q - 1) /\ m - q - 1 \in Nat
    BY <1>6, <1>7
  <2>2. fm = fq + FrameRate + rest /\ rest \in Nat /\ fq \in Nat
    BY <1>1, <1>6, <2>1
  <2>3. fm <= x /\ x < fq + FrameRate
    BY <1>6, <1>7
  <2> HIDE DEF fm, fq, rest
  <2> QED
    BY <1>1, <1>5, <2>2, <2>3
<1>10. m <= q
  BY <1>6, <1>7, <1>9
<1> QED
  BY <1>8, <1>10 DEF m

LEMMA RangeIsWide == ASSUME FrameInBuffer, ManySamples PROVE DWordRange > 10
<1>1. 2 * 2 <= SamplesIn(2, FirstFrequency) /\ SamplesIn(2, FirstFrequency) < Bytes
  BY Constants, TwoAFrame DEF FrameInBuffer
<1>2. SamplesIn(2, FirstFrequency) \in Nat
  BY Constants, SamplesType
<1> QED
  BY <1>1, <1>2, Constants

\* A buffer that is left alone stays as caught up as it was.
LEMMA CaughtSame ==
  ASSUME NEW b \in Buffers, CaughtUp(b), frame' = frame, Late(b)' = Late(b),
         (Counted(b)') % DWordRange = Counted(b) % DWordRange,
         FirstFrame'[b] = FirstFrame[b], Frequency'[b] = Frequency[b]
  PROVE  CaughtUp(b)'
<1> HIDE DEF Late, Counted
<1>1. PICK k \in 0..Late(b) :
        /\ SamplesIn((frame - k - FirstFrame[b]) % DWordRange, Frequency[b]) < DWordRange
        /\ Counted(b) % DWordRange = SamplesIn((frame - k - FirstFrame[b]) % DWordRange, Frequency[b])
  BY DEF CaughtUp
<1>2. /\ k \in 0..Late(b)'
      /\ SamplesIn((frame' - k - FirstFrame'[b]) % DWordRange, Frequency'[b]) < DWordRange
      /\ (Counted(b)') % DWordRange = SamplesIn((frame' - k - FirstFrame'[b]) % DWordRange, Frequency'[b])
  BY <1>1 DEF SamplesIn
<1> QED
  BY <1>2 DEF CaughtUp

LEMMA CaughtLater ==
  ASSUME TypeOK, NEW b \in Buffers, CaughtUp(b), frame' = frame + 1, Late(b)' = Late(b) + 1,
         Counted(b)' = Counted(b), FirstFrame'[b] = FirstFrame[b], Frequency'[b] = Frequency[b]
  PROVE  CaughtUp(b)'
<1> HIDE DEF Late, Counted
<1>1. PICK k \in 0..Late(b) :
        /\ SamplesIn((frame - k - FirstFrame[b]) % DWordRange, Frequency[b]) < DWordRange
        /\ Counted(b) % DWordRange = SamplesIn((frame - k - FirstFrame[b]) % DWordRange, Frequency[b])
  BY DEF CaughtUp
<1>2. frame \in Nat /\ FirstFrame[b] \in Nat /\ Late(b) \in Nat
  BY Constants, LateType DEF TypeOK, DWord
<1>3. k + 1 \in 0..Late(b)' /\ frame' - (k + 1) - FirstFrame'[b] = frame - k - FirstFrame[b]
  BY <1>1, <1>2
<1>4. /\ SamplesIn((frame' - (k + 1) - FirstFrame'[b]) % DWordRange, Frequency'[b]) < DWordRange
      /\ (Counted(b)') % DWordRange = SamplesIn((frame' - (k + 1) - FirstFrame'[b]) % DWordRange, Frequency'[b])
  BY <1>1, <1>3 DEF SamplesIn
<1> QED
  BY <1>3, <1>4 DEF CaughtUp

\* What a difference has wrapped to wraps back.
LEMMA WrapsBack ==
  ASSUME NEW a \in DWord, NEW s \in DWord
  PROVE  (a + ((s - a) % DWordRange)) % DWordRange = s
<1>1. a \in Nat /\ s \in Nat /\ a < DWordRange /\ s < DWordRange /\ DWordRange \in Nat
  BY Constants DEF DWord
<1>2. CASE s >= a
  <2>1. (s - a) % DWordRange = s - a
    BY <1>1, <1>2, SmallWord
  <2>2. a + (s - a) = s
    BY <1>1
  <2> QED
    BY <1>1, <2>1, <2>2, SmallWord
<1>3. CASE s < a
  <2>1. (s - a) % DWordRange = s - a + DWordRange
    BY <1>1, <1>3
  <2>2. a + (s - a + DWordRange) = s + DWordRange
    BY <1>1
  <2>3. (s + DWordRange) % DWordRange = s
    BY <1>1
  <2> QED
    BY <2>1, <2>2, <2>3
<1> QED
  BY <1>1, <1>2, <1>3

LEMMA SurplusKept == BaseInv /\ SurplusInv /\ Next => SurplusInv'
<1> SUFFICES ASSUME BaseInv, SurplusInv, Next, ~fault', NEW b \in Buffers, b \in clamped'
             PROVE  /\ playBuffer' # b => \A t \in Threads : ~(pc'[t] = "encode" /\ ptr'[t] = b)
                    /\ playBuffer' = b => CaughtUp(b)'
  <2>1. BaseInv /\ Next => clamped' \subseteq Buffers
    BY TypesKept DEF BaseInv, TypeOK
  <2> QED
    BY <2>1 DEF SurplusInv
<1> USE DEF At, Call, cursors, threads, history, Threads
<1>0. /\ TypeOK /\ CallInv /\ LockInv /\ PointerInv /\ DOMAIN pc = Threads /\ DOMAIN ptr = Threads
      /\ DOMAIN Frequency = Buffers /\ DOMAIN frameSize = Buffers /\ DOMAIN SamplesPlayed = Buffers /\ b # None
  BY Constants DEF BaseInv, TypeOK
<1> DEFINE Goal == /\ playBuffer' # b => \A t \in Threads : ~(pc'[t] = "encode" /\ ptr'[t] = b)
                   /\ playBuffer' = b => CaughtUp(b)'
           Same == UNCHANGED <<frame, SamplesPlayed, frameSize, FirstFrame>> /\ Frequency'[b] = Frequency[b]
                   /\ playBuffer' = playBuffer /\ b \in clamped /\ ~fault
                   /\ (\A t \in Threads : Behind(t, b)' <=> Behind(t, b))
                   /\ (\A t \in Threads : pc'[t] = "encode" /\ ptr'[t] = b => (pc[t] = "encode" /\ ptr[t] = b) \/ playBuffer = b)
<1>b. ASSUME Same PROVE Goal
  <2>1. /\ playBuffer # b => \A t \in Threads : ~(pc[t] = "encode" /\ ptr[t] = b)
        /\ playBuffer = b => CaughtUp(b)
    BY <1>b DEF SurplusInv
  <2>2. Late(b)' = Late(b) /\ Counted(b)' = Counted(b)
    BY <1>b DEF Late, Counted
  <2>3. CASE playBuffer = b
    BY <1>b, <2>1, <2>2, <2>3, CaughtSame
  <2>4. CASE playBuffer # b
    BY <1>b, <2>1, <2>4
  <2> QED
    BY <2>3, <2>4
<1>c. ASSUME NEW t \in Threads, pc[t] \notin {"sound", "encode"}, frame' = frame + 1, pc' = [pc EXCEPT ![t] = "sound"],
             UNCHANGED <<ptr, SamplesPlayed, frameSize, FirstFrame, Frequency, playBuffer>>, b \in clamped, ~fault
      PROVE  Goal
  <2>1. /\ playBuffer # b => \A u \in Threads : ~(pc[u] = "encode" /\ ptr[u] = b)
        /\ playBuffer = b => CaughtUp(b)
    BY <1>c DEF SurplusInv
  <2>2. ~Behind(t, b) /\ Behind(t, b)' /\ \A u \in Threads : u # t => (Behind(u, b)' <=> Behind(u, b))
    BY <1>0, <1>c DEF Behind
  <2>3. Late(b)' = Late(b) + 1 /\ Counted(b)' = Counted(b)
    BY <1>c, <2>2 DEF Late, Counted
  <2>4. playBuffer = b => CaughtUp(b)'
    BY <1>0, <1>c, <2>1, <2>3, CaughtLater
  <2>5. \A u \in Threads : pc'[u] = "encode" => pc[u] = "encode" /\ ptr'[u] = ptr[u]
    BY <1>0, <1>c
  <2> QED
    BY <1>c, <2>1, <2>4, <2>5
<1>1. CASE Present
  <2>1. /\ pc["main"] = "idle" /\ frame' = frame + 1 /\ pc' = [pc EXCEPT !["main"] = "sound"]
        /\ UNCHANGED <<ptr, SamplesPlayed, frameSize, FirstFrame, Frequency, playBuffer, clamped>> /\ ~fault
    BY <1>1 DEF Present, nextFrameTiming
  <2> QED
    BY <1>c, <2>1
<1>2. CASE Hammer
  <2>1. /\ pc["sound"] = "hammer" /\ frame' = frame + 1 /\ pc' = [pc EXCEPT !["sound"] = "sound"]
        /\ UNCHANGED <<ptr, SamplesPlayed, frameSize, FirstFrame, Frequency, playBuffer, clamped>> /\ ~fault
    BY <1>2 DEF Hammer, nextFrameTiming
  <2> QED
    BY <1>c, <2>1
<1>3. ASSUME NEW t \in Threads, nextFrameSound(t) PROVE Goal
  <2>1. /\ pc[t] = "sound" /\ ptr' = [ptr EXCEPT ![t] = playBuffer] /\ ~fault
        /\ pc' = [pc EXCEPT ![t] = IF playBuffer = None THEN AfterFrame(t) ELSE "encode"]
        /\ UNCHANGED <<frame, SamplesPlayed, frameSize, FirstFrame, Frequency, playBuffer, clamped>>
    BY <1>3 DEF nextFrameSound
  <2>2. ptr'[t] = playBuffer /\ pc'[t] \in {"idle", "resume", "encode"} /\ (playBuffer = b => pc'[t] = "encode")
        /\ \A u \in Threads : u # t => pc'[u] = pc[u] /\ ptr'[u] = ptr[u]
    BY <1>0, <2>1 DEF AfterFrame
  <2>3. CASE playBuffer = b
    <3>1. Same
      BY <2>1, <2>2, <2>3 DEF Behind
    <3> QED
      BY <1>b, <3>1
  <2>4. CASE playBuffer # b
    BY <2>1, <2>2, <2>4 DEF SurplusInv
  <2> QED
    BY <2>3, <2>4
<1>4. ASSUME NEW o \in Buffers, GetCurrentPosition(o) PROVE Goal
  <2>1. /\ pc["sound"] = "idle" /\ (\E l \in {"idle", "hammer"} : pc' = [pc EXCEPT !["sound"] = l]) /\ ~fault
        /\ UNCHANGED <<ptr, frame, SamplesPlayed, frameSize, FirstFrame, Frequency, playBuffer, clamped>>
    BY <1>4 DEF GetCurrentPosition, ReportPosition
  <2>2. Same
    BY <1>0, <2>1 DEF Behind
  <2> QED
    BY <1>b, <2>2
<1>5. CASE Resume
  <2>1. /\ pc["sound"] = "resume" /\ pc' = [pc EXCEPT !["sound"] = "idle"] /\ ~fault
        /\ UNCHANGED <<ptr, frame, SamplesPlayed, frameSize, FirstFrame, Frequency, playBuffer, clamped>>
    BY <1>5 DEF Resume, ReportPosition
  <2>2. Same
    BY <1>0, <2>1 DEF Behind
  <2> QED
    BY <1>b, <2>2
<1>6. CASE SetFirstFrame
  <2>1. /\ pc["sound"] = "first" /\ pc' = [pc EXCEPT !["sound"] = "idle"] /\ ~fault
        /\ clamped' = clamped \ {subject} /\ playBuffer = subject /\ UNCHANGED <<ptr, playBuffer>>
    BY <1>0, <1>6 DEF SetFirstFrame, PointerInv
  <2>2. playBuffer # b /\ \A t \in Threads : pc'[t] = "encode" => pc[t] = "encode"
    BY <1>0, <2>1
  <2> QED
    BY <2>1, <2>2 DEF SurplusInv
<1>7. ASSUME NEW o \in Buffers, LockOutOfRange(o) \/ AddRef(o) \/ Release(o) \/ SetCurrentPosition(o, Bytes - 1) PROVE Goal
  <2>1. /\ UNCHANGED <<pc, ptr, frame, SamplesPlayed, frameSize, FirstFrame, Frequency, playBuffer, clamped>> /\ ~fault
    BY <1>7 DEF LockOutOfRange, AddRef, Release, SetCurrentPosition
  <2>2. Same
    BY <2>1 DEF Behind
  <2> QED
    BY <1>b, <2>2
<1>8. ASSUME NEW o \in Buffers, Play(o) PROVE Goal
  <2>1. /\ pc["sound"] = "idle" /\ pc' = [pc EXCEPT !["sound"] = "first"] /\ ~fault
        /\ clamped' = clamped \ {o, playBuffer} /\ playBuffer' = o /\ UNCHANGED ptr
    BY <1>8 DEF Play
  <2>2. o # b /\ playBuffer # b /\ b \in clamped /\ \A t \in Threads : pc'[t] = "encode" => pc[t] = "encode"
    BY <1>0, <2>1
  <2> QED
    BY <2>1, <2>2 DEF SurplusInv
<1>9. ASSUME NEW o \in Buffers, Stop(o) PROVE Goal
  <2>1. /\ UNCHANGED <<pc, ptr, frame, SamplesPlayed, frameSize, FirstFrame, Frequency>> /\ ~fault
        /\ playBuffer' = (IF playBuffer = o THEN None ELSE playBuffer) /\ clamped' = clamped \ {o}
    BY <1>9 DEF Stop
  <2>2. CASE playBuffer = o
    BY <1>0, <2>1, <2>2 DEF SurplusInv
  <2>3. CASE playBuffer # o
    <3>1. Same
      BY <2>1, <2>3 DEF Behind
    <3> QED
      BY <1>b, <3>1
  <2> QED
    BY <2>2, <2>3
<1>10. ASSUME NEW o \in Buffers, NEW freq \in Frequencies, SetFrequency(o, freq) PROVE Goal
  <2>1. /\ UNCHANGED <<pc, ptr, frame, SamplesPlayed, frameSize, FirstFrame, playBuffer>> /\ ~fault
        /\ Frequency' = [Frequency EXCEPT ![o] = freq] /\ clamped' = clamped \ {o}
    BY <1>10 DEF SetFrequency
  <2>2. Same
    BY <1>0, <2>1 DEF Behind
  <2> QED
    BY <1>b, <2>2
<1>11. ASSUME NEW t \in Threads, EncodeBegin(t) PROVE Goal
  <2>1. PICK o \in {ptr[t], playBuffer} :
          /\ pc[t] = "encode" /\ ~fault /\ ptr'[t] = o
          /\ \A u \in Threads : u # t => ptr'[u] = ptr[u] /\ pc'[u] = pc[u]
          /\ UNCHANGED <<frame, cursors, playBuffer>>
          /\ o \in Buffers /\ pc'[t] = "write" /\ frameSize' = [frameSize EXCEPT ![o] = NextFrameSize(o)]
          /\ ~Overflows(o)
          /\ clamped' = IF NextFrameSize(o) > Bytes THEN clamped \union {o} ELSE clamped \ {o}
    BY <1>0, <1>11, EncodeBeginIs
  <2>2. pc["sound"] = "encode" => ptr["sound"] = playBuffer
    BY <1>0, <2>1 DEF PointerInv
  <2>3. CASE o = b
    <3>1. playBuffer # b => \A u \in Threads : ~(pc'[u] = "encode" /\ ptr'[u] = b)
      BY <2>1, <2>2, <2>3
    <3>2. CaughtUp(b)'
      <4> DEFINE s == SamplesIn((frame - FirstFrame[b]) % DWordRange, Frequency[b])
      <4>1. frame \in Nat /\ FirstFrame[b] \in Nat /\ Frequency[b] \in Nat /\ SamplesPlayed[b] \in DWord
        <5>1. frame \in 0..MaxFrames+1 /\ FirstFrame[b] \in DWord /\ Frequency[b] \in Frequencies
          BY <1>0 DEF TypeOK
        <5>2. Frequency[b] \in Nat
          BY <5>1, Constants
        <5>3. frame \in Nat /\ FirstFrame[b] \in Nat
          BY <5>1, Constants DEF DWord
        <5> QED
          BY <1>0, <5>2, <5>3 DEF TypeOK
      <4>2. s \in DWord
        <5>1. (frame - FirstFrame[b]) % DWordRange \in Nat
          BY <4>1, WordRange
        <5>2. s \in Nat
          BY <4>1, <5>1, SamplesType
        <5>3. s < DWordRange
          BY <2>1, <2>3, <5>2, Constants DEF Overflows
        <5> QED
          BY <5>2, <5>3, Constants DEF DWord
      <4>3. Counted(b)' = SamplesPlayed[b] + ((s - SamplesPlayed[b]) % DWordRange)
        BY <1>0, <2>1, <2>3 DEF Counted, NextFrameSize
      <4> HIDE DEF s
      <4>4. (Counted(b)') % DWordRange = s
        BY <4>1, <4>2, <4>3, WrapsBack
      <4>5. (frame' - 0 - FirstFrame'[b]) % DWordRange = (frame - FirstFrame[b]) % DWordRange
        BY <2>1, <4>1
      <4>6. s = SamplesIn((frame' - 0 - FirstFrame'[b]) % DWordRange, Frequency'[b])
        BY <2>1, <4>5 DEF s
      <4>7. s < DWordRange /\ 0 \in 0..Late(b)'
        BY <4>2, Constants DEF DWord, Late
      <4> HIDE DEF Late, Counted
      <4> QED
        BY <4>4, <4>6, <4>7 DEF CaughtUp
    <3> QED
      BY <2>1, <3>1, <3>2
  <2>4. CASE o # b
    <3>1. b \in clamped /\ frameSize'[b] = frameSize[b]
      BY <1>0, <2>1, <2>4
    <3>2. CASE playBuffer = b
      <4>1. ptr[t] # b
        BY <2>1, <2>4, <3>2
      <4>2. \A u \in Threads : Behind(u, b)' <=> Behind(u, b)
        BY <2>1, <4>1 DEF Behind
      <4>3. Late(b)' = Late(b) /\ Counted(b)' = Counted(b)
        BY <2>1, <3>1, <4>2 DEF Late, Counted
      <4>4. CaughtUp(b)
        BY <2>1, <3>1, <3>2 DEF SurplusInv
      <4> QED
        BY <2>1, <3>2, <4>3, <4>4, CaughtSame
    <3>3. CASE playBuffer # b
      BY <2>1, <3>1, <3>3 DEF SurplusInv
    <3> QED
      BY <3>2, <3>3
  <2> QED
    BY <2>3, <2>4
<1>12. ASSUME NEW t \in Threads, EncodeWrite(t) PROVE Goal
  <2>1. /\ pc[t] = "write" /\ pc'[t] = AfterFrame(t) /\ ptr[t] \in Buffers /\ ~fault
        /\ SamplesPlayed' = [SamplesPlayed EXCEPT ![ptr[t]] = SamplesCounted(ptr[t])]
        /\ frameSize' = [frameSize EXCEPT ![ptr[t]] = 0]
        /\ \A u \in Threads : u # t => ptr'[u] = ptr[u] /\ pc'[u] = pc[u]
        /\ UNCHANGED <<playBuffer, frame, FirstFrame, Frequency, clamped>>
    BY <1>0, <1>12, EncodeWriteIs
  <2>2. pc'[t] \notin {"sound", "encode"}
    BY <2>1 DEF AfterFrame
  <2>3. Late(b)' = Late(b)
    <3>1. \A u \in Threads : Behind(u, b)' <=> Behind(u, b)
      BY <2>1, <2>2 DEF Behind
    <3> QED
      BY <3>1 DEF Late
  <2>4. (Counted(b)') % DWordRange = Counted(b) % DWordRange
    <3>1. CASE ptr[t] = b
      <4>1. SamplesPlayed'[b] = Counted(b) % DWordRange /\ frameSize'[b] = 0
        BY <1>0, <2>1, <3>1 DEF SamplesCounted, Counted
      <4>2. SamplesPlayed[b] \in Nat /\ frameSize[b] \in Nat
        BY <1>0, Constants DEF TypeOK, DWord
      <4> DEFINE c == Counted(b)
      <4>3. c \in Int
        BY <4>2 DEF Counted
      <4> HIDE DEF c
      <4>4. c % DWordRange \in Nat /\ c % DWordRange < DWordRange
        BY <4>3, Constants
      <4>5. (c % DWordRange) % DWordRange = c % DWordRange
        BY <4>4, SmallWord
      <4>6. Counted(b)' = c % DWordRange
        BY <4>1, <4>4 DEF Counted, c
      <4> QED
        BY <4>5, <4>6 DEF c
    <3>2. CASE ptr[t] # b
      BY <1>0, <2>1, <3>2 DEF Counted
    <3> QED
      BY <3>1, <3>2
  <2>5. CASE playBuffer = b
    <3>1. CaughtUp(b)
      BY <2>1, <2>5 DEF SurplusInv
    <3> QED
      BY <2>1, <2>3, <2>4, <2>5, <3>1, CaughtSame
  <2>6. CASE playBuffer # b
    BY <2>1, <2>2, <2>6 DEF SurplusInv
  <2> QED
    BY <2>5, <2>6
<1> QED
  BY <1>1, <1>2, <1>3, <1>4, <1>5, <1>6, <1>7, <1>8, <1>9, <1>10, <1>11, <1>12 DEF Next, Step, Poll

LEMMA Remainder ==
  ASSUME NEW x \in Int, NEW q \in Int, NEW r \in Nat, r < DWordRange, x = DWordRange * q + r
  PROVE  x % DWordRange = r
BY Constants

\* A buffer that is caught up has no surplus in its next frame.
LEMMA NoSecondSurplus ==
  ASSUME FrameInBuffer, ManySamples, TypeOK, NEW b \in Buffers, CaughtUp(b), frameSize[b] = 0
  PROVE  NextFrameSize(b) <= Bytes
<1> HIDE DEF Late
<1>0. PICK k \in 0..Late(b) :
        /\ SamplesIn((frame - k - FirstFrame[b]) % DWordRange, Frequency[b]) < DWordRange
        /\ Counted(b) % DWordRange = SamplesIn((frame - k - FirstFrame[b]) % DWordRange, Frequency[b])
  BY DEF CaughtUp
<1> DEFINE d == frame - k - FirstFrame[b]
           n == d % DWordRange
           f == Frequency[b]
<1>1. /\ frame \in Nat /\ FirstFrame[b] \in Nat /\ f \in Frequencies /\ f \in Nat /\ SamplesPlayed[b] \in Nat
      /\ SamplesPlayed[b] < DWordRange /\ DWordRange \in Nat /\ Bytes \in Nat /\ Bytes < DWordRange
  <2>1. frame \in 0..MaxFrames+1 /\ FirstFrame[b] \in DWord /\ f \in Frequencies /\ SamplesPlayed[b] \in DWord
    BY DEF TypeOK
  <2>2. frame \in Nat /\ FirstFrame[b] \in Nat /\ SamplesPlayed[b] \in Nat /\ SamplesPlayed[b] < DWordRange
    BY <2>1, Constants DEF DWord
  <2>3. f \in Nat
    BY <2>1, Constants
  <2> QED
    BY <2>1, <2>2, <2>3, Constants
<1>2. k \in 0..2 /\ d \in Int /\ frame - FirstFrame[b] = d + k
  BY <1>1, LateType
<1>3. n \in Nat
  BY <1>2, WordRange
<1>4. SamplesPlayed[b] = SamplesIn(n, f) /\ SamplesIn(n, f) < DWordRange
  <2>1. Counted(b) = SamplesPlayed[b]
    BY <1>1 DEF Counted
  <2> QED
    BY <1>0, <1>1, <2>1, SmallWord
<1>5. n + k < DWordRange
  <2> HIDE DEF n, f
  <2>1. 2 * n <= SamplesIn(n, f) /\ SamplesIn(n, f) \in Nat
    BY <1>1, <1>3, TwoAFrame, SamplesType
  <2> QED
    BY <1>1, <1>2, <1>3, <1>4, <2>1, RangeIsWide
<1>6. (d + k) % DWordRange = n + k
  <2> HIDE DEF d
  <2> DEFINE e == d \div DWordRange
  <2>1. d = DWordRange * e + n /\ e \in Int
    BY <1>1, <1>2, Constants
  <2> HIDE DEF e, n
  <2>2. d + k = DWordRange * e + (n + k) /\ n + k \in Nat /\ d + k \in Int
    BY <1>1, <1>2, <1>3, <2>1
  <2> QED
    BY <1>5, <2>1, <2>2, Remainder
<1>7. NextFrameSize(b) = (SamplesIn(n + k, f) - SamplesIn(n, f)) % DWordRange
  BY <1>2, <1>4, <1>6 DEF NextFrameSize
<1> HIDE DEF n, d, f
<1>8. SamplesIn(n + k, f) - SamplesIn(n, f) \in 0..Bytes
  BY <1>1, <1>2, <1>3, LateFits
<1> DEFINE x == SamplesIn(n + k, f) - SamplesIn(n, f)
<1>9. x \in Nat /\ x <= Bytes /\ x < DWordRange
  BY <1>1, <1>8
<1> HIDE DEF x
<1>10. NextFrameSize(b) = x
  <2>1. x % DWordRange = x
    BY <1>9, SmallWord
  <2> QED
    BY <1>7, <2>1 DEF x
<1> QED
  BY <1>9, <1>10

LEMMA OneSurplus ==
  ASSUME FrameInBuffer, ManySamples, BaseInv, SurplusInv, [Next]_vars,
         NEW b \in clamped \intersect clamped', BufferLock'[b] \in Threads
  PROVE  BufferLock[b] = BufferLock'[b]
<1>0. TypeOK /\ CallInv /\ LockInv /\ PointerInv /\ b \in Buffers
  BY DEF BaseInv, TypeOK
<1>1. CASE UNCHANGED vars
  BY <1>1 DEF vars
<1>2. CASE Other
  <2>1. Aside
    BY <1>0, <1>2, OtherIs
  <2> QED
    BY <1>0, <2>1 DEF Aside, TypeOK, Threads
<1>3. ASSUME NEW t \in Threads, EncodeWrite(t) PROVE BufferLock[b] = BufferLock'[b]
  <2>1. BufferLock' = [BufferLock EXCEPT ![ptr[t]] = None] /\ ptr[t] \in Buffers
    BY <1>0, <1>3, EncodeWriteIs
  <2> QED
    BY <1>0, <2>1, Constants DEF TypeOK
<1>4. ASSUME NEW t \in Threads, EncodeBegin(t) PROVE BufferLock[b] = BufferLock'[b]
  <2>1. PICK o \in {ptr[t], playBuffer} :
          /\ pc[t] = "encode" /\ ~fault
          /\ \/ UNCHANGED BufferLock
             \/ /\ o \in Buffers /\ CanEnter(o, t) /\ BufferLock' = [BufferLock EXCEPT ![o] = t]
                /\ clamped' = IF NextFrameSize(o) > Bytes THEN clamped \union {o} ELSE clamped \ {o}
    BY <1>0, <1>4, EncodeBeginIs
  <2>2. CASE o # b
    BY <1>0, <2>1, <2>2 DEF TypeOK
  <2>3. CASE UNCHANGED BufferLock
    BY <2>3
  <2>4. CASE /\ o = b /\ CanEnter(o, t)
             /\ clamped' = IF NextFrameSize(o) > Bytes THEN clamped \union {o} ELSE clamped \ {o}
    <3>1. playBuffer = b /\ CaughtUp(b)
      BY <2>1, <2>4 DEF SurplusInv
    <3>2. frameSize[b] = 0
      <4>1. BufferLock[b] # t
        BY <1>0, <2>1 DEF LockInv, Writes
      <4>2. BufferLock[b] = None
        BY <2>4, <4>1 DEF CanEnter
      <4>3. \A u \in Threads : ~Writes(u, b)
        BY <1>0, <4>2, Constants DEF LockInv, Writes
      <4> QED
        BY <1>0, <4>3 DEF LockInv
    <3>3. NextFrameSize(b) <= Bytes
      BY <1>0, <3>1, <3>2, NoSecondSurplus
    <3>4. NextFrameSize(b) \in Nat /\ Bytes \in Nat
      BY <1>0, FrameSizeType, Constants DEF DWord
    <3>5. b \notin clamped'
      BY <2>4, <3>3, <3>4
    <3> QED
      BY <3>5
  <2> QED
    BY <2>1, <2>2, <2>3, <2>4
<1> QED
  BY <1>1, <1>2, <1>3, <1>4, NextIs

\* Starting or retuning a buffer costs one buffer of surplus sound at most, however far the
\* positions have wrapped: FramesFit is not needed, and FirstFrame may have held anything.
THEOREM OneSurplusAtMost ==
  ASSUME FrameInBuffer, ManySamples
  PROVE  FairSpec => SurplusIsOnce
<1>1. Spec => []BaseInv
  BY BaseInvariant
<1>2. Init => SurplusInv
  BY DEF Init, SurplusInv
<1>3. BaseInv /\ SurplusInv /\ [Next]_vars => SurplusInv'
  <2>1. BaseInv /\ SurplusInv /\ Next => SurplusInv'
    BY SurplusKept
  <2>2. ASSUME SurplusInv, UNCHANGED vars PROVE SurplusInv'
    <3> USE DEF vars, cursors, threads, history
    <3>1. \A b : Late(b)' = Late(b) /\ Counted(b)' = Counted(b)
      BY <2>2 DEF Late, Behind, Counted
    <3>2. \A b : CaughtUp(b)' <=> CaughtUp(b)
      BY <2>2, <3>1 DEF CaughtUp
    <3> QED
      BY <2>2, <3>2 DEF SurplusInv
  <2> QED
    BY <2>1, <2>2
<1>4. BaseInv /\ SurplusInv /\ [Next]_vars
        => [\A b \in clamped \intersect clamped' : BufferLock'[b] \in Threads => BufferLock[b] = BufferLock'[b]]_vars
  BY OneSurplus
<1> QED
  BY <1>1, <1>2, <1>3, <1>4, PTL DEF Spec, FairSpec, SurplusIsOnce
=============================================================================
