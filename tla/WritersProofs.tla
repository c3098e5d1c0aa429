---------------------------- MODULE WritersProofs ----------------------------
(***************************************************************************)
(* Proofs about the resampler, for any set of sample rates, any lengths of *)
(* blocks and a stream of any length, and about the writers that feed it,  *)
(* for any pictures, formats, failures and sizes of a segment: the numbers *)
(* of the pictures in the files, and where the sound is against them.      *)
(***************************************************************************)
EXTENDS Writers, TLAPS, SequenceTheorems, WellFoundedInduction

-----------------------------------------------------------------------------
(* The resampler. *)


(* The position tFrac is exactly what has been written beyond what has been read; it
   stays below a sample of each kind, and below one of the input between blocks. *)
Position ==
  /\ tFrac = produced * InRate - consumed * OutRate
  /\ tFrac < OutRate + InRate
  /\ nInSamples = 0 => tFrac < InRate

(* What a block has written so far, against what it has read. *)
BlockSoFar ==
  /\ nInSamples <= length
  /\ count * InRate <= tFrac + (length - nInSamples) * OutRate

ResamplerInv == ResamplerTypeOK /\ (Identical => InRate = OutRate) /\ Position /\ BlockSoFar

(* Multiplication over a sum, for the steps that add one to a factor. *)
LEMMA Distributes == \A a, b, c \in Int : (a + b) * c = a * c + b * c /\ (a - b) * c = a * c - b * c
  BY SMT

LEMMA NoneOfIt == \A r \in Nat : 0 * r = 0
  BY SMT

(* A whole number of times d that is no more than y is no more than y \div d. *)
LEMMA QuotientBounds ==
  ASSUME NEW x \in Nat, NEW y \in Nat, NEW d \in Nat \ {0}, x * d <= y
  PROVE  x <= y \div d
<1> DEFINE q == y \div d
<1>1. q \in Nat /\ y < (q + 1) * d
  BY SMT
<1>2. CASE x >= q + 1
  <2>1. PICK k \in Nat : x = (q + 1) + k
    BY <1>1, <1>2, x - (q + 1) \in Nat
  <2>2. x * d = (q + 1) * d + k * d
    BY <2>1, <1>1, Distributes
  <2>3. k * d \in Nat /\ (q + 1) * d \in Nat
    BY <1>1
  <2> QED
    BY <1>1, <2>2, <2>3
<1> QED
  BY <1>1, <1>2

(* What is left of a block is worth no less than nothing. *)
LEMMA RestIsNatural ==
  ASSUME NEW n \in Nat, NEW k \in Nat, k <= n, NEW r \in Nat
  PROVE  (n - k) * r \in Nat
<1>1. n - k \in Nat
  OBVIOUS
<1> QED
  BY <1>1

LEMMA SumIsNatural == \A a, b \in Nat : a + b >= 0
  OBVIOUS

(* ResampleInit takes what it may of the block and leaves the rest. *)
LEMMA InitTakes ==
  ASSUME ResamplerTypeOK, NEW n \in Nat
  PROVE  InitTaken(n) \in 0..n /\ InitAfter(n) \in 0..3
  BY DEF ResamplerTypeOK, InitTaken, InitAfter, AtMost

LEMMA SetupKeeps ==
  ASSUME NEW in \in Nat \ {0}, NEW out \in Nat \ {0}, NEW chans \in {1, 2}, NEW same \in BOOLEAN,
         Setup(in, out, chans, same)
  PROVE  ResamplerInv'
<1>1. 0 * in = 0 /\ 0 * out = 0 /\ (0 - 0) * out = 0
  OBVIOUS
<1>2. ResamplerTypeOK'
  BY DEF Setup, ResamplerTypeOK
<1>3. Identical' => InRate' = OutRate'
  BY DEF Setup
<1>4. Position' /\ BlockSoFar'
  BY <1>1 DEF Setup, Position, BlockSoFar
<1> QED
  BY <1>2, <1>3, <1>4 DEF ResamplerInv

LEMMA BlockKeeps ==
  ASSUME ResamplerInv, NEW n \in Nat, ResampleBlock(n)
  PROVE  ResamplerInv'
<1> USE DEF ResamplerInv, format
<1>1. InitTaken(n) \in 0..n /\ InitAfter(n) \in 0..3
  BY InitTakes
<1>2. ResamplerTypeOK' /\ (Identical => InRate = OutRate)'
  BY <1>1 DEF ResampleBlock, ResamplerTypeOK
<1>3. CASE Identical
  <2>1. InRate = OutRate /\ count' = n /\ length' = n /\ nInSamples' = 0 /\ tFrac' = tFrac
        /\ consumed' = consumed + n /\ produced' = produced + n /\ InRate' = InRate /\ OutRate' = OutRate
    BY <1>3 DEF ResampleBlock
  <2>2. produced' * InRate' - consumed' * OutRate' = produced * InRate - consumed * OutRate
    <3>1. produced' * InRate' = produced * InRate + n * InRate
      BY <2>1, Distributes DEF ResamplerTypeOK
    <3>2. consumed' * OutRate' = consumed * OutRate + n * InRate
      BY <2>1, Distributes DEF ResamplerTypeOK
    <3>3. produced * InRate \in Int /\ consumed * OutRate \in Int /\ n * InRate \in Int
      BY DEF ResamplerTypeOK
    <3> QED
      BY <3>1, <3>2, <3>3
  <2>3. Position'
    BY <2>1, <2>2 DEF Position, ResampleBlock
  <2>4. BlockSoFar'
    <3>1. count' * InRate' = n * InRate /\ (length' - nInSamples') * OutRate' = n * InRate /\ n * InRate \in Nat
      BY <2>1 DEF ResamplerTypeOK
    <3> QED
      BY <2>1, <3>1 DEF BlockSoFar, ResamplerTypeOK
  <2> QED
    BY <1>2, <2>3, <2>4
<1>4. CASE ~Identical
  <2>1. Position'
    BY <1>4, <1>1 DEF Position, ResampleBlock
  <2>2. /\ nInSamples' \in Nat /\ nInSamples' <= n /\ length' = n /\ count' = 0
        /\ tFrac' \in Nat /\ OutRate' \in Nat /\ InRate' \in Nat
    BY <1>4, <1>1 DEF ResampleBlock, ResamplerTypeOK
  <2>3. (length' - nInSamples') * OutRate' \in Nat
    BY <2>2, RestIsNatural
  <2>4. count' * InRate' = 0
    BY <2>2, NoneOfIt
  <2>5. BlockSoFar'
    <3>1. nInSamples' <= length'
      BY <2>2
    <3>2. tFrac' + (length' - nInSamples') * OutRate' >= 0
      BY <2>2, <2>3, SumIsNatural
    <3> QED
      BY <2>4, <3>1, <3>2 DEF BlockSoFar
  <2> QED
    BY <1>2, <2>1, <2>5
<1> QED
  BY <1>3, <1>4

LEMMA AdvanceKeeps ==
  ASSUME ResamplerInv, AdvanceInput
  PROVE  ResamplerInv'
<1> USE DEF ResamplerInv, AdvanceInput, Advanced, format, ResamplerTypeOK
<1>1. ResamplerTypeOK' /\ (Identical => InRate = OutRate)'
  OBVIOUS
<1>2. consumed' * OutRate' = consumed * OutRate + OutRate /\ consumed * OutRate \in Int /\ produced * InRate \in Int
  BY Distributes
<1>3. Position'
  BY <1>2 DEF Position
<1>4. (length' - nInSamples') * OutRate' = (length - nInSamples) * OutRate + OutRate
      /\ (length - nInSamples) * OutRate \in Int /\ count * InRate \in Int
  <2>1. length' - nInSamples' = (length - nInSamples) + 1 /\ length - nInSamples \in Int
    OBVIOUS
  <2> QED
    BY <2>1, Distributes
<1>5. BlockSoFar'
  BY <1>4 DEF BlockSoFar
<1> QED
  BY <1>1, <1>3, <1>5

LEMMA GenerateKeeps ==
  ASSUME ResamplerInv, GenerateOutput
  PROVE  ResamplerInv'
<1> USE DEF ResamplerInv, GenerateOutput, format, ResamplerTypeOK
<1>1. ResamplerTypeOK' /\ (Identical => InRate = OutRate)'
  OBVIOUS
<1>2. produced' * InRate' = produced * InRate + InRate /\ produced * InRate \in Int /\ consumed * OutRate \in Int
  BY Distributes
<1>3. Position'
  BY <1>2 DEF Position
<1>4. count' * InRate' = count * InRate + InRate /\ count * InRate \in Int /\ (length - nInSamples) * OutRate \in Int
  BY Distributes
<1>5. BlockSoFar'
  BY <1>4 DEF BlockSoFar
<1> QED
  BY <1>1, <1>3, <1>5

LEMMA InitHolds ==
  ASSUME NEW in \in Nat \ {0}, NEW out \in Nat \ {0}, NEW chans \in {1, 2}, NEW same \in BOOLEAN,
         ResamplerInit(in, out, chans, same)
  PROVE  ResamplerInv
<1>1. 0 * in = 0 /\ 0 * out = 0 /\ (0 - 0) * out = 0
  OBVIOUS
<1>2. ResamplerTypeOK
  BY DEF ResamplerInit, ResamplerTypeOK
<1>3. Identical => InRate = OutRate
  BY DEF ResamplerInit
<1>4. Position /\ BlockSoFar
  BY <1>1 DEF ResamplerInit, Position, BlockSoFar
<1> QED
  BY <1>2, <1>3, <1>4 DEF ResamplerInv

LEMMA Inductive == ResamplerSpec => []ResamplerInv
<1>1. ASSUME NEW in \in Rates, NEW out \in Rates, NEW chans \in {1, 2}, NEW same \in BOOLEAN,
             ResamplerInit(in, out, chans, same)
      PROVE  ResamplerInv
  BY <1>1, InitHolds, ResamplerAssumption
<1>2. ASSUME ResamplerInv, [ResamplerNext]_resampler PROVE ResamplerInv'
  <2>1. CASE ResamplerStep
    BY <1>2, <2>1, AdvanceKeeps, GenerateKeeps DEF ResamplerStep
  <2>2. ASSUME NEW n \in 0..MaxBlock, ResampleBlock(n) PROVE ResamplerInv'
    BY <1>2, <2>2, BlockKeeps, n \in Nat
  <2>3. ASSUME NEW in \in Rates, NEW out \in Rates, NEW chans \in {1, 2}, NEW same \in BOOLEAN,
               Setup(in, out, chans, same)
        PROVE ResamplerInv'
    BY <2>3, SetupKeeps, ResamplerAssumption
  <2>4. CASE UNCHANGED resampler
    BY <1>2, <2>4 DEF resampler, format, ResamplerInv, ResamplerTypeOK, Position, BlockSoFar
  <2> QED
    BY <1>2, <2>1, <2>2, <2>3, <2>4 DEF ResamplerNext
<1>3. (\E in, out \in Rates, chans \in {1, 2}, same \in BOOLEAN : ResamplerInit(in, out, chans, same)) => ResamplerInv
  BY <1>1
<1> QED
  BY <1>2, <1>3, PTL DEF ResamplerSpec

LEMMA BetweenBlocks == ResamplerInv => NoDrift
<1> SUFFICES ASSUME ResamplerInv, nInSamples = 0
             PROVE  /\ consumed * OutRate <= produced * InRate
                    /\ produced * InRate < consumed * OutRate + InRate
  BY DEF NoDrift
<1>1. produced * InRate \in Int /\ consumed * OutRate \in Int /\ tFrac \in Nat /\ InRate \in Nat
  BY DEF ResamplerInv, ResamplerTypeOK
<1> QED
  BY <1>1 DEF ResamplerInv, Position

(* Between blocks the output is the input's worth, rounded up, however the stream was
   cut into blocks: the sound does not drift from the picture (audio_resample.cpp:72-94). *)
THEOREM SoundDoesNotDrift == ResamplerSpec => []NoDrift
BY BetweenBlocks, Inductive, PTL

LEMMA WithinBuffer == ResamplerInv => OutputFits
<1> SUFFICES ASSUME ResamplerInv, InRate <= 8 * OutRate
             PROVE  count <= MaxOutputSamples(length)
  BY DEF OutputFits
<1>1. /\ InRate \in Nat \ {0} /\ OutRate \in Nat \ {0} /\ count \in Nat /\ length \in Nat
      /\ nInSamples \in Nat /\ tFrac \in Nat /\ nInSamples <= length
  BY DEF ResamplerInv, ResamplerTypeOK, BlockSoFar
<1>2. count * InRate < length * OutRate + InRate
  <2>1. (length - nInSamples) * OutRate = length * OutRate - nInSamples * OutRate
    BY <1>1, Distributes
  <2>2. nInSamples = 0 => nInSamples * OutRate = 0
    BY <1>1
  <2>3. nInSamples > 0 => nInSamples * OutRate >= OutRate
    <3>1. nInSamples * OutRate = (nInSamples - 1) * OutRate + OutRate
      BY <1>1, Distributes
    <3>2. nInSamples > 0 => (nInSamples - 1) * OutRate \in Nat
      BY <1>1
    <3> QED
      BY <3>1, <3>2, <1>1
  <2>4. count * InRate \in Int /\ length * OutRate \in Int /\ nInSamples * OutRate \in Int
    BY <1>1
  <2>5. count * InRate <= tFrac + (length - nInSamples) * OutRate
        /\ tFrac < OutRate + InRate /\ (nInSamples = 0 => tFrac < InRate)
    BY DEF ResamplerInv, BlockSoFar, Position
  <2> QED
    BY <1>1, <2>1, <2>2, <2>3, <2>4, <2>5
<1>3. (length + 4) * OutRate = length * OutRate + 4 * OutRate
  BY <1>1, Distributes
<1>4. InRate \div 2 \in Nat /\ 2 * (InRate \div 2) >= InRate - 1
  BY <1>1
<1>5. count * InRate <= (length + 4) * OutRate + InRate \div 2
  <2>1. count * InRate \in Int /\ length * OutRate \in Int
    BY <1>1
  <2> QED
    BY <1>1, <1>2, <1>3, <1>4, <2>1
<1>6. (length + 4) * OutRate + InRate \div 2 \in Nat
  BY <1>1, <1>4
<1> QED
  BY <1>1, <1>5, <1>6, QuotientBounds DEF MaxOutputSamples

(* A block never writes past the space MaxOutputSamples asks for, unless the source has
   more than eight times the rate of the target (audio_resample.cpp:298-303). *)
THEOREM OutputAlwaysFits == ResamplerSpec => []OutputFits
BY WithinBuffer, Inductive, PTL

-----------------------------------------------------------------------------
(* The writers. *)

HeadIs(step) == todo # <<>> /\ todo[1][1] = step
LastIs(step) == todo # <<>> /\ todo[Len(todo)][1] = step

(* The picture of a call of WriteFrame is still to come. *)
Pending == LastIs("segment") \/ LastIs("writeVideo")

(* Which step may come after which, in every stack of steps. *)
Follows == {<<"startEncode", "segment">>, <<"cleanup", "init">>, <<"init", "startEncode">>,
            <<"startEncode", "startAudio">>, <<"startEncode", "writeVideo">>,
            <<"startAudio", "writeVideo">>, <<"startAudio", "block">>,
            <<"fill", "writeVideo">>, <<"fill", "block">>, <<"block", "fill">>, <<"resampled", "fill">>}

StackInv ==
  /\ \A i \in 1..Len(todo)-1 : <<todo[i][1], todo[i+1][1]>> \in Follows
  /\ todo # <<>> => todo[Len(todo)][1] \in {"segment", "writeVideo", "block", "resampled", "fill"}
  /\ HeadIs("cleanup") \/ HeadIs("init") => LastIs("writeVideo")
  /\ kind = "bmp" => \A i \in 1..Len(todo) : todo[i][1] \in {"writeVideo", "fill", "block"}
  /\ deleted => todo = <<>>

(* Whoever needs the format of the sound has been told it. *)
SoundInv ==
  /\ soundDue => sounding
  /\ wfx \notin Format => ~sounding /\ ~aud /\ \A i \in 1..Len(todo) : todo[i][1] # "startAudio"

(* A file is open completely or given up, and only the last one is unfinished. *)
OpenInv ==
  /\ (initialized <=> vid) /\ (vid => file)
  /\ segment > 0 /\ unfinished \subseteq {segment}
  /\ HeadIs("cleanup") => initialized
  /\ HeadIs("init") => unfinished = {}
  /\ kind = "bmp" => ~file /\ ~initialized /\ unfinished = {}

(* Where the next picture goes, as long as nothing fails. *)
NextPlace ==
  filed # <<>> =>
    LET last == filed[Len(filed)]
    IN  \/ ~HeadIs("startEncode") /\ last = <<segment, frame - 1>>
        \/ /\ last[1] + 1 = segment /\ LastIs("writeVideo")
           /\ HeadIs("startEncode") \/ (frame = 0 /\ ~HeadIs("cleanup") /\ ~HeadIs("init"))

FiledInOrder ==
  \A i \in 1..Len(filed)-1 :
    \/ filed[i+1] = <<filed[i][1], filed[i][2] + 1>>
    \/ filed[i+1] = <<filed[i][1] + 1, 0>>

FiledInv ==
  failures = 0 =>
    /\ ~fault
    /\ kind = "vfw" /\ ~deleted /\ ~HeadIs("init") => initialized
    /\ deleted => unfinished = {}
    /\ kind = "vfw" /\ ~formatSet => frame = 0 /\ filed = <<>> /\ (Pending => HeadIs("startEncode"))
    /\ Len(filed) + (IF Pending THEN 1 ELSE 0) = pictures
    /\ NextPlace /\ FiledInOrder

WritersInv == WritersTypeOK /\ ResamplerInv /\ StackInv /\ SoundInv /\ OpenInv /\ FiledInv

-----------------------------------------------------------------------------
LEMMA Constants ==
  /\ Rates \subseteq Nat \ {0} /\ Bits \subseteq {8, 16, 32}
  /\ FrameRate \in Nat \ {0} /\ BlockLength \in Nat \ {0} /\ FrameBytes \in Nat \ {0} /\ Limit \in Nat \ {0}
  /\ Garbage \in Nat /\ MaxPictures \in Nat /\ MaxFormats \in Nat /\ MaxFailures \in Nat
BY ResamplerAssumption, WritersAssumption

LEMMA QuotientType == \A x \in Nat : x \div FrameRate \in Nat
BY Constants

LEMMA SilenceType == \A n \in Nat, r \in Nat : SamplesNear(n, r) \in Nat
<1> TAKE n \in Nat, r \in Nat
<1>1. n * r \in Nat /\ FrameRate \div 2 \in Nat
  BY Constants
<1>2. n * r + FrameRate \div 2 \in Nat
  BY <1>1
<1> QED
  BY <1>2, QuotientType DEF SamplesNear

(* A frame has no fewer than no samples. *)
LEMMA FrameType == \A n \in Nat, r \in Nat : SamplesIn(n + 1, r) - SamplesIn(n, r) \in Nat
<1> TAKE n \in Nat, r \in Nat
<1> DEFINE x == n * r
<1>1. x \in Nat /\ (n + 1) * r = x + r
  OBVIOUS
<1>2. SamplesIn(n + 1, r) = (x + r) \div FrameRate /\ SamplesIn(n, r) = x \div FrameRate
  BY <1>1 DEF SamplesIn
<1> HIDE DEF x
<1>3. (x + r) \div FrameRate >= x \div FrameRate
  BY <1>1, Constants
<1>4. (x + r) \div FrameRate \in Nat /\ x \div FrameRate \in Nat
  BY <1>1, QuotientType
<1> QED
  BY <1>2, <1>3, <1>4

(* Formats and what the encoder makes of them. *)
LEMMA FormatType ==
  ASSUME NEW f \in Format
  PROVE  /\ f.rate \in Rates /\ f.rate \in Nat \ {0} /\ f.chans \in {1, 2}
         /\ f \in [rate : Rates, bits : Bits \union {16}, chans : {1, 2}]
         /\ Bounce(f) \in [rate : Rates, bits : Bits \union {16}, chans : {1, 2}]
<1>1. f.rate \in Rates /\ f.chans \in {1, 2} /\ f.bits \in Bits
  BY DEF Format
<1>2. f \in [rate : Rates, bits : Bits \union {16}, chans : {1, 2}]
  BY DEF Format
<1>3. [f EXCEPT !.bits = 16] \in [rate : Rates, bits : Bits \union {16}, chans : {1, 2}]
  BY <1>2
<1> QED
  BY <1>1, <1>2, <1>3, Constants DEF Bounce

-----------------------------------------------------------------------------
(* The stack of steps. *)

Stack == Seq(Steps \X Nat)

(* One stack of steps behind another. *)
LEMMA Behind ==
  ASSUME NEW s \in Stack, NEW t \in Stack
  PROVE  /\ s \o t \in Stack /\ Len(s \o t) = Len(s) + Len(t)
         /\ \A i \in 1..Len(s) : (s \o t)[i] = s[i]
         /\ \A i \in 1..Len(t) : (s \o t)[Len(s) + i] = t[i]
BY DEF Stack

(* What a step puts in the place of the first one. *)
LEMMA Replaced ==
  ASSUME todo \in Stack, todo # <<>>, NEW steps \in Stack, Continue(steps)
  PROVE  /\ todo' \in Stack /\ Len(todo') = Len(steps) + Len(todo) - 1 /\ Len(todo) > 0
         /\ \A i \in 1..Len(steps) : todo'[i] = steps[i]
         /\ \A i \in 2..Len(todo) : todo'[Len(steps) + i - 1] = todo[i]
         /\ Len(todo) > 1 => todo' # <<>> /\ todo'[Len(todo')] = todo[Len(todo)]
<1> DEFINE rest == Tail(todo)
<1>1. rest \in Stack /\ Len(rest) = Len(todo) - 1 /\ Len(todo) > 0 /\ Len(todo) \in Nat /\ Len(steps) \in Nat
      /\ \A i \in 1..Len(rest) : rest[i] = todo[i + 1]
  BY DEF Stack
<1>2. todo' = steps \o rest
  BY DEF Continue
<1> HIDE DEF rest
<1>3. /\ todo' \in Stack /\ Len(todo') = Len(steps) + Len(rest)
      /\ \A i \in 1..Len(steps) : todo'[i] = steps[i]
      /\ \A i \in 1..Len(rest) : todo'[Len(steps) + i] = rest[i]
  <2>1. steps \in Stack /\ rest \in Stack
    BY <1>1
  <2> QED
    BY <1>2, <2>1, Behind
<1>4. ASSUME NEW i \in 2..Len(todo) PROVE todo'[Len(steps) + i - 1] = todo[i]
  <2>1. i - 1 \in 1..Len(rest) /\ Len(steps) + (i - 1) = Len(steps) + i - 1 /\ (i - 1) + 1 = i
    BY <1>1
  <2> QED
    BY <1>1, <1>3, <2>1
<1>5. Len(todo) > 1 => todo' # <<>> /\ todo'[Len(todo')] = todo[Len(todo)]
  <2> SUFFICES ASSUME Len(todo) > 1 PROVE todo' # <<>> /\ todo'[Len(todo')] = todo[Len(todo)]
    OBVIOUS
  <2>1. Len(todo) \in 2..Len(todo) /\ Len(steps) + Len(todo) - 1 = Len(todo')
    BY <1>1, <1>3
  <2>2. Len(todo') > 0
    BY <1>1, <1>3
  <2> QED
    BY <1>4, <2>1, <2>2
<1> QED
  BY <1>1, <1>3, <1>4, <1>5

LEMMA HeadStep == \A step : At(step) <=> ~fault /\ HeadIs(step)
BY DEF At, HeadIs

LEMMA NextStep ==
  ASSUME todo \in Stack, StackInv, todo # <<>>
  PROVE  /\ Len(todo) \in Nat /\ Len(todo) >= 1
         /\ Len(todo) > 1 => <<todo[1][1], todo[2][1]>> \in Follows
         /\ HeadIs("startEncode") \/ HeadIs("cleanup") \/ HeadIs("init") \/ HeadIs("startAudio") => Len(todo) > 1
         /\ HeadIs("segment") \/ HeadIs("writeVideo") => Len(todo) = 1
<1>1. Len(todo) \in Nat /\ Len(todo) >= 1
  BY DEF Stack
<1>2. Len(todo) > 1 => <<todo[1][1], todo[2][1]>> \in Follows
  <2>1. Len(todo) > 1 => 1 \in 1..Len(todo)-1
    BY <1>1
  <2> QED
    BY <2>1 DEF StackInv
<1>3. Len(todo) = 1 => todo[1][1] \in {"segment", "writeVideo", "block", "resampled", "fill"}
  BY DEF StackInv
<1> DEFINE head == todo[1][1]
           n == Len(todo)
<1>4. head \in {"startEncode", "cleanup", "init", "startAudio"} => n > 1
  <2> HIDE DEF head
  <2>1. n = 1 => head \in {"segment", "writeVideo", "block", "resampled", "fill"}
    BY <1>3 DEF head
  <2> HIDE DEF n
  <2>2. n \in Nat /\ n >= 1
    BY <1>1 DEF n
  <2> QED
    BY <2>1, <2>2
<1>5. head \in {"segment", "writeVideo"} => n = 1
  <2>1. n > 1 => <<head, todo[2][1]>> \in Follows
    BY <1>2
  <2> HIDE DEF head, n
  <2>2. n > 1 => head \notin {"segment", "writeVideo"}
    BY <2>1 DEF Follows
  <2>3. n \in Nat /\ n >= 1
    BY <1>1 DEF n
  <2> QED
    BY <2>2, <2>3
<1> HIDE DEF n
<1>6. \A step : HeadIs(step) => head = step
  BY DEF HeadIs
<1> HIDE DEF head
<1> QED
  BY <1>1, <1>2, <1>4, <1>5, <1>6 DEF n

(* The first and the last step after a step has put others in its place. *)
LEMMA Continued ==
  ASSUME todo \in Stack, todo # <<>>, NEW steps \in Stack, Continue(steps)
  PROVE  /\ todo' \in Stack
         /\ steps # <<>> => \A s : HeadIs(s)' <=> steps[1][1] = s
         /\ steps = <<>> => \A s : HeadIs(s)' <=> Len(todo) > 1 /\ todo[2][1] = s
         /\ Len(todo) > 1 => todo' # <<>> /\ todo'[Len(todo')] = todo[Len(todo)] /\ \A s : LastIs(s)' <=> LastIs(s)
         /\ Len(todo) = 1 => todo' = steps
<1>1. /\ todo' \in Stack /\ Len(todo') = Len(steps) + Len(todo) - 1 /\ Len(todo) > 0
      /\ \A i \in 1..Len(steps) : todo'[i] = steps[i]
      /\ \A i \in 2..Len(todo) : todo'[Len(steps) + i - 1] = todo[i]
      /\ Len(todo) > 1 => todo' # <<>> /\ todo'[Len(todo')] = todo[Len(todo)]
  BY Replaced
<1>2. Len(todo) \in Nat /\ Len(steps) \in Nat /\ Len(todo') \in Nat /\ (steps = <<>> <=> Len(steps) = 0)
      /\ (todo' = <<>> <=> Len(todo') = 0)
  BY <1>1 DEF Stack
<1>3. steps # <<>> => todo' # <<>> /\ todo'[1] = steps[1]
  <2>1. steps # <<>> => 1 \in 1..Len(steps) /\ Len(todo') > 0
    BY <1>1, <1>2
  <2> QED
    BY <1>1, <1>2, <2>1
<1>4. steps = <<>> => (todo' # <<>> <=> Len(todo) > 1) /\ (Len(todo) > 1 => todo'[1] = todo[2])
  <2>1. steps = <<>> => (todo' # <<>> <=> Len(todo) > 1)
    BY <1>1, <1>2
  <2>2. steps = <<>> /\ Len(todo) > 1 => 2 \in 2..Len(todo) /\ Len(steps) + 2 - 1 = 1
    BY <1>2
  <2> QED
    BY <1>1, <2>1, <2>2
<1>5. Len(todo) = 1 => todo' = steps
  <2> DEFINE rest == Tail(todo)
  <2>1. rest \in Stack /\ (Len(todo) = 1 => Len(rest) = 0)
    BY <1>2 DEF Stack
  <2>2. todo' = steps \o rest
    BY DEF Continue
  <2> HIDE DEF rest
  <2>3. Len(todo) = 1 => rest = <<>>
    BY <2>1 DEF Stack
  <2>4. steps \o <<>> = steps
    BY DEF Stack
  <2> QED
    BY <2>2, <2>3, <2>4
<1> QED
  BY <1>1, <1>3, <1>4, <1>5 DEF HeadIs, LastIs

(* The order of the steps is kept where those put in fit what follows. *)
LEMMA StackKept ==
  ASSUME todo \in Stack, StackInv, todo # <<>>, NEW steps \in Stack, Continue(steps), UNCHANGED <<kind, deleted>>,
         \A i \in 1..Len(steps)-1 : <<steps[i][1], steps[i+1][1]>> \in Follows,
         steps # <<>> =>
           /\ steps[1][1] \notin {"cleanup", "init"}
           /\ Len(todo) > 1 => <<steps[Len(steps)][1], todo[2][1]>> \in Follows
           /\ Len(todo) = 1 => steps[Len(steps)][1] \in {"segment", "writeVideo", "block", "resampled", "fill"},
         kind = "bmp" => \A i \in 1..Len(steps) : steps[i][1] \in {"writeVideo", "fill", "block"}
  PROVE  StackInv'
<1> DEFINE k == Len(steps)
           n == Len(todo)
           pre == todo
           post == todo'
<1>1. /\ post \in Stack /\ Len(post) = k + n - 1 /\ n > 0 /\ n \in Nat /\ k \in Nat
      /\ \A i \in 1..k : post[i] = steps[i]
      /\ \A i \in 2..n : post[k + i - 1] = pre[i]
      /\ (steps = <<>> <=> k = 0)
  <2>1. /\ n \in Nat /\ k \in Nat /\ (steps = <<>> <=> k = 0)
    BY DEF Stack
  <2> HIDE DEF k, n, post, pre
  <2>2. /\ post \in Stack /\ Len(post) = k + n - 1 /\ n > 0
        /\ \A i \in 1..k : post[i] = steps[i]
        /\ \A i \in 2..n : post[k + i - 1] = pre[i]
    BY Replaced DEF k, n, post, pre
  <2> QED
    BY <2>1, <2>2
<1>2. /\ steps # <<>> => \A s : HeadIs(s)' <=> steps[1][1] = s
      /\ steps = <<>> => \A s : HeadIs(s)' <=> n > 1 /\ pre[2][1] = s
      /\ n > 1 => post # <<>> /\ post[Len(post)] = pre[n] /\ \A s : LastIs(s)' <=> LastIs(s)
      /\ n = 1 => post = steps
  BY Continued
<1>3. /\ \A i \in 1..n-1 : <<pre[i][1], pre[i+1][1]>> \in Follows
      /\ pre[n][1] \in {"segment", "writeVideo", "block", "resampled", "fill"}
      /\ (n > 1 => <<pre[1][1], pre[2][1]>> \in Follows)
      /\ (kind = "bmp" => \A i \in 1..n : pre[i][1] \in {"writeVideo", "fill", "block"})
  BY NextStep DEF StackInv
<1>4. /\ \A i \in 1..k-1 : <<steps[i][1], steps[i+1][1]>> \in Follows
      /\ k > 0 /\ n > 1 => <<steps[k][1], pre[2][1]>> \in Follows
      /\ k > 0 /\ n = 1 => steps[k][1] \in {"segment", "writeVideo", "block", "resampled", "fill"}
      /\ (kind = "bmp" => \A i \in 1..k : steps[i][1] \in {"writeVideo", "fill", "block"})
  BY <1>1
<1>5. ASSUME NEW i \in 1..Len(post)-1 PROVE <<post[i][1], post[i+1][1]>> \in Follows
  <2> HIDE DEF k, n, post, pre
  <2>1. i \in Nat /\ i >= 1 /\ i <= k + n - 2
    BY <1>1, <1>5
  <2>2. CASE i < k
    <3>1. i \in 1..k-1 /\ i \in 1..k /\ i + 1 \in 1..k
      BY <1>1, <2>1, <2>2
    <3>2. post[i] = steps[i] /\ post[i+1] = steps[i+1]
      BY <1>1, <3>1
    <3> QED
      BY <1>4, <3>1, <3>2
  <2>3. CASE i = k
    <3>1. i \in 1..k /\ n > 1 /\ k > 0 /\ 2 \in 2..n /\ k + 2 - 1 = i + 1
      BY <1>1, <2>1, <2>3
    <3>2. post[i] = steps[k] /\ post[i+1] = pre[2]
      BY <1>1, <2>3, <3>1
    <3> QED
      BY <1>4, <3>1, <3>2
  <2>4. CASE i > k
    <3> DEFINE j == i - k + 1
    <3>1. j \in 2..n /\ j + 1 \in 2..n /\ k + j - 1 = i /\ k + (j + 1) - 1 = i + 1 /\ j \in 1..n-1
      BY <1>1, <2>1, <2>4
    <3> HIDE DEF j
    <3>2. post[i] = pre[j] /\ post[i+1] = pre[j+1]
      BY <1>1, <3>1
    <3> QED
      BY <1>3, <3>1, <3>2
  <2> QED
    BY <1>1, <2>1, <2>2, <2>3, <2>4
<1>6. post # <<>> => post[Len(post)][1] \in {"segment", "writeVideo", "block", "resampled", "fill"}
  <2>1. CASE n > 1
    BY <1>2, <1>3, <2>1
  <2>2. CASE n = 1
    <3>1. post = steps
      BY <1>2, <2>2
    <3>2. post # <<>> => k > 0
      BY <1>1, <3>1
    <3> QED
      BY <1>4, <2>2, <3>1, <3>2
  <2> HIDE DEF n, k, post, pre
  <2> QED
    BY <1>1, <2>1, <2>2
<1>7. ASSUME HeadIs("cleanup")' \/ HeadIs("init")' PROVE LastIs("writeVideo")'
  <2>1. steps = <<>> /\ n > 1 /\ pre[2][1] \in {"cleanup", "init"}
    BY <1>2, <1>7
  <2>2. pre[1][1] = "cleanup"
    <3> DEFINE first == pre[1][1]
               second == pre[2][1]
    <3>1. <<first, second>> \in Follows /\ second \in {"cleanup", "init"}
      BY <1>3, <2>1
    <3> HIDE DEF first, second
    <3>2. first = "cleanup"
      BY <3>1 DEF Follows
    <3> QED
      BY <3>2 DEF first
  <2>3. LastIs("writeVideo")
    BY <2>2 DEF StackInv, HeadIs
  <2> QED
    BY <1>2, <2>1, <2>3
<1>8. ASSUME kind' = "bmp", NEW i \in 1..Len(post) PROVE post[i][1] \in {"writeVideo", "fill", "block"}
  <2>1. kind = "bmp"
    BY <1>8
  <2> HIDE DEF k, n, post, pre
  <2>2. CASE i <= k
    <3>1. i \in 1..k
      BY <1>1, <1>8, <2>2
    <3> QED
      BY <1>1, <1>4, <2>1, <3>1
  <2>3. CASE i > k
    <3> DEFINE j == i - k + 1
    <3>1. j \in 2..n /\ j \in 1..n /\ k + j - 1 = i
      BY <1>1, <1>8, <2>3
    <3> HIDE DEF j
    <3> QED
      BY <1>1, <1>3, <2>1, <3>1
  <2> QED
    BY <1>1, <1>8, <2>2, <2>3
<1>9. ~deleted'
  BY DEF StackInv
<1> QED
  BY <1>5, <1>6, <1>7, <1>8, <1>9 DEF StackInv

(* Which step comes to the front when the first one is done. *)
LEMMA Popped ==
  ASSUME todo \in Stack, StackInv, todo # <<>>, Continue(<<>>)
  PROVE  /\ kind' = kind /\ deleted' = deleted => StackInv'
         /\ ~HeadIs("cleanup")'
         /\ HeadIs("init")' <=> HeadIs("cleanup")
         /\ HeadIs("startEncode")' <=> HeadIs("init")
         /\ HeadIs("startAudio")' => HeadIs("startEncode")
<1> DEFINE first == todo[1][1]
           second == todo[2][1]
           n == Len(todo)
<1>1. <<>> \in Stack
  BY DEF Stack
<1>2. ASSUME UNCHANGED <<kind, deleted>> PROVE StackInv'
  <2> DEFINE steps == <<>>
  <2>1. steps \in Stack /\ steps = <<>> /\ Continue(steps)
    BY <1>1
  <2>2. \A i \in Int : i \notin 1..Len(steps)-1 /\ i \notin 1..Len(steps)
    OBVIOUS
  <2> HIDE DEF steps
  <2>3. /\ \A i \in 1..Len(steps)-1 : <<steps[i][1], steps[i+1][1]>> \in Follows
        /\ \A i \in 1..Len(steps) : steps[i][1] \in {"writeVideo", "fill", "block"}
    BY <2>2
  <2> QED
    BY <1>2, <2>1, <2>3, StackKept
<1>3. \A s : HeadIs(s)' <=> n > 1 /\ second = s
  BY <1>1, Continued
<1>4. \A s : HeadIs(s) <=> first = s
  BY DEF HeadIs
<1>5. /\ n > 1 => <<first, second>> \in Follows
      /\ first \in {"startEncode", "cleanup", "init", "startAudio"} => n > 1
  BY NextStep, <1>4
<1> HIDE DEF first, second, n
<1>6. n > 1 => /\ second # "cleanup" /\ (second = "init" <=> first = "cleanup")
               /\ (second = "startEncode" <=> first = "init") /\ (second = "startAudio" => first = "startEncode")
  BY <1>5 DEF Follows
<1> QED
  BY <1>2, <1>3, <1>4, <1>5, <1>6

(* A step of the sound leaves the sound's steps and the picture's behind it. *)
SoundSteps == {"fill", "block", "resampled"}

LEMMA SoundStepsKeepOrder ==
  ASSUME todo \in Stack, StackInv, todo # <<>>, NEW steps \in Stack, Continue(steps),
         HeadIs("startAudio") \/ HeadIs("fill") \/ HeadIs("block") \/ HeadIs("resampled"),
         steps # <<>> => steps[1][1] \in SoundSteps /\ (Len(todo) = 1 => steps[Len(steps)][1] \in SoundSteps)
  PROVE  /\ \A s \in {"cleanup", "init", "startEncode"} : ~HeadIs(s) /\ ~HeadIs(s)'
         /\ \A s \in {"segment", "writeVideo"} : LastIs(s)' <=> LastIs(s)
<1>1. \A s \in {"cleanup", "init", "startEncode"} : ~HeadIs(s)
  BY DEF HeadIs
<1>2. \A s \in {"cleanup", "init", "startEncode"} : ~HeadIs(s)'
  <2>1. CASE steps = <<>>
    <3>1. Continue(<<>>)
      BY <2>1
    <3> QED
      BY <1>1, <3>1, Popped
  <2>2. CASE steps # <<>>
    <3>1. \A s : HeadIs(s)' <=> steps[1][1] = s
      BY <2>2, Continued
    <3> QED
      BY <2>2, <3>1 DEF SoundSteps
  <2> QED
    BY <2>1, <2>2
<1>3. \A s \in {"segment", "writeVideo"} : LastIs(s)' <=> LastIs(s)
  <2>1. Len(todo) > 1 \/ Len(todo) = 1
    <3>1. Len(todo) \in Nat /\ Len(todo) >= 1
      BY NextStep
    <3>2. \A n \in Nat : n >= 1 => n > 1 \/ n = 1
      OBVIOUS
    <3> QED
      BY <3>1, <3>2
  <2>2. CASE Len(todo) > 1
    BY <2>2, Continued
  <2>3. CASE Len(todo) = 1
    <3>1. todo' = steps
      BY <2>3, Continued
    <3>2. \A s \in {"segment", "writeVideo"} : ~LastIs(s)
      <4>1. todo[Len(todo)][1] = todo[1][1]
        BY <2>3
      <4>2. todo[1][1] \in {"startAudio", "fill", "block", "resampled"}
        BY DEF HeadIs
      <4> QED
        BY <4>1, <4>2 DEF LastIs
    <3>3. \A s \in {"segment", "writeVideo"} : ~LastIs(s)'
      BY <2>3, <3>1 DEF LastIs, SoundSteps
    <3> QED
      BY <3>2, <3>3
  <2> QED
    BY <2>1, <2>2, <2>3
<1> QED
  BY <1>1, <1>2, <1>3

LEMMA FiledKept ==
  ASSUME FiledInv, UNCHANGED <<kind, deleted, fault, initialized, unfinished, formatSet, frame, filed, segment, pictures>>,
         failures' = 0 => failures = 0,
         \A s \in {"cleanup", "init", "startEncode"} : ~HeadIs(s) /\ ~HeadIs(s)',
         \A s \in {"segment", "writeVideo"} : LastIs(s)' <=> LastIs(s)
  PROVE  FiledInv'
<1> SUFFICES ASSUME failures' = 0
             PROVE  /\ ~fault'
                    /\ kind' = "vfw" /\ ~deleted' /\ ~HeadIs("init")' => initialized'
                    /\ deleted' => unfinished' = {}
                    /\ kind' = "vfw" /\ ~formatSet' => frame' = 0 /\ filed' = <<>> /\ (Pending' => HeadIs("startEncode")')
                    /\ Len(filed') + (IF Pending' THEN 1 ELSE 0) = pictures'
                    /\ NextPlace' /\ FiledInOrder'
  BY DEF FiledInv
<1>1. Pending' <=> Pending
  BY DEF Pending
<1>2. NextPlace'
  BY DEF FiledInv, NextPlace
<1>3. FiledInOrder'
  BY DEF FiledInv, FiledInOrder
<1> QED
  BY <1>1, <1>2, <1>3 DEF FiledInv

LEMMA OpenKept ==
  ASSUME OpenInv, UNCHANGED <<kind, file, vid, initialized, unfinished, segment>>,
         HeadIs("cleanup")' => HeadIs("cleanup"), HeadIs("init")' => HeadIs("init")
  PROVE  OpenInv'
BY DEF OpenInv

LEMMA SoundKept ==
  ASSUME todo \in Stack, SoundInv, todo # <<>>, NEW steps \in Stack, Continue(steps),
         UNCHANGED <<soundDue, sounding, wfx>>, aud' /\ ~aud => wfx \in Format,
         \A i \in 1..Len(steps) : steps[i][1] = "startAudio" => wfx \in Format
  PROVE  SoundInv'
<1>1. /\ Len(todo') = Len(steps) + Len(todo) - 1 /\ Len(todo) > 0
      /\ \A i \in 1..Len(steps) : todo'[i] = steps[i]
      /\ \A i \in 2..Len(todo) : todo'[Len(steps) + i - 1] = todo[i]
  BY Replaced
<1>2. Len(todo) \in Nat /\ Len(steps) \in Nat
  BY DEF Stack
<1>3. ASSUME wfx \notin Format, NEW i \in 1..Len(todo') PROVE todo'[i][1] # "startAudio"
  <2>1. CASE i <= Len(steps)
    <3>1. i \in 1..Len(steps)
      BY <1>2, <2>1
    <3> QED
      BY <1>1, <1>3, <3>1
  <2>2. CASE i > Len(steps)
    <3> DEFINE j == i - Len(steps) + 1
    <3>1. j \in 2..Len(todo) /\ j \in 1..Len(todo) /\ Len(steps) + j - 1 = i
      BY <1>1, <1>2, <1>3, <2>2
    <3> HIDE DEF j
    <3>2. todo'[i] = todo[j]
      BY <1>1, <3>1
    <3> QED
      BY <1>3, <3>1, <3>2 DEF SoundInv
  <2> QED
    BY <1>2, <2>1, <2>2
<1> QED
  BY <1>3 DEF SoundInv

LEMMA ResamplerSame ==
  ASSUME ResamplerInv, UNCHANGED resampler
  PROVE  ResamplerInv'
BY DEF resampler, format, ResamplerInv, ResamplerTypeOK, Position, BlockSoFar

-----------------------------------------------------------------------------
(* The calls keep the invariant. *)

LEMMA Pair ==
  ASSUME NEW S, NEW a \in S, NEW b \in S
  PROVE  <<a>> \o <<b>> = <<a, b>> /\ <<>> \o <<b>> = <<b>>
<1> DEFINE s == <<a>> \o <<b>>
<1>1. s \in Seq(S) /\ Len(s) = 2 /\ s[1] = a /\ s[2] = b
  OBVIOUS
<1> HIDE DEF s
<1>2. s = <<a, b>>
  BY <1>1
<1>3. <<>> \o <<b>> = <<b>>
  OBVIOUS
<1> QED
  BY <1>2, <1>3 DEF s

LEMMA Joined ==
  ASSUME NEW s \in Steps, NEW t \in Steps, NEW x \in Nat, NEW y \in Nat
  PROVE  /\ <<<<s, x>>>> \o <<<<t, y>>>> = <<<<s, x>>, <<t, y>>>>
         /\ <<>> \o <<<<t, y>>>> = <<<<t, y>>>>
<1> DEFINE a == <<s, x>>
           b == <<t, y>>
<1>1. a \in Steps \X Nat /\ b \in Steps \X Nat
  OBVIOUS
<1> HIDE DEF a, b
<1>2. <<a>> \o <<b>> = <<a, b>> /\ <<>> \o <<b>> = <<b>>
  BY <1>1, Pair
<1> QED
  BY <1>2 DEF a, b

LEMMA NothingToDo ==
  ASSUME todo = <<>>
  PROVE  ~Pending /\ \A s : ~HeadIs(s) /\ ~LastIs(s)
BY DEF Pending, HeadIs, LastIs

(* The empty stack and the stack of one sound step are in order. *)
LEMMA EmptyStack ==
  ASSUME todo' = <<>>
  PROVE  StackInv' /\ ~Pending' /\ \A s : ~HeadIs(s)' /\ ~LastIs(s)'
<1>1. \A i \in Int : i \notin 1..Len(todo')-1 /\ i \notin 1..Len(todo')
  OBVIOUS
<1> QED
  BY <1>1 DEF StackInv, Pending, HeadIs, LastIs

LEMMA OneStep ==
  ASSUME NEW s \in {"segment", "writeVideo", "block", "resampled", "fill"}, NEW x \in Nat,
         todo' = <<<<s, x>>>>, ~deleted', kind' = "bmp" => s \in {"writeVideo", "fill", "block"}
  PROVE  /\ StackInv' /\ todo' \in Stack /\ \A t : (HeadIs(t)' <=> t = s) /\ (LastIs(t)' <=> t = s)
         /\ \A i \in 1..Len(todo') : todo'[i][1] # "startAudio"
<1>1. Len(todo') = 1 /\ todo'[1][1] = s /\ todo' # <<>>
  OBVIOUS
<1>2. todo' \in Stack
  BY DEF Stack, Steps
<1>3. \A t : (HeadIs(t)' <=> t = s) /\ (LastIs(t)' <=> t = s)
  BY <1>1 DEF HeadIs, LastIs
<1>4. \A i \in 1..Len(todo')-1 : <<todo'[i][1], todo'[i+1][1]>> \in Follows
  BY <1>1
<1>5. kind' = "bmp" => \A i \in 1..Len(todo') : todo'[i][1] \in {"writeVideo", "fill", "block"}
  BY <1>1
<1>6. StackInv'
  BY <1>1, <1>3, <1>4, <1>5 DEF StackInv
<1>7. \A i \in 1..Len(todo') : todo'[i][1] # "startAudio"
  BY <1>1
<1> QED
  BY <1>2, <1>3, <1>6, <1>7

LEMMA TwoSteps ==
  ASSUME NEW s, NEW t, <<s, t>> \in {<<"startEncode", "segment">>, <<"startAudio", "block">>},
         NEW x \in Nat, NEW y \in Nat,
         todo' = <<<<s, x>>, <<t, y>>>>, ~deleted', kind' = "vfw"
  PROVE  /\ StackInv' /\ todo' \in Stack /\ \A r : (HeadIs(r)' <=> r = s) /\ (LastIs(r)' <=> r = t)
         /\ \A i \in 1..Len(todo') : todo'[i][1] = "startAudio" => s = "startAudio"
<1>1. Len(todo') = 2 /\ todo'[1][1] = s /\ todo'[2][1] = t /\ todo' # <<>>
  OBVIOUS
<1>2. s \in Steps /\ t \in Steps
  BY DEF Steps
<1>3. todo' \in Stack
  BY <1>2 DEF Stack
<1>4. \A r : (HeadIs(r)' <=> r = s) /\ (LastIs(r)' <=> r = t)
  BY <1>1 DEF HeadIs, LastIs
<1>5. <<s, t>> \in Follows
  BY DEF Follows
<1>6. \A i \in 1..Len(todo')-1 : <<todo'[i][1], todo'[i+1][1]>> \in Follows
  <2>1. \A i \in 1..Len(todo')-1 : i = 1
    BY <1>1
  <2> QED
    BY <1>1, <1>5, <2>1
<1>7. StackInv'
  BY <1>1, <1>4, <1>6 DEF StackInv
<1>8. \A i \in 1..Len(todo') : todo'[i][1] = "startAudio" => s = "startAudio"
  <2>1. \A i \in 1..Len(todo') : i = 1 \/ i = 2
    BY <1>1
  <2> QED
    BY <1>1, <2>1
<1> QED
  BY <1>3, <1>4, <1>7, <1>8

LEMMA SetSizeKeeps ==
  ASSUME WritersInv, SetSize
  PROVE  WritersInv'
<1> USE DEF WritersInv
<1>1. /\ todo = <<>> /\ todo' = <<>> /\ pictures = 0
      /\ UNCHANGED <<kind, segment, formatSet, filed, file, vid, aud, initialized, unfinished, pictures, failures,
                     deleted, fault, soundDue, sounding, wfx, resampler>>
      /\ frame' = IF kind = "bmp" THEN 0 ELSE frame
  BY DEF SetSize, Ready, driver, ghosts, files, sound
<1>2. ResamplerInv'
  BY <1>1, ResamplerSame
<1>3. WritersTypeOK'
  BY <1>2 DEF SetSize, ResamplerInv, WritersTypeOK, driver, ghosts, files, sound
<1>4. StackInv' /\ ~Pending' /\ \A s : ~HeadIs(s)' /\ ~LastIs(s)'
  BY <1>1, EmptyStack
<1>5. SoundInv' /\ OpenInv'
  BY <1>1, <1>4 DEF SoundInv, OpenInv
<1>6. FiledInv'
  <2> SUFFICES ASSUME failures = 0 PROVE FiledInv'
    BY <1>1 DEF FiledInv
  <2>1. Len(filed) = 0 /\ ~Pending
    BY <1>1, NothingToDo DEF FiledInv
  <2>2. filed = <<>> /\ filed' = <<>>
    BY <1>1, <2>1 DEF WritersTypeOK
  <2>3. NextPlace' /\ FiledInOrder'
    BY <1>1, <2>2 DEF NextPlace, FiledInOrder, FiledInv
  <2>4. \A s : ~HeadIs(s)
    BY <1>1, NothingToDo
  <2> QED
    BY <1>1, <1>4, <2>1, <2>2, <2>3, <2>4 DEF FiledInv
<1> QED
  BY <1>2, <1>3, <1>4, <1>5, <1>6

LEMMA WriteFrameKeeps ==
  ASSUME WritersInv, WriteFrame
  PROVE  WritersInv'
<1> USE DEF WritersInv
<1>1. /\ todo = <<>> /\ ~deleted /\ ~fault /\ pictures < MaxPictures /\ pictures' = pictures + 1 /\ soundDue' = sounding
      /\ UNCHANGED <<kind, segment, formatSet, frame, filed, file, vid, aud, initialized, unfinished, failures,
                     deleted, fault, sounding, wfx, resampler>>
  BY DEF WriteFrame, Ready, files, sound, counters
<1>2. \/ kind = "bmp" /\ todo' = <<<<"writeVideo", 0>>>>
      \/ kind = "vfw" /\ frame = 0 /\ ~formatSet /\ todo' = <<<<"startEncode", 0>>, <<"segment", 0>>>>
      \/ kind = "vfw" /\ ~(frame = 0 /\ ~formatSet) /\ todo' = <<<<"segment", 0>>>>
  <2>1. kind \in {"vfw", "bmp"} /\ "startEncode" \in Steps /\ "segment" \in Steps
    BY DEF WritersTypeOK, Steps
  <2>2. /\ <<<<"startEncode", 0>>>> \o <<<<"segment", 0>>>> = <<<<"startEncode", 0>>, <<"segment", 0>>>>
        /\ <<>> \o <<<<"segment", 0>>>> = <<<<"segment", 0>>>>
    BY <2>1, Joined
  <2> QED
    BY <2>1, <2>2 DEF WriteFrame
<1> DEFINE head == IF kind = "bmp" THEN "writeVideo" ELSE IF frame = 0 /\ ~formatSet THEN "startEncode" ELSE "segment"
           end == IF kind = "bmp" THEN "writeVideo" ELSE "segment"
<1>3. /\ StackInv' /\ todo' \in Stack /\ \A t : (HeadIs(t)' <=> t = head) /\ (LastIs(t)' <=> t = end)
      /\ \A i \in 1..Len(todo') : todo'[i][1] # "startAudio"
  <2>1. CASE kind = "bmp" /\ todo' = <<<<"writeVideo", 0>>>>
    BY <1>1, <2>1, OneStep
  <2>2. CASE kind = "vfw" /\ frame = 0 /\ ~formatSet /\ todo' = <<<<"startEncode", 0>>, <<"segment", 0>>>>
    BY <1>1, <2>2, TwoSteps
  <2>3. CASE kind = "vfw" /\ ~(frame = 0 /\ ~formatSet) /\ todo' = <<<<"segment", 0>>>>
    BY <1>1, <2>3, OneStep
  <2> QED
    BY <1>2, <2>1, <2>2, <2>3
<1>4. ResamplerInv'
  BY <1>1, ResamplerSame
<1>5. WritersTypeOK'
  <2>1. pictures' \in 0..MaxPictures
    BY <1>1, Constants DEF WritersTypeOK
  <2>2. steady' \in BOOLEAN
    BY DEF WriteFrame
  <2> QED
    BY <1>3, <1>4, <2>1, <2>2 DEF WriteFrame, ResamplerInv, WritersTypeOK, Stack, files, sound, counters
<1>6. SoundInv'
  BY <1>1, <1>3 DEF SoundInv
<1>7. OpenInv'
  BY <1>1, <1>3 DEF OpenInv
<1>8. FiledInv'
  <2> SUFFICES ASSUME failures = 0 PROVE FiledInv'
    BY <1>1 DEF FiledInv
  <2>1. ~Pending /\ \A s : ~HeadIs(s) /\ ~LastIs(s)
    BY <1>1, NothingToDo
  <2>2. Pending'
    BY <1>3 DEF Pending
  <2>3. Len(filed') + 1 = pictures'
    BY <1>1, <2>1 DEF FiledInv, WritersTypeOK
  <2>4. kind = "vfw" /\ ~formatSet => frame = 0 /\ filed = <<>>
    BY DEF FiledInv
  <2>5. NextPlace' /\ FiledInOrder'
    <3>1. filed # <<>> => ~HeadIs("startEncode")'
      <4>1. filed # <<>> => kind = "bmp" \/ formatSet
        BY <2>4 DEF WritersTypeOK
      <4> QED
        BY <1>3, <4>1
    <3> QED
      BY <1>1, <2>1, <3>1 DEF FiledInv, NextPlace, FiledInOrder
  <2>6. kind' = "vfw" /\ ~formatSet' => frame' = 0 /\ filed' = <<>> /\ HeadIs("startEncode")'
    BY <1>1, <1>3, <2>4
  <2>7. kind' = "vfw" => initialized'
    BY <1>1, <2>1 DEF FiledInv
  <2> QED
    BY <1>1, <2>2, <2>3, <2>5, <2>6, <2>7 DEF FiledInv
<1> QED
  BY <1>3, <1>4, <1>5, <1>6, <1>7, <1>8

LEMMA WriteAudioFrameKeeps ==
  ASSUME WritersInv, WriteAudioFrame
  PROVE  WritersInv'
<1> USE DEF WritersInv
<1> DEFINE n == SamplesIn(since + 1, wfx.rate) - SamplesIn(since, wfx.rate)
<1>1. /\ todo = <<>> /\ ~deleted /\ soundDue /\ soundDue' = FALSE /\ since' = since + 1
      /\ UNCHANGED <<kind, segment, formatSet, frame, filed, file, vid, aud, initialized, unfinished, pictures, failures,
                     deleted, fault, sounding, wfx, resampler>>
  BY DEF WriteAudioFrame, Ready, files, sound, counters, ghosts
<1>2. wfx \in Format /\ n \in Nat
  <2>1. wfx \in Format
    BY <1>1 DEF SoundInv
  <2>2. wfx.rate \in Nat /\ since \in Nat
    BY <2>1, FormatType DEF WritersTypeOK
  <2> QED
    BY <2>1, <2>2, FrameType
<1>3. \/ kind = "vfw" /\ todo' = <<<<"startAudio", 0>>, <<"block", n>>>>
      \/ todo' = <<<<"block", n>>>>
  <2>1. "startAudio" \in Steps /\ "block" \in Steps
    BY DEF Steps
  <2>2. /\ <<<<"startAudio", 0>>>> \o <<<<"block", n>>>> = <<<<"startAudio", 0>>, <<"block", n>>>>
        /\ <<>> \o <<<<"block", n>>>> = <<<<"block", n>>>>
    BY <1>2, <2>1, Joined
  <2> QED
    BY <2>2 DEF WriteAudioFrame
<1> HIDE DEF n
<1>4. /\ StackInv' /\ todo' \in Stack
      /\ \A s \in {"cleanup", "init", "startEncode"} : ~HeadIs(s) /\ ~HeadIs(s)'
      /\ \A s \in {"segment", "writeVideo"} : LastIs(s)' <=> LastIs(s)
  <2>1. \A s : ~HeadIs(s) /\ ~LastIs(s)
    BY <1>1, NothingToDo
  <2>2. CASE kind = "vfw" /\ todo' = <<<<"startAudio", 0>>, <<"block", n>>>>
    BY <1>1, <1>2, <2>1, <2>2, TwoSteps
  <2>3. CASE todo' = <<<<"block", n>>>>
    BY <1>1, <1>2, <2>1, <2>3, OneStep
  <2> QED
    BY <1>3, <2>2, <2>3
<1>5. ResamplerInv'
  BY <1>1, ResamplerSame
<1>6. WritersTypeOK'
  <2>1. since' \in Nat
    BY <1>1 DEF WritersTypeOK
  <2> QED
    BY <1>1, <1>4, <1>5, <2>1 DEF WriteAudioFrame, ResamplerInv, WritersTypeOK, Stack, files, sound, counters, ghosts
<1>7. SoundInv'
  BY <1>1, <1>2 DEF SoundInv
<1>8. OpenInv'
  BY <1>1, <1>4 DEF OpenInv
<1>9. FiledInv'
  BY <1>1, <1>4, FiledKept
<1> QED
  BY <1>4, <1>5, <1>6, <1>7, <1>8, <1>9

LEMMA SoundStopsKeeps ==
  ASSUME WritersInv, SoundStops
  PROVE  WritersInv'
<1> USE DEF WritersInv
<1>1. /\ todo = <<>> /\ todo' = <<>> /\ ~soundDue /\ sounding' = FALSE
      /\ UNCHANGED <<kind, segment, formatSet, frame, filed, file, vid, aud, initialized, unfinished, pictures, failures,
                     deleted, fault, soundDue, wfx, resampler>>
  BY DEF SoundStops, Ready, files, sound, counters, ghosts
<1>2. StackInv' /\ \A s : ~HeadIs(s)' /\ ~LastIs(s)'
  BY <1>1, EmptyStack
<1>3. \A s : ~HeadIs(s) /\ ~LastIs(s)
  BY <1>1, NothingToDo
<1>4. ResamplerInv'
  BY <1>1, ResamplerSame
<1>5. WritersTypeOK'
  BY <1>4 DEF SoundStops, ResamplerInv, WritersTypeOK, files, sound, counters, ghosts
<1>6. SoundInv' /\ OpenInv'
  BY <1>1, <1>2 DEF SoundInv, OpenInv
<1>7. FiledInv'
  BY <1>1, <1>2, <1>3, FiledKept
<1> QED
  BY <1>2, <1>4, <1>5, <1>6, <1>7

LEMMA DeleteKeeps ==
  ASSUME WritersInv, Delete
  PROVE  WritersInv'
<1> USE DEF WritersInv
<1>1. /\ todo = <<>> /\ todo' = <<>> /\ deleted' = TRUE /\ ~deleted
      /\ UNCHANGED <<kind, segment, formatSet, frame, filed, pictures, failures,
                     fault, soundDue, sounding, wfx, resampler>>
  BY DEF Delete, Ready, driver, sound, counters, ghosts
<1>2. \/ /\ kind = "vfw" /\ initialized /\ ~file' /\ ~vid' /\ ~aud' /\ ~initialized'
         /\ unfinished' = unfinished \ {segment}
      \/ /\ kind = "vfw" /\ ~initialized /\ UNCHANGED <<file, vid, aud, initialized, unfinished>>
      \/ /\ kind = "bmp" /\ ~aud' /\ UNCHANGED <<file, vid, initialized, unfinished>>
  BY DEF Delete, Cleanup, files, WritersTypeOK
<1>3. StackInv' /\ ~Pending' /\ \A s : ~HeadIs(s)' /\ ~LastIs(s)'
  BY <1>1, EmptyStack
<1>4. ~Pending /\ \A s : ~HeadIs(s) /\ ~LastIs(s)
  BY <1>1, NothingToDo
<1>5. ResamplerInv'
  BY <1>1, ResamplerSame
<1>6. {file', vid', aud', initialized'} \subseteq BOOLEAN /\ unfinished' \subseteq 1..segment
  <2>1. {file', vid', aud', initialized'} \subseteq BOOLEAN
    BY <1>2 DEF WritersTypeOK, Delete, Cleanup, files
  <2> QED
    BY <1>2, <2>1 DEF WritersTypeOK
<1>7. WritersTypeOK'
  BY <1>1, <1>5, <1>6 DEF Delete, ResamplerInv, WritersTypeOK, driver, sound, counters, ghosts
<1>8. SoundInv'
  BY <1>1, <1>2 DEF SoundInv
<1>9. OpenInv'
  BY <1>1, <1>2, <1>3 DEF OpenInv
<1>10. FiledInv'
  <2> SUFFICES ASSUME failures = 0 PROVE FiledInv'
    BY <1>1 DEF FiledInv
  <2>1. unfinished' = {}
    <3>1. kind = "vfw" => initialized
      BY <1>1, <1>4 DEF FiledInv
    <3> QED
      BY <1>2, <3>1 DEF OpenInv
  <2>2. NextPlace' /\ FiledInOrder'
    BY <1>1, <1>3, <1>4 DEF FiledInv, NextPlace, FiledInOrder
  <2> QED
    BY <1>1, <1>3, <1>4, <2>1, <2>2 DEF FiledInv
<1> QED
  BY <1>3, <1>5, <1>7, <1>8, <1>9, <1>10

LEMMA SetAudioFormatKeeps ==
  ASSUME WritersInv, NEW f \in Format, SetAudioFormat(f)
  PROVE  WritersInv'
<1> USE DEF WritersInv
<1>1. /\ todo = <<>> /\ ~deleted /\ ~soundDue /\ ~soundDue' /\ formats < MaxFormats /\ formats' = formats + 1 /\ sounding' = TRUE
      /\ since' = 0 /\ wfx' = f
      /\ UNCHANGED <<kind, hasSize, segment, formatSet, frame, audioSample, overflowCounter, filed, file, vid,
                     initialized, unfinished, pictures, soundDue, deleted, fault>>
  BY DEF SetAudioFormat, VfwFormat, BmpFormat, Ready, files, counters
<1>2. steady' \in BOOLEAN
  BY DEF SetAudioFormat
<1> DEFINE Records == [rate : Rates, bits : Bits \union {16}, chans : {1, 2}]
<1>3. /\ f.rate \in Rates /\ f.rate \in Nat \ {0} /\ f.chans \in {1, 2} /\ f \in Records /\ Bounce(f) \in Records
  BY FormatType
<1>4. ASSUME NEW r \in Records PROVE r.rate \in Nat \ {0}
  <2>1. r.rate \in Rates
    BY <1>4
  <2> QED
    BY <2>1, Constants
<1>5. targetFormat \in Records \union {None}
  BY DEF WritersTypeOK
<1> HIDE DEF Records
<1>6. CASE kind = "vfw"
  <2>1. /\ todo' = <<>> /\ failures' = failures /\ aud' = aud /\ audioOk' \in BOOLEAN
        /\ targetFormat' = IF targetFormat = None \/ ~aud THEN Bounce(f) ELSE targetFormat
    BY <1>1, <1>6 DEF SetAudioFormat, VfwFormat, files
  <2>2. targetFormat' \in Records
    BY <1>3, <1>5, <2>1
  <2>3. ResamplerInv'
    <3>1. CASE audioOk'
      <4> DEFINE same == f.bits = 16 /\ f.chans = targetFormat'.chans
      <4>1. Setup(f.rate, targetFormat'.rate, f.chans, same) /\ same \in BOOLEAN
        BY <1>6, <3>1 DEF SetAudioFormat, VfwFormat
      <4> HIDE DEF same
      <4>2. targetFormat'.rate \in Nat \ {0}
        BY <1>4, <2>2
      <4> QED
        BY <1>3, <4>1, <4>2, SetupKeeps
    <3>2. CASE ~audioOk'
      <4>1. UNCHANGED resampler
        BY <1>6, <3>2 DEF SetAudioFormat, VfwFormat
      <4> QED
        BY <4>1, ResamplerSame
    <3> QED
      BY <3>1, <3>2
  <2>4. StackInv' /\ \A s : ~HeadIs(s)' /\ ~LastIs(s)'
    BY <2>1, EmptyStack
  <2>5. \A s : ~HeadIs(s) /\ ~LastIs(s)
    BY <1>1, NothingToDo
  <2>6. WritersTypeOK'
    <3>1. formats' \in 0..MaxFormats
      BY <1>1, Constants DEF WritersTypeOK
    <3> QED
      BY <1>1, <1>2, <2>1, <2>2, <2>3, <3>1 DEF WritersTypeOK, ResamplerInv, Records
  <2>7. SoundInv' /\ OpenInv'
    BY <1>1, <2>1, <2>4 DEF SoundInv, OpenInv
  <2>8. FiledInv'
    BY <1>1, <2>1, <2>4, <2>5, FiledKept
  <2> QED
    BY <2>3, <2>4, <2>6, <2>7, <2>8
<1>7. CASE kind = "bmp"
  <2> DEFINE n == SamplesNear(frame, f.rate)
  <2>1. /\ todo' = IF aud THEN <<>> ELSE <<<<"fill", n>>>>
        /\ aud' \in BOOLEAN /\ audioOk' = audioOk
        /\ targetFormat' = IF aud THEN targetFormat ELSE f
        /\ failures' = failures \/ (failures < MaxFailures /\ failures' = failures + 1)
        /\ UNCHANGED resampler
    BY <1>1, <1>7 DEF SetAudioFormat, BmpFormat, WritersTypeOK
  <2>2. n \in Nat
    <3>1. frame \in Nat /\ f.rate \in Nat
      BY <1>3 DEF WritersTypeOK
    <3> QED
      BY <3>1, SilenceType
  <2> HIDE DEF n
  <2>3. /\ StackInv' /\ todo' \in Stack
        /\ \A s \in {"cleanup", "init", "startEncode"} : ~HeadIs(s) /\ ~HeadIs(s)'
        /\ \A s \in {"segment", "writeVideo"} : LastIs(s)' <=> LastIs(s)
    <3>1. \A s : ~HeadIs(s) /\ ~LastIs(s)
      BY <1>1, NothingToDo
    <3>2. CASE aud
      <4>1. todo' = <<>>
        BY <2>1, <3>2
      <4>2. todo' \in Stack
        BY <4>1 DEF Stack
      <4> QED
        BY <3>1, <4>1, <4>2, EmptyStack
    <3>3. CASE ~aud
      BY <1>1, <2>1, <2>2, <3>1, <3>3, OneStep
    <3> QED
      BY <3>2, <3>3
  <2>4. ResamplerInv'
    BY <2>1, ResamplerSame
  <2>5. WritersTypeOK'
    <3>1. formats' \in 0..MaxFormats /\ failures' \in 0..MaxFailures
      BY <1>1, <2>1, Constants DEF WritersTypeOK
    <3>2. targetFormat' \in Records \union {None}
      BY <1>3, <1>5, <2>1
    <3> QED
      BY <1>1, <1>2, <2>1, <2>3, <2>4, <3>1, <3>2 DEF WritersTypeOK, ResamplerInv, Records, Stack
  <2>6. SoundInv' /\ OpenInv'
    BY <1>1, <2>1, <2>3 DEF SoundInv, OpenInv
  <2>7. FiledInv'
    <3>1. failures' = 0 => failures = 0
      BY <2>1 DEF WritersTypeOK
    <3> QED
      BY <1>1, <2>3, <3>1, FiledKept
  <2> QED
    BY <2>3, <2>4, <2>5, <2>6, <2>7
<1> QED
  BY <1>6, <1>7 DEF WritersTypeOK

-----------------------------------------------------------------------------
(* The steps of the sound keep the invariant. *)

(* What every step finds, and what it leaves alone. *)
LEMMA StepIs ==
  ASSUME WritersTypeOK, StackInv, NEW s, At(s)
  PROVE  /\ todo \in Stack /\ todo # <<>> /\ HeadIs(s) /\ todo[1][1] = s /\ Number \in Nat /\ ~fault /\ ~deleted
         /\ \A steps : Step(steps) => Continue(steps) /\ UNCHANGED <<kind, hasSize, wfx, targetFormat, audioOk, pictures,
                                        formats, sounding, since, soundDue, steady, deleted>>
<1>1. todo \in Stack /\ todo # <<>> /\ ~fault /\ HeadIs(s) /\ todo[1][1] = s
  BY HeadStep DEF WritersTypeOK, Stack, HeadIs
<1>2. Head(todo) \in Steps \X Nat
  BY <1>1 DEF Stack
<1>3. Number \in Nat
  BY <1>2 DEF Number
<1>4. ~deleted
  BY <1>1 DEF StackInv
<1> QED
  BY <1>1, <1>3, <1>4 DEF Step, sound, driver

(* The stacks a step of the sound may leave in its place, and that they are in order. *)
LEMMA SoundStack ==
  ASSUME WritersTypeOK, StackInv, NEW h \in {"startAudio", "fill", "block", "resampled"}, HeadIs(h),
         NEW steps, NEW x \in Nat, NEW y \in Nat, Continue(steps), UNCHANGED <<kind, deleted>>,
         \/ steps = <<>>
         \/ h = "startAudio" /\ steps = <<<<"fill", x>>>>
         \/ h = "fill" /\ steps = <<<<"block", x>>, <<"fill", y>>>>
         \/ h = "block" /\ kind = "vfw" /\ steps = <<<<"resampled", x>>>>
  PROVE  /\ StackInv' /\ todo' \in Stack
         /\ \A s \in {"cleanup", "init", "startEncode"} : ~HeadIs(s) /\ ~HeadIs(s)'
         /\ \A s \in {"segment", "writeVideo"} : LastIs(s)' <=> LastIs(s)
         /\ steps \in Stack /\ \A i \in 1..Len(steps) : steps[i][1] # "startAudio"
<1>1. todo \in Stack /\ todo # <<>> /\ todo[1][1] = h
  BY DEF WritersTypeOK, Stack, HeadIs
<1>2. "fill" \in Steps /\ "block" \in Steps /\ "resampled" \in Steps
  BY DEF Steps
<1> DEFINE n == Len(todo)
           second == todo[2][1]
<1>3. n \in Nat /\ n >= 1 /\ (n > 1 => <<h, second>> \in Follows) /\ (h = "startAudio" => n > 1)
  BY <1>1, NextStep
<1> HIDE DEF n, second
<1>4. n > 1 /\ h = "startAudio" => <<"fill", second>> \in Follows
  BY <1>3 DEF Follows
<1>5. n > 1 /\ h = "fill" => <<"fill", second>> \in Follows
  BY <1>3
<1>6. n > 1 /\ h = "block" => <<"resampled", second>> \in Follows
  BY <1>3 DEF Follows
<1>7. CASE steps = <<>>
  <2>1. Continue(<<>>) /\ <<>> \in Stack
    BY <1>7 DEF Stack
  <2>2. StackInv'
    BY <1>1, <2>1, Popped
  <2>3. \A i \in 1..Len(steps) : steps[i][1] # "startAudio"
    <3>1. \A i \in Int : i \notin 1..Len(<<>>)
      OBVIOUS
    <3> QED
      BY <1>7, <3>1
  <2>4. /\ todo' \in Stack /\ steps \in Stack
    BY <1>1, <1>7, <2>1, Continued
  <2> QED
    BY <1>1, <1>7, <2>2, <2>3, <2>4, SoundStepsKeepOrder
<1>8. CASE \/ h = "startAudio" /\ steps = <<<<"fill", x>>>>
           \/ h = "block" /\ kind = "vfw" /\ steps = <<<<"resampled", x>>>>
  <2>1. /\ Len(steps) = 1 /\ steps # <<>> /\ steps \in Stack
        /\ steps[1][1] = IF h = "startAudio" THEN "fill" ELSE "resampled"
    <3> DEFINE t == IF h = "startAudio" THEN "fill" ELSE "resampled"
    <3>1. steps = <<<<t, x>>>> /\ t \in Steps
      BY <1>2, <1>8
    <3> HIDE DEF t
    <3>2. Len(steps) = 1 /\ steps # <<>> /\ steps \in Stack /\ steps[1][1] = t
      BY <3>1 DEF Stack
    <3> QED
      BY <3>2 DEF t
  <2>2. \A i \in 1..Len(steps) : i = 1
    BY <2>1
  <2>3. \A i \in 1..Len(steps)-1 : <<steps[i][1], steps[i+1][1]>> \in Follows
    BY <2>1
  <2>4. n > 1 => <<steps[1][1], second>> \in Follows
    BY <1>4, <1>6, <1>8, <2>1
  <2>5. kind = "bmp" => \A i \in 1..Len(steps) : steps[i][1] \in {"writeVideo", "fill", "block"}
    <3>1. kind = "bmp" => steps[1][1] = "fill"
      BY <1>8, <2>1
    <3> QED
      BY <2>2, <3>1
  <2>6. StackInv'
    BY <1>1, <2>1, <2>3, <2>4, <2>5, StackKept DEF n, second
  <2>7. todo' \in Stack
    BY <1>1, <2>1, Continued
  <2>8. \A i \in 1..Len(steps) : steps[i][1] # "startAudio"
    BY <2>1, <2>2
  <2>9. steps[1][1] \in SoundSteps /\ steps[Len(steps)][1] \in SoundSteps
    BY <2>1 DEF SoundSteps
  <2> QED
    BY <1>1, <2>1, <2>6, <2>7, <2>8, <2>9, SoundStepsKeepOrder
<1>9. CASE h = "fill" /\ steps = <<<<"block", x>>, <<"fill", y>>>>
  <2>1. /\ Len(steps) = 2 /\ steps # <<>> /\ steps \in Stack
        /\ steps[1][1] = "block" /\ steps[2][1] = "fill"
    BY <1>2, <1>9 DEF Stack
  <2>2. \A i \in 1..Len(steps) : i = 1 \/ i = 2
    BY <2>1
  <2>3. \A i \in 1..Len(steps)-1 : <<steps[i][1], steps[i+1][1]>> \in Follows
    <3>1. \A i \in 1..Len(steps)-1 : i = 1
      BY <2>1
    <3>2. <<"block", "fill">> \in Follows
      BY DEF Follows
    <3> QED
      BY <2>1, <3>1, <3>2
  <2>4. n > 1 => <<steps[Len(steps)][1], second>> \in Follows
    BY <1>5, <1>9, <2>1
  <2>5. kind = "bmp" => \A i \in 1..Len(steps) : steps[i][1] \in {"writeVideo", "fill", "block"}
    BY <2>1, <2>2
  <2>6. StackInv'
    BY <1>1, <2>1, <2>3, <2>4, <2>5, StackKept DEF n, second
  <2>7. todo' \in Stack
    BY <1>1, <2>1, Continued
  <2>8. \A i \in 1..Len(steps) : steps[i][1] # "startAudio"
    BY <2>1, <2>2
  <2>9. steps[1][1] \in SoundSteps /\ steps[Len(steps)][1] \in SoundSteps
    BY <2>1 DEF SoundSteps
  <2> QED
    BY <1>1, <2>1, <2>6, <2>7, <2>8, <2>9, SoundStepsKeepOrder
<1> QED
  BY <1>7, <1>8, <1>9

LEMMA StartAudioKeeps ==
  ASSUME WritersInv, StartAudio
  PROVE  WritersInv'
<1> USE DEF WritersInv
<1> DEFINE n == SamplesNear(frame, wfx.rate)
<1>1. /\ todo \in Stack /\ todo # <<>> /\ HeadIs("startAudio") /\ todo[1][1] = "startAudio" /\ ~fault /\ ~deleted
      /\ \A steps : Step(steps) => Continue(steps) /\ UNCHANGED <<kind, hasSize, wfx, targetFormat, audioOk, pictures,
                                     formats, sounding, since, soundDue, steady, deleted>>
  BY StepIs DEF StartAudio
<1>2. wfx \in Format /\ n \in Nat
  <2>1. wfx \in Format
    <3>1. 1 \in 1..Len(todo)
      BY <1>1 DEF Stack
    <3> QED
      BY <1>1, <3>1 DEF SoundInv
  <2>2. wfx.rate \in Nat /\ frame \in Nat
    BY <2>1, FormatType DEF WritersTypeOK
  <2> QED
    BY <2>1, <2>2, SilenceType
<1>3. PICK steps : /\ Step(steps) /\ (steps = <<>> \/ steps = <<<<"fill", n>>>>)
                   /\ \/ UNCHANGED <<file, vid, aud, initialized, unfinished, audioSample, failures>>
                      \/ /\ aud' = TRUE /\ audioSample' = 0
                         /\ UNCHANGED <<file, vid, initialized, unfinished, failures>>
                      \/ Fail /\ Cleanup /\ UNCHANGED audioSample
  BY DEF StartAudio, Silence, files
<1> HIDE DEF n
<1>4. /\ UNCHANGED <<resampler, formatSet, segment, frame, overflowCounter, filed, fault>>
      /\ UNCHANGED <<kind, hasSize, wfx, targetFormat, audioOk, pictures,
                     formats, sounding, since, soundDue, steady, deleted>>
      /\ Continue(steps)
  <2>1. UNCHANGED <<resampler, formatSet, segment, frame, overflowCounter, filed, fault>>
    BY DEF StartAudio
  <2> QED
    BY <1>1, <1>3, <2>1
<1>5. /\ StackInv' /\ todo' \in Stack
      /\ \A s \in {"cleanup", "init", "startEncode"} : ~HeadIs(s) /\ ~HeadIs(s)'
      /\ \A s \in {"segment", "writeVideo"} : LastIs(s)' <=> LastIs(s)
      /\ steps \in Stack /\ \A i \in 1..Len(steps) : steps[i][1] # "startAudio"
  <2>1. kind' = kind /\ deleted' = deleted
    BY <1>4
  <2> QED
    BY <1>1, <1>2, <1>3, <1>4, <2>1, SoundStack, 0 \in Nat
<1>6. /\ \/ UNCHANGED <<file, vid, initialized, unfinished, failures>>
         \/ failures' = failures + 1 /\ failures < MaxFailures /\ UNCHANGED <<file, vid, initialized, unfinished>>
         \/ /\ failures' = failures + 1 /\ failures < MaxFailures
            /\ file' = FALSE /\ vid' = FALSE /\ initialized' = FALSE /\ unfinished' = unfinished \ {segment}
      /\ aud' \in BOOLEAN /\ audioSample' \in Nat
  <2>1. aud \in BOOLEAN /\ audioSample \in Nat
    BY DEF WritersTypeOK
  <2>2. Fail /\ Cleanup =>
          /\ failures' = failures + 1 /\ failures < MaxFailures
          /\ \/ UNCHANGED <<file, vid, aud, initialized, unfinished>>
             \/ /\ file' = FALSE /\ vid' = FALSE /\ aud' = FALSE /\ initialized' = FALSE
                /\ unfinished' = unfinished \ {segment}
    BY DEF Fail, Cleanup, files
  <2>3. CASE UNCHANGED <<file, vid, aud, initialized, unfinished, audioSample, failures>>
    BY <2>1, <2>3
  <2>4. CASE aud' = TRUE /\ audioSample' = 0 /\ UNCHANGED <<file, vid, initialized, unfinished, failures>>
    BY <2>4
  <2>5. CASE Fail /\ Cleanup /\ UNCHANGED audioSample
    BY <2>1, <2>2, <2>5
  <2> QED
    BY <1>3, <2>3, <2>4, <2>5
<1>7. ResamplerInv'
  BY <1>4, ResamplerSame
<1>8. WritersTypeOK'
  <2>1. failures' \in 0..MaxFailures
    BY <1>6, Constants DEF WritersTypeOK
  <2>2. unfinished' \subseteq 1..segment'
    BY <1>4, <1>6 DEF WritersTypeOK
  <2> QED
    BY <1>4, <1>5, <1>6, <1>7, <2>1, <2>2 DEF WritersTypeOK, ResamplerInv, Stack
<1>9. SoundInv'
  BY <1>1, <1>2, <1>4, <1>5, SoundKept
<1>10. OpenInv'
  BY <1>4, <1>5, <1>6 DEF OpenInv
<1>11. FiledInv'
  <2>1. CASE UNCHANGED <<file, vid, initialized, unfinished, failures>>
    BY <1>4, <1>5, <2>1, FiledKept
  <2>2. CASE failures' = failures + 1
    BY <2>2 DEF FiledInv, WritersTypeOK
  <2> QED
    BY <1>6, <2>1, <2>2
<1> QED
  BY <1>5, <1>7, <1>8, <1>9, <1>10, <1>11

LEMMA FillKeeps ==
  ASSUME WritersInv, Fill
  PROVE  WritersInv'
<1> USE DEF WritersInv
<1> DEFINE n == AtMost(Number, BlockLength)
           rest == Number - n
<1>1. /\ todo \in Stack /\ todo # <<>> /\ HeadIs("fill") /\ todo[1][1] = "fill" /\ Number \in Nat /\ ~fault /\ ~deleted
      /\ \A steps : Step(steps) => Continue(steps) /\ UNCHANGED <<kind, hasSize, wfx, targetFormat, audioOk, pictures,
                                     formats, sounding, since, soundDue, steady, deleted>>
  BY StepIs DEF Fill
<1>2. n \in Nat /\ rest \in Nat
  BY <1>1, Constants DEF AtMost
<1>3. PICK steps : Step(steps) /\ (steps = <<>> \/ steps = <<<<"block", n>>, <<"fill", rest>>>>)
  BY DEF Fill
<1> HIDE DEF n, rest
<1>4. /\ UNCHANGED <<resampler, formatSet, segment, frame, audioSample, overflowCounter, filed, fault, failures,
                     file, vid, aud, initialized, unfinished>>
      /\ UNCHANGED <<kind, hasSize, wfx, targetFormat, audioOk, pictures,
                     formats, sounding, since, soundDue, steady, deleted>>
      /\ Continue(steps)
  BY <1>1, <1>3 DEF Fill, files, counters
<1>5. /\ StackInv' /\ todo' \in Stack
      /\ \A s \in {"cleanup", "init", "startEncode"} : ~HeadIs(s) /\ ~HeadIs(s)'
      /\ \A s \in {"segment", "writeVideo"} : LastIs(s)' <=> LastIs(s)
      /\ steps \in Stack /\ \A i \in 1..Len(steps) : steps[i][1] # "startAudio"
  <2>1. kind' = kind /\ deleted' = deleted
    BY <1>4
  <2> QED
    BY <1>1, <1>2, <1>3, <1>4, <2>1, SoundStack
<1>6. ResamplerInv'
  BY <1>4, ResamplerSame
<1>7. WritersTypeOK'
  BY <1>4, <1>5, <1>6 DEF WritersTypeOK, ResamplerInv, Stack
<1>8. SoundInv'
  BY <1>1, <1>4, <1>5, SoundKept
<1>9. OpenInv'
  BY <1>4, <1>5, OpenKept
<1>10. FiledInv'
  BY <1>4, <1>5, FiledKept
<1> QED
  BY <1>5, <1>6, <1>7, <1>8, <1>9, <1>10

LEMMA BlockStepKeeps ==
  ASSUME WritersInv, Block
  PROVE  WritersInv'
<1> USE DEF WritersInv
<1>1. /\ todo \in Stack /\ todo # <<>> /\ HeadIs("block") /\ todo[1][1] = "block" /\ Number \in Nat /\ ~fault /\ ~deleted
      /\ \A steps : Step(steps) => Continue(steps) /\ UNCHANGED <<kind, hasSize, wfx, targetFormat, audioOk, pictures,
                                     formats, sounding, since, soundDue, steady, deleted>>
  BY StepIs DEF Block
<1>2. PICK steps :
        /\ Step(steps)
        /\ \/ kind = "vfw" /\ steps = <<<<"resampled", 0>>>> /\ ResampleBlock(Number) /\ audioSample' = audioSample
           \/ steps = <<>> /\ UNCHANGED <<resampler, audioSample>>
           \/ steps = <<>> /\ UNCHANGED resampler /\ audioSample' = audioSample + Number
  BY DEF Block
<1>3. /\ UNCHANGED <<formatSet, segment, frame, overflowCounter, filed, fault, failures,
                     file, vid, aud, initialized, unfinished>>
      /\ UNCHANGED <<kind, hasSize, wfx, targetFormat, audioOk, pictures,
                     formats, sounding, since, soundDue, steady, deleted>>
      /\ Continue(steps)
  BY <1>1, <1>2 DEF Block, files
<1>4. /\ StackInv' /\ todo' \in Stack
      /\ \A s \in {"cleanup", "init", "startEncode"} : ~HeadIs(s) /\ ~HeadIs(s)'
      /\ \A s \in {"segment", "writeVideo"} : LastIs(s)' <=> LastIs(s)
      /\ steps \in Stack /\ \A i \in 1..Len(steps) : steps[i][1] # "startAudio"
  <2>1. kind' = kind /\ deleted' = deleted /\ 0 \in Nat
    BY <1>3
  <2> QED
    BY <1>1, <1>2, <1>3, <2>1, SoundStack
<1>5. ResamplerInv'
  BY <1>1, <1>2, BlockKeeps, ResamplerSame
<1>6. WritersTypeOK'
  <2>1. audioSample' \in Nat
    BY <1>1, <1>2 DEF WritersTypeOK
  <2> QED
    BY <1>3, <1>4, <1>5, <2>1 DEF WritersTypeOK, ResamplerInv, Stack
<1>7. SoundInv'
  BY <1>1, <1>3, <1>4, SoundKept
<1>8. OpenInv'
  BY <1>3, <1>4, OpenKept
<1>9. FiledInv'
  BY <1>3, <1>4, FiledKept
<1> QED
  BY <1>4, <1>5, <1>6, <1>7, <1>8, <1>9

LEMMA ResampleKeeps ==
  ASSUME WritersInv, Resample
  PROVE  WritersInv'
<1> USE DEF WritersInv
<1>1. /\ ResamplerStep
      /\ UNCHANGED <<formatSet, segment, frame, audioSample, overflowCounter, filed, fault, failures,
                     file, vid, aud, initialized, unfinished>>
      /\ UNCHANGED <<todo, kind, hasSize, wfx, targetFormat, audioOk, pictures,
                     formats, sounding, since, soundDue, steady, deleted>>
  BY DEF Resample, files, counters, sound, driver, ghosts
<1>2. ResamplerInv'
  BY <1>1, AdvanceKeeps, GenerateKeeps DEF ResamplerStep
<1>3. /\ \A s : HeadIs(s)' <=> HeadIs(s)
      /\ \A s : LastIs(s)' <=> LastIs(s)
  BY <1>1 DEF HeadIs, LastIs
<1>4. \A s \in {"cleanup", "init", "startEncode"} : ~HeadIs(s) /\ ~HeadIs(s)'
  <2>1. HeadIs("resampled")
    BY StepIs DEF Resample
  <2> QED
    BY <1>3, <2>1 DEF HeadIs
<1>5. WritersTypeOK'
  BY <1>1, <1>2 DEF WritersTypeOK, ResamplerInv
<1>6. StackInv' /\ SoundInv' /\ OpenInv'
  BY <1>1, <1>3 DEF StackInv, SoundInv, OpenInv
<1>7. FiledInv'
  BY <1>1, <1>3, <1>4, FiledKept
<1> QED
  BY <1>2, <1>5, <1>6, <1>7

(* A failure is counted, and there is one. *)
LEMMA FailCounted ==
  ASSUME failures \in 0..MaxFailures, failures' = failures \/ Fail
  PROVE  failures' \in 0..MaxFailures /\ (failures' = 0 => failures = 0)
BY Constants DEF Fail

LEMMA ResampledKeeps ==
  ASSUME WritersInv, Resampled
  PROVE  WritersInv'
<1> USE DEF WritersInv
<1>1. /\ todo \in Stack /\ todo # <<>> /\ HeadIs("resampled") /\ todo[1][1] = "resampled" /\ ~fault /\ ~deleted
      /\ \A steps : Step(steps) => Continue(steps) /\ UNCHANGED <<kind, hasSize, wfx, targetFormat, audioOk, pictures,
                                     formats, sounding, since, soundDue, steady, deleted>>
  BY StepIs DEF Resampled
<1>2. /\ audioSample' = audioSample + count /\ overflowCounter' \in {overflowCounter, overflowCounter + count}
      /\ failures' = failures \/ Fail
      /\ UNCHANGED <<resampler, formatSet, segment, frame, filed, fault,
                     file, vid, aud, initialized, unfinished>>
      /\ UNCHANGED <<kind, hasSize, wfx, targetFormat, audioOk, pictures,
                     formats, sounding, since, soundDue, steady, deleted>>
      /\ Continue(<<>>)
  BY <1>1 DEF Resampled, files
<1> DEFINE steps == <<>>
<1>3. /\ StackInv' /\ todo' \in Stack
      /\ \A s \in {"cleanup", "init", "startEncode"} : ~HeadIs(s) /\ ~HeadIs(s)'
      /\ \A s \in {"segment", "writeVideo"} : LastIs(s)' <=> LastIs(s)
      /\ steps \in Stack /\ \A i \in 1..Len(steps) : steps[i][1] # "startAudio"
  <2>1. kind' = kind /\ deleted' = deleted /\ 0 \in Nat /\ Continue(steps)
    BY <1>2
  <2>2. steps = <<>>
    OBVIOUS
  <2> HIDE DEF steps
  <2> QED
    BY <1>1, <1>2, <2>1, <2>2, SoundStack
<1>4. Continue(steps)
  BY <1>2
<1> HIDE DEF steps
<1>5. ResamplerInv'
  BY <1>2, ResamplerSame
<1>10. failures' \in 0..MaxFailures /\ (failures' = 0 => failures = 0)
  BY <1>2, FailCounted DEF WritersTypeOK
<1>6. WritersTypeOK'
  <2>1. audioSample' \in Nat /\ overflowCounter' \in Nat
    BY <1>2 DEF WritersTypeOK, ResamplerTypeOK
  <2>2. ResamplerTypeOK' /\ todo' \in Stack
    BY <1>3, <1>5 DEF ResamplerInv
  <2> QED
    BY <1>2, <1>10, <2>1, <2>2 DEF WritersTypeOK, Stack
<1>7. SoundInv'
  BY <1>1, <1>2, <1>3, <1>4, SoundKept
<1>8. OpenInv'
  BY <1>2, <1>3, OpenKept
<1>9. FiledInv'
  BY <1>2, <1>3, <1>10, FiledKept
<1> QED
  BY <1>3, <1>5, <1>6, <1>7, <1>8, <1>9

-----------------------------------------------------------------------------
(* The steps of the picture keep the invariant. *)

(* Only Video for Windows has segments. *)
LEMMA OnlyVfw ==
  ASSUME WritersTypeOK, StackInv, NEW s \in {"startEncode", "segment", "cleanup", "init", "startAudio"}, HeadIs(s)
  PROVE  kind = "vfw"
<1>1. 1 \in 1..Len(todo) /\ todo[1][1] = s
  BY DEF HeadIs, WritersTypeOK
<1> QED
  BY <1>1 DEF StackInv, WritersTypeOK

(* The frame of a step of the picture that puts nothing in its place. *)
LEMMA PictureStep ==
  ASSUME WritersTypeOK, StackInv, NEW h \in {"startEncode", "cleanup", "init"}, At(h), Step(<<>>)
  PROVE  /\ todo \in Stack /\ HeadIs(h) /\ ~fault /\ ~deleted /\ kind = "vfw" /\ Continue(<<>>) /\ todo # <<>>
         /\ UNCHANGED <<kind, hasSize, wfx, targetFormat, audioOk, pictures,
                        formats, sounding, since, soundDue, steady, deleted>>
         /\ StackInv' /\ todo' \in Stack
         /\ ~HeadIs("cleanup")' /\ (HeadIs("init")' <=> h = "cleanup") /\ (HeadIs("startEncode")' <=> h = "init")
         /\ \A s : LastIs(s)' <=> LastIs(s)
         /\ \A s : HeadIs(s) <=> s = h
         /\ SoundInv /\ (aud' => aud) => SoundInv'
<1>1. /\ todo \in Stack /\ todo # <<>> /\ HeadIs(h) /\ todo[1][1] = h /\ ~fault /\ ~deleted /\ Continue(<<>>)
      /\ UNCHANGED <<kind, hasSize, wfx, targetFormat, audioOk, pictures,
                     formats, sounding, since, soundDue, steady, deleted>>
  BY StepIs
<1>2. \A s : HeadIs(s) <=> s = h
  BY <1>1 DEF HeadIs
<1>3. kind = "vfw"
  BY <1>1, OnlyVfw
<1>4. /\ StackInv' /\ ~HeadIs("cleanup")'
      /\ HeadIs("init")' <=> HeadIs("cleanup")
      /\ HeadIs("startEncode")' <=> HeadIs("init")
  BY <1>1, Popped
<1>5. Len(todo) > 1
  BY <1>1, NextStep
<1>6. <<>> \in Stack
  BY DEF Stack
<1>7. todo' \in Stack /\ \A s : LastIs(s)' <=> LastIs(s)
  BY <1>1, <1>5, <1>6, Continued
<1>8. ASSUME SoundInv, aud' => aud PROVE SoundInv'
  <2> DEFINE steps == <<>>
  <2>1. \A i \in 1..Len(steps) : steps[i][1] # "startAudio"
    <3>1. \A i \in Int : i \notin 1..Len(steps)
      OBVIOUS
    <3> QED
      BY <3>1
  <2>2. steps \in Stack /\ Continue(steps)
    BY <1>1, <1>6
  <2> HIDE DEF steps
  <2> QED
    BY <1>1, <1>8, <2>1, <2>2, SoundKept
<1> QED
  BY <1>1, <1>2, <1>3, <1>4, <1>7, <1>8

LEMMA CleanupIs ==
  ASSUME WritersTypeOK, OpenInv, Cleanup
  PROVE  /\ aud' => aud
         /\ {file', vid', aud', initialized'} \subseteq BOOLEAN /\ unfinished' \subseteq 1..segment
         /\ (initialized' <=> vid') /\ (vid' => file') /\ unfinished' \subseteq {segment} /\ ~initialized'
         /\ initialized => unfinished' = {}
<1>1. CASE initialized
  <2>1. file' = FALSE /\ vid' = FALSE /\ aud' = FALSE /\ initialized' = FALSE /\ unfinished' = unfinished \ {segment}
    BY <1>1 DEF Cleanup
  <2> QED
    BY <2>1 DEF WritersTypeOK, OpenInv
<1>2. CASE ~initialized
  <2>1. UNCHANGED <<file, vid, aud, initialized, unfinished>>
    BY <1>2 DEF Cleanup, files
  <2> QED
    BY <1>2, <2>1 DEF WritersTypeOK, OpenInv
<1> QED
  BY <1>1, <1>2

LEMMA StartEncodeKeeps ==
  ASSUME WritersInv, StartEncode
  PROVE  WritersInv'
<1> USE DEF WritersInv
<1>1. /\ todo \in Stack /\ HeadIs("startEncode") /\ ~fault /\ ~deleted /\ kind = "vfw" /\ todo # <<>>
      /\ UNCHANGED <<kind, hasSize, wfx, targetFormat, audioOk, pictures,
                     formats, sounding, since, soundDue, steady, deleted>>
      /\ StackInv' /\ todo' \in Stack
      /\ ~HeadIs("cleanup")' /\ ~HeadIs("init")' /\ ~HeadIs("startEncode")'
      /\ \A s : LastIs(s)' <=> LastIs(s)
      /\ \A s : HeadIs(s) <=> s = "startEncode"
      /\ SoundInv /\ (aud' => aud) => SoundInv'
  BY PictureStep DEF StartEncode
<1>2. UNCHANGED <<resampler, segment, audioSample, overflowCounter, filed>>
  BY DEF StartEncode
<1>3. \/ ~file /\ UNCHANGED <<files, formatSet, frame, failures, fault>>
      \/ file /\ ~vid /\ fault' = TRUE /\ UNCHANGED <<files, formatSet, frame, failures>>
      \/ file /\ vid /\ formatSet' = TRUE /\ frame' = 0 /\ UNCHANGED <<files, failures, fault>>
      \/ Fail /\ Cleanup /\ UNCHANGED <<formatSet, frame, fault>>
  BY DEF StartEncode
<1>4. \/ /\ UNCHANGED <<file, vid, aud, initialized, unfinished, failures>>
      \/ /\ failures' = failures + 1 /\ failures < MaxFailures /\ Cleanup
  BY <1>3 DEF files, Fail
<1>5. /\ aud' => aud
      /\ {file', vid', aud', initialized'} \subseteq BOOLEAN /\ unfinished' \subseteq 1..segment'
      /\ (initialized' <=> vid') /\ (vid' => file') /\ unfinished' \subseteq {segment'}
      /\ failures' \in 0..MaxFailures
  <2>1. CASE UNCHANGED <<file, vid, aud, initialized, unfinished, failures>>
    BY <1>2, <2>1 DEF WritersTypeOK, OpenInv
  <2>2. CASE failures' = failures + 1 /\ failures < MaxFailures /\ Cleanup
    <3>1. failures' \in 0..MaxFailures
      BY <2>2, Constants DEF WritersTypeOK
    <3> QED
      BY <1>2, <2>2, <3>1, CleanupIs
  <2> QED
    BY <1>4, <2>1, <2>2
<1>6. {formatSet', fault'} \subseteq BOOLEAN /\ frame' \in Nat
  <2>1. formatSet \in BOOLEAN /\ fault \in BOOLEAN /\ frame \in Nat
    BY DEF WritersTypeOK
  <2>2. formatSet' = formatSet \/ formatSet' = TRUE
    BY <1>3
  <2>3. fault' = fault \/ fault' = TRUE
    BY <1>3
  <2>4. frame' = frame \/ frame' = 0
    BY <1>3
  <2>5. frame' \in Nat
    BY <2>1, <2>4
  <2>6. {formatSet', fault'} \subseteq BOOLEAN
    BY <2>1, <2>2, <2>3, Zenon
  <2> QED
    BY <2>5, <2>6
<1>7. ResamplerInv'
  BY <1>2, ResamplerSame
<1>8. WritersTypeOK'
  BY <1>1, <1>2, <1>5, <1>6, <1>7 DEF WritersTypeOK, ResamplerInv, Stack
<1>9. SoundInv'
  BY <1>1, <1>5
<1>10. OpenInv'
  BY <1>1, <1>2, <1>5 DEF OpenInv
<1>11. FiledInv'
  <2>1. CASE failures' = failures + 1
    BY <2>1 DEF FiledInv, WritersTypeOK
  <2>2. CASE failures' = failures
    <3> SUFFICES ASSUME failures = 0 PROVE FiledInv'
      BY <2>2 DEF FiledInv
    <3>1. initialized /\ vid /\ file
      BY <1>1 DEF FiledInv, OpenInv
    <3>2. formatSet' = TRUE /\ frame' = 0 /\ UNCHANGED <<files, fault>>
      BY <1>3, <2>2, <3>1 DEF Fail, WritersTypeOK
    <3>3. Pending' <=> Pending
      BY <1>1 DEF Pending
    <3>4. NextPlace'
      BY <1>1, <1>2, <3>2 DEF FiledInv, NextPlace
    <3>5. FiledInOrder'
      BY <1>2 DEF FiledInv, FiledInOrder
    <3> QED
      BY <1>1, <1>2, <3>1, <3>2, <3>3, <3>4, <3>5 DEF FiledInv, files
  <2> QED
    BY <1>4, <2>1, <2>2
<1> QED
  BY <1>1, <1>7, <1>8, <1>9, <1>10, <1>11

LEMMA CleanupSegmentKeeps ==
  ASSUME WritersInv, CleanupSegment
  PROVE  WritersInv'
<1> USE DEF WritersInv
<1>1. /\ todo \in Stack /\ HeadIs("cleanup") /\ ~fault /\ ~deleted /\ kind = "vfw" /\ todo # <<>>
      /\ UNCHANGED <<kind, hasSize, wfx, targetFormat, audioOk, pictures,
                     formats, sounding, since, soundDue, steady, deleted>>
      /\ StackInv' /\ todo' \in Stack
      /\ ~HeadIs("cleanup")' /\ HeadIs("init")' /\ ~HeadIs("startEncode")'
      /\ \A s : LastIs(s)' <=> LastIs(s)
      /\ \A s : HeadIs(s) <=> s = "cleanup"
      /\ SoundInv /\ (aud' => aud) => SoundInv'
  BY PictureStep DEF CleanupSegment
<1>2. UNCHANGED <<resampler, formatSet, segment, frame, audioSample, overflowCounter, filed, failures, fault>>
  BY DEF CleanupSegment, counters
<1>3. /\ aud' => aud
      /\ {file', vid', aud', initialized'} \subseteq BOOLEAN /\ unfinished' \subseteq 1..segment'
      /\ (initialized' <=> vid') /\ (vid' => file') /\ unfinished' = {}
  <2>1. Cleanup /\ initialized
    BY <1>1 DEF CleanupSegment, OpenInv
  <2> QED
    BY <1>2, <2>1, CleanupIs
<1>4. ResamplerInv'
  BY <1>2, ResamplerSame
<1>5. WritersTypeOK'
  BY <1>1, <1>2, <1>3, <1>4 DEF WritersTypeOK, ResamplerInv, Stack
<1>6. SoundInv'
  BY <1>1, <1>3
<1>7. OpenInv'
  BY <1>1, <1>2, <1>3 DEF OpenInv
<1>8. FiledInv'
  <2> SUFFICES ASSUME failures = 0 PROVE FiledInv'
    BY <1>2 DEF FiledInv
  <2>1. Pending' <=> Pending
    BY <1>1 DEF Pending
  <2>2. Pending
    BY <1>1 DEF StackInv, Pending
  <2>3. formatSet
    BY <1>1, <2>2 DEF FiledInv
  <2>4. NextPlace'
    BY <1>1, <1>2 DEF FiledInv, NextPlace
  <2>5. FiledInOrder'
    BY <1>2 DEF FiledInv, FiledInOrder
  <2> QED
    BY <1>1, <1>2, <1>3, <2>1, <2>2, <2>3, <2>4, <2>5 DEF FiledInv
<1> QED
  BY <1>1, <1>4, <1>5, <1>6, <1>7, <1>8

LEMMA InitSegmentKeeps ==
  ASSUME WritersInv, InitSegment
  PROVE  WritersInv'
<1> USE DEF WritersInv
<1>1. /\ todo \in Stack /\ HeadIs("init") /\ ~fault /\ ~deleted /\ kind = "vfw" /\ todo # <<>>
      /\ UNCHANGED <<kind, hasSize, wfx, targetFormat, audioOk, pictures,
                     formats, sounding, since, soundDue, steady, deleted>>
      /\ StackInv' /\ todo' \in Stack
      /\ ~HeadIs("cleanup")' /\ ~HeadIs("init")' /\ HeadIs("startEncode")'
      /\ \A s : LastIs(s)' <=> LastIs(s)
      /\ \A s : HeadIs(s) <=> s = "init"
      /\ SoundInv /\ (aud' => aud) => SoundInv'
  BY PictureStep DEF InitSegment
<1>2. /\ UNCHANGED <<resampler, aud, formatSet, frame, audioSample, filed, fault>>
      /\ segment' = segment + 1 /\ overflowCounter' = 0
  BY DEF InitSegment
<1>3. PICK open \in Opened :
        /\ file' = open[1] /\ vid' = open[2] /\ initialized' = open[2]
        /\ IF open[2] THEN UNCHANGED failures ELSE Fail
        /\ unfinished' = unfinished \union IF open[1] THEN {segment'} ELSE {}
  BY DEF InitSegment
<1>4. unfinished = {} /\ segment \in Nat
  BY <1>1 DEF OpenInv, WritersTypeOK
<1>5. /\ {file', vid', initialized'} \subseteq BOOLEAN /\ (initialized' <=> vid') /\ (vid' => file')
      /\ \/ failures' = failures /\ vid'
         \/ failures' = failures + 1 /\ failures < MaxFailures
  <2>1. open[1] \in BOOLEAN /\ open[2] \in BOOLEAN /\ (open[2] => open[1])
    <3>1. open = <<TRUE, TRUE>> \/ open = <<FALSE, FALSE>> \/ open = <<TRUE, FALSE>>
      BY DEF Opened
    <3>2. CASE open = <<TRUE, TRUE>>
      BY <3>2
    <3>3. CASE open = <<FALSE, FALSE>>
      BY <3>3
    <3>4. CASE open = <<TRUE, FALSE>>
      BY <3>4
    <3> QED
      BY <3>1, <3>2, <3>3, <3>4
  <2> QED
    BY <1>3, <2>1 DEF Fail
<1>6. unfinished' \subseteq {segment'} /\ segment' \in Nat /\ segment' > 0
  BY <1>2, <1>3, <1>4
<1>7. unfinished' \subseteq 1..segment'
  BY <1>6
<1>8. ResamplerInv'
  BY <1>2, ResamplerSame
<1>9. WritersTypeOK'
  <2>1. failures' \in 0..MaxFailures
    BY <1>5, Constants DEF WritersTypeOK
  <2> QED
    BY <1>1, <1>2, <1>5, <1>6, <1>7, <1>8, <2>1 DEF WritersTypeOK, ResamplerInv, Stack
<1>10. SoundInv'
  BY <1>1, <1>2
<1>11. OpenInv'
  BY <1>1, <1>5, <1>6 DEF OpenInv
<1>12. FiledInv'
  <2>1. CASE failures' = failures + 1
    BY <2>1 DEF FiledInv, WritersTypeOK
  <2>2. CASE failures' = failures /\ vid'
    <3> SUFFICES ASSUME failures = 0 PROVE FiledInv'
      BY <2>2 DEF FiledInv
    <3>1. LastIs("writeVideo") /\ Pending /\ Pending'
      BY <1>1 DEF StackInv, Pending
    <3>2. formatSet
      BY <1>1, <3>1 DEF FiledInv
    <3>3. NextPlace'
      <4> SUFFICES ASSUME filed # <<>>
                   PROVE  filed[Len(filed)][1] + 1 = segment'
        BY <1>1, <1>2, <3>1 DEF NextPlace
      <4>1. filed[Len(filed)] = <<segment, frame - 1>>
        BY <1>1 DEF FiledInv, NextPlace
      <4> QED
        BY <1>2, <4>1
    <3>4. FiledInOrder'
      BY <1>2 DEF FiledInv, FiledInOrder
    <3> QED
      BY <1>1, <1>2, <1>5, <2>2, <3>1, <3>2, <3>3, <3>4 DEF FiledInv
  <2> QED
    BY <1>5, <2>1, <2>2
<1> QED
  BY <1>1, <1>8, <1>9, <1>10, <1>11, <1>12

LEMMA WriteVideoKeeps ==
  ASSUME WritersInv, WriteVideo
  PROVE  WritersInv'
<1> USE DEF WritersInv
<1>1. /\ todo \in Stack /\ todo # <<>> /\ HeadIs("writeVideo") /\ todo[1][1] = "writeVideo" /\ ~fault /\ ~deleted
      /\ Continue(<<>>)
      /\ UNCHANGED <<kind, hasSize, wfx, targetFormat, audioOk, pictures,
                     formats, sounding, since, soundDue, steady, deleted>>
  BY StepIs DEF WriteVideo
<1>2. /\ UNCHANGED <<resampler, file, vid, aud, initialized, unfinished, formatSet, segment, audioSample>>
      /\ \/ /\ kind = "bmp" \/ vid
            /\ filed' = Append(filed, <<segment, frame>>) /\ frame' = frame + 1
            /\ overflowCounter' = overflowCounter + FrameBytes /\ UNCHANGED <<failures, fault>>
         \/ /\ Fail /\ UNCHANGED <<filed, overflowCounter>>
            /\ frame' \in {frame, frame + 1} /\ fault' \in BOOLEAN
         \/ /\ kind = "vfw" /\ ~vid /\ fault' = TRUE /\ UNCHANGED <<filed, frame, overflowCounter, failures>>
  BY <1>1 DEF WriteVideo, files, WritersTypeOK
<1>13. failures' \in 0..MaxFailures /\ (failures' = 0 => failures = 0 /\ failures' = failures)
  BY <1>2, FailCounted DEF WritersTypeOK, Fail
<1>3. todo' = <<>> /\ todo' \in Stack
  <2>1. Len(todo) = 1
    BY <1>1, NextStep
  <2>2. <<>> \in Stack
    BY DEF Stack
  <2> QED
    BY <1>1, <2>1, <2>2, Continued
<1>4. StackInv' /\ ~Pending' /\ \A s : ~HeadIs(s)' /\ ~LastIs(s)'
  BY <1>3, EmptyStack
<1>5. (\A s : HeadIs(s) <=> s = "writeVideo") /\ LastIs("writeVideo") /\ Pending
  <2>1. Len(todo) = 1
    BY <1>1, NextStep
  <2> QED
    BY <1>1, <2>1 DEF HeadIs, LastIs, Pending
<1>6. ResamplerInv'
  BY <1>2, ResamplerSame
<1>7. WritersTypeOK'
  <2>1. overflowCounter' \in Nat /\ frame' \in Nat
    BY <1>2, Constants DEF WritersTypeOK
  <2>2. filed' \in Seq(Nat \X Nat)
    <3> DEFINE place == <<segment, frame>>
               S == Nat \X Nat
    <3>1. place \in S /\ filed \in Seq(S)
      BY DEF WritersTypeOK
    <3>2. filed' = Append(filed, place) \/ filed' = filed
      BY <1>2
    <3> HIDE DEF place, S
    <3>3. filed' \in Seq(S)
      BY <3>1, <3>2
    <3> QED
      BY <3>3 DEF S
  <2>3. fault' \in BOOLEAN
    BY <1>2 DEF WritersTypeOK
  <2> QED
    BY <1>1, <1>2, <1>3, <1>6, <1>13, <2>1, <2>2, <2>3 DEF WritersTypeOK, ResamplerInv, Stack
<1>8. SoundInv'
  BY <1>1, <1>2, <1>3 DEF SoundInv
<1>9. OpenInv'
  BY <1>1, <1>2, <1>4 DEF OpenInv
<1>10. FiledInv'
  <2> SUFFICES ASSUME failures = 0, failures' = failures PROVE FiledInv'
    BY <1>13 DEF FiledInv
  <2>1. kind = "bmp" \/ vid
    <3>1. kind = "vfw" => initialized
      BY <1>1, <1>5 DEF FiledInv
    <3> QED
      BY <3>1 DEF OpenInv, WritersTypeOK
  <2>2. filed' = Append(filed, <<segment, frame>>) /\ frame' = frame + 1 /\ fault' = fault
    <3>1. ~Fail
      BY DEF Fail
    <3> QED
      BY <1>2, <2>1, <3>1
  <2> DEFINE n == Len(filed)
             place == <<segment, frame>>
  <2>3. /\ n \in Nat /\ Len(filed') = n + 1 /\ filed'[n + 1] = place
        /\ \A i \in 1..n : filed'[i] = filed[i]
    <3>1. place \in Nat \X Nat /\ filed \in Seq(Nat \X Nat)
      BY DEF WritersTypeOK
    <3> HIDE DEF place
    <3> QED
      BY <2>2, <3>1 DEF place
  <2>4. frame \in Nat /\ segment \in Nat
    BY DEF WritersTypeOK
  <2>5. NextPlace'
    <3>1. frame' - 1 = frame /\ segment' = segment
      BY <1>2, <2>2, <2>4
    <3>2. filed'[Len(filed')] = <<segment', frame' - 1>>
      BY <2>3, <3>1
    <3> QED
      BY <1>4, <3>2 DEF NextPlace
  <2>6. FiledInOrder'
    <3>1. n > 0 => \/ place = <<filed[n][1], filed[n][2] + 1>>
                   \/ place = <<filed[n][1] + 1, 0>>
      <4> SUFFICES ASSUME n > 0
                   PROVE  \/ place = <<filed[n][1], filed[n][2] + 1>>
                          \/ place = <<filed[n][1] + 1, 0>>
        OBVIOUS
      <4>1. filed # <<>>
        BY DEF WritersTypeOK
      <4>2. \/ filed[n] = <<segment, frame - 1>>
            \/ filed[n][1] + 1 = segment /\ frame = 0
        BY <1>5, <4>1 DEF FiledInv, NextPlace
      <4> QED
        BY <2>4, <4>2
    <3> HIDE DEF n, place
    <3> SUFFICES ASSUME NEW i \in 1..Len(filed')-1
                 PROVE  \/ filed'[i+1] = <<filed'[i][1], filed'[i][2] + 1>>
                        \/ filed'[i+1] = <<filed'[i][1] + 1, 0>>
      BY DEF FiledInOrder
    <3>2. i \in 1..n
      BY <2>3
    <3>3. CASE i = n
      <4>1. filed'[i] = filed[n] /\ filed'[i+1] = place /\ n > 0
        BY <2>3, <3>2, <3>3
      <4> QED
        BY <3>1, <4>1
    <3>4. CASE i # n
      <4>1. i \in 1..n-1 /\ i + 1 \in 1..n
        BY <2>3, <3>2, <3>4
      <4>2. filed'[i] = filed[i] /\ filed'[i+1] = filed[i+1]
        BY <2>3, <3>2, <4>1
      <4> QED
        BY <4>1, <4>2 DEF FiledInv, FiledInOrder, n
    <3> QED
      BY <3>3, <3>4
  <2>7. n + 1 = pictures
    BY <1>5 DEF FiledInv
  <2>8. kind = "vfw" => formatSet
    BY <1>5 DEF FiledInv
  <2>9. kind = "vfw" => initialized
    BY <1>1, <1>5 DEF FiledInv
  <2> HIDE DEF n, place
  <2> QED
    BY <1>1, <1>2, <1>4, <2>2, <2>3, <2>5, <2>6, <2>7, <2>8, <2>9 DEF FiledInv
<1> QED
  BY <1>4, <1>6, <1>7, <1>8, <1>9, <1>10

(* The steps that Segment puts in its place. *)
First == <<<<"cleanup", 0>>, <<"init", 0>>, <<"startEncode", 0>>>>
Video == <<<<"writeVideo", 0>>>>
Sound == <<<<"startAudio", 0>>>>
NewSegment == <<<<"cleanup", 0>>, <<"init", 0>>, <<"startEncode", 0>>, <<"writeVideo", 0>>>>
NewSegmentSound == <<<<"cleanup", 0>>, <<"init", 0>>, <<"startEncode", 0>>, <<"startAudio", 0>>, <<"writeVideo", 0>>>>

LEMMA Chain ==
  ASSUME NEW S, NEW a \in S, NEW b \in S, NEW c \in S, NEW d \in S, NEW e \in S
  PROVE  /\ (<<a, b, c>> \o <<>>) \o <<e>> = <<a, b, c, e>>
         /\ (<<a, b, c>> \o <<d>>) \o <<e>> = <<a, b, c, d, e>>
<1> DEFINE s == (<<a, b, c>> \o <<>>) \o <<e>>
           t == (<<a, b, c>> \o <<d>>) \o <<e>>
<1>1. s \in Seq(S) /\ Len(s) = 4 /\ s[1] = a /\ s[2] = b /\ s[3] = c /\ s[4] = e
  OBVIOUS
<1>2. t \in Seq(S) /\ Len(t) = 5 /\ t[1] = a /\ t[2] = b /\ t[3] = c /\ t[4] = d /\ t[5] = e
  OBVIOUS
<1> HIDE DEF s, t
<1>3. s = <<a, b, c, e>>
  BY <1>1
<1>4. t = <<a, b, c, d, e>>
  BY <1>2
<1> QED
  BY <1>3, <1>4 DEF s, t

LEMMA SegmentSteps ==
  /\ (First \o <<>>) \o Video = NewSegment /\ (First \o Sound) \o Video = NewSegmentSound /\ <<>> \o Video = Video
  /\ {<<>>, Video, NewSegment, NewSegmentSound} \subseteq Stack
<1>1. {"cleanup", "init", "startEncode", "startAudio", "writeVideo"} \subseteq Steps
  BY DEF Steps
<1> DEFINE a == <<"cleanup", 0>>
           b == <<"init", 0>>
           c == <<"startEncode", 0>>
           d == <<"startAudio", 0>>
           e == <<"writeVideo", 0>>
           S == Steps \X Nat
<1>2. a \in S /\ b \in S /\ c \in S /\ d \in S /\ e \in S
  BY <1>1
<1> HIDE DEF a, b, c, d, e, S
<1>3. (<<a, b, c>> \o <<>>) \o <<e>> = <<a, b, c, e>> /\ (<<a, b, c>> \o <<d>>) \o <<e>> = <<a, b, c, d, e>>
  BY <1>2, Chain
<1>4. <<>> \o <<e>> = <<e>>
  BY <1>2, Pair
<1>5. {<<>>, <<e>>, <<a, b, c, e>>, <<a, b, c, d, e>>} \subseteq Seq(S)
  BY <1>2
<1> QED
  BY <1>3, <1>4, <1>5 DEF a, b, c, d, e, S, First, Video, Sound, NewSegment, NewSegmentSound, Stack

LEMMA SegmentKeeps ==
  ASSUME WritersInv, Segment
  PROVE  WritersInv'
<1> USE DEF WritersInv
<1>1. /\ todo \in Stack /\ todo # <<>> /\ HeadIs("segment") /\ todo[1][1] = "segment" /\ ~fault /\ ~deleted
      /\ \A steps : Step(steps) => Continue(steps) /\ UNCHANGED <<kind, hasSize, wfx, targetFormat, audioOk, pictures,
                                     formats, sounding, since, soundDue, steady, deleted>>
  BY StepIs DEF Segment
<1>2. kind = "vfw"
  BY <1>1, OnlyVfw
<1>3. PICK steps : /\ Step(steps)
                   /\ \/ steps = <<>> /\ ~(formatSet /\ vid)
                      \/ steps = Video /\ vid
                      \/ steps = NewSegment /\ vid
                      \/ steps = NewSegmentSound /\ vid /\ aud
  <2>1. Step(IF ~(formatSet /\ vid) THEN <<>>
             ELSE (IF overflowCounter >= Limit
                   THEN First \o (IF aud THEN Sound ELSE <<>>)
                   ELSE <<>>) \o Video)
    BY DEF Segment, First, Sound, Video
  <2>2. CASE ~(formatSet /\ vid)
    BY <2>1, <2>2
  <2>3. CASE formatSet /\ vid /\ overflowCounter >= Limit /\ aud
    <3>1. Step(NewSegmentSound)
      BY <2>1, <2>3, SegmentSteps
    <3> QED
      BY <2>3, <3>1
  <2>4. CASE formatSet /\ vid /\ overflowCounter >= Limit /\ ~aud
    <3>1. Step(NewSegment)
      BY <2>1, <2>4, SegmentSteps
    <3> QED
      BY <2>4, <3>1
  <2>5. CASE formatSet /\ vid /\ ~(overflowCounter >= Limit)
    <3>1. Step(Video)
      BY <2>1, <2>5, SegmentSteps
    <3> QED
      BY <2>5, <3>1
  <2> QED
    BY <2>2, <2>3, <2>4, <2>5
<1>4. /\ UNCHANGED <<resampler, file, vid, aud, initialized, unfinished,
                     formatSet, segment, frame, audioSample, overflowCounter, failures, filed, fault>>
      /\ UNCHANGED <<kind, hasSize, wfx, targetFormat, audioOk, pictures,
                     formats, sounding, since, soundDue, steady, deleted>>
  <2>1. UNCHANGED <<resampler, files, counters, failures, filed, fault>>
    BY DEF Segment
  <2> QED
    BY <1>1, <1>3, <2>1 DEF files, counters
<1>5. todo' = steps /\ todo' \in Stack
  <2>1. Len(todo) = 1
    BY <1>1, NextStep
  <2>2. Continue(steps) /\ steps \in Stack
    BY <1>1, <1>3, SegmentSteps
  <2> QED
    BY <1>1, <2>1, <2>2, Continued
<1>6. /\ StackInv'
      /\ ~HeadIs("init")' /\ ~HeadIs("startEncode")' /\ (HeadIs("cleanup")' => vid)
      /\ formatSet /\ vid => LastIs("writeVideo")'
      /\ \A i \in 1..Len(todo') : todo'[i][1] = "startAudio" => aud
  <2>1. CASE steps = <<>> /\ ~(formatSet /\ vid)
    <3>1. todo' = <<>>
      BY <1>5, <2>1
    <3>2. \A i \in Int : i \notin 1..Len(todo')
      BY <3>1
    <3> QED
      BY <2>1, <3>1, <3>2, EmptyStack
  <2>2. CASE steps = Video /\ vid
    <3>1. todo' = <<<<"writeVideo", 0>>>>
      BY <1>5, <2>2 DEF Video
    <3>2. ~deleted' /\ 0 \in Nat
      BY <1>1, <1>4
    <3> QED
      BY <2>2, <3>1, <3>2, OneStep
  <2>3. CASE steps = NewSegment /\ vid
    <3>1. /\ Len(todo') = 4 /\ todo'[1][1] = "cleanup" /\ todo'[2][1] = "init" /\ todo'[3][1] = "startEncode"
          /\ todo'[4][1] = "writeVideo"
      BY <1>5, <2>3 DEF NewSegment
    <3>2. todo' # <<>>
      BY <1>5, <2>3 DEF NewSegment
    <3>3. \A s : (HeadIs(s)' <=> s = "cleanup") /\ (LastIs(s)' <=> s = "writeVideo")
      BY <3>1, <3>2 DEF HeadIs, LastIs
    <3>4. \A i \in 1..Len(todo') : i = 1 \/ i = 2 \/ i = 3 \/ i = 4
      BY <3>1
    <3>5. \A i \in 1..Len(todo')-1 : i = 1 \/ i = 2 \/ i = 3
      BY <3>1
    <3>6. \A i \in 1..Len(todo')-1 : <<todo'[i][1], todo'[i+1][1]>> \in Follows
      <4>1. {<<"cleanup", "init">>, <<"init", "startEncode">>, <<"startEncode", "writeVideo">>} \subseteq Follows
        BY DEF Follows
      <4> QED
        BY <3>1, <3>5, <4>1
    <3>7. StackInv'
      BY <1>1, <1>2, <1>4, <3>1, <3>3, <3>6 DEF StackInv
    <3>8. \A i \in 1..Len(todo') : todo'[i][1] # "startAudio"
      BY <3>1, <3>4
    <3> QED
      BY <2>3, <3>3, <3>7, <3>8
  <2>4. CASE steps = NewSegmentSound /\ vid /\ aud
    <3>1. /\ Len(todo') = 5 /\ todo'[1][1] = "cleanup" /\ todo'[2][1] = "init" /\ todo'[3][1] = "startEncode"
          /\ todo'[4][1] = "startAudio" /\ todo'[5][1] = "writeVideo"
      BY <1>5, <2>4 DEF NewSegmentSound
    <3>2. todo' # <<>>
      BY <1>5, <2>4 DEF NewSegmentSound
    <3>3. \A s : (HeadIs(s)' <=> s = "cleanup") /\ (LastIs(s)' <=> s = "writeVideo")
      BY <3>1, <3>2 DEF HeadIs, LastIs
    <3>4. \A i \in 1..Len(todo')-1 : i = 1 \/ i = 2 \/ i = 3 \/ i = 4
      BY <3>1
    <3>5. \A i \in 1..Len(todo')-1 : <<todo'[i][1], todo'[i+1][1]>> \in Follows
      <4>1. {<<"cleanup", "init">>, <<"init", "startEncode">>, <<"startEncode", "startAudio">>,
             <<"startAudio", "writeVideo">>} \subseteq Follows
        BY DEF Follows
      <4> QED
        BY <3>1, <3>4, <4>1
    <3>6. StackInv'
      BY <1>1, <1>2, <1>4, <3>1, <3>3, <3>5 DEF StackInv
    <3> QED
      BY <2>4, <3>3, <3>6
  <2> QED
    BY <1>3, <2>1, <2>2, <2>3, <2>4
<1>7. ResamplerInv'
  BY <1>4, ResamplerSame
<1>8. WritersTypeOK'
  BY <1>4, <1>5, <1>7 DEF WritersTypeOK, ResamplerInv, Stack
<1>9. SoundInv'
  BY <1>4, <1>6 DEF SoundInv
<1>10. OpenInv'
  BY <1>4, <1>6 DEF OpenInv
<1>11. FiledInv'
  <2> SUFFICES ASSUME failures = 0 PROVE FiledInv'
    BY <1>4 DEF FiledInv
  <2>1. (\A s : HeadIs(s) <=> s = "segment") /\ (\A s : LastIs(s) <=> s = "segment") /\ Pending
    <3>1. Len(todo) = 1
      BY <1>1, NextStep
    <3> QED
      BY <1>1, <3>1 DEF HeadIs, LastIs, Pending
  <2>2. formatSet /\ initialized /\ vid
    BY <1>1, <1>2, <2>1 DEF FiledInv, OpenInv
  <2>3. Pending'
    BY <1>6, <2>2 DEF Pending
  <2>4. NextPlace'
    BY <1>4, <1>6, <2>1 DEF FiledInv, NextPlace
  <2>5. FiledInOrder'
    BY <1>4 DEF FiledInv, FiledInOrder
  <2> QED
    BY <1>1, <1>2, <1>4, <1>6, <2>1, <2>2, <2>3, <2>4, <2>5 DEF FiledInv
<1> QED
  BY <1>6, <1>7, <1>8, <1>9, <1>10, <1>11

-----------------------------------------------------------------------------
(* The invariant and what follows from it. *)

LEMMA Unchanged ==
  ASSUME WritersInv, UNCHANGED vars
  PROVE  WritersInv'
<1> USE DEF WritersInv
<1>1. /\ UNCHANGED <<resampler, hasSize, file, vid, aud, initialized, unfinished,
                     formatSet, segment, frame, audioSample, overflowCounter, failures, filed, fault>>
      /\ UNCHANGED <<todo, kind, wfx, targetFormat, audioOk, pictures,
                     formats, sounding, since, soundDue, steady, deleted>>
  BY DEF vars, files, counters, sound, driver, ghosts
<1>2. ResamplerInv'
  BY <1>1, ResamplerSame
<1>3. WritersTypeOK'
  BY <1>1, <1>2 DEF WritersTypeOK, ResamplerInv
<1>4. \A s : (HeadIs(s)' <=> HeadIs(s)) /\ (LastIs(s)' <=> LastIs(s))
  BY <1>1 DEF HeadIs, LastIs
<1>5. StackInv' /\ SoundInv' /\ OpenInv'
  BY <1>1, <1>4 DEF StackInv, SoundInv, OpenInv
<1>6. FiledInv'
  BY <1>1, <1>4 DEF FiledInv, Pending, NextPlace, FiledInOrder
<1> QED
  BY <1>2, <1>3, <1>5, <1>6

LEMMA Initially ==
  ASSUME Init
  PROVE  WritersInv
<1>1. PICK open \in Opened :
        /\ kind = "bmp" => open = <<FALSE, FALSE>>
        /\ MaxFailures = 0 => (open[2] = (kind = "vfw"))
        /\ file = open[1] /\ vid = open[2] /\ initialized = open[2]
        /\ failures = IF kind = "bmp" \/ open[2] THEN 0 ELSE 1
        /\ unfinished = IF open[1] THEN {1} ELSE {}
  BY DEF Init
<1>2. /\ kind \in {"vfw", "bmp"} /\ hasSize = FALSE
      /\ aud = FALSE /\ formatSet = FALSE /\ segment = 1 /\ audioSample = 0 /\ overflowCounter = 0
      /\ frame \in (IF kind = "vfw" THEN {0} ELSE {0, Garbage})
      /\ wfx = None /\ targetFormat = None /\ audioOk = FALSE
      /\ todo = <<>> /\ pictures = 0 /\ formats = 0
      /\ sounding = FALSE /\ since = 0 /\ soundDue = FALSE
      /\ filed = <<>> /\ steady = TRUE /\ deleted = FALSE /\ fault = FALSE
  BY DEF Init
<1>3. PICK rate \in Rates : ResamplerInit(rate, rate, 1, TRUE)
  BY DEF Init
<1>4. ResamplerInv
  BY <1>3, InitHolds, Constants
<1>5. /\ {file, vid, initialized} \subseteq BOOLEAN /\ (initialized <=> vid) /\ (vid => file)
      /\ kind = "bmp" => ~file /\ ~initialized /\ unfinished = {}
      /\ failures \in 0..MaxFailures /\ (failures = 0 /\ kind = "vfw" => initialized)
      /\ unfinished \subseteq {1}
  <2>1. open = <<TRUE, TRUE>> \/ open = <<FALSE, FALSE>> \/ open = <<TRUE, FALSE>>
    BY DEF Opened
  <2>2. open[1] \in BOOLEAN /\ open[2] \in BOOLEAN /\ (open[2] => open[1])
    <3>1. CASE open = <<TRUE, TRUE>>
      BY <3>1
    <3>2. CASE open = <<FALSE, FALSE>>
      BY <3>2
    <3>3. CASE open = <<TRUE, FALSE>>
      BY <3>3
    <3> QED
      BY <2>1, <3>1, <3>2, <3>3
  <2>3. kind = "bmp" => ~open[1] /\ ~open[2]
    <3>1. CASE open = <<FALSE, FALSE>>
      BY <3>1
    <3>2. kind = "bmp" => open = <<FALSE, FALSE>>
      BY <1>1
    <3> QED
      BY <3>1, <3>2
  <2>4. MaxFailures = 0 /\ kind = "vfw" => open[2]
    BY <1>1, <2>2
  <2>5. {file, vid, initialized} \subseteq BOOLEAN /\ (initialized <=> vid) /\ (vid => file)
    BY <1>1, <2>2
  <2>6. unfinished \subseteq {1} /\ (~open[1] => unfinished = {})
    BY <1>1
  <2>7. kind = "bmp" => ~file /\ ~initialized /\ unfinished = {}
    BY <1>1, <2>3, <2>6
  <2>8. failures = 0 \/ (failures = 1 /\ kind = "vfw" /\ ~open[2])
    BY <1>1, <1>2
  <2>9. failures \in 0..MaxFailures
    BY <1>2, <2>4, <2>8, Constants
  <2>10. failures = 0 /\ kind = "vfw" => initialized
    BY <1>1
  <2> QED
    BY <2>5, <2>6, <2>7, <2>9, <2>10
<1>6. WritersTypeOK
  <2>1. todo \in Seq(Steps \X Nat) /\ filed \in Seq(Nat \X Nat) /\ frame \in Nat
    BY <1>2, Constants
  <2>2. pictures \in 0..MaxPictures /\ formats \in 0..MaxFormats
    BY <1>2, Constants
  <2>3. {segment, frame, audioSample, overflowCounter, since} \subseteq Nat /\ unfinished \subseteq 1..segment
    BY <1>2, <1>5, <2>1
  <2>4. {hasSize, aud, formatSet, audioOk, sounding, soundDue, steady, deleted, fault} \subseteq BOOLEAN
    BY <1>2
  <2> QED
    BY <1>2, <1>4, <1>5, <2>1, <2>2, <2>3, <2>4 DEF WritersTypeOK, ResamplerInv
<1>7. ~Pending /\ \A s : ~HeadIs(s) /\ ~LastIs(s)
  BY <1>2, NothingToDo
<1>8. \A i \in Int : i \notin 1..Len(todo)-1 /\ i \notin 1..Len(todo)
  BY <1>2
<1>9. StackInv /\ SoundInv /\ OpenInv
  BY <1>2, <1>5, <1>7, <1>8 DEF StackInv, SoundInv, OpenInv
<1>10. FiledInv
  <2>1. Len(filed) = 0 /\ \A i \in Int : i \notin 1..Len(filed)-1
    BY <1>2
  <2>2. NextPlace /\ FiledInOrder
    BY <1>2, <2>1 DEF NextPlace, FiledInOrder
  <2> QED
    BY <1>2, <1>5, <1>7, <2>1, <2>2 DEF FiledInv
<1> QED
  BY <1>4, <1>6, <1>9, <1>10 DEF WritersInv

(* Every step of either encoder keeps the types, the order of the steps of a call, what
   is open, and where the next picture goes (avi_videoencoder_vfw.cpp:89-170). *)
THEOREM WritersInvariant == Spec => []WritersInv
<1>1. ASSUME WritersInv, [Next]_vars PROVE WritersInv'
  <2>1. CASE SetSize \/ WriteFrame \/ WriteAudioFrame \/ SoundStops \/ Delete
    BY <1>1, <2>1, SetSizeKeeps, WriteFrameKeeps, WriteAudioFrameKeeps, SoundStopsKeeps, DeleteKeeps
  <2>2. ASSUME NEW f \in Format, SetAudioFormat(f) PROVE WritersInv'
    BY <1>1, <2>2, SetAudioFormatKeeps
  <2>3. CASE StartEncode \/ Segment \/ CleanupSegment \/ InitSegment \/ WriteVideo
    BY <1>1, <2>3, StartEncodeKeeps, SegmentKeeps, CleanupSegmentKeeps, InitSegmentKeeps, WriteVideoKeeps
  <2>4. CASE StartAudio \/ Fill \/ Block \/ Resample \/ Resampled
    BY <1>1, <2>4, StartAudioKeeps, FillKeeps, BlockStepKeeps, ResampleKeeps, ResampledKeeps
  <2>5. CASE UNCHANGED vars
    BY <1>1, <2>5, Unchanged
  <2> QED
    BY <1>1, <2>1, <2>2, <2>3, <2>4, <2>5 DEF Next
<1> QED
  BY <1>1, Initially, PTL DEF Spec

(* Unless something fails, every picture is in a file, behind the picture before it, or
   the first of the next segment, and no stream is written to that is not there, whatever
   the sizes of a picture and of a segment (avi_videoencoder_vfw.cpp:325-347). *)
THEOREM PicturesFiled == Spec => []EveryPictureFiled
<1>1. WritersInv => EveryPictureFiled
  <2> SUFFICES ASSUME WritersInv
               PROVE  /\ WritersTypeOK
                      /\ failures = 0 =>
                           /\ ~fault /\ (todo = <<>> => Len(filed) = pictures)
                           /\ FiledInOrder
    BY DEF EveryPictureFiled, FiledInOrder
  <2>1. todo = <<>> => ~Pending
    BY NothingToDo
  <2> QED
    BY <2>1 DEF WritersInv, FiledInv, WritersTypeOK
<1> QED
  BY <1>1, WritersInvariant, PTL

(* Whatever fails, no segment but the last is left unfinished, and if nothing fails the
   destructor finishes that one too (avi_videoencoder_vfw.cpp:116-165, 304-312). *)
THEOREM SegmentsEnd == Spec => []SegmentsFinished
<1>1. WritersInv => SegmentsFinished
  BY DEF WritersInv, OpenInv, FiledInv, SegmentsFinished
<1> QED
  BY <1>1, WritersInvariant, PTL

(* The encoder drives the resampler with blocks of the sound's own lengths and with
   silence, and a new format starts it again: the output stays the input's worth
   (avi_videoencoder_vfw.cpp:369-398). *)
THEOREM WritersDoNotDrift == Spec => []NoDrift
BY BetweenBlocks, WritersInvariant, PTL DEF WritersInv

(* The space made for the output suffices for every block that the encoder sends to the
   resampler, silence included (avi_videoencoder_vfw.cpp:378-384). *)
THEOREM WritersOutputFits == Spec => []OutputFits
BY WithinBuffer, WritersInvariant, PTL DEF WritersInv

-----------------------------------------------------------------------------
(* Sound and picture: the arithmetic. *)

(* Products of a common factor compare as what it multiplies does, and back. *)
LEMMA Larger == \A a, b \in Int, c \in Nat : a <= b => a * c <= b * c
<1> TAKE a, b \in Int, c \in Nat
<1> HAVE a <= b
<1>1. (b - a) * c \in Nat
  <2>1. b - a \in Nat
    OBVIOUS
  <2> QED
    BY <2>1
<1>2. b * c = a * c + (b - a) * c
  <2>1. \A x, y, z \in Int : (x + y) * z = x * z + y * z
    BY SMT
  <2>2. b - a \in Int /\ a + (b - a) = b
    OBVIOUS
  <2> QED
    BY <2>1, <2>2
<1>3. a * c \in Int
  OBVIOUS
<1> QED
  BY <1>1, <1>2, <1>3

LEMMA Fewer == \A a, b \in Int, c \in Nat \ {0} : a * c < b * c => a < b
<1> TAKE a, b \in Int, c \in Nat \ {0}
<1>1. b <= a => b * c <= a * c
  BY Larger
<1>2. a * c \in Int /\ b * c \in Int
  OBVIOUS
<1> QED
  BY <1>1, <1>2

(* C of the input's samples are all of S samples of silence and the V of s frames but for
   three, and make P of the output: the same, times both rates and the frame rate. *)
LEMMA InCommonUnits ==
  ASSUME NEW T \in Nat \ {0}, NEW I \in Nat \ {0}, NEW F \in Nat \ {0},
         NEW S \in Nat, NEW V \in Nat, NEW s \in Nat, NEW C \in Nat, NEW P \in Nat,
         V * F <= s * I, s * I < V * F + F, C <= S + V, S + V <= C + 3, C * T <= P * I, P * I < C * T + I
  PROVE  /\ V * (T * F) <= s * (T * I) /\ s * (T * I) < V * (T * F) + T * F
         /\ C * (T * F) <= S * (T * F) + V * (T * F) /\ S * (T * F) + V * (T * F) <= C * (T * F) + 3 * (T * F)
         /\ C * (T * F) <= P * (F * I) /\ P * (F * I) < C * (T * F) + F * I
<1> DEFINE tf == T * F
           ti == T * I
           fi == F * I
<1>1. tf \in Nat \ {0} /\ ti \in Nat \ {0} /\ fi \in Nat \ {0}
  OBVIOUS
<1>2. V * tf <= s * ti /\ s * ti < V * tf + tf
  <2>1. (V * F) * T <= (s * I) * T
    BY Larger
  <2>2. (s * I + 1) * T <= (V * F + F) * T
    BY Larger
  <2>3. (V * F) * T = V * tf /\ (s * I) * T = s * ti
    OBVIOUS
  <2>4. (s * I + 1) * T = (s * I) * T + T /\ (V * F + F) * T = (V * F) * T + tf
    OBVIOUS
  <2>5. V * tf \in Int /\ s * ti \in Int
    BY <1>1
  <2> HIDE DEF tf, ti
  <2> QED
    BY <1>1, <2>1, <2>2, <2>3, <2>4, <2>5
<1>3. C * tf <= S * tf + V * tf /\ S * tf + V * tf <= C * tf + 3 * tf
  <2> HIDE DEF tf
  <2>1. C * tf <= (S + V) * tf /\ (S + V) * tf <= (C + 3) * tf
    BY <1>1, Larger
  <2>2. (S + V) * tf = S * tf + V * tf /\ (C + 3) * tf = C * tf + 3 * tf
    BY <1>1
  <2> QED
    BY <2>1, <2>2
<1>4. C * tf <= P * fi /\ P * fi < C * tf + fi
  <2>1. (C * T) * F <= (P * I) * F
    BY Larger
  <2>2. (P * I + 1) * F <= (C * T + I) * F
    BY Larger
  <2>3. (C * T) * F = C * tf /\ (P * I) * F = P * fi
    OBVIOUS
  <2>4. (P * I + 1) * F = (P * I) * F + F /\ (C * T + I) * F = (C * T) * F + fi
    OBVIOUS
  <2>5. C * tf \in Int /\ P * fi \in Int
    BY <1>1
  <2> HIDE DEF tf, fi
  <2> QED
    BY <1>1, <2>1, <2>2, <2>3, <2>4, <2>5
<1> QED
  BY <1>2, <1>3, <1>4

(* What a stream that has had n frames since the format was set has in its file between
   two calls: P samples of the output made from C of the input, which is all of S
   samples of silence and the V of s frames but for three. *)
LEMMA BetweenCalls ==
  ASSUME NEW T \in Nat \ {0}, NEW I \in Nat \ {0}, NEW F \in Nat \ {0},
         NEW S \in Nat, NEW V \in Nat, NEW s \in Nat, NEW C \in Nat, NEW P \in Nat,
         NEW L \in Nat, NEW E \in Nat, NEW k \in Nat, NEW n \in Int, NEW x \in Int,
         V * F <= s * I, s * I < V * F + F, C <= S + V, S + V <= C + 3,
         C * T <= P * I, P * I < C * T + I, 4 * T <= E * I,
         n * T * I - S * T * F <= (x + L) * F * I,
         x * F * I <= (n + 1) * T * I - S * T * F + k * F * I
  PROVE  /\ (n + s) * T < (x + P + L + E) * F
         /\ (x + P) * F < (n + s + 1) * T + (k + 1) * F
<1> DEFINE tf == T * F
           ti == T * I
           fi == F * I
<1>1. tf \in Nat \ {0} /\ ti \in Nat \ {0} /\ fi \in Nat \ {0}
  OBVIOUS
<1>2. /\ V * tf <= s * ti /\ s * ti < V * tf + tf
      /\ C * tf <= S * tf + V * tf /\ S * tf + V * tf <= C * tf + 3 * tf
      /\ C * tf <= P * fi /\ P * fi < C * tf + fi
  BY InCommonUnits
<1>5. 4 * tf <= E * fi
  <2>1. (4 * T) * F <= (E * I) * F
    BY Larger
  <2>2. (4 * T) * F = 4 * tf /\ (E * I) * F = E * fi
    OBVIOUS
  <2> QED
    BY <2>1, <2>2
<1>6. /\ n * ti - S * tf <= x * fi + L * fi
      /\ x * fi <= n * ti + ti - S * tf + k * fi
  <2>1. n * T * I = n * ti /\ S * T * F = S * tf /\ (x + L) * F * I = x * fi + L * fi
    OBVIOUS
  <2>2. x * F * I = x * fi /\ (n + 1) * T * I = n * ti + ti /\ k * F * I = k * fi
    OBVIOUS
  <2> QED
    BY <2>1, <2>2
<1>7. /\ ((n + s) * T) * I = n * ti + s * ti
      /\ ((x + P + L + E) * F) * I = x * fi + P * fi + L * fi + E * fi
      /\ ((x + P) * F) * I = x * fi + P * fi
      /\ ((n + s + 1) * T + (k + 1) * F) * I = n * ti + s * ti + ti + k * fi + fi
  OBVIOUS
<1>8. /\ n * ti \in Int /\ s * ti \in Int /\ x * fi \in Int /\ P * fi \in Int /\ L * fi \in Int /\ E * fi \in Int
      /\ S * tf \in Int /\ V * tf \in Int /\ C * tf \in Int /\ k * fi \in Int
  BY <1>1
<1> HIDE DEF tf, ti, fi
<1>9. ((n + s) * T) * I < ((x + P + L + E) * F) * I
  <2> DEFINE nt == n * ti
             st == s * ti
             sf == S * tf
             vf == V * tf
             cf == C * tf
             xf == x * fi
             pf == P * fi
             lf == L * fi
             ef == E * fi
  <2>1. /\ nt \in Int /\ st \in Int /\ sf \in Int /\ vf \in Int /\ cf \in Int /\ xf \in Int /\ pf \in Int
        /\ lf \in Int /\ ef \in Int
    BY <1>8
  <2>2. st < vf + tf /\ sf + vf <= cf + 3 * tf /\ cf <= pf /\ 4 * tf <= ef /\ nt - sf <= xf + lf
    BY <1>2, <1>5, <1>6
  <2> HIDE DEF nt, st, sf, vf, cf, xf, pf, lf, ef
  <2>3. nt + st < xf + pf + lf + ef
    BY <1>1, <2>1, <2>2
  <2> QED
    BY <1>7, <2>3 DEF nt, st, xf, pf, lf, ef
<1>10. ((x + P) * F) * I < ((n + s + 1) * T + (k + 1) * F) * I
  BY <1>1, <1>2, <1>6, <1>7, <1>8
<1> QED
  BY <1>9, <1>10, Fewer

(* Where that is when the frames are counted from 0 again. *)
LEMMA NewFile ==
  ASSUME NEW T \in Nat \ {0}, NEW I \in Nat \ {0}, NEW F \in Nat \ {0},
         NEW S \in Nat, NEW V \in Nat, NEW s \in Nat, NEW C \in Nat, NEW P \in Nat, NEW k \in Nat,
         V * F <= s * I, s * I < V * F + F, C <= S + V, S + V <= C + 3,
         C * T <= P * I, P * I < C * T + I, 4 * F <= I
  PROVE  /\ (0 - s) * T * I - S * T * F <= (0 - P + 1) * F * I
         /\ (0 - P) * F * I <= (0 - s + 1) * T * I - S * T * F + k * F * I
<1> DEFINE tf == T * F
           ti == T * I
           fi == F * I
<1>1. tf \in Nat \ {0} /\ ti \in Nat \ {0} /\ fi \in Nat \ {0}
  OBVIOUS
<1>2. /\ V * tf <= s * ti /\ s * ti < V * tf + tf
      /\ C * tf <= S * tf + V * tf /\ S * tf + V * tf <= C * tf + 3 * tf
      /\ C * tf <= P * fi /\ P * fi < C * tf + fi
  BY InCommonUnits
<1>5. 4 * tf <= ti
  <2>1. (4 * F) * T <= I * T
    BY Larger
  <2>2. (4 * F) * T = 4 * tf /\ I * T = ti
    OBVIOUS
  <2> QED
    BY <2>1, <2>2
<1>6. /\ (0 - s) * T * I = 0 - s * ti /\ S * T * F = S * tf /\ (0 - P + 1) * F * I = 0 - P * fi + fi
      /\ (0 - P) * F * I = 0 - P * fi /\ (0 - s + 1) * T * I = 0 - s * ti + ti /\ k * F * I = k * fi
  OBVIOUS
<1>7. /\ s * ti \in Int /\ P * fi \in Int /\ S * tf \in Int /\ V * tf \in Int /\ C * tf \in Int /\ k * fi \in Nat
  BY <1>1
<1> HIDE DEF tf, ti, fi
<1>8. 0 - s * ti - S * tf <= 0 - P * fi + fi
  BY <1>1, <1>2, <1>7
<1>9. 0 - P * fi <= 0 - s * ti + ti - S * tf + k * fi
  BY <1>1, <1>2, <1>5, <1>7
<1> QED
  BY <1>6, <1>8, <1>9

-----------------------------------------------------------------------------
(* Sound and picture: what is left of a call, and where both streams are. *)

(* A frame is long enough for the samples that the resampler keeps back. *)
FrameHoldsFour == \A rate \in Rates : rate >= 4 * FrameRate

Do(step, n) == <<step, n>>

(* S samples of silence and the program's own have come since the format was set: they
   have been read, or are left of the block, or p of them are to come. *)
Fed(S, p) ==
  LET all == S + SamplesIn(since, InRate)
      read == consumed + nInSamples + p
  IN  read <= all /\ all <= read + InitSamples

(* L samples may be missing since before this format, E more with it. *)
Priced(L, E) ==
  /\ {InRate, OutRate} \subseteq Rates /\ L >= 1 /\ 4 * OutRate <= E * InRate
  /\ L + E <= 5 + ChangeCost(OutRate) * (formats - 1)

(* x samples for n frames were there when the format was set, silence apart. *)
Level(S, L, n, x) ==
  /\ n * OutRate * InRate - S * OutRate * FrameRate <= (x + L) * FrameRate * InRate
  /\ x * FrameRate * InRate <= (n + 1) * OutRate * InRate - S * OutRate * FrameRate + formats * FrameRate * InRate

InHand(hand) == IF hand THEN count ELSE 0

(* The stream keeps up with the picture, b pictures and p samples being under way. *)
Flowing(b, p, hand) ==
  \E S, L, E \in Nat :
    Fed(S, p) /\ Priced(L, E) /\ Level(S, L, frame + b - since, audioSample + InHand(hand) - produced)
Flow(b, p) == nInSamples = 0 /\ Flowing(b, p, FALSE)

(* The stream goes on in the next file; there is none yet. *)
Stopped == nInSamples = 0 /\ \E S, E \in Nat : Fed(S, 0) /\ Priced(1, E)
Fresh ==
  /\ produced = 0 /\ consumed = 0 /\ InitSamples = 0 /\ nInSamples = 0
  /\ wfx \in Format => OutRate = InRate

-----------------------------------------------------------------------------
(* Division by the frame rate: so many frames hold so many whole samples, *)
LEMMA Rated ==
  \A n \in Nat, r \in Nat :
    /\ SamplesIn(n, r) \in Nat /\ SamplesIn(n, r) * FrameRate <= n * r
    /\ n * r < SamplesIn(n, r) * FrameRate + FrameRate
<1> TAKE n \in Nat, r \in Nat
<1> DEFINE x == n * r
           q == x \div FrameRate
<1>1. x \in Nat /\ FrameRate \in Nat \ {0}
  BY Constants
<1> HIDE DEF x
<1>2. q \in Nat /\ q * FrameRate <= x /\ x < q * FrameRate + FrameRate
  BY <1>1, SMT
<1> QED
  BY <1>2 DEF SamplesIn, x

(* and MulDiv, which rounds to the nearest, is off by less than one. *)
LEMMA Silent ==
  \A n \in Nat, r \in Nat :
    /\ SamplesNear(n, r) \in Nat /\ SamplesNear(n, r) * FrameRate <= n * r + FrameRate
    /\ n * r <= SamplesNear(n, r) * FrameRate + FrameRate
<1> TAKE n \in Nat, r \in Nat
<1> DEFINE h == FrameRate \div 2
           y == n * r
           x == y + h
           q == x \div FrameRate
<1>1. y \in Nat /\ FrameRate \in Nat \ {0}
  BY Constants
<1>2. h \in Nat /\ h <= FrameRate
  BY <1>1, SMT
<1> HIDE DEF y, h
<1>3. x \in Nat
  BY <1>1, <1>2
<1> HIDE DEF x
<1>4. q \in Nat /\ q * FrameRate <= x /\ x < q * FrameRate + FrameRate
  BY <1>1, <1>3, SMT
<1>5. q * FrameRate \in Nat
  BY <1>1, <1>4
<1> HIDE DEF q
<1>6. q * FrameRate <= y + FrameRate /\ y <= q * FrameRate + FrameRate
  BY <1>1, <1>2, <1>4, <1>5 DEF x
<1> QED
  BY <1>4, <1>6 DEF SamplesNear, q, x, y, h

(* The set of rates has a least one, *)
LEMMA SlowestIsLeast ==
  ASSUME Rates # {}
  PROVE  Slowest \in Rates /\ \A rate \in Rates : Slowest <= rate
<1>1. Rates \subseteq Nat
  BY Constants
<1>2. PICK r \in Rates : \A other \in Rates : ~ (<<other, r>> \in OpToRel(<, Nat))
  BY <1>1, NatLessThanWellFounded, WFMin
<1>3. \A other \in Rates : <<other, r>> \in Nat \X Nat /\ ~(other < r)
  BY <1>1, <1>2 DEF OpToRel
<1>4. \A other \in Rates : r <= other
  <2> TAKE other \in Rates
  <2>1. other \in Nat /\ r \in Nat
    BY <1>1
  <2>2. ~(other < r)
    BY <1>3
  <2> QED
    BY <2>1, <2>2
<1> QED
  BY <1>4 DEF Slowest

(* so that a change of format costs four samples or more, and enough at every rate. *)
LEMMA Cost ==
  ASSUME NEW to \in Rates, NEW from \in Rates
  PROVE  ChangeCost(to) \in Nat /\ ChangeCost(to) >= 4 /\ 4 * to <= ChangeCost(to) * from
<1> DEFINE m == Slowest
           x == 4 * to + m - 1
           q == x \div m
<1>1. m \in Nat \ {0} /\ m <= to /\ m <= from /\ to \in Nat /\ from \in Nat
  BY SlowestIsLeast, Constants
<1> HIDE DEF m
<1>2. x \in Nat /\ 4 * m <= x
  BY <1>1
<1>3. q \in Nat /\ x < q * m + m
  <2> HIDE DEF x
  <2> QED
    BY <1>1, <1>2, SMT
<1>4. 4 <= q
  BY <1>1, <1>2, QuotientBounds
<1> HIDE DEF q
<1>5. 4 * to <= q * m
  <2>1. q * m \in Nat
    BY <1>1, <1>3
  <2> QED
    BY <1>1, <1>3, <2>1 DEF x
<1>6. q * m <= q * from
  <2>1. m * q <= from * q
    BY <1>1, <1>3, Larger
  <2> QED
    BY <1>1, <1>3, <2>1
<1>7. 4 * to <= q * from
  <2>1. q * m \in Nat /\ q * from \in Nat
    BY <1>1, <1>3
  <2> QED
    BY <1>1, <1>5, <1>6, <2>1
<1> QED
  BY <1>3, <1>4, <1>7 DEF ChangeCost, q, x, m

(* What the arithmetic is about. *)
LEMMA Quantities ==
  ASSUME WritersInv
  PROVE  /\ InRate \in Nat \ {0} /\ OutRate \in Nat \ {0} /\ FrameRate \in Nat \ {0}
         /\ since \in Nat /\ consumed \in Nat /\ produced \in Nat /\ nInSamples \in Nat /\ count \in Nat
         /\ InitSamples \in 0..3 /\ frame \in Nat /\ audioSample \in Nat /\ formats \in Nat /\ pictures \in Nat
         /\ tFrac \in Nat /\ tFrac = produced * InRate - consumed * OutRate
         /\ nInSamples = 0 => tFrac < InRate
  BY Constants DEF WritersInv, WritersTypeOK, ResamplerTypeOK, ResamplerInv, Position

(* The resampler has made its input's worth. *)
LEMMA Worth ==
  ASSUME WritersInv, nInSamples = 0
  PROVE  consumed * OutRate <= produced * InRate /\ produced * InRate < consumed * OutRate + InRate
<1>1. consumed * OutRate \in Int /\ produced * InRate \in Int
  BY Quantities
<1> QED
  BY <1>1, Quantities

(* Where a stream is between two calls. *)
LEMMA FlowAtRest ==
  ASSUME WritersInv, NEW b \in Int, Flow(b, 0)
  PROVE  \E W \in Nat :
           /\ W >= 1 /\ W <= 5 + ChangeCost(OutRate) * (formats - 1)
           /\ (frame + b) * OutRate < (audioSample + W) * FrameRate
           /\ audioSample * FrameRate < (frame + b + 1) * OutRate + (formats + 1) * FrameRate
<1> DEFINE V == SamplesIn(since, InRate)
           n == frame + b - since
           x == audioSample - produced
<1>1. PICK S \in Nat, L \in Nat, E \in Nat : Fed(S, 0) /\ Priced(L, E) /\ Level(S, L, n, x)
  <2>1. audioSample + 0 - produced = x
    BY Quantities
  <2> QED
    BY <2>1 DEF Flow, Flowing, InHand
<1>2. V \in Nat /\ V * FrameRate <= since * InRate /\ since * InRate < V * FrameRate + FrameRate
  BY Rated, Quantities
<1>3. n \in Int /\ x \in Int /\ n + since = frame + b /\ x + produced = audioSample
  BY Quantities
<1>4. consumed <= S + V /\ S + V <= consumed + 3
  BY <1>1, <1>2, Quantities DEF Fed, Flow
<1>5. 4 * OutRate <= E * InRate /\ L >= 1 /\ L + E <= 5 + ChangeCost(OutRate) * (formats - 1)
  BY <1>1 DEF Priced
<1>6. /\ n * OutRate * InRate - S * OutRate * FrameRate <= (x + L) * FrameRate * InRate
      /\ x * FrameRate * InRate <= (n + 1) * OutRate * InRate - S * OutRate * FrameRate + formats * FrameRate * InRate
  BY <1>1 DEF Level
<1>7. consumed * OutRate <= produced * InRate /\ produced * InRate < consumed * OutRate + InRate
  BY Worth DEF Flow
<1> HIDE DEF V, n, x
<1>8. /\ (n + since) * OutRate < (x + produced + L + E) * FrameRate
      /\ (x + produced) * FrameRate < (n + since + 1) * OutRate + (formats + 1) * FrameRate
  BY <1>1, <1>2, <1>3, <1>4, <1>5, <1>6, <1>7, Quantities, BetweenCalls
<1>9. x + produced + L + E = audioSample + (L + E) /\ L + E \in Nat /\ L + E >= 1
  BY <1>1, <1>3, <1>5, Quantities
<1> QED
  BY <1>3, <1>5, <1>8, <1>9

(* A change of file may come at any rest, and leaves the price of what comes. *)
LEMMA FlowStops ==
  ASSUME WritersInv, NEW b, Flow(b, 0)
  PROVE  Stopped
<1>1. PICK S \in Nat, L \in Nat, E \in Nat : Fed(S, 0) /\ Priced(L, E)
  BY DEF Flow, Flowing
<1>2. Priced(1, E)
  <2> DEFINE c == ChangeCost(OutRate) * (formats - 1)
  <2>1. L >= 1 /\ L + E <= 5 + c /\ 4 * OutRate <= E * InRate /\ {InRate, OutRate} \subseteq Rates
    BY <1>1 DEF Priced
  <2>2. c \in Int
    BY <2>1, Cost, Quantities
  <2> HIDE DEF c
  <2>3. 1 + E <= 5 + c
    BY <2>1, <2>2
  <2> QED
    BY <2>1, <2>3 DEF Priced, c
<1> QED
  BY <1>1, <1>2 DEF Flow, Stopped

(* The next file begins with the frame in which the last one has ended. *)
LEMMA FlowResumes ==
  ASSUME WritersInv, FrameHoldsFour, Stopped, formats >= 1, frame = 0,
         audioSample' = 0,
         UNCHANGED <<InRate, OutRate, since, consumed, produced, nInSamples, InitSamples, formats, frame>>
  PROVE  Flow(0, 0)'
<1> DEFINE V == SamplesIn(since, InRate)
<1>1. PICK S \in Nat, E \in Nat : Fed(S, 0) /\ Priced(1, E)
  BY DEF Stopped
<1>2. V \in Nat /\ V * FrameRate <= since * InRate /\ since * InRate < V * FrameRate + FrameRate
  BY Rated, Quantities
<1>3. consumed <= S + V /\ S + V <= consumed + 3
  BY <1>1, <1>2, Quantities DEF Fed, Stopped
<1>4. InRate \in Rates /\ 4 * FrameRate <= InRate
  <2>1. InRate \in Rates
    BY <1>1 DEF Priced
  <2> QED
    BY <2>1, Quantities DEF FrameHoldsFour
<1>5. consumed * OutRate <= produced * InRate /\ produced * InRate < consumed * OutRate + InRate
  BY Worth DEF Stopped
<1> HIDE DEF V
<1>6. /\ (0 - since) * OutRate * InRate - S * OutRate * FrameRate <= (0 - produced + 1) * FrameRate * InRate
      /\ (0 - produced) * FrameRate * InRate
           <= (0 - since + 1) * OutRate * InRate - S * OutRate * FrameRate + formats * FrameRate * InRate
  BY <1>1, <1>2, <1>3, <1>4, <1>5, Quantities, NewFile
<1>7. Level(S, 1, 0 - since, 0 - produced)
  BY <1>6 DEF Level
<1>8. Fed(S, 0)' /\ Priced(1, E)' /\ Level(S, 1, 0 - since, 0 - produced)'
  BY <1>1, <1>7 DEF Fed, Priced, Level
<1>9. frame' + 0 - since' = 0 - since' /\ audioSample' + InHand(FALSE)' - produced' = 0 - produced' /\ nInSamples' = 0
  BY Quantities DEF InHand, Stopped
<1> QED
  BY <1>1, <1>8, <1>9 DEF Flow, Flowing

(* A stream begins with silence for the pictures so far, and with a frame of sound. *)
LEMMA FlowStarts ==
  ASSUME WritersInv, Fresh, since = 1, formats >= 1, InRate = OutRate, InRate \in Rates,
         audioSample' = 0, NEW m, m = SamplesNear(frame, InRate),
         UNCHANGED <<InRate, OutRate, since, consumed, produced, nInSamples, InitSamples, formats, frame>>
  PROVE  Flow(0, m + SamplesIn(1, InRate))'
<1> DEFINE I == InRate
           F == FrameRate
           V == SamplesIn(since, InRate)
<1>1. m \in Nat /\ m * F <= frame * I + F /\ frame * I <= m * F + F /\ I \in Nat \ {0} /\ F \in Nat \ {0}
  BY Silent, Quantities
<1>2. V \in Nat /\ V = SamplesIn(1, InRate)
  BY Rated, Quantities
<1>3. Fed(m, m + V)
  BY <1>1, <1>2 DEF Fed, Fresh
<1>4. Priced(1, 4)
  <2> DEFINE c == ChangeCost(OutRate) * (formats - 1)
  <2>1. ChangeCost(OutRate) \in Nat
    BY Cost
  <2>2. c \in Nat
    <3>1. formats - 1 \in Nat
      BY Quantities
    <3> QED
      BY <2>1, <3>1
  <2>3. 4 * OutRate <= 4 * InRate /\ {InRate, OutRate} \subseteq Rates
    BY Quantities
  <2> HIDE DEF c
  <2>4. 1 + 4 <= 5 + c
    BY <2>2
  <2> QED
    BY <2>3, <2>4 DEF Priced, c
<1>5. Level(m, 1, frame - 1, 0)
  <2> DEFINE fi == frame * I
             mf == m * F
  <2>1. fi \in Int /\ mf \in Int /\ mf <= fi + F /\ fi <= mf + F
    BY <1>1, Quantities
  <2>2. (fi - I - mf) * I <= F * I /\ 0 <= (fi + F - mf) * I
    <3> HIDE DEF fi, mf, I, F
    <3>1. fi - I - mf <= F /\ 0 <= fi + F - mf /\ I \in Nat /\ F \in Nat /\ fi - I - mf \in Int /\ fi + F - mf \in Nat
      BY <1>1, <2>1
    <3>2. (fi - I - mf) * I <= F * I
      BY <3>1, Larger
    <3>3. (fi + F - mf) * I \in Nat
      BY <3>1
    <3> QED
      BY <3>2, <3>3
  <2>3. (fi - I - mf) * I = (frame - 1) * I * I - m * I * F /\ (fi + F - mf) * I = frame * I * I - m * I * F + F * I
    BY <1>1, Quantities
  <2>4. F * I <= formats * F * I
    <3>1. 1 * (F * I) <= formats * (F * I)
      <4>1. F * I \in Nat
        BY <1>1
      <4> HIDE DEF F, I
      <4> QED
        BY <4>1, Quantities, Larger
    <3> QED
      BY <1>1, <3>1, Quantities
  <2>5. (0 + 1) * F * I = F * I /\ 0 * F * I = 0 /\ frame - 1 + 1 = frame
    BY <1>1, Quantities
  <2>6. /\ (frame - 1) * I * I \in Int /\ m * I * F \in Int /\ frame * I * I \in Int /\ F * I \in Int /\ formats * F * I \in Int
    BY <1>1, Quantities
  <2>7. /\ (frame - 1) * I * I - m * I * F <= (0 + 1) * F * I
        /\ 0 * F * I <= (frame - 1 + 1) * I * I - m * I * F + formats * F * I
    BY <2>2, <2>3, <2>4, <2>5, <2>6
  <2> QED
    BY <2>7 DEF Level
<1>6. Fed(m, m + V)' /\ Priced(1, 4)' /\ Level(m, 1, frame - 1, 0)'
  BY <1>1, <1>3, <1>4, <1>5 DEF Fed, Priced, Level
<1>7. frame' + 0 - since' = frame' - 1 /\ audioSample' + InHand(FALSE)' - produced' = 0 /\ nInSamples' = 0
  BY Quantities DEF InHand, Fresh
<1> QED
  BY <1>1, <1>2, <1>6, <1>7 DEF Flow, Flowing

(* What a step leaves of the stack. *)
LEMMA Left ==
  ASSUME Continue(<<>>)
  PROVE  /\ \A a : todo = <<a>> => todo' = <<>>
         /\ \A a, b : todo = <<a, b>> => todo' = <<b>>
         /\ \A a, b, c : todo = <<a, b, c>> => todo' = <<b, c>>
         /\ \A a, b, c, d : todo = <<a, b, c, d>> => todo' = <<b, c, d>>
         /\ \A a, b, c, d, e : todo = <<a, b, c, d, e>> => todo' = <<b, c, d, e>>
<1> SUFFICES ASSUME NEW a, NEW b, NEW c, NEW d, NEW e
             PROVE  /\ todo = <<a>> => todo' = <<>>
                    /\ todo = <<a, b>> => todo' = <<b>>
                    /\ todo = <<a, b, c>> => todo' = <<b, c>>
                    /\ todo = <<a, b, c, d>> => todo' = <<b, c, d>>
                    /\ todo = <<a, b, c, d, e>> => todo' = <<b, c, d, e>>
  OBVIOUS
<1>1. Tail(<<a>>) = <<>> /\ Tail(<<a, b>>) = <<b>> /\ Tail(<<a, b, c>>) = <<b, c>>
      /\ Tail(<<a, b, c, d>>) = <<b, c, d>> /\ Tail(<<a, b, c, d, e>>) = <<b, c, d, e>>
  OBVIOUS
<1>2. <<>> \o <<>> = <<>> /\ <<>> \o <<b>> = <<b>> /\ <<>> \o <<b, c>> = <<b, c>>
      /\ <<>> \o <<b, c, d>> = <<b, c, d>> /\ <<>> \o <<b, c, d, e>> = <<b, c, d, e>>
  OBVIOUS
<1> QED
  BY <1>1, <1>2 DEF Continue

(* What it leaves when it has put others in its place. *)
LEMMA PutFirst ==
  /\ \A a, b : todo = <<a>> /\ Continue(<<b>>) => todo' = <<b>>
  /\ \A a, b, c : todo = <<a, b>> /\ Continue(<<c>>) => todo' = <<c, b>>
  /\ \A a, b, c, d : todo = <<a, b>> /\ Continue(<<c, d>>) => todo' = <<c, d, b>>
  /\ \A a, b, c, d : todo = <<a, b, c>> /\ Continue(<<d>>) => todo' = <<d, b, c>>
<1>1. ASSUME NEW a, NEW b, todo = <<a>>, Continue(<<b>>) PROVE todo' = <<b>>
  <2>1. Tail(<<a>>) = <<>> /\ <<b>> \o <<>> = <<b>>
    OBVIOUS
  <2> QED
    BY <1>1, <2>1 DEF Continue
<1>2. ASSUME NEW a, NEW b, NEW c, todo = <<a, b>>, Continue(<<c>>) PROVE todo' = <<c, b>>
  <2>1. Tail(<<a, b>>) = <<b>>
    OBVIOUS
  <2>2. <<c>> \o <<b>> = <<c, b>>
    BY b \in {b, c}, c \in {b, c}, Pair
  <2> QED
    BY <1>2, <2>1, <2>2 DEF Continue
<1>3. ASSUME NEW a, NEW b, NEW c, NEW d, todo = <<a, b>>, Continue(<<c, d>>) PROVE todo' = <<c, d, b>>
  <2> DEFINE S == {b, c, d}
             p == <<c, d>> \o <<b>>
             q == <<c, d, b>>
  <2>1. Tail(<<a, b>>) = <<b>> /\ b \in S /\ c \in S /\ d \in S
    OBVIOUS
  <2> HIDE DEF S
  <2>2. p \in Seq(S) /\ Len(p) = Len(q) /\ q \in Seq(S) /\ \A i \in 1..Len(p) : p[i] = q[i]
    BY <2>1
  <2> HIDE DEF p, q
  <2>3. p = q
    BY <2>2, SeqEqual
  <2> QED
    BY <1>3, <2>1, <2>3 DEF Continue, p, q
<1>4. ASSUME NEW a, NEW b, NEW c, NEW d, todo = <<a, b, c>>, Continue(<<d>>) PROVE todo' = <<d, b, c>>
  <2> DEFINE S == {b, c, d}
             p == <<d>> \o <<b, c>>
             q == <<d, b, c>>
  <2>1. Tail(<<a, b, c>>) = <<b, c>> /\ b \in S /\ c \in S /\ d \in S
    OBVIOUS
  <2> HIDE DEF S
  <2>2. p \in Seq(S) /\ Len(p) = Len(q) /\ q \in Seq(S) /\ \A i \in 1..Len(p) : p[i] = q[i]
    BY <2>1
  <2> HIDE DEF p, q
  <2>3. p = q
    BY <2>2, SeqEqual
  <2> QED
    BY <1>4, <2>1, <2>3 DEF Continue, p, q
<1> QED
  BY <1>1, <1>2, <1>3, <1>4

LEMMA OneOrTwo == \A a, b : <<a>> \o <<b>> = <<a, b>> /\ <<>> \o <<b>> = <<b>>
<1> TAKE a, b
<1> QED
  BY a \in {a, b}, b \in {a, b}, Pair

(* Where the stream is does not change while what goes into the resampler, what comes out
   of it and the pictures go hand in hand. *)
LEMMA FlowMoves ==
  ASSUME NEW b, NEW c, NEW p, NEW q, NEW g \in BOOLEAN, NEW h \in BOOLEAN,
         UNCHANGED <<InRate, OutRate, formats>>, Flowing(b, p, g),
         frame' + c - since' = frame + b - since,
         audioSample' + InHand(h)' - produced' = audioSample + InHand(g) - produced,
         \A S \in Nat : Fed(S, p) => Fed(S, q)'
  PROVE  Flowing(c, q, h)'
<1> DEFINE n == frame + b - since
           x == audioSample + InHand(g) - produced
<1>1. PICK S \in Nat, L \in Nat, E \in Nat : Fed(S, p) /\ Priced(L, E) /\ Level(S, L, n, x)
  BY DEF Flowing
<1>2. Fed(S, q)'
  BY <1>1
<1>3. Priced(L, E)'
  BY <1>1 DEF Priced, ChangeCost
<1>4. Level(S, L, frame + c - since, audioSample + InHand(h) - produced)'
  BY <1>1 DEF Level
<1> QED
  BY <1>2, <1>3, <1>4 DEF Flowing

(* Whose sound has not begun finds everything as the format left it. *)
ToCome == vid /\ ~aud => Fresh /\ since = 0

(* The stack of a call and what goes with it, first between the calls, *)
AtRest ==
  /\ todo = <<>>
  /\ file => vid \/ pictures = 0
  /\ vid /\ pictures > 0 => formatSet
  /\ aud => vid /\ formatSet /\ IF soundDue THEN Flow(-1, 0) ELSE Flow(0, 0)
  /\ ToCome

(* in a picture's call, before the first segment or in it, *)
BeforePicture == (file => vid) /\ (vid => formatSet) /\ (aud => vid /\ soundDue /\ Flow(0, 0)) /\ ToCome
InPicture ==
  \/ todo = <<Do("startEncode", 0), Do("segment", 0)>> /\ ~aud /\ ToCome
  \/ todo = <<Do("segment", 0)>> /\ BeforePicture
  \/ todo = <<Do("writeVideo", 0)>> /\ BeforePicture

(* or in a later segment, without sound *)
Cut ==
  /\ ~aud /\ Fresh /\ since = 0 /\ formatSet
  /\ \/ todo = <<Do("cleanup", 0), Do("init", 0), Do("startEncode", 0), Do("writeVideo", 0)>>
     \/ todo = <<Do("init", 0), Do("startEncode", 0), Do("writeVideo", 0)>>
     \/ todo = <<Do("startEncode", 0), Do("writeVideo", 0)>>

(* or with it, *)
CutSound ==
  /\ formatSet /\ soundDue
  /\ \/ /\ todo = <<Do("cleanup", 0), Do("init", 0), Do("startEncode", 0), Do("startAudio", 0), Do("writeVideo", 0)>>
        /\ vid /\ Flow(0, 0)
     \/ /\ todo = <<Do("init", 0), Do("startEncode", 0), Do("startAudio", 0), Do("writeVideo", 0)>>
        /\ ~aud /\ Stopped
     \/ /\ todo = <<Do("startEncode", 0), Do("startAudio", 0), Do("writeVideo", 0)>>
        /\ ~aud /\ Stopped
     \/ /\ todo = <<Do("startAudio", 0), Do("writeVideo", 0)>>
        /\ ~aud /\ Stopped /\ (file => vid /\ frame = 0)
     \/ /\ todo = <<Do("fill", 0), Do("writeVideo", 0)>>
        /\ vid /\ aud /\ Flow(0, 0)

(* and in the call with the frame's sound. *)
AfterPicture == ~soundDue /\ pictures > 0 /\ (file => vid) /\ (vid => formatSet)
Starting ==
  /\ AfterPicture /\ ~aud
  /\ \E n \in Nat :
       /\ todo = <<Do("startAudio", 0), Do("block", n)>>
       /\ vid => Fresh /\ since = 1 /\ n = SamplesIn(1, InRate)
Playing ==
  /\ AfterPicture /\ (aud <=> vid)
  /\ \E k, m, n \in Nat :
       \/ todo = <<Do("block", n)>> /\ (aud => Flow(0, n))
       \/ aud /\ todo = <<Do("fill", m), Do("block", n)>> /\ Flow(0, m + n)
       \/ aud /\ todo = <<Do("block", k), Do("fill", m), Do("block", n)>> /\ Flow(0, k + m + n)
       \/ aud /\ todo = <<Do("resampled", 0), Do("fill", m), Do("block", n)>> /\ Flowing(0, m + n, TRUE)
       \/ aud /\ todo = <<Do("resampled", 0)>> /\ Flowing(0, 0, TRUE)

(* What holds of all of them. *)
Begun == pictures = 0 => frame = 0 /\ ~formatSet /\ ~soundDue /\ todo = <<>>
Told ==
  wfx \in Format =>
    /\ formats >= 1 /\ audioOk /\ targetFormat # None /\ {InRate, OutRate} \subseteq Rates
    /\ InRate = wfx.rate /\ OutRate = targetFormat.rate

VfwKnown == Begun /\ Told /\ (AtRest \/ InPicture \/ Cut \/ CutSound \/ Starting \/ Playing)

(* What vfw's sound and picture agree on as long as the sound goes on. *)
VfwInv == kind = "vfw" /\ steady => IF fault THEN todo = <<>> => ~aud ELSE VfwKnown

-----------------------------------------------------------------------------
(* Which call a step belongs to. *)
LEMMA WhichCall ==
  ASSUME WritersInv, VfwKnown, NEW s, At(s)
  PROVE  /\ s = "startEncode" =>
              \/ todo = <<Do("startEncode", 0), Do("segment", 0)>> /\ InPicture
              \/ todo = <<Do("startEncode", 0), Do("writeVideo", 0)>> /\ Cut
              \/ todo = <<Do("startEncode", 0), Do("startAudio", 0), Do("writeVideo", 0)>> /\ CutSound
         /\ s = "segment" => todo = <<Do("segment", 0)>> /\ InPicture
         /\ s = "writeVideo" => todo = <<Do("writeVideo", 0)>> /\ InPicture
         /\ s = "cleanup" =>
              \/ todo = <<Do("cleanup", 0), Do("init", 0), Do("startEncode", 0), Do("writeVideo", 0)>> /\ Cut
              \/ /\ todo = <<Do("cleanup", 0), Do("init", 0), Do("startEncode", 0), Do("startAudio", 0), Do("writeVideo", 0)>>
                 /\ CutSound
         /\ s = "init" =>
              \/ todo = <<Do("init", 0), Do("startEncode", 0), Do("writeVideo", 0)>> /\ Cut
              \/ todo = <<Do("init", 0), Do("startEncode", 0), Do("startAudio", 0), Do("writeVideo", 0)>> /\ CutSound
         /\ s = "startAudio" => (todo = <<Do("startAudio", 0), Do("writeVideo", 0)>> /\ CutSound) \/ Starting
         /\ s = "fill" => (todo = <<Do("fill", 0), Do("writeVideo", 0)>> /\ CutSound) \/ Playing
         /\ s \in {"block", "resampled"} => Playing
<1>1. todo # <<>> /\ todo[1][1] = s
  BY StepIs DEF WritersInv
<1>2. CASE AtRest
  BY <1>1, <1>2 DEF AtRest
<1>3. CASE InPicture
  BY <1>1, <1>3 DEF InPicture, Do
<1>4. CASE Cut
  BY <1>1, <1>4 DEF Cut, Do
<1>5. CASE CutSound
  BY <1>1, <1>5 DEF CutSound, Do
<1>6. CASE Starting
  <2>1. s = "startAudio"
    BY <1>1, <1>6 DEF Starting, Do
  <2> QED
    BY <1>6, <2>1
<1>7. CASE Playing
  <2>1. s \in {"block", "fill", "resampled"}
    <3>1. PICK k, m, n \in Nat :
            \/ todo = <<Do("block", n)>>
            \/ todo = <<Do("fill", m), Do("block", n)>>
            \/ todo = <<Do("block", k), Do("fill", m), Do("block", n)>>
            \/ todo = <<Do("resampled", 0), Do("fill", m), Do("block", n)>>
            \/ todo = <<Do("resampled", 0)>>
      BY <1>7 DEF Playing
    <3> QED
      BY <1>1, <3>1 DEF Do
  <2> QED
    BY <1>7, <2>1
<1> QED
  BY <1>2, <1>3, <1>4, <1>5, <1>6, <1>7 DEF VfwKnown

(* The position of the stream rests on these alone. *)
LEMMA StreamKept ==
  ASSUME UNCHANGED <<resampler, since, formats>>
  PROVE  /\ Stopped => Stopped'
         /\ wfx' = wfx => (Fresh => Fresh')
         /\ UNCHANGED <<frame, audioSample>> => \A b, p : Flow(b, p) => Flow(b, p)'
<1>1. UNCHANGED <<InRate, OutRate, InitSamples, nInSamples, count, consumed, produced, since, formats>>
  BY DEF resampler, format
<1>2. \A S, p : Fed(S, p) => Fed(S, p)'
  BY <1>1 DEF Fed, SamplesIn
<1>3. \A L, E : Priced(L, E) => Priced(L, E)'
  BY <1>1 DEF Priced, ChangeCost
<1>4. Stopped => Stopped'
  BY <1>1, <1>2, <1>3 DEF Stopped
<1>5. wfx' = wfx /\ Fresh => Fresh'
  BY <1>1 DEF Fresh
<1>6. ASSUME UNCHANGED <<frame, audioSample>>, NEW b, NEW p, Flow(b, p) PROVE Flow(b, p)'
  <2>1. Flowing(b, p, FALSE)
    BY <1>6 DEF Flow
  <2>2. Flowing(b, p, FALSE)'
    BY <1>1, <1>2, <1>6, <2>1, FlowMoves DEF InHand
  <2> QED
    BY <1>1, <1>6, <2>2 DEF Flow
<1> QED
  BY <1>4, <1>5, <1>6

(* What is known of the formats stays known in a step, *)
LEMMA StepTells ==
  ASSUME WritersInv, VfwKnown, NEW s, At(s), UNCHANGED <<InRate, OutRate, wfx, targetFormat, audioOk, formats, pictures>>
  PROVE  Begun' /\ Told' /\ pictures \in Nat /\ pictures > 0
<1>1. todo # <<>> /\ pictures \in Nat
  BY StepIs, Quantities DEF WritersInv
<1>2. pictures # 0
  BY <1>1 DEF VfwKnown, Begun
<1> QED
  BY <1>1, <1>2 DEF VfwKnown, Begun, Told

(* which leaves alone all but the streams. *)
LEMMA StepKeeps ==
  ASSUME WritersInv, NEW s, At(s), NEW steps, Step(steps)
  PROVE  /\ Continue(steps) /\ todo # <<>>
         /\ UNCHANGED <<kind, hasSize, wfx, targetFormat, audioOk, pictures, formats, sounding, since, soundDue,
                        steady, deleted>>
BY StepIs DEF WritersInv

(* What a cleanup leaves open. *)
LEMMA CleanupCloses ==
  ASSUME WritersInv, Cleanup
  PROVE  /\ ~vid' /\ (vid => ~file' /\ ~aud') /\ (~vid => aud' = aud /\ file' = file)
  BY DEF Cleanup, WritersInv, OpenInv, files

-----------------------------------------------------------------------------
(* Each step of a picture's call leaves what the next one expects: the steps that close
   a file and open the next, *)
LEMMA StartEncodeFits ==
  ASSUME WritersInv, kind = "vfw", VfwKnown, StartEncode
  PROVE  VfwInv'
<1>1. At("startEncode") /\ Step(<<>>) /\ UNCHANGED <<resampler, segment, audioSample, overflowCounter, filed>> /\ ~fault
  BY DEF StartEncode, At
<1>2. /\ Continue(<<>>)
      /\ UNCHANGED <<kind, hasSize, wfx, targetFormat, audioOk, pictures, formats, sounding, since, soundDue,
                     steady, deleted>>
  BY <1>1, StepKeeps
<1>3. Begun' /\ Told' /\ pictures > 0
  <2>1. UNCHANGED <<InRate, OutRate>>
    BY <1>1 DEF resampler, format
  <2> QED
    BY <1>1, <1>2, <2>1, StepTells
<1>4. (vid => file) /\ {vid, file, aud, formatSet, soundDue, fault} \subseteq BOOLEAN
  BY DEF WritersInv, OpenInv, WritersTypeOK
<1>5. (Stopped => Stopped') /\ (Fresh => Fresh')
  BY <1>1, <1>2, StreamKept
<1>6. \/ ~file /\ UNCHANGED <<file, vid, aud, formatSet, frame, fault>>
      \/ file /\ ~vid /\ fault'
      \/ file /\ vid /\ formatSet' /\ frame' = 0 /\ UNCHANGED <<file, vid, aud, fault>>
      \/ file /\ vid /\ ~file' /\ ~vid' /\ ~aud' /\ UNCHANGED <<formatSet, frame, fault>>
  BY <1>4, CleanupCloses DEF StartEncode, files
<1>7. CASE todo = <<Do("startEncode", 0), Do("segment", 0)>> /\ InPicture
  <2>1. ~aud /\ ToCome
    BY <1>7 DEF InPicture, Do
  <2>2. todo' = <<Do("segment", 0)>>
    BY <1>2, <1>7, Left
  <2>3. todo' # <<>>
    BY <2>2
  <2>4. ~fault' => BeforePicture'
    BY <1>2, <1>4, <1>5, <1>6, <2>1 DEF BeforePicture, ToCome
  <2> QED
    BY <1>3, <2>2, <2>3, <2>4 DEF VfwInv, VfwKnown, InPicture
<1>8. CASE todo = <<Do("startEncode", 0), Do("writeVideo", 0)>> /\ Cut
  <2>1. ~aud /\ Fresh /\ since = 0 /\ formatSet
    BY <1>8 DEF Cut
  <2>2. todo' = <<Do("writeVideo", 0)>>
    BY <1>2, <1>8, Left
  <2>3. todo' # <<>>
    BY <2>2
  <2>4. ~fault' => BeforePicture'
    <3>1. since' = 0 /\ Fresh'
      BY <1>2, <1>5, <2>1
    <3>2. ~fault' => (file' => vid') /\ (vid' => formatSet') /\ ~aud'
      <4>1. CASE ~file /\ UNCHANGED <<file, vid, aud, formatSet, frame, fault>>
        BY <1>4, <2>1, <4>1
      <4>2. CASE file /\ vid /\ formatSet' /\ frame' = 0 /\ UNCHANGED <<file, vid, aud, fault>>
        BY <2>1, <4>2
      <4>3. CASE file /\ vid /\ ~file' /\ ~vid' /\ ~aud' /\ UNCHANGED <<formatSet, frame, fault>>
        BY <2>1, <4>3
      <4> QED
        BY <1>6, <4>1, <4>2, <4>3
    <3> QED
      BY <3>1, <3>2 DEF BeforePicture, ToCome
  <2> QED
    BY <1>3, <2>2, <2>3, <2>4 DEF VfwInv, VfwKnown, InPicture
<1>9. CASE todo = <<Do("startEncode", 0), Do("startAudio", 0), Do("writeVideo", 0)>> /\ CutSound
  <2>1. ~aud /\ Stopped /\ formatSet /\ soundDue
    BY <1>9 DEF CutSound, Do
  <2>2. todo' = <<Do("startAudio", 0), Do("writeVideo", 0)>>
    BY <1>2, <1>9, Left
  <2>3. todo' # <<>>
    BY <2>2
  <2>4. ~fault' => CutSound'
    <3>1. soundDue' /\ Stopped'
      BY <1>2, <1>5, <2>1
    <3>2. ~fault' => (file' => vid' /\ frame' = 0) /\ formatSet' /\ ~aud'
      <4>1. CASE ~file /\ UNCHANGED <<file, vid, aud, formatSet, frame, fault>>
        BY <1>4, <2>1, <4>1
      <4>2. CASE file /\ vid /\ formatSet' /\ frame' = 0 /\ UNCHANGED <<file, vid, aud, fault>>
        BY <2>1, <4>2
      <4>3. CASE file /\ vid /\ ~file' /\ ~vid' /\ ~aud' /\ UNCHANGED <<formatSet, frame, fault>>
        BY <2>1, <4>3
      <4> QED
        BY <1>6, <4>1, <4>2, <4>3
    <3> QED
      BY <2>2, <3>1, <3>2 DEF CutSound
  <2> QED
    BY <1>3, <2>2, <2>3, <2>4 DEF VfwInv, VfwKnown
<1> QED
  BY <1>1, <1>7, <1>8, <1>9, WhichCall

LEMMA CleanupSegmentFits ==
  ASSUME WritersInv, kind = "vfw", VfwKnown, CleanupSegment
  PROVE  VfwInv'
<1>1. At("cleanup") /\ Step(<<>>) /\ UNCHANGED <<resampler, formatSet, frame, audioSample, fault>> /\ ~fault /\ Cleanup
  BY DEF CleanupSegment, At, counters
<1>2. /\ Continue(<<>>)
      /\ UNCHANGED <<kind, hasSize, wfx, targetFormat, audioOk, pictures, formats, sounding, since, soundDue,
                     steady, deleted>>
  BY <1>1, StepKeeps
<1>3. Begun' /\ Told' /\ pictures > 0
  <2>1. UNCHANGED <<InRate, OutRate>>
    BY <1>1 DEF resampler, format
  <2> QED
    BY <1>1, <1>2, <2>1, StepTells
<1>4. ~vid' /\ (vid => ~aud') /\ (~vid => aud' = aud)
  BY <1>1, CleanupCloses
<1>5. (Stopped => Stopped') /\ (Fresh => Fresh')
  BY <1>1, <1>2, StreamKept
<1>7. CASE todo = <<Do("cleanup", 0), Do("init", 0), Do("startEncode", 0), Do("writeVideo", 0)>> /\ Cut
  <2>1. ~aud /\ Fresh /\ since = 0 /\ formatSet
    BY <1>7 DEF Cut
  <2>2. todo' = <<Do("init", 0), Do("startEncode", 0), Do("writeVideo", 0)>>
    BY <1>2, <1>7, Left
  <2>3. Cut'
    BY <1>1, <1>2, <1>4, <1>5, <2>1, <2>2 DEF Cut
  <2> QED
    BY <1>1, <1>3, <2>3 DEF VfwInv, VfwKnown
<1>8. CASE /\ todo = <<Do("cleanup", 0), Do("init", 0), Do("startEncode", 0), Do("startAudio", 0), Do("writeVideo", 0)>>
           /\ CutSound
  <2>1. vid /\ Flow(0, 0) /\ formatSet /\ soundDue
    BY <1>8 DEF CutSound, Do
  <2>2. todo' = <<Do("init", 0), Do("startEncode", 0), Do("startAudio", 0), Do("writeVideo", 0)>>
    BY <1>2, <1>8, Left
  <2>3. Stopped
    BY <2>1, FlowStops
  <2>4. CutSound'
    BY <1>1, <1>2, <1>4, <1>5, <2>1, <2>2, <2>3 DEF CutSound
  <2> QED
    BY <1>1, <1>3, <2>4 DEF VfwInv, VfwKnown
<1> QED
  BY <1>1, <1>7, <1>8, WhichCall

LEMMA InitSegmentFits ==
  ASSUME WritersInv, kind = "vfw", VfwKnown, InitSegment
  PROVE  VfwInv'
<1>1. At("init") /\ Step(<<>>) /\ UNCHANGED <<resampler, aud, formatSet, frame, audioSample, fault>> /\ ~fault
  BY DEF InitSegment, At
<1>2. /\ Continue(<<>>)
      /\ UNCHANGED <<kind, hasSize, wfx, targetFormat, audioOk, pictures, formats, sounding, since, soundDue,
                     steady, deleted>>
  BY <1>1, StepKeeps
<1>3. Begun' /\ Told' /\ pictures > 0
  <2>1. UNCHANGED <<InRate, OutRate>>
    BY <1>1 DEF resampler, format
  <2> QED
    BY <1>1, <1>2, <2>1, StepTells
<1>5. (Stopped => Stopped') /\ (Fresh => Fresh')
  BY <1>1, <1>2, StreamKept
<1>7. CASE todo = <<Do("init", 0), Do("startEncode", 0), Do("writeVideo", 0)>> /\ Cut
  <2>1. ~aud /\ Fresh /\ since = 0 /\ formatSet
    BY <1>7 DEF Cut
  <2>2. todo' = <<Do("startEncode", 0), Do("writeVideo", 0)>>
    BY <1>2, <1>7, Left
  <2>3. Cut'
    BY <1>1, <1>2, <1>5, <2>1, <2>2 DEF Cut
  <2> QED
    BY <1>1, <1>3, <2>3 DEF VfwInv, VfwKnown
<1>8. CASE todo = <<Do("init", 0), Do("startEncode", 0), Do("startAudio", 0), Do("writeVideo", 0)>> /\ CutSound
  <2>1. ~aud /\ Stopped /\ formatSet /\ soundDue
    BY <1>8 DEF CutSound, Do
  <2>2. todo' = <<Do("startEncode", 0), Do("startAudio", 0), Do("writeVideo", 0)>>
    BY <1>2, <1>8, Left
  <2>4. CutSound'
    BY <1>1, <1>2, <1>5, <2>1, <2>2 DEF CutSound
  <2> QED
    BY <1>1, <1>3, <2>4 DEF VfwInv, VfwKnown
<1> QED
  BY <1>1, <1>7, <1>8, WhichCall

-----------------------------------------------------------------------------
(* The resampler passes on what it is given. *)

LEMMA BlockFlows ==
  ASSUME WritersInv, NEW n \in Nat, NEW q \in Nat, ResampleBlock(n), Flow(0, n + q),
         UNCHANGED <<since, formats, frame, audioSample>>
  PROVE  Flowing(0, q, TRUE)'
<1>1. UNCHANGED <<InRate, OutRate, since, formats, frame, audioSample>> /\ nInSamples = 0 /\ Flowing(0, n + q, FALSE)
  BY DEF ResampleBlock, format, Flow
<1>2. \/ count' = n /\ consumed' = consumed + n /\ produced' = produced + n /\ UNCHANGED <<nInSamples, InitSamples>>
      \/ /\ nInSamples' = n - InitTaken(n) /\ InitSamples' = InitAfter(n) /\ count' = 0
         /\ UNCHANGED <<consumed, produced>>
  BY DEF ResampleBlock
<1>3. /\ InitTaken(n) \in 0..n /\ InitAfter(n) \in 0..3 /\ InitAfter(n) >= InitSamples + InitTaken(n)
  <2>1. ResamplerTypeOK
    BY DEF WritersInv, WritersTypeOK
  <2> QED
    BY <2>1, InitTakes DEF ResamplerTypeOK, InitTaken, InitAfter, AtMost
<1>4. audioSample' + InHand(TRUE)' - produced' = audioSample + InHand(FALSE) - produced
  BY <1>1, <1>2, Quantities DEF InHand
<1>5. ASSUME NEW S \in Nat, Fed(S, n + q) PROVE Fed(S, q)'
  <2> DEFINE V == SamplesIn(since, InRate)
  <2>1. V \in Nat /\ V' = V
    BY <1>1, Rated, Quantities DEF SamplesIn
  <2>2. consumed + nInSamples + (n + q) <= S + V /\ S + V <= consumed + nInSamples + (n + q) + InitSamples
    BY <1>5 DEF Fed
  <2> HIDE DEF V
  <2>3. consumed' + nInSamples' + q <= S + V /\ S + V <= consumed' + nInSamples' + q + InitSamples'
    BY <1>1, <1>2, <1>3, <2>1, <2>2, Quantities
  <2> QED
    BY <2>1, <2>3 DEF Fed, V
<1> QED
  BY <1>1, <1>4, <1>5, FlowMoves

LEMMA StepFlows ==
  ASSUME WritersInv, NEW q \in Nat, ResamplerStep, Flowing(0, q, TRUE), UNCHANGED <<since, formats, frame, audioSample>>
  PROVE  Flowing(0, q, TRUE)'
<1>1. UNCHANGED <<InRate, OutRate, since, formats, frame, audioSample, InitSamples>>
  BY DEF ResamplerStep, AdvanceInput, GenerateOutput, format
<1>2. \/ nInSamples' = nInSamples - 1 /\ consumed' = consumed + 1 /\ UNCHANGED <<count, produced>>
      \/ count' = count + 1 /\ produced' = produced + 1 /\ UNCHANGED <<nInSamples, consumed>>
  BY DEF ResamplerStep, AdvanceInput, GenerateOutput
<1>3. audioSample' + InHand(TRUE)' - produced' = audioSample + InHand(TRUE) - produced
  BY <1>1, <1>2, Quantities DEF InHand
<1>4. ASSUME NEW S \in Nat, Fed(S, q) PROVE Fed(S, q)'
  <2>1. SamplesIn(since, InRate)' = SamplesIn(since, InRate)
    BY <1>1 DEF SamplesIn
  <2>2. consumed' + nInSamples' = consumed + nInSamples
    BY <1>2, Quantities
  <2> QED
    BY <1>1, <1>4, <2>1, <2>2 DEF Fed
<1> QED
  BY <1>1, <1>3, <1>4, FlowMoves

LEMMA WrittenFlows ==
  ASSUME WritersInv, NEW q \in Nat, nInSamples = 0, Flowing(0, q, TRUE), audioSample' = audioSample + count,
         UNCHANGED <<resampler, since, formats, frame>>
  PROVE  Flow(0, q)'
<1>1. UNCHANGED <<InRate, OutRate, since, formats, frame, InitSamples, nInSamples, consumed, produced>>
  BY DEF resampler, format
<1>2. audioSample' + InHand(FALSE)' - produced' = audioSample + InHand(TRUE) - produced
  BY <1>1, Quantities DEF InHand
<1>3. \A S \in Nat : Fed(S, q) => Fed(S, q)'
  BY <1>1 DEF Fed, SamplesIn
<1>4. Flowing(0, q, FALSE)'
  BY <1>1, <1>2, <1>3, FlowMoves
<1> QED
  BY <1>1, <1>4 DEF Flow

-----------------------------------------------------------------------------
(* then the picture itself. *)
LEMMA SegmentFits ==
  ASSUME WritersInv, kind = "vfw", VfwKnown, Segment
  PROVE  VfwInv'
<1>1. /\ At("segment") /\ ~fault
      /\ UNCHANGED <<resampler, file, vid, aud, formatSet, frame, audioSample, fault>>
  BY DEF Segment, At, files, counters
<1>2. todo = <<Do("segment", 0)>> /\ BeforePicture
  <2>1. todo = <<Do("segment", 0)>> /\ InPicture
    BY <1>1, WhichCall
  <2> QED
    BY <2>1 DEF InPicture, Do
<1>3. PICK steps : /\ Step(steps)
                   /\ \/ steps = <<>> /\ ~(formatSet /\ vid)
                      \/ steps = Video /\ vid /\ formatSet
                      \/ steps = NewSegment /\ vid /\ formatSet /\ ~aud
                      \/ steps = NewSegmentSound /\ vid /\ formatSet /\ aud
  <2>1. Step(IF ~(formatSet /\ vid) THEN <<>>
             ELSE (IF overflowCounter >= Limit
                   THEN First \o (IF aud THEN Sound ELSE <<>>)
                   ELSE <<>>) \o Video)
    BY DEF Segment, First, Sound, Video
  <2>2. CASE ~(formatSet /\ vid)
    BY <2>1, <2>2
  <2>3. CASE formatSet /\ vid /\ overflowCounter >= Limit /\ aud
    <3>1. Step(NewSegmentSound)
      BY <2>1, <2>3, SegmentSteps
    <3> QED
      BY <2>3, <3>1
  <2>4. CASE formatSet /\ vid /\ overflowCounter >= Limit /\ ~aud
    <3>1. Step(NewSegment)
      BY <2>1, <2>4, SegmentSteps
    <3> QED
      BY <2>4, <3>1
  <2>5. CASE formatSet /\ vid /\ ~(overflowCounter >= Limit)
    <3>1. Step(Video)
      BY <2>1, <2>5, SegmentSteps
    <3> QED
      BY <2>5, <3>1
  <2> QED
    BY <2>2, <2>3, <2>4, <2>5
<1>4. /\ Continue(steps)
      /\ UNCHANGED <<kind, hasSize, wfx, targetFormat, audioOk, pictures, formats, sounding, since, soundDue,
                     steady, deleted>>
  BY <1>1, <1>3, StepKeeps
<1>5. todo' = steps
  <2>1. steps \in Stack
    BY <1>3, SegmentSteps
  <2>2. steps \o <<>> = steps
    BY <2>1 DEF Stack
  <2>3. Tail(todo) = <<>>
    BY <1>2
  <2> QED
    BY <1>4, <2>2, <2>3 DEF Continue
<1>6. Begun' /\ Told'
  <2>1. UNCHANGED <<InRate, OutRate>>
    BY <1>1 DEF resampler, format
  <2> QED
    BY <1>1, <1>4, <2>1, StepTells
<1>7. (Fresh => Fresh') /\ (Flow(0, 0) => Flow(0, 0)')
  BY <1>1, <1>4, StreamKept
<1>8. CASE ~(formatSet /\ vid)
  <2>1. ~vid /\ ~aud /\ ~file /\ todo' = <<>>
    BY <1>2, <1>3, <1>5, <1>8 DEF BeforePicture
  <2>2. AtRest'
    BY <1>1, <2>1 DEF AtRest, ToCome
  <2> QED
    BY <1>1, <1>6, <2>2 DEF VfwInv, VfwKnown
<1>9. CASE steps = Video
  <2>1. todo' = <<Do("writeVideo", 0)>>
    BY <1>5, <1>9 DEF Video, Do
  <2>2. BeforePicture'
    BY <1>1, <1>2, <1>4, <1>7 DEF BeforePicture, ToCome
  <2> QED
    BY <1>1, <1>6, <2>1, <2>2 DEF VfwInv, VfwKnown, InPicture
<1>10. CASE steps = NewSegment /\ vid /\ formatSet /\ ~aud
  <2>1. todo' = <<Do("cleanup", 0), Do("init", 0), Do("startEncode", 0), Do("writeVideo", 0)>>
    BY <1>5, <1>10 DEF NewSegment, Do
  <2>2. Fresh /\ since = 0
    BY <1>2, <1>10 DEF BeforePicture, ToCome
  <2>3. Cut'
    BY <1>1, <1>4, <1>7, <1>10, <2>1, <2>2 DEF Cut
  <2> QED
    BY <1>1, <1>6, <2>3 DEF VfwInv, VfwKnown
<1>11. CASE steps = NewSegmentSound /\ vid /\ formatSet /\ aud
  <2>1. todo' = <<Do("cleanup", 0), Do("init", 0), Do("startEncode", 0), Do("startAudio", 0), Do("writeVideo", 0)>>
    BY <1>5, <1>11 DEF NewSegmentSound, Do
  <2>2. Flow(0, 0)' /\ soundDue'
    BY <1>2, <1>4, <1>7, <1>11 DEF BeforePicture
  <2>3. CutSound'
    BY <1>1, <1>11, <2>1, <2>2 DEF CutSound
  <2> QED
    BY <1>1, <1>6, <2>3 DEF VfwInv, VfwKnown
<1> QED
  BY <1>3, <1>8, <1>9, <1>10, <1>11

LEMMA WriteVideoFits ==
  ASSUME WritersInv, kind = "vfw", VfwKnown, WriteVideo
  PROVE  VfwInv'
<1>1. /\ At("writeVideo") /\ ~fault /\ Step(<<>>)
      /\ UNCHANGED <<resampler, file, vid, aud, formatSet, audioSample>>
      /\ IF vid THEN frame' = frame + 1 /\ fault' = fault ELSE fault' = TRUE
  BY DEF WriteVideo, At, files, WritersInv, WritersTypeOK
<1>2. todo = <<Do("writeVideo", 0)>> /\ BeforePicture
  <2>1. todo = <<Do("writeVideo", 0)>> /\ InPicture
    BY <1>1, WhichCall
  <2> QED
    BY <2>1 DEF InPicture, Do
<1>3. /\ Continue(<<>>)
      /\ UNCHANGED <<kind, hasSize, wfx, targetFormat, audioOk, pictures, formats, sounding, since, soundDue,
                     steady, deleted>>
  BY <1>1, StepKeeps
<1>4. todo' = <<>>
  BY <1>2, <1>3, Left
<1>5. CASE ~vid
  <2>1. ~aud' /\ fault'
    BY <1>1, <1>2, <1>5 DEF BeforePicture
  <2> QED
    BY <2>1 DEF VfwInv
<1>6. CASE vid
  <2>1. UNCHANGED <<InRate, OutRate>>
    BY <1>1 DEF resampler, format
  <2>2. Begun' /\ Told'
    BY <1>1, <1>3, <2>1, StepTells
  <2>3. Fresh => Fresh'
    BY <1>1, <1>3, StreamKept
  <2>4. ASSUME Flow(0, 0) PROVE Flow(-1, 0)'
    <3>1. UNCHANGED <<InRate, OutRate, since, formats, audioSample, InitSamples, nInSamples, consumed, produced>>
      BY <1>1, <1>3 DEF resampler, format
    <3>2. Flowing(0, 0, FALSE) /\ nInSamples = 0
      BY <2>4 DEF Flow
    <3>3. \A S \in Nat : Fed(S, 0) => Fed(S, 0)'
      BY <3>1 DEF Fed, SamplesIn
    <3>4. frame' + (-1) - since' = frame + 0 - since
      BY <1>1, <1>6, <3>1, Quantities
    <3>5. Flowing(-1, 0, FALSE)'
      BY <3>1, <3>2, <3>3, <3>4, FlowMoves DEF InHand
    <3> QED
      BY <3>1, <3>2, <3>5 DEF Flow
  <2>5. AtRest'
    BY <1>1, <1>2, <1>3, <1>4, <1>6, <2>3, <2>4 DEF AtRest, BeforePicture, ToCome
  <2> QED
    BY <1>1, <1>6, <2>2, <2>5 DEF VfwInv, VfwKnown
<1> QED
  BY <1>5, <1>6

(* The steps of sound: the stream's start, its silence, the blocks and their resampling. *)
LEMMA StartAudioFits ==
  ASSUME WritersInv, FrameHoldsFour, kind = "vfw", VfwKnown, StartAudio
  PROVE  VfwInv'
<1>1. /\ At("startAudio") /\ ~fault
      /\ UNCHANGED <<resampler, formatSet, frame, fault>>
      /\ \/ ~file /\ Step(<<>>) /\ UNCHANGED <<file, vid, aud, audioSample>>
         \/ file /\ Step(Silence) /\ aud' /\ audioSample' = 0 /\ UNCHANGED <<file, vid>>
         \/ file /\ Step(<<>>) /\ Cleanup /\ UNCHANGED audioSample
  BY DEF StartAudio, At, files
<1>2. /\ UNCHANGED <<kind, hasSize, wfx, targetFormat, audioOk, pictures, formats, sounding, since, soundDue,
                     steady, deleted>>
      /\ \A s : Step(s) => Continue(s)
  <2>1. PICK s : Step(s)
    BY <1>1
  <2> QED
    BY <1>1, <2>1, StepKeeps
<1>3. UNCHANGED <<InRate, OutRate, InitSamples, nInSamples, count, consumed, produced>>
  BY <1>1 DEF resampler, format
<1>4. Begun' /\ Told' /\ pictures > 0
  BY <1>1, <1>2, <1>3, StepTells
<1>5. (vid => file) /\ wfx \in Format
  <2>1. 1 \in 1..Len(todo) /\ todo[1][1] = "startAudio"
    BY <1>1, StepIs DEF WritersInv, Stack
  <2> QED
    BY <2>1 DEF WritersInv, OpenInv, SoundInv
<1>6. formats >= 1 /\ {InRate, OutRate} \subseteq Rates /\ InRate = wfx.rate
  BY <1>5 DEF VfwKnown, Told
<1>7. CASE todo = <<Do("startAudio", 0), Do("writeVideo", 0)>> /\ CutSound
  <2>1. formatSet /\ soundDue /\ ~aud /\ Stopped /\ (file => vid /\ frame = 0)
    BY <1>7 DEF CutSound, Do
  <2>2. CASE Step(<<>>) /\ ~file' /\ ~vid' /\ ~aud'
    <3>1. todo' = <<Do("writeVideo", 0)>>
      BY <1>2, <1>7, <2>2, Left
    <3>2. BeforePicture'
      BY <1>1, <2>1, <2>2 DEF BeforePicture, ToCome
    <3> QED
      BY <1>1, <1>4, <3>1, <3>2 DEF VfwInv, VfwKnown, InPicture
  <2>3. CASE file /\ Step(Silence) /\ aud' /\ audioSample' = 0 /\ UNCHANGED <<file, vid>>
    <3>1. SamplesNear(frame, wfx.rate) = 0
      <4>1. InRate \in Nat \ {0} /\ FrameRate \in Nat \ {0} /\ frame = 0
        BY <2>1, <2>3, Quantities
      <4>2. frame * InRate = 0 /\ 0 + FrameRate \div 2 = FrameRate \div 2
        BY <4>1
      <4>3. (FrameRate \div 2) \div FrameRate = 0
        BY <4>1, SMT
      <4> QED
        BY <1>6, <4>2, <4>3 DEF SamplesNear
    <3>2. Silence = <<Do("fill", 0)>>
      BY <3>1 DEF Silence, Do
    <3>3. todo' = <<Do("fill", 0), Do("writeVideo", 0)>>
      <4>1. Continue(<<Do("fill", 0)>>)
        BY <1>2, <2>3, <3>2
      <4>2. todo = <<Do("startAudio", 0), Do("writeVideo", 0)>>
        BY <1>7
      <4> QED
        BY <4>1, <4>2, PutFirst
    <3>4. Flow(0, 0)'
      BY <1>2, <1>3, <1>6, <2>1, <2>3, <1>1, FlowResumes
    <3>5. CutSound'
      BY <1>1, <1>2, <2>1, <2>3, <3>3, <3>4 DEF CutSound
    <3> QED
      BY <1>1, <1>4, <3>5 DEF VfwInv, VfwKnown
  <2>4. ~file => ~vid
    BY <1>5
  <2>5. file /\ Cleanup => ~file' /\ ~vid' /\ ~aud'
    BY <2>1, CleanupCloses
  <2> QED
    BY <1>1, <2>1, <2>2, <2>3, <2>4, <2>5
<1>8. CASE Starting
  <2>1. PICK n \in Nat : /\ todo = <<Do("startAudio", 0), Do("block", n)>>
                         /\ vid => Fresh /\ since = 1 /\ n = SamplesIn(1, InRate)
    BY <1>8 DEF Starting
  <2>2. AfterPicture /\ ~aud
    BY <1>8 DEF Starting
  <2>3. CASE Step(<<>>) /\ ~file' /\ ~vid' /\ ~aud'
    <3>1. todo' = <<Do("block", n)>>
      BY <1>2, <2>1, <2>3, Left
    <3>2. AfterPicture'
      BY <1>1, <1>2, <2>2, <2>3 DEF AfterPicture
    <3>3. Playing'
      <4>1. \E k, m, l \in Nat : todo' = <<Do("block", l)>>
        BY <3>1
      <4> QED
        BY <2>3, <3>2, <4>1 DEF Playing
    <3> QED
      BY <1>1, <1>4, <3>3 DEF VfwInv, VfwKnown
  <2>4. CASE file /\ Step(Silence) /\ aud' /\ audioSample' = 0 /\ UNCHANGED <<file, vid>>
    <3>1. vid
      BY <2>2, <2>4 DEF AfterPicture
    <3>2. PICK m \in Nat : m = SamplesNear(frame, InRate)
      BY Silent, Quantities
    <3>3. Silence = <<Do("fill", m)>>
      BY <1>6, <3>2 DEF Silence, Do
    <3>4. todo' = <<Do("fill", m), Do("block", n)>>
      <4>1. Continue(<<Do("fill", m)>>)
        BY <1>2, <2>4, <3>3
      <4> QED
        BY <2>1, <4>1, PutFirst
    <3>5. Flow(0, m + n)'
      <4>1. InRate = OutRate
        BY <1>5, <2>1, <3>1 DEF Fresh
      <4>2. Flow(0, m + SamplesIn(1, InRate))'
        BY <1>1, <1>2, <1>3, <1>6, <2>1, <2>4, <3>1, <3>2, <4>1, FlowStarts
      <4>3. SamplesIn(1, InRate)' = n
        BY <1>3, <2>1, <3>1 DEF SamplesIn
      <4> QED
        BY <4>2, <4>3
    <3>6. AfterPicture'
      BY <1>1, <1>2, <2>2, <2>4 DEF AfterPicture
    <3>7. Playing'
      BY <2>4, <3>1, <3>4, <3>5, <3>6 DEF Playing
    <3> QED
      BY <1>1, <1>4, <3>7 DEF VfwInv, VfwKnown
  <2>5. ~file => ~vid
    BY <1>5
  <2>6. file /\ Cleanup => ~file' /\ ~vid' /\ ~aud'
    BY <2>2, CleanupCloses DEF AfterPicture
  <2> QED
    BY <1>1, <2>2, <2>3, <2>4, <2>5, <2>6
<1> QED
  BY <1>1, <1>7, <1>8, WhichCall

LEMMA FillFits ==
  ASSUME WritersInv, kind = "vfw", VfwKnown, Fill
  PROVE  VfwInv'
<1> DEFINE w == AtMost(Number, BlockLength)
<1>1. /\ At("fill") /\ ~fault /\ Step(IF w = 0 THEN <<>> ELSE <<Do("block", w), Do("fill", Number - w)>>)
      /\ UNCHANGED <<resampler, file, vid, aud, formatSet, frame, audioSample, fault>>
  BY DEF Fill, At, files, counters, Do
<1>2. /\ UNCHANGED <<kind, hasSize, wfx, targetFormat, audioOk, pictures, formats, sounding, since, soundDue,
                     steady, deleted>>
      /\ Continue(IF w = 0 THEN <<>> ELSE <<Do("block", w), Do("fill", Number - w)>>)
  BY <1>1, StepKeeps
<1>3. Begun' /\ Told'
  <2>1. UNCHANGED <<InRate, OutRate>>
    BY <1>1 DEF resampler, format
  <2> QED
    BY <1>1, <1>2, <2>1, StepTells
<1>4. \A p : Flow(0, p) => Flow(0, p)'
  BY <1>1, <1>2, StreamKept
<1>5. CASE todo = <<Do("fill", 0), Do("writeVideo", 0)>> /\ CutSound
  <2>1. formatSet /\ soundDue /\ vid /\ aud /\ Flow(0, 0)
    BY <1>5 DEF CutSound, Do
  <2>2. Number = 0
    BY <1>5 DEF Number, Do
  <2>3. w = 0
    BY <2>2, Constants DEF AtMost
  <2>4. todo' = <<Do("writeVideo", 0)>>
    BY <1>2, <1>5, <2>3, Left
  <2>5. BeforePicture'
    BY <1>1, <1>2, <1>4, <2>1 DEF BeforePicture, ToCome
  <2> QED
    BY <1>1, <1>3, <2>4, <2>5 DEF VfwInv, VfwKnown, InPicture
<1>6. CASE Playing
  <2>1. PICK m \in Nat, n \in Nat : aud /\ todo = <<Do("fill", m), Do("block", n)>> /\ Flow(0, m + n)
    <3>1. todo # <<>> /\ todo[1][1] = "fill"
      BY <1>1, StepIs DEF WritersInv
    <3>2. PICK k, m, n \in Nat :
            \/ todo = <<Do("block", n)>>
            \/ aud /\ todo = <<Do("fill", m), Do("block", n)>> /\ Flow(0, m + n)
            \/ todo = <<Do("block", k), Do("fill", m), Do("block", n)>>
            \/ todo = <<Do("resampled", 0), Do("fill", m), Do("block", n)>>
            \/ todo = <<Do("resampled", 0)>>
      BY <1>6 DEF Playing
    <3>3. aud /\ todo = <<Do("fill", m), Do("block", n)>> /\ Flow(0, m + n)
      BY <3>1, <3>2 DEF Do
    <3> QED
      BY <3>3
  <2>2. AfterPicture' /\ vid /\ aud' /\ vid'
    BY <1>1, <1>2, <1>6, <2>1 DEF Playing, AfterPicture
  <2>3. Number = m
    BY <2>1 DEF Number, Do
  <2>4. w \in Nat /\ w <= m
    BY <2>3, Constants DEF AtMost
  <2> HIDE DEF w
  <2>5. CASE w = 0
    <3>1. m = 0
      BY <2>3, <2>5, Constants DEF w, AtMost
    <3>2. todo' = <<Do("block", n)>>
      BY <1>2, <2>1, <2>5, Left
    <3>3. Flow(0, n)'
      BY <1>4, <2>1, <3>1
    <3>4. Playing'
      BY <2>2, <3>2, <3>3 DEF Playing
    <3> QED
      BY <1>1, <1>3, <3>4 DEF VfwInv, VfwKnown
  <2>6. CASE w # 0
    <3>1. PICK k \in Nat, l \in Nat : k = w /\ l = m - w
      BY <2>4
    <3>2. todo' = <<Do("block", k), Do("fill", l), Do("block", n)>>
      <4>1. Continue(<<Do("block", k), Do("fill", l)>>)
        BY <1>2, <2>3, <2>6, <3>1
      <4> QED
        BY <2>1, <4>1, PutFirst
    <3>3. Flow(0, k + l + n)'
      <4>1. k + l + n = m + n
        BY <2>4, <3>1
      <4> QED
        BY <1>4, <2>1, <4>1
    <3>4. Playing'
      BY <2>2, <3>2, <3>3 DEF Playing
    <3> QED
      BY <1>1, <1>3, <3>4 DEF VfwInv, VfwKnown
  <2> QED
    BY <2>5, <2>6
<1> QED
  BY <1>1, <1>5, <1>6, WhichCall

LEMMA BlockFits ==
  ASSUME WritersInv, kind = "vfw", VfwKnown, Block
  PROVE  VfwInv'
<1>1. /\ At("block") /\ ~fault
      /\ UNCHANGED <<file, vid, aud, formatSet, frame, audioSample, fault>>
      /\ \/ aud /\ audioOk /\ ResampleBlock(Number) /\ Step(<<Do("resampled", 0)>>)
         \/ ~(aud /\ audioOk) /\ Step(<<>>) /\ UNCHANGED resampler
  BY DEF Block, At, files, Do
<1>2. /\ UNCHANGED <<kind, hasSize, wfx, targetFormat, audioOk, pictures, formats, sounding, since, soundDue,
                     steady, deleted>>
      /\ \A s : Step(s) => Continue(s)
  <2>1. PICK s : Step(s)
    BY <1>1
  <2> QED
    BY <1>1, <2>1, StepKeeps
<1>3. Begun' /\ Told' /\ pictures > 0
  <2>1. UNCHANGED <<InRate, OutRate>>
    BY <1>1 DEF ResampleBlock, resampler, format
  <2> QED
    BY <1>1, <1>2, <2>1, StepTells
<1>4. Playing
  BY <1>1, WhichCall
<1>5. AfterPicture' /\ (aud' <=> vid')
  BY <1>1, <1>2, <1>4 DEF Playing, AfterPicture
<1>6. aud => audioOk
  BY DEF WritersInv, SoundInv, VfwKnown, Told
<1>7. \/ \E n \in Nat : todo = <<Do("block", n)>> /\ (aud => Flow(0, n))
      \/ \E k, m, n \in Nat : aud /\ todo = <<Do("block", k), Do("fill", m), Do("block", n)>> /\ Flow(0, k + m + n)
  <2>1. todo # <<>> /\ todo[1][1] = "block"
    BY <1>1, StepIs DEF WritersInv
  <2>2. PICK k, m, n \in Nat :
          \/ todo = <<Do("block", n)>> /\ (aud => Flow(0, n))
          \/ todo = <<Do("fill", m), Do("block", n)>>
          \/ aud /\ todo = <<Do("block", k), Do("fill", m), Do("block", n)>> /\ Flow(0, k + m + n)
          \/ todo = <<Do("resampled", 0), Do("fill", m), Do("block", n)>>
          \/ todo = <<Do("resampled", 0)>>
    BY <1>4 DEF Playing
  <2>3. \/ todo = <<Do("block", n)>> /\ (aud => Flow(0, n))
        \/ aud /\ todo = <<Do("block", k), Do("fill", m), Do("block", n)>> /\ Flow(0, k + m + n)
    BY <2>1, <2>2 DEF Do
  <2> QED
    BY <2>3
<1>8. CASE aud
  <2>1. Continue(<<Do("resampled", 0)>>) /\ ResampleBlock(Number)
    BY <1>1, <1>2, <1>6, <1>8
  <2>2. ASSUME NEW n \in Nat, todo = <<Do("block", n)>>, Flow(0, n) PROVE Playing'
    <3>1. todo' = <<Do("resampled", 0)>>
      BY <2>1, <2>2, PutFirst
    <3>2. Number = n /\ n + 0 = n
      BY <2>2 DEF Number, Do
    <3>3. Flowing(0, 0, TRUE)'
      BY <1>1, <1>2, <2>1, <2>2, <3>2, BlockFlows
    <3> QED
      BY <1>1, <1>5, <1>8, <3>1, <3>3 DEF Playing
  <2>3. ASSUME NEW k \in Nat, NEW m \in Nat, NEW n \in Nat,
               todo = <<Do("block", k), Do("fill", m), Do("block", n)>>, Flow(0, k + m + n)
        PROVE  Playing'
    <3>1. todo' = <<Do("resampled", 0), Do("fill", m), Do("block", n)>>
      BY <2>1, <2>3, PutFirst
    <3>2. Number = k /\ k + (m + n) = k + m + n /\ m + n \in Nat
      BY <2>3 DEF Number, Do
    <3>3. Flowing(0, m + n, TRUE)'
      BY <1>1, <1>2, <2>1, <2>3, <3>2, BlockFlows
    <3> QED
      BY <1>1, <1>5, <1>8, <3>1, <3>3 DEF Playing
  <2>4. Playing'
    BY <1>7, <1>8, <2>2, <2>3
  <2> QED
    BY <1>1, <1>3, <2>4 DEF VfwInv, VfwKnown
<1>9. CASE ~aud
  <2>1. PICK n \in Nat : todo = <<Do("block", n)>>
    BY <1>7, <1>9
  <2>2. todo' = <<>>
    BY <1>1, <1>2, <1>9, <2>1, Left
  <2>3. AtRest'
    BY <1>1, <1>5, <1>9, <2>2 DEF AtRest, AfterPicture, ToCome
  <2> QED
    BY <1>1, <1>3, <2>3 DEF VfwInv, VfwKnown
<1> QED
  BY <1>8, <1>9

(* What the resampler's steps find. *)
LEMMA Resampling ==
  ASSUME WritersInv, At("resampled"), Playing
  PROVE  \E m, n \in Nat :
           \/ aud /\ todo = <<Do("resampled", 0), Do("fill", m), Do("block", n)>> /\ Flowing(0, m + n, TRUE)
           \/ aud /\ todo = <<Do("resampled", 0)>> /\ Flowing(0, 0, TRUE)
<1>1. todo # <<>> /\ todo[1][1] = "resampled"
  BY StepIs DEF WritersInv
<1>2. PICK k, m, n \in Nat :
        \/ todo = <<Do("block", n)>>
        \/ todo = <<Do("fill", m), Do("block", n)>>
        \/ todo = <<Do("block", k), Do("fill", m), Do("block", n)>>
        \/ aud /\ todo = <<Do("resampled", 0), Do("fill", m), Do("block", n)>> /\ Flowing(0, m + n, TRUE)
        \/ aud /\ todo = <<Do("resampled", 0)>> /\ Flowing(0, 0, TRUE)
  BY DEF Playing
<1>3. /\ todo # <<Do("block", n)>> /\ todo # <<Do("fill", m), Do("block", n)>>
      /\ todo # <<Do("block", k), Do("fill", m), Do("block", n)>>
  BY <1>1 DEF Do
<1> QED
  BY <1>2, <1>3

LEMMA ResampleFits ==
  ASSUME WritersInv, kind = "vfw", VfwKnown, Resample
  PROVE  VfwInv'
<1>1. /\ At("resampled") /\ ~fault /\ ResamplerStep
      /\ UNCHANGED <<todo, kind, wfx, targetFormat, audioOk, pictures, formats, since, soundDue,
                     file, vid, aud, formatSet, frame, audioSample, fault>>
  BY DEF Resample, At, files, counters, sound, driver
<1>2. Begun' /\ Told'
  <2>1. UNCHANGED <<InRate, OutRate>>
    BY <1>1 DEF ResamplerStep, AdvanceInput, GenerateOutput, format
  <2> QED
    BY <1>1, <2>1, StepTells
<1>3. Playing
  BY <1>1, WhichCall
<1>4. AfterPicture' /\ (aud' <=> vid')
  BY <1>1, <1>3 DEF Playing, AfterPicture
<1>5. PICK m, n \in Nat :
        \/ aud /\ todo = <<Do("resampled", 0), Do("fill", m), Do("block", n)>> /\ Flowing(0, m + n, TRUE)
        \/ aud /\ todo = <<Do("resampled", 0)>> /\ Flowing(0, 0, TRUE)
  BY <1>1, <1>3, Resampling
<1>6. \A q \in Nat : Flowing(0, q, TRUE) => Flowing(0, q, TRUE)'
  BY <1>1, StepFlows
<1>7. Playing'
  <2>1. m + n \in Nat
    OBVIOUS
  <2>2. CASE aud /\ todo = <<Do("resampled", 0), Do("fill", m), Do("block", n)>> /\ Flowing(0, m + n, TRUE)
    <3>1. aud' /\ todo' = <<Do("resampled", 0), Do("fill", m), Do("block", n)>> /\ Flowing(0, m + n, TRUE)'
      BY <1>1, <1>6, <2>1, <2>2
    <3> QED
      BY <1>4, <3>1 DEF Playing
  <2>3. CASE aud /\ todo = <<Do("resampled", 0)>> /\ Flowing(0, 0, TRUE)
    <3>1. aud' /\ todo' = <<Do("resampled", 0)>> /\ Flowing(0, 0, TRUE)'
      BY <1>1, <1>6, <2>3
    <3> QED
      BY <1>4, <3>1 DEF Playing
  <2> QED
    BY <1>5, <2>2, <2>3
<1> QED
  BY <1>1, <1>2, <1>7 DEF VfwInv, VfwKnown

LEMMA ResampledFits ==
  ASSUME WritersInv, kind = "vfw", VfwKnown, Resampled
  PROVE  VfwInv'
<1>1. /\ At("resampled") /\ ~fault /\ nInSamples = 0 /\ Step(<<>>) /\ audioSample' = audioSample + count
      /\ UNCHANGED <<resampler, file, vid, aud, formatSet, frame, fault>>
  BY DEF Resampled, At, files
<1>2. /\ UNCHANGED <<kind, hasSize, wfx, targetFormat, audioOk, pictures, formats, sounding, since, soundDue,
                     steady, deleted>>
      /\ Continue(<<>>)
  BY <1>1, StepKeeps
<1>3. Begun' /\ Told' /\ pictures > 0
  <2>1. UNCHANGED <<InRate, OutRate>>
    BY <1>1 DEF resampler, format
  <2> QED
    BY <1>1, <1>2, <2>1, StepTells
<1>4. Playing
  BY <1>1, WhichCall
<1>5. AfterPicture' /\ (aud' <=> vid')
  BY <1>1, <1>2, <1>4 DEF Playing, AfterPicture
<1>6. PICK m, n \in Nat :
        \/ aud /\ todo = <<Do("resampled", 0), Do("fill", m), Do("block", n)>> /\ Flowing(0, m + n, TRUE)
        \/ aud /\ todo = <<Do("resampled", 0)>> /\ Flowing(0, 0, TRUE)
  BY <1>1, <1>4, Resampling
<1>7. \A q \in Nat : Flowing(0, q, TRUE) => Flow(0, q)'
  BY <1>1, <1>2, WrittenFlows
<1>8. CASE aud /\ todo = <<Do("resampled", 0), Do("fill", m), Do("block", n)>> /\ Flowing(0, m + n, TRUE)
  <2>1. m + n \in Nat
    OBVIOUS
  <2>2. aud' /\ todo' = <<Do("fill", m), Do("block", n)>> /\ Flow(0, m + n)'
    BY <1>1, <1>2, <1>7, <1>8, <2>1, Left
  <2>3. Playing'
    BY <1>5, <2>2 DEF Playing
  <2> QED
    BY <1>1, <1>3, <2>3 DEF VfwInv, VfwKnown
<1>9. CASE aud /\ todo = <<Do("resampled", 0)>> /\ Flowing(0, 0, TRUE)
  <2>1. aud' /\ todo' = <<>> /\ Flow(0, 0)'
    BY <1>1, <1>2, <1>7, <1>9, Left
  <2>2. AtRest'
    BY <1>5, <2>1 DEF AtRest, AfterPicture, ToCome
  <2> QED
    BY <1>1, <1>3, <2>2 DEF VfwInv, VfwKnown
<1> QED
  BY <1>6, <1>8, <1>9

(* The calls. Between two of them the stack is empty, and only a call begins. *)
LEMMA Resting ==
  ASSUME VfwKnown, todo = <<>>
  PROVE  AtRest
<1>1. ~InPicture /\ ~Cut /\ ~CutSound
  BY DEF InPicture, Cut, CutSound
<1>2. ~Starting
  BY DEF Starting
<1>3. ~Playing
  BY DEF Playing
<1> QED
  BY <1>1, <1>2, <1>3 DEF VfwKnown

LEMMA RestKept ==
  ASSUME WritersInv, VfwKnown, todo = <<>>, todo' = <<>>, ~fault,
         UNCHANGED <<resampler, file, vid, aud, formatSet, frame, audioSample, wfx, targetFormat, audioOk,
                     pictures, formats, since, soundDue, fault>>
  PROVE  VfwInv'
<1>1. AtRest
  BY Resting
<1>2. UNCHANGED <<InRate, OutRate>>
  BY DEF resampler, format
<1>3. (Fresh => Fresh') /\ (Flow(-1, 0) => Flow(-1, 0)') /\ (Flow(0, 0) => Flow(0, 0)')
  BY StreamKept
<1>4. AtRest'
  BY <1>1, <1>3 DEF AtRest, ToCome
<1>5. Begun' /\ Told'
  BY <1>2 DEF VfwKnown, Begun, Told
<1> QED
  BY <1>4, <1>5 DEF VfwInv, VfwKnown

LEMMA WriteFrameFits ==
  ASSUME WritersInv, kind = "vfw", VfwKnown, WriteFrame
  PROVE  VfwInv'
<1>1. /\ todo = <<>> /\ ~fault /\ ~soundDue /\ pictures' = pictures + 1 /\ soundDue' = sounding
      /\ steady' => (aud => sounding)
      /\ todo' = (IF frame = 0 /\ ~formatSet THEN <<Do("startEncode", 0)>> ELSE <<>>) \o <<Do("segment", 0)>>
      /\ UNCHANGED <<resampler, file, vid, aud, formatSet, frame, audioSample, wfx, targetFormat, audioOk,
                     formats, since, fault>>
  BY DEF WriteFrame, Ready, files, counters, sound, Do
<1>2. AtRest
  BY <1>1, Resting
<1>3. UNCHANGED <<InRate, OutRate>>
  BY <1>1 DEF resampler, format
<1>4. (Fresh => Fresh') /\ (Flow(0, 0) => Flow(0, 0)')
  BY <1>1, StreamKept
<1>5. Begun' /\ Told'
  <2>1. pictures' # 0
    BY <1>1, Quantities
  <2> QED
    BY <1>1, <1>3, <2>1 DEF VfwKnown, Begun, Told
<1>6. SUFFICES ASSUME steady' PROVE InPicture'
  BY <1>1, <1>5 DEF VfwInv, VfwKnown
<1>7. CASE frame = 0 /\ ~formatSet
  <2>1. todo' = <<Do("startEncode", 0), Do("segment", 0)>>
    BY <1>1, <1>7, OneOrTwo
  <2>2. ~aud' /\ ToCome'
    BY <1>1, <1>2, <1>4, <1>7 DEF AtRest, ToCome
  <2> QED
    BY <2>1, <2>2 DEF InPicture
<1>8. CASE ~(frame = 0 /\ ~formatSet)
  <2>1. todo' = <<Do("segment", 0)>>
    BY <1>1, <1>8, OneOrTwo
  <2>2. pictures # 0 /\ pictures > 0
    BY <1>8, Quantities DEF VfwKnown, Begun
  <2>3. (aud => Flow(0, 0)) /\ (aud => vid) /\ (file => vid) /\ (vid => formatSet) /\ ToCome
    BY <1>1, <1>2, <2>2 DEF AtRest
  <2>4. BeforePicture'
    BY <1>1, <1>4, <1>6, <2>3 DEF BeforePicture, ToCome
  <2> QED
    BY <2>1, <2>4 DEF InPicture
<1> QED
  BY <1>7, <1>8

LEMMA WriteAudioFrameFits ==
  ASSUME WritersInv, kind = "vfw", VfwKnown, WriteAudioFrame
  PROVE  VfwInv'
<1>1. wfx \in Format /\ InRate = wfx.rate
  <2>1. soundDue
    BY DEF WriteAudioFrame
  <2> QED
    BY <2>1 DEF WritersInv, SoundInv, VfwKnown, Told
<1>2. PICK n \in Nat : n = SamplesIn(since + 1, InRate) - SamplesIn(since, InRate)
  BY FrameType, Quantities
<1>3. /\ todo = <<>> /\ ~fault /\ soundDue /\ ~soundDue' /\ since' = since + 1
      /\ todo' = (IF ~aud THEN <<Do("startAudio", 0)>> ELSE <<>>) \o <<Do("block", n)>>
      /\ UNCHANGED <<resampler, file, vid, aud, formatSet, frame, audioSample, wfx, targetFormat, audioOk,
                     pictures, formats, fault>>
  BY <1>1, <1>2 DEF WriteAudioFrame, Ready, files, counters, sound, Do
<1>4. AtRest
  BY <1>3, Resting
<1>5. UNCHANGED <<InRate, OutRate, InitSamples, nInSamples, count, consumed, produced>>
  BY <1>3 DEF resampler, format
<1>6. pictures # 0 /\ pictures > 0
  BY <1>3, Quantities DEF VfwKnown, Begun
<1>7. Begun' /\ Told'
  BY <1>3, <1>5, <1>6 DEF VfwKnown, Begun, Told
<1>8. AfterPicture'
  BY <1>3, <1>4, <1>6 DEF AfterPicture, AtRest
<1>9. CASE aud
  <2>1. todo' = <<Do("block", n)>>
    BY <1>3, <1>9, OneOrTwo
  <2>2. Flow(-1, 0) /\ vid
    BY <1>3, <1>4, <1>9 DEF AtRest
  <2>3. ASSUME NEW S \in Nat, Fed(S, 0) PROVE Fed(S, n)'
    <3> DEFINE V == SamplesIn(since, InRate)
               W == SamplesIn(since + 1, InRate)
    <3>1. V \in Nat /\ W \in Nat /\ SamplesIn(since, InRate)' = W
      <4>1. V \in Nat /\ W \in Nat
        <5>1. since \in Nat /\ since + 1 \in Nat /\ InRate \in Nat
          BY Quantities
        <5> QED
          BY <5>1, Rated
      <4> QED
        BY <1>3, <1>5, <4>1 DEF SamplesIn
    <3>2. n = W - V
      BY <1>2
    <3>3. consumed + nInSamples + 0 <= S + V /\ S + V <= consumed + nInSamples + 0 + InitSamples
      BY <2>3 DEF Fed
    <3> HIDE DEF V, W
    <3>4. consumed + nInSamples + n <= S + W /\ S + W <= consumed + nInSamples + n + InitSamples
      BY <3>1, <3>2, <3>3, Quantities
    <3> QED
      BY <1>5, <3>1, <3>4 DEF Fed
  <2>4. frame' + 0 - since' = frame + (-1) - since
    BY <1>3, Quantities
  <2>5. Flowing(-1, 0, FALSE) /\ nInSamples = 0
    BY <2>2 DEF Flow
  <2>6. Flowing(0, n, FALSE)'
    BY <1>3, <1>5, <2>3, <2>4, <2>5, FlowMoves DEF InHand
  <2>7. Flow(0, n)'
    BY <1>5, <2>5, <2>6 DEF Flow
  <2>8. \E k, m, l \in Nat : todo' = <<Do("block", l)>> /\ (aud' => Flow(0, l)')
    BY <2>1, <2>7
  <2>9. Playing'
    BY <1>3, <1>8, <1>9, <2>2, <2>8 DEF Playing
  <2> QED
    BY <1>3, <1>7, <2>9 DEF VfwInv, VfwKnown
<1>10. CASE ~aud
  <2>1. todo' = <<Do("startAudio", 0), Do("block", n)>>
    BY <1>3, <1>10, OneOrTwo
  <2>2. vid => Fresh /\ since = 0
    BY <1>4, <1>10 DEF AtRest, ToCome
  <2>3. vid => since' = 1 /\ n = SamplesIn(1, InRate)
    <3> SUFFICES ASSUME vid PROVE since' = 1 /\ n = SamplesIn(1, InRate)
      OBVIOUS
    <3>1. since + 1 = 1 /\ since = 0
      BY <2>2
    <3>2. SamplesIn(0, InRate) = 0
      <4>1. 0 * InRate = 0 /\ FrameRate \in Nat \ {0}
        BY Quantities
      <4> QED
        BY <4>1, SMT DEF SamplesIn
    <3>3. SamplesIn(1, InRate) \in Nat
      BY Rated, Quantities
    <3> QED
      BY <1>2, <1>3, <3>1, <3>2, <3>3
  <2>4. Fresh => Fresh'
    BY <1>3, <1>5 DEF Fresh
  <2>5. SamplesIn(1, InRate)' = SamplesIn(1, InRate)
    BY <1>5 DEF SamplesIn
  <2>6. vid' => Fresh' /\ since' = 1 /\ n = SamplesIn(1, InRate)'
    BY <1>3, <2>2, <2>3, <2>4, <2>5
  <2>7. Starting'
    BY <1>3, <1>8, <1>10, <2>1, <2>6 DEF Starting
  <2> QED
    BY <1>3, <1>7, <2>7 DEF VfwInv, VfwKnown
<1> QED
  BY <1>9, <1>10

LEMMA DeleteFits ==
  ASSUME WritersInv, kind = "vfw", VfwKnown, Delete
  PROVE  VfwInv'
<1>1. /\ todo = <<>> /\ todo' = <<>> /\ ~fault /\ Cleanup
      /\ UNCHANGED <<resampler, formatSet, frame, audioSample, wfx, targetFormat, audioOk,
                     pictures, formats, since, soundDue, fault>>
  BY DEF Delete, Ready, counters, sound, driver
<1>2. CASE ~initialized
  <2>1. UNCHANGED <<file, vid, aud>>
    BY <1>1, <1>2 DEF Cleanup, files
  <2> QED
    BY <1>1, <2>1, RestKept
<1>3. CASE initialized
  <2>1. ~vid' /\ ~file' /\ ~aud'
    BY <1>1, <1>3 DEF Cleanup
  <2>2. AtRest'
    BY <1>1, <2>1 DEF AtRest, ToCome
  <2>3. UNCHANGED <<InRate, OutRate>>
    BY <1>1 DEF resampler, format
  <2>4. Begun' /\ Told'
    BY <1>1, <2>3 DEF VfwKnown, Begun, Told
  <2> QED
    BY <1>1, <2>2, <2>4 DEF VfwInv, VfwKnown
<1> QED
  BY <1>2, <1>3

(* A change of format goes on from where the stream is, and costs what it may. *)
LEMMA FlowAnew ==
  ASSUME WritersInv, Flow(0, 0), NEW in \in Rates, OutRate \in Rates, NEW c, NEW same, Setup(in, OutRate, c, same),
         since' = 0, formats' = formats + 1, UNCHANGED <<frame, audioSample>>
  PROVE  Flow(0, 0)'
<1> DEFINE O == OutRate
           F == FrameRate
           a == audioSample
           k == formats
<1>0. PICK price \in Nat : price = ChangeCost(OutRate)
  BY Cost
<1>1. PICK W \in Nat : /\ W >= 1 /\ W <= 5 + price * (k - 1)
                       /\ (frame + 0) * O < (a + W) * F
                       /\ a * F < (frame + 0 + 1) * O + (k + 1) * F
  BY <1>0, FlowAtRest
<1>2. /\ InRate' = in /\ OutRate' = O /\ nInSamples' = 0 /\ consumed' = 0 /\ produced' = 0 /\ InitSamples' = 0
  BY DEF Setup
<1>3. in \in Nat /\ O \in Nat /\ F \in Nat /\ a \in Nat /\ k \in Nat /\ frame \in Nat
  BY Constants, Quantities
<1>4. price \in Nat /\ price >= 4 /\ 4 * O <= price * in
  BY <1>0, Cost
<1>5. Fed(0, 0)'
  <2>1. SamplesIn(0, in) = 0
    <3>1. 0 * in = 0 /\ FrameRate \in Nat \ {0}
      BY <1>3, Constants
    <3> QED
      BY <3>1, SMT DEF SamplesIn
  <2>2. SamplesIn(since, InRate)' = 0
    BY <1>2, <2>1 DEF SamplesIn
  <2> QED
    BY <1>2, <2>2 DEF Fed
<1>6. Priced(W, price)'
  <2>1. ChangeCost(OutRate)' = price
    BY <1>0, <1>2 DEF ChangeCost
  <2>2. W + price <= 5 + price * (k + 1 - 1)
    <3>1. price * (k - 1) + price = price * k
      <4>1. \A x, y \in Int : x * (y - 1) + x = x * y
        BY SMT
      <4> QED
        BY <1>3, <1>4, <4>1
    <3>2. price * (k - 1) \in Int /\ price * k \in Int /\ k + 1 - 1 = k
      BY <1>3, <1>4
    <3> HIDE DEF k
    <3> QED
      BY <1>1, <1>4, <3>1, <3>2
  <2>3. {InRate', OutRate'} \subseteq Rates
    BY <1>2
  <2>4. W + price <= 5 + ChangeCost(OutRate)' * (formats' - 1)
    <3>1. formats' - 1 = k + 1 - 1
      BY <1>3
    <3> HIDE DEF k
    <3> QED
      BY <2>1, <2>2, <3>1
  <2>5. 4 * OutRate' <= price * InRate'
    BY <1>2, <1>4
  <2> QED
    BY <1>1, <2>3, <2>4, <2>5 DEF Priced
<1>7. Level(0, W, frame + 0 - since, audioSample + InHand(FALSE) - produced)'
  <2>1. ((frame * O) * in <= ((a + W) * F) * in) /\ ((a * F) * in <= ((frame + 1) * O + (k + 1) * F) * in)
    <3> DEFINE x == frame * O
               y == (a + W) * F
               u == a * F
               v == (frame + 1) * O + (k + 1) * F
    <3>1. x \in Int /\ y \in Int /\ u \in Int /\ v \in Int
      BY <1>3
    <3>2. x <= y /\ u <= v
      <4>1. frame + 0 = frame
        BY <1>3
      <4>2. x < y /\ u < v
        BY <1>1, <4>1
      <4> HIDE DEF x, y, u, v
      <4> QED
        BY <3>1, <4>2
    <3> HIDE DEF x, y, u, v
    <3>3. x * in <= y * in /\ u * in <= v * in
      BY <1>3, <3>1, <3>2, Larger
    <3> QED
      BY <3>3 DEF x, y, u, v
  <2>2. ((frame + 1) * O + (k + 1) * F) * in = (frame + 1) * O * in + (k + 1) * F * in
    BY <1>3
  <2>3. /\ 0 * O * F = 0 /\ frame * O * in \in Int /\ (frame + 1) * O * in \in Int
        /\ (frame * O) * in = frame * O * in /\ ((a + W) * F) * in = (a + W) * F * in /\ (a * F) * in = a * F * in
    BY <1>3
  <2>4. /\ frame' + 0 - since' = frame /\ audioSample' + InHand(FALSE)' - produced' = a
    BY <1>2, <1>3 DEF InHand
  <2>5. /\ frame * O * in - 0 * O * F <= (a + W) * F * in
        /\ a * F * in <= (frame + 1) * O * in - 0 * O * F + (k + 1) * F * in
    BY <2>1, <2>2, <2>3
  <2> QED
    BY <1>2, <2>4, <2>5 DEF Level
<1> QED
  BY <1>1, <1>2, <1>4, <1>5, <1>6, <1>7 DEF Flow, Flowing

LEMMA SetAudioFormatFits ==
  ASSUME WritersInv, kind = "vfw", VfwKnown, NEW f \in Format, SetAudioFormat(f)
  PROVE  VfwInv'
<1>1. /\ todo = <<>> /\ todo' = <<>> /\ ~fault /\ ~soundDue /\ ~soundDue' /\ formats' = formats + 1 /\ since' = 0 /\ wfx' = f
      /\ targetFormat' = IF targetFormat = None \/ ~aud THEN Bounce(f) ELSE targetFormat
      /\ steady' => audioOk'
      /\ audioOk' => Setup(f.rate, targetFormat'.rate, f.chans, f.bits = 16 /\ f.chans = targetFormat'.chans)
      /\ UNCHANGED <<file, vid, aud, formatSet, frame, audioSample, pictures, fault>>
  BY DEF SetAudioFormat, VfwFormat, Ready, files, counters
<1>2. AtRest
  BY <1>1, Resting
<1>3. SUFFICES ASSUME steady' PROVE VfwKnown'
  BY <1>1 DEF VfwInv
<1> DEFINE Records == [rate : Rates, bits : Bits \union {16}, chans : {1, 2}]
           out == targetFormat'.rate
           same == f.bits = 16 /\ f.chans = targetFormat'.chans
<1>4. f.rate \in Rates /\ Bounce(f) \in Records /\ Bounce(f).rate = f.rate
  BY FormatType DEF Bounce, Format
<1>5. targetFormat' \in Records
  BY <1>1, <1>4 DEF WritersInv, WritersTypeOK
<1>6. targetFormat' # None /\ out \in Rates
  <2>1. Bits \union {16} \subseteq {8, 16, 32}
    BY Constants
  <2>2. targetFormat' \in [rate : Rates, bits : {8, 16, 32}, chans : {1, 2}]
    BY <1>5, <2>1
  <2> QED
    BY <1>5, <2>2, WritersAssumption
<1> HIDE DEF Records, out, same
<1>7. /\ Setup(f.rate, out, f.chans, same) /\ InRate' = f.rate /\ OutRate' = out
      /\ consumed' = 0 /\ produced' = 0 /\ InitSamples' = 0 /\ nInSamples' = 0
  BY <1>1, <1>3 DEF Setup, out, same
<1>8. Begun' /\ Told'
  <2>1. formats' >= 1
    BY <1>1, Quantities
  <2> QED
    BY <1>1, <1>3, <1>4, <1>6, <1>7, <2>1 DEF VfwKnown, Begun, Told, out
<1>9. aud => Flow(0, 0)'
  <2> SUFFICES ASSUME aud PROVE Flow(0, 0)'
    OBVIOUS
  <2>1. wfx \in Format
    BY DEF WritersInv, SoundInv
  <2>2. out = OutRate
    BY <1>1, <2>1 DEF VfwKnown, Told, out
  <2>3. Flow(0, 0)
    BY <1>1, <1>2 DEF AtRest
  <2> QED
    BY <1>1, <1>4, <1>6, <1>7, <2>2, <2>3, FlowAnew
<1>10. ~aud => Fresh'
  BY <1>1, <1>4, <1>7 DEF Fresh, out
<1>11. AtRest'
  BY <1>1, <1>2, <1>9, <1>10 DEF AtRest, ToCome
<1> QED
  BY <1>8, <1>11 DEF VfwKnown

(* A stuttering step. *)
LEMMA StutterFits ==
  ASSUME VfwInv, UNCHANGED vars
  PROVE  VfwInv'
<1>1. /\ UNCHANGED <<resampler, since, formats, wfx, frame, audioSample>>
      /\ UNCHANGED <<kind, file, vid, aud, formatSet, targetFormat, audioOk, todo, pictures, soundDue, steady, fault>>
  BY DEF vars, files, counters, sound, driver, ghosts
<1>2. UNCHANGED <<InRate, OutRate, InitSamples, nInSamples, count, consumed, produced>>
  BY <1>1 DEF resampler, format
<1>3. /\ (Fresh => Fresh') /\ (Stopped => Stopped') /\ \A b, p : Flow(b, p) => Flow(b, p)'
  BY <1>1, StreamKept
<1>4. \A q \in Nat : Flowing(0, q, TRUE) => Flowing(0, q, TRUE)'
  <2> SUFFICES ASSUME NEW q \in Nat, Flowing(0, q, TRUE) PROVE Flowing(0, q, TRUE)'
    OBVIOUS
  <2>1. \A S \in Nat : Fed(S, q) => Fed(S, q)'
    BY <1>1, <1>2 DEF Fed, SamplesIn
  <2> QED
    BY <1>1, <1>2, <2>1, FlowMoves DEF InHand
<1>5. SUFFICES ASSUME kind = "vfw", steady, ~fault PROVE VfwKnown'
  BY <1>1 DEF VfwInv
<1>6. Begun' /\ Told'
  BY <1>1, <1>2, <1>5 DEF VfwInv, VfwKnown, Begun, Told
<1>7. AtRest \/ InPicture \/ Cut \/ CutSound \/ Starting \/ Playing
  BY <1>5 DEF VfwInv, VfwKnown
<1>8. AtRest => AtRest'
  BY <1>1, <1>3 DEF AtRest, ToCome
<1>9. InPicture => InPicture'
  BY <1>1, <1>3 DEF InPicture, BeforePicture, ToCome
<1>10. Cut => Cut'
  BY <1>1, <1>3 DEF Cut
<1>11. CutSound => CutSound'
  BY <1>1, <1>3 DEF CutSound
<1>12. Starting => Starting'
  BY <1>1, <1>2, <1>3 DEF Starting, AfterPicture, SamplesIn
<1>13. Playing => Playing'
  <2> SUFFICES ASSUME Playing PROVE Playing'
    OBVIOUS
  <2>1. AfterPicture' /\ (aud' <=> vid')
    BY <1>1 DEF Playing, AfterPicture
  <2>2. PICK k, m, n \in Nat :
          \/ todo = <<Do("block", n)>> /\ (aud => Flow(0, n))
          \/ aud /\ todo = <<Do("fill", m), Do("block", n)>> /\ Flow(0, m + n)
          \/ aud /\ todo = <<Do("block", k), Do("fill", m), Do("block", n)>> /\ Flow(0, k + m + n)
          \/ aud /\ todo = <<Do("resampled", 0), Do("fill", m), Do("block", n)>> /\ Flowing(0, m + n, TRUE)
          \/ aud /\ todo = <<Do("resampled", 0)>> /\ Flowing(0, 0, TRUE)
    BY DEF Playing
  <2>3. m + n \in Nat
    OBVIOUS
  <2>4. \/ todo' = <<Do("block", n)>> /\ (aud' => Flow(0, n)')
        \/ aud' /\ todo' = <<Do("fill", m), Do("block", n)>> /\ Flow(0, m + n)'
        \/ aud' /\ todo' = <<Do("block", k), Do("fill", m), Do("block", n)>> /\ Flow(0, k + m + n)'
        \/ aud' /\ todo' = <<Do("resampled", 0), Do("fill", m), Do("block", n)>> /\ Flowing(0, m + n, TRUE)'
        \/ aud' /\ todo' = <<Do("resampled", 0)>> /\ Flowing(0, 0, TRUE)'
    BY <1>1, <1>3, <1>4, <2>2, <2>3
  <2> QED
    BY <2>1, <2>4 DEF Playing
<1> QED
  BY <1>6, <1>7, <1>8, <1>9, <1>10, <1>11, <1>12, <1>13 DEF VfwKnown

-----------------------------------------------------------------------------
(* The wave file, where a sample that comes is a sample written. *)

(* The file keeps up with the picture, b pictures and p samples being under way. *)
Even(b, p) ==
  LET d == audioSample + p - SamplesIn(since, wfx.rate)
      n == (frame + b - since) * wfx.rate
  IN  n <= (d + formats) * FrameRate /\ d * FrameRate <= n + FrameRate

WaveAtRest == todo = <<>> /\ (aud => IF soundDue THEN Even(-1, 0) ELSE Even(0, 0))
WaveInPicture == todo = <<Do("writeVideo", 0)>> /\ pictures > 0 /\ (aud => soundDue /\ Even(0, 0))
WaveInSound ==
  /\ ~soundDue
  /\ \E m, n \in Nat :
       \/ todo = <<Do("block", n)>> /\ (aud => Even(0, n))
       \/ todo = <<Do("fill", m)>> /\ (aud => Even(0, m))
       \/ todo = <<Do("block", n), Do("fill", m)>> /\ (aud => Even(0, n + m))

WaveTold ==
  /\ hasSize /\ pictures = 0 => frame = 0
  /\ ~aud /\ ~deleted => audioSample = 0
  /\ wfx \in Format => hasSize /\ formats >= 1 /\ targetFormat = wfx

BmpKnown == WaveTold /\ (WaveAtRest \/ WaveInPicture \/ WaveInSound)
BmpInv == kind = "bmp" /\ steady /\ ~fault => BmpKnown

(* Where the file is does not change while its samples and the pictures go hand in hand. *)
LEMMA EvenMoves ==
  ASSUME NEW b, NEW c, NEW p, NEW q, Even(b, p), wfx' = wfx, formats' = formats,
         frame' + c - since' = frame + b - since,
         audioSample' + q - SamplesIn(since, wfx.rate)' = audioSample + p - SamplesIn(since, wfx.rate)
  PROVE  Even(c, q)'
<1> DEFINE d == audioSample + p - SamplesIn(since, wfx.rate)
           n == frame + b - since
<1>1. n * wfx.rate <= (d + formats) * FrameRate /\ d * FrameRate <= n * wfx.rate + FrameRate
  BY DEF Even
<1>2. frame' + c - since' = n /\ audioSample' + q - SamplesIn(since, wfx.rate)' = d
  OBVIOUS
<1> HIDE DEF d, n
<1> QED
  BY <1>1, <1>2 DEF Even

LEMMA EvenKept ==
  ASSUME UNCHANGED <<frame, audioSample, since, formats, wfx>>
  PROVE  \A b, p : Even(b, p) => Even(b, p)'
BY DEF Even, SamplesIn

(* The file of one format between two calls. *)
LEMMA EvenAtRest ==
  ASSUME WritersInv, wfx \in Format, Even(0, 0)
  PROVE  /\ frame * wfx.rate < (audioSample + formats + 1) * FrameRate
         /\ audioSample * FrameRate <= frame * wfx.rate + FrameRate
<1> DEFINE r == wfx.rate
           F == FrameRate
           V == SamplesIn(since, r)
           fr == frame * r
           sr == since * r
           af == audioSample * F
           vf == V * F
           kf == formats * F
<1>1. r \in Nat /\ F \in Nat \ {0} /\ frame \in Nat /\ since \in Nat /\ audioSample \in Nat /\ formats \in Nat
  BY FormatType, Quantities
<1>2. V \in Nat /\ vf <= sr /\ sr < vf + F
  BY <1>1, Rated
<1>3. (frame + 0 - since) * r <= (audioSample + 0 - V + formats) * F
      /\ (audioSample + 0 - V) * F <= (frame + 0 - since) * r + F
  BY DEF Even
<1> HIDE DEF r, F, V
<1>4. /\ (frame + 0 - since) * r = fr - sr /\ (audioSample + 0 - V + formats) * F = af - vf + kf
      /\ (audioSample + 0 - V) * F = af - vf /\ (audioSample + formats + 1) * F = af + kf + F
  BY <1>1, <1>2
<1>5. fr \in Int /\ sr \in Int /\ af \in Int /\ vf \in Int /\ kf \in Int
  BY <1>1, <1>2
<1> HIDE DEF fr, sr, af, vf, kf
<1>6. fr < af + kf + F /\ af <= fr + F
  BY <1>1, <1>2, <1>3, <1>4, <1>5
<1> QED
  BY <1>4, <1>6 DEF fr, af, r, F

(* Which step of the wave file is under way, and what each step and call leaves. *)
LEMMA WhichWave ==
  ASSUME WritersInv, BmpKnown, NEW s, At(s)
  PROVE  /\ s \in {"writeVideo", "block", "fill"}
         /\ s = "writeVideo" => WaveInPicture
         /\ s # "writeVideo" => WaveInSound
<1>1. todo # <<>> /\ todo[1][1] = s
  BY StepIs DEF WritersInv
<1>2. CASE WaveAtRest
  BY <1>1, <1>2 DEF WaveAtRest
<1>3. CASE WaveInPicture
  <2>1. s = "writeVideo"
    BY <1>1, <1>3 DEF WaveInPicture, Do
  <2> QED
    BY <1>3, <2>1
<1>4. CASE WaveInSound
  <2>1. PICK m, n \in Nat :
          todo = <<Do("block", n)>> \/ todo = <<Do("fill", m)>> \/ todo = <<Do("block", n), Do("fill", m)>>
    BY <1>4 DEF WaveInSound
  <2>2. s \in {"block", "fill"}
    BY <1>1, <2>1 DEF Do
  <2> QED
    BY <1>4, <2>2
<1> QED
  BY <1>2, <1>3, <1>4 DEF BmpKnown

LEMMA WaveResting ==
  ASSUME BmpKnown, todo = <<>>
  PROVE  WaveAtRest
<1>1. ~WaveInPicture /\ ~WaveInSound
  BY DEF WaveInPicture, WaveInSound
<1> QED
  BY <1>1 DEF BmpKnown

LEMMA WaveSetSize ==
  ASSUME WritersInv, kind = "bmp", BmpKnown, SetSize
  PROVE  BmpInv'
<1>1. /\ todo = <<>> /\ todo' = <<>> /\ ~fault /\ pictures = 0 /\ hasSize' /\ frame' = 0
      /\ UNCHANGED <<aud, audioSample, wfx, targetFormat, pictures, formats, since, soundDue, fault, deleted>>
  BY DEF SetSize, Ready, files, sound, driver
<1>2. aud => frame' = frame
  BY <1>1 DEF WritersInv, SoundInv, BmpKnown, WaveTold
<1>3. WaveAtRest
  BY <1>1, WaveResting
<1>4. aud => ((Even(-1, 0) => Even(-1, 0)') /\ (Even(0, 0) => Even(0, 0)'))
  BY <1>1, <1>2, EvenKept
<1>5. WaveAtRest'
  BY <1>1, <1>3, <1>4 DEF WaveAtRest
<1>6. WaveTold'
  BY <1>1 DEF BmpKnown, WaveTold
<1> QED
  BY <1>1, <1>5, <1>6 DEF BmpInv, BmpKnown

LEMMA WaveWriteFrame ==
  ASSUME WritersInv, kind = "bmp", BmpKnown, WriteFrame
  PROVE  BmpInv'
<1>1. /\ todo = <<>> /\ ~fault /\ ~soundDue /\ pictures' = pictures + 1 /\ soundDue' = sounding
      /\ steady' => (aud => sounding)
      /\ todo' = <<Do("writeVideo", 0)>>
      /\ UNCHANGED <<hasSize, aud, frame, audioSample, wfx, targetFormat, formats, since, fault, deleted>>
  BY DEF WriteFrame, Ready, files, counters, sound, Do
<1>2. WaveAtRest
  BY <1>1, WaveResting
<1>3. Even(0, 0) => Even(0, 0)'
  BY <1>1, EvenKept
<1>4. pictures' > 0 /\ pictures' # 0
  BY <1>1, Quantities
<1>5. steady' => WaveInPicture'
  BY <1>1, <1>2, <1>3, <1>4 DEF WaveAtRest, WaveInPicture
<1>6. WaveTold'
  BY <1>1, <1>4 DEF BmpKnown, WaveTold
<1> QED
  BY <1>1, <1>5, <1>6 DEF BmpInv, BmpKnown

LEMMA WaveAudioFrame ==
  ASSUME WritersInv, kind = "bmp", BmpKnown, WriteAudioFrame
  PROVE  BmpInv'
<1>1. wfx \in Format
  BY DEF WriteAudioFrame, WritersInv, SoundInv
<1> DEFINE V == SamplesIn(since, wfx.rate)
           W == SamplesIn(since + 1, wfx.rate)
<1>2. V \in Nat /\ W \in Nat /\ W - V \in Nat
  <2>1. since \in Nat /\ since + 1 \in Nat /\ wfx.rate \in Nat
    BY <1>1, FormatType, Quantities
  <2> QED
    BY <2>1, Rated, FrameType
<1>3. PICK n \in Nat : n = W - V
  BY <1>2
<1>4. /\ todo = <<>> /\ ~fault /\ soundDue /\ ~soundDue' /\ since' = since + 1
      /\ todo' = <<>> \o <<Do("block", n)>>
      /\ UNCHANGED <<hasSize, aud, frame, audioSample, wfx, targetFormat, pictures, formats, fault, deleted>>
  BY <1>3 DEF WriteAudioFrame, Ready, files, counters, sound, Do
<1>5. todo' = <<Do("block", n)>>
  BY <1>4, OneOrTwo
<1>6. aud => Even(0, n)'
  <2> SUFFICES ASSUME aud PROVE Even(0, n)'
    OBVIOUS
  <2>1. Even(-1, 0)
    BY <1>4, WaveResting DEF WaveAtRest
  <2>2. SamplesIn(since, wfx.rate)' = W
    BY <1>4 DEF SamplesIn
  <2>3. audioSample' + n - SamplesIn(since, wfx.rate)' = audioSample + 0 - V
    <3> HIDE DEF V, W
    <3> QED
      BY <1>2, <1>3, <1>4, <2>2, Quantities
  <2>4. frame' + 0 - since' = frame + (-1) - since
    BY <1>4, Quantities
  <2> QED
    BY <1>4, <2>1, <2>3, <2>4, EvenMoves
<1>7. \E m, l \in Nat : todo' = <<Do("block", l)>> /\ (aud' => Even(0, l)')
  BY <1>4, <1>5, <1>6
<1>8. WaveInSound'
  BY <1>4, <1>7 DEF WaveInSound
<1>9. WaveTold'
  BY <1>4 DEF BmpKnown, WaveTold
<1> QED
  BY <1>4, <1>8, <1>9 DEF BmpInv, BmpKnown

LEMMA WaveKept ==
  ASSUME BmpKnown, ~fault,
         UNCHANGED <<hasSize, aud, frame, audioSample, wfx, targetFormat, pictures, formats, since, soundDue, fault,
                     deleted, todo>>
  PROVE  BmpInv'
<1>1. \A b, p : Even(b, p) => Even(b, p)'
  BY EvenKept
<1>2. WaveTold'
  BY DEF BmpKnown, WaveTold
<1>3. WaveAtRest => WaveAtRest'
  BY <1>1 DEF WaveAtRest
<1>4. WaveInPicture => WaveInPicture'
  BY <1>1 DEF WaveInPicture
<1>5. WaveInSound => WaveInSound'
  <2> SUFFICES ASSUME WaveInSound PROVE WaveInSound'
    OBVIOUS
  <2>1. PICK m, n \in Nat :
          \/ todo = <<Do("block", n)>> /\ (aud => Even(0, n))
          \/ todo = <<Do("fill", m)>> /\ (aud => Even(0, m))
          \/ todo = <<Do("block", n), Do("fill", m)>> /\ (aud => Even(0, n + m))
    BY DEF WaveInSound
  <2>2. \/ todo' = <<Do("block", n)>> /\ (aud' => Even(0, n)')
        \/ todo' = <<Do("fill", m)>> /\ (aud' => Even(0, m)')
        \/ todo' = <<Do("block", n), Do("fill", m)>> /\ (aud' => Even(0, n + m)')
    BY <1>1, <2>1
  <2>3. ~soundDue'
    BY DEF WaveInSound
  <2> QED
    BY <2>2, <2>3 DEF WaveInSound
<1> QED
  BY <1>2, <1>3, <1>4, <1>5 DEF BmpInv, BmpKnown

LEMMA WaveDelete ==
  ASSUME WritersInv, kind = "bmp", BmpKnown, Delete
  PROVE  BmpInv'
<1>1. /\ todo = <<>> /\ todo' = <<>> /\ ~fault /\ ~aud' /\ deleted'
      /\ UNCHANGED <<hasSize, frame, wfx, targetFormat, pictures, formats, fault>>
  BY DEF Delete, Ready, counters, sound, driver
<1>2. WaveAtRest' /\ WaveTold'
  BY <1>1 DEF WaveAtRest, WaveTold, BmpKnown
<1> QED
  BY <1>1, <1>2 DEF BmpInv, BmpKnown

LEMMA WaveSetAudioFormat ==
  ASSUME WritersInv, kind = "bmp", BmpKnown, NEW f \in Format, SetAudioFormat(f)
  PROVE  BmpInv'
<1>1. /\ todo = <<>> /\ ~fault /\ ~deleted /\ ~soundDue /\ ~soundDue' /\ formats' = formats + 1 /\ since' = 0 /\ wfx' = f
      /\ targetFormat' = IF aud THEN targetFormat ELSE f
      /\ todo' = IF aud THEN <<>> ELSE <<<<"fill", SamplesNear(frame, f.rate)>>>>
      /\ (aud' = TRUE \/ (~aud /\ aud' = aud))
      /\ steady' => hasSize /\ (aud => f = wfx)
      /\ UNCHANGED <<hasSize, frame, audioSample, pictures, fault, deleted>>
  BY DEF SetAudioFormat, BmpFormat, Ready, counters
<1>2. SUFFICES ASSUME steady' PROVE BmpKnown'
  BY <1>1 DEF BmpInv
<1>3. f.rate \in Nat /\ frame \in Nat /\ FrameRate \in Nat \ {0} /\ formats \in Nat /\ audioSample \in Nat
  BY FormatType, Quantities
<1>4. SamplesIn(0, f.rate) = 0
  <2>1. 0 * f.rate = 0
    BY <1>3
  <2> QED
    BY <1>3, <2>1, SMT DEF SamplesIn
<1>5. SamplesIn(since, wfx.rate)' = 0
  BY <1>1, <1>4 DEF SamplesIn
<1>6. CASE aud
  <2>1. f = wfx /\ wfx \in Format /\ aud'
    BY <1>1, <1>2, <1>6 DEF WritersInv, SoundInv
  <2>2. Even(0, 0)
    BY <1>1, <1>6, WaveResting DEF WaveAtRest
  <2>3. /\ frame * f.rate < (audioSample + formats + 1) * FrameRate
        /\ audioSample * FrameRate <= frame * f.rate + FrameRate
    BY <2>1, <2>2, EvenAtRest
  <2>4. Even(0, 0)'
    <3> DEFINE x == frame * f.rate
               y == (audioSample + formats + 1) * FrameRate
    <3>1. x \in Int /\ y \in Int
      BY <1>3
    <3>2. frame' + 0 - since' = frame /\ audioSample' + 0 - 0 = audioSample
          /\ audioSample' + 0 - 0 + formats' = audioSample + formats + 1 /\ wfx'.rate = f.rate
      BY <1>1, <1>3
    <3>3. x <= y
      <4> HIDE DEF x, y
      <4>1. x < y
        BY <2>3 DEF x, y
      <4> QED
        BY <3>1, <4>1
    <3> QED
      BY <1>5, <2>3, <3>2, <3>3 DEF Even
  <2>5. WaveAtRest'
    BY <1>1, <1>6, <2>4 DEF WaveAtRest
  <2>6. WaveTold'
    <3>1. formats' >= 1
      BY <1>1, <1>3
    <3> QED
      BY <1>1, <1>2, <1>6, <2>1, <3>1 DEF BmpKnown, WaveTold
  <2> QED
    BY <2>5, <2>6 DEF BmpKnown
<1>7. CASE ~aud
  <2>1. PICK m \in Nat : m = SamplesNear(frame, f.rate)
    BY <1>3, Silent
  <2>2. todo' = <<Do("fill", m)>>
    BY <1>1, <1>7, <2>1 DEF Do
  <2>3. Even(0, m)'
    <3> DEFINE x == frame * f.rate
               y == m * FrameRate
               z == (m + (formats + 1)) * FrameRate
    <3>1. x \in Int /\ y \in Int /\ y <= x + FrameRate /\ x <= y + FrameRate
      <4>1. /\ SamplesNear(frame, f.rate) * FrameRate <= frame * f.rate + FrameRate
            /\ frame * f.rate <= SamplesNear(frame, f.rate) * FrameRate + FrameRate
        BY <1>3, Silent
      <4> QED
        BY <1>3, <2>1, <4>1
    <3>2. y + FrameRate <= z
      <4>1. (m + 1) * FrameRate <= (m + (formats + 1)) * FrameRate
        <5>1. m + 1 <= m + (formats + 1) /\ m + 1 \in Int /\ m + (formats + 1) \in Int
          BY <1>3
        <5> QED
          BY <1>3, <5>1, Larger
      <4>2. (m + 1) * FrameRate = y + FrameRate
        BY <1>3
      <4> QED
        BY <4>1, <4>2
    <3>3. z \in Int
      BY <1>3
    <3>4. audioSample = 0
      BY <1>1, <1>7 DEF BmpKnown, WaveTold
    <3>5. frame' + 0 - since' = frame /\ audioSample' + m - 0 = m /\ m + formats' = m + (formats + 1) /\ wfx'.rate = f.rate
      BY <1>1, <1>3, <3>4
    <3>6. x <= z
      <4> HIDE DEF x, y, z
      <4> QED
        BY <1>3, <3>1, <3>2, <3>3
    <3> QED
      BY <1>5, <3>1, <3>5, <3>6 DEF Even
  <2>4. \E k, n \in Nat : todo' = <<Do("fill", k)>> /\ (aud' => Even(0, k)')
    BY <2>2, <2>3
  <2>5. WaveInSound'
    BY <1>1, <2>4 DEF WaveInSound
  <2>6. WaveTold'
    <3>1. formats' >= 1
      BY <1>1, <1>3
    <3> QED
      BY <1>1, <1>2, <1>7, <3>1 DEF BmpKnown, WaveTold
  <2> QED
    BY <2>5, <2>6 DEF BmpKnown
<1> QED
  BY <1>6, <1>7

LEMMA WaveWriteVideo ==
  ASSUME WritersInv, kind = "bmp", BmpKnown, WriteVideo
  PROVE  BmpInv'
<1> SUFFICES ASSUME ~fault' PROVE BmpInv'
  BY DEF BmpInv
<1>1. /\ At("writeVideo") /\ ~fault /\ Step(<<>>) /\ frame' = frame + 1
      /\ UNCHANGED <<aud, audioSample, fault>>
  BY DEF WriteVideo, At, files
<1>2. WaveInPicture
  BY <1>1, WhichWave
<1>3. /\ Continue(<<>>)
      /\ UNCHANGED <<hasSize, wfx, targetFormat, pictures, formats, since, soundDue, deleted>>
  BY <1>1, StepKeeps
<1>4. todo' = <<>>
  BY <1>2, <1>3, Left DEF WaveInPicture
<1>5. aud => Even(-1, 0)'
  <2> SUFFICES ASSUME aud PROVE Even(-1, 0)'
    OBVIOUS
  <2>1. Even(0, 0)
    BY <1>2 DEF WaveInPicture
  <2>2. frame' + (-1) - since' = frame + 0 - since
    BY <1>1, <1>3, Quantities
  <2>3. SamplesIn(since, wfx.rate)' = SamplesIn(since, wfx.rate)
    BY <1>3 DEF SamplesIn
  <2> QED
    BY <1>1, <1>3, <2>1, <2>2, <2>3, EvenMoves
<1>6. WaveAtRest'
  BY <1>1, <1>2, <1>3, <1>4, <1>5 DEF WaveAtRest, WaveInPicture
<1>7. WaveTold'
  <2>1. pictures # 0
    BY <1>2, Quantities DEF WaveInPicture
  <2> QED
    BY <1>1, <1>3, <2>1 DEF BmpKnown, WaveTold
<1> QED
  BY <1>1, <1>6, <1>7 DEF BmpInv, BmpKnown

LEMMA WaveFill ==
  ASSUME WritersInv, kind = "bmp", BmpKnown, Fill
  PROVE  BmpInv'
<1> DEFINE w == AtMost(Number, BlockLength)
<1>1. /\ At("fill") /\ ~fault /\ Step(IF w = 0 THEN <<>> ELSE <<Do("block", w), Do("fill", Number - w)>>)
      /\ UNCHANGED <<aud, frame, audioSample, fault>>
  BY DEF Fill, At, files, counters, Do
<1>2. /\ UNCHANGED <<hasSize, wfx, targetFormat, pictures, formats, since, soundDue, deleted>>
      /\ Continue(IF w = 0 THEN <<>> ELSE <<Do("block", w), Do("fill", Number - w)>>)
  BY <1>1, StepKeeps
<1>3. WaveInSound
  BY <1>1, WhichWave
<1>4. PICK m \in Nat : todo = <<Do("fill", m)>> /\ (aud => Even(0, m))
  <2>1. todo # <<>> /\ todo[1][1] = "fill"
    BY <1>1, StepIs DEF WritersInv
  <2>2. PICK m, n \in Nat :
          \/ todo = <<Do("block", n)>>
          \/ todo = <<Do("fill", m)>> /\ (aud => Even(0, m))
          \/ todo = <<Do("block", n), Do("fill", m)>>
    BY <1>3 DEF WaveInSound
  <2>3. todo # <<Do("block", n)>> /\ todo # <<Do("block", n), Do("fill", m)>>
    BY <2>1 DEF Do
  <2> QED
    BY <2>2, <2>3
<1>5. Number = m
  BY <1>4 DEF Number, Do
<1>6. w \in Nat /\ w <= m /\ (w = 0 => m = 0)
  BY <1>5, Constants DEF AtMost
<1>7. WaveTold'
  BY <1>1, <1>2 DEF BmpKnown, WaveTold
<1>8. \A p : Even(0, p) => Even(0, p)'
  BY <1>1, <1>2, EvenKept
<1>9. ~soundDue'
  BY <1>2, <1>3 DEF WaveInSound
<1> HIDE DEF w
<1>10. CASE w = 0
  <2>1. todo' = <<>>
    BY <1>2, <1>4, <1>10, Left
  <2>2. WaveAtRest'
    BY <1>1, <1>4, <1>6, <1>8, <1>9, <1>10, <2>1 DEF WaveAtRest
  <2> QED
    BY <1>1, <1>7, <2>2 DEF BmpInv, BmpKnown
<1>11. CASE w # 0
  <2>1. PICK n \in Nat, l \in Nat : n = w /\ l = m - w
    BY <1>6
  <2>2. todo' = <<Do("block", n), Do("fill", l)>>
    <3>1. Continue(<<Do("block", n), Do("fill", l)>>)
      BY <1>2, <1>5, <1>11, <2>1
    <3>2. <<Do("block", n), Do("fill", l)>> \o <<>> = <<Do("block", n), Do("fill", l)>>
      OBVIOUS
    <3>3. Tail(todo) = <<>>
      BY <1>4
    <3> QED
      BY <3>1, <3>2, <3>3 DEF Continue
  <2>3. n + l = m
    BY <1>6, <2>1
  <2>4. aud' => Even(0, n + l)'
    BY <1>1, <1>4, <1>8, <2>3
  <2>5. WaveInSound'
    BY <1>9, <2>2, <2>4 DEF WaveInSound
  <2> QED
    BY <1>1, <1>7, <2>5 DEF BmpInv, BmpKnown
<1> QED
  BY <1>10, <1>11

LEMMA WaveBlock ==
  ASSUME WritersInv, kind = "bmp", BmpKnown, Block
  PROVE  BmpInv'
<1>1. /\ At("block") /\ ~fault /\ Step(<<>>)
      /\ audioSample' = IF aud THEN audioSample + Number ELSE audioSample
      /\ UNCHANGED <<aud, frame, fault>>
  BY DEF Block, At, files
<1>2. /\ UNCHANGED <<hasSize, wfx, targetFormat, pictures, formats, since, soundDue, deleted>> /\ Continue(<<>>)
  BY <1>1, StepKeeps
<1>3. WaveInSound
  BY <1>1, WhichWave
<1>4. PICK m, n \in Nat :
        \/ todo = <<Do("block", n)>> /\ (aud => Even(0, n))
        \/ todo = <<Do("block", n), Do("fill", m)>> /\ (aud => Even(0, n + m))
  <2>1. todo # <<>> /\ todo[1][1] = "block"
    BY <1>1, StepIs DEF WritersInv
  <2>2. PICK m, n \in Nat :
          \/ todo = <<Do("block", n)>> /\ (aud => Even(0, n))
          \/ todo = <<Do("fill", m)>>
          \/ todo = <<Do("block", n), Do("fill", m)>> /\ (aud => Even(0, n + m))
    BY <1>3 DEF WaveInSound
  <2>3. todo # <<Do("fill", m)>>
    BY <2>1 DEF Do
  <2> QED
    BY <2>2, <2>3
<1>5. Number = n
  BY <1>4 DEF Number, Do
<1>6. WaveTold'
  BY <1>1, <1>2 DEF BmpKnown, WaveTold
<1>7. ~soundDue'
  BY <1>2, <1>3 DEF WaveInSound
<1>8. ASSUME NEW q \in Nat, aud, Even(0, n + q) PROVE Even(0, q)'
  <2> DEFINE V == SamplesIn(since, wfx.rate)
  <2>1. V' = V
    BY <1>2 DEF SamplesIn
  <2>2. V \in Nat
    <3>1. wfx \in Format
      BY <1>8 DEF WritersInv, SoundInv
    <3>2. since \in Nat /\ wfx.rate \in Nat
      BY <3>1, FormatType, Quantities
    <3> QED
      BY <3>2, Rated
  <2>3. audioSample' + q - V' = audioSample + (n + q) - V
    <3> HIDE DEF V
    <3>1. audioSample' = audioSample + n
      BY <1>1, <1>5, <1>8
    <3> QED
      BY <2>1, <2>2, <3>1, Quantities
  <2>4. frame' + 0 - since' = frame + 0 - since
    BY <1>1, <1>2
  <2> QED
    BY <1>2, <1>8, <2>3, <2>4, EvenMoves
<1>9. CASE todo = <<Do("block", n)>> /\ (aud => Even(0, n))
  <2>1. todo' = <<>>
    BY <1>2, <1>9, Left
  <2>2. aud' => Even(0, 0)'
    <3>1. n + 0 = n
      OBVIOUS
    <3> QED
      BY <1>1, <1>8, <1>9, <3>1
  <2>3. WaveAtRest'
    BY <1>7, <2>1, <2>2 DEF WaveAtRest
  <2> QED
    BY <1>1, <1>6, <2>3 DEF BmpInv, BmpKnown
<1>10. CASE todo = <<Do("block", n), Do("fill", m)>> /\ (aud => Even(0, n + m))
  <2>1. todo' = <<Do("fill", m)>>
    BY <1>2, <1>10, Left
  <2>2. aud' => Even(0, m)'
    BY <1>1, <1>8, <1>10
  <2>3. WaveInSound'
    BY <1>7, <2>1, <2>2 DEF WaveInSound
  <2> QED
    BY <1>1, <1>6, <2>3 DEF BmpInv, BmpKnown
<1> QED
  BY <1>4, <1>9, <1>10

-----------------------------------------------------------------------------
(* Every call and every step keeps what is known. *)

LEMMA NextGoesOn ==
  ASSUME Next
  PROVE  kind' = kind /\ (steady' => steady) /\ ~fault
<1>1. CASE SetSize \/ WriteFrame \/ WriteAudioFrame \/ SoundStops \/ Delete
  <2>1. CASE SetSize
    <3>1. kind' = kind /\ steady' = steady /\ ~fault
      BY <2>1 DEF SetSize, Ready, ghosts
    <3> QED
      BY <3>1
  <2>2. CASE WriteFrame
    <3>1. kind' = kind /\ steady' = (steady /\ (aud => sounding)) /\ ~fault
      BY <2>2 DEF WriteFrame, Ready
    <3> QED
      BY <3>1
  <2>3. CASE WriteAudioFrame
    <3>1. kind' = kind /\ steady' = steady /\ ~fault
      BY <2>3 DEF WriteAudioFrame, Ready, ghosts
    <3> QED
      BY <3>1
  <2>4. CASE SoundStops
    <3>1. kind' = kind /\ steady' = steady /\ ~fault
      BY <2>4 DEF SoundStops, Ready, ghosts
    <3> QED
      BY <3>1
  <2>5. CASE Delete
    <3>1. kind' = kind /\ steady' = steady /\ ~fault
      BY <2>5 DEF Delete, Ready, ghosts
    <3> QED
      BY <3>1
  <2> QED
    BY <1>1, <2>1, <2>2, <2>3, <2>4, <2>5
<1>2. ASSUME NEW f \in Format, SetAudioFormat(f) PROVE kind' = kind /\ (steady' => steady) /\ ~fault
  BY <1>2 DEF SetAudioFormat, Ready
<1>3. ASSUME NEW step, At(step), NEW steps, Step(steps) PROVE kind' = kind /\ (steady' => steady) /\ ~fault
  <2>1. ~fault
    BY <1>3 DEF At
  <2>2. kind' = kind /\ steady' = steady
    BY <1>3 DEF Step
  <2> QED
    BY <2>1, <2>2
<1>5. CASE StartEncode \/ Segment \/ CleanupSegment \/ InitSegment \/ WriteVideo \/ StartAudio \/ Fill \/ Block \/ Resampled
  <2>1. CASE StartEncode
    BY <2>1, <1>3 DEF StartEncode
  <2>2. CASE Segment
    BY <2>2, <1>3 DEF Segment
  <2>3. CASE CleanupSegment
    BY <2>3, <1>3 DEF CleanupSegment
  <2>4. CASE InitSegment
    BY <2>4, <1>3 DEF InitSegment
  <2>5. CASE WriteVideo
    BY <2>5, <1>3 DEF WriteVideo
  <2>6. CASE StartAudio
    BY <2>6, <1>3 DEF StartAudio
  <2>7. CASE Fill
    BY <2>7, <1>3 DEF Fill
  <2>8. CASE Block
    BY <2>8, <1>3 DEF Block
  <2>9. CASE Resampled
    BY <2>9, <1>3 DEF Resampled
  <2> QED
    BY <1>5, <2>1, <2>2, <2>3, <2>4, <2>5, <2>6, <2>7, <2>8, <2>9
<1>4. CASE Resample
  BY <1>4 DEF Resample, At, ghosts
<1> QED
  BY <1>1, <1>2, <1>4, <1>5 DEF Next

LEMMA VfwKeeps ==
  ASSUME WritersInv, FrameHoldsFour, VfwInv, [Next]_vars
  PROVE  VfwInv'
<1>1. CASE UNCHANGED vars
  BY <1>1, StutterFits
<1>2. ASSUME Next, kind = "vfw", VfwKnown PROVE VfwInv'
  <2>1. CASE SetSize \/ SoundStops
    <3>1. /\ todo = <<>> /\ todo' = <<>> /\ ~fault
          /\ UNCHANGED <<resampler, file, vid, aud, formatSet, frame, audioSample, wfx, targetFormat, audioOk,
                         pictures, formats, since, soundDue, fault>>
      BY <1>2, <2>1 DEF SetSize, SoundStops, Ready, files, counters, sound, driver
    <3> QED
      BY <1>2, <3>1, RestKept
  <2>2. CASE WriteFrame \/ WriteAudioFrame \/ Delete
    BY <1>2, <2>2, WriteFrameFits, WriteAudioFrameFits, DeleteFits
  <2>3. ASSUME NEW f \in Format, SetAudioFormat(f) PROVE VfwInv'
    BY <1>2, <2>3, SetAudioFormatFits
  <2>4. CASE StartEncode \/ Segment \/ CleanupSegment \/ InitSegment \/ WriteVideo
    BY <1>2, <2>4, StartEncodeFits, SegmentFits, CleanupSegmentFits, InitSegmentFits, WriteVideoFits
  <2>5. CASE StartAudio \/ Fill \/ Block \/ Resample \/ Resampled
    BY <1>2, <2>5, StartAudioFits, FillFits, BlockFits, ResampleFits, ResampledFits
  <2> QED
    BY <1>2, <2>1, <2>2, <2>3, <2>4, <2>5 DEF Next
<1>3. CASE Next
  <2> SUFFICES ASSUME kind' = "vfw", steady' PROVE VfwInv'
    BY DEF VfwInv
  <2>1. kind = "vfw" /\ steady /\ ~fault
    BY <1>3, NextGoesOn
  <2>2. VfwKnown
    BY <2>1 DEF VfwInv
  <2> QED
    BY <1>2, <1>3, <2>1, <2>2
<1> QED
  BY <1>1, <1>3

LEMMA BmpKeeps ==
  ASSUME WritersInv, BmpInv, [Next]_vars
  PROVE  BmpInv'
<1>1. CASE UNCHANGED vars
  <2>1. /\ UNCHANGED <<hasSize, aud, frame, audioSample, wfx, targetFormat, pictures, formats, since, soundDue, fault,
                       deleted, todo>>
        /\ kind' = kind /\ steady' = steady
    BY <1>1 DEF vars, files, counters, sound, driver, ghosts
  <2>2. CASE kind = "bmp" /\ steady /\ ~fault
    <3>1. BmpKnown /\ ~fault
      BY <2>2 DEF BmpInv
    <3> QED
      BY <2>1, <3>1, WaveKept
  <2>3. CASE ~(kind = "bmp" /\ steady /\ ~fault)
    BY <2>1, <2>3 DEF BmpInv
  <2> QED
    BY <2>2, <2>3
<1>2. ASSUME Next, kind = "bmp", BmpKnown PROVE BmpInv'
  <2>1. CASE SoundStops
    <3>1. /\ UNCHANGED <<hasSize, aud, frame, audioSample, wfx, targetFormat, pictures, formats, since, soundDue, fault,
                         deleted, todo>>
          /\ ~fault
      BY <2>1 DEF SoundStops, Ready, files, counters, sound
    <3> QED
      BY <1>2, <3>1, WaveKept
  <2>2. CASE SetSize \/ WriteFrame \/ WriteAudioFrame \/ Delete
    BY <1>2, <2>2, WaveSetSize, WaveWriteFrame, WaveAudioFrame, WaveDelete
  <2>3. ASSUME NEW f \in Format, SetAudioFormat(f) PROVE BmpInv'
    BY <1>2, <2>3, WaveSetAudioFormat
  <2>4. CASE WriteVideo \/ Fill \/ Block
    BY <1>2, <2>4, WaveWriteVideo, WaveFill, WaveBlock
  <2>5. ~StartEncode /\ ~Segment /\ ~CleanupSegment /\ ~InitSegment /\ ~StartAudio /\ ~Resample /\ ~Resampled
    <3>1. \A s : At(s) => s \in {"writeVideo", "block", "fill"}
      BY <1>2, WhichWave
    <3> QED
      BY <3>1 DEF StartEncode, Segment, CleanupSegment, InitSegment, StartAudio, Resample, Resampled
  <2> QED
    BY <1>2, <2>1, <2>2, <2>3, <2>4, <2>5 DEF Next
<1>3. CASE Next
  <2> SUFFICES ASSUME kind' = "bmp", steady' PROVE BmpInv'
    BY DEF BmpInv
  <2>1. kind = "bmp" /\ steady /\ ~fault
    BY <1>3, NextGoesOn
  <2>2. BmpKnown
    BY <2>1 DEF BmpInv
  <2> QED
    BY <1>2, <1>3, <2>1, <2>2
<1> QED
  BY <1>1, <1>3

(* It holds at first, *)
LEMMA KnownAtFirst ==
  ASSUME Init
  PROVE  VfwInv /\ BmpInv
<1>1. /\ hasSize = FALSE /\ aud = FALSE /\ formatSet = FALSE /\ audioSample = 0 /\ wfx = None
      /\ todo = <<>> /\ pictures = 0 /\ since = 0 /\ soundDue = FALSE /\ fault = FALSE
      /\ kind = "vfw" => frame = 0
  BY DEF Init
<1>2. Fresh
  <2>1. PICK rate \in Rates : ResamplerInit(rate, rate, 1, TRUE)
    BY DEF Init
  <2> QED
    BY <2>1 DEF ResamplerInit, Fresh
<1>3. wfx \notin Format
  <2>1. Format \subseteq [rate : Rates, bits : {8, 16, 32}, chans : {1, 2}]
    BY Constants DEF Format
  <2> QED
    BY <1>1, <2>1, WritersAssumption
<1>4. VfwInv
  <2>1. AtRest
    BY <1>1, <1>2 DEF AtRest, ToCome
  <2> QED
    BY <1>1, <1>3, <2>1 DEF VfwInv, VfwKnown, Begun, Told
<1>5. BmpInv
  BY <1>1, <1>3 DEF BmpInv, BmpKnown, WaveTold, WaveAtRest
<1> QED
  BY <1>4, <1>5

(* Within a sample of the frames' worth is within a sample of the samples'. *)
LEMMA WholeSamples ==
  ASSUME NEW n \in Nat, NEW r \in Nat, NEW a \in Nat, NEW w \in Nat
  PROVE  /\ n * r < (a + w) * FrameRate => SamplesIn(n, r) + 1 <= a + w
         /\ a * FrameRate < (n + 1) * r + w * FrameRate => a <= SamplesIn(n + 1, r) + w
<1> DEFINE F == FrameRate
           q == SamplesIn(n, r)
           s == SamplesIn(n + 1, r)
<1>1. F \in Nat \ {0} /\ n + 1 \in Nat
  BY Constants
<1>2. q \in Nat /\ q * F <= n * r /\ s \in Nat /\ (n + 1) * r < s * F + F
  BY <1>1, Rated
<1> HIDE DEF q, s, F
<1>3. ASSUME n * r < (a + w) * F PROVE q + 1 <= a + w
  <2>1. q * F < (a + w) * F
    <3>1. q * F \in Int /\ n * r \in Int /\ (a + w) * F \in Int
      BY <1>1, <1>2
    <3> QED
      BY <1>2, <1>3, <3>1
  <2>2. q < a + w
    BY <1>1, <1>2, <2>1, Fewer
  <2> QED
    BY <1>2, <2>2
<1>4. ASSUME a * F < (n + 1) * r + w * F PROVE a <= s + w
  <2>1. (s + w + 1) * F = s * F + w * F + F
    BY <1>1, <1>2
  <2>2. a * F < (s + w + 1) * F
    <3>1. a * F \in Int /\ (n + 1) * r \in Int /\ s * F \in Int /\ w * F \in Int
      BY <1>1, <1>2
    <3> QED
      BY <1>1, <1>2, <1>4, <2>1, <3>1
  <2>3. a < s + w + 1
    <3>1. s + w + 1 \in Int
      BY <1>2
    <3> QED
      BY <1>1, <2>2, <3>1, Fewer
  <2> QED
    BY <1>2, <2>3
<1> QED
  BY <1>3, <1>4 DEF q, s, F

(* and it is enough. *)
LEMMA KnownMatches ==
  ASSUME WritersInv, VfwInv, BmpInv
  PROVE  SoundMatchesPicture
<1> SUFFICES ASSUME ~fault, todo = <<>>, ~soundDue, aud, steady
             PROVE  /\ audioSample + 4 + ChangeCost(targetFormat.rate) * (formats - 1) >= SamplesIn(frame, targetFormat.rate)
                    /\ audioSample <= SamplesIn(frame + 1, targetFormat.rate) + formats + 1
  BY DEF SoundMatchesPicture
<1> DEFINE r == targetFormat.rate
           c == ChangeCost(r) * (formats - 1)
<1>1. wfx \in Format /\ frame \in Nat /\ audioSample \in Nat /\ formats \in Nat
  BY Quantities DEF WritersInv, SoundInv
<1>2. CASE kind = "vfw"
  <2>1. ~fault /\ VfwKnown
    BY <1>2 DEF VfwInv
  <2>2. Flow(0, 0) /\ OutRate = r /\ OutRate \in Rates /\ formats >= 1
    BY <1>1, <2>1, Resting DEF AtRest, VfwKnown, Told
  <2>3. r \in Nat /\ r \in Rates
    BY <2>2, Constants
  <2>4. PICK W \in Nat : /\ W <= 5 + ChangeCost(OutRate) * (formats - 1)
                         /\ (frame + 0) * OutRate < (audioSample + W) * FrameRate
                         /\ audioSample * FrameRate < (frame + 0 + 1) * OutRate + (formats + 1) * FrameRate
    BY <2>2, FlowAtRest
  <2>5. /\ W <= 5 + c /\ frame * r < (audioSample + W) * FrameRate
        /\ audioSample * FrameRate < (frame + 1) * r + (formats + 1) * FrameRate
    <3>1. frame + 0 = frame
      BY <1>1
    <3> QED
      BY <2>2, <2>4, <3>1
  <2>6. SamplesIn(frame, r) + 1 <= audioSample + W /\ audioSample <= SamplesIn(frame + 1, r) + (formats + 1)
    <3>1. formats + 1 \in Nat
      BY <1>1
    <3> QED
      BY <1>1, <2>3, <2>5, <3>1, WholeSamples
  <2>7. SamplesIn(frame, r) \in Nat /\ SamplesIn(frame + 1, r) \in Nat
    <3>1. frame + 1 \in Nat
      BY <1>1
    <3> QED
      BY <1>1, <2>3, <3>1, Rated
  <2>8. c \in Int
    <3>1. ChangeCost(r) \in Nat
      BY <2>3, Cost
    <3> QED
      BY <1>1, <3>1
  <2> HIDE DEF c, r
  <2>9. audioSample + 4 + c >= SamplesIn(frame, r) /\ audioSample <= SamplesIn(frame + 1, r) + formats + 1
    BY <1>1, <2>5, <2>6, <2>7, <2>8
  <2> QED
    BY <2>9 DEF c, r
<1>3. CASE kind = "bmp"
  <2>1. BmpKnown
    BY <1>3 DEF BmpInv
  <2>2. Even(0, 0) /\ targetFormat = wfx /\ formats >= 1
    BY <1>1, <2>1, WaveResting DEF WaveAtRest, BmpKnown, WaveTold
  <2>3. r \in Nat /\ r \in Rates
    BY <1>1, <2>2, FormatType
  <2>4. /\ frame * r < (audioSample + (formats + 1)) * FrameRate
        /\ audioSample * FrameRate <= frame * r + FrameRate
    <3>1. audioSample + formats + 1 = audioSample + (formats + 1)
      BY <1>1
    <3> QED
      BY <1>1, <2>2, <3>1, EvenAtRest
  <2>5. audioSample * FrameRate < (frame + 1) * r + 2 * FrameRate
    <3>1. (frame + 1) * r = frame * r + r /\ frame * r \in Nat /\ audioSample * FrameRate \in Nat /\ FrameRate \in Nat \ {0}
      BY <1>1, <2>3, Constants
    <3> HIDE DEF r
    <3> QED
      BY <2>3, <2>4, <3>1
  <2>6. SamplesIn(frame, r) + 1 <= audioSample + (formats + 1) /\ audioSample <= SamplesIn(frame + 1, r) + 2
    <3>1. formats + 1 \in Nat
      BY <1>1
    <3> QED
      BY <1>1, <2>3, <2>4, <2>5, <3>1, WholeSamples
  <2>7. SamplesIn(frame, r) \in Nat /\ SamplesIn(frame + 1, r) \in Nat
    <3>1. frame + 1 \in Nat
      BY <1>1
    <3> QED
      BY <1>1, <2>3, <3>1, Rated
  <2>8. c \in Nat /\ c >= formats - 1
    <3>1. ChangeCost(r) \in Nat /\ ChangeCost(r) >= 4 /\ formats - 1 \in Nat
      BY <1>1, <2>2, <2>3, Cost
    <3>2. 1 * (formats - 1) <= ChangeCost(r) * (formats - 1)
      BY <3>1, Larger
    <3> QED
      BY <3>1, <3>2
  <2> HIDE DEF c, r
  <2>9. audioSample + 4 + c >= SamplesIn(frame, r) /\ audioSample <= SamplesIn(frame + 1, r) + formats + 1
    BY <1>1, <2>2, <2>6, <2>7, <2>8
  <2> QED
    BY <2>9 DEF c, r
<1> QED
  BY <1>2, <1>3 DEF WritersInv, WritersTypeOK

(* Sound stays with the picture in every file, from the frame it starts in, whatever the
   rates and however the program changes its format, for what a change costs, as long as
   a frame holds the samples that the resampler keeps back
   (avi_videoencoder_vfw.cpp:172-196, 350-400, bmp_videoencoder.cpp:104-153). *)
THEOREM SoundKeepsStep ==
  ASSUME FrameHoldsFour
  PROVE  Spec => []SoundMatchesPicture
<1>1. Init => VfwInv /\ BmpInv
  BY KnownAtFirst
<1>2. WritersInv /\ VfwInv /\ BmpInv /\ [Next]_vars => VfwInv' /\ BmpInv'
  BY VfwKeeps, BmpKeeps
<1>3. WritersInv /\ VfwInv /\ BmpInv => SoundMatchesPicture
  BY KnownMatches
<1> QED
  BY <1>1, <1>2, <1>3, WritersInvariant, PTL DEF Spec
=============================================================================
