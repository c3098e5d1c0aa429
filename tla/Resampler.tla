------------------------------ MODULE Resampler ------------------------------
(***************************************************************************)
(* Which samples the audio resampler reads and how many it writes          *)
(* (src/kkapturedll/audio_resample.cpp). Sound comes in blocks of any      *)
(* length; tFrac, the position between two samples of the input, is all    *)
(* that goes from one block into the next. The spline that makes a sample  *)
(* is left out; the second channel repeats the first one's steps.          *)
(***************************************************************************)
EXTENDS Integers

CONSTANTS
  Rates,    \* the sample rates in use
  MaxBlock  \* bound on the length of a block

ASSUME ResamplerAssumption == Rates \subseteq Nat \ {0} /\ MaxBlock \in Nat

VARIABLES
  InRate, OutRate, InChans, Identical,
  tFrac,        \* in units of 1 / OutRate of a sample of the input
  InitSamples,  \* samples read to fill the history of the spline
  nInSamples,   \* of the block, those not yet read
  count,        \* samples written for the block
  length, tOrig, \* the block's length, and tFrac when it came
  consumed, produced \* history: samples read and written since Init

format == <<InRate, OutRate, InChans, Identical>>
resampler == <<format, tFrac, InitSamples, nInSamples, count, length, tOrig, consumed, produced>>

ResamplerTypeOK ==
  /\ InRate \in Nat \ {0} /\ OutRate \in Nat \ {0} /\ InChans \in {1, 2} /\ Identical \in BOOLEAN
  /\ tFrac \in Nat /\ InitSamples \in 0..3 /\ nInSamples \in Nat /\ count \in Nat
  /\ length \in Nat /\ tOrig \in Nat /\ consumed \in Nat /\ produced \in Nat

\* Init, for a source of inChans channels that are 16 bit samples or not.
ResamplerInit(inRate, outRate, inChans, sameFormat) ==
  /\ InRate = inRate /\ OutRate = outRate /\ InChans = inChans
  /\ Identical = (sameFormat /\ inRate = outRate)
  /\ tFrac = 0 /\ InitSamples = 0
  /\ nInSamples = 0 /\ count = 0 /\ length = 0 /\ tOrig = 0 /\ consumed = 0 /\ produced = 0

Setup(inRate, outRate, inChans, sameFormat) ==
  /\ nInSamples = 0
  /\ InRate' = inRate /\ OutRate' = outRate /\ InChans' = inChans
  /\ Identical' = (sameFormat /\ inRate = outRate)
  /\ tFrac' = 0 /\ InitSamples' = 0
  /\ nInSamples' = 0 /\ count' = 0 /\ length' = 0 /\ tOrig' = 0 /\ consumed' = 0 /\ produced' = 0

\* Mutant: nothing is added for the samples that are left over.
MaxOutputExact(n) == (n * OutRate) \div InRate

\* MulDiv(nInSamples + 4, OutRate, InRate), which rounds to the nearest.
MaxOutputSamples(n) == ((n + 4) * OutRate + InRate \div 2) \div InRate

AtMost(a, b) == IF a <= b THEN a ELSE b

\* ResampleInit takes the first three samples. Called for each channel, it counts on
\* where the channel before has stopped.
InitTaken(n) == AtMost(3 - InitSamples, n)
InitAfter(n) ==
  LET first == InitSamples + InitTaken(n)
  IN  IF InChans = 2 THEN first + AtMost(3 - first, n) ELSE first

\* Resample is called with a block of n samples.
ResampleBlock(n) ==
  /\ nInSamples = 0 /\ length' = n /\ tOrig' = tFrac
  /\ IF Identical
     THEN /\ count' = n /\ consumed' = consumed + n /\ produced' = produced + n
          /\ UNCHANGED <<nInSamples, InitSamples>>
     ELSE /\ nInSamples' = n - InitTaken(n) /\ InitSamples' = InitAfter(n) /\ count' = 0
          /\ UNCHANGED <<consumed, produced>>
  /\ UNCHANGED <<format, tFrac>>

\* Mutant: the position starts again with every sample of the input.
AdvanceFrom0(t) == 0

Advanced(t) == t - OutRate

\* ResampleChan: one sample of the input is passed,
AdvanceInput ==
  /\ nInSamples > 0 /\ tFrac >= OutRate
  /\ tFrac' = Advanced(tFrac) /\ nInSamples' = nInSamples - 1 /\ consumed' = consumed + 1
  /\ UNCHANGED <<format, InitSamples, count, length, tOrig, produced>>

\* or one of the output is made.
GenerateOutput ==
  /\ nInSamples > 0 /\ tFrac < OutRate
  /\ count' = count + 1 /\ produced' = produced + 1 /\ tFrac' = tFrac + InRate
  /\ UNCHANGED <<format, InitSamples, nInSamples, length, tOrig, consumed>>

ResamplerStep == AdvanceInput \/ GenerateOutput

ResamplerNext ==
  \/ ResamplerStep
  \/ \E n \in 0..MaxBlock : ResampleBlock(n)
  \/ \E in, out \in Rates, chans \in {1, 2}, same \in BOOLEAN : Setup(in, out, chans, same)

ResamplerSpec ==
  /\ \E in, out \in Rates, chans \in {1, 2}, same \in BOOLEAN : ResamplerInit(in, out, chans, same)
  /\ [][ResamplerNext]_resampler

-----------------------------------------------------------------------------
(* Properties. *)

\* However the sound was cut into blocks, between blocks there are as many samples
\* of output as those of the input that were read are worth, rounded up.
NoDrift ==
  nInSamples = 0 => /\ consumed * OutRate <= produced * InRate
                    /\ produced * InRate < consumed * OutRate + InRate

\* A block writes no more than the space made for it (avi_videoencoder_vfw.cpp:378-384),
\* unless it is slowed down to less than an eighth.
OutputFits == InRate <= 8 * OutRate => count <= MaxOutputSamples(length)
=============================================================================
