------------------------------ MODULE DirectDraw ------------------------------
(***************************************************************************)
(* Capturing from DirectDraw (src/kkapturedll/video_directdraw.cpp). The   *)
(* methods of every version of the interfaces are replaced for all objects *)
(* at once, so kkapture's own calls, to read a surface back, come through  *)
(* its hooks like the program's; and where DirectDraw shares the code of   *)
(* two versions, a call comes through the hooks of both. A hook tells what *)
(* shows a picture by the primary surface and its version alone, and does  *)
(* not ask whether DirectDraw has shown it.                                *)
(*                                                                         *)
(* A hook is the sequence of steps it has still to take. Interface pointers *)
(* stand for their objects; the primary surface lives as long as the program, *)
(* which uses it through the version it was made with. DirectDraw describes *)
(* a surface that exists whenever it is asked to.                          *)
(***************************************************************************)
EXTENDS Integers, FiniteSets, Sequences

CONSTANTS
  Primary, Other, Blit, None, \* the program's surfaces, kkapture's own, no surface
  MaxShown                    \* bound on the pictures presented

\* The hooks of version 2 do what those of 7 do, the hooks of version 3 what those of 4 do.
Versions == {1, 4, 7}

\* Versions whose Lock hook calls the original of version 1.
Borrowing == {7}

VARIABLES
  VirtualFramebuffer,     \* params.VirtualFramebuffer
  shared,                 \* the versions' methods are the same code
  patched,                \* the versions whose methods have been replaced: first, second... or 0
  PrimarySurface, PrimarySurfaceVersion,
  sizes,                  \* of the surfaces; a capture has that of its source, rounded down by setCaptureResolution
  capture,                \* size of captureBuffer
  primaryData,            \* size of the memory the program draws to instead of the primary, 0 if none
  locked,                 \* what the program has locked of the primary
  result,                 \* whether the last Blt or Lock succeeded
  calls,                  \* steps of the hooks
  crashed,                \* history: a hook has used a pointer that points nowhere
  virtual,                \* history: the program has locked the whole, and its hook has seen it
  careless,               \* history: since then a picture was blitted, in vain, to the locked primary
  presented,              \* history: calls of the program that present a picture, failing ones included
  written, refused, undrawn, \* history: pictures written; not handed over by DirectDraw; not drawn to kkapture's memory
  advanced                \* history: frames

params == <<VirtualFramebuffer, shared>>
primary == <<PrimarySurface, PrimarySurfaceVersion>>
program == <<locked, virtual, careless, presented, undrawn>>
frames == <<written, refused, advanced>>
vars == <<params, patched, primary, sizes, capture, primaryData, result, calls, crashed, program, frames>>

Sizes == {1, 2}
Whole == "whole"
Part == "part"
Nothing == "nothing"

TypeOK ==
  /\ {VirtualFramebuffer, shared, result, crashed, virtual, careless} \subseteq BOOLEAN
  /\ patched \in [Versions -> Nat]
  /\ PrimarySurface \in {None, Primary} /\ PrimarySurfaceVersion \in Versions \union {0}
  /\ sizes \in [{Primary, Other, Blit} -> Sizes] /\ {capture, primaryData} \subseteq Sizes \union {0}
  /\ locked \in {Whole, Part, Nothing}
  /\ presented \in 0..MaxShown /\ {written, refused, undrawn, advanced} \subseteq Nat

Init ==
  /\ VirtualFramebuffer \in BOOLEAN /\ shared \in BOOLEAN
  /\ patched = [v \in Versions |-> 0] /\ PrimarySurface = None /\ PrimarySurfaceVersion = 0
  /\ sizes \in [{Primary, Other, Blit} -> Sizes] /\ sizes[Blit] = 1 /\ capture = 0 /\ primaryData = 0
  /\ result = FALSE /\ calls = <<>> /\ crashed = FALSE
  /\ locked = Nothing /\ virtual = FALSE /\ careless = FALSE
  /\ presented = 0 /\ undrawn = 0 /\ written = 0 /\ refused = 0 /\ advanced = 0

Call(method, me, version, with) == [do |-> method, me |-> me, version |-> version, with |-> with]
Step(name) == Call(name, None, 0, None)
With(name, surface) == Call(name, None, 0, surface)

Idle == calls = <<>> /\ ~crashed
At(name) == calls # <<>> /\ Head(calls).do = name /\ ~crashed
This == Head(calls)
Continue(steps) == calls' = steps \o Tail(calls)

Patched == {v \in Versions : patched[v] # 0}

\* A version's methods are replaced once, on top of what has been replaced before.
Patch(version) ==
  patched' = IF version \in Patched THEN patched ELSE [patched EXCEPT ![version] = Cardinality(Patched) + 1]

\* Versions whose hook a call of the method comes through.
Hooks(version) == IF shared THEN Patched ELSE Patched \intersect {version}

\* A Lock that comes to the hook of version 7 leaves it for what version 1's hook is on top
\* of: past that hook and those between; to nowhere if version 1 has no hook, and with
\* shared code back to itself if it has been replaced before version 1.
LockLost(version) ==
  \E v \in Hooks(version) \intersect Borrowing : patched[1] = 0 \/ (shared /\ patched[v] < patched[1])

LockHooks(version) ==
  {v \in Hooks(version) : \A w \in Hooks(version) \intersect Borrowing :
                            patched[v] >= patched[w] \/ patched[v] < patched[1]}

\* Mutant: the hook of any version takes the primary for its own.
MineWhateverVersion(version, me) == me = PrimarySurface

\* The hook's test before a Blt, Lock or Unlock counts.
Mine(version, me) == PrimarySurfaceVersion = version /\ me = PrimarySurface

\* The hooks that take the call for one of the primary.
OfPrimary == {v \in Versions : Mine(v, This.me)}

\* What the hooks of these versions do, each in its turn.
Each(versions, steps) == [i \in 1..Cardinality(versions) * Len(steps) |-> steps[((i - 1) % Len(steps)) + 1]]

-----------------------------------------------------------------------------
(* What the program calls. Whether a Blt or a Flip is done makes no difference *)
(* to the hooks.                                                           *)

HasPrimary == Idle /\ PrimarySurface # None
Presents == presented < MaxShown /\ presented' = presented + 1
Unchanged == UNCHANGED <<params, primary, sizes, capture, primaryData, result, crashed, frames>>

\* CreateSurface with any version of DirectDraw; version 2 makes surfaces of version 1.
CreateSurface(surface, version) ==
  /\ Idle /\ (surface = Primary => PrimarySurface = None) /\ Patch(version)
  /\ calls' = IF surface = Primary THEN <<Call("PrimarySurfaceCreated", surface, version, None)>> ELSE <<>>
  /\ UNCHANGED program /\ Unchanged

QueryInterface(version) ==
  Idle /\ Patched # {} /\ Patch(version) /\ UNCHANGED <<calls, program>> /\ Unchanged

\* With a source or, to fill the surface, without.
Blt(me, from) ==
  /\ HasPrimary /\ calls' = <<Call("Blt", me, PrimarySurfaceVersion, from)>>
  /\ IF me = Primary /\ from # None
     THEN Presents /\ careless' = (careless \/ locked # Nothing)
     ELSE UNCHANGED <<presented, careless>>
  /\ UNCHANGED <<patched, locked, virtual, undrawn>> /\ Unchanged

\* The hook asks for the version only: any surface will do.
Flip(me) ==
  /\ HasPrimary /\ calls' = <<Call("Flip", me, PrimarySurfaceVersion, None)>>
  /\ Presents /\ UNCHANGED <<patched, locked, virtual, careless, undrawn>> /\ Unchanged

\* The whole surface or a part of it.
Lock(what) ==
  /\ HasPrimary /\ calls' = <<Call("Lock", Primary, PrimarySurfaceVersion, what), With("given", what)>>
  /\ UNCHANGED <<patched, program>> /\ Unchanged

\* With the virtual framebuffer an Unlock presents what was drawn whether it is done or not.
Unlock(done) ==
  /\ HasPrimary /\ (done => locked # Nothing)
  /\ calls' = <<Call("Unlock", Primary, PrimarySurfaceVersion, done)>>
  /\ locked' = IF done THEN Nothing ELSE locked
  /\ IF done \/ VirtualFramebuffer THEN Presents ELSE UNCHANGED presented
  /\ undrawn' = IF VirtualFramebuffer /\ ~virtual THEN undrawn + 1 ELSE undrawn
  /\ virtual' = FALSE /\ UNCHANGED <<patched, careless>> /\ Unchanged

-----------------------------------------------------------------------------
(* The hooks. *)

\* A step that changes no more than the sequence of steps.
Only == UNCHANGED <<params, patched, primary, sizes, program>>

PrimarySurfaceCreated ==
  /\ At("PrimarySurfaceCreated") /\ Continue(<<>>)
  /\ PrimarySurface' = This.me /\ PrimarySurfaceVersion' = This.version /\ capture' = sizes[This.me]
  /\ UNCHANGED <<params, patched, sizes, primaryData, result, crashed, program, frames>>

\* ImplementBltToPrimary.
BltToPrimary(from) ==
  IF from = None THEN <<>> ELSE <<With("resolution", from), Step("readBack"), Step("nextFrame")>>

MineBlt ==
  /\ At("Blt") /\ result' \in BOOLEAN
  /\ Continue(Each(Hooks(This.version) \intersect OfPrimary, BltToPrimary(This.with)))
  /\ Only /\ UNCHANGED <<capture, primaryData, crashed, frames>>

\* Flip asks for the version only. Without a back buffer there is no picture.
MineFlip ==
  /\ At("Flip")
  /\ LET flips == Hooks(This.version) \intersect {PrimarySurfaceVersion}
     IN  \/ Continue(Each(flips, <<Step("readBack"), Step("nextFrame")>>)) /\ UNCHANGED refused
         \/ Continue(Each(flips, <<Step("nextFrame")>>)) /\ refused' = refused + 1
  /\ Only /\ UNCHANGED <<capture, primaryData, result, crashed, written, advanced>>

\* A surface that is locked is not locked again.
MineLock ==
  /\ At("Lock") /\ crashed' = LockLost(This.version) /\ result' \in BOOLEAN
  /\ result' => ~crashed' /\ (This.me = Primary => locked = Nothing)
  /\ Continue(IF result' /\ This.with # Part
              THEN Each(LockHooks(This.version) \intersect OfPrimary, <<Step("lockPrimary")>>) ELSE <<>>)
  /\ Only /\ UNCHANGED <<capture, primaryData, frames>>

\* The program has what it asked for, or not.
Given ==
  /\ At("given") /\ Continue(<<>>)
  /\ locked' = IF result THEN This.with ELSE locked
  /\ LET seen == /\ result /\ This.with = Whole /\ VirtualFramebuffer
                 /\ PrimarySurfaceVersion \in LockHooks(PrimarySurfaceVersion)
     IN  virtual' = (virtual \/ seen) /\ careless' = (careless /\ ~seen)
  /\ UNCHANGED <<params, patched, primary, sizes, capture, primaryData, result, crashed, presented, undrawn, frames>>

\* The virtual framebuffer is shown before the call and whether it is done or not, the
\* primary after it.
MineUnlock ==
  /\ At("Unlock")
  /\ Continue(Each(Hooks(This.version) \intersect OfPrimary,
                   IF VirtualFramebuffer THEN <<Step("unlockPrimary"), Step("nextFrame")>>
                   ELSE IF This.with THEN BltToPrimary(This.me) ELSE <<>>))
  /\ Only /\ UNCHANGED <<capture, primaryData, result, crashed, frames>>

\* ImplementLockPrimary: the program gets memory of kkapture's.
LockPrimary ==
  /\ At("lockPrimary") /\ Continue(<<>>)
  /\ IF VirtualFramebuffer
     THEN /\ capture' = sizes[PrimarySurface]
          /\ primaryData' = IF primaryData = 0 THEN sizes[PrimarySurface] ELSE primaryData
     ELSE UNCHANGED <<capture, primaryData>>
  /\ Only /\ UNCHANGED <<result, crashed, frames>>

\* ImplementUnlockPrimary: what the program drew is the picture.
UnlockPrimary ==
  /\ At("unlockPrimary") /\ Continue(<<>>)
  /\ written' = IF primaryData # 0 THEN written + 1 ELSE written
  /\ primaryData' = 0
  /\ Only /\ UNCHANGED <<capture, result, crashed, refused, advanced>>

Resolution ==
  /\ At("resolution") /\ Continue(<<>>) /\ capture' = sizes[This.with]
  /\ Only /\ UNCHANGED <<primaryData, result, crashed, frames>>

\* BlitSurfaceToCapture: a surface is created, blitted to and locked, by hooked calls.
\* GetBlitSurface does not look whether it is there: the pointer may point nowhere, to
\* nothing, or to the surface of an earlier picture. The surface to read may have a format
\* that is not known.
ReadBack ==
  /\ At("readBack")
  /\ \/ /\ Continue(<<Call("Blt", Blit, PrimarySurfaceVersion, Primary), Step("blitted")>>)
        /\ Patch(PrimarySurfaceVersion) /\ UNCHANGED <<crashed, refused>>
     \/ Continue(<<>>) /\ refused' = refused + 1 /\ UNCHANGED <<patched, crashed>>
     \/ Continue(<<>>) /\ crashed' = TRUE /\ UNCHANGED <<patched, refused>>
  /\ UNCHANGED <<params, primary, sizes, capture, primaryData, result, program, written, advanced>>

\* A call of kkapture's own has been done, or DirectDraw has refused it.
Refused(steps) ==
  /\ IF result THEN Continue(steps) /\ UNCHANGED refused ELSE Continue(<<>>) /\ refused' = refused + 1
  /\ Only /\ UNCHANGED <<capture, primaryData, result, crashed, written, advanced>>

Blitted == At("blitted") /\ Refused(<<Call("Lock", Blit, PrimarySurfaceVersion, Whole), Step("locked")>>)

Locked == At("locked") /\ Refused(<<Call("Unlock", Blit, PrimarySurfaceVersion, TRUE), Step("write")>>)

WriteFrame ==
  /\ At("write") /\ Continue(<<>>) /\ written' = written + 1
  /\ Only /\ UNCHANGED <<capture, primaryData, result, crashed, refused, advanced>>

nextFrame ==
  /\ At("nextFrame") /\ Continue(<<>>) /\ advanced' = advanced + 1
  /\ Only /\ UNCHANGED <<capture, primaryData, result, crashed, written, refused>>

-----------------------------------------------------------------------------
Program ==
  \/ \E v \in Versions : CreateSurface(Primary, v) \/ CreateSurface(Other, v) \/ QueryInterface(v)
  \/ \E me \in {Primary, Other} : Flip(me) \/ \E from \in {Other, None} : Blt(me, from)
  \/ Lock(Whole) \/ Lock(Part) \/ Unlock(TRUE) \/ Unlock(FALSE)

Hook ==
  \/ PrimarySurfaceCreated \/ MineBlt \/ MineFlip \/ MineLock \/ Given \/ MineUnlock \/ LockPrimary
  \/ UnlockPrimary \/ Resolution \/ ReadBack \/ Blitted \/ Locked \/ WriteFrame \/ nextFrame

Next == Program \/ Hook

Spec == Init /\ [][Next]_vars

-----------------------------------------------------------------------------
(* Properties. *)

\* Every call that presents a picture, a failing Blt or Flip included, is one frame, and
\* its picture is written once: kkapture's own calls are not taken for the program's, and
\* no call counts for two versions (lines 543-819). The only pictures that are missing are
\* those DirectDraw did not hand over (198-266) and, with the virtual framebuffer, those of
\* an Unlock whose Lock was of a part, failed or did not come through the hook of the
\* primary's version (802). What the program drew in memory of kkapture's has the size that
\* is copied from there (453-516), unless it blitted to the surface meanwhile.
OnePictureOneFrame ==
  /\ TypeOK
  /\ advanced <= presented /\ written + refused + undrawn <= presented
  /\ (Idle => advanced = presented /\ written + refused + undrawn = presented)
  /\ (Idle => (virtual <=> primaryData # 0))
  /\ (At("unlockPrimary") /\ primaryData # 0 /\ ~careless => capture = primaryData)
=============================================================================
