------------------------------- MODULE Direct3D -------------------------------
(***************************************************************************)
(* What the Direct3D 8 and 9 hooks do to the reference counts of devices   *)
(* (src/kkapturedll/video_direct3d9.cpp, video_direct3d8.cpp). The capture  *)
(* surfaces hold references of their device, which would outlive the       *)
(* program's last one; the hooks count the program's references themselves *)
(* and give the surfaces up with the last. They keep one count and one set *)
(* of surfaces, whatever the number of devices. Direct3D may take and give *)
(* up a surface's reference through the methods the hooks have replaced,   *)
(* or past them.                                                           *)
(*                                                                         *)
(* A hook is the sequence of steps it has still to take: a release within  *)
(* a release goes in front of the rest. The pictures are in Lifecycle.     *)
(***************************************************************************)
EXTENDS Integers, Sequences, FiniteSets

CONSTANTS
  Surfaces,        \* captureTex, captureSurf, captureInbetween; one for Direct3D 8
  Protection, Word, \* 512 and 2^32
  MaxRefs, MaxDevices, MaxFailures \* bounds: references of the program to a device, devices, failures

VARIABLES
  deviceRefCount, inRelease,
  hooked,     \* AddRef and Release have been replaced
  inside,     \* Direct3D's own calls go through what is replaced
  pointers,   \* capture surfaces kkapture has pointers to
  alive,      \* those of them that are not released
  owner,      \* the device each was made for
  refs,       \* the real count of each device
  owned,      \* the references the program has of each
  devices,    \* devices made so far; 0 is none
  dev,        \* the device of the program's last call
  todo,       \* steps of the hooks
  returned,   \* what the last AddRef or Release said
  overlapped, \* history: a device was made while an earlier one was there
  fault,      \* history: something was released twice
  failures    \* how often Direct3D has failed to reset, to create or to copy a surface

hooks == <<deviceRefCount, inRelease, hooked, pointers, owner>>
program == <<owned, devices, dev, overlapped>>
vars == <<hooks, inside, alive, refs, program, todo, returned, fault, failures>>

Ids == 1..Surfaces
Devices == 0..MaxDevices

TypeOK ==
  /\ deviceRefCount \in 0..Word-1 /\ {inRelease, hooked, inside, overlapped, fault} \subseteq BOOLEAN
  /\ pointers \subseteq Ids /\ alive \subseteq Ids /\ owner \in [Ids -> Devices]
  /\ refs \in [Devices -> Nat] /\ owned \in [Devices -> 0..MaxRefs]
  /\ devices \in Devices /\ dev \in Devices /\ returned \in Nat /\ failures \in 0..MaxFailures

Init ==
  /\ deviceRefCount = 0 /\ inRelease = FALSE /\ hooked = FALSE /\ inside \in BOOLEAN
  /\ pointers = {} /\ alive = {} /\ owner = [s \in Ids |-> 0]
  /\ refs = [d \in Devices |-> 0] /\ owned = [d \in Devices |-> 0] /\ devices = 0 /\ dev = 0
  /\ todo = <<>> /\ returned = 0 /\ overlapped = FALSE /\ fault = FALSE /\ failures = 0

Step(name) == [do |-> name, on |-> 0]
On(name, x) == [do |-> name, on |-> x] \* of a surface, or of a device
Each(name) == [s \in Ids |-> On(name, s)]

Idle == todo = <<>>
At(name) == todo # <<>> /\ Head(todo).do = name
This == Head(todo).on
Continue(steps) == todo' = steps \o Tail(todo)

\* A reference of the device that Direct3D itself takes or gives up.
OwnAddRef(d) == On(IF inside /\ hooked THEN "AddRef" ELSE "realAddRef", d)
OwnRelease(d) == On(IF inside /\ hooked THEN "Release" ELSE "realRelease", d)

Fails == failures < MaxFailures /\ failures' = failures + 1

-----------------------------------------------------------------------------
(* The program's calls, of a device it has a reference of. *)

\* The surfaces come before the hooks; with a second device those are there already.
CreateDevice ==
  /\ Idle /\ devices < MaxDevices
  /\ devices' = devices + 1 /\ dev' = devices + 1
  /\ refs' = [refs EXCEPT ![devices + 1] = 1] /\ owned' = [owned EXCEPT ![devices + 1] = 1]
  /\ overlapped' = (overlapped \/ \E d \in Devices : refs[d] # 0) /\ returned' = 1
  /\ todo' = Each("create") \o <<Step("count")>>
  /\ UNCHANGED <<hooks, inside, alive, fault, failures>>

ProgramAddRef(d) ==
  /\ Idle /\ owned[d] \in 1..MaxRefs-1
  /\ owned' = [owned EXCEPT ![d] = @ + 1] /\ dev' = d
  /\ todo' = <<On("AddRef", d), Step("return")>>
  /\ UNCHANGED <<hooks, inside, alive, refs, devices, returned, overlapped, fault, failures>>

ProgramRelease(d) ==
  /\ Idle /\ owned[d] > 0
  /\ owned' = [owned EXCEPT ![d] = @ - 1] /\ dev' = d
  /\ todo' = <<On("Release", d), Step("return")>>
  /\ UNCHANGED <<hooks, inside, alive, refs, devices, returned, overlapped, fault, failures>>

\* Mutant: the count is not protected while the surfaces are released.
ResetUnprotected(d) ==
  /\ Idle /\ owned[d] > 0 /\ dev' = d
  /\ todo' = Each("free") \o <<Step("reset")>>
  /\ UNCHANGED <<hooks, inside, alive, refs, owned, devices, returned, overlapped, fault, failures>>

Reset(d) ==
  /\ Idle /\ owned[d] > 0 /\ dev' = d
  /\ todo' = <<Step("protect")>> \o Each("free") \o <<Step("reset")>>
  /\ UNCHANGED <<hooks, inside, alive, refs, owned, devices, returned, overlapped, fault, failures>>

captureSurf == IF Surfaces = 1 THEN 1 ELSE 2

\* captureD3DFrame takes the back buffer, which holds the device as long as it is out.
Present(d) ==
  /\ Idle /\ owned[d] > 0 /\ dev' = d
  /\ \/ captureSurf \notin pointers /\ UNCHANGED <<todo, failures>>
     \/ captureSurf \in pointers /\ todo' = <<OwnAddRef(d), Step("capture")>> /\ UNCHANGED failures
     \/ captureSurf \in pointers /\ Fails /\ UNCHANGED todo
  /\ UNCHANGED <<hooks, inside, alive, refs, owned, devices, returned, overlapped, fault>>

-----------------------------------------------------------------------------
(* The hooks' steps. *)

\* Mutant: what Direct3D and the program take is not counted.
AddRefUncounted ==
  /\ At("AddRef") /\ Continue(<<>>)
  /\ refs' = [refs EXCEPT ![This] = @ + 1]
  /\ UNCHANGED <<hooks, inside, alive, program, returned, fault, failures>>

\* Mine_D3DDevice9_AddRef.
AddRef ==
  /\ At("AddRef") /\ Continue(<<>>)
  /\ refs' = [refs EXCEPT ![This] = @ + 1] /\ deviceRefCount' = (deviceRefCount + 1) % Word
  /\ UNCHANGED <<inRelease, hooked, pointers, owner, inside, alive, program, returned, fault, failures>>

\* Mine_D3DDevice9_Release: our surfaces are the last to go.
Release ==
  /\ At("Release")
  /\ IF deviceRefCount > 0 /\ ~inRelease
     THEN /\ deviceRefCount' = deviceRefCount - 1
          /\ IF deviceRefCount = 1
             THEN /\ inRelease' = TRUE
                  /\ Continue(Each("free") \o <<Step("leave"), On("realRelease", This)>>)
             ELSE Continue(<<On("realRelease", This)>>) /\ UNCHANGED inRelease
     ELSE Continue(<<On("realRelease", This)>>) /\ UNCHANGED <<deviceRefCount, inRelease>>
  /\ UNCHANGED <<hooked, pointers, owner, inside, alive, refs, program, returned, fault, failures>>

LeaveRelease ==
  /\ At("leave") /\ Continue(<<>>) /\ inRelease' = FALSE
  /\ UNCHANGED <<deviceRefCount, hooked, pointers, owner, inside, alive, refs, program, returned, fault, failures>>

\* What AddRef and Release return: the hook's count, the real one if that is zero.
Return ==
  /\ At("return") /\ Continue(<<>>)
  /\ returned' = IF deviceRefCount > 0 THEN deviceRefCount ELSE refs[dev]
  /\ UNCHANGED <<hooks, inside, alive, refs, program, fault, failures>>

RealAddRef ==
  /\ At("realAddRef") /\ Continue(<<>>) /\ refs' = [refs EXCEPT ![This] = @ + 1]
  /\ UNCHANGED <<hooks, inside, alive, program, returned, fault, failures>>

RealRelease ==
  /\ At("realRelease") /\ Continue(<<>>)
  /\ refs' = [refs EXCEPT ![This] = IF @ = 0 THEN 0 ELSE @ - 1]
  /\ fault' = (fault \/ refs[This] = 0)
  /\ UNCHANGED <<hooks, inside, alive, program, returned, failures>>

\* freeCaptureSurfaces: the pointer is cleared after the surface has been released.
FreeSurface ==
  /\ At("free")
  /\ IF This \in pointers
     THEN /\ Continue(<<OwnRelease(owner[This]), On("clear", This)>>)
          /\ alive' = alive \ {This} /\ fault' = (fault \/ This \notin alive)
     ELSE Continue(<<>>) /\ UNCHANGED <<alive, fault>>
  /\ UNCHANGED <<hooks, inside, refs, program, returned, failures>>

ClearPointer ==
  /\ At("clear") /\ Continue(<<>>) /\ pointers' = pointers \ {This}
  /\ UNCHANGED <<deviceRefCount, inRelease, hooked, owner, inside, alive, refs, program, returned, fault, failures>>

\* createCaptureSurfaces: without the texture there is no other surface. A pointer that is
\* still there is overwritten, and what it pointed to keeps its reference for ever.
CreateSurface ==
  /\ At("create")
  /\ \/ /\ pointers' = pointers \union {This} /\ alive' = alive \union {This}
        /\ owner' = [owner EXCEPT ![This] = dev]
        /\ Continue(<<OwnAddRef(dev)>>) /\ UNCHANGED failures
     \/ /\ Fails /\ UNCHANGED <<pointers, alive, owner>>
        /\ todo' = SubSeq(todo, IF This = 1 THEN Surfaces + 1 ELSE 2, Len(todo))
  /\ UNCHANGED <<deviceRefCount, inRelease, hooked, inside, refs, program, returned, fault>>

\* The end of CreateDevice.
CountDevice ==
  /\ At("count") /\ Continue(<<>>)
  /\ deviceRefCount' = 1 /\ hooked' = TRUE
  /\ UNCHANGED <<inRelease, pointers, owner, inside, alive, refs, program, returned, fault, failures>>

Protect ==
  /\ \/ At("protect") /\ deviceRefCount' = (deviceRefCount + Protection) % Word
     \/ At("unprotect") /\ deviceRefCount' = (deviceRefCount + Word - Protection) % Word
  /\ Continue(<<>>)
  /\ UNCHANGED <<inRelease, hooked, pointers, owner, inside, alive, refs, program, returned, fault, failures>>

\* Direct3D refuses to reset a device when something of it is left, or for its own reasons.
RealReset ==
  /\ At("reset")
  /\ \/ Continue(Each("create") \o <<Step("unprotect")>>) /\ UNCHANGED failures
     \/ /\ Continue(<<Step("unprotect")>>)
        /\ Fails \/ (refs[dev] > owned[dev] /\ UNCHANGED failures)
  /\ UNCHANGED <<hooks, inside, alive, refs, program, returned, fault>>

\* The back buffer is given back, unless StretchRect failed before.
Capture ==
  /\ At("capture")
  /\ \/ Continue(<<OwnRelease(dev)>>) /\ UNCHANGED failures
     \/ Surfaces > 1 /\ Fails /\ Continue(<<>>)
  /\ UNCHANGED <<hooks, inside, alive, refs, program, returned, fault>>

-----------------------------------------------------------------------------
Hooks ==
  \/ AddRef \/ Release \/ LeaveRelease \/ Return \/ RealAddRef \/ RealRelease \/ FreeSurface \/ ClearPointer
  \/ CreateSurface \/ CountDevice \/ Protect \/ RealReset \/ Capture

Next ==
  \/ CreateDevice
  \/ \E d \in Devices : ProgramAddRef(d) \/ ProgramRelease(d) \/ Reset(d) \/ Present(d)
  \/ Hooks

Spec == Init /\ [][Next]_vars

-----------------------------------------------------------------------------
(* Properties. *)

\* Whatever fails and however many devices there are, nothing is released twice and no
\* device goes while the program has a reference of it (video_direct3d9.cpp:205 "to make
\* sure nothing gets released wrongly").
NothingReleasedTwice ==
  /\ TypeOK /\ ~fault
  /\ Idle => \A d \in Devices : owned[d] > 0 => refs[d] >= owned[d]

\* A program that has one device at a time does not notice the capture surfaces: they
\* are there and the device lives as long as the program has a reference of it and no
\* longer, and AddRef and Release say how many the program has, whether Direct3D's own
\* calls come through the hooks or not. In mid-call nothing is released twice.
DeviceDiesWithProgram ==
  ~overlapped =>
    /\ ~fault
    /\ Idle /\ failures = 0 =>
         /\ \A d \in Devices : refs[d] = IF owned[d] = 0 THEN 0 ELSE owned[d] + Surfaces
         /\ alive = pointers /\ returned = owned[dev]
=============================================================================
