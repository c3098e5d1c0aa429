------------------------------- MODULE Graphics -------------------------------
(***************************************************************************)
(* The hooks of both families of graphics interfaces, as initVideo (video.cpp) *)
(* installs them in every program: a program draws with Direct3D or with   *)
(* DirectDraw, and the hooks of the other are not called.                  *)
(***************************************************************************)
EXTENDS Integers

CONSTANTS
  Surfaces, Protection, Word, MaxRefs, MaxDevices, MaxFailures, \* see Direct3D
  Primary, Other, Blit, None, MaxShown                          \* see DirectDraw

\* The references that are added for a reset are more than can go meanwhile.
ASSUME Direct3DAssumption ==
  /\ {Surfaces, Protection, Word, MaxRefs} \subseteq Nat \ {0} /\ {MaxDevices, MaxFailures} \subseteq Nat
  /\ Protection > MaxRefs + Surfaces + MaxFailures /\ Word > 2 * Protection

ASSUME DirectDrawAssumption ==
  /\ Other # Primary /\ Blit \notin {Primary, Other} /\ None \notin {Primary, Other, Blit}
  /\ MaxShown \in Nat

VARIABLES
  api, \* what the program draws with
  deviceRefCount, inRelease, hooked, inside, pointers, alive, owner, refs, owned, devices, dev, todo, returned,
  overlapped, fault, failures,
  VirtualFramebuffer, shared, patched, PrimarySurface, PrimarySurfaceVersion, sizes, capture, primaryData, locked,
  result, calls, crashed, virtual, careless, presented, written, refused, undrawn, advanced

d3d == <<deviceRefCount, inRelease, hooked, inside, pointers, alive, owner, refs, owned, devices, dev, todo, returned,
  overlapped, fault, failures>>
ddraw == <<VirtualFramebuffer, shared, patched, PrimarySurface, PrimarySurfaceVersion, sizes, capture, primaryData,
  locked, result, calls, crashed, virtual, careless, presented, written, refused, undrawn, advanced>>
graphicsVars == <<api, d3d, ddraw>>

D3D == INSTANCE Direct3D
DDraw == INSTANCE DirectDraw

GraphicsInit ==
  /\ api \in {"Direct3D", "DirectDraw"}
  /\ D3D!Init /\ DDraw!Init

GraphicsNext ==
  /\ UNCHANGED api
  /\ \/ api = "Direct3D" /\ D3D!Next /\ UNCHANGED ddraw
     \/ api = "DirectDraw" /\ DDraw!Next /\ UNCHANGED d3d

GraphicsSpec == GraphicsInit /\ [][GraphicsNext]_graphicsVars

-----------------------------------------------------------------------------
(* Properties. *)

\* Whatever fails and however many devices there are, nothing is released twice and no
\* device goes while the program has a reference of it (video_direct3d9.cpp:205 "to make
\* sure nothing gets released wrongly").
NothingReleasedTwice == D3D!NothingReleasedTwice

\* A program that has one device at a time does not notice the capture surfaces: they
\* are there and the device lives as long as the program has a reference of it and no
\* longer, and AddRef and Release say how many the program has, whether Direct3D's own
\* calls come through the hooks or not. In mid-call nothing is released twice.
DeviceDiesWithProgram == D3D!DeviceDiesWithProgram

\* Every call of a DirectDraw program that presents a picture, a failing Blt or Flip
\* included, is one frame, and its picture is written once: missing are only those that
\* DirectDraw did not hand over and those that were not drawn to the virtual framebuffer,
\* because of a Lock that its hook has not seen (video_directdraw.cpp:543-819).
OnePictureOneFrame == DDraw!OnePictureOneFrame
=============================================================================
