--------------------------- MODULE LifecycleProofs ---------------------------
(***************************************************************************)
(* Theorems about the life of the encoder, for any sizes of picture, any   *)
(* number of calls and any interleaving of the three threads in which no   *)
(* call overlaps an exchange of the encoder (Overlap = FALSE).             *)
(***************************************************************************)
EXTENDS Lifecycle, TLAPS

(* What is left of a call. *)

\* These steps are never the last of a call.
Leading == {"getFormat", "delete", "nextPart", "createPart", "autoSize", "destroyBuffer", "initBuffer",
            "enterShutdown", "takeEncoder", "deleteEncoder", "doneVideo", "leaveShutdown"}

\* b may follow a. What is not named here follows anything.
Fits(a, b) ==
  /\ b \notin {"create", "enterShutdown"}
  /\ a = "getFormat" <=> b = "delete"
  /\ a = "delete" <=> b = "nextPart"
  /\ a = "nextPart" <=> b = "createPart"
  /\ a = "createPart" => b \in {"autoSize", "resumeSound"}
  /\ b = "autoSize" => a = "createPart"
  /\ b = "resumeSound" => a \in {"createPart", "autoSize"}
  /\ a = "autoSize" => b = "resumeSound"
  /\ b = "destroyBuffer" => a = "resumeSound"
  /\ a = "destroyBuffer" <=> b = "initBuffer"
  /\ a = "initBuffer" <=> b = "setSize"
  /\ a = "enterShutdown" <=> b = "takeEncoder"
  /\ a = "takeEncoder" <=> b = "deleteEncoder"
  /\ a = "deleteEncoder" <=> b = "doneVideo"
  /\ a = "doneVideo" <=> b = "leaveShutdown"
  /\ a = "leaveShutdown" <=> b = "terminate"

\* The steps that tell an encoder its size, and the one that may put them in.
Sizings == {"autoSize", "setSize"}
Resizing == Sizings \union {"resolution"}
Unsized == {"createPart", "destroyBuffer", "initBuffer"}
Writings == {"write", "writeAgain"}

Has(c, steps) == \E i \in 1..Len(c) : c[i] \in steps

\* A call tells a new part and a new buffer their size, counts the picture it
\* writes as seen, and has no new size once it has begun with the picture.
Rest(c) ==
  /\ \A i \in 1..Len(c)-1 : Fits(c[i], c[i+1])
  /\ c # <<>> => c[Len(c)] \notin Leading
  /\ \A i \in 1..Len(c) : c[i] \in Unsized => \E j \in i+1..Len(c) : c[j] \in Sizings
  /\ \A i \in 1..Len(c) : c[i] \in Writings => \E j \in i+1..Len(c) : c[j] = "seen"
  /\ \A i \in 1..Len(c), j \in 1..Len(c) : i < j /\ c[i] \in Writings \union {"seen"} => c[j] \notin Resizing

(* Who is in a call. *)
Busy(t) == calls[t] # <<>>
Alone(t) == \A u \in Threads : u # t => ~Busy(u)
HeadIn(t, steps) == Busy(t) /\ calls[t][1] \in steps

\* A call of which no other may be under way at the same time (Racing).
Disturbs(t) == Has(calls[t], Exchanges) \/ (exitNextFrame /\ Has(calls[t], {"timing"}))

\* A disturbing call is the only one; the hook ends the program with its last step;
\* the watchdog acts once it is armed, and it is armed after the first encoder.
CallersInv ==
  /\ \A t \in Threads : Disturbs(t) => Alone(t)
  /\ Busy("hook") => calls["hook"][Len(calls["hook"])] = "terminate"
  /\ Busy("watchdog") => armed
  /\ armed => objs # <<>>
  /\ \A t \in Threads : Rest(calls[t])

(* Which encoder there is. *)
Ending == {"deleteEncoder", "doneVideo", "leaveShutdown", "terminate"}

\* Before the first encoder.
Fresh ==
  /\ encoder = Nobody /\ objs = <<>> /\ initialized
  /\ \A t \in Threads : Busy(t) => HeadIn(t, {"need", "create", "enterShutdown", "takeEncoder"})
  /\ captureWidth = 0 /\ ~playing
  /\ soundOpen => Busy("program")

\* With an encoder, which only the step after next may find deleted.
Live ==
  /\ encoder # Nobody /\ initialized
  /\ \A t \in Threads : ~HeadIn(t, {"create", "createPart"} \union Ending)
  /\ objs[encoder].deleted <=> \E t \in Threads : HeadIn(t, {"nextPart"})

\* Between two parts, or at the end.
Between ==
  /\ encoder = Nobody
  /\ \E t \in Threads : HeadIn(t, {"createPart"} \union Ending)
  /\ initialized \/ \E t \in Threads : HeadIn(t, {"leaveShutdown", "terminate"})

\* One of the three, at every moment of a capture.
EncoderInv == Fresh \/ Live \/ Between

\* Every encoder has a part of its own, no later than the counter, and only the
\* one at hand, or the one Stop has taken out, may still be open.
FilesInv ==
  /\ partCounter > 0
  /\ FilesDistinct
  /\ \A e \in 1..Len(objs) : objs[e].file <= partCounter
  /\ (\E t \in Threads : HeadIn(t, {"createPart"})) => \A e \in 1..Len(objs) : objs[e].file < partCounter
  /\ \A e \in 1..Len(objs) : ~objs[e].deleted =>
       e = encoder \/ (e = realEncoder /\ \E t \in Threads : HeadIn(t, {"deleteEncoder"}))
  /\ (\E t \in Threads : HeadIn(t, {"deleteEncoder"})) /\ realEncoder # Nobody => ~objs[realEncoder].deleted

\* The heads of a call while its part has no picture.
Blank == {"autoSize", "resumeSound", "destroyBuffer", "initBuffer", "setSize"}

\* The encoder has the capture size, or a call is about to tell it; before that call
\* is done no picture goes to it, and a size is set only while it has no picture.
SizeInv ==
  encoder # Nobody =>
    /\ objs[encoder].size = captureWidth \/ \E t \in Threads : Has(calls[t], Sizings)
    /\ \A t \in Threads : HeadIn(t, {"setSize"}) => captureWidth = Aligned(asked)
    /\ objs[encoder].pictures =>
         /\ \A t \in Threads : ~HeadIn(t, Blank)
         /\ seenFrames \/ \E t \in Threads : Has(calls[t], {"seen"}) /\ ~Has(calls[t], Resizing)

\* The heads between the question for the sound format and its answer to the next part.
Handing == {"delete", "nextPart", "createPart", "autoSize", "resumeSound"}

\* While sound plays the encoder knows its format, or a call carries it over.
FormatInv ==
  playing /\ ~lostFormat =>
    /\ \A t \in Threads : HeadIn(t, Handing) => wfx
    /\ encoder # Nobody => objs[encoder].format \/ \E t \in Threads : HeadIn(t, Handing)

\* What holds until the capture is over ...
RunInv == CallersInv /\ EncoderInv /\ FilesInv /\ SizeInv /\ FormatInv

\* ... and the inductive invariant.
LifeInv ==
  /\ TypeOK /\ FilesDistinct /\ EncoderAtHand /\ FilesFinished
  /\ Running => RunInv

-----------------------------------------------------------------------------
(* Calls as sequences of steps. *)

\* The steps of a call put before the rest of another.
LEMMA Joined ==
  ASSUME NEW s \in Seq(Steps), NEW u \in Seq(Steps)
  PROVE  /\ s \o u \in Seq(Steps) /\ Len(s \o u) = Len(s) + Len(u)
         /\ \A i \in 1..Len(s) : (s \o u)[i] = s[i]
         /\ \A i \in 1..Len(u) : (s \o u)[Len(s) + i] = u[i]
         /\ Len(s) \in Nat /\ Len(u) \in Nat
         /\ (s = <<>> <=> Len(s) = 0) /\ (u = <<>> <=> Len(u) = 0)
OBVIOUS

\* The rest of a call after its first step.
LEMMA WithoutFirst ==
  ASSUME NEW c \in Seq(Steps), c # <<>>
  PROVE  /\ Tail(c) \in Seq(Steps) /\ Len(Tail(c)) = Len(c) - 1
         /\ \A i \in 1..Len(Tail(c)) : Tail(c)[i] = c[i + 1]
         /\ Len(c) \in Nat /\ Len(c) > 0 /\ (Tail(c) = <<>> <=> Len(c) = 1)
         /\ Head(c) = c[1]
<1>1. Len(c) \in Nat /\ Len(c) > 0 /\ Head(c) = c[1]
  OBVIOUS
<1> DEFINE r == Tail(c)
<1>2. r \in Seq(Steps) /\ Len(r) = Len(c) - 1
  OBVIOUS
<1>3. \A i \in 1..Len(r) : r[i] = c[i + 1]
  OBVIOUS
<1> HIDE DEF r
<1>4. r = <<>> <=> Len(r) = 0
  BY <1>2
<1>5. r = <<>> <=> Len(c) = 1
  BY <1>1, <1>2, <1>4
<1> QED
  BY <1>1, <1>2, <1>3, <1>5 DEF r

\* Each step of two calls, one behind the other, is a step of one of them.
LEMMA OneOfBoth ==
  ASSUME NEW s \in Seq(Steps), NEW u \in Seq(Steps), NEW i \in 1..Len(s \o u)
  PROVE  \/ i \in 1..Len(s) /\ (s \o u)[i] = s[i]
         \/ \E k \in 1..Len(u) : i = Len(s) + k /\ (s \o u)[i] = u[k]
<1> DEFINE m == Len(s)
           n == Len(u)
           r == s \o u
<1>1. /\ Len(r) = m + n /\ m \in Nat /\ n \in Nat
      /\ \A k \in 1..m : r[k] = s[k]
      /\ \A k \in 1..n : r[m + k] = u[k]
  BY Joined
<1>2. i \in 1..Len(r)
  OBVIOUS
<1> HIDE DEF m, n, r
<1>3. CASE i <= m
  BY <1>1, <1>2, <1>3 DEF m, r
<1>4. CASE i > m
  <2> DEFINE k == i - m
  <2>1. k \in 1..n /\ i = m + k
    BY <1>1, <1>2, <1>4
  <2> QED
    BY <1>1, <2>1 DEF m, n, r
<1> QED
  BY <1>1, <1>2, <1>3, <1>4

\* What the calls hold, one behind the other.
LEMMA HasJoined ==
  ASSUME NEW s \in Seq(Steps), NEW u \in Seq(Steps), NEW S
  PROVE  Has(s \o u, S) <=> Has(s, S) \/ Has(u, S)
<1>1. ASSUME Has(s \o u, S) PROVE Has(s, S) \/ Has(u, S)
  <2>1. PICK i \in 1..Len(s \o u) : (s \o u)[i] \in S
    BY <1>1 DEF Has
  <2> QED
    BY <2>1, OneOfBoth DEF Has
<1>2. ASSUME Has(s, S) PROVE Has(s \o u, S)
  <2>1. PICK i \in 1..Len(s) : s[i] \in S
    BY <1>2 DEF Has
  <2>2. i \in 1..Len(s \o u) /\ (s \o u)[i] = s[i]
    BY Joined
  <2> QED
    BY <2>1, <2>2 DEF Has
<1>3. ASSUME Has(u, S) PROVE Has(s \o u, S)
  <2>1. PICK i \in 1..Len(u) : u[i] \in S
    BY <1>3 DEF Has
  <2>2. Len(s) + i \in 1..Len(s \o u) /\ (s \o u)[Len(s) + i] = u[i]
    BY Joined
  <2> QED
    BY <2>1, <2>2 DEF Has
<1> QED
  BY <1>1, <1>2, <1>3

\* A call has a step at its head or behind it.
LEMMA HasTail ==
  ASSUME NEW c \in Seq(Steps), c # <<>>, NEW S
  PROVE  Has(c, S) <=> c[1] \in S \/ Has(Tail(c), S)
<1>1. ASSUME Has(c, S), c[1] \notin S PROVE Has(Tail(c), S)
  <2>1. PICK i \in 1..Len(c) : c[i] \in S
    BY <1>1 DEF Has
  <2>2. i - 1 \in 1..Len(Tail(c)) /\ (i - 1) + 1 = i
    BY <1>1, <2>1, WithoutFirst
  <2>3. Tail(c)[i - 1] = c[i]
    BY <2>2, WithoutFirst
  <2> QED
    BY <2>1, <2>2, <2>3 DEF Has
<1>2. ASSUME Has(Tail(c), S) PROVE Has(c, S)
  <2>1. PICK i \in 1..Len(Tail(c)) : Tail(c)[i] \in S
    BY <1>2 DEF Has
  <2>2. i + 1 \in 1..Len(c) /\ Tail(c)[i] = c[i + 1]
    BY WithoutFirst
  <2> QED
    BY <2>1, <2>2 DEF Has
<1>3. c[1] \in S => Has(c, S)
  BY WithoutFirst DEF Has
<1> QED
  BY <1>1, <1>2, <1>3

\* What is left of a call that is in order is in order.
LEMMA RestTail ==
  ASSUME NEW c \in Seq(Steps), c # <<>>, Rest(c)
  PROVE  Rest(Tail(c)) /\ (Tail(c) # <<>> => Fits(c[1], Tail(c)[1]))
<1> DEFINE r == Tail(c)
           n == Len(c)
<1>1. /\ r \in Seq(Steps) /\ Len(r) = n - 1 /\ n \in Nat /\ n > 0
      /\ \A i \in 1..Len(r) : r[i] = c[i + 1]
      /\ r = <<>> <=> n = 1
  BY WithoutFirst
<1>2. /\ \A i \in 1..n-1 : Fits(c[i], c[i+1])
      /\ c[n] \notin Leading
      /\ \A i \in 1..n : c[i] \in Unsized => \E j \in i+1..n : c[j] \in Sizings
      /\ \A i \in 1..n : c[i] \in Writings => \E j \in i+1..n : c[j] = "seen"
      /\ \A i \in 1..n, j \in 1..n : i < j /\ c[i] \in Writings \union {"seen"} => c[j] \notin Resizing
  BY DEF Rest
<1> HIDE DEF r, n
<1>3. ASSUME NEW i \in 1..Len(r)-1 PROVE Fits(r[i], r[i+1])
  <2>1. i \in 1..Len(r) /\ i+1 \in 1..Len(r) /\ i+1 \in 1..n-1
    BY <1>1
  <2>2. r[i] = c[i+1] /\ r[i+1] = c[(i+1)+1]
    BY <1>1, <2>1
  <2> QED
    BY <1>2, <2>1, <2>2
<1>4. r # <<>> => r[Len(r)] \notin Leading
  <2>1. r # <<>> => Len(r) \in 1..Len(r) /\ Len(r) + 1 = n
    BY <1>1
  <2> QED
    BY <1>1, <1>2, <2>1
<1>5. ASSUME NEW i \in 1..Len(r), NEW S, \E j \in i+1+1..n : c[j] \in S
      PROVE  \E j \in i+1..Len(r) : r[j] \in S
  <2>1. PICK j \in i+1+1..n : c[j] \in S
    BY <1>5
  <2>2. j - 1 \in i+1..Len(r) /\ j - 1 \in 1..Len(r) /\ (j - 1) + 1 = j
    BY <1>1, <2>1
  <2>3. r[j - 1] = c[j]
    BY <1>1, <2>2
  <2> QED
    BY <2>1, <2>2, <2>3
<1>6. ASSUME NEW i \in 1..Len(r)
      PROVE  /\ r[i] \in Unsized => \E j \in i+1..Len(r) : r[j] \in Sizings
             /\ r[i] \in Writings => \E j \in i+1..Len(r) : r[j] = "seen"
  <2>1. r[i] = c[i+1] /\ i+1 \in 1..n
    BY <1>1
  <2>2. r[i] \in Unsized => \E j \in i+1+1..n : c[j] \in Sizings
    BY <1>2, <2>1
  <2>3. r[i] \in Writings => \E j \in i+1+1..n : c[j] \in {"seen"}
    BY <1>2, <2>1
  <2>4. r[i] \in Unsized => \E j \in i+1..Len(r) : r[j] \in Sizings
    BY <1>5, <2>2
  <2>5. r[i] \in Writings => \E j \in i+1..Len(r) : r[j] \in {"seen"}
    BY <1>5, <2>3
  <2> QED
    BY <2>4, <2>5
<1>7. ASSUME NEW i \in 1..Len(r), NEW j \in 1..Len(r), i < j, r[i] \in Writings \union {"seen"}
      PROVE  r[j] \notin Resizing
  <2>1. r[i] = c[i+1] /\ r[j] = c[j+1] /\ i+1 \in 1..n /\ j+1 \in 1..n /\ i+1 < j+1
    BY <1>1, <1>7
  <2> QED
    BY <1>2, <1>7, <2>1
<1>8. r # <<>> => Fits(c[1], r[1])
  <2>1. r # <<>> => 1 \in 1..Len(r) /\ 1 \in 1..n-1
    BY <1>1
  <2> QED
    BY <1>1, <1>2, <2>1
<1> QED
  BY <1>3, <1>4, <1>6, <1>7, <1>8 DEF Rest, r

\* Two calls that are in order and fit make one that is.
LEMMA RestJoined ==
  ASSUME NEW s \in Seq(Steps), NEW u \in Seq(Steps), Rest(s), Rest(u),
         s # <<>> /\ u # <<>> => Fits(s[Len(s)], u[1]),
         ~Has(s, Writings \union {"seen"}) \/ ~Has(u, Resizing)
  PROVE  Rest(s \o u)
<1> DEFINE m == Len(s)
           n == Len(u)
           r == s \o u
<1>1. /\ r \in Seq(Steps) /\ Len(r) = m + n /\ m \in Nat /\ n \in Nat
      /\ \A i \in 1..m : r[i] = s[i]
      /\ \A i \in 1..n : r[m + i] = u[i]
      /\ (s = <<>> <=> m = 0) /\ (u = <<>> <=> n = 0)
  BY Joined
<1>2. /\ \A i \in 1..m-1 : Fits(s[i], s[i+1])
      /\ m > 0 => s[m] \notin Leading
      /\ \A i \in 1..m : s[i] \in Unsized => \E j \in i+1..m : s[j] \in Sizings
      /\ \A i \in 1..m : s[i] \in Writings => \E j \in i+1..m : s[j] = "seen"
      /\ \A i \in 1..m, j \in 1..m : i < j /\ s[i] \in Writings \union {"seen"} => s[j] \notin Resizing
  <2> USE DEF Rest
  <2> QED
    BY <1>1
<1>3. /\ \A i \in 1..n-1 : Fits(u[i], u[i+1])
      /\ n > 0 => u[n] \notin Leading
      /\ \A i \in 1..n : u[i] \in Unsized => \E j \in i+1..n : u[j] \in Sizings
      /\ \A i \in 1..n : u[i] \in Writings => \E j \in i+1..n : u[j] = "seen"
      /\ \A i \in 1..n, j \in 1..n : i < j /\ u[i] \in Writings \union {"seen"} => u[j] \notin Resizing
  <2> USE DEF Rest
  <2> QED
    BY <1>1
<1>4. m > 0 /\ n > 0 => Fits(s[m], u[1])
  BY <1>1
<1>5. \/ \A i \in 1..m : s[i] \notin Writings \union {"seen"}
      \/ \A i \in 1..n : u[i] \notin Resizing
  BY DEF Has
<1> HIDE DEF m, n, r
<1>6. ASSUME NEW i \in 1..Len(r)
      PROVE  \/ i \in 1..m /\ r[i] = s[i]
             \/ i - m \in 1..n /\ m + (i - m) = i /\ r[i] = u[i - m]
  <2>1. CASE i <= m
    BY <1>1, <2>1
  <2>2. CASE i > m
    <3>1. i - m \in 1..n /\ m + (i - m) = i
      BY <1>1, <2>2
    <3> QED
      BY <1>1, <3>1
  <2> QED
    BY <1>1, <2>1, <2>2
<1>7. ASSUME NEW i \in 1..Len(r)-1 PROVE Fits(r[i], r[i+1])
  <2>1. CASE i < m
    <3>1. i \in 1..m-1 /\ i \in 1..m /\ i+1 \in 1..m
      BY <1>1, <2>1
    <3> QED
      BY <1>1, <1>2, <3>1
  <2>2. CASE i = m
    <3>1. m > 0 /\ n > 0 /\ m \in 1..m /\ 1 \in 1..n
      BY <1>1, <2>2
    <3> QED
      BY <1>1, <1>4, <2>2, <3>1
  <2>3. CASE i > m
    <3> DEFINE k == i - m
    <3>1. k \in 1..n-1 /\ k \in 1..n /\ k+1 \in 1..n /\ m + k = i /\ m + (k+1) = i+1
      BY <1>1, <2>3
    <3> HIDE DEF k
    <3>2. r[m + k] = u[k] /\ r[m + (k+1)] = u[k+1]
      BY <1>1, <3>1
    <3> QED
      BY <1>3, <3>1, <3>2
  <2> QED
    BY <1>1, <2>1, <2>2, <2>3
<1>8. r # <<>> => r[Len(r)] \notin Leading
  <2>1. CASE n > 0
    <3>1. n \in 1..n
      BY <1>1, <2>1
    <3> QED
      BY <1>1, <1>3, <2>1, <3>1
  <2>2. CASE n = 0 /\ m > 0
    <3>1. m \in 1..m /\ Len(r) = m
      BY <1>1, <2>2
    <3> QED
      BY <1>1, <1>2, <2>2, <3>1
  <2>3. CASE n = 0 /\ m = 0
    <3>1. Len(r) = 0
      BY <1>1, <2>3
    <3> QED
      BY <1>1, <3>1
  <2> QED
    BY <1>1, <2>1, <2>2, <2>3
<1>9. ASSUME NEW S, NEW T,
             \A k \in 1..m : s[k] \in S => \E j \in k+1..m : s[j] \in T,
             \A k \in 1..n : u[k] \in S => \E j \in k+1..n : u[j] \in T,
             NEW i \in 1..Len(r), r[i] \in S
      PROVE  \E j \in i+1..Len(r) : r[j] \in T
  <2>1. CASE i \in 1..m /\ r[i] = s[i]
    <3>1. PICK j \in i+1..m : s[j] \in T
      BY <1>9, <2>1
    <3>2. j \in 1..m /\ j \in i+1..Len(r)
      BY <1>1, <2>1, <3>1
    <3>3. r[j] = s[j]
      BY <1>1, <3>2
    <3> QED
      BY <3>1, <3>2, <3>3
  <2>2. CASE i - m \in 1..n /\ r[i] = u[i - m]
    <3>1. PICK j \in i-m+1..n : u[j] \in T
      BY <1>9, <2>2
    <3>2. j \in 1..n /\ m + j \in i+1..Len(r)
      BY <1>1, <2>2, <3>1
    <3>3. r[m + j] = u[j]
      BY <1>1, <3>2
    <3> QED
      BY <3>1, <3>2, <3>3
  <2> QED
    BY <1>6, <1>9, <2>1, <2>2
<1>10. \A i \in 1..Len(r) : r[i] \in Unsized => \E j \in i+1..Len(r) : r[j] \in Sizings
  BY <1>2, <1>3, <1>9
<1>11. \A i \in 1..Len(r) : r[i] \in Writings => \E j \in i+1..Len(r) : r[j] = "seen"
  <2>1. /\ \A k \in 1..m : s[k] \in Writings => \E j \in k+1..m : s[j] \in {"seen"}
        /\ \A k \in 1..n : u[k] \in Writings => \E j \in k+1..n : u[j] \in {"seen"}
    BY <1>2, <1>3
  <2>2. \A i \in 1..Len(r) : r[i] \in Writings => \E j \in i+1..Len(r) : r[j] \in {"seen"}
    BY <1>9, <2>1
  <2> QED
    BY <2>2
<1>12. ASSUME NEW i \in 1..Len(r), NEW j \in 1..Len(r), i < j, r[i] \in Writings \union {"seen"}
       PROVE  r[j] \notin Resizing
  <2>1. CASE j \in 1..m /\ r[j] = s[j]
    <3>1. i \in 1..m
      BY <1>1, <1>12, <2>1
    <3> QED
      BY <1>1, <1>2, <1>12, <2>1, <3>1
  <2>2. CASE i \in 1..m /\ r[i] = s[i] /\ j - m \in 1..n /\ r[j] = u[j - m]
    BY <1>5, <1>12, <2>2
  <2>3. CASE i - m \in 1..n /\ r[i] = u[i - m] /\ j - m \in 1..n /\ r[j] = u[j - m]
    <3>1. i - m < j - m
      BY <1>1, <1>12
    <3> QED
      BY <1>3, <1>12, <2>3, <3>1
  <2>4. /\ (i \in 1..m /\ r[i] = s[i]) \/ (i - m \in 1..n /\ r[i] = u[i - m])
        /\ (j \in 1..m /\ r[j] = s[j]) \/ (j - m \in 1..n /\ r[j] = u[j - m])
    BY <1>6, <1>12
  <2> QED
    BY <2>1, <2>2, <2>3, <2>4
<1> QED
  BY <1>7, <1>8, <1>10, <1>11, <1>12 DEF Rest, r

(* The calls are in order, and so is what a step puts in. *)

\* Advancing a frame.
LEMMA FrameSteps ==
  /\ nextFrame \in Seq(Steps) /\ Len(nextFrame) = 4
  /\ nextFrame[1] = "need" /\ nextFrame[2] = "seen" /\ nextFrame[3] = "timing" /\ nextFrame[4] = "sound"
  /\ Rest(nextFrame)
<1> DEFINE r == nextFrame
<1>1. /\ r \in Seq(Steps) /\ Len(r) = 4
      /\ r[1] = "need" /\ r[2] = "seen" /\ r[3] = "timing" /\ r[4] = "sound"
  BY DEF nextFrame, Steps
<1> HIDE DEF r
<1>2. \A i \in 1..Len(r)-1 : Fits(r[i], r[i+1])
  BY <1>1 DEF Fits
<1>3. r[Len(r)] \notin Leading
  BY <1>1 DEF Leading
<1>4. \A i \in 1..Len(r) : r[i] \notin Unsized
  BY <1>1 DEF Unsized
<1>5. \A i \in 1..Len(r) : r[i] \notin Writings
  BY <1>1 DEF Writings
<1>6. \A i \in 1..Len(r) : r[i] \notin Resizing
  BY <1>1 DEF Resizing, Sizings
<1> QED
  BY <1>1, <1>2, <1>3, <1>4, <1>5, <1>6 DEF Rest, r

\* A picture that is presented.
LEMMA PresentSteps ==
  /\ Present \in Seq(Steps) /\ Len(Present) = 8 /\ Rest(Present)
  /\ Present[1] = "need" /\ Present[8] = "sound"
<1> DEFINE r == Present
<1>1. /\ r \in Seq(Steps) /\ Len(r) = 8
      /\ r[1] = "need" /\ r[2] = "enterData" /\ r[3] = "write" /\ r[4] = "leaveData"
      /\ r[5] = "need" /\ r[6] = "seen" /\ r[7] = "timing" /\ r[8] = "sound"
  <2> DEFINE a == <<"need", "enterData", "write", "leaveData">>
             b == nextFrame
  <2>1. /\ a \in Seq(Steps) /\ Len(a) = 4
        /\ a[1] = "need" /\ a[2] = "enterData" /\ a[3] = "write" /\ a[4] = "leaveData"
    BY DEF Steps
  <2>2. /\ b \in Seq(Steps) /\ Len(b) = 4
        /\ b[1] = "need" /\ b[2] = "seen" /\ b[3] = "timing" /\ b[4] = "sound"
    BY FrameSteps DEF Present
  <2>3. r = a \o b
    BY FrameSteps DEF Present
  <2> HIDE DEF a, b, r
  <2>4. /\ r \in Seq(Steps) /\ Len(r) = 8
        /\ r[1] = "need" /\ r[2] = "enterData" /\ r[3] = "write" /\ r[4] = "leaveData"
        /\ r[5] = "need" /\ r[6] = "seen" /\ r[7] = "timing" /\ r[8] = "sound"
    <3> DEFINE z == a \o b
    <3>1. /\ z \in Seq(Steps) /\ Len(z) = Len(a) + Len(b)
          /\ \A i \in 1..Len(a) : z[i] = a[i]
          /\ \A i \in 1..Len(b) : z[Len(a) + i] = b[i]
      BY <2>1, <2>2, Joined
    <3>2. r = z
      BY <2>3
    <3> HIDE DEF z
    <3> QED
      BY <3>2, <3>1, <2>1, <2>2
  <2> QED
    BY <2>4
<1> HIDE DEF r
<1>2. \A i \in 1..Len(r)-1 : Fits(r[i], r[i+1])
  BY <1>1 DEF Fits
<1>3. r[Len(r)] \notin Leading
  BY <1>1 DEF Leading
<1>4. \A i \in 1..Len(r) : r[i] \notin Unsized
  BY <1>1 DEF Unsized
<1>5. \A i \in 1..Len(r) : r[i] \in Writings => \E j \in i+1..Len(r) : r[j] = "seen"
  BY <1>1 DEF Writings
<1>6. \A i \in 1..Len(r) : r[i] \notin Resizing
  BY <1>1 DEF Resizing, Sizings
<1> QED
  BY <1>1, <1>2, <1>3, <1>4, <1>5, <1>6 DEF Rest, r

\* A picture that is written again.
LEMMA SkipSteps ==
  /\ skipFrame \in Seq(Steps) /\ Len(skipFrame) = 8 /\ Rest(skipFrame)
  /\ skipFrame[1] = "need" /\ skipFrame[8] = "sound"
<1> DEFINE r == skipFrame
<1>1. /\ r \in Seq(Steps) /\ Len(r) = 8
      /\ r[1] = "need" /\ r[2] = "enterData" /\ r[3] = "writeAgain" /\ r[4] = "leaveData"
      /\ r[5] = "need" /\ r[6] = "seen" /\ r[7] = "timing" /\ r[8] = "sound"
  <2> DEFINE a == <<"need", "enterData", "writeAgain", "leaveData">>
             b == nextFrame
  <2>1. /\ a \in Seq(Steps) /\ Len(a) = 4
        /\ a[1] = "need" /\ a[2] = "enterData" /\ a[3] = "writeAgain" /\ a[4] = "leaveData"
    BY DEF Steps
  <2>2. /\ b \in Seq(Steps) /\ Len(b) = 4
        /\ b[1] = "need" /\ b[2] = "seen" /\ b[3] = "timing" /\ b[4] = "sound"
    BY FrameSteps DEF skipFrame
  <2>3. r = a \o b
    BY FrameSteps DEF skipFrame
  <2> HIDE DEF a, b, r
  <2>4. /\ r \in Seq(Steps) /\ Len(r) = 8
        /\ r[1] = "need" /\ r[2] = "enterData" /\ r[3] = "writeAgain" /\ r[4] = "leaveData"
        /\ r[5] = "need" /\ r[6] = "seen" /\ r[7] = "timing" /\ r[8] = "sound"
    <3> DEFINE z == a \o b
    <3>1. /\ z \in Seq(Steps) /\ Len(z) = Len(a) + Len(b)
          /\ \A i \in 1..Len(a) : z[i] = a[i]
          /\ \A i \in 1..Len(b) : z[Len(a) + i] = b[i]
      BY <2>1, <2>2, Joined
    <3>2. r = z
      BY <2>3
    <3> HIDE DEF z
    <3> QED
      BY <3>2, <3>1, <2>1, <2>2
  <2> QED
    BY <2>4
<1> HIDE DEF r
<1>2. \A i \in 1..Len(r)-1 : Fits(r[i], r[i+1])
  BY <1>1 DEF Fits
<1>3. r[Len(r)] \notin Leading
  BY <1>1 DEF Leading
<1>4. \A i \in 1..Len(r) : r[i] \notin Unsized
  BY <1>1 DEF Unsized
<1>5. \A i \in 1..Len(r) : r[i] \in Writings => \E j \in i+1..Len(r) : r[j] = "seen"
  BY <1>1 DEF Writings
<1>6. \A i \in 1..Len(r) : r[i] \notin Resizing
  BY <1>1 DEF Resizing, Sizings
<1> QED
  BY <1>1, <1>2, <1>3, <1>4, <1>5, <1>6 DEF Rest, r

\* A size that is announced.
LEMMA ResolutionSteps ==
  /\ setCaptureResolution \in Seq(Steps) /\ Len(setCaptureResolution) = 2
  /\ setCaptureResolution[1] = "need" /\ setCaptureResolution[2] = "resolution"
  /\ Rest(setCaptureResolution)
<1> DEFINE r == setCaptureResolution
<1>1. /\ r \in Seq(Steps) /\ Len(r) = 2
      /\ r[1] = "need" /\ r[2] = "resolution"
  BY DEF setCaptureResolution, Steps
<1> HIDE DEF r
<1>2. \A i \in 1..Len(r)-1 : Fits(r[i], r[i+1])
  BY <1>1 DEF Fits
<1>3. r[Len(r)] \notin Leading
  BY <1>1 DEF Leading
<1>4. \A i \in 1..Len(r) : r[i] \notin Unsized
  BY <1>1 DEF Unsized
<1>5. \A i \in 1..Len(r) : r[i] \notin Writings
  BY <1>1 DEF Writings
<1>6. \A i \in 1..Len(r) : r[i] \notin Writings \union {"seen"}
  BY <1>1 DEF Writings
<1> QED
  BY <1>1, <1>2, <1>3, <1>4, <1>5, <1>6 DEF Rest, r

\* A picture that OpenGL swaps in, whose size is announced first.
LEMMA SwapSteps ==
  /\ SwapBuffers \in Seq(Steps) /\ Len(SwapBuffers) = 10 /\ Rest(SwapBuffers)
  /\ SwapBuffers[1] = "need" /\ SwapBuffers[10] = "sound"
<1> DEFINE r == SwapBuffers
<1>1. /\ r \in Seq(Steps) /\ Len(r) = 10
      /\ r[1] = "need" /\ r[2] = "need" /\ r[3] = "resolution" /\ r[4] = "enterData"
      /\ r[5] = "writeAgain" /\ r[6] = "leaveData" /\ r[7] = "need" /\ r[8] = "seen"
      /\ r[9] = "timing" /\ r[10] = "sound"
  <2> DEFINE a == <<"need">>
             b == setCaptureResolution
             c == <<"enterData", "writeAgain", "leaveData">>
             d == nextFrame
             ab == a \o b
             abc == ab \o c
  <2>1. /\ a \in Seq(Steps) /\ Len(a) = 1
        /\ a[1] = "need"
    BY DEF Steps
  <2>2. /\ b \in Seq(Steps) /\ Len(b) = 2
        /\ b[1] = "need" /\ b[2] = "resolution"
    BY FrameSteps, ResolutionSteps DEF SwapBuffers
  <2>3. /\ c \in Seq(Steps) /\ Len(c) = 3
        /\ c[1] = "enterData" /\ c[2] = "writeAgain" /\ c[3] = "leaveData"
    BY DEF Steps
  <2>4. /\ d \in Seq(Steps) /\ Len(d) = 4
        /\ d[1] = "need" /\ d[2] = "seen" /\ d[3] = "timing" /\ d[4] = "sound"
    BY FrameSteps, ResolutionSteps DEF SwapBuffers
  <2>5. r = abc \o d
    BY FrameSteps, ResolutionSteps DEF SwapBuffers
  <2> HIDE DEF a, b, c, d, r
  <2>6. /\ ab \in Seq(Steps) /\ Len(ab) = 3
        /\ ab[1] = "need" /\ ab[2] = "need" /\ ab[3] = "resolution"
    <3>1. /\ ab \in Seq(Steps) /\ Len(ab) = Len(a) + Len(b)
          /\ \A i \in 1..Len(a) : ab[i] = a[i]
          /\ \A i \in 1..Len(b) : ab[Len(a) + i] = b[i]
      BY <2>1, <2>2, Joined
    <3> HIDE DEF ab
    <3> QED
      BY <3>1, <2>1, <2>2
  <2> HIDE DEF ab
  <2>7. /\ abc \in Seq(Steps) /\ Len(abc) = 6
        /\ abc[1] = "need" /\ abc[2] = "need" /\ abc[3] = "resolution" /\ abc[4] = "enterData"
        /\ abc[5] = "writeAgain" /\ abc[6] = "leaveData"
    <3>1. /\ abc \in Seq(Steps) /\ Len(abc) = Len(ab) + Len(c)
          /\ \A i \in 1..Len(ab) : abc[i] = ab[i]
          /\ \A i \in 1..Len(c) : abc[Len(ab) + i] = c[i]
      BY <2>6, <2>3, Joined
    <3> HIDE DEF abc
    <3> QED
      BY <3>1, <2>6, <2>3
  <2> HIDE DEF abc
  <2>8. /\ r \in Seq(Steps) /\ Len(r) = 10
        /\ r[1] = "need" /\ r[2] = "need" /\ r[3] = "resolution" /\ r[4] = "enterData"
        /\ r[5] = "writeAgain" /\ r[6] = "leaveData" /\ r[7] = "need" /\ r[8] = "seen"
        /\ r[9] = "timing" /\ r[10] = "sound"
    <3> DEFINE z == abc \o d
    <3>1. /\ z \in Seq(Steps) /\ Len(z) = Len(abc) + Len(d)
          /\ \A i \in 1..Len(abc) : z[i] = abc[i]
          /\ \A i \in 1..Len(d) : z[Len(abc) + i] = d[i]
      BY <2>7, <2>4, Joined
    <3>2. r = z
      BY <2>5
    <3> HIDE DEF z
    <3> QED
      BY <3>2, <3>1, <2>7, <2>4
  <2> QED
    BY <2>8
<1> HIDE DEF r
<1>2. \A i \in 1..Len(r)-1 : Fits(r[i], r[i+1])
  BY <1>1 DEF Fits
<1>3. r[Len(r)] \notin Leading
  BY <1>1 DEF Leading
<1>4. \A i \in 1..Len(r) : r[i] \notin Unsized
  BY <1>1 DEF Unsized
<1>5. \A i \in 1..Len(r) : r[i] \in Writings => \E j \in i+1..Len(r) : r[j] = "seen"
  BY <1>1 DEF Writings
<1>6. \A i \in 1..Len(r), j \in 1..Len(r) : i < j /\ r[i] \in Writings \union {"seen"} => r[j] \notin Resizing
  BY <1>1 DEF Writings, Resizing, Sizings
<1> QED
  BY <1>1, <1>2, <1>3, <1>4, <1>5, <1>6 DEF Rest, r

\* A new part for a new device.
LEMMA NextPartSteps ==
  /\ videoStartNextPart(TRUE) \in Seq(Steps) /\ Len(videoStartNextPart(TRUE)) = 7
  /\ videoStartNextPart(TRUE)[1] = "need" /\ videoStartNextPart(TRUE)[2] = "getFormat" /\ videoStartNextPart(TRUE)[3] = "delete" /\ videoStartNextPart(TRUE)[4] = "nextPart"
  /\ videoStartNextPart(TRUE)[5] = "createPart" /\ videoStartNextPart(TRUE)[6] = "autoSize" /\ videoStartNextPart(TRUE)[7] = "resumeSound"
  /\ Rest(videoStartNextPart(TRUE))
<1> DEFINE r == videoStartNextPart(TRUE)
<1>1. /\ r \in Seq(Steps) /\ Len(r) = 7
      /\ r[1] = "need" /\ r[2] = "getFormat" /\ r[3] = "delete" /\ r[4] = "nextPart"
      /\ r[5] = "createPart" /\ r[6] = "autoSize" /\ r[7] = "resumeSound"
  <2> DEFINE a == <<"need", "getFormat", "delete", "nextPart", "createPart">>
             b == <<"autoSize">>
             c == <<"resumeSound">>
             ab == a \o b
  <2>1. /\ a \in Seq(Steps) /\ Len(a) = 5
        /\ a[1] = "need" /\ a[2] = "getFormat" /\ a[3] = "delete" /\ a[4] = "nextPart"
        /\ a[5] = "createPart"
    BY DEF Steps
  <2>2. /\ b \in Seq(Steps) /\ Len(b) = 1
        /\ b[1] = "autoSize"
    BY DEF Steps
  <2>3. /\ c \in Seq(Steps) /\ Len(c) = 1
        /\ c[1] = "resumeSound"
    BY DEF Steps
  <2>4. r = ab \o c
    BY DEF videoStartNextPart
  <2> HIDE DEF a, b, c, r
  <2>5. /\ ab \in Seq(Steps) /\ Len(ab) = 6
        /\ ab[1] = "need" /\ ab[2] = "getFormat" /\ ab[3] = "delete" /\ ab[4] = "nextPart"
        /\ ab[5] = "createPart" /\ ab[6] = "autoSize"
    <3>1. /\ ab \in Seq(Steps) /\ Len(ab) = Len(a) + Len(b)
          /\ \A i \in 1..Len(a) : ab[i] = a[i]
          /\ \A i \in 1..Len(b) : ab[Len(a) + i] = b[i]
      BY <2>1, <2>2, Joined
    <3> HIDE DEF ab
    <3> QED
      BY <3>1, <2>1, <2>2
  <2> HIDE DEF ab
  <2>6. /\ r \in Seq(Steps) /\ Len(r) = 7
        /\ r[1] = "need" /\ r[2] = "getFormat" /\ r[3] = "delete" /\ r[4] = "nextPart"
        /\ r[5] = "createPart" /\ r[6] = "autoSize" /\ r[7] = "resumeSound"
    <3> DEFINE z == ab \o c
    <3>1. /\ z \in Seq(Steps) /\ Len(z) = Len(ab) + Len(c)
          /\ \A i \in 1..Len(ab) : z[i] = ab[i]
          /\ \A i \in 1..Len(c) : z[Len(ab) + i] = c[i]
      BY <2>5, <2>3, Joined
    <3>2. r = z
      BY <2>4
    <3> HIDE DEF z
    <3> QED
      BY <3>2, <3>1, <2>5, <2>3
  <2> QED
    BY <2>6
<1> HIDE DEF r
<1>2. \A i \in 1..Len(r)-1 : Fits(r[i], r[i+1])
  BY <1>1 DEF Fits
<1>3. r[Len(r)] \notin Leading
  BY <1>1 DEF Leading
<1>4. \A i \in 1..Len(r) : r[i] \in Unsized => \E j \in i+1..Len(r) : r[j] \in Sizings
  BY <1>1 DEF Unsized, Sizings
<1>5. \A i \in 1..Len(r) : r[i] \notin Writings
  BY <1>1 DEF Writings
<1>6. \A i \in 1..Len(r) : r[i] \notin Writings \union {"seen"}
  BY <1>1 DEF Writings
<1> QED
  BY <1>1, <1>2, <1>3, <1>4, <1>5, <1>6 DEF Rest, r

\* What setCaptureResolution puts in for a new size.
NewBuffer == <<"destroyBuffer", "initBuffer", "setSize">>

\* A new buffer.
LEMMA BufferSteps ==
  /\ NewBuffer \in Seq(Steps) /\ Len(NewBuffer) = 3 /\ Rest(NewBuffer)
  /\ NewBuffer[1] = "destroyBuffer" /\ NewBuffer[3] = "setSize"
  /\ ~Has(NewBuffer, Writings \union {"seen"})
<1> DEFINE r == NewBuffer
<1>1. /\ r \in Seq(Steps) /\ Len(r) = 3
      /\ r[1] = "destroyBuffer" /\ r[2] = "initBuffer" /\ r[3] = "setSize"
  BY DEF NewBuffer, Steps
<1> HIDE DEF r
<1>2. \A i \in 1..Len(r)-1 : Fits(r[i], r[i+1])
  BY <1>1 DEF Fits
<1>3. r[Len(r)] \notin Leading
  BY <1>1 DEF Leading
<1>4. \A i \in 1..Len(r) : r[i] \in Unsized => \E j \in i+1..Len(r) : r[j] \in Sizings
  BY <1>1 DEF Unsized, Sizings
<1>5. \A i \in 1..Len(r) : r[i] \notin Writings
  BY <1>1 DEF Writings
<1>6. \A i \in 1..Len(r) : r[i] \notin Writings \union {"seen"}
  BY <1>1 DEF Writings
<1>7. ~Has(r, Writings \union {"seen"})
  BY <1>1 DEF Has, Writings
<1> QED
  BY <1>1, <1>2, <1>3, <1>4, <1>5, <1>6, <1>7 DEF Rest, r

\* What a new size puts in when the last part has been seen.
NewPart == videoStartNextPart(FALSE) \o <<"destroyBuffer", "initBuffer", "setSize">>

\* A new part with a new buffer.
LEMMA NewPartSteps ==
  /\ NewPart \in Seq(Steps) /\ Len(NewPart) = 9 /\ Rest(NewPart)
  /\ NewPart[1] = "need" /\ NewPart[9] = "setSize"
  /\ ~Has(NewPart, Writings \union {"seen"})
<1> DEFINE r == NewPart
<1>1. /\ r \in Seq(Steps) /\ Len(r) = 9
      /\ r[1] = "need" /\ r[2] = "getFormat" /\ r[3] = "delete" /\ r[4] = "nextPart"
      /\ r[5] = "createPart" /\ r[6] = "resumeSound" /\ r[7] = "destroyBuffer" /\ r[8] = "initBuffer"
      /\ r[9] = "setSize"
  <2> DEFINE a == <<"need", "getFormat", "delete", "nextPart", "createPart">>
             b == <<"resumeSound">>
             c == <<"destroyBuffer", "initBuffer", "setSize">>
             ab == a \o b
  <2>1. /\ a \in Seq(Steps) /\ Len(a) = 5
        /\ a[1] = "need" /\ a[2] = "getFormat" /\ a[3] = "delete" /\ a[4] = "nextPart"
        /\ a[5] = "createPart"
    BY DEF Steps
  <2>2. /\ b \in Seq(Steps) /\ Len(b) = 1
        /\ b[1] = "resumeSound"
    BY DEF Steps
  <2>3. /\ c \in Seq(Steps) /\ Len(c) = 3
        /\ c[1] = "destroyBuffer" /\ c[2] = "initBuffer" /\ c[3] = "setSize"
    BY DEF Steps
  <2>4. r = ab \o c
    BY DEF videoStartNextPart, NewPart
  <2> HIDE DEF a, b, c, r
  <2>5. /\ ab \in Seq(Steps) /\ Len(ab) = 6
        /\ ab[1] = "need" /\ ab[2] = "getFormat" /\ ab[3] = "delete" /\ ab[4] = "nextPart"
        /\ ab[5] = "createPart" /\ ab[6] = "resumeSound"
    <3>1. /\ ab \in Seq(Steps) /\ Len(ab) = Len(a) + Len(b)
          /\ \A i \in 1..Len(a) : ab[i] = a[i]
          /\ \A i \in 1..Len(b) : ab[Len(a) + i] = b[i]
      BY <2>1, <2>2, Joined
    <3> HIDE DEF ab
    <3> QED
      BY <3>1, <2>1, <2>2
  <2> HIDE DEF ab
  <2>6. /\ r \in Seq(Steps) /\ Len(r) = 9
        /\ r[1] = "need" /\ r[2] = "getFormat" /\ r[3] = "delete" /\ r[4] = "nextPart"
        /\ r[5] = "createPart" /\ r[6] = "resumeSound" /\ r[7] = "destroyBuffer" /\ r[8] = "initBuffer"
        /\ r[9] = "setSize"
    <3> DEFINE z == ab \o c
    <3>1. /\ z \in Seq(Steps) /\ Len(z) = Len(ab) + Len(c)
          /\ \A i \in 1..Len(ab) : z[i] = ab[i]
          /\ \A i \in 1..Len(c) : z[Len(ab) + i] = c[i]
      BY <2>5, <2>3, Joined
    <3>2. r = z
      BY <2>4
    <3> HIDE DEF z
    <3> QED
      BY <3>2, <3>1, <2>5, <2>3
  <2> QED
    BY <2>6
<1> HIDE DEF r
<1>2. \A i \in 1..Len(r)-1 : Fits(r[i], r[i+1])
  BY <1>1 DEF Fits
<1>3. r[Len(r)] \notin Leading
  BY <1>1 DEF Leading
<1>4. \A i \in 1..Len(r) : r[i] \in Unsized => \E j \in i+1..Len(r) : r[j] \in Sizings
  BY <1>1 DEF Unsized, Sizings
<1>5. \A i \in 1..Len(r) : r[i] \notin Writings
  BY <1>1 DEF Writings
<1>6. \A i \in 1..Len(r) : r[i] \notin Writings \union {"seen"}
  BY <1>1 DEF Writings
<1>7. ~Has(r, Writings \union {"seen"})
  BY <1>1 DEF Has, Writings
<1> QED
  BY <1>1, <1>2, <1>3, <1>4, <1>5, <1>6, <1>7 DEF Rest, r

\* The clean exit.
LEMMA ExitSteps ==
  ASSUME initialized
  PROVE  /\ Mine_ExitProcess \in Seq(Steps) /\ Len(Mine_ExitProcess) = 6 /\ Rest(Mine_ExitProcess)
         /\ Mine_ExitProcess[1] = "enterShutdown" /\ Mine_ExitProcess[6] = "terminate"
         /\ ~Has(Mine_ExitProcess, Writings \union {"seen"}) /\ ~Has(Mine_ExitProcess, Resizing)
<1> DEFINE r == Mine_ExitProcess
<1>1. /\ r \in Seq(Steps) /\ Len(r) = 6
      /\ r[1] = "enterShutdown" /\ r[2] = "takeEncoder" /\ r[3] = "deleteEncoder" /\ r[4] = "doneVideo"
      /\ r[5] = "leaveShutdown" /\ r[6] = "terminate"
  <2> DEFINE a == <<"enterShutdown", "takeEncoder", "deleteEncoder", "doneVideo", "leaveShutdown">>
             b == <<"terminate">>
  <2>1. /\ a \in Seq(Steps) /\ Len(a) = 5
        /\ a[1] = "enterShutdown" /\ a[2] = "takeEncoder" /\ a[3] = "deleteEncoder" /\ a[4] = "doneVideo"
        /\ a[5] = "leaveShutdown"
    BY DEF Steps
  <2>2. /\ b \in Seq(Steps) /\ Len(b) = 1
        /\ b[1] = "terminate"
    BY DEF Steps
  <2>3. r = a \o b
    BY DEF Mine_ExitProcess
  <2> HIDE DEF a, b, r
  <2>4. /\ r \in Seq(Steps) /\ Len(r) = 6
        /\ r[1] = "enterShutdown" /\ r[2] = "takeEncoder" /\ r[3] = "deleteEncoder" /\ r[4] = "doneVideo"
        /\ r[5] = "leaveShutdown" /\ r[6] = "terminate"
    <3> DEFINE z == a \o b
    <3>1. /\ z \in Seq(Steps) /\ Len(z) = Len(a) + Len(b)
          /\ \A i \in 1..Len(a) : z[i] = a[i]
          /\ \A i \in 1..Len(b) : z[Len(a) + i] = b[i]
      BY <2>1, <2>2, Joined
    <3>2. r = z
      BY <2>3
    <3> HIDE DEF z
    <3> QED
      BY <3>2, <3>1, <2>1, <2>2
  <2> QED
    BY <2>4
<1> HIDE DEF r
<1>2. \A i \in 1..Len(r)-1 : Fits(r[i], r[i+1])
  BY <1>1 DEF Fits
<1>3. r[Len(r)] \notin Leading
  BY <1>1 DEF Leading
<1>4. \A i \in 1..Len(r) : r[i] \notin Unsized
  BY <1>1 DEF Unsized
<1>5. \A i \in 1..Len(r) : r[i] \notin Writings
  BY <1>1 DEF Writings
<1>6. \A i \in 1..Len(r) : r[i] \notin Resizing
  BY <1>1 DEF Resizing, Sizings
<1>7. ~Has(r, Writings \union {"seen"}) /\ ~Has(r, Resizing)
  BY <1>1, <1>6 DEF Has, Writings
<1> QED
  BY <1>1, <1>2, <1>3, <1>4, <1>5, <1>6, <1>7 DEF Rest, r

\* ExitProcess after the end of the capture only terminates.
LEMMA LateExitSteps ==
  ASSUME ~initialized
  PROVE  Mine_ExitProcess = <<"terminate">>
BY DEF Mine_ExitProcess

\* A call of one step that needs none behind it.
LEMMA OneStep ==
  ASSUME NEW a \in Steps \ (Leading \union Writings \union Unsized)
  PROVE  <<a>> \in Seq(Steps) /\ Len(<<a>>) = 1 /\ <<a>>[1] = a /\ Rest(<<a>>)
<1> DEFINE r == <<a>>
<1>1. r \in Seq(Steps) /\ Len(r) = 1 /\ r[1] = a
  OBVIOUS
<1> HIDE DEF r
<1>2. \A i \in 1..Len(r)-1 : FALSE
  BY <1>1
<1>3. \A i \in 1..Len(r) : i = 1
  BY <1>1
<1>4. \A i \in 1..Len(r), j \in 1..Len(r) : ~(i < j)
  BY <1>3
<1> QED
  BY <1>1, <1>2, <1>3, <1>4 DEF Rest, r

\* A call that is over.
LEMMA NoSteps == <<>> \in Seq(Steps) /\ Rest(<<>>) /\ \A S : ~Has(<<>>, S)
<1> DEFINE r == <<>>
<1>1. r \in Seq(Steps) /\ Len(r) = 0 /\ r = <<>>
  OBVIOUS
<1> HIDE DEF r
<1>2. \A i \in Int : i \notin 1..Len(r)-1 /\ i \notin 1..Len(r)
  BY <1>1
<1> QED
  BY <1>1, <1>2 DEF Rest, Has

\* The exit of an encoder that is there, and the late one.
LEMMA ExitStepsEither ==
  /\ Mine_ExitProcess \in Seq(Steps) /\ Rest(Mine_ExitProcess) /\ Mine_ExitProcess # <<>>
  /\ Mine_ExitProcess[1] = IF initialized THEN "enterShutdown" ELSE "terminate"
  /\ Mine_ExitProcess[Len(Mine_ExitProcess)] = "terminate"
<1>1. CASE initialized
  <2> DEFINE r == Mine_ExitProcess
  <2>1. r \in Seq(Steps) /\ Rest(r) /\ Len(r) = 6 /\ r[1] = "enterShutdown" /\ r[6] = "terminate"
    BY <1>1, ExitSteps
  <2> HIDE DEF r
  <2>2. r # <<>> /\ r[Len(r)] = "terminate"
    BY <2>1
  <2> QED
    BY <1>1, <2>1, <2>2 DEF r
<1>2. CASE ~initialized
  <2> DEFINE r == <<"terminate">>
  <2>1. r \in Seq(Steps) /\ Rest(r) /\ Len(r) = 1 /\ r[1] = "terminate"
    <3>1. "terminate" \in Steps \ (Leading \union Writings \union Unsized)
      BY DEF Steps, Leading, Writings, Unsized
    <3> QED
      BY <3>1, OneStep
  <2>2. Mine_ExitProcess = r
    BY <1>2, LateExitSteps
  <2> HIDE DEF r
  <2>3. r # <<>> /\ r[Len(r)] = "terminate"
    BY <2>1
  <2> QED
    BY <1>2, <2>1, <2>2, <2>3
<1> QED
  BY <1>1, <1>2

\* What may follow a step that nothing waits for may follow another one.
LEMMA MayFollow ==
  ASSUME NEW a, NEW b, NEW x, Fits(a, x), {a, b} \intersect Leading = {}, a # "resumeSound"
  PROVE  Fits(b, x)
BY DEF Fits, Leading

\* Reset of a device: its size, then the next part.
LEMMA ResetSteps == Reset \in Seq(Steps) /\ Reset # <<>> /\ Reset[1] = "need" /\ Rest(Reset)
<1> DEFINE a == setCaptureResolution
           b == videoStartNextPart(TRUE)
           r == a \o b
<1>1. Reset = r
  BY DEF Reset
<1>2. a \in Seq(Steps) /\ Len(a) = 2 /\ a[1] = "need" /\ a[2] = "resolution" /\ Rest(a)
  BY ResolutionSteps
<1>3. b \in Seq(Steps) /\ b[1] = "need" /\ Rest(b)
  BY NextPartSteps
<1> HIDE DEF a, b
<1>4. Rest(r)
  <2>1. Fits(a[Len(a)], b[1])
    BY <1>2, <1>3 DEF Fits
  <2>2. ~Has(a, Writings \union {"seen"})
    BY <1>2 DEF Has, Writings
  <2> QED
    BY <1>2, <1>3, <2>1, <2>2, RestJoined
<1>5. /\ r \in Seq(Steps) /\ Len(r) = Len(a) + Len(b) /\ Len(b) \in Nat
      /\ \A i \in 1..Len(a) : r[i] = a[i]
  BY <1>2, <1>3, Joined
<1> HIDE DEF r
<1>6. r[1] = "need" /\ r # <<>>
  BY <1>2, <1>5
<1> QED
  BY <1>1, <1>4, <1>5, <1>6

\* CreateDevice: the next part unless it is the first, the size, the watchdog.
LEMMA CreateDeviceSteps ==
  CreateDevice \in Seq(Steps) /\ CreateDevice # <<>> /\ CreateDevice[1] = "need" /\ Rest(CreateDevice)
<1> DEFINE a == IF firstCreate THEN <<>> ELSE videoStartNextPart(TRUE)
           b == setCaptureResolution
           ab == a \o b
           c == <<"arm">>
           r == ab \o c
<1>1. CreateDevice = r
  BY DEF CreateDevice
<1>2. /\ a \in Seq(Steps) /\ Rest(a) /\ ~Has(a, Writings \union {"seen"})
      /\ a # <<>> => a[1] = "need" /\ a[Len(a)] = "resumeSound"
  <2>1. CASE firstCreate
    BY <2>1, NoSteps
  <2>2. CASE ~firstCreate
    <3> DEFINE p == videoStartNextPart(TRUE)
    <3>1. /\ p \in Seq(Steps) /\ Rest(p) /\ Len(p) = 7
          /\ p[1] = "need" /\ p[2] = "getFormat" /\ p[3] = "delete" /\ p[4] = "nextPart"
          /\ p[5] = "createPart" /\ p[6] = "autoSize" /\ p[7] = "resumeSound"
      BY NextPartSteps
    <3>2. a = p
      BY <2>2
    <3> HIDE DEF p, a
    <3>3. ~Has(p, Writings \union {"seen"})
      BY <3>1 DEF Has, Writings
    <3> QED
      BY <3>1, <3>2, <3>3
  <2> QED
    BY <2>1, <2>2
<1>3. b \in Seq(Steps) /\ Len(b) = 2 /\ b[1] = "need" /\ b[2] = "resolution" /\ Rest(b)
  BY ResolutionSteps
<1>4. c \in Seq(Steps) /\ Len(c) = 1 /\ c[1] = "arm" /\ Rest(c)
  BY OneStep DEF Steps, Leading, Writings, Unsized
<1> HIDE DEF a, b, c
<1>5. b # <<>> /\ c # <<>>
  BY <1>3, <1>4
<1>6. Rest(ab) /\ ~Has(ab, Writings \union {"seen"})
  <2>1. a # <<>> => Fits(a[Len(a)], b[1])
    BY <1>2, <1>3 DEF Fits
  <2>2. ~Has(b, Writings \union {"seen"})
    BY <1>3 DEF Has, Writings
  <2> QED
    BY <1>2, <1>3, <2>1, <2>2, RestJoined, HasJoined
<1>7. /\ ab \in Seq(Steps) /\ Len(ab) = Len(a) + Len(b) /\ Len(a) \in Nat
      /\ \A i \in 1..Len(a) : ab[i] = a[i]
      /\ \A i \in 1..Len(b) : ab[Len(a) + i] = b[i]
      /\ a = <<>> <=> Len(a) = 0
  BY <1>2, <1>3, Joined
<1> HIDE DEF ab
<1>8. ab # <<>> /\ ab[1] = "need" /\ ab[Len(ab)] = "resolution"
  <2>1. Len(ab) > 0 /\ Len(ab) = Len(a) + 2 /\ ab[Len(a) + 2] = b[2] /\ ab[Len(a) + 1] = b[1]
    BY <1>3, <1>7
  <2>2. a # <<>> => ab[1] = a[1]
    BY <1>7
  <2>3. a = <<>> => ab[1] = b[1]
    BY <1>7, <2>1
  <2> QED
    BY <1>2, <1>3, <2>1, <2>2, <2>3
<1>9. Rest(r)
  <2>1. Fits(ab[Len(ab)], c[1])
    BY <1>4, <1>8 DEF Fits
  <2> QED
    BY <1>4, <1>6, <1>7, <2>1, RestJoined
<1>10. /\ r \in Seq(Steps) /\ Len(r) = Len(ab) + Len(c) /\ Len(ab) \in Nat
       /\ \A i \in 1..Len(ab) : r[i] = ab[i]
  BY <1>4, <1>7, Joined
<1> HIDE DEF r
<1>11. r[1] = "need" /\ r # <<>>
  <2>1. Len(ab) > 0
    BY <1>7, <1>8
  <2> QED
    BY <1>4, <1>8, <1>10, <2>1
<1> QED
  BY <1>1, <1>9, <1>10, <1>11

-----------------------------------------------------------------------------
(* A step of a call. *)

\* A step replaces the head of its own thread's call and leaves the others alone.
LEMMA Continued ==
  ASSUME TypeOK, NEW t \in Threads, NEW s, Continue(t, s)
  PROVE  calls'[t] = s \o Tail(calls[t]) /\ \A u \in Threads : u # t => calls'[u] = calls[u]
BY DEF TypeOK, Continue

\* The step is over.
LEMMA Popped ==
  ASSUME TypeOK, NEW t \in Threads, Busy(t), Rest(calls[t]), Continue(t, <<>>)
  PROVE  /\ calls' \in [Threads -> Seq(Steps)] /\ \A u \in Threads : u # t => calls'[u] = calls[u]
         /\ Rest(calls'[t])
         /\ Busy(t)' => Fits(calls[t][1], calls'[t][1])
         /\ calls[t][1] \in Leading => Busy(t)'
         /\ \A S : Has(calls[t], S) <=> calls[t][1] \in S \/ Has(calls'[t], S)
         /\ Busy(t)' => calls'[t][Len(calls'[t])] = calls[t][Len(calls[t])]
<1> DEFINE c == calls[t]
           r == Tail(c)
<1>1. c \in Seq(Steps) /\ c # <<>> /\ Rest(c)
  BY DEF TypeOK, Busy
<1> HIDE DEF c
<1>2. /\ r \in Seq(Steps) /\ Len(r) = Len(c) - 1 /\ Len(c) \in Nat /\ Len(c) > 0 /\ (r = <<>> <=> Len(c) = 1)
      /\ \A i \in 1..Len(r) : r[i] = c[i + 1]
  BY <1>1, WithoutFirst
<1>3. Rest(r) /\ (r # <<>> => Fits(c[1], r[1])) /\ \A S : Has(c, S) <=> c[1] \in S \/ Has(r, S)
  BY <1>1, RestTail, HasTail
<1>4. c[1] \in Leading => r # <<>>
  BY <1>1, <1>2 DEF Rest
<1> HIDE DEF r
<1>5. r # <<>> => r[Len(r)] = c[Len(c)]
  <2>1. r # <<>> => Len(r) \in 1..Len(r) /\ Len(r) + 1 = Len(c)
    BY <1>2
  <2> QED
    BY <1>2, <2>1
<1>6. calls'[t] = r
  <2>1. \A q \in Seq(Steps) : <<>> \o q = q
    OBVIOUS
  <2>2. calls'[t] = <<>> \o r
    BY Continued DEF r, c
  <2> QED
    BY <1>2, <2>1, <2>2
<1>7. \A u \in Threads : u # t => calls'[u] = calls[u]
  BY Continued
<1>8. calls' \in [Threads -> Seq(Steps)]
  <2>1. calls' = [calls EXCEPT ![t] = calls'[t]]
    BY <1>6 DEF TypeOK, Continue
  <2> QED
    BY <1>2, <1>6, <2>1 DEF TypeOK
<1> QED
  BY <1>2, <1>3, <1>4, <1>5, <1>6, <1>7, <1>8 DEF Busy, c

\* Other steps take the place of the step.
LEMMA PutIn ==
  ASSUME TypeOK, NEW t \in Threads, Busy(t), Rest(calls[t]), calls[t][1] \notin Leading \union {"resumeSound"},
         NEW s \in Seq(Steps), s # <<>>, Rest(s), ~Has(s, Writings \union {"seen"}), Continue(t, s)
  PROVE  /\ calls' \in [Threads -> Seq(Steps)] /\ \A u \in Threads : u # t => calls'[u] = calls[u]
         /\ Rest(calls'[t]) /\ Busy(t)' /\ calls'[t][1] = s[1]
         /\ \A S : Has(calls'[t], S) <=> Has(s, S) \/ Has(Tail(calls[t]), S)
         /\ \A S : Has(calls[t], S) <=> calls[t][1] \in S \/ Has(Tail(calls[t]), S)
         /\ calls[t][1] # calls[t][Len(calls[t])] => calls'[t][Len(calls'[t])] = calls[t][Len(calls[t])]
<1> DEFINE c == calls[t]
           r == Tail(c)
           q == s \o r
<1>1. c \in Seq(Steps) /\ c # <<>> /\ Rest(c)
  BY DEF TypeOK, Busy
<1>2. c[1] \notin Leading \union {"resumeSound"}
  OBVIOUS
<1> HIDE DEF c
<1>3. /\ r \in Seq(Steps) /\ Len(r) = Len(c) - 1 /\ Len(c) \in Nat /\ Len(c) > 0 /\ (r = <<>> <=> Len(c) = 1)
      /\ \A i \in 1..Len(r) : r[i] = c[i + 1]
  BY <1>1, WithoutFirst
<1>4. Rest(r) /\ (r # <<>> => Fits(c[1], r[1])) /\ \A S : Has(c, S) <=> c[1] \in S \/ Has(r, S)
  BY <1>1, RestTail, HasTail
<1> HIDE DEF r
<1>5. Rest(q) /\ \A S : Has(q, S) <=> Has(s, S) \/ Has(r, S)
  <2>1. s[Len(s)] \notin Leading
    BY DEF Rest
  <2>2. r # <<>> => Fits(s[Len(s)], r[1])
    BY <1>2, <1>4, <2>1, MayFollow
  <2> QED
    BY <1>3, <1>4, <2>2, RestJoined, HasJoined
<1>6. /\ q \in Seq(Steps) /\ Len(q) = Len(s) + Len(r)
      /\ \A i \in 1..Len(s) : q[i] = s[i]
      /\ \A i \in 1..Len(r) : q[Len(s) + i] = r[i]
      /\ Len(s) \in Nat /\ (s = <<>> <=> Len(s) = 0)
  BY <1>3, Joined
<1> HIDE DEF q
<1>7. q # <<>> /\ q[1] = s[1]
  BY <1>6
<1>8. c[1] # c[Len(c)] => q[Len(q)] = c[Len(c)]
  <2>1. c[1] # c[Len(c)] => Len(c) > 1
    BY <1>3
  <2>2. Len(c) > 1 => Len(r) \in 1..Len(r) /\ Len(s) + Len(r) = Len(q) /\ Len(r) + 1 = Len(c)
    BY <1>3, <1>6
  <2>3. Len(c) > 1 => q[Len(q)] = r[Len(r)] /\ r[Len(r)] = c[Len(c)]
    BY <1>3, <1>6, <2>2
  <2> QED
    BY <2>1, <2>3
<1>9. calls'[t] = q /\ \A u \in Threads : u # t => calls'[u] = calls[u]
  BY Continued DEF q, r, c
<1>10. calls' \in [Threads -> Seq(Steps)]
  <2>1. calls' = [calls EXCEPT ![t] = calls'[t]]
    BY <1>9 DEF TypeOK, Continue
  <2> QED
    BY <1>6, <1>9, <2>1 DEF TypeOK
<1> QED
  BY <1>4, <1>5, <1>7, <1>8, <1>9, <1>10 DEF Busy, c, r

\* A step that exchanges the encoder or its buffer is taken by the only call there is.
LEMMA Undisturbed ==
  ASSUME TypeOK, CallersInv, NEW t \in Threads, HeadIn(t, Exchanges)
  PROVE  Alone(t)
<1>1. 1 \in 1..Len(calls[t])
  <2>1. calls[t] \in Seq(Steps) /\ calls[t] # <<>>
    BY DEF TypeOK, HeadIn, Busy
  <2> QED
    BY <2>1, WithoutFirst
<1>2. Has(calls[t], Exchanges)
  BY <1>1 DEF Has, HeadIn
<1> QED
  BY <1>2 DEF CallersInv, Disturbs

\* A step that puts in no other keeps who disturbs whom.
LEMMA CallersPopped ==
  ASSUME TypeOK, CallersInv, NEW t \in Threads, Busy(t), Continue(t, <<>>),
         exitNextFrame' = exitNextFrame, armed => armed', armed' => objs' # <<>>
  PROVE  CallersInv'
<1>1. /\ \A u \in Threads : u # t => calls'[u] = calls[u]
      /\ Rest(calls'[t])
      /\ \A S : Has(calls'[t], S) => Has(calls[t], S)
      /\ Busy(t)' => calls'[t][Len(calls'[t])] = calls[t][Len(calls[t])]
  BY Popped DEF CallersInv
<1>2. \A u \in Threads : Busy(u)' => Busy(u)
  BY <1>1 DEF Busy
<1>3. ASSUME NEW u \in Threads, Disturbs(u)' PROVE Alone(u)'
  <2>1. Disturbs(u)
    BY <1>1, <1>3 DEF Disturbs
  <2> QED
    BY <1>2, <2>1 DEF CallersInv, Alone
<1>4. Busy("hook")' => calls'["hook"][Len(calls'["hook"])] = "terminate"
  <2>1. "hook" \in Threads
    BY DEF Threads
  <2> QED
    BY <1>1, <1>2, <2>1 DEF CallersInv
<1>5. Busy("watchdog")' => armed'
  BY <1>2 DEF CallersInv, Threads
<1>6. \A u \in Threads : Rest(calls'[u])
  BY <1>1 DEF CallersInv
<1> QED
  BY <1>3, <1>4, <1>5, <1>6 DEF CallersInv

\* A step that puts others in keeps it too when its thread is alone.
LEMMA CallersPutIn ==
  ASSUME TypeOK, CallersInv, NEW t \in Threads, Busy(t), Alone(t),
         calls[t][1] \notin Leading \union {"resumeSound", "terminate"},
         NEW s \in Seq(Steps), s # <<>>, Rest(s), ~Has(s, Writings \union {"seen"}), Continue(t, s),
         armed => armed', armed' => objs' # <<>>
  PROVE  CallersInv' /\ Alone(t)'
<1>1. /\ \A u \in Threads : u # t => calls'[u] = calls[u]
      /\ Rest(calls'[t]) /\ Busy(t)'
      /\ calls[t][1] # calls[t][Len(calls[t])] => calls'[t][Len(calls'[t])] = calls[t][Len(calls[t])]
  BY PutIn DEF CallersInv
<1>2. Alone(t)' /\ \A u \in Threads : Busy(u)' => Busy(u)
  BY <1>1 DEF Busy, Alone
<1>3. ASSUME NEW u \in Threads, Disturbs(u)' PROVE Alone(u)'
  <2>1. u = t \/ calls'[u] = <<>>
    BY <1>2 DEF Alone, Busy
  <2>2. ASSUME calls'[u] = <<>> PROVE FALSE
    BY <1>3, <2>2, NoSteps DEF Disturbs
  <2> QED
    BY <1>2, <2>1, <2>2
<1>4. Busy("hook")' => calls'["hook"][Len(calls'["hook"])] = "terminate"
  <2>1. CASE t = "hook"
    BY <1>1, <2>1 DEF CallersInv
  <2>2. CASE t # "hook"
    BY <1>2, <2>2 DEF Alone, Threads
  <2> QED
    BY <2>1, <2>2
<1>5. Busy("watchdog")' => armed'
  BY <1>2 DEF CallersInv, Threads
<1>6. \A u \in Threads : Rest(calls'[u])
  BY <1>1 DEF CallersInv
<1> QED
  BY <1>2, <1>3, <1>4, <1>5, <1>6 DEF CallersInv

-----------------------------------------------------------------------------
(* What the next step finds. *)

\* Steps that are not taken without an encoder.
Ordinary == Steps \ ({"need", "create", "createPart", "enterShutdown", "takeEncoder"} \union Ending)

\* Without an encoder there is one call at most.
LEMMA NobodyThere ==
  ASSUME TypeOK, CallersInv, EncoderInv, encoder = Nobody, NEW t \in Threads, Busy(t)
  PROVE  Alone(t)
<1>1. Busy("hook") => Disturbs("hook")
  <2> SUFFICES ASSUME Busy("hook") PROVE Disturbs("hook")
    OBVIOUS
  <2> DEFINE c == calls["hook"]
  <2>1. c \in Seq(Steps) /\ c # <<>>
    BY DEF TypeOK, Busy, Threads
  <2>2. Len(c) \in 1..Len(c)
    BY <2>1, WithoutFirst
  <2>3. c[Len(c)] = "terminate"
    BY DEF CallersInv
  <2> HIDE DEF c
  <2>4. c[Len(c)] \in Exchanges
    BY <2>3 DEF Exchanges
  <2>5. Has(c, Exchanges)
    BY <2>2, <2>4 DEF Has
  <2> QED
    BY <2>5 DEF Disturbs, c
<1>2. CASE Fresh
  <2>1. ~Busy("watchdog")
    BY <1>2 DEF Fresh, CallersInv
  <2>2. Busy("hook") => Alone("hook")
    BY <1>1 DEF CallersInv, Threads
  <2> QED
    BY <2>1, <2>2 DEF Alone, Threads
<1>3. CASE Between
  <2>1. PICK u \in Threads : HeadIn(u, {"createPart"} \union Ending)
    BY <1>3 DEF Between
  <2>2. HeadIn(u, Exchanges)
    BY <2>1 DEF HeadIn, Ending, Exchanges
  <2>3. Alone(u)
    BY <2>2, Undisturbed
  <2> QED
    BY <2>3 DEF Alone
<1> QED
  BY <1>2, <1>3 DEF EncoderInv, Live

\* Between two parts the call that exchanges the encoder is the only one.
LEMMA WhoIsBetween ==
  ASSUME TypeOK, CallersInv, Between, NEW t \in Threads, Busy(t)
  PROVE  /\ HeadIn(t, {"createPart"} \union Ending) /\ Alone(t)
         /\ initialized \/ HeadIn(t, {"leaveShutdown", "terminate"})
<1>1. Alone(t)
  BY NobodyThere DEF Between, EncoderInv
<1>2. \A u \in Threads : Busy(u) => u = t
  BY <1>1 DEF Alone
<1> QED
  BY <1>1, <1>2 DEF Between, HeadIn

\* An ordinary step finds an encoder at hand.
LEMMA WhenLive ==
  ASSUME TypeOK, CallersInv, EncoderInv, NEW t \in Threads, HeadIn(t, Ordinary)
  PROVE  Live
<1>1. ~Fresh
  BY DEF Fresh, HeadIn, Ordinary
<1>2. ~Between
  BY WhoIsBetween DEF HeadIn, Ordinary
<1> QED
  BY <1>1, <1>2 DEF EncoderInv

\* Only the step that clears the pointer finds a deleted encoder.
LEMMA AtHand ==
  ASSUME TypeOK, CallersInv, Live, NEW t \in Threads, Busy(t), ~HeadIn(t, {"nextPart"})
  PROVE  encoder \in 1..Len(objs) /\ encoder # Nobody /\ ~objs[encoder].deleted
<1>1. ASSUME NEW u \in Threads, HeadIn(u, {"nextPart"}) PROVE FALSE
  <2>1. HeadIn(u, Exchanges)
    BY <1>1 DEF HeadIn, Exchanges
  <2>2. Alone(u)
    BY <2>1, Undisturbed
  <2> QED
    BY <1>1, <2>2 DEF Alone
<1> QED
  BY <1>1 DEF Live, TypeOK

\* A method of the encoder does what it is called for.
LEMMA MethodWorks ==
  ASSUME TypeOK, CallersInv, Live, NEW t \in Threads, Busy(t), ~HeadIn(t, {"nextPart"}), NEW new,
         Method(t, encoder, new) \/ MethodIfAny(t, encoder, new)
  PROVE  /\ Continue(t, <<>>) /\ objs' = [objs EXCEPT ![encoder] = new] /\ fault' = "none"
         /\ UNCHANGED <<encoder, locks, over>>
BY AtHand DEF Method, MethodIfAny

\* It stays at hand through the step, and is deleted by "delete" alone.
LEMMA LivePopped ==
  ASSUME TypeOK, CallersInv, Live, NEW t \in Threads, HeadIn(t, Ordinary \ {"nextPart"}), Continue(t, <<>>),
         UNCHANGED <<encoder, initialized>>,
         objs'[encoder].deleted <=> objs[encoder].deleted \/ HeadIn(t, {"delete"})
  PROVE  Live'
<1> DEFINE a == calls[t][1]
           b == calls'[t][1]
<1>1. /\ \A u \in Threads : u # t => calls'[u] = calls[u]
      /\ Busy(t)' => Fits(a, b)
      /\ a \in Leading => Busy(t)'
      /\ a \in Ordinary \ {"nextPart"} /\ Busy(t)
  BY Popped DEF CallersInv, HeadIn
<1>2. \A S : (HeadIn(t, S) <=> a \in S) /\ (HeadIn(t, S)' <=> Busy(t)' /\ b \in S)
  BY <1>1 DEF HeadIn
<1>3. \A u \in Threads : \A S : u # t => (HeadIn(u, S)' <=> HeadIn(u, S))
  BY <1>1 DEF HeadIn, Busy
<1> HIDE DEF a, b
<1>4. ~HeadIn(t, {"create", "createPart"} \union Ending)'
  <2>1. ASSUME Fits(a, b) PROVE b \notin {"create", "createPart"} \union Ending
    BY <1>1, <2>1 DEF Fits, Ordinary, Ending
  <2> QED
    BY <1>1, <1>2, <2>1
<1>5. HeadIn(t, {"nextPart"})' <=> HeadIn(t, {"delete"})
  <2>1. Fits(a, b) => (a = "delete" <=> b = "nextPart")
    BY DEF Fits
  <2>2. a = "delete" => a \in Leading
    BY DEF Leading
  <2> QED
    BY <1>1, <1>2, <2>1, <2>2
<1>6. ~HeadIn(t, {"nextPart"})
  BY <1>1, <1>2
<1>7. (\E u \in Threads : HeadIn(u, {"nextPart"})') <=> (\E u \in Threads : HeadIn(u, {"nextPart"})) \/ HeadIn(t, {"delete"})
  BY <1>3, <1>5, <1>6
<1>8. \A u \in Threads : ~HeadIn(u, {"create", "createPart"} \union Ending)'
  BY <1>3, <1>4 DEF Live
<1> QED
  BY <1>7, <1>8 DEF Live

\* It stays at hand when a new size or the end of the frame puts steps in.
LEMMA LivePutIn ==
  ASSUME TypeOK, CallersInv, Live, NEW t \in Threads, HeadIn(t, {"resolution", "timing"}),
         NEW s \in Seq(Steps), s # <<>>, Rest(s), ~Has(s, Writings \union {"seen"}),
         s[1] \in {"need", "destroyBuffer", "enterShutdown"}, Continue(t, s),
         UNCHANGED <<encoder, objs, initialized>>
  PROVE  Live'
<1>1. /\ \A u \in Threads : u # t => calls'[u] = calls[u]
      /\ calls'[t][1] = s[1]
  BY PutIn DEF CallersInv, HeadIn, Leading
<1>2. \A u \in Threads : \A S : u # t => (HeadIn(u, S)' <=> HeadIn(u, S))
  BY <1>1 DEF HeadIn, Busy
<1>3. ~HeadIn(t, {"nextPart"}) /\ ~HeadIn(t, {"nextPart"})' /\ ~HeadIn(t, {"create", "createPart"} \union Ending)'
  BY <1>1 DEF HeadIn, Ending
<1>4. (\E u \in Threads : HeadIn(u, {"nextPart"})') <=> (\E u \in Threads : HeadIn(u, {"nextPart"}))
  BY <1>2, <1>3
<1>5. \A u \in Threads : ~HeadIn(u, {"create", "createPart"} \union Ending)'
  BY <1>2, <1>3 DEF Live
<1> QED
  BY <1>4, <1>5 DEF Live

\* The parts stay in order while no encoder is created.
LEMMA FilesKept ==
  ASSUME TypeOK, FilesInv, Live, Live', UNCHANGED <<encoder, partCounter>>,
         objs' \in Seq(Encoder), Len(objs') = Len(objs),
         \A e \in 1..Len(objs) : objs'[e].file = objs[e].file /\ (objs[e].deleted => objs'[e].deleted)
  PROVE  FilesInv'
<1>1. DOMAIN objs = 1..Len(objs) /\ DOMAIN objs' = 1..Len(objs)
  <2>1. objs \in Seq(Encoder)
    BY DEF TypeOK
  <2> QED
    BY <2>1
<1>2. FilesDistinct'
  BY <1>1 DEF FilesInv, FilesDistinct
<1>3. ~\E t \in Threads : HeadIn(t, {"deleteEncoder"})
  BY DEF Live, HeadIn, Ending
<1>4. (~\E t \in Threads : HeadIn(t, {"deleteEncoder"})') /\ ~\E t \in Threads : HeadIn(t, {"createPart"})'
  BY DEF Live, HeadIn, Ending
<1>5. /\ partCounter' > 0
      /\ \A e \in 1..Len(objs') : objs'[e].file <= partCounter'
  BY DEF FilesInv
<1>6. \A e \in 1..Len(objs') : ~objs'[e].deleted => e = encoder'
  BY <1>3 DEF FilesInv
<1> QED
  BY <1>2, <1>4, <1>5, <1>6 DEF FilesInv

\* What the steps left say of the size when one of them is over.
LEMMA SizeHeads ==
  ASSUME TypeOK, CallersInv, NEW t \in Threads, Continue(t, <<>>), HeadIn(t, Ordinary \ {"nextPart"})
  PROVE  /\ \A u \in Threads : \A S : Has(calls[u], S) <=> Has(calls'[u], S) \/ (u = t /\ calls[t][1] \in S)
         /\ \A u \in Threads : HeadIn(u, {"setSize"})' => HeadIn(u, {"setSize"}) \/ HeadIn(t, {"initBuffer"})
         /\ \A u \in Threads : HeadIn(u, Blank)' => HeadIn(u, Blank)
<1> DEFINE a == calls[t][1]
           b == calls'[t][1]
<1>1. /\ \A u \in Threads : u # t => calls'[u] = calls[u]
      /\ Busy(t)' => Fits(a, b)
      /\ \A S : Has(calls[t], S) <=> a \in S \/ Has(calls'[t], S)
      /\ a \in Ordinary \ {"nextPart"} /\ Busy(t)
  BY Popped DEF CallersInv, HeadIn
<1>2. \A S : (HeadIn(t, S) <=> a \in S) /\ (HeadIn(t, S)' <=> Busy(t)' /\ b \in S)
  BY <1>1 DEF HeadIn
<1>3. \A u \in Threads : \A S : u # t => (HeadIn(u, S)' <=> HeadIn(u, S)) /\ (Has(calls'[u], S) <=> Has(calls[u], S))
  BY <1>1 DEF HeadIn, Busy
<1>4. \A u \in Threads : \A S : Has(calls[u], S) <=> Has(calls'[u], S) \/ (u = t /\ a \in S)
  BY <1>1, <1>3
<1> HIDE DEF a, b
<1>5. \A u \in Threads : HeadIn(u, {"setSize"})' => HeadIn(u, {"setSize"}) \/ HeadIn(t, {"initBuffer"})
  <2>1. Fits(a, b) /\ b = "setSize" => a = "initBuffer"
    BY DEF Fits
  <2> QED
    BY <1>1, <1>2, <1>3, <2>1
<1>6. \A u \in Threads : HeadIn(u, Blank)' => HeadIn(u, Blank)
  <2>1. Fits(a, b) /\ b \in Blank => a \in Blank
    BY <1>1 DEF Fits, Blank, Ordinary
  <2> QED
    BY <1>1, <1>2, <1>3, <2>1
<1> QED
  BY <1>4, <1>5, <1>6 DEF a

\* The encoder keeps its size and its pictures.
LEMMA SizeKept ==
  ASSUME TypeOK, CallersInv, SizeInv, Live, NEW t \in Threads, Continue(t, <<>>),
         HeadIn(t, Ordinary \ (Sizings \union {"initBuffer", "seen", "nextPart"})),
         UNCHANGED <<encoder, captureWidth, asked, seenFrames>>,
         objs'[encoder].size = objs[encoder].size, objs'[encoder].pictures = objs[encoder].pictures
  PROVE  SizeInv'
<1>1. calls[t][1] \notin Sizings \union {"initBuffer", "seen", "nextPart"} /\ ~HeadIn(t, {"initBuffer"})
  BY DEF HeadIn
<1>2. /\ \A u \in Threads : \A S : Has(calls[u], S) <=> Has(calls'[u], S) \/ (u = t /\ calls[t][1] \in S)
      /\ \A u \in Threads : HeadIn(u, {"setSize"})' => HeadIn(u, {"setSize"})
      /\ \A u \in Threads : HeadIn(u, Blank)' => HeadIn(u, Blank)
  <2>1. HeadIn(t, Ordinary \ {"nextPart"})
    BY DEF HeadIn
  <2> QED
    BY <1>1, <2>1, SizeHeads
<1>3. \A u \in Threads : Has(calls[u], Sizings) => Has(calls'[u], Sizings)
  BY <1>1, <1>2
<1>4. \A u \in Threads : Has(calls[u], {"seen"}) /\ ~Has(calls[u], Resizing) => Has(calls'[u], {"seen"}) /\ ~Has(calls'[u], Resizing)
  BY <1>1, <1>2
<1>5. encoder # Nobody
  BY DEF Live
<1>6. objs'[encoder'].size = captureWidth' \/ \E u \in Threads : Has(calls'[u], Sizings)
  BY <1>3, <1>5 DEF SizeInv
<1>7. \A u \in Threads : HeadIn(u, {"setSize"})' => captureWidth' = Aligned(asked')
  BY <1>2, <1>5 DEF SizeInv
<1>8. objs'[encoder'].pictures =>
         /\ \A u \in Threads : ~HeadIn(u, Blank)'
         /\ seenFrames' \/ \E u \in Threads : Has(calls'[u], {"seen"}) /\ ~Has(calls'[u], Resizing)
  BY <1>2, <1>4, <1>5 DEF SizeInv
<1> QED
  BY <1>6, <1>7, <1>8 DEF SizeInv

\* The same of the sound format.
LEMMA FormatHeads ==
  ASSUME TypeOK, CallersInv, NEW t \in Threads, Continue(t, <<>>),
         HeadIn(t, Ordinary \ {"getFormat", "resumeSound", "nextPart"})
  PROVE  \A u \in Threads : HeadIn(u, Handing)' <=> HeadIn(u, Handing)
<1> DEFINE a == calls[t][1]
           b == calls'[t][1]
<1>1. /\ \A u \in Threads : u # t => calls'[u] = calls[u]
      /\ Busy(t)' => Fits(a, b)
      /\ a \in Leading => Busy(t)'
      /\ a \in Ordinary \ {"getFormat", "resumeSound", "nextPart"} /\ Busy(t)
  BY Popped DEF CallersInv, HeadIn
<1>2. \A S : (HeadIn(t, S) <=> a \in S) /\ (HeadIn(t, S)' <=> Busy(t)' /\ b \in S)
  BY <1>1 DEF HeadIn
<1>3. \A u \in Threads : \A S : u # t => (HeadIn(u, S)' <=> HeadIn(u, S))
  BY <1>1 DEF HeadIn, Busy
<1> HIDE DEF a, b
<1>4. HeadIn(t, Handing)' <=> HeadIn(t, Handing)
  <2>1. Fits(a, b) => (b \in Handing <=> a \in Handing)
    BY <1>1 DEF Fits, Handing, Ordinary
  <2>2. a \in Handing => a \in Leading
    BY <1>1 DEF Handing, Leading
  <2> QED
    BY <1>1, <1>2, <2>1, <2>2
<1> QED
  BY <1>3, <1>4

\* The format stays known through a step that does not hand it over.
LEMMA FormatKept ==
  ASSUME TypeOK, CallersInv, FormatInv, Live, NEW t \in Threads, Continue(t, <<>>),
         HeadIn(t, Ordinary \ {"getFormat", "resumeSound", "nextPart"}),
         UNCHANGED <<encoder, playing, wfx, lostFormat>>,
         objs[encoder].format => objs'[encoder].format
  PROVE  FormatInv'
<1>1. \A u \in Threads : HeadIn(u, Handing)' <=> HeadIn(u, Handing)
  BY FormatHeads
<1> QED
  BY <1>1 DEF FormatInv, Live

-----------------------------------------------------------------------------
(* The steps keep the invariant. *)

\* Whatever becomes of its size and its format.
LEMMA MostKept ==
  ASSUME TypeOK, RunInv, NEW t \in Threads, Continue(t, <<>>), HeadIn(t, Ordinary \ {"nextPart"}),
         UNCHANGED <<encoder, partCounter, initialized, exitNextFrame>>, armed => armed',
         objs' \in Seq(Encoder), Len(objs') = Len(objs),
         \A e \in 1..Len(objs) : objs'[e].file = objs[e].file /\ (objs[e].deleted => objs'[e].deleted),
         objs'[encoder].deleted <=> objs[encoder].deleted \/ HeadIn(t, {"delete"})
  PROVE  CallersInv' /\ EncoderInv' /\ FilesInv'
<1>1. CallersInv /\ EncoderInv /\ FilesInv
  BY DEF RunInv
<1>2. HeadIn(t, Ordinary) /\ Busy(t)
  BY DEF HeadIn
<1>3. Live
  BY <1>1, <1>2, WhenLive
<1>4. CallersInv'
  <2>1. encoder \in 1..Len(objs) /\ objs \in Seq(Encoder)
    BY <1>3 DEF Live, TypeOK
  <2>2. objs' # <<>>
    BY <2>1
  <2> QED
    BY <1>1, <1>2, <2>2, CallersPopped
<1>5. Live'
  BY <1>1, <1>3, LivePopped
<1>6. FilesInv'
  BY <1>1, <1>3, <1>5, FilesKept
<1> QED
  BY <1>4, <1>5, <1>6 DEF EncoderInv

\* A step that changes no size and puts in no other keeps all of it.
LEMMA OrdinaryKeeps ==
  ASSUME TypeOK, RunInv, NEW t \in Threads, Continue(t, <<>>),
         HeadIn(t, Ordinary \ (Sizings \union {"destroyBuffer", "initBuffer", "seen", "nextPart", "getFormat", "resumeSound"})),
         UNCHANGED <<encoder, picture, sound, initialized, exitNextFrame>>, armed => armed',
         objs' \in Seq(Encoder), Len(objs') = Len(objs),
         \A e \in 1..Len(objs) :
           /\ objs'[e].file = objs[e].file /\ objs'[e].size = objs[e].size /\ objs'[e].pictures = objs[e].pictures
           /\ objs[e].deleted => objs'[e].deleted
           /\ objs[e].format => objs'[e].format,
         objs'[encoder].deleted <=> objs[encoder].deleted \/ HeadIn(t, {"delete"})
  PROVE  RunInv'
<1>1. HeadIn(t, Ordinary) /\ Busy(t) /\ HeadIn(t, Ordinary \ {"nextPart"})
  BY DEF HeadIn
<1>2. Live /\ CallersInv /\ SizeInv /\ FormatInv
  BY <1>1, WhenLive DEF RunInv
<1>3. encoder \in 1..Len(objs)
  BY <1>2 DEF Live, TypeOK
<1>4. UNCHANGED <<partCounter, seenFrames, captureWidth, asked, playing, wfx, lostFormat>>
  BY DEF picture, sound
<1>5. CallersInv' /\ EncoderInv' /\ FilesInv'
  BY <1>1, <1>4, MostKept
<1>6. SizeInv'
  <2>1. HeadIn(t, Ordinary \ (Sizings \union {"initBuffer", "seen", "nextPart"}))
    BY DEF HeadIn
  <2> QED
    BY <1>2, <1>3, <1>4, <2>1, SizeKept
<1>7. FormatInv'
  <2>1. HeadIn(t, Ordinary \ {"getFormat", "resumeSound", "nextPart"})
    BY DEF HeadIn
  <2> QED
    BY <1>2, <1>3, <1>4, <2>1, FormatKept
<1> QED
  BY <1>5, <1>6, <1>7 DEF RunInv

\* Steps that change no encoder.
LEMMA LocalKeeps ==
  ASSUME TypeOK, RunInv, NEW t \in Threads, Continue(t, <<>>),
         HeadIn(t, Ordinary \ (Sizings \union {"destroyBuffer", "initBuffer", "seen", "nextPart", "getFormat", "resumeSound", "delete"})),
         UNCHANGED <<encoder, objs, picture, sound, initialized, exitNextFrame>>, armed => armed'
  PROVE  RunInv'
<1>1. HeadIn(t, Ordinary \ (Sizings \union {"destroyBuffer", "initBuffer", "seen", "nextPart", "getFormat", "resumeSound"}))
      /\ ~HeadIn(t, {"delete"})
  BY DEF HeadIn
<1>2. objs \in Seq(Encoder)
  BY DEF TypeOK
<1> QED
  BY <1>1, <1>2, OrdinaryKeeps

\* The guard of a step names the head of the call.
LEMMA HeadAt ==
  ASSUME TypeOK, NEW t \in Threads, NEW step, At(t, step)
  PROVE  Busy(t) /\ calls[t][1] = step /\ \A S : HeadIn(t, S) <=> step \in S
<1>1. calls[t] \in Seq(Steps) /\ calls[t] # <<>>
  BY DEF TypeOK, At
<1>2. Head(calls[t]) = calls[t][1]
  BY <1>1, WithoutFirst
<1> QED
  BY <1>1, <1>2 DEF At, HeadIn, Busy

\* What a step that is over and its like leave of the types.
LEMMA TypeKept ==
  ASSUME TypeOK, calls' \in [Threads -> Seq(Steps)], objs' \in Seq(Encoder), Len(objs') = Len(objs),
         UNCHANGED <<encoder, realEncoder, partCounter, firstCreate, asked, gotDataLock, shuttingDown, initialized,
                     exitNextFrame, soundOpen, endStuck, lostFormat, made, over>>,
         captureWidth' \in {Aligned(w) : w \in Widths \union {0}},
         {seenFrames', armed', playing', wfx'} \subseteq BOOLEAN,
         captureDataLock' \in Threads \union {Nobody}, fault' \in {"none", "null", "deleted", "no format"}
  PROVE  TypeOK'
BY DEF TypeOK

\* Taking and leaving the data lock, and a picture that is not written.
LEMMA LockStepsKeep ==
  ASSUME TypeOK, RunInv, NEW t \in Threads, EnterData(t) \/ LeaveData(t) \/ WriteNothing(t)
  PROVE  TypeOK' /\ RunInv' /\ UNCHANGED <<fault, over>>
<1>1. /\ Continue(t, <<>>) /\ UNCHANGED <<encoder, objs, picture, sound, control, made, fault, over>>
      /\ UNCHANGED <<gotDataLock, shuttingDown>> /\ captureDataLock' \in {captureDataLock, t, Nobody}
  BY DEF EnterData, LeaveData, LockOnly, WriteNothing, Local, locks, Quiet
<1>2. PICK step \in {"enterData", "leaveData", "write", "writeAgain"} : At(t, step)
  BY DEF EnterData, LeaveData, WriteNothing
<1>3. Busy(t) /\ HeadIn(t, {"enterData", "leaveData", "write", "writeAgain"})
  BY <1>2, HeadAt
<1>4. HeadIn(t, Ordinary \ (Sizings \union {"destroyBuffer", "initBuffer", "seen", "nextPart", "getFormat", "resumeSound", "delete"}))
  BY <1>3 DEF HeadIn, Ordinary, Sizings, Steps, Ending
<1>5. RunInv'
  BY <1>1, <1>4, LocalKeeps DEF control
<1>6. calls' \in [Threads -> Seq(Steps)]
  BY <1>1, <1>3, Popped DEF RunInv, CallersInv
<1>7. TypeOK'
  BY <1>1, <1>6, TypeKept DEF TypeOK, picture, sound, control
<1> QED
  BY <1>1, <1>5, <1>7

\* An encoder in the place of another.
LEMMA Replaced ==
  ASSUME TypeOK, NEW e \in 1..Len(objs), NEW new \in Encoder, objs' = [objs EXCEPT ![e] = new]
  PROVE  /\ objs' \in Seq(Encoder) /\ Len(objs') = Len(objs) /\ objs'[e] = new
         /\ \A i \in 1..Len(objs) : i # e => objs'[i] = objs[i]
<1>1. objs \in Seq(Encoder)
  BY DEF TypeOK
<1> QED
  BY <1>1

\* A method of the encoder that leaves its file, its size and its pictures.
LEMMA MethodKeeps ==
  ASSUME TypeOK, RunInv, NEW t \in Threads,
         HeadIn(t, Ordinary \ (Sizings \union {"destroyBuffer", "initBuffer", "seen", "nextPart", "getFormat", "resumeSound"})),
         NEW new \in Encoder, Continue(t, <<>>), objs' = [objs EXCEPT ![encoder] = new],
         new.file = objs[encoder].file, new.size = objs[encoder].size, new.pictures = objs[encoder].pictures,
         new.deleted <=> HeadIn(t, {"delete"}), objs[encoder].format => new.format,
         UNCHANGED <<encoder, picture, sound, initialized, exitNextFrame>>, armed => armed'
  PROVE  RunInv'
<1>1. Busy(t) /\ ~HeadIn(t, {"nextPart"}) /\ HeadIn(t, Ordinary)
  BY DEF HeadIn
<1>2. encoder \in 1..Len(objs) /\ ~objs[encoder].deleted
  BY <1>1, WhenLive, AtHand DEF RunInv
<1>3. /\ objs' \in Seq(Encoder) /\ Len(objs') = Len(objs) /\ objs'[encoder] = new
      /\ \A i \in 1..Len(objs) : i # encoder => objs'[i] = objs[i]
  BY <1>2, Replaced
<1>4. \A e \in 1..Len(objs) :
        /\ objs'[e].file = objs[e].file /\ objs'[e].size = objs[e].size /\ objs'[e].pictures = objs[e].pictures
        /\ objs[e].deleted => objs'[e].deleted
        /\ objs[e].format => objs'[e].format
  BY <1>2, <1>3
<1> QED
  BY <1>2, <1>3, <1>4, OrdinaryKeeps

\* The fields of an encoder.
LEMMA FieldsOf ==
  ASSUME NEW x \in Encoder
  PROVE  /\ x.file \in Nat /\ x.size \in Nat /\ x.pictures \in BOOLEAN
         /\ x.format \in BOOLEAN /\ x.aud \in BOOLEAN /\ x.deleted \in BOOLEAN
BY DEF Encoder

\* What a method leaves of an encoder.
Like(x, y) == y \in Encoder /\ y.file = x.file /\ y.deleted = x.deleted

\* An encoder after delete, ...
LEMMA AfterDelete ==
  ASSUME NEW x \in Encoder, NEW y, y = [x EXCEPT !.deleted = TRUE]
  PROVE  y \in Encoder /\ y.deleted /\ y.file = x.file /\ y.size = x.size /\ y.pictures = x.pictures /\ y.format = x.format
BY DEF Encoder

\* ... after its audio stream was begun, ...
LEMMA AfterStream ==
  ASSUME NEW x \in Encoder, NEW y, y = [x EXCEPT !.aud = TRUE]
  PROVE  Like(x, y) /\ y.size = x.size /\ y.pictures = x.pictures /\ y.format = x.format
BY DEF Encoder, Like

\* ... after SetAudioFormat, ...
LEMMA AfterFormat ==
  ASSUME NEW x \in Encoder, NEW y, y = [x EXCEPT !.format = TRUE]
  PROVE  Like(x, y) /\ y.size = x.size /\ y.pictures = x.pictures /\ y.format
BY DEF Encoder, Like

\* ... after SetSize, ...
LEMMA AfterSize ==
  ASSUME NEW x \in Encoder, NEW size \in Nat, NEW y, y = [x EXCEPT !.size = size]
  PROVE  Like(x, y) /\ y.size = size /\ y.pictures = x.pictures /\ y.format = x.format
BY DEF Encoder, Like

\* ... after WriteFrame.
LEMMA AfterPicture ==
  ASSUME NEW x \in Encoder, NEW y, y = [x EXCEPT !.pictures = TRUE]
  PROVE  Like(x, y) /\ y.size = x.size /\ y.format = x.format
BY DEF Encoder, Like

\* A step of the encoder's owner starts from an encoder at hand.
LEMMA Starting ==
  ASSUME TypeOK, RunInv, NEW t \in Threads, HeadIn(t, Ordinary \ {"nextPart"})
  PROVE  /\ Live /\ encoder \in 1..Len(objs) /\ encoder # Nobody /\ ~objs[encoder].deleted /\ objs[encoder] \in Encoder
         /\ Busy(t) /\ ~HeadIn(t, {"nextPart"}) /\ HeadIn(t, Ordinary)
         /\ TypeOK /\ CallersInv /\ EncoderInv /\ FilesInv /\ SizeInv /\ FormatInv
<1>1. Busy(t) /\ ~HeadIn(t, {"nextPart"}) /\ HeadIn(t, Ordinary)
  BY DEF HeadIn
<1>2. CallersInv /\ EncoderInv /\ FilesInv /\ SizeInv /\ FormatInv
  BY DEF RunInv
<1>3. Live
  BY <1>1, <1>2, WhenLive
<1>4. encoder \in 1..Len(objs) /\ encoder # Nobody /\ ~objs[encoder].deleted
  BY <1>1, <1>2, <1>3, AtHand
<1>5. objs[encoder] \in Encoder
  <2>1. objs \in Seq(Encoder)
    BY DEF TypeOK
  <2> QED
    BY <1>4, <2>1
<1> QED
  BY <1>1, <1>2, <1>3, <1>4, <1>5

\* A method called on the encoder at hand changes that encoder and ends its step.
LEMMA MethodStep ==
  ASSUME TypeOK, RunInv, NEW t \in Threads, NEW step \in Ordinary \ {"nextPart"}, At(t, step),
         NEW new \in Encoder, Method(t, encoder, new) \/ MethodIfAny(t, encoder, new)
  PROVE  /\ Continue(t, <<>>) /\ fault' = "none" /\ UNCHANGED <<encoder, locks, over>>
         /\ objs' = [objs EXCEPT ![encoder] = new]
         /\ objs' \in Seq(Encoder) /\ Len(objs') = Len(objs) /\ objs'[encoder] = new
         /\ \A i \in 1..Len(objs) : i # encoder => objs'[i] = objs[i]
         /\ calls' \in [Threads -> Seq(Steps)]
<1>1. Busy(t) /\ HeadIn(t, Ordinary \ {"nextPart"})
  BY HeadAt
<1>2. Live /\ CallersInv /\ encoder \in 1..Len(objs) /\ ~HeadIn(t, {"nextPart"})
  BY <1>1, Starting
<1>3. Continue(t, <<>>) /\ objs' = [objs EXCEPT ![encoder] = new] /\ fault' = "none" /\ UNCHANGED <<encoder, locks, over>>
  BY <1>1, <1>2, MethodWorks
<1>4. calls' \in [Threads -> Seq(Steps)]
  BY <1>1, <1>2, <1>3, Popped DEF CallersInv
<1> QED
  BY <1>2, <1>3, <1>4, Replaced

\* The encoder of the old part is deleted.
LEMMA DeleteKeeps ==
  ASSUME TypeOK, RunInv, NEW t \in Threads, Delete(t)
  PROVE  TypeOK' /\ RunInv' /\ fault' = "none" /\ over' = over
<1> DEFINE new == [objs[encoder] EXCEPT !.deleted = TRUE]
<1>1. At(t, "delete") /\ Method(t, encoder, new) /\ UNCHANGED <<picture, sound, control, made>>
  BY DEF Delete, Quiet
<1>2. \A S : HeadIn(t, S) <=> "delete" \in S
  BY <1>1, HeadAt
<1>3. /\ "delete" \in Ordinary \ {"nextPart"} /\ HeadIn(t, Ordinary \ {"nextPart"}) /\ HeadIn(t, {"delete"})
      /\ HeadIn(t, Ordinary \ (Sizings \union {"destroyBuffer", "initBuffer", "seen", "nextPart", "getFormat", "resumeSound"}))
  BY <1>2 DEF Ordinary, Sizings, Steps, Ending
<1>4. objs[encoder] \in Encoder
  BY <1>3, Starting
<1>5. /\ new \in Encoder /\ new.deleted /\ new.file = objs[encoder].file /\ new.size = objs[encoder].size
      /\ new.pictures = objs[encoder].pictures /\ new.format = objs[encoder].format
  BY <1>4, AfterDelete
<1> HIDE DEF new
<1>6. /\ Continue(t, <<>>) /\ fault' = "none" /\ UNCHANGED <<encoder, locks, over>>
      /\ objs' = [objs EXCEPT ![encoder] = new]
      /\ objs' \in Seq(Encoder) /\ Len(objs') = Len(objs) /\ calls' \in [Threads -> Seq(Steps)]
  BY <1>1, <1>3, <1>5, MethodStep
<1>7. RunInv'
  BY <1>1, <1>3, <1>5, <1>6, MethodKeeps DEF control
<1>8. TypeOK'
  BY <1>1, <1>6, TypeKept DEF TypeOK, picture, sound, control, locks
<1> QED
  BY <1>6, <1>7, <1>8

\* Sound finds its format, or a part had one and no sound.
LEMMA SoundKeeps ==
  ASSUME TypeOK, RunInv, NEW t \in Threads, Sound(t)
  PROVE  /\ TypeOK' /\ over' = over
         /\ \/ RunInv' /\ fault' = fault
            \/ RunInv' /\ fault' = "none"
            \/ fault' = "no format" /\ lostFormat' /\ objs' = objs
<1>1. At(t, "sound") /\ UNCHANGED <<picture, sound, control, made>>
  BY DEF Sound, Quiet
<1>2. \A S : HeadIn(t, S) <=> "sound" \in S
  BY <1>1, HeadAt
<1>3. /\ "sound" \in Ordinary \ {"nextPart"} /\ HeadIn(t, Ordinary \ {"nextPart"}) /\ ~HeadIn(t, {"delete"})
      /\ HeadIn(t, Ordinary \ (Sizings \union {"destroyBuffer", "initBuffer", "seen", "nextPart", "getFormat", "resumeSound"}))
      /\ HeadIn(t, Ordinary \ (Sizings \union {"destroyBuffer", "initBuffer", "seen", "nextPart", "getFormat", "resumeSound", "delete"}))
  BY <1>2 DEF Ordinary, Sizings, Steps, Ending
<1>4. objs[encoder] \in Encoder /\ ~objs[encoder].deleted /\ encoder # Nobody /\ Busy(t) /\ CallersInv /\ FormatInv
  BY <1>3, Starting
<1>5. CASE ~playing /\ Local(t, <<>>)
  <2>1. Continue(t, <<>>) /\ UNCHANGED <<encoder, objs, locks, fault, over>>
    BY <1>5 DEF Local
  <2>2. RunInv'
    BY <1>1, <1>3, <2>1, LocalKeeps DEF control
  <2>3. calls' \in [Threads -> Seq(Steps)]
    BY <1>4, <2>1, Popped DEF CallersInv
  <2>4. TypeOK'
    BY <1>1, <2>1, <2>3, TypeKept DEF TypeOK, picture, sound, control, locks
  <2> QED
    BY <2>1, <2>2, <2>4
<1>6. CASE Method(t, encoder, [objs[encoder] EXCEPT !.aud = TRUE])
  <2> DEFINE new == [objs[encoder] EXCEPT !.aud = TRUE]
  <2>1. /\ new \in Encoder /\ ~new.deleted /\ new.file = objs[encoder].file /\ new.size = objs[encoder].size
        /\ new.pictures = objs[encoder].pictures /\ new.format = objs[encoder].format
    BY <1>4, AfterStream DEF Like
  <2>2. Method(t, encoder, new)
    BY <1>6
  <2> HIDE DEF new
  <2>3. /\ Continue(t, <<>>) /\ fault' = "none" /\ UNCHANGED <<encoder, locks, over>>
        /\ objs' = [objs EXCEPT ![encoder] = new]
        /\ objs' \in Seq(Encoder) /\ Len(objs') = Len(objs) /\ calls' \in [Threads -> Seq(Steps)]
    BY <1>1, <1>3, <2>1, <2>2, MethodStep
  <2>4. RunInv'
    BY <1>1, <1>3, <2>1, <2>3, MethodKeeps DEF control
  <2>5. TypeOK'
    BY <1>1, <2>3, TypeKept DEF TypeOK, picture, sound, control, locks
  <2> QED
    BY <2>3, <2>4, <2>5
<1>7. CASE /\ playing /\ ~objs[encoder].format /\ Continue(t, <<>>) /\ fault' = "no format"
           /\ UNCHANGED <<encoder, objs, locks, over>>
  <2>1. ASSUME NEW u \in Threads, HeadIn(u, Handing) PROVE FALSE
    <3>1. HeadIn(u, Exchanges)
      BY <2>1 DEF HeadIn, Handing, Exchanges
    <3>2. Alone(u) /\ u # t
      BY <1>2, <1>4, <2>1, <3>1, Undisturbed DEF Handing
    <3> QED
      BY <1>4, <3>2 DEF Alone
  <2>2. lostFormat
    BY <1>4, <1>7, <2>1 DEF FormatInv
  <2>3. calls' \in [Threads -> Seq(Steps)]
    BY <1>4, <1>7, Popped DEF CallersInv
  <2>4. TypeOK'
    BY <1>1, <1>7, <2>3, TypeKept DEF TypeOK, picture, sound, control, locks
  <2> QED
    BY <1>1, <1>7, <2>2, <2>4 DEF sound
<1> QED
  BY <1>5, <1>6, <1>7 DEF Sound

\* A method that deletes nothing.
LEMMA LikeKeeps ==
  ASSUME TypeOK, RunInv, NEW t \in Threads, NEW step \in Ordinary \ {"nextPart", "delete"}, At(t, step),
         NEW new, Like(objs[encoder], new), Method(t, encoder, new) \/ MethodIfAny(t, encoder, new),
         UNCHANGED <<partCounter, initialized, exitNextFrame, armed>>
  PROVE  /\ CallersInv' /\ EncoderInv' /\ FilesInv'
         /\ Continue(t, <<>>) /\ fault' = "none" /\ UNCHANGED <<encoder, locks, over>>
         /\ objs' \in Seq(Encoder) /\ Len(objs') = Len(objs) /\ objs'[encoder] = new
         /\ calls' \in [Threads -> Seq(Steps)]
<1>1. HeadIn(t, Ordinary \ {"nextPart"}) /\ ~HeadIn(t, {"delete"})
  BY HeadAt
<1>2. encoder \in 1..Len(objs)
  BY <1>1, Starting
<1>3. /\ Continue(t, <<>>) /\ fault' = "none" /\ UNCHANGED <<encoder, locks, over>>
      /\ objs' \in Seq(Encoder) /\ Len(objs') = Len(objs) /\ objs'[encoder] = new
      /\ \A i \in 1..Len(objs) : i # encoder => objs'[i] = objs[i]
      /\ calls' \in [Threads -> Seq(Steps)]
  BY MethodStep DEF Like
<1>4. \A e \in 1..Len(objs) : objs'[e].file = objs[e].file /\ objs'[e].deleted = objs[e].deleted
  BY <1>2, <1>3 DEF Like
<1>5. objs'[encoder].deleted <=> objs[encoder].deleted \/ HeadIn(t, {"delete"})
  BY <1>1, <1>2, <1>4
<1>6. CallersInv' /\ EncoderInv' /\ FilesInv'
  BY <1>1, <1>3, <1>4, <1>5, MostKept
<1> QED
  BY <1>3, <1>6

\* The first Play or waveOutWrite of a part gives the encoder its format.
LEMMA FormatKeeps ==
  ASSUME TypeOK, RunInv, NEW t \in Threads, Format(t)
  PROVE  TypeOK' /\ RunInv' /\ fault' = "none" /\ over' = over
<1> DEFINE new == [objs[encoder] EXCEPT !.format = TRUE]
<1>1. /\ At(t, "format") /\ Method(t, encoder, new) /\ playing' = TRUE
      /\ UNCHANGED <<picture, soundOpen, wfx, lostFormat, control, made>>
  BY DEF Format
<1>2. \A S : HeadIn(t, S) <=> "format" \in S
  BY <1>1, HeadAt
<1>3. /\ "format" \in Ordinary \ {"nextPart", "delete"} /\ HeadIn(t, Ordinary \ {"nextPart"})
      /\ HeadIn(t, Ordinary \ (Sizings \union {"initBuffer", "seen", "nextPart"}))
      /\ HeadIn(t, Ordinary \ {"getFormat", "resumeSound", "nextPart"})
  BY <1>2 DEF Ordinary, Sizings, Steps, Ending
<1>4. objs[encoder] \in Encoder /\ Live /\ CallersInv /\ SizeInv /\ FormatInv /\ Busy(t)
  BY <1>3, Starting
<1>5. Like(objs[encoder], new) /\ new.size = objs[encoder].size /\ new.pictures = objs[encoder].pictures /\ new.format
  BY <1>4, AfterFormat
<1> HIDE DEF new
<1>6. UNCHANGED <<partCounter, seenFrames, firstCreate, captureWidth, asked, initialized, exitNextFrame, armed, endStuck, realEncoder>>
  BY <1>1 DEF picture, control
<1>7. /\ CallersInv' /\ EncoderInv' /\ FilesInv'
      /\ Continue(t, <<>>) /\ fault' = "none" /\ UNCHANGED <<encoder, locks, over>>
      /\ objs' \in Seq(Encoder) /\ Len(objs') = Len(objs) /\ objs'[encoder] = new
      /\ calls' \in [Threads -> Seq(Steps)]
  BY <1>1, <1>3, <1>5, <1>6, LikeKeeps
<1>8. SizeInv'
  BY <1>3, <1>4, <1>5, <1>6, <1>7, SizeKept
<1>9. FormatInv'
  <2>1. \A u \in Threads : HeadIn(u, Handing)' <=> HeadIn(u, Handing)
    BY <1>3, <1>4, <1>7, FormatHeads
  <2>2. ASSUME NEW u \in Threads, HeadIn(u, Handing) PROVE FALSE
    <3>1. HeadIn(u, Exchanges)
      BY <2>2 DEF HeadIn, Handing, Exchanges
    <3>2. Alone(u) /\ u # t
      BY <1>2, <1>4, <2>2, <3>1, Undisturbed DEF Handing
    <3> QED
      BY <1>4, <3>2 DEF Alone
  <2> QED
    BY <1>5, <1>7, <2>1, <2>2 DEF FormatInv
<1>10. TypeOK'
  BY <1>1, <1>6, <1>7, TypeKept DEF TypeOK, locks
<1> QED
  BY <1>7, <1>8, <1>9, <1>10 DEF RunInv

\* The format of the last part is asked for, and lost if it had no sound.
LEMMA GetFormatKeeps ==
  ASSUME TypeOK, RunInv, NEW t \in Threads, GetFormat(t)
  PROVE  TypeOK' /\ RunInv' /\ fault' = "none" /\ over' = over
<1> DEFINE old == objs[encoder]
<1>1. /\ At(t, "getFormat") /\ Method(t, encoder, old)
      /\ wfx' = (fault' = "none" /\ old.aud)
      /\ lostFormat' = (lostFormat \/ (fault' = "none" /\ old.format /\ ~old.aud))
      /\ UNCHANGED <<picture, soundOpen, playing, control, made>>
  BY DEF GetFormat
<1>2. \A S : HeadIn(t, S) <=> "getFormat" \in S
  BY <1>1, HeadAt
<1>3. /\ "getFormat" \in Ordinary \ {"nextPart", "delete"} /\ HeadIn(t, Ordinary \ {"nextPart"})
      /\ HeadIn(t, Ordinary \ (Sizings \union {"initBuffer", "seen", "nextPart"}))
      /\ HeadIn(t, Exchanges)
  BY <1>2 DEF Ordinary, Sizings, Steps, Ending, Exchanges
<1>4. old \in Encoder /\ Live /\ CallersInv /\ SizeInv /\ FormatInv /\ Busy(t) /\ Alone(t) /\ encoder # Nobody
  BY <1>3, Starting, Undisturbed
<1>5. Like(old, old) /\ old.aud \in BOOLEAN /\ old.format \in BOOLEAN
  BY <1>4, FieldsOf DEF Like
<1>6. UNCHANGED <<partCounter, seenFrames, firstCreate, captureWidth, asked, initialized, exitNextFrame, armed, endStuck, realEncoder>>
  BY <1>1 DEF picture, control
<1>7. /\ CallersInv' /\ EncoderInv' /\ FilesInv'
      /\ Continue(t, <<>>) /\ fault' = "none" /\ UNCHANGED <<encoder, locks, over>>
      /\ objs' \in Seq(Encoder) /\ Len(objs') = Len(objs) /\ objs'[encoder] = old
      /\ calls' \in [Threads -> Seq(Steps)]
  BY <1>1, <1>3, <1>5, <1>6, LikeKeeps
<1>8. SizeInv'
  BY <1>3, <1>4, <1>6, <1>7, SizeKept
<1>9. ASSUME playing', ~lostFormat' PROVE wfx'
  <2>1. \A u \in Threads : ~HeadIn(u, Handing)
    <3>1. ~HeadIn(t, Handing)
      BY <1>2 DEF Handing
    <3>2. \A u \in Threads : u # t => ~HeadIn(u, Handing)
      BY <1>4 DEF Alone, HeadIn
    <3> QED
      BY <3>1, <3>2
  <2> QED
    BY <1>1, <1>4, <1>5, <1>7, <1>9, <2>1 DEF FormatInv
<1>10. HeadIn(t, Handing)'
  <2>1. Busy(t)' /\ Fits("getFormat", calls'[t][1])
    BY <1>1, <1>4, <1>7, Popped, HeadAt DEF CallersInv, Leading
  <2> QED
    BY <2>1 DEF Fits, HeadIn, Handing
<1>11. FormatInv'
  BY <1>9, <1>10 DEF FormatInv
<1>12. TypeOK'
  <2>1. wfx' \in BOOLEAN /\ lostFormat' \in BOOLEAN
    BY <1>1, <1>5, <1>7 DEF TypeOK
  <2> QED
    BY <1>1, <1>6, <1>7, <2>1 DEF TypeOK, locks
<1> QED
  BY <1>7, <1>8, <1>11, <1>12 DEF RunInv

\* A step that leaves the encoder to itself.
LEMMA AsideKeeps ==
  ASSUME TypeOK, RunInv, NEW t \in Threads, NEW step \in Ordinary \ {"nextPart", "delete"}, At(t, step), Local(t, <<>>),
         UNCHANGED <<partCounter, initialized, exitNextFrame>>, armed => armed'
  PROVE  /\ CallersInv' /\ EncoderInv' /\ FilesInv'
         /\ Continue(t, <<>>) /\ UNCHANGED <<encoder, objs, locks, fault, over>>
         /\ calls' \in [Threads -> Seq(Steps)] /\ objs' \in Seq(Encoder)
<1>1. HeadIn(t, Ordinary \ {"nextPart"}) /\ ~HeadIn(t, {"delete"}) /\ Busy(t)
  BY HeadAt
<1>2. Continue(t, <<>>) /\ UNCHANGED <<encoder, objs, locks, fault, over>>
  BY DEF Local
<1>3. objs' \in Seq(Encoder)
  BY <1>2 DEF TypeOK
<1>4. CallersInv' /\ EncoderInv' /\ FilesInv'
  BY <1>1, <1>2, <1>3, MostKept
<1>5. calls' \in [Threads -> Seq(Steps)]
  BY <1>1, <1>2, Popped DEF RunInv, CallersInv
<1> QED
  BY <1>2, <1>3, <1>4, <1>5

\* The new part gets the sound format of the last one.
LEMMA ResumeSoundKeeps ==
  ASSUME TypeOK, RunInv, NEW t \in Threads, ResumeSound(t)
  PROVE  TypeOK' /\ RunInv' /\ (fault' = "none" \/ fault' = fault) /\ over' = over
<1> DEFINE new == [objs[encoder] EXCEPT !.format = TRUE]
<1>1. /\ At(t, "resumeSound") /\ UNCHANGED <<picture, sound, control, made>>
      /\ (wfx /\ Method(t, encoder, new)) \/ (~wfx /\ Local(t, <<>>))
  BY DEF ResumeSound, Quiet
<1>2. \A S : HeadIn(t, S) <=> "resumeSound" \in S
  BY <1>1, HeadAt
<1>3. /\ "resumeSound" \in Ordinary \ {"nextPart", "delete"} /\ HeadIn(t, Ordinary \ {"nextPart"})
      /\ HeadIn(t, Ordinary \ (Sizings \union {"initBuffer", "seen", "nextPart"}))
      /\ HeadIn(t, Exchanges) /\ HeadIn(t, Handing)
  BY <1>2 DEF Ordinary, Sizings, Steps, Ending, Exchanges, Handing
<1>4. /\ objs[encoder] \in Encoder /\ Live /\ CallersInv /\ SizeInv /\ FormatInv /\ Busy(t) /\ Alone(t)
      /\ encoder \in 1..Len(objs)
  BY <1>3, Starting, Undisturbed
<1>5. Like(objs[encoder], new) /\ new.size = objs[encoder].size /\ new.pictures = objs[encoder].pictures /\ new.format
  BY <1>4, AfterFormat
<1> HIDE DEF new
<1>6. /\ UNCHANGED <<partCounter, seenFrames, firstCreate, captureWidth, asked, initialized, exitNextFrame, armed, endStuck, realEncoder>>
      /\ UNCHANGED <<soundOpen, playing, wfx, lostFormat>>
  BY <1>1 DEF picture, sound, control
<1>7. CASE wfx /\ Method(t, encoder, new)
  <2>1. /\ CallersInv' /\ EncoderInv' /\ FilesInv'
        /\ Continue(t, <<>>) /\ fault' = "none" /\ UNCHANGED <<encoder, locks, over>>
        /\ objs' \in Seq(Encoder) /\ Len(objs') = Len(objs) /\ objs'[encoder] = new
        /\ calls' \in [Threads -> Seq(Steps)]
    BY <1>1, <1>3, <1>5, <1>6, <1>7, LikeKeeps
  <2>2. SizeInv'
    BY <1>3, <1>4, <1>5, <1>6, <2>1, SizeKept
  <2>3. FormatInv'
    BY <1>5, <1>6, <1>7, <2>1 DEF FormatInv
  <2>4. TypeOK'
    BY <1>1, <1>6, <2>1, TypeKept DEF TypeOK, locks
  <2> QED
    BY <2>1, <2>2, <2>3, <2>4 DEF RunInv
<1>8. CASE ~wfx /\ Local(t, <<>>)
  <2>1. /\ CallersInv' /\ EncoderInv' /\ FilesInv'
        /\ Continue(t, <<>>) /\ UNCHANGED <<encoder, objs, locks, fault, over>>
        /\ calls' \in [Threads -> Seq(Steps)] /\ objs' \in Seq(Encoder)
    BY <1>1, <1>3, <1>6, <1>8, AsideKeeps
  <2>2. SizeInv'
    BY <1>3, <1>4, <1>6, <2>1, SizeKept
  <2>3. FormatInv'
    BY <1>3, <1>4, <1>6, <1>8 DEF FormatInv
  <2>4. TypeOK'
    BY <1>1, <1>6, <2>1, TypeKept DEF TypeOK, locks
  <2> QED
    BY <2>1, <2>2, <2>3, <2>4 DEF RunInv
<1> QED
  BY <1>1, <1>7, <1>8

\* A call that writes a picture counts it as seen and has no new size left.
LEMMA AfterWrite ==
  ASSUME TypeOK, NEW t \in Threads, Rest(calls[t]), HeadIn(t, Writings)
  PROVE  Has(calls[t], {"seen"}) /\ ~Has(calls[t], Resizing)
<1> DEFINE c == calls[t]
<1>1. c \in Seq(Steps) /\ c # <<>> /\ Rest(c) /\ c[1] \in Writings
  BY DEF TypeOK, HeadIn, Busy
<1> HIDE DEF c
<1>2. Len(c) \in Nat /\ 1 \in 1..Len(c)
  BY <1>1, WithoutFirst
<1>3. PICK k \in 2..Len(c) : c[k] = "seen"
  BY <1>1, <1>2 DEF Rest
<1>4. Has(c, {"seen"})
  BY <1>2, <1>3 DEF Has
<1>5. ASSUME NEW j \in 1..Len(c), c[j] \in Resizing PROVE FALSE
  <2>1. j = 1 \/ 1 < j
    BY <1>2
  <2>2. c[1] \notin Resizing
    BY <1>1 DEF Writings, Resizing, Sizings
  <2> QED
    BY <1>1, <1>2, <1>5, <2>1, <2>2 DEF Rest
<1>6. ~Has(c, Resizing)
  BY <1>5 DEF Has
<1> QED
  BY <1>4, <1>6 DEF c

\* The aligned width is a number, and that of no width is 0.
LEMMA AlignedNat ==
  /\ \A w \in Widths \union {0} : Aligned(w) \in Nat
  /\ Aligned(0) = 0
<1>1. ASSUME NEW w \in Nat PROVE Aligned(w) \in Nat
  BY DEF Aligned
<1>2. Aligned(0) = 0
  BY DEF Aligned
<1> QED
  BY <1>1, <1>2, LifecycleAssumption

\* A picture is written, if the encoder knows its size.
LEMMA WriteKeeps ==
  ASSUME TypeOK, RunInv, NEW t \in Threads, Write(t)
  PROVE  TypeOK' /\ RunInv' /\ fault' = "none" /\ over' = over
<1> DEFINE old == objs[encoder]
           new == IF objs[encoder].size = 0 THEN objs[encoder] ELSE [objs[encoder] EXCEPT !.pictures = TRUE]
<1>1. PICK step \in Writings : At(t, step) /\ (Method(t, encoder, new) \/ MethodIfAny(t, encoder, new))
  BY DEF Write, Writings
<1>2. \A S : HeadIn(t, S) <=> step \in S
  BY <1>1, HeadAt
<1>3. /\ step \in Ordinary \ {"nextPart", "delete"} /\ HeadIn(t, Ordinary \ {"nextPart"})
      /\ HeadIn(t, Ordinary \ {"getFormat", "resumeSound", "nextPart"})
      /\ step \notin Sizings \union Resizing \union Blank \union {"initBuffer", "seen"} /\ HeadIn(t, Writings)
  BY <1>2 DEF Ordinary, Sizings, Resizing, Steps, Ending, Writings, Blank
<1>4. /\ old \in Encoder /\ Live /\ CallersInv /\ SizeInv /\ FormatInv /\ Busy(t) /\ encoder # Nobody
  BY <1>3, Starting
<1>5. Like(old, new) /\ new.size = old.size /\ new.format = old.format
  <2>1. CASE old.size = 0
    BY <1>4, <2>1 DEF Like
  <2>2. CASE old.size # 0
    <3>1. new = [old EXCEPT !.pictures = TRUE]
      BY <2>2
    <3> HIDE DEF new, old
    <3> QED
      BY <1>4, <3>1, AfterPicture
  <2> QED
    BY <2>1, <2>2
<1> HIDE DEF new
<1>6. /\ UNCHANGED <<partCounter, seenFrames, firstCreate, captureWidth, asked, initialized, exitNextFrame, armed, endStuck, realEncoder>>
      /\ UNCHANGED <<soundOpen, playing, wfx, lostFormat, made>>
  BY DEF Write, Quiet, picture, sound, control
<1>7. /\ CallersInv' /\ EncoderInv' /\ FilesInv'
      /\ Continue(t, <<>>) /\ fault' = "none" /\ UNCHANGED <<encoder, locks, over>>
      /\ objs' \in Seq(Encoder) /\ Len(objs') = Len(objs) /\ objs'[encoder] = new
      /\ calls' \in [Threads -> Seq(Steps)]
  BY <1>1, <1>3, <1>5, <1>6, LikeKeeps
<1>8. SizeInv'
  <2>1. /\ \A u \in Threads : \A S : Has(calls[u], S) <=> Has(calls'[u], S) \/ (u = t /\ calls[t][1] \in S)
        /\ \A u \in Threads : HeadIn(u, {"setSize"})' => HeadIn(u, {"setSize"}) \/ HeadIn(t, {"initBuffer"})
        /\ \A u \in Threads : HeadIn(u, Blank)' => HeadIn(u, Blank)
    BY <1>3, <1>4, <1>7, SizeHeads
  <2>2. calls[t][1] = step
    BY <1>1, HeadAt
  <2>3. ASSUME NEW u \in Threads, HeadIn(u, Blank) PROVE FALSE
    <3>1. HeadIn(u, Exchanges)
      BY <2>3 DEF HeadIn, Blank, Exchanges
    <3>2. Alone(u) /\ u # t
      BY <1>2, <1>3, <1>4, <2>3, <3>1, Undisturbed
    <3> QED
      BY <1>4, <3>2 DEF Alone
  <2>4. Has(calls'[t], {"seen"}) /\ ~Has(calls'[t], Resizing)
    <3>1. Has(calls[t], {"seen"}) /\ ~Has(calls[t], Resizing)
      BY <1>3, <1>4, AfterWrite DEF CallersInv
    <3> QED
      BY <1>3, <2>1, <2>2, <3>1
  <2>5. new.size = captureWidth \/ \E u \in Threads : Has(calls'[u], Sizings)
    BY <1>3, <1>4, <1>5, <2>1, <2>2 DEF SizeInv
  <2>6. \A u \in Threads : HeadIn(u, {"setSize"})' => captureWidth = Aligned(asked)
    BY <1>2, <1>3, <1>4, <2>1 DEF SizeInv
  <2>7. \A u \in Threads : ~HeadIn(u, Blank)'
    BY <2>1, <2>3
  <2> QED
    BY <1>6, <1>7, <2>4, <2>5, <2>6, <2>7 DEF SizeInv
<1>9. FormatInv'
  BY <1>3, <1>4, <1>5, <1>6, <1>7, FormatKept
<1>10. TypeOK'
  BY <1>6, <1>7, TypeKept DEF TypeOK, locks
<1> QED
  BY <1>7, <1>8, <1>9, <1>10 DEF RunInv

\* The encoder is told the size of the capture buffer, before its first picture.
LEMMA SizeTold ==
  ASSUME TypeOK, RunInv, NEW t \in Threads, SetSize(t)
  PROVE  /\ ~objs[encoder].pictures /\ objs' = [objs EXCEPT ![encoder] = [@ EXCEPT !.size = captureWidth]]
         /\ TypeOK' /\ RunInv' /\ fault' = "none" /\ over' = over
<1> DEFINE old == objs[encoder]
           new == [objs[encoder] EXCEPT !.size = captureWidth]
<1>1. PICK step \in Sizings : At(t, step)
  BY DEF SetSize, Sizings
<1>2. \A S : HeadIn(t, S) <=> step \in S
  BY <1>1, HeadAt
<1>3. /\ step \in Ordinary \ {"nextPart", "delete"} /\ HeadIn(t, Ordinary \ {"nextPart"})
      /\ HeadIn(t, Ordinary \ {"getFormat", "resumeSound", "nextPart"})
      /\ step \notin {"initBuffer", "seen"} /\ HeadIn(t, Exchanges) /\ HeadIn(t, Blank)
  BY <1>2 DEF Ordinary, Sizings, Steps, Ending, Exchanges, Blank
<1>4. /\ old \in Encoder /\ Live /\ CallersInv /\ SizeInv /\ FormatInv /\ Busy(t) /\ encoder # Nobody
      /\ encoder \in 1..Len(objs) /\ Alone(t)
  BY <1>3, Starting, Undisturbed
<1>5. ~old.pictures
  <2>1. ~(old.pictures)
    BY <1>3, <1>4 DEF SizeInv
  <2>2. old.pictures \in BOOLEAN
    BY <1>4, FieldsOf
  <2> QED
    BY <2>1, <2>2
<1>6. captureWidth \in Nat
  BY AlignedNat DEF TypeOK
<1>7. Like(old, new) /\ new.size = captureWidth /\ new.pictures = old.pictures /\ new.format = old.format
  BY <1>4, <1>6, AfterSize
<1>8. Method(t, encoder, new) \/ MethodIfAny(t, encoder, new)
  <2>1. CASE At(t, "autoSize") /\ Method(t, encoder, new)
    BY <2>1
  <2>2. CASE At(t, "setSize") /\ MethodIfAny(t, encoder, [objs[encoder] EXCEPT !.size = Aligned(asked)])
    <3>1. HeadIn(t, {"setSize"})
      BY <2>2, HeadAt
    <3>2. captureWidth = Aligned(asked)
      BY <1>4, <3>1 DEF SizeInv
    <3> QED
      BY <2>2, <3>2
  <2> QED
    BY <2>1, <2>2 DEF SetSize
<1> HIDE DEF new
<1>9. /\ UNCHANGED <<partCounter, seenFrames, firstCreate, captureWidth, asked, initialized, exitNextFrame, armed, endStuck, realEncoder>>
      /\ UNCHANGED <<soundOpen, playing, wfx, lostFormat, made>>
  BY DEF SetSize, Quiet, picture, sound, control
<1>10. /\ CallersInv' /\ EncoderInv' /\ FilesInv'
       /\ Continue(t, <<>>) /\ fault' = "none" /\ UNCHANGED <<encoder, locks, over>>
       /\ objs' \in Seq(Encoder) /\ Len(objs') = Len(objs) /\ objs'[encoder] = new
       /\ calls' \in [Threads -> Seq(Steps)]
  BY <1>1, <1>3, <1>7, <1>8, <1>9, LikeKeeps
<1>11. SizeInv'
  <2>1. \A u \in Threads : HeadIn(u, {"setSize"})' => HeadIn(u, {"setSize"}) \/ HeadIn(t, {"initBuffer"})
    BY <1>3, <1>4, <1>10, SizeHeads
  <2>2. \A u \in Threads : HeadIn(u, {"setSize"})' => captureWidth = Aligned(asked)
    BY <1>2, <1>3, <1>4, <2>1 DEF SizeInv
  <2> QED
    BY <1>5, <1>7, <1>9, <1>10, <2>2 DEF SizeInv
<1>12. FormatInv'
  BY <1>3, <1>4, <1>7, <1>9, <1>10, FormatKept
<1>13. TypeOK'
  BY <1>9, <1>10, TypeKept DEF TypeOK, locks
<1>14. objs' = [objs EXCEPT ![encoder] = new]
  BY <1>1, <1>3, <1>7, <1>8, MethodStep DEF Like
<1> QED
  BY <1>5, <1>10, <1>11, <1>12, <1>13, <1>14 DEF RunInv, new

\* The picture counts as seen.
LEMMA SeenKeeps ==
  ASSUME TypeOK, RunInv, NEW t \in Threads, Seen(t)
  PROVE  TypeOK' /\ RunInv' /\ UNCHANGED <<fault, over>>
<1>1. At(t, "seen") /\ Local(t, <<>>) /\ seenFrames' = TRUE
      /\ UNCHANGED <<partCounter, firstCreate, captureWidth, asked, initialized, exitNextFrame, armed, endStuck, realEncoder>>
      /\ UNCHANGED <<soundOpen, playing, wfx, lostFormat, made>>
  BY DEF Seen, sound, control
<1>2. \A S : HeadIn(t, S) <=> "seen" \in S
  BY <1>1, HeadAt
<1>3. /\ "seen" \in Ordinary \ {"nextPart", "delete"} /\ HeadIn(t, Ordinary \ {"nextPart"})
      /\ HeadIn(t, Ordinary \ {"getFormat", "resumeSound", "nextPart"}) /\ "seen" \notin Sizings /\ ~HeadIn(t, {"initBuffer"})
  BY <1>2 DEF Ordinary, Steps, Ending, Sizings
<1>4. Live /\ CallersInv /\ SizeInv /\ FormatInv /\ encoder # Nobody
  BY <1>3, Starting
<1>5. /\ CallersInv' /\ EncoderInv' /\ FilesInv'
      /\ Continue(t, <<>>) /\ UNCHANGED <<encoder, objs, locks, fault, over>>
      /\ calls' \in [Threads -> Seq(Steps)] /\ objs' \in Seq(Encoder)
  BY <1>1, <1>3, AsideKeeps
<1>6. SizeInv'
  <2>1. /\ \A u \in Threads : \A S : Has(calls[u], S) <=> Has(calls'[u], S) \/ (u = t /\ calls[t][1] \in S)
        /\ \A u \in Threads : HeadIn(u, {"setSize"})' => HeadIn(u, {"setSize"})
        /\ \A u \in Threads : HeadIn(u, Blank)' => HeadIn(u, Blank)
        /\ calls[t][1] = "seen"
    BY <1>1, <1>3, <1>4, <1>5, SizeHeads, HeadAt
  <2>2. objs'[encoder'].size = captureWidth' \/ \E u \in Threads : Has(calls'[u], Sizings)
    BY <1>1, <1>3, <1>4, <1>5, <2>1 DEF SizeInv
  <2> QED
    BY <1>1, <1>4, <1>5, <2>1, <2>2 DEF SizeInv
<1>7. FormatInv'
  BY <1>1, <1>3, <1>4, <1>5, FormatKept
<1>8. TypeOK'
  BY <1>1, <1>5, TypeKept DEF TypeOK, locks
<1> QED
  BY <1>5, <1>6, <1>7, <1>8 DEF RunInv

\* The watchdog's timer is set: there is an encoder from now on.
LEMMA ArmKeeps ==
  ASSUME TypeOK, RunInv, NEW t \in Threads, Arm(t) \/ (Timing(t) /\ ~exitNextFrame)
  PROVE  TypeOK' /\ RunInv' /\ UNCHANGED <<fault, over>>
<1>1. PICK step \in {"arm", "timing"} : At(t, step)
  BY DEF Arm, Timing
<1>2. /\ Local(t, <<>>) /\ armed' = TRUE
      /\ UNCHANGED <<picture, sound, initialized, exitNextFrame, endStuck, realEncoder, made>>
  BY DEF Arm, Timing
<1>3. Continue(t, <<>>) /\ UNCHANGED <<encoder, objs, locks, fault, over>>
  BY <1>2 DEF Local
<1>4. Busy(t) /\ \A S : HeadIn(t, S) <=> step \in S
  BY <1>1, HeadAt
<1>5. HeadIn(t, Ordinary \ (Sizings \union {"destroyBuffer", "initBuffer", "seen", "nextPart", "getFormat", "resumeSound", "delete"}))
  BY <1>4 DEF Ordinary, Sizings, Steps, Ending
<1>6. RunInv'
  BY <1>2, <1>3, <1>5, LocalKeeps
<1>7. calls' \in [Threads -> Seq(Steps)]
  BY <1>3, <1>4, Popped DEF RunInv, CallersInv
<1>8. TypeOK'
  BY <1>2, <1>3, <1>7, TypeKept DEF TypeOK, picture, sound, locks
<1> QED
  BY <1>3, <1>6, <1>8

\* The capture buffer is exchanged; the encoder hears of it before the call writes.
LEMMA BufferKeeps ==
  ASSUME TypeOK, RunInv, NEW t \in Threads, DestroyBuffer(t) \/ InitBuffer(t)
  PROVE  TypeOK' /\ RunInv' /\ UNCHANGED <<fault, over>>
<1>1. PICK step \in {"destroyBuffer", "initBuffer"} :
        At(t, step) /\ captureWidth' = IF step = "initBuffer" THEN Aligned(asked) ELSE 0
  BY DEF DestroyBuffer, InitBuffer, SetBuffer
<1>2. /\ Local(t, <<>>) /\ UNCHANGED <<partCounter, seenFrames, firstCreate, asked, sound, control, made>>
  BY DEF DestroyBuffer, InitBuffer, SetBuffer
<1>3. /\ UNCHANGED <<initialized, exitNextFrame, armed, endStuck, realEncoder, soundOpen, playing, wfx, lostFormat>>
  BY <1>2 DEF sound, control
<1>4. calls[t][1] = step /\ \A S : HeadIn(t, S) <=> step \in S
  BY <1>1, HeadAt
<1>5. /\ step \in Ordinary \ {"nextPart", "delete"} /\ HeadIn(t, Ordinary \ {"nextPart"})
      /\ HeadIn(t, Ordinary \ {"getFormat", "resumeSound", "nextPart"}) /\ step \notin Sizings /\ ~HeadIn(t, {"setSize"})
      /\ HeadIn(t, Exchanges) /\ HeadIn(t, Blank) /\ step \in Unsized /\ (HeadIn(t, {"initBuffer"}) <=> step = "initBuffer")
  BY <1>4 DEF Ordinary, Steps, Ending, Sizings, Exchanges, Blank, Unsized
<1>6. Live /\ CallersInv /\ SizeInv /\ FormatInv /\ encoder # Nobody /\ Alone(t) /\ Busy(t) /\ encoder \in 1..Len(objs)
  BY <1>5, Starting, Undisturbed
<1>7. /\ CallersInv' /\ EncoderInv' /\ FilesInv'
      /\ Continue(t, <<>>) /\ UNCHANGED <<encoder, objs, locks, fault, over>>
      /\ calls' \in [Threads -> Seq(Steps)] /\ objs' \in Seq(Encoder)
  BY <1>1, <1>2, <1>3, <1>5, AsideKeeps
<1>8. Has(calls[t], Sizings)
  <2> DEFINE c == calls[t]
  <2>1. c \in Seq(Steps) /\ c # <<>> /\ Rest(c) /\ c[1] \in Unsized
    BY <1>4, <1>5, <1>6 DEF TypeOK, CallersInv, Busy
  <2> HIDE DEF c
  <2>2. Len(c) \in Nat /\ 1 \in 1..Len(c)
    BY <2>1, WithoutFirst
  <2>3. PICK j \in 2..Len(c) : c[j] \in Sizings
    BY <2>1, <2>2 DEF Rest
  <2>4. Has(c, Sizings)
    BY <2>2, <2>3 DEF Has
  <2> QED
    BY <2>4 DEF c
<1>9. SizeInv'
  <2>1. /\ \A u \in Threads : \A S : Has(calls[u], S) <=> Has(calls'[u], S) \/ (u = t /\ calls[t][1] \in S)
        /\ \A u \in Threads : HeadIn(u, {"setSize"})' => HeadIn(u, {"setSize"}) \/ HeadIn(t, {"initBuffer"})
    BY <1>5, <1>6, <1>7, SizeHeads
  <2>2. Has(calls'[t], Sizings)
    BY <1>4, <1>5, <1>8, <2>1
  <2>3. ~(objs[encoder].pictures)
    BY <1>5, <1>6 DEF SizeInv
  <2>4. ASSUME NEW u \in Threads, HeadIn(u, {"setSize"})' PROVE captureWidth' = Aligned(asked')
    <3>1. ~HeadIn(u, {"setSize"})
      BY <1>5, <1>6 DEF Alone, HeadIn
    <3> QED
      BY <1>1, <1>2, <1>5, <2>1, <2>4, <3>1
  <2> QED
    BY <1>7, <2>2, <2>3, <2>4 DEF SizeInv
<1>10. FormatInv'
  BY <1>3, <1>5, <1>6, <1>7, FormatKept
<1>11. captureWidth' \in {Aligned(w) : w \in Widths \union {0}}
  BY <1>1, AlignedNat DEF TypeOK
<1>12. TypeOK'
  BY <1>2, <1>3, <1>7, <1>11, TypeKept DEF TypeOK, locks
<1> QED
  BY <1>7, <1>9, <1>10, <1>12 DEF RunInv

\* Steps are put in by the only call there is.
LEMMA PutInKeeps ==
  ASSUME TypeOK, RunInv, NEW t \in Threads, HeadIn(t, {"resolution", "timing"}), Alone(t),
         NEW s \in Seq(Steps), s # <<>>, Rest(s), ~Has(s, Writings \union {"seen"}),
         s[1] \in {"need", "destroyBuffer", "enterShutdown"}, Continue(t, s),
         UNCHANGED <<encoder, objs, partCounter, initialized, playing, wfx, lostFormat>>, armed => armed'
  PROVE  /\ CallersInv' /\ EncoderInv' /\ FilesInv' /\ FormatInv' /\ Alone(t)' /\ calls'[t][1] = s[1]
         /\ calls' \in [Threads -> Seq(Steps)] /\ objs' \in Seq(Encoder)
         /\ \A S : Has(calls'[t], S) <=> Has(s, S) \/ Has(Tail(calls[t]), S)
         /\ \A S : Has(calls[t], S) <=> calls[t][1] \in S \/ Has(Tail(calls[t]), S)
<1>1. HeadIn(t, Ordinary \ {"nextPart"}) /\ calls[t][1] \notin Leading \union {"resumeSound", "terminate"}
      /\ calls[t][1] \notin Handing
  BY DEF HeadIn, Ordinary, Steps, Ending, Leading, Handing
<1>2. /\ Live /\ CallersInv /\ FilesInv /\ FormatInv /\ Busy(t) /\ encoder \in 1..Len(objs) /\ objs \in Seq(Encoder)
      /\ Rest(calls[t])
  BY <1>1, Starting DEF TypeOK, CallersInv
<1>3. objs' # <<>> /\ objs' \in Seq(Encoder)
  BY <1>2
<1>4. /\ calls' \in [Threads -> Seq(Steps)] /\ calls'[t][1] = s[1]
      /\ \A u \in Threads : u # t => calls'[u] = calls[u]
      /\ \A S : Has(calls'[t], S) <=> Has(s, S) \/ Has(Tail(calls[t]), S)
      /\ \A S : Has(calls[t], S) <=> calls[t][1] \in S \/ Has(Tail(calls[t]), S)
  BY <1>1, <1>2, PutIn
<1>5. CallersInv' /\ Alone(t)'
  BY <1>1, <1>2, <1>3, CallersPutIn
<1>6. Live'
  BY <1>2, LivePutIn
<1>7. FilesInv'
  BY <1>2, <1>3, <1>6, FilesKept
<1>8. FormatInv'
  <2>1. ASSUME NEW u \in Threads, HeadIn(u, Handing) PROVE FALSE
    BY <1>1, <2>1 DEF Alone, HeadIn
  <2>2. ~HeadIn(t, Handing)'
    BY <1>4 DEF HeadIn, Handing
  <2>3. ASSUME NEW u \in Threads, HeadIn(u, Handing)' PROVE FALSE
    BY <1>5, <2>2, <2>3 DEF Alone, HeadIn
  <2> QED
    BY <1>2, <2>1, <2>3 DEF FormatInv
<1> QED
  BY <1>3, <1>4, <1>5, <1>6, <1>7, <1>8 DEF EncoderInv

\* A new size is refused while there are pictures of the old one: it gets a new part.
LEMMA ResolutionKeeps ==
  ASSUME TypeOK, RunInv, NEW t \in Threads, Resolution(t)
  PROVE  TypeOK' /\ RunInv' /\ UNCHANGED <<fault, over>>
<1> DEFINE s == IF seenFrames THEN NewPart ELSE NewBuffer
<1>1. /\ At(t, "resolution") /\ UNCHANGED <<picture, sound, control, made>>
      /\ UNCHANGED <<encoder, objs, locks, fault, over>>
      /\ Continue(t, <<>>) \/ Continue(t, s)
  <2>1. Continue(t, <<>>) \/ Continue(t, (IF seenFrames THEN videoStartNextPart(FALSE) ELSE <<>>)
                       \o <<"destroyBuffer", "initBuffer", "setSize">>)
    BY DEF Resolution, Local
  <2>2. <<>> \o <<"destroyBuffer", "initBuffer", "setSize">> = NewBuffer
    BY DEF NewBuffer
  <2>3. (IF seenFrames THEN videoStartNextPart(FALSE) ELSE <<>>) \o <<"destroyBuffer", "initBuffer", "setSize">> = s
    BY <2>2 DEF NewPart
  <2>4. Continue(t, <<>>) \/ Continue(t, s)
    BY <2>1, <2>3
  <2> QED
    BY <2>4 DEF Resolution, Local, Quiet
<1>2. UNCHANGED <<partCounter, seenFrames, firstCreate, captureWidth, asked, initialized, exitNextFrame, armed,
                  endStuck, realEncoder, soundOpen, playing, wfx, lostFormat>>
  BY <1>1 DEF picture, sound, control
<1>3. calls[t][1] = "resolution" /\ \A S : HeadIn(t, S) <=> "resolution" \in S
  BY <1>1, HeadAt
<1>4. /\ HeadIn(t, Ordinary \ (Sizings \union {"destroyBuffer", "initBuffer", "seen", "nextPart", "getFormat", "resumeSound", "delete"}))
      /\ HeadIn(t, Ordinary \ {"nextPart"}) /\ HeadIn(t, Exchanges) /\ HeadIn(t, {"resolution", "timing"})
      /\ "resolution" \in Resizing
  BY <1>3 DEF Ordinary, Sizings, Steps, Ending, Exchanges, Resizing
<1>5. Live /\ CallersInv /\ SizeInv /\ Busy(t) /\ encoder # Nobody /\ Alone(t)
  BY <1>4, Starting, Undisturbed
<1>6. ASSUME calls' \in [Threads -> Seq(Steps)] PROVE TypeOK'
  <2>1. objs' \in Seq(Encoder) /\ Len(objs') = Len(objs)
    BY <1>1 DEF TypeOK
  <2> QED
    BY <1>1, <1>2, <1>6, <2>1, TypeKept DEF TypeOK, locks
<1>7. CASE Continue(t, <<>>)
  <2>1. RunInv'
    BY <1>1, <1>2, <1>4, <1>7, LocalKeeps
  <2>2. calls' \in [Threads -> Seq(Steps)]
    BY <1>5, <1>7, Popped DEF CallersInv
  <2> QED
    BY <1>1, <1>6, <2>1, <2>2
<1>8. CASE Continue(t, s)
  <2>1. /\ s \in Seq(Steps) /\ s # <<>> /\ Rest(s) /\ ~Has(s, Writings \union {"seen"})
        /\ s[1] = (IF seenFrames THEN "need" ELSE "destroyBuffer") /\ Len(s) \in 1..Len(s) /\ s[Len(s)] = "setSize"
    <3>1. CASE seenFrames
      <4>1. s = NewPart
        BY <3>1
      <4> HIDE DEF s
      <4>2. Len(NewPart) = 9 /\ 9 \in 1..9
        BY NewPartSteps
      <4>3. NewPart # <<>>
        BY <4>2
      <4> QED
        BY <3>1, <4>1, <4>2, <4>3, NewPartSteps
    <3>2. CASE ~seenFrames
      <4>1. s = NewBuffer
        BY <3>2
      <4> HIDE DEF s
      <4>2. Len(NewBuffer) = 3 /\ 3 \in 1..3
        BY BufferSteps
      <4>3. NewBuffer # <<>>
        BY <4>2
      <4> QED
        BY <3>2, <4>1, <4>2, <4>3, BufferSteps
    <3> QED
      BY <3>1, <3>2
  <2> HIDE DEF s
  <2>2. /\ CallersInv' /\ EncoderInv' /\ FilesInv' /\ FormatInv' /\ Alone(t)' /\ calls'[t][1] = s[1]
        /\ calls' \in [Threads -> Seq(Steps)]
        /\ \A S : Has(calls'[t], S) <=> Has(s, S) \/ Has(Tail(calls[t]), S)
        /\ \A S : Has(calls[t], S) <=> calls[t][1] \in S \/ Has(Tail(calls[t]), S)
    BY <1>1, <1>2, <1>4, <1>5, <1>8, <2>1, PutInKeeps
  <2>3. Has(calls'[t], Sizings)
    <3>1. Has(s, Sizings)
      BY <2>1 DEF Has, Sizings
    <3> QED
      BY <2>2, <3>1
  <2>4. ASSUME NEW u \in Threads, HeadIn(u, {"setSize"})' PROVE FALSE
    <3>1. u = t
      BY <2>2, <2>4 DEF Alone, HeadIn
    <3> QED
      BY <2>1, <2>2, <2>4, <3>1 DEF HeadIn
  <2>5. objs[encoder].pictures => seenFrames
    <3>1. ASSUME NEW u \in Threads, Has(calls[u], {"seen"}), ~Has(calls[u], Resizing) PROVE FALSE
      <4>1. CASE u = t
        BY <1>3, <1>4, <2>2, <3>1, <4>1
      <4>2. CASE u # t
        <5>1. calls[u] = <<>>
          BY <1>5, <4>2 DEF Alone, Busy
        <5> QED
          BY <3>1, <5>1, NoSteps
      <4> QED
        BY <4>1, <4>2
    <3> QED
      BY <1>5, <3>1 DEF SizeInv
  <2>6. ASSUME seenFrames, NEW u \in Threads, HeadIn(u, Blank)' PROVE FALSE
    <3>1. u = t
      BY <2>2, <2>6 DEF Alone, HeadIn
    <3> QED
      BY <2>1, <2>2, <2>6, <3>1 DEF HeadIn, Blank
  <2>7. SizeInv'
    BY <1>1, <1>2, <2>3, <2>4, <2>5, <2>6 DEF SizeInv
  <2> QED
    BY <1>1, <1>6, <2>2, <2>7 DEF RunInv
<1> QED
  BY <1>1, <1>7, <1>8

\* A clean exit that was asked for begins in a call that is alone since then.
LEMMA TimingExitKeeps ==
  ASSUME TypeOK, RunInv, NEW t \in Threads, Timing(t), exitNextFrame
  PROVE  TypeOK' /\ RunInv' /\ UNCHANGED <<fault, over>>
<1> DEFINE s == Mine_ExitProcess
<1>1. /\ At(t, "timing") /\ armed' = TRUE
      /\ UNCHANGED <<encoder, objs, locks, fault, over, made>> /\ Continue(t, s)
  BY DEF Timing, Local
<1>2. UNCHANGED <<partCounter, seenFrames, firstCreate, captureWidth, asked, initialized, exitNextFrame,
                  endStuck, realEncoder, soundOpen, playing, wfx, lostFormat>>
  BY DEF Timing, picture, sound
<1>3. calls[t][1] = "timing" /\ \A S : HeadIn(t, S) <=> "timing" \in S
  BY <1>1, HeadAt
<1>4. /\ HeadIn(t, Ordinary \ {"nextPart"}) /\ HeadIn(t, {"resolution", "timing"})
      /\ "timing" \notin Sizings \union {"seen"} \union Resizing
  BY <1>3 DEF Ordinary, Sizings, Steps, Ending, Resizing
<1>5. Live /\ CallersInv /\ SizeInv /\ Busy(t) /\ encoder # Nobody /\ initialized
  BY <1>4, Starting DEF Live
<1>6. Alone(t)
  <2>1. 1 \in 1..Len(calls[t])
    <3>1. calls[t] \in Seq(Steps) /\ calls[t] # <<>>
      BY <1>5 DEF TypeOK, Busy
    <3> QED
      BY <3>1, WithoutFirst
  <2>2. Has(calls[t], {"timing"})
    BY <1>3, <2>1 DEF Has
  <2> QED
    BY <1>5, <2>2 DEF CallersInv, Disturbs
<1>7. /\ s \in Seq(Steps) /\ s # <<>> /\ Rest(s) /\ ~Has(s, Writings \union {"seen"}) /\ ~Has(s, Resizing)
      /\ s[1] = "enterShutdown"
  BY <1>5, ExitSteps
<1> HIDE DEF s
<1>8. /\ CallersInv' /\ EncoderInv' /\ FilesInv' /\ FormatInv' /\ Alone(t)' /\ calls'[t][1] = s[1]
      /\ calls' \in [Threads -> Seq(Steps)] /\ objs' \in Seq(Encoder)
      /\ \A S : Has(calls'[t], S) <=> Has(s, S) \/ Has(Tail(calls[t]), S)
      /\ \A S : Has(calls[t], S) <=> calls[t][1] \in S \/ Has(Tail(calls[t]), S)
  BY <1>1, <1>2, <1>4, <1>6, <1>7, PutInKeeps
<1>9. \A u \in Threads : u # t => ~Busy(u) /\ ~Busy(u)'
  BY <1>6, <1>8 DEF Alone
<1>10. \A u \in Threads : \A S : u # t => ~Has(calls[u], S)
  BY <1>9, NoSteps DEF Busy
<1>11. SizeInv'
  <2>1. Has(calls[t], Sizings) => Has(calls'[t], Sizings)
    BY <1>3, <1>4, <1>8
  <2>2. Has(calls[t], {"seen"}) /\ ~Has(calls[t], Resizing) => Has(calls'[t], {"seen"}) /\ ~Has(calls'[t], Resizing)
    BY <1>3, <1>4, <1>7, <1>8
  <2>3. objs'[encoder'].size = captureWidth' \/ \E u \in Threads : Has(calls'[u], Sizings)
    BY <1>1, <1>2, <1>5, <1>10, <2>1 DEF SizeInv
  <2>4. ASSUME NEW u \in Threads, HeadIn(u, Blank)' PROVE FALSE
    <3>1. u = t
      BY <1>9, <2>4 DEF HeadIn
    <3> QED
      BY <1>7, <1>8, <2>4, <3>1 DEF HeadIn, Blank
  <2>5. \A u \in Threads : ~HeadIn(u, {"setSize"})'
    BY <2>4 DEF HeadIn, Blank
  <2>6. objs'[encoder'].pictures => seenFrames' \/ \E u \in Threads : Has(calls'[u], {"seen"}) /\ ~Has(calls'[u], Resizing)
    BY <1>1, <1>2, <1>5, <1>10, <2>2 DEF SizeInv
  <2> QED
    BY <2>3, <2>4, <2>5, <2>6 DEF SizeInv
<1>12. TypeOK'
  <2>1. Len(objs') = Len(objs)
    BY <1>1
  <2> QED
    BY <1>1, <1>2, <1>8, <2>1, TypeKept DEF TypeOK, locks
<1> QED
  BY <1>1, <1>8, <1>11, <1>12 DEF RunInv

-----------------------------------------------------------------------------
(* The steps that exchange the encoder, each taken by the only call there is. *)

\* What a step changes when no other call is under way.
LEMMA OnlyCall ==
  ASSUME TypeOK, CallersInv, NEW t \in Threads, Busy(t), Alone(t), Continue(t, <<>>)
  PROVE  /\ calls' \in [Threads -> Seq(Steps)]
         /\ Busy(t)' => Fits(calls[t][1], calls'[t][1])
         /\ calls[t][1] \in Leading => Busy(t)'
         /\ \A u \in Threads : \A S : HeadIn(u, S) <=> u = t /\ calls[t][1] \in S
         /\ \A u \in Threads : \A S : HeadIn(u, S)' <=> u = t /\ Busy(t)' /\ calls'[t][1] \in S
         /\ \A u \in Threads : \A S : Has(calls[u], S) <=> u = t /\ (calls[t][1] \in S \/ Has(calls'[t], S))
         /\ \A u \in Threads : \A S : Has(calls'[u], S) <=> u = t /\ Has(calls'[t], S)
         /\ \A u \in Threads : Busy(u)' => u = t
<1>1. /\ calls' \in [Threads -> Seq(Steps)] /\ \A u \in Threads : u # t => calls'[u] = calls[u]
      /\ Busy(t)' => Fits(calls[t][1], calls'[t][1])
      /\ calls[t][1] \in Leading => Busy(t)'
      /\ \A S : Has(calls[t], S) <=> calls[t][1] \in S \/ Has(calls'[t], S)
  BY Popped DEF CallersInv
<1>2. \A u \in Threads : u # t => calls[u] = <<>> /\ calls'[u] = <<>>
  BY <1>1 DEF Alone, Busy
<1>3. \A u \in Threads : \A S : u # t => ~Has(calls[u], S) /\ ~Has(calls'[u], S)
  BY <1>2, NoSteps
<1>4. \A u \in Threads : \A S : u # t => ~HeadIn(u, S) /\ ~HeadIn(u, S)'
  BY <1>2 DEF HeadIn, Busy
<1>5. \A S : (HeadIn(t, S) <=> calls[t][1] \in S) /\ (HeadIn(t, S)' <=> Busy(t)' /\ calls'[t][1] \in S)
  BY DEF HeadIn
<1>6. \A u \in Threads : Busy(u)' => u = t
  BY <1>2 DEF Busy
<1> QED
  BY <1>1, <1>3, <1>4, <1>5, <1>6

\* Nothing else is there before the first encoder.
LEMMA FreshKept ==
  ASSUME Fresh', partCounter' > 0
  PROVE  EncoderInv' /\ FilesInv' /\ SizeInv' /\ FormatInv'
<1>1. \A t \in Threads : \A S : HeadIn(t, S)' => HeadIn(t, {"need", "create", "enterShutdown", "takeEncoder"})'
  BY DEF Fresh, HeadIn
<1>2. (~\E t \in Threads : HeadIn(t, {"deleteEncoder"})') /\ objs' = <<>>
  BY <1>1 DEF Fresh, HeadIn
<1>3. Len(objs') = 0 /\ DOMAIN objs' = 1..0
  BY <1>2
<1>4. FilesInv'
  BY <1>2, <1>3 DEF FilesInv, FilesDistinct
<1> QED
  BY <1>4 DEF EncoderInv, SizeInv, FormatInv, Fresh

\* The call that creates, takes or deletes an encoder at the end finds none.
LEMMA AtEnd ==
  ASSUME TypeOK, RunInv, NEW t \in Threads, HeadIn(t, {"createPart"} \union Ending)
  PROVE  /\ Between /\ Alone(t) /\ Busy(t) /\ encoder = Nobody
         /\ CallersInv /\ FilesInv /\ FormatInv
         /\ initialized \/ HeadIn(t, {"leaveShutdown", "terminate"})
         /\ ~HeadIn(t, {"deleteEncoder"}) => \A e \in 1..Len(objs) : objs[e].deleted
<1>1. CallersInv /\ EncoderInv /\ FilesInv /\ FormatInv /\ Busy(t)
  BY DEF RunInv, HeadIn
<1>2. Between
  BY <1>1 DEF EncoderInv, Fresh, Live, HeadIn, Ending
<1>3. Alone(t) /\ (initialized \/ HeadIn(t, {"leaveShutdown", "terminate"})) /\ encoder = Nobody
  BY <1>1, <1>2, WhoIsBetween DEF Between
<1>4. ASSUME ~HeadIn(t, {"deleteEncoder"}) PROVE \A e \in 1..Len(objs) : objs[e].deleted
  <2>1. \A u \in Threads : ~HeadIn(u, {"deleteEncoder"})
    BY <1>3, <1>4 DEF Alone, HeadIn
  <2>2. Nobody \notin 1..Len(objs)
    <3>1. Nobody \notin Nat
      BY LifecycleAssumption
    <3>2. 1..Len(objs) \subseteq Nat
      OBVIOUS
    <3> QED
      BY <3>1, <3>2
  <2> QED
    BY <1>1, <1>3, <2>1, <2>2 DEF FilesInv
<1> QED
  BY <1>1, <1>2, <1>3, <1>4

\* A new encoder: empty, open, with the part it was created for.
LEMMA CreatedFor ==
  ASSUME TypeOK, CallersInv, NEW t \in Threads, Busy(t), NEW file \in Nat, CreateFor(t, file)
  PROVE  /\ TypeOK' /\ CallersInv' /\ Continue(t, <<>>)
         /\ encoder' = Len(objs) + 1 /\ Len(objs') = Len(objs) + 1 /\ encoder' # Nobody /\ Len(objs) \in Nat
         /\ \A e \in 1..Len(objs) : objs'[e] = objs[e]
         /\ objs'[encoder'].file = file /\ objs'[encoder'].size = 0 /\ ~objs'[encoder'].pictures
         /\ ~objs'[encoder'].deleted
         /\ UNCHANGED <<partCounter, seenFrames, firstCreate, captureWidth, asked, initialized, exitNextFrame, armed,
                        endStuck, realEncoder, soundOpen, playing, wfx, lostFormat, fault, over>>
<1> DEFINE new == [file |-> file, size |-> 0, format |-> FALSE, aud |-> FALSE, pictures |-> FALSE, deleted |-> FALSE]
<1>1. objs' = Append(objs, new) /\ encoder' = Len(objs') /\ Continue(t, <<>>)
  BY DEF CreateFor
<1>2. new \in Encoder /\ new.file = file /\ new.size = 0 /\ ~new.pictures /\ ~new.deleted
  BY DEF Encoder
<1> HIDE DEF new
<1>3. /\ objs' \in Seq(Encoder) /\ Len(objs') = Len(objs) + 1 /\ Len(objs) \in Nat
      /\ \A e \in 1..Len(objs) : objs'[e] = objs[e]
      /\ objs'[Len(objs) + 1] = new
  <2>1. objs \in Seq(Encoder)
    BY DEF TypeOK
  <2> QED
    BY <1>1, <1>2, <2>1
<1>4. encoder' # Nobody
  BY <1>1, <1>3, LifecycleAssumption
<1>5. UNCHANGED <<partCounter, seenFrames, firstCreate, captureWidth, asked, initialized, exitNextFrame, armed,
                  endStuck, realEncoder, soundOpen, playing, wfx, lostFormat, fault, over, made>> /\ UNCHANGED locks
  BY DEF CreateFor, picture, sound, control
<1>6. CallersInv'
  <2>1. objs' # <<>>
    BY <1>3
  <2> QED
    BY <1>1, <1>5, <2>1, CallersPopped
<1>7. calls' \in [Threads -> Seq(Steps)]
  BY <1>1, Popped DEF CallersInv
<1>8. TypeOK'
  <2>1. encoder' \in 1..Len(objs')
    BY <1>1, <1>3
  <2>2. 1..Len(objs) \subseteq 1..Len(objs')
    BY <1>3
  <2>3. realEncoder' \in 1..Len(objs') \union {Nobody}
    BY <1>5, <2>2 DEF TypeOK
  <2> QED
    BY <1>3, <1>5, <1>7, <2>1, <2>3 DEF TypeOK, locks
<1> QED
  BY <1>1, <1>2, <1>3, <1>4, <1>5, <1>6, <1>8

\* The first encoder.
LEMMA CreateKeeps ==
  ASSUME TypeOK, RunInv, NEW t \in Threads, Create(t)
  PROVE  TypeOK' /\ RunInv' /\ UNCHANGED <<fault, over>>
<1>1. At(t, "create") /\ CreateFor(t, 1)
  BY DEF Create
<1>2. Busy(t) /\ calls[t][1] = "create" /\ \A S : HeadIn(t, S) <=> "create" \in S
  BY <1>1, HeadAt
<1>3. CallersInv /\ EncoderInv /\ FilesInv
  BY DEF RunInv
<1>4. Fresh
  <2>1. ~Live
    BY <1>2 DEF Live
  <2>2. ~Between
    BY <1>2, <1>3, WhoIsBetween DEF Ending
  <2> QED
    BY <1>3, <2>1, <2>2 DEF EncoderInv
<1>5. Alone(t)
  BY <1>2, <1>3, <1>4, NobodyThere DEF Fresh
<1>6. /\ TypeOK' /\ CallersInv' /\ Continue(t, <<>>)
      /\ encoder' = Len(objs) + 1 /\ Len(objs') = Len(objs) + 1 /\ encoder' # Nobody
      /\ objs'[encoder'].file = 1 /\ objs'[encoder'].size = 0 /\ ~objs'[encoder'].pictures
      /\ ~objs'[encoder'].deleted
      /\ UNCHANGED <<partCounter, captureWidth, initialized, playing, fault, over>>
  BY <1>1, <1>2, <1>3, CreatedFor
<1>7. Len(objs) = 0 /\ encoder' = 1 /\ Len(objs') = 1 /\ captureWidth = 0 /\ ~playing /\ initialized
  BY <1>4, <1>6 DEF Fresh
<1>8. \A u \in Threads : ~HeadIn(u, {"create", "createPart", "nextPart", "setSize"} \union Ending)'
  <2>1. ASSUME Fits("create", calls'[t][1])
        PROVE  calls'[t][1] \notin {"create", "createPart", "nextPart", "setSize"} \union Ending
    BY <2>1 DEF Fits, Ending
  <2> QED
    BY <1>2, <1>3, <1>5, <1>6, <2>1, OnlyCall
<1>9. Live'
  BY <1>6, <1>7, <1>8 DEF Live, HeadIn
<1>10. FilesInv'
  <2>1. DOMAIN objs' = 1..1
    <3>1. objs' \in Seq(Encoder)
      BY <1>6 DEF TypeOK
    <3> QED
      BY <1>7, <3>1
  <2>2. FilesDistinct'
    BY <2>1 DEF FilesDistinct
  <2>3. \A u \in Threads : ~HeadIn(u, {"createPart"})' /\ ~HeadIn(u, {"deleteEncoder"})'
    BY <1>8 DEF HeadIn, Ending
  <2>4. partCounter' > 0 /\ partCounter' \in Nat
    BY <1>3, <1>6 DEF FilesInv, TypeOK
  <2>5. \A e \in 1..Len(objs') : e = encoder' /\ objs'[e].file <= partCounter'
    BY <1>6, <1>7, <2>4
  <2> QED
    BY <2>2, <2>3, <2>4, <2>5 DEF FilesInv
<1>11. SizeInv'
  BY <1>6, <1>7, <1>8 DEF SizeInv, HeadIn
<1>12. FormatInv'
  BY <1>6, <1>7 DEF FormatInv
<1> QED
  BY <1>6, <1>9, <1>10, <1>11, <1>12 DEF RunInv, EncoderInv

\* An encoder is needed; the first one is created.
LEMMA NeedKeeps ==
  ASSUME TypeOK, RunInv, NEW t \in Threads, Need(t)
  PROVE  TypeOK' /\ RunInv' /\ UNCHANGED <<fault, over>>
<1> DEFINE a == calls[t][1]
           b == calls'[t][1]
<1>1. /\ At(t, "need") /\ UNCHANGED <<encoder, objs, picture, locks, sound, control, made, fault, over>>
      /\ Continue(t, IF encoder = Nobody THEN <<"create">> ELSE <<>>)
  BY DEF Need, Local, Quiet
<1>2. UNCHANGED <<partCounter, seenFrames, firstCreate, captureWidth, asked, initialized, exitNextFrame, armed,
                  endStuck, realEncoder, soundOpen, playing, wfx, lostFormat>>
  BY <1>1 DEF picture, sound, control
<1>3. Busy(t) /\ a = "need" /\ \A S : HeadIn(t, S) <=> "need" \in S
  BY <1>1, HeadAt
<1>4. CallersInv /\ EncoderInv /\ FilesInv /\ SizeInv /\ FormatInv
  BY DEF RunInv
<1>5. ~Between
  BY <1>3, <1>4, WhoIsBetween DEF Ending
<1>6. ASSUME calls' \in [Threads -> Seq(Steps)] PROVE TypeOK'
  <2>1. objs' \in Seq(Encoder) /\ Len(objs') = Len(objs)
    BY <1>1 DEF TypeOK
  <2> QED
    BY <1>1, <1>2, <1>6, <2>1, TypeKept DEF TypeOK, locks
<1>7. CASE Fresh
  <2> DEFINE s == <<"create">>
  <2>1. Continue(t, s)
    BY <1>1, <1>7 DEF Fresh
  <2>2. s \in Seq(Steps) /\ Len(s) = 1 /\ s[1] = "create" /\ Rest(s)
    <3>1. "create" \in Steps \ (Leading \union Writings \union Unsized)
      BY DEF Steps, Leading, Writings, Unsized
    <3> QED
      BY <3>1, OneStep
  <2> HIDE DEF s
  <2>3. s # <<>> /\ ~Has(s, Writings \union {"seen"})
    BY <2>2 DEF Has, Writings
  <2>4. Alone(t)
    BY <1>3, <1>4, <1>7, NobodyThere DEF Fresh
  <2>5. a \notin Leading \union {"resumeSound", "terminate"}
    BY <1>3 DEF Leading
  <2>6. /\ calls' \in [Threads -> Seq(Steps)] /\ \A u \in Threads : u # t => calls'[u] = calls[u]
        /\ Busy(t)' /\ b = "create"
    BY <1>3, <1>4, <2>1, <2>2, <2>3, <2>5, PutIn DEF CallersInv
  <2>7. CallersInv'
    BY <1>1, <1>2, <1>3, <1>4, <2>1, <2>2, <2>3, <2>4, <2>5, CallersPutIn DEF CallersInv
  <2>8. \A u \in Threads : (Busy(u)' <=> Busy(u)) /\ (Busy(u)' => u = t)
    BY <1>3, <2>4, <2>6 DEF Alone, Busy
  <2>9. Fresh'
    <3>1. "program" \in Threads
      BY DEF Threads
    <3>2. HeadIn(t, {"need", "create", "enterShutdown", "takeEncoder"})'
      BY <2>6 DEF HeadIn
    <3>3. \A u \in Threads : Busy(u)' => HeadIn(u, {"need", "create", "enterShutdown", "takeEncoder"})'
      BY <2>8, <3>2
    <3> QED
      BY <1>1, <1>2, <1>7, <2>8, <3>1, <3>3 DEF Fresh
  <2>10. EncoderInv' /\ FilesInv' /\ SizeInv' /\ FormatInv'
    BY <1>2, <1>4, <2>9, FreshKept DEF FilesInv
  <2> QED
    BY <1>1, <1>6, <2>6, <2>7, <2>10 DEF RunInv
<1>8. CASE Live
  <2>1. encoder # Nobody /\ Continue(t, <<>>)
    BY <1>1, <1>8 DEF Live
  <2>2. /\ calls' \in [Threads -> Seq(Steps)] /\ \A u \in Threads : u # t => calls'[u] = calls[u]
        /\ Busy(t)' => Fits(a, b)
        /\ \A S : Has(calls[t], S) <=> a \in S \/ Has(calls'[t], S)
    BY <1>3, <1>4, <2>1, Popped DEF CallersInv
  <2>3. \A u \in Threads : \A S : u # t => (HeadIn(u, S)' <=> HeadIn(u, S)) /\ (Has(calls'[u], S) <=> Has(calls[u], S))
    BY <2>2 DEF HeadIn, Busy
  <2>4. \A S : HeadIn(t, S)' <=> Busy(t)' /\ b \in S
    BY DEF HeadIn
  <2> DEFINE special == {"create", "createPart", "nextPart", "setSize"} \union Ending \union Blank \union Handing
  <2>5. "need" \notin special \union Sizings \union Resizing \union {"seen"}
    BY DEF Ending, Blank, Handing, Sizings, Resizing
  <2>6. ~HeadIn(t, special) /\ ~HeadIn(t, special)'
    <3>1. Fits("need", b) => b \notin special
      BY DEF Fits, Ending, Blank, Handing
    <3> HIDE DEF special
    <3> QED
      BY <1>3, <2>2, <2>4, <2>5, <3>1
  <2>7. ASSUME NEW S \in SUBSET special, NEW u \in Threads PROVE HeadIn(u, S)' <=> HeadIn(u, S)
    <3> HIDE DEF special
    <3>1. CASE u = t
      BY <1>3, <2>4, <2>6, <3>1
    <3>2. CASE u # t
      BY <2>3, <3>2
    <3> QED
      BY <3>1, <3>2
  <2>8. \A u \in Threads :
          /\ HeadIn(u, {"create", "createPart"} \union Ending)' <=> HeadIn(u, {"create", "createPart"} \union Ending)
          /\ HeadIn(u, {"nextPart"})' <=> HeadIn(u, {"nextPart"})
          /\ HeadIn(u, {"setSize"})' <=> HeadIn(u, {"setSize"})
          /\ HeadIn(u, Blank)' <=> HeadIn(u, Blank)
          /\ HeadIn(u, Handing)' <=> HeadIn(u, Handing)
    <3>1. {{"create", "createPart"} \union Ending, {"nextPart"}, {"setSize"}, Blank, Handing} \subseteq SUBSET special
      OBVIOUS
    <3> HIDE DEF special
    <3> QED
      BY <2>7, <3>1
  <2>9. \A u \in Threads : \A S : S \in {Sizings, Resizing, {"seen"}} => (Has(calls'[u], S) <=> Has(calls[u], S))
    BY <1>3, <2>2, <2>3, <2>5
  <2>10. objs # <<>>
    <3>1. encoder \in 1..Len(objs) /\ objs \in Seq(Encoder)
      BY <2>1 DEF TypeOK
    <3> QED
      BY <3>1
  <2>11. CallersInv'
    BY <1>1, <1>2, <1>3, <1>4, <2>1, <2>10, CallersPopped
  <2>12. Live'
    BY <1>1, <1>2, <1>8, <2>8 DEF Live
  <2>13. FilesInv'
    BY <1>1, <1>2, <1>4, <1>8, <2>12, FilesKept DEF TypeOK
  <2>14. SizeInv'
    BY <1>1, <1>2, <1>4, <2>8, <2>9 DEF SizeInv
  <2>15. FormatInv'
    BY <1>1, <1>2, <1>4, <2>8 DEF FormatInv
  <2> QED
    BY <1>1, <1>6, <2>2, <2>11, <2>12, <2>13, <2>14, <2>15 DEF RunInv, EncoderInv
<1> QED
  BY <1>4, <1>5, <1>7, <1>8 DEF EncoderInv

\* The pointer is cleared: the last part is finished, and the next one has a number of its own.
LEMMA NextPartKeeps ==
  ASSUME TypeOK, RunInv, NEW t \in Threads, NextPart(t)
  PROVE  TypeOK' /\ RunInv' /\ UNCHANGED <<fault, over>>
<1>1. /\ At(t, "nextPart") /\ encoder' = Nobody /\ partCounter' = partCounter + 1 /\ seenFrames' = FALSE
      /\ Continue(t, <<>>) /\ UNCHANGED <<objs, firstCreate, captureWidth, asked, locks, sound, control, made, fault, over>>
  BY DEF NextPart
<1>2. UNCHANGED <<initialized, exitNextFrame, armed, endStuck, realEncoder, soundOpen, playing, wfx, lostFormat>>
  BY <1>1 DEF sound, control
<1>3. Busy(t) /\ calls[t][1] = "nextPart" /\ \A S : HeadIn(t, S) <=> "nextPart" \in S
  BY <1>1, HeadAt
<1>4. HeadIn(t, Ordinary) /\ HeadIn(t, Exchanges) /\ HeadIn(t, Handing) /\ HeadIn(t, {"nextPart"}) /\ "nextPart" \in Leading
  BY <1>3 DEF Ordinary, Steps, Ending, Exchanges, Handing, Leading
<1>5. CallersInv /\ EncoderInv /\ FilesInv /\ FormatInv /\ Alone(t)
  BY <1>4, Undisturbed DEF RunInv
<1>6. Live
  BY <1>4, <1>5, WhenLive
<1>7. /\ calls' \in [Threads -> Seq(Steps)]
      /\ Busy(t)' /\ Fits("nextPart", calls'[t][1])
      /\ \A u \in Threads : \A S : HeadIn(u, S)' <=> u = t /\ calls'[t][1] \in S
  BY <1>1, <1>3, <1>4, <1>5, OnlyCall
<1>8. \A u \in Threads : \A S : HeadIn(u, S)' <=> u = t /\ "createPart" \in S
  BY <1>7 DEF Fits
<1>9. CallersInv'
  BY <1>1, <1>2, <1>3, <1>5, CallersPopped DEF CallersInv
<1>10. Between'
  BY <1>1, <1>2, <1>6, <1>8 DEF Between, Live
<1>11. FilesInv'
  <2>1. partCounter \in Nat /\ partCounter' \in Nat /\ partCounter' > 0 /\ partCounter < partCounter'
    <3>1. partCounter \in Nat
      BY DEF TypeOK
    <3> QED
      BY <1>1, <3>1
  <2>2. \A e \in 1..Len(objs) : objs[e].file <= partCounter /\ objs[e].file \in Nat
    <3>1. objs \in Seq(Encoder)
      BY DEF TypeOK
    <3>2. \A e \in 1..Len(objs) : objs[e] \in Encoder
      BY <3>1
    <3> QED
      BY <1>5, <3>2, FieldsOf DEF FilesInv
  <2>3. \A e \in 1..Len(objs') : objs'[e].file < partCounter'
    BY <1>1, <2>1, <2>2
  <2>4. \A e \in 1..Len(objs') : objs'[e].deleted
    <3>1. ~\E u \in Threads : HeadIn(u, {"deleteEncoder"})
      BY <1>6 DEF Live, HeadIn, Ending
    <3> QED
      BY <1>1, <1>4, <1>5, <1>6, <3>1 DEF FilesInv, Live
  <2>5. FilesDistinct'
    BY <1>1, <1>5 DEF FilesInv, FilesDistinct
  <2>6. ~\E u \in Threads : HeadIn(u, {"deleteEncoder"})'
    BY <1>8
  <2>7. \A e \in 1..Len(objs') : objs'[e].file <= partCounter'
    BY <1>1, <2>1, <2>2
  <2> QED
    BY <2>1, <2>3, <2>4, <2>5, <2>6, <2>7 DEF FilesInv
<1>12. SizeInv'
  BY <1>1 DEF SizeInv
<1>13. FormatInv'
  BY <1>1, <1>2, <1>4, <1>5 DEF FormatInv
<1>14. TypeOK'
  <2>1. objs' \in Seq(Encoder) /\ Len(objs') = Len(objs)
    BY <1>1 DEF TypeOK
  <2>2. partCounter' \in Nat
    <3>1. partCounter \in Nat
      BY DEF TypeOK
    <3> QED
      BY <1>1, <3>1
  <2> QED
    BY <1>1, <1>2, <1>7, <2>1, <2>2 DEF TypeOK, locks
<1> QED
  BY <1>1, <1>9, <1>10, <1>11, <1>12, <1>13, <1>14 DEF RunInv, EncoderInv

\* The next part, in a file that no part had before.
LEMMA CreatePartKeeps ==
  ASSUME TypeOK, RunInv, NEW t \in Threads, CreatePart(t)
  PROVE  TypeOK' /\ RunInv' /\ UNCHANGED <<fault, over>>
<1>1. At(t, "createPart") /\ CreateFor(t, partCounter)
  BY DEF CreatePart
<1>2. Busy(t) /\ calls[t][1] = "createPart" /\ \A S : HeadIn(t, S) <=> "createPart" \in S
  BY <1>1, HeadAt
<1>3. /\ HeadIn(t, {"createPart"} \union Ending) /\ HeadIn(t, {"createPart"}) /\ HeadIn(t, Handing)
      /\ ~HeadIn(t, {"leaveShutdown", "terminate"}) /\ ~HeadIn(t, {"deleteEncoder"}) /\ "createPart" \in Leading
      /\ "createPart" \in Unsized /\ "createPart" \notin Sizings
  BY <1>2 DEF Handing, Leading, Unsized, Sizings
<1>4. /\ Alone(t) /\ CallersInv /\ FilesInv /\ FormatInv /\ initialized
      /\ \A e \in 1..Len(objs) : objs[e].deleted
  BY <1>3, AtEnd
<1>5. partCounter \in Nat
  BY DEF TypeOK
<1>6. /\ TypeOK' /\ CallersInv' /\ Continue(t, <<>>)
      /\ encoder' = Len(objs) + 1 /\ Len(objs') = Len(objs) + 1 /\ encoder' # Nobody /\ Len(objs) \in Nat
      /\ \A e \in 1..Len(objs) : objs'[e] = objs[e]
      /\ objs'[encoder'].file = partCounter /\ objs'[encoder'].size = 0 /\ ~objs'[encoder'].pictures
      /\ ~objs'[encoder'].deleted
      /\ UNCHANGED <<partCounter, initialized, playing, wfx, lostFormat, fault, over>>
  BY <1>1, <1>2, <1>4, <1>5, CreatedFor
<1>7. /\ Busy(t)' /\ Fits("createPart", calls'[t][1])
      /\ \A u \in Threads : \A S : HeadIn(u, S)' <=> u = t /\ calls'[t][1] \in S
      /\ Has(calls[t], Sizings) <=> Has(calls'[t], Sizings)
  BY <1>2, <1>3, <1>4, <1>6, OnlyCall
<1>8. calls'[t][1] \in {"autoSize", "resumeSound"}
  BY <1>7 DEF Fits
<1>9. /\ \A u \in Threads : ~HeadIn(u, {"create", "createPart", "nextPart", "setSize"} \union Ending)'
      /\ HeadIn(t, Handing)'
  BY <1>7, <1>8 DEF Ending, Handing
<1>10. Live'
  BY <1>4, <1>6, <1>9 DEF Live, HeadIn
<1>11. FilesInv'
  <2>1. objs \in Seq(Encoder) /\ objs' \in Seq(Encoder)
    BY <1>6 DEF TypeOK
  <2>2. DOMAIN objs = 1..Len(objs) /\ DOMAIN objs' = 1..Len(objs')
    BY <2>1
  <2>3. \A e \in 1..Len(objs) : objs[e].file < partCounter /\ objs[e].file \in Nat
    <3>1. \A e \in 1..Len(objs) : objs[e] \in Encoder
      BY <2>1
    <3> QED
      BY <1>3, <1>4, <3>1, FieldsOf DEF FilesInv
  <2>4. \A e \in 1..Len(objs') : e \in 1..Len(objs) \/ e = encoder'
    BY <1>6
  <2>5. FilesDistinct'
    <3> SUFFICES ASSUME NEW i \in 1..Len(objs'), NEW j \in 1..Len(objs'), i # j
                 PROVE  objs'[i].file # objs'[j].file
      BY <2>2 DEF FilesDistinct
    <3>1. CASE i \in 1..Len(objs) /\ j \in 1..Len(objs)
      BY <1>4, <1>6, <2>2, <3>1 DEF FilesInv, FilesDistinct
    <3>2. CASE i = encoder' /\ j \in 1..Len(objs)
      BY <1>5, <1>6, <2>3, <3>2
    <3>3. CASE j = encoder' /\ i \in 1..Len(objs)
      BY <1>5, <1>6, <2>3, <3>3
    <3> QED
      BY <2>4, <3>1, <3>2, <3>3
  <2>6. \A e \in 1..Len(objs') : objs'[e].file <= partCounter'
    BY <1>5, <1>6, <2>3, <2>4
  <2>7. \A e \in 1..Len(objs') : ~objs'[e].deleted => e = encoder'
    BY <1>4, <1>6, <2>4
  <2>8. \A u \in Threads : ~HeadIn(u, {"createPart"})' /\ ~HeadIn(u, {"deleteEncoder"})'
    BY <1>9 DEF HeadIn, Ending
  <2>9. partCounter' > 0
    BY <1>4, <1>6 DEF FilesInv
  <2> QED
    BY <2>5, <2>6, <2>7, <2>8, <2>9 DEF FilesInv
<1>12. SizeInv'
  <2>1. Has(calls[t], Sizings)
    <3> DEFINE c == calls[t]
    <3>1. c \in Seq(Steps) /\ c # <<>> /\ Rest(c) /\ c[1] \in Unsized
      BY <1>2, <1>3, <1>4 DEF TypeOK, CallersInv, Busy
    <3> HIDE DEF c
    <3>2. Len(c) \in Nat /\ 1 \in 1..Len(c)
      BY <3>1, WithoutFirst
    <3>3. PICK j \in 2..Len(c) : c[j] \in Sizings
      BY <3>1, <3>2 DEF Rest
    <3>4. Has(c, Sizings)
      BY <3>2, <3>3 DEF Has
    <3> QED
      BY <3>4 DEF c
  <2>2. \A u \in Threads : ~HeadIn(u, {"setSize"})'
    BY <1>9 DEF HeadIn
  <2> QED
    BY <1>6, <1>7, <2>1, <2>2 DEF SizeInv
<1>13. FormatInv'
  BY <1>3, <1>4, <1>6, <1>9 DEF FormatInv
<1> QED
  BY <1>6, <1>10, <1>11, <1>12, <1>13 DEF RunInv, EncoderInv

\* The first exit that finds the encoder there is the one that ends it.
LEMMA EnterShutdownKeeps ==
  ASSUME TypeOK, RunInv, NEW t \in Threads, EnterShutdown(t)
  PROVE  TypeOK' /\ RunInv' /\ UNCHANGED <<fault, over>>
<1>1. /\ At(t, "enterShutdown") /\ shuttingDown' = t
      /\ UNCHANGED <<encoder, objs, picture, gotDataLock, captureDataLock, sound, control, made, fault, over>>
  BY DEF EnterShutdown
<1>2. UNCHANGED <<partCounter, seenFrames, firstCreate, captureWidth, asked, initialized, exitNextFrame, armed,
                  endStuck, realEncoder, soundOpen, playing, wfx, lostFormat>>
  BY <1>1 DEF picture, sound, control
<1>3. Busy(t) /\ calls[t][1] = "enterShutdown" /\ \A S : HeadIn(t, S) <=> "enterShutdown" \in S
  BY <1>1, HeadAt
<1>4. CallersInv /\ EncoderInv /\ FilesInv /\ SizeInv /\ FormatInv
  BY DEF RunInv
<1>5. ~Between
  BY <1>3, <1>4, WhoIsBetween DEF Ending
<1>6. initialized
  BY <1>4, <1>5 DEF EncoderInv, Fresh, Live
<1>7. Continue(t, <<>>)
  <2> DEFINE r == Tail(calls[t])
  <2>1. r \in Seq(Steps)
    <3>1. calls[t] \in Seq(Steps) /\ calls[t] # <<>>
      BY <1>3 DEF TypeOK, Busy
    <3> QED
      BY <3>1, WithoutFirst
  <2>2. calls' = [calls EXCEPT ![t] = r]
    BY <1>6 DEF EnterShutdown
  <2> HIDE DEF r
  <2>3. <<>> \o r = r
    BY <2>1
  <2>4. calls' = [calls EXCEPT ![t] = <<>> \o r]
    BY <2>2, <2>3
  <2> QED
    BY <2>4 DEF Continue, r
<1>8. Alone(t)
  <2>1. /\ Busy(t)' /\ Fits("enterShutdown", calls'[t][1])
        /\ Has(calls[t], Exchanges) <=> "enterShutdown" \in Exchanges \/ Has(calls'[t], Exchanges)
        /\ calls' \in [Threads -> Seq(Steps)]
    <3>1. "enterShutdown" \in Leading
      BY DEF Leading
    <3>2. /\ calls' \in [Threads -> Seq(Steps)]
          /\ Busy(t)' => Fits(calls[t][1], calls'[t][1])
          /\ calls[t][1] \in Leading => Busy(t)'
          /\ \A S : Has(calls[t], S) <=> calls[t][1] \in S \/ Has(calls'[t], S)
      BY <1>3, <1>4, <1>7, Popped DEF CallersInv
    <3> QED
      BY <1>3, <3>1, <3>2
  <2>2. calls'[t][1] \in Exchanges
    BY <2>1 DEF Fits, Exchanges
  <2>3. 1 \in 1..Len(calls'[t])
    <3>1. calls'[t] \in Seq(Steps) /\ calls'[t] # <<>>
      BY <2>1 DEF Busy
    <3> QED
      BY <3>1, WithoutFirst
  <2>4. Has(calls'[t], Exchanges)
    BY <2>2, <2>3 DEF Has
  <2> QED
    BY <1>4, <2>1, <2>4 DEF CallersInv, Disturbs
<1>9. /\ calls' \in [Threads -> Seq(Steps)]
      /\ Busy(t)' /\ Fits("enterShutdown", calls'[t][1])
      /\ \A u \in Threads : \A S : HeadIn(u, S) <=> u = t /\ "enterShutdown" \in S
      /\ \A u \in Threads : \A S : HeadIn(u, S)' <=> u = t /\ calls'[t][1] \in S
      /\ \A u \in Threads : \A S : Has(calls[u], S) <=> u = t /\ ("enterShutdown" \in S \/ Has(calls'[t], S))
      /\ \A u \in Threads : \A S : Has(calls'[u], S) <=> u = t /\ Has(calls'[t], S)
      /\ \A u \in Threads : Busy(u)' => u = t
  <2>1. "enterShutdown" \in Leading
    BY DEF Leading
  <2> QED
    BY <1>3, <1>4, <1>7, <1>8, <2>1, OnlyCall
<1>10. \A u \in Threads : \A S : HeadIn(u, S)' <=> u = t /\ "takeEncoder" \in S
  BY <1>9 DEF Fits
<1>11. CallersInv'
  BY <1>1, <1>2, <1>3, <1>4, <1>7, CallersPopped DEF CallersInv
<1>12. TypeOK'
  <2>1. objs' \in Seq(Encoder) /\ Len(objs') = Len(objs)
    BY <1>1 DEF TypeOK
  <2> QED
    BY <1>1, <1>2, <1>9, <2>1 DEF TypeOK
<1>13. CASE Fresh
  <2>1. \A u \in Threads : Busy(u)' => HeadIn(u, {"need", "create", "enterShutdown", "takeEncoder"})'
    BY <1>9, <1>10
  <2>2. Fresh'
    <3>1. "program" \in Threads
      BY DEF Threads
    <3>2. Busy("program") => t = "program"
      BY <1>8, <3>1 DEF Alone
    <3> QED
      BY <1>1, <1>2, <1>9, <1>13, <2>1, <3>2 DEF Fresh
  <2>3. EncoderInv' /\ FilesInv' /\ SizeInv' /\ FormatInv'
    BY <1>2, <1>4, <2>2, FreshKept DEF FilesInv
  <2> QED
    BY <1>1, <1>11, <1>12, <2>3 DEF RunInv
<1>14. CASE Live
  <2>1. \A u \in Threads : ~HeadIn(u, {"create", "createPart"} \union Ending)' /\ ~HeadIn(u, {"nextPart"})' /\ ~HeadIn(u, {"nextPart"})
    BY <1>9, <1>10 DEF Ending
  <2>2. Live'
    BY <1>1, <1>2, <1>14, <2>1 DEF Live
  <2>3. FilesInv'
    BY <1>1, <1>2, <1>4, <1>14, <2>2, FilesKept DEF TypeOK
  <2>4. \A u \in Threads : ~HeadIn(u, Blank)' /\ ~HeadIn(u, {"setSize"})' /\ ~HeadIn(u, Handing)' /\ ~HeadIn(u, Handing)
    BY <1>9, <1>10 DEF Blank, Handing
  <2>5. \A u \in Threads : \A S : S \in {Sizings, Resizing, {"seen"}} => (Has(calls'[u], S) <=> Has(calls[u], S))
    <3>1. "enterShutdown" \notin Sizings \union Resizing \union {"seen"}
      BY DEF Sizings, Resizing
    <3> QED
      BY <1>9, <3>1
  <2>6. SizeInv'
    BY <1>1, <1>2, <1>4, <2>4, <2>5 DEF SizeInv
  <2>7. FormatInv'
    BY <1>1, <1>2, <1>4, <2>4 DEF FormatInv
  <2> QED
    BY <1>1, <1>11, <1>12, <2>2, <2>3, <2>6, <2>7 DEF RunInv, EncoderInv
<1> QED
  BY <1>4, <1>5, <1>13, <1>14 DEF EncoderInv

\* Nobody finds the encoder any more that this call is about to delete.
LEMMA TakeEncoderKeeps ==
  ASSUME TypeOK, RunInv, NEW t \in Threads, TakeEncoder(t)
  PROVE  TypeOK' /\ RunInv' /\ UNCHANGED <<fault, over>>
<1>1. /\ At(t, "takeEncoder") /\ realEncoder' = encoder /\ encoder' = Nobody /\ endStuck' = TRUE /\ Continue(t, <<>>)
      /\ UNCHANGED <<objs, picture, locks, sound, initialized, exitNextFrame, armed, made, fault, over>>
  BY DEF TakeEncoder
<1>2. UNCHANGED <<partCounter, seenFrames, firstCreate, captureWidth, asked, soundOpen, playing, wfx, lostFormat>>
  BY <1>1 DEF picture, sound
<1>3. Busy(t) /\ calls[t][1] = "takeEncoder" /\ \A S : HeadIn(t, S) <=> "takeEncoder" \in S
  BY <1>1, HeadAt
<1>4. HeadIn(t, Exchanges) /\ ~HeadIn(t, {"nextPart"}) /\ "takeEncoder" \in Leading
  BY <1>3 DEF Exchanges, Leading
<1>5. CallersInv /\ EncoderInv /\ FilesInv /\ FormatInv /\ Alone(t)
  BY <1>4, Undisturbed DEF RunInv
<1>6. ~Between
  BY <1>3, <1>5, WhoIsBetween DEF Ending
<1>7. initialized
  BY <1>5, <1>6 DEF EncoderInv, Fresh, Live
<1>8. /\ calls' \in [Threads -> Seq(Steps)]
      /\ Busy(t)' /\ Fits("takeEncoder", calls'[t][1])
      /\ \A u \in Threads : \A S : HeadIn(u, S) <=> u = t /\ "takeEncoder" \in S
      /\ \A u \in Threads : \A S : HeadIn(u, S)' <=> u = t /\ calls'[t][1] \in S
  BY <1>1, <1>3, <1>4, <1>5, OnlyCall
<1>9. \A u \in Threads : \A S : HeadIn(u, S)' <=> u = t /\ "deleteEncoder" \in S
  BY <1>8 DEF Fits
<1>10. CallersInv'
  BY <1>1, <1>3, <1>5, CallersPopped DEF CallersInv
<1>11. Between'
  BY <1>1, <1>7, <1>9 DEF Between, Ending
<1>12. FilesInv'
  <2>1. encoder # Nobody => ~objs[encoder].deleted
    <3>1. encoder # Nobody => Live
      BY <1>5, <1>6 DEF EncoderInv, Fresh
    <3> QED
      BY <1>3, <1>4, <1>5, <3>1, AtHand
  <2>2. HeadIn(t, {"deleteEncoder"})' /\ \A u \in Threads : ~HeadIn(u, {"deleteEncoder"}) /\ ~HeadIn(u, {"createPart"})'
    BY <1>8, <1>9
  <2>3. FilesDistinct' /\ partCounter' > 0 /\ \A e \in 1..Len(objs') : objs'[e].file <= partCounter'
    BY <1>1, <1>2, <1>5 DEF FilesInv, FilesDistinct
  <2>4. \A e \in 1..Len(objs') : ~objs'[e].deleted => e = realEncoder'
    BY <1>1, <1>5, <2>2 DEF FilesInv
  <2> QED
    BY <1>1, <2>1, <2>2, <2>3, <2>4 DEF FilesInv
<1>13. SizeInv'
  BY <1>1 DEF SizeInv
<1>14. FormatInv'
  BY <1>1, <1>9 DEF FormatInv, Handing
<1>15. TypeOK'
  <2>1. objs' \in Seq(Encoder) /\ Len(objs') = Len(objs)
    BY <1>1 DEF TypeOK
  <2> QED
    BY <1>1, <1>2, <1>8, <2>1 DEF TypeOK, locks
<1> QED
  BY <1>1, <1>10, <1>11, <1>12, <1>13, <1>14, <1>15 DEF RunInv, EncoderInv

\* The encoder is deleted, which finishes the last file.
LEMMA DeleteEncoderKeeps ==
  ASSUME TypeOK, RunInv, NEW t \in Threads, DeleteEncoder(t)
  PROVE  TypeOK' /\ RunInv' /\ (fault' = "none" \/ fault' = fault) /\ over' = over
<1>1. /\ At(t, "deleteEncoder") /\ MethodIfAny(t, realEncoder, [objs[realEncoder] EXCEPT !.deleted = TRUE])
      /\ UNCHANGED <<picture, sound, control, made>>
  BY DEF DeleteEncoder, Quiet
<1>2. UNCHANGED <<partCounter, seenFrames, firstCreate, captureWidth, asked, initialized, exitNextFrame, armed,
                  endStuck, realEncoder, soundOpen, playing, wfx, lostFormat>>
  BY <1>1 DEF picture, sound, control
<1>3. Busy(t) /\ calls[t][1] = "deleteEncoder" /\ \A S : HeadIn(t, S) <=> "deleteEncoder" \in S
  BY <1>1, HeadAt
<1>4. /\ HeadIn(t, {"createPart"} \union Ending) /\ HeadIn(t, {"deleteEncoder"})
      /\ ~HeadIn(t, {"leaveShutdown", "terminate"}) /\ "deleteEncoder" \in Leading
  BY <1>3 DEF Ending, Leading
<1>5. Between /\ Alone(t) /\ CallersInv /\ FilesInv /\ FormatInv /\ initialized /\ encoder = Nobody
  BY <1>4, AtEnd
<1>6. realEncoder # Nobody => realEncoder \in 1..Len(objs) /\ ~objs[realEncoder].deleted /\ objs[realEncoder] \in Encoder
  <2>1. realEncoder \in 1..Len(objs) \union {Nobody} /\ objs \in Seq(Encoder)
    BY DEF TypeOK
  <2>2. \A e \in 1..Len(objs) : objs[e] \in Encoder
    BY <2>1
  <2> QED
    BY <1>4, <1>5, <2>1, <2>2 DEF FilesInv
<1>7. Nobody \notin 1..Len(objs)
  <2>1. Nobody \notin Nat
    BY LifecycleAssumption
  <2>2. 1..Len(objs) \subseteq Nat
    OBVIOUS
  <2> QED
    BY <2>1, <2>2
<1>8. /\ Continue(t, <<>>) /\ (fault' = "none" \/ fault' = fault) /\ UNCHANGED <<encoder, locks, over>>
      /\ objs' \in Seq(Encoder) /\ Len(objs') = Len(objs)
      /\ \A e \in 1..Len(objs) : objs'[e].file = objs[e].file /\ objs'[e].deleted
  <2>1. CASE realEncoder # Nobody
    <3> DEFINE new == [objs[realEncoder] EXCEPT !.deleted = TRUE]
    <3>1. new \in Encoder /\ new.deleted /\ new.file = objs[realEncoder].file
      BY <1>6, <2>1, AfterDelete
    <3>2. Method(t, realEncoder, new)
      BY <1>1, <2>1 DEF MethodIfAny
    <3> HIDE DEF new
    <3>3. Continue(t, <<>>) /\ fault' = "none" /\ objs' = [objs EXCEPT ![realEncoder] = new] /\ UNCHANGED <<encoder, locks, over>>
      BY <1>6, <2>1, <3>2 DEF Method
    <3>4. /\ objs' \in Seq(Encoder) /\ Len(objs') = Len(objs) /\ objs'[realEncoder] = new
          /\ \A i \in 1..Len(objs) : i # realEncoder => objs'[i] = objs[i]
      BY <1>6, <2>1, <3>1, <3>3, Replaced
    <3>5. \A e \in 1..Len(objs) : e # realEncoder => objs[e].deleted
      BY <1>5, <1>7 DEF FilesInv
    <3> QED
      BY <3>1, <3>3, <3>4, <3>5
  <2>2. CASE realEncoder = Nobody
    <3>1. Continue(t, <<>>) /\ UNCHANGED <<encoder, objs, locks, fault, over>>
      BY <1>1, <2>2 DEF MethodIfAny, Local
    <3>2. \A e \in 1..Len(objs) : objs[e].deleted
      BY <1>5, <1>7, <2>2 DEF FilesInv
    <3>3. objs' \in Seq(Encoder)
      BY <3>1 DEF TypeOK
    <3> QED
      BY <3>1, <3>2, <3>3
  <2> QED
    BY <2>1, <2>2
<1>9. /\ calls' \in [Threads -> Seq(Steps)]
      /\ Busy(t)' /\ Fits("deleteEncoder", calls'[t][1])
      /\ \A u \in Threads : \A S : HeadIn(u, S)' <=> u = t /\ calls'[t][1] \in S
  BY <1>3, <1>4, <1>5, <1>8, OnlyCall
<1>10. \A u \in Threads : \A S : HeadIn(u, S)' <=> u = t /\ "doneVideo" \in S
  BY <1>9 DEF Fits
<1>11. CallersInv'
  <2>1. objs # <<>> => objs' # <<>>
    <3>1. objs \in Seq(Encoder)
      BY DEF TypeOK
    <3> QED
      BY <1>8, <3>1
  <2> QED
    BY <1>2, <1>3, <1>5, <1>8, <2>1, CallersPopped DEF CallersInv
<1>12. Between'
  BY <1>2, <1>5, <1>8, <1>10 DEF Between, Ending
<1>13. FilesInv'
  <2>1. FilesDistinct'
    <3>1. DOMAIN objs = 1..Len(objs) /\ DOMAIN objs' = 1..Len(objs)
      <4>1. objs \in Seq(Encoder)
        BY DEF TypeOK
      <4> QED
        BY <1>8, <4>1
    <3> QED
      BY <1>5, <1>8, <3>1 DEF FilesInv, FilesDistinct
  <2> QED
    BY <1>2, <1>5, <1>8, <1>10, <2>1 DEF FilesInv
<1>14. SizeInv' /\ FormatInv'
  BY <1>5, <1>8, <1>10 DEF SizeInv, FormatInv, Handing
<1>15. TypeOK'
  <2>1. fault' \in {"none", "null", "deleted", "no format"}
    BY <1>8 DEF TypeOK
  <2> QED
    BY <1>1, <1>2, <1>8, <1>9, <2>1, TypeKept DEF TypeOK, locks
<1> QED
  BY <1>8, <1>11, <1>12, <1>13, <1>14, <1>15 DEF RunInv, EncoderInv

\* The buffer, its lock and the lock of the exit go.
LEMMA LastStepsKeep ==
  ASSUME TypeOK, RunInv, NEW t \in Threads, DoneVideo(t) \/ LeaveShutdown(t)
  PROVE  TypeOK' /\ RunInv' /\ UNCHANGED <<fault, over>>
<1>1. PICK step \in {"doneVideo", "leaveShutdown"} :
        /\ At(t, step) /\ Continue(t, <<>>)
        /\ UNCHANGED <<encoder, objs, partCounter, seenFrames, firstCreate, asked, sound, exitNextFrame, armed,
                       endStuck, realEncoder, made, fault, over>>
        /\ captureWidth' \in {0, captureWidth} /\ initialized' \in {FALSE, initialized}
        /\ gotDataLock' \in {FALSE, gotDataLock} /\ captureDataLock' \in {Nobody, captureDataLock}
        /\ shuttingDown' \in {Nobody, shuttingDown}
  BY DEF DoneVideo, LeaveShutdown, LockOnly, Quiet, picture, control
<1>2. UNCHANGED <<soundOpen, playing, wfx, lostFormat>>
  BY <1>1 DEF sound
<1>3. Busy(t) /\ calls[t][1] = step /\ \A S : HeadIn(t, S) <=> step \in S
  BY <1>1, HeadAt
<1>4. HeadIn(t, {"createPart"} \union Ending) /\ ~HeadIn(t, {"deleteEncoder"}) /\ step \in Leading
  BY <1>3 DEF Ending, Leading
<1>5. /\ Alone(t) /\ CallersInv /\ FilesInv /\ encoder = Nobody
      /\ \A e \in 1..Len(objs) : objs[e].deleted
  BY <1>4, AtEnd
<1>6. /\ calls' \in [Threads -> Seq(Steps)]
      /\ Busy(t)' /\ Fits(step, calls'[t][1])
      /\ \A u \in Threads : \A S : HeadIn(u, S)' <=> u = t /\ calls'[t][1] \in S
  BY <1>1, <1>3, <1>4, <1>5, OnlyCall
<1>7. calls'[t][1] \in {"leaveShutdown", "terminate"}
  BY <1>6 DEF Fits
<1>8. CallersInv'
  BY <1>1, <1>3, <1>5, CallersPopped DEF CallersInv
<1>9. Between'
  BY <1>1, <1>5, <1>6, <1>7 DEF Between, Ending
<1>10. FilesInv'
  <2>1. FilesDistinct' /\ \A u \in Threads : ~HeadIn(u, {"createPart"})' /\ ~HeadIn(u, {"deleteEncoder"})'
    BY <1>1, <1>5, <1>6, <1>7 DEF FilesInv, FilesDistinct
  <2> QED
    BY <1>1, <1>5, <2>1 DEF FilesInv
<1>11. SizeInv' /\ FormatInv'
  <2>1. \A u \in Threads : ~HeadIn(u, Handing)'
    BY <1>6, <1>7 DEF Handing
  <2> QED
    BY <1>1, <1>5, <2>1 DEF SizeInv, FormatInv
<1>12. TypeOK'
  <2>1. objs' \in Seq(Encoder) /\ Len(objs') = Len(objs)
    BY <1>1 DEF TypeOK
  <2>2. captureWidth' \in {Aligned(w) : w \in Widths \union {0}}
    BY <1>1, AlignedNat DEF TypeOK
  <2> QED
    BY <1>1, <1>2, <1>6, <2>1, <2>2 DEF TypeOK
<1> QED
  BY <1>1, <1>8, <1>9, <1>10, <1>11, <1>12 DEF RunInv, EncoderInv

\* The process ends with every file finished.
LEMMA TerminateFinishes ==
  ASSUME TypeOK, RunInv, NEW t \in Threads, Terminate(t)
  PROVE  TypeOK' /\ FilesDistinct' /\ over' /\ FilesFinished' /\ fault' = fault
<1>1. /\ At(t, "terminate") /\ over' = TRUE /\ Continue(t, <<>>)
      /\ UNCHANGED <<encoder, objs, picture, locks, sound, control, made, fault>>
  BY DEF Terminate
<1>2. Busy(t) /\ \A S : HeadIn(t, S) <=> "terminate" \in S
  BY <1>1, HeadAt
<1>3. HeadIn(t, {"createPart"} \union Ending) /\ ~HeadIn(t, {"deleteEncoder"})
  BY <1>2 DEF Ending
<1>4. CallersInv /\ FilesInv /\ \A e \in 1..Len(objs) : objs[e].deleted
  BY <1>3, AtEnd
<1>5. calls' \in [Threads -> Seq(Steps)]
  BY <1>1, <1>2, <1>4, Popped DEF CallersInv
<1>6. TypeOK'
  BY <1>1, <1>5 DEF TypeOK, picture, sound, control, locks
<1>7. FilesDistinct'
  BY <1>1, <1>4 DEF FilesInv, FilesDistinct
<1>8. FilesFinished'
  <2>1. DOMAIN objs = 1..Len(objs)
    <3>1. objs \in Seq(Encoder)
      BY DEF TypeOK
    <3> QED
      BY <3>1
  <2> QED
    BY <1>1, <1>4, <2>1 DEF FilesFinished
<1> QED
  BY <1>1, <1>6, <1>7, <1>8

-----------------------------------------------------------------------------
(* The calls. *)

\* The steps a call begins with.
Beginnings == {"need", "format", "enterShutdown", "terminate"}

\* A call that begins keeps the invariant: it fits no other call it would disturb,
\* because Racing excludes that.
LEMMA CallKeeps ==
  ASSUME TypeOK, RunInv, Overlap = FALSE, NEW t \in Threads, NEW steps \in Seq(Steps), Call(t, steps), Rest(steps),
         steps # <<>> => steps[1] \in Beginnings,
         steps # <<>> /\ steps[1] = "format" => t = "program" /\ soundOpen,
         steps # <<>> /\ steps[1] = "terminate" => ~initialized,
         steps # <<>> /\ t = "hook" => steps[Len(steps)] = "terminate",
         steps # <<>> /\ t = "watchdog" => armed,
         UNCHANGED <<partCounter, seenFrames, captureWidth, wfx, lostFormat, control>>,
         asked' = asked \/ (steps # <<>> /\ asked' \in Widths),
         firstCreate' \in BOOLEAN,
         soundOpen' = soundOpen \/ (soundOpen' = TRUE /\ t = "program" /\ steps # <<>>),
         playing' = playing \/ playing' = FALSE
  PROVE  TypeOK' /\ RunInv' /\ UNCHANGED <<fault, over>>
<1>1. /\ CallersInv /\ EncoderInv /\ FilesInv /\ SizeInv /\ FormatInv
      /\ calls[t] = <<>> /\ calls' = [calls EXCEPT ![t] = steps] /\ ~Racing(calls')
      /\ UNCHANGED <<encoder, objs, locks, fault, over>> /\ made' = made + 1 /\ made < MaxCalls
  BY DEF Call, RunInv
<1>2. UNCHANGED <<initialized, exitNextFrame, armed, endStuck, realEncoder>>
  BY DEF control
<1>3. /\ calls' \in [Threads -> Seq(Steps)] /\ calls'[t] = steps
      /\ \A u \in Threads : u # t => calls'[u] = calls[u]
  BY <1>1 DEF TypeOK
<1>4. TypeOK'
  <2>1. objs' \in Seq(Encoder) /\ Len(objs') = Len(objs)
    BY <1>1 DEF TypeOK
  <2>2. made' \in 0..MaxCalls
    <3>1. made \in 0..MaxCalls /\ MaxCalls \in Nat
      BY LifecycleAssumption DEF TypeOK
    <3> QED
      BY <1>1, <3>1
  <2>3. asked' \in Widths \union {0} /\ soundOpen' \in BOOLEAN /\ playing' \in BOOLEAN
    BY DEF TypeOK
  <2> QED
    BY <1>1, <1>2, <1>3, <2>1, <2>2, <2>3 DEF TypeOK, locks
<1>5. ~Busy(t) /\ \A u \in Threads : Busy(u) => Busy(u)' /\ u # t /\ calls'[u] = calls[u]
  BY <1>1, <1>3 DEF Busy
<1>6. \A u \in Threads : \A S : Has(calls[u], S) => Has(calls'[u], S)
  <2>1. \A S : ~Has(calls[t], S)
    BY <1>1, NoSteps
  <2> QED
    BY <1>3, <2>1
<1>7. \A u \in Threads : \A S : S \intersect Beginnings = {} => (HeadIn(u, S)' <=> HeadIn(u, S))
  <2>1. \A S : S \intersect Beginnings = {} => ~HeadIn(t, S)' /\ ~HeadIn(t, S)
    BY <1>3, <1>5 DEF HeadIn, Busy
  <2>2. \A u \in Threads : \A S : u # t => (HeadIn(u, S)' <=> HeadIn(u, S))
    BY <1>3 DEF HeadIn, Busy
  <2> QED
    BY <2>1, <2>2
<1>8. \A u \in Threads : Disturbs(u)' => Alone(u)'
  <2> SUFFICES ASSUME NEW u \in Threads, Disturbs(u)', NEW v \in Threads, v # u, Busy(v)' PROVE FALSE
    BY DEF Alone
  <2>1. \E i \in 1..Len(calls'[u]) : calls'[u][i] \in Exchanges \/ (calls'[u][i] = "timing" /\ exitNextFrame)
    BY <1>2 DEF Disturbs, Has
  <2>2. DOMAIN calls'[u] = 1..Len(calls'[u])
    <3>1. calls'[u] \in Seq(Steps)
      BY <1>3
    <3> QED
      BY <3>1
  <2>3. calls'[v] # <<>>
    BY DEF Busy
  <2> QED
    BY <1>1, <2>1, <2>2, <2>3 DEF Racing
<1>9. ASSUME NEW u \in Threads, HeadIn(u, Exchanges) PROVE steps = <<>>
  <2>1. 1 \in 1..Len(calls[u])
    <3>1. calls[u] \in Seq(Steps) /\ calls[u] # <<>>
      BY <1>9 DEF TypeOK, HeadIn, Busy
    <3> QED
      BY <3>1, WithoutFirst
  <2>2. Has(calls[u], Exchanges)
    BY <1>9, <2>1 DEF Has, HeadIn
  <2>3. Alone(u)'
    BY <1>6, <1>8, <2>2 DEF Disturbs
  <2> QED
    BY <1>3, <1>5, <1>9, <2>3 DEF Alone, HeadIn, Busy
<1>10. CallersInv'
  <2>1. Busy("hook")' => calls'["hook"][Len(calls'["hook"])] = "terminate"
    BY <1>1, <1>3 DEF CallersInv, Busy, Threads
  <2>2. Busy("watchdog")' => armed'
    BY <1>1, <1>2, <1>3 DEF CallersInv, Busy, Threads
  <2>3. \A u \in Threads : Rest(calls'[u])
    BY <1>1, <1>3 DEF CallersInv
  <2>4. armed' => objs' # <<>>
    BY <1>1, <1>2 DEF CallersInv
  <2> QED
    BY <1>8, <2>1, <2>2, <2>3, <2>4 DEF CallersInv
<1>11. \A u \in Threads : /\ HeadIn(u, {"createPart"})' <=> HeadIn(u, {"createPart"})
                          /\ HeadIn(u, {"deleteEncoder"})' <=> HeadIn(u, {"deleteEncoder"})
                          /\ HeadIn(u, {"nextPart"})' <=> HeadIn(u, {"nextPart"})
                          /\ HeadIn(u, {"setSize"})' <=> HeadIn(u, {"setSize"})
                          /\ HeadIn(u, Blank)' <=> HeadIn(u, Blank)
                          /\ HeadIn(u, Handing)' <=> HeadIn(u, Handing)
  <2>1. \A S \in {{"createPart"}, {"deleteEncoder"}, {"nextPart"}, {"setSize"}, Blank, Handing} : S \intersect Beginnings = {}
    BY DEF Beginnings, Blank, Handing
  <2> QED
    BY <1>7, <2>1
<1>12. EncoderInv'
  <2>1. CASE Fresh
    <3>1. steps # <<>> => steps[1] \in {"need", "enterShutdown"}
      <4>1. steps # <<>> => steps[1] # "format"
        BY <1>5, <2>1 DEF Fresh
      <4> QED
        BY <2>1, <4>1 DEF Fresh, Beginnings
    <3>2. \A u \in Threads : Busy(u)' => HeadIn(u, {"need", "create", "enterShutdown", "takeEncoder"})'
      <4>1. Busy(t)' => HeadIn(t, {"need", "create", "enterShutdown", "takeEncoder"})'
        BY <1>3, <3>1 DEF Busy, HeadIn
      <4>2. \A u \in Threads : u # t /\ Busy(u)' => HeadIn(u, {"need", "create", "enterShutdown", "takeEncoder"})'
        BY <1>3, <2>1 DEF Fresh, Busy, HeadIn
      <4> QED
        BY <4>1, <4>2
    <3>3. soundOpen' => Busy("program")'
      <4>1. "program" \in Threads
        BY DEF Threads
      <4>2. soundOpen => Busy("program")'
        BY <1>5, <2>1, <4>1 DEF Fresh
      <4>3. t = "program" /\ steps # <<>> => Busy("program")'
        BY <1>3 DEF Busy
      <4> QED
        BY <4>2, <4>3
    <3> QED
      BY <1>1, <1>2, <2>1, <3>2, <3>3 DEF Fresh, EncoderInv
  <2>2. CASE Live
    <3>1. steps # <<>> => steps[1] \notin {"create", "createPart"} \union Ending
      BY <2>2 DEF Live, Beginnings, Ending
    <3>2. \A u \in Threads : ~HeadIn(u, {"create", "createPart"} \union Ending)'
      BY <1>3, <2>2, <3>1 DEF Live, HeadIn, Busy
    <3> QED
      BY <1>1, <1>2, <1>11, <2>2, <3>2 DEF Live, EncoderInv
  <2>3. CASE Between
    <3>1. PICK u \in Threads : HeadIn(u, {"createPart"} \union Ending)
      BY <2>3 DEF Between
    <3>2. HeadIn(u, Exchanges)
      BY <3>1 DEF HeadIn, Ending, Exchanges
    <3>3. steps = <<>>
      BY <1>9, <3>2
    <3>4. calls' = calls
      BY <1>1, <3>3 DEF TypeOK
    <3> QED
      BY <1>1, <1>2, <2>3, <3>4 DEF Between, HeadIn, Busy, EncoderInv
  <2> QED
    BY <1>1, <2>1, <2>2, <2>3 DEF EncoderInv
<1>13. FilesInv'
  <2>1. FilesDistinct'
    BY <1>1 DEF FilesInv, FilesDistinct
  <2> QED
    BY <1>1, <1>2, <1>11, <2>1 DEF FilesInv
<1>14. SizeInv'
  <2>1. \A u \in Threads : HeadIn(u, {"setSize"}) => asked' = asked
    <3>1. \A u \in Threads : HeadIn(u, {"setSize"}) => HeadIn(u, Exchanges)
      BY DEF HeadIn, Exchanges
    <3> QED
      BY <1>9, <3>1
  <2>2. \A u \in Threads : HeadIn(u, {"setSize"})' /\ encoder # Nobody => captureWidth' = Aligned(asked')
    BY <1>1, <1>11, <2>1 DEF SizeInv
  <2>3. \A u \in Threads : Has(calls[u], {"seen"}) /\ ~Has(calls[u], Resizing) => Has(calls'[u], {"seen"}) /\ ~Has(calls'[u], Resizing)
    <3>1. \A u \in Threads : Has(calls[u], {"seen"}) => u # t
      BY <1>1, NoSteps
    <3> QED
      BY <1>3, <3>1
  <2>4. encoder' # Nobody => objs'[encoder'].size = captureWidth' \/ \E u \in Threads : Has(calls'[u], Sizings)
    BY <1>1, <1>6 DEF SizeInv
  <2>5. encoder' # Nobody /\ objs'[encoder'].pictures =>
          /\ \A u \in Threads : ~HeadIn(u, Blank)'
          /\ seenFrames' \/ \E u \in Threads : Has(calls'[u], {"seen"}) /\ ~Has(calls'[u], Resizing)
    BY <1>1, <1>11, <2>3 DEF SizeInv
  <2> QED
    BY <1>1, <2>2, <2>4, <2>5 DEF SizeInv
<1>15. FormatInv'
  BY <1>1, <1>11 DEF FormatInv
<1> QED
  BY <1>1, <1>4, <1>10, <1>12, <1>13, <1>14, <1>15 DEF RunInv

\* The calls of the program ...
LEMMA ProgramCalls ==
  ASSUME TypeOK, RunInv, Overlap = FALSE, Program
  PROVE  TypeOK' /\ RunInv' /\ UNCHANGED <<fault, over>>
<1>1. "program" \in Threads /\ "program" # "hook" /\ "program" # "watchdog"
  BY DEF Threads
<1>2. ASSUME NEW w \in Widths, ProgramSwapsBuffers(w) PROVE TypeOK' /\ RunInv' /\ UNCHANGED <<fault, over>>
  <2>1. /\ SwapBuffers \in Seq(Steps) /\ Rest(SwapBuffers) /\ SwapBuffers # <<>> /\ SwapBuffers[1] = "need"
    BY SwapSteps
  <2>2. firstCreate' \in BOOLEAN /\ "need" \in Beginnings
    BY <1>2 DEF ProgramSwapsBuffers, TypeOK, Beginnings
  <2> QED
    BY <1>1, <1>2, <2>1, <2>2, CallKeeps DEF ProgramSwapsBuffers, sound
<1>3. ASSUME NEW w \in Widths, ProgramCreatesDevice(w) PROVE TypeOK' /\ RunInv' /\ UNCHANGED <<fault, over>>
  <2>1. "need" \in Beginnings
    BY DEF Beginnings
  <2> QED
    BY <1>1, <1>3, <2>1, CreateDeviceSteps, CallKeeps DEF ProgramCreatesDevice, sound
<1>4. ASSUME NEW w \in Widths, ProgramResetsDevice(w) PROVE TypeOK' /\ RunInv' /\ UNCHANGED <<fault, over>>
  <2>1. firstCreate' \in BOOLEAN /\ "need" \in Beginnings
    BY <1>4 DEF ProgramResetsDevice, TypeOK, Beginnings
  <2> QED
    BY <1>1, <1>4, <2>1, ResetSteps, CallKeeps DEF ProgramResetsDevice, sound
<1>5. CASE ProgramPresents
  <2>1. /\ Present \in Seq(Steps) /\ Rest(Present) /\ Present # <<>> /\ Present[1] = "need"
    BY PresentSteps
  <2>2. firstCreate' \in BOOLEAN /\ "need" \in Beginnings
    BY <1>5 DEF ProgramPresents, TypeOK, Beginnings, picture
  <2> QED
    BY <1>1, <1>5, <2>1, <2>2, CallKeeps DEF ProgramPresents, sound, picture
<1>6. CASE ProgramHammers
  <2>1. /\ skipFrame \in Seq(Steps) /\ Rest(skipFrame) /\ skipFrame # <<>> /\ skipFrame[1] = "need"
    BY SkipSteps
  <2>2. firstCreate' \in BOOLEAN /\ "need" \in Beginnings
    BY <1>6 DEF ProgramHammers, TypeOK, Beginnings, picture
  <2> QED
    BY <1>1, <1>6, <2>1, <2>2, CallKeeps DEF ProgramHammers, sound, picture
<1>7. CASE ProgramOpensSound
  <2> DEFINE s == <<"need">>
  <2>1. s \in Seq(Steps) /\ Rest(s) /\ Len(s) = 1 /\ s[1] = "need"
    <3>1. "need" \in Steps \ (Leading \union Writings \union Unsized)
      BY DEF Steps, Leading, Writings, Unsized
    <3> QED
      BY <3>1, OneStep
  <2>2. firstCreate' \in BOOLEAN /\ "need" \in Beginnings
    BY <1>7 DEF ProgramOpensSound, TypeOK, Beginnings, picture
  <2>3. Call("program", s)
    BY <1>7 DEF ProgramOpensSound
  <2> HIDE DEF s
  <2>4. s # <<>>
    BY <2>1
  <2> QED
    BY <1>1, <1>7, <2>1, <2>2, <2>3, <2>4, CallKeeps DEF ProgramOpensSound, picture
<1>8. CASE ProgramPlays
  <2> DEFINE s == <<"format">>
  <2>1. s \in Seq(Steps) /\ Rest(s) /\ Len(s) = 1 /\ s[1] = "format"
    <3>1. "format" \in Steps \ (Leading \union Writings \union Unsized)
      BY DEF Steps, Leading, Writings, Unsized
    <3> QED
      BY <3>1, OneStep
  <2>2. firstCreate' \in BOOLEAN /\ "format" \in Beginnings
    BY <1>8 DEF ProgramPlays, TypeOK, Beginnings, picture
  <2>3. Call("program", s)
    BY <1>8 DEF ProgramPlays
  <2> HIDE DEF s
  <2>4. s # <<>>
    BY <2>1
  <2> QED
    BY <1>1, <1>8, <2>1, <2>2, <2>3, <2>4, CallKeeps DEF ProgramPlays, picture, sound
<1>9. CASE ProgramStops
  <2>1. firstCreate' \in BOOLEAN
    BY <1>9 DEF ProgramStops, TypeOK, picture
  <2> QED
    BY <1>1, <1>9, <2>1, NoSteps, CallKeeps DEF ProgramStops, picture
<1>10. CASE ProgramExits
  <2>1. firstCreate' \in BOOLEAN
    BY <1>10 DEF ProgramExits, TypeOK, picture
  <2>2. /\ Mine_ExitProcess \in Seq(Steps) /\ Rest(Mine_ExitProcess) /\ Mine_ExitProcess # <<>>
        /\ Mine_ExitProcess[1] = IF initialized THEN "enterShutdown" ELSE "terminate"
    BY ExitStepsEither
  <2> QED
    BY <1>1, <1>10, <2>1, <2>2, CallKeeps DEF ProgramExits, picture, sound, Beginnings
<1>11. CASE ProgramAdvances
  <2>1. /\ nextFrame \in Seq(Steps) /\ Rest(nextFrame) /\ nextFrame # <<>> /\ nextFrame[1] = "need"
    BY FrameSteps
  <2>2. firstCreate' \in BOOLEAN /\ "need" \in Beginnings
    BY <1>11 DEF ProgramAdvances, TypeOK, Beginnings, picture
  <2> QED
    BY <1>1, <1>11, <2>1, <2>2, CallKeeps DEF ProgramAdvances, sound, picture
<1> QED
  BY <1>2, <1>3, <1>4, <1>5, <1>6, <1>7, <1>8, <1>9, <1>10, <1>11 DEF Program

\* ... and those of the watchdog and the keyboard hook.
LEMMA OtherCalls ==
  ASSUME TypeOK, RunInv, Overlap = FALSE, FrameTimesOut \/ CtrlBreak \/ RightCtrl
  PROVE  TypeOK' /\ RunInv' /\ UNCHANGED <<fault, over>>
<1>1. {"hook", "watchdog"} \subseteq Threads
  BY DEF Threads
<1>2. CASE FrameTimesOut
  <2>1. /\ skipFrame \in Seq(Steps) /\ Rest(skipFrame) /\ skipFrame # <<>> /\ skipFrame[1] = "need"
    BY SkipSteps
  <2>2. firstCreate' \in BOOLEAN /\ "need" \in Beginnings
    BY <1>2 DEF FrameTimesOut, TypeOK, Beginnings, picture
  <2> QED
    BY <1>1, <1>2, <2>1, <2>2, CallKeeps DEF FrameTimesOut, sound, picture
<1>3. CASE CtrlBreak
  <2>1. firstCreate' \in BOOLEAN
    BY <1>3 DEF CtrlBreak, TypeOK, picture
  <2>2. /\ Mine_ExitProcess \in Seq(Steps) /\ Rest(Mine_ExitProcess) /\ Mine_ExitProcess # <<>>
        /\ Mine_ExitProcess[1] = IF initialized THEN "enterShutdown" ELSE "terminate"
        /\ Mine_ExitProcess[Len(Mine_ExitProcess)] = "terminate"
    BY ExitStepsEither
  <2> QED
    BY <1>1, <1>3, <2>1, <2>2, CallKeeps DEF CtrlBreak, picture, sound, Beginnings
<1>4. CASE RightCtrl
  <2>1. /\ UNCHANGED <<encoder, objs, picture, locks, sound, initialized, armed, endStuck, realEncoder, calls, made, fault, over>>
        /\ exitNextFrame' = TRUE
        /\ \A u, v \in Threads : u # v => calls[u] = <<>> \/ calls[v] = <<>>
    BY <1>4 DEF RightCtrl
  <2>2. UNCHANGED <<partCounter, seenFrames, firstCreate, captureWidth, asked, soundOpen, playing, wfx, lostFormat>>
    BY <2>1 DEF picture, sound
  <2>3. TypeOK'
    BY <2>1, <2>2 DEF TypeOK, locks
  <2>4. \A u \in Threads : Disturbs(u)' => Alone(u)'
    <3>1. \A u \in Threads : Disturbs(u)' => calls[u] # <<>>
      BY <2>1, NoSteps DEF Disturbs
    <3> QED
      BY <2>1, <3>1 DEF Alone, Busy
  <2>5. CallersInv'
    BY <2>1, <2>4 DEF RunInv, CallersInv, Busy
  <2>6. \A u \in Threads : \A S : HeadIn(u, S)' <=> HeadIn(u, S)
    BY <2>1 DEF HeadIn, Busy
  <2>7. EncoderInv'
    BY <2>1, <2>2, <2>6 DEF RunInv, EncoderInv, Fresh, Live, Between, Busy
  <2>8. FilesInv'
    BY <2>1, <2>2, <2>6 DEF RunInv, FilesInv, FilesDistinct
  <2>9. SizeInv' /\ FormatInv'
    BY <2>1, <2>2, <2>6 DEF RunInv, SizeInv, FormatInv
  <2> QED
    BY <2>1, <2>3, <2>5, <2>7, <2>8, <2>9 DEF RunInv
<1> QED
  BY <1>2, <1>3, <1>4

-----------------------------------------------------------------------------
(* The invariant. *)

\* Every step of a call, but the last of the process: the invariant is kept, or a
\* sound format was lost and the encoder faults on it.
LEMMA StepKeeps ==
  ASSUME TypeOK, RunInv, Running, NEW t \in Threads, Step(t), ~Terminate(t)
  PROVE  /\ TypeOK' /\ over' = over
         /\ \/ RunInv' /\ fault' = "none"
            \/ fault' = "no format" /\ lostFormat' /\ objs' = objs
<1> DEFINE goal == TypeOK' /\ RunInv' /\ fault' = "none" /\ over' = over
<1>0. fault = "none"
  BY DEF Running
<1>1. CASE EnterData(t) \/ LeaveData(t) \/ WriteNothing(t) \/ Seen(t) \/ Arm(t) \/ Timing(t)
  <2>1. goal
    BY <1>0, <1>1, LockStepsKeep, SeenKeeps, ArmKeeps, TimingExitKeeps
  <2> QED
    BY <2>1
<1>2. CASE Delete(t) \/ Format(t) \/ GetFormat(t) \/ ResumeSound(t) \/ Write(t) \/ SetSize(t)
  <2>1. goal
    BY <1>0, <1>2, DeleteKeeps, FormatKeeps, GetFormatKeeps, ResumeSoundKeeps, WriteKeeps, SizeTold
  <2> QED
    BY <2>1
<1>3. CASE Resolution(t) \/ DestroyBuffer(t) \/ InitBuffer(t)
  <2>1. goal
    BY <1>0, <1>3, ResolutionKeeps, BufferKeeps
  <2> QED
    BY <2>1
<1>4. CASE Need(t) \/ Create(t) \/ NextPart(t) \/ CreatePart(t)
  <2>1. goal
    BY <1>0, <1>4, NeedKeeps, CreateKeeps, NextPartKeeps, CreatePartKeeps
  <2> QED
    BY <2>1
<1>5. CASE EnterShutdown(t) \/ TakeEncoder(t) \/ DeleteEncoder(t) \/ DoneVideo(t) \/ LeaveShutdown(t)
  <2>1. goal
    BY <1>0, <1>5, EnterShutdownKeeps, TakeEncoderKeeps, DeleteEncoderKeeps, LastStepsKeep
  <2> QED
    BY <2>1
<1>6. CASE Sound(t)
  BY <1>0, <1>6, SoundKeeps
<1> QED
  BY <1>1, <1>2, <1>3, <1>4, <1>5, <1>6 DEF Step

\* Before the program's first call.
LEMMA LifeInit ==
  ASSUME Init
  PROVE  LifeInv
<1>1. /\ encoder = Nobody /\ objs = <<>> /\ partCounter = 1 /\ captureWidth = 0 /\ initialized /\ ~playing /\ ~soundOpen
      /\ ~armed /\ fault = "none" /\ over = FALSE /\ calls = [t \in Threads |-> <<>>]
  BY DEF Init
<1>2. \A t \in Threads : calls[t] = <<>> /\ ~Busy(t)
  BY <1>1 DEF Busy
<1>3. objs \in Seq(Encoder) /\ <<>> \in Seq(Steps) /\ Len(objs) = 0 /\ DOMAIN objs = 1..0
  BY <1>1
<1>4. TypeOK
  <2>1. 0 \in {Aligned(w) : w \in Widths \union {0}}
    BY AlignedNat
  <2>2. 0 \in 0..MaxCalls
    BY LifecycleAssumption
  <2>3. 1 \in Nat
    OBVIOUS
  <2>4. calls \in [Threads -> Seq(Steps)]
    BY <1>1, <1>3
  <2> QED
    BY <1>3, <2>1, <2>2, <2>3, <2>4 DEF Init, TypeOK
<1>5. CallersInv
  <2>1. \A t \in Threads : ~Disturbs(t) /\ Rest(calls[t])
    BY <1>2, NoSteps DEF Disturbs
  <2> QED
    BY <1>1, <1>2, <2>1 DEF CallersInv, Threads
<1>6. \A t \in Threads : \A S : ~HeadIn(t, S)
  BY <1>2 DEF HeadIn
<1>7. EncoderInv
  BY <1>1, <1>2 DEF EncoderInv, Fresh
<1>8. FilesDistinct
  BY <1>3 DEF FilesDistinct
<1>9. FilesInv
  BY <1>1, <1>3, <1>6, <1>8 DEF FilesInv
<1>10. SizeInv /\ FormatInv
  BY <1>1 DEF SizeInv, FormatInv
<1> QED
  BY <1>1, <1>4, <1>5, <1>7, <1>8, <1>9, <1>10 DEF LifeInv, RunInv, EncoderAtHand, FilesFinished

\* Without a step the invariant stays.
LEMMA LifeStutters ==
  ASSUME LifeInv, UNCHANGED vars
  PROVE  LifeInv'
<1>1. UNCHANGED <<encoder, objs, partCounter, seenFrames, firstCreate, captureWidth, asked, gotDataLock, captureDataLock,
                  shuttingDown, initialized, exitNextFrame, soundOpen, playing, armed, endStuck, realEncoder, wfx,
                  calls, made, fault, over, lostFormat>>
  BY DEF vars, picture, locks, sound, control
<1>2. TypeOK'
  BY <1>1 DEF LifeInv, TypeOK
<1>3. /\ \A u \in Threads : \A S : HeadIn(u, S)' <=> HeadIn(u, S)
      /\ \A u \in Threads : (Busy(u)' <=> Busy(u)) /\ (Disturbs(u)' <=> Disturbs(u))
  BY <1>1 DEF HeadIn, Busy, Disturbs
<1>4. \A u \in Threads : Alone(u)' <=> Alone(u)
  BY <1>3 DEF Alone
<1>5. CallersInv => CallersInv'
  <2>1. {"hook", "watchdog"} \subseteq Threads
    BY DEF Threads
  <2> QED
    BY <1>1, <1>3, <1>4, <2>1 DEF CallersInv
<1>6. EncoderInv => EncoderInv'
  <2>1. "program" \in Threads
    BY DEF Threads
  <2> QED
    BY <1>1, <1>3, <2>1 DEF EncoderInv, Fresh, Live, Between
<1>7. (FilesDistinct => FilesDistinct') /\ (FilesInv => FilesInv')
  BY <1>1, <1>3 DEF FilesInv, FilesDistinct
<1>8. (SizeInv => SizeInv') /\ (FormatInv => FormatInv')
  BY <1>1, <1>3 DEF SizeInv, FormatInv
<1>9. Running' <=> Running
  BY <1>1 DEF Running
<1>10. EncoderAtHand' /\ FilesFinished'
  BY <1>1 DEF LifeInv, EncoderAtHand, FilesFinished
<1> QED
  BY <1>2, <1>5, <1>6, <1>7, <1>8, <1>9, <1>10 DEF LifeInv, RunInv

\* A process that has ended takes no step.
LEMMA OnlyRunning ==
  ASSUME Next
  PROVE  Running
<1>1. ASSUME NEW t \in Threads, Step(t) PROVE Running
  <2>1. CASE Need(t) \/ Create(t) \/ GetFormat(t) \/ Delete(t) \/ NextPart(t) \/ CreatePart(t) \/ ResumeSound(t)
    BY <2>1 DEF Need, Create, GetFormat, Delete, NextPart, CreatePart, ResumeSound, At
  <2>2. CASE Resolution(t) \/ DestroyBuffer(t) \/ InitBuffer(t) \/ SetSize(t)
    BY <2>2 DEF Resolution, DestroyBuffer, InitBuffer, SetSize, At
  <2>3. CASE EnterData(t) \/ LeaveData(t) \/ Write(t) \/ WriteNothing(t) \/ Seen(t) \/ Timing(t) \/ Arm(t) \/ Sound(t) \/ Format(t)
    BY <2>3 DEF EnterData, LeaveData, Write, WriteNothing, Seen, Timing, Arm, Sound, Format, At
  <2>4. CASE \/ EnterShutdown(t) \/ TakeEncoder(t) \/ DeleteEncoder(t) \/ DoneVideo(t)
             \/ LeaveShutdown(t) \/ Terminate(t)
    BY <2>4 DEF EnterShutdown, TakeEncoder, DeleteEncoder, DoneVideo, LeaveShutdown, Terminate, At
  <2> QED
    BY <1>1, <2>1, <2>2, <2>3, <2>4 DEF Step
<1>2. CASE Program
  BY <1>2 DEF Program, ProgramSwapsBuffers, ProgramCreatesDevice, ProgramResetsDevice, ProgramPresents,
              ProgramAdvances, ProgramHammers, ProgramOpensSound, ProgramPlays, ProgramStops, ProgramExits, Call
<1>3. CASE FrameTimesOut \/ CtrlBreak \/ RightCtrl
  BY <1>3 DEF FrameTimesOut, CtrlBreak, RightCtrl, Call
<1> QED
  BY <1>1, <1>2, <1>3 DEF Next

\* The inductive step.
LEMMA LifeNext ==
  ASSUME Overlap = FALSE, LifeInv, Next
  PROVE  LifeInv'
<1>1. Running /\ fault = "none" /\ over = FALSE /\ TypeOK /\ RunInv
  <2>1. Running
    BY OnlyRunning
  <2> QED
    BY <2>1 DEF LifeInv, Running, TypeOK
<1>2. ASSUME TypeOK', RunInv', fault' = "none", over' = over PROVE LifeInv'
  BY <1>1, <1>2 DEF LifeInv, RunInv, FilesInv, EncoderAtHand, FilesFinished
<1>3. CASE Program \/ FrameTimesOut \/ CtrlBreak \/ RightCtrl
  <2>1. TypeOK' /\ RunInv' /\ UNCHANGED <<fault, over>>
    BY <1>1, <1>3, ProgramCalls, OtherCalls
  <2> QED
    BY <1>1, <1>2, <2>1
<1>4. ASSUME NEW t \in Threads, Step(t) PROVE LifeInv'
  <2>1. CASE Terminate(t)
    <3>1. TypeOK' /\ FilesDistinct' /\ over' /\ FilesFinished' /\ fault' = fault
      BY <1>1, <2>1, TerminateFinishes
    <3> QED
      BY <1>1, <3>1 DEF LifeInv, EncoderAtHand, Running
  <2>2. CASE ~Terminate(t)
    <3>1. /\ TypeOK' /\ over' = over
          /\ \/ RunInv' /\ fault' = "none"
             \/ fault' = "no format" /\ lostFormat' /\ objs' = objs
      BY <1>1, <1>4, <2>2, StepKeeps
    <3>2. CASE RunInv' /\ fault' = "none"
      BY <1>2, <3>1, <3>2
    <3>3. CASE fault' = "no format" /\ lostFormat' /\ objs' = objs
      <4>1. FilesDistinct'
        BY <3>3 DEF LifeInv, FilesDistinct
      <4> QED
        BY <1>1, <3>1, <3>3, <4>1 DEF LifeInv, EncoderAtHand, FilesFinished, Running
    <3> QED
      BY <3>1, <3>2, <3>3
  <2> QED
    BY <2>1, <2>2
<1> QED
  BY <1>3, <1>4 DEF Next

-----------------------------------------------------------------------------
(* The theorems. *)

\* As long as no call overlaps an exchange of the encoder the invariant holds, for
\* any sizes and any number of calls (main.cpp, video.cpp).
THEOREM LifeInvariant ==
  ASSUME Overlap = FALSE
  PROVE  FairSpec => []LifeInv
<1>1. Init => LifeInv
  BY LifeInit
<1>2. LifeInv /\ [Next]_vars => LifeInv'
  BY LifeNext, LifeStutters
<1> QED
  BY <1>1, <1>2, PTL DEF FairSpec, Spec

\* No call meets an encoder that is missing or deleted, and sound misses its format
\* only behind a part that had none: videoNeedEncoder, videoStartNextPart and done
\* leave no gap between them (video.cpp, main.cpp).
THEOREM EncoderAtHandHolds ==
  ASSUME Overlap = FALSE
  PROVE  FairSpec => []EncoderAtHand
<1>1. LifeInv => EncoderAtHand
  BY DEF LifeInv
<1> QED
  BY <1>1, LifeInvariant, PTL

\* With every exchange of the encoder apart from the other threads' calls (Overlap is
\* FALSE, so the call that ends the process is the only one under way then), no file is
\* opened twice, since videoStartNextPart gives every part its number, and the process
\* ends with every file finished (done, main.cpp). Without that a finished file is made
\* again: the run Lifecycle_break.
THEOREM FilesCompleteHolds ==
  ASSUME Overlap = FALSE
  PROVE  FairSpec => []FilesComplete
<1>1. LifeInv => FilesComplete
  BY DEF LifeInv, FilesComplete
<1> QED
  BY <1>1, LifeInvariant, PTL

\* A picture is written only when the encoder was told the size of the capture
\* buffer (setCaptureResolution, WriteFrame).
THEOREM PicturesFitHolds ==
  ASSUME Overlap = FALSE
  PROVE  FairSpec => []PicturesFit
<1>1. LifeInv => PicturesFit
  <2> SUFFICES ASSUME LifeInv PROVE PicturesFit
    OBVIOUS
  <2>1. TypeOK
    BY DEF LifeInv
  <2> SUFFICES ASSUME NEW t \in Threads, At(t, "write") \/ At(t, "writeAgain"), encoder # Nobody
               PROVE  objs[encoder].size = captureWidth
    BY <2>1 DEF PicturesFit
  <2>2. RunInv /\ CallersInv /\ SizeInv
    BY DEF LifeInv, RunInv, At
  <2>3. HeadIn(t, Writings) /\ Busy(t)
    BY <2>1, HeadAt DEF Writings
  <2>4. ~Has(calls[t], Resizing)
    BY <2>1, <2>2, <2>3, AfterWrite DEF CallersInv
  <2>5. ASSUME NEW u \in Threads, Has(calls[u], Sizings) PROVE FALSE
    <3>1. CASE u = t
      BY <2>4, <2>5, <3>1 DEF Has, Resizing
    <3>2. CASE u # t
      <4>1. Has(calls[u], Exchanges)
        BY <2>5 DEF Has, Sizings, Exchanges
      <4>2. Alone(u)
        BY <2>2, <4>1 DEF CallersInv, Disturbs
      <4> QED
        BY <2>3, <3>2, <4>2 DEF Alone
    <3> QED
      BY <3>1, <3>2
  <2> QED
    BY <2>2, <2>5 DEF SizeInv
<1> QED
  BY <1>1, LifeInvariant, PTL

\* What a method of the encoder leaves of the sizes.
LEMMA SizesLeft ==
  ASSUME TypeOK, NEW t \in Threads, NEW e, NEW new,
         Method(t, e, new) \/ MethodIfAny(t, e, new),
         e \in 1..Len(objs) => new.size = objs[e].size
  PROVE  \A i \in 1..Len(objs) : objs'[i].size = objs[i].size
<1>1. objs' = objs \/ objs' = [objs EXCEPT ![e] = new]
  BY DEF Method, MethodIfAny, Local
<1>2. objs \in Seq(Encoder)
  BY DEF TypeOK
<1> QED
  BY <1>1, <1>2

\* An encoder with a picture keeps its size.
LEMMA SizesKept ==
  ASSUME LifeInv, Next
  PROVE  \A i \in 1..Len(objs) : objs[i].pictures => objs'[i].size = objs[i].size
<1> DEFINE goal == \A i \in 1..Len(objs) : objs'[i].size = objs[i].size
<1>1. Running /\ TypeOK /\ RunInv
  BY OnlyRunning DEF LifeInv
<1>2. CASE Program \/ FrameTimesOut \/ CtrlBreak \/ RightCtrl
  <2>1. objs' = objs
    BY <1>2 DEF Program, ProgramSwapsBuffers, ProgramCreatesDevice, ProgramResetsDevice, ProgramPresents,
                ProgramAdvances, ProgramHammers, ProgramOpensSound, ProgramPlays, ProgramStops, ProgramExits,
                FrameTimesOut, CtrlBreak, RightCtrl, Call
  <2> QED
    BY <2>1
<1>3. ASSUME NEW t \in Threads, Step(t), ~SetSize(t) PROVE goal
  <2>1. CASE \/ Need(t) \/ NextPart(t) \/ Resolution(t) \/ DestroyBuffer(t) \/ InitBuffer(t)
             \/ EnterData(t) \/ LeaveData(t) \/ WriteNothing(t) \/ Seen(t) \/ Timing(t) \/ Arm(t)
    <3>1. objs' = objs
      BY <2>1 DEF Need, NextPart, Resolution, DestroyBuffer, InitBuffer, SetBuffer, EnterData, LeaveData, LockOnly,
                  WriteNothing, Seen, Timing, Arm, Local
    <3> QED
      BY <3>1
  <2>2. CASE EnterShutdown(t) \/ TakeEncoder(t) \/ DoneVideo(t) \/ LeaveShutdown(t) \/ Terminate(t)
    <3>1. objs' = objs
      BY <2>2 DEF EnterShutdown, TakeEncoder, DoneVideo, LeaveShutdown, Terminate, LockOnly
    <3> QED
      BY <3>1
  <2>3. CASE Create(t) \/ CreatePart(t)
    <3>1. PICK new : objs' = Append(objs, new)
      BY <2>3 DEF Create, CreatePart, CreateFor
    <3>2. objs \in Seq(Encoder)
      BY <1>1 DEF TypeOK
    <3>3. \A i \in 1..Len(objs) : objs'[i] = objs[i]
      BY <3>1, <3>2
    <3> QED
      BY <3>3
  <2>4. \A e \in 1..Len(objs) : objs[e] \in Encoder
    <3>1. objs \in Seq(Encoder)
      BY <1>1 DEF TypeOK
    <3> QED
      BY <3>1
  <2>5. CASE GetFormat(t)
    BY <1>1, <2>5, SizesLeft DEF GetFormat
  <2>6. CASE Delete(t) \/ DeleteEncoder(t)
    <3> DEFINE new(e) == [objs[e] EXCEPT !.deleted = TRUE]
    <3>1. \A e \in 1..Len(objs) : new(e).size = objs[e].size
      BY <2>4, AfterDelete
    <3>2. PICK e : Method(t, e, new(e)) \/ MethodIfAny(t, e, new(e))
      BY <2>6 DEF Delete, DeleteEncoder
    <3> HIDE DEF new
    <3> QED
      BY <1>1, <3>1, <3>2, SizesLeft
  <2>7. CASE ResumeSound(t) \/ Format(t)
    <3> DEFINE new(e) == [objs[e] EXCEPT !.format = TRUE]
    <3>1. \A e \in 1..Len(objs) : new(e).size = objs[e].size
      BY <2>4, AfterFormat
    <3>2. objs' = objs \/ Method(t, encoder, new(encoder))
      BY <2>7 DEF ResumeSound, Format, Local
    <3> HIDE DEF new
    <3> QED
      BY <1>1, <3>1, <3>2, SizesLeft
  <2>8. CASE Sound(t)
    <3> DEFINE new(e) == [objs[e] EXCEPT !.aud = TRUE]
    <3>1. \A e \in 1..Len(objs) : new(e).size = objs[e].size
      BY <2>4, AfterStream
    <3>2. objs' = objs \/ Method(t, encoder, new(encoder))
      BY <2>8 DEF Sound, Local
    <3> HIDE DEF new
    <3> QED
      BY <1>1, <3>1, <3>2, SizesLeft
  <2>9. CASE Write(t)
    <3> DEFINE new(e) == IF objs[e].size = 0 THEN objs[e] ELSE [objs[e] EXCEPT !.pictures = TRUE]
    <3>1. \A e \in 1..Len(objs) : new(e).size = objs[e].size
      BY <2>4, AfterPicture
    <3>2. Method(t, encoder, new(encoder)) \/ MethodIfAny(t, encoder, new(encoder))
      BY <2>9 DEF Write
    <3> HIDE DEF new
    <3> QED
      BY <1>1, <3>1, <3>2, SizesLeft
  <2> QED
    BY <1>3, <2>1, <2>2, <2>3, <2>5, <2>6, <2>7, <2>8, <2>9 DEF Step
<1>4. ASSUME NEW t \in Threads, SetSize(t)
      PROVE  \A i \in 1..Len(objs) : objs[i].pictures => objs'[i].size = objs[i].size
  <2>1. ~objs[encoder].pictures /\ objs' = [objs EXCEPT ![encoder] = [@ EXCEPT !.size = captureWidth]]
    BY <1>1, <1>4, SizeTold
  <2>2. \A i \in 1..Len(objs) : i # encoder => objs'[i] = objs[i]
    <3>1. objs \in Seq(Encoder)
      BY <1>1 DEF TypeOK
    <3> QED
      BY <2>1, <3>1
  <2> QED
    BY <2>1, <2>2
<1> QED
  BY <1>2, <1>3, <1>4 DEF Next

\* A file keeps the size of its first picture: a new size goes to a new part
\* (video.cpp:159-161).
THEOREM OneSizePerFileHolds ==
  ASSUME Overlap = FALSE
  PROVE  FairSpec => OneSizePerFile
<1>1. LifeInv /\ [Next]_vars => [\A e \in DOMAIN objs : objs[e].pictures => objs'[e].size = objs[e].size]_vars
  <2> SUFFICES ASSUME LifeInv, Next
               PROVE  \A e \in DOMAIN objs : objs[e].pictures => objs'[e].size = objs[e].size
    OBVIOUS
  <2>1. DOMAIN objs = 1..Len(objs)
    <3>1. objs \in Seq(Encoder)
      BY DEF LifeInv, TypeOK
    <3> QED
      BY <3>1
  <2> QED
    BY <2>1, SizesKept
<1> QED
  BY <1>1, LifeInvariant, PTL DEF FairSpec, Spec, OneSizePerFile
=============================================================================
