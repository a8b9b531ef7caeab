----------------------------- MODULE EchoProofs ------------------------------
(***************************************************************************)
(* The echo of exercise_loopback, for every delay, read, drain frame and   *)
(* channel capacity: the inductive invariant of HfpSmoke's EchoIsExact.    *)
(*                                                                         *)
(* It follows each sample from the capture through the channel and the     *)
(* line to the headset.  EchoData(n, m) says that m samples have entered   *)
(* the channel and n the line, and that what the channel, the line and the *)
(* headset hold are the right stretches of one stream: Delay samples of    *)
(* silence, then the attenuated capture.  What a frame does to the line,   *)
(* which may be shorter than the frame, is SwapFrameIs.                    *)
(***************************************************************************)
EXTENDS HfpLoopback, WellFoundedInduction, TLAPS

\* What the sizes of floss_hfp_smoke.rs are.
Sizes ==
  /\ Delays \subseteq Nat
  /\ {MaxRead, DrainFrame, Capacity, MaxUplink} \subseteq Nat \ {0}

\* The task gives its sender up only once the capture deadline has passed, and
\* has it while it sends.
SenderHeld ==
  /\ capture = "send" => tx
  /\ capture = "read" /\ ~tx => now # "capturing"

\* s is what w holds after its first o elements.
Matches(s, w, o) == o + Len(s) <= Len(w) /\ \A i \in 1 .. Len(s) : s[i] = w[o + i]

\* The first r samples a line l gives from cursor c on.
Ring(l, c, r) == [i \in 1 .. r |-> l[((c + i - 1) % Len(l)) + 1]]

\* The frames of the channel q are, one after the other, the samples n + 1 to m
\* of c; bound[k] is where the k-th frame ends.
Segments(q, c, n, m) ==
  /\ n \in Nat /\ m \in Nat /\ m <= Len(c)
  /\ \E bound \in [0 .. Len(q) -> n .. m] :
       /\ bound[0] = n /\ bound[Len(q)] = m
       /\ \A k \in 1 .. Len(q) : /\ bound[k] = bound[k - 1] + Len(q[k])
                                 /\ \A j \in 1 .. Len(q[k]) : q[k][j] = c[bound[k - 1] + j]

\* Delay samples of silence, then the attenuated capture.
Whole(c, d) == Silence(d) \o Echo(c)

EchoTypes ==
  /\ line \in Seq(Nat) /\ cursor \in Nat /\ remaining \in 0 .. Len(line)
  /\ Len(line) # 0 => cursor < Len(line)
  /\ played \in Seq(Nat) /\ out \in Seq(Nat)
  /\ frame \in Seq(Nat) /\ captured \in Seq(Nat) /\ uplink \in Nat
  /\ queue \in Seq(Seq(Nat))

\* What the tasks hold where they are.
EchoControl ==
  /\ playback \in {"recv", "write", "drain", "done"}
  /\ playback \in {"recv", "write"} => remaining = Len(line)
  /\ playback # "write" => out = <<>>
  /\ playback \in {"drain", "done"} => queue = <<>> /\ capture # "send" /\ ~tx
  /\ playback = "done" => remaining = 0
  /\ capture # "send" => frame = <<>>
  /\ Len(frame) <= MaxRead
  /\ result = "ok" => playback = "done"

\* Of the captured samples, n have entered the line and m have entered the channel.
EchoData(n, m) ==
  /\ n + Len(line) = Len(played) + Len(out) + remaining
  /\ Matches(played, Whole(captured, Len(line)), 0)
  /\ Matches(out, Whole(captured, Len(line)), Len(played))
  /\ Matches(Ring(line, cursor, remaining), Whole(captured, Len(line)), Len(played) + Len(out))
  /\ Segments(queue, captured, n, m)
  /\ Matches(frame, captured, m)
  /\ Len(captured) - (m + Len(frame)) <= MaxRead
  /\ tx => Len(captured) = m + Len(frame)

EchoInv == EchoTypes /\ EchoControl /\ \E n, m \in Nat : EchoData(n, m)

-----------------------------------------------------------------------------
\* Induction over 0 .. n for a set: the provers take no predicate.
LEMMA SetInduction ==
  ASSUME NEW S, NEW n \in Nat, 0 \in S,
         \A k \in 0 .. n : k # n /\ k \in S => k + 1 \in S
  PROVE  \A k \in 0 .. n : k \in S
<1> SUFFICES ASSUME \E k \in 0 .. n : k \notin S PROVE FALSE
  OBVIOUS
<1> DEFINE R == {ss \in Nat \X Nat : ss[1] < ss[2]}
           T == {k \in 0 .. n : k \notin S}
<1>1. IsWellFoundedOn(R, Nat)
  BY NatLessThanWellFounded DEF OpToRel
<1>2. \A i, j \in Nat : j < i => <<j, i>> \in R
  OBVIOUS
<1>3. T \subseteq Nat /\ T # {}
  OBVIOUS
<1>4. PICK i \in T : \A j \in T : ~(<<j, i>> \in R)
  <2> HIDE DEF R, T
  <2> QED
    BY <1>1, <1>3, WFMin
<1>5. i # 0 /\ i - 1 \in 0 .. n /\ i - 1 # n /\ i - 1 < i /\ (i - 1) + 1 = i
  OBVIOUS
<1>6. i - 1 \in S
  <2>1. i \in Nat /\ i - 1 \in Nat
    BY <1>3, <1>5
  <2>2. <<i - 1, i>> \in R
    BY <1>2, <1>5, <2>1
  <2> QED
    BY <1>4, <1>5, <2>2
<1> QED
  BY <1>5, <1>6

LEMMA SmallMod ==
  ASSUME NEW x \in Nat, NEW d \in Nat \ {0}
  PROVE  /\ x < d => x % d = x
         /\ d <= x /\ x < 2 * d => x % d = x - d
<1>1. x % d \in 0 .. d - 1 /\ x \div d \in Nat /\ x = (x \div d) * d + (x % d)
  BY SMT
<1> DEFINE q == x \div d
<1> HIDE DEF q
<1>2. q = 0 \/ q = 1 \/ q >= 2
  BY <1>1 DEF q
<1>3. q >= 2 => q * d >= 2 * d
  BY <1>1, SMT DEF q
<1> QED
  BY <1>1, <1>2, <1>3 DEF q

LEMMA ConcatFacts ==
  ASSUME NEW s \in Seq(Nat), NEW t \in Seq(Nat)
  PROVE  /\ s \o t \in Seq(Nat) /\ Len(s \o t) = Len(s) + Len(t)
         /\ \A i \in 1 .. Len(s) : (s \o t)[i] = s[i]
         /\ \A i \in 1 .. Len(t) : (s \o t)[Len(s) + i] = t[i]
  OBVIOUS

LEMMA SeqEqual ==
  ASSUME NEW s \in Seq(Nat), NEW t \in Seq(Nat), Len(s) = Len(t),
         \A i \in 1 .. Len(s) : s[i] = t[i]
  PROVE  s = t
  OBVIOUS

LEMMA ConcatEmpty ==
  ASSUME NEW s \in Seq(Nat)
  PROVE  <<>> \o s = s
  OBVIOUS

Associates(s, t, u) == (s \o t) \o u = s \o (t \o u)

LEMMA ConcatAssoc ==
  ASSUME NEW s \in Seq(Nat), NEW t \in Seq(Nat), NEW u \in Seq(Nat)
  PROVE  Associates(s, t, u)
<1> DEFINE p == s \o t
           q == t \o u
           l == p \o u
           r == s \o q
<1>1. Len(s) \in Nat /\ Len(t) \in Nat /\ Len(u) \in Nat
  OBVIOUS
<1>2. /\ p \in Seq(Nat) /\ Len(p) = Len(s) + Len(t)
      /\ \A i \in 1 .. Len(s) : p[i] = s[i]
      /\ \A i \in 1 .. Len(t) : p[Len(s) + i] = t[i]
  BY ConcatFacts, Zenon
<1>3. /\ q \in Seq(Nat) /\ Len(q) = Len(t) + Len(u)
      /\ \A i \in 1 .. Len(t) : q[i] = t[i]
      /\ \A i \in 1 .. Len(u) : q[Len(t) + i] = u[i]
  BY ConcatFacts, Zenon
<1> HIDE DEF p, q
<1>4. /\ l \in Seq(Nat) /\ Len(l) = Len(p) + Len(u)
      /\ \A i \in 1 .. Len(p) : l[i] = p[i]
      /\ \A i \in 1 .. Len(u) : l[Len(p) + i] = u[i]
  BY <1>2, ConcatFacts, Zenon
<1>5. /\ r \in Seq(Nat) /\ Len(r) = Len(s) + Len(q)
      /\ \A i \in 1 .. Len(s) : r[i] = s[i]
      /\ \A i \in 1 .. Len(q) : r[Len(s) + i] = q[i]
  BY <1>3, ConcatFacts, Zenon
<1> HIDE DEF l, r
<1>6. Len(l) = Len(s) + Len(t) + Len(u) /\ Len(r) = Len(s) + Len(t) + Len(u)
  BY <1>1, <1>2, <1>3, <1>4, <1>5
<1>7. ASSUME NEW i \in 1 .. Len(l) PROVE l[i] = r[i]
  <2>1. CASE i <= Len(s)
    BY <1>1, <1>2, <1>4, <1>5, <2>1
  <2>2. CASE Len(s) < i /\ i <= Len(s) + Len(t)
    <3>1. PICK k \in 1 .. Len(t) : i = Len(s) + k
      <4>1. i - Len(s) \in 1 .. Len(t) /\ i = Len(s) + (i - Len(s))
        BY <1>1, <1>6, <2>2
      <4> QED
        BY <4>1
    <3>2. i \in 1 .. Len(p) /\ k \in 1 .. Len(q)
      BY <1>1, <1>2, <1>3, <3>1
    <3>3. l[i] = p[i] /\ p[i] = t[k]
      BY <1>2, <1>4, <3>1, <3>2, Zenon
    <3>4. r[i] = q[k] /\ q[k] = t[k]
      BY <1>3, <1>5, <3>1, <3>2, Zenon
    <3> QED
      BY <3>3, <3>4, Zenon
  <2>3. CASE Len(s) + Len(t) < i
    <3>1. PICK k \in 1 .. Len(u) : i = Len(p) + k
      <4>1. i - Len(p) \in 1 .. Len(u) /\ i = Len(p) + (i - Len(p))
        BY <1>1, <1>2, <1>6, <2>3
      <4> QED
        BY <4>1
    <3>2. Len(t) + k \in 1 .. Len(q) /\ i = Len(s) + (Len(t) + k)
      BY <1>1, <1>2, <1>3, <3>1
    <3>3. l[i] = u[k] /\ q[Len(t) + k] = u[k]
      BY <1>3, <1>4, <3>1, Zenon
    <3> QED
      BY <1>5, <3>2, <3>3, Zenon
  <2> QED
    BY <1>1, <1>6, <2>1, <2>2, <2>3
<1>8. l = r
  BY <1>4, <1>5, <1>6, <1>7, SeqEqual
<1> QED
  BY <1>8 DEF Associates, l, r, p, q

LEMMA MatchesConcat ==
  ASSUME NEW s \in Seq(Nat), NEW t \in Seq(Nat), NEW w \in Seq(Nat), NEW o \in Nat,
         Matches(s, w, o), Matches(t, w, o + Len(s))
  PROVE  Matches(s \o t, w, o)
<1>1. /\ Len(s) \in Nat /\ Len(t) \in Nat /\ Len(w) \in Nat /\ Len(s \o t) = Len(s) + Len(t)
  BY ConcatFacts
<1>2. ASSUME NEW i \in 1 .. Len(s \o t)
      PROVE  (s \o t)[i] = w[o + i]
  <2>1. CASE i \in 1 .. Len(s)
    BY <2>1, ConcatFacts DEF Matches
  <2>2. CASE i \notin 1 .. Len(s)
    <3>1. i - Len(s) \in 1 .. Len(t) /\ Len(s) + (i - Len(s)) = i
          /\ o + Len(s) + (i - Len(s)) = o + i
      BY <1>1, <2>2
    <3>2. (s \o t)[Len(s) + (i - Len(s))] = t[i - Len(s)]
      BY <3>1, ConcatFacts
    <3>3. t[i - Len(s)] = w[o + Len(s) + (i - Len(s))]
      BY <3>1 DEF Matches
    <3> QED
      BY <3>1, <3>2, <3>3
  <2> QED
    BY <2>1, <2>2
<1> QED
  BY <1>1, <1>2 DEF Matches

\* A sequence that grows at its end keeps what it matched.
LEMMA MatchesGrow ==
  ASSUME NEW s \in Seq(Nat), NEW w \in Seq(Nat), NEW x \in Seq(Nat), NEW o \in Nat,
         Matches(s, w, o)
  PROVE  Matches(s, w \o x, o)
<1>1. /\ Len(s) \in Nat /\ Len(w) \in Nat /\ Len(x) \in Nat /\ Len(w \o x) = Len(w) + Len(x)
  BY ConcatFacts
<1>2. \A i \in 1 .. Len(w) : (w \o x)[i] = w[i]
  BY ConcatFacts
<1> QED
  BY <1>1, <1>2 DEF Matches

-----------------------------------------------------------------------------
(* The channel.                                                            *)

LEMMA SegmentsEmpty ==
  ASSUME NEW c \in Seq(Nat), NEW n \in Nat, n <= Len(c)
  PROVE  Segments(<<>>, c, n, n)
<1> DEFINE b == [k \in 0 .. 0 |-> n]
<1>1. b \in [0 .. Len(<<>>) -> n .. n] /\ b[0] = n /\ b[Len(<<>>)] = n
  OBVIOUS
<1> HIDE DEF b
<1> QED
  BY <1>1 DEF Segments

LEMMA SegmentsAppend ==
  ASSUME NEW q \in Seq(Seq(Nat)), NEW c \in Seq(Nat), NEW f \in Seq(Nat), NEW n, NEW m,
         Segments(q, c, n, m), Matches(f, c, m)
  PROVE  Segments(Append(q, f), c, n, m + Len(f))
<1>1. n \in Nat /\ m \in Nat /\ m <= Len(c) /\ Len(q) \in Nat /\ Len(f) \in Nat /\ Len(c) \in Nat
  BY DEF Segments
<1>2. PICK b \in [0 .. Len(q) -> n .. m] :
        /\ b[0] = n /\ b[Len(q)] = m
        /\ \A k \in 1 .. Len(q) : /\ b[k] = b[k - 1] + Len(q[k])
                                  /\ \A j \in 1 .. Len(q[k]) : q[k][j] = c[b[k - 1] + j]
  BY DEF Segments
<1> DEFINE r == Append(q, f)
           d == [k \in 0 .. Len(q) + 1 |-> IF k = Len(q) + 1 THEN m + Len(f) ELSE b[k]]
<1>3. /\ r \in Seq(Seq(Nat)) /\ Len(r) = Len(q) + 1 /\ r[Len(q) + 1] = f
      /\ \A k \in 1 .. Len(q) : r[k] = q[k]
  OBVIOUS
<1>4. n <= m
  <2>1. 0 \in 0 .. Len(q)
    BY <1>1
  <2>2. b[0] \in n .. m
    BY <2>1
  <2> QED
    BY <1>1, <1>2, <2>2
<1>5. /\ d \in [0 .. Len(r) -> n .. m + Len(f)] /\ d[0] = n /\ d[Len(r)] = m + Len(f)
  BY <1>1, <1>2, <1>3, <1>4
<1>6. ASSUME NEW k \in 1 .. Len(r)
      PROVE  /\ d[k] = d[k - 1] + Len(r[k])
             /\ \A j \in 1 .. Len(r[k]) : r[k][j] = c[d[k - 1] + j]
  <2>1. CASE k = Len(q) + 1
    <3>1. r[k] = f /\ d[k] = m + Len(f) /\ d[k - 1] = m
      BY <1>1, <1>2, <1>3, <2>1
    <3> QED
      BY <3>1 DEF Matches
  <2>2. CASE k # Len(q) + 1
    <3>1. k \in 1 .. Len(q) /\ r[k] = q[k] /\ d[k] = b[k] /\ d[k - 1] = b[k - 1]
      BY <1>1, <1>3, <2>2
    <3> QED
      BY <1>2, <3>1
  <2> QED
    BY <2>1, <2>2
<1>7. m + Len(f) \in Nat /\ m + Len(f) <= Len(c)
  BY <1>1 DEF Matches
<1> HIDE DEF d, r
<1> QED
  BY <1>1, <1>5, <1>6, <1>7 DEF Segments, r

LEMMA SegmentsTail ==
  ASSUME NEW q \in Seq(Seq(Nat)), NEW c \in Seq(Nat), NEW n, NEW m,
         Segments(q, c, n, m), q # <<>>
  PROVE  /\ Head(q) \in Seq(Nat) /\ Matches(Head(q), c, n) /\ n + Len(Head(q)) <= m
         /\ Segments(Tail(q), c, n + Len(Head(q)), m)
<1>1. n \in Nat /\ m \in Nat /\ m <= Len(c) /\ Len(q) \in Nat /\ Len(c) \in Nat /\ Len(q) > 0
  BY DEF Segments
<1>2. PICK b \in [0 .. Len(q) -> n .. m] :
        /\ b[0] = n /\ b[Len(q)] = m
        /\ \A k \in 1 .. Len(q) : /\ b[k] = b[k - 1] + Len(q[k])
                                  /\ \A j \in 1 .. Len(q[k]) : q[k][j] = c[b[k - 1] + j]
  BY DEF Segments
<1> DEFINE r == Tail(q)
           h == n + Len(q[1])
           d == [k \in 0 .. Len(q) - 1 |-> b[k + 1]]
<1>3. /\ r \in Seq(Seq(Nat)) /\ Len(r) = Len(q) - 1 /\ Head(q) = q[1]
      /\ \A k \in 1 .. Len(q) - 1 : r[k] = q[k + 1]
  BY <1>1
<1>4. q[1] \in Seq(Nat) /\ Len(q[1]) \in Nat
  BY <1>1
<1>5. b[1] = h /\ b[1] \in n .. m /\ \A j \in 1 .. Len(q[1]) : q[1][j] = c[n + j]
  <2>1. 1 \in 1 .. Len(q) /\ 1 \in 0 .. Len(q)
    BY <1>1
  <2>2. b[1 - 1] = n
    BY <1>2
  <2>3. b[1] = b[1 - 1] + Len(q[1]) /\ \A j \in 1 .. Len(q[1]) : q[1][j] = c[b[1 - 1] + j]
    BY <1>2, <2>1
  <2>4. b[1] \in n .. m
    BY <2>1
  <2> QED
    BY <2>2, <2>3, <2>4
<1>6. Matches(q[1], c, n) /\ h <= m /\ h \in Nat
  BY <1>1, <1>4, <1>5, SMTT(30) DEF Matches
<1>7. ASSUME NEW k \in 0 .. Len(q) - 1
      PROVE  d[k] \in h .. m
  <2> DEFINE S == {i \in Nat : i <= Len(q) - 1 => d[i] \in h .. m}
  <2>1. 0 \in S
    BY <1>1, <1>5, <1>6
  <2>2. ASSUME NEW i \in 0 .. Len(q) - 1, i # Len(q) - 1, i \in S
        PROVE  i + 1 \in S
    <3>1. d[i] = b[i + 1] /\ d[i + 1] = b[i + 2] /\ i + 2 \in 1 .. Len(q) /\ (i + 2) - 1 = i + 1
      BY <1>1, <2>2
    <3>2. b[i + 2] = b[i + 1] + Len(q[i + 2])
      BY <1>2, <3>1
    <3>4. q[i + 2] \in Seq(Nat)
      BY <3>1
    <3>5. Len(q[i + 2]) \in Nat
      BY <3>4
    <3>6. i + 2 \in 0 .. Len(q)
      BY <3>1
    <3>7. b[i + 2] \in n .. m
      BY <3>6
    <3>3. d[i] \in h .. m
      BY <1>1, <2>2
    <3>8. d[i + 1] \in h .. m
      <4> DEFINE x == b[i + 1]
                 y == b[i + 2]
                 z == Len(q[i + 2])
      <4>1. x \in h .. m /\ y = x + z /\ z \in Nat /\ y \in n .. m /\ d[i + 1] = y
        BY <3>1, <3>2, <3>3, <3>5, <3>7
      <4> HIDE DEF d, h, S, x, y, z
      <4> QED
        BY <1>1, <1>6, <4>1
    <3> QED
      BY <3>8
  <2>3. Len(q) - 1 \in Nat
    BY <1>1
  <2>4. k \in S
    <3> HIDE DEF S
    <3> QED
      BY <2>1, <2>2, <2>3, SetInduction
  <2> QED
    BY <1>1, <2>4
<1>8. d \in [0 .. Len(r) -> h .. m] /\ d[0] = h /\ d[Len(r)] = m
  <2>1. 0 \in 0 .. Len(q) - 1 /\ Len(q) - 1 \in 0 .. Len(q) - 1 /\ d[Len(q) - 1] = b[Len(q)]
    BY <1>1
  <2> QED
    BY <1>2, <1>3, <1>5, <1>7, <2>1
<1>9. ASSUME NEW k \in 1 .. Len(r)
      PROVE  /\ d[k] = d[k - 1] + Len(r[k])
             /\ \A j \in 1 .. Len(r[k]) : r[k][j] = c[d[k - 1] + j]
  <2>1. k + 1 \in 1 .. Len(q) /\ r[k] = q[k + 1] /\ d[k] = b[k + 1] /\ d[k - 1] = b[(k + 1) - 1]
    BY <1>1, <1>3
  <2> QED
    BY <1>2, <2>1
<1>10. Segments(r, c, h, m)
  <2> HIDE DEF d, r, h
  <2> QED
    BY <1>1, <1>6, <1>8, <1>9 DEF Segments
<1> QED
  BY <1>3, <1>4, <1>6, <1>10

LEMMA SegmentsGrow ==
  ASSUME NEW q \in Seq(Seq(Nat)), NEW c \in Seq(Nat), NEW x \in Seq(Nat), NEW n, NEW m,
         Segments(q, c, n, m)
  PROVE  Segments(q, c \o x, n, m)
<1>1. n \in Nat /\ m \in Nat /\ m <= Len(c) /\ Len(q) \in Nat /\ Len(c) \in Nat /\ Len(x) \in Nat
  BY DEF Segments
<1>2. PICK b \in [0 .. Len(q) -> n .. m] :
        /\ b[0] = n /\ b[Len(q)] = m
        /\ \A k \in 1 .. Len(q) : /\ b[k] = b[k - 1] + Len(q[k])
                                  /\ \A j \in 1 .. Len(q[k]) : q[k][j] = c[b[k - 1] + j]
  BY DEF Segments
<1>3. Len(c \o x) = Len(c) + Len(x) /\ \A i \in 1 .. Len(c) : (c \o x)[i] = c[i]
  BY ConcatFacts
<1>4. ASSUME NEW k \in 1 .. Len(q), NEW j \in 1 .. Len(q[k])
      PROVE  q[k][j] = (c \o x)[b[k - 1] + j]
  <2>1. q[k] \in Seq(Nat)
    OBVIOUS
  <2>2. k \in 0 .. Len(q) /\ k - 1 \in 0 .. Len(q)
    BY <1>1
  <2>3. b[k] \in n .. m /\ b[k - 1] \in n .. m /\ Len(q[k]) \in Nat /\ b[k] = b[k - 1] + Len(q[k])
    <3>1. b[k] \in n .. m /\ b[k - 1] \in n .. m
      BY <2>2
    <3>2. Len(q[k]) \in Nat
      BY <2>1
    <3> QED
      BY <1>2, <3>1, <3>2
  <2> DEFINE y == b[k - 1]
             z == b[k]
             l == Len(q[k])
  <2>4. y + j \in 1 .. Len(c)
    <3>1. y \in n .. m /\ z \in n .. m /\ l \in Nat /\ z = y + l /\ j \in 1 .. l
      BY <2>3
    <3> HIDE DEF y, z, l
    <3> QED
      BY <1>1, <3>1
  <2>5. q[k][j] = c[b[k - 1] + j]
    BY <1>2
  <2> QED
    BY <1>3, <2>4, <2>5
<1>5. m <= Len(c \o x)
  BY <1>1, <1>3
<1> QED
  BY <1>1, <1>2, <1>4, <1>5 DEF Segments

\* The frames of the channel, concatenated from the first on.
LEMMA SegmentsFlatten ==
  ASSUME NEW q \in Seq(Seq(Nat)), NEW c \in Seq(Nat), NEW n, NEW m, Segments(q, c, n, m),
         Len(q) # 0
  PROVE  /\ n <= m
         /\ LET flat[i \in 1 .. Len(q)] == IF i = 1 THEN q[i] ELSE flat[i - 1] \o q[i]
            IN  flat[Len(q)] = [j \in 1 .. m - n |-> c[n + j]]
<1>1. n \in Nat /\ m \in Nat /\ m <= Len(c) /\ Len(q) \in Nat /\ Len(c) \in Nat
  BY DEF Segments
<1>2. PICK b \in [0 .. Len(q) -> n .. m] :
        /\ b[0] = n /\ b[Len(q)] = m
        /\ \A k \in 1 .. Len(q) : /\ b[k] = b[k - 1] + Len(q[k])
                                  /\ \A j \in 1 .. Len(q[k]) : q[k][j] = c[b[k - 1] + j]
  BY DEF Segments
<1>3. ASSUME NEW k \in 0 .. Len(q)
      PROVE  b[k] \in Nat /\ n <= b[k] /\ b[k] <= m
  <2>1. b[k] \in n .. m
    OBVIOUS
  <2> QED
    BY <1>1, <2>1
<1>4. n <= m
  <2>1. 0 \in 0 .. Len(q)
    BY <1>1
  <2> QED
    BY <1>2, <1>3, <2>1
<1> DEFINE Upto(e) == [j \in 1 .. e - n |-> c[n + j]]
           g == [i \in 1 .. Len(q) |-> Upto(b[i])]
           Flat(f) == f = [i \in 1 .. Len(q) |-> IF i = 1 THEN q[i] ELSE f[i - 1] \o q[i]]
           fl == CHOOSE f : Flat(f)
<1>5. \A e \in Nat : n <= e /\ e <= m => Upto(e) \in Seq(Nat) /\ Len(Upto(e)) = e - n
  BY <1>1
<1>6. ASSUME NEW k \in 1 .. Len(q)
      PROVE  Upto(b[k]) = Upto(b[k - 1]) \o q[k]
  <2>1. k \in 0 .. Len(q) /\ k - 1 \in 0 .. Len(q) /\ q[k] \in Seq(Nat)
    BY <1>1
  <2> DEFINE y == b[k - 1]
             z == b[k]
             x == q[k]
  <2>2. /\ y \in Nat /\ n <= y /\ y <= m /\ z \in Nat /\ n <= z /\ z <= m
        /\ x \in Seq(Nat) /\ Len(x) \in Nat /\ z = y + Len(x)
        /\ \A j \in 1 .. Len(x) : x[j] = c[y + j]
    <3>1. b[k - 1] \in n .. m /\ b[k] \in n .. m
      BY <2>1
    <3>2. b[k] = b[k - 1] + Len(q[k]) /\ \A j \in 1 .. Len(q[k]) : q[k][j] = c[b[k - 1] + j]
      BY <1>2
    <3> QED
      BY <1>3, <2>1, <3>1, <3>2
  <2> HIDE DEF x, y, z
  <2>3. Upto(z) \in Seq(Nat) /\ Upto(y) \in Seq(Nat) /\ Len(Upto(y)) = y - n
        /\ Len(Upto(z)) = z - n
    BY <1>5, <2>2
  <2>4. Upto(y) \o x \in Seq(Nat) /\ Len(Upto(y) \o x) = z - n
    BY <1>1, <2>2, <2>3, ConcatFacts
  <2>5. ASSUME NEW j \in 1 .. z - n
        PROVE  Upto(z)[j] = (Upto(y) \o x)[j]
    <3>1. CASE j <= y - n
      <4>1. j \in 1 .. y - n /\ j \in 1 .. Len(Upto(y))
        BY <1>1, <2>2, <2>3, <3>1
      <4>2. Upto(z)[j] = c[n + j] /\ Upto(y)[j] = c[n + j]
        BY <4>1
      <4>3. (Upto(y) \o x)[j] = Upto(y)[j]
        <5> HIDE DEF Upto
        <5> QED
          BY <2>2, <2>3, <4>1, ConcatFacts
      <4> QED
        BY <4>2, <4>3
    <3>2. CASE ~(j <= y - n)
      <4>1. j - (y - n) \in 1 .. Len(x) /\ (y - n) + (j - (y - n)) = j
            /\ y + (j - (y - n)) = n + j
        BY <1>1, <2>2, <3>2
      <4>2. (Upto(y) \o x)[(y - n) + (j - (y - n))] = x[j - (y - n)]
        <5> DEFINE i == j - (y - n)
                   u == Upto(y)
        <5>1. i \in 1 .. Len(x) /\ u \in Seq(Nat) /\ Len(u) = y - n
          BY <2>3, <4>1
        <5> HIDE DEF i, u
        <5>2. (u \o x)[Len(u) + i] = x[i]
          BY <2>2, <5>1, ConcatFacts
        <5>3. (u \o x)[(y - n) + i] = x[i]
          BY <5>1, <5>2
        <5> QED
          BY <5>3 DEF i, u
      <4>3. x[j - (y - n)] = c[y + (j - (y - n))]
        BY <2>2, <4>1
      <4>4. Upto(z)[j] = c[n + j]
        OBVIOUS
      <4> QED
        BY <4>1, <4>2, <4>3, <4>4
    <3> QED
      BY <3>1, <3>2
  <2>6. Upto(z) = Upto(y) \o x
    <3> HIDE DEF Upto
    <3> QED
      BY <2>3, <2>4, <2>5, SeqEqual
  <2> QED
    BY <2>6 DEF x, y, z
<1>7. Upto(b[0]) \o q[1] = q[1]
  <2>1. q[1] \in Seq(Nat) /\ Upto(b[0]) = <<>>
    BY <1>1, <1>2
  <2> HIDE DEF Upto
  <2> QED
    BY <2>1, ConcatEmpty
<1>8. Flat(g)
  <2>1. ASSUME NEW k \in 1 .. Len(q)
        PROVE  g[k] = IF k = 1 THEN q[k] ELSE g[k - 1] \o q[k]
    <3>1. CASE k = 1
      <4>1. Upto(b[1]) = Upto(b[1 - 1]) \o q[1]
        BY <1>6, <3>1
      <4>2. 1 - 1 = 0
        OBVIOUS
      <4> HIDE DEF Upto
      <4> QED
        BY <1>7, <3>1, <4>1, <4>2
    <3>2. CASE k # 1
      <4>1. k - 1 \in 1 .. Len(q)
        BY <1>1, <3>2
      <4> HIDE DEF Upto
      <4> QED
        BY <1>6, <3>2, <4>1
    <3> QED
      BY <3>1, <3>2
  <2> HIDE DEF Upto
  <2> QED
    BY <2>1
<1>9. Flat(fl)
  <2> HIDE DEF Flat, g
  <2> QED
    BY <1>8
<1>10. Flat(g) /\ Flat(fl) => g[Len(q)] = fl[Len(q)]
  <2> SUFFICES ASSUME Flat(g), Flat(fl) PROVE g[Len(q)] = fl[Len(q)]
    OBVIOUS
  <2> HIDE DEF g, fl
  <2> DEFINE S == {i \in Nat : i + 1 <= Len(q) => g[i + 1] = fl[i + 1]}
  <2>1. 0 \in S
    BY <1>1
  <2>2. ASSUME NEW i \in 0 .. Len(q) - 1, i # Len(q) - 1, i \in S
        PROVE  i + 1 \in S
    <3>1. i + 2 \in 1 .. Len(q) /\ i + 2 # 1 /\ (i + 2) - 1 = i + 1 /\ i + 1 <= Len(q)
          /\ (i + 1) + 1 = i + 2
      BY <1>1, <2>2
    <3>2. g[i + 2] = g[(i + 2) - 1] \o q[i + 2] /\ fl[i + 2] = fl[(i + 2) - 1] \o q[i + 2]
      BY <3>1
    <3>3. g[i + 1] = fl[i + 1]
      BY <2>2, <3>1
    <3>4. g[i + 2] = fl[i + 2]
      BY <3>1, <3>2, <3>3
    <3> HIDE DEF Flat
    <3> QED
      BY <3>1, <3>4
  <2>3. Len(q) - 1 \in Nat /\ Len(q) - 1 \in 0 .. Len(q) - 1 /\ (Len(q) - 1) + 1 = Len(q)
    BY <1>1
  <2>4. Len(q) - 1 \in S
    <3> HIDE DEF S, Flat
    <3> QED
      BY <2>1, <2>2, <2>3, SetInduction
  <2> HIDE DEF Flat
  <2> QED
    BY <1>1, <2>3, <2>4
<1>11. (LET flat[i \in 1 .. Len(q)] == IF i = 1 THEN q[i] ELSE flat[i - 1] \o q[i]
        IN  flat[Len(q)]) = fl[Len(q)]
  OBVIOUS
<1>12. g[Len(q)] = Upto(m)
  BY <1>1, <1>2
<1> HIDE DEF g, fl, Flat
<1> QED
  BY <1>4, <1>8, <1>9, <1>10, <1>11, <1>12

-----------------------------------------------------------------------------
(* The delay line.                                                         *)

LEMMA NextMod ==
  ASSUME NEW x \in Nat, NEW d \in Nat \ {0}
  PROVE  /\ x % d \in 0 .. d - 1
         /\ (x + 1) % d = IF (x % d) + 1 = d THEN 0 ELSE (x % d) + 1
<1>1. x % d \in 0 .. d - 1 /\ x \div d \in Nat /\ x = (x \div d) * d + (x % d)
  BY SMT
<1>2. (x + 1) % d \in 0 .. d - 1 /\ (x + 1) \div d \in Nat
      /\ x + 1 = ((x + 1) \div d) * d + ((x + 1) % d)
  BY SMT
<1> DEFINE q == x \div d
           r == x % d
           p == (x + 1) \div d
           t == (x + 1) % d
<1>3. /\ q \in Nat /\ p \in Nat /\ r \in 0 .. d - 1 /\ t \in 0 .. d - 1
      /\ x = q * d + r /\ x + 1 = p * d + t
  BY <1>1, <1>2
<1> HIDE DEF q, r, p, t
<1>4. (p - q) * d = r + 1 - t
  BY <1>3, SMT
<1>5. p - q \in Int /\ (p - q <= -1 => (p - q) * d <= -d) /\ (p - q >= 2 => (p - q) * d >= 2 * d)
  BY <1>3, SMT
<1>6. p = q \/ p = q + 1
  BY <1>3, <1>4, <1>5
<1>7. p = q => t = r + 1
  BY <1>3
<1>8. p = q + 1 => t = r + 1 - d
  BY <1>3, <1>4
<1> QED
  BY <1>3, <1>6, <1>7, <1>8 DEF r, t

LEMMA AtCursor ==
  ASSUME NEW c \in Nat, NEW d \in Nat, c < d, NEW i \in 1 .. d
  PROVE  /\ (c + i - 1) % d = IF c + i - 1 < d THEN c + i - 1 ELSE c + i - 1 - d
         /\ ((c + i - 1) % d) + 1 \in 1 .. d
<1>1. c + i - 1 \in Nat /\ d \in Nat \ {0} /\ c + i - 1 < 2 * d
  OBVIOUS
<1>2. (c + i - 1) % d = IF c + i - 1 < d THEN c + i - 1 ELSE c + i - 1 - d
  <2> DEFINE x == c + i - 1
  <2>1. x \in Nat /\ (x < d \/ (d <= x /\ x < 2 * d))
    BY <1>1
  <2> HIDE DEF x
  <2>2. x % d = IF x < d THEN x ELSE x - d
    BY <1>1, <2>1, SmallMod
  <2> QED
    BY <2>2 DEF x
<1> QED
  BY <1>1, <1>2

\* What a line of length d holds at index j, counted from its cursor c.
Offset(c, d, j) == IF c <= j - 1 THEN j - 1 - c ELSE j - 1 - c + d

\* The line and the frame as one stream v: after k swaps, the first k samples of
\* v are out and the line holds the next ones.
Swapped(v, c, d, k) ==
  [line |-> [j \in 1 .. d |-> v[k + 1 + Offset((c + k) % d, d, j)]],
   cursor |-> (c + k) % d,
   out |-> [i \in 1 .. k |-> v[i]]]

LEMMA SwappedRing ==
  ASSUME NEW v \in Seq(Nat), NEW c \in Nat, NEW d \in Nat \ {0}, NEW k \in Nat,
         k + d <= Len(v)
  PROVE  LET s == Swapped(v, c, d, k)
         IN  /\ s.line \in Seq(Nat) /\ Len(s.line) = d /\ s.cursor \in Nat /\ s.cursor < d
             /\ s.out \in Seq(Nat) /\ Len(s.out) = k
             /\ Matches(s.out, v, 0)
             /\ Ring(s.line, s.cursor, d) \in Seq(Nat)
             /\ Len(Ring(s.line, s.cursor, d)) = d
             /\ Matches(Ring(s.line, s.cursor, d), v, k)
<1> DEFINE s == Swapped(v, c, d, k)
           e == (c + k) % d
           l == [j \in 1 .. d |-> v[k + 1 + Offset(e, d, j)]]
           o == [i \in 1 .. k |-> v[i]]
<1>1. s.line = l /\ s.cursor = e /\ s.out = o
  BY DEF Swapped
<1>2. e \in Nat /\ e < d
  <2>1. c + k \in Nat
    OBVIOUS
  <2>2. e \in 0 .. d - 1
    BY <2>1, NextMod
  <2> QED
    BY <2>2
<1> HIDE DEF e
<1>3. Len(v) \in Nat /\ \A i \in 1 .. Len(v) : v[i] \in Nat
  OBVIOUS
<1>4. \A j \in 1 .. d : Offset(e, d, j) \in 0 .. d - 1
  BY <1>2 DEF Offset
<1>5. l \in Seq(Nat) /\ Len(l) = d
  <2>1. \A j \in 1 .. d : v[k + 1 + Offset(e, d, j)] \in Nat
    <3> SUFFICES ASSUME NEW j \in 1 .. d
                 PROVE  v[k + 1 + Offset(e, d, j)] \in Nat
      OBVIOUS
    <3> DEFINE f == Offset(e, d, j)
    <3>1. f \in 0 .. d - 1
      BY <1>4
    <3> HIDE DEF f, l
    <3>2. k + 1 + f \in 1 .. Len(v)
      BY <1>3, <3>1
    <3> QED
      BY <1>3, <3>2 DEF f
  <2> QED
    BY <2>1
<1>6. o \in Seq(Nat) /\ Len(o) = k /\ \A i \in 1 .. k : o[i] = v[0 + i]
  BY <1>3
<1>7. Matches(o, v, 0)
  <2> HIDE DEF o
  <2> QED
    BY <1>3, <1>6 DEF Matches
<1> DEFINE ring == Ring(l, e, d)
<1>8. ASSUME NEW i \in 1 .. d
      PROVE  ring[i] = v[k + i] /\ ring[i] \in Nat
  <2> DEFINE j == ((e + i - 1) % d) + 1
  <2>1. j \in 1 .. d /\ Offset(e, d, j) = i - 1
    <3>1. /\ (e + i - 1) % d = IF e + i - 1 < d THEN e + i - 1 ELSE e + i - 1 - d
          /\ j \in 1 .. d
      BY <1>2, AtCursor
    <3>2. j = IF e + i - 1 < d THEN e + i ELSE e + i - d
      <4> DEFINE x == (e + i - 1) % d
      <4>1. x = IF e + i - 1 < d THEN e + i - 1 ELSE e + i - 1 - d
        BY <3>1
      <4> HIDE DEF x
      <4>2. x + 1 = IF e + i - 1 < d THEN e + i ELSE e + i - d
        BY <1>2, <4>1
      <4> QED
        BY <4>2 DEF x
    <3> HIDE DEF j
    <3>3. CASE e + i - 1 < d
      <4>1. j = e + i /\ e <= j - 1 /\ j - 1 - e = i - 1
        BY <1>2, <3>2, <3>3
      <4> QED
        BY <3>1, <4>1 DEF Offset
    <3>4. CASE ~(e + i - 1 < d)
      <4>1. j = e + i - d /\ ~(e <= j - 1) /\ j - 1 - e + d = i - 1
        BY <1>2, <3>2, <3>4
      <4> QED
        BY <3>1, <4>1 DEF Offset
    <3> QED
      BY <3>3, <3>4
  <2>2. ring[i] = l[j]
    BY <1>5 DEF Ring
  <2> HIDE DEF j
  <2>3. l[j] = v[k + 1 + (i - 1)]
    BY <2>1
  <2>4. k + 1 + (i - 1) = k + i /\ k + i \in 1 .. Len(v)
    BY <1>3
  <2> QED
    BY <1>3, <2>2, <2>3, <2>4
<1>9. ring \in Seq(Nat) /\ Len(ring) = d
  <2>1. ring = [i \in 1 .. d |-> ring[i]]
    BY DEF Ring
  <2> HIDE DEF ring
  <2>2. ring \in [1 .. d -> Nat]
    BY <1>8, <2>1
  <2> QED
    BY <2>2
<1>10. Matches(ring, v, k)
  <2> HIDE DEF ring
  <2> QED
    BY <1>3, <1>8, <1>9 DEF Matches
<1> QED
  BY <1>1, <1>2, <1>5, <1>6, <1>7, <1>9, <1>10

\* One more sample: Swapped follows SwapSample.
LEMMA SwappedStep ==
  ASSUME NEW v \in Seq(Nat), line \in Seq(Nat), Len(line) # 0, NEW c \in Nat,
         NEW k \in Nat, k + 1 + Len(line) <= Len(v)
  PROVE  Swapped(v, c, Len(line), k + 1)
           = SwapSample(Swapped(v, c, Len(line), k), v[Len(line) + k + 1])
<1> DEFINE d == Len(line)
           x == c + k
           e == x % d
           h == (c + (k + 1)) % d
           a == [j \in 1 .. d |-> v[k + 1 + Offset(e, d, j)]]
           b == [j \in 1 .. d |-> v[(k + 1) + 1 + Offset(h, d, j)]]
<1>1. d \in Nat \ {0} /\ x \in Nat /\ c + (k + 1) = x + 1 /\ Len(v) \in Nat
  OBVIOUS
<1>2. e \in Nat /\ e < d /\ h = IF e + 1 = d THEN 0 ELSE e + 1
  <2> HIDE DEF d, x
  <2>1. e \in 0 .. d - 1 /\ (x + 1) % d = IF e + 1 = d THEN 0 ELSE e + 1
    BY <1>1, NextMod
  <2>2. h = (x + 1) % d
    BY <1>1
  <2> HIDE DEF e, h
  <2> QED
    BY <1>1, <2>1, <2>2
<1>3. /\ Swapped(v, c, d, k) = [line |-> a, cursor |-> e, out |-> [i \in 1 .. k |-> v[i]]]
      /\ Swapped(v, c, d, k + 1) = [line |-> b, cursor |-> h, out |-> [i \in 1 .. k + 1 |-> v[i]]]
  BY DEF Swapped
<1>4. b = [a EXCEPT ![e + 1] = v[d + k + 1]]
  <2> SUFFICES ASSUME NEW j \in 1 .. d
               PROVE  b[j] = IF j = e + 1 THEN v[d + k + 1] ELSE a[j]
    OBVIOUS
  <2> HIDE DEF d, e, h
  <2>1. CASE j = e + 1
    <3>1. Offset(h, d, j) = d - 1 /\ (k + 1) + 1 + (d - 1) = d + k + 1
      BY <1>1, <1>2, <2>1 DEF Offset
    <3> QED
      BY <2>1, <3>1
  <2>2. CASE j # e + 1
    <3>1. (k + 1) + 1 + Offset(h, d, j) = k + 1 + Offset(e, d, j)
      BY <1>1, <1>2, <2>2 DEF Offset
    <3> QED
      BY <2>2, <3>1
  <2> QED
    BY <2>1, <2>2
<1>5. h = Advance(e)
  BY <1>2 DEF Advance, Delay
<1>6. [i \in 1 .. k + 1 |-> v[i]] = Append([i \in 1 .. k |-> v[i]], a[e + 1])
  <2> HIDE DEF d, e
  <2>1. e + 1 \in 1 .. d /\ Offset(e, d, e + 1) = 0 /\ k + 1 + 0 = k + 1
    BY <1>1, <1>2 DEF Offset
  <2>2. a[e + 1] = v[k + 1]
    BY <2>1
  <2> HIDE DEF a
  <2>3. \A i \in 1 .. k + 1 : v[i] \in Nat
    BY <1>1
  <2> DEFINE o == [i \in 1 .. k |-> v[i]]
             n == [i \in 1 .. k + 1 |-> v[i]]
  <2>4. o \in Seq(Nat) /\ Len(o) = k /\ n \in Seq(Nat) /\ Len(n) = k + 1
        /\ (\A i \in 1 .. k : o[i] = v[i]) /\ (\A i \in 1 .. k + 1 : n[i] = v[i])
    BY <2>3
  <2> HIDE DEF o, n
  <2>5. v[k + 1] \in Nat
    BY <2>3
  <2>6. Append(o, v[k + 1]) \in Seq(Nat) /\ Len(Append(o, v[k + 1])) = k + 1
        /\ \A i \in 1 .. k + 1 : Append(o, v[k + 1])[i] = IF i = k + 1 THEN v[k + 1] ELSE o[i]
    <3> DEFINE nxt == v[k + 1]
    <3>1. o \in Seq(Nat) /\ Len(o) = k /\ nxt \in Nat
      BY <2>4, <2>5
    <3> HIDE DEF nxt
    <3>2. /\ Append(o, nxt) \in Seq(Nat) /\ Len(Append(o, nxt)) = k + 1
          /\ \A i \in 1 .. k + 1 : Append(o, nxt)[i] = IF i = k + 1 THEN nxt ELSE o[i]
      BY <3>1
    <3> QED
      BY <3>2 DEF nxt
  <2>7. n = Append(o, v[k + 1])
    <3> DEFINE t == Append(o, v[k + 1])
    <3>3. ASSUME NEW i \in 1 .. k + 1
          PROVE  n[i] = t[i]
      <4>1. CASE i = k + 1
        BY <2>4, <2>6, <4>1
      <4>2. CASE i # k + 1
        <5>1. i \in 1 .. k
          BY <4>2
        <5> QED
          BY <2>4, <2>6, <4>2, <5>1
      <4> QED
        BY <4>1, <4>2
    <3>1. t \in Seq(Nat) /\ Len(n) = Len(t) /\ \A i \in 1 .. Len(n) : n[i] = t[i]
      <4> HIDE DEF t
      <4> QED
        BY <2>4, <2>6, <3>3 DEF t
    <3> HIDE DEF t
    <3>2. n = t
      BY <2>4, <3>1, SeqEqual
    <3> QED
      BY <3>2 DEF t
  <2> QED
    BY <2>2, <2>7 DEF o, n
<1>7. SwapSample(Swapped(v, c, d, k), v[d + k + 1])
        = [line |-> [a EXCEPT ![e + 1] = v[d + k + 1]], cursor |-> Advance(e),
           out |-> Append([i \in 1 .. k |-> v[i]], a[e + 1])]
  <2> HIDE DEF a, b, d, e, h
  <2> QED
    BY <1>3 DEF SwapSample
<1>8. Swapped(v, c, d, k + 1) = SwapSample(Swapped(v, c, d, k), v[d + k + 1])
  <2> HIDE DEF a, b, d, e, h
  <2> QED
    BY <1>3, <1>4, <1>5, <1>6, <1>7
<1> QED
  BY <1>8

LEMMA RingIs ==
  ASSUME NEW l \in Seq(Nat), Len(l) # 0, NEW c \in Nat, c < Len(l), NEW r \in 0 .. Len(l)
  PROVE  Ring(l, c, r) \in Seq(Nat) /\ Len(Ring(l, c, r)) = r
<1>1. ASSUME NEW i \in 1 .. r
      PROVE  l[((c + i - 1) % Len(l)) + 1] \in Nat
  <2> DEFINE j == ((c + i - 1) % Len(l)) + 1
             d == Len(l)
  <2>1. d \in Nat /\ c < d /\ i \in 1 .. d
    OBVIOUS
  <2>2. j \in 1 .. d
    <3> HIDE DEF d
    <3>1. ((c + i - 1) % d) + 1 \in 1 .. d
      BY <2>1, AtCursor
    <3> QED
      BY <3>1 DEF d
  <2> HIDE DEF j
  <2> QED
    BY <2>2
<1> QED
  BY <1>1 DEF Ring

\* The line passes a frame f on: what comes out and what it then holds are the
\* line's samples and the frame's, in this order.
LEMMA SwapFrameIs ==
  ASSUME line \in Seq(Nat), Len(line) # 0, cursor \in Nat, cursor < Len(line),
         NEW f \in Seq(Nat)
  PROVE  SwapFrame(f, cursor)
           = Swapped(Ring(line, cursor, Len(line)) \o f, cursor, Len(line), Len(f))
<1> DEFINE d == Len(line)
           ring == Ring(line, cursor, d)
           v == ring \o f
           g == [i \in 0 .. Len(f) |-> Swapped(v, cursor, d, i)]
           First == [line |-> line, cursor |-> cursor, out |-> <<>>]
           Runs(h) == h = [i \in 0 .. Len(f) |-> IF i = 0 THEN First ELSE SwapSample(h[i - 1], f[i])]
           sw == CHOOSE h : Runs(h)
<1>1. d \in Nat \ {0} /\ Len(f) \in Nat
  OBVIOUS
<1>2. ring \in Seq(Nat) /\ Len(ring) = d
  BY <1>1, RingIs
<1>3. /\ v \in Seq(Nat) /\ Len(v) = d + Len(f)
      /\ \A i \in 1 .. d : v[i] = ring[i]
      /\ \A i \in 1 .. Len(f) : v[d + i] = f[i]
  <2> HIDE DEF ring, d
  <2> QED
    BY <1>2, ConcatFacts
<1>4. Swapped(v, cursor, d, 0) = First
  <2>1. (cursor + 0) % d = cursor
    <3> HIDE DEF d
    <3>1. cursor + 0 = cursor /\ cursor < d
      BY DEF d
    <3> QED
      BY <1>1, <3>1, SmallMod
  <2>2. ASSUME NEW j \in 1 .. d
        PROVE  v[0 + 1 + Offset(cursor, d, j)] = line[j]
    <3> DEFINE i == 0 + 1 + Offset(cursor, d, j)
    <3>1. i \in 1 .. d /\ (cursor + i - 1 = j - 1 \/ cursor + i - 1 = j - 1 + d)
      BY <1>1 DEF Offset
    <3> HIDE DEF i
    <3>2. (cursor + i - 1) % d = IF cursor + i - 1 < d THEN cursor + i - 1 ELSE cursor + i - 1 - d
      <4>1. cursor < d
        OBVIOUS
      <4> HIDE DEF d
      <4> QED
        BY <1>1, <3>1, <4>1, AtCursor
    <3>3. (cursor + i - 1) % d = j - 1
      <4> DEFINE x == (cursor + i - 1) % d
      <4>1. x = IF cursor + i - 1 < d THEN cursor + i - 1 ELSE cursor + i - 1 - d
        BY <3>2
      <4>2. j \in Nat /\ 1 <= j /\ j <= d /\ i \in Nat
        BY <1>1, <3>1
      <4> HIDE DEF d, x
      <4>3. ASSUME cursor + i - 1 = j - 1 PROVE x = j - 1
        BY <1>1, <4>1, <4>2, <4>3
      <4>4. ASSUME cursor + i - 1 = j - 1 + d PROVE x = j - 1
        BY <1>1, <4>1, <4>2, <4>4
      <4>5. x = j - 1
        BY <3>1, <4>3, <4>4
      <4> QED
        BY <4>5 DEF x
    <3>4. v[i] = ring[i] /\ ring[i] = line[((cursor + i - 1) % d) + 1]
      <4>1. ring[i] = line[((cursor + i - 1) % d) + 1]
        BY <3>1 DEF Ring
      <4> HIDE DEF ring, v, d
      <4> QED
        BY <1>3, <3>1, <4>1
    <3>5. (j - 1) + 1 = j
      OBVIOUS
    <3>6. v[i] = line[j]
      <4> HIDE DEF v, ring, d
      <4> QED
        BY <3>3, <3>4, <3>5
    <3> QED
      BY <3>6 DEF i
  <2>3. [j \in 1 .. d |-> v[0 + 1 + Offset(cursor, d, j)]] = line
    <3> HIDE DEF v
    <3> QED
      BY <2>2
  <2>4. [i \in 1 .. 0 |-> v[i]] = <<>>
    OBVIOUS
  <2> HIDE DEF v, d
  <2> QED
    BY <2>1, <2>3, <2>4 DEF Swapped
<1>5. ASSUME NEW i \in 1 .. Len(f)
      PROVE  Swapped(v, cursor, d, i) = SwapSample(Swapped(v, cursor, d, i - 1), f[i])
  <2> DEFINE k == i - 1
  <2>1. k \in Nat /\ k + 1 = i /\ k + 1 + d <= Len(v) /\ d + k + 1 = d + i
    <3> HIDE DEF v, d
    <3> QED
      BY <1>1, <1>3
  <2>2. v[d + k + 1] = f[i]
    <3> HIDE DEF v, d, k
    <3> QED
      BY <1>3, <2>1
  <2>3. Swapped(v, cursor, d, k + 1) = SwapSample(Swapped(v, cursor, d, k), v[d + k + 1])
    <3> HIDE DEF v, k
    <3> QED
      BY <1>3, <2>1, SwappedStep
  <2> HIDE DEF v, d, k
  <2>4. Swapped(v, cursor, d, i) = SwapSample(Swapped(v, cursor, d, k), f[i])
    BY <2>1, <2>2, <2>3
  <2> QED
    BY <2>4 DEF k
<1>6. Runs(g)
  <2>1. ASSUME NEW i \in 0 .. Len(f)
        PROVE  g[i] = IF i = 0 THEN First ELSE SwapSample(g[i - 1], f[i])
    <3>1. CASE i = 0
      <4> HIDE DEF v, d, First
      <4> QED
        BY <1>4, <3>1
    <3>2. CASE i # 0
      <4>1. i \in 1 .. Len(f) /\ i - 1 \in 0 .. Len(f)
        BY <1>1, <3>2
      <4> HIDE DEF v, d, First
      <4> QED
        BY <1>5, <3>2, <4>1
    <3> QED
      BY <3>1, <3>2
  <2> HIDE DEF v, d, First
  <2> QED
    BY <2>1
<1>7. Runs(sw)
  <2> HIDE DEF Runs, g
  <2> QED
    BY <1>6
<1>8. Runs(g) /\ Runs(sw) => sw[Len(f)] = g[Len(f)]
  <2> SUFFICES ASSUME Runs(g), Runs(sw) PROVE sw[Len(f)] = g[Len(f)]
    OBVIOUS
  <2> HIDE DEF g, sw, First
  <2> DEFINE S == {i \in Nat : i <= Len(f) => sw[i] = g[i]}
  <2>1. 0 \in S
    BY <1>1
  <2>2. ASSUME NEW i \in 0 .. Len(f), i # Len(f), i \in S
        PROVE  i + 1 \in S
    <3>1. i + 1 \in 0 .. Len(f) /\ i + 1 # 0 /\ (i + 1) - 1 = i
      BY <1>1, <2>2
    <3>2. g[i + 1] = SwapSample(g[(i + 1) - 1], f[i + 1])
          /\ sw[i + 1] = SwapSample(sw[(i + 1) - 1], f[i + 1])
      BY <3>1
    <3>3. sw[i] = g[i]
      BY <1>1, <2>2
    <3> HIDE DEF Runs
    <3> QED
      BY <3>1, <3>2, <3>3
  <2>3. Len(f) \in S
    <3> HIDE DEF S, Runs
    <3>1. Len(f) \in 0 .. Len(f)
      BY <1>1
    <3> QED
      BY <1>1, <2>1, <2>2, <3>1, SetInduction
  <2> HIDE DEF Runs
  <2> QED
    BY <1>1, <2>3
<1>9. SwapFrame(f, cursor) = sw[Len(f)]
  BY DEF SwapFrame
<1>10. g[Len(f)] = Swapped(v, cursor, d, Len(f))
  BY <1>1
<1> HIDE DEF sw, g, Runs
<1> QED
  BY <1>6, <1>7, <1>8, <1>9, <1>10

-----------------------------------------------------------------------------
(* The echo as a whole.                                                    *)

LEMMA EchoFacts ==
  ASSUME NEW s \in Seq(Nat)
  PROVE  /\ Echo(s) \in Seq(Nat) /\ Len(Echo(s)) = Len(s)
         /\ \A i \in 1 .. Len(s) : Echo(s)[i] = Attenuate(s[i])
<1>1. \A i \in 1 .. Len(s) : Attenuate(s[i]) \in Nat
  <2>1. \A x \in Nat : Attenuate(x) \in Nat
    BY DEF Attenuate
  <2> QED
    BY <2>1, SMTT(30)
<1>2. DOMAIN s = 1 .. Len(s)
  OBVIOUS
<1> QED
  BY <1>1, <1>2 DEF Echo

LEMMA EchoConcat ==
  ASSUME NEW s \in Seq(Nat), NEW t \in Seq(Nat)
  PROVE  Echo(s \o t) = Echo(s) \o Echo(t)
<1> DEFINE a == Echo(s \o t)
           b == Echo(s) \o Echo(t)
<1>1. /\ s \o t \in Seq(Nat) /\ Len(s \o t) = Len(s) + Len(t)
      /\ Len(s) \in Nat /\ Len(t) \in Nat
  BY ConcatFacts
<1>2. /\ Echo(s) \in Seq(Nat) /\ Len(Echo(s)) = Len(s)
      /\ Echo(t) \in Seq(Nat) /\ Len(Echo(t)) = Len(t)
  BY EchoFacts
<1>3. a \in Seq(Nat) /\ b \in Seq(Nat) /\ Len(a) = Len(s) + Len(t) /\ Len(b) = Len(s) + Len(t)
  <2>1. a \in Seq(Nat) /\ Len(a) = Len(s) + Len(t)
    BY <1>1, EchoFacts
  <2>2. b \in Seq(Nat) /\ Len(b) = Len(Echo(s)) + Len(Echo(t))
    BY <1>2, ConcatFacts
  <2> QED
    BY <1>2, <2>1, <2>2
<1>4. ASSUME NEW i \in 1 .. Len(s) + Len(t)
      PROVE  a[i] = b[i]
  <2>1. a[i] = Attenuate((s \o t)[i])
    BY <1>1, EchoFacts
  <2>2. CASE i \in 1 .. Len(s)
    <3>1. (s \o t)[i] = s[i] /\ b[i] = Echo(s)[i]
      BY <1>2, <2>2, ConcatFacts
    <3>2. Echo(s)[i] = Attenuate(s[i])
      BY <2>2, EchoFacts
    <3> QED
      BY <2>1, <3>1, <3>2
  <2>3. CASE i \notin 1 .. Len(s)
    <3> DEFINE j == i - Len(s)
    <3>1. j \in 1 .. Len(t) /\ Len(s) + j = i
      BY <1>1, <2>3
    <3> HIDE DEF j
    <3>2. (s \o t)[Len(s) + j] = t[j]
      BY <3>1, ConcatFacts
    <3>3. b[Len(Echo(s)) + j] = Echo(t)[j]
      BY <1>2, <3>1, ConcatFacts, SMTT(30)
    <3>4. Echo(t)[j] = Attenuate(t[j])
      BY <3>1, EchoFacts
    <3> QED
      BY <1>2, <2>1, <3>1, <3>2, <3>3, <3>4
  <2> QED
    BY <2>2, <2>3
<1> HIDE DEF a, b
<1>5. a = b
  BY <1>3, <1>4, SeqEqual
<1> QED
  BY <1>5 DEF a, b

LEMMA WholeFacts ==
  ASSUME NEW c \in Seq(Nat), NEW d \in Nat
  PROVE  /\ Whole(c, d) \in Seq(Nat) /\ Len(Whole(c, d)) = d + Len(c)
         /\ \A i \in 1 .. d : Whole(c, d)[i] = 0
         /\ \A i \in 1 .. Len(c) : Whole(c, d)[d + i] = Attenuate(c[i])
<1>1. Silence(d) \in Seq(Nat) /\ Len(Silence(d)) = d /\ \A i \in 1 .. d : Silence(d)[i] = 0
  BY DEF Silence
<1>2. Echo(c) \in Seq(Nat) /\ Len(Echo(c)) = Len(c)
      /\ \A i \in 1 .. Len(c) : Echo(c)[i] = Attenuate(c[i])
  BY EchoFacts
<1> DEFINE x == Silence(d)
           y == Echo(c)
           w == x \o y
<1>3. x \in Seq(Nat) /\ Len(x) = d /\ y \in Seq(Nat) /\ Len(y) = Len(c) /\ Whole(c, d) = w
      /\ (\A i \in 1 .. d : x[i] = 0) /\ (\A i \in 1 .. Len(c) : y[i] = Attenuate(c[i]))
  BY <1>1, <1>2 DEF Whole
<1> HIDE DEF x, y
<1>4. w \in Seq(Nat) /\ Len(w) = d + Len(c)
      /\ (\A i \in 1 .. d : w[i] = x[i]) /\ (\A i \in 1 .. Len(c) : w[d + i] = y[i])
  <2>1. w \in Seq(Nat) /\ Len(w) = Len(x) + Len(y)
        /\ (\A i \in 1 .. Len(x) : w[i] = x[i]) /\ (\A i \in 1 .. Len(y) : w[Len(x) + i] = y[i])
    BY <1>3, ConcatFacts
  <2> HIDE DEF w
  <2> QED
    BY <1>3, <2>1
<1> HIDE DEF w
<1> QED
  BY <1>3, <1>4

LEMMA WholeGrow ==
  ASSUME NEW c \in Seq(Nat), NEW x \in Seq(Nat), NEW d \in Nat
  PROVE  Whole(c \o x, d) = Whole(c, d) \o Echo(x)
<1>1. Silence(d) \in Seq(Nat) /\ Echo(c) \in Seq(Nat) /\ Echo(x) \in Seq(Nat)
  BY EchoFacts DEF Silence
<1>2. Silence(d) \o (Echo(c) \o Echo(x)) = (Silence(d) \o Echo(c)) \o Echo(x)
  <2>1. Associates(Silence(d), Echo(c), Echo(x))
    BY <1>1, ConcatAssoc, Zenon
  <2> QED
    BY <2>1, Zenon DEF Associates
<1> QED
  BY <1>2, EchoConcat DEF Whole

LEMMA WholeMatches ==
  ASSUME NEW c \in Seq(Nat), NEW s \in Seq(Nat), NEW d \in Nat, NEW n \in Nat,
         Matches(s, c, n)
  PROVE  Matches(Echo(s), Whole(c, d), d + n)
<1>1. /\ Echo(s) \in Seq(Nat) /\ Len(Echo(s)) = Len(s)
      /\ \A i \in 1 .. Len(s) : Echo(s)[i] = Attenuate(s[i])
  BY EchoFacts
<1>2. Len(Whole(c, d)) = d + Len(c)
      /\ \A i \in 1 .. Len(c) : Whole(c, d)[d + i] = Attenuate(c[i])
  BY WholeFacts
<1>3. Len(s) \in Nat /\ Len(c) \in Nat
  OBVIOUS
<1>4. ASSUME NEW i \in 1 .. Len(s)
      PROVE  Echo(s)[i] = Whole(c, d)[(d + n) + i]
  <2>1. n + i \in 1 .. Len(c) /\ d + (n + i) = (d + n) + i /\ s[i] = c[n + i]
    BY <1>3 DEF Matches
  <2>2. Whole(c, d)[d + (n + i)] = Attenuate(c[n + i])
    BY <1>2, <2>1
  <2> QED
    BY <1>1, <2>1, <2>2
<1> QED
  BY <1>1, <1>2, <1>3, <1>4 DEF Matches

LEMMA EmptyMatches ==
  ASSUME NEW w \in Seq(Nat), NEW o \in Nat, o <= Len(w)
  PROVE  Matches(<<>>, w, o)
  BY DEF Matches

LEMMA RingType ==
  ASSUME EchoTypes, NEW r \in 0 .. Len(line)
  PROVE  Ring(line, cursor, r) \in Seq(Nat) /\ Len(Ring(line, cursor, r)) = r
<1>1. CASE Len(line) # 0
  BY <1>1, RingIs DEF EchoTypes
<1>2. CASE Len(line) = 0
  <2>1. r = 0
    BY <1>2
  <2> QED
    BY <2>1 DEF Ring
<1> QED
  BY <1>1, <1>2

\* A read before the deadline: the capture and the frame grow together.
LEMMA ReadStep ==
  ASSUME Sizes, EchoTypes, EchoControl, NEW n \in Nat, NEW m \in Nat, EchoData(n, m),
         NEW k \in 1 .. MaxRead, Read(k), ~CaptureOver, tx, tx'
  PROVE  EchoTypes' /\ EchoControl' /\ EchoData(n, m)'
<1>1. /\ capture = "read" /\ capture' = "send" /\ frame = <<>>
      /\ frame' = [i \in 1 .. k |-> 2 * (uplink + i)] /\ captured' = captured \o frame'
      /\ uplink' = uplink + k
      /\ UNCHANGED <<queue, playback, out, line, cursor, remaining, played, result>>
  BY DEF Read, playbackVars, EchoControl
<1>2. k \in Nat /\ k <= MaxRead /\ MaxRead \in Nat
  BY DEF Sizes
<1>3. frame' \in Seq(Nat) /\ Len(frame') = k
  BY <1>1, <1>2 DEF EchoTypes
<1> DEFINE w == Whole(captured, Len(line))
           x == Echo(frame')
<1>4. /\ w \in Seq(Nat) /\ x \in Seq(Nat) /\ Len(line) \in Nat /\ Len(captured) \in Nat
      /\ Whole(captured', Len(line')) = w \o x
  <2>1. /\ line \in Seq(Nat) /\ captured \in Seq(Nat) /\ line' = line
        /\ captured' = captured \o frame' /\ frame' \in Seq(Nat)
    BY <1>1, <1>3 DEF EchoTypes
  <2>2. Len(line) \in Nat /\ Len(captured) \in Nat
    BY <2>1
  <2>3. w \in Seq(Nat) /\ x \in Seq(Nat)
    BY <2>1, <2>2, WholeFacts, EchoFacts
  <2>4. Whole(captured \o frame', Len(line)) = w \o x
    BY <2>1, <2>2, WholeGrow
  <2> QED
    BY <2>1, <2>2, <2>3, <2>4
<1>5. captured' \in Seq(Nat) /\ Len(captured') = Len(captured) + k
  BY <1>1, <1>3, ConcatFacts DEF EchoTypes
<1>6. Len(captured) = m
  BY <1>1 DEF EchoData
<1>7. EchoTypes'
  BY <1>1, <1>2, <1>3, <1>5 DEF EchoTypes
<1>8. EchoControl'
  BY <1>1, <1>2, <1>3 DEF EchoControl
<1>9. Matches(frame', captured', m)
  <2>1. \A i \in 1 .. k : captured'[Len(captured) + i] = frame'[i]
    BY <1>1, <1>3, ConcatFacts, SMTT(30) DEF EchoTypes
  <2> QED
    BY <1>2, <1>3, <1>5, <1>6, <2>1 DEF Matches
<1>10. Segments(queue, captured', n, m)
  BY <1>1, <1>3, SegmentsGrow DEF EchoData, EchoTypes
<1>11. /\ Matches(played, w \o x, 0) /\ Matches(out, w \o x, Len(played))
       /\ Matches(Ring(line, cursor, remaining), w \o x, Len(played) + Len(out))
  <2>1. Ring(line, cursor, remaining) \in Seq(Nat) /\ Len(played) \in Nat /\ Len(out) \in Nat
        /\ Len(played) + Len(out) \in Nat
    BY RingType DEF EchoTypes
  <2> HIDE DEF x
  <2>2. Matches(played, w, 0) /\ Matches(out, w, Len(played))
        /\ Matches(Ring(line, cursor, remaining), w, Len(played) + Len(out))
    BY DEF EchoData
  <2> HIDE DEF w
  <2> QED
    BY <1>4, <2>1, <2>2, MatchesGrow DEF EchoTypes
<1>12. Len(captured') = m + Len(frame')
  BY <1>3, <1>5, <1>6
<1> HIDE DEF w, x
<1>13. EchoData(n, m)'
  <2>1. n + Len(line) = Len(played) + Len(out) + remaining
    BY DEF EchoData
  <2>2. Len(captured') - (m + Len(frame')) <= MaxRead
    BY <1>2, <1>3, <1>12
  <2> QED
    BY <1>1, <1>4, <1>9, <1>10, <1>11, <1>12, <2>1, <2>2 DEF EchoData
<1> QED
  BY <1>7, <1>8, <1>13

\* The frame enters the channel.
LEMMA SendStep ==
  ASSUME Sizes, EchoTypes, EchoControl, NEW n \in Nat, NEW m \in Nat, EchoData(n, m), SendFrame,
         NEW e \in Nat, e = m + Len(frame)
  PROVE  EchoTypes' /\ EchoControl' /\ EchoData(n, e)'
<1>1. /\ capture = "send" /\ capture' = "read" /\ frame' = <<>> /\ queue' = Append(queue, frame)
      /\ UNCHANGED <<tx, captured, uplink, playback, out, line, cursor, remaining, played, result>>
  BY DEF SendFrame, playbackVars
<1>2. EchoTypes'
  BY <1>1 DEF EchoTypes
<1>3. EchoControl'
  <2>1. Len(frame') = 0 /\ MaxRead \in Nat
    BY <1>1 DEF Sizes
  <2> QED
    BY <1>1, <2>1 DEF EchoControl
<1>4. Segments(queue', captured, n, e)
  BY <1>1, SegmentsAppend DEF EchoData, EchoTypes
<1>5. Len(captured) \in Nat /\ e <= Len(captured)
  <2>1. frame \in Seq(Nat) /\ captured \in Seq(Nat) /\ Matches(frame, captured, m)
    BY DEF EchoTypes, EchoData
  <2> QED
    BY <2>1 DEF Matches
<1>6. Matches(frame', captured, e) /\ Len(frame') = 0
  BY <1>1, <1>5, EmptyMatches DEF EchoTypes
<1>7. e + Len(frame') = m + Len(frame)
  BY <1>5, <1>6
<1>8. /\ Len(captured') - (e + Len(frame')) <= MaxRead
      /\ tx' => Len(captured') = e + Len(frame')
  BY <1>1, <1>7 DEF EchoData
<1>9. EchoData(n, e)'
  <2>1. /\ n + Len(line) = Len(played) + Len(out) + remaining
        /\ Matches(played, Whole(captured, Len(line)), 0)
        /\ Matches(out, Whole(captured, Len(line)), Len(played))
        /\ Matches(Ring(line, cursor, remaining), Whole(captured, Len(line)),
                   Len(played) + Len(out))
    BY DEF EchoData
  <2> QED
    BY <1>1, <1>4, <1>6, <1>8, <2>1 DEF EchoData
<1> QED
  BY <1>2, <1>3, <1>9

\* The frame is dropped at the capture deadline.
LEMMA SendTimesOutStep ==
  ASSUME Sizes, EchoTypes, EchoControl, NEW n \in Nat, NEW m \in Nat, EchoData(n, m),
         SendTimesOut, tx
  PROVE  EchoTypes' /\ EchoControl' /\ EchoData(n, m)'
<1>1. /\ capture = "send" /\ capture' = "read" /\ frame' = <<>> /\ ~tx'
      /\ UNCHANGED <<queue, captured, uplink, playback, out, line, cursor, remaining, played, result>>
  BY DEF SendTimesOut, playbackVars
<1>2. EchoTypes'
  BY <1>1 DEF EchoTypes
<1>3. Len(frame') = 0 /\ MaxRead \in Nat
  BY <1>1 DEF Sizes
<1>4. EchoControl'
  BY <1>1, <1>3 DEF EchoControl
<1>5. Len(frame) \in Nat /\ Len(captured) = m + Len(frame) /\ Len(frame) <= MaxRead
  BY DEF EchoTypes, EchoData, EchoControl
<1>6. Matches(frame', captured, m) /\ Len(captured) - (m + Len(frame')) <= MaxRead
  BY <1>1, <1>3, <1>5, EmptyMatches DEF EchoTypes
<1> QED
  BY <1>1, <1>2, <1>4, <1>6 DEF EchoData

LEMMA MatchesTrans ==
  ASSUME NEW s \in Seq(Nat), NEW v \in Seq(Nat), NEW w \in Seq(Nat), NEW o \in Nat, NEW n \in Nat,
         Matches(s, v, o), Matches(v, w, n)
  PROVE  Matches(s, w, n + o)
<1>1. Len(s) \in Nat /\ Len(v) \in Nat /\ Len(w) \in Nat /\ o + Len(s) <= Len(v)
      /\ n + Len(v) <= Len(w)
  BY DEF Matches
<1>2. ASSUME NEW i \in 1 .. Len(s)
      PROVE  s[i] = w[(n + o) + i]
  <2>1. o + i \in 1 .. Len(v) /\ n + (o + i) = (n + o) + i
    BY <1>1
  <2>2. s[i] = v[o + i] /\ v[o + i] = w[n + (o + i)]
    BY <2>1 DEF Matches
  <2> QED
    BY <2>1, <2>2
<1>3. (n + o) + Len(s) <= Len(w)
  BY <1>1
<1> QED
  BY <1>2, <1>3 DEF Matches

\* The first samples of a ring, and what it holds when the cursor is past them.
LEMMA RingSplit ==
  ASSUME NEW l \in Seq(Nat), Len(l) # 0, NEW c \in Nat, c < Len(l), NEW r \in 0 .. Len(l),
         NEW k \in 0 .. r
  PROVE  /\ (c + k) % Len(l) \in Nat /\ (c + k) % Len(l) < Len(l)
         /\ \A i \in 1 .. k : Ring(l, c, k)[i] = Ring(l, c, r)[i]
         /\ \A i \in 1 .. r - k :
              Ring(l, (c + k) % Len(l), r - k)[i] = Ring(l, c, r)[k + i]
<1> DEFINE d == Len(l)
           y == (c + k) % d
<1>1. d \in Nat \ {0} /\ c < d /\ r \in Nat /\ r <= d /\ k \in Nat /\ k <= r
  OBVIOUS
<1>2. y = (IF c + k < d THEN c + k ELSE c + k - d) /\ y \in Nat /\ y < d
  <2> HIDE DEF d
  <2> DEFINE x == c + k
  <2>1. x \in Nat /\ (x < d \/ (d <= x /\ x < 2 * d))
    BY <1>1
  <2>2. y = x % d
    OBVIOUS
  <2> HIDE DEF x, y
  <2>3. y = IF x < d THEN x ELSE x - d
    BY <1>1, <2>1, <2>2, SmallMod
  <2> QED
    BY <1>1, <2>1, <2>3 DEF x
<1>3. \A i \in 1 .. k : Ring(l, c, k)[i] = Ring(l, c, r)[i]
  BY <1>1 DEF Ring
<1>4. ASSUME NEW i \in 1 .. r - k
      PROVE  Ring(l, y, r - k)[i] = Ring(l, c, r)[k + i]
  <2>1. i \in 1 .. d /\ k + i \in 1 .. d /\ k + i \in 1 .. r
    BY <1>1
  <2>2. (y + i - 1) % d = (c + (k + i) - 1) % d
    <3> HIDE DEF d, y
    <3> DEFINE j == k + i
               a == (y + i - 1) % d
               b == (c + j - 1) % d
    <3>1. a = IF y + i - 1 < d THEN y + i - 1 ELSE y + i - 1 - d
      BY <1>1, <1>2, <2>1, AtCursor
    <3>2. j \in 1 .. d
      BY <2>1
    <3>3. b = IF c + j - 1 < d THEN c + j - 1 ELSE c + j - 1 - d
      <4> HIDE DEF j
      <4> QED
        BY <1>1, <3>2, AtCursor
    <3> HIDE DEF a, b
    <3>4. a = b
      BY <1>1, <1>2, <2>1, <3>1, <3>3
    <3> QED
      BY <3>4 DEF a, b
  <2>3. Ring(l, y, r - k)[i] = l[((y + i - 1) % d) + 1]
    <3> HIDE DEF y
    <3> QED
      BY DEF Ring
  <2>4. Ring(l, c, r)[k + i] = l[((c + (k + i) - 1) % d) + 1]
    BY <2>1 DEF Ring
  <2> HIDE DEF d, y
  <2> QED
    BY <2>2, <2>3, <2>4
<1> QED
  BY <1>2, <1>3, <1>4

\* A frame leaves the channel and pushes as many samples out of the line.
LEMMA ReceiveStep ==
  ASSUME EchoTypes, EchoControl, NEW n \in Nat, NEW m \in Nat, EchoData(n, m), Receive,
         NEW e \in Nat, e = n + Len(Head(queue))
  PROVE  EchoTypes' /\ EchoControl' /\ EchoData(e, m)' /\ e <= m
<1> DEFINE f == Head(queue)
           g == Echo(f)
           d == Len(line)
           w == Whole(captured, d)
           ring == Ring(line, cursor, d)
           s == ThroughLine(g)
<1>1. /\ playback = "recv" /\ playback' = "write" /\ queue # <<>> /\ queue' = Tail(queue)
      /\ line' = s.line /\ cursor' = s.cursor /\ out' = s.out
      /\ UNCHANGED <<uplink, capture, tx, frame, captured, remaining, played, result>>
  BY DEF Receive, captureVars
<1>2. /\ line \in Seq(Nat) /\ captured \in Seq(Nat) /\ played \in Seq(Nat)
      /\ queue \in Seq(Seq(Nat)) /\ frame \in Seq(Nat) /\ uplink \in Nat
      /\ cursor \in Nat /\ (d # 0 => cursor < d)
      /\ d \in Nat /\ Len(captured) \in Nat /\ Len(played) \in Nat
      /\ remaining = d /\ Len(out) = 0
  <2>1. remaining = d /\ out = <<>>
    BY <1>1 DEF EchoControl
  <2>2. Len(out) = 0
    BY <2>1
  <2> HIDE DEF f, g, w, ring, s
  <2>3. /\ line \in Seq(Nat) /\ captured \in Seq(Nat) /\ played \in Seq(Nat)
        /\ queue \in Seq(Seq(Nat)) /\ frame \in Seq(Nat) /\ uplink \in Nat
        /\ cursor \in Nat /\ (d # 0 => cursor < d)
    BY DEF EchoTypes
  <2>4. d \in Nat /\ Len(captured) \in Nat /\ Len(played) \in Nat
    BY <2>3
  <2> QED
    BY <2>1, <2>2, <2>3, <2>4
<1>3. /\ f \in Seq(Nat) /\ Matches(f, captured, n) /\ n + Len(f) <= m
      /\ Segments(queue', captured, n + Len(f), m)
  BY <1>1, <1>2, SegmentsTail DEF EchoData
<1>4. Len(played) = n /\ Len(played) + Len(out) = n
  BY <1>2 DEF EchoData
<1>5. w \in Seq(Nat) /\ g \in Seq(Nat) /\ Len(g) = Len(f) /\ Len(f) \in Nat
  <2>1. w \in Seq(Nat)
    BY <1>2, WholeFacts
  <2>2. g \in Seq(Nat) /\ Len(g) = Len(f) /\ Len(f) \in Nat
    <3> HIDE DEF f
    <3> QED
      BY <1>3, EchoFacts
  <2> QED
    BY <2>1, <2>2
<1>6. Matches(g, w, d + n)
  BY <1>2, <1>3, WholeMatches
<1>7. ring \in Seq(Nat) /\ Len(ring) = d /\ Matches(ring, w, n)
  <2>1. d \in 0 .. Len(line)
    BY <1>2
  <2>2. ring \in Seq(Nat) /\ Len(ring) = d
    BY <2>1, RingType
  <2>3. Matches(ring, w, n)
    BY <1>2, <1>4 DEF EchoData
  <2> QED
    BY <2>2, <2>3
<1> DEFINE after == Ring(line', cursor', d)
<1>8. /\ line' \in Seq(Nat) /\ Len(line') = d /\ cursor' \in Nat /\ (d # 0 => cursor' < d)
      /\ out' \in Seq(Nat) /\ Len(out') = Len(g)
      /\ Matches(out', w, n) /\ Matches(after, w, n + Len(g))
  <2>1. CASE d = 0
    <3>1. line' = line /\ cursor' = cursor /\ out' = g
      BY <1>1, <2>1 DEF ThroughLine, Delay
    <3>2. after = <<>>
      BY <2>1 DEF Ring
    <3>3. d + n = n /\ n + Len(g) <= Len(w) /\ n + Len(g) \in Nat
      <4>1. d + n = n
        BY <2>1
      <4> HIDE DEF g, w, d
      <4> QED
        BY <1>5, <1>6, <4>1 DEF Matches
    <3> HIDE DEF g, w, d, after
    <3>4. Matches(after, w, n + Len(g))
      BY <1>5, <3>2, <3>3, EmptyMatches
    <3> QED
      BY <1>2, <1>5, <1>6, <3>1, <3>3, <3>4 DEF d
  <2>2. CASE d # 0
    <3> DEFINE v == ring \o g
               r == Swapped(v, cursor, d, Len(g))
    <3>1. s = r
      <4>1. s = SwapFrame(g, cursor)
        BY <2>2 DEF ThroughLine, Delay
      <4>2. SwapFrame(g, cursor) = r
        <5> HIDE DEF g
        <5> QED
          BY <1>2, <1>5, <2>2, SwapFrameIs
      <4> QED
        BY <4>1, <4>2
    <3>2. v \in Seq(Nat) /\ Len(v) = d + Len(g) /\ Len(g) \in Nat
      <4>1. v \in Seq(Nat) /\ Len(v) = Len(ring) + Len(g)
        <5> HIDE DEF ring, g
        <5> QED
          BY <1>5, <1>7, ConcatFacts
      <4> QED
        BY <1>5, <1>7, <4>1
    <3>3. Matches(v, w, n)
      <4>1. n + Len(ring) = d + n
        BY <1>2, <1>7
      <4>2. Matches(g, w, n + Len(ring))
        BY <1>6, <4>1
      <4> HIDE DEF ring, g, w
      <4> QED
        BY <1>5, <1>7, <4>2, MatchesConcat
    <3>4. /\ r.line \in Seq(Nat) /\ Len(r.line) = d /\ r.cursor \in Nat /\ r.cursor < d
          /\ r.out \in Seq(Nat) /\ Len(r.out) = Len(g)
          /\ Matches(r.out, v, 0)
          /\ Ring(r.line, r.cursor, d) \in Seq(Nat)
          /\ Matches(Ring(r.line, r.cursor, d), v, Len(g))
      <4> DEFINE l == Len(g)
      <4>1. d \in Nat \ {0} /\ l \in Nat /\ l + d <= Len(v)
        <5> HIDE DEF v, d
        <5> QED
          BY <1>2, <2>2, <3>2
      <4> HIDE DEF v, d, l
      <4>2. LET t == Swapped(v, cursor, d, l)
            IN  /\ t.line \in Seq(Nat) /\ Len(t.line) = d /\ t.cursor \in Nat /\ t.cursor < d
                /\ t.out \in Seq(Nat) /\ Len(t.out) = l
                /\ Matches(t.out, v, 0)
                /\ Ring(t.line, t.cursor, d) \in Seq(Nat)
                /\ Len(Ring(t.line, t.cursor, d)) = d
                /\ Matches(Ring(t.line, t.cursor, d), v, l)
        BY <1>2, <3>2, <4>1, SwappedRing
      <4> QED
        BY <4>2 DEF l
    <3>5. Matches(r.out, w, n + 0) /\ Matches(Ring(r.line, r.cursor, d), w, n + Len(g))
      <4> HIDE DEF v, r, w, d, g
      <4> QED
        BY <1>5, <3>2, <3>3, <3>4, MatchesTrans
    <3>6. line' = r.line /\ cursor' = r.cursor /\ out' = r.out /\ n + 0 = n
      BY <1>1, <3>1
    <3> HIDE DEF v, r, w, d, g
    <3> QED
      BY <3>4, <3>5, <3>6
  <2> QED
    BY <2>1, <2>2
<1>9. queue' \in Seq(Seq(Nat))
  BY <1>1, <1>2
<1>10. EchoTypes'
  <2>1. remaining' \in 0 .. Len(line')
    BY <1>1, <1>2, <1>8
  <2>2. played' \in Seq(Nat) /\ frame' \in Seq(Nat) /\ captured' \in Seq(Nat) /\ uplink' \in Nat
    BY <1>1, <1>2
  <2> HIDE DEF d, w, g, after
  <2> QED
    BY <1>8, <1>9, <2>1, <2>2 DEF EchoTypes
<1>11. EchoControl'
  <2>1. remaining' = Len(line')
    BY <1>1, <1>2, <1>8
  <2> QED
    BY <1>1, <2>1 DEF EchoControl
<1>12. EchoData(e, m)'
  <2>1. Whole(captured', Len(line')) = w
    BY <1>1, <1>8
  <2>2. Ring(line', cursor', remaining') = after
    BY <1>1, <1>2
  <2>3. Len(played') = n /\ Len(played') + Len(out') = n + Len(g)
        /\ e + Len(line') = Len(played') + Len(out') + remaining' /\ e = n + Len(f)
    <3>1. e = n + Len(f)
      OBVIOUS
    <3> HIDE DEF d, f, g, after, w
    <3> QED
      BY <1>1, <1>2, <1>4, <1>5, <1>8, <3>1
  <2>4. Matches(played', w, 0)
    BY <1>1 DEF EchoData
  <2>5. /\ Matches(frame', captured', m) /\ Len(captured') - (m + Len(frame')) <= MaxRead
        /\ tx' => Len(captured') = m + Len(frame')
    BY <1>1 DEF EchoData
  <2>6. Segments(queue', captured', e, m)
    BY <1>1, <1>3
  <2> HIDE DEF d, f, g, after, w
  <2> QED
    BY <1>8, <2>1, <2>2, <2>3, <2>4, <2>5, <2>6 DEF EchoData
<1> QED
  BY <1>3, <1>10, <1>11, <1>12

\* The frame is written.
LEMMA WriteStep ==
  ASSUME EchoTypes, EchoControl, NEW n \in Nat, NEW m \in Nat, EchoData(n, m), Write
  PROVE  EchoTypes' /\ EchoControl' /\ EchoData(n, m)'
<1> DEFINE w == Whole(captured, Len(line))
<1>1. /\ playback = "write" /\ playback' = "recv" /\ played' = played \o out /\ out' = <<>>
      /\ UNCHANGED <<uplink, capture, tx, frame, captured, queue, line, cursor, remaining, result>>
  BY DEF Write, captureVars
<1>2. /\ played \in Seq(Nat) /\ out \in Seq(Nat) /\ line \in Seq(Nat) /\ captured \in Seq(Nat)
      /\ Len(line) \in Nat /\ Len(played) \in Nat /\ Len(out) \in Nat
  BY DEF EchoTypes
<1>3. w \in Seq(Nat) /\ Len(w) \in Nat
  BY <1>2, WholeFacts
<1>4. played' \in Seq(Nat) /\ Len(played') = Len(played) + Len(out) /\ Len(out') = 0
  BY <1>1, <1>2, ConcatFacts
<1>5. Matches(played, w, 0) /\ Matches(out, w, Len(played))
  BY DEF EchoData
<1> HIDE DEF w
<1>6. Matches(played', w, 0)
  <2>1. 0 + Len(played) = Len(played)
    BY <1>2
  <2> QED
    BY <1>1, <1>2, <1>3, <1>5, <2>1, MatchesConcat
<1>7. Matches(out', w, Len(played'))
  <2>1. Len(played') <= Len(w) /\ Len(played') \in Nat
    BY <1>2, <1>3, <1>4, <1>5 DEF Matches
  <2> QED
    BY <1>1, <1>3, <2>1, EmptyMatches
<1>8. EchoTypes'
  BY <1>1, <1>4 DEF EchoTypes
<1>9. EchoControl'
  BY <1>1 DEF EchoControl
<1>10. Len(played') + Len(out') = Len(played) + Len(out)
  BY <1>2, <1>4
<1>11. /\ n + Len(line) = Len(played) + Len(out) + remaining
       /\ Matches(Ring(line, cursor, remaining), w, Len(played) + Len(out))
       /\ Segments(queue, captured, n, m)
       /\ Matches(frame, captured, m) /\ Len(captured) - (m + Len(frame)) <= MaxRead
       /\ tx => Len(captured) = m + Len(frame)
  BY DEF EchoData, w
<1>12. EchoData(n, m)'
  BY <1>1, <1>6, <1>7, <1>10, <1>11 DEF EchoData, w
<1> QED
  BY <1>8, <1>9, <1>12

\* A tick of the drain.
LEMMA DrainStep ==
  ASSUME Sizes, EchoTypes, EchoControl, NEW n \in Nat, NEW m \in Nat, EchoData(n, m), DrainTick
  PROVE  EchoTypes' /\ EchoControl' /\ EchoData(n, m)'
<1> DEFINE d == Len(line)
           w == Whole(captured, d)
           k == IF remaining < DrainFrame THEN remaining ELSE DrainFrame
           head == Ring(line, cursor, k)
           ring == Ring(line, cursor, remaining)
           p == Len(played) + Len(out)
<1>1. /\ playback = "drain" /\ remaining # 0
      /\ played' = played \o head /\ cursor' = (cursor + k) % d /\ remaining' = remaining - k
      /\ UNCHANGED <<uplink, capture, tx, frame, captured, queue, playback, out, line, result>>
  BY DEF DrainTick, captureVars, Oldest, Delay, Ring
<1>2. /\ played \in Seq(Nat) /\ out = <<>> /\ line \in Seq(Nat) /\ captured \in Seq(Nat)
      /\ d \in Nat /\ d # 0 /\ cursor \in Nat /\ cursor < d /\ Len(played) \in Nat /\ Len(out) = 0
      /\ remaining \in 0 .. d /\ remaining \in Nat /\ p = Len(played)
  BY <1>1 DEF EchoTypes, EchoControl
<1>3. k \in 0 .. remaining /\ k \in Nat /\ k \in 0 .. d
  <2>1. DrainFrame \in Nat
    BY DEF Sizes
  <2> QED
    BY <1>2, <2>1
<1> HIDE DEF k
<1>4. w \in Seq(Nat) /\ Len(w) \in Nat
  BY <1>2, WholeFacts
<1>5. head \in Seq(Nat) /\ Len(head) = k /\ ring \in Seq(Nat) /\ Len(ring) = remaining
  BY <1>2, <1>3, RingIs
<1>6. /\ cursor' \in Nat /\ cursor' < d
      /\ \A i \in 1 .. k : head[i] = ring[i]
      /\ \A i \in 1 .. remaining - k : Ring(line, cursor', remaining - k)[i] = ring[k + i]
  <2>1. /\ (cursor + k) % Len(line) \in Nat /\ (cursor + k) % Len(line) < Len(line)
        /\ \A i \in 1 .. k : Ring(line, cursor, k)[i] = Ring(line, cursor, remaining)[i]
        /\ \A i \in 1 .. remaining - k :
             Ring(line, (cursor + k) % Len(line), remaining - k)[i]
               = Ring(line, cursor, remaining)[k + i]
    <3>1. /\ line \in Seq(Nat) /\ Len(line) # 0 /\ cursor \in Nat /\ cursor < Len(line)
          /\ remaining \in 0 .. Len(line) /\ k \in 0 .. remaining
      BY <1>2, <1>3
    <3> HIDE DEF d, w, head, ring, p
    <3> QED
      BY <3>1, RingSplit
  <2>2. cursor' = (cursor + k) % Len(line)
    BY <1>1
  <2> QED
    BY <2>1, <2>2
<1>7. Matches(played, w, 0) /\ Matches(ring, w, p)
  BY DEF EchoData
<1> DEFINE tail == Ring(line, cursor', remaining - k)
<1>8. tail \in Seq(Nat) /\ Len(tail) = remaining - k
  <2>1. remaining - k \in 0 .. d
    BY <1>2, <1>3
  <2> QED
    BY <1>2, <1>6, <2>1, RingIs
<1> HIDE DEF w, head, ring, tail, p
<1>9. Matches(head, w, p)
  <2>1. p \in Nat /\ p + remaining <= Len(w)
    BY <1>2, <1>5, <1>7 DEF Matches
  <2>2. p + Len(head) <= Len(w)
    BY <1>2, <1>3, <1>4, <1>5, <2>1
  <2>3. ASSUME NEW i \in 1 .. Len(head)
        PROVE  head[i] = w[p + i]
    <3>1. i \in 1 .. k /\ i \in 1 .. Len(ring)
      BY <1>2, <1>3, <1>5
    <3>2. head[i] = ring[i]
      BY <1>6, <3>1
    <3>3. ring[i] = w[p + i]
      BY <1>7, <3>1 DEF Matches
    <3> QED
      BY <3>2, <3>3
  <2> QED
    BY <2>2, <2>3 DEF Matches
<1>10. Matches(tail, w, p + k)
  <2>1. p \in Nat /\ p + remaining <= Len(w)
    BY <1>2, <1>5, <1>7 DEF Matches
  <2>2. ASSUME NEW i \in 1 .. remaining - k
        PROVE  tail[i] = w[(p + k) + i]
    <3>1. k + i \in 1 .. remaining /\ p + (k + i) = (p + k) + i
      BY <1>2, <1>3, <2>1
    <3>2. ring[k + i] = w[p + (k + i)]
      BY <1>5, <1>7, <3>1 DEF Matches
    <3>3. tail[i] = ring[k + i]
      BY <1>6 DEF tail
    <3> QED
      BY <3>1, <3>2, <3>3
  <2> QED
    <3>1. (p + k) + Len(tail) <= Len(w)
      BY <1>2, <1>3, <1>4, <1>8, <2>1
    <3>2. \A i \in 1 .. Len(tail) : tail[i] = w[(p + k) + i]
      BY <1>8, <2>2
    <3> QED
      BY <3>1, <3>2 DEF Matches
<1>11. played' \in Seq(Nat) /\ Len(played') = Len(played) + k
  <2>1. played' \in Seq(Nat) /\ Len(played') = Len(played) + Len(head)
    BY <1>1, <1>2, <1>5, ConcatFacts
  <2> QED
    BY <1>5, <2>1
<1>12. Matches(played', w, 0)
  <2>1. 0 + Len(played) = p
    BY <1>2
  <2>2. Matches(head, w, 0 + Len(played))
    BY <1>9, <2>1
  <2> QED
    BY <1>1, <1>2, <1>4, <1>5, <1>7, <2>2, MatchesConcat
<1>13. EchoTypes'
  <2>1. remaining' \in 0 .. Len(line')
    BY <1>1, <1>2, <1>3
  <2> QED
    BY <1>1, <1>6, <1>11, <2>1 DEF EchoTypes
<1>14. EchoControl'
  BY <1>1 DEF EchoControl
<1>15. /\ Len(played') + Len(out') = p + k /\ n + d = Len(played') + Len(out') + remaining'
       /\ Len(played') <= Len(w) /\ Len(played') \in Nat
  <2>1. n + d = p + remaining
    BY DEF EchoData, p
  <2>2. Len(out') = 0
    BY <1>1, <1>2
  <2>3. Len(played') <= Len(w)
    BY <1>4, <1>11, <1>12 DEF Matches
  <2>4. remaining' = remaining - k
    BY <1>1
  <2>5. d \in Nat
    BY <1>2
  <2> HIDE DEF d
  <2>6. Len(played') + Len(out') = p + k /\ Len(played') \in Nat
    BY <1>2, <1>3, <1>11, <2>2
  <2>7. n + d = (p + k) + (remaining - k)
    <3>1. p \in Nat /\ k \in Nat /\ remaining \in Nat
      BY <1>2, <1>3
    <3> QED
      BY <2>1, <2>5, <3>1
  <2> QED
    BY <2>3, <2>4, <2>6, <2>7
<1>16. Matches(out', w, Len(played'))
  BY <1>1, <1>2, <1>4, <1>15, EmptyMatches
<1>17. Matches(Ring(line', cursor', remaining'), w, Len(played') + Len(out'))
  BY <1>1, <1>10, <1>15 DEF tail
<1>18. /\ Segments(queue, captured, n, m)
       /\ Matches(frame, captured, m) /\ Len(captured) - (m + Len(frame)) <= MaxRead
       /\ tx => Len(captured) = m + Len(frame)
  BY DEF EchoData
<1>19. EchoData(n, m)'
  BY <1>1, <1>12, <1>15, <1>16, <1>17, <1>18 DEF EchoData, w
<1> QED
  BY <1>13, <1>14, <1>19

\* The steps that move no sample.
LEMMA QuietStep ==
  ASSUME EchoTypes, NEW n \in Nat, NEW m \in Nat, EchoData(n, m),
         UNCHANGED <<frame, captured, queue, out, line, cursor, remaining, played>>,
         uplink' \in Nat, tx' => tx
  PROVE  EchoTypes' /\ EchoData(n, m)'
<1>1. EchoTypes'
  BY DEF EchoTypes
<1>2. EchoData(n, m)'
  <2>1. /\ n + Len(line) = Len(played) + Len(out) + remaining
        /\ Matches(played, Whole(captured, Len(line)), 0)
        /\ Matches(out, Whole(captured, Len(line)), Len(played))
        /\ Matches(Ring(line, cursor, remaining), Whole(captured, Len(line)),
                   Len(played) + Len(out))
        /\ Segments(queue, captured, n, m)
        /\ Matches(frame, captured, m)
        /\ Len(captured) - (m + Len(frame)) <= MaxRead
        /\ tx' => Len(captured) = m + Len(frame)
    BY DEF EchoData
  <2> QED
    BY <2>1 DEF EchoData
<1> QED
  BY <1>1, <1>2

LEMMA EchoInit ==
  ASSUME Sizes, Init
  PROVE  EchoInv
<1>1. PICK d \in Delays : line = Silence(d) /\ remaining = d
  BY DEF Init
<1>2. /\ d \in Nat /\ MaxRead \in Nat
  BY DEF Sizes
<1>3. /\ capture = "read" /\ tx = TRUE /\ frame = <<>> /\ captured = <<>> /\ queue = <<>>
      /\ playback = "recv" /\ out = <<>> /\ played = <<>> /\ cursor = 0 /\ uplink = 0
      /\ result = "running"
  BY DEF Init
<1>4. line \in Seq(Nat) /\ Len(line) = d /\ \A i \in 1 .. d : line[i] = 0
  BY <1>1, <1>2 DEF Silence
<1>5. EchoTypes
  BY <1>1, <1>2, <1>3, <1>4 DEF EchoTypes
<1>6. EchoControl
  <2>1. Len(frame) <= MaxRead
    BY <1>2, <1>3
  <2> QED
    BY <1>1, <1>3, <1>4, <2>1 DEF EchoControl
<1> DEFINE w == Whole(captured, Len(line))
           r == Ring(line, cursor, remaining)
<1>7. captured \in Seq(Nat) /\ Len(captured) = 0
  BY <1>3
<1>8. /\ w \in Seq(Nat) /\ Len(w) = d /\ \A i \in 1 .. d : w[i] = 0
  <2>1. /\ Whole(captured, d) \in Seq(Nat) /\ Len(Whole(captured, d)) = d + Len(captured)
        /\ \A i \in 1 .. d : Whole(captured, d)[i] = 0
    BY <1>2, <1>7, WholeFacts
  <2>2. d + Len(captured) = d
    BY <1>2, <1>7
  <2> QED
    BY <1>4, <2>1, <2>2
<1>9. /\ r \in Seq(Nat) /\ Len(r) = d /\ \A i \in 1 .. d : r[i] = 0
  <2>1. remaining \in 0 .. Len(line)
    BY <1>1, <1>2, <1>4
  <2>2. Ring(line, cursor, remaining) \in Seq(Nat) /\ Len(Ring(line, cursor, remaining)) = remaining
    BY <1>5, <2>1, RingType
  <2>3. ASSUME NEW i \in 1 .. d
        PROVE  r[i] = 0
    <3>1. r[i] = line[((cursor + i - 1) % Len(line)) + 1]
      BY <1>1, <1>2 DEF Ring
    <3>2. ((cursor + i - 1) % Len(line)) + 1 = i
      <4>1. cursor + i - 1 = i - 1 /\ i - 1 \in Nat /\ i - 1 < d /\ d \in Nat \ {0}
        BY <1>2, <1>3
      <4>2. (i - 1) % d = i - 1
        BY <4>1, SmallMod
      <4>3. (i - 1) + 1 = i
        BY <1>2
      <4> QED
        BY <1>4, <4>1, <4>2, <4>3
    <3> QED
      BY <1>4, <3>1, <3>2
  <2> QED
    BY <1>1, <2>2, <2>3
<1> HIDE DEF w, r
<1>10. Len(played) = 0 /\ Len(out) = 0 /\ Len(frame) = 0
  BY <1>3
<1>11. Matches(played, w, 0) /\ Matches(out, w, Len(played))
  <2>1. 0 <= Len(w)
    BY <1>2, <1>8
  <2> QED
    BY <1>3, <1>8, <1>10, <2>1, EmptyMatches
<1>12. Matches(r, w, Len(played) + Len(out))
  <2>1. Len(played) + Len(out) = 0
    BY <1>10
  <2>2. 0 + Len(r) <= Len(w)
    BY <1>2, <1>8, <1>9
  <2>3. \A i \in 1 .. Len(r) : r[i] = w[0 + i]
    BY <1>2, <1>8, <1>9
  <2> QED
    BY <2>1, <2>2, <2>3 DEF Matches
<1>13. Matches(frame, captured, 0) /\ Segments(queue, captured, 0, 0)
  <2>1. 0 <= Len(captured)
    BY <1>7
  <2>2. Matches(frame, captured, 0)
    BY <1>3, <1>7, <2>1, EmptyMatches
  <2>3. Segments(queue, captured, 0, 0)
    BY <1>3, <1>7, <2>1, SegmentsEmpty
  <2> QED
    BY <2>2, <2>3
<1>14. /\ 0 + Len(line) = Len(played) + Len(out) + remaining
       /\ Len(captured) - (0 + Len(frame)) <= MaxRead
       /\ Len(captured) = 0 + Len(frame)
  BY <1>1, <1>2, <1>4, <1>7, <1>10
<1>15. EchoData(0, 0)
  BY <1>11, <1>12, <1>13, <1>14 DEF EchoData, w, r
<1> QED
  BY <1>5, <1>6, <1>15 DEF EchoInv

LEMMA EchoStep ==
  ASSUME Sizes, SenderHeld, EchoInv, [Next]_vars
  PROVE  EchoInv'
<1>1. EchoTypes /\ EchoControl
  BY DEF EchoInv
<1>2. PICK n \in Nat, m \in Nat : EchoData(n, m)
  BY DEF EchoInv
<1> SUFFICES EchoTypes' /\ EchoControl' /\ \E a, b \in Nat : EchoData(a, b)'
  BY DEF EchoInv
<1>3. uplink \in Nat
  BY <1>1 DEF EchoTypes
<1>4. CASE UNCHANGED vars
  <2>1. UNCHANGED <<uplink, capture, tx, frame, captured, queue, playback, out, line, cursor,
                    remaining, played, result>>
    BY <1>4 DEF vars, captureVars, playbackVars
  <2>2. EchoControl'
    BY <1>1, <2>1 DEF EchoControl
  <2>3. EchoTypes' /\ EchoData(n, m)'
    BY <1>1, <1>2, <1>3, <2>1, QuietStep
  <2> QED
    BY <2>2, <2>3
<1>5. CASE Tick
  <2>1. UNCHANGED <<uplink, capture, tx, frame, captured, queue, playback, out, line, cursor,
                    remaining, played, result>>
    BY <1>5 DEF Tick, captureVars, playbackVars
  <2>2. EchoControl'
    BY <1>1, <2>1 DEF EchoControl
  <2>3. EchoTypes' /\ EchoData(n, m)'
    BY <1>1, <1>2, <1>3, <2>1, QuietStep
  <2> QED
    BY <2>2, <2>3
<1>6. CASE Step
  <2>1. CASE PhaseEnds
    <3>1. /\ capture = "read" /\ capture' \in {"read", "done"} /\ ~tx'
          /\ UNCHANGED <<uplink, frame, captured, queue, playback, out, line, cursor, remaining,
                         played, result>>
      BY <2>1 DEF PhaseEnds, playbackVars
    <3>2. EchoControl'
      BY <1>1, <3>1 DEF EchoControl
    <3>3. EchoTypes' /\ EchoData(n, m)'
      BY <1>1, <1>2, <1>3, <3>1, QuietStep
    <3> QED
      BY <3>2, <3>3
  <2>2. CASE SendFrame
    <3>1. PICK e \in Nat : e = m + Len(frame)
      BY <1>1 DEF EchoTypes
    <3>2. EchoTypes' /\ EchoControl' /\ EchoData(n, e)'
      BY <1>1, <1>2, <2>2, <3>1, SendStep
    <3> QED
      BY <3>1, <3>2
  <2>3. CASE SendTimesOut
    <3>1. tx
      BY <2>3 DEF SenderHeld, SendTimesOut
    <3> QED
      BY <1>1, <1>2, <2>3, <3>1, SendTimesOutStep
  <2>4. CASE ReadSome
    <3>1. PICK k \in 1 .. MaxRead : Read(k)
      BY <2>4 DEF ReadSome
    <3>2. CASE CaptureOver
      <4>1. /\ ~tx' /\ uplink' = uplink + k
            /\ UNCHANGED <<capture, frame, captured, queue, playback, out, line, cursor,
                           remaining, played, result>>
        BY <3>1, <3>2 DEF Read, playbackVars
      <4>2. uplink' \in Nat
        BY <1>3, <4>1 DEF Sizes
      <4>3. EchoControl'
        BY <1>1, <4>1 DEF EchoControl
      <4>4. EchoTypes' /\ EchoData(n, m)'
        BY <1>1, <1>2, <4>1, <4>2, QuietStep
      <4> QED
        BY <4>3, <4>4
    <3>3. CASE ~CaptureOver
      <4>1. tx /\ tx'
        BY <1>1, <3>1, <3>3 DEF Read, CaptureOver, SenderHeld
      <4> QED
        BY <1>1, <1>2, <3>1, <3>3, <4>1, ReadStep
    <3> QED
      BY <3>2, <3>3
  <2>5. CASE ReadEof
    <3>1. /\ capture = "read" /\ capture' = "done" /\ ~tx'
          /\ UNCHANGED <<uplink, frame, captured, queue, playback, out, line, cursor, remaining,
                         played, result>>
      BY <2>5 DEF ReadEof, playbackVars
    <3>2. EchoControl'
      BY <1>1, <3>1 DEF EchoControl
    <3>3. EchoTypes' /\ EchoData(n, m)'
      BY <1>1, <1>2, <1>3, <3>1, QuietStep
    <3> QED
      BY <3>2, <3>3
  <2>6. CASE Receive
    <3>1. PICK e \in Nat : e = n + Len(Head(queue))
      <4>1. queue \in Seq(Seq(Nat)) /\ queue # <<>>
        BY <1>1, <2>6 DEF EchoTypes, Receive
      <4>2. Head(queue) \in Seq(Nat)
        BY <4>1
      <4> QED
        BY <4>2
    <3>2. EchoTypes' /\ EchoControl' /\ EchoData(e, m)'
      BY <1>1, <1>2, <2>6, <3>1, ReceiveStep
    <3> QED
      BY <3>1, <3>2
  <2>7. CASE Write
    BY <1>1, <1>2, <2>7, WriteStep
  <2>8. CASE DrainTick
    BY <1>1, <1>2, <2>8, DrainStep
  <2>9. CASE RecvNone \/ ShutdownWriter \/ Join \/ Fail
    <3>1. UNCHANGED <<uplink, tx, frame, captured, queue, out, line, cursor, remaining, played>>
      BY <2>9 DEF RecvNone, ShutdownWriter, Join, Fail, captureVars, playbackVars
    <3>2. EchoControl'
      BY <1>1, <2>9, <3>1 DEF EchoControl, RecvNone, ShutdownWriter, Join, Fail,
                              captureVars, playbackVars
    <3>3. EchoTypes' /\ EchoData(n, m)'
      BY <1>1, <1>2, <1>3, <3>1, QuietStep
    <3> QED
      BY <3>2, <3>3
  <2> QED
    BY <1>6, <2>1, <2>2, <2>3, <2>4, <2>5, <2>6, <2>7, <2>8, <2>9
    DEF Step, CaptureStep, PlaybackStep
<1> QED
  BY <1>4, <1>5, <1>6 DEF Next

\* What the invariant says of the samples on their way: flat is what the channel
\* holds.
LEMMA EchoMeaning ==
  ASSUME EchoInv
  PROVE  \E flat \in Seq(Nat) :
           LET echo == played \o out \o Oldest(remaining) \o Echo(flat) \o Echo(frame)
               whole == Silence(Delay) \o Echo(captured)
           IN /\ \E n, m \in Nat : /\ Segments(queue, captured, n, m)
                                   /\ flat = [j \in 1 .. m - n |-> captured[n + j]]
              /\ whole \in Seq(Nat) /\ echo \in Seq(Nat)
              /\ Matches(echo, whole, 0)
              /\ Len(whole) - Len(echo) <= MaxRead
              /\ tx => Len(echo) = Len(whole)
              /\ result = "ok" => echo = played
<1>1. EchoTypes /\ EchoControl
  BY DEF EchoInv
<1>2. PICK n \in Nat, m \in Nat : EchoData(n, m)
  BY DEF EchoInv
<1> DEFINE d == Len(line)
           w == Whole(captured, d)
           ring == Ring(line, cursor, remaining)
           flat == [j \in 1 .. m - n |-> captured[n + j]]
           waiting == Echo(flat)
           sending == Echo(frame)
           s1 == played \o out
           s2 == s1 \o ring
           s3 == s2 \o waiting
           s4 == s3 \o sending
<1>3. /\ played \in Seq(Nat) /\ out \in Seq(Nat) /\ frame \in Seq(Nat) /\ captured \in Seq(Nat)
      /\ line \in Seq(Nat) /\ queue \in Seq(Seq(Nat)) /\ d \in Nat /\ remaining \in 0 .. d
      /\ remaining \in Nat /\ Len(played) \in Nat /\ Len(out) \in Nat /\ Len(frame) \in Nat
      /\ Len(captured) \in Nat
  BY <1>1 DEF EchoTypes
<1>4. Oldest(remaining) = ring /\ Silence(Delay) \o Echo(captured) = w
  BY DEF Oldest, Ring, Delay, Whole
<1>5. ring \in Seq(Nat) /\ Len(ring) = remaining
  BY <1>1, <1>3, RingType
<1>6. Segments(queue, captured, n, m) /\ m <= Len(captured)
  BY <1>2 DEF EchoData, Segments
<1>7. n <= m /\ flat = [j \in 1 .. m - n |-> captured[n + j]]
  <2>1. PICK b \in [0 .. Len(queue) -> n .. m] : b[0] = n
    BY <1>6 DEF Segments
  <2>2. Len(queue) \in Nat
    BY <1>3
  <2>3. 0 \in 0 .. Len(queue)
    BY <2>2
  <2>4. b[0] \in n .. m
    BY <2>3, Zenon
  <2> QED
    BY <2>1, <2>4
<1> HIDE DEF flat
<1>8. flat \in Seq(Nat) /\ Len(flat) = m - n
  <2>1. \A j \in 1 .. m - n : n + j \in 1 .. Len(captured)
    BY <1>3, <1>6, <1>7
  <2>2. \A j \in 1 .. m - n : captured[n + j] \in Nat
    <3>1. \A x \in 1 .. Len(captured) : captured[x] \in Nat
      BY <1>3
    <3> QED
      BY <2>1, <3>1
  <2>3. m - n \in Nat
    BY <1>7
  <2> QED
    BY <1>7, <2>2, <2>3
<1>9. Matches(flat, captured, n)
  <2>1. n + Len(flat) <= Len(captured)
    BY <1>3, <1>6, <1>8
  <2>2. \A j \in 1 .. Len(flat) : flat[j] = captured[n + j]
    BY <1>7, <1>8
  <2> QED
    BY <2>1, <2>2 DEF Matches
<1>10. /\ waiting \in Seq(Nat) /\ Len(waiting) = m - n /\ sending \in Seq(Nat)
       /\ Len(sending) = Len(frame)
  BY <1>3, <1>8, EchoFacts
<1>11. w \in Seq(Nat) /\ Len(w) = d + Len(captured)
  BY <1>3, WholeFacts
<1>12. Matches(waiting, w, d + n) /\ Matches(sending, w, d + m)
  <2>1. Matches(frame, captured, m)
    BY <1>2 DEF EchoData
  <2>2. Matches(Echo(flat), Whole(captured, d), d + n)
    BY <1>3, <1>8, <1>9, WholeMatches
  <2>3. Matches(Echo(frame), Whole(captured, d), d + m)
    BY <1>3, <2>1, WholeMatches
  <2> QED
    BY <2>2, <2>3
<1>13. /\ Matches(played, w, 0) /\ Matches(out, w, Len(played))
       /\ Matches(ring, w, Len(played) + Len(out))
       /\ n + d = Len(played) + Len(out) + remaining
       /\ Len(captured) - (m + Len(frame)) <= MaxRead
       /\ tx => Len(captured) = m + Len(frame)
  BY <1>2 DEF EchoData
<1> HIDE DEF d, w, ring, waiting, sending
<1>14. s1 \in Seq(Nat) /\ Len(s1) = Len(played) + Len(out) /\ Len(s1) \in Nat
  <2>1. s1 \in Seq(Nat) /\ Len(s1) = Len(played) + Len(out)
    BY <1>3, ConcatFacts, Zenon
  <2> HIDE DEF s1
  <2> QED
    BY <2>1
<1>15. Matches(s1, w, 0)
  <2>1. 0 + Len(played) = Len(played)
    BY <1>3
  <2> QED
    BY <1>3, <1>11, <1>13, <2>1, MatchesConcat
<1> HIDE DEF s1
<1>16. s2 \in Seq(Nat) /\ Len(s2) = n + d /\ Len(s2) \in Nat
  <2>1. s2 \in Seq(Nat) /\ Len(s2) = Len(s1) + Len(ring)
    BY <1>5, <1>14, ConcatFacts
  <2> QED
    BY <1>3, <1>5, <1>13, <1>14, <2>1
<1>17. Matches(s2, w, 0)
  <2>1. 0 + Len(s1) = Len(played) + Len(out)
    BY <1>14
  <2>2. Matches(ring, w, 0 + Len(s1))
    BY <1>13, <2>1
  <2> QED
    BY <1>5, <1>11, <1>14, <1>15, <2>2, MatchesConcat
<1> HIDE DEF s2
<1>18. s3 \in Seq(Nat) /\ Len(s3) = d + m /\ Len(s3) \in Nat
  <2>1. s3 \in Seq(Nat) /\ Len(s3) = Len(s2) + Len(waiting)
    BY <1>10, <1>16, ConcatFacts
  <2> QED
    BY <1>3, <1>10, <1>16, <2>1
<1>19. Matches(s3, w, 0)
  <2>1. 0 + Len(s2) = d + n
    BY <1>3, <1>16
  <2>2. Matches(waiting, w, 0 + Len(s2))
    BY <1>12, <2>1
  <2> QED
    BY <1>10, <1>11, <1>16, <1>17, <2>2, MatchesConcat
<1> HIDE DEF s3
<1>20. s4 \in Seq(Nat) /\ Len(s4) = d + m + Len(frame) /\ Len(s4) \in Nat
  <2>1. s4 \in Seq(Nat) /\ Len(s4) = Len(s3) + Len(sending)
    BY <1>10, <1>18, ConcatFacts
  <2> QED
    BY <1>3, <1>10, <1>18, <2>1
<1>21. Matches(s4, w, 0)
  <2>1. 0 + Len(s3) = d + m
    BY <1>3, <1>18
  <2>2. Matches(sending, w, 0 + Len(s3))
    BY <1>12, <2>1
  <2> QED
    BY <1>10, <1>11, <1>18, <1>19, <2>2, MatchesConcat
<1> HIDE DEF s4
<1>22. Len(w) - Len(s4) <= MaxRead /\ (tx => Len(s4) = Len(w))
  <2>1. Len(w) - Len(s4) = Len(captured) - (m + Len(frame))
    BY <1>3, <1>11, <1>20
  <2>2. Len(captured) = m + Len(frame) => Len(s4) = Len(w)
    BY <1>3, <1>11, <1>20
  <2> QED
    BY <1>13, <2>1, <2>2
<1>23. ASSUME result = "ok" PROVE s4 = played
  <2>1. out = <<>> /\ remaining = 0 /\ queue = <<>> /\ frame = <<>>
    BY <1>1, <1>23 DEF EchoControl
  <2>2. Len(out) = 0 /\ Len(ring) = 0 /\ Len(sending) = 0
    BY <1>5, <1>10, <2>1
  <2>3. n = m
    BY <1>6, <2>1 DEF Segments
  <2>4. Len(waiting) = 0
    BY <1>10, <2>3
  <2>5. out = <<>> /\ ring = <<>> /\ waiting = <<>> /\ sending = <<>>
    BY <1>3, <1>5, <1>10, <2>2, <2>4
  <2>6. s1 = played /\ s2 = s1 /\ s3 = s2 /\ s4 = s3
    BY <1>3, <1>14, <1>16, <1>18, <2>5, ConcatEmpty DEF s1, s2, s3, s4
  <2> QED
    BY <2>6
<1>24. played \o out \o Oldest(remaining) \o Echo(flat) \o Echo(frame) = s4
  BY <1>4 DEF s4, s3, s2, s1, waiting, sending
<1> QED
  BY <1>4, <1>6, <1>7, <1>8, <1>11, <1>20, <1>21, <1>22, <1>23, <1>24
=============================================================================
