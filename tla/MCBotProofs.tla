------------------------------ MODULE MCBotProofs ------------------------------
(***************************************************************************)
(* Proofs about the order of names (NaturalOrder), for names of any        *)
(* lengths and bytes; and about the composition TLC runs (MCBot): whatever *)
(* part of the bot runs, its variables have their types.                   *)
(***************************************************************************)
EXTENDS MCBot, BotProofs, ConsoleProofs, DeliveryProofs, SequenceTheorems

-----------------------------------------------------------------------------
(* The order of dictionaries                                               *)

\* What is at the beginning of a sequence.
LEMMA BeginningAt ==
  ASSUME NEW x \in Seq(Nat), NEW l \in Nat, l <= Len(x), NEW n \in 1 .. l
  PROVE  SubSeq(x, 1, l)[n] = x[n]
<1>1. l - 1 + 1 = l /\ 1 + n - 1 = n
  OBVIOUS
<1> QED BY <1>1

\* The order of two sequences is that of their numbers where they first differ.
LEMMA FirstDiffers ==
  ASSUME NEW x \in Seq(Nat), NEW y \in Seq(Nat), NEW n \in 1 .. Len(x), n <= Len(y),
         \A m \in 1 .. n - 1 : x[m] = y[m], x[n] < y[n]
  PROVE  Precedes(x, y) /\ ~Precedes(y, x)
<1>1. /\ Len(x) \in Nat /\ Len(y) \in Nat /\ DOMAIN x = 1 .. Len(x) /\ DOMAIN y = 1 .. Len(y)
      /\ n \in DOMAIN x /\ n \in DOMAIN y /\ x[n] \in Nat /\ y[n] \in Nat
  OBVIOUS
<1>2. Precedes(x, y)
  <2>1. SubSeq(x, 1, n - 1) = SubSeq(y, 1, n - 1)
    BY <1>1
  <2> QED BY <1>1, <2>1 DEF Precedes
<1>3. ~IsStrictPrefix(y, x)
  <2> SUFFICES ASSUME IsPrefix(y, x)
               PROVE  FALSE
    BY DEF IsStrictPrefix
  <2>1. Len(y) <= Len(x) /\ SubSeq(y, 1, Len(y)) = SubSeq(x, 1, Len(y))
    BY DEF IsPrefix
  <2>2. SubSeq(y, 1, Len(y))[n] = y[n] /\ SubSeq(x, 1, Len(y))[n] = x[n]
    BY <1>1, <2>1
  <2> QED BY <1>1, <2>1, <2>2
<1>4. ASSUME NEW m \in DOMAIN y \cap DOMAIN x, SubSeq(y, 1, m - 1) = SubSeq(x, 1, m - 1), y[m] < x[m]
      PROVE  FALSE
  <2>1. m \in 1 .. Len(x) /\ m \in 1 .. Len(y) /\ x[m] \in Nat /\ y[m] \in Nat
    BY <1>1
  <2>2. CASE m < n
    <3>1. m \in 1 .. n - 1
      BY <1>1, <2>1, <2>2
    <3>2. x[m] = y[m]
      BY <3>1
    <3> QED BY <1>4, <2>1, <3>2
  <2>3. CASE m = n
    BY <1>1, <1>4, <2>3
  <2>4. CASE m > n
    <3>1. n \in 1 .. m - 1 /\ m - 1 \in Nat /\ m - 1 <= Len(x) /\ m - 1 <= Len(y)
      BY <1>1, <2>1, <2>4
    <3>2. SubSeq(y, 1, m - 1)[n] = y[n] /\ SubSeq(x, 1, m - 1)[n] = x[n]
      BY <3>1, BeginningAt
    <3>3. x[n] = y[n]
      BY <1>4, <3>2
    <3> QED BY <1>1, <3>3
  <2> QED BY <1>1, <2>1, <2>2, <2>3, <2>4
<1> QED BY <1>2, <1>3, <1>4 DEF Precedes

\* A sequence precedes those that go on from it.
LEMMA ShorterPrecedes ==
  ASSUME NEW x \in Seq(Nat), NEW t \in Seq(Nat), t # <<>>
  PROVE  Precedes(x, x \o t) /\ ~Precedes(x \o t, x)
<1> DEFINE y == x \o t
<1>1. /\ Len(x) \in Nat /\ Len(t) \in Nat /\ Len(t) # 0 /\ DOMAIN x = 1 .. Len(x)
      /\ y \in Seq(Nat) /\ Len(y) = Len(x) + Len(t) /\ DOMAIN y = 1 .. Len(y)
      /\ \A m \in 1 .. Len(x) : y[m] = x[m]
  OBVIOUS
<1> HIDE DEF y
<1>2. IsStrictPrefix(x, y)
  <2>1. SubSeq(x, 1, Len(x)) = SubSeq(y, 1, Len(x))
    BY <1>1
  <2> QED BY <1>1, <2>1 DEF IsStrictPrefix, IsPrefix
<1>3. ~IsStrictPrefix(y, x)
  BY <1>1 DEF IsStrictPrefix, IsPrefix
<1>4. ASSUME NEW m \in DOMAIN y \cap DOMAIN x, y[m] < x[m]
      PROVE  FALSE
  <2>1. m \in 1 .. Len(x) /\ x[m] \in Nat /\ y[m] = x[m]
    BY <1>1
  <2> QED BY <1>4, <2>1
<1>5. ~Precedes(y, x)
  BY <1>3, <1>4 DEF Precedes
<1> QED BY <1>2, <1>5 DEF Precedes, y

\* No sequence precedes itself.
LEMMA NoneBeforeItself ==
  ASSUME NEW x \in Seq(Nat)
  PROVE  ~Precedes(x, x)
<1>1. ASSUME NEW m \in DOMAIN x
      PROVE  ~(x[m] < x[m])
  <2>1. x[m] \in Nat
    OBVIOUS
  <2> QED BY <2>1
<1> QED BY <1>1 DEF Precedes, IsStrictPrefix

\* Where the second of two sequences is in both.
LEMMA ConcatAt ==
  ASSUME NEW x \in Seq(Nat), NEW p \in Seq(Nat), NEW m \in 1 .. Len(p)
  PROVE  (x \o p)[Len(x) + m] = p[m]
<1>1. /\ Len(x) \in Nat /\ Len(p) \in Nat /\ Len(x) + m \in 1 .. Len(x) + Len(p)
      /\ ~(Len(x) + m <= Len(x)) /\ (Len(x) + m) - Len(x) = m
  OBVIOUS
<1> QED BY <1>1

\* What sequences with a common beginning, p or q after it and anything after that are
\* to each other, p and q tell where they first differ.
LEMMA PiecesDecide ==
  ASSUME NEW x \in Seq(Nat), NEW p \in Seq(Nat), NEW q \in Seq(Nat), NEW u \in Seq(Nat), NEW v \in Seq(Nat),
         NEW n \in 1 .. Len(p), n <= Len(q), \A m \in 1 .. n - 1 : p[m] = q[m], p[n] < q[n]
  PROVE  /\ Precedes((x \o p) \o u, (x \o q) \o v)
         /\ ~Precedes((x \o q) \o v, (x \o p) \o u)
<1> DEFINE y == (x \o p) \o u
           z == (x \o q) \o v
           l == Len(x)
<1>1. /\ l \in Nat /\ Len(p) \in Nat /\ Len(q) \in Nat /\ Len(u) \in Nat /\ Len(v) \in Nat
      /\ x \o p \in Seq(Nat) /\ Len(x \o p) = l + Len(p)
      /\ x \o q \in Seq(Nat) /\ Len(x \o q) = l + Len(q)
  OBVIOUS
<1>2. /\ y \in Seq(Nat) /\ Len(y) = l + Len(p) + Len(u)
      /\ z \in Seq(Nat) /\ Len(z) = l + Len(q) + Len(v)
  BY <1>1
<1>3. /\ \A m \in 1 .. l : y[m] = x[m] /\ z[m] = x[m]
      /\ \A m \in 1 .. Len(p) : y[l + m] = p[m]
      /\ \A m \in 1 .. Len(q) : z[l + m] = q[m]
  <2>1. /\ \A m \in 1 .. l + Len(p) : y[m] = (x \o p)[m]
        /\ \A m \in 1 .. l + Len(q) : z[m] = (x \o q)[m]
    BY <1>1
  <2>2. /\ \A m \in 1 .. l : (x \o p)[m] = x[m]
        /\ \A m \in 1 .. l : (x \o q)[m] = x[m]
    BY <1>1
  <2>3. /\ \A m \in 1 .. Len(p) : (x \o p)[l + m] = p[m]
        /\ \A m \in 1 .. Len(q) : (x \o q)[l + m] = q[m]
    BY ConcatAt
  <2> HIDE DEF y, z
  <2>4. ASSUME NEW m \in 1 .. l
        PROVE  y[m] = x[m] /\ z[m] = x[m]
    <3>1. m \in 1 .. l + Len(p) /\ m \in 1 .. l + Len(q)
      BY <1>1
    <3> QED BY <2>1, <2>2, <3>1
  <2>5. ASSUME NEW m \in 1 .. Len(p)
        PROVE  y[l + m] = p[m]
    <3>1. l + m \in 1 .. l + Len(p)
      BY <1>1
    <3> QED BY <2>1, <2>3, <3>1
  <2>6. ASSUME NEW m \in 1 .. Len(q)
        PROVE  z[l + m] = q[m]
    <3>1. l + m \in 1 .. l + Len(q)
      BY <1>1
    <3> QED BY <2>1, <2>3, <3>1
  <2> QED BY <2>4, <2>5, <2>6
<1> HIDE DEF y, z
<1>4. l + n \in 1 .. Len(y) /\ l + n <= Len(z) /\ y[l + n] < z[l + n]
  <2>1. n \in 1 .. Len(p) /\ n \in 1 .. Len(q)
    BY <1>1
  <2>2. y[l + n] = p[n] /\ z[l + n] = q[n]
    BY <1>3, <2>1
  <2>3. y[l + n] < z[l + n]
    BY <2>2
  <2>4. l + n \in 1 .. Len(y) /\ l + n <= Len(z)
    <3>1. l \in Nat /\ Len(p) \in Nat /\ Len(q) \in Nat /\ Len(u) \in Nat /\ Len(v) \in Nat
      BY <1>1
    <3>2. Len(y) = l + Len(p) + Len(u) /\ Len(z) = l + Len(q) + Len(v)
      BY <1>2
    <3>3. n \in Nat /\ 1 <= n /\ n <= Len(p) /\ n <= Len(q)
      BY <2>1
    <3> HIDE DEF l
    <3> QED BY <3>1, <3>2, <3>3
  <2> QED BY <2>3, <2>4
<1>5. ASSUME NEW m \in 1 .. (l + n) - 1
      PROVE  y[m] = z[m]
  <2>1. CASE m <= l
    BY <1>1, <1>3, <2>1
  <2>2. CASE m > l
    <3>1. m - l \in 1 .. n - 1 /\ m = l + (m - l)
      BY <1>1, <2>2
    <3>2. m - l \in 1 .. Len(p) /\ m - l \in 1 .. Len(q)
      BY <1>1, <3>1
    <3> QED BY <1>3, <3>1, <3>2
  <2> QED BY <1>1, <2>1, <2>2
<1>6. Precedes(y, z) /\ ~Precedes(z, y)
  BY <1>2, <1>4, <1>5, FirstDiffers
<1> QED BY <1>6 DEF y, z

-----------------------------------------------------------------------------
(* Runs of digits                                                          *)

\* The lowest and the highest of some numbers.
LEMMA LowestIs ==
  ASSUME NEW T, T \subseteq Nat, T # {}
  PROVE  Min(T) \in T /\ \A y \in T : Min(T) <= y
<1>1. \E x \in T : \A y \in T : x <= y
  BY NatLeast
<1> QED BY <1>1, Zenon DEF Min

LEMMA HighestIs ==
  ASSUME NEW n \in Nat, NEW T, T \subseteq 0 .. n, T # {}
  PROVE  Max(T) \in T /\ \A y \in T : y <= Max(T)
<1> DEFINE U == {n - y : y \in T}
<1>1. U \subseteq Nat /\ U # {}
  <2>1. \A y \in T : n - y \in Nat
    OBVIOUS
  <2>2. PICK y \in T : n - y \in U
    OBVIOUS
  <2> QED BY <2>1, <2>2
<1>2. PICK u \in U : \A v \in U : u <= v
  <2> HIDE DEF U
  <2> QED BY <1>1, NatLeast
<1>3. PICK x \in T : u = n - x
  OBVIOUS
<1>4. ASSUME NEW y \in T
      PROVE  x >= y
  <2>1. n - x <= n - y
    BY <1>2, <1>3
  <2> QED BY <2>1
<1>5. Max(T) \in T /\ \A y \in T : Max(T) >= y
  BY <1>4, Zenon DEF Max
<1> QED BY <1>5

\* How far the members of D go on without a gap from k.
LEMMA StretchIs ==
  ASSUME NEW l \in Nat, NEW k \in 0 .. l, NEW D,
         NEW e, e = Max({n \in k .. l : \A m \in k + 1 .. n : m \in D})
  PROVE  e \in k .. l /\ (\A m \in k + 1 .. e : m \in D) /\ (e < l => e + 1 \notin D)
<1> DEFINE T == {n \in k .. l : \A m \in k + 1 .. n : m \in D}
<1>1. T \subseteq 0 .. l /\ k \in T
  OBVIOUS
<1>2. e \in T /\ \A y \in T : y <= e
  <2> HIDE DEF T
  <2>1. Max(T) \in T /\ \A y \in T : y <= Max(T)
    BY <1>1, HighestIs
  <2> QED BY <2>1 DEF T
<1>3. ASSUME e < l, e + 1 \in D
      PROVE  FALSE
  <2>1. e + 1 \in k .. l /\ \A m \in k + 1 .. e + 1 : m \in k + 1 .. e \/ m = e + 1
    BY <1>2, <1>3
  <2>2. e + 1 \in T
    BY <1>2, <1>3, <2>1
  <2>3. e + 1 <= e
    BY <1>2, <2>2
  <2> QED BY <1>2, <2>3
<1> QED BY <1>2, <1>3

\* Where a run of digits and its leading zeros end.
LEMMA RunEndIs ==
  ASSUME NEW s \in Seq(Nat), NEW k \in 0 .. Len(s)
  PROVE  /\ RunEnd(s, k) \in k .. Len(s) /\ \A m \in k + 1 .. RunEnd(s, k) : isDigit(s[m])
         /\ RunEnd(s, k) < Len(s) => ~isDigit(s[RunEnd(s, k) + 1])
<1> DEFINE D == {m \in 1 .. Len(s) : isDigit(s[m])}
           T == {n \in k .. Len(s) : \A m \in k + 1 .. n : m \in D}
<1>1. Len(s) \in Nat
  OBVIOUS
<1>2. {n \in k .. Len(s) : \A m \in k + 1 .. n : isDigit(s[m])} = T
  BY <1>1
<1>3. RunEnd(s, k) = Max(T)
  BY <1>2 DEF RunEnd
<1>4. /\ RunEnd(s, k) \in k .. Len(s) /\ (\A m \in k + 1 .. RunEnd(s, k) : m \in D)
      /\ RunEnd(s, k) < Len(s) => RunEnd(s, k) + 1 \notin D
  <2> HIDE DEF D
  <2> QED BY <1>1, <1>3, StretchIs
<1> QED BY <1>1, <1>4

LEMMA ZerosEndIs ==
  ASSUME NEW s \in Seq(Nat), NEW k \in 0 .. Len(s)
  PROVE  /\ ZerosEnd(s, k) \in k .. Len(s) /\ \A m \in k + 1 .. ZerosEnd(s, k) : s[m] = 48
         /\ ZerosEnd(s, k) < Len(s) => s[ZerosEnd(s, k) + 1] # 48
<1> DEFINE D == {m \in 1 .. Len(s) : s[m] = 48}
           T == {n \in k .. Len(s) : \A m \in k + 1 .. n : m \in D}
<1>1. Len(s) \in Nat
  OBVIOUS
<1>2. {n \in k .. Len(s) : \A m \in k + 1 .. n : s[m] = 48} = T
  BY <1>1
<1>3. ZerosEnd(s, k) = Max(T)
  BY <1>2 DEF ZerosEnd
<1>4. /\ ZerosEnd(s, k) \in k .. Len(s) /\ (\A m \in k + 1 .. ZerosEnd(s, k) : m \in D)
      /\ ZerosEnd(s, k) < Len(s) => ZerosEnd(s, k) + 1 \notin D
  <2> HIDE DEF D
  <2> QED BY <1>1, <1>3, StretchIs
<1> QED BY <1>1, <1>4

\* The zeros a key counts are those compareDigitRuns strips.
ZerosOf(s, k) == SelectInSeq(Append(SubSeq(s, k + 1, Len(s)), 0), LAMBDA c : c # 48) - 1

LEMMA ZerosAreStripped ==
  ASSUME NEW s \in Seq(Nat), NEW k \in 0 .. Len(s) - 1
  PROVE  ZerosOf(s, k) = ZerosEnd(s, k) - k /\ k + ZerosOf(s, k) = ZerosEnd(s, k)
<1> DEFINE w == Append(SubSeq(s, k + 1, Len(s)), 0)
           l == Len(s) - k
           I == {n \in 1 .. Len(w) : w[n] # 48}
<1>1. /\ Len(s) \in Nat /\ k \in Nat /\ l \in Nat /\ Len(w) = l + 1 /\ w[l + 1] = 0
      /\ \A n \in 1 .. l : w[n] = s[k + n]
  <2>1. /\ Len(s) \in Nat /\ k \in Nat /\ l \in Nat
        /\ SubSeq(s, k + 1, Len(s)) \in Seq(Nat) /\ Len(SubSeq(s, k + 1, Len(s))) = l
    OBVIOUS
  <2>2. ASSUME NEW n \in 1 .. l
        PROVE  SubSeq(s, k + 1, Len(s))[n] = s[k + n]
    <3>1. n \in 1 .. (Len(s) - (k + 1)) + 1 /\ ((k + 1) + n) - 1 = k + n
      BY <2>1
    <3>2. SubSeq(s, k + 1, Len(s))[n] = s[((k + 1) + n) - 1]
      BY <2>1, <3>1
    <3> QED BY <3>1, <3>2
  <2> QED BY <2>1, <2>2
<1> HIDE DEF w
<1>2. ZerosOf(s, k) = Min(I) - 1
  <2>1. l + 1 \in I
    BY <1>1
  <2> QED BY <2>1 DEF ZerosOf, SelectInSeq, w
<1>3. Min(I) \in I /\ \A n \in I : Min(I) <= n
  <2>1. I \subseteq Nat /\ l + 1 \in I
    BY <1>1
  <2> HIDE DEF I
  <2> QED BY <2>1, LowestIs
<1>4. PICK z : z = ZerosEnd(s, k)
  OBVIOUS
<1>5. /\ z \in k .. Len(s) /\ \A m \in k + 1 .. z : s[m] = 48
      /\ z < Len(s) => s[z + 1] # 48
  <2>1. k \in 0 .. Len(s)
    BY <1>1
  <2> QED BY <1>4, <2>1, ZerosEndIs
<1>6. (z - k) + 1 \in I
  <2>1. (z - k) + 1 \in 1 .. l + 1
    BY <1>1, <1>5
  <2>2. CASE z = Len(s)
    BY <1>1, <2>1, <2>2
  <2>3. CASE z < Len(s)
    <3>1. (z - k) + 1 \in 1 .. l /\ k + ((z - k) + 1) = z + 1
      BY <1>1, <1>5, <2>3
    <3> QED BY <1>1, <1>5, <2>1, <2>3, <3>1
  <2> QED BY <1>1, <1>5, <2>2, <2>3
<1>7. ASSUME NEW n \in I, n < (z - k) + 1
      PROVE  FALSE
  <2>1. n \in 1 .. l /\ k + n \in k + 1 .. z
    BY <1>1, <1>5, <1>7
  <2>2. w[n] = 48
    BY <1>1, <1>5, <2>1
  <2> QED BY <1>7, <2>2
<1>8. Min(I) \in Nat
  BY <1>1, <1>3
<1> HIDE DEF I
<1>9. PICK m \in Nat : m = Min(I)
  BY <1>8
<1>10. Min(I) = (z - k) + 1
  <2>1. m <= (z - k) + 1 /\ ~(m < (z - k) + 1)
    BY <1>3, <1>6, <1>7, <1>9
  <2>2. (z - k) + 1 \in Int
    BY <1>1, <1>5
  <2> QED BY <1>9, <2>1, <2>2
<1>11. z \in Nat
  BY <1>1, <1>5
<1> QED BY <1>1, <1>2, <1>4, <1>10, <1>11

-----------------------------------------------------------------------------
(* Keys                                                                    *)

\* What a key has for a run, and whether a run is not cut in two after position k.
RunPiece(s, k)  == (<<48, Len(Stripped(s, k))>> \o Stripped(s, k)) \o <<ZerosEnd(s, k) - k>>
Between(s, k) == k > 0 /\ k < Len(s) /\ isDigit(s[k]) => ~isDigit(s[k + 1])

\* A run of digits s with y zeros before it, laid out as in a key.
LaysOut(p, s, y) ==
  /\ Len(p) = Len(s) + 3 /\ p[1] = 48 /\ p[2] = Len(s) /\ p[Len(s) + 3] = y
  /\ \A m \in 1 .. Len(s) : p[m + 2] = s[m]

\* The digits of a run without its zeros.
LEMMA StrippedIs ==
  ASSUME NEW s \in Seq(Nat), NEW k \in 0 .. Len(s) - 1
  PROVE  /\ Stripped(s, k) \in Seq(Nat) /\ ZerosEnd(s, k) - k \in Nat
         /\ RunPiece(s, k) \in Seq(Nat)
         /\ LaysOut(RunPiece(s, k), Stripped(s, k), ZerosEnd(s, k) - k)
<1>1. k \in 0 .. Len(s) /\ Len(s) \in Nat /\ k \in Nat
  OBVIOUS
<1>2. ZerosEnd(s, k) \in k .. Len(s) /\ RunEnd(s, k) \in k .. Len(s)
  BY <1>1, RunEndIs, ZerosEndIs
<1>3. Stripped(s, k) \in Seq(Nat) /\ ZerosEnd(s, k) - k \in Nat
  BY <1>1, <1>2 DEF Stripped
<1>4. PICK t \in Seq(Nat) : t = Stripped(s, k)
  BY <1>3
<1>5. PICK z \in Nat : z = ZerosEnd(s, k) - k
  BY <1>3
<1> DEFINE l == Len(t)
           h == <<48, l>> \o t
           p == h \o <<z>>
<1>6. l \in Nat /\ <<48, l>> \in Seq(Nat) /\ <<z>> \in Seq(Nat) /\ Len(<<48, l>>) = 2 /\ Len(<<z>>) = 1
  OBVIOUS
<1>7. h \in Seq(Nat) /\ Len(h) = l + 2 /\ h[1] = 48 /\ h[2] = l
  <2>1. h \in Seq(Nat) /\ Len(h) = 2 + l /\ \A m \in 1 .. 2 : h[m] = <<48, l>>[m]
    BY <1>6
  <2> HIDE DEF h
  <2> QED BY <1>6, <2>1
<1>8. \A m \in 1 .. l : h[m + 2] = t[m]
  <2>1. \A m \in 1 .. l : h[2 + m] = t[m]
    BY <1>6, ConcatAt
  <2>2. \A m \in 1 .. l : m + 2 = 2 + m
    BY <1>6
  <2> HIDE DEF h
  <2> QED BY <2>1, <2>2
<1> HIDE DEF h
<1>9. p \in Seq(Nat) /\ Len(p) = l + 3 /\ \A m \in 1 .. l + 2 : p[m] = h[m]
  BY <1>6, <1>7
<1>10. p[l + 3] = z
  <2>1. p[(l + 2) + 1] = <<z>>[1]
    BY <1>6, <1>7, ConcatAt
  <2>2. (l + 2) + 1 = l + 3
    BY <1>6
  <2> HIDE DEF p, l
  <2> QED BY <2>1, <2>2
<1> HIDE DEF p
<1>11. p[1] = 48 /\ p[2] = l
  BY <1>6, <1>7, <1>9
<1>12. \A m \in 1 .. l : p[m + 2] = t[m]
  <2> TAKE m \in 1 .. l
  <2>1. m + 2 \in 1 .. l + 2
    BY <1>6
  <2> QED BY <1>8, <1>9, <2>1
<1>13. p = RunPiece(s, k)
  BY <1>4, <1>5 DEF p, h, RunPiece
<1> QED BY <1>3, <1>4, <1>5, <1>9, <1>10, <1>11, <1>12, <1>13 DEF LaysOut

\* The pieces of a key.
LEMMA PieceIs ==
  ASSUME NEW s \in Seq(Nat), NEW k \in 0 .. Len(s) - 1
  PROVE  /\ ~isDigit(s[k + 1]) => Piece(s, k) = <<lowerByte(s[k + 1])>>
         /\ isDigit(s[k + 1]) /\ k > 0 /\ isDigit(s[k]) => Piece(s, k) = <<>>
         /\ isDigit(s[k + 1]) /\ ~(k > 0 /\ isDigit(s[k])) => Piece(s, k) = RunPiece(s, k)
         /\ Piece(s, k) \in Seq(Nat)
<1>1. s[k + 1] \in Nat /\ lowerByte(s[k + 1]) \in Nat
  <2>1. k + 1 \in 1 .. Len(s)
    OBVIOUS
  <2>2. s[k + 1] \in Nat
    BY <2>1
  <2> QED BY <2>2 DEF lowerByte
<1>2. ASSUME isDigit(s[k + 1]), ~(k > 0 /\ isDigit(s[k]))
      PROVE  Piece(s, k) = RunPiece(s, k)
  <2> DEFINE n == ZerosOf(s, k)
             run == SubSeq(s, k + n + 1, RunEnd(s, k))
  <2>1. Piece(s, k) = (<<48, Len(run)>> \o run) \o <<n>>
    BY <1>2 DEF Piece, ZerosOf
  <2>2. k + n = ZerosEnd(s, k)
    BY ZerosAreStripped
  <2>3. run = Stripped(s, k)
    BY <2>2 DEF Stripped
  <2>4. n = ZerosEnd(s, k) - k
    BY ZerosAreStripped
  <2> HIDE DEF n, run
  <2> QED BY <2>1, <2>3, <2>4 DEF RunPiece
<1>3. RunPiece(s, k) \in Seq(Nat)
  BY StrippedIs
<1>4. ~isDigit(s[k + 1]) => Piece(s, k) = <<lowerByte(s[k + 1])>>
  BY DEF Piece
<1>5. isDigit(s[k + 1]) /\ k > 0 /\ isDigit(s[k]) => Piece(s, k) = <<>>
  BY DEF Piece
<1>6. Piece(s, k) \in Seq(Nat)
  <2>1. CASE ~isDigit(s[k + 1])
    <3>1. \A c \in Nat : <<c>> \in Seq(Nat)
      OBVIOUS
    <3> QED BY <1>1, <1>4, <2>1, <3>1
  <2>2. CASE isDigit(s[k + 1]) /\ k > 0 /\ isDigit(s[k])
    <3>1. <<>> \in Seq(Nat)
      OBVIOUS
    <3> QED BY <1>5, <2>2, <3>1
  <2>3. CASE isDigit(s[k + 1]) /\ ~(k > 0 /\ isDigit(s[k]))
    BY <1>2, <1>3, <2>3
  <2> QED BY <2>1, <2>2, <2>3
<1> QED BY <1>2, <1>4, <1>5, <1>6

\* The function FlattenSeq defines by recursion, over the first l of some sequences.
Flattens(it, g, l) == it = [n \in 1 .. l |-> IF n = 1 THEN g[n] ELSE it[n - 1] \o g[n]]

LEMMA FlatteningExists ==
  ASSUME NEW g, NEW l \in Nat
  PROVE  \E it : Flattens(it, g, l)
<1> DEFINE bad == {n \in Nat : ~\E it : Flattens(it, g, n)}
<1>1. bad = {}
  <2> SUFFICES ASSUME bad # {}
               PROVE  FALSE
    OBVIOUS
  <2>1. PICK n \in bad : \A m \in bad : n <= m
    <3>1. bad \subseteq Nat
      OBVIOUS
    <3> HIDE DEF bad
    <3> QED BY <3>1, NatLeast
  <2>2. n \in Nat /\ ~\E it : Flattens(it, g, n)
    OBVIOUS
  <2>3. CASE n = 0
    <3>1. Flattens([m \in 1 .. 0 |-> 0], g, 0)
      <4>1. \A m \in 1 .. 0 : FALSE
        OBVIOUS
      <4> QED BY <4>1, Zenon DEF Flattens
    <3> QED BY <2>2, <2>3, <3>1
  <2>4. CASE n # 0
    <3>1. n - 1 \in Nat /\ n - 1 \notin bad
      BY <2>1, <2>2, <2>4
    <3>2. PICK it : Flattens(it, g, n - 1)
      BY <3>1
    <3> DEFINE one(m) == IF m = 1 THEN g[m] ELSE it[m - 1] \o g[m]
               new == [m \in 1 .. n |-> one(m)]
    <3>3. \A m \in 1 .. n - 1 : new[m] = it[m]
      <4> TAKE m \in 1 .. n - 1
      <4>1. m \in 1 .. n
        BY <2>2
      <4>2. it[m] = one(m)
        BY <3>2 DEF Flattens
      <4> QED BY <4>1, <4>2
    <3>4. \A m \in 1 .. n : new[m] = IF m = 1 THEN g[m] ELSE new[m - 1] \o g[m]
      <4> TAKE m \in 1 .. n
      <4>1. new[m] = one(m)
        OBVIOUS
      <4>2. CASE m # 1
        <5>1. m - 1 \in 1 .. n - 1
          BY <2>2, <4>2
        <5>2. new[m - 1] = it[m - 1]
          BY <3>3, <5>1
        <5> HIDE DEF new
        <5> QED BY <4>1, <4>2, <5>2
      <4> HIDE DEF new
      <4> QED BY <4>1, <4>2
    <3>5. DOMAIN new = 1 .. n /\ new = [m \in 1 .. n |-> new[m]]
      OBVIOUS
    <3> HIDE DEF new
    <3>6. Flattens(new, g, n)
      BY <3>4, <3>5, Zenon DEF Flattens
    <3> QED BY <2>2, <3>6
  <2> QED BY <2>3, <2>4
<1> QED BY <1>1

LEMMA FlatteningIs ==
  ASSUME NEW g \in Seq(Seq(Nat)), NEW it, Flattens(it, g, Len(g))
  PROVE  it \in [1 .. Len(g) -> Seq(Nat)]
<1> DEFINE bad == {n \in Nat : n \in 1 .. Len(g) /\ it[n] \notin Seq(Nat)}
<1>1. Len(g) \in Nat /\ \A n \in 1 .. Len(g) : g[n] \in Seq(Nat)
  OBVIOUS
<1>2. /\ it = [n \in 1 .. Len(g) |-> it[n]]
      /\ \A n \in 1 .. Len(g) : it[n] = IF n = 1 THEN g[n] ELSE it[n - 1] \o g[n]
  BY Zenon DEF Flattens
<1>3. bad = {}
  <2> SUFFICES ASSUME bad # {}
               PROVE  FALSE
    OBVIOUS
  <2>1. PICK n \in bad : \A m \in bad : n <= m
    <3>1. bad \subseteq Nat
      OBVIOUS
    <3> HIDE DEF bad
    <3> QED BY <3>1, NatLeast
  <2>2. n \in 1 .. Len(g) /\ it[n] \notin Seq(Nat)
    OBVIOUS
  <2>3. CASE n = 1
    BY <1>1, <1>2, <2>2, <2>3
  <2>4. CASE n # 1
    <3>1. n - 1 \in 1 .. Len(g) /\ n - 1 \in Nat /\ ~(n <= n - 1)
      BY <1>1, <2>2, <2>4
    <3>2. n - 1 \notin bad
      BY <2>1, <3>1
    <3>3. it[n - 1] \in Seq(Nat)
      BY <3>1, <3>2
    <3>4. it[n] = it[n - 1] \o g[n] /\ g[n] \in Seq(Nat)
      BY <1>1, <1>2, <2>2, <2>4
    <3>5. \A x, y \in Seq(Nat) : x \o y \in Seq(Nat)
      OBVIOUS
    <3> QED BY <2>2, <3>3, <3>4, <3>5
  <2> QED BY <2>3, <2>4
<1>4. \A n \in 1 .. Len(g) : it[n] \in Seq(Nat)
  <2> TAKE n \in 1 .. Len(g)
  <2>1. n \in Nat
    BY <1>1
  <2>2. n \notin bad
    BY <1>3
  <2> QED BY <2>1, <2>2
<1> QED BY <1>2, <1>4

\* What a key begins with: the pieces of the first bytes.
Builds(f, s) ==
  /\ f \in [0 .. Len(s) -> Seq(Nat)] /\ f[0] = <<>> /\ Key(s) = f[Len(s)]
  /\ \A k \in 0 .. Len(s) - 1 : f[k + 1] = f[k] \o Piece(s, k)
KeyOf(s, k) == (CHOOSE f : Builds(f, s))[k]

LEMMA KeyIsBuilt ==
  ASSUME NEW s \in Seq(Nat)
  PROVE  \E f : Builds(f, s)
<1> DEFINE l == Len(s)
           g == [n \in DOMAIN s |-> Piece(s, n - 1)]
<1>1. l \in Nat /\ DOMAIN s = 1 .. l
  OBVIOUS
<1>2. \A n \in 1 .. l : g[n] = Piece(s, n - 1) /\ g[n] \in Seq(Nat)
  <2> TAKE n \in 1 .. l
  <2>1. n - 1 \in 0 .. l - 1
    BY <1>1
  <2>2. Piece(s, n - 1) \in Seq(Nat)
    BY <2>1, PieceIs
  <2> QED BY <1>1, <2>2
<1>3. g \in [1 .. l -> Seq(Nat)] /\ g = [n \in 1 .. l |-> g[n]]
  BY <1>1, <1>2
<1>4. Key(s) = FlattenSeq(g)
  BY DEF Key
<1> HIDE DEF g
<1>5. g \in Seq(Seq(Nat)) /\ Len(g) = l
  BY <1>1, <1>3
<1> DEFINE it == CHOOSE flatten : Flattens(flatten, g, l)
<1>6. Flattens(it, g, l)
  BY <1>1, FlatteningExists
<1>7. Key(s) = IF l = 0 THEN g ELSE it[l]
  BY <1>4, <1>5, Zenon DEF FlattenSeq, Flattens
<1> HIDE DEF it
<1>8. it \in [1 .. l -> Seq(Nat)]
  BY <1>5, <1>6, FlatteningIs
<1>9. \A n \in 1 .. l : it[n] = IF n = 1 THEN g[n] ELSE it[n - 1] \o g[n]
  BY <1>6, Zenon DEF Flattens
<1> DEFINE f == [n \in 0 .. l |-> IF n = 0 THEN <<>> ELSE it[n]]
<1>10. f \in [0 .. l -> Seq(Nat)] /\ f[0] = <<>> /\ \A n \in 1 .. l : f[n] = it[n]
  <2>1. ASSUME NEW n \in 0 .. l, n # 0
        PROVE  n \in 1 .. l
    BY <1>1, <2>1
  <2>2. <<>> \in Seq(Nat)
    OBVIOUS
  <2>3. ASSUME NEW n \in 0 .. l
        PROVE  (IF n = 0 THEN <<>> ELSE it[n]) \in Seq(Nat)
    BY <1>8, <2>1, <2>2
  <2>4. 0 \in 0 .. l /\ \A n \in 1 .. l : n \in 0 .. l /\ n # 0
    BY <1>1
  <2> QED BY <2>3, <2>4
<1> HIDE DEF f
<1>11. Key(s) = f[l]
  <2>1. CASE l = 0
    <3>1. g = <<>>
      BY <1>5, <2>1
    <3> QED BY <1>7, <1>10, <2>1, <3>1
  <2>2. CASE l # 0
    <3>1. l \in 1 .. l
      BY <1>1, <2>2
    <3> QED BY <1>7, <1>10, <2>2, <3>1
  <2> QED BY <2>1, <2>2
<1>12. ASSUME NEW k \in 0 .. l - 1
       PROVE  f[k + 1] = f[k] \o Piece(s, k)
  <2>1. k + 1 \in 1 .. l /\ (k + 1) - 1 = k
    BY <1>1
  <2>2. f[k + 1] = it[k + 1] /\ g[k + 1] = Piece(s, k) /\ Piece(s, k) \in Seq(Nat)
    <3>1. g[k + 1] = Piece(s, (k + 1) - 1)
      BY <1>2, <2>1
    <3> QED BY <1>2, <1>10, <2>1, <3>1
  <2>3. it[k + 1] = IF k + 1 = 1 THEN g[k + 1] ELSE it[(k + 1) - 1] \o g[k + 1]
    BY <1>9, <2>1
  <2>4. CASE k = 0
    <3>1. \A x \in Seq(Nat) : <<>> \o x = x
      OBVIOUS
    <3> QED BY <1>10, <2>2, <2>3, <2>4, <3>1
  <2>5. CASE k # 0
    <3>1. k \in 1 .. l /\ k + 1 # 1
      BY <1>1, <2>5
    <3> QED BY <1>10, <2>1, <2>2, <2>3, <3>1
  <2> QED BY <2>4, <2>5
<1>13. Builds(f, s)
  BY <1>10, <1>11, <1>12 DEF Builds
<1> QED BY <1>13

LEMMA KeyOfIs ==
  ASSUME NEW s \in Seq(Nat)
  PROVE  /\ \A k \in 0 .. Len(s) : KeyOf(s, k) \in Seq(Nat)
         /\ KeyOf(s, 0) = <<>> /\ Key(s) = KeyOf(s, Len(s))
         /\ \A k \in 0 .. Len(s) - 1 : KeyOf(s, k + 1) = KeyOf(s, k) \o Piece(s, k)
<1>1. PICK f : f = CHOOSE g : Builds(g, s)
  OBVIOUS
<1>2. Builds(f, s)
  BY <1>1, KeyIsBuilt
<1>3. \A k : KeyOf(s, k) = f[k]
  BY <1>1 DEF KeyOf
<1> QED BY <1>2, <1>3 DEF Builds

\* A key goes on from each of its beginnings.
LEMMA KeyGoesOn ==
  ASSUME NEW s \in Seq(Nat), NEW k \in 0 .. Len(s)
  PROVE  \E t \in Seq(Nat) : Key(s) = KeyOf(s, k) \o t
<1> DEFINE l == Len(s)
           bad == {n \in Nat : n <= l /\ ~\E t \in Seq(Nat) : Key(s) = KeyOf(s, l - n) \o t}
<1>1. l \in Nat
  OBVIOUS
<1>2. bad = {}
  <2> SUFFICES ASSUME bad # {}
               PROVE  FALSE
    OBVIOUS
  <2>1. PICK n \in bad : \A m \in bad : n <= m
    <3>1. bad \subseteq Nat
      OBVIOUS
    <3> HIDE DEF bad
    <3> QED BY <3>1, NatLeast
  <2>2. n \in Nat /\ n <= l /\ ~\E t \in Seq(Nat) : Key(s) = KeyOf(s, l - n) \o t
    OBVIOUS
  <2>3. CASE n = 0
    <3>1. l - n = l /\ KeyOf(s, l) \in Seq(Nat) /\ Key(s) = KeyOf(s, l)
      BY <1>1, <2>3, KeyOfIs
    <3>2. \A x \in Seq(Nat) : x = x \o <<>> /\ <<>> \in Seq(Nat)
      OBVIOUS
    <3> QED BY <2>2, <3>1, <3>2
  <2>4. CASE n # 0
    <3>1. /\ n - 1 \in Nat /\ n - 1 <= l /\ ~(n <= n - 1) /\ l - n \in 0 .. l - 1
          /\ l - (n - 1) = (l - n) + 1
      BY <1>1, <2>2, <2>4
    <3>2. n - 1 \notin bad
      BY <2>1, <3>1
    <3>3. PICK t \in Seq(Nat) : Key(s) = KeyOf(s, (l - n) + 1) \o t
      BY <3>1, <3>2
    <3>4. KeyOf(s, (l - n) + 1) = KeyOf(s, l - n) \o Piece(s, l - n)
      BY <3>1, KeyOfIs
    <3>5. KeyOf(s, l - n) \in Seq(Nat) /\ Piece(s, l - n) \in Seq(Nat)
      <4>1. l - n \in 0 .. l
        BY <1>1, <3>1
      <4> QED BY <3>1, <4>1, KeyOfIs, PieceIs
    <3>6. PICK x \in Seq(Nat), y \in Seq(Nat) : x = KeyOf(s, l - n) /\ y = Piece(s, l - n)
      BY <3>5
    <3>7. Key(s) = (x \o y) \o t
      BY <3>3, <3>4, <3>6
    <3>8. (x \o y) \o t = x \o (y \o t) /\ y \o t \in Seq(Nat)
      OBVIOUS
    <3> QED BY <2>2, <3>6, <3>7, <3>8
  <2> QED BY <2>3, <2>4
<1>3. l - k \in Nat /\ l - k <= l /\ l - (l - k) = k
  BY <1>1
<1>4. l - k \notin bad
  BY <1>2
<1> QED BY <1>3, <1>4

\* A run is all of it in one piece.
LEMMA RunIsOnePiece ==
  ASSUME NEW s \in Seq(Nat), NEW k \in 0 .. Len(s) - 1, isDigit(s[k + 1]), Between(s, k)
  PROVE  /\ RunEnd(s, k) \in k + 1 .. Len(s) /\ Between(s, RunEnd(s, k))
         /\ KeyOf(s, RunEnd(s, k)) = KeyOf(s, k) \o RunPiece(s, k)
<1> DEFINE l == Len(s)
           e == RunEnd(s, k)
<1>1. l \in Nat /\ k \in Nat /\ k \in 0 .. l /\ k < l
  OBVIOUS
<1>2. /\ e \in k .. l /\ \A m \in k + 1 .. e : isDigit(s[m])
      /\ e < l => ~isDigit(s[e + 1])
  BY <1>1, RunEndIs
<1> HIDE DEF e
<1>3. e \in k + 1 .. l
  <2>1. e # k
    BY <1>1, <1>2
  <2> QED BY <1>1, <1>2, <2>1
<1>4. Between(s, e)
  BY <1>1, <1>2 DEF Between
<1>5. KeyOf(s, k + 1) = KeyOf(s, k) \o RunPiece(s, k)
  <2>1. ~(k > 0 /\ isDigit(s[k]))
    BY <1>1 DEF Between
  <2>2. Piece(s, k) = RunPiece(s, k)
    BY <2>1, PieceIs
  <2> QED BY <2>2, KeyOfIs
<1> DEFINE bad == {m \in Nat : m \in k + 1 .. e /\ KeyOf(s, m) # KeyOf(s, k + 1)}
<1>6. bad = {}
  <2> SUFFICES ASSUME bad # {}
               PROVE  FALSE
    OBVIOUS
  <2>1. PICK n \in bad : \A m \in bad : n <= m
    <3>1. bad \subseteq Nat
      OBVIOUS
    <3> HIDE DEF bad
    <3> QED BY <3>1, NatLeast
  <2>2. n \in k + 1 .. e /\ KeyOf(s, n) # KeyOf(s, k + 1) /\ n # k + 1
    OBVIOUS
  <2>3. /\ n - 1 \in Nat /\ n - 1 \in k + 1 .. e /\ ~(n <= n - 1)
        /\ n - 1 \in 0 .. l - 1 /\ n - 1 \in 0 .. l /\ (n - 1) + 1 = n /\ n - 1 > 0
    BY <1>1, <1>3, <2>2
  <2>4. n - 1 \notin bad
    BY <2>1, <2>3
  <2>5. KeyOf(s, n - 1) = KeyOf(s, k + 1)
    BY <2>3, <2>4
  <2>6. isDigit(s[n - 1]) /\ isDigit(s[(n - 1) + 1])
    BY <1>2, <2>2, <2>3
  <2>7. Piece(s, n - 1) = <<>>
    BY <2>3, <2>6, PieceIs
  <2>8. KeyOf(s, (n - 1) + 1) = KeyOf(s, n - 1) \o <<>> /\ KeyOf(s, n - 1) \in Seq(Nat)
    BY <2>3, <2>7, KeyOfIs
  <2>9. \A x \in Seq(Nat) : x \o <<>> = x
    OBVIOUS
  <2> QED BY <2>2, <2>3, <2>5, <2>8, <2>9
<1>7. KeyOf(s, e) = KeyOf(s, k + 1)
  <2>1. e \in k + 1 .. e /\ e \in Nat /\ e \notin bad
    BY <1>1, <1>3, <1>6
  <2> QED BY <2>1
<1> QED BY <1>3, <1>4, <1>5, <1>7 DEF e

-----------------------------------------------------------------------------
(* naturalCompare                                                          *)

\* What OneOrder asks of the outcome of comparing s and t.
Agrees(c, s, t) ==
  c = IF Precedes(Key(s), Key(t)) THEN -1 ELSE IF Precedes(Key(t), Key(s)) THEN 1 ELSE 0

\* The place n where two sequences first differ.
DiffersAt(p, q, n) ==
  n \in 1 .. Len(p) /\ n <= Len(q) /\ (\A m \in 1 .. n - 1 : p[m] = q[m]) /\ p[n] # q[n]

\* Sequences that differ there differ in the same way, whatever comes before and after.
LEMMA PiecesOrder ==
  ASSUME NEW x \in Seq(Nat), NEW p \in Seq(Nat), NEW q \in Seq(Nat), NEW u \in Seq(Nat), NEW v \in Seq(Nat),
         NEW n, DiffersAt(p, q, n)
  PROVE  \/ /\ Sign(p[n], q[n]) = -1
            /\ Precedes((x \o p) \o u, (x \o q) \o v)
         \/ /\ Sign(p[n], q[n]) = 1
            /\ Precedes((x \o q) \o v, (x \o p) \o u) /\ ~Precedes((x \o p) \o u, (x \o q) \o v)
<1>1. /\ n \in 1 .. Len(p) /\ n <= Len(q) /\ p[n] # q[n]
      /\ \A m \in 1 .. n - 1 : p[m] = q[m] /\ q[m] = p[m]
  BY DEF DiffersAt
<1>2. n \in 1 .. Len(q) /\ n <= Len(p)
  BY <1>1, LenProperties
<1>3. p[n] \in Nat /\ q[n] \in Nat
  BY <1>1, <1>2, ElementOfSeq
<1>4. CASE p[n] < q[n]
  <2>1. Precedes((x \o p) \o u, (x \o q) \o v)
    BY <1>1, <1>4, PiecesDecide
  <2>2. Sign(p[n], q[n]) = -1
    BY <1>4 DEF Sign
  <2> QED BY <2>1, <2>2
<1>5. CASE q[n] < p[n]
  <2>1. Precedes((x \o q) \o v, (x \o p) \o u) /\ ~Precedes((x \o p) \o u, (x \o q) \o v)
    BY <1>1, <1>2, <1>5, PiecesDecide
  <2>2. Sign(p[n], q[n]) = 1
    BY <1>3, <1>5 DEF Sign
  <2> QED BY <2>1, <2>2
<1> QED BY <1>1, <1>3, <1>4, <1>5

\* Keys alike so far are to each other what their next pieces p and q are.
Continues(s, k, l, p) == KeyOf(s, l) = KeyOf(s, k) \o p

LEMMA KeysOrder ==
  ASSUME NEW s \in Seq(Nat), NEW t \in Seq(Nat),
         NEW k \in 0 .. Len(s), NEW k2 \in 0 .. Len(s), NEW l \in 0 .. Len(t), NEW l2 \in 0 .. Len(t),
         NEW p \in Seq(Nat), NEW q \in Seq(Nat), KeyOf(s, k) = KeyOf(t, l),
         Continues(s, k, k2, p), Continues(t, l, l2, q), NEW n, DiffersAt(p, q, n)
  PROVE  Agrees(Sign(p[n], q[n]), s, t) /\ Sign(p[n], q[n]) \in {-1, 1}
<1>1. PICK x \in Seq(Nat) : x = KeyOf(s, k)
  BY KeyOfIs
<1>2. PICK u \in Seq(Nat) : Key(s) = (x \o p) \o u
  BY <1>1, KeyGoesOn DEF Continues
<1>3. PICK v \in Seq(Nat) : Key(t) = (x \o q) \o v
  <2>1. KeyOf(t, l2) = x \o q
    BY <1>1 DEF Continues
  <2>2. \E v \in Seq(Nat) : Key(t) = KeyOf(t, l2) \o v
    BY KeyGoesOn
  <2> QED BY <2>1, <2>2
<1>4. \/ Sign(p[n], q[n]) = -1 /\ Precedes(Key(s), Key(t))
      \/ Sign(p[n], q[n]) = 1 /\ Precedes(Key(t), Key(s)) /\ ~Precedes(Key(s), Key(t))
  BY <1>2, <1>3, PiecesOrder
<1> QED BY <1>4 DEF Agrees

\* What a key has for the byte or the run that comes next.
LEMMA NextPiece ==
  ASSUME NEW s \in Seq(Nat), NEW k \in 0 .. Len(s) - 1, Between(s, k)
  PROVE  /\ Piece(s, k) \in Seq(Nat) /\ 1 \in 1 .. Len(Piece(s, k))
         /\ Piece(s, k)[1] = IF isDigit(s[k + 1]) THEN 48 ELSE lowerByte(s[k + 1])
         /\ Continues(s, k, k + 1, Piece(s, k))
<1>1. k \in Nat /\ k < Len(s)
  OBVIOUS
<1>2. Continues(s, k, k + 1, Piece(s, k))
  BY KeyOfIs DEF Continues
<1>3. CASE isDigit(s[k + 1])
  <2>1. Piece(s, k) = RunPiece(s, k)
    BY <1>1, <1>3, PieceIs DEF Between
  <2>2. PICK t \in Seq(Nat), p \in Seq(Nat) : p = RunPiece(s, k) /\ LaysOut(p, t, ZerosEnd(s, k) - k)
    BY StrippedIs
  <2>3. Len(t) \in Nat /\ Len(p) = Len(t) + 3 /\ p[1] = 48
    BY <2>2, LenProperties DEF LaysOut
  <2>4. 1 \in 1 .. Len(p)
    BY <2>3
  <2> QED BY <1>2, <1>3, <2>1, <2>2, <2>3, <2>4
<1>4. CASE ~isDigit(s[k + 1])
  <2>1. Piece(s, k) = <<lowerByte(s[k + 1])>> /\ Piece(s, k) \in Seq(Nat)
    BY <1>4, PieceIs
  <2>2. Len(Piece(s, k)) = 1 /\ Piece(s, k)[1] = lowerByte(s[k + 1])
    BY <2>1
  <2> QED BY <1>2, <1>4, <2>1, <2>2
<1> QED BY <1>3, <1>4

LEMMA Associates == \A x, y, z \in Seq(Nat) : (x \o y) \o z = x \o (y \o z)
OBVIOUS

\* A key does not end before its name.
LEMMA KeyHasMore ==
  ASSUME NEW s \in Seq(Nat), NEW k \in 0 .. Len(s) - 1, Between(s, k)
  PROVE  \E t \in Seq(Nat) : t # <<>> /\ Key(s) = KeyOf(s, k) \o t
<1>1. PICK p \in Seq(Nat) : p = Piece(s, k) /\ 1 \in 1 .. Len(p) /\ KeyOf(s, k + 1) = KeyOf(s, k) \o p
  BY NextPiece DEF Continues
<1>2. k \in 0 .. Len(s) /\ k + 1 \in 0 .. Len(s)
  OBVIOUS
<1>3. PICK u \in Seq(Nat) : Key(s) = KeyOf(s, k + 1) \o u
  BY <1>2, KeyGoesOn
<1>4. PICK x \in Seq(Nat) : x = KeyOf(s, k)
  BY <1>2, KeyOfIs
<1>5. Key(s) = (x \o p) \o u
  BY <1>1, <1>3, <1>4
<1>6. (x \o p) \o u = x \o (p \o u) /\ p \o u \in Seq(Nat)
  <2>1. (x \o p) \o u = x \o (p \o u)
    BY Associates, Zenon
  <2>2. p \o u \in Seq(Nat)
    BY ConcatProperties, Zenon
  <2> QED BY <2>1, <2>2
<1>7. p \o u # <<>>
  <2>1. p # <<>>
    BY <1>1, EmptySeq
  <2> QED BY <2>1, ConcatEqualIffEmpty
<1> QED BY <1>4, <1>5, <1>6, <1>7

\* Where what keys have for two runs differs: by length, by digits or by zeros.
LEMMA LayoutsDiffer ==
  ASSUME NEW s \in Seq(Nat), NEW t \in Seq(Nat), NEW y, NEW z, NEW p \in Seq(Nat), NEW q \in Seq(Nat),
         LaysOut(p, s, y), LaysOut(q, t, z)
  PROVE  /\ Len(s) # Len(t) => DiffersAt(p, q, 2)
         /\ \A n : Len(s) = Len(t) /\ DiffersAt(s, t, n) => DiffersAt(p, q, n + 2)
         /\ s = t /\ y # z => DiffersAt(p, q, Len(s) + 3)
<1>1. Len(s) \in Nat /\ Len(t) \in Nat
  BY LenProperties
<1>2. /\ Len(p) = Len(s) + 3 /\ p[1] = 48 /\ p[2] = Len(s) /\ p[Len(s) + 3] = y
      /\ Len(q) = Len(t) + 3 /\ q[1] = 48 /\ q[2] = Len(t) /\ q[Len(t) + 3] = z
  BY DEF LaysOut
<1>3. ASSUME NEW m \in 1 .. Len(s), Len(s) = Len(t)
      PROVE  p[m + 2] = s[m] /\ q[m + 2] = t[m]
  BY <1>3 DEF LaysOut
<1>4. ASSUME NEW m, m \in 1 .. 2
      PROVE  m = 1 \/ m = 2
  BY <1>4
<1>5. ASSUME Len(s) # Len(t)
      PROVE  DiffersAt(p, q, 2)
  <2>1. 2 \in 1 .. Len(p) /\ 2 <= Len(q) /\ \A m \in 1 .. 2 - 1 : m = 1
    BY <1>1, <1>2
  <2> QED BY <1>2, <1>5, <2>1 DEF DiffersAt
<1>6. ASSUME NEW n, Len(s) = Len(t), NEW m \in 1 .. n + 2, n \in 1 .. Len(s) + 1,
             \A e \in 1 .. n - 1 : s[e] = t[e]
      PROVE  m < n + 2 => p[m] = q[m]
  <2>1. CASE m \in 1 .. 2
    BY <1>2, <1>4, <1>6, <2>1
  <2>2. CASE m > 2
    <3>1. m - 2 \in 1 .. n \/ m = n + 2
      BY <1>1, <1>6, <2>2
    <3>2. ASSUME m < n + 2
          PROVE  m - 2 \in 1 .. n - 1 /\ m - 2 \in 1 .. Len(s) /\ (m - 2) + 2 = m
      BY <1>1, <1>6, <2>2, <3>2
    <3> QED BY <1>3, <1>6, <3>2
  <2> QED BY <1>1, <1>6, <2>1, <2>2
<1>7. ASSUME NEW n, Len(s) = Len(t), DiffersAt(s, t, n)
      PROVE  DiffersAt(p, q, n + 2)
  <2>1. n \in 1 .. Len(s) /\ s[n] # t[n] /\ \A e \in 1 .. n - 1 : s[e] = t[e]
    BY <1>7 DEF DiffersAt
  <2>2. n + 2 \in 1 .. Len(p) /\ n + 2 <= Len(q) /\ n \in 1 .. Len(s) + 1
    <3>1. PICK l \in Nat : l = Len(s) /\ Len(p) = l + 3 /\ Len(q) = l + 3
      BY <1>1, <1>2, <1>7
    <3>2. n \in 1 .. l
      BY <2>1, <3>1
    <3>3. n + 2 \in 1 .. l + 3 /\ n + 2 <= l + 3 /\ n \in 1 .. l + 1
      BY <3>2
    <3> QED BY <3>1, <3>3
  <2>3. p[n + 2] # q[n + 2]
    BY <1>3, <1>7, <2>1
  <2>4. ASSUME NEW m \in 1 .. (n + 2) - 1
        PROVE  p[m] = q[m]
    <3>1. m \in 1 .. n + 2 /\ m < n + 2
      BY <1>1, <2>1
    <3> QED BY <1>6, <1>7, <2>1, <2>2, <3>1
  <2> QED BY <2>2, <2>3, <2>4 DEF DiffersAt
<1>8. ASSUME s = t, y # z
      PROVE  DiffersAt(p, q, Len(s) + 3)
  <2> DEFINE n == Len(s) + 1
  <2>1. n \in 1 .. Len(s) + 1 /\ n + 2 = Len(s) + 3 /\ \A e \in 1 .. n - 1 : s[e] = t[e]
    BY <1>1, <1>8
  <2>2. n + 2 \in 1 .. Len(p) /\ n + 2 <= Len(q) /\ p[n + 2] # q[n + 2]
    BY <1>1, <1>2, <1>8, <2>1
  <2> HIDE DEF n
  <2>3. ASSUME NEW m \in 1 .. (n + 2) - 1
        PROVE  p[m] = q[m]
    <3>1. m \in 1 .. n + 2 /\ m < n + 2
      BY <1>1, <2>1
    <3> QED BY <1>6, <1>8, <2>1, <3>1
  <2> QED BY <2>1, <2>2, <2>3 DEF DiffersAt
<1> QED BY <1>5, <1>7, <1>8

\* FirstDifference tells how sequences of the same length first differ.
LEMMA DifferenceIs ==
  ASSUME NEW s \in Seq(Nat), NEW t \in Seq(Nat), Len(s) = Len(t)
  PROVE  \/ s = t /\ FirstDifference(s, t) = 0
         \/ \E n : DiffersAt(s, t, n) /\ FirstDifference(s, t) = Sign(s[n], t[n]) /\ Sign(s[n], t[n]) # 0
<1> DEFINE at == {n \in DOMAIN s : s[n] # t[n]}
<1>1. Len(s) \in Nat /\ DOMAIN s = 1 .. Len(s)
  BY LenProperties
<1>2. FirstDifference(s, t) = IF at = {} THEN 0 ELSE Sign(s[Min(at)], t[Min(at)])
  BY DEF FirstDifference
<1>3. CASE at = {}
  <2>1. \A m \in 1 .. Len(s) : s[m] = t[m]
    BY <1>1, <1>3
  <2>2. s = t
    BY <2>1, SeqEqual
  <2> QED BY <1>2, <1>3, <2>2
<1>4. CASE at # {}
  <2>1. PICK n : n = Min(at)
    OBVIOUS
  <2>2. n \in at /\ \A m \in at : n <= m
    <3>1. at \subseteq Nat
      BY <1>1
    <3> HIDE DEF at
    <3> QED BY <1>4, <2>1, <3>1, LowestIs
  <2>3. n \in 1 .. Len(s) /\ n \in 1 .. Len(t) /\ s[n] # t[n] /\ n <= Len(t)
    BY <1>1, <2>2
  <2>4. s[n] \in Nat /\ t[n] \in Nat
    BY <2>3, ElementOfSeq
  <2>5. FirstDifference(s, t) = Sign(s[n], t[n]) /\ Sign(s[n], t[n]) # 0
    <3> HIDE DEF at
    <3>1. FirstDifference(s, t) = Sign(s[n], t[n])
      BY <1>2, <1>4, <2>1
    <3>2. Sign(s[n], t[n]) # 0
      BY <2>3, <2>4 DEF Sign
    <3> QED BY <3>1, <3>2
  <2>6. ASSUME NEW m \in 1 .. n - 1
        PROVE  s[m] = t[m]
    <3>1. m \in 1 .. Len(s) /\ ~(n <= m)
      BY <1>1, <2>3
    <3>2. m \notin at
      <4> HIDE DEF at
      <4> QED BY <2>2, <3>1
    <3> QED BY <1>1, <3>1, <3>2
  <2>7. DiffersAt(s, t, n)
    BY <2>3, <2>6 DEF DiffersAt
  <2> QED BY <2>5, <2>7
<1> QED BY <1>3, <1>4

\* compareDigitRuns tells the order of the pieces two runs have in the keys.
LEMMA RunsDecide ==
  ASSUME NEW s \in Seq(Nat), NEW t \in Seq(Nat), NEW y \in Nat, NEW z \in Nat,
         NEW p \in Seq(Nat), NEW q \in Seq(Nat), LaysOut(p, s, y), LaysOut(q, t, z), NEW c,
         c = IF Len(s) # Len(t) THEN Sign(Len(s), Len(t))
             ELSE IF FirstDifference(s, t) # 0 THEN FirstDifference(s, t) ELSE Sign(y, z)
  PROVE  \/ c = 0 /\ s = t /\ y = z
         \/ \E n : DiffersAt(p, q, n) /\ c = Sign(p[n], q[n])
<1>1. CASE Len(s) # Len(t)
  <2>1. DiffersAt(p, q, 2) /\ p[2] = Len(s) /\ q[2] = Len(t)
    BY <1>1, LayoutsDiffer DEF LaysOut
  <2> QED BY <1>1, <2>1
<1>2. CASE Len(s) = Len(t) /\ s # t
  <2>1. PICK n : DiffersAt(s, t, n) /\ FirstDifference(s, t) = Sign(s[n], t[n]) /\ Sign(s[n], t[n]) # 0
    BY <1>2, DifferenceIs
  <2>2. DiffersAt(p, q, n + 2)
    BY <1>2, <2>1, LayoutsDiffer
  <2>3. p[n + 2] = s[n] /\ q[n + 2] = t[n]
    BY <1>2, <2>1 DEF DiffersAt, LaysOut
  <2> QED BY <1>2, <2>1, <2>2, <2>3
<1>3. CASE s = t /\ y # z
  <2>1. c = Sign(y, z)
    BY <1>3, DifferenceIs DEF DiffersAt
  <2>2. DiffersAt(p, q, Len(s) + 3)
    BY <1>3, LayoutsDiffer
  <2>3. p[Len(s) + 3] = y /\ q[Len(s) + 3] = z
    BY <1>3 DEF LaysOut
  <2> QED BY <2>1, <2>2, <2>3
<1>4. CASE s = t /\ y = z
  <2>1. c = Sign(y, z)
    BY <1>4, DifferenceIs DEF DiffersAt
  <2>2. c = 0
    BY <1>4, <2>1 DEF Sign
  <2> QED BY <1>4, <2>2
<1> QED BY <1>1, <1>2, <1>3, <1>4

(***************************************************************************)
(* The invariant: as long as nothing is decided the two keys are alike, as *)
(* far as the names have been read, and neither is inside a run.           *)
(***************************************************************************)
CompareInv ==
  /\ ComparingTypeOK
  /\ order = Undecided => KeyOf(a, i) = KeyOf(b, j) /\ Between(a, i) /\ Between(b, j)
  /\ order # Undecided => Agrees(order, a, b)

\* Names are sequences of numbers.
LEMMA NamesAreNumbers == Names \subseteq Seq(Nat)
<1>1. \A s \in Seq(0 .. 255) : s \in Seq(Nat)
  <2>1. 0 .. 255 \subseteq Nat
    OBVIOUS
  <2> QED BY <2>1, SeqMonotonic
<1> QED BY <1>1, OrderAssumption

LEMMA CompareStarts == ComparingInit => CompareInv
<1> SUFFICES ASSUME ComparingInit
             PROVE  CompareInv
  OBVIOUS
<1>1. a \in Seq(Nat) /\ b \in Seq(Nat) /\ i = 0 /\ j = 0 /\ order = Undecided
  BY NamesAreNumbers DEF ComparingInit
<1>2. KeyOf(a, i) = KeyOf(b, j)
  BY <1>1, KeyOfIs
<1>3. Between(a, i) /\ Between(b, j)
  BY <1>1 DEF Between
<1>4. Len(a) \in Nat /\ Len(b) \in Nat
  BY <1>1
<1> QED BY <1>1, <1>2, <1>3, <1>4 DEF ComparingInit, CompareInv, ComparingTypeOK

\* An outcome settles it.
LEMMA Settles ==
  ASSUME ComparingTypeOK, a' = a, b' = b, i' \in 0 .. Len(a), j' \in 0 .. Len(b),
         order' \in {-1, 0, 1}, Agrees(order', a, b)
  PROVE  CompareInv'
BY DEF CompareInv, ComparingTypeOK, Agrees, Undecided

\* Without one both names are read on.
LEMMA ReadsOn ==
  ASSUME ComparingTypeOK, a' = a, b' = b, i' \in 0 .. Len(a), j' \in 0 .. Len(b),
         order' = Undecided, KeyOf(a, i') = KeyOf(b, j'), Between(a, i'), Between(b, j')
  PROVE  CompareInv'
<1>1. ComparingTypeOK'
  BY DEF ComparingTypeOK
<1> QED BY <1>1 DEF CompareInv, Between

LEMMA EndsCompare ==
  ASSUME CompareInv, CompareEnds
  PROVE  CompareInv'
<1>1. /\ a \in Seq(Nat) /\ b \in Seq(Nat) /\ i \in 0 .. Len(a) /\ j \in 0 .. Len(b) /\ ComparingTypeOK
      /\ order = Undecided /\ KeyOf(a, i) = KeyOf(b, j) /\ Between(a, i) /\ Between(b, j)
  BY NamesAreNumbers DEF CompareInv, ComparingTypeOK, CompareEnds
<1>2. Len(a) \in Nat /\ Len(b) \in Nat /\ (i = Len(a) \/ j = Len(b))
  BY <1>1 DEF CompareEnds, Left
<1>3. /\ a' = a /\ b' = b /\ i' = i /\ j' = j
      /\ order' = IF i < Len(a) THEN 1 ELSE IF j < Len(b) THEN -1 ELSE 0
  BY DEF CompareEnds
<1>4. PICK x \in Seq(Nat) : x = KeyOf(a, i)
  BY <1>1, KeyOfIs
<1>5. Agrees(order', a, b)
  <2>1. CASE i < Len(a)
    <3>1. i \in 0 .. Len(a) - 1 /\ j = Len(b)
      BY <1>1, <1>2, <2>1
    <3>2. PICK t \in Seq(Nat) : t # <<>> /\ Key(a) = x \o t
      BY <1>1, <1>4, <3>1, KeyHasMore
    <3>3. Key(b) = x
      BY <1>1, <1>4, <3>1, KeyOfIs
    <3>4. Precedes(Key(b), Key(a)) /\ ~Precedes(Key(a), Key(b))
      BY <3>2, <3>3, ShorterPrecedes
    <3> QED BY <1>3, <2>1, <3>4 DEF Agrees
  <2>2. CASE i = Len(a) /\ j < Len(b)
    <3>1. j \in 0 .. Len(b) - 1 /\ ~(i < Len(a))
      BY <1>1, <1>2, <2>2
    <3>2. PICK t \in Seq(Nat) : t # <<>> /\ Key(b) = x \o t
      BY <1>1, <1>4, <3>1, KeyHasMore
    <3>3. Key(a) = x
      BY <1>1, <1>4, <2>2, KeyOfIs
    <3>4. Precedes(Key(a), Key(b))
      BY <3>2, <3>3, ShorterPrecedes
    <3> QED BY <1>3, <2>2, <3>1, <3>4 DEF Agrees
  <2>3. CASE i = Len(a) /\ j = Len(b)
    <3>1. Key(a) = x /\ Key(b) = x /\ ~(i < Len(a)) /\ ~(j < Len(b))
      BY <1>1, <1>2, <1>4, <2>3, KeyOfIs
    <3>2. ~Precedes(x, x)
      BY NoneBeforeItself
    <3> QED BY <1>3, <3>1, <3>2 DEF Agrees
  <2> QED BY <1>1, <1>2, <2>1, <2>2, <2>3
<1>6. order' \in {-1, 0, 1}
  BY <1>3
<1> QED BY <1>1, <1>3, <1>5, <1>6, Settles

\* A byte outside a run is never taken for a digit.
LEMMA BytesDiffer ==
  ASSUME NEW c \in Nat, NEW d \in Nat, ~(isDigit(c) /\ isDigit(d)), NEW x, NEW y,
         x = IF isDigit(c) THEN 48 ELSE lowerByte(c), y = IF isDigit(d) THEN 48 ELSE lowerByte(d)
  PROVE  /\ x # y => Sign(lowerByte(c), lowerByte(d)) = Sign(x, y)
         /\ x = y => ~isDigit(c) /\ ~isDigit(d) /\ lowerByte(c) = lowerByte(d)
BY SMT DEF Sign, lowerByte, isDigit

LEMMA BytesCompare ==
  ASSUME CompareInv, CompareBytes
  PROVE  CompareInv'
<1>1. /\ a \in Seq(Nat) /\ b \in Seq(Nat) /\ ComparingTypeOK
      /\ order = Undecided /\ KeyOf(a, i) = KeyOf(b, j) /\ Between(a, i) /\ Between(b, j)
  BY NamesAreNumbers DEF CompareInv, ComparingTypeOK, CompareBytes, Left
<1>2. /\ i \in 0 .. Len(a) - 1 /\ j \in 0 .. Len(b) - 1 /\ i \in 0 .. Len(a) /\ j \in 0 .. Len(b)
      /\ i + 1 \in 0 .. Len(a) /\ j + 1 \in 0 .. Len(b)
      /\ a[i + 1] \in Nat /\ b[j + 1] \in Nat
  <2>1. i \in 0 .. Len(a) /\ j \in 0 .. Len(b) /\ i < Len(a) /\ j < Len(b)
    BY <1>1 DEF ComparingTypeOK, CompareBytes, Left
  <2>2. Len(a) \in Nat /\ Len(b) \in Nat
    BY <1>1
  <2>3. i + 1 \in 1 .. Len(a) /\ j + 1 \in 1 .. Len(b)
    BY <2>1, <2>2
  <2>4. a[i + 1] \in Nat /\ b[j + 1] \in Nat
    BY <1>1, <2>3
  <2> QED BY <2>1, <2>2, <2>4
<1>3. PICK c \in Nat, d \in Nat : c = a[i + 1] /\ d = b[j + 1]
  BY <1>2
<1>4. /\ a' = a /\ b' = b /\ i' = i + 1 /\ j' = j + 1 /\ ~(isDigit(c) /\ isDigit(d))
      /\ Decide(Sign(lowerByte(c), lowerByte(d)))
  BY <1>3 DEF CompareBytes, AtRuns
<1>5. PICK p \in Seq(Nat) :
        /\ p = Piece(a, i) /\ 1 \in 1 .. Len(p) /\ Continues(a, i, i + 1, p)
        /\ p[1] = IF isDigit(c) THEN 48 ELSE lowerByte(c)
  BY <1>1, <1>2, <1>3, NextPiece
<1>6. PICK q \in Seq(Nat) :
        /\ q = Piece(b, j) /\ 1 \in 1 .. Len(q) /\ Continues(b, j, j + 1, q)
        /\ q[1] = IF isDigit(d) THEN 48 ELSE lowerByte(d)
  BY <1>1, <1>2, <1>3, NextPiece
<1>7. /\ p[1] = IF isDigit(c) THEN 48 ELSE lowerByte(c)
      /\ q[1] = IF isDigit(d) THEN 48 ELSE lowerByte(d)
  BY <1>5, <1>6
<1>8. CASE p[1] # q[1]
  <2>1. DiffersAt(p, q, 1)
    <3>1. \A l \in Nat : 1 \in 1 .. l => 1 <= l
      OBVIOUS
    <3>2. Len(q) \in Nat /\ \A m \in 1 .. 1 - 1 : FALSE
      BY LenProperties
    <3> QED BY <1>5, <1>6, <1>8, <3>1, <3>2 DEF DiffersAt
  <2>2. Agrees(Sign(p[1], q[1]), a, b) /\ Sign(p[1], q[1]) \in {-1, 1}
    BY <1>1, <1>2, <1>5, <1>6, <2>1, KeysOrder
  <2>3. Sign(lowerByte(c), lowerByte(d)) = Sign(p[1], q[1])
    <3>1. PICK x, y : x = p[1] /\ y = q[1]
      OBVIOUS
    <3>2. Sign(lowerByte(c), lowerByte(d)) = Sign(x, y)
      BY <1>4, <1>7, <1>8, <3>1, BytesDiffer
    <3> QED BY <3>1, <3>2
  <2>4. order' = Sign(p[1], q[1]) /\ order' \in {-1, 0, 1}
    BY <1>4, <2>2, <2>3 DEF Decide
  <2> QED BY <1>1, <1>2, <1>4, <2>2, <2>4, Settles
<1>9. CASE p[1] = q[1]
  <2>1. ~isDigit(c) /\ ~isDigit(d) /\ lowerByte(c) = lowerByte(d)
    BY <1>3, <1>4, <1>7, <1>9, BytesDiffer
  <2>2. p = <<lowerByte(c)>> /\ q = <<lowerByte(d)>>
    BY <1>1, <1>2, <1>3, <1>5, <1>6, <2>1, PieceIs
  <2>3. KeyOf(a, i') = KeyOf(b, j')
    BY <1>1, <1>4, <1>5, <1>6, <2>1, <2>2 DEF Continues
  <2>4. Between(a, i') /\ Between(b, j')
    BY <1>3, <1>4, <2>1 DEF Between
  <2>5. order' = Undecided
    <3>1. Sign(lowerByte(c), lowerByte(d)) = 0
      BY <2>1 DEF Sign, lowerByte
    <3> QED BY <1>4, <3>1 DEF Decide
  <2> QED BY <1>1, <1>2, <1>4, <2>3, <2>4, <2>5, ReadsOn
<1> QED BY <1>8, <1>9

LEMMA RunsCompare ==
  ASSUME CompareInv, CompareRuns
  PROVE  CompareInv'
<1>1. /\ a \in Seq(Nat) /\ b \in Seq(Nat) /\ ComparingTypeOK
      /\ order = Undecided /\ KeyOf(a, i) = KeyOf(b, j) /\ Between(a, i) /\ Between(b, j)
      /\ isDigit(a[i + 1]) /\ isDigit(b[j + 1])
  BY NamesAreNumbers DEF CompareInv, ComparingTypeOK, CompareRuns, Left, AtRuns
<1>2. i \in 0 .. Len(a) - 1 /\ j \in 0 .. Len(b) - 1 /\ i \in 0 .. Len(a) /\ j \in 0 .. Len(b)
  <2>1. i \in 0 .. Len(a) /\ j \in 0 .. Len(b) /\ i < Len(a) /\ j < Len(b)
    BY <1>1 DEF ComparingTypeOK, CompareRuns, Left
  <2>2. Len(a) \in Nat /\ Len(b) \in Nat
    BY <1>1
  <2> QED BY <2>1, <2>2
<1>3. a' = a /\ b' = b /\ i' = RunEnd(a, i) /\ j' = RunEnd(b, j) /\ Decide(compareDigitRuns)
  BY DEF CompareRuns
<1>4. /\ i' \in 0 .. Len(a) /\ Between(a, i') /\ KeyOf(a, i') = KeyOf(a, i) \o RunPiece(a, i)
      /\ j' \in 0 .. Len(b) /\ Between(b, j') /\ KeyOf(b, j') = KeyOf(b, j) \o RunPiece(b, j)
  <2>1. /\ RunEnd(a, i) \in i + 1 .. Len(a) /\ RunEnd(b, j) \in j + 1 .. Len(b)
        /\ Between(a, i') /\ Between(b, j')
        /\ KeyOf(a, i') = KeyOf(a, i) \o RunPiece(a, i)
        /\ KeyOf(b, j') = KeyOf(b, j) \o RunPiece(b, j)
    BY <1>1, <1>2, <1>3, RunIsOnePiece
  <2>2. i' \in 0 .. Len(a) /\ j' \in 0 .. Len(b)
    BY <1>2, <1>3, <2>1
  <2> QED BY <2>1, <2>2
<1>5. PICK s \in Seq(Nat), y \in Nat, p \in Seq(Nat) :
        s = Stripped(a, i) /\ y = ZerosEnd(a, i) - i /\ p = RunPiece(a, i) /\ LaysOut(p, s, y)
  BY <1>1, <1>2, StrippedIs
<1>6. PICK t \in Seq(Nat), z \in Nat, q \in Seq(Nat) :
        t = Stripped(b, j) /\ z = ZerosEnd(b, j) - j /\ q = RunPiece(b, j) /\ LaysOut(q, t, z)
  BY <1>1, <1>2, StrippedIs
<1>7. compareDigitRuns = IF Len(s) # Len(t) THEN Sign(Len(s), Len(t))
                         ELSE IF FirstDifference(s, t) # 0 THEN FirstDifference(s, t) ELSE Sign(y, z)
  BY <1>5, <1>6 DEF compareDigitRuns
<1>8. CASE compareDigitRuns = 0 /\ s = t /\ y = z
  <2>1. order' = Undecided
    BY <1>3, <1>8 DEF Decide
  <2>2. p = q
    BY <1>5, <1>6, <1>8 DEF RunPiece
  <2> QED BY <1>1, <1>3, <1>4, <1>5, <1>6, <2>1, <2>2, ReadsOn
<1>9. ASSUME NEW n, DiffersAt(p, q, n), compareDigitRuns = Sign(p[n], q[n])
      PROVE  CompareInv'
  <2>1. Agrees(compareDigitRuns, a, b) /\ compareDigitRuns \in {-1, 1}
    <3>1. Continues(a, i, i', p) /\ Continues(b, j, j', q)
      BY <1>4, <1>5, <1>6 DEF Continues
    <3> QED BY <1>1, <1>2, <1>4, <1>9, <3>1, KeysOrder
  <2>2. order' = compareDigitRuns /\ order' \in {-1, 0, 1}
    BY <1>3, <2>1 DEF Decide
  <2> QED BY <1>1, <1>3, <1>4, <2>1, <2>2, Settles
<1>10. PICK c : c = compareDigitRuns /\ c = IF Len(s) # Len(t) THEN Sign(Len(s), Len(t))
                   ELSE IF FirstDifference(s, t) # 0 THEN FirstDifference(s, t) ELSE Sign(y, z)
  BY <1>7
<1>11. LaysOut(p, s, y) /\ LaysOut(q, t, z)
  BY <1>5, <1>6
<1>12. \/ c = 0 /\ s = t /\ y = z
       \/ \E n : DiffersAt(p, q, n) /\ c = Sign(p[n], q[n])
  BY <1>10, <1>11, RunsDecide
<1> QED BY <1>8, <1>9, <1>10, <1>12

LEMMA CompareKeeps ==
  ASSUME CompareInv, [ComparingNext]_comparing
  PROVE  CompareInv'
<1>1. CASE CompareRuns
  BY <1>1, RunsCompare
<1>2. CASE CompareBytes
  BY <1>2, BytesCompare
<1>3. CASE CompareEnds
  BY <1>3, EndsCompare
<1>4. CASE UNCHANGED comparing
  BY <1>4 DEF comparing, CompareInv, ComparingTypeOK, Agrees, Between
<1> QED BY <1>1, <1>2, <1>3, <1>4 DEF ComparingNext

(***************************************************************************)
(* naturalCompare (internal/usecase/images/natsort.go) orders any two      *)
(* names by their keys, whatever runs, cases and zeros they have and       *)
(* however long they are.                                                  *)
(***************************************************************************)
THEOREM NamesAreOrdered == ComparingSpec => []OneOrder
<1>1. CompareInv => OneOrder
  BY DEF CompareInv, OneOrder, Agrees
<1>2. ComparingSpec => []CompareInv
  BY CompareStarts, CompareKeeps, PTL DEF ComparingSpec
<1> QED BY <1>1, <1>2, PTL

-----------------------------------------------------------------------------
(* Dictionaries have one order                                             *)

\* The two agree on their first n numbers; the first ends there, or is the smaller next.
PartAt(x, y, n) ==
  /\ n \in Nat /\ n <= Len(x) /\ n <= Len(y) /\ \A m \in 1 .. n : x[m] = y[m]
  /\ n < Len(y) /\ (n < Len(x) => x[n + 1] < y[n + 1])

LEMMA PrecedesIs ==
  ASSUME NEW x \in Seq(Nat), NEW y \in Seq(Nat)
  PROVE  Precedes(x, y) <=> \E n \in Nat : PartAt(x, y, n)
<1>1. PICK k \in Nat, l \in Nat : k = Len(x) /\ l = Len(y) /\ DOMAIN x = 1 .. k /\ DOMAIN y = 1 .. l
  BY LenProperties
<1>2. ASSUME IsStrictPrefix(x, y)
      PROVE  PartAt(x, y, k)
  <2>1. k <= l /\ SubSeq(x, 1, k) = SubSeq(y, 1, k) /\ x # y
    BY <1>1, <1>2 DEF IsStrictPrefix, IsPrefix
  <2>2. ASSUME NEW m \in 1 .. k
        PROVE  x[m] = y[m]
    <3>1. SubSeq(x, 1, k)[m] = x[m] /\ SubSeq(y, 1, k)[m] = y[m]
      BY <1>1, <2>1, BeginningAt
    <3> QED BY <2>1, <3>1
  <2>3. k # l
    <3> SUFFICES ASSUME k = l
                 PROVE  FALSE
      OBVIOUS
    <3> QED BY <1>1, <2>1, <2>2, SeqEqual
  <2> QED BY <1>1, <2>1, <2>2, <2>3 DEF PartAt
<1>3. ASSUME NEW n \in DOMAIN x \cap DOMAIN y, SubSeq(x, 1, n - 1) = SubSeq(y, 1, n - 1), x[n] < y[n]
      PROVE  n - 1 \in Nat /\ PartAt(x, y, n - 1)
  <2>1. n \in 1 .. k /\ n \in 1 .. l /\ n - 1 \in Nat /\ (n - 1) + 1 = n /\ n - 1 < k /\ n - 1 < l
    BY <1>1
  <2>2. ASSUME NEW m \in 1 .. n - 1
        PROVE  x[m] = y[m]
    <3>1. SubSeq(x, 1, n - 1)[m] = x[m] /\ SubSeq(y, 1, n - 1)[m] = y[m]
      BY <1>1, <2>1, BeginningAt
    <3> QED BY <1>3, <3>1
  <2> QED BY <1>1, <1>3, <2>1, <2>2 DEF PartAt
<1>4. ASSUME NEW n \in Nat, PartAt(x, y, n)
      PROVE  Precedes(x, y)
  <2>1. CASE n = k
    <3>1. k <= l /\ k # l /\ \A m \in 1 .. k : x[m] = y[m]
      BY <1>1, <1>4, <2>1 DEF PartAt
    <3>2. SubSeq(x, 1, k) = SubSeq(y, 1, k)
      BY <1>1, <3>1
    <3>3. x # y
      BY <1>1, <3>1
    <3> QED BY <1>1, <3>1, <3>2, <3>3 DEF Precedes, IsStrictPrefix, IsPrefix
  <2>2. CASE n < k
    <3>1. n + 1 \in 1 .. k /\ n + 1 <= l /\ (n + 1) - 1 = n
      BY <1>1, <1>4, <2>2 DEF PartAt
    <3> QED BY <1>1, <1>4, <2>2, <3>1, FirstDiffers DEF PartAt
  <2> QED BY <1>1, <1>4, <2>1, <2>2 DEF PartAt
<1> QED BY <1>1, <1>2, <1>3, <1>4 DEF Precedes

(***************************************************************************)
(* The order of dictionaries, which naturalCompare's answers agree with    *)
(* (NamesAreOrdered), is a strict total one: nothing precedes itself, what *)
(* precedes goes on to precede, and of any two different keys one comes    *)
(* first.  So a sort by naturalCompare (internal/usecase/images/natsort.go)*)
(* has one outcome, up to names of equal keys.                             *)
(***************************************************************************)
THEOREM KeysAreOrdered ==
  \A x, y, z \in Seq(Nat) :
    /\ ~Precedes(x, x)
    /\ Precedes(x, y) /\ Precedes(y, z) => Precedes(x, z)
    /\ x = y \/ Precedes(x, y) \/ Precedes(y, x)
<1> SUFFICES ASSUME NEW x \in Seq(Nat), NEW y \in Seq(Nat), NEW z \in Seq(Nat)
             PROVE  /\ ~Precedes(x, x)
                    /\ Precedes(x, y) /\ Precedes(y, z) => Precedes(x, z)
                    /\ x = y \/ Precedes(x, y) \/ Precedes(y, x)
  OBVIOUS
<1>1. /\ Len(x) \in Nat /\ Len(y) \in Nat /\ Len(z) \in Nat
      /\ \A n \in 1 .. Len(x) : x[n] \in Nat
      /\ \A n \in 1 .. Len(y) : y[n] \in Nat
      /\ \A n \in 1 .. Len(z) : z[n] \in Nat
  OBVIOUS
<1>2. ~Precedes(x, x)
  <2> SUFFICES ASSUME NEW n \in Nat, PartAt(x, x, n)
               PROVE  FALSE
    BY PrecedesIs
  <2>1. n + 1 \in 1 .. Len(x) /\ x[n + 1] < x[n + 1]
    BY <1>1 DEF PartAt
  <2> QED BY <1>1, <2>1
<1>3. ASSUME Precedes(x, y), Precedes(y, z)
      PROVE  Precedes(x, z)
  <2>1. PICK n \in Nat : PartAt(x, y, n)
    BY <1>3, PrecedesIs
  <2>2. PICK p \in Nat : PartAt(y, z, p)
    BY <1>3, PrecedesIs
  <2>3. CASE n < p
    <3>1. n + 1 \in 1 .. p /\ y[n + 1] = z[n + 1]
      BY <2>2, <2>3 DEF PartAt
    <3>2. PartAt(x, z, n)
      <4>1. \A m \in 1 .. n : m \in 1 .. p /\ x[m] = y[m] /\ y[m] = z[m]
        BY <2>1, <2>2, <2>3 DEF PartAt
      <4>2. n < Len(z) /\ n <= Len(x) /\ (n < Len(x) => x[n + 1] < y[n + 1])
        BY <1>1, <2>1, <2>2, <2>3 DEF PartAt
      <4> QED BY <1>1, <3>1, <4>1, <4>2 DEF PartAt
    <3> QED BY <3>2, PrecedesIs
  <2>4. CASE p < n
    <3>1. p + 1 \in 1 .. n /\ x[p + 1] = y[p + 1] /\ p < Len(x) /\ p < Len(y)
      BY <1>1, <2>1, <2>4 DEF PartAt
    <3>2. PartAt(x, z, p)
      <4>1. \A m \in 1 .. p : m \in 1 .. n /\ x[m] = y[m] /\ y[m] = z[m]
        BY <2>1, <2>2, <2>4 DEF PartAt
      <4>2. p < Len(z) /\ y[p + 1] < z[p + 1]
        BY <1>1, <2>2, <3>1 DEF PartAt
      <4> QED BY <1>1, <3>1, <4>1, <4>2 DEF PartAt
    <3> QED BY <3>2, PrecedesIs
  <2>5. CASE n = p
    <3>1. \A m \in 1 .. n : x[m] = y[m] /\ y[m] = z[m]
      BY <2>1, <2>2, <2>5 DEF PartAt
    <3>2. n < Len(y) /\ n < Len(z) /\ n <= Len(x) /\ y[n + 1] < z[n + 1]
      BY <2>1, <2>2, <2>5 DEF PartAt
    <3>3. n < Len(x) => x[n + 1] < z[n + 1]
      <4> SUFFICES ASSUME n < Len(x)
                   PROVE  x[n + 1] < z[n + 1]
        OBVIOUS
      <4>1. n + 1 \in 1 .. Len(x) /\ n + 1 \in 1 .. Len(y) /\ n + 1 \in 1 .. Len(z)
        BY <1>1, <3>2
      <4>2. x[n + 1] < y[n + 1]
        BY <2>1 DEF PartAt
      <4>3. x[n + 1] \in Nat /\ y[n + 1] \in Nat /\ z[n + 1] \in Nat
        BY <1>1, <4>1
      <4> QED BY <3>2, <4>2, <4>3
    <3>4. PartAt(x, z, n)
      BY <1>1, <3>1, <3>2, <3>3 DEF PartAt
    <3> QED BY <3>4, PrecedesIs
  <2> QED BY <2>3, <2>4, <2>5
<1>4. x = y \/ Precedes(x, y) \/ Precedes(y, x)
  <2> DEFINE D == {n \in Nat : n < Len(x) /\ n < Len(y) /\ x[n + 1] # y[n + 1]}
  <2>1. CASE D # {}
    <3>1. PICK n \in D : \A m \in D : n <= m
      <4> HIDE DEF D
      <4>1. D \subseteq Nat
        BY DEF D
      <4> QED BY <2>1, <4>1, NatLeast
    <3>2. ASSUME NEW m \in 1 .. n
          PROVE  x[m] = y[m]
      <4>1. m - 1 \in Nat /\ (m - 1) + 1 = m /\ m - 1 < n /\ m - 1 < Len(x) /\ m - 1 < Len(y)
        BY <1>1
      <4>2. m - 1 \notin D
        BY <3>1, <4>1
      <4> QED BY <4>1, <4>2
    <3>3. /\ n \in Nat /\ n < Len(x) /\ n < Len(y) /\ x[n + 1] # y[n + 1]
          /\ n + 1 \in 1 .. Len(x) /\ n + 1 \in 1 .. Len(y)
      BY <1>1
    <3>4. x[n + 1] < y[n + 1] \/ y[n + 1] < x[n + 1]
      BY <1>1, <3>3
    <3>5. PartAt(x, y, n) \/ PartAt(y, x, n)
      BY <1>1, <3>2, <3>3, <3>4 DEF PartAt
    <3> QED BY <3>3, <3>5, PrecedesIs
  <2>2. CASE D = {}
    <3>1. ASSUME NEW m \in 1 .. Len(x), m <= Len(y)
          PROVE  x[m] = y[m]
      <4>1. m - 1 \in Nat /\ (m - 1) + 1 = m /\ m - 1 < Len(x) /\ m - 1 < Len(y)
        BY <1>1, <3>1
      <4> QED BY <2>2, <4>1
    <3>2. CASE Len(x) = Len(y)
      BY <1>1, <3>1, <3>2, SeqEqual
    <3>3. CASE Len(x) < Len(y)
      <4>1. PartAt(x, y, Len(x))
        BY <1>1, <3>1, <3>3 DEF PartAt
      <4> QED BY <1>1, <4>1, PrecedesIs
    <3>4. CASE Len(y) < Len(x)
      <4>1. PartAt(y, x, Len(y))
        BY <1>1, <3>1, <3>4 DEF PartAt
      <4> QED BY <1>1, <4>1, PrecedesIs
    <3> QED BY <1>1, <3>2, <3>3, <3>4
  <2> QED BY <2>1, <2>2
<1> QED BY <1>2, <1>3, <1>4

-----------------------------------------------------------------------------
(* Types of FilePacking                                                    *)

\* Each file once in s and w together.
Apart(s, w) ==
  IsInjective(s) /\ IsInjective(w) /\ \A k \in DOMAIN s, l \in DOMAIN w : s[k] # w[l]

\* The first of w is taken, and joins s or not.
LEMMA DrawnApart ==
  ASSUME NEW T, NEW s \in Seq(T), NEW w \in Seq(T), w # <<>>, Apart(s, w)
  PROVE  /\ Head(w) \in T /\ Tail(w) \in Seq(T) /\ Append(s, Head(w)) \in Seq(T) /\ <<Head(w)>> \in Seq(T)
         /\ Apart(s, Tail(w)) /\ Apart(Append(s, Head(w)), Tail(w)) /\ Apart(<<Head(w)>>, Tail(w))
<1>1. PICK h \in T : h = Head(w) /\ h = w[1]
  OBVIOUS
<1>2. PICK t \in Seq(T) :
        t = Tail(w) /\ Len(t) + 1 = Len(w) /\ \A k \in 1 .. Len(t) : t[k] = w[k + 1]
  <2>1. Tail(w) \in Seq(T) /\ Len(Tail(w)) + 1 = Len(w) /\ \A k \in 1 .. Len(Tail(w)) : Tail(w)[k] = w[k + 1]
    OBVIOUS
  <2> QED BY <2>1
<1>3. PICK r \in Seq(T) :
        /\ r = Append(s, h) /\ Len(r) = Len(s) + 1 /\ r[Len(s) + 1] = h
        /\ \A k \in 1 .. Len(s) : r[k] = s[k]
  <2>1. Append(s, h) \in Seq(T)
    BY <1>1
  <2>2. /\ Len(Append(s, h)) = Len(s) + 1 /\ Append(s, h)[Len(s) + 1] = h
        /\ \A k \in 1 .. Len(s) : Append(s, h)[k] = s[k]
    BY AppendProperties
  <2> QED BY <2>1, <2>2
<1>4. PICK u \in Seq(T) : u = <<h>> /\ Len(u) = 1 /\ u[1] = h
  <2>1. <<h>> \in Seq(T)
    BY <1>1
  <2> QED BY <2>1
<1>5. /\ DOMAIN s = 1 .. Len(s) /\ DOMAIN w = 1 .. Len(t) + 1 /\ DOMAIN t = 1 .. Len(t)
      /\ DOMAIN r = 1 .. Len(s) + 1 /\ DOMAIN u = {1} /\ Len(s) \in Nat /\ Len(t) \in Nat
  <2>1. DOMAIN u = 1 .. 1 /\ 1 .. 1 = {1}
    BY <1>4
  <2> QED BY <1>2, <1>3, <2>1, LenProperties
<1>6. /\ \A k, l \in 1 .. Len(s) : s[k] = s[l] => k = l
      /\ \A k, l \in 1 .. Len(t) + 1 : w[k] = w[l] => k = l
      /\ \A k \in 1 .. Len(s), l \in 1 .. Len(t) + 1 : s[k] # w[l]
  BY <1>5 DEF Apart, IsInjective
<1>7. \A k \in 1 .. Len(t) : k + 1 \in 1 .. Len(t) + 1 /\ k + 1 # 1 /\ 1 \in 1 .. Len(t) + 1
  BY <1>5
<1>8. /\ \A k, l \in 1 .. Len(t) : t[k] = t[l] => k = l
      /\ \A k \in 1 .. Len(t) : h # t[k]
      /\ \A k \in 1 .. Len(s), l \in 1 .. Len(t) : s[k] # t[l]
  <2>1. ASSUME NEW k \in 1 .. Len(t), NEW l \in 1 .. Len(t), t[k] = t[l]
        PROVE  k = l
    <3>1. k + 1 = l + 1
      BY <1>2, <1>6, <1>7, <2>1
    <3> QED BY <1>5, <3>1
  <2>2. \A k \in 1 .. Len(t) : h # t[k]
    BY <1>1, <1>2, <1>6, <1>7
  <2>3. \A k \in 1 .. Len(s), l \in 1 .. Len(t) : s[k] # t[l]
    BY <1>2, <1>6, <1>7
  <2> QED BY <2>1, <2>2, <2>3
<1>9. IsInjective(s) /\ IsInjective(t) /\ IsInjective(u)
  BY <1>5, <1>6, <1>8 DEF IsInjective
<1>10. \A k \in 1 .. Len(s) : s[k] # h
  <2>1. 1 \in 1 .. Len(t) + 1
    BY <1>5
  <2> QED BY <1>1, <1>6, <2>1
<1>11. \A k \in 1 .. Len(s) + 1 : k \in 1 .. Len(s) \/ k = Len(s) + 1
  BY <1>5
<1>12. IsInjective(r)
  BY <1>3, <1>5, <1>6, <1>10, <1>11 DEF IsInjective
<1>13. \A k \in 1 .. Len(s) + 1, l \in 1 .. Len(t) : r[k] # t[l]
  BY <1>3, <1>8, <1>11
<1>14. Apart(s, t) /\ Apart(r, t) /\ Apart(u, t)
  <2>1. Apart(s, t)
    BY <1>5, <1>8, <1>9 DEF Apart
  <2>2. Apart(r, t)
    BY <1>5, <1>9, <1>12, <1>13 DEF Apart
  <2>3. Apart(u, t)
    BY <1>4, <1>5, <1>8, <1>9 DEF Apart
  <2> QED BY <2>1, <2>2, <2>3
<1> QED BY <1>1, <1>2, <1>3, <1>4, <1>14

\* One of s is dropped.
LEMMA RemovedApart ==
  ASSUME NEW T, NEW s \in Seq(T), NEW w, Apart(s, w), NEW n \in 1 .. Len(s)
  PROVE  RemoveAt(s, n) \in Seq(T) /\ Apart(RemoveAt(s, n), w)
<1>1. PICK r \in Seq(T) :
        /\ r = RemoveAt(s, n) /\ Len(r) = Len(s) - 1
        /\ \A k \in 1 .. Len(s) - 1 : r[k] = IF k < n THEN s[k] ELSE s[k + 1]
  BY RemovedAt
<1>2. Len(s) \in Nat /\ DOMAIN s = 1 .. Len(s) /\ DOMAIN r = 1 .. Len(s) - 1
  BY <1>1, LenProperties
<1> DEFINE old(k) == IF k < n THEN k ELSE k + 1
<1>3. \A k \in 1 .. Len(s) - 1 : old(k) \in DOMAIN s /\ r[k] = s[old(k)]
  BY <1>1, <1>2
<1>4. \A k, l \in 1 .. Len(s) - 1 : old(k) = old(l) => k = l
  BY <1>2
<1> HIDE DEF old
<1>5. IsInjective(r)
  <2>1. ASSUME NEW k \in DOMAIN r, NEW l \in DOMAIN r, r[k] = r[l]
        PROVE  k = l
    <3>1. old(k) \in DOMAIN s /\ old(l) \in DOMAIN s /\ s[old(k)] = s[old(l)]
      BY <1>2, <1>3, <2>1
    <3>2. old(k) = old(l)
      BY <3>1 DEF Apart, IsInjective
    <3> QED BY <1>2, <1>4, <3>2
  <2> QED BY <2>1 DEF IsInjective
<1>6. \A k \in DOMAIN r, l \in DOMAIN w : r[k] # w[l]
  BY <1>2, <1>3 DEF Apart
<1> QED BY <1>1, <1>5, <1>6 DEF Apart

\* A sequence cut in two, and the cover before it.
LEMMA CutApart ==
  ASSUME NEW T, NEW s \in Seq(T), IsInjective(s), NEW n \in 0 .. Len(s),
         NEW x \in Seq(T), Apart(x, s)
  PROVE  /\ x \o SubSeq(s, 1, n) \in Seq(T) /\ SubSeq(s, n + 1, Len(s)) \in Seq(T)
         /\ Apart(x \o SubSeq(s, 1, n), SubSeq(s, n + 1, Len(s)))
<1>1. PICK l \in Nat : l = Len(s)
  BY LenProperties
<1>2. PICK u \in Seq(T) : u = SubSeq(s, 1, n) /\ Len(u) = n /\ \A k \in 1 .. n : u[k] = s[k]
  <2>1. SubSeq(s, 1, n) \in Seq(T) /\ Len(SubSeq(s, 1, n)) = n /\ \A k \in 1 .. n : SubSeq(s, 1, n)[k] = s[k]
    BY <1>1
  <2> QED BY <2>1
<1>3. PICK w \in Seq(T) : w = SubSeq(s, n + 1, l) /\ Len(w) = l - n /\ \A k \in 1 .. l - n : w[k] = s[k + n]
  <2>1. /\ SubSeq(s, n + 1, l) \in Seq(T) /\ Len(SubSeq(s, n + 1, l)) = l - n
        /\ \A k \in 1 .. l - n : SubSeq(s, n + 1, l)[k] = s[k + n]
    BY <1>1
  <2> QED BY <2>1
<1>4. PICK m \in Nat : m = Len(x) /\ DOMAIN x = 1 .. m
  BY LenProperties
<1>5. PICK y \in Seq(T) :
        /\ y = x \o u /\ Len(y) = m + n
        /\ \A k \in 1 .. m + n : y[k] = IF k <= m THEN x[k] ELSE u[k - m]
  <2>1. /\ x \o u \in Seq(T) /\ Len(x \o u) = m + n
        /\ \A k \in 1 .. m + n : (x \o u)[k] = IF k <= m THEN x[k] ELSE u[k - m]
    BY <1>2, <1>4, ConcatProperties
  <2> QED BY <2>1
<1>6. /\ DOMAIN s = 1 .. l /\ DOMAIN w = 1 .. l - n /\ DOMAIN y = 1 .. m + n
      /\ n \in Nat /\ n <= l
  BY <1>1, <1>3, <1>5, LenProperties
<1>7. /\ \A k, k2 \in 1 .. l : s[k] = s[k2] => k = k2
      /\ \A k, k2 \in 1 .. m : x[k] = x[k2] => k = k2
      /\ \A k \in 1 .. m, k2 \in 1 .. l : x[k] # s[k2]
  BY <1>4, <1>6 DEF Apart, IsInjective
<1>8. ASSUME NEW k \in 1 .. m + n
      PROVE  \/ k \in 1 .. m /\ y[k] = x[k]
             \/ k > m /\ k - m \in 1 .. n /\ k - m \in 1 .. l /\ y[k] = s[k - m]
  BY <1>2, <1>5, <1>6
<1>9. ASSUME NEW k \in 1 .. l - n
      PROVE  k + n \in 1 .. l /\ w[k] = s[k + n]
  BY <1>3, <1>6
<1>10. IsInjective(y)
  <2>1. ASSUME NEW k \in 1 .. m + n, NEW k2 \in 1 .. m + n, y[k] = y[k2]
        PROVE  k = k2
    <3>1. CASE k > m /\ k2 > m
      <4>1. k - m \in 1 .. l /\ k2 - m \in 1 .. l /\ s[k - m] = s[k2 - m]
        BY <1>8, <2>1, <3>1
      <4>2. k - m = k2 - m
        BY <1>7, <4>1
      <4> QED BY <1>6, <4>2
    <3>2. CASE ~(k > m /\ k2 > m)
      BY <1>7, <1>8, <2>1, <3>2
    <3> QED BY <3>1, <3>2
  <2> QED BY <1>6, <2>1 DEF IsInjective
<1>11. IsInjective(w)
  <2>1. ASSUME NEW k \in 1 .. l - n, NEW k2 \in 1 .. l - n, w[k] = w[k2]
        PROVE  k = k2
    <3>1. k + n = k2 + n
      BY <1>7, <1>9, <2>1
    <3> QED BY <1>6, <3>1
  <2> QED BY <1>6, <2>1 DEF IsInjective
<1>12. ASSUME NEW k \in 1 .. m + n, NEW k2 \in 1 .. l - n
       PROVE  y[k] # w[k2]
  <2>1. k2 + n \in 1 .. l /\ w[k2] = s[k2 + n]
    BY <1>9
  <2>2. CASE k \in 1 .. m /\ y[k] = x[k]
    BY <1>7, <2>1, <2>2
  <2>3. CASE k > m /\ k - m \in 1 .. n /\ k - m \in 1 .. l /\ y[k] = s[k - m]
    <3>1. k - m # k2 + n
      BY <1>6, <2>3
    <3> QED BY <1>7, <2>1, <2>3, <3>1
  <2> QED BY <1>8, <2>2, <2>3
<1>13. Apart(y, w)
  BY <1>6, <1>10, <1>11, <1>12 DEF Apart
<1> QED BY <1>1, <1>2, <1>3, <1>5, <1>13

\* What fitToLimit and chunkOrdered hold, as far as types go: no file they have dealt with
\* is still waiting, and those they name are named once.
Dealt(s, w, o) ==
  /\ s \in Seq(PoolFiles) /\ w \in Seq(PoolFiles) /\ o \in Seq(PoolFiles)
  /\ Apart(s, w) /\ Apart(o, w)
Chunked(q) == q \in Seq(Seq(PoolFiles)) /\ \A k \in DOMAIN q : IsInjective(q[k])

PackTypes ==
  /\ pool \in Pools /\ covered \in BOOLEAN /\ limit \in Limits /\ (covered => pool # <<>>)
  /\ step \in {"shuffle", "sample", "pack", "sampled", "packed"}
  /\ Dealt(selected, waiting, oversized) /\ Chunked(chunks)
  /\ step \in {"shuffle", "sample"} => oversized = <<>>

\* Types survive a step whose values have them, with the pool as it is.
LEMMA TypesThen ==
  ASSUME PackTypes, UNCHANGED <<pool, covered, limit>>,
         NEW s, NEW w, NEW o, Dealt(s, w, o), NEW q, Chunked(q),
         selected' = s, waiting' = w, oversized' = o, chunks' = q,
         NEW p \in {"shuffle", "sample", "pack", "sampled", "packed"}, step' = p,
         p \in {"shuffle", "sample"} => o = <<>>
  PROVE  PackTypes'
<1>1. PoolFiles' = PoolFiles
  BY DEF PoolFiles
<1>2. Dealt(selected, waiting, oversized)' /\ Chunked(chunks)'
  BY <1>1 DEF Dealt, Chunked
<1> QED BY <1>2 DEF PackTypes

\* A sequence of nothing is apart from any that names its members once.
LEMMA NothingApart ==
  ASSUME NEW T, NEW w, IsInjective(w)
  PROVE  <<>> \in Seq(T) /\ Apart(<<>>, w)
<1>1. DOMAIN <<>> = {}
  OBVIOUS
<1>2. IsInjective(<<>>)
  BY <1>1 DEF IsInjective
<1> QED BY <1>1, <1>2 DEF Apart

\* An order drawn names each file once.
LEMMA OrderIsInjective ==
  ASSUME NEW S, IsFiniteSet(S), NEW drawn \in SetToSeqs(S)
  PROVE  IsInjective(drawn)
<1>1. PICK n \in Nat : n = Cardinality(S)
  BY FS_CardinalityType
<1>2. drawn \in [1 .. n -> S] /\ \A k, l \in 1 .. n : k # l => drawn[k] # drawn[l]
  BY <1>1 DEF SetToSeqs
<1> QED BY <1>2 DEF IsInjective

\* The first selection.
LEMMA ShuffleTypes ==
  ASSUME PackingAssumption, PackTypes, Shuffle
  PROVE  PackTypes'
<1> DEFINE S == {f \in PoolFiles : ~IsCover(f)}
<1>1. pool \in Seq(Nat \ {0}) /\ Len(pool) \in Nat /\ limit \in Nat \ {0} /\ (covered => pool # <<>>)
  BY DEF PackTypes, PackingAssumption
<1>2. /\ UNCHANGED <<pool, covered, limit, chunks, oversized>> /\ step' = "sample"
      /\ oversized = <<>> /\ Chunked(chunks)
  BY DEF Shuffle, PackTypes
<1>3. IsFiniteSet(S) /\ S \subseteq PoolFiles
  <2>1. IsFiniteSet(PoolFiles)
    BY <1>1, FS_Interval DEF PoolFiles
  <2>2. S \in SUBSET PoolFiles
    OBVIOUS
  <2> HIDE DEF S
  <2> QED BY <2>1, <2>2, FS_Subset
<1>4. PICK x : x = Lead
  OBVIOUS
<1>5. PICK drawn \in SetToSeqs(S) :
        LET first == IF Len(drawn) <= limit - Len(x) THEN Len(drawn) ELSE limit - Len(x)
        IN  /\ selected' = x \o SubSeq(drawn, 1, first)
            /\ waiting' = SubSeq(drawn, first + 1, Len(drawn))
  BY <1>4 DEF Shuffle
<1>6. drawn \in Seq(S) /\ IsInjective(drawn)
  <2> HIDE DEF S
  <2> QED BY <1>3, OrderIsWhole, OrderIsInjective
<1>7. \A k \in DOMAIN drawn : drawn[k] \in PoolFiles /\ ~IsCover(drawn[k])
  <2>1. \A k \in DOMAIN drawn : drawn[k] \in S
    <3> HIDE DEF S
    <3> QED BY <1>6
  <2> QED BY <2>1
<1>8. PICK n \in Nat : n = Len(drawn) /\ DOMAIN drawn = 1 .. n
  BY <1>6, LenProperties
<1>9. drawn \in Seq(PoolFiles)
  BY <1>7, <1>8, <1>6
<1>10. x \in Seq(PoolFiles) /\ Len(x) \in {0, 1} /\ Apart(x, drawn)
  <2>1. CASE covered /\ Fits(1)
    <3>1. x = <<1>> /\ 1 \in PoolFiles /\ IsCover(1)
      BY <1>1, <1>4, <2>1 DEF Lead, PoolFiles, IsCover
    <3>2. PICK u \in Seq(PoolFiles) : u = x /\ Len(u) = 1 /\ DOMAIN u = {1} /\ u[1] = 1
      <4>1. <<1>> \in Seq(PoolFiles)
        BY <3>1
      <4>2. Len(<<1>>) = 1 /\ DOMAIN <<1>> = {1} /\ <<1>>[1] = 1
        OBVIOUS
      <4> QED BY <3>1, <4>1, <4>2
    <3>3. IsInjective(u)
      BY <3>2 DEF IsInjective
    <3>4. \A k \in DOMAIN u, l \in DOMAIN drawn : u[k] # drawn[l]
      BY <1>7, <3>1, <3>2
    <3> QED BY <1>6, <3>2, <3>3, <3>4 DEF Apart
  <2>2. CASE ~(covered /\ Fits(1))
    <3>1. x = <<>>
      BY <1>4, <2>2 DEF Lead
    <3> QED BY <1>6, <3>1, NothingApart
  <2> QED BY <2>1, <2>2
<1>11. PICK m \in 0 .. n : selected' = x \o SubSeq(drawn, 1, m) /\ waiting' = SubSeq(drawn, m + 1, n)
  <2> DEFINE m == IF n <= limit - Len(x) THEN n ELSE limit - Len(x)
  <2>1. selected' = x \o SubSeq(drawn, 1, m) /\ waiting' = SubSeq(drawn, m + 1, n)
    BY <1>5, <1>8
  <2>2. limit - Len(x) \in Nat
    <3>1. PICK t \in Nat \ {0} : t = limit
      BY <1>1
    <3>2. PICK l \in {0, 1} : l = Len(x)
      BY <1>10
    <3> QED BY <3>1, <3>2
  <2>3. m \in 0 .. n
    BY <2>2
  <2> HIDE DEF m
  <2> QED BY <2>1, <2>3
<1> HIDE DEF S
<1>12. PICK s, w : s = x \o SubSeq(drawn, 1, m) /\ w = SubSeq(drawn, m + 1, n)
  OBVIOUS
<1>13. s \in Seq(PoolFiles) /\ w \in Seq(PoolFiles) /\ Apart(s, w)
  BY <1>6, <1>8, <1>9, <1>10, <1>12, CutApart
<1>14. Dealt(s, w, <<>>)
  BY <1>13, NothingApart DEF Dealt, Apart
<1>15. selected' = s /\ waiting' = w /\ oversized' = <<>> /\ chunks' = chunks
  BY <1>2, <1>11, <1>12
<1> QED BY <1>2, <1>14, <1>15, TypesThen

\* One more candidate, if there is one.
LEMMA RefillTypes ==
  ASSUME NEW s, Dealt(s, waiting, <<>>)
  PROVE  Dealt(Refilled(s), Drawn, <<>>)
<1>1. CASE waiting = <<>>
  <2>1. Refilled(s) = s /\ Drawn = waiting
    BY <1>1 DEF Refilled, Drawn
  <2> QED BY <2>1
<1>2. CASE waiting # <<>>
  <2>1. Refilled(s) = Append(s, Head(waiting)) /\ Drawn = Tail(waiting)
    BY <1>2 DEF Refilled, Drawn
  <2>2. /\ Append(s, Head(waiting)) \in Seq(PoolFiles) /\ Tail(waiting) \in Seq(PoolFiles)
        /\ Apart(Append(s, Head(waiting)), Tail(waiting))
    BY <1>2, DrawnApart DEF Dealt
  <2> QED BY <2>1, <2>2, NothingApart DEF Dealt, Apart
<1> QED BY <1>1, <1>2

LEMMA EvictTypes ==
  ASSUME PackingAssumption, PackTypes, Evict
  PROVE  PackTypes'
<1>1. /\ step = "sample" /\ UNCHANGED <<pool, covered, limit, step, chunks, oversized>>
      /\ \E k \in DOMAIN selected : ~IsCover(selected[k])
      /\ pool \in Seq(Nat \ {0})
      /\ Dealt(selected, waiting, <<>>) /\ oversized = <<>> /\ Chunked(chunks)
  BY DEF Evict, PackTypes, PackingAssumption
<1>2. PICK h \in 1 .. Len(selected) : h = Heaviest
  BY <1>1, HeaviestIs DEF Dealt
<1>3. PICK r : r = RemoveAt(selected, h) /\ Dealt(r, waiting, <<>>)
  BY <1>1, RemovedApart DEF Dealt
<1>4. PICK s, w : s = Refilled(r) /\ w = Drawn /\ Dealt(s, w, <<>>)
  BY <1>3, RefillTypes
<1>5. selected' = s /\ waiting' = w
  BY <1>2, <1>3, <1>4 DEF Evict
<1> QED BY <1>1, <1>4, <1>5, TypesThen

LEMMA SampledTypes ==
  ASSUME PackTypes, Sampled
  PROVE  PackTypes'
<1>1. /\ step = "sample" /\ UNCHANGED <<pool, covered, limit, chunks, oversized>>
      /\ Dealt(selected, waiting, <<>>) /\ oversized = <<>> /\ Chunked(chunks)
  BY DEF Sampled, PackTypes
<1>2. CASE step' = "sampled" /\ UNCHANGED <<selected, waiting>>
  BY <1>1, <1>2, TypesThen
<1>3. CASE selected' = Refilled(selected) /\ waiting' = Drawn /\ UNCHANGED step
  <2>1. PICK s, w : s = Refilled(selected) /\ w = Drawn /\ Dealt(s, w, <<>>)
    BY <1>1, RefillTypes
  <2> QED BY <1>1, <1>3, <2>1, TypesThen
<1> QED BY <1>2, <1>3 DEF Sampled

\* A chunk joins the others.
LEMMA ChunkTypes ==
  ASSUME NEW q, Chunked(q), NEW c \in Seq(PoolFiles), IsInjective(c)
  PROVE  Chunked(Append(q, c))
<1>1. PICK l \in Nat : l = Len(q) /\ DOMAIN q = 1 .. l
  BY LenProperties DEF Chunked
<1>2. PICK r \in Seq(Seq(PoolFiles)) :
        r = Append(q, c) /\ Len(r) = l + 1 /\ r[l + 1] = c /\ \A k \in 1 .. l : r[k] = q[k]
  <2> DEFINE T == Seq(PoolFiles)
  <2>1. q \in Seq(T) /\ c \in T
    BY DEF Chunked
  <2> HIDE DEF T
  <2>2. /\ Append(q, c) \in Seq(T) /\ Len(Append(q, c)) = l + 1 /\ Append(q, c)[l + 1] = c
        /\ \A k \in 1 .. l : Append(q, c)[k] = q[k]
    BY <1>1, <2>1, AppendProperties
  <2> USE DEF T
  <2> QED BY <2>2
<1>3. DOMAIN r = 1 .. l + 1
  BY <1>2, LenProperties
<1>4. ASSUME NEW k \in DOMAIN r
      PROVE  IsInjective(r[k])
  <2>1. k \in 1 .. l \/ k = l + 1
    BY <1>3
  <2> QED BY <1>1, <1>2, <2>1 DEF Chunked
<1> QED BY <1>2, <1>4 DEF Chunked

LEMMA PackTypesStep ==
  ASSUME PackTypes, Pack
  PROVE  PackTypes'
<1>1. /\ step = "pack" /\ waiting # <<>> /\ UNCHANGED <<pool, covered, limit, step>>
      /\ Dealt(selected, waiting, oversized) /\ Chunked(chunks)
  BY DEF Pack, PackTypes
<1>2. PICK f, w : f = Head(waiting) /\ w = Tail(waiting) /\ waiting' = w
  BY DEF Pack
<1>3. /\ w \in Seq(PoolFiles) /\ Apart(selected, w) /\ Apart(oversized, w)
      /\ Append(selected, f) \in Seq(PoolFiles) /\ Apart(Append(selected, f), w)
      /\ Append(oversized, f) \in Seq(PoolFiles) /\ Apart(Append(oversized, f), w)
      /\ <<f>> \in Seq(PoolFiles) /\ Apart(<<f>>, w)
  BY <1>1, <1>2, DrawnApart DEF Dealt
<1>4. CASE oversized' = Append(oversized, f) /\ UNCHANGED <<selected, chunks>>
  <2>1. Dealt(selected, w, Append(oversized, f))
    BY <1>1, <1>3 DEF Dealt
  <2> QED BY <1>1, <1>2, <1>4, <2>1, TypesThen
<1>5. CASE chunks' = Append(chunks, selected) /\ selected' = <<f>> /\ UNCHANGED oversized
  <2>1. Dealt(<<f>>, w, oversized)
    BY <1>1, <1>3 DEF Dealt
  <2>2. Chunked(Append(chunks, selected))
    BY <1>1, ChunkTypes DEF Dealt, Apart
  <2> QED BY <1>1, <1>2, <1>5, <2>1, <2>2, TypesThen
<1>6. CASE selected' = Append(selected, f) /\ UNCHANGED <<chunks, oversized>>
  <2>1. Dealt(Append(selected, f), w, oversized)
    BY <1>1, <1>3 DEF Dealt
  <2> QED BY <1>1, <1>2, <1>6, <2>1, TypesThen
<1> QED BY <1>2, <1>4, <1>5, <1>6 DEF Pack

LEMMA PackedTypes ==
  ASSUME PackTypes, Packed
  PROVE  PackTypes'
<1>1. /\ step' = "packed" /\ UNCHANGED <<pool, covered, limit, waiting, selected, oversized>>
      /\ Dealt(selected, waiting, oversized) /\ Chunked(chunks)
      /\ chunks' = chunks \/ chunks' = Append(chunks, selected)
  BY DEF Packed, PackTypes
<1>2. Chunked(Append(chunks, selected))
  BY <1>1, ChunkTypes DEF Dealt, Apart
<1> QED BY <1>1, <1>2, TypesThen

LEMMA PackTypesStart ==
  ASSUME PackingAssumption, PackingInit
  PROVE  PackTypes
<1>1. PICK n \in Nat : n = Len(pool)
  BY DEF PackingInit, PackingAssumption
<1>2. PICK w : w = [f \in 1 .. n |-> f] /\ waiting = w
  BY <1>1 DEF PackingInit, PoolFiles
<1>3. w \in Seq(PoolFiles) /\ IsInjective(w)
  BY <1>1, <1>2 DEF PoolFiles, IsInjective
<1>4. Dealt(<<>>, w, <<>>)
  BY <1>3, NothingApart DEF Dealt
<1>5. Chunked(<<>>)
  BY DEF Chunked
<1> QED BY <1>2, <1>4, <1>5 DEF PackingInit, PackTypes

LEMMA PackTypesKept ==
  ASSUME PackingAssumption, PackTypes, [PackingNext]_packing
  PROVE  PackTypes'
<1>1. CASE UNCHANGED packing
  <2>1. UNCHANGED <<pool, covered, limit, step, waiting, selected, chunks, oversized>>
    BY <1>1 DEF packing
  <2>2. PICK p \in {"shuffle", "sample", "pack", "sampled", "packed"} : p = step
    BY DEF PackTypes
  <2> QED BY <2>1, <2>2, TypesThen DEF PackTypes
<1> QED BY <1>1, ShuffleTypes, EvictTypes, SampledTypes, PackTypesStep, PackedTypes DEF PackingNext

LEMMA PackTypesSay ==
  ASSUME PackTypes
  PROVE  PackingTypeOK
<1>1. ASSUME NEW c \in ToSet(chunks)
      PROVE  c \in Seq(PoolFiles) /\ IsInjective(c)
  <2>1. PICK k \in DOMAIN chunks : c = chunks[k]
    BY DEF ToSet
  <2>2. chunks \in Seq(Seq(PoolFiles)) /\ IsInjective(chunks[k])
    BY DEF PackTypes, Chunked
  <2>3. chunks[k] \in Seq(PoolFiles)
    BY <2>1, <2>2
  <2> QED BY <2>1, <2>2, <2>3
<1>2. \A s \in {waiting, selected, oversized} : s \in Seq(PoolFiles) /\ IsInjective(s)
  BY DEF PackTypes, Dealt, Apart
<1> QED BY <1>1, <1>2 DEF PackTypes, PackingTypeOK

-----------------------------------------------------------------------------
(* Types of the components that are invariant with what else is proved of  *)
(* them, and bounds that no other property needs                           *)

LogTyped    == LogInv /\ time \in 0 .. MaxLogTime
LinkTyped   == LinkInv /\ clock \in 0 .. MaxLinkTime /\ imageEdits \in 0 .. MaxImageEdits
ScopeTyped  == ScopeInv /\ folder \in Folders /\ rest \subseteq Seq(STRING) \ {<<>>}
NotifyTyped ==
  /\ NotifyInv /\ report \in Reports
  /\ tried \subseteq (1 .. Len(report)) \X Rules /\ unlisted \subseteq 1 .. Len(report)

LEMMA LogTypedStart == JobLogAssumption /\ LoggingInit => LogTyped
BY LogInvInit DEF LogTyped, JobLogAssumption, LoggingInit

LEMMA LogTypedKept ==
  ASSUME JobLogAssumption, LogTyped, [LoggingNext]_jobLog
  PROVE  LogTyped'
<1>1. LogInv'
  BY LogInvNext DEF LogTyped
<1>2. time \in 0 .. MaxLogTime /\ MaxLogTime \in Nat
  BY DEF LogTyped, JobLogAssumption
<1>3. CASE LogTick
  BY <1>1, <1>2, <1>3 DEF LogTick, LogTyped
<1>4. CASE ~LogTick
  <2>1. UNCHANGED time
    BY <1>4 DEF LoggingNext, jobLog, Start, Work, RecordRun, Finish, ScheduledRun, createRun,
                updateRun, Prune, RestartManager
  <2> QED BY <1>1, <1>2, <2>1 DEF LogTyped
<1> QED BY <1>3, <1>4

LEMMA LogTypedSays == ASSUME LogTyped PROVE LoggingTypeOK
<1>1. /\ recent \in Seq(Nat) /\ job \in Seq(JobState) /\ DOMAIN runs \subseteq DOMAIN book
      /\ runs \in [DOMAIN runs -> RunRow] /\ time \in 0 .. MaxLogTime
      /\ Len(recent) <= Len(job)
      /\ \A k \in 1 .. Len(recent) : recent[k] = Len(job) - Len(recent) + k
  BY DEF LogTyped, LogInv, LogTypes, RecentIsTail
<1>2. recent \in Seq(DOMAIN job)
  <2>1. PICK l \in Nat, n \in Nat : l = Len(recent) /\ n = Len(job) /\ DOMAIN job = 1 .. n
    BY <1>1, LenProperties
  <2>2. \A k \in 1 .. l : recent[k] \in 1 .. n
    BY <1>1, <2>1
  <2> QED BY <1>1, <2>1, <2>2
<1>3. \A k \in DOMAIN job : job[k] \in JobState
  BY <1>1
<1>4. \A k \in DOMAIN runs : runs[k] \in RunRow
  BY <1>1
<1> QED BY <1>1, <1>2, <1>3, <1>4 DEF LoggingTypeOK, JobState, RunRow

LEMMA LinkTypedStart == LinksAssumption /\ LinkingInit => LinkTyped
BY LinkInvInit DEF LinkTyped, LinksAssumption, LinkingInit

LEMMA LinkTypedKept ==
  ASSUME LinksAssumption, LinkTyped, [LinkingNext]_linking
  PROVE  LinkTyped'
<1>1. LinkInv'
  BY LinkInvNext DEF LinkTyped
<1>2. /\ clock \in 0 .. MaxLinkTime /\ imageEdits \in 0 .. MaxImageEdits
      /\ MaxLinkTime \in Nat /\ MaxImageEdits \in Nat
  BY DEF LinkTyped, LinksAssumption
<1>3. CASE LinkTick
  BY <1>1, <1>2, <1>3 DEF LinkTick, LinkTyped
<1>4. CASE \E x \in Images, f \in Files : EditImage(x, f)
  BY <1>1, <1>2, <1>4 DEF EditImage, LinkTyped
<1>5. CASE ~LinkTick /\ ~ \E x \in Images, f \in Files : EditImage(x, f)
  <2>1. UNCHANGED <<clock, imageEdits>>
    BY <1>5 DEF LinkingNext, linking, Resolve, GetFileLink, Put, GetFilePublicLink, SetPublicLink, Fail
  <2> QED BY <1>1, <1>2, <2>1 DEF LinkTyped
<1> QED BY <1>3, <1>4, <1>5

LEMMA LinkTypedSays == ASSUME LinkTyped PROVE LinkingTypeOK
<1>1. LinkTypes /\ RowsNamed /\ CallersServed
  BY DEF LinkTyped, LinkInv
<1>2. \A c \in Callers : caller[c] \in CallState
  BY <1>1 DEF CallersServed, WorksFor
<1> QED BY <1>1, <1>2 DEF LinkTyped, LinkTypes, RowsNamed, LinkingTypeOK, CallState

LEMMA ScopeTypedStart == ScopeAssumption /\ ScopingInit => ScopeTyped
<1> SUFFICES ASSUME ScopeAssumption, ScopingInit
             PROVE  ScopeTyped
  OBVIOUS
<1>1. ScopeInv /\ ScopeTypes
  BY ScopeInvInit DEF ScopeInv
<1>2. \A p \in Seq(STRING) : Trimmed(p) \in Seq(STRING)
  BY TrimTyped DEF Trimmed
<1>3. {Trimmed(p) : p \in filter.paths} \ {<<>>} \subseteq Seq(STRING) \ {<<>>}
  BY <1>1, <1>2 DEF ScopeTypes, All
<1>4. Normalized(filter).paths \subseteq Seq(STRING) \ {<<>>}
  BY <1>3 DEF Normalized, All
<1> QED BY <1>1, <1>4 DEF ScopingInit, ScopeTyped

LEMMA ScopeTypedKept ==
  ASSUME ScopeTyped, [ScopingNext]_scoping
  PROVE  ScopeTyped'
<1>1. ScopeInv'
  BY ScopeInvStep DEF ScopeTyped
<1>2. UNCHANGED folder /\ rest' \subseteq rest
  BY DEF ScopingNext, MatchNext, MatchNone, scoping
<1> QED BY <1>1, <1>2 DEF ScopeTyped

LEMMA ScopeTypedSays == ASSUME ScopeTyped PROVE ScopingTypeOK
<1>1. ScopeTypes /\ folder \in Folders /\ rest \subseteq Seq(STRING) \ {<<>>}
  BY DEF ScopeTyped, ScopeInv
<1>2. filter.mode \in {"all", "include", "exclude"}
  <2>1. All.mode = "all"
    BY DEF All
  <2> QED BY <1>1, <2>1 DEF ScopeTypes
<1>3. filter.paths \subseteq Seq(STRING) \ {<<>>}
  BY <1>1 DEF ScopeTypes
<1> QED BY <1>1, <1>2, <1>3 DEF ScopeTypes, ScopingTypeOK

LEMMA NotifyTypedStart == NotifyAssumption /\ NotifyInit => NotifyTyped
BY NotifyInvInit DEF NotifyTyped, NotifyInit

LEMMA NotifyTypedKept ==
  ASSUME NotifyAssumption, NotifyTyped, [NotifyNext]_notifying
  PROVE  NotifyTyped'
<1>1. NotifyInv'
  BY NotifyInvNext DEF NotifyTyped
<1>2. NotifyInv /\ UNCHANGED report
  BY DEF NotifyTyped, NotifyNext, notifying, ListRules, NextRule, Attach, Link, Text, Toggle
<1>3. PICK n \in Nat : n = Len(report) /\ event \in 1 .. n + 1
  BY <1>2 DEF NotifyInv, NotifyTypes
<1>4. unlisted' \subseteq 1 .. n
  <2>1. CASE ListRules
    <3>1. event \in 1 .. n
      BY <1>3, <2>1 DEF ListRules, Over
    <3> QED BY <1>3, <2>1, <3>1 DEF ListRules, NotifyTyped
  <2>2. CASE ~ListRules
    <3>1. UNCHANGED unlisted
      BY <2>2 DEF NotifyNext, notifying, NextRule, Attach, Link, Text, Toggle
    <3> QED BY <1>3, <3>1 DEF NotifyTyped
  <2> QED BY <2>1, <2>2
<1>5. tried' \subseteq (1 .. n) \X Rules
  <2>1. CASE Text
    <3>1. event \in 1 .. n /\ queue # {} /\ queue \subseteq Rules
      BY <1>2, <1>3, <2>1 DEF Text, NotifyInv, NotifyTypes, LoopInBounds
    <3>2. First \in Rules
      BY <3>1, FirstQueued
    <3> QED BY <1>3, <2>1, <3>1, <3>2 DEF Text, NotifyTyped
  <2>2. CASE ~Text
    <3>1. UNCHANGED tried
      BY <2>2 DEF NotifyNext, notifying, ListRules, NextRule, Attach, Link, Toggle
    <3> QED BY <1>3, <3>1 DEF NotifyTyped
  <2> QED BY <2>1, <2>2
<1> QED BY <1>1, <1>2, <1>3, <1>4, <1>5 DEF NotifyTyped

LEMMA NotifyTypedSays == ASSUME NotifyTyped PROVE NotifyTypeOK
BY DEF NotifyTyped, NotifyInv, NotifyTypes, NotifyTypeOK

-----------------------------------------------------------------------------
(* Types of AdminConsole                                                   *)

\* Images name an album there is, or none.
Placed(pictures, S) == \A x \in DOMAIN pictures : pictures[x].album \in {0} \cup S

LEMMA PutPlaced ==
  ASSUME NEW pictures, NEW S, Placed(pictures, S), NEW id, NEW url, NEW home \in {0} \cup S
  PROVE  Placed(With(pictures, id, [url |-> url, album |-> home]), S)
BY DEF Placed, With

\* What the tables hold, for the ids there are.
Rowed(homes, pictures, ways, ids) ==
  /\ DOMAIN homes \subseteq ids.album /\ homes \in [DOMAIN homes -> Values]
  /\ DOMAIN pictures \subseteq ids.image /\ Placed(pictures, DOMAIN homes)
  /\ DOMAIN ways \subseteq ids.rule /\ ways \in [DOMAIN ways -> Values]
IdsNow == [album |-> Ids("album"), image |-> Ids("image"), rule |-> Ids("rule")]

ConsoleTyped ==
  /\ AuditInv /\ Rowed(albums, images, rules, IdsNow) /\ commanded \subseteq Ids("rule")
  /\ asked \in 0 .. MaxRequests /\ lost \in 0 .. MaxAuditFailures

LEMMA ConsoleTypedStart == ConsoleAssumption /\ ConsoleInit => ConsoleTyped
<1> SUFFICES ASSUME ConsoleAssumption, ConsoleInit
             PROVE  ConsoleTyped
  OBVIOUS
<1>1. AuditInv
  BY AuditInvInit
<1>2. /\ DOMAIN albums = {} /\ DOMAIN images = {} /\ DOMAIN rules = {}
      /\ albums \in [DOMAIN albums -> Values] /\ rules \in [DOMAIN rules -> Values]
  BY DEF ConsoleInit
<1>3. Rowed(albums, images, rules, IdsNow)
  BY <1>2 DEF Rowed, Placed
<1> QED BY <1>1, <1>3 DEF ConsoleTyped, ConsoleInit, ConsoleAssumption

\* No id is taken back.
LEMMA IdsStay ==
  ASSUME AuditTypes, UNCHANGED made \/ \E k \in Tables : Made(k)
  PROVE  /\ Ids("album") \subseteq Ids("album")' /\ Ids("image") \subseteq Ids("image")'
         /\ Ids("rule") \subseteq Ids("rule")'
<1>1. CASE UNCHANGED made
  BY <1>1 DEF Ids
<1>2. ASSUME NEW k \in Tables, Made(k)
      PROVE  /\ Ids("album") \subseteq Ids("album")' /\ Ids("image") \subseteq Ids("image")'
             /\ Ids("rule") \subseteq Ids("rule")'
  BY <1>2, IdsGrow DEF Tables
<1> QED BY <1>1, <1>2

\* Requests are counted, and so are the entries that are lost.
LEMMA CountersKept ==
  ASSUME ConsoleAssumption, ConsoleTyped, [ConsoleNext]_console
  PROVE  asked' \in 0 .. MaxRequests /\ lost' \in 0 .. MaxAuditFailures
<1>1. /\ asked \in 0 .. MaxRequests /\ lost \in 0 .. MaxAuditFailures
      /\ MaxRequests \in Nat /\ MaxAuditFailures \in Nat
  BY DEF ConsoleTyped, ConsoleAssumption
<1>2. asked' = asked \/ (asked < MaxRequests /\ asked' = asked + 1)
  <2> DEFINE Asked == asked < MaxRequests /\ asked' = asked + 1
  <2>1. \A h, k, op, id, v : Executed(h, k, op, id, v) => Asked
    BY DEF Executed
  <2>2. \A id : Commanded(id) => Asked
    BY DEF Commanded
  <2>3. \A h, id : deleteAlbum(h, id) => Asked
    BY DEF deleteAlbum
  <2>4. \/ UNCHANGED console \/ ConsoleCrash
        \/ \E h \in ConsoleHandlers : RecordAudit(h) \/ RecordAuditError(h)
        => asked' = asked
    BY DEF console, RecordAudit, RecordAuditError, ConsoleCrash
  <2> HIDE DEF Asked
  <2>5. Asked \/ asked' = asked
    BY <2>1, <2>2, <2>3, <2>4 DEF ConsoleNext, createAlbum, updateAlbum, createImage, updateImage,
           deleteImage, createRule, updateRule, deleteRule, scheduleAdd, scheduleRemove
  <2> QED BY <2>5 DEF Asked
<1>3. lost' = lost \/ (lost < MaxAuditFailures /\ lost' = lost + 1)
  BY DEF ConsoleNext, console, createAlbum, updateAlbum, deleteAlbum, createImage, updateImage,
         deleteImage, createRule, updateRule, deleteRule, scheduleAdd, scheduleRemove, RecordAudit,
         RecordAuditError, ConsoleCrash, Executed, Commanded, Lose
<1> QED BY <1>1, <1>2, <1>3

\* Where a statement leaves the tables.
TablesTyped == Rowed(albums, images, rules, IdsNow) /\ commanded \subseteq Ids("rule")

LEMMA AlbumsTyped ==
  ASSUME AuditTypes, TablesTyped, NEW h \in ConsoleHandlers, NEW v \in Values,
         createAlbum(h, v) \/ \E id \in Ids("album") : updateAlbum(h, id, v)
  PROVE  TablesTyped'
<1>1. /\ UNCHANGED <<images, rules, commanded>>
      /\ UNCHANGED made \/ Made("album")
      /\ \E x \in Ids("album")' : albums' = With(albums, x, v)
  <2>1. CASE createAlbum(h, v)
    <3>1. NextId("album") \in Ids("album")'
      BY <2>1, IdsGrow DEF createAlbum, Tables
    <3> QED BY <2>1, <3>1 DEF createAlbum, Executed
  <2>2. CASE \E id \in Ids("album") : updateAlbum(h, id, v)
    BY <2>2 DEF updateAlbum, Executed, Ids
  <2> QED BY <2>1, <2>2
<1>2. /\ Ids("album") \subseteq Ids("album")' /\ Ids("image") \subseteq Ids("image")'
      /\ Ids("rule") \subseteq Ids("rule")'
  BY <1>1, IdsStay DEF Tables
<1>3. PICK x, next : x \in Ids("album")' /\ next = albums' /\ next = With(albums, x, v)
  BY <1>1
<1>4. /\ DOMAIN next = DOMAIN albums \cup {x} /\ DOMAIN next \subseteq Ids("album")'
      /\ next \in [DOMAIN next -> Values]
  <2>1. DOMAIN albums \subseteq Ids("album") /\ albums \in [DOMAIN albums -> Values]
    BY DEF TablesTyped, Rowed, IdsNow
  <2> QED BY <1>2, <1>3, <2>1 DEF With
<1>5. Placed(images, DOMAIN next)
  BY <1>4 DEF TablesTyped, Rowed, Placed
<1> QED BY <1>1, <1>2, <1>3, <1>4, <1>5 DEF TablesTyped, Rowed, IdsNow, Placed

LEMMA RulesTyped ==
  ASSUME AuditTypes, TablesTyped, NEW v \in Values,
         \/ \E h \in ConsoleHandlers : createRule(h, v) \/ \E id \in Ids("rule") : updateRule(h, id, v)
         \/ scheduleAdd(v)
  PROVE  TablesTyped'
<1>1. /\ UNCHANGED <<albums, images>>
      /\ UNCHANGED made \/ Made("rule")
      /\ \E x \in Ids("rule")' : rules' = With(rules, x, v) /\ commanded' \subseteq commanded \cup {x}
  <2>1. CASE scheduleAdd(v) \/ \E h \in ConsoleHandlers : createRule(h, v)
    <3>1. NextId("rule") \in Ids("rule")'
      BY <2>1, IdsGrow DEF createRule, scheduleAdd, Tables
    <3> QED BY <2>1, <3>1 DEF createRule, scheduleAdd, Executed, Commanded
  <2>2. CASE \E h \in ConsoleHandlers : \E id \in Ids("rule") : updateRule(h, id, v)
    BY <2>2 DEF updateRule, Executed, Ids
  <2> QED BY <2>1, <2>2
<1>2. /\ Ids("album") \subseteq Ids("album")' /\ Ids("image") \subseteq Ids("image")'
      /\ Ids("rule") \subseteq Ids("rule")'
  BY <1>1, IdsStay DEF Tables
<1>3. PICK x, next :
        /\ x \in Ids("rule")' /\ next = rules' /\ next = With(rules, x, v)
        /\ commanded' \subseteq commanded \cup {x}
  BY <1>1
<1>4. DOMAIN next \subseteq Ids("rule")' /\ next \in [DOMAIN next -> Values]
  <2>1. DOMAIN rules \subseteq Ids("rule") /\ rules \in [DOMAIN rules -> Values]
    BY DEF TablesTyped, Rowed, IdsNow
  <2> QED BY <1>2, <1>3, <2>1 DEF With
<1> QED BY <1>1, <1>2, <1>3, <1>4 DEF TablesTyped, Rowed, IdsNow, Placed

LEMMA ImagesTyped ==
  ASSUME AuditTypes, TablesTyped, NEW h \in ConsoleHandlers, NEW v \in Values, NEW home,
         createImage(h, v, home) \/ \E id \in Ids("image") : updateImage(h, id, v, home)
  PROVE  TablesTyped'
<1>1. /\ UNCHANGED <<albums, rules, commanded>> /\ home \in {0} \cup DOMAIN albums
      /\ UNCHANGED made \/ Made("image")
      /\ \E x \in Ids("image")' : images' = With(images, x, [url |-> v, album |-> home])
  <2>1. CASE createImage(h, v, home)
    <3>1. NextId("image") \in Ids("image")'
      BY <2>1, IdsGrow DEF createImage, Tables
    <3> QED BY <2>1, <3>1 DEF createImage, Executed
  <2>2. CASE \E id \in Ids("image") : updateImage(h, id, v, home)
    BY <2>2 DEF updateImage, Executed, Ids
  <2> QED BY <2>1, <2>2
<1>2. /\ Ids("album") \subseteq Ids("album")' /\ Ids("image") \subseteq Ids("image")'
      /\ Ids("rule") \subseteq Ids("rule")'
  BY <1>1, IdsStay DEF Tables
<1>3. PICK x, next :
        /\ x \in Ids("image")' /\ next = images'
        /\ next = With(images, x, [url |-> v, album |-> home])
  BY <1>1
<1>4. Placed(next, DOMAIN albums)
  BY <1>1, <1>3, PutPlaced DEF TablesTyped, Rowed
<1>5. DOMAIN next \subseteq Ids("image")'
  BY <1>2, <1>3 DEF With, TablesTyped, Rowed, IdsNow
<1> QED BY <1>1, <1>2, <1>3, <1>4, <1>5 DEF TablesTyped, Rowed, IdsNow

LEMMA DeletionsTyped ==
  ASSUME TablesTyped,
         \/ \E h \in ConsoleHandlers :
              \/ \E id \in Ids("album") : deleteAlbum(h, id)
              \/ \E id \in Ids("image") : deleteImage(h, id)
              \/ \E id \in Ids("rule") : deleteRule(h, id)
         \/ \E id \in Ids("rule") : scheduleRemove(id)
  PROVE  TablesTyped'
<1>1. /\ UNCHANGED made /\ Ids("album")' = Ids("album") /\ Ids("image")' = Ids("image")
      /\ Ids("rule")' = Ids("rule")
  BY DEF deleteAlbum, deleteImage, deleteRule, scheduleRemove, Executed, Commanded, Ids
<1>2. ASSUME NEW h \in ConsoleHandlers, NEW id \in Ids("album"), deleteAlbum(h, id)
      PROVE  TablesTyped'
  <2>1. UNCHANGED <<rules, commanded>>
    BY <1>2 DEF deleteAlbum
  <2>2. PICK homes, pictures :
          /\ homes = albums' /\ homes = Without(albums, {id})
          /\ pictures = images' /\ pictures = Without(images, Inside(id))
    BY <1>2 DEF deleteAlbum
  <2>3. /\ DOMAIN homes = DOMAIN albums \ {id} /\ DOMAIN homes \subseteq Ids("album")
        /\ homes \in [DOMAIN homes -> Values]
    <3>1. DOMAIN albums \subseteq Ids("album") /\ albums \in [DOMAIN albums -> Values]
      BY DEF TablesTyped, Rowed, IdsNow
    <3> QED BY <2>2, <3>1 DEF Without
  <2>4. Placed(pictures, DOMAIN homes) /\ DOMAIN pictures \subseteq Ids("image")
    BY <2>2, <2>3 DEF Without, Inside, Placed, TablesTyped, Rowed, IdsNow
  <2> QED BY <1>1, <2>1, <2>2, <2>3, <2>4 DEF TablesTyped, Rowed, IdsNow
<1>3. ASSUME NEW h \in ConsoleHandlers, NEW id \in Ids("image"), deleteImage(h, id)
      PROVE  TablesTyped'
  <2>1. UNCHANGED <<albums, rules, commanded>>
    BY <1>3 DEF deleteImage, Executed
  <2>2. PICK pictures : pictures = images' /\ pictures = Without(images, {id})
    BY <1>3 DEF deleteImage
  <2>3. Placed(pictures, DOMAIN albums) /\ DOMAIN pictures \subseteq Ids("image")
    BY <2>2 DEF Without, Placed, TablesTyped, Rowed, IdsNow
  <2> QED BY <1>1, <2>1, <2>2, <2>3 DEF TablesTyped, Rowed, IdsNow
<1>4. ASSUME NEW id \in Ids("rule"),
             scheduleRemove(id) \/ \E h \in ConsoleHandlers : deleteRule(h, id)
      PROVE  TablesTyped'
  <2>1. UNCHANGED <<albums, images>> /\ commanded' \subseteq commanded \cup {id}
    BY <1>4 DEF deleteRule, scheduleRemove, Executed, Commanded
  <2>2. PICK ways : ways = rules' /\ ways = Without(rules, {id})
    BY <1>4 DEF deleteRule, scheduleRemove
  <2>3. DOMAIN ways \subseteq Ids("rule") /\ ways \in [DOMAIN ways -> Values]
    <3>1. DOMAIN rules \subseteq Ids("rule") /\ rules \in [DOMAIN rules -> Values]
      BY DEF TablesTyped, Rowed, IdsNow
    <3> QED BY <2>2, <3>1 DEF Without
  <2> QED BY <1>1, <2>1, <2>2, <2>3 DEF TablesTyped, Rowed, IdsNow
<1> QED BY <1>2, <1>3, <1>4

LEMMA ConsoleTypedKept ==
  ASSUME ConsoleAssumption, ConsoleTyped, [ConsoleNext]_console
  PROVE  ConsoleTyped'
<1>1. AuditInv' /\ AuditTypes /\ TablesTyped
  BY AuditInvNext DEF ConsoleTyped, AuditInv, TablesTyped
<1>2. asked' \in 0 .. MaxRequests /\ lost' \in 0 .. MaxAuditFailures
  BY CountersKept
<1>3. TablesTyped'
  <2>1. CASE UNCHANGED <<albums, images, rules, made, commanded>>
    BY <1>1, <2>1 DEF TablesTyped, Rowed, IdsNow, Ids, Placed
  <2>2. ASSUME NEW h \in ConsoleHandlers, NEW v \in Values,
               createAlbum(h, v) \/ \E id \in Ids("album") : updateAlbum(h, id, v)
        PROVE  TablesTyped'
    BY <1>1, <2>2, AlbumsTyped
  <2>3. ASSUME NEW h \in ConsoleHandlers, NEW v \in Values, NEW home,
               createImage(h, v, home) \/ \E id \in Ids("image") : updateImage(h, id, v, home)
        PROVE  TablesTyped'
    BY <1>1, <2>3, ImagesTyped
  <2>4. ASSUME NEW v \in Values,
               \/ \E h \in ConsoleHandlers : createRule(h, v) \/ \E id \in Ids("rule") : updateRule(h, id, v)
               \/ scheduleAdd(v)
        PROVE  TablesTyped'
    BY <1>1, <2>4, RulesTyped
  <2>5. ASSUME \/ \E h \in ConsoleHandlers :
                    \/ \E id \in Ids("album") : deleteAlbum(h, id)
                    \/ \E id \in Ids("image") : deleteImage(h, id)
                    \/ \E id \in Ids("rule") : deleteRule(h, id)
               \/ \E id \in Ids("rule") : scheduleRemove(id)
        PROVE  TablesTyped'
    BY <1>1, <2>5, DeletionsTyped
  <2> QED BY <2>1, <2>2, <2>3, <2>4, <2>5
          DEF ConsoleNext, console, RecordAudit, RecordAuditError, ConsoleCrash
<1> QED BY <1>1, <1>2, <1>3 DEF ConsoleTyped, TablesTyped

LEMMA ConsoleTypedSays == ASSUME ConsoleTyped PROVE ConsoleTypeOK
BY DEF ConsoleTyped, AuditInv, AuditTypes, Rowed, Placed, IdsNow, ConsoleTypeOK

-----------------------------------------------------------------------------
(* The bot's components side by side                                       *)

\* What is invariant of the component that runs.
BotInv ==
  /\ part = "reactions" => FeedbackInv
  /\ part = "settings"  => KeptInv
  /\ part = "packing"   => PackTypes
  /\ part = "posting"   => NoticeInv
  /\ part = "paging"    => PageInv
  /\ part = "notifying" => NotifyTyped
  /\ part = "logging"   => LogTyped
  /\ part = "scoping"   => ScopeTyped
  /\ part = "comparing" => CompareInv
  /\ part = "linking"   => LinkTyped
  /\ part = "console"   => ConsoleTyped

\* Whichever component is to run, all of them start in order.
LEMMA BotStarts == BotInit => BotInv
<1> SUFFICES ASSUME BotInit
             PROVE  BotInv
  OBVIOUS
<1>1. FeedbackInv /\ KeptInv /\ CompareInv
  BY FeedbackAtFirst, KeptAtFirst, CompareStarts DEF BotInit
<1>2. PackTypes /\ NoticeInv /\ PageInv /\ NotifyTyped
  BY PackingAssumption, PackTypesStart, DeliveryAssumption, NoticeInvInit, PagingAssumption, PagesStart,
     NotifyAssumption, NotifyTypedStart DEF BotInit
<1>3. LogTyped /\ ScopeTyped /\ LinkTyped /\ ConsoleTyped
  BY JobLogAssumption, LogTypedStart, ScopeAssumption, ScopeTypedStart, LinksAssumption, LinkTypedStart,
     ConsoleAssumption, ConsoleTypedStart DEF BotInit
<1> QED BY <1>1, <1>2, <1>3 DEF BotInv

\* A step of the bot is one of the component that runs, or leaves it alone.
LEMMA OwnSteps ==
  ASSUME [BotNext]_botVars
  PROVE  /\ part' = part
         /\ part = "reactions" => [Next]_vars
         /\ part = "settings"  => [SettingsNext]_settings
         /\ part = "packing"   => [PackingNext]_packing
         /\ part = "posting"   => [PostingNext]_posting
         /\ part = "paging"    => [PagingNext]_paging
         /\ part = "notifying" => [NotifyNext]_notifying
         /\ part = "logging"   => [LoggingNext]_jobLog
         /\ part = "scoping"   => [ScopingNext]_scoping
         /\ part = "comparing" => [ComparingNext]_comparing
         /\ part = "linking"   => [LinkingNext]_linking
         /\ part = "console"   => [ConsoleNext]_console
<1>1. CASE UNCHANGED botVars
  BY <1>1 DEF botVars
<1>2. CASE ReactionStep
  BY <1>2 DEF ReactionStep, Alone
<1>3. CASE SettingsStep
  BY <1>3 DEF SettingsStep, Alone
<1>4. CASE PackingStep
  BY <1>4 DEF PackingStep, Alone
<1>5. CASE PostingStep
  BY <1>5 DEF PostingStep, Alone
<1>6. CASE PagingStep
  BY <1>6 DEF PagingStep, Alone
<1>7. CASE NotifyingStep
  BY <1>7 DEF NotifyingStep, Alone
<1>8. CASE LoggingStep
  BY <1>8 DEF LoggingStep, Alone
<1>9. CASE ScopingStep
  BY <1>9 DEF ScopingStep, Alone
<1>10. CASE ComparingStep
  BY <1>10 DEF ComparingStep, Alone
<1>11. CASE LinkingStep
  BY <1>11 DEF LinkingStep, Alone
<1>12. CASE ConsoleStep
  BY <1>12 DEF ConsoleStep, Alone
<1> QED BY <1>1, <1>2, <1>3, <1>4, <1>5, <1>6, <1>7, <1>8, <1>9, <1>10, <1>11, <1>12 DEF BotNext

LEMMA BotKeeps ==
  ASSUME BotInv, [BotNext]_botVars
  PROVE  BotInv'
<1>1. part' = part
  BY OwnSteps
<1>2. part = "reactions" => FeedbackInv'
  BY OwnSteps, FeedbackByEveryStep DEF BotInv
<1>3. part = "settings" => KeptInv'
  BY OwnSteps, KeptByEveryStep DEF BotInv
<1>4. part = "packing" => PackTypes'
  BY OwnSteps, PackingAssumption, PackTypesKept DEF BotInv
<1>5. part = "posting" => NoticeInv'
  BY OwnSteps, DeliveryAssumption, NoticeInvStep DEF BotInv
<1>6. part = "paging" => PageInv'
  BY OwnSteps, PagingAssumption, PagesStep DEF BotInv
<1>7. part = "notifying" => NotifyTyped'
  BY OwnSteps, NotifyAssumption, NotifyTypedKept DEF BotInv
<1>8. part = "logging" => LogTyped'
  BY OwnSteps, JobLogAssumption, LogTypedKept DEF BotInv
<1>9. part = "scoping" => ScopeTyped'
  BY OwnSteps, ScopeTypedKept DEF BotInv
<1>10. part = "comparing" => CompareInv'
  BY OwnSteps, CompareKeeps DEF BotInv
<1>11. part = "linking" => LinkTyped'
  BY OwnSteps, LinksAssumption, LinkTypedKept DEF BotInv
<1>12. part = "console" => ConsoleTyped'
  BY OwnSteps, ConsoleAssumption, ConsoleTypedKept DEF BotInv
<1> QED BY <1>1, <1>2, <1>3, <1>4, <1>5, <1>6, <1>7, <1>8, <1>9, <1>10, <1>11, <1>12 DEF BotInv

(***************************************************************************)
(* Of the bot's smaller components, whichever runs and for however long,   *)
(* every variable keeps its type and every counter its bound: fitToLimit   *)
(* and chunkOrdered (internal/controller/discord/bot.go) hold files of the *)
(* pool, no list one of them twice; the jobs page names jobs there are; an *)
(* image's album is one there is; and no table has a row of an id that its *)
(* sequence never gave.                                                    *)
(***************************************************************************)
THEOREM BotTypes == BotSpec => []BotTypeOK
<1>1. BotInv => BotTypeOK
  <2> SUFFICES ASSUME BotInv
               PROVE  BotTypeOK
    OBVIOUS
  <2>1. /\ part = "reactions" => TypeOK
        /\ part = "settings"  => SettingsTypeOK
        /\ part = "packing"   => PackingTypeOK
        /\ part = "posting"   => PostingTypeOK
        /\ part = "notifying" => NotifyTypeOK
    BY PackTypesSay, NotifyTypedSays DEF BotInv, FeedbackInv, KeptInv, NoticeInv, NoticeTypes
  <2>2. part = "paging" => PagingTypeOK
    <3> SUFFICES ASSUME PageTypes
                 PROVE  PagingTypeOK
      BY DEF BotInv, PageInv
    <3>1. \A h \in Handlers : handler[h].page \in Seq(ImageIds)
      BY DEF PageTypes, Locals
    <3>2. /\ thread.open \in BOOLEAN /\ thread.walked \in Seq(ImageIds)
          /\ thread.arrived \subseteq ImageIds /\ thread.seen \in Nat
      BY DEF PageTypes
    <3>3. {shifted, again, cut} \subseteq BOOLEAN
      BY DEF PageTypes
    <3> QED BY <3>1, <3>2, <3>3 DEF PageTypes, PagingTypeOK, Presses
  <2>3. /\ part = "logging"   => LoggingTypeOK
        /\ part = "scoping"   => ScopingTypeOK
        /\ part = "comparing" => ComparingTypeOK
        /\ part = "linking"   => LinkingTypeOK
        /\ part = "console"   => ConsoleTypeOK
    BY LogTypedSays, ScopeTypedSays, LinkTypedSays, ConsoleTypedSays DEF BotInv, CompareInv
  <2> QED BY <2>1, <2>2, <2>3 DEF BotTypeOK
<1> QED BY <1>1, BotStarts, BotKeeps, PTL DEF BotSpec
================================================================================
