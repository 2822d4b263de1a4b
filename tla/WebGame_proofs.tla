---------------------------- MODULE WebGame_proofs ----------------------------
(***************************************************************************)
(* Proofs about the parts of the web client that are played in: hotseat    *)
(* games (Hotseat), dialogs (GameDialog, as Boxes), cities (City, as Town),*)
(* the orders for units (UnitOrders, as Orders), how units are shown       *)
(* (UnitPictures, as Band), the overview map (Overview, as Minimap), the   *)
(* tiles around cities and the geometry of maps (CityTiles, as Around) and *)
(* the pictures of tiles (Sprites, as Pics).                               *)
(*                                                                         *)
(* For every number of players, dialogs, cities and units; each part has   *)
(* parameters and state of its own.  The first lemmas are about the        *)
(* sequences that all of them keep.                                        *)
(***************************************************************************)
EXTENDS Hotseat, FiniteSetTheorems, SequenceTheorems, WellFoundedInduction, TLAPS

\* A sequence, whatever it is of.
IsSeq(s) == s \in Seq({s[i] : i \in DOMAIN s})

\* A sequence of any set is one.
LEMMA SequenceIs ==
  ASSUME NEW S, NEW s \in Seq(S)
  PROVE  IsSeq(s)
<1>1. s \in [1..Len(s) -> S] /\ Len(s) \in Nat
  BY LenProperties
<1>2. s \in [1..Len(s) -> {s[i] : i \in DOMAIN s}]
  BY <1>1
<1>. QED
  BY <1>1, <1>2, SeqDef DEF IsSeq

\* A function on the first numbers is one.
LEMMA FunctionIs ==
  ASSUME NEW n \in Nat, NEW s, DOMAIN s = 1..n, s = [i \in 1..n |-> s[i]]
  PROVE  IsSeq(s) /\ Len(s) = n
<1> DEFINE S == {s[i] : i \in 1..n}
<1>1. s \in [1..n -> S]
  OBVIOUS
<1>. HIDE DEF S
<1>2. s \in Seq(S)
  <2>1. \E k \in Nat : s \in [1..k -> S]
    BY <1>1
  <2>2. Seq(S) = UNION {[1..k -> S] : k \in Nat}
    BY SeqDef
  <2>. QED
    BY <2>1, <2>2, Zenon
<1>3. Len(s) \in Nat /\ DOMAIN s = 1..Len(s)
  BY <1>2, LenProperties
<1>. QED
  BY <1>2, <1>3, SequenceIs

\* The places of a sequence.
LEMMA SequenceHas ==
  ASSUME NEW s, IsSeq(s)
  PROVE  Len(s) \in Nat /\ DOMAIN s = 1..Len(s) /\ s = [i \in 1..Len(s) |-> s[i]]
<1>1. Len(s) \in Nat /\ s \in [1..Len(s) -> {s[i] : i \in DOMAIN s}]
  BY LenProperties DEF IsSeq
<1>. QED
  BY <1>1

\* A sequence and one element more.
LEMMA Appended ==
  ASSUME NEW s, IsSeq(s), NEW x
  PROVE  /\ IsSeq(Append(s, x)) /\ Len(Append(s, x)) = Len(s) + 1
         /\ DOMAIN Append(s, x) = 1..Len(s) + 1
         /\ Append(s, x)[Len(s) + 1] = x /\ \A i \in 1..Len(s) : Append(s, x)[i] = s[i]
<1> DEFINE S == {s[i] : i \in DOMAIN s} \cup {x}
<1>1. s \in Seq({s[i] : i \in DOMAIN s})
  BY DEF IsSeq
<1>2. s \in Seq(S) /\ x \in S
  BY <1>1, SeqDef
<1>. HIDE DEF S
<1>3. /\ Append(s, x) \in Seq(S) /\ Len(Append(s, x)) = Len(s) + 1
      /\ \A i \in 1..Len(s) : Append(s, x)[i] = s[i]
      /\ Append(s, x)[Len(s) + 1] = x
  BY <1>2, AppendProperties
<1>4. IsSeq(Append(s, x))
  BY <1>3, SequenceIs
<1>. QED
  BY <1>3, <1>4, SequenceHas

\* The empty sequence.
LEMMA EmptyIs == IsSeq(<<>>) /\ DOMAIN <<>> = {} /\ Len(<<>>) = 0
<1>1. <<>> \in Seq({}) /\ Len(<<>>) = 0
  BY EmptySeq
<1>2. IsSeq(<<>>)
  BY <1>1, SequenceIs
<1>3. DOMAIN <<>> = 1..0
  BY <1>1, <1>2, SequenceHas
<1>. QED
  BY <1>1, <1>2, <1>3

\* What holds first and then from each number to the next holds up to n: induction
\* as a fact about sets of numbers.
LEMMA UpTo ==
  ASSUME NEW n \in Nat, NEW T, T \subseteq 0..n, 0 \in T, \A k \in 0..n : k + 1 \in 0..n /\ k \in T => k + 1 \in T
  PROVE  T = 0..n
<1> DEFINE B == (0..n) \ T
<1> SUFFICES ASSUME B # {} PROVE FALSE
  OBVIOUS
<1>1. PICK x \in B : \A y \in B : <<y, x>> \notin OpToRel(<, Nat)
  <2>1. B \subseteq Nat
    OBVIOUS
  <2>. HIDE DEF B
  <2>. QED
    BY <2>1, WFMin, NatLessThanWellFounded, Zenon
<1>2. x \in 1..n /\ x - 1 \in 0..n /\ (x - 1) + 1 = x
  OBVIOUS
<1>3. x - 1 \notin B
  <2>1. x - 1 < x /\ x - 1 \in Nat /\ x \in Nat
    BY <1>2
  <2>2. <<x - 1, x>> \in OpToRel(<, Nat)
    BY <2>1 DEF OpToRel
  <2>. QED
    BY <1>1, <2>2
<1>. QED
  BY <1>2, <1>3

\* The function that filters is what its recursion says.
KeptIs(s, P, n, f) ==
  f = [i \in 0..n |-> IF i = 0 THEN << >> ELSE IF i \in P THEN Append(f[i - 1], s[i]) ELSE f[i - 1]]

LEMMA KeptExists ==
  ASSUME NEW s, IsSeq(s), NEW P
  PROVE  \E f : KeptIs(s, P, Len(s), f)
<1> DEFINE T == {n \in 0..Len(s) : \E f : KeptIs(s, P, n, f)}
<1>0. Len(s) \in Nat
  BY SequenceHas
<1>1. 0 \in T
  <2>1. KeptIs(s, P, 0, [i \in 0..0 |-> << >>])
    BY DEF KeptIs
  <2>. QED
    BY <1>0, <2>1
<1>2. ASSUME NEW n \in 0..Len(s), n + 1 \in 0..Len(s), n \in T PROVE n + 1 \in T
  <2>1. PICK f : KeptIs(s, P, n, f)
    BY <1>2
  <2> DEFINE g == [i \in 0..n + 1 |-> IF i <= n THEN f[i]
                                      ELSE IF n + 1 \in P THEN Append(f[n], s[n + 1]) ELSE f[n]]
  <2>2. \A i \in 0..n : f[i] = IF i = 0 THEN << >> ELSE IF i \in P THEN Append(f[i - 1], s[i]) ELSE f[i - 1]
    BY <2>1, Zenon DEF KeptIs
  <2>3. \A i \in 1..n : f[i] = IF i \in P THEN Append(f[i - 1], s[i]) ELSE f[i - 1]
    <3>1. \A i \in 1..n : i \in 0..n /\ i # 0
      OBVIOUS
    <3>. QED
      BY <2>2, <3>1, Zenon
  <2>4. f[0] = << >>
    BY <2>2
  <2>5. \A i \in 0..n : g[i] = f[i]
    OBVIOUS
  <2>6. g[n + 1] = IF n + 1 \in P THEN Append(f[n], s[n + 1]) ELSE f[n]
    OBVIOUS
  <2>7. ASSUME NEW i \in 0..n + 1
        PROVE  g[i] = IF i = 0 THEN << >> ELSE IF i \in P THEN Append(g[i - 1], s[i]) ELSE g[i - 1]
    <3>. HIDE DEF g
    <3>1. CASE i = 0
      BY <2>4, <2>5, <3>1
    <3>2. CASE i \in 1..n
      <4>1. i \in 0..n /\ i - 1 \in 0..n /\ i # 0
        BY <3>2
      <4>. QED
        BY <2>3, <2>5, <3>2, <4>1, Zenon
    <3>3. CASE i = n + 1
      <4>1. i # 0 /\ i - 1 = n /\ n \in 0..n
        BY <3>3
      <4>. QED
        BY <2>5, <2>6, <3>3, <4>1, Zenon
    <3>. QED
      BY <3>1, <3>2, <3>3
  <2>8. KeptIs(s, P, n + 1, g)
    <3>1. g = [i \in 0..n + 1 |-> g[i]]
      OBVIOUS
    <3>. HIDE DEF g
    <3>. QED
      BY <2>7, <3>1, Zenon DEF KeptIs
  <2>. QED
    BY <1>2, <2>8
<1>3. T = 0..Len(s)
  <2>1. T \subseteq 0..Len(s)
    OBVIOUS
  <2>. HIDE DEF T
  <2>. QED
    BY <1>0, <1>1, <1>2, <2>1, UpTo
<1>. QED
  BY <1>0, <1>3

\* Places of s, ascending, at which t has its elements: all of P.
Selects(s, P, t, g) ==
  /\ DOMAIN g = DOMAIN t
  /\ \A i \in DOMAIN t : g[i] \in DOMAIN s \cap P /\ t[i] = s[g[i]]
  /\ \A i, j \in DOMAIN t : i < j => g[i] < g[j]
  /\ \A k \in DOMAIN s \cap P : \E i \in DOMAIN t : g[i] = k

\* filter() keeps the elements at the places and their order.
LEMMA KeepSelects ==
  ASSUME NEW s, IsSeq(s), NEW P
  PROVE  IsSeq(Keep(s, P)) /\ \E g : Selects(s, P, Keep(s, P), g)
<1> DEFINE F == CHOOSE f : KeptIs(s, P, Len(s), f)
           Upto(n) == {k \in P : k <= n}
           T == {n \in 0..Len(s) : IsSeq(F[n]) /\ \E g : Selects(s, Upto(n), F[n], g)}
<1>0. Len(s) \in Nat /\ DOMAIN s = 1..Len(s)
  BY SequenceHas
<1>1. Keep(s, P) = F[Len(s)]
  BY Zenon DEF Keep, KeptIs
<1>2. KeptIs(s, P, Len(s), F)
  BY KeptExists, Zenon
<1>. HIDE DEF F
<1>3. F[0] = << >> /\ \A n \in 1..Len(s) : F[n] = IF n \in P THEN Append(F[n - 1], s[n]) ELSE F[n - 1]
  <2>1. \A i \in 0..Len(s) : F[i] = IF i = 0 THEN << >> ELSE IF i \in P THEN Append(F[i - 1], s[i]) ELSE F[i - 1]
    BY <1>2, Zenon DEF KeptIs
  <2>2. 0 \in 0..Len(s) /\ \A i \in 1..Len(s) : i \in 0..Len(s) /\ i # 0
    BY <1>0
  <2>. QED
    BY <2>1, <2>2, Zenon
<1>4. 0 \in T
  <2>1. Selects(s, Upto(0), << >>, << >>)
    BY <1>0, EmptyIs DEF Selects
  <2>. QED
    <3>. HIDE DEF Upto
    <3>1. IsSeq(F[0]) /\ Selects(s, Upto(0), F[0], << >>)
      BY <1>3, <2>1, EmptyIs
    <3>2. \E g : Selects(s, Upto(0), F[0], g)
      BY <3>1
    <3>. QED
      BY <1>0, <3>1, <3>2
<1>5. ASSUME NEW n \in 0..Len(s), n + 1 \in 0..Len(s), n \in T PROVE n + 1 \in T
  <2>1. PICK g : Selects(s, Upto(n), F[n], g)
    BY <1>5
  <2>2. IsSeq(F[n]) /\ n + 1 \in 1..Len(s) /\ (n + 1) - 1 = n
    BY <1>5
  <2>. PICK t : t = F[n]
    OBVIOUS
  <2>3. DOMAIN t = 1..Len(t) /\ Len(t) \in Nat /\ IsSeq(t)
    BY <2>2, SequenceHas
  <2>4. /\ DOMAIN g = DOMAIN t
        /\ \A i \in DOMAIN t : g[i] \in Nat /\ g[i] \in DOMAIN s /\ g[i] \in P /\ g[i] <= n /\ t[i] = s[g[i]]
        /\ \A i, j \in DOMAIN t : i < j => g[i] < g[j]
        /\ \A k \in DOMAIN s : k \in P /\ k <= n => \E i \in DOMAIN t : g[i] = k
    BY <1>0, <2>1 DEF Selects
  <2>5. CASE n + 1 \in P
    <3> DEFINE u == Append(t, s[n + 1])
               h == [i \in 1..Len(t) + 1 |-> IF i <= Len(t) THEN g[i] ELSE n + 1]
    <3>1. F[n + 1] = u
      BY <1>3, <2>2, <2>5
    <3>2. IsSeq(u)
      BY <2>3, Appended
    <3>3. DOMAIN u = 1..Len(t) + 1
      BY <2>3, Appended
    <3>4. u[Len(t) + 1] = s[n + 1]
      BY <2>3, Appended
    <3>5. \A i \in 1..Len(t) : u[i] = t[i]
      BY <2>3, Appended
    <3>. HIDE DEF u
    <3>6. \A i \in DOMAIN u : h[i] \in DOMAIN s \cap Upto(n + 1) /\ u[i] = s[h[i]]
      BY <1>0, <2>2, <2>3, <2>4, <2>5, <3>3, <3>4, <3>5
    <3>7. \A i, j \in DOMAIN u : i < j => h[i] < h[j]
      BY <1>0, <2>2, <2>3, <2>4, <3>3
    <3>8. ASSUME NEW k \in DOMAIN s \cap Upto(n + 1) PROVE \E i \in DOMAIN u : h[i] = k
      <4>1. CASE k = n + 1
        <5>1. Len(t) + 1 \in DOMAIN u /\ h[Len(t) + 1] = n + 1
          BY <2>3, <3>3
        <5>. QED
          BY <4>1, <5>1
      <4>2. CASE k # n + 1
        <5>1. k <= n /\ k \in DOMAIN s /\ k \in P
          BY <1>0, <4>2
        <5>2. PICK i \in DOMAIN t : g[i] = k
          BY <2>4, <5>1
        <5>3. i \in DOMAIN u /\ h[i] = g[i]
          BY <2>3, <3>3
        <5>. QED
          BY <5>2, <5>3
      <4>. QED
        BY <4>1, <4>2
    <3>9. DOMAIN h = DOMAIN u
      BY <3>3
    <3>. HIDE DEF h
    <3>10. Selects(s, Upto(n + 1), u, h)
      BY <3>6, <3>7, <3>8, <3>9 DEF Selects
    <3>. QED
      BY <1>5, <3>1, <3>2, <3>10
  <2>6. CASE n + 1 \notin P
    <3>1. F[n + 1] = F[n]
      BY <1>3, <2>2, <2>6
    <3>2. Upto(n + 1) \cap DOMAIN s = Upto(n) \cap DOMAIN s
      BY <1>0, <2>6
    <3>3. Selects(s, Upto(n + 1), F[n], g)
      <4>1. \A k : k \in DOMAIN s \cap Upto(n + 1) <=> k \in DOMAIN s \cap Upto(n)
        BY <3>2
      <4>. HIDE DEF Upto
      <4>. QED
        BY <2>1, <4>1 DEF Selects
    <3>. QED
      BY <1>5, <2>2, <3>1, <3>3
  <2>. QED
    BY <2>5, <2>6
<1>6. T = 0..Len(s)
  <2>1. T \subseteq 0..Len(s)
    OBVIOUS
  <2>. HIDE DEF T
  <2>. QED
    BY <1>0, <1>4, <1>5, <2>1, UpTo
<1>7. IsSeq(F[Len(s)]) /\ \E g : Selects(s, Upto(Len(s)), F[Len(s)], g)
  <2>. HIDE DEF Upto
  <2>1. Len(s) \in T
    <3>. HIDE DEF T
    <3>. QED
      BY <1>0, <1>6
  <2>. QED
    BY <2>1
<1>8. PICK g : Selects(s, Upto(Len(s)), F[Len(s)], g)
  BY <1>7
<1>9. \A k : k \in DOMAIN s \cap Upto(Len(s)) <=> k \in DOMAIN s \cap P
  BY <1>0
<1>10. Selects(s, P, F[Len(s)], g)
  <2>. HIDE DEF Upto
  <2>. QED
    BY <1>8, <1>9 DEF Selects
<1>. QED
  BY <1>1, <1>7, <1>10

\* Two sequences, one after the other.
LEMMA Joined ==
  ASSUME NEW s, IsSeq(s), NEW t, IsSeq(t)
  PROVE  /\ IsSeq(s \o t) /\ Len(s \o t) = Len(s) + Len(t)
         /\ \A i \in 1..Len(s) : (s \o t)[i] = s[i]
         /\ \A i \in 1..Len(t) : (s \o t)[Len(s) + i] = t[i]
<1> DEFINE S == {s[i] : i \in DOMAIN s} \cup {t[i] : i \in DOMAIN t}
<1>1. s \in Seq({s[i] : i \in DOMAIN s}) /\ t \in Seq({t[i] : i \in DOMAIN t})
  BY DEF IsSeq
<1>2. s \in Seq(S) /\ t \in Seq(S)
  BY <1>1, SeqDef
<1>. HIDE DEF S
<1>3. /\ s \o t \in Seq(S) /\ Len(s \o t) = Len(s) + Len(t)
      /\ \A i \in 1..Len(s) + Len(t) : (s \o t)[i] = IF i <= Len(s) THEN s[i] ELSE t[i - Len(s)]
  BY <1>2, ConcatProperties
<1>4. Len(s) \in Nat /\ Len(t) \in Nat
  BY SequenceHas
<1>5. \A i \in 1..Len(s) : (s \o t)[i] = s[i]
  BY <1>3, <1>4
<1>6. ASSUME NEW i \in 1..Len(t) PROVE (s \o t)[Len(s) + i] = t[i]
  <2>1. Len(s) + i \in 1..Len(s) + Len(t) /\ ~(Len(s) + i <= Len(s)) /\ (Len(s) + i) - Len(s) = i
    BY <1>4
  <2>. QED
    BY <1>3, <2>1
<1>7. IsSeq(s \o t)
  BY <1>3, SequenceIs
<1>. QED
  BY <1>3, <1>5, <1>6, <1>7

\* A sequence without its first element.
LEMMA Rested ==
  ASSUME NEW s, IsSeq(s), s # << >>
  PROVE  /\ Len(s) \in Nat \ {0} /\ Head(s) = s[1] /\ IsSeq(Tail(s)) /\ Len(Tail(s)) = Len(s) - 1
         /\ DOMAIN Tail(s) = 1..Len(s) - 1 /\ \A i \in 1..Len(s) - 1 : Tail(s)[i] = s[i + 1]
<1> DEFINE S == {s[i] : i \in DOMAIN s}
<1>1. s \in Seq(S)
  BY DEF IsSeq
<1>. HIDE DEF S
<1>2. Tail(s) \in Seq(S) /\ Len(Tail(s)) = Len(s) - 1 /\ \A i \in 1..Len(Tail(s)) : Tail(s)[i] = s[i + 1]
  BY <1>1, HeadTailProperties
<1>3. Len(s) \in Nat \ {0}
  BY <1>1, EmptySeq, LenProperties
<1>4. IsSeq(Tail(s))
  BY <1>2, SequenceIs
<1>5. DOMAIN Tail(s) = 1..Len(s) - 1
  BY <1>2, <1>4, SequenceHas
<1>6. Head(s) = s[1]
  BY <1>1
<1>. QED
  BY <1>2, <1>3, <1>4, <1>5, <1>6

\* What is in a sequence with one element more, and in one that was filtered.
LEMMA AppendedHas ==
  ASSUME NEW s, IsSeq(s), NEW x
  PROVE  ToSet(Append(s, x)) = ToSet(s) \cup {x}
<1>1. DOMAIN s = 1..Len(s) /\ Len(s) \in Nat
  BY SequenceHas
<1>2. /\ DOMAIN Append(s, x) = 1..Len(s) + 1
      /\ Append(s, x)[Len(s) + 1] = x /\ \A i \in 1..Len(s) : Append(s, x)[i] = s[i]
  BY Appended
<1>. PICK t : t = Append(s, x)
  OBVIOUS
<1>3. DOMAIN t = 1..Len(s) + 1 /\ t[Len(s) + 1] = x /\ \A i \in 1..Len(s) : t[i] = s[i]
  BY <1>2
<1>4. ToSet(t) = ToSet(s) \cup {x}
  BY <1>1, <1>3 DEF ToSet
<1>. QED
  BY <1>4

LEMMA KeepHas ==
  ASSUME NEW s, IsSeq(s), NEW D
  PROVE  /\ IsSeq(Keep(s, {i \in DOMAIN s : s[i] \in D}))
         /\ ToSet(Keep(s, {i \in DOMAIN s : s[i] \in D})) = D \cap ToSet(s)
<1> DEFINE P == {i \in DOMAIN s : s[i] \in D}
<1>. PICK t : t = Keep(s, P)
  OBVIOUS
<1>1. P = P /\ \A i : i \in DOMAIN s \cap P <=> i \in DOMAIN s /\ s[i] \in D
  OBVIOUS
<1>. HIDE DEF P
<1>2. IsSeq(t) /\ \E g : Selects(s, P, t, g)
  BY KeepSelects
<1>3. PICK g : Selects(s, P, t, g)
  BY <1>2
<1>4. /\ \A i \in DOMAIN t : g[i] \in DOMAIN s /\ s[g[i]] \in D /\ t[i] = s[g[i]]
      /\ \A k \in DOMAIN s : s[k] \in D => \E i \in DOMAIN t : g[i] = k
  BY <1>1, <1>3 DEF Selects
<1>5. ToSet(t) = D \cap ToSet(s)
  BY <1>4 DEF ToSet
<1>6. IsSeq(Keep(s, P)) /\ ToSet(Keep(s, P)) = D \cap ToSet(s)
  BY <1>2, <1>5
<1>. QED
  BY <1>6 DEF P

\* The values of a loop over the numbers up to n.
Loop(n, S, base, step, f) ==
  f \in [0..n -> S] /\ f[0] = base /\ \A k \in 1..n : f[k] = step[<<f[k - 1], k>>]

\* A loop has a value after each number.
LEMMA Recursion ==
  ASSUME NEW n \in Nat, NEW S, NEW base \in S, NEW step \in [S \X (1..n) -> S]
  PROVE  \E f : Loop(n, S, base, step, f)
<1> DEFINE Good(m, f) == f \in [0..m -> S] /\ f[0] = base /\ \A k \in 1..m : f[k] = step[<<f[k - 1], k>>]
           T == {m \in 0..n : \E f : Good(m, f)}
<1>1. 0 \in T
  <2>. PICK f : f = [k \in 0..0 |-> base]
    OBVIOUS
  <2>1. Good(0, f)
    OBVIOUS
  <2>2. 0 \in 0..n
    OBVIOUS
  <2>. HIDE DEF Good
  <2>. QED
    BY <2>1, <2>2
<1>2. ASSUME NEW m \in 0..n, m + 1 \in 0..n, m \in T PROVE m + 1 \in T
  <2>1. PICK f : Good(m, f)
    BY <1>2
  <2> DEFINE g == [k \in 0..m + 1 |-> IF k = m + 1 THEN step[<<f[m], m + 1>>] ELSE f[k]]
  <2>2. m + 1 \in 1..n /\ f[m] \in S /\ m \in 0..m /\ step[<<f[m], m + 1>>] \in S
    BY <1>2, <2>1
  <2>3. g \in [0..m + 1 -> S] /\ g[0] = base /\ g[m + 1] = step[<<f[m], m + 1>>] /\ \A k \in 0..m : g[k] = f[k]
    BY <2>1, <2>2
  <2>. HIDE DEF g
  <2>4. ASSUME NEW k \in 1..m + 1 PROVE g[k] = step[<<g[k - 1], k>>]
    <3>1. CASE k = m + 1
      <4>1. k - 1 = m
        BY <3>1
      <4>. QED
        BY <2>2, <2>3, <3>1, <4>1
    <3>2. CASE k # m + 1
      <4>1. k \in 1..m /\ k \in 0..m /\ k - 1 \in 0..m
        BY <3>2
      <4>. QED
        BY <2>1, <2>3, <4>1
    <3>. QED
      BY <3>1, <3>2
  <2>. QED
    BY <1>2, <2>3, <2>4
<1>3. T = 0..n
  <2>1. T \subseteq 0..n
    OBVIOUS
  <2>. HIDE DEF T
  <2>. QED
    BY <1>1, <1>2, <2>1, UpTo
<1>4. n \in T
  <2>. HIDE DEF T
  <2>. QED
    BY <1>3
<1>. QED
  BY <1>4 DEF Loop

\* Two functions that agree first, and then wherever they agreed before, agree.
LEMMA SameLoop ==
  ASSUME NEW n \in Nat, NEW f, NEW g, f[0] = g[0], \A k \in 1..n : f[k - 1] = g[k - 1] => f[k] = g[k]
  PROVE  f[n] = g[n]
<1> DEFINE T == {k \in 0..n : f[k] = g[k]}
<1>1. T \subseteq 0..n /\ 0 \in T
  OBVIOUS
<1>2. ASSUME NEW k \in 0..n, k + 1 \in 0..n, k \in T PROVE k + 1 \in T
  <2>1. k + 1 \in 1..n /\ (k + 1) - 1 = k
    BY <1>2
  <2>. QED
    BY <1>2, <2>1
<1>. HIDE DEF T
<1>3. T = 0..n
  BY <1>1, <1>2, UpTo
<1>4. n \in T
  BY <1>3
<1>. QED
  BY <1>4 DEF T


\* Sequences one after the other, as a loop that adds one at a time.
Adds(s, F) == F[1] = s[1] /\ \A k \in 2..Len(s) : F[k] = F[k - 1] \o s[k]

LEMMA FlattenAdds ==
  ASSUME NEW s, IsSeq(s), Len(s) # 0, \A k \in DOMAIN s : IsSeq(s[k])
  PROVE  \E F : Adds(s, F) /\ FlattenSeq(s) = F[Len(s)]
<1> DEFINE S == UNION {{s[k][i] : i \in DOMAIN s[k]} : k \in DOMAIN s}
           Is(f) == f = [k \in 1..Len(s) |-> IF k = 1 THEN s[k] ELSE f[k - 1] \o s[k]]
           step == [x \in Seq(S) \X (1..Len(s)) |-> x[1] \o s[x[2]]]
<1>1. Len(s) \in Nat \ {0} /\ DOMAIN s = 1..Len(s)
  BY SequenceHas
<1>2. ASSUME NEW k \in 1..Len(s) PROVE s[k] \in Seq(S)
  <2>1. s[k] \in Seq({s[k][i] : i \in DOMAIN s[k]})
    BY <1>1 DEF IsSeq
  <2>2. {s[k][i] : i \in DOMAIN s[k]} \subseteq S
    BY <1>1
  <2>. HIDE DEF S
  <2>. QED
    BY <2>1, <2>2, SeqDef
<1>. HIDE DEF S
<1>3. step \in [Seq(S) \X (1..Len(s)) -> Seq(S)]
  <2>1. ASSUME NEW a \in Seq(S), NEW k \in 1..Len(s) PROVE a \o s[k] \in Seq(S)
    BY <1>2, ConcatProperties
  <2>. QED
    BY <2>1
<1>4. PICK g : Loop(Len(s), Seq(S), << >>, step, g)
  <2>1. << >> \in Seq(S) /\ Len(s) \in Nat
    BY <1>1, EmptySeq
  <2>. HIDE DEF step
  <2>. QED
    BY <1>3, <2>1, Recursion
<1>5. g \in [0..Len(s) -> Seq(S)] /\ g[0] = << >> /\ \A k \in 1..Len(s) : g[k] = step[<<g[k - 1], k>>]
  <2>. HIDE DEF step
  <2>. QED
    BY <1>4, Zenon DEF Loop
<1>6. \A k \in 1..Len(s) : g[k - 1] \in Seq(S)
  <2>1. \A k \in 1..Len(s) : k - 1 \in 0..Len(s)
    BY <1>1
  <2>. QED
    BY <1>5, <2>1, Zenon
<1>7. \A k \in 1..Len(s) : g[k] = g[k - 1] \o s[k]
  BY <1>5, <1>6
<1>. HIDE DEF step
<1>8. g[1] = s[1]
  <2>1. 1 \in 1..Len(s) /\ 1 - 1 = 0
    BY <1>1
  <2>2. g[1] = g[1 - 1] \o s[1] /\ s[1] \in Seq(S)
    BY <1>2, <1>7, <2>1, Zenon
  <2>. QED
    BY <1>5, <2>1, <2>2, ConcatEmptySeq
<1> DEFINE h == [k \in 1..Len(s) |-> g[k]]
<1>9. Is(h)
  <2>1. ASSUME NEW k \in 1..Len(s) PROVE h[k] = IF k = 1 THEN s[k] ELSE h[k - 1] \o s[k]
    <3>1. CASE k = 1
      BY <1>8, <3>1
    <3>2. CASE k # 1
      <4>1. k - 1 \in 1..Len(s)
        BY <1>1, <3>2
      <4>. QED
        BY <1>7, <3>2, <4>1
    <3>. QED
      BY <3>1, <3>2
  <2>2. h = [k \in 1..Len(s) |-> h[k]]
    OBVIOUS
  <2>. HIDE DEF h
  <2>. QED
    BY <2>1, <2>2, Zenon
<1> DEFINE F == CHOOSE f : Is(f)
<1>10. FlattenSeq(s) = F[Len(s)]
  BY Zenon DEF FlattenSeq
<1>11. Is(F)
  <2>. HIDE DEF Is, h
  <2>. QED
    BY <1>9, Zenon
<1>. HIDE DEF F
<1>12. Adds(s, F)
  <2>1. \A k \in 1..Len(s) : F[k] = IF k = 1 THEN s[k] ELSE F[k - 1] \o s[k]
    BY <1>11, Zenon
  <2>2. 1 \in 1..Len(s) /\ \A k \in 2..Len(s) : k \in 1..Len(s) /\ k # 1
    BY <1>1
  <2>. QED
    BY <2>1, <2>2, Zenon DEF Adds
<1>. QED
  BY <1>10, <1>12

\* What holds of each and of two that are joined holds of all that are joined.
LEMMA FlattenIn ==
  ASSUME NEW s, IsSeq(s), \A k \in DOMAIN s : IsSeq(s[k]), NEW G, << >> \in G,
         \A a, b \in G : a \o b \in G, \A k \in DOMAIN s : s[k] \in G
  PROVE  FlattenSeq(s) \in G
<1>1. Len(s) \in Nat /\ DOMAIN s = 1..Len(s)
  BY SequenceHas
<1>2. CASE Len(s) = 0
  <2>1. s = << >>
    <3>1. s \in Seq({s[i] : i \in DOMAIN s})
      BY DEF IsSeq
    <3>. QED
      BY <1>2, <3>1, EmptySeq
  <2>. QED
    BY <1>2, <2>1 DEF FlattenSeq
<1>3. CASE Len(s) # 0
  <2>1. PICK F : Adds(s, F) /\ FlattenSeq(s) = F[Len(s)]
    BY <1>3, FlattenAdds, Zenon
  <2> DEFINE T == {n \in 0..Len(s) : n = 0 \/ F[n] \in G}
  <2>2. 0 \in T
    BY <1>1
  <2>3. ASSUME NEW n \in 0..Len(s), n + 1 \in 0..Len(s), n \in T PROVE n + 1 \in T
    <3>1. CASE n = 0
      <4>1. F[1] = s[1] /\ 1 \in DOMAIN s /\ n + 1 = 1
        BY <1>1, <1>3, <2>1, <3>1 DEF Adds
      <4>. QED
        BY <2>3, <4>1
    <3>2. CASE n # 0
      <4>1. n + 1 \in 2..Len(s) /\ (n + 1) - 1 = n /\ n + 1 \in DOMAIN s
        BY <1>1, <2>3, <3>2
      <4>2. F[n + 1] = F[n] \o s[n + 1]
        BY <2>1, <4>1 DEF Adds
      <4>. QED
        BY <2>3, <3>2, <4>1, <4>2
    <3>. QED
      BY <3>1, <3>2
  <2>4. T = 0..Len(s)
    <3>1. T \subseteq 0..Len(s)
      OBVIOUS
    <3>. HIDE DEF T
    <3>. QED
      BY <1>1, <2>2, <2>3, <3>1, UpTo
  <2>5. Len(s) \in T
    <3>. HIDE DEF T
    <3>. QED
      BY <1>1, <2>4
  <2>. QED
    BY <1>3, <2>1, <2>5
<1>. QED
  BY <1>2, <1>3

\* A sequence that begins with another.
Begins(s, t) == \A i \in DOMAIN t : s[i] = t[i]

\* Two that are joined are not shorter than either, and begin with the first.
LEMMA JoinHas ==
  ASSUME NEW a, IsSeq(a), NEW b, IsSeq(b), NEW c, c = a \o b
  PROVE  IsSeq(c) /\ Len(c) >= Len(a) /\ Len(c) >= Len(b) /\ Begins(c, a)
<1>1. IsSeq(a \o b) /\ Len(a \o b) = Len(a) + Len(b)
  BY Joined
<1>2. \A i \in 1..Len(a) : (a \o b)[i] = a[i]
  BY Joined
<1>3. Len(a) \in Nat /\ Len(b) \in Nat /\ DOMAIN a = 1..Len(a)
  BY SequenceHas
<1>4. \A m, n \in Nat : m + n >= m /\ m + n >= n
  OBVIOUS
<1>. QED
  BY <1>1, <1>2, <1>3, <1>4 DEF Begins

\* Joined sequences are not shorter than any of them, and begin with the first.
LEMMA FlattenHas ==
  ASSUME NEW s, IsSeq(s), Len(s) # 0, \A k \in DOMAIN s : IsSeq(s[k])
  PROVE  /\ IsSeq(FlattenSeq(s)) /\ \A k \in DOMAIN s : Len(FlattenSeq(s)) >= Len(s[k])
         /\ \A i \in DOMAIN s[1] : FlattenSeq(s)[i] = s[1][i]
<1>1. Len(s) \in Nat \ {0} /\ DOMAIN s = 1..Len(s)
  BY SequenceHas
<1>2. PICK F : Adds(s, F) /\ FlattenSeq(s) = F[Len(s)]
  BY FlattenAdds, Zenon
<1> DEFINE Good(n) == /\ IsSeq(F[n]) /\ \A k \in 1..n : Len(F[n]) >= Len(s[k])
                      /\ \A i \in DOMAIN s[1] : F[n][i] = s[1][i]
           T == {n \in 0..Len(s) : n = 0 \/ Good(n)}
<1>3. 0 \in T
  BY <1>1
<1>4. ASSUME NEW n \in 0..Len(s), n + 1 \in 0..Len(s), n \in T PROVE n + 1 \in T
  <2>1. CASE n = 0
    <3>1. F[1] = s[1] /\ 1 \in DOMAIN s /\ n + 1 = 1 /\ IsSeq(s[1])
      BY <1>1, <1>2, <2>1 DEF Adds
    <3>2. Len(s[1]) \in Nat
      BY <3>1, SequenceHas
    <3>3. Good(1)
      BY <3>1, <3>2
    <3>. QED
      BY <1>4, <3>1, <3>3
  <2>2. CASE n # 0
    <3>1. n + 1 \in 2..Len(s) /\ (n + 1) - 1 = n /\ n + 1 \in DOMAIN s /\ n \in 1..Len(s) /\ 1 \in 1..n /\ 1 \in DOMAIN s
      BY <1>1, <1>4, <2>2
    <3>2. F[n + 1] = F[n] \o s[n + 1] /\ Good(n)
      BY <1>2, <1>4, <2>2, <3>1 DEF Adds
    <3>. PICK a : a = F[n]
      OBVIOUS
    <3>. PICK b : b = s[n + 1]
      OBVIOUS
    <3>. PICK c : c = a \o b
      OBVIOUS
    <3>3. IsSeq(a) /\ IsSeq(b) /\ IsSeq(s[1]) /\ F[n + 1] = c
      BY <3>1, <3>2
    <3>4. IsSeq(c) /\ Len(c) >= Len(a) /\ Len(c) >= Len(b) /\ Begins(c, a)
      BY <3>3, JoinHas
    <3>5. Len(a) \in Nat /\ Len(b) \in Nat /\ Len(c) \in Nat /\ DOMAIN a = 1..Len(a)
      BY <3>3, <3>4, SequenceHas
    <3>6. DOMAIN s[1] = 1..Len(s[1]) /\ Len(s[1]) \in Nat
      BY <3>3, SequenceHas
    <3>7. (\A k \in 1..n : Len(a) >= Len(s[k])) /\ \A i \in DOMAIN s[1] : a[i] = s[1][i]
      BY <3>2
    <3>8. ASSUME NEW k \in 1..n + 1 PROVE Len(c) >= Len(s[k])
      <4>1. CASE k = n + 1
        BY <3>4, <4>1
      <4>2. CASE k # n + 1
        <5>1. k \in 1..n /\ k \in DOMAIN s
          BY <1>1, <3>1, <4>2
        <5>2. Len(s[k]) \in Nat
          BY <5>1, SequenceHas
        <5>3. \A x, y, z \in Nat : x >= y /\ y >= z => x >= z
          OBVIOUS
        <5>4. Len(a) >= Len(s[k])
          BY <3>7, <5>1
        <5>. QED
          BY <3>4, <3>5, <5>2, <5>3, <5>4
      <4>. QED
        BY <4>1, <4>2
    <3>9. \A i \in DOMAIN s[1] : c[i] = s[1][i]
      <4>1. Len(a) >= Len(s[1])
        BY <3>1, <3>7
      <4>2. \A i \in DOMAIN s[1] : i \in DOMAIN a
        BY <3>5, <3>6, <4>1
      <4>. QED
        BY <3>4, <3>7, <4>2 DEF Begins
    <3>10. Good(n + 1)
      BY <3>3, <3>4, <3>8, <3>9
    <3>. HIDE DEF Good
    <3>. QED
      BY <1>4, <3>10
  <2>. QED
    BY <2>1, <2>2
<1>5. T = 0..Len(s)
  <2>1. T \subseteq 0..Len(s)
    OBVIOUS
  <2>. HIDE DEF T
  <2>. QED
    BY <1>1, <1>3, <1>4, <2>1, UpTo
<1>6. Good(Len(s))
  <2>1. Len(s) \in T
    <3>. HIDE DEF T
    <3>. QED
      BY <1>1, <1>5
  <2>. HIDE DEF Good
  <2>. QED
    BY <1>1, <2>1
<1>. QED
  BY <1>1, <1>2, <1>6

-----------------------------------------------------------------------------
(* Hotseat games.                                                          *)

\* What is needed of the parameters.
IsPlayer(r) == r = [name |-> r.name, ai |-> r.ai]
HotseatParams ==
  /\ MaxPlayers \in Nat /\ MaxPlayers >= 2
  /\ \A c \in Computers : IsSeq(c) /\ \A i \in DOMAIN c : IsPlayer(c[i]) /\ c[i].ai = TRUE

\* One human player, the first.
Single(r) ==
  /\ IsSeq(r) /\ r # << >> /\ r[1].ai = FALSE
  /\ \A i \in DOMAIN r : i # 1 => r[i].ai = TRUE

HotseatTypes ==
  /\ IsSeq(stack) /\ IsSeq(hotseat_players) /\ IsSeq(roster) /\ IsSeq(up) /\ IsSeq(net)
  /\ roster # << >> /\ \A i \in DOMAIN roster : IsPlayer(roster[i]) /\ roster[i].ai \in BOOLEAN
  /\ ws \in {"none", "opening", "open"} /\ running \in BOOLEAN /\ page \in BOOLEAN
  /\ num_hotseat_players \in 1..MaxPlayers /\ phase \in 0..Len(roster)
  /\ hotseat_active_player \in 0..num_hotseat_players - 1

\* The names are read once the dialog for them is gone, and are as many as the
\* players; before, there are no commands about players, and one player.
Listed ==
  /\ hotseat_players # << >> =>
       /\ num_hotseat_players <= Len(hotseat_players)
       /\ "new" \notin ToSet(stack)
  /\ hotseat_players = << >> =>
       /\ ~running
       /\ \A i \in DOMAIN up : up[i].c = "ready"
       /\ Single(roster) /\ \A i \in DOMAIN net : Single(net[i].roster)

\* Earlier the game runs nobody has a password, and no page is shown.
Earlier ==
  ~running =>
    /\ page = FALSE /\ hotseat_pwd = {} /\ hotseat_active_player = 0
    /\ ToSet(stack) \subseteq {"new"}
    /\ seat = roster[1].name /\ \A i \in DOMAIN up : up[i].c # "take"

\* Packets: one about the start, then each about the phase after the last one.
Phases ==
  /\ phase = 0 => ~running /\ net = << >>
  /\ phase > 0 /\ ~running => net # << >> /\ net[1].t = "start" /\ net[1].phase = 1
  /\ \A i \in DOMAIN net : /\ net[i].t \in {"start", "end"} /\ net[i].phase \in 1..Len(roster)
                           /\ (running \/ i > 1) => net[i].t = "end"
                           /\ i > 1 => net[i].phase = (net[i - 1].phase % Len(roster)) + 1
  /\ net # << >> => net[Len(net)].phase = phase

\* The page is behind by the packets on their way.
Behind ==
  running /\ Len(roster) = num_hotseat_players =>
    IF net = << >> THEN phase = hotseat_active_player + 1
    ELSE net[1].phase = ((hotseat_active_player + 1) % Len(roster)) + 1

\* The last command to take a player is for the one the page names.
OwnNames ==
  /\ Len(roster) = num_hotseat_players /\ num_hotseat_players <= Len(hotseat_players)
  /\ \A i \in 1..Len(roster) : roster[i].name = hotseat_players[i]
LastTake(i) == i \in DOMAIN up /\ up[i].c = "take" /\ \A j \in DOMAIN up : j > i => up[j].c # "take"
Seated ==
  running /\ OwnNames =>
    /\ \A i \in DOMAIN up : LastTake(i) => up[i].n = Active
    /\ (\A i \in DOMAIN up : up[i].c # "take") => seat = Active

\* Whatever dialogs are open.
Guarded == page /\ Active \in hotseat_pwd => opened = Active
Opening == running /\ ~page /\ ~left => "phase" \in ToSet(stack)

HotseatInv == HotseatTypes /\ Listed /\ Earlier /\ Phases /\ Behind /\ Seated /\ Guarded /\ Opening


\* What is left of the open dialogs.
LEMMA StayingHas ==
  ASSUME IsSeq(stack), NEW D
  PROVE  IsSeq(Staying(D)) /\ ToSet(Staying(D)) = D \cap ToSet(stack)
BY KeepHas DEF Staying

\* The steps at the dialogs: they leave the game, the players and the packets.
AtDialogs == UNCHANGED <<ws, num_hotseat_players, hotseat_players, hotseat_active_player, running,
                         roster, phase, seat, up, net>>

LEMMA DialogStep ==
  ASSUME HotseatInv, AtDialogs, page' \in BOOLEAN, IsSeq(stack)',
         "new" \in ToSet(stack)' => "new" \in ToSet(stack),
         running \/ (ToSet(stack)' \subseteq {"new"} /\ UNCHANGED <<page, hotseat_pwd>>),
         Guarded', Opening'
  PROVE  HotseatInv'
<1>1. HotseatTypes'
  BY DEF HotseatInv, HotseatTypes, AtDialogs
<1>2. Listed'
  BY DEF HotseatInv, Listed, AtDialogs
<1>3. Earlier'
  BY DEF HotseatInv, Earlier, AtDialogs
<1>4. Phases'
  BY DEF HotseatInv, Phases, AtDialogs
<1>5. Behind'
  BY DEF HotseatInv, Behind, AtDialogs
<1>6. Seated'
  BY DEF HotseatInv, Seated, OwnNames, LastTake, Active, NameAt, AtDialogs
<1>. QED
  BY <1>1, <1>2, <1>3, <1>4, <1>5, <1>6 DEF HotseatInv

LEMMA CloseNewKeeps == ASSUME HotseatInv, CloseNew PROVE HotseatInv'
<1>1. AtDialogs /\ UNCHANGED <<page, hotseat_pwd, opened, left>> /\ stack' = Close("new")
  BY DEF CloseNew, AtDialogs, timers, seats, screen, server, wires, history
<1>2. IsSeq(stack) /\ page \in BOOLEAN
  BY DEF HotseatInv, HotseatTypes
<1>3. IsSeq(stack)' /\ ToSet(stack)' = {"phase", "pwd"} \cap ToSet(stack)
  <2>1. IsSeq(stack') /\ ToSet(stack') = ({"new", "phase", "pwd"} \ {"new"}) \cap ToSet(stack)
    BY <1>1, <1>2, StayingHas DEF Close
  <2>. QED
    BY <2>1
<1>4. Guarded'
  BY <1>1 DEF HotseatInv, Guarded, AtDialogs, Active, NameAt
<1>5. Opening'
  BY <1>1, <1>3 DEF HotseatInv, Opening, AtDialogs
<1>6. running \/ ToSet(stack)' \subseteq {"new"}
  BY <1>3 DEF HotseatInv, Earlier
<1>. QED
  BY <1>1, <1>2, <1>3, <1>4, <1>5, <1>6, DialogStep


\* The dialogs of the game are open only once it runs.
LEMMA TopRuns ==
  ASSUME HotseatInv, NEW d, d # "new", Top(d)
  PROVE  running /\ d \in ToSet(stack) /\ IsSeq(stack)
<1>1. IsSeq(stack) /\ stack # << >> /\ running \in BOOLEAN
  BY DEF HotseatInv, HotseatTypes, Top
<1>2. Len(stack) \in DOMAIN stack
  BY <1>1, Rested, SequenceHas
<1>3. d \in ToSet(stack)
  BY <1>2 DEF Top, ToSet
<1>. QED
  BY <1>1, <1>3 DEF HotseatInv, Earlier

LEMMA PlayTurnKeeps == ASSUME HotseatInv, PlayTurn PROVE HotseatInv'
<1>1. AtDialogs /\ hotseat_pwd' = hotseat_pwd /\ left' = left /\ stack' = Close("phase")
  BY DEF PlayTurn, AtDialogs, timers, seats, server, wires
<1>2. page' = TRUE /\ opened' = Active
  BY DEF PlayTurn, Opens
<1>3. running /\ IsSeq(stack)
  BY TopRuns DEF PlayTurn
<1>4. IsSeq(stack)' /\ ("new" \in ToSet(stack)' => "new" \in ToSet(stack))
  <2>1. IsSeq(stack') /\ ToSet(stack') = ({"new", "phase", "pwd"} \ {"phase"}) \cap ToSet(stack)
    BY <1>1, <1>3, StayingHas DEF Close
  <2>. QED
    BY <2>1
<1>5. Active' = Active
  BY <1>1 DEF AtDialogs, Active, NameAt
<1>6. Guarded' /\ Opening'
  BY <1>2, <1>5 DEF Guarded, Opening
<1>. QED
  BY <1>1, <1>2, <1>3, <1>4, <1>6, DialogStep

LEMMA AddPasswordKeeps == ASSUME HotseatInv, AddPassword PROVE HotseatInv'
<1>1. AtDialogs /\ UNCHANGED <<page, hotseat_pwd, opened, left>>
  BY DEF AddPassword, AtDialogs, timers, seats, screen, server, wires, history
<1>2. running /\ IsSeq(stack) /\ page \in BOOLEAN
  BY TopRuns DEF AddPassword, HotseatInv, HotseatTypes
<1>3. IsSeq(stack)' /\ \A d \in {"new", "phase"} : d \in ToSet(stack)' <=> d \in ToSet(stack)
  <2>1. CASE stack' = stack
    BY <1>2, <2>1
  <2>2. CASE stack' = OnTop("pwd")
    <3>1. IsSeq(Close("pwd")) /\ ToSet(Close("pwd")) = ({"new", "phase", "pwd"} \ {"pwd"}) \cap ToSet(stack)
      BY <1>2, StayingHas DEF Close
    <3>2. IsSeq(stack') /\ ToSet(stack') = ToSet(Close("pwd")) \cup {"pwd"}
      BY <2>2, <3>1, Appended, AppendedHas DEF OnTop
    <3>. QED
      BY <3>1, <3>2
  <2>. QED
    BY <2>1, <2>2 DEF AddPassword
<1>4. Guarded'
  BY <1>1 DEF HotseatInv, Guarded, AtDialogs, Active, NameAt
<1>5. Opening'
  BY <1>1, <1>3 DEF HotseatInv, Opening, AtDialogs
<1>. QED
  BY <1>1, <1>2, <1>3, <1>4, <1>5, DialogStep

LEMMA ClosePhaseKeeps == ASSUME HotseatInv, ClosePhase PROVE HotseatInv'
<1>1. AtDialogs /\ UNCHANGED <<page, hotseat_pwd, opened>> /\ left' = TRUE /\ stack' = Close("phase")
  BY DEF ClosePhase, AtDialogs, timers, seats, screen, server, wires
<1>2. running /\ IsSeq(stack) /\ page \in BOOLEAN
  BY TopRuns DEF ClosePhase, HotseatInv, HotseatTypes
<1>3. IsSeq(stack)' /\ ("new" \in ToSet(stack)' => "new" \in ToSet(stack))
  <2>1. IsSeq(stack') /\ ToSet(stack') = ({"new", "phase", "pwd"} \ {"phase"}) \cap ToSet(stack)
    BY <1>1, <1>2, StayingHas DEF Close
  <2>. QED
    BY <2>1
<1>4. Guarded'
  BY <1>1 DEF HotseatInv, Guarded, AtDialogs, Active, NameAt
<1>5. Opening'
  BY <1>1 DEF Opening
<1>. QED
  BY <1>1, <1>2, <1>3, <1>4, <1>5, DialogStep

LEMMA CancelPasswordKeeps == ASSUME HotseatInv, CancelPassword PROVE HotseatInv'
<1>1. AtDialogs /\ UNCHANGED <<page, hotseat_pwd, opened, left>> /\ stack' = Close("pwd")
  BY DEF CancelPassword, AtDialogs, timers, seats, screen, server, wires, history
<1>2. running /\ IsSeq(stack) /\ page \in BOOLEAN
  BY TopRuns DEF CancelPassword, HotseatInv, HotseatTypes
<1>3. IsSeq(stack)' /\ \A d \in {"new", "phase"} : d \in ToSet(stack)' <=> d \in ToSet(stack)
  <2>1. IsSeq(stack') /\ ToSet(stack') = ({"new", "phase", "pwd"} \ {"pwd"}) \cap ToSet(stack)
    BY <1>1, <1>2, StayingHas DEF Close
  <2>. QED
    BY <2>1
<1>4. Guarded'
  BY <1>1 DEF HotseatInv, Guarded, AtDialogs, Active, NameAt
<1>5. Opening'
  BY <1>1, <1>3 DEF HotseatInv, Opening, AtDialogs
<1>. QED
  BY <1>1, <1>2, <1>3, <1>4, <1>5, DialogStep

LEMMA SetPasswordKeeps == ASSUME HotseatInv, SetPassword PROVE HotseatInv'
<1>1. AtDialogs
  BY DEF SetPassword, AtDialogs, timers, seats, server, wires
<1>2. page' = TRUE /\ opened' = Active
  BY DEF SetPassword, Opens
<1>3. running /\ IsSeq(stack)
  BY TopRuns DEF SetPassword
<1>4. IsSeq(stack)' /\ ("new" \in ToSet(stack)' => "new" \in ToSet(stack))
  <2>1. PICK D : stack' = Staying(D)
    BY DEF SetPassword
  <2>2. IsSeq(stack') /\ ToSet(stack') = D \cap ToSet(stack)
    BY <1>3, <2>1, StayingHas
  <2>. QED
    BY <2>2
<1>5. Active' = Active
  BY <1>1 DEF AtDialogs, Active, NameAt
<1>6. Guarded' /\ Opening'
  BY <1>2, <1>5 DEF Guarded, Opening
<1>. QED
  BY <1>1, <1>2, <1>3, <1>4, <1>6, DialogStep

\* The steps at the dialog for the names: the list of the players is not there yet.
LEMMA AddPlayerKeeps == ASSUME HotseatParams, HotseatInv, AddPlayer PROVE HotseatInv'
<1>1. /\ UNCHANGED <<ws, hotseat_players, hotseat_active_player, hotseat_pwd, stack, running, page,
                     roster, phase, seat, up, net, opened, left>>
      /\ num_hotseat_players < MaxPlayers /\ num_hotseat_players' = num_hotseat_players + 1
  BY DEF AddPlayer, timers, dialogs, screen, server, wires, history
<1>2. "new" \in ToSet(stack)
  <2>1. IsSeq(stack) /\ stack # << >> /\ stack[Len(stack)] = "new"
    BY DEF HotseatInv, HotseatTypes, AddPlayer, Top
  <2>2. Len(stack) \in DOMAIN stack
    BY <2>1, Rested, SequenceHas
  <2>. QED
    BY <2>1, <2>2 DEF ToSet
<1>3. hotseat_players = << >> /\ ~running
  BY <1>2 DEF HotseatInv, Listed
<1>4. HotseatTypes'
  BY <1>1 DEF HotseatInv, HotseatTypes, HotseatParams
<1>5. Listed'
  BY <1>1, <1>3 DEF HotseatInv, Listed
<1>6. Earlier' /\ Phases'
  BY <1>1 DEF HotseatInv, Earlier, Phases
<1>7. Behind' /\ Seated' /\ Opening'
  BY <1>1, <1>3 DEF Behind, Seated, Opening
<1>8. Guarded'
  BY <1>1 DEF HotseatInv, Guarded, Active, NameAt
<1>. QED
  BY <1>4, <1>5, <1>6, <1>7, <1>8 DEF HotseatInv

LEMMA TypingKeeps ==
  ASSUME HotseatInv, (\E i \in 1..Len(fields), n \in Names : Type(i, n)) \/ NewGame \/ SocketOpens
  PROVE  HotseatInv'
<1>1. /\ UNCHANGED <<num_hotseat_players, hotseat_players, hotseat_active_player, hotseat_pwd, stack,
                     running, page, roster, phase, seat, up, net, opened, left>>
      /\ ws' \in {ws, "opening", "open"}
  BY DEF Type, NewGame, SocketOpens, seats, dialogs, screen, server, wires, history
<1>2. HotseatTypes'
  BY <1>1 DEF HotseatInv, HotseatTypes
<1>3. Listed' /\ Earlier' /\ Phases' /\ Behind' /\ Opening'
  BY <1>1 DEF HotseatInv, Listed, Earlier, Phases, Behind, Opening
<1>4. Guarded' /\ Seated'
  BY <1>1 DEF HotseatInv, Guarded, Seated, OwnNames, LastTake, Active, NameAt
<1>. QED
  BY <1>2, <1>3, <1>4 DEF HotseatInv


\* Commands that take no player change nothing about who is taken last.
MoreUp ==
  /\ Len(up)' \in Nat /\ DOMAIN up' = 1..Len(up)' /\ Len(up)' >= Len(up)
  /\ \A i \in 1..Len(up) : up'[i] = up[i]
  /\ \A i \in 1..Len(up)' : i > Len(up) => up'[i].c # "take"

LEMMA MoreUpSeated ==
  ASSUME IsSeq(up), MoreUp
  PROVE  /\ \A i \in DOMAIN up' : LastTake(i)' => i \in DOMAIN up /\ LastTake(i) /\ up'[i] = up[i]
         /\ (\A i \in DOMAIN up' : up'[i].c # "take") => \A i \in DOMAIN up : up[i].c # "take"
<1>1. DOMAIN up = 1..Len(up) /\ Len(up) \in Nat
  BY SequenceHas
<1>2. ASSUME NEW i \in DOMAIN up', LastTake(i)'
      PROVE  i \in DOMAIN up /\ LastTake(i) /\ up'[i] = up[i]
  <2>1. up'[i].c = "take" /\ \A j \in DOMAIN up' : j > i => up'[j].c # "take"
    BY <1>2 DEF LastTake
  <2>2. i \in DOMAIN up /\ up'[i] = up[i]
    BY <1>1, <2>1 DEF MoreUp
  <2>3. \A j \in DOMAIN up : j > i => up[j].c # "take"
    <3>1. \A j \in DOMAIN up : j \in DOMAIN up' /\ up'[j] = up[j]
      BY <1>1 DEF MoreUp
    <3>. QED
      BY <2>1, <3>1
  <2>. QED
    BY <2>1, <2>2, <2>3 DEF LastTake
<1>3. \A j \in DOMAIN up : j \in DOMAIN up' /\ up'[j] = up[j]
  BY <1>1 DEF MoreUp
<1>. QED
  BY <1>2, <1>3

\* Who plays is the player of the list at the place of whose turn it is.
LEMMA ActiveIs ==
  ASSUME HotseatTypes, num_hotseat_players <= Len(hotseat_players)
  PROVE  Active = hotseat_players[hotseat_active_player + 1]
<1>1. IsSeq(hotseat_players) /\ num_hotseat_players \in Nat /\ hotseat_active_player \in 0..num_hotseat_players - 1
  BY DEF HotseatTypes
<1>2. Len(hotseat_players) \in Nat
  BY <1>1, SequenceHas
<1>. QED
  BY <1>1, <1>2 DEF Active, NameAt

\* setup_hotseat_game: the names are added to the list, behind the ones that play.
LEMMA SetupKeeps == ASSUME HotseatParams, HotseatInv, Setup PROVE HotseatInv'
<1> DEFINE n == num_hotseat_players
           added == [i \in 1..n |-> NameAt(fields, i - 1)]
           built == [j \in 1..2 * (n - 1) |-> [c |-> IF j % 2 = 1 THEN "create" ELSE "ai",
                                              n |-> NameAt(fields, ((j + 1) \div 2 + 1) - 1)]]
<1>1. /\ UNCHANGED <<ws, num_hotseat_players, hotseat_active_player, hotseat_pwd, running, page,
                     roster, phase, seat, net, opened, dialog_close_trigger>>
      /\ left' = (left \/ ("phase" \in ToSet(stack) /\ dialog_close_trigger))
      /\ stack' = Staying(IF dialog_close_trigger THEN {"pwd"} ELSE {"phase", "pwd"})
  BY DEF Setup, screen, server
<1>2. hotseat_players' = hotseat_players \o added /\ up' = up \o built
  BY DEF Setup
<1>3. HotseatTypes /\ n \in Nat /\ n >= 1 /\ n \in 1..MaxPlayers
  BY DEF HotseatInv, HotseatTypes, HotseatParams
<1>4. IsSeq(added) /\ Len(added) = n
  <2>1. DOMAIN added = 1..n /\ added = [i \in 1..n |-> added[i]]
    OBVIOUS
  <2>. HIDE DEF added
  <2>. QED
    BY <1>3, <2>1, FunctionIs
<1>5. IsSeq(built) /\ Len(built) = 2 * (n - 1) /\ \A j \in 1..Len(built) : built[j].c # "take"
  <2>1. DOMAIN built = 1..2 * (n - 1) /\ built = [i \in 1..2 * (n - 1) |-> built[i]]
    OBVIOUS
  <2>2. \A j \in 1..2 * (n - 1) : built[j].c # "take"
    OBVIOUS
  <2>3. 2 * (n - 1) \in Nat
    BY <1>3
  <2>. HIDE DEF built
  <2>. QED
    BY <2>1, <2>2, <2>3, FunctionIs
<1>. HIDE DEF added, built
<1>6. /\ IsSeq(hotseat_players') /\ Len(hotseat_players') = Len(hotseat_players) + n
      /\ \A i \in 1..Len(hotseat_players) : hotseat_players'[i] = hotseat_players[i]
      /\ Len(hotseat_players) \in Nat /\ IsSeq(hotseat_players)
  <2>1. IsSeq(hotseat_players)
    BY <1>3 DEF HotseatTypes
  <2>. QED
    BY <1>2, <1>4, <2>1, Joined, SequenceHas
<1>7. IsSeq(up) /\ IsSeq(up') /\ MoreUp
  <2>1. IsSeq(up)
    BY <1>3 DEF HotseatTypes
  <2>2. /\ IsSeq(up \o built) /\ Len(up \o built) = Len(up) + Len(built)
        /\ \A i \in 1..Len(up) : (up \o built)[i] = up[i]
        /\ \A i \in 1..Len(built) : (up \o built)[Len(up) + i] = built[i]
    <3>. PICK m : m = built
      OBVIOUS
    <3>1. IsSeq(m)
      BY <1>5
    <3>2. IsSeq(up \o m) /\ Len(up \o m) = Len(up) + Len(m)
      BY <2>1, <3>1, Joined
    <3>3. \A i \in 1..Len(up) : (up \o m)[i] = up[i]
      BY <2>1, <3>1, Joined
    <3>4. \A i \in 1..Len(m) : (up \o m)[Len(up) + i] = m[i]
      BY <2>1, <3>1, Joined
    <3>. QED
      BY <3>2, <3>3, <3>4
  <2>3. Len(up) \in Nat /\ Len(built) \in Nat
    BY <1>5, <2>1, SequenceHas
  <2>4. IsSeq(up') /\ Len(up') = Len(up) + Len(built) /\ DOMAIN up' = 1..Len(up')
    BY <1>2, <2>2, SequenceHas
  <2>5. ASSUME NEW i \in 1..Len(up'), i > Len(up) PROVE up'[i].c # "take"
    <3>1. i - Len(up) \in 1..Len(built) /\ Len(up) + (i - Len(up)) = i
      BY <2>3, <2>4, <2>5
    <3>. QED
      BY <1>2, <1>5, <2>2, <3>1
  <2>. QED
    BY <1>2, <2>1, <2>2, <2>3, <2>4, <2>5 DEF MoreUp
<1>8. IsSeq(stack') /\ "new" \notin ToSet(stack') /\ (~dialog_close_trigger => ("phase" \in ToSet(stack) => "phase" \in ToSet(stack')))
      /\ ToSet(stack') \subseteq ToSet(stack)
  <2>1. IsSeq(stack)
    BY <1>3 DEF HotseatTypes
  <2>2. CASE dialog_close_trigger
    <3>1. stack' = Staying({"pwd"})
      BY <1>1, <2>2
    <3>2. IsSeq(stack') /\ ToSet(stack') = {"pwd"} \cap ToSet(stack)
      BY <2>1, <3>1, StayingHas
    <3>. QED
      BY <2>2, <3>2
  <2>3. CASE ~dialog_close_trigger
    <3>1. stack' = Staying({"phase", "pwd"})
      BY <1>1, <2>3
    <3>2. IsSeq(stack') /\ ToSet(stack') = {"phase", "pwd"} \cap ToSet(stack)
      BY <2>1, <3>1, StayingHas
    <3>. QED
      BY <3>2
  <2>. QED
    BY <2>2, <2>3
<1>9. hotseat_players' # << >> /\ n <= Len(hotseat_players')
  BY <1>3, <1>6, EmptyIs
<1>10. ASSUME running
       PROVE  num_hotseat_players <= Len(hotseat_players) /\ Active' = Active
  <2>1. n <= Len(hotseat_players)
    BY <1>10 DEF HotseatInv, Listed
  <2>2. HotseatTypes'
    BY <1>1, <1>6, <1>7, <1>8 DEF HotseatInv, HotseatTypes
  <2>3. Active = hotseat_players[hotseat_active_player + 1]
    BY <1>3, <2>1, ActiveIs
  <2>4. hotseat_active_player \in 0..n - 1
    BY <1>3 DEF HotseatTypes
  <2>5. Active' = hotseat_players'[hotseat_active_player + 1]
    BY <1>1, <1>3, <1>6, <2>1, <2>4 DEF Active, NameAt
  <2>. QED
    BY <1>3, <1>6, <2>1, <2>3, <2>4, <2>5
<1>11. HotseatTypes'
  BY <1>1, <1>3, <1>6, <1>7, <1>8 DEF HotseatTypes
<1>12. Listed'
  BY <1>1, <1>8, <1>9 DEF Listed
<1>13. Earlier'
  <2>1. ASSUME ~running PROVE \A i \in DOMAIN up' : up'[i].c # "take"
    <3>1. \A i \in DOMAIN up : up[i].c # "take"
      BY <2>1 DEF HotseatInv, Earlier
    <3>2. DOMAIN up = 1..Len(up) /\ Len(up) \in Nat
      BY <1>7, SequenceHas
    <3>. QED
      BY <1>7, <3>1, <3>2 DEF MoreUp
  <2>. QED
    BY <1>1, <1>8, <2>1 DEF HotseatInv, Earlier
<1>14. Phases' /\ Behind'
  BY <1>1 DEF HotseatInv, Phases, Behind
<1>15. Seated'
  <2>. SUFFICES ASSUME running, OwnNames'
                PROVE  /\ \A i \in DOMAIN up' : LastTake(i)' => up'[i].n = Active'
                       /\ (\A i \in DOMAIN up' : up'[i].c # "take") => seat' = Active'
    BY <1>1 DEF Seated
  <2>1. OwnNames
    BY <1>1, <1>3, <1>6, <1>10 DEF OwnNames
  <2>2. /\ \A i \in DOMAIN up : LastTake(i) => up[i].n = Active
        /\ (\A i \in DOMAIN up : up[i].c # "take") => seat = Active
    BY <2>1 DEF HotseatInv, Seated
  <2>. QED
    BY <1>1, <1>7, <1>10, <2>2, MoreUpSeated
<1>16. Guarded'
  <2>1. CASE running
    BY <1>1, <1>10, <2>1 DEF HotseatInv, Guarded
  <2>2. CASE ~running
    BY <1>1, <2>2 DEF HotseatInv, Earlier, Guarded
  <2>. QED
    BY <2>1, <2>2
<1>17. Opening'
  BY <1>1, <1>8 DEF HotseatInv, Opening
<1>. QED
  BY <1>11, <1>12, <1>13, <1>14, <1>15, <1>16, <1>17 DEF HotseatInv


\* pregame_start_game
LEMMA StartKeeps == ASSUME HotseatInv, Start PROVE HotseatInv'
<1>1. /\ UNCHANGED <<ws, num_hotseat_players, hotseat_players, hotseat_active_player, hotseat_pwd, stack,
                     running, page, roster, phase, seat, net, opened, left>>
      /\ ~running /\ up' = Append(up, [c |-> "ready", n |-> None])
  BY DEF Start, timers, seats, dialogs, screen, server, history
<1>2. IsSeq(up)
  BY DEF HotseatInv, HotseatTypes
<1>3. /\ IsSeq(up') /\ DOMAIN up' = 1..Len(up) + 1 /\ up'[Len(up) + 1] = [c |-> "ready", n |-> None]
      /\ \A i \in 1..Len(up) : up'[i] = up[i]
  BY <1>1, <1>2, Appended
<1>4. DOMAIN up = 1..Len(up) /\ Len(up) \in Nat
  BY <1>2, SequenceHas
<1>5. \A i \in DOMAIN up' : up'[i].c = "ready" \/ (i \in DOMAIN up /\ up'[i] = up[i])
  BY <1>3, <1>4
<1>6. HotseatTypes'
  BY <1>1, <1>3 DEF HotseatInv, HotseatTypes
<1>7. Listed'
  BY <1>1, <1>5 DEF HotseatInv, Listed
<1>8. Earlier'
  BY <1>1, <1>5 DEF HotseatInv, Earlier
<1>9. Phases' /\ Behind' /\ Opening'
  BY <1>1 DEF HotseatInv, Phases, Behind, Opening
<1>10. Seated' /\ Guarded'
  BY <1>1 DEF HotseatInv, Seated, Guarded, Active, NameAt
<1>. QED
  BY <1>6, <1>7, <1>8, <1>9, <1>10 DEF HotseatInv

\* The server: the end of a phase.
LEMMA PhaseEndsKeeps == ASSUME HotseatInv, PhaseEnds PROVE HotseatInv'
<1>1. /\ UNCHANGED <<ws, num_hotseat_players, hotseat_players, hotseat_active_player, hotseat_pwd, stack,
                     running, page, roster, seat, up, opened, left>>
      /\ phase > 0 /\ phase' = (phase % Len(roster)) + 1
      /\ net' = Append(net, [t |-> "end", roster |-> roster, phase |-> phase'])
  BY DEF PhaseEnds, Tells, timers, seats, dialogs, screen, history
<1>2. IsSeq(net) /\ IsSeq(roster) /\ roster # << >> /\ phase \in 0..Len(roster)
  BY DEF HotseatInv, HotseatTypes
<1>3. Len(roster) \in Nat /\ Len(roster) >= 1 /\ Len(net) \in Nat /\ DOMAIN net = 1..Len(net)
  BY <1>2, Rested, SequenceHas
<1>4. phase' \in 1..Len(roster)
  BY <1>1, <1>2, <1>3
<1>5. /\ IsSeq(net') /\ Len(net') = Len(net) + 1 /\ DOMAIN net' = 1..Len(net) + 1
      /\ \A i \in 1..Len(net) : net'[i] = net[i]
  BY <1>1, <1>2, Appended
<1>6. net'[Len(net) + 1] = [t |-> "end", roster |-> roster, phase |-> phase']
  BY <1>1, <1>2, Appended
<1>7. net' # << >>
  BY <1>3, <1>5, EmptyIs
<1>8. HotseatTypes'
  BY <1>1, <1>4, <1>5 DEF HotseatInv, HotseatTypes
<1>9. Listed'
  <2>1. Single(roster) /\ (\A i \in DOMAIN net : Single(net[i].roster)) => \A i \in DOMAIN net' : Single(net'[i].roster)
    <3>1. \A i \in DOMAIN net' : (i \in DOMAIN net /\ net'[i] = net[i]) \/ net'[i].roster = roster
      BY <1>3, <1>5, <1>6
    <3>. QED
      BY <3>1
  <2>. QED
    BY <1>1, <2>1 DEF HotseatInv, Listed
<1>10. Earlier'
  BY <1>1 DEF HotseatInv, Earlier
<1>11. Phases'
  <2>1. /\ phase > 0 /\ ~running => net # << >> /\ net[1].t = "start" /\ net[1].phase = 1
        /\ \A i \in DOMAIN net : /\ net[i].t \in {"start", "end"} /\ net[i].phase \in 1..Len(roster)
                                 /\ (running \/ i > 1) => net[i].t = "end"
                                 /\ i > 1 => net[i].phase = (net[i - 1].phase % Len(roster)) + 1
        /\ net # << >> => net[Len(net)].phase = phase
    BY DEF HotseatInv, Phases
  <2>2. net # << >> => 1 \in 1..Len(net)
    BY <1>2, Rested
  <2>3. net = << >> => running
    BY <1>1, <2>1
  <2>4. ASSUME NEW i \in DOMAIN net'
        PROVE  /\ net'[i].t \in {"start", "end"} /\ net'[i].phase \in 1..Len(roster)
               /\ (running \/ i > 1) => net'[i].t = "end"
               /\ i > 1 => net'[i].phase = (net'[i - 1].phase % Len(roster)) + 1
    <3>1. CASE i \in 1..Len(net)
      <4>1. i \in DOMAIN net /\ (i > 1 => i - 1 \in 1..Len(net))
        BY <1>3, <3>1
      <4>2. net'[i] = net[i]
        BY <1>5, <3>1
      <4>. QED
        BY <1>5, <2>1, <4>1, <4>2
    <3>2. CASE i = Len(net) + 1
      <4>1. net'[i].t = "end" /\ net'[i].phase = phase' /\ i - 1 = Len(net)
        BY <1>3, <1>6, <3>2
      <4>2. CASE i > 1
        <5>1. net # << >> /\ Len(net) \in 1..Len(net)
          BY <1>3, <3>2, <4>2, EmptyIs
        <5>2. net'[i - 1].phase = phase
          BY <1>5, <2>1, <4>1, <5>1
        <5>. QED
          BY <1>1, <1>4, <4>1, <5>2
      <4>3. CASE ~(i > 1)
        BY <1>4, <4>1, <4>3
      <4>. QED
        BY <4>2, <4>3
    <3>. QED
      BY <1>3, <1>5, <3>1, <3>2
  <2>5. net'[Len(net')].phase = phase'
    BY <1>5, <1>6
  <2>6. ~running => net'[1].t = "start" /\ net'[1].phase = 1
    BY <1>1, <1>5, <2>1, <2>2
  <2>. QED
    BY <1>1, <1>4, <1>7, <2>4, <2>5, <2>6 DEF Phases
<1>12. Behind'
  <2>1. CASE net = << >>
    <3>1. net'[1].phase = phase'
      BY <1>5, <1>6, <2>1, EmptyIs
    <3>. QED
      BY <1>1, <1>7, <2>1, <3>1 DEF HotseatInv, Behind
  <2>2. CASE net # << >>
    <3>1. net'[1] = net[1]
      BY <1>2, <1>5, <2>2, Rested
    <3>. QED
      BY <1>1, <1>7, <2>2, <3>1 DEF HotseatInv, Behind
  <2>. QED
    BY <2>1, <2>2
<1>13. Opening'
  BY <1>1 DEF HotseatInv, Opening
<1>14. Seated' /\ Guarded'
  BY <1>1 DEF HotseatInv, Seated, OwnNames, LastTake, Guarded, Active, NameAt
<1>. QED
  BY <1>8, <1>9, <1>10, <1>11, <1>12, <1>13, <1>14 DEF HotseatInv


\* The first of the commands, or of the packets, has arrived.
\* Served, the commands that take a player or do nothing: the rest of the state
\* of the server is left alone.
LEMMA ServedQueue ==
  ASSUME HotseatInv, up # << >>, up' = Tail(up)
  PROVE  /\ IsSeq(up') /\ Len(up) \in Nat \ {0} /\ DOMAIN up = 1..Len(up) /\ DOMAIN up' = 1..Len(up) - 1
         /\ Head(up) = up[1] /\ \A i \in DOMAIN up' : i + 1 \in DOMAIN up /\ up'[i] = up[i + 1]
         /\ \A i \in DOMAIN up' : LastTake(i)' => LastTake(i + 1)
<1>1. IsSeq(up)
  BY DEF HotseatInv, HotseatTypes
<1>2. /\ Len(up) \in Nat \ {0} /\ Head(up) = up[1] /\ IsSeq(up') /\ DOMAIN up' = 1..Len(up) - 1
      /\ \A i \in 1..Len(up) - 1 : up'[i] = up[i + 1]
  BY <1>1, Rested
<1>3. DOMAIN up = 1..Len(up)
  BY <1>1, SequenceHas
<1>4. \A i \in DOMAIN up' : i \in Nat /\ i + 1 \in DOMAIN up /\ up'[i] = up[i + 1]
  BY <1>2, <1>3
<1>5. ASSUME NEW i \in DOMAIN up', LastTake(i)' PROVE LastTake(i + 1)
  <2>1. up'[i].c = "take" /\ \A j \in DOMAIN up' : j > i => up'[j].c # "take"
    BY <1>5 DEF LastTake
  <2>2. ASSUME NEW j \in DOMAIN up, j > i + 1 PROVE up[j].c # "take"
    <3>1. j - 1 \in DOMAIN up' /\ j - 1 > i /\ (j - 1) + 1 = j
      BY <1>2, <1>3, <1>4, <2>2
    <3>. QED
      BY <1>4, <2>1, <3>1
  <2>. QED
    BY <1>4, <2>1, <2>2 DEF LastTake
<1>. QED
  BY <1>2, <1>3, <1>4, <1>5

\* What the server does with a command, of which there are four.
Creates(q) == q.c = "create" /\ phase = 0 /\ q.n # None /\ Named(q.n) = {}
Takes(q) == q.c = "take" /\ Named(q.n) # {}
PageOpens(q) == q.c = "ready" /\ phase = 0 /\ Len(roster) > 1
Hand(q) == [i \in 1..Len(roster) |->
              IF i \in Named(q.n) THEN [roster[i] EXCEPT !.ai = ~@] ELSE roster[i]]

LEMMA ServedDoes ==
  ASSUME Served
  PROVE  /\ up # << >> /\ up' = Tail(up)
         /\ roster' = IF Creates(Head(up)) THEN Append(roster, [name |-> Head(up).n, ai |-> TRUE])
                      ELSE IF Head(up).c = "ai" THEN Hand(Head(up)) ELSE roster
         /\ seat' = IF Takes(Head(up)) THEN Head(up).n ELSE seat
         /\ IF PageOpens(Head(up))
            THEN phase' = 1 /\ net' = Append(net, [t |-> "start", roster |-> roster, phase |-> phase'])
            ELSE phase' = phase /\ net' = net
         /\ UNCHANGED <<ws, num_hotseat_players, hotseat_players, hotseat_active_player, hotseat_pwd, stack,
                        running, page, opened, left>>
<1>1. up # << >> /\ up' = Tail(up)
  BY DEF Served
<1>2. roster' = IF Creates(Head(up)) THEN Append(roster, [name |-> Head(up).n, ai |-> TRUE])
                ELSE IF Head(up).c = "ai" THEN Hand(Head(up)) ELSE roster
  BY Zenon DEF Served, Creates, Hand
<1>3. seat' = IF Takes(Head(up)) THEN Head(up).n ELSE seat
  BY Zenon DEF Served, Takes
<1>4. IF PageOpens(Head(up))
      THEN phase' = 1 /\ net' = Append(net, [t |-> "start", roster |-> roster, phase |-> phase'])
      ELSE phase' = phase /\ net' = net
  BY Zenon DEF Served, PageOpens, Tells
<1>5. UNCHANGED <<ws, num_hotseat_players, hotseat_players, hotseat_active_player, hotseat_pwd, stack,
                  running, page, opened, left>>
  BY DEF Served, timers, seats, dialogs, screen, history
<1>. QED
  BY <1>1, <1>2, <1>3, <1>4, <1>5

\* The server's players stay players, keep their names, and are at most more.
LEMMA ServedRoster ==
  ASSUME HotseatInv, Served
  PROVE  /\ IsSeq(roster') /\ roster' # << >> /\ Len(roster) \in Nat /\ Len(roster) >= 1
         /\ \A i \in DOMAIN roster' : IsPlayer(roster'[i]) /\ roster'[i].ai \in BOOLEAN
         /\ \A i \in 1..Len(roster) : roster'[i].name = roster[i].name
         /\ Len(roster') >= Len(roster) /\ (phase > 0 => Len(roster') = Len(roster))
         /\ Len(roster') \in Nat
         /\ Head(up).c = "ready" => roster' = roster
<1>. PICK q : q = Head(up)
  OBVIOUS
<1>1. roster' = IF Creates(q) THEN Append(roster, [name |-> q.n, ai |-> TRUE])
                ELSE IF q.c = "ai" THEN Hand(q) ELSE roster
  BY ServedDoes
<1>2. /\ IsSeq(roster) /\ roster # << >> /\ \A i \in DOMAIN roster : IsPlayer(roster[i]) /\ roster[i].ai \in BOOLEAN
  BY DEF HotseatInv, HotseatTypes
<1>3. Len(roster) \in Nat /\ Len(roster) >= 1 /\ DOMAIN roster = 1..Len(roster)
  BY <1>2, Rested, SequenceHas
<1>4. CASE Creates(q)
  <2> DEFINE m == [name |-> q.n, ai |-> TRUE]
  <2>1. IsPlayer(m) /\ m.ai \in BOOLEAN
    BY DEF IsPlayer
  <2>. HIDE DEF m
  <2>2. IsSeq(Append(roster, m)) /\ Len(Append(roster, m)) = Len(roster) + 1
    BY <1>2, Appended
  <2>3. DOMAIN Append(roster, m) = 1..Len(roster) + 1 /\ Append(roster, m)[Len(roster) + 1] = m
    BY <1>2, Appended
  <2>4. \A i \in 1..Len(roster) : Append(roster, m)[i] = roster[i]
    BY <1>2, Appended
  <2>5. roster' = Append(roster, m)
    BY <1>1, <1>4 DEF m
  <2>6. \A i \in DOMAIN roster' : IsPlayer(roster'[i]) /\ roster'[i].ai \in BOOLEAN
    BY <1>2, <1>3, <2>1, <2>3, <2>4, <2>5
  <2>7. phase = 0 /\ q.c # "ready"
    BY <1>4 DEF Creates
  <2>8. IsSeq(roster') /\ Len(roster') = Len(roster) + 1
    BY <2>2, <2>5
  <2>9. roster' # << >>
    BY <1>3, <2>8, EmptyIs
  <2>10. \A i \in 1..Len(roster) : roster'[i].name = roster[i].name
    BY <2>4, <2>5
  <2>. QED
    BY <1>3, <2>6, <2>7, <2>8, <2>9, <2>10
<1>5. CASE ~Creates(q) /\ q.c = "ai"
  <2>1. roster' = Hand(q)
    BY <1>1, <1>5
  <2>2. DOMAIN roster' = 1..Len(roster) /\ roster' = [i \in 1..Len(roster) |-> roster'[i]]
    BY <2>1 DEF Hand
  <2>3. IsSeq(roster') /\ Len(roster') = Len(roster)
    BY <1>3, <2>2, FunctionIs
  <2>4. ASSUME NEW i \in 1..Len(roster)
        PROVE  IsPlayer(roster'[i]) /\ roster'[i].ai \in BOOLEAN /\ roster'[i].name = roster[i].name
    <3>1. roster'[i] = IF i \in Named(q.n) THEN [roster[i] EXCEPT !.ai = ~@] ELSE roster[i]
      BY <2>1 DEF Hand
    <3>2. roster[i] = [name |-> roster[i].name, ai |-> roster[i].ai] /\ roster[i].ai \in BOOLEAN
      BY <1>2, <1>3 DEF IsPlayer
    <3>3. [roster[i] EXCEPT !.ai = ~@] = [name |-> roster[i].name, ai |-> ~roster[i].ai]
      BY <3>2
    <3>. QED
      BY <3>1, <3>2, <3>3 DEF IsPlayer
  <2>. QED
    BY <1>3, <1>5, <2>2, <2>3, <2>4, EmptyIs
<1>6. CASE ~Creates(q) /\ q.c # "ai"
  BY <1>1, <1>2, <1>3, <1>6
<1>. QED
  BY <1>4, <1>5, <1>6

\* The server: a command.
LEMMA ServedKeeps == ASSUME HotseatInv, Served PROVE HotseatInv'
<1>1. up # << >> /\ up' = Tail(up)
  BY ServedDoes
<1>2. UNCHANGED <<ws, num_hotseat_players, hotseat_players, hotseat_active_player, hotseat_pwd, stack,
                  running, page, opened, left>>
  BY ServedDoes
<1>. PICK q : q = Head(up)
  OBVIOUS
<1>3. /\ seat' = IF Takes(q) THEN q.n ELSE seat
      /\ IF PageOpens(q)
         THEN phase' = 1 /\ net' = Append(net, [t |-> "start", roster |-> roster, phase |-> phase'])
         ELSE phase' = phase /\ net' = net
  BY ServedDoes
<1>4. /\ IsSeq(up') /\ Len(up) \in Nat \ {0} /\ DOMAIN up = 1..Len(up) /\ DOMAIN up' = 1..Len(up) - 1
      /\ q = up[1]
      /\ \A i \in DOMAIN up' : i + 1 \in DOMAIN up /\ up'[i] = up[i + 1]
      /\ \A i \in DOMAIN up' : LastTake(i)' => LastTake(i + 1)
  BY <1>1, ServedQueue
<1>5. /\ IsSeq(roster') /\ roster' # << >> /\ Len(roster) \in Nat /\ Len(roster) >= 1
      /\ \A i \in DOMAIN roster' : IsPlayer(roster'[i]) /\ roster'[i].ai \in BOOLEAN
  BY ServedRoster
<1>6. /\ \A i \in 1..Len(roster) : roster'[i].name = roster[i].name
      /\ Len(roster') >= Len(roster) /\ (phase > 0 => Len(roster') = Len(roster))
      /\ Len(roster') \in Nat
      /\ q.c = "ready" => roster' = roster
  BY ServedRoster
<1>7. /\ HotseatTypes /\ phase \in Nat /\ IsSeq(net) /\ running \in BOOLEAN
      /\ (phase = 0 => ~running /\ net = << >>) /\ phase \in 0..Len(roster)
  BY <1>5 DEF HotseatInv, HotseatTypes, Phases
<1>8. phase' \in 0..Len(roster') /\ (phase > 0 => ~PageOpens(q))
  BY <1>3, <1>5, <1>6, <1>7 DEF PageOpens
<1>9. PageOpens(q) => /\ IsSeq(net') /\ Len(net') = 1 /\ DOMAIN net' = 1..1
                   /\ net'[1] = [t |-> "start", roster |-> roster, phase |-> 1]
  <2>. SUFFICES ASSUME PageOpens(q) PROVE /\ IsSeq(net') /\ Len(net') = 1 /\ DOMAIN net' = 1..1
                                       /\ net'[1] = [t |-> "start", roster |-> roster, phase |-> 1]
    OBVIOUS
  <2>1. net = << >> /\ Len(net) = 0 /\ phase' = 1
    BY <1>3, <1>7, EmptyIs DEF PageOpens
  <2>2. net' = Append(net, [t |-> "start", roster |-> roster, phase |-> 1])
    BY <1>3, <2>1
  <2>. PICK m : m = [t |-> "start", roster |-> roster, phase |-> 1]
    OBVIOUS
  <2>3. net' = Append(net, m)
    BY <2>2
  <2>4. IsSeq(net)
    BY <1>7
  <2>5. IsSeq(Append(net, m))
    BY <2>4, Appended
  <2>6. Len(Append(net, m)) = Len(net) + 1
    BY <2>4, Appended
  <2>7. DOMAIN Append(net, m) = 1..Len(net) + 1
    BY <2>4, Appended
  <2>8. Append(net, m)[Len(net) + 1] = m
    BY <2>4, Appended
  <2>9. Len(net) + 1 = 1
    BY <2>1
  <2>. QED
    BY <2>3, <2>5, <2>6, <2>7, <2>8, <2>9
<1>10. IsSeq(net')
  BY <1>3, <1>7, <1>9
<1>11. HotseatTypes'
  <2>1. IsSeq(stack') /\ IsSeq(hotseat_players') /\ ws' \in {"none", "opening", "open"} /\ running' \in BOOLEAN
        /\ page' \in BOOLEAN /\ num_hotseat_players' \in 1..MaxPlayers
        /\ hotseat_active_player' \in 0..num_hotseat_players' - 1
    BY <1>2, <1>7 DEF HotseatTypes
  <2>. QED
    BY <1>4, <1>5, <1>8, <1>10, <2>1 DEF HotseatTypes
<1>12. Listed'
  <2>1. CASE hotseat_players # << >>
    BY <1>2, <2>1 DEF HotseatInv, Listed
  <2>2. CASE hotseat_players = << >>
    <3>1. ~running /\ (\A i \in DOMAIN up : up[i].c = "ready") /\ Single(roster)
          /\ \A i \in DOMAIN net : Single(net[i].roster)
      BY <2>2 DEF HotseatInv, Listed
    <3>2. q.c = "ready" /\ roster' = roster
      BY <1>4, <1>6, <3>1
    <3>3. \A i \in DOMAIN net' : Single(net'[i].roster)
      <4>1. CASE PageOpens(q)
        BY <1>9, <3>1, <4>1
      <4>2. CASE ~PageOpens(q)
        BY <1>3, <3>1, <4>2
      <4>. QED
        BY <4>1, <4>2
    <3>. QED
      BY <1>2, <1>4, <2>2, <3>1, <3>2, <3>3 DEF Listed
  <2>. QED
    BY <2>1, <2>2
<1>13. Earlier'
  <2>. SUFFICES ASSUME ~running PROVE seat' = roster'[1].name /\ \A i \in DOMAIN up' : up'[i].c # "take"
    BY <1>2 DEF HotseatInv, Earlier
  <2>1. seat = roster[1].name /\ \A i \in DOMAIN up : up[i].c # "take"
    BY DEF HotseatInv, Earlier
  <2>2. 1 \in DOMAIN up /\ 1 \in 1..Len(roster)
    BY <1>4, <1>5
  <2>3. seat' = seat
    BY <1>3, <1>4, <2>1, <2>2 DEF Takes
  <2>. QED
    BY <1>4, <1>6, <2>1, <2>2, <2>3
<1>14. Phases'
  <2>1. CASE PageOpens(q)
    <3>1. phase = 0 /\ ~running' /\ phase' = 1 /\ net' # << >>
      BY <1>2, <1>3, <1>7, <1>9, <2>1, EmptyIs DEF PageOpens
    <3>2. 1 \in 1..Len(roster')
      BY <1>5, <1>6
    <3>3. net'[1].t = "start" /\ net'[1].phase = 1 /\ DOMAIN net' = 1..1 /\ Len(net') = 1
      BY <1>9, <2>1
    <3>4. \A i \in DOMAIN net' : i = 1
      BY <3>3
    <3>. QED
      BY <3>1, <3>2, <3>3, <3>4 DEF Phases
  <2>2. CASE ~PageOpens(q)
    <3>1. phase' = phase /\ net' = net
      BY <1>3, <2>2
    <3>2. CASE phase = 0
      <4>1. net' = << >> /\ DOMAIN net' = {} /\ ~running'
        BY <1>2, <1>7, <3>1, <3>2, EmptyIs
      <4>. QED
        BY <3>1, <3>2, <4>1 DEF Phases
    <3>3. CASE phase > 0
      <4>1. Len(roster') = Len(roster)
        BY <1>6, <3>3
      <4>. QED
        BY <1>2, <3>1, <4>1 DEF HotseatInv, Phases
    <3>. QED
      BY <1>7, <3>2, <3>3
  <2>. QED
    BY <2>1, <2>2
<1>15. running => phase > 0 /\ phase' = phase /\ net' = net /\ Len(roster') = Len(roster)
  BY <1>3, <1>6, <1>7, <1>8
<1>16. Behind'
  BY <1>2, <1>15 DEF HotseatInv, Behind
<1>17. Seated'
  <2>. SUFFICES ASSUME running, OwnNames'
                PROVE  /\ \A i \in DOMAIN up' : LastTake(i)' => up'[i].n = Active
                       /\ (\A i \in DOMAIN up' : up'[i].c # "take") => seat' = Active
    BY <1>2 DEF Seated, Active, NameAt
  <2>1. OwnNames
    BY <1>2, <1>6, <1>15 DEF OwnNames
  <2>2. /\ \A i \in DOMAIN up : LastTake(i) => up[i].n = Active
        /\ (\A i \in DOMAIN up : up[i].c # "take") => seat = Active
    BY <2>1 DEF HotseatInv, Seated
  <2>3. \A i \in DOMAIN up' : LastTake(i)' => up'[i].n = Active
    BY <1>4, <2>2
  <2>4. ASSUME \A i \in DOMAIN up' : up'[i].c # "take" PROVE seat' = Active
    <3>1. \A i \in DOMAIN up : i # 1 => up[i].c # "take"
      <4>1. ASSUME NEW i \in DOMAIN up, i # 1 PROVE up[i].c # "take"
        <5>1. i - 1 \in DOMAIN up' /\ (i - 1) + 1 = i
          BY <1>4, <4>1
        <5>. QED
          BY <1>4, <2>4, <5>1
      <4>. QED
        BY <4>1
    <3>2. CASE q.c = "take"
      <4>1. 1 \in DOMAIN up /\ \A j \in DOMAIN up : j > 1 => j # 1
        BY <1>4
      <4>2. LastTake(1)
        BY <1>4, <3>1, <3>2, <4>1 DEF LastTake
      <4>3. q.n = Active
        BY <1>4, <2>2, <4>1, <4>2
      <4>4. Named(q.n) # {}
        <5>1. /\ num_hotseat_players \in Nat /\ hotseat_active_player \in 0..num_hotseat_players - 1
          BY <1>7 DEF HotseatTypes
        <5>2. Active = hotseat_players[hotseat_active_player + 1]
          BY <1>7, <2>1, ActiveIs DEF OwnNames
        <5>3. hotseat_active_player + 1 \in 1..Len(roster)
          BY <2>1, <5>1 DEF OwnNames
        <5>4. roster[hotseat_active_player + 1].name = Active
          BY <2>1, <5>2, <5>3 DEF OwnNames
        <5>. QED
          BY <4>3, <5>3, <5>4 DEF Named
      <4>. QED
        BY <1>3, <3>2, <4>3, <4>4 DEF Takes
    <3>3. CASE q.c # "take"
      <4>1. seat' = seat
        BY <1>3, <3>3 DEF Takes
      <4>. QED
        BY <1>4, <2>2, <3>1, <3>3, <4>1
    <3>. QED
      BY <3>2, <3>3
  <2>. QED
    BY <2>3, <2>4
<1>18. Guarded'
  BY <1>2 DEF HotseatInv, Guarded, Active, NameAt
<1>19. Opening'
  BY <1>2 DEF HotseatInv, Opening
<1>. QED
  BY <1>11, <1>12, <1>13, <1>14, <1>16, <1>17, <1>18, <1>19 DEF HotseatInv


\* The first packet has arrived.
LEMMA NetQueue ==
  ASSUME HotseatInv, net # << >>, net' = Tail(net)
  PROVE  /\ IsSeq(net') /\ Len(net) \in Nat \ {0} /\ Len(net') = Len(net) - 1
         /\ Head(net) = net[1] /\ DOMAIN net' = 1..Len(net) - 1 /\ DOMAIN net = 1..Len(net)
         /\ \A i \in 1..Len(net) - 1 : net'[i] = net[i + 1]
<1>1. IsSeq(net)
  BY DEF HotseatInv, HotseatTypes
<1>. QED
  BY <1>1, Rested, SequenceHas

\* The packets behind it, of which each is about the end of a phase.
LEMMA NetPhases ==
  ASSUME HotseatInv, net # << >>, net' = Tail(net), roster' = roster, phase' = phase, running' = TRUE
  PROVE  /\ Phases'
         /\ net' = << >> => phase = net[1].phase
         /\ net' # << >> => net'[1].phase = (net[1].phase % Len(roster)) + 1
<1>1. /\ IsSeq(net') /\ Len(net) \in Nat \ {0} /\ Len(net') = Len(net) - 1
      /\ DOMAIN net' = 1..Len(net) - 1 /\ DOMAIN net = 1..Len(net)
      /\ \A i \in 1..Len(net) - 1 : net'[i] = net[i + 1]
  BY NetQueue
<1>2. /\ phase # 0 /\ phase \in Nat
      /\ \A i \in DOMAIN net : /\ net[i].t \in {"start", "end"} /\ net[i].phase \in 1..Len(roster)
                               /\ i > 1 => net[i].t = "end"
                               /\ i > 1 => net[i].phase = (net[i - 1].phase % Len(roster)) + 1
      /\ net[Len(net)].phase = phase
  <2>1. phase \in Nat
    <3>1. IsSeq(roster) /\ phase \in 0..Len(roster)
      BY DEF HotseatInv, HotseatTypes
    <3>. QED
      BY <3>1, SequenceHas
  <2>. QED
    BY <2>1 DEF HotseatInv, Phases
<1>3. ASSUME NEW i \in DOMAIN net'
      PROVE  /\ net'[i].t = "end" /\ net'[i].phase \in 1..Len(roster)
             /\ i > 1 => net'[i].phase = (net'[i - 1].phase % Len(roster)) + 1
  <2>1. i + 1 \in DOMAIN net /\ i + 1 > 1 /\ net'[i] = net[i + 1] /\ (i + 1) - 1 = i
    BY <1>1
  <2>2. ASSUME i > 1 PROVE net'[i - 1] = net[i]
    <3>1. i - 1 \in 1..Len(net) - 1 /\ (i - 1) + 1 = i
      BY <1>1, <2>2
    <3>. QED
      BY <1>1, <3>1
  <2>. QED
    BY <1>2, <2>1, <2>2
<1>4. net' # << >> => Len(net') \in 1..Len(net') /\ Len(net') + 1 = Len(net) /\ 1 \in DOMAIN net'
  BY <1>1, Rested
<1>5. net' # << >> => net'[Len(net')] = net[Len(net)] /\ net'[1] = net[2] /\ 2 \in DOMAIN net
  BY <1>1, <1>4
<1>6. Phases'
  BY <1>2, <1>3, <1>5 DEF Phases
<1>7. ASSUME net' = << >> PROVE phase = net[1].phase
  <2>1. Len(net) = 1
    BY <1>1, <1>7, EmptyIs
  <2>. QED
    BY <1>2, <2>1
<1>8. ASSUME net' # << >> PROVE net'[1].phase = (net[1].phase % Len(roster)) + 1
  <2>1. 2 \in DOMAIN net /\ 2 > 1 /\ net'[1] = net[2] /\ 2 - 1 = 1
    BY <1>5, <1>8
  <2>. QED
    BY <1>2, <2>1
<1>. QED
  BY <1>6, <1>7, <1>8

\* show_hotseat_new_phase
LEMMA NewPhaseHas ==
  ASSUME HotseatInv, ShowNewPhase
  PROVE  /\ IsSeq(stack') /\ "phase" \in ToSet(stack') /\ "new" \notin ToSet(stack') /\ opened' = None
<1>1. IsSeq(stack)
  BY DEF HotseatInv, HotseatTypes
<1>2. IsSeq(Staying({"pwd"})) /\ ToSet(Staying({"pwd"})) = {"pwd"} \cap ToSet(stack)
  BY <1>1, StayingHas
<1>3. stack' = Append(Staying({"pwd"}), "phase") /\ opened' = None
  BY DEF ShowNewPhase
<1>4. IsSeq(stack')
  BY <1>2, <1>3, Appended
<1>5. ToSet(stack') = ToSet(Staying({"pwd"})) \cup {"phase"}
  BY <1>2, <1>3, AppendedHas
<1>. QED
  BY <1>2, <1>3, <1>4, <1>5

\* hotseat_load_refresh, at a page where no player has a name yet: the only player
\* who is not the computer's is the first.
LEMMA RefreshedIs ==
  ASSUME NEW p, Single(p.roster), p.phase = 1, hotseat_active_player = 0, Refreshed(p)
  PROVE  /\ num_hotseat_players' = 1 /\ hotseat_active_player' = 0
         /\ IsSeq(hotseat_players') /\ Len(hotseat_players') = 1 /\ hotseat_players'[1] = p.roster[1].name
<1> DEFINE r == p.roster
           P == {i \in DOMAIN r : ~r[i].ai}
           human == Keep(r, P)
           over == {i \in 1..Len(human) : \E j \in 1..p.phase - 1 : r[j] = human[i]}
           first == {i \in 1..Len(human) : i \notin over /\ \A j \in 1..i - 1 : j \in over}
<1>1. IsSeq(r) /\ r # << >> /\ DOMAIN r = 1..Len(r) /\ Len(r) \in Nat \ {0}
  BY Rested, SequenceHas DEF Single
<1>2. \A i : i \in P <=> i = 1
  BY <1>1 DEF Single
<1>3. /\ num_hotseat_players' = Len(human)
      /\ hotseat_players' = [i \in 1..Len(human) |-> human[i].name]
      /\ hotseat_active_player' = hotseat_active_player
                                  + (IF first = {} THEN Len(human) ELSE (CHOOSE i \in first : TRUE) - 1)
  BY DEF Refreshed
<1>. HIDE DEF P
<1>4. IsSeq(human) /\ \E g : Selects(r, P, human, g)
  <2>1. IsSeq(r)
    BY <1>1
  <2>2. IsSeq(Keep(r, P)) /\ \E g : Selects(r, P, Keep(r, P), g)
    BY <2>1, KeepSelects, Zenon
  <2>. QED
    BY <2>2
<1>. HIDE DEF human
<1>5. PICK g : Selects(r, P, human, g)
  BY <1>4
<1>6. DOMAIN human = 1..Len(human) /\ Len(human) \in Nat
  BY <1>4, SequenceHas
<1>7. /\ \A i \in 1..Len(human) : g[i] = 1 /\ human[i] = r[g[i]]
      /\ \A i, j \in 1..Len(human) : i < j => g[i] < g[j]
      /\ \E i \in 1..Len(human) : g[i] = 1
  BY <1>1, <1>2, <1>5, <1>6 DEF Selects
<1>8. Len(human) = 1 /\ human[1] = r[1]
  <2>1. Len(human) >= 1
    BY <1>6, <1>7
  <2>2. ~(Len(human) > 1)
    <3>1. Len(human) > 1 => 1 \in 1..Len(human) /\ 2 \in 1..Len(human) /\ 1 < 2
      BY <1>6
    <3>. QED
      BY <1>7, <3>1
  <2>3. Len(human) = 1
    BY <1>6, <2>1, <2>2
  <2>. QED
    BY <1>7, <2>3
<1>9. over = {}
  BY <1>8
<1>10. first = {1}
  <2>1. \A i : i \in first <=> i = 1
    BY <1>8, <1>9
  <2>. HIDE DEF first
  <2>. QED
    BY <2>1
<1>11. hotseat_active_player' = 0
  <2>1. (CHOOSE i \in first : TRUE) = 1
    BY <1>10
  <2>. HIDE DEF first
  <2>. QED
    BY <1>3, <1>10, <2>1
<1>12. hotseat_players' = [i \in 1..1 |-> hotseat_players'[i]] /\ DOMAIN hotseat_players' = 1..1
       /\ hotseat_players'[1] = r[1].name
  BY <1>3, <1>8
<1>13. IsSeq(hotseat_players') /\ Len(hotseat_players') = 1
  <2>. PICK hp : hp = hotseat_players'
    OBVIOUS
  <2>1. 1 \in Nat /\ DOMAIN hp = 1..1 /\ hp = [i \in 1..1 |-> hp[i]]
    BY <1>12
  <2>. QED
    BY <2>1, FunctionIs
<1>. QED
  BY <1>3, <1>8, <1>11, <1>12, <1>13


\* handle_start_phase: the page is shown behind the dialog, for nobody in particular.
LEMMA HandleStartKeeps == ASSUME HotseatParams, HotseatInv, HandleStart PROVE HotseatInv'
<1>1. /\ net # << >> /\ net[1].t = "start" /\ net' = Tail(net) /\ running' = TRUE /\ page' = TRUE
      /\ UNCHANGED <<ws, hotseat_pwd, roster, phase, seat, up>>
      /\ ShowNewPhase
  <2>1. IsSeq(net) /\ net # << >>
    BY DEF HandleStart, HotseatInv, HotseatTypes
  <2>2. Head(net) = net[1]
    BY <2>1, Rested
  <2>. QED
    BY <2>2 DEF HandleStart, timers, server
<1>2. IF hotseat_players = << >> THEN Refreshed(net[1]) ELSE UNCHANGED seats
  <2>1. Head(net) = net[1]
    BY <1>1, NetQueue
  <2>2. IF hotseat_players = << >> THEN Refreshed(Head(net)) ELSE UNCHANGED seats
    BY DEF HandleStart
  <2>. QED
    BY <2>1, <2>2
<1>3. /\ IsSeq(net') /\ DOMAIN net = 1..Len(net) /\ Len(net) \in Nat \ {0} /\ DOMAIN net' = 1..Len(net) - 1
  BY <1>1, NetQueue
<1>4. ~running /\ net[1].phase = 1
  <2>1. 1 \in DOMAIN net
    BY <1>3
  <2>2. ~running
    BY <1>1, <2>1 DEF HotseatInv, Phases
  <2>3. phase > 0
    <3>1. phase # 0 /\ phase \in 0..Len(roster) /\ IsSeq(roster)
      BY <1>1 DEF HotseatInv, Phases, HotseatTypes
    <3>. QED
      BY <3>1, SequenceHas
  <2>. QED
    BY <2>2, <2>3 DEF HotseatInv, Phases
<1>5. /\ Phases'
      /\ net' = << >> => phase = 1
      /\ net' # << >> => net'[1].phase = (1 % Len(roster)) + 1
  BY <1>1, <1>4, NetPhases
<1>6. /\ hotseat_pwd = {} /\ hotseat_active_player = 0 /\ seat = roster[1].name
      /\ \A i \in DOMAIN up : up[i].c # "take"
  BY <1>4 DEF HotseatInv, Earlier
<1>7. /\ IsSeq(stack') /\ "phase" \in ToSet(stack') /\ "new" \notin ToSet(stack')
  BY <1>1, NewPhaseHas
<1>8. HotseatTypes
  BY DEF HotseatInv
<1>9. /\ num_hotseat_players' \in 1..MaxPlayers /\ hotseat_active_player' = 0
      /\ IsSeq(hotseat_players') /\ hotseat_players' # << >> /\ num_hotseat_players' <= Len(hotseat_players')
  <2>1. CASE hotseat_players = << >>
    <3>1. Single(net[1].roster)
      BY <1>3, <2>1 DEF HotseatInv, Listed
    <3>2. /\ num_hotseat_players' = 1 /\ hotseat_active_player' = 0
          /\ IsSeq(hotseat_players') /\ Len(hotseat_players') = 1
      BY <1>2, <1>4, <1>6, <2>1, <3>1, RefreshedIs
    <3>3. hotseat_players' # << >>
      BY <3>2, EmptyIs
    <3>. QED
      BY <3>2, <3>3 DEF HotseatParams
  <2>2. CASE hotseat_players # << >>
    <3>1. UNCHANGED <<num_hotseat_players, hotseat_players, hotseat_active_player>>
      BY <1>2, <2>2 DEF seats
    <3>2. num_hotseat_players <= Len(hotseat_players)
      BY <2>2 DEF HotseatInv, Listed
    <3>. QED
      BY <1>6, <1>8, <2>2, <3>1, <3>2 DEF HotseatTypes
  <2>. QED
    BY <2>1, <2>2
<1>10. num_hotseat_players' >= 1 /\ num_hotseat_players' \in Nat
  BY <1>9 DEF HotseatParams
<1>11. HotseatTypes'
  <2>1. hotseat_active_player' \in 0..num_hotseat_players' - 1
    <3>1. \A k \in Nat : k >= 1 => 0 \in 0..k - 1
      OBVIOUS
    <3>. QED
      BY <1>9, <1>10, <3>1
  <2>2. IsSeq(roster') /\ IsSeq(up') /\ roster' # << >> /\ ws' \in {"none", "opening", "open"}
        /\ phase' \in 0..Len(roster') /\ \A i \in DOMAIN roster' : IsPlayer(roster'[i]) /\ roster'[i].ai \in BOOLEAN
    BY <1>1, <1>8 DEF HotseatTypes
  <2>. QED
    BY <1>1, <1>3, <1>7, <1>9, <2>1, <2>2 DEF HotseatTypes
<1>12. Listed'
  BY <1>7, <1>9 DEF Listed
<1>13. Earlier' /\ Guarded' /\ Opening'
  BY <1>1, <1>6 DEF Earlier, Guarded, Opening
<1>14. Behind'
  BY <1>1, <1>5, <1>9 DEF Behind
<1>15. Seated'
  <2>. SUFFICES ASSUME OwnNames' PROVE seat' = Active'
    BY <1>1, <1>6 DEF Seated, LastTake
  <2>1. Active' = hotseat_players'[1]
    <3>1. hotseat_active_player' + 1 = 1
      BY <1>9
    <3>2. Active' = hotseat_players'[hotseat_active_player' + 1]
      BY <1>9, <1>10, <1>11 DEF Active, NameAt, HotseatTypes
    <3>. QED
      BY <3>1, <3>2
  <2>2. 1 \in 1..Len(roster')
    BY <1>10 DEF OwnNames
  <2>3. roster'[1].name = hotseat_players'[1]
    BY <2>2 DEF OwnNames
  <2>. QED
    BY <1>1, <1>6, <2>1, <2>3
<1>. QED
  BY <1>5, <1>11, <1>12, <1>13, <1>14, <1>15 DEF HotseatInv

\* handle_end_phase: the page is hidden, and the next player taken.
LEMMA HandleEndKeeps == ASSUME HotseatParams, HotseatInv, HandleEnd PROVE HotseatInv'
<1>. PICK next : next = (hotseat_active_player + 1) % num_hotseat_players
  OBVIOUS
<1>1. /\ net # << >> /\ net' = Tail(net) /\ page' = FALSE
      /\ UNCHANGED <<ws, hotseat_pwd, num_hotseat_players, hotseat_players, running, roster, phase, seat>>
      /\ ShowNewPhase
      /\ hotseat_active_player' = next
      /\ up' = Append(up, [c |-> "take", n |-> NameAt(hotseat_players, next)])
  BY DEF HandleEnd, timers, server
<1>2. /\ IsSeq(net') /\ DOMAIN net = 1..Len(net) /\ Len(net) \in Nat \ {0} /\ DOMAIN net' = 1..Len(net) - 1
      /\ net[1].t = "end"
  <2>1. Head(net).t = "end"
    BY DEF HandleEnd
  <2>. QED
    BY <1>1, <2>1, NetQueue
<1>3. HotseatTypes /\ running \in BOOLEAN
  BY DEF HotseatInv, HotseatTypes
<1>4. running
  <2>1. phase > 0
    <3>1. phase # 0 /\ phase \in 0..Len(roster) /\ IsSeq(roster)
      BY <1>1, <1>3 DEF HotseatInv, Phases, HotseatTypes
    <3>. QED
      BY <3>1, SequenceHas
  <2>. QED
    BY <1>2, <1>3, <2>1 DEF HotseatInv, Phases
<1>5. /\ Phases'
      /\ net' = << >> => phase = net[1].phase
      /\ net' # << >> => net'[1].phase = (net[1].phase % Len(roster)) + 1
  BY <1>1, <1>4, NetPhases
<1>6. /\ IsSeq(stack') /\ "phase" \in ToSet(stack') /\ "new" \notin ToSet(stack')
  BY <1>1, NewPhaseHas
<1>7. /\ hotseat_players # << >> /\ num_hotseat_players <= Len(hotseat_players)
  BY <1>4 DEF HotseatInv, Listed
<1>8. /\ num_hotseat_players \in Nat \ {0} /\ hotseat_active_player \in 0..num_hotseat_players - 1
      /\ Len(hotseat_players) \in Nat
  <2>1. IsSeq(hotseat_players) /\ num_hotseat_players \in 1..MaxPlayers /\ hotseat_active_player \in 0..num_hotseat_players - 1
    BY <1>3 DEF HotseatTypes
  <2>. QED
    BY <2>1, SequenceHas DEF HotseatParams
<1>9. next \in 0..num_hotseat_players - 1
  BY <1>8
<1>. PICK m : m = [c |-> "take", n |-> NameAt(hotseat_players, next)]
  OBVIOUS
<1>10. /\ up' = Append(up, m) /\ m.c = "take" /\ m.n = Active' /\ IsSeq(up)
  <2>1. Active' = NameAt(hotseat_players, next)
    BY <1>1 DEF Active, NameAt
  <2>. QED
    BY <1>1, <1>3, <2>1 DEF HotseatTypes
<1>11. /\ IsSeq(Append(up, m)) /\ DOMAIN Append(up, m) = 1..Len(up) + 1
       /\ Append(up, m)[Len(up) + 1] = m
  BY <1>10, Appended
<1>12. Len(up) \in Nat
  BY <1>10, SequenceHas
<1>13. HotseatTypes'
  <2>1. IsSeq(roster') /\ IsSeq(hotseat_players') /\ roster' # << >> /\ ws' \in {"none", "opening", "open"}
        /\ phase' \in 0..Len(roster') /\ num_hotseat_players' \in 1..MaxPlayers
        /\ \A i \in DOMAIN roster' : IsPlayer(roster'[i]) /\ roster'[i].ai \in BOOLEAN
    BY <1>1, <1>3 DEF HotseatTypes
  <2>2. IsSeq(up') /\ hotseat_active_player' \in 0..num_hotseat_players' - 1 /\ page' \in BOOLEAN /\ running' \in BOOLEAN
    BY <1>1, <1>3, <1>9, <1>10, <1>11
  <2>. QED
    BY <1>2, <1>6, <2>1, <2>2 DEF HotseatTypes
<1>14. Listed' /\ Earlier' /\ Guarded' /\ Opening'
  BY <1>1, <1>4, <1>6, <1>7 DEF Listed, Earlier, Guarded, Opening
<1>15. Behind'
  <2>. SUFFICES ASSUME Len(roster) = num_hotseat_players
                PROVE  IF net' = << >> THEN phase = next + 1
                       ELSE net'[1].phase = ((next + 1) % Len(roster)) + 1
    BY <1>1 DEF Behind
  <2>1. net[1].phase = next + 1
    BY <1>1, <1>4 DEF HotseatInv, Behind
  <2>. QED
    BY <1>5, <2>1
<1>16. Seated'
  <2>1. ASSUME NEW i \in DOMAIN up', LastTake(i)' PROVE up'[i].n = Active'
    <3>1. up'[Len(up) + 1].c = "take" /\ Len(up) + 1 \in DOMAIN up' /\ i \in 1..Len(up) + 1
      BY <1>10, <1>11, <1>12, <2>1
    <3>2. ~(Len(up) + 1 > i)
      BY <2>1, <3>1 DEF LastTake
    <3>3. i = Len(up) + 1
      BY <1>12, <3>1, <3>2
    <3>. QED
      BY <1>10, <1>11, <3>3
  <2>2. ~(\A i \in DOMAIN up' : up'[i].c # "take")
    <3>1. Len(up) + 1 \in DOMAIN up' /\ up'[Len(up) + 1].c = "take"
      BY <1>10, <1>11, <1>12
    <3>. QED
      BY <3>1
  <2>. QED
    BY <2>1, <2>2 DEF Seated
<1>. QED
  BY <1>5, <1>13, <1>14, <1>15, <1>16 DEF HotseatInv

\* The start: the user, and the computer's players.
LEMMA HotseatStarts == ASSUME HotseatParams, Init PROVE HotseatInv
<1>1. /\ ws = "none" /\ num_hotseat_players = 2 /\ hotseat_players = << >> /\ hotseat_active_player = 0
      /\ hotseat_pwd = {} /\ stack = <<"new">> /\ running = FALSE /\ page = FALSE
      /\ phase = 0 /\ up = << >> /\ net = << >>
  BY DEF Init
<1>2. PICK n \in Logins, some \in Computers :
        roster = << [name |-> n, ai |-> FALSE] >> \o some /\ seat = n
  BY DEF Init
<1>. PICK m : m = [name |-> n, ai |-> FALSE]
  OBVIOUS
<1>3. IsPlayer(m) /\ m.ai = FALSE /\ m.name = n
  BY DEF IsPlayer
<1>4. IsSeq(<<m>>) /\ Len(<<m>>) = 1 /\ <<m>>[1] = m
  <2>1. <<m>> \in Seq({m})
    OBVIOUS
  <2>. QED
    BY <2>1, SequenceIs
<1>. PICK one : one = <<m>>
  OBVIOUS
<1>5. IsSeq(some) /\ \A i \in DOMAIN some : IsPlayer(some[i]) /\ some[i].ai = TRUE
  BY <1>2 DEF HotseatParams
<1>6. Len(some) \in Nat /\ DOMAIN some = 1..Len(some)
  BY <1>5, SequenceHas
<1>7. IsSeq(one \o some) /\ Len(one \o some) = 1 + Len(some)
  <2>1. IsSeq(one) /\ Len(one) = 1
    BY <1>4
  <2>2. IsSeq(one \o some) /\ Len(one \o some) = Len(one) + Len(some)
    BY <1>5, <2>1, Joined
  <2>. QED
    BY <2>1, <2>2
<1>8. /\ \A i \in 1..1 : (one \o some)[i] = m
      /\ \A i \in 1..Len(some) : (one \o some)[1 + i] = some[i]
  <2>1. IsSeq(one) /\ Len(one) = 1 /\ one[1] = m
    BY <1>4
  <2>2. \A i \in 1..Len(one) : (one \o some)[i] = one[i]
    BY <1>5, <2>1, Joined
  <2>3. \A i \in 1..Len(some) : (one \o some)[Len(one) + i] = some[i]
    BY <1>5, <2>1, Joined
  <2>. QED
    BY <2>1, <2>2, <2>3
<1>9. IsSeq(roster) /\ Len(roster) = 1 + Len(some) /\ roster[1] = m /\ roster = one \o some
  <2>1. roster = one \o some
    BY <1>2
  <2>2. (one \o some)[1] = m
    BY <1>8
  <2>. QED
    BY <1>7, <2>1, <2>2
<1>10. ASSUME NEW i \in 1..1 + Len(some), i # 1 PROVE IsPlayer(roster[i]) /\ roster[i].ai = TRUE
  <2>1. i - 1 \in 1..Len(some) /\ 1 + (i - 1) = i
    BY <1>6, <1>10
  <2>2. roster[i] = some[i - 1]
    BY <1>8, <1>9, <2>1
  <2>. QED
    BY <1>5, <1>6, <2>1, <2>2
<1>11. DOMAIN roster = 1..1 + Len(some) /\ roster # << >>
  BY <1>6, <1>9, SequenceHas, EmptyIs
<1>12. IsSeq(stack) /\ ToSet(stack) = {"new"}
  <2>1. <<"new">> \in Seq({"new"}) /\ DOMAIN <<"new">> = {1} /\ <<"new">>[1] = "new"
    OBVIOUS
  <2>2. IsSeq(<<"new">>)
    BY <2>1, SequenceIs
  <2>. QED
    BY <1>1, <2>1, <2>2 DEF ToSet
<1>13. HotseatTypes
  <2>1. 2 \in 1..MaxPlayers /\ 0 \in 0..2 - 1 /\ 0 \in 0..1 + Len(some)
    BY <1>6 DEF HotseatParams
  <2>2. \A i \in DOMAIN roster : IsPlayer(roster[i]) /\ roster[i].ai \in BOOLEAN
    BY <1>3, <1>9, <1>10, <1>11
  <2>. QED
    BY <1>1, <1>9, <1>11, <1>12, <2>1, <2>2, EmptyIs DEF HotseatTypes
<1>14. Single(roster)
  BY <1>3, <1>9, <1>10, <1>11 DEF Single
<1>15. Listed
  BY <1>1, <1>14, EmptyIs DEF Listed
<1>16. Earlier
  BY <1>1, <1>2, <1>3, <1>9, <1>12, EmptyIs DEF Earlier
<1>17. Phases /\ Behind /\ Seated /\ Guarded /\ Opening
  BY <1>1, EmptyIs DEF Phases, Behind, Seated, Guarded, Opening
<1>. QED
  BY <1>13, <1>15, <1>16, <1>17 DEF HotseatInv

\* A step that changes nothing.
LEMMA HotseatStutters == ASSUME HotseatInv, UNCHANGED vars PROVE HotseatInv'
<1>1. UNCHANGED <<ws, num_hotseat_players, hotseat_players, hotseat_active_player, hotseat_pwd, stack,
                  running, page, roster, phase, seat, up, net, opened, left>>
  BY DEF vars
<1>. QED
  BY <1>1 DEF HotseatInv, HotseatTypes, Listed, Earlier, Phases, Behind, Seated, OwnNames, LastTake,
              Guarded, Opening, Active, NameAt

\* What it says of the page.
LEMMA HotseatSays == ASSUME HotseatInv PROVE HotseatSound
<1>1. HotseatTypes /\ Seated /\ Behind
  BY DEF HotseatInv
<1>2. TypeOK
  BY <1>1 DEF HotseatTypes, TypeOK
<1>3. ASSUME running, net = << >>, up = << >>, OwnGame PROVE Active = roster[phase].name /\ seat = Active
  <2>1. OwnNames /\ Len(roster) = num_hotseat_players
    BY <1>3 DEF OwnGame, OwnNames
  <2>2. seat = Active
    BY <1>1, <1>3, <2>1, EmptyIs DEF Seated
  <2>3. phase = hotseat_active_player + 1
    BY <1>1, <1>3, <2>1 DEF Behind
  <2>4. Active = hotseat_players[hotseat_active_player + 1]
    BY <1>1, <2>1, ActiveIs DEF OwnNames
  <2>5. phase \in 1..Len(roster)
    BY <1>1, <2>1, <2>3 DEF HotseatTypes
  <2>. QED
    BY <2>1, <2>2, <2>3, <2>4, <2>5 DEF OwnNames
<1>4. TurnMatches
  BY <1>3 DEF TurnMatches
<1>5. PageGuarded /\ HiddenOpens
  BY DEF HotseatInv, Guarded, Opening, PageGuarded, HiddenOpens
<1>. QED
  BY <1>2, <1>4, <1>5 DEF HotseatSound

\* A game of several players at one page: when everything on its way has arrived
\* the page names the player whose phase it is; the page of a player with a
\* password is not shown before that player has opened it; and a page that is
\* hidden can be opened (ui/hotseat.ts).
THEOREM HotseatIsSound ==
  ASSUME HotseatParams
  PROVE  Spec => []HotseatSound
<1>1. Init => HotseatInv
  BY HotseatStarts
<1>2. HotseatInv /\ [Next]_vars => HotseatInv'
  <2>. SUFFICES ASSUME HotseatInv, [Next]_vars PROVE HotseatInv'
    OBVIOUS
  <2>1. CASE Beginning
    BY <2>1, AddPlayerKeeps, TypingKeeps, CloseNewKeeps, SetupKeeps, StartKeeps DEF Beginning
  <2>2. CASE Served
    BY <2>2, ServedKeeps
  <2>3. CASE PhaseEnds
    BY <2>3, PhaseEndsKeeps
  <2>4. CASE HandleStart
    BY <2>4, HandleStartKeeps
  <2>5. CASE HandleEnd
    BY <2>5, HandleEndKeeps
  <2>6. CASE PlayTurn
    BY <2>6, PlayTurnKeeps
  <2>7. CASE AddPassword
    BY <2>7, AddPasswordKeeps
  <2>8. CASE ClosePhase
    BY <2>8, ClosePhaseKeeps
  <2>9. CASE CancelPassword
    BY <2>9, CancelPasswordKeeps
  <2>10. CASE SetPassword
    BY <2>10, SetPasswordKeeps
  <2>11. CASE UNCHANGED vars
    BY <2>11, HotseatStutters
  <2>. QED
    BY <2>1, <2>2, <2>3, <2>4, <2>5, <2>6, <2>7, <2>8, <2>9, <2>10, <2>11 DEF Next
<1>3. HotseatInv => HotseatSound
  BY HotseatSays
<1>. QED
  BY <1>1, <1>2, <1>3, PTL DEF Spec

-----------------------------------------------------------------------------
(* Dialogs.                                                                *)

CONSTANTS Dialogs, Options, Places, Widths, MaxTop
VARIABLES made, dialog, activeDialogs, topZIndex, pressed, forgotten

Boxes == INSTANCE GameDialog

IsRect(r) == r = [width |-> r.width, height |-> r.height, place |-> r.place]
IsFields(f) ==
  f = [state |-> f.state, open |-> f.open, rect |-> f.rect, saved |-> f.saved, content |-> f.content,
       resize |-> f.resize, z |-> f.z, dragging |-> f.dragging]

\* What is needed of the parameters.
DialogParams ==
  /\ None \notin Dialogs /\ MaxTop \in Nat /\ ~IsRect(None)
  /\ \A d \in Dialogs : Options[d].resizable \in BOOLEAN /\ Options[d].draggable \in BOOLEAN

\* The fields of one dialog, of which the rectangle was overwritten or was not:
\* a rectangle that is kept is its own.
Looks(d, f, overwritten) ==
  /\ IsFields(f) /\ IsRect(f.rect) /\ f.open \in BOOLEAN /\ f.dragging \in BOOLEAN
  /\ f.state \in {"normal", "minimized", "maximized"}
  /\ f.content = (f.state # "minimized")
  /\ f.resize = (f.state = "normal" /\ Options[d].resizable)
  /\ f.state = "normal" /\ ~overwritten => f.rect.height = "own"
  /\ f.state # "normal" => IsRect(f.saved) /\ (~overwritten => f.saved.height = "own")

DialogsInv ==
  /\ dialog = [d \in Dialogs |-> dialog[d]]
  /\ \A d \in Dialogs : Looks(d, dialog[d], d \in forgotten)
  /\ \A d \in Dialogs : dialog[d].z \in 0..topZIndex
  /\ Boxes!TypeOK /\ Boxes!RegistryOpen /\ Boxes!OneInFront /\ Boxes!OneDragged

\* A step that gives one dialog its fields: it keeps its height, loses it, or is
\* raised above all.
OneChanges(d, f) ==
  /\ dialog' = [dialog EXCEPT ![d] = f] /\ Looks(d, f, d \in forgotten')
  /\ \A e \in Dialogs : e # d => (e \in forgotten' <=> e \in forgotten) /\ (e \in made' <=> e \in made)
  /\ \A e \in Dialogs : e # d /\ dialog[e].dragging => pressed' = e
  /\ \A e : e # d => (e \in activeDialogs' <=> e \in activeDialogs)
  /\ (d \in activeDialogs' <=> d \in made' /\ f.open)
  /\ made' \subseteq Dialogs /\ pressed' \in Dialogs \cup {None} /\ (f.dragging => pressed' = d)
  /\ topZIndex' \in {topZIndex, topZIndex + 1} /\ topZIndex' <= MaxTop
  /\ \/ f.z = 0 \/ (d \in made /\ f.z = dialog[d].z)
     \/ f.z = topZIndex + 1 /\ topZIndex' = topZIndex + 1

LEMMA OneChangesKeeps ==
  ASSUME DialogParams, DialogsInv, NEW d \in Dialogs, NEW f, OneChanges(d, f)
  PROVE  DialogsInv'
<1>1. /\ dialog' = [e \in Dialogs |-> dialog'[e]] /\ dialog'[d] = f
      /\ \A e \in Dialogs : e # d => dialog'[e] = dialog[e]
  BY DEF DialogsInv, OneChanges
<1>2. \A e \in Dialogs : Looks(e, dialog'[e], e \in forgotten')
  <2>1. ASSUME NEW e \in Dialogs, e # d PROVE Looks(e, dialog'[e], e \in forgotten')
    <3>1. Looks(e, dialog[e], e \in forgotten) /\ dialog'[e] = dialog[e]
      BY <1>1, <2>1 DEF DialogsInv
    <3>2. e \in forgotten' <=> e \in forgotten
      BY <2>1 DEF OneChanges
    <3>. QED
      BY <3>1, <3>2 DEF Looks
  <2>. QED
    BY <1>1, <2>1 DEF OneChanges
<1>3. /\ topZIndex \in Nat /\ topZIndex' \in Nat /\ topZIndex <= topZIndex' /\ topZIndex' \in 0..MaxTop
      /\ \A e \in Dialogs : dialog[e].z \in 0..topZIndex
      /\ f.z = 0 \/ (d \in made /\ f.z = dialog[d].z) \/ (f.z = topZIndex + 1 /\ topZIndex' = topZIndex + 1)
  BY DEF DialogsInv, Boxes!TypeOK, DialogParams, OneChanges
<1>4. \A e \in Dialogs : dialog'[e].z \in 0..topZIndex'
  BY <1>1, <1>3
<1>5. Boxes!TypeOK'
  BY <1>2, <1>3 DEF OneChanges, Boxes!TypeOK, Looks
<1>6. Boxes!RegistryOpen'
  <2>1. \A e : e \in activeDialogs <=> e \in made /\ dialog[e].open
    BY DEF DialogsInv, Boxes!RegistryOpen
  <2>2. \A e : e \in made => e \in Dialogs
    BY DEF DialogsInv, Boxes!TypeOK
  <2>3. \A e : e \in activeDialogs' <=> e \in made' /\ dialog'[e].open
    BY <1>1, <2>1, <2>2 DEF OneChanges
  <2>. QED
    BY <2>3 DEF Boxes!RegistryOpen
<1>7. Boxes!OneInFront'
  <2>. SUFFICES ASSUME NEW a \in made', NEW b \in made', a # b, dialog'[a].z > 0
                PROVE  dialog'[a].z # dialog'[b].z
    BY DEF Boxes!OneInFront
  <2>1. a \in Dialogs /\ b \in Dialogs
    BY DEF OneChanges
  <2>2. \A x, y \in made : x # y /\ dialog[x].z > 0 => dialog[x].z # dialog[y].z
    BY DEF DialogsInv, Boxes!OneInFront
  <2>3. CASE a # d /\ b # d
    <3>1. a \in made /\ b \in made
      BY <2>1, <2>3 DEF OneChanges
    <3>2. dialog'[a] = dialog[a] /\ dialog'[b] = dialog[b]
      BY <1>1, <2>1, <2>3
    <3>. QED
      BY <2>2, <3>1, <3>2
  <2>4. CASE a = d
    <3>1. dialog'[a] = f /\ dialog'[b] = dialog[b] /\ b \in made
      BY <1>1, <2>1, <2>4 DEF OneChanges
    <3>2. dialog[b].z \in 0..topZIndex
      BY <1>3, <2>1
    <3>. QED
      BY <1>3, <2>2, <2>4, <3>1, <3>2
  <2>5. CASE b = d
    <3>1. dialog'[b] = f /\ dialog'[a] = dialog[a] /\ a \in made
      BY <1>1, <2>1, <2>5 DEF OneChanges
    <3>2. dialog[a].z \in 0..topZIndex /\ dialog[a].z > 0
      BY <1>3, <2>1, <3>1
    <3>. QED
      BY <1>3, <2>2, <2>5, <3>1, <3>2
  <2>. QED
    BY <2>3, <2>4, <2>5
<1>8. Boxes!OneDragged'
  BY <1>1 DEF Boxes!OneDragged, OneChanges
<1>. QED
  BY <1>1, <1>2, <1>4, <1>5, <1>6, <1>7, <1>8 DEF DialogsInv


\* The fields of a dialog.
LEMMA FieldsOf ==
  ASSUME DialogsInv, NEW d \in Dialogs
  PROVE  /\ Looks(d, dialog[d], d \in forgotten) /\ dialog[d].z \in 0..topZIndex
         /\ dialog[d].dragging => pressed = d
         /\ (d \in activeDialogs <=> d \in made /\ dialog[d].open)
BY DEF DialogsInv, Boxes!OneDragged, Boxes!RegistryOpen

\* the constructor
LEMMA ConstructKeeps ==
  ASSUME DialogParams, DialogsInv, NEW d \in Dialogs, Boxes!Construct(d)
  PROVE  DialogsInv'
<1>1. Looks(d, Boxes!Fresh(d), FALSE)
  BY DEF Looks, Boxes!Fresh, Boxes!Rect, IsFields, IsRect, DialogParams
<1>2. /\ Boxes!Fresh(d).z = 0 /\ Boxes!Fresh(d).open = FALSE /\ Boxes!Fresh(d).dragging = FALSE
  BY DEF Boxes!Fresh
<1>3. /\ made \subseteq Dialogs /\ pressed \in Dialogs \cup {None} /\ topZIndex <= MaxTop
      /\ \A e \in Dialogs : dialog[e].dragging => pressed = e
      /\ \A e : e \in activeDialogs <=> e \in made /\ dialog[e].open
  BY DEF DialogsInv, Boxes!OneDragged, Boxes!RegistryOpen, Boxes!TypeOK, DialogParams
<1>4. d \notin forgotten'
  BY DEF Boxes!Construct
<1>5. Looks(d, Boxes!Fresh(d), d \in forgotten')
  BY <1>1, <1>4 DEF Looks
<1>6. OneChanges(d, Boxes!Fresh(d))
  <2>. HIDE DEF Boxes!Fresh
  <2>. QED
    BY <1>2, <1>3, <1>5 DEF OneChanges, Boxes!Construct
<1>. QED
  BY <1>6, OneChangesKeeps

\* A step at a dialog that is constructed, which raises it or not.
Within(d, f) ==
  /\ dialog' = [dialog EXCEPT ![d] = f] /\ Looks(d, f, d \in forgotten')
  /\ \A e \in Dialogs : e # d => (e \in forgotten' <=> e \in forgotten)
  /\ d \in made /\ made' = made
  /\ \A e : e # d => (e \in activeDialogs' <=> e \in activeDialogs)
  /\ (d \in activeDialogs' <=> f.open)
  /\ \/ topZIndex' = topZIndex /\ f.z = dialog[d].z
     \/ topZIndex < MaxTop /\ topZIndex' = topZIndex + 1 /\ f.z = topZIndex + 1
  /\ \/ pressed' = pressed /\ f.dragging = dialog[d].dragging
     \/ pressed = None /\ pressed' \in {d, None} /\ (f.dragging => pressed' = d)

LEMMA WithinKeeps ==
  ASSUME DialogParams, DialogsInv, NEW d \in Dialogs, NEW f, Within(d, f)
  PROVE  DialogsInv'
<1>1. /\ made \subseteq Dialogs /\ pressed \in Dialogs \cup {None} /\ topZIndex \in 0..MaxTop
      /\ \A e \in Dialogs : dialog[e].dragging => pressed = e
  BY DEF DialogsInv, Boxes!OneDragged, Boxes!TypeOK
<1>2. /\ pressed' \in Dialogs \cup {None} /\ (f.dragging => pressed' = d)
      /\ \A e \in Dialogs : e # d /\ dialog[e].dragging => pressed' = e
  BY <1>1 DEF Within, DialogParams
<1>3. topZIndex' \in {topZIndex, topZIndex + 1} /\ topZIndex' <= MaxTop
  BY <1>1 DEF Within, DialogParams
<1>4. OneChanges(d, f)
  BY <1>1, <1>2, <1>3 DEF OneChanges, Within
<1>. QED
  BY <1>4, OneChangesKeeps

\* A dialog is closed, open and raised, or pressed.
LEMMA Closes ==
  ASSUME NEW d, NEW was, NEW o, Looks(d, was, o)
  PROVE  /\ Looks(d, [was EXCEPT !.open = FALSE], o) /\ [was EXCEPT !.open = FALSE].z = was.z
         /\ [was EXCEPT !.open = FALSE].dragging = was.dragging /\ [was EXCEPT !.open = FALSE].open = FALSE
<1>1. IsFields(was)
  BY DEF Looks
<1>. PICK f : f = [was EXCEPT !.open = FALSE]
  OBVIOUS
<1>2. f = [state |-> was.state, open |-> FALSE, rect |-> was.rect, saved |-> was.saved, content |-> was.content,
           resize |-> was.resize, z |-> was.z, dragging |-> was.dragging]
  BY <1>1 DEF IsFields
<1>3. Looks(d, f, o) /\ f.z = was.z /\ f.dragging = was.dragging /\ f.open = FALSE
  BY <1>2 DEF Looks, IsFields
<1>. QED
  BY <1>3

LEMMA RaisedIs ==
  ASSUME NEW was, IsFields(was), NEW z, NEW x
  PROVE  /\ Boxes!Raised([was EXCEPT !.open = x], z)
            = [state |-> was.state, open |-> x, rect |-> was.rect, saved |-> was.saved, content |-> was.content,
               resize |-> was.resize, z |-> z, dragging |-> was.dragging]
         /\ Boxes!Raised([was EXCEPT !.dragging = x], z)
            = [state |-> was.state, open |-> was.open, rect |-> was.rect, saved |-> was.saved,
               content |-> was.content, resize |-> was.resize, z |-> z, dragging |-> x]
<1>1. PICK m : m = [was EXCEPT !.open = x]
  OBVIOUS
<1>2. PICK n : n = [was EXCEPT !.dragging = x]
  OBVIOUS
<1>3. m = [state |-> was.state, open |-> x, rect |-> was.rect, saved |-> was.saved, content |-> was.content,
       resize |-> was.resize, z |-> was.z, dragging |-> was.dragging]
  BY <1>1 DEF IsFields
<1>4. n = [state |-> was.state, open |-> was.open, rect |-> was.rect, saved |-> was.saved,
       content |-> was.content, resize |-> was.resize, z |-> was.z, dragging |-> x]
  BY <1>2 DEF IsFields
<1>5. [m EXCEPT !.z = z] = [state |-> was.state, open |-> x, rect |-> was.rect, saved |-> was.saved,
                content |-> was.content, resize |-> was.resize, z |-> z, dragging |-> was.dragging]
  BY <1>3
<1>6. [n EXCEPT !.z = z] = [state |-> was.state, open |-> was.open, rect |-> was.rect, saved |-> was.saved,
                content |-> was.content, resize |-> was.resize, z |-> z, dragging |-> x]
  BY <1>4
<1>. QED
  BY <1>1, <1>2, <1>5, <1>6 DEF Boxes!Raised

LEMMA RaisedLooks ==
  ASSUME NEW d, NEW was, NEW o, Looks(d, was, o), NEW z, NEW b \in BOOLEAN
  PROVE  /\ Looks(d, Boxes!Raised([was EXCEPT !.open = b], z), o) /\ Boxes!Raised([was EXCEPT !.open = b], z).z = z
         /\ Boxes!Raised([was EXCEPT !.open = b], z).open = b
         /\ Boxes!Raised([was EXCEPT !.open = b], z).dragging = was.dragging
         /\ Looks(d, Boxes!Raised([was EXCEPT !.dragging = b], z), o) /\ Boxes!Raised([was EXCEPT !.dragging = b], z).z = z
         /\ Boxes!Raised([was EXCEPT !.dragging = b], z).dragging = b
         /\ Boxes!Raised([was EXCEPT !.dragging = b], z).open = was.open
<1>1. IsFields(was)
  BY DEF Looks
<1>. PICK f : f = Boxes!Raised([was EXCEPT !.open = b], z)
  OBVIOUS
<1>. PICK g : g = Boxes!Raised([was EXCEPT !.dragging = b], z)
  OBVIOUS
<1>3. f = [state |-> was.state, open |-> b, rect |-> was.rect, saved |-> was.saved, content |-> was.content,
           resize |-> was.resize, z |-> z, dragging |-> was.dragging]
  BY <1>1, RaisedIs, Zenon
<1>4. g = [state |-> was.state, open |-> was.open, rect |-> was.rect, saved |-> was.saved,
           content |-> was.content, resize |-> was.resize, z |-> z, dragging |-> b]
  BY <1>1, RaisedIs, Zenon
<1>5. Looks(d, f, o) /\ f.z = z /\ f.open = b /\ f.dragging = was.dragging
  BY <1>3 DEF Looks, IsFields
<1>6. Looks(d, g, o) /\ g.z = z /\ g.dragging = b /\ g.open = was.open
  BY <1>4 DEF Looks, IsFields
<1>. QED
  BY <1>5, <1>6

\* destroy
LEMMA DestroyKeeps ==
  ASSUME DialogParams, DialogsInv, NEW d \in Dialogs, Boxes!Destroy(d)
  PROVE  DialogsInv'
<1> DEFINE f == [dialog[d] EXCEPT !.open = FALSE]
<1>1. Looks(d, f, d \in forgotten) /\ f.z = dialog[d].z /\ f.dragging = dialog[d].dragging /\ f.open = FALSE
  BY FieldsOf, Closes
<1>2. dialog' = [dialog EXCEPT ![d] = f]
  BY DEF Boxes!Destroy
<1>. HIDE DEF f
<1>3. /\ made \subseteq Dialogs /\ pressed \in Dialogs \cup {None} /\ topZIndex <= MaxTop
      /\ \A e \in Dialogs : dialog[e].dragging => pressed = e
  BY DEF DialogsInv, Boxes!OneDragged, Boxes!TypeOK, DialogParams
<1>4. OneChanges(d, f)
  BY <1>1, <1>2, <1>3 DEF OneChanges, Boxes!Destroy
<1>. QED
  BY <1>4, OneChangesKeeps

\* open
LEMMA BoxOpenKeeps ==
  ASSUME DialogParams, DialogsInv, NEW d \in Dialogs, Boxes!Open(d)
  PROVE  DialogsInv'
<1> DEFINE there == dialog[d]
           placed == IF Options[d].position = None THEN there
                     ELSE [there EXCEPT !.rect.place = Options[d].position]
           open == [placed EXCEPT !.open = TRUE]
           f == Boxes!Raised(open, topZIndex')
<1>1. Looks(d, there, d \in forgotten)
  BY FieldsOf
<1>2. Looks(d, placed, d \in forgotten) /\ placed.dragging = there.dragging
  <2>1. IsFields(there) /\ IsRect(there.rect)
    BY <1>1 DEF Looks
  <2>2. [there EXCEPT !.rect.place = Options[d].position] =
          [there EXCEPT !.rect = [width |-> there.rect.width, height |-> there.rect.height,
                                  place |-> Options[d].position]]
    BY <2>1 DEF IsFields, IsRect
  <2>. QED
    BY <1>1, <2>1, <2>2 DEF Looks, IsFields, IsRect
<1>3. dialog' = [dialog EXCEPT ![d] = f]
  BY DEF Boxes!Open, Boxes!BringToFront
<1>. HIDE DEF there, placed
<1>4. Looks(d, f, d \in forgotten) /\ f.z = topZIndex' /\ f.open = TRUE /\ f.dragging = placed.dragging
  <2>4. PICK yes \in BOOLEAN : yes = TRUE
    OBVIOUS
  <2>. PICK o : o = (d \in forgotten)
    OBVIOUS
  <2>. PICK was : was = placed
    OBVIOUS
  <2>. PICK g : g = Boxes!Raised([was EXCEPT !.open = yes], topZIndex')
    OBVIOUS
  <2>1. Looks(d, was, o)
    BY <1>2
  <2>2. /\ Looks(d, g, o)
        /\ g.z = topZIndex'
        /\ g.open = yes
        /\ g.dragging = was.dragging
    <3>. PICK z : z = topZIndex'
      OBVIOUS
    <3>1. g = Boxes!Raised([was EXCEPT !.open = yes], z)
      OBVIOUS
    <3>2. Looks(d, Boxes!Raised([was EXCEPT !.open = yes], z), o)
      BY <2>1, RaisedLooks
    <3>3. g = [state |-> was.state, open |-> yes, rect |-> was.rect, saved |-> was.saved, content |-> was.content,
               resize |-> was.resize, z |-> z, dragging |-> was.dragging]
      BY <2>1, <3>1, RaisedIs, Zenon DEF Looks
    <3>4. g.z = z /\ g.open = yes /\ g.dragging = was.dragging
      BY <3>3
    <3>5. Looks(d, g, o)
      BY <3>1, <3>2
    <3>. QED
      BY <3>4, <3>5, Zenon
  <2>3. f = g
    BY <2>4, Zenon
  <2>. QED
    BY <2>2, <2>3, <2>4
<1>5. there.dragging = dialog[d].dragging
  BY DEF there
<1>. HIDE DEF f
<1>6. Within(d, f)
  BY <1>2, <1>3, <1>4, <1>5 DEF Within, Boxes!Open, Boxes!BringToFront
<1>. QED
  BY <1>6, WithinKeeps

\* close
LEMMA BoxCloseKeeps ==
  ASSUME DialogParams, DialogsInv, NEW d \in Dialogs, Boxes!Close(d)
  PROVE  DialogsInv'
<1> DEFINE f == [dialog[d] EXCEPT !.open = FALSE]
<1>1. Looks(d, f, d \in forgotten) /\ f.z = dialog[d].z /\ f.dragging = dialog[d].dragging /\ f.open = FALSE
  BY FieldsOf, Closes
<1>2. dialog' = [dialog EXCEPT ![d] = f]
  BY DEF Boxes!Close
<1>. HIDE DEF f
<1>3. Within(d, f)
  BY <1>1, <1>2 DEF Within, Boxes!Close
<1>. QED
  BY <1>3, WithinKeeps

\* minimize, restore and maximize, and another width
LEMMA DoesWithin ==
  ASSUME DialogParams, DialogsInv, NEW d \in Dialogs, NEW f, Boxes!Does(d, f),
         Looks(d, f, d \in forgotten'), \A e \in Dialogs : e # d => (e \in forgotten' <=> e \in forgotten),
         f.z = dialog[d].z, f.dragging = dialog[d].dragging, f.open = dialog[d].open
  PROVE  DialogsInv'
<1>1. d \in activeDialogs <=> d \in made /\ dialog[d].open
  BY FieldsOf
<1>2. Within(d, f)
  BY <1>1 DEF Within, Boxes!Does
<1>. QED
  BY <1>2, WithinKeeps

LEMMA Minimized ==
  ASSUME NEW was, IsFields(was), IsRect(was.rect), NEW no
  PROVE  [was EXCEPT !.state = "minimized", !.saved = was.rect, !.content = no, !.rect.height = "auto",
                     !.resize = no]
         = [state |-> "minimized", open |-> was.open, saved |-> was.rect, content |-> no, resize |-> no,
            rect |-> [width |-> was.rect.width, height |-> "auto", place |-> was.rect.place],
            z |-> was.z, dragging |-> was.dragging]
<1> DEFINE one == [was EXCEPT !.state = "minimized"]
           two == [one EXCEPT !.saved = was.rect]
           three == [two EXCEPT !.content = no]
           four == [three EXCEPT !.rect.height = "auto"]
           five == [four EXCEPT !.resize = no]
<1>1. one = [state |-> "minimized", open |-> was.open, saved |-> was.saved, content |-> was.content,
             resize |-> was.resize, rect |-> was.rect, z |-> was.z, dragging |-> was.dragging]
  BY DEF IsFields
<1>. HIDE DEF one
<1>6. two = [state |-> "minimized", open |-> was.open, saved |-> was.rect, content |-> was.content,
             resize |-> was.resize, rect |-> was.rect, z |-> was.z, dragging |-> was.dragging]
  BY <1>1
<1>. HIDE DEF two
<1>2. three = [state |-> "minimized", open |-> was.open, saved |-> was.rect, content |-> no,
               resize |-> was.resize, rect |-> was.rect, z |-> was.z, dragging |-> was.dragging]
  BY <1>6
<1>. HIDE DEF three
<1>7. three.rect = was.rect
  BY <1>2
<1>8. [was.rect EXCEPT !.height = "auto"] = [width |-> was.rect.width, height |-> "auto", place |-> was.rect.place]
  BY DEF IsRect
<1>3. four = [three EXCEPT !.rect = [width |-> was.rect.width, height |-> "auto", place |-> was.rect.place]]
  BY <1>7, <1>8
<1>. HIDE DEF four
<1>4. four = [state |-> "minimized", open |-> was.open, saved |-> was.rect, content |-> no,
              resize |-> was.resize, z |-> was.z, dragging |-> was.dragging,
              rect |-> [width |-> was.rect.width, height |-> "auto", place |-> was.rect.place]]
  BY <1>2, <1>3
<1>5. five = [state |-> "minimized", open |-> was.open, saved |-> was.rect, content |-> no, resize |-> no,
              rect |-> [width |-> was.rect.width, height |-> "auto", place |-> was.rect.place],
              z |-> was.z, dragging |-> was.dragging]
  BY <1>4
<1>. QED
  BY <1>5 DEF one, two, three, four, five

LEMMA MinimizeKeeps ==
  ASSUME DialogParams, DialogsInv, NEW d \in Dialogs, Boxes!Minimize(d)
  PROVE  DialogsInv'
<1> DEFINE was == dialog[d]
           f == [was EXCEPT !.state = "minimized", !.saved = was.rect, !.content = FALSE,
                            !.rect.height = "auto", !.resize = FALSE]
<1>1. Looks(d, was, d \in forgotten) /\ was.state # "minimized" /\ Boxes!Does(d, f)
  BY FieldsOf DEF Boxes!Minimize
<1>2. forgotten' = IF was.state = "maximized" THEN forgotten \cup {d} ELSE forgotten
  BY DEF Boxes!Minimize
<1>9. IsFields(was) /\ IsRect(was.rect)
  BY <1>1 DEF Looks
<1>3. f = [state |-> "minimized", open |-> was.open, saved |-> was.rect, content |-> FALSE, resize |-> FALSE,
           rect |-> [width |-> was.rect.width, height |-> "auto", place |-> was.rect.place],
           z |-> was.z, dragging |-> was.dragging]
  <2>. PICK no : no = FALSE
    OBVIOUS
  <2>. HIDE DEF was
  <2>1. [was EXCEPT !.state = "minimized", !.saved = was.rect, !.content = no, !.rect.height = "auto",
                    !.resize = no]
        = [state |-> "minimized", open |-> was.open, saved |-> was.rect, content |-> no, resize |-> no,
           rect |-> [width |-> was.rect.width, height |-> "auto", place |-> was.rect.place],
           z |-> was.z, dragging |-> was.dragging]
    BY <1>9, Minimized
  <2>. QED
    BY <2>1, Zenon
<1>4. f.z = was.z /\ f.dragging = was.dragging /\ f.open = was.open
  BY <1>3
<1>5. Looks(d, f, d \in forgotten')
  <2>. HIDE DEF was, f
  <2>1. was.state = "normal" \/ d \in forgotten'
    BY <1>1, <1>2 DEF Looks
  <2>2. d \notin forgotten' => d \notin forgotten
    BY <1>2
  <2>. QED
    BY <1>1, <1>3, <2>1, <2>2 DEF Looks, IsFields, IsRect
<1>. HIDE DEF f
<1>6. \A e \in Dialogs : e # d => (e \in forgotten' <=> e \in forgotten)
  BY <1>2
<1>. QED
  BY <1>1, <1>4, <1>5, <1>6, DoesWithin

LEMMA RestoreKeeps ==
  ASSUME DialogParams, DialogsInv, NEW d \in Dialogs, Boxes!Restore(d)
  PROVE  DialogsInv'
<1> DEFINE was == dialog[d]
           f == [was EXCEPT !.state = "normal", !.content = TRUE, !.resize = Options[d].resizable,
                            !.rect = IF was.saved = None THEN @ ELSE was.saved]
<1>1. Looks(d, was, d \in forgotten) /\ was.state # "normal" /\ Boxes!Does(d, f) /\ forgotten' = forgotten
  BY FieldsOf DEF Boxes!Restore
<1>2. f = [was EXCEPT !.state = "normal", !.content = TRUE, !.resize = Options[d].resizable, !.rect = was.saved]
  BY <1>1 DEF Looks, DialogParams
<1>3. Looks(d, f, d \in forgotten) /\ f.z = was.z /\ f.dragging = was.dragging /\ f.open = was.open
  <2>. HIDE DEF was, f
  <2>. QED
    BY <1>1, <1>2 DEF Looks, IsFields, DialogParams
<1>. HIDE DEF f
<1>. QED
  BY <1>1, <1>3, DoesWithin

LEMMA MaximizeKeeps ==
  ASSUME DialogParams, DialogsInv, NEW d \in Dialogs, Boxes!Maximize(d)
  PROVE  DialogsInv'
<1> DEFINE was == dialog[d]
           f == [was EXCEPT !.state = "maximized", !.content = TRUE, !.resize = FALSE,
                            !.saved = IF was.state = "minimized" THEN @ ELSE was.rect,
                            !.rect = Boxes!Rect("view", "view", "corner")]
<1>1. Looks(d, was, d \in forgotten) /\ was.state # "maximized" /\ Boxes!Does(d, f) /\ forgotten' = forgotten
  BY FieldsOf DEF Boxes!Maximize
<1>2. f = [was EXCEPT !.state = "maximized", !.content = TRUE, !.resize = FALSE,
                      !.saved = IF was.state = "minimized" THEN was.saved ELSE was.rect,
                      !.rect = [width |-> "view", height |-> "view", place |-> "corner"]]
  BY DEF Boxes!Rect
<1>3. Looks(d, f, d \in forgotten) /\ f.z = was.z /\ f.dragging = was.dragging /\ f.open = was.open
  <2>. HIDE DEF was, f
  <2>. QED
    BY <1>1, <1>2 DEF Looks, IsFields, IsRect
<1>. HIDE DEF f
<1>. QED
  BY <1>1, <1>3, DoesWithin

LEMMA SetWidthKeeps ==
  ASSUME DialogParams, DialogsInv, NEW d \in Dialogs, NEW w, Boxes!SetWidth(d, w)
  PROVE  DialogsInv'
<1> DEFINE was == dialog[d]
           f == [was EXCEPT !.rect.width = w]
<1>1. Looks(d, was, d \in forgotten) /\ Boxes!Does(d, f) /\ forgotten' = forgotten
  BY FieldsOf DEF Boxes!SetWidth
<1>2. f = [was EXCEPT !.rect = [width |-> w, height |-> was.rect.height, place |-> was.rect.place]]
  <2>1. IsFields(was) /\ IsRect(was.rect)
    BY <1>1 DEF Looks
  <2>. HIDE DEF was
  <2>. QED
    BY <2>1 DEF IsFields, IsRect
<1>3. Looks(d, f, d \in forgotten) /\ f.z = was.z /\ f.dragging = was.dragging /\ f.open = was.open
  <2>. HIDE DEF was, f
  <2>. QED
    BY <1>1, <1>2 DEF Looks, IsFields, IsRect
<1>. HIDE DEF f
<1>. QED
  BY <1>1, <1>3, DoesWithin

\* The mouse.
LEMMA MouseDownKeeps ==
  ASSUME DialogParams, DialogsInv, NEW d \in Dialogs, NEW title \in BOOLEAN, Boxes!MouseDown(d, title)
  PROVE  DialogsInv'
<1> DEFINE f == Boxes!Raised([dialog[d] EXCEPT !.dragging = title /\ Options[d].draggable], topZIndex')
<1>1. Looks(d, dialog[d], d \in forgotten)
  BY FieldsOf
<1>2. dialog' = [dialog EXCEPT ![d] = f]
  BY DEF Boxes!MouseDown, Boxes!BringToFront
<1>3. f.dragging = (title /\ Options[d].draggable) /\ f.z = topZIndex' /\ f.open = dialog[d].open
  BY <1>1 DEF Looks, IsFields, Boxes!Raised
<1>4. f.dragging \in BOOLEAN
  BY <1>3 DEF DialogParams
<1>5. Looks(d, f, d \in forgotten)
  <2>. PICK b : b = (title /\ Options[d].draggable)
    OBVIOUS
  <2>1. b \in BOOLEAN
    BY DEF DialogParams
  <2>2. Looks(d, Boxes!Raised([dialog[d] EXCEPT !.dragging = b], topZIndex'), d \in forgotten)
    BY <1>1, <2>1, RaisedLooks
  <2>. QED
    BY <2>2
<1>. HIDE DEF f
<1>6. d \in activeDialogs <=> d \in made /\ dialog[d].open
  BY FieldsOf
<1>7. Within(d, f)
  BY <1>2, <1>3, <1>5, <1>6 DEF Within, Boxes!MouseDown, Boxes!BringToFront
<1>. QED
  BY <1>7, WithinKeeps

\* Steps that move or drop what is dragged: heights, states and registry stay.
LEMMA AllChange ==
  ASSUME DialogParams, DialogsInv, dialog' = [d \in Dialogs |-> dialog'[d]],
         \A d \in Dialogs : Looks(d, dialog'[d], d \in forgotten) /\ dialog'[d].z = dialog[d].z
                            /\ dialog'[d].open = dialog[d].open /\ (dialog'[d].dragging => pressed' = d),
         UNCHANGED <<made, activeDialogs, topZIndex, forgotten>>, pressed' \in Dialogs \cup {None}
  PROVE  DialogsInv'
<1>1. made \subseteq Dialogs /\ topZIndex \in 0..MaxTop /\ made' = made
  BY DEF DialogsInv, Boxes!TypeOK
<1>2. Boxes!TypeOK' /\ Boxes!OneDragged'
  BY <1>1 DEF Boxes!TypeOK, Boxes!OneDragged, Looks
<1>3. Boxes!RegistryOpen'
  <2>1. {d \in made' : dialog'[d].open} = {d \in made : dialog[d].open}
    BY <1>1
  <2>. QED
    BY <2>1 DEF DialogsInv, Boxes!RegistryOpen
<1>4. Boxes!OneInFront'
  BY <1>1 DEF DialogsInv, Boxes!OneInFront
<1>. QED
  BY <1>2, <1>3, <1>4 DEF DialogsInv

LEMMA MouseMoveKeeps ==
  ASSUME DialogParams, DialogsInv, NEW p, Boxes!MouseMove(p)
  PROVE  DialogsInv'
<1>1. /\ dialog' = [d \in Dialogs |-> IF dialog[d].dragging THEN [dialog[d] EXCEPT !.rect.place = p] ELSE dialog[d]]
      /\ UNCHANGED <<made, activeDialogs, topZIndex, pressed, forgotten>>
  BY DEF Boxes!MouseMove
<1>2. ASSUME NEW d \in Dialogs
      PROVE  /\ Looks(d, dialog'[d], d \in forgotten) /\ dialog'[d].z = dialog[d].z
             /\ dialog'[d].open = dialog[d].open /\ (dialog'[d].dragging => pressed' = d)
  <2>1. Looks(d, dialog[d], d \in forgotten) /\ (dialog[d].dragging => pressed = d)
    BY FieldsOf
  <2>2. dialog'[d] = IF dialog[d].dragging THEN [dialog[d] EXCEPT !.rect.place = p] ELSE dialog[d]
    BY <1>1
  <2>3. [dialog[d] EXCEPT !.rect.place = p] =
          [dialog[d] EXCEPT !.rect = [width |-> dialog[d].rect.width, height |-> dialog[d].rect.height, place |-> p]]
    <3>1. IsFields(dialog[d]) /\ IsRect(dialog[d].rect)
      BY <2>1 DEF Looks
    <3>. QED
      BY <3>1 DEF IsFields, IsRect
  <2>. PICK was : was = dialog[d]
    OBVIOUS
  <2>4. dialog'[d] = was \/ dialog'[d] =
          [was EXCEPT !.rect = [width |-> was.rect.width, height |-> was.rect.height, place |-> p]]
    BY <2>2, <2>3
  <2>5. Looks(d, was, d \in forgotten) /\ (was.dragging => pressed' = d)
    BY <1>1, <2>1
  <2>6. CASE dialog'[d] = was
    BY <2>5, <2>6
  <2>7. CASE dialog'[d] = [was EXCEPT !.rect = [width |-> was.rect.width, height |-> was.rect.height, place |-> p]]
    <3>. PICK f : f = dialog'[d]
      OBVIOUS
    <3>1. f = [was EXCEPT !.rect = [width |-> was.rect.width, height |-> was.rect.height, place |-> p]]
      BY <2>7
    <3>2. Looks(d, f, d \in forgotten) /\ f.z = was.z /\ f.open = was.open /\ f.dragging = was.dragging
      BY <2>5, <3>1 DEF Looks, IsFields, IsRect
    <3>. QED
      BY <2>5, <3>2
  <2>. QED
    BY <2>4, <2>6, <2>7
<1>3. pressed' \in Dialogs \cup {None} /\ dialog' = [d \in Dialogs |-> dialog'[d]]
  BY <1>1 DEF DialogsInv, Boxes!TypeOK
<1>. QED
  BY <1>1, <1>2, <1>3, AllChange

LEMMA MouseUpKeeps ==
  ASSUME DialogParams, DialogsInv, Boxes!MouseUp
  PROVE  DialogsInv'
<1>1. /\ dialog' = [d \in Dialogs |-> [dialog[d] EXCEPT !.dragging = FALSE]] /\ pressed' = None
      /\ UNCHANGED <<made, activeDialogs, topZIndex, forgotten>>
  BY DEF Boxes!MouseUp
<1>2. ASSUME NEW d \in Dialogs
      PROVE  /\ Looks(d, dialog'[d], d \in forgotten) /\ dialog'[d].z = dialog[d].z
             /\ dialog'[d].open = dialog[d].open /\ (dialog'[d].dragging => pressed' = d)
  <2>1. Looks(d, dialog[d], d \in forgotten)
    BY FieldsOf
  <2>2. dialog'[d] = [dialog[d] EXCEPT !.dragging = FALSE]
    BY <1>1
  <2>. QED
    BY <2>1, <2>2 DEF Looks, IsFields
<1>3. dialog' = [d \in Dialogs |-> dialog'[d]]
  BY <1>1
<1>. QED
  BY <1>1, <1>2, <1>3, AllChange

\* The start: no dialog is constructed.
LEMMA DialogsStart == ASSUME DialogParams, Boxes!Init PROVE DialogsInv
<1>1. /\ made = {} /\ dialog = [d \in Dialogs |-> Boxes!Fresh(d)]
      /\ activeDialogs = {} /\ topZIndex = 0 /\ pressed = None /\ forgotten = {}
  BY DEF Boxes!Init
<1>2. ASSUME NEW d \in Dialogs
      PROVE  Looks(d, dialog[d], d \in forgotten) /\ dialog[d].z = 0 /\ dialog[d].dragging = FALSE
  BY <1>1 DEF Looks, Boxes!Fresh, Boxes!Rect, IsFields, IsRect, DialogParams
<1>3. dialog = [d \in Dialogs |-> dialog[d]]
  BY <1>1
<1>4. Boxes!TypeOK
  <2>1. \A d \in Dialogs : dialog[d].state \in {"normal", "minimized", "maximized"}
    BY <1>2 DEF Looks
  <2>. HIDE DEF Boxes!Init
  <2>. QED
    BY <1>1, <2>1 DEF Boxes!TypeOK, DialogParams
<1>5. Boxes!RegistryOpen /\ Boxes!OneInFront /\ Boxes!OneDragged
  BY <1>1, <1>2 DEF Boxes!RegistryOpen, Boxes!OneInFront, Boxes!OneDragged
<1>6. \A d \in Dialogs : dialog[d].z \in 0..topZIndex
  <2>1. 0 \in 0..0
    OBVIOUS
  <2>. QED
    BY <1>1, <1>2, <2>1
<1>. QED
  BY <1>2, <1>3, <1>4, <1>5, <1>6 DEF DialogsInv

LEMMA DialogsStep == ASSUME DialogParams, DialogsInv, [Boxes!Next]_Boxes!vars PROVE DialogsInv'
<1>1. ASSUME NEW d \in Dialogs, Boxes!TitleButton(d) PROVE DialogsInv'
  BY <1>1, MinimizeKeeps, MaximizeKeeps, RestoreKeeps DEF Boxes!TitleButton, Boxes!ToggleMaximize
<1>2. ASSUME NEW d \in Dialogs,
             \/ Boxes!Construct(d) \/ Boxes!Destroy(d) \/ Boxes!Open(d) \/ Boxes!Close(d) \/ Boxes!UserCloses(d)
             \/ Boxes!Minimize(d) \/ Boxes!Restore(d) \/ Boxes!Maximize(d) \/ Boxes!ToggleMaximize(d)
      PROVE  DialogsInv'
  BY <1>2, ConstructKeeps, DestroyKeeps, BoxOpenKeeps, BoxCloseKeeps, MinimizeKeeps, RestoreKeeps, MaximizeKeeps
     DEF Boxes!UserCloses, Boxes!ToggleMaximize
<1>3. ASSUME UNCHANGED Boxes!vars PROVE DialogsInv'
  BY <1>3 DEF Boxes!vars, DialogsInv, Boxes!TypeOK, Boxes!RegistryOpen, Boxes!OneInFront, Boxes!OneDragged, Looks
<1>. QED
  BY <1>1, <1>2, <1>3, SetWidthKeeps, MouseDownKeeps, MouseMoveKeeps, MouseUpKeeps DEF Boxes!Next

\* Whatever dialogs are constructed, opened, raised, dragged, minimized, maximized,
\* restored, given a width, closed and destroyed, in any order: the registry holds
\* those that are open, which of two is in front is settled, what a dialog shows
\* and lies in is of its state, and the mouse drags one at most (ui/GameDialog.ts).
THEOREM DialogsAreSound ==
  ASSUME DialogParams
  PROVE  Boxes!Spec => []Boxes!DialogsSound
<1>1. Boxes!Init => DialogsInv
  BY DialogsStart
<1>2. DialogsInv /\ [Boxes!Next]_Boxes!vars => DialogsInv'
  BY DialogsStep
<1>3. DialogsInv => Boxes!DialogsSound
  <2>. SUFFICES ASSUME DialogsInv PROVE Boxes!DialogsSound
    OBVIOUS
  <2>1. \A d \in Dialogs : Looks(d, dialog[d], d \in forgotten)
    BY DEF DialogsInv
  <2>2. Boxes!StatesShow
    BY <2>1 DEF DialogsInv, Boxes!StatesShow, Looks, DialogParams, Boxes!TypeOK
  <2>. QED
    BY <2>2 DEF DialogsInv, Boxes!DialogsSound
<1>. QED
  BY <1>1, <1>2, <1>3, PTL DEF Boxes!Spec

-----------------------------------------------------------------------------
(* Cities: their worklists and their dialog.                               *)

CONSTANTS Cities, Improvements, UnitTypes, Able, MaxLen, Packets, MaxPicked
VARIABLES touch, city, shown, rows, fresh, chosen, picked, all, enabled,
          question, sent

Town == INSTANCE City

LEMMA TownLists == (\A s, P : Town!Keep(s, P) = Keep(s, P)) /\ \A S : Town!Cardinality(S) = Cardinality(S)
BY DEF Town!Keep, Keep, Town!Cardinality, Cardinality

\* What a worklist is made of.
Tasks == Town!Items \cup {Town!Hole}

\* What is needed of the parameters: cities are numbered, and the server sends no
\* worklist that is too long.
CityParams ==
  /\ IsFiniteSet(Cities) /\ Cities \subseteq Nat \ {Town!NoCity}
  /\ MaxLen \in Nat /\ MaxEdits \in Nat /\ Able \subseteq Town!Items
  /\ Packets \subseteq Town!CityRec /\ \A p \in Packets : Len(p.list) <= MaxLen



-----------------------------------------------------------------------------
(* Arrays.                                                                  *)

\* Reading and writing a worklist.
LEMMA AtIs == ASSUME NEW l \in Seq(Tasks), NEW i PROVE Town!At(l, i) \in Tasks
<1>1. l \in [1..Len(l) -> Tasks]
  BY LenProperties
<1>. QED
  BY <1>1 DEF Town!At, Tasks

\* q reads as l with x written at i.
Written(l, i, x, q) == \A j \in 1..Len(q) : q[j] = IF j = i THEN x ELSE Town!At(l, j)

LEMMA PutIs ==
  ASSUME NEW l \in Seq(Tasks), NEW i \in Nat, NEW x \in Tasks
  PROVE  /\ Town!Put(l, i, x) \in Seq(Tasks) /\ Len(Town!Put(l, i, x)) = IF i > Len(l) THEN i ELSE Len(l)
         /\ Written(l, i, x, Town!Put(l, i, x))
<1>. PICK n : n = IF i > Len(l) THEN i ELSE Len(l)
  OBVIOUS
<1>1. n \in Nat
  BY LenProperties
<1>. PICK p : p = Town!Put(l, i, x)
  OBVIOUS
<1>2. p = [j \in 1..n |-> IF j = i THEN x ELSE Town!At(l, j)]
  BY DEF Town!Put
<1>3. p \in [1..n -> Tasks] /\ p \in Seq(Tasks)
  BY <1>1, <1>2, AtIs, SeqDef
<1>4. Len(p) = n
  BY <1>1, <1>3, LenProperties
<1>5. Written(l, i, x, p)
  BY <1>2, <1>4 DEF Written
<1>. QED
  BY <1>3, <1>4, <1>5

LEMMA SwapIs ==
  ASSUME NEW l \in Seq(Tasks), NEW i \in Nat, NEW j \in Nat
  PROVE  Town!Swap(l, i, j) \in Seq(Tasks)
<1>1. Town!Put(l, i, Town!At(l, j)) \in Seq(Tasks) /\ Town!At(l, i) \in Tasks
  BY AtIs, PutIs
<1>. QED
  BY <1>1, PutIs DEF Town!Swap

\* Tasks that are there change places: nothing else does.
LEMMA SwapsTwo ==
  ASSUME NEW l \in Seq(Tasks), NEW i \in 1..Len(l), NEW j \in 1..Len(l), i # j
  PROVE  /\ Town!Swap(l, i, j) \in Seq(Tasks) /\ Len(Town!Swap(l, i, j)) = Len(l)
         /\ Town!Swap(l, i, j)[i] = l[j] /\ Town!Swap(l, i, j)[j] = l[i]
         /\ \A k \in 1..Len(l) : k # i /\ k # j => Town!Swap(l, i, j)[k] = l[k]
<1>1. Len(l) \in Nat /\ DOMAIN l = 1..Len(l) /\ l[i] \in Tasks /\ l[j] \in Tasks
  BY LenProperties, ElementOfSeq
<1>2. i \in Nat /\ j \in Nat /\ ~(i > Len(l)) /\ ~(j > Len(l)) /\ Town!At(l, i) = l[i] /\ Town!At(l, j) = l[j]
  BY <1>1 DEF Town!At
<1>. PICK p : p = Town!Put(l, i, l[j])
  OBVIOUS
<1>3. p \in Seq(Tasks) /\ Len(p) = Len(l) /\ p[i] = l[j] /\ \A k \in 1..Len(l) : k # i => p[k] = l[k]
  <2>1. p \in Seq(Tasks) /\ Len(p) = (IF i > Len(l) THEN i ELSE Len(l))
    BY <1>1, <1>2, PutIs
  <2>2. Written(l, i, l[j], p)
    BY <1>1, <1>2, PutIs
  <2>. QED
    BY <1>1, <1>2, <2>1, <2>2 DEF Town!At, Written
<1>. PICK q : q = Town!Put(p, j, l[i])
  OBVIOUS
<1>4. q \in Seq(Tasks) /\ Len(q) = Len(l) /\ q[j] = l[i] /\ \A k \in 1..Len(l) : k # j => q[k] = p[k]
  <2>1. q \in Seq(Tasks) /\ Len(q) = (IF j > Len(p) THEN j ELSE Len(p))
    BY <1>1, <1>2, <1>3, PutIs
  <2>2. Written(p, j, l[i], q)
    BY <1>1, <1>2, <1>3, PutIs
  <2>3. DOMAIN p = 1..Len(l)
    BY <1>3, LenProperties
  <2>. QED
    BY <1>1, <1>2, <1>3, <2>1, <2>2, <2>3 DEF Town!At, Written
<1>5. Town!Swap(l, i, j) = q
  BY <1>2 DEF Town!Swap
<1>. QED
  BY <1>3, <1>4, <1>5

LEMMA SubIs ==
  ASSUME NEW S, NEW l \in Seq(S), NEW m \in Nat \ {0}, NEW n \in Int, n <= Len(l)
  PROVE  /\ SubSeq(l, m, n) \in Seq(S)
         /\ Len(SubSeq(l, m, n)) = IF m <= n THEN n - m + 1 ELSE 0
         /\ \A i \in 1..n - m + 1 : SubSeq(l, m, n)[i] = l[m + i - 1]
<1>1. \A i \in m..n : l[i] \in S
  <2>1. Len(l) \in Nat
    BY LenProperties
  <2>2. \A i \in m..n : i \in 1..Len(l)
    BY <2>1
  <2>. QED
    BY <2>2, ElementOfSeq
<1>. QED
  BY <1>1, SubSeqProperties

LEMMA SpliceIs ==
  ASSUME NEW l \in Seq(Tasks), NEW i \in Nat \ {0}, NEW n \in Nat, NEW new \in Seq(Tasks)
  PROVE  Town!Splice(l, i, n, new) \in Seq(Tasks)
<1>. PICK k : k = IF i > Len(l) THEN Len(l) ELSE i - 1
  OBVIOUS
<1>1. Len(l) \in Nat /\ k \in Int /\ k <= Len(l) /\ i + n \in Nat \ {0} /\ Len(l) \in Int
  BY LenProperties
<1>2. SubSeq(l, 1, k) \in Seq(Tasks) /\ SubSeq(l, i + n, Len(l)) \in Seq(Tasks)
  BY <1>1, SubIs
<1>3. SubSeq(l, 1, k) \o new \in Seq(Tasks)
  BY <1>2, ConcatProperties
<1>4. (SubSeq(l, 1, k) \o new) \o SubSeq(l, i + n, Len(l)) \in Seq(Tasks)
  BY <1>2, <1>3, ConcatProperties
<1>. QED
  BY <1>4 DEF Town!Splice


\* Tasks that were moved up are a worklist, after a swap for each.
Rises(l, ps, g) == g[0] = l /\ \A k \in 1..Len(ps) : g[k] = Town!Swap(g[k - 1], ps[k] - 1, ps[k])

LEMMA MovedUpIs ==
  ASSUME NEW l \in Seq(Tasks), NEW ps \in Seq(Nat \ {0})
  PROVE  Town!MovedUp(l, ps) \in Seq(Tasks) /\ \E g : Rises(l, ps, g) /\ Town!MovedUp(l, ps) = g[Len(ps)]
<1> DEFINE Is(f) == f = [k \in 0..Len(ps) |-> IF k = 0 THEN l ELSE Town!Swap(f[k - 1], ps[k] - 1, ps[k])]
           step == [x \in Seq(Tasks) \X (1..Len(ps)) |-> LET k == x[2] IN Town!Swap(x[1], ps[k] - 1, ps[k])]
<1>1. Len(ps) \in Nat
  BY LenProperties
<1>2. \A k \in 1..Len(ps) : ps[k] \in Nat /\ ps[k] - 1 \in Nat
  BY ElementOfSeq
<1>3. step \in [Seq(Tasks) \X (1..Len(ps)) -> Seq(Tasks)]
  <2>1. ASSUME NEW a \in Seq(Tasks), NEW k \in 1..Len(ps) PROVE Town!Swap(a, ps[k] - 1, ps[k]) \in Seq(Tasks)
    BY <1>1, <1>2, SwapIs
  <2>. QED
    BY <2>1
<1>4. PICK g : Loop(Len(ps), Seq(Tasks), l, step, g)
  <2>. HIDE DEF step
  <2>. QED
    BY <1>1, <1>3, Recursion
<1>a. g \in [0..Len(ps) -> Seq(Tasks)] /\ g[0] = l /\ \A k \in 1..Len(ps) : g[k] = step[<<g[k - 1], k>>]
  <2>. HIDE DEF step
  <2>. QED
    BY <1>4, Zenon DEF Loop
<1>5. \A k \in 1..Len(ps) : k \in 0..Len(ps) /\ k # 0 /\ k - 1 \in 0..Len(ps) /\ g[k - 1] \in Seq(Tasks)
  <2>1. \A k \in 1..Len(ps) : k \in 0..Len(ps) /\ k # 0 /\ k - 1 \in 0..Len(ps)
    BY <1>1
  <2>. QED
    BY <1>a, <2>1, Zenon
<1>6. \A k \in 1..Len(ps) : g[k] = Town!Swap(g[k - 1], ps[k] - 1, ps[k])
  BY <1>a, <1>5
<1>7. Is(g)
  <2>1. \A k \in 0..Len(ps) : k = 0 \/ k \in 1..Len(ps)
    BY <1>1
  <2>. HIDE DEF step
  <2>2. \A k \in 0..Len(ps) : g[k] = IF k = 0 THEN l ELSE Town!Swap(g[k - 1], ps[k] - 1, ps[k])
    BY <1>a, <1>6, <2>1, Zenon
  <2>3. g = [k \in 0..Len(ps) |-> g[k]]
    BY <1>a
  <2>. QED
    BY <2>2, <2>3, Zenon
<1> DEFINE F == CHOOSE f : Is(f)
<1>8. Town!MovedUp(l, ps) = F[Len(ps)]
  BY Zenon DEF Town!MovedUp
<1>9. Is(F)
  <2>. HIDE DEF Is
  <2>. QED
    BY <1>7, Zenon
<1>. HIDE DEF F, step
<1>10. F[0] = l /\ \A k \in 1..Len(ps) : F[k] = Town!Swap(F[k - 1], ps[k] - 1, ps[k])
  <2>1. \A k \in 0..Len(ps) : F[k] = IF k = 0 THEN l ELSE Town!Swap(F[k - 1], ps[k] - 1, ps[k])
    BY <1>9, Zenon
  <2>2. 0 \in 0..Len(ps)
    BY <1>1
  <2>. QED
    BY <1>5, <2>1, <2>2, Zenon
<1>. HIDE DEF Is
<1>11. F[Len(ps)] = g[Len(ps)]
  <2>1. \A k \in 1..Len(ps) : F[k - 1] = g[k - 1] => F[k] = g[k]
    BY <1>6, <1>10, Zenon
  <2>. QED
    BY <1>1, <1>a, <1>10, <2>1, SameLoop
<1>12. Rises(l, ps, g)
  BY <1>a, <1>6 DEF Rises
<1>. QED
  BY <1>1, <1>a, <1>8, <1>11, <1>12

\* So are tasks that were moved down.
Sinks(l, ps, g) ==
  g[0] = l /\ \A k \in 1..Len(ps) : g[k] = Town!Swap(g[k - 1], ps[Len(ps) - k + 1], ps[Len(ps) - k + 1] + 1)

LEMMA MovedDownIs ==
  ASSUME NEW l \in Seq(Tasks), NEW ps \in Seq(Nat)
  PROVE  Town!MovedDown(l, ps) \in Seq(Tasks) /\ \E g : Sinks(l, ps, g) /\ Town!MovedDown(l, ps) = g[Len(ps)]
<1> DEFINE Is(f) == f = [k \in 0..Len(ps) |-> IF k = 0 THEN l ELSE Town!Swap(f[k - 1], ps[Len(ps) - k + 1], ps[Len(ps) - k + 1] + 1)]
           step == [x \in Seq(Tasks) \X (1..Len(ps)) |-> LET k == x[2] IN Town!Swap(x[1], ps[Len(ps) - k + 1], ps[Len(ps) - k + 1] + 1)]
<1>1. Len(ps) \in Nat
  BY LenProperties
<1>2. \A k \in 1..Len(ps) : ps[Len(ps) - k + 1] \in Nat /\ ps[Len(ps) - k + 1] + 1 \in Nat
  <2>1. \A k \in 1..Len(ps) : Len(ps) - k + 1 \in 1..Len(ps)
    BY <1>1
  <2>. QED
    BY <2>1, ElementOfSeq
<1>3. step \in [Seq(Tasks) \X (1..Len(ps)) -> Seq(Tasks)]
  <2>1. ASSUME NEW a \in Seq(Tasks), NEW k \in 1..Len(ps) PROVE Town!Swap(a, ps[Len(ps) - k + 1], ps[Len(ps) - k + 1] + 1) \in Seq(Tasks)
    BY <1>1, <1>2, SwapIs
  <2>. QED
    BY <2>1
<1>4. PICK g : Loop(Len(ps), Seq(Tasks), l, step, g)
  <2>. HIDE DEF step
  <2>. QED
    BY <1>1, <1>3, Recursion
<1>a. g \in [0..Len(ps) -> Seq(Tasks)] /\ g[0] = l /\ \A k \in 1..Len(ps) : g[k] = step[<<g[k - 1], k>>]
  <2>. HIDE DEF step
  <2>. QED
    BY <1>4, Zenon DEF Loop
<1>5. \A k \in 1..Len(ps) : k \in 0..Len(ps) /\ k # 0 /\ k - 1 \in 0..Len(ps) /\ g[k - 1] \in Seq(Tasks)
  <2>1. \A k \in 1..Len(ps) : k \in 0..Len(ps) /\ k # 0 /\ k - 1 \in 0..Len(ps)
    BY <1>1
  <2>. QED
    BY <1>a, <2>1, Zenon
<1>6. \A k \in 1..Len(ps) : g[k] = Town!Swap(g[k - 1], ps[Len(ps) - k + 1], ps[Len(ps) - k + 1] + 1)
  BY <1>a, <1>5
<1>7. Is(g)
  <2>1. \A k \in 0..Len(ps) : k = 0 \/ k \in 1..Len(ps)
    BY <1>1
  <2>. HIDE DEF step
  <2>2. \A k \in 0..Len(ps) : g[k] = IF k = 0 THEN l ELSE Town!Swap(g[k - 1], ps[Len(ps) - k + 1], ps[Len(ps) - k + 1] + 1)
    BY <1>a, <1>6, <2>1, Zenon
  <2>3. g = [k \in 0..Len(ps) |-> g[k]]
    BY <1>a
  <2>. QED
    BY <2>2, <2>3, Zenon
<1> DEFINE F == CHOOSE f : Is(f)
<1>8. Town!MovedDown(l, ps) = F[Len(ps)]
  BY Zenon DEF Town!MovedDown
<1>9. Is(F)
  <2>. HIDE DEF Is
  <2>. QED
    BY <1>7, Zenon
<1>. HIDE DEF F, step
<1>10. F[0] = l /\ \A k \in 1..Len(ps) : F[k] = Town!Swap(F[k - 1], ps[Len(ps) - k + 1], ps[Len(ps) - k + 1] + 1)
  <2>1. \A k \in 0..Len(ps) : F[k] = IF k = 0 THEN l ELSE Town!Swap(F[k - 1], ps[Len(ps) - k + 1], ps[Len(ps) - k + 1] + 1)
    BY <1>9, Zenon
  <2>2. 0 \in 0..Len(ps)
    BY <1>1
  <2>. QED
    BY <1>5, <2>1, <2>2, Zenon
<1>. HIDE DEF Is
<1>11. F[Len(ps)] = g[Len(ps)]
  <2>1. \A k \in 1..Len(ps) : F[k - 1] = g[k - 1] => F[k] = g[k]
    BY <1>6, <1>10, Zenon
  <2>. QED
    BY <1>1, <1>a, <1>10, <2>1, SameLoop
<1>12. Sinks(l, ps, g)
  BY <1>a, <1>6 DEF Sinks
<1>. QED
  BY <1>1, <1>a, <1>8, <1>11, <1>12

\* So are tasks that were exchanged.
LEMMA ExchangedIs ==
  ASSUME NEW l \in Seq(Tasks), NEW ps \in Seq(Nat), NEW xs \in Seq(Tasks), Len(xs) = Len(ps)
  PROVE  Town!Exchanged(l, ps, xs) \in Seq(Tasks)
<1> DEFINE Is(f) == f = [k \in 0..Len(ps) |-> IF k = 0 THEN l ELSE Town!Put(f[k - 1], ps[k], xs[k])]
           step == [x \in Seq(Tasks) \X (1..Len(ps)) |-> LET k == x[2] IN Town!Put(x[1], ps[k], xs[k])]
<1>1. Len(ps) \in Nat
  BY LenProperties
<1>2. \A k \in 1..Len(ps) : ps[k] \in Nat /\ xs[k] \in Tasks
  BY ElementOfSeq
<1>3. step \in [Seq(Tasks) \X (1..Len(ps)) -> Seq(Tasks)]
  <2>1. ASSUME NEW a \in Seq(Tasks), NEW k \in 1..Len(ps) PROVE Town!Put(a, ps[k], xs[k]) \in Seq(Tasks)
    BY <1>1, <1>2, PutIs
  <2>. QED
    BY <2>1
<1>4. PICK g : Loop(Len(ps), Seq(Tasks), l, step, g)
  <2>. HIDE DEF step
  <2>. QED
    BY <1>1, <1>3, Recursion
<1>a. g \in [0..Len(ps) -> Seq(Tasks)] /\ g[0] = l /\ \A k \in 1..Len(ps) : g[k] = step[<<g[k - 1], k>>]
  <2>. HIDE DEF step
  <2>. QED
    BY <1>4, Zenon DEF Loop
<1>5. \A k \in 1..Len(ps) : k \in 0..Len(ps) /\ k # 0 /\ k - 1 \in 0..Len(ps) /\ g[k - 1] \in Seq(Tasks)
  <2>1. \A k \in 1..Len(ps) : k \in 0..Len(ps) /\ k # 0 /\ k - 1 \in 0..Len(ps)
    BY <1>1
  <2>. QED
    BY <1>a, <2>1, Zenon
<1>6. \A k \in 1..Len(ps) : g[k] = Town!Put(g[k - 1], ps[k], xs[k])
  BY <1>a, <1>5
<1>7. Is(g)
  <2>1. \A k \in 0..Len(ps) : k = 0 \/ k \in 1..Len(ps)
    BY <1>1
  <2>. HIDE DEF step
  <2>2. \A k \in 0..Len(ps) : g[k] = IF k = 0 THEN l ELSE Town!Put(g[k - 1], ps[k], xs[k])
    BY <1>a, <1>6, <2>1, Zenon
  <2>3. g = [k \in 0..Len(ps) |-> g[k]]
    BY <1>a
  <2>. QED
    BY <2>2, <2>3, Zenon
<1> DEFINE F == CHOOSE f : Is(f)
<1>8. Town!Exchanged(l, ps, xs) = F[Len(ps)]
  BY Zenon DEF Town!Exchanged
<1>9. Is(F)
  <2>. HIDE DEF Is
  <2>. QED
    BY <1>7, Zenon
<1>. HIDE DEF F, step
<1>10. F[0] = l /\ \A k \in 1..Len(ps) : F[k] = Town!Put(F[k - 1], ps[k], xs[k])
  <2>1. \A k \in 0..Len(ps) : F[k] = IF k = 0 THEN l ELSE Town!Put(F[k - 1], ps[k], xs[k])
    BY <1>9, Zenon
  <2>2. 0 \in 0..Len(ps)
    BY <1>1
  <2>. QED
    BY <1>5, <2>1, <2>2, Zenon
<1>. HIDE DEF Is
<1>11. F[Len(ps)] = g[Len(ps)]
  <2>1. \A k \in 1..Len(ps) : F[k - 1] = g[k - 1] => F[k] = g[k]
    BY <1>6, <1>10, Zenon
  <2>. QED
    BY <1>1, <1>a, <1>10, <2>1, SameLoop
<1>. QED
  BY <1>1, <1>a, <1>8, <1>11

\* So is what is left when tasks are taken out.
LEMMA WithoutIs ==
  ASSUME NEW l \in Seq(Tasks), NEW ps \in Seq(Nat \ {0})
  PROVE  Town!Without(l, ps) \in Seq(Tasks)
<1> DEFINE Is(f) == f = [k \in 0..Len(ps) |-> IF k = 0 THEN l ELSE Town!Splice(f[k - 1], ps[Len(ps) - k + 1], 1, <<>>)]
           step == [x \in Seq(Tasks) \X (1..Len(ps)) |-> LET k == x[2] IN Town!Splice(x[1], ps[Len(ps) - k + 1], 1, <<>>)]
<1>1. Len(ps) \in Nat
  BY LenProperties
<1>2. \A k \in 1..Len(ps) : ps[Len(ps) - k + 1] \in Nat \ {0}
  <2>1. \A k \in 1..Len(ps) : Len(ps) - k + 1 \in 1..Len(ps)
    BY <1>1
  <2>. QED
    BY <2>1, ElementOfSeq
<1>3. step \in [Seq(Tasks) \X (1..Len(ps)) -> Seq(Tasks)]
  <2>1. ASSUME NEW a \in Seq(Tasks), NEW k \in 1..Len(ps) PROVE Town!Splice(a, ps[Len(ps) - k + 1], 1, <<>>) \in Seq(Tasks)
    BY <1>1, <1>2, SpliceIs, EmptySeq
  <2>. QED
    BY <2>1
<1>4. PICK g : Loop(Len(ps), Seq(Tasks), l, step, g)
  <2>. HIDE DEF step
  <2>. QED
    BY <1>1, <1>3, Recursion
<1>a. g \in [0..Len(ps) -> Seq(Tasks)] /\ g[0] = l /\ \A k \in 1..Len(ps) : g[k] = step[<<g[k - 1], k>>]
  <2>. HIDE DEF step
  <2>. QED
    BY <1>4, Zenon DEF Loop
<1>5. \A k \in 1..Len(ps) : k \in 0..Len(ps) /\ k # 0 /\ k - 1 \in 0..Len(ps) /\ g[k - 1] \in Seq(Tasks)
  <2>1. \A k \in 1..Len(ps) : k \in 0..Len(ps) /\ k # 0 /\ k - 1 \in 0..Len(ps)
    BY <1>1
  <2>. QED
    BY <1>a, <2>1, Zenon
<1>6. \A k \in 1..Len(ps) : g[k] = Town!Splice(g[k - 1], ps[Len(ps) - k + 1], 1, <<>>)
  BY <1>a, <1>5
<1>7. Is(g)
  <2>1. \A k \in 0..Len(ps) : k = 0 \/ k \in 1..Len(ps)
    BY <1>1
  <2>. HIDE DEF step
  <2>2. \A k \in 0..Len(ps) : g[k] = IF k = 0 THEN l ELSE Town!Splice(g[k - 1], ps[Len(ps) - k + 1], 1, <<>>)
    BY <1>a, <1>6, <2>1, Zenon
  <2>3. g = [k \in 0..Len(ps) |-> g[k]]
    BY <1>a
  <2>. QED
    BY <2>2, <2>3, Zenon
<1> DEFINE F == CHOOSE f : Is(f)
<1>8. Town!Without(l, ps) = F[Len(ps)]
  BY Zenon DEF Town!Without
<1>9. Is(F)
  <2>. HIDE DEF Is
  <2>. QED
    BY <1>7, Zenon
<1>. HIDE DEF F, step
<1>10. F[0] = l /\ \A k \in 1..Len(ps) : F[k] = Town!Splice(F[k - 1], ps[Len(ps) - k + 1], 1, <<>>)
  <2>1. \A k \in 0..Len(ps) : F[k] = IF k = 0 THEN l ELSE Town!Splice(F[k - 1], ps[Len(ps) - k + 1], 1, <<>>)
    BY <1>9, Zenon
  <2>2. 0 \in 0..Len(ps)
    BY <1>1
  <2>. QED
    BY <1>5, <2>1, <2>2, Zenon
<1>. HIDE DEF Is
<1>11. F[Len(ps)] = g[Len(ps)]
  <2>1. \A k \in 1..Len(ps) : F[k - 1] = g[k - 1] => F[k] = g[k]
    BY <1>6, <1>10, Zenon
  <2>. QED
    BY <1>1, <1>a, <1>10, <2>1, SameLoop
<1>. QED
  BY <1>1, <1>a, <1>8, <1>11


-----------------------------------------------------------------------------
(* Order.                                                                   *)

\* A set of numbers has a least one; a finite one has a greatest.
LEMMA Least == ASSUME NEW T \in SUBSET Nat, T # {} PROVE \E m \in T : \A e \in T : m <= e
<1>1. PICK m \in T : \A y \in T : <<y, m>> \notin OpToRel(<, Nat)
  BY WFMin, NatLessThanWellFounded, Zenon
<1>2. ASSUME NEW e \in T PROVE m <= e
  <2>1. e \in Nat /\ m \in Nat /\ <<e, m>> \notin OpToRel(<, Nat)
    BY <1>1
  <2>2. e < m => <<e, m>> \in OpToRel(<, Nat)
    BY <2>1 DEF OpToRel
  <2>3. ~(e < m)
    BY <2>1, <2>2, Zenon
  <2>4. e \in Nat /\ m \in Nat
    OBVIOUS
  <2>. QED
    BY <2>3, <2>4
<1>. QED
  BY <1>2

LEMMA Greatest == ASSUME NEW T \in SUBSET Nat, T # {}, IsFiniteSet(T) PROVE \E m \in T : \A e \in T : m >= e
<1> DEFINE More(x) == {y \in T : y > x}
           N == {Town!Cardinality(More(x)) : x \in T}
<1>1. \A x \in T : IsFiniteSet(More(x)) /\ Town!Cardinality(More(x)) \in Nat
  BY TownLists, FS_Subset, FS_CardinalityType
<1>2. N \in SUBSET Nat /\ N # {}
  <2>. HIDE DEF More
  <2>. QED
    BY <1>1
<1>3. PICK k \in N : \A e \in N : k <= e
  <2>. HIDE DEF N
  <2>. QED
    BY <1>2, Least
<1>4. PICK m \in T : k = Town!Cardinality(More(m))
  BY <1>3
<1>5. ASSUME NEW e \in T, e > m PROVE FALSE
  <2>1. More(e) \in SUBSET More(m) /\ e \in More(m) /\ e \notin More(e)
    <3>1. e \in Nat /\ m \in Nat /\ \A y \in T : y \in Nat
      OBVIOUS
    <3>2. \A y \in T : y > e => y > m
      BY <1>5, <3>1
    <3>3. ~(e > e)
      BY <3>1
    <3>. QED
      BY <1>5, <3>2, <3>3, Zenon
  <2>. PICK A : A = More(e)
    OBVIOUS
  <2>. PICK B : B = More(m)
    OBVIOUS
  <2>2. IsFiniteSet(B) /\ A \in SUBSET B /\ A # B /\ Town!Cardinality(A) \in Nat /\ Town!Cardinality(B) \in Nat
    BY <1>1, <2>1
  <2>3. Town!Cardinality(A) <= Town!Cardinality(B) /\ Town!Cardinality(A) # Town!Cardinality(B)
    BY TownLists, <2>2, FS_Subset
  <2>4. Town!Cardinality(A) \in N /\ k = Town!Cardinality(B)
    BY <1>4
  <2>5. k <= Town!Cardinality(A)
    <3>. HIDE DEF N
    <3>. QED
      BY <1>3, <2>4
  <2>. QED
    BY <2>2, <2>3, <2>4, <2>5
<1>6. \A e \in T : e \in Nat /\ m \in Nat
  OBVIOUS
<1>. QED
  BY <1>5, <1>6

\* The city after one and the city before it are of the table.
LEMMA NextIs ==
  ASSUME NEW s \in SUBSET Nat, s # {}, IsFiniteSet(s), NEW c
  PROVE  Town!NextOf(c, s) \in s /\ Town!PreviousOf(c, s) \in s
<1>1. Town!NextOf(c, s) \in s
  <2>. PICK T : T = IF {d \in s : d > c} = {} THEN s ELSE {d \in s : d > c}
    OBVIOUS
  <2>1. T \in SUBSET Nat /\ T # {} /\ T \subseteq s
    OBVIOUS
  <2>2. \E m \in T : \A e \in T : m <= e
    BY <2>1, Least
  <2>3. Town!NextOf(c, s) = CHOOSE m \in T : \A e \in T : m <= e
    BY DEF Town!NextOf
  <2>. QED
    BY <2>1, <2>2, <2>3
<1>2. Town!PreviousOf(c, s) \in s
  <2>. PICK T : T = IF {d \in s : d < c} = {} THEN s ELSE {d \in s : d < c}
    OBVIOUS
  <2>1. T \in SUBSET Nat /\ T # {} /\ T \in SUBSET s
    OBVIOUS
  <2>2. IsFiniteSet(T)
    BY <2>1, FS_Subset
  <2>3. \E m \in T : \A e \in T : m >= e
    BY <2>1, <2>2, Greatest
  <2>4. Town!PreviousOf(c, s) = CHOOSE m \in T : \A e \in T : m >= e
    BY DEF Town!PreviousOf
  <2>. QED
    BY <2>1, <2>3, <2>4
<1>. QED
  BY <1>1, <1>2

\* The positions of a worklist.
Positions == Nat \ {0}

\* What is left of positions that ascend ascends.
LEMMA KeepAscends ==
  ASSUME NEW s \in Seq(Positions), Town!Ascending(s), NEW P
  PROVE  /\ Town!Keep(s, P) \in Seq(Positions) /\ Town!Ascending(Town!Keep(s, P))
         /\ \A i \in DOMAIN Town!Keep(s, P) : \E k \in DOMAIN s \cap P : Town!Keep(s, P)[i] = s[k]
<1>1. IsSeq(s)
  BY SequenceIs
<1>. PICK t : t = Town!Keep(s, P)
  OBVIOUS
<1>2. IsSeq(t) /\ \E g : Selects(s, P, t, g)
  BY TownLists, <1>1, KeepSelects
<1>3. PICK g : Selects(s, P, t, g)
  BY <1>2
<1>4. DOMAIN s \subseteq Nat /\ \A k \in DOMAIN s : s[k] \in Positions
  BY LenProperties, ElementOfSeq
<1>5. /\ \A i \in DOMAIN t : g[i] \in DOMAIN s /\ g[i] \in P /\ t[i] = s[g[i]]
      /\ \A i, j \in DOMAIN t : i < j => g[i] < g[j]
  BY <1>3 DEF Selects
<1>6. Town!Ascending(t)
  BY <1>5 DEF Town!Ascending
<1>7. t \in Seq(Positions)
  <2>1. Len(t) \in Nat /\ DOMAIN t = 1..Len(t) /\ t = [i \in 1..Len(t) |-> t[i]]
    BY <1>2, SequenceHas
  <2>2. \A i \in 1..Len(t) : t[i] \in Positions
    BY <1>4, <1>5, <2>1
  <2>3. t \in [1..Len(t) -> Positions]
    BY <2>1, <2>2
  <2>. QED
    BY <2>1, <2>3, SeqDef
<1>8. \A i \in DOMAIN t : \E k \in DOMAIN s \cap P : t[i] = s[k]
  BY <1>5
<1>. QED
  BY <1>6, <1>7, <1>8

\* Positions that are lower than others, and positions that are from either.
Before(s, t) == \A i \in DOMAIN s, j \in DOMAIN t : s[i] < t[j]
Either(u, s, t) == \A k \in DOMAIN u : (\E i \in DOMAIN s : u[k] = s[i]) \/ \E j \in DOMAIN t : u[k] = t[j]

\* So do positions followed by higher ones.
LEMMA JoinedAscends ==
  ASSUME NEW s \in Seq(Positions), NEW t \in Seq(Positions), Town!Ascending(s), Town!Ascending(t),
         Before(s, t), NEW u, u = s \o t
  PROVE  u \in Seq(Positions) /\ Town!Ascending(u) /\ Either(u, s, t)
<1>1. /\ u \in Seq(Positions) /\ Len(u) = Len(s) + Len(t)
      /\ \A k \in 1..Len(s) + Len(t) : u[k] = IF k <= Len(s) THEN s[k] ELSE t[k - Len(s)]
  BY ConcatProperties
<1>2. /\ Len(s) \in Nat /\ Len(t) \in Nat /\ DOMAIN s = 1..Len(s) /\ DOMAIN t = 1..Len(t)
      /\ DOMAIN u = 1..Len(s) + Len(t)
  BY <1>1, LenProperties
<1>3. \A k \in DOMAIN u : IF k <= Len(s) THEN k \in DOMAIN s /\ u[k] = s[k]
                                         ELSE k - Len(s) \in DOMAIN t /\ u[k] = t[k - Len(s)]
  BY <1>1, <1>2
<1>4. \A i, j \in DOMAIN s : i < j => s[i] < s[j]
  BY DEF Town!Ascending
<1>5. \A i, j \in DOMAIN t : i < j => t[i] < t[j]
  BY DEF Town!Ascending
<1>6. ASSUME NEW i \in DOMAIN u, NEW j \in DOMAIN u, i < j PROVE u[i] < u[j]
  <2>1. i \in Nat /\ j \in Nat
    BY <1>2
  <2>2. CASE j <= Len(s)
    BY <1>2, <1>3, <1>4, <1>6, <2>1, <2>2
  <2>3. CASE ~(j <= Len(s)) /\ i <= Len(s)
    BY <1>2, <1>3, <1>6, <2>1, <2>3 DEF Before
  <2>4. CASE ~(i <= Len(s))
    <3>1. ~(j <= Len(s)) /\ i - Len(s) < j - Len(s)
      BY <1>2, <1>6, <2>1, <2>4
    <3>. QED
      BY <1>2, <1>3, <1>5, <2>1, <2>4, <3>1
  <2>. QED
    BY <1>2, <2>1, <2>2, <2>3, <2>4
<1>7. Town!Ascending(u)
  BY <1>6 DEF Town!Ascending
<1>8. Either(u, s, t)
  BY <1>3 DEF Either
<1>. QED
  BY <1>1, <1>7, <1>8


-----------------------------------------------------------------------------
(* The invariant.                                                           *)

\* The mirror, the page, the dialog, what is selected, and a dialog that shows
\* the worklist as it is: its rows and what is chosen stand for tasks.
Towns == city \in [Cities -> Town!CityRec] /\ Town!NeverTooLong
Page == touch \in BOOLEAN /\ all \in BOOLEAN /\ question \in {"none", "buy", "rename"}
Dialog == shown \in Cities \cup {Town!NoCity} /\ rows \subseteq Positions /\ enabled \subseteq Town!Buttons /\ fresh \in BOOLEAN
Chosen == chosen \in Seq(Positions) /\ Town!Ascending(chosen)
Picked == picked \in Seq(Town!Items) /\ clicks \in BOOLEAN
Drawn == fresh => /\ shown \in Cities /\ rows \subseteq DOMAIN Town!List
                  /\ \A i \in DOMAIN chosen : chosen[i] \in DOMAIN Town!List
CityInv == Towns /\ Page /\ Dialog /\ Chosen /\ Picked /\ Drawn /\ edits \in 0..MaxEdits

\* The invariant says what the dialog promises.
LEMMA CityInvSound == CityInv => Town!CitySound
<1> SUFFICES ASSUME CityInv PROVE Town!CitySound
  OBVIOUS
<1>1. /\ city \in [Cities -> Town!CityRec] /\ shown \in Cities \cup {Town!NoCity} /\ rows \subseteq Nat
      /\ enabled \subseteq Town!Buttons /\ picked \in Seq(Town!Items) /\ edits \in 0..MaxEdits
      /\ question \in {"none", "buy", "rename"} /\ Town!NeverTooLong /\ Town!Ascending(chosen)
  BY DEF CityInv, Towns, Page, Dialog, Chosen, Picked, Positions
<1>2. chosen \in Seq(Nat)
  BY SeqDef DEF CityInv, Chosen, Positions
<1>3. {touch, fresh, all, clicks} \subseteq BOOLEAN
  BY Zenon DEF CityInv, Page, Dialog, Picked
<1>4. fresh => Town!Range(chosen) \subseteq DOMAIN Town!List
  BY DEF CityInv, Drawn, Town!Range
<1>5. Town!TypeOK
  BY <1>1, <1>2, <1>3, Zenon DEF Town!TypeOK
<1>. QED
  BY <1>1, <1>4, <1>5, Zenon DEF Town!CitySound, Town!ChosenAscends, Town!ChosenExists

\* The worklist of a city.
LEMMA ListIs ==
  ASSUME Towns, NEW c \in Cities
  PROVE  /\ city[c] \in Town!CityRec /\ city[c].list \in Seq(Tasks) /\ city[c].making \in Tasks
         /\ city[c].mine \in BOOLEAN /\ city[c].here \in BOOLEAN
<1>1. city[c] \in Town!CityRec
  BY DEF Towns
<1>. QED
  BY <1>1 DEF Town!CityRec, Tasks

\* The buttons that are enabled are buttons of the dialog.
LEMMA EnabledIs == ASSUME NEW wl, NEW ch, NEW pk PROVE Town!Enabled(wl, ch, pk) \subseteq Town!Buttons
BY DEF Town!Enabled, Town!Buttons

\* No more rows than tasks.
LEMMA RowsAre ==
  ASSUME NEW l \in Seq(Tasks)
  PROVE  /\ Town!RowsOf(l) \subseteq DOMAIN l /\ Town!RowsOf(l) \subseteq Positions /\ DOMAIN l = 1..Len(l) /\ Len(l) \in Nat
         /\ Town!Cardinality(Town!RowsOf(l)) \in Nat /\ Town!Cardinality(Town!RowsOf(l)) <= Len(l)
<1>1. DOMAIN l = 1..Len(l) /\ Len(l) \in Nat
  BY LenProperties
<1>2. Town!RowsOf(l) \in SUBSET (1..Len(l))
  BY <1>1 DEF Town!RowsOf
<1>3. IsFiniteSet(1..Len(l)) /\ Town!Cardinality(1..Len(l)) = Len(l)
  <2>1. 1 \in Int /\ Len(l) \in Int
    BY <1>1
  <2>2. IsFiniteSet(1..Len(l)) /\ Town!Cardinality(1..Len(l)) = IF 1 > Len(l) THEN 0 ELSE Len(l) - 1 + 1
    BY TownLists, <2>1, FS_Interval
  <2>. QED
    BY <1>1, <2>2
<1>. PICK R : R = Town!RowsOf(l)
  OBVIOUS
<1>. PICK D : D = 1..Len(l)
  OBVIOUS
<1>4. IsFiniteSet(R) /\ Town!Cardinality(R) <= Town!Cardinality(D)
  BY TownLists, <1>2, <1>3, FS_Subset
<1>5. Town!Cardinality(R) \in Nat
  BY TownLists, <1>4, FS_CardinalityType
<1>6. R \subseteq Positions
  BY <1>2 DEF Positions
<1>. QED
  BY <1>1, <1>2, <1>3, <1>4, <1>5, <1>6

\* What is drawn is there.
LEMMA WorklistDrawn ==
  ASSUME CityParams, city' \in [Cities -> Town!CityRec], NEW c \in Cities, NEW ch \in Seq(Positions), Town!Ascending(ch),
         shown' = c, Town!CityWorklistDialog(c, ch)
  PROVE  Dialog' /\ Chosen' /\ Drawn'
<1>. PICK l : l = city'[c].list
  OBVIOUS
<1>1. l \in Seq(Tasks)
  BY DEF Town!CityRec, Tasks
<1>2. CASE Town!Hole \in Town!Range(l)
  <2>1. rows' = {} /\ fresh' = FALSE /\ chosen' = ch /\ enabled' = Town!Buttons
    BY <1>2, Zenon DEF Town!CityWorklistDialog
  <2>2. Dialog' /\ Chosen'
    BY <2>1 DEF Dialog, Chosen
  <2>3. Drawn'
    BY <2>1, Zenon DEF Drawn
  <2>. QED
    BY <2>2, <2>3
<1>3. CASE Town!Hole \notin Town!Range(l)
  <2> DEFINE most == Town!Lowest(MaxLen, Town!Cardinality(Town!RowsOf(l)))
             P == {i \in DOMAIN ch : \A j \in 1..i : ch[j] <= most}
  <2>1. rows' = Town!RowsOf(l) /\ fresh' = TRUE /\ chosen' = Town!Keep(ch, P) /\ enabled' = Town!Enabled(l, Town!Keep(ch, P), picked')
    BY <1>3, Zenon DEF Town!CityWorklistDialog
  <2>2. most \in Nat /\ most <= Len(l)
    BY <1>1, RowsAre DEF Town!Lowest, CityParams
  <2>3. \A i \in DOMAIN ch \cap P : ch[i] \in 1..Len(l)
    <3>1. DOMAIN ch = 1..Len(ch) /\ Len(ch) \in Nat /\ \A i \in 1..Len(ch) : ch[i] \in Positions
      BY LenProperties, ElementOfSeq
    <3>. HIDE DEF most
    <3>. QED
      BY <1>1, <2>2, <3>1, RowsAre DEF Positions
  <2>. HIDE DEF P, most
  <2>4. /\ Town!Keep(ch, P) \in Seq(Positions) /\ Town!Ascending(Town!Keep(ch, P))
        /\ \A i \in DOMAIN Town!Keep(ch, P) : \E k \in DOMAIN ch \cap P : Town!Keep(ch, P)[i] = ch[k]
    BY KeepAscends
  <2>5. Chosen'
    BY <2>1, <2>4 DEF Chosen
  <2>6. rows' \subseteq Positions /\ enabled' \subseteq Town!Buttons /\ rows' \subseteq DOMAIN l /\ DOMAIN l = 1..Len(l)
    BY <1>1, <2>1, RowsAre, EnabledIs
  <2>7. fresh' \in BOOLEAN
    BY <2>1, Zenon
  <2>8. Dialog'
    BY <2>6, <2>7 DEF Dialog
  <2>9. \A i \in DOMAIN chosen' : chosen'[i] \in DOMAIN l
    BY <2>1, <2>3, <2>4, <2>6
  <2>10. Drawn'
    BY <2>6, <2>9 DEF Drawn, Town!List
  <2>. QED
    BY <2>5, <2>8, <2>10
<1>. QED
  BY <1>2, <1>3

LEMMA CityShown ==
  ASSUME CityParams, CityInv, city' \in [Cities -> Town!CityRec], NEW c \in Cities, Town!ShowCityDialog(c)
  PROVE  Dialog' /\ Chosen' /\ Picked' /\ Drawn'
<1>1. shown' = c /\ Town!CityWorklistDialog(c, IF shown = c THEN chosen ELSE <<>>)
  BY DEF Town!ShowCityDialog
<1>2. Picked'
  <2>1. CASE shown = c
    BY <2>1, Zenon DEF Town!ShowCityDialog, CityInv, Picked
  <2>2. CASE shown # c
    <3>1. picked' = <<>> /\ clicks' = FALSE
      BY <2>2 DEF Town!ShowCityDialog
    <3>2. picked' \in Seq(Town!Items)
      BY <3>1, EmptySeq
    <3>. QED
      BY <3>1, <3>2, Zenon DEF Picked
  <2>. QED
    BY <2>1, <2>2
<1>. PICK ch : ch = IF shown = c THEN chosen ELSE <<>>
  OBVIOUS
<1>3. ch \in Seq(Positions) /\ Town!Ascending(ch)
  <2>1. <<>> \in Seq(Positions) /\ Town!Ascending(<<>>)
    BY EmptySeq, EmptyIs DEF Town!Ascending
  <2>. QED
    BY <2>1 DEF CityInv, Chosen
<1>4. Town!CityWorklistDialog(c, ch)
  BY <1>1
<1>. QED
  BY <1>1, <1>2, <1>3, <1>4, WorklistDrawn


-----------------------------------------------------------------------------
(* Actions that leave the worklists alone.                                  *)

\* A question asked or answered, and a request that changes nothing here.
LEMMA NothingDrawn ==
  ASSUME CityInv, question' \in {"none", "buy", "rename"},
         UNCHANGED <<touch, city, shown, rows, fresh, Town!selection, all, clicks, enabled, edits>>
  PROVE  CityInv'
<1>1. /\ touch' = touch /\ city' = city /\ shown' = shown /\ rows' = rows /\ fresh' = fresh /\ chosen' = chosen
      /\ picked' = picked /\ all' = all /\ clicks' = clicks /\ enabled' = enabled /\ edits' = edits
  BY DEF Town!selection
<1>2. Towns'
  BY <1>1, Zenon DEF CityInv, Towns, Town!NeverTooLong
<1>3. Page'
  BY <1>1, Zenon DEF CityInv, Page
<1>4. Dialog' /\ Chosen' /\ Picked'
  BY <1>1, Zenon DEF CityInv, Dialog, Chosen, Picked
<1>5. Drawn'
  BY <1>1 DEF CityInv, Drawn, Town!List
<1>. QED
  BY <1>1, <1>2, <1>3, <1>4, <1>5, Zenon DEF CityInv

\* The dialog of a city is opened.
LEMMA CityOpened ==
  ASSUME CityParams, CityInv, NEW c \in Cities, Town!ShowCityDialog(c), Towns', UNCHANGED <<touch, all, question>>,
         edits' \in 0..MaxEdits
  PROVE  CityInv'
<1>1. city' \in [Cities -> Town!CityRec]
  BY Zenon DEF Towns
<1>2. Dialog' /\ Chosen' /\ Picked' /\ Drawn'
  BY <1>1, CityShown
<1>3. Page'
  <2>1. touch' = touch /\ all' = all /\ question' = question
    OBVIOUS
  <2>. QED
    BY <2>1, Zenon DEF CityInv, Page
<1>. QED
  BY <1>2, <1>3, Zenon DEF CityInv

LEMMA ShowCityKeeps == ASSUME CityParams, CityInv, NEW c \in Cities, Town!ShowCity(c) PROVE CityInv'
<1>1. city' = city /\ Town!ShowCityDialog(c) /\ UNCHANGED <<touch, all, question>> /\ edits' = edits
  BY DEF Town!ShowCity
<1>2. Towns' /\ edits' \in 0..MaxEdits
  BY <1>1, Zenon DEF CityInv, Towns, Town!NeverTooLong
<1>. QED
  BY <1>1, <1>2, CityOpened

LEMMA NextCityKeeps == ASSUME CityParams, CityInv, Town!NextCity PROVE CityInv'
<1>1. city' = city /\ UNCHANGED <<touch, all, question>> /\ edits' = edits /\ Town!Own # {}
  BY DEF Town!NextCity
<1>2. Towns' /\ edits' \in 0..MaxEdits
  BY <1>1, Zenon DEF CityInv, Towns, Town!NeverTooLong
<1>3. Town!Own \in SUBSET Nat /\ Town!Own \in SUBSET Cities /\ IsFiniteSet(Town!Own)
  <2>1. Town!Own \in SUBSET Cities
    BY DEF Town!Own
  <2>2. IsFiniteSet(Cities) /\ Cities \subseteq Nat
    BY DEF CityParams
  <2>3. IsFiniteSet(Town!Own)
    BY <2>1, <2>2, FS_Subset
  <2>. QED
    BY <2>1, <2>2, <2>3
<1>4. \E c \in Town!Own : Town!ShowCityDialog(c)
  <2>1. Town!NextOf(shown, Town!Own) \in Town!Own /\ Town!PreviousOf(shown, Town!Own) \in Town!Own
    BY <1>1, <1>3, NextIs
  <2>2. (CHOOSE d \in Town!Own : \A e \in Town!Own : d <= e) \in Town!Own
    BY <1>1, <1>3, Least
  <2>3. (CHOOSE d \in Town!Own : \A e \in Town!Own : d >= e) \in Town!Own
    BY <1>1, <1>3, Greatest
  <2>. QED
    BY <2>1, <2>2, <2>3, Zenon DEF Town!NextCity
<1>. QED
  BY <1>1, <1>2, <1>3, <1>4, CityOpened

LEMMA TownCloseKeeps == ASSUME CityInv, Town!CloseCityDialog PROVE CityInv'
<1>1. /\ shown' = Town!NoCity /\ fresh' = FALSE /\ rows' = {} /\ city' = city /\ chosen' = chosen /\ picked' = picked
      /\ touch' = touch /\ all' = all /\ clicks' = clicks /\ question' = question /\ enabled' = enabled
      /\ edits' = edits
  BY Zenon DEF Town!CloseCityDialog, Town!selection, Town!page
<1>2. Towns' /\ edits' \in 0..MaxEdits
  BY <1>1, Zenon DEF CityInv, Towns, Town!NeverTooLong
<1>3. Page' /\ Chosen' /\ Picked'
  BY <1>1, Zenon DEF CityInv, Page, Chosen, Picked
<1>4. Dialog'
  <2>1. fresh' \in BOOLEAN /\ enabled' \subseteq Town!Buttons
    BY <1>1, Zenon DEF CityInv, Dialog
  <2>2. rows' \subseteq Positions /\ shown' \in Cities \cup {Town!NoCity}
    BY <1>1
  <2>. QED
    BY <2>1, <2>2, Zenon DEF Dialog
<1>5. Drawn'
  BY <1>1, Zenon DEF Drawn
<1>. QED
  BY <1>2, <1>3, <1>4, <1>5, Zenon DEF CityInv

\* Something is selected.
LEMMA SelectKeeps ==
  ASSUME CityInv, NEW ch \in Seq(Positions), Town!Ascending(ch), NEW pk \in Seq(Town!Items), Town!Select(ch, pk), all' \in BOOLEAN,
         fresh => \A i \in DOMAIN ch : ch[i] \in DOMAIN Town!List
  PROVE  CityInv'
<1>1. /\ touch' = touch /\ city' = city /\ shown' = shown /\ rows' = rows /\ fresh' = fresh /\ chosen' = ch
      /\ picked' = pk /\ question' = question /\ clicks' = clicks /\ enabled' = Town!Enabled(Town!List, ch, pk)
      /\ edits' = edits
  BY Zenon DEF Town!Select
<1>2. Towns' /\ edits' \in 0..MaxEdits
  BY <1>1, Zenon DEF CityInv, Towns, Town!NeverTooLong
<1>3. Page' /\ Chosen' /\ Picked'
  BY <1>1, Zenon DEF CityInv, Page, Chosen, Picked
<1>4. enabled' \subseteq Town!Buttons
  BY <1>1, EnabledIs
<1>5. Dialog'
  BY <1>1, <1>4, Zenon DEF CityInv, Dialog
<1>6. Drawn'
  BY <1>1, Zenon DEF CityInv, Drawn, Town!List
<1>. QED
  BY <1>2, <1>3, <1>5, <1>6, Zenon DEF CityInv

\* What is left of a selection is one.
LEMMA KeepOf == ASSUME NEW S, NEW s \in Seq(S), NEW P PROVE Town!Keep(s, P) \in Seq(S)
<1>1. IsSeq(s)
  BY SequenceIs
<1>. PICK t : t = Town!Keep(s, P)
  OBVIOUS
<1>2. IsSeq(t) /\ \E g : Selects(s, P, t, g)
  BY TownLists, <1>1, KeepSelects
<1>3. \A i \in DOMAIN t : t[i] \in S
  <2>1. DOMAIN s = 1..Len(s)
    BY LenProperties
  <2>. QED
    BY <1>2, <2>1, ElementOfSeq DEF Selects
<1>4. Len(t) \in Nat /\ DOMAIN t = 1..Len(t) /\ t = [i \in 1..Len(t) |-> t[i]]
  BY <1>2, SequenceHas
<1>5. t \in [1..Len(t) -> S]
  BY <1>3, <1>4
<1>. QED
  BY <1>4, <1>5, SeqDef

\* All that is offered can be built.
LEMMA OfferedIs == ASSUME CityParams PROVE Town!Offered \subseteq Town!Items
BY DEF CityParams, Town!Offered

LEMMA PickKeeps == ASSUME CityParams, CityInv, NEW x \in Town!Offered, Town!Pick(x) PROVE CityInv'
<1>1. x \in Town!Items /\ picked \in Seq(Town!Items) /\ chosen \in Seq(Positions) /\ Town!Ascending(chosen)
  BY OfferedIs DEF CityInv, Picked, Chosen
<1>2. fresh => \A i \in DOMAIN chosen : chosen[i] \in DOMAIN Town!List
  BY DEF CityInv, Drawn
<1>3. all' \in BOOLEAN
  BY Zenon DEF Town!Pick, CityInv, Page
<1>4. PICK pk \in Seq(Town!Items) : Town!Select(chosen, pk)
  <2>1. Town!Keep(picked, {i \in DOMAIN picked : picked[i] # x}) \in Seq(Town!Items)
    BY <1>1, KeepOf
  <2>2. Append(picked, x) \in Seq(Town!Items)
    BY <1>1, AppendProperties
  <2>. QED
    BY <2>1, <2>2, Zenon DEF Town!Pick
<1>. QED
  BY <1>1, <1>2, <1>3, <1>4, SelectKeeps

\* The positions before and behind one.
LEMMA BesideIs ==
  ASSUME CityInv, NEW i
  PROVE  /\ Town!Below(i) \in Seq(Positions) /\ Town!Ascending(Town!Below(i)) /\ Town!Above(i) \in Seq(Positions) /\ Town!Ascending(Town!Above(i))
         /\ \A k \in DOMAIN Town!Below(i) : Town!Below(i)[k] < i /\ \E m \in DOMAIN chosen : Town!Below(i)[k] = chosen[m]
         /\ \A k \in DOMAIN Town!Above(i) : Town!Above(i)[k] > i /\ \E m \in DOMAIN chosen : Town!Above(i)[k] = chosen[m]
<1>1. chosen \in Seq(Positions) /\ Town!Ascending(chosen)
  BY DEF CityInv, Chosen
<1>2. /\ Town!Below(i) \in Seq(Positions) /\ Town!Ascending(Town!Below(i))
      /\ \A k \in DOMAIN Town!Below(i) : Town!Below(i)[k] < i /\ \E m \in DOMAIN chosen : Town!Below(i)[k] = chosen[m]
  <2> DEFINE P == {k \in DOMAIN chosen : chosen[k] < i}
  <2>1. Town!Below(i) = Town!Keep(chosen, P)
    BY DEF Town!Below
  <2>2. \A m \in DOMAIN chosen \cap P : m \in DOMAIN chosen /\ chosen[m] < i
    OBVIOUS
  <2>. HIDE DEF P
  <2>. QED
    BY <1>1, <2>1, <2>2, KeepAscends
<1>3. /\ Town!Above(i) \in Seq(Positions) /\ Town!Ascending(Town!Above(i))
      /\ \A k \in DOMAIN Town!Above(i) : Town!Above(i)[k] > i /\ \E m \in DOMAIN chosen : Town!Above(i)[k] = chosen[m]
  <2> DEFINE P == {k \in DOMAIN chosen : chosen[k] > i}
  <2>1. Town!Above(i) = Town!Keep(chosen, P)
    BY DEF Town!Above
  <2>2. \A m \in DOMAIN chosen \cap P : m \in DOMAIN chosen /\ chosen[m] > i
    OBVIOUS
  <2>. HIDE DEF P
  <2>. QED
    BY <1>1, <2>1, <2>2, KeepAscends
<1>. QED
  BY <1>2, <1>3

\* One position is none or one of a sequence that ascends.
LEMMA SingleIs ==
  ASSUME NEW i \in Positions
  PROVE  /\ <<>> \in Seq(Positions) /\ Town!Ascending(<<>>) /\ DOMAIN <<>> = {}
         /\ <<i>> \in Seq(Positions) /\ Town!Ascending(<<i>>) /\ DOMAIN <<i>> = {1} /\ <<i>>[1] = i
<1>1. <<>> \in Seq(Positions) /\ DOMAIN <<>> = {} /\ Town!Ascending(<<>>)
  BY EmptySeq, EmptyIs DEF Town!Ascending
<1>2. <<i>> \in Seq(Positions) /\ DOMAIN <<i>> = {1} /\ <<i>>[1] = i
  OBVIOUS
<1>3. Town!Ascending(<<i>>)
  BY <1>2 DEF Town!Ascending
<1>. QED
  BY <1>1, <1>2, <1>3

LEMMA ChooseKeeps == ASSUME CityParams, CityInv, NEW i \in rows, Town!Choose(i) PROVE CityInv'
<1>. PICK b : b = Town!Below(i)
  OBVIOUS
<1>. PICK a : a = Town!Above(i)
  OBVIOUS
<1>. PICK o : o = IF i \in Town!Range(chosen) THEN <<>> ELSE <<i>>
  OBVIOUS
<1>1. i \in Positions /\ picked \in Seq(Town!Items) /\ (fresh => i \in DOMAIN Town!List)
  BY DEF CityInv, Dialog, Picked, Drawn
<1>2. /\ b \in Seq(Positions) /\ Town!Ascending(b) /\ a \in Seq(Positions) /\ Town!Ascending(a)
      /\ \A k \in DOMAIN b : b[k] < i /\ \E m \in DOMAIN chosen : b[k] = chosen[m]
      /\ \A k \in DOMAIN a : a[k] > i /\ \E m \in DOMAIN chosen : a[k] = chosen[m]
  BY BesideIs
<1>3. o \in Seq(Positions) /\ Town!Ascending(o) /\ \A k \in DOMAIN o : o[k] = i
  BY <1>1, SingleIs
<1>4. (\A k \in DOMAIN b : b[k] \in Nat) /\ (\A k \in DOMAIN a : a[k] \in Nat) /\ i \in Nat
  BY <1>1, <1>2 DEF Positions
<1>. PICK c : c = b \o o
  OBVIOUS
<1>5. c \in Seq(Positions) /\ Town!Ascending(c) /\ Either(c, b, o)
  <2>1. Before(b, o)
    BY <1>2, <1>3 DEF Before
  <2>. QED
    BY <1>2, <1>3, <2>1, JoinedAscends
<1>. PICK d : d = c \o a
  OBVIOUS
<1>6. d \in Seq(Positions) /\ Town!Ascending(d) /\ Either(d, c, a)
  <2>1. \A k \in DOMAIN c : c[k] <= i /\ c[k] \in Nat
    BY <1>2, <1>3, <1>4, <1>5 DEF Either
  <2>2. Before(c, a)
    BY <1>2, <1>4, <2>1 DEF Before
  <2>. QED
    BY <1>2, <1>5, <2>2, JoinedAscends
<1>7. fresh => \A k \in DOMAIN d : d[k] \in DOMAIN Town!List
  <2>1. fresh => \A k \in DOMAIN chosen : chosen[k] \in DOMAIN Town!List
    BY DEF CityInv, Drawn
  <2>. QED
    BY <1>1, <1>2, <1>3, <1>5, <1>6, <2>1 DEF Either
<1>8. Town!Select(d, picked)
  BY Zenon DEF Town!Choose
<1>9. all' \in BOOLEAN
  BY Zenon DEF Town!Choose, CityInv, Page
<1>. QED
  BY <1>1, <1>6, <1>7, <1>8, <1>9, SelectKeeps

LEMMA ClickKeeps == ASSUME CityParams, CityInv, NEW i \in rows, Town!Click(i) PROVE CityInv'
<1>1. i \in Positions /\ picked \in Seq(Town!Items) /\ (fresh => i \in DOMAIN Town!List)
  BY DEF CityInv, Dialog, Picked, Drawn
<1>. PICK o : o = IF chosen = <<i>> THEN <<>> ELSE <<i>>
  OBVIOUS
<1>2. o \in Seq(Positions) /\ Town!Ascending(o) /\ \A k \in DOMAIN o : o[k] = i
  BY <1>1, SingleIs
<1>3. Town!Select(o, picked)
  BY Zenon DEF Town!Click
<1>4. all' \in BOOLEAN
  BY Zenon DEF Town!Click, CityInv, Page
<1>. QED
  BY <1>1, <1>2, <1>3, <1>4, SelectKeeps

LEMMA UnreachableKeeps == ASSUME CityInv, Town!ShowUnreachableItems PROVE CityInv'
<1>1. /\ touch' = touch /\ city' = city /\ shown' = shown /\ rows' = rows /\ fresh' = fresh /\ chosen' = chosen
      /\ picked' = <<>> /\ question' = question /\ clicks' = clicks /\ edits' = edits /\ all' \in BOOLEAN
  BY Zenon DEF Town!ShowUnreachableItems
<1>2. Towns' /\ edits' \in 0..MaxEdits
  BY <1>1, Zenon DEF CityInv, Towns, Town!NeverTooLong
<1>3. Page' /\ Chosen'
  BY <1>1, Zenon DEF CityInv, Page, Chosen
<1>4. Picked'
  <2>1. picked' \in Seq(Town!Items)
    BY <1>1, EmptySeq
  <2>. QED
    BY <1>1, <2>1, Zenon DEF CityInv, Picked
<1>5. enabled' \subseteq Town!Buttons
  <2>1. Town!Enabled(Town!List, chosen, <<>>) \subseteq Town!Buttons /\ enabled \subseteq Town!Buttons
    BY EnabledIs DEF CityInv, Dialog
  <2>. QED
    BY <2>1, Zenon DEF Town!ShowUnreachableItems
<1>6. Dialog'
  BY <1>1, <1>5, Zenon DEF CityInv, Dialog
<1>7. Drawn'
  BY <1>1, Zenon DEF CityInv, Drawn, Town!List
<1>. QED
  BY <1>2, <1>3, <1>4, <1>6, <1>7, Zenon DEF CityInv


-----------------------------------------------------------------------------
(* Commands on the worklist.                                                *)

\* What is sent is in the mirror, cut where it is too long.
LEMMA SendKeeps ==
  ASSUME CityParams, CityInv, shown \in Cities, NEW l \in Seq(Tasks), NEW before, Town!Send(l, before)
  PROVE  Towns'
<1>1. city' = [city EXCEPT ![shown].list = Town!Cut(l)] /\ Towns /\ MaxLen \in Nat
  BY DEF Town!Send, CityInv, CityParams
<1>2. /\ city[shown] \in Town!CityRec /\ city[shown].list \in Seq(Tasks) /\ city[shown].making \in Tasks
      /\ city[shown].mine \in BOOLEAN /\ city[shown].here \in BOOLEAN
  BY <1>1, ListIs
<1>3. Len(l) \in Nat /\ Town!Lowest(Len(l), MaxLen) \in Int /\ Town!Lowest(Len(l), MaxLen) <= Len(l)
      /\ Town!Lowest(Len(l), MaxLen) \in Nat /\ Town!Lowest(Len(l), MaxLen) <= MaxLen
  <2>1. Len(l) \in Nat
    BY LenProperties
  <2>. QED
    BY <1>1, <2>1 DEF Town!Lowest
<1>. PICK m : m = Town!Lowest(Len(l), MaxLen)
  OBVIOUS
<1>4. SubSeq(l, 1, m) \in Seq(Tasks) /\ Len(SubSeq(l, 1, m)) = IF 1 <= m THEN m - 1 + 1 ELSE 0
  <2>1. 1 \in Nat \ {0} /\ m \in Int /\ m <= Len(l)
    BY <1>3
  <2>. QED
    BY <2>1, SubIs
<1>. PICK k : k = Town!Cut(l)
  OBVIOUS
<1>5. k \in Seq(Tasks) /\ (city[shown].here => Len(k) <= MaxLen)
  BY <1>2, <1>3, <1>4 DEF Town!Cut
<1>6. city' = [city EXCEPT ![shown] = [city[shown] EXCEPT !.list = k]] /\ city \in [Cities -> Town!CityRec]
  BY <1>1 DEF Towns
<1>. PICK r : r = [city[shown] EXCEPT !.list = k]
  OBVIOUS
<1>7. r \in Town!CityRec /\ r.list = k /\ r.here = city[shown].here
  BY <1>2, <1>5 DEF Town!CityRec, Tasks
<1>8. city' \in [Cities -> Town!CityRec] /\ \A c \in Cities : city'[c] = IF c = shown THEN r ELSE city[c]
  BY <1>6, <1>7
<1>9. Town!NeverTooLong'
  <2>1. \A c \in Cities : city[c].here => Len(city[c].list) <= MaxLen
    BY <1>1 DEF Towns, Town!NeverTooLong
  <2>2. \A c \in Cities : city'[c].here => Len(city'[c].list) <= MaxLen
    BY <1>5, <1>7, <1>8, <2>1
  <2>. QED
    BY <2>2 DEF Town!NeverTooLong
<1>. QED
  BY <1>8, <1>9 DEF Towns

\* After a command the dialog does not show the worklist as it is.
LEMMA TownCommandKeeps ==
  ASSUME CityInv, Towns', Chosen', edits < MaxEdits, edits' = edits + 1, fresh' = FALSE, clicks' \in BOOLEAN,
         UNCHANGED <<touch, shown, rows, picked, all, question, enabled>>, MaxEdits \in Nat
  PROVE  CityInv'
<1>1. /\ touch' = touch /\ shown' = shown /\ rows' = rows /\ picked' = picked /\ all' = all /\ question' = question
      /\ enabled' = enabled
  OBVIOUS
<1>2. Page' /\ Picked'
  BY <1>1, Zenon DEF CityInv, Page, Picked
<1>3. Dialog'
  BY <1>1, Zenon DEF CityInv, Dialog
<1>4. Drawn'
  BY Zenon DEF Drawn
<1>5. edits' \in 0..MaxEdits
  <2>1. edits \in 0..MaxEdits
    BY DEF CityInv
  <2>. QED
    BY <2>1
<1>. QED
  BY <1>2, <1>3, <1>4, <1>5, Zenon DEF CityInv

\* What a command of the buttons needs and does.
LEMMA CommandIs ==
  ASSUME CityParams, CityInv, NEW b, Town!Command(b)
  PROVE  /\ shown \in Cities /\ edits < MaxEdits /\ edits' = edits + 1 /\ fresh' = FALSE /\ clicks' \in BOOLEAN
         /\ UNCHANGED <<touch, shown, rows, picked, all, question, enabled>>
         /\ Town!List \in Seq(Tasks) /\ picked \in Seq(Tasks) /\ chosen \in Seq(Positions) /\ Town!Ascending(chosen)
         /\ MaxEdits \in Nat
<1>1. /\ shown # Town!NoCity /\ edits < MaxEdits /\ edits' = edits + 1 /\ fresh' = FALSE /\ clicks' = clicks
      /\ UNCHANGED <<touch, shown, rows, picked, all, question, enabled>>
  BY Zenon DEF Town!Command
<1>2. shown \in Cities /\ Towns
  BY <1>1 DEF CityInv, Dialog
<1>3. Town!List \in Seq(Tasks)
  BY <1>2, ListIs DEF Town!List
<1>4. picked \in Seq(Tasks) /\ chosen \in Seq(Positions) /\ Town!Ascending(chosen)
  BY SeqDef DEF CityInv, Picked, Chosen, Tasks
<1>5. clicks' \in BOOLEAN
  BY <1>1, Zenon DEF CityInv, Picked
<1>. QED
  BY <1>1, <1>2, <1>3, <1>4, <1>5, Zenon DEF CityParams

LEMMA SameTowns == ASSUME CityInv, city' = city PROVE Towns'
BY Zenon DEF CityInv, Towns, Town!NeverTooLong

LEMMA SameChosen == ASSUME CityInv, chosen' = chosen PROVE Chosen'
BY Zenon DEF CityInv, Chosen

LEMMA ChangeKeeps == ASSUME CityParams, CityInv, Town!CityChangeProduction PROVE CityInv'
<1>1. Town!Command("change") /\ city' = city /\ chosen' = chosen
  BY DEF Town!CityChangeProduction
<1>. QED
  BY <1>1, CommandIs, SameTowns, SameChosen, TownCommandKeeps

LEMMA AddKeeps == ASSUME CityParams, CityInv, Town!CityAddToWorklist PROVE CityInv'
<1>1. Town!Command("add") /\ Town!Send(Town!List \o picked, <<>>) /\ chosen' = chosen
  BY DEF Town!CityAddToWorklist
<1>2. shown \in Cities /\ Town!List \in Seq(Tasks) /\ picked \in Seq(Tasks)
  BY <1>1, CommandIs
<1>3. Town!List \o picked \in Seq(Tasks)
  BY <1>2, ConcatProperties
<1>4. Towns'
  BY <1>1, <1>2, <1>3, SendKeeps
<1>. QED
  BY <1>1, <1>4, CommandIs, SameChosen, TownCommandKeeps

LEMMA WorklistAddKeeps == ASSUME CityParams, CityInv, NEW x \in Town!Offered, Town!CityWorklistAdd(x) PROVE CityInv'
<1>1. /\ shown # Town!NoCity /\ edits < MaxEdits /\ edits' = edits + 1 /\ fresh' = FALSE
      /\ clicks' = (IF touch THEN TRUE ELSE clicks)
      /\ UNCHANGED <<touch, shown, rows, Town!selection, all, question, enabled>>
  BY Zenon DEF Town!CityWorklistAdd
<1>2. shown \in Cities /\ Towns /\ x \in Tasks
  BY <1>1, OfferedIs DEF CityInv, Dialog, Tasks
<1>3. Town!List \in Seq(Tasks)
  BY <1>2, ListIs DEF Town!List
<1>4. Append(Town!List, x) \in Seq(Tasks)
  BY <1>2, <1>3, AppendProperties
<1>5. Towns'
  <2>1. city' = city \/ Town!Send(Append(Town!List, x), <<>>)
    BY Zenon DEF Town!CityWorklistAdd, Town!NothingSent
  <2>. QED
    BY <1>2, <1>4, <2>1, SendKeeps, SameTowns
<1>6. clicks' \in BOOLEAN
  BY <1>1, Zenon DEF CityInv, Picked
<1>7. chosen' = chosen /\ UNCHANGED <<touch, shown, rows, picked, all, question, enabled>> /\ MaxEdits \in Nat
  BY <1>1 DEF Town!selection, CityParams
<1>. QED
  BY <1>1, <1>5, <1>6, <1>7, SameChosen, TownCommandKeeps

\* Positions from a first one on ascend.
LEMMA RangeAscends ==
  ASSUME NEW n \in Nat, NEW a \in Nat, NEW s, s = [i \in 1..n |-> a + i]
  PROVE  s \in Seq(Positions) /\ Town!Ascending(s)
<1>1. s \in [1..n -> Positions]
  BY DEF Positions
<1>2. s \in Seq(Positions)
  BY <1>1, SeqDef
<1>3. Town!Ascending(s)
  BY DEF Town!Ascending
<1>. QED
  BY <1>2, <1>3

\* So do positions that all move.
LEMMA ShiftAscends ==
  ASSUME NEW s \in Seq(Positions), Town!Ascending(s), NEW a \in Int, \A i \in DOMAIN s : s[i] + a > 0,
         NEW t, t = [i \in DOMAIN s |-> s[i] + a]
  PROVE  t \in Seq(Positions) /\ Town!Ascending(t) /\ DOMAIN t = DOMAIN s
<1>1. Len(s) \in Nat /\ DOMAIN s = 1..Len(s) /\ \A i \in DOMAIN s : s[i] \in Nat
  BY LenProperties, ElementOfSeq DEF Positions
<1>2. \A i \in DOMAIN s : s[i] + a \in Positions
  BY <1>1 DEF Positions
<1>3. t \in [1..Len(s) -> Positions]
  BY <1>1, <1>2
<1>4. t \in Seq(Positions)
  BY <1>1, <1>3, SeqDef
<1>5. Town!Ascending(t)
  BY <1>1 DEF Town!Ascending
<1>. QED
  BY <1>4, <1>5

LEMMA InsertKeeps == ASSUME CityParams, CityInv, Town!CityInsertInWorklist PROVE CityInv'
<1>. PICK n : n = Town!Lowest(Len(picked), MaxLen)
  OBVIOUS
<1>1. /\ Town!Command("insert") /\ picked # <<>>
      /\ IF chosen = <<>>
         THEN chosen' = [i \in 1..n |-> i] /\ Town!Send(picked \o Town!List, <<>>)
         ELSE /\ chosen' = [i \in DOMAIN chosen |-> chosen[i] + n]
              /\ Town!Send(Town!Splice(Town!List, Head(chosen), 0, picked), <<>>)
  BY Zenon DEF Town!CityInsertInWorklist
<1>2. shown \in Cities /\ Town!List \in Seq(Tasks) /\ picked \in Seq(Tasks) /\ chosen \in Seq(Positions) /\ Town!Ascending(chosen)
  BY <1>1, CommandIs
<1>3. n \in Nat
  <2>1. Len(picked) \in Nat /\ MaxLen \in Nat
    BY <1>2, LenProperties DEF CityParams
  <2>. QED
    BY <2>1 DEF Town!Lowest
<1>4. Towns' /\ Chosen'
  <2>1. CASE chosen = <<>>
    <3>1. picked \o Town!List \in Seq(Tasks)
      BY <1>2, ConcatProperties
    <3>2. chosen' = [i \in 1..n |-> 0 + i]
      BY <1>1, <1>3, <2>1
    <3>3. chosen' \in Seq(Positions) /\ Town!Ascending(chosen')
      <4>. PICK s : s = chosen'
        OBVIOUS
      <4>. QED
        BY <1>3, <3>2, RangeAscends
    <3>. QED
      BY <1>1, <1>2, <2>1, <3>1, <3>3, SendKeeps DEF Chosen
  <2>2. CASE chosen # <<>>
    <3>1. Head(chosen) \in Nat \ {0}
      BY <1>2, <2>2 DEF Positions
    <3>2. Town!Splice(Town!List, Head(chosen), 0, picked) \in Seq(Tasks)
      BY <1>2, <3>1, SpliceIs
    <3>3. \A i \in DOMAIN chosen : chosen[i] + n > 0
      BY <1>2, <1>3, LenProperties, ElementOfSeq DEF Positions
    <3>4. chosen' \in Seq(Positions) /\ Town!Ascending(chosen')
      <4>. PICK s : s = chosen'
        OBVIOUS
      <4>. QED
        BY <1>1, <1>2, <1>3, <2>2, <3>3, ShiftAscends
    <3>. QED
      BY <1>1, <1>2, <2>2, <3>2, <3>4, SendKeeps DEF Chosen
  <2>. QED
    BY <2>1, <2>2
<1>. QED
  BY <1>1, <1>4, CommandIs, TownCommandKeeps

LEMMA DownKeeps == ASSUME CityParams, CityInv, Town!CityWorklistTaskDown PROVE CityInv'
<1>1. /\ Town!Command("down")
      /\ \/ chosen' = chosen /\ city' = city
         \/ Town!Send(Town!MovedDown(Town!List, chosen), <<>>) /\ chosen' = [i \in DOMAIN chosen |-> chosen[i] + 1]
  BY Zenon DEF Town!CityWorklistTaskDown, Town!NothingSent
<1>2. shown \in Cities /\ Town!List \in Seq(Tasks) /\ chosen \in Seq(Positions) /\ Town!Ascending(chosen)
  BY <1>1, CommandIs
<1>3. CASE chosen' = chosen /\ city' = city
  BY <1>1, <1>3, CommandIs, SameTowns, SameChosen, TownCommandKeeps
<1>4. CASE Town!Send(Town!MovedDown(Town!List, chosen), <<>>) /\ chosen' = [i \in DOMAIN chosen |-> chosen[i] + 1]
  <2>1. chosen \in Seq(Nat)
    BY <1>2, SeqDef DEF Positions
  <2>2. Town!MovedDown(Town!List, chosen) \in Seq(Tasks)
    BY <1>2, <2>1, MovedDownIs
  <2>3. \A i \in DOMAIN chosen : chosen[i] + 1 > 0
    BY <1>2, LenProperties, ElementOfSeq DEF Positions
  <2>4. chosen' \in Seq(Positions) /\ Town!Ascending(chosen')
    <3>. PICK s : s = chosen'
      OBVIOUS
    <3>. QED
      BY <1>2, <1>4, <2>3, ShiftAscends
  <2>. QED
    BY <1>1, <1>2, <1>4, <2>2, <2>4, CommandIs, SendKeeps, TownCommandKeeps DEF Chosen
<1>. QED
  BY <1>1, <1>3, <1>4

LEMMA RemoveKeeps == ASSUME CityParams, CityInv, Town!CityWorklistTaskRemove PROVE CityInv'
<1>1. Town!Command("remove") /\ chosen' = <<>> /\ Town!Send(Town!Without(Town!List, chosen), <<>>)
  BY Zenon DEF Town!CityWorklistTaskRemove
<1>2. shown \in Cities /\ Town!List \in Seq(Tasks) /\ chosen \in Seq(Nat \ {0})
  BY <1>1, CommandIs DEF Positions
<1>3. Town!Without(Town!List, chosen) \in Seq(Tasks)
  BY <1>2, WithoutIs
<1>4. Towns'
  BY <1>1, <1>2, <1>3, SendKeeps
<1>5. Chosen'
  BY <1>1, EmptySeq, EmptyIs DEF Chosen, Town!Ascending
<1>. QED
  BY <1>1, <1>4, <1>5, CommandIs, TownCommandKeeps


\* A worklist with a task in it is one.
LEMMA PutTyped == ASSUME NEW l \in Seq(Tasks), NEW i \in Nat, NEW x \in Tasks PROVE Town!Put(l, i, x) \in Seq(Tasks)
BY PutIs

\* Without the first of positions that ascend, the rest is behind it.
LEMMA RestAscends ==
  ASSUME NEW s \in Seq(Positions), Town!Ascending(s), s # <<>>
  PROVE  /\ Tail(s) \in Seq(Positions) /\ Town!Ascending(Tail(s)) /\ Head(s) \in Positions
         /\ (\A i \in DOMAIN Tail(s) : Tail(s)[i] > Head(s)) /\ \A i \in DOMAIN s : s[i] >= Head(s)
<1>1. IsSeq(s)
  BY SequenceIs
<1>. PICK t : t = Tail(s)
  OBVIOUS
<1>2. /\ Len(s) \in Nat \ {0} /\ Head(s) = s[1]
      /\ DOMAIN t = 1..Len(s) - 1 /\ \A i \in 1..Len(s) - 1 : t[i] = s[i + 1]
  BY <1>1, Rested
<1>3. DOMAIN s = 1..Len(s) /\ \A i \in 1..Len(s) : s[i] \in Positions
  BY LenProperties, ElementOfSeq
<1>4. t \in Seq(Positions)
  BY HeadTailProperties
<1>5. \A i, j \in DOMAIN s : i < j => s[i] < s[j]
  BY DEF Town!Ascending
<1>6. \A i \in DOMAIN t : i \in Nat /\ i + 1 \in DOMAIN s /\ t[i] = s[i + 1] /\ 1 < i + 1 /\ 1 \in DOMAIN s
  BY <1>2, <1>3
<1>7. Town!Ascending(t)
  <2>1. ASSUME NEW i \in DOMAIN t, NEW j \in DOMAIN t, i < j PROVE t[i] < t[j]
    <3>1. i + 1 < j + 1
      BY <1>6, <2>1
    <3>. QED
      BY <1>5, <1>6, <3>1
  <2>. QED
    BY <2>1 DEF Town!Ascending
<1>8. \A i \in DOMAIN t : t[i] > Head(s)
  <2>1. \A i \in DOMAIN t : s[1] < t[i] /\ s[1] \in Nat /\ t[i] \in Nat
    BY <1>3, <1>5, <1>6 DEF Positions
  <2>. QED
    BY <1>2, <2>1
<1>9. \A i \in DOMAIN s : s[i] >= Head(s)
  <2>1. ASSUME NEW i \in DOMAIN s PROVE s[i] >= s[1]
    <3>1. i \in Nat /\ s[i] \in Nat /\ s[1] \in Nat /\ 1 \in DOMAIN s /\ (i = 1 \/ 1 < i)
      BY <1>2, <1>3 DEF Positions
    <3>. QED
      BY <1>5, <3>1
  <2>. QED
    BY <1>2, <2>1
<1>10. Head(s) \in Positions
  BY <1>2, <1>3
<1>. QED
  BY <1>4, <1>7, <1>8, <1>9, <1>10

\* Subtracting is adding.
LEMMA MinusOne == ASSUME NEW n \in Nat, n > 1 PROVE n - 1 = n + (-1) /\ n + (-1) > 0
OBVIOUS

LEMMA UpKeeps == ASSUME CityParams, CityInv, Town!CityWorklistTaskUp PROVE CityInv'
<1>. PICK rest : rest = IF Head(chosen) = 1 THEN Tail(chosen) ELSE chosen
  OBVIOUS
<1>. PICK top : top = IF Head(chosen) = 1 /\ Town!At(Town!List, 1) # city[shown].making
                      THEN Town!Put(Town!List, 1, city[shown].making) ELSE Town!List
  OBVIOUS
<1>1. /\ Town!Command("up") /\ chosen # <<>>
      /\ \/ chosen' = rest /\ city' = city
         \/ chosen' = [i \in DOMAIN rest |-> rest[i] - 1] /\ \E before : Town!Send(Town!MovedUp(top, rest), before)
  BY Zenon DEF Town!CityWorklistTaskUp, Town!NothingSent
<1>2. shown \in Cities /\ Town!List \in Seq(Tasks) /\ chosen \in Seq(Positions) /\ Town!Ascending(chosen)
  BY <1>1, CommandIs
<1>3. rest \in Seq(Positions) /\ Town!Ascending(rest) /\ \A i \in DOMAIN rest : rest[i] \in Nat /\ rest[i] > 1
  <2>1. /\ Tail(chosen) \in Seq(Positions) /\ Town!Ascending(Tail(chosen)) /\ Head(chosen) \in Positions
        /\ (\A i \in DOMAIN Tail(chosen) : Tail(chosen)[i] > Head(chosen))
        /\ \A i \in DOMAIN chosen : chosen[i] >= Head(chosen)
    BY <1>1, <1>2, RestAscends
  <2>2. rest \in Seq(Positions) /\ Town!Ascending(rest)
    BY <1>2, <2>1
  <2>3. \A i \in DOMAIN rest : rest[i] \in Positions
    BY <2>2, LenProperties, ElementOfSeq
  <2>4. \A i \in DOMAIN rest : rest[i] > 1
    BY <2>1, <2>3 DEF Positions
  <2>. QED
    BY <2>2, <2>3, <2>4 DEF Positions
<1>4. top \in Seq(Tasks)
  <2>1. city[shown].making \in Tasks
    BY <1>2, ListIs DEF CityInv
  <2>2. Town!Put(Town!List, 1, city[shown].making) \in Seq(Tasks)
    BY <1>2, <2>1, PutTyped
  <2>. QED
    BY <1>2, <2>2
<1>5. Town!MovedUp(top, rest) \in Seq(Tasks)
  BY <1>3, <1>4, MovedUpIs DEF Positions
<1>6. CASE chosen' = rest /\ city' = city
  BY <1>1, <1>3, <1>6, CommandIs, SameTowns, TownCommandKeeps DEF Chosen
<1>7. CASE chosen' = [i \in DOMAIN rest |-> rest[i] - 1] /\ \E before : Town!Send(Town!MovedUp(top, rest), before)
  <2>1. chosen' = [i \in DOMAIN rest |-> rest[i] + (-1)] /\ -1 \in Int /\ \A i \in DOMAIN rest : rest[i] + (-1) > 0
    <3>1. \A i \in DOMAIN rest : rest[i] - 1 = rest[i] + (-1) /\ rest[i] + (-1) > 0
      BY <1>3, MinusOne, Zenon
    <3>2. [i \in DOMAIN rest |-> rest[i] - 1] = [i \in DOMAIN rest |-> rest[i] + (-1)]
      BY <3>1, Zenon
    <3>3. -1 \in Int
      OBVIOUS
    <3>. QED
      BY <1>7, <3>1, <3>2, <3>3, Zenon
  <2>2. chosen' \in Seq(Positions) /\ Town!Ascending(chosen')
    <3>. PICK s : s = chosen'
      OBVIOUS
    <3>. PICK a : a = -1
      OBVIOUS
    <3>. QED
      BY <1>3, <2>1, ShiftAscends
  <2>. QED
    BY <1>1, <1>2, <1>5, <1>7, <2>2, CommandIs, SendKeeps, TownCommandKeeps DEF Chosen
<1>. QED
  BY <1>1, <1>6, <1>7

LEMMA ExchangeKeeps == ASSUME CityParams, CityInv, Town!CityExchangeWorklistTask PROVE CityInv'
<1>1. /\ Town!Command("exchange") /\ picked # <<>>
      /\ \/ chosen' = chosen /\ city' = city
         \/ chosen' = chosen /\ Len(picked) = Len(chosen) /\ Town!Send(Town!Exchanged(Town!List, chosen, picked), <<>>)
         \/ /\ Len(chosen) = 1 /\ chosen' = [i \in DOMAIN picked |-> chosen[1] + i - 1]
            /\ Town!Send(Town!Splice(Town!List, chosen[1], 1, picked), <<>>)
  BY Zenon DEF Town!CityExchangeWorklistTask, Town!NothingSent
<1>2. shown \in Cities /\ Town!List \in Seq(Tasks) /\ picked \in Seq(Tasks) /\ chosen \in Seq(Positions) /\ Town!Ascending(chosen)
  BY <1>1, CommandIs
<1>3. CASE chosen' = chosen /\ city' = city
  BY <1>1, <1>3, CommandIs, SameTowns, SameChosen, TownCommandKeeps
<1>4. CASE chosen' = chosen /\ Len(picked) = Len(chosen) /\ Town!Send(Town!Exchanged(Town!List, chosen, picked), <<>>)
  <2>1. chosen \in Seq(Nat)
    BY <1>2, SeqDef DEF Positions
  <2>2. Town!Exchanged(Town!List, chosen, picked) \in Seq(Tasks)
    BY <1>2, <1>4, <2>1, ExchangedIs
  <2>. QED
    BY <1>1, <1>2, <1>4, <2>2, CommandIs, SendKeeps, SameChosen, TownCommandKeeps
<1>5. CASE /\ Len(chosen) = 1 /\ chosen' = [i \in DOMAIN picked |-> chosen[1] + i - 1]
           /\ Town!Send(Town!Splice(Town!List, chosen[1], 1, picked), <<>>)
  <2>1. chosen[1] \in Positions
    BY <1>2, <1>5, ElementOfSeq
  <2>2. Town!Splice(Town!List, chosen[1], 1, picked) \in Seq(Tasks)
    BY <1>2, <2>1, SpliceIs DEF Positions
  <2>3. Len(picked) \in Nat /\ DOMAIN picked = 1..Len(picked)
    BY <1>2, LenProperties
  <2>4. chosen' \in Seq(Positions) /\ Town!Ascending(chosen')
    <3>. PICK s : s = chosen'
      OBVIOUS
    <3>. PICK a : a = chosen[1] - 1
      OBVIOUS
    <3>. PICK n : n = Len(picked)
      OBVIOUS
    <3>1. a \in Nat /\ n \in Nat /\ s = [i \in 1..n |-> a + i]
      BY <1>5, <2>1, <2>3 DEF Positions
    <3>. QED
      BY <3>1, RangeAscends
  <2>. QED
    BY <1>1, <1>2, <1>5, <2>2, <2>4, CommandIs, SendKeeps, TownCommandKeeps DEF Chosen
<1>. QED
  BY <1>1, <1>3, <1>4, <1>5

LEMMA DirectRemoveKeeps == ASSUME CityParams, CityInv, NEW i \in rows, Town!DirectRemove(i) PROVE CityInv'
<1>. PICK b : b = Town!Below(i)
  OBVIOUS
<1>. PICK a : a = Town!Above(i)
  OBVIOUS
<1>. PICK m : m = [k \in DOMAIN a |-> a[k] - 1]
  OBVIOUS
<1>1. /\ shown # Town!NoCity /\ edits < MaxEdits /\ edits' = edits + 1 /\ fresh' = FALSE /\ chosen' = b \o m
      /\ Town!Send(Town!Splice(Town!List, i, 1, <<>>), <<>>) /\ clicks' = clicks
      /\ UNCHANGED <<touch, shown, rows, picked, all, question, enabled>>
  BY Zenon DEF Town!DirectRemove
<1>2. shown \in Cities /\ Towns /\ i \in Positions
  BY <1>1 DEF CityInv, Dialog
<1>3. Town!List \in Seq(Tasks)
  BY <1>2, ListIs DEF Town!List
<1>4. Towns'
  <2>1. Town!Splice(Town!List, i, 1, <<>>) \in Seq(Tasks)
    BY <1>2, <1>3, SpliceIs, EmptySeq DEF Positions
  <2>. QED
    BY <1>1, <1>2, <2>1, SendKeeps
<1>5. /\ b \in Seq(Positions) /\ Town!Ascending(b) /\ a \in Seq(Positions) /\ Town!Ascending(a)
      /\ (\A k \in DOMAIN b : b[k] < i) /\ \A k \in DOMAIN a : a[k] > i
  BY BesideIs
<1>6. (\A k \in DOMAIN b : b[k] \in Nat) /\ (\A k \in DOMAIN a : a[k] \in Nat /\ a[k] > 1) /\ i \in Nat \ {0}
  <2>1. (\A k \in DOMAIN b : b[k] \in Positions) /\ \A k \in DOMAIN a : a[k] \in Positions
    BY <1>5, LenProperties, ElementOfSeq
  <2>. QED
    BY <1>2, <1>5, <2>1 DEF Positions
<1>7. m \in Seq(Positions) /\ Town!Ascending(m) /\ DOMAIN m = DOMAIN a
  <2>1. m = [k \in DOMAIN a |-> a[k] + (-1)] /\ \A k \in DOMAIN a : a[k] + (-1) > 0
    BY <1>6
  <2>. PICK d : d = -1
    OBVIOUS
  <2>2. d \in Int /\ m = [k \in DOMAIN a |-> a[k] + d] /\ \A k \in DOMAIN a : a[k] + d > 0
    BY <2>1
  <2>. QED
    BY <1>5, <2>2, ShiftAscends
<1>8. Chosen'
  <2>1. Before(b, m)
    BY <1>5, <1>6, <1>7 DEF Before
  <2>. PICK c : c = b \o m
    OBVIOUS
  <2>2. c \in Seq(Positions) /\ Town!Ascending(c)
    BY <1>5, <1>7, <2>1, JoinedAscends
  <2>. QED
    BY <1>1, <2>2 DEF Chosen
<1>9. clicks' \in BOOLEAN /\ MaxEdits \in Nat
  BY <1>1, Zenon DEF CityInv, Picked, CityParams
<1>. QED
  BY <1>1, <1>4, <1>8, <1>9, TownCommandKeeps

-----------------------------------------------------------------------------
(* Packets.                                                                 *)

LEMMA CityInfoKeeps ==
  ASSUME CityParams, CityInv, NEW c \in Cities, NEW info \in Packets, Town!HandleCityInfo(c, info)
  PROVE  CityInv'
<1>1. /\ edits < MaxEdits /\ edits' = edits + 1 /\ city' = [city EXCEPT ![c] = info]
      /\ touch' = touch /\ all' = all /\ question' = question
  BY Zenon DEF Town!HandleCityInfo
<1>2. edits' \in 0..MaxEdits
  <2>1. edits \in 0..MaxEdits /\ MaxEdits \in Nat
    BY DEF CityInv, CityParams
  <2>. QED
    BY <1>1, <2>1
<1>3. info \in Town!CityRec /\ Len(info.list) <= MaxLen /\ city \in [Cities -> Town!CityRec]
  BY DEF CityParams, CityInv, Towns
<1>4. city' \in [Cities -> Town!CityRec] /\ \A d \in Cities : city'[d] = IF d = c THEN info ELSE city[d]
  BY <1>1, <1>3
<1>5. Towns'
  <2>1. \A d \in Cities : city[d].here => Len(city[d].list) <= MaxLen
    BY DEF CityInv, Towns, Town!NeverTooLong
  <2>2. \A d \in Cities : city'[d].here => Len(city'[d].list) <= MaxLen
    BY <1>3, <1>4, <2>1
  <2>. QED
    BY <1>4, <2>2 DEF Towns, Town!NeverTooLong
<1>6. CASE ~city[c].here /\ info.mine
  <2>1. Town!ShowCityDialog(c)
    BY <1>6, Zenon DEF Town!HandleCityInfo
  <2>. QED
    BY <1>1, <1>2, <1>5, <2>1, CityOpened
<1>7. CASE ~(~city[c].here /\ info.mine)
  <2>1. /\ fresh' = (fresh /\ shown # c) /\ shown' = shown /\ rows' = rows /\ chosen' = chosen /\ picked' = picked
        /\ enabled' = enabled /\ clicks' = clicks
    BY <1>7, Zenon DEF Town!HandleCityInfo, Town!selection
  <2>2. Page' /\ Chosen' /\ Picked'
    BY <1>1, <2>1, Zenon DEF CityInv, Page, Chosen, Picked
  <2>3. fresh' \in BOOLEAN /\ (fresh' => fresh) /\ (fresh' => shown # c)
    BY <2>1, Zenon
  <2>4. Dialog'
    BY <2>1, <2>3, Zenon DEF CityInv, Dialog
  <2>5. Drawn'
    <3>1. SUFFICES ASSUME fresh' PROVE /\ shown' \in Cities /\ rows' \subseteq DOMAIN Town!List'
                                       /\ \A i \in DOMAIN chosen' : chosen'[i] \in DOMAIN Town!List'
      BY Zenon DEF Drawn
    <3>2. shown \in Cities /\ rows \subseteq DOMAIN Town!List /\ \A i \in DOMAIN chosen : chosen[i] \in DOMAIN Town!List
      BY <2>3, <3>1, Zenon DEF CityInv, Drawn
    <3>3. Town!List' = Town!List
      BY <1>4, <2>1, <2>3, <3>1, <3>2 DEF Town!List
    <3>. QED
      BY <2>1, <3>2, <3>3
  <2>. QED
    BY <1>2, <1>5, <2>2, <2>4, <2>5, Zenon DEF CityInv
<1>. QED
  BY <1>6, <1>7

LEMMA RemoveCityKeeps == ASSUME CityInv, NEW c \in Cities, Town!RemoveCity(c) PROVE CityInv'
<1>1. /\ city' = [city EXCEPT ![c].here = FALSE]
      /\ touch' = touch /\ shown' = shown /\ rows' = rows /\ fresh' = fresh /\ chosen' = chosen
      /\ picked' = picked /\ all' = all /\ clicks' = clicks /\ enabled' = enabled /\ question' = question
      /\ edits' = edits
  BY Zenon DEF Town!RemoveCity, Town!selection
<1>2. Towns /\ city \in [Cities -> Town!CityRec] /\ city[c] \in Town!CityRec
  BY DEF CityInv, Towns
<1>3. PICK no : no = FALSE
  OBVIOUS
<1>4. no \in BOOLEAN /\ ~no
  BY <1>3
<1>5. city' = [city EXCEPT ![c] = [city[c] EXCEPT !.here = no]]
  BY <1>1, <1>3, Zenon
<1>. PICK r : r = [city[c] EXCEPT !.here = no]
  OBVIOUS
<1>6. r \in Town!CityRec /\ r.list = city[c].list /\ r.here = no
  BY <1>2, <1>4 DEF Town!CityRec
<1>7. city' \in [Cities -> Town!CityRec] /\ \A d \in Cities : city'[d] = IF d = c THEN r ELSE city[d]
  BY <1>2, <1>5, <1>6
<1>8. Towns'
  <2>1. \A d \in Cities : city[d].here => Len(city[d].list) <= MaxLen
    BY <1>2 DEF Towns, Town!NeverTooLong
  <2>2. \A d \in Cities : city'[d].here => Len(city'[d].list) <= MaxLen
    BY <1>4, <1>6, <1>7, <2>1
  <2>. QED
    BY <1>7, <2>2 DEF Towns, Town!NeverTooLong
<1>9. Page' /\ Dialog' /\ Chosen' /\ Picked'
  BY <1>1, Zenon DEF CityInv, Page, Dialog, Chosen, Picked
<1>10. Drawn'
  <2>1. SUFFICES ASSUME fresh' PROVE /\ shown' \in Cities /\ rows' \subseteq DOMAIN Town!List'
                                     /\ \A i \in DOMAIN chosen' : chosen'[i] \in DOMAIN Town!List'
    BY Zenon DEF Drawn
  <2>2. shown \in Cities /\ rows \subseteq DOMAIN Town!List /\ \A i \in DOMAIN chosen : chosen[i] \in DOMAIN Town!List
    BY <1>1, <2>1, Zenon DEF CityInv, Drawn
  <2>3. Town!List' = Town!List
    BY <1>1, <1>6, <1>7, <2>2 DEF Town!List
  <2>. QED
    BY <1>1, <2>2, <2>3
<1>. QED
  BY <1>1, <1>8, <1>9, <1>10, Zenon DEF CityInv

-----------------------------------------------------------------------------
(* The theorem.                                                             *)

LEMMA CityInit == ASSUME CityParams, Town!Init PROVE CityInv
<1>1. PICK info \in Packets : city = [c \in Cities |-> [info EXCEPT !.here = c = 1]]
  BY DEF Town!Init
<1>2. /\ touch \in BOOLEAN /\ shown = Town!NoCity /\ rows = {} /\ fresh = FALSE /\ chosen = <<>> /\ picked = <<>>
      /\ all = FALSE /\ clicks = FALSE /\ enabled = {} /\ question = "none" /\ edits = 0
  BY Zenon DEF Town!Init
<1>3. info \in Town!CityRec /\ Len(info.list) <= MaxLen
  BY DEF CityParams
<1>4. Towns
  <2>1. \A b \in BOOLEAN : [info EXCEPT !.here = b] \in Town!CityRec /\ [info EXCEPT !.here = b].list = info.list
    BY <1>3 DEF Town!CityRec
  <2>2. \A c \in Cities : (c = 1) \in BOOLEAN
    OBVIOUS
  <2>3. \A c \in Cities : city[c] \in Town!CityRec /\ city[c].list = info.list
    <3>1. \A c \in Cities : city[c] = [info EXCEPT !.here = c = 1]
      BY <1>1, Zenon
    <3>. QED
      BY <2>1, <2>2, <3>1, Zenon
  <2>4. city \in [Cities -> Town!CityRec]
    BY <1>1, <2>3
  <2>5. Town!NeverTooLong
    BY <1>3, <2>3 DEF Town!NeverTooLong
  <2>. QED
    BY <2>4, <2>5 DEF Towns
<1>5. Page /\ Drawn
  <2>1. all \in BOOLEAN /\ question \in {"none", "buy", "rename"}
    BY <1>2
  <2>. QED
    BY <1>2, <2>1, Zenon DEF Page, Drawn
<1>6. Dialog
  <2>1. fresh \in BOOLEAN
    BY <1>2, Zenon
  <2>. QED
    BY <1>2, <2>1 DEF Dialog
<1>7. Chosen
  BY <1>2, EmptySeq, EmptyIs DEF Chosen, Town!Ascending
<1>8. Picked
  <2>1. clicks \in BOOLEAN
    BY <1>2, Zenon
  <2>. QED
    BY <1>2, <2>1, EmptySeq DEF Picked
<1>9. edits \in 0..MaxEdits
  BY <1>2 DEF CityParams
<1>. QED
  BY <1>4, <1>5, <1>6, <1>7, <1>8, <1>9, Zenon DEF CityInv

LEMMA CityStep == ASSUME CityParams, CityInv, Town!Next PROVE CityInv'
<1>1. ASSUME NEW c \in Cities, Town!ShowCity(c) \/ Town!RemoveCity(c) PROVE CityInv'
  BY <1>1, ShowCityKeeps, RemoveCityKeeps
<1>2. CASE Town!CloseCityDialog \/ Town!NextCity
  BY <1>2, TownCloseKeeps, NextCityKeeps
<1>3. CASE Town!RequestCityBuy \/ Town!RenameCity \/ Town!Answer \/ Town!OtherRequests
  <2>1. /\ UNCHANGED <<touch, city, shown, rows, fresh, Town!selection, all, clicks, enabled, edits>>
        /\ question' \in {"none", "buy", "rename"}
    <3>1. CASE Town!RequestCityBuy \/ Town!RenameCity \/ Town!Answer
      BY <3>1 DEF Town!RequestCityBuy, Town!RenameCity, Town!Answer
    <3>2. CASE Town!OtherRequests
      <4>1. /\ UNCHANGED <<touch, city, shown, rows, fresh, Town!selection, all, clicks, enabled, edits>>
            /\ question' = question
        BY <3>2, Zenon DEF Town!OtherRequests, Town!page
      <4>. QED
        BY <4>1 DEF CityInv, Page
    <3>. QED
      BY <1>3, <3>1, <3>2
  <2>. QED
    BY <2>1, NothingDrawn
<1>4. CASE Town!Selecting
  BY <1>4, PickKeeps, ChooseKeeps, ClickKeeps DEF Town!Selecting
<1>5. CASE Town!ShowUnreachableItems
  BY <1>5, UnreachableKeeps
<1>6. CASE Town!Commands
  BY <1>6, ChangeKeeps, AddKeeps, InsertKeeps, UpKeeps, DownKeeps, ExchangeKeeps, RemoveKeeps, DirectRemoveKeeps,
     WorklistAddKeeps DEF Town!Commands
<1>7. ASSUME NEW c \in Cities, NEW info \in Packets, Town!HandleCityInfo(c, info) PROVE CityInv'
  BY <1>7, CityInfoKeeps
<1>. QED
  BY <1>1, <1>2, <1>3, <1>4, <1>5, <1>6, <1>7, Zenon DEF Town!Next

LEMMA CityStutters == ASSUME CityInv, UNCHANGED Town!vars PROVE CityInv'
<1>1. /\ UNCHANGED <<touch, city, shown, rows, fresh, Town!selection, all, clicks, enabled, edits>>
      /\ question' = question
  BY Zenon DEF Town!vars, Town!selection
<1>2. question' \in {"none", "buy", "rename"}
  BY <1>1 DEF CityInv, Page
<1>. QED
  BY <1>1, <1>2, NothingDrawn

\* Whatever is selected, moved and sent, and whatever packets say: positions
\* ascend and stand for tasks while the dialog shows the worklist, and no
\* worklist is too long.
THEOREM CityIsSound == ASSUME CityParams PROVE Town!Spec => []Town!CitySound
<1>1. Town!Init => CityInv
  BY CityInit
<1>2. CityInv /\ [Town!Next]_Town!vars => CityInv'
  BY CityStep, CityStutters
<1>3. CityInv => Town!CitySound
  BY CityInvSound
<1>. QED
  BY <1>1, <1>2, <1>3, PTL DEF Town!Spec

\* A function to a set that reaches each of its elements once.
Reaches(f, S, T) ==
  f \in [S -> T] /\ (\A a, b \in S : f[a] = f[b] => a = b) /\ \A t \in T : \E s \in S : f[s] = t

LEMMA OneToOne == ASSUME NEW S, NEW T, NEW f, Reaches(f, S, T) PROVE ExistsBijection(S, T)
BY DEF Reaches, ExistsBijection, Bijection, Injection, Surjection, IsInjective

\* As many of each task in one worklist as in another.
AsMany(a, b) == \A x : Town!Count(x, a) = Town!Count(x, b)

\* Two places of a worklist that change what is in them.
Exchange(l, q, i, j) ==
  /\ i \in DOMAIN l /\ j \in DOMAIN l /\ i # j /\ DOMAIN q = DOMAIN l
  /\ q[i] = l[j] /\ q[j] = l[i] /\ \A k \in DOMAIN l : k # i /\ k # j => q[k] = l[k]

\* A swap is one.
LEMMA SwapExchanges ==
  ASSUME NEW l \in Seq(Tasks), NEW i \in 1..Len(l), NEW j \in 1..Len(l), i # j
  PROVE  /\ Town!Swap(l, i, j) \in Seq(Tasks) /\ Len(Town!Swap(l, i, j)) = Len(l)
         /\ Exchange(l, Town!Swap(l, i, j), i, j)
<1>1. /\ Town!Swap(l, i, j) \in Seq(Tasks) /\ Len(Town!Swap(l, i, j)) = Len(l)
      /\ Town!Swap(l, i, j)[i] = l[j] /\ Town!Swap(l, i, j)[j] = l[i]
      /\ \A k \in 1..Len(l) : k # i /\ k # j => Town!Swap(l, i, j)[k] = l[k]
  BY SwapsTwo
<1>2. DOMAIN l = 1..Len(l) /\ DOMAIN Town!Swap(l, i, j) = 1..Len(l)
  BY <1>1, LenProperties
<1>. QED
  BY <1>1, <1>2 DEF Exchange

\* They keep the number of each task: the places of one correspond to those of the other.
LEMMA ExchangeCounts ==
  ASSUME NEW n \in Nat, NEW l, NEW q, NEW i, NEW j, DOMAIN l = 1..n, Exchange(l, q, i, j)
  PROVE  AsMany(q, l)
<1> SUFFICES ASSUME NEW x PROVE Town!Count(x, q) = Town!Count(x, l)
  BY DEF AsMany
<1>. PICK S : S = {k \in DOMAIN l : l[k] = x}
  OBVIOUS
<1>. PICK T : T = {k \in DOMAIN q : q[k] = x}
  OBVIOUS
<1>. PICK f : f = [k \in S |-> IF k = i THEN j ELSE IF k = j THEN i ELSE k]
  OBVIOUS
<1>1. /\ i \in DOMAIN l /\ j \in DOMAIN l /\ i # j /\ DOMAIN q = DOMAIN l
      /\ q[i] = l[j] /\ q[j] = l[i] /\ \A k \in DOMAIN l : k # i /\ k # j => q[k] = l[k]
  BY DEF Exchange
<1>2. f \in [S -> T]
  BY <1>1, Zenon
<1>3. \A a, b \in S : f[a] = f[b] => a = b
  BY <1>1, Zenon
<1>4. \A t \in T : \E s \in S : f[s] = t
  <2>1. ASSUME NEW t \in T PROVE \E s \in S : f[s] = t
    <3>1. CASE t = i
      BY <1>1, <3>1
    <3>2. CASE t = j
      BY <1>1, <3>2
    <3>3. CASE t # i /\ t # j
      BY <1>1, <3>3
    <3>. QED
      BY <3>1, <3>2, <3>3
  <2>. QED
    BY <2>1
<1>5. ExistsBijection(S, T)
  BY <1>2, <1>3, <1>4, OneToOne DEF Reaches
<1>6. IsFiniteSet(S)
  <2>1. IsFiniteSet(1..n) /\ S \in SUBSET (1..n)
    BY FS_Interval
  <2>. QED
    BY <2>1, FS_Subset
<1>7. Cardinality(T) = Cardinality(S)
  BY <1>5, <1>6, FS_Bijection
<1>. QED
  BY <1>7, TownLists DEF Town!Count

\* A task before worklists with as many of each.
LEMMA BehindCounts ==
  ASSUME NEW a \in Seq(Tasks), NEW b \in Seq(Tasks), AsMany(a, b), NEW y \in Tasks
  PROVE  AsMany(<<y>> \o a, <<y>> \o b)
<1>1. ASSUME NEW c \in Seq(Tasks), NEW x
      PROVE  Town!Count(x, <<y>> \o c) = IF y = x THEN Town!Count(x, c) + 1 ELSE Town!Count(x, c)
  <2>. PICK d : d = <<y>> \o c
    OBVIOUS
  <2>1. <<y>> \in Seq(Tasks) /\ Len(<<y>>) = 1 /\ <<y>>[1] = y
    OBVIOUS
  <2>2. d \in Seq(Tasks) /\ Len(d) = 1 + Len(c)
        /\ \A i \in 1..1 + Len(c) : d[i] = IF i <= 1 THEN y ELSE c[i - 1]
    <3>1. /\ d \in Seq(Tasks) /\ Len(d) = 1 + Len(c)
          /\ \A i \in 1..1 + Len(c) : d[i] = IF i <= 1 THEN <<y>>[i] ELSE c[i - 1]
      BY <2>1, ConcatProperties
    <3>2. \A i \in 1..1 + Len(c) : i <= 1 => i = 1
      OBVIOUS
    <3>. QED
      BY <2>1, <3>1, <3>2
  <2>3. Len(c) \in Nat /\ DOMAIN c = 1..Len(c) /\ DOMAIN d = 1..1 + Len(c)
    BY <2>2, LenProperties
  <2>. PICK S : S = {i \in DOMAIN c : c[i] = x}
    OBVIOUS
  <2>. PICK T : T = {i \in DOMAIN d : d[i] = x}
    OBVIOUS
  <2>. PICK U : U = {i \in T : i # 1}
    OBVIOUS
  <2>. PICK f : f = [i \in S |-> i + 1]
    OBVIOUS
  <2>4. \A i \in DOMAIN c : i + 1 \in DOMAIN d /\ i + 1 # 1 /\ d[i + 1] = c[i]
    <3>1. \A i \in DOMAIN c : i + 1 \in 1..1 + Len(c) /\ ~(i + 1 <= 1) /\ (i + 1) - 1 = i
      BY <2>3
    <3>. QED
      BY <2>2, <2>3, <3>1
  <2>5. f \in [S -> U] /\ \A i \in S : f[i] = i + 1
    BY <2>4
  <2>6. \A i, j \in S : f[i] = f[j] => i = j
    BY <2>3, <2>5
  <2>7. ASSUME NEW t \in U PROVE \E s \in S : f[s] = t
    <3>1. t \in 1..1 + Len(c) /\ t # 1 /\ d[t] = x
      BY <2>3
    <3>2. t - 1 \in 1..Len(c) /\ (t - 1) + 1 = t /\ ~(t <= 1)
      BY <2>3, <3>1
    <3>3. t - 1 \in S
      BY <2>2, <2>3, <3>1, <3>2
    <3>. QED
      BY <2>5, <3>2, <3>3
  <2>8. ExistsBijection(S, U)
    <3>1. Reaches(f, S, U)
      BY <2>5, <2>6, <2>7, Zenon DEF Reaches
    <3>. QED
      BY <3>1, OneToOne
  <2>9. IsFiniteSet(S)
    <3>1. IsFiniteSet(1..Len(c)) /\ S \in SUBSET (1..Len(c))
      BY <2>3, FS_Interval
    <3>. QED
      BY <3>1, FS_Subset
  <2>10. IsFiniteSet(U) /\ Cardinality(U) = Cardinality(S)
    BY <2>8, <2>9, FS_Bijection
  <2>11. 1 \in DOMAIN d /\ d[1] = y /\ 1 \notin U
    BY <2>2, <2>3
  <2>12. CASE y = x
    <3>1. T = U \cup {1}
      BY <2>11, <2>12
    <3>2. Cardinality(U \cup {1}) = Cardinality(U) + 1
      <4>1. Cardinality(U \cup {1}) = IF 1 \in U THEN Cardinality(U) ELSE Cardinality(U) + 1
        BY <2>10, FS_AddElement, Zenon
      <4>. QED
        BY <2>11, <4>1, Zenon
    <3>. QED
      BY <2>10, <2>12, <3>1, <3>2, TownLists DEF Town!Count
  <2>13. CASE y # x
    <3>1. T = U
      BY <2>11, <2>13
    <3>. QED
      BY <2>10, <2>13, <3>1, TownLists DEF Town!Count
  <2>. QED
    BY <2>12, <2>13
<1>. QED
  BY <1>1 DEF AsMany

LEMMA AsManyOf ==
  ASSUME NEW a, NEW b, NEW c, AsMany(a, b), AsMany(b, c)
  PROVE  AsMany(a, c)
BY DEF AsMany

\* What a loop of swaps has done after k of them: the tasks moved so far lie where
\* they were moved to, those it has not come to lie where they were.
Shifted(l, q, went, at, by) ==
  /\ q \in Seq(Tasks) /\ Len(q) = Len(l) /\ AsMany(q, l)
  /\ \A p \in went : q[p + by] = l[p]
  /\ \A p \in at : q[p] = l[p]

\* A task changes places with the one beside it.
LEMMA ShiftOne ==
  ASSUME NEW l \in Seq(Tasks), NEW q, NEW went, NEW at, NEW by \in {-1, 1}, Shifted(l, q, went, at, by),
         NEW p \in 1..Len(l), p \in at, p + by \in 1..Len(l), went \subseteq Int, at \subseteq 1..Len(l),
         \A o \in went : o # p /\ o + by # p /\ o + by \in 1..Len(l),
         NEW r, r = Town!Swap(q, p, p + by) \/ r = Town!Swap(q, p + by, p)
  PROVE  Shifted(l, r, went \cup {p}, at \ {p, p + by}, by)
<1>1. q \in Seq(Tasks) /\ Len(q) = Len(l) /\ AsMany(q, l) /\ (\A o \in went : q[o + by] = l[o]) /\ \A o \in at : q[o] = l[o]
  BY DEF Shifted
<1>2. Len(l) \in Nat /\ p \in Int /\ p + by \in Int /\ p # p + by /\ DOMAIN q = 1..Len(l)
  BY <1>1, LenProperties
<1>. PICK t : t = p + by
  OBVIOUS
<1>3. r \in Seq(Tasks) /\ Len(r) = Len(l) /\ Exchange(q, r, p, t)
  <2>1. p \in 1..Len(q) /\ t \in 1..Len(q) /\ p # t
    BY <1>1, <1>2
  <2>2. CASE r = Town!Swap(q, p, t)
    BY <1>1, <2>1, <2>2, SwapExchanges
  <2>3. CASE r = Town!Swap(q, t, p)
    <3>1. r \in Seq(Tasks) /\ Len(r) = Len(q) /\ Exchange(q, r, t, p)
      BY <1>1, <2>1, <2>3, SwapExchanges
    <3>. QED
      BY <1>1, <3>1 DEF Exchange
  <2>. QED
    BY <2>2, <2>3
<1>a. r[t] = q[p] /\ \A k \in 1..Len(l) : k # p /\ k # t => r[k] = q[k]
  BY <1>2, <1>3 DEF Exchange
<1>4. AsMany(r, l)
  <2>1. AsMany(r, q)
    BY <1>2, <1>3, ExchangeCounts
  <2>. QED
    BY <1>1, <2>1, AsManyOf
<1>5. ASSUME NEW o \in went PROVE r[o + by] = l[o]
  <2>1. q[o + by] = l[o] /\ o # p /\ o + by # p /\ o \in Int /\ o + by \in 1..Len(l)
    BY <1>1
  <2>2. o + by # t
    BY <1>2, <2>1
  <2>. QED
    BY <1>1, <1>2, <1>a, <2>1, <2>2
<1>6. r[p + by] = l[p]
  BY <1>1, <1>a
<1>7. \A o \in at : o # p /\ o # t => r[o] = l[o]
  BY <1>1, <1>a
<1>. QED
  BY <1>3, <1>4, <1>5, <1>6, <1>7 DEF Shifted

\* The loop, for positions that are taken one by one and do not meet those before.
ShiftLoop(l, g, p, n, by) ==
  /\ g[0] = l
  /\ \A k \in 1..n : /\ p[k] \in 1..Len(l) /\ p[k] + by \in 1..Len(l)
                     /\ \/ g[k] = Town!Swap(g[k - 1], p[k], p[k] + by)
                        \/ g[k] = Town!Swap(g[k - 1], p[k] + by, p[k])
  /\ \A j, k \in 1..n : j < k => p[j] # p[k] /\ p[j] + by # p[k]

\* The positions are among those of the loop.
AllOf(went, p, n) == \A o \in went : \E j \in 1..n : o = p[j]

LEMMA LoopShifts ==
  ASSUME NEW l \in Seq(Tasks), NEW n \in Nat, NEW by \in {-1, 1}, NEW g, NEW p, ShiftLoop(l, g, p, n, by),
         NEW went, AllOf(went, p, n)
  PROVE  Shifted(l, g[n], went, {}, by)
<1> DEFINE Went(k) == {p[j] : j \in 1..k}
           Ahead(k) == {p[j] : j \in k + 1..n}
           T == {k \in 0..n : Shifted(l, g[k], Went(k), Ahead(k), by)}
<1>1. /\ g[0] = l
      /\ \A k \in 1..n : /\ p[k] \in 1..Len(l) /\ p[k] + by \in 1..Len(l)
                         /\ \/ g[k] = Town!Swap(g[k - 1], p[k], p[k] + by)
                            \/ g[k] = Town!Swap(g[k - 1], p[k] + by, p[k])
      /\ \A j, k \in 1..n : j < k => p[j] # p[k] /\ p[j] + by # p[k]
  BY DEF ShiftLoop
<1>2. 0 \in T
  <2>1. Shifted(l, l, Went(0), Ahead(0), by)
    BY DEF Shifted, AsMany
  <2>. QED
    BY <1>1, <2>1
<1>3. ASSUME NEW k \in 0..n, k + 1 \in 0..n, k \in T PROVE k + 1 \in T
  <2>1. Shifted(l, g[k], Went(k), Ahead(k), by)
    BY <1>3
  <2>2. k + 1 \in 1..n /\ k + 1 \in k + 1..n /\ (k + 1) - 1 = k
    BY <1>3
  <2>. PICK m : m = k + 1
    OBVIOUS
  <2>. PICK q : q = p[m]
    OBVIOUS
  <2>3. /\ q \in 1..Len(l) /\ q + by \in 1..Len(l)
        /\ g[m] = Town!Swap(g[k], q, q + by) \/ g[m] = Town!Swap(g[k], q + by, q)
    BY <1>1, <2>2
  <2>4. /\ q \in Ahead(k) /\ Went(k) \subseteq 1..Len(l) /\ Ahead(k) \subseteq 1..Len(l)
        /\ \A o \in Went(k) : o # q /\ o + by # q /\ o + by \in 1..Len(l)
    <3>1. ASSUME NEW j \in 1..k PROVE p[j] \in 1..Len(l) /\ p[j] + by \in 1..Len(l) /\ p[j] # q /\ p[j] + by # q
      <4>1. j \in 1..n /\ m \in 1..n /\ j < m
        BY <2>2
      <4>. QED
        BY <1>1, <4>1
    <3>2. \A j \in k + 1..n : p[j] \in 1..Len(l)
      <4>1. \A j \in k + 1..n : j \in 1..n
        OBVIOUS
      <4>. QED
        BY <1>1, <4>1
    <3>. QED
      BY <2>2, <3>1, <3>2
  <2>5. Shifted(l, g[m], Went(k) \cup {q}, Ahead(k) \ {q, q + by}, by)
    <3>1. Went(k) \subseteq Int
      BY <2>4
    <3>. HIDE DEF Went, Ahead
    <3>. QED
      BY <2>1, <2>3, <2>4, <3>1, ShiftOne
  <2>6. Went(m) \subseteq Went(k) \cup {q}
    <3>1. \A j \in 1..m : j \in 1..k \/ j = m
      OBVIOUS
    <3>. QED
      BY <3>1
  <2>7. Ahead(m) \subseteq Ahead(k) \ {q, q + by}
    <3>1. ASSUME NEW j \in m + 1..n PROVE j \in k + 1..n /\ p[j] # q /\ p[j] # q + by
      <4>1. j \in 1..n /\ m \in 1..n /\ m < j /\ j \in k + 1..n
        BY <2>2
      <4>. QED
        BY <1>1, <4>1
    <3>. QED
      BY <3>1
  <2>8. Shifted(l, g[m], Went(m), Ahead(m), by)
    <3>. HIDE DEF Went, Ahead
    <3>. QED
      BY <2>5, <2>6, <2>7 DEF Shifted
  <2>. QED
    BY <2>2, <2>8
<1>4. n \in T
  <2>1. T \subseteq 0..n
    OBVIOUS
  <2>. HIDE DEF T
  <2>2. T = 0..n
    BY <1>2, <1>3, <2>1, UpTo
  <2>. QED
    BY <2>2
<1>5. Shifted(l, g[n], Went(n), Ahead(n), by) /\ went \subseteq Went(n)
  BY <1>4 DEF AllOf
<1>. HIDE DEF Went, Ahead
<1>. QED
  BY <1>5 DEF Shifted

\* Tasks behind the first that move up, and tasks before the last that move down.
LEMMA MovedUpShifts ==
  ASSUME NEW l \in Seq(Tasks), NEW ps \in Seq(Nat \ {0}), Town!Ascending(ps),
         \A i \in DOMAIN ps : ps[i] \in 2..Len(l)
  PROVE  Shifted(l, Town!MovedUp(l, ps), {ps[j] : j \in DOMAIN ps}, {}, -1)
<1>1. PICK g : Rises(l, ps, g) /\ Town!MovedUp(l, ps) = g[Len(ps)]
  BY MovedUpIs
<1>2. g[0] = l /\ \A k \in 1..Len(ps) : g[k] = Town!Swap(g[k - 1], ps[k] - 1, ps[k])
  BY <1>1 DEF Rises
<1>3. Len(ps) \in Nat /\ DOMAIN ps = 1..Len(ps) /\ Len(l) \in Nat
  BY LenProperties
<1>4. ASSUME NEW k \in 1..Len(ps)
      PROVE  /\ ps[k] \in 1..Len(l) /\ ps[k] + (-1) \in 1..Len(l)
             /\ g[k] = Town!Swap(g[k - 1], ps[k] + (-1), ps[k])
  <2>1. ps[k] \in 2..Len(l) /\ ps[k] + (-1) = ps[k] - 1
    BY <1>3
  <2>. QED
    BY <1>2, <1>3, <2>1
<1>5. ASSUME NEW j \in 1..Len(ps), NEW k \in 1..Len(ps), j < k PROVE ps[j] # ps[k] /\ ps[j] + (-1) # ps[k]
  <2>1. ps[j] < ps[k] /\ ps[j] \in Int /\ ps[k] \in Int
    BY <1>3, <1>5 DEF Town!Ascending
  <2>. QED
    BY <2>1
<1>6. ShiftLoop(l, g, ps, Len(ps), -1)
  BY <1>2, <1>4, <1>5 DEF ShiftLoop
<1>. QED
  <2>. PICK by : by = -1
    OBVIOUS
  <2>. PICK went : went = {ps[j] : j \in DOMAIN ps}
    OBVIOUS
  <2>1. by \in {-1, 1} /\ ShiftLoop(l, g, ps, Len(ps), by)
    BY <1>6
  <2>2. AllOf(went, ps, Len(ps))
    BY <1>3 DEF AllOf
  <2>3. Shifted(l, g[Len(ps)], went, {}, by)
    BY <1>3, <2>1, <2>2, LoopShifts, Zenon
  <2>. QED
    BY <1>1, <2>3

LEMMA MovedDownShifts ==
  ASSUME NEW l \in Seq(Tasks), NEW ps \in Seq(Nat), Town!Ascending(ps),
         \A i \in DOMAIN ps : ps[i] \in 1..Len(l) /\ ps[i] + 1 \in 1..Len(l)
  PROVE  Shifted(l, Town!MovedDown(l, ps), {ps[j] : j \in DOMAIN ps}, {}, 1)
<1>1. PICK g : Sinks(l, ps, g) /\ Town!MovedDown(l, ps) = g[Len(ps)]
  BY MovedDownIs
<1>. PICK n : n = Len(ps)
  OBVIOUS
<1>2. /\ g[0] = l
      /\ \A k \in 1..n : g[k] = Town!Swap(g[k - 1], ps[n - k + 1], ps[n - k + 1] + 1)
  BY <1>1 DEF Sinks
<1>3. n \in Nat /\ DOMAIN ps = 1..n /\ Len(l) \in Nat
  BY LenProperties
<1>. PICK p : p = [k \in 1..n |-> ps[n - k + 1]]
  OBVIOUS
<1>4. \A k \in 1..n : n - k + 1 \in 1..n /\ p[k] = ps[n - k + 1]
  BY <1>3
<1>5. ASSUME NEW k \in 1..n
      PROVE  /\ p[k] \in 1..Len(l) /\ p[k] + 1 \in 1..Len(l)
             /\ g[k] = Town!Swap(g[k - 1], p[k], p[k] + 1)
  BY <1>2, <1>3, <1>4
<1>6. ASSUME NEW j \in 1..n, NEW k \in 1..n, j < k PROVE p[j] # p[k] /\ p[j] + 1 # p[k]
  <2>1. n - k + 1 < n - j + 1 /\ n - k + 1 \in 1..n /\ n - j + 1 \in 1..n
    BY <1>3, <1>6
  <2>2. ps[n - k + 1] < ps[n - j + 1] /\ ps[n - k + 1] \in Int /\ ps[n - j + 1] \in Int
    <3>1. \A a, b \in 1..n : a < b => ps[a] < ps[b]
      BY <1>3, Zenon DEF Town!Ascending
    <3>2. \A a \in 1..n : ps[a] \in Int
      BY <1>3
    <3>. QED
      BY <2>1, <3>1, <3>2, Zenon
  <2>. QED
    BY <1>4, <2>2
<1>7. ShiftLoop(l, g, p, n, 1)
  BY <1>2, <1>5, <1>6 DEF ShiftLoop
<1>8. ASSUME NEW j \in 1..n PROVE \E k \in 1..n : ps[j] = p[k]
  <2>1. n - j + 1 \in 1..n /\ n - (n - j + 1) + 1 = j
    BY <1>3
  <2>2. p[n - j + 1] = ps[n - (n - j + 1) + 1]
    BY <1>4, <2>1, Zenon
  <2>. QED
    BY <2>1, <2>2
<1>. QED
  <2>. PICK by : by = 1
    OBVIOUS
  <2>. PICK went : went = {ps[j] : j \in DOMAIN ps}
    OBVIOUS
  <2>1. by \in {-1, 1} /\ ShiftLoop(l, g, p, n, by)
    BY <1>7
  <2>2. ASSUME NEW o \in went PROVE \E j \in 1..n : o = p[j]
    <3>1. PICK j \in 1..n : o = ps[j]
      BY <1>3
    <3>. QED
      BY <1>8, <3>1
  <2>3. AllOf(went, p, n)
    BY <2>2 DEF AllOf
  <2>4. Shifted(l, g[n], went, {}, by)
    BY <1>3, <2>1, <2>3, LoopShifts
  <2>. QED
    BY <1>1, <2>4

\* A worklist that is not too long is in the mirror as it was sent.
LEMMA SentWhole ==
  ASSUME CityParams, CityInv, shown \in Cities, city[shown].here, NEW l \in Seq(Tasks), Len(l) = Len(Town!List),
         NEW before, Town!Send(l, before)
  PROVE  city'[shown].list = l /\ sent' = before \o <<Town!Req("worklist", "")>>
<1>0. sent' = before \o <<Town!Req("worklist", "")>>
  BY Zenon DEF Town!Send
<1>1. /\ city' = [city EXCEPT ![shown].list = Town!Cut(l)]
      /\ city \in [Cities -> Town!CityRec] /\ MaxLen \in Nat /\ Len(Town!List) <= MaxLen
  BY DEF Town!Send, CityInv, CityParams, Towns, Town!NeverTooLong, Town!List
<1>2. Town!Cut(l) = l
  <2>1. Len(l) \in Nat
    BY LenProperties
  <2>2. Town!Lowest(Len(l), MaxLen) = Len(l)
    BY <1>1, <2>1 DEF Town!Lowest
  <2>3. SubSeq(l, 1, Len(l)) = l
    BY SubSeqFull
  <2>. QED
    BY <2>2, <2>3 DEF Town!Cut
<1>3. city'[shown] = [city[shown] EXCEPT !.list = l]
  BY <1>1, <1>2
<1>4. city[shown] \in Town!CityRec
  BY <1>1
<1>5. city'[shown].list = l
  BY <1>3, <1>4 DEF Town!CityRec
<1>. QED
  BY <1>0, <1>5, Zenon

\* What the dialog shows is chosen: tasks of the worklist, in order.
LEMMA ChosenTasks ==
  ASSUME CityInv, fresh
  PROVE  /\ shown \in Cities /\ Town!List \in Seq(Tasks) /\ city[shown].making \in Tasks
         /\ chosen \in Seq(Positions) /\ Town!Ascending(chosen)
         /\ \A i \in DOMAIN chosen : chosen[i] \in 1..Len(Town!List)
<1>1. /\ shown \in Cities /\ Towns /\ chosen \in Seq(Positions) /\ Town!Ascending(chosen)
      /\ \A i \in DOMAIN chosen : chosen[i] \in DOMAIN Town!List
  BY DEF CityInv, Drawn, Chosen
<1>2. Town!List \in Seq(Tasks) /\ city[shown].making \in Tasks
  BY <1>1, ListIs DEF Town!List
<1>3. DOMAIN Town!List = 1..Len(Town!List)
  BY <1>2, LenProperties
<1>. QED
  BY <1>1, <1>2, <1>3

\* Nothing is lost, and the tasks that stay chosen are the ones that were.
NoneLost(asked, after, ch) ==
  /\ AsMany(<<asked>> \o after, <<city[shown].making>> \o Town!List)
  /\ \A i \in 1..Len(ch) : after[ch[i]] = Town!List[chosen[i + Len(chosen) - Len(ch)]]

\* Positions that all change by one are as many.
LEMMA ByOne ==
  ASSUME NEW s \in Seq(Nat), NEW f(_), NEW t, t = [i \in DOMAIN s |-> f(s[i])]
  PROVE  Len(t) = Len(s) /\ \A i \in 1..Len(s) : t[i] = f(s[i])
<1>1. DOMAIN s = 1..Len(s) /\ Len(s) \in Nat
  BY LenProperties
<1>2. t \in [1..Len(s) -> {f(s[i]) : i \in DOMAIN s}]
  BY <1>1
<1>3. t \in Seq({f(s[i]) : i \in DOMAIN s})
  BY <1>1, <1>2, SeqDef
<1>4. Len(t) = Len(s)
  BY <1>1, <1>2, <1>3, LenProperties
<1>. QED
  BY <1>1, <1>4

LEMMA OneRequest == ASSUME NEW x PROVE <<>> \o <<x>> = <<x>>
<1>1. <<x>> \in Seq({x})
  OBVIOUS
<1>. QED
  BY <1>1, ConcatEmptySeq

\* A request for the worklist asks for nothing else to be made.
LEMMA AskedMaking ==
  ASSUME sent' = <<>> \/ sent' = <<>> \o <<Town!Req("worklist", "")>>
  PROVE  Town!Asked = city[shown].making
<1>1. CASE sent' = <<>>
  BY <1>1 DEF Town!Asked
<1>2. CASE sent' = <<>> \o <<Town!Req("worklist", "")>>
  <2>1. sent' = <<Town!Req("worklist", "")>>
    BY <1>2, OneRequest, Zenon
  <2>2. sent'[1][1] = "worklist"
    BY <2>1 DEF Town!Req
  <2>. QED
    BY <2>2 DEF Town!Asked
<1>. QED
  BY <1>1, <1>2

LEMMA DownMoves ==
  ASSUME CityParams, CityInv, fresh, city[shown].here, Town!CityWorklistTaskDown
  PROVE  NoneLost(Town!Asked, city'[shown].list, chosen')
<1>1. /\ shown \in Cities /\ Town!List \in Seq(Tasks) /\ city[shown].making \in Tasks
      /\ chosen \in Seq(Positions) /\ Town!Ascending(chosen)
      /\ \A i \in DOMAIN chosen : chosen[i] \in 1..Len(Town!List)
  BY ChosenTasks
<1>2. /\ Len(chosen) \in Nat /\ DOMAIN chosen = 1..Len(chosen) /\ chosen \in Seq(Nat) /\ Len(Town!List) \in Nat
      /\ chosen \in Seq(Nat \ {0})
  BY <1>1, LenProperties, SeqDef DEF Positions
<1>3. /\ chosen # <<>>
      /\ \/ chosen' = chosen /\ city' = city /\ sent' = <<>>
         \/ /\ chosen[Len(chosen)] # Len(Town!List)
            /\ Town!Send(Town!MovedDown(Town!List, chosen), <<>>) /\ chosen' = [i \in DOMAIN chosen |-> chosen[i] + 1]
  BY Zenon DEF Town!CityWorklistTaskDown, Town!NothingSent, Town!Last
<1>4. CASE chosen' = chosen /\ city' = city /\ sent' = <<>>
  <2>1. Town!Asked = city[shown].making
    BY <1>4, AskedMaking
  <2>2. \A i \in 1..Len(chosen) : i + Len(chosen) - Len(chosen) = i
    BY <1>2
  <2>. QED
    BY <1>4, <2>1, <2>2 DEF NoneLost, AsMany, Town!List
<1>5. CASE /\ chosen[Len(chosen)] # Len(Town!List)
           /\ Town!Send(Town!MovedDown(Town!List, chosen), <<>>) /\ chosen' = [i \in DOMAIN chosen |-> chosen[i] + 1]
  <2>1. ASSUME NEW i \in DOMAIN chosen PROVE chosen[i] \in 1..Len(Town!List) /\ chosen[i] + 1 \in 1..Len(Town!List)
    <3>1. i = Len(chosen) \/ i < Len(chosen)
      BY <1>2
    <3>2. Len(chosen) \in DOMAIN chosen
      BY <1>2
    <3>3. chosen[Len(chosen)] \in 1..Len(Town!List) /\ chosen[i] \in 1..Len(Town!List)
      BY <1>1, <3>2
    <3>4. i < Len(chosen) => chosen[i] < chosen[Len(chosen)]
      BY <1>1, <3>2 DEF Town!Ascending
    <3>. QED
      BY <1>2, <1>5, <3>1, <3>3, <3>4
  <2>. PICK q : q = Town!MovedDown(Town!List, chosen)
    OBVIOUS
  <2>2. Shifted(Town!List, q, {chosen[j] : j \in DOMAIN chosen}, {}, 1)
    BY <1>1, <1>2, <2>1, MovedDownShifts
  <2>3. q \in Seq(Tasks) /\ Len(q) = Len(Town!List) /\ AsMany(q, Town!List)
        /\ \A j \in DOMAIN chosen : q[chosen[j] + 1] = Town!List[chosen[j]]
    BY <2>2 DEF Shifted
  <2>a. city'[shown].list = q /\ sent' = <<>> \o <<Town!Req("worklist", "")>>
    BY <1>1, <1>5, <2>3, SentWhole, Zenon
  <2>4. city'[shown].list = q
    BY <2>a, Zenon
  <2>5. Town!Asked = city[shown].making
    BY <2>a, AskedMaking, Zenon
  <2>6. AsMany(<<city[shown].making>> \o q, <<city[shown].making>> \o Town!List)
    BY <1>1, <2>3, BehindCounts
  <2>7. Len(chosen') = Len(chosen) /\ \A i \in 1..Len(chosen) : chosen'[i] = chosen[i] + 1
    <3>. PICK t : t = chosen'
      OBVIOUS
    <3>1. t = [i \in DOMAIN chosen |-> chosen[i] + 1]
      BY <1>5
    <3> DEFINE f(n) == n + 1
    <3>2. t = [i \in DOMAIN chosen |-> f(chosen[i])]
      BY <3>1
    <3>. HIDE DEF f
    <3>3. Len(t) = Len(chosen) /\ \A i \in 1..Len(chosen) : t[i] = f(chosen[i])
      BY <1>2, <3>2, ByOne
    <3>. QED
      BY <3>3 DEF f
  <2>8. \A i \in 1..Len(chosen) : i + Len(chosen) - Len(chosen) = i
    BY <1>2
  <2>9. \A i \in 1..Len(chosen') : q[chosen'[i]] = Town!List[chosen[i + Len(chosen) - Len(chosen')]]
    BY <1>2, <2>3, <2>7, <2>8
  <2>. QED
    BY <2>4, <2>5, <2>6, <2>9, Zenon DEF NoneLost
<1>. QED
  BY <1>3, <1>4, <1>5

\* The first task changes places with what the city makes.
LEMMA FirstChanges ==
  ASSUME NEW l \in Seq(Tasks), l # <<>>, NEW making \in Tasks
  PROVE  /\ Town!Put(l, 1, making) \in Seq(Tasks) /\ Len(Town!Put(l, 1, making)) = Len(l)
         /\ \A i \in 2..Len(l) : Town!Put(l, 1, making)[i] = l[i]
         /\ AsMany(<<l[1]>> \o Town!Put(l, 1, making), <<making>> \o l)
<1>. PICK p : p = Town!Put(l, 1, making)
  OBVIOUS
<1>1. Len(l) \in Nat /\ Len(l) # 0 /\ DOMAIN l = 1..Len(l) /\ l[1] \in Tasks
  <2>1. Len(l) \in Nat /\ DOMAIN l = 1..Len(l) /\ Len(l) # 0
    BY LenProperties, EmptySeq
  <2>. QED
    BY <2>1, ElementOfSeq
<1>2. p \in Seq(Tasks) /\ Len(p) = Len(l) /\ p[1] = making /\ \A i \in 2..Len(l) : p[i] = l[i]
  <2>1. p \in Seq(Tasks) /\ Len(p) = IF 1 > Len(l) THEN 1 ELSE Len(l)
    BY PutIs
  <2>2. Written(l, 1, making, p)
    BY PutIs
  <2>3. Len(p) = Len(l)
    BY <1>1, <2>1
  <2>. QED
    BY <1>1, <2>1, <2>2, <2>3 DEF Written, Town!At
<1>3. ASSUME NEW y \in Tasks, NEW c \in Seq(Tasks), NEW d, d = <<y>> \o c
      PROVE  DOMAIN d = 1..1 + Len(c) /\ d[1] = y /\ \A i \in 2..1 + Len(c) : d[i] = c[i - 1]
  <2>1. <<y>> \in Seq(Tasks) /\ Len(<<y>>) = 1 /\ <<y>>[1] = y
    OBVIOUS
  <2>2. /\ d \in Seq(Tasks) /\ Len(d) = 1 + Len(c)
        /\ \A i \in 1..1 + Len(c) : d[i] = IF i <= 1 THEN <<y>>[i] ELSE c[i - 1]
    BY <1>3, <2>1, ConcatProperties
  <2>3. Len(c) \in Nat /\ DOMAIN d = 1..1 + Len(c)
    BY <2>2, LenProperties
  <2>4. d[1] = y
    BY <2>1, <2>2, <2>3
  <2>5. \A i \in 2..1 + Len(c) : d[i] = c[i - 1]
    BY <2>2, <2>3
  <2>. QED
    BY <2>3, <2>4, <2>5
<1>. PICK a : a = <<making>> \o l
  OBVIOUS
<1>. PICK b : b = <<l[1]>> \o p
  OBVIOUS
<1>4. DOMAIN a = 1..1 + Len(l) /\ a[1] = making /\ \A i \in 2..1 + Len(l) : a[i] = l[i - 1]
  BY <1>3
<1>5. DOMAIN b = 1..1 + Len(l) /\ b[1] = l[1] /\ \A i \in 2..1 + Len(l) : b[i] = p[i - 1]
  <2>1. DOMAIN b = 1..1 + Len(p) /\ b[1] = l[1] /\ \A i \in 2..1 + Len(p) : b[i] = p[i - 1]
    BY <1>1, <1>2, <1>3
  <2>. QED
    BY <1>2, <2>1
<1>6. Exchange(a, b, 1, 2)
  <2>1. 1 \in DOMAIN a /\ 2 \in DOMAIN a /\ DOMAIN b = DOMAIN a
    BY <1>1, <1>4, <1>5
  <2>2. a[2] = l[1] /\ b[2] = making
    BY <1>1, <1>2, <1>4, <1>5
  <2>3. ASSUME NEW k \in DOMAIN a, k # 1, k # 2 PROVE b[k] = a[k]
    <3>1. k \in 2..1 + Len(l) /\ k - 1 \in 2..Len(l)
      BY <1>1, <1>4, <2>3
    <3>. QED
      BY <1>2, <1>4, <1>5, <3>1
  <2>. QED
    BY <1>4, <1>5, <2>1, <2>2, <2>3 DEF Exchange
<1>7. AsMany(b, a)
  <2>1. 1 + Len(l) \in Nat
    BY <1>1
  <2>. QED
    BY <1>4, <1>6, <2>1, ExchangeCounts
<1>. QED
  BY <1>2, <1>7

\* The first of two.
LEMMA FirstOfTwo == ASSUME NEW a, NEW b PROVE (<<a>> \o <<b>>)[1] = a /\ <<a>> \o <<b>> # <<>>
<1>1. <<a>> \in Seq({a, b}) /\ <<b>> \in Seq({a, b}) /\ Len(<<a>>) = 1 /\ Len(<<b>>) = 1 /\ <<a>>[1] = a
  OBVIOUS
<1>. PICK s : s = <<a>> \o <<b>>
  OBVIOUS
<1>2. /\ s \in Seq({a, b}) /\ Len(s) = 1 + 1
      /\ \A i \in 1..1 + 1 : s[i] = IF i <= 1 THEN <<a>>[i] ELSE <<b>>[i - 1]
  BY <1>1, ConcatProperties
<1>3. s[1] = a
  BY <1>1, <1>2
<1>4. Len(s) # 0
  BY <1>2
<1>. QED
  BY <1>3, <1>4, EmptySeq

\* A request for another production, and one for the worklist.
LEMMA AskedFirst ==
  ASSUME NEW x, sent' = <<Town!Req("change", x)>> \o <<Town!Req("worklist", "")>>
  PROVE  Town!Asked = x
<1>. PICK a : a = Town!Req("change", x)
  OBVIOUS
<1>. PICK b : b = Town!Req("worklist", "")
  OBVIOUS
<1>1. a[1] = "change" /\ a[3] = x
  <2>1. Town!Req("change", x)[1] = "change" /\ Town!Req("change", x)[3] = x
    BY DEF Town!Req
  <2>. QED
    BY <2>1, Zenon
<1>2. sent' = <<a>> \o <<b>>
  BY Zenon
<1>3. sent' # <<>> /\ sent'[1] = a
  BY <1>2, FirstOfTwo, Zenon
<1>. QED
  BY <1>1, <1>3, Zenon DEF Town!Asked

LEMMA UpMoves ==
  ASSUME CityParams, CityInv, fresh, city[shown].here, Town!Hole \notin Town!Range(Town!List), Town!CityWorklistTaskUp
  PROVE  NoneLost(Town!Asked, city'[shown].list, chosen')
<1>1. /\ shown \in Cities /\ Town!List \in Seq(Tasks) /\ city[shown].making \in Tasks
      /\ chosen \in Seq(Positions) /\ Town!Ascending(chosen)
      /\ \A i \in DOMAIN chosen : chosen[i] \in 1..Len(Town!List)
  BY ChosenTasks
<1>. PICK l : l = Town!List
  OBVIOUS
<1>. PICK making : making = city[shown].making
  OBVIOUS
<1>. PICK first : first = (Head(chosen) = 1)
  OBVIOUS
<1>. PICK rest : rest = IF Head(chosen) = 1 THEN Tail(chosen) ELSE chosen
  OBVIOUS
<1>. PICK swaps : swaps = (Head(chosen) = 1 /\ Town!At(l, 1) # making)
  OBVIOUS
<1>. PICK top : top = IF Head(chosen) = 1 /\ Town!At(l, 1) # making THEN Town!Put(l, 1, making) ELSE l
  OBVIOUS
<1>2. /\ chosen # <<>>
      /\ \/ Head(chosen) = 1 /\ Town!At(l, 1) = Town!Hole
         \/ /\ chosen' = [i \in DOMAIN rest |-> rest[i] - 1]
            /\ Town!Send(Town!MovedUp(top, rest),
                         IF Head(chosen) = 1 /\ Town!At(l, 1) # making THEN <<Town!Req("change", l[1])>> ELSE <<>>)
  BY Zenon DEF Town!CityWorklistTaskUp
<1>3. /\ Len(chosen) \in Nat \ {0} /\ DOMAIN chosen = 1..Len(chosen) /\ Len(l) \in Nat /\ DOMAIN l = 1..Len(l)
      /\ Head(chosen) = chosen[1]
  <2>1. Len(chosen) \in Nat /\ DOMAIN chosen = 1..Len(chosen) /\ Len(chosen) # 0
    BY <1>1, <1>2, LenProperties, EmptySeq
  <2>2. Len(l) \in Nat /\ DOMAIN l = 1..Len(l)
    BY <1>1, LenProperties
  <2>3. Head(chosen) = chosen[1]
    BY <1>1, <1>2, SequenceIs, Rested
  <2>. QED
    BY <2>1, <2>2, <2>3
<1>4. /\ Len(rest) = (IF Head(chosen) = 1 THEN Len(chosen) - 1 ELSE Len(chosen)) /\ rest \in Seq(Nat \ {0})
      /\ Town!Ascending(rest) /\ DOMAIN rest = 1..Len(rest)
      /\ \A i \in 1..Len(rest) : /\ i + Len(chosen) - Len(rest) \in DOMAIN chosen
                                 /\ rest[i] = chosen[i + Len(chosen) - Len(rest)] /\ rest[i] > 1
  <2>1. /\ Tail(chosen) \in Seq(Positions) /\ Town!Ascending(Tail(chosen)) /\ Head(chosen) \in Positions
        /\ (\A i \in DOMAIN Tail(chosen) : Tail(chosen)[i] > Head(chosen))
        /\ \A i \in DOMAIN chosen : chosen[i] >= Head(chosen)
    BY <1>1, <1>2, RestAscends
  <2>2. CASE Head(chosen) = 1
    <3>. PICK t : t = Tail(chosen)
      OBVIOUS
    <3>1. t \in Seq(Positions) /\ Town!Ascending(t) /\ \A i \in DOMAIN t : t[i] > 1
      BY <2>1, <2>2
    <3>2. DOMAIN t = 1..Len(chosen) - 1 /\ \A i \in 1..Len(chosen) - 1 : t[i] = chosen[i + 1]
      BY <1>1, <1>2, SequenceIs, Rested
    <3>3. Len(t) = Len(chosen) - 1
      BY <1>3, <3>1, <3>2, LenProperties
    <3>4. \A i \in 1..Len(t) : i + Len(chosen) - Len(t) = i + 1 /\ i + 1 \in DOMAIN chosen
      BY <1>3, <3>3
    <3>5. rest = t
      BY <2>2
    <3>. QED
      BY <2>2, <3>1, <3>2, <3>3, <3>4, <3>5 DEF Positions
  <2>3. CASE Head(chosen) # 1
    <3>1. rest = chosen
      BY <2>3
    <3>2. \A i \in 1..Len(chosen) : i + Len(chosen) - Len(chosen) = i
      BY <1>3
    <3>3. \A i \in DOMAIN chosen : chosen[i] \in Nat /\ chosen[i] > 1
      BY <1>1, <2>1, <2>3 DEF Positions
    <3>. QED
      BY <1>1, <1>3, <2>3, <3>1, <3>2, <3>3 DEF Positions
  <2>. QED
    BY <2>2, <2>3
<1>5. Head(chosen) = 1 => /\ Town!At(l, 1) = l[1] /\ l[1] # Town!Hole /\ l # <<>> /\ l[1] \in Tasks
  <2>1. SUFFICES ASSUME Head(chosen) = 1 PROVE 1 \in DOMAIN l
    <3>1. 1 \in DOMAIN l => l # <<>> /\ l[1] \in Tasks
      BY <1>1, <1>3, ElementOfSeq, EmptySeq
    <3>. QED
      BY <3>1 DEF Town!At, Town!Range
  <2>. QED
    BY <1>1, <1>3, <2>1
<1>6. top \in Seq(Tasks) /\ Len(top) = Len(l) /\ \A i \in 2..Len(l) : top[i] = l[i]
  BY <1>1, <1>5, FirstChanges
<1>7. ASSUME NEW i \in 1..Len(rest) PROVE rest[i] \in 2..Len(l)
  <2>1. rest[i] = chosen[i + Len(chosen) - Len(rest)] /\ i + Len(chosen) - Len(rest) \in DOMAIN chosen /\ rest[i] > 1
    BY <1>4
  <2>2. rest[i] \in 1..Len(l)
    BY <1>1, <2>1, Zenon
  <2>. QED
    BY <1>3, <2>1, <2>2
<1>. PICK q : q = Town!MovedUp(top, rest)
  OBVIOUS
<1>8. Shifted(top, q, {rest[j] : j \in DOMAIN rest}, {}, -1)
  BY <1>4, <1>6, <1>7, MovedUpShifts
<1>9. /\ q \in Seq(Tasks) /\ Len(q) = Len(l) /\ AsMany(q, top)
      /\ \A j \in 1..Len(rest) : q[rest[j] + (-1)] = l[rest[j]]
  <2>1. /\ q \in Seq(Tasks) /\ Len(q) = Len(top) /\ AsMany(q, top)
        /\ \A p \in {rest[j] : j \in DOMAIN rest} : q[p + (-1)] = top[p]
    BY <1>8, Zenon DEF Shifted
  <2>2. ASSUME NEW j \in 1..Len(rest) PROVE q[rest[j] + (-1)] = l[rest[j]]
    <3>1. rest[j] \in {rest[k] : k \in DOMAIN rest}
      BY <1>4
    <3>2. q[rest[j] + (-1)] = top[rest[j]]
      BY <2>1, <3>1, Zenon
    <3>3. top[rest[j]] = l[rest[j]]
      BY <1>6, <1>7, Zenon
    <3>. QED
      BY <3>2, <3>3, Zenon
  <2>. QED
    BY <1>6, <2>1, <2>2, Zenon
<1>10. /\ chosen' = [i \in DOMAIN rest |-> rest[i] - 1]
       /\ Town!Send(q, IF Head(chosen) = 1 /\ Town!At(l, 1) # making THEN <<Town!Req("change", l[1])>> ELSE <<>>)
  BY <1>2, <1>5, Zenon
<1>11. city'[shown].list = q /\ AsMany(<<Town!Asked>> \o q, <<making>> \o l)
  <2>1. CASE Head(chosen) = 1 /\ Town!At(l, 1) # making
    <3>1. Town!Send(q, <<Town!Req("change", l[1])>>)
      BY <1>10, <2>1, Zenon
    <3>2. city'[shown].list = q /\ sent' = <<Town!Req("change", l[1])>> \o <<Town!Req("worklist", "")>>
      BY <1>1, <1>9, <3>1, SentWhole, Zenon
    <3>3. Town!Asked = l[1]
      BY <3>2, AskedFirst, Zenon
    <3>4. AsMany(<<l[1]>> \o q, <<l[1]>> \o top)
      BY <1>5, <1>6, <1>9, <2>1, BehindCounts
    <3>5. AsMany(<<l[1]>> \o top, <<making>> \o l)
      BY <1>1, <1>5, <2>1, FirstChanges
    <3>6. AsMany(<<l[1]>> \o q, <<making>> \o l)
      BY <3>4, <3>5, AsManyOf
    <3>. QED
      BY <3>2, <3>3, <3>6, Zenon
  <2>2. CASE ~(Head(chosen) = 1 /\ Town!At(l, 1) # making)
    <3>1. Town!Send(q, <<>>) /\ top = l
      BY <1>10, <2>2, Zenon
    <3>2. city'[shown].list = q /\ sent' = <<>> \o <<Town!Req("worklist", "")>>
      BY <1>1, <1>9, <3>1, SentWhole, Zenon
    <3>3. Town!Asked = making
      BY <3>2, AskedMaking, Zenon
    <3>4. AsMany(<<making>> \o q, <<making>> \o l)
      BY <1>1, <1>9, <3>1, BehindCounts
    <3>. QED
      BY <3>2, <3>3, <3>4, Zenon
  <2>. QED
    BY <2>1, <2>2
<1>12. Len(chosen') = Len(rest) /\ \A i \in 1..Len(rest) : chosen'[i] = rest[i] - 1
  <2>. PICK t : t = chosen'
    OBVIOUS
  <2>1. t = [i \in DOMAIN rest |-> rest[i] - 1]
    BY <1>10
  <2> DEFINE f(n) == n - 1
  <2>2. t = [i \in DOMAIN rest |-> f(rest[i])]
    BY <2>1
  <2>. HIDE DEF f
  <2>3. rest \in Seq(Nat)
    BY <1>4, SeqDef
  <2>4. Len(t) = Len(rest) /\ \A i \in 1..Len(rest) : t[i] = f(rest[i])
    BY <2>2, <2>3, ByOne
  <2>. QED
    BY <2>4 DEF f
<1>13. \A i \in 1..Len(chosen') : q[chosen'[i]] = l[chosen[i + Len(chosen) - Len(chosen')]]
  <2>1. ASSUME NEW i \in 1..Len(rest) PROVE q[chosen'[i]] = l[chosen[i + Len(chosen) - Len(rest)]]
    <3>1. chosen'[i] = rest[i] + (-1)
      BY <1>7, <1>12
    <3>2. q[rest[i] + (-1)] = l[rest[i]] /\ rest[i] = chosen[i + Len(chosen) - Len(rest)]
      BY <1>4, <1>9
    <3>. QED
      BY <3>1, <3>2, Zenon
  <2>. QED
    BY <1>12, <2>1, Zenon
<1>. QED
  BY <1>11, <1>13, Zenon DEF NoneLost

\* Whatever is chosen and moved: moving tasks up or down, the first one into what
\* the city makes, loses and doubles none, and the tasks that stay chosen are the
\* same ones (city_worklist_task_up, _task_down).
THEOREM MovesLoseNothing == ASSUME CityParams PROVE Town!Spec => [][Town!MovesOnly]_Town!vars
<1>1. Town!Init => CityInv
  BY CityInit
<1>2. CityInv /\ [Town!Next]_Town!vars => CityInv'
  BY CityStep, CityStutters
<1>3. CityInv => [Town!MovesOnly]_Town!vars
  <2>1. SUFFICES ASSUME CityInv, fresh, city[shown].here, Town!Hole \notin Town!Range(Town!List),
                        Town!CityWorklistTaskUp \/ Town!CityWorklistTaskDown
                 PROVE  LET after == city'[shown].list
                            kept == Len(chosen')
                            old(i) == Town!List[chosen[i + Len(chosen) - kept]]
                        IN  /\ \A x \in Town!Items \cup {Town!Hole} :
                                 Town!Count(x, <<Town!Asked>> \o after)
                                   = Town!Count(x, <<city[shown].making>> \o Town!List)
                            /\ \A i \in 1..kept : after[chosen'[i]] = old(i)
    BY Zenon DEF Town!MovesOnly
  <2>2. NoneLost(Town!Asked, city'[shown].list, chosen')
    BY <2>1, UpMoves, DownMoves
  <2>. QED
    BY <2>2, Zenon DEF NoneLost, AsMany
<1>. QED
  BY <1>1, <1>2, <1>3, PTL DEF Town!Spec

-----------------------------------------------------------------------------
(* Orders for the units in focus.                                          *)

CONSTANTS Units, Tiles, Founders, Foreign, Records, Gone
VARIABLES unit, focus, modes, paths

Orders == INSTANCE UnitOrders

LEMMA OrdersLists ==
  /\ \A s : Orders!FlattenSeq(s) = FlattenSeq(s)
  /\ \A S : Orders!Cardinality(S) = Cardinality(S)
BY DEF Orders!FlattenSeq, FlattenSeq, Orders!Cardinality, Cardinality

\* What is needed of the parameters: the server's reports are of units, and a
\* unit that is gone is none.
OrdersParams ==
  /\ IsFiniteSet(Units) /\ Gone \notin Orders!UnitRec
  /\ Records \subseteq Orders!UnitRec

\* The units that are mirrored.
Living == {u \in Units : unit[u] # Gone}

\* The invariant.
Mirrored == unit \in [Units -> Orders!UnitRec \cup {Gone}]
Focused == focus \in Seq(Units) /\ \A i \in DOMAIN focus : focus[i] \in Living
Gotos == /\ modes \subseteq Orders!Modes /\ touch \in BOOLEAN
         /\ paths \subseteq Units \X Tiles /\ Orders!PathsOnlyInGoto
OrdersInv == Mirrored /\ Focused /\ Gotos

-----------------------------------------------------------------------------
(* Sequences of requests.                                                   *)

\* What a unit does next.
Does == {"idle", "work"}

\* A request of kind k for u comes before the i-th one.
Told(s, k, u, i) == \E j \in 1..i - 1 : s[j].k = k /\ s[j].u = u

\* Whatever a unit does next, its orders and its decision are over before; no
\* paths are asked for.
Fine(s) ==
  /\ IsSeq(s)
  /\ \A i \in DOMAIN s :
       /\ s[i].k # "path"
       /\ s[i].k \in Does => /\ Told(s, "cancel", s[i].u, i)
                             /\ unit[s[i].u].want => Told(s, "unqueue", s[i].u, i)

\* Requests that neither ask for paths nor say what a unit does next.
Plain(s) == IsSeq(s) /\ \A i \in DOMAIN s : s[i].k # "path" /\ s[i].k \notin Does

LEMMA PlainFine == ASSUME NEW s, Plain(s) PROVE Fine(s)
BY DEF Plain, Fine

\* What follows the first of two sequences is the second.
Ends(c, a, b) ==
  /\ \A i \in DOMAIN c : i \in DOMAIN a \/ (i - Len(a) \in DOMAIN b /\ c[i] = b[i - Len(a)])
  /\ \A j \in DOMAIN b : c[Len(a) + j] = b[j]

\* The requests of two sequences are the requests of both, one after the other.
LEMMA JoinIs ==
  ASSUME NEW a, IsSeq(a), NEW b, IsSeq(b), NEW c, c = a \o b
  PROVE  IsSeq(c) /\ DOMAIN a = 1..Len(a) /\ Len(a) \in Nat /\ Begins(c, a) /\ Ends(c, a, b)
<1>1. IsSeq(a \o b) /\ Len(a \o b) = Len(a) + Len(b)
  BY Joined
<1>2. \A i \in 1..Len(a) : (a \o b)[i] = a[i]
  BY Joined
<1>3. \A i \in 1..Len(b) : (a \o b)[Len(a) + i] = b[i]
  BY Joined
<1>4. /\ Len(a) \in Nat /\ Len(b) \in Nat /\ DOMAIN a = 1..Len(a) /\ DOMAIN b = 1..Len(b)
      /\ DOMAIN c = 1..Len(a) + Len(b)
  BY <1>1, SequenceHas
<1>5. ASSUME NEW i \in DOMAIN c, i \notin DOMAIN a PROVE i - Len(a) \in DOMAIN b /\ c[i] = b[i - Len(a)]
  <2>1. i - Len(a) \in 1..Len(b) /\ Len(a) + (i - Len(a)) = i
    BY <1>4, <1>5
  <2>. QED
    BY <1>3, <1>4, <2>1
<1>6. Begins(c, a)
  BY <1>2, <1>4 DEF Begins
<1>7. Ends(c, a, b)
  BY <1>3, <1>4, <1>5 DEF Ends
<1>. QED
  BY <1>1, <1>4, <1>6, <1>7

LEMMA FineJoin == ASSUME NEW a, Fine(a), NEW b, Fine(b) PROVE Fine(a \o b)
<1>. PICK c : c = a \o b
  OBVIOUS
<1>1. IsSeq(c) /\ Begins(c, a) /\ DOMAIN a = 1..Len(a) /\ Len(a) \in Nat /\ Ends(c, a, b)
  BY JoinIs DEF Fine
<1>2. DOMAIN b = 1..Len(b) /\ Len(b) \in Nat /\ \A j \in 1..Len(b) : c[Len(a) + j] = b[j]
  <2>1. DOMAIN b = 1..Len(b) /\ Len(b) \in Nat
    BY SequenceHas DEF Fine
  <2>. QED
    BY <1>1, <2>1 DEF Ends
<1>3. ASSUME NEW i \in DOMAIN a
      PROVE  c[i] = a[i] /\ \A k, u : Told(a, k, u, i) => Told(c, k, u, i)
  <2>1. c[i] = a[i] /\ \A j \in 1..i - 1 : c[j] = a[j]
    BY <1>1, <1>3 DEF Begins
  <2>. QED
    BY <2>1 DEF Told
<1>4. ASSUME NEW m \in DOMAIN b
      PROVE  c[Len(a) + m] = b[m] /\ \A k, u : Told(b, k, u, m) => Told(c, k, u, Len(a) + m)
  <2>1. ASSUME NEW k, NEW u, Told(b, k, u, m) PROVE Told(c, k, u, Len(a) + m)
    <3>1. PICK j \in 1..m - 1 : b[j].k = k /\ b[j].u = u
      BY <2>1 DEF Told
    <3>2. j \in 1..Len(b) /\ Len(a) + j \in 1..(Len(a) + m) - 1
      BY <1>1, <1>2, <1>4
    <3>3. c[Len(a) + j] = b[j]
      BY <1>2, <3>2
    <3>. QED
      BY <3>1, <3>2, <3>3 DEF Told
  <2>. QED
    BY <1>2, <1>4, <2>1
<1>5. ASSUME NEW i \in DOMAIN c
      PROVE  /\ c[i].k # "path"
             /\ c[i].k \in Does => /\ Told(c, "cancel", c[i].u, i)
                                   /\ unit[c[i].u].want => Told(c, "unqueue", c[i].u, i)
  <2>1. CASE i \in DOMAIN a
    BY <1>3, <2>1 DEF Fine
  <2>2. CASE i \notin DOMAIN a
    <3>. PICK m : m = i - Len(a)
      OBVIOUS
    <3>1. m \in DOMAIN b /\ c[i] = b[m] /\ i = Len(a) + m
      <4>1. i \in Nat
        BY <1>1, SequenceHas
      <4>. QED
        BY <1>1, <2>2, <4>1 DEF Ends
    <3>2. \A k, u : Told(b, k, u, m) => Told(c, k, u, i)
      BY <1>4, <3>1
    <3>. QED
      BY <3>1, <3>2 DEF Fine
  <2>. QED
    BY <2>1, <2>2
<1>6. Fine(c)
  BY <1>1, <1>5 DEF Fine
<1>. QED
  BY <1>6

LEMMA NoneIs == Plain(<<>>) /\ Fine(<<>>)
<1>1. Plain(<<>>)
  BY EmptyIs DEF Plain
<1>. QED
  BY <1>1, PlainFine

\* So are the requests for one unit after those for another.
LEMMA FlattenFine ==
  ASSUME NEW s, IsSeq(s), \A k \in DOMAIN s : Fine(s[k])
  PROVE  Fine(Orders!FlattenSeq(s))
<1> DEFINE S == UNION {{s[k][i] : i \in DOMAIN s[k]} : k \in DOMAIN s}
           G == {t \in Seq(S) : Fine(t)}
<1>1. \A k \in DOMAIN s : IsSeq(s[k])
  BY DEF Fine
<1>2. ASSUME NEW k \in DOMAIN s PROVE s[k] \in G
  <2>1. s[k] \in Seq({s[k][i] : i \in DOMAIN s[k]})
    BY <1>1 DEF IsSeq
  <2>2. {s[k][i] : i \in DOMAIN s[k]} \subseteq S
    OBVIOUS
  <2>3. s[k] \in Seq(S)
    <3>. HIDE DEF S
    <3>. QED
      BY <2>1, <2>2, SeqDef
  <2>. HIDE DEF S
  <2>. QED
    BY <2>3
<1>. HIDE DEF S
<1>3. \A a, b \in G : a \o b \in G
  BY FineJoin, ConcatProperties
<1>4. <<>> \in G
  BY NoneIs, EmptySeq
<1>. HIDE DEF G
<1>5. Orders!FlattenSeq(s) \in G
  BY OrdersLists, <1>1, <1>2, <1>3, <1>4, FlattenIn
<1>. QED
  BY <1>5 DEF G

-----------------------------------------------------------------------------
(* What the keys send.                                                      *)

\* One request.
LEMMA OneIs ==
  ASSUME NEW r
  PROVE  IsSeq(<<r>>) /\ DOMAIN <<r>> = {1} /\ <<r>>[1] = r /\ Len(<<r>>) = 1
<1>1. <<r>> \in Seq({r})
  OBVIOUS
<1>2. IsSeq(<<r>>)
  BY <1>1, SequenceIs
<1>3. DOMAIN <<r>> = {1} /\ <<r>>[1] = r /\ Len(<<r>>) = 1
  OBVIOUS
<1>. QED
  BY <1>2, <1>3

LEMMA OnePlain ==
  ASSUME NEW k, k # "path", k \notin Does, NEW u, NEW x
  PROVE  Plain(<<Orders!Req(k, u, x)>>)
<1>. PICK r : r = Orders!Req(k, u, x)
  OBVIOUS
<1>1. r.k = k
  BY DEF Orders!Req
<1>2. Plain(<<r>>)
  BY <1>1, OneIs DEF Plain
<1>. QED
  BY <1>2

\* The orders of u are cancelled, and the decision that is wanted is withdrawn.
Ready(s, u) ==
  /\ Plain(s)
  /\ \E j \in DOMAIN s : s[j].k = "cancel" /\ s[j].u = u
  /\ unit[u].want => \E j \in DOMAIN s : s[j].k = "unqueue" /\ s[j].u = u

LEMMA CancelReady == ASSUME NEW u PROVE Ready(Orders!CancelOrders(u) \o Orders!ClearWant(u), u)
<1>. PICK a : a = Orders!CancelOrders(u)
  OBVIOUS
<1>. PICK b : b = Orders!ClearWant(u)
  OBVIOUS
<1>. PICK c : c = a \o b
  OBVIOUS
<1>1. Plain(a) /\ DOMAIN a = {1} /\ Len(a) = 1 /\ a[1].k = "cancel" /\ a[1].u = u
  <2>. PICK r : r = Orders!Req("cancel", u, Orders!Here(u))
    OBVIOUS
  <2>1. r.k = "cancel" /\ r.u = u
    BY DEF Orders!Req
  <2>2. Plain(<<r>>)
    BY OnePlain DEF Does
  <2>3. a = <<r>>
    BY DEF Orders!CancelOrders
  <2>. QED
    BY <2>1, <2>2, <2>3, OneIs
<1>2. Plain(b) /\ (unit[u].want => 1 \in DOMAIN b /\ b[1].k = "unqueue" /\ b[1].u = u)
  <2>. PICK r : r = Orders!Req("unqueue", u, 0)
    OBVIOUS
  <2>1. r.k = "unqueue" /\ r.u = u
    BY DEF Orders!Req
  <2>2. Plain(<<r>>)
    BY OnePlain DEF Does
  <2>3. b = IF unit[u].want THEN <<r>> ELSE <<>>
    BY DEF Orders!ClearWant
  <2>. QED
    BY <2>1, <2>2, <2>3, OneIs, NoneIs
<1>3. IsSeq(c) /\ Begins(c, a) /\ Ends(c, a, b) /\ Len(c) >= Len(a) /\ Len(c) >= Len(b)
  BY <1>1, <1>2, JoinIs, JoinHas DEF Plain
<1>4. DOMAIN c = 1..Len(c) /\ Len(c) \in Nat
  BY <1>3, SequenceHas
<1>5. Plain(c)
  BY <1>1, <1>2, <1>3 DEF Plain, Begins, Ends
<1>6. 1 \in DOMAIN c /\ c[1] = a[1]
  BY <1>1, <1>3, <1>4 DEF Begins
<1>7. ASSUME unit[u].want PROVE 2 \in DOMAIN c /\ c[2] = b[1]
  <2>1. c[2] = b[1]
    <3>1. \A j \in DOMAIN b : c[Len(a) + j] = b[j]
      BY <1>3, Zenon DEF Ends
    <3>2. c[Len(a) + 1] = b[1]
      BY <1>2, <1>7, <3>1, Zenon
    <3>3. Len(a) + 1 = 2
      BY <1>1
    <3>. QED
      BY <3>2, <3>3
  <2>2. Len(c) = Len(a) + Len(b) /\ Len(b) \in Nat /\ DOMAIN b = 1..Len(b)
    BY <1>1, <1>2, Joined, SequenceHas DEF Plain
  <2>. QED
    BY <1>1, <1>2, <1>4, <1>7, <2>1, <2>2
<1>8. Ready(c, u)
  BY <1>1, <1>2, <1>5, <1>6, <1>7 DEF Ready
<1>. QED
  BY <1>8

\* Then the unit is told what to do.
LEMMA ReadyFine ==
  ASSUME NEW u, NEW a, Ready(a, u), NEW k \in Does
  PROVE  Fine(a \o <<Orders!Req(k, u, 0)>>)
<1>. PICK r : r = Orders!Req(k, u, 0)
  OBVIOUS
<1>. PICK b : b = <<r>>
  OBVIOUS
<1>. PICK c : c = a \o b
  OBVIOUS
<1>1. r.k = k /\ r.u = u
  BY DEF Orders!Req
<1>2. IsSeq(b) /\ DOMAIN b = {1} /\ b[1] = r
  BY OneIs
<1>3. /\ IsSeq(c) /\ DOMAIN a = 1..Len(a) /\ Len(a) \in Nat /\ Begins(c, a) /\ Ends(c, a, b)
      /\ DOMAIN c = 1..Len(c) /\ Len(c) \in Nat
  BY <1>2, JoinIs, SequenceHas DEF Ready, Plain
<1>4. ASSUME NEW i \in DOMAIN c
      PROVE  /\ c[i].k # "path"
             /\ c[i].k \in Does => /\ Told(c, "cancel", c[i].u, i)
                                   /\ unit[c[i].u].want => Told(c, "unqueue", c[i].u, i)
  <2>1. CASE i \in DOMAIN a
    <3>1. c[i] = a[i]
      BY <1>3, <2>1 DEF Begins
    <3>. QED
      BY <2>1, <3>1 DEF Ready, Plain
  <2>2. CASE i \notin DOMAIN a
    <3>1. i = Len(a) + 1 /\ c[i] = r
      BY <1>2, <1>3, <2>2 DEF Ends
    <3>2. \A j \in DOMAIN a : j \in 1..i - 1 /\ c[j] = a[j]
      BY <1>3, <3>1 DEF Begins
    <3>3. Told(c, "cancel", u, i) /\ (unit[u].want => Told(c, "unqueue", u, i))
      BY <3>2 DEF Ready, Told
    <3>4. k # "path"
      BY DEF Does
    <3>. QED
      BY <1>1, <3>1, <3>3, <3>4
  <2>. QED
    BY <2>1, <2>2
<1>5. Fine(c)
  BY <1>3, <1>4 DEF Fine
<1>. QED
  BY <1>5

LEMMA ActivityFine == ASSUME NEW u PROVE Fine(Orders!NewActivity(u)) /\ Fine(Orders!AutoWork(u))
<1>1. "idle" \in Does /\ "work" \in Does
  BY DEF Does
<1>. QED
  BY <1>1, CancelReady, ReadyFine DEF Orders!NewActivity, Orders!AutoWork

LEMMA SinglesFine ==
  /\ \A u : Fine(Orders!AutoExplore(u)) /\ Fine(Orders!QueueHere(u))
  /\ \A u, t : Fine(Orders!Queue(u, t))
  /\ Fine(Orders!BuildCity)
<1>1. ASSUME NEW k \in {"explore", "queue", "name"}, NEW u, NEW x PROVE Fine(<<Orders!Req(k, u, x)>>)
  BY OnePlain, PlainFine DEF Does
<1>2. \A u, t : Fine(Orders!Queue(u, t))
  BY <1>1 DEF Orders!Queue
<1>3. \A u : Fine(Orders!AutoExplore(u)) /\ Fine(Orders!QueueHere(u))
  BY <1>1, <1>2 DEF Orders!AutoExplore, Orders!QueueHere
<1>4. Fine(Orders!BuildCity)
  BY <1>1, NoneIs DEF Orders!BuildCity
<1>. QED
  BY <1>2, <1>3, <1>4

\* One after the other for the units in focus.
LEMMA FocusFine ==
  ASSUME Focused, NEW s, DOMAIN s = DOMAIN focus, s = [i \in DOMAIN focus |-> s[i]], \A i \in DOMAIN focus : Fine(s[i])
  PROVE  Fine(Orders!FlattenSeq(s))
<1>1. focus \in Seq(Units) /\ Len(focus) \in Nat /\ DOMAIN focus = 1..Len(focus)
  BY LenProperties DEF Focused
<1>2. IsSeq(s)
  <2>. PICK n : n = Len(focus)
    OBVIOUS
  <2>1. n \in Nat /\ DOMAIN s = 1..n /\ s = [i \in 1..n |-> s[i]]
    BY <1>1
  <2>. QED
    BY <2>1, FunctionIs
<1>. QED
  BY <1>2, FlattenFine

LEMMA AllFine ==
  ASSUME Focused
  PROVE  /\ Fine(Orders!FlattenSeq([i \in DOMAIN focus |-> Orders!NewActivity(focus[i])]))
         /\ Fine(Orders!FlattenSeq([i \in DOMAIN focus |-> Orders!AutoWork(focus[i])]))
         /\ Fine(Orders!FlattenSeq([i \in DOMAIN focus |-> Orders!AutoExplore(focus[i])]))
         /\ Fine(Orders!FlattenSeq([i \in DOMAIN focus |-> Orders!QueueHere(focus[i])]))
         /\ \A t : Fine(Orders!FlattenSeq([i \in DOMAIN focus |-> Orders!Queue(focus[i], t)]))
<1>1. Fine(Orders!FlattenSeq([i \in DOMAIN focus |-> Orders!NewActivity(focus[i])]))
  <2>. PICK s : s = [i \in DOMAIN focus |-> Orders!NewActivity(focus[i])]
    OBVIOUS
  <2>1. \A i \in DOMAIN focus : Fine(s[i])
    BY ActivityFine
  <2>. QED
    BY <2>1, FocusFine
<1>2. Fine(Orders!FlattenSeq([i \in DOMAIN focus |-> Orders!AutoWork(focus[i])]))
  <2>. PICK s : s = [i \in DOMAIN focus |-> Orders!AutoWork(focus[i])]
    OBVIOUS
  <2>1. \A i \in DOMAIN focus : Fine(s[i])
    BY ActivityFine
  <2>. QED
    BY <2>1, FocusFine
<1>3. Fine(Orders!FlattenSeq([i \in DOMAIN focus |-> Orders!AutoExplore(focus[i])]))
  <2>. PICK s : s = [i \in DOMAIN focus |-> Orders!AutoExplore(focus[i])]
    OBVIOUS
  <2>1. \A i \in DOMAIN focus : Fine(s[i])
    BY SinglesFine
  <2>. QED
    BY <2>1, FocusFine
<1>4. Fine(Orders!FlattenSeq([i \in DOMAIN focus |-> Orders!QueueHere(focus[i])]))
  <2>. PICK s : s = [i \in DOMAIN focus |-> Orders!QueueHere(focus[i])]
    OBVIOUS
  <2>1. \A i \in DOMAIN focus : Fine(s[i])
    BY SinglesFine
  <2>. QED
    BY <2>1, FocusFine
<1>5. ASSUME NEW t PROVE Fine(Orders!FlattenSeq([i \in DOMAIN focus |-> Orders!Queue(focus[i], t)]))
  <2>. PICK s : s = [i \in DOMAIN focus |-> Orders!Queue(focus[i], t)]
    OBVIOUS
  <2>1. \A i \in DOMAIN focus : Fine(s[i])
    BY SinglesFine
  <2>. QED
    BY <2>1, FocusFine
<1>. QED
  BY <1>1, <1>2, <1>3, <1>4, <1>5

LEMMA ListedIs == ASSUME NEW S, IsFiniteSet(S) PROVE Orders!SetToSeq(S) \in Seq(S)
<1>1. PICK n \in Nat : ExistsBijection(1..n, S)
  BY FS_NatBijection
<1>2. Orders!Cardinality(S) = n
  BY OrdersLists, <1>1, FS_CountingElements
<1>3. PICK g : g \in Bijection(1..n, S)
  BY <1>1 DEF ExistsBijection
<1>4. g \in [1..n -> S] /\ Orders!IsInjective(g)
  BY <1>3 DEF Bijection, Injection, IsInjective, Orders!IsInjective
<1>. PICK s : s = Orders!SetToSeq(S)
  OBVIOUS
<1>5. s \in [1..n -> S]
  BY <1>2, <1>4, Zenon DEF Orders!SetToSeq
<1>. QED
  BY <1>5, SeqDef

-----------------------------------------------------------------------------
(* The steps.                                                               *)

\* What a step that asks for no paths keeps.
Kept == OrdersInv' /\ Fine(sent')

LEMMA SamePeople == ASSUME OrdersInv, unit' = unit, focus' = focus PROVE Mirrored' /\ Focused'
BY Zenon DEF OrdersInv, Mirrored, Focused, Living

LEMMA SameGotos == ASSUME OrdersInv, UNCHANGED <<modes, paths, touch>> PROVE Gotos'
BY Zenon DEF OrdersInv, Gotos, Orders!PathsOnlyInGoto

LEMMA NothingSent == ASSUME Orders!Silent PROVE Fine(sent')
<1>. PICK s : s = sent'
  OBVIOUS
<1>. QED
  BY NoneIs DEF Orders!Silent

\* The focus stays on units that are mirrored.
LEMMA FocusOn ==
  ASSUME OrdersInv, unit' = unit, focus' \in Seq(Living)
  PROVE  Mirrored' /\ Focused'
<1>1. Living' = Living /\ Living \subseteq Units
  BY DEF Living
<1>2. focus' \in Seq(Units)
  BY <1>1, SeqDef
<1>3. \A i \in DOMAIN focus' : focus'[i] \in Living
  <2>. PICK f : f = focus'
    OBVIOUS
  <2>1. \A i \in DOMAIN f : f[i] \in Living
    BY LenProperties, ElementOfSeq
  <2>. QED
    BY <2>1
<1>4. Mirrored'
  BY Zenon DEF OrdersInv, Mirrored
<1>. QED
  BY <1>1, <1>2, <1>3, <1>4 DEF Focused

LEMMA FiniteLiving == ASSUME OrdersParams, NEW S, S \subseteq Living PROVE IsFiniteSet(S)
<1>1. S \in SUBSET Units
  BY DEF Living
<1>. QED
  BY <1>1, FS_Subset DEF OrdersParams

LEMMA NobodyIs == <<>> \in Seq(Living) /\ \A u \in Living : <<u>> \in Seq(Living)
OBVIOUS

\* A list of mirrored units.
LEMMA ListsOf ==
  ASSUME OrdersParams, NEW S \in SUBSET Living, NEW f \in Orders!SetToSeqs(S)
  PROVE  f \in Seq(Living)
<1>1. IsFiniteSet(S) /\ Orders!Cardinality(S) \in Nat
  BY OrdersLists, FiniteLiving, FS_CardinalityType
<1>2. f \in [1..Orders!Cardinality(S) -> S]
  BY DEF Orders!SetToSeqs
<1>. PICK n : n = Orders!Cardinality(S)
  OBVIOUS
<1>3. f \in [1..n -> Living] /\ n \in Nat
  BY <1>1, <1>2
<1>. QED
  BY <1>3, SeqDef

LEMMA NewFocusOn == ASSUME OrdersParams, Orders!NewFocus PROVE focus' \in Seq(Living)
<1>1. PICK S \in SUBSET Living : focus' \in Orders!SetToSeqs(S)
  BY DEF Orders!NewFocus, Living
<1>. QED
  BY <1>1, ListsOf

LEMMA UnitChangesKeeps == ASSUME OrdersParams, OrdersInv, NEW u \in Units, Orders!UnitChanges(u) PROVE Kept
<1>1. UNCHANGED <<focus, modes, paths, touch>> /\ Orders!Silent
  BY DEF Orders!UnitChanges
<1>2. PICK r \in Records \cup (IF u \in Orders!ToSet(focus) THEN {} ELSE {Gone}) : unit' = [unit EXCEPT ![u] = r]
  BY DEF Orders!UnitChanges
<1>3. unit \in [Units -> Orders!UnitRec \cup {Gone}] /\ r \in Orders!UnitRec \cup {Gone}
  BY <1>2 DEF OrdersInv, Mirrored, OrdersParams
<1>4. Mirrored'
  BY <1>2, <1>3 DEF Mirrored
<1>5. \A i \in DOMAIN focus : focus[i] \in Living'
  <2>1. SUFFICES ASSUME NEW i \in DOMAIN focus PROVE focus[i] \in Living'
    OBVIOUS
  <2>2. focus[i] \in Units /\ unit[focus[i]] # Gone
    BY DEF OrdersInv, Focused, Living
  <2>3. CASE focus[i] = u
    <3>1. u \in Orders!ToSet(focus)
      BY <2>3 DEF Orders!ToSet
    <3>2. r # Gone
      BY <1>2, <3>1 DEF OrdersParams
    <3>. QED
      BY <1>2, <1>3, <2>3, <3>2 DEF Living
  <2>4. CASE focus[i] # u
    BY <1>2, <1>3, <2>2, <2>4 DEF Living
  <2>. QED
    BY <2>3, <2>4
<1>6. Focused'
  BY <1>1, <1>5 DEF OrdersInv, Focused
<1>. QED
  BY <1>1, <1>4, <1>6, SameGotos, NothingSent DEF OrdersInv, Kept

\* Another focus, and the modes as they are.
LEMMA FocusKept ==
  ASSUME OrdersInv, focus' \in Seq(Living) \/ focus' = focus, Orders!Keeps, UNCHANGED <<modes, paths>>, Orders!Silent
  PROVE  Kept
<1>1. UNCHANGED <<unit, touch>>
  BY DEF Orders!Keeps
<1>. QED
  BY <1>1, FocusOn, SamePeople, SameGotos, NothingSent DEF OrdersInv, Kept

LEMMA QuietKeeps == ASSUME OrdersParams, OrdersInv, Orders!FocusChanges \/ Orders!PathArrives PROVE Kept
BY NewFocusOn, FocusKept DEF Orders!FocusChanges, Orders!PathArrives

LEMMA SendsKeeps == ASSUME OrdersInv, NEW s, Orders!Sends(s), Fine(s) PROVE Kept
<1>1. UNCHANGED <<unit, focus, modes, paths, touch>> /\ sent' = s
  BY DEF Orders!Sends, Orders!Keeps
<1>2. Fine(sent')
  <2>. PICK t : t = sent'
    OBVIOUS
  <2>. QED
    BY <1>1
<1>. QED
  BY <1>1, <1>2, SamePeople, SameGotos DEF OrdersInv, Kept

LEMMA CommandsKeep ==
  ASSUME OrdersParams, OrdersInv,
         Orders!Idle \/ Orders!Explore \/ Orders!Work \/ Orders!Build \/ Orders!Unload \/ \E k \in Orders!DeadKeys : Orders!DeadKey(k)
  PROVE  Kept
<1>1. Focused
  BY DEF OrdersInv
<1>2. CASE Orders!Idle
  BY <1>1, <1>2, AllFine, SendsKeeps DEF Orders!Idle, Orders!ForFocus
<1>3. CASE Orders!Explore
  BY <1>1, <1>3, AllFine, SendsKeeps DEF Orders!Explore, Orders!ForFocus
<1>4. CASE Orders!Work
  BY <1>1, <1>4, AllFine, SendsKeeps DEF Orders!Work, Orders!ForFocus
<1>5. CASE Orders!Build
  BY <1>5, SinglesFine, SendsKeeps DEF Orders!Build
<1>6. CASE Orders!Unload
  <2>1. PICK u : Orders!Sends(Orders!NewActivity(u))
    BY <1>6 DEF Orders!Unload
  <2>. QED
    BY <2>1, ActivityFine, SendsKeeps
<1>7. CASE \E k \in Orders!DeadKeys : Orders!DeadKey(k)
  BY <1>7, NoneIs, SendsKeeps DEF Orders!DeadKey
<1>. QED
  BY <1>2, <1>3, <1>4, <1>5, <1>6, <1>7

\* A mode begins or ends, and the paths end with goto.
LEMMA ModesKept ==
  ASSUME OrdersInv, Orders!Keeps, modes' \subseteq Orders!Modes,
         paths' = {} \/ (paths' = paths /\ ("goto" \in modes => "goto" \in modes'))
  PROVE  Gotos'
BY DEF Orders!Keeps, OrdersInv, Gotos, Orders!PathsOnlyInGoto

LEMMA ModesKeep ==
  ASSUME OrdersParams, OrdersInv,
         Orders!Goto \/ Orders!Airlift \/ Orders!SelectTarget \/ Orders!Escape \/ Orders!Space
  PROVE  Kept
<1>1. Orders!Keeps /\ Orders!Silent /\ modes \subseteq Orders!Modes
  BY DEF Orders!Goto, Orders!Airlift, Orders!SelectTarget, Orders!Escape, Orders!Space, OrdersInv, Gotos
<1>2. /\ modes' \subseteq Orders!Modes
      /\ paths' = {} \/ (paths' = paths /\ ("goto" \in modes => "goto" \in modes'))
  BY <1>1 DEF Orders!Goto, Orders!Airlift, Orders!SelectTarget, Orders!Escape, Orders!Space, Orders!Modes
<1>3. focus' = focus \/ focus' \in Seq(Living)
  BY NobodyIs DEF Orders!Goto, Orders!Airlift, Orders!SelectTarget, Orders!Escape, Orders!Space
<1>4. unit' = unit
  BY <1>1 DEF Orders!Keeps
<1>. QED
  BY <1>1, <1>2, <1>3, <1>4, ModesKept, FocusOn, SamePeople, NothingSent DEF OrdersInv, Kept

LEMMA OwnTileKeeps == ASSUME OrdersParams, OrdersInv, Orders!SelectOwnTile PROVE Kept
<1>. PICK s : s = Orders!FlattenSeq([i \in DOMAIN focus |-> Orders!QueueHere(focus[i])])
  OBVIOUS
<1>1. Orders!Keeps /\ UNCHANGED <<focus, paths>> /\ modes' = modes \ {"target"} /\ sent' = s
  BY DEF Orders!SelectOwnTile, Orders!ForFocus
<1>2. Fine(sent')
  <2>1. Fine(s)
    BY AllFine DEF OrdersInv
  <2>. QED
    BY <1>1, <2>1
<1>3. modes' \subseteq Orders!Modes /\ ("goto" \in modes => "goto" \in modes')
  BY <1>1 DEF OrdersInv, Gotos
<1>4. unit' = unit
  BY <1>1 DEF Orders!Keeps
<1>. QED
  BY <1>1, <1>2, <1>3, <1>4, ModesKept, SamePeople DEF OrdersInv, Kept

\* A click on a tile.
LEMMA TapsKeep ==
  ASSUME OrdersParams, OrdersInv, NEW t \in Tiles,
         Orders!TapOwnTile(t) \/ Orders!TapGotoAsked(t) \/ Orders!TapGotoUnasked(t) \/ Orders!TapAirlift(t) \/ Orders!TapTile(t)
  PROVE  Kept
<1>1. Orders!Keeps /\ Orders!Silent /\ modes \subseteq Orders!Modes
  BY DEF Orders!TapOwnTile, Orders!TapGotoAsked, Orders!TapGotoUnasked, Orders!TapAirlift, Orders!TapTile, Orders!Elsewhere,
         OrdersInv, Gotos
<1>2. unit' = unit
  BY <1>1 DEF Orders!Keeps
<1>3. CASE Orders!TapOwnTile(t)
  <2>1. /\ modes' \subseteq Orders!Modes /\ focus' = focus
        /\ paths' = {} \/ (paths' = paths /\ modes' = modes)
    BY <1>1, <1>3 DEF Orders!TapOwnTile
  <2>. QED
    BY <1>1, <1>2, <2>1, ModesKept, SamePeople, NothingSent DEF OrdersInv, Kept
<1>4. CASE Orders!TapGotoAsked(t)
  <2>1. UNCHANGED <<focus, modes, paths>>
    BY <1>4 DEF Orders!TapGotoAsked
  <2>. QED
    BY <1>1, <2>1, FocusKept
<1>5. CASE Orders!TapGotoUnasked(t)
  <2>1. modes' \subseteq Orders!Modes /\ paths' = {} /\ (focus' = focus \/ focus' \in Seq(Living))
    BY <1>1, <1>5, NewFocusOn DEF Orders!TapGotoUnasked
  <2>. QED
    BY <1>1, <1>2, <2>1, ModesKept, SamePeople, FocusOn, NothingSent DEF OrdersInv, Kept
<1>6. CASE Orders!TapAirlift(t)
  <2>1. modes' \subseteq Orders!Modes /\ UNCHANGED <<focus, paths>> /\ "goto" \notin modes
    BY <1>1, <1>6 DEF Orders!TapAirlift
  <2>. QED
    BY <1>1, <1>2, <2>1, ModesKept, SamePeople, NothingSent DEF OrdersInv, Kept
<1>7. CASE Orders!TapTile(t)
  <2>1. modes' \subseteq Orders!Modes /\ paths' = paths /\ "goto" \notin modes
    BY <1>1, <1>7 DEF Orders!TapTile
  <2>2. Orders!At(t) \in SUBSET Living
    BY DEF Orders!At, Living
  <2>3. focus' = focus \/ focus' \in Seq(Living)
    BY <1>7, <2>2, NobodyIs, ListsOf DEF Orders!TapTile
  <2>. QED
    BY <1>1, <1>2, <2>1, <2>3, ModesKept, SamePeople, FocusOn, NothingSent DEF OrdersInv, Kept
<1>. QED
  BY <1>3, <1>4, <1>5, <1>6, <1>7

LEMMA TapTargetKeeps == ASSUME OrdersParams, OrdersInv, NEW t \in Tiles, Orders!TapTarget(t) PROVE Kept
<1>. PICK s : s = Orders!FlattenSeq([i \in DOMAIN focus |-> Orders!Queue(focus[i], t)])
  OBVIOUS
<1>1. /\ Orders!Keeps /\ UNCHANGED <<focus, paths>> /\ modes = {"target"} /\ modes' = {}
      /\ sent' = s
  BY DEF Orders!TapTarget, Orders!ForFocus, Orders!Elsewhere
<1>2. Fine(sent')
  <2>1. Fine(s)
    BY AllFine DEF OrdersInv
  <2>. QED
    BY <1>1, <2>1
<1>3. unit' = unit
  BY <1>1 DEF Orders!Keeps
<1>. QED
  BY <1>1, <1>2, <1>3, ModesKept, SamePeople DEF OrdersInv, Kept

\* Only paths are asked for, for units in focus, and noted.
Asks == \A i \in DOMAIN sent' :
          \E p \in paths' \ paths : /\ sent'[i].k = "path" /\ sent'[i].u = p[1] /\ sent'[i].x = p[2]
                                    /\ p[1] \in Orders!ToSet(focus) /\ p = <<p[1], p[2]>>

LEMMA PointKeeps ==
  ASSUME OrdersParams, OrdersInv, NEW t \in Tiles, Orders!PointAt(t)
  PROVE  OrdersInv' /\ "goto" \in modes' /\ Asks
<1>. PICK S : S = {Orders!Req("path", p[1], t) : p \in Orders!Wanted(t) \ paths}
  OBVIOUS
<1>1. /\ UNCHANGED <<unit, touch, focus, modes>>
      /\ "goto" \in modes /\ paths' = paths \cup Orders!Wanted(t) /\ sent' = Orders!SetToSeq(S)
  BY DEF Orders!PointAt, Orders!Keeps
<1>2. Orders!Wanted(t) \subseteq Units \X Tiles
  BY DEF Orders!Wanted, OrdersInv, Focused, Living
<1>3. Gotos'
  BY <1>1, <1>2 DEF OrdersInv, Gotos, Orders!PathsOnlyInGoto
<1>4. IsFiniteSet(S)
  <2>1. IsFiniteSet(Units)
    BY DEF OrdersParams
  <2>2. IsFiniteSet({Orders!Req("path", u, t) : u \in Units})
    <3> DEFINE f == [u \in Units |-> Orders!Req("path", u, t)]
               R == {Orders!Req("path", u, t) : u \in Units}
    <3>1. f \in Surjection(Units, R)
      BY DEF Surjection
    <3>. QED
      BY <2>1, <3>1, FS_Surjection
  <2>3. S \subseteq {Orders!Req("path", u, t) : u \in Units}
    BY <1>2
  <2>. QED
    BY <2>2, <2>3, FS_Subset
<1>5. ASSUME NEW r \in S
      PROVE  \E p \in paths' \ paths : /\ r.k = "path" /\ r.u = p[1] /\ r.x = p[2]
                                       /\ p[1] \in Orders!ToSet(focus) /\ p = <<p[1], p[2]>>
  <2>1. PICK p \in Orders!Wanted(t) \ paths : r = Orders!Req("path", p[1], t)
    OBVIOUS
  <2>2. PICK i \in DOMAIN focus : p = <<focus[i], t>>
    BY <2>1 DEF Orders!Wanted
  <2>3. r.k = "path" /\ r.u = p[1] /\ r.x = p[2]
    BY <2>1, <2>2 DEF Orders!Req
  <2>4. p[1] \in Orders!ToSet(focus) /\ p = <<p[1], p[2]>>
    BY <2>2 DEF Orders!ToSet
  <2>. QED
    BY <1>1, <2>1, <2>3, <2>4
<1>6. Asks
  <2>. PICK s : s = Orders!SetToSeq(S)
    OBVIOUS
  <2>1. s \in Seq(S)
    BY <1>4, ListedIs
  <2>2. \A i \in DOMAIN s : s[i] \in S
    BY <2>1, LenProperties, ElementOfSeq
  <2>3. sent' = s
    BY <1>1
  <2>. QED
    BY <1>5, <2>2, <2>3 DEF Asks
<1>. QED
  BY <1>1, <1>3, <1>6, SamePeople DEF OrdersInv

-----------------------------------------------------------------------------
(* The theorems.                                                            *)

LEMMA OrdersInit == ASSUME OrdersParams, Orders!Init PROVE OrdersInv
<1>1. Mirrored
  <2>1. unit \in [Units -> Records] /\ Records \subseteq Orders!UnitRec \cup {Gone}
    BY DEF Orders!Init, OrdersParams
  <2>. QED
    BY <2>1 DEF Mirrored
<1>2. Focused
  <2>1. focus = <<>>
    BY DEF Orders!Init
  <2>2. focus \in Seq(Units) /\ DOMAIN focus = {}
    BY <2>1, EmptyIs
  <2>. QED
    BY <2>2 DEF Focused
<1>3. Gotos
  BY DEF Orders!Init, Gotos, Orders!PathsOnlyInGoto
<1>. QED
  BY <1>1, <1>2, <1>3 DEF OrdersInv

LEMMA OrdersNext ==
  ASSUME OrdersParams, OrdersInv, Orders!Next
  PROVE  OrdersInv' /\ (Fine(sent') \/ ("goto" \in modes' /\ Asks))
<1>1. CASE \E u \in Units : Orders!UnitChanges(u)
  BY <1>1, UnitChangesKeeps DEF Kept
<1>2. CASE Orders!FocusChanges \/ Orders!PathArrives
  BY <1>2, QuietKeeps DEF Kept
<1>3. CASE Orders!Keys
  BY <1>3, CommandsKeep, ModesKeep, OwnTileKeeps DEF Orders!Keys, Kept
<1>4. CASE Orders!Taps
  BY <1>4, PointKeeps, TapsKeep, TapTargetKeeps DEF Orders!Taps, Kept
<1>. QED
  BY <1>1, <1>2, <1>3, <1>4 DEF Orders!Next

LEMMA StepsSay ==
  ASSUME OrdersParams, OrdersInv, Orders!Next
  PROVE  Orders!OrdersSteps
<1>. PICK s : s = sent'
  OBVIOUS
<1>1. CASE Fine(sent')
  <2>1. Fine(s)
    BY <1>1
  <2>2. \A i \in DOMAIN s : s[i].k # "path"
    BY <2>1 DEF Fine
  <2>3. \A i \in DOMAIN s : s[i].k \in Does =>
          /\ \E j \in 1..i - 1 : s[j].k = "cancel" /\ s[j].u = s[i].u
          /\ unit[s[i].u].want => \E j \in 1..i - 1 : s[j].k = "unqueue" /\ s[j].u = s[i].u
    BY <2>1, Zenon DEF Fine, Told
  <2>4. Orders!ToldFirst
    BY <2>3, Zenon DEF Orders!ToldFirst, Does
  <2>5. Orders!AskedOnce
    BY <2>2, Zenon DEF Orders!AskedOnce
  <2>. QED
    BY <2>4, <2>5 DEF Orders!OrdersSteps
<1>2. CASE "goto" \in modes' /\ Asks
  <2>1. \A i \in DOMAIN s : s[i].k = "path"
    BY <1>2 DEF Asks
  <2>2. Orders!ToldFirst
    BY <2>1 DEF Orders!ToldFirst
  <2>3. Orders!AskedOnce
    BY <1>2 DEF Asks, Orders!AskedOnce
  <2>. QED
    BY <2>2, <2>3 DEF Orders!OrdersSteps
<1>. QED
  BY <1>1, <1>2, OrdersNext

LEMMA OrdersStep == ASSUME OrdersParams, OrdersInv, [Orders!Next]_Orders!vars PROVE OrdersInv'
<1>1. CASE Orders!Next
  BY <1>1, OrdersNext
<1>2. CASE UNCHANGED Orders!vars
  <2>1. UNCHANGED <<unit, focus, modes, paths, touch>>
    BY <1>2 DEF Orders!vars
  <2>. QED
    BY <2>1, SamePeople, SameGotos DEF OrdersInv
<1>. QED
  BY <1>1, <1>2

LEMMA OrdersSoundIs == ASSUME OrdersInv PROVE Orders!OrdersSound
<1>1. Orders!ToSet(focus) \subseteq {u \in Units : unit[u] # Gone}
  BY DEF OrdersInv, Focused, Living, Orders!ToSet
<1>2. Orders!TypeOK
  BY <1>1 DEF OrdersInv, Mirrored, Gotos, Orders!TypeOK
<1>. QED
  BY <1>2 DEF Orders!OrdersSound, OrdersInv, Gotos

\* Orders are sound, whatever the units, the tiles and the packets: goto forgets its paths
\* however it ends (deactivate_goto, the space key), and who is in focus is mirrored.
THEOREM OrdersAreSound == ASSUME OrdersParams PROVE Orders!Spec => []Orders!OrdersSound
<1>1. Orders!Init => OrdersInv
  BY OrdersInit
<1>2. OrdersInv /\ [Orders!Next]_Orders!vars => OrdersInv'
  BY OrdersStep
<1>3. OrdersInv => Orders!OrdersSound
  BY OrdersSoundIs
<1>. QED
  BY <1>1, <1>2, <1>3, PTL DEF Orders!Spec

\* The server is not told what a unit does next before it was told that the unit's orders and
\* its decision are over (request_new_unit_activity, request_unit_autoworkers), and a path is
\* asked for once in a goto (request_goto_path).
THEOREM CancelledFirst == ASSUME OrdersParams PROVE Orders!Spec => [][Orders!OrdersSteps]_Orders!vars
<1>1. Orders!Init => OrdersInv
  BY OrdersInit
<1>2. OrdersInv /\ [Orders!Next]_Orders!vars => OrdersInv'
  BY OrdersStep
<1>3. OrdersInv /\ [Orders!Next]_Orders!vars => [Orders!OrdersSteps]_Orders!vars
  BY StepsSay
<1>. QED
  BY <1>1, <1>2, <1>3, PTL DEF Orders!Spec

-----------------------------------------------------------------------------
(* Units as they are shown: how they slide, and the panel of those in focus. *)

CONSTANTS InView, TownTiles, Flagless, Steps, MaxAnims, Lowest, MaxMoves
VARIABLES at, order, transported, gone, anim_list, anim_units_count,
          current_focus, shared, panel, center, active_city, moves

Band == INSTANCE UnitPictures WITH Towns <- TownTiles, Least <- Lowest

LEMMA BandLists ==
  /\ \A s, P : Band!Keep(s, P) = Keep(s, P)
  /\ \A s : Band!ToSet(s) = ToSet(s)
  /\ \A S : Band!Cardinality(S) = Cardinality(S)
BY DEF Band!Keep, Keep, Band!ToSet, ToSet, Band!Cardinality, Cardinality

\* What is needed of the parameters: a tile without a city to begin on, a slide that
\* has steps, and a bound of the countdown that is not above where it starts.
PicturesParams ==
  /\ IsFiniteSet(Units) /\ None \notin Tiles /\ \E t \in Tiles : t \notin TownTiles
  /\ Steps \in Nat \ {0} /\ MaxAnims \in Nat /\ Lowest \in Int /\ Lowest <= 0

\* The way of a unit that slides.
Legs == [tile : Tiles, i : 0..Steps]
Apart(list) == \A i, j \in 1..Len(list) : i # j => list[i].tile # list[j].tile
Begun(list) == \A i \in 3..Len(list) : list[i].i = Steps
Slide(list) ==
  /\ list \in Seq(Legs) /\ Len(list) # 1 /\ Apart(list) /\ Begun(list)
  /\ Len(list) >= 2 => list[2].i \in 1..Steps

\* The invariant.
Counts == Lowest..MaxAnims + 1
Placed == /\ at \in [Units -> Tiles \cup {None}] /\ IsSeq(order)
          /\ ToSet(order) \subseteq Band!Known /\ transported \subseteq Band!Known
Sliding == /\ anim_list \in [Units -> Seq(Legs)] /\ anim_units_count \in Counts
           /\ \A u \in Units : Slide(anim_list[u])
PicturesInv == Placed /\ Sliding /\ Band!PanelMarks

\* A list of no legs, and one with a leg more.
LEMMA NoSlide == <<>> \in Seq(Legs) /\ Slide(<<>>)
<1>1. <<>> \in Seq(Legs) /\ Len(<<>>) = 0
  OBVIOUS
<1>. HIDE DEF Legs
<1>. QED
  BY <1>1 DEF Slide, Apart, Begun

\* Legs that are begun where none was: the first two of them are those of a slide.
LEMMA LegAdded ==
  ASSUME PicturesParams, NEW list \in Seq(Legs), NEW t \in Tiles, Apart(list), Begun(list),
         Len(list) >= 2 => list[2].i \in 1..Steps,
         NEW new, new = Band!Unless(Band!Has(list, t), list, t)
  PROVE  /\ new \in Seq(Legs) /\ Apart(new) /\ Begun(new)
         /\ Len(new) >= 2 => new[2].i \in 1..Steps
         /\ Band!Has(list, t) => new = list
         /\ ~Band!Has(list, t) => Len(new) = Len(list) + 1
<1>. PICK leg : leg = Band!Tuple(t)
  OBVIOUS
<1>1. leg \in Legs /\ leg.tile = t /\ leg.i = Steps
  BY DEF Band!Tuple, Legs, PicturesParams
<1>0. Len(list) \in Nat /\ \A i \in 1..Len(list) : list[i] \in Legs
  OBVIOUS
<1>2. CASE Band!Has(list, t)
  <2>1. new = list
    BY <1>2 DEF Band!Unless
  <2>. QED
    BY <1>2, <2>1
<1>3. CASE ~Band!Has(list, t)
  <2>1. new = Append(list, leg)
    BY <1>3 DEF Band!Unless
  <2>. HIDE DEF Legs
  <2>2. /\ new \in Seq(Legs) /\ Len(new) = Len(list) + 1 /\ new[Len(list) + 1] = leg
        /\ \A i \in 1..Len(list) : new[i] = list[i]
    BY <1>1, <2>1, AppendProperties
  <2>3. \A i \in 1..Len(list) : list[i].tile # t
    BY <1>3 DEF Band!Has
  <2>4. Apart(new)
    <3>1. ASSUME NEW i \in 1..Len(new), NEW j \in 1..Len(new), i # j PROVE new[i].tile # new[j].tile
      <4>1. CASE i \in 1..Len(list) /\ j \in 1..Len(list)
        BY <2>2, <3>1, <4>1 DEF Apart
      <4>2. CASE i = Len(list) + 1 /\ j \in 1..Len(list)
        BY <1>1, <2>2, <2>3, <4>2
      <4>3. CASE j = Len(list) + 1 /\ i \in 1..Len(list)
        BY <1>1, <2>2, <2>3, <4>3
      <4>. QED
        BY <1>0, <2>2, <3>1, <4>1, <4>2, <4>3
    <3>. QED
      BY <3>1 DEF Apart
  <2>5. Begun(new)
    <3>1. ASSUME NEW i \in 3..Len(new) PROVE new[i].i = Steps
      <4>1. i \in 3..Len(list) \/ i = Len(list) + 1
        BY <1>0, <2>2
      <4>2. CASE i \in 3..Len(list)
        BY <2>2, <4>2, <1>0 DEF Begun
      <4>. QED
        BY <1>1, <2>2, <4>1, <4>2
    <3>. QED
      BY <3>1 DEF Begun
  <2>6. Len(new) >= 2 => new[2].i \in 1..Steps
    <3>1. CASE Len(list) >= 2
      BY <1>0, <2>2, <3>1
    <3>2. CASE Len(list) = 1
      <4>1. new[2] = leg
        BY <2>2, <3>2
      <4>. QED
        BY <1>1, <4>1 DEF PicturesParams
    <3>3. CASE Len(list) = 0
      BY <2>2, <3>3
    <3>4. Len(list) >= 2 \/ Len(list) = 1 \/ Len(list) = 0
      <4>. PICK n \in Nat : n = Len(list)
        BY <1>0
      <4>1. n >= 2 \/ n = 1 \/ n = 0
        OBVIOUS
      <4>. QED
        BY <4>1
    <3>. QED
      BY <3>1, <3>2, <3>3, <3>4
  <2>. QED
    BY <1>3, <2>2, <2>4, <2>5, <2>6
<1>. QED
  BY <1>2, <1>3

\* A move that is seen makes a slide of two legs, or one with what was missing of it.
LEMMA UpdateKeeps ==
  ASSUME PicturesParams, Sliding, NEW u \in Units, NEW old \in Tiles, NEW new \in Tiles, NEW aboard,
         Band!UpdateUnitAnimList(u, old, new, aboard)
  PROVE  Sliding'
<1>1. CASE UNCHANGED <<anim_list, anim_units_count>>
  BY <1>1 DEF Sliding
<1>2. CASE anim_list' = [anim_list EXCEPT ![u] = << >>] /\ UNCHANGED anim_units_count
  BY <1>2, NoSlide DEF Sliding
<1>3. CASE ~(old = new \/ anim_units_count > MaxAnims \/ new \notin InView) /\ ~aboard
  <2>. PICK list : list = anim_list[u]
    OBVIOUS
  <2>. PICK from : from = Band!Unless(Band!Has(list, old), list, old)
    OBVIOUS
  <2>. PICK to : to = Band!Unless(Band!Has(list, new), from, new)
    OBVIOUS
  <2>1. list \in Seq(Legs) /\ Slide(list)
    BY DEF Sliding
  <2>2. Len(list) \in Nat /\ Len(list) # 1 /\ Apart(list) /\ Begun(list) /\ (Len(list) >= 2 => list[2].i \in 1..Steps)
    BY <2>1 DEF Slide
  <2>3. /\ from \in Seq(Legs) /\ Apart(from) /\ Begun(from) /\ (Len(from) >= 2 => from[2].i \in 1..Steps)
        /\ Band!Has(list, old) => from = list
        /\ ~Band!Has(list, old) => Len(from) = Len(list) + 1
    BY <2>1, <2>2, LegAdded
  <2>4. Band!Has(from, new) <=> Band!Has(list, new)
    <3>1. CASE Band!Has(list, old)
      BY <2>3, <3>1
    <3>2. CASE ~Band!Has(list, old)
      <4>. PICK leg : leg = Band!Tuple(old)
        OBVIOUS
      <4>1. leg.tile = old /\ leg \in Legs
        BY DEF Band!Tuple, Legs, PicturesParams
      <4>2. from = Append(list, leg)
        BY <3>2 DEF Band!Unless
      <4>. HIDE DEF Legs
      <4>3. /\ Len(from) = Len(list) + 1 /\ from[Len(list) + 1] = leg
            /\ \A i \in 1..Len(list) : from[i] = list[i]
        BY <2>1, <4>1, <4>2, AppendProperties
      <4>4. old # new /\ \A i \in 1..Len(from) : i \in 1..Len(list) \/ i = Len(list) + 1
        BY <1>3, <2>2, <4>3
      <4>5. ASSUME NEW i \in 1..Len(from), from[i].tile = new PROVE \E j \in 1..Len(list) : list[j].tile = new
        <5>1. from[i] # leg
          BY <4>1, <4>4, <4>5
        <5>. QED
          BY <4>3, <4>4, <4>5, <5>1
      <4>6. ASSUME NEW i \in 1..Len(list), list[i].tile = new PROVE \E j \in 1..Len(from) : from[j].tile = new
        <5>1. i \in 1..Len(from) /\ from[i] = list[i]
          BY <2>2, <4>3
        <5>. QED
          BY <4>6, <5>1
      <4>. QED
        BY <4>5, <4>6 DEF Band!Has
    <3>. QED
      BY <3>1, <3>2
  <2>5. to = Band!Unless(Band!Has(from, new), from, new)
    BY <2>4 DEF Band!Unless
  <2>6. /\ to \in Seq(Legs) /\ Apart(to) /\ Begun(to) /\ (Len(to) >= 2 => to[2].i \in 1..Steps)
        /\ Band!Has(from, new) => to = from
        /\ ~Band!Has(from, new) => Len(to) = Len(from) + 1
    BY <2>3, <2>5, LegAdded
  <2>7. Len(to) # 1
    <3>1. CASE Len(list) >= 2
      <4>1. Len(from) >= 2 /\ Len(from) \in Nat
        BY <2>2, <2>3, <3>1
      <4>. QED
        BY <2>6, <4>1
    <3>2. CASE Len(list) = 0
      <4>1. ~Band!Has(list, old) /\ ~Band!Has(list, new)
        BY <3>2 DEF Band!Has
      <4>2. Len(from) = 1
        BY <2>3, <4>1, <3>2
      <4>. QED
        BY <2>4, <2>6, <4>1, <4>2
    <3>3. Len(list) >= 2 \/ Len(list) = 0
      <4>. PICK n \in Nat : n = Len(list) /\ n # 1
        BY <2>2
      <4>1. n >= 2 \/ n = 0
        OBVIOUS
      <4>. QED
        BY <4>1
    <3>. QED
      BY <3>1, <3>2, <3>3
  <2>8. Slide(to)
    BY <2>6, <2>7 DEF Slide
  <2>9. anim_list' = [anim_list EXCEPT ![u] = to] /\ anim_units_count' = anim_units_count + 1
    BY <1>3 DEF Band!UpdateUnitAnimList
  <2>10. anim_units_count' \in Counts
    BY <1>3, <2>9 DEF Sliding, Counts, PicturesParams
  <2>. QED
    BY <2>6, <2>8, <2>9, <2>10 DEF Sliding
<1>. QED
  BY <1>1, <1>2, <1>3 DEF Band!UpdateUnitAnimList, Band!anims

\* A slide that gets on is one, or is over.
LEMMA AdvancedKeeps ==
  ASSUME PicturesParams, NEW list, Slide(list), Len(list) >= 2
  PROVE  Slide(Band!Advanced(list))
<1>. PICK away : away = list[2].i - 1
  OBVIOUS
<1>. PICK second : second = [list[2] EXCEPT !.i = away]
  OBVIOUS
<1>. PICK list2 : list2 = [list EXCEPT ![2] = second]
  OBVIOUS
<1>. PICK rest : rest = Tail(list2)
  OBVIOUS
<1>. PICK n : n = Len(list)
  OBVIOUS
<1>1. /\ list \in Seq(Legs) /\ n \in Nat /\ n >= 2 /\ 2 \in 1..n /\ DOMAIN list = 1..n
      /\ \A i \in 1..n : list[i] \in Legs
  BY DEF Slide
<1>2. list[2].i \in 1..Steps /\ away \in 0..Steps /\ away = list[2].i - 1
  BY DEF Slide, PicturesParams
<1>3. Band!Advanced(list) = IF (away + 2) \div 3 # 0 THEN list2 ELSE IF Len(rest) = 1 THEN << >> ELSE rest
  BY DEF Band!Advanced
<1>4. second \in Legs /\ second.tile = list[2].tile /\ second.i = away
  <2>1. list[2] \in Legs
    BY <1>1
  <2>. QED
    BY <1>2, <2>1 DEF Legs
<1>5. Apart(list) /\ Begun(list)
  BY DEF Slide
<1>. HIDE DEF Legs
<1>6. list2 \in Seq(Legs) /\ Len(list2) = n /\ list2[2] = second /\ \A i \in 1..n : i # 2 => list2[i] = list[i]
  BY <1>1, <1>4
<1>7. \A i \in 1..n : list2[i].tile = list[i].tile
  BY <1>4, <1>6
<1>8. Apart(list2) /\ Begun(list2)
  <2>1. Apart(list2)
    BY <1>5, <1>6, <1>7 DEF Apart
  <2>2. \A i \in 3..n : i \in 1..n /\ i # 2
    OBVIOUS
  <2>. QED
    BY <1>5, <1>6, <2>1, <2>2 DEF Begun
<1>9. CASE (away + 2) \div 3 # 0
  <2>1. away \in 1..Steps
    BY <1>2, <1>9 DEF PicturesParams
  <2>. QED
    BY <1>1, <1>3, <1>4, <1>6, <1>8, <1>9, <2>1 DEF Slide
<1>10. CASE ~((away + 2) \div 3 # 0) /\ n # 2
  <2>1. /\ rest \in Seq(Legs) /\ Len(rest) = n - 1 /\ \A i \in 1..n - 1 : rest[i] = list2[i + 1]
    <3>1. list2 # << >>
      BY <1>1, <1>6
    <3>. QED
      BY <1>6, <3>1, HeadTailProperties
  <2>2. rest[2].i = Steps
    <3>1. rest[2] = list2[3] /\ 3 \in 3..n
      BY <1>1, <1>10, <2>1
    <3>. QED
      BY <1>6, <1>8, <3>1 DEF Begun
  <2>3. Apart(rest)
    <3>1. ASSUME NEW i \in 1..n - 1, NEW j \in 1..n - 1, i # j PROVE rest[i].tile # rest[j].tile
      <4>1. i + 1 \in 1..n /\ j + 1 \in 1..n /\ i + 1 # j + 1
        BY <1>1, <3>1
      <4>. QED
        BY <1>6, <1>8, <2>1, <4>1 DEF Apart
    <3>. QED
      BY <2>1, <3>1 DEF Apart
  <2>4. Begun(rest)
    <3>1. ASSUME NEW i \in 3..n - 1 PROVE rest[i].i = Steps
      <4>1. i + 1 \in 3..n /\ i \in 1..n - 1
        BY <1>1
      <4>. QED
        BY <1>6, <1>8, <2>1, <4>1 DEF Begun
    <3>. QED
      BY <2>1, <3>1 DEF Begun
  <2>5. Len(rest) # 1 /\ Band!Advanced(list) = rest
    BY <1>1, <1>3, <1>10, <2>1
  <2>. QED
    BY <1>1, <2>1, <2>2, <2>3, <2>4, <2>5 DEF Slide, PicturesParams
<1>11. CASE ~((away + 2) \div 3 # 0) /\ n = 2
  <2>1. list2 # << >>
    BY <1>1, <1>6
  <2>2. Len(rest) = 1
    BY <1>6, <1>11, <2>1, HeadTailProperties
  <2>. QED
    BY <1>3, <1>11, <2>2, NoSlide
<1>. QED
  BY <1>9, <1>10, <1>11

\* Asked how far it is, a unit gets on or is counted out.
Way(list, count) == [list |-> list, count |-> count]
Gets(list, s, l, c) == c \in Counts /\ s = Way(l, c) /\ (Slide(list) => Slide(l))

LEMMA OffsetKeeps ==
  ASSUME PicturesParams, NEW list, NEW count \in Counts
  PROVE  \E l, c : Gets(list, Band!Offset(Way(list, count)), l, c)
<1>. PICK s : s = Way(list, count)
  OBVIOUS
<1>1. /\ s.list = list /\ s.count = count
      /\ \A l, c : [s EXCEPT !.list = l] = Way(l, count) /\ [s EXCEPT !.count = c] = Way(list, c)
  BY DEF Way
<1>2. CASE Len(list) >= 2
  <2>1. Band!Offset(s) = Way(Band!Advanced(list), count)
    BY <1>1, <1>2, Zenon DEF Band!Offset
  <2>2. Slide(list) => Slide(Band!Advanced(list))
    BY <1>2, AdvancedKeeps
  <2>. QED
    BY <2>1, <2>2, Zenon DEF Gets
<1>3. CASE ~(Len(list) >= 2)
  <2>. PICK c : c = IF count > Lowest THEN count - 1 ELSE count
    OBVIOUS
  <2>1. c \in Counts
    BY DEF Counts, PicturesParams
  <2>2. Band!Offset(s) = Way(list, c)
    BY <1>1, <1>3, Zenon DEF Band!Offset
  <2>. QED
    BY <2>1, <2>2, Zenon DEF Gets
<1>. QED
  BY <1>2, <1>3

LEMMA FillKeeps ==
  ASSUME PicturesParams, Sliding, NEW u, Band!FillUnitSpriteArray(u)
  PROVE  Sliding'
<1>. PICK list : list = anim_list[u]
  OBVIOUS
<1>1. anim_units_count \in Counts /\ anim_list \in [Units -> Seq(Legs)] /\ \A v \in Units : Slide(anim_list[v])
  BY DEF Sliding
<1>2. PICK l1, c1 : Gets(list, Band!Offset(Way(list, anim_units_count)), l1, c1)
  BY <1>1, OffsetKeeps
<1>3. PICK l2, c2 : Gets(l1, Band!Offset(Way(l1, c1)), l2, c2)
  BY <1>2, OffsetKeeps DEF Gets
<1>4. PICK l3, c3 : Gets(l2, Band!Offset(Way(l2, c2)), l3, c3)
  BY <1>3, OffsetKeeps DEF Gets
<1>5. PICK l, c : Gets(list, IF u \in Flagless THEN Way(l2, c2) ELSE Way(l3, c3), l, c)
  <2>1. Gets(list, Way(l2, c2), l2, c2) /\ Gets(list, Way(l3, c3), l3, c3)
    BY <1>2, <1>3, <1>4, Zenon DEF Gets
  <2>. QED
    BY <2>1, Zenon
<1>6. /\ anim_list' = [anim_list EXCEPT ![u] = Way(l, c).list] /\ anim_units_count' = Way(l, c).count
  <2>1. Way(list, anim_units_count) = [list |-> anim_list[u], count |-> anim_units_count]
    BY DEF Way
  <2>. QED
    BY <1>2, <1>3, <1>4, <1>5, <2>1, Zenon DEF Band!FillUnitSpriteArray, Gets
<1>7. anim_list' = [anim_list EXCEPT ![u] = l] /\ anim_units_count' = c
  BY <1>6 DEF Way
<1>8. \A v \in Units : anim_list'[v] = IF v = u THEN l ELSE anim_list[v]
  BY <1>1, <1>7
<1>9. \A v \in Units : Slide(anim_list'[v])
  BY <1>1, <1>5, <1>8, Zenon DEF Gets
<1>10. anim_list' \in [Units -> Seq(Legs)]
  <2>1. DOMAIN anim_list' = Units /\ anim_list' = [v \in Units |-> anim_list'[v]]
    BY <1>1, <1>7
  <2>2. \A v \in Units : anim_list'[v] \in Seq(Legs)
    BY <1>9 DEF Slide
  <2>. QED
    BY <2>1, <2>2
<1>. QED
  BY <1>5, <1>7, <1>9, <1>10 DEF Sliding, Gets

\* The units on a tile, and a list without one.
LEMMA OnTileHas ==
  ASSUME NEW list, IsSeq(list), NEW tiles, NEW t
  PROVE  \A v \in ToSet(Band!UnitsAt(list, tiles, t)) : v \in ToSet(list) /\ tiles[v] = t
<1>. PICK D \in SUBSET ToSet(list) : D = {v \in ToSet(list) : tiles[v] = t}
  OBVIOUS
<1>1. {i \in DOMAIN list : tiles[list[i]] = t} = {i \in DOMAIN list : list[i] \in D}
  BY DEF ToSet
<1>2. ToSet(Keep(list, {i \in DOMAIN list : list[i] \in D})) = D \cap ToSet(list)
  BY KeepHas
<1>3. Band!UnitsAt(list, tiles, t) = Keep(list, {i \in DOMAIN list : list[i] \in D})
  BY <1>1, BandLists, Zenon DEF Band!UnitsAt
<1>. QED
  BY <1>2, <1>3

LEMMA BandWithoutHas ==
  ASSUME Placed, NEW u
  PROVE  IsSeq(Band!Without(u)) /\ ToSet(Band!Without(u)) = ToSet(order) \ {u}
<1>. PICK D \in SUBSET ToSet(order) : D = ToSet(order) \ {u}
  OBVIOUS
<1>1. {i \in DOMAIN order : order[i] # u} = {i \in DOMAIN order : order[i] \in D}
  BY DEF ToSet
<1>2. /\ IsSeq(Keep(order, {i \in DOMAIN order : order[i] \in D}))
      /\ ToSet(Keep(order, {i \in DOMAIN order : order[i] \in D})) = D \cap ToSet(order)
  BY KeepHas DEF Placed
<1>3. Band!Without(u) = Keep(order, {i \in DOMAIN order : order[i] \in D})
  BY <1>1, BandLists, Zenon DEF Band!Without
<1>. QED
  BY <1>2, <1>3

LEMMA BehindHas ==
  ASSUME Placed, NEW u
  PROVE  IsSeq(Band!Behind(u)) /\ ToSet(Band!Behind(u)) = ToSet(order) \cup {u}
<1>. PICK w : w = Band!Without(u)
  OBVIOUS
<1>1. IsSeq(w) /\ ToSet(w) = ToSet(order) \ {u}
  BY BandWithoutHas
<1>2. IsSeq(Append(w, u)) /\ ToSet(Append(w, u)) = ToSet(w) \cup {u}
  BY <1>1, Appended, AppendedHas
<1>3. Band!Behind(u) = Append(w, u)
  BY DEF Band!Behind
<1>. QED
  BY <1>1, <1>2, <1>3

\* The focus of one unit, or of none.
LEMMA OneInFocus ==
  /\ ToSet(<<>>) = {} /\ Len(<<>>) = 0
  /\ \A u : ToSet(<<u>>) = {u} /\ Len(<<u>>) = 1
BY DEF ToSet

LEMMA PanelIs == ASSUME NEW f, NEW list PROVE Band!Panel(f, list).marked = ToSet(f)
<1>1. Band!ToSet(f) = ToSet(f)
  BY BandLists
<1>. QED
  BY <1>1 DEF Band!Panel

\* A focus that is a tile's list is of units that are mirrored.
LEMMA TilesAreMirrored ==
  ASSUME Placed, NEW t \in Tiles, None \notin Tiles
  PROVE  ToSet(Band!OnTile(t)) \subseteq Band!Known
<1>1. \A v \in ToSet(Band!UnitsAt(order, at, t)) : v \in ToSet(order) /\ at[v] = t
  BY OnTileHas DEF Placed
<1>. QED
  BY <1>1 DEF Band!OnTile, Placed

\* Marked, or the list of a tile.
LEMMA MarksIs ==
  Band!PanelMarks <=>
    /\ shared = None /\ current_focus # << >> => panel.marked = ToSet(current_focus)
    /\ shared # None => current_focus = Band!OnTile(shared) /\ shared \notin TownTiles
    /\ shared = None => Len(current_focus) <= 1
    /\ ToSet(current_focus) \subseteq Band!Known
BY BandLists, Zenon DEF Band!PanelMarks

LEMMA MarksNext ==
  ASSUME shared' = None /\ current_focus' # << >> => panel'.marked = ToSet(current_focus'),
         shared' # None => current_focus' = Band!OnTile(shared)' /\ shared' \notin TownTiles,
         shared' = None => Len(current_focus') <= 1,
         ToSet(current_focus') \subseteq Band!Known'
  PROVE  Band!PanelMarks'
<1>1. Band!ToSet(current_focus') = ToSet(current_focus')
  BY BandLists
<1>. QED
  BY <1>1, Zenon DEF Band!PanelMarks

LEMMA SamePlaced == ASSUME Placed, UNCHANGED Band!mirror PROVE Placed' /\ Band!Known' = Band!Known /\ \A t : Band!OnTile(t)' = Band!OnTile(t)
BY DEF Placed, Band!mirror, Band!Known, Band!OnTile

LEMMA SameMarks == ASSUME PicturesInv, UNCHANGED Band!mirror, UNCHANGED Band!focusVars PROVE Band!PanelMarks'
BY DEF PicturesInv, Band!mirror, Band!focusVars, Band!PanelMarks, Band!Known, Band!OnTile

LEMMA SameSliding == ASSUME Sliding, UNCHANGED Band!anims PROVE Sliding'
BY DEF Sliding, Band!anims

\* Whoever is mirrored comes into focus, or nobody does.
LEMMA ShownKeeps ==
  ASSUME NEW f, NEW list, Band!Redraw(f, list),
         f = << >> \/ \E v \in Band!Known' : f = <<v>>
  PROVE  Band!PanelMarks'
<1>1. /\ current_focus' = f /\ shared' = None
      /\ f # << >> => panel' = Band!Panel(f, list)
  BY DEF Band!Redraw
<1>2. f # << >> => panel'.marked = ToSet(f)
  BY <1>1, PanelIs
<1>3. ToSet(f) \subseteq Band!Known' /\ (Len(f) = 0 \/ Len(f) = 1)
  BY OneInFocus
<1>4. Len(f) <= 1
  <2>. PICK n \in 0..1 : n = Len(f)
    BY <1>3
  <2>. QED
    OBVIOUS
<1>. QED
  BY <1>1, <1>2, <1>3, <1>4, MarksNext

LEMMA FocusKeeps ==
  ASSUME PicturesInv, NEW u, Band!SetUnitFocusAndRedraw(u)
  PROVE  PicturesInv'
<1>1. UNCHANGED Band!mirror /\ UNCHANGED Band!anims
  BY DEF Band!SetUnitFocusAndRedraw
<1>2. Placed' /\ Sliding' /\ Band!Known' = Band!Known
  BY <1>1, SamePlaced, SameSliding DEF PicturesInv
<1>. PICK f : f = IF u \in Band!Known THEN <<u>> ELSE << >>
  OBVIOUS
<1>3. Band!Redraw(f, order)
  BY DEF Band!SetUnitFocusAndRedraw
<1>4. f = << >> \/ \E v \in Band!Known' : f = <<v>>
  BY <1>2
<1>5. Band!PanelMarks'
  BY <1>3, <1>4, ShownKeeps
<1>. QED
  BY <1>2, <1>5 DEF PicturesInv

LEMMA ClickForeignKeeps ==
  ASSUME PicturesParams, PicturesInv, NEW t \in Tiles, Band!ClickForeignTile(t)
  PROVE  PicturesInv'
<1>1. UNCHANGED Band!mirror /\ UNCHANGED Band!anims
  BY DEF Band!ClickForeignTile
<1>2. Placed' /\ Sliding' /\ Band!Known' = Band!Known /\ Band!OnTile(t)' = Band!OnTile(t)
  BY <1>1, SamePlaced, SameSliding DEF PicturesInv
<1>3. current_focus' = Band!OnTile(t) /\ shared' = t /\ t \notin TownTiles
  BY DEF Band!ClickForeignTile
<1>4. ToSet(current_focus') \subseteq Band!Known'
  BY <1>2, <1>3, TilesAreMirrored DEF PicturesInv, PicturesParams
<1>5. shared' # None /\ current_focus' = Band!OnTile(shared)'
  BY <1>1, <1>3 DEF PicturesParams, Band!OnTile, Band!mirror
<1>6. Band!PanelMarks'
  BY <1>3, <1>4, <1>5, MarksNext
<1>. QED
  BY <1>2, <1>6 DEF PicturesInv

\* The focus follows its tile.
LEMMA FollowKeeps ==
  ASSUME PicturesInv, Placed', UNCHANGED <<shared, panel>>, current_focus' = Band!FollowTile,
         shared = None => ToSet(current_focus) \subseteq Band!Known'
  PROVE  Band!PanelMarks'
<1>1. Band!PanelMarks
  BY DEF PicturesInv
<1>2. CASE shared = None
  <2>1. current_focus' = current_focus
    BY <1>2 DEF Band!FollowTile
  <2>2. ToSet(current_focus) \subseteq Band!Known'
    BY <1>2
  <2>3. panel' = panel /\ shared' = shared
    OBVIOUS
  <2>4. current_focus # << >> => panel.marked = ToSet(current_focus)
    BY <1>1, <1>2, MarksIs
  <2>5. Len(current_focus) <= 1
    BY <1>1, <1>2, MarksIs
  <2>. QED
    BY <1>2, <2>1, <2>2, <2>3, <2>4, <2>5, MarksNext
<1>3. CASE shared # None
  <2>1. current_focus' = Band!UnitsAt(order', at', shared)
    BY <1>3 DEF Band!FollowTile
  <2>2. \A v \in ToSet(current_focus') : v \in ToSet(order') /\ at'[v] = shared
    BY <2>1, OnTileHas DEF Placed
  <2>3. ToSet(current_focus') \subseteq Band!Known'
    BY <2>2 DEF Placed
  <2>4. current_focus' = Band!OnTile(shared)'
    BY <2>1 DEF Band!OnTile, Band!UnitsAt
  <2>5. shared' = shared /\ shared \notin TownTiles
    BY <1>1, <1>3, MarksIs
  <2>. QED
    BY <1>3, <2>3, <2>4, <2>5, MarksNext
<1>. QED
  BY <1>2, <1>3

LEMMA UnitInfoKeeps ==
  ASSUME PicturesParams, PicturesInv, NEW u \in Units, NEW t \in Tiles, NEW aboard \in BOOLEAN,
         Band!UnitInfo(u, t, aboard)
  PROVE  PicturesInv'
<1>1. Placed /\ Sliding
  BY DEF PicturesInv
<1>2. /\ at' = [at EXCEPT ![u] = t] /\ order' = Band!Behind(u)
      /\ transported' = IF aboard THEN transported \cup {u} ELSE transported \ {u}
      /\ current_focus' = Band!FollowTile /\ shared' = shared /\ panel' = panel
  BY DEF Band!UnitInfo
<1>3. Band!Known' = Band!Known \cup {u}
  BY <1>1, <1>2 DEF Band!Known, Placed, PicturesParams
<1>4. IsSeq(order') /\ ToSet(order') = ToSet(order) \cup {u}
  BY <1>1, <1>2, BehindHas
<1>5. at' \in [Units -> Tiles \cup {None}]
  BY <1>1, <1>2 DEF Placed
<1>6. transported' \subseteq Band!Known'
  <2>1. transported' \subseteq transported \cup {u}
    BY <1>2
  <2>. QED
    BY <1>1, <1>3, <2>1 DEF Placed
<1>7. Placed'
  BY <1>1, <1>3, <1>4, <1>5, <1>6 DEF Placed
<1>8. Sliding'
  <2>1. CASE at[u] = None
    <3>1. anim_list' = [anim_list EXCEPT ![u] = << >>] /\ UNCHANGED anim_units_count
      BY <2>1 DEF Band!UnitInfo
    <3>. QED
      BY <1>1, <3>1, NoSlide DEF Sliding
  <2>2. CASE at[u] # None
    <3>1. Band!UpdateUnitAnimList(u, at[u], t, aboard)
      BY <2>2 DEF Band!UnitInfo
    <3>. PICK old \in Tiles : old = at[u]
      BY <1>1, <2>2 DEF Placed
    <3>2. Band!UpdateUnitAnimList(u, old, t, aboard)
      BY <3>1
    <3>. QED
      BY <1>1, <3>2, UpdateKeeps
  <2>. QED
    BY <2>1, <2>2
<1>9. ToSet(current_focus) \subseteq Band!Known'
  BY <1>3, MarksIs DEF PicturesInv
<1>10. Band!PanelMarks'
  BY <1>2, <1>7, <1>9, FollowKeeps
<1>. QED
  BY <1>7, <1>8, <1>10 DEF PicturesInv

LEMMA UnitRemoveKeeps ==
  ASSUME PicturesParams, PicturesInv, NEW u \in Units, Band!UnitRemove(u)
  PROVE  PicturesInv'
<1>1. Placed /\ Sliding /\ Band!PanelMarks
  BY DEF PicturesInv
<1>2. order' = Band!Without(u) /\ UNCHANGED Band!anims
  BY DEF Band!UnitRemove
<1>3. IsSeq(order') /\ ToSet(order') = ToSet(order) \ {u}
  BY <1>1, <1>2, BandWithoutHas
<1>4. Sliding'
  BY <1>1, <1>2, SameSliding
<1>5. Band!ToSet(current_focus) = ToSet(current_focus)
  BY BandLists
<1>6. CASE shared # None \/ u \notin ToSet(current_focus)
  <2>1. /\ at' = [at EXCEPT ![u] = None] /\ transported' = transported \ {u}
        /\ current_focus' = Band!FollowTile /\ shared' = shared /\ panel' = panel
    BY <1>5, <1>6, Zenon DEF Band!UnitRemove
  <2>2. Band!Known' = Band!Known \ {u}
    BY <1>1, <2>1 DEF Band!Known, Placed
  <2>3. at' \in [Units -> Tiles \cup {None}]
    BY <1>1, <2>1 DEF Placed
  <2>4. Placed'
    BY <1>1, <1>3, <2>1, <2>2, <2>3 DEF Placed
  <2>5. shared = None => ToSet(current_focus) \subseteq Band!Known'
    BY <1>1, <1>6, <2>2, MarksIs
  <2>6. Band!PanelMarks'
    BY <2>1, <2>4, <2>5, FollowKeeps
  <2>. QED
    BY <1>4, <2>4, <2>6 DEF PicturesInv
<1>7. CASE ~(shared # None \/ u \notin ToSet(current_focus))
  <2>1. /\ at' = at /\ transported' = transported
        /\ \E f \in {<< >>} \cup {<<v>> : v \in Band!Known \ Foreign} : Band!Redraw(f, order')
    BY <1>5, <1>7, Zenon DEF Band!UnitRemove
  <2>2. Band!Known' = Band!Known
    BY <2>1 DEF Band!Known
  <2>3. Placed'
    BY <1>1, <1>3, <2>1, <2>2 DEF Placed
  <2>4. PICK f \in {<< >>} \cup {<<v>> : v \in Band!Known \ Foreign} : Band!Redraw(f, order')
    BY <2>1
  <2>6. f = << >> \/ \E v \in Band!Known' : f = <<v>>
    BY <2>2
  <2>5. Band!PanelMarks'
    BY <2>4, <2>6, ShownKeeps
  <2>. QED
    BY <1>4, <2>3, <2>5 DEF PicturesInv
<1>. QED
  BY <1>6, <1>7

\* The units at the start, in an order of theirs.
LEMMA AllListed ==
  ASSUME NEW S, IsFiniteSet(S)
  PROVE  IsSeq(Band!SetToSeq(S)) /\ ToSet(Band!SetToSeq(S)) = S
<1>1. PICK n \in Nat : ExistsBijection(1..n, S)
  BY FS_NatBijection
<1>2. Cardinality(S) = n /\ Band!Cardinality(S) = n
  BY BandLists, <1>1, FS_CountingElements
<1>3. PICK g : g \in Bijection(1..n, S)
  BY <1>1 DEF ExistsBijection
<1>4. g \in [1..n -> S] /\ Band!IsInjective(g)
  BY <1>3 DEF Bijection, Injection, IsInjective, Band!IsInjective
<1>. PICK s : s = Band!SetToSeq(S)
  OBVIOUS
<1>5. s \in [1..n -> S] /\ Band!IsInjective(s)
  BY <1>2, <1>4, Zenon DEF Band!SetToSeq
<1>6. s \in Injection(1..n, S)
  BY <1>5 DEF Injection, IsInjective, Band!IsInjective
<1>7. IsFiniteSet(1..n) /\ Cardinality(1..n) = n
  BY FS_Interval
<1>8. s \in Surjection(1..n, S)
  BY <1>2, <1>6, <1>7, FS_Injection
<1>9. ToSet(s) = S
  BY <1>5, <1>8 DEF Surjection, ToSet
<1>10. IsSeq(s)
  BY <1>5, SeqDef, SequenceIs
<1>. QED
  BY <1>9, <1>10

LEMMA PicturesInit == ASSUME PicturesParams, Band!Init PROVE PicturesInv
<1>. PICK land : land = CHOOSE t \in Tiles : t \notin TownTiles
  OBVIOUS
<1>1. land \in Tiles /\ land # None
  BY DEF PicturesParams
<1>2. at \in [Units -> {land}] /\ order = Band!SetToSeq(Units) /\ transported = {}
  BY DEF Band!Init
<1>3. Band!Known = Units
  BY <1>1, <1>2 DEF Band!Known
<1>4. IsSeq(order) /\ ToSet(order) = Units
  BY <1>2, AllListed DEF PicturesParams
<1>5. Placed
  BY <1>1, <1>2, <1>3, <1>4 DEF Placed
<1>6. anim_list = [u \in Units |-> << >>] /\ anim_units_count = 0
  BY DEF Band!Init
<1>7. Sliding
  BY <1>6, NoSlide DEF Sliding, Counts, PicturesParams
<1>8. current_focus = << >> /\ shared = None /\ panel.marked = {}
  BY DEF Band!Init
<1>9. Band!PanelMarks
  BY <1>8, OneInFocus, MarksIs
<1>. QED
  BY <1>5, <1>7, <1>9 DEF PicturesInv

LEMMA PicturesStep == ASSUME PicturesParams, PicturesInv, [Band!Next]_Band!vars PROVE PicturesInv'
<1>1. CASE UNCHANGED Band!vars
  <2>1. UNCHANGED Band!mirror /\ UNCHANGED Band!focusVars /\ UNCHANGED Band!anims
    BY <1>1 DEF Band!vars, Band!mirror, Band!focusVars, Band!anims
  <2>. QED
    BY <2>1, SamePlaced, SameMarks, SameSliding DEF PicturesInv
<1>2. ASSUME NEW u \in Units, NEW t \in Tiles, NEW aboard \in BOOLEAN, Band!UnitInfo(u, t, aboard) PROVE PicturesInv'
  BY <1>2, UnitInfoKeeps
<1>3. ASSUME NEW u \in Units, Band!UnitRemove(u) PROVE PicturesInv'
  BY <1>3, UnitRemoveKeeps
<1>4. ASSUME NEW u \in Units, Band!ClickPanel(u) \/ Band!SetUnitFocusAndRedraw(u) PROVE PicturesInv'
  BY <1>4, FocusKeeps DEF Band!ClickPanel
<1>5. ASSUME NEW t \in Tiles, Band!DrawTile(t) PROVE PicturesInv'
  <2>1. UNCHANGED Band!mirror /\ UNCHANGED Band!focusVars /\ \E u : Band!FillUnitSpriteArray(u)
    BY <1>5 DEF Band!DrawTile
  <2>. QED
    BY <2>1, SamePlaced, SameMarks, FillKeeps DEF PicturesInv
<1>6. ASSUME NEW t \in Tiles, Band!ClickForeignTile(t) PROVE PicturesInv'
  BY <1>6, ClickForeignKeeps
<1>7. CASE Band!ToggleCity
  <2>1. UNCHANGED Band!mirror /\ UNCHANGED Band!focusVars /\ UNCHANGED Band!anims
    BY <1>7 DEF Band!ToggleCity
  <2>. QED
    BY <2>1, SamePlaced, SameMarks, SameSliding DEF PicturesInv
<1>8. CASE Band!EndTurn
  <2>1. UNCHANGED Band!mirror /\ UNCHANGED Band!focusVars
    BY <1>8 DEF Band!EndTurn
  <2>2. anim_list' = [u \in Units |-> << >>] /\ anim_units_count' = 0
    BY <1>8 DEF Band!EndTurn
  <2>3. Sliding'
    BY <2>2, NoSlide DEF Sliding, Counts, PicturesParams
  <2>. QED
    BY <2>1, <2>3, SamePlaced, SameMarks DEF PicturesInv
<1>. QED
  BY <1>1, <1>2, <1>3, <1>4, <1>5, <1>6, <1>7, <1>8 DEF Band!Next

LEMMA PicturesSoundIs == ASSUME PicturesInv PROVE Band!PicturesSound
<1>1. Band!TypeOK
  <2>1. Band!ToSet(order) = ToSet(order)
    BY BandLists
  <2>. QED
    BY <2>1, Zenon DEF PicturesInv, Placed, Sliding, Counts, Band!TypeOK
<1>2. Band!SlidesEnd
  BY DEF PicturesInv, Sliding, Slide, Apart, Begun, Band!SlidesEnd
<1>. QED
  BY <1>1, <1>2 DEF PicturesInv, Band!PicturesSound

\* Units slide and come to rest, the panel marks the unit in focus, and whoever is in focus is
\* mirrored, whatever the number of units and tiles, the steps of a slide and the order of packets,
\* clicks and drawing.
THEOREM PicturesAreSound == ASSUME PicturesParams PROVE Band!Spec => []Band!PicturesSound
<1>1. Band!Init => PicturesInv
  BY PicturesInit
<1>2. PicturesInv /\ [Band!Next]_Band!vars => PicturesInv'
  BY PicturesStep
<1>3. PicturesInv => Band!PicturesSound
  BY PicturesSoundIs
<1>. QED
  BY <1>1, <1>2, <1>3, PTL DEF Band!Spec

-----------------------------------------------------------------------------
(* The overview map: its picture, its hash and its colours.                *)

CONSTANTS XSize, YSize, WrapX, WrapY, Iso, Hex, W, H, NoTile, Terrains, Owners, Me,
          Changing, Faces, Sites, MinWidth, NoOne
VARIABLES tile, corner, sliding, drawn

Minimap == INSTANCE Overview

\* What is needed of the parameters: a map and tiles of some size, kinds of terrain
\* that are numbered from 0, and players that are numbers.
OverviewParams ==
  /\ XSize \in Nat \ {0} /\ YSize \in Nat \ {0} /\ W \in Nat \ {0} /\ H \in Nat \ {0}
  /\ \E n \in Nat \ {0} : Terrains = 0..n - 1
  /\ Owners \subseteq Nat /\ Me # NoOne
  /\ Changing \subseteq Minimap!Tiles /\ Faces \subseteq Minimap!TileRec
  /\ Sites \subseteq Int \X Int /\ MinWidth \in Int

\* The invariant.
Mapped == tile \in [Minimap!Tiles -> Minimap!TileRec] /\ corner \in Sites /\ sliding \in BOOLEAN
Printed ==
  /\ \A t \in DOMAIN drawn.grid : t \in Minimap!Tiles /\ drawn.grid[t] \in Nat
  /\ drawn.hash \in Int /\ drawn.rect \in Sites
OverviewInv == Mapped /\ Printed /\ Minimap!HashIsOfDrawn

\* The loop of init_overview ends, and the overview is wide enough then.
LEMMA SizeIs == ASSUME OverviewParams PROVE Minimap!OverviewTileSize * XSize >= MinWidth
<1>. PICK x \in Nat : x = XSize /\ x >= 1
  BY DEF OverviewParams
<1>. PICK w \in Int : w = MinWidth
  BY DEF OverviewParams
<1>. PICK l \in Nat : l = Minimap!Larger(1, w) /\ l >= 1 /\ l >= w
  BY DEF Minimap!Larger
<1>. PICK T \in SUBSET Nat : T = {s \in 1..l : s * x >= w}
  <2>1. {s \in 1..l : s * x >= w} \in SUBSET Nat
    OBVIOUS
  <2>. QED
    BY <2>1, Zenon
<1>1. l \in T
  <2>1. l * x >= l
    OBVIOUS
  <2>. QED
    BY <2>1
<1>2. PICK m \in T : \A e \in T : m <= e
  BY <1>1, Least
<1>3. \A r \in 1..m - 1 : r * x < w
  <2>1. ASSUME NEW r \in 1..m - 1 PROVE r * x < w
    <3>0. m \in Nat /\ m \in 1..l /\ ~(m <= r) /\ r \in 1..l
      OBVIOUS
    <3>1. r \notin T
      BY <1>2, <3>0
    <3>2. ~(r * x >= w) /\ r * x \in Int
      BY <3>1
    <3>. QED
      BY <3>2
  <2>. QED
    BY <2>1
<1>4. m \in 1..l /\ m * x >= w
  OBVIOUS
<1>5. Minimap!OverviewTileSize = CHOOSE s \in 1..l : s * x >= w /\ \A r \in 1..s - 1 : r * x < w
  BY DEF Minimap!OverviewTileSize
<1>. QED
  BY <1>3, <1>4, <1>5

\* The colours of tiles are numbers, and so is their sum.
TotalIs(colors, n, f) == f = [k \in 0..n |-> IF k = 0 THEN 0 ELSE f[k - 1] + colors[k - 1]]

LEMMA TotalInt ==
  ASSUME OverviewParams, NEW colors, \A t \in Minimap!Tiles : colors[t] \in Int
  PROVE  Minimap!Total(colors) \in Int
<1>. PICK n \in Nat : n = XSize * YSize
  BY DEF OverviewParams
<1>0. \A k \in 1..n : k - 1 \in Minimap!Tiles
  BY DEF Minimap!Tiles
<1>. PICK step : step = [p \in Int \X (1..n) |-> p[1] + colors[p[2] - 1]]
  OBVIOUS
<1>1. step \in [Int \X (1..n) -> Int]
  <2>1. \A p \in Int \X (1..n) : p[1] \in Int /\ p[2] \in 1..n
    OBVIOUS
  <2>. QED
    BY <1>0, <2>1
<1>2. PICK f : Loop(n, Int, 0, step, f)
  <2>. PICK S : S = Int
    OBVIOUS
  <2>. PICK base \in S : base = 0
    OBVIOUS
  <2>1. step \in [S \X (1..n) -> S]
    BY <1>1
  <2>2. \E f : Loop(n, S, base, step, f)
    BY <2>1, Recursion
  <2>. QED
    BY <2>2
<1>3. f \in [0..n -> Int] /\ f[0] = 0 /\ \A k \in 1..n : f[k] = f[k - 1] + colors[k - 1]
  <2>1. f \in [0..n -> Int] /\ f[0] = 0 /\ \A k \in 1..n : f[k] = step[<<f[k - 1], k>>]
    BY <1>2 DEF Loop
  <2>2. ASSUME NEW k \in 1..n PROVE f[k] = f[k - 1] + colors[k - 1]
    <3>1. f[k - 1] \in Int
      BY <2>1
    <3>. QED
      BY <2>1, <3>1
  <2>. QED
    BY <2>1, <2>2
<1>4. TotalIs(colors, n, f)
  <2>1. f = [k \in 0..n |-> f[k]]
    BY <1>3
  <2>2. \A k \in 0..n : f[k] = IF k = 0 THEN 0 ELSE f[k - 1] + colors[k - 1]
    <3>1. \A k \in 0..n : k = 0 \/ k \in 1..n
      OBVIOUS
    <3>. QED
      BY <1>3, <3>1
  <2>. QED
    BY <2>1, <2>2, Zenon DEF TotalIs
<1>. PICK F : F = CHOOSE g : TotalIs(colors, n, g)
  OBVIOUS
<1>5. TotalIs(colors, n, F)
  BY <1>4, Zenon
<1>6. F[0] = 0 /\ \A k \in 1..n : F[k] = F[k - 1] + colors[k - 1]
  <2>1. \A k \in 0..n : F[k] = IF k = 0 THEN 0 ELSE F[k - 1] + colors[k - 1]
    BY <1>5, Zenon DEF TotalIs
  <2>2. 0 \in 0..n /\ \A k \in 1..n : k \in 0..n /\ k # 0
    OBVIOUS
  <2>. QED
    BY <2>1, <2>2, Zenon
<1>7. F[n] = f[n]
  <2>1. \A k \in 1..n : F[k - 1] = f[k - 1] => F[k] = f[k]
    BY <1>3, <1>6, Zenon
  <2>2. F[0] = f[0]
    BY <1>3, <1>6
  <2>. QED
    BY <2>1, <2>2, SameLoop
<1>8. Minimap!Total(colors) = F[n]
  BY Zenon DEF Minimap!Total, TotalIs
<1>. QED
  BY <1>3, <1>7, <1>8

\* Where the parts of the palette begin.
LEMMA PaletteIs ==
  ASSUME OverviewParams
  PROVE  \E n \in Nat : /\ n >= 9 /\ \A p \in Owners : Minimap!PlayerColor(p) \in Nat /\ Minimap!PlayerColor(p) >= n
                        /\ \A k \in Terrains : Minimap!TerrainColor(k) \in 8..n - 1
                        /\ \A k, l \in Terrains : Minimap!TerrainColor(k) = Minimap!TerrainColor(l) => k = l
<1>1. PICK c \in Nat \ {0} : Terrains = 0..c - 1
  BY DEF OverviewParams
<1>2. Cardinality(0..c - 1) = c
  BY FS_Interval
<1>3. Minimap!Cardinality(Terrains) = c
  BY <1>1, <1>2 DEF Minimap!Cardinality, Cardinality
<1>4. \A p \in Owners : Minimap!PlayerColor(p) = 8 + c + p /\ p \in Nat
  BY <1>3 DEF Minimap!PlayerColor, OverviewParams
<1>5. \A k \in Terrains : Minimap!TerrainColor(k) = 8 + k
  BY DEF Minimap!TerrainColor
<1>. PICK n \in Nat : n = 8 + c /\ n >= 9
  OBVIOUS
<1>6. \A p \in Owners : Minimap!PlayerColor(p) \in Nat /\ Minimap!PlayerColor(p) >= n
  BY <1>4
<1>7. \A k \in Terrains : k \in Int /\ Minimap!TerrainColor(k) = 8 + k /\ Minimap!TerrainColor(k) \in 8..n - 1
  BY <1>1, <1>5
<1>8. \A k, l \in Terrains : Minimap!TerrainColor(k) = Minimap!TerrainColor(l) => k = l
  BY <1>7
<1>. QED
  BY <1>6, <1>7, <1>8, Zenon

\* The colours of a tile, kind by kind.
LEMMA ColorIs ==
  ASSUME OverviewParams, Mapped, NEW t \in Minimap!Tiles, NEW p, p = tile[t]
  PROVE  /\ p \in Minimap!TileRec /\ Minimap!TileColor(t) \in Nat
         /\ p.city # NoOne => Minimap!TileColor(t) = IF p.city = Me THEN 1 ELSE 3
         /\ p.city = NoOne /\ p.unit # NoOne => Minimap!TileColor(t) = IF p.unit = Me THEN 4 ELSE Minimap!PlayerColor(p.unit)
         /\ p.city = NoOne /\ p.unit = NoOne /\ ~p.known => Minimap!TileColor(t) = 0
         /\ p.city = NoOne /\ p.unit = NoOne /\ p.known /\ p.owner # NoOne => Minimap!TileColor(t) = Minimap!PlayerColor(p.owner)
         /\ p.city = NoOne /\ p.unit = NoOne /\ p.known /\ p.owner = NoOne => Minimap!TileColor(t) = Minimap!TerrainColor(p.terrain)
<1>1. p \in Minimap!TileRec
  BY DEF Mapped
<1>2. Minimap!TileColor(t) =
        IF p.city # NoOne THEN IF p.city = Me THEN 1 ELSE 3
        ELSE IF p.unit # NoOne THEN IF p.unit = Me THEN 4 ELSE Minimap!PlayerColor(p.unit)
        ELSE IF ~p.known THEN 0
        ELSE IF p.owner # NoOne THEN Minimap!PlayerColor(p.owner) ELSE Minimap!TerrainColor(p.terrain)
  BY DEF Minimap!TileColor
<1>3. /\ p.unit # NoOne => Minimap!PlayerColor(p.unit) \in Nat
      /\ p.owner # NoOne => Minimap!PlayerColor(p.owner) \in Nat
      /\ Minimap!TerrainColor(p.terrain) \in Nat
  <2>1. p.unit \in Owners \cup {NoOne} /\ p.owner \in Owners \cup {NoOne} /\ p.terrain \in Terrains
    BY <1>1 DEF Minimap!TileRec
  <2>2. PICK n \in Nat : /\ \A q \in Owners : Minimap!PlayerColor(q) \in Nat
                         /\ \A k \in Terrains : Minimap!TerrainColor(k) \in 8..n - 1
    BY PaletteIs
  <2>. QED
    BY <2>1, <2>2
<1>4. Minimap!TileColor(t) \in Nat
  BY <1>2, <1>3
<1>. QED
  BY <1>1, <1>2, <1>4, Zenon

\* The picture of a map of even sizes is of all its tiles.
LEMMA GridIs ==
  ASSUME OverviewParams, Mapped
  PROVE  /\ DOMAIN Minimap!Grid \subseteq Minimap!Tiles /\ \A t \in DOMAIN Minimap!Grid : Minimap!Grid[t] \in Nat
         /\ Minimap!Cols = XSize /\ Minimap!Rows = YSize =>
              Minimap!Grid = [t \in Minimap!Tiles |-> Minimap!TileColor(t)]
<1>. PICK D \in SUBSET Minimap!Tiles : D = {t \in Minimap!Tiles : Minimap!X(t) < Minimap!Cols /\ Minimap!Y(t) < Minimap!Rows}
  OBVIOUS
<1>1. Minimap!Grid = [t \in D |-> Minimap!TileColor(t)]
  BY Zenon DEF Minimap!Grid
<1>2. \A t \in Minimap!Tiles : Minimap!TileColor(t) \in Nat
  BY ColorIs
<1>3. ASSUME Minimap!Cols = XSize, Minimap!Rows = YSize PROVE D = Minimap!Tiles
  <2>1. ASSUME NEW t \in Minimap!Tiles PROVE t \in D
    <3>. PICK x \in Nat : x = XSize /\ x >= 1
      BY DEF OverviewParams
    <3>. PICK y \in Nat : y = YSize
      BY DEF OverviewParams
    <3>. PICK n \in Nat : n = x * y
      OBVIOUS
    <3>1. t \in Nat /\ t < n
      BY DEF Minimap!Tiles
    <3>. PICK r \in 0..x - 1 : r = t % x
      BY <3>1
    <3>2. t = (x * (t \div x)) + r /\ t \div x \in Nat
      BY <3>1
    <3>. PICK q \in Nat : q = t \div x
      BY <3>2
    <3>. PICK xq \in Nat : xq = x * q
      OBVIOUS
    <3>3. x * q <= t
      BY <3>2
    <3>4. q < y
      <4>1. ASSUME q >= y PROVE FALSE
        <5>1. x * q >= x * y
          BY <4>1
        <5>. QED
          BY <3>1, <3>3, <5>1
      <4>. QED
        BY <4>1
    <3>. QED
      BY <1>3, <3>2, <3>4 DEF Minimap!X, Minimap!Y
  <2>. QED
    BY <2>1
<1>. QED
  BY <1>1, <1>2, <1>3

\* The corner of the view adds a number.
LEMMA CornerInt == ASSUME OverviewParams, NEW c \in Sites PROVE Minimap!CornerOf(c) \in Int
<1>. PICK w \in Nat : w = W /\ w >= 1
  BY DEF OverviewParams
<1>. PICK h \in Nat : h = H /\ h >= 1
  BY DEF OverviewParams
<1>. PICK d \in Nat : d = w * h /\ d >= 1
  OBVIOUS
<1>1. c[1] \in Int /\ c[2] \in Int
  BY DEF OverviewParams
<1>. PICK x \in Int : x = c[1] - w \div 2
  BY <1>1
<1>. PICK a \in Int : a = x * h
  OBVIOUS
<1>. PICK b \in Int : b = c[2] * w
  BY <1>1
<1>2. (a + b) \div d \in Int /\ (b - a) \div d \in Int
  OBVIOUS
<1>3. Minimap!GuiToMap(c[1], c[2]) = <<(a + b) \div d, (b - a) \div d>>
  BY DEF Minimap!GuiToMap
<1>. QED
  BY <1>2, <1>3 DEF Minimap!CornerOf

LEMMA HashInt == ASSUME OverviewParams, Mapped, NEW c \in Sites PROVE Minimap!Hash(c) \in Int
<1>. PICK colors : colors = [t \in Minimap!Tiles |-> Minimap!TileColor(t)]
  OBVIOUS
<1>1. \A t \in Minimap!Tiles : colors[t] \in Int
  <2>1. \A t \in Minimap!Tiles : Minimap!TileColor(t) \in Nat
    BY ColorIs
  <2>. QED
    BY <2>1
<1>2. Minimap!Total(colors) \in Int
  BY <1>1, TotalInt
<1>3. Minimap!CornerOf(c) \in Int
  BY CornerInt
<1>4. Minimap!Hash(c) = Minimap!Total(colors) + Minimap!CornerOf(c)
  BY DEF Minimap!Hash
<1>. QED
  BY <1>2, <1>3, <1>4

\* A picture is drawn together with its hash.
LEMMA RedrawKeeps ==
  ASSUME OverviewParams, OverviewInv, NEW c \in Sites, Minimap!Redraw(c)
  PROVE  Printed' /\ Minimap!HashIsOfDrawn'
<1>1. CASE UNCHANGED drawn
  BY <1>1 DEF OverviewInv, Printed, Minimap!HashIsOfDrawn
<1>2. CASE drawn' = [grid |-> Minimap!Grid, hash |-> Minimap!Hash(c), rect |-> Minimap!ViewRect(c)]
  <2>1. drawn'.grid = Minimap!Grid /\ drawn'.hash = Minimap!Hash(c) /\ drawn'.rect = Minimap!ViewRect(c)
    BY <1>2
  <2>2. Minimap!ViewRect(c) \in Sites
    BY DEF OverviewInv, Printed, Minimap!ViewRect
  <2>3. Minimap!Hash(c) \in Int
    BY HashInt DEF OverviewInv
  <2>4. Printed'
    BY <2>1, <2>2, <2>3, GridIs DEF OverviewInv, Printed
  <2>5. ASSUME Minimap!Cols = XSize, Minimap!Rows = YSize
        PROVE  drawn'.hash = Minimap!Total(drawn'.grid) + Minimap!CornerOf(c)
    <3>1. drawn'.grid = [t \in Minimap!Tiles |-> Minimap!TileColor(t)]
      BY <2>1, <2>5, GridIs DEF OverviewInv
    <3>. QED
      BY <2>1, <3>1, Zenon DEF Minimap!Hash
  <2>6. Minimap!HashIsOfDrawn'
    BY <2>5, Zenon DEF Minimap!HashIsOfDrawn
  <2>. QED
    BY <2>4, <2>6
<1>. QED
  BY <1>1, <1>2 DEF Minimap!Redraw

LEMMA SameScreen == ASSUME OverviewInv, UNCHANGED drawn PROVE Printed' /\ Minimap!HashIsOfDrawn'
BY DEF OverviewInv, Printed, Minimap!HashIsOfDrawn

LEMMA OverviewInit == ASSUME OverviewParams, Minimap!Init PROVE OverviewInv
<1>1. Mapped
  <2>. PICK plain : plain = Minimap!Plain
    OBVIOUS
  <2>1. plain \in Minimap!TileRec
    <3>. PICK k : k = CHOOSE x \in Terrains : TRUE
      OBVIOUS
    <3>1. k \in Terrains
      <4>1. 0 \in Terrains
        BY DEF OverviewParams
      <4>. QED
        BY <4>1
    <3>2. plain = [known |-> TRUE, terrain |-> k, owner |-> NoOne, city |-> NoOne, unit |-> NoOne]
      BY DEF Minimap!Plain
    <3>. QED
      BY <3>1, <3>2 DEF Minimap!TileRec
  <2>2. tile = [t \in Minimap!Tiles |-> plain] /\ corner \in Sites /\ sliding = FALSE
    BY DEF Minimap!Init
  <2>3. sliding \in BOOLEAN
    BY <2>2, Zenon
  <2>. QED
    BY <2>1, <2>2, <2>3 DEF Mapped
<1>2. drawn = [grid |-> <<>>, hash |-> -1, rect |-> corner]
  BY DEF Minimap!Init
<1>3. DOMAIN drawn.grid = {} /\ drawn.hash = -1 /\ drawn.rect = corner
  BY <1>2, EmptyIs
<1>. QED
  BY <1>1, <1>3 DEF OverviewInv, Mapped, Printed, Minimap!HashIsOfDrawn

LEMMA OverviewStep == ASSUME OverviewParams, OverviewInv, [Minimap!Next]_Minimap!vars PROVE OverviewInv'
<1>1. CASE UNCHANGED Minimap!vars
  BY <1>1, SameScreen DEF OverviewInv, Mapped, Minimap!vars
<1>2. ASSUME NEW t \in Changing, Minimap!TileChanges(t) PROVE OverviewInv'
  <2>1. PICK r \in Faces : tile' = [tile EXCEPT ![t] = r]
    BY <1>2 DEF Minimap!TileChanges
  <2>2. UNCHANGED <<corner, sliding, drawn>>
    BY <1>2 DEF Minimap!TileChanges
  <2>3. r \in Minimap!TileRec
    BY DEF OverviewParams
  <2>4. tile' \in [Minimap!Tiles -> Minimap!TileRec]
    BY <2>1, <2>3 DEF OverviewInv, Mapped
  <2>. QED
    BY <2>2, <2>4, SameScreen DEF OverviewInv, Mapped
<1>3. ASSUME NEW s \in Changing, NEW t \in Changing, Minimap!UnitMoves(s, t) PROVE OverviewInv'
  <2>. PICK a : a = [tile[s] EXCEPT !.unit = NoOne]
    OBVIOUS
  <2>. PICK b : b = [tile[t] EXCEPT !.unit = tile[s].unit]
    OBVIOUS
  <2>1. tile[s] \in Minimap!TileRec /\ tile[t] \in Minimap!TileRec /\ tile \in [Minimap!Tiles -> Minimap!TileRec]
    BY DEF OverviewInv, Mapped, OverviewParams
  <2>2. tile[s].unit \in Owners \cup {NoOne}
    BY <2>1 DEF Minimap!TileRec
  <2>3. a \in Minimap!TileRec
    BY <2>1 DEF Minimap!TileRec
  <2>4. b \in Minimap!TileRec
    BY <2>1, <2>2 DEF Minimap!TileRec
  <2>5. UNCHANGED <<corner, sliding, drawn>> /\ s # t
    BY <1>3, Zenon DEF Minimap!UnitMoves
  <2>6. tile' = [tile EXCEPT ![s].unit = NoOne, ![t].unit = tile[s].unit]
    BY <1>3 DEF Minimap!UnitMoves
  <2>7. tile' = [[tile EXCEPT ![s] = a] EXCEPT ![t] = b]
    BY <2>1, <2>5, <2>6
  <2>8. tile' \in [Minimap!Tiles -> Minimap!TileRec]
    <3>. HIDE DEF Minimap!TileRec
    <3>. QED
      BY <2>1, <2>3, <2>4, <2>7
  <2>. QED
    BY <2>5, <2>8, SameScreen DEF OverviewInv, Mapped
<1>4. CASE Minimap!ViewMoves
  <2>1. corner' \in Sites /\ sliding' \in BOOLEAN /\ UNCHANGED <<tile, drawn>>
    BY <1>4, Zenon DEF Minimap!ViewMoves
  <2>. QED
    BY <2>1, SameScreen DEF OverviewInv, Mapped
<1>5. CASE Minimap!Clicked
  <2>1. PICK c \in Sites : corner' = c /\ Minimap!Redraw(c) /\ UNCHANGED <<tile, sliding>>
    BY <1>5 DEF Minimap!Clicked
  <2>2. Printed' /\ Minimap!HashIsOfDrawn'
    BY <2>1, RedrawKeeps
  <2>. QED
    BY <2>1, <2>2 DEF OverviewInv, Mapped
<1>6. CASE Minimap!Timer
  <2>1. Minimap!Redraw(corner) /\ UNCHANGED <<tile, corner, sliding>> /\ corner \in Sites
    BY <1>6 DEF Minimap!Timer, OverviewInv, Mapped
  <2>. PICK c \in Sites : c = corner
    BY <2>1
  <2>2. Minimap!Redraw(c)
    BY <2>1
  <2>3. Printed' /\ Minimap!HashIsOfDrawn'
    BY <2>2, RedrawKeeps
  <2>. QED
    BY <2>1, <2>3 DEF OverviewInv, Mapped
<1>. QED
  BY <1>1, <1>2, <1>3, <1>4, <1>5, <1>6 DEF Minimap!Next

\* What a tile shows, and what it cannot be confused with.
Kind(p) == CASE p.city # NoOne -> <<"city", p.city = Me>>
             [] p.city = NoOne /\ p.unit = Me -> <<"mine">>
             [] p.city = NoOne /\ p.unit = NoOne /\ ~p.known -> <<"unknown">>
             [] p.city = NoOne /\ p.unit = NoOne /\ p.known /\ p.owner = NoOne -> <<"terrain", p.terrain>>
             [] OTHER -> <<"theirs">>

LEMMA KindIs ==
  ASSUME OverviewParams, NEW p
  PROVE  /\ p.city # NoOne => Kind(p) = <<"city", p.city = Me>>
         /\ p.city = NoOne /\ p.unit = Me => Kind(p) = <<"mine">>
         /\ p.city = NoOne /\ p.unit = NoOne /\ ~p.known => Kind(p) = <<"unknown">>
         /\ p.city = NoOne /\ p.unit = NoOne /\ p.known /\ p.owner = NoOne => Kind(p) = <<"terrain", p.terrain>>
         /\ p.city = NoOne /\ p.unit # Me /\ p.unit # NoOne => Kind(p) = <<"theirs">>
         /\ p.city = NoOne /\ p.unit = NoOne /\ p.known /\ p.owner # NoOne => Kind(p) = <<"theirs">>
BY DEF Kind, OverviewParams

\* From a colour the kind can be told.
Said(k, c, n) ==
  \/ c = 0 /\ k = <<"unknown">>
  \/ c = 1 /\ k = <<"city", TRUE>>
  \/ c = 3 /\ k = <<"city", FALSE>>
  \/ c = 4 /\ k = <<"mine">>
  \/ c >= n /\ k = <<"theirs">>
  \/ c \in 8..n - 1 /\ \E x \in Terrains : c = Minimap!TerrainColor(x) /\ k = <<"terrain", x>>

LEMMA ColorSays ==
  ASSUME OverviewParams, Mapped, NEW t \in Minimap!Tiles, NEW n \in Nat, n >= 9,
         \A p \in Owners : Minimap!PlayerColor(p) \in Nat /\ Minimap!PlayerColor(p) >= n,
         \A k \in Terrains : Minimap!TerrainColor(k) \in 8..n - 1
  PROVE  Said(Kind(tile[t]), Minimap!TileColor(t), n)
<1>. PICK p : p = tile[t]
  OBVIOUS
<1>. PICK c : c = Minimap!TileColor(t)
  OBVIOUS
<1>. PICK k : k = Kind(p)
  OBVIOUS
<1>1. p.unit \in Owners \cup {NoOne} /\ p.owner \in Owners \cup {NoOne} /\ p.terrain \in Terrains
  BY ColorIs DEF Minimap!TileRec
<1>2. CASE p.city # NoOne
  <2>1. k = <<"city", p.city = Me>> /\ c = IF p.city = Me THEN 1 ELSE 3
    BY <1>2, ColorIs, KindIs, Zenon
  <2>2. CASE p.city = Me
    <3>1. (p.city = Me) = TRUE
      BY <2>2, Zenon
    <3>2. k = <<"city", TRUE>> /\ c = 1
      BY <2>1, <2>2, <3>1, Zenon
    <3>. QED
      BY <3>2, Zenon DEF Said
  <2>3. CASE p.city # Me
    <3>1. (p.city = Me) = FALSE
      BY <2>3, Zenon
    <3>2. k = <<"city", FALSE>> /\ c = 3
      BY <2>1, <2>3, <3>1, Zenon
    <3>. QED
      BY <3>2, Zenon DEF Said
  <2>. QED
    BY <2>2, <2>3
<1>3. CASE p.city = NoOne /\ p.unit # NoOne /\ p.unit = Me
  <2>1. k = <<"mine">> /\ c = 4
    BY <1>3, ColorIs, KindIs, Zenon
  <2>. QED
    BY <2>1, Zenon DEF Said
<1>4. CASE p.city = NoOne /\ p.unit # NoOne /\ p.unit # Me
  <2>1. k = <<"theirs">> /\ c = Minimap!PlayerColor(p.unit)
    BY <1>4, ColorIs, KindIs, Zenon
  <2>2. c >= n
    BY <1>1, <1>4, <2>1
  <2>. QED
    BY <2>1, <2>2, Zenon DEF Said
<1>5. CASE p.city = NoOne /\ p.unit = NoOne /\ ~p.known
  <2>1. k = <<"unknown">> /\ c = 0
    BY <1>5, ColorIs, KindIs, Zenon
  <2>. QED
    BY <2>1, Zenon DEF Said
<1>6. CASE p.city = NoOne /\ p.unit = NoOne /\ p.known /\ p.owner # NoOne
  <2>1. k = <<"theirs">> /\ c = Minimap!PlayerColor(p.owner)
    BY <1>6, ColorIs, KindIs, Zenon
  <2>2. c >= n
    BY <1>1, <1>6, <2>1
  <2>. QED
    BY <2>1, <2>2, Zenon DEF Said
<1>7. CASE p.city = NoOne /\ p.unit = NoOne /\ p.known /\ p.owner = NoOne
  <2>1. k = <<"terrain", p.terrain>> /\ c = Minimap!TerrainColor(p.terrain)
    BY <1>7, ColorIs, KindIs, Zenon
  <2>2. c \in 8..n - 1
    BY <1>1, <2>1
  <2>. QED
    BY <1>1, <2>1, <2>2, Zenon DEF Said
<1>. QED
  BY <1>2, <1>3, <1>4, <1>5, <1>6, <1>7

LEMMA SaidOnce ==
  ASSUME NEW n \in Nat, n >= 9, NEW c \in Nat, NEW k, NEW l, Said(k, c, n), Said(l, c, n),
         \A x, y \in Terrains : Minimap!TerrainColor(x) = Minimap!TerrainColor(y) => x = y
  PROVE  k = l
<1>1. CASE c \in 8..n - 1
  <2>1. c # 0 /\ c # 1 /\ c # 3 /\ c # 4 /\ ~(c >= n)
    BY <1>1
  <2>2. PICK x \in Terrains : c = Minimap!TerrainColor(x) /\ k = <<"terrain", x>>
    BY <2>1, Zenon DEF Said
  <2>3. PICK y \in Terrains : c = Minimap!TerrainColor(y) /\ l = <<"terrain", y>>
    BY <2>1, Zenon DEF Said
  <2>. QED
    BY <2>2, <2>3, Zenon
<1>2. CASE c >= n
  <2>1. c # 0 /\ c # 1 /\ c # 3 /\ c # 4 /\ c \notin 8..n - 1
    BY <1>2
  <2>. QED
    BY <2>1, Zenon DEF Said
<1>3. CASE c < 8
  <2>1. c \notin 8..n - 1 /\ ~(c >= n)
    BY <1>3
  <2>2. CASE c = 0
    <3>1. c # 1 /\ c # 3 /\ c # 4
      BY <2>2
    <3>. QED
      BY <2>1, <3>1, Zenon DEF Said
  <2>3. CASE c = 1
    <3>1. c # 0 /\ c # 3 /\ c # 4
      BY <2>3
    <3>. QED
      BY <2>1, <3>1, Zenon DEF Said
  <2>4. CASE c = 3
    <3>1. c # 0 /\ c # 1 /\ c # 4
      BY <2>4
    <3>. QED
      BY <2>1, <3>1, Zenon DEF Said
  <2>5. CASE c = 4
    <3>1. c # 0 /\ c # 1 /\ c # 3
      BY <2>5
    <3>. QED
      BY <2>1, <3>1, Zenon DEF Said
  <2>6. CASE c # 0 /\ c # 1 /\ c # 3 /\ c # 4
    BY <2>1, <2>6, Zenon DEF Said
  <2>. QED
    BY <2>2, <2>3, <2>4, <2>5, <2>6
<1>4. c \in 8..n - 1 \/ c >= n \/ c < 8
  OBVIOUS
<1>. QED
  BY <1>1, <1>2, <1>3, <1>4, Zenon

LEMMA ColorsAre == ASSUME OverviewParams, Mapped PROVE Minimap!ColorsTellApart
<1>1. PICK n \in Nat : /\ n >= 9 /\ \A p \in Owners : Minimap!PlayerColor(p) \in Nat /\ Minimap!PlayerColor(p) >= n
                       /\ \A k \in Terrains : Minimap!TerrainColor(k) \in 8..n - 1
                       /\ \A k, l \in Terrains : Minimap!TerrainColor(k) = Minimap!TerrainColor(l) => k = l
  BY PaletteIs
<1>2. ASSUME NEW s \in Minimap!Tiles, NEW t \in Minimap!Tiles, Minimap!TileColor(s) = Minimap!TileColor(t)
      PROVE  Kind(tile[s]) = Kind(tile[t])
  <2>. PICK c : c = Minimap!TileColor(s)
    OBVIOUS
  <2>1. c \in Nat
    BY ColorIs
  <2>2. Said(Kind(tile[s]), c, n) /\ Said(Kind(tile[t]), c, n)
    BY <1>1, <1>2, ColorSays
  <2>. QED
    BY <1>1, <2>1, <2>2, SaidOnce
<1>. QED
  BY <1>2, Zenon DEF Kind, Minimap!ColorsTellApart

LEMMA OverviewSoundIs == ASSUME OverviewParams, OverviewInv PROVE Minimap!OverviewSound
<1>1. Minimap!TypeOK
  BY SizeIs, Zenon DEF OverviewInv, Mapped, Printed, Minimap!TypeOK
<1>. QED
  BY <1>1, ColorsAre DEF OverviewInv, Minimap!OverviewSound

\* The overview is sound, for every map, ruleset and number of players: what is drawn and the hash
\* that decides whether to draw it belong together, and tiles of different kinds differ in colour.
THEOREM OverviewIsSound == ASSUME OverviewParams PROVE Minimap!Spec => []Minimap!OverviewSound
<1>1. Minimap!Init => OverviewInv
  BY OverviewInit
<1>2. OverviewInv /\ [Minimap!Next]_Minimap!vars => OverviewInv'
  BY OverviewStep
<1>3. OverviewInv => Minimap!OverviewSound
  BY OverviewSoundIs
<1>. QED
  BY <1>1, <1>2, <1>3, PTL DEF Minimap!Spec

-----------------------------------------------------------------------------
(* The tiles around a city: the tables of their numbers.                   *)

CONSTANTS Radii, Most
VARIABLES wraps, sq, maps

Around == INSTANCE CityTiles

\* What is needed of the parameters: a map of some size, squared radii that are numbers, and
\* productions that take fewer turns than stand for never.
TilesParams ==
  /\ XSize \in Nat \ {0} /\ YSize \in Nat \ {0} /\ Sites \subseteq Around!Tiles
  /\ Radii \subseteq Nat /\ Most \in Nat /\ Most < Around!Never

\* The invariant.
TilesInv == sq \in Radii \cup {0} /\ wraps \subseteq {"x", "y"} /\ Around!TablesFit

\* The root that a radius has.
LEMMA RootIs ==
  ASSUME NEW n \in Nat
  PROVE  \E r \in Nat : r = Around!Root(n) /\ r * r <= n /\ n < (r + 1) * (r + 1)
<1>. PICK T \in SUBSET Nat : T = {r \in Nat : n < (r + 1) * (r + 1)}
  <2>1. {r \in Nat : n < (r + 1) * (r + 1)} \in SUBSET Nat
    OBVIOUS
  <2>. QED
    BY <2>1, Zenon
<1>1. n \in T
  <2>. PICK nn \in Nat : nn = n * n
    OBVIOUS
  <2>1. (n + 1) * (n + 1) = nn + n + n + 1
    OBVIOUS
  <2>. QED
    BY <2>1
<1>2. PICK m \in T : \A e \in T : m <= e
  BY <1>1, Least
<1>3. m \in Nat /\ m <= n /\ n < (m + 1) * (m + 1)
  BY <1>1, <1>2
<1>4. m * m <= n
  <2>1. CASE m = 0
    BY <2>1
  <2>2. CASE m # 0
    <3>. PICK k \in Nat : k + 1 = m
      BY <1>3, <2>2
    <3>1. k \notin T
      <4>1. ~(m <= k)
        OBVIOUS
      <4>. QED
        BY <1>2, <4>1
    <3>2. ~(n < (k + 1) * (k + 1)) /\ (k + 1) * (k + 1) \in Nat
      BY <3>1
    <3>. QED
      BY <3>2
  <2>. QED
    BY <2>1, <2>2
<1>5. m \in 0..n /\ m * m <= n /\ (m + 1) * (m + 1) > n
  BY <1>3, <1>4
<1>. PICK r : r = CHOOSE e \in 0..n : e * e <= n /\ (e + 1) * (e + 1) > n
  OBVIOUS
<1>6. r \in 0..n /\ r * r <= n /\ (r + 1) * (r + 1) > n
  BY <1>5
<1>7. r = Around!Root(n)
  BY DEF Around!Root
<1>8. r \in Nat /\ n < (r + 1) * (r + 1)
  BY <1>6
<1>. QED
  BY <1>6, <1>7, <1>8

\* The columns and rows of tiles.
LEMMA PlaceOf ==
  ASSUME NEW x \in Nat \ {0}, NEW y \in Nat \ {0}, NEW t \in 0..x * y - 1
  PROVE  t % x \in 0..x - 1 /\ t \div x \in 0..y - 1
<1>. PICK n \in Nat : n = x * y
  OBVIOUS
<1>1. t \in Nat /\ t < n
  OBVIOUS
<1>. PICK r \in 0..x - 1 : r = t % x
  BY <1>1
<1>2. t = (x * (t \div x)) + r /\ t \div x \in Nat
  BY <1>1
<1>. PICK q \in Nat : q = t \div x
  BY <1>2
<1>. PICK xq \in Nat : xq = x * q
  OBVIOUS
<1>3. x * q <= t
  BY <1>2
<1>4. q < y
  <2>1. ASSUME q >= y PROVE FALSE
    <3>1. x * q >= x * y
      BY <2>1
    <3>. QED
      BY <1>1, <1>3, <3>1
  <2>. QED
    BY <2>1
<1>. QED
  BY <1>4

\* What is as near as n is in the square of the root.
Near(v) == Around!MapVectorToSqDistance(v[1], v[2])

LEMMA SquareGrows ==
  ASSUME NEW a \in Nat, NEW r \in Nat, NEW n \in Nat, a * a <= n, n < (r + 1) * (r + 1)
  PROVE  a <= r
<1>1. ASSUME a >= r + 1 PROVE FALSE
  <2>1. a * a >= (r + 1) * (r + 1)
    BY <1>1
  <2>. PICK aa \in Nat : aa = a * a
    OBVIOUS
  <2>. PICK rr \in Nat : rr = (r + 1) * (r + 1)
    OBVIOUS
  <2>. QED
    BY <2>1
<1>. QED
  BY <1>1

LEMMA NearIs ==
  ASSUME NEW v \in Int \X Int
  PROVE  /\ Near(v) \in Nat
         /\ \A r, n \in Nat : Near(v) <= n /\ n < (r + 1) * (r + 1) => v[1] \in -r..r /\ v[2] \in -r..r
<1>. PICK a \in Nat : a = Around!Abs(v[1]) /\ a * a = v[1] * v[1]
  <2>1. v[1] \in Int
    OBVIOUS
  <2>. QED
    BY <2>1 DEF Around!Abs
<1>. PICK b \in Nat : b = Around!Abs(v[2]) /\ b * b = v[2] * v[2]
  <2>1. v[2] \in Int
    OBVIOUS
  <2>. QED
    BY <2>1 DEF Around!Abs
<1>1. PICK d \in Nat : d = Near(v) /\ a * a <= d /\ b * b <= d
  <2>1. CASE Hex
    <3>. PICK m \in Nat : m = Around!MapVectorToDistance(v[1], v[2]) /\ m >= a /\ m >= b
      BY DEF Around!MapVectorToDistance, Around!Larger
    <3>. PICK d \in Nat : d = m * m
      OBVIOUS
    <3>1. a * a <= m * m /\ b * b <= m * m
      OBVIOUS
    <3>2. Near(v) = m * m
      BY <2>1 DEF Near, Around!MapVectorToSqDistance
    <3>. QED
      BY <3>1, <3>2
  <2>2. CASE ~Hex
    <3>. PICK aa \in Nat : aa = a * a
      OBVIOUS
    <3>. PICK bb \in Nat : bb = b * b
      OBVIOUS
    <3>1. Near(v) = aa + bb
      BY <2>2 DEF Near, Around!MapVectorToSqDistance
    <3>. QED
      BY <3>1
  <2>. QED
    BY <2>1, <2>2
<1>2. ASSUME NEW r \in Nat, NEW n \in Nat, Near(v) <= n, n < (r + 1) * (r + 1) PROVE v[1] \in -r..r /\ v[2] \in -r..r
  <2>1. a * a <= n /\ b * b <= n
    <3>. PICK aa \in Nat : aa = a * a
      OBVIOUS
    <3>. PICK bb \in Nat : bb = b * b
      OBVIOUS
    <3>. QED
      BY <1>1, <1>2
  <2>2. a <= r /\ b <= r
    BY <1>2, <2>1, SquareGrows
  <2>3. v[1] \in Int /\ v[2] \in Int
    OBVIOUS
  <2>. QED
    BY <2>2, <2>3 DEF Around!Abs
<1>. QED
  BY <1>1, <1>2

\* Along one edge: what of the way to both sides is on the map.
OnEdge(edge, pos, size, x) == edge \in wraps \/ x \in -pos..size - 1 - pos

LEMMA EdgeIs ==
  ASSUME NEW edge, NEW size \in Nat \ {0}, NEW pos \in 0..size - 1, NEW r \in Nat,
         NEW l, l = Around!Limits(edge, pos, r, size)
  PROVE  /\ l[3] \in 0..2 * r
         /\ \A x \in -r..r : x \in l[1]..l[2] <=> OnEdge(edge, pos, size, x)
         /\ l[3] = 0 => \A x \in -r..r : OnEdge(edge, pos, size, x)
<1>1. CASE edge \in wraps
  <2>1. l = <<-r, r, 0>>
    BY <1>1 DEF Around!Limits
  <2>. QED
    BY <1>1, <2>1 DEF OnEdge
<1>2. CASE edge \notin wraps
  <2>. PICK min \in Int : min = -pos
    OBVIOUS
  <2>. PICK max \in Int : max = size - 1 - pos
    OBVIOUS
  <2>. PICK i : i = IF min > -r THEN r + min ELSE IF max < r THEN 2 * r - max ELSE 0
    OBVIOUS
  <2>1. l = <<min, max, i>>
    BY <1>2 DEF Around!Limits, Around!DeltaTileHelper
  <2>2. min <= 0 /\ max >= 0
    OBVIOUS
  <2>3. i \in 0..2 * r
    BY <2>2
  <2>4. i = 0 => min <= -r /\ max >= r
    BY <2>2
  <2>5. \A x \in -r..r : OnEdge(edge, pos, size, x) <=> x \in min..max
    BY <1>2 DEF OnEdge
  <2>6. i = 0 => \A x \in -r..r : x \in min..max
    BY <2>4
  <2>. QED
    BY <2>1, <2>3, <2>5, <2>6
<1>. QED
  BY <1>1, <1>2

LEMMA EdgesAgree ==
  ASSUME NEW edge, NEW size \in Nat \ {0}, NEW p \in 0..size - 1, NEW q \in 0..size - 1, NEW r \in Nat,
         Around!Limits(edge, p, r, size)[3] = Around!Limits(edge, q, r, size)[3]
  PROVE  \A x \in -r..r : OnEdge(edge, p, size, x) <=> OnEdge(edge, q, size, x)
<1>1. CASE edge \in wraps
  BY <1>1 DEF OnEdge
<1>2. CASE edge \notin wraps
  <2>. PICK i : i = IF -p > -r THEN r - p ELSE IF size - 1 - p < r THEN 2 * r - (size - 1 - p) ELSE 0
    OBVIOUS
  <2>. PICK j : j = IF -q > -r THEN r - q ELSE IF size - 1 - q < r THEN 2 * r - (size - 1 - q) ELSE 0
    OBVIOUS
  <2>1. Around!Limits(edge, p, r, size)[3] = i
    BY <1>2 DEF Around!Limits, Around!DeltaTileHelper
  <2>2. Around!Limits(edge, q, r, size)[3] = j
    BY <1>2 DEF Around!Limits, Around!DeltaTileHelper
  <2>3. i = j
    BY <2>1, <2>2
  <2>4. CASE i = 0
    <3>1. p >= r /\ q >= r /\ size - 1 - p >= r /\ size - 1 - q >= r
      BY <2>3, <2>4
    <3>. QED
      BY <1>2, <3>1 DEF OnEdge
  <2>5. CASE i # 0
    <3>1. p = q
      BY <2>3, <2>5
    <3>. QED
      BY <3>1
  <2>. QED
    BY <2>4, <2>5
<1>. QED
  BY <1>1, <1>2

\* The tiles of a city on t are those as near as the radius and on the map.
InX(t, x) == OnEdge("x", Around!X(t), XSize, x)
InY(t, y) == OnEdge("y", Around!Y(t), YSize, y)
Round(t, n) == {v \in Int \X Int : Near(v) <= n /\ InX(t, v[1]) /\ InY(t, v[2])}
Numbers(S) == [v \in S |-> Around!Cardinality({u \in S : Around!Before(u, v)})]

LEMMA TilePlaces ==
  ASSUME TilesParams, NEW t \in Around!Tiles
  PROVE  Around!X(t) \in 0..XSize - 1 /\ Around!Y(t) \in 0..YSize - 1
<1>. PICK xs \in Nat \ {0} : xs = XSize
  BY DEF TilesParams
<1>. PICK ys \in Nat \ {0} : ys = YSize
  BY DEF TilesParams
<1>1. t \in 0..xs * ys - 1
  BY DEF Around!Tiles
<1>2. t % xs \in 0..xs - 1 /\ t \div xs \in 0..ys - 1
  BY <1>1, PlaceOf
<1>. QED
  BY <1>2 DEF Around!X, Around!Y

LEMMA TableIs ==
  ASSUME TilesParams, NEW t \in Around!Tiles, NEW n \in Nat
  PROVE  Around!TableFor(t, n) = Numbers(Round(t, n))
<1>. PICK r \in Nat : r = Around!Root(n) /\ n < (r + 1) * (r + 1)
  BY RootIs
<1>. PICK dx : dx = Around!DX3(t, r)
  OBVIOUS
<1>. PICK dy : dy = Around!DY3(t, r)
  OBVIOUS
<1>1. \A x \in -r..r : x \in dx[1]..dx[2] <=> InX(t, x)
  <2>1. Around!X(t) \in 0..XSize - 1 /\ XSize \in Nat \ {0} /\ dx = Around!Limits("x", Around!X(t), r, XSize)
    BY TilePlaces DEF TilesParams, Around!DX3
  <2>. QED
    BY <2>1, EdgeIs, Zenon DEF InX
<1>2. \A y \in -r..r : y \in dy[1]..dy[2] <=> InY(t, y)
  <2>1. Around!Y(t) \in 0..YSize - 1 /\ YSize \in Nat \ {0} /\ dy = Around!Limits("y", Around!Y(t), r, YSize)
    BY TilePlaces DEF TilesParams, Around!DY3
  <2>. QED
    BY <2>1, EdgeIs, Zenon DEF InY
<1>. PICK on : on = {v \in Around!Vectors(n) : v[1] \in dx[1]..dx[2] /\ v[2] \in dy[1]..dy[2]}
  OBVIOUS
<1>3. Around!Vectors(n) = {v \in (-r..r) \X (-r..r) : Near(v) <= n}
  BY Zenon DEF Around!Vectors, Near
<1>4. ASSUME NEW v PROVE v \in on <=> v \in Round(t, n)
  <2>1. v \in on <=> v \in (-r..r) \X (-r..r) /\ Near(v) <= n /\ v[1] \in dx[1]..dx[2] /\ v[2] \in dy[1]..dy[2]
    BY <1>3
  <2>2. v \in (-r..r) \X (-r..r) => v \in Int \X Int /\ v[1] \in -r..r /\ v[2] \in -r..r
    OBVIOUS
  <2>3. v \in Int \X Int /\ Near(v) <= n => v \in (-r..r) \X (-r..r)
    <3>1. ASSUME v \in Int \X Int, Near(v) <= n PROVE v \in (-r..r) \X (-r..r)
      <4>1. v[1] \in -r..r /\ v[2] \in -r..r
        BY <3>1, NearIs
      <4>. QED
        BY <3>1, <4>1
    <3>. QED
      BY <3>1
  <2>. QED
    BY <1>1, <1>2, <2>1, <2>2, <2>3, Zenon DEF Round
<1>5. on = Round(t, n)
  BY <1>4, Zenon
<1>6. Around!TableFor(t, n) = Numbers(on)
  BY Zenon DEF Around!TableFor, Around!WithLimits, Numbers
<1>. QED
  BY <1>5, <1>6

LEMMA NoWidth ==
  ASSUME NEW r \in Nat, NEW a \in Nat, NEW b \in Nat, (2 * r + 1) * a + b = 0
  PROVE  a = 0 /\ b = 0
<1>1. (2 * r + 1) * a \in Nat /\ (a > 0 => (2 * r + 1) * a > 0)
  OBVIOUS
<1>. PICK c : c = (2 * r + 1) * a
  OBVIOUS
<1>2. c \in Nat /\ c + b = 0
  BY <1>1
<1>3. c = 0 /\ b = 0
  BY <1>2
<1>. QED
  BY <1>1, <1>3

\* The table of a city away from all edges.
LEMMA CenterIs ==
  ASSUME TilesParams, NEW t \in Around!Tiles, NEW n \in Nat, Around!MapIndex(t, Around!Root(n)) = 0
  PROVE  Around!WithLimits(n, <<-Around!Root(n), Around!Root(n)>>, <<-Around!Root(n), Around!Root(n)>>) = Numbers(Round(t, n))
<1>. PICK r \in Nat : r = Around!Root(n) /\ n < (r + 1) * (r + 1)
  BY RootIs
<1>. PICK dx : dx = Around!DX3(t, r)
  OBVIOUS
<1>. PICK dy : dy = Around!DY3(t, r)
  OBVIOUS
<1>1. dx[3] \in 0..2 * r /\ (dx[3] = 0 => \A x \in -r..r : InX(t, x))
  <2>1. Around!X(t) \in 0..XSize - 1 /\ XSize \in Nat \ {0} /\ dx = Around!Limits("x", Around!X(t), r, XSize)
    BY TilePlaces DEF TilesParams, Around!DX3
  <2>. QED
    BY <2>1, EdgeIs, Zenon DEF InX
<1>2. dy[3] \in 0..2 * r /\ (dy[3] = 0 => \A y \in -r..r : InY(t, y))
  <2>1. Around!Y(t) \in 0..YSize - 1 /\ YSize \in Nat \ {0} /\ dy = Around!Limits("y", Around!Y(t), r, YSize)
    BY TilePlaces DEF TilesParams, Around!DY3
  <2>. QED
    BY <2>1, EdgeIs, Zenon DEF InY
<1>3. dx[3] = 0 /\ dy[3] = 0
  <2>. PICK a : a = dx[3]
    OBVIOUS
  <2>. PICK b : b = dy[3]
    OBVIOUS
  <2>1. a \in Nat /\ b \in Nat
    BY <1>1, <1>2
  <2>2. (2 * r + 1) * a + b = 0
    BY Zenon DEF Around!MapIndex
  <2>3. a = 0 /\ b = 0
    BY <2>1, <2>2, NoWidth
  <2>. QED
    BY <2>3
<1>. PICK on : on = {v \in Around!Vectors(n) : v[1] \in <<-r, r>>[1]..<<-r, r>>[2] /\ v[2] \in <<-r, r>>[1]..<<-r, r>>[2]}
  OBVIOUS
<1>4. Around!Vectors(n) = {v \in (-r..r) \X (-r..r) : Near(v) <= n}
  BY Zenon DEF Around!Vectors, Near
<1>5. ASSUME NEW v PROVE v \in on <=> v \in Round(t, n)
  <2>1. v \in on <=> v \in (-r..r) \X (-r..r) /\ Near(v) <= n /\ v[1] \in -r..r /\ v[2] \in -r..r
    BY <1>4
  <2>2. v \in (-r..r) \X (-r..r) => v \in Int \X Int /\ v[1] \in -r..r /\ v[2] \in -r..r
    OBVIOUS
  <2>3. v \in Int \X Int /\ Near(v) <= n => v \in (-r..r) \X (-r..r)
    <3>1. ASSUME v \in Int \X Int, Near(v) <= n PROVE v \in (-r..r) \X (-r..r)
      <4>1. v[1] \in -r..r /\ v[2] \in -r..r
        BY <3>1, NearIs
      <4>. QED
        BY <3>1, <4>1
    <3>. QED
      BY <3>1
  <2>. QED
    BY <1>1, <1>2, <1>3, <2>1, <2>2, <2>3, Zenon DEF Round
<1>6. on = Round(t, n)
  BY <1>5, Zenon
<1>7. Around!WithLimits(n, <<-r, r>>, <<-r, r>>) = Numbers(on)
  BY Zenon DEF Around!WithLimits, Numbers
<1>. QED
  BY <1>6, <1>7

\* Tiles with one index have one table.
LEMMA SameIndex ==
  ASSUME TilesParams, NEW s \in Around!Tiles, NEW t \in Around!Tiles, NEW n \in Nat,
         Around!MapIndex(s, Around!Root(n)) = Around!MapIndex(t, Around!Root(n))
  PROVE  Around!TableFor(s, n) = Around!TableFor(t, n)
<1>. PICK r \in Nat : r = Around!Root(n) /\ n < (r + 1) * (r + 1)
  BY RootIs
<1>0. /\ Around!X(s) \in 0..XSize - 1 /\ Around!X(t) \in 0..XSize - 1 /\ XSize \in Nat \ {0}
      /\ Around!Y(s) \in 0..YSize - 1 /\ Around!Y(t) \in 0..YSize - 1 /\ YSize \in Nat \ {0}
  BY TilePlaces DEF TilesParams
<1>. PICK a : a = Around!DX3(s, r)[3]
  OBVIOUS
<1>. PICK b : b = Around!DX3(t, r)[3]
  OBVIOUS
<1>. PICK c : c = Around!DY3(s, r)[3]
  OBVIOUS
<1>. PICK d : d = Around!DY3(t, r)[3]
  OBVIOUS
<1>1. a \in 0..2 * r /\ b \in 0..2 * r
  BY <1>0, EdgeIs, Zenon DEF Around!DX3
<1>2. c \in 0..2 * r /\ d \in 0..2 * r
  BY <1>0, EdgeIs, Zenon DEF Around!DY3
<1>3. (2 * r + 1) * a + c = (2 * r + 1) * b + d
  BY Zenon DEF Around!MapIndex
<1>4. a = b /\ c = d
  <2>1. ASSUME NEW e \in Nat, NEW f \in Nat, NEW g \in 0..2 * r, NEW h \in 0..2 * r, e < f PROVE (2 * r + 1) * e + g < (2 * r + 1) * f + h
    <3>. PICK m \in Nat : m = f - e /\ m >= 1 /\ f = e + m
      BY <2>1
    <3>. PICK w \in Nat : w = 2 * r + 1
      OBVIOUS
    <3>1. w * m >= w
      OBVIOUS
    <3>2. w * f = w * e + w * m
      OBVIOUS
    <3>. PICK we \in Nat : we = w * e
      OBVIOUS
    <3>. PICK wf \in Nat : wf = w * f
      OBVIOUS
    <3>. QED
      BY <3>1, <3>2
  <2>2. a \in Nat /\ b \in Nat
    BY <1>1
  <2>. PICK wa \in Nat : wa = (2 * r + 1) * a
    BY <2>2
  <2>. PICK wb \in Nat : wb = (2 * r + 1) * b
    BY <2>2
  <2>3. ~(a < b)
    <3>1. ASSUME a < b PROVE FALSE
      <4>1. wa + c < wb + d
        BY <1>2, <2>1, <2>2, <3>1
      <4>. QED
        BY <1>2, <1>3, <4>1
    <3>. QED
      BY <3>1
  <2>4. ~(b < a)
    <3>1. ASSUME b < a PROVE FALSE
      <4>1. wb + d < wa + c
        BY <1>2, <2>1, <2>2, <3>1
      <4>. QED
        BY <1>2, <1>3, <4>1
    <3>. QED
      BY <3>1
  <2>5. a = b
    BY <2>2, <2>3, <2>4
  <2>. QED
    BY <1>2, <1>3, <2>5
<1>5. \A x \in -r..r : InX(s, x) <=> InX(t, x)
  <2>1. Around!Limits("x", Around!X(s), r, XSize)[3] = Around!Limits("x", Around!X(t), r, XSize)[3]
    BY <1>4, Zenon DEF Around!DX3
  <2>. QED
    BY <1>0, <2>1, EdgesAgree, Zenon DEF InX
<1>6. \A y \in -r..r : InY(s, y) <=> InY(t, y)
  <2>1. Around!Limits("y", Around!Y(s), r, YSize)[3] = Around!Limits("y", Around!Y(t), r, YSize)[3]
    BY <1>4, Zenon DEF Around!DY3
  <2>. QED
    BY <1>0, <2>1, EdgesAgree, Zenon DEF InY
<1>7. Round(s, n) = Round(t, n)
  <2>1. ASSUME NEW v \in Int \X Int, Near(v) <= n PROVE (InX(s, v[1]) <=> InX(t, v[1])) /\ (InY(s, v[2]) <=> InY(t, v[2]))
    <3>1. v[1] \in -r..r /\ v[2] \in -r..r
      BY <2>1, NearIs
    <3>. QED
      BY <1>5, <1>6, <3>1, Zenon
  <2>. QED
    BY <2>1, Zenon DEF Round
<1>. QED
  BY <1>7, TableIs

\* The number of a tile is the same in the tables of a larger radius.
LEMMA NumbersAgree ==
  ASSUME TilesParams, NEW t \in Around!Tiles, NEW a \in Nat, NEW b \in Nat, a <= b
  PROVE  \A v \in DOMAIN Around!TableFor(t, a) : Around!TableFor(t, a)[v] = Around!TableFor(t, b)[v]
<1>1. \A v \in Round(t, a) : v \in Round(t, b)
  <2>1. ASSUME NEW v \in Round(t, a) PROVE v \in Round(t, b)
    <3>1. v \in Int \X Int /\ Near(v) <= a /\ InX(t, v[1]) /\ InY(t, v[2])
      BY Zenon DEF Round
    <3>2. Near(v) \in Nat
      BY <3>1, NearIs
    <3>3. Near(v) <= b
      BY <3>1, <3>2
    <3>. QED
      BY <3>1, <3>3, Zenon DEF Round
  <2>. QED
    BY <2>1
<1>2. ASSUME NEW v \in Round(t, a), NEW u \in Round(t, b), Around!Before(u, v) PROVE u \in Round(t, a)
  <2>1. /\ v \in Int \X Int /\ Near(v) <= a
        /\ u \in Int \X Int /\ InX(t, u[1]) /\ InY(t, u[2])
    BY Zenon DEF Round
  <2>2. Near(v) \in Nat /\ Near(u) \in Nat
    BY <2>1, NearIs
  <2>3. Near(u) < Near(v) \/ Near(u) = Near(v)
    BY <1>2 DEF Around!Before, Near
  <2>4. Near(u) <= a
    BY <2>1, <2>2, <2>3
  <2>. QED
    BY <2>1, <2>4, Zenon DEF Round
<1>. PICK A : A = Round(t, a)
  OBVIOUS
<1>. PICK B : B = Round(t, b)
  OBVIOUS
<1>3. ASSUME NEW v \in A PROVE Numbers(A)[v] = Numbers(B)[v]
  <2>1. {u \in A : Around!Before(u, v)} = {u \in B : Around!Before(u, v)}
    BY <1>1, <1>2, Zenon
  <2>2. v \in B
    BY <1>1
  <2>. QED
    BY <2>1, <2>2 DEF Numbers
<1>4. DOMAIN Numbers(A) = A
  BY DEF Numbers
<1>5. Around!TableFor(t, a) = Numbers(A) /\ Around!TableFor(t, b) = Numbers(B)
  BY TableIs
<1>. QED
  BY <1>3, <1>4, <1>5

\* The tables that are made, found or thrown away fit.
Fit(n, m) ==
  n # 0 => \A t \in Around!Tiles : Around!MapIndex(t, Around!Root(n)) \in DOMAIN m =>
                                     m[Around!MapIndex(t, Around!Root(n))] = Around!TableFor(t, n)

Built(radius, n, m) == n \in Radii \cup {0} /\ Around!BuildCityTileMap(radius) = <<n, m>> /\ Fit(n, m)

LEMMA BuiltFits ==
  ASSUME TilesParams, TilesInv, NEW radius \in Radii
  PROVE  \E n, m : Built(radius, n, m)
<1>0. sq \in Nat /\ radius \in Nat
  BY DEF TilesInv, TilesParams
<1>1. CASE radius <= sq
  <2>1. Around!BuildCityTileMap(radius) = <<sq, maps>>
    BY <1>1 DEF Around!BuildCityTileMap
  <2>2. Fit(sq, maps)
    BY Zenon DEF TilesInv, Around!TablesFit, Fit
  <2>. QED
    BY <2>1, <2>2, Zenon DEF TilesInv, Built
<1>2. CASE ~(radius <= sq)
  <2>. PICK middle : middle = Around!WithLimits(radius, <<-Around!Root(radius), Around!Root(radius)>>, <<-Around!Root(radius), Around!Root(radius)>>)
    OBVIOUS
  <2>. PICK m : m = [i \in {0} |-> middle]
    OBVIOUS
  <2>1. Around!BuildCityTileMap(radius) = <<radius, m>>
    BY <1>2, Zenon DEF Around!BuildCityTileMap
  <2>2. ASSUME NEW t \in Around!Tiles, Around!MapIndex(t, Around!Root(radius)) \in DOMAIN m
        PROVE  m[Around!MapIndex(t, Around!Root(radius))] = Around!TableFor(t, radius)
    <3>1. Around!MapIndex(t, Around!Root(radius)) = 0
      BY <2>2
    <3>2. middle = Numbers(Round(t, radius))
      BY <1>0, <3>1, CenterIs
    <3>3. middle = Around!TableFor(t, radius)
      BY <1>0, <3>2, TableIs
    <3>. QED
      BY <3>1, <3>3
  <2>3. Fit(radius, m)
    BY <2>2, Zenon DEF Fit
  <2>. QED
    BY <2>1, <2>3, Zenon DEF Built
<1>. QED
  BY <1>1, <1>2

LEMMA TableAsked ==
  ASSUME TilesParams, TilesInv, NEW s \in Sites, NEW radius \in Radii, Around!Ask(s, radius)
  PROVE  TilesInv'
<1>. PICK n, m : Built(radius, n, m)
  BY BuiltFits, Zenon
<1>1. n \in Radii \cup {0} /\ Around!BuildCityTileMap(radius) = <<n, m>> /\ Fit(n, m)
  BY Zenon DEF Built
<1>. PICK i : i = Around!MapIndex(s, Around!Root(n))
  OBVIOUS
<1>0. n \in Nat /\ s \in Around!Tiles
  BY <1>1 DEF TilesParams
<1>. PICK more : more = [j \in DOMAIN m \cup {i} |-> IF j = i THEN Around!TableFor(s, n) ELSE m[j]]
  OBVIOUS
<1>2. Around!GetCityTileMapForPos(s, radius) = IF i \in DOMAIN m THEN <<n, m>> ELSE <<n, more>>
  <2>. PICK built : built = Around!BuildCityTileMap(radius) /\ built[1] = n /\ built[2] = m /\ built = <<n, m>>
    BY <1>1
  <2>. QED
    BY Zenon DEF Around!GetCityTileMapForPos
<1>3. sq' = n /\ wraps' = wraps /\ (maps' = m \/ (i \notin DOMAIN m /\ maps' = more))
  BY <1>2 DEF Around!Ask
<1>4. Fit(n, more)
  <2>1. ASSUME n # 0, NEW t \in Around!Tiles, Around!MapIndex(t, Around!Root(n)) \in DOMAIN more
        PROVE  more[Around!MapIndex(t, Around!Root(n))] = Around!TableFor(t, n)
    <3>. PICK k : k = Around!MapIndex(t, Around!Root(n))
      OBVIOUS
    <3>1. CASE k = i
      <4>1. Around!TableFor(s, n) = Around!TableFor(t, n)
        BY <1>0, <3>1, SameIndex
      <4>. QED
        BY <3>1, <4>1
    <3>2. CASE k # i
      <4>1. k \in DOMAIN m /\ more[k] = m[k]
        BY <2>1, <3>2
      <4>2. m[k] = Around!TableFor(t, n)
        BY <1>1, <2>1, <4>1, Zenon DEF Fit
      <4>. QED
        BY <4>1, <4>2
    <3>. QED
      BY <3>1, <3>2
  <2>. QED
    BY <2>1, Zenon DEF Fit
<1>5. Fit(n, maps')
  BY <1>1, <1>3, <1>4
<1>6. Around!TablesFit'
  BY <1>3, <1>5 DEF Fit, Around!TablesFit, Around!MapIndex, Around!TableFor, Around!DX3, Around!DY3, Around!Limits
<1>7. sq' \in Radii \cup {0} /\ wraps' \subseteq {"x", "y"}
  BY <1>1, <1>3, Zenon DEF TilesInv
<1>. QED
  BY <1>6, <1>7, Zenon DEF TilesInv

\* What is announced is the first turn the cost is reached.
LEMMA TurnsIs == ASSUME TilesParams PROVE Around!TurnsAreFirst
<1>1. ASSUME NEW stock \in 0..Most, NEW surplus \in -1..Most, NEW cost \in 1..Most,
             NEW n, n = Around!CityTurnsToBuild(stock, surplus, cost)
      PROVE  IF n = Around!Never THEN surplus <= 0 /\ stock < cost
             ELSE IF stock >= cost THEN n = 1 ELSE stock + n * surplus >= cost /\ ~(stock + (n - 1) * surplus >= cost)
  <2>0. Most \in Nat /\ Most < Around!Never /\ Around!Never = 1000000000
    BY DEF TilesParams, Around!Never
  <2>1. CASE stock >= cost
    <3>1. n = 1
      BY <1>1, <2>1 DEF Around!CityTurnsToBuild
    <3>. QED
      BY <2>0, <2>1, <3>1
  <2>2. CASE ~(stock >= cost) /\ ~(surplus > 0)
    <3>1. n = Around!Never
      BY <1>1, <2>2 DEF Around!CityTurnsToBuild
    <3>. QED
      BY <2>0, <2>2, <3>1
  <2>3. CASE ~(stock >= cost) /\ surplus > 0
    <3>. PICK s \in Nat : s = surplus /\ s >= 1
      BY <2>0, <2>3
    <3>. PICK d \in Nat : d = cost - stock - 1 /\ d < Most
      BY <2>0, <2>3
    <3>. PICK q \in Nat : q = d \div s
      OBVIOUS
    <3>. PICK r \in 0..s - 1 : r = d % s
      OBVIOUS
    <3>1. d = (s * q) + r
      OBVIOUS
    <3>. PICK sq0 \in Nat : sq0 = s * q
      OBVIOUS
    <3>2. q <= sq0
      OBVIOUS
    <3>3. n = q + 1 /\ n - 1 = q
      BY <1>1, <2>3 DEF Around!CityTurnsToBuild
    <3>4. n # Around!Never
      BY <2>0, <3>1, <3>2, <3>3
    <3>5. q * s = sq0 /\ (q + 1) * s = sq0 + s
      OBVIOUS
    <3>6. stock + (sq0 + s) >= cost /\ ~(stock + sq0 >= cost)
      BY <2>0, <3>1
    <3>. QED
      BY <2>3, <3>3, <3>4, <3>5, <3>6
  <2>. QED
    BY <2>1, <2>2, <2>3
<1>. QED
  BY <1>1 DEF Around!TurnsAreFirst

LEMMA TilesSoundIs == ASSUME TilesParams, TilesInv PROVE Around!TilesSound
<1>1. Around!NumbersStay
  <2>1. ASSUME sq # 0, NEW t \in Around!Tiles, NEW radius \in Radii, radius <= sq,
               Around!MapIndex(t, Around!Root(sq)) \in DOMAIN maps, NEW v \in DOMAIN Around!TableFor(t, radius)
        PROVE  Around!TableFor(t, radius)[v] = maps[Around!MapIndex(t, Around!Root(sq))][v]
    <3>1. sq \in Nat /\ radius \in Nat
      BY DEF TilesInv, TilesParams
    <3>2. maps[Around!MapIndex(t, Around!Root(sq))] = Around!TableFor(t, sq)
      BY <2>1, Zenon DEF TilesInv, Around!TablesFit
    <3>3. Around!TableFor(t, radius)[v] = Around!TableFor(t, sq)[v]
      BY <2>1, <3>1, NumbersAgree
    <3>. QED
      BY <3>2, <3>3, Zenon
  <2>. QED
    BY <2>1, Zenon DEF Around!NumbersStay
<1>. QED
  BY <1>1, TurnsIs, Zenon DEF TilesInv, Around!TilesSound

\* City tiles are numbered soundly, for every map, every way its edges are joined and every
\* sequence of radii: a table that is found is the one the city would have made, and the number
\* of a tile does not change with the radius the tables are made for.
THEOREM TilesAreSound == ASSUME TilesParams PROVE Around!Spec => []Around!TilesSound
<1>1. Around!Init => TilesInv
  <2>1. ASSUME Around!Init PROVE TilesInv
    <3>1. sq = 0 /\ wraps \subseteq {"x", "y"}
      BY <2>1, Zenon DEF Around!Init
    <3>. QED
      BY <3>1, Zenon DEF TilesInv, Around!TablesFit
  <2>. QED
    BY <2>1
<1>2. TilesInv /\ [Around!Next]_Around!vars => TilesInv'
  <2>1. CASE UNCHANGED Around!vars
    BY <2>1 DEF TilesInv, Around!vars, Around!TablesFit, Around!MapIndex, Around!TableFor, Around!DX3, Around!DY3, Around!Limits
  <2>. QED
    BY <2>1, TableAsked DEF Around!Next
<1>3. TilesInv => Around!TilesSound
  BY TilesSoundIs
<1>. QED
  BY <1>1, <1>2, <1>3, PTL DEF Around!Spec

\* What is needed of a map: it has at least three columns, and three rows if it wraps there.
GeometryParams ==
  /\ XSize \in Nat /\ XSize >= 3 /\ YSize \in Nat \ {0} /\ (WrapY => YSize >= 3)
  /\ {WrapX, WrapY, Iso, Hex} \subseteq BOOLEAN /\ NoTile \notin Int

LEMMA PlaceIs ==
  ASSUME NEW n \in Nat \ {0}, NEW x \in 0..n - 1, NEW y \in Int
  PROVE  (x + y * n) % n = x /\ (x + y * n) \div n = y
<1>. PICK t : t = x + y * n
  OBVIOUS
<1>. PICK r : r = t % n
  OBVIOUS
<1>. PICK q : q = t \div n
  OBVIOUS
<1>1. t \in Int
  OBVIOUS
<1>2. r \in 0..n - 1 /\ q \in Int /\ t = (n * q) + r
  BY <1>1
<1>3. n * (q - y) = x - r
  BY <1>2
<1>4. q = y
  <2>1. q - y \in Int
    BY <1>2
  <2>. PICK d \in Int : d = q - y
    BY <2>1
  <2>2. d >= 1 => n * d >= n
    OBVIOUS
  <2>3. d <= -1 => n * d <= -n
    OBVIOUS
  <2>. PICK nd \in Int : nd = n * d
    OBVIOUS
  <2>4. nd = x - r
    BY <1>3
  <2>5. nd < n /\ nd > -n
    BY <1>2, <2>4
  <2>6. ~(d >= 1) /\ ~(d <= -1)
    BY <2>2, <2>3, <2>5
  <2>7. d = 0
    BY <2>6
  <2>. QED
    BY <1>2, <2>7
<1>5. r = x
  BY <1>2, <1>3, <1>4
<1>. QED
  BY <1>4, <1>5

LEMMA RowIs ==
  ASSUME NEW n \in Nat \ {0}, NEW k \in Nat, NEW x \in 0..n - 1, NEW y \in Int, x + y * n \in 0..n * k - 1
  PROVE  y \in 0..k - 1
<1>1. y >= 0
  <2>1. ASSUME y <= -1 PROVE FALSE
    <3>1. y * n <= -n
      BY <2>1
    <3>. PICK m \in Int : m = y * n
      OBVIOUS
    <3>. QED
      BY <3>1
  <2>. QED
    BY <2>1
<1>2. y < k
  <2>1. ASSUME y >= k PROVE FALSE
    <3>1. y * n >= n * k
      BY <2>1
    <3>. PICK m \in Int : m = y * n
      OBVIOUS
    <3>. PICK j \in Int : j = n * k
      OBVIOUS
    <3>. QED
      BY <3>1
  <2>. QED
    BY <2>1
<1>. QED
  BY <1>1, <1>2

\* The eight directions.
LEMMA DirsAre ==
  /\ \A d \in 0..7 : Around!DX(d) \in -1..1 /\ Around!DY(d) \in -1..1
  /\ \A d, e \in 0..7 : Around!DX(d) = Around!DX(e) /\ Around!DY(d) = Around!DY(e) => d = e
  /\ \A d \in 0..7 : \/ d = 0 /\ Around!DX(d) = -1 /\ Around!DY(d) = -1
                     \/ d = 1 /\ Around!DX(d) = 0 /\ Around!DY(d) = -1
                     \/ d = 2 /\ Around!DX(d) = 1 /\ Around!DY(d) = -1
                     \/ d = 3 /\ Around!DX(d) = -1 /\ Around!DY(d) = 0
                     \/ d = 4 /\ Around!DX(d) = 1 /\ Around!DY(d) = 0
                     \/ d = 5 /\ Around!DX(d) = -1 /\ Around!DY(d) = 1
                     \/ d = 6 /\ Around!DX(d) = 0 /\ Around!DY(d) = 1
                     \/ d = 7 /\ Around!DX(d) = 1 /\ Around!DY(d) = 1
<1>1. ASSUME NEW d \in 0..7
      PROVE  \/ d = 0 /\ Around!DX(d) = -1 /\ Around!DY(d) = -1
             \/ d = 1 /\ Around!DX(d) = 0 /\ Around!DY(d) = -1
             \/ d = 2 /\ Around!DX(d) = 1 /\ Around!DY(d) = -1
             \/ d = 3 /\ Around!DX(d) = -1 /\ Around!DY(d) = 0
             \/ d = 4 /\ Around!DX(d) = 1 /\ Around!DY(d) = 0
             \/ d = 5 /\ Around!DX(d) = -1 /\ Around!DY(d) = 1
             \/ d = 6 /\ Around!DX(d) = 0 /\ Around!DY(d) = 1
             \/ d = 7 /\ Around!DX(d) = 1 /\ Around!DY(d) = 1
  BY DEF Around!DX, Around!DY, Around!DirDX, Around!DirDY
<1>. QED
  BY <1>1

\* A step that stays on the map leads to the tile of the next column and row.
LEMMA InsideIs ==
  ASSUME GeometryParams, NEW t \in Around!Tiles, NEW dir \in Around!ValidDirs, Around!Inside(t, dir),
         NEW x, x = Around!X(t) + Around!DX(dir), NEW y, y = Around!Y(t) + Around!DY(dir)
  PROVE  /\ x \in 0..XSize - 1 /\ y \in 0..YSize - 1
         /\ Around!MapStep(t, dir) = x + y * XSize /\ Around!MapStep(t, dir) \in Int
         /\ Around!X(Around!MapStep(t, dir)) = x /\ Around!Y(Around!MapStep(t, dir)) = y
<1>0. /\ XSize \in Nat \ {0} /\ YSize \in Nat \ {0} /\ NoTile \notin Int
      /\ dir \in 0..7 /\ Around!IsValidDir(dir)
  BY DEF GeometryParams, Around!ValidDirs, Around!Dirs
<1>1. Around!DY(dir) \in -1..1
  BY <1>0, DirsAre
<1>2. Around!X(t) \in 0..XSize - 1 /\ Around!Y(t) \in 0..YSize - 1
  <2>. PICK xs \in Nat \ {0} : xs = XSize
    BY <1>0
  <2>. PICK ys \in Nat \ {0} : ys = YSize
    BY <1>0
  <2>1. t \in 0..xs * ys - 1
    BY DEF Around!Tiles
  <2>2. t % xs \in 0..xs - 1 /\ t \div xs \in 0..ys - 1
    BY <2>1, PlaceOf
  <2>. QED
    BY <2>2 DEF Around!X, Around!Y
<1>3. x \in 0..XSize - 1 /\ y \in Int
  BY <1>1, <1>2 DEF Around!Inside
<1>4. Around!MapStep(t, dir) = Around!MapPosToTile(x, y) /\ Around!MapStep(t, dir) # NoTile
  BY <1>0, Zenon DEF Around!MapStep, Around!Inside
<1>5. Around!PosIndex(x, y) = x + y * XSize
  BY <1>0, <1>3 DEF Around!PosIndex
<1>6. x + y * XSize \in 0..XSize * YSize - 1 /\ Around!MapStep(t, dir) = x + y * XSize
  BY <1>4, <1>5, Zenon DEF Around!MapPosToTile, Around!Tiles
<1>7. y \in 0..YSize - 1
  BY <1>0, <1>3, <1>6, RowIs
<1>8. x + y * XSize \in Int
  BY <1>0, <1>3
<1>. QED
  BY <1>0, <1>3, <1>6, <1>7, <1>8, PlaceIs DEF Around!X, Around!Y

\* A distance that is less than half the way around stays what it is.
LEMMA ShortIs ==
  ASSUME NEW n \in Nat \ {0}, NEW d \in -1..1, NEW wraps0, wraps0 => n >= 3
  PROVE  Around!Short(d, n, wraps0) = d
<1>1. CASE wraps0
  <2>. PICK h \in Nat : h = n \div 2
    OBVIOUS
  <2>1. h >= 1 /\ 2 * h <= n /\ n >= 3
    BY <1>1
  <2>2. d + h \in 0..n - 1
    BY <2>1
  <2>3. (d + h) % n = d + h
    BY <2>2
  <2>. QED
    BY <1>1, <2>3 DEF Around!Short, Around!FcWrap
<1>2. CASE ~wraps0
  BY <1>2 DEF Around!Short
<1>. QED
  BY <1>1, <1>2

\* A step, wherever it ends: the column is found in the row before or after.
At(n, x, y) == x + y * n
Over(n, x, y) == x + (IF x >= n THEN y - 1 ELSE IF x < 0 THEN y + 1 ELSE y) * n

Leads(n, x, c, y, u, v) ==
  /\ n \in Nat /\ n >= 3 /\ x \in 0..n - 1 /\ u \in 0..n - 1 /\ v \in Int /\ y \in Int
  /\ c \in Int /\ c - x \in -1..1 /\ u - x \in -1..1 /\ At(n, u, v) = Over(n, c, y)

LEMMA StepTo ==
  ASSUME NEW n, NEW x, NEW c, NEW y, NEW u, NEW v, Leads(n, x, c, y, u, v)
  PROVE  u = c /\ v = y
<1>. /\ n \in Nat /\ n >= 3 /\ x \in 0..n - 1 /\ u \in 0..n - 1 /\ v \in Int /\ y \in Int
     /\ c \in Int /\ c - x \in -1..1 /\ u - x \in -1..1
  BY Zenon DEF Leads
<1>0. n \in Nat \ {0} /\ 0 \in 0..n - 1 /\ n - 1 \in 0..n - 1
  OBVIOUS
<1>4. u + v * n = c + (IF c >= n THEN y - 1 ELSE IF c < 0 THEN y + 1 ELSE y) * n
  BY Zenon DEF At, Over, Leads
<1>1. CASE c >= n
  <2>1. c = n /\ x = n - 1
    BY <1>1
  <2>2. n + (y - 1) * n = 0 + y * n
    OBVIOUS
  <2>3. u + v * n = 0 + y * n
    BY <1>1, <1>4, <2>1, <2>2
  <2>4. (u + v * n) % n = u
    BY <1>0, PlaceIs
  <2>5. (0 + y * n) % n = 0
    BY <1>0, PlaceIs, Zenon
  <2>6. u = 0
    BY <2>3, <2>4, <2>5, Zenon
  <2>. QED
    BY <2>1, <2>6
<1>2. CASE c < 0
  <2>1. c = -1 /\ x = 0
    BY <1>2
  <2>2. -1 + (y + 1) * n = (n - 1) + y * n
    OBVIOUS
  <2>3. u + v * n = (n - 1) + y * n
    BY <1>2, <1>4, <2>1, <2>2
  <2>4. (u + v * n) % n = u
    BY <1>0, PlaceIs
  <2>5. ((n - 1) + y * n) % n = n - 1
    BY <1>0, PlaceIs, Zenon
  <2>6. u = n - 1
    BY <2>3, <2>4, <2>5, Zenon
  <2>. QED
    BY <2>1, <2>6
<1>3. CASE c \in 0..n - 1
  <2>1. u + v * n = c + y * n
    BY <1>3, <1>4
  <2>2. (u + v * n) % n = u /\ (u + v * n) \div n = v
    BY <1>0, PlaceIs
  <2>3. (c + y * n) % n = c /\ (c + y * n) \div n = y
    BY <1>0, <1>3, PlaceIs
  <2>4. u = c /\ v = y
    BY <2>1, <2>2, <2>3, Zenon
  <2>. QED
    BY <2>4
<1>. QED
  BY <1>1, <1>2, <1>3

LEMMA StepsAre == ASSUME GeometryParams PROVE Around!StepsAgree
<1>1. ASSUME NEW t \in Around!Tiles, NEW dir \in Around!ValidDirs, Around!Inside(t, dir),
             NEW end, end = Around!MapStep(t, dir)
      PROVE  /\ Around!ComputeDestTile(t, dir) = end
             /\ Around!GetDirectionForStep(t, end) = dir
             /\ Around!MapDistanceVector(t, end) = <<Around!DX(dir), Around!DY(dir)>>
  <2>. PICK n \in Nat : n = XSize /\ n >= 3
    BY DEF GeometryParams
  <2>0. /\ dir \in 0..7 /\ Around!IsValidDir(dir) /\ YSize \in Nat \ {0}
        /\ NoTile \notin Int /\ (WrapY => YSize >= 3)
    BY DEF GeometryParams, Around!ValidDirs, Around!Dirs
  <2>. PICK x : x = Around!X(t)
    OBVIOUS
  <2>. PICK y : y = Around!Y(t)
    OBVIOUS
  <2>1. x \in 0..n - 1 /\ y \in 0..YSize - 1
    <3>. PICK ys \in Nat \ {0} : ys = YSize
      BY <2>0
    <3>1. t \in 0..n * ys - 1 /\ n \in Nat \ {0}
      BY DEF Around!Tiles
    <3>2. t % n \in 0..n - 1 /\ t \div n \in 0..ys - 1
      BY <3>1, PlaceOf
    <3>. QED
      BY <3>2 DEF Around!X, Around!Y
  <2>. PICK dx \in -1..1 : dx = Around!DX(dir)
    BY <2>0, DirsAre
  <2>. PICK dy \in -1..1 : dy = Around!DY(dir)
    BY <2>0, DirsAre
  <2>2. /\ x + dx \in 0..n - 1 /\ y + dy \in 0..YSize - 1
        /\ end = (x + dx) + (y + dy) * n /\ end \in Int
        /\ Around!X(end) = x + dx /\ Around!Y(end) = y + dy
    BY <1>1, InsideIs
  <2>3. Around!ComputeDestTile(t, dir) = end
    <3>. PICK u \in 0..n - 1 : u = x + dx
      BY <2>2
    <3>. PICK v \in 0..YSize - 1 : v = y + dy
      BY <2>2
    <3>1. u % n = u
      OBVIOUS
    <3>2. ~(u >= n) /\ ~(u < 0)
      OBVIOUS
    <3>3. Around!ComputeDestTile(t, dir) = (u % n) + v * n
      BY <2>1, <3>2 DEF Around!ComputeDestTile
    <3>. QED
      BY <2>2, <3>1, <3>3
  <2>4. Around!MapDistanceVector(t, end) = <<dx, dy>>
    <3>1. Around!X(end) - Around!X(t) = dx /\ Around!Y(end) - Around!Y(t) = dy
      BY <2>0, <2>1, <2>2
    <3>2. Around!Short(dx, XSize, WrapX) = dx /\ Around!Short(dy, YSize, WrapY) = dy
      BY <2>0, ShortIs
    <3>. QED
      BY <3>1, <3>2, Zenon DEF Around!MapDistanceVector
  <2>5. ASSUME NEW d \in 0..7, Around!MapStep(t, d) = end PROVE d = dir
    <3>. PICK ex \in -1..1 : ex = Around!DX(d)
      BY DirsAre
    <3>. PICK ey \in -1..1 : ey = Around!DY(d)
      BY DirsAre
    <3>1. end # NoTile
      BY <2>0, <2>2
    <3>2. end = Around!PosIndex(x + ex, y + ey)
      BY <2>5, <3>1, Zenon DEF Around!MapStep, Around!MapPosToTile
    <3>. PICK u \in 0..n - 1 : u = x + dx
      BY <2>2
    <3>. PICK v \in Int : v = y + dy
      BY <2>0, <2>1
    <3>. PICK w \in Int : w = y + ey
      BY <2>0, <2>1
    <3>. PICK c \in Int : c = x + ex /\ c - x \in -1..1
      BY <2>1
    <3>3. At(n, u, v) = Over(n, c, w)
      BY <2>2, <3>2, Zenon DEF Around!PosIndex, At, Over
    <3>4. u - x \in -1..1
      BY <2>1
    <3>5. x \in 0..n - 1 /\ n \in Nat /\ n >= 3
      BY <2>1
    <3>6. Leads(n, x, c, w, u, v)
      BY <3>3, <3>4, <3>5, Zenon DEF Leads
    <3>7. u = c /\ v = w
      BY <3>6, StepTo, Zenon
    <3>8. ex = dx /\ ey = dy
      BY <2>0, <2>1, <3>7
    <3>. QED
      BY <2>0, <3>8, DirsAre
  <2>6. Around!GetDirectionForStep(t, end) = dir
    <3>. PICK e : e = CHOOSE d \in 0..7 : Around!MapStep(t, d) = end /\ \A c \in 0..d - 1 : Around!MapStep(t, c) # end
      OBVIOUS
    <3>1. \A c \in 0..dir - 1 : Around!MapStep(t, c) # end
      <4>1. ASSUME NEW c \in 0..dir - 1, Around!MapStep(t, c) = end PROVE FALSE
        <5>1. c \in 0..7 /\ c # dir
          BY <2>0
        <5>. QED
          BY <2>5, <4>1, <5>1
      <4>. QED
        BY <4>1
    <3>2. e \in 0..7 /\ Around!MapStep(t, e) = end
      BY <1>1, <2>0, <3>1, Zenon
    <3>3. e = dir
      BY <2>5, <3>2
    <3>4. \E d \in 0..7 : Around!MapStep(t, d) = end
      BY <1>1, <2>0
    <3>5. Around!GetDirectionForStep(t, end) = e
      BY <3>4, Zenon DEF Around!GetDirectionForStep, Around!Dirs
    <3>. QED
      BY <3>3, <3>5
  <2>. QED
    BY <2>3, <2>4, <2>6
<1>. QED
  BY <1>1, Zenon DEF Around!StepsAgree

\* Around a map there is no shorter way.
LEMMA ShortestIs ==
  ASSUME NEW n \in Nat \ {0}, NEW a \in 0..n - 1, NEW b \in 0..n - 1, NEW k \in -1..1, NEW wraps0, wraps0
  PROVE  Around!Abs(Around!Short(b - a, n, wraps0)) <= Around!Abs(b - a + k * n)
<1>. PICK d \in Int : d = b - a
  OBVIOUS
<1>. PICK h \in Nat : h = n \div 2
  OBVIOUS
<1>1. 2 * h <= n /\ n <= 2 * h + 1 /\ d > -n /\ d < n
  OBVIOUS
<1>. PICK e \in Int : e = d + h
  OBVIOUS
<1>. PICK r \in 0..n - 1 : r = e % n
  OBVIOUS
<1>. PICK q \in Int : q = e \div n
  OBVIOUS
<1>2. e = (n * q) + r
  OBVIOUS
<1>3. q \in -1..1
  <2>1. e > -n /\ e < 2 * n
    BY <1>1
  <2>2. q <= -2 => n * q <= -2 * n
    OBVIOUS
  <2>3. q >= 2 => n * q >= 2 * n
    OBVIOUS
  <2>. PICK nq \in Int : nq = n * q
    OBVIOUS
  <2>. QED
    BY <1>2, <2>1, <2>2, <2>3
<1>4. Around!Short(d, n, wraps0) = r - h
  BY DEF Around!Short, Around!FcWrap
<1>5. Around!Abs(r - h) <= Around!Abs(d + k * n)
  <2>1. d = (r - h) - n \/ d = r - h \/ d = (r - h) + n
    BY <1>2, <1>3
  <2>2. k * n = -n \/ k * n = 0 \/ k * n = n
    OBVIOUS
  <2>. PICK kn \in Int : kn = k * n
    OBVIOUS
  <2>3. Around!Abs(r - h) <= Around!Abs(d + kn)
    BY <1>1, <2>1, <2>2 DEF Around!Abs
  <2>. QED
    BY <2>3
<1>. QED
  BY <1>4, <1>5

LEMMA VectorsAre == ASSUME GeometryParams PROVE Around!VectorsShort
<1>1. ASSUME NEW s \in Around!Tiles, NEW t \in Around!Tiles
      PROVE  /\ Around!X(s) \in 0..XSize - 1 /\ Around!Y(s) \in 0..YSize - 1
             /\ Around!X(t) \in 0..XSize - 1 /\ Around!Y(t) \in 0..YSize - 1
             /\ XSize \in Nat \ {0} /\ YSize \in Nat \ {0}
  <2>. PICK xs \in Nat \ {0} : xs = XSize
    BY DEF GeometryParams
  <2>. PICK ys \in Nat \ {0} : ys = YSize
    BY DEF GeometryParams
  <2>1. t \in 0..xs * ys - 1 /\ s \in 0..xs * ys - 1
    BY DEF Around!Tiles
  <2>2. t % xs \in 0..xs - 1 /\ t \div xs \in 0..ys - 1 /\ s % xs \in 0..xs - 1 /\ s \div xs \in 0..ys - 1
    BY <2>1, PlaceOf
  <2>. QED
    BY <2>2 DEF Around!X, Around!Y
<1>2. ASSUME NEW s \in Around!Tiles, NEW t \in Around!Tiles, NEW k \in -1..1
      PROVE  /\ WrapX => Around!Abs(Around!MapDistanceVector(s, t)[1]) <= Around!Abs(Around!X(t) - Around!X(s) + k * XSize)
             /\ WrapY => Around!Abs(Around!MapDistanceVector(s, t)[2]) <= Around!Abs(Around!Y(t) - Around!Y(s) + k * YSize)
  <2>1. /\ Around!MapDistanceVector(s, t)[1] = Around!Short(Around!X(t) - Around!X(s), XSize, WrapX)
        /\ Around!MapDistanceVector(s, t)[2] = Around!Short(Around!Y(t) - Around!Y(s), YSize, WrapY)
    BY DEF Around!MapDistanceVector
  <2>. QED
    BY <1>1, <2>1, ShortestIs
<1>. QED
  BY <1>2, Zenon DEF Around!VectorsShort

\* On squares and on both kinds of hexagons.
LEMMA CardinalsAre == ASSUME GeometryParams PROVE Around!CardinalsNear
<1>1. ASSUME NEW d \in 0..7
      PROVE  Around!IsCardinalDir(d) <=> Around!IsValidDir(d) /\ Around!MapVectorToSqDistance(Around!DX(d), Around!DY(d)) = 1
  <2>. PICK x : x = Around!DX(d)
    OBVIOUS
  <2>. PICK y : y = Around!DY(d)
    OBVIOUS
  <2>1. \/ d = 0 /\ x = -1 /\ y = -1
        \/ d = 1 /\ x = 0 /\ y = -1
        \/ d = 2 /\ x = 1 /\ y = -1
        \/ d = 3 /\ x = -1 /\ y = 0
        \/ d = 4 /\ x = 1 /\ y = 0
        \/ d = 5 /\ x = -1 /\ y = 1
        \/ d = 6 /\ x = 0 /\ y = 1
        \/ d = 7 /\ x = 1 /\ y = 1
    BY DirsAre
  <2>2. CASE ~Hex
    BY <2>1, <2>2 DEF Around!IsCardinalDir, Around!IsValidDir, Around!MapVectorToSqDistance
  <2>3. CASE Hex /\ Iso
    BY <2>1, <2>3 DEF Around!IsCardinalDir, Around!IsValidDir, Around!MapVectorToSqDistance,
                      Around!MapVectorToDistance, Around!Abs, Around!Larger
  <2>4. CASE Hex /\ ~Iso
    BY <2>1, <2>4 DEF Around!IsCardinalDir, Around!IsValidDir, Around!MapVectorToSqDistance,
                      Around!MapVectorToDistance, Around!Abs, Around!Larger
  <2>. QED
    BY <2>2, <2>3, <2>4
<1>. QED
  BY <1>1, Zenon DEF Around!CardinalsNear, Around!CardinalDirs, Around!ValidDirs, Around!Dirs

LEMMA NamesAre == ASSUME GeometryParams PROVE Around!NamesInverse
<1>1. ASSUME NEW m \in 0..XSize - 1, NEW n \in 0..YSize - 1
      PROVE  LET native == Around!NativeToMapPos(m, n)
                 natural == Around!MapToNaturalPos(m, n)
             IN  /\ Around!MapToNativePos(native[1], native[2]) = <<m, n>>
                 /\ Around!NaturalToMapPos(natural[1], natural[2]) = <<m, n>>
  <2>. PICK xs \in Nat : xs = XSize
    BY DEF GeometryParams
  <2>0. m \in Nat /\ n \in Nat
    BY DEF GeometryParams
  <2>. PICK p \in 0..1 : p = n % 2
    BY <2>0
  <2>. PICK e \in Nat : e = (n + p) \div 2
    BY <2>0
  <2>1. 2 * e = n + p
    BY <2>0
  <2>2. Around!NativeToMapPos(m, n) = <<e + m, n - (e + m) + xs>>
    BY DEF Around!NativeToMapPos
  <2>3. (e + m) + (n - (e + m) + xs) - xs = n
    BY <2>0
  <2>4. (2 * (e + m) - n - p) \div 2 = m
    BY <2>0, <2>1
  <2>5. Around!MapToNativePos(e + m, n - (e + m) + xs) = <<m, n>>
    BY <2>3, <2>4 DEF Around!MapToNativePos
  <2>. PICK k \in Int : k = m + n - xs
    BY <2>0
  <2>6. Around!MapToNaturalPos(m, n) = <<2 * m - k, k>>
    BY DEF Around!MapToNaturalPos
  <2>7. (k + (2 * m - k)) \div 2 = m /\ k - m + xs = n
    BY <2>0
  <2>8. Around!NaturalToMapPos(2 * m - k, k) = <<m, n>>
    BY <2>7 DEF Around!NaturalToMapPos
  <2>. QED
    BY <2>2, <2>5, <2>6, <2>8
<1>. QED
  BY <1>1, Zenon DEF Around!NamesInverse

\* The geometry of every kind of map: inside of it the browser and the agents step to the same
\* tile, and the direction and the vector of the step are found again (map.ts, _compute_dest_tile);
\* no way around is shorter than a vector; the cardinal directions are those of distance one.
THEOREM GeometryIsSound == ASSUME GeometryParams PROVE Around!GeometrySound
BY StepsAre, VectorsAre, CardinalsAre, NamesAre, Zenon DEF Around!GeometrySound

-----------------------------------------------------------------------------
(* The pictures of tiles.                                                  *)

CONSTANTS BoomSteps, NukeSteps, Tileset
VARIABLES face, boom, nuke, seen

Pics == INSTANCE Sprites

\* What is needed of the parameters: the faces are some, tiles that change are tiles, and the
\* animations last a number of drawings.
SpritesParams ==
  /\ Faces \subseteq Pics!FaceRec /\ Changing \subseteq Pics!Tiles
  /\ BoomSteps \in Nat /\ NukeSteps \in Nat

\* The sprites of a layer without terrain: an explosion is one of five.
Bare(s) ==
  IsSeq(s) /\ \A i \in 1..Len(s) : s[i][1] # "terrain" /\ (s[i][1] = "explode" => s[i][2] \in 0..4)

\* The sprites of any layer: terrain is alone.
Proper(s) == Bare(s) \/ (Len(s) = 1 /\ DOMAIN s = {1} /\ s[1][1] = "terrain")

\* The invariant: of the last drawing every layer is.
SpritesInv == Pics!TypeOK /\ (seen # <<>> => \A n \in Pics!Layers : Proper(seen[n]))

LEMMA ProperSays ==
  ASSUME NEW s, Proper(s), NEW i \in DOMAIN s
  PROVE  (s[i][1] = "terrain" => Len(s) = 1) /\ (s[i][1] = "explode" => s[i][2] \in 0..4)
<1>1. CASE Bare(s)
  <2>1. DOMAIN s = 1..Len(s)
    BY <1>1, SequenceHas DEF Bare
  <2>. QED
    BY <1>1, <2>1 DEF Bare
<1>2. CASE Len(s) = 1 /\ DOMAIN s = {1} /\ s[1][1] = "terrain"
  BY <1>2
<1>. QED
  BY <1>1, <1>2 DEF Proper

LEMMA BareNone == Bare(<<>>)
<1>1. \A i \in 1..Len(<<>>) : FALSE
  BY EmptyIs
<1>. QED
  BY <1>1, EmptyIs DEF Bare

LEMMA BareOf ==
  ASSUME NEW k, NEW d, k # "terrain", k # "explode" \/ d \in 0..4
  PROVE  Bare(<< <<k, d>> >>)
<1>. PICK e : e = <<k, d>>
  OBVIOUS
<1>0. e[1] = k /\ e[2] = d
  OBVIOUS
<1>. PICK s : s = <<e>>
  OBVIOUS
<1>1. DOMAIN s = 1..1 /\ s[1] = e /\ s = [i \in 1..1 |-> s[i]]
  OBVIOUS
<1>2. IsSeq(s) /\ Len(s) = 1
  BY <1>1, FunctionIs
<1>3. \A i \in 1..Len(s) : s[i] = e
  BY <1>1, <1>2
<1>. QED
  BY <1>0, <1>2, <1>3 DEF Bare

LEMMA BareOne ==
  ASSUME NEW k, k # "terrain", k # "explode", NEW there
  PROVE  Bare(Pics!One(k, there))
<1>1. Bare(<< <<k, "">> >>)
  BY BareOf
<1>. QED
  BY <1>1, BareNone, Zenon DEF Pics!One

LEMMA BareBoth ==
  ASSUME NEW s, NEW t, Bare(s), Bare(t)
  PROVE  Bare(s \o t)
<1>. PICK u : u = s \o t
  OBVIOUS
<1>. PICK m \in Nat : m = Len(s)
  BY SequenceHas DEF Bare
<1>. PICK n \in Nat : n = Len(t)
  BY SequenceHas DEF Bare
<1>1. IsSeq(u) /\ Len(u) = m + n /\ (\A i \in 1..m : u[i] = s[i]) /\ \A i \in 1..n : u[m + i] = t[i]
  BY Joined DEF Bare
<1>2. ASSUME NEW i \in 1..m + n PROVE u[i][1] # "terrain" /\ (u[i][1] = "explode" => u[i][2] \in 0..4)
  <2>1. CASE i \in 1..m
    BY <1>1, <2>1 DEF Bare
  <2>2. CASE i \notin 1..m
    <3>. PICK j \in 1..n : i = m + j
      BY <2>2
    <3>1. u[i] = t[j]
      BY <1>1
    <3>. QED
      BY <3>1 DEF Bare
  <2>. QED
    BY <2>1, <2>2
<1>. QED
  BY <1>1, <1>2 DEF Bare

\* The edges and the corners of a tile: four sprites.
LEMMA BareFour ==
  ASSUME NEW s, NEW k, k # "terrain", k # "explode", s = [i \in 1..4 |-> s[i]], \A i \in 1..4 : s[i][1] = k
  PROVE  Bare(s)
<1>1. IsSeq(s) /\ Len(s) = 4
  <2>1. DOMAIN s = 1..4
    BY Zenon
  <2>. QED
    BY <2>1, FunctionIs
<1>. QED
  BY <1>1 DEF Bare

LEMMA TerrainIs == ASSUME NEW l, NEW t PROVE Proper(Pics!TerrainSprites(l, t))
<1>1. Bare(Pics!Dithered(l, t))
  <2>. PICK s : s = Pics!Dithered(l, t)
    OBVIOUS
  <2>. PICK d : d = [i \in 1..4 |->
       LET near == Pics!Near(t, Pics!Dir4ToDir8[i])
       IN  <<i, face[t].terrain, IF Pics!TileTypesSetup(l, near).dither THEN near ELSE face[t].terrain>>]
    OBVIOUS
  <2>1. s = [i \in 1..4 |-> <<"dither", d[i]>>]
    BY Zenon DEF Pics!Dithered
  <2>2. s = [i \in 1..4 |-> s[i]] /\ \A i \in 1..4 : s[i][1] = "dither"
    BY <2>1
  <2>. QED
    BY <2>2, BareFour
<1>2. Bare(Pics!Corners(l, t))
  <2>. PICK s : s = Pics!Corners(l, t)
    OBVIOUS
  <2>1. \E d : s = [i \in 1..4 |-> <<"corner", d[i]>>]
    <3>. PICK style : style = Pics!TileTypesSetup(l, face[t].terrain)
      OBVIOUS
    <3> DEFINE match(dir) == Pics!TileTypesSetup(l, Pics!Near(t, dir)).index[1]
               around(i) == LET dir == Pics!DirCCW(Pics!Dir4ToDir8[i + 1])
                            IN  <<match(Pics!DirCCW(dir)), match(dir), match(Pics!DirCW(dir))>>
               d == [i \in 1..4 |-> <<face[t].terrain, Pics!CornerIndex(style, around(i - 1), i - 1)>>]
    <3>1. s = [i \in 1..4 |-> <<"corner", <<face[t].terrain, Pics!CornerIndex(style, around(i - 1), i - 1)>>>>]
      BY Zenon DEF Pics!Corners
    <3>2. \A i \in 1..4 : d[i] = <<face[t].terrain, Pics!CornerIndex(style, around(i - 1), i - 1)>>
      BY Zenon
    <3>. HIDE DEF d, around
    <3>3. s = [i \in 1..4 |-> <<"corner", d[i]>>]
      BY <3>1, <3>2, Zenon
    <3>. QED
      BY <3>3, Zenon
  <2>. PICK d : s = [i \in 1..4 |-> <<"corner", d[i]>>]
    BY <2>1, Zenon
  <2>2. s = [i \in 1..4 |-> s[i]] /\ \A i \in 1..4 : s[i][1] = "corner"
    OBVIOUS
  <2>. QED
    BY <2>2, BareFour
<1>3. Proper(Pics!MatchSame(l, t))
  <2>. PICK d : d = <<l, face[t].terrain, {i \in 0..3 : Pics!Near(t, i) = face[t].terrain}>>
    OBVIOUS
  <2>1. Pics!MatchSame(l, t) = << <<"terrain", d>> >>
    BY Zenon DEF Pics!MatchSame
  <2>. QED
    BY <2>1 DEF Proper
<1>4. \A d : Proper(<< <<"terrain", d>> >>)
  BY DEF Proper
<1>5. \A s : Bare(s) => Proper(s)
  BY Zenon DEF Proper
<1>. QED
  BY <1>1, <1>2, <1>3, <1>4, <1>5, BareNone, Zenon DEF Pics!TerrainSprites

LEMMA SpecialIs == ASSUME NEW t, NEW place PROVE Bare(Pics!Special1Sprites(t, place))
<1>1. Bare(Pics!RiverSprite(t))
  BY BareNone, BareOf, Zenon DEF Pics!RiverSprite
<1>2. Bare(Pics!BorderSprites(t))
  BY BareNone, BareOf, Zenon DEF Pics!BorderSprites
<1>3. Bare(Pics!Layer1Sprites(t, place))
  BY BareOne, Zenon DEF Pics!Layer1Sprites
<1>4. /\ Bare(Pics!One("mine", Pics!Has(t, "mine"))) /\ Bare(Pics!One("well", Pics!Has(t, "well")))
      /\ Bare(Pics!One("hut", Pics!Has(t, "hut"))) /\ Bare(Pics!One("pollution", Pics!Has(t, "pollution")))
      /\ Bare(Pics!One("fallout", Pics!Has(t, "fallout")))
  BY BareOne, Zenon
<1>. QED
  BY <1>1, <1>2, <1>3, <1>4, BareBoth, Zenon DEF Pics!Special1Sprites

LEMMA FlashIs ==
  ASSUME NEW b \in Nat, NEW s \in 1..b
  PROVE  ((b - s) * 5) \div b \in 0..4
<1>. PICK d \in Nat : d = (b - s) * 5
  OBVIOUS
<1>. PICK y \in Nat \ {0} : y = 5
  OBVIOUS
<1>1. b \in Nat \ {0} /\ d \in 0..b * y - 1
  OBVIOUS
<1>2. d \div b \in 0..y - 1
  BY <1>1, PlaceOf
<1>. QED
  BY <1>2

LEMMA BoomIs ==
  ASSUME SpritesParams, Pics!TypeOK, NEW t \in Pics!Tiles
  PROVE  Bare(Pics!BoomSprite(t))
<1>1. ASSUME boom[t] > 0 PROVE Pics!Flash(boom[t]) \in 0..4
  <2>. PICK b \in Nat : b = BoomSteps
    BY DEF SpritesParams
  <2>1. boom[t] \in -1..b
    BY DEF Pics!TypeOK
  <2>. PICK s \in 1..b : s = boom[t]
    BY <1>1, <2>1
  <2>3. ((b - s) * 5) \div b \in 0..4
    BY FlashIs
  <2>. QED
    BY <2>3, Zenon DEF Pics!Flash
<1>2. CASE boom[t] > 0
  <2>1. Bare(<< <<"explode", Pics!Flash(boom[t])>> >>)
    BY <1>1, <1>2, BareOf, Zenon
  <2>. QED
    BY <1>2, <2>1, Zenon DEF Pics!BoomSprite
<1>3. CASE ~(boom[t] > 0)
  BY <1>3, BareNone, Zenon DEF Pics!BoomSprite
<1>. QED
  BY <1>2, <1>3

LEMMA UnitIs ==
  ASSUME NEW u, NEW stacked, u.agent \in {"none", "explore"}
  PROVE  Bare(Pics!UnitSprites(u, stacked))
<1>1. Bare(Pics!UnitActivity(u))
  BY BareNone, BareOf, BareOne, Zenon DEF Pics!UnitActivity
<1>2. Bare(Pics!One(u.agent, u.agent # "none"))
  <2>1. u.agent # "terrain" /\ u.agent # "explode"
    OBVIOUS
  <2>. QED
    BY <2>1, BareOne, Zenon
<1>3. /\ Bare(Pics!One("flag", ~u.flagless \/ u.mine)) /\ Bare(Pics!One("wants decision", u.asks))
      /\ Bare(Pics!One("stack", stacked)) /\ Bare(Pics!One("veteran", u.veteran))
  BY BareOne, Zenon
<1>4. Bare(<< <<"unit", u.type>> >>) /\ Bare(<< <<"hp", Pics!HpPercent(u.hp, u.max)>> >>)
  BY BareOf, Zenon
<1>. QED
  BY <1>1, <1>2, <1>3, <1>4, BareBoth, Zenon DEF Pics!UnitSprites

LEMMA UnitsAre ==
  /\ Pics!NoUnit.type = Pics!NoTag /\ Pics!Builder.agent \in {"none", "explore"}
  /\ Pics!Explorer.agent \in {"none", "explore"}
<1>1. Pics!NoUnit.type = Pics!NoTag
  BY DEF Pics!NoUnit
<1>2. Pics!Worker.agent = "none"
  BY DEF Pics!Worker
<1>3. Pics!Builder.agent = "none"
  BY <1>2 DEF Pics!Builder, Pics!Worker
<1>4. Pics!Explorer.agent = "explore"
  BY DEF Pics!Explorer, Pics!Worker
<1>. QED
  BY <1>1, <1>3, <1>4

LEMMA LayerIs ==
  ASSUME SpritesParams, Pics!TypeOK, NEW t \in Pics!Tiles, NEW n \in Pics!Layers,
         NEW place, NEW u \in {Pics!NoUnit, Pics!Builder, Pics!Explorer}
  PROVE  Proper(Pics!Layer(n, t, place, u))
<1>. PICK top : top = (IF u.type = Pics!NoTag THEN <<>>
                       ELSE Pics!One("select", u.focus) \o Pics!UnitSprites(u, u.stacked)) \o Pics!BoomSprite(t)
  OBVIOUS
<1>. PICK town : town = Pics!CitySprites(place)
  OBVIOUS
<1>. PICK bar : bar = IF place.size = 0 THEN <<>>
                      ELSE << <<"citybar", Pics!CityOccupied(place.mine, place.occupied, place.units)>> >>
  OBVIOUS
<1>1. Bare(top)
  <2>1. CASE u.type = Pics!NoTag
    BY <2>1, BoomIs, BareBoth, BareNone, Zenon
  <2>2. CASE u.type # Pics!NoTag
    <3>1. u.agent \in {"none", "explore"}
      BY <2>2, UnitsAre, Zenon
    <3>2. \A stacked : Bare(Pics!UnitSprites(u, stacked))
      BY <3>1, UnitIs
    <3>3. Bare(Pics!One("select", u.focus))
      BY BareOne, Zenon
    <3>. QED
      BY <2>2, <3>2, <3>3, BoomIs, BareBoth, Zenon
  <2>. QED
    BY <2>1, <2>2
<1>2. Bare(town)
  <2>1. Bare(<< <<"city", <<Pics!CitySize(place.size), place.walls>> >> >>) /\ Bare(Pics!One("disorder", place.unhappy))
    BY BareOf, BareOne, Zenon
  <2>. QED
    BY <2>1, BareNone, BareBoth, Zenon DEF Pics!CitySprites
<1>3. Bare(bar)
  BY BareNone, BareOf, Zenon
<1>4. Bare(Pics!Layer2Sprites(t, place.size > 0))
  BY BareOne, BareBoth, Zenon DEF Pics!Layer2Sprites
<1>5. Bare(Pics!Layer3Sprites(t, place.size > 0))
  BY BareOne, Zenon DEF Pics!Layer3Sprites
<1>6. Bare(Pics!PathSprites(t))
  BY BareNone, Zenon DEF Pics!PathSprites
<1>7. Bare(Pics!Special1Sprites(t, place.size > 0)) /\ Bare(Pics!One("nuke", nuke[t] > 0))
  BY SpecialIs, BareOne, Zenon
<1>8. Proper(Pics!TerrainSprites(n, t))
  BY TerrainIs
<1>9. \A s : Bare(s) => Proper(s)
  BY Zenon DEF Proper
<1>10. Pics!Layer(n, t, place, u) \in {Pics!TerrainSprites(n, t), Pics!PathSprites(t),
         Pics!Special1Sprites(t, place.size > 0), town, Pics!Layer2Sprites(t, place.size > 0), top,
         Pics!Layer3Sprites(t, place.size > 0), bar, Pics!One("nuke", nuke[t] > 0), <<>>}
  BY DEF Pics!Layer, Pics!Layers
<1>. QED
  BY <1>1, <1>2, <1>3, <1>4, <1>5, <1>6, <1>7, <1>8, <1>9, <1>10, BareNone, Zenon

LEMMA DrawKeeps ==
  ASSUME SpritesParams, SpritesInv, NEW t \in Changing, NEW place,
         NEW u \in {Pics!NoUnit, Pics!Builder, Pics!Explorer}, Pics!Draw(t, place, u)
  PROVE  SpritesInv'
<1>0. t \in Pics!Tiles /\ BoomSteps \in Nat /\ NukeSteps \in Nat /\ Pics!TypeOK
  BY DEF SpritesParams, SpritesInv
<1>1. \A n \in Pics!Layers : Proper(Pics!Layer(n, t, place, u))
  BY <1>0, LayerIs
<1>2. \A n \in Pics!Layers : seen'[n] = Pics!Layer(n, t, place, u)
  BY Zenon DEF Pics!Draw, Pics!Picture
<1>3. \A n \in Pics!Layers : Proper(seen'[n])
  BY <1>1, <1>2, Zenon
<1>4. boom' \in [Pics!Tiles -> -1..BoomSteps] /\ nuke' \in [Pics!Tiles -> 0..NukeSteps]
  <2>1. \A k \in -1..BoomSteps : (IF k > 0 THEN k - 1 ELSE Pics!Quiet) \in -1..BoomSteps
    BY <1>0 DEF Pics!Quiet
  <2>2. \A k \in 0..NukeSteps : (IF k > 0 THEN k - 1 ELSE 0) \in 0..NukeSteps
    BY <1>0
  <2>3. boom \in [Pics!Tiles -> -1..BoomSteps] /\ nuke \in [Pics!Tiles -> 0..NukeSteps]
    BY <1>0 DEF Pics!TypeOK
  <2>4. /\ boom' = [boom EXCEPT ![t] = IF @ > 0 THEN @ - 1 ELSE Pics!Quiet]
        /\ nuke' = [nuke EXCEPT ![t] = IF @ > 0 THEN @ - 1 ELSE 0]
    BY Zenon DEF Pics!Draw
  <2>. QED
    BY <1>0, <2>1, <2>2, <2>3, <2>4
<1>5. Pics!TypeOK'
  BY <1>0, <1>4, Zenon DEF Pics!TypeOK, Pics!Draw
<1>. QED
  BY <1>3, <1>5, Zenon DEF SpritesInv

LEMMA PacketsKeep ==
  ASSUME SpritesParams, SpritesInv, NEW t \in Changing,
         \/ Pics!HandleUnitCombatInfo(t)
         \/ Pics!HandleNukeTileInfo(t)
         \/ \E f \in Faces : Pics!HandleTileInfo(t, f)
  PROVE  SpritesInv'
<1>0. t \in Pics!Tiles /\ BoomSteps \in -1..BoomSteps /\ NukeSteps \in 0..NukeSteps
  BY DEF SpritesParams
<1>1. /\ seen' = seen /\ face' \in [Pics!Tiles -> Faces]
      /\ boom' \in [Pics!Tiles -> -1..BoomSteps] /\ nuke' \in [Pics!Tiles -> 0..NukeSteps]
  BY <1>0 DEF SpritesInv, Pics!TypeOK, Pics!HandleUnitCombatInfo, Pics!HandleNukeTileInfo, Pics!HandleTileInfo
<1>. QED
  BY <1>1, Zenon DEF SpritesInv, Pics!TypeOK

\* The names of the pictures of fog.
Digits(n, a, b, c, d) ==
  /\ (n >= 80 <=> a = 2 /\ b = 2 /\ c = 2 /\ d = 2)
  /\ (n \div 3 ^ 0) % 3 = a /\ (n \div 3 ^ 1) % 3 = b
  /\ (n \div 3 ^ 2) % 3 = c /\ (n \div 3 ^ 3) % 3 = d

LEMMA DigitsAre ==
  ASSUME NEW a \in 0..2, NEW b \in 0..2, NEW c \in 0..2, NEW d \in 0..2,
         NEW n, n = ((d * 3 + c) * 3 + b) * 3 + a
  PROVE  Digits(n, a, b, c, d)
<1>. PICK h \in 0..8 : h = d * 3 + c
  OBVIOUS
<1>. PICK j \in 0..26 : j = h * 3 + b
  OBVIOUS
<1>1. n = j * 3 + a /\ n = h * 9 + (b * 3 + a) /\ n = d * 27 + (c * 9 + b * 3 + a)
  OBVIOUS
<1>2. b * 3 + a \in 0..8 /\ c * 9 + b * 3 + a \in 0..26 /\ n \in 0..80
  OBVIOUS
<1>3. n >= 80 <=> a = 2 /\ b = 2 /\ c = 2 /\ d = 2
  OBVIOUS
<1>4. n \div 1 = n /\ n \div 3 = j
  BY <1>1, <1>2
<1>5. n \div 9 = h
  BY <1>1, <1>2
<1>6. n \div 27 = d
  BY <1>1, <1>2
<1>7. n % 3 = a /\ j % 3 = b
  BY <1>1, <1>2
<1>8. h % 3 = c /\ d % 3 = d
  OBVIOUS
<1>9. 3 ^ 0 = 1 /\ 3 ^ 1 = 3 /\ 3 ^ 2 = 9 /\ 3 ^ 3 = 27
  OBVIOUS
<1>10. /\ (n \div 3 ^ 0) % 3 = a /\ (n \div 3 ^ 1) % 3 = b
       /\ (n \div 3 ^ 2) % 3 = c /\ (n \div 3 ^ 3) % 3 = d
  BY <1>4, <1>5, <1>6, <1>7, <1>8, <1>9, Zenon
<1>. QED
  BY <1>3, <1>10, Zenon DEF Digits

LEMMA FogIs == Pics!FogNamed
<1>1. ASSUME NEW around \in [0..3 -> 0..2]
      PROVE  Pics!FogSprites(around) = IF \A i \in 0..3 : around[i] = 2 THEN <<>> ELSE << <<"fog", around>> >>
  <2>. PICK a \in 0..2 : a = around[0]
    OBVIOUS
  <2>. PICK b \in 0..2 : b = around[1]
    OBVIOUS
  <2>. PICK c \in 0..2 : c = around[2]
    OBVIOUS
  <2>. PICK d \in 0..2 : d = around[3]
    OBVIOUS
  <2>. PICK n : n = ((d * 3 + c) * 3 + b) * 3 + a
    OBVIOUS
  <2>0. Digits(n, a, b, c, d)
    BY DigitsAre, Zenon
  <2>1. Pics!FogIndex(around) = n
    BY Zenon DEF Pics!FogIndex
  <2>2. n >= 80 <=> \A i \in 0..3 : around[i] = 2
    BY <2>0 DEF Digits
  <2>3. Pics!FogName(n) = around
    <3>. PICK f : f = Pics!FogName(n)
      OBVIOUS
    <3>4. f[0] = a /\ f[1] = b /\ f[2] = c /\ f[3] = d /\ f = [j \in 0..3 |-> f[j]]
      BY <2>0 DEF Digits, Pics!FogName
    <3>5. \A j \in 0..3 : f[j] = around[j]
      <4>1. \A j \in 0..3 : j = 0 \/ j = 1 \/ j = 2 \/ j = 3
        OBVIOUS
      <4>. QED
        BY <3>4, <4>1, Zenon
    <3>. QED
      BY <3>4, <3>5, Zenon
  <2>. QED
    BY <2>1, <2>2, <2>3, Zenon DEF Pics!FogSprites
<1>. QED
  BY <1>1, Zenon DEF Pics!FogNamed

\* The pictures of corners.
LEMMA PlacesAre ==
  /\ \A v \in 0..2 : Pics!MatchPlace(<<0, 1, 2>>, v) = v
  /\ \A v \in 0..2 : Pics!MatchPlace(<<1, 0, 2>>, v) = IF v = 2 THEN 2 ELSE 1 - v
<1>1. ASSUME NEW s, s = <<0, 1, 2>> \/ s = <<1, 0, 2>>, NEW v \in 0..2, NEW p \in 1..3, s[p] = v
      PROVE  Pics!MatchPlace(s, v) = p - 1
  <2>1. DOMAIN s = 1..3
    BY <1>1
  <2>2. \A k \in 1..3 : s[k] = v => k = p
    BY <1>1
  <2>3. \A j \in 1..p - 1 : s[j] # v
    BY <2>2
  <2>. PICK c : c = CHOOSE k \in 1..3 : s[k] = v /\ \A j \in 1..k - 1 : s[j] # v
    OBVIOUS
  <2>4. c \in 1..3 /\ s[c] = v
    BY <1>1, <2>3, Zenon
  <2>5. Pics!MatchPlace(s, v) = c - 1
    BY <1>1, <2>1, Zenon DEF Pics!MatchPlace
  <2>. QED
    BY <2>2, <2>4, <2>5
<1>2. ASSUME NEW v \in 0..2 PROVE Pics!MatchPlace(<<0, 1, 2>>, v) = v
  <2>. PICK s : s = <<0, 1, 2>>
    OBVIOUS
  <2>0. s[1] = 0 /\ s[2] = 1 /\ s[3] = 2
    OBVIOUS
  <2>1. Pics!MatchPlace(s, v) = (v + 1) - 1
    <3>1. v + 1 \in 1..3 /\ s[v + 1] = v
      BY <2>0
    <3>. QED
      BY <1>1, <3>1, Zenon
  <2>. QED
    BY <2>1
<1>3. ASSUME NEW v \in 0..2 PROVE Pics!MatchPlace(<<1, 0, 2>>, v) = IF v = 2 THEN 2 ELSE 1 - v
  <2>. PICK s : s = <<1, 0, 2>>
    OBVIOUS
  <2>0. s[1] = 1 /\ s[2] = 0 /\ s[3] = 2
    OBVIOUS
  <2>. PICK p \in 1..3 : p = IF v = 2 THEN 3 ELSE 2 - v
    OBVIOUS
  <2>1. s[p] = v
    BY <2>0
  <2>2. Pics!MatchPlace(s, v) = p - 1
    BY <1>1, <2>1, Zenon
  <2>. QED
    BY <2>2
<1>. QED
  BY <1>2, <1>3

LEMMA Corner ==
  ASSUME NEW a \in 0..2, NEW b \in 0..2, NEW c \in 0..2, NEW i \in 0..3
  PROVE  ((c * 3 + b) * 3 + a) * 4 + i \in 0..107
<1>. PICK h \in 0..8 : h = c * 3 + b
  OBVIOUS
<1>. PICK j \in 0..26 : j = h * 3 + a
  OBVIOUS
<1>1. j * 4 + i \in 0..107
  OBVIOUS
<1>. QED
  BY <1>1

LEMMA CornerOf ==
  ASSUME NEW k \in 0..107
  PROVE  \E i \in 0..3, a \in 0..2, b \in 0..2, c \in 0..2 : k = ((c * 3 + b) * 3 + a) * 4 + i
<1>. PICK i \in 0..3, j \in 0..26 : k = (j * 4) + i
  <2>1. k % 4 \in 0..3 /\ k \div 4 \in 0..26 /\ k = ((k \div 4) * 4) + (k % 4)
    OBVIOUS
  <2>. QED
    BY <2>1
<1>. PICK a \in 0..2, h \in 0..8 : j = (h * 3) + a
  <2>1. j % 3 \in 0..2 /\ j \div 3 \in 0..8 /\ j = ((j \div 3) * 3) + (j % 3)
    OBVIOUS
  <2>. QED
    BY <2>1
<1>. PICK b \in 0..2, c \in 0..2 : h = (c * 3) + b
  <2>1. h % 3 \in 0..2 /\ h \div 3 \in 0..2 /\ h = ((h \div 3) * 3) + (h % 3)
    OBVIOUS
  <2>. QED
    BY <2>1
<1>1. k = ((c * 3 + b) * 3 + a) * 4 + i
  OBVIOUS
<1>. QED
  BY <1>1

LEMMA CornersAre == Pics!CornersDistinct
<1>1. ASSUME NEW terrain \in {"coast", "floor"}
      PROVE  {Pics!CornerIndex(Pics!TileTypesSetup(0, terrain), m, i) : m \in [1..3 -> 0..2], i \in 0..3} = 0..107
  <2>. PICK index : index = Pics!TileTypesSetup(0, terrain).index
    OBVIOUS
  <2>1. index = <<0, 1, 2>> \/ index = <<1, 0, 2>>
    BY DEF Pics!TileTypesSetup, Pics!Style
  <2>. PICK p \in [0..2 -> 0..2] : /\ \A v \in 0..2 : p[v] = Pics!MatchPlace(index, v)
                                   /\ \A w \in 0..2 : \E v \in 0..2 : p[v] = w
    <3>. PICK p : p = [v \in 0..2 |-> Pics!MatchPlace(index, v)]
      OBVIOUS
    <3>1. (\A v \in 0..2 : p[v] = v) \/ (\A v \in 0..2 : p[v] = IF v = 2 THEN 2 ELSE 1 - v)
      BY <2>1, PlacesAre
    <3>2. p \in [0..2 -> 0..2] /\ \A w \in 0..2 : \E v \in 0..2 : p[v] = w
      BY <3>1
    <3>. QED
      BY <3>2
  <2>2. ASSUME NEW m \in [1..3 -> 0..2], NEW i
        PROVE  Pics!CornerIndex(Pics!TileTypesSetup(0, terrain), m, i) = ((p[m[3]] * 3 + p[m[2]]) * 3 + p[m[1]]) * 4 + i
    <3>1. Len(index) = 3
      BY <2>1
    <3>2. m[1] \in 0..2 /\ m[2] \in 0..2 /\ m[3] \in 0..2
      OBVIOUS
    <3>. QED
      BY <3>1, <3>2, Zenon DEF Pics!CornerIndex
  <2>3. ASSUME NEW m \in [1..3 -> 0..2], NEW i \in 0..3
        PROVE  ((p[m[3]] * 3 + p[m[2]]) * 3 + p[m[1]]) * 4 + i \in 0..107
    <3>1. p[m[1]] \in 0..2 /\ p[m[2]] \in 0..2 /\ p[m[3]] \in 0..2
      OBVIOUS
    <3>. QED
      BY <3>1, Corner, Zenon
  <2>4. ASSUME NEW k \in 0..107
        PROVE  \E m \in [1..3 -> 0..2], i \in 0..3 : k = ((p[m[3]] * 3 + p[m[2]]) * 3 + p[m[1]]) * 4 + i
    <3>. PICK i \in 0..3, a \in 0..2, b \in 0..2, c \in 0..2 : k = ((c * 3 + b) * 3 + a) * 4 + i
      BY CornerOf, Zenon
    <3>. PICK x \in 0..2 : p[x] = a
      OBVIOUS
    <3>. PICK y \in 0..2 : p[y] = b
      OBVIOUS
    <3>. PICK z \in 0..2 : p[z] = c
      OBVIOUS
    <3>. PICK m : m = [e \in 1..3 |-> IF e = 1 THEN x ELSE IF e = 2 THEN y ELSE z]
      OBVIOUS
    <3>1. m \in [1..3 -> 0..2] /\ m[1] = x /\ m[2] = y /\ m[3] = z
      OBVIOUS
    <3>2. k = ((p[m[3]] * 3 + p[m[2]]) * 3 + p[m[1]]) * 4 + i
      BY <3>1
    <3>. QED
      BY <3>1, <3>2
  <2>. PICK style : style = Pics!TileTypesSetup(0, terrain)
    OBVIOUS
  <2>5. ASSUME NEW m \in [1..3 -> 0..2], NEW i \in 0..3 PROVE Pics!CornerIndex(style, m, i) \in 0..107
    <3>. PICK n : n = ((p[m[3]] * 3 + p[m[2]]) * 3 + p[m[1]]) * 4 + i
      OBVIOUS
    <3>1. n \in 0..107 /\ Pics!CornerIndex(style, m, i) = n
      BY <2>2, <2>3, Zenon
    <3>. QED
      BY <3>1, Zenon
  <2>6. \A k \in 0..107 : \E m \in [1..3 -> 0..2], i \in 0..3 : k = Pics!CornerIndex(style, m, i)
    <3>1. ASSUME NEW k \in 0..107 PROVE \E m \in [1..3 -> 0..2], i \in 0..3 : k = Pics!CornerIndex(style, m, i)
      <4>. PICK m \in [1..3 -> 0..2], i \in 0..3 : k = ((p[m[3]] * 3 + p[m[2]]) * 3 + p[m[1]]) * 4 + i
        BY <2>4, Zenon
      <4>1. Pics!CornerIndex(style, m, i) = k
        BY <2>2, Zenon
      <4>. QED
        BY <4>1, Zenon
    <3>. QED
      BY <3>1, Zenon
  <2>7. {Pics!CornerIndex(style, m, i) : m \in [1..3 -> 0..2], i \in 0..3} = 0..107
    BY <2>5, <2>6
  <2>. QED
    BY <2>7
<1>. QED
  BY <1>1 DEF Pics!CornersDistinct

LEMMA PercentIs == Pics!HpKnown
<1>1. ASSUME NEW m \in {1, 10, 20}, NEW hp \in 0..20, hp <= m
      PROVE  Pics!HpPercent(hp, m) \in {10 * n : n \in 0..10}
  <2>1. (10 * hp) \div m \in 0..10
    <3>1. CASE m = 1
      BY <1>1, <3>1
    <3>2. CASE m = 10
      BY <1>1, <3>2
    <3>3. CASE m = 20
      BY <1>1, <3>3
    <3>. QED
      BY <3>1, <3>2, <3>3
  <2>. QED
    BY <2>1, Zenon DEF Pics!HpPercent
<1>. QED
  BY <1>1, Zenon DEF Pics!HpKnown

\* Tiles are drawn soundly, for every map, every sequence of tiles, fights and drawings and every
\* number of drawings an animation lasts: each layer has one terrain at most, an explosion is one
\* of its five pictures, and the pictures that are looked up by number are the ones meant.
THEOREM SpritesAreSound == ASSUME SpritesParams PROVE Pics!Spec => []Pics!SpritesSound
<1>1. Pics!Init => SpritesInv
  <2>1. ASSUME Pics!Init PROVE SpritesInv
    <3>0. BoomSteps \in Nat /\ NukeSteps \in Nat /\ Faces \subseteq Pics!FaceRec
      BY DEF SpritesParams
    <3>1. -1 \in -1..BoomSteps /\ 0 \in 0..NukeSteps
      BY <3>0
    <3>2. /\ boom \in [Pics!Tiles -> -1..BoomSteps] /\ nuke \in [Pics!Tiles -> 0..NukeSteps]
          /\ face \in [Pics!Tiles -> Faces] /\ seen = <<>>
      BY <2>1, <3>1 DEF Pics!Init, Pics!Quiet
    <3>. QED
      BY <3>0, <3>2, Zenon DEF SpritesInv, Pics!TypeOK
  <2>. QED
    BY <2>1
<1>2. SpritesInv /\ [Pics!Next]_Pics!vars => SpritesInv'
  <2>1. CASE UNCHANGED Pics!vars
    BY <2>1 DEF SpritesInv, Pics!vars, Pics!TypeOK
  <2>2. ASSUME SpritesInv, Pics!Next PROVE SpritesInv'
    BY <2>2, DrawKeeps, PacketsKeep, Zenon DEF Pics!Next
  <2>. QED
    BY <2>1, <2>2
<1>3. SpritesInv => Pics!SpritesSound
  <2>1. ASSUME SpritesInv PROVE Pics!OnePicture
    BY <2>1, ProperSays, Zenon DEF SpritesInv, Pics!OnePicture
  <2>. QED
    BY <2>1, FogIs, CornersAre, PercentIs, Zenon DEF SpritesInv, Pics!SpritesSound
<1>. QED
  BY <1>1, <1>2, <1>3, PTL DEF Pics!Spec
=============================================================================
