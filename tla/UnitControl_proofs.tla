------------------------- MODULE UnitControl_proofs -------------------------
(***************************************************************************)
(* Proofs about UnitControl: the client's mirror of the units agrees with  *)
(* the server once everything sent is handled, the focus names no unit     *)
(* twice, an action selection is never left without a question that ends   *)
(* it, and a new turn brings a free unit into focus.  Below them proofs    *)
(* about what the client keeps beside the units: the names of the window   *)
(* (Globals, as Window) and the view of the map (MapView, as View).  The   *)
(* three share no state and no theorem is about two of them: a parameter   *)
(* whose name several have stands for each one's own.                      *)
(***************************************************************************)
EXTENDS UnitControl, FiniteSetTheorems, WellFoundedInduction, TLAPS

-----------------------------------------------------------------------------
(* The inductive invariant.                                                *)

Packets ==
  [t: {"info"}, u: Units, r: UnitRec] \cup [t: {"begin"}, u: {NoUnit}]
    \cup [t: {"remove", "sabotage", "name"}, u: Units]
    \cup [t: {"ask", "query"}, u: Units, ok: BOOLEAN]

TypeInv ==
  /\ TypeOK
  /\ down \in Seq(Packets) /\ batch \in Seq(Packets)
  /\ timers \in [update: Nat, advance: Nat]

Elements(q) == {q[i] : i \in DOMAIN q}

\* What is on its way to the mirror, in the order it will be handled.
Wire == batch \o down
Says(p, u) == p.t \in {"info", "remove"} /\ p.u = u
Told(p) == IF p.t = "info" THEN p.r ELSE None
Agree(a, b) == \/ a = None /\ b = None
               \/ /\ a # None /\ b # None
                  /\ a.owner = b.owner /\ a.tile = b.tile /\ a.want = b.want

\* The last that is on its way about a unit is what the server knows of it; of
\* what nothing is on its way about, the mirror knows it already.
Tells(w, us, sv) ==
  /\ \A u \in Units : (\A i \in DOMAIN w : ~Says(w[i], u)) => Agree(us[u], sv[u])
  /\ \A i \in DOMAIN w : \A u \in Units :
       Says(w[i], u) /\ (\A j \in DOMAIN w : i < j => ~Says(w[j], u))
         => Agree(Told(w[i]), sv[u])
\* Nothing follows a unit's removal.
RemovesLast(w) ==
  \A i, j \in DOMAIN w : i < j /\ w[i].t = "remove" => ~Says(w[j], w[i].u)
\* A unit whose removal is on its way is gone.
Gone(w, sv) == \A p \in Elements(w) : p.t = "remove" => sv[p.u] = None
\* Only numbers that were given are spoken of, and only the player's own units
\* want a decision.
Lawful(r) == r.owner # Me => r.want = NoTile
Known(w, us, sv) ==
  /\ \A u \in Units : /\ sv[u] # None => u \in born /\ Lawful(sv[u])
                      /\ us[u] # None => u \in born /\ Lawful(us[u])
  /\ \A p \in Elements(w) : /\ \A u \in Units : Says(p, u) => u \in born
                            /\ p.t = "info" => Lawful(p.r)

MirrorInv ==
  /\ TypeInv
  /\ TileListsMatch
  /\ Known(Wire, units, srv)
  /\ Gone(Wire, srv)
  /\ ~dropped => RemovesLast(Wire) /\ Tells(Wire, units, srv)

Once(q) == \A i, j \in DOMAIN q : q[i] = q[j] => i = j

\* What is in focus is mirrored.
FocusKnown(c, us) == \A i \in DOMAIN c.focus : us[c.focus[i]] # None
Urgent(c, us) == \A u \in Elements(c.urgent) : us[u] # None
Shared(c, lists) == c.shared # NoTile => Elements(c.focus) = lists[c.shared]

FocusInv ==
  /\ Once(ctl.focus)
  /\ FocusKnown(ctl, units)
  /\ Urgent(ctl, units)
  /\ Shared(ctl, onTile)

\* The unit that selects is the player's own, or is lost and its number with it.
Own(u) == u \in born /\ ((units[u] # None /\ units[u].owner = Me) \/ srv[u] = None)

\* What ends a selection, whatever unit it is for, and what ends that of s.
Asking(c) == \E q \in Elements(c.up) : q.k \in {"ask", "query"}
Ending(c, pending) ==
  \/ \E d \in Elements(c.dialogs) : d.kind \in {"price", "list", "name"}
  \/ Asking(c)
  \/ \E p \in pending : p.t \in {"ask", "query", "sabotage", "name"}
EndingFor(c, s) ==
  \/ \E q \in Elements(c.up) : q.k \in {"sabotage", "name"} /\ q.u = s
  \/ c.dialogs # <<>> /\ c.dialogs[Len(c.dialogs)] = [kind |-> "select", u |-> s] /\ ~c.more

SelectInv ==
  /\ ~switched => ~ctl.restart
  /\ ~dropped => \A u \in Units :
       /\ ctl.selecting = u => Own(u)
       /\ ctl.selecting = u /\ Kept(u) /\ ~switched =>
            Ending(ctl, Pending) \/ EndingFor(ctl, u)

Inv == MirrorInv /\ FocusInv /\ SelectInv

-----------------------------------------------------------------------------
(* Lemmas about the model's operators.                                     *)

\* A nonempty set of numbers has a least element.
LEMMA Least ==
  ASSUME NEW T, T \subseteq Nat, T # {}
  PROVE  \E x \in T : \A y \in T : x <= y
<1>1. PICK x \in T : \A y \in T : <<y, x>> \notin OpToRel(<, Nat)
  BY WFMin, NatLessThanWellFounded, Zenon
<1>2. \A y \in T : <<y, x>> \in Nat \X Nat
  OBVIOUS
<1>3. \A y \in T : ~(y < x)
  BY <1>1, <1>2, Zenon DEF OpToRel
<1>4. \A y \in T : x <= y
  <2> x \in Nat /\ \A y \in T : y \in Nat
    OBVIOUS
  <2> QED BY <1>3, SMT
<1> QED BY <1>4

LEMMA FirstIsIn ==
  ASSUME NEW T, T \subseteq Nat, T # {}
  PROVE  First(T) \in T
<1>1. \E x \in T : \A y \in T : x <= y
  BY Least
<1> QED BY <1>1 DEF First

LEMMA IndexSets ==
  ASSUME NEW S, NEW list \in Seq(S), NEW K, K \subseteq DOMAIN list
  PROVE  IsFiniteSet(K) /\ K \subseteq Nat \ {0} /\ Cardinality(K) \in Nat
<1>1. DOMAIN list = 1..Len(list) /\ Len(list) \in Nat
  OBVIOUS
<1>2. IsFiniteSet(1..Len(list))
  BY <1>1, FS_Interval
<1>3. IsFiniteSet(K)
  BY <1>1, <1>2, FS_Subset
<1> QED BY <1>1, <1>3, FS_CardinalityType

\* The rank of a number in a set: how many are smaller.
Rank(K, i) == Cardinality({j \in K : j < i})

LEMMA RankGrows ==
  ASSUME NEW K, IsFiniteSet(K), K \subseteq Nat, NEW i \in K, NEW j \in K, i < j
  PROVE  Rank(K, i) < Rank(K, j)
<1> DEFINE A == {k \in K : k < i}
           B == {k \in K : k < j}
<1>1. IsFiniteSet(A) /\ IsFiniteSet(B)
  BY FS_Subset
<1>2. A \subseteq B /\ i \in B /\ i \notin A
  <2> i \in Nat /\ j \in Nat /\ \A k \in K : k \in Nat
    OBVIOUS
  <2>1. \A k \in K : k < i => k < j
    BY SMT
  <2>2. ~(i < i)
    BY SMT
  <2> QED BY <2>1, <2>2
<1>3. A # B
  BY <1>2
<1>4. Cardinality(A) < Cardinality(B)
  BY <1>1, <1>2, <1>3, FS_Subset, FS_CardinalityType
<1> QED BY <1>4 DEF Rank

LEMMA RankBounds ==
  ASSUME NEW K, IsFiniteSet(K), K \subseteq Nat, NEW i \in K
  PROVE  Rank(K, i) \in Nat /\ Rank(K, i) < Cardinality(K)
<1> DEFINE A == {k \in K : k < i}
<1>1. IsFiniteSet(A) /\ A \subseteq K /\ i \notin A
  BY FS_Subset
<1>2. A # K
  BY <1>1
<1>3. Cardinality(A) < Cardinality(K) /\ Cardinality(A) \in Nat
  BY <1>1, <1>2, FS_Subset, FS_CardinalityType
<1> QED BY <1>3 DEF Rank

\* Every rank below the size of the set is some element's.
LEMMA RanksAreTaken ==
  ASSUME NEW K, IsFiniteSet(K), K \subseteq Nat, NEW n \in Nat, n < Cardinality(K)
  PROVE  \E i \in K : Rank(K, i) = n
<1> DEFINE T == {m \in Nat : m < Cardinality(K) /\ \A i \in K : Rank(K, i) # m}
<1>0. Cardinality(K) \in Nat
  BY FS_CardinalityType
<1> SUFFICES ASSUME T # {} PROVE FALSE
  OBVIOUS
<1>1. PICK m \in T : \A y \in T : m <= y
  BY Least
<1>2. m \in Nat /\ m < Cardinality(K) /\ \A i \in K : Rank(K, i) # m
  OBVIOUS
<1>3. CASE m = 0
  <2>1. K # {}
    BY <1>2, <1>3, FS_EmptySet
  <2>2. PICK i \in K : \A j \in K : i <= j
    BY <2>1, Least
  <2>3. {j \in K : j < i} = {}
    <3> i \in Nat /\ \A j \in K : j \in Nat
      OBVIOUS
    <3>1. \A j \in K : ~(j < i)
      BY <2>2, SMT
    <3> QED BY <3>1
  <2>4. Rank(K, i) = 0
    BY <2>3, FS_EmptySet DEF Rank
  <2> QED BY <2>4, <1>2, <1>3
<1>4. CASE m # 0
  <2>1. m - 1 \in Nat /\ m - 1 < Cardinality(K) /\ ~(m <= m - 1)
    BY <1>0, <1>2, <1>4
  <2>2. m - 1 \notin T
    BY <1>1, <2>1
  <2>3. PICK i \in K : Rank(K, i) = m - 1
    BY <2>1, <2>2
  <2> DEFINE A == {k \in K : k < i}
             L == {k \in K : k > i}
  <2>4. IsFiniteSet(A) /\ i \notin A /\ Cardinality(A) = m - 1
    BY <2>3, FS_Subset DEF Rank
  <2>5. IsFiniteSet(A \cup {i}) /\ Cardinality(A \cup {i}) = m
    <3> HIDE DEF A
    <3>1. IsFiniteSet(A \cup {i}) /\ Cardinality(A \cup {i}) = Cardinality(A) + 1
      BY <2>4, FS_AddElement
    <3>2. (m - 1) + 1 = m
      BY <1>2
    <3> QED BY <3>1, <3>2, <2>4
  <2>6. L # {}
    <3> SUFFICES ASSUME L = {} PROVE FALSE
      OBVIOUS
    <3>1. \A k \in K : k = i \/ k < i
      OBVIOUS
    <3>2. K = A \cup {i}
      BY <3>1
    <3> QED BY <3>2, <2>5, <1>0, <1>2
  <2>7. PICK k \in L : \A j \in L : k <= j
    BY <2>6, Least
  <2>8. \A j \in K : j < k <=> (j < i \/ j = i)
    BY <2>7
  <2>9. {j \in K : j < k} = A \cup {i}
    BY <2>8
  <2> QED BY <2>5, <2>9, <1>2, <2>7 DEF Rank
<1> QED BY <1>3, <1>4

\* Only keeps the elements that are in the set, and repeats none.
LEMMA OnlyKeeps ==
  ASSUME NEW T, NEW list \in Seq(T), NEW S
  PROVE  /\ Only(list, S) \in Seq(T)
         /\ Elements(Only(list, S)) = Elements(list) \cap S
         /\ Once(list) => Once(Only(list, S))
<1> DEFINE K == {i \in DOMAIN list : list[i] \in S}
           at(k) == CHOOSE i \in K : Rank(K, i) = k - 1
           n == Cardinality(K)
           o == [k \in 1..n |-> list[at(k)]]
<1>1. IsFiniteSet(K) /\ K \subseteq Nat /\ n \in Nat
  BY IndexSets
<1>2. Only(list, S) = o
  BY DEF Only, Rank
<1>3. ASSUME NEW k \in 1..n PROVE at(k) \in K /\ Rank(K, at(k)) = k - 1
  <2>1. k - 1 \in Nat /\ k - 1 < n
    BY <1>1
  <2>2. \E i \in K : Rank(K, i) = k - 1
    BY <2>1, <1>1, RanksAreTaken
  <2> QED BY <2>2
<1>4. ASSUME NEW i \in K PROVE \E k \in 1..n : at(k) = i
  <2> DEFINE k == Rank(K, i) + 1
  <2>1. k \in 1..n /\ k - 1 = Rank(K, i)
    BY <1>1, RankBounds
  <2>2. at(k) \in K /\ Rank(K, at(k)) = Rank(K, i)
    BY <2>1, <1>3
  <2>3. ~(at(k) < i)
    BY <2>2, <1>1, RankGrows, RankBounds
  <2>4. ~(i < at(k))
    BY <2>2, <1>1, RankGrows, RankBounds
  <2>5. at(k) = i
    <3> HIDE DEF at
    <3> QED BY <2>2, <2>3, <2>4, <1>1
  <2> QED BY <2>1, <2>5
<1>5. \A i \in K : list[i] \in T /\ list[i] \in S
  OBVIOUS
<1> HIDE DEF at
<1>6. o \in Seq(T)
  <2>1. \A k \in 1..n : list[at(k)] \in T
    BY <1>3, <1>5
  <2> QED BY <2>1, <1>1
<1>7. Elements(o) = Elements(list) \cap S
  <2>1. DOMAIN o = 1..n /\ \A k \in 1..n : o[k] = list[at(k)]
    BY <1>1
  <2> HIDE DEF o
  <2>2. ASSUME NEW x \in Elements(o) PROVE x \in Elements(list) \cap S
    <3>1. PICK k \in 1..n : x = list[at(k)]
      BY <2>1 DEF Elements
    <3> QED BY <3>1, <1>3 DEF Elements
  <2>3. ASSUME NEW x \in Elements(list) \cap S PROVE x \in Elements(o)
    <3>1. PICK i \in K : x = list[i]
      BY DEF Elements
    <3>2. PICK k \in 1..n : at(k) = i
      BY <3>1, <1>4
    <3> QED BY <3>1, <3>2, <2>1 DEF Elements
  <2> QED BY <2>2, <2>3
<1>8. ASSUME Once(list) PROVE Once(o)
  <2>1. DOMAIN o = 1..n /\ \A k \in 1..n : o[k] = list[at(k)]
    BY <1>1
  <2> HIDE DEF o
  <2> SUFFICES ASSUME NEW j \in 1..n, NEW k \in 1..n, list[at(j)] = list[at(k)]
               PROVE  j = k
    BY <2>1 DEF Once
  <2>2. at(j) = at(k)
    BY <1>3, <1>8 DEF Once
  <2>3. j - 1 = k - 1
    BY <1>3, <2>2
  <2> QED BY <2>3, <1>1
<1> QED BY <1>2, <1>6, <1>7, <1>8

-----------------------------------------------------------------------------
(* What the calls do to the control state.                                 *)

Mirrors == [Units -> UnitRec \cup {None}]
Requests == [k: {"ask", "query", "sabotage", "name", "unqueue"}, u: Units]

\* The focus moves: requests are only added, the dialogs and their flags stay,
\* and a selection that changes was asked for.
Keeps(c, d) ==
  /\ d \in Control
  /\ d.dialogs = c.dialogs /\ d.more = c.more
  /\ d.restart = c.restart /\ d.undecided = c.undecided
  /\ Elements(c.up) \subseteq Elements(d.up)
  /\ d.selecting = c.selecting \/ Asking(d)

SameFocus(c, d) == d.focus = c.focus /\ d.shared = c.shared

\* The unit that begins to select wants a decision.
Chosen(c, d, us) ==
  d.selecting \notin {c.selecting, NoUnit} =>
    /\ d.selecting \in Units
    /\ us[d.selecting] # None /\ Wants(us[d.selecting])

\* The focus stays, or becomes one mirrored unit or none.
Moves(c, d, us) ==
  /\ Keeps(c, d)
  /\ Chosen(c, d, us)
  /\ Elements(d.urgent) \subseteq Elements(c.urgent)
  /\ \/ SameFocus(c, d)
     \/ /\ Len(d.focus) <= 1 /\ d.shared = NoTile
        /\ \A i \in DOMAIN d.focus : us[d.focus[i]] # None

LEMMA NoUnitIsNoUnit == NoUnit \notin Units
BY UnitControlAssumption

LEMMA Appended ==
  ASSUME NEW S, NEW q \in Seq(S), NEW x \in S
  PROVE  /\ Append(q, x) \in Seq(S)
         /\ Elements(Append(q, x)) = Elements(q) \cup {x}
<1>1. /\ Append(q, x) \in Seq(S) /\ Len(q) \in Nat
      /\ DOMAIN q = 1..Len(q)
      /\ DOMAIN Append(q, x) = 1..Len(q) + 1
      /\ \A i \in 1..Len(q) : Append(q, x)[i] = q[i]
      /\ Append(q, x)[Len(q) + 1] = x
  OBVIOUS
<1>2. 1..Len(q) + 1 = 1..Len(q) \cup {Len(q) + 1}
  BY <1>1
<1>3. \A y : y \in Elements(Append(q, x)) <=> y \in Elements(q) \/ y = x
  BY <1>1, <1>2 DEF Elements
<1> QED BY <1>1, <1>3

\* A request is added to those on their way.
LEMMA SendAdds ==
  ASSUME NEW c \in Control, NEW k \in {"ask", "query", "sabotage", "name", "unqueue"},
         NEW u \in Units
  PROVE  /\ Send(c, k, u) \in Control
         /\ Send(c, k, u) = [c EXCEPT !.up = Send(c, k, u).up]
         /\ Elements(Send(c, k, u).up) = Elements(c.up) \cup {[k |-> k, u |-> u]}
<1> DEFINE q == [k |-> k, u |-> u]
<1>1. q \in Requests /\ c.up \in Seq(Requests)
  BY DEF Control, Requests
<1>2. Append(c.up, q) \in Seq(Requests) /\ Elements(Append(c.up, q)) = Elements(c.up) \cup {q}
  BY <1>1, Appended
<1>3. Send(c, k, u) = [c EXCEPT !.up = Append(c.up, q)]
  BY DEF Send
<1>4. Send(c, k, u).up = Append(c.up, q)
  BY <1>3 DEF Control
<1>5. Send(c, k, u) \in Control
  BY <1>2, <1>3 DEF Control, Requests
<1> QED BY <1>2, <1>3, <1>4, <1>5

LEMMA AskAsks ==
  ASSUME NEW c \in Control, NEW u \in Units
  PROVE  LET d == AskServerForActions(c, u)
         IN  /\ Keeps(c, d) /\ SameFocus(c, d) /\ Asking(d) /\ d.selecting = u
             /\ d.urgent = c.urgent /\ d.waiting = c.waiting
<1> DEFINE b == [c EXCEPT !.selecting = u]
           d == Send(b, "ask", u)
<1>1. b \in Control
  BY DEF Control
<1>2. /\ d \in Control /\ d = [b EXCEPT !.up = d.up]
      /\ Elements(d.up) = Elements(b.up) \cup {[k |-> "ask", u |-> u]}
  BY <1>1, SendAdds
<1> DEFINE q == [k |-> "ask", u |-> u]
<1>q. q.k = "ask"
  OBVIOUS
<1> HIDE DEF d, q
<1>3. Asking(d)
  BY <1>2, <1>q DEF Asking, q
<1>4. /\ d.dialogs = c.dialogs /\ d.more = c.more /\ d.restart = c.restart
      /\ d.undecided = c.undecided /\ d.selecting = u /\ b.up = c.up
      /\ d.focus = c.focus /\ d.shared = c.shared
      /\ d.urgent = c.urgent /\ d.waiting = c.waiting
  BY <1>2 DEF Control
<1>5. AskServerForActions(c, u) = d
  BY DEF AskServerForActions, d
<1> QED BY <1>2, <1>3, <1>4, <1>5 DEF Keeps, SameFocus

LEMMA KeepsItself ==
  ASSUME NEW c \in Control
  PROVE  Keeps(c, c) /\ SameFocus(c, c)
BY DEF Keeps, SameFocus

\* The next unit in focus that wants a decision is asked for.
LEMMA NextInFocusMoves ==
  ASSUME NEW c \in Control, NEW us \in Mirrors, NEW old
  PROVE  LET d == NextInFocus(c, us, old)
         IN  /\ Keeps(c, d) /\ SameFocus(c, d)
             /\ d.urgent = c.urgent /\ d.waiting = c.waiting
             /\ FocusKnown(c, us) => Chosen(c, d, us)
<1> DEFINE due == {i \in DOMAIN c.focus : /\ c.focus[i] # old
                                          /\ Wants(us[c.focus[i]])}
           d == AskServerForActions(c, c.focus[First(due)])
<1>1. CASE due = {}
  BY <1>1, KeepsItself DEF NextInFocus, Chosen
<1>2. CASE due # {}
  <2>1. c.focus \in Seq(Units) /\ due \subseteq DOMAIN c.focus
    BY DEF Control
  <2>2. due \subseteq Nat
    BY <2>1, IndexSets
  <2>3. First(due) \in due
    BY <1>2, <2>2, FirstIsIn
  <2> DEFINE u == c.focus[First(due)]
  <2>3a. First(due) \in DOMAIN c.focus /\ Wants(us[u])
    BY <2>3
  <2>4. u \in Units /\ Wants(us[u])
    <3> HIDE DEF due
    <3>1. c.focus[First(due)] \in Units
      BY <2>1, <2>3a
    <3> QED BY <3>1, <2>3a
  <2>5. FocusKnown(c, us) => us[u] # None
    BY <2>3 DEF FocusKnown
  <2>7. NextInFocus(c, us, old) = d
    BY <1>2 DEF NextInFocus
  <2> HIDE DEF due
  <2>8. /\ Keeps(c, d) /\ SameFocus(c, d) /\ Asking(d) /\ d.selecting = u
        /\ d.urgent = c.urgent /\ d.waiting = c.waiting
    BY <2>4, AskAsks
  <2> HIDE DEF u, d
  <2>9. FocusKnown(c, us) => Chosen(c, d, us)
    BY <2>4, <2>5, <2>8 DEF Chosen
  <2> QED BY <2>7, <2>8, <2>9
<1> QED BY <1>1, <1>2

LEMMA SetUnitFocusMoves ==
  ASSUME NEW c \in Control, NEW us \in Mirrors, NEW u \in Units, us[u] # None
  PROVE  /\ Moves(c, SetUnitFocus(c, us, u), us)
         /\ SetUnitFocus(c, us, u).focus = <<u>>
<1> DEFINE b == [c EXCEPT !.focus = <<u>>, !.shared = NoTile]
           d == NextInFocus(b, us, NoUnit)
<1>1. b \in Control
  <2>1. <<u>> \in Seq(Units)
    OBVIOUS
  <2> QED BY <2>1 DEF Control
<1>2. /\ b.focus = <<u>> /\ b.shared = NoTile
      /\ b.dialogs = c.dialogs /\ b.more = c.more /\ b.restart = c.restart
      /\ b.undecided = c.undecided /\ b.up = c.up /\ b.selecting = c.selecting
      /\ b.urgent = c.urgent
  BY DEF Control
<1> HIDE DEF b
<1>3. FocusKnown(b, us)
  BY <1>2 DEF FocusKnown
<1>4. /\ Keeps(b, d) /\ SameFocus(b, d) /\ d.urgent = b.urgent /\ Chosen(b, d, us)
  BY <1>1, <1>3, NextInFocusMoves
<1> HIDE DEF d
<1>5. Keeps(c, d)
  BY <1>2, <1>4 DEF Keeps
<1>6. Chosen(c, d, us)
  BY <1>2, <1>4 DEF Chosen
<1>7. d.focus = <<u>> /\ d.shared = NoTile /\ d.urgent = c.urgent
  BY <1>2, <1>4 DEF SameFocus
<1>8. Len(d.focus) <= 1 /\ \A i \in DOMAIN d.focus : us[d.focus[i]] # None
  BY <1>7
<1>9. SetUnitFocus(c, us, u) = d
  BY DEF SetUnitFocus, b, d
<1> QED BY <1>5, <1>6, <1>7, <1>8, <1>9 DEF Moves

LEMMA ClearFocusMoves ==
  ASSUME NEW c \in Control, NEW us
  PROVE  Moves(c, ClearFocus(c), us)
<1> DEFINE d == ClearFocus(c)
<1>1. d \in Control
  <2>1. <<>> \in Seq(Units)
    OBVIOUS
  <2> QED BY <2>1 DEF Control, ClearFocus
<1>2. /\ d.focus = <<>> /\ d.shared = NoTile
      /\ d.dialogs = c.dialogs /\ d.more = c.more /\ d.restart = c.restart
      /\ d.undecided = c.undecided /\ d.up = c.up /\ d.selecting = c.selecting
      /\ d.urgent = c.urgent
  BY DEF Control, ClearFocus
<1> HIDE DEF d
<1>3. Len(d.focus) <= 1 /\ \A i \in DOMAIN d.focus : us[d.focus[i]] # None
  BY <1>2
<1> QED BY <1>1, <1>2, <1>3 DEF Moves, Keeps, Chosen, d

\* Among mirrored units one is nearest.
LEMMA NearestExists ==
  ASSUME NEW us \in Mirrors, NEW free \in SUBSET Units, free # {},
         \A u \in free : us[u] # None
  PROVE  \E u \in free : \A v \in free : Before(us, u, v)
<1>0. Units \subseteq Nat /\ Tiles \subseteq Nat
  BY UnitControlAssumption
<1>1. \A u \in free : us[u].tile \in Nat /\ u \in Nat
  BY <1>0 DEF Mirrors, UnitRec
<1> DEFINE T == {us[u].tile : u \in free}
<1>2. PICK t \in T : \A y \in T : t <= y
  <2>1. T \subseteq Nat /\ T # {}
    BY <1>1
  <2> QED BY <2>1, Least
<1> DEFINE S == {u \in free : us[u].tile = t}
<1>3. PICK u \in S : \A y \in S : u <= y
  <2>1. S \subseteq Nat /\ S # {}
    BY <1>1
  <2> QED BY <2>1, Least
<1>4. ASSUME NEW v \in free PROVE Before(us, u, v)
  <2>1. us[u].tile = t /\ t <= us[v].tile /\ us[u].tile \in Nat /\ us[v].tile \in Nat
    BY <1>1, <1>2, <1>3
  <2>2. us[v].tile = t => u <= v
    BY <1>3
  <2> QED BY <2>1, <2>2 DEF Before
<1> QED BY <1>3, <1>4

LEMMA BestCandidateIsMirrored ==
  ASSUME NEW c \in Control, NEW us \in Mirrors, NEW accept \in BOOLEAN,
         NEW u, u = BestCandidate(c, us, accept)
  PROVE  /\ u = NoUnit \/ (u \in Units /\ us[u] # None)
         /\ Eligible(c, us, accept) # {} => u # NoUnit
<1> DEFINE free == Eligible(c, us, accept)
           back == {i \in DOMAIN c.waiting : /\ us[c.waiting[i]] # None
                                             /\ us[c.waiting[i]].st # "spent"}
<1>1. CASE free # {}
  <2>1. free \in SUBSET Units /\ \A v \in free : us[v] # None
    BY DEF Eligible
  <2>2. \E v \in free : \A w \in free : Before(us, v, w)
    BY <1>1, <2>1, NearestExists
  <2>3. u = CHOOSE v \in free : \A w \in free : Before(us, v, w)
    BY <1>1 DEF BestCandidate
  <2> HIDE DEF free
  <2>4. u \in free
    BY <2>2, <2>3
  <2> QED BY <2>1, <2>4, NoUnitIsNoUnit
<1>2. CASE free = {} /\ back # {}
  <2>1. c.waiting \in Seq(Units) /\ back \subseteq DOMAIN c.waiting
    BY DEF Control
  <2>2. First(back) \in back
    <3> HIDE DEF back
    <3>1. back \subseteq Nat
      BY <2>1, IndexSets
    <3> QED BY <1>2, <3>1, FirstIsIn
  <2>3. First(back) \in DOMAIN c.waiting /\ us[c.waiting[First(back)]] # None
    BY <2>2
  <2>4. u = c.waiting[First(back)]
    BY <1>2 DEF BestCandidate
  <2> HIDE DEF back
  <2> QED BY <2>1, <2>3, <2>4, <1>2
<1>3. CASE free = {} /\ back = {}
  BY <1>3 DEF BestCandidate
<1> QED BY <1>1, <1>2, <1>3

\* The search sets the focus to a mirrored unit, or to none when none is free.
LEMMA FocusBestMoves ==
  ASSUME NEW c \in Control, NEW us \in Mirrors
  PROVE  /\ Moves(c, FocusBest(c, us), us)
         /\ Eligible(c, us, TRUE) # {} => FocusBest(c, us).focus # <<>>
<1> DEFINE another == BestCandidate(c, us, FALSE)
           u == IF another # NoUnit THEN another ELSE BestCandidate(c, us, TRUE)
           at == {j \in DOMAIN c.waiting : c.waiting[j] = u}
           i == First(at)
           rest == [c EXCEPT !.waiting = SubSeq(c.waiting, 1, i - 1)
                                           \o SubSeq(c.waiting, i + 1, Len(c.waiting))]
           b == IF Has(c.waiting, u) THEN rest ELSE c
<1>1. FocusBest(c, us) = IF u = NoUnit THEN ClearFocus(c) ELSE SetUnitFocus(b, us, u)
  BY DEF FocusBest
<1>2. /\ u = NoUnit \/ (u \in Units /\ us[u] # None)
      /\ Eligible(c, us, TRUE) # {} => u # NoUnit
  BY BestCandidateIsMirrored
<1> HIDE DEF u
<1>3. b \in Control /\ b = [c EXCEPT !.waiting = b.waiting]
  <2>1. c.waiting \in Seq(Units)
    BY DEF Control
  <2>2. CASE Has(c.waiting, u)
    <3>1. i \in at
      <4>1. at \subseteq DOMAIN c.waiting /\ at # {}
        BY <2>2 DEF Has
      <4> HIDE DEF at
      <4>2. at \subseteq Nat
        BY <2>1, <4>1, IndexSets
      <4> QED BY <4>1, <4>2, FirstIsIn
    <3> HIDE DEF i
    <3>2. i \in 1..Len(c.waiting)
      BY <3>1, <2>1
    <3>3. SubSeq(c.waiting, 1, i - 1) \in Seq(Units)
      BY <3>2, <2>1
    <3>4. SubSeq(c.waiting, i + 1, Len(c.waiting)) \in Seq(Units)
      BY <3>2, <2>1
    <3>5. SubSeq(c.waiting, 1, i - 1) \o SubSeq(c.waiting, i + 1, Len(c.waiting)) \in Seq(Units)
      BY <3>3, <3>4
    <3> QED BY <2>2, <3>5 DEF Control
  <2>3. CASE ~Has(c.waiting, u)
    BY <2>3 DEF Control
  <2> QED BY <2>2, <2>3
<1> HIDE DEF b
<1>4. CASE u = NoUnit
  BY <1>1, <1>2, <1>4, ClearFocusMoves
<1>5. CASE u # NoUnit
  <2> DEFINE d == SetUnitFocus(b, us, u)
  <2>1. Moves(b, d, us) /\ d.focus = <<u>>
    BY <1>2, <1>3, <1>5, SetUnitFocusMoves
  <2>2. /\ b.focus = c.focus /\ b.shared = c.shared
        /\ b.dialogs = c.dialogs /\ b.more = c.more /\ b.restart = c.restart
        /\ b.undecided = c.undecided /\ b.up = c.up /\ b.selecting = c.selecting
        /\ b.urgent = c.urgent
    BY <1>3 DEF Control
  <2> HIDE DEF d
  <2>3. Moves(c, d, us)
    BY <2>1, <2>2 DEF Moves, Keeps, SameFocus, Chosen
  <2>4. d.focus # <<>>
    BY <2>1
  <2> QED BY <1>1, <1>5, <2>3, <2>4 DEF d
<1> QED BY <1>4, <1>5

\* Advancing the focus takes only mirrored units from the urgent queue.
LEMMA AdvanceMoves ==
  ASSUME NEW c \in Control, NEW us \in Mirrors, Urgent(c, us)
  PROVE  /\ Moves(c, AdvanceUnitFocus(c, us), us)
         /\ Eligible(c, us, TRUE) # {} => AdvanceUnitFocus(c, us).focus # <<>>
<1> DEFINE free == {i \in DOMAIN c.urgent : ~Reassigned(us[c.urgent[i]])}
           near == {i \in free : \/ c.focus = <<>>
                                 \/ us[c.urgent[i]].tile = us[c.focus[1]].tile}
           seen == IF near = {} THEN DOMAIN c.urgent ELSE 1..First(near)
           pick == IF near # {} THEN c.urgent[First(near)]
                   ELSE IF free # {} THEN c.urgent[First(free)] ELSE NoUnit
           gone == {c.urgent[i] : i \in seen \ free} \cup {pick}
           rest == [c EXCEPT !.urgent = Only(c.urgent, Units \ gone)]
<1>1. AdvanceUnitFocus(c, us) = IF pick = NoUnit THEN FocusBest(rest, us)
                                ELSE SetUnitFocus(rest, us, pick)
  BY DEF AdvanceUnitFocus
<1>2. c.urgent \in Seq(Units)
  BY DEF Control
<1>3. pick = NoUnit \/ (pick \in Units /\ us[pick] # None)
  <2>1. near \subseteq DOMAIN c.urgent /\ free \subseteq DOMAIN c.urgent
    OBVIOUS
  <2> HIDE DEF near, free
  <2>2. near \subseteq Nat /\ free \subseteq Nat
    BY <1>2, <2>1, IndexSets
  <2>3. near # {} => First(near) \in near
    BY <2>2, FirstIsIn
  <2>4. free # {} => First(free) \in free
    BY <2>2, FirstIsIn
  <2>5. \A i \in DOMAIN c.urgent : c.urgent[i] \in Units /\ us[c.urgent[i]] # None
    BY <1>2 DEF Urgent, Elements
  <2> QED BY <2>1, <2>3, <2>4, <2>5
<1> HIDE DEF pick, gone
<1>4. /\ Only(c.urgent, Units \ gone) \in Seq(Units)
      /\ Elements(Only(c.urgent, Units \ gone)) \subseteq Elements(c.urgent)
  BY <1>2, OnlyKeeps
<1>5. /\ rest \in Control
      /\ Elements(rest.urgent) \subseteq Elements(c.urgent)
      /\ rest.focus = c.focus /\ rest.shared = c.shared
      /\ rest.dialogs = c.dialogs /\ rest.more = c.more /\ rest.restart = c.restart
      /\ rest.undecided = c.undecided /\ rest.up = c.up /\ rest.selecting = c.selecting
      /\ rest.waiting = c.waiting /\ rest.taken = c.taken
  BY <1>4 DEF Control
<1> HIDE DEF rest
<1> DEFINE d == AdvanceUnitFocus(c, us)
<1>6. Moves(rest, d, us)
  BY <1>1, <1>3, <1>5, FocusBestMoves, SetUnitFocusMoves
<1>7. Eligible(c, us, TRUE) # {} => d.focus # <<>>
  <2>1. Eligible(rest, us, TRUE) = Eligible(c, us, TRUE)
    BY <1>5 DEF Eligible, Has
  <2>2. CASE pick = NoUnit
    BY <1>1, <1>5, <2>1, <2>2, FocusBestMoves
  <2>3. CASE pick # NoUnit
    <3>1. d.focus = <<pick>>
      BY <1>1, <1>3, <1>5, <2>3, SetUnitFocusMoves
    <3> QED BY <3>1
  <2> QED BY <2>2, <2>3
<1> HIDE DEF d
<1>8. Moves(c, d, us)
  BY <1>5, <1>6 DEF Moves, Keeps, SameFocus, Chosen
<1> QED BY <1>7, <1>8 DEF d

LEMMA MovesNowhere ==
  ASSUME NEW c \in Control, NEW us
  PROVE  Moves(c, c, us)
BY KeepsItself DEF Moves, Chosen

LEMMA UpdateMoves ==
  ASSUME NEW c \in Control, NEW us \in Mirrors, Urgent(c, us)
  PROVE  /\ Moves(c, UpdateUnitFocus(c, us), us)
         /\ Eligible(c, us, TRUE) # {} => UpdateUnitFocus(c, us).focus # <<>>
<1>1. \A i \in DOMAIN c.focus : c.focus # <<>>
  OBVIOUS
<1> QED BY <1>1, AdvanceMoves, MovesNowhere DEF UpdateUnitFocus, InUse

-----------------------------------------------------------------------------
(* What they do to the selection.                                          *)

\* Only requests are added.
Adds(c, d) ==
  d \in Control /\ d = [c EXCEPT !.up = d.up] /\ Elements(c.up) \subseteq Elements(d.up)

\* The focus stays, and who selects was asked for; no restart begins.
Settles(c, d, us) ==
  /\ d \in Control
  /\ SameFocus(c, d) /\ d.urgent = c.urgent
  /\ Elements(c.up) \subseteq Elements(d.up)
  /\ d.restart => c.restart
  /\ FocusKnown(c, us) => Chosen(c, d, us)

\* The selection is over: nobody selects, or the next was asked for.
Over(d) == d.selecting = NoUnit \/ Asking(d)

LEMMA ClearWantAdds ==
  ASSUME NEW c \in Control, NEW us, NEW u \in Units
  PROVE  Adds(c, ClearWant(c, us, u))
<1>1. CASE us[u] # None /\ Wants(us[u])
  <2> DEFINE d == Send(c, "unqueue", u)
  <2>1. ClearWant(c, us, u) = d
    BY <1>1 DEF ClearWant
  <2>2. /\ d \in Control /\ d = [c EXCEPT !.up = d.up]
        /\ Elements(d.up) = Elements(c.up) \cup {[k |-> "unqueue", u |-> u]}
    BY SendAdds
  <2> HIDE DEF d
  <2>3. Adds(c, d)
    BY <2>2 DEF Adds
  <2> QED BY <2>1, <2>3
<1>2. CASE ~(us[u] # None /\ Wants(us[u]))
  <2>1. c = [c EXCEPT !.up = c.up]
    BY DEF Control
  <2> QED BY <1>2, <2>1 DEF ClearWant, Adds
<1> QED BY <1>1, <1>2

LEMMA AddsFields ==
  ASSUME NEW c \in Control, NEW d, Adds(c, d)
  PROVE  /\ d \in Control /\ SameFocus(c, d)
         /\ d.urgent = c.urgent /\ d.waiting = c.waiting
         /\ d.dialogs = c.dialogs /\ d.more = c.more /\ d.restart = c.restart
         /\ d.undecided = c.undecided /\ d.selecting = c.selecting
BY DEF Adds, Control, SameFocus

LEMMA NoLongerFields ==
  ASSUME NEW c \in Control, NEW d, d = NoLongerInProgress(c)
  PROVE  /\ d \in Control /\ SameFocus(c, d)
         /\ d.urgent = c.urgent /\ d.up = c.up
         /\ d.dialogs = c.dialogs /\ d.more = FALSE /\ d.restart = c.restart
         /\ d.undecided = c.undecided /\ d.selecting = NoUnit
BY DEF NoLongerInProgress, Control, SameFocus

LEMMA RestartFields ==
  ASSUME NEW c \in Control, NEW d, d = [c EXCEPT !.restart = FALSE]
  PROVE  /\ d \in Control /\ SameFocus(c, d)
         /\ d.urgent = c.urgent /\ d.up = c.up
         /\ d.dialogs = c.dialogs /\ d.more = c.more /\ d.restart = FALSE
         /\ d.undecided = c.undecided /\ d.selecting = c.selecting
BY DEF Control, SameFocus

\* What follows the end of a selection: the want is cleared, the next is asked.
LEMMA NextSettles ==
  ASSUME NEW c \in Control, NEW us \in Mirrors, NEW u \in Units
  PROVE  LET d == NextInFocus(ClearWant(c, us, u), us, u)
         IN  /\ Settles(c, d, us) /\ d.dialogs = c.dialogs /\ d.more = c.more
             /\ d.selecting = c.selecting \/ Asking(d)
<1> DEFINE b == ClearWant(c, us, u)
           d == NextInFocus(b, us, u)
<1>1. Adds(c, b)
  BY ClearWantAdds
<1>2. /\ b \in Control /\ SameFocus(c, b)
      /\ b.urgent = c.urgent /\ b.dialogs = c.dialogs /\ b.more = c.more
      /\ b.restart = c.restart /\ b.selecting = c.selecting
  BY <1>1, AddsFields
<1>3. Elements(c.up) \subseteq Elements(b.up)
  BY <1>1 DEF Adds
<1>4. /\ Keeps(b, d) /\ SameFocus(b, d) /\ d.urgent = b.urgent
      /\ FocusKnown(b, us) => Chosen(b, d, us)
  BY <1>2, NextInFocusMoves
<1>5. FocusKnown(c, us) => FocusKnown(b, us)
  BY <1>2 DEF FocusKnown, SameFocus
<1> HIDE DEF b, d
<1>6. FocusKnown(c, us) => Chosen(c, d, us)
  BY <1>2, <1>4, <1>5 DEF Chosen, SameFocus
<1>7. Settles(c, d, us)
  BY <1>2, <1>3, <1>4, <1>6 DEF Settles, Keeps, SameFocus
<1>8. d.dialogs = c.dialogs /\ d.more = c.more /\ (d.selecting = c.selecting \/ Asking(d))
  BY <1>2, <1>4 DEF Keeps
<1> QED BY <1>7, <1>8 DEF b, d

LEMMA MayBeDoneSettles ==
  ASSUME NEW c \in Control, NEW us \in Mirrors, NEW u \in Units
  PROVE  LET d == ActSelQueueMayBeDone(c, us, u)
         IN  /\ Settles(c, d, us) /\ d.dialogs = c.dialogs /\ d.more = c.more
             /\ c.more => d = c
             /\ ~c.more /\ ~c.restart => Over(d)
<1> DEFINE d == ActSelQueueMayBeDone(c, us, u)
           over == IF c.restart THEN [c EXCEPT !.restart = FALSE] ELSE NoLongerInProgress(c)
           next == NextInFocus(ClearWant(over, us, u), us, u)
<1>1. CASE c.more
  <2>1. d = c
    BY <1>1 DEF ActSelQueueMayBeDone
  <2>2. Settles(c, c, us)
    BY DEF Settles, SameFocus, Chosen
  <2> QED BY <1>1, <2>1, <2>2
<1>2. CASE ~c.more
  <2>1. /\ over \in Control /\ SameFocus(c, over)
        /\ over.urgent = c.urgent /\ over.up = c.up
        /\ over.dialogs = c.dialogs /\ over.more = FALSE
        /\ over.restart = FALSE /\ over.selecting \in {c.selecting, NoUnit}
        /\ ~c.restart => over.selecting = NoUnit
    <3>1. CASE c.restart
      <4>1. over = [c EXCEPT !.restart = FALSE]
        BY <3>1
      <4> HIDE DEF over
      <4> QED BY <1>2, <3>1, <4>1, RestartFields DEF Control
    <3>2. CASE ~c.restart
      <4>1. over = NoLongerInProgress(c)
        BY <3>2
      <4> HIDE DEF over
      <4> QED BY <3>2, <4>1, NoLongerFields DEF Control
    <3> QED BY <3>1, <3>2
  <2>m. c.more = FALSE
    BY <1>2 DEF Control
  <2> HIDE DEF over
  <2>2. CASE c.undecided
    <3>1. d = [over EXCEPT !.undecided = FALSE]
      BY <1>2, <2>2 DEF ActSelQueueMayBeDone, over
    <3>2. /\ d \in Control /\ SameFocus(over, d)
          /\ d.urgent = over.urgent /\ d.up = over.up
          /\ d.dialogs = over.dialogs /\ d.more = over.more /\ d.restart = over.restart
          /\ d.selecting = over.selecting
      BY <2>1, <3>1 DEF Control, SameFocus
    <3> HIDE DEF d
    <3>3. Settles(c, d, us)
      BY <2>1, <3>2 DEF Settles, SameFocus, Chosen
    <3> QED BY <1>2, <2>1, <2>m, <3>2, <3>3 DEF Over, d
  <2>3. CASE ~c.undecided
    <3>1. d = next
      BY <1>2, <2>3 DEF ActSelQueueMayBeDone, over
    <3>2. /\ Settles(over, next, us) /\ next.dialogs = over.dialogs /\ next.more = over.more
          /\ next.selecting = over.selecting \/ Asking(next)
      BY <2>1, NextSettles
    <3> HIDE DEF d, next
    <3>3. FocusKnown(c, us) => FocusKnown(over, us)
      BY <2>1 DEF FocusKnown, SameFocus
    <3>4. Settles(c, next, us)
      BY <2>1, <3>2, <3>3 DEF Settles, SameFocus, Chosen
    <3> QED BY <1>2, <2>1, <2>m, <3>1, <3>2, <3>4 DEF Over, d
  <2> QED BY <2>2, <2>3
<1> QED BY <1>1, <1>2

LEMMA DoneSettles ==
  ASSUME NEW c \in Control, NEW us \in Mirrors, NEW u \in Units
  PROVE  LET d == ActSelQueueDone(c, us, u)
         IN  /\ Settles(c, d, us) /\ d.dialogs = c.dialogs
             /\ ~c.restart => Over(d)
<1> DEFINE b == [c EXCEPT !.more = FALSE]
           e == ActSelQueueMayBeDone(b, us, u)
           d == [e EXCEPT !.restart = FALSE, !.undecided = FALSE]
<1>1. /\ b \in Control /\ SameFocus(c, b) /\ b.more = FALSE
      /\ b.urgent = c.urgent /\ b.up = c.up /\ b.dialogs = c.dialogs
      /\ b.restart = c.restart /\ b.selecting = c.selecting
  BY DEF Control, SameFocus
<1>2. /\ Settles(b, e, us) /\ e.dialogs = b.dialogs
      /\ ~b.restart => Over(e)
  BY <1>1, MayBeDoneSettles
<1> HIDE DEF e
<1>3. e \in Control
  BY <1>2 DEF Settles
<1>4. /\ d \in Control /\ SameFocus(e, d)
      /\ d.urgent = e.urgent /\ d.up = e.up /\ d.dialogs = e.dialogs
      /\ d.restart = FALSE /\ d.selecting = e.selecting
  BY <1>3 DEF Control, SameFocus
<1> HIDE DEF b, d
<1>5. FocusKnown(c, us) => FocusKnown(b, us)
  BY <1>1 DEF FocusKnown, SameFocus
<1>6. Settles(c, d, us)
  BY <1>1, <1>2, <1>4, <1>5 DEF Settles, SameFocus, Chosen
<1>7. ~c.restart => Over(d)
  BY <1>1, <1>2, <1>4 DEF Over, Asking
<1>8. ActSelQueueDone(c, us, u) = d
  BY DEF ActSelQueueDone, b, d, e
<1> QED BY <1>1, <1>2, <1>4, <1>6, <1>7, <1>8

\* Only the dialogs change.
Redraws(c, d) == d \in Control /\ d = [c EXCEPT !.dialogs = d.dialogs]

LEMMA RedrawsFields ==
  ASSUME NEW c \in Control, NEW d, Redraws(c, d)
  PROVE  /\ d \in Control /\ SameFocus(c, d)
         /\ d.urgent = c.urgent /\ d.waiting = c.waiting
         /\ d.up = c.up /\ d.more = c.more /\ d.restart = c.restart
         /\ d.undecided = c.undecided /\ d.selecting = c.selecting
BY DEF Redraws, Control, SameFocus

\* A dialog that opens is the top one, the others stay.
LEMMA OpenOpens ==
  ASSUME NEW c \in Control, NEW kind \in Kinds, NEW u \in Units
  PROVE  LET d  == Open(c, kind, u)
             it == [kind |-> kind, u |-> u]
         IN  /\ Redraws(c, d)
             /\ Elements(d.dialogs) = Elements(c.dialogs) \cup {it}
             /\ d.dialogs # <<>> /\ d.dialogs[Len(d.dialogs)] = it
<1> DEFINE it == [kind |-> kind, u |-> u]
           rest == Only(c.dialogs, Dialogs \ {it})
           q == Append(rest, it)
           d == [c EXCEPT !.dialogs = q]
<1>1. it \in Dialogs /\ c.dialogs \in Seq(Dialogs)
  BY DEF Dialogs, Control
<1>2. Elements(c.dialogs) \subseteq Dialogs
  BY <1>1 DEF Elements
<1>3. rest \in Seq(Dialogs) /\ Elements(rest) = Elements(c.dialogs) \cap (Dialogs \ {it})
  BY <1>1, OnlyKeeps
<1> HIDE DEF rest, it
<1>4. q \in Seq(Dialogs) /\ Elements(q) = Elements(rest) \cup {it}
  BY <1>1, <1>3, Appended
<1>5. Elements(q) = Elements(c.dialogs) \cup {it}
  BY <1>2, <1>3, <1>4
<1>6. q # <<>> /\ q[Len(q)] = it
  BY <1>1, <1>3
<1>7. d \in Control /\ d.dialogs = q
  BY <1>4 DEF Control
<1>8. Open(c, kind, u) = d
  BY DEF Open, it, rest
<1> HIDE DEF q
<1> QED BY <1>5, <1>6, <1>7, <1>8 DEF Redraws, it

\* Dialogs are taken away.
LEMMA Closes ==
  ASSUME NEW c \in Control, NEW S
  PROVE  LET d == [c EXCEPT !.dialogs = Only(c.dialogs, S)]
         IN  Redraws(c, d) /\ Elements(d.dialogs) = Elements(c.dialogs) \cap S
<1>1. c.dialogs \in Seq(Dialogs)
  BY DEF Control
<1>2. /\ Only(c.dialogs, S) \in Seq(Dialogs)
      /\ Elements(Only(c.dialogs, S)) = Elements(c.dialogs) \cap S
  BY <1>1, OnlyKeeps
<1> DEFINE d == [c EXCEPT !.dialogs = Only(c.dialogs, S)]
<1>3. d \in Control /\ d.dialogs = Only(c.dialogs, S)
  BY <1>2 DEF Control
<1> QED BY <1>2, <1>3 DEF Redraws

LEMMA OpenNameOpens ==
  ASSUME NEW c \in Control, NEW u \in Units
  PROVE  LET d == OpenName(c, u)
         IN  /\ Redraws(c, d)
             /\ [kind |-> "name", u |-> u] \in Elements(d.dialogs)
<1> DEFINE S == {x \in Dialogs : x.kind # "name"}
           b == [c EXCEPT !.dialogs = Only(c.dialogs, S)]
           d == Open(b, "name", u)
<1>1. Redraws(c, b)
  BY Closes
<1>2. b \in Control
  BY <1>1 DEF Redraws
<1>3. /\ Redraws(b, d)
      /\ Elements(d.dialogs) = Elements(b.dialogs) \cup {[kind |-> "name", u |-> u]}
  <2> HIDE DEF b
  <2> DEFINE it == [kind |-> "name", u |-> u]
  <2>1. "name" \in Kinds
    BY DEF Kinds
  <2> SUFFICES Redraws(b, d) /\ Elements(d.dialogs) = Elements(b.dialogs) \cup {it}
    OBVIOUS
  <2>2. /\ Redraws(b, d)
        /\ Elements(d.dialogs) = Elements(b.dialogs) \cup {it}
        /\ d.dialogs # <<>> /\ d.dialogs[Len(d.dialogs)] = it
    BY <1>2, <2>1, OpenOpens, Zenon
  <2> QED BY <2>2, Zenon
<1>4. OpenName(c, u) = d
  BY DEF OpenName
<1> HIDE DEF b, d
<1>5. Redraws(c, d)
  BY <1>1, <1>3 DEF Redraws, Control
<1> QED BY <1>3, <1>4, <1>5

LEMMA CloseSettles ==
  ASSUME NEW c \in Control, NEW us \in Mirrors, NEW u \in Units
  PROVE  LET d == ActionSelectionClose(c, us, u)
         IN  Settles(c, d, us) /\ (~c.restart => Over(d))
<1> DEFINE S == {x \in Dialogs : x.kind # "name" /\ (x.u = u => x.kind = "list")}
           b == [c EXCEPT !.dialogs = Only(c.dialogs, S)]
           d == ActSelQueueDone(b, us, u)
<1>1. Redraws(c, b)
  BY Closes
<1>2. ActionSelectionClose(c, us, u) = d
  BY DEF ActionSelectionClose
<1> HIDE DEF b
<1>3. /\ b \in Control /\ SameFocus(c, b) /\ b.urgent = c.urgent
      /\ b.up = c.up /\ b.restart = c.restart /\ b.selecting = c.selecting
  BY <1>1, RedrawsFields
<1>4. Settles(b, d, us) /\ (~b.restart => Over(d))
  BY <1>3, DoneSettles
<1> HIDE DEF d
<1>5. FocusKnown(c, us) => FocusKnown(b, us)
  BY <1>3 DEF FocusKnown, SameFocus
<1>6. Settles(c, d, us)
  BY <1>3, <1>4, <1>5 DEF Settles, SameFocus, Chosen
<1> QED BY <1>2, <1>3, <1>4, <1>6

\* The selection dialog of a unit ends the selection of any other.
LEMMA PopupSettles ==
  ASSUME NEW c \in Control, NEW us \in Mirrors, NEW u \in Units
  PROVE  LET d == PopupActionSelection(c, us, u)
         IN  /\ Settles(c, d, us)
             /\ d.dialogs # <<>>
             /\ d.dialogs[Len(d.dialogs)] = [kind |-> "select", u |-> u] /\ ~d.more
             /\ ~c.restart => Over(d) \/ d.selecting = u
<1> DEFINE b == IF c.selecting \in {NoUnit, u} THEN c
                ELSE ActionSelectionClose(c, us, c.selecting)
           e == Open(b, "select", u)
           d == [e EXCEPT !.more = FALSE]
<1>1. Settles(c, b, us) /\ (~c.restart => Over(b) \/ b.selecting = u)
  <2>1. CASE c.selecting \in {NoUnit, u}
    BY <2>1 DEF Settles, SameFocus, Chosen, Over
  <2>2. CASE c.selecting \notin {NoUnit, u}
    <3>1. c.selecting \in Units
      BY <2>2 DEF Control
    <3> QED BY <2>2, <3>1, CloseSettles
  <2> QED BY <2>1, <2>2
<1> HIDE DEF b
<1>2. b \in Control
  BY <1>1 DEF Settles
<1>3. /\ Redraws(b, e) /\ e.dialogs # <<>>
      /\ e.dialogs[Len(e.dialogs)] = [kind |-> "select", u |-> u]
  <2>1. "select" \in Kinds
    BY DEF Kinds
  <2> QED BY <1>2, <2>1, OpenOpens
<1> HIDE DEF e
<1>4. /\ e \in Control /\ SameFocus(b, e) /\ e.urgent = b.urgent
      /\ e.up = b.up /\ e.restart = b.restart /\ e.selecting = b.selecting
  BY <1>2, <1>3, RedrawsFields
<1>5. /\ d \in Control /\ SameFocus(e, d) /\ d.urgent = e.urgent
      /\ d.up = e.up /\ d.restart = e.restart /\ d.selecting = e.selecting
      /\ d.dialogs = e.dialogs /\ d.more = FALSE
  BY <1>4 DEF Control, SameFocus
<1> HIDE DEF d
<1>6. Settles(c, d, us)
  BY <1>1, <1>4, <1>5 DEF Settles, SameFocus, Chosen
<1>7. ~c.restart => Over(d) \/ d.selecting = u
  BY <1>1, <1>4, <1>5 DEF Over, Asking
<1>8. PopupActionSelection(c, us, u) = d
  BY DEF PopupActionSelection, b, d, e
<1> QED BY <1>3, <1>5, <1>6, <1>7, <1>8

LEMMA DecisionRequest ==
  ASSUME NEW c \in Control, NEW u \in Units
  PROVE  LET d == ActionDecisionRequest(c, u)
         IN  /\ Keeps(c, d) /\ SameFocus(c, d)
             /\ Elements(d.urgent) \subseteq Elements(c.urgent) \cup {u}
             /\ d.selecting \in {c.selecting, u}
<1> DEFINE d == ActionDecisionRequest(c, u)
<1>1. CASE ~Has(c.focus, u)
  <2> DEFINE q == Append(c.urgent, u)
  <2>1. d = [c EXCEPT !.urgent = q]
    BY <1>1 DEF ActionDecisionRequest
  <2>2. q \in Seq(Units) /\ Elements(q) = Elements(c.urgent) \cup {u}
    <3>1. c.urgent \in Seq(Units)
      BY DEF Control
    <3> QED BY <3>1, Appended
  <2> HIDE DEF q, d
  <2>3. Keeps(c, d) /\ SameFocus(c, d) /\ d.urgent = q /\ d.selecting = c.selecting
    BY <2>1, <2>2 DEF Control, Keeps, SameFocus
  <2> QED BY <2>2, <2>3 DEF d
<1>2. CASE Has(c.focus, u) /\ c.selecting = NoUnit
  BY <1>2, AskAsks DEF ActionDecisionRequest
<1>3. CASE Has(c.focus, u) /\ c.selecting # NoUnit
  BY <1>3, KeepsItself DEF ActionDecisionRequest
<1> QED BY <1>1, <1>2, <1>3

-----------------------------------------------------------------------------
(* The wire.                                                               *)

LEMMA TailOf ==
  ASSUME NEW S, NEW w \in Seq(S), w # <<>>
  PROVE  /\ Head(w) \in S /\ Tail(w) \in Seq(S)
         /\ Len(w) \in Nat \ {0} /\ Len(Tail(w)) = Len(w) - 1
         /\ Head(w) = w[1]
         /\ \A i \in 1..Len(w) - 1 : Tail(w)[i] = w[i + 1]
         /\ Elements(w) = {Head(w)} \cup Elements(Tail(w))
<1>1. /\ Head(w) \in S /\ Tail(w) \in Seq(S)
      /\ Len(w) \in Nat \ {0} /\ Len(Tail(w)) = Len(w) - 1
      /\ Head(w) = w[1]
      /\ \A i \in 1..Len(w) - 1 : Tail(w)[i] = w[i + 1]
      /\ DOMAIN w = 1..Len(w) /\ DOMAIN Tail(w) = 1..Len(w) - 1
  OBVIOUS
<1>2. ASSUME NEW x \in Elements(w) PROVE x = Head(w) \/ x \in Elements(Tail(w))
  <2>1. PICK i \in 1..Len(w) : x = w[i]
    BY <1>1 DEF Elements
  <2>2. CASE i = 1
    BY <1>1, <2>1, <2>2
  <2>3. CASE i # 1
    <3>1. i - 1 \in 1..Len(w) - 1 /\ (i - 1) + 1 = i
      BY <1>1, <2>3
    <3>2. Tail(w)[i - 1] = x
      BY <1>1, <2>1, <3>1
    <3> QED BY <1>1, <3>1, <3>2 DEF Elements
  <2> QED BY <2>2, <2>3
<1>3. Head(w) \in Elements(w)
  BY <1>1 DEF Elements
<1>4. ASSUME NEW x \in Elements(Tail(w)) PROVE x \in Elements(w)
  <2>1. PICK i \in 1..Len(w) - 1 : x = w[i + 1]
    BY <1>1 DEF Elements
  <2>2. i + 1 \in 1..Len(w)
    BY <1>1
  <2> QED BY <1>1, <2>1, <2>2 DEF Elements
<1> QED BY <1>1, <1>2, <1>3, <1>4

LEMMA TailOfConcat ==
  ASSUME NEW S, NEW a \in Seq(S), NEW b \in Seq(S), a # <<>>
  PROVE  a \o b # <<>> /\ Head(a \o b) = Head(a) /\ Tail(a \o b) = Tail(a) \o b
<1>1. /\ a \o b \in Seq(S) /\ Len(a \o b) = Len(a) + Len(b)
      /\ Len(a) \in Nat \ {0} /\ Len(b) \in Nat
  OBVIOUS
<1>2. a \o b # <<>> /\ Head(a \o b) = Head(a)
  BY <1>1
<1>3. Len(Tail(a \o b)) = Len(Tail(a) \o b)
  BY <1>1, <1>2
<1>4. ASSUME NEW i \in 1..Len(Tail(a \o b)) PROVE Tail(a \o b)[i] = (Tail(a) \o b)[i]
  BY <1>1, <1>2
<1>5. Tail(a \o b) \in Seq(S) /\ Tail(a) \o b \in Seq(S)
  BY <1>1, <1>2
<1> QED BY <1>2, <1>3, <1>4, <1>5

LEMMA AppendToConcat ==
  ASSUME NEW S, NEW a \in Seq(S), NEW b \in Seq(S), NEW x \in S
  PROVE  a \o Append(b, x) = Append(a \o b, x)
OBVIOUS

LEMMA SplitConcat ==
  ASSUME NEW S, NEW b \in Seq(S), NEW n \in 1..Len(b)
  PROVE  /\ SubSeq(b, 1, n) \in Seq(S) /\ SubSeq(b, n + 1, Len(b)) \in Seq(S)
         /\ SubSeq(b, 1, n) \o SubSeq(b, n + 1, Len(b)) = b
OBVIOUS

LEMMA ElementsOfConcat ==
  ASSUME NEW S, NEW a \in Seq(S), NEW b \in Seq(S)
  PROVE  Elements(a \o b) = Elements(a) \cup Elements(b)
<1>1. /\ DOMAIN a = 1..Len(a) /\ DOMAIN b = 1..Len(b)
      /\ Len(a) \in Nat /\ Len(b) \in Nat
      /\ DOMAIN (a \o b) = 1..Len(a) + Len(b)
      /\ \A i \in 1..Len(a) : (a \o b)[i] = a[i]
      /\ \A i \in 1..Len(b) : (a \o b)[Len(a) + i] = b[i]
  OBVIOUS
<1>2. ASSUME NEW x \in Elements(a \o b) PROVE x \in Elements(a) \cup Elements(b)
  <2>1. PICK i \in 1..Len(a) + Len(b) : x = (a \o b)[i]
    BY <1>1 DEF Elements
  <2>2. CASE i \in 1..Len(a)
    BY <1>1, <2>1, <2>2 DEF Elements
  <2>3. CASE i \notin 1..Len(a)
    <3>1. i - Len(a) \in 1..Len(b) /\ Len(a) + (i - Len(a)) = i
      BY <1>1, <2>3
    <3>2. x = b[i - Len(a)]
      BY <1>1, <2>1, <3>1
    <3> QED BY <1>1, <3>1, <3>2 DEF Elements
  <2> QED BY <2>2, <2>3
<1>3. ASSUME NEW x \in Elements(a) PROVE x \in Elements(a \o b)
  <2>1. PICK i \in 1..Len(a) : x = a[i]
    BY <1>1 DEF Elements
  <2>2. i \in 1..Len(a) + Len(b)
    BY <1>1
  <2> QED BY <1>1, <2>1, <2>2 DEF Elements
<1>4. ASSUME NEW x \in Elements(b) PROVE x \in Elements(a \o b)
  <2>1. PICK i \in 1..Len(b) : x = b[i]
    BY <1>1 DEF Elements
  <2>2. Len(a) + i \in 1..Len(a) + Len(b)
    BY <1>1
  <2> QED BY <1>1, <2>1, <2>2 DEF Elements
<1> QED BY <1>2, <1>3, <1>4

LEMMA PendingIsWire ==
  ASSUME down \in Seq(Packets), batch \in Seq(Packets)
  PROVE  /\ Wire \in Seq(Packets) /\ Pending = Elements(Wire)
         /\ down = <<>> /\ batch = <<>> => Wire = <<>>
<1>1. batch \o down \in Seq(Packets)
  OBVIOUS
<1>2. Elements(Wire) = Elements(batch) \cup Elements(down)
  BY ElementsOfConcat DEF Wire
<1> QED BY <1>1, <1>2 DEF Wire, Pending, Elements

\* A packet is put on the wire behind the others.
LEMMA WireAppends ==
  ASSUME NEW w \in Seq(Packets), NEW p \in Packets, NEW us \in Mirrors,
         NEW sv \in Mirrors, NEW sv2 \in Mirrors,
         RemovesLast(w), Tells(w, us, sv),
         \A u \in Units : Says(p, u) => /\ Agree(Told(p), sv2[u])
                                        /\ sv[u] # None \/ \A q \in Elements(w) : ~Says(q, u),
         \A u \in Units : ~Says(p, u) => sv2[u] = sv[u]
  PROVE  RemovesLast(Append(w, p)) /\ Tells(Append(w, p), us, sv2)
<1> DEFINE v == Append(w, p)
           n == Len(w)
<1>1. /\ n \in Nat /\ DOMAIN w = 1..n /\ DOMAIN v = 1..n + 1
      /\ \A i \in 1..n : v[i] = w[i] /\ w[i] \in Packets /\ i \in 1..n + 1
      /\ v[n + 1] = p /\ n + 1 \in 1..n + 1
      /\ \A i \in 1..n + 1 : i = n + 1 \/ i \in 1..n
  OBVIOUS
<1>n. \A i, j \in 1..n + 1 : i < j => i \in 1..n
  BY <1>1
<1>m. \A i \in 1..n : i < n + 1
  BY <1>1
<1> HIDE DEF v
<1>2. ASSUME NEW i \in 1..n, NEW u \in Units, w[i].t = "remove", w[i].u = u
      PROVE  sv[u] = None
  <2>1. Says(w[i], u)
    BY <1>2 DEF Says
  <2>2. \A j \in 1..n : i < j => ~Says(w[j], u)
    BY <1>1, <1>2 DEF RemovesLast
  <2>3. Agree(Told(w[i]), sv[u])
    BY <1>1, <2>1, <2>2 DEF Tells
  <2>4. Told(w[i]) = None
    BY <1>2 DEF Told
  <2> QED BY <2>3, <2>4 DEF Agree
<1>3. RemovesLast(v)
  <2> SUFFICES ASSUME NEW i \in 1..n + 1, NEW j \in 1..n + 1, i < j, v[i].t = "remove",
                      Says(v[j], v[i].u)
               PROVE  FALSE
    BY <1>1 DEF RemovesLast
  <2>1. i \in 1..n /\ v[i] = w[i]
    BY <1>1, <1>n
  <2>2. CASE j \in 1..n
    BY <1>1, <2>1, <2>2 DEF RemovesLast
  <2>3. CASE j = n + 1
    <3>1. Says(p, w[i].u) /\ w[i].t = "remove"
      BY <1>1, <2>1, <2>3
    <3>2. w[i].u \in Units
      BY <1>1, <2>1, <3>1 DEF Packets
    <3>3. sv[w[i].u] = None
      BY <1>2, <2>1, <3>1, <3>2
    <3>4. w[i] \in Elements(w) /\ Says(w[i], w[i].u)
      BY <1>1, <2>1, <3>1 DEF Elements, Says
    <3> QED BY <3>1, <3>2, <3>3, <3>4
  <2> QED BY <1>1, <2>2, <2>3
<1>4. ASSUME NEW u \in Units, \A i \in 1..n + 1 : ~Says(v[i], u)
      PROVE  Agree(us[u], sv2[u])
  <2>1. (\A i \in 1..n : ~Says(w[i], u)) /\ ~Says(p, u)
    BY <1>1, <1>4
  <2> QED BY <1>1, <2>1 DEF Tells
<1>5. ASSUME NEW i \in 1..n + 1, NEW u \in Units, Says(v[i], u),
             \A j \in 1..n + 1 : i < j => ~Says(v[j], u)
      PROVE  Agree(Told(v[i]), sv2[u])
  <2>1. CASE i = n + 1
    BY <1>1, <1>5, <2>1
  <2>2. CASE i \in 1..n
    <3>1. ~Says(p, u)
      BY <1>1, <1>5, <1>m, <2>2
    <3>2. Says(w[i], u) /\ \A j \in 1..n : i < j => ~Says(w[j], u)
      BY <1>1, <1>5, <2>2
    <3>3. Agree(Told(w[i]), sv[u])
      BY <1>1, <2>2, <3>2 DEF Tells
    <3> QED BY <1>1, <2>2, <3>1, <3>3
  <2> QED BY <1>1, <2>1, <2>2
<1>6. Tells(v, us, sv2)
  BY <1>1, <1>4, <1>5 DEF Tells
<1> QED BY <1>3, <1>6 DEF v

\* The first packet is handled: the mirror then says what it told.
LEMMA WireHandled ==
  ASSUME NEW w \in Seq(Packets), w # <<>>, NEW us \in Mirrors, NEW us2 \in Mirrors,
         NEW sv \in Mirrors, RemovesLast(w), Tells(w, us, sv),
         \A u \in Units : Says(Head(w), u) => us2[u] = Told(Head(w)),
         \A u \in Units : ~Says(Head(w), u) => us2[u] = us[u]
  PROVE  /\ RemovesLast(Tail(w)) /\ Tells(Tail(w), us2, sv)
         /\ \A u \in Units : Head(w).t = "remove" /\ Head(w).u = u => sv[u] = None
<1> DEFINE v == Tail(w)
           p == Head(w)
           n == Len(w) - 1
<1>1. /\ n \in Nat /\ DOMAIN w = 1..n + 1 /\ DOMAIN v = 1..n
      /\ \A i \in 1..n : v[i] = w[i + 1]
      /\ p = w[1]
  BY TailOf
<1>2. /\ \A i \in 1..n : i + 1 \in 1..n + 1 /\ 1 < i + 1
      /\ \A i, j \in 1..n : i < j => i + 1 < j + 1
      /\ \A j \in 1..n + 1 : j = 1 \/ (j - 1 \in 1..n /\ (j - 1) + 1 = j)
      /\ \A i \in 1..n : \A j \in 1..n + 1 : i + 1 < j => i < j - 1
      /\ 1 \in 1..n + 1
  BY <1>1
<1> HIDE DEF v, p, n
<1>3. RemovesLast(v)
  <2> SUFFICES ASSUME NEW i \in 1..n, NEW j \in 1..n, i < j, v[i].t = "remove"
               PROVE  ~Says(v[j], v[i].u)
    BY <1>1 DEF RemovesLast
  <2>1. i + 1 \in 1..n + 1 /\ j + 1 \in 1..n + 1 /\ i + 1 < j + 1
    BY <1>2
  <2>2. v[i] = w[i + 1] /\ v[j] = w[j + 1]
    BY <1>1
  <2> HIDE DEF Says
  <2> QED BY <1>1, <2>1, <2>2 DEF RemovesLast
<1>4. ASSUME NEW i \in 1..n, NEW u \in Units, Says(v[i], u),
             \A j \in 1..n : i < j => ~Says(v[j], u)
      PROVE  Agree(Told(v[i]), sv[u])
  <2>1. i + 1 \in 1..n + 1 /\ v[i] = w[i + 1]
    BY <1>1, <1>2
  <2>2. ASSUME NEW j \in 1..n + 1, i + 1 < j PROVE ~Says(w[j], u)
    <3>1. j # 1
      BY <1>1, <2>2
    <3>2. j - 1 \in 1..n /\ (j - 1) + 1 = j /\ i < j - 1
      BY <1>2, <2>2, <3>1
    <3>3. v[j - 1] = w[j]
      BY <1>1, <3>2
    <3> QED BY <1>4, <3>2, <3>3
  <2> QED BY <1>1, <1>4, <2>1, <2>2 DEF Tells
<1>5. ASSUME NEW u \in Units, \A i \in 1..n : ~Says(v[i], u)
      PROVE  Agree(us2[u], sv[u])
  <2>1. ASSUME NEW j \in 1..n + 1, j # 1 PROVE ~Says(w[j], u)
    <3>1. j - 1 \in 1..n /\ (j - 1) + 1 = j
      BY <1>2, <2>1
    <3>2. v[j - 1] = w[j]
      BY <1>1, <3>1
    <3> QED BY <1>5, <3>1, <3>2
  <2>2. CASE Says(p, u)
    <3>1. Says(w[1], u) /\ \A j \in 1..n + 1 : 1 < j => ~Says(w[j], u)
      BY <1>1, <2>1, <2>2
    <3>2. Agree(Told(w[1]), sv[u])
      BY <1>1, <1>2, <3>1 DEF Tells
    <3> QED BY <1>1, <2>2, <3>2 DEF p
  <2>3. CASE ~Says(p, u)
    <3>1. \A j \in 1..n + 1 : ~Says(w[j], u)
      BY <1>1, <2>1, <2>3
    <3>2. Agree(us[u], sv[u])
      BY <1>1, <3>1 DEF Tells
    <3> QED BY <2>3, <3>2 DEF p
  <2> QED BY <2>2, <2>3
<1>6. Tells(v, us2, sv)
  BY <1>1, <1>4, <1>5 DEF Tells
<1>7. ASSUME NEW u \in Units, p.t = "remove", p.u = u PROVE sv[u] = None
  <2>1. Says(w[1], u) /\ \A j \in 1..n + 1 : 1 < j => ~Says(w[j], u)
    BY <1>1, <1>2, <1>7 DEF RemovesLast, Says
  <2>2. Agree(Told(w[1]), sv[u])
    BY <1>1, <1>2, <2>1 DEF Tells
  <2>3. Told(w[1]) = None
    BY <1>1, <1>7 DEF Told
  <2> QED BY <2>2, <2>3 DEF Agree
<1> QED BY <1>3, <1>6, <1>7 DEF v, p

-----------------------------------------------------------------------------
(* The mirror's invariant: how the steps of each kind preserve it.         *)

Alike(a, b) == (a = None <=> b = None)
                 /\ (b # None => a.owner = b.owner /\ a.tile = b.tile /\ a.want = b.want)

\* Nothing is sent or handled, and the units change in what they do only.
LEMMA MirrorFrame ==
  ASSUME MirrorInv, TypeInv', UNCHANGED <<srv, born, onTile, dropped>>, Wire' = Wire,
         \A u \in Units : Alike(units'[u], units[u])
  PROVE  MirrorInv'
<1>1. TileListsMatch'
  <2>1. onTile \in [Tiles -> SUBSET Units]
    BY DEF MirrorInv, TypeInv, TypeOK
  <2> QED BY <2>1 DEF MirrorInv, TileListsMatch, Alike
<1>2. Known(Wire, units, srv)'
  <2>1. \A u \in Units : units'[u] # None => units[u] # None /\ (Lawful(units[u]) => Lawful(units'[u]))
    BY DEF Alike, Lawful
  <2>2. Known(Wire, units, srv)
    BY DEF MirrorInv
  <2> HIDE DEF Lawful, Says, Wire
  <2> QED BY <2>1, <2>2 DEF Known
<1>3. (~dropped => RemovesLast(Wire) /\ Tells(Wire, units, srv))'
  <2>1. \A u \in Units : Agree(units[u], srv[u]) => Agree(units'[u], srv[u])
    BY DEF Alike, Agree
  <2>2. ~dropped => RemovesLast(Wire) /\ Tells(Wire, units, srv)
    BY DEF MirrorInv
  <2> HIDE DEF Agree, Says, Wire, RemovesLast
  <2>3. ~dropped => Tells(Wire, units', srv)
    BY <2>1, <2>2 DEF Tells
  <2>4. RemovesLast(Wire)' <=> RemovesLast(Wire)
    BY DEF RemovesLast, Wire
  <2>5. Tells(Wire, units, srv)' <=> Tells(Wire, units', srv)
    BY Zenon DEF Tells
  <2> QED BY <2>2, <2>3, <2>4, <2>5
<1>4. Gone(Wire, srv)'
  BY DEF MirrorInv, Gone, Elements, Wire
<1> QED BY <1>1, <1>2, <1>3, <1>4 DEF MirrorInv

LEMMA SaysTold ==
  ASSUME NEW p \in Packets
  PROVE  /\ \A u : Says(p, u) => u \in Units /\ p.u = u
         /\ p.t = "info" => p.r \in UnitRec /\ Told(p) = p.r /\ p.u \in Units /\ Says(p, p.u)
         /\ p.t = "remove" => Told(p) = None /\ p.u \in Units /\ Says(p, p.u)
         /\ p.t \notin {"info", "remove"} => \A u : ~Says(p, u)
         /\ p.t \in {"ask", "query", "sabotage", "name"} => p.u \in Units
BY DEF Packets, Says, Told

LEMMA KnownOf ==
  ASSUME NEW w, NEW us, NEW sv, Known(w, us, sv), NEW p \in Elements(w)
  PROVE  /\ \A u \in Units : Says(p, u) => u \in born
         /\ p.t = "info" => Lawful(p.r)
BY Zenon DEF Known

\* The server sends a packet; what it says of a unit is what the server knows.
LEMMA MirrorServed ==
  ASSUME MirrorInv, TypeInv', UNCHANGED <<batch, units, onTile, dropped>>,
         NEW p \in Packets, down' = Append(down, p), born \subseteq born',
         p.t = "info" => Lawful(p.r),
         \A u \in Units : Says(p, u) => /\ Agree(Told(p), srv'[u]) /\ u \in born'
                                        /\ srv[u] # None \/ u \notin born,
         \A u \in Units : ~Says(p, u) => srv'[u] = srv[u],
         \A u \in Units : srv'[u] # None => u \in born' /\ Lawful(srv'[u])
  PROVE  MirrorInv' /\ Wire' = Append(Wire, p) /\ Pending' = Pending \cup {p}
<1>1. /\ TypeInv /\ Known(Wire, units, srv) /\ Gone(Wire, srv)
      /\ ~dropped => RemovesLast(Wire) /\ Tells(Wire, units, srv)
  BY DEF MirrorInv
<1>2. down \in Seq(Packets) /\ batch \in Seq(Packets)
  BY <1>1 DEF TypeInv
<1>3. Wire \in Seq(Packets) /\ Pending = Elements(Wire)
  BY <1>2, PendingIsWire
<1>4. Wire' = Append(Wire, p)
  BY <1>2, AppendToConcat DEF Wire
<1>5. Elements(Append(Wire, p)) = Elements(Wire) \cup {p}
  BY <1>3, Appended
<1>6. Pending' = Pending \cup {p}
  <2>1. down' \in Seq(Packets) /\ batch' \in Seq(Packets)
    BY DEF TypeInv
  <2>3. Elements(Append(down, p)) = Elements(down) \cup {p}
    BY <1>2, Appended
  <2> QED BY <2>3 DEF Pending, Elements
<1>7. TileListsMatch'
  <2>1. \A u \in Units : units[u] # None => u \in born
    BY <1>1 DEF Known
  <2>2. \A u \in Units : units[u] # None /\ srv[u] = None => srv'[u] = None
    BY <2>1
  <2> QED BY <2>2 DEF MirrorInv, TileListsMatch
<1>11. Gone(Wire, srv)'
  <2> SUFFICES ASSUME NEW q \in Elements(Wire'), q.t = "remove" PROVE srv'[q.u] = None
    BY DEF Gone, Elements
  <2>1. CASE q \in Elements(Wire)
    <3>1. q \in Packets
      BY <1>3, <2>1 DEF Elements
    <3>2. q.u \in Units /\ q.u \in born /\ srv[q.u] = None
      <4>1. q.u \in Units /\ Says(q, q.u)
        BY <3>1, SaysTold
      <4> QED BY <1>1, <2>1, <4>1, KnownOf DEF Gone
    <3> QED BY <3>2
  <2>2. CASE q = p
    <3>1. Told(p) = None /\ p.u \in Units /\ Says(p, p.u)
      BY <2>2, SaysTold
    <3> QED BY <2>2, <3>1 DEF Agree
  <2> QED BY <1>4, <1>5, <2>1, <2>2
<1>8. Known(Wire, units, srv)'
  <2>1. \A q \in Elements(Wire') : q \in Elements(Wire) \/ q = p
    BY <1>4, <1>5
  <2>2. \A q \in Elements(Wire)' : q \in Elements(Wire) \/ q = p
    BY <2>1 DEF Elements
  <2> HIDE DEF Lawful, Says, Wire, Elements, Told
  <2>3. \A u \in Units : units[u] # None => u \in born' /\ Lawful(units[u])
    BY <1>1 DEF Known
  <2>4. ASSUME NEW q \in Elements(Wire)'
        PROVE  /\ \A u \in Units : Says(q, u) => u \in born'
               /\ q.t = "info" => Lawful(q.r)
    <3>1. CASE q = p
      BY <3>1
    <3>2. CASE q # p
      <4>1. q \in Elements(Wire)
        BY <2>2, <3>2
      <4> QED BY <1>1, <4>1, KnownOf
    <3> QED BY <3>1, <3>2
  <2> QED BY <2>3, <2>4 DEF Known
<1>9. ASSUME ~dropped PROVE RemovesLast(Wire') /\ Tells(Wire', units, srv')
  <2>1. units \in Mirrors /\ srv \in Mirrors /\ srv' \in Mirrors
    BY <1>1 DEF TypeInv, TypeOK, Mirrors
  <2>2. ASSUME NEW u \in Units, Says(p, u)
        PROVE  srv[u] # None \/ \A q \in Elements(Wire) : ~Says(q, u)
    BY <1>1, <2>2, KnownOf
  <2> HIDE DEF Wire
  <2>3. RemovesLast(Append(Wire, p)) /\ Tells(Append(Wire, p), units, srv')
    BY <1>1, <1>3, <1>9, <2>1, <2>2, WireAppends
  <2> QED BY <1>4, <2>3
<1>10. (~dropped => RemovesLast(Wire) /\ Tells(Wire, units, srv))'
  <2>1. RemovesLast(Wire)' <=> RemovesLast(Wire')
    BY DEF RemovesLast
  <2>2. Tells(Wire, units, srv)' <=> Tells(Wire', units, srv')
    BY DEF Tells
  <2> HIDE DEF RemovesLast, Tells
  <2> QED BY <1>9, <2>1, <2>2
<1> QED BY <1>4, <1>6, <1>7, <1>8, <1>10, <1>11 DEF MirrorInv

\* The client handles the first packet of its batch, and the mirror takes over
\* what it says.
LEMMA MirrorHandled ==
  ASSUME MirrorInv, TypeInv', batch # <<>>, batch' = Tail(batch),
         UNCHANGED <<down, srv, born, dropped>>, TileListsMatch',
         \A u \in Units : Says(Head(batch), u) => units'[u] = Told(Head(batch)),
         \A u \in Units : ~Says(Head(batch), u) => units'[u] = units[u]
  PROVE  /\ MirrorInv' /\ Pending = Pending' \cup {Head(batch)}
         /\ Head(batch) \in Packets
         /\ \A u \in Units : Says(Head(batch), u) => u \in born
         /\ Head(batch).t = "info" => Lawful(Head(batch).r)
         /\ \A u \in Units : Head(batch).t = "remove" /\ Head(batch).u = u => srv[u] = None
<1> DEFINE p == Head(batch)
<1>1. /\ TypeInv /\ Known(Wire, units, srv) /\ Gone(Wire, srv)
      /\ ~dropped => RemovesLast(Wire) /\ Tells(Wire, units, srv)
  BY DEF MirrorInv
<1>2. down \in Seq(Packets) /\ batch \in Seq(Packets)
  BY <1>1 DEF TypeInv
<1>3. Wire \in Seq(Packets) /\ Pending = Elements(Wire)
  BY <1>2, PendingIsWire
<1>4. Wire # <<>> /\ Head(Wire) = p /\ Wire' = Tail(Wire) /\ p \in Packets
  BY <1>2, TailOfConcat DEF Wire
<1>5. Elements(Wire) = {p} \cup Elements(Tail(Wire))
  BY <1>3, <1>4, TailOf
<1>6. Pending = Pending' \cup {p}
  <2>1. Elements(batch) = {p} \cup Elements(Tail(batch))
    BY <1>2, TailOf
  <2> HIDE DEF p
  <2> QED BY <2>1 DEF Pending, Elements
<1>8. p \in Elements(Wire) /\ \A q \in Elements(Wire)' : q \in Elements(Wire)
  BY <1>4, <1>5 DEF Elements
<1>9. /\ \A u \in Units : Says(p, u) => u \in born
      /\ p.t = "info" => Lawful(p.r)
  BY <1>1, <1>8, KnownOf
<1>10. Known(Wire, units, srv)'
  <2>1. ASSUME NEW u \in Units, units'[u] # None PROVE u \in born /\ Lawful(units'[u])
    <3>1. CASE Says(p, u)
      <4>1. u \in born /\ units'[u] = Told(p)
        BY <1>9, <3>1
      <4>2. p.t = "info"
        BY <4>1, <2>1 DEF Told
      <4> QED BY <1>9, <4>1, <4>2 DEF Told
    <3>2. CASE ~Says(p, u)
      BY <1>1, <2>1, <3>2 DEF Known
    <3> QED BY <3>1, <3>2
  <2> HIDE DEF Lawful, Says, Wire, Elements, Told, p
  <2> QED BY <1>1, <1>8, <2>1 DEF Known
<1>11. ASSUME ~dropped
       PROVE  RemovesLast(Wire') /\ Tells(Wire', units', srv)
  <2>1. units \in Mirrors /\ srv \in Mirrors /\ units' \in Mirrors
    BY <1>1 DEF TypeInv, TypeOK, Mirrors
  <2> HIDE DEF Wire, p
  <2>2. /\ RemovesLast(Wire) /\ Tells(Wire, units, srv)
        /\ \A u \in Units : Says(Head(Wire), u) => units'[u] = Told(Head(Wire))
        /\ \A u \in Units : ~Says(Head(Wire), u) => units'[u] = units[u]
    BY <1>1, <1>4, <1>11 DEF p
  <2>3. RemovesLast(Tail(Wire)) /\ Tells(Tail(Wire), units', srv)
    BY <1>3, <1>4, <2>1, <2>2, WireHandled
  <2> QED BY <1>4, <2>3
<1>12. (~dropped => RemovesLast(Wire) /\ Tells(Wire, units, srv))'
  <2>1. RemovesLast(Wire)' <=> RemovesLast(Wire')
    BY DEF RemovesLast
  <2>2. Tells(Wire, units, srv)' <=> Tells(Wire', units', srv)
    BY DEF Tells
  <2> HIDE DEF RemovesLast, Tells
  <2> QED BY <1>11, <2>1, <2>2
<1>13. Gone(Wire, srv)' /\ \A u \in Units : p.t = "remove" /\ p.u = u => srv[u] = None
  BY <1>1, <1>8 DEF Gone
<1>14. MirrorInv'
  BY <1>10, <1>12, <1>13 DEF MirrorInv
<1> QED BY <1>4, <1>6, <1>9, <1>13, <1>14 DEF p

\* An exception: the rest of the batch is lost.
LEMMA MirrorThrows ==
  ASSUME MirrorInv, TypeInv', batch' = <<>>, dropped' = TRUE,
         UNCHANGED <<down, srv, born, units>>, TileListsMatch'
  PROVE  MirrorInv'
<1>1. TypeInv /\ Known(Wire, units, srv) /\ Gone(Wire, srv)
  BY DEF MirrorInv
<1>2. down \in Seq(Packets) /\ batch \in Seq(Packets)
  BY <1>1 DEF TypeInv
<1>3. Elements(Wire) = Elements(batch) \cup Elements(down) /\ Wire' = down
  BY <1>2, ElementsOfConcat DEF Wire
<1>4. \A q \in Elements(Wire)' : q \in Elements(Wire)
  BY <1>3 DEF Elements
<1>5. Known(Wire, units, srv)'
  <2> HIDE DEF Lawful, Says, Wire, Elements
  <2> QED BY <1>1, <1>4 DEF Known
<1>6. Gone(Wire, srv)'
  BY <1>1, <1>4 DEF Gone
<1> QED BY <1>5, <1>6 DEF MirrorInv

-----------------------------------------------------------------------------
(* Steps of the client alone: nothing is handled, nothing is sent to it.   *)

LEMMA InvTypes ==
  ASSUME Inv
  PROVE  /\ ctl \in Control /\ units \in Mirrors /\ srv \in Mirrors
         /\ down \in Seq(Packets) /\ batch \in Seq(Packets)
         /\ Urgent(ctl, units) /\ FocusKnown(ctl, units)
         /\ onTile \in [Tiles -> SUBSET Units] /\ TileListsMatch
BY DEF Inv, MirrorInv, TypeInv, TypeOK, Mirrors, FocusInv

\* The focus is as it was, or a mirrored unit, or none.
LEMMA FocusMoved ==
  ASSUME Inv, ctl' \in Control, NEW us \in Mirrors, Moves(ctl, ctl', us),
         UNCHANGED onTile,
         \A u \in Units : /\ us[u] # None => units'[u] # None
                          /\ units[u] # None => units'[u] # None
  PROVE  FocusInv'
<1>1. /\ Once(ctl.focus) /\ FocusKnown(ctl, units) /\ Urgent(ctl, units) /\ Shared(ctl, onTile)
      /\ ctl \in Control
  BY InvTypes DEF Inv, FocusInv
<1>2. ctl.focus \in Seq(Units) /\ ctl'.focus \in Seq(Units) /\ ctl.urgent \in Seq(Units)
  BY <1>1 DEF Control
<1>3. Urgent(ctl', units')
  <2>1. \A u \in Elements(ctl.urgent) : u \in Units
    BY <1>2 DEF Elements
  <2>2. Elements(ctl'.urgent) \subseteq Elements(ctl.urgent)
    BY DEF Moves
  <2> QED BY <1>1, <2>1, <2>2 DEF Urgent
<1>4. CASE SameFocus(ctl, ctl')
  BY <1>1, <1>2, <1>3, <1>4 DEF SameFocus, FocusInv, Once, FocusKnown, Shared, Urgent, Elements
<1>5. CASE ~SameFocus(ctl, ctl')
  <2>1. /\ Len(ctl'.focus) <= 1 /\ ctl'.shared = NoTile
        /\ \A i \in DOMAIN ctl'.focus : us[ctl'.focus[i]] # None
    BY <1>5 DEF Moves
  <2>2. Once(ctl'.focus)
    BY <1>2, <2>1 DEF Once
  <2>3. FocusKnown(ctl', units')
    BY <1>2, <2>1 DEF FocusKnown
  <2> QED BY <1>3, <2>1, <2>2, <2>3 DEF FocusInv, Once, FocusKnown, Shared, Urgent, Elements
<1> QED BY <1>4, <1>5

LEMMA LocalStep ==
  ASSUME Inv, TypeInv', FocusInv', UNCHANGED <<srv, born, onTile, dropped>>,
         Wire' = Wire, Pending' = Pending,
         \A u \in Units : Alike(units'[u], units[u]),
         switched => switched',
         ctl'.restart => ctl.restart \/ switched',
         NEW us \in Mirrors, \A u \in Units : Alike(us[u], units[u]),
         Chosen(ctl, ctl', us),
         ~switched' => \/ Over(ctl')
                       \/ /\ ctl'.selecting = ctl.selecting
                          /\ Ending(ctl, Pending) \/ EndingFor(ctl, ctl.selecting)
                               => Ending(ctl', Pending) \/ EndingFor(ctl', ctl.selecting)
  PROVE  Inv'
<1>1. MirrorInv'
  BY MirrorFrame DEF Inv
<1>2. ctl \in Control /\ ctl' \in Control
  BY InvTypes DEF TypeInv, TypeOK
<1>3. (~switched => ~ctl.restart)'
  BY DEF Inv, SelectInv
<1>4. ASSUME ~dropped, NEW u \in Units
      PROVE  /\ ctl.selecting = u => Own(u)
             /\ ctl.selecting = u /\ Kept(u) /\ ~switched =>
                  Ending(ctl, Pending) \/ EndingFor(ctl, u)
  BY <1>4 DEF Inv, SelectInv
<1>6. ASSUME ~dropped, NEW s \in Units, ctl'.selecting = s
      PROVE  Own(s)'
  <2>0. Alike(us[s], units[s]) /\ Alike(units'[s], units[s])
    OBVIOUS
  <2>1. CASE s = ctl.selecting
    <3>1. Own(s)
      BY <1>4, <1>6, <2>1
    <3> QED BY <3>1, <2>0 DEF Own, Alike
  <2>3. CASE s # ctl.selecting
    <3>1. us[s] # None /\ Wants(us[s])
      BY <1>6, <2>3, NoUnitIsNoUnit DEF Chosen
    <3>2. units[s] # None /\ Wants(units[s])
      BY <3>1, <2>0 DEF Alike, Wants
    <3>3. s \in born /\ units[s].owner = Me
      BY <3>2 DEF Inv, MirrorInv, Known, Lawful, Wants
    <3> QED BY <2>0, <3>2, <3>3 DEF Own, Alike
  <2> QED BY <2>1, <2>3
<1>7. ASSUME ~dropped, NEW s \in Units, ctl'.selecting = s, Kept(s)', ~switched'
      PROVE  Ending(ctl', Pending') \/ EndingFor(ctl', s)
  <2>1. CASE Over(ctl')
    <3>1. Asking(ctl')
      BY <1>7, <2>1, NoUnitIsNoUnit DEF Over
    <3> QED BY <3>1 DEF Ending
  <2>2. CASE ~Over(ctl')
    <3>1. /\ s = ctl.selecting
          /\ Ending(ctl, Pending) \/ EndingFor(ctl, s)
               => Ending(ctl', Pending) \/ EndingFor(ctl', s)
      BY <1>7, <2>2
    <3>2. Kept(s)
      BY <1>7 DEF Kept
    <3> HIDE DEF Ending, EndingFor, Kept, Pending
    <3> QED BY <1>4, <1>7, <3>1, <3>2
  <2> QED BY <2>1, <2>2
<1>8. SelectInv'
  <2>1. ~dropped' => ~dropped
    OBVIOUS
  <2> HIDE DEF Own, Kept, Pending
  <2>2. Ending(ctl, Pending)' <=> Ending(ctl', Pending')
    BY DEF Ending, Asking, Elements
  <2>3. ASSUME NEW u \in Units PROVE EndingFor(ctl, u)' <=> EndingFor(ctl', u)
    BY DEF EndingFor, Elements
  <2> HIDE DEF Ending, EndingFor
  <2> QED BY <1>3, <1>6, <1>7, <2>1, <2>2, <2>3 DEF SelectInv
<1> QED BY <1>1, <1>8 DEF Inv

-----------------------------------------------------------------------------
(* Steps of the server.                                                    *)

LEMMA LastSays ==
  ASSUME NEW w \in Seq(Packets), NEW u \in Units, NEW k \in DOMAIN w, Says(w[k], u)
  PROVE  \E i \in DOMAIN w : Says(w[i], u) /\ \A j \in DOMAIN w : i < j => ~Says(w[j], u)
<1> DEFINE n == Len(w)
           T == {d \in 0..n - 1 : Says(w[n - d], u)}
<1>1. n \in Nat /\ DOMAIN w = 1..n
  OBVIOUS
<1>2. T \subseteq Nat /\ n - k \in T
  <2>1. n - k \in 0..n - 1 /\ n - (n - k) = k
    BY <1>1
  <2> QED BY <2>1
<1> HIDE DEF n
<1>3. PICK d \in T : \A y \in T : d <= y
  BY <1>2, Least
<1>4. d \in 0..n - 1 /\ Says(w[n - d], u)
  OBVIOUS
<1>5. n - d \in 1..n
  BY <1>1, <1>4
<1>6. ASSUME NEW j \in 1..n, n - d < j PROVE ~Says(w[j], u)
  <2>1. n - j \in 0..n - 1 /\ n - (n - j) = j /\ ~(d <= n - j)
    BY <1>1, <1>4, <1>6
  <2>2. n - j \notin T
    BY <1>3, <2>1
  <2> QED BY <2>1, <2>2
<1> QED BY <1>1, <1>4, <1>5, <1>6

\* Whoever has the unit after the server's step had it before, or it is known
\* to be lost by a packet on its way.
LEMMA KeptBefore ==
  ASSUME Inv, ~dropped, NEW s \in Units, Own(s), Kept(s)', Pending \subseteq Pending',
         \A u \in born : srv[u] = None => srv'[u] = None
  PROVE  Kept(s)
<1>1. /\ srv'[s] # None
      /\ \A p \in Pending' : ~(p.t = "info" /\ p.u = s /\ p.r.owner # Me)
  BY DEF Kept
<1>2. srv[s] # None /\ units[s] # None /\ units[s].owner = Me
  BY <1>1 DEF Own
<1>3. \A p \in Pending : ~(p.t = "info" /\ p.u = s /\ p.r.owner # Me)
  BY <1>1
<1>4. Tells(Wire, units, srv) /\ Wire \in Seq(Packets) /\ Pending = Elements(Wire)
  BY InvTypes, PendingIsWire DEF Inv, MirrorInv
<1>5. srv[s].owner = Me
  <2> HIDE DEF Pending, Wire
  <2>1. CASE \A i \in DOMAIN Wire : ~Says(Wire[i], s)
    <3>1. Agree(units[s], srv[s])
      BY <1>4, <2>1 DEF Tells
    <3> QED BY <1>2, <3>1 DEF Agree
  <2>2. CASE \E i \in DOMAIN Wire : Says(Wire[i], s)
    <3>1. PICK i \in DOMAIN Wire : /\ Says(Wire[i], s)
                                   /\ \A j \in DOMAIN Wire : i < j => ~Says(Wire[j], s)
      BY <1>4, <2>2, LastSays
    <3>2. Agree(Told(Wire[i]), srv[s])
      BY <1>4, <3>1 DEF Tells
    <3>3. Told(Wire[i]) # None /\ Told(Wire[i]).owner = srv[s].owner
      BY <1>2, <3>2 DEF Agree
    <3>4. Wire[i].t = "info" /\ Told(Wire[i]) = Wire[i].r
      BY <3>3 DEF Told
    <3>5. Wire[i] \in Pending /\ Wire[i].u = s
      BY <1>4, <3>1 DEF Elements, Says
    <3> QED BY <1>3, <3>3, <3>4, <3>5
  <2> QED BY <2>1, <2>2
<1> QED BY <1>2, <1>3, <1>5 DEF Kept

LEMMA ServerStep ==
  ASSUME Inv, TypeInv', MirrorInv', UNCHANGED <<units, onTile, dropped, switched>>,
         SameFocus(ctl, ctl'), ctl'.urgent = ctl.urgent,
         ctl'.restart = ctl.restart, ctl'.selecting = ctl.selecting,
         Pending \subseteq Pending', born \subseteq born',
         \A u \in born : srv[u] = None => srv'[u] = None,
         \A s \in Units : Kept(s)' /\ (Ending(ctl, Pending) \/ EndingFor(ctl, s))
                            => Ending(ctl', Pending') \/ EndingFor(ctl', s)
  PROVE  Inv'
<1>1. FocusInv'
  BY DEF Inv, FocusInv, SameFocus, Once, FocusKnown, Urgent, Shared, Elements
<1>2. ASSUME ~dropped, NEW u \in Units
      PROVE  /\ ctl.selecting = u => Own(u)
             /\ ctl.selecting = u /\ Kept(u) /\ ~switched =>
                  Ending(ctl, Pending) \/ EndingFor(ctl, u)
  BY <1>2 DEF Inv, SelectInv
<1>4. ASSUME ~dropped, NEW s \in Units, ctl'.selecting = s
      PROVE  Own(s)'
  BY <1>2, <1>4 DEF Own
<1>5. ASSUME ~dropped, NEW s \in Units, ctl'.selecting = s, Kept(s)', ~switched'
      PROVE  Ending(ctl', Pending') \/ EndingFor(ctl', s)
  <2>1. Own(s)
    BY <1>2, <1>5
  <2>2. Kept(s)
    BY <1>5, <2>1, KeptBefore
  <2> HIDE DEF Ending, EndingFor, Kept, Pending
  <2> QED BY <1>2, <1>5, <2>2
<1>6. SelectInv'
  <2>0. (~switched => ~ctl.restart)'
    BY DEF Inv, SelectInv
  <2> HIDE DEF Own, Kept, Pending
  <2>2. Ending(ctl, Pending)' <=> Ending(ctl', Pending')
    BY DEF Ending, Asking, Elements
  <2>3. ASSUME NEW u \in Units PROVE EndingFor(ctl, u)' <=> EndingFor(ctl', u)
    BY DEF EndingFor, Elements
  <2> HIDE DEF Ending, EndingFor
  <2> QED BY <1>4, <1>5, <2>0, <2>2, <2>3 DEF SelectInv
<1> QED BY <1>1, <1>6 DEF Inv

\* What the server sends on its own account leaves the client as it is.
LEMMA ServeStep ==
  ASSUME Inv, NEW p \in Packets, Serve(p), ctl' = ctl,
         srv' \in Mirrors, born \subseteq born', born' \subseteq Units,
         p.t = "info" => Lawful(p.r),
         \A u \in Units : Says(p, u) => /\ Agree(Told(p), srv'[u]) /\ u \in born'
                                        /\ srv[u] # None \/ u \notin born,
         \A u \in Units : ~Says(p, u) => srv'[u] = srv[u],
         \A u \in Units : srv'[u] # None => u \in born' /\ Lawful(srv'[u])
  PROVE  Inv'
<1>1. /\ UNCHANGED <<batch, dropped, units, onTile, ctl, timers, switched, clicks>>
      /\ down' = Append(down, p) /\ served' = served + 1 /\ served < MaxServed
  BY DEF Serve
<1>2. TypeInv /\ down \in Seq(Packets)
  BY DEF Inv, MirrorInv, TypeInv
<1>3. TypeInv'
  <2>1. down' \in Seq(Packets)
    BY <1>1, <1>2
  <2>2. served' \in 0..MaxServed
    BY <1>1, <1>2, UnitControlAssumption DEF TypeInv, TypeOK
  <2> QED BY <1>1, <1>2, <2>1, <2>2 DEF TypeInv, TypeOK, Mirrors
<1>4. MirrorInv' /\ Pending' = Pending \cup {p}
  <2> HIDE DEF Lawful, Says, Told, Agree
  <2> QED BY <1>1, <1>3, MirrorServed DEF Inv
<1>5. Ending(ctl, Pending) => Ending(ctl', Pending')
  BY <1>1, <1>4 DEF Ending
<1>6. \A u \in born : srv[u] = None => srv'[u] = None
  <2>1. born \subseteq Units
    BY <1>2 DEF TypeInv, TypeOK
  <2> QED BY <2>1
<1> QED BY <1>1, <1>3, <1>4, <1>5, <1>6, ServerStep DEF SameFocus

LEMMA ServerChangesStep ==
  ASSUME Inv, NEW u \in Units, ServerChanges(u)
  PROVE  Inv'
<1>1. PICK r \in UnitRec : /\ r.owner # Me => r.want = NoTile
                           /\ srv' = [srv EXCEPT ![u] = r]
                           /\ Serve(Info(u, r))
  BY DEF ServerChanges
<1>2. srv[u] # None /\ UNCHANGED born
  BY DEF ServerChanges
<1>3. Info(u, r) \in Packets
  BY DEF Info, Packets
<1>4. /\ ctl' = ctl /\ srv \in Mirrors /\ srv' \in Mirrors /\ born \subseteq Units
      /\ srv'[u] = r /\ r # None /\ \A v \in Units : v # u => srv'[v] = srv[v]
  BY <1>1, InvTypes, UnitControlAssumption DEF Mirrors, Serve, Inv, MirrorInv, TypeInv, TypeOK
<1>5. /\ Info(u, r).t = "info" /\ Told(Info(u, r)) = r
      /\ \A v \in Units : Says(Info(u, r), v) <=> v = u
      /\ Lawful(r) /\ Lawful(Info(u, r).r)
  BY <1>1 DEF Info, Told, Says, Lawful
<1>6. Agree(r, srv'[u])
  BY <1>4 DEF Agree
<1>7. \A v \in Units : srv[v] # None => v \in born /\ Lawful(srv[v])
  BY DEF Inv, MirrorInv, Known
<1>8. \A v \in Units : srv'[v] # None => v \in born' /\ Lawful(srv'[v])
  BY <1>2, <1>4, <1>5, <1>7
<1> HIDE DEF Inv, Lawful, Info, Agree
<1> QED BY <1>1, <1>2, <1>3, <1>4, <1>5, <1>6, <1>7, <1>8, ServeStep

LEMMA ServerCreatesStep ==
  ASSUME Inv, NEW u \in Units, ServerCreates(u)
  PROVE  Inv'
<1>1. PICK r \in UnitRec : /\ r.want = NoTile
                           /\ srv' = [srv EXCEPT ![u] = r]
                           /\ Serve(Info(u, r))
  BY DEF ServerCreates
<1>2. u \notin born /\ born' = born \cup {u}
  BY DEF ServerCreates
<1>3. Info(u, r) \in Packets
  BY DEF Info, Packets
<1>4. /\ ctl' = ctl /\ srv \in Mirrors /\ srv' \in Mirrors /\ born \subseteq Units
      /\ srv'[u] = r /\ r # None /\ \A v \in Units : v # u => srv'[v] = srv[v]
  BY <1>1, InvTypes, UnitControlAssumption DEF Mirrors, Serve, Inv, MirrorInv, TypeInv, TypeOK
<1>5. /\ Info(u, r).t = "info" /\ Told(Info(u, r)) = r
      /\ \A v \in Units : Says(Info(u, r), v) <=> v = u
      /\ Lawful(r) /\ Lawful(Info(u, r).r)
  BY <1>1 DEF Info, Told, Says, Lawful
<1>6. Agree(r, srv'[u])
  BY <1>4 DEF Agree
<1>7. \A v \in Units : srv[v] # None => v \in born /\ Lawful(srv[v])
  BY DEF Inv, MirrorInv, Known
<1>8. \A v \in Units : srv'[v] # None => v \in born' /\ Lawful(srv'[v])
  BY <1>2, <1>4, <1>5, <1>7
<1>9. born \subseteq born' /\ born' \subseteq Units /\ u \in born'
  BY <1>2, <1>4
<1> HIDE DEF Inv, Lawful, Info, Agree
<1> QED BY <1>1, <1>2, <1>3, <1>4, <1>5, <1>6, <1>8, <1>9, ServeStep

LEMMA ServerRemovesStep ==
  ASSUME Inv, NEW u \in Units, ServerRemoves(u)
  PROVE  Inv'
<1> DEFINE p == Packet("remove", u)
<1>1. /\ srv[u] # None /\ UNCHANGED born
      /\ srv' = [srv EXCEPT ![u] = None] /\ Serve(p)
  BY DEF ServerRemoves
<1>2. p \in Packets
  BY DEF Packet, Packets
<1>3. /\ ctl' = ctl /\ srv \in Mirrors /\ srv' \in Mirrors /\ born \subseteq Units
      /\ srv'[u] = None /\ \A v \in Units : v # u => srv'[v] = srv[v]
  BY <1>1, InvTypes DEF Mirrors, Serve, Inv, MirrorInv, TypeInv, TypeOK
<1>4. /\ p.t = "remove" /\ Told(p) = None
      /\ \A v \in Units : Says(p, v) <=> v = u
  BY DEF Packet, Told, Says
<1>5. Agree(Told(p), srv'[u])
  BY <1>3, <1>4 DEF Agree
<1>6. \A v \in Units : srv[v] # None => v \in born /\ Lawful(srv[v])
  BY DEF Inv, MirrorInv, Known
<1>7. \A v \in Units : srv'[v] # None => v \in born' /\ Lawful(srv'[v])
  BY <1>1, <1>3, <1>6
<1> HIDE DEF Inv, Lawful, p, Agree
<1> QED BY <1>1, <1>2, <1>3, <1>4, <1>5, <1>6, <1>7, ServeStep

LEMMA ServerBeginsTurnStep ==
  ASSUME Inv, ServerBeginsTurn
  PROVE  Inv'
<1> DEFINE p == Packet("begin", NoUnit)
<1>1. UNCHANGED <<srv, born>> /\ Serve(p)
  BY DEF ServerBeginsTurn
<1>2. p \in Packets /\ p.t = "begin" /\ \A v \in Units : ~Says(p, v)
  BY DEF Packet, Packets, Says
<1>3. ctl' = ctl /\ srv' \in Mirrors /\ born \subseteq Units
  BY <1>1, InvTypes DEF Serve, Inv, MirrorInv, TypeInv, TypeOK
<1>4. \A v \in Units : srv'[v] # None => v \in born' /\ Lawful(srv'[v])
  BY <1>1 DEF Inv, MirrorInv, Known
<1> HIDE DEF Inv, Lawful, p, Agree
<1> QED BY <1>1, <1>2, <1>3, <1>4, ServeStep

\* The server answers the first request.
LEMMA ServerAnswersStep ==
  ASSUME Inv, ServerAnswers
  PROVE  Inv'
<1> DEFINE q == Head(ctl.up)
           here == srv[q.u] # None /\ srv[q.u].owner = Me
<1>1. /\ ctl.up # <<>> /\ ctl' = [ctl EXCEPT !.up = Tail(ctl.up)]
      /\ UNCHANGED <<born, batch, dropped, units, onTile, timers, switched, served, clicks>>
  BY DEF ServerAnswers
<1>2. /\ ctl \in Control /\ ctl.up \in Seq(Requests) /\ srv \in Mirrors
      /\ down \in Seq(Packets) /\ TypeInv
  BY InvTypes DEF Control, Requests, Inv, MirrorInv
<1>3. /\ q \in Requests /\ Tail(ctl.up) \in Seq(Requests)
      /\ Elements(ctl.up) = {q} \cup Elements(Tail(ctl.up))
  BY <1>1, <1>2, TailOf
<1>4. /\ ctl' \in Control /\ SameFocus(ctl, ctl') /\ ctl'.urgent = ctl.urgent
      /\ ctl'.restart = ctl.restart /\ ctl'.selecting = ctl.selecting
      /\ ctl'.more = ctl.more /\ ctl'.dialogs = ctl.dialogs
      /\ ctl'.up = Tail(ctl.up)
  BY <1>1, <1>2, <1>3 DEF Control, Requests, SameFocus
<1>5. q.u \in Units
  BY <1>3 DEF Requests
<1>l. \A v \in Units : srv[v] # None => v \in born /\ Lawful(srv[v])
  BY DEF Inv, MirrorInv, Known
\* What is left of the requests still ends what they ended.
<1>6. ASSUME Pending \subseteq Pending', NEW s \in Units,
             Ending(ctl, Pending) \/ EndingFor(ctl, s),
             q.k \in {"ask", "query"} =>
               \E p \in Pending' : p.t \in {"ask", "query", "sabotage", "name"},
             q.k \in {"sabotage", "name"} /\ q.u = s =>
               \E p \in Pending' : p.t \in {"ask", "query", "sabotage", "name"}
      PROVE  Ending(ctl', Pending') \/ EndingFor(ctl', s)
  <2> HIDE DEF q, Pending
  <2>1. \A x \in Elements(ctl.up) : x = q \/ x \in Elements(ctl'.up)
    BY <1>3, <1>4
  <2> HIDE DEF Elements
  <2>2. CASE \E d \in Elements(ctl.dialogs) : d.kind \in {"price", "list", "name"}
    BY <1>4, <2>2 DEF Ending
  <2>3. CASE Asking(ctl)
    BY <1>6, <2>1, <2>3 DEF Ending, Asking
  <2>4. CASE \E p \in Pending : p.t \in {"ask", "query", "sabotage", "name"}
    BY <1>6, <2>4 DEF Ending
  <2>5. CASE EndingFor(ctl, s)
    BY <1>4, <1>6, <2>1, <2>5 DEF Ending, EndingFor
  <2> QED BY <1>6, <2>2, <2>3, <2>4, <2>5 DEF Ending
<1>7. ASSUME NEW p \in Packets, down' = Append(down, p), srv' \in Mirrors
      PROVE  TypeInv'
  <2>1. down' \in Seq(Packets)
    BY <1>2, <1>7
  <2> QED BY <1>1, <1>2, <1>4, <1>7, <2>1 DEF TypeInv, TypeOK, Mirrors
<1>8. CASE /\ q.k \in {"ask", "query"} /\ UNCHANGED srv
           /\ \E ok \in BOOLEAN : down' = Append(down, Answer(q.k, q.u, ok))
  <2>1. PICK ok \in BOOLEAN : down' = Append(down, Answer(q.k, q.u, ok))
    BY <1>8
  <2> DEFINE p == Answer(q.k, q.u, ok)
  <2>2. p \in Packets /\ p.t \in {"ask", "query"}
    BY <1>5, <1>8 DEF Answer, Packets
  <2> HIDE DEF p
  <2>3. \A v \in Units : ~Says(p, v)
    BY <2>2 DEF Says
  <2>4. TypeInv'
    BY <1>2, <1>7, <1>8, <2>1, <2>2 DEF p
  <2>5. MirrorInv' /\ Pending' = Pending \cup {p}
    <3> HIDE DEF Inv, Lawful, Agree, Says
    <3>1. MirrorInv
      BY DEF Inv
    <3>2. down' = Append(down, p) /\ p.t # "info"
      BY <2>1, <2>2 DEF p
    <3> QED BY <1>1, <1>8, <1>l, <2>2, <2>3, <2>4, <3>1, <3>2, MirrorServed
  <2>6. \E x \in Pending' : x.t \in {"ask", "query", "sabotage", "name"}
    BY <2>2, <2>5
  <2> HIDE DEF Inv
  <2>7. /\ \A s \in Units : Ending(ctl, Pending) \/ EndingFor(ctl, s)
                              => Ending(ctl', Pending') \/ EndingFor(ctl', s)
        /\ Pending \subseteq Pending'
    BY <1>6, <2>5, <2>6
  <2> QED BY <1>1, <1>4, <1>8, <2>4, <2>5, <2>7, ServerStep
<1>9. CASE /\ q.k \in {"sabotage", "name"} /\ UNCHANGED srv /\ here
           /\ down' = Append(down, Packet(q.k, q.u))
  <2> DEFINE p == Packet(q.k, q.u)
  <2>2. p \in Packets /\ p.t \in {"sabotage", "name"}
    BY <1>5, <1>9 DEF Packet, Packets
  <2> HIDE DEF p
  <2>3. \A v \in Units : ~Says(p, v)
    BY <2>2 DEF Says
  <2>4. TypeInv'
    BY <1>2, <1>7, <1>9, <2>2 DEF p
  <2>5. MirrorInv' /\ Pending' = Pending \cup {p}
    <3> HIDE DEF Inv, Lawful, Agree, Says
    <3>1. MirrorInv
      BY DEF Inv
    <3>2. down' = Append(down, p) /\ p.t # "info"
      BY <1>9, <2>2 DEF p
    <3> QED BY <1>1, <1>9, <1>l, <2>2, <2>3, <2>4, <3>1, <3>2, MirrorServed
  <2>6. \E x \in Pending' : x.t \in {"ask", "query", "sabotage", "name"}
    BY <2>2, <2>5
  <2> HIDE DEF Inv
  <2>7. /\ \A s \in Units : Ending(ctl, Pending) \/ EndingFor(ctl, s)
                              => Ending(ctl', Pending') \/ EndingFor(ctl', s)
        /\ Pending \subseteq Pending'
    BY <1>6, <2>5, <2>6
  <2> QED BY <1>1, <1>4, <1>9, <2>4, <2>5, <2>7, ServerStep
<1>10. CASE ~here /\ q.k \notin {"ask", "query"} /\ UNCHANGED <<srv, down>>
  <2>1. TypeInv'
    BY <1>1, <1>2, <1>4, <1>10 DEF TypeInv, TypeOK
  <2>2. MirrorInv'
    <3>1. Wire' = Wire /\ \A v \in Units : Alike(units'[v], units[v])
      BY <1>1, <1>10 DEF Wire, Alike
    <3> QED BY <1>1, <1>10, <2>1, <3>1, MirrorFrame DEF Inv
  <2>3. Pending' = Pending
    BY <1>1, <1>10 DEF Pending
  <2>4. \A s \in Units : Kept(s)' => ~(q.u = s)
    BY <1>10 DEF Kept
  <2> HIDE DEF Inv, q
  <2>5. \A s \in Units : Kept(s)' /\ (Ending(ctl, Pending) \/ EndingFor(ctl, s))
                           => Ending(ctl', Pending') \/ EndingFor(ctl', s)
    BY <1>6, <1>10, <2>3, <2>4
  <2> QED BY <1>1, <1>4, <1>10, <2>1, <2>2, <2>3, <2>5, ServerStep
<1>11. CASE /\ q.k = "unqueue" /\ here
            /\ srv' = [srv EXCEPT ![q.u].want = NoTile]
            /\ down' = Append(down, Info(q.u, srv'[q.u]))
  <2> DEFINE u == q.u
             r == [srv[u] EXCEPT !.want = NoTile]
             p == Info(u, r)
  <2>1. /\ srv[u] \in UnitRec /\ r \in UnitRec /\ srv' = [srv EXCEPT ![u] = r]
        /\ srv' \in Mirrors /\ srv'[u] = r /\ \A v \in Units : v # u => srv'[v] = srv[v]
    BY <1>2, <1>5, <1>11 DEF Mirrors, UnitRec
  <2>2. p \in Packets /\ p.t = "info" /\ p.r = r /\ Told(p) = r
        /\ \A v \in Units : Says(p, v) <=> v = u
    BY <1>5, <2>1 DEF Info, Packets, Told, Says
  <2>3. Lawful(r)
    BY <2>1 DEF Lawful, UnitRec
  <2>a. Agree(r, srv'[u])
    BY <2>1, UnitControlAssumption DEF Agree
  <2>b. down' = Append(down, p) /\ srv[u] # None /\ u \in born /\ u \in Units
    BY <1>5, <1>l, <1>11, <2>1
  <2>c. q.k \notin {"ask", "query", "sabotage", "name"}
    BY <1>11
  <2> HIDE DEF u, r, p, q
  <2>4. TypeInv'
    BY <1>2, <1>7, <2>1, <2>2, <2>b
  <2>d. \A v \in Units : srv'[v] # None => v \in born' /\ Lawful(srv'[v])
    BY <1>1, <1>l, <2>1, <2>3, <2>b
  <2>5. MirrorInv' /\ Pending' = Pending \cup {p}
    <3> HIDE DEF Inv, Lawful, Agree, Says
    <3>1. MirrorInv
      BY DEF Inv
    <3>2. born \subseteq born' /\ Lawful(p.r)
      BY <1>1, <2>2, <2>3
    <3>3. \A v \in Units : Says(p, v) => /\ Agree(Told(p), srv'[v]) /\ v \in born'
                                         /\ srv[v] # None \/ v \notin born
      BY <1>1, <2>2, <2>a, <2>b
    <3>4. \A v \in Units : ~Says(p, v) => srv'[v] = srv[v]
      BY <2>1, <2>2
    <3> QED BY <1>1, <2>2, <2>4, <2>b, <2>d, <3>1, <3>2, <3>3, <3>4, MirrorServed
  <2> HIDE DEF Inv
  <2>7. /\ \A s \in Units : Ending(ctl, Pending) \/ EndingFor(ctl, s)
                              => Ending(ctl', Pending') \/ EndingFor(ctl', s)
        /\ Pending \subseteq Pending'
    BY <1>6, <2>5, <2>c
  <2>8. \A v \in born : srv[v] = None => srv'[v] = None
    <3>1. born \subseteq Units
      BY <1>2 DEF TypeInv, TypeOK
    <3> QED BY <2>1, <2>b, <3>1
  <2> QED BY <1>1, <1>4, <2>4, <2>5, <2>7, <2>8, ServerStep
<1>12. \/ /\ q.k \in {"ask", "query"} /\ UNCHANGED srv
          /\ \E ok \in BOOLEAN : down' = Append(down, Answer(q.k, q.u, ok))
       \/ /\ q.k \in {"sabotage", "name"} /\ UNCHANGED srv
          /\ down' = IF here THEN Append(down, Packet(q.k, q.u)) ELSE down
       \/ /\ q.k = "unqueue"
          /\ srv' = IF here THEN [srv EXCEPT ![q.u].want = NoTile] ELSE srv
          /\ down' = IF here THEN Append(down, Info(q.u, srv'[q.u])) ELSE down
  BY DEF ServerAnswers
<1> QED
  <2> HIDE DEF q, here, Inv
  <2> QED BY <1>8, <1>9, <1>10, <1>11, <1>12

-----------------------------------------------------------------------------
(* The client handles packets.                                             *)

LEMMA DeliverStep ==
  ASSUME Inv, Deliver
  PROVE  Inv'
<1>1. PICK n \in 1..Len(down) : /\ batch' = SubSeq(down, 1, n)
                                /\ down' = SubSeq(down, n + 1, Len(down))
  BY DEF Deliver
<1>2. batch = <<>> /\ UNCHANGED <<server, dropped, units, onTile, ctl, timers, switched, clicks>>
  BY DEF Deliver
<1>3. down \in Seq(Packets) /\ ctl \in Control /\ units \in Mirrors /\ TypeInv
  BY InvTypes DEF Inv, MirrorInv
<1>4. batch' \in Seq(Packets) /\ down' \in Seq(Packets) /\ batch' \o down' = down
  BY <1>1, <1>3, SplitConcat
<1>5. batch \o down = down
  BY <1>2, <1>3
<1>6. Wire' = Wire
  BY <1>4, <1>5 DEF Wire
<1>7. TypeInv'
  BY <1>2, <1>3, <1>4 DEF TypeInv, TypeOK, server
<1>8. Pending' = Pending
  <2>1. Elements(batch' \o down') = Elements(batch') \cup Elements(down')
    BY <1>4, ElementsOfConcat
  <2>2. Elements(batch) = {}
    BY <1>2 DEF Elements
  <2>3. Pending = Elements(down)
    BY <2>2 DEF Pending, Elements
  <2>4. Pending' = Elements(batch') \cup Elements(down')
    BY DEF Pending, Elements
  <2> QED BY <1>4, <2>1, <2>3, <2>4
<1>9. FocusInv'
  BY <1>2 DEF Inv, FocusInv, Once, FocusKnown, Urgent, Shared, Elements
<1>10. \A u \in Units : Alike(units'[u], units[u]) /\ Alike(units[u], units[u])
  BY <1>2 DEF Alike
<1>11. Chosen(ctl, ctl', units)
  BY <1>2 DEF Chosen
<1>12. UNCHANGED <<srv, born, onTile, dropped>> /\ switched' = switched /\ ctl' = ctl
  BY <1>2 DEF server
<1> HIDE DEF Inv
<1> QED BY <1>3, <1>6, <1>7, <1>8, <1>9, <1>10, <1>11, <1>12, LocalStep

\* A packet is handled to its end.
LEMMA HandledStep ==
  ASSUME Inv, NEW p, p = Head(batch), batch # <<>>, batch' = Tail(batch),
         UNCHANGED <<server, down, timers, switched, clicks, dropped>>,
         ctl' \in Control, units' \in Mirrors, onTile' \in [Tiles -> SUBSET Units],
         TileListsMatch', FocusInv',
         \A u \in Units : Says(p, u) => units'[u] = Told(p),
         \A u \in Units : ~Says(p, u) => units'[u] = units[u],
         p.t = "info" => units[p.u] = None \/ units[p.u].owner = p.r.owner,
         ctl'.restart => ctl.restart,
         \A s \in Units : ctl'.selecting = s /\ ctl.selecting # s =>
           \/ units[s] # None /\ Wants(units[s])
           \/ p.t = "info" /\ p.u = s /\ Wants(p.r),
         \A s \in Units :
           /\ ctl'.selecting = s /\ ~switched
           /\ ctl.selecting = s => Ending(ctl, Pending) \/ EndingFor(ctl, s)
           => Ending(ctl', Pending') \/ EndingFor(ctl', s)
  PROVE  Inv'
<1>1. TypeInv /\ batch \in Seq(Packets)
  BY DEF Inv, MirrorInv, TypeInv
<1>2. TypeInv'
  <2>1. batch' \in Seq(Packets)
    BY <1>1, TailOf
  <2> QED BY <1>1, <2>1 DEF TypeInv, TypeOK, server, Mirrors
<1>3. UNCHANGED <<down, srv, born, dropped>>
  BY DEF server
<1>4. /\ MirrorInv' /\ Pending = Pending' \cup {p}
      /\ p \in Packets
      /\ \A u \in Units : Says(p, u) => u \in born
      /\ p.t = "info" => Lawful(p.r)
      /\ \A u \in Units : p.t = "remove" /\ p.u = u => srv[u] = None
  <2> HIDE DEF Says, Told, Lawful, Pending
  <2>1. MirrorInv
    BY DEF Inv
  <2> HIDE DEF Inv
  <2>2. /\ \A u \in Units : Says(Head(batch), u) => units'[u] = Told(Head(batch))
        /\ \A u \in Units : ~Says(Head(batch), u) => units'[u] = units[u]
    OBVIOUS
  <2> QED BY <1>2, <1>3, <2>1, <2>2, MirrorHandled
<1>5. /\ p.t = "info" => p.r \in UnitRec /\ p.r # None /\ Told(p) = p.r /\ Says(p, p.u) /\ p.u \in Units
      /\ p.t = "remove" => Says(p, p.u) /\ p.u \in Units
      /\ \A u : Says(p, u) => p.u = u /\ p.t \in {"info", "remove"}
  BY <1>4, SaysTold, UnitControlAssumption DEF Says
<1>6. ASSUME ~dropped, NEW u \in Units
      PROVE  /\ ctl.selecting = u => Own(u)
             /\ ctl.selecting = u /\ Kept(u) /\ ~switched =>
                  Ending(ctl, Pending) \/ EndingFor(ctl, u)
  BY <1>6 DEF Inv, SelectInv
<1>8. ASSUME ~dropped, NEW s \in Units, Own(s) PROVE Own(s)'
  <2>1. CASE ~Says(p, s)
    BY <1>3, <1>8, <2>1 DEF Own
  <2>2. CASE Says(p, s) /\ p.t = "remove"
    BY <1>3, <1>4, <1>5, <1>8, <2>2 DEF Own
  <2>3. CASE Says(p, s) /\ p.t = "info"
    <3>1. p.u = s /\ units'[s] = p.r /\ p.r # None
      BY <1>5, <2>3
    <3>2. units[s] # None => units[s].owner = units'[s].owner
      BY <2>3, <3>1
    <3> QED BY <1>3, <1>8, <3>1, <3>2 DEF Own
  <2> QED BY <1>5, <2>1, <2>2, <2>3
<1>9. ASSUME ~dropped, NEW s \in Units, ctl'.selecting = s PROVE Own(s)'
  <2>1. CASE ctl.selecting = s
    BY <1>6, <1>8, <1>9, <2>1
  <2>3. CASE units[s] # None /\ Wants(units[s])
    <3>1. Own(s)
      BY <2>3 DEF Inv, MirrorInv, Known, Lawful, Wants, Own
    <3> QED BY <1>8, <1>9, <3>1
  <2>4. CASE p.t = "info" /\ p.u = s /\ Wants(p.r)
    <3>1. s \in born /\ p.r.owner = Me /\ units'[s] = p.r
      BY <1>4, <1>5, <2>4 DEF Lawful, Wants
    <3> QED BY <1>3, <1>5, <2>4, <3>1 DEF Own
  <2> QED BY <1>9, <2>1, <2>3, <2>4
<1>10. ASSUME ~dropped, NEW s \in Units, ctl.selecting = s, Kept(s)' PROVE Kept(s)
  <2>1. /\ srv[s] # None /\ srv[s].owner = Me
        /\ ~\E x \in Pending' : x.t = "info" /\ x.u = s /\ x.r.owner # Me
    BY <1>3, <1>10 DEF Kept
  <2>2. units[s] # None /\ units[s].owner = Me
    BY <1>6, <1>10, <2>1 DEF Own
  <2>3. p.t = "info" /\ p.u = s => p.r.owner = Me
    BY <2>2
  <2> HIDE DEF Pending
  <2>4. \A x \in Pending : x = p \/ x \in Pending'
    BY <1>4
  <2> QED BY <2>1, <2>3, <2>4 DEF Kept
<1>11. ASSUME ~dropped, NEW s \in Units, ctl'.selecting = s, Kept(s)', ~switched'
       PROVE  Ending(ctl', Pending') \/ EndingFor(ctl', s)
  <2> HIDE DEF Ending, EndingFor, Kept, Pending
  <2>1. ctl.selecting = s => Ending(ctl, Pending) \/ EndingFor(ctl, s)
    BY <1>6, <1>10, <1>11
  <2> QED BY <1>11, <2>1
<1>12. SelectInv'
  <2>0. (~switched => ~ctl.restart)'
    BY DEF Inv, SelectInv
  <2> HIDE DEF Own, Kept, Pending
  <2>2. Ending(ctl, Pending)' <=> Ending(ctl', Pending')
    BY DEF Ending, Asking, Elements
  <2>3. ASSUME NEW u \in Units PROVE EndingFor(ctl, u)' <=> EndingFor(ctl', u)
    BY DEF EndingFor, Elements
  <2> HIDE DEF Ending, EndingFor
  <2> QED BY <1>3, <1>9, <1>11, <2>0, <2>2, <2>3 DEF SelectInv
<1> QED BY <1>4, <1>12 DEF Inv

LEMMA HandledPending ==
  ASSUME Inv, batch # <<>>, batch' = Tail(batch), down' = down
  PROVE  Head(batch) \in Packets /\ Pending = Pending' \cup {Head(batch)}
<1>1. batch \in Seq(Packets)
  BY InvTypes
<1>2. Head(batch) \in Packets /\ Elements(batch) = {Head(batch)} \cup Elements(Tail(batch))
  BY <1>1, TailOf
<1> QED BY <1>2 DEF Pending, Elements

\* The focus and the mirror stay.
LEMMA FocusStayed ==
  ASSUME Inv, SameFocus(ctl, ctl'), Elements(ctl'.urgent) \subseteq Elements(ctl.urgent),
         UNCHANGED <<units, onTile>>
  PROVE  FocusInv'
BY DEF Inv, FocusInv, SameFocus, Once, FocusKnown, Urgent, Shared, Elements

\* What only adds requests ends what was ended.
LEMMA KeepsEnding ==
  ASSUME NEW c, NEW d, NEW P, NEW Q, NEW s, Keeps(c, d),
         \A x \in P : x.t \in {"ask", "query", "sabotage", "name"} => x \in Q,
         Ending(c, P) \/ EndingFor(c, s)
  PROVE  Ending(d, Q) \/ EndingFor(d, s)
<1>1. d.dialogs = c.dialogs /\ d.more = c.more /\ Elements(c.up) \subseteq Elements(d.up)
  BY DEF Keeps
<1> HIDE DEF Elements
<1> QED BY <1>1 DEF Ending, EndingFor, Asking

\* A packet that is not about the mirror.
LEMMA QuietHandled ==
  ASSUME Inv, NEW t, t \notin {"info", "remove"}, Handle(t), Done, UNCHANGED <<units, onTile>>,
         ctl' \in Control, FocusInv',
         ctl'.restart => ctl.restart,
         Chosen(ctl, ctl', units),
         \A s \in Units :
           /\ ctl'.selecting = s /\ ~switched
           /\ ctl.selecting = s => Ending(ctl, Pending) \/ EndingFor(ctl, s)
           => Ending(ctl', Pending') \/ EndingFor(ctl', s)
  PROVE  Inv'
<1> DEFINE p == Head(batch)
<1>1. /\ batch # <<>> /\ p.t = t /\ batch' = Tail(batch)
      /\ UNCHANGED <<server, down, timers, switched, clicks, dropped>>
  BY DEF Handle, Done
<1>2. /\ units' \in Mirrors /\ onTile' \in [Tiles -> SUBSET Units]
      /\ TileListsMatch'
  BY <1>1, InvTypes DEF TileListsMatch, server
<1>3. /\ \A u \in Units : ~Says(p, u)
      /\ p.t # "info"
  BY <1>1 DEF Says
<1>4. \A s \in Units : ctl'.selecting = s /\ ctl.selecting # s =>
           units[s] # None /\ Wants(units[s])
  BY NoUnitIsNoUnit DEF Chosen
<1> HIDE DEF Inv, Ending, EndingFor, Says, Pending, Wants
<1> QED BY <1>1, <1>2, <1>3, <1>4, HandledStep

LEMMA HandleUnitActionsStep ==
  ASSUME Inv, HandleUnitActions
  PROVE  Inv'
<1> DEFINE p == Head(batch)
           u == p.u
<1>1. /\ Handle("ask") /\ Done /\ UNCHANGED <<units, onTile>>
      /\ ctl' = IF p.ok /\ units[u] # None
                THEN PopupActionSelection(ctl, units, u)
                ELSE NextInFocus(ClearWant(NoLongerInProgress(ctl), units, u), units, u)
  BY DEF HandleUnitActions
<1>2. batch # <<>> /\ p.t = "ask" /\ batch' = Tail(batch) /\ down' = down
  BY <1>1 DEF Handle, Done
<1>3. u \in Units
  BY <1>2, HandledPending, SaysTold
<1>4. ctl \in Control /\ units \in Mirrors /\ FocusKnown(ctl, units)
  BY InvTypes
<1>5. ~switched => ~ctl.restart
  BY DEF Inv, SelectInv
<1> HIDE DEF u, p
<1>6. /\ Settles(ctl, ctl', units)
      /\ ~ctl.restart => Over(ctl') \/ EndingFor(ctl', ctl'.selecting)
  <2>1. CASE p.ok /\ units[u] # None
    <3> DEFINE d == PopupActionSelection(ctl, units, u)
    <3>1. /\ Settles(ctl, d, units) /\ d.dialogs # <<>>
          /\ d.dialogs[Len(d.dialogs)] = [kind |-> "select", u |-> u] /\ ~d.more
          /\ ~ctl.restart => Over(d) \/ d.selecting = u
      BY <1>3, <1>4, PopupSettles
    <3>2. ctl' = d
      BY <1>1, <2>1
    <3> HIDE DEF d
    <3>3. ctl'.selecting = u => EndingFor(ctl', ctl'.selecting)
      BY <3>1, <3>2 DEF EndingFor
    <3> QED BY <3>1, <3>2, <3>3
  <2>2. CASE ~(p.ok /\ units[u] # None)
    <3> DEFINE b == NoLongerInProgress(ctl)
               d == NextInFocus(ClearWant(b, units, u), units, u)
    <3>1. /\ b \in Control /\ SameFocus(ctl, b)
          /\ b.urgent = ctl.urgent /\ b.up = ctl.up
          /\ b.restart = ctl.restart /\ b.selecting = NoUnit
      BY <1>4, NoLongerFields
    <3> HIDE DEF b
    <3>2. Settles(b, d, units) /\ (d.selecting = b.selecting \/ Asking(d))
      BY <1>3, <1>4, <3>1, NextSettles
    <3>3. ctl' = d
      BY <1>1, <2>2 DEF b
    <3> HIDE DEF d
    <3>4. FocusKnown(b, units)
      BY <1>4, <3>1 DEF FocusKnown, SameFocus
    <3>5. Settles(ctl, ctl', units)
      BY <3>1, <3>2, <3>3, <3>4 DEF Settles, SameFocus, Chosen
    <3> QED BY <3>1, <3>2, <3>3, <3>5 DEF Over
  <2> QED BY <2>1, <2>2
<1>7. /\ ctl' \in Control /\ SameFocus(ctl, ctl') /\ Chosen(ctl, ctl', units)
      /\ ctl'.restart => ctl.restart
      /\ Elements(ctl'.urgent) \subseteq Elements(ctl.urgent)
  BY <1>4, <1>6 DEF Settles, SameFocus
<1>8. \A s \in Units : ctl'.selecting = s /\ ~switched
                         => Ending(ctl', Pending') \/ EndingFor(ctl', s)
  BY <1>5, <1>6, NoUnitIsNoUnit DEF Over, Ending
<1>9. FocusInv'
  BY <1>1, <1>7, FocusStayed
<1> HIDE DEF Inv, Ending, EndingFor, Pending
<1> QED BY <1>1, <1>7, <1>8, <1>9, QuietHandled

LEMMA HandleUnitActionAnswerStep ==
  ASSUME Inv, HandleUnitActionAnswer
  PROVE  Inv'
<1> DEFINE p == Head(batch)
           u == p.u
<1>1. /\ Handle("query") /\ Done /\ UNCHANGED <<units, onTile>>
      /\ ctl' = IF p.ok /\ units[u] # None THEN OpenPrice(ctl, u)
                ELSE ActSelQueueDone(ctl, units, u)
  BY DEF HandleUnitActionAnswer
<1>2. batch # <<>> /\ p.t = "query" /\ batch' = Tail(batch) /\ down' = down
  BY <1>1 DEF Handle, Done
<1>3. u \in Units
  BY <1>2, HandledPending, SaysTold
<1>4. ctl \in Control /\ units \in Mirrors /\ FocusKnown(ctl, units)
  BY InvTypes
<1>5. ~switched => ~ctl.restart
  BY DEF Inv, SelectInv
<1> HIDE DEF u, p
<1>6. /\ Settles(ctl, ctl', units)
      /\ ~ctl.restart => Over(ctl') \/ Ending(ctl', Pending')
  <2>1. CASE p.ok /\ units[u] # None
    <3> DEFINE d == Open(ctl, "price", u)
               it == [kind |-> "price", u |-> u]
    <3>1. Redraws(ctl, d) /\ Elements(d.dialogs) = Elements(ctl.dialogs) \cup {it}
      <4>1. "price" \in Kinds
        BY DEF Kinds
      <4>2. /\ Redraws(ctl, d)
            /\ Elements(d.dialogs) = Elements(ctl.dialogs) \cup {it}
            /\ d.dialogs # <<>> /\ d.dialogs[Len(d.dialogs)] = it
        BY <1>3, <1>4, <4>1, OpenOpens, Zenon
      <4> QED BY <4>2, Zenon
    <3>2. ctl' = d
      BY <1>1, <2>1 DEF OpenPrice
    <3> HIDE DEF d
    <3>3. /\ d \in Control /\ SameFocus(ctl, d) /\ d.urgent = ctl.urgent /\ d.up = ctl.up
          /\ d.restart = ctl.restart /\ d.selecting = ctl.selecting
      BY <1>4, <3>1, RedrawsFields
    <3>4. Settles(ctl, d, units)
      BY <3>3 DEF Settles, Chosen
    <3>5. it \in Elements(d.dialogs) /\ it.kind = "price"
      BY <3>1
    <3> QED BY <3>2, <3>4, <3>5 DEF Ending
  <2>2. CASE ~(p.ok /\ units[u] # None)
    BY <1>1, <1>3, <1>4, <2>2, DoneSettles
  <2> QED BY <2>1, <2>2
<1>7. /\ ctl' \in Control /\ SameFocus(ctl, ctl') /\ Chosen(ctl, ctl', units)
      /\ ctl'.restart => ctl.restart
      /\ Elements(ctl'.urgent) \subseteq Elements(ctl.urgent)
  BY <1>4, <1>6 DEF Settles, SameFocus
<1>8. \A s \in Units : ctl'.selecting = s /\ ~switched
                         => Ending(ctl', Pending') \/ EndingFor(ctl', s)
  BY <1>5, <1>6, NoUnitIsNoUnit DEF Over, Ending
<1>9. FocusInv'
  BY <1>1, <1>7, FocusStayed
<1> HIDE DEF Inv, Ending, EndingFor, Pending
<1> QED BY <1>1, <1>7, <1>8, <1>9, QuietHandled

LEMMA ThrowStep ==
  ASSUME Inv, NEW t, Handle(t), Throw
  PROVE  Inv'
<1>1. /\ UNCHANGED <<server, down, timers, switched, clicks, units, onTile, ctl>>
      /\ batch' = <<>> /\ dropped' = TRUE
  BY DEF Handle, Throw
<1>2. TypeInv'
  <2>1. batch' \in Seq(Packets)
    BY <1>1
  <2> QED BY <1>1, <2>1 DEF Inv, MirrorInv, TypeInv, TypeOK, server
<1>3. MirrorInv'
  BY <1>1, <1>2, InvTypes, MirrorThrows DEF Inv, server, TileListsMatch
<1>4. FocusInv'
  BY <1>1 DEF Inv, FocusInv, Once, FocusKnown, Urgent, Shared, Elements
<1>5. SelectInv'
  BY <1>1 DEF Inv, SelectInv
<1> QED BY <1>3, <1>4, <1>5 DEF Inv

\* A dialog opens that ends the selection, whatever unit it is for.
LEMMA QuestionOpens ==
  ASSUME Inv, NEW t, t \notin {"info", "remove"}, Handle(t), Done, UNCHANGED <<units, onTile>>,
         Redraws(ctl, ctl'),
         NEW it \in Elements(ctl'.dialogs), it.kind \in {"price", "list", "name"}
  PROVE  Inv'
<1>1. ctl \in Control
  BY InvTypes
<1>2. /\ ctl' \in Control /\ SameFocus(ctl, ctl') /\ ctl'.urgent = ctl.urgent
      /\ ctl'.restart = ctl.restart /\ ctl'.selecting = ctl.selecting
  BY <1>1, RedrawsFields
<1>3. Chosen(ctl, ctl', units)
  BY <1>2 DEF Chosen, SameFocus
<1>4. FocusInv'
  BY <1>2, FocusStayed
<1>5. Ending(ctl', Pending')
  BY DEF Ending
<1> HIDE DEF Inv, Ending, EndingFor, Pending
<1> QED BY <1>2, <1>3, <1>4, <1>5, QuietHandled

LEMMA HandleCitySabotageListStep ==
  ASSUME Inv, HandleCitySabotageList
  PROVE  Inv'
<1> DEFINE u == Head(batch).u
<1>1. CASE Throw
  BY <1>1, ThrowStep DEF HandleCitySabotageList
<1>2. CASE ~Throw
  <2>1. /\ Handle("sabotage") /\ Done /\ UNCHANGED <<units, onTile>>
        /\ ctl' = OpenList(ctl, u)
    BY <1>2 DEF HandleCitySabotageList
  <2>2. batch # <<>> /\ Head(batch).t = "sabotage" /\ batch' = Tail(batch) /\ down' = down
    BY <2>1 DEF Handle, Done
  <2>3. u \in Units /\ ctl \in Control
    BY <2>2, HandledPending, SaysTold, InvTypes
  <2> HIDE DEF u
  <2> DEFINE d == Open(ctl, "list", u)
             it == [kind |-> "list", u |-> u]
  <2>4. Redraws(ctl, d) /\ Elements(d.dialogs) = Elements(ctl.dialogs) \cup {it}
    <3>1. "list" \in Kinds
      BY DEF Kinds
    <3>2. /\ Redraws(ctl, d)
          /\ Elements(d.dialogs) = Elements(ctl.dialogs) \cup {it}
          /\ d.dialogs # <<>> /\ d.dialogs[Len(d.dialogs)] = it
      BY <2>3, <3>1, OpenOpens, Zenon
    <3> QED BY <3>2, Zenon
  <2>5. ctl' = d /\ it.kind = "list"
    BY <2>1 DEF OpenList
  <2> HIDE DEF d, it, Inv
  <2>6. it \in Elements(ctl'.dialogs) /\ Redraws(ctl, ctl')
    BY <2>4, <2>5
  <2> QED BY <2>1, <2>5, <2>6, QuestionOpens
<1> QED BY <1>1, <1>2

LEMMA HandleCityNameSuggestionStep ==
  ASSUME Inv, HandleCityNameSuggestion
  PROVE  Inv'
<1> DEFINE u == Head(batch).u
<1>1. /\ Handle("name") /\ Done /\ UNCHANGED <<units, onTile>>
      /\ ctl' = OpenName(ctl, u)
  BY DEF HandleCityNameSuggestion
<1>2. batch # <<>> /\ Head(batch).t = "name" /\ batch' = Tail(batch) /\ down' = down
  BY <1>1 DEF Handle, Done
<1>3. u \in Units /\ ctl \in Control
  BY <1>2, HandledPending, SaysTold, InvTypes
<1> HIDE DEF u
<1> DEFINE it == [kind |-> "name", u |-> u]
<1>4. Redraws(ctl, ctl') /\ it \in Elements(ctl'.dialogs)
  BY <1>1, <1>3, OpenNameOpens
<1>5. it.kind = "name"
  OBVIOUS
<1> HIDE DEF Inv, it
<1> QED BY <1>1, <1>4, <1>5, QuestionOpens

\* Only the units that look controlled change.
LEMMA TakenOnly ==
  ASSUME NEW c \in Control, NEW S, S \subseteq Units, NEW d, d = [c EXCEPT !.taken = S]
  PROVE  /\ d \in Control /\ Keeps(c, d) /\ SameFocus(c, d)
         /\ d.urgent = c.urgent /\ d.selecting = c.selecting
<1>1. /\ d \in Control /\ d.focus = c.focus /\ d.shared = c.shared
      /\ d.urgent = c.urgent /\ d.selecting = c.selecting /\ d.up = c.up
      /\ d.dialogs = c.dialogs /\ d.more = c.more /\ d.restart = c.restart
      /\ d.undecided = c.undecided
  BY DEF Control
<1> QED BY <1>1 DEF Keeps, SameFocus

LEMMA TakenMoves ==
  ASSUME NEW c \in Control, NEW S, S \subseteq Units, NEW us
  PROVE  Taken(c, S) \in Control /\ Moves(c, Taken(c, S), us)
<1> DEFINE T == c.taken \cup S
           d == Taken(c, S)
<1>1. d = [c EXCEPT !.taken = T] /\ T \subseteq Units
  BY DEF Taken, Control
<1> HIDE DEF T, d
<1>2. /\ d \in Control /\ Keeps(c, d) /\ SameFocus(c, d)
      /\ d.urgent = c.urgent /\ d.selecting = c.selecting
  BY <1>1, TakenOnly
<1> QED BY <1>2 DEF Moves, Chosen, d

LEMMA KeepsTwice ==
  ASSUME NEW a, NEW b, NEW c, Keeps(a, b), Keeps(b, c)
  PROVE  Keeps(a, c)
BY DEF Keeps, Asking

LEMMA KeepsSelecting ==
  ASSUME NEW c, NEW d, NEW P, NEW Q, NEW s, Keeps(c, d), d.selecting = s,
         \A x \in P : x.t \in {"ask", "query", "sabotage", "name"} => x \in Q,
         c.selecting = s => Ending(c, P) \/ EndingFor(c, s)
  PROVE  Ending(d, Q) \/ EndingFor(d, s)
<1>1. CASE c.selecting = s
  BY <1>1, KeepsEnding
<1>2. CASE c.selecting # s
  BY <1>2 DEF Keeps, Ending
<1> QED BY <1>1, <1>2

\* A handler that has moved the focus throws: the rest of the message is lost, if
\* there is any.
LEMMA BatchCut ==
  ASSUME Inv, batch # <<>>, Head(batch).t = "begin",
         batch' = <<>>, dropped' = (dropped \/ Tail(batch) # <<>>),
         UNCHANGED <<server, down, timers, switched, clicks, units, onTile>>,
         ctl' \in Control, FocusInv', Keeps(ctl, ctl'), Chosen(ctl, ctl', units)
  PROVE  Inv'
<1>1. CASE Tail(batch) = <<>>
  <2>1. Handle("begin") /\ Done
    <3>1. batch' = Tail(batch) /\ dropped' = dropped
      BY <1>1, InvTypes DEF Inv, MirrorInv, TypeInv, TypeOK
    <3> QED BY <3>1 DEF Handle, Done
  <2>2. batch' = Tail(batch)
    BY <1>1
  <2>3. \A x \in Pending : x.t \in {"ask", "query", "sabotage", "name"} => x \in Pending'
    BY <2>2, HandledPending
  <2>4. \A s \in Units :
          /\ ctl'.selecting = s /\ ~switched
          /\ ctl.selecting = s => Ending(ctl, Pending) \/ EndingFor(ctl, s)
          => Ending(ctl', Pending') \/ EndingFor(ctl', s)
    <3> HIDE DEF Pending
    <3> QED BY <2>3, KeepsSelecting
  <2>5. ctl'.restart => ctl.restart
    BY DEF Keeps
  <2> HIDE DEF Inv, Ending, EndingFor, Pending
  <2> QED BY <2>1, <2>4, <2>5, QuietHandled
<1>2. CASE Tail(batch) # <<>>
  <2>1. dropped' = TRUE /\ UNCHANGED <<down, srv, born, units>>
    BY <1>2 DEF server
  <2>2. TypeInv'
    <3>1. batch' \in Seq(Packets)
      OBVIOUS
    <3> QED BY <2>1, <3>1 DEF Inv, MirrorInv, TypeInv, TypeOK, server
  <2>3. MirrorInv'
    BY <2>1, <2>2, InvTypes, MirrorThrows DEF Inv, TileListsMatch
  <2>4. SelectInv'
    BY <2>1 DEF Inv, SelectInv, Keeps
  <2> QED BY <2>3, <2>4 DEF Inv
<1> QED BY <1>1, <1>2

LEMMA HandleBeginTurnStep ==
  ASSUME Inv, HandleBeginTurn
  PROVE  Inv'
<1>1. /\ Handle("begin") /\ UNCHANGED <<units, onTile>>
      /\ ctl' = UpdateUnitFocus(ctl, units)
  BY DEF HandleBeginTurn
<1>2. /\ batch # <<>> /\ Head(batch).t = "begin"
      /\ UNCHANGED <<server, down, timers, switched, clicks>>
  BY <1>1 DEF Handle
<1>3. Moves(ctl, ctl', units) /\ ctl' \in Control /\ units \in Mirrors
  BY <1>1, InvTypes, UpdateMoves DEF Moves, Keeps
<1>4. FocusInv'
  BY <1>1, <1>3, FocusMoved
<1>5. Chosen(ctl, ctl', units) /\ Keeps(ctl, ctl') /\ (ctl'.restart => ctl.restart)
  BY <1>3 DEF Moves, Keeps
<1>6. CASE Done
  <2>1. batch' = Tail(batch) /\ down' = down
    BY <1>2, <1>6 DEF Done
  <2>2. \A x \in Pending : x.t \in {"ask", "query", "sabotage", "name"} => x \in Pending'
    BY <1>2, <2>1, HandledPending
  <2>3. \A s \in Units :
          /\ ctl'.selecting = s /\ ~switched
          /\ ctl.selecting = s => Ending(ctl, Pending) \/ EndingFor(ctl, s)
          => Ending(ctl', Pending') \/ EndingFor(ctl', s)
    <3> HIDE DEF Pending
    <3> QED BY <1>5, <2>2, KeepsSelecting
  <2> HIDE DEF Inv, Ending, EndingFor, Pending
  <2> QED BY <1>1, <1>3, <1>4, <1>5, <1>6, <2>3, QuietHandled
<1>7. CASE batch' = <<>> /\ dropped' = (dropped \/ Tail(batch) # <<>>)
  <2> HIDE DEF Inv, FocusInv, Keeps, Chosen
  <2> QED BY <1>1, <1>2, <1>3, <1>4, <1>5, <1>7, BatchCut
<1> QED BY <1>6, <1>7 DEF HandleBeginTurn

\* A list without a unit.
LEMMA WithoutIt ==
  ASSUME NEW list \in Seq(Units), NEW u \in Units
  PROVE  /\ Without(list, u) \in Seq(Units)
         /\ Elements(Without(list, u)) = Elements(list) \ {u}
         /\ Once(list) => Once(Without(list, u))
<1>1. /\ Only(list, Units \ {u}) \in Seq(Units)
      /\ Elements(Only(list, Units \ {u})) = Elements(list) \cap (Units \ {u})
      /\ Once(list) => Once(Only(list, Units \ {u}))
  BY OnlyKeeps
<1>2. Elements(list) \subseteq Units
  BY DEF Elements
<1> QED BY <1>1, <1>2 DEF Without

LEMMA HasElement ==
  ASSUME NEW list, NEW u
  PROVE  Has(list, u) <=> u \in Elements(list)
BY DEF Has, Elements

\* The focus and the urgent queue when a unit is killed: it leaves the queue, and
\* the focus, if it is in it, is moved or loses it.
LEMMA KilledKeeps ==
  ASSUME NEW c \in Control, NEW us \in Mirrors, NEW u \in Units, us[u] # None,
         Once(c.focus), FocusKnown(c, us), Urgent(c, us),
         c.shared # NoTile => u \notin Elements(c.focus),
         NEW d, d = ControlUnitKilled(c, us, u)
  PROVE  /\ Keeps(c, d) /\ Chosen(c, d, us)
         /\ Elements(d.urgent) \subseteq Elements(c.urgent) \ {u}
         /\ Once(d.focus) /\ FocusKnown(d, us)
         /\ d.shared # NoTile => d.shared = c.shared /\ d.focus = c.focus
         /\ ~Has(c.focus, u) => SameFocus(c, d)
<1> DEFINE b == [c EXCEPT !.urgent = Without(c.urgent, u)]
           e == [b EXCEPT !.focus = Without(c.focus, u), !.shared = NoTile]
<1>0. c.urgent \in Seq(Units) /\ c.focus \in Seq(Units)
  BY DEF Control
<1>1. /\ Without(c.urgent, u) \in Seq(Units)
      /\ Elements(Without(c.urgent, u)) = Elements(c.urgent) \ {u}
  BY <1>0, WithoutIt
<1>2. /\ b \in Control /\ SameFocus(c, b) /\ b.urgent = Without(c.urgent, u)
      /\ b.dialogs = c.dialogs /\ b.more = c.more /\ b.restart = c.restart
      /\ b.undecided = c.undecided /\ b.up = c.up /\ b.selecting = c.selecting
  BY <1>1 DEF Control, SameFocus
<1>3. d = IF ~Has(c.focus, u) THEN b
          ELSE IF Len(c.focus) = 1 THEN AdvanceUnitFocus(b, us) ELSE e
  BY <1>2 DEF ControlUnitKilled, SameFocus
<1>4. CASE ~Has(c.focus, u)
  BY <1>1, <1>2, <1>3, <1>4 DEF Keeps, Chosen, SameFocus, FocusKnown
<1>5. CASE Has(c.focus, u) /\ Len(c.focus) = 1
  <2>1. Urgent(b, us)
    BY <1>1, <1>2 DEF Urgent
  <2>2. Moves(b, d, us)
    BY <1>2, <1>3, <1>5, <2>1, AdvanceMoves
  <2>3. Keeps(c, d) /\ Chosen(c, d, us)
    BY <1>2, <2>2 DEF Moves, Keeps, Chosen, SameFocus
  <2>4. Elements(d.urgent) \subseteq Elements(c.urgent) \ {u}
    BY <1>1, <1>2, <2>2 DEF Moves
  <2>5. Once(d.focus) /\ FocusKnown(d, us) /\ d.shared = NoTile
    <3>1. d.focus \in Seq(Units)
      BY <2>3 DEF Keeps, Control
    <3>2. CASE SameFocus(b, d)
      <4>1. c.shared = NoTile
        BY <1>5, HasElement
      <4> QED BY <1>2, <3>2, <4>1 DEF SameFocus, FocusKnown
    <3>3. CASE ~SameFocus(b, d)
      <4>1. /\ Len(d.focus) <= 1 /\ d.shared = NoTile
            /\ \A i \in DOMAIN d.focus : us[d.focus[i]] # None
        BY <2>2, <3>3 DEF Moves
      <4>2. Once(d.focus)
        BY <3>1, <4>1 DEF Once
      <4> QED BY <4>1, <4>2 DEF FocusKnown
    <3> QED BY <3>2, <3>3
  <2> QED BY <1>5, <2>3, <2>4, <2>5
<1>6. CASE Has(c.focus, u) /\ Len(c.focus) # 1
  <2>1. /\ Without(c.focus, u) \in Seq(Units)
        /\ Elements(Without(c.focus, u)) = Elements(c.focus) \ {u}
        /\ Once(Without(c.focus, u))
    BY <1>0, WithoutIt
  <2>2. d = e
    BY <1>3, <1>6
  <2>4. /\ d \in Control /\ d.focus = Without(c.focus, u) /\ d.shared = NoTile
        /\ d.urgent = b.urgent /\ d.dialogs = c.dialogs /\ d.more = c.more
        /\ d.restart = c.restart /\ d.undecided = c.undecided
        /\ d.up = c.up /\ d.selecting = c.selecting
    <3> DEFINE f == Without(c.focus, u)
    <3> HIDE DEF b
    <3>1. d = [b EXCEPT !.focus = f, !.shared = NoTile]
      BY <2>2
    <3> HIDE DEF f
    <3>2. f \in Seq(Units)
      BY <2>1 DEF f
    <3>3. /\ d \in Control /\ d.focus = f /\ d.shared = NoTile
          /\ d.urgent = b.urgent /\ d.dialogs = b.dialogs /\ d.more = b.more
          /\ d.restart = b.restart /\ d.undecided = b.undecided
          /\ d.up = b.up /\ d.selecting = b.selecting
      BY <1>2, <3>1, <3>2 DEF Control
    <3> QED BY <1>2, <3>3 DEF f
  <2> HIDE DEF b, e
  <2>5. FocusKnown(d, us)
    <3>1. ASSUME NEW i \in DOMAIN d.focus PROVE us[d.focus[i]] # None
      <4>1. d.focus[i] \in Elements(c.focus)
        BY <2>1, <2>4 DEF Elements
      <4> QED BY <4>1 DEF FocusKnown, Elements
    <3> QED BY <3>1 DEF FocusKnown
  <2> QED BY <1>1, <1>2, <1>6, <2>1, <2>4, <2>5 DEF Keeps, Chosen
<1> QED BY <1>4, <1>5, <1>6

\* The lists of the tiles: each holds only what is mirrored on its tile.
Holds(lists, us) ==
  /\ lists \in [Tiles -> SUBSET Units]
  /\ \A t \in Tiles : \A u \in lists[t] : us[u] # None /\ us[u].tile = t

\* A unit leaves the list of its tile, and no other holds it.
LEMMA ListsWithout ==
  ASSUME NEW us \in Mirrors, NEW u \in Units, NEW lists, Holds(lists, us)
  PROVE  /\ ClearTileUnit(lists, us, u) \in [Tiles -> SUBSET Units]
         /\ \A t \in Tiles : ClearTileUnit(lists, us, u)[t] = lists[t] \ {u}
<1>1. CASE us[u] = None
  <2>1. \A t \in Tiles : u \notin lists[t]
    BY <1>1 DEF Holds
  <2> QED BY <1>1, <2>1 DEF ClearTileUnit, Holds
<1>2. CASE us[u] # None
  <2>1. us[u].tile \in Tiles
    BY <1>2 DEF Mirrors, UnitRec
  <2>2. \A t \in Tiles : t # us[u].tile => u \notin lists[t]
    BY DEF Holds
  <2> QED BY <1>2, <2>1, <2>2 DEF ClearTileUnit, Holds
<1> QED BY <1>1, <1>2

\* Only the focus changes.
LEMMA Refocuses ==
  ASSUME NEW c \in Control, NEW q \in Seq(Units), NEW d, d = [c EXCEPT !.focus = q]
  PROVE  /\ Keeps(c, d) /\ d.focus = q /\ d.selecting = c.selecting
         /\ d.shared = c.shared /\ d.urgent = c.urgent
BY DEF Control, Keeps

LEMMA LeftKeeps ==
  ASSUME NEW c \in Control, NEW us \in Mirrors, NEW u \in Units,
         Once(c.focus), FocusKnown(c, us), NEW lists, Holds(lists, us), Shared(c, lists),
         NEW d, d = LeftTile(c, us, u)
  PROVE  /\ Keeps(c, d) /\ d.selecting = c.selecting
         /\ d.shared = c.shared /\ d.urgent = c.urgent
         /\ Once(d.focus) /\ FocusKnown(d, us)
         /\ d.shared # NoTile => Elements(d.focus) = lists[d.shared] \ {u}
<1>0. c.focus \in Seq(Units) /\ c.shared \in Tiles \cup {NoTile}
  BY DEF Control
<1>1. CASE us[u] # None /\ us[u].tile = c.shared
  <2> DEFINE q == Without(c.focus, u)
  <2>1. /\ q \in Seq(Units) /\ Elements(q) = Elements(c.focus) \ {u} /\ Once(q)
    BY <1>0, WithoutIt
  <2>2. d = [c EXCEPT !.focus = q]
    BY <1>1 DEF LeftTile
  <2> HIDE DEF q
  <2>3. /\ Keeps(c, d) /\ d.focus = q /\ d.selecting = c.selecting
        /\ d.shared = c.shared /\ d.urgent = c.urgent
    BY <2>1, <2>2, Refocuses
  <2>4. FocusKnown(d, us)
    <3>1. ASSUME NEW i \in DOMAIN q PROVE us[q[i]] # None
      <4>1. q[i] \in Elements(c.focus)
        BY <2>1 DEF Elements
      <4> QED BY <4>1 DEF Elements, FocusKnown
    <3> QED BY <2>3, <3>1 DEF FocusKnown
  <2> QED BY <2>1, <2>3, <2>4 DEF Shared
<1>2. CASE ~(us[u] # None /\ us[u].tile = c.shared)
  <2>1. d = c
    BY <1>2 DEF LeftTile
  <2>2. c.shared # NoTile => u \notin lists[c.shared]
    BY <1>0, <1>2 DEF Holds
  <2>3. c.shared # NoTile => lists[c.shared] = lists[c.shared] \ {u}
    BY <2>2
  <2> QED BY <2>1, <2>3, KeepsItself DEF Shared
<1> QED BY <1>1, <1>2

LEMMA EnteredKeeps ==
  ASSUME NEW c \in Control, NEW u \in Units, NEW t \in Tiles, Once(c.focus),
         NEW d, d = EnteredTile(c, u, t)
  PROVE  /\ Keeps(c, d) /\ d.selecting = c.selecting
         /\ d.shared = c.shared /\ d.urgent = c.urgent
         /\ Once(d.focus)
         /\ t = c.shared => Elements(d.focus) = Elements(c.focus) \cup {u}
         /\ t # c.shared => Elements(d.focus) = Elements(c.focus)
<1>0. c.focus \in Seq(Units)
  BY DEF Control
<1>1. CASE t = c.shared /\ ~Has(c.focus, u)
  <2> DEFINE q == Append(c.focus, u)
  <2>1. q \in Seq(Units) /\ Elements(q) = Elements(c.focus) \cup {u}
    BY <1>0, Appended
  <2>2. d = [c EXCEPT !.focus = q]
    BY <1>1 DEF EnteredTile
  <2>3. Once(q)
    <3>1. /\ DOMAIN c.focus = 1..Len(c.focus) /\ Len(c.focus) \in Nat
          /\ DOMAIN q = 1..Len(c.focus) + 1 /\ q[Len(c.focus) + 1] = u
          /\ \A i \in 1..Len(c.focus) : q[i] = c.focus[i] /\ c.focus[i] # u
      BY <1>0, <1>1 DEF Has
    <3>2. \A i \in 1..Len(c.focus) + 1 : i = Len(c.focus) + 1 \/ i \in 1..Len(c.focus)
      BY <3>1
    <3> HIDE DEF q
    <3> QED BY <3>1, <3>2 DEF Once
  <2> HIDE DEF q
  <2>4. /\ Keeps(c, d) /\ d.focus = q /\ d.selecting = c.selecting
        /\ d.shared = c.shared /\ d.urgent = c.urgent
    BY <2>1, <2>2, Refocuses
  <2> QED BY <1>1, <2>1, <2>3, <2>4
<1>2. CASE ~(t = c.shared /\ ~Has(c.focus, u))
  <2>1. d = c
    BY <1>2 DEF EnteredTile
  <2>2. t = c.shared => u \in Elements(c.focus)
    BY <1>2, HasElement
  <2> QED BY <2>1, <2>2, KeepsItself
<1> QED BY <1>1, <1>2

LEMMA HandleUnitRemoveStep ==
  ASSUME Inv, HandleUnitRemove
  PROVE  Inv'
<1> DEFINE p == Head(batch)
           u == p.u
           left == LeftTile(ctl, units, u)
<1>1. /\ Handle("remove")
      /\ \/ Done /\ units[u] = None /\ UNCHANGED <<units, onTile, ctl>>
         \/ /\ units[u] # None
            /\ onTile' = ClearTileUnit(onTile, units, u)
            /\ ctl' = ControlUnitKilled(left, units, u)
            /\ \/ /\ ~Has(left.focus, u)
                  /\ units' = [units EXCEPT ![u] = None]
                  /\ Done
               \/ /\ Has(left.focus, u)
                  /\ batch' = <<>> /\ dropped' = TRUE
                  /\ UNCHANGED units
  BY DEF HandleUnitRemove
<1>2. /\ batch # <<>> /\ p.t = "remove" /\ down' = down
      /\ UNCHANGED <<server, down, timers, switched, clicks>>
  BY <1>1 DEF Handle
<1>3. /\ u \in Units /\ Told(p) = None
      /\ \A v \in Units : Says(p, v) <=> v = u
      /\ p \in Elements(Wire)
  <2>1. batch \in Seq(Packets) /\ down \in Seq(Packets)
    BY InvTypes
  <2>2. p \in Packets /\ p \in Elements(batch)
    BY <1>2, <2>1, TailOf
  <2>3. p \in Elements(Wire)
    BY <2>1, <2>2, ElementsOfConcat DEF Wire
  <2> QED BY <1>2, <2>2, <2>3, SaysTold
<1>4. /\ ctl \in Control /\ units \in Mirrors /\ FocusKnown(ctl, units)
      /\ Urgent(ctl, units) /\ Holds(onTile, units) /\ Once(ctl.focus)
      /\ Shared(ctl, onTile)
  BY InvTypes DEF Inv, FocusInv, Holds, TileListsMatch
<1>5. srv[u] = None /\ srv' = srv
  BY <1>2, <1>3 DEF Inv, MirrorInv, Gone, server
<1>6. CASE Done /\ units[u] = None /\ UNCHANGED <<units, onTile, ctl>>
  <2>1. FocusInv'
    BY <1>6 DEF Inv, FocusInv, Once, FocusKnown, Urgent, Shared, Elements
  <2>2. TileListsMatch'
    BY <1>2, <1>6, InvTypes DEF TileListsMatch, server
  <2>3. batch' = Tail(batch) /\ dropped' = dropped
    BY <1>6 DEF Done
  <2>4. \A x \in Pending : x.t \in {"ask", "query", "sabotage", "name"} => x \in Pending'
    BY <1>2, <2>3, HandledPending DEF p
  <2>5. \A s \in Units :
          /\ ctl'.selecting = s /\ ~switched
          /\ ctl.selecting = s => Ending(ctl, Pending) \/ EndingFor(ctl, s)
          => Ending(ctl', Pending') \/ EndingFor(ctl', s)
    <3> HIDE DEF Pending
    <3> QED BY <1>4, <1>6, <2>4, KeepsItself, KeepsSelecting
  <2>6. \A v \in Units : /\ Says(p, v) => units'[v] = Told(p)
                         /\ ~Says(p, v) => units'[v] = units[v]
    BY <1>3, <1>6
  <2>7. onTile' \in [Tiles -> SUBSET Units]
    BY <1>4, <1>6 DEF Holds
  <2> HIDE DEF Inv, Ending, EndingFor, Pending, Says, Told, p, u
  <2> QED BY <1>2, <1>4, <1>6, <2>1, <2>2, <2>3, <2>5, <2>6, <2>7, HandledStep DEF p
<1>7. CASE /\ units[u] # None
           /\ onTile' = ClearTileUnit(onTile, units, u)
           /\ ctl' = ControlUnitKilled(left, units, u)
           /\ \/ ~Has(left.focus, u) /\ units' = [units EXCEPT ![u] = None] /\ Done
              \/ Has(left.focus, u) /\ batch' = <<>> /\ dropped' = TRUE /\ UNCHANGED units
  <2> HIDE DEF p, u
  <2>1. /\ Keeps(ctl, left) /\ left.selecting = ctl.selecting
        /\ left.shared = ctl.shared /\ left.urgent = ctl.urgent
        /\ Once(left.focus) /\ FocusKnown(left, units)
        /\ left.shared # NoTile => Elements(left.focus) = onTile[left.shared] \ {u}
    BY <1>3, <1>4, LeftKeeps
  <2> HIDE DEF left
  <2>2. left \in Control /\ Urgent(left, units)
    BY <1>4, <2>1 DEF Keeps, Urgent
  <2>3. /\ Keeps(left, ctl') /\ Chosen(left, ctl', units)
        /\ Elements(ctl'.urgent) \subseteq Elements(left.urgent) \ {u}
        /\ Once(ctl'.focus) /\ FocusKnown(ctl', units)
        /\ ctl'.shared # NoTile => ctl'.shared = left.shared /\ ctl'.focus = left.focus
        /\ ~Has(left.focus, u) => SameFocus(left, ctl')
    <3>1. left.shared # NoTile => u \notin Elements(left.focus)
      BY <2>1
    <3> QED BY <1>3, <1>4, <1>7, <2>1, <2>2, <3>1, KilledKeeps
  <2>4. /\ onTile' \in [Tiles -> SUBSET Units]
        /\ \A t \in Tiles : onTile'[t] = onTile[t] \ {u}
    BY <1>3, <1>4, <1>7, ListsWithout
  <2>5. Keeps(ctl, ctl') /\ ctl' \in Control
    BY <2>1, <2>3, KeepsTwice DEF Keeps
  <2>6. /\ ctl'.focus \in Seq(Units) /\ left.focus \in Seq(Units) /\ ctl.urgent \in Seq(Units)
        /\ ctl'.shared \in Tiles \cup {NoTile}
    BY <1>4, <2>2, <2>5 DEF Control
  <2>7. Shared(ctl', onTile')
    <3>1. ASSUME ctl'.shared # NoTile PROVE Elements(ctl'.focus) = onTile'[ctl'.shared]
      BY <2>1, <2>3, <2>4, <2>6, <3>1
    <3> QED BY <3>1 DEF Shared
  <2>8. CASE ~Has(left.focus, u) /\ units' = [units EXCEPT ![u] = None] /\ Done
    <3>1. /\ units' \in Mirrors /\ units'[u] = None
          /\ \A v \in Units : v # u => units'[v] = units[v]
      BY <1>3, <1>4, <2>8 DEF Mirrors
    <3>2. batch' = Tail(batch) /\ dropped' = dropped
      BY <2>8 DEF Done
    <3>3. TileListsMatch'
      <4>1. \A t \in Tiles : \A v \in onTile'[t] : units'[v] # None /\ units'[v].tile = t
        BY <1>4, <2>4, <3>1 DEF Holds
      <4>2. ASSUME NEW v \in Units, units'[v] # None, v \notin onTile'[units'[v].tile]
            PROVE  srv'[v] = None
        <5>1. v # u /\ units'[v] = units[v] /\ units[v].tile \in Tiles
          BY <1>4, <3>1, <4>2 DEF Mirrors, UnitRec
        <5> QED BY <1>5, <2>4, <4>2, <5>1, InvTypes DEF TileListsMatch
      <4> QED BY <4>1, <4>2 DEF TileListsMatch
    <3>4. FocusInv'
      <4>1. FocusKnown(ctl', units')
        <5>1. ASSUME NEW i \in DOMAIN ctl'.focus PROVE units'[ctl'.focus[i]] # None
          <6>1. ctl'.focus[i] # u /\ ctl'.focus[i] \in Units
            BY <2>3, <2>6, <2>8 DEF SameFocus, Has
          <6> QED BY <2>3, <3>1, <6>1 DEF FocusKnown
        <5> QED BY <5>1 DEF FocusKnown
      <4>2. Urgent(ctl', units')
        <5>1. \A v \in Elements(ctl.urgent) : v \in Units
          BY <2>6 DEF Elements
        <5> HIDE DEF Elements
        <5> QED BY <1>4, <2>1, <2>3, <3>1, <5>1 DEF Urgent
      <4> QED BY <2>3, <2>7, <4>1, <4>2 DEF FocusInv, Once, FocusKnown, Urgent, Shared, Elements
    <3>5. \A x \in Pending : x.t \in {"ask", "query", "sabotage", "name"} => x \in Pending'
      BY <1>2, <3>2, HandledPending DEF p
    <3>6. \A s \in Units :
            /\ ctl'.selecting = s /\ ~switched
            /\ ctl.selecting = s => Ending(ctl, Pending) \/ EndingFor(ctl, s)
            => Ending(ctl', Pending') \/ EndingFor(ctl', s)
      <4> HIDE DEF Pending
      <4> QED BY <2>5, <3>5, KeepsSelecting
    <3>7. \A v \in Units : /\ Says(p, v) => units'[v] = Told(p)
                           /\ ~Says(p, v) => units'[v] = units[v]
      BY <1>3, <3>1
    <3>8. /\ \A s \in Units : ctl'.selecting = s /\ ctl.selecting # s =>
                units[s] # None /\ Wants(units[s])
          /\ ctl'.restart => ctl.restart
      BY <2>1, <2>3, <2>5, NoUnitIsNoUnit DEF Chosen, Keeps
    <3> HIDE DEF Inv, Ending, EndingFor, Pending, Says, Told, Wants
    <3> QED BY <1>2, <2>4, <2>5, <3>1, <3>2, <3>3, <3>4, <3>6, <3>7, <3>8, HandledStep DEF p
  <2>9. CASE Has(left.focus, u) /\ batch' = <<>> /\ dropped' = TRUE /\ UNCHANGED units
    <3>1. TypeInv'
      <4>1. batch' \in Seq(Packets)
        BY <2>9
      <4> QED BY <1>2, <2>4, <2>5, <2>9, <4>1 DEF Inv, MirrorInv, TypeInv, TypeOK, server
    <3>2. TileListsMatch'
      <4>1. \A t \in Tiles : \A v \in onTile'[t] : units'[v] # None /\ units'[v].tile = t
        BY <1>4, <2>4, <2>9 DEF Holds
      <4>2. ASSUME NEW v \in Units, units'[v] # None, v \notin onTile'[units'[v].tile]
            PROVE  srv'[v] = None
        <5>1. units'[v] = units[v] /\ units[v].tile \in Tiles
          BY <1>4, <2>9, <4>2 DEF Mirrors, UnitRec
        <5>2. CASE v = u
          BY <1>5, <5>2
        <5>3. CASE v # u
          BY <1>5, <2>4, <4>2, <5>1, <5>3, InvTypes DEF TileListsMatch
        <5> QED BY <5>2, <5>3
      <4> QED BY <4>1, <4>2 DEF TileListsMatch
    <3>3. MirrorInv'
      BY <1>2, <2>9, <3>1, <3>2, MirrorThrows DEF Inv, server
    <3>4. FocusInv'
      <4>1. Urgent(ctl', units')
        BY <1>4, <2>1, <2>3, <2>9 DEF Urgent
      <4> QED BY <2>3, <2>7, <2>9, <4>1 DEF FocusInv, Once, FocusKnown, Urgent, Shared, Elements
    <3>5. SelectInv'
      BY <1>2, <2>5, <2>9 DEF Inv, SelectInv, Keeps
    <3> QED BY <3>3, <3>4, <3>5 DEF Inv
  <2> QED BY <1>7, <2>8, <2>9
<1> QED BY <1>1, <1>6, <1>7

LEMMA HandleUnitInfoStep ==
  ASSUME Inv, HandleUnitInfo
  PROVE  Inv'
<1> DEFINE p == Head(batch)
           u == p.u
           r == p.r
           old == units[u]
           left == LeftTile(ctl, units, u)
           told == IF Wants(r) /\ (old = None \/ old.want # r.want)
                   THEN ActionDecisionRequest(left, u) ELSE left
           inside == EnteredTile(told, u, r.tile)
<1>1. /\ Handle("info")
      /\ \/ Throw
         \/ /\ old # None => old.owner = r.owner
            /\ onTile' = UpdateTileUnit(ClearTileUnit(onTile, units, u), u, r.tile)
            /\ ctl' = [EnteredTile(told, u, r.tile) EXCEPT !.taken = @ \ {u}]
            /\ units' = Assign(units, u, r)
            /\ Done
  BY DEF HandleUnitInfo
<1>2. CASE Throw
  BY <1>1, <1>2, ThrowStep
<1>3. CASE /\ old # None => old.owner = r.owner
           /\ onTile' = UpdateTileUnit(ClearTileUnit(onTile, units, u), u, r.tile)
           /\ ctl' = [EnteredTile(told, u, r.tile) EXCEPT !.taken = @ \ {u}]
           /\ units' = Assign(units, u, r)
           /\ Done
  <2>1. /\ batch # <<>> /\ p.t = "info" /\ batch' = Tail(batch) /\ down' = down
        /\ UNCHANGED <<server, down, timers, switched, clicks, dropped>>
    BY <1>1, <1>3 DEF Handle, Done
  <2>2. /\ u \in Units /\ r \in UnitRec /\ Told(p) = r
        /\ \A v \in Units : Says(p, v) <=> v = u
        /\ Pending = Pending' \cup {p}
    BY <2>1, HandledPending, SaysTold
  <2>3. /\ ctl \in Control /\ units \in Mirrors /\ FocusKnown(ctl, units)
        /\ Urgent(ctl, units) /\ Holds(onTile, units) /\ Once(ctl.focus)
        /\ Shared(ctl, onTile)
    BY InvTypes DEF Inv, FocusInv, Holds, TileListsMatch
  <2>4. \A x \in Pending : x.t \in {"ask", "query", "sabotage", "name"} => x \in Pending'
    BY <2>1, <2>2
  <2>5. r # None /\ r.tile \in Tiles
    BY <2>2, UnitControlAssumption DEF UnitRec
  <2> HIDE DEF p, u, r
  <2>6. /\ Keeps(ctl, left) /\ left.selecting = ctl.selecting
        /\ left.shared = ctl.shared /\ left.urgent = ctl.urgent
        /\ Once(left.focus) /\ FocusKnown(left, units)
        /\ left.shared # NoTile => Elements(left.focus) = onTile[left.shared] \ {u}
    BY <2>2, <2>3, LeftKeeps
  <2> HIDE DEF left
  <2>7. left \in Control
    BY <2>6 DEF Keeps
  <2>8. /\ Keeps(left, told) /\ SameFocus(left, told)
        /\ Elements(told.urgent) \subseteq Elements(left.urgent) \cup {u}
        /\ told.selecting = left.selecting \/ (told.selecting = u /\ Wants(r))
    <3>1. CASE Wants(r) /\ (old = None \/ old.want # r.want)
      BY <2>2, <2>7, <3>1, DecisionRequest
    <3>2. CASE ~(Wants(r) /\ (old = None \/ old.want # r.want))
      BY <2>7, <3>2, KeepsItself
    <3> QED BY <3>1, <3>2
  <2> HIDE DEF told
  <2>9. told \in Control /\ Once(told.focus)
    BY <2>6, <2>8 DEF Keeps, SameFocus
  <2>10. /\ Keeps(told, inside) /\ inside.selecting = told.selecting
         /\ inside.shared = told.shared /\ inside.urgent = told.urgent
         /\ Once(inside.focus)
         /\ r.tile = told.shared => Elements(inside.focus) = Elements(told.focus) \cup {u}
         /\ r.tile # told.shared => Elements(inside.focus) = Elements(told.focus)
    <3>1. inside = EnteredTile(told, u, r.tile)
      OBVIOUS
    <3>2. u \in Units /\ r.tile \in Tiles
      BY <2>2, <2>5
    <3> HIDE DEF Keeps, Once, Elements
    <3>3. ASSUME NEW c \in Control, Once(c.focus), NEW t \in Tiles
          PROVE  LET d == EnteredTile(c, u, t)
                 IN  /\ Keeps(c, d) /\ d.selecting = c.selecting
                     /\ d.shared = c.shared /\ d.urgent = c.urgent
                     /\ Once(d.focus)
                     /\ t = c.shared => Elements(d.focus) = Elements(c.focus) \cup {u}
                     /\ t # c.shared => Elements(d.focus) = Elements(c.focus)
      <4> DEFINE d == EnteredTile(c, u, t)
      <4> HIDE DEF d
      <4>1. d = EnteredTile(c, u, t)
        BY DEF d
      <4>2. u \in Units
        BY <3>2
      <4> QED BY <3>3, <4>1, <4>2, EnteredKeeps
    <3> HIDE DEF inside
    <3> QED BY <2>9, <3>1, <3>2, <3>3
  <2>30. /\ Keeps(inside, ctl') /\ SameFocus(inside, ctl') /\ ctl' \in Control
         /\ ctl'.urgent = inside.urgent /\ ctl'.selecting = inside.selecting
    <3> HIDE DEF inside
    <3>1. inside \in Control /\ inside.taken \subseteq Units
      BY <2>10 DEF Keeps, Control
    <3>2. ctl' = [inside EXCEPT !.taken = inside.taken \ {u}]
      BY <1>3 DEF inside
    <3>3. inside.taken \ {u} \subseteq Units
      BY <3>1
    <3> QED BY <3>1, <3>2, <3>3, TakenOnly
  <2> HIDE DEF inside
  <2>11. Keeps(ctl, ctl') /\ ctl' \in Control
    BY <2>6, <2>8, <2>10, <2>30, KeepsTwice
  <2>12. /\ units' = [units EXCEPT ![u] = r] /\ units' \in Mirrors /\ units'[u] = r
         /\ \A v \in Units : v # u => units'[v] = units[v]
    BY <1>3, <2>2, <2>3 DEF Assign, Mirrors
  <2>13. /\ onTile' \in [Tiles -> SUBSET Units]
         /\ \A t \in Tiles : onTile'[t] = IF t = r.tile THEN (onTile[t] \ {u}) \cup {u}
                                          ELSE onTile[t] \ {u}
    <3>1. /\ ClearTileUnit(onTile, units, u) \in [Tiles -> SUBSET Units]
          /\ \A t \in Tiles : ClearTileUnit(onTile, units, u)[t] = onTile[t] \ {u}
      BY <2>2, <2>3, ListsWithout
    <3> DEFINE lists == ClearTileUnit(onTile, units, u)
    <3>2. onTile' = [lists EXCEPT ![r.tile] = lists[r.tile] \cup {u}]
      BY <1>3 DEF UpdateTileUnit
    <3> HIDE DEF lists
    <3>3. /\ lists \in [Tiles -> SUBSET Units]
          /\ \A t \in Tiles : lists[t] = onTile[t] \ {u}
      BY <3>1 DEF lists
    <3> QED BY <2>2, <2>5, <3>2, <3>3
  <2>14. /\ ctl'.focus \in Seq(Units) /\ ctl.urgent \in Seq(Units)
         /\ ctl'.shared \in Tiles \cup {NoTile}
    BY <2>3, <2>11 DEF Control
  <2>15. FocusInv'
    <3>1. FocusKnown(ctl', units')
      <4> SUFFICES ASSUME NEW i \in DOMAIN ctl'.focus
                   PROVE  units'[ctl'.focus[i]] # None
        BY DEF FocusKnown
      <4> DEFINE x == ctl'.focus[i]
      <4>1. x \in Units /\ x \in Elements(ctl'.focus)
        BY <2>14 DEF Elements
      <4> HIDE DEF x
      <4>2. CASE x = u
        BY <2>5, <2>12, <4>2 DEF x
      <4>3. CASE x # u
        <5>1. x \in Elements(left.focus)
          BY <2>8, <2>10, <2>30, <4>1, <4>3 DEF SameFocus
        <5>2. units[x] # None
          BY <2>6, <5>1 DEF FocusKnown, Elements
        <5> QED BY <2>12, <4>1, <4>3, <5>2 DEF x
      <4> QED BY <4>2, <4>3
    <3>2. Urgent(ctl', units')
      <4>1. \A v \in Elements(ctl.urgent) : v \in Units
        BY <2>14 DEF Elements
      <4> HIDE DEF Elements
      <4> QED BY <2>3, <2>5, <2>6, <2>8, <2>10, <2>30, <2>12, <4>1 DEF Urgent
    <3>3. Shared(ctl', onTile')
      <4>1. ASSUME ctl'.shared # NoTile
            PROVE  Elements(ctl'.focus) = onTile'[ctl'.shared]
        <5> DEFINE t == ctl'.shared
        <5>1. /\ t \in Tiles
              /\ Elements(ctl'.focus) = IF r.tile = t THEN (onTile[t] \ {u}) \cup {u}
                                        ELSE onTile[t] \ {u}
          BY <2>6, <2>8, <2>10, <2>14, <2>30, <4>1 DEF SameFocus
        <5> HIDE DEF t
        <5> QED BY <2>13, <5>1 DEF t
      <4> QED BY <4>1 DEF Shared
    <3>4. Once(ctl'.focus)
      BY <2>10, <2>30 DEF SameFocus
    <3> QED BY <3>1, <3>2, <3>3, <3>4 DEF FocusInv, Once, FocusKnown, Urgent, Shared, Elements
  <2>16. \A s \in Units :
          /\ ctl'.selecting = s /\ ~switched
          /\ ctl.selecting = s => Ending(ctl, Pending) \/ EndingFor(ctl, s)
          => Ending(ctl', Pending') \/ EndingFor(ctl', s)
    <3> HIDE DEF Pending
    <3> QED BY <2>4, <2>11, KeepsSelecting
  <2>17. \A v \in Units : /\ Says(p, v) => units'[v] = Told(p)
                          /\ ~Says(p, v) => units'[v] = units[v]
    BY <2>2, <2>12
  <2>18. /\ \A s \in Units : ctl'.selecting = s /\ ctl.selecting # s => p.u = s /\ Wants(p.r)
         /\ ctl'.restart => ctl.restart
         /\ units[p.u] = None \/ units[p.u].owner = p.r.owner
    BY <1>3, <2>6, <2>8, <2>10, <2>11, <2>30 DEF Keeps, SameFocus, u, r
  <2>19. TileListsMatch'
    <3>1. \A t \in Tiles : \A v \in onTile'[t] : units'[v] # None /\ units'[v].tile = t
      BY <2>3, <2>5, <2>12, <2>13 DEF Holds
    <3>2. ASSUME NEW v \in Units, units'[v] # None, v \notin onTile'[units'[v].tile]
          PROVE  srv'[v] = None
      <4>1. v # u
        BY <2>5, <2>12, <2>13, <3>2
      <4>2. units'[v] = units[v] /\ units[v].tile \in Tiles
        BY <2>3, <2>12, <3>2, <4>1 DEF Mirrors, UnitRec
      <4> QED BY <2>1, <2>13, <3>2, <4>1, <4>2, InvTypes DEF TileListsMatch, server
    <3> QED BY <3>1, <3>2 DEF TileListsMatch
  <2> HIDE DEF Inv, Ending, EndingFor, Pending, Says, Told, Wants
  <2> QED BY <2>1, <2>11, <2>12, <2>13, <2>15, <2>16, <2>17, <2>18, <2>19, HandledStep DEF p
<1> QED BY <1>1, <1>2, <1>3

-----------------------------------------------------------------------------
(* Steps of the player in a dialog.                                        *)

LEMMA ClosedDrops ==
  ASSUME ctl \in Control, ctl.dialogs # <<>>
  PROVE  /\ Redraws(ctl, Closed)
         /\ Top \in Elements(ctl.dialogs) /\ Top.u \in Units
         /\ \A d \in Elements(ctl.dialogs) : d # Top => d \in Elements(Closed.dialogs)
<1> DEFINE q == ctl.dialogs
           n == Len(q)
           r == SubSeq(q, 1, n - 1)
<1>1. q \in Seq(Dialogs)
  BY DEF Control
<1>2. /\ n \in Nat \ {0} /\ DOMAIN q = 1..n
      /\ r \in Seq(Dialogs) /\ DOMAIN r = 1..n - 1
      /\ \A i \in 1..n - 1 : r[i] = q[i]
  BY <1>1
<1>3. Closed = [ctl EXCEPT !.dialogs = r] /\ Top = q[n]
  BY DEF Closed, Top
<1>4. n \in DOMAIN q /\ q[n] \in Dialogs
  BY <1>1, <1>2
<1>5. \A i \in DOMAIN q : i # n => i \in DOMAIN r
  BY <1>2
<1> HIDE DEF r, n
<1>6. Closed \in Control /\ Closed.dialogs = r
  BY <1>2, <1>3 DEF Control
<1>7. Redraws(ctl, Closed)
  BY <1>3, <1>6 DEF Redraws
<1>8. ASSUME NEW i \in DOMAIN q, q[i] # Top
      PROVE  q[i] \in Elements(Closed.dialogs)
  <2>1. i \in DOMAIN r /\ r[i] = q[i]
    BY <1>2, <1>3, <1>5, <1>8
  <2> QED BY <1>6, <2>1 DEF Elements
<1> QED BY <1>3, <1>4, <1>7, <1>8 DEF Elements, Dialogs

\* A dialog's step: the focus stays, and the selection is over or goes on as it was.
LEMMA DialogStep ==
  ASSUME Inv, NEW kinds, InDialog(kinds), switched => switched', switched' \in BOOLEAN,
         ctl' \in Control, SameFocus(ctl, ctl'), ctl'.urgent = ctl.urgent,
         ctl'.restart => ctl.restart \/ switched',
         Chosen(ctl, ctl', units),
         ~switched' => \/ Over(ctl')
                       \/ /\ ctl'.selecting = ctl.selecting
                          /\ Ending(ctl, Pending) \/ EndingFor(ctl, ctl.selecting)
                               => Ending(ctl', Pending) \/ EndingFor(ctl', ctl.selecting)
  PROVE  Inv'
<1>1. UNCHANGED <<server, down, batch, dropped, units, onTile, timers, clicks>>
  BY DEF InDialog
<1>2. TypeInv'
  BY <1>1 DEF Inv, MirrorInv, TypeInv, TypeOK, server
<1>3. FocusInv'
  BY <1>1, FocusStayed
<1>4. Wire' = Wire /\ Pending' = Pending
  BY <1>1 DEF Wire, Pending
<1>5. \A u \in Units : Alike(units[u], units[u])
  BY DEF Alike
<1>7. units \in Mirrors
  BY InvTypes
<1> HIDE DEF Inv, TypeInv, FocusInv, Ending, EndingFor, Pending, Wire, Over, Alike, Chosen
<1> QED BY <1>1, <1>2, <1>3, <1>4, <1>5, <1>7, LocalStep DEF server

\* The action selection dialog closes and its selection may be done.
LEMMA SelectCloses ==
  ASSUME Inv, InDialog({"select"}), UNCHANGED switched,
         NEW c \in Control, SameFocus(ctl, c), c.urgent = ctl.urgent,
         Elements(ctl.up) \subseteq Elements(c.up), c.dialogs = Closed.dialogs,
         c.more = ctl.more, c.restart = ctl.restart, c.selecting = ctl.selecting,
         ctl' = ActSelQueueMayBeDone(c, units, Top.u)
  PROVE  Inv'
<1>0. /\ ctl.dialogs # <<>> /\ Top.kind = "select"
      /\ Top = ctl.dialogs[Len(ctl.dialogs)]
  BY DEF InDialog, Top
<1>1. ctl \in Control /\ units \in Mirrors /\ FocusKnown(ctl, units)
  BY InvTypes
<1>2. /\ Top.u \in Units
      /\ \A d \in Elements(ctl.dialogs) : d # Top => d \in Elements(c.dialogs)
  BY <1>0, <1>1, ClosedDrops
<1> HIDE DEF Top
<1>3. /\ Settles(c, ctl', units) /\ (c.more => ctl' = c)
      /\ ~c.more /\ ~c.restart => Over(ctl')
  BY <1>1, <1>2, MayBeDoneSettles
<1>4. ~switched => ~ctl.restart
  BY DEF Inv, SelectInv
<1>5. FocusKnown(c, units)
  BY <1>1 DEF FocusKnown, SameFocus
<1>6. /\ ctl' \in Control /\ SameFocus(ctl, ctl') /\ ctl'.urgent = ctl.urgent
      /\ (ctl'.restart => ctl.restart) /\ Chosen(ctl, ctl', units)
  BY <1>3, <1>5 DEF Settles, SameFocus, Chosen
<1>7. ASSUME c.more, Ending(ctl, Pending) \/ EndingFor(ctl, ctl.selecting)
      PROVE  Ending(c, Pending) \/ EndingFor(c, ctl.selecting)
  <2>1. CASE \E d \in Elements(ctl.dialogs) : d.kind \in {"price", "list", "name"}
    BY <1>0, <1>2, <2>1 DEF Ending
  <2>2. CASE Asking(ctl) \/ \E p \in Pending : p.t \in {"ask", "query", "sabotage", "name"}
    BY <2>2 DEF Ending, Asking
  <2>3. CASE EndingFor(ctl, ctl.selecting)
    BY <1>7, <2>3 DEF EndingFor
  <2> QED BY <1>7, <2>1, <2>2, <2>3 DEF Ending
<1>8. ~switched => \/ Over(ctl')
                   \/ /\ ctl'.selecting = ctl.selecting
                      /\ Ending(ctl, Pending) \/ EndingFor(ctl, ctl.selecting)
                           => Ending(ctl', Pending) \/ EndingFor(ctl', ctl.selecting)
  <2> HIDE DEF Ending, EndingFor, Pending, Over
  <2> QED BY <1>3, <1>4, <1>7
<1>9. switched \in BOOLEAN
  BY DEF Inv, MirrorInv, TypeInv, TypeOK
<1> HIDE DEF Inv, Ending, EndingFor, Pending, Over, Chosen, Settles, InDialog, SameFocus
<1> QED BY <1>6, <1>8, <1>9, DialogStep

LEMMA UndecidedFields ==
  ASSUME NEW c \in Control, NEW d, d = [c EXCEPT !.undecided = TRUE]
  PROVE  /\ d \in Control /\ SameFocus(c, d) /\ d.urgent = c.urgent /\ d.up = c.up
         /\ d.dialogs = c.dialogs /\ d.more = c.more /\ d.restart = c.restart
         /\ d.selecting = c.selecting
BY DEF Control, SameFocus

LEMMA RestartingFields ==
  ASSUME NEW c \in Control, NEW d, d = [c EXCEPT !.restart = TRUE]
  PROVE  /\ d \in Control /\ SameFocus(c, d) /\ d.urgent = c.urgent /\ d.up = c.up
         /\ d.dialogs = c.dialogs /\ d.more = c.more
         /\ d.selecting = c.selecting
BY DEF Control, SameFocus

LEMMA MoreFields ==
  ASSUME NEW c \in Control, NEW d, d = [c EXCEPT !.more = TRUE]
  PROVE  /\ d \in Control /\ SameFocus(c, d) /\ d.urgent = c.urgent /\ d.up = c.up
         /\ d.dialogs = c.dialogs /\ d.restart = c.restart
         /\ d.selecting = c.selecting
BY DEF Control, SameFocus

\* What the dialog that closes leaves.
LEMMA ClosedFields ==
  ASSUME Inv, NEW kinds, InDialog(kinds)
  PROVE  /\ ctl \in Control /\ units \in Mirrors /\ FocusKnown(ctl, units)
         /\ Closed \in Control /\ SameFocus(ctl, Closed)
         /\ Closed.urgent = ctl.urgent /\ Closed.up = ctl.up /\ Closed.more = ctl.more
         /\ Closed.restart = ctl.restart /\ Closed.selecting = ctl.selecting
         /\ Top.u \in Units /\ Top.kind \in kinds /\ switched \in BOOLEAN
         /\ ~switched => ~ctl.restart
         /\ \A d \in Elements(ctl.dialogs) : d # Top => d \in Elements(Closed.dialogs)
<1>1. ctl \in Control /\ units \in Mirrors /\ FocusKnown(ctl, units)
  BY InvTypes
<1>2. ctl.dialogs # <<>> /\ Top.kind \in kinds
  BY DEF InDialog
<1>3. /\ Redraws(ctl, Closed) /\ Top.u \in Units
      /\ \A d \in Elements(ctl.dialogs) : d # Top => d \in Elements(Closed.dialogs)
  BY <1>1, <1>2, ClosedDrops
<1>4. /\ Closed \in Control /\ SameFocus(ctl, Closed)
      /\ Closed.urgent = ctl.urgent /\ Closed.up = ctl.up /\ Closed.more = ctl.more
      /\ Closed.restart = ctl.restart /\ Closed.selecting = ctl.selecting
  <2> HIDE DEF Closed, Redraws
  <2> QED BY <1>1, <1>3, RedrawsFields
<1>5. switched \in BOOLEAN /\ (~switched => ~ctl.restart)
  BY DEF Inv, MirrorInv, TypeInv, TypeOK, SelectInv
<1> HIDE DEF Closed, Top
<1> QED BY <1>1, <1>2, <1>3, <1>4, <1>5

LEMMA ChooseActionStep ==
  ASSUME Inv, ChooseAction
  PROVE  Inv'
<1> DEFINE c == ClearWant(Closed, units, Top.u)
<1>1. InDialog({"select"}) /\ UNCHANGED switched /\ ctl' = ActSelQueueMayBeDone(c, units, Top.u)
  BY DEF ChooseAction
<1>2. /\ Closed \in Control /\ SameFocus(ctl, Closed)
      /\ Closed.urgent = ctl.urgent /\ Closed.up = ctl.up /\ Closed.more = ctl.more
      /\ Closed.restart = ctl.restart /\ Closed.selecting = ctl.selecting
      /\ Top.u \in Units
  BY <1>1, ClosedFields
<1> HIDE DEF Closed, Top
<1>3. Adds(Closed, c)
  BY <1>2, ClearWantAdds
<1> HIDE DEF c
<1>4. /\ c \in Control /\ SameFocus(Closed, c) /\ c.urgent = Closed.urgent
      /\ c.dialogs = Closed.dialogs /\ c.more = Closed.more /\ c.restart = Closed.restart
      /\ c.selecting = Closed.selecting
      /\ Elements(Closed.up) \subseteq Elements(c.up)
  BY <1>2, <1>3, AddsFields DEF Adds
<1>5. SameFocus(ctl, c)
  BY <1>2, <1>4 DEF SameFocus
<1> HIDE DEF Inv, InDialog, SameFocus, Elements
<1>6. /\ c.urgent = ctl.urgent /\ Elements(ctl.up) \subseteq Elements(c.up)
      /\ c.more = ctl.more /\ c.restart = ctl.restart /\ c.selecting = ctl.selecting
  BY <1>2, <1>4
<1> QED BY <1>1, <1>4, <1>5, <1>6, SelectCloses

LEMMA WaitStep ==
  ASSUME Inv, Wait
  PROVE  Inv'
<1> DEFINE c == [Closed EXCEPT !.undecided = TRUE]
<1>1. InDialog({"select"}) /\ UNCHANGED switched /\ ctl' = ActSelQueueMayBeDone(c, units, Top.u)
  BY DEF Wait
<1>2. /\ Closed \in Control /\ SameFocus(ctl, Closed)
      /\ Closed.urgent = ctl.urgent /\ Closed.up = ctl.up /\ Closed.more = ctl.more
      /\ Closed.restart = ctl.restart /\ Closed.selecting = ctl.selecting
  BY <1>1, ClosedFields
<1> HIDE DEF Closed, Top, c
<1>3. /\ c \in Control /\ SameFocus(Closed, c) /\ c.urgent = Closed.urgent /\ c.up = Closed.up
      /\ c.dialogs = Closed.dialogs /\ c.more = Closed.more /\ c.restart = Closed.restart
      /\ c.selecting = Closed.selecting
  BY <1>2, UndecidedFields DEF c
<1>4. SameFocus(ctl, c)
  BY <1>2, <1>3 DEF SameFocus
<1>5. /\ c.urgent = ctl.urgent /\ Elements(ctl.up) \subseteq Elements(c.up)
      /\ c.more = ctl.more /\ c.restart = ctl.restart /\ c.selecting = ctl.selecting
  BY <1>2, <1>3
<1> HIDE DEF Inv, InDialog, SameFocus, Elements
<1> QED BY <1>1, <1>3, <1>4, <1>5, SelectCloses

LEMMA CancelStep ==
  ASSUME Inv, Cancel
  PROVE  Inv'
<1>1. /\ InDialog({"select"}) /\ UNCHANGED switched
      /\ ctl' = ActSelQueueMayBeDone(Closed, units, Top.u)
  BY DEF Cancel
<1>2. /\ Closed \in Control /\ SameFocus(ctl, Closed)
      /\ Closed.urgent = ctl.urgent /\ Closed.up = ctl.up /\ Closed.more = ctl.more
      /\ Closed.restart = ctl.restart /\ Closed.selecting = ctl.selecting
  BY <1>1, ClosedFields
<1> HIDE DEF Inv, InDialog, Closed, Top, SameFocus, Elements
<1> QED BY <1>1, <1>2, SelectCloses

LEMMA ChangeTargetStep ==
  ASSUME Inv, ChangeTarget
  PROVE  Inv'
<1> DEFINE c == [Closed EXCEPT !.restart = TRUE]
<1>1. /\ InDialog({"select"}) /\ switched' = TRUE
      /\ ctl' = ActSelQueueMayBeDone(c, units, Top.u)
  BY DEF ChangeTarget
<1>2. /\ Closed \in Control /\ SameFocus(ctl, Closed)
      /\ Closed.urgent = ctl.urgent /\ Closed.up = ctl.up
      /\ Closed.selecting = ctl.selecting /\ Top.u \in Units
      /\ units \in Mirrors /\ FocusKnown(ctl, units)
  BY <1>1, ClosedFields
<1> HIDE DEF Closed, Top, c
<1>3. /\ c \in Control /\ SameFocus(Closed, c) /\ c.urgent = Closed.urgent /\ c.up = Closed.up
      /\ c.selecting = Closed.selecting
  BY <1>2, RestartingFields DEF c
<1>4. Settles(c, ctl', units)
  BY <1>1, <1>2, <1>3, MayBeDoneSettles
<1>5. /\ ctl' \in Control /\ SameFocus(ctl, ctl') /\ ctl'.urgent = ctl.urgent
      /\ Chosen(ctl, ctl', units)
  BY <1>2, <1>3, <1>4 DEF Settles, SameFocus, Chosen, FocusKnown
<1> HIDE DEF Inv, InDialog, Ending, EndingFor, Pending, Over, Chosen, SameFocus
<1> QED BY <1>1, <1>5, DialogStep

\* A question is answered or cancelled: the selection is done.
LEMMA QuestionCloses ==
  ASSUME Inv, NEW kinds, InDialog(kinds), UNCHANGED switched,
         NEW c, Adds(Closed, c), ctl' = ActSelQueueDone(c, units, Top.u)
  PROVE  Inv'
<1>1. /\ Closed \in Control /\ SameFocus(ctl, Closed)
      /\ Closed.urgent = ctl.urgent /\ Closed.restart = ctl.restart
      /\ Closed.selecting = ctl.selecting /\ Top.u \in Units
      /\ units \in Mirrors /\ FocusKnown(ctl, units)
      /\ switched \in BOOLEAN /\ (~switched => ~ctl.restart)
  BY ClosedFields
<1> HIDE DEF Closed, Top
<1>2. /\ c \in Control /\ SameFocus(Closed, c) /\ c.urgent = Closed.urgent
      /\ c.restart = Closed.restart /\ c.selecting = Closed.selecting
  BY <1>1, AddsFields
<1>3. Settles(c, ctl', units) /\ (~c.restart => Over(ctl'))
  BY <1>1, <1>2, DoneSettles
<1>4. /\ ctl' \in Control /\ SameFocus(ctl, ctl') /\ ctl'.urgent = ctl.urgent
      /\ (ctl'.restart => ctl.restart) /\ Chosen(ctl, ctl', units)
  BY <1>1, <1>2, <1>3 DEF Settles, SameFocus, Chosen, FocusKnown
<1>5. ~switched => Over(ctl')
  BY <1>1, <1>2, <1>3
<1> HIDE DEF Inv, InDialog, Ending, EndingFor, Pending, Over, Chosen, SameFocus
<1> QED BY <1>1, <1>4, <1>5, DialogStep

LEMMA AnswerQuestionStep ==
  ASSUME Inv, AnswerQuestion
  PROVE  Inv'
<1>1. /\ InDialog({"price", "list", "name"}) /\ UNCHANGED switched
      /\ ctl' = ActSelQueueDone(ClearWant(Closed, units, Top.u), units, Top.u)
  BY DEF AnswerQuestion
<1>2. Closed \in Control /\ Top.u \in Units
  BY <1>1, ClosedFields
<1> HIDE DEF Closed, Top
<1>3. Adds(Closed, ClearWant(Closed, units, Top.u))
  BY <1>2, ClearWantAdds
<1> HIDE DEF Inv, InDialog, Adds
<1> QED BY <1>1, <1>3, QuestionCloses

LEMMA CancelQuestionStep ==
  ASSUME Inv, CancelQuestion
  PROVE  Inv'
<1>1. /\ InDialog({"price", "list", "name"}) /\ UNCHANGED switched
      /\ ctl' = ActSelQueueDone(Closed, units, Top.u)
  BY DEF CancelQuestion
<1>2. Closed \in Control
  BY <1>1, ClosedFields
<1> HIDE DEF Closed, Top
<1>3. Adds(Closed, Closed)
  BY <1>2 DEF Adds, Control
<1> HIDE DEF Inv, InDialog, Adds
<1> QED BY <1>1, <1>3, QuestionCloses

\* A request is added and all else stays.
SentBy(c, d, k, u) ==
  /\ d \in Control /\ SameFocus(c, d) /\ d.urgent = c.urgent
  /\ d.dialogs = c.dialogs /\ d.restart = c.restart /\ d.selecting = c.selecting
  /\ Elements(c.up) \subseteq Elements(d.up)
  /\ \E q \in Elements(d.up) : q.k = k /\ q.u = u

LEMMA Sent ==
  ASSUME NEW c \in Control, NEW u \in Units,
         NEW k \in {"ask", "query", "sabotage", "name", "unqueue"}
  PROVE  SentBy(c, Send(c, k, u), k, u)
<1> DEFINE q == [k |-> k, u |-> u]
           r == Append(c.up, q)
           d == Send(c, k, u)
<1>1. q \in Requests /\ c.up \in Seq(Requests)
  BY DEF Control, Requests
<1>2. q.k = k /\ q.u = u
  OBVIOUS
<1>3. d = [c EXCEPT !.up = r]
  BY DEF Send
<1> HIDE DEF q, d
<1>4. r \in Seq(Requests) /\ Elements(r) = Elements(c.up) \cup {q}
  BY <1>1, Appended
<1> HIDE DEF r
<1>5. /\ d \in Control /\ d.up = r /\ SameFocus(c, d) /\ d.urgent = c.urgent
      /\ d.dialogs = c.dialogs /\ d.restart = c.restart /\ d.selecting = c.selecting
  BY <1>3, <1>4 DEF Control, Requests, SameFocus
<1>6. SentBy(c, d, k, u)
  BY <1>2, <1>4, <1>5 DEF SentBy
<1> QED BY <1>6 DEF d

LEMMA ChooseWithQuestionStep ==
  ASSUME Inv, ChooseWithQuestion
  PROVE  Inv'
<1>1. InDialog({"select"}) /\ UNCHANGED switched
  BY DEF ChooseWithQuestion
<1>2. PICK k \in {"query", "sabotage", "name"} :
        ctl' = [Send(Closed, k, Top.u) EXCEPT !.more = TRUE]
  BY DEF ChooseWithQuestion
<1>3. /\ Top = ctl.dialogs[Len(ctl.dialogs)] /\ Top.kind = "select"
  BY <1>1 DEF InDialog, Top
<1>4. /\ Closed \in Control /\ SameFocus(ctl, Closed)
      /\ Closed.urgent = ctl.urgent /\ Closed.up = ctl.up
      /\ Closed.restart = ctl.restart
      /\ Closed.selecting = ctl.selecting /\ Top.u \in Units
      /\ switched \in BOOLEAN
      /\ \A d \in Elements(ctl.dialogs) : d # Top => d \in Elements(Closed.dialogs)
  BY <1>1, ClosedFields
<1> DEFINE c == Send(Closed, k, Top.u)
<1> HIDE DEF Closed, Top
<1>5. k \in {"ask", "query", "sabotage", "name", "unqueue"}
  BY <1>2
<1>6. ctl' = [c EXCEPT !.more = TRUE]
  BY <1>2
<1> HIDE DEF c
<1>7. /\ c \in Control /\ SameFocus(Closed, c) /\ c.urgent = Closed.urgent
      /\ c.dialogs = Closed.dialogs /\ c.restart = Closed.restart
      /\ c.selecting = Closed.selecting
      /\ Elements(Closed.up) \subseteq Elements(c.up)
      /\ \E q \in Elements(c.up) : q.k = k /\ q.u = Top.u
  <2>1. Closed \in Control /\ Top.u \in Units
    BY <1>4
  <2>2. SentBy(Closed, c, k, Top.u)
    BY <1>5, <2>1, Sent, Zenon DEF c
  <2> QED BY <2>2 DEF SentBy
<1>8. /\ ctl' \in Control /\ SameFocus(c, ctl') /\ ctl'.urgent = c.urgent /\ ctl'.up = c.up
      /\ ctl'.dialogs = c.dialogs /\ ctl'.restart = c.restart /\ ctl'.selecting = c.selecting
  BY <1>6, <1>7, MoreFields
<1>9. /\ SameFocus(ctl, ctl') /\ ctl'.urgent = ctl.urgent /\ (ctl'.restart => ctl.restart)
      /\ ctl'.selecting = ctl.selecting /\ Chosen(ctl, ctl', units)
  BY <1>4, <1>7, <1>8 DEF SameFocus, Chosen
<1>10. /\ Elements(ctl.up) \subseteq Elements(ctl'.up)
       /\ \E q \in Elements(ctl'.up) : q.k = k /\ q.u = Top.u
       /\ \A d \in Elements(ctl.dialogs) : d # Top => d \in Elements(ctl'.dialogs)
  BY <1>4, <1>7, <1>8
<1>11. ASSUME Ending(ctl, Pending) \/ EndingFor(ctl, ctl.selecting)
       PROVE  Ending(ctl', Pending) \/ EndingFor(ctl', ctl.selecting)
  <2> HIDE DEF Elements, Pending
  <2>1. CASE Ending(ctl, Pending)
    BY <1>3, <1>10, <2>1 DEF Ending, Asking
  <2>2. CASE \E x \in Elements(ctl.up) : x.k \in {"sabotage", "name"} /\ x.u = ctl.selecting
    BY <1>10, <2>2 DEF EndingFor
  <2>3. CASE Top = [kind |-> "select", u |-> ctl.selecting]
    <3>1. Top.u = ctl.selecting
      BY <2>3
    <3> QED BY <1>2, <1>10, <3>1 DEF Ending, EndingFor, Asking
  <2> QED BY <1>3, <1>11, <2>1, <2>2, <2>3 DEF EndingFor
<1> HIDE DEF Inv, InDialog, Ending, EndingFor, Pending, Over, Chosen, SameFocus
<1> QED BY <1>1, <1>4, <1>8, <1>9, <1>11, DialogStep

LEMMA ChooseStealStep ==
  ASSUME Inv, ChooseSteal
  PROVE  Inv'
<1> DEFINE c == Open(Closed, "list", Top.u)
           it == [kind |-> "list", u |-> Top.u]
<1>1. InDialog({"select"}) /\ UNCHANGED switched /\ ctl' = [c EXCEPT !.more = TRUE]
  BY DEF ChooseSteal, OpenList
<1>2. /\ Closed \in Control /\ SameFocus(ctl, Closed)
      /\ Closed.urgent = ctl.urgent
      /\ Closed.restart = ctl.restart
      /\ Closed.selecting = ctl.selecting /\ Top.u \in Units
      /\ switched \in BOOLEAN
  BY <1>1, ClosedFields
<1> HIDE DEF Closed, Top
<1>3. /\ Redraws(Closed, c)
      /\ Elements(c.dialogs) = Elements(Closed.dialogs) \cup {it}
  <2>1. "list" \in Kinds
    BY DEF Kinds
  <2>2. /\ Redraws(Closed, c)
        /\ Elements(c.dialogs) = Elements(Closed.dialogs) \cup {it}
        /\ c.dialogs # <<>> /\ c.dialogs[Len(c.dialogs)] = it
    BY <1>2, <2>1, OpenOpens, Zenon
  <2> QED BY <2>2, Zenon
<1> HIDE DEF c
<1>4. /\ c \in Control /\ SameFocus(Closed, c) /\ c.urgent = Closed.urgent
      /\ c.restart = Closed.restart /\ c.selecting = Closed.selecting
  BY <1>2, <1>3, RedrawsFields
<1>5. /\ ctl' \in Control /\ SameFocus(c, ctl') /\ ctl'.urgent = c.urgent
      /\ ctl'.dialogs = c.dialogs /\ ctl'.restart = c.restart /\ ctl'.selecting = c.selecting
  BY <1>1, <1>4, MoreFields
<1>6. /\ SameFocus(ctl, ctl') /\ ctl'.urgent = ctl.urgent /\ (ctl'.restart => ctl.restart)
      /\ ctl'.selecting = ctl.selecting /\ Chosen(ctl, ctl', units)
  BY <1>2, <1>4, <1>5 DEF SameFocus, Chosen
<1>7. Ending(ctl', Pending)
  <2>1. it \in Elements(ctl'.dialogs) /\ it.kind = "list"
    BY <1>3, <1>5
  <2> QED BY <2>1 DEF Ending
<1> HIDE DEF Inv, InDialog, Ending, EndingFor, Pending, Over, Chosen, SameFocus
<1> QED BY <1>1, <1>2, <1>5, <1>6, <1>7, DialogStep

LEMMA DialogStepsKeep ==
  ASSUME Inv, DialogSteps
  PROVE  Inv'
BY ChooseActionStep, ChooseWithQuestionStep, ChooseStealStep, WaitStep, ChangeTargetStep,
   CancelStep, AnswerQuestionStep, CancelQuestionStep DEF DialogSteps

-----------------------------------------------------------------------------
(* Steps of the player on the map, and the timers.                         *)

\* No packet moves and the mirror changes in what its units do only.
LEMMA MapStep ==
  ASSUME Inv, UNCHANGED <<server, down, batch, dropped, onTile, switched>>,
         clicks' \in 0..MaxClicks, timers' \in [update: Nat, advance: Nat],
         units' \in Mirrors, \A u \in Units : Alike(units'[u], units[u]),
         FocusInv', Keeps(ctl, ctl'),
         NEW us \in Mirrors, \A u \in Units : Alike(us[u], units[u]), Chosen(ctl, ctl', us)
  PROVE  Inv'
<1>1. TypeInv'
  BY DEF Inv, MirrorInv, TypeInv, TypeOK, server, Mirrors, Keeps
<1>2. Wire' = Wire /\ Pending' = Pending
  BY DEF Wire, Pending
<1>3. ctl'.restart => ctl.restart
  BY DEF Keeps
<1>4. ASSUME ctl'.selecting = ctl.selecting,
             Ending(ctl, Pending) \/ EndingFor(ctl, ctl.selecting)
      PROVE  Ending(ctl', Pending) \/ EndingFor(ctl', ctl.selecting)
  <2> HIDE DEF Pending, Ending, EndingFor
  <2> QED BY <1>4, KeepsEnding
<1>5. Over(ctl') \/ ctl'.selecting = ctl.selecting
  BY DEF Keeps, Over
<1> HIDE DEF Inv, TypeInv, FocusInv, Ending, EndingFor, Pending, Wire, Over, Alike, Chosen
<1> QED BY <1>1, <1>2, <1>3, <1>4, <1>5, LocalStep DEF server

LEMMA AlikeNone ==
  ASSUME NEW us, NEW ws, \A u \in Units : Alike(ws[u], us[u])
  PROVE  \A u \in Units : us[u] # None <=> ws[u] # None
BY DEF Alike

\* The focus moves by one of the chains of control.ts.
LEMMA MovesStep ==
  ASSUME Inv, UNCHANGED <<server, down, batch, dropped, onTile, switched>>,
         clicks' \in 0..MaxClicks, timers' \in [update: Nat, advance: Nat],
         units' \in Mirrors, \A u \in Units : Alike(units'[u], units[u]),
         NEW us \in Mirrors, \A u \in Units : Alike(us[u], units[u]),
         Moves(ctl, ctl', us)
  PROVE  Inv'
<1>1. Keeps(ctl, ctl') /\ Chosen(ctl, ctl', us) /\ ctl' \in Control
  BY DEF Moves, Keeps
<1>2. \A u \in Units : /\ us[u] # None => units'[u] # None
                       /\ units[u] # None => units'[u] # None
  BY AlikeNone
<1>3. FocusInv'
  BY <1>1, <1>2, FocusMoved
<1> HIDE DEF Inv, FocusInv, Alike, Chosen, Keeps, Moves
<1> QED BY <1>1, <1>3, MapStep

LEMMA AlikeItself ==
  ASSUME NEW us
  PROVE  \A u \in Units : Alike(us[u], us[u])
BY DEF Alike

LEMMA OnMapFrame ==
  ASSUME Inv, OnMap
  PROVE  /\ UNCHANGED <<server, down, batch, dropped, onTile, switched>>
         /\ clicks' \in 0..MaxClicks
         /\ timers \in [update: Nat, advance: Nat]
         /\ ctl \in Control /\ units \in Mirrors /\ Urgent(ctl, units)
<1>1. clicks \in 0..MaxClicks /\ MaxClicks \in Nat
  BY UnitControlAssumption DEF Inv, MirrorInv, TypeInv, TypeOK
<1>2. clicks' \in 0..MaxClicks
  BY <1>1 DEF OnMap
<1> QED BY <1>2, InvTypes DEF OnMap, Inv, MirrorInv, TypeInv

LEMMA MovesThenAdds ==
  ASSUME NEW c, NEW d \in Control, NEW e, NEW us, Moves(c, d, us), Adds(d, e)
  PROVE  Moves(c, e, us)
<1>1. /\ e \in Control /\ SameFocus(d, e) /\ e.urgent = d.urgent
      /\ e.dialogs = d.dialogs /\ e.more = d.more /\ e.restart = d.restart
      /\ e.undecided = d.undecided /\ e.selecting = d.selecting
      /\ Elements(d.up) \subseteq Elements(e.up)
  BY AddsFields DEF Adds
<1>2. Keeps(c, e)
  BY <1>1 DEF Moves, Keeps, Asking
<1> QED BY <1>1, <1>2 DEF Moves, Chosen, SameFocus

LEMMA CancelledAlike ==
  ASSUME NEW r \in UnitRec
  PROVE  /\ Cancelled(r) \in UnitRec /\ Alike(Cancelled(r), r)
         /\ r # None /\ Cancelled(r) # None
<1>1. "ready" \in Status /\ None \notin UnitRec
  BY UnitControlAssumption
<1>2. CASE r.st \in {"auto", "orders"}
  BY <1>1, <1>2 DEF Cancelled, UnitRec, Alike
<1>3. CASE r.st \notin {"auto", "orders"}
  BY <1>1, <1>3 DEF Cancelled, Alike
<1> QED BY <1>1, <1>2, <1>3

LEMMA ClickOwnUnitStep ==
  ASSUME Inv, NEW u \in Units, ClickOwnUnit(u)
  PROVE  Inv'
<1>1. OnMap /\ units[u] # None /\ timers' = timers /\ units' = units
  BY DEF ClickOwnUnit
<1>2. /\ UNCHANGED <<server, down, batch, dropped, onTile, switched>>
      /\ clicks' \in 0..MaxClicks /\ timers' \in [update: Nat, advance: Nat]
      /\ ctl \in Control /\ units \in Mirrors
  BY <1>1, OnMapFrame
<1>3. /\ Moves(ctl, SetUnitFocus(ctl, units, u), units)
      /\ SetUnitFocus(ctl, units, u) \in Control
  BY <1>1, <1>2, SetUnitFocusMoves DEF Moves, Keeps
<1>4. ctl' = SetUnitFocus(ctl, units, u)
  BY DEF ClickOwnUnit
<1> HIDE DEF Inv, Alike, Moves
<1> QED BY <1>1, <1>2, <1>3, <1>4, AlikeItself, MovesStep

LEMMA ClickNothingStep ==
  ASSUME Inv, ClickNothing
  PROVE  Inv'
<1>1. OnMap /\ timers' = timers /\ units' = units /\ ctl' = ClearFocus(ctl)
  BY DEF ClickNothing
<1>2. /\ UNCHANGED <<server, down, batch, dropped, onTile, switched>>
      /\ clicks' \in 0..MaxClicks /\ timers' \in [update: Nat, advance: Nat]
      /\ ctl \in Control /\ units \in Mirrors
  BY <1>1, OnMapFrame
<1>3. Moves(ctl, ctl', units)
  BY <1>1, <1>2, ClearFocusMoves
<1> HIDE DEF Inv, Alike, Moves
<1> QED BY <1>1, <1>2, <1>3, AlikeItself, MovesStep

LEMMA KeyUnitWaitStep ==
  ASSUME Inv, KeyUnitWait
  PROVE  Inv'
<1> DEFINE q == ctl.waiting \o ctl.focus
           c == [ctl EXCEPT !.waiting = q]
<1>1. OnMap /\ timers' = timers /\ units' = units /\ ctl' = AdvanceUnitFocus(c, units)
  BY DEF KeyUnitWait
<1>2. /\ UNCHANGED <<server, down, batch, dropped, onTile, switched>>
      /\ clicks' \in 0..MaxClicks /\ timers' \in [update: Nat, advance: Nat]
      /\ ctl \in Control /\ units \in Mirrors /\ Urgent(ctl, units)
  BY <1>1, OnMapFrame
<1>3. q \in Seq(Units)
  BY <1>2 DEF Control
<1> HIDE DEF q
<1>4. /\ c \in Control /\ SameFocus(ctl, c) /\ c.urgent = ctl.urgent
      /\ c.dialogs = ctl.dialogs /\ c.more = ctl.more /\ c.restart = ctl.restart
      /\ c.undecided = ctl.undecided /\ c.selecting = ctl.selecting /\ c.up = ctl.up
  BY <1>2, <1>3 DEF Control, SameFocus
<1> HIDE DEF c
<1>5. Moves(c, ctl', units)
  BY <1>1, <1>2, <1>4, AdvanceMoves DEF Urgent
<1>6. Moves(ctl, ctl', units)
  BY <1>4, <1>5 DEF Moves, Keeps, Chosen, SameFocus
<1> HIDE DEF Inv, Alike, Moves
<1> QED BY <1>1, <1>2, <1>6, AlikeItself, MovesStep

LEMMA KeyUnitNoOrdersStep ==
  ASSUME Inv, KeyUnitNoOrders
  PROVE  Inv'
<1> DEFINE done(r) == IF Awake(r) THEN [r EXCEPT !.st = "done"] ELSE r
<1>1. /\ OnMap /\ timers' = timers /\ ctl' = AdvanceUnitFocus(ctl, units')
      /\ units' = [v \in Units |-> IF v \in Focused /\ units[v] # None
                                   THEN done(units[v]) ELSE units[v]]
  BY DEF KeyUnitNoOrders, Changed
<1>2. /\ UNCHANGED <<server, down, batch, dropped, onTile, switched>>
      /\ clicks' \in 0..MaxClicks /\ timers' \in [update: Nat, advance: Nat]
      /\ ctl \in Control /\ units \in Mirrors /\ Urgent(ctl, units)
  BY <1>1, OnMapFrame
<1>3. ASSUME NEW r \in UnitRec
      PROVE  done(r) \in UnitRec /\ Alike(done(r), r)
  <2>1. "done" \in Status /\ None \notin UnitRec
    BY UnitControlAssumption
  <2>2. CASE Awake(r)
    BY <2>1, <2>2 DEF UnitRec, Alike
  <2>3. CASE ~Awake(r)
    BY <2>1, <2>3 DEF Alike
  <2> QED BY <2>2, <2>3
<1> HIDE DEF done
<1>4. units' \in Mirrors /\ \A v \in Units : Alike(units'[v], units[v])
  <2>1. ASSUME NEW v \in Units
        PROVE  units'[v] \in UnitRec \cup {None} /\ Alike(units'[v], units[v])
    BY <1>1, <1>2, <1>3, AlikeItself DEF Mirrors
  <2> QED BY <1>1, <2>1 DEF Mirrors
<1>5. Urgent(ctl, units')
  <2>1. \A v \in Elements(ctl.urgent) : v \in Units
    BY <1>2 DEF Control, Elements
  <2> QED BY <1>2, <1>4, <2>1, AlikeNone DEF Urgent
<1>6. Moves(ctl, ctl', units')
  BY <1>1, <1>2, <1>4, <1>5, AdvanceMoves
<1> HIDE DEF Inv, Alike, Moves
<1> QED BY <1>1, <1>2, <1>4, <1>6, MovesStep

LEMMA KeyUnitOrderStep ==
  ASSUME Inv, KeyUnitOrder
  PROVE  Inv'
<1> DEFINE due == Only(ctl.focus, {v \in Units : units[v] # None /\ Wants(units[v])})
           more == [i \in DOMAIN due |-> [k |-> "unqueue", u |-> due[i]]]
           q == ctl.up \o more
           c == Taken(ctl, Focused)
<1>1. /\ OnMap
      /\ units' = [v \in Units |-> IF v \in Focused /\ units[v] # None
                                   THEN Cancelled(units[v]) ELSE units[v]]
      /\ ctl' = [c EXCEPT !.up = q]
      /\ timers' = [timers EXCEPT !.update = timers.update + 1]
  <2>1. c.up = ctl.up
    BY InvTypes DEF Taken, Control
  <2> QED BY <2>1 DEF KeyUnitOrder, Changed, ClearWants
<1>2. /\ UNCHANGED <<server, down, batch, dropped, onTile, switched>>
      /\ clicks' \in 0..MaxClicks /\ timers \in [update: Nat, advance: Nat]
      /\ ctl \in Control /\ units \in Mirrors
  BY <1>1, OnMapFrame
<1>3. timers' \in [update: Nat, advance: Nat]
  BY <1>1, <1>2
<1>4. units' \in Mirrors /\ \A v \in Units : Alike(units'[v], units[v])
  <2>1. ASSUME NEW v \in Units
        PROVE  units'[v] \in UnitRec \cup {None} /\ Alike(units'[v], units[v])
    BY <1>1, <1>2, CancelledAlike, AlikeItself DEF Mirrors
  <2> QED BY <1>1, <2>1 DEF Mirrors
<1>5. q \in Seq(Requests) /\ Elements(ctl.up) \subseteq Elements(q)
  <2>1. ctl.focus \in Seq(Units) /\ ctl.up \in Seq(Requests)
    BY <1>2 DEF Control, Requests
  <2>2. due \in Seq(Units)
    BY <2>1, OnlyKeeps
  <2> HIDE DEF due
  <2>3. more \in Seq(Requests)
    <3>1. \A i \in DOMAIN due : due[i] \in Units
      BY <2>2
    <3>2. \A i \in DOMAIN due : [k |-> "unqueue", u |-> due[i]] \in Requests
      BY <3>1 DEF Requests
    <3>3. DOMAIN due = 1..Len(due) /\ Len(due) \in Nat
      BY <2>2
    <3>4. more \in [1..Len(due) -> Requests]
      BY <3>2, <3>3
    <3> HIDE DEF more
    <3> QED BY <3>3, <3>4
  <2> HIDE DEF more
  <2> QED BY <2>1, <2>3, ElementsOfConcat
<1>6. c \in Control /\ Moves(ctl, c, units) /\ c.up = ctl.up
  <2>1. Focused \subseteq Units
    BY <1>2 DEF Control, Focused
  <2>2. c.up = ctl.up
    BY <1>2 DEF Taken, Control
  <2> QED BY <1>2, <2>1, <2>2, TakenMoves
<1> HIDE DEF q, c
<1>7. Adds(c, ctl')
  <2>1. ctl'.up = q /\ ctl' \in Control
    BY <1>1, <1>5, <1>6 DEF Control, Requests
  <2> QED BY <1>1, <1>5, <1>6, <2>1 DEF Adds
<1>8. Moves(ctl, ctl', units)
  BY <1>6, <1>7, MovesThenAdds
<1> HIDE DEF Inv, Alike, Moves
<1> QED BY <1>2, <1>3, <1>4, <1>8, AlikeItself, MovesStep

LEMMA KeyUnitExploreStep ==
  ASSUME Inv, KeyUnitExplore
  PROVE  Inv'
<1>1. /\ OnMap /\ units' = units /\ ctl' = ctl
      /\ timers' = [timers EXCEPT !.update = timers.update + 1]
  BY DEF KeyUnitExplore
<1>2. /\ UNCHANGED <<server, down, batch, dropped, onTile, switched>>
      /\ clicks' \in 0..MaxClicks /\ timers \in [update: Nat, advance: Nat]
      /\ ctl \in Control /\ units \in Mirrors
  BY <1>1, OnMapFrame
<1>3. timers' \in [update: Nat, advance: Nat]
  BY <1>1, <1>2
<1>4. Moves(ctl, ctl', units)
  BY <1>1, <1>2, MovesNowhere
<1> HIDE DEF Inv, Alike, Moves
<1> QED BY <1>1, <1>2, <1>3, <1>4, AlikeItself, MovesStep

LEMMA KeyUnitUnloadStep ==
  ASSUME Inv, KeyUnitUnload
  PROVE  Inv'
<1>1. OnMap /\ timers' = timers /\ ctl.focus # <<>>
  BY DEF KeyUnitUnload
<1>2. /\ UNCHANGED <<server, down, batch, dropped, onTile, switched>>
      /\ clicks' \in 0..MaxClicks /\ timers' \in [update: Nat, advance: Nat]
      /\ ctl \in Control /\ units \in Mirrors
  BY <1>1, OnMapFrame
<1>3. PICK u \in onTile[units[ctl.focus[Len(ctl.focus)]].tile] :
        /\ units' = [v \in Units |-> IF v \in {u} /\ units[v] # None
                                     THEN Cancelled(units[v]) ELSE units[v]]
        /\ ctl' = ClearWant(Taken(ctl, {u}), units, u)
  BY DEF KeyUnitUnload, Changed
<1>4. u \in Units
  <2>1. Len(ctl.focus) \in DOMAIN ctl.focus /\ ctl.focus \in Seq(Units)
    BY <1>1, <1>2 DEF Control
  <2> DEFINE last == ctl.focus[Len(ctl.focus)]
  <2>2. last \in Units /\ units[last] # None
    BY <2>1, InvTypes DEF FocusKnown
  <2> HIDE DEF last
  <2>3. units[last].tile \in Tiles
    BY <1>2, <2>2 DEF Mirrors, UnitRec
  <2> QED BY <1>3, <2>3, InvTypes DEF last
<1>5. units' \in Mirrors /\ \A v \in Units : Alike(units'[v], units[v])
  <2>1. ASSUME NEW v \in Units
        PROVE  units'[v] \in UnitRec \cup {None} /\ Alike(units'[v], units[v])
    BY <1>2, <1>3, CancelledAlike, AlikeItself DEF Mirrors
  <2> QED BY <1>3, <2>1 DEF Mirrors
<1>6. Moves(ctl, ctl', units)
  <2>1. Taken(ctl, {u}) \in Control /\ Moves(ctl, Taken(ctl, {u}), units)
    BY <1>2, <1>4, TakenMoves
  <2> HIDE DEF Moves
  <2> QED BY <1>3, <1>4, <2>1, ClearWantAdds, MovesThenAdds
<1> HIDE DEF Inv, Alike, Moves
<1> QED BY <1>2, <1>5, <1>6, AlikeItself, MovesStep

LEMMA KeyUnitLoadStep ==
  ASSUME Inv, KeyUnitLoad
  PROVE  Inv'
<1>1. /\ OnMap /\ units' = units /\ ctl' = ctl
      /\ timers' = [timers EXCEPT !.advance = timers.advance + 1]
  BY DEF KeyUnitLoad
<1>2. /\ UNCHANGED <<server, down, batch, dropped, onTile, switched>>
      /\ clicks' \in 0..MaxClicks /\ timers \in [update: Nat, advance: Nat]
      /\ ctl \in Control /\ units \in Mirrors
  BY <1>1, OnMapFrame
<1>3. timers' \in [update: Nat, advance: Nat]
  BY <1>1, <1>2
<1>4. Moves(ctl, ctl', units)
  BY <1>1, <1>2, MovesNowhere
<1> HIDE DEF Inv, Alike, Moves
<1> QED BY <1>1, <1>2, <1>3, <1>4, AlikeItself, MovesStep

LEMMA TimersStep ==
  ASSUME Inv, TimerUpdatesFocus \/ TimerAdvancesFocus
  PROVE  Inv'
<1>1. /\ UNCHANGED <<server, down, batch, dropped, units, onTile, switched, clicks>>
      /\ \/ timers.update > 0 /\ timers' = [timers EXCEPT !.update = timers.update - 1]
         \/ timers.advance > 0 /\ timers' = [timers EXCEPT !.advance = timers.advance - 1]
      /\ ctl' \in {UpdateUnitFocus(ctl, units), AdvanceUnitFocus(ctl, units)}
  BY DEF TimerUpdatesFocus, TimerAdvancesFocus
<1>2. /\ timers \in [update: Nat, advance: Nat] /\ clicks \in 0..MaxClicks
      /\ ctl \in Control /\ units \in Mirrors /\ Urgent(ctl, units)
  BY InvTypes DEF Inv, MirrorInv, TypeInv, TypeOK
<1>3. timers' \in [update: Nat, advance: Nat]
  BY <1>1, <1>2
<1>4. Moves(ctl, ctl', units)
  BY <1>1, <1>2, UpdateMoves, AdvanceMoves
<1> HIDE DEF Inv, Alike, Moves
<1> QED BY <1>1, <1>2, <1>3, <1>4, AlikeItself, MovesStep

LEMMA ClickForeignTileStep ==
  ASSUME Inv, NEW t \in Tiles, ClickForeignTile(t)
  PROVE  Inv'
<1> DEFINE S == onTile[t]
           n == Cardinality(S)
<1>1. OnMap /\ units' = units /\ timers' = timers
  BY DEF ClickForeignTile
<1>2. /\ UNCHANGED <<server, down, batch, dropped, onTile, switched>>
      /\ clicks' \in 0..MaxClicks /\ timers \in [update: Nat, advance: Nat]
      /\ ctl \in Control /\ units \in Mirrors /\ Urgent(ctl, units)
  BY <1>1, OnMapFrame
<1>3. PICK list \in [1..n -> S] :
        /\ {list[i] : i \in DOMAIN list} = S
        /\ ctl' = [ctl EXCEPT !.focus = list, !.shared = t]
  BY DEF ClickForeignTile
<1>4. S \subseteq Units /\ \A u \in S : units[u] # None
  BY InvTypes DEF TileListsMatch
<1>5. IsFiniteSet(S) /\ n \in Nat
  BY <1>4, UnitControlAssumption, FS_Subset, FS_CardinalityType
<1>6. list \in Seq(Units) /\ DOMAIN list = 1..n
  <2>1. S \subseteq Units
    BY <1>4
  <2> HIDE DEF S, n
  <2>2. list \in [1..n -> Units]
    BY <1>3, <2>1
  <2> QED BY <1>3, <1>5, <2>2
<1>7. Once(list)
  <2>1. IsFiniteSet(1..n) /\ Cardinality(1..n) = n
    BY <1>5, FS_Interval
  <2>2. list \in Surjection(1..n, S)
    BY <1>3, <1>6 DEF Surjection
  <2>3. list \in Injection(1..n, S)
    BY <2>1, <2>2, FS_SurjSameCardinalityImpliesInj
  <2> QED BY <1>6, <2>3 DEF Injection, IsInjective, Once
<1> HIDE DEF n
<1>8. /\ ctl'.focus = list /\ ctl'.shared = t
      /\ ctl'.dialogs = ctl.dialogs /\ ctl'.more = ctl.more /\ ctl'.restart = ctl.restart
      /\ ctl'.undecided = ctl.undecided /\ ctl'.selecting = ctl.selecting
      /\ ctl'.up = ctl.up /\ ctl'.urgent = ctl.urgent /\ ctl' \in Control
  BY <1>2, <1>3, <1>6 DEF Control
<1>9. Keeps(ctl, ctl') /\ Chosen(ctl, ctl', units)
  BY <1>8 DEF Keeps, Chosen
<1>10. FocusInv'
  <2>1. FocusKnown(ctl', units')
    <3>1. \A i \in DOMAIN list : units[list[i]] # None
      BY <1>3, <1>4, <1>6
    <3> QED BY <1>1, <1>8, <3>1 DEF FocusKnown
  <2>2. Urgent(ctl', units')
    BY <1>1, <1>2, <1>8 DEF Urgent
  <2>3. Shared(ctl', onTile')
    BY <1>2, <1>3, <1>8 DEF Shared, Elements
  <2> QED BY <1>7, <1>8, <2>1, <2>2, <2>3
          DEF FocusInv, Once, FocusKnown, Urgent, Shared, Elements
<1> HIDE DEF Inv, Alike, Keeps, Chosen, FocusInv
<1> QED BY <1>1, <1>2, <1>9, <1>10, AlikeItself, MapStep

LEMMA MapStepsKeep ==
  ASSUME Inv, MapSteps
  PROVE  Inv'
BY ClickOwnUnitStep, ClickForeignTileStep, ClickNothingStep, KeyUnitWaitStep,
   KeyUnitNoOrdersStep, KeyUnitOrderStep, KeyUnitExploreStep, KeyUnitLoadStep,
   KeyUnitUnloadStep, TimersStep DEF MapSteps

-----------------------------------------------------------------------------
(* The theorems.                                                           *)

LEMMA ServerStepsKeep ==
  ASSUME Inv, ServerSteps
  PROVE  Inv'
BY ServerChangesStep, ServerCreatesStep, ServerRemovesStep, ServerBeginsTurnStep,
   ServerAnswersStep DEF ServerSteps

LEMMA HandlerStepsKeep ==
  ASSUME Inv, HandlerSteps
  PROVE  Inv'
BY DeliverStep, HandleUnitRemoveStep, HandleUnitInfoStep, HandleUnitActionsStep,
   HandleUnitActionAnswerStep, HandleCitySabotageListStep, HandleCityNameSuggestionStep,
   HandleBeginTurnStep DEF HandlerSteps

LEMMA InitInv ==
  ASSUME Init
  PROVE  Inv
<1>1. /\ srv = Start /\ units = Start /\ onTile = Listed(Start)
      /\ down = <<>> /\ batch = <<>> /\ dropped = FALSE
      /\ timers = [update |-> 0, advance |-> 0]
      /\ born = {u \in Units : Start[u] # None}
      /\ switched = FALSE /\ served = 0 /\ clicks = 0
  BY DEF Init
<1>2. /\ ctl.focus = <<>> /\ ctl.shared = NoTile
      /\ ctl.urgent = <<>> /\ ctl.selecting = NoUnit /\ ~ctl.restart
      /\ ctl \in Control
  BY DEF Init, Control
<1>3. Start \in [Units -> UnitRec \cup {None}]
  BY UnitControlAssumption
<1>4. Wire = <<>> /\ DOMAIN Wire = {} /\ Elements(Wire) = {}
  <2>1. Wire = <<>>
    BY <1>1 DEF Wire
  <2> QED BY <2>1 DEF Elements
<1>5. MirrorInv
  <2>1. TypeInv
    <3>1. Listed(Start) \in [Tiles -> SUBSET Units]
      BY DEF Listed
    <3>2. MaxServed \in Nat /\ MaxClicks \in Nat
      BY UnitControlAssumption
    <3>3. TypeOK
      <4>1. /\ srv \in [Units -> UnitRec \cup {None}]
            /\ units \in [Units -> UnitRec \cup {None}]
        BY <1>1, <1>3
      <4>2. onTile \in [Tiles -> SUBSET Units] /\ born \subseteq Units
        BY <1>1, <3>1
      <4>3. dropped \in BOOLEAN /\ switched \in BOOLEAN
        BY <1>1
      <4>4. served \in 0..MaxServed /\ clicks \in 0..MaxClicks
        BY <1>1, <3>2
      <4> QED BY <1>2, <4>1, <4>2, <4>3, <4>4 DEF TypeOK
    <3>4. timers \in [update: Nat, advance: Nat]
      BY <1>1
    <3>5. down \in Seq(Packets) /\ batch \in Seq(Packets)
      BY <1>1
    <3> QED BY <3>3, <3>4, <3>5 DEF TypeInv
  <2>2. TileListsMatch
    <3>1. \A u \in Units : Start[u] # None => Start[u].tile \in Tiles
      BY <1>3 DEF UnitRec
    <3> QED BY <1>1, <3>1 DEF TileListsMatch, Listed
  <2>3. Known(Wire, units, srv)
    BY <1>1, <1>4, UnitControlAssumption DEF Known, Lawful
  <2>4. RemovesLast(Wire)
    BY <1>4 DEF RemovesLast
  <2>5. Tells(Wire, units, srv)
    BY <1>1, <1>4 DEF Tells, Agree
  <2>6. Gone(Wire, srv)
    BY <1>4 DEF Gone
  <2> QED BY <2>1, <2>2, <2>3, <2>4, <2>5, <2>6 DEF MirrorInv
<1>6. FocusInv
  <2>1. Elements(ctl.focus) = {} /\ Elements(ctl.urgent) = {} /\ DOMAIN ctl.focus = {}
    BY <1>2 DEF Elements
  <2> QED BY <1>2, <2>1 DEF FocusInv, Once, FocusKnown, Urgent, Shared
<1>7. SelectInv
  BY <1>2, NoUnitIsNoUnit DEF SelectInv
<1> QED BY <1>5, <1>6, <1>7 DEF Inv

LEMMA StutterKeeps ==
  ASSUME Inv, UNCHANGED vars
  PROVE  Inv'
<1>1. UNCHANGED <<srv, born, down, batch, dropped, units, onTile, ctl, timers, switched, served,
                  clicks>>
  BY DEF vars
<1>2. MirrorInv'
  BY <1>1 DEF Inv, MirrorInv, TypeInv, TypeOK, TileListsMatch, Known, Gone, RemovesLast, Tells, Wire
<1>3. FocusInv'
  BY <1>1 DEF Inv, FocusInv
<1>4. SelectInv'
  BY <1>1 DEF Inv, SelectInv, Own, Kept, Pending, Ending, EndingFor, Asking
<1> QED BY <1>2, <1>3, <1>4 DEF Inv

LEMMA NextInv ==
  ASSUME Inv, [Next]_vars
  PROVE  Inv'
BY ServerStepsKeep, HandlerStepsKeep, DialogStepsKeep, MapStepsKeep, StutterKeeps DEF Next

\* The inductive invariant: the mirror, the focus and the action selection of
\* control.ts and packhandlers.ts stay consistent with what the server has sent.
THEOREM UnitsInvariant == Spec => []Inv
<1>1. Init => Inv
  BY InitInv
<1>2. Inv /\ [Next]_vars => Inv'
  BY NextInv
<1> QED BY <1>1, <1>2, PTL DEF Spec

\* Whatever exception cut a handler short, a tile's list holds only mirrored units
\* that are on it, and misses none but a unit that the server has removed; and once
\* all that was sent is handled and no exception dropped a packet, the mirror of
\* handle_unit_info and handle_unit_remove is the server's state.
THEOREM MirrorIsSound == Spec => []MirrorSound
<1>1. Inv => MirrorSound
  <2> SUFFICES ASSUME Inv
               PROVE  TypeOK /\ TileListsMatch /\ MirrorAgrees
    BY DEF MirrorSound
  <2>1. ASSUME down = <<>>, batch = <<>>, ~dropped, NEW u \in Units
        PROVE  Agree(units[u], srv[u])
    <3>1. Wire = <<>>
      BY <2>1 DEF Wire
    <3>2. DOMAIN Wire = {}
      BY <3>1
    <3> QED BY <2>1, <3>2 DEF Inv, MirrorInv, Tells
  <2>2. MirrorAgrees
    BY <2>1 DEF MirrorAgrees, Agree
  <2> QED BY <2>2 DEF Inv, MirrorInv, TypeInv
<1> QED BY <1>1, UnitsInvariant, PTL

\* No unit is twice in the focus of control.ts, a focus that is a tile's own list
\* holds what the tile holds, the urgent queue holds only mirrored units, and a
\* selection in progress has a question on its way or on the screen.
THEOREM FocusIsSound == Spec => []FocusSound
<1>1. Inv => FocusSound
  <2> SUFFICES ASSUME Inv
               PROVE  FocusOnce /\ SharedFollows /\ UrgentMirrored /\ SelectionUnderway
    BY DEF FocusSound
  <2>1. /\ Once(ctl.focus) /\ Urgent(ctl, units) /\ Shared(ctl, onTile)
        /\ ctl.focus \in Seq(Units)
        /\ ctl.selecting \in Units \cup {NoUnit}
    BY InvTypes DEF Inv, FocusInv, Control
  <2>2. FocusOnce
    <3> DEFINE n == Len(ctl.focus)
    <3>1. n \in Nat /\ DOMAIN ctl.focus = 1..n /\ ctl.focus \in [1..n -> Focused]
      BY <2>1 DEF Focused
    <3>2. ctl.focus \in Bijection(1..n, Focused)
      BY <2>1, <3>1 DEF Focused, Once, Bijection, Injection, Surjection, IsInjective
    <3>3. ExistsBijection(1..n, Focused)
      BY <3>2 DEF ExistsBijection
    <3>4. IsFiniteSet(1..n) /\ Cardinality(1..n) = n
      BY <3>1, FS_Interval
    <3> HIDE DEF n
    <3>5. Cardinality(Focused) = n
      BY <3>3, <3>4, FS_Bijection
    <3> QED BY <3>5 DEF FocusOnce, n
  <2>3. SharedFollows
    BY <2>1 DEF SharedFollows, Shared, Elements, Focused
  <2>4. UrgentMirrored
    <3>1. ctl.urgent \in Seq(Units)
      BY InvTypes DEF Control
    <3> QED BY <2>1, <3>1 DEF UrgentMirrored, Urgent, Elements
  <2>5. SelectionUnderway
    <3> SUFFICES ASSUME ctl.selecting # NoUnit, Kept(ctl.selecting), ~switched, ~dropped
                 PROVE  Underway
      BY DEF SelectionUnderway
    <3>1. Ending(ctl, Pending) \/ EndingFor(ctl, ctl.selecting)
      <4> HIDE DEF Kept, Ending, EndingFor, Pending
      <4> QED BY <2>1 DEF Inv, SelectInv
    <3>2. ASSUME NEW d \in Elements(ctl.dialogs) PROVE ctl.dialogs # <<>>
      BY DEF Elements
    <3>3. (\E q \in Elements(ctl.up) : q.k \in {"ask", "query", "sabotage", "name"}) => Underway
      BY DEF Elements, Underway
    <3> HIDE DEF Elements, Pending
    <3> QED BY <3>1, <3>2, <3>3 DEF Ending, EndingFor, Asking, Underway
  <2> QED BY <2>2, <2>3, <2>4, <2>5
<1> QED BY <1>1, UnitsInvariant, PTL

\* A new turn (handle_begin_turn) brings a unit into focus when one is free to move.
THEOREM TurnsBringWork == Spec => TurnsFindWork
<1>1. Inv /\ [Next]_vars => [HandleBeginTurn => TurnFindsWork]_vars
  <2> SUFFICES ASSUME Inv, HandleBeginTurn, Eligible(ctl, units, TRUE) # {}
               PROVE  ctl'.focus # <<>>
    BY DEF TurnFindsWork
  <2>1. ctl \in Control /\ units \in Mirrors /\ Urgent(ctl, units)
    BY InvTypes
  <2> QED BY <2>1, UpdateMoves DEF HandleBeginTurn
<1> QED BY <1>1, UnitsInvariant, PTL DEF Spec, TurnsFindWork

-----------------------------------------------------------------------------
(* The window's names.                                                     *)

CONSTANTS Rulesets, MaxValues, MaxRulesets
VARIABLES name, stage, own, win, store, holds, used, loads, rules, extras, consts

Window == INSTANCE Globals

Described == [rule_name : STRING, causes : SUBSET STRING]
Arrived == [rule_name : STRING, causes : SUBSET STRING, road : Nat, base : Nat]

\* A ruleset is a sequence of extras; two values may be made before the game starts.
GlobalsParams ==
  /\ Rulesets \in Seq(Seq(Described))
  /\ MaxValues \in Nat /\ MaxValues >= 2

\* The tables a module has a variable of its own for, which it does not assign
\* when a ruleset is announced.
Abandoned == name \in Window!Exported /\ name # "terrain_control"

\* What the state is made of: a value is never newer than the last one made.
WindowTyped ==
  /\ name \in Window!Names
  /\ stage \in {"modules", "evaluated", "registered", "stored", "running"}
  /\ used \in 1..MaxValues /\ own \in 0..used /\ win \in 0..used
  /\ holds \in [0..MaxValues -> SUBSET Nat]
  /\ loads \in Nat
  /\ rules = 0 \/ rules \in DOMAIN Rulesets
  /\ extras \in Seq(Arrived)

\* Earlier the game a name has one value, or two if the window's was made apart.
Started ==
  /\ stage # "running" => rules = 0 /\ used <= 2
  /\ stage = "modules" => used = 1
  /\ stage \in {"evaluated", "registered"} => used = 1 \/ win # 0
  /\ stage \in {"modules", "evaluated"} => own = IF name \in Window!Exported THEN 1 ELSE 0
  /\ stage \in {"registered", "stored"} /\ name \in Window!Exported => win = own /\ own = 1

\* A store is there once main.ts has made it, and its accessor answers for it.
StoresBound ==
  /\ stage \in {"stored", "running"} /\ name \in Window!LateStores => win # 0
  /\ stage = "running" /\ name \in Window!Accessors => win = store

\* What nobody assigns is one object from the registration on.
KeptShared ==
  stage \in {"registered", "stored", "running"} /\ name \in Window!Kept => own = win

\* A table holds the current ruleset only; a copy a module was left with when the
\* first ruleset came is not the window's any more, and stays empty.
TablesFresh ==
  name \in Window!RulesetTables =>
    /\ rules = 0 => \A v \in 0..MaxValues : holds[v] = {}
    /\ holds[win] \subseteq {loads}
    /\ name \in Window!Exported => holds[own] \subseteq {loads}
    /\ Abandoned => holds[own] = {} /\ (rules > 0 => win # own)

\* A constant names an extra that has arrived.
ConstsFit ==
  \A c \in consts : c[2] \in DOMAIN extras /\ Window!ConstOf(extras[c[2]]) = c[1]

\* The extras with a cause up to one of them; each attached part has their number,
\* and parts are attached to the first of them, none left out.
Causing(s, cause, i) == {j \in 1..i : cause \in s[j].causes}
Numbered(s, cause) ==
  \A i \in DOMAIN s : s[i][cause] # 0 =>
    /\ cause \in s[i].causes
    /\ s[i][cause] = Cardinality(Causing(s, cause, i))
InOrder(s, cause) ==
  \A i, j \in DOMAIN s : i < j /\ cause \in s[i].causes /\ s[j][cause] # 0 => s[i][cause] # 0

PartsFit == \A cause \in {"road", "base"} : Numbered(extras, cause) /\ InOrder(extras, cause)

WindowInv ==
  WindowTyped /\ Started /\ StoresBound /\ KeptShared /\ TablesFresh /\ ConstsFit /\ PartsFit

LEMMA WindowCardinality ==
  ASSUME NEW S
  PROVE  Window!Cardinality(S) = Cardinality(S)
  BY DEF Window!Cardinality, Cardinality

\* The constant of an extra depends on its name only.
LEMMA ConstOfName ==
  ASSUME NEW a, NEW b, a.rule_name = b.rule_name
  PROVE  Window!ConstOf(a) = Window!ConstOf(b)
  BY Zenon DEF Window!ConstOf

\* The names that are filled in place by whoever uses them.
KeptNames ==
  {"sound_path", "speech_enabled", "roads", "bases", "research_data",
   "debug_client_speed_list", "map_select_setting_enabled", "mouse_touch_started_on_unit",
   "mapview", "mapview_slide", "explosion_anim_map", "cities", "city_trade_routes",
   "_cma_val_sliders", "_cma_min_sliders", "_cma_happy_slider", "hotseat_players",
   "hotseat_pwd", "auto_center_on_unit", "draw_focus_unit", "draw_fog_of_war", "draw_units",
   "popup_actor_arrival", "server_settings", "current_government", "government_list",
   "spaceship_info", "loadTimerId"}

\* The tables of a ruleset that no module exports.
Unexported == {"ruleset_summary", "ruleset_description", "game_rules", "improvements",
               "nation_groups"}

\* One module's exports: nothing filled in place is assigned, and the tables that
\* come in one packet are not among them.
LEMMA ExportsApart ==
  ASSUME NEW m \in Window!Modules
  PROVE  /\ m.kept \subseteq KeptNames
         /\ m.mine \cap KeptNames = {} /\ m.others \cap KeptNames = {}
         /\ m.mine \cap Unexported = {} /\ m.others \cap Unexported = {}
         /\ m.kept \cap Unexported = {}
<1>. USE DEF Window!Exports, KeptNames, Unexported
<1>1. CASE m = Window!FromSounds
  BY <1>1 DEF Window!FromSounds
<1>2. CASE m = Window!FromSpeech
  BY <1>2 DEF Window!FromSpeech
<1>3. CASE m = Window!FromControl
  BY <1>3 DEF Window!FromControl
<1>4. CASE m = Window!FromMessages
  BY <1>4 DEF Window!FromMessages
<1>5. CASE m = Window!FromOverview
  BY <1>5 DEF Window!FromOverview
<1>6. CASE m = Window!FromPregame
  BY <1>6 DEF Window!FromPregame
<1>7. CASE m = Window!FromPlayer
  BY <1>7 DEF Window!FromPlayer
<1>8. CASE m = Window!FromUnitType
  BY <1>8 DEF Window!FromUnitType
<1>9. CASE m = Window!FromConnection
  BY <1>9 DEF Window!FromConnection
<1>10. CASE m = Window!FromPackhandlers
  BY <1>10 DEF Window!FromPackhandlers
<1>11. CASE m = Window!FromMapctrl
  BY <1>11 DEF Window!FromMapctrl
<1>12. CASE m = Window!FromMapviewCommon
  BY <1>12 DEF Window!FromMapviewCommon
<1>13. CASE m = Window!FromTilespec
  BY <1>13 DEF Window!FromTilespec
<1>14. CASE m = Window!FromCityDialog
  BY <1>14 DEF Window!FromCityDialog
<1>15. CASE m = Window!FromCma
  BY <1>15 DEF Window!FromCma
<1>16. CASE m = Window!FromDiplomacy
  BY <1>16 DEF Window!FromDiplomacy
<1>17. CASE m = Window!FromGovernmentDialog
  BY <1>17 DEF Window!FromGovernmentDialog
<1>18. CASE m = Window!FromHallOfFame
  BY <1>18 DEF Window!FromHallOfFame
<1>19. CASE m = Window!FromHotseat
  BY <1>19 DEF Window!FromHotseat
<1>20. CASE m = Window!FromOptions
  BY <1>20 DEF Window!FromOptions
<1>21. CASE m = Window!FromRates
  BY <1>21 DEF Window!FromRates
<1>22. CASE m = Window!FromSpacerace
  BY <1>22 DEF Window!FromSpacerace
<1>23. CASE m = Window!FromTechDialog
  BY <1>23 DEF Window!FromTechDialog
<1>24. CASE m = Window!FromReplay
  BY <1>24 DEF Window!FromReplay
<1>25. CASE m = Window!FromSavegame
  BY <1>25 DEF Window!FromSavegame
<1>. QED
  BY <1>1, <1>2, <1>3, <1>4, <1>5, <1>6, <1>7, <1>8, <1>9, <1>10, <1>11, <1>12, <1>13,
     <1>14, <1>15, <1>16, <1>17, <1>18, <1>19, <1>20, <1>21, <1>22, <1>23, <1>24, <1>25 DEF Window!Modules

\* What is filled in place is assigned by nobody.
LEMMA KeptUnassigned ==
  ASSUME NEW n \in Window!Kept
  PROVE  n \in KeptNames /\ n \notin Window!Mine /\ n \notin Window!Others
<1>1. PICK m \in Window!Modules : n \in m.kept
  BY DEF Window!Kept
<1>2. n \in KeptNames
  BY <1>1, ExportsApart
<1>3. n \notin Window!Mine
  BY <1>2, ExportsApart DEF Window!Mine
<1>4. n \notin Window!Others
  BY <1>2, ExportsApart DEF Window!Others
<1>. QED
  BY <1>2, <1>3, <1>4

LEMMA NotExported ==
  ASSUME NEW n \in Unexported
  PROVE  n \notin Window!Exported
<1>1. n \notin Window!Mine
  BY ExportsApart DEF Window!Mine
<1>2. n \notin Window!Others
  BY ExportsApart DEF Window!Others
<1>3. n \notin Window!Kept
  BY ExportsApart DEF Window!Kept
<1>. QED
  BY <1>1, <1>2, <1>3 DEF Window!Exported

\* The tables of a ruleset are not among what is filled in place for ever.
LEMMA KeptNoTable ==
  ASSUME NEW n \in Window!Kept
  PROVE  n \notin Window!RulesetTables
<1>1. n \in KeptNames
  BY KeptUnassigned
<1>2. n \notin Window!Replaced
  BY <1>1 DEF KeptNames, Window!Replaced
<1>3. n \notin Window!Nulled /\ n # "improvements"
  BY <1>1 DEF KeptNames, Window!Nulled
<1>. QED
  BY <1>2, <1>3 DEF Window!RulesetTables

LEMMA KeptExported ==
  ASSUME NEW n \in Window!Kept
  PROVE  n \in Window!Exported
  BY DEF Window!Exported

\* What a ruleset forgets is no store, and improvements are not replaced.
LEMMA TablesApart ==
  ASSUME NEW n
  PROVE  /\ n \in Window!Nulled => n \notin Window!LateStores /\ n \notin Window!Replaced
         /\ n \in Window!Nulled => n \in Unexported /\ n # "improvements"
         /\ n \in Window!Nulled => n # "terrain_control"
         /\ "improvements" \notin Window!Replaced
         /\ "terrain_control" \in Window!Replaced
         /\ "nation_groups" \in Window!Replaced
         /\ "terrain_control" \in Window!RulesetTables
         /\ "nation_groups" \in Window!RulesetTables
<1>1. n \in Window!Nulled => n \notin Window!LateStores
  BY DEF Window!Nulled, Window!LateStores
<1>2. n \in Window!Nulled => n \notin Window!Replaced
  BY DEF Window!Nulled, Window!Replaced
<1>3. n \in Window!Nulled => n \in Unexported /\ n # "improvements" /\ n # "terrain_control"
  BY DEF Window!Nulled, Unexported
<1>4. /\ "improvements" \notin Window!Replaced
      /\ "terrain_control" \in Window!Replaced
      /\ "nation_groups" \in Window!Replaced
  BY DEF Window!Replaced
<1>. QED
  BY <1>1, <1>2, <1>3, <1>4 DEF Window!RulesetTables

\* A part that goes to the first extra that lacks one keeps the numbers and the order.
LEMMA PartGoesFirst ==
  ASSUME NEW s \in Seq(Arrived), NEW t \in Seq(Arrived), NEW cause \in {"road", "base"},
         Numbered(s, cause), InOrder(s, cause),
         NEW i \in DOMAIN s, cause \in s[i].causes, s[i][cause] = 0,
         \A k \in DOMAIN s : cause \in s[k].causes /\ s[k][cause] = 0 => i <= k,
         Len(t) = Len(s),
         \A j \in DOMAIN s : t[j].causes = s[j].causes,
         \A j \in DOMAIN s : j # i => t[j][cause] = s[j][cause],
         t[i][cause] = Cardinality({j \in DOMAIN s : s[j][cause] # 0}) + 1
  PROVE  Numbered(t, cause) /\ InOrder(t, cause)
<1>. DEFINE Placed == {j \in DOMAIN s : s[j][cause] # 0}
            Earlier == {j \in 1..(i - 1) : cause \in s[j].causes}
<1>1. DOMAIN s = 1..Len(s) /\ DOMAIN t = DOMAIN s /\ i \in Nat /\ i >= 1 /\ Len(s) \in Nat
  OBVIOUS
<1>2. Placed = Earlier
  <2>1. ASSUME NEW j \in Placed PROVE j \in Earlier
    <3>1. j \in DOMAIN s /\ s[j][cause] # 0
      OBVIOUS
    <3>2. cause \in s[j].causes
      BY <3>1 DEF Numbered
    <3>3. ~(i < j)
      BY <3>1 DEF InOrder
    <3>4. j # i
      BY <3>1
    <3>. QED
      BY <1>1, <3>1, <3>2, <3>3, <3>4
  <2>2. ASSUME NEW j \in Earlier PROVE j \in Placed
    <3>1. j \in DOMAIN s /\ cause \in s[j].causes /\ ~(i <= j)
      BY <1>1
    <3>. QED
      BY <3>1
  <2>. QED
    BY <2>1, <2>2
<1>3. ASSUME NEW j \in DOMAIN s PROVE Causing(t, cause, j) = Causing(s, cause, j)
  BY <1>1 DEF Causing
<1>4. Causing(s, cause, i) = Earlier \cup {i} /\ i \notin Earlier
  BY <1>1 DEF Causing
<1>5. IsFiniteSet(Earlier)
  <2>1. IsFiniteSet(1..(i - 1))
    BY <1>1, FS_Interval
  <2>. QED
    BY <2>1, FS_Subset
<1>6. Cardinality(Causing(s, cause, i)) = Cardinality(Earlier) + 1
  BY <1>4, <1>5, FS_AddElement
<1>7. Cardinality(Earlier) \in Nat
  BY <1>5, FS_CardinalityType
<1>8. t[i][cause] = Cardinality(Causing(t, cause, i)) /\ t[i][cause] # 0
  <2>1. t[i][cause] = Cardinality(Placed) + 1
    OBVIOUS
  <2>2. t[i][cause] = Cardinality(Earlier) + 1
    BY <2>1, <1>2
  <2>3. Causing(t, cause, i) = Causing(s, cause, i)
    BY <1>3
  <2>. HIDE DEF Earlier, Placed
  <2>. QED
    BY <2>2, <2>3, <1>6, <1>7
<1>9. Numbered(t, cause)
  <2>. SUFFICES ASSUME NEW j \in DOMAIN t, t[j][cause] # 0
                PROVE  cause \in t[j].causes /\ t[j][cause] = Cardinality(Causing(t, cause, j))
    BY DEF Numbered
  <2>1. CASE j = i
    BY <2>1, <1>1, <1>8
  <2>2. CASE j # i
    <3>1. s[j][cause] # 0 /\ j \in DOMAIN s
      BY <2>2, <1>1
    <3>2. cause \in s[j].causes /\ s[j][cause] = Cardinality(Causing(s, cause, j))
      BY <3>1 DEF Numbered
    <3>. QED
      BY <2>2, <3>1, <3>2, <1>3
  <2>. QED
    BY <2>1, <2>2
<1>10. InOrder(t, cause)
  <2>. SUFFICES ASSUME NEW a \in DOMAIN t, NEW b \in DOMAIN t, a < b,
                       cause \in t[a].causes, t[b][cause] # 0
                PROVE  t[a][cause] # 0
    BY DEF InOrder
  <2>1. CASE a = i
    BY <2>1, <1>8
  <2>2. CASE a # i
    <3>1. a \in DOMAIN s /\ b \in DOMAIN s /\ cause \in s[a].causes /\ t[a][cause] = s[a][cause]
      BY <2>2, <1>1
    <3>2. CASE b = i
      BY <3>1, <3>2, <1>1
    <3>3. CASE b # i
      <4>1. s[b][cause] # 0
        BY <3>1, <3>3
      <4>. QED
        BY <3>1, <4>1 DEF InOrder
    <3>. QED
      BY <3>2, <3>3
  <2>. QED
    BY <2>1, <2>2
<1>. QED
  BY <1>9, <1>10

-----------------------------------------------------------------------------
(* The invariant: first the steps that leave the rulesets alone.           *)

LEMMA WindowStarts ==
  ASSUME GlobalsParams, Window!Init
  PROVE  WindowInv
<1>. USE DEF GlobalsParams, Window!Init, Window!None, Window!Initial
<1>1. WindowTyped
  BY DEF WindowTyped
<1>2. Started
  BY DEF Started
<1>3. StoresBound
  BY DEF StoresBound
<1>4. KeptShared
  BY DEF KeptShared
<1>5. TablesFresh
  BY DEF TablesFresh, Abandoned
<1>6. ConstsFit
  BY DEF ConstsFit
<1>7. PartsFit
  BY DEF PartsFit, Numbered, InOrder
<1>. QED
  BY <1>1, <1>2, <1>3, <1>4, <1>5, <1>6, <1>7 DEF WindowInv

\* A step that leaves the extras alone keeps what is said of them.
LEMMA ExtrasAlone ==
  ASSUME ConstsFit, PartsFit, UNCHANGED <<extras, consts>>
  PROVE  ConstsFit' /\ PartsFit'
<1>1. ConstsFit'
  BY DEF ConstsFit
<1>2. PartsFit'
  BY DEF PartsFit, Numbered, InOrder
<1>. QED
  BY <1>1, <1>2

LEMMA EvaluateKeeps ==
  ASSUME GlobalsParams, WindowInv, Window!Evaluate
  PROVE  WindowInv'
<1>. USE DEF GlobalsParams, WindowInv, Window!Evaluate, Window!Game, Window!Fresh
<1>1. WindowTyped'
  BY DEF WindowTyped, Started
<1>2. Started'
  BY DEF WindowTyped, Started
<1>3. StoresBound' /\ KeptShared'
  BY DEF StoresBound, KeptShared
<1>4. TablesFresh'
  BY DEF WindowTyped, Started, TablesFresh, Abandoned
<1>5. ConstsFit' /\ PartsFit'
  BY ExtrasAlone
<1>. QED
  BY <1>1, <1>2, <1>3, <1>4, <1>5

LEMMA RegisterKeeps ==
  ASSUME GlobalsParams, WindowInv, Window!Register
  PROVE  WindowInv'
<1>. USE DEF GlobalsParams, WindowInv, Window!Register, Window!Game
<1>1. WindowTyped'
  BY DEF WindowTyped
<1>2. Started'
  BY DEF WindowTyped, Started
<1>3. StoresBound'
  BY DEF StoresBound
<1>4. KeptShared'
  BY KeptExported DEF KeptShared
<1>5. TablesFresh'
  BY DEF WindowTyped, Started, TablesFresh, Abandoned
<1>6. ConstsFit' /\ PartsFit'
  BY ExtrasAlone
<1>. QED
  BY <1>1, <1>2, <1>3, <1>4, <1>5, <1>6

LEMMA MakeStoresKeeps ==
  ASSUME GlobalsParams, WindowInv, Window!MakeStores
  PROVE  WindowInv'
<1>. USE DEF GlobalsParams, WindowInv, Window!MakeStores, Window!Game, Window!Fresh, Window!None
<1>1. WindowTyped'
  BY DEF WindowTyped, Started
<1>2. Started'
  BY DEF WindowTyped, Started
<1>3. StoresBound'
  BY DEF StoresBound, WindowTyped
<1>4. KeptShared'
  BY KeptExported DEF KeptShared, Started
<1>5. TablesFresh'
  BY DEF WindowTyped, Started, TablesFresh, Abandoned
<1>6. ConstsFit' /\ PartsFit'
  BY ExtrasAlone
<1>. QED
  BY <1>1, <1>2, <1>3, <1>4, <1>5, <1>6

LEMMA SyncKeeps ==
  ASSUME GlobalsParams, WindowInv, Window!Sync
  PROVE  WindowInv'
<1>. USE DEF GlobalsParams, WindowInv, Window!Sync, Window!Game
<1>1. WindowTyped'
  BY DEF WindowTyped
<1>2. Started'
  BY DEF WindowTyped, Started
<1>3. StoresBound' /\ KeptShared'
  BY DEF StoresBound, KeptShared
<1>4. TablesFresh'
  BY DEF WindowTyped, Started, TablesFresh, Abandoned
<1>5. ConstsFit' /\ PartsFit'
  BY ExtrasAlone
<1>. QED
  BY <1>1, <1>2, <1>3, <1>4, <1>5

LEMMA AssignsKeep ==
  ASSUME GlobalsParams, WindowInv, Window!ModuleAssigns \/ Window!WindowAssigns
  PROVE  WindowInv'
<1>. USE DEF GlobalsParams, WindowInv, Window!ModuleAssigns, Window!WindowAssigns,
             Window!Bind, Window!Game, Window!Fresh
<1>1. WindowTyped'
  BY DEF WindowTyped
<1>2. Started'
  BY DEF WindowTyped, Started
<1>3. StoresBound'
  BY DEF StoresBound, WindowTyped
<1>4. KeptShared'
  BY KeptUnassigned DEF KeptShared
<1>5. TablesFresh'
  BY DEF TablesFresh
<1>6. ConstsFit' /\ PartsFit'
  BY ExtrasAlone
<1>. QED
  BY <1>1, <1>2, <1>3, <1>4, <1>5, <1>6

-----------------------------------------------------------------------------
(* The packets of a ruleset.                                               *)

LEMMA RulesetControlKeeps ==
  ASSUME GlobalsParams, WindowInv, NEW r \in DOMAIN Rulesets, Window!RulesetControl(r)
  PROVE  WindowInv'
<1>. USE DEF GlobalsParams, WindowInv
<1>1. /\ stage = "running" /\ stage' = stage /\ name' = name
      /\ loads' = loads + 1 /\ rules' = r /\ extras' = << >>
      /\ used \in Nat /\ used >= 1 /\ used < MaxValues /\ Window!Fresh = used + 1
      /\ used' \in used..(used + 1)
      /\ own \in 0..used /\ win \in 0..used
      /\ own' = IF name = "terrain_control" THEN used + 1 ELSE own
  BY DEF Window!RulesetControl, Window!Fresh, WindowTyped
<1>2. /\ name \in Window!Replaced => /\ win' = used + 1 /\ used' = used + 1
                                     /\ holds' = [holds EXCEPT ![used + 1] = {}]
      /\ name \in Window!Nulled => win' = 0 /\ holds' = [holds EXCEPT ![0] = {}]
      /\ name = "improvements" => win' = win /\ holds' = [holds EXCEPT ![win] = {}]
      /\ name \notin Window!RulesetTables =>
           win' = win /\ store' = store /\ holds' = [holds EXCEPT ![0] = {}]
      /\ name \in Window!Replaced \cup Window!Nulled /\ name \in Window!Accessors => store' = win'
      /\ name \notin Window!Replaced \cup Window!Nulled => win' = win /\ store' = store
  <2>1. /\ name \in Window!Nulled => name \notin Window!Replaced /\ name # "improvements"
        /\ name = "improvements" => name \notin Window!Replaced /\ name \notin Window!Nulled
        /\ name \notin Window!RulesetTables =>
             name \notin Window!Replaced /\ name \notin Window!Nulled /\ name # "improvements"
    BY TablesApart DEF Window!RulesetTables
  <2>2. CASE name \in Window!Replaced
    BY <1>1, <2>1, <2>2 DEF Window!RulesetControl, Window!Bind
  <2>3. CASE name \in Window!Nulled
    BY <1>1, <2>1, <2>3 DEF Window!RulesetControl, Window!Bind, Window!None
  <2>4. CASE name \notin Window!Replaced /\ name \notin Window!Nulled
    BY <1>1, <2>1, <2>4 DEF Window!RulesetControl, Window!None
  <2>. QED
    BY <2>2, <2>3, <2>4
<1>3. name \in Window!RulesetTables =>
        name \in Window!Replaced \/ name \in Window!Nulled \/ name = "improvements"
  BY DEF Window!RulesetTables
<1>4. name = "terrain_control" => name \in Window!Replaced
  BY TablesApart
<1>5. WindowTyped'
  <2>1. holds' \in [0..MaxValues -> SUBSET Nat]
    BY <1>1, <1>2, <1>3 DEF WindowTyped
  <2>2. win' \in 0..used' /\ used' \in 1..MaxValues /\ own' \in 0..used'
    BY <1>1, <1>2, <1>3, <1>4
  <2>. QED
    BY <1>1, <2>1, <2>2 DEF WindowTyped
<1>6. Started'
  BY <1>1 DEF Started
<1>7. StoresBound'
  <2>1. name \in Window!LateStores => win' # 0
    BY <1>1, <1>2, <1>3, TablesApart DEF StoresBound
  <2>2. name \in Window!Accessors => win' = store'
    BY <1>1, <1>2 DEF StoresBound
  <2>. QED
    BY <1>1, <2>1, <2>2 DEF StoresBound
<1>8. KeptShared'
  BY <1>1, <1>2, <1>4, KeptNoTable, TablesApart DEF KeptShared
<1>9. TablesFresh'
  <2>. SUFFICES ASSUME name \in Window!RulesetTables
                PROVE  /\ rules' # 0
                       /\ holds'[win'] = {}
                       /\ name \in Window!Exported => holds'[own'] = {}
                       /\ Abandoned => holds'[own'] = {} /\ win' # own'
    BY <1>1 DEF TablesFresh, Abandoned
  <2>1. rules' # 0
    BY <1>1
  <2>2. /\ 0 \in 0..MaxValues /\ used + 1 \in 0..MaxValues /\ win \in 0..MaxValues
        /\ own \in 0..MaxValues /\ own # used + 1 /\ holds \in [0..MaxValues -> SUBSET Nat]
    BY <1>1 DEF WindowTyped
  <2>3. holds'[win'] = {}
    BY <1>2, <1>3, <2>2
  <2>4. name \in Window!Exported => name \in Window!Replaced
    BY <1>3, NotExported, TablesApart DEF Unexported
  <2>5. CASE name = "terrain_control"
    BY <2>5, <1>1, <1>2, <1>4, <2>1, <2>3 DEF Abandoned
  <2>6. CASE name # "terrain_control" /\ name \in Window!Exported
    <3>1. holds[own] = {}
      BY <2>6 DEF TablesFresh, Abandoned
    <3>. QED
      BY <3>1, <2>6, <1>1, <1>2, <2>1, <2>2, <2>3, <2>4
  <2>7. CASE name \notin Window!Exported
    BY <2>7, <2>1, <2>3 DEF Abandoned
  <2>. QED
    BY <2>5, <2>6, <2>7
<1>10. ConstsFit'
  <2>1. consts' = {c \in consts : \A i \in DOMAIN extras : c[1] # Window!ConstOf(extras[i])}
    BY DEF Window!RulesetControl, Window!Ids
  <2>2. consts' = {}
    BY <2>1 DEF ConstsFit
  <2>. QED
    BY <2>2 DEF ConstsFit
<1>11. PartsFit'
  BY <1>1 DEF PartsFit, Numbered, InOrder
<1>. QED
  BY <1>5, <1>6, <1>7, <1>8, <1>9, <1>10, <1>11

LEMMA RulesetFillsKeeps ==
  ASSUME GlobalsParams, WindowInv, Window!RulesetFills
  PROVE  WindowInv'
<1>. USE DEF GlobalsParams, WindowInv
<1>1. /\ stage = "running" /\ rules > 0 /\ name \in Window!RulesetTables
      /\ name # "terrain_control" /\ name \notin Window!Nulled
      /\ holds' = [holds EXCEPT ![win] = holds[win] \cup {loads}]
      /\ UNCHANGED <<name, stage, own, win, store, used, loads, rules, extras, consts>>
  BY DEF Window!RulesetFills, Window!Game
<1>2. WindowTyped'
  BY <1>1 DEF WindowTyped
<1>3. Started' /\ StoresBound' /\ KeptShared'
  BY <1>1 DEF Started, StoresBound, KeptShared
<1>4. TablesFresh'
  <2>1. win \in 0..MaxValues /\ own \in 0..MaxValues /\ holds \in [0..MaxValues -> SUBSET Nat]
    BY DEF WindowTyped
  <2>2. holds[win] \subseteq {loads} /\ rules # 0
    BY <1>1 DEF TablesFresh, WindowTyped
  <2>3. name \in Window!Exported => holds[own] = {} /\ win # own
    BY <1>1, <2>2 DEF TablesFresh, Abandoned
  <2>4. holds'[win] \subseteq {loads}
    BY <1>1, <2>1, <2>2
  <2>5. name \in Window!Exported => holds'[own] = {}
    BY <1>1, <2>1, <2>3
  <2>. QED
    BY <1>1, <2>2, <2>3, <2>4, <2>5 DEF TablesFresh, Abandoned
<1>5. ConstsFit' /\ PartsFit'
  BY <1>1, ExtrasAlone
<1>. QED
  BY <1>2, <1>3, <1>4, <1>5

LEMMA RulesetAssignsKeeps ==
  ASSUME GlobalsParams, WindowInv, Window!RulesetAssigns
  PROVE  WindowInv'
<1>. USE DEF GlobalsParams, WindowInv
<1>1. /\ stage = "running" /\ rules > 0 /\ used < MaxValues
      /\ name \in Window!Nulled \cup {"nation_groups", "terrain_control"}
      /\ win' = used + 1 /\ used' = used + 1
      /\ store' = IF name \in Window!Accessors THEN used + 1 ELSE store
      /\ own' = IF name = "terrain_control" THEN used + 1 ELSE own
      /\ holds' = [holds EXCEPT ![used + 1] = {loads}]
      /\ UNCHANGED <<name, stage, loads, rules, extras, consts>>
  BY DEF Window!RulesetAssigns, Window!Game, Window!Bind, Window!Fresh
<1>2. name \in Window!RulesetTables
  BY <1>1, TablesApart DEF Window!RulesetTables
<1>3. WindowTyped'
  BY <1>1 DEF WindowTyped
<1>4. Started'
  BY <1>1 DEF Started
<1>5. StoresBound'
  <2>1. win' # 0
    BY <1>1 DEF WindowTyped
  <2>2. name \in Window!Accessors => win' = store'
    BY <1>1
  <2>. QED
    BY <1>1, <2>1, <2>2 DEF StoresBound
<1>6. KeptShared'
  BY <1>1, <1>2, KeptNoTable DEF KeptShared
<1>7. TablesFresh'
  <2>1. used + 1 \in 0..MaxValues /\ holds \in [0..MaxValues -> SUBSET Nat] /\ rules # 0
    BY <1>1 DEF WindowTyped
  <2>2. holds'[win'] = {loads}
    BY <1>1, <2>1
  <2>3. name \in Window!Exported => name = "terrain_control"
    BY <1>1, NotExported, TablesApart DEF Unexported
  <2>. QED
    BY <1>1, <2>1, <2>2, <2>3 DEF TablesFresh, Abandoned
<1>8. ConstsFit' /\ PartsFit'
  BY <1>1, ExtrasAlone
<1>. QED
  BY <1>3, <1>4, <1>5, <1>6, <1>7, <1>8

\* The next extra: its constant is the only one of its name.
LEMMA RulesetExtraKeeps ==
  ASSUME GlobalsParams, WindowInv, Window!RulesetExtra
  PROVE  WindowInv'
<1>. USE DEF GlobalsParams, WindowInv
<1>. DEFINE id == Len(extras) + 1
            extra == Rulesets[rules][id]
            new == [rule_name |-> extra.rule_name, causes |-> extra.causes, road |-> 0, base |-> 0]
<1>1. /\ Len(extras) < Len(Rulesets[rules]) /\ rules > 0
      /\ extras' = Append(extras, new)
      /\ consts' = {c \in consts : c[1] # Window!ConstOf(extra)} \cup {<<Window!ConstOf(extra), id>>}
      /\ UNCHANGED <<name, stage, own, win, store, holds, used, loads, rules>>
  BY DEF Window!RulesetExtra, Window!Tell
<1>2. extras \in Seq(Arrived) /\ Rulesets[rules] \in Seq(Described) /\ Len(extras) \in Nat
  BY <1>1 DEF WindowTyped
<1>3. extra \in Described
  <2>1. id \in 1..Len(Rulesets[rules])
    BY <1>1, <1>2
  <2>. QED
    BY <1>2, <2>1
<1>4. new \in Arrived
  BY <1>3 DEF Described, Arrived
<1>5. Window!ConstOf(new) = Window!ConstOf(extra)
  BY ConstOfName
<1>6. new["road"] = 0 /\ new["base"] = 0
  OBVIOUS
<1>7. PICK e : e = new
  OBVIOUS
<1>8. PICK k : k = Window!ConstOf(extra)
  OBVIOUS
<1>9. /\ e \in Arrived /\ Window!ConstOf(e) = k /\ \A cause \in {"road", "base"} : e[cause] = 0
      /\ extras' = Append(extras, e)
      /\ consts' = {c \in consts : c[1] # k} \cup {<<k, Len(extras) + 1>>}
  BY <1>1, <1>4, <1>5, <1>6, <1>7, <1>8
<1>. HIDE DEF new, extra, id
<1>10. /\ extras' \in Seq(Arrived) /\ Len(extras') = Len(extras) + 1
       /\ \A i \in DOMAIN extras : extras'[i] = extras[i] /\ i \in DOMAIN extras'
       /\ extras'[Len(extras) + 1] = e
       /\ DOMAIN extras' = DOMAIN extras \cup {Len(extras) + 1}
  BY <1>2, <1>9
<1>11. WindowTyped'
  BY <1>1, <1>10 DEF WindowTyped
<1>12. Started' /\ StoresBound' /\ KeptShared' /\ TablesFresh'
  BY <1>1 DEF Started, StoresBound, KeptShared, TablesFresh, Abandoned
<1>13. ConstsFit'
  <2>. SUFFICES ASSUME NEW c \in consts'
                PROVE  c[2] \in DOMAIN extras' /\ Window!ConstOf(extras'[c[2]]) = c[1]
    BY DEF ConstsFit
  <2>1. CASE c \in consts
    BY <2>1, <1>10 DEF ConstsFit
  <2>2. CASE c = <<k, Len(extras) + 1>>
    BY <2>2, <1>9, <1>10
  <2>. QED
    BY <2>1, <2>2, <1>9
<1>14. PartsFit'
  <2>. SUFFICES ASSUME NEW cause \in {"road", "base"}
                PROVE  Numbered(extras', cause) /\ InOrder(extras', cause)
    BY DEF PartsFit
  <2>1. Numbered(extras, cause) /\ InOrder(extras, cause)
    BY DEF PartsFit
  <2>2. DOMAIN extras = 1..Len(extras)
    BY <1>2
  <2>3. ASSUME NEW i \in DOMAIN extras
        PROVE  Causing(extras', cause, i) = Causing(extras, cause, i)
    BY <1>10, <2>2 DEF Causing
  <2>4. extras'[Len(extras) + 1][cause] = 0
    BY <1>9, <1>10
  <2>5. Numbered(extras', cause)
    BY <1>10, <2>1, <2>3, <2>4 DEF Numbered
  <2>6. InOrder(extras', cause)
    BY <1>2, <1>10, <2>1, <2>2, <2>4 DEF InOrder
  <2>. QED
    BY <2>5, <2>6
<1>. QED
  BY <1>11, <1>12, <1>13, <1>14

\* A road or a base: the first extra that lacks one gets the next number.
LEMMA RulesetPartKeeps ==
  ASSUME GlobalsParams, WindowInv, NEW cause \in {"road", "base"}, Window!RulesetPart(cause)
  PROVE  WindowInv'
<1>. USE DEF GlobalsParams, WindowInv
<1>. DEFINE i == CHOOSE j \in Window!Lacking(cause) : \A k \in Window!Lacking(cause) : j <= k
            n == Window!Attached(cause) + 1
<1>1. /\ Window!Lacking(cause) # {}
      /\ extras' = [extras EXCEPT ![i] = [extras[i] EXCEPT ![cause] = n]]
      /\ UNCHANGED <<name, stage, own, win, store, holds, used, loads, rules, consts>>
  BY DEF Window!RulesetPart, Window!Tell
<1>2. extras \in Seq(Arrived) /\ DOMAIN extras = 1..Len(extras) /\ Len(extras) \in Nat
  BY DEF WindowTyped
<1>3. Window!Lacking(cause) = {j \in DOMAIN extras : cause \in extras[j].causes /\ extras[j][cause] = 0}
  BY DEF Window!Lacking, Window!Ids
<1>4. /\ i \in DOMAIN extras /\ cause \in extras[i].causes /\ extras[i][cause] = 0
      /\ \A k \in DOMAIN extras : cause \in extras[k].causes /\ extras[k][cause] = 0 => i <= k
  <2>1. Window!Lacking(cause) \subseteq Nat
    BY <1>2, <1>3
  <2>2. \E j \in Window!Lacking(cause) : \A k \in Window!Lacking(cause) : j <= k
    BY <1>1, <2>1, Least
  <2>3. i \in Window!Lacking(cause) /\ \A k \in Window!Lacking(cause) : i <= k
    BY <2>2
  <2>. QED
    BY <1>3, <2>3
<1>5. n = Cardinality({j \in DOMAIN extras : extras[j][cause] # 0}) + 1 /\ n \in Nat
  <2>1. n = Cardinality({j \in DOMAIN extras : extras[j][cause] # 0}) + 1
    BY WindowCardinality DEF Window!Attached, Window!Ids
  <2>2. IsFiniteSet({j \in DOMAIN extras : extras[j][cause] # 0})
    <3>1. IsFiniteSet(DOMAIN extras)
      BY <1>2, FS_Interval
    <3>. QED
      BY <3>1, FS_Subset
  <2>. QED
    BY <2>1, <2>2, FS_CardinalityType
<1>6. PICK p : p = i
  OBVIOUS
<1>7. PICK m : m = n
  OBVIOUS
<1>8. PICK e : e = [extras[p] EXCEPT ![cause] = m]
  OBVIOUS
<1>9. /\ p \in DOMAIN extras /\ cause \in extras[p].causes /\ extras[p][cause] = 0
      /\ \A k \in DOMAIN extras : cause \in extras[k].causes /\ extras[k][cause] = 0 => p <= k
      /\ m = Cardinality({j \in DOMAIN extras : extras[j][cause] # 0}) + 1 /\ m \in Nat
      /\ extras' = [extras EXCEPT ![p] = e]
  BY <1>1, <1>4, <1>5, <1>6, <1>7, <1>8
<1>. HIDE DEF i, n
<1>10. extras[p] \in Arrived
  BY <1>2, <1>9
<1>11. /\ e \in Arrived /\ e.rule_name = extras[p].rule_name /\ e.causes = extras[p].causes
       /\ e[cause] = m /\ \A other \in {"road", "base"} : other # cause => e[other] = extras[p][other]
  <2>1. CASE cause = "road"
    BY <2>1, <1>8, <1>9, <1>10 DEF Arrived
  <2>2. CASE cause = "base"
    BY <2>2, <1>8, <1>9, <1>10 DEF Arrived
  <2>. QED
    BY <2>1, <2>2
<1>12. /\ extras' \in Seq(Arrived) /\ Len(extras') = Len(extras) /\ DOMAIN extras' = DOMAIN extras
       /\ extras'[p] = e /\ \A j \in DOMAIN extras : j # p => extras'[j] = extras[j]
  BY <1>2, <1>9, <1>11
<1>13. WindowTyped'
  BY <1>1, <1>12 DEF WindowTyped
<1>14. Started' /\ StoresBound' /\ KeptShared' /\ TablesFresh'
  BY <1>1 DEF Started, StoresBound, KeptShared, TablesFresh, Abandoned
<1>15. ConstsFit'
  <2>. SUFFICES ASSUME NEW c \in consts
                PROVE  c[2] \in DOMAIN extras' /\ Window!ConstOf(extras'[c[2]]) = c[1]
    BY <1>1 DEF ConstsFit
  <2>1. c[2] \in DOMAIN extras /\ Window!ConstOf(extras[c[2]]) = c[1]
    BY DEF ConstsFit
  <2>2. Window!ConstOf(e) = Window!ConstOf(extras[p])
    BY <1>11, ConstOfName
  <2>. QED
    BY <1>12, <2>1, <2>2
<1>16. PartsFit'
  <2>. SUFFICES ASSUME NEW other \in {"road", "base"}
                PROVE  Numbered(extras', other) /\ InOrder(extras', other)
    BY DEF PartsFit
  <2>1. Numbered(extras, other) /\ InOrder(extras, other)
    BY DEF PartsFit
  <2>2. \A j \in DOMAIN extras : extras'[j].causes = extras[j].causes
    BY <1>11, <1>12
  <2>3. CASE other = cause
    <3>1. PICK s : s = extras
      OBVIOUS
    <3>2. PICK t : t = extras'
      OBVIOUS
    <3>3. /\ s \in Seq(Arrived) /\ t \in Seq(Arrived) /\ Len(t) = Len(s) /\ p \in DOMAIN s
          /\ Numbered(s, cause) /\ InOrder(s, cause)
      BY <3>1, <3>2, <2>1, <2>3, <1>2, <1>9, <1>12
    <3>4. /\ cause \in s[p].causes /\ s[p][cause] = 0
          /\ \A k \in DOMAIN s : cause \in s[k].causes /\ s[k][cause] = 0 => p <= k
      BY <3>1, <1>9
    <3>5. /\ \A j \in DOMAIN s : t[j].causes = s[j].causes
          /\ \A j \in DOMAIN s : j # p => t[j][cause] = s[j][cause]
      BY <3>1, <3>2, <2>2, <1>12
    <3>6. t[p][cause] = Cardinality({j \in DOMAIN s : s[j][cause] # 0}) + 1
      BY <3>1, <3>2, <1>9, <1>11, <1>12
    <3>7. Numbered(t, cause) /\ InOrder(t, cause)
      BY <3>3, <3>4, <3>5, <3>6, PartGoesFirst
    <3>. QED
      BY <3>2, <3>7, <2>3
  <2>4. CASE other # cause
    <3>1. \A j \in DOMAIN extras : extras'[j][other] = extras[j][other]
      BY <2>4, <1>11, <1>12
    <3>2. \A j \in DOMAIN extras : Causing(extras', other, j) = Causing(extras, other, j)
      BY <1>2, <1>12, <2>2 DEF Causing
    <3>3. Numbered(extras', other)
      BY <1>12, <2>1, <2>2, <3>1, <3>2 DEF Numbered
    <3>4. InOrder(extras', other)
      BY <1>12, <2>1, <2>2, <3>1 DEF InOrder
    <3>. QED
      BY <3>3, <3>4
  <2>. QED
    BY <2>3, <2>4
<1>. QED
  BY <1>13, <1>14, <1>15, <1>16

LEMMA WindowStutters ==
  ASSUME GlobalsParams, WindowInv, UNCHANGED Window!vars
  PROVE  WindowInv'
<1>. USE DEF WindowInv
<1>1. UNCHANGED <<name, stage, own, win, store, holds, used, loads, rules, extras, consts>>
  BY DEF Window!vars
<1>2. WindowTyped' /\ Started' /\ StoresBound' /\ KeptShared'
  BY <1>1 DEF WindowTyped, Started, StoresBound, KeptShared
<1>3. TablesFresh'
  BY <1>1 DEF TablesFresh, Abandoned
<1>4. ConstsFit' /\ PartsFit'
  BY <1>1, ExtrasAlone
<1>. QED
  BY <1>2, <1>3, <1>4

LEMMA WindowStep ==
  ASSUME GlobalsParams, WindowInv, [Window!Next]_(Window!vars)
  PROVE  WindowInv'
<1>1. CASE Window!Evaluate
  BY <1>1, EvaluateKeeps
<1>2. CASE Window!Register
  BY <1>2, RegisterKeeps
<1>3. CASE Window!MakeStores
  BY <1>3, MakeStoresKeeps
<1>4. CASE Window!Sync
  BY <1>4, SyncKeeps
<1>5. CASE Window!ModuleAssigns \/ Window!WindowAssigns
  BY <1>5, AssignsKeep
<1>6. CASE \E r \in DOMAIN Rulesets : Window!RulesetControl(r)
  BY <1>6, RulesetControlKeeps
<1>7. CASE Window!RulesetFills
  BY <1>7, RulesetFillsKeeps
<1>8. CASE Window!RulesetAssigns
  BY <1>8, RulesetAssignsKeeps
<1>9. CASE Window!RulesetExtra
  BY <1>9, RulesetExtraKeeps
<1>10. CASE \E cause \in {"road", "base"} : Window!RulesetPart(cause)
  BY <1>10, RulesetPartKeeps
<1>11. CASE UNCHANGED Window!vars
  BY <1>11, WindowStutters
<1>. QED
  BY <1>1, <1>2, <1>3, <1>4, <1>5, <1>6, <1>7, <1>8, <1>9, <1>10, <1>11 DEF Window!Next

LEMMA WindowImplies ==
  ASSUME GlobalsParams, WindowInv
  PROVE  Window!GlobalsSound
<1>. USE DEF GlobalsParams, WindowInv
<1>1. Window!Bound
  BY DEF Window!Bound, StoresBound, Window!None
<1>2. Window!Shared
  BY DEF Window!Shared, KeptShared
<1>3. Window!OneRuleset
  BY DEF Window!OneRuleset, TablesFresh
<1>4. Window!ExtrasFit
  <2>1. \A c \in consts : c[2] \in Window!Ids /\ Window!ConstOf(extras[c[2]]) = c[1]
    BY DEF ConstsFit, Window!Ids
  <2>2. ASSUME NEW i \in Window!Ids, NEW cause \in {"road", "base"}, extras[i][cause] # 0
        PROVE  extras[i][cause] = Window!Cardinality({j \in 1..i : cause \in extras[j].causes})
    <3>1. extras[i][cause] = Cardinality(Causing(extras, cause, i))
      BY <2>2 DEF PartsFit, Numbered, Window!Ids
    <3>. QED
      BY <3>1, WindowCardinality DEF Causing
  <2>. QED
    BY <2>1, <2>2 DEF Window!ExtrasFit
<1>. QED
  BY <1>1, <1>2, <1>3, <1>4 DEF Window!GlobalsSound

\* Whatever the rulesets, a store is there when the first packet comes and its
\* accessor answers for it, what is filled in place is one object for its module and
\* for the window, no table shows anything of an older ruleset, and the constants,
\* roads and bases are those of the current one (globalRegistry.ts, main.ts,
\* handle_ruleset_control).
THEOREM WindowIsSound ==
  ASSUME GlobalsParams
  PROVE  Window!Spec => []Window!GlobalsSound
<1>1. Window!Init => WindowInv
  BY WindowStarts
<1>2. WindowInv /\ [Window!Next]_(Window!vars) => WindowInv'
  BY WindowStep
<1>3. WindowInv => Window!GlobalsSound
  BY WindowImplies
<1>. QED
  BY <1>1, <1>2, <1>3, PTL DEF Window!Spec

-----------------------------------------------------------------------------
(* The map view.                                                           *)

CONSTANTS XSize, YSize, WrapX, WrapY, Iso, Hex, W, H, Width, Height, Threshold, Border,
          BigMap, Grounds, Sights, Roams, Changing, Towns, Drags, MaxDrag, NoOrigin
VARIABLES ground, cities, at, origin, dirty, dirtyAll, count, sliding, shown, base, click
View == INSTANCE MapView

\* Products grow with their factors.
LEMMA Monotone ==
  ASSUME NEW k \in Nat, NEW a \in Int, NEW b \in Int, a <= b
  PROVE  k * a <= k * b /\ k * a \in Int /\ k * b \in Int
OBVIOUS

\* What division rounds down to.
LEMMA Quotient ==
  ASSUME NEW k \in Nat \ {0}, NEW n \in Int
  PROVE  n \div k \in Int /\ k * (n \div k) <= n /\ n < k * (n \div k) + k
OBVIOUS

LEMMA QuotientIs ==
  ASSUME NEW k \in Nat \ {0}, NEW n \in Int, NEW q \in Int, k * q <= n, n < k * q + k
  PROVE  n \div k = q
<1>1. PICK d : d = n \div k
  OBVIOUS
<1>2. d \in Int /\ k * d <= n /\ n < k * d + k
  BY <1>1, Quotient
<1>3. ~(d < q)
  <2>. SUFFICES ASSUME d + 1 <= q PROVE FALSE
    BY <1>2
  <2>1. k * (d + 1) <= k * q
    BY <1>2, Monotone
  <2>2. k * (d + 1) = k * d + k
    BY <1>2
  <2>. QED
    BY <1>2, <2>1, <2>2
<1>4. ~(q < d)
  <2>. SUFFICES ASSUME q + 1 <= d PROVE FALSE
    BY <1>2
  <2>1. k * (q + 1) <= k * d
    BY <1>2, Monotone
  <2>2. k * (q + 1) = k * q + k
    BY <1>2
  <2>. QED
    BY <1>2, <2>1, <2>2
<1>. QED
  BY <1>1, <1>2, <1>3, <1>4

\* A tile and its place.
LEMMA TileAtPlace ==
  ASSUME XSize \in Nat \ {0}, YSize \in Nat \ {0}, NEW t \in View!Tiles
  PROVE  /\ View!X(t) \in 0..XSize - 1 /\ View!Y(t) \in 0..YSize - 1
         /\ View!MapPosToTile(View!X(t), View!Y(t)) = t
<1>1. PICK y : y = t \div XSize
  OBVIOUS
<1>2. PICK x : x = t % XSize
  OBVIOUS
<1>3. XSize * YSize \in Nat
  OBVIOUS
<1>4. t \in Int /\ 0 <= t /\ t <= XSize * YSize - 1
  BY <1>3 DEF View!Tiles
<1>5. x \in 0..XSize - 1 /\ y \in Int /\ t = XSize * y + x
  BY <1>1, <1>2, <1>4
<1>6. y >= 0
  <2>. SUFFICES ASSUME y <= -1 PROVE FALSE
    BY <1>5
  <2>1. XSize * y <= XSize * (-1)
    BY <1>5, Monotone
  <2>. QED
    BY <1>4, <1>5, <2>1
<1>7. y <= YSize - 1
  <2>. SUFFICES ASSUME YSize <= y PROVE FALSE
    BY <1>5
  <2>1. XSize * YSize <= XSize * y
    BY <1>5, Monotone
  <2>. QED
    BY <1>3, <1>4, <1>5, <2>1
<1>8. View!X(t) = x /\ View!Y(t) = y
  BY <1>1, <1>2 DEF View!X, View!Y
<1>9. View!PosIndex(x, y) = x + y * XSize
  BY <1>5 DEF View!PosIndex
<1>10. y * XSize = XSize * y
  BY <1>5
<1>11. View!PosIndex(x, y) = t
  BY <1>5, <1>9, <1>10
<1>. QED
  BY <1>5, <1>6, <1>7, <1>8, <1>11 DEF View!MapPosToTile

MapParams ==
  /\ XSize \in Nat \ {0} /\ YSize \in Nat \ {0}
  /\ \E w \in Nat \ {0} : W = 2 * w
  /\ \E h \in Nat \ {0} : H = 2 * h
  /\ Width \in Nat /\ Height \in Nat /\ Threshold \in Nat
  /\ NoTile \notin Int /\ NoOrigin \notin Int \X Int
  /\ Grounds # {}
  /\ Roams \subseteq View!Tiles /\ Changing \subseteq View!Tiles
  /\ Towns \subseteq View!Tiles /\ Sights \subseteq View!Tiles
  /\ Drags \subseteq Int \X Int

LEMMA MapSizes ==
  ASSUME MapParams
  PROVE  /\ W \in Nat \ {0} /\ H \in Nat \ {0}
         /\ W \div 2 \in Nat \ {0} /\ W = 2 * (W \div 2)
         /\ H \div 2 \in Nat \ {0} /\ H = 2 * (H \div 2)
         /\ Width \in Nat /\ Height \in Nat
BY DEF MapParams

\* The quarters of a rectangle on one axis have what lies between its ends.
LEMMA InQuarters ==
  ASSUME NEW k \in Nat \ {0}, NEW g \in Int, NEW size \in Int, NEW q \in Int,
         4 * g < k * q + 2 * k, k * q <= 4 * (g + size) + k - 1
  PROVE  q \in View!Quarters(g, size, k)
<1>. DEFINE low(n) == n \div k - (IF n < 0 /\ n % k # 0 THEN 1 ELSE 0)
            end == 4 * (g + size) + k - 1
<1>1. View!Quarters(g, size, k) = low(4 * g) - 1 .. low(end) + 1
  BY DEF View!Quarters
<1>2. ASSUME NEW n \in Int
      PROVE  low(n) \in Int /\ low(n) <= n \div k /\ low(n) + 1 >= n \div k
  BY Quotient
<1>3. end \in Int /\ 4 * g \in Int
  OBVIOUS
<1>. HIDE DEF low, end
<1>4. PICK a : a = (4 * g) \div k
  OBVIOUS
<1>5. PICK b : b = end \div k
  OBVIOUS
<1>6. a \in Int /\ k * a <= 4 * g /\ b \in Int /\ end < k * b + k
  BY <1>3, <1>4, <1>5, Quotient
<1>7. a - 1 <= q
  <2>. SUFFICES ASSUME q + 2 <= a PROVE FALSE
    BY <1>6
  <2>1. k * (q + 2) <= k * a
    BY <1>6, Monotone
  <2>2. k * (q + 2) = k * q + 2 * k
    OBVIOUS
  <2>3. k * q \in Int
    BY Monotone
  <2>. QED
    BY <1>6, <2>1, <2>2, <2>3
<1>8. q <= b
  <2>. SUFFICES ASSUME b + 1 <= q PROVE FALSE
    BY <1>6
  <2>1. k * (b + 1) <= k * q
    BY <1>6, Monotone
  <2>2. k * (b + 1) = k * b + k
    BY <1>6
  <2>3. k * q <= end
    BY DEF end
  <2>4. k * q \in Int /\ k * b \in Int
    BY <1>6, Monotone
  <2>. QED
    BY <1>3, <1>6, <2>1, <2>2, <2>3, <2>4
<1>9. low(4 * g) - 1 <= q /\ q <= low(end) + 1
  BY <1>2, <1>3, <1>4, <1>5, <1>6, <1>7, <1>8
<1>10. low(4 * g) \in Int /\ low(end) \in Int
  BY <1>2, <1>3
<1>. QED
  BY <1>1, <1>9, <1>10

\* On one axis: what is on the canvas is in the quarters of all of the canvas, and
\* in those of a rectangle around it that is cut off at the canvas' edges.
LEMMA AxisCovered ==
  ASSUME NEW k \in Nat \ {0}, k = 2 * (k \div 2), NEW o \in Int, NEW c \in Int, NEW q \in Int,
         k * q = 4 * (o + c) + 2 * k, NEW pad \in Nat, NEW length \in Nat,
         -k < c, c < length
  PROVE  /\ q \in View!Quarters(o + 0, length + k \div 2, k)
         /\ \A size : size = View!Smaller(k + 2 * pad, length - (c - pad)) =>
              q \in View!Quarters(o + View!Larger(0, c - pad), size + k \div 2, k)
<1>1. k \div 2 \in Int
  OBVIOUS
<1>2. q \in View!Quarters(o + 0, length + k \div 2, k)
  <2>1. 4 * (o + 0) < k * q + 2 * k
    BY <1>1
  <2>2. k * q <= 4 * ((o + 0) + (length + k \div 2)) + k - 1
    BY <1>1
  <2>. QED
    BY <1>1, <2>1, <2>2, InQuarters
<1>3. ASSUME NEW size, size = View!Smaller(k + 2 * pad, length - (c - pad))
      PROVE  q \in View!Quarters(o + View!Larger(0, c - pad), size + k \div 2, k)
  <2>1. PICK x : x = View!Larger(0, c - pad)
    OBVIOUS
  <2>2. x \in Int /\ x >= 0 /\ x >= c - pad /\ (x = 0 \/ x = c - pad)
    BY <2>1 DEF View!Larger
  <2>3. size \in Int /\ (size = k + 2 * pad \/ size = length - (c - pad))
    BY <1>3 DEF View!Smaller
  <2>4. 4 * (o + x) < k * q + 2 * k
    BY <2>2
  <2>5. k * q <= 4 * ((o + x) + (size + k \div 2)) + k - 1
    BY <1>1, <2>2, <2>3
  <2>6. o + x \in Int /\ size + k \div 2 \in Int
    BY <1>1, <2>2, <2>3
  <2>7. q \in View!Quarters(o + x, size + k \div 2, k)
    BY <2>4, <2>5, <2>6, InQuarters
  <2>. QED
    BY <2>1, <2>7
<1>. QED
  BY <1>2, <1>3

\* Where a map position is drawn, and its quarters.
LEMMA GuiOf ==
  ASSUME MapParams, NEW x \in Int, NEW y \in Int
  PROVE  View!MapToGui(x, y) = <<(W \div 2) * (x - y), (H \div 2) * (x + y)>>
<1>1. PICK w \in Nat \ {0} : W = 2 * w /\ w = W \div 2
  BY MapSizes
<1>2. PICK h \in Nat \ {0} : H = 2 * h /\ h = H \div 2
  BY MapSizes
<1>3. ((x - y) * W) \div 2 = w * (x - y)
  <2>1. (x - y) * W = 2 * (w * (x - y))
    BY <1>1
  <2>2. w * (x - y) \in Int
    OBVIOUS
  <2>. QED
    BY <2>1, <2>2
<1>4. ((x + y) * H) \div 2 = h * (x + y)
  <2>1. (x + y) * H = 2 * (h * (x + y))
    BY <1>2
  <2>2. h * (x + y) \in Int
    OBVIOUS
  <2>. QED
    BY <2>1, <2>2
<1>. QED
  BY <1>1, <1>2, <1>3, <1>4 DEF View!MapToGui

\* The rectangle update_map_canvas_dirty draws again for a tile.
Around(o, c) ==
  View!DrawnAt(o, View!Larger(0, c[1] - W), View!Larger(0, c[2] - W),
               View!Smaller(3 * W, Width - (c[1] - W)), View!Smaller(H + 2 * W, Height - (c[2] - W)))

\* What is on the canvas is drawn with all of it, and with its own rectangle.
LEMMA OnCanvasIsDrawn ==
  ASSUME MapParams, NEW o \in Int \X Int, NEW x \in 0..XSize - 1, NEW y \in Int,
         NEW c, c = View!CanvasPos(o, <<x, y>>),
         -W < c[1], c[1] < Width, -H < c[2], c[2] < Height
  PROVE  /\ c \in Int \X Int
         /\ <<x, y>> \in View!DrawnAt(o, 0, 0, Width, Height)
         /\ <<x, y>> \in Around(o, c)
<1>1. PICK w \in Nat \ {0} : W = 2 * w /\ w = W \div 2
  BY MapSizes
<1>2. PICK h \in Nat \ {0} : H = 2 * h /\ h = H \div 2
  BY MapSizes
<1>3. x \in Int /\ Width \in Nat /\ Height \in Nat /\ XSize \in Nat \ {0}
  BY DEF MapParams
<1>4. PICK a : a = w * (x - y)
  OBVIOUS
<1>5. PICK b : b = h * (x + y)
  OBVIOUS
<1>6. a \in Int /\ b \in Int
  BY <1>3, <1>4, <1>5
<1>7. c = <<a - o[1], b - o[2]>>
  <2>1. View!MapToGui(x, y) = <<a, b>>
    BY <1>1, <1>2, <1>3, <1>4, <1>5, GuiOf
  <2>2. <<x, y>>[1] = x /\ <<x, y>>[2] = y
    OBVIOUS
  <2>. QED
    BY <2>1, <2>2 DEF View!CanvasPos
<1>8. c[1] \in Int /\ c[2] \in Int /\ o[1] + c[1] = a /\ o[2] + c[2] = b /\ c \in Int \X Int
  BY <1>6, <1>7
<1>. DEFINE q == 2 * (x + 1 - y)
            r == 2 * (x + 1 + y)
<1>9. q \in Int /\ r \in Int
  BY <1>3
<1>10. W * q = 4 * a + 2 * W
  BY <1>1, <1>3, <1>4
<1>11. H * r = 4 * b + 2 * H
  BY <1>2, <1>3, <1>5
<1>12. W * q = 4 * (o[1] + c[1]) + 2 * W /\ H * r = 4 * (o[2] + c[2]) + 2 * H
  BY <1>8, <1>10, <1>11
<1>13. /\ q % 2 = 0 /\ r % 2 = 0 /\ (q + r) % 4 = 0 /\ q + r > 0 /\ q + r <= 4 * XSize
       /\ (q + r) \div 4 - 1 = x /\ (r - q) \div 4 = y
  BY <1>3
<1>. HIDE DEF q, r
<1>14. ASSUME NEW X0, NEW Y0, NEW wide, NEW high,
              q \in View!Quarters(o[1] + X0, wide + W \div 2, W),
              r \in View!Quarters(o[2] + Y0, high + H \div 2, H)
       PROVE  <<x, y>> \in View!DrawnAt(o, X0, Y0, wide, high)
  <2>1. PICK Q : Q = View!Quarters(o[1] + X0, wide + W \div 2, W)
    OBVIOUS
  <2>2. PICK R : R = View!Quarters(o[2] + Y0, high + H \div 2, H)
    OBVIOUS
  <2>3. <<q, r>> \in Q \X R
    BY <1>14, <2>1, <2>2
  <2>. DEFINE tile(p) == /\ p[1] % 2 = 0 /\ p[2] % 2 = 0 /\ (p[1] + p[2]) % 4 = 0
                         /\ ~WrapX /\ ~WrapY => p[1] + p[2] > 0 /\ p[1] + p[2] <= 4 * XSize
              put(p) == <<(p[1] + p[2]) \div 4 - 1, (p[2] - p[1]) \div 4>>
  <2>4. tile(<<q, r>>) /\ put(<<q, r>>) = <<x, y>>
    BY <1>13
  <2>5. View!DrawnAt(o, X0, Y0, wide, high) = {put(p) : p \in {p \in Q \X R : tile(p)}}
    BY <2>1, <2>2, Zenon DEF View!DrawnAt
  <2>. HIDE DEF tile, put
  <2>. QED
    BY <2>3, <2>4, <2>5
<1>15. /\ q \in View!Quarters(o[1] + 0, Width + W \div 2, W)
       /\ \A size : size = View!Smaller(W + 2 * W, Width - (c[1] - W)) =>
            q \in View!Quarters(o[1] + View!Larger(0, c[1] - W), size + W \div 2, W)
  <2>1. PICK o1 \in Int : o1 = o[1]
    OBVIOUS
  <2>2. PICK c1 \in Int : c1 = c[1]
    BY <1>8
  <2>3. W \in Nat \ {0} /\ W \in Nat /\ W = 2 * (W \div 2) /\ W * q = 4 * (o1 + c1) + 2 * W
    BY <1>12, <2>1, <2>2, MapSizes
  <2>4. -W < c1 /\ c1 < Width
    BY <2>2
  <2>. QED
    BY <1>3, <1>9, <2>1, <2>2, <2>3, <2>4, AxisCovered
<1>16. /\ r \in View!Quarters(o[2] + 0, Height + H \div 2, H)
       /\ \A size : size = View!Smaller(H + 2 * W, Height - (c[2] - W)) =>
            r \in View!Quarters(o[2] + View!Larger(0, c[2] - W), size + H \div 2, H)
  <2>1. PICK o2 \in Int : o2 = o[2]
    OBVIOUS
  <2>2. PICK c2 \in Int : c2 = c[2]
    BY <1>8
  <2>3. H \in Nat \ {0} /\ W \in Nat /\ H = 2 * (H \div 2) /\ H * r = 4 * (o2 + c2) + 2 * H
    BY <1>12, <2>1, <2>2, MapSizes
  <2>4. -H < c2 /\ c2 < Height
    BY <2>2
  <2>. QED
    BY <1>3, <1>9, <2>1, <2>2, <2>3, <2>4, AxisCovered
<1>17. <<x, y>> \in View!DrawnAt(o, 0, 0, Width, Height)
  BY <1>14, <1>15, <1>16
<1>18. W + 2 * W = 3 * W
  BY <1>1
<1>19. <<x, y>> \in Around(o, c)
  BY <1>14, <1>15, <1>16, <1>18 DEF Around
<1>. QED
  BY <1>8, <1>17, <1>19

\* A tile on the canvas is drawn with all of it, and when it is marked.
LEMMA OnCanvasInView ==
  ASSUME MapParams, NEW o \in Int \X Int, NEW t \in View!OnCanvas(o)
  PROVE  t \in View!InView(o)
<1>1. t \in View!Tiles /\ XSize \in Nat \ {0} /\ YSize \in Nat \ {0} /\ NoTile \notin Int
  BY DEF View!OnCanvas, MapParams
<1>2. PICK x \in 0..XSize - 1 : x = View!X(t)
  BY <1>1, TileAtPlace
<1>3. PICK y \in Int : y = View!Y(t)
  BY <1>1, TileAtPlace
<1>4. PICK c : c = View!CanvasPos(o, <<x, y>>)
  OBVIOUS
<1>5. -W < c[1] /\ c[1] < Width /\ -H < c[2] /\ c[2] < Height
  BY <1>2, <1>3, <1>4 DEF View!OnCanvas
<1>6. <<x, y>> \in View!DrawnAt(o, 0, 0, Width, Height)
  BY <1>4, <1>5, OnCanvasIsDrawn
<1>7. View!MapPosToTile(x, y) = t
  BY <1>1, <1>2, <1>3, TileAtPlace
<1>8. t # NoTile
  BY <1>1 DEF View!Tiles
<1>9. t \in {View!MapPosToTile(p[1], p[2]) : p \in View!DrawnAt(o, 0, 0, Width, Height)}
  <2>1. <<x, y>>[1] = x /\ <<x, y>>[2] = y
    OBVIOUS
  <2>. QED
    BY <1>6, <1>7, <2>1
<1>. QED
  BY <1>8, <1>9 DEF View!InView

LEMMA OnCanvasPatched ==
  ASSUME MapParams, NEW o \in Int \X Int, NEW t \in View!OnCanvas(o)
  PROVE  t \in View!Patch(o, t)
<1>1. t \in View!Tiles /\ XSize \in Nat \ {0} /\ YSize \in Nat \ {0}
  BY DEF View!OnCanvas, MapParams
<1>2. PICK x \in 0..XSize - 1 : x = View!X(t)
  BY <1>1, TileAtPlace
<1>3. PICK y \in Int : y = View!Y(t)
  BY <1>1, TileAtPlace
<1>4. PICK c : c = View!CanvasPos(o, <<x, y>>)
  OBVIOUS
<1>5. -W < c[1] /\ c[1] < Width /\ -H < c[2] /\ c[2] < Height
  BY <1>2, <1>3, <1>4 DEF View!OnCanvas
<1>6. <<x, y>> \in Around(o, c) /\ c \in Int \X Int
  BY <1>4, <1>5, OnCanvasIsDrawn
<1>7. View!MapPosToTile(x, y) = t
  BY <1>1, <1>2, <1>3, TileAtPlace
<1>8. W \in Nat /\ H \in Nat /\ Width \in Nat /\ Height \in Nat
  BY MapSizes
<1>9. ~(c[1] + W < 0 \/ c[2] + H < 0 \/ c[1] > Width \/ c[2] > Height)
  BY <1>5, <1>6, <1>8
<1>10. View!Patch(o, t) = {View!MapPosToTile(p[1], p[2]) : p \in Around(o, c)}
  BY <1>2, <1>3, <1>4, <1>9 DEF View!Patch, Around
<1>11. <<x, y>>[1] = x /\ <<x, y>>[2] = y
  OBVIOUS
<1>. QED
  BY <1>6, <1>7, <1>10, <1>11

-----------------------------------------------------------------------------
(* Pixels.                                                                 *)

LEMMA CancelFactor ==
  ASSUME NEW k \in Nat \ {0}, NEW a \in Int, NEW b \in Int, k * a < k * b
  PROVE  a < b
<1>. SUFFICES ASSUME b <= a PROVE FALSE
  OBVIOUS
<1>1. k * b <= k * a /\ k * a \in Int /\ k * b \in Int
  BY Monotone
<1>. QED
  BY <1>1

\* The map position of a pixel: its tile covers the pixel.
LEMMA PixelCovered ==
  ASSUME MapParams, NEW gx \in Int, NEW gy \in Int
  PROVE  \E mx, my \in Int :
           /\ View!GuiToMap(gx, gy) = <<mx, my>>
           /\ View!MapToGui(mx, my) \in Int \X Int
           /\ gx - W < View!MapToGui(mx, my)[1] /\ View!MapToGui(mx, my)[1] < gx
           /\ gy - H < View!MapToGui(mx, my)[2] /\ View!MapToGui(mx, my)[2] <= gy
<1>1. PICK w \in Nat \ {0} : W = 2 * w /\ w = W \div 2
  BY MapSizes
<1>2. PICK h \in Nat \ {0} : H = 2 * h /\ h = H \div 2
  BY MapSizes
<1>3. PICK x \in Int : x = gx - w
  OBVIOUS
<1>4. PICK k \in Nat \ {0} : k = w * h
  <2>1. w * h \in Nat /\ w * h # 0
    OBVIOUS
  <2>. QED
    BY <2>1
<1>5. PICK a \in Int : a = x * h
  OBVIOUS
<1>6. PICK b \in Int : b = gy * w
  OBVIOUS
<1>7. W * H = 4 * k
  BY <1>1, <1>2, <1>4
<1>8. x * H = 2 * a /\ gy * W = 2 * b
  BY <1>1, <1>2, <1>5, <1>6
<1>9. PICK mx \in Int : mx = (2 * a + 2 * b) \div (4 * k)
  BY Quotient
<1>10. PICK my \in Int : my = (2 * b - 2 * a) \div (4 * k)
  BY Quotient
<1>11. View!GuiToMap(gx, gy) = <<mx, my>>
  BY <1>1, <1>3, <1>7, <1>8, <1>9, <1>10 DEF View!GuiToMap
<1>12. /\ 4 * k * mx <= 2 * a + 2 * b /\ 2 * a + 2 * b < 4 * k * mx + 4 * k
       /\ 4 * k * my <= 2 * b - 2 * a /\ 2 * b - 2 * a < 4 * k * my + 4 * k
  <2>1. 4 * k \in Nat \ {0} /\ 2 * a + 2 * b \in Int /\ 2 * b - 2 * a \in Int
    OBVIOUS
  <2>. QED
    BY <1>9, <1>10, <2>1, Quotient
<1>13. PICK p \in Int : p = k * mx
  OBVIOUS
<1>14. PICK q \in Int : q = k * my
  OBVIOUS
<1>15. /\ 4 * p <= 2 * a + 2 * b /\ 2 * a + 2 * b < 4 * p + 4 * k
       /\ 4 * q <= 2 * b - 2 * a /\ 2 * b - 2 * a < 4 * q + 4 * k
  <2>1. 4 * k * mx = 4 * p /\ 4 * k * my = 4 * q
    BY <1>13, <1>14
  <2>. QED
    BY <1>12, <2>1
<1>16. /\ p - q - k < a /\ a < p - q + k
       /\ p + q <= b /\ b < p + q + 2 * k
  BY <1>15
<1>17. PICK u \in Int : u = w * (mx - my)
  OBVIOUS
<1>18. PICK v \in Int : v = h * (mx + my)
  OBVIOUS
<1>19. View!MapToGui(mx, my) = <<u, v>>
  BY <1>1, <1>2, <1>17, <1>18, GuiOf
<1>20. /\ h * u = p - q /\ w * v = p + q /\ h * x = a /\ w * gy = b
       /\ h * w = k /\ w * h = k
  BY <1>4, <1>5, <1>6, <1>13, <1>14, <1>17, <1>18
<1>21. u - w < x /\ x < u + w
  <2>1. h * (u - w) = p - q - k /\ h * (u + w) = p - q + k
    BY <1>20
  <2>. QED
    BY <1>16, <1>20, <2>1, CancelFactor
<1>22. v <= gy /\ gy < v + 2 * h
  <2>1. w * (gy + 1) = b + w /\ w * (v + 2 * h) = p + q + 2 * k
    BY <1>20
  <2>2. w * v < w * (gy + 1)
    BY <1>16, <1>20, <2>1
  <2>3. v < gy + 1
    BY <2>2, CancelFactor
  <2>4. w * gy < w * (v + 2 * h)
    BY <1>16, <1>20, <2>1
  <2>5. gy < v + 2 * h
    BY <2>4, CancelFactor
  <2>. QED
    BY <2>3, <2>5
<1>23. gx - W < u /\ u < gx /\ gy - H < v /\ v <= gy
  BY <1>1, <1>2, <1>3, <1>21, <1>22
<1>. QED
  BY <1>11, <1>19, <1>23

\* The middle of a tile is in it.
LEMMA MiddleIsInside ==
  ASSUME MapParams, NEW x \in Int, NEW y \in Int, NEW gx, NEW gy,
         gx = View!MapToGui(x, y)[1] + W \div 2, gy = View!MapToGui(x, y)[2] + H \div 2
  PROVE  View!GuiToMap(gx, gy) = <<x, y>>
<1>1. PICK w \in Nat \ {0} : W = 2 * w /\ w = W \div 2
  BY MapSizes
<1>2. PICK h \in Nat \ {0} : H = 2 * h /\ h = H \div 2
  BY MapSizes
<1>3. PICK k \in Nat \ {0} : k = w * h
  <2>1. w * h \in Nat /\ w * h # 0
    OBVIOUS
  <2>. QED
    BY <2>1
<1>4. PICK a \in Int : a = w * (x - y)
  OBVIOUS
<1>5. PICK b \in Int : b = h * (x + y)
  OBVIOUS
<1>6. gx = a + w /\ gy = b + h
  <2>1. View!MapToGui(x, y) = <<a, b>>
    BY <1>1, <1>2, <1>4, <1>5, GuiOf
  <2>. QED
    BY <1>1, <1>2, <2>1
<1>7. gx - W \div 2 = a
  BY <1>1, <1>6
<1>8. W * H = 4 * k
  BY <1>1, <1>2, <1>3
<1>9. PICK p \in Int : p = k * x
  OBVIOUS
<1>10. PICK q \in Int : q = k * y
  OBVIOUS
<1>11. a * H = 2 * p - 2 * q
  BY <1>2, <1>3, <1>4, <1>9, <1>10
<1>12. gy * W = 2 * p + 2 * q + 2 * k
  BY <1>1, <1>3, <1>5, <1>6, <1>9, <1>10
<1>13. a * H + gy * W = 4 * p + 2 * k /\ gy * W - a * H = 4 * q + 2 * k
  BY <1>11, <1>12
<1>14. (4 * k) * x = 4 * p /\ (4 * k) * y = 4 * q
  BY <1>9, <1>10
<1>15. (4 * p + 2 * k) \div (4 * k) = x /\ (4 * q + 2 * k) \div (4 * k) = y
  <2>1. 4 * k \in Nat \ {0} /\ 4 * p + 2 * k \in Int /\ 4 * q + 2 * k \in Int
    OBVIOUS
  <2>2. /\ (4 * k) * x <= 4 * p + 2 * k /\ 4 * p + 2 * k < (4 * k) * x + 4 * k
        /\ (4 * k) * y <= 4 * q + 2 * k /\ 4 * q + 2 * k < (4 * k) * y + 4 * k
    BY <1>14
  <2>. QED
    BY <2>1, <2>2, QuotientIs
<1>. QED
  BY <1>7, <1>8, <1>13, <1>15 DEF View!GuiToMap

LEMMA DrawnAreNumbers ==
  ASSUME NEW o, NEW X0, NEW Y0, NEW wide, NEW high,
         NEW p \in View!DrawnAt(o, X0, Y0, wide, high)
  PROVE  p[1] \in Int /\ p[2] \in Int /\ p = <<p[1], p[2]>>
<1>1. PICK Q : Q = View!Quarters(o[1] + X0, wide + W \div 2, W)
  OBVIOUS
<1>2. PICK R : R = View!Quarters(o[2] + Y0, high + H \div 2, H)
  OBVIOUS
<1>3. Q \subseteq Int /\ R \subseteq Int
  BY <1>1, <1>2 DEF View!Quarters
<1>. DEFINE tile(c) == /\ c[1] % 2 = 0 /\ c[2] % 2 = 0 /\ (c[1] + c[2]) % 4 = 0
                       /\ ~WrapX /\ ~WrapY => c[1] + c[2] > 0 /\ c[1] + c[2] <= 4 * XSize
<1>4. p \in {<<(c[1] + c[2]) \div 4 - 1, (c[2] - c[1]) \div 4>> : c \in {c \in Q \X R : tile(c)}}
  BY <1>1, <1>2, Zenon DEF View!DrawnAt
<1>. HIDE DEF tile
<1>5. PICK c \in Q \X R : p = <<(c[1] + c[2]) \div 4 - 1, (c[2] - c[1]) \div 4>>
  BY <1>4
<1>6. c[1] \in Int /\ c[2] \in Int
  BY <1>3, <1>5
<1>7. (c[1] + c[2]) \div 4 - 1 \in Int /\ (c[2] - c[1]) \div 4 \in Int
  BY <1>6
<1>. QED
  BY <1>5, <1>7

\* A tap picks what is drawn under it, wherever the view is.
LEMMA TapPicks ==
  ASSUME MapParams, origin \in Int \X Int
  PROVE  View!TapPicksWhatIsDrawn
<1>1. PICK o1 \in Int : o1 = origin[1]
  OBVIOUS
<1>2. PICK o2 \in Int : o2 = origin[2]
  OBVIOUS
<1>3. ASSUME NEW p \in View!DrawnAt(origin, 0, 0, Width, Height), NEW c, c = View!CanvasPos(origin, p)
      PROVE  View!CanvasPosToTile(origin, c[1] + W \div 2, c[2] + H \div 2)
               = View!MapPosToTile(p[1], p[2])
  <2>1. PICK x \in Int : x = p[1]
    BY DrawnAreNumbers
  <2>2. PICK y \in Int : y = p[2]
    BY DrawnAreNumbers
  <2>3. PICK g : g = View!MapToGui(x, y)
    OBVIOUS
  <2>4. g[1] \in Int /\ g[2] \in Int
    <3>1. g = <<(W \div 2) * (x - y), (H \div 2) * (x + y)>>
      BY <2>3, GuiOf
    <3>2. (W \div 2) * (x - y) \in Int /\ (H \div 2) * (x + y) \in Int
      BY MapSizes
    <3>. QED
      BY <3>1, <3>2
  <2>5. c = <<g[1] - o1, g[2] - o2>>
    BY <1>1, <1>2, <1>3, <2>1, <2>2, <2>3 DEF View!CanvasPos
  <2>6. /\ (c[1] + W \div 2) + origin[1] = g[1] + W \div 2
        /\ (c[2] + H \div 2) + origin[2] = g[2] + H \div 2
    BY <1>1, <1>2, <2>4, <2>5, MapSizes
  <2>7. View!GuiToMap((c[1] + W \div 2) + origin[1], (c[2] + H \div 2) + origin[2]) = <<x, y>>
    BY <2>3, <2>6, MiddleIsInside
  <2>. QED
    BY <2>1, <2>2, <2>7 DEF View!CanvasPosToTile
<1>4. ASSUME NEW x \in 0..Width - 1, NEW y \in 0..Height - 1, NEW m,
             m = View!GuiToMap(x + origin[1], y + origin[2]),
             m \in (0..XSize - 1) \X (0..YSize - 1)
      PROVE  View!CanvasPosToTile(origin, x, y) \in View!InView(origin)
  <2>1. x + o1 \in Int /\ y + o2 \in Int /\ x \in Int /\ y \in Int /\ x >= 0 /\ y >= 0 /\ x < Width /\ y < Height
    BY MapSizes
  <2>2. PICK gx \in Int : gx = x + o1
    BY <2>1
  <2>3. PICK gy \in Int : gy = y + o2
    BY <2>1
  <2>4. m = View!GuiToMap(gx, gy)
    BY <1>1, <1>2, <1>4, <2>2, <2>3
  <2>5. PICK mx \in Int, my \in Int :
          /\ m = <<mx, my>>
          /\ View!MapToGui(mx, my) \in Int \X Int
          /\ gx - W < View!MapToGui(mx, my)[1] /\ View!MapToGui(mx, my)[1] < gx
          /\ gy - H < View!MapToGui(mx, my)[2] /\ View!MapToGui(mx, my)[2] <= gy
    BY <2>4, PixelCovered
  <2>6. PICK g \in Int \X Int : g = View!MapToGui(mx, my)
    BY <2>5
  <2>7. PICK c : c = View!CanvasPos(origin, <<mx, my>>)
    OBVIOUS
  <2>8. c = <<g[1] - o1, g[2] - o2>>
    BY <1>1, <1>2, <2>6, <2>7 DEF View!CanvasPos
  <2>9. W \in Nat /\ H \in Nat /\ Width \in Nat /\ Height \in Nat
    BY MapSizes
  <2>10. -W < c[1] /\ c[1] < Width /\ -H < c[2] /\ c[2] < Height
    BY <2>1, <2>2, <2>3, <2>5, <2>6, <2>8, <2>9
  <2>11. mx \in 0..XSize - 1 /\ my \in 0..YSize - 1
    BY <1>4, <2>5
  <2>12. <<mx, my>> \in View!DrawnAt(origin, 0, 0, Width, Height)
    BY <2>7, <2>10, <2>11, OnCanvasIsDrawn
  <2>13. View!PosIndex(mx, my) \in View!Tiles
    <3>1. View!PosIndex(mx, my) = mx + my * XSize
      BY <2>11 DEF View!PosIndex, MapParams
    <3>2. XSize \in Nat \ {0} /\ YSize \in Nat \ {0}
      BY DEF MapParams
    <3>3. XSize * my <= XSize * (YSize - 1) /\ XSize * my >= 0
      BY <2>11, <3>2, Monotone
    <3>4. XSize * (YSize - 1) = XSize * YSize - XSize /\ my * XSize = XSize * my
      BY <2>11, <3>2
    <3>5. XSize * YSize \in Int /\ XSize * my \in Int
      BY <2>11, <3>2
    <3>. QED
      BY <2>11, <3>1, <3>2, <3>3, <3>4, <3>5 DEF View!Tiles
  <2>14. View!Tiles \subseteq Int /\ NoTile \notin Int
    BY DEF View!Tiles, MapParams
  <2>15. View!MapPosToTile(mx, my) \in View!InView(origin)
    BY <2>12, <2>13, <2>14 DEF View!InView, View!MapPosToTile
  <2>16. View!CanvasPosToTile(origin, x, y) = View!MapPosToTile(mx, my)
    BY <1>4, <2>5 DEF View!CanvasPosToTile
  <2>. QED
    BY <2>15, <2>16
<1>. QED
  BY <1>3, <1>4, Zenon DEF View!TapPicksWhatIsDrawn

-----------------------------------------------------------------------------
(* Centering.                                                              *)

\* Without wrapping a normalized position is what it was.
LEMMA NormalizeKeeps ==
  ASSUME MapParams, ~WrapX, ~WrapY, NEW gx \in Int, NEW gy \in Int
  PROVE  View!NormalizeGuiPos(gx, gy) = <<gx, gy>>
<1>1. PICK x \in Int, y \in Int : View!GuiToMap(gx, gy) = <<x, y>> /\ View!MapToGui(x, y) \in Int \X Int
  BY PixelCovered
<1>2. PICK n : n = View!MapToNativePos(x, y)
  OBVIOUS
<1>3. View!NativeToMapPos(n[1], n[2]) = <<x, y>>
  <2>1. XSize \in Int
    BY DEF MapParams
  <2>2. PICK ny \in Int : ny = x + y - XSize
    BY <2>1
  <2>3. PICK half \in Int : ny + (ny % 2) = 2 * half
    <3>1. PICK d \in Int : d = ny \div 2
      OBVIOUS
    <3>2. ny + (ny % 2) = 2 * (d + (ny % 2)) /\ d + (ny % 2) \in Int
      BY <3>1
    <3>. QED
      BY <3>2
  <2>4. n = <<x - half, ny>>
    <3>1. 2 * x - ny - (ny % 2) = 2 * (x - half)
      BY <2>2, <2>3
    <3>2. (2 * (x - half)) \div 2 = x - half
      OBVIOUS
    <3>. QED
      BY <1>2, <2>2, <3>1, <3>2 DEF View!MapToNativePos
  <2>5. (ny + (ny % 2)) \div 2 = half
    BY <2>3
  <2>6. half + (x - half) = x /\ ny - x + XSize = y
    BY <2>1, <2>2
  <2>. QED
    BY <2>4, <2>5, <2>6 DEF View!NativeToMapPos
<1>4. PICK g \in Int \X Int : g = View!MapToGui(x, y)
  BY <1>1
<1>5. View!NormalizeGuiPos(gx, gy) = <<g[1] + gx - g[1], g[2] + gy - g[2]>>
  BY <1>1, <1>2, <1>3, <1>4 DEF View!NormalizeGuiPos
<1>. QED
  BY <1>5

LEMMA GuiIsInt ==
  ASSUME MapParams, NEW x \in Int, NEW y \in Int
  PROVE  View!MapToGui(x, y) \in Int \X Int
<1>1. (W \div 2) * (x - y) \in Int /\ (H \div 2) * (x + y) \in Int
  BY MapSizes
<1>2. PICK a \in Int : a = (W \div 2) * (x - y)
  BY <1>1
<1>3. PICK b \in Int : b = (H \div 2) * (x + y)
  BY <1>1
<1>4. View!MapToGui(x, y) = <<a, b>>
  BY <1>2, <1>3, GuiOf
<1>. QED
  BY <1>4

LEMMA NativeIsInt ==
  ASSUME MapParams, NEW x \in Int, NEW y \in Int
  PROVE  /\ View!MapToNativePos(x, y)[1] \in Int /\ View!MapToNativePos(x, y)[2] \in Int
         /\ View!NativeToMapPos(x, y)[1] \in Int /\ View!NativeToMapPos(x, y)[2] \in Int
         /\ View!FcWrap(x, XSize) \in Int /\ View!FcWrap(y, YSize) \in Int
<1>1. XSize \in Nat \ {0} /\ YSize \in Nat \ {0}
  BY DEF MapParams
<1>. QED
  BY <1>1 DEF View!MapToNativePos, View!NativeToMapPos, View!FcWrap

\* A normalized position is a position.
LEMMA NormalizeIsInt ==
  ASSUME MapParams, NEW gx \in Int, NEW gy \in Int
  PROVE  View!NormalizeGuiPos(gx, gy) \in Int \X Int
<1>1. PICK x \in Int, y \in Int : View!GuiToMap(gx, gy) = <<x, y>> /\ View!MapToGui(x, y) \in Int \X Int
  BY PixelCovered
<1>2. PICK g \in Int \X Int : g = View!MapToGui(x, y)
  BY <1>1
<1>3. PICK n1 \in Int, n2 \in Int : n1 = View!MapToNativePos(x, y)[1] /\ n2 = View!MapToNativePos(x, y)[2]
  BY NativeIsInt
<1>4. PICK w1 \in Int : w1 = IF WrapX THEN View!FcWrap(n1, XSize) ELSE n1
  BY NativeIsInt
<1>5. PICK w2 \in Int : w2 = IF WrapY THEN View!FcWrap(n2, YSize) ELSE n2
  BY NativeIsInt
<1>6. PICK u1 \in Int, u2 \in Int : u1 = View!NativeToMapPos(w1, w2)[1] /\ u2 = View!NativeToMapPos(w1, w2)[2]
  BY NativeIsInt
<1>7. PICK v \in Int \X Int : v = View!MapToGui(u1, u2)
  BY GuiIsInt
<1>8. PICK m : m = View!GuiToMap(gx, gy)
  OBVIOUS
<1>9. m[1] = x /\ m[2] = y
  BY <1>1, <1>8
<1>10. View!NormalizeGuiPos(gx, gy) = <<v[1] + gx - g[1], v[2] + gy - g[2]>>
  BY <1>8, <1>9, <1>2, <1>3, <1>4, <1>5, <1>6, <1>7, Zenon DEF View!NormalizeGuiPos
<1>11. v[1] + gx - g[1] \in Int /\ v[2] + gy - g[2] \in Int
  OBVIOUS
<1>. QED
  BY <1>10, <1>11

\* Centering on a tile puts it in the middle, unless the map wraps.
LEMMA CenterIsMiddle ==
  ASSUME MapParams, NEW t \in View!Tiles, NEW o, o = View!SetMapviewOrigin(View!CenterPos(t))
  PROVE  /\ o \in Int \X Int
         /\ ~WrapX /\ ~WrapY => View!CanvasPosToTile(o, Width \div 2, Height \div 2) = t
<1>1. PICK x \in Int : x = View!X(t)
  BY TileAtPlace DEF MapParams
<1>2. PICK y \in Int : y = View!Y(t)
  BY TileAtPlace DEF MapParams
<1>3. PICK g \in Int \X Int : g = View!MapToGui(x, y)
  BY GuiIsInt
<1>4. PICK gx \in Int : gx = g[1] - (Width - W) \div 2
  BY MapSizes
<1>5. PICK gy \in Int : gy = g[2] - (Height - H) \div 2
  BY MapSizes
<1>6. View!CenterPos(t) = <<gx, gy>>
  BY <1>1, <1>2, <1>3, <1>4, <1>5 DEF View!CenterPos
<1>7. PICK n : n = View!NormalizeGuiPos(gx, gy)
  OBVIOUS
<1>8. n \in Int \X Int
  BY <1>7, NormalizeIsInt
<1>9. o = View!NormalizeGuiPos(n[1], n[2])
  BY <1>6, <1>7 DEF View!SetMapviewOrigin
<1>10. o \in Int \X Int
  BY <1>8, <1>9, NormalizeIsInt
<1>11. ASSUME ~WrapX, ~WrapY
       PROVE  View!CanvasPosToTile(o, Width \div 2, Height \div 2) = t
  <2>1. n = <<gx, gy>>
    BY <1>7, <1>11, NormalizeKeeps
  <2>2. n[1] = gx /\ n[2] = gy
    BY <2>1
  <2>3. o = <<gx, gy>>
    BY <1>9, <1>11, <2>2, NormalizeKeeps
  <2>4. /\ Width \div 2 + o[1] = g[1] + W \div 2
        /\ Height \div 2 + o[2] = g[2] + H \div 2
    <3>1. PICK w \in Nat \ {0} : W = 2 * w /\ w = W \div 2
      BY MapSizes
    <3>2. PICK h \in Nat \ {0} : H = 2 * h /\ h = H \div 2
      BY MapSizes
    <3>3. Width \in Nat /\ Height \in Nat
      BY MapSizes
    <3>4. (Width - 2 * w) \div 2 = Width \div 2 - w /\ (Height - 2 * h) \div 2 = Height \div 2 - h
      BY <3>3
    <3>5. o[1] = g[1] - (Width \div 2 - w) /\ o[2] = g[2] - (Height \div 2 - h)
      BY <1>4, <1>5, <2>3, <3>1, <3>2, <3>4
    <3>. QED
      BY <3>1, <3>2, <3>3, <3>5
  <2>5. View!GuiToMap(Width \div 2 + o[1], Height \div 2 + o[2]) = <<x, y>>
    BY <1>3, <2>4, MiddleIsInside
  <2>6. View!MapPosToTile(x, y) = t
    BY <1>1, <1>2, TileAtPlace DEF MapParams
  <2>. QED
    BY <2>5, <2>6 DEF View!CanvasPosToTile
<1>. QED
  BY <1>10, <1>11

-----------------------------------------------------------------------------
(* The invariant.                                                          *)

\* A tile looks as it was drawn, or it will be drawn again.
Covered(t) == shown[t] \in {View!Content(t), "city"} \/ dirtyAll \/ t \in dirty

\* All that is on the canvas of the origin it was drawn for is covered.
FreshCanvas ==
  base # NoOrigin => base \in Int \X Int /\ \A t \in View!OnCanvas(base) : Covered(t)

ViewInv ==
  /\ View!TypeOK /\ View!CenteredInMiddle
  /\ FreshCanvas /\ (sliding => base = NoOrigin)

LEMMA InvMeansSound ==
  ASSUME MapParams, ViewInv
  PROVE  View!ViewSound
<1>1. View!TypeOK /\ View!CenteredInMiddle /\ FreshCanvas
  BY DEF ViewInv
<1>2. origin \in Int \X Int /\ origin # NoOrigin
  BY <1>1 DEF View!TypeOK, MapParams
<1>3. View!InPlaceFresh
  BY <1>1, <1>2 DEF View!InPlaceFresh, FreshCanvas, Covered
<1>4. View!TapPicksWhatIsDrawn
  BY <1>2, TapPicks
<1>. QED
  BY <1>1, <1>3, <1>4 DEF View!ViewSound

LEMMA ContentTyped ==
  ASSUME View!TypeOK, NEW t \in View!Tiles
  PROVE  View!Content(t) \in View!Contents
BY DEF View!TypeOK, View!Content, View!Contents

\* Marking forgets no mark, and marks the tiles it is given, or all.
LEMMA Marks ==
  ASSUME MapParams, View!TypeOK, NEW S \in SUBSET View!Tiles, NEW n \in Nat, View!MarkDirty(S, n)
  PROVE  /\ dirty' \subseteq View!Tiles /\ dirtyAll' \in BOOLEAN /\ count' \in 0..Threshold + 1
         /\ \A t : dirtyAll \/ t \in dirty \/ t \in S => dirtyAll' \/ t \in dirty'
<1>1. Threshold \in Nat /\ count \in 0..Threshold + 1 /\ dirty \subseteq View!Tiles /\ dirtyAll \in BOOLEAN
  BY DEF MapParams, View!TypeOK
<1>2. CASE dirtyAll
  BY <1>1, <1>2 DEF View!MarkDirty, View!marks
<1>3. CASE ~dirtyAll
  <2>1. /\ dirty' = dirty \cup S /\ count' = View!Smaller(count + n, Threshold + 1)
        /\ dirtyAll' = (count' > Threshold)
    BY <1>3 DEF View!MarkDirty
  <2>2. count' \in 0..Threshold + 1
    BY <1>1, <2>1 DEF View!Smaller
  <2>3. dirtyAll' \in BOOLEAN
    BY <2>1
  <2>. QED
    BY <1>1, <1>3, <2>1, <2>2, <2>3
<1>. QED
  BY <1>2, <1>3

\* A packet marks the tiles that it changes, except for the city that is gone.
LEMMA PacketKeeps ==
  ASSUME ViewInv, UNCHANGED <<origin, sliding, shown, base, click>>,
         ground' \in [View!Tiles -> Grounds], cities' \subseteq Towns, at' \in View!Tiles,
         dirty' \subseteq View!Tiles, dirtyAll' \in BOOLEAN, count' \in 0..Threshold + 1,
         \A t : dirtyAll \/ t \in dirty => dirtyAll' \/ t \in dirty',
         \A t \in View!Tiles : \/ View!Content(t)' = View!Content(t) \/ View!Content(t) = "city"
                               \/ dirtyAll' \/ t \in dirty'
  PROVE  ViewInv'
<1>1. View!TypeOK'
  BY DEF ViewInv, View!TypeOK
<1>2. View!CenteredInMiddle'
  BY DEF ViewInv, View!CenteredInMiddle
<1>3. FreshCanvas'
  <2>. SUFFICES ASSUME base # NoOrigin
                PROVE  base \in Int \X Int /\ \A t \in View!OnCanvas(base) : Covered(t)'
    BY DEF FreshCanvas
  <2>1. base \in Int \X Int /\ \A t \in View!OnCanvas(base) : Covered(t)
    BY DEF ViewInv, FreshCanvas
  <2>2. ASSUME NEW t \in View!OnCanvas(base)
        PROVE  Covered(t)'
    <3>1. t \in View!Tiles
      BY DEF View!OnCanvas
    <3>2. Covered(t)
      BY <2>1
    <3>3. PICK old : old = View!Content(t)
      OBVIOUS
    <3>4. PICK new : new = View!Content(t)'
      OBVIOUS
    <3>5. new = old \/ old = "city" \/ dirtyAll' \/ t \in dirty'
      BY <3>1, <3>3, <3>4
    <3>6. shown[t] \in {old, "city"} \/ dirtyAll' \/ t \in dirty'
      BY <3>2, <3>3 DEF Covered
    <3>7. shown[t] \in {new, "city"} \/ dirtyAll' \/ t \in dirty'
      BY <3>5, <3>6
    <3>. QED
      BY <3>4, <3>7 DEF Covered
  <2>. QED
    BY <2>1, <2>2
<1>. QED
  BY <1>1, <1>2, <1>3 DEF ViewInv

LEMMA TileInfoKeeps ==
  ASSUME MapParams, ViewInv, NEW t \in Changing, View!TileInfo(t)
  PROVE  ViewInv'
<1>1. t \in View!Tiles /\ View!TypeOK
  BY DEF MapParams, ViewInv
<1>2. PICK k \in Grounds : ground' = [ground EXCEPT ![t] = k]
  BY DEF View!TileInfo
<1>3. /\ View!MarkDirty({t}, 1)
      /\ UNCHANGED <<cities, at>> /\ UNCHANGED <<origin, sliding, shown, base, click>>
  BY DEF View!TileInfo, View!canvas
<1>4. /\ dirty' \subseteq View!Tiles /\ dirtyAll' \in BOOLEAN /\ count' \in 0..Threshold + 1
      /\ \A u : dirtyAll \/ u \in dirty \/ u \in {t} => dirtyAll' \/ u \in dirty'
  <2>1. PICK S \in SUBSET View!Tiles : S = {t}
    BY <1>1
  <2>2. View!MarkDirty(S, 1)
    BY <1>3, <2>1, Zenon
  <2>3. /\ dirty' \subseteq View!Tiles /\ dirtyAll' \in BOOLEAN /\ count' \in 0..Threshold + 1
        /\ \A u : dirtyAll \/ u \in dirty \/ u \in S => dirtyAll' \/ u \in dirty'
    BY <1>1, <2>2, Marks
  <2>. QED
    BY <2>1, <2>3
<1>5. ground' \in [View!Tiles -> Grounds] /\ \A u \in View!Tiles : u # t => ground'[u] = ground[u]
  BY <1>1, <1>2 DEF View!TypeOK
<1>6. cities' \subseteq Towns /\ at' \in View!Tiles
  BY <1>1, <1>3 DEF View!TypeOK
<1>7. \A u \in View!Tiles : View!Content(u)' = View!Content(u) \/ dirtyAll' \/ u \in dirty'
  BY <1>3, <1>4, <1>5 DEF View!Content
<1>. QED
  BY <1>3, <1>4, <1>5, <1>6, <1>7, PacketKeeps

LEMMA CityInfoKeeps ==
  ASSUME MapParams, ViewInv, NEW t \in Towns, NEW n \in 1..2, View!CityInfo(t, n)
  PROVE  ViewInv'
<1>1. t \in View!Tiles /\ View!TypeOK
  BY DEF MapParams, ViewInv
<1>2. /\ View!MarkDirty({t}, n) /\ cities' = cities \cup {t}
      /\ UNCHANGED <<ground, at>> /\ UNCHANGED <<origin, sliding, shown, base, click>>
  BY DEF View!CityInfo, View!canvas
<1>3. /\ dirty' \subseteq View!Tiles /\ dirtyAll' \in BOOLEAN /\ count' \in 0..Threshold + 1
      /\ \A u : dirtyAll \/ u \in dirty \/ u \in {t} => dirtyAll' \/ u \in dirty'
  <2>1. PICK S \in SUBSET View!Tiles : S = {t}
    BY <1>1
  <2>2. View!MarkDirty(S, n) /\ n \in Nat
    <3>1. View!MarkDirty(S, n)
      BY <1>2, <2>1, Zenon
    <3>. QED
      BY <3>1
  <2>3. /\ dirty' \subseteq View!Tiles /\ dirtyAll' \in BOOLEAN /\ count' \in 0..Threshold + 1
        /\ \A u : dirtyAll \/ u \in dirty \/ u \in S => dirtyAll' \/ u \in dirty'
    BY <1>1, <2>2, Marks
  <2>. QED
    BY <2>1, <2>3
<1>4. ground' \in [View!Tiles -> Grounds] /\ cities' \subseteq Towns /\ at' \in View!Tiles
  BY <1>1, <1>2 DEF View!TypeOK
<1>5. \A u \in View!Tiles : View!Content(u)' = View!Content(u) \/ dirtyAll' \/ u \in dirty'
  BY <1>2, <1>3 DEF View!Content
<1>. QED
  BY <1>2, <1>3, <1>4, <1>5, PacketKeeps

LEMMA CityRemoveKeeps ==
  ASSUME MapParams, ViewInv, NEW t \in Towns, View!CityRemove(t)
  PROVE  ViewInv'
<1>1. /\ t \in cities /\ cities' = cities \ {t} /\ UNCHANGED <<dirty, dirtyAll, count>>
      /\ UNCHANGED <<ground, at>> /\ UNCHANGED <<origin, sliding, shown, base, click>>
  BY DEF View!CityRemove, View!canvas, View!marks
<1>2. /\ dirty' \subseteq View!Tiles /\ dirtyAll' \in BOOLEAN /\ count' \in 0..Threshold + 1
      /\ ground' \in [View!Tiles -> Grounds] /\ cities' \subseteq Towns /\ at' \in View!Tiles
  BY <1>1 DEF ViewInv, View!TypeOK
<1>3. \A u \in View!Tiles : View!Content(u)' = View!Content(u) \/ View!Content(u) = "city"
  BY <1>1 DEF View!Content
<1>. QED
  BY <1>1, <1>2, <1>3, PacketKeeps

LEMMA UnitMoveKeeps ==
  ASSUME MapParams, ViewInv, NEW dir, View!UnitMove(dir)
  PROVE  ViewInv'
<1>1. View!TypeOK /\ at \in View!Tiles
  BY DEF ViewInv, View!TypeOK
<1>2. /\ at' \in View!Tiles
      /\ UNCHANGED <<ground, cities>> /\ UNCHANGED <<origin, sliding, shown, base, click>>
  BY DEF View!UnitMove, View!canvas, MapParams
<1>3. PICK n \in Nat : View!MarkDirty({at, at'}, n)
  <2>1. CASE at' = at
    <3>1. View!MarkDirty({at}, 1) /\ {at} = {at, at'}
      BY <2>1 DEF View!UnitMove
    <3>. QED
      BY <3>1, Zenon
  <2>2. CASE at' # at
    BY <2>2 DEF View!UnitMove
  <2>. QED
    BY <2>1, <2>2
<1>4. /\ dirty' \subseteq View!Tiles /\ dirtyAll' \in BOOLEAN /\ count' \in 0..Threshold + 1
      /\ \A u : dirtyAll \/ u \in dirty \/ u \in {at, at'} => dirtyAll' \/ u \in dirty'
  <2>1. PICK S \in SUBSET View!Tiles : S = {at, at'}
    BY <1>1, <1>2
  <2>2. View!MarkDirty(S, n)
    BY <1>3, <2>1
  <2>3. /\ dirty' \subseteq View!Tiles /\ dirtyAll' \in BOOLEAN /\ count' \in 0..Threshold + 1
        /\ \A u : dirtyAll \/ u \in dirty \/ u \in S => dirtyAll' \/ u \in dirty'
    BY <1>1, <2>2, Marks
  <2>. QED
    BY <2>1, <2>3
<1>5. ground' \in [View!Tiles -> Grounds] /\ cities' \subseteq Towns
  BY <1>1, <1>2 DEF View!TypeOK
<1>6. \A u \in View!Tiles : View!Content(u)' = View!Content(u) \/ dirtyAll' \/ u \in dirty'
  BY <1>2, <1>4 DEF View!Content
<1>. QED
  BY <1>2, <1>4, <1>5, <1>6, PacketKeeps

LEMMA BeginTurnKeeps ==
  ASSUME MapParams, ViewInv, View!BeginTurn
  PROVE  ViewInv'
<1>1. /\ dirtyAll' = TRUE /\ UNCHANGED <<dirty, count>>
      /\ UNCHANGED <<ground, cities, at>> /\ UNCHANGED <<origin, sliding, shown, base, click>>
  BY DEF View!BeginTurn, View!canvas, View!mapVars
<1>2. /\ dirty' \subseteq View!Tiles /\ dirtyAll' \in BOOLEAN /\ count' \in 0..Threshold + 1
      /\ ground' \in [View!Tiles -> Grounds] /\ cities' \subseteq Towns /\ at' \in View!Tiles
  BY <1>1 DEF ViewInv, View!TypeOK
<1>. QED
  BY <1>1, <1>2, PacketKeeps

LEMMA Cleared ==
  ASSUME MapParams, View!ClearDirty
  PROVE  dirty' \subseteq View!Tiles /\ dirtyAll' \in BOOLEAN /\ count' \in 0..Threshold + 1
<1>1. dirty' = {} /\ count' = 0 /\ Threshold \in Nat
  BY DEF View!ClearDirty, MapParams
<1>2. dirtyAll' \in BOOLEAN
  BY Zenon DEF View!ClearDirty
<1>. QED
  BY <1>1, <1>2

\* What a full redraw leaves is fresh for the origin it was drawn for.
LEMMA RedrawIsFresh ==
  ASSUME MapParams, ViewInv, View!FullRedraw, UNCHANGED <<ground, cities, at>>
  PROVE  /\ FreshCanvas'
         /\ shown' \in [View!Tiles -> View!Contents \cup {View!Blank}]
         /\ dirty' \subseteq View!Tiles /\ dirtyAll' \in BOOLEAN /\ count' \in 0..Threshold + 1
<1>1. shown' = View!Repaint(origin) /\ base' = origin
  BY DEF View!FullRedraw
<1>2. dirty' \subseteq View!Tiles /\ dirtyAll' \in BOOLEAN /\ count' \in 0..Threshold + 1
  BY Cleared DEF View!FullRedraw
<1>3. View!TypeOK /\ origin \in Int \X Int
  BY DEF ViewInv, View!TypeOK
<1>4. \A t \in View!Tiles :
        shown'[t] = IF t \in View!InView(origin) THEN View!Content(t) ELSE View!Blank
  BY <1>1 DEF View!Repaint
<1>5. shown' \in [View!Tiles -> View!Contents \cup {View!Blank}]
  <2>1. \A t \in View!Tiles :
          (IF t \in View!InView(origin) THEN View!Content(t) ELSE View!Blank)
            \in View!Contents \cup {View!Blank}
    BY <1>3, ContentTyped
  <2>. QED
    BY <1>1, <2>1, Zenon DEF View!Repaint
<1>6. ASSUME NEW t \in View!OnCanvas(origin)
      PROVE  Covered(t)'
  <2>1. t \in View!Tiles
    BY DEF View!OnCanvas
  <2>2. t \in View!InView(origin)
    BY <1>3, OnCanvasInView
  <2>3. View!Content(t)' = View!Content(t)
    BY DEF View!Content
  <2>4. shown'[t] = View!Content(t)'
    BY <1>4, <2>1, <2>2, <2>3
  <2>. QED
    BY <2>4 DEF Covered
<1>7. FreshCanvas'
  BY <1>1, <1>3, <1>6, Zenon DEF FreshCanvas
<1>. QED
  BY <1>2, <1>5, <1>7

\* Drawing the marked tiles again makes what is on the canvas fresh.
LEMMA PatchIsFresh ==
  ASSUME MapParams, ViewInv, View!DirtyFrame, ~dirtyAll, UNCHANGED <<ground, cities, at, origin>>
  PROVE  /\ FreshCanvas'
         /\ shown' \in [View!Tiles -> View!Contents \cup {View!Blank}]
         /\ dirty' \subseteq View!Tiles /\ dirtyAll' \in BOOLEAN /\ count' \in 0..Threshold + 1
<1>1. shown' = View!Patched /\ base' = IF base = origin THEN origin ELSE NoOrigin
  BY DEF View!DirtyFrame
<1>2. dirty' \subseteq View!Tiles /\ dirtyAll' \in BOOLEAN /\ count' \in 0..Threshold + 1
  BY Cleared DEF View!DirtyFrame
<1>3. View!TypeOK /\ origin \in Int \X Int /\ origin # NoOrigin
  BY DEF ViewInv, View!TypeOK, MapParams
<1>4. PICK again : again = UNION {View!Patch(origin, t) : t \in dirty}
  OBVIOUS
<1>5. shown' = [t \in View!Tiles |-> IF t \in again THEN View!Content(t) ELSE shown[t]]
  BY <1>1, <1>4 DEF View!Patched
<1>6. shown' \in [View!Tiles -> View!Contents \cup {View!Blank}]
  <2>1. \A t \in View!Tiles : shown[t] \in View!Contents \cup {View!Blank}
    BY <1>3 DEF View!TypeOK
  <2>2. \A t \in View!Tiles : (IF t \in again THEN View!Content(t) ELSE shown[t])
                                 \in View!Contents \cup {View!Blank}
    BY <1>3, <2>1, ContentTyped
  <2>. QED
    BY <1>5, <2>2, Zenon
<1>7. ASSUME base = origin, NEW t \in View!OnCanvas(origin)
      PROVE  Covered(t)'
  <2>1. t \in View!Tiles
    BY DEF View!OnCanvas
  <2>2. Covered(t)
    BY <1>3, <1>7 DEF ViewInv, FreshCanvas
  <2>3. View!Content(t)' = View!Content(t)
    BY DEF View!Content
  <2>4. t \in dirty => t \in again
    BY <1>3, <1>4, OnCanvasPatched
  <2>5. shown'[t] = IF t \in again THEN View!Content(t) ELSE shown[t]
    BY <1>5, <2>1
  <2>. QED
    BY <2>2, <2>3, <2>4, <2>5 DEF Covered
<1>8. FreshCanvas'
  BY <1>1, <1>3, <1>7, Zenon DEF FreshCanvas
<1>. QED
  BY <1>2, <1>6, <1>8

\* The canvas and the marks were renewed; the map and the view are the same.
LEMMA DrawnKeeps ==
  ASSUME MapParams, ViewInv, UNCHANGED <<ground, cities, at, origin, click>>,
         FreshCanvas', shown' \in [View!Tiles -> View!Contents \cup {View!Blank}],
         dirty' \subseteq View!Tiles, dirtyAll' \in BOOLEAN, count' \in 0..Threshold + 1,
         sliding' \in BOOLEAN, sliding' => base' = NoOrigin
  PROVE  ViewInv'
<1>1. View!TypeOK'
  BY DEF ViewInv, View!TypeOK
<1>2. View!CenteredInMiddle'
  BY DEF ViewInv, View!CenteredInMiddle
<1>. QED
  BY <1>1, <1>2 DEF ViewInv

LEMMA SlideFrameKeeps ==
  ASSUME MapParams, ViewInv, View!SlideFrame, UNCHANGED <<ground, cities, at, origin, click>>
  PROVE  ViewInv'
<1>1. /\ sliding /\ sliding' \in BOOLEAN /\ dirty' \subseteq View!Tiles /\ dirtyAll' \in BOOLEAN /\ count' \in 0..Threshold + 1
      /\ UNCHANGED <<shown, base>>
  BY Cleared DEF View!SlideFrame, View!canvas
<1>2. base' = NoOrigin
  BY <1>1 DEF ViewInv
<1>3. FreshCanvas'
  BY <1>2, Zenon DEF FreshCanvas
<1>4. shown' \in [View!Tiles -> View!Contents \cup {View!Blank}]
  <2>1. shown \in [View!Tiles -> View!Contents \cup {View!Blank}]
    BY DEF ViewInv, View!TypeOK
  <2>. QED
    BY <1>1, <2>1
<1>. QED
  BY <1>1, <1>2, <1>3, <1>4, DrawnKeeps

LEMMA RedrawKeeps ==
  ASSUME MapParams, ViewInv, ~sliding, View!FullRedraw,
         UNCHANGED <<ground, cities, at, origin, click, sliding>>
  PROVE  ViewInv'
<1>1. /\ FreshCanvas'
      /\ shown' \in [View!Tiles -> View!Contents \cup {View!Blank}]
      /\ dirty' \subseteq View!Tiles /\ dirtyAll' \in BOOLEAN /\ count' \in 0..Threshold + 1
  BY RedrawIsFresh
<1>. QED
  BY <1>1, DrawnKeeps DEF ViewInv, View!TypeOK

LEMMA FrameKeeps ==
  ASSUME MapParams, ViewInv, View!Frame
  PROVE  ViewInv'
<1>1. UNCHANGED <<ground, cities, at, origin, click>>
  BY DEF View!Frame, View!mapVars
<1>2. CASE View!SlideFrame
  BY <1>1, <1>2, SlideFrameKeeps
<1>3. CASE ~sliding /\ View!FullRedraw /\ UNCHANGED sliding
  BY <1>1, <1>3, RedrawKeeps
<1>4. CASE ~sliding /\ ~dirtyAll /\ View!DirtyFrame /\ UNCHANGED sliding
  <2>1. /\ FreshCanvas'
        /\ shown' \in [View!Tiles -> View!Contents \cup {View!Blank}]
        /\ dirty' \subseteq View!Tiles /\ dirtyAll' \in BOOLEAN /\ count' \in 0..Threshold + 1
    BY <1>1, <1>4, PatchIsFresh
  <2>2. sliding' \in BOOLEAN /\ (sliding' => base' = NoOrigin)
    BY <1>4 DEF ViewInv, View!TypeOK
  <2>. QED
    BY <1>1, <2>1, <2>2, DrawnKeeps
<1>. QED
  BY <1>2, <1>3, <1>4 DEF View!Frame

LEMMA ResizeKeeps ==
  ASSUME MapParams, ViewInv, View!WindowResized
  PROVE  ViewInv'
<1>1. UNCHANGED <<ground, cities, at, origin, click>>
  BY DEF View!WindowResized, View!mapVars
<1>. QED
  BY <1>1, SlideFrameKeeps, RedrawKeeps DEF View!WindowResized

\* The view is moved to a tile.
LEMMA CenterKeeps ==
  ASSUME MapParams, ViewInv, NEW t \in View!Tiles, View!Center(t), UNCHANGED <<ground, cities, at>>,
         FreshCanvas', shown' \in [View!Tiles -> View!Contents \cup {View!Blank}],
         dirty' \subseteq View!Tiles, dirtyAll' \in BOOLEAN, count' \in 0..Threshold + 1,
         sliding' \in BOOLEAN, sliding' => base' = NoOrigin
  PROVE  ViewInv'
<1>1. click' = t /\ origin' = View!SetMapviewOrigin(View!CenterPos(t))
  BY DEF View!Center
<1>2. PICK o : o = origin'
  OBVIOUS
<1>3. /\ o \in Int \X Int
      /\ ~WrapX /\ ~WrapY => View!CanvasPosToTile(o, Width \div 2, Height \div 2) = t
  BY <1>1, <1>2, CenterIsMiddle
<1>4. View!TypeOK'
  BY <1>1, <1>2, <1>3 DEF ViewInv, View!TypeOK
<1>5. View!CenteredInMiddle'
  BY <1>1, <1>2, <1>3 DEF View!CenteredInMiddle
<1>. QED
  BY <1>4, <1>5 DEF ViewInv

LEMMA FreshStays ==
  ASSUME ViewInv, UNCHANGED <<ground, cities, at, dirty, dirtyAll, shown, base>>
  PROVE  FreshCanvas'
BY DEF ViewInv, FreshCanvas, Covered, View!Content

LEMMA CenterTileKeeps ==
  ASSUME MapParams, ViewInv, NEW t \in Sights, View!CenterTile(t)
  PROVE  ViewInv'
<1>1. View!Center(t) /\ UNCHANGED <<ground, cities, at, dirty, dirtyAll, count, sliding, shown, base>>
  BY DEF View!CenterTile, View!mapVars, View!marks, View!canvas
<1>2. t \in View!Tiles
  BY DEF MapParams
<1>3. FreshCanvas'
  BY <1>1, FreshStays
<1>4. /\ shown' \in [View!Tiles -> View!Contents \cup {View!Blank}]
      /\ dirty' \subseteq View!Tiles /\ dirtyAll' \in BOOLEAN /\ count' \in 0..Threshold + 1
      /\ sliding' \in BOOLEAN /\ (sliding' => base' = NoOrigin)
  BY <1>1 DEF ViewInv, View!TypeOK
<1>. QED
  BY <1>1, <1>2, <1>3, <1>4, CenterKeeps

LEMMA RecenterKeeps ==
  ASSUME MapParams, ViewInv, NEW t \in Sights, View!Recenter(t)
  PROVE  ViewInv'
<1>1. PICK u : u = View!Kept(t)
  OBVIOUS
<1>2. u \in View!Tiles
  BY <1>1 DEF View!Recenter, View!Kept, View!MapPosToTile, MapParams
<1>3. View!Center(u) /\ UNCHANGED <<ground, cities, at>>
  BY <1>1 DEF View!Recenter, View!mapVars
<1>4. CASE sliding' = TRUE /\ base' = NoOrigin /\ UNCHANGED <<shown, dirty, dirtyAll, count>>
  <2>1. FreshCanvas'
    BY <1>4, Zenon DEF FreshCanvas
  <2>2. /\ shown' \in [View!Tiles -> View!Contents \cup {View!Blank}]
        /\ dirty' \subseteq View!Tiles /\ dirtyAll' \in BOOLEAN /\ count' \in 0..Threshold + 1
    BY <1>4 DEF ViewInv, View!TypeOK
  <2>3. sliding' \in BOOLEAN /\ (sliding' => base' = NoOrigin)
    BY <1>4
  <2>. QED
    BY <1>2, <1>3, <2>1, <2>2, <2>3, CenterKeeps
<1>5. CASE sliding' = FALSE /\ View!FullRedraw
  <2>1. /\ FreshCanvas'
        /\ shown' \in [View!Tiles -> View!Contents \cup {View!Blank}]
        /\ dirty' \subseteq View!Tiles /\ dirtyAll' \in BOOLEAN /\ count' \in 0..Threshold + 1
    BY <1>3, <1>5, RedrawIsFresh
  <2>2. sliding' \in BOOLEAN /\ (sliding' => base' = NoOrigin)
    BY <1>5
  <2>. QED
    BY <1>2, <1>3, <2>1, <2>2, CenterKeeps
<1>. QED
  BY <1>4, <1>5 DEF View!Recenter, View!marks

LEMMA TouchMoveKeeps ==
  ASSUME MapParams, ViewInv, NEW d \in Drags, View!TouchMove(d)
  PROVE  ViewInv'
<1>1. /\ click' = NoTile /\ origin' = <<origin[1] + 2 * d[1], origin[2] + 2 * d[2]>>
      /\ UNCHANGED <<ground, cities, at, dirty, dirtyAll, count, sliding, shown, base>>
  BY DEF View!TouchMove, View!mapVars, View!marks, View!canvas
<1>2. origin' \in Int \X Int
  <2>1. origin \in Int \X Int /\ d \in Int \X Int
    BY DEF ViewInv, View!TypeOK, MapParams
  <2>. QED
    BY <1>1, <2>1
<1>3. FreshCanvas'
  BY <1>1, FreshStays
<1>4. View!TypeOK' /\ (sliding' => base' = NoOrigin)
  BY <1>1, <1>2 DEF ViewInv, View!TypeOK
<1>5. View!CenteredInMiddle'
  BY <1>1 DEF View!CenteredInMiddle
<1>. QED
  BY <1>3, <1>4, <1>5 DEF ViewInv

LEMMA ViewInit ==
  ASSUME MapParams, View!Init
  PROVE  ViewInv
<1>1. /\ cities = {} /\ at \in Roams /\ origin = <<0, 0>> /\ click = NoTile
      /\ dirty = {} /\ dirtyAll = TRUE /\ count = 0 /\ sliding = FALSE
      /\ shown = [t \in View!Tiles |-> View!Blank] /\ base = NoOrigin
      /\ ground = [t \in View!Tiles |-> CHOOSE k \in Grounds : TRUE]
  BY DEF View!Init
<1>2. (CHOOSE k \in Grounds : TRUE) \in Grounds
  BY DEF MapParams
<1>3. ground \in [View!Tiles -> Grounds]
  BY <1>1, <1>2
<1>4. shown \in [View!Tiles -> View!Contents \cup {View!Blank}]
  BY <1>1
<1>5. at \in View!Tiles /\ Threshold \in Nat
  BY <1>1 DEF MapParams
<1>6. dirtyAll \in BOOLEAN /\ sliding \in BOOLEAN
  BY <1>1, Zenon
<1>7. dirty \subseteq View!Tiles /\ cities \subseteq Towns /\ origin \in Int \X Int /\ count \in 0..Threshold + 1
  BY <1>1, <1>5
<1>8. View!TypeOK
  BY <1>1, <1>3, <1>4, <1>7, <1>5, <1>6 DEF View!TypeOK
<1>. QED
  BY <1>1, <1>8 DEF ViewInv, FreshCanvas, View!CenteredInMiddle

\* The map view is sound: a tile on the canvas that looks different by now is
\* marked to be drawn again, a tap picks the tile that is drawn under it, and a
\* view that was centered on a tile has it in its middle.
THEOREM ViewIsSound ==
  ASSUME MapParams
  PROVE  View!Spec => []View!ViewSound
<1>1. View!Init => ViewInv
  BY ViewInit
<1>2. ViewInv /\ [View!Next]_(View!vars) => ViewInv'
  <2>. SUFFICES ASSUME ViewInv, [View!Next]_(View!vars)
                PROVE  ViewInv'
    OBVIOUS
  <2>1. ASSUME UNCHANGED View!vars
        PROVE  ViewInv'
    <3>1. /\ UNCHANGED <<ground, cities, at, dirty, dirtyAll, count, sliding, shown, base>>
          /\ UNCHANGED <<origin, click>>
      BY <2>1 DEF View!vars, View!mapVars, View!marks, View!canvas
    <3>2. FreshCanvas'
      BY <3>1, FreshStays
    <3>. QED
      BY <3>1, <3>2 DEF ViewInv, View!TypeOK, View!CenteredInMiddle
  <2>2. CASE \E t \in Changing : View!TileInfo(t)
    BY <2>2, TileInfoKeeps
  <2>3. CASE \E t \in Towns : View!CityRemove(t) \/ \E n \in 1..2 : View!CityInfo(t, n)
    BY <2>3, CityRemoveKeeps, CityInfoKeeps
  <2>4. CASE \E dir \in View!Dirs : View!UnitMove(dir)
    BY <2>4, UnitMoveKeeps
  <2>5. CASE View!BeginTurn
    BY <2>5, BeginTurnKeeps
  <2>6. CASE View!Frame
    BY <2>6, FrameKeeps
  <2>7. CASE View!IdleFrame
    BY <2>1, <2>7 DEF View!IdleFrame
  <2>8. CASE View!WindowResized
    BY <2>8, ResizeKeeps
  <2>9. CASE \E t \in Sights : View!Recenter(t) \/ View!CenterTile(t)
    BY <2>9, RecenterKeeps, CenterTileKeeps
  <2>10. CASE \E d \in Drags : View!TouchMove(d)
    BY <2>10, TouchMoveKeeps
  <2>. QED
    BY <2>1, <2>2, <2>3, <2>4, <2>5, <2>6, <2>7, <2>8, <2>9, <2>10 DEF View!Next
<1>3. ViewInv => View!ViewSound
  BY InvMeansSound
<1>. QED
  BY <1>1, <1>2, <1>3, PTL DEF View!Spec
=============================================================================
