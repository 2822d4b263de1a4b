--------------------------- MODULE WebClient_proofs ---------------------------
(***************************************************************************)
(* Proofs about parts of the web client, for every value of their          *)
(* parameters: the meeting of diplomats (Treaty), the relations between    *)
(* nations (Nations, as Courts), the session (Session, as Client),         *)
(* research (Research, as Study), rates and governments (Rates, as         *)
(* Treasury), chat (Chat, as Talk), the choice of a nation (NationChoice,  *)
(* as Room), the settings of a game (GameSettings, as Pregame), saved      *)
(* games (SavedGames, as Shelf) and the first page (Entry, as Door). The   *)
(* parts share no state and no theorem is about two of them: a parameter   *)
(* or a variable whose name several have stands for each one's own.        *)
(***************************************************************************)
EXTENDS Treaty, FiniteSetTheorems, SequenceTheorems, WellFoundedInduction, TLAPS

-----------------------------------------------------------------------------
(* The meeting.                                                            *)

\* A sequence, whatever it is of.
IsSeq(s) == s \in Seq({s[i] : i \in DOMAIN s})

\* A list of clauses and those missed have a clause, or a packet that is still to
\* come adds it; only what follows the last packet of a new meeting counts.
Latest(n, i) == \A j \in DOMAIN n : j > i => n[j].kind # "init"
Coming(n, c) == \E i \in DOMAIN n : n[i].kind = "create" /\ n[i].clause = c /\ Latest(n, i)
Noted(n, c) == Latest(n, 0) /\ c \in {Listed[i] : i \in DOMAIN Listed} \cup missed
Accounted == \A c \in treaty : Coming(net, c) \/ Noted(net, c)

\* What is needed of the parameters.
TreatyParams == Me # Other

\* The tables part before anything about a meeting arrives.
Begun ==
  \/ {"infos", "clauses"} \subseteq apart
  \/ "infos" \in apart /\ Len(net) >= 1 /\ net[1].kind = "seat"
  \/ "infos" \in apart /\ Len(net) >= 2 /\ net[1].kind = "clauses" /\ net[2].kind = "seat"
  \/ /\ Len(net) >= 3
     /\ net[1].kind = "control" /\ net[2].kind = "clauses" /\ net[3].kind = "seat"

\* Nobody acts for the player.
Silent ==
  /\ ~infos /\ ~dialog /\ ~concluded
  /\ accepted \subseteq {Other} /\ meeting \in BOOLEAN
  /\ ~meeting => treaty = {}
  /\ out \in Seq({"init"})

\* That the list has the treaty's clauses once everything has arrived is inductive
\* with what is on its way, and the order of the first packets.
TreatyInv == IsSeq(net) /\ IsSeq(Listed) /\ Silent /\ Begun /\ Accounted

-----------------------------------------------------------------------------
\* A sequence of any set is one.
LEMMA SequenceIs ==
  ASSUME NEW S, NEW s \in Seq(S)
  PROVE  IsSeq(s)
<1>1. s \in [1..Len(s) -> S] /\ Len(s) \in Nat
  BY LenProperties
<1>2. s \in [1..Len(s) -> {s[i] : i \in DOMAIN s}]
  BY <1>1
<1>. QED
  BY <1>1, <1>2, SeqDef DEF IsSeq

\* The places of a sequence.
LEMMA SequenceHas ==
  ASSUME NEW s, IsSeq(s)
  PROVE  Len(s) \in Nat /\ DOMAIN s = 1..Len(s) /\ IsFiniteSet(DOMAIN s)
<1>1. Len(s) \in Nat /\ DOMAIN s = 1..Len(s)
  BY LenProperties DEF IsSeq
<1>. QED
  BY <1>1, FS_Interval

\* A sequence and one element more.
LEMMA Appended ==
  ASSUME NEW s, IsSeq(s), NEW x, NEW t, t = Append(s, x)
  PROVE  /\ IsSeq(t) /\ Len(t) = Len(s) + 1 /\ DOMAIN t = DOMAIN s \cup {Len(s) + 1}
         /\ t[Len(s) + 1] = x /\ \A i \in DOMAIN s : t[i] = s[i]
<1> DEFINE S == {s[i] : i \in DOMAIN s} \cup {x}
<1>1. s \in Seq({s[i] : i \in DOMAIN s})
  BY DEF IsSeq
<1>2. s \in Seq(S) /\ x \in S
  BY <1>1, SeqDef
<1>3. /\ t \in Seq(S) /\ Len(t) = Len(s) + 1
      /\ \A i \in 1..Len(s) : t[i] = s[i]
      /\ t[Len(s) + 1] = x
  <2> HIDE DEF S
  <2>. QED
    BY <1>2, AppendProperties
<1>4. IsSeq(t)
  <2> HIDE DEF S
  <2>. QED
    BY <1>3, SequenceIs
<1>. QED
  BY <1>3, <1>4, SequenceHas

\* A sequence without its first element.
LEMMA Taken ==
  ASSUME NEW s, IsSeq(s), s # <<>>, NEW t, t = Tail(s)
  PROVE  /\ IsSeq(t) /\ Len(t) = Len(s) - 1 /\ Len(s) >= 1
         /\ \A i \in DOMAIN t : i + 1 \in DOMAIN s /\ t[i] = s[i + 1]
         /\ \A i \in DOMAIN s : i # 1 => i - 1 \in DOMAIN t /\ t[i - 1] = s[i]
         /\ 1 \in DOMAIN s /\ Head(s) = s[1]
<1> DEFINE S == {s[i] : i \in DOMAIN s}
<1>1. s \in Seq(S)
  BY DEF IsSeq
<1>2. t \in Seq(S) /\ Len(t) = Len(s) - 1 /\ \A i \in 1..Len(s) - 1 : t[i] = s[i + 1]
  <2> HIDE DEF S
  <2>. QED
    BY <1>1, HeadTailProperties
<1>3. IsSeq(t)
  <2> HIDE DEF S
  <2>. QED
    BY <1>2, SequenceIs
<1>4. Len(s) \in Nat /\ DOMAIN s = 1..Len(s) /\ DOMAIN t = 1..Len(t) /\ Len(s) # 0
  <2> HIDE DEF S
  <2>. QED
    BY <1>1, <1>3, SequenceHas, EmptySeq
<1>5. Head(s) = s[1]
  <2> HIDE DEF S
  <2>. QED
    BY <1>1, HeadTailProperties
<1>. QED
  BY <1>2, <1>3, <1>4, <1>5

\* The empty sequence.
LEMMA EmptyIs == IsSeq(<<>>) /\ DOMAIN <<>> = {} /\ Len(<<>>) = 0
<1>1. <<>> \in Seq({}) /\ Len(<<>>) = 0
  BY EmptySeq
<1>2. IsSeq(<<>>)
  BY <1>1, SequenceIs
<1>3. DOMAIN <<>> = 1..0
  BY <1>1, <1>2, SequenceHas
<1>. QED
  BY <1>1, <1>2, <1>3

\* The places of a sequence of which k elements at the front are left out.
LEMMA Shifted ==
  ASSUME NEW k \in Nat, NEW l \in Nat, k >= 1, k <= l, NEW m \in Nat, m = k + 1,
         NEW h, h = IF m <= l THEN l - m + 1 ELSE 0
  PROVE  /\ h = l - k /\ h \in Nat
         /\ \A i \in 1..h : i \in 1..(l - m + 1) /\ m + i - 1 = i + k /\ i + k \in 1..l
         /\ \A i \in 1..l : i > k => i - k \in 1..h /\ (i - k) + k = i
OBVIOUS

\* A sequence without k elements at its front.
LEMMA Dropped ==
  ASSUME NEW s, IsSeq(s), NEW k \in 1..Len(s), NEW t, t = SubSeq(s, k + 1, Len(s))
  PROVE  /\ IsSeq(t) /\ DOMAIN t = 1..Len(t) /\ Len(t) = Len(s) - k
         /\ \A i \in DOMAIN t : i + k \in DOMAIN s /\ t[i] = s[i + k]
         /\ \A i \in DOMAIN s : i > k => i - k \in DOMAIN t /\ t[i - k] = s[i]
<1> DEFINE S == {s[i] : i \in DOMAIN s}
<1>1. Len(s) \in Nat /\ DOMAIN s = 1..Len(s)
  BY SequenceHas
<1>2. k \in Nat /\ k >= 1 /\ k <= Len(s)
  BY <1>1
<1>. PICK m \in Nat : m = k + 1
  BY <1>2
<1>. PICK l \in Nat : l = Len(s)
  BY <1>1
<1>3. \A i \in m..l : s[i] \in S
  BY <1>1
<1>4. t = SubSeq(s, m, l) /\ m \in Int /\ l \in Int
  OBVIOUS
<1>5. /\ t \in Seq(S) /\ Len(t) = IF m <= l THEN l - m + 1 ELSE 0
      /\ \A i \in 1..(l - m + 1) : t[i] = s[m + i - 1]
  <2> HIDE DEF S
  <2>. QED
    BY <1>3, <1>4, SubSeqProperties
<1>6. IsSeq(t)
  <2> HIDE DEF S
  <2>. QED
    BY <1>5, SequenceIs
<1>7. DOMAIN t = 1..Len(t)
  BY <1>6, SequenceHas
<1>8. /\ Len(t) = l - k
      /\ \A i \in 1..Len(t) : i \in 1..(l - m + 1) /\ m + i - 1 = i + k /\ i + k \in 1..l
      /\ \A i \in 1..l : i > k => i - k \in 1..Len(t) /\ (i - k) + k = i
  <2>1. ASSUME NEW h, h = IF m <= l THEN l - m + 1 ELSE 0
        PROVE  /\ h = l - k /\ h \in Nat
               /\ \A i \in 1..h : i \in 1..(l - m + 1) /\ m + i - 1 = i + k /\ i + k \in 1..l
               /\ \A i \in 1..l : i > k => i - k \in 1..h /\ (i - k) + k = i
    BY <1>2, <2>1, Shifted
  <2>2. Len(t) = IF m <= l THEN l - m + 1 ELSE 0
    BY <1>5
  <2>. QED
    BY <2>1, <2>2, Zenon
<1>9. \A i \in 1..Len(t) : i + k \in 1..l /\ t[i] = s[i + k]
  BY <1>5, <1>8, Zenon
<1>10. \A i \in 1..l : i > k => i - k \in 1..Len(t) /\ t[i - k] = s[i]
  BY <1>8, <1>9, Zenon
<1>. QED
  BY <1>1, <1>6, <1>7, <1>8, <1>9, <1>10, Zenon

\* What is added behind does not change what is accounted for, but for a new
\* meeting, and brings the clause it adds.
LEMMA BehindKeeps ==
  ASSUME NEW n, IsSeq(n), NEW p, NEW m,
         DOMAIN m = DOMAIN n \cup {Len(n) + 1}, m[Len(n) + 1] = p,
         \A i \in DOMAIN n : m[i] = n[i],
         NEW c
  PROVE  /\ p.kind # "init" /\ Coming(n, c) => Coming(m, c)
         /\ p.kind # "init" /\ Noted(n, c) => Noted(m, c)
         /\ p.kind = "create" /\ p.clause = c => Coming(m, c)
<1>2. Len(n) \in Nat /\ DOMAIN n = 1..Len(n)
  BY SequenceHas
<1>3. \A i : p.kind # "init" /\ Latest(n, i) => Latest(m, i)
  BY DEF Latest
<1>4. p.kind # "init" /\ Coming(n, c) => Coming(m, c)
  BY <1>3 DEF Coming
<1>5. p.kind # "init" /\ Noted(n, c) => Noted(m, c)
  BY <1>3 DEF Noted
<1>6. p.kind = "create" /\ p.clause = c => Coming(m, c)
  <2>1. Latest(m, Len(n) + 1)
    BY <1>2 DEF Latest
  <2>. QED
    BY <2>1 DEF Coming
<1>. QED
  BY <1>4, <1>5, <1>6

\* What the packets at the front say stays when one is added behind.
LEMMA BegunKept ==
  ASSUME Begun, IsSeq(net), NEW p, net' = Append(net, p), apart' = apart
  PROVE  Begun'
<1>1. /\ Len(net') = Len(net) + 1 /\ DOMAIN net' = DOMAIN net \cup {Len(net) + 1}
      /\ \A i \in DOMAIN net : net'[i] = net[i]
  BY Appended
<1>2. Len(net) \in Nat /\ DOMAIN net = 1..Len(net)
  BY SequenceHas
<1>3. \A i \in 1..3 : Len(net) >= i => net'[i] = net[i]
  BY <1>1, <1>2
<1>. QED
  BY <1>1, <1>2, <1>3 DEF Begun

\* A packet that adds what is new in the treaty, or begins a meeting without clauses.
LEMMA SaysKeepsTreaty ==
  ASSUME TreatyInv, UNCHANGED <<apart, map, missed>>, NEW p, net' = Append(net, p), Silent',
         \/ treaty' = {}
         \/ /\ p.kind # "init"
            /\ \A c \in treaty' : c \in treaty \/ (p.kind = "create" /\ p.clause = c)
  PROVE  TreatyInv'
<1>1. IsSeq(net')
  BY Appended DEF TreatyInv
<1>2. Listed' = Listed
  BY DEF Listed, Has, NoList, ListOf
<1>3. Begun'
  BY BegunKept DEF TreatyInv
<1>4. ASSUME NEW c \in treaty'
      PROVE  Coming(net', c) \/ (Noted(net, c))'
  <2>1. c \in treaty => Coming(net, c) \/ Noted(net, c)
    BY DEF TreatyInv, Accounted
  <2>2. \/ Coming(net', c) \/ Noted(net', c)
    <3>1. /\ DOMAIN net' = DOMAIN net \cup {Len(net) + 1} /\ net'[Len(net) + 1] = p
          /\ \A i \in DOMAIN net : net'[i] = net[i]
      BY Appended DEF TreatyInv
    <3>. QED
      BY <1>4, <2>1, <3>1, BehindKeeps DEF TreatyInv
  <2>3. Noted(net', c) => (Noted(net, c))'
    BY <1>2 DEF Noted, Latest
  <2>. QED
    BY <2>2, <2>3
<1>5. Accounted'
  BY <1>4 DEF Accounted, Coming, Noted, Latest
<1>. QED
  BY <1>1, <1>2, <1>3, <1>5 DEF TreatyInv

\* The server and the counterpart.
LEMMA ServerKeepsTreaty ==
  ASSUME TreatyParams, TreatyInv, UNCHANGED <<Copies, dialog, missed>>, out' \in Seq({"init"}),
         \/ Meets \/ (\E c \in Clauses : Adds(c)) \/ (\E c \in treaty : Removes(c))
         \/ Accepts(Other) \/ Ends("cancel") \/ (Tells(Plain("seat")) /\ UNCHANGED Server)
         \/ UNCHANGED <<Server, net>>
  PROVE  TreatyInv'
<1>. UNCHANGED <<apart, infos, map, own, dialog, missed>>
  BY DEF Copies
<1>. Silent
  BY DEF TreatyInv
<1>1. CASE Meets
  <2>1. treaty' = {} /\ net' = Append(net, Plain("init"))
    BY <1>1 DEF Meets, Tells, Silent
  <2>2. Silent'
    BY <1>1 DEF Meets, Silent
  <2>. QED
    BY <2>1, <2>2, SaysKeepsTreaty
<1>2. ASSUME NEW c \in Clauses, Adds(c)
      PROVE  TreatyInv'
  <2> DEFINE p == Packet("create", c, FALSE, FALSE)
  <2>1. net' = Append(net, p) /\ p.kind = "create" /\ p.clause = c
    BY <1>2 DEF Adds, Tells, Packet
  <2>2. \A d \in treaty' : d \in treaty \/ d = c
    BY <1>2 DEF Adds
  <2>3. Silent'
    BY <1>2 DEF Adds, Silent
  <2> HIDE DEF p
  <2>. QED
    BY <2>1, <2>2, <2>3, SaysKeepsTreaty
<1>3. ASSUME NEW c \in treaty, Removes(c)
      PROVE  TreatyInv'
  <2> DEFINE p == Packet("remove", c, FALSE, FALSE)
  <2>1. net' = Append(net, p) /\ p.kind = "remove"
    BY <1>3 DEF Removes, Tells, Packet
  <2>2. treaty' \subseteq treaty
    BY <1>3 DEF Removes
  <2>3. Silent'
    BY <1>3 DEF Removes, Silent
  <2> HIDE DEF p
  <2>. QED
    BY <2>1, <2>2, <2>3, SaysKeepsTreaty
<1>4. CASE Accepts(Other)
  <2> DEFINE now == IF Other \in accepted THEN accepted \ {Other} ELSE accepted \cup {Other}
             p == Packet("accept", NoClause, Me \in now, Other \in now)
  <2>1. now \subseteq {Other} /\ now # {Me, Other}
    BY DEF TreatyParams, Silent
  <2>2. /\ net' = Append(net, p) /\ meeting /\ accepted' = now
        /\ UNCHANGED <<meeting, treaty, concluded>>
    BY <1>4, <2>1 DEF Accepts, Tells
  <2>3. p.kind = "accept"
    BY DEF Packet
  <2>4. Silent'
    BY <2>1, <2>2 DEF Silent
  <2> HIDE DEF p
  <2>. QED
    BY <2>2, <2>3, <2>4, SaysKeepsTreaty
<1>5. CASE Ends("cancel")
  <2>1. treaty' = {} /\ net' = Append(net, Packet("cancel", NoClause, TRUE, TRUE))
    BY <1>5 DEF Ends, Tells
  <2>2. ~concluded'
    BY <1>5, "cancel" # "accept", Zenon DEF Ends, Silent
  <2>3. meeting' = FALSE /\ accepted' = {}
    BY <1>5 DEF Ends
  <2>4. Silent'
    <3>1. meeting' \in BOOLEAN /\ accepted' \subseteq {Other} /\ (~meeting' => treaty' = {})
      BY <2>1, <2>3
    <3>2. ~infos' /\ ~dialog'
      BY DEF Silent
    <3>. QED
      BY <2>2, <3>1, <3>2, Zenon DEF Silent
  <2>. QED
    BY <2>1, <2>4, SaysKeepsTreaty
<1>6. CASE Tells(Plain("seat")) /\ UNCHANGED Server
  <2> DEFINE p == Plain("seat")
  <2>1. net' = Append(net, p) /\ p.kind = "seat"
    BY <1>6 DEF Tells, Plain, Packet
  <2>2. treaty' = treaty /\ Silent'
    BY <1>6 DEF Server, Silent
  <2> HIDE DEF p
  <2>. QED
    BY <2>1, <2>2, SaysKeepsTreaty
<1>7. CASE UNCHANGED <<Server, net>>
  <2>1. UNCHANGED <<meeting, treaty, accepted, concluded, net>> /\ Listed' = Listed
    BY <1>7 DEF Server, Listed, Has, NoList, ListOf
  <2>2. Silent' /\ IsSeq(net') /\ IsSeq(Listed')
    BY <2>1 DEF TreatyInv, Silent
  <2>3. Begun'
    BY <2>1 DEF TreatyInv, Begun
  <2>4. Accounted'
    BY <2>1 DEF TreatyInv, Accounted, Noted, Coming, Latest
  <2>. QED
    BY <2>2, <2>3, <2>4 DEF TreatyInv
<1>. QED
  BY <1>1, <1>2, <1>3, <1>4, <1>5, <1>6, <1>7

\* The packets that are left when n more than the first are taken.
LEMMA LeftWhenTaken ==
  ASSUME IsSeq(net), net # <<>>, NEW n \in 0..(Len(net) - 1), Drops(n)
  PROVE  \E k \in 1..Len(net) :
           /\ k = n + 1 /\ IsSeq(net') /\ DOMAIN net' = 1..Len(net') /\ Len(net') = Len(net) - k
           /\ \A i \in DOMAIN net' : i + k \in DOMAIN net /\ net'[i] = net[i + k]
           /\ \A i \in DOMAIN net : i > k => i - k \in DOMAIN net' /\ net'[i - k] = net[i]
<1>1. Len(net) \in Nat
  BY SequenceHas
<1>2. PICK k \in 1..Len(net) : k = n + 1
  BY <1>1
<1>3. net' = SubSeq(net, k + 1, Len(net))
  BY <1>1, <1>2 DEF Drops
<1>4. k \in 1..Len(net)
  BY <1>2
<1>5. IsSeq(net') /\ DOMAIN net' = 1..Len(net')
  BY <1>3, <1>4, Dropped
<1>6. Len(net') = Len(net) - k
  BY <1>3, <1>4, Dropped
<1>7. \A i \in DOMAIN net' : i + k \in DOMAIN net /\ net'[i] = net[i + k]
  BY <1>3, <1>4, Dropped
<1>8. \A i \in DOMAIN net : i > k => i - k \in DOMAIN net' /\ net'[i - k] = net[i]
  BY <1>3, <1>4, Dropped
<1>. QED
  BY <1>2, <1>5, <1>6, <1>7, <1>8

\* Packets are taken: a clause of the treaty is listed, missed or still to come.
LEMMA TakenKeepsTreaty ==
  ASSUME IsSeq(net), net # <<>>, Accounted, treaty' = treaty, NEW n \in 0..(Len(net) - 1), Drops(n),
         Head(net).kind # "init" =>
           {Listed[i] : i \in DOMAIN Listed} \subseteq {Listed'[i] : i \in DOMAIN Listed'},
         Head(net).kind = "create" => Head(net).clause \in {Listed'[i] : i \in DOMAIN Listed'}
  PROVE  IsSeq(net') /\ Accounted'
<1> DEFINE Shown == {Listed[i] : i \in DOMAIN Listed}
           ShownNext == {Listed'[i] : i \in DOMAIN Listed'}
<1>1. DOMAIN net = 1..Len(net) /\ Len(net) \in Nat /\ Len(net) # 0
  BY SequenceHas
<1>2. net[1] = Head(net) /\ 1 \in DOMAIN net
  <2>1. \A t : t = Tail(net) => 1 \in DOMAIN net /\ Head(net) = net[1]
    BY Taken
  <2>. QED
    BY <2>1
<1>3. PICK k \in 1..Len(net) :
        /\ k = n + 1 /\ IsSeq(net') /\ DOMAIN net' = 1..Len(net') /\ Len(net') = Len(net) - k
        /\ \A i \in DOMAIN net' : i + k \in DOMAIN net /\ net'[i] = net[i + k]
        /\ \A i \in DOMAIN net : i > k => i - k \in DOMAIN net' /\ net'[i - k] = net[i]
  BY LeftWhenTaken
<1>4. /\ k = n + 1 /\ IsSeq(net') /\ DOMAIN net' = 1..Len(net')
      /\ \A i \in DOMAIN net' : i + k \in DOMAIN net /\ net'[i] = net[i + k]
      /\ \A i \in DOMAIN net : i > k => i - k \in DOMAIN net' /\ net'[i - k] = net[i]
  BY <1>3
<1>5. /\ Head(net).kind # "init" => missed \subseteq missed'
      /\ \A i \in 2..k : net[i].kind = "create" => net[i].clause \in missed'
  BY <1>1, <1>4 DEF Drops
<1>6. k \in Nat /\ k >= 1 /\ \A i \in DOMAIN net' : i \in Nat /\ i >= 1
  BY <1>1, <1>4
<1>7. \A i \in DOMAIN net : i <= k /\ Latest(net, i) => Latest(net', 0)
  BY <1>1, <1>4, <1>6 DEF Latest
<1>8. ASSUME NEW c \in treaty
      PROVE  Coming(net', c) \/ (Latest(net', 0) /\ c \in ShownNext \cup missed')
  <2>1. CASE Coming(net, c)
    <3>. PICK i \in DOMAIN net : net[i].kind = "create" /\ net[i].clause = c /\ Latest(net, i)
      BY <2>1 DEF Coming
    <3>1. CASE i > k
      <4>1. i - k \in DOMAIN net' /\ net'[i - k] = net[i]
        BY <1>4, <3>1
      <4>2. Latest(net', i - k)
        <5>1. \A j \in DOMAIN net' : j > i - k => j + k > i
          BY <1>1, <1>4, <1>6
        <5>. QED
          BY <1>4, <5>1 DEF Latest
      <4>. QED
        BY <4>1, <4>2 DEF Coming
    <3>2. CASE i = 1
      BY <1>2, <1>6, <1>7, <3>2
    <3>3. CASE i \in 2..k
      BY <1>5, <1>7, <3>3
    <3>. QED
      BY <1>1, <3>1, <3>2, <3>3
  <2>2. CASE Noted(net, c)
    <3>1. Latest(net, 0) /\ c \in Shown \cup missed
      BY <2>2 DEF Noted
    <3>2. Head(net).kind # "init"
      BY <1>2, <3>1 DEF Latest
    <3>3. Latest(net', 0)
      BY <1>1, <1>4, <1>6, <3>1 DEF Latest
    <3>. QED
      BY <1>5, <3>1, <3>2, <3>3
  <2>. QED
    BY <2>1, <2>2 DEF Accounted
<1>9. Accounted'
  BY <1>8 DEF Accounted, Coming, Noted, Latest
<1>. QED
  BY <1>4, <1>9

\* The client handles a packet.
LEMMA HandleKeepsTreaty ==
  ASSUME TreatyInv, Handle
  PROVE  TreatyInv'
<1> DEFINE p == Head(net)
<1>. IsSeq(net) /\ net # <<>> /\ IsSeq(Listed) /\ Silent /\ Begun /\ Accounted
  BY DEF TreatyInv, Handle
<1>1. UNCHANGED <<meeting, treaty, accepted, concluded, out>>
  BY DEF Handle, Server
<1>. PICK n \in 0..(Len(net) - 1) : (n > 0 => Throws(p.kind)) /\ Drops(n)
  BY DEF Handle
<1>2. CASE p.kind \in {"control", "clauses", "seat"}
  <2>1. map' = map /\ Listed' = Listed
    <3>1. map' = map
      BY <1>2 DEF Handle, HandleControl, HandleClauses, HandleSeat
    <3>. QED
      BY <3>1 DEF Listed, Has, NoList, ListOf
  <2>2. IsSeq(net') /\ Accounted'
    BY <1>1, <1>2, <2>1, TakenKeepsTreaty
  <2>3. n = 0
    <3>1. ~(n > 0)
      BY <1>2 DEF Throws
    <3>2. n \in Nat
      BY SequenceHas
    <3>. QED
      BY <3>1, <3>2
  <2>4. /\ Len(net) \in Nat /\ Len(net) >= 1 /\ p = net[1]
        /\ Len(net') = Len(net) - 1
        /\ \A i \in 1..(Len(net) - 1) : net'[i] = net[i + 1]
    <3>1. \A t : t = Tail(net) => 1 \in DOMAIN net /\ Head(net) = net[1]
      BY Taken
    <3>2. Len(net) \in Nat /\ DOMAIN net = 1..Len(net)
      BY SequenceHas
    <3>4. PICK k \in 1..Len(net) :
            /\ k = n + 1 /\ DOMAIN net' = 1..Len(net') /\ Len(net') = Len(net) - k
            /\ \A i \in DOMAIN net' : i + k \in DOMAIN net /\ net'[i] = net[i + k]
      BY LeftWhenTaken
    <3>5. /\ DOMAIN net' = 1..Len(net') /\ Len(net') = Len(net) - 1
          /\ \A i \in DOMAIN net' : i + 1 \in DOMAIN net /\ net'[i] = net[i + 1]
      BY <2>3, <3>4
    <3>6. Len(net) >= 1 /\ p = net[1]
      BY <3>1, <3>2
    <3>8. \A i \in 1..(Len(net) - 1) : net'[i] = net[i + 1]
      BY <3>5
    <3>. QED
      BY <3>2, <3>5, <3>6, <3>8
  <2>5. Begun' /\ ~infos' /\ ~dialog'
    <3>. DEFINE l == Len(net)
    <3>1. \A i \in 1..2 : l >= i + 1 => Len(net') >= i /\ net'[i] = net[i + 1]
      BY <2>4
    <3>2. CASE p.kind = "control"
      <4>1. apart' = apart \cup {"infos"} /\ infos' = infos /\ dialog' = dialog
        BY <3>2 DEF Handle, HandleControl
      <4>2. \/ {"infos", "clauses"} \subseteq apart
            \/ Len(net) >= 3 /\ net[2].kind = "clauses" /\ net[3].kind = "seat"
        BY <2>4, <3>2 DEF Begun
      <4>. QED
        BY <3>1, <4>1, <4>2, <2>4 DEF Begun, Silent
    <3>3. CASE p.kind = "clauses"
      <4>1. /\ infos' = (infos \/ "infos" \notin apart) /\ apart' = apart /\ dialog' = dialog
        BY <3>3 DEF Handle, HandleClauses
      <4>2. /\ "infos" \in apart
            /\ {"infos", "clauses"} \subseteq apart \/ (Len(net) >= 2 /\ net[2].kind = "seat")
        BY <2>4, <3>3 DEF Begun
      <4>3. Begun'
        BY <3>1, <4>1, <4>2, <2>4 DEF Begun
      <4>4. ~infos' /\ ~dialog'
        BY <4>1, <4>2, Zenon DEF Silent
      <4>. QED
        BY <4>3, <4>4
    <3>4. CASE p.kind = "seat"
      <4>1. /\ apart' = apart \cup {"clauses"} /\ infos' = infos
            /\ dialog' = (dialog /\ ~Has(own))
        BY <3>4 DEF Handle, HandleSeat
      <4>2. "infos" \in apart
        BY <2>4, <3>4 DEF Begun
      <4>3. Begun'
        BY <4>1, <4>2 DEF Begun
      <4>4. ~infos' /\ ~dialog'
        BY <4>1, Zenon DEF Silent
      <4>. QED
        BY <4>3, <4>4
    <3>. QED
      BY <1>2, <3>2, <3>3, <3>4
  <2>6. Silent'
    BY <1>1, <2>5, Zenon DEF Silent
  <2>. QED
    BY <2>1, <2>2, <2>5, <2>6 DEF TreatyInv
<1>3. CASE p.kind \notin {"control", "clauses", "seat"}
  <2>1. p = net[1]
    <3>1. \A t : t = Tail(net) => Head(net) = net[1]
      BY Taken
    <3>. QED
      BY <3>1
  <2>2. {"infos", "clauses"} \subseteq apart
    BY <1>3, <2>1 DEF Begun
  <2>3. \/ p.kind = "init" /\ HandleInit
        \/ p.kind = "create" /\ HandleCreate(p.clause)
        \/ p.kind = "remove" /\ HandleRemove(p.clause)
        \/ p.kind \notin {"init", "create"} /\ Cleanup
        \/ p.kind \notin {"init", "create"} /\ UNCHANGED <<Copies, dialog>>
    BY <1>3 DEF Handle
  <2>4. apart' = apart /\ infos' = infos
    BY <2>3 DEF HandleInit, HandleCreate, HandleRemove, Cleanup, SetWindow, SetModule, Copies
  <2>5. ~dialog'
    BY <2>3 DEF HandleInit, HandleCreate, HandleRemove, Cleanup, Silent
  <2>6. \/ p.kind = "init" /\ map' = List(<<>>)
        \/ p.kind = "create" /\ map' = List(Append(Listed, p.clause))
        \/ p.kind \notin {"init", "create"} /\ map' = map
    BY <2>2, <2>3
    DEF HandleInit, HandleCreate, HandleRemove, Cleanup, SetWindow, SetModule, Copies
  <2>7. \A x : map' = List(x) => Listed' = x
    BY DEF List, Listed, Has, NoList, ListOf
  <2>8. /\ IsSeq(Listed')
        /\ p.kind # "init" =>
             {Listed[i] : i \in DOMAIN Listed} \subseteq {Listed'[i] : i \in DOMAIN Listed'}
        /\ p.kind = "create" => p.clause \in {Listed'[i] : i \in DOMAIN Listed'}
    <3>1. CASE p.kind = "init" /\ map' = List(<<>>)
      <4>1. Listed' = <<>>
        BY <2>7, <3>1
      <4>. QED
        BY <3>1, <4>1, EmptyIs
    <3>2. CASE p.kind = "create" /\ map' = List(Append(Listed, p.clause))
      <4>1. Listed' = Append(Listed, p.clause)
        BY <2>7, <3>2
      <4>. IsSeq(Listed)
        OBVIOUS
      <4>2. IsSeq(Listed') /\ Listed'[Len(Listed) + 1] = p.clause
        BY <4>1, Appended
      <4>3. DOMAIN Listed' = DOMAIN Listed \cup {Len(Listed) + 1}
        BY <4>1, Appended
      <4>4. \A i \in DOMAIN Listed : Listed'[i] = Listed[i]
        BY <4>1, Appended
      <4>. QED
        BY <4>2, <4>3, <4>4
    <3>3. CASE p.kind \notin {"init", "create"} /\ map' = map
      <4>1. Listed' = Listed
        BY <3>3 DEF Listed, Has, NoList, ListOf
      <4>. QED
        BY <3>3, <4>1
    <3>. QED
      BY <2>6, <3>1, <3>2, <3>3
  <2>9. IsSeq(net') /\ Accounted'
    BY <1>1, <2>8, TakenKeepsTreaty
  <2>10. Silent'
    BY <1>1, <2>4, <2>5, Zenon DEF Silent
  <2>11. Begun'
    BY <2>2, <2>4 DEF Begun
  <2>. QED
    BY <2>8, <2>9, <2>10, <2>11 DEF TreatyInv
<1>. QED
  BY <1>2, <1>3

\* The invariant is inductive.
LEMMA TreatyStep == TreatyParams /\ TreatyInv /\ [Next]_vars => TreatyInv'
<1>. SUFFICES ASSUME TreatyParams, TreatyInv, [Next]_vars
     PROVE  TreatyInv'
  OBVIOUS
<1>. out \in Seq({"init"}) /\ ~dialog
  BY DEF TreatyInv, Silent
<1>1. CASE UNCHANGED vars
  <2>1. UNCHANGED <<Copies, dialog, missed, Server, net, out>>
    BY <1>1 DEF vars
  <2>. QED
    BY <2>1, ServerKeepsTreaty
<1>2. CASE ServerTakes
  <2>1. UNCHANGED <<Copies, dialog, missed>> /\ out # <<>> /\ out' = Tail(out)
    BY <1>2 DEF ServerTakes
  <2>2. out' \in Seq({"init"}) /\ Head(out) = "init"
    BY <2>1, HeadTailProperties
  <2>3. Serves("init") => Meets
    BY DEF Serves
  <2>4. Meets \/ UNCHANGED <<Server, net>>
    BY <1>2, <2>2, <2>3 DEF ServerTakes
  <2>. QED
    BY <2>1, <2>2, <2>4, ServerKeepsTreaty
<1>3. CASE OtherActs
  <2>1. UNCHANGED <<Copies, dialog, missed>> /\ out' = out
    BY <1>3 DEF OtherActs
  <2>2. \/ Meets \/ (\E c \in Clauses : Adds(c)) \/ (\E c \in treaty : Removes(c))
        \/ Accepts(Other) \/ Ends("cancel") \/ (Tells(Plain("seat")) /\ UNCHANGED Server)
    BY <1>3 DEF OtherActs
  <2>. QED
    BY <2>1, <2>2, ServerKeepsTreaty
<1>4. CASE Handle
  BY <1>4, HandleKeepsTreaty
<1>5. ASSUME NEW kind \in {"init", "accept", "cancel"}, Clicks(kind)
      PROVE  TreatyInv'
  <2>1. kind = "init"
    BY <1>5 DEF Clicks, Buttons
  <2>2. UNCHANGED <<Server, net, Copies, dialog, missed>> /\ out' = Append(out, "init")
    BY <1>5, <2>1 DEF Clicks
  <2>3. out' \in Seq({"init"})
    BY <2>2, AppendProperties
  <2>. QED
    BY <2>2, <2>3, ServerKeepsTreaty
<1>. QED
  BY <1>1, <1>2, <1>3, <1>4, <1>5 DEF Next

\* It holds at first.
LEMMA TreatyStarts == Init => TreatyInv
<1>. SUFFICES ASSUME Init
     PROVE  TreatyInv
  OBVIOUS
<1> DEFINE first == <<Plain("control"), Plain("clauses"), Plain("seat")>>
<1>1. net = first /\ out = <<>> /\ treaty = {} /\ map = NoList
  BY DEF Init
<1>2. /\ Len(net) = 3 /\ net[1].kind = "control" /\ net[2].kind = "clauses"
      /\ net[3].kind = "seat"
  BY <1>1 DEF Plain, Packet
<1>3. IsSeq(net)
  <2>1. first \in Seq({Plain("control"), Plain("clauses"), Plain("seat")})
    OBVIOUS
  <2>. QED
    BY <1>1, <2>1, SequenceIs
<1>4. IsSeq(Listed)
  BY <1>1, EmptyIs DEF Listed, Has
<1>5. Silent
  <2>1. out \in Seq({"init"})
    BY <1>1, EmptySeq
  <2>2. accepted \subseteq {Other} /\ meeting \in BOOLEAN
    BY DEF Init
  <2>3. ~infos /\ ~dialog /\ ~concluded
    BY Zenon DEF Init
  <2>. QED
    BY <1>1, <2>1, <2>2, <2>3, Zenon DEF Silent
<1>. QED
  BY <1>1, <1>2, <1>3, <1>4, <1>5 DEF TreatyInv, Begun, Accounted

\* The list has the treaty's clauses when nothing is on its way.
LEMMA TreatyFollows == TreatyInv => TreatySound
<1>. SUFFICES ASSUME TreatyInv
     PROVE  TreatySound
  OBVIOUS
<1>1. Unanswered
  BY DEF TreatyInv, Silent, Unanswered
<1>2. ASSUME net = <<>>, NEW c \in treaty
      PROVE  c \in ToSet(Listed) \cup missed
  <2>1. ~Coming(net, c)
    BY <1>2, EmptyIs DEF Coming
  <2>2. Noted(net, c)
    BY <2>1 DEF TreatyInv, Accounted
  <2>. QED
    BY <2>2 DEF Noted, ToSet
<1>. QED
  BY <1>1, <1>2 DEF TreatySound, Recorded

\* For any clauses, players and bounds: the dialog never opens and no treaty is
\* concluded, and when everything has arrived the window's list has every clause of
\* the treaty whose packet no exception dropped (handle_diplomacy_create_clause).
THEOREM TreatyIsSound == ASSUME TreatyParams PROVE Spec => []TreatySound
BY TreatyStarts, TreatyStep, TreatyFollows, PTL DEF Spec

-----------------------------------------------------------------------------
(* The nations.                                                            *)

CONSTANTS Others, Ais, Passing, NoOne
VARIABLES pact, owed, rumours, known, diplstates, told, actee, basis, rows, selected,
          buttons, war_label, due, writing

Courts == INSTANCE Nations

\* What is needed of the parameters.
Parameters ==
  /\ IsFiniteSet(Others) /\ NoOne \notin Others \cup Courts!Relations /\ Passing \subseteq Others

RelationStates == Courts!Relations \cup {NoOne}
RelationPackets == [kind : {"info", "remove", "mine", "theirs"}, player : Others, state : RelationStates]

\* A packet of some kind about a player is on its way.
Pending(n, kinds, p) == \E i \in DOMAIN n : n[i].kind \in kinds /\ n[i].player = p

NationsTypes ==
  /\ pact \in [Others -> RelationStates] /\ net \in Seq(RelationPackets)
  /\ diplstates \in [Others -> RelationStates] /\ told \in [Others -> RelationStates]
  /\ known \subseteq Others /\ actee \in Others \cup {NoOne} /\ basis \in RelationStates
  /\ selected \in Others \cup {NoOne}
  /\ out \in Seq([kind : {"cancel", "meet", "toggle_ai", "message"}, player : Others])
  /\ writing \in Others \cup {NoOne}

\* A packet tells the relation the server has: the server only goes on when its
\* packets have arrived.
Carried ==
  \A i \in DOMAIN net :
    /\ net[i].kind \in {"mine", "theirs"} => net[i].state = pact[net[i].player]
    /\ (net[i].kind = "remove") = (pact[net[i].player] = NoOne)

\* What the mirror does not know yet is on its way.
Mirrored ==
  \A p \in Others :
    /\ Pending(net, {"info", "remove"}, p) \/ (p \in known <=> pact[p] # NoOne)
    /\ pact[p] = NoOne \/ Pending(net, {"mine", "theirs"}, p) \/ diplstates[p] = pact[p]
    /\ pact[p] = NoOne \/ Pending(net, {"theirs"}, p) \/ told[p] = pact[p]
    /\ pact[p] # NoOne \/ Pending(net, {"remove"}, p) \/ told[p] = NoOne

\* A war is owed an announcement while the packet that brings it is on its way.
News(p) == pact[p] = "war" /\ diplstates[p] \notin {"war", "contactless"}
Announced == rumours = {} /\ owed = {p \in Others : News(p) /\ Pending(net, {"mine", "theirs"}, p)}

\* The dialog's actions were asked for with the relation known.
Current == actee # NoOne /\ basis # NoOne => basis = told[actee]

NationsInv == NationsTypes /\ Carried /\ Mirrored /\ Announced /\ Current /\ Courts!ButtonsHaveRow

-----------------------------------------------------------------------------
\* Without packets none is pending.
LEMMA NothingPending ==
  ASSUME NEW n, n = <<>>, NEW kinds, NEW p
  PROVE  ~Pending(n, kinds, p)
BY DEF Pending

\* What is still on its way when the first packet is taken.
LEMMA PendingTaken ==
  ASSUME NEW S, NEW n \in Seq(S), n # <<>>, NEW kinds, NEW p
  PROVE  Pending(n, kinds, p) <=> Pending(Tail(n), kinds, p)
           \/ (Head(n).kind \in kinds /\ Head(n).player = p)
<1>. PICK m : m = Tail(n)
  OBVIOUS
<1>1. /\ \A i \in DOMAIN m : i + 1 \in DOMAIN n /\ m[i] = n[i + 1]
      /\ \A i \in DOMAIN n : i # 1 => i - 1 \in DOMAIN m /\ m[i - 1] = n[i]
      /\ 1 \in DOMAIN n /\ Head(n) = n[1]
  <2>1. /\ m \in Seq(S) /\ Len(m) = Len(n) - 1 /\ Len(n) \in Nat /\ Len(n) # 0
        /\ \A i \in 1..Len(m) : m[i] = n[i + 1]
        /\ Head(n) = n[1]
    BY HeadTailProperties, EmptySeq, LenProperties
  <2>2. DOMAIN n = 1..Len(n) /\ DOMAIN m = 1..Len(m)
    BY <2>1, LenProperties
  <2>. QED
    BY <2>1, <2>2
<1>. QED
  BY <1>1, ZenonT(40) DEF Pending

\* What the server does while nothing is on its way.
LEMMA Quiet ==
  ASSUME Parameters, NationsInv, net = <<>>
  PROVE  /\ known = {p \in Others : pact[p] # NoOne}
         /\ \A p \in Others : pact[p] # NoOne => diplstates[p] = pact[p] /\ told[p] = pact[p]
         /\ \A p \in Others : pact[p] = NoOne => told[p] = NoOne
         /\ owed = {} /\ rumours = {}
<1>1. \A kinds, p : ~Pending(net, kinds, p)
  BY NothingPending
<1>. QED
  BY <1>1 DEF NationsInv, NationsTypes, Mirrored, Announced

\* The two directions of a relation, in either order.
LEMMA PairIs ==
  ASSUME NEW p \in Others, NEW state \in RelationStates, NEW two \in Courts!Pair(p, state)
  PROVE  /\ two \in Seq(RelationPackets) /\ DOMAIN two = 1..2
         /\ \A i \in 1..2 : two[i].kind \in {"mine", "theirs"} /\ two[i].player = p
              /\ two[i].state = state
         /\ Pending(two, {"theirs"}, p) /\ Pending(two, {"mine", "theirs"}, p)
<1>1. Courts!OfMine(p, state) \in RelationPackets /\ Courts!OfTheirs(p, state) \in RelationPackets
  BY DEF Courts!OfMine, Courts!OfTheirs, RelationPackets
<1>2. \/ two = <<Courts!OfMine(p, state), Courts!OfTheirs(p, state)>>
      \/ two = <<Courts!OfTheirs(p, state), Courts!OfMine(p, state)>>
  BY DEF Courts!Pair
<1>3. two \in Seq(RelationPackets) /\ DOMAIN two = 1..2
  <2>1. \A a, b \in RelationPackets : <<a, b>> \in Seq(RelationPackets) /\ DOMAIN <<a, b>> = 1..2
    OBVIOUS
  <2>. QED
    BY <1>1, <1>2, <2>1
<1>4. \A i \in 1..2 : two[i].kind \in {"mine", "theirs"} /\ two[i].player = p
        /\ two[i].state = state
  BY <1>2 DEF Courts!OfMine, Courts!OfTheirs
<1>5. \E i \in 1..2 : two[i].kind = "theirs"
  <2>1. CASE two = <<Courts!OfMine(p, state), Courts!OfTheirs(p, state)>>
    <3>1. two[2].kind = "theirs" /\ 2 \in 1..2
      BY <2>1 DEF Courts!OfTheirs
    <3>. QED
      BY <3>1
  <2>2. CASE two = <<Courts!OfTheirs(p, state), Courts!OfMine(p, state)>>
    <3>1. two[1].kind = "theirs" /\ 1 \in 1..2
      BY <2>2 DEF Courts!OfTheirs
    <3>. QED
      BY <3>1
  <2>. QED
    BY <1>2, <2>1, <2>2
<1>. QED
  BY <1>3, <1>4, <1>5 DEF Pending

\* A relation changes: nothing else is on its way.
LEMMA BecomesKeeps ==
  ASSUME Parameters, NationsInv, net = <<>>, NEW p \in Others, NEW state \in Courts!Relations,
         pact[p] \notin {NoOne, state}, state # "contactless", Courts!Becomes(p, state),
         UNCHANGED <<rumours, Courts!Page>>
  PROVE  Carried' /\ Mirrored' /\ Announced' /\ pact' \in [Others -> RelationStates]
           /\ net' \in Seq(RelationPackets)
<1>1. PICK two \in Courts!Pair(p, state) : net' = net \o two
  BY DEF Courts!Becomes
<1>2. state \in RelationStates /\ NoOne \notin Courts!Relations
  BY DEF Parameters, RelationStates
<1>3. /\ two \in Seq(RelationPackets) /\ DOMAIN two = 1..2
      /\ \A i \in 1..2 : two[i].kind \in {"mine", "theirs"} /\ two[i].player = p
           /\ two[i].state = state
      /\ Pending(two, {"theirs"}, p) /\ Pending(two, {"mine", "theirs"}, p)
  BY <1>2, PairIs
<1>4. net' = two
  BY <1>1, <1>3
<1>5. pact' = [pact EXCEPT ![p] = state] /\ pact \in [Others -> RelationStates]
  BY DEF Courts!Becomes, NationsInv, NationsTypes
<1>6. pact' \in [Others -> RelationStates] /\ pact'[p] = state
        /\ \A q \in Others \ {p} : pact'[q] = pact[q]
  BY <1>2, <1>5
<1>7. Carried'
  BY <1>2, <1>3, <1>4, <1>6 DEF Carried
<1>8. \A q \in Others \ {p} : \A kinds : ~Pending(two, kinds, q)
  BY <1>3 DEF Pending
<1>9. /\ known = {q \in Others : pact[q] # NoOne}
      /\ \A q \in Others : pact[q] # NoOne => diplstates[q] = pact[q] /\ told[q] = pact[q]
      /\ \A q \in Others : pact[q] = NoOne => told[q] = NoOne
      /\ owed = {} /\ rumours = {}
  BY Quiet
<1>10. known' = known /\ diplstates' = diplstates /\ told' = told /\ rumours' = rumours
  BY DEF Courts!Page, Courts!Mirror
<1>11. Mirrored'
  <2>1. ASSUME NEW q \in Others
        PROVE  /\ Pending(two, {"info", "remove"}, q) \/ (q \in known <=> pact'[q] # NoOne)
               /\ pact'[q] = NoOne \/ Pending(two, {"mine", "theirs"}, q)
                    \/ diplstates[q] = pact'[q]
               /\ pact'[q] = NoOne \/ Pending(two, {"theirs"}, q) \/ told[q] = pact'[q]
               /\ pact'[q] # NoOne \/ Pending(two, {"remove"}, q) \/ told[q] = NoOne
    BY <1>2, <1>3, <1>6, <1>9
  <2>. QED
    BY <1>4, <1>10, <2>1 DEF Mirrored
<1>12. Announced'
  <2>1. owed' = IF state = "war" /\ pact[p] # "contactless" THEN {p} ELSE {}
    BY <1>9 DEF Courts!Becomes
  <2>2. diplstates[p] = pact[p] /\ pact[p] # state
    BY <1>9
  <2>3. \A q \in Others : News(q)' /\ Pending(two, {"mine", "theirs"}, q) <=>
                            q = p /\ state = "war" /\ pact[p] # "contactless"
    BY <1>3, <1>6, <1>8, <1>10, <2>2 DEF News
  <2>. QED
    BY <1>4, <1>9, <1>10, <2>1, <2>3 DEF Announced
<1>. QED
  BY <1>3, <1>4, <1>6, <1>7, <1>11, <1>12

\* Somebody leaves the game, or comes.
LEMMA LeavesKeeps ==
  ASSUME Parameters, NationsInv, Courts!Leaves
  PROVE  Carried' /\ Mirrored' /\ Announced' /\ pact' \in [Others -> RelationStates]
           /\ net' \in Seq(RelationPackets)
<1>1. PICK p \in Passing : pact[p] # NoOne /\ pact' = [pact EXCEPT ![p] = NoOne]
             /\ net' = <<Courts!Removal(p)>>
  BY DEF Courts!Leaves
<1>. PICK m : m = <<Courts!Removal(p)>>
  OBVIOUS
<1>2. p \in Others /\ NoOne \in RelationStates
  BY DEF Parameters, RelationStates
<1>3. Courts!Removal(p) \in RelationPackets
  BY <1>2 DEF Courts!Removal, RelationPackets
<1>4. m \in Seq(RelationPackets) /\ DOMAIN m = {1} /\ m[1] = Courts!Removal(p)
  BY <1>3
<1>5. m[1].kind = "remove" /\ m[1].player = p
  BY <1>4 DEF Courts!Removal
<1>6. pact \in [Others -> RelationStates]
  BY DEF NationsInv, NationsTypes
<1>7. pact' \in [Others -> RelationStates] /\ pact'[p] = NoOne
        /\ \A q \in Others \ {p} : pact'[q] = pact[q]
  BY <1>1, <1>2, <1>6
<1>8. Carried'
  BY <1>1, <1>4, <1>5, <1>7 DEF Carried
<1>9. /\ Pending(m, {"info", "remove"}, p) /\ Pending(m, {"remove"}, p)
      /\ \A q : ~Pending(m, {"mine", "theirs"}, q)
  BY <1>4, <1>5 DEF Pending
<1>10. /\ known = {q \in Others : pact[q] # NoOne}
       /\ \A q \in Others : pact[q] # NoOne => diplstates[q] = pact[q] /\ told[q] = pact[q]
       /\ \A q \in Others : pact[q] = NoOne => told[q] = NoOne
       /\ owed = {} /\ rumours = {}
  BY Quiet DEF Courts!Leaves
<1>11. known' = known /\ diplstates' = diplstates /\ told' = told /\ owed' = owed
         /\ rumours' = rumours
  BY DEF Courts!Leaves, Courts!Page, Courts!Mirror
<1>12. Mirrored'
  <2>1. ASSUME NEW q \in Others
        PROVE  /\ Pending(m, {"info", "remove"}, q) \/ (q \in known <=> pact'[q] # NoOne)
               /\ pact'[q] = NoOne \/ diplstates[q] = pact'[q]
               /\ pact'[q] = NoOne \/ told[q] = pact'[q]
               /\ pact'[q] # NoOne \/ Pending(m, {"remove"}, q) \/ told[q] = NoOne
    BY <1>7, <1>9, <1>10
  <2>. QED
    BY <1>1, <1>11, <2>1 DEF Mirrored
<1>13. Announced'
  BY <1>1, <1>9, <1>10, <1>11 DEF Announced
<1>. QED
  BY <1>1, <1>4, <1>7, <1>8, <1>12, <1>13

\* Somebody comes into the game: is told of, and without contact.
LEMMA ComesKeeps ==
  ASSUME Parameters, NationsInv, Courts!Comes
  PROVE  Carried' /\ Mirrored' /\ Announced' /\ pact' \in [Others -> RelationStates]
           /\ net' \in Seq(RelationPackets)
<1>1. PICK p \in Passing :
        /\ pact[p] = NoOne /\ pact' = [pact EXCEPT ![p] = "contactless"]
        /\ net' \in {<<Courts!Info(p)>> \o two : two \in Courts!Pair(p, "contactless")}
  BY DEF Courts!Comes
<1>2. PICK two \in Courts!Pair(p, "contactless") : net' = <<Courts!Info(p)>> \o two
  BY <1>1
<1>3. p \in Others /\ "contactless" \in RelationStates /\ NoOne \in RelationStates
        /\ NoOne # "contactless"
  BY DEF Parameters, RelationStates, Courts!Relations
<1>4. /\ two \in Seq(RelationPackets) /\ DOMAIN two = 1..2
      /\ \A i \in 1..2 : two[i].kind \in {"mine", "theirs"} /\ two[i].player = p
           /\ two[i].state = "contactless"
      /\ Pending(two, {"theirs"}, p) /\ Pending(two, {"mine", "theirs"}, p)
  BY <1>3, PairIs
<1>. PICK info : info = Courts!Info(p)
  OBVIOUS
<1>. PICK m : m = <<info>> \o two
  OBVIOUS
<1>5. info \in RelationPackets
  BY <1>3 DEF Courts!Info, RelationPackets
<1>6. /\ m \in Seq(RelationPackets) /\ DOMAIN m = 1..3 /\ m[1] = info
      /\ m[2] = two[1] /\ m[3] = two[2]
  <2>1. Len(two) = 2
    BY <1>4
  <2>2. <<info>> \in Seq(RelationPackets) /\ Len(<<info>>) = 1 /\ <<info>>[1] = info
    BY <1>5
  <2>. QED
    BY <1>4, <2>1, <2>2, SMTT(20)
<1>7. m[1].kind = "info" /\ m[1].player = p
  BY <1>6 DEF Courts!Info
<1>8. \A i \in DOMAIN m : i = 1 \/ (\E j \in 1..2 : m[i] = two[j])
  BY <1>6
<1>9. \A j \in 1..2 : \E i \in DOMAIN m : m[i] = two[j]
  BY <1>6
<1>10. pact' \in [Others -> RelationStates] /\ pact'[p] = "contactless"
         /\ \A q \in Others \ {p} : pact'[q] = pact[q]
  BY <1>1, <1>3 DEF NationsInv, NationsTypes
<1>11. Carried'
  BY <1>2, <1>3, <1>4, <1>7, <1>8, <1>10 DEF Carried
<1>12. /\ Pending(m, {"info", "remove"}, p) /\ Pending(m, {"theirs"}, p)
            /\ Pending(m, {"mine", "theirs"}, p)
       /\ \A q \in Others \ {p} : ~Pending(m, {"mine", "theirs"}, q)
  BY <1>4, <1>6, <1>7, <1>8, <1>9 DEF Pending
<1>13. /\ known = {q \in Others : pact[q] # NoOne}
       /\ \A q \in Others : pact[q] # NoOne => diplstates[q] = pact[q] /\ told[q] = pact[q]
       /\ \A q \in Others : pact[q] = NoOne => told[q] = NoOne
       /\ owed = {} /\ rumours = {}
  BY Quiet DEF Courts!Comes
<1>14. known' = known /\ diplstates' = diplstates /\ told' = told /\ owed' = owed
         /\ rumours' = rumours
  BY DEF Courts!Comes, Courts!Page, Courts!Mirror
<1>15. Mirrored'
  <2>1. ASSUME NEW q \in Others
        PROVE  /\ Pending(m, {"info", "remove"}, q) \/ (q \in known <=> pact'[q] # NoOne)
               /\ pact'[q] = NoOne \/ Pending(m, {"mine", "theirs"}, q) \/ diplstates[q] = pact'[q]
               /\ pact'[q] = NoOne \/ Pending(m, {"theirs"}, q) \/ told[q] = pact'[q]
               /\ pact'[q] # NoOne \/ Pending(m, {"remove"}, q) \/ told[q] = NoOne
    BY <1>3, <1>10, <1>12, <1>13
  <2>. QED
    BY <1>2, <1>14, <2>1 DEF Mirrored
<1>16. Announced'
  <2>1. \A q \in Others : ~(News(q)' /\ Pending(m, {"mine", "theirs"}, q))
    BY <1>10, <1>12 DEF News
  <2>. QED
    BY <1>2, <1>13, <1>14, <2>1 DEF Announced
<1>. QED
  BY <1>2, <1>6, <1>10, <1>11, <1>15, <1>16

-----------------------------------------------------------------------------
\* A packet is taken: what is left on its way.
LEMMA TakenKeeps ==
  ASSUME NationsTypes, Carried, net # <<>>, net' = Tail(net), pact' = pact
  PROVE  /\ Carried' /\ net' \in Seq(RelationPackets) /\ Head(net) \in RelationPackets
         /\ Head(net).kind \in {"mine", "theirs"} => Head(net).state = pact[Head(net).player]
         /\ (Head(net).kind = "remove") = (pact[Head(net).player] = NoOne)
<1>. PICK n : n = net
  OBVIOUS
<1>. PICK m : m = Tail(n)
  OBVIOUS
<1>1. n \in Seq(RelationPackets) /\ n # <<>>
  BY DEF NationsTypes
<1>2. /\ m \in Seq(RelationPackets) /\ Head(n) \in RelationPackets
      /\ \A i \in DOMAIN m : i + 1 \in DOMAIN n /\ m[i] = n[i + 1]
      /\ 1 \in DOMAIN n /\ Head(n) = n[1]
  <2>1. /\ m \in Seq(RelationPackets) /\ Len(m) = Len(n) - 1 /\ Len(n) \in Nat /\ Len(n) # 0
        /\ \A i \in 1..Len(m) : m[i] = n[i + 1]
        /\ Head(n) = n[1] /\ Head(n) \in RelationPackets
    BY <1>1, HeadTailProperties, EmptySeq, LenProperties
  <2>2. DOMAIN n = 1..Len(n) /\ DOMAIN m = 1..Len(m)
    BY <1>1, <2>1, LenProperties
  <2>. QED
    BY <2>1, <2>2
<1>3. Carried'
  BY <1>2 DEF Carried
<1>. QED
  BY <1>2, <1>3 DEF Carried

\* The client handles the first packet on its way.
LEMMA RelationHandled ==
  ASSUME Parameters, NationsInv, Courts!Handle
  PROVE  NationsInv'
<1>. PICK m : m = Head(net)
  OBVIOUS
<1>. PICK p : p = m.player
  OBVIOUS
<1>1. net # <<>> /\ net' = Tail(net) /\ UNCHANGED <<pact, out, Courts!Table, due, writing>>
  BY DEF Courts!Handle
<1>2. /\ Carried' /\ net' \in Seq(RelationPackets) /\ m \in RelationPackets
      /\ m.kind \in {"mine", "theirs"} => m.state = pact[p]
      /\ (m.kind = "remove") = (pact[p] = NoOne)
  BY <1>1, TakenKeeps DEF NationsInv
<1>3. p \in Others /\ m.state \in RelationStates
  BY <1>2 DEF RelationPackets
<1>4. \A kinds, q : Pending(net, kinds, q) <=> Pending(net', kinds, q)
        \/ (m.kind \in kinds /\ p = q)
  <2>1. net \in Seq(RelationPackets)
    BY DEF NationsInv, NationsTypes
  <2>. QED
    BY <1>1, <2>1, PendingTaken
<1>5. pact' = pact /\ out' = out /\ selected' = selected /\ rows' = rows /\ buttons' = buttons
        /\ writing' = writing
  BY <1>1 DEF Courts!Table
<1>6. NoOne \notin Courts!Relations /\ NoOne \in RelationStates
  BY DEF Parameters, RelationStates
<1>7. NationsTypes /\ Mirrored /\ Announced /\ Current /\ Courts!ButtonsHaveRow
  BY DEF NationsInv
<1>8. Courts!ButtonsHaveRow'
  BY <1>5, <1>7 DEF Courts!ButtonsHaveRow
<1>9. CASE m.kind = "info"
  <2>1. Courts!HandleInfo(p)
    BY <1>9 DEF Courts!Handle
  <2>2. known' = known \cup {p} /\ UNCHANGED <<owed, rumours, diplstates, told, actee, basis>>
    BY <2>1 DEF Courts!HandleInfo, Courts!Dialog
  <2>3. NationsTypes'
    BY <1>2, <1>3, <1>5, <1>7, <2>2 DEF NationsTypes
  <2>4. Mirrored'
    BY <1>2, <1>4, <1>5, <1>7, <1>9, <2>2 DEF Mirrored
  <2>5. Announced'
    BY <1>4, <1>5, <1>7, <1>9, <2>2 DEF Announced, News
  <2>6. Current'
    BY <1>7, <2>2 DEF Current
  <2>. QED
    BY <1>2, <1>8, <2>3, <2>4, <2>5, <2>6 DEF NationsInv
<1>10. CASE m.kind = "remove"
  <2>1. Courts!HandleRemove(p)
    BY <1>10 DEF Courts!Handle
  <2>2. /\ known' = known \ {p} /\ told' = [told EXCEPT ![p] = NoOne]
        /\ basis' = (IF actee = p THEN NoOne ELSE basis)
        /\ UNCHANGED <<owed, rumours, diplstates, actee>>
    BY <2>1 DEF Courts!HandleRemove
  <2>3. told' \in [Others -> RelationStates] /\ told'[p] = NoOne
          /\ \A q \in Others \ {p} : told'[q] = told[q]
    BY <1>3, <1>6, <1>7, <2>2 DEF NationsTypes
  <2>4. NationsTypes'
    BY <1>2, <1>3, <1>5, <1>6, <1>7, <2>2, <2>3 DEF NationsTypes
  <2>5. Mirrored'
    BY <1>2, <1>4, <1>5, <1>7, <1>10, <2>2, <2>3 DEF Mirrored
  <2>6. Announced'
    BY <1>4, <1>5, <1>7, <1>10, <2>2 DEF Announced, News
  <2>7. Current'
    BY <1>7, <2>2, <2>3 DEF Current, NationsTypes
  <2>. QED
    BY <1>2, <1>8, <2>4, <2>5, <2>6, <2>7 DEF NationsInv
<1>11. CASE m.kind \in {"mine", "theirs"}
  <2>1. Courts!HandleDiplstate(m, m.kind = "mine")
    BY <1>11 DEF Courts!Handle
  <2>2. m.state = pact[p] /\ pact[p] # NoOne
    BY <1>2, <1>11
  <2> DEFINE changed == m.kind # "mine" /\ told[p] \notin {NoOne, m.state}
  <2> DEFINE news == m.state = "war" /\ diplstates[p] \notin {"war", "contactless"}
  <2>3. /\ diplstates' = [diplstates EXCEPT ![p] = m.state]
        /\ told' = (IF m.kind = "mine" THEN told ELSE [told EXCEPT ![p] = m.state])
        /\ owed' = (IF news THEN owed \ {p} ELSE owed)
        /\ rumours' = (IF news THEN rumours \cup ({p} \ owed) ELSE rumours)
        /\ basis' = (IF changed /\ actee = p THEN m.state ELSE basis)
        /\ UNCHANGED <<known, actee>>
    BY <2>1 DEF Courts!HandleDiplstate, Courts!Mirrors
  <2>4. diplstates' \in [Others -> RelationStates] /\ diplstates'[p] = m.state
        /\ \A q \in Others \ {p} : diplstates'[q] = diplstates[q]
    BY <1>3, <1>7, <2>3 DEF NationsTypes
  <2>5. told' \in [Others -> RelationStates]
          /\ told'[p] = (IF m.kind = "mine" THEN told[p] ELSE m.state)
        /\ \A q \in Others \ {p} : told'[q] = told[q]
    BY <1>3, <1>7, <2>3 DEF NationsTypes
  <2>6. NationsTypes'
    BY <1>2, <1>3, <1>5, <1>7, <2>3, <2>4, <2>5 DEF NationsTypes
  <2>7. Mirrored'
    <3>1. ASSUME NEW q \in Others
          PROVE  /\ Pending(net', {"info", "remove"}, q) \/ (q \in known <=> pact[q] # NoOne)
                 /\ pact[q] = NoOne \/ Pending(net', {"mine", "theirs"}, q)
                      \/ diplstates'[q] = pact[q]
                 /\ pact[q] = NoOne \/ Pending(net', {"theirs"}, q) \/ told'[q] = pact[q]
                 /\ pact[q] # NoOne \/ Pending(net', {"remove"}, q) \/ told'[q] = NoOne
      <4>1. /\ Pending(net, {"info", "remove"}, q) \/ (q \in known <=> pact[q] # NoOne)
            /\ pact[q] = NoOne \/ Pending(net, {"mine", "theirs"}, q) \/ diplstates[q] = pact[q]
            /\ pact[q] = NoOne \/ Pending(net, {"theirs"}, q) \/ told[q] = pact[q]
            /\ pact[q] # NoOne \/ Pending(net, {"remove"}, q) \/ told[q] = NoOne
        BY <1>7 DEF Mirrored
      <4>2. Pending(net, {"info", "remove"}, q) => Pending(net', {"info", "remove"}, q)
        BY <1>4, <1>11
      <4>3. Pending(net, {"remove"}, q) => Pending(net', {"remove"}, q)
        BY <1>4, <1>11
      <4>4. q # p => (Pending(net, {"mine", "theirs"}, q) => Pending(net', {"mine", "theirs"}, q))
        BY <1>4
      <4>5. q # p \/ m.kind = "mine"
              => (Pending(net, {"theirs"}, q) => Pending(net', {"theirs"}, q))
        BY <1>4
      <4>. QED
        BY <1>11, <2>2, <2>4, <2>5, <4>1, <4>2, <4>3, <4>4, <4>5
    <3>. QED
      BY <1>5, <2>3, <3>1 DEF Mirrored
  <2>8. Announced'
    <3>1. rumours = {} /\ owed = {q \in Others : News(q) /\ Pending(net, {"mine", "theirs"}, q)}
      BY <1>7 DEF Announced
    <3>2. Pending(net, {"mine", "theirs"}, p)
      BY <1>4, <1>11
    <3>3. news <=> p \in owed
      BY <1>3, <2>2, <3>1, <3>2 DEF News
    <3>4. owed' = owed \ {p} /\ rumours' = {}
      BY <2>3, <3>1, <3>3
    <3>5. ~News(p)'
      BY <1>5, <2>2, <2>4 DEF News
    <3>6. \A q \in Others \ {p} : /\ News(q)' <=> News(q)
                                  /\ Pending(net, {"mine", "theirs"}, q)
                                       <=> Pending(net', {"mine", "theirs"}, q)
      BY <1>4, <1>5, <2>4 DEF News
    <3>. QED
      BY <3>1, <3>4, <3>5, <3>6 DEF Announced
  <2>9. Current'
    BY <1>7, <2>2, <2>3, <2>5 DEF Current, NationsTypes
  <2>. QED
    BY <1>2, <1>8, <2>6, <2>7, <2>8, <2>9 DEF NationsInv
<1>. QED
  BY <1>2, <1>9, <1>10, <1>11 DEF RelationPackets

\* What leaves the game and the mirror alone.
LEMMA FollowingKept ==
  ASSUME NationsInv, UNCHANGED <<pact, owed, rumours, net, Courts!Mirror>>
  PROVE  Carried' /\ Mirrored' /\ Announced'
<1>1. known' = known /\ diplstates' = diplstates /\ told' = told
  BY DEF Courts!Mirror
<1>. QED
  BY <1>1 DEF NationsInv, Carried, Mirrored, Announced, News

Asked == [kind : {"cancel", "meet", "toggle_ai", "message"}, player : Others]

\* A request leaves the mirror alone.
LEMMA SendsKeeps ==
  ASSUME NationsTypes, NEW kind \in {"cancel", "meet", "toggle_ai", "message"}, NEW p \in Others,
         Courts!Sends(kind, p)
  PROVE  out' \in Seq(Asked)
<1>1. [kind |-> kind, player |-> p] \in Asked
  BY DEF Asked
<1>. QED
  BY <1>1 DEF NationsTypes, Courts!Sends, Asked

\* What the server does.
LEMMA ServerKeeps ==
  ASSUME Parameters, NationsInv,
         Courts!Relates \/ Courts!Leaves \/ Courts!Comes \/ Courts!ServerTakes
  PROVE  NationsInv'
<1>1. UNCHANGED <<rumours, Courts!Page>>
  BY DEF Courts!Relates, Courts!Leaves, Courts!Comes, Courts!ServerTakes
<1>2. UNCHANGED <<known, diplstates, told, actee, basis, rows, selected, buttons, war_label, writing>>
  BY <1>1 DEF Courts!Page, Courts!Mirror, Courts!Dialog, Courts!Table
<1>3. Current' /\ Courts!ButtonsHaveRow'
  BY <1>2 DEF NationsInv, Current, Courts!ButtonsHaveRow
<1>4. out' \in Seq(Asked)
  <2>1. out \in Seq(Asked)
    BY DEF NationsInv, NationsTypes, Asked
  <2>2. out' = out \/ (out # <<>> /\ out' = Tail(out))
    BY DEF Courts!Relates, Courts!Leaves, Courts!Comes, Courts!ServerTakes
  <2>. QED
    BY <2>1, <2>2
<1>5. Carried' /\ Mirrored' /\ Announced' /\ pact' \in [Others -> RelationStates]
        /\ net' \in Seq(RelationPackets)
  <2>1. CASE Courts!Relates
    <3>1. net = <<>> /\ \E p \in Others, state \in Courts!Relations \ {"contactless"} :
             pact[p] \notin {NoOne, state} /\ Courts!Becomes(p, state)
      BY <2>1 DEF Courts!Relates
    <3>. QED
      BY <1>1, <3>1, BecomesKeeps
  <2>2. CASE Courts!Leaves
    BY <2>2, LeavesKeeps
  <2>3. CASE Courts!Comes
    BY <2>3, ComesKeeps
  <2>4. CASE Courts!ServerTakes
    <3>. PICK r : r = Head(out)
      OBVIOUS
    <3>1. net = <<>> /\ r.player \in Others
      <4>1. out \in Seq(Asked) /\ out # <<>>
        BY <2>4 DEF Courts!ServerTakes, NationsInv, NationsTypes, Asked
      <4>2. r \in Asked
        BY <4>1
      <4>. QED
        BY <2>4, <4>2 DEF Courts!ServerTakes, Asked
    <3>2. CASE r.kind = "cancel" /\ pact[r.player] \in {"alliance", "peace"}
      <4>1. Courts!Becomes(r.player, Courts!Worse(pact[r.player]))
        BY <2>4, <3>2 DEF Courts!ServerTakes
      <4>2. /\ Courts!Worse(pact[r.player]) \in Courts!Relations
                 /\ Courts!Worse(pact[r.player]) # "contactless"
            /\ pact[r.player] \notin {NoOne, Courts!Worse(pact[r.player])}
        BY <3>2 DEF Courts!Worse, Courts!Relations, Parameters
      <4>. QED
        BY <1>1, <3>1, <4>1, <4>2, BecomesKeeps
    <3>3. CASE ~(r.kind = "cancel" /\ pact[r.player] \in {"alliance", "peace"})
      <4>1. UNCHANGED <<pact, owed, net>>
        BY <2>4, <3>3 DEF Courts!ServerTakes
      <4>2. Carried' /\ Mirrored' /\ Announced'
        BY <1>1, <4>1, FollowingKept DEF Courts!Page
      <4>. QED
        BY <4>1, <4>2 DEF NationsInv, NationsTypes
    <3>. QED
      BY <3>2, <3>3
  <2>. QED
    BY <2>1, <2>2, <2>3, <2>4
<1>6. NationsTypes'
  BY <1>2, <1>4, <1>5 DEF NationsInv, NationsTypes, Asked
<1>. QED
  BY <1>3, <1>5, <1>6 DEF NationsInv

\* The action selection dialog asks with the relation it knows.
LEMMA SelectionKeeps ==
  ASSUME Parameters, NationsInv, Courts!ActionSelection
  PROVE  NationsInv'
<1>1. /\ UNCHANGED <<pact, owed, rumours, net, out, Courts!Mirror, Courts!Table, due, writing>>
      /\ \E p \in known : actee' = p /\ basis' = told[p]
  BY DEF Courts!ActionSelection
<1>2. Carried' /\ Mirrored' /\ Announced'
  BY <1>1, FollowingKept
<1>3. NationsTypes' /\ Current' /\ Courts!ButtonsHaveRow'
  BY <1>1 DEF NationsInv, NationsTypes, Current, Courts!ButtonsHaveRow, Courts!Mirror, Courts!Table
<1>. QED
  BY <1>2, <1>3 DEF NationsInv

\* The table: who is selected has a row.
LEMMA TableKeeps ==
  ASSUME Parameters, NationsInv,
         \/ Courts!UpdateNationScreen \/ Courts!RenewsLater
         \/ \E p \in Others : Courts!NationTableSelect(p) \/ Courts!NationTableSelectPlayer(p)
         \/ Courts!CancelTreaty \/ \E button \in {"meet", "toggle_ai"} : Courts!AsksAbout(button)
         \/ Courts!ShowPrivateMessage \/ Courts!SendPrivateMessage
  PROVE  NationsInv'
<1>1. UNCHANGED <<pact, owed, rumours, net, Courts!Mirror, Courts!Dialog>>
  BY
    DEF Courts!UpdateNationScreen, Courts!RenewsLater, Courts!NationTableSelect,
        Courts!NationTableSelectPlayer, Courts!CancelTreaty,
         Courts!AsksAbout, Courts!ShowPrivateMessage, Courts!SendPrivateMessage, Courts!Page
<1>2. Carried' /\ Mirrored' /\ Announced'
  BY <1>1, FollowingKept
<1>3. Current'
  BY <1>1 DEF NationsInv, Current, Courts!Mirror, Courts!Dialog
<1>4. NationsTypes /\ Courts!ButtonsHaveRow
  BY DEF NationsInv
<1>5. /\ Courts!ButtonsHaveRow' /\ selected' \in Others \cup {NoOne}
           /\ writing' \in Others \cup {NoOne}
      /\ out' \in Seq(Asked)
  <2>1. CASE Courts!UpdateNationScreen \/ Courts!RenewsLater
    BY <1>4, <2>1
      DEF Courts!UpdateNationScreen, Courts!RenewsLater, Courts!Renewed, Courts!ButtonsHaveRow,
          NationsTypes, Asked
  <2>2. CASE \E p \in Others : Courts!NationTableSelect(p) \/ Courts!NationTableSelectPlayer(p)
    BY <1>4, <2>2
      DEF Courts!NationTableSelect, Courts!NationTableSelectPlayer, Courts!Selects,
          Courts!ButtonsHaveRow, NationsTypes, Asked
  <2>3. CASE Courts!CancelTreaty
    <3>1. selected \in Others /\ Courts!Sends("cancel", selected)
      BY <1>4, <2>3 DEF Courts!CancelTreaty, NationsTypes
    <3>2. out' \in Seq(Asked)
      BY <1>4, <3>1, SendsKeeps
    <3>. QED
      BY <1>4, <2>3, <3>2
        DEF Courts!CancelTreaty, Courts!Renewed, Courts!ButtonsHaveRow, NationsTypes
  <2>4. CASE \E button \in {"meet", "toggle_ai"} : Courts!AsksAbout(button)
    <3>1. PICK button \in {"meet", "toggle_ai"} : Courts!AsksAbout(button)
      BY <2>4
    <3>2. selected \in Others /\ Courts!Sends(button, selected)
      BY <1>4, <3>1 DEF Courts!AsksAbout, NationsTypes
    <3>3. out' \in Seq(Asked)
      BY <1>4, <3>2, SendsKeeps
    <3>. QED
      BY <1>4, <3>1, <3>3
        DEF Courts!AsksAbout, Courts!ButtonsHaveRow, NationsTypes, Courts!Page, Courts!Table
  <2>5. CASE Courts!ShowPrivateMessage
    BY <1>4, <2>5
      DEF Courts!ShowPrivateMessage, Courts!ButtonsHaveRow, NationsTypes, Courts!Table, Asked
  <2>6. CASE Courts!SendPrivateMessage
    <3>1. writing \in Others /\ Courts!Sends("message", writing)
      BY <1>4, <2>6 DEF Courts!SendPrivateMessage, NationsTypes
    <3>2. out' \in Seq(Asked)
      BY <1>4, <3>1, SendsKeeps
    <3>. QED
      BY <1>4, <2>6, <3>2
        DEF Courts!SendPrivateMessage, Courts!ButtonsHaveRow, NationsTypes, Courts!Table
  <2>. QED
    BY <2>1, <2>2, <2>3, <2>4, <2>5, <2>6
<1>6. NationsTypes'
  BY <1>1, <1>4, <1>5 DEF NationsTypes, Courts!Mirror, Courts!Dialog, Asked
<1>. QED
  BY <1>2, <1>3, <1>5, <1>6 DEF NationsInv

\* The invariant is inductive.
LEMMA NationsStep == Parameters /\ NationsInv /\ [Courts!Next]_Courts!vars => NationsInv'
<1>. SUFFICES ASSUME Parameters, NationsInv, [Courts!Next]_Courts!vars
     PROVE  NationsInv'
  OBVIOUS
<1>1. CASE UNCHANGED Courts!vars
  <2>1. Carried' /\ Mirrored' /\ Announced'
    BY <1>1, FollowingKept DEF Courts!vars, Courts!Mirror
  <2>. QED
    BY <1>1, <2>1 DEF Courts!vars, NationsInv, NationsTypes, Current, Courts!ButtonsHaveRow
<1>. QED
  BY <1>1, ServerKeeps, RelationHandled, SelectionKeeps, TableKeeps DEF Courts!Next

-----------------------------------------------------------------------------
\* Everybody is told of at first.
LEMMA RequestsDiffer ==
  ASSUME Parameters, NEW names, names = Courts!SetToSeq(Others)
  PROVE  /\ names \in Seq(Others)
         /\ \A p \in Others : \E i \in 1..Len(names) : names[i] = p
<1> DEFINE n == Cardinality(Others)
<1>1. IsFiniteSet(Others) /\ n \in Nat
  BY FS_CardinalityType DEF Parameters
<1>2. \E f : f \in [1..n -> Others] /\ IsInjective(f)
  <2>1. ExistsBijection(1..n, Others)
    BY <1>1, FS_NatBijection, FS_CountingElements
  <2>. QED
    BY <2>1 DEF ExistsBijection, Bijection, Injection
<1>3. names \in [1..n -> Others] /\ IsInjective(names)
  <2>1. Courts!Cardinality(Others) = n
    BY DEF Courts!Cardinality, Cardinality
  <2>2. \A f : Courts!IsInjective(f) <=> IsInjective(f)
    BY DEF Courts!IsInjective, IsInjective
  <2>. QED
    BY <1>2, <2>1, <2>2 DEF Courts!SetToSeq
<1>4. names \in Seq(Others) /\ Len(names) = n
  BY <1>1, <1>3
<1>5. names \in Injection(1..n, Others) /\ IsFiniteSet(1..n) /\ Cardinality(1..n) = n
  BY <1>1, <1>3, FS_Interval DEF Injection
<1>6. names \in Surjection(1..n, Others)
  BY <1>1, <1>5, FS_Injection
<1>. QED
  BY <1>4, <1>6 DEF Surjection

\* The packets of a page that loads tell of everybody, and of every relation.
LEMMA Greets ==
  ASSUME Parameters, pact \in [Others -> Courts!Relations], NEW g, g = Courts!Greeting
  PROVE  /\ g \in Seq(RelationPackets)
         /\ \A i \in DOMAIN g : /\ g[i].kind \in {"info", "mine", "theirs"}
                                /\ g[i].kind # "info" => g[i].state = pact[g[i].player]
         /\ \A p \in Others : Pending(g, {"info", "remove"}, p) /\ Pending(g, {"theirs"}, p)
                              /\ Pending(g, {"mine", "theirs"}, p)
<1>. PICK names : names = Courts!SetToSeq(Others)
  OBVIOUS
<1> DEFINE n == Len(names)
<1> DEFINE who(i) == names[(i + 1) \div 2]
<1> DEFINE a == [i \in 1..n |-> Courts!Info(names[i])]
<1> DEFINE b == [i \in 1..2 * n |-> IF i % 2 = 1 THEN Courts!OfMine(who(i), pact[who(i)])
                                                ELSE Courts!OfTheirs(who(i), pact[who(i)])]
<1>1. names \in Seq(Others) /\ n \in Nat /\ \A i \in 1..n : names[i] \in Others
  BY RequestsDiffer
<1>2. \A p \in Others : \E i \in 1..n : names[i] = p
  BY RequestsDiffer
<1>3. g = a \o b
  BY DEF Courts!Greeting
<1>4. ASSUME NEW i \in 1..2 * n
      PROVE  who(i) \in Others /\ pact[who(i)] \in RelationStates
  <2>1. (i + 1) \div 2 \in 1..n
    BY <1>1
  <2>. QED
    BY <1>1, <2>1 DEF RelationStates
<1>5. ASSUME NEW i \in 1..n
      PROVE  a[i] \in RelationPackets /\ a[i].kind = "info" /\ a[i].player = names[i]
  BY <1>1 DEF Courts!Info, RelationPackets, RelationStates
<1>6. ASSUME NEW i \in 1..2 * n
      PROVE  /\ b[i] \in RelationPackets /\ b[i].kind \in {"mine", "theirs"} /\ b[i].player = who(i)
             /\ b[i].state = pact[who(i)]
             /\ i % 2 # 1 => b[i].kind = "theirs"
  <2>1. CASE i % 2 = 1
    <3>1. b[i] = Courts!OfMine(who(i), pact[who(i)])
      BY <2>1
    <3> HIDE DEF b, who
    <3>. QED
      BY <1>4, <2>1, <3>1 DEF Courts!OfMine, RelationPackets
  <2>2. CASE i % 2 # 1
    <3>1. b[i] = Courts!OfTheirs(who(i), pact[who(i)])
      BY <2>2
    <3> HIDE DEF b, who
    <3>. QED
      BY <1>4, <2>2, <3>1 DEF Courts!OfTheirs, RelationPackets
  <2>. QED
    BY <2>1, <2>2
<1>7. a \in Seq(RelationPackets) /\ Len(a) = n
  <2>1. a \in [1..n -> RelationPackets]
    BY <1>5
  <2>. QED
    BY <1>1, <2>1
<1>8. b \in Seq(RelationPackets) /\ Len(b) = 2 * n
  <2>1. b \in [1..2 * n -> RelationPackets]
    BY <1>6
  <2>2. 2 * n \in Nat
    BY <1>1
  <2> HIDE DEF b
  <2>. QED
    BY <2>1, <2>2
<1> HIDE DEF a, b
<1>9. /\ g \in Seq(RelationPackets) /\ Len(g) = n + 2 * n /\ DOMAIN g = 1..(n + 2 * n)
      /\ \A i \in 1..n : g[i] = a[i]
      /\ \A i \in 1..2 * n : g[n + i] = b[i]
  <2> DEFINE k == 2 * n
  <2>1. k \in Nat /\ n \in Nat
    BY <1>1
  <2> HIDE DEF k, n
  <2>2. /\ g \in Seq(RelationPackets) /\ Len(g) = n + k /\ DOMAIN g = 1..(n + k)
        /\ \A i \in 1..n + k : g[i] = IF i <= n THEN a[i] ELSE b[i - n]
    <3>1. Len(a) = n /\ Len(b) = k
      BY <1>7, <1>8 DEF k
    <3>2. /\ g \in Seq(RelationPackets) /\ Len(g) = Len(a) + Len(b)
          /\ \A i \in 1..Len(a) + Len(b) : g[i] = IF i <= Len(a) THEN a[i] ELSE b[i - Len(a)]
      BY <1>3, <1>7, <1>8, ConcatProperties
    <3>3. DOMAIN g = 1..Len(g)
      BY <3>2, LenProperties
    <3>. QED
      BY <3>1, <3>2, <3>3
  <2>3. \A i \in 1..k : n + i \in 1..n + k /\ ~(n + i <= n) /\ (n + i) - n = i
    BY <2>1
  <2>4. \A i \in 1..k : g[n + i] = b[i]
    BY <2>2, <2>3
  <2>5. \A i \in 1..n : g[i] = a[i]
    BY <2>1, <2>2
  <2>. QED
    BY <2>2, <2>4, <2>5 DEF k
<1>10. ASSUME NEW i \in DOMAIN g
       PROVE  (i \in 1..n /\ g[i] = a[i]) \/ \E j \in 1..2 * n : g[i] = b[j]
  <2>1. CASE i <= n
    BY <1>1, <1>9, <2>1
  <2>2. CASE ~(i <= n)
    <3>1. i - n \in 1..2 * n /\ n + (i - n) = i
      BY <1>1, <1>9, <2>2
    <3>2. g[n + (i - n)] = b[i - n]
      BY <1>9, <3>1
    <3>. QED
      BY <3>1, <3>2
  <2>. QED
    BY <2>1, <2>2
<1>11. ASSUME NEW i \in DOMAIN g
       PROVE  /\ g[i].kind \in {"info", "mine", "theirs"}
              /\ g[i].kind # "info" => g[i].state = pact[g[i].player]
  BY <1>5, <1>6, <1>10
<1>12. ASSUME NEW p \in Others
       PROVE  /\ Pending(g, {"info", "remove"}, p) /\ Pending(g, {"theirs"}, p)
              /\ Pending(g, {"mine", "theirs"}, p)
  <2>1. PICK i \in 1..n : names[i] = p
    BY <1>2
  <2>2. i \in DOMAIN g /\ g[i].kind = "info" /\ g[i].player = p
    BY <1>1, <1>5, <1>9, <2>1
  <2>. PICK j : j = 2 * i
    OBVIOUS
  <2>3. j \in 1..2 * n /\ j % 2 # 1 /\ (j + 1) \div 2 = i
    BY <1>1
  <2>4. n + j \in DOMAIN g /\ g[n + j] = b[j]
    <3>1. n + j \in 1..(n + 2 * n)
      BY <1>1, <2>3
    <3>. QED
      BY <1>9, <2>3, <3>1
  <2>5. who(j) = p
    BY <2>1, <2>3
  <2> HIDE DEF who
  <2>6. g[n + j].kind = "theirs" /\ g[n + j].player = p
    BY <1>6, <2>3, <2>4, <2>5
  <2>. QED
    BY <2>2, <2>4, <2>6 DEF Pending
<1>. QED
  BY <1>9, <1>11, <1>12

\* It holds at first.
LEMMA NationsStarts == Parameters /\ Courts!Init => NationsInv
<1>. SUFFICES ASSUME Parameters, Courts!Init
     PROVE  NationsInv
  OBVIOUS
<1>1. pact \in [Others -> Courts!Relations] /\ net = Courts!Greeting
  BY DEF Courts!Init
<1>2. NoOne \notin Courts!Relations /\ NoOne \in RelationStates
        /\ Courts!Relations \subseteq RelationStates
  BY DEF Parameters, RelationStates
<1>3. /\ net \in Seq(RelationPackets)
      /\ \A i \in DOMAIN net : /\ net[i].kind \in {"info", "mine", "theirs"}
                               /\ net[i].kind # "info" => net[i].state = pact[net[i].player]
      /\ \A p \in Others : Pending(net, {"info", "remove"}, p) /\ Pending(net, {"theirs"}, p)
                           /\ Pending(net, {"mine", "theirs"}, p)
  BY <1>1, Greets
<1>4. \A i \in DOMAIN net : net[i] \in RelationPackets
  BY <1>3
<1>5. \A i \in DOMAIN net : pact[net[i].player] \in Courts!Relations
  BY <1>1, <1>4 DEF RelationPackets
<1>6. NationsTypes
  <2>1. /\ diplstates \in [Others -> RelationStates] /\ told \in [Others -> RelationStates]
        /\ known = {} /\ actee = NoOne /\ basis = NoOne /\ selected = NoOne /\ writing = NoOne
             /\ out = <<>>
    BY <1>2 DEF Courts!Init
  <2>2. pact \in [Others -> RelationStates]
    BY <1>1, <1>2
  <2>3. out \in Seq([kind : {"cancel", "meet", "toggle_ai", "message"}, player : Others])
    BY <2>1, EmptySeq
  <2>. QED
    BY <1>2, <1>3, <2>1, <2>2, <2>3 DEF NationsTypes
<1>7. Carried
  BY <1>2, <1>3, <1>5 DEF Carried
<1>8. Mirrored
  BY <1>1, <1>2, <1>3 DEF Mirrored
<1>9. Announced
  <2>1. owed = {p \in Others : pact[p] = "war"} /\ rumours = {}
          /\ diplstates = [p \in Others |-> NoOne]
    BY DEF Courts!Init
  <2>2. \A p \in Others : diplstates[p] \notin {"war", "contactless"}
    BY <1>2, <2>1 DEF Courts!Relations
  <2>. QED
    BY <1>3, <2>1, <2>2 DEF Announced, News
<1>10. Current /\ Courts!ButtonsHaveRow
  BY DEF Courts!Init, Current, Courts!ButtonsHaveRow
<1>. QED
  BY <1>6, <1>7, <1>8, <1>9, <1>10 DEF NationsInv

\* Without packets on their way the mirror is the server's.
LEMMA NationsFollow == Parameters /\ NationsInv => Courts!NationsSound
<1>. SUFFICES ASSUME Parameters, NationsInv
     PROVE  Courts!NationsSound
  OBVIOUS
<1>1. Courts!RelationsFollow
  <2>1. net = <<>> => /\ known = {p \in Others : pact[p] # NoOne}
                      /\ \A p \in Others : pact[p] # NoOne => diplstates[p] = pact[p]
                           /\ told[p] = pact[p]
                      /\ owed = {} /\ rumours = {}
    BY Quiet
  <2>. QED
    BY <2>1 DEF Courts!RelationsFollow
<1>2. Courts!SelectionCurrent
  <2>1. net = <<>> => \A p \in Others : told[p] # NoOne => told[p] = pact[p]
    BY Quiet
  <2>2. actee # NoOne /\ basis # NoOne => basis = told[actee] /\ actee \in Others
    BY DEF NationsInv, Current, NationsTypes
  <2>. QED
    BY <2>1, <2>2 DEF Courts!SelectionCurrent
<1>. QED
  BY <1>1, <1>2 DEF Courts!NationsSound, NationsInv

\* For any number of players, whoever comes and leaves: when everything has
\* arrived the relations of the mirror are the server's, and every war with somebody
\* known was announced and no other; actions were asked for under the relation that
\* holds; and the buttons of the nations' table go with a row
\* (handle_player_diplstate, handle_player_remove, select_a_nation).
THEOREM NationsAreSound == ASSUME Parameters PROVE Courts!Spec => []Courts!NationsSound
<1>1. Courts!Init => NationsInv
  BY NationsStarts
<1>2. NationsInv /\ [Courts!Next]_Courts!vars => NationsInv'
  BY NationsStep
<1>3. NationsInv => Courts!NationsSound
  BY NationsFollow
<1>. QED
  BY <1>1, <1>2, <1>3, PTL DEF Courts!Spec

-----------------------------------------------------------------------------
(* The connection and the session.                                         *)

CONSTANTS Modes, MaxTurns, MaxLog, MaxTimers
VARIABLES mode, server, ws, sent, state, page, conn, connections, log, timers, shown,
          jobs, button, clicked

Client == INSTANCE Session

\* What is needed of the parameters: one timer at least is counted.
SessionParams ==
  /\ MaxTimers \in Nat \ {0}
  /\ Modes \subseteq [observing : BOOLEAN, autostart : BOOLEAN, load : BOOLEAN]

Servers == [login : {"none", "yes", "no"}, game : {"pregame", "running", "over"}, turn : Nat,
            loaded : BOOLEAN, chat : BOOLEAN]

SessionRecords ==
  /\ server \in Servers
  /\ conn \in [id : {Client!Unset, Client!Own}, established : BOOLEAN, player : {Client!Unset, Client!NoPlayer, 1}]
  /\ timers \in [running : 0..MaxTimers, known : BOOLEAN]
  /\ net \in Seq(Client!Packets) /\ log \in Seq(Client!Texts)

\* Nothing that asks for the login is done for another text.
Waiting == jobs \subseteq {<<"logged_in", w>> : w \in {"ready", "observe", "load"}}
                            \cup {<<"load_complete", "toggle">>}

\* The greeting comes after the reply to the login, and that only once.
Welcomed ==
  /\ server.login = "none" => net = <<>>
  /\ server.login # "yes" => net \in Seq({"reject"})
  /\ server.login = "yes" =>
       /\ net \in Seq(Client!Packets \ {"reject"})
       /\ conn.id = Client!Own \/ (net # <<>> /\ Head(net) = "join")
  /\ "logged_in" \in shown \cup {log[i] : i \in DOMAIN log} => server.login = "yes"
       /\ conn.id = Client!Own

SessionInv == Client!SessionSound /\ SessionRecords /\ Waiting /\ Welcomed

-----------------------------------------------------------------------------
\* The log with messages more.
LEMMA PutKeeps ==
  ASSUME SessionParams, NEW t \in [running : 0..MaxTimers, known : BOOLEAN],
         t.known => t.running > 0,
         NEW q \in Seq(Client!Texts), NEW ms \in Seq(Client!Texts),
         NEW l, l = Client!Put([queue |-> q, timers |-> t], ms)
  PROVE  /\ l.queue = q \o ms /\ l.queue \in Seq(Client!Texts)
         /\ l.timers \in [running : 0..MaxTimers, known : BOOLEAN]
         /\ l.timers.known => l.timers.running > 0
         /\ l = [queue |-> l.queue, timers |-> l.timers]
<1>1. l.queue = q \o ms /\ l = [queue |-> l.queue, timers |-> l.timers]
  BY DEF Client!Put
<1>q. q \o ms \in Seq(Client!Texts)
  OBVIOUS
<1>2. CASE ms = <<>> \/ t.known
  BY <1>q, <1>1, <1>2 DEF Client!Put
<1>3. CASE ~(ms = <<>> \/ t.known)
  <2>1. l.timers = [running |-> Client!Pause(t.running + 1), known |-> TRUE]
    BY <1>3 DEF Client!Put
  <2>2. PICK n : n = Client!Pause(t.running + 1)
    OBVIOUS
  <2>3. n \in 0..MaxTimers /\ n > 0
    BY <2>2 DEF Client!Pause, SessionParams
  <2>4. l.timers = [running |-> n, known |-> TRUE]
    BY <2>1, <2>2
  <2>5. /\ l.timers \in [running : 0..MaxTimers, known : BOOLEAN]
        /\ l.timers.running > 0
    <3>1. [running |-> n, known |-> TRUE] \in [running : 0..MaxTimers, known : BOOLEAN]
      BY <2>3
    <3>2. l.timers.running = n
      BY <2>4
    <3>. QED
      BY <2>3, <2>4, <3>1, <3>2, Zenon
  <2>. QED
    BY <1>1, <1>q, <2>5
<1>. QED
  BY <1>1, <1>2, <1>3

\* Firing the log shows what it holds, or puts it back.
LEMMA FireKeeps ==
  ASSUME SessionParams, NEW t \in [running : 0..MaxTimers, known : BOOLEAN],
         t.known => t.running > 0,
         NEW q \in Seq(Client!Texts), NEW f, f = Client!FireNow([queue |-> q, timers |-> t])
  PROVE  /\ f.log.queue \in {q, <<>>} /\ f.texts \subseteq {q[i] : i \in DOMAIN q}
         /\ f.log.timers \in [running : 0..MaxTimers, known : BOOLEAN]
         /\ f.log.timers.known => f.log.timers.running > 0
<1>1. CASE q = <<>>
  BY <1>1 DEF Client!FireNow
<1>2. CASE q # <<>>
  <2> DEFINE empty == [queue |-> <<>>, timers |-> Client!Cancel(t)]
  <2> DEFINE left == IF Client!Area THEN empty ELSE Client!Put(empty, q)
  <2>1. Client!Cancel(t) \in [running : 0..MaxTimers, known : BOOLEAN] /\ ~Client!Cancel(t).known
    BY DEF Client!Cancel, SessionParams
  <2>2. Client!Put(empty, q).queue = q /\ Client!Put(empty, q).timers.running \in 0..MaxTimers
    <3>1. <<>> \in Seq(Client!Texts) /\ <<>> \o q = q
      OBVIOUS
    <3>. QED
      BY <2>1, <3>1, PutKeeps
  <2>3. left.queue \in {q, <<>>} /\ left.timers.running \in 0..MaxTimers
    BY <2>1, <2>2
  <2>4. left = [queue |-> left.queue, timers |-> left.timers]
    BY DEF Client!Put
  <2>p. PICK n : n = Client!Pause(left.timers.running + 1)
    OBVIOUS
  <2>5. n \in 0..MaxTimers /\ n > 0
    BY <2>3, <2>p DEF Client!Pause, SessionParams
  <2> DEFINE new == [left EXCEPT !.timers = [running |-> n, known |-> TRUE]]
  <2>6. f = [log |-> new, texts |-> IF Client!Area THEN {q[i] : i \in 1..Len(q)} ELSE {}]
    BY <1>2, <2>p DEF Client!FireNow
  <2> HIDE DEF left
  <2>7. new.queue = left.queue /\ new.timers = [running |-> n, known |-> TRUE]
    BY <2>4
  <2> HIDE DEF new
  <2>8. {q[i] : i \in 1..Len(q)} = {q[i] : i \in DOMAIN q}
    BY LenProperties
  <2>9. f.log = new /\ f.texts \subseteq {q[i] : i \in DOMAIN q}
    BY <2>6, <2>8
  <2>10. /\ new.timers \in [running : 0..MaxTimers, known : BOOLEAN]
         /\ new.timers.running > 0
    BY <2>5, <2>7
  <2>. QED
    BY <2>3, <2>7, <2>9, <2>10
<1>. QED
  BY <1>1, <1>2

\* What nothing but the page's own variables changes.
LEMMA QuietKeeps ==
  ASSUME SessionInv, UNCHANGED <<server, net, conn, Client!msgVars>>
  PROVE  SessionRecords' /\ Welcomed'
BY DEF SessionInv, SessionRecords, Welcomed, Client!msgVars

\* A message is logged that the server has sent, or the page itself.
LEMMA LoggedKeeps ==
  ASSUME SessionParams, SessionInv, NEW text \in Client!Texts, Client!Logged(<<text>>),
         UNCHANGED conn,
         text = "logged_in" => server.login = "yes" /\ conn.id = Client!Own
  PROVE  /\ timers' \in [running : 0..MaxTimers, known : BOOLEAN]
         /\ timers'.known => timers'.running > 0
         /\ log' \in Seq(Client!Texts) /\ shown' = shown
         /\ "logged_in" \in shown' \cup {log'[i] : i \in DOMAIN log'} => server.login = "yes"
              /\ conn.id = Client!Own
<1>. PICK l : l = Client!Put([queue |-> log, timers |-> timers], <<text>>)
  OBVIOUS
<1>1. log' = l.queue /\ timers' = l.timers /\ shown' = shown
  BY DEF Client!Logged, Client!SetLog, Client!Log
<1>2. <<text>> \in Seq(Client!Texts)
  OBVIOUS
<1>3. log \in Seq(Client!Texts) /\ timers \in [running : 0..MaxTimers, known : BOOLEAN]
      /\ (timers.known => timers.running > 0)
  BY DEF SessionInv, Client!SessionSound, Client!TypeOK, SessionRecords
<1>4. l.queue = log \o <<text>> /\ l.queue \in Seq(Client!Texts)
      /\ l.timers \in [running : 0..MaxTimers, known : BOOLEAN]
           /\ (l.timers.known => l.timers.running > 0)
  BY <1>2, <1>3, PutKeeps
<1>5. \A i \in DOMAIN log' : (i \in DOMAIN log /\ log'[i] = log[i]) \/ log'[i] = text
  BY <1>1, <1>2, <1>3, <1>4, SMTT(20)
<1>. QED
  BY <1>1, <1>4, <1>5 DEF SessionInv, Welcomed

\* The log is fired.
LEMMA FiredKeeps ==
  ASSUME SessionParams, SessionInv, NEW t \in [running : 0..MaxTimers, known : BOOLEAN],
         t.known => t.running > 0,
         (LET f == Client!FireNow([queue |-> log, timers |-> t])
          IN  Client!SetLog(f.log) /\ shown' = shown \cup f.texts),
         UNCHANGED conn
  PROVE  /\ timers' \in [running : 0..MaxTimers, known : BOOLEAN]
         /\ timers'.known => timers'.running > 0
         /\ log' \in Seq(Client!Texts) /\ shown' \subseteq Client!Texts
         /\ "logged_in" \in shown' \cup {log'[i] : i \in DOMAIN log'} => server.login = "yes"
              /\ conn.id = Client!Own
<1>. PICK f : f = Client!FireNow([queue |-> log, timers |-> t])
  OBVIOUS
<1>1. log' = f.log.queue /\ timers' = f.log.timers /\ shown' = shown \cup f.texts
  BY DEF Client!SetLog
<1>2. log \in Seq(Client!Texts) /\ shown \subseteq Client!Texts
  BY DEF SessionInv, Client!SessionSound, Client!TypeOK, SessionRecords
<1>3. /\ f.log.queue \in {log, <<>>} /\ f.texts \subseteq {log[i] : i \in DOMAIN log}
      /\ f.log.timers \in [running : 0..MaxTimers, known : BOOLEAN]
      /\ f.log.timers.known => f.log.timers.running > 0
  BY <1>2, FireKeeps
<1>4. {log[i] : i \in DOMAIN log} \subseteq Client!Texts
  BY <1>2
<1>5. log' = log \/ log' = <<>>
  BY <1>1, <1>3
<1>6. log' \in Seq(Client!Texts)
        /\ {log'[i] : i \in DOMAIN log'} \subseteq {log[i] : i \in DOMAIN log}
  <2>1. CASE log' = log
    BY <1>2, <2>1
  <2>2. CASE log' = <<>>
    BY <2>2
  <2>. QED
    BY <1>5, <2>1, <2>2
<1>. QED
  BY <1>1, <1>2, <1>3, <1>4, <1>6 DEF SessionInv, Welcomed

\* A packet is taken: what is known of it, and of what is left.
LEMMA TakenIs ==
  ASSUME SessionInv, net # <<>>, net' = Tail(net)
  PROVE  /\ Head(net) \in Client!Packets /\ net' \in Seq(Client!Packets)
         /\ server.login # "none"
         /\ server.login = "no" => Head(net) = "reject" /\ net' \in Seq({"reject"})
         /\ server.login = "yes" =>
              /\ Head(net) # "reject" /\ net' \in Seq(Client!Packets \ {"reject"})
              /\ Head(net) = "join" \/ conn.id = Client!Own
<1>0. server.login \in {"none", "yes", "no"}
  BY DEF SessionInv, SessionRecords, Servers
<1>1. /\ net \in Seq(Client!Packets)
      /\ server.login = "none" => net = <<>>
      /\ server.login # "yes" => net \in Seq({"reject"})
      /\ server.login = "yes" =>
           net \in Seq(Client!Packets \ {"reject"}) /\ (conn.id = Client!Own \/ Head(net) = "join")
  BY DEF SessionInv, SessionRecords, Welcomed
<1>2. \A S : net \in Seq(S) => Head(net) \in S /\ net' \in Seq(S)
  BY HeadTailProperties
<1>. QED
  BY <1>0, <1>1, <1>2

\* The client handles the first packet on its way.
LEMMA SessionHandled ==
  ASSUME SessionParams, SessionInv, Client!Handle
  PROVE  SessionInv'
<1>. PICK p : p = Head(net)
  OBVIOUS
<1>1. ws = "open" /\ net # <<>> /\ net' = Tail(net) /\ UNCHANGED <<mode, server>>
  BY DEF Client!Handle
<1>2. /\ p \in Client!Packets /\ net' \in Seq(Client!Packets)
      /\ server.login # "none"
      /\ server.login = "no" => p = "reject" /\ net' \in Seq({"reject"})
      /\ server.login = "yes" =>
           /\ p # "reject" /\ net' \in Seq(Client!Packets \ {"reject"})
           /\ p = "join" \/ conn.id = Client!Own
  BY <1>1, TakenIs
<1>3. /\ Client!TypeOK /\ Client!PageOfGame /\ Client!WaitsForLogin /\ SessionRecords /\ Waiting
           /\ Welcomed
  BY DEF SessionInv, Client!SessionSound
<1>n. \A i \in 1..Len(net') : net'[i] \in Client!Packets
  BY <1>2
<1>m. mode.observing \in BOOLEAN /\ mode.autostart \in BOOLEAN
  BY <1>3 DEF Client!TypeOK, SessionParams
<1>4. CASE p = "join" /\ Client!JoinReply
  <2>1. /\ conn' = [conn EXCEPT !.established = TRUE, !.id = Client!Own] /\ state' = "preparing"
        /\ UNCHANGED <<ws, page, connections, button, clicked, Client!msgVars>>
        /\ sent' \subseteq sent \cup {"info"}
        /\ jobs' \subseteq jobs \cup {<<"logged_in", "ready">>, <<"logged_in", "observe">>}
    BY <1>4 DEF Client!JoinReply, Client!Send, Client!ClientInfo
  <2>2. /\ conn' \in [id : {Client!Unset, Client!Own}, established : BOOLEAN,
                     player : {Client!Unset, Client!NoPlayer, 1}]
        /\ conn'.id = Client!Own /\ conn'.player = conn.player
    BY <1>3, <2>1 DEF SessionRecords, Servers
  <2>3. jobs' \subseteq Client!Texts \X Client!Wants
    BY <1>3, <2>1 DEF Client!TypeOK, Client!Texts, Client!Wants
  <2>4. Client!TypeOK'
    BY <1>1, <1>3, <1>n, <2>1, <2>2, <2>3 DEF Client!TypeOK, Client!msgVars
  <2>5. server.login = "yes"
    BY <1>2, <1>3, <1>4 DEF SessionRecords, Servers
  <2>6. Client!WaitsForLogin' /\ Client!PageOfGame' /\ Client!ClosedIsOver'
    BY <1>1, <1>3, <2>1, <2>2, <2>5 DEF Client!WaitsForLogin, Client!PageOfGame, Client!ClosedIsOver
  <2>7. SessionRecords' /\ Waiting'
    BY <1>1, <1>2, <1>3, <2>1, <2>2 DEF SessionRecords, Waiting, Client!msgVars
  <2>8. Welcomed'
    BY <1>1, <1>2, <1>3, <2>1, <2>2, <2>5 DEF Welcomed, Client!msgVars
  <2>. QED
    BY <2>4, <2>6, <2>7, <2>8 DEF SessionInv, Client!SessionSound
<1>5. CASE p = "reject" /\ Client!Rejected
  <2>1. /\ conn' = [conn EXCEPT !.id = Client!Unset]
        /\ UNCHANGED <<ws, sent, state, page, connections, jobs, button, clicked, Client!msgVars>>
    BY <1>5 DEF Client!Rejected
  <2>2. /\ conn' \in [id : {Client!Unset, Client!Own}, established : BOOLEAN,
                     player : {Client!Unset, Client!NoPlayer, 1}]
        /\ conn'.player = conn.player
    BY <1>3, <2>1 DEF SessionRecords
  <2>3. server.login = "no"
    BY <1>2, <1>3, <1>5 DEF SessionRecords, Servers
  <2>4. Client!TypeOK'
    BY <1>1, <1>3, <1>n, <2>1, <2>2 DEF Client!TypeOK, Client!msgVars
  <2>5. Client!WaitsForLogin' /\ Client!PageOfGame' /\ Client!ClosedIsOver'
    BY <1>1, <1>3, <2>1, <2>3 DEF Client!WaitsForLogin, Client!PageOfGame, Client!ClosedIsOver
  <2>6. SessionRecords' /\ Waiting'
    BY <1>1, <1>2, <1>3, <2>1, <2>2 DEF SessionRecords, Waiting, Client!msgVars
  <2>7. Welcomed'
    BY <1>1, <1>2, <1>3, <2>1, <2>3 DEF Welcomed, Client!msgVars
  <2>. QED
    BY <2>4, <2>5, <2>6, <2>7 DEF SessionInv, Client!SessionSound
<1>6. ASSUME p \notin {"join", "reject"}
      PROVE  server.login = "yes" /\ conn.id = Client!Own
  BY <1>2, <1>3, <1>6 DEF SessionRecords, Servers
<1>7. ASSUME NEW id \in {Client!Own, Client!Other}, NEW player \in {Client!NoPlayer, 1},
             p \notin {"join", "reject"}, Client!ConnInfo(id, player)
      PROVE  SessionInv'
  <2>1. /\ conn'.id = conn.id
        /\ conn' \in [id : {Client!Unset, Client!Own}, established : BOOLEAN,
                     player : {Client!Unset, Client!NoPlayer, 1}]
        /\ connections' = connections \cup {id}
        /\ UNCHANGED <<ws, sent, state, page, jobs, button, clicked, Client!msgVars>>
    BY <1>3, <1>6, <1>7 DEF Client!ConnInfo, SessionRecords
  <2>. QED
    BY <1>1, <1>2, <1>3, <1>n, <1>6, <1>7, <2>1
    DEF SessionInv, Client!SessionSound, Client!TypeOK, Client!PageOfGame, Client!WaitsForLogin,
        Client!ClosedIsOver, SessionRecords, Waiting, Welcomed,
        Client!msgVars
<1>8. CASE p = "gone" /\ Client!ConnGone(Client!Other)
  BY <1>1, <1>2, <1>3, <1>6, <1>8, <1>n
  DEF SessionInv, Client!SessionSound, Client!TypeOK, Client!PageOfGame, Client!WaitsForLogin,
      Client!ClosedIsOver, SessionRecords, Waiting, Welcomed,
      Client!ConnGone, Client!msgVars
<1>9. CASE p \in Client!Texts /\ Client!ChatMsg(p)
  <2>1. p \notin {"join", "reject"}
    BY <1>9 DEF Client!Texts
  <2>2. /\ timers' \in [running : 0..MaxTimers, known : BOOLEAN]
        /\ timers'.known => timers'.running > 0
        /\ log' \in Seq(Client!Texts) /\ shown' = shown
        /\ "logged_in" \in shown' \cup {log'[i] : i \in DOMAIN log'} => server.login = "yes"
             /\ conn.id = Client!Own
    <3>1. UNCHANGED Client!webVars /\ Client!Logged(<<p>>)
      BY <1>9 DEF Client!ChatMsg
    <3>. QED
      BY <1>6, <1>9, <2>1, <3>1, LoggedKeeps DEF Client!webVars
  <2>. QED
    BY <1>1, <1>2, <1>3, <1>6, <1>9, <1>n, <2>1, <2>2
    DEF SessionInv, Client!SessionSound, Client!TypeOK, Client!PageOfGame, Client!WaitsForLogin,
        Client!ClosedIsOver, SessionRecords, Waiting, Welcomed,
        Client!ChatMsg, Client!webVars
<1>10. CASE p = "ping" /\ Client!ConnPing
  <2>1. sent' \subseteq sent \cup {"pong"}
    BY <1>10 DEF Client!ConnPing, Client!Send
  <2>. QED
    BY <1>1, <1>2, <1>3, <1>6, <1>10, <1>n, <2>1
    DEF SessionInv, Client!SessionSound, Client!TypeOK, Client!PageOfGame, Client!WaitsForLogin,
        Client!ClosedIsOver, SessionRecords, Waiting, Welcomed,
        Client!ConnPing, Client!msgVars
<1>11. CASE p = "start_phase" /\ Client!StartPhase
  <2>1. CASE state = "running"
    BY <1>1, <1>2, <1>3, <1>6, <1>11, <1>n, <2>1
    DEF SessionInv, Client!SessionSound, Client!TypeOK, Client!PageOfGame, Client!WaitsForLogin,
        Client!ClosedIsOver, SessionRecords, Waiting, Welcomed,
        Client!StartPhase, Client!msgVars
  <2>2. CASE state # "running"
    <3> DEFINE greeting == IF mode.observing \/ mode.autostart THEN <<>> ELSE <<"welcome">>
    <3>. PICK l : l = Client!Put([queue |-> <<>>, timers |-> timers], greeting)
      OBVIOUS
    <3>1. log' = l.queue /\ timers' = l.timers /\ shown' \subseteq shown /\ page' = "game"
      BY <1>11, <2>2 DEF Client!StartPhase, Client!ToRunning, Client!SetLog, Client!SetClientPage
    <3>2. greeting \in Seq(Client!Texts \ {"logged_in"}) /\ <<>> \o greeting = greeting
      <4>1. greeting = <<>> \/ greeting = <<"welcome">>
        OBVIOUS
      <4> HIDE DEF greeting
      <4>2. CASE greeting = <<>>
        BY <4>2
      <4>3. CASE greeting = <<"welcome">>
        <5>1. "welcome" \in Client!Texts \ {"logged_in"}
          BY DEF Client!Texts
        <5>. QED
          BY <4>3, <5>1
      <4>. QED
        BY <4>1, <4>2, <4>3
    <3>3. /\ l.queue = greeting
          /\ l.timers \in [running : 0..MaxTimers, known : BOOLEAN]
          /\ l.timers.known => l.timers.running > 0
      <4>1. greeting \in Seq(Client!Texts) /\ <<>> \in Seq(Client!Texts)
        BY <3>2
      <4>2. timers \in [running : 0..MaxTimers, known : BOOLEAN]
              /\ (timers.known => timers.running > 0)
        BY <1>3 DEF Client!TypeOK, SessionRecords
      <4> HIDE DEF greeting
      <4>. QED
        BY <3>2, <4>1, <4>2, PutKeeps
    <3> HIDE DEF greeting
    <3>4. log' \in Seq(Client!Texts) /\ \A i \in DOMAIN log' : log'[i] # "logged_in"
      BY <3>1, <3>2, <3>3
    <3>. QED
      BY <1>1, <1>2, <1>3, <1>6, <1>11, <1>n, <3>1, <3>3, <3>4
      DEF SessionInv, Client!SessionSound, Client!TypeOK, Client!PageOfGame, Client!WaitsForLogin,
          Client!ClosedIsOver, SessionRecords, Waiting, Welcomed,
          Client!StartPhase
  <2>. QED
    BY <2>1, <2>2
<1>12. CASE p = "begin_turn" /\ Client!BeginTurn
  BY <1>1, <1>2, <1>3, <1>6, <1>12, <1>m, <1>n
  DEF SessionInv, Client!SessionSound, Client!TypeOK, Client!PageOfGame, Client!WaitsForLogin,
      Client!ClosedIsOver, SessionRecords, Waiting, Welcomed,
      Client!BeginTurn, Client!msgVars
<1>13. CASE p = "end_phase" /\ Client!EndPhase
  <2>1. /\ timers' \in [running : 0..MaxTimers, known : BOOLEAN]
        /\ timers'.known => timers'.running > 0
        /\ log' \in Seq(Client!Texts) /\ shown' \subseteq Client!Texts
        /\ "logged_in" \in shown' \cup {log'[i] : i \in DOMAIN log'} => server.login = "yes"
             /\ conn.id = Client!Own
    BY <1>3, <1>13, FiredKeeps
      DEF Client!EndPhase, Client!webVars, Client!Log, Client!TypeOK, SessionRecords
  <2>. QED
    BY <1>1, <1>2, <1>3, <1>6, <1>13, <1>n, <2>1
    DEF SessionInv, Client!SessionSound, Client!TypeOK, Client!PageOfGame, Client!WaitsForLogin,
        Client!ClosedIsOver, SessionRecords, Waiting, Welcomed,
        Client!EndPhase, Client!webVars
<1>14. CASE p = "end_turn" /\ Client!EndTurn
  BY <1>1, <1>2, <1>3, <1>6, <1>14, <1>m, <1>n
  DEF SessionInv, Client!SessionSound, Client!TypeOK, Client!PageOfGame, Client!WaitsForLogin,
      Client!ClosedIsOver, SessionRecords, Waiting, Welcomed,
      Client!EndTurn, Client!msgVars
<1>15. CASE p = "endgame" /\ Client!EndgameReport
  BY <1>1, <1>2, <1>3, <1>6, <1>15, <1>n
  DEF SessionInv, Client!SessionSound, Client!TypeOK, Client!PageOfGame, Client!WaitsForLogin,
      Client!ClosedIsOver, SessionRecords, Waiting, Welcomed,
      Client!EndgameReport, Client!msgVars
<1>16. CASE p = "mine" /\ Client!ConnInfo(Client!Own, IF mode.observing THEN Client!NoPlayer ELSE 1)
  BY <1>7, <1>16
<1>17. CASE p = "theirs" /\ Client!ConnInfo(Client!Other, Client!NoPlayer)
  BY <1>7, <1>17
<1>. QED
  BY <1>4, <1>5, <1>8, <1>9, <1>10, <1>11, <1>12, <1>13, <1>14, <1>15, <1>16, <1>17
    DEF Client!Handle

\* A text that something waits for is in the message area.
LEMMA PollKeeps ==
  ASSUME SessionParams, SessionInv, NEW job \in jobs, Client!Poll(job)
  PROVE  SessionInv'
<1>1. /\ job[1] \in shown /\ jobs' \subseteq jobs
      /\ sent' \subseteq sent \cup {job[2]}
      /\ UNCHANGED <<mode, server, net, ws, state, page, conn, connections, button, clicked, Client!msgVars>>
  BY DEF Client!Poll, Client!TextThere, Client!Send
<1>2. job[2] = "toggle" => sent' = sent
  BY DEF Client!Poll
<1>3. Client!TypeOK /\ Client!PageOfGame /\ Client!WaitsForLogin /\ Client!ClosedIsOver
        /\ SessionRecords /\ Waiting /\ Welcomed
  BY DEF SessionInv, Client!SessionSound
<1>4. job[1] = "logged_in" \/ job[2] = "toggle"
  BY <1>3 DEF Waiting
<1>5. Client!WaitsForLogin'
  BY <1>1, <1>2, <1>3, <1>4 DEF Client!WaitsForLogin, Welcomed
<1>6. SessionRecords' /\ Welcomed'
  BY <1>1, QuietKeeps
<1>. QED
  BY <1>1, <1>3, <1>5, <1>6
  DEF SessionInv, Client!SessionSound, Client!TypeOK, Client!PageOfGame, Client!ClosedIsOver,
      Waiting, Client!msgVars

\* What the server says.
LEMMA SessionServed ==
  ASSUME SessionInv, Client!Server
  PROVE  SessionInv'
<1>1. ws = "open" /\ UNCHANGED <<mode, Client!webVars, Client!msgVars>>
  BY DEF Client!Server
<1>2. Client!TypeOK /\ Client!PageOfGame /\ Client!WaitsForLogin /\ Client!ClosedIsOver
        /\ SessionRecords /\ Waiting /\ Welcomed
  BY DEF SessionInv, Client!SessionSound
<1>3. ASSUME NEW ps \in Seq(Client!Packets \ {"reject"}), ps # <<>>, server.login = "yes",
             server'.login = "yes",
             net' = net \o ps
      PROVE  /\ net' \in Seq(Client!Packets) /\ net' \in Seq(Client!Packets \ {"reject"})
             /\ conn.id = Client!Own \/ (net' # <<>> /\ Head(net') = "join")
  <2>1. net \in Seq(Client!Packets) /\ net \in Seq(Client!Packets \ {"reject"})
    BY <1>2, <1>3 DEF SessionRecords, Welcomed
  <2>2. ps \in Seq(Client!Packets)
    BY <1>3
  <2>3. net' \in Seq(Client!Packets) /\ net' \in Seq(Client!Packets \ {"reject"})
    BY <1>3, <2>1, <2>2
  <2>4. conn.id = Client!Own \/ (net # <<>> /\ Head(net) = "join")
    BY <1>2, <1>3 DEF Welcomed
  <2>5. net # <<>> => net' # <<>> /\ Head(net') = Head(net)
    BY <1>3, <2>1, <2>2
  <2>. QED
    BY <2>3, <2>4, <2>5
<1>4. ASSUME net' \in Seq(Client!Packets), server'.login # "none",
             server.login = "yes" => server'.login = "yes",
             server' \in Servers,
             server'.login # "yes" => net' \in Seq({"reject"}),
             server'.login = "yes" =>
               /\ net' \in Seq(Client!Packets \ {"reject"})
               /\ conn.id = Client!Own \/ (net' # <<>> /\ Head(net') = "join")
      PROVE  SessionInv'
  <2>1. \A i \in 1..Len(net') : net'[i] \in Client!Packets
    BY <1>4
  <2>2. Client!TypeOK' /\ Client!PageOfGame' /\ Client!ClosedIsOver' /\ Waiting'
    BY <1>1, <1>2, <2>1
      DEF Client!TypeOK, Client!PageOfGame, Client!ClosedIsOver, Waiting, Client!webVars,
          Client!msgVars
  <2>3. Client!WaitsForLogin' /\ SessionRecords' /\ Welcomed'
    BY <1>1, <1>2, <1>4
      DEF Client!WaitsForLogin, SessionRecords, Welcomed, Client!webVars, Client!msgVars
  <2>. QED
    BY <2>2, <2>3 DEF SessionInv, Client!SessionSound
<1>5. server \in Servers
  BY <1>2 DEF SessionRecords, Servers
<1>6. CASE "login" \in sent /\ server.login = "none" /\ Client!Says(<<"join", "logged_in", "mine">>)
           /\ server' = [server EXCEPT !.login = "yes"]
  <2>1. net' = <<"join", "logged_in", "mine">>
    BY <1>2, <1>6 DEF Client!Says, Welcomed
  <2>2. <<"join", "logged_in", "mine">> \in Seq(Client!Packets \ {"reject"})
    BY DEF Client!Packets
  <2>3. <<"join", "logged_in", "mine">> \in Seq(Client!Packets)
    BY DEF Client!Packets
  <2>4. Head(net') = "join" /\ net' # <<>>
    BY <2>1
  <2>5. server' \in Servers
        /\ server'.login = "yes"
    BY <1>5, <1>6 DEF Servers
  <2>. QED
    BY <1>4, <2>1, <2>2, <2>3, <2>4, <2>5
<1>7. CASE "login" \in sent /\ server.login = "none" /\ Client!Says(<<"reject">>)
           /\ server' = [server EXCEPT !.login = "no"]
  <2>1. net' = <<"reject">>
    BY <1>2, <1>7 DEF Client!Says, Welcomed
  <2>2. <<"reject">> \in Seq(Client!Packets) /\ <<"reject">> \in Seq({"reject"})
    BY DEF Client!Packets
  <2>3. server' \in Servers
        /\ server'.login = "no"
    BY <1>5, <1>7 DEF Servers
  <2>. QED
    BY <1>4, <1>7, <2>1, <2>2, <2>3
<1>8. ASSUME NEW ps \in Seq(Client!Packets \ {"reject"}), ps # <<>>, server.login = "yes",
             Client!Says(ps),
             server' \in Servers,
             server'.login = server.login
      PROVE  SessionInv'
  <2>1. net' = net \o ps
    BY <1>8 DEF Client!Says
  <2>. QED
    BY <1>3, <1>4, <1>8, <2>1
<1>9. CASE server.login = "yes" /\ Client!Says(<<"load_complete">>)
             /\ server' = [server EXCEPT !.loaded = TRUE]
  <2>1. <<"load_complete">> \in Seq(Client!Packets \ {"reject"}) /\ <<"load_complete">> # <<>>
    BY DEF Client!Packets
  <2>2. server' \in Servers
        /\ server'.login = server.login
    BY <1>5, <1>9 DEF Servers
  <2>. QED
    BY <1>8, <1>9, <2>1, <2>2
<1>10. CASE server.login = "yes" /\ Client!Plays
  <2>1. /\ <<"start_phase", "begin_turn">> \in Seq(Client!Packets \ {"reject"})
        /\ <<"end_phase", "end_turn", "start_phase", "begin_turn">> \in Seq(Client!Packets \ {"reject"})
        /\ <<"endgame">> \in Seq(Client!Packets \ {"reject"})
        /\ <<"start_phase", "begin_turn">> # <<>> /\ <<"endgame">> # <<>>
        /\ <<"end_phase", "end_turn", "start_phase", "begin_turn">> # <<>>
    BY DEF Client!Packets
  <2>2. \/ server' = [server EXCEPT !.game = "running"]
        \/ server' = [server EXCEPT !.turn = server.turn + 1]
        \/ server' = [server EXCEPT !.game = "over"]
    BY <1>10 DEF Client!Plays
  <2>3. server' \in Servers
        /\ server'.login = server.login
    <3>1. CASE server' = [server EXCEPT !.game = "running"]
      BY <1>5, <3>1 DEF Servers
    <3>2. CASE server' = [server EXCEPT !.turn = server.turn + 1]
      BY <1>5, <3>2 DEF Servers
    <3>3. CASE server' = [server EXCEPT !.game = "over"]
      BY <1>5, <3>3 DEF Servers
    <3>. QED
      BY <2>2, <3>1, <3>2, <3>3
  <2>. QED
    BY <1>8, <1>10, <2>1, <2>3 DEF Client!Plays
<1>11. CASE server.login = "yes" /\ Client!Chats
  <2>1. PICK p \in {"chat", "ping", "theirs", "gone"} : Client!Says(<<p>>)
    BY <1>11 DEF Client!Chats
  <2>2. <<p>> \in Seq(Client!Packets \ {"reject"}) /\ <<p>> # <<>>
    <3>1. p \in Client!Packets \ {"reject"}
      BY DEF Client!Packets
    <3>. QED
      BY <3>1
  <2>3. server' = [server EXCEPT !.chat = TRUE]
    BY <1>11 DEF Client!Chats
  <2>4. server' \in Servers
        /\ server'.login = server.login
    BY <1>5, <2>3 DEF Servers
  <2>. QED
    BY <1>8, <1>11, <2>1, <2>2, <2>4
<1>. QED
  BY <1>6, <1>7, <1>9, <1>10, <1>11 DEF Client!Server, Client!Answers

\* What the page does by itself.
LEMMA PageKeeps ==
  ASSUME SessionParams, SessionInv,
         Client!NetworkInit \/ Client!SocketOpens \/ Client!SocketCloses \/ Client!LogFires
           \/ Client!TurnDone
  PROVE  SessionInv'
<1>1. Client!TypeOK /\ Client!PageOfGame /\ Client!WaitsForLogin /\ Client!ClosedIsOver
        /\ SessionRecords /\ Waiting /\ Welcomed
  BY DEF SessionInv, Client!SessionSound
<1>2. CASE Client!NetworkInit
  <2>1. jobs' \subseteq jobs \cup {<<"logged_in", "load">>, <<"load_complete", "toggle">>}
    BY <1>2 DEF Client!NetworkInit, Client!LoadGameCheck
  <2>2. jobs' \subseteq Client!Texts \X Client!Wants /\ Waiting'
    BY <1>1, <2>1 DEF Client!TypeOK, Waiting, Client!Texts, Client!Wants
  <2>3. SessionRecords' /\ Welcomed'
    BY <1>2, QuietKeeps DEF Client!NetworkInit
  <2>. QED
    BY <1>1, <1>2, <2>2, <2>3
    DEF Client!NetworkInit, SessionInv, Client!SessionSound, Client!TypeOK, Client!PageOfGame,
        Client!WaitsForLogin, Client!ClosedIsOver, Client!msgVars
<1>3. CASE Client!SocketOpens
  <2>1. SessionRecords' /\ Welcomed'
    BY <1>3, QuietKeeps DEF Client!SocketOpens
  <2>. QED
    BY <1>1, <1>3, <2>1
    DEF Client!SocketOpens, SessionInv, Client!SessionSound, Client!TypeOK, Client!PageOfGame,
        Client!WaitsForLogin, Client!ClosedIsOver, Waiting, Client!msgVars
<1>4. CASE Client!SocketCloses
  <2>1. /\ timers' \in [running : 0..MaxTimers, known : BOOLEAN]
        /\ timers'.known => timers'.running > 0
        /\ log' \in Seq(Client!Texts) /\ shown' = shown
        /\ "logged_in" \in shown' \cup {log'[i] : i \in DOMAIN log'} => server.login = "yes"
             /\ conn.id = Client!Own
    BY <1>4, LoggedKeeps DEF Client!SocketCloses, Client!Texts
  <2>. QED
    BY <1>1, <1>4, <2>1
    DEF Client!SocketCloses, SessionInv, Client!SessionSound, Client!TypeOK, Client!PageOfGame,
        Client!WaitsForLogin, Client!ClosedIsOver, Waiting,
        SessionRecords, Welcomed
<1>5. CASE Client!LogFires
  <2> DEFINE t == [running |-> timers.running - 1, known |-> FALSE]
  <2>1. t \in [running : 0..MaxTimers, known : BOOLEAN] /\ (t.known => t.running > 0)
    BY <1>1, <1>5 DEF Client!LogFires, SessionRecords, SessionParams
  <2>2. /\ LET f == Client!FireNow([queue |-> log, timers |-> t]) IN Client!SetLog(f.log)
             /\ shown' = shown \cup f.texts
        /\ UNCHANGED <<mode, server, net, Client!webVars>>
    BY <1>5 DEF Client!LogFires
  <2> HIDE DEF t
  <2>3. /\ timers' \in [running : 0..MaxTimers, known : BOOLEAN]
        /\ timers'.known => timers'.running > 0
        /\ log' \in Seq(Client!Texts) /\ shown' \subseteq Client!Texts
        /\ "logged_in" \in shown' \cup {log'[i] : i \in DOMAIN log'} => server.login = "yes"
             /\ conn.id = Client!Own
    BY <2>1, <2>2, FiredKeeps DEF Client!webVars
  <2>. QED
    BY <1>1, <2>2, <2>3
    DEF SessionInv, Client!SessionSound, Client!TypeOK, Client!PageOfGame, Client!WaitsForLogin,
        Client!ClosedIsOver, Waiting,
        SessionRecords, Welcomed, Client!webVars
<1>6. CASE Client!TurnDone
  <2>1. SessionRecords' /\ Welcomed'
    BY <1>6, QuietKeeps DEF Client!TurnDone
  <2>. QED
    BY <1>1, <1>6, <2>1
    DEF Client!TurnDone, SessionInv, Client!SessionSound, Client!TypeOK, Client!PageOfGame,
        Client!WaitsForLogin, Client!ClosedIsOver, Waiting, Client!msgVars
<1>. QED
  BY <1>2, <1>3, <1>4, <1>5, <1>6

\* The invariant is inductive.
LEMMA SessionStep == SessionParams /\ SessionInv /\ [Client!Next]_Client!vars => SessionInv'
<1>. SUFFICES ASSUME SessionParams, SessionInv, [Client!Next]_Client!vars
              PROVE  SessionInv'
  OBVIOUS
<1>1. CASE UNCHANGED Client!vars
  <2>1. SessionRecords' /\ Welcomed'
    BY <1>1, QuietKeeps DEF Client!vars, Client!webVars
  <2>. QED
    BY <1>1, <2>1
    DEF Client!vars, Client!webVars, Client!msgVars, SessionInv, Client!SessionSound,
        Client!TypeOK, Client!PageOfGame, Client!WaitsForLogin, Client!ClosedIsOver, Waiting
<1>. QED
  BY <1>1, SessionHandled, PollKeeps, SessionServed, PageKeeps DEF Client!Next

\* It holds at first.
LEMMA SessionStarts == SessionParams /\ Client!Init => SessionInv
<1>. SUFFICES ASSUME SessionParams, Client!Init
              PROVE  SessionInv
  OBVIOUS
<1>1. net = <<>> /\ log = <<>> /\ DOMAIN log = {} /\ shown = {} /\ jobs = {}
  BY DEF Client!Init
<1>2. timers = [running |-> 0, known |-> FALSE]
        /\ timers \in [running : 0..MaxTimers, known : BOOLEAN]
  BY DEF Client!Init, Client!NoTimer, SessionParams
<1>3. conn \in [id : {Client!Unset, Client!Own}, established : BOOLEAN, player : {Client!Unset, Client!NoPlayer, 1}]
  BY DEF Client!Init
<1>4. server \in Servers
      /\ server.login = "none"
  BY DEF Client!Init, Servers
<1>5. net \in Seq(Client!Packets) /\ net \in Seq({"reject"}) /\ log \in Seq(Client!Texts)
  BY <1>1
<1>6. Client!TypeOK
  BY <1>1, <1>2, <1>3 DEF Client!Init, Client!TypeOK, SessionParams
<1>7. Client!PageOfGame /\ Client!WaitsForLogin /\ Client!ClosedIsOver /\ Waiting
  BY <1>1 DEF Client!Init, Client!PageOfGame, Client!WaitsForLogin, Client!ClosedIsOver, Waiting
<1>8. SessionRecords /\ Welcomed
  BY <1>1, <1>2, <1>3, <1>4, <1>5 DEF SessionRecords, Welcomed
<1>. QED
  BY <1>6, <1>7, <1>8 DEF SessionInv, Client!SessionSound

\* However the page was opened, whatever the server says and wherever its timers
\* fire: the page fits the client's state, the client is ready, observes or loads a
\* game only once the server has let it in, and a connection that is closed ends the
\* turns (network_init, websocket_init, handle_server_join_reply, setClientState,
\* update_chatbox and wait_for_text, with pregame_start_game and load_game_check).
THEOREM SessionIsSound == ASSUME SessionParams PROVE Client!Spec => []Client!SessionSound
<1>1. Client!Init => SessionInv
  BY SessionStarts
<1>2. SessionInv /\ [Client!Next]_Client!vars => SessionInv'
  BY SessionStep
<1>3. SessionInv => Client!SessionSound
  BY DEF SessionInv
<1>. QED
  BY <1>1, <1>2, <1>3, PTL DEF Client!Spec

-----------------------------------------------------------------------------
(* Research.                                                               *)

CONSTANTS Techs, Requires, Players, TeamOf, Varies, MaxAsked, Nothing
VARIABLES live, game, wants, asked, data, mirror, canvas, gained, ended, stored, label

Study == INSTANCE Research

\* What is needed of the parameters.
ResearchParams == Techs \subseteq Nat \ {0} /\ Me \in Players

ResearchNumbers == {Study!IdOf(p) : p \in Players}
Aims == [researching : Study!Ids, goal : Study!Ids]
ResearchPackets == [id : ResearchNumbers, known : SUBSET Techs, wants : Aims]

ResearchTypes ==
  /\ known \in [Study!Researches -> SUBSET Techs] /\ wants \in [Study!Researches -> Aims]
  /\ net \in Seq(ResearchPackets)
  /\ asked \subseteq [what : {"research", "goal"}, tech : Techs]

\* The packets: of what is known, in the order in which it was learnt, and not
\* before what the client has.
ResearchOrdered ==
  \A i \in DOMAIN net :
    /\ net[i].known \subseteq known[net[i].id]
    /\ net[i].id \in DOMAIN data => data[net[i].id].known \subseteq net[i].known
    /\ \A j \in DOMAIN net : i < j /\ net[i].id = net[j].id => net[i].known \subseteq net[j].known

\* The mirror is what the last packet told.
ResearchCopied ==
  /\ DOMAIN data \subseteq ResearchNumbers
  /\ \A r \in DOMAIN data : data[r].known \subseteq known[r]
  /\ DOMAIN mirror = Players
  /\ \A p \in Players :
       mirror[p].inventions = IF Study!IdOf(p) \in DOMAIN data THEN Study!Inventions(data[Study!IdOf(p)].known) ELSE <<>>
  /\ \A p, q \in Players : Study!IdOf(p) = Study!IdOf(q) => mirror[p] = mirror[q]

\* What the dialog offers can be researched.
Offers == gained # Nothing => \A t \in gained.choices : Study!Needs(t) \subseteq known[Study!IdOf(Me)]

\* What is announced, or kept, has been told of.
Heard ==
  /\ gained # Nothing => Me \in DOMAIN data /\ gained.tech \in data[Me].known
  /\ stored # Study!Unset => Me \in DOMAIN data /\ stored \in data[Me].known

ResearchInv == ResearchTypes /\ ResearchOrdered /\ ResearchCopied /\ Offers /\ Heard
                 /\ Study!ResearchIsPossible /\ Study!LabelFollows

ResearchFollows == Study!ResearchIsPossible /\ Study!MirrorFits /\ Study!GainedIsKnown
                     /\ Study!LabelFollows

-----------------------------------------------------------------------------
\* What a mirror says of a technology.
LEMMA StateOf ==
  ASSUME NEW m, NEW p, NEW t \in Techs, NEW S, m[p].inventions = Study!Inventions(S)
  PROVE  /\ Study!StateIn(m, p, t) = Study!Known <=> t \in S
         /\ Study!StateIn(m, p, t) = Study!Prereqs => Study!Needs(t) \subseteq S
BY DEF Study!StateIn, Study!Inventions, Study!Known, Study!Prereqs, Study!Unknown

\* What the mirror says of a technology is what the last packet said.
LEMMA StateIs ==
  ASSUME ResearchParams, ResearchCopied, NEW p \in Players, NEW t \in Techs
  PROVE  /\ Study!State(p, t) = Study!Known <=> Study!IdOf(p) \in DOMAIN data
              /\ t \in data[Study!IdOf(p)].known
         /\ Study!State(p, t) = Study!Prereqs => Study!IdOf(p) \in DOMAIN data
              /\ Study!Needs(t) \subseteq data[Study!IdOf(p)].known
<1>1. CASE Study!IdOf(p) \in DOMAIN data
  <2>1. mirror[p].inventions = Study!Inventions(data[Study!IdOf(p)].known)
    BY <1>1 DEF ResearchCopied
  <2>. QED
    BY <1>1, <2>1, StateOf DEF Study!State
<1>2. CASE Study!IdOf(p) \notin DOMAIN data
  <2>1. mirror[p].inventions = <<>> /\ DOMAIN <<>> = {}
    BY <1>2 DEF ResearchCopied
  <2>. QED
    BY <1>2, <2>1 DEF Study!State, Study!StateIn, Study!Known, Study!Prereqs, Study!Unknown
<1>. QED
  BY <1>1, <1>2

\* It follows that the properties hold.
LEMMA ResearchHolds == ResearchParams /\ ResearchInv => ResearchFollows
<1>. SUFFICES ASSUME ResearchParams, ResearchInv
              PROVE  Study!MirrorFits /\ Study!GainedIsKnown
  BY DEF ResearchInv, ResearchFollows
<1>1. Study!MirrorFits
  <2>1. \A p \in Players : {t \in Techs : Study!State(p, t) = Study!Known} \subseteq known[Study!IdOf(p)]
    <3>. SUFFICES ASSUME NEW p \in Players, NEW t \in Techs, Study!State(p, t) = Study!Known
                  PROVE  t \in known[Study!IdOf(p)]
      OBVIOUS
    <3>. QED
      BY StateIs DEF ResearchInv, ResearchCopied
  <2>. QED
    BY <2>1 DEF Study!MirrorFits, ResearchInv, ResearchCopied
<1>2. Study!GainedIsKnown
  <2>. SUFFICES ASSUME NEW t \in Techs, (gained # Nothing /\ gained.tech = t) \/ stored = t
                PROVE  Me \in DOMAIN data /\ t \in data[Me].known
                         /\ (Study!IdOf(Me) = Me => Study!State(Me, t) = Study!Known)
    BY DEF Study!GainedIsKnown
  <2>1. t # Study!Unset
    BY DEF ResearchParams, Study!Unset
  <2>2. Me \in DOMAIN data /\ t \in data[Me].known
    BY <2>1 DEF ResearchInv, Heard
  <2>. QED
    BY <2>2, StateIs DEF ResearchInv, ResearchParams
<1>. QED
  BY <1>1, <1>2

\* A sequence and one element more, and without its first.
LEMMA ElementAppended ==
  ASSUME NEW S, NEW s \in Seq(S), NEW x \in S, NEW t, t = Append(s, x)
  PROVE  /\ t \in Seq(S) /\ \A i \in DOMAIN t : i \in DOMAIN s \/ i = Len(s) + 1
         /\ t[Len(s) + 1] = x /\ \A i \in DOMAIN s : t[i] = s[i] /\ i < Len(s) + 1 /\ i \in Nat
         /\ Len(s) \in Nat
OBVIOUS

LEMMA ElementTaken ==
  ASSUME NEW S, NEW s \in Seq(S), s # <<>>, NEW t, t = Tail(s)
  PROVE  /\ t \in Seq(S) /\ Head(s) = s[1] /\ 1 \in DOMAIN s /\ Head(s) \in S
         /\ \A i \in DOMAIN t : t[i] = s[i + 1] /\ i + 1 \in DOMAIN s /\ 1 < i + 1 /\ i \in Nat
<1>1. Len(s) \in Nat /\ Len(s) > 0 /\ DOMAIN s = 1..Len(s)
  BY EmptySeq, LenProperties
<1>2. t \in Seq(S) /\ Len(t) = Len(s) - 1 /\ \A i \in 1..Len(t) : t[i] = s[i + 1]
  BY HeadTailProperties
<1>3. Head(s) = s[1]
  OBVIOUS
<1>. QED
  BY <1>1, <1>2, <1>3

\* A nonempty set of numbers has a least element.
LEMMA LeastExists ==
  ASSUME NEW T, T \subseteq Nat, T # {}
  PROVE  \E x \in T : \A y \in T : x <= y
<1>1. PICK x \in T : \A y \in T : <<y, x>> \notin OpToRel(<, Nat)
  BY WFMin, NatLessThanWellFounded, Zenon
<1>2. \A y \in T : <<y, x>> \in Nat \X Nat
  OBVIOUS
<1>3. \A y \in T : ~(y < x)
  BY <1>1, <1>2, Zenon DEF OpToRel
<1>4. \A y \in T : x <= y
  <2>1. x \in Nat /\ \A y \in T : y \in Nat
    OBVIOUS
  <2>. QED
    BY <1>3, <2>1, SMT
<1>. QED
  BY <1>4

\* What the server knows grows, and it tells of it.
LEMMA ToldKeeps ==
  ASSUME ResearchParams, ResearchInv,
         UNCHANGED <<Study!Fixed, data, mirror, gained, stored, Study!Panel>>,
         NEW r \in ResearchNumbers, NEW w \in Aims,
         known' \in [Study!Researches -> SUBSET Techs],
         \A x \in Study!Researches : known[x] \subseteq known'[x],
         wants' \in [Study!Researches -> Aims], asked' \subseteq asked,
         net' = Append(net, [id |-> r, known |-> known'[r], wants |-> w])
  PROVE  ResearchInv'
<1>1. ResearchNumbers \subseteq Study!Researches /\ Study!IdOf(Me) \in Study!Researches
        /\ \A p \in Players : Study!IdOf(p) \in ResearchNumbers
  BY DEF ResearchNumbers, Study!IdOf, Study!Researches, ResearchParams
<1>2. \A p \in Players : Study!IdOf(p)' = Study!IdOf(p)
  BY DEF Study!IdOf, Study!Fixed
<1>3. ResearchNumbers' = ResearchNumbers /\ ResearchPackets' = ResearchPackets
  BY <1>2 DEF ResearchNumbers, ResearchPackets, Study!Fixed
<1>. PICK p : p = [id |-> r, known |-> known'[r], wants |-> w]
  OBVIOUS
<1>4. p \in ResearchPackets /\ p.id = r /\ p.known = known'[r]
  BY <1>1 DEF ResearchPackets
<1>5. net \in Seq(ResearchPackets) /\ net' = Append(net, p)
  BY DEF ResearchInv, ResearchTypes
<1>6. /\ net' \in Seq(ResearchPackets) /\ \A i \in DOMAIN net' : i \in DOMAIN net
           \/ i = Len(net) + 1
      /\ net'[Len(net) + 1] = p
      /\ \A i \in DOMAIN net : net'[i] = net[i] /\ i < Len(net) + 1 /\ i \in Nat
      /\ Len(net) \in Nat
  BY <1>4, <1>5, ElementAppended
<1>7. ResearchTypes'
  BY <1>3, <1>6 DEF ResearchInv, ResearchTypes
<1>8. \A i \in DOMAIN net : net[i].id \in ResearchNumbers
        /\ net[i].known \subseteq known'[net[i].id]
  <2>. SUFFICES ASSUME NEW i \in DOMAIN net
                PROVE  net[i].id \in ResearchNumbers /\ net[i].known \subseteq known'[net[i].id]
    OBVIOUS
  <2>1. net[i] \in ResearchPackets
    BY <1>5
  <2>2. net[i].id \in ResearchNumbers
    BY <2>1 DEF ResearchPackets
  <2>3. net[i].known \subseteq known[net[i].id]
    BY DEF ResearchInv, ResearchOrdered
  <2>. QED
    BY <1>1, <2>2, <2>3
<1>9. data' = data /\ \A x \in DOMAIN data : x \in ResearchNumbers
        /\ data[x].known \subseteq known'[x]
  BY <1>1 DEF ResearchInv, ResearchCopied
<1>10. ResearchOrdered'
  <2>. SUFFICES ASSUME NEW i \in DOMAIN net'
                PROVE  /\ net'[i].known \subseteq known'[net'[i].id]
                       /\ net'[i].id \in DOMAIN data
                            => data[net'[i].id].known \subseteq net'[i].known
                       /\ \A j \in DOMAIN net' : i < j /\ net'[i].id = net'[j].id =>
                            net'[i].known \subseteq net'[j].known
    BY <1>9 DEF ResearchOrdered
  <2>1. CASE i \in DOMAIN net
    BY <1>4, <1>6, <1>8, <2>1 DEF ResearchInv, ResearchOrdered
  <2>2. CASE i = Len(net) + 1
    <3>1. net'[i] = p /\ \A j \in DOMAIN net' : ~(i < j)
      BY <1>6, <2>2
    <3>. QED
      BY <1>4, <1>9, <3>1
  <2>. QED
    BY <1>6, <2>1, <2>2
<1>11. ResearchCopied'
  BY <1>2, <1>3, <1>9 DEF ResearchInv, ResearchCopied
<1>12. Offers' /\ Heard' /\ Study!ResearchIsPossible'
  <2>1. Study!IdOf(Me)' = Study!IdOf(Me) /\ known[Study!IdOf(Me)] \subseteq known'[Study!IdOf(Me)]
    BY <1>1, <1>2 DEF ResearchParams
  <2>. QED
    BY <2>1 DEF ResearchInv, Offers, Heard, Study!ResearchIsPossible
<1>13. Study!LabelFollows'
  BY DEF ResearchInv, Study!LabelFollows, Study!Bulbs, Study!Fixed, Study!Panel
<1>. QED
  BY <1>7, <1>10, <1>11, <1>12, <1>13 DEF ResearchInv

\* What the server does.
LEMMA ResearchServed ==
  ASSUME ResearchParams, ResearchInv,
         \/ \E r \in ResearchNumbers : Study!ServerTells(r)
              \/ \E t \in Techs : Study!ServerLearns(r, t)
         \/ \E q \in asked : Study!ServerTakes(q)
  PROVE  ResearchInv'
<1>1. ResearchNumbers \subseteq Study!Researches /\ Study!IdOf(Me) \in ResearchNumbers
  BY DEF ResearchNumbers, Study!IdOf, Study!Researches, ResearchParams
<1>2. known \in [Study!Researches -> SUBSET Techs] /\ wants \in [Study!Researches -> Aims]
      /\ asked \subseteq [what : {"research", "goal"}, tech : Techs]
  BY DEF ResearchInv, ResearchTypes
<1>3. ASSUME NEW r \in ResearchNumbers, Study!ServerTells(r)
      PROVE  ResearchInv'
  <2>1. net' = Append(net, [id |-> r, known |-> known'[r], wants |-> wants[r]]) /\ known' = known
          /\ wants' = wants
        /\ UNCHANGED <<Study!Fixed, asked, data, mirror, gained, stored, Study!Panel>>
    BY <1>3 DEF Study!ServerTells, Study!Packet, Study!Server, Study!Dialogs
  <2>. QED
    BY <1>1, <1>2, <2>1, ToldKeeps
<1>4. ASSUME NEW r \in ResearchNumbers, NEW t \in Techs, Study!ServerLearns(r, t)
      PROVE  ResearchInv'
  <2>1. /\ known' = [known EXCEPT ![r] = @ \cup {t}]
        /\ wants' = [wants EXCEPT ![r].researching = IF @ = t THEN Study!Unset ELSE @,
                                  ![r].goal = IF @ = t THEN Study!Unset ELSE @]
        /\ net' = Append(net, [id |-> r, known |-> known'[r], wants |-> wants'[r]])
        /\ UNCHANGED <<Study!Fixed, asked, data, mirror, gained, stored, Study!Panel>>
    BY <1>4 DEF Study!ServerLearns, Study!Dialogs
  <2>2. known' \in [Study!Researches -> SUBSET Techs]
          /\ \A x \in Study!Researches : known[x] \subseteq known'[x]
    BY <1>1, <1>2, <2>1
  <2>3. wants' \in [Study!Researches -> Aims]
    BY <1>1, <1>2, <2>1 DEF Aims, Study!Ids, Study!Unset
  <2>4. wants'[r] \in Aims
    BY <1>1, <2>3
  <2>. QED
    BY <1>1, <2>1, <2>2, <2>3, <2>4, ToldKeeps
<1>5. ASSUME NEW q \in asked, Study!ServerTakes(q)
      PROVE  ResearchInv'
  <2> DEFINE r == Study!IdOf(Me)
  <2>1. /\ known' = known /\ asked' \subseteq asked
        /\ \/ wants' = wants
           \/ wants' = [wants EXCEPT ![r].researching = q.tech]
           \/ wants' = [wants EXCEPT ![r].goal = q.tech]
        /\ net' = Append(net, [id |-> r, known |-> known'[r], wants |-> wants'[r]])
        /\ UNCHANGED <<Study!Fixed, data, mirror, gained, stored, Study!Panel>>
    BY <1>5 DEF Study!ServerTakes, Study!Dialogs
  <2>2. q.tech \in Study!Ids
    BY <1>2 DEF Study!Ids
  <2>3. wants' \in [Study!Researches -> Aims]
    BY <1>1, <1>2, <2>1, <2>2 DEF Aims
  <2>4. wants'[r] \in Aims
    BY <1>1, <2>3
  <2>. QED
    BY <1>1, <1>2, <2>1, <2>3, <2>4, ToldKeeps
<1>. QED
  BY <1>3, <1>4, <1>5

\* The client handles a packet.
LEMMA ResearchHandled ==
  ASSUME ResearchParams, ResearchInv, Study!HandleResearchInfo
  PROVE  ResearchInv'
<1>. PICK packet : packet = Head(net)
  OBVIOUS
<1>. PICK new : new = IF packet.id \notin DOMAIN data THEN {} ELSE Study!News(packet, data[packet.id].known)
  OBVIOUS
<1>1. /\ net # <<>> /\ net' = Tail(net)
      /\ data' = [r \in DOMAIN data \cup {packet.id} |->
                    IF r = packet.id
                    THEN [known |-> packet.known, researching |-> packet.wants.researching]
                    ELSE data[r]]
      /\ mirror' = [p \in Players |->
           IF p \in {q \in Players : IF game.pooled THEN TeamOf[q] = packet.id ELSE q = packet.id}
           THEN [inventions |-> Study!Inventions(packet.known),
                 researching |-> packet.wants.researching,
                 goal |-> packet.wants.goal]
           ELSE mirror[p]]
      /\ IF ~game.observer /\ Me = packet.id /\ new # {}
         THEN Study!QueueTechGained(CHOOSE t \in new : \A u \in new : t <= u)
         ELSE UNCHANGED <<gained, stored>>
      /\ due' = TRUE /\ UNCHANGED <<live, game, known, wants, asked>>
  BY Zenon DEF Study!HandleResearchInfo, Study!Fixed, Study!Server
<1>2. /\ \A p \in Players : Study!IdOf(p)' = Study!IdOf(p) /\ Study!IdOf(p) \in ResearchNumbers
      /\ Study!IdOf(Me) \in ResearchNumbers /\ Study!IdOf(Me)' = Study!IdOf(Me)
  BY <1>1 DEF Study!IdOf, ResearchNumbers, ResearchParams
<1>3. ResearchNumbers' = ResearchNumbers /\ ResearchPackets' = ResearchPackets
  BY <1>2 DEF ResearchNumbers, ResearchPackets
<1>4. /\ ResearchTypes /\ ResearchOrdered /\ ResearchCopied /\ Offers /\ Heard
           /\ Study!ResearchIsPossible
  BY DEF ResearchInv
<1>5. /\ net' \in Seq(ResearchPackets) /\ packet = net[1] /\ 1 \in DOMAIN net
           /\ packet \in ResearchPackets
      /\ \A i \in DOMAIN net' : net'[i] = net[i + 1] /\ i + 1 \in DOMAIN net /\ 1 < i + 1
           /\ i \in Nat
  BY <1>1, <1>4, ElementTaken DEF ResearchTypes
<1>6. /\ DOMAIN data' = DOMAIN data \cup {packet.id} /\ data'[packet.id].known = packet.known
      /\ \A r \in DOMAIN data \ {packet.id} : data'[r] = data[r]
  BY <1>1
<1>7. packet.id \in ResearchNumbers /\ packet.known \subseteq known[packet.id]
  BY <1>4, <1>5 DEF ResearchOrdered, ResearchPackets
<1>8. packet.id \in DOMAIN data => data[packet.id].known \subseteq packet.known
  BY <1>4, <1>5 DEF ResearchOrdered
<1>9. ResearchTypes'
  BY <1>1, <1>3, <1>4, <1>5 DEF ResearchTypes
<1>10. ResearchOrdered'
  <2>. SUFFICES ASSUME NEW i \in DOMAIN net'
                PROVE  /\ net'[i].known \subseteq known[net'[i].id]
                       /\ net'[i].id \in DOMAIN data'
                            => data'[net'[i].id].known \subseteq net'[i].known
                       /\ \A j \in DOMAIN net' : i < j /\ net'[i].id = net'[j].id =>
                            net'[i].known \subseteq net'[j].known
    BY <1>1 DEF ResearchOrdered
  <2>1. /\ net'[i] = net[i + 1] /\ i + 1 \in DOMAIN net /\ 1 < i + 1 /\ i \in Nat
    BY <1>5
  <2>2. net'[i].known \subseteq known[net'[i].id]
    BY <1>4, <2>1 DEF ResearchOrdered
  <2>3. packet.id = net'[i].id => packet.known \subseteq net'[i].known
    BY <1>4, <1>5, <2>1 DEF ResearchOrdered
  <2>4. net'[i].id \in DOMAIN data => data[net'[i].id].known \subseteq net'[i].known
    BY <1>4, <2>1 DEF ResearchOrdered
  <2>5. ASSUME NEW j \in DOMAIN net', i < j, net'[i].id = net'[j].id
        PROVE  net'[i].known \subseteq net'[j].known
    <3>1. net'[j] = net[j + 1] /\ j + 1 \in DOMAIN net /\ j \in Nat
      BY <1>5
    <3>2. i + 1 < j + 1
      BY <2>1, <2>5, <3>1
    <3>. QED
      BY <1>4, <2>1, <2>5, <3>1, <3>2 DEF ResearchOrdered
  <2>. QED
    BY <1>6, <2>2, <2>3, <2>4, <2>5
<1>11. \A p \in Players : IF Study!IdOf(p) = packet.id
                          THEN /\ mirror'[p].inventions = Study!Inventions(packet.known)
                               /\ mirror'[p] = [inventions |-> Study!Inventions(packet.known),
                                                researching |-> packet.wants.researching,
                                                goal |-> packet.wants.goal]
                          ELSE mirror'[p] = mirror[p]
  BY <1>1 DEF Study!IdOf
<1>12. ResearchCopied'
  <2>1. DOMAIN data' \subseteq ResearchNumbers
          /\ \A r \in DOMAIN data' : data'[r].known \subseteq known[r]
    BY <1>4, <1>6, <1>7 DEF ResearchCopied
  <2>2. DOMAIN mirror' = Players
    BY <1>1
  <2>3. \A p \in Players :
          mirror'[p].inventions = IF Study!IdOf(p) \in DOMAIN data' THEN Study!Inventions(data'[Study!IdOf(p)].known) ELSE <<>>
    <3>. TAKE p \in Players
    <3>1. CASE Study!IdOf(p) = packet.id
      BY <1>6, <1>11, <3>1
    <3>2. CASE Study!IdOf(p) # packet.id
      BY <1>4, <1>6, <1>11, <3>2 DEF ResearchCopied
    <3>. QED
      BY <3>1, <3>2
  <2>4. \A p, q \in Players : Study!IdOf(p) = Study!IdOf(q) => mirror'[p] = mirror'[q]
    BY <1>4, <1>11 DEF ResearchCopied
  <2>5. \A p \in Players :
          mirror'[p].inventions =
            IF Study!IdOf(p)' \in DOMAIN data' THEN Study!Inventions(data'[Study!IdOf(p)'].known) ELSE <<>>
    BY <1>2, <2>3
  <2>6. \A p, q \in Players : Study!IdOf(p)' = Study!IdOf(q)' => mirror'[p] = mirror'[q]
    BY <1>2, <2>4
  <2>7. DOMAIN data' \subseteq ResearchNumbers'
          /\ \A r \in DOMAIN data' : data'[r].known \subseteq known'[r]
    BY <1>1, <1>3, <2>1
  <2>. QED
    BY <2>2, <2>5, <2>6, <2>7, Zenon DEF ResearchCopied
<1>13. Me \in DOMAIN data => Me \in DOMAIN data' /\ data[Me].known \subseteq data'[Me].known
  BY <1>6, <1>8
<1>14. \A t \in Study!Table : Study!State(Me, t)' = Study!Prereqs
         => Study!Needs(t) \subseteq known[Study!IdOf(Me)]
  <2>. SUFFICES ASSUME NEW t \in Techs, Study!StateIn(mirror', Me, t) = Study!Prereqs
                PROVE  Study!Needs(t) \subseteq known[Study!IdOf(Me)]
    BY DEF Study!Table, Study!State
  <2>1. CASE Study!IdOf(Me) \in DOMAIN data'
    <3>1. mirror'[Me].inventions = Study!Inventions(data'[Study!IdOf(Me)].known)
      BY <1>2, <1>12, <2>1 DEF ResearchCopied, ResearchParams
    <3>2. Study!Needs(t) \subseteq data'[Study!IdOf(Me)].known
      BY <3>1, StateOf
    <3>3. data'[Study!IdOf(Me)].known \subseteq known[Study!IdOf(Me)]
      BY <1>1, <1>12, <2>1 DEF ResearchCopied
    <3>. QED
      BY <3>2, <3>3
  <2>2. CASE Study!IdOf(Me) \notin DOMAIN data'
    <3>1. mirror'[Me].inventions = <<>> /\ DOMAIN <<>> = {}
      BY <1>2, <1>12, <2>2 DEF ResearchCopied, ResearchParams
    <3>. QED
      BY <3>1 DEF Study!StateIn, Study!Prereqs, Study!Unknown
  <2>. QED
    BY <2>1, <2>2
<1>15. CASE UNCHANGED <<gained, stored>>
  BY <1>1, <1>2, <1>4, <1>13, <1>15, <1>9, <1>10, <1>12
  DEF ResearchInv, Offers, Heard, Study!ResearchIsPossible, Study!LabelFollows
<1>16. ASSUME NEW t, ~game.observer, Me = packet.id, t \in new, Study!QueueTechGained(t)
       PROVE  ResearchInv'
  <2>1. t \in packet.known /\ t \in Techs
    BY <1>16 DEF Study!News, Study!Inventions, Study!Known, Study!Prereqs, Study!Unknown
  <2>2. Me \in DOMAIN data' /\ t \in data'[Me].known
    BY <1>6, <1>16, <2>1
  <2>3. \/ UNCHANGED <<gained, stored>>
        \/ stored' = t /\ gained' = gained
        \/ /\ gained' = [tech |-> t, leads |-> Study!Advances(t), choices |-> Study!TechChoices]
                /\ stored' = stored
    BY <1>16 DEF Study!QueueTechGained, Study!ShowTechGained
  <2>4. \A u \in Study!TechChoices : Study!Needs(u) \subseteq known[Study!IdOf(Me)]
    BY <1>14 DEF Study!TechChoices
  <2>5. Heard'
    BY <1>4, <1>13, <2>2, <2>3 DEF Heard
  <2>6. Offers'
    BY <1>1, <1>2, <1>4, <2>3, <2>4 DEF Offers
  <2>7. Study!ResearchIsPossible' /\ Study!LabelFollows'
    BY <1>1, <1>2, <1>4 DEF Study!ResearchIsPossible, Study!LabelFollows
  <2>. QED
    BY <1>9, <1>10, <1>12, <2>5, <2>6, <2>7 DEF ResearchInv
<1>17. CASE ~game.observer /\ Me = packet.id /\ new # {}
  <2>1. new \subseteq Techs
    BY DEF Study!News
  <2>. PICK t : t = CHOOSE x \in new : \A u \in new : x <= u
    OBVIOUS
  <2>2. t \in new
    <3>1. \E x \in new : \A u \in new : x <= u
      BY <1>17, <2>1, LeastExists DEF ResearchParams
    <3>. QED
      BY <3>1
  <2>. QED
    BY <1>1, <1>16, <1>17, <2>2
<1>. QED
  BY <1>1, <1>15, <1>17

\* The client's own steps, which no packet and no request of another is part of.
LEMMA LocalKeeps ==
  ASSUME ResearchParams, ResearchInv, UNCHANGED <<Study!Fixed, Study!Server, net, data, mirror>>,
         asked' \subseteq [what : {"research", "goal"}, tech : Techs],
         Offers', Heard', Study!ResearchIsPossible', Study!LabelFollows'
  PROVE  ResearchInv'
<1>1. \A p \in Players : Study!IdOf(p)' = Study!IdOf(p)
  BY DEF Study!IdOf, Study!Fixed
<1>2. ResearchNumbers' = ResearchNumbers /\ ResearchPackets' = ResearchPackets
  BY <1>1 DEF ResearchNumbers, ResearchPackets
<1>3. ResearchTypes'
  BY <1>2 DEF ResearchInv, ResearchTypes, Study!Server
<1>4. ResearchOrdered'
  BY DEF ResearchInv, ResearchOrdered, Study!Server
<1>5. ResearchCopied'
  BY <1>1, <1>2 DEF ResearchInv, ResearchCopied, Study!Server
<1>. QED
  BY <1>3, <1>4, <1>5 DEF ResearchInv

\* What the client offers, when its mirror says that it can be researched.
LEMMA PrereqsHold ==
  ASSUME ResearchParams, ResearchInv, NEW t \in Techs, Study!State(Me, t) = Study!Prereqs
  PROVE  Study!Needs(t) \subseteq known[Study!IdOf(Me)]
<1>1. Study!IdOf(Me) \in DOMAIN data /\ Study!Needs(t) \subseteq data[Study!IdOf(Me)].known
  BY StateIs DEF ResearchInv, ResearchParams
<1>2. data[Study!IdOf(Me)].known \subseteq known[Study!IdOf(Me)]
  BY <1>1 DEF ResearchInv, ResearchCopied
<1>. QED
  BY <1>1, <1>2

\* The label is to be brought up to date.
LEMMA RemoveCityKeeps == ResearchParams /\ ResearchInv /\ Study!RemoveCity => ResearchInv'
<1>. SUFFICES ASSUME ResearchParams, ResearchInv, Study!RemoveCity
              PROVE  ResearchInv'
  OBVIOUS
<1>1. UNCHANGED <<Study!Fixed, Study!Server, net, asked, data, mirror, gained, stored>>
        /\ due' = TRUE
  BY DEF Study!RemoveCity, Study!Dialogs
<1>2. Study!IdOf(Me)' = Study!IdOf(Me)
  BY <1>1 DEF Study!IdOf, Study!Fixed
<1>3. Offers' /\ Heard' /\ Study!ResearchIsPossible' /\ Study!LabelFollows'
  BY <1>1, <1>2
    DEF ResearchInv, Offers, Heard, Study!ResearchIsPossible, Study!LabelFollows, Study!Server
<1>. QED
  BY <1>1, <1>3, LocalKeeps DEF ResearchInv, ResearchTypes

\* The label is brought up to date.
LEMMA UpdateBulbsKeeps == ResearchParams /\ ResearchInv /\ Study!UpdateBulbs => ResearchInv'
<1>. SUFFICES ASSUME ResearchParams, ResearchInv, Study!UpdateBulbs
              PROVE  ResearchInv'
  OBVIOUS
<1>1. UNCHANGED <<Study!Fixed, Study!Server, net, asked, data, mirror, gained, stored>>
        /\ label' = Study!Bulbs
  BY DEF Study!UpdateBulbs, Study!Dialogs
<1>2. Study!IdOf(Me)' = Study!IdOf(Me) /\ Study!Bulbs' = Study!Bulbs
  BY <1>1 DEF Study!IdOf, Study!Fixed, Study!Bulbs
<1>3. Offers' /\ Heard' /\ Study!ResearchIsPossible' /\ Study!LabelFollows'
  BY <1>1, <1>2
    DEF ResearchInv, Offers, Heard, Study!ResearchIsPossible, Study!LabelFollows, Study!Server
<1>. QED
  BY <1>1, <1>3, LocalKeeps DEF ResearchInv, ResearchTypes

\* A step that asks for a technology, or closes the dialog, or neither.
LEMMA AskKeeps ==
  ASSUME ResearchParams, ResearchInv,
         UNCHANGED <<Study!Fixed, Study!Server, net, data, mirror, stored, Study!Panel>>,
         gained' \in {gained, Nothing},
         NEW t \in Techs, NEW what \in {"research", "goal"},
         asked' \subseteq asked \cup {[what |-> what, tech |-> t]},
         what = "research" => Study!Needs(t) \subseteq known[Study!IdOf(Me)]
  PROVE  ResearchInv'
<1>1. Study!IdOf(Me)' = Study!IdOf(Me) /\ Study!Bulbs' = Study!Bulbs
  BY DEF Study!IdOf, Study!Fixed, Study!Bulbs
<1>2. asked' \subseteq [what : {"research", "goal"}, tech : Techs]
  BY DEF ResearchInv, ResearchTypes
<1>3. Offers'
  BY <1>1 DEF ResearchInv, Offers, Study!Server
<1>4. Heard'
  BY DEF ResearchInv, Heard
<1>5. Study!ResearchIsPossible'
  BY <1>1 DEF ResearchInv, Study!ResearchIsPossible, Study!Server
<1>6. Study!LabelFollows'
  BY <1>1 DEF ResearchInv, Study!LabelFollows, Study!Panel
<1>. QED
  BY <1>2, <1>3, <1>4, <1>5, <1>6, LocalKeeps

\* A technology is clicked in the tree, with the state the mirror has.
LEMMA ClickKeeps == ResearchParams /\ ResearchInv
                      /\ (\E t \in Techs : Study!TechMapviewMouseClick(t)) => ResearchInv'
<1>. SUFFICES ASSUME ResearchParams, ResearchInv, NEW t \in Techs, Study!TechMapviewMouseClick(t)
              PROVE  ResearchInv'
  OBVIOUS
<1>1. /\ IF Study!State(Me, t) = Study!Prereqs THEN Study!Asks("research", t) /\ gained' = Nothing
         ELSE IF Study!State(Me, t) = Study!Unknown THEN Study!Asks("goal", t) /\ UNCHANGED gained
         ELSE UNCHANGED <<asked, gained>>
      /\ UNCHANGED <<Study!Fixed, Study!Server, net, data, mirror, stored, Study!Panel>>
  BY DEF Study!TechMapviewMouseClick
<1>2. CASE Study!State(Me, t) = Study!Prereqs
  <2>1. Study!Needs(t) \subseteq known[Study!IdOf(Me)]
    BY <1>2, PrereqsHold
  <2>2. asked' = asked \cup {[what |-> "research", tech |-> t]} /\ gained' = Nothing
    BY <1>1, <1>2 DEF Study!Asks
  <2>. QED
    BY <1>1, <2>1, <2>2, AskKeeps
<1>3. CASE Study!State(Me, t) # Study!Prereqs
  <2>1. asked' \subseteq asked \cup {[what |-> "goal", tech |-> t]} /\ gained' = gained
    BY <1>1, <1>3 DEF Study!Asks
  <2>. QED
    BY <1>1, <2>1, AskKeeps
<1>. QED
  BY <1>2, <1>3

\* A choice is taken that was offered.
LEMMA ChooseKeeps == ResearchParams /\ ResearchInv /\ (\E t \in Techs : Study!ChooseTech(t))
                       => ResearchInv'
<1>. SUFFICES ASSUME ResearchParams, ResearchInv, NEW t \in Techs, Study!ChooseTech(t)
              PROVE  ResearchInv'
  OBVIOUS
<1>1. /\ gained # Nothing /\ t \in gained.choices /\ gained' = Nothing
      /\ asked' = asked \cup {[what |-> "research", tech |-> t]}
      /\ UNCHANGED <<Study!Fixed, Study!Server, net, data, mirror, stored, Study!Panel>>
  BY DEF Study!ChooseTech, Study!Asks
<1>2. Study!Needs(t) \subseteq known[Study!IdOf(Me)]
  BY <1>1 DEF ResearchInv, Offers
<1>. QED
  BY <1>1, <1>2, AskKeeps

\* The dialog closes, by itself or for the tree.
LEMMA CloseKeeps ==
  ResearchParams /\ ResearchInv
    /\ (Study!CloseTechGained \/ \E byDialog \in BOOLEAN : Study!UpdateTechScreen(byDialog))
    => ResearchInv'
<1>. SUFFICES ASSUME ResearchParams, ResearchInv,
                     Study!CloseTechGained
                       \/ \E byDialog \in BOOLEAN : Study!UpdateTechScreen(byDialog)
              PROVE  ResearchInv'
  OBVIOUS
<1>1. /\ gained' \in {gained, Nothing} /\ asked' = asked
      /\ UNCHANGED <<Study!Fixed, Study!Server, net, data, mirror, stored, Study!Panel>>
  BY DEF Study!CloseTechGained, Study!UpdateTechScreen
<1>2. Study!IdOf(Me)' = Study!IdOf(Me) /\ Study!Bulbs' = Study!Bulbs
  BY <1>1 DEF Study!IdOf, Study!Fixed, Study!Bulbs
<1>3. Offers' /\ Heard' /\ Study!ResearchIsPossible' /\ Study!LabelFollows'
  BY <1>1, <1>2
    DEF ResearchInv, Offers, Heard, Study!ResearchIsPossible, Study!LabelFollows, Study!Server,
        Study!Panel
<1>. QED
  BY <1>1, <1>3, LocalKeeps DEF ResearchInv, ResearchTypes

\* The phase of a player by e-mail begins, with what was kept for it.
LEMMA PhaseKeeps == ResearchParams /\ ResearchInv /\ Study!PbemPhase => ResearchInv'
<1>. SUFFICES ASSUME ResearchParams, ResearchInv, Study!PbemPhase
              PROVE  ResearchInv'
  OBVIOUS
<1> DEFINE offered == {t \in Study!Table : Study!State(Me, t) = Study!Prereqs}
<1>1. /\ UNCHANGED <<Study!Fixed, Study!Server, net, asked, data, mirror, Study!Panel>>
      /\ \/ UNCHANGED <<gained, stored>>
         \/ gained' = Nothing /\ stored' = Study!Unset
         \/ /\ stored # Study!Unset /\ stored' = Study!Unset
            /\ gained' = [tech |-> stored, leads |-> Study!Advances(stored), choices |-> offered]
  BY DEF Study!PbemPhase
<1>2. Study!IdOf(Me)' = Study!IdOf(Me) /\ Study!Bulbs' = Study!Bulbs
  BY <1>1 DEF Study!IdOf, Study!Fixed, Study!Bulbs
<1>3. \A t \in offered : Study!Needs(t) \subseteq known[Study!IdOf(Me)]
  BY PrereqsHold DEF Study!Table
<1>. HIDE DEF offered
<1>4. Offers'
  BY <1>1, <1>2, <1>3 DEF ResearchInv, Offers, Study!Server
<1>5. Heard'
  BY <1>1 DEF ResearchInv, Heard
<1>6. Study!ResearchIsPossible' /\ Study!LabelFollows'
  BY <1>1, <1>2
    DEF ResearchInv, Study!ResearchIsPossible, Study!LabelFollows, Study!Server, Study!Panel
<1>. QED
  BY <1>1, <1>4, <1>5, <1>6, LocalKeeps DEF ResearchInv, ResearchTypes

\* It holds at first.
LEMMA ResearchStarts == ResearchParams /\ Study!Init => ResearchInv
<1>. SUFFICES ASSUME ResearchParams, Study!Init
              PROVE  ResearchInv
  OBVIOUS
<1>1. DOMAIN data = {} /\ DOMAIN net = {} /\ asked = {} /\ net = <<>>
  BY DEF Study!Init
<1>2. /\ gained = Nothing /\ stored = Study!Unset /\ label = Nothing
      /\ \A p \in Players : mirror[p] = [inventions |-> <<>>, researching |-> Study!Unset, goal |-> Study!Unset]
      /\ DOMAIN mirror = Players
  BY DEF Study!Init
<1>3. ResearchTypes
  <2>1. known \in [Study!Researches -> SUBSET Techs] /\ wants \in [Study!Researches -> Aims]
    BY DEF Study!Init, Aims, Study!Ids, Study!Unset
  <2>. QED
    BY <1>1, <2>1 DEF ResearchTypes
<1>4. ResearchOrdered /\ Offers /\ Heard /\ Study!ResearchIsPossible /\ Study!LabelFollows
  BY <1>1, <1>2 DEF ResearchOrdered, Offers, Heard, Study!ResearchIsPossible, Study!LabelFollows
<1>5. ResearchCopied
  BY <1>1, <1>2 DEF ResearchCopied
<1>. QED
  BY <1>3, <1>4, <1>5 DEF ResearchInv

\* The invariant is inductive.
LEMMA ResearchStep == ResearchParams /\ ResearchInv /\ [Study!Next]_Study!vars => ResearchInv'
<1>. SUFFICES ASSUME ResearchParams, ResearchInv, [Study!Next]_Study!vars
              PROVE  ResearchInv'
  OBVIOUS
<1>1. CASE UNCHANGED Study!vars
  <2>1. /\ UNCHANGED <<Study!Fixed, Study!Server, net, asked, data, mirror, gained, stored, Study!Panel>>
    BY <1>1 DEF Study!vars, Study!Fixed, Study!Server, Study!Panel
  <2>2. Study!IdOf(Me)' = Study!IdOf(Me) /\ Study!Bulbs' = Study!Bulbs
    BY <2>1 DEF Study!IdOf, Study!Fixed, Study!Bulbs
  <2>3. Offers' /\ Heard' /\ Study!ResearchIsPossible' /\ Study!LabelFollows'
    BY <2>1, <2>2
      DEF ResearchInv, Offers, Heard, Study!ResearchIsPossible, Study!LabelFollows, Study!Server,
          Study!Panel
  <2>. QED
    BY <2>1, <2>3, LocalKeeps DEF ResearchInv, ResearchTypes
<1>2. CASE \/ \E r \in ResearchNumbers : Study!ServerTells(r)
                \/ \E t \in Techs : Study!ServerLearns(r, t)
           \/ \E q \in asked : Study!ServerTakes(q)
  BY <1>2, ResearchServed
<1>3. CASE Study!HandleResearchInfo
  BY <1>3, ResearchHandled
<1>4. CASE Study!RemoveCity \/ Study!UpdateBulbs \/ Study!PbemPhase
  BY <1>4, RemoveCityKeeps, UpdateBulbsKeeps, PhaseKeeps
<1>5. CASE Study!CloseTechGained \/ \E byDialog \in BOOLEAN : Study!UpdateTechScreen(byDialog)
  BY <1>5, CloseKeeps
<1>6. CASE (\E t \in Techs : Study!TechMapviewMouseClick(t))
             \/ (\E t \in Techs : Study!ChooseTech(t))
  BY <1>6, ClickKeeps, ChooseKeeps
<1>. QED
  BY <1>1, <1>2, <1>3, <1>4, <1>5, <1>6, Zenon DEF Study!Next, ResearchNumbers

-----------------------------------------------------------------------------
(* What is on the way to a technology: no step changes it.                 *)

\* The requirements of a technology are of the ruleset, or none, and come before it.
TreeParams ==
  /\ Techs \subseteq Nat \ {0}
  /\ \A t \in Techs : \A i \in DOMAIN Requires[t] : Requires[t][i] \in Study!Ids
  /\ \E depth \in [Study!Ids -> Nat] :
       \A t \in Techs : \A i \in DOMAIN Requires[t] : depth[Requires[t][i]] < depth[t]

\* The sets that have a technology and what each of theirs requires.
Closed(g) == {S \in SUBSET Techs : g \in S /\ \A t \in S : Study!Needs(t) \subseteq S}

\* Is c needed for g: the answer itself, and what isTechReqForGoal makes of the
\* answers for what g requires.
Needed(c, g) == g \in Techs /\ \A S \in Closed(g) : c \in S
Asks(c, g, f) ==
  \/ c = g
  \/ /\ g # 0 /\ c # 0
     /\ \E i \in DOMAIN Requires[g] : c = Requires[g][i] \/ f[Requires[g][i]]

LEMMA NeedsInTechs ==
  ASSUME TreeParams, NEW t \in Techs
  PROVE  Study!Needs(t) \subseteq Techs
  BY DEF TreeParams, Study!Needs, Study!Ids

\* All that is needed for a technology is itself such a set.
LEMMA NeededIsClosed ==
  ASSUME TreeParams, NEW g \in Techs
  PROVE  {t \in Techs : Needed(t, g)} \in Closed(g)
<1>1. ASSUME NEW t \in Techs, Needed(t, g), NEW n \in Study!Needs(t)
      PROVE  n \in Techs /\ Needed(n, g)
  BY <1>1, NeedsInTechs DEF Needed, Closed
<1>2. Needed(g, g)
  BY DEF Needed, Closed
<1>. QED
  BY <1>1, <1>2 DEF Closed

\* A technology is needed if it is the one, or needed for what that one requires.
LEMMA NeededFor ==
  ASSUME TreeParams, NEW c \in Techs, NEW g \in Techs
  PROVE  Needed(c, g) <=> c = g \/ \E n \in Study!Needs(g) : Needed(c, n)
<1>1. ASSUME c = g \/ \E n \in Study!Needs(g) : Needed(c, n)
      PROVE  Needed(c, g)
  <2>. SUFFICES ASSUME NEW S \in Closed(g)
                PROVE  c \in S
    BY DEF Needed
  <2>1. CASE c = g
    BY <2>1 DEF Closed
  <2>2. ASSUME NEW n \in Study!Needs(g), Needed(c, n)
        PROVE  c \in S
    <3>1. S \in Closed(n)
      BY DEF Closed
    <3>. QED
      BY <2>2, <3>1 DEF Needed
  <2>. QED
    BY <1>1, <2>1, <2>2
<1>2. ASSUME c # g, \A n \in Study!Needs(g) : ~Needed(c, n)
      PROVE  ~Needed(c, g)
  <2>. DEFINE Apart == {S \in SUBSET Techs : c \notin S /\ \A t \in S : Study!Needs(t) \subseteq S}
              T == {g} \cup UNION Apart
  <2>1. ASSUME NEW n \in Study!Needs(g)
        PROVE  n \in UNION Apart
    <3>1. n \in Techs
      BY NeedsInTechs
    <3>2. PICK S \in Closed(n) : c \notin S
      BY <1>2, <3>1 DEF Needed
    <3>3. S \in Apart /\ n \in S
      BY <3>2 DEF Closed
    <3>. QED
      BY <3>3
  <2>2. ASSUME NEW t \in UNION Apart
        PROVE  Study!Needs(t) \subseteq UNION Apart
    <3>1. PICK S \in Apart : t \in S
      OBVIOUS
    <3>2. Study!Needs(t) \subseteq S
      BY <3>1
    <3>. QED
      BY <3>2
  <2>3. c \notin UNION Apart /\ UNION Apart \subseteq Techs
    OBVIOUS
  <2>. HIDE DEF Apart
  <2>4. T \in Closed(g) /\ c \notin T
    BY <1>2, <2>1, <2>2, <2>3 DEF Closed
  <2>. QED
    BY <2>4 DEF Needed
<1>. QED
  BY <1>1, <1>2

\* So being needed answers for itself as isTechReqForGoal does.
LEMMA NeededAsks ==
  ASSUME TreeParams, NEW c \in Techs, NEW g \in Study!Ids, NEW f,
         \A h \in Study!Ids : f[h] <=> Needed(c, h)
  PROVE  Needed(c, g) <=> Asks(c, g, f)
<1>1. c # 0 /\ 0 \notin Techs
  BY DEF TreeParams
<1>2. CASE g = 0
  BY <1>1, <1>2 DEF Needed, Asks
<1>3. CASE g \in Techs
  <2>1. ASSUME NEW i \in DOMAIN Requires[g]
        PROVE  /\ Requires[g][i] \in Study!Ids /\ (f[Requires[g][i]] <=> Needed(c, Requires[g][i]))
               /\ Requires[g][i] # 0 => Requires[g][i] \in Study!Needs(g)
               /\ Requires[g][i] \in Techs => Needed(Requires[g][i], Requires[g][i])
    BY <1>3 DEF TreeParams, Study!Needs, Needed, Closed
  <2>2. ASSUME NEW n \in Study!Needs(g)
        PROVE  \E i \in DOMAIN Requires[g] : Requires[g][i] = n
    BY DEF Study!Needs
  <2>3. g # 0
    BY <1>1, <1>3
  <2>4. ASSUME Asks(c, g, f), c # g
        PROVE  \E n \in Study!Needs(g) : Needed(c, n)
    <3>1. PICK i \in DOMAIN Requires[g] : c = Requires[g][i] \/ f[Requires[g][i]]
      BY <2>4, Zenon DEF Asks
    <3>2. Needed(c, Requires[g][i])
      BY <2>1, <3>1
    <3>3. Requires[g][i] # 0
      BY <1>1, <3>2 DEF Needed
    <3>. QED
      BY <2>1, <3>2, <3>3
  <2>5. ASSUME NEW n \in Study!Needs(g), Needed(c, n)
        PROVE  Asks(c, g, f)
    <3>1. PICK i \in DOMAIN Requires[g] : Requires[g][i] = n
      BY <2>2
    <3>2. f[Requires[g][i]]
      BY <2>1, <2>5, <3>1
    <3>. QED
      BY <1>1, <2>3, <3>2, Zenon DEF Asks
  <2>. QED
    BY <1>3, <2>4, <2>5, NeededFor DEF Asks
<1>. QED
  BY <1>2, <1>3 DEF Study!Ids

\* The recursion of isTechReqForGoal.
Answers(c, f) ==
  f = [g \in Study!Ids |->
         \/ c = g
         \/ /\ g # 0 /\ c # 0
            /\ \E i \in DOMAIN Requires[g] : c = Requires[g][i] \/ f[Requires[g][i]]]

\* It has a solution, and only one, since requirements come before what they are for.
LEMMA AnswersExist ==
  ASSUME TreeParams, NEW c \in Techs
  PROVE  \E f : Answers(c, f)
<1>1. PICK f : f = [g \in Study!Ids |-> Needed(c, g)]
  OBVIOUS
<1>2. \A h \in Study!Ids : f[h] <=> Needed(c, h)
  BY <1>1
<1>3. ASSUME NEW g \in Study!Ids
      PROVE  Needed(c, g) = Asks(c, g, f)
  <2>1. Needed(c, g) <=> Asks(c, g, f)
    BY <1>2, NeededAsks
  <2>2. Needed(c, g) \in BOOLEAN /\ Asks(c, g, f) \in BOOLEAN
    BY Zenon DEF Needed, Asks
  <2>. QED
    BY <2>1, <2>2
<1>4. f = [g \in Study!Ids |-> Asks(c, g, f)]
  BY <1>1, <1>3
<1>. QED
  BY <1>4, Zenon DEF Answers, Asks

LEMMA AnswersAreNeeded ==
  ASSUME TreeParams, NEW c \in Techs, NEW f, Answers(c, f), NEW g \in Study!Ids
  PROVE  f[g] <=> Needed(c, g)
<1>1. ASSUME NEW h \in Study!Ids
      PROVE  f[h] <=> Asks(c, h, f)
  BY Zenon DEF Answers, Asks
<1>2. PICK w : w = [h \in Study!Ids |-> Needed(c, h)]
  OBVIOUS
<1>3. \A h \in Study!Ids : w[h] <=> Needed(c, h)
  BY <1>2
<1>4. ASSUME NEW h \in Study!Ids
      PROVE  w[h] <=> Asks(c, h, w)
  BY <1>3, NeededAsks
<1>5. PICK depth \in [Study!Ids -> Nat] :
        \A t \in Techs : \A i \in DOMAIN Requires[t] : depth[Requires[t][i]] < depth[t]
  BY DEF TreeParams
<1>. DEFINE Wrong == {h \in Study!Ids : ~(f[h] <=> w[h])}
            Depths == {depth[h] : h \in Wrong}
<1>6. ASSUME NEW h \in Wrong
      PROVE  \E k \in Wrong : depth[k] < depth[h]
  <2>1. h \in Techs
    <3>1. h # 0
      <4>. SUFFICES ASSUME h = 0
                    PROVE  FALSE
        OBVIOUS
      <4>1. ~f[h] \/ c = h
        BY <1>1, Zenon DEF Asks
      <4>2. ~w[h] \/ c = h
        BY <1>4, Zenon DEF Asks
      <4>3. c # h
        BY DEF TreeParams
      <4>. QED
        BY <4>1, <4>2, <4>3
    <3>. QED
      BY <3>1 DEF Study!Ids
  <2>2. ASSUME NEW i \in DOMAIN Requires[h]
        PROVE  Requires[h][i] \in Study!Ids /\ depth[Requires[h][i]] < depth[h]
    BY <1>5, <2>1 DEF TreeParams
  <2>. SUFFICES ASSUME \A i \in DOMAIN Requires[h] : f[Requires[h][i]] <=> w[Requires[h][i]]
                PROVE  FALSE
    BY <2>2
  <2>3. Asks(c, h, f) <=> Asks(c, h, w)
    BY Zenon DEF Asks
  <2>. QED
    BY <1>1, <1>4, <2>3
<1>7. Wrong = {}
  <2>. SUFFICES ASSUME Wrong # {}
                PROVE  FALSE
    OBVIOUS
  <2>1. Depths \subseteq Nat /\ Depths # {}
    OBVIOUS
  <2>2. PICK d \in Depths : \A e \in Depths : d <= e
    <3>. HIDE DEF Depths
    <3>. QED
      BY <2>1, LeastExists
  <2>3. PICK h \in Wrong : d = depth[h]
    OBVIOUS
  <2>. HIDE DEF Wrong
  <2>4. PICK k \in Wrong : depth[k] < depth[h]
    BY <1>6
  <2>5. depth[h] <= depth[k]
    BY <2>2, <2>3
  <2>6. depth[h] \in Nat /\ depth[k] \in Nat
    BY DEF Wrong
  <2>. QED
    BY <2>4, <2>5, <2>6
<1>. QED
  BY <1>3, <1>7

LEMMA IsNeeded ==
  ASSUME TreeParams, NEW c \in Techs, NEW g \in Techs
  PROVE  Study!IsTechReqForGoal(c, g) <=> Needed(c, g)
<1>1. PICK a : a = CHOOSE f : Answers(c, f)
  OBVIOUS
<1>2. Answers(c, a)
  BY <1>1, AnswersExist
<1>3. Study!IsTechReqForGoal(c, g) <=> a[g]
  BY <1>1, Zenon DEF Study!IsTechReqForGoal, Answers
<1>4. g \in Study!Ids
  BY DEF Study!Ids
<1>. QED
  BY <1>2, <1>3, <1>4, AnswersAreNeeded

LEMMA WayIsClosure ==
  ASSUME TreeParams
  PROVE  Study!ReqForGoalIsClosure
<1>. SUFFICES ASSUME NEW goal \in Techs
              PROVE  /\ {t \in Techs : Study!IsTechReqForGoal(t, goal)}
                          = {t \in Techs : \A S \in Closed(goal) : t \in S}
                     /\ \A t \in {u \in Techs : Study!IsTechReqForGoal(u, goal)} \ {goal} :
                          \E next \in {u \in Techs : Study!IsTechReqForGoal(u, goal)} :
                            Study!IsTechReqForTech(t, next)
  BY Zenon DEF Study!ReqForGoalIsClosure, Closed
<1>. DEFINE way == {t \in Techs : Needed(t, goal)}
<1>1. {t \in Techs : Study!IsTechReqForGoal(t, goal)} = way
  BY IsNeeded
<1>2. way = {t \in Techs : \A S \in Closed(goal) : t \in S}
  BY DEF Needed
<1>3. ASSUME NEW t \in way, t # goal
      PROVE  \E next \in way : Study!IsTechReqForTech(t, next)
  <2>1. way \in Closed(goal)
    BY NeededIsClosed
  <2>2. PICK next \in way : next # t /\ t \in Study!Needs(next)
    <3>. SUFFICES ASSUME \A next \in way : next # t => t \notin Study!Needs(next)
                  PROVE  FALSE
      OBVIOUS
    <3>1. way \ {t} \in Closed(goal)
      BY <1>3, <2>1 DEF Closed
    <3>. QED
      BY <3>1 DEF Needed
  <2>3. next # 0
    BY DEF TreeParams
  <2>. QED
    BY <2>2, <2>3 DEF Study!IsTechReqForTech
<1>. HIDE DEF way
<1>. QED
  BY <1>1, <1>2, <1>3

\* For any tree of technologies, players and teams, pooled research or not: what is
\* on the way to a goal is the goal and what it requires, and what that requires;
\* what the player asks to research can be researched when the server gets to it,
\* players of one research are told the same and no more than the server counts, what
\* is announced is known, and the label of the bulbs is out of date only while its
\* update is due (isTechReqForGoal, handle_research_info, tech_mapview_mouse_click,
\* show_tech_gained_dialog, queue_tech_gained_dialog, update_bulbs_output_info).
THEOREM ResearchIsFollowed ==
  ASSUME ResearchParams, TreeParams
  PROVE  Study!Spec => []Study!ResearchSound
<1>1. Study!Init => ResearchInv
  BY ResearchStarts
<1>2. ResearchInv /\ [Study!Next]_Study!vars => ResearchInv'
  BY ResearchStep
<1>3. ResearchInv => Study!ResearchSound
  BY ResearchHolds, WayIsClosure DEF ResearchFollows, Study!ResearchSound
<1>. QED
  BY <1>1, <1>2, <1>3, PTL DEF Study!Spec

-----------------------------------------------------------------------------
(* Rates and governments.                                                  *)

CONSTANTS Governments, Reqs, Legal, Stops
VARIABLES player, slider, maxrate, lock, offered, requested_gov, revolution

Treasury == INSTANCE Rates

\* What is needed of the parameters: rates are in steps of ten.
RatesParams ==
  /\ Governments \subseteq Nat /\ Stops \subseteq Nat
  /\ Legal \subseteq [Treasury!Kinds -> {n \in 0..100 : n % 10 = 0}]

\* Steps of ten up to a maximum, which is one.
Steps(max) == {n \in 0..max : n % 10 = 0}
Maxima == {60, 70, 80, 100}

RatesTypes ==
  /\ maxrate \in Maxima
  /\ player \in [government : Governments, rates : [Treasury!Kinds -> Steps(100)], known : SUBSET Techs]
  /\ lock \subseteq Treasury!Kinds
  /\ slider = Treasury!NoRates
       \/ (slider \in [Treasury!Kinds -> Steps(maxrate)] /\ label \in [Treasury!Kinds -> Steps(maxrate)])
  /\ sent = Treasury!NoRates
       \/ (sent \in [Treasury!Kinds -> Steps(100)] /\ Treasury!Sum(sent) = 100)

\* What is offered and what is asked for has the requirements that can be judged.
Certain(g) ==
  \A req \in Reqs[g] :
    req.kind = "advance" => req.range = "player" /\ (req.present => req.value \in player.known)
Sure ==
  /\ offered # Treasury!Closed => offered \subseteq Governments /\ \A g \in offered : Certain(g)
  /\ revolution # Treasury!None => Certain(revolution)
  /\ requested_gov # Treasury!None => Certain(requested_gov)

RatesInv == RatesTypes /\ Sure

-----------------------------------------------------------------------------
LEMMA Arithmetic ==
  ASSUME NEW max \in Maxima
  PROVE  /\ \A n \in Nat : n <= max => Treasury!Tens(n) \in Steps(max)
         /\ \A n \in Steps(max) : Treasury!Tens(n) = n /\ Treasury!Clamp(n, max) = n
              /\ n \in Steps(100) /\ n \in Int
         /\ \A n \in Int : n % 10 = 0 => Treasury!Clamp(n, max) \in Steps(max)
              /\ Treasury!Least(Treasury!Most(n, 0), max) \in Steps(max)
         /\ max \in Steps(max) /\ 0 \in Steps(max)
<1>. max \in {60, 70, 80, 100}
  BY DEF Maxima
<1>. USE DEF Steps, Treasury!Tens, Treasury!Clamp, Treasury!Least, Treasury!Most
<1>1. \A n \in Nat : n <= max => Treasury!Tens(n) \in Steps(max)
  OBVIOUS
<1>2. \A n \in Steps(max) : Treasury!Tens(n) = n /\ Treasury!Clamp(n, max) = n
        /\ n \in Steps(100) /\ n \in Int
  OBVIOUS
<1>3. \A n \in Int : n % 10 = 0 => Treasury!Clamp(n, max) \in Steps(max)
        /\ Treasury!Least(Treasury!Most(n, 0), max) \in Steps(max)
  OBVIOUS
<1>4. max \in Steps(max) /\ 0 \in Steps(max)
  OBVIOUS
<1>. QED
  BY <1>1, <1>2, <1>3, <1>4

\* What is left of a hundred is in steps of ten as well.
LEMMA LeftOver ==
  ASSUME NEW r, NEW k \in Treasury!Kinds, \A l \in Treasury!Kinds : r[l] \in Int /\ r[l] % 10 = 0
  PROVE  (100 - (Treasury!Sum(r) - r[k])) \in Int /\ (100 - (Treasury!Sum(r) - r[k])) % 10 = 0
<1>. DEFINE Tenth(n) == n % 10 = 0
<1>1. \A a, b, c \in Int : Tenth(a) /\ Tenth(b) /\ Tenth(c) =>
        Tenth(100 - ((a + b + c) - a)) /\ Tenth(100 - ((a + b + c) - b))
          /\ Tenth(100 - ((a + b + c) - c))
  OBVIOUS
<1>2. \A l \in Treasury!Kinds : r[l] \in Int /\ Tenth(r[l])
  OBVIOUS
<1>. HIDE DEF Tenth
<1>3. PICK t, l, c : t = r["tax"] /\ l = r["lux"] /\ c = r["sci"]
  OBVIOUS
<1>4. t \in Int /\ l \in Int /\ c \in Int /\ Tenth(t) /\ Tenth(l) /\ Tenth(c)
  BY <1>2, <1>3 DEF Treasury!Kinds
<1>5. Tenth(100 - ((t + l + c) - t)) /\ Tenth(100 - ((t + l + c) - l))
        /\ Tenth(100 - ((t + l + c) - c))
  BY <1>1, <1>4, Zenon
<1>6. Treasury!Sum(r) = t + l + c /\ r[k] \in {t, l, c}
  BY <1>3 DEF Treasury!Sum, Treasury!Kinds
<1>7. PICK n : n = 100 - (Treasury!Sum(r) - r[k])
  OBVIOUS
<1>8. n \in Int /\ n \in {100 - ((t + l + c) - t), 100 - ((t + l + c) - l), 100 - ((t + l + c) - c)}
  BY <1>4, <1>6, <1>7
<1>9. Tenth(n)
  BY <1>5, <1>8, Zenon
<1>. QED
  BY <1>7, <1>8, <1>9 DEF Tenth

LEMMA MaximaAre == \A g : Treasury!MaxRate(g) \in Maxima
BY DEF Treasury!MaxRate, Maxima

\* The rate that gives way is one the government allows, and no other changes.
LEMMA WayGiven ==
  ASSUME RatesTypes, NEW r \in [Treasury!Kinds -> Steps(maxrate)], NEW k \in Treasury!Kinds
  PROVE  /\ Treasury!GivesWay(r, k) \in [Treasury!Kinds -> Steps(maxrate)]
         /\ \A l \in Treasury!Kinds : l # k \/ k \in lock => Treasury!GivesWay(r, k)[l] = r[l]
<1>. maxrate \in Maxima
  BY DEF RatesTypes
<1>1. \A l \in Treasury!Kinds : r[l] \in Int /\ r[l] % 10 = 0
  BY DEF Steps, Maxima
<1>2. (100 - (Treasury!Sum(r) - r[k])) \in Int /\ (100 - (Treasury!Sum(r) - r[k])) % 10 = 0
  BY <1>1, LeftOver
<1>3. PICK n : n = Treasury!Least(Treasury!Most(100 - (Treasury!Sum(r) - r[k]), 0), maxrate)
  OBVIOUS
<1>4. n \in Steps(maxrate)
  BY <1>2, <1>3, Arithmetic
<1>5. Treasury!MakesUp(r, k) = [r EXCEPT ![k] = n]
  BY <1>3 DEF Treasury!MakesUp
<1>. QED
  BY <1>4, <1>5 DEF Treasury!GivesWay

\* A move of a slider: what is sent adds up, and what is locked stays.
LEMMA UpdateKeeps ==
  ASSUME RatesParams, RatesInv, NEW k \in Treasury!Kinds, NEW value \in Stops,
         Treasury!UpdateRates(k, value)
  PROVE  RatesInv' /\ \A l \in lock \ {k} : slider'[l] = slider[l]
<1>. maxrate \in Maxima /\ lock \subseteq Treasury!Kinds
  BY DEF RatesInv, RatesTypes
<1>. PICK moved : moved = [kind \in Treasury!Kinds |-> Treasury!Tens(IF kind = k THEN value ELSE slider[kind])]
  OBVIOUS
<1>. PICK once : once = Treasury!GivesWay(moved, Treasury!First(k))
  OBVIOUS
<1>. PICK rates : rates = Treasury!GivesWay(once, Treasury!Second(k))
  OBVIOUS
<1>1. /\ slider # Treasury!NoRates /\ value <= maxrate
      /\ IF Treasury!Sum(rates) # 100
         THEN /\ slider' = [moved EXCEPT ![k] = Treasury!Clamp(100 - (Treasury!Sum(rates) - rates[k]), maxrate)]
              /\ UNCHANGED <<label, sent>>
         ELSE /\ slider' = [kind \in Treasury!Kinds |-> Treasury!Clamp(rates[kind], maxrate)]
              /\ label' = rates
              /\ sent' = rates
      /\ UNCHANGED <<player, maxrate, lock, Treasury!Govt>>
  BY DEF Treasury!UpdateRates
<1>2. slider \in [Treasury!Kinds -> Steps(maxrate)] /\ label \in [Treasury!Kinds -> Steps(maxrate)]
  BY <1>1 DEF RatesInv, RatesTypes
<1>3. moved \in [Treasury!Kinds -> Steps(maxrate)]
        /\ \A l \in Treasury!Kinds \ {k} : moved[l] = slider[l]
  BY <1>1, <1>2, Arithmetic DEF RatesParams
<1>4. Treasury!First(k) \in Treasury!Kinds \ {k} /\ Treasury!Second(k) \in Treasury!Kinds \ {k}
  BY DEF Treasury!First, Treasury!Second, Treasury!Kinds
<1>5. /\ once \in [Treasury!Kinds -> Steps(maxrate)] /\ rates \in [Treasury!Kinds -> Steps(maxrate)]
      /\ \A l \in Treasury!Kinds : l \in lock \ {k} => rates[l] = moved[l]
  <2>1. /\ once \in [Treasury!Kinds -> Steps(maxrate)]
        /\ \A l \in Treasury!Kinds : l # Treasury!First(k) \/ Treasury!First(k) \in lock
             => once[l] = moved[l]
    BY <1>3, <1>4, WayGiven DEF RatesInv
  <2>2. /\ rates \in [Treasury!Kinds -> Steps(maxrate)]
        /\ \A l \in Treasury!Kinds : l # Treasury!Second(k) \/ Treasury!Second(k) \in lock
             => rates[l] = once[l]
    BY <2>1, <1>4, WayGiven DEF RatesInv
  <2>. QED
    BY <2>1, <2>2
<1>6. CASE Treasury!Sum(rates) # 100
  <2>1. (100 - (Treasury!Sum(rates) - rates[k])) \in Int
          /\ (100 - (Treasury!Sum(rates) - rates[k])) % 10 = 0
    <3>1. \A l \in Treasury!Kinds : rates[l] \in Int /\ rates[l] % 10 = 0
      BY <1>5 DEF Steps, Maxima
    <3>. QED
      BY <3>1, LeftOver
  <2>2. PICK n : n = Treasury!Clamp(100 - (Treasury!Sum(rates) - rates[k]), maxrate)
    OBVIOUS
  <2>3. n \in Steps(maxrate)
    BY <2>1, <2>2, Arithmetic
  <2>4. slider' = [moved EXCEPT ![k] = n] /\ label' = label /\ sent' = sent
    BY <1>1, <1>6, <2>2
  <2>5. slider' \in [Treasury!Kinds -> Steps(maxrate)]
          /\ \A l \in Treasury!Kinds \ {k} : slider'[l] = slider[l]
    BY <1>3, <2>3, <2>4
  <2>6. RatesTypes'
    BY <1>1, <1>2, <2>4, <2>5 DEF RatesInv, RatesTypes
  <2>7. Sure'
    BY <1>1 DEF RatesInv, Sure, Certain, Treasury!Govt
  <2>. QED
    BY <2>5, <2>6, <2>7 DEF RatesInv
<1>7. CASE Treasury!Sum(rates) = 100
  <2>1. \A l \in Treasury!Kinds : Treasury!Clamp(rates[l], maxrate) = rates[l]
          /\ rates[l] \in Steps(100)
    BY <1>5, Arithmetic
  <2>2. slider' = [kind \in Treasury!Kinds |-> Treasury!Clamp(rates[kind], maxrate)]
          /\ label' = rates /\ sent' = rates
    BY <1>1, <1>7
  <2>3. slider' \in [Treasury!Kinds -> Steps(maxrate)]
          /\ \A l \in Treasury!Kinds : slider'[l] = rates[l]
    BY <1>5, <2>1, <2>2
  <2>4. sent' \in [Treasury!Kinds -> Steps(100)] /\ Treasury!Sum(sent') = 100
    BY <1>5, <1>7, <2>1, <2>2
  <2>5. RatesTypes'
    BY <1>1, <1>5, <2>2, <2>3, <2>4 DEF RatesInv, RatesTypes
  <2>6. Sure'
    BY <1>1 DEF RatesInv, Sure, Certain, Treasury!Govt
  <2>. QED
    BY <1>3, <1>5, <2>3, <2>5, <2>6 DEF RatesInv
<1>. QED
  BY <1>6, <1>7

\* What can be had now has the requirements that can be judged.
LEMMA OfferedSure == \A g \in Treasury!Offered : Certain(g)
BY DEF Treasury!Offered, Treasury!CanPlayerGetGov, Treasury!IsReqActive, Treasury!ReqResult, Certain

LEMMA DialogsKeep ==
  ASSUME RatesParams, RatesInv,
         \/ Treasury!ShowTaxRatesDialog \/ Treasury!CloseRates
              \/ (\E k \in Treasury!Kinds : Treasury!Lock(k))
         \/ Treasury!ShowRevolutionDialog \/ Treasury!CloseRevolutionDialog
              \/ Treasury!StartRevolution
         \/ \E g \in Governments : Treasury!SetReqGovernment(g)
  PROVE  RatesInv'
<1>. RatesTypes /\ Sure
  BY DEF RatesInv
<1>1. CASE Treasury!ShowTaxRatesDialog
  <2>1. /\ maxrate' \in Maxima /\ slider' = [k \in Treasury!Kinds |-> Treasury!Clamp(player.rates[k], maxrate')]
        /\ label' = slider' /\ lock' = {} /\ UNCHANGED <<player, sent, Treasury!Govt>>
    BY <1>1, MaximaAre DEF Treasury!ShowTaxRatesDialog
  <2>2. PICK max : max = maxrate'
    OBVIOUS
  <2>3. \A k \in Treasury!Kinds : player.rates[k] \in Int /\ player.rates[k] % 10 = 0
    BY DEF RatesTypes, Steps
  <2>4. \A k \in Treasury!Kinds : Treasury!Clamp(player.rates[k], max) \in Steps(max)
    BY <2>1, <2>2, <2>3, Arithmetic
  <2>5. slider' \in [Treasury!Kinds -> Steps(max)]
    BY <2>1, <2>2, <2>4
  <2>6. RatesTypes'
    BY <2>1, <2>2, <2>5 DEF RatesTypes
  <2>7. Sure'
    BY <2>1 DEF Sure, Certain, Treasury!Govt
  <2>. QED
    BY <2>6, <2>7 DEF RatesInv
<1>2. CASE Treasury!CloseRates
  BY <1>2 DEF Treasury!CloseRates, RatesInv, RatesTypes, Sure, Certain, Treasury!Govt
<1>3. CASE \E k \in Treasury!Kinds : Treasury!Lock(k)
  BY <1>3 DEF Treasury!Lock, RatesInv, RatesTypes, Sure, Certain, Treasury!Govt
<1>4. ASSUME UNCHANGED <<player, Treasury!Dialog, sent>>, Sure'
      PROVE  RatesInv'
  BY <1>4 DEF RatesInv, RatesTypes, Treasury!Dialog
<1>5. CASE Treasury!ShowRevolutionDialog
  <2>1. offered' = Treasury!Offered
          /\ UNCHANGED <<player, Treasury!Dialog, sent, requested_gov, revolution>>
    BY <1>5 DEF Treasury!ShowRevolutionDialog
  <2>2. Sure'
    BY <2>1, OfferedSure DEF Sure, Certain, Treasury!Offered
  <2>. QED
    BY <1>4, <2>1, <2>2
<1>6. CASE Treasury!CloseRevolutionDialog
  BY <1>4, <1>6 DEF Treasury!CloseRevolutionDialog, Sure, Certain
<1>7. CASE Treasury!StartRevolution
  BY <1>4, <1>7 DEF Treasury!StartRevolution, Sure, Certain
<1>8. ASSUME NEW g \in Governments, Treasury!SetReqGovernment(g)
      PROVE  RatesInv'
  <2>1. /\ offered # Treasury!Closed /\ g \in offered /\ requested_gov' = g
             /\ offered' = Treasury!Offered
        /\ UNCHANGED <<player, Treasury!Dialog, sent, revolution>>
    BY <1>8 DEF Treasury!SetReqGovernment
  <2>2. Sure'
    BY <2>1, OfferedSure DEF Sure, Certain, Treasury!Offered
  <2>. QED
    BY <1>4, <2>1, <2>2
<1>. QED
  BY <1>1, <1>2, <1>3, <1>5, <1>6, <1>7, <1>8

\* What the server tells of the player leaves the dialogs as they are.
LEMMA PlayerTold ==
  ASSUME RatesInv, UNCHANGED <<Treasury!Dialog, offered, requested_gov>>,
         player' \in [government : Governments, rates : [Treasury!Kinds -> Steps(100)], known : SUBSET Techs],
         player.known \subseteq player'.known, sent' \in {sent, Treasury!NoRates}, revolution' \in {revolution, Treasury!None}
  PROVE  RatesInv'
<1>1. RatesTypes'
  BY DEF RatesInv, RatesTypes, Treasury!Dialog
<1>2. Sure'
  BY DEF RatesInv, Sure, Certain, Treasury!Dialog
<1>. QED
  BY <1>1, <1>2 DEF RatesInv

LEMMA RatesServed ==
  ASSUME RatesParams, RatesInv,
         \/ Treasury!ServerTakesRates \/ (\E t \in Techs : Treasury!ServerTeaches(t))
         \/ \E g \in Governments, r \in Legal : Treasury!ServerChangesGovernment(g, r)
  PROVE  RatesInv'
<1>. DEFINE PlayersServed == [government : Governments, rates : [Treasury!Kinds -> Steps(100)], known : SUBSET Techs]
<1>. player \in PlayersServed
  BY DEF RatesInv, RatesTypes
<1>1. CASE Treasury!ServerTakesRates
  <2>1. /\ sent # Treasury!NoRates /\ sent' = Treasury!NoRates
             /\ UNCHANGED <<Treasury!Dialog, Treasury!Govt>>
        /\ player' = [player EXCEPT !.rates = sent] \/ player' = player
    BY <1>1 DEF Treasury!ServerTakesRates
  <2>2. sent \in [Treasury!Kinds -> Steps(100)]
    BY <2>1 DEF RatesInv, RatesTypes
  <2>3. player' \in PlayersServed /\ player'.known = player.known
    BY <2>1, <2>2
  <2>. QED
    BY <2>1, <2>3, PlayerTold DEF Treasury!Govt
<1>2. ASSUME NEW t \in Techs, Treasury!ServerTeaches(t)
      PROVE  RatesInv'
  <2>1. player' = [player EXCEPT !.known = @ \cup {t}]
          /\ UNCHANGED <<Treasury!Dialog, sent, Treasury!Govt>>
    BY <1>2 DEF Treasury!ServerTeaches
  <2>2. player' \in PlayersServed /\ player.known \subseteq player'.known
    BY <2>1
  <2>. QED
    BY <2>1, <2>2, PlayerTold DEF Treasury!Govt
<1>3. ASSUME NEW g \in Governments, NEW r \in Legal, Treasury!ServerChangesGovernment(g, r)
      PROVE  RatesInv'
  <2>1. r \in [Treasury!Kinds -> Steps(100)]
    BY DEF RatesParams, Steps
  <2>2. /\ player' = [player EXCEPT !.government = g, !.rates = r] /\ revolution' = Treasury!None
        /\ UNCHANGED <<Treasury!Dialog, sent, offered, requested_gov>>
    BY <1>3 DEF Treasury!ServerChangesGovernment
  <2>3. player' \in PlayersServed /\ player'.known = player.known
    BY <2>1, <2>2
  <2>. QED
    BY <2>2, <2>3, PlayerTold
<1>. QED
  BY <1>1, <1>2, <1>3

LEMMA RatesStep ==
  RatesParams /\ RatesInv /\ [Treasury!Next]_Treasury!vars => RatesInv'
    /\ [Treasury!KeepsLocked]_Treasury!vars
<1>. SUFFICES ASSUME RatesParams, RatesInv, [Treasury!Next]_Treasury!vars
              PROVE  RatesInv' /\ [Treasury!KeepsLocked]_Treasury!vars
  OBVIOUS
<1>1. CASE UNCHANGED Treasury!vars
  BY <1>1 DEF Treasury!vars, RatesInv, RatesTypes, Sure, Certain
<1>2. RatesInv'
  BY <1>1, UpdateKeeps, DialogsKeep, RatesServed DEF Treasury!Next
<1>3. ASSUME NEW k \in Treasury!Kinds, NEW v \in Stops, Treasury!UpdateRates(k, v)
      PROVE  \A l \in lock \ {k} : slider'[l] = slider[l]
  BY <1>3, UpdateKeeps
<1>. QED
  BY <1>2, <1>3 DEF Treasury!KeepsLocked

LEMMA RatesStart == RatesParams /\ Treasury!Init => RatesInv
<1>. SUFFICES ASSUME RatesParams, Treasury!Init
              PROVE  RatesInv
  OBVIOUS
<1>1. PICK g \in Governments, r \in Legal : player = [government |-> g, rates |-> r, known |-> {}]
  BY DEF Treasury!Init
<1>2. r \in [Treasury!Kinds -> Steps(100)]
  BY DEF RatesParams, Steps
<1>3. RatesTypes
  BY <1>1, <1>2 DEF Treasury!Init, RatesTypes, Maxima
<1>4. Sure
  BY DEF Treasury!Init, Sure
<1>. QED
  BY <1>3, <1>4 DEF RatesInv

LEMMA RatesHold == RatesInv => Treasury!RatesSound
<1>. SUFFICES ASSUME RatesInv
              PROVE  Treasury!RatesSound
  OBVIOUS
<1>1. Treasury!SentAddsUp
  BY DEF RatesInv, RatesTypes, Treasury!SentAddsUp, Steps
<1>2. Treasury!LabelsAddUp
  BY DEF RatesInv, RatesTypes, Treasury!LabelsAddUp, Steps
<1>3. Treasury!GovernmentIsCertain
  BY DEF RatesInv, Sure, Certain, Treasury!GovernmentIsCertain
<1>. QED
  BY <1>1, <1>2, <1>3 DEF Treasury!RatesSound

\* Rates are sent that add up to a hundred in steps of ten, the sliders and
\* labels keep to the government's maximum, and the government asked for has
\* every requirement the client can judge (update_tax_rates, canPlayerGetGov).
THEOREM RatesAreSound == ASSUME RatesParams PROVE Treasury!Spec => []Treasury!RatesSound
<1>1. Treasury!Spec => []RatesInv
  BY RatesStart, RatesStep, PTL DEF Treasury!Spec
<1>. QED
  BY <1>1, RatesHold, PTL

\* No move of one slider moves another that is locked (update_tax_rates).
THEOREM LockedRatesStay ==
  ASSUME RatesParams PROVE Treasury!Spec => [][Treasury!KeepsLocked]_Treasury!vars
<1>1. Treasury!Spec => []RatesInv
  BY RatesStart, RatesStep, PTL DEF Treasury!Spec
<1>. QED
  BY <1>1, RatesStep, PTL DEF Treasury!Spec

-----------------------------------------------------------------------------
(* Chat.                                                                   *)

CONSTANTS Seats, Names, Own, First, Texts, Everybody, Unset
VARIABLES me, players, allied, chat_send_to, icon, choices, reseated

Talk == INSTANCE Chat

\* What is needed of the parameters: numbers that mean no seat are no seats.
ChatParams ==
  /\ Own \subseteq Seats \cup {NoOne} /\ DOMAIN First = Seats
  /\ Everybody \notin Seats /\ Unset \notin Seats /\ NoOne \notin Seats \cup {Everybody, Unset}

Callers == Names \cup Talk!Range(First)

\* The seat that is written to shows who sits there, unless it was given to another.
ChatInv ==
  /\ me \in Seats \cup {NoOne}
  /\ DOMAIN players = Seats /\ \A s \in Seats : players[s] \in Callers \cup {NoOne}
  /\ chat_send_to \in Seats \cup {Everybody, Unset}
  /\ chat_send_to \in {Everybody, Unset} => icon = "everybody"
  /\ chat_send_to = me => icon = "allies"
  /\ chat_send_to \in Seats \ {me} =>
       icon \in Callers /\ (players[chat_send_to] \in {icon, NoOne} \/ chat_send_to \in reseated)

\* The direction turns to who is there, and stays otherwise.
LEMMA Turned ==
  ASSUME ChatParams, ChatInv, NEW id, Talk!SetChatDirection(id), UNCHANGED <<me, players>>
  PROVE  ChatInv'
<1>1. CASE UNCHANGED Talk!Direction
  BY <1>1 DEF ChatInv, Talk!Direction, Callers
<1>2. CASE id = Everybody /\ Talk!Turns(Everybody, "everybody")
  BY <1>2 DEF ChatInv, Talk!Turns, Callers, ChatParams
<1>3. CASE me # NoOne /\ id = me /\ Talk!Turns(me, "allies")
  BY <1>3 DEF ChatInv, Talk!Turns, Callers, ChatParams
<1>4. CASE id # me /\ id \in Seats /\ players[id] # NoOne /\ Talk!Turns(id, players[id])
  BY <1>4 DEF ChatInv, Talk!Turns, Callers, ChatParams
<1>. QED
  BY <1>1, <1>2, <1>3, <1>4 DEF Talk!SetChatDirection, ChatParams

\* A message goes to whom the line shows.
LEMMA Texted ==
  ASSUME ChatParams, ChatInv, NEW text \in Texts, Talk!CheckTextInput(text)
  PROVE  ChatInv' /\ Talk!SentAsShown'
<1>. UNCHANGED <<me, players>>
  BY DEF Talk!CheckTextInput
<1>. DEFINE Promised == IF text.prefixed THEN "as_typed" ELSE icon
<1>1. ASSUME NEW to, Talk!Sends(text, to), UNCHANGED Talk!Direction,
             to = Promised \/ chat_send_to \in reseated
      PROVE  ChatInv' /\ Talk!SentAsShown'
  <2>1. Talk!SentAsShown'
    BY <1>1 DEF Talk!Sends, Talk!SentAsShown, Talk!Direction
  <2>2. ChatInv'
    BY <1>1 DEF ChatInv, Talk!Direction, Callers
  <2>. QED
    BY <2>1, <2>2
<1>2. CASE Talk!Directed(text) /\ chat_send_to = me
  <2>1. Talk!Sends(text, "allies") /\ UNCHANGED Talk!Direction
    BY <1>2 DEF Talk!CheckTextInput
  <2>2. "allies" = Promised
    BY <1>2 DEF ChatInv, Talk!Directed
  <2>. QED
    BY <1>1, <2>1, <2>2
<1>3. CASE Talk!Directed(text) /\ chat_send_to # me /\ players[chat_send_to] = NoOne
  <2>1. sent' = NoOne /\ Talk!SetChatDirection(Everybody)
    BY <1>3 DEF Talk!CheckTextInput
  <2>. QED
    BY <2>1, Turned DEF Talk!SentAsShown
<1>4. CASE Talk!Directed(text) /\ chat_send_to # me /\ players[chat_send_to] # NoOne
  <2>1. Talk!Sends(text, players[chat_send_to]) /\ UNCHANGED Talk!Direction
    BY <1>4 DEF Talk!CheckTextInput
  <2>2. players[chat_send_to] = Promised \/ chat_send_to \in reseated
    BY <1>4 DEF ChatInv, Talk!Directed
  <2>. QED
    BY <1>1, <2>1, <2>2
<1>5. CASE ~Talk!Directed(text)
  <2>1. Talk!Sends(text, IF text.prefixed THEN "as_typed" ELSE "everybody")
          /\ UNCHANGED Talk!Direction
    BY <1>5 DEF Talk!CheckTextInput
  <2>2. (IF text.prefixed THEN "as_typed" ELSE "everybody") = Promised
    BY <1>5 DEF ChatInv, Talk!Directed
  <2>. QED
    BY <1>1, <2>1, <2>2
<1>. QED
  BY <1>2, <1>3, <1>4, <1>5

LEMMA ChatStep == ChatParams /\ ChatInv /\ Talk!SentAsShown /\ [Talk!Next]_Talk!vars => ChatInv'
                    /\ Talk!SentAsShown'
<1>. SUFFICES ASSUME ChatParams, ChatInv, Talk!SentAsShown, [Talk!Next]_Talk!vars
              PROVE  ChatInv' /\ Talk!SentAsShown'
  OBVIOUS
<1>1. CASE UNCHANGED Talk!vars
  BY <1>1 DEF Talk!vars, ChatInv, Talk!SentAsShown, Callers
<1>2. ASSUME NEW s \in Seats, Talk!Allies(s)
      PROVE  ChatInv' /\ Talk!SentAsShown'
  BY <1>2 DEF Talk!Allies, ChatInv, Talk!SentAsShown, Callers
<1>3. ASSUME NEW s \in Seats, Talk!Leaves(s)
      PROVE  ChatInv' /\ Talk!SentAsShown'
  BY <1>3 DEF Talk!Leaves, ChatInv, Talk!SentAsShown, Callers
<1>4. ASSUME NEW s \in Seats, NEW name \in Names, Talk!Comes(s, name)
      PROVE  ChatInv' /\ Talk!SentAsShown'
  BY <1>4 DEF Talk!Comes, ChatInv, Talk!SentAsShown, Callers
<1>5. CASE Talk!ChatContextChange
  <2>1. CASE Talk!SetChatDirection(Talk!NextOf(Talk!Recipients)) /\ UNCHANGED choices
    BY <1>5, <2>1, Turned DEF Talk!ChatContextChange, Talk!SentAsShown
  <2>2. CASE UNCHANGED Talk!Direction
    BY <1>5, <2>2 DEF Talk!ChatContextChange, Talk!Direction, ChatInv, Talk!SentAsShown, Callers
  <2>. QED
    BY <1>5, <2>1, <2>2 DEF Talk!ChatContextChange
<1>6. ASSUME NEW id \in choices, Talk!ChatDirectionChosen(id)
      PROVE  ChatInv' /\ Talk!SentAsShown'
  BY <1>6, Turned DEF Talk!ChatDirectionChosen, Talk!SentAsShown
<1>. QED
  BY <1>1, <1>2, <1>3, <1>4, <1>5, <1>6, Texted DEF Talk!Next

LEMMA ChatStart == ChatParams /\ Talk!Init => ChatInv /\ Talk!SentAsShown
<1>. SUFFICES ASSUME ChatParams, Talk!Init
              PROVE  ChatInv /\ Talk!SentAsShown
  OBVIOUS
<1>1. \A s \in Seats : players[s] \in Callers
  BY DEF Talk!Init, ChatParams, Callers, Talk!Range
<1>. QED
  BY <1>1 DEF Talk!Init, ChatParams, ChatInv, Talk!SentAsShown

LEMMA ChatHolds == ChatParams /\ ChatInv /\ Talk!SentAsShown => Talk!ChatSound
<1>. SUFFICES ASSUME ChatParams, ChatInv
              PROVE  Talk!LineAgrees
  BY DEF Talk!ChatSound
<1>1. CASE chat_send_to \in {Unset, Everybody}
  BY <1>1 DEF ChatInv, ChatParams, Talk!LineAgrees
<1>2. CASE chat_send_to = me
  BY <1>2 DEF ChatInv, ChatParams, Talk!LineAgrees
<1>3. CASE chat_send_to \notin {Unset, Everybody, me}
  BY <1>3 DEF ChatInv, Talk!LineAgrees, Callers
<1>. QED
  BY <1>1, <1>2, <1>3

\* A message goes to whom the line shows, or to who has taken the seat since,
\* and the line shows whom it writes to (check_text_input, set_chat_direction).
THEOREM ChatIsSound == ASSUME ChatParams PROVE Talk!Spec => []Talk!ChatSound
<1>1. Talk!Spec => [](ChatInv /\ Talk!SentAsShown)
  BY ChatStart, ChatStep, PTL DEF Talk!Spec
<1>. QED
  BY <1>1, ChatHolds, PTL

-----------------------------------------------------------------------------
(* The choice of a nation.                                                 *)

CONSTANTS Faces, Rooms, Tables, Custom, MaxChanges, None
VARIABLES longturn, nations, late, queued, list, start, chosen, choosing, box, marked,
          custom, reading, begun, mixed, changes

Room == INSTANCE NationChoice

\* What is needed of the parameters: the players when the run begins are players,
\* and None is none.
RoomParams ==
  /\ \A room \in Rooms : DOMAIN room \subseteq Players
  /\ None \notin Players /\ MaxTimers \in Nat

\* While nobody went, the dialogs are open for players who are there, and what
\* the dialog calls chosen is.
OpenFor ==
  ~mixed =>
    /\ dialog # None => dialog \in DOMAIN players /\ choosing = dialog
    /\ dialog # None => marked = chosen \/ (marked = None /\ chosen \notin DOMAIN nations)
    /\ custom # None => custom \in DOMAIN players
    /\ reading # None => reading \in DOMAIN players

RoomInv == Room!TypeOK /\ Room!ListFresh /\ Room!PlaysWhatIsShown /\ OpenFor

\* A nation that is selected is the one that is marked.
LEMMA Selected ==
  ASSUME NEW n, Room!SelectNation(n)
  PROVE  (chosen' = n /\ marked' = n /\ n \in DOMAIN nations) \/ UNCHANGED <<chosen, marked>>
BY DEF Room!SelectNation

LEMMA Updated ==
  ASSUME Room!UpdateNationSelection
  PROVE  (chosen' = marked' /\ chosen' \in DOMAIN nations) \/ UNCHANGED <<chosen, marked>>
<1>. PICK s : s = CHOOSE n \in {m \in DOMAIN nations : nations[m] = box} :
                      \A m \in {k \in DOMAIN nations : nations[k] = box} : n <= m
  OBVIOUS
<1>1. UNCHANGED <<chosen, marked, box>> \/ Room!SelectNation(s)
  BY DEF Room!UpdateNationSelection
<1>. QED
  BY <1>1, Selected

\* The dialog comes up for a player who is there, or not at all.
LEMMA Picked ==
  ASSUME RoomParams, RoomInv, NEW p, Room!PickNation(p),
         UNCHANGED <<Room!mirror, Room!listVars, Room!sentVars>>,
         reading' \in {reading, None}, custom' = None,
         dialog # None => mixed \/ p \in DOMAIN players
  PROVE  RoomInv'
<1>1. CASE p \notin DOMAIN players
  BY <1>1 DEF Room!PickNation, RoomInv, Room!TypeOK, Room!ListFresh, Room!PlaysWhatIsShown, OpenFor, Room!mirror, Room!listVars, Room!sentVars
<1>2. CASE p \in DOMAIN players
  <2>1. /\ choosing' = p /\ dialog' = p /\ timers < MaxTimers /\ timers' = timers + 1
        /\ mixed' = (mixed /\ reading # None)
        /\ IF chosen \in DOMAIN nations THEN Room!SelectNation(chosen)
           ELSE UNCHANGED chosen /\ marked' = None /\ box' = None
    BY <1>2 DEF Room!PickNation
  <2>2. marked' = chosen' \/ (marked' = None /\ chosen' \notin DOMAIN nations)
    BY <2>1 DEF Room!SelectNation
  <2>3. Room!TypeOK'
    BY <1>2, <2>1 DEF RoomInv, Room!TypeOK, RoomParams, Room!mirror, Room!listVars
  <2>4. Room!ListFresh' /\ Room!PlaysWhatIsShown'
    BY DEF RoomInv, Room!ListFresh, Room!PlaysWhatIsShown, Room!mirror, Room!listVars, Room!sentVars
  <2>5. OpenFor'
    BY <1>2, <2>1, <2>2 DEF RoomInv, OpenFor, Room!mirror
  <2>. QED
    BY <2>3, <2>4, <2>5 DEF RoomInv
<1>. QED
  BY <1>1, <1>2

LEMMA RoomServed ==
  ASSUME RoomParams, RoomInv, Room!Server
  PROVE  RoomInv'
<1>. USE DEF RoomInv
<1>. USE DEF Room!choice, Room!customVars, Room!sentVars, Room!listVars
<1>1. ASSUME NEW p \in Players, NEW r \in Faces, Room!PlayerInfo(p, r)
      PROVE  RoomInv'
  <2>1. /\ players' = [q \in DOMAIN players \cup {p} |-> IF q = p THEN r ELSE players[q]]
             /\ late' = p
        /\ UNCHANGED <<longturn, state, me, nations, Room!listVars, Room!choice, Room!customVars, Room!sentVars, mixed>>
    BY <1>1 DEF Room!PlayerInfo
  <2>2. DOMAIN players' = DOMAIN players \cup {p} /\ late' # None
    BY <2>1 DEF RoomParams
  <2>3. Room!TypeOK'
    BY <2>1, <2>2 DEF Room!TypeOK
  <2>4. OpenFor'
    BY <2>1, <2>2 DEF OpenFor
  <2>5. Room!ListFresh' /\ Room!PlaysWhatIsShown'
    BY <2>1, <2>2 DEF Room!ListFresh, Room!PlaysWhatIsShown
  <2>. QED
    BY <2>3, <2>4, <2>5
<1>2. CASE Room!PlayerAddition
  BY <1>2 DEF Room!PlayerAddition, Room!TypeOK, Room!ListFresh, Room!PlaysWhatIsShown, OpenFor
<1>3. ASSUME NEW p \in Players, Room!PlayerRemove(p)
      PROVE  RoomInv'
  <2>1. /\ players' = [q \in DOMAIN players \ {p} |-> players[q]]
        /\ queued' = TRUE /\ mixed' = (mixed \/ Room!Under)
        /\ UNCHANGED <<longturn, state, me, nations, late, list, start, Room!choice, Room!customVars, Room!sentVars>>
    BY <1>3 DEF Room!PlayerRemove
  <2>2. DOMAIN players' \subseteq DOMAIN players
    BY <2>1
  <2>3. Room!TypeOK'
    BY <2>1, <2>2 DEF Room!TypeOK
  <2>4. OpenFor'
    BY <2>1 DEF OpenFor, Room!Under
  <2>5. Room!ListFresh' /\ Room!PlaysWhatIsShown'
    BY <2>1 DEF Room!ListFresh, Room!PlaysWhatIsShown
  <2>. QED
    BY <2>3, <2>4, <2>5
<1>4. CASE Room!ConnInfo
  BY <1>4 DEF Room!ConnInfo, Room!TypeOK, Room!ListFresh, Room!PlaysWhatIsShown, OpenFor
<1>5. CASE Room!RulesetControl
  BY <1>5 DEF Room!RulesetControl, Room!TypeOK, Room!ListFresh, Room!PlaysWhatIsShown, OpenFor, Room!Under
<1>6. CASE Room!RulesetNations
  BY <1>6 DEF Room!RulesetNations, Room!TypeOK, Room!ListFresh, Room!PlaysWhatIsShown, OpenFor, Room!Under
<1>7. CASE Room!GameStarts
  BY <1>7 DEF Room!GameStarts, Room!TypeOK, Room!ListFresh, Room!PlaysWhatIsShown, OpenFor
<1>. QED
  BY <1>1, <1>2, <1>3, <1>4, <1>5, <1>6, <1>7 DEF Room!Server

\* The dialog's rows, its box and its timer.
LEMMA NationsShown ==
  ASSUME RoomParams, RoomInv,
         \/ (\E n \in rows : Room!ClickNation(n)) \/ (\E name : Room!TypeName(name))
         \/ Room!BoxCloses \/ Room!BoxTimer \/ Room!CloseNations
  PROVE  RoomInv'
<1>1. /\ UNCHANGED <<Room!mirror, Room!listVars, choosing, Room!customVars, Room!sentVars, mixed>>
      /\ dialog' \in {dialog, None} /\ (timers' = timers \/ (timers > 0 /\ timers' = timers - 1))
      /\ (chosen' = marked' /\ chosen' \in DOMAIN nations) \/ UNCHANGED <<chosen, marked>>
  BY Selected, Updated DEF Room!ClickNation, Room!TypeName, Room!BoxCloses, Room!BoxTimer, Room!CloseNations
<1>2. Room!TypeOK'
  BY <1>1 DEF RoomInv, Room!TypeOK, Room!mirror, Room!listVars, RoomParams
<1>3. Room!ListFresh' /\ Room!PlaysWhatIsShown'
  BY <1>1 DEF RoomInv, Room!ListFresh, Room!PlaysWhatIsShown, Room!mirror, Room!listVars, Room!sentVars
<1>4. OpenFor'
  BY <1>1 DEF RoomInv, OpenFor, Room!mirror, Room!customVars
<1>. QED
  BY <1>2, <1>3, <1>4 DEF RoomInv

\* A nation is asked for, or the game is started.
LEMMA NationAsked ==
  ASSUME RoomParams, RoomInv, Room!Play \/ Room!ClickStart \/ Room!DrawList
  PROVE  RoomInv'
<1>. USE DEF RoomInv, Room!mirror, Room!listVars, Room!customVars, Room!sentVars
<1>1. CASE Room!Play
  <2>1. /\ dialog # None /\ dialog' = None
        /\ UNCHANGED <<longturn, Room!mirror, Room!listVars, chosen, choosing, rows, box, marked, Room!customVars, mixed, changes>>
        /\ \/ UNCHANGED <<asked, timers>>
           \/ /\ asked' = [marked |-> marked, mixed |-> mixed, title |-> dialog, player |-> choosing,
                           nation |-> chosen]
              /\ chosen # None /\ chosen \in DOMAIN nations
              /\ timers' \in {timers} \cup (IF timers > 0 THEN {timers - 1} ELSE {})
    BY <1>1 DEF Room!Play
  <2>2. timers' = timers \/ (timers > 0 /\ timers' = timers - 1)
    BY <2>1
  <2>3. Room!TypeOK'
    BY <2>1, <2>2 DEF Room!TypeOK, RoomParams
  <2>4. Room!ListFresh' /\ OpenFor'
    BY <2>1 DEF Room!ListFresh, OpenFor
  <2>5. Room!PlaysWhatIsShown'
    BY <2>1 DEF OpenFor, Room!PlaysWhatIsShown
  <2>. QED
    BY <2>3, <2>4, <2>5
<1>2. CASE Room!ClickStart
  BY <1>2 DEF Room!ClickStart, Room!choice, Room!TypeOK, Room!ListFresh, Room!PlaysWhatIsShown, OpenFor
<1>3. CASE Room!DrawList
  BY <1>3 DEF Room!DrawList, Room!choice, Room!TypeOK, Room!ListFresh, Room!PlaysWhatIsShown, OpenFor
<1>. QED
  BY <1>1, <1>2, <1>3

\* A nation of one's own, and its picture.
LEMMA NationCustomized ==
  ASSUME RoomParams, RoomInv,
         Room!Customize \/ Room!CancelCustom \/ Room!CloseCustom \/ Room!OkCustom
           \/ Room!PictureLoads \/ Room!PictureFails
  PROVE  RoomInv'
<1>1. CASE Room!Customize
  BY <1>1 DEF Room!Customize, RoomInv, Room!TypeOK, Room!ListFresh, Room!PlaysWhatIsShown, OpenFor, Room!mirror, Room!listVars,
              Room!choice, Room!sentVars
<1>2. CASE Room!CancelCustom
  BY <1>2, Picked DEF Room!CancelCustom, RoomInv, OpenFor
<1>3. CASE Room!CloseCustom \/ Room!PictureFails
  BY <1>3 DEF Room!CloseCustom, Room!PictureFails, RoomInv, Room!TypeOK, Room!ListFresh, Room!PlaysWhatIsShown, OpenFor,
              Room!mirror, Room!listVars, Room!choice, Room!sentVars
<1>4. CASE Room!OkCustom
  <2>1. /\ DOMAIN nations' = DOMAIN nations /\ reading' \in {reading, custom}
        /\ UNCHANGED <<longturn, state, me, players, late, Room!listVars, Room!choice, custom, Room!sentVars, mixed>>
    BY <1>4 DEF Room!OkCustom, Room!Renamed
  <2>. QED
    BY <2>1 DEF RoomInv, Room!TypeOK, Room!ListFresh, Room!PlaysWhatIsShown, OpenFor, Room!listVars, Room!choice, Room!sentVars
<1>5. CASE Room!PictureLoads
  BY <1>5, Picked DEF Room!PictureLoads, RoomInv, OpenFor
<1>. QED
  BY <1>1, <1>2, <1>3, <1>4, <1>5

LEMMA RoomStep == RoomParams /\ RoomInv /\ [Room!Next]_Room!vars => RoomInv'
<1>. SUFFICES ASSUME RoomParams, RoomInv, [Room!Next]_Room!vars
              PROVE  RoomInv'
  OBVIOUS
<1>1. CASE UNCHANGED Room!vars
  BY <1>1 DEF Room!vars, RoomInv, Room!TypeOK, Room!ListFresh, Room!PlaysWhatIsShown, OpenFor
<1>2. ASSUME NEW p, Room!Pick(p)
      PROVE  RoomInv'
  <2>1. dialog = None /\ custom = None /\ Room!PickNation(p)
        /\ UNCHANGED <<longturn, Room!mirror, Room!listVars, Room!customVars, Room!sentVars, changes>>
    BY <1>2 DEF Room!Pick, Room!Free
  <2>2. reading' \in {reading, None} /\ custom' = None
    BY <2>1 DEF Room!customVars
  <2>. QED
    BY <2>1, <2>2, Picked
<1>3. CASE \/ (\E n \in rows : Room!ClickNation(n)) \/ (\E name : Room!TypeName(name))
           \/ Room!BoxCloses \/ Room!BoxTimer \/ Room!CloseNations
  BY <1>3, NationsShown
<1>. QED
  BY <1>1, <1>2, <1>3, RoomServed, NationAsked, NationCustomized DEF Room!Next

LEMMA RoomStart == RoomParams /\ Room!Init => RoomInv
BY DEF Room!Init, RoomParams, RoomInv, Room!TypeOK, Room!ListFresh, Room!PlaysWhatIsShown, OpenFor

\* The list of the waiting room is the players or about to be drawn, what is asked
\* for is what the dialog shows for the player it is open for, unless one of them
\* went, and an open dialog tells what will be asked (pick_nation,
\* submit_nation_choice, update_player_info_pregame_real).
THEOREM NationIsChosen == ASSUME RoomParams PROVE Room!Spec => []Room!NationChosen
<1>1. Room!Spec => []RoomInv
  BY RoomStart, RoomStep, PTL DEF Room!Spec
<1>2. RoomInv => Room!NationChosen
  BY DEF RoomInv, OpenFor, Room!NationChosen, Room!DialogTells
<1>. QED
  BY <1>1, <1>2, PTL

-----------------------------------------------------------------------------
(* The settings of a game.                                                 *)

CONSTANTS Source, Values, Barred, Illegal, Games, RulesetOwn, Offered, MaxEdits
VARIABLES title, ruleset, control, open, field, heading, question, locked, prefs, boxes,
          playing, touched, moved, edits

Pregame == INSTANCE GameSettings

\* What is needed of the parameters: settings have values, and a ruleset brings
\* settings.
SettingsParams ==
  /\ "ruleset" \notin Pregame!Settings /\ "nationset" \notin Pregame!Settings
  /\ MaxNet \in Nat
  /\ DOMAIN First = Pregame!Settings /\ \A g \in Games : DOMAIN g = Pregame!Settings
  /\ \A dir \in DOMAIN RulesetOwn : DOMAIN RulesetOwn[dir] \subseteq Pregame!Settings

IsPacket(p) == DOMAIN p \subseteq Pregame!Settings \cup {"ruleset"}
IsCommand(c) == c.do = "rulesetdir" => c.what = "ruleset" /\ c.to \in DOMAIN RulesetOwn

SettingsTypes ==
  /\ IsSeq(net) /\ Len(net) <= MaxNet /\ \A i \in DOMAIN net : IsPacket(net[i])
  /\ IsSeq(out) /\ Len(out) <= MaxNet /\ \A i \in DOMAIN out : IsCommand(out[i])
  /\ DOMAIN server = Pregame!Settings /\ DOMAIN known = Pregame!Settings
       /\ DOMAIN field = Pregame!Settings
  /\ touched \subseteq Pregame!Settings /\ question \in BOOLEAN
  /\ prefs \in [Pregame!Prefs -> BOOLEAN]
  /\ playing => ~open

\* A command that sets a setting.
Sets(c, s) == c.do = "set" /\ c.what = s

\* A field that nobody else changed: what is sent last for it is what it shows,
\* and when nothing is sent it shows what the server has.
FieldTold(s) ==
  \/ s \in touched /\ field[s] \in Barred[s]
  \/ \E i \in DOMAIN out : /\ Sets(out[i], s) /\ out[i].to = field[s] /\ s \in touched
                           /\ \A j \in DOMAIN out : j > i => ~Sets(out[j], s)
  \/ /\ \A i \in DOMAIN out : ~Sets(out[i], s)
     /\ field[s] = server[s] \/ (s \in touched /\ field[s] \in Illegal[s])

FieldsTold == open => \A s \in Pregame!Settings \ moved : FieldTold(s)

RulesetShown ==
  open /\ "ruleset" \notin moved /\ (\A i \in DOMAIN out : out[i].do # "rulesetdir")
    /\ ruleset \in Offered
    => shown = ruleset

SettingsInv == SettingsTypes /\ FieldsTold /\ RulesetShown /\ Pregame!PrivateTold
                 /\ Pregame!BoxesAgree

-----------------------------------------------------------------------------
\* Two sequences on end.
LEMMA Joined ==
  ASSUME NEW s, IsSeq(s), NEW t, IsSeq(t), NEW u, u = s \o t
  PROVE  /\ IsSeq(u) /\ Len(u) = Len(s) + Len(t)
         /\ \A i \in DOMAIN s : i \in DOMAIN u /\ u[i] = s[i]
         /\ \A i \in DOMAIN u : i \notin DOMAIN s => i - Len(s) \in DOMAIN t /\ u[i] = t[i - Len(s)]
<1> DEFINE S == {s[i] : i \in DOMAIN s} \cup {t[i] : i \in DOMAIN t}
<1>1. s \in Seq({s[i] : i \in DOMAIN s}) /\ t \in Seq({t[i] : i \in DOMAIN t})
  BY DEF IsSeq
<1>2. s \in Seq(S) /\ t \in Seq(S)
  BY <1>1, SeqDef
<1>3. /\ u \in Seq(S) /\ Len(u) = Len(s) + Len(t)
      /\ \A i \in 1 .. Len(s) + Len(t) : u[i] = IF i <= Len(s) THEN s[i] ELSE t[i - Len(s)]
  <2> HIDE DEF S
  <2>. QED
    BY <1>2, ConcatProperties
<1>4. IsSeq(u)
  <2> HIDE DEF S
  <2>. QED
    BY <1>3, SequenceIs
<1>5. Len(s) \in Nat /\ Len(t) \in Nat /\ DOMAIN s = 1..Len(s) /\ DOMAIN t = 1..Len(t)
        /\ DOMAIN u = 1..Len(u)
  BY <1>4, SequenceHas
<1>6. \A i \in DOMAIN s : i \in DOMAIN u /\ u[i] = s[i]
  BY <1>3, <1>5
<1>7. ASSUME NEW i \in DOMAIN u, i \notin DOMAIN s
      PROVE  i - Len(s) \in DOMAIN t /\ u[i] = t[i - Len(s)]
  BY <1>3, <1>5, <1>7
<1>. QED
  BY <1>3, <1>4, <1>6, <1>7

LEMMA OneIs ==
  ASSUME NEW x
  PROVE  IsSeq(<<x>>) /\ Len(<<x>>) = 1 /\ DOMAIN <<x>> = {1} /\ <<x>>[1] = x
BY DEF IsSeq

LEMMA PairOf ==
  ASSUME NEW x, NEW y
  PROVE  IsSeq(<<x, y>>) /\ Len(<<x, y>>) = 2 /\ DOMAIN <<x, y>> = {1, 2} /\ <<x, y>>[1] = x
           /\ <<x, y>>[2] = y
BY DEF IsSeq

\* Packets about settings, one or none.
LEMMA AnnouncedIs ==
  ASSUME NEW s \in Pregame!Settings, NEW now
  PROVE  /\ IsSeq(Pregame!Announced(s, now)) /\ Len(Pregame!Announced(s, now)) \in 0..1
         /\ \A i \in DOMAIN Pregame!Announced(s, now) : IsPacket(Pregame!Announced(s, now)[i])
<1>1. \A d \in SUBSET Pregame!Settings : IsPacket([i \in d |-> now[i]])
  BY DEF IsPacket
<1>2. Pregame!Read("info") \subseteq Pregame!Settings
  BY DEF Pregame!Read
<1>3. CASE Source[s] = "info"
  BY <1>1, <1>2, <1>3, OneIs DEF Pregame!Announced
<1>4. CASE Source[s] = "setting"
  BY <1>1, <1>4, OneIs DEF Pregame!Announced
<1>5. CASE Source[s] \notin {"info", "setting"}
  BY <1>5, EmptyIs DEF Pregame!Announced
<1>. QED
  BY <1>3, <1>4, <1>5

\* A value that is set is announced, or nobody knows the setting yet.
LEMMA Changed ==
  ASSUME SettingsParams, SettingsInv, NEW s \in Pregame!Settings, NEW v, Pregame!Change(s, v)
  PROVE  /\ server' = [server EXCEPT ![s] = v] /\ DOMAIN server' = Pregame!Settings
         /\ IsSeq(net') /\ Len(net') <= MaxNet /\ \A i \in DOMAIN net' : IsPacket(net'[i])
<1>1. /\ IsSeq(net) /\ Len(net) <= MaxNet /\ (\A i \in DOMAIN net : IsPacket(net[i]))
           /\ DOMAIN server = Pregame!Settings
      /\ Len(net) \in Nat /\ MaxNet \in Nat
  BY SequenceHas DEF SettingsInv, SettingsTypes, SettingsParams
<1>2. server' = [server EXCEPT ![s] = v] /\ DOMAIN server' = Pregame!Settings
  BY <1>1 DEF Pregame!Change
<1>3. CASE net' = net
  BY <1>1, <1>2, <1>3
<1>. PICK a : a = Pregame!Announced(s, server')
  OBVIOUS
<1>4. CASE Len(net) < MaxNet /\ net' = net \o a
  <2>1. IsSeq(a) /\ Len(a) \in 0..1 /\ \A i \in DOMAIN a : IsPacket(a[i])
    BY AnnouncedIs
  <2>2. /\ IsSeq(net') /\ Len(net') = Len(net) + Len(a)
        /\ \A i \in DOMAIN net : i \in DOMAIN net' /\ net'[i] = net[i]
        /\ \A i \in DOMAIN net' : i \notin DOMAIN net => i - Len(net) \in DOMAIN a
             /\ net'[i] = a[i - Len(net)]
    <3>1. IsSeq(net') /\ Len(net') = Len(net) + Len(a)
      BY <1>1, <1>4, <2>1, Joined
    <3>2. \A i \in DOMAIN net : i \in DOMAIN net' /\ net'[i] = net[i]
      BY <1>1, <1>4, <2>1, Joined
    <3>3. \A i \in DOMAIN net' : i \notin DOMAIN net => i - Len(net) \in DOMAIN a
            /\ net'[i] = a[i - Len(net)]
      BY <1>1, <1>4, <2>1, Joined
    <3>. QED
      BY <3>1, <3>2, <3>3
  <2>3. Len(net') <= MaxNet
    BY <1>1, <1>4, <2>1, <2>2
  <2>4. \A i \in DOMAIN net' : IsPacket(net'[i])
    BY <1>1, <2>1, <2>2
  <2>. QED
    BY <1>2, <2>2, <2>3, <2>4
<1>. QED
  BY <1>3, <1>4 DEF Pregame!Change

LEMMA Loaded ==
  ASSUME SettingsParams, SettingsInv, NEW dir \in DOMAIN RulesetOwn, Pregame!Load(dir)
  PROVE  /\ DOMAIN server' = Pregame!Settings
              /\ \A s \in Pregame!Settings \ moved' : server'[s] = server[s]
         /\ moved \subseteq moved' /\ "ruleset" \in moved'
         /\ IsSeq(net') /\ Len(net') <= MaxNet /\ \A i \in DOMAIN net' : IsPacket(net'[i])
<1>1. /\ IsSeq(net) /\ Len(net) <= MaxNet /\ (\A i \in DOMAIN net : IsPacket(net[i]))
           /\ DOMAIN server = Pregame!Settings
      /\ Len(net) \in Nat /\ MaxNet \in Nat
  BY SequenceHas DEF SettingsInv, SettingsTypes, SettingsParams
<1>. PICK brought : brought = RulesetOwn[dir]
  OBVIOUS
<1>. DEFINE heard == {s \in DOMAIN brought : Pregame!Reaches(s)}
<1>. PICK p : p = [r \in {"ruleset"} |-> dir]
  OBVIOUS
<1>. PICK t : t = IF heard = {} THEN << >> ELSE << [s \in heard |-> brought[s]] >>
  OBVIOUS
<1>. PICK m : m = Append(net, p)
  OBVIOUS
<1>2. DOMAIN brought \subseteq Pregame!Settings
  BY DEF SettingsParams
<1>3. /\ server' = Pregame!Completed(server, brought) /\ Len(net) + 2 <= MaxNet /\ net' = m \o t
      /\ moved' = moved \cup DOMAIN brought \cup {"ruleset"}
  BY DEF Pregame!Load
<1>4. DOMAIN server' = Pregame!Settings
        /\ \A s \in Pregame!Settings \ moved' : server'[s] = server[s]
  BY <1>1, <1>2, <1>3 DEF Pregame!Completed
<1>5. IsSeq(m) /\ Len(m) = Len(net) + 1 /\ \A i \in DOMAIN m : IsPacket(m[i])
  <2>1. IsPacket(p)
    BY DEF IsPacket
  <2>2. IsSeq(m) /\ Len(m) = Len(net) + 1 /\ m[Len(net) + 1] = p
    BY <1>1, Appended
  <2>3. DOMAIN m = DOMAIN net \cup {Len(net) + 1} /\ \A i \in DOMAIN net : m[i] = net[i]
    BY <1>1, Appended
  <2>. QED
    BY <1>1, <2>1, <2>2, <2>3
<1>6. IsSeq(t) /\ Len(t) \in 0..1 /\ \A i \in DOMAIN t : IsPacket(t[i])
  <2>1. IsPacket([s \in heard |-> brought[s]])
    BY <1>2 DEF IsPacket
  <2>. QED
    BY <2>1, OneIs, EmptyIs
<1>7. IsSeq(net') /\ Len(net') = Len(m) + Len(t)
  BY <1>3, <1>5, <1>6, Joined
<1>8. \A i \in DOMAIN m : i \in DOMAIN net' /\ net'[i] = m[i]
  BY <1>3, <1>5, <1>6, Joined
<1>9. \A i \in DOMAIN net' : i \notin DOMAIN m => i - Len(m) \in DOMAIN t /\ net'[i] = t[i - Len(m)]
  BY <1>3, <1>5, <1>6, Joined
<1>10. \A i \in DOMAIN net' : IsPacket(net'[i])
  BY <1>5, <1>6, <1>8, <1>9
<1>11. Len(net') <= MaxNet
  BY <1>1, <1>3, <1>5, <1>6, <1>7
<1>. QED
  BY <1>3, <1>4, <1>7, <1>10, <1>11

-----------------------------------------------------------------------------
\* More commands on their way: what is said is not a setting's value.
Longer(o, n) ==
  /\ IsSeq(n) /\ Len(n) <= MaxNet
  /\ \A i \in DOMAIN o : i \in DOMAIN n /\ n[i] = o[i]
  /\ \A i \in DOMAIN n : i \in DOMAIN o
       \/ (i > Len(o) /\ IsCommand(n[i]) /\ \A s \in Pregame!Settings : ~Sets(n[i], s))

LEMMA SameLonger ==
  ASSUME SettingsInv
  PROVE  Longer(out, out)
BY DEF SettingsInv, SettingsTypes, Longer

LEMMA SaidIs ==
  ASSUME SettingsInv, NEW c, Pregame!Says(c)
  PROVE  IsSeq(out') /\ Len(out') = Len(out) + 1 /\ out'[Len(out) + 1] = c
<1>1. out' = Append(out, c) /\ IsSeq(out)
  BY DEF Pregame!Says, SettingsInv, SettingsTypes
<1>. QED
  BY <1>1, Appended

LEMMA SaidLonger ==
  ASSUME SettingsParams, SettingsInv, NEW c, IsCommand(c), Pregame!Says(c),
         \A s \in Pregame!Settings : ~Sets(c, s)
  PROVE  Longer(out, out')
<1>1. Len(out) < MaxNet /\ out' = Append(out, c) /\ IsSeq(out)
  BY DEF Pregame!Says, SettingsInv, SettingsTypes
<1>2. IsSeq(out') /\ Len(out') = Len(out) + 1 /\ out'[Len(out) + 1] = c
  BY SaidIs
<1>3. DOMAIN out' = DOMAIN out \cup {Len(out) + 1} /\ \A i \in DOMAIN out : out'[i] = out[i]
  BY <1>1, Appended
<1>4. Len(out) \in Nat /\ MaxNet \in Nat
  BY <1>1, SequenceHas DEF SettingsParams
<1>5. Len(out') <= MaxNet
  BY <1>1, <1>2, <1>4
<1>. QED
  BY <1>2, <1>3, <1>4, <1>5 DEF Longer

LEMMA PairLonger ==
  ASSUME SettingsParams, SettingsInv, NEW c, NEW d, IsCommand(c), IsCommand(d),
         Len(out) + 2 <= MaxNet,
         out' = out \o <<c, d>>, \A s \in Pregame!Settings : ~Sets(c, s) /\ ~Sets(d, s)
  PROVE  /\ Longer(out, out') /\ Len(out') = Len(out) + 2
         /\ Len(out) + 1 \in DOMAIN out' /\ Len(out) + 2 \in DOMAIN out'
         /\ out'[Len(out) + 1] = c /\ out'[Len(out) + 2] = d
<1>1. IsSeq(out) /\ Len(out) \in Nat
  BY SequenceHas DEF SettingsInv, SettingsTypes
<1>. PICK t : t = <<c, d>>
  OBVIOUS
<1>2. IsSeq(t) /\ Len(t) = 2 /\ DOMAIN t = {1, 2} /\ t[1] = c /\ t[2] = d
  BY PairOf
<1>3. /\ IsSeq(out') /\ Len(out') = Len(out) + Len(t)
      /\ \A i \in DOMAIN out : i \in DOMAIN out' /\ out'[i] = out[i]
      /\ \A i \in DOMAIN out' : i \notin DOMAIN out => i - Len(out) \in DOMAIN t
           /\ out'[i] = t[i - Len(out)]
  <2>1. IsSeq(out') /\ Len(out') = Len(out) + Len(t)
    BY <1>1, <1>2, Joined, ZenonT(40)
  <2>2. \A i \in DOMAIN out : i \in DOMAIN out' /\ out'[i] = out[i]
    BY <1>1, <1>2, Joined
  <2>3. \A i \in DOMAIN out' : i \notin DOMAIN out => i - Len(out) \in DOMAIN t
          /\ out'[i] = t[i - Len(out)]
    BY <1>1, <1>2, Joined
  <2>. QED
    BY <2>1, <2>2, <2>3
<1>4. DOMAIN out' = 1..Len(out') /\ DOMAIN out = 1..Len(out)
  BY <1>1, <1>3, SequenceHas
<1>5. Longer(out, out')
  BY <1>1, <1>2, <1>3 DEF Longer
<1>6. /\ Len(out) + 1 \in DOMAIN out' /\ Len(out) + 2 \in DOMAIN out'
      /\ out'[Len(out) + 1] = c /\ out'[Len(out) + 2] = d
  BY <1>1, <1>2, <1>3, <1>4
<1>. QED
  BY <1>2, <1>3, <1>5, <1>6

\* What leaves the fields alone.
LEMMA FieldsKept ==
  ASSUME SettingsParams, SettingsInv, Longer(out, out'), open' => open,
         UNCHANGED <<field, touched>>,
         moved \subseteq moved', \A s \in Pregame!Settings \ moved' : server'[s] = server[s]
  PROVE  FieldsTold'
<1>. SUFFICES ASSUME open', NEW s \in Pregame!Settings \ moved'
              PROVE  FieldTold(s)'
  BY DEF FieldsTold
<1>1. FieldTold(s)
  BY DEF SettingsInv, FieldsTold
<1>2. \A i \in DOMAIN out' : Sets(out'[i], s) => i \in DOMAIN out /\ Sets(out[i], s)
        /\ out'[i] = out[i]
  BY DEF Longer
<1>3. \A i \in DOMAIN out : i \in DOMAIN out' /\ out'[i] = out[i]
  BY DEF Longer
<1>. QED
  BY <1>1, <1>2, <1>3 DEF FieldTold

LEMMA TypesKept ==
  ASSUME SettingsInv, Longer(out, out')
  PROVE  IsSeq(out') /\ Len(out') <= MaxNet /\ \A i \in DOMAIN out' : IsCommand(out'[i])
BY DEF SettingsInv, SettingsTypes, Longer

\* What leaves the commands and the lines alone.
LEMMA LinesKept ==
  ASSUME SettingsInv, UNCHANGED <<out, title>>, open' => open, locked' => locked
  PROVE  Pregame!PrivateTold'
BY DEF SettingsInv, Pregame!PrivateTold

\* Packets come and go, and others change settings.
LEMMA OthersKeep ==
  ASSUME SettingsParams, SettingsInv,
         IsSeq(net'), Len(net') <= MaxNet, \A i \in DOMAIN net' : IsPacket(net'[i]),
         UNCHANGED <<mode, title, out, Pregame!dialog, Pregame!options, playing, touched>>,
         DOMAIN known' = Pregame!Settings, DOMAIN server' = Pregame!Settings, moved \subseteq moved',
         \A s \in Pregame!Settings \ moved' : server'[s] = server[s],
         "ruleset" \in moved' \/ ruleset' = ruleset
  PROVE  SettingsInv'
<1>. USE DEF Pregame!dialog, Pregame!fields, Pregame!options
<1>1. SettingsTypes'
  BY DEF SettingsInv, SettingsTypes
<1>2. FieldsTold'
  BY SameLonger, FieldsKept
<1>3. RulesetShown' /\ Pregame!PrivateTold' /\ Pregame!BoxesAgree'
  BY LinesKept DEF SettingsInv, RulesetShown, Pregame!BoxesAgree
<1>. QED
  BY <1>1, <1>2, <1>3 DEF SettingsInv

LEMMA OthersAct ==
  ASSUME SettingsParams, SettingsInv,
         \/ Pregame!Receive \/ (\E s \in Pregame!Settings : Pregame!Login(s))
              \/ (\E s \in Pregame!Settings : \E v : Pregame!OtherSets(s, v))
         \/ \E dir \in DOMAIN RulesetOwn : Pregame!OtherLoads(dir)
  PROVE  SettingsInv'
<1>1. /\ IsSeq(net) /\ Len(net) <= MaxNet /\ (\A i \in DOMAIN net : IsPacket(net[i]))
      /\ Len(net) \in Nat /\ MaxNet \in Nat /\ DOMAIN server = Pregame!Settings
           /\ DOMAIN known = Pregame!Settings
  BY SequenceHas DEF SettingsInv, SettingsTypes, SettingsParams
<1>2. CASE Pregame!Receive
  <2>1. /\ net # << >> /\ net' = Tail(net)
        /\ known' = known \/ ("ruleset" \notin DOMAIN Head(net) /\ known' = Pregame!Completed(known, Head(net)))
        /\ UNCHANGED <<mode, Pregame!serverVars, out, Pregame!dialog, Pregame!options, playing, Pregame!history, Pregame!bounds>>
    BY <1>2 DEF Pregame!Receive
  <2>2. IsSeq(net') /\ Len(net') = Len(net) - 1
    BY <1>1, <2>1, Taken
  <2>3. \A i \in DOMAIN net' : i + 1 \in DOMAIN net /\ net'[i] = net[i + 1]
    BY <1>1, <2>1, Taken
  <2>4. 1 \in DOMAIN net /\ Head(net) = net[1]
    BY <1>1, <2>1, Taken
  <2>5. DOMAIN known' = Pregame!Settings
    BY <1>1, <2>1, <2>4 DEF IsPacket, Pregame!Completed
  <2>6. Len(net') <= MaxNet /\ \A i \in DOMAIN net' : IsPacket(net'[i])
    BY <1>1, <2>2, <2>3
  <2>. QED
    BY <1>1, <2>1, <2>2, <2>5, <2>6, OthersKeep DEF Pregame!serverVars, Pregame!history
<1>3. ASSUME NEW s \in Pregame!Settings, Pregame!Login(s)
      PROVE  SettingsInv'
  <2>. PICK a : a = IF Source[s] = "setting" THEN << Pregame!ConstPacket(s) >> ELSE << >>
    OBVIOUS
  <2>. PICK b : b = Pregame!Announced(s, server)
    OBVIOUS
  <2>. PICK m : m = net \o a
    OBVIOUS
  <2>1. /\ Len(net) + 2 <= MaxNet /\ net' = m \o b
        /\ UNCHANGED <<mode, Pregame!serverVars, known, control, out, Pregame!dialog, Pregame!options, playing, Pregame!history, Pregame!bounds>>
    BY <1>3 DEF Pregame!Login
  <2>2. IsPacket(Pregame!ConstPacket(s))
    BY DEF IsPacket, Pregame!ConstPacket
  <2>3. IsSeq(a) /\ Len(a) \in 0..1 /\ \A i \in DOMAIN a : IsPacket(a[i])
    BY <2>2, OneIs, EmptyIs
  <2>4. IsSeq(b) /\ Len(b) \in 0..1 /\ \A i \in DOMAIN b : IsPacket(b[i])
    BY AnnouncedIs
  <2>5. IsSeq(m) /\ Len(m) = Len(net) + Len(a)
    BY <1>1, <2>3, Joined
  <2>6. \A i \in DOMAIN net : i \in DOMAIN m /\ m[i] = net[i]
    BY <1>1, <2>3, Joined
  <2>7. \A i \in DOMAIN m : i \notin DOMAIN net => i - Len(net) \in DOMAIN a
          /\ m[i] = a[i - Len(net)]
    BY <1>1, <2>3, Joined
  <2>8. \A i \in DOMAIN m : IsPacket(m[i])
    BY <1>1, <2>3, <2>6, <2>7
  <2>9. IsSeq(net') /\ Len(net') = Len(m) + Len(b)
    BY <2>1, <2>4, <2>5, Joined, ZenonT(40)
  <2>10. \A i \in DOMAIN m : i \in DOMAIN net' /\ net'[i] = m[i]
    BY <2>1, <2>4, <2>5, Joined
  <2>11. \A i \in DOMAIN net' : i \notin DOMAIN m => i - Len(m) \in DOMAIN b
           /\ net'[i] = b[i - Len(m)]
    BY <2>1, <2>4, <2>5, Joined, SMTT(20)
  <2>12. \A i \in DOMAIN net' : IsPacket(net'[i])
    BY <2>4, <2>8, <2>10, <2>11
  <2>13. Len(net') <= MaxNet
    <3>1. Len(net) + 2 <= MaxNet /\ Len(net) \in Nat /\ MaxNet \in Nat
      BY <1>1, <2>1
    <3>2. Len(a) \in 0..1 /\ Len(b) \in 0..1 /\ Len(m) = Len(net) + Len(a)
      BY <2>3, <2>4, <2>5
    <3>. PICK k : k = Len(net)
      OBVIOUS
    <3>. PICK x : x = Len(a)
      OBVIOUS
    <3>. PICK y : y = Len(b)
      OBVIOUS
    <3>. PICK l : l = Len(net')
      OBVIOUS
    <3>3. l = k + x + y /\ k \in Nat /\ x \in 0..1 /\ y \in 0..1 /\ k + 2 <= MaxNet
      BY <2>9, <3>1, <3>2
    <3>4. l <= MaxNet
      BY <3>1, <3>3
    <3>. QED
      BY <3>4
  <2>. QED
    BY <1>1, <2>1, <2>9, <2>12, <2>13, OthersKeep DEF Pregame!serverVars, Pregame!history
<1>4. ASSUME NEW s \in Pregame!Settings, NEW v, Pregame!OtherSets(s, v)
      PROVE  SettingsInv'
  <2>1. /\ Pregame!Change(s, v) /\ moved' = moved \cup {s}
        /\ UNCHANGED <<mode, title, ruleset, known, control, out, Pregame!dialog, Pregame!options, playing, touched, edits>>
    BY <1>4 DEF Pregame!OtherSets
  <2>2. /\ server' = [server EXCEPT ![s] = v] /\ DOMAIN server' = Pregame!Settings
        /\ IsSeq(net') /\ Len(net') <= MaxNet /\ \A i \in DOMAIN net' : IsPacket(net'[i])
    BY <2>1, Changed
  <2>3. \A t \in Pregame!Settings \ moved' : server'[t] = server[t]
    BY <1>1, <2>1, <2>2
  <2>. QED
    BY <1>1, <2>1, <2>2, <2>3, OthersKeep
<1>5. ASSUME NEW dir \in DOMAIN RulesetOwn, Pregame!OtherLoads(dir)
      PROVE  SettingsInv'
  <2>1. Pregame!Load(dir) /\ UNCHANGED <<mode, title, known, control, out, Pregame!dialog, Pregame!options, playing, touched, edits>>
    BY <1>5 DEF Pregame!OtherLoads
  <2>. QED
    BY <1>1, <2>1, Loaded, OthersKeep
<1>. QED
  BY <1>2, <1>3, <1>4, <1>5

-----------------------------------------------------------------------------
\* The server takes a command.

\* The lines of the game that are on their way lose their first.
LEMMA LinesTaken ==
  ASSUME Pregame!PrivateTold, NEW c, NEW n, IsSeq(out), IsSeq(n), c = out[1], 1 \in DOMAIN out,
         \A i \in DOMAIN n : i + 1 \in DOMAIN out /\ n[i] = out[i + 1],
         \A i \in DOMAIN out : i # 1 => i - 1 \in DOMAIN n /\ n[i - 1] = out[i],
         out' = n, open' = open, locked' = locked,
         title' = IF c.do = "title" THEN c.to ELSE title
  PROVE  Pregame!PrivateTold'
<1>. SUFFICES ASSUME open, locked
              PROVE  LET lines == {i \in 1..Len(n) : n[i].do = "title"}
                     IN  IF lines = {} THEN title' = "private"
                         ELSE \E i \in lines : n[i].to = "private" /\ \A j \in lines : j <= i
  BY DEF Pregame!PrivateTold
<1>. DEFINE lines == {i \in 1..Len(n) : n[i].do = "title"}
            before == {i \in 1..Len(out) : out[i].do = "title"}
<1>1. DOMAIN n = 1..Len(n) /\ DOMAIN out = 1..Len(out) /\ Len(n) \in Nat /\ Len(out) \in Nat
  BY SequenceHas
<1>2. \A i \in lines : i + 1 \in before /\ i \in Nat /\ i >= 1
  BY <1>1
<1>3. \A i \in before : i # 1 => i - 1 \in lines /\ n[i - 1] = out[i] /\ i \in Nat
  BY <1>1
<1>4. IF before = {} THEN title = "private"
      ELSE \E i \in before : out[i].to = "private" /\ \A j \in before : j <= i
  BY DEF Pregame!PrivateTold
<1>5. 1 \in before <=> c.do = "title"
  BY <1>1
<1>. HIDE DEF lines, before
<1>6. CASE lines = {}
  <2>1. before \subseteq {1}
    BY <1>3, <1>6
  <2>. QED
    BY <1>4, <1>5, <1>6, <2>1 DEF lines
<1>7. CASE lines # {}
  <2>1. PICK i \in before : out[i].to = "private" /\ \A j \in before : j <= i
    BY <1>2, <1>4, <1>7
  <2>2. PICK l \in lines : TRUE
    BY <1>7
  <2>3. i # 1
    BY <1>2, <2>1, <2>2
  <2>4. i - 1 \in lines /\ n[i - 1].to = "private" /\ i \in Nat
    BY <1>3, <2>1, <2>3
  <2>5. \A j \in lines : j <= i - 1
    BY <1>2, <2>1, <2>4
  <2>. QED
    BY <1>7, <2>4, <2>5 DEF lines
<1>. QED
  BY <1>6, <1>7

LEMMA ServeKeeps == ASSUME SettingsParams, SettingsInv, Pregame!Serve PROVE SettingsInv'
<1>. PICK c : c = Head(out)
  OBVIOUS
<1>1. /\ IsSeq(out) /\ Len(out) <= MaxNet /\ (\A i \in DOMAIN out : IsCommand(out[i]))
      /\ Len(out) \in Nat /\ MaxNet \in Nat /\ DOMAIN server = Pregame!Settings
      /\ IsSeq(net) /\ Len(net) <= MaxNet /\ (\A i \in DOMAIN net : IsPacket(net[i]))
  BY SequenceHas DEF SettingsInv, SettingsTypes, SettingsParams
<1>2. /\ out # << >> /\ out' = Tail(out)
      /\ UNCHANGED <<mode, known, control, Pregame!dialog, Pregame!options, playing, touched, Pregame!bounds>>
  BY DEF Pregame!Serve
<1>3. IsSeq(out') /\ Len(out') = Len(out) - 1
  BY <1>1, <1>2, Taken
<1>4. \A i \in DOMAIN out' : i + 1 \in DOMAIN out /\ out'[i] = out[i + 1]
  BY <1>1, <1>2, Taken
<1>5. \A i \in DOMAIN out : i # 1 => i - 1 \in DOMAIN out' /\ out'[i - 1] = out[i]
  BY <1>1, <1>2, Taken
<1>6. 1 \in DOMAIN out /\ c = out[1]
  BY <1>1, <1>2, Taken
<1>7. DOMAIN out = 1..Len(out) /\ DOMAIN out' = 1..Len(out')
  BY <1>1, <1>3, SequenceHas
<1>8. IsCommand(c)
  BY <1>1, <1>6
<1>9. /\ DOMAIN server' = Pregame!Settings /\ moved \subseteq moved'
      /\ \A s \in Pregame!Settings \ moved' : server'[s] = server[s]
           \/ (Sets(c, s) /\ server'[s] = c.to)
      /\ \A s \in Pregame!Settings \ moved' : Sets(c, s) => c.to \in Illegal[s] \/ server'[s] = c.to
      /\ IsSeq(net') /\ Len(net') <= MaxNet /\ \A i \in DOMAIN net' : IsPacket(net'[i])
      /\ ("ruleset" \in moved' \/ (c.do # "rulesetdir" /\ ruleset' = ruleset))
      /\ title' = IF c.do = "title" THEN c.to ELSE title
  <2>1. CASE c.do = "title"
    BY <1>1, <2>1 DEF Pregame!Serve, Sets
  <2>2. CASE c.do = "rulesetdir"
    <3>1. Pregame!Load(c.to) /\ UNCHANGED title
      BY <2>2 DEF Pregame!Serve
    <3>2. c.to \in DOMAIN RulesetOwn
      BY <1>8, <2>2 DEF IsCommand
    <3>. QED
      BY <2>2, <3>1, <3>2, Loaded DEF Sets
  <2>3. CASE c.do = "set" /\ c.what \in Pregame!Settings
    <3>1. /\ UNCHANGED <<title, ruleset, moved>>
          /\ IF c.to \in Illegal[c.what] THEN UNCHANGED <<server, net>> ELSE Pregame!Change(c.what, c.to)
      BY <2>3 DEF Pregame!Serve
    <3>2. CASE c.to \in Illegal[c.what]
      BY <1>1, <2>3, <3>1, <3>2 DEF Sets
    <3>3. CASE c.to \notin Illegal[c.what]
      <4>1. /\ server' = [server EXCEPT ![c.what] = c.to] /\ DOMAIN server' = Pregame!Settings
            /\ IsSeq(net') /\ Len(net') <= MaxNet /\ \A i \in DOMAIN net' : IsPacket(net'[i])
        BY <2>3, <3>1, <3>3, Changed
      <4>2. server'[c.what] = c.to /\ \A s \in Pregame!Settings : s # c.what
              => server'[s] = server[s]
        BY <1>1, <2>3, <4>1
      <4>. QED
        BY <2>3, <3>1, <4>1, <4>2 DEF Sets
    <3>. QED
      BY <3>2, <3>3
  <2>4. CASE c.do \notin {"title", "rulesetdir"} /\ ~(c.do = "set" /\ c.what \in Pregame!Settings)
    BY <1>1, <2>4 DEF Pregame!Serve, Sets
  <2>. QED
    BY <2>1, <2>2, <2>3, <2>4
<1>10. SettingsTypes'
  <2>1. Len(out') <= MaxNet /\ \A i \in DOMAIN out' : IsCommand(out'[i])
    BY <1>1, <1>3, <1>4
  <2>. QED
    BY <1>2, <1>3, <1>9, <2>1 DEF SettingsInv, SettingsTypes, Pregame!dialog, Pregame!fields, Pregame!options
<1>11. FieldsTold'
  <2>. SUFFICES ASSUME open', NEW s \in Pregame!Settings \ moved'
                PROVE  FieldTold(s)'
    BY DEF FieldsTold
  <2>1. FieldTold(s) /\ UNCHANGED <<field, touched>>
    BY <1>2, <1>9 DEF SettingsInv, FieldsTold, Pregame!dialog, Pregame!fields
  <2>2. CASE s \in touched /\ field[s] \in Barred[s]
    BY <2>1, <2>2 DEF FieldTold
  <2>3. CASE (\A i \in DOMAIN out : ~Sets(out[i], s))
               /\ (field[s] = server[s] \/ (s \in touched /\ field[s] \in Illegal[s]))
    <3>1. \A i \in DOMAIN out' : ~Sets(out'[i], s)
      BY <1>4, <2>3
    <3>2. server'[s] = server[s]
      BY <1>6, <1>9, <2>3
    <3>. QED
      BY <2>1, <2>3, <3>1, <3>2 DEF FieldTold
  <2>4. ASSUME NEW i \in DOMAIN out, Sets(out[i], s), out[i].to = field[s], s \in touched,
               \A j \in DOMAIN out : j > i => ~Sets(out[j], s)
        PROVE  FieldTold(s)'
    <3>1. CASE i = 1
      <4>1. \A j \in DOMAIN out' : ~Sets(out'[j], s)
        BY <1>4, <1>7, <2>4, <3>1
      <4>2. c.to \in Illegal[s] \/ server'[s] = c.to
        BY <1>6, <1>9, <2>4, <3>1
      <4>. QED
        BY <1>6, <2>1, <2>4, <3>1, <4>1, <4>2 DEF FieldTold
    <3>2. CASE i # 1
      <4>1. i - 1 \in DOMAIN out' /\ out'[i - 1] = out[i] /\ i \in Nat
        BY <1>5, <1>7, <3>2
      <4>2. \A j \in DOMAIN out' : j > i - 1 => ~Sets(out'[j], s)
        BY <1>4, <1>7, <2>4, <4>1
      <4>. QED
        BY <2>1, <2>4, <4>1, <4>2 DEF FieldTold
    <3>. QED
      BY <3>1, <3>2
  <2>. QED
    BY <2>1, <2>2, <2>3, <2>4 DEF FieldTold
<1>12. RulesetShown'
  <2>. SUFFICES ASSUME open', "ruleset" \notin moved',
                \A i \in DOMAIN out' : out'[i].do # "rulesetdir", ruleset' \in Offered
                PROVE  shown' = ruleset'
    BY DEF RulesetShown
  <2>1. \A i \in DOMAIN out : out[i].do # "rulesetdir"
    BY <1>5, <1>6, <1>9
  <2>. QED
    BY <1>2, <1>9, <2>1 DEF SettingsInv, RulesetShown, Pregame!dialog, Pregame!fields
<1>13. Pregame!PrivateTold'
  <2>1. open' = open /\ locked' = locked /\ Pregame!PrivateTold
    BY <1>2 DEF Pregame!dialog, SettingsInv
  <2>. PICK n : n = out'
    OBVIOUS
  <2>. QED
    BY <1>1, <1>3, <1>4, <1>5, <1>6, <1>9, <2>1, LinesTaken
<1>14. Pregame!BoxesAgree'
  BY <1>2 DEF SettingsInv, Pregame!BoxesAgree, Pregame!dialog, Pregame!options
<1>. QED
  BY <1>10, <1>11, <1>12, <1>13, <1>14 DEF SettingsInv

-----------------------------------------------------------------------------
\* The dialog.

\* What leaves the fields and the server alone.
LEMMA SaidKeeps ==
  ASSUME SettingsParams, SettingsInv, Longer(out, out'),
         UNCHANGED <<Pregame!serverVars, Pregame!mirror, field, Pregame!history>>,
         open' => open, question' \in BOOLEAN, prefs' \in [Pregame!Prefs -> BOOLEAN], playing'
           => ~open'
  PROVE  SettingsTypes' /\ FieldsTold'
<1>1. SettingsTypes'
  BY TypesKept DEF SettingsInv, SettingsTypes, Pregame!serverVars, Pregame!mirror, Pregame!history
<1>2. FieldsTold'
  BY FieldsKept DEF Pregame!serverVars, Pregame!history
<1>. QED
  BY <1>1, <1>2

\* No line is said.
LEMMA LinesSame ==
  ASSUME SettingsInv, IsSeq(out'), UNCHANGED title, open' => open, locked' => locked,
         \A i \in DOMAIN out : i \in DOMAIN out' /\ out'[i] = out[i],
         \A i \in DOMAIN out' : i \in DOMAIN out \/ out'[i].do # "title"
  PROVE  Pregame!PrivateTold'
<1>1. DOMAIN out = 1..Len(out) /\ DOMAIN out' = 1..Len(out')
  BY SequenceHas DEF SettingsInv, SettingsTypes
<1>2. {i \in 1..Len(out') : out'[i].do = "title"} = {i \in 1..Len(out) : out[i].do = "title"}
  BY <1>1
<1>3. \A i \in {i \in 1..Len(out) : out[i].do = "title"} : out'[i] = out[i]
  BY <1>1
<1>. QED
  BY <1>2, <1>3 DEF Pregame!PrivateTold, SettingsInv

\* What is said of the ruleset stays, if anything else is said.
LEMMA RulesetSame ==
  ASSUME SettingsInv, UNCHANGED <<ruleset, shown>>, open' => open,
         "ruleset" \in moved => "ruleset" \in moved',
         \A i \in DOMAIN out : i \in DOMAIN out' /\ out'[i] = out[i]
  PROVE  RulesetShown'
BY DEF SettingsInv, RulesetShown

LEMMA EditKeeps ==
  ASSUME SettingsParams, SettingsInv, NEW s \in Pregame!Settings, NEW v, Pregame!Edit(s, v)
  PROVE  SettingsInv'
<1>. PICK c : c = [do |-> "set", what |-> s, to |-> v]
  OBVIOUS
<1>1. /\ open /\ ~question /\ field' = [field EXCEPT ![s] = v] /\ touched' = touched \cup {s}
      /\ IF v \in Barred[s] THEN out' = out ELSE Pregame!Says(c)
      /\ moved' = moved \ {s} /\ DOMAIN known' = DOMAIN known
      /\ UNCHANGED <<mode, Pregame!serverVars, control, net, open, heading, shown, question, locked, Pregame!options, playing>>
  BY DEF Pregame!Edit, Pregame!Edits
<1>2. /\ IsSeq(out) /\ Len(out) <= MaxNet /\ (\A i \in DOMAIN out : IsCommand(out[i]))
      /\ Len(out) \in Nat /\ MaxNet \in Nat /\ DOMAIN field = Pregame!Settings
           /\ DOMAIN out = 1..Len(out)
      /\ s # "ruleset"
  BY SequenceHas DEF SettingsInv, SettingsTypes, SettingsParams
<1>3. c.do = "set" /\ c.what = s /\ c.to = v /\ IsCommand(c)
  BY DEF IsCommand
<1>4. /\ IsSeq(out') /\ Len(out') <= MaxNet /\ \A i \in DOMAIN out : i \in DOMAIN out'
           /\ out'[i] = out[i]
      /\ \A i \in DOMAIN out' : i \in DOMAIN out \/ out'[i] = c
      /\ v \in Barred[s] \/ (Len(out) + 1 \in DOMAIN out' /\ out'[Len(out) + 1] = c
                              /\ \A j \in DOMAIN out' : j <= Len(out) + 1)
  <2>1. CASE v \in Barred[s]
    BY <1>1, <1>2, <2>1
  <2>2. CASE v \notin Barred[s]
    <3>1. Len(out) < MaxNet /\ out' = Append(out, c)
      BY <1>1, <2>2 DEF Pregame!Says
    <3>2. IsSeq(out') /\ Len(out') = Len(out) + 1 /\ out'[Len(out) + 1] = c
      BY <1>1, <2>2, SaidIs
    <3>3. DOMAIN out' = DOMAIN out \cup {Len(out) + 1} /\ \A i \in DOMAIN out : out'[i] = out[i]
      BY <1>2, <3>1, Appended
    <3>4. Len(out') <= MaxNet
      BY <1>2, <3>1, <3>2
    <3>5. \A j \in DOMAIN out' : j <= Len(out) + 1
      BY <1>2, <3>3
    <3>. QED
      BY <1>2, <3>2, <3>3, <3>4, <3>5
  <2>. QED
    BY <2>1, <2>2
<1>5. SettingsTypes'
  <2>1. \A i \in DOMAIN out' : IsCommand(out'[i])
    BY <1>2, <1>3, <1>4
  <2>2. DOMAIN field' = Pregame!Settings /\ touched' \subseteq Pregame!Settings
    BY <1>1, <1>2 DEF SettingsInv, SettingsTypes
  <2>. QED
    BY <1>1, <1>4, <2>1, <2>2 DEF SettingsInv, SettingsTypes, Pregame!serverVars, Pregame!options
<1>6. FieldsTold'
  <2>. SUFFICES ASSUME NEW t \in Pregame!Settings \ moved'
                PROVE  FieldTold(t)'
    BY DEF FieldsTold
  <2>1. CASE t = s
    <3>1. field'[t] = v /\ t \in touched'
      BY <1>1, <1>2, <2>1
    <3>2. CASE v \in Barred[s]
      BY <2>1, <3>1, <3>2 DEF FieldTold
    <3>3. CASE v \notin Barred[s]
      BY <1>2, <1>3, <1>4, <2>1, <3>1, <3>3 DEF FieldTold, Sets
    <3>. QED
      BY <3>2, <3>3
  <2>2. CASE t # s
    <3>1. field'[t] = field[t] /\ (t \in touched => t \in touched') /\ server' = server
      BY <1>1, <1>2, <2>2 DEF Pregame!serverVars
    <3>2. FieldTold(t)
      BY <1>1, <2>2 DEF SettingsInv, FieldsTold
    <3>3. \A i \in DOMAIN out' : Sets(out'[i], t) => i \in DOMAIN out
      BY <1>3, <1>4, <2>2 DEF Sets
    <3>. QED
      BY <1>4, <3>1, <3>2, <3>3 DEF FieldTold
  <2>. QED
    BY <2>1, <2>2
<1>7. RulesetShown'
  BY <1>1, <1>2, <1>4, RulesetSame DEF Pregame!serverVars
<1>8. Pregame!PrivateTold'
  BY <1>1, <1>3, <1>4, LinesSame DEF Pregame!serverVars
<1>9. Pregame!BoxesAgree'
  BY <1>1 DEF SettingsInv, Pregame!BoxesAgree, Pregame!options
<1>. QED
  BY <1>5, <1>6, <1>7, <1>8, <1>9 DEF SettingsInv

\* What is known is read: the fields show what the server has.
LEMMA OpenKeeps == ASSUME SettingsParams, SettingsInv, Pregame!Open PROVE SettingsInv'
<1>1. /\ ~playing /\ open' = TRUE
      /\ field' = [s \in Pregame!Settings |-> IF s \in Pregame!Unread THEN First[s] ELSE known[s]]
      /\ shown' = IF Pregame!RulesetDir(control) \in Offered THEN Pregame!RulesetDir(control) ELSE None
      /\ question' = FALSE /\ locked' = FALSE /\ boxes' = prefs /\ touched' = {}
      /\ moved' = Pregame!Stale \cup Pregame!Unread \cup IF control # ruleset THEN {"ruleset"} ELSE {}
      /\ UNCHANGED <<mode, Pregame!serverVars, Pregame!mirror, out, prefs, playing, Pregame!bounds>>
  BY DEF Pregame!Open
<1>2. SettingsTypes'
  BY <1>1 DEF SettingsInv, SettingsTypes, Pregame!serverVars, Pregame!mirror
<1>3. FieldsTold'
  <2>. SUFFICES ASSUME NEW s \in Pregame!Settings \ moved'
                PROVE  FieldTold(s)'
    BY DEF FieldsTold
  <2>1. s \notin Pregame!Stale /\ s \notin Pregame!Unread
    BY <1>1
  <2>2. field'[s] = server[s]
    BY <1>1, <2>1 DEF Pregame!Stale
  <2>3. \A i \in DOMAIN out : ~Sets(out[i], s)
    BY <2>1, SequenceHas DEF Pregame!Stale, Sets, SettingsInv, SettingsTypes
  <2>. QED
    BY <1>1, <2>2, <2>3 DEF FieldTold, Pregame!serverVars
<1>4. RulesetShown'
  BY <1>1 DEF RulesetShown, Pregame!RulesetDir, Pregame!serverVars
<1>5. Pregame!PrivateTold' /\ Pregame!BoxesAgree'
  BY <1>1 DEF Pregame!PrivateTold, Pregame!BoxesAgree
<1>. QED
  BY <1>2, <1>3, <1>4, <1>5 DEF SettingsInv

\* What the dialog says besides, and what opens and closes it.
LEMMA TitleKeeps == ASSUME SettingsParams, SettingsInv, NEW text,
                    Pregame!EditTitle(text) PROVE SettingsInv'
<1>1. /\ ~locked /\ Pregame!Says(Pregame!Line(text))
      /\ UNCHANGED <<mode, Pregame!serverVars, Pregame!mirror, open, field, shown, question, locked, Pregame!options, playing, Pregame!history>>
  BY DEF Pregame!EditTitle
<1>2. Longer(out, out')
  BY <1>1, SaidLonger DEF Pregame!Line, IsCommand, Sets
<1>3. SettingsTypes' /\ FieldsTold'
  BY <1>1, <1>2, SaidKeeps DEF Pregame!options, SettingsInv, SettingsTypes
<1>4. RulesetShown'
  BY <1>1, <1>2, RulesetSame DEF Longer, Pregame!serverVars, Pregame!history
<1>5. Pregame!PrivateTold' /\ Pregame!BoxesAgree'
  BY <1>1 DEF Pregame!PrivateTold, Pregame!BoxesAgree, SettingsInv, Pregame!options
<1>. QED
  BY <1>3, <1>4, <1>5 DEF SettingsInv

LEMMA RulesetKeeps ==
  ASSUME SettingsParams, SettingsInv, NEW dir \in DOMAIN RulesetOwn, Pregame!ChangeRuleset(dir)
  PROVE  SettingsInv'
<1>. PICK c : c = [do |-> "rulesetdir", what |-> "ruleset", to |-> dir]
  OBVIOUS
<1>. PICK d : d = [do |-> "set", what |-> "nationset", to |-> "all"]
  OBVIOUS
<1>1. /\ Len(out) + 2 <= MaxNet /\ out' = out \o <<c, d>>
      /\ UNCHANGED <<mode, Pregame!serverVars, Pregame!mirror, open, field, heading, question, locked, Pregame!options, playing, Pregame!history>>
  BY DEF Pregame!ChangeRuleset
<1>2. /\ IsCommand(c) /\ IsCommand(d) /\ c.do = "rulesetdir" /\ d.do = "set"
      /\ \A s \in Pregame!Settings : ~Sets(c, s) /\ ~Sets(d, s)
  BY DEF IsCommand, Sets, SettingsParams
<1>3. /\ Longer(out, out') /\ Len(out') = Len(out) + 2
      /\ Len(out) + 1 \in DOMAIN out' /\ Len(out) + 2 \in DOMAIN out'
      /\ out'[Len(out) + 1] = c /\ out'[Len(out) + 2] = d
  <2>1. Longer(out, out')
    BY <1>1, <1>2, PairLonger
  <2>2. Len(out') = Len(out) + 2 /\ Len(out) + 1 \in DOMAIN out' /\ Len(out) + 2 \in DOMAIN out'
    BY <1>1, <1>2, PairLonger
  <2>3. out'[Len(out) + 1] = c /\ out'[Len(out) + 2] = d
    BY <1>1, <1>2, PairLonger
  <2>. QED
    BY <2>1, <2>2, <2>3
<1>4. SettingsTypes' /\ FieldsTold'
  BY <1>1, <1>3, SaidKeeps DEF Pregame!options, SettingsInv, SettingsTypes
<1>5. RulesetShown'
  BY <1>2, <1>3 DEF RulesetShown
<1>6. \A i \in DOMAIN out' : i \in DOMAIN out \/ out'[i] \in {c, d}
  <2>1. DOMAIN out' = 1..Len(out') /\ DOMAIN out = 1..Len(out) /\ Len(out) \in Nat
          /\ Len(out') \in Nat
    BY <1>3, SequenceHas DEF Longer, SettingsInv, SettingsTypes
  <2>2. \A i \in DOMAIN out' : i \in DOMAIN out \/ i = Len(out) + 1 \/ i = Len(out) + 2
    BY <1>3, <2>1
  <2>. QED
    BY <1>3, <2>2
<1>7. Pregame!PrivateTold'
  BY <1>1, <1>2, <1>3, <1>6, LinesSame DEF Longer, Pregame!serverVars
<1>8. Pregame!BoxesAgree'
  BY <1>1 DEF Pregame!BoxesAgree, SettingsInv, Pregame!options
<1>. QED
  BY <1>4, <1>5, <1>7, <1>8 DEF SettingsInv

LEMMA ConfirmKeeps == ASSUME SettingsParams, SettingsInv, Pregame!ConfirmPassword PROVE SettingsInv'
<1>. PICK c : c = [do |-> "password", what |-> "password", to |-> "given"]
  OBVIOUS
<1>. PICK d : d = Pregame!Line("private")
  OBVIOUS
<1>1. /\ question' = FALSE /\ Len(out) + 2 <= MaxNet /\ out' = out \o <<c, d>>
      /\ UNCHANGED <<mode, Pregame!serverVars, Pregame!mirror, open, Pregame!fields, Pregame!options, playing, Pregame!history>>
  BY DEF Pregame!ConfirmPassword
<1>2. /\ IsCommand(c) /\ IsCommand(d) /\ d.do = "title" /\ d.to = "private"
      /\ \A s \in Pregame!Settings : ~Sets(c, s) /\ ~Sets(d, s)
  BY DEF IsCommand, Sets, Pregame!Line
<1>3. /\ Longer(out, out') /\ Len(out') = Len(out) + 2
      /\ Len(out) + 1 \in DOMAIN out' /\ Len(out) + 2 \in DOMAIN out'
      /\ out'[Len(out) + 1] = c /\ out'[Len(out) + 2] = d
  <2>1. Longer(out, out')
    BY <1>1, <1>2, PairLonger
  <2>2. Len(out') = Len(out) + 2 /\ Len(out) + 1 \in DOMAIN out' /\ Len(out) + 2 \in DOMAIN out'
    BY <1>1, <1>2, PairLonger
  <2>3. out'[Len(out) + 1] = c /\ out'[Len(out) + 2] = d
    BY <1>1, <1>2, PairLonger
  <2>. QED
    BY <2>1, <2>2, <2>3
<1>4. SettingsTypes' /\ FieldsTold'
  BY <1>1, <1>3, SaidKeeps DEF Pregame!options, Pregame!fields, SettingsInv, SettingsTypes
<1>5. RulesetShown'
  BY <1>1, <1>3, RulesetSame DEF Longer, Pregame!serverVars, Pregame!fields, Pregame!history
<1>6. Pregame!PrivateTold'
  <2>1. DOMAIN out' = 1..Len(out') /\ Len(out) \in Nat /\ Len(out') \in Nat
    BY <1>3, SequenceHas DEF Longer, SettingsInv, SettingsTypes
  <2>3. out'[Len(out')] = d /\ Len(out') \in 1..Len(out')
    BY <1>3, <2>1
  <2>. DEFINE lines == {i \in 1..Len(out') : out'[i].do = "title"}
  <2>4. Len(out') \in lines /\ \A j \in lines : j <= Len(out')
    BY <1>2, <2>1, <2>3
  <2>5. \E i \in lines : out'[i].to = "private" /\ \A j \in lines : j <= i
    BY <1>2, <2>3, <2>4
  <2>. QED
    BY <2>4, <2>5 DEF Pregame!PrivateTold
<1>7. Pregame!BoxesAgree'
  BY <1>1 DEF Pregame!BoxesAgree, SettingsInv, Pregame!options
<1>. QED
  BY <1>4, <1>5, <1>6, <1>7 DEF SettingsInv

LEMMA OthersDo ==
  ASSUME SettingsParams, SettingsInv,
         \/ Pregame!Close \/ Pregame!TypePassword \/ Pregame!CancelPassword
              \/ (\E p \in Pregame!Prefs : Pregame!Toggle(p)) \/ Pregame!Start
                   \/ Pregame!RunningStatus
  PROVE  SettingsInv'
<1>. prefs \in [Pregame!Prefs -> BOOLEAN] /\ (playing => ~open) /\ question \in BOOLEAN
  BY DEF SettingsInv, SettingsTypes
<1>1. CASE Pregame!Close \/ Pregame!TypePassword \/ Pregame!CancelPassword
  <2>1. /\ UNCHANGED <<mode, Pregame!serverVars, Pregame!mirror, out, Pregame!fields, locked, Pregame!options, playing, Pregame!history>>
        /\ open' => open
    BY <1>1 DEF Pregame!Close, Pregame!TypePassword, Pregame!CancelPassword, Pregame!Edits
  <2>2. question' \in BOOLEAN
    BY <1>1 DEF Pregame!Close, Pregame!TypePassword, Pregame!CancelPassword
  <2>3. SettingsTypes' /\ FieldsTold'
    BY <2>1, <2>2, SameLonger, SaidKeeps DEF Pregame!options, Pregame!fields
  <2>4. RulesetShown'
    BY <2>1, RulesetSame DEF Pregame!serverVars, Pregame!fields, Pregame!history
  <2>5. Pregame!PrivateTold' /\ Pregame!BoxesAgree'
    BY <2>1, LinesKept DEF Pregame!serverVars, Pregame!BoxesAgree, SettingsInv, Pregame!options
  <2>. QED
    BY <2>3, <2>4, <2>5 DEF SettingsInv
<1>2. ASSUME NEW p \in Pregame!Prefs, Pregame!Toggle(p)
      PROVE  SettingsInv'
  <2>1. /\ open /\ boxes' = [boxes EXCEPT ![p] = ~@]
        /\ prefs' = [prefs EXCEPT ![p] = IF p = "music" THEN ~@ ELSE boxes'[p]]
        /\ UNCHANGED <<mode, Pregame!serverVars, Pregame!mirror, out, Pregame!dialog, playing, Pregame!history>>
    BY <1>2 DEF Pregame!Toggle, Pregame!Edits
  <2>2. boxes = prefs
    BY <2>1 DEF SettingsInv, Pregame!BoxesAgree
  <2>3. boxes' \in [Pregame!Prefs -> BOOLEAN] /\ boxes'[p] = ~prefs[p]
    BY <2>1, <2>2
  <2>4. prefs' \in [Pregame!Prefs -> BOOLEAN] /\ prefs' = boxes'
    BY <2>1, <2>2, <2>3
  <2>5. SettingsTypes' /\ FieldsTold'
    BY <2>1, <2>4, SameLonger, SaidKeeps DEF Pregame!dialog, Pregame!fields
  <2>6. RulesetShown'
    BY <2>1, RulesetSame DEF Pregame!serverVars, Pregame!dialog, Pregame!fields, Pregame!history
  <2>7. Pregame!PrivateTold' /\ Pregame!BoxesAgree'
    BY <2>1, <2>4, LinesKept DEF Pregame!serverVars, Pregame!BoxesAgree, Pregame!dialog
  <2>. QED
    BY <2>5, <2>6, <2>7 DEF SettingsInv
<1>3. CASE Pregame!Start \/ Pregame!RunningStatus
  <2>1. /\ UNCHANGED <<mode, Pregame!serverVars, Pregame!mirror, Pregame!fields, locked, Pregame!options, Pregame!history>>
        /\ ~open' /\ (out' = out \/ \E text : Pregame!Says(Pregame!Line(text)))
             /\ question' \in BOOLEAN
    <3>1. CASE Pregame!Start
      BY <1>3, <3>1 DEF Pregame!Start
    <3>2. CASE Pregame!RunningStatus
      BY <1>3, <3>2 DEF Pregame!RunningStatus, Pregame!dialog
    <3>. QED
      BY <1>3, <3>1, <3>2
  <2>2. \A text : IsCommand(Pregame!Line(text))
          /\ \A s \in Pregame!Settings : ~Sets(Pregame!Line(text), s)
    BY DEF IsCommand, Sets, Pregame!Line
  <2>3. Longer(out, out')
    BY <2>1, <2>2, SameLonger, SaidLonger
  <2>4. SettingsTypes' /\ FieldsTold'
    BY <2>1, <2>3, SaidKeeps DEF Pregame!options, Pregame!fields
  <2>. QED
    BY <2>1, <2>4 DEF SettingsInv, RulesetShown, Pregame!PrivateTold, Pregame!BoxesAgree
<1>. QED
  BY <1>1, <1>2, <1>3

LEMMA SettingsStep == SettingsParams /\ SettingsInv /\ [Pregame!Next]_Pregame!vars => SettingsInv'
<1>. SUFFICES ASSUME SettingsParams, SettingsInv, [Pregame!Next]_Pregame!vars
              PROVE  SettingsInv'
  OBVIOUS
<1>1. CASE UNCHANGED Pregame!vars
  <2>1. UNCHANGED <<out, Pregame!serverVars, Pregame!mirror, Pregame!dialog, Pregame!options, playing, Pregame!history>>
    BY <1>1 DEF Pregame!vars, Pregame!serverVars, Pregame!mirror, Pregame!dialog, Pregame!fields, Pregame!options, Pregame!history
  <2>2. SettingsTypes' /\ FieldsTold'
    BY <2>1, SameLonger, SaidKeeps DEF Pregame!dialog, Pregame!fields, Pregame!options, SettingsInv, SettingsTypes
  <2>3. RulesetShown' /\ Pregame!PrivateTold' /\ Pregame!BoxesAgree'
    BY <2>1, RulesetSame, LinesKept DEF Pregame!serverVars, Pregame!dialog, Pregame!fields, Pregame!options, Pregame!history, SettingsInv, Pregame!BoxesAgree
  <2>. QED
    BY <2>2, <2>3 DEF SettingsInv
<1>2. CASE \E s \in Pregame!Settings : \E v \in Values[s] : Pregame!OtherSets(s, v)
             \/ Pregame!Edit(s, v)
  BY <1>2, OthersAct, EditKeeps
<1>3. CASE \E dir \in DOMAIN RulesetOwn : Pregame!OtherLoads(dir) \/ Pregame!ChangeRuleset(dir)
  BY <1>3, OthersAct, RulesetKeeps
<1>4. CASE (\E s \in Pregame!Settings : Pregame!Login(s)) \/ Pregame!Receive
  BY <1>4, OthersAct
<1>5. CASE Pregame!Close \/ Pregame!TypePassword \/ Pregame!CancelPassword
             \/ (\E p \in Pregame!Prefs : Pregame!Toggle(p)) \/ Pregame!Start
                  \/ Pregame!RunningStatus
  BY <1>5, OthersDo
<1>6. CASE Pregame!Serve \/ Pregame!Open \/ Pregame!ConfirmPassword
             \/ \E text \in {"typed", "pasted"} : Pregame!EditTitle(text)
  BY <1>6, ServeKeeps, OpenKeeps, ConfirmKeeps, TitleKeeps
<1>. QED
  BY <1>1, <1>2, <1>3, <1>4, <1>5, <1>6 DEF Pregame!Next

LEMMA SettingsStart == SettingsParams /\ Pregame!Init => SettingsInv
<1>. SUFFICES ASSUME SettingsParams, Pregame!Init
              PROVE  SettingsInv
  OBVIOUS
<1>1. SettingsTypes
  <2>1. /\ net = << >> /\ out = << >> /\ field = First /\ server \in Games /\ touched = {}
             /\ ~open /\ ~playing
        /\ question = FALSE /\ DOMAIN known = Pregame!Settings
    BY DEF Pregame!Init
  <2>2. IsSeq(net) /\ Len(net) = 0 /\ DOMAIN net = {} /\ IsSeq(out) /\ Len(out) = 0
          /\ DOMAIN out = {}
    BY <2>1, EmptyIs
  <2>3. prefs \in [Pregame!Prefs -> BOOLEAN]
    BY DEF Pregame!Init
  <2>4. MaxNet \in Nat /\ DOMAIN server = Pregame!Settings /\ DOMAIN field = Pregame!Settings
    BY <2>1 DEF SettingsParams
  <2>5. Len(net) <= MaxNet /\ Len(out) <= MaxNet
    BY <2>2, <2>4
  <2>. QED
    BY <2>1, <2>2, <2>3, <2>4, <2>5, Zenon DEF SettingsTypes
<1>. QED
  BY <1>1 DEF Pregame!Init, SettingsInv, FieldsTold, RulesetShown, Pregame!PrivateTold, Pregame!BoxesAgree

LEMMA SettingsHold == SettingsInv => Pregame!SettingsSound
<1>. SUFFICES ASSUME SettingsInv
              PROVE  Pregame!SettingsSound
  OBVIOUS
<1>1. Pregame!TypeOK
  BY DEF SettingsInv, SettingsTypes, Pregame!TypeOK
<1>2. DOMAIN out = 1..Len(out)
  BY SequenceHas DEF SettingsInv, SettingsTypes
<1>3. ASSUME open, NEW s \in Pregame!Settings \ moved
      PROVE  \/ field[s] = server[s] \/ Pregame!Sent("set", s)
             \/ s \in touched /\ field[s] \in Illegal[s] \cup Barred[s]
  <2>1. FieldTold(s)
    BY <1>3 DEF SettingsInv, FieldsTold
  <2>. QED
    BY <1>2, <2>1 DEF FieldTold, Sets, Pregame!Sent
<1>4. ASSUME open, "ruleset" \notin moved, ~Pregame!Sent("rulesetdir", "ruleset"),
             ruleset \in Offered
      PROVE  shown = ruleset
  <2>1. \A i \in DOMAIN out : out[i].do # "rulesetdir"
    BY <1>2, <1>4 DEF Pregame!Sent, SettingsInv, SettingsTypes, IsCommand
  <2>. QED
    BY <1>4, <2>1 DEF SettingsInv, RulesetShown
<1>5. Pregame!FieldsTrue
  BY <1>3, <1>4 DEF Pregame!FieldsTrue
<1>. QED
  BY <1>1, <1>5 DEF SettingsInv, Pregame!SettingsSound

\* The dialog shows the settings the game has, what was edited is set or about to
\* be, unless somebody else set it since; a private game is heard of; and the boxes
\* of the page's options show them (pregame_settings).
THEOREM SettingsAreShown == ASSUME SettingsParams PROVE Pregame!Spec => []Pregame!SettingsSound
<1>1. Pregame!Spec => []SettingsInv
  BY SettingsStart, SettingsStep, PTL DEF Pregame!Spec
<1>. QED
  BY <1>1, SettingsHold, PTL

-----------------------------------------------------------------------------
(* Saved games and scenarios.                                              *)

CONSTANTS Stored, Scenarios, MaxLoads
VARIABLES turn, saves, first, lists, deletes, picked, loadable, saving, upload,
          saved_this_turn, scenario_activated, waiting, blocked, picture, later,
          counted, loads, astray, messy, stuck

Shelf == INSTANCE SavedGames

\* What is needed of the parameters.
SavesParams == MaxOut \in Nat /\ MaxLoads \in Nat /\ MaxTurns \in Nat
                 /\ None \notin {"saves", "scenarios", "read", "sent"}

SavesTypes ==
  /\ IsSeq(out) /\ Len(out) <= MaxOut + 1 /\ IsSeq(waiting) /\ IsSeq(net) /\ IsSeq(lists)
  /\ state \in {"preparing", "running"} /\ turn \in 0..MaxTurns
  /\ dialog \in {None, "saves", "scenarios"} /\ loads \in 0..MaxLoads
  /\ asked \in Nat /\ counted \in Nat
  /\ \A i \in DOMAIN waiting : waiting[i].text \in {"logged_in", "load_complete"}

\* While a game was not saved in a turn it may be.
Saved ==
  ~mode.pbem =>
    /\ counted <= 1 /\ (saving => counted = 0)
    /\ ~saved_this_turn => counted = 0 /\ ~saving

\* What a list offers, on its way too, is there or met a deletion.
RowsListed ==
  /\ dialog = "saves" => rows \subseteq saves \cup messy /\ rows \cap deletes \subseteq messy
  /\ \A i \in DOMAIN lists : lists[i] \subseteq saves \cup messy
  /\ asked > 0 \/ DOMAIN lists # {} => deletes \subseteq messy

\* The page is blocked for a text that the login brings, or for a picture.
Blocks ==
  /\ "logged_in" \in log \/ first = None \/ state = "running"
  /\ blocked /\ ~stuck =>
       picture # None \/ (state = "preparing" /\ \E i \in DOMAIN waiting : waiting[i].text = "logged_in")

\* A game that is to be loaded: the server has the command, or it waits for the
\* login.
Ordered == \E i \in DOMAIN out : out[i].do = "load"
Awaited == \E i \in DOMAIN waiting : waiting[i].text = "logged_in"
PictureBefore(i) == \E j \in DOMAIN out : j < i /\ out[j].do = "load" /\ out[j].what = "picture"

\* Before anything is loaded nobody is taken.
NothingLoaded ==
  /\ \A i \in DOMAIN out : out[i].do \notin {"load", "take"}
  /\ DOMAIN waiting = {} /\ DOMAIN net = {} /\ "load_complete" \notin log
  /\ "toggle" \in later => "load" \in later

\* When one game is, it is on its way, or it is the server's and whoever is taken
\* is of it, but for the picture's timers.
OneLoaded ==
  /\ \A i, j \in DOMAIN out : out[i].do = "load" /\ out[j].do = "load" => i = j
  /\ \A i, j \in DOMAIN waiting : waiting[i].text = "logged_in" /\ waiting[j].text = "logged_in"
       => i = j
  /\ ~(Ordered /\ Awaited)
  /\ Ordered \/ Awaited => DOMAIN net = {} /\ "load_complete" \notin log
  /\ \A i \in DOMAIN net : net[i] = game
  /\ "load_complete" \in log => first = game
  /\ \A i \in DOMAIN out : out[i].do = "take" =>
       \/ ~Ordered /\ ~Awaited /\ (out[i].what = game \/ game = "picture")
       \/ PictureBefore(i)
  /\ "toggle" \in later /\ "load" \notin later =>
       \/ ~Ordered /\ ~Awaited /\ game = "picture"
       \/ \E j \in DOMAIN out : out[j].do = "load" /\ out[j].what = "picture"

Loading == (loads = 0 => NothingLoaded) /\ (loads = 1 => OneLoaded) /\ ~astray

SavesInv == SavesTypes /\ Saved /\ RowsListed /\ Blocks /\ Loading

-----------------------------------------------------------------------------
\* A sequence without one element.
LEMMA Removed ==
  ASSUME NEW s, IsSeq(s), NEW i \in DOMAIN s, NEW t, t = Shelf!Without(s, i)
  PROVE  /\ IsSeq(t)
         /\ \A k \in DOMAIN t : /\ (IF k < i THEN k ELSE k + 1) \in DOMAIN s
                                /\ t[k] = s[IF k < i THEN k ELSE k + 1]
<1>. DEFINE S == {s[k] : k \in DOMAIN s}
<1>1. Len(s) \in Nat /\ DOMAIN s = 1..Len(s) /\ s \in Seq(S)
  BY SequenceHas DEF IsSeq
<1>. PICK a : a = SubSeq(s, 1, i - 1)
  OBVIOUS
<1>. PICK b : b = SubSeq(s, i + 1, Len(s))
  OBVIOUS
<1>2. \A k \in DOMAIN s : s[k] \in S
  OBVIOUS
<1>. HIDE DEF S
<1>3. a \in Seq(S) /\ Len(a) = i - 1 /\ \A k \in 1..i - 1 : a[k] = s[k]
  <2>1. \A k \in 1..i - 1 : s[k] \in S
    BY <1>1, <1>2
  <2>2. /\ a \in Seq(S) /\ Len(a) = IF 1 <= i - 1 THEN i - 1 - 1 + 1 ELSE 0
        /\ \A k \in 1..i - 1 - 1 + 1 : a[k] = s[1 + k - 1]
    BY <1>1, <2>1, SubSeqProperties
  <2>. QED
    BY <1>1, <2>2
<1>4. b \in Seq(S) /\ Len(b) = Len(s) - i /\ \A k \in 1..Len(s) - i : b[k] = s[i + k]
  <2>1. \A k \in i + 1..Len(s) : s[k] \in S
    BY <1>1, <1>2
  <2>2. /\ b \in Seq(S) /\ Len(b) = IF i + 1 <= Len(s) THEN Len(s) - (i + 1) + 1 ELSE 0
        /\ \A k \in 1..Len(s) - (i + 1) + 1 : b[k] = s[i + 1 + k - 1]
    BY <1>1, <2>1, SubSeqProperties
  <2>. QED
    BY <1>1, <2>2
<1>5. t = a \o b
  BY DEF Shelf!Without
<1>6. /\ t \in Seq(S) /\ Len(t) = Len(a) + Len(b)
      /\ \A k \in 1 .. Len(a) + Len(b) : t[k] = IF k <= Len(a) THEN a[k] ELSE b[k - Len(a)]
  <2>1. a \in Seq(S) /\ b \in Seq(S)
    BY <1>3, <1>4
  <2>2. /\ a \o b \in Seq(S) /\ Len(a \o b) = Len(a) + Len(b)
        /\ \A k \in 1 .. Len(a) + Len(b) : (a \o b)[k] = IF k <= Len(a) THEN a[k] ELSE b[k - Len(a)]
    BY <2>1, ConcatProperties
  <2>. QED
    BY <1>5, <2>2, Zenon
<1>7. IsSeq(t)
  BY <1>6, SequenceIs
<1>8. DOMAIN t = 1..Len(s) - 1
  BY <1>1, <1>3, <1>4, <1>6, <1>7, SequenceHas
<1>10. DOMAIN t = 1..Len(a) + Len(b)
  BY <1>6, <1>7, SequenceHas
<1>9. ASSUME NEW k \in DOMAIN t
      PROVE  (IF k < i THEN k ELSE k + 1) \in DOMAIN s /\ t[k] = s[IF k < i THEN k ELSE k + 1]
  <2>1. CASE k < i
    BY <1>1, <1>3, <1>4, <1>6, <1>8, <2>1, SMTT(20)
  <2>2. CASE ~(k < i)
    <3>1. k \in Nat /\ i \in Nat /\ k - (i - 1) \in 1..Len(s) - i /\ i + (k - (i - 1)) = k + 1
            /\ k + 1 \in DOMAIN s
      BY <1>1, <1>8, <2>2
    <3>4. Len(a) = i - 1 /\ ~(k <= i - 1)
      BY <1>3, <2>2, <3>1
    <3>2. k \in 1..Len(a) + Len(b) /\ ~(k <= Len(a))
      BY <1>10, <3>4
    <3>3. t[k] = b[k - (i - 1)]
      BY <1>3, <1>6, <3>2
    <3>. QED
      BY <1>4, <2>2, <3>1, <3>3
  <2>. QED
    BY <2>1, <2>2
<1>. QED
  BY <1>7, <1>9

\* A sequence to which one element is added, or none.
LEMMA Added ==
  ASSUME NEW o, IsSeq(o), NEW c, NEW t, t = << >> \/ t = <<c>>, NEW n, n = o \o t
  PROVE  /\ IsSeq(n) /\ Len(n) <= Len(o) + 1
         /\ \A i \in DOMAIN o : i \in DOMAIN n /\ n[i] = o[i] /\ i <= Len(o)
         /\ \A i \in DOMAIN n : i \notin DOMAIN o => i = Len(o) + 1 /\ n[i] = c /\ t = <<c>>
         /\ t = <<c>> => Len(o) + 1 \in DOMAIN n /\ n[Len(o) + 1] = c
<1>1. IsSeq(t) /\ Len(t) \in 0..1 /\ DOMAIN t = 1..Len(t)
        /\ (DOMAIN t # {} => t = <<c>> /\ t[1] = c)
      /\ (t = <<c>> => Len(t) = 1)
  BY OneIs, EmptyIs
<1>2. IsSeq(n) /\ Len(n) = Len(o) + Len(t)
  BY <1>1, Joined
<1>3. \A i \in DOMAIN o : i \in DOMAIN n /\ n[i] = o[i]
  BY <1>1, Joined
<1>4. \A i \in DOMAIN n : i \notin DOMAIN o => i - Len(o) \in DOMAIN t /\ n[i] = t[i - Len(o)]
  BY <1>1, Joined
<1>5. Len(o) \in Nat /\ DOMAIN o = 1..Len(o) /\ DOMAIN n = 1..Len(n)
  BY <1>2, SequenceHas
<1>6. Len(n) <= Len(o) + 1
  BY <1>1, <1>2, <1>5
<1>7. ASSUME NEW i \in DOMAIN n, i \notin DOMAIN o
      PROVE  i = Len(o) + 1 /\ n[i] = c /\ t = <<c>>
  <2>1. i - Len(o) \in DOMAIN t /\ n[i] = t[i - Len(o)]
    BY <1>4, <1>7
  <2>2. i - Len(o) = 1 /\ t = <<c>> /\ t[1] = c
    BY <1>1, <2>1
  <2>. QED
    BY <1>5, <2>1, <2>2
<1>8. t = <<c>> => Len(o) + 1 \in DOMAIN n /\ n[Len(o) + 1] = c
  BY <1>1, <1>2, <1>5, <1>7
<1>9. \A i \in DOMAIN o : i <= Len(o)
  BY <1>5
<1>. QED
  BY <1>2, <1>3, <1>6, <1>7, <1>8, <1>9

-----------------------------------------------------------------------------
\* A load that waits for the login, or does not, and the toggle after it.
LEMMA Toggled ==
  ASSUME SavesParams, SavesTypes, NEW f, Shelf!LoadAndToggle(f)
  PROVE  /\ IsSeq(out') /\ Len(out') <= MaxOut + 1 /\ IsSeq(waiting') /\ loads' \in 0..MaxLoads
         /\ "logged_in" \notin log => Len(waiting) + 1 \in DOMAIN waiting'
              /\ waiting'[Len(waiting) + 1].text = "logged_in"
         /\ \A i \in DOMAIN waiting' :
              \/ i \in DOMAIN waiting /\ waiting'[i] = waiting[i]
              \/ i = Len(waiting) + 1 /\ waiting'[i].text = "logged_in" /\ "logged_in" \notin log
              \/ waiting'[i].text = "load_complete"
         /\ "load_complete" \notin log =>
              \A i \in DOMAIN out' : \/ i \in DOMAIN out /\ out'[i] = out[i]
                                     \/ i = Len(out) + 1 /\ out'[i].do = "load"
                                          /\ "logged_in" \in log
<1>. DEFINE x == [do |-> "load", what |-> f]
            y == [do |-> "take", what |-> first]
            v == Shelf!Wait("logged_in", f)
            w == Shelf!Wait("load_complete", "toggle")
            a == IF "logged_in" \in log THEN <<x>> ELSE << >>
            b == IF "load_complete" \in log THEN Shelf!Take ELSE << >>
            c == IF "logged_in" \in log THEN << >> ELSE <<v>>
            d == IF "load_complete" \in log THEN << >> ELSE <<w>>
            m == out \o a
            n == waiting \o c
<1>1. /\ out' = m \o b /\ waiting' = n \o d
      /\ loads < MaxLoads /\ loads' = loads + 1 /\ Len(out) < MaxOut
  BY DEF Shelf!LoadAndToggle
<1>2. IsSeq(out) /\ IsSeq(waiting) /\ Len(out) \in Nat /\ MaxOut \in Nat /\ loads \in 0..MaxLoads
      /\ MaxLoads \in Nat
  BY SequenceHas DEF SavesTypes, SavesParams
<1>3. <<x>> # << >> /\ <<y>> # << >> /\ <<v>> # << >> /\ <<w>> # << >>
  BY OneIs, EmptyIs
<1>4. /\ (a = << >> \/ a = <<x>>) /\ (b = << >> \/ b = <<y>>) /\ (c = << >> \/ c = <<v>>)
           /\ (d = << >> \/ d = <<w>>)
      /\ ("load_complete" \notin log => b # <<y>>) /\ (a = <<x>> => "logged_in" \in log)
      /\ c = <<v>> <=> "logged_in" \notin log
  BY <1>3 DEF Shelf!Take
<1>5. v.text = "logged_in" /\ w.text = "load_complete" /\ x.do = "load"
  BY DEF Shelf!Wait
<1>. HIDE DEF a, b, c, d, v, w, x, y
<1>6. m = out \o a /\ n = waiting \o c
  OBVIOUS
<1>. HIDE DEF m, n
<1>7. IsSeq(m) /\ Len(m) <= Len(out) + 1
  BY <1>2, <1>4, <1>6, Added
<1>8. /\ \A i \in DOMAIN out : m[i] = out[i]
      /\ \A i \in DOMAIN m : i \notin DOMAIN out => i = Len(out) + 1 /\ m[i] = x /\ a = <<x>>
  <2>1. \A i \in DOMAIN out : m[i] = out[i]
    BY <1>2, <1>4, <1>6, Added
  <2>2. \A i \in DOMAIN m : i \notin DOMAIN out => i = Len(out) + 1
    BY <1>2, <1>4, <1>6, Added
  <2>3. \A i \in DOMAIN m : i \notin DOMAIN out => m[i] = x
    BY <1>2, <1>4, <1>6, Added
  <2>4. \A i \in DOMAIN m : i \notin DOMAIN out => a = <<x>>
    BY <1>2, <1>4, <1>6, Added
  <2>. QED
    BY <2>1, <2>2, <2>3, <2>4
<1>9. IsSeq(out') /\ Len(out') <= Len(m) + 1
  BY <1>1, <1>4, <1>7, Added
<1>10. /\ \A i \in DOMAIN m : out'[i] = m[i]
       /\ \A i \in DOMAIN out' : i \notin DOMAIN m => b = <<y>>
  <2>1. \A i \in DOMAIN m : out'[i] = m[i]
    BY <1>1, <1>4, <1>7, Added
  <2>2. \A i \in DOMAIN out' : i \notin DOMAIN m => b = <<y>>
    BY <1>1, <1>4, <1>7, Added
  <2>. QED
    BY <2>1, <2>2
<1>11. IsSeq(n) /\ (c = <<v>> => Len(waiting) + 1 \in DOMAIN n /\ n[Len(waiting) + 1] = v)
  <2>1. IsSeq(n)
    BY <1>2, <1>4, <1>6, Added
  <2>2. c = <<v>> => Len(waiting) + 1 \in DOMAIN n /\ n[Len(waiting) + 1] = v
    BY <1>2, <1>4, <1>6, Added
  <2>. QED
    BY <2>1, <2>2
<1>16. /\ \A i \in DOMAIN waiting : n[i] = waiting[i]
       /\ \A i \in DOMAIN n : i \notin DOMAIN waiting => i = Len(waiting) + 1 /\ n[i] = v
            /\ c = <<v>>
  <2>1. \A i \in DOMAIN waiting : n[i] = waiting[i]
    BY <1>2, <1>4, <1>6, Added
  <2>2. \A i \in DOMAIN n : i \notin DOMAIN waiting => i = Len(waiting) + 1 /\ n[i] = v /\ c = <<v>>
    BY <1>2, <1>4, <1>6, Added
  <2>. QED
    BY <2>1, <2>2
<1>17. IsSeq(waiting')
  BY <1>1, <1>4, <1>11, Added
<1>18. /\ \A i \in DOMAIN n : i \in DOMAIN waiting' /\ waiting'[i] = n[i]
       /\ \A i \in DOMAIN waiting' : i \notin DOMAIN n => waiting'[i] = w
  <2>1. \A i \in DOMAIN n : i \in DOMAIN waiting' /\ waiting'[i] = n[i]
    BY <1>1, <1>4, <1>11, Added
  <2>2. \A i \in DOMAIN waiting' : i \notin DOMAIN n => waiting'[i] = w
    BY <1>1, <1>4, <1>11, Added
  <2>. QED
    BY <2>1, <2>2
<1>12. Len(out') <= MaxOut + 1 /\ loads' \in 0..MaxLoads
  BY <1>1, <1>2, <1>7, <1>9, SequenceHas
<1>13. "logged_in" \notin log => Len(waiting) + 1 \in DOMAIN waiting'
         /\ waiting'[Len(waiting) + 1].text = "logged_in"
  BY <1>4, <1>5, <1>11, <1>18
<1>14. ASSUME NEW i \in DOMAIN waiting'
       PROVE  \/ i \in DOMAIN waiting /\ waiting'[i] = waiting[i]
              \/ i = Len(waiting) + 1 /\ waiting'[i].text = "logged_in" /\ "logged_in" \notin log
              \/ waiting'[i].text = "load_complete"
  BY <1>4, <1>5, <1>16, <1>18
<1>15. ASSUME "load_complete" \notin log, NEW i \in DOMAIN out'
       PROVE  \/ i \in DOMAIN out /\ out'[i] = out[i]
              \/ i = Len(out) + 1 /\ out'[i].do = "load" /\ "logged_in" \in log
  BY <1>4, <1>5, <1>8, <1>10, <1>15
<1>. QED
  BY <1>9, <1>12, <1>13, <1>14, <1>15, <1>17

-----------------------------------------------------------------------------
\* One save in a turn, and the lists.
LEMMA TypesStep == ASSUME SavesParams, SavesInv, Shelf!Next PROVE SavesTypes'
<1>. USE DEF SavesInv, SavesTypes
<1>1. /\ IsSeq(out) /\ Len(out) \in Nat /\ IsSeq(waiting) /\ IsSeq(net) /\ IsSeq(lists)
           /\ MaxOut \in Nat /\ MaxLoads \in Nat
      /\ DOMAIN waiting = 1..Len(waiting)
  BY SequenceHas DEF SavesParams
<1>2. CASE Shelf!Served
  <2>1. out # << >> /\ out' = Tail(out) /\ (net' = net \/ net' = Append(net, Head(out).what))
    BY <1>2 DEF Shelf!Served
  <2>2. IsSeq(out') /\ Len(out') = Len(out) - 1
    BY <1>1, <2>1, Taken
  <2>3. IsSeq(net')
    BY <1>1, <2>1, Appended
  <2>4. Len(out') <= MaxOut + 1
    BY <1>1, <2>2
  <2>. QED
    BY <1>2, <2>2, <2>3, <2>4 DEF Shelf!Served, Shelf!phase, Shelf!requests, Shelf!dialogVars, Shelf!saveVars
<1>3. CASE Shelf!Receive
  <2>1. IsSeq(net')
    BY <1>1, <1>3, Taken DEF Shelf!Receive
  <2>. QED
    BY <1>3, <2>1 DEF Shelf!Receive, Shelf!phase, Shelf!requests, Shelf!dialogVars, Shelf!saveVars, Shelf!loading
<1>4. CASE Shelf!ServerLists
  <2>1. IsSeq(lists')
    BY <1>1, <1>4, Appended DEF Shelf!ServerLists
  <2>. QED
    BY <1>4, <2>1 DEF Shelf!ServerLists, Shelf!phase, Shelf!server, Shelf!dialogVars, Shelf!saveVars, Shelf!loading
<1>5. CASE Shelf!ListComes
  <2>1. IsSeq(lists') /\ dialog' \in {None, "saves", "scenarios"}
    BY <1>1, <1>5, Taken DEF Shelf!ListComes, Shelf!ShowScenarios, Shelf!Shows
  <2>. QED
    BY <1>5, <2>1 DEF Shelf!ListComes, Shelf!phase, Shelf!server, Shelf!saveVars
<1>6. ASSUME NEW c, Shelf!Says(c)
      PROVE  IsSeq(out') /\ Len(out') <= MaxOut + 1
  <2>1. Len(out) < MaxOut /\ out' = Append(out, c)
    BY <1>6 DEF Shelf!Says
  <2>2. IsSeq(out') /\ Len(out') = Len(out) + 1
    BY <1>1, <2>1, Appended
  <2>. QED
    BY <1>1, <2>1, <2>2
<1>7. CASE Shelf!ClickSave \/ Shelf!Quicksave
  <2>1. IsSeq(out') /\ Len(out') <= MaxOut + 1 /\ counted' \in Nat
    BY <1>6, <1>7 DEF Shelf!ClickSave, Shelf!Quicksave, Shelf!Counts
  <2>. QED
    BY <1>7, <2>1 DEF Shelf!ClickSave, Shelf!Quicksave, Shelf!phase, Shelf!server, Shelf!requests, Shelf!dialogVars
<1>8. CASE Shelf!LoadSavegame \/ Shelf!TimedLoad
  <2>1. /\ IsSeq(out') /\ Len(out') <= MaxOut + 1 /\ loads' \in 0..MaxLoads
             /\ dialog' \in {None, dialog}
        /\ UNCHANGED <<Shelf!phase, Shelf!server, Shelf!requests, Shelf!saveVars, waiting>>
    BY <1>1, <1>6, <1>8 DEF Shelf!LoadSavegame, Shelf!TimedLoad, Shelf!Loads, Shelf!Closed, Shelf!dialogVars
  <2>. QED
    BY <2>1 DEF Shelf!phase, Shelf!server, Shelf!requests, Shelf!saveVars
<1>9. CASE Shelf!Connects \/ Shelf!SelectScenario
  <2>1. (\E f : Shelf!LoadAndToggle(f)) \/ UNCHANGED <<out, waiting, loads>>
    BY <1>9 DEF Shelf!Connects, Shelf!SelectScenario, Shelf!loading
  <2>4. \A i \in DOMAIN waiting' : waiting'[i].text \in {"logged_in", "load_complete"}
    <3>1. ASSUME NEW f, Shelf!LoadAndToggle(f), NEW i \in DOMAIN waiting'
          PROVE  waiting'[i].text \in {"logged_in", "load_complete"}
      <4>1. \/ i \in DOMAIN waiting /\ waiting'[i] = waiting[i]
            \/ i = Len(waiting) + 1 /\ waiting'[i].text = "logged_in" /\ "logged_in" \notin log
            \/ waiting'[i].text = "load_complete"
        BY <3>1, Toggled
      <4>. QED
        BY <4>1
    <3>. QED
      BY <2>1, <3>1
  <2>2. IsSeq(out') /\ Len(out') <= MaxOut + 1 /\ IsSeq(waiting') /\ loads' \in 0..MaxLoads
    BY <1>1, <2>1, Toggled
  <2>3. /\ dialog' \in {None, "saves", "scenarios"} /\ asked' \in Nat
        /\ UNCHANGED <<state, turn, net, lists, counted>>
    BY <1>9 DEF Shelf!Connects, Shelf!SelectScenario, Shelf!ShowScenarios, Shelf!Shows, Shelf!Closed, Shelf!phase, Shelf!server, Shelf!requests, Shelf!saveVars, Shelf!dialogVars
  <2>. QED
    BY <2>2, <2>3, <2>4
<1>10. ASSUME NEW i \in 1..Len(waiting), Shelf!Poll(i)
       PROVE  SavesTypes'
  <2>1. IsSeq(waiting')
    BY <1>1, <1>10, Removed DEF Shelf!Poll
  <2>5. \A k \in DOMAIN waiting' : waiting'[k].text \in {"logged_in", "load_complete"}
    <3>1. \A k \in DOMAIN waiting' : /\ (IF k < i THEN k ELSE k + 1) \in DOMAIN waiting
                                     /\ waiting'[k] = waiting[IF k < i THEN k ELSE k + 1]
      BY <1>1, <1>10, Removed DEF Shelf!Poll
    <3>. QED
      BY <3>1
  <2>2. PICK s, c : /\ s = << >> \/ s = <<c>>
                   /\ Len(out) < MaxOut /\ out' = out \o s
    BY <1>10 DEF Shelf!Poll, Shelf!Take
  <2>3. IsSeq(out') /\ Len(out') <= Len(out) + 1
    BY <1>1, <2>2, Added
  <2>4. Len(out') \in Nat /\ Len(out') <= MaxOut + 1
    BY <1>1, <2>2, <2>3, SequenceHas
  <2>. QED
    BY <1>10, <2>1, <2>3, <2>4, <2>5 DEF Shelf!Poll, Shelf!phase, Shelf!server, Shelf!requests, Shelf!dialogVars, Shelf!saveVars
<1>11. CASE Shelf!TimedToggle
  <2>1. PICK s, c : /\ s = << >> \/ s = <<c>>
                   /\ Len(out) < MaxOut /\ out' = out \o s
    BY <1>11 DEF Shelf!TimedToggle, Shelf!Take
  <2>2. IsSeq(out') /\ Len(out') <= Len(out) + 1
    BY <1>1, <2>1, Added
  <2>3. Len(out') \in Nat /\ Len(out') <= MaxOut + 1
    BY <1>1, <2>1, <2>2, SequenceHas
  <2>. QED
    BY <1>11, <2>2, <2>3 DEF Shelf!TimedToggle, Shelf!phase, Shelf!server, Shelf!requests, Shelf!dialogVars, Shelf!saveVars
<1>12. CASE Shelf!LogsIn \/ (\E f \in deletes : Shelf!ServerDeletes(f)) \/ Shelf!SaveGame
              \/ Shelf!CloseSave
  BY <1>12 DEF Shelf!LogsIn, Shelf!ServerDeletes, Shelf!SaveGame, Shelf!CloseSave, Shelf!phase, Shelf!server, Shelf!requests, Shelf!dialogVars, Shelf!saveVars, Shelf!loading
<1>13. CASE Shelf!StartPhase
  BY <1>1, <1>13 DEF Shelf!StartPhase, Shelf!server, Shelf!requests, Shelf!dialogVars, SavesParams
<1>14. CASE Shelf!ShowLoadGameDialog \/ (\E some \in SUBSET rows : Shelf!Select(some))
              \/ Shelf!Delete
  BY <1>14 DEF Shelf!ShowLoadGameDialog, Shelf!Select, Shelf!Delete, Shelf!Deletes, Shelf!phase, Shelf!server, Shelf!requests, Shelf!dialogVars, Shelf!saveVars, Shelf!loading
<1>15. CASE Shelf!DeleteAll \/ Shelf!CloseDialog \/ Shelf!ToScenarios \/ Shelf!TimedScenarios
  BY <1>15 DEF Shelf!DeleteAll, Shelf!CloseDialog, Shelf!ToScenarios, Shelf!TimedScenarios, Shelf!Deletes, Shelf!Closed, Shelf!ShowScenarios, Shelf!Shows,
               Shelf!phase, Shelf!server, Shelf!requests, Shelf!saveVars, Shelf!loading
<1>16. CASE Shelf!ShowUpload \/ Shelf!Upload
  BY <1>16 DEF Shelf!ShowUpload, Shelf!Upload, Shelf!Closed, Shelf!phase, Shelf!server, Shelf!requests, Shelf!saveVars, Shelf!loading
<1>17. CASE \E good \in BOOLEAN : Shelf!PictureRead(good) \/ Shelf!MapMade(good)
  BY <1>17 DEF Shelf!PictureRead, Shelf!MapMade, Shelf!phase, Shelf!server, Shelf!requests, Shelf!dialogVars, Shelf!saveVars
<1>. QED
  BY <1>2, <1>3, <1>4, <1>5, <1>7, <1>8, <1>9, <1>10, <1>11, <1>12, <1>13, <1>14, <1>15, <1>16, <1>17
     DEF Shelf!Next, Shelf!Saving, Shelf!Pictures

LEMMA SavedStep == ASSUME SavesInv, Shelf!Next PROVE Saved'
<1>. Saved /\ counted \in Nat
  BY DEF SavesInv, SavesTypes
<1>1. CASE Shelf!Saving
  <2>1. CASE Shelf!SaveGame
    <3>1. /\ ~saved_this_turn /\ saved_this_turn' = ~mode.pbem /\ UNCHANGED <<mode, counted>>
      BY <2>1 DEF Shelf!SaveGame, Shelf!phase
    <3>2. ~mode'.pbem => ~mode.pbem /\ saved_this_turn'
      BY <3>1, Zenon
    <3>. QED
      BY <3>1, <3>2 DEF Saved
  <2>2. CASE Shelf!ClickSave
    BY <2>2 DEF Saved, Shelf!ClickSave, Shelf!Counts, Shelf!phase
  <2>3. CASE Shelf!CloseSave
    BY <2>3 DEF Saved, Shelf!CloseSave, Shelf!phase
  <2>4. CASE Shelf!Quicksave
    BY <2>4 DEF Saved, Shelf!Quicksave, Shelf!Counts, Shelf!phase
  <2>. QED
    BY <1>1, <2>1, <2>2, <2>3, <2>4 DEF Shelf!Saving
<1>2. CASE Shelf!StartPhase
  BY <1>2 DEF Saved, Shelf!StartPhase
<1>3. CASE Shelf!Connects
  BY <1>3 DEF Saved, Shelf!Connects, Shelf!saveVars
<1>4. CASE \/ Shelf!Served \/ Shelf!LogsIn \/ Shelf!Receive \/ Shelf!ServerLists
                \/ (\E f \in deletes : Shelf!ServerDeletes(f))
           \/ Shelf!ShowLoadGameDialog \/ Shelf!ListComes
                \/ (\E some \in SUBSET rows : Shelf!Select(some)) \/ Shelf!LoadSavegame
  <2>1. UNCHANGED <<mode, Shelf!saveVars>>
    BY <1>4 DEF Shelf!Served, Shelf!LogsIn, Shelf!Receive, Shelf!ServerLists, Shelf!ServerDeletes, Shelf!ShowLoadGameDialog, Shelf!ListComes, Shelf!Select,
                Shelf!LoadSavegame, Shelf!phase
  <2>. QED
    BY <2>1 DEF Saved, Shelf!saveVars
<1>5. CASE \/ Shelf!Delete \/ Shelf!DeleteAll \/ Shelf!CloseDialog \/ Shelf!ToScenarios
                \/ Shelf!TimedScenarios \/ Shelf!SelectScenario
           \/ (\E i \in 1..Len(waiting) : Shelf!Poll(i)) \/ Shelf!Pictures
  <2>1. UNCHANGED <<mode, Shelf!saveVars>>
    BY <1>5 DEF Shelf!Delete, Shelf!DeleteAll, Shelf!CloseDialog, Shelf!ToScenarios, Shelf!TimedScenarios, Shelf!SelectScenario, Shelf!Poll, Shelf!Pictures,
                Shelf!ShowUpload, Shelf!Upload, Shelf!PictureRead, Shelf!MapMade, Shelf!TimedLoad, Shelf!TimedToggle, Shelf!phase
  <2>. QED
    BY <2>1 DEF Saved, Shelf!saveVars
<1>. QED
  BY <1>1, <1>2, <1>3, <1>4, <1>5 DEF Shelf!Next

LEMMA ListedStep == ASSUME SavesParams, SavesInv, Shelf!Next PROVE RowsListed'
<1>1. IsSeq(lists) /\ asked \in Nat /\ RowsListed
  BY DEF SavesInv, SavesTypes
<1>2. CASE Shelf!ServerLists
  <2>1. /\ asked > 0 /\ lists' = Append(lists, saves)
        /\ UNCHANGED <<saves, messy, deletes, dialog, rows>>
    BY <1>2 DEF Shelf!ServerLists, Shelf!server, Shelf!dialogVars
  <2>2. DOMAIN lists' = DOMAIN lists \cup {Len(lists) + 1} /\ lists'[Len(lists) + 1] = saves
    BY <1>1, <2>1, Appended
  <2>3. \A i \in DOMAIN lists : lists'[i] = lists[i]
    BY <1>1, <2>1, Appended
  <2>. QED
    BY <1>1, <2>1, <2>2, <2>3 DEF RowsListed
<1>3. ASSUME NEW f \in deletes, Shelf!ServerDeletes(f)
      PROVE  RowsListed'
  BY <1>1, <1>3 DEF RowsListed, Shelf!ServerDeletes, Shelf!dialogVars
<1>4. CASE Shelf!ListComes
  <2>1. lists # << >> /\ lists' = Tail(lists) /\ UNCHANGED <<saves, messy, deletes, asked>>
    BY <1>4 DEF Shelf!ListComes, Shelf!server
  <2>2. \A i \in DOMAIN lists' : i + 1 \in DOMAIN lists /\ lists'[i] = lists[i + 1]
    BY <1>1, <2>1, Taken
  <2>3. 1 \in DOMAIN lists /\ Head(lists) = lists[1]
    BY <1>1, <2>1, Taken
  <2>4. dialog' = "saves" => rows' = lists[1]
    BY <1>4, <2>3 DEF Shelf!ListComes, Shelf!ShowScenarios, Shelf!Shows
  <2>. QED
    BY <1>1, <2>1, <2>2, <2>3, <2>4 DEF RowsListed
<1>5. CASE Shelf!ShowLoadGameDialog \/ Shelf!Connects
  <2>1. /\ (asked' = asked /\ messy' = messy) \/ messy' = messy \cup deletes
        /\ UNCHANGED <<saves, deletes, lists>>
        /\ (UNCHANGED <<dialog, rows>> \/ dialog' = "scenarios")
    BY <1>5 DEF Shelf!ShowLoadGameDialog, Shelf!Connects, Shelf!ShowScenarios, Shelf!Shows, Shelf!server, Shelf!dialogVars
  <2>. QED
    BY <1>1, <2>1 DEF RowsListed
<1>6. ASSUME NEW some, Shelf!Deletes(some), UNCHANGED <<saves, asked, lists>>,
             dialog' = None \/ (dialog' = dialog /\ rows' = rows \ some)
      PROVE  RowsListed'
  <2>1. asked > 0 \/ DOMAIN lists # {} => messy' = messy \cup some
    BY <1>1, <1>6, EmptyIs DEF Shelf!Deletes
  <2>2. messy \subseteq messy' /\ deletes' = deletes \cup some
    BY <1>6 DEF Shelf!Deletes
  <2>. QED
    BY <1>1, <1>6, <2>1, <2>2 DEF RowsListed, SavesParams
<1>7. CASE Shelf!Delete \/ Shelf!DeleteAll
  BY <1>6, <1>7 DEF Shelf!Delete, Shelf!DeleteAll, Shelf!Closed, Shelf!server
<1>8. CASE \/ (\E some \in SUBSET rows : Shelf!Select(some)) \/ Shelf!LoadSavegame
                \/ Shelf!CloseDialog \/ Shelf!ToScenarios
           \/ Shelf!TimedScenarios \/ Shelf!SelectScenario
  <2>1. /\ UNCHANGED <<saves, Shelf!requests, messy>>
        /\ UNCHANGED <<dialog, rows>> \/ dialog' \in {"scenarios", None}
    BY <1>8 DEF Shelf!Select, Shelf!LoadSavegame, Shelf!CloseDialog, Shelf!ToScenarios, Shelf!TimedScenarios, Shelf!SelectScenario, Shelf!Closed,
                Shelf!ShowScenarios, Shelf!Shows, Shelf!server
  <2>. QED
    BY <1>1, <2>1 DEF RowsListed, Shelf!requests, SavesParams
<1>9. CASE Shelf!Served \/ Shelf!LogsIn \/ Shelf!Receive \/ Shelf!StartPhase \/ Shelf!Saving
             \/ (\E i \in 1..Len(waiting) : Shelf!Poll(i)) \/ Shelf!Pictures
  <2>1. /\ UNCHANGED <<saves, Shelf!requests, messy>>
        /\ UNCHANGED <<dialog, rows>> \/ dialog' = None
    BY <1>9 DEF Shelf!Served, Shelf!LogsIn, Shelf!Receive, Shelf!StartPhase, Shelf!Saving, Shelf!SaveGame, Shelf!ClickSave, Shelf!CloseSave, Shelf!Quicksave, Shelf!Poll, Shelf!Pictures,
                Shelf!ShowUpload, Shelf!Upload, Shelf!PictureRead, Shelf!MapMade, Shelf!TimedLoad, Shelf!TimedToggle, Shelf!Closed, Shelf!server, Shelf!dialogVars
  <2>. QED
    BY <1>1, <2>1 DEF RowsListed, Shelf!requests, SavesParams
<1>. QED
  BY <1>2, <1>3, <1>4, <1>5, <1>7, <1>8, <1>9 DEF Shelf!Next

LEMMA BlocksStep == ASSUME SavesParams, SavesInv, Shelf!Next PROVE Blocks'
<1>1. Blocks /\ state \in {"preparing", "running"} /\ IsSeq(waiting)
  BY DEF SavesInv, SavesTypes
<1>2. CASE Shelf!LogsIn \/ Shelf!Receive
  BY <1>1, <1>2 DEF Blocks, Shelf!LogsIn, Shelf!Receive, Shelf!phase, Shelf!loading, Shelf!pictureVars
<1>3. CASE Shelf!StartPhase
  BY <1>1, <1>3 DEF Blocks, Shelf!StartPhase, Shelf!pictureVars
<1>4. CASE Shelf!ListComes \/ Shelf!ToScenarios \/ Shelf!TimedScenarios \/ Shelf!TimedToggle
             \/ (\E i \in 1..Len(waiting) : Shelf!Poll(i))
  <2>1. UNCHANGED <<log, first, state, stuck, picture>>
          /\ (~blocked' \/ UNCHANGED <<blocked, waiting>>)
    BY <1>4 DEF Shelf!ListComes, Shelf!ToScenarios, Shelf!TimedScenarios, Shelf!TimedToggle, Shelf!Poll, Shelf!ShowScenarios, Shelf!phase, Shelf!mirror, Shelf!pictureVars
  <2>. QED
    BY <1>1, <2>1 DEF Blocks
<1>5. CASE Shelf!Connects \/ Shelf!SelectScenario
  <2>1. UNCHANGED <<log, first, state, picture>>
    BY <1>5 DEF Shelf!Connects, Shelf!SelectScenario, Shelf!phase, Shelf!mirror, Shelf!pictureVars
  <2>2. CASE UNCHANGED <<waiting, stuck>> /\ (blocked' => blocked)
    BY <1>1, <2>1, <2>2 DEF Blocks
  <2>3. ASSUME NEW f, Shelf!LoadAndToggle(f)
        PROVE  Blocks'
    <3>1. (blocked' => "logged_in" \notin log) /\ stuck' = (stuck \/ state = "running")
      BY <2>3 DEF Shelf!LoadAndToggle
    <3>2. "logged_in" \notin log => Len(waiting) + 1 \in DOMAIN waiting'
            /\ waiting'[Len(waiting) + 1].text = "logged_in"
      BY <2>3, Toggled DEF SavesInv
    <3>. QED
      BY <1>1, <2>1, <3>1, <3>2 DEF Blocks
  <2>4. (\E f : Shelf!LoadAndToggle(f)) \/ (UNCHANGED <<waiting, stuck>> /\ (blocked' => blocked))
    BY <1>5 DEF Shelf!Connects, Shelf!SelectScenario, Shelf!ShowScenarios, Shelf!loading
  <2>. QED
    BY <2>2, <2>3, <2>4
<1>6. CASE Shelf!Upload \/ \E good \in BOOLEAN : Shelf!PictureRead(good) \/ Shelf!MapMade(good)
  <2>1. UNCHANGED <<log, first, state, waiting>> /\ (blocked' /\ ~stuck' => picture' # None)
    BY <1>1, <1>6 DEF Shelf!Upload, Shelf!PictureRead, Shelf!MapMade, Shelf!phase, Shelf!mirror, Blocks, SavesParams
  <2>. QED
    BY <1>1, <2>1 DEF Blocks
<1>7. CASE \/ Shelf!Served \/ Shelf!ServerLists \/ (\E f \in deletes : Shelf!ServerDeletes(f))
                \/ Shelf!Saving \/ Shelf!ShowLoadGameDialog
           \/ (\E some \in SUBSET rows : Shelf!Select(some)) \/ Shelf!LoadSavegame
                \/ Shelf!Delete \/ Shelf!DeleteAll \/ Shelf!CloseDialog
           \/ Shelf!ShowUpload \/ Shelf!TimedLoad
  <2>1. UNCHANGED <<log, first, state, waiting, blocked, stuck, picture>>
    BY <1>7 DEF Shelf!Served, Shelf!ServerLists, Shelf!ServerDeletes, Shelf!Saving, Shelf!SaveGame, Shelf!ClickSave, Shelf!CloseSave, Shelf!Quicksave,
                Shelf!ShowLoadGameDialog, Shelf!Select, Shelf!LoadSavegame, Shelf!Delete, Shelf!DeleteAll, Shelf!CloseDialog, Shelf!ShowUpload, Shelf!TimedLoad,
                Shelf!phase, Shelf!mirror, Shelf!loading, Shelf!pictureVars
  <2>. QED
    BY <1>1, <2>1 DEF Blocks
<1>. QED
  BY <1>2, <1>3, <1>4, <1>5, <1>6, <1>7 DEF Shelf!Next, Shelf!Pictures

-----------------------------------------------------------------------------
\* One game at a time.

\* Commands that load nothing and take nobody, and what else stays.
LEMMA LoadingLess ==
  ASSUME SavesInv, UNCHANGED <<net, game, waiting, loads, astray>>,
         "load_complete" \in log' => "load_complete" \in log /\ first' = first,
         "toggle" \in later' /\ "load" \notin later' => "toggle" \in later /\ "load" \notin later,
         \A i \in DOMAIN out : i \in DOMAIN out' /\ out'[i] = out[i],
         \A i \in DOMAIN out' : i \in DOMAIN out \/ out'[i].do \notin {"load", "take"}
  PROVE  Loading'
<1>1. Loading
  BY DEF SavesInv
<1>2. ASSUME NothingLoaded
      PROVE  NothingLoaded'
  BY <1>2 DEF NothingLoaded
<1>3. ASSUME OneLoaded
      PROVE  OneLoaded'
  <2>1. (Ordered' => Ordered) /\ (Awaited' => Awaited)
    BY DEF Ordered, Awaited
  <2>2. \A i \in DOMAIN out : PictureBefore(i) => PictureBefore(i)'
    BY DEF PictureBefore
  <2>3. \A i, j \in DOMAIN out' : out'[i].do = "load" /\ out'[j].do = "load" => i = j
    BY <1>3 DEF OneLoaded
  <2>4. \A i \in DOMAIN out' : out'[i].do = "take" =>
          (~Ordered' /\ ~Awaited' /\ (out'[i].what = game' \/ game' = "picture"))
            \/ PictureBefore(i)'
    BY <1>3, <2>1, <2>2 DEF OneLoaded
  <2>5. "toggle" \in later' /\ "load" \notin later' =>
          \/ ~Ordered' /\ ~Awaited' /\ game' = "picture"
          \/ \E j \in DOMAIN out' : out'[j].do = "load" /\ out'[j].what = "picture"
    BY <1>3, <2>1 DEF OneLoaded
  <2>. QED
    BY <1>3, <2>1, <2>3, <2>4, <2>5 DEF OneLoaded
<1>. QED
  BY <1>1, <1>2, <1>3 DEF Loading

\* Somebody of the game that is there is taken.
LEMMA TakenThen ==
  ASSUME SavesInv, UNCHANGED <<net, game, log, first, loads, astray>>, IsSeq(out'), loads > 0,
         loads = 1 => "load_complete" \in log \/ ("toggle" \in later /\ "load" \notin later),
         "toggle" \in later' /\ "load" \notin later' => "toggle" \in later /\ "load" \notin later,
         \A i \in DOMAIN out : i \in DOMAIN out' /\ out'[i] = out[i] /\ i <= Len(out),
         \A i \in DOMAIN out' : i \in DOMAIN out
            \/ (i = Len(out) + 1 /\ out'[i].do = "take" /\ out'[i].what = first),
         Awaited' => Awaited,
         \A i, j \in DOMAIN waiting' : waiting'[i].text = "logged_in"
           /\ waiting'[j].text = "logged_in" => i = j
            \/ ~OneLoaded
  PROVE  Loading'
<1>1. Loading /\ loads \in Nat /\ Len(out) \in Nat
  BY SequenceHas DEF SavesInv, SavesTypes
<1>2. ASSUME OneLoaded, loads = 1
      PROVE  OneLoaded'
  <2>1. (Ordered' => Ordered) /\ (Awaited' => Awaited)
    BY DEF Ordered
  <2>2. \A i \in DOMAIN out : PictureBefore(i) => PictureBefore(i)'
    BY DEF PictureBefore
  <2>3. \A i, j \in DOMAIN out' : out'[i].do = "load" /\ out'[j].do = "load" => i = j
    BY <1>2 DEF OneLoaded
  <2>4. ASSUME NEW i \in DOMAIN out', out'[i].do = "take"
        PROVE  (~Ordered' /\ ~Awaited' /\ (out'[i].what = game' \/ game' = "picture"))
                 \/ PictureBefore(i)'
    <3>1. CASE i \in DOMAIN out
      BY <1>2, <2>1, <2>2, <2>4, <3>1 DEF OneLoaded
    <3>2. CASE i \notin DOMAIN out
      <4>1. i = Len(out) + 1 /\ out'[i].what = first
        BY <3>2
      <4>2. CASE "load_complete" \in log
        BY <1>2, <2>1, <4>1, <4>2 DEF OneLoaded
      <4>3. CASE "load_complete" \notin log
        <5>1. \/ ~Ordered /\ ~Awaited /\ game = "picture"
              \/ \E j \in DOMAIN out : out[j].do = "load" /\ out[j].what = "picture"
          BY <1>2, <4>3 DEF OneLoaded
        <5>2. ASSUME NEW j \in DOMAIN out, out[j].do = "load", out[j].what = "picture"
              PROVE  PictureBefore(i)'
          <6>1. j \in DOMAIN out' /\ out'[j] = out[j] /\ j < i
            BY <1>1, <4>1, SequenceHas DEF SavesInv, SavesTypes
          <6>. QED
            BY <5>2, <6>1 DEF PictureBefore
        <5>. QED
          BY <2>1, <5>1, <5>2
      <4>. QED
        BY <4>2, <4>3
    <3>. QED
      BY <3>1, <3>2
  <2>5. "toggle" \in later' /\ "load" \notin later' =>
          \/ ~Ordered' /\ ~Awaited' /\ game' = "picture"
          \/ \E j \in DOMAIN out' : out'[j].do = "load" /\ out'[j].what = "picture"
    BY <1>2, <2>1 DEF OneLoaded
  <2>. QED
    BY <1>2, <2>1, <2>3, <2>4, <2>5 DEF OneLoaded
<1>. QED
  BY <1>1, <1>2 DEF Loading

\* The first load.
LEMMA FirstLoad ==
  ASSUME NothingLoaded, IsSeq(out), UNCHANGED <<net, game, log, first>>,
         \A i \in DOMAIN out' :
           \/ i \in DOMAIN out /\ out'[i] = out[i]
           \/ i = Len(out) + 1 /\ out'[i].do = "load" /\ DOMAIN waiting' = {}
           \/ i = Len(out) + 1 /\ out'[i].do = "load" /\ ~Awaited',
         \A i \in DOMAIN waiting' :
           (i = Len(waiting) + 1 /\ waiting'[i].text = "logged_in")
             \/ waiting'[i].text = "load_complete",
         "toggle" \in later' /\ "load" \notin later' =>
           \E j \in DOMAIN out' : out'[j].do = "load" /\ out'[j].what = "picture"
  PROVE  OneLoaded'
<1>1. \A i \in DOMAIN out' : out'[i].do # "take"
  BY DEF NothingLoaded
<1>2. \A i, j \in DOMAIN out' : out'[i].do = "load" /\ out'[j].do = "load" => i = j
  BY DEF NothingLoaded
<1>3. \A i, j \in DOMAIN waiting' : waiting'[i].text = "logged_in"
        /\ waiting'[j].text = "logged_in" => i = j
  OBVIOUS
<1>4. ~(Ordered' /\ Awaited')
  BY DEF Ordered, Awaited, NothingLoaded
<1>5. DOMAIN net' = {} /\ "load_complete" \notin log'
  BY DEF NothingLoaded
<1>. QED
  BY <1>1, <1>2, <1>3, <1>4, <1>5 DEF OneLoaded

\* The server takes a command.
LEMMA ServedKeeps == ASSUME SavesParams, SavesInv, Shelf!Served PROVE Loading'
<1>. PICK c : c = Head(out)
  OBVIOUS
<1>1. /\ out # << >> /\ out' = Tail(out)
      /\ UNCHANGED <<log, first, waiting, loads, later>>
      /\ \/ c.do = "load" /\ game' = c.what /\ net' = Append(net, c.what)
         \/ UNCHANGED <<game, net>> /\ (c.do = "load" => c.what # "picture")
      /\ astray' = (astray \/ (c.do = "take" /\ c.what # game /\ loads = 1 /\ game # "picture"))
  BY DEF Shelf!Served, Shelf!mirror, Shelf!pictureVars
<1>2. IsSeq(out) /\ IsSeq(net) /\ Loading /\ DOMAIN out = 1..Len(out) /\ Len(out) \in Nat
  BY SequenceHas DEF SavesInv, SavesTypes
<1>3. \A i \in DOMAIN out' : i + 1 \in DOMAIN out /\ out'[i] = out[i + 1]
  BY <1>1, <1>2, Taken
<1>4. \A i \in DOMAIN out : i # 1 => i - 1 \in DOMAIN out' /\ out'[i - 1] = out[i]
  BY <1>1, <1>2, Taken
<1>5. 1 \in DOMAIN out /\ c = out[1]
  BY <1>1, <1>2, Taken
<1>6. IsSeq(out')
  BY <1>1, <1>2, Taken
<1>7. DOMAIN out' = 1..Len(out') /\ Len(out') \in Nat
  BY <1>6, SequenceHas
<1>8. ASSUME NothingLoaded, loads = 0
      PROVE  NothingLoaded' /\ ~astray'
  BY <1>1, <1>2, <1>3, <1>5, <1>8 DEF NothingLoaded, Loading
<1>9. ASSUME OneLoaded, loads = 1
      PROVE  OneLoaded' /\ ~astray'
  <2>1. (Ordered' => Ordered) /\ (Awaited' <=> Awaited)
    BY <1>1, <1>3 DEF Ordered, Awaited
  <2>2. \A i, j \in DOMAIN out' : out'[i].do = "load" /\ out'[j].do = "load" => i = j
    <3>. SUFFICES ASSUME NEW i \in DOMAIN out', NEW j \in DOMAIN out', out'[i].do = "load",
                  out'[j].do = "load"
                  PROVE  i = j
      OBVIOUS
    <3>1. i + 1 = j + 1
      BY <1>3, <1>9 DEF OneLoaded
    <3>. QED
      BY <1>7, <3>1
  <2>3. CASE c.do = "load"
    <3>1. ~Awaited /\ DOMAIN net = {} /\ "load_complete" \notin log /\ Ordered
      BY <1>5, <1>9, <2>3 DEF OneLoaded, Ordered
    <3>2. \A i \in DOMAIN out' : out'[i].do # "load"
      <4>. SUFFICES ASSUME NEW i \in DOMAIN out', out'[i].do = "load"
                    PROVE  FALSE
        OBVIOUS
      <4>1. i + 1 = 1
        BY <1>3, <1>5, <1>9, <2>3 DEF OneLoaded
      <4>. QED
        BY <1>7, <4>1
    <3>3. ~Ordered'
      BY <3>2 DEF Ordered
    <3>4. \A i \in DOMAIN out : out[i].do = "load" => out[i] = c
      BY <1>5, <1>9, <2>3 DEF OneLoaded
    <3>5. c.what = "picture" => game' = "picture"
      BY <1>1, <2>3
    <3>6. ASSUME NEW i \in DOMAIN out', out'[i].do = "take"
          PROVE  game' = "picture"
      <4>1. PictureBefore(i + 1)
        BY <1>3, <1>9, <3>1, <3>6 DEF OneLoaded
      <4>. QED
        BY <3>4, <3>5, <4>1 DEF PictureBefore
    <3>7. "toggle" \in later' /\ "load" \notin later' => game' = "picture"
      BY <1>1, <1>9, <3>1, <3>4, <3>5 DEF OneLoaded
    <3>8. \A i \in DOMAIN net' : net'[i] = game'
      <4>1. CASE net' = net
        BY <3>1, <4>1
      <4>2. CASE game' = c.what /\ net' = Append(net, c.what)
        <5>1. DOMAIN net' = DOMAIN net \cup {Len(net) + 1} /\ net'[Len(net) + 1] = c.what
          BY <1>2, <4>2, Appended
        <5>. QED
          BY <3>1, <4>2, <5>1
      <4>. QED
        BY <1>1, <4>1, <4>2
    <3>9. ~astray'
      BY <1>1, <1>2, <2>3 DEF Loading
    <3>. QED
      BY <1>1, <1>9, <2>1, <2>2, <3>1, <3>3, <3>6, <3>7, <3>8, <3>9 DEF OneLoaded
  <2>4. CASE c.do # "load"
    <3>1. UNCHANGED <<game, net>>
      BY <1>1, <2>4
    <3>2. \A i \in DOMAIN out : out[i].do = "load" => i # 1
      BY <1>5, <2>4
    <3>3. \A i \in DOMAIN out' : PictureBefore(i + 1) => PictureBefore(i)'
      <4>. SUFFICES ASSUME NEW i \in DOMAIN out', NEW j \in DOMAIN out,
                           j < i + 1, out[j].do = "load", out[j].what = "picture"
                    PROVE  PictureBefore(i)'
        BY DEF PictureBefore
      <4>1. j - 1 \in DOMAIN out' /\ out'[j - 1] = out[j]
        BY <1>4, <3>2
      <4>2. j - 1 < i
        BY <1>2, <1>7
      <4>. QED
        BY <4>1, <4>2 DEF PictureBefore
    <3>4. \A i \in DOMAIN out' : out'[i].do = "take" =>
            (~Ordered' /\ ~Awaited' /\ (out'[i].what = game' \/ game' = "picture"))
              \/ PictureBefore(i)'
      BY <1>3, <1>9, <2>1, <3>1, <3>3 DEF OneLoaded
    <3>5. "toggle" \in later' /\ "load" \notin later' =>
            \/ ~Ordered' /\ ~Awaited' /\ game' = "picture"
            \/ \E j \in DOMAIN out' : out'[j].do = "load" /\ out'[j].what = "picture"
      <4>1. \A j \in DOMAIN out : out[j].do = "load" => j - 1 \in DOMAIN out'
              /\ out'[j - 1] = out[j]
        BY <1>4, <3>2
      <4>. QED
        BY <1>1, <1>9, <2>1, <3>1, <4>1 DEF OneLoaded
    <3>6. ~astray'
      <4>1. ~PictureBefore(1)
        BY <1>2 DEF PictureBefore
      <4>2. c.do = "take" => c.what = game \/ game = "picture"
        BY <1>5, <1>9, <4>1 DEF OneLoaded
      <4>. QED
        BY <1>1, <1>2, <4>2 DEF Loading
    <3>. QED
      BY <1>1, <1>9, <2>1, <2>2, <3>1, <3>4, <3>5, <3>6 DEF OneLoaded
  <2>. QED
    BY <2>3, <2>4
<1>. QED
  BY <1>1, <1>2, <1>8, <1>9 DEF Loading

\* The players of the game that was loaded arrive.
LEMMA ReceiveKeeps == ASSUME SavesParams, SavesInv, Shelf!Receive PROVE Loading'
<1>1. /\ net # << >> /\ net' = Tail(net) /\ first' = Head(net)
           /\ UNCHANGED <<game, out, waiting, loads, later, astray>>
      /\ log' = log \cup {"load_complete"}
  BY DEF Shelf!Receive, Shelf!loading, Shelf!pictureVars
<1>2. IsSeq(net) /\ Loading
  BY DEF SavesInv, SavesTypes
<1>3. \A i \in DOMAIN net' : i + 1 \in DOMAIN net /\ net'[i] = net[i + 1]
  BY <1>1, <1>2, Taken
<1>4. 1 \in DOMAIN net /\ Head(net) = net[1]
  BY <1>1, <1>2, Taken
<1>5. ~NothingLoaded
  BY <1>4 DEF NothingLoaded
<1>6. ASSUME OneLoaded
      PROVE  OneLoaded'
  <2>1. ~Ordered /\ ~Awaited /\ first' = game
    BY <1>1, <1>4, <1>6 DEF OneLoaded
  <2>2. UNCHANGED <<Ordered, Awaited>> /\ \A i : PictureBefore(i)' = PictureBefore(i)
    BY <1>1 DEF Ordered, Awaited, PictureBefore
  <2>. QED
    BY <1>1, <1>3, <1>6, <2>1, <2>2 DEF OneLoaded
<1>. QED
  BY <1>1, <1>2, <1>5, <1>6 DEF Loading

\* A load is sent.
LEMMA LoadsKeeps ==
  ASSUME SavesParams, SavesInv, NEW f, Shelf!Loads(f),
         UNCHANGED <<net, game, log, first, waiting, astray>>,
         UNCHANGED later \/ f = "picture"
  PROVE  Loading'
<1>1. /\ loads' = loads + 1 /\ out' = Append(out, [do |-> "load", what |-> f])
      /\ IsSeq(out) /\ Loading /\ loads \in Nat
  BY DEF Shelf!Loads, Shelf!Says, SavesInv, SavesTypes
<1>2. DOMAIN out' = DOMAIN out \cup {Len(out) + 1}
        /\ out'[Len(out) + 1] = [do |-> "load", what |-> f]
  BY <1>1, Appended
<1>3. \A i \in DOMAIN out : out'[i] = out[i]
  BY <1>1, Appended
<1>4. ASSUME NothingLoaded
      PROVE  OneLoaded'
  <2>1. DOMAIN waiting' = {} /\ ("toggle" \in later => "load" \in later)
    BY <1>4 DEF NothingLoaded
  <2>2. out'[Len(out) + 1].do = "load" /\ out'[Len(out) + 1].what = f
          /\ Len(out) + 1 \in DOMAIN out'
    BY <1>2
  <2>3. "toggle" \in later' /\ "load" \notin later' =>
           \E j \in DOMAIN out' : out'[j].do = "load" /\ out'[j].what = "picture"
    BY <2>1, <2>2
  <2>. QED
    BY <1>1, <1>2, <1>3, <1>4, <2>1, <2>2, <2>3, FirstLoad
<1>5. ~astray'
  BY <1>1 DEF Loading
<1>. QED
  BY <1>1, <1>4, <1>5 DEF Loading

LEMMA ToggleKeeps ==
  ASSUME SavesParams, SavesInv, NEW f, Shelf!LoadAndToggle(f),
         UNCHANGED <<net, game, log, first, later, astray>>
  PROVE  Loading'
<1>1. SavesTypes /\ Loading /\ loads \in Nat /\ IsSeq(out) /\ loads' = loads + 1
  BY DEF SavesInv, SavesTypes, Shelf!LoadAndToggle
<1>2. ASSUME NothingLoaded
      PROVE  OneLoaded'
  <2>1. "load_complete" \notin log /\ DOMAIN waiting = {}
          /\ ("toggle" \in later => "load" \in later)
    BY <1>2 DEF NothingLoaded
  <2>2. \A i \in DOMAIN waiting' :
              \/ i \in DOMAIN waiting /\ waiting'[i] = waiting[i]
              \/ i = Len(waiting) + 1 /\ waiting'[i].text = "logged_in" /\ "logged_in" \notin log
              \/ waiting'[i].text = "load_complete"
    BY <1>1, Toggled
  <2>3. \A i \in DOMAIN out' :
              \/ i \in DOMAIN out /\ out'[i] = out[i]
              \/ i = Len(out) + 1 /\ out'[i].do = "load" /\ "logged_in" \in log
    BY <1>1, <2>1, Toggled
  <2>4. "logged_in" \in log => ~Awaited'
    BY <2>1, <2>2 DEF Awaited
  <2>. QED
    BY <1>1, <1>2, <2>1, <2>2, <2>3, <2>4, FirstLoad
<1>3. ~astray'
  BY <1>1 DEF Loading
<1>. QED
  BY <1>1, <1>2, <1>3 DEF Loading

\* Whoever is first is taken, or nobody.
LEMMA TakeSaid ==
  ASSUME IsSeq(out), out' = out \o Shelf!Take
  PROVE  /\ IsSeq(out') /\ \A i \in DOMAIN out : i \in DOMAIN out' /\ out'[i] = out[i]
              /\ i <= Len(out)
         /\ \A i \in DOMAIN out' : i \in DOMAIN out
              \/ (i = Len(out) + 1 /\ out'[i].do = "take" /\ out'[i].what = first)
<1>. PICK y : y = [do |-> "take", what |-> first]
  OBVIOUS
<1>. PICK s : s = Shelf!Take
  OBVIOUS
<1>1. (s = << >> \/ s = <<y>>) /\ out' = out \o s
  BY DEF Shelf!Take
<1>2. IsSeq(out')
  <2>1. IsSeq(s)
    BY <1>1, OneIs, EmptyIs
  <2>. QED
    BY <1>1, <2>1, Joined
<1>3. \A i \in DOMAIN out : i \in DOMAIN out' /\ out'[i] = out[i] /\ i <= Len(out)
  BY <1>1, Added
<1>4. \A i \in DOMAIN out' : i \notin DOMAIN out => i = Len(out) + 1 /\ out'[i] = y
  BY <1>1, Added
<1>. QED
  BY <1>2, <1>3, <1>4

\* A poller finds its text.
LEMMA PollerKeeps == ASSUME SavesParams, SavesInv, NEW i \in 1..Len(waiting),
                     Shelf!Poll(i) PROVE Loading'
<1>1. /\ waiting[i].text \in log /\ waiting' = Shelf!Without(waiting, i)
      /\ UNCHANGED <<net, game, log, first, loads, later, astray>>
      /\ \/ waiting[i].text = "load_complete" /\ out' = out \o Shelf!Take
         \/ waiting[i].text # "load_complete"
              /\ out' = out \o << [do |-> "load", what |-> waiting[i].then] >>
  BY DEF Shelf!Poll, Shelf!server, Shelf!mirror, Shelf!pictureVars
<1>2. IsSeq(out) /\ IsSeq(waiting) /\ Loading /\ i \in DOMAIN waiting /\ loads \in Nat
  BY SequenceHas DEF SavesInv, SavesTypes
<1>3. IsSeq(waiting') /\ DOMAIN waiting' = 1..Len(waiting')
  BY <1>1, <1>2, Removed, SequenceHas
<1>4. \A k \in DOMAIN waiting' : /\ (IF k < i THEN k ELSE k + 1) \in DOMAIN waiting
                                 /\ waiting'[k] = waiting[IF k < i THEN k ELSE k + 1]
  BY <1>1, <1>2, Removed
<1>5. Awaited' => Awaited
  BY <1>4 DEF Awaited
<1>6. ~NothingLoaded
  BY <1>2 DEF NothingLoaded
<1>7. ASSUME OneLoaded
      PROVE  \A k, l \in DOMAIN waiting' : waiting'[k].text = "logged_in"
               /\ waiting'[l].text = "logged_in" => k = l
  <2>. SUFFICES ASSUME NEW k \in DOMAIN waiting', NEW l \in DOMAIN waiting',
                       waiting'[k].text = "logged_in", waiting'[l].text = "logged_in"
                PROVE  k = l
    OBVIOUS
  <2>1. (IF k < i THEN k ELSE k + 1) = (IF l < i THEN l ELSE l + 1)
    BY <1>4, <1>7 DEF OneLoaded
  <2>. QED
    BY <1>3, <2>1
<1>8. CASE waiting[i].text = "load_complete"
  <2>1. "load_complete" \in log /\ out' = out \o Shelf!Take
    BY <1>1, <1>8
  <2>. QED
    BY <1>1, <1>2, <1>5, <1>6, <1>7, <2>1, TakeSaid, TakenThen DEF Loading
<1>9. CASE waiting[i].text # "load_complete"
  <2>. PICK c : c = [do |-> "load", what |-> waiting[i].then]
    OBVIOUS
  <2>1. waiting[i].text = "logged_in" /\ Awaited
    BY <1>2, <1>9 DEF Awaited, SavesInv, SavesTypes
  <2>2. out' = out \o <<c>>
    BY <1>1, <1>9
  <2>3. \A k \in DOMAIN out : out'[k] = out[k]
    BY <1>2, <2>2, Added
  <2>4. \A k \in DOMAIN out' : k \notin DOMAIN out => k = Len(out) + 1 /\ out'[k] = c
    BY <1>2, <2>2, Added
  <2>5. ASSUME OneLoaded
        PROVE  OneLoaded'
    <3>1. ~Ordered /\ DOMAIN net = {} /\ "load_complete" \notin log
      BY <1>7, <2>1, <2>5 DEF OneLoaded
    <3>2. ~Awaited'
      <4>. SUFFICES ASSUME NEW k \in DOMAIN waiting', waiting'[k].text = "logged_in"
                    PROVE  FALSE
        BY DEF Awaited
      <4>1. (IF k < i THEN k ELSE k + 1) = i
        BY <1>2, <1>4, <2>1, <2>5 DEF OneLoaded
      <4>. QED
        BY <1>3, <4>1
    <3>3. \A k \in DOMAIN out : out[k].do \notin {"load", "take"}
      BY <2>1, <2>5, <3>1 DEF OneLoaded, Ordered, PictureBefore
    <3>4. \A k \in DOMAIN out' : out'[k].do # "take"
      BY <2>3, <2>4, <3>3
    <3>5. \A k, l \in DOMAIN out' : out'[k].do = "load" /\ out'[l].do = "load" => k = l
      BY <2>3, <2>4, <3>3
    <3>6. ~("toggle" \in later /\ "load" \notin later)
      BY <2>1, <2>5, <3>3 DEF OneLoaded
    <3>. QED
      BY <1>1, <1>7, <2>5, <3>1, <3>2, <3>4, <3>5, <3>6 DEF OneLoaded
  <2>. QED
    BY <1>1, <1>2, <1>6, <2>5 DEF Loading
<1>. QED
  BY <1>8, <1>9

LEMMA LoadingStep == ASSUME SavesParams, SavesInv, Shelf!Next PROVE Loading'
<1>1. CASE Shelf!ClickSave \/ Shelf!Quicksave
  <2>1. /\ Shelf!Says(Shelf!Save)
             /\ UNCHANGED <<net, game, waiting, loads, astray, log, first, later>>
    BY <1>1 DEF Shelf!ClickSave, Shelf!Quicksave, Shelf!server, Shelf!mirror, Shelf!pictureVars
  <2>2. IsSeq(out) /\ out' = Append(out, Shelf!Save)
    BY <2>1 DEF Shelf!Says, SavesInv, SavesTypes
  <2>3. DOMAIN out' = DOMAIN out \cup {Len(out) + 1} /\ out'[Len(out) + 1] = Shelf!Save
    BY <2>2, Appended
  <2>4. \A i \in DOMAIN out : out'[i] = out[i]
    BY <2>2, Appended
  <2>. QED
    BY <2>1, <2>3, <2>4, LoadingLess DEF Shelf!Save
<1>2. CASE Shelf!LoadSavegame \/ Shelf!TimedLoad
  <2>1. UNCHANGED <<net, game, log, first, waiting, astray>>
    BY <1>2 DEF Shelf!LoadSavegame, Shelf!TimedLoad, Shelf!server, Shelf!mirror
  <2>2. \E f : Shelf!Loads(f) /\ (UNCHANGED later \/ f = "picture")
    BY <1>2 DEF Shelf!LoadSavegame, Shelf!TimedLoad, Shelf!pictureVars
  <2>. QED
    BY <2>1, <2>2, LoadsKeeps
<1>3. CASE Shelf!Connects \/ Shelf!SelectScenario
  <2>1. UNCHANGED <<net, game, log, first, later, astray>>
    BY <1>3 DEF Shelf!Connects, Shelf!SelectScenario, Shelf!server, Shelf!mirror, Shelf!pictureVars
  <2>2. (\E f : Shelf!LoadAndToggle(f)) \/ UNCHANGED <<out, loads, waiting>>
    BY <1>3 DEF Shelf!Connects, Shelf!SelectScenario, Shelf!loading
  <2>. QED
    BY <2>1, <2>2, ToggleKeeps, LoadingLess
<1>4. CASE Shelf!TimedToggle
  <2>1. /\ "toggle" \in later /\ "load" \notin later /\ later' = later \ {"toggle"}
             /\ out' = out \o Shelf!Take
        /\ UNCHANGED <<net, game, log, first, loads, waiting, astray>>
    BY <1>4 DEF Shelf!TimedToggle, Shelf!server, Shelf!mirror
  <2>2. IsSeq(out) /\ Loading /\ loads \in Nat
    BY DEF SavesInv, SavesTypes
  <2>3. loads > 0
    BY <2>1, <2>2 DEF Loading, NothingLoaded
  <2>4. Awaited' = Awaited
    BY <2>1 DEF Awaited
  <2>5. IsSeq(out') /\ \A i \in DOMAIN out : i \in DOMAIN out' /\ out'[i] = out[i] /\ i <= Len(out)
    BY <2>1, <2>2, TakeSaid
  <2>6. \A i \in DOMAIN out' : i \in DOMAIN out
              \/ (i = Len(out) + 1 /\ out'[i].do = "take" /\ out'[i].what = first)
    BY <2>1, <2>2, TakeSaid
  <2>7. \A i, j \in DOMAIN waiting' : waiting'[i].text = "logged_in"
          /\ waiting'[j].text = "logged_in" => i = j
            \/ ~OneLoaded
    BY <2>1 DEF OneLoaded
  <2>. QED
    BY <2>1, <2>3, <2>4, <2>5, <2>6, <2>7, TakenThen
<1>5. CASE \/ Shelf!LogsIn \/ Shelf!ServerLists \/ (\E f \in deletes : Shelf!ServerDeletes(f))
                \/ Shelf!StartPhase \/ Shelf!SaveGame \/ Shelf!CloseSave
           \/ Shelf!ShowLoadGameDialog \/ Shelf!ListComes
                \/ (\E some \in SUBSET rows : Shelf!Select(some)) \/ Shelf!Delete
  <2>1. /\ UNCHANGED <<net, game, out, waiting, loads, later, astray>>
        /\ "load_complete" \in log' => "load_complete" \in log /\ first' = first
    BY <1>5 DEF Shelf!LogsIn, Shelf!ServerLists, Shelf!ServerDeletes, Shelf!StartPhase, Shelf!SaveGame, Shelf!CloseSave, Shelf!ShowLoadGameDialog, Shelf!ListComes,
                Shelf!Select, Shelf!Delete, Shelf!server, Shelf!mirror, Shelf!loading, Shelf!pictureVars
  <2>. QED
    BY <2>1, LoadingLess
<1>6. CASE \/ Shelf!DeleteAll \/ Shelf!CloseDialog \/ Shelf!ToScenarios \/ Shelf!TimedScenarios
                \/ Shelf!ShowUpload \/ Shelf!Upload
           \/ \E good \in BOOLEAN : Shelf!PictureRead(good) \/ Shelf!MapMade(good)
  <2>1. /\ UNCHANGED <<net, game, out, waiting, loads, log, first, astray>>
        /\ "toggle" \in later' /\ "load" \notin later' => "toggle" \in later /\ "load" \notin later
    BY <1>6 DEF Shelf!DeleteAll, Shelf!CloseDialog, Shelf!ToScenarios, Shelf!TimedScenarios, Shelf!ShowUpload, Shelf!Upload, Shelf!PictureRead, Shelf!MapMade,
                Shelf!server, Shelf!mirror, Shelf!loading, Shelf!pictureVars
  <2>. QED
    BY <2>1, LoadingLess
<1>. QED
  BY <1>1, <1>2, <1>3, <1>4, <1>5, <1>6, ServedKeeps, ReceiveKeeps, PollerKeeps DEF Shelf!Next, Shelf!Saving, Shelf!Pictures

LEMMA SavesStep == SavesParams /\ SavesInv /\ [Shelf!Next]_Shelf!vars => SavesInv'
<1>. SUFFICES ASSUME SavesParams, SavesInv, [Shelf!Next]_Shelf!vars
              PROVE  SavesInv'
  OBVIOUS
<1>1. CASE Shelf!Next
  BY <1>1, TypesStep, SavedStep, ListedStep, BlocksStep, LoadingStep DEF SavesInv
<1>2. CASE UNCHANGED Shelf!vars
  <2>1. SavesTypes' /\ Saved'
    BY <1>2 DEF Shelf!vars, SavesInv, SavesTypes, Saved
  <2>2. RowsListed' /\ Blocks'
    BY <1>2 DEF Shelf!vars, SavesInv, RowsListed, Blocks
  <2>3. Loading'
    BY <1>2, LoadingLess DEF Shelf!vars
  <2>. QED
    BY <2>1, <2>2, <2>3 DEF SavesInv
<1>. QED
  BY <1>1, <1>2

LEMMA SavesStart == SavesParams /\ Shelf!Init => SavesInv
<1>. SUFFICES ASSUME SavesParams, Shelf!Init
              PROVE  SavesInv
  OBVIOUS
<1>1. \A s : s = << >> => IsSeq(s) /\ DOMAIN s = {} /\ Len(s) = 0
  BY EmptyIs
<1>2. SavesTypes
  BY <1>1 DEF Shelf!Init, SavesTypes, SavesParams
<1>3. Saved /\ RowsListed /\ Blocks
  BY <1>1 DEF Shelf!Init, SavesParams, Saved, RowsListed, Blocks
<1>4. Loading
  BY <1>1 DEF Shelf!Init, Loading, NothingLoaded
<1>. QED
  BY <1>2, <1>3, <1>4 DEF SavesInv

LEMMA SavesHold == SavesInv => Shelf!SavesSound
<1>. SUFFICES ASSUME SavesInv
              PROVE  Shelf!SavesSound
  OBVIOUS
<1>1. Shelf!TypeOK
  BY DEF SavesInv, SavesTypes, Shelf!TypeOK
<1>2. Shelf!OneSave /\ Shelf!RowsThere /\ Shelf!TakesLoaded
  BY DEF SavesInv, Saved, RowsListed, Loading, Shelf!OneSave, Shelf!RowsThere, Shelf!TakesLoaded
<1>3. Shelf!BlockedEnds
  <2>1. DOMAIN waiting = 1..Len(waiting)
    BY SequenceHas DEF SavesInv, SavesTypes
  <2>. QED
    BY <2>1 DEF SavesInv, SavesTypes, Blocks, Shelf!BlockedEnds
<1>. QED
  BY <1>1, <1>2, <1>3 DEF Shelf!SavesSound

\* Whatever is saved, listed, deleted and loaded meanwhile: a game is saved once
\* in a turn, a list offers what is there unless it met a deletion, who is taken
\* is of the game that was loaded, and a page that is blocked waits for something
\* that comes (savegame.ts, pages.ts).
THEOREM SavesAreSound == ASSUME SavesParams PROVE Shelf!Spec => []Shelf!SavesSound
<1>1. Shelf!Spec => []SavesInv
  BY SavesStart, SavesStep, PTL DEF Shelf!Spec
<1>. QED
  BY <1>1, SavesHold, PTL

-----------------------------------------------------------------------------
(* The first page: names, accounts and passwords.                          *)

CONSTANTS Bad, Pages, MaxClicks
VARIABLES complete, trigger, password, username, token, enabled, mail, sockets, polls,
          logins, submits, way

Door == INSTANCE Entry

\* What is needed of the parameters.
EntryParams == MaxClicks \in Nat

\* Requests that lead to a login, and how many they are with the sockets.
Busy(S) == {q \in S : q[1].kind \notin {"name", "mail"}}
Many == Cardinality(Busy(asked)) + Door!Ws

Launching == sockets # <<>> \/ Door!Waits("launch")
Typing == way \in {"button", "close", "token"}

EntryTypes ==
  /\ IsFiniteSet(asked) /\ \A q \in asked : q[1].kind \in Door!Kinds
  /\ field \in Door!Typed /\ own \in Door!Typed /\ stored.name \in Door!Typed
  /\ dialog \in {"intro", "account", "hidden", "closed"}
  /\ submits \in 0..MaxClicks /\ messy \in BOOLEAN /\ polls \in 0..1
  /\ IsSeq(sockets) /\ IsSeq(logins)

\* One thing is asked for at a time, unless submissions met.
Alone ==
  /\ Many <= 2 /\ (~messy => Many <= 1)
  /\ Many <= submits \/ (Door!Ws = 1 /\ asked = {} /\ dialog = "closed")

\* An account is made while nothing else is asked for.
Making ==
  /\ dialog = "hidden" => /\ way = "account" /\ \A q \in Busy(asked) : q[1].kind = "create"
                          /\ \A q, r \in Busy(asked) : q = r
  /\ dialog = "account" /\ ~messy => Busy(asked) = {}
  /\ Door!Waits("create") => dialog = "hidden"

\* Who connects is done with the dialogs, and was valid when they closed.
Connecting ==
  Launching => dialog = "closed" /\ (Typing => username \in Names /\ field = username)

\* While nothing met, the answers find the page as it was.
Found ==
  /\ way = "button" => mode = "plain"
  /\ way = "token" => mode = "longturn"
  /\ \A q \in asked : /\ q[1].kind \in {"validate", "login"} => mode = "plain"
                      /\ q[1].kind = "validate" => q[1].secret = None
                      /\ q[1].kind = "token" => mode = "longturn" /\ q[1].name \in Names
  /\ ~messy => /\ \A q \in asked : q[1].kind \in {"login", "token", "validate"} => dialog = "intro"
               /\ \A q \in asked : q[1].kind \in {"login", "token"} => q[1].name = field
               /\ Launching /\ way = "button" => stored.secret \in {None, username}
               /\ Launching /\ way = "token" => username = token

\* One login for one socket, and of what was valid then.
Logged ==
  /\ Door!Ws <= 1 => polls = 0 /\ Len(logins) <= 1
  /\ Door!Ws = 0 => logins = <<>>
  /\ Door!Ws = 1 /\ sockets[1] = "connecting" => logins = <<>>
  /\ polls > 0 => sockets[1] # "connecting"
  /\ Typing => \A i \in DOMAIN logins : logins[i].name \in Names
  /\ ~messy /\ way = "button" => \A i \in DOMAIN logins : logins[i].secret \in {None, logins[i].name}
  /\ ~messy /\ way = "token" => \A i \in DOMAIN logins : logins[i].name = token

EntryInv == EntryTypes /\ Alone /\ Making /\ Connecting /\ Found /\ Logged

-----------------------------------------------------------------------------
LEMMA BusyCounts ==
  ASSUME NEW S, IsFiniteSet(S)
  PROVE  /\ IsFiniteSet(Busy(S)) /\ Cardinality(Busy(S)) \in Nat
         /\ Cardinality(Busy(S)) = 0 <=> Busy(S) = {}
         /\ Cardinality(Busy(S)) <= 1 => \A q, r \in Busy(S) : q = r
<1>1. IsFiniteSet(Busy(S))
  BY FS_Subset DEF Busy
<1>2. Cardinality(Busy(S)) \in Nat /\ (Cardinality(Busy(S)) = 0 <=> Busy(S) = {})
  BY <1>1, FS_CardinalityType, FS_EmptySet
<1>3. ASSUME NEW q \in Busy(S), NEW r \in Busy(S), q # r PROVE Cardinality(Busy(S)) > 1
  <2>1. IsFiniteSet(Busy(S) \ {q}) /\ Cardinality(Busy(S) \ {q}) = Cardinality(Busy(S)) - 1
    BY <1>1, FS_RemoveElement
  <2>2. Cardinality(Busy(S) \ {q}) # 0
    BY <1>3, <2>1, FS_EmptySet
  <2>3. Cardinality(Busy(S) \ {q}) \in Nat
    BY <2>1, FS_CardinalityType
  <2>. QED
    BY <1>2, <2>1, <2>2, <2>3
<1>. QED
  BY <1>1, <1>2, <1>3

LEMMA BusyLess ==
  ASSUME NEW S, IsFiniteSet(S), NEW T, T \subseteq S
  PROVE  IsFiniteSet(T) /\ Cardinality(Busy(T)) <= Cardinality(Busy(S))
<1>1. Busy(T) \subseteq Busy(S)
  BY DEF Busy
<1>. QED
  BY <1>1, BusyCounts, FS_Subset

LEMMA BusyMore ==
  ASSUME NEW S, IsFiniteSet(S), NEW r, NEW T, T = S \cup {r}
  PROVE  /\ IsFiniteSet(T) /\ Cardinality(Busy(T)) <= Cardinality(Busy(S)) + 1
         /\ r[1].kind \in {"name", "mail"} => Busy(T) = Busy(S)
<1>1. IsFiniteSet(T)
  BY FS_AddElement
<1>2. Busy(T) \subseteq Busy(S) \cup {r}
  BY DEF Busy
<1>3. IsFiniteSet(Busy(S) \cup {r})
      /\ Cardinality(Busy(S) \cup {r}) \in {Cardinality(Busy(S)), Cardinality(Busy(S)) + 1}
  BY BusyCounts, FS_AddElement
<1>4. Cardinality(Busy(T)) <= Cardinality(Busy(S) \cup {r})
  BY <1>2, <1>3, FS_Subset
<1>5. r[1].kind \in {"name", "mail"} => Busy(T) = Busy(S)
  BY DEF Busy
<1>. QED
  BY <1>1, <1>3, <1>4, <1>5, BusyCounts

LEMMA BusyTaken ==
  ASSUME NEW S, IsFiniteSet(S), NEW q \in Busy(S), NEW T, T = S \ {q}
  PROVE  IsFiniteSet(T) /\ Cardinality(Busy(T)) = Cardinality(Busy(S)) - 1
<1>1. Busy(T) = Busy(S) \ {q}
  BY DEF Busy
<1>. QED
  BY <1>1, BusyCounts, BusyLess, FS_RemoveElement

\* A request that another one follows.
LEMMA BusyFollowed ==
  ASSUME NEW S, IsFiniteSet(S), NEW q \in Busy(S), NEW r, NEW T, T = (S \ {q}) \cup {r}
  PROVE  IsFiniteSet(T) /\ Cardinality(Busy(T)) <= Cardinality(Busy(S))
<1>1. IsFiniteSet(S \ {q}) /\ Cardinality(Busy(S \ {q})) = Cardinality(Busy(S)) - 1
  BY BusyTaken
<1>2. Cardinality(Busy(T)) <= Cardinality(Busy(S \ {q})) + 1 /\ IsFiniteSet(T)
  BY <1>1, BusyMore
<1>. QED
  BY <1>1, <1>2, BusyCounts

\* While a dialog is open there is no socket.
LEMMA StillHere ==
  ASSUME EntryInv, dialog # "closed"
  PROVE  sockets = <<>> /\ Door!Ws = 0 /\ logins = <<>> /\ polls = 0 /\ ~Door!Waits("launch")
           /\ Many = Cardinality(Busy(asked)) /\ Many \in Nat /\ Many <= submits
<1>1. sockets = <<>> /\ ~Door!Waits("launch")
  BY DEF EntryInv, Connecting, Launching
<1>2. Door!Ws = 0
  BY <1>1, EmptyIs DEF Door!Ws
<1>. QED
  BY <1>1, <1>2, BusyCounts DEF EntryInv, EntryTypes, Logged, Many, Alone

LEMMA NobodyLogged ==
  sockets = <<>> /\ logins = <<>> /\ polls = 0 => Logged /\ IsSeq(sockets) /\ IsSeq(logins)
BY EmptyIs DEF Logged, Door!Ws

\* Without a socket nobody is connecting.
LEMMA NobodyConnects ==
  sockets = <<>> /\ ~Door!Waits("launch") => Connecting /\ ~Launching
BY DEF Connecting, Launching

\* The page is edited, or another dialog shown.
LEMMA VisitorEdits ==
  ASSUME EntryParams, EntryInv, dialog \in {"intro", "account"}, dialog' \in {"intro", "account", "closed"},
         messy' = (messy \/ asked # {}), field' \in Door!Typed,
         UNCHANGED <<Door!pageVars, Door!userVars, asked, Door!socketVars, submits, way>>
  PROVE  EntryInv'
<1>1. sockets = <<>> /\ Door!Ws = 0 /\ logins = <<>> /\ polls = 0 /\ ~Door!Waits("launch")
      /\ Many = Cardinality(Busy(asked)) /\ Many \in Nat /\ Many <= submits
  BY StillHere
<1>2. EntryTypes'
  BY <1>1, NobodyLogged DEF EntryInv, EntryTypes, Door!userVars, Door!socketVars
<1>3. Many' = Many /\ Door!Ws' = Door!Ws
  BY DEF Many, Door!Ws, Door!socketVars
<1>4. Alone'
  BY <1>1, <1>3 DEF EntryInv, Alone, EntryTypes
<1>5. ~messy' => asked = {}
  BY DEF EntryInv, EntryTypes
<1>6. Making'
  BY <1>5 DEF EntryInv, EntryTypes, Making, Door!Waits, Busy
<1>7. Connecting' /\ ~Launching'
  BY <1>1 DEF Connecting, Launching, Door!Waits, Door!socketVars
<1>8. Found'
  BY <1>5, <1>7 DEF EntryInv, Found, Door!pageVars
<1>9. Logged'
  BY <1>1, EmptyIs DEF Logged, Door!Ws, Door!socketVars
<1>. QED
  BY <1>2, <1>4, <1>6, <1>7, <1>8, <1>9 DEF EntryInv

LEMMA VisitorKeeps ==
  ASSUME EntryParams, EntryInv,
         (\E text \in Names \cup {Bad} : Door!Types(text)) \/ (\E name \in Names : Door!TypesPassword(name))
           \/ Door!NewAccount \/ Door!CancelAccount
  PROVE  EntryInv'
<1>1. field \in Door!Typed /\ stored.name \in Door!Typed /\ None \in Door!Typed /\ Names \cup {Bad} \subseteq Door!Typed
  BY DEF EntryInv, EntryTypes, Door!Typed
<1>2. CASE \E text \in Names \cup {Bad} : Door!Types(text)
  <2>1. PICK text \in Names \cup {Bad} : Door!Types(text)
    BY <1>2
  <2>. QED
    BY <1>1, <2>1, VisitorEdits DEF Door!Types
<1>3. CASE \E name \in Names : Door!TypesPassword(name)
  <2>1. PICK name \in Names : Door!TypesPassword(name)
    BY <1>3
  <2>. QED
    BY <1>1, <2>1, VisitorEdits DEF Door!TypesPassword
<1>4. CASE Door!NewAccount
  BY <1>1, <1>4, VisitorEdits DEF Door!NewAccount
<1>5. CASE Door!CancelAccount
  BY <1>1, <1>5, VisitorEdits DEF Door!CancelAccount, Door!ShowIntro
<1>. QED
  BY <1>2, <1>3, <1>4, <1>5

\* A name or an e-mail is looked up.
LEMMA LookupKeeps ==
  ASSUME EntryParams, EntryInv, Door!LeavesName \/ Door!LeavesMail
  PROVE  EntryInv'
<1>1. sockets = <<>> /\ Door!Ws = 0 /\ logins = <<>> /\ polls = 0 /\ ~Door!Waits("launch")
      /\ Many = Cardinality(Busy(asked)) /\ Many \in Nat /\ Many <= submits
  BY StillHere DEF Door!LeavesName, Door!LeavesMail
<1>2. PICK kind \in {"name", "mail"} : asked' = asked \cup {<<Door!Request(kind, None, None), submits>>}
  BY DEF Door!LeavesName, Door!LeavesMail, Door!Ask
<1> DEFINE r == <<Door!Request(kind, None, None), submits>>
<1>3. r[1].kind = kind
  BY DEF Door!Request
<1>4. dialog = "account" /\ UNCHANGED <<Door!pageVars, Door!dialogVars, Door!userVars, Door!socketVars, submits, messy, way>>
  BY DEF Door!LeavesName, Door!LeavesMail
<1>5. IsFiniteSet(asked') /\ Busy(asked') = Busy(asked)
  BY <1>2, <1>3, BusyMore DEF EntryInv, EntryTypes
<1>6. EntryTypes'
  BY <1>1, <1>2, <1>3, <1>4, <1>5, NobodyLogged
     DEF EntryInv, EntryTypes, Door!dialogVars, Door!userVars, Door!socketVars, Door!Kinds
<1>7. Many' = Many /\ Door!Ws' = Door!Ws
  BY <1>4, <1>5 DEF Many, Door!Ws, Door!socketVars
<1>8. Alone'
  BY <1>1, <1>4, <1>7 DEF EntryInv, Alone, EntryTypes
<1>9. Making'
  BY <1>2, <1>3, <1>4, <1>5 DEF EntryInv, EntryTypes, Making, Door!Waits, Door!dialogVars
<1>10. Connecting' /\ ~Launching'
  BY <1>1, <1>2, <1>3, <1>4 DEF Connecting, Launching, Door!Waits, Door!socketVars
<1>11. Found'
  BY <1>2, <1>3, <1>4, <1>10 DEF EntryInv, Found, Door!pageVars, Door!dialogVars, Door!userVars
<1>12. Logged'
  BY <1>1, <1>4, EmptyIs DEF Logged, Door!Ws, Door!socketVars
<1>. QED
  BY <1>6, <1>8, <1>9, <1>10, <1>11, <1>12 DEF EntryInv

LEMMA CloseAccountKeeps ==
  ASSUME EntryParams, EntryInv, Door!CloseAccount
  PROVE  EntryInv'
<1>1. sockets = <<>> /\ Door!Ws = 0 /\ logins = <<>> /\ polls = 0 /\ ~Door!Waits("launch")
      /\ Many = Cardinality(Busy(asked)) /\ Many \in Nat /\ Many <= submits
  BY StillHere DEF Door!CloseAccount
<1>2. EntryTypes'
  BY <1>1, NobodyLogged DEF EntryInv, EntryTypes, Door!userVars, Door!socketVars, Door!CloseAccount
<1>3. Many' = Many /\ Door!Ws' = Door!Ws
  BY DEF Many, Door!Ws, Door!socketVars, Door!CloseAccount
<1>4. Alone'
  BY <1>1, <1>3 DEF EntryInv, Alone, EntryTypes, Door!CloseAccount
<1>5. Making'
  BY DEF EntryInv, EntryTypes, Making, Door!Waits, Busy, Door!CloseAccount
<1>6. Connecting' /\ ~Launching'
  BY <1>1 DEF Connecting, Launching, Door!Waits, Door!socketVars, Door!CloseAccount
<1>7. ~messy => \A q \in asked : q[1].kind \notin {"login", "token", "validate"}
  BY DEF EntryInv, Making, Busy, Door!CloseAccount
<1>8. Found'
  BY <1>6, <1>7 DEF EntryInv, Found, Door!pageVars, Door!CloseAccount
<1>9. Logged'
  BY <1>1, EmptyIs DEF Logged, Door!Ws, Door!socketVars, Door!CloseAccount
<1>. QED
  BY <1>2, <1>4, <1>5, <1>6, <1>8, <1>9 DEF EntryInv

-----------------------------------------------------------------------------
\* A submission that asks for something: nothing else, or it meets another.
LEMMA SubmitCounts ==
  ASSUME EntryParams, EntryInv, dialog \in {"intro", "account"}, NEW how, Door!Submit(how),
         NEW r, asked' \in {asked, asked \cup {r}}, sockets' = sockets
  PROVE  /\ IsFiniteSet(asked') /\ Door!Ws' = 0 /\ Many' = Cardinality(Busy(asked'))
         /\ Alone' /\ submits' \in 0..MaxClicks /\ messy' \in BOOLEAN /\ (~messy' => asked = {})
<1>1. sockets = <<>> /\ Door!Ws = 0 /\ logins = <<>> /\ polls = 0 /\ ~Door!Waits("launch")
      /\ Many = Cardinality(Busy(asked)) /\ Many \in Nat /\ Many <= submits
  BY StillHere
<1>2. ~messy /\ submits < MaxClicks /\ submits' = submits + 1 /\ messy' = (asked # {})
      /\ submits \in 0..MaxClicks /\ MaxClicks \in Nat
  BY DEF Door!Submit, EntryInv, EntryTypes, EntryParams
<1>3. IsFiniteSet(asked') /\ Cardinality(Busy(asked')) <= Cardinality(Busy(asked)) + 1
      /\ Cardinality(Busy(asked')) \in Nat
  <2>1. IsFiniteSet(asked) /\ Cardinality(Busy(asked)) \in Nat
    BY BusyCounts DEF EntryInv, EntryTypes
  <2>2. IsFiniteSet(asked') /\ Cardinality(Busy(asked')) <= Cardinality(Busy(asked)) + 1
    <3>1. CASE asked' = asked
      BY <2>1, <3>1
    <3>2. CASE asked' = asked \cup {r}
      BY <2>1, <3>2, BusyMore
    <3>. QED
      BY <3>1, <3>2
  <2>. QED
    BY <2>2, BusyCounts
<1>4. Door!Ws' = 0 /\ Many' = Cardinality(Busy(asked'))
  BY <1>1, <1>3 DEF Door!Ws, Many
<1>5. Many <= 1
  BY <1>2 DEF EntryInv, Alone
<1>6. asked = {} => Cardinality(Busy(asked)) = 0
  BY FS_EmptySet, BusyCounts DEF Busy
<1>7. ~messy' => asked = {}
  BY <1>2
<1>8. Many' \in Nat /\ Many' <= Many + 1 /\ submits \in Nat
  BY <1>1, <1>2, <1>3, <1>4
<1>9. Many' <= 2 /\ Many' <= submits'
  BY <1>1, <1>2, <1>5, <1>8
<1>10. ~messy' => Many' <= 1
  BY <1>1, <1>6, <1>7, <1>8
<1>11. Alone'
  BY <1>9, <1>10 DEF Alone
<1>12. submits' \in 0..MaxClicks /\ messy' \in BOOLEAN
  BY <1>2
<1>. QED
  BY <1>3, <1>4, <1>7, <1>11, <1>12

\* What is asked for by a button.
LEMMA StartKeeps ==
  ASSUME EntryParams, EntryInv, Door!Start
  PROVE  EntryInv'
<1>1. sockets = <<>> /\ Door!Ws = 0 /\ logins = <<>> /\ polls = 0 /\ ~Door!Waits("launch")
  BY StillHere DEF Door!Start
<1> DEFINE r == <<Door!Request("validate", field, None), submits>>
<1>2. r[1].kind = "validate" /\ r[1].secret = None
  BY DEF Door!Request
<1>3. asked' = asked \cup {r} /\ dialog = "intro" /\ mode = "plain" /\ way' = "button"
      /\ UNCHANGED <<Door!pageVars, dialog, field, password, Door!accountVars, Door!userVars, Door!socketVars>>
  BY DEF Door!Start, Door!Ask, Door!Submit
<1>4. IsFiniteSet(asked') /\ Alone' /\ submits' \in 0..MaxClicks /\ messy' \in BOOLEAN
      /\ (~messy' => asked = {})
  <2>1. Door!Submit("button") /\ sockets' = sockets
    BY <1>3 DEF Door!Start, Door!socketVars
  <2>. HIDE DEF r
  <2>. QED
    BY <1>3, <2>1, SubmitCounts
<1>5. EntryTypes'
  BY <1>1, <1>2, <1>3, <1>4, NobodyLogged DEF EntryInv, EntryTypes, Door!userVars, Door!socketVars, Door!Kinds
<1>6. Making'
  BY <1>2, <1>3 DEF EntryInv, Making, Door!Waits
<1>7. Connecting' /\ ~Launching'
  BY <1>1, <1>2, <1>3 DEF Connecting, Launching, Door!Waits, Door!socketVars
<1>8. Found'
  BY <1>2, <1>3, <1>4, <1>7 DEF EntryInv, Found, Door!pageVars
<1>9. Logged'
  BY <1>1, <1>3, EmptyIs DEF Logged, Door!Ws, Door!socketVars
<1>. QED
  BY <1>4, <1>5, <1>6, <1>7, <1>8, <1>9 DEF EntryInv

LEMMA SignInKeeps ==
  ASSUME EntryParams, EntryInv, Door!SignIn
  PROVE  EntryInv'
<1>1. sockets = <<>> /\ Door!Ws = 0 /\ logins = <<>> /\ polls = 0 /\ ~Door!Waits("launch")
  BY StillHere DEF Door!SignIn
<1> DEFINE r == <<Door!Request("token", field, None), submits>>
<1>2. r[1].kind = "token" /\ r[1].name = field
  BY DEF Door!Request
<1>3. dialog = "intro" /\ mode = "longturn" /\ way' = "token"
      /\ UNCHANGED <<Door!pageVars, Door!dialogVars, own, token, Door!socketVars>>
      /\ asked' \in {asked, asked \cup {r}} /\ (asked' # asked => field \in Names)
      /\ stored'.name \in {stored.name, field}
  BY DEF Door!SignIn, Door!Ask, Door!Submit, Door!ValidateUsername, Door!Valid
<1>4. IsFiniteSet(asked') /\ Alone' /\ submits' \in 0..MaxClicks /\ messy' \in BOOLEAN
      /\ (~messy' => asked = {})
  <2>1. Door!Submit("token") /\ sockets' = sockets
    BY <1>3 DEF Door!SignIn, Door!socketVars
  <2>. HIDE DEF r
  <2>. QED
    BY <1>3, <2>1, SubmitCounts
<1>5. EntryTypes'
  BY <1>1, <1>2, <1>3, <1>4, NobodyLogged DEF EntryInv, EntryTypes, Door!dialogVars, Door!socketVars, Door!Kinds
<1>6. Making'
  BY <1>2, <1>3 DEF EntryInv, Making, Door!Waits, Door!dialogVars
<1>7. Connecting' /\ ~Launching'
  BY <1>1, <1>2, <1>3 DEF Connecting, Launching, Door!Waits, Door!socketVars
<1>8. Found'
  BY <1>2, <1>3, <1>4, <1>7 DEF EntryInv, Found, Door!pageVars, Door!dialogVars
<1>9. Logged'
  BY <1>1, <1>3, EmptyIs DEF Logged, Door!Ws, Door!socketVars
<1>. QED
  BY <1>4, <1>5, <1>6, <1>7, <1>8, <1>9 DEF EntryInv

LEMMA SignupKeeps ==
  ASSUME EntryParams, EntryInv, NEW name \in Names \cup {Bad}, Door!Signup(name)
  PROVE  EntryInv'
<1>1. sockets = <<>> /\ Door!Ws = 0 /\ logins = <<>> /\ polls = 0 /\ ~Door!Waits("launch")
  BY StillHere DEF Door!Signup
<1> DEFINE r == <<Door!Request("create", name, name), submits>>
<1>2. r[1].kind = "create"
  BY DEF Door!Request
<1>3. dialog = "account" /\ way' = "account" /\ own' = name /\ ~messy
      /\ UNCHANGED <<Door!pageVars, field, username, stored, token, Door!socketVars>>
      /\ \/ asked' = asked /\ dialog' = dialog
         \/ asked' = asked \cup {r} /\ dialog' = "hidden"
  BY DEF Door!Signup, Door!Ask, Door!Submit
<1>4. IsFiniteSet(asked') /\ Alone' /\ submits' \in 0..MaxClicks /\ messy' \in BOOLEAN
      /\ (~messy' => asked = {})
  <2>1. Door!Submit("account") /\ sockets' = sockets /\ asked' \in {asked, asked \cup {r}}
    BY <1>3 DEF Door!Signup, Door!socketVars
  <2>. HIDE DEF r
  <2>. QED
    BY <1>3, <2>1, SubmitCounts
<1>5. EntryTypes'
  <2>1. own' \in Door!Typed
    BY <1>3 DEF Door!Typed
  <2>. QED
    BY <1>1, <1>2, <1>3, <1>4, <2>1, NobodyLogged DEF EntryInv, EntryTypes, Door!socketVars, Door!Kinds
<1>6. Busy(asked) = {}
  BY <1>3 DEF EntryInv, Making
<1>7. Making'
  BY <1>2, <1>3, <1>6 DEF EntryInv, Making, Door!Waits, Busy
<1>8. Connecting' /\ ~Launching'
  BY <1>1, <1>2, <1>3 DEF Connecting, Launching, Door!Waits, Door!socketVars
<1>9. Found'
  BY <1>2, <1>3, <1>4, <1>8 DEF EntryInv, Found, Door!pageVars
<1>10. Logged'
  BY <1>1, <1>3, EmptyIs DEF Logged, Door!Ws, Door!socketVars
<1>. QED
  BY <1>4, <1>5, <1>7, <1>8, <1>9, <1>10 DEF EntryInv

\* The dialog is closed by hand, which connects unless a button closes it.
LEMMA CloseIntroKeeps ==
  ASSUME EntryParams, EntryInv, Door!CloseIntro
  PROVE  EntryInv'
<1>1. sockets = <<>> /\ Door!Ws = 0 /\ logins = <<>> /\ polls = 0 /\ ~Door!Waits("launch")
  BY StillHere DEF Door!CloseIntro
<1> DEFINE r == <<Door!Request("launch", None, None), submits>>
<1>2. r[1].kind = "launch"
  BY DEF Door!Request
<1>3. Door!NoAnswer \notin asked
  BY DEF Door!NoAnswer, Door!Request, EntryInv, EntryTypes, Door!Kinds
<1>4. dialog = "intro" /\ way' = "close" /\ UNCHANGED <<Door!pageVars, field, own, token, Door!socketVars>>
      /\ stored'.name \in {stored.name, field} /\ dialog' \in {dialog, "closed"}
      /\ \/ asked' = asked
         \/ asked' = asked \cup {r} /\ dialog' = "closed" /\ field \in Names /\ username' = field
  <2>1. dialog = "intro" /\ way' = "close" /\ UNCHANGED <<Door!pageVars, field, own, token, Door!socketVars>>
        /\ stored'.name \in {stored.name, field} /\ dialog' \in {dialog, "closed"}
    <3>1. dialog = "intro" /\ way' = "close" /\ UNCHANGED <<Door!pageVars, field, Door!socketVars>>
      BY DEF Door!CloseIntro, Door!Submit
    <3>2. UNCHANGED <<own, token>>
      BY DEF Door!CloseIntro, Door!userVars
    <3>3. stored'.name \in {stored.name, field}
      <4>1. CASE trigger
        BY <4>1 DEF Door!CloseIntro, Door!userVars
      <4>2. CASE ~trigger
        <5>1. Door!ValidateUsername
          BY <4>2 DEF Door!CloseIntro
        <5>. QED
          BY <5>1 DEF Door!ValidateUsername
      <4>. QED
        BY <4>1, <4>2
    <3>4. dialog' \in {dialog, "closed"}
      BY DEF Door!CloseIntro
    <3>. QED
      BY <3>1, <3>2, <3>3, <3>4
  <2>2. CASE trigger
    BY <2>1, <2>2 DEF Door!CloseIntro
  <2>3. CASE ~trigger /\ ~Door!Valid
    BY <2>1, <2>3 DEF Door!CloseIntro
  <2>4. CASE ~trigger /\ Door!Valid
    <3>1. asked' = (asked \ {Door!NoAnswer}) \cup {<<Door!Request("launch", None, None), Door!NoAnswer[2]>>}
          /\ dialog' = "closed" /\ username' = field /\ field \in Names
      BY <2>4 DEF Door!CloseIntro, Door!Launch, Door!ValidateUsername, Door!Valid
    <3>2. Door!NoAnswer[2] = submits
      BY DEF Door!NoAnswer
    <3>3. asked' = asked \cup {r}
      BY <1>3, <3>1, <3>2
    <3>. QED
      BY <2>1, <3>1, <3>3
  <2>. QED
    BY <2>2, <2>3, <2>4
<1>5. IsFiniteSet(asked') /\ Alone' /\ submits' \in 0..MaxClicks /\ messy' \in BOOLEAN
      /\ (~messy' => asked = {})
  <2>1. Door!Submit("close") /\ sockets' = sockets /\ asked' \in {asked, asked \cup {r}}
        /\ dialog \in {"intro", "account"}
    BY <1>4 DEF Door!CloseIntro, Door!socketVars
  <2>. HIDE DEF r
  <2>. QED
    BY <2>1, SubmitCounts
<1>6. EntryTypes'
  BY <1>1, <1>2, <1>4, <1>5, NobodyLogged DEF EntryInv, EntryTypes, Door!socketVars, Door!Kinds
<1>7. Making'
  BY <1>2, <1>4 DEF EntryInv, Making, Door!Waits
<1>8. Connecting'
  BY <1>1, <1>4 DEF Connecting, Launching, Door!Waits, Door!socketVars
<1>9. Found'
  BY <1>2, <1>4, <1>5 DEF EntryInv, Found, Door!pageVars
<1>10. Logged'
  BY <1>1, <1>4, EmptyIs DEF Logged, Door!Ws, Door!socketVars
<1>. QED
  BY <1>5, <1>6, <1>7, <1>8, <1>9, <1>10 DEF EntryInv

-----------------------------------------------------------------------------
\* An answer, and what may be asked for then.
LEMMA AnswerCounts ==
  ASSUME EntryInv, NEW q \in asked, NEW r,
         asked' = asked \ {q} \/ (q \in Busy(asked) /\ asked' = (asked \ {q}) \cup {r}),
         UNCHANGED <<sockets, submits, messy>>
  PROVE  IsFiniteSet(asked') /\ Door!Ws' = Door!Ws /\ Alone'
<1>1. IsFiniteSet(asked) /\ Cardinality(Busy(asked)) \in Nat
  BY BusyCounts DEF EntryInv, EntryTypes
<1>2. IsFiniteSet(asked') /\ Cardinality(Busy(asked')) <= Cardinality(Busy(asked))
  <2>1. CASE asked' = asked \ {q}
    BY <1>1, <2>1, BusyLess
  <2>2. CASE q \in Busy(asked) /\ asked' = (asked \ {q}) \cup {r}
    BY <1>1, <2>2, BusyFollowed
  <2>. QED
    BY <2>1, <2>2
<1>3. Cardinality(Busy(asked')) \in Nat
  BY <1>2, BusyCounts
<1>4. Door!Ws' = Door!Ws /\ Door!Ws \in Nat
  BY SequenceHas DEF Door!Ws, EntryInv, EntryTypes
<1>5. Many' <= Many /\ Many' \in Nat /\ Many \in Nat
  BY <1>1, <1>2, <1>3, <1>4 DEF Many
<1>6. asked # {}
  OBVIOUS
<1>7. Alone'
  BY <1>5, <1>6 DEF EntryInv, EntryTypes, Alone
<1>. QED
  BY <1>2, <1>4, <1>7

\* While nothing met, what is answered is all that was asked for.
LEMMA OnlyAsked ==
  ASSUME EntryInv, NEW q \in asked, q[1].kind \notin {"name", "mail", "launch"}, ~messy
  PROVE  /\ \A p \in asked : p # q => p[1].kind \in {"name", "mail"}
         /\ sockets = <<>> /\ logins = <<>> /\ ~Door!Waits("launch") /\ ~Launching
<1>1. q \in Busy(asked)
  BY DEF Busy
<1>2. Cardinality(Busy(asked)) \in Nat /\ Cardinality(Busy(asked)) # 0 /\ Door!Ws \in Nat
  BY <1>1, BusyCounts, SequenceHas DEF EntryInv, EntryTypes, Door!Ws
<1>3. Many <= 1
  BY DEF EntryInv, Alone
<1>4. Cardinality(Busy(asked)) <= 1 /\ Door!Ws = 0
  BY <1>2, <1>3 DEF Many
<1>5. \A p \in Busy(asked) : p = q
  BY <1>1, <1>4, BusyCounts DEF EntryInv, EntryTypes
<1>6. \A p \in asked : p # q => p[1].kind \in {"name", "mail"}
  BY <1>5 DEF Busy
<1>7. ~Door!Waits("launch")
  BY <1>6 DEF Door!Waits
<1>8. sockets = <<>>
  BY <1>4, EmptySeq DEF Door!Ws, EntryInv, EntryTypes, IsSeq
<1>. QED
  BY <1>4, <1>6, <1>7, <1>8 DEF EntryInv, Logged, Launching

LEMMA LoggedKept ==
  ASSUME EntryInv, UNCHANGED <<Door!socketVars, way, messy, token>>
  PROVE  Logged' /\ IsSeq(sockets') /\ IsSeq(logins') /\ polls' \in 0..1
BY DEF EntryInv, EntryTypes, Logged, Typing, Door!Ws, Door!socketVars

AnswerFrame == UNCHANGED <<Door!pageVars, Door!socketVars, submits, messy, way>>

\* The name in the field is looked at again: it connects, or nothing comes of it.
LEMMA ConnectKeeps ==
  ASSUME EntryParams, EntryInv, AnswerFrame, NEW q \in asked, Door!Unused(q) \/ Door!LoggedIn(q)
  PROVE  EntryInv'
<1> DEFINE r == <<Door!Request("launch", None, None), q[2]>>
<1>1. r[1].kind = "launch"
  BY DEF Door!Request
<1>2. q[1].kind \in {"validate", "login"} /\ q \in Busy(asked) /\ mode = "plain"
  BY DEF Door!Unused, Door!LoggedIn, Busy, EntryInv, Found
<1>3. /\ UNCHANGED <<trigger, field, password, Door!accountVars, own, token>> /\ username' = field
      /\ \/ /\ field \in Names /\ asked' = (asked \ {q}) \cup {r} /\ dialog' = "closed"
            /\ stored'.name \in Door!Typed /\ stored'.secret = q[1].secret
         \/ field \notin Names /\ asked' = asked \ {q} /\ dialog' = dialog /\ stored'.name \in Door!Typed
  <2>1. field \in Door!Typed /\ own \in Door!Typed /\ stored.name \in Door!Typed
    BY DEF EntryInv, EntryTypes
  <2>2. CASE Door!Unused(q) /\ Door!Valid
    BY <2>1, <2>2 DEF Door!Unused, Door!Connect, Door!Launch, Door!Valid
  <2>3. CASE Door!Unused(q) /\ ~Door!Valid
    BY <2>1, <2>3 DEF Door!Unused, Door!Connect, Door!Answered, Door!Valid
  <2>4. CASE Door!LoggedIn(q) /\ Door!Valid
    BY <2>1, <2>4 DEF Door!LoggedIn, Door!Launch, Door!Valid
  <2>5. CASE Door!LoggedIn(q) /\ ~Door!Valid
    BY <2>1, <2>5 DEF Door!LoggedIn, Door!Answered, Door!Valid
  <2>. QED
    BY <2>2, <2>3, <2>4, <2>5
<1>4. q[1].kind = "validate" => q[1].secret = None
  BY DEF EntryInv, Found
<1>5. q[1].kind = "login" => q[1].secret = q[1].name
  BY DEF Door!LoggedIn, Door!Unused
<1>6. IsFiniteSet(asked') /\ Door!Ws' = Door!Ws /\ Alone'
  <2>1. asked' = asked \ {q} \/ (q \in Busy(asked) /\ asked' = (asked \ {q}) \cup {r})
    BY <1>2, <1>3
  <2>2. UNCHANGED <<sockets, submits, messy>>
    BY DEF AnswerFrame, Door!socketVars
  <2>. HIDE DEF r
  <2>. QED
    BY <2>1, <2>2, AnswerCounts
<1>7. Logged' /\ IsSeq(sockets') /\ IsSeq(logins') /\ polls' \in 0..1
  BY <1>3, LoggedKept DEF AnswerFrame
<1>8. EntryTypes'
  BY <1>1, <1>3, <1>6, <1>7 DEF EntryInv, EntryTypes, AnswerFrame, Door!Kinds
<1>9. dialog # "hidden"
  BY <1>2 DEF EntryInv, Making
<1>10. Making'
  <2>1. dialog = "account" => messy
    BY <1>2 DEF EntryInv, Making
  <2>2. ~Door!Waits("create")'
    BY <1>1, <1>3, <1>9 DEF EntryInv, Making, Door!Waits
  <2>3. dialog' \in {dialog, "closed"} /\ messy' = messy
    BY <1>3 DEF AnswerFrame
  <2>. QED
    BY <1>9, <2>1, <2>2, <2>3 DEF Making
<1>11. Connecting'
  BY <1>1, <1>3 DEF EntryInv, Connecting, Launching, Typing, Door!Waits, AnswerFrame, Door!socketVars
<1>12. Found'
  <2>1. mode' = mode /\ way' = way /\ messy' = messy /\ field' = field /\ way # "token"
    BY <1>2, <1>3 DEF AnswerFrame, Door!pageVars, EntryInv, Found
  <2>2. ~messy => /\ \A p \in asked : p # q => p[1].kind \in {"name", "mail"}
                  /\ ~Launching /\ (q[1].kind = "login" => q[1].name = field)
    BY <1>2, OnlyAsked DEF EntryInv, Found
  <2>3. ~messy => \A p \in asked' : p[1].kind \in {"name", "mail", "launch"}
    BY <1>1, <1>3, <2>2
  <2>4. ~messy /\ Launching' => stored'.secret \in {None, username'}
    <3>1. ~messy /\ Launching' => field \in Names
      BY <1>3, <2>2 DEF Launching, Door!Waits, AnswerFrame, Door!socketVars
    <3>. QED
      BY <1>2, <1>3, <1>4, <1>5, <2>2, <3>1
  <2>5. \A p \in asked' : p \in asked \/ p[1].kind = "launch"
    BY <1>1, <1>3
  <2>6. \A p \in asked' : /\ p[1].kind \in {"validate", "login"} => mode = "plain"
                          /\ p[1].kind = "validate" => p[1].secret = None
                          /\ p[1].kind = "token" => mode = "longturn" /\ p[1].name \in Names
    BY <2>5 DEF EntryInv, Found
  <2>. QED
    BY <2>1, <2>3, <2>4, <2>6 DEF EntryInv, Found
<1>. QED
  BY <1>6, <1>7, <1>8, <1>10, <1>11, <1>12 DEF EntryInv

\* The name is in use: the password is asked for, or sent.
LEMMA InUseKeeps ==
  ASSUME EntryParams, EntryInv, AnswerFrame, NEW q \in asked, Door!InUse(q)
  PROVE  EntryInv'
<1> DEFINE secret == IF password = None THEN stored.secret ELSE password
           r == <<Door!Request("login", field, secret), q[2]>>
<1>1. r[1].kind = "login" /\ r[1].name = field
  BY DEF Door!Request
<1>2. q[1].kind = "validate" /\ q \in Busy(asked) /\ mode = "plain"
  BY DEF Door!InUse, Busy, EntryInv, Found
<1>3. /\ UNCHANGED <<dialog, trigger, field, Door!accountVars, username, stored, token>>
      /\ own' \in {own, field} /\ asked' \in {asked \ {q}, (asked \ {q}) \cup {r}}
  <2>1. CASE field = None
    BY <2>1 DEF Door!InUse, Door!Answered
  <2>2. CASE field # None
    <3>1. own' = field /\ asked' = (asked \ {q}) \cup (IF secret \in Names THEN {r} ELSE {})
      BY <2>2 DEF Door!InUse
    <3>2. asked' \in {asked \ {q}, (asked \ {q}) \cup {r}}
      BY <3>1
    <3>. QED
      BY <3>1, <3>2 DEF Door!InUse
  <2>. QED
    BY <2>1, <2>2
<1>. HIDE DEF r
<1>4. IsFiniteSet(asked') /\ Door!Ws' = Door!Ws /\ Alone'
  <2>1. asked' = asked \ {q} \/ (q \in Busy(asked) /\ asked' = (asked \ {q}) \cup {r})
    BY <1>2, <1>3
  <2>2. UNCHANGED <<sockets, submits, messy>>
    BY DEF AnswerFrame, Door!socketVars
  <2>. QED
    BY <2>1, <2>2, AnswerCounts
<1>5. Logged' /\ IsSeq(sockets') /\ IsSeq(logins') /\ polls' \in 0..1
  BY <1>3, LoggedKept DEF AnswerFrame
<1>6. \A p \in asked' : p \in asked \/ p = r
  BY <1>3
<1>7. EntryTypes'
  BY <1>1, <1>3, <1>4, <1>5, <1>6 DEF EntryInv, EntryTypes, AnswerFrame, Door!Kinds
<1>8. dialog # "hidden" /\ (dialog = "account" => messy)
  BY <1>2 DEF EntryInv, Making
<1>9. Making'
  BY <1>1, <1>3, <1>6, <1>8 DEF EntryInv, Making, Door!Waits, AnswerFrame
<1>10. Launching' => Launching
  BY <1>1, <1>6 DEF Launching, Door!Waits, AnswerFrame, Door!socketVars
<1>11. Connecting'
  BY <1>3, <1>10 DEF EntryInv, Connecting, Typing, AnswerFrame
<1>12. Found'
  <2>1. ~messy => dialog = "intro"
    BY <1>2 DEF EntryInv, Found
  <2>. QED
    BY <1>1, <1>2, <1>3, <1>6, <1>10, <2>1 DEF EntryInv, Found, AnswerFrame, Door!pageVars
<1>. QED
  BY <1>4, <1>5, <1>7, <1>9, <1>11, <1>12 DEF EntryInv

\* The account is made.
LEMMA CreatedKeeps ==
  ASSUME EntryParams, EntryInv, AnswerFrame, NEW q \in asked, Door!Created(q)
  PROVE  EntryInv'
<1> DEFINE r == <<Door!Request("launch", None, None), q[2]>>
<1>1. r[1].kind = "launch"
  BY DEF Door!Request
<1>2. q[1].kind = "create" /\ q \in Busy(asked) /\ dialog = "hidden" /\ way = "account"
  BY DEF Door!Created, Busy, EntryInv, Making, Door!Waits
<1>3. /\ UNCHANGED <<trigger, field, password, Door!accountVars, username, own, token>>
      /\ stored'.name = own /\ dialog' = "closed" /\ asked' = (asked \ {q}) \cup {r}
  BY DEF Door!Created, Door!Launch
<1>. HIDE DEF r
<1>4. IsFiniteSet(asked') /\ Door!Ws' = Door!Ws /\ Alone'
  <2>1. UNCHANGED <<sockets, submits, messy>>
    BY DEF AnswerFrame, Door!socketVars
  <2>. QED
    BY <1>2, <1>3, <2>1, AnswerCounts
<1>5. Logged' /\ IsSeq(sockets') /\ IsSeq(logins') /\ polls' \in 0..1
  BY <1>3, LoggedKept DEF AnswerFrame
<1>6. \A p \in asked' : p = r \/ (p \in asked /\ p[1].kind \in {"name", "mail"})
  BY <1>2, <1>3 DEF EntryInv, Making, Busy
<1>7. EntryTypes'
  BY <1>1, <1>3, <1>4, <1>5, <1>6 DEF EntryInv, EntryTypes, AnswerFrame, Door!Kinds
<1>8. Making'
  BY <1>1, <1>3, <1>6 DEF Making, Door!Waits
<1>9. Connecting'
  BY <1>2, <1>3 DEF Connecting, Typing, AnswerFrame
<1>10. Found'
  BY <1>1, <1>2, <1>6 DEF EntryInv, Found, AnswerFrame, Door!pageVars
<1>. QED
  BY <1>4, <1>5, <1>7, <1>8, <1>9, <1>10 DEF EntryInv

\* The token is verified: the dialog that is still open connects.
LEMMA VerifiedKeeps ==
  ASSUME EntryParams, EntryInv, AnswerFrame, NEW q \in asked, Door!Verified(q)
  PROVE  EntryInv'
<1> DEFINE r == <<Door!Request("launch", None, None), q[2]>>
<1>1. r[1].kind = "launch"
  BY DEF Door!Request
<1>2. q[1].kind = "token" /\ q \in Busy(asked) /\ mode = "longturn" /\ q[1].name \in Names
      /\ token' = q[1].name /\ UNCHANGED <<trigger, field, password, Door!accountVars, own>>
      /\ stored'.name \in Door!Typed
  <2>1. q[1].kind = "token" /\ q \in Busy(asked) /\ mode = "longturn" /\ q[1].name \in Names
        /\ token' = q[1].name /\ UNCHANGED <<trigger, field, password, Door!accountVars, own>>
    BY DEF Door!Verified, Busy, EntryInv, Found
  <2>2. field \in Door!Typed /\ q[1].name \in Door!Typed /\ stored.name \in Door!Typed
    BY <2>1 DEF EntryInv, EntryTypes, Door!Typed
  <2>3. stored' = [stored EXCEPT !.name = IF dialog = "intro" /\ Door!Valid THEN field ELSE q[1].name]
    BY DEF Door!Verified
  <2>4. stored'.name \in {stored.name, field, q[1].name}
    BY <2>3
  <2>. QED
    BY <2>1, <2>2, <2>4
<1>3. \/ dialog = "intro" /\ field \in Names /\ username' = field /\ dialog' = "closed"
           /\ asked' = (asked \ {q}) \cup {r}
      \/ dialog = "intro" /\ field \notin Names /\ dialog' = dialog /\ asked' = asked \ {q}
      \/ dialog # "intro" /\ UNCHANGED <<username, dialog>> /\ asked' = asked \ {q}
  <2>1. CASE dialog = "intro" /\ Door!Valid
    BY <2>1 DEF Door!Verified, Door!Valid, Door!Launch
  <2>2. CASE dialog = "intro" /\ ~Door!Valid
    BY <2>2 DEF Door!Verified, Door!Valid, Door!Answered
  <2>3. CASE dialog # "intro"
    BY <2>3 DEF Door!Verified, Door!Answered
  <2>. QED
    BY <2>1, <2>2, <2>3
<1>. HIDE DEF r
<1>4. IsFiniteSet(asked') /\ Door!Ws' = Door!Ws /\ Alone'
  <2>1. UNCHANGED <<sockets, submits, messy>>
    BY DEF AnswerFrame, Door!socketVars
  <2>2. asked' = asked \ {q} \/ (q \in Busy(asked) /\ asked' = (asked \ {q}) \cup {r})
    BY <1>2, <1>3
  <2>. QED
    BY <2>1, <2>2, AnswerCounts
<1>5. ~messy => /\ \A p \in asked : p # q => p[1].kind \in {"name", "mail"}
                /\ sockets = <<>> /\ logins = <<>> /\ ~Door!Waits("launch") /\ ~Launching
  BY <1>2, OnlyAsked
<1>6. Logged' /\ IsSeq(sockets') /\ IsSeq(logins') /\ polls' \in 0..1
  <2>1. CASE messy
    BY <2>1 DEF EntryInv, EntryTypes, Logged, Typing, Door!Ws, AnswerFrame, Door!socketVars
  <2>2. CASE ~messy
    <3>1. sockets' = <<>> /\ logins' = <<>> /\ polls' = 0
      BY <1>5, <2>2, EmptyIs DEF EntryInv, Logged, Door!Ws, AnswerFrame, Door!socketVars
    <3>. QED
      BY <3>1, EmptyIs DEF Logged, Door!Ws
  <2>. QED
    BY <2>1, <2>2
<1>7. \A p \in asked' : p \in asked \/ p = r
  BY <1>3
<1>8. EntryTypes'
  BY <1>1, <1>2, <1>3, <1>4, <1>6, <1>7 DEF EntryInv, EntryTypes, AnswerFrame, Door!Kinds
<1>9. dialog # "hidden" /\ (dialog = "account" => messy)
  BY <1>2 DEF EntryInv, Making
<1>10. Making'
  BY <1>1, <1>3, <1>7, <1>9 DEF EntryInv, Making, Door!Waits, AnswerFrame
<1>11. Connecting'
  <2>1. CASE dialog = "intro" /\ field \in Names
    BY <1>2, <1>3, <2>1 DEF Connecting
  <2>2. CASE ~(dialog = "intro" /\ field \in Names)
    <3>1. Launching' => Launching
      BY <1>3, <2>2 DEF Launching, Door!Waits, AnswerFrame, Door!socketVars
    <3>. QED
      BY <1>2, <1>3, <2>2, <3>1 DEF EntryInv, Connecting, Typing, AnswerFrame
  <2>. QED
    BY <2>1, <2>2
<1>12. Found'
  <2>1. mode' = mode /\ way' = way /\ messy' = messy /\ field' = field /\ way # "button"
    BY <1>2 DEF AnswerFrame, Door!pageVars, EntryInv, Found
  <2>2. ~messy => dialog = "intro" /\ q[1].name = field
    BY <1>2 DEF EntryInv, Found
  <2>3. ~messy => \A p \in asked' : p[1].kind \in {"name", "mail", "launch"}
    BY <1>1, <1>3, <1>5
  <2>4. ~messy /\ Launching' => username' = token'
    BY <1>2, <1>3, <2>2
  <2>5. \A p \in asked' : /\ p[1].kind \in {"validate", "login"} => mode = "plain"
                          /\ p[1].kind = "validate" => p[1].secret = None
                          /\ p[1].kind = "token" => mode = "longturn" /\ p[1].name \in Names
    BY <1>1, <1>7 DEF EntryInv, Found
  <2>. QED
    BY <2>1, <2>3, <2>4, <2>5 DEF EntryInv, Found
<1>. QED
  BY <1>4, <1>6, <1>8, <1>10, <1>11, <1>12 DEF EntryInv

\* A name or an e-mail was looked up, or there is no answer.
LEMMA NoneKeeps ==
  ASSUME EntryParams, EntryInv, AnswerFrame, NEW q \in asked, q[1].kind # "launch", Door!Looked(q) \/ Door!Fails(q)
  PROVE  EntryInv'
<1>1. asked' = asked \ {q} /\ UNCHANGED <<field, Door!userVars>>
  BY DEF Door!Looked, Door!Fails, Door!Answered
<1>2. dialog' = dialog \/ (q[1].kind = "create" /\ dialog' = "account")
  BY DEF Door!Looked, Door!Fails
<1>3. q[1].kind = "create" => /\ dialog = "hidden" /\ ~Launching
                              /\ \A p \in asked' : p[1].kind \in {"name", "mail"}
  BY <1>1 DEF EntryInv, Making, Busy, Door!Waits, Connecting
<1>4. IsFiniteSet(asked') /\ Door!Ws' = Door!Ws /\ Alone'
  <2>1. UNCHANGED <<sockets, submits, messy>>
    BY DEF AnswerFrame, Door!socketVars
  <2>. QED
    BY <1>1, <2>1, AnswerCounts
<1>5. Logged' /\ IsSeq(sockets') /\ IsSeq(logins') /\ polls' \in 0..1
  BY <1>1, LoggedKept DEF AnswerFrame, Door!userVars
<1>6. EntryTypes'
  BY <1>1, <1>2, <1>4, <1>5 DEF EntryInv, EntryTypes, AnswerFrame, Door!userVars
<1>7. Making'
  BY <1>1, <1>2, <1>3 DEF EntryInv, Making, Door!Waits, Busy, AnswerFrame
<1>8. Launching' => Launching
  BY <1>1 DEF Launching, Door!Waits, AnswerFrame, Door!socketVars
<1>9. Connecting'
  BY <1>1, <1>2, <1>3, <1>8 DEF EntryInv, Connecting, Typing, AnswerFrame, Door!userVars
<1>10. Found'
  BY <1>1, <1>2, <1>3, <1>8 DEF EntryInv, Found, AnswerFrame, Door!pageVars, Door!userVars
<1>. QED
  BY <1>4, <1>5, <1>6, <1>7, <1>9, <1>10 DEF EntryInv

-----------------------------------------------------------------------------
LEMMA AppendedIs ==
  ASSUME NEW s, IsSeq(s), NEW x
  PROVE  /\ IsSeq(Append(s, x)) /\ Len(Append(s, x)) = Len(s) + 1
         /\ DOMAIN Append(s, x) = DOMAIN s \cup {Len(s) + 1}
         /\ Append(s, x)[Len(s) + 1] = x /\ \A i \in DOMAIN s : Append(s, x)[i] = s[i]
<1>1. IsSeq(Append(s, x)) /\ Len(Append(s, x)) = Len(s) + 1
  BY Appended
<1>2. DOMAIN Append(s, x) = DOMAIN s \cup {Len(s) + 1}
  BY Appended
<1>3. Append(s, x)[Len(s) + 1] = x
  BY Appended
<1>4. \A i \in DOMAIN s : Append(s, x)[i] = s[i]
  BY Appended
<1>. QED
  BY <1>1, <1>2, <1>3, <1>4

\* The launcher names a port, or fails.
LEMMA LaunchedKeeps ==
  ASSUME EntryParams, EntryInv, NEW q \in asked, Door!Launched(q)
  PROVE  EntryInv'
<1>1. q[1].kind = "launch" /\ q \in Busy(asked) /\ Launching /\ asked' = asked \ {q}
      /\ UNCHANGED <<Door!pageVars, Door!dialogVars, Door!userVars, polls, logins, submits, messy, way>>
  BY DEF Door!Launched, Busy, Launching, Door!Waits, Door!Answered
<1>2. dialog = "closed"
  BY <1>1 DEF EntryInv, Connecting
<1>3. IsFiniteSet(asked') /\ Cardinality(Busy(asked')) = Cardinality(Busy(asked)) - 1
  BY <1>1, BusyTaken DEF EntryInv, EntryTypes
<1>4. Cardinality(Busy(asked)) \in Nat /\ Cardinality(Busy(asked')) \in Nat
  BY <1>3, BusyCounts DEF EntryInv, EntryTypes
<1>5. Door!Ws \in Nat /\ DOMAIN sockets = 1..Door!Ws /\ IsSeq(sockets')
      /\ \/ Door!Ws' = Door!Ws /\ sockets' = sockets
         \/ Door!Ws' = Door!Ws + 1 /\ (Door!Ws > 0 => sockets'[1] = sockets[1])
  <2>1. IsSeq(sockets)
    BY DEF EntryInv, EntryTypes
  <2>2. Door!Ws \in Nat /\ DOMAIN sockets = 1..Door!Ws
    BY <2>1, SequenceHas DEF Door!Ws
  <2>3. CASE sockets' = sockets
    BY <2>1, <2>2, <2>3 DEF Door!Ws
  <2>4. CASE sockets' = Append(sockets, "connecting")
    <3>1. IsSeq(Append(sockets, "connecting"))
      BY <2>1, AppendedIs
    <3>2. Len(Append(sockets, "connecting")) = Len(sockets) + 1
      BY <2>1, AppendedIs
    <3>3. \A i \in DOMAIN sockets : Append(sockets, "connecting")[i] = sockets[i]
      BY <2>1, AppendedIs
    <3>4. IsSeq(sockets')
      BY <2>4, <3>1
    <3>5. Door!Ws' = Door!Ws + 1
      BY <2>4, <3>2 DEF Door!Ws
    <3>6. Door!Ws > 0 => sockets'[1] = sockets[1]
      BY <2>2, <2>4, <3>3
    <3>. QED
      BY <2>2, <3>4, <3>5, <3>6
  <2>. QED
    BY <2>3, <2>4 DEF Door!Launched
<1>6. Many \in Nat /\ Many' \in Nat /\ Many' <= Many
  BY <1>3, <1>4, <1>5 DEF Many
<1>7. Alone'
  BY <1>1, <1>6 DEF EntryInv, EntryTypes, Alone
<1>8. EntryTypes'
  BY <1>1, <1>3, <1>5 DEF EntryInv, EntryTypes, Door!dialogVars, Door!userVars
<1>9. Making'
  BY <1>1, <1>2 DEF EntryInv, Making, Door!Waits, Door!dialogVars
<1>10. Connecting'
  BY <1>1 DEF EntryInv, Connecting, Typing, Door!dialogVars, Door!userVars
<1>11. Found'
  BY <1>1 DEF EntryInv, Found, Door!dialogVars, Door!userVars, Door!pageVars
<1>12. Logged'
  <2>1. /\ Door!Ws <= 1 => polls = 0 /\ Len(logins) <= 1
        /\ Door!Ws = 0 => logins = <<>>
        /\ Door!Ws = 1 /\ sockets[1] = "connecting" => logins = <<>>
        /\ polls > 0 => sockets[1] # "connecting"
    BY DEF EntryInv, Logged
  <2>2. polls \in 0..1 /\ polls' = polls /\ logins' = logins
    BY <1>1 DEF EntryInv, EntryTypes
  <2>3. /\ Door!Ws' <= 1 => polls' = 0 /\ Len(logins') <= 1
        /\ Door!Ws' = 0 => logins' = <<>>
        /\ Door!Ws' = 1 /\ sockets'[1] = "connecting" => logins' = <<>>
        /\ polls' > 0 => sockets'[1] # "connecting"
    BY <1>5, <2>1, <2>2
  <2>. QED
    BY <1>1, <2>3 DEF EntryInv, Logged, Typing, Door!userVars
<1>. QED
  BY <1>7, <1>8, <1>9, <1>10, <1>11, <1>12 DEF EntryInv

\* Nothing but the sockets and the logins change.
LEMMA SocketKeeps ==
  ASSUME EntryParams, EntryInv, IsSeq(sockets'), Door!Ws' = Door!Ws, sockets # <<>>, Logged', IsSeq(logins'),
         polls' \in 0..1, UNCHANGED <<Door!pageVars, Door!dialogVars, Door!userVars, asked, submits, messy, way>>
  PROVE  EntryInv'
<1>1. Launching
  BY DEF Launching
<1>2. EntryTypes'
  BY DEF EntryInv, EntryTypes, Door!dialogVars, Door!userVars
<1>3. Alone'
  <2>1. Many' = Many
    BY DEF Many
  <2>. QED
    BY <2>1 DEF EntryInv, Alone, Door!dialogVars
<1>4. Making'
  BY DEF EntryInv, Making, Door!Waits, Busy, Door!dialogVars
<1>5. Connecting'
  BY <1>1 DEF EntryInv, Connecting, Typing, Door!dialogVars, Door!userVars
<1>6. Found'
  BY <1>1 DEF EntryInv, Found, Door!dialogVars, Door!userVars, Door!pageVars
<1>. QED
  BY <1>2, <1>3, <1>4, <1>5, <1>6 DEF EntryInv

\* What is logged in is valid.
LEMMA LoginKeeps ==
  ASSUME EntryInv, sockets # <<>>,
         logins' = logins \/ logins' = Append(logins, [name |-> username, secret |-> stored.secret]),
         UNCHANGED <<messy, way, token>>
  PROVE  /\ IsSeq(logins')
         /\ Len(logins') \in Nat /\ Len(logins) \in Nat /\ Len(logins') <= Len(logins) + 1
         /\ Typing' => \A i \in DOMAIN logins' : logins'[i].name \in Names
         /\ ~messy' /\ way' = "button" => \A i \in DOMAIN logins' : logins'[i].secret \in {None, logins'[i].name}
         /\ ~messy' /\ way' = "token" => \A i \in DOMAIN logins' : logins'[i].name = token'
<1> DEFINE x == [name |-> username, secret |-> stored.secret]
<1>1. /\ Typing => username \in Names
      /\ ~messy /\ way = "button" => stored.secret \in {None, username}
      /\ ~messy /\ way = "token" => username = token
  BY DEF EntryInv, Connecting, Found, Launching
<1>2. /\ Typing => \A i \in DOMAIN logins : logins[i].name \in Names
      /\ ~messy /\ way = "button" => \A i \in DOMAIN logins : logins[i].secret \in {None, logins[i].name}
      /\ ~messy /\ way = "token" => \A i \in DOMAIN logins : logins[i].name = token
  BY DEF EntryInv, Logged
<1>3. IsSeq(logins)
  BY DEF EntryInv, EntryTypes
<1>4. x.name = username /\ x.secret = stored.secret
  OBVIOUS
<1>. HIDE DEF x
<1>5. CASE logins' = logins
  BY <1>2, <1>3, <1>5, SequenceHas DEF Typing
<1>6. CASE logins' = Append(logins, x)
  <2>1. /\ IsSeq(logins') /\ Len(logins') = Len(logins) + 1
        /\ DOMAIN logins' = DOMAIN logins \cup {Len(logins) + 1}
        /\ logins'[Len(logins) + 1] = x /\ \A i \in DOMAIN logins : logins'[i] = logins[i]
    <3>1. IsSeq(Append(logins, x)) /\ Len(Append(logins, x)) = Len(logins) + 1
      BY <1>3, AppendedIs
    <3>2. DOMAIN Append(logins, x) = DOMAIN logins \cup {Len(logins) + 1}
      BY <1>3, AppendedIs
    <3>3. Append(logins, x)[Len(logins) + 1] = x
      BY <1>3, AppendedIs
    <3>4. \A i \in DOMAIN logins : Append(logins, x)[i] = logins[i]
      BY <1>3, AppendedIs
    <3>. QED
      BY <1>6, <3>1, <3>2, <3>3, <3>4
  <2>2. Len(logins) \in Nat
    BY <1>3, SequenceHas
  <2>. QED
    BY <1>1, <1>2, <1>4, <2>1, <2>2 DEF Typing
<1>. QED
  BY <1>5, <1>6 DEF x

LEMMA SocketsAre ==
  ASSUME EntryInv
  PROVE  Door!Ws \in 0..2 /\ DOMAIN sockets = 1..Door!Ws /\ IsSeq(sockets)
<1>1. Door!Ws \in Nat /\ DOMAIN sockets = 1..Door!Ws /\ Cardinality(Busy(asked)) \in Nat /\ IsSeq(sockets)
  BY SequenceHas, BusyCounts DEF EntryInv, EntryTypes, Door!Ws
<1>. QED
  BY <1>1 DEF EntryInv, Alone, Many

\* A sequence with another element at a place.
LEMMA ReplacedIn ==
  ASSUME NEW s, IsSeq(s), NEW i \in DOMAIN s, NEW x
  PROVE  LET t == [s EXCEPT ![i] = x]
         IN  IsSeq(t) /\ Len(t) = Len(s) /\ DOMAIN t = DOMAIN s /\ t[i] = x
               /\ \A j \in DOMAIN s : j # i => t[j] = s[j]
<1>. PICK t : t = [s EXCEPT ![i] = x]
  OBVIOUS
<1> DEFINE S == {s[j] : j \in DOMAIN s} \cup {x}
<1>1. DOMAIN s = 1..Len(s) /\ Len(s) \in Nat
  BY SequenceHas
<1>2. s \in [DOMAIN s -> {s[j] : j \in DOMAIN s}]
  BY SeqDef, <1>1 DEF IsSeq
<1>3. t \in [1..Len(s) -> S] /\ t[i] = x /\ \A j \in DOMAIN s : j # i => t[j] = s[j]
  BY <1>1, <1>2
<1>. HIDE DEF S
<1>4. t \in Seq(S)
  <2>1. \E n \in Nat : t \in [1..n -> S]
    BY <1>1, <1>3, Zenon
  <2>2. Seq(S) = UNION {[1..n -> S] : n \in Nat}
    BY SeqDef
  <2>. QED
    BY <2>1, <2>2, Zenon
<1>5. IsSeq(t) /\ DOMAIN t = 1..Len(t) /\ Len(t) \in Nat
  BY <1>4, SequenceIs, SequenceHas
<1>6. DOMAIN t = 1..Len(s)
  BY <1>3
<1>7. Len(t) = Len(s)
  BY <1>1, <1>5, <1>6
<1>. QED
  BY <1>1, <1>3, <1>5, <1>6, <1>7

LEMMA OpensKeeps ==
  ASSUME EntryParams, EntryInv, NEW i \in DOMAIN sockets, Door!Opens(i)
  PROVE  EntryInv'
<1>1. Door!Ws \in 0..2 /\ DOMAIN sockets = 1..Door!Ws /\ IsSeq(sockets) /\ i \in 1..Door!Ws
  BY SocketsAre
<1>2. sockets # <<>>
  BY <1>1, EmptyIs DEF Door!Ws
<1>3. IsSeq(sockets') /\ Door!Ws' = Door!Ws /\ sockets'[i] = "open" /\ sockets[i] = "connecting"
      /\ \A j \in 1..Door!Ws : j # i => sockets'[j] = sockets[j]
  <2> DEFINE m == [sockets EXCEPT ![i] = "open"]
  <2>1. IsSeq(m) /\ Len(m) = Len(sockets)
    BY <1>1, ReplacedIn
  <2>3. m[i] = "open"
    BY <1>1, ReplacedIn
  <2>4. \A j \in DOMAIN sockets : j # i => m[j] = sockets[j]
    BY <1>1, ReplacedIn
  <2>2. sockets' = [sockets EXCEPT ![i] = "open"] /\ sockets[i] = "connecting"
    BY DEF Door!Opens
  <2>. QED
    BY <1>1, <2>1, <2>2, <2>3, <2>4 DEF Door!Ws
<1>4. UNCHANGED <<Door!pageVars, Door!dialogVars, Door!userVars, asked, submits, messy, way>>
  BY DEF Door!Opens
<1>5. /\ logins' = logins \/ logins' = Append(logins, [name |-> username, secret |-> stored.secret])
      /\ polls' = polls \/ (polls' = polls + 1 /\ sockets'[Door!Ws] # "open" /\ logins' = logins)
  <2>1. Door!Ready
    BY DEF Door!Opens
  <2>. QED
    BY <2>1 DEF Door!Ready
<1>6. /\ IsSeq(logins')
      /\ Len(logins') \in Nat /\ Len(logins) \in Nat /\ Len(logins') <= Len(logins) + 1
      /\ Typing' => \A k \in DOMAIN logins' : logins'[k].name \in Names
      /\ ~messy' /\ way' = "button" => \A k \in DOMAIN logins' : logins'[k].secret \in {None, logins'[k].name}
      /\ ~messy' /\ way' = "token" => \A k \in DOMAIN logins' : logins'[k].name = token'
  BY <1>2, <1>4, <1>5, LoginKeeps DEF Door!userVars
<1>7. /\ Door!Ws <= 1 => polls = 0 /\ Len(logins) <= 1
      /\ Door!Ws = 1 /\ sockets[1] = "connecting" => logins = <<>>
      /\ polls > 0 => sockets[1] # "connecting"
      /\ polls \in 0..1
  BY DEF EntryInv, EntryTypes, Logged
<1>8. Door!Ws <= 1 => i = 1 /\ Door!Ws = 1 /\ logins = <<>> /\ polls' = polls
  BY <1>1, <1>3, <1>5, <1>7
<1>9. polls' # polls => Door!Ws = 2 /\ i = 1 /\ polls' = 1
  BY <1>1, <1>3, <1>5, <1>7
<1>10. polls' \in 0..1 /\ (polls' > 0 => sockets'[1] # "connecting")
  BY <1>1, <1>3, <1>7, <1>8, <1>9
<1>11. Door!Ws <= 1 => polls' = 0 /\ Len(logins') <= 1 /\ sockets'[1] = "open"
  BY <1>3, <1>6, <1>7, <1>8, EmptyIs
<1>12. Door!Ws # 0
  BY <1>1
<1>13. Logged'
  BY <1>3, <1>6, <1>10, <1>11, <1>12, <1>1 DEF Logged
<1>. QED
  BY <1>2, <1>3, <1>4, <1>6, <1>10, <1>13, SocketKeeps

LEMMA ClosesKeeps ==
  ASSUME EntryParams, EntryInv, NEW i \in DOMAIN sockets, Door!Closes(i)
  PROVE  EntryInv'
<1>1. Door!Ws \in 0..2 /\ DOMAIN sockets = 1..Door!Ws /\ IsSeq(sockets) /\ i \in 1..Door!Ws
  BY SocketsAre
<1>2. sockets # <<>>
  BY <1>1, EmptyIs DEF Door!Ws
<1>3. IsSeq(sockets') /\ Door!Ws' = Door!Ws /\ sockets'[i] = "closed"
      /\ \A j \in 1..Door!Ws : j # i => sockets'[j] = sockets[j]
  <2> DEFINE m == [sockets EXCEPT ![i] = "closed"]
  <2>1. IsSeq(m) /\ Len(m) = Len(sockets)
    BY <1>1, ReplacedIn
  <2>3. m[i] = "closed"
    BY <1>1, ReplacedIn
  <2>4. \A j \in DOMAIN sockets : j # i => m[j] = sockets[j]
    BY <1>1, ReplacedIn
  <2>2. sockets' = [sockets EXCEPT ![i] = "closed"]
    BY DEF Door!Closes
  <2>. QED
    BY <1>1, <2>1, <2>2, <2>3, <2>4 DEF Door!Ws
<1>4. UNCHANGED <<Door!pageVars, Door!dialogVars, Door!userVars, asked, submits, messy, way, polls, logins>>
  BY DEF Door!Closes
<1>5. sockets'[1] = "connecting" => sockets[1] = "connecting"
  BY <1>1, <1>3
<1>6. Logged' /\ IsSeq(logins') /\ polls' \in 0..1
  BY <1>3, <1>4, <1>5 DEF EntryInv, EntryTypes, Logged, Typing, Door!userVars
<1>. QED
  BY <1>2, <1>3, <1>4, <1>6, SocketKeeps

LEMMA PollAgainKeeps ==
  ASSUME EntryParams, EntryInv, Door!PollAgain
  PROVE  EntryInv'
<1>1. Door!Ws \in 0..2 /\ DOMAIN sockets = 1..Door!Ws /\ IsSeq(sockets)
  BY SocketsAre
<1>2. polls = 1 /\ polls' = 0 /\ Door!Ws = 2 /\ sockets' = sockets
  BY <1>1 DEF Door!PollAgain, EntryInv, EntryTypes, Logged
<1>3. sockets # <<>>
  BY <1>2, EmptyIs DEF Door!Ws
<1>4. UNCHANGED <<Door!pageVars, Door!dialogVars, Door!userVars, asked, submits, messy, way>>
      /\ (logins' = logins \/ logins' = Append(logins, [name |-> username, secret |-> stored.secret]))
  BY DEF Door!PollAgain
<1>5. /\ IsSeq(logins')
      /\ Typing' => \A k \in DOMAIN logins' : logins'[k].name \in Names
      /\ ~messy' /\ way' = "button" => \A k \in DOMAIN logins' : logins'[k].secret \in {None, logins'[k].name}
      /\ ~messy' /\ way' = "token" => \A k \in DOMAIN logins' : logins'[k].name = token'
  BY <1>3, <1>4, LoginKeeps DEF Door!userVars
<1>6. Door!Ws' = 2
  BY <1>2 DEF Door!Ws
<1>7. Logged'
  BY <1>2, <1>5, <1>6 DEF Logged
<1>8. polls' \in 0..1 /\ IsSeq(sockets') /\ Door!Ws' = Door!Ws
  BY <1>1, <1>2, <1>6
<1>. QED
  BY <1>3, <1>4, <1>5, <1>7, <1>8, SocketKeeps

-----------------------------------------------------------------------------
LEMMA EntryStep == EntryParams /\ EntryInv /\ [Door!Next]_Door!vars => EntryInv'
<1> SUFFICES ASSUME EntryParams, EntryInv, [Door!Next]_Door!vars PROVE EntryInv'
  OBVIOUS
<1>1. CASE (\E text \in Names \cup {Bad} : Door!Types(text)) \/ (\E name \in Names : Door!TypesPassword(name))
             \/ Door!NewAccount \/ Door!CancelAccount
  BY <1>1, VisitorKeeps
<1>2. CASE Door!Start
  BY <1>2, StartKeeps
<1>3. CASE Door!CloseIntro
  BY <1>3, CloseIntroKeeps
<1>4. CASE Door!SignIn
  BY <1>4, SignInKeeps
<1>5. CASE Door!LeavesName \/ Door!LeavesMail
  BY <1>5, LookupKeeps
<1>6. CASE Door!CloseAccount
  BY <1>6, CloseAccountKeeps
<1>7. CASE \E name \in Names \cup {Bad} : Door!Signup(name)
  BY <1>7, SignupKeeps
<1>8. CASE \E q \in asked : Door!Answer(q)
  <2>1. PICK q \in asked : Door!Answer(q)
    BY <1>8
  <2>2. AnswerFrame /\ q[1].kind # "launch"
    BY <2>1 DEF Door!Answer, AnswerFrame
  <2>3. CASE Door!Unused(q) \/ Door!LoggedIn(q)
    BY <2>2, <2>3, ConnectKeeps
  <2>4. CASE Door!InUse(q)
    BY <2>2, <2>4, InUseKeeps
  <2>5. CASE Door!Created(q)
    BY <2>2, <2>5, CreatedKeeps
  <2>6. CASE Door!Verified(q)
    BY <2>2, <2>6, VerifiedKeeps
  <2>7. CASE Door!Looked(q) \/ Door!Fails(q)
    BY <2>2, <2>7, NoneKeeps
  <2>. QED
    BY <2>1, <2>3, <2>4, <2>5, <2>6, <2>7 DEF Door!Answer
<1>9. CASE \E q \in asked : Door!Launched(q)
  BY <1>9, LaunchedKeeps
<1>10. CASE \E i \in DOMAIN sockets : Door!Opens(i)
  BY <1>10, OpensKeeps
<1>11. CASE \E i \in DOMAIN sockets : Door!Closes(i)
  BY <1>11, ClosesKeeps
<1>12. CASE Door!PollAgain
  BY <1>12, PollAgainKeeps
<1>13. CASE UNCHANGED Door!vars
  BY <1>13 DEF Door!vars, EntryInv, EntryTypes, Alone, Many, Door!Ws, Making, Door!Waits, Busy, Connecting,
     Launching, Typing, Found, Logged
<1>. QED
  BY <1>1, <1>2, <1>3, <1>4, <1>5, <1>6, <1>7, <1>8, <1>9, <1>10, <1>11, <1>12, <1>13 DEF Door!Next

LEMMA EntryStarts == EntryParams /\ Door!Init => EntryInv
<1> SUFFICES ASSUME EntryParams, Door!Init PROVE EntryInv
  OBVIOUS
<1>1. asked = {} /\ polls = 0 /\ logins = <<>> /\ submits = 0 /\ messy = FALSE /\ way = "none"
      /\ own = None /\ token = None
  BY DEF Door!Init
<1>2. Busy(asked) = {} /\ Cardinality(Busy(asked)) = 0 /\ IsFiniteSet(asked) /\ ~Door!Waits("launch")
      /\ ~Door!Waits("create")
  BY <1>1, FS_EmptySet DEF Busy, Door!Waits
<1>3. stored.name \in {None} \cup Names
  BY DEF Door!Init
<1>4. field = stored.name /\ dialog \in {"intro", "closed"}
  BY DEF Door!Init
<1>5. sockets = <<>> \/ (sockets = <<"connecting">> /\ dialog = "closed")
  BY DEF Door!Init
<1>6. IsSeq(sockets) /\ Door!Ws \in 0..1 /\ (Door!Ws = 1 => dialog = "closed") /\ (sockets # <<>> => dialog = "closed")
  <2>1. CASE sockets = <<>>
    BY <2>1, EmptyIs DEF Door!Ws
  <2>2. CASE sockets = <<"connecting">> /\ dialog = "closed"
    <3>1. <<"connecting">> \in Seq({"connecting"}) /\ Len(<<"connecting">>) = 1
      OBVIOUS
    <3>2. sockets \in Seq({"connecting"}) /\ Len(sockets) = 1
      BY <2>2, <3>1, Zenon
    <3>3. IsSeq(sockets)
      BY <3>2, SequenceIs
    <3>. QED
      BY <2>2, <3>2, <3>3 DEF Door!Ws
  <2>. QED
    BY <1>5, <2>1, <2>2
<1>7. EntryTypes
  <2>1. IsSeq(logins)
    BY <1>1, EmptyIs
  <2>2. field \in Door!Typed /\ own \in Door!Typed /\ stored.name \in Door!Typed
    BY <1>1, <1>3, <1>4 DEF Door!Typed
  <2>3. submits \in 0..MaxClicks /\ polls \in 0..1
    BY <1>1 DEF EntryParams
  <2>4. messy \in BOOLEAN
    BY <1>1, Zenon
  <2>. QED
    BY <1>1, <1>2, <1>4, <1>6, <2>1, <2>2, <2>3, <2>4 DEF EntryTypes
<1>8. Many = Door!Ws
  BY <1>2, <1>6 DEF Many
<1>9. Alone
  BY <1>1, <1>6, <1>8 DEF Alone
<1>10. Making /\ Connecting /\ Found
  BY <1>1, <1>2, <1>4, <1>6 DEF Making, Connecting, Launching, Typing, Found, Door!Waits
<1>11. Logged
  BY <1>1, <1>6, EmptyIs DEF Logged, Typing
<1>. QED
  BY <1>7, <1>9, <1>10, <1>11 DEF EntryInv

LEMMA EntryHolds == EntryParams /\ EntryInv => Door!EntrySound
<1> SUFFICES ASSUME EntryParams, EntryInv PROVE Door!EntrySound
  OBVIOUS
<1>1. Door!Ws \in 0..2 /\ IsFiniteSet(asked)
  BY SocketsAre DEF EntryInv, EntryTypes
<1>2. Cardinality(Busy(asked)) \in Nat /\ IsFiniteSet(Busy(asked))
  BY <1>1, BusyCounts
<1>3. Many \in Nat /\ Many >= Door!Ws
  BY <1>1, <1>2 DEF Many
<1>4. polls \in 0..MaxClicks
  <2>1. polls > 0 => Door!Ws = 2
    BY <1>1 DEF EntryInv, EntryTypes, Logged
  <2>2. Door!Ws = 2 => submits >= 2
    BY <1>3 DEF EntryInv, EntryTypes, Alone
  <2>. QED
    BY <2>1, <2>2 DEF EntryInv, EntryTypes, EntryParams
<1>5. Door!TypeOK
  BY <1>4 DEF EntryInv, EntryTypes, Door!TypeOK
<1>6. Door!NamesValid
  BY DEF EntryInv, Logged, Typing, Door!NamesValid
<1>7. Door!ConnectsOnce
  <2> DEFINE L == {q \in asked : q[1].kind = "launch"}
  <2>1. L \subseteq Busy(asked)
    BY DEF Busy
  <2>2. Cardinality(L) <= Cardinality(Busy(asked)) /\ Cardinality(L) \in Nat
    BY <1>2, <2>1, FS_Subset, FS_CardinalityType
  <2>. HIDE DEF L
  <2>3. ~messy => Door!Ws + Cardinality(L) <= 1 /\ Door!Ws <= 1
    BY <1>1, <1>2, <2>2 DEF EntryInv, Alone, Many
  <2>4. ~messy => Len(logins) <= 1
    BY <2>3 DEF EntryInv, Logged
  <2>5. Door!Cardinality(L) = Cardinality(L)
    BY DEF Door!Cardinality, Cardinality
  <2>. QED
    BY <2>3, <2>4, <2>5 DEF Door!ConnectsOnce, L, EntryInv, Logged
<1>8. Door!TokenOfName
  BY DEF EntryInv, Logged, Door!TokenOfName
<1>. QED
  BY <1>5, <1>6, <1>7, <1>8 DEF Door!EntrySound

\* Whatever is typed and clicked while answers are on their way: a name that was
\* typed and is not valid never logs in, and a visitor who waits for answers
\* connects once, under the name whose password, or token, is sent
\* (show_intro_dialog, validate_username_callback, network_init).
THEOREM EntryIsSound == ASSUME EntryParams PROVE Door!Spec => []Door!EntrySound
<1>1. Door!Spec => []EntryInv
  BY EntryStarts, EntryStep, PTL DEF Door!Spec
<1>. QED
  BY <1>1, EntryHolds, PTL
=============================================================================
