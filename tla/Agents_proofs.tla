---------------------------- MODULE Agents_proofs ----------------------------
(***************************************************************************)
(* Proofs about the agents' service.                                       *)
(*                                                                         *)
(* Its event streams (EventBus), for every number of streams and every     *)
(* size of queues and history: a stream is in order, without gaps where    *)
(* the bus removes slow streams, and up to date as long as it is           *)
(* subscribed.                                                             *)
(*                                                                         *)
(* What an agent is told (StateMirror, as Mirror): the mirror and the      *)
(* packets on their way make up what the server shows; and who has missed  *)
(* no answer of the tracker knows, from the changes it was told, the state *)
(* that came with the last one, whatever games came between.               *)
(*                                                                         *)
(* Its games (GameOrchestrator, as Service): however the requests about    *)
(* games meet, an agent has its client; and unless they met out of order   *)
(* no connection is lost, all are to one game, and no agent is played by   *)
(* two loops.                                                              *)
(***************************************************************************)
EXTENDS EventBus, FiniteSetTheorems, SequenceTheorems, TLAPS

Increasing(q) == \A i, j \in 1..Len(q) : i < j => q[i] < q[j]
Consecutive(q) == \A i \in 1..Len(q) - 1 : q[i + 1] = q[i] + 1

\* q ends with event n.
UpTo(q, n) == q # << >> /\ q[Len(q)] = n

LEMMA Extend ==
  ASSUME NEW q \in Seq(Nat), NEW n \in Nat, \A i \in 1..Len(q) : q[i] <= n
  PROVE  /\ Append(q, n + 1) \in Seq(Nat)
         /\ Len(Append(q, n + 1)) = Len(q) + 1
         /\ UpTo(Append(q, n + 1), n + 1)
         /\ \A i \in 1..Len(Append(q, n + 1)) : Append(q, n + 1)[i] <= n + 1
         /\ Increasing(q) => Increasing(Append(q, n + 1))
         /\ Consecutive(q) /\ (q # << >> => q[Len(q)] = n) => Consecutive(Append(q, n + 1))
<1> DEFINE r == Append(q, n + 1)
<1>1. /\ r \in Seq(Nat) /\ Len(r) = Len(q) + 1 /\ r[Len(q) + 1] = n + 1
      /\ \A i \in 1..Len(q) : r[i] = q[i]
      /\ Len(q) \in Nat /\ \A i \in 1..Len(q) : q[i] \in Nat
  BY AppendProperties, ElementOfSeq
<1> HIDE DEF r
<1>2. \A i \in 1..Len(r) : i \in 1..Len(q) \/ i = Len(q) + 1
  BY <1>1
<1>3. \A i \in 1..Len(r) : r[i] <= n + 1
  BY <1>1, <1>2
<1>4. Increasing(q) => Increasing(r)
  <2> SUFFICES ASSUME Increasing(q), NEW i \in 1..Len(r), NEW j \in 1..Len(r), i < j
               PROVE  r[i] < r[j]
    BY DEF Increasing
  <2>1. i \in 1..Len(q)
    BY <1>1
  <2>2. CASE j \in 1..Len(q)
    BY <1>1, <2>1, <2>2 DEF Increasing
  <2>3. CASE j = Len(q) + 1
    BY <1>1, <2>1, <2>3
  <2> QED BY <1>2, <2>2, <2>3
<1>5. Consecutive(q) /\ (q # << >> => q[Len(q)] = n) => Consecutive(r)
  <2> SUFFICES ASSUME Consecutive(q), q # << >> => q[Len(q)] = n,
                      NEW i \in 1..Len(r) - 1
               PROVE  r[i + 1] = r[i] + 1
    BY DEF Consecutive
  <2>1. i \in 1..Len(q)
    BY <1>1
  <2>2. CASE i = Len(q)
    BY <1>1, <2>1, <2>2
  <2>3. CASE i # Len(q)
    <3>1. i \in 1..Len(q) - 1 /\ i + 1 \in 1..Len(q)
      BY <1>1, <2>1, <2>3
    <3> QED BY <1>1, <2>1, <3>1 DEF Consecutive
  <2> QED BY <2>2, <2>3
<1> QED BY <1>1, <1>3, <1>4, <1>5 DEF r, UpTo

\* What is left of a sequence without its first n elements.
LEMMA Suffix ==
  ASSUME NEW q \in Seq(Nat), NEW m \in 1..Len(q) + 1
  PROVE  LET r == SubSeq(q, m, Len(q))
         IN  /\ r \in Seq(Nat)
             /\ Len(r) = Len(q) - m + 1
             /\ \A i \in 1..Len(r) : r[i] = q[m + i - 1] /\ m + i - 1 \in 1..Len(q)
             /\ Increasing(q) => Increasing(r)
             /\ Consecutive(q) => Consecutive(r)
             /\ m <= Len(q) => r # << >> /\ r[Len(r)] = q[Len(q)]
<1> DEFINE L == Len(q)
           r == SubSeq(q, m, L)
<1>0. L \in Nat /\ m \in 1..L + 1 /\ \A i \in 1..L : q[i] \in Nat
  BY ElementOfSeq
<1>1. /\ r \in Seq(Nat)
      /\ Len(r) = L - m + 1
      /\ \A i \in 1..L - m + 1 : r[i] = q[m + i - 1]
  <2>1. \A i \in m..L : q[i] \in Nat
    <3>1. m..L \subseteq 1..L
      <4> HIDE DEF L
      <4> QED BY <1>0
    <3> QED BY <1>0, <3>1
  <2>2. m \in Int /\ L \in Int /\ (IF m <= L THEN L - m + 1 ELSE 0) = L - m + 1
    <3> HIDE DEF L
    <3> QED BY <1>0
  <2> HIDE DEF L
  <2> QED BY <2>1, <2>2, SubSeqProperties
<1>2. \A i \in 1..L - m + 1 : m + i - 1 \in 1..L
  <2> HIDE DEF L
  <2> QED BY <1>0
<1> HIDE DEF r
<1>3. Increasing(q) => Increasing(r)
  <2> SUFFICES ASSUME Increasing(q), NEW i \in 1..L - m + 1, NEW j \in 1..L - m + 1, i < j
               PROVE  r[i] < r[j]
    BY <1>1 DEF Increasing
  <2>1. m + i - 1 < m + j - 1
    BY <1>0
  <2> QED BY <1>1, <1>2, <2>1 DEF Increasing
<1>4. Consecutive(q) => Consecutive(r)
  <2> SUFFICES ASSUME Consecutive(q), NEW i \in 1..(L - m + 1) - 1
               PROVE  r[i + 1] = r[i] + 1
    BY <1>1 DEF Consecutive
  <2>1. /\ i \in 1..L - m + 1 /\ i + 1 \in 1..L - m + 1
        /\ m + i - 1 \in 1..L - 1
        /\ m + (i + 1) - 1 = (m + i - 1) + 1
    <3> HIDE DEF L
    <3> QED BY <1>0
  <2> QED BY <1>1, <2>1 DEF Consecutive
<1>5. m <= L => r # << >> /\ r[Len(r)] = q[L]
  <2>1. m <= L => /\ L - m + 1 \in 1..L - m + 1 /\ m + (L - m + 1) - 1 = L
                  /\ L - m + 1 # 0
    <3> HIDE DEF L
    <3> QED BY <1>0
  <2> QED BY <1>1, <2>1
<1> QED BY <1>1, <1>2, <1>3, <1>4, <1>5 DEF r

\* Elements of a concatenation.
LEMMA Concat ==
  ASSUME NEW s \in Seq(Nat), NEW q \in Seq(Nat)
  PROVE  /\ s \o q \in Seq(Nat)
         /\ Len(s \o q) = Len(s) + Len(q)
         /\ \A i \in 1..Len(s) : (s \o q)[i] = s[i] /\ i \in 1..Len(s \o q)
         /\ \A i \in 1..Len(q) : /\ (s \o q)[Len(s) + i] = q[i]
                                 /\ Len(s) + i \in 1..Len(s \o q)
         /\ \A i \in 1..Len(s \o q) :
              i \in 1..Len(s) \/ (i - Len(s) \in 1..Len(q) /\ Len(s) + (i - Len(s)) = i)
<1> DEFINE r == s \o q
<1>1. /\ r \in Seq(Nat)
      /\ Len(r) = Len(s) + Len(q)
      /\ \A i \in 1..Len(s) + Len(q) : r[i] = IF i <= Len(s) THEN s[i] ELSE q[i - Len(s)]
  BY ConcatProperties
<1> HIDE DEF r
<1>2. Len(s) \in Nat /\ Len(q) \in Nat
  OBVIOUS
<1>3. \A i \in 1..Len(s) : i \in 1..Len(s) + Len(q) /\ i <= Len(s)
  BY <1>2
<1>4. \A i \in 1..Len(q) : /\ Len(s) + i \in 1..Len(s) + Len(q)
                           /\ ~(Len(s) + i <= Len(s)) /\ (Len(s) + i) - Len(s) = i
  BY <1>2
<1>5. \A i \in 1..Len(s) + Len(q) :
        i \in 1..Len(s) \/ (i - Len(s) \in 1..Len(q) /\ Len(s) + (i - Len(s)) = i)
  BY <1>2
<1> QED BY <1>1, <1>3, <1>4, <1>5 DEF r

\* Putting an event puts it at the end of the feed.
LEMMA PutEnds ==
  ASSUME NEW s \in Seq(Nat), NEW q \in Seq(Nat), NEW e \in Nat
  PROVE  s \o Append(q, e) = Append(s \o q, e)
<1>1. <<e>> \in Seq(Nat)
  OBVIOUS
<1>2. Append(q, e) = q \o <<e>> /\ Append(s \o q, e) = (s \o q) \o <<e>>
  BY AppendIsConcat, ConcatProperties
<1>3. (s \o q) \o <<e>> = s \o (q \o <<e>>)
  BY <1>1, ConcatAssociative
<1> QED BY <1>2, <1>3

\* Taking an event leaves the feed as it is.
LEMMA TakeKeepsFeed ==
  ASSUME NEW s \in Seq(Nat), NEW q \in Seq(Nat), q # << >>
  PROVE  Append(s, Head(q)) \o Tail(q) = s \o q
<1>1. Head(q) \in Nat /\ Tail(q) \in Seq(Nat) /\ <<Head(q)>> \in Seq(Nat)
  BY HeadTailProperties
<1>2. q = <<Head(q)>> \o Tail(q)
  BY ConcatSimplifications
<1>3. Append(s, Head(q)) = s \o <<Head(q)>>
  BY <1>1, AppendIsConcat
<1>4. (s \o <<Head(q)>>) \o Tail(q) = s \o (<<Head(q)>> \o Tail(q))
  BY <1>1, ConcatAssociative
<1> QED BY <1>2, <1>3, <1>4

\* Removing the oldest queued event keeps the order.
LEMMA DropKeepsOrder ==
  ASSUME NEW s \in Seq(Nat), NEW q \in Seq(Nat), q # << >>, Increasing(s \o q),
         NEW n \in Nat, \A i \in 1..Len(s \o q) : (s \o q)[i] <= n
  PROVE  /\ Tail(q) \in Seq(Nat) /\ Len(Tail(q)) = Len(q) - 1
         /\ Increasing(s \o Tail(q))
         /\ \A i \in 1..Len(s \o Tail(q)) : (s \o Tail(q))[i] <= n
<1> DEFINE t == Tail(q)
           f == s \o q
           g == s \o t
           at(i) == IF i <= Len(s) THEN i ELSE i + 1
<1>1. /\ t \in Seq(Nat) /\ Len(t) = Len(q) - 1 /\ Len(q) \in Nat /\ Len(s) \in Nat
      /\ \A i \in 1..Len(t) : t[i] = q[i + 1]
  BY HeadTailProperties
<1> HIDE DEF t
<1>2. /\ g \in Seq(Nat) /\ Len(g) = Len(s) + Len(t) /\ Len(f) = Len(s) + Len(q)
      /\ \A i \in 1..Len(s) : g[i] = s[i] /\ f[i] = s[i]
      /\ \A i \in 1..Len(t) : g[Len(s) + i] = t[i]
      /\ \A i \in 1..Len(q) : f[Len(s) + i] = q[i]
      /\ \A i \in 1..Len(g) : i \in 1..Len(s) \/ (i - Len(s) \in 1..Len(t) /\ Len(s) + (i - Len(s)) = i)
  BY <1>1, Concat
<1> HIDE DEF f, g
<1>3. ASSUME NEW i \in 1..Len(g) PROVE at(i) \in 1..Len(f) /\ g[i] = f[at(i)]
  <2>1. CASE i \in 1..Len(s)
    BY <1>1, <1>2, <2>1
  <2>2. ASSUME NEW k \in 1..Len(t), Len(s) + k = i
        PROVE  at(i) \in 1..Len(f) /\ g[i] = f[at(i)]
    <3>1. k + 1 \in 1..Len(q) /\ Len(s) + (k + 1) = i + 1
      BY <1>1, <2>2
    <3>2. at(i) = i + 1 /\ at(i) \in 1..Len(f)
      BY <1>1, <1>2, <2>2
    <3>3. g[i] = t[k]
      BY <1>2, <2>2
    <3>4. f[i + 1] = q[k + 1]
      BY <1>2, <3>1
    <3> QED BY <1>1, <3>2, <3>3, <3>4
  <2> QED BY <1>2, <2>1, <2>2
<1>4. Increasing(g)
  <2> SUFFICES ASSUME NEW i \in 1..Len(g), NEW j \in 1..Len(g), i < j PROVE g[i] < g[j]
    BY DEF Increasing
  <2>1. at(i) < at(j)
    BY <1>1
  <2>2. f[at(i)] < f[at(j)]
    BY <1>3, <2>1 DEF Increasing, f
  <2> QED BY <1>3, <2>2
<1>5. \A i \in 1..Len(g) : g[i] <= n
  <2> HIDE DEF at
  <2> QED BY <1>3 DEF f
<1> QED BY <1>1, <1>4, <1>5 DEF g, t

\* The last n events of a sequence.
LEMMA LastKeeps ==
  ASSUME NEW S, NEW q \in Seq(S), NEW n \in Nat, n > 0
  PROVE  /\ Last(q, n) \in Seq(S)
         /\ Len(Last(q, n)) <= n
         /\ Last(q, n) # q => \E m \in 1..Len(q) : Last(q, n) = SubSeq(q, m, Len(q))
<1>1. CASE Len(q) <= n
  BY <1>1 DEF Last
<1>2. CASE ~(Len(q) <= n)
  <2> DEFINE m == Len(q) - n + 1
  <2>1. m \in 1..Len(q) /\ m <= Len(q) /\ Len(q) - m + 1 = n
    BY <1>2
  <2>2. Last(q, n) = SubSeq(q, m, Len(q))
    BY <1>2 DEF Last
  <2> HIDE DEF m
  <2>3. \A i \in m..Len(q) : q[i] \in S
    <3>1. m..Len(q) \subseteq 1..Len(q)
      BY <2>1
    <3> QED BY <3>1, ElementOfSeq
  <2>4. SubSeq(q, m, Len(q)) \in Seq(S) /\ Len(SubSeq(q, m, Len(q))) = n
    <3>1. m \in Int /\ Len(q) \in Int
      BY <2>1
    <3> QED BY <2>1, <2>3, <3>1, SubSeqProperties
  <2> QED BY <2>1, <2>2, <2>4
<1> QED BY <1>1, <1>2

-----------------------------------------------------------------------------
(* The type invariant.                                                     *)

LEMMA PutTypes ==
  ASSUME NEW q \in Seq(1..MaxEvents), Len(q) <= QueueSize, NEW e \in 1..MaxEvents
  PROVE  /\ PutNoWait(q, e) \in Seq(1..MaxEvents) /\ Len(PutNoWait(q, e)) <= QueueSize
         /\ PutDropOldest(q, e) \in Seq(1..MaxEvents) /\ Len(PutDropOldest(q, e)) <= QueueSize
<1>0. QueueSize \in Nat /\ QueueSize > 0 /\ Len(q) \in Nat
  BY EventBusAssumption
<1>1. Append(q, e) \in Seq(1..MaxEvents) /\ Len(Append(q, e)) = Len(q) + 1
  BY AppendProperties
<1>2. CASE Len(q) < QueueSize
  <2>1. PutNoWait(q, e) = Append(q, e) /\ PutDropOldest(q, e) = Append(q, e)
    BY <1>2 DEF PutNoWait, PutDropOldest
  <2> QED BY <1>0, <1>1, <1>2, <2>1
<1>3. CASE ~(Len(q) < QueueSize)
  <2>1. q # << >> /\ Len(q) = QueueSize
    BY <1>0, <1>3
  <2>2. Tail(q) \in Seq(1..MaxEvents) /\ Len(Tail(q)) = Len(q) - 1
    BY <2>1, HeadTailProperties
  <2>3. Append(Tail(q), e) \in Seq(1..MaxEvents) /\ Len(Append(Tail(q), e)) = Len(Tail(q)) + 1
    BY <2>2, AppendProperties
  <2>4. PutNoWait(q, e) = q /\ PutDropOldest(q, e) = Append(Tail(q), e)
    BY <1>3 DEF PutNoWait, PutDropOldest
  <2> QED BY <1>0, <2>1, <2>2, <2>3, <2>4
<1> QED BY <1>2, <1>3

LEMMA InitType == Init => TypeOK
BY EventBusAssumption DEF Init, TypeOK

LEMMA StepType == TypeOK /\ [Next]_vars => TypeOK'
<1> SUFFICES ASSUME TypeOK, [Next]_vars PROVE TypeOK'
  OBVIOUS
<1>0. /\ policy \in {"drop_stream", "drop_oldest"} /\ published \in 0..MaxEvents
      /\ history \in Seq(1..MaxEvents) /\ Len(history) <= MaxHistory
      /\ subscribers \subseteq Streams
      /\ queue \in [Streams -> Seq(1..MaxEvents)]
      /\ \A o \in Streams : Len(queue[o]) <= QueueSize
      /\ phase \in [Streams -> {"new", "opened", "waiting", "sending", "closed"}]
      /\ sent \in [Streams -> Seq(1..MaxEvents)]
      /\ since \in [Streams -> 0..MaxEvents]
  BY DEF TypeOK
<1>c. /\ QueueSize \in Nat /\ QueueSize > 0 /\ MaxHistory \in Nat /\ MaxHistory > 0
      /\ Shown \in Nat /\ Shown > 0 /\ Shown <= QueueSize /\ MaxEvents \in Nat
  BY EventBusAssumption
<1>1. CASE Publish
  <2>1. /\ published' \in 1..MaxEvents /\ published' \in 0..MaxEvents
        /\ policy' = policy /\ phase' = phase /\ sent' = sent /\ since' = since
    BY <1>0, <1>1, <1>c DEF Publish
  <2>2. history' \in Seq(1..MaxEvents) /\ Len(history') <= MaxHistory
    <3>1. Append(history, published') \in Seq(1..MaxEvents)
      BY <1>0, <2>1, AppendProperties
    <3>2. /\ Last(Append(history, published'), MaxHistory) \in Seq(1..MaxEvents)
          /\ Len(Last(Append(history, published'), MaxHistory)) <= MaxHistory
      BY <1>c, <3>1, LastKeeps
    <3> QED BY <1>0, <1>1, <3>2 DEF Publish
  <2>3. /\ queue' \in [Streams -> Seq(1..MaxEvents)]
        /\ \A o \in Streams : Len(queue'[o]) <= QueueSize
    <3>1. \A o \in Streams :
            /\ PutNoWait(queue[o], published') \in Seq(1..MaxEvents)
            /\ Len(PutNoWait(queue[o], published')) <= QueueSize
            /\ PutDropOldest(queue[o], published') \in Seq(1..MaxEvents)
            /\ Len(PutDropOldest(queue[o], published')) <= QueueSize
      BY <1>0, <2>1, PutTypes
    <3>2. \/ queue' = [o \in Streams |-> IF o \in subscribers
                                         THEN PutNoWait(queue[o], published')
                                         ELSE queue[o]]
          \/ queue' = [o \in Streams |-> IF o \in subscribers
                                         THEN PutDropOldest(queue[o], published')
                                         ELSE queue[o]]
      BY <1>1 DEF Publish
    <3> QED BY <1>0, <3>1, <3>2
  <2>4. subscribers' \subseteq Streams
    BY <1>0, <1>1 DEF Publish
  <2> QED BY <1>0, <2>1, <2>2, <2>3, <2>4 DEF TypeOK
<1>2. ASSUME NEW o \in Streams, Subscribe(o) PROVE TypeOK'
  <2>1. Last(history, Shown) \in Seq(1..MaxEvents) /\ Len(Last(history, Shown)) <= QueueSize
    <3>1. Last(history, Shown) \in Seq(1..MaxEvents) /\ Len(Last(history, Shown)) <= Shown
      BY <1>0, <1>c, LastKeeps
    <3>2. Len(Last(history, Shown)) \in Nat
      BY <3>1
    <3> QED BY <1>c, <3>1, <3>2
  <2>2. queue' = [queue EXCEPT ![o] = Last(history, Shown)]
    BY <1>2 DEF Subscribe
  <2>3. /\ queue' \in [Streams -> Seq(1..MaxEvents)]
        /\ \A o2 \in Streams : Len(queue'[o2]) <= QueueSize
    BY <1>0, <2>1, <2>2
  <2>4. /\ phase' \in [Streams -> {"new", "opened", "waiting", "sending", "closed"}]
        /\ since' \in [Streams -> 0..MaxEvents]
        /\ subscribers' \subseteq Streams
        /\ UNCHANGED <<policy, published, history, sent>>
    BY <1>0, <1>2 DEF Subscribe
  <2> QED BY <1>0, <2>3, <2>4 DEF TypeOK
<1>3. ASSUME NEW o \in Streams, Take(o) PROVE TypeOK'
  <2>1. /\ queue[o] \in Seq(1..MaxEvents) /\ queue[o] # << >>
        /\ sent' = [sent EXCEPT ![o] = Append(sent[o], Head(queue[o]))]
        /\ queue' = [queue EXCEPT ![o] = Tail(queue[o])]
        /\ phase' = [phase EXCEPT ![o] = "sending"]
        /\ UNCHANGED <<policy, published, history, subscribers, since>>
    BY <1>0, <1>3 DEF Take
  <2>2. /\ Head(queue[o]) \in 1..MaxEvents
        /\ Tail(queue[o]) \in Seq(1..MaxEvents) /\ Len(Tail(queue[o])) = Len(queue[o]) - 1
    BY <2>1, HeadTailProperties
  <2>3. Append(sent[o], Head(queue[o])) \in Seq(1..MaxEvents)
    BY <1>0, <2>2, AppendProperties
  <2>4. Len(Tail(queue[o])) <= QueueSize
    BY <1>0, <1>c, <2>1, <2>2
  <2>5. sent' \in [Streams -> Seq(1..MaxEvents)]
    BY <1>0, <2>1, <2>3
  <2>6. /\ queue' \in [Streams -> Seq(1..MaxEvents)]
        /\ \A o2 \in Streams : Len(queue'[o2]) <= QueueSize
    BY <1>0, <2>1, <2>2, <2>4
  <2>7. phase' \in [Streams -> {"new", "opened", "waiting", "sending", "closed"}]
    BY <1>0, <2>1
  <2> QED BY <1>0, <2>1, <2>5, <2>6, <2>7 DEF TypeOK
<1>4. ASSUME NEW o \in Streams, Begin(o) \/ Written(o) \/ Keepalive(o) \/ Leave(o)
      PROVE  TypeOK'
  <2>1. /\ phase' \in [Streams -> {"new", "opened", "waiting", "sending", "closed"}]
        /\ subscribers' \subseteq Streams
    BY <1>0, <1>4 DEF Begin, Written, Keepalive, Leave
  <2>2. UNCHANGED <<policy, published, history, queue, sent, since>>
    BY <1>4 DEF Begin, Written, Keepalive, Leave
  <2> QED BY <1>0, <2>1, <2>2 DEF TypeOK
<1>5. CASE UNCHANGED vars
  BY <1>5 DEF vars, TypeOK
<1> QED BY <1>1, <1>2, <1>3, <1>4, <1>5 DEF Next, Generator

-----------------------------------------------------------------------------
(* The invariant.  Order and gaplessness are kept by a put because what is *)
(* given to a subscribed stream ends with the latest event, and by a       *)
(* subscription because the history does.                                  *)

Known(q, n) == Increasing(q) /\ \A i \in 1..Len(q) : q[i] <= n

HistoryInv ==
  /\ Known(history, published) /\ Consecutive(history)
  /\ history # << >> => history[Len(history)] = published
  /\ policy = "drop_oldest" => history = << >>

StreamInv(o) ==
  /\ Known(Feed(o), published)
  /\ policy = "drop_stream" => Consecutive(Feed(o))
  /\ o \in subscribers =>
       /\ Feed(o) # << >> => Feed(o)[Len(Feed(o))] = published
       /\ published > since[o] => Feed(o) # << >>
  /\ phase[o] = "new" => sent[o] = << >>

IInv == TypeOK /\ HistoryInv /\ \A o \in Streams : StreamInv(o)

LEMMA EmptyKnown ==
  ASSUME NEW n
  PROVE  Known(<< >>, n) /\ Consecutive(<< >>)
BY DEF Known, Increasing, Consecutive

\* The next event at the end of what is known.
LEMMA KnownExtend ==
  ASSUME NEW q \in Seq(Nat), NEW n \in Nat, Known(q, n)
  PROVE  /\ Append(q, n + 1) \in Seq(Nat) /\ Append(q, n + 1) # << >>
         /\ Known(Append(q, n + 1), n + 1) /\ Known(q, n + 1)
         /\ Append(q, n + 1)[Len(Append(q, n + 1))] = n + 1
         /\ Consecutive(q) /\ (q # << >> => q[Len(q)] = n) => Consecutive(Append(q, n + 1))
<1>1. \A i \in 1..Len(q) : q[i] <= n /\ q[i] \in Nat
  BY ElementOfSeq DEF Known
<1>2. \A i \in 1..Len(q) : q[i] <= n + 1
  BY <1>1
<1> QED BY <1>1, <1>2, Extend DEF Known, UpTo

\* The latest events of what is known.
LEMMA KnownLast ==
  ASSUME NEW q \in Seq(Nat), NEW n \in Nat, Known(q, n), NEW k \in Nat, k > 0
  PROVE  /\ Last(q, k) \in Seq(Nat)
         /\ Known(Last(q, k), n)
         /\ Consecutive(q) => Consecutive(Last(q, k))
         /\ Last(q, k) # << >> => q # << >> /\ Last(q, k)[Len(Last(q, k))] = q[Len(q)]
         /\ q = << >> => Last(q, k) = << >>
<1>1. Last(q, k) \in Seq(Nat)
  BY LastKeeps
<1>2. CASE Last(q, k) = q
  BY <1>1, <1>2
<1>3. CASE Last(q, k) # q
  <2>1. PICK m \in 1..Len(q) : Last(q, k) = SubSeq(q, m, Len(q))
    BY <1>3, LastKeeps
  <2> DEFINE r == SubSeq(q, m, Len(q))
  <2>2. m \in 1..Len(q) + 1 /\ m <= Len(q)
    OBVIOUS
  <2>3. /\ \A i \in 1..Len(r) : r[i] = q[m + i - 1] /\ m + i - 1 \in 1..Len(q)
        /\ Increasing(q) => Increasing(r)
        /\ Consecutive(q) => Consecutive(r)
        /\ r # << >> /\ r[Len(r)] = q[Len(q)]
    BY <2>2, Suffix
  <2> HIDE DEF r
  <2>4. Known(r, n)
    BY <2>3 DEF Known
  <2>5. q # << >>
    BY <2>2
  <2> QED BY <1>1, <2>1, <2>3, <2>4, <2>5 DEF r
<1> QED BY <1>2, <1>3

LEMMA Naturals ==
  ASSUME TypeOK
  PROVE  /\ published \in Nat /\ history \in Seq(Nat)
         /\ \A o \in Streams : /\ sent[o] \in Seq(Nat) /\ queue[o] \in Seq(Nat)
                               /\ Feed(o) \in Seq(Nat) /\ since[o] \in Nat
<1>1. 1..MaxEvents \subseteq Nat
  BY EventBusAssumption
<1>2. Seq(1..MaxEvents) \subseteq Seq(Nat)
  BY <1>1, SeqMonotonic
<1>3. published \in Nat /\ \A o \in Streams : since[o] \in Nat
  BY EventBusAssumption DEF TypeOK
<1>4. /\ history \in Seq(Nat)
      /\ \A o \in Streams : sent[o] \in Seq(Nat) /\ queue[o] \in Seq(Nat)
  BY <1>2 DEF TypeOK
<1>5. \A o \in Streams : Feed(o) \in Seq(Nat)
  BY <1>4, ConcatProperties DEF Feed
<1> QED BY <1>3, <1>4, <1>5

LEMMA InitInv == Init => IInv
<1> SUFFICES ASSUME Init PROVE IInv
  OBVIOUS
<1>1. /\ history = << >> /\ published = 0 /\ subscribers = {}
      /\ \A o \in Streams : sent[o] = << >> /\ queue[o] = << >>
  BY DEF Init
<1>2. \A o \in Streams : Feed(o) = << >>
  <2>1. << >> \o << >> = << >>
    OBVIOUS
  <2> QED BY <1>1, <2>1, Zenon DEF Feed
<1>3. HistoryInv
  BY <1>1, EmptyKnown DEF HistoryInv
<1>4. \A o \in Streams : StreamInv(o)
  BY <1>1, <1>2, EmptyKnown DEF StreamInv
<1> QED BY <1>3, <1>4, InitType DEF IInv

\* A publication keeps the history's invariant.
LEMMA HistoryKeeps == IInv /\ Publish => HistoryInv'
<1> SUFFICES ASSUME IInv, Publish PROVE HistoryInv'
  OBVIOUS
<1>0. HistoryInv /\ published \in Nat /\ history \in Seq(Nat)
  BY Naturals DEF IInv
<1>1. published' = published + 1 /\ policy' = policy
  BY DEF Publish
<1>2. CASE policy = "drop_stream" /\ history' = Last(Append(history, published'), MaxHistory)
  <2>1. /\ Append(history, published + 1) \in Seq(Nat)
        /\ Known(Append(history, published + 1), published + 1)
        /\ Append(history, published + 1)[Len(Append(history, published + 1))] = published + 1
        /\ Consecutive(Append(history, published + 1))
    BY <1>0, KnownExtend DEF HistoryInv
  <2>2. published + 1 \in Nat /\ MaxHistory \in Nat /\ MaxHistory > 0
    BY <1>0, EventBusAssumption
  <2> DEFINE r == Append(history, published + 1)
  <2>3. /\ Known(Last(r, MaxHistory), published + 1)
        /\ Consecutive(Last(r, MaxHistory))
        /\ Last(r, MaxHistory) # << >> => Last(r, MaxHistory)[Len(Last(r, MaxHistory))] = published + 1
    <3> HIDE DEF r
    <3> QED BY <2>1, <2>2, KnownLast DEF r
  <2> QED BY <1>1, <1>2, <2>3 DEF HistoryInv
<1>3. CASE policy = "drop_oldest" /\ history' = history
  BY <1>0, <1>1, <1>3, EmptyKnown DEF HistoryInv
<1> QED BY <1>2, <1>3 DEF Publish

\* A publication keeps every stream's invariant.
LEMMA PublishKeeps ==
  ASSUME IInv, Publish, NEW o \in Streams
  PROVE  StreamInv(o)'
<1>0. /\ TypeOK /\ HistoryInv /\ StreamInv(o)
      /\ published \in Nat /\ history \in Seq(Nat)
      /\ sent[o] \in Seq(Nat) /\ queue[o] \in Seq(Nat)
      /\ Feed(o) \in Seq(Nat) /\ since[o] \in Nat
  BY Naturals DEF IInv
<1>1. /\ published' = published + 1
      /\ policy' = policy /\ phase' = phase /\ sent' = sent /\ since' = since
  BY DEF Publish
<1>3. Known(Feed(o), published + 1)
  BY <1>0, KnownExtend DEF StreamInv
<1>4. CASE o \notin subscribers
  <2>1. Feed(o)' = Feed(o) /\ o \notin subscribers'
    BY <1>1, <1>4 DEF Publish, Feed
  <2> QED BY <1>0, <1>1, <1>3, <2>1 DEF StreamInv
<1>5. CASE o \in subscribers /\ Len(queue[o]) < QueueSize
  <2>1. queue'[o] = Append(queue[o], published + 1)
    BY <1>1, <1>5 DEF Publish, PutNoWait, PutDropOldest
  <2>2. Feed(o)' = Append(Feed(o), published + 1)
    <3>1. published + 1 \in Nat
      BY <1>0
    <3>2. sent[o] \o Append(queue[o], published + 1) = Append(sent[o] \o queue[o], published + 1)
      BY <1>0, <3>1, PutEnds
    <3>3. Feed(o)' = sent[o] \o queue'[o]
      BY <1>1 DEF Feed
    <3> QED BY <2>1, <3>2, <3>3, Zenon DEF Feed
  <2>3. /\ Append(Feed(o), published + 1) # << >>
        /\ Known(Append(Feed(o), published + 1), published + 1)
        /\ Append(Feed(o), published + 1)[Len(Append(Feed(o), published + 1))] = published + 1
        /\ policy = "drop_stream" => Consecutive(Append(Feed(o), published + 1))
    BY <1>0, <1>5, KnownExtend DEF StreamInv
  <2> QED BY <1>0, <1>1, <2>2, <2>3 DEF StreamInv
<1>6. CASE o \in subscribers /\ ~(Len(queue[o]) < QueueSize) /\ policy = "drop_stream"
  <2>1. queue'[o] = queue[o]
    BY <1>6 DEF Publish, PutNoWait
  <2>2. o \notin subscribers'
    <3>1. Full(o)
      <4>1. Len(queue[o]) \in Nat /\ QueueSize \in Nat
        BY <1>0, EventBusAssumption
      <4> QED BY <1>6, <4>1 DEF Full
    <3> QED BY <1>6, <3>1 DEF Publish, Dead
  <2>3. Feed(o)' = Feed(o)
    BY <1>1, <2>1 DEF Feed
  <2> QED BY <1>0, <1>1, <1>3, <2>2, <2>3 DEF StreamInv
<1>7. CASE o \in subscribers /\ ~(Len(queue[o]) < QueueSize) /\ policy = "drop_oldest"
  <2> DEFINE f == sent[o] \o Tail(queue[o])
  <2>1. queue'[o] = Append(Tail(queue[o]), published + 1)
    BY <1>1, <1>7 DEF Publish, PutDropOldest
  <2>2. queue[o] # << >>
    BY <1>7, EventBusAssumption
  <2>3. /\ Tail(queue[o]) \in Seq(Nat)
        /\ Known(f, published)
    BY <1>0, <2>2, DropKeepsOrder DEF StreamInv, Known, Feed
  <2>4. f \in Seq(Nat)
    BY <1>0, <2>3, ConcatProperties
  <2>5. Feed(o)' = Append(f, published + 1)
    <3>1. published + 1 \in Nat
      BY <1>0
    <3>2. sent[o] \o Append(Tail(queue[o]), published + 1) = Append(f, published + 1)
      BY <1>0, <2>3, <3>1, PutEnds
    <3>3. Feed(o)' = sent[o] \o queue'[o]
      BY <1>1 DEF Feed
    <3> QED BY <2>1, <3>2, <3>3, Zenon
  <2> HIDE DEF f
  <2>6. /\ Append(f, published + 1) # << >>
        /\ Known(Append(f, published + 1), published + 1)
        /\ Append(f, published + 1)[Len(Append(f, published + 1))] = published + 1
    BY <1>0, <2>3, <2>4, KnownExtend
  <2> QED BY <1>0, <1>1, <1>7, <2>5, <2>6 DEF StreamInv
<1> QED BY <1>0, <1>4, <1>5, <1>6, <1>7 DEF TypeOK

LEMMA StepInv == IInv /\ [Next]_vars => IInv'
<1> SUFFICES ASSUME IInv, [Next]_vars PROVE IInv'
  OBVIOUS
<1>0. TypeOK /\ HistoryInv /\ (\A o \in Streams : StreamInv(o)) /\ TypeOK'
  BY StepType DEF IInv
<1>1. CASE Publish
  BY <1>0, <1>1, PublishKeeps, HistoryKeeps DEF IInv
<1>2. ASSUME NEW o \in Streams, Subscribe(o) PROVE IInv'
  <2>1. /\ UNCHANGED <<policy, published, history, sent>>
        /\ queue' = [queue EXCEPT ![o] = Last(history, Shown)]
        /\ since' = [since EXCEPT ![o] = published]
        /\ subscribers' = subscribers \cup {o}
        /\ phase' = [phase EXCEPT ![o] = "opened"] /\ phase[o] = "new"
    BY <1>2 DEF Subscribe
  <2>2. HistoryInv'
    BY <1>0, <2>1 DEF HistoryInv
  <2>3. ASSUME NEW o2 \in Streams, o2 # o PROVE StreamInv(o2)'
    <3>1. /\ Feed(o2)' = Feed(o2) /\ since'[o2] = since[o2] /\ phase'[o2] = phase[o2]
          /\ o2 \in subscribers' <=> o2 \in subscribers
          /\ sent'[o2] = sent[o2]
      BY <1>0, <2>1, <2>3 DEF Feed, TypeOK
    <3> QED BY <1>0, <2>1, <3>1 DEF StreamInv
  <2>4. StreamInv(o)'
    <3> DEFINE r == Last(history, Shown)
    <3>0. published \in Nat /\ history \in Seq(Nat) /\ Shown \in Nat /\ Shown > 0
      BY <1>0, Naturals, EventBusAssumption
    <3>1. /\ r \in Seq(Nat) /\ Known(r, published) /\ Consecutive(r)
          /\ r # << >> => r[Len(r)] = published
      BY <1>0, <3>0, KnownLast DEF HistoryInv
    <3> HIDE DEF r
    <3>2. Feed(o)' = r
      <4>1. sent'[o] = << >>
        BY <1>0, <2>1 DEF StreamInv
      <4>2. queue'[o] = r
        BY <1>0, <2>1 DEF TypeOK, r
      <4> QED BY <3>1, <4>1, <4>2, ConcatEmptySeq DEF Feed
    <3>3. since'[o] = published /\ phase'[o] = "opened"
      BY <1>0, <2>1 DEF TypeOK
    <3> QED BY <2>1, <3>0, <3>1, <3>2, <3>3 DEF StreamInv
  <2> QED BY <1>0, <2>2, <2>3, <2>4 DEF IInv
<1>3. ASSUME NEW o \in Streams, Take(o) PROVE IInv'
  <2>1. /\ UNCHANGED <<policy, published, history, subscribers, since>>
        /\ sent' = [sent EXCEPT ![o] = Append(sent[o], Head(queue[o]))]
        /\ queue' = [queue EXCEPT ![o] = Tail(queue[o])]
        /\ phase' = [phase EXCEPT ![o] = "sending"]
        /\ queue[o] # << >>
    BY <1>3 DEF Take
  <2>2. \A o2 \in Streams : Feed(o2)' = Feed(o2)
    <3>1. Append(sent[o], Head(queue[o])) \o Tail(queue[o]) = sent[o] \o queue[o]
      BY <1>0, <2>1, Naturals, TakeKeepsFeed
    <3> QED BY <1>0, <2>1, <3>1 DEF Feed, TypeOK
  <2>3. \A o2 \in Streams : phase'[o2] = "new" => phase[o2] = "new" /\ sent'[o2] = sent[o2]
    BY <1>0, <2>1 DEF TypeOK
  <2> QED BY <1>0, <2>1, <2>2, <2>3 DEF IInv, HistoryInv, StreamInv
<1>4. ASSUME NEW o \in Streams, Begin(o) \/ Written(o) \/ Keepalive(o) \/ Leave(o)
      PROVE  IInv'
  <2>1. /\ UNCHANGED <<policy, published, history, queue, sent, since>>
        /\ subscribers' \subseteq subscribers
        /\ \A o2 \in Streams : phase'[o2] = "new" => phase[o2] = "new"
    BY <1>0, <1>4 DEF Begin, Written, Keepalive, Leave, TypeOK
  <2>2. \A o2 \in Streams : Feed(o2)' = Feed(o2)
    BY <2>1 DEF Feed
  <2> QED BY <1>0, <2>1, <2>2 DEF IInv, HistoryInv, StreamInv
<1>5. CASE UNCHANGED vars
  BY <1>0, <1>5 DEF vars, IInv, HistoryInv, StreamInv, Feed
<1> QED BY <1>1, <1>2, <1>3, <1>4, <1>5 DEF Next, Generator

-----------------------------------------------------------------------------
(* Theorems.                                                               *)

\* The bus's lists, queues and streams keep their types and sizes.
THEOREM TypeCorrect == Spec => []TypeOK
BY InitType, StepType, PTL DEF Spec

\* No stream repeats or reorders events.
THEOREM StreamsInOrder == Spec => []InOrder
<1>1. IInv => InOrder
  BY DEF IInv, StreamInv, Known, Increasing, InOrder
<1> QED BY InitInv, StepInv, <1>1, PTL DEF Spec

\* A stream of server.EventBus has no gaps.
THEOREM StreamsWithoutGaps == Spec => []NoGap
<1>1. IInv => NoGap
  BY DEF IInv, StreamInv, Consecutive, NoGap
<1> QED BY InitInv, StepInv, <1>1, PTL DEF Spec

\* A subscribed stream has been given the latest event.
THEOREM SubscribersUpToDate == Spec => []UpToDate
<1>1. IInv => UpToDate
  BY DEF IInv, StreamInv, UpToDate, TypeOK
<1> QED BY InitInv, StepInv, <1>1, PTL DEF Spec

-----------------------------------------------------------------------------
(* What an agent is told, with parameters and state of its own.            *)

CONSTANTS Things, Cities, Players, Me, Golds, Techs, Priority, Requires, Readers, MaxNet,
          MaxChanges, MaxAnswers, None
VARIABLES world, gold, known, researching, net, state, picks, wire, snap, answer, told,
          missed, changes, answers

Mirror == INSTANCE StateMirror

\* What is needed of the parameters; a connection begins with two packets.
Parameters ==
  /\ IsFiniteSet(Things) /\ Golds \subseteq Int /\ Me \in Players /\ Priority \in Seq(Techs)
  /\ MaxNet \in Nat \ {0}

Levels == [Techs -> 0..2]
Maps == UNION {[D -> [owner : Players, full : BOOLEAN]] : D \in SUBSET Things}
States == [me : {Me, None}, things : Maps, gold : Int, researching : Techs \cup {Mirror!NoTech},
           inventions : Levels \cup {None}]
Packets ==
  [type : {"info", "short"}, id : Things, owner : Players]
    \cup [type : {"remove"}, id : Things]
    \cup [type : {"player"}, gold : Int]
    \cup [type : {"conn"}, player : {Me}]
    \cup [type : {"research"}, researching : Techs \cup {Mirror!NoTech}, inventions : Levels]
Jsons == [cities : SUBSET Things, units : SUBSET Things, enemies : SUBSET Things, gold : Int,
          research : Techs \cup {Mirror!NoTech}]

Requests == [by : {"client", "agent"}, tech : Techs, level : 0..2]

Types ==
  /\ known \subseteq Techs /\ researching \in Techs \cup {Mirror!NoTech}
  /\ net \in Seq(Packets) /\ state \in States
  /\ picks \in Seq(Levels)
  /\ wire \in Seq(Requests)

\* Nobody has been told anything before there is a snapshot, and who has missed
\* no answer knows what is in it; it came with the last answer.
Told ==
  /\ DOMAIN told = Readers /\ missed \subseteq Readers
  /\ \A r \in Readers \ missed : told[r] = None \/ (snap \in Jsons /\ told[r] = Mirror!Learnt(snap))
  /\ answer # None =>
       /\ answer.to \in Readers /\ answer.current = snap
       /\ answer.to \notin missed => told[answer.to] = Mirror!Learnt(snap)

\* The number of a set's members goes up with those that come and down with
\* those that go.
LEMMA CountChanges ==
  ASSUME NEW S, NEW T, IsFiniteSet(S), IsFiniteSet(T)
  PROVE  Mirror!Cardinality(S) + Mirror!Cardinality(T \ S) - Mirror!Cardinality(S \ T) = Mirror!Cardinality(T)
<1> DEFINE s == Mirror!Cardinality(S)
<1> DEFINE t == Mirror!Cardinality(T)
<1> DEFINE both == Mirror!Cardinality(S \cap T)
<1> DEFINE come == Mirror!Cardinality(T \ S)
<1> DEFINE gone == Mirror!Cardinality(S \ T)
<1>0. \A R : Mirror!Cardinality(R) = Cardinality(R)
  BY DEF Mirror!Cardinality, Cardinality
<1>1. gone = s - both
  BY <1>0, FS_Difference
<1>2. come = t - Mirror!Cardinality(T \cap S)
  BY <1>0, FS_Difference
<1>3. T \cap S = S \cap T
  OBVIOUS
<1>4. come = t - both
  BY <1>2, <1>3
<1>5. IsFiniteSet(S \cap T)
  BY FS_Intersection
<1>6. s \in Nat /\ t \in Nat /\ both \in Nat
  BY <1>0, <1>5, FS_CardinalityType
<1> HIDE DEF s, t, both, come, gone
<1>7. s + come - gone = t
  BY <1>1, <1>4, <1>6
<1> QED
  BY <1>7 DEF s, t, come, gone

\* compute_turn_delta: what is known of a state and the changes to another make
\* up what is known of that.
LEMMA FoldDelta ==
  ASSUME IsFiniteSet(Things), NEW prev \in Jsons, NEW curr \in Jsons
  PROVE  Mirror!Fold(Mirror!Learnt(prev), Mirror!Delta(prev, curr)) = Mirror!Learnt(curr)
<1> DEFINE t == Mirror!Learnt(prev)
<1> DEFINE d == Mirror!Delta(prev, curr)
<1>1. /\ t.cities = prev.cities /\ t.units = prev.units /\ t.gold = prev.gold
      /\ t.research = prev.research /\ t.enemies = Mirror!Cardinality(prev.enemies)
  BY DEF Mirror!Learnt, Jsons
<1>2. /\ d.new_cities = curr.cities \ prev.cities /\ d.lost_cities = prev.cities \ curr.cities
      /\ d.new_units = curr.units \ prev.units /\ d.lost_units = prev.units \ curr.units
      /\ d.gold_change = curr.gold - prev.gold
      /\ d.new_enemies_visible = curr.enemies \ prev.enemies
      /\ d.enemies_disappeared = Mirror!Cardinality(prev.enemies \ curr.enemies)
      /\ d.research_changed = IF prev.research = curr.research THEN <<>> ELSE <<curr.research>>
  BY DEF Mirror!Delta
<1> HIDE DEF t, d
<1>3. (t.cities \ d.lost_cities) \cup d.new_cities = curr.cities
  BY <1>1, <1>2 DEF Jsons
<1>4. (t.units \ d.lost_units) \cup d.new_units = curr.units
  BY <1>1, <1>2 DEF Jsons
<1>5. t.enemies + Mirror!Cardinality(d.new_enemies_visible) - d.enemies_disappeared = Mirror!Cardinality(curr.enemies)
  <2>1. IsFiniteSet(prev.enemies) /\ IsFiniteSet(curr.enemies)
    BY FS_Subset DEF Jsons
  <2> QED
    BY <1>1, <1>2, <2>1, CountChanges
<1>6. t.gold + d.gold_change = curr.gold
  BY <1>1, <1>2 DEF Jsons
<1>7. (IF d.research_changed = <<>> THEN t.research ELSE d.research_changed[1]) = curr.research
  BY <1>1, <1>2
<1>8. Mirror!Fold(t, d) = [cities |-> curr.cities, units |-> curr.units,
                    enemies |-> Mirror!Cardinality(curr.enemies), gold |-> curr.gold, research |-> curr.research]
  BY <1>3, <1>4, <1>5, <1>6, <1>7 DEF Mirror!Fold
<1>9. Mirror!Learnt(curr) = [cities |-> curr.cities, units |-> curr.units,
                      enemies |-> Mirror!Cardinality(curr.enemies), gold |-> curr.gold, research |-> curr.research]
  BY DEF Mirror!Learnt, Jsons
<1> QED
  BY <1>8, <1>9 DEF t, d

\* game_state_to_json
LEMMA JsonType ==
  ASSUME state \in States
  PROVE  Mirror!Json(state) \in Jsons
<1>1. DOMAIN state.things \subseteq Things
  BY DEF States, Maps
<1>2. state.gold \in Int /\ state.researching \in Techs \cup {Mirror!NoTech}
  BY DEF States
<1>3. Mirror!Of(state, Cities) \subseteq Things /\ Mirror!Of(state, Things \ Cities) \subseteq Things
  BY <1>1 DEF Mirror!Of
<1>4. {i \in DOMAIN state.things \ Cities : state.things[i].owner # state.me} \subseteq Things
  BY <1>1
<1> DEFINE c == Mirror!Of(state, Cities)
<1> DEFINE u == Mirror!Of(state, Things \ Cities)
<1> DEFINE e == {i \in DOMAIN state.things \ Cities : state.things[i].owner # state.me}
<1> DEFINE g == IF state.me = None THEN 0 ELSE state.gold
<1>5. Mirror!Json(state) = [cities |-> c, units |-> u, enemies |-> e, gold |-> g, research |-> state.researching]
  BY DEF Mirror!Json
<1>6. g \in Int
  BY <1>2
<1> HIDE DEF c, u, e, g
<1>7. c \in SUBSET Things /\ u \in SUBSET Things /\ e \in SUBSET Things
  BY <1>3, <1>4 DEF c, u, e
<1> QED
  BY <1>2, <1>5, <1>6, <1>7 DEF Jsons

-----------------------------------------------------------------------------
(* Types.                                                                  *)

LEMMA InventionsType == Mirror!Inventions \in Levels
BY DEF Mirror!Inventions, Levels, Mirror!Level, Mirror!Unknown, Mirror!PrereqsKnown, Mirror!Known

LEMMA PickType ==
  ASSUME Priority \in Seq(Techs), NEW inventions
  PROVE  Mirror!Pick(inventions) \subseteq Techs
<1>1. \A i \in DOMAIN Priority : Priority[i] \in Techs
  OBVIOUS
<1> QED
  BY <1>1 DEF Mirror!Pick

LEMMA PutType ==
  ASSUME NEW f \in Maps, NEW i \in Things, NEW x \in [owner : Players, full : BOOLEAN]
  PROVE  Mirror!Put(f, i, x) \in Maps
<1>1. PICK D \in SUBSET Things : f \in [D -> [owner : Players, full : BOOLEAN]]
  BY DEF Maps
<1>2. Mirror!Put(f, i, x) \in [D \cup {i} -> [owner : Players, full : BOOLEAN]]
  BY <1>1 DEF Mirror!Put
<1> QED
  BY <1>2 DEF Maps

LEMMA WithoutType ==
  ASSUME NEW f \in Maps, NEW i
  PROVE  Mirror!Without(f, i) \in Maps
<1>1. PICK D \in SUBSET Things : f \in [D -> [owner : Players, full : BOOLEAN]]
  BY DEF Maps
<1>2. Mirror!Without(f, i) \in [D \ {i} -> [owner : Players, full : BOOLEAN]]
  BY <1>1 DEF Mirror!Without
<1> QED
  BY <1>2 DEF Maps

LEMMA NewStateType == Mirror!NewState \in States
<1>1. Mirror!Nothing \in Maps
  <2>1. Mirror!Nothing \in [{} -> [owner : Players, full : BOOLEAN]]
    BY DEF Mirror!Nothing
  <2> QED
    BY <2>1 DEF Maps
<1> QED
  BY <1>1 DEF Mirror!NewState, States, Mirror!NoTech

\* Every packet handler keeps the state a state.
LEMMA HandledType ==
  ASSUME NEW s \in States, NEW p \in Packets
  PROVE  Mirror!Handled(s, p) \in States
<1> DEFINE things == s.things
<1>1. things \in Maps
  BY DEF States
<1>2. CASE p \in [type : {"info", "short"}, id : Things, owner : Players]
  <2>1. p.id \in Things /\ p.owner \in Players /\ p.type \in {"info", "short"}
    BY <1>2
  <2>2. (p.type = "info" \/ Mirror!Full(s, p.id)) \in BOOLEAN
    OBVIOUS
  <2> DEFINE whole == p.type = "info" \/ Mirror!Full(s, p.id)
  <2>3. Mirror!Put(things, p.id, [owner |-> p.owner, full |-> whole]) \in Maps
    BY <1>1, <2>1, <2>2, PutType
  <2>4. Mirror!Handled(s, p) = [s EXCEPT !.things = Mirror!Put(things, p.id, [owner |-> p.owner, full |-> whole])]
    BY <2>1 DEF Mirror!Handled
  <2> QED
    BY <2>3, <2>4 DEF States
<1>3. CASE p \in [type : {"remove"}, id : Things]
  <2>1. Mirror!Without(things, p.id) \in Maps /\ p.type = "remove"
    BY <1>1, <1>3, WithoutType
  <2>2. Mirror!Handled(s, p) = [s EXCEPT !.things = Mirror!Without(things, p.id)]
    BY <2>1 DEF Mirror!Handled
  <2> QED
    BY <2>1, <2>2 DEF States
<1>4. CASE p \in [type : {"player"}, gold : Int]
  <2>1. Mirror!Handled(s, p) = [s EXCEPT !.gold = p.gold] /\ p.gold \in Int
    BY <1>4 DEF Mirror!Handled
  <2> QED
    BY <2>1 DEF States
<1>5. CASE p \in [type : {"conn"}, player : {Me}]
  <2>1. Mirror!Handled(s, p) = [s EXCEPT !.me = p.player] /\ p.player = Me
    BY <1>5 DEF Mirror!Handled
  <2> QED
    BY <2>1 DEF States
<1>6. CASE p \in [type : {"research"}, researching : Techs \cup {Mirror!NoTech}, inventions : Levels]
  <2>1. /\ Mirror!Handled(s, p) = [s EXCEPT !.researching = p.researching, !.inventions = p.inventions]
        /\ p.researching \in Techs \cup {Mirror!NoTech} /\ p.inventions \in Levels
    BY <1>6 DEF Mirror!Handled
  <2> QED
    BY <2>1 DEF States
<1> QED
  BY <1>2, <1>3, <1>4, <1>5, <1>6 DEF Packets

LEMMA TypesInit ==
  ASSUME Parameters, Mirror!Init
  PROVE  Types
<1>1. state \in States
  BY NewStateType DEF Mirror!Init
<1>2. Mirror!Inventions \in Levels
  BY InventionsType
<1>3. researching \in Techs /\ known = {} /\ picks = <<>> /\ wire = <<>>
  BY DEF Mirror!Init
<1>4. [type |-> "conn", player |-> Me] \in Packets
  BY DEF Packets
<1>5. Mirror!Research(researching, Mirror!Inventions) \in Packets
  BY <1>2, <1>3 DEF Mirror!Research, Packets
<1>6. net \in Seq(Packets)
  BY <1>4, <1>5 DEF Mirror!Init
<1> QED
  BY <1>1, <1>3, <1>6 DEF Types

LEMMA TypesStep ==
  ASSUME Parameters, Types, [Mirror!Next]_Mirror!vars
  PROVE  Types'
<1> USE DEF Types
<1>1. Mirror!Inventions \in Levels
  BY InventionsType
<1>2. CASE Mirror!Handle
  <2>1. Head(net) \in Packets /\ Tail(net) \in Seq(Packets)
    BY <1>2 DEF Mirror!Handle
  <2>2. state' \in States
    BY <1>2, <2>1, HandledType DEF Mirror!Handle
  <2>3. Head(net).type = "research" => Head(net).inventions \in Levels
    BY <2>1 DEF Packets
  <2>4. picks' \in Seq(Levels)
    BY <1>2, <2>3 DEF Mirror!Handle
  <2> QED
    BY <1>2, <2>1, <2>2, <2>4 DEF Mirror!Handle, Mirror!server
<1>3. CASE Mirror!AutoPick
  <2>1. Head(picks) \in Levels /\ Tail(picks) \in Seq(Levels)
    BY <1>3 DEF Mirror!AutoPick
  <2>2. Mirror!Pick(Head(picks)) \subseteq Techs
    BY PickType DEF Parameters
  <2>3. \A t \in Techs : Mirror!Request("client", t, Head(picks)[t]) \in Requests
    BY <2>1 DEF Mirror!Request, Requests, Levels
  <2>4. wire' \in Seq(Requests)
    <3>1. CASE Mirror!Pick(Head(picks)) = {}
      BY <1>3, <3>1 DEF Mirror!AutoPick
    <3>2. CASE Mirror!Pick(Head(picks)) # {}
      <4>1. PICK t \in Mirror!Pick(Head(picks)) : wire' = Append(wire, Mirror!Request("client", t, Head(picks)[t]))
        BY <1>3, <3>2 DEF Mirror!AutoPick
      <4> QED
        BY <2>2, <2>3, <4>1
    <3> QED
      BY <3>1, <3>2
  <2> QED
    BY <1>3, <2>1, <2>4 DEF Mirror!AutoPick, Mirror!server
<1>4. ASSUME NEW t \in Techs, Mirror!SetResearchTarget(t)
      PROVE  Types'
  <2>1. state.inventions \in Levels
    BY <1>4 DEF Mirror!SetResearchTarget, States
  <2>2. Mirror!Request("agent", t, state.inventions[t]) \in Requests
    BY <2>1 DEF Mirror!Request, Requests, Levels
  <2> QED
    BY <1>4, <2>2 DEF Mirror!SetResearchTarget, Mirror!server
<1>5. ASSUME NEW r \in Readers, Mirror!Snapshot(r)
      PROVE  Types'
  BY <1>5 DEF Mirror!Snapshot, Mirror!server
<1>6. ASSUME NEW id \in Things, Mirror!Hides(id)
      PROVE  Types'
  <2>1. [type |-> "remove", id |-> id] \in Packets
    BY DEF Packets
  <2> QED
    BY <1>6, <2>1 DEF Mirror!Hides, Mirror!Tells
<1>7. ASSUME NEW id \in Things, NEW owner \in Players, Mirror!Shows(id, owner)
      PROVE  Types'
  <2>1. [type |-> IF owner = Me THEN "info" ELSE "short", id |-> id, owner |-> owner] \in Packets
    BY DEF Packets
  <2> QED
    BY <1>7, <2>1 DEF Mirror!Shows, Mirror!Tells
<1>8. ASSUME NEW g \in Golds, Mirror!Pays(g)
      PROVE  Types'
  <2>1. [type |-> "player", gold |-> g] \in Packets
    BY DEF Packets, Parameters
  <2> QED
    BY <1>8, <2>1 DEF Mirror!Pays, Mirror!Tells
<1>9. CASE Mirror!Learns
  <2>1. known' \subseteq Techs /\ researching' \in Techs \cup {Mirror!NoTech}
    BY <1>9 DEF Mirror!Learns, Mirror!Changes
  <2>2. Mirror!Inventions' \in Levels
    BY DEF Mirror!Inventions, Levels, Mirror!Level, Mirror!Unknown, Mirror!PrereqsKnown, Mirror!Known
  <2>3. Mirror!Research(researching', Mirror!Inventions') \in Packets
    BY <2>1, <2>2 DEF Mirror!Research, Packets
  <2> QED
    BY <1>9, <2>1, <2>3 DEF Mirror!Learns, Mirror!Tells
<1>10. CASE Mirror!Receives
  <2>1. wire # <<>> /\ wire' = Tail(wire)
    BY <1>10 DEF Mirror!Receives
  <2>2. Head(wire) \in Requests /\ wire' \in Seq(Requests)
    BY <2>1
  <2>3. Head(wire).tech \in Techs
    BY <2>2 DEF Requests
  <2>4. Mirror!Research(Head(wire).tech, Mirror!Inventions) \in Packets
    BY <1>1, <2>3 DEF Mirror!Research, Packets
  <2>5. net' \in Seq(Packets) /\ researching' \in Techs \cup {Mirror!NoTech}
    <3>1. CASE Mirror!Level(Head(wire).tech) = Mirror!PrereqsKnown
      <4>1. /\ researching' = Head(wire).tech
            /\ net' = Append(net, Mirror!Research(Head(wire).tech, Mirror!Inventions))
        BY <1>10, <3>1 DEF Mirror!Receives, Mirror!Tells
      <4> QED
        BY <2>3, <2>4, <4>1
    <3>2. CASE Mirror!Level(Head(wire).tech) # Mirror!PrereqsKnown
      BY <1>10, <3>2 DEF Mirror!Receives
    <3> QED
      BY <3>1, <3>2
  <2> QED
    BY <1>10, <2>2, <2>5 DEF Mirror!Receives
<1>11. CASE Mirror!NewGame
  <2>1. [type |-> "conn", player |-> Me] \in Packets
    BY DEF Packets
  <2> QED
    BY <1>11, <2>1, NewStateType DEF Mirror!NewGame
<1>12. CASE UNCHANGED Mirror!vars
  BY <1>12 DEF Mirror!vars
<1> QED
  BY <1>2, <1>3, <1>4, <1>5, <1>6, <1>7, <1>8, <1>9, <1>10, <1>11, <1>12 DEF Mirror!Next

-----------------------------------------------------------------------------
(* What Mirror!readers know.                                                      *)

LEMMA ToldInit ==
  ASSUME Mirror!Init
  PROVE  Told
BY DEF Mirror!Init, Told

\* An answer.
LEMMA ToldSnapshot ==
  ASSUME Parameters, Types, Told, NEW r \in Readers, Mirror!Snapshot(r)
  PROVE  Told'
<1>1. snap' = Mirror!Json(state) /\ snap' \in Jsons
  BY JsonType DEF Mirror!Snapshot, Types
<1>2. /\ DOMAIN told' = Readers
      /\ \A q \in Readers \ {r} : told'[q] = told[q]
      /\ told'[r] = IF told[r] = None THEN Mirror!Learnt(snap') ELSE Mirror!Fold(told[r], Mirror!Delta(snap, snap'))
  BY DEF Mirror!Snapshot, Told
<1>3. /\ missed \subseteq missed' /\ (missed \subseteq Readers => missed' \subseteq Readers)
      /\ \A q \in Readers \ {r} : q \notin missed' => told[q] = None
      /\ r \notin missed' => r \notin missed
  BY DEF Mirror!Snapshot
<1>4. r \notin missed' => told'[r] = Mirror!Learnt(snap')
  <2> SUFFICES ASSUME r \notin missed', told[r] # None
               PROVE  told'[r] = Mirror!Learnt(snap')
    BY <1>2
  <2>1. snap \in Jsons /\ told[r] = Mirror!Learnt(snap)
    BY <1>3 DEF Told
  <2>2. Mirror!Fold(Mirror!Learnt(snap), Mirror!Delta(snap, snap')) = Mirror!Learnt(snap')
    BY <1>1, <2>1, FoldDelta DEF Parameters
  <2> QED
    BY <1>2, <2>1, <2>2
<1>5. \A q \in Readers \ missed' : told'[q] = None \/ (snap' \in Jsons /\ told'[q] = Mirror!Learnt(snap'))
  BY <1>1, <1>2, <1>3, <1>4
<1>6. answer'.to = r /\ answer'.current = snap'
  BY <1>1 DEF Mirror!Snapshot
<1> QED
  BY <1>2, <1>3, <1>4, <1>5, <1>6 DEF Told

LEMMA ToldStep ==
  ASSUME Parameters, Types, Told, [Mirror!Next]_Mirror!vars
  PROVE  Told'
<1>1. CASE \E r \in Readers : Mirror!Snapshot(r)
  BY <1>1, ToldSnapshot
<1>2. CASE UNCHANGED Mirror!readers
  BY <1>2 DEF Mirror!readers, Told
<1>3. (\E r \in Readers : Mirror!Snapshot(r)) \/ UNCHANGED Mirror!readers
  BY DEF Mirror!Next, Mirror!vars, Mirror!readers, Mirror!Handle, Mirror!AutoPick, Mirror!SetResearchTarget, Mirror!Hides, Mirror!Shows, Mirror!Pays, Mirror!Learns,
         Mirror!Receives, Mirror!NewGame
<1> QED
  BY <1>1, <1>2, <1>3

-----------------------------------------------------------------------------
(* The mirror and the packets on their way.                                *)

\* The places of a sequence with members of a set.
Where(q, S) == {k \in DOMAIN q : q[k] \in S}

About(id) == {p \in Packets : p.type \in {"info", "short", "remove"} /\ p.id = id}
Typed(type) == {p \in Packets : p.type = type}

ThingTold(id) ==
  /\ Where(net, About(id)) = {} =>
       /\ id \in DOMAIN state.things <=> id \in DOMAIN world
       /\ id \in DOMAIN world => state.things[id].owner = world[id]
  /\ \A k \in Mirror!Latest(Where(net, About(id))) :
       /\ net[k].type = "remove" <=> id \notin DOMAIN world
       /\ id \in DOMAIN world => net[k].owner = world[id]

GoldTold ==
  /\ Where(net, Typed("player")) = {} => state.gold = gold
  /\ \A k \in Mirror!Latest(Where(net, Typed("player"))) : net[k].gold = gold

ResearchTold ==
  /\ Where(net, Typed("research")) = {} => state.researching = researching
  /\ \A k \in Mirror!Latest(Where(net, Typed("research"))) : net[k].researching = researching

\* A packet that tells little of a thing tells of another's.
OwnFull ==
  /\ \A id \in DOMAIN state.things : state.things[id].owner = Me => state.things[id].full
  /\ \A k \in DOMAIN net : net[k].type = "short" => net[k].owner # Me

Follows ==
  /\ (\A id \in Things : ThingTold(id)) /\ GoldTold /\ ResearchTold /\ OwnFull
  /\ DOMAIN world \subseteq Things
  /\ Len(net) <= MaxNet + 1

LEMMA WhereAppend ==
  ASSUME NEW P, NEW q \in Seq(P), NEW p \in P, NEW S
  PROVE  /\ p \in S => /\ Where(Append(q, p), S) # {}
                       /\ Mirror!Latest(Where(Append(q, p), S)) = {Len(q) + 1}
         /\ p \notin S => Where(Append(q, p), S) = Where(q, S)
         /\ \A k \in DOMAIN q : Append(q, p)[k] = q[k]
         /\ Append(q, p)[Len(q) + 1] = p
<1> DEFINE a == Append(q, p)
<1>1. /\ Len(q) \in Nat /\ DOMAIN q = 1..Len(q) /\ DOMAIN a = 1..(Len(q) + 1)
      /\ a[Len(q) + 1] = p /\ \A k \in 1..Len(q) : a[k] = q[k]
  OBVIOUS
<1> HIDE DEF a
<1>2. ASSUME p \in S PROVE Len(q) + 1 \in Where(a, S) /\ Mirror!Latest(Where(a, S)) = {Len(q) + 1}
  BY <1>1, <1>2 DEF Where, Mirror!Latest
<1>3. ASSUME p \notin S PROVE Where(a, S) = Where(q, S)
  BY <1>1, <1>3 DEF Where
<1> QED
  BY <1>1, <1>2, <1>3 DEF a

LEMMA WhereTail ==
  ASSUME NEW P, NEW q \in Seq(P), q # <<>>, NEW t, t = Tail(q), NEW S
  PROVE  /\ Where(t, S) = {} =>
              \/ Where(q, S) = {} /\ Head(q) \notin S
              \/ Mirror!Latest(Where(q, S)) = {1} /\ Head(q) \in S
         /\ \A k \in Mirror!Latest(Where(t, S)) : k + 1 \in Mirror!Latest(Where(q, S)) /\ t[k] = q[k + 1]
<1>1. /\ Len(q) \in Nat /\ Len(q) >= 1 /\ DOMAIN q = 1..Len(q) /\ DOMAIN t = 1..(Len(q) - 1)
      /\ Head(q) = q[1] /\ \A k \in 1..(Len(q) - 1) : t[k] = q[k + 1]
  OBVIOUS
<1>2. \A k \in 1..Len(q) : k = 1 \/ (k - 1 \in 1..(Len(q) - 1) /\ (k - 1) + 1 = k)
  BY <1>1
<1>3. ASSUME Where(t, S) = {}
      PROVE  Where(q, S) \subseteq {1}
  BY <1>1, <1>2, <1>3 DEF Where
<1>4. ASSUME Where(t, S) = {}
      PROVE  \/ Where(q, S) = {} /\ Head(q) \notin S
             \/ Mirror!Latest(Where(q, S)) = {1} /\ Head(q) \in S
  <2>1. CASE Head(q) \in S
    <3>1. 1 \in Where(q, S)
      BY <1>1, <2>1 DEF Where
    <3>2. Where(q, S) = {1}
      BY <1>3, <1>4, <3>1
    <3> QED
      BY <2>1, <3>2 DEF Mirror!Latest
  <2>2. CASE Head(q) \notin S
    <3>1. 1 \notin Where(q, S)
      BY <1>1, <2>2 DEF Where
    <3> QED
      BY <1>3, <1>4, <2>2, <3>1
  <2> QED
    BY <2>1, <2>2
<1>5. ASSUME NEW k \in Mirror!Latest(Where(t, S))
      PROVE  k + 1 \in Mirror!Latest(Where(q, S)) /\ t[k] = q[k + 1]
  <2>1. k \in 1..(Len(q) - 1) /\ t[k] \in S /\ \A j \in Where(t, S) : j <= k
    BY <1>1 DEF Mirror!Latest, Where
  <2>2. t[k] = q[k + 1] /\ k + 1 \in DOMAIN q
    BY <1>1, <2>1
  <2>3. k + 1 \in Where(q, S)
    BY <2>1, <2>2 DEF Where
  <2>4. ASSUME NEW j \in Where(q, S) PROVE j <= k + 1
    <3>1. j \in 1..Len(q) /\ q[j] \in S
      BY <1>1 DEF Where
    <3>2. CASE j = 1
      BY <2>1, <3>2
    <3>3. CASE j # 1
      <4>1. j - 1 \in 1..(Len(q) - 1) /\ (j - 1) + 1 = j
        BY <1>2, <3>1, <3>3
      <4>2. j - 1 \in Where(t, S)
        BY <1>1, <3>1, <4>1 DEF Where
      <4>3. j - 1 <= k
        BY <2>1, <4>2
      <4> QED
        BY <2>1, <3>1, <4>3
    <3> QED
      BY <3>2, <3>3
  <2> QED
    BY <2>2, <2>3, <2>4 DEF Mirror!Latest
<1> QED
  BY <1>4, <1>5

\* The places of the module are these.
LEMMA WhereIsPlace ==
  ASSUME net \in Seq(Packets), NEW x
  PROVE  Mirror!AboutThing(x) = Where(net, About(x)) /\ Mirror!OfType(x) = Where(net, Typed(x))
<1>1. \A k \in DOMAIN net : net[k] \in Packets
  OBVIOUS
<1> QED
  BY <1>1 DEF Mirror!AboutThing, Mirror!OfType, Where, About, Typed

\* What the handlers do to a thing, to gold and to research.
LEMMA HandledThings ==
  ASSUME NEW s \in States, NEW p \in Packets, NEW id \in Things
  PROVE  /\ p \notin About(id) =>
              /\ id \in DOMAIN Mirror!Handled(s, p).things <=> id \in DOMAIN s.things
              /\ id \in DOMAIN s.things => Mirror!Handled(s, p).things[id] = s.things[id]
         /\ p \in About(id) =>
              /\ p.type = "remove" <=> id \notin DOMAIN Mirror!Handled(s, p).things
              /\ p.type # "remove" => Mirror!Handled(s, p).things[id].owner = p.owner
              /\ p.type = "info" => Mirror!Handled(s, p).things[id].full
<1> DEFINE things == s.things
<1> DEFINE after == Mirror!Handled(s, p).things
<1>1. CASE p \in [type : {"info", "short"}, id : Things, owner : Players]
  <2> DEFINE whole == p.type = "info" \/ Mirror!Full(s, p.id)
  <2> DEFINE x == [owner |-> p.owner, full |-> whole]
  <2>1. p.type \in {"info", "short"}
    BY <1>1
  <2>2. after = Mirror!Put(things, p.id, x)
    BY <2>1 DEF Mirror!Handled, States
  <2>3. DOMAIN after = DOMAIN things \cup {p.id} /\ after[p.id] = x
        /\ \A j \in DOMAIN things \ {p.id} : after[j] = things[j]
    BY <2>2 DEF Mirror!Put
  <2>4. x.owner = p.owner /\ (p.type = "info" => x.full)
    OBVIOUS
  <2>5. p \in About(id) <=> p.id = id
    BY <2>1 DEF About
  <2> HIDE DEF after, x
  <2>6. (p \notin About(id)) => (id \in DOMAIN after <=> id \in DOMAIN things)
                                /\ (id \in DOMAIN things => after[id] = things[id])
    BY <2>3, <2>5
  <2>7. p \in About(id) => p.type # "remove" /\ id \in DOMAIN after /\ after[id].owner = p.owner
                           /\ (p.type = "info" => after[id].full)
    BY <2>1, <2>3, <2>4, <2>5
  <2> QED
    BY <2>6, <2>7 DEF after
<1>2. CASE p \in [type : {"remove"}, id : Things]
  <2>1. p.type = "remove"
    BY <1>2
  <2>2. after = Mirror!Without(things, p.id)
    BY <2>1 DEF Mirror!Handled, States
  <2>3. DOMAIN after = DOMAIN things \ {p.id} /\ \A j \in DOMAIN things \ {p.id} : after[j] = things[j]
    BY <2>2 DEF Mirror!Without
  <2>4. p \in About(id) <=> p.id = id
    BY <2>1 DEF About
  <2> HIDE DEF after
  <2>5. (p \notin About(id)) => (id \in DOMAIN after <=> id \in DOMAIN things)
                                /\ (id \in DOMAIN things => after[id] = things[id])
    BY <2>3, <2>4
  <2>6. p \in About(id) => id \notin DOMAIN after
    BY <2>3, <2>4
  <2> QED
    BY <2>1, <2>5, <2>6 DEF after
<1>3. CASE p.type \in {"player", "conn", "research"}
  <2>1. after = things
    BY <1>3 DEF Mirror!Handled, States
  <2>2. p \notin About(id)
    BY <1>3 DEF About
  <2> QED
    BY <2>1, <2>2
<1> QED
  BY <1>1, <1>2, <1>3 DEF Packets

LEMMA HandledSums ==
  ASSUME NEW s \in States, NEW p \in Packets
  PROVE  /\ Mirror!Handled(s, p).gold = IF p.type = "player" THEN p.gold ELSE s.gold
         /\ Mirror!Handled(s, p).researching = IF p.type = "research" THEN p.researching ELSE s.researching
         /\ p.type \notin {"info", "short"} =>
              \A id \in DOMAIN Mirror!Handled(s, p).things :
                id \in DOMAIN s.things /\ Mirror!Handled(s, p).things[id] = s.things[id]
<1>1. CASE p.type \in {"info", "short"}
  BY <1>1 DEF Mirror!Handled, States
<1>2. CASE p.type = "remove"
  BY <1>2 DEF Mirror!Handled, States, Mirror!Without
<1>3. CASE p.type \in {"player", "conn"}
  BY <1>3 DEF Mirror!Handled, States
<1>4. CASE p.type = "research"
  BY <1>4 DEF Mirror!Handled, States, Packets
<1> QED
  BY <1>1, <1>2, <1>3, <1>4 DEF Packets

\* A packet about another thing, or about this one, is sent.
LEMMA ThingAside ==
  ASSUME net \in Seq(Packets), NEW id, NEW p \in Packets, p \notin About(id), ThingTold(id),
         net' = Append(net, p), state' = state,
         id \in DOMAIN world' <=> id \in DOMAIN world,
         id \in DOMAIN world => world'[id] = world[id]
  PROVE  ThingTold(id)'
<1>1. /\ Where(net', About(id)) = Where(net, About(id))
      /\ \A k \in DOMAIN net : net'[k] = net[k]
  BY WhereAppend
<1>2. \A k \in Mirror!Latest(Where(net, About(id))) : net'[k] = net[k]
  BY <1>1 DEF Mirror!Latest, Where
<1> QED
  BY <1>1, <1>2 DEF ThingTold

LEMMA ThingTells ==
  ASSUME net \in Seq(Packets), NEW id, NEW p \in About(id), net' = Append(net, p),
         p.type = "remove" <=> id \notin DOMAIN world',
         id \in DOMAIN world' => p.owner = world'[id]
  PROVE  ThingTold(id)'
<1>1. p \in Packets
  BY DEF About
<1>2. /\ Where(net', About(id)) # {} /\ Mirror!Latest(Where(net', About(id))) = {Len(net) + 1}
      /\ net'[Len(net) + 1] = p
  BY <1>1, WhereAppend
<1> QED
  BY <1>2 DEF ThingTold

\* The same of the packets on their way.
LEMMA TailPlaces ==
  ASSUME net \in Seq(Packets), net # <<>>, net' = Tail(net), NEW p \in Packets, p = Head(net), NEW S
  PROVE  /\ Where(net', S) = {} =>
              \/ Where(net, S) = {} /\ p \notin S
              \/ Mirror!Latest(Where(net, S)) = {1} /\ p \in S
         /\ \A k \in Mirror!Latest(Where(net', S)) :
              k + 1 \in Mirror!Latest(Where(net, S)) /\ net'[k] = net[k + 1]
<1>1. PICK q \in Seq(Packets) : q = net
  OBVIOUS
<1>2. PICK t : t = net'
  OBVIOUS
<1>3. q # <<>> /\ t = Tail(q) /\ p = Head(q)
  BY <1>1, <1>2
<1>4. /\ Where(t, S) = {} =>
           \/ Where(q, S) = {} /\ p \notin S
           \/ Mirror!Latest(Where(q, S)) = {1} /\ p \in S
      /\ \A k \in Mirror!Latest(Where(t, S)) : k + 1 \in Mirror!Latest(Where(q, S)) /\ t[k] = q[k + 1]
  <2>1. /\ Where(t, S) = {} =>
             \/ Where(q, S) = {} /\ Head(q) \notin S
             \/ Mirror!Latest(Where(q, S)) = {1} /\ Head(q) \in S
        /\ \A k \in Mirror!Latest(Where(t, S)) : k + 1 \in Mirror!Latest(Where(q, S)) /\ t[k] = q[k + 1]
    BY <1>3, WhereTail, Zenon
  <2> QED
    BY <1>3, <2>1, Zenon
<1> QED
  BY <1>1, <1>2, <1>4

LEMMA ThingHandled ==
  ASSUME Types, NEW id \in Things, ThingTold(id), Mirror!Handle
  PROVE  ThingTold(id)'
<1>1. /\ net # <<>> /\ net' = Tail(net) /\ state' = Mirror!Handled(state, Head(net)) /\ world' = world
      /\ net \in Seq(Packets) /\ state \in States
  BY DEF Mirror!Handle, Mirror!server, Types
<1>2. PICK p \in Packets : p = Head(net) /\ p = net[1]
  BY <1>1
<1>3. /\ p \notin About(id) =>
           /\ id \in DOMAIN state'.things <=> id \in DOMAIN state.things
           /\ id \in DOMAIN state.things => state'.things[id] = state.things[id]
      /\ p \in About(id) =>
           /\ p.type = "remove" <=> id \notin DOMAIN state'.things
           /\ p.type # "remove" => state'.things[id].owner = p.owner
  BY <1>1, <1>2, HandledThings
<1>4. /\ Where(net', About(id)) = {} =>
           \/ Where(net, About(id)) = {} /\ p \notin About(id)
           \/ Mirror!Latest(Where(net, About(id))) = {1} /\ p \in About(id)
      /\ \A k \in Mirror!Latest(Where(net', About(id))) :
           k + 1 \in Mirror!Latest(Where(net, About(id))) /\ net'[k] = net[k + 1]
  BY <1>1, <1>2, TailPlaces
<1>5. ASSUME Where(net', About(id)) = {}
      PROVE  /\ id \in DOMAIN state'.things <=> id \in DOMAIN world'
             /\ id \in DOMAIN world' => state'.things[id].owner = world'[id]
  <2>1. CASE Where(net, About(id)) = {} /\ p \notin About(id)
    BY <1>1, <1>3, <2>1 DEF ThingTold
  <2>2. CASE Mirror!Latest(Where(net, About(id))) = {1} /\ p \in About(id)
    <3>1. /\ p.type = "remove" <=> id \notin DOMAIN world
          /\ id \in DOMAIN world => p.owner = world[id]
      BY <1>2, <2>2 DEF ThingTold
    <3> QED
      BY <1>1, <1>3, <2>2, <3>1
  <2> QED
    BY <1>4, <1>5, <2>1, <2>2
<1>6. ASSUME NEW k \in Mirror!Latest(Where(net', About(id)))
      PROVE  /\ net'[k].type = "remove" <=> id \notin DOMAIN world'
             /\ id \in DOMAIN world' => net'[k].owner = world'[id]
  BY <1>1, <1>4, <1>6 DEF ThingTold
<1> QED
  BY <1>5, <1>6 DEF ThingTold

LEMMA SumsHandled ==
  ASSUME Types, GoldTold, ResearchTold, Mirror!Handle
  PROVE  GoldTold' /\ ResearchTold'
<1>1. /\ net # <<>> /\ net' = Tail(net) /\ state' = Mirror!Handled(state, Head(net))
      /\ gold' = gold /\ researching' = researching
      /\ net \in Seq(Packets) /\ state \in States
  BY DEF Mirror!Handle, Mirror!server, Types
<1>2. PICK p \in Packets : p = Head(net) /\ p = net[1]
  BY <1>1
<1>3. /\ state'.gold = IF p.type = "player" THEN p.gold ELSE state.gold
      /\ state'.researching = IF p.type = "research" THEN p.researching ELSE state.researching
  BY <1>1, <1>2, HandledSums
<1>4. /\ p \in Typed("player") <=> p.type = "player"
      /\ p \in Typed("research") <=> p.type = "research"
  BY DEF Typed
<1>5. GoldTold'
  <2>1. /\ Where(net', Typed("player")) = {} =>
             \/ Where(net, Typed("player")) = {} /\ p \notin Typed("player")
             \/ Mirror!Latest(Where(net, Typed("player"))) = {1} /\ p \in Typed("player")
        /\ \A k \in Mirror!Latest(Where(net', Typed("player"))) :
             k + 1 \in Mirror!Latest(Where(net, Typed("player"))) /\ net'[k] = net[k + 1]
    BY <1>1, <1>2, TailPlaces
  <2> QED
    BY <1>1, <1>2, <1>3, <1>4, <2>1 DEF GoldTold
<1>6. ResearchTold'
  <2>1. /\ Where(net', Typed("research")) = {} =>
             \/ Where(net, Typed("research")) = {} /\ p \notin Typed("research")
             \/ Mirror!Latest(Where(net, Typed("research"))) = {1} /\ p \in Typed("research")
        /\ \A k \in Mirror!Latest(Where(net', Typed("research"))) :
             k + 1 \in Mirror!Latest(Where(net, Typed("research"))) /\ net'[k] = net[k + 1]
    BY <1>1, <1>2, TailPlaces
  <2> QED
    BY <1>1, <1>2, <1>3, <1>4, <2>1 DEF ResearchTold
<1> QED
  BY <1>5, <1>6

LEMMA OwnHandled ==
  ASSUME Types, OwnFull, Mirror!Handle
  PROVE  OwnFull'
<1>1. /\ net # <<>> /\ net' = Tail(net) /\ state' = Mirror!Handled(state, Head(net))
      /\ net \in Seq(Packets) /\ state \in States
  BY DEF Mirror!Handle, Types
<1>2. PICK p \in Packets : p = Head(net) /\ p = net[1]
  BY <1>1
<1>3. p.type = "short" => p.owner # Me
  BY <1>1, <1>2 DEF OwnFull
<1>4. state' \in States
  BY <1>1, <1>2, HandledType
<1>5. ASSUME NEW id \in DOMAIN state'.things, state'.things[id].owner = Me
      PROVE  state'.things[id].full
  <2>1. id \in Things
    BY <1>4 DEF States, Maps
  <2>2. CASE p \in About(id)
    <3>1. p.type # "remove" /\ p.owner = Me /\ (p.type = "info" => state'.things[id].full)
      BY <1>1, <1>2, <1>5, <2>1, <2>2, HandledThings
    <3> QED
      BY <1>3, <2>2, <3>1 DEF About
  <2>3. CASE p \notin About(id)
    <3>1. id \in DOMAIN state.things /\ state'.things[id] = state.things[id]
      BY <1>1, <1>2, <2>1, <2>3, HandledThings
    <3> QED
      BY <1>5, <3>1 DEF OwnFull
  <2> QED
    BY <2>2, <2>3
<1>6. ASSUME NEW k \in DOMAIN net', net'[k].type = "short" PROVE net'[k].owner # Me
  <2>1. net'[k] = net[k + 1] /\ k + 1 \in DOMAIN net
    BY <1>1
  <2> QED
    BY <1>6, <2>1 DEF OwnFull
<1> QED
  BY <1>5, <1>6 DEF OwnFull

LEMMA FollowsHandle ==
  ASSUME Parameters, Types, Follows, Mirror!Handle
  PROVE  Follows'
<1>1. ASSUME NEW id \in Things PROVE ThingTold(id)'
  BY <1>1, ThingHandled DEF Follows
<1>2. GoldTold' /\ ResearchTold'
  BY SumsHandled DEF Follows
<1>3. OwnFull'
  BY OwnHandled DEF Follows
<1>4. net \in Seq(Packets) /\ net # <<>> /\ net' = Tail(net) /\ world' = world
  BY DEF Types, Mirror!Handle, Mirror!server
<1>5. Len(net') <= MaxNet + 1
  <2>1. Len(net) \in Nat /\ Len(net') = Len(net) - 1
    BY <1>4
  <2> QED
    BY <2>1 DEF Follows, Parameters
<1> QED
  BY <1>1, <1>2, <1>3, <1>4, <1>5 DEF Follows

\* The Mirror!server sends a packet that says what it shows now.
LEMMA FollowsSent ==
  ASSUME Parameters, Types, Follows, Len(net) < MaxNet, state' = state,
         NEW p \in Packets, net' = Append(net, p),
         DOMAIN world' \subseteq Things,
         \A id \in Things :
           IF p \in About(id)
           THEN /\ p.type = "remove" <=> id \notin DOMAIN world'
                /\ id \in DOMAIN world' => p.owner = world'[id]
           ELSE /\ id \in DOMAIN world' <=> id \in DOMAIN world
                /\ id \in DOMAIN world => world'[id] = world[id],
         IF p.type = "player" THEN p.gold = gold' ELSE gold' = gold,
         IF p.type = "research" THEN p.researching = researching' ELSE researching' = researching,
         p.type = "short" => p.owner # Me
  PROVE  Follows'
<1>1. net \in Seq(Packets) /\ Len(net) \in Nat
  BY DEF Types
<1>2. ASSUME NEW id \in Things PROVE ThingTold(id)'
  <2>1. CASE p \in About(id)
    BY <1>1, <2>1, ThingTells
  <2>2. CASE p \notin About(id)
    <3>1. /\ id \in DOMAIN world' <=> id \in DOMAIN world
          /\ id \in DOMAIN world => world'[id] = world[id]
      BY <2>2
    <3>2. ThingTold(id)
      BY DEF Follows
    <3> QED
      BY <1>1, <2>2, <3>1, <3>2, ThingAside
  <2> QED
    BY <2>1, <2>2
<1>3. ASSUME NEW type
      PROVE  /\ p.type = type => /\ Where(net', Typed(type)) # {}
                                 /\ Mirror!Latest(Where(net', Typed(type))) = {Len(net) + 1}
             /\ p.type # type => Where(net', Typed(type)) = Where(net, Typed(type))
  <2>1. p \in Typed(type) <=> p.type = type
    BY DEF Typed
  <2> QED
    BY <1>1, <2>1, WhereAppend
<1>4. net'[Len(net) + 1] = p /\ \A k \in DOMAIN net : net'[k] = net[k]
  BY <1>1
<1>5. \A S : Mirror!Latest(Where(net, S)) \subseteq DOMAIN net
  BY DEF Mirror!Latest, Where
<1>6. GoldTold'
  <2>1. /\ p.type = "player" => /\ Where(net', Typed("player")) # {}
                                /\ Mirror!Latest(Where(net', Typed("player"))) = {Len(net) + 1}
        /\ p.type # "player" => Where(net', Typed("player")) = Where(net, Typed("player"))
    BY <1>3
  <2> QED
    BY <1>4, <1>5, <2>1 DEF GoldTold, Follows
<1>7. ResearchTold'
  <2>1. /\ p.type = "research" => /\ Where(net', Typed("research")) # {}
                                  /\ Mirror!Latest(Where(net', Typed("research"))) = {Len(net) + 1}
        /\ p.type # "research" => Where(net', Typed("research")) = Where(net, Typed("research"))
    BY <1>3
  <2> QED
    BY <1>4, <1>5, <2>1 DEF ResearchTold, Follows
<1>8. OwnFull'
  <2>1. DOMAIN net' = DOMAIN net \cup {Len(net) + 1}
    BY <1>1
  <2> QED
    BY <1>4, <2>1 DEF OwnFull, Follows
<1>9. Len(net') <= MaxNet + 1
  <2>1. Len(net') = Len(net) + 1
    BY <1>1
  <2> QED
    BY <1>1, <2>1 DEF Parameters
<1> QED
  BY <1>2, <1>6, <1>7, <1>8, <1>9 DEF Follows

LEMMA FollowsInit ==
  ASSUME Parameters, Mirror!Init
  PROVE  Follows
<1>1. net = <<[type |-> "conn", player |-> Me], Mirror!Research(researching, Mirror!Inventions)>>
  BY DEF Mirror!Init
<1>2. /\ DOMAIN net = {1, 2} /\ net[1].type = "conn" /\ net[2].type = "research"
      /\ net[2].researching = researching /\ Len(net) = 2
  BY <1>1 DEF Mirror!Research
<1>3. /\ DOMAIN world = {} /\ DOMAIN state.things = {} /\ state.gold = gold
      /\ researching \in Techs
  BY DEF Mirror!Init, Mirror!NewState, Mirror!Nothing
<1>4. \A id \in Things : Where(net, About(id)) = {}
  BY <1>2 DEF Where, About
<1>5. \A id \in Things : ThingTold(id)
  BY <1>3, <1>4 DEF ThingTold, Mirror!Latest
<1>6. Where(net, Typed("player")) = {}
  BY <1>2 DEF Where, Typed
<1>7. GoldTold
  BY <1>3, <1>6 DEF GoldTold, Mirror!Latest
<1>8. ResearchTold
  <2>1. net[2] \in Packets
    <3>1. net \in Seq(Packets)
      BY TypesInit DEF Types
    <3>2. \A k \in DOMAIN net : net[k] \in Packets
      BY <3>1
    <3> QED
      BY <1>2, <3>2
  <2>2. Where(net, Typed("research")) = {2}
    BY <1>2, <2>1 DEF Where, Typed
  <2> QED
    BY <1>2, <2>2 DEF ResearchTold, Mirror!Latest
<1>9. OwnFull
  BY <1>2, <1>3 DEF OwnFull
<1> QED
  BY <1>2, <1>3, <1>5, <1>7, <1>8, <1>9 DEF Follows, Parameters

LEMMA FollowsNewGame ==
  ASSUME Parameters, Mirror!NewGame
  PROVE  Follows'
<1>1. net' = <<[type |-> "conn", player |-> Me]>>
  BY DEF Mirror!NewGame
<1>2. DOMAIN net' = {1} /\ net'[1].type = "conn" /\ Len(net') = 1
  BY <1>1
<1>3. /\ DOMAIN world' = {} /\ DOMAIN state'.things = {} /\ state'.gold = gold'
      /\ state'.researching = researching'
  BY DEF Mirror!NewGame, Mirror!NewState, Mirror!Nothing
<1>4. /\ \A id \in Things : Where(net', About(id)) = {}
      /\ Where(net', Typed("player")) = {} /\ Where(net', Typed("research")) = {}
  BY <1>2 DEF Where, About, Typed
<1>5. (\A id \in Things : ThingTold(id)') /\ GoldTold' /\ ResearchTold'
  BY <1>3, <1>4 DEF ThingTold, GoldTold, ResearchTold, Mirror!Latest
<1>6. OwnFull'
  BY <1>2, <1>3 DEF OwnFull
<1> QED
  BY <1>2, <1>3, <1>5, <1>6 DEF Follows, Parameters

LEMMA FollowsStep ==
  ASSUME Parameters, Types, Follows, [Mirror!Next]_Mirror!vars
  PROVE  Follows'
<1>1. CASE Mirror!Handle
  BY <1>1, FollowsHandle
<1>2. CASE UNCHANGED <<world, gold, researching, net, state>>
  BY <1>2 DEF Follows, ThingTold, GoldTold, ResearchTold, OwnFull
<1>3. ASSUME NEW id \in Things, Mirror!Hides(id)
      PROVE  Follows'
  <2>1. PICK p \in Packets : p = [type |-> "remove", id |-> id]
    BY DEF Packets
  <2>2. p.type = "remove" /\ p.id = id
    BY <2>1
  <2>3. /\ Len(net) < MaxNet /\ state' = state /\ gold' = gold /\ researching' = researching
        /\ net' = Append(net, p)
    BY <1>3, <2>1 DEF Mirror!Hides, Mirror!Changes, Mirror!Tells
  <2>4. DOMAIN world' = DOMAIN world \ {id} /\ \A j \in DOMAIN world' : world'[j] = world[j]
    BY <1>3 DEF Mirror!Hides, Mirror!Without
  <2>5. \A j \in Things : p \in About(j) <=> j = id
    BY <2>2 DEF About
  <2>6. DOMAIN world' \subseteq Things
    BY <2>4 DEF Follows
  <2> QED
    BY <2>2, <2>3, <2>4, <2>5, <2>6, FollowsSent
<1>4. ASSUME NEW id \in Things, NEW owner \in Players, Mirror!Shows(id, owner)
      PROVE  Follows'
  <2>1. PICK p \in Packets : p = [type |-> IF owner = Me THEN "info" ELSE "short", id |-> id, owner |-> owner]
    <3>1. [type |-> IF owner = Me THEN "info" ELSE "short", id |-> id, owner |-> owner] \in Packets
      BY DEF Packets
    <3> QED
      BY <3>1
  <2>2. /\ p.type \in {"info", "short"} /\ p.id = id /\ p.owner = owner
        /\ (p.type = "short" => p.owner # Me)
    BY <2>1
  <2>3. /\ Len(net) < MaxNet /\ state' = state /\ gold' = gold /\ researching' = researching
        /\ net' = Append(net, p)
    BY <1>4, <2>1 DEF Mirror!Shows, Mirror!Changes, Mirror!Tells
  <2>4. /\ DOMAIN world' = DOMAIN world \cup {id} /\ world'[id] = owner
        /\ \A j \in DOMAIN world \ {id} : world'[j] = world[j]
    BY <1>4 DEF Mirror!Shows, Mirror!Put
  <2>5. \A j \in Things : p \in About(j) <=> j = id
    BY <2>2 DEF About
  <2>6. DOMAIN world' \subseteq Things
    BY <2>4 DEF Follows
  <2> QED
    BY <2>2, <2>3, <2>4, <2>5, <2>6, FollowsSent
<1>5. ASSUME NEW g \in Golds, Mirror!Pays(g)
      PROVE  Follows'
  <2>1. PICK p \in Packets : p = [type |-> "player", gold |-> g]
    BY DEF Packets, Parameters
  <2>2. p.type = "player" /\ p.gold = g
    BY <2>1
  <2>3. /\ Len(net) < MaxNet /\ state' = state /\ world' = world /\ gold' = g
        /\ researching' = researching /\ net' = Append(net, p)
    BY <1>5, <2>1 DEF Mirror!Pays, Mirror!Changes, Mirror!Tells
  <2>4. (\A j : p \notin About(j)) /\ DOMAIN world' \subseteq Things
    BY <2>2, <2>3 DEF About, Follows
  <2> QED
    BY <2>2, <2>3, <2>4, FollowsSent
<1>6. CASE Mirror!Learns
  <2>1. known' \subseteq Techs /\ researching' \in Techs \cup {Mirror!NoTech}
    BY <1>6 DEF Mirror!Learns, Mirror!Changes, Types
  <2>2. Mirror!Inventions' \in Levels
    BY DEF Mirror!Inventions, Levels, Mirror!Level, Mirror!Unknown, Mirror!PrereqsKnown, Mirror!Known
  <2>3. Mirror!Research(researching', Mirror!Inventions') \in Packets
    BY <2>1, <2>2 DEF Mirror!Research, Packets
  <2>4. PICK p \in Packets : p = Mirror!Research(researching', Mirror!Inventions')
    BY <2>3
  <2>5. p.type = "research" /\ p.researching = researching'
    BY <2>4 DEF Mirror!Research
  <2>6. /\ Len(net) < MaxNet /\ state' = state /\ world' = world /\ gold' = gold
        /\ net' = Append(net, p)
    BY <1>6, <2>4 DEF Mirror!Learns, Mirror!Changes, Mirror!Tells
  <2>7. (\A j : p \notin About(j)) /\ DOMAIN world' \subseteq Things
    BY <2>5, <2>6 DEF About, Follows
  <2> QED
    BY <2>5, <2>6, <2>7, FollowsSent
<1>7. CASE Mirror!Receives /\ ~UNCHANGED <<world, gold, researching, net, state>>
  <2>1. PICK t : /\ wire # <<>> /\ t = Head(wire).tech /\ researching' = t
                 /\ net' = Append(net, Mirror!Research(t, Mirror!Inventions))
                 /\ Len(net) < MaxNet /\ world' = world /\ gold' = gold /\ state' = state
    BY <1>7 DEF Mirror!Receives, Mirror!Tells
  <2>2. t \in Techs
    <3>1. Head(wire) \in Requests
      BY <2>1 DEF Types
    <3> QED
      BY <2>1, <3>1 DEF Requests
  <2>3. Mirror!Research(t, Mirror!Inventions) \in Packets
    BY <2>2, InventionsType DEF Mirror!Research, Packets, Types
  <2>4. PICK p \in Packets : p = Mirror!Research(t, Mirror!Inventions)
    BY <2>3
  <2>5. p.type = "research" /\ p.researching = t
    BY <2>4 DEF Mirror!Research
  <2>6. (\A j : p \notin About(j)) /\ DOMAIN world' \subseteq Things
    BY <2>1, <2>5 DEF About, Follows
  <2> QED
    BY <2>1, <2>4, <2>5, <2>6, FollowsSent
<1>8. CASE Mirror!NewGame
  BY <1>8, FollowsNewGame
<1>9. \/ Mirror!Handle \/ UNCHANGED <<world, gold, researching, net, state>>
      \/ \E id \in Things : Mirror!Hides(id) \/ \E owner \in Players : Mirror!Shows(id, owner)
      \/ \E g \in Golds : Mirror!Pays(g)
      \/ Mirror!Learns \/ (Mirror!Receives /\ ~UNCHANGED <<world, gold, researching, net, state>>) \/ Mirror!NewGame
  BY DEF Mirror!Next, Mirror!vars, Mirror!AutoPick, Mirror!SetResearchTarget, Mirror!Snapshot, Mirror!server
<1> QED
  BY <1>1, <1>2, <1>3, <1>4, <1>5, <1>6, <1>7, <1>8, <1>9

-----------------------------------------------------------------------------
(* The theorems.                                                           *)

\* The packets, the mirror and the requests are what their handlers expect.
THEOREM TypesInvariant ==
  ASSUME Parameters
  PROVE  Mirror!Spec => []Types
<1>1. Mirror!Init => Types
  BY TypesInit
<1>2. Types /\ [Mirror!Next]_Mirror!vars => Types'
  BY TypesStep
<1> QED
  BY <1>1, <1>2, PTL DEF Mirror!Spec

\* A reader of the changes that has missed no answer has the state that came
\* with the last one (compute_turn_delta, StateTracker.snapshot), for every
\* number of Mirror!readers, things and games.
THEOREM ReaderTold ==
  ASSUME Parameters
  PROVE  Mirror!Spec => []Mirror!ReaderKnows
<1>1. Mirror!Init => Told
  BY ToldInit
<1>2. Types /\ Told /\ [Mirror!Next]_Mirror!vars => Told'
  BY ToldStep
<1>3. Told => Mirror!ReaderKnows
  BY DEF Told, Mirror!ReaderKnows
<1>4. Mirror!Spec => []Types
  BY TypesInvariant
<1> QED
  BY <1>1, <1>2, <1>3, <1>4, PTL DEF Mirror!Spec

\* Whatever packets are on their way, the last of them about a thing, the gold or
\* the research says what the Mirror!server shows, and without any GameState does
\* (_handle_packet); of the player's own the client has everything; and the
\* Mirror!readers know what they were told: for every game and every number of Mirror!readers.
THEOREM MirrorIsTold ==
  ASSUME Parameters
  PROVE  Mirror!Spec => []Mirror!MirrorTells
<1>1. Mirror!Init => Follows
  BY FollowsInit
<1>2. Types /\ Follows /\ [Mirror!Next]_Mirror!vars => Follows'
  BY FollowsStep
<1>3. Types /\ Follows /\ Told /\ Mirror!ReaderKnows => Mirror!MirrorTells
  <2> SUFFICES ASSUME Types, Follows, Told
               PROVE  Mirror!TypeOK /\ Mirror!MirrorFollows
    BY DEF Mirror!MirrorTells
  <2>1. Mirror!TypeOK
    BY DEF Types, States, Maps, Follows, Told, Mirror!TypeOK
  <2>2. net \in Seq(Packets)
    BY DEF Types
  <2>3. \A x : Mirror!AboutThing(x) = Where(net, About(x)) /\ Mirror!OfType(x) = Where(net, Typed(x))
    BY <2>2, WhereIsPlace
  <2>4. /\ Mirror!OfType("player") = Where(net, Typed("player"))
        /\ Mirror!OfType("research") = Where(net, Typed("research"))
    BY <2>3
  <2>5. Mirror!MirrorFollows
    BY <2>3, <2>4 DEF Mirror!MirrorFollows, Follows, ThingTold, GoldTold, ResearchTold, OwnFull
  <2> QED
    BY <2>1, <2>5
<1>4. Mirror!Init => Told
  BY ToldInit
<1>5. Types /\ Told /\ [Mirror!Next]_Mirror!vars => Told'
  BY ToldStep
<1>6. Mirror!Spec => []Types /\ []Mirror!ReaderKnows
  BY TypesInvariant, ReaderTold
<1> QED
  BY <1>1, <1>2, <1>3, <1>4, <1>5, <1>6, PTL DEF Mirror!Spec

-----------------------------------------------------------------------------
(* The service's games, with parameters and state of their own.            *)

CONSTANTS Slots, Configs, Joiners, Games, Ids, NoPort
VARIABLES agents, clients, external, server_port, tasks, open, req, replaced, messy

Service == INSTANCE GameOrchestrator

\* What is needed of the parameters: a game has a port, and the names it is
\* created with are at least one and unique (api_create_game refuses others).
GameParameters ==
  /\ NoPort \notin Games
  /\ \A q \in Configs : q # <<>> /\ Service!IsInjective(q) /\ q \in Seq(Service!Range(q))

Names == Joiners \cup UNION {Service!Range(q) : q \in Configs}
Conns == [id : Ids, game : Games]
Sizes == {Service!Cardinality(D) : D \in SUBSET Names} \cup {0}
Kinds == {"free", "create", "delete", "join"}
Stages == {"free", "agents", "clients", "external", "first", "wait", "join", "pause",
           "agree", "start", "loops"}
GameRequests == [do : Kinds, at : Stages, names : Seq(Names), next : Nat, size : Sizes,
             left : SUBSET Names, game : Games \cup {NoPort}, first : SUBSET Conns]

GameTypes ==
  /\ req \in [Slots -> GameRequests]
  /\ DOMAIN agents \subseteq Names /\ DOMAIN clients \subseteq Names
  /\ DOMAIN external \subseteq Names
  /\ server_port \in Games \cup {NoPort}
  /\ messy \in BOOLEAN

\* What a request does and where it is agree.
Shape(r) ==
  /\ r.do = "free" => r.at = "free"
  /\ r.do = "join" => r.at = "join" /\ r.game # NoPort /\ r.names = <<r.names[1]>>
  /\ r.do = "delete" => r.at \in {"agents", "clients", "external"}
  /\ r.do = "create" => r.at # "free" /\ r.names \in Configs /\ r.next \in DOMAIN r.names

\* What the stages of a shutdown have closed.
Closed(r) ==
  /\ r.at = "clients" => \A n \in DOMAIN clients \ r.left : clients[n] \notin open
  /\ r.at = "external" =>
       /\ \A n \in DOMAIN clients : clients[n] \notin open
       /\ \A n \in DOMAIN external \ r.left : external[n] \notin open

\* While requests meet in order: a creation or deletion is the only one, a
\* shutdown goes on alone, the first connection finds no client, and the port
\* that was given noted, the later ones have names of their own, and who joins
\* does so on the port noted.
Orderly(s) ==
  LET r == req[s]
  IN  /\ r.do \in {"create", "delete"} =>
           tasks = {} /\ \A t \in Slots \ {s} : req[t].do \in {"free", "join"}
      /\ Service!Closing(s) => Service!Others(s) = {} /\ Closed(r)
      /\ r.at = "first" =>
           DOMAIN clients = {} /\ DOMAIN agents = {} /\ r.game = server_port
      /\ r.do = "create" /\ r.at \in {"wait", "pause"} =>
           DOMAIN clients \subseteq {r.names[j] : j \in 1..r.next}
      /\ r.do = "create" /\ r.at = "join" =>
           /\ DOMAIN clients \subseteq {r.names[j] : j \in 1..r.next - 1}
           /\ r.game = server_port
      /\ r.do = "join" => r.game = server_port

\* Without a port there are no connections.
PortKept == server_port = NoPort => Service!Registered = {}

GamesInOrder == Service!GamesApart /\ (~messy => PortKept /\ \A s \in Slots : Orderly(s))

Inv ==
  /\ GameTypes
  /\ \A s \in Slots : Shape(req[s])
  /\ Service!AgentsHaveClients
  /\ GamesInOrder

-----------------------------------------------------------------------------
(* Lemmas about the model's operators.                                     *)

LEMMA NothingIsEmpty == DOMAIN Service!Nothing = {} /\ Service!Range(Service!Nothing) = {}
BY DEF Service!Nothing, Service!Range

LEMMA FreeType ==
  /\ Service!Free \in GameRequests /\ Shape(Service!Free)
  /\ Service!Free.do = "free" /\ Service!Free.at = "free"
<1>1. <<>> \in Seq(Names) /\ {} \in SUBSET Names /\ {} \in SUBSET Conns /\ 0 \in Sizes
  BY DEF Sizes
<1>2. Service!Free \in GameRequests
  BY <1>1 DEF Service!Free, GameRequests, Kinds, Stages
<1> QED BY <1>2 DEF Service!Free, Shape

LEMMA ReqSet ==
  ASSUME GameTypes, NEW s \in Slots, NEW r \in GameRequests, req' = [req EXCEPT ![s] = r]
  PROVE  /\ req' \in [Slots -> GameRequests] /\ req'[s] = r
         /\ \A t \in Slots \ {s} : req'[t] = req[t]
BY DEF GameTypes

\* A request goes on, with the dictionaries as they were.
LEMMA QuietStep ==
  ASSUME Inv, NEW s \in Slots, Service!Busy(s), NEW r \in GameRequests, Shape(r),
         req' = [req EXCEPT ![s] = r],
         UNCHANGED <<Service!Tables, replaced, messy>>, open' \subseteq open,
         ~messy =>
           /\ r.do \in {"free", req[s].do} /\ r.do # "join" /\ r.at # "first"
           /\ r.at \in {"agents", "clients", "external"} => Service!Closing(s) /\ Closed(r)'
           /\ r.do = "create" /\ r.at \in {"wait", "pause"} =>
                DOMAIN clients \subseteq {r.names[j] : j \in 1..r.next}
           /\ r.do = "create" /\ r.at = "join" =>
                /\ DOMAIN clients \subseteq {r.names[j] : j \in 1..r.next - 1}
                /\ r.game = server_port
  PROVE  Inv'
<1>1. /\ req' \in [Slots -> GameRequests] /\ req'[s] = r
      /\ \A t \in Slots \ {s} : req'[t] = req[t]
  BY ReqSet DEF Inv
<1>2. UNCHANGED <<agents, clients, external, server_port, tasks>>
  BY DEF Service!Tables
<1>3. GameTypes'
  BY <1>1, <1>2 DEF Inv, GameTypes
<1>4. \A t \in Slots : Shape(req'[t])
  BY <1>1 DEF Inv
<1>5. Service!AgentsHaveClients'
  BY <1>2 DEF Inv, Service!AgentsHaveClients
<1>6. Service!Registered' = Service!Registered
  BY <1>2 DEF Service!Registered
<1>7. ASSUME ~messy
      PROVE  /\ open' \subseteq Service!Registered' \cup replaced'
             /\ \A c \in Service!Registered' : c.game = server_port'
             /\ \A n \in DOMAIN agents' : agents'[n] = clients'[n]
             /\ \A t \in tasks' : t.conn \in Service!Range(agents')
             /\ \A t, u \in tasks' : t.conn = u.conn => t = u
             /\ PortKept'
  BY <1>2, <1>6, <1>7 DEF Inv, GamesInOrder, Service!GamesApart, PortKept
<1>8. ASSUME ~messy, NEW t \in Slots
      PROVE  Orderly(t)'
  <2>1. Orderly(t) /\ Orderly(s)
    BY <1>8 DEF Inv, GamesInOrder
  <2>2. CASE t = s
    <3>1. /\ r.do \in {"create", "delete"} => req[s].do = r.do
          /\ r.do # "join"
      BY <1>8
    <3>2. r.do \in {"create", "delete"} =>
            tasks' = {} /\ \A u \in Slots \ {s} : req'[u].do \in {"free", "join"}
      BY <1>1, <1>2, <2>1, <3>1 DEF Orderly
    <3>3. Service!Closing(s)' => Service!Others(s)' = {} /\ Closed(r)'
      <4>1. Service!Others(s)' = Service!Others(s)
        BY <1>1 DEF Service!Others, Service!Busy
      <4>2. Service!Closing(s)' => Service!Closing(s) /\ Closed(r)'
        BY <1>1, <1>8 DEF Service!Closing
      <4> QED BY <2>1, <4>1, <4>2 DEF Orderly
    <3> QED BY <1>1, <1>2, <1>8, <2>2, <3>1, <3>2, <3>3 DEF Orderly
  <2>3. CASE t # s
    <3>1. req'[t] = req[t] /\ s \in Slots \ {t}
      BY <1>1, <2>3
    <3>2. ~Service!Closing(t)
      BY <2>1, <2>3 DEF Orderly, Service!Others
    <3>3. ~Service!Closing(t)'
      BY <3>1, <3>2 DEF Service!Closing
    <3>4. \A u \in Slots \ {t} : \/ req'[u].do = req[u].do /\ req'[u] = req[u]
                                 \/ req'[u].do \in {"free", req[u].do} /\ req'[u].do # "join"
      BY <1>1, <1>8
    <3>5. req[t].do \in {"create", "delete"} =>
            tasks' = {} /\ \A u \in Slots \ {t} : req'[u].do \in {"free", "join"}
      BY <1>2, <2>1, <3>4 DEF Orderly
    <3> QED BY <1>2, <2>1, <3>1, <3>3, <3>5 DEF Orderly
  <2> QED BY <2>2, <2>3
<1> QED BY <1>3, <1>4, <1>5, <1>7, <1>8 DEF Inv, GamesInOrder, Service!GamesApart

\* What the type and shape of a request say.
LEMMA RequestOf ==
  ASSUME Inv, NEW s \in Slots
  PROVE  /\ req[s] \in GameRequests /\ Shape(req[s])
         /\ req[s].at # "free" => Service!Busy(s)
         /\ req[s].at \in {"first", "wait", "pause", "agree", "start", "loops"} =>
              req[s].do = "create"
         /\ req[s].at = "join" => req[s].do \in {"create", "join"}
BY DEF Inv, GameTypes, Shape, Service!Busy, GameRequests, Kinds

-----------------------------------------------------------------------------
(* The steps that leave the dictionaries as they are.                      *)

LEMMA EndsStep ==
  ASSUME Inv, NEW s \in Slots, Service!Busy(s), Service!Ends(s),
         UNCHANGED <<Service!Tables, replaced, messy>>, open' \subseteq open
  PROVE  Inv'
<1>1. req' = [req EXCEPT ![s] = Service!Free]
  BY DEF Service!Ends
<1> QED BY <1>1, FreeType, QuietStep

LEMMA FailsStep ==
  ASSUME Inv, NEW s \in Slots, Service!Fails(s)
  PROVE  Inv'
BY RequestOf, EndsStep DEF Service!Fails, Service!History

LEMMA FollowingFollows ==
  ASSUME Inv, NEW s \in Slots, req[s].at \in {"wait", "pause"}
  PROVE  LET r == Service!Following(req[s])
         IN  /\ r \in GameRequests /\ Shape(r) /\ r.do = "create" /\ r.at \in {"join", "agree"}
             /\ r.at = "join" => /\ r.game = server_port /\ r.names = req[s].names
                                 /\ r.next - 1 = req[s].next
<1>1. /\ req[s] \in GameRequests /\ Shape(req[s]) /\ req[s].do = "create"
      /\ req[s].names \in Seq(Names) /\ req[s].next \in Nat
      /\ req[s].next \in DOMAIN req[s].names /\ req[s].names \in Configs
  BY RequestOf DEF Shape, GameRequests
<1>2. server_port \in Games \cup {NoPort}
  BY DEF Inv, GameTypes
<1>3. CASE req[s].next < Len(req[s].names)
  <2>1. /\ req[s].next + 1 \in Nat /\ req[s].next + 1 \in DOMAIN req[s].names
        /\ (req[s].next + 1) - 1 = req[s].next
    BY <1>1, <1>3
  <2>2. Service!Following(req[s]) =
          [req[s] EXCEPT !.at = "join", !.next = req[s].next + 1, !.game = server_port]
    BY <1>3 DEF Service!Following
  <2> QED BY <1>1, <1>2, <2>1, <2>2 DEF GameRequests, Shape, Stages
<1>4. CASE ~(req[s].next < Len(req[s].names))
  <2>1. Service!Following(req[s]) = [req[s] EXCEPT !.at = "agree"]
    BY <1>4 DEF Service!Following
  <2> QED BY <1>1, <2>1 DEF GameRequests, Shape, Stages
<1> QED BY <1>3, <1>4

LEMMA FollowingStep ==
  ASSUME Inv, NEW s \in Slots, req[s].at \in {"wait", "pause"},
         req' = [req EXCEPT ![s] = Service!Following(req[s])], UNCHANGED <<Service!Tables, open, replaced, messy>>
  PROVE  Inv'
<1> DEFINE r == Service!Following(req[s])
<1>1. /\ r \in GameRequests /\ Shape(r) /\ r.do = "create" /\ r.at \in {"join", "agree"}
      /\ r.at = "join" => /\ r.game = server_port /\ r.names = req[s].names
                          /\ r.next - 1 = req[s].next
  BY FollowingFollows
<1>2. Service!Busy(s) /\ req[s].do = "create"
  BY RequestOf
<1>3. ~messy => DOMAIN clients \subseteq {req[s].names[j] : j \in 1..req[s].next}
  BY <1>2 DEF Inv, GamesInOrder, Orderly
<1>4. req' = [req EXCEPT ![s] = r]
  OBVIOUS
<1> HIDE DEF r
<1>5. ~messy =>
        (r.at = "join" => /\ DOMAIN clients \subseteq {r.names[j] : j \in 1..r.next - 1}
                          /\ r.game = server_port)
  BY <1>1, <1>3
<1>6. UNCHANGED <<Service!Tables, replaced, messy>> /\ open' \subseteq open
  OBVIOUS
<1>7. r.at \notin {"agents", "clients", "external", "first", "wait", "pause"}
  BY <1>1
<1>8. r.do \in {"free", req[s].do} /\ r.do # "join"
  BY <1>1, <1>2
<1> QED BY <1>1, <1>2, <1>4, <1>5, <1>6, <1>7, <1>8, QuietStep

LEMMA FirstConnectedStep ==
  ASSUME Inv, NEW s \in Slots, Service!FirstConnected(s)
  PROVE  Inv'
<1>1. CASE req[s].first \subseteq open
  BY <1>1, FollowingStep DEF Service!FirstConnected, Service!History
<1>2. CASE ~(req[s].first \subseteq open)
  BY <1>2, RequestOf, EndsStep DEF Service!FirstConnected, Service!History
<1> QED BY <1>1, <1>2

LEMMA PausesStep ==
  ASSUME Inv, NEW s \in Slots, Service!Pauses(s)
  PROVE  Inv'
BY FollowingStep DEF Service!Pauses, Service!History

LEMMA FirstLostStep ==
  ASSUME Inv, NEW s \in Slots, Service!FirstLost(s)
  PROVE  Inv'
<1>1. /\ req[s] \in GameRequests /\ Shape(req[s]) /\ Service!Busy(s)
      /\ req[s].do = "create" /\ req[s].at = "wait"
  BY RequestOf DEF Service!FirstLost
<1>2. /\ req' = [req EXCEPT ![s] = req[s]]
      /\ UNCHANGED <<Service!Tables, replaced, messy>> /\ open' \subseteq open
  BY DEF Service!FirstLost, Service!History, Inv, GameTypes
<1>3. ~messy => DOMAIN clients \subseteq {req[s].names[j] : j \in 1..req[s].next}
  BY <1>1 DEF Inv, GamesInOrder, Orderly
<1> QED BY <1>1, <1>2, <1>3, QuietStep

LEMMA StartGameStep ==
  ASSUME Inv, NEW s \in Slots, Service!StartGame(s)
  PROVE  Inv'
<1>1. /\ req[s] \in GameRequests /\ Shape(req[s]) /\ Service!Busy(s) /\ req[s].do = "create"
  BY RequestOf DEF Service!StartGame
<1>2. CASE Service!Cardinality(DOMAIN clients) = req[s].size
  <2> DEFINE r == [req[s] EXCEPT !.at = "loops"]
  <2>1. r \in GameRequests /\ Shape(r) /\ r.do = "create" /\ r.at = "loops"
    BY <1>1 DEF GameRequests, Stages, Shape
  <2>2. req' = [req EXCEPT ![s] = r] /\ UNCHANGED <<Service!Tables, open, replaced, messy>>
    BY <1>2 DEF Service!StartGame, Service!At, Service!History
  <2> HIDE DEF r
  <2> QED BY <1>1, <2>1, <2>2, QuietStep
<1>3. CASE Service!Cardinality(DOMAIN clients) # req[s].size
  BY <1>1, <1>3, EndsStep DEF Service!StartGame, Service!History
<1> QED BY <1>2, <1>3

-----------------------------------------------------------------------------
(* A shutdown's steps.                                                     *)

LEMMA ClosingRequest ==
  ASSUME Inv, NEW s \in Slots, Service!Closing(s)
  PROVE  /\ req[s] \in GameRequests /\ Shape(req[s]) /\ Service!Busy(s)
         /\ req[s].do \in {"create", "delete"} /\ req[s].at \in {"agents", "clients", "external"}
         /\ ~messy => Service!Others(s) = {} /\ Closed(req[s]) /\ tasks = {}
<1>1. /\ req[s] \in GameRequests /\ Shape(req[s]) /\ Service!Busy(s)
      /\ req[s].do \in {"create", "delete"} /\ req[s].at \in {"agents", "clients", "external"}
  BY RequestOf DEF Service!Closing, Shape, GameRequests, Kinds
<1>2. ~messy => Service!Others(s) = {} /\ Closed(req[s]) /\ tasks = {}
  BY <1>1 DEF Inv, GamesInOrder, Orderly
<1> QED BY <1>1, <1>2

\* The stage that begins: its names are those of its dictionary.
LEMMA StageType ==
  ASSUME GameTypes, NEW r \in GameRequests, NEW stage \in {"agents", "clients", "external"},
         r.do \in {"create", "delete"},
         r.do = "create" => r.names \in Configs /\ r.next \in DOMAIN r.names
  PROVE  /\ Service!Stage(r, stage) \in GameRequests /\ Shape(Service!Stage(r, stage))
         /\ Service!Stage(r, stage).do = r.do /\ Service!Stage(r, stage).at = stage
         /\ Service!Stage(r, stage).left = DOMAIN Service!DictOf(stage)
<1>1. DOMAIN Service!DictOf(stage) \in SUBSET Names
  BY DEF Service!DictOf, GameTypes
<1>2. Service!Cardinality(DOMAIN Service!DictOf(stage)) \in Sizes
  BY <1>1 DEF Sizes
<1> DEFINE D == DOMAIN Service!DictOf(stage)
<1> DEFINE C == Service!Cardinality(DOMAIN Service!DictOf(stage))
<1>3. Service!Stage(r, stage) = [r EXCEPT !.at = stage, !.left = D, !.size = C]
  BY DEF Service!Stage
<1>4. D \in SUBSET Names /\ C \in Sizes
  BY <1>1, <1>2
<1> HIDE DEF D, C
<1>5. Service!Stage(r, stage) \in GameRequests
  BY <1>3, <1>4 DEF GameRequests, Stages
<1>6. /\ Service!Stage(r, stage).do = r.do /\ Service!Stage(r, stage).at = stage /\ Service!Stage(r, stage).left = D
      /\ Service!Stage(r, stage).names = r.names /\ Service!Stage(r, stage).next = r.next
  BY <1>3 DEF GameRequests
<1>7. Shape(Service!Stage(r, stage))
  BY <1>6 DEF Shape
<1> QED BY <1>5, <1>6, <1>7 DEF D

LEMMA IdleOrderly ==
  ASSUME NEW t, Shape(req'[t]), req'[t].do = "free"
  PROVE  Orderly(t)'
BY DEF Orderly, Shape, Service!Closing

LEMMA CloseOneStep ==
  ASSUME Inv, NEW s \in Slots, Service!Closing(s),
         NEW n \in req[s].left \cap DOMAIN Service!DictOf(req[s].at),
         req' = [req EXCEPT ![s].left = (req[s].left \cap DOMAIN Service!DictOf(req[s].at)) \ {n}],
         open' = IF req[s].at = "agents" THEN open ELSE open \ {Service!DictOf(req[s].at)[n]},
         UNCHANGED <<Service!Tables, replaced, messy>>
  PROVE  Inv'
<1> DEFINE L == (req[s].left \cap DOMAIN Service!DictOf(req[s].at)) \ {n}
<1>1. /\ req[s] \in GameRequests /\ Shape(req[s]) /\ Service!Busy(s)
      /\ req[s].do \in {"create", "delete"} /\ req[s].at \in {"agents", "clients", "external"}
      /\ ~messy => Closed(req[s])
  BY ClosingRequest
<1>2. L \in SUBSET Names
  BY <1>1 DEF GameRequests
<1>3. UNCHANGED <<agents, clients, external>>
  BY DEF Service!Tables
<1>4. ~messy => (req[s].at = "clients" => \A m \in DOMAIN clients \ L : clients[m] \notin open')
  <2> SUFFICES ASSUME ~messy, req[s].at = "clients", NEW m \in DOMAIN clients \ L
               PROVE  clients[m] \notin open'
    OBVIOUS
  <2>1. Service!DictOf(req[s].at) = clients
    BY DEF Service!DictOf
  <2>2. m = n \/ m \in DOMAIN clients \ req[s].left
    BY <2>1
  <2> QED BY <1>1, <2>1, <2>2 DEF Closed
<1>5. ~messy => (req[s].at = "external" => 
         /\ \A m \in DOMAIN clients : clients[m] \notin open'
         /\ \A m \in DOMAIN external \ L : external[m] \notin open')
  <2> SUFFICES ASSUME ~messy, req[s].at = "external"
               PROVE  /\ \A m \in DOMAIN clients : clients[m] \notin open'
                      /\ \A m \in DOMAIN external \ L : external[m] \notin open'
    OBVIOUS
  <2>1. Service!DictOf(req[s].at) = external
    BY DEF Service!DictOf
  <2>2. \A m \in DOMAIN external \ L : m = n \/ m \in DOMAIN external \ req[s].left
    BY <2>1
  <2> QED BY <1>1, <2>1, <2>2 DEF Closed
<1>6. open' \subseteq open
  OBVIOUS
<1>7. req' = [req EXCEPT ![s] = [req[s] EXCEPT !.left = L]]
  BY DEF Inv, GameTypes
<1>8. PICK K : K = L
  OBVIOUS
<1>9. PICK r : r = [req[s] EXCEPT !.left = K]
  OBVIOUS
<1>10. req' = [req EXCEPT ![s] = r]
  BY <1>9, <1>7, <1>8
<1> HIDE DEF L
<1>11. /\ r \in GameRequests /\ r.do = req[s].do /\ r.at = req[s].at /\ r.left = K
      /\ r.names = req[s].names /\ r.next = req[s].next
  BY <1>1, <1>2, <1>9, <1>8 DEF GameRequests
<1>12. Shape(r)
  BY <1>1, <1>11 DEF Shape
<1>13. ~messy => Closed(r)'
  BY <1>3, <1>4, <1>5, <1>11, <1>8 DEF Closed
<1>14. r.do # "join" /\ r.at \notin {"first", "wait", "pause", "join"}
  BY <1>1, <1>11
<1>15. UNCHANGED <<Service!Tables, replaced, messy>>
  OBVIOUS
<1> QED BY <1>1, <1>6, <1>11, <1>12, <1>13, <1>10, <1>14, <1>15, QuietStep DEF Service!Closing

LEMMA CloseStageStep ==
  ASSUME Inv, NEW s \in Slots, Service!Closing(s), Service!StageAfter(req[s].at) # "cleared",
         req[s].left \cap DOMAIN Service!DictOf(req[s].at) = {},
         req' = [req EXCEPT ![s] = Service!Stage(req[s], Service!StageAfter(req[s].at))],
         UNCHANGED <<Service!Tables, open, replaced, messy>>
  PROVE  Inv'
<1>1. /\ req[s] \in GameRequests /\ Shape(req[s]) /\ Service!Busy(s)
      /\ req[s].do \in {"create", "delete"} /\ req[s].at \in {"agents", "clients", "external"}
      /\ ~messy => Closed(req[s])
  BY ClosingRequest
<1>2. PICK stage : stage = Service!StageAfter(req[s].at)
  OBVIOUS
<1>3. \/ req[s].at = "agents" /\ stage = "clients"
      \/ req[s].at = "clients" /\ stage = "external"
  BY <1>1, <1>2 DEF Service!StageAfter
<1>4. PICK r : r = Service!Stage(req[s], stage)
  OBVIOUS
<1>5. r \in GameRequests /\ Shape(r) /\ r.do = req[s].do /\ r.at = stage
      /\ r.left = DOMAIN Service!DictOf(stage)
  <2>1. req[s].do = "create" => req[s].names \in Configs /\ req[s].next \in DOMAIN req[s].names
    BY <1>1 DEF Shape
  <2>2. GameTypes /\ stage \in {"agents", "clients", "external"}
    BY <1>3 DEF Inv
  <2>3. PICK q \in GameRequests : q = req[s]
    BY <1>1
  <2> QED BY <1>1, <1>4, <2>1, <2>2, <2>3, StageType
<1>6. req' = [req EXCEPT ![s] = r]
  BY <1>2, <1>4
<1>7. UNCHANGED <<agents, clients, external>>
  BY DEF Service!Tables
<1>8. ~messy => Closed(r)'
  <2> SUFFICES ASSUME ~messy PROVE Closed(r)'
    OBVIOUS
  <2>1. CASE stage = "clients"
    <3>1. r.left = DOMAIN clients
      BY <1>5, <2>1 DEF Service!DictOf
    <3> QED BY <1>5, <1>7, <2>1, <3>1 DEF Closed
  <2>2. CASE stage = "external"
    <3>1. r.left = DOMAIN external
      BY <1>5, <2>2 DEF Service!DictOf
    <3>2. \A n \in DOMAIN clients : n \notin req[s].left
      BY <1>3, <2>2 DEF Service!DictOf
    <3>3. \A n \in DOMAIN clients : clients[n] \notin open
      BY <1>1, <1>3, <2>2, <3>2 DEF Closed
    <3> QED BY <1>5, <1>7, <2>2, <3>1, <3>3 DEF Closed
  <2> QED BY <1>3, <2>1, <2>2
<1>9. r.do # "join" /\ r.at \notin {"first", "wait", "pause", "join"}
  BY <1>1, <1>3, <1>5
<1>10. UNCHANGED <<Service!Tables, replaced, messy>> /\ open' \subseteq open
  OBVIOUS
<1> QED BY <1>1, <1>5, <1>6, <1>8, <1>9, <1>10, QuietStep

LEMMA CloseEndStep ==
  ASSUME Inv, NEW s \in Slots, Service!Closing(s), Service!StageAfter(req[s].at) = "cleared",
         req[s].left \cap DOMAIN Service!DictOf(req[s].at) = {},
         clients' = Service!Nothing, external' = Service!Nothing, agents' = Service!Nothing, server_port' = req[s].game,
         req' = [req EXCEPT ![s] = IF req[s].do = "create" THEN [req[s] EXCEPT !.at = "first"]
                                   ELSE Service!Free],
         UNCHANGED <<tasks, open, replaced, messy>>
  PROVE  Inv'
<1>1. /\ req[s] \in GameRequests /\ Shape(req[s]) /\ Service!Busy(s)
      /\ req[s].do \in {"create", "delete"} /\ req[s].at \in {"agents", "clients", "external"}
      /\ ~messy => Service!Others(s) = {} /\ Closed(req[s]) /\ tasks = {}
  BY ClosingRequest
<1>2. PICK r : r = IF req[s].do = "create" THEN [req[s] EXCEPT !.at = "first"] ELSE Service!Free
  OBVIOUS
<1>3. r \in GameRequests /\ Shape(r)
  BY <1>1, <1>2, FreeType DEF GameRequests, Stages, Shape
<1>4. \/ r.do = "free" /\ r.at = "free"
      \/ r.do = "create" /\ r.at = "first" /\ r.game = server_port'
  BY <1>1, <1>2, FreeType DEF GameRequests
<1>5. /\ req' \in [Slots -> GameRequests] /\ req'[s] = r
      /\ \A t \in Slots \ {s} : req'[t] = req[t]
  <2>1. GameTypes /\ req' = [req EXCEPT ![s] = r]
    BY <1>2 DEF Inv
  <2> QED BY <1>3, <2>1, ReqSet
<1>6. /\ DOMAIN agents' = {} /\ DOMAIN clients' = {} /\ DOMAIN external' = {}
      /\ Service!Range(agents)' = {} /\ Service!Range(clients)' = {} /\ Service!Range(external)' = {}
  BY NothingIsEmpty
<1>7. GameTypes'
  BY <1>1, <1>5, <1>6 DEF Inv, GameTypes, GameRequests
<1>8. \A t \in Slots : Shape(req'[t])
  BY <1>3, <1>5 DEF Inv
<1>9. Service!AgentsHaveClients'
  BY <1>6 DEF Service!AgentsHaveClients
<1>10. Service!Registered' = {}
  BY <1>6 DEF Service!Registered
<1>11. ASSUME ~messy PROVE open \subseteq replaced
  <2>1. req[s].at = "external" /\ Service!DictOf(req[s].at) = external
    BY <1>1 DEF Service!StageAfter, Service!DictOf
  <2>2. \A n \in DOMAIN external : external[n] \notin open
    BY <1>1, <1>11, <2>1 DEF Closed
  <2>3. \A n \in DOMAIN clients : clients[n] \notin open
    BY <1>1, <1>11, <2>1 DEF Closed
  <2>4. \A n \in DOMAIN agents : agents[n] \notin open
    BY <1>11, <2>3 DEF Inv, GamesInOrder, Service!GamesApart, Service!AgentsHaveClients
  <2>5. open \subseteq Service!Registered \cup replaced
    BY <1>11 DEF Inv, GamesInOrder, Service!GamesApart
  <2> QED BY <2>2, <2>3, <2>4, <2>5 DEF Service!Registered, Service!Range
<1>12. Service!GamesApart'
  BY <1>1, <1>6, <1>10, <1>11 DEF Service!GamesApart
<1>13. PortKept'
  BY <1>10 DEF PortKept
<1>14. ASSUME ~messy, NEW t \in Slots
       PROVE  Orderly(t)'
  <2>1. \A u \in Slots \ {s} : req'[u].do = "free"
    BY <1>1, <1>5, <1>14 DEF Service!Others, Service!Busy
  <2>2. CASE t # s \/ r.do = "free"
    BY <1>5, <1>8, <2>1, <2>2, IdleOrderly
  <2>3. CASE t = s /\ r.do = "create"
    BY <1>1, <1>4, <1>5, <1>6, <1>14, <2>1, <2>3 DEF Orderly, Service!Closing
  <2> QED BY <1>4, <2>2, <2>3
<1>15. GamesInOrder'
  BY <1>12, <1>13, <1>14 DEF GamesInOrder
<1> QED BY <1>7, <1>8, <1>9, <1>15 DEF Inv

LEMMA CloseNextStep ==
  ASSUME Inv, NEW s \in Slots, Service!CloseNext(s)
  PROVE  Inv'
<1>1. /\ Service!Closing(s) /\ UNCHANGED <<replaced, messy>> /\ Service!Busy(s)
      /\ req[s].at \in {"agents", "clients", "external"}
  BY ClosingRequest DEF Service!CloseNext, Service!History
<1> DEFINE dict == Service!DictOf(req[s].at)
<1> DEFINE rest == req[s].left \cap DOMAIN dict
<1>2. CASE Service!Cardinality(DOMAIN dict) # req[s].size
  <2>1. Service!Ends(s) /\ UNCHANGED <<Service!Tables, open>>
    BY <1>2 DEF Service!CloseNext
  <2> QED BY <1>1, <2>1, EndsStep
<1>3. CASE Service!Cardinality(DOMAIN dict) = req[s].size /\ rest # {}
  <2>1. /\ \E n \in rest :
             /\ req' = [req EXCEPT ![s].left = rest \ {n}]
             /\ open' = IF req[s].at = "agents" THEN open ELSE open \ {dict[n]}
        /\ UNCHANGED Service!Tables
    BY <1>3 DEF Service!CloseNext
  <2> QED BY <1>1, <2>1, CloseOneStep
<1>4. CASE Service!Cardinality(DOMAIN dict) = req[s].size /\ rest = {} /\ Service!StageAfter(req[s].at) # "cleared"
  <2>1. /\ req' = [req EXCEPT ![s] = Service!Stage(req[s], Service!StageAfter(req[s].at))]
        /\ UNCHANGED <<Service!Tables, open>>
    BY <1>4 DEF Service!CloseNext
  <2> QED BY <1>1, <1>4, <2>1, CloseStageStep
<1>5. CASE Service!Cardinality(DOMAIN dict) = req[s].size /\ rest = {} /\ Service!StageAfter(req[s].at) = "cleared"
  <2>1. /\ clients' = Service!Nothing /\ external' = Service!Nothing /\ agents' = Service!Nothing
        /\ server_port' = req[s].game
        /\ req' = [req EXCEPT ![s] = IF req[s].do = "create" THEN [req[s] EXCEPT !.at = "first"]
                                     ELSE Service!Free]
        /\ UNCHANGED <<tasks, open>>
    BY <1>5 DEF Service!CloseNext
  <2> QED BY <1>1, <1>5, <2>1, CloseEndStep
<1> QED BY <1>2, <1>3, <1>4, <1>5

-----------------------------------------------------------------------------
(* Deletions and creations, which are in order only when nothing else is   *)
(* in progress.                                                            *)

LEMMA AloneStep ==
  ASSUME Inv, NEW s \in Slots, Service!Begins(s), NEW r \in GameRequests, Shape(r),
         req' = [req EXCEPT ![s] = r], messy' \in BOOLEAN,
         UNCHANGED <<agents, clients, external, open, replaced>>, server_port' \in Games \cup {NoPort},
         r.do \in {"create", "delete"}, r.at \in {"agents", "first"},
         ~messy' =>
           /\ Service!Others(s) = {} /\ tasks' = {}
           /\ server_port' = server_port \/ Service!Registered = {}
           /\ r.at = "first" => Service!Registered = {} /\ r.game = server_port'
  PROVE  Inv'
<1>1. /\ req' \in [Slots -> GameRequests] /\ req'[s] = r
      /\ \A t \in Slots \ {s} : req'[t] = req[t]
  BY ReqSet DEF Inv
<1>2. GameTypes' /\ \A t \in Slots : Shape(req'[t])
  BY <1>1 DEF Inv, GameTypes
<1>3. Service!AgentsHaveClients'
  BY DEF Inv, Service!AgentsHaveClients
<1>4. Service!Registered' = Service!Registered
  BY DEF Service!Registered
<1>5. ~messy' => Service!GamesApart' /\ PortKept'
  BY <1>4 DEF Service!Begins, Inv, GamesInOrder, Service!GamesApart, PortKept
<1>6. ASSUME ~messy', NEW t \in Slots
      PROVE  Orderly(t)'
  <2>1. \A u \in Slots \ {s} : req'[u].do = "free"
    BY <1>1, <1>6 DEF Service!Others, Service!Busy
  <2>2. CASE t # s
    BY <1>2, <2>1, <2>2, IdleOrderly
  <2>3. CASE t = s
    <3>1. Service!Others(s)' = {}
      BY <2>1 DEF Service!Others, Service!Busy
    <3>2. r.at = "first" => DOMAIN clients' = {} /\ DOMAIN agents' = {}
      <4>1. r.at = "first" => Service!Range(clients) = {} /\ Service!Range(agents) = {}
        BY <1>6 DEF Service!Registered
      <4>2. \A n \in DOMAIN clients : clients[n] \in Service!Range(clients)
        BY DEF Service!Range
      <4>3. \A n \in DOMAIN agents : agents[n] \in Service!Range(agents)
        BY DEF Service!Range
      <4> QED BY <4>1, <4>2, <4>3
    <3> QED BY <1>1, <1>6, <2>1, <2>3, <3>1, <3>2 DEF Orderly, Closed
  <2> QED BY <2>2, <2>3
<1>7. GamesInOrder'
  BY <1>5, <1>6 DEF GamesInOrder, Service!GamesApart
<1> QED BY <1>2, <1>3, <1>7 DEF Inv

\* A request that starts with a shutdown.
LEMMA ShutdownStep ==
  ASSUME Inv, NEW s \in Slots, Service!Begins(s), NEW q \in GameRequests, q.do \in {"create", "delete"},
         q.do = "create" => q.names \in Configs /\ q.next \in DOMAIN q.names,
         Service!BeginShutdown(s, q), messy' \in BOOLEAN, ~messy' => Service!Others(s) = {}, UNCHANGED replaced
  PROVE  Inv'
<1>1. PICK r : r = Service!Stage(q, "agents")
  OBVIOUS
<1>2. r \in GameRequests /\ Shape(r) /\ r.do = q.do /\ r.at = "agents"
  BY <1>1, StageType DEF Inv
<1>3. req' = [req EXCEPT ![s] = r] /\ tasks' = {}
  BY <1>1 DEF Service!BeginShutdown
<1>4. UNCHANGED <<agents, clients, external, server_port, open>> /\ server_port \in Games \cup {NoPort}
  BY DEF Service!BeginShutdown, Inv, GameTypes
<1> QED BY <1>2, <1>3, <1>4, AloneStep

LEMMA DeleteGameStep ==
  ASSUME Inv, NEW s \in Slots, Service!DeleteGame(s)
  PROVE  Inv'
<1>1. PICK q : q = [Service!Free EXCEPT !.do = "delete"]
  OBVIOUS
<1>2. q \in GameRequests /\ q.do = "delete"
  BY <1>1, FreeType DEF GameRequests, Kinds
<1>3. /\ Service!Begins(s) /\ Service!BeginShutdown(s, q) /\ messy' = (Service!Others(s) # {})
      /\ UNCHANGED replaced
  BY <1>1 DEF Service!DeleteGame
<1> QED BY <1>2, <1>3, ShutdownStep

LEMMA CreateGameStep ==
  ASSUME GameParameters, Inv, NEW s \in Slots, NEW names \in Configs,
         NEW game \in Games \cup {NoPort}, Service!CreateGame(s, names, game)
  PROVE  Inv'
<1>1. PICK q : q = [Service!Free EXCEPT !.do = "create", !.names = names, !.game = game]
  OBVIOUS
<1>2. names \in Seq(Service!Range(names)) /\ names # <<>> /\ Service!Range(names) \subseteq Names
  BY DEF GameParameters, Names
<1>3. names \in Seq(Names) /\ 1 \in DOMAIN names
  BY <1>2
<1>4. q \in GameRequests /\ q.do = "create" /\ q.names = names /\ q.next = 1 /\ q.game = game
  BY <1>1, <1>3, FreeType DEF GameRequests, Kinds, Service!Free
<1>5. /\ Service!Begins(s) /\ messy' \in BOOLEAN /\ (~messy' => Service!Others(s) = {})
      /\ UNCHANGED replaced
  BY DEF Service!CreateGame
<1>6. CASE DOMAIN agents # {}
  <2>1. Service!BeginShutdown(s, q)
    BY <1>1, <1>6 DEF Service!CreateGame
  <2> QED BY <1>3, <1>4, <1>5, <2>1, ShutdownStep
<1>7. CASE DOMAIN agents = {}
  <2>1. PICK r : r = [q EXCEPT !.at = "first"]
    OBVIOUS
  <2>2. r \in GameRequests /\ Shape(r) /\ r.do = "create" /\ r.at = "first" /\ r.game = game
    BY <1>3, <1>4, <2>1 DEF GameRequests, Stages, Shape
  <2>3. /\ req' = [req EXCEPT ![s] = r] /\ UNCHANGED <<agents, clients, external, tasks, open>>
        /\ server_port' = IF game # NoPort THEN game ELSE server_port
    BY <1>1, <1>7, <2>1 DEF Service!CreateGame
  <2>4. ~messy' => Service!Registered = {} /\ server_port' = game
    BY <1>7, <2>3 DEF Service!CreateGame
  <2>5. tasks = {}
    BY <1>5, <1>7 DEF Service!Begins, Inv, GamesInOrder, Service!GamesApart, Service!Range
  <2>6. /\ UNCHANGED <<agents, clients, external, open>> /\ tasks' = {}
        /\ server_port' \in Games \cup {NoPort}
    BY <2>3, <2>5 DEF Inv, GameTypes
  <2> QED BY <1>5, <2>2, <2>3, <2>4, <2>6, AloneStep
<1> QED BY <1>6, <1>7

-----------------------------------------------------------------------------
(* A creation's own steps.                                                 *)

\* While a creation goes on, in order, the others are who joins: they stay as
\* they are.
LEMMA OthersStay ==
  ASSUME Inv, ~messy, NEW s \in Slots, NEW t \in Slots \ {s}, Shape(req'[t]),
         req[s].do = "create", req'[s].do # "join",
         \A u \in Slots \ {s} : req'[u] = req[u],
         server_port # NoPort => UNCHANGED server_port
  PROVE  Orderly(t)'
<1>1. Orderly(s) /\ Orderly(t)
  BY DEF Inv, GamesInOrder
<1>2. req'[t] = req[t] /\ req[t].do \in {"free", "join"}
  BY <1>1 DEF Orderly
<1>3. CASE req[t].do = "free"
  BY <1>2, <1>3, IdleOrderly
<1>4. CASE req[t].do = "join"
  <2>1. req'[t].at = "join" /\ req[t].game # NoPort
    BY <1>2, <1>4 DEF Shape
  <2> QED BY <1>1, <1>2, <1>4, <2>1 DEF Orderly, Service!Closing
<1> QED BY <1>2, <1>3, <1>4

\* What a creation's request is.
LEMMA CreatingRequest ==
  ASSUME GameParameters, Inv, NEW s \in Slots, req[s].do = "create"
  PROVE  /\ req[s] \in GameRequests /\ Shape(req[s]) /\ Service!Busy(s)
         /\ req[s].names \in Seq(Names) /\ req[s].names \in Configs /\ Service!IsInjective(req[s].names)
         /\ req[s].next \in DOMAIN req[s].names /\ req[s].next \in 1..Len(req[s].names)
         /\ req[s].names[1] \in Names /\ req[s].names[req[s].next] \in Names
         /\ ~messy => tasks = {} /\ \A t \in Slots \ {s} : req[t].do \in {"free", "join"}
<1>1. /\ req[s] \in GameRequests /\ Shape(req[s]) /\ Service!Busy(s)
      /\ req[s].names \in Seq(Names) /\ req[s].names \in Configs
      /\ req[s].next \in DOMAIN req[s].names
  BY RequestOf DEF Shape, GameRequests, Service!Busy
<1>2. /\ req[s].next \in 1..Len(req[s].names) /\ 1 \in DOMAIN req[s].names
      /\ req[s].names[1] \in Names /\ req[s].names[req[s].next] \in Names
  BY <1>1
<1>3. ~messy => tasks = {} /\ \A t \in Slots \ {s} : req[t].do \in {"free", "join"}
  BY DEF Inv, GamesInOrder, Orderly
<1> QED BY <1>1, <1>2, <1>3 DEF GameParameters

LEMMA FirstClientStep ==
  ASSUME GameParameters, Inv, NEW s \in Slots, Service!FirstClient(s)
  PROVE  Inv'
<1>1. PICK i \in Ids, game \in IF req[s].game = NoPort THEN Games ELSE {req[s].game} :
        LET conn == [id |-> i, game |-> game]
        IN /\ open' = open \cup {conn}
           /\ server_port' = IF req[s].game = NoPort THEN game ELSE server_port
           /\ clients' = Service!Put(clients, req[s].names[1], conn)
           /\ req' = [req EXCEPT ![s].at = "wait", ![s].first = {conn}]
  BY DEF Service!FirstClient, Service!Fresh
<1>2. PICK conn \in Conns : conn = [id |-> i, game |-> game]
  BY RequestOf DEF Conns, GameRequests
<1>3. /\ open' = open \cup {conn} /\ conn.game = game /\ game \in Games /\ game # NoPort
      /\ server_port' = IF req[s].game = NoPort THEN game ELSE server_port
      /\ req[s].game # NoPort => game = req[s].game
      /\ clients' = Service!Put(clients, req[s].names[1], conn)
      /\ req' = [req EXCEPT ![s].at = "wait", ![s].first = {conn}]
  BY <1>1, <1>2, RequestOf DEF GameParameters, GameRequests
<1>4. req[s].do = "create" /\ req[s].at = "first"
  BY RequestOf DEF Service!FirstClient
<1>5. /\ req[s] \in GameRequests /\ Shape(req[s])
      /\ req[s].next \in 1..Len(req[s].names) /\ req[s].names[1] \in Names
      /\ ~messy => tasks = {} /\ \A t \in Slots \ {s} : req[t].do \in {"free", "join"}
  BY <1>4, CreatingRequest
<1>6. UNCHANGED <<agents, external, tasks, replaced, messy>>
  BY DEF Service!FirstClient, Service!History
<1>7. PICK r : r = [req[s] EXCEPT !.at = "wait", !.first = {conn}]
  OBVIOUS
<1>8. /\ r \in GameRequests /\ r.do = "create" /\ r.at = "wait"
      /\ r.names = req[s].names /\ r.next = req[s].next
  BY <1>4, <1>5, <1>7 DEF GameRequests, Stages
<1>9. Shape(r)
  BY <1>4, <1>5, <1>8 DEF Shape
<1>10. /\ req' \in [Slots -> GameRequests] /\ req'[s] = r
       /\ \A t \in Slots \ {s} : req'[t] = req[t]
  <2>1. GameTypes /\ req' = [req EXCEPT ![s] = r]
    BY <1>3, <1>7 DEF Inv, GameTypes
  <2> QED BY <1>8, <2>1, ReqSet
<1>11. /\ DOMAIN clients' = DOMAIN clients \cup {req[s].names[1]}
       /\ DOMAIN clients = {} => Service!Range(clients)' = {conn}
  <2>1. PICK n : n = req[s].names[1]
    OBVIOUS
  <2>2. clients' = Service!Put(clients, n, conn)
    BY <1>3, <2>1
  <2>3. DOMAIN Service!Put(clients, n, conn) = DOMAIN clients \cup {n} /\ Service!Put(clients, n, conn)[n] = conn
    BY DEF Service!Put, Service!Range
  <2>4. DOMAIN clients = {} => Service!Range(clients)' = {conn}
    BY <2>2, <2>3 DEF Service!Range
  <2> QED BY <2>1, <2>2, <2>3, <2>4
<1>12. GameTypes'
  BY <1>3, <1>5, <1>6, <1>10, <1>11 DEF Inv, GameTypes
<1>13. \A t \in Slots : Shape(req'[t])
  BY <1>9, <1>10 DEF Inv
<1>14. Service!AgentsHaveClients'
  BY <1>6, <1>11 DEF Inv, Service!AgentsHaveClients
<1>15. ASSUME ~messy
       PROVE  /\ DOMAIN clients = {} /\ DOMAIN agents = {} /\ server_port' = game
              /\ server_port # NoPort => server_port = game
              /\ open \subseteq Service!Range(external) \cup replaced
              /\ \A c \in Service!Range(external) : c.game = game
  <2>1. DOMAIN clients = {} /\ DOMAIN agents = {} /\ req[s].game = server_port
    BY <1>4, <1>15 DEF Inv, GamesInOrder, Orderly
  <2>2. Service!Registered = Service!Range(external)
    BY <2>1 DEF Service!Registered, Service!Range
  <2>3. server_port' = game /\ (server_port # NoPort => server_port = game)
    BY <1>3, <2>1
  <2>4. server_port = NoPort => Service!Range(external) = {}
    BY <1>15, <2>2 DEF Inv, GamesInOrder, PortKept
  <2>5. /\ open \subseteq Service!Range(external) \cup replaced
        /\ \A c \in Service!Range(external) : c.game = server_port
    BY <1>15, <2>2 DEF Inv, GamesInOrder, Service!GamesApart
  <2> QED BY <2>1, <2>3, <2>4, <2>5
<1>16. ASSUME ~messy PROVE Service!GamesApart' /\ PortKept'
  <2>1. Service!Range(clients)' = {conn}
    BY <1>11, <1>15, <1>16
  <2>2. Service!Range(agents)' = {} /\ Service!Range(external)' = Service!Range(external)
    BY <1>6, <1>15, <1>16 DEF Service!Range
  <2>3. Service!Registered' = {conn} \cup Service!Range(external)
    BY <2>1, <2>2 DEF Service!Registered
  <2>4. tasks' = {} /\ DOMAIN agents' = {}
    BY <1>5, <1>6, <1>15, <1>16
  <2>5. open' \subseteq Service!Registered' \cup replaced'
    BY <1>3, <1>6, <1>15, <1>16, <2>3
  <2>6. \A c \in Service!Registered' : c.game = server_port'
    BY <1>3, <1>15, <1>16, <2>3
  <2>7. Service!GamesApart'
    BY <2>4, <2>5, <2>6 DEF Service!GamesApart
  <2>8. PortKept'
    BY <1>3, <1>15, <1>16 DEF PortKept
  <2> QED BY <2>7, <2>8
<1>17. ASSUME ~messy, NEW t \in Slots
       PROVE  Orderly(t)'
  <2>1. CASE t # s
    <3>1. Shape(req'[t]) /\ req'[s].do # "join" /\ (server_port # NoPort => UNCHANGED server_port)
      BY <1>8, <1>10, <1>13, <1>15, <1>17
    <3> QED BY <1>4, <1>10, <1>17, <2>1, <3>1, OthersStay
  <2>2. CASE t = s
    <3>1. DOMAIN clients' \subseteq {r.names[j] : j \in 1..r.next}
      BY <1>5, <1>8, <1>11, <1>15, <1>17
    <3>2. tasks' = {} /\ \A u \in Slots \ {s} : req'[u].do \in {"free", "join"}
      BY <1>5, <1>6, <1>10, <1>17
    <3> QED BY <1>8, <1>10, <2>2, <3>1, <3>2 DEF Orderly, Service!Closing
  <2> QED BY <2>1, <2>2
<1>18. GamesInOrder'
  BY <1>6, <1>16, <1>17 DEF GamesInOrder, Service!GamesApart
<1> QED BY <1>12, <1>13, <1>14, <1>18 DEF Inv

LEMMA NextClientStep ==
  ASSUME GameParameters, Inv, NEW s \in Slots, Service!NextClient(s)
  PROVE  Inv'
<1>1. /\ req[s].do = "create" /\ req[s].at = "join" /\ req[s].game # NoPort
      /\ UNCHANGED <<agents, external, server_port, tasks, replaced, messy>>
  BY DEF Service!NextClient, Service!History
<1>2. /\ req[s] \in GameRequests /\ Shape(req[s]) /\ req[s].game \in Games
      /\ req[s].names \in Seq(Names) /\ Service!IsInjective(req[s].names)
      /\ req[s].next \in 1..Len(req[s].names) /\ req[s].names[req[s].next] \in Names
      /\ ~messy => tasks = {} /\ \A t \in Slots \ {s} : req[t].do \in {"free", "join"}
  BY <1>1, CreatingRequest DEF GameRequests
<1>3. PICK i \in Ids :
        LET conn == [id |-> i, game |-> req[s].game]
        IN /\ open' = open \cup {conn}
           /\ clients' = Service!Put(clients, req[s].names[req[s].next], conn)
           /\ req' = [req EXCEPT ![s].at = "pause"]
  BY DEF Service!NextClient, Service!Fresh
<1>4. PICK conn : conn = [id |-> i, game |-> req[s].game]
  OBVIOUS
<1>5. PICK n \in Names : n = req[s].names[req[s].next]
  BY <1>2
<1>6. /\ open' = open \cup {conn} /\ conn.game = req[s].game
      /\ clients' = Service!Put(clients, n, conn)
      /\ req' = [req EXCEPT ![s].at = "pause"]
  BY <1>3, <1>4, <1>5
<1>7. PICK r : r = [req[s] EXCEPT !.at = "pause"]
  OBVIOUS
<1>8. /\ r \in GameRequests /\ r.do = "create" /\ r.at = "pause"
      /\ r.names = req[s].names /\ r.next = req[s].next
  BY <1>1, <1>2, <1>7 DEF GameRequests, Stages
<1>9. Shape(r)
  BY <1>1, <1>2, <1>8 DEF Shape
<1>10. /\ req' \in [Slots -> GameRequests] /\ req'[s] = r
       /\ \A t \in Slots \ {s} : req'[t] = req[t]
  <2>1. GameTypes /\ req' = [req EXCEPT ![s] = r]
    BY <1>6, <1>7 DEF Inv, GameTypes
  <2> QED BY <1>8, <2>1, ReqSet
<1>11. /\ DOMAIN clients' = DOMAIN clients \cup {n}
       /\ \A m \in DOMAIN clients \ {n} : clients'[m] = clients[m]
       /\ n \notin DOMAIN clients => Service!Range(clients)' = Service!Range(clients) \cup {conn}
  <2> DEFINE put == Service!Put(clients, n, conn)
  <2>1. /\ DOMAIN put = DOMAIN clients \cup {n}
        /\ \A m \in DOMAIN clients \ {n} : put[m] = clients[m]
        /\ n \notin DOMAIN clients => Service!Range(put) = Service!Range(clients) \cup {conn}
    BY DEF Service!Put, Service!Range
  <2>2. clients' = put
    BY <1>6
  <2> HIDE DEF put
  <2> QED BY <2>1, <2>2
<1>12. GameTypes'
  BY <1>1, <1>10, <1>11 DEF Inv, GameTypes
<1>13. \A t \in Slots : Shape(req'[t])
  BY <1>9, <1>10 DEF Inv
<1>14. Service!AgentsHaveClients'
  BY <1>1, <1>11 DEF Inv, Service!AgentsHaveClients
<1>15. ASSUME ~messy
       PROVE  /\ n \notin DOMAIN clients /\ req[s].game = server_port
              /\ DOMAIN clients \subseteq {req[s].names[j] : j \in 1..req[s].next - 1}
  <2>1. /\ DOMAIN clients \subseteq {req[s].names[j] : j \in 1..req[s].next - 1}
        /\ req[s].game = server_port
    BY <1>1, <1>15 DEF Inv, GamesInOrder, Orderly
  <2>2. ASSUME NEW j \in 1..req[s].next - 1 PROVE req[s].names[j] # n
    <3>1. j \in DOMAIN req[s].names /\ req[s].next \in DOMAIN req[s].names /\ j # req[s].next
      BY <1>2
    <3> QED BY <1>2, <1>5, <3>1 DEF Service!IsInjective
  <2> QED BY <2>1, <2>2
<1>16. ASSUME ~messy PROVE Service!GamesApart' /\ PortKept'
  <2>1. Service!Registered' = Service!Registered \cup {conn}
    BY <1>1, <1>11, <1>15, <1>16 DEF Service!Registered
  <2>2. Service!GamesApart /\ Service!AgentsHaveClients
    BY DEF Inv, GamesInOrder
  <2>3. open' \subseteq Service!Registered' \cup replaced'
    BY <1>1, <1>6, <1>16, <2>1, <2>2 DEF Service!GamesApart
  <2>4. \A c \in Service!Registered' : c.game = server_port'
    BY <1>1, <1>6, <1>15, <1>16, <2>1, <2>2 DEF Service!GamesApart
  <2>5. \A m \in DOMAIN agents' : agents'[m] = clients'[m]
    BY <1>1, <1>11, <1>15, <1>16, <2>2 DEF Service!GamesApart, Service!AgentsHaveClients
  <2>6. tasks' = {}
    BY <1>1, <1>2, <1>16
  <2>7. PortKept'
    BY <1>1, <1>15, <1>16 DEF PortKept
  <2> QED BY <2>3, <2>4, <2>5, <2>6, <2>7 DEF Service!GamesApart
<1>17. ASSUME ~messy, NEW t \in Slots
       PROVE  Orderly(t)'
  <2>1. CASE t # s
    <3>1. Shape(req'[t]) /\ req'[s].do # "join"
      BY <1>8, <1>10, <1>13
    <3> QED BY <1>1, <1>10, <1>17, <2>1, <3>1, OthersStay
  <2>2. CASE t = s
    <3>1. DOMAIN clients' \subseteq {r.names[j] : j \in 1..r.next}
      <4>1. 1..req[s].next - 1 \subseteq 1..req[s].next /\ req[s].next \in 1..req[s].next
        BY <1>2
      <4> QED BY <1>5, <1>8, <1>11, <1>15, <1>17, <4>1
    <3>2. tasks' = {} /\ \A u \in Slots \ {s} : req'[u].do \in {"free", "join"}
      BY <1>1, <1>2, <1>10, <1>17
    <3> QED BY <1>8, <1>10, <2>2, <3>1, <3>2 DEF Orderly, Service!Closing
  <2> QED BY <2>1, <2>2
<1>18. GamesInOrder'
  BY <1>1, <1>16, <1>17 DEF GamesInOrder, Service!GamesApart
<1> QED BY <1>12, <1>13, <1>14, <1>18 DEF Inv

LEMMA MakeAgentsStep ==
  ASSUME GameParameters, Inv, NEW s \in Slots, Service!MakeAgents(s)
  PROVE  Inv'
<1>1. req[s].at = "agree" /\ req[s].do = "create"
  BY RequestOf DEF Service!MakeAgents
<1>2. /\ req[s] \in GameRequests /\ Shape(req[s])
      /\ ~messy => tasks = {} /\ \A t \in Slots \ {s} : req[t].do \in {"free", "join"}
  BY <1>1, CreatingRequest
<1>3. UNCHANGED <<clients, external, server_port, tasks, open, replaced, messy>>
  BY DEF Service!MakeAgents, Service!History
<1>4. PICK made \in SUBSET DOMAIN clients :
        agents' = [n \in DOMAIN agents \cup made |-> IF n \in made THEN clients[n] ELSE agents[n]]
  <2> DEFINE names == req[s].names
  <2> DEFINE seated == {k \in DOMAIN names : \A j \in 1..k : names[j] \in DOMAIN clients}
  <2> DEFINE made == {names[k] : k \in seated}
  <2>1. made \in SUBSET DOMAIN clients
    <3>1. names \in Seq(Names)
      BY <1>2 DEF GameRequests
    <3>2. \A k \in seated : k \in 1..k
      BY <3>1
    <3> QED BY <3>2
  <2>2. agents' = [n \in DOMAIN agents \cup made |-> IF n \in made THEN clients[n] ELSE agents[n]]
    BY DEF Service!MakeAgents
  <2> HIDE DEF made
  <2> QED BY <2>1, <2>2
<1>5. PICK r : /\ req' = [req EXCEPT ![s] = r]
               /\ r = Service!Free \/ r = [req[s] EXCEPT !.at = "start", !.size = Service!Cardinality(DOMAIN clients)]
  BY DEF Service!MakeAgents, Service!Ends, Inv, GameTypes
<1>6. r \in GameRequests /\ Shape(r) /\ r.do \in {"free", "create"} /\ r.at \in {"free", "start"}
  <2>1. CASE r = Service!Free
    BY <2>1, FreeType
  <2>2. CASE r = [req[s] EXCEPT !.at = "start", !.size = Service!Cardinality(DOMAIN clients)]
    <3>1. PICK C \in Sizes : C = Service!Cardinality(DOMAIN clients)
      BY DEF Sizes, Inv, GameTypes
    <3>2. r = [req[s] EXCEPT !.at = "start", !.size = C]
      BY <2>2, <3>1
    <3> QED BY <1>1, <1>2, <3>2 DEF GameRequests, Stages, Shape
  <2> QED BY <1>5, <2>1, <2>2
<1>7. /\ req' \in [Slots -> GameRequests] /\ req'[s] = r
      /\ \A t \in Slots \ {s} : req'[t] = req[t]
  BY <1>5, <1>6, ReqSet DEF Inv
<1>8. DOMAIN agents' = DOMAIN agents \cup made
  BY <1>4
<1>9. GameTypes'
  BY <1>3, <1>7, <1>8 DEF Inv, GameTypes
<1>10. \A t \in Slots : Shape(req'[t])
  BY <1>6, <1>7 DEF Inv
<1>11. Service!AgentsHaveClients'
  BY <1>3, <1>8 DEF Inv, Service!AgentsHaveClients
<1>12. ASSUME ~messy PROVE Service!GamesApart' /\ PortKept'
  <2>1. Service!GamesApart /\ Service!AgentsHaveClients /\ PortKept
    BY <1>12 DEF Inv, GamesInOrder
  <2>2. \A n \in DOMAIN agents : agents[n] = clients[n] /\ n \in DOMAIN clients
    BY <1>12, <2>1 DEF Service!GamesApart, Service!AgentsHaveClients
  <2>3. \A n \in DOMAIN agents' : agents'[n] = clients[n] /\ n \in DOMAIN clients
    BY <1>4, <2>2
  <2>4. /\ Service!Range(agents) \subseteq Service!Range(clients)
        /\ Service!Range(agents)' \subseteq Service!Range(clients)
    BY <2>2, <2>3 DEF Service!Range
  <2>5. Service!Range(clients)' = Service!Range(clients) /\ Service!Range(external)' = Service!Range(external)
    BY <1>3
  <2>6. Service!Registered' = Service!Registered
    BY <2>4, <2>5 DEF Service!Registered
  <2> QED BY <1>2, <1>3, <1>12, <2>1, <2>3, <2>6 DEF Service!GamesApart, PortKept
<1>13. ASSUME ~messy, NEW t \in Slots
       PROVE  Orderly(t)'
  <2>1. CASE t # s
    <3>1. Shape(req'[t]) /\ req'[s].do # "join"
      BY <1>6, <1>7, <1>10
    <3> QED BY <1>1, <1>3, <1>7, <1>13, <2>1, <3>1, OthersStay
  <2>2. CASE t = s
    <3>1. tasks' = {} /\ \A u \in Slots \ {s} : req'[u].do \in {"free", "join"}
      BY <1>2, <1>3, <1>7, <1>13
    <3> QED BY <1>6, <1>7, <2>2, <3>1 DEF Orderly, Service!Closing
  <2> QED BY <2>1, <2>2
<1>14. GamesInOrder'
  BY <1>3, <1>12, <1>13 DEF GamesInOrder, Service!GamesApart
<1> QED BY <1>9, <1>10, <1>11, <1>14 DEF Inv

LEMMA BeginLoopsStep ==
  ASSUME GameParameters, Inv, NEW s \in Slots, Service!BeginLoops(s)
  PROVE  Inv'
<1>1. req[s].at = "loops" /\ req[s].do = "create"
  BY RequestOf DEF Service!BeginLoops
<1>2. ~messy => tasks = {}
  BY <1>1, CreatingRequest
<1>3. /\ UNCHANGED <<agents, clients, external, server_port, open, replaced, messy>>
      /\ tasks' = tasks \cup {[conn |-> c, by |-> s] : c \in Service!Range(agents)}
      /\ req' = [req EXCEPT ![s] = Service!Free]
  BY DEF Service!BeginLoops, Service!Ends, Service!History
<1>4. /\ req' \in [Slots -> GameRequests] /\ req'[s] = Service!Free
      /\ \A t \in Slots \ {s} : req'[t] = req[t]
  BY <1>3, FreeType, ReqSet DEF Inv
<1>5. GameTypes' /\ \A t \in Slots : Shape(req'[t])
  BY <1>3, <1>4, FreeType DEF Inv, GameTypes
<1>6. Service!AgentsHaveClients'
  BY <1>3 DEF Inv, Service!AgentsHaveClients
<1>7. ASSUME ~messy PROVE Service!GamesApart' /\ PortKept'
  <2>1. /\ \A t \in tasks' : t.conn \in Service!Range(agents)
        /\ \A t, u \in tasks' : t.conn = u.conn => t = u
    BY <1>2, <1>3, <1>7
  <2>2. Service!Range(agents)' = Service!Range(agents) /\ Service!Registered' = Service!Registered
    BY <1>3 DEF Service!Registered
  <2> QED BY <1>3, <1>7, <2>1, <2>2 DEF Inv, GamesInOrder, Service!GamesApart, PortKept
<1>8. ASSUME ~messy, NEW t \in Slots
      PROVE  Orderly(t)'
  <2>1. CASE t # s
    BY <1>1, <1>3, <1>4, <1>5, <1>8, <2>1, FreeType, OthersStay
  <2>2. CASE t = s
    BY <1>4, <1>5, <2>2, FreeType, IdleOrderly
  <2> QED BY <2>1, <2>2
<1>9. GamesInOrder'
  BY <1>3, <1>7, <1>8 DEF GamesInOrder, Service!GamesApart
<1> QED BY <1>5, <1>6, <1>9 DEF Inv

-----------------------------------------------------------------------------
(* Who joins from outside.                                                 *)

LEMMA JoinGameStep ==
  ASSUME Inv, NEW s \in Slots, NEW name \in Joiners, Service!JoinGame(s, name)
  PROVE  Inv'
<1>1. /\ Service!Begins(s) /\ server_port # NoPort /\ name \notin DOMAIN clients \cup DOMAIN external
      /\ messy' = (\E t \in Service!Others(s) : Service!Closing(t))
      /\ UNCHANGED <<agents, clients, external, server_port, tasks, open, replaced>>
  BY DEF Service!JoinGame, Service!Tables
<1>2. PICK r : r = [Service!Free EXCEPT !.do = "join", !.at = "join", !.names = <<name>>, !.game = server_port]
  OBVIOUS
<1>3. <<name>> \in Seq(Names) /\ server_port \in Games \cup {NoPort}
  BY DEF Names, Inv, GameTypes
<1>4. /\ r \in GameRequests /\ r.do = "join" /\ r.at = "join" /\ r.names = <<name>>
      /\ r.game = server_port
  BY <1>2, <1>3, FreeType DEF GameRequests, Kinds, Stages
<1>5. Shape(r) /\ r.names[1] = name
  BY <1>1, <1>4 DEF Shape
<1>6. /\ req' \in [Slots -> GameRequests] /\ req'[s] = r
      /\ \A t \in Slots \ {s} : req'[t] = req[t]
  <2>1. req' = [req EXCEPT ![s] = r] /\ GameTypes
    BY <1>2 DEF Service!JoinGame, Inv
  <2> QED BY <1>4, <2>1, ReqSet
<1>7. GameTypes' /\ \A t \in Slots : Shape(req'[t])
  BY <1>1, <1>5, <1>6 DEF Inv, GameTypes
<1>8. Service!AgentsHaveClients'
  BY <1>1 DEF Inv, Service!AgentsHaveClients
<1>9. Service!Registered' = Service!Registered
  BY <1>1 DEF Service!Registered
<1>10. ~messy
  BY <1>1 DEF Service!Begins
<1>11. Service!GamesApart' /\ PortKept'
  BY <1>1, <1>9, <1>10 DEF Inv, GamesInOrder, Service!GamesApart, PortKept
<1>12. ASSUME ~messy', NEW t \in Slots
       PROVE  Orderly(t)'
  <2>1. Orderly(t) /\ Shape(req[t])
    BY <1>10 DEF Inv, GamesInOrder
  <2>2. \A u \in Slots \ {s} : Service!Busy(u) => ~Service!Closing(u)
    BY <1>1, <1>12 DEF Service!Others
  <2>3. CASE t = s
    BY <1>1, <1>4, <1>6, <2>3 DEF Orderly, Service!Closing
  <2>4. CASE t # s /\ ~Service!Busy(t)
    BY <1>6, <1>7, <2>4, IdleOrderly DEF Service!Busy
  <2>5. CASE t # s /\ Service!Busy(t)
    <3>1. req'[t] = req[t] /\ ~Service!Closing(t) /\ ~Service!Closing(t)'
      BY <1>6, <2>2, <2>5 DEF Service!Closing
    <3>2. ASSUME req[t].do \in {"create", "delete"}
          PROVE  tasks' = {} /\ \A u \in Slots \ {t} : req'[u].do \in {"free", "join"}
      BY <1>1, <1>4, <1>6, <2>1, <3>2 DEF Orderly
    <3> QED BY <1>1, <2>1, <3>1, <3>2 DEF Orderly
  <2> QED BY <2>3, <2>4, <2>5
<1>13. GamesInOrder'
  BY <1>11, <1>12 DEF GamesInOrder, Service!GamesApart
<1> QED BY <1>7, <1>8, <1>13 DEF Inv

LEMMA JoinedStep ==
  ASSUME GameParameters, Inv, NEW s \in Slots, Service!Joined(s)
  PROVE  Inv'
<1>1. /\ req[s].do = "join" /\ req' = [req EXCEPT ![s] = Service!Free]
      /\ UNCHANGED <<agents, clients, server_port, tasks, messy>>
  BY DEF Service!Joined, Service!Ends
<1>2. /\ req[s] \in GameRequests /\ Shape(req[s]) /\ Service!Busy(s) /\ req[s].game # NoPort
      /\ req[s].names \in Seq(Names) /\ req[s].names = <<req[s].names[1]>>
  BY <1>1, RequestOf DEF Shape, GameRequests, Service!Busy
<1>3. PICK i \in Ids :
        LET conn == [id |-> i, game |-> req[s].game]
        IN open' = open \cup {conn} /\ external' = Service!Put(external, req[s].names[1], conn)
  BY DEF Service!Joined, Service!Fresh
<1>4. PICK conn : conn = [id |-> i, game |-> req[s].game]
  OBVIOUS
<1>5. PICK n \in Names : n = req[s].names[1]
  BY <1>2
<1>6. open' = open \cup {conn} /\ external' = Service!Put(external, n, conn) /\ conn.game = req[s].game
  BY <1>3, <1>4, <1>5
<1>7. /\ req' \in [Slots -> GameRequests] /\ req'[s] = Service!Free
      /\ \A t \in Slots \ {s} : req'[t] = req[t]
  BY <1>1, FreeType, ReqSet DEF Inv
<1>8. /\ DOMAIN external' = DOMAIN external \cup {n}
      /\ conn \in Service!Range(external)' /\ Service!Range(external)' \subseteq Service!Range(external) \cup {conn}
      /\ Service!Range(external) \subseteq Service!Range(external)' \cup {external[m] : m \in {n} \cap DOMAIN external}
  <2> DEFINE put == Service!Put(external, n, conn)
  <2>1. DOMAIN put = DOMAIN external \cup {n} /\ put[n] = conn /\ \A m \in DOMAIN external \ {n} : put[m] = external[m]
    BY DEF Service!Put
  <2>2. external' = put
    BY <1>6
  <2> HIDE DEF put
  <2>3. Service!Range(external) = {external[m] : m \in DOMAIN external} /\ Service!Range(put) = {put[m] : m \in DOMAIN put}
    BY DEF Service!Range
  <2> QED BY <2>1, <2>2, <2>3
<1>9. GameTypes' /\ \A t \in Slots : Shape(req'[t])
  BY <1>1, <1>7, <1>8, FreeType DEF Inv, GameTypes
<1>10. Service!AgentsHaveClients'
  BY <1>1 DEF Inv, Service!AgentsHaveClients
<1>11. replaced' = replaced \cup {external[m] : m \in {n} \cap DOMAIN external}
  BY <1>5 DEF Service!Joined
<1>12. ASSUME ~messy PROVE Service!GamesApart' /\ PortKept'
  <2>1. req[s].game = server_port
    BY <1>1, <1>12 DEF Inv, GamesInOrder, Orderly
  <2>2. /\ conn \in Service!Registered' /\ Service!Registered' \subseteq Service!Registered \cup {conn}
        /\ Service!Registered \subseteq Service!Registered' \cup replaced'
    BY <1>1, <1>8, <1>11 DEF Service!Registered
  <2>3. Service!GamesApart
    BY DEF Inv, GamesInOrder
  <2>4. open' \subseteq Service!Registered' \cup replaced'
    BY <1>6, <1>11, <1>12, <2>2, <2>3 DEF Service!GamesApart
  <2>5. \A c \in Service!Registered' : c.game = server_port'
    BY <1>1, <1>6, <1>12, <2>1, <2>2, <2>3 DEF Service!GamesApart
  <2>6. Service!Range(agents)' = Service!Range(agents)
    BY <1>1
  <2>7. PortKept'
    BY <1>1, <1>2, <2>1 DEF PortKept
  <2> QED BY <1>1, <1>12, <2>3, <2>4, <2>5, <2>6, <2>7 DEF Service!GamesApart
<1>13. ASSUME ~messy, NEW t \in Slots
       PROVE  Orderly(t)'
  <2>1. Orderly(t) /\ Shape(req[t])
    BY <1>13 DEF Inv, GamesInOrder
  <2>2. CASE t = s
    BY <1>7, <1>9, <2>2, FreeType, IdleOrderly
  <2>3. CASE t # s
    <3>1. s \in Service!Others(t) /\ req'[t] = req[t]
      BY <1>2, <1>7, <2>3 DEF Service!Others
    <3>2. ~Service!Closing(t)
      BY <1>13, <2>1, <3>1 DEF Orderly
    <3>3. ~Service!Closing(t)'
      BY <3>1, <3>2 DEF Service!Closing
    <3>4. ASSUME req[t].do \in {"create", "delete"}
          PROVE  tasks' = {} /\ \A u \in Slots \ {t} : req'[u].do \in {"free", "join"}
      BY <1>1, <1>7, <2>1, <3>4, FreeType DEF Orderly
    <3> QED BY <1>1, <2>1, <3>1, <3>2, <3>3, <3>4 DEF Orderly
  <2> QED BY <2>2, <2>3
<1>14. GamesInOrder'
  BY <1>1, <1>12, <1>13 DEF GamesInOrder, Service!GamesApart
<1> QED BY <1>9, <1>10, <1>14 DEF Inv

-----------------------------------------------------------------------------
(* The invariant and what follows.                                         *)

LEMMA StutterStep ==
  ASSUME Inv, UNCHANGED Service!vars
  PROVE  Inv'
<1>1. UNCHANGED <<agents, clients, external, server_port, tasks, open, req, replaced, messy>>
  BY DEF Service!vars
<1>2. GameTypes' /\ (\A s \in Slots : Shape(req'[s])) /\ Service!AgentsHaveClients'
  BY <1>1 DEF Inv, GameTypes, Service!AgentsHaveClients
<1>3. Service!Registered' = Service!Registered
  BY <1>1 DEF Service!Registered
<1>4. Service!GamesApart' /\ (~messy' => PortKept')
  BY <1>1, <1>3 DEF Inv, GamesInOrder, Service!GamesApart, PortKept
<1>5. ASSUME ~messy', NEW s \in Slots
      PROVE  Orderly(s)'
  <2>1. Orderly(s)
    BY <1>1, <1>5 DEF Inv, GamesInOrder
  <2>2. Service!Others(s)' = Service!Others(s) /\ Service!Closing(s)' = Service!Closing(s)
    BY <1>1 DEF Service!Others, Service!Busy, Service!Closing
  <2> QED BY <1>1, <1>3, <2>1, <2>2 DEF Orderly, Closed
<1> QED BY <1>2, <1>4, <1>5 DEF Inv, GamesInOrder

LEMMA GamesInitInv ==
  ASSUME Service!Init
  PROVE  Inv
<1>1. req \in [Slots -> GameRequests] /\ \A s \in Slots : req[s] = Service!Free
  BY FreeType DEF Service!Init
<1>2. DOMAIN agents = {} /\ DOMAIN clients = {} /\ DOMAIN external = {} /\ Service!Registered = {}
  BY NothingIsEmpty DEF Service!Init, Service!Registered
<1>3. GameTypes /\ Service!AgentsHaveClients
  BY <1>1, <1>2 DEF Service!Init, GameTypes, Service!AgentsHaveClients
<1>4. \A s \in Slots : Shape(req[s])
  BY <1>1, FreeType
<1>5. Service!GamesApart /\ PortKept
  BY <1>2, NothingIsEmpty DEF Service!Init, Service!GamesApart, PortKept
<1>6. \A s \in Slots : Orderly(s)
  BY <1>1, FreeType DEF Orderly, Service!Closing
<1> QED BY <1>3, <1>4, <1>5, <1>6 DEF Inv, GamesInOrder

LEMMA NextInv ==
  ASSUME GameParameters, Inv, [Service!Next]_Service!vars
  PROVE  Inv'
<1>1. CASE UNCHANGED Service!vars
  BY <1>1, StutterStep
<1>2. ASSUME NEW s \in Slots, Service!DeleteGame(s) \/ Service!CloseNext(s) PROVE Inv'
  BY <1>2, DeleteGameStep, CloseNextStep
<1>3. ASSUME NEW s \in Slots, NEW names \in Configs, NEW game \in Games \cup {NoPort},
             Service!CreateGame(s, names, game)
      PROVE  Inv'
  BY <1>3, CreateGameStep
<1>4. ASSUME NEW s \in Slots,
             Service!FirstClient(s) \/ Service!FirstLost(s) \/ Service!FirstConnected(s)
               \/ Service!NextClient(s) \/ Service!Pauses(s) \/ Service!Fails(s)
      PROVE  Inv'
  BY <1>4, FirstClientStep, FirstLostStep, FirstConnectedStep, NextClientStep, PausesStep, FailsStep
<1>5. ASSUME NEW s \in Slots, Service!MakeAgents(s) \/ Service!StartGame(s) \/ Service!BeginLoops(s) PROVE Inv'
  BY <1>5, MakeAgentsStep, StartGameStep, BeginLoopsStep
<1>6. ASSUME NEW s \in Slots, NEW name \in Joiners, Service!JoinGame(s, name) PROVE Inv'
  BY <1>6, JoinGameStep
<1>7. ASSUME NEW s \in Slots, Service!Joined(s) PROVE Inv'
  BY <1>7, JoinedStep
<1> QED BY <1>1, <1>2, <1>3, <1>4, <1>5, <1>6, <1>7 DEF Service!Next

\* The invariant holds however the coroutines of multi_main.py's requests let
\* each other run: what a creation, a shutdown and a join rely on at each of
\* their awaits while nothing met out of order.
THEOREM GamesInvariant ==
  ASSUME GameParameters
  PROVE  Service!Spec => []Inv
<1>1. Service!Init => Inv
  BY GamesInitInv
<1>2. Inv /\ [Service!Next]_Service!vars => Inv'
  BY NextInv
<1> QED BY <1>1, <1>2, PTL DEF Service!Spec

\* An agent's name always has its client, whatever requests meet; and unless
\* requests met out of order, or a creation followed a failed one, no connection
\* is open that a shutdown would not close but one whose name a second join
\* took, all others are to the server whose port is noted, and an agent is
\* played by one loop at most (create_game, shutdown and api_join_game of
\* multi_main.py).
THEOREM GamesAreSound ==
  ASSUME GameParameters
  PROVE  Service!Spec => []Service!GamesSound
<1>1. Inv => Service!GamesSound
  BY DEF Inv, GamesInOrder, Service!GamesSound
<1> QED BY <1>1, GamesInvariant, PTL
=============================================================================
