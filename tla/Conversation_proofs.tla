------------------------- MODULE Conversation_proofs -------------------------
(***************************************************************************)
(* What every conversation satisfies, for every length and bound: no tool  *)
(* message loses the call it answers.  And, when no loop is cut short,     *)
(* that every call has its results when the LLM is called, and that the    *)
(* conversation stays below the trimming length.                           *)
(***************************************************************************)
EXTENDS Conversation, SequenceTheorems, WellFoundedInduction, TLAPS

\* A nonempty set of naturals has a least element.
LEMMA Least ==
  ASSUME NEW T, T \subseteq Nat, T # {}
  PROVE  \E x \in T : \A y \in T : x <= y
<1>1. PICK x \in T : \A y \in T : <<y, x>> \notin OpToRel(<, Nat)
  BY WFMin, NatLessThanWellFounded, Zenon
<1>2. \A y \in T : <<y, x>> \in Nat \X Nat
  OBVIOUS
<1>3. \A y \in T : ~(y < x)
  BY <1>1, <1>2, Zenon DEF OpToRel
<1>4. \A y \in T : x <= y
  <2> x \in Nat /\ \A y \in T : y \in Nat
    OBVIOUS
  <2> QED BY <1>3, SMT
<1> QED BY <1>4

-----------------------------------------------------------------------------
(* The parts of the invariant, as predicates of a conversation.            *)

\* A tool message comes right after a call or another tool message.
Follows(q) ==
  \A i \in 1..Len(q) : q[i].role = "tool" =>
    /\ i > 1
    /\ \/ q[i - 1].role = "tool"
       \/ q[i - 1].role = "assistant" /\ q[i - 1].calls > 0

\* It begins with the system message, and only replies make calls.
Headed(q) ==
  /\ Len(q) > 0 /\ q[1] = Message("system")
  /\ \A i \in 1..Len(q) : q[i].calls > 0 => q[i].role = "assistant"

LEMMA LeadingToolsDef ==
  ASSUME NEW q \in Seq(Messages)
  PROVE  /\ LeadingTools(q) \in 0..Len(q)
         /\ \A i \in 1..LeadingTools(q) : q[i].role = "tool"
         /\ LeadingTools(q) < Len(q) => q[LeadingTools(q) + 1].role # "tool"
<1> DEFINE T == {n \in 0..Len(q) : n < Len(q) => q[n + 1].role # "tool"}
<1>0. Len(q) \in Nat
  OBVIOUS
<1>1. T \subseteq Nat /\ Len(q) \in T
  BY <1>0
<1>2. PICK n \in T : \A y \in T : n <= y
  <2> HIDE DEF T
  <2> QED BY <1>1, Least
<1>3. n \in 0..Len(q) /\ (n < Len(q) => q[n + 1].role # "tool")
  OBVIOUS
<1>4. ASSUME NEW i \in 1..n PROVE q[i].role = "tool"
  <2>1. i - 1 \in 0..Len(q) /\ ~(n <= i - 1)
    BY <1>0, <1>3
  <2>2. i - 1 \notin T
    BY <1>2, <2>1
  <2>3. (i - 1) + 1 = i
    OBVIOUS
  <2> QED BY <2>1, <2>2, <2>3
<1>5. \E m \in 0..Len(q) : /\ \A i \in 1..m : q[i].role = "tool"
                           /\ m < Len(q) => q[m + 1].role # "tool"
  BY <1>3, <1>4
<1> QED BY <1>5 DEF LeadingTools

LEMMA BeforeRepliesDef ==
  ASSUME NEW q \in Seq(Messages)
  PROVE  /\ BeforeReplies(q) \in 0..Len(q)
         /\ BeforeReplies(q) > 0 => q[BeforeReplies(q)].role \notin {"tool", "assistant"}
         /\ \A i \in BeforeReplies(q) + 1..Len(q) : q[i].role \in {"tool", "assistant"}
<1> DEFINE Reply(i) == q[i].role \in {"tool", "assistant"}
           T == {d \in 0..Len(q) : d < Len(q) => ~Reply(Len(q) - d)}
<1>0. Len(q) \in Nat
  OBVIOUS
<1>1. T \subseteq Nat /\ Len(q) \in T
  BY <1>0
<1>2. PICK d \in T : \A y \in T : d <= y
  <2> HIDE DEF T
  <2> QED BY <1>1, Least
<1>3. d \in 0..Len(q) /\ (d < Len(q) => ~Reply(Len(q) - d))
  OBVIOUS
<1> DEFINE n == Len(q) - d
<1>4. n \in 0..Len(q) /\ (n > 0 => ~Reply(n))
  BY <1>0, <1>3
<1>5. ASSUME NEW i \in n + 1..Len(q) PROVE Reply(i)
  <2>1. Len(q) - i \in 0..Len(q) /\ ~(d <= Len(q) - i) /\ Len(q) - i < Len(q)
    BY <1>0, <1>3
  <2>2. Len(q) - i \notin T
    BY <1>2, <2>1
  <2>3. Len(q) - (Len(q) - i) = i
    BY <1>0
  <2> HIDE DEF n
  <2> QED BY <2>1, <2>2, <2>3
<1>6. \E m \in 0..Len(q) : /\ m > 0 => q[m].role \notin {"tool", "assistant"}
                           /\ \A i \in m + 1..Len(q) : q[i].role \in {"tool", "assistant"}
  <2> HIDE DEF n
  <2> QED BY <1>4, <1>5
<1> QED BY <1>6 DEF BeforeReplies

\* A trimmed conversation is the system message and a suffix of the old one
\* that does not begin with a result.
LEMMA TrimShape ==
  ASSUME NEW q \in Seq(Messages), Len(q) > TrimAt
  PROVE  \E m \in 2..Len(q) + 1 :
           /\ Trim(q) = <<q[1]>> \o SubSeq(q, m, Len(q))
           /\ m <= Len(q) => q[m].role # "tool"
           /\ Len(q) - m + 1 <= Keep
<1> DEFINE L == Len(q)
           recent == SubSeq(q, L - Keep + 1, L)
           k == LeadingTools(recent)
           m == L - Keep + 1 + k
<1>0. L \in Nat /\ Keep \in Nat /\ Keep > 0 /\ Keep < L
  BY ConversationAssumption
<1>1. /\ recent \in Seq(Messages)
      /\ Len(recent) = Keep
      /\ \A i \in 1..Keep : recent[i] = q[L - Keep + i]
  <2>1. L - Keep + 1 \in 1..L + 1 /\ L \in L - Keep..L /\ L - (L - Keep + 1) + 1 = Keep
    BY <1>0
  <2>2. \A i \in 1..Keep : (L - Keep + 1) + i - 1 = L - Keep + i
    BY <1>0
  <2>3. \A i \in L - Keep + 1..L : q[i] \in Messages
    BY <1>0, ElementOfSeq
  <2> HIDE DEF L
  <2> QED BY <1>0, <2>1, <2>2, <2>3
<1>2. /\ k \in 0..Keep
      /\ k < Keep => recent[k + 1].role # "tool"
  <2> HIDE DEF recent
  <2> QED BY <1>1, LeadingToolsDef
<1>3. m \in 2..L + 1 /\ L - m + 1 <= Keep
  <2> HIDE DEF L, k
  <2> QED BY <1>0, <1>2
<1>4. m <= L => q[m].role # "tool"
  <2>1. m <= L => k + 1 \in 1..Keep /\ L - Keep + (k + 1) = m /\ k < Keep
    <3> HIDE DEF L, k
    <3> QED BY <1>0, <1>2
  <2> HIDE DEF m, k, recent, L
  <2> QED BY <1>1, <1>2, <2>1
<1>5. SubSeq(recent, k + 1, Keep) = SubSeq(q, m, L)
  <2>1. CASE k = Keep
    <3>1. Keep < k + 1 /\ L < m /\ k + 1 \in Int /\ Keep \in Int /\ L \in Int /\ m \in Int
      <4> HIDE DEF L, k
      <4> QED BY <1>0, <1>2, <2>1
    <3> HIDE DEF recent, k, m, L
    <3> QED BY <3>1, SubSeqEmpty
  <2>2. CASE k < Keep
    <3> DEFINE i == L - Keep + 1
               a == k + 1
    <3>1. /\ i \in 1..L /\ L \in 1..L
          /\ a \in 1..L - i + 1
          /\ Keep \in 1..L - i + 1
          /\ i + a - 1 = m
          /\ i + Keep - 1 = L
      <4> HIDE DEF L, k
      <4> QED BY <1>0, <1>2, <2>2
    <3>2. recent = SubSeq(q, i, L)
      OBVIOUS
    <3> HIDE DEF recent, i, a, m
    <3>3. SubSeq(SubSeq(q, i, L), a, Keep) = SubSeq(q, i + a - 1, i + Keep - 1)
      BY <3>1, SubSeqOfSubSeq
    <3> QED BY <3>1, <3>2, <3>3 DEF a
  <2>3. k = Keep \/ k < Keep
    <3> HIDE DEF k
    <3> QED BY <1>0, <1>2
  <2> HIDE DEF k, m, L, recent
  <2> QED BY <2>1, <2>2, <2>3
<1>6. Trim(q) = <<q[1]>> \o SubSeq(q, m, L)
  <2>1. ~(Len(q) <= TrimAt)
    BY ConversationAssumption, <1>0
  <2> QED BY <1>5, <2>1 DEF Trim
<1> HIDE DEF m
<1> QED BY <1>3, <1>4, <1>6

\* A rollback leaves a prefix that does not end with a reply or a result.
LEMMA RollbackShape ==
  ASSUME NEW q \in Seq(Messages), Headed(q)
  PROVE  \E n \in 1..Len(q) :
           /\ Rollback(q) = SubSeq(q, 1, n)
           /\ q[n].role \notin {"tool", "assistant"}
<1> DEFINE n == BeforeReplies(q)
<1>1. /\ n \in 0..Len(q)
      /\ n > 0 => q[n].role \notin {"tool", "assistant"}
      /\ \A i \in n + 1..Len(q) : q[i].role \in {"tool", "assistant"}
  BY BeforeRepliesDef
<1> HIDE DEF n
<1>2. n # 0
  BY <1>1 DEF Headed, Message
<1> QED BY <1>1, <1>2 DEF Rollback, n

\* Elements, length and type of a prefix.
LEMMA Prefix ==
  ASSUME NEW q \in Seq(Messages), NEW n \in 1..Len(q)
  PROVE  /\ SubSeq(q, 1, n) \in Seq(Messages)
         /\ Len(SubSeq(q, 1, n)) = n
         /\ \A i \in 1..n : SubSeq(q, 1, n)[i] = q[i]
<1>1. \A i \in 1..n : q[i] \in Messages
  BY ElementOfSeq
<1>2. n \in Int /\ 1 \in Int /\ 1 <= n /\ n - 1 + 1 = n
  OBVIOUS
<1>3. \A i \in 1..n : 1 + i - 1 = i
  OBVIOUS
<1>4. /\ SubSeq(q, 1, n) \in Seq(Messages)
      /\ Len(SubSeq(q, 1, n)) = n - 1 + 1
      /\ \A i \in 1..n - 1 + 1 : SubSeq(q, 1, n)[i] = q[1 + i - 1]
  BY <1>1, <1>2, SubSeqProperties
<1> QED BY <1>2, <1>3, <1>4

\* Elements, length and type of a conversation cut down to its head and the
\* messages from m on.
LEMMA HeadAndSuffix ==
  ASSUME NEW q \in Seq(Messages), Len(q) > 0, NEW m \in 2..Len(q) + 1
  PROVE  LET t == <<q[1]>> \o SubSeq(q, m, Len(q))
         IN  /\ t \in Seq(Messages)
             /\ Len(t) = Len(q) - m + 2
             /\ t[1] = q[1]
             /\ \A i \in 2..Len(t) : t[i] = q[m + i - 2]
<1> DEFINE L == Len(q)
           u == SubSeq(q, m, L)
           t == <<q[1]>> \o u
<1>0. L \in Nat /\ m \in 2..L + 1
  OBVIOUS
<1>1. /\ u \in Seq(Messages)
      /\ Len(u) = L - m + 1
      /\ \A i \in 1..L - m + 1 : u[i] = q[m + i - 1]
  <2>1. \A i \in m..L : q[i] \in Messages
    <3>1. m..L \subseteq 1..L
      <4> HIDE DEF L
      <4> QED BY <1>0
    <3> QED BY <3>1, ElementOfSeq
  <2>2. m \in Int /\ L \in Int /\ (IF m <= L THEN L - m + 1 ELSE 0) = L - m + 1
    <3> HIDE DEF L
    <3> QED BY <1>0
  <2> HIDE DEF L
  <2> QED BY <2>1, <2>2, SubSeqProperties
<1>2. q[1] \in Messages
  BY ElementOfSeq
<1> HIDE DEF u
<1>3. /\ t \in Seq(Messages)
      /\ Len(t) = 1 + Len(u)
      /\ t[1] = q[1]
      /\ \A i \in 1..Len(u) : t[i + 1] = u[i]
  <2>1. <<q[1]>> \in Seq(Messages) /\ Len(<<q[1]>>) = 1 /\ <<q[1]>>[1] = q[1]
    BY <1>2
  <2>2. /\ t \in Seq(Messages)
        /\ Len(t) = Len(<<q[1]>>) + Len(u)
        /\ \A i \in 1..Len(<<q[1]>>) + Len(u) :
             t[i] = IF i <= Len(<<q[1]>>) THEN <<q[1]>>[i] ELSE u[i - Len(<<q[1]>>)]
    BY <2>1, <1>1, ConcatProperties
  <2>3. Len(u) \in Nat
    BY <1>1
  <2> HIDE DEF t
  <2> QED BY <2>1, <2>2, <2>3
<1>4. \A i \in 2..L - m + 2 : /\ i - 1 \in 1..L - m + 1
                              /\ m + (i - 1) - 1 = m + i - 2
                              /\ (i - 1) + 1 = i
  <2> HIDE DEF L
  <2> QED BY <1>0
<1>5. 1 + (L - m + 1) = L - m + 2
  <2> HIDE DEF L
  <2> QED BY <1>0
<1> HIDE DEF t, L
<1>6. Len(t) = L - m + 2
  BY <1>1, <1>3, <1>5
<1>7. \A i \in 2..Len(t) : t[i] = q[m + i - 2]
  BY <1>1, <1>3, <1>4, <1>6
<1> QED BY <1>3, <1>6, <1>7 DEF t, u, L

-----------------------------------------------------------------------------
(* What the operations preserve.                                           *)

WellFormed(q) == q \in Seq(Messages) /\ Headed(q) /\ Follows(q)

\* Answered, but for the last message.
AnsweredBefore(q) ==
  \A i \in 1..Len(q) - 1 :
    q[i].calls > 0 => \A j \in 1..Len(Results(q[i].calls)) :
                        i + j <= Len(q) /\ q[i + j].role = "tool"

LEMMA MessagesDef ==
  /\ \A r \in Roles : Message(r) \in Messages /\ Message(r).role = r /\ Message(r).calls = 0
  /\ \A k \in 0..MaxCalls : Calls(k) \in Messages /\ Calls(k).role = "assistant" /\ Calls(k).calls = k
  /\ \A m \in Messages : m.calls \in Nat
BY ConversationAssumption DEF Messages, Message, Calls, Roles

LEMMA ResultsDef ==
  ASSUME NEW k \in Nat
  PROVE  /\ Results(k) \in Seq(Messages)
         /\ Len(Results(k)) = IF OnePerCall THEN k ELSE 1
         /\ \A i \in 1..Len(Results(k)) : Results(k)[i] = Message("tool")
<1>1. Message("tool") \in Messages
  BY MessagesDef DEF Roles
<1> QED BY <1>1 DEF Results

\* Messages that are neither results nor calls, and replies, may be appended.
LEMMA AppendKeeps ==
  ASSUME NEW q, WellFormed(q), NEW m \in Messages,
         m.role # "tool", m.calls > 0 => m.role = "assistant"
  PROVE  /\ WellFormed(Append(q, m))
         /\ Append(q, m)[Len(Append(q, m))] = m
         /\ Answered(q) => AnsweredBefore(Append(q, m))
         /\ Answered(q) /\ m.calls = 0 => Answered(Append(q, m))
<1> DEFINE r == Append(q, m)
<1>1. q \in Seq(Messages) /\ Headed(q) /\ Follows(q) /\ Len(q) \in Nat
  BY DEF WellFormed
<1>2. /\ r \in Seq(Messages)
      /\ Len(r) = Len(q) + 1
      /\ \A i \in 1..Len(q) : r[i] = q[i]
      /\ r[Len(q) + 1] = m
  BY <1>1, AppendProperties
<1> HIDE DEF r
<1>3. Headed(r)
  BY <1>1, <1>2 DEF Headed
<1>4. Follows(r)
  <2> SUFFICES ASSUME NEW i \in 1..Len(r), r[i].role = "tool"
               PROVE  /\ i > 1
                      /\ \/ r[i - 1].role = "tool"
                         \/ r[i - 1].role = "assistant" /\ r[i - 1].calls > 0
    BY DEF Follows
  <2>1. i \in 1..Len(q) /\ r[i] = q[i]
    BY <1>1, <1>2
  <2>2. i > 1 /\ \/ q[i - 1].role = "tool"
                 \/ q[i - 1].role = "assistant" /\ q[i - 1].calls > 0
    BY <1>1, <2>1 DEF Follows
  <2>3. i - 1 \in 1..Len(q)
    BY <1>1, <2>1, <2>2
  <2> QED BY <1>2, <2>2, <2>3
<1>5. ASSUME Answered(q), NEW i \in 1..Len(q), r[i].calls > 0,
             NEW j \in 1..Len(Results(r[i].calls))
      PROVE  i + j <= Len(r) /\ r[i + j].role = "tool"
  <2>1. q[i].calls > 0 /\ j \in 1..Len(Results(q[i].calls))
    BY <1>2, <1>5
  <2>2. i + j <= Len(q) /\ q[i + j].role = "tool"
    BY <1>5, <2>1 DEF Answered
  <2>3. j \in Nat /\ j > 0
    OBVIOUS
  <2>4. i + j \in 1..Len(q) /\ i + j <= Len(r)
    BY <1>1, <1>2, <2>2, <2>3
  <2> QED BY <1>2, <2>2, <2>4
<1>6. Answered(q) => AnsweredBefore(r)
  BY <1>1, <1>2, <1>5 DEF AnsweredBefore
<1>7. Answered(q) /\ m.calls = 0 => Answered(r)
  <2>1. m.calls = 0 => ~(r[Len(q) + 1].calls > 0)
    BY <1>2
  <2>2. \A i \in 1..Len(r) : i \in 1..Len(q) \/ i = Len(q) + 1
    BY <1>1, <1>2
  <2> QED BY <1>5, <2>1, <2>2 DEF Answered
<1> QED BY <1>1, <1>2, <1>3, <1>4, <1>6, <1>7 DEF WellFormed, r

\* The results of the calls of the last message may be appended.
LEMMA ResultsKeep ==
  ASSUME NEW q, WellFormed(q), q[Len(q)].role = "assistant", q[Len(q)].calls > 0
  PROVE  LET r == q \o Results(q[Len(q)].calls)
         IN  WellFormed(r) /\ (AnsweredBefore(q) => Answered(r))
<1> DEFINE n == Len(q)
           k == q[n].calls
           t == Results(k)
           r == q \o t
<1>1. q \in Seq(Messages) /\ Headed(q) /\ Follows(q) /\ n \in Nat /\ n > 0
  BY DEF WellFormed, Headed
<1>2. k \in Nat
  <2>1. q[n] \in Messages
    BY <1>1, ElementOfSeq
  <2> QED BY <2>1, MessagesDef
<1>3. /\ t \in Seq(Messages) /\ Len(t) \in Nat
      /\ \A i \in 1..Len(t) : t[i] = Message("tool")
  <2> HIDE DEF k
  <2> QED BY <1>2, ResultsDef
<1> HIDE DEF k, t
<1>4. /\ r \in Seq(Messages)
      /\ Len(r) = n + Len(t)
      /\ \A i \in 1..n + Len(t) : r[i] = IF i <= n THEN q[i] ELSE t[i - n]
  BY <1>1, <1>3, ConcatProperties
<1>5. /\ \A i \in 1..n : r[i] = q[i]
      /\ \A i \in 1..Len(t) : r[n + i] = Message("tool")
  <2>1. \A i \in 1..n : i \in 1..n + Len(t) /\ i <= n
    BY <1>1, <1>3
  <2>2. \A i \in 1..Len(t) : n + i \in 1..n + Len(t) /\ ~(n + i <= n) /\ (n + i) - n = i
    BY <1>1, <1>3
  <2> HIDE DEF r, n
  <2> QED BY <1>3, <1>4, <2>1, <2>2
<1>6. \A i \in 1..Len(r) : i \in 1..n \/ \E h \in 1..Len(t) : i = n + h
  <2> SUFFICES ASSUME NEW i \in 1..Len(r), i \notin 1..n
               PROVE  i - n \in 1..Len(t) /\ i = n + (i - n)
    BY Zenon
  <2> HIDE DEF r, n
  <2> QED BY <1>1, <1>3, <1>4
<1>7. Message("tool").role = "tool" /\ Message("tool").calls = 0
  BY DEF Message
<1> HIDE DEF r
<1>7a. ASSUME NEW i \in 1..Len(r), r[i].calls > 0 PROVE i \in 1..n
  <2>1. SUFFICES ASSUME NEW h \in 1..Len(t), i = n + h PROVE FALSE
    BY <1>6
  <2>2. r[i] = Message("tool")
    BY <1>5, <2>1
  <2>3. r[i].calls = 0
    BY <1>7, <2>2
  <2> QED BY <1>7a, <2>3
<1>8. Headed(r)
  <2>1. Len(r) > 0 /\ 1 \in 1..n
    BY <1>1, <1>3, <1>4
  <2>2. \A i \in 1..n : q[i].calls > 0 => q[i].role = "assistant"
    BY <1>1 DEF Headed
  <2>3. q[1] = Message("system")
    BY <1>1 DEF Headed
  <2>4. ASSUME NEW i \in 1..Len(r), r[i].calls > 0 PROVE r[i].role = "assistant"
    <3>1. CASE i \in 1..n
      BY <1>5, <2>2, <2>4, <3>1
    <3>2. CASE i \notin 1..n
      BY <1>7a, <2>4, <3>2
    <3> QED BY <3>1, <3>2
  <2> QED BY <1>5, <2>1, <2>3, <2>4 DEF Headed
<1>9. Follows(r)
  <2> SUFFICES ASSUME NEW i \in 1..Len(r), r[i].role = "tool"
               PROVE  /\ i > 1
                      /\ \/ r[i - 1].role = "tool"
                         \/ r[i - 1].role = "assistant" /\ r[i - 1].calls > 0
    BY DEF Follows
  <2>1. CASE i \in 1..n
    <3>1. q[i].role = "tool"
      BY <1>5, <2>1
    <3>2. i > 1 /\ \/ q[i - 1].role = "tool"
                   \/ q[i - 1].role = "assistant" /\ q[i - 1].calls > 0
      BY <1>1, <2>1, <3>1 DEF Follows
    <3>3. i - 1 \in 1..n
      BY <1>1, <2>1, <3>2
    <3> QED BY <1>5, <3>2, <3>3
  <2>2. ASSUME NEW h \in 1..Len(t), i = n + h PROVE
             /\ i > 1
             /\ \/ r[i - 1].role = "tool"
                \/ r[i - 1].role = "assistant" /\ r[i - 1].calls > 0
    <3>1. CASE h = 1
      <4>1. i - 1 = n /\ n \in 1..n /\ i > 1
        BY <1>1, <2>2, <3>1
      <4> QED BY <1>5, <4>1
    <3>2. CASE h # 1
      <4>1. h - 1 \in 1..Len(t) /\ i - 1 = n + (h - 1) /\ i > 1
        BY <1>1, <1>3, <2>2, <3>2
      <4> QED BY <1>5, <1>7, <4>1
    <3> QED BY <3>1, <3>2
  <2> QED BY <1>6, <2>1, <2>2
<1>10. ASSUME AnsweredBefore(q) PROVE Answered(r)
  <2> SUFFICES ASSUME NEW i \in 1..Len(r), r[i].calls > 0,
                      NEW j \in 1..Len(Results(r[i].calls))
               PROVE  i + j <= Len(r) /\ r[i + j].role = "tool"
    BY DEF Answered
  <2>1. i \in 1..n /\ r[i] = q[i]
    BY <1>5, <1>7a
  <2>2. CASE i = n
    <3>1. j \in 1..Len(t)
      BY <2>1, <2>2 DEF t, k
    <3>2. i + j <= Len(r) /\ i + j = n + j
      BY <1>1, <1>3, <1>4, <2>2, <3>1
    <3> QED BY <1>5, <1>7, <3>1, <3>2
  <2>3. CASE i # n
    <3>1. i \in 1..Len(q) - 1
      BY <1>1, <2>1, <2>3
    <3>2. i + j <= n /\ q[i + j].role = "tool"
      BY <1>10, <2>1, <3>1 DEF AnsweredBefore
    <3>3. j \in Nat /\ j > 0
      OBVIOUS
    <3>4. i + j \in 1..n /\ i + j <= Len(r)
      BY <1>1, <1>3, <1>4, <3>2, <3>3
    <3> QED BY <1>5, <3>2, <3>4
  <2> QED BY <2>2, <2>3
<1> QED BY <1>4, <1>8, <1>9, <1>10 DEF WellFormed, r, t, k

\* A rollback leaves a well-formed conversation, and no call without results.
LEMMA RollbackKeeps ==
  ASSUME NEW q, WellFormed(q)
  PROVE  /\ WellFormed(Rollback(q))
         /\ Answered(q) => Answered(Rollback(q))
<1>1. q \in Seq(Messages) /\ Headed(q) /\ Follows(q)
  BY DEF WellFormed
<1>2. PICK n \in 1..Len(q) : /\ Rollback(q) = SubSeq(q, 1, n)
                             /\ q[n].role \notin {"tool", "assistant"}
  BY <1>1, RollbackShape
<1> DEFINE r == SubSeq(q, 1, n)
<1>3. /\ r \in Seq(Messages)
      /\ Len(r) = n
      /\ \A i \in 1..n : r[i] = q[i]
  BY <1>1, Prefix
<1>4. Len(q) \in Nat /\ n \in Nat /\ n > 0 /\ n <= Len(q)
  BY <1>1
<1> HIDE DEF r
<1>5. Headed(r)
  BY <1>1, <1>3, <1>4 DEF Headed
<1>6. Follows(r)
  <2> SUFFICES ASSUME NEW i \in 1..n, r[i].role = "tool"
               PROVE  /\ i > 1
                      /\ \/ r[i - 1].role = "tool"
                         \/ r[i - 1].role = "assistant" /\ r[i - 1].calls > 0
    BY <1>3 DEF Follows
  <2>1. i \in 1..Len(q) /\ r[i] = q[i]
    BY <1>3, <1>4
  <2>2. i > 1 /\ \/ q[i - 1].role = "tool"
                 \/ q[i - 1].role = "assistant" /\ q[i - 1].calls > 0
    BY <1>1, <2>1 DEF Follows
  <2>3. i - 1 \in 1..n
    BY <1>4, <2>2
  <2> QED BY <1>3, <2>2, <2>3
<1>7. ASSUME Answered(q) PROVE Answered(r)
  <2> SUFFICES ASSUME NEW i \in 1..n, r[i].calls > 0,
                      NEW j \in 1..Len(Results(r[i].calls))
               PROVE  i + j <= n /\ r[i + j].role = "tool"
    BY <1>3 DEF Answered
  <2>1. i \in 1..Len(q) /\ r[i] = q[i] /\ q[i].calls > 0
    BY <1>3, <1>4
  <2>2. \A h \in 1..Len(Results(q[i].calls)) : i + h <= Len(q) /\ q[i + h].role = "tool"
    BY <1>7, <2>1 DEF Answered
  <2>3. i # n
    BY <1>1, <1>2, <2>1 DEF Headed
  <2>4. Len(Results(q[i].calls)) \in Nat
    <3>1. q[i] \in Messages
      BY <1>1, <2>1, ElementOfSeq
    <3>2. q[i].calls \in Nat
      BY <3>1, MessagesDef
    <3> QED BY <3>2, ResultsDef
  <2>5. i + j <= n
    <3>1. SUFFICES ASSUME ~(i + j <= n) PROVE FALSE
      OBVIOUS
    <3>2. j \in 1..Len(Results(q[i].calls))
      BY <2>1
    <3>3. n - i \in 1..Len(Results(q[i].calls)) /\ i + (n - i) = n
      BY <1>4, <2>3, <2>4, <3>1, <3>2
    <3> QED BY <1>2, <2>2, <3>3
  <2>6. j \in 1..Len(Results(q[i].calls)) /\ i + j \in 1..n
    BY <1>4, <2>1, <2>5
  <2> QED BY <1>3, <2>2, <2>5, <2>6
<1> QED BY <1>2, <1>3, <1>5, <1>6, <1>7 DEF WellFormed, r

\* Trimming leaves a well-formed conversation of at most TrimAt messages, and
\* no call without results.
LEMMA TrimKeeps ==
  ASSUME NEW q, WellFormed(q)
  PROVE  /\ WellFormed(Trim(q))
         /\ Len(Trim(q)) <= TrimAt
         /\ Answered(q) => Answered(Trim(q))
<1>1. q \in Seq(Messages) /\ Headed(q) /\ Follows(q) /\ Len(q) \in Nat /\ Len(q) > 0
  BY DEF WellFormed, Headed
<1>2. CASE Len(q) <= TrimAt
  BY <1>2 DEF Trim
<1>3. CASE Len(q) > TrimAt
  <2>1. PICK m \in 2..Len(q) + 1 :
           /\ Trim(q) = <<q[1]>> \o SubSeq(q, m, Len(q))
           /\ m <= Len(q) => q[m].role # "tool"
           /\ Len(q) - m + 1 <= Keep
    BY <1>1, <1>3, TrimShape
  <2> DEFINE r == <<q[1]>> \o SubSeq(q, m, Len(q))
  <2>2. /\ r \in Seq(Messages)
        /\ Len(r) = Len(q) - m + 2
        /\ r[1] = q[1]
        /\ \A i \in 2..Len(r) : r[i] = q[m + i - 2]
    BY <1>1, HeadAndSuffix
  <2> HIDE DEF r
  <2>3. Len(r) <= TrimAt
    <3>1. Len(r) <= Keep + 1 /\ Keep + 1 <= TrimAt
      BY <1>1, <2>1, <2>2, ConversationAssumption
    <3> QED BY <1>1, <2>2, <3>1, ConversationAssumption
  <2>4. Headed(r)
    <3>1. ASSUME NEW i \in 2..Len(r) PROVE m + i - 2 \in 1..Len(q)
      BY <1>1, <2>2
    <3>2. \A i \in 1..Len(r) : i = 1 \/ i \in 2..Len(r)
      BY <2>2
    <3>3. Len(r) > 0 /\ 1 \in 1..Len(q)
      BY <1>1, <2>2
    <3> QED BY <1>1, <2>2, <3>1, <3>2, <3>3 DEF Headed
  <2>5. Follows(r)
    <3> SUFFICES ASSUME NEW i \in 1..Len(r), r[i].role = "tool"
                 PROVE  /\ i > 1
                        /\ \/ r[i - 1].role = "tool"
                           \/ r[i - 1].role = "assistant" /\ r[i - 1].calls > 0
      BY DEF Follows
    <3>1. i # 1
      BY <1>1, <2>2 DEF Headed, Message
    <3>2. /\ i \in 2..Len(r) /\ i > 1
          /\ m + i - 2 \in 1..Len(q)
          /\ r[i] = q[m + i - 2]
      BY <1>1, <2>2, <3>1
    <3>3. i # 2
      <4>1. i = 2 => m + i - 2 = m /\ m <= Len(q)
        BY <1>1, <3>2
      <4> QED BY <2>1, <3>2, <4>1
    <3>4. /\ i - 1 \in 2..Len(r)
          /\ m + (i - 1) - 2 = (m + i - 2) - 1
      BY <3>2, <3>3
    <3>5. r[i - 1] = q[(m + i - 2) - 1]
      BY <2>2, <3>4
    <3>6. \/ q[(m + i - 2) - 1].role = "tool"
          \/ q[(m + i - 2) - 1].role = "assistant" /\ q[(m + i - 2) - 1].calls > 0
      BY <1>1, <3>2 DEF Follows
    <3> QED BY <3>2, <3>5, <3>6
  <2>6. ASSUME Answered(q) PROVE Answered(r)
    <3> SUFFICES ASSUME NEW i \in 1..Len(r), r[i].calls > 0,
                        NEW j \in 1..Len(Results(r[i].calls))
                 PROVE  i + j <= Len(r) /\ r[i + j].role = "tool"
      BY DEF Answered
    <3>1. i # 1
      <4>1. q[1].calls = 0
        BY <1>1 DEF Headed, Message
      <4>2. i = 1 => 0 > 0
        BY <2>2, <4>1
      <4> QED BY <4>2
    <3>2. /\ m + i - 2 \in 1..Len(q)
          /\ r[i] = q[m + i - 2]
      BY <1>1, <2>2, <3>1
    <3>3. (m + i - 2) + j <= Len(q) /\ q[(m + i - 2) + j].role = "tool"
      BY <2>6, <3>2 DEF Answered
    <3>4. j \in Nat /\ j > 0
      OBVIOUS
    <3>5. i + j \in 2..Len(r) /\ m + (i + j) - 2 = (m + i - 2) + j
      BY <1>1, <2>2, <3>1, <3>3, <3>4
    <3> QED BY <2>2, <3>3, <3>5
  <2> QED BY <2>1, <2>2, <2>3, <2>4, <2>5, <2>6 DEF WellFormed, r
<1> QED BY <1>1, <1>2, <1>3, ConversationAssumption

-----------------------------------------------------------------------------
(* The invariant.  ToolsFollow alone is not inductive: results may only be *)
(* appended because, at "tools", the last message makes calls, and trimming *)
(* keeps the first message because it is the system's.                     *)

IInv ==
  /\ TypeOK
  /\ WellFormed(conv)
  /\ pc = "tools" => conv[Len(conv)].role = "assistant" /\ conv[Len(conv)].calls > 0

\* As long as no loop is cut short.
Complete ==
  cuts = 0 =>
    /\ pc = "tools" => AnsweredBefore(conv)
    /\ pc # "tools" => Answered(conv)
    /\ pc = "idle" => Len(conv) <= TrimAt

LEMMA InitInv == Init => IInv /\ Complete
<1> SUFFICES ASSUME Init PROVE IInv /\ Complete
  OBVIOUS
<1>1. conv = <<Message("system")>> /\ pc = "idle" /\ auto = FALSE /\ iter = 0 /\ cuts = 0
  BY DEF Init
<1>2. /\ Message("system") \in Messages
      /\ Message("system").role = "system" /\ Message("system").calls = 0
  BY MessagesDef DEF Roles
<1>3. /\ conv \in Seq(Messages) /\ Len(conv) = 1
      /\ conv[1] = Message("system") /\ conv[1].role = "system" /\ conv[1].calls = 0
      /\ \A i \in 1..Len(conv) : i = 1
  BY <1>1, <1>2
<1>4. TypeOK
  <2>1. iter \in 0..MaxIter /\ cuts \in 0..MaxCuts
    BY <1>1, ConversationAssumption
  <2>2. pc \in {"idle", "call", "tools"} /\ auto \in BOOLEAN
    BY <1>1
  <2> QED BY <1>3, <2>1, <2>2 DEF TypeOK
<1>5. WellFormed(conv)
  BY <1>3 DEF WellFormed, Headed, Follows
<1>6. Answered(conv)
  BY <1>3 DEF Answered
<1>7. Len(conv) <= TrimAt
  BY <1>3, ConversationAssumption
<1> QED BY <1>1, <1>4, <1>5, <1>6, <1>7 DEF IInv, Complete

\* Leaving the loop with a well-formed conversation.
LEMMA LeaveKeeps ==
  ASSUME NEW q, WellFormed(q), Leave(q), TypeOK
  PROVE  /\ IInv'
         /\ pc' = "idle" /\ cuts' = cuts
         /\ Len(conv') <= TrimAt
         /\ Answered(q) => Answered(conv')
<1>1. conv' = Trim(q) /\ pc' = "idle" /\ UNCHANGED <<auto, iter, cuts>>
  BY DEF Leave
<1>2. /\ WellFormed(conv') /\ Len(conv') <= TrimAt
      /\ Answered(q) => Answered(conv')
  BY <1>1, TrimKeeps
<1>3. TypeOK'
  BY <1>1, <1>2 DEF TypeOK, WellFormed
<1>4. IInv'
  BY <1>1, <1>2, <1>3 DEF IInv, WellFormed, Headed, Follows
<1> QED BY <1>1, <1>2, <1>4

LEMMA StepInv ==
  ASSUME IInv, [Next]_vars
  PROVE  /\ IInv'
         /\ Complete => Complete'
<1> USE DEF Complete
<1>0. /\ TypeOK /\ WellFormed(conv)
      /\ pc = "tools" => conv[Len(conv)].role = "assistant" /\ conv[Len(conv)].calls > 0
  BY DEF IInv
<1>1. ASSUME NEW isAuto \in BOOLEAN, Start(isAuto)
      PROVE  IInv' /\ (Complete => Complete')
  <2>1. /\ pc = "idle" /\ pc' = "call" /\ auto' = isAuto /\ iter' = 1
        /\ conv' = Append(conv, Message("user")) /\ cuts' = cuts
    BY <1>1 DEF Start
  <2>2. /\ Message("user") \in Messages
        /\ Message("user").role = "user" /\ Message("user").calls = 0
    BY MessagesDef DEF Roles
  <2>3. WellFormed(conv') /\ (Answered(conv) => Answered(conv'))
    BY <1>0, <2>1, <2>2, AppendKeeps
  <2>4. TypeOK'
    BY <1>0, <2>1, <2>3, ConversationAssumption DEF TypeOK, WellFormed
  <2> QED BY <2>1, <2>3, <2>4 DEF IInv
<1>2. CASE CallFails
  BY <1>0, <1>2, LeaveKeeps DEF CallFails
<1>3. CASE Unparseable
  <2>1. Answered(conv) /\ Leave(Rollback(conv))
    BY <1>3 DEF Unparseable, Answers
  <2>2. WellFormed(Rollback(conv)) /\ Answered(Rollback(conv))
    BY <1>0, <2>1, RollbackKeeps
  <2> QED BY <1>0, <2>1, <2>2, LeaveKeeps
<1>4. CASE Report
  <2>1. Answered(conv) /\ Leave(Append(conv, Message("assistant")))
    BY <1>4 DEF Report, Answers
  <2>2. /\ Message("assistant") \in Messages
        /\ Message("assistant").role = "assistant" /\ Message("assistant").calls = 0
    BY MessagesDef DEF Roles
  <2>3. /\ WellFormed(Append(conv, Message("assistant")))
        /\ Answered(Append(conv, Message("assistant")))
    BY <1>0, <2>1, <2>2, AppendKeeps
  <2> QED BY <1>0, <2>1, <2>3, LeaveKeeps
<1>5. CASE CallTools
  <2>1. PICK k \in 1..MaxCalls : conv' = Append(conv, Calls(k))
    BY <1>5 DEF CallTools
  <2>2. Answered(conv) /\ pc' = "tools" /\ UNCHANGED <<auto, iter, cuts>>
    BY <1>5 DEF CallTools, Answers
  <2>3. k \in 0..MaxCalls /\ k > 0
    BY ConversationAssumption
  <2>4. Calls(k) \in Messages /\ Calls(k).role = "assistant" /\ Calls(k).calls = k
    BY <2>3, MessagesDef
  <2>5. /\ WellFormed(conv') /\ AnsweredBefore(conv')
        /\ conv'[Len(conv')] = Calls(k)
    BY <1>0, <2>1, <2>2, <2>4, AppendKeeps
  <2>6. TypeOK'
    BY <1>0, <2>2, <2>5 DEF TypeOK, WellFormed
  <2>7. conv'[Len(conv')].role = "assistant" /\ conv'[Len(conv')].calls > 0
    BY <2>3, <2>4, <2>5
  <2> QED BY <2>2, <2>5, <2>6, <2>7 DEF IInv
<1>6. CASE Answer
  <2> DEFINE r == conv \o Results(conv[Len(conv)].calls)
  <2>1. pc = "tools"
    BY <1>6 DEF Answer
  <2>2. WellFormed(r) /\ (AnsweredBefore(conv) => Answered(r))
    BY <1>0, <2>1, ResultsKeep
  <2>3. \/ iter = MaxIter /\ Leave(r)
        \/ iter # MaxIter /\ conv' = r /\ pc' = "call" /\ iter' = iter + 1 /\ UNCHANGED <<auto, cuts>>
    BY <1>6 DEF Answer
  <2> HIDE DEF r
  <2>4. CASE Leave(r)
    BY <1>0, <2>1, <2>2, <2>4, LeaveKeeps
  <2>5. CASE iter # MaxIter /\ conv' = r /\ pc' = "call" /\ iter' = iter + 1 /\ UNCHANGED <<auto, cuts>>
    <3>1. TypeOK'
      BY <1>0, <2>2, <2>5, ConversationAssumption DEF TypeOK, WellFormed
    <3> QED BY <2>1, <2>2, <2>5, <3>1 DEF IInv
  <2> QED BY <2>3, <2>4, <2>5
<1>7. CASE Timeout \/ Malformed
  <2>1. /\ cuts < MaxCuts /\ cuts' = cuts + 1 /\ pc' = "idle"
        /\ UNCHANGED <<conv, auto, iter>>
    BY <1>7 DEF Timeout, Malformed, Cut
  <2>2. TypeOK'
    BY <1>0, <2>1, ConversationAssumption DEF TypeOK
  <2>3. cuts' # 0
    BY <1>0, <2>1, ConversationAssumption DEF TypeOK
  <2> QED BY <1>0, <2>1, <2>2, <2>3 DEF IInv
<1>8. CASE UNCHANGED vars
  <2>1. UNCHANGED <<conv, pc, auto, iter, cuts>>
    BY <1>8 DEF vars
  <2> QED BY <1>0, <2>1 DEF IInv, TypeOK
<1> QED BY <1>1, <1>2, <1>3, <1>4, <1>5, <1>6, <1>7, <1>8 DEF Next, Loop

-----------------------------------------------------------------------------
(* Theorems.                                                               *)

\* The conversation is a sequence of messages, the loop's position one of its
\* three, and the counters stay within their bounds.
THEOREM TypeCorrect == Spec => []TypeOK
<1>1. IInv => TypeOK
  BY DEF IInv
<1> QED BY InitInv, StepInv, <1>1, PTL DEF Spec

\* Whatever is trimmed, rolled back or cut off by a cancellation, every tool
\* message comes right after the call or the result before it.
THEOREM NoOrphanTool == Spec => []ToolsFollow
<1>1. IInv => ToolsFollow
  BY DEF IInv, WellFormed, Follows, ToolsFollow
<1> QED BY InitInv, StepInv, <1>1, PTL DEF Spec

\* As long as no loop is cut short, the LLM is only ever called with a
\* conversation all of whose calls have their results.
THEOREM UncutLoopsAnswer == Spec => []UncutAnswered
<1>1. Complete => UncutAnswered
  BY DEF Complete, UncutAnswered, CallsAnswered
<1>2. IInv /\ Complete /\ [Next]_vars => IInv' /\ Complete'
  BY StepInv
<1> QED BY InitInv, <1>1, <1>2, PTL DEF Spec

\* As long as no loop is cut short, a conversation that is at rest has at most
\* TrimAt messages.
THEOREM UncutLoopsTrim == Spec => []UncutTrimmed
<1>1. Complete => UncutTrimmed
  BY DEF Complete, UncutTrimmed
<1>2. IInv /\ Complete /\ [Next]_vars => IInv' /\ Complete'
  BY StepInv
<1> QED BY InitInv, <1>1, <1>2, PTL DEF Spec
=============================================================================
