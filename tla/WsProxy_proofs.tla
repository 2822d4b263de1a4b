--------------------------- MODULE WsProxy_proofs ---------------------------
(***************************************************************************)
(* Proofs about WsProxy, for any set of connections and any bounds: types, *)
(* what is left of a connection when its handler returns, what _connections*)
(* holds, and the pipe from the server to a client.                        *)
(***************************************************************************)
EXTENDS WsProxy, SequenceTheorems, TLAPS

\* The actions of one connection.
Step(c) == Handler(c) \/ Reader(c) \/ ReadTimeout(c) \/ Environment(c)

\* A sequence that is not empty has a head and a tail of its own type.
LEMMA HeadTail ==
  ASSUME NEW S, NEW q \in Seq(S), q # << >>
  PROVE  /\ Head(q) \in S
         /\ Head(q) = q[1]
         /\ Len(q) \in Nat \ {0}
         /\ Tail(q) \in Seq(S)
         /\ Len(Tail(q)) = Len(q) - 1
         /\ \A i \in 1..Len(q) - 1 : Tail(q)[i] = q[i + 1]
  OBVIOUS

-----------------------------------------------------------------------------
(* A step of one connection leaves the others alone.                       *)

\* A step of c changes s[c] and the entry of c, and nothing else.
LEMMA StepIsLocal ==
  ASSUME TypeOK, NEW c \in Conns, Step(c)
  PROVE  /\ s' = [s EXCEPT ![c] = s'[c]]
         /\ registry' \in {registry, registry \cup {c}, registry \ {c}}
<1>1. CASE Handler(c)
  <2>1. CASE Admit(c)
    BY <2>1 DEF Admit, Moves, TypeOK
  <2>2. CASE Refuse(c)
    BY <2>2 DEF Refuse, Moves, TypeOK
  <2>3. CASE Refused(c)
    BY <2>3 DEF Refused, TypeOK
  <2>4. CASE RefuseLogin(c)
    BY <2>4 DEF RefuseLogin, ReceivesLogin, Receives, TypeOK
  <2>5. CASE Replied(c)
    BY <2>5 DEF Replied, Moves, TypeOK
  <2>6. CASE Raises(c)
    BY <2>6 DEF Raises, TypeOK
  <2>7. CASE Login(c)
    BY <2>7 DEF Login, ReceivesLogin, Receives, TypeOK
  <2>8. CASE Connect(c)
    BY <2>8 DEF Connect, TypeOK
  <2>9. CASE ConnectFails(c)
    BY <2>9 DEF ConnectFails, Moves, TypeOK
  <2>10. CASE Failed(c)
    BY <2>10 DEF Failed, TypeOK
  <2>11. CASE LoggedIn(c)
    BY <2>11 DEF LoggedIn, TypeOK
  <2>12. CASE Forward(c)
    BY <2>12 DEF Forward, Receives, TypeOK
  <2>13. CASE DropMessage(c)
    BY <2>13 DEF DropMessage, Receives, TypeOK
  <2>14. CASE Drained(c)
    BY <2>14 DEF Drained, Moves, TypeOK
  <2>15. CASE LeaveUnbridged(c)
    BY <2>15 DEF LeaveUnbridged, Moves, TypeOK
  <2>16. CASE CancelReader(c)
    BY <2>16 DEF CancelReader, TypeOK
  <2>17. CASE CloseWriter(c)
    BY <2>17 DEF CloseWriter, TypeOK
  <2>18. CASE Closed(c)
    BY <2>18 DEF Closed, TypeOK
  <2>19. CASE ConnectTooLong(c)
    BY <2>19 DEF ConnectTooLong, TypeOK
  <2> QED
    BY <1>1, <2>1, <2>2, <2>3, <2>4, <2>5, <2>6, <2>7, <2>8, <2>9, <2>10,
       <2>11, <2>12, <2>13, <2>14, <2>15, <2>16, <2>17, <2>18, <2>19 DEF Handler
<1>2. CASE Reader(c)
  <2>1. CASE ReadPacket(c)
    BY <2>1 DEF ReadPacket, Reads, TypeOK
  <2>2. CASE SkipHeader(c)
    BY <2>2 DEF SkipHeader, Reads, TypeOK
  <2>3. CASE Flushed(c)
    BY <2>3 DEF Flushed, TypeOK
  <2>4. CASE FlushFails(c)
    BY <2>4 DEF FlushFails, TypeOK
  <2>5. CASE Eof(c)
    BY <2>5 DEF Eof, StopReading, TypeOK
  <2>6. CASE CloseFromReader(c)
    BY <2>6 DEF CloseFromReader, TypeOK
  <2>7. CASE ClosedByReader(c)
    BY <2>7 DEF ClosedByReader, TypeOK
  <2>8. CASE Cancelled(c)
    BY <2>8 DEF Cancelled, TypeOK
  <2>9. CASE ReadTail(c)
    BY <2>9 DEF ReadTail, TypeOK
  <2> QED
    BY <1>2, <2>1, <2>2, <2>3, <2>4, <2>5, <2>6, <2>7, <2>8, <2>9 DEF Reader
<1>3. CASE ReadTimeout(c)
  BY <1>3 DEF ReadTimeout, StopReading, TypeOK
<1>4. CASE Environment(c)
  BY <1>4 DEF Environment, ClientSends, ClientCloses, ServerWrites,
     ServerCloses, TypeOK
<1> QED
  BY <1>1, <1>2, <1>3, <1>4 DEF Step

-----------------------------------------------------------------------------
(* Types.                                                                  *)

\* A handler never receives more than the client sent.
ReceivedSome(c) == Len(s[c].wsIn) <= s[c].sent

TypeInv == TypeOK /\ \A c \in Conns : ReceivedSome(c)

\* A step of a connection keeps its record a Session.
LEMMA StepKeepsSession ==
  ASSUME TypeOK, NEW c \in Conns, ReceivedSome(c), Step(c)
  PROVE  s'[c] \in Session /\ ReceivedSome(c)'
<1> USE DEF ReceivedSome
<1>s. s[c] \in Session
  BY DEF TypeOK
<1>n. Received(c) \in Nat /\ Received(c) + 1 \in Nat
  BY <1>s DEF Session, Received
<1>q. /\ s[c].wsIn \in Seq(Kinds)
      /\ s[c].srvGot \in Seq(Nat)
      /\ s[c].wsOut \in Seq(Nat)
      /\ s[c].tcpIn \in Seq(Packets)
      /\ s[c].sent \in Nat
      /\ s[c].written \in Nat
  BY <1>s DEF Session
<1>g. \A n \in Nat : Append(s[c].srvGot, n) \in Seq(Nat)
  BY <1>q
<1>f. \A n \in Nat : Frames(c, n) \in Seq(Nat)
  BY <1>q DEF Frames
<1>1. CASE Handler(c)
  <2>1. CASE Admit(c)
    <3>1. s'[c] = [s[c] EXCEPT !.pc = "receive"]
      BY <2>1 DEF Admit, Moves, TypeOK
    <3> QED
      BY <1>s, <3>1 DEF Session, Points, ReaderPoints
  <2>2. CASE Refuse(c)
    <3>1. s'[c] = [s[c] EXCEPT !.pc = "refusing"]
      BY <2>2 DEF Refuse, Moves, TypeOK
    <3> QED
      BY <1>s, <3>1 DEF Session, Points, ReaderPoints
  <2>3. CASE Refused(c)
    <3>1. s'[c] = [s[c] EXCEPT !.pc = "done", !.wsOpen = FALSE]
      BY <2>3 DEF Refused, TypeOK
    <3> QED
      BY <1>s, <3>1 DEF Session, Points, ReaderPoints
  <2>4. CASE RefuseLogin(c)
    <3>1. s'[c] = [s[c] EXCEPT !.wsIn = Tail(@), !.pc = "replying"]
      BY <2>4 DEF RefuseLogin, ReceivesLogin, Receives, TypeOK
    <3>2. Tail(s[c].wsIn) \in Seq(Kinds) /\ Len(Tail(s[c].wsIn)) <= s[c].sent
      BY <2>4, <1>q, HeadTail DEF RefuseLogin, ReceivesLogin, Receives
    <3> QED
      BY <1>s, <3>1, <3>2 DEF Session, Points, ReaderPoints
  <2>5. CASE Replied(c)
    <3>1. s'[c] = [s[c] EXCEPT !.pc = "receive"]
      BY <2>5 DEF Replied, Moves, TypeOK
    <3> QED
      BY <1>s, <3>1 DEF Session, Points, ReaderPoints
  <2>6. CASE Raises(c)
    <3>1. s'[c] = [s[c] EXCEPT !.pc = "done", !.wsOpen = FALSE]
      BY <2>6 DEF Raises, TypeOK
    <3> QED
      BY <1>s, <3>1 DEF Session, Points, ReaderPoints
  <2>7. CASE Login(c)
    <3>1. s'[c] = [s[c] EXCEPT !.wsIn = Tail(@), !.bridge = TRUE, !.pc = "connecting"]
      BY <2>7 DEF Login, ReceivesLogin, Receives, TypeOK
    <3>2. Tail(s[c].wsIn) \in Seq(Kinds) /\ Len(Tail(s[c].wsIn)) <= s[c].sent
      BY <2>7, <1>q, HeadTail DEF Login, ReceivesLogin, Receives
    <3> QED
      BY <1>s, <3>1, <3>2 DEF Session, Points, ReaderPoints
  <2>8. CASE Connect(c)
    <3>1. s'[c] = [s[c] EXCEPT !.writer = "open", !.srvOpen = TRUE, !.pc = "login",
                                 !.srvGot = Append(@, Received(c))]
      BY <2>8 DEF Connect, TypeOK
    <3>2. PICK got \in Seq(Nat) : got = Append(s[c].srvGot, Received(c))
      BY <1>n, <1>g, <1>q
    <3>3. s'[c] = [s[c] EXCEPT !.writer = "open", !.srvOpen = TRUE, !.pc = "login",
                                 !.srvGot = got]
      BY <3>1, <3>2
    <3> QED
      BY <1>s, <3>3 DEF Session, Points, ReaderPoints
  <2>9. CASE ConnectFails(c)
    <3>1. s'[c] = [s[c] EXCEPT !.pc = "failing"]
      BY <2>9 DEF ConnectFails, Moves, TypeOK
    <3> QED
      BY <1>s, <3>1 DEF Session, Points, ReaderPoints
  <2>10. CASE Failed(c)
    <3>1. s'[c] = [s[c] EXCEPT !.bridge = FALSE, !.pc = "receive"]
      BY <2>10 DEF Failed, TypeOK
    <3> QED
      BY <1>s, <3>1 DEF Session, Points, ReaderPoints
  <2>11. CASE LoggedIn(c)
    <3>1. s'[c] = [s[c] EXCEPT !.reader = "read", !.pc = "receive"]
      BY <2>11 DEF LoggedIn, TypeOK
    <3> QED
      BY <1>s, <3>1 DEF Session, Points, ReaderPoints
  <2>12. CASE Forward(c)
    <3>1. s'[c] = [s[c] EXCEPT !.wsIn = Tail(@), !.pc = "drain",
                         !.srvGot = IF s[c].srvOpen THEN Append(@, Received(c) + 1) ELSE @]
      BY <2>12 DEF Forward, Receives, TypeOK
    <3>2. Tail(s[c].wsIn) \in Seq(Kinds) /\ Len(Tail(s[c].wsIn)) <= s[c].sent
      BY <2>12, <1>q, HeadTail DEF Forward, Receives
    <3>3. PICK got \in Seq(Nat) : got = IF s[c].srvOpen THEN Append(s[c].srvGot, Received(c) + 1)
                                           ELSE s[c].srvGot
      BY <1>n, <1>g, <1>q
    <3>4. s'[c] = [s[c] EXCEPT !.wsIn = Tail(@), !.pc = "drain", !.srvGot = got]
      BY <3>1, <3>3
    <3> QED
      BY <1>s, <3>4, <3>2 DEF Session, Points, ReaderPoints
  <2>13. CASE DropMessage(c)
    <3>1. s'[c] = [s[c] EXCEPT !.wsIn = Tail(@)]
      BY <2>13 DEF DropMessage, Receives, TypeOK
    <3>2. Tail(s[c].wsIn) \in Seq(Kinds) /\ Len(Tail(s[c].wsIn)) <= s[c].sent
      BY <2>13, <1>q, HeadTail DEF DropMessage, Receives
    <3> QED
      BY <1>s, <3>1, <3>2 DEF Session, Points, ReaderPoints
  <2>14. CASE Drained(c)
    <3>1. s'[c] = [s[c] EXCEPT !.pc = "receive"]
      BY <2>14 DEF Drained, Moves, TypeOK
    <3> QED
      BY <1>s, <3>1 DEF Session, Points, ReaderPoints
  <2>15. CASE LeaveUnbridged(c)
    <3>1. s'[c] = [s[c] EXCEPT !.pc = "done"]
      BY <2>15 DEF LeaveUnbridged, Moves, TypeOK
    <3> QED
      BY <1>s, <3>1 DEF Session, Points, ReaderPoints
  <2>16. CASE CancelReader(c)
    <3>1. s'[c] = [s[c] EXCEPT !.stopped = TRUE, !.cancel = TRUE, !.pc = "joining"]
      BY <2>16 DEF CancelReader, TypeOK
    <3> QED
      BY <1>s, <3>1 DEF Session, Points, ReaderPoints
  <2>17. CASE CloseWriter(c)
    <3>1. s'[c] = [s[c] EXCEPT !.stopped = TRUE, !.writer = "closed", !.pc = "closing"]
      BY <2>17 DEF CloseWriter, TypeOK
    <3> QED
      BY <1>s, <3>1 DEF Session, Points, ReaderPoints
  <2>18. CASE Closed(c)
    <3>1. s'[c] = [s[c] EXCEPT !.pc = "done"]
      BY <2>18 DEF Closed, TypeOK
    <3> QED
      BY <1>s, <3>1 DEF Session, Points, ReaderPoints
  <2>19. CASE ConnectTooLong(c)
    <3>1. s'[c] = [s[c] EXCEPT !.writer = "open", !.srvOpen = TRUE,
                               !.reader = "read", !.pc = "receive"]
      BY <2>19 DEF ConnectTooLong, TypeOK
    <3> QED
      BY <1>s, <3>1 DEF Session, Points, ReaderPoints
  <2> QED
    BY <1>1, <2>1, <2>2, <2>3, <2>4, <2>5, <2>6, <2>7, <2>8, <2>9, <2>10,
       <2>11, <2>12, <2>13, <2>14, <2>15, <2>16, <2>17, <2>18, <2>19 DEF Handler
<1>2. CASE Reader(c)
  <2>1. CASE ReadPacket(c)
    <3>1. s'[c] = [s[c] EXCEPT !.tcpIn = Tail(@), !.reader = "flush",
                         !.wsOut = Frames(c, Head(s[c].tcpIn).n)]
      BY <2>1 DEF ReadPacket, Reads, TypeOK
    <3>2. Head(s[c].tcpIn) \in Packets /\ Tail(s[c].tcpIn) \in Seq(Packets)
      BY <2>1, <1>q, HeadTail DEF ReadPacket, Reads
    <3>3. Frames(c, Head(s[c].tcpIn).n) \in Seq(Nat)
      BY <3>2, <1>f DEF Packets
    <3> QED
      BY <1>s, <3>1, <3>2, <3>3 DEF Session, Points, ReaderPoints
  <2>2. CASE SkipHeader(c)
    <3>1. s'[c] = [s[c] EXCEPT !.tcpIn = <<[Head(@) EXCEPT !.part = "tail"]>> \o Tail(@)]
      BY <2>2 DEF SkipHeader, Reads, TypeOK
    <3>2. Head(s[c].tcpIn) \in Packets /\ Tail(s[c].tcpIn) \in Seq(Packets)
      BY <2>2, <1>q, HeadTail DEF SkipHeader, Reads
    <3>3. <<[Head(s[c].tcpIn) EXCEPT !.part = "tail"]>> \in Seq(Packets)
      BY <3>2 DEF Packets
    <3>4. <<[Head(s[c].tcpIn) EXCEPT !.part = "tail"]>> \o Tail(s[c].tcpIn) \in Seq(Packets)
      BY <3>2, <3>3, ConcatProperties
    <3> QED
      BY <1>s, <3>1, <3>4 DEF Session, Points, ReaderPoints
  <2>3. CASE Flushed(c)
    <3>1. s'[c] = [s[c] EXCEPT !.reader = "read"]
      BY <2>3 DEF Flushed, TypeOK
    <3> QED
      BY <1>s, <3>1 DEF Session, Points, ReaderPoints
  <2>4. CASE FlushFails(c)
    <3>1. s'[c] = [s[c] EXCEPT !.stopped = TRUE, !.reader = "done"]
      BY <2>4 DEF FlushFails, TypeOK
    <3> QED
      BY <1>s, <3>1 DEF Session, Points, ReaderPoints
  <2>5. CASE Eof(c)
    <3>1. s'[c] = [s[c] EXCEPT !.stopped = TRUE, !.reader = "selfAwait"]
      BY <2>5 DEF Eof, StopReading, TypeOK
    <3> QED
      BY <1>s, <3>1 DEF Session, Points, ReaderPoints
  <2>6. CASE CloseFromReader(c)
    <3>1. s'[c] = [s[c] EXCEPT !.cancel = FALSE, !.writer = "closed", !.reader = "closing"]
      BY <2>6 DEF CloseFromReader, TypeOK
    <3> QED
      BY <1>s, <3>1 DEF Session, Points, ReaderPoints
  <2>7. CASE ClosedByReader(c)
    <3>1. s'[c] = [s[c] EXCEPT !.reader = "done"]
      BY <2>7 DEF ClosedByReader, TypeOK
    <3> QED
      BY <1>s, <3>1 DEF Session, Points, ReaderPoints
  <2>8. CASE Cancelled(c)
    <3>1. s'[c] = [s[c] EXCEPT !.cancel = FALSE, !.reader = "done"]
      BY <2>8 DEF Cancelled, TypeOK
    <3> QED
      BY <1>s, <3>1 DEF Session, Points, ReaderPoints
  <2>9. CASE ReadTail(c)
    <3>1. PICK k \in 1..Len(s[c].tcpIn) :
            s'[c] = [s[c] EXCEPT !.tcpIn = SubSeq(@, k + 1, Len(@)),
                                 !.reader = "flush", !.wsOut = Frames(c, 0)]
      BY <2>9 DEF ReadTail, TypeOK
    <3>2. SubSeq(s[c].tcpIn, k + 1, Len(s[c].tcpIn)) \in Seq(Packets)
      BY <1>q, SubSeqProperties
    <3>3. Frames(c, 0) \in Seq(Nat)
      BY <1>f
    <3> QED
      BY <1>s, <3>1, <3>2, <3>3 DEF Session, ReaderPoints
  <2> QED
    BY <1>2, <2>1, <2>2, <2>3, <2>4, <2>5, <2>6, <2>7, <2>8, <2>9 DEF Reader
<1>3. CASE ReadTimeout(c)
  <2>1. s'[c] = [s[c] EXCEPT !.stopped = TRUE, !.reader = "selfAwait"]
    BY <1>3 DEF ReadTimeout, StopReading, TypeOK
  <2> QED
    BY <1>s, <2>1 DEF Session, ReaderPoints
<1>4. CASE Environment(c)
  <2>1. CASE ClientSends(c)
    <3>1. PICK kind \in Kinds, long \in {{}, {s[c].sent + 1}} :
            s'[c] = [s[c] EXCEPT !.wsIn = Append(@, kind), !.sent = @ + 1,
                                 !.long = @ \cup long]
      BY <2>1 DEF ClientSends, TypeOK
    <3>2. /\ Append(s[c].wsIn, kind) \in Seq(Kinds)
          /\ Len(Append(s[c].wsIn, kind)) <= s[c].sent + 1
      BY <1>q
    <3>3. PICK q \in Seq(Kinds) :
            q = Append(s[c].wsIn, kind) /\ Len(q) <= s[c].sent + 1
      BY <3>2
    <3>4. s'[c] = [s[c] EXCEPT !.wsIn = q, !.sent = s[c].sent + 1,
                               !.long = s[c].long \cup long]
      BY <3>1, <3>3
    <3>5. s[c].sent + 1 \in Nat /\ s[c].long \cup long \in SUBSET Nat
      BY <1>s, <1>q DEF Session
    <3> QED
      BY <1>s, <3>3, <3>4, <3>5 DEF Session
  <2>2. CASE ClientCloses(c)
    <3>1. s'[c] = [s[c] EXCEPT !.wsOpen = FALSE]
      BY <2>2 DEF ClientCloses, TypeOK
    <3> QED
      BY <1>s, <3>1 DEF Session
  <2>3. CASE ServerWrites(c)
    <3>1. PICK part \in {"whole", "big"} :
            s'[c] = [s[c] EXCEPT !.written = @ + 1, !.tcpIn =
                       Append(@, [n |-> s[c].written + 1, part |-> part])]
      BY <2>3 DEF ServerWrites, TypeOK
    <3>2. [n |-> s[c].written + 1, part |-> part] \in Packets
      BY <1>q DEF Packets
    <3>3. /\ Append(s[c].tcpIn, [n |-> s[c].written + 1, part |-> part])
               \in Seq(Packets)
          /\ s[c].written + 1 \in Nat
      BY <1>q, <3>2
    <3> QED
      BY <1>s, <3>1, <3>3 DEF Session
  <2>4. CASE ServerCloses(c)
    <3>1. s'[c] = [s[c] EXCEPT !.srvOpen = FALSE]
      BY <2>4 DEF ServerCloses, TypeOK
    <3> QED
      BY <1>s, <3>1 DEF Session
  <2> QED
    BY <1>4, <2>1, <2>2, <2>3, <2>4 DEF Environment
<1> QED
  BY <1>1, <1>2, <1>3, <1>4 DEF Step

LEMMA NextType ==
  ASSUME TypeInv, [Next]_vars
  PROVE  TypeInv'
<1>1. CASE Next
  <2>1. PICK c \in Conns : Step(c)
    BY <1>1 DEF Next, Step
  <2>2. /\ s' = [s EXCEPT ![c] = s'[c]]
        /\ registry' \in {registry, registry \cup {c}, registry \ {c}}
    BY <2>1, StepIsLocal DEF TypeInv
  <2>3. s'[c] \in Session /\ ReceivedSome(c)'
    BY <2>1, StepKeepsSession DEF TypeInv
  <2>4. TypeOK'
    BY <2>2, <2>3 DEF TypeInv, TypeOK
  <2>5. ASSUME NEW d \in Conns PROVE ReceivedSome(d)'
    BY <2>2, <2>3 DEF TypeInv, TypeOK, ReceivedSome
  <2> QED
    BY <2>4, <2>5 DEF TypeInv
<1>2. CASE UNCHANGED vars
  BY <1>2 DEF vars, TypeInv, TypeOK, ReceivedSome
<1> QED
  BY <1>1, <1>2

LEMMA InitType == Init => TypeInv
<1> SUFFICES ASSUME Init PROVE TypeInv
  OBVIOUS
<1>1. NewSession \in Session
  BY DEF NewSession, Session, Points, ReaderPoints
<1>2. Len(NewSession.wsIn) <= NewSession.sent
  BY DEF NewSession
<1> QED
  BY <1>1, <1>2 DEF Init, TypeInv, TypeOK, ReceivedSome

LEMMA TypeHolds == Spec => []TypeInv
<1> QED
  BY InitType, NextType, PTL DEF Spec

\* Every field of every connection keeps its type.
THEOREM TypeCorrect == Spec => []TypeOK
<1>1. TypeInv => TypeOK
  BY DEF TypeInv
<1> QED
  BY <1>1, TypeHolds, PTL

-----------------------------------------------------------------------------
(* The bridge: who has registered it, connected it and started its reader. *)

\* Without a bridge there is nothing: no entry, no connection, no reader.
Unbridged(c) ==
  ~s[c].bridge => /\ c \notin registry
                  /\ s[c].writer = "none"
                  /\ s[c].reader = "none"
                  /\ ~s[c].cancel /\ ~s[c].stopped
                  /\ s[c].pc \notin {"connecting", "failing", "login", "drain",
                                     "joining", "closing"}

\* A bridge is registered before it connects, and its reader starts last.
BridgeStarts(c) ==
  s[c].bridge =>
    /\ s[c].pc \notin {"accept", "refusing", "replying"}
    /\ s[c].pc \in {"connecting", "failing"} =>
         s[c].writer = "none" /\ s[c].reader = "none"
    /\ s[c].pc = "login" => s[c].writer = "open" /\ s[c].reader = "none"
    /\ s[c].reader = "none" => /\ s[c].pc \in {"connecting", "failing", "login"}
                               /\ c \in registry
                               /\ ~s[c].stopped

\* Only a joining handler has a cancellation pending; a handler goes on to close
\* when the reader has ended, and removes the entry last.
BridgeEnds(c) ==
  /\ s[c].cancel => s[c].pc = "joining"
  /\ s[c].pc = "closing" => s[c].reader = "done" /\ s[c].writer = "closed"
  /\ s[c].pc = "done" /\ s[c].bridge => /\ s[c].reader = "done"
                                        /\ s[c].writer = "closed"
                                        /\ c \notin registry

\* A reader that runs has its bridge in the registry.
ReaderRegistered(c) ==
  s[c].reader \in {"read", "flush", "selfAwait", "closing"} => c \in registry

BridgeInv(c) ==
  Unbridged(c) /\ BridgeStarts(c) /\ BridgeEnds(c) /\ ReaderRegistered(c)

\* A step of a connection keeps its BridgeInv.
LEMMA StepKeepsBridge ==
  ASSUME TypeOK, NEW c \in Conns, BridgeInv(c), Step(c)
  PROVE  BridgeInv(c)'
<1> USE DEF BridgeInv, Unbridged, BridgeStarts, BridgeEnds, ReaderRegistered
<1>s. s[c] \in Session
  BY DEF TypeOK
<1>t. /\ s[c].pc \in Points /\ s[c].reader \in ReaderPoints
      /\ s[c].bridge \in BOOLEAN /\ s[c].cancel \in BOOLEAN
      /\ s[c].stopped \in BOOLEAN
  BY <1>s DEF Session
<1>1. CASE Handler(c)
  <2>1. CASE Admit(c)
    BY <2>1, <1>s, <1>t DEF Admit, Moves, TypeOK, Session, Points, ReaderPoints
  <2>2. CASE Refuse(c)
    BY <2>2, <1>s, <1>t DEF Refuse, Moves, TypeOK, Session, Points, ReaderPoints
  <2>3. CASE Refused(c)
    BY <2>3, <1>s, <1>t DEF Refused, TypeOK, Session, Points, ReaderPoints
  <2>4. CASE RefuseLogin(c)
    BY <2>4, <1>s, <1>t DEF RefuseLogin, ReceivesLogin, Receives, TypeOK,
       Session, Points, ReaderPoints
  <2>5. CASE Replied(c)
    BY <2>5, <1>s, <1>t DEF Replied, Moves, TypeOK, Session, Points, ReaderPoints
  <2>6. CASE Raises(c)
    BY <2>6, <1>s, <1>t DEF Raises, ReceivesLogin, Receives, TypeOK, Session,
       Points, ReaderPoints
  <2>7. CASE Login(c)
    BY <2>7, <1>s, <1>t DEF Login, ReceivesLogin, Receives, TypeOK, Session,
       Points, ReaderPoints
  <2>8. CASE Connect(c)
    BY <2>8, <1>s, <1>t DEF Connect, TypeOK, Session, Points, ReaderPoints
  <2>9. CASE ConnectFails(c)
    BY <2>9, <1>s, <1>t DEF ConnectFails, Moves, TypeOK, Session, Points,
       ReaderPoints
  <2>10. CASE Failed(c)
    BY <2>10, <1>s, <1>t DEF Failed, TypeOK, Session, Points, ReaderPoints
  <2>11. CASE LoggedIn(c)
    BY <2>11, <1>s, <1>t DEF LoggedIn, TypeOK, Session, Points, ReaderPoints
  <2>12. CASE Forward(c)
    BY <2>12, <1>s, <1>t DEF Forward, Receives, TypeOK, Session, Points,
       ReaderPoints
  <2>13. CASE DropMessage(c)
    BY <2>13, <1>s, <1>t DEF DropMessage, Receives, TypeOK, Session, Points,
       ReaderPoints
  <2>14. CASE Drained(c)
    BY <2>14, <1>s, <1>t DEF Drained, Moves, TypeOK, Session, Points, ReaderPoints
  <2>15. CASE LeaveUnbridged(c)
    BY <2>15, <1>s, <1>t DEF LeaveUnbridged, Moves, Disconnected, TypeOK,
       Session, Points, ReaderPoints
  <2>16. CASE CancelReader(c)
    BY <2>16, <1>s, <1>t DEF CancelReader, Disconnected, TypeOK, Session,
       Points, ReaderPoints
  <2>17. CASE CloseWriter(c)
    BY <2>17, <1>s, <1>t DEF CloseWriter, Disconnected, TypeOK, Session,
       Points, ReaderPoints
  <2>18. CASE Closed(c)
    BY <2>18, <1>s, <1>t DEF Closed, TypeOK, Session, Points, ReaderPoints
  <2>19. CASE ConnectTooLong(c)
    BY <2>19, <1>s, <1>t DEF ConnectTooLong, TypeOK, Session, Points, ReaderPoints
  <2> QED
    BY <1>1, <2>1, <2>2, <2>3, <2>4, <2>5, <2>6, <2>7, <2>8, <2>9, <2>10,
       <2>11, <2>12, <2>13, <2>14, <2>15, <2>16, <2>17, <2>18, <2>19 DEF Handler
<1>2. CASE Reader(c)
  <2>1. CASE ReadPacket(c)
    BY <2>1, <1>s, <1>t DEF ReadPacket, Reads, At, TypeOK, Session, Points,
       ReaderPoints
  <2>2. CASE SkipHeader(c)
    BY <2>2, <1>s, <1>t DEF SkipHeader, Reads, At, TypeOK, Session, Points,
       ReaderPoints
  <2>3. CASE Flushed(c)
    BY <2>3, <1>s, <1>t DEF Flushed, At, TypeOK, Session, Points, ReaderPoints
  <2>4. CASE FlushFails(c)
    BY <2>4, <1>s, <1>t DEF FlushFails, At, TypeOK, Session, Points, ReaderPoints
  <2>5. CASE Eof(c)
    BY <2>5, <1>s, <1>t DEF Eof, StopReading, At, TypeOK, Session, Points,
       ReaderPoints
  <2>6. CASE CloseFromReader(c)
    BY <2>6, <1>s, <1>t DEF CloseFromReader, TypeOK, Session, Points, ReaderPoints
  <2>7. CASE ClosedByReader(c)
    BY <2>7, <1>s, <1>t DEF ClosedByReader, At, TypeOK, Session, Points,
       ReaderPoints
  <2>8. CASE Cancelled(c)
    BY <2>8, <1>s, <1>t DEF Cancelled, TypeOK, Session, Points, ReaderPoints
  <2>9. CASE ReadTail(c)
    BY <2>9, <1>s, <1>t DEF ReadTail, Reads, At, TypeOK, Session, Points,
       ReaderPoints
  <2> QED
    BY <1>2, <2>1, <2>2, <2>3, <2>4, <2>5, <2>6, <2>7, <2>8, <2>9 DEF Reader
<1>3. CASE ReadTimeout(c)
  BY <1>3, <1>s, <1>t DEF ReadTimeout, StopReading, At, TypeOK, Session,
     ReaderPoints
<1>4. CASE Environment(c)
  <2>1. /\ s'[c].pc = s[c].pc /\ s'[c].bridge = s[c].bridge
        /\ s'[c].writer = s[c].writer /\ s'[c].reader = s[c].reader
        /\ s'[c].cancel = s[c].cancel /\ s'[c].stopped = s[c].stopped
        /\ registry' = registry
    <3>1. CASE ClientSends(c)
      BY <3>1, <1>s DEF ClientSends, TypeOK, Session
    <3>2. CASE ClientCloses(c)
      BY <3>2, <1>s DEF ClientCloses, TypeOK, Session
    <3>3. CASE ServerWrites(c)
      BY <3>3, <1>s DEF ServerWrites, TypeOK, Session
    <3>4. CASE ServerCloses(c)
      BY <3>4, <1>s DEF ServerCloses, TypeOK, Session
    <3> QED
      BY <1>4, <3>1, <3>2, <3>3, <3>4 DEF Environment
  <2> QED
    BY <2>1
<1> QED
  BY <1>1, <1>2, <1>3, <1>4 DEF Step

SessionsInv == TypeInv /\ \A c \in Conns : BridgeInv(c)

LEMMA NextSessions ==
  ASSUME SessionsInv, [Next]_vars
  PROVE  SessionsInv'
<1>1. TypeInv'
  BY NextType DEF SessionsInv
<1>2. ASSUME NEW d \in Conns PROVE BridgeInv(d)'
  <2>1. CASE Next
    <3>1. PICK c \in Conns : Step(c)
      BY <2>1 DEF Next, Step
    <3>2. CASE c = d
      BY <3>1, <3>2, StepKeepsBridge DEF SessionsInv, TypeInv
    <3>3. CASE c # d
      <4>1. /\ s' = [s EXCEPT ![c] = s'[c]]
            /\ registry' \in {registry, registry \cup {c}, registry \ {c}}
        BY <3>1, StepIsLocal DEF SessionsInv, TypeInv
      <4>2. s'[d] = s[d] /\ (d \in registry' <=> d \in registry)
        BY <3>3, <4>1 DEF SessionsInv, TypeInv, TypeOK
      <4> QED
        BY <4>2 DEF SessionsInv, BridgeInv, Unbridged, BridgeStarts, BridgeEnds,
           ReaderRegistered
    <3> QED
      BY <3>2, <3>3
  <2>2. CASE UNCHANGED vars
    BY <2>2 DEF vars, SessionsInv, BridgeInv, Unbridged, BridgeStarts, BridgeEnds,
       ReaderRegistered
  <2> QED
    BY <2>1, <2>2
<1> QED
  BY <1>1, <1>2 DEF SessionsInv

LEMMA SessionsHold == Spec => []SessionsInv
<1>1. Init => SessionsInv
  BY InitType DEF Init, NewSession, SessionsInv, BridgeInv, Unbridged,
     BridgeStarts,
     BridgeEnds, ReaderRegistered
<1> QED
  BY <1>1, NextSessions, PTL DEF Spec

\* When a handler has returned, nothing of its connection is left, whichever of
\* handler and reader closed the bridge (CivBridge.close).
THEOREM NothingIsLeft == Spec => []NothingLeaks
<1>1. SessionsInv => NothingLeaks
  BY DEF SessionsInv, BridgeInv, Unbridged, BridgeStarts, BridgeEnds, NothingLeaks
<1> QED
  BY <1>1, SessionsHold, PTL

\* _connections holds the bridges that have a handler, and every bridge that is
\* forwarding (handle_civsocket, CivBridge.close).
THEOREM RegistryIsExact == Spec => []RegistryMatches
<1>1. SessionsInv => RegistryMatches
  BY DEF SessionsInv, BridgeInv, Unbridged, BridgeStarts, BridgeEnds,
     ReaderRegistered, RegistryMatches
<1> QED
  BY <1>1, SessionsHold, PTL

-----------------------------------------------------------------------------
(* The pipe from the server to the client.                                 *)

\* What has not been read is the end of what was written, and as long as the
\* WebSocket is open the client has all that was read.
PipeInv(c) ==
  /\ Len(s[c].tcpIn) <= s[c].written
  /\ \A i \in 1..Len(s[c].tcpIn) :
       s[c].tcpIn[i] = [n |-> s[c].written - Len(s[c].tcpIn) + i, part |-> "whole"]
  /\ s[c].wsOpen => Len(s[c].wsOut) = s[c].written - Len(s[c].tcpIn)

\* Does a step of c leave the two ends of the pipe alone, or close the WebSocket?
PipeIdle(c) ==
  /\ s'[c].tcpIn = s[c].tcpIn
  /\ s'[c].written = s[c].written
  /\ s'[c].wsOut = s[c].wsOut
  /\ s'[c].wsOpen => s[c].wsOpen

LEMMA MostStepsIdle ==
  ASSUME TypeOK, NEW c \in Conns, Step(c), ~ReadPacket(c), ~SkipHeader(c),
         ~ReadTail(c), ~ServerWrites(c)
  PROVE  PipeIdle(c)
<1>s. s[c] \in Session
  BY DEF TypeOK
<1> USE DEF PipeIdle
<1>1. CASE Handler(c)
  <2>1. CASE Admit(c)
    BY <2>1, <1>s DEF Admit, Moves, TypeOK, Session
  <2>2. CASE Refuse(c)
    BY <2>2, <1>s DEF Refuse, Moves, TypeOK, Session
  <2>3. CASE Refused(c)
    BY <2>3, <1>s DEF Refused, TypeOK, Session
  <2>4. CASE RefuseLogin(c)
    BY <2>4, <1>s DEF RefuseLogin, ReceivesLogin, Receives, TypeOK, Session
  <2>5. CASE Replied(c)
    BY <2>5, <1>s DEF Replied, Moves, TypeOK, Session
  <2>6. CASE Raises(c)
    BY <2>6, <1>s DEF Raises, TypeOK, Session
  <2>7. CASE Login(c)
    BY <2>7, <1>s DEF Login, ReceivesLogin, Receives, TypeOK, Session
  <2>8. CASE Connect(c)
    BY <2>8, <1>s DEF Connect, TypeOK, Session
  <2>9. CASE ConnectFails(c)
    BY <2>9, <1>s DEF ConnectFails, Moves, TypeOK, Session
  <2>10. CASE Failed(c)
    BY <2>10, <1>s DEF Failed, TypeOK, Session
  <2>11. CASE LoggedIn(c)
    BY <2>11, <1>s DEF LoggedIn, TypeOK, Session
  <2>12. CASE Forward(c)
    BY <2>12, <1>s DEF Forward, Receives, TypeOK, Session
  <2>13. CASE DropMessage(c)
    BY <2>13, <1>s DEF DropMessage, Receives, TypeOK, Session
  <2>14. CASE Drained(c)
    BY <2>14, <1>s DEF Drained, Moves, TypeOK, Session
  <2>15. CASE LeaveUnbridged(c)
    BY <2>15, <1>s DEF LeaveUnbridged, Moves, TypeOK, Session
  <2>16. CASE CancelReader(c)
    BY <2>16, <1>s DEF CancelReader, TypeOK, Session
  <2>17. CASE CloseWriter(c)
    BY <2>17, <1>s DEF CloseWriter, TypeOK, Session
  <2>18. CASE Closed(c)
    BY <2>18, <1>s DEF Closed, TypeOK, Session
  <2>19. CASE ConnectTooLong(c)
    BY <2>19, <1>s DEF ConnectTooLong, TypeOK, Session
  <2> QED
    BY <1>1, <2>1, <2>2, <2>3, <2>4, <2>5, <2>6, <2>7, <2>8, <2>9, <2>10,
       <2>11, <2>12, <2>13, <2>14, <2>15, <2>16, <2>17, <2>18, <2>19 DEF Handler
<1>2. CASE Reader(c)
  <2>1. CASE Flushed(c)
    BY <2>1, <1>s DEF Flushed, TypeOK, Session
  <2>2. CASE FlushFails(c)
    BY <2>2, <1>s DEF FlushFails, TypeOK, Session
  <2>3. CASE Eof(c)
    BY <2>3, <1>s DEF Eof, StopReading, TypeOK, Session
  <2>4. CASE CloseFromReader(c)
    BY <2>4, <1>s DEF CloseFromReader, TypeOK, Session
  <2>5. CASE ClosedByReader(c)
    BY <2>5, <1>s DEF ClosedByReader, TypeOK, Session
  <2>6. CASE Cancelled(c)
    BY <2>6, <1>s DEF Cancelled, TypeOK, Session
  <2> QED
    BY <1>2, <2>1, <2>2, <2>3, <2>4, <2>5, <2>6 DEF Reader
<1>3. CASE ReadTimeout(c)
  BY <1>3, <1>s DEF ReadTimeout, StopReading, TypeOK, Session
<1>4. CASE Environment(c)
  <2>1. CASE ClientSends(c)
    BY <2>1, <1>s DEF ClientSends, TypeOK, Session
  <2>2. CASE ClientCloses(c)
    BY <2>2, <1>s DEF ClientCloses, TypeOK, Session
  <2>3. CASE ServerCloses(c)
    BY <2>3, <1>s DEF ServerCloses, TypeOK, Session
  <2> QED
    BY <1>4, <2>1, <2>2, <2>3 DEF Environment
<1> QED
  BY <1>1, <1>2, <1>3, <1>4 DEF Step

\* Without oversized packets a step puts a packet in, takes one out, or does
\* neither.
LEMMA StepKeepsPipe ==
  ASSUME TypeOK, ~Oversize, NEW c \in Conns, PipeInv(c), Step(c)
  PROVE  PipeInv(c)' /\ [Down(c)!Next]_(Down(c)!pipeVars)
<1>q. /\ s[c] \in Session
      /\ s[c].tcpIn \in Seq(Packets) /\ Len(s[c].tcpIn) \in Nat
      /\ s[c].wsOut \in Seq(Nat) /\ s[c].written \in Nat
  BY DEF TypeOK, Session
<1>1. CASE ReadPacket(c)
  <2>1. /\ s[c].tcpIn # << >>
        /\ s'[c] = [s[c] EXCEPT !.tcpIn = Tail(@), !.reader = "flush",
                                !.wsOut = Frames(c, Head(s[c].tcpIn).n)]
    BY <1>1 DEF ReadPacket, Reads, TypeOK
  <2>2. /\ s'[c].tcpIn = Tail(s[c].tcpIn)
        /\ s'[c].wsOut = Frames(c, Head(s[c].tcpIn).n)
        /\ s'[c].written = s[c].written
        /\ s'[c].wsOpen = s[c].wsOpen
    BY <2>1, <1>q DEF Session
  <2>3. /\ Len(s[c].tcpIn) \in Nat \ {0}
        /\ Len(Tail(s[c].tcpIn)) = Len(s[c].tcpIn) - 1
        /\ \A i \in 1..Len(s[c].tcpIn) - 1 : Tail(s[c].tcpIn)[i] = s[c].tcpIn[i + 1]
        /\ Head(s[c].tcpIn) = s[c].tcpIn[1]
    BY <2>1, <1>q, HeadTail
  <2>4. Head(s[c].tcpIn).n = s[c].written - Len(s[c].tcpIn) + 1
    <3>1. s[c].tcpIn[1] = [n |-> s[c].written - Len(s[c].tcpIn) + 1, part |-> "whole"]
      BY <2>3 DEF PipeInv
    <3> QED
      BY <2>3, <3>1
  <2>tail. /\ Len(s'[c].tcpIn) <= s'[c].written
        /\ \A i \in 1..Len(s'[c].tcpIn) :
             s'[c].tcpIn[i] = [n |-> s'[c].written - Len(s'[c].tcpIn) + i,
                               part |-> "whole"]
    <3>1. Len(s'[c].tcpIn) = Len(s[c].tcpIn) - 1
      BY <2>2, <2>3
    <3>2. ASSUME NEW i \in 1..Len(s'[c].tcpIn)
          PROVE  s'[c].tcpIn[i] = [n |-> s'[c].written - Len(s'[c].tcpIn) + i,
                                   part |-> "whole"]
      <4>1. i \in 1..Len(s[c].tcpIn) - 1 /\ i + 1 \in 1..Len(s[c].tcpIn)
        BY <1>q, <3>1
      <4>2. s'[c].tcpIn[i] = s[c].tcpIn[i + 1]
        BY <2>2, <2>3, <4>1
      <4>3. s[c].tcpIn[i + 1] =
              [n |-> s[c].written - Len(s[c].tcpIn) + (i + 1), part |-> "whole"]
        BY <4>1 DEF PipeInv
      <4>4. s'[c].written = s[c].written
        BY <2>2
      <4>5. i \in Int /\ s[c].written \in Int /\ Len(s[c].tcpIn) \in Int
        BY <1>q, <4>1
      <4>6. s[c].written - Len(s[c].tcpIn) + (i + 1) =
              s[c].written - (Len(s[c].tcpIn) - 1) + i
        BY <4>5
      <4>7. s[c].written - (Len(s[c].tcpIn) - 1) + i =
              s'[c].written - Len(s'[c].tcpIn) + i
        BY <3>1, <4>4
      <4> QED
        BY <4>2, <4>3, <4>6, <4>7
    <3>3. Len(s[c].tcpIn) <= s[c].written
      BY DEF PipeInv
    <3> QED
      BY <1>q, <2>2, <3>1, <3>2, <3>3
  <2>5. CASE s[c].wsOpen
    <3>1. s'[c].wsOut = Append(s[c].wsOut, Head(s[c].tcpIn).n)
      BY <2>2, <2>5 DEF Frames
    <3>2. Len(s'[c].wsOut) = Len(s[c].wsOut) + 1
      BY <3>1, <1>q
    <3>3. PipeInv(c)'
      <4>1. Len(s[c].wsOut) = s[c].written - Len(s[c].tcpIn)
        BY <2>5 DEF PipeInv
      <4>2. Len(s'[c].tcpIn) = Len(s[c].tcpIn) - 1 /\ s'[c].written = s[c].written
        BY <2>2, <2>3
      <4>3. Len(s[c].wsOut) + 1 = s[c].written - (Len(s[c].tcpIn) - 1)
        BY <1>q, <4>1
      <4>4. Len(s'[c].wsOut) = s'[c].written - Len(s'[c].tcpIn)
        BY <3>2, <4>2, <4>3
      <4> QED
        BY <2>tail, <4>4 DEF PipeInv
    <3>4. Head(s[c].tcpIn).n = Len(s[c].wsOut) + 1
          /\ Len(s[c].wsOut) + 1 \in 1..s[c].written
      BY <1>q, <2>3, <2>4, <2>5 DEF PipeInv
    <3>5. Len([i \in 1..s[c].written |-> i]) = s[c].written
      BY <1>q
    <3>6. Down(c)!Deliver
      BY <1>q, <2>2, <3>1, <3>4, <3>5 DEF Down!Deliver
    <3> QED
      BY <3>3, <3>6 DEF Down!Next
  <2>6. CASE ~s[c].wsOpen
    <3>1. s'[c].wsOut = s[c].wsOut
      BY <2>2, <2>6 DEF Frames
    <3>2. PipeInv(c)'
      BY <2>tail, <2>2, <2>6 DEF PipeInv
    <3> QED
      BY <2>2, <3>1, <3>2 DEF Down!pipeVars
  <2> QED
    BY <2>5, <2>6
<1>2. CASE SkipHeader(c) \/ ReadTail(c)
  <2>1. /\ s[c].tcpIn # << >>
        /\ Head(s[c].tcpIn).part \in {"big", "tail"}
    BY <1>2 DEF SkipHeader, ReadTail, Reads
  <2>2. Head(s[c].tcpIn) = s[c].tcpIn[1] /\ 1 \in 1..Len(s[c].tcpIn)
    BY <2>1, <1>q, HeadTail
  <2>3. s[c].tcpIn[1] = [n |-> s[c].written - Len(s[c].tcpIn) + 1, part |-> "whole"]
    BY <2>2 DEF PipeInv
  <2> QED
    BY <2>1, <2>2, <2>3
<1>3. CASE ServerWrites(c)
  <2> DEFINE pkt == [n |-> s[c].written + 1, part |-> "whole"]
  <2>1. s'[c] = [s[c] EXCEPT !.written = @ + 1, !.tcpIn = Append(@, pkt)]
    BY <1>3 DEF ServerWrites, TypeOK
  <2>2. /\ s'[c].tcpIn = Append(s[c].tcpIn, pkt)
        /\ s'[c].written = s[c].written + 1
        /\ s'[c].wsOut = s[c].wsOut
        /\ s'[c].wsOpen = s[c].wsOpen
    BY <2>1, <1>q DEF Session
  <2>3. pkt \in Packets
    BY <1>q DEF Packets
  <2>4. /\ Len(Append(s[c].tcpIn, pkt)) = Len(s[c].tcpIn) + 1
        /\ \A i \in 1..Len(s[c].tcpIn) : Append(s[c].tcpIn, pkt)[i] = s[c].tcpIn[i]
        /\ Append(s[c].tcpIn, pkt)[Len(s[c].tcpIn) + 1] = pkt
    BY <1>q, <2>3
  <2>5. PipeInv(c)'
    <3>1. ASSUME NEW i \in 1..Len(s'[c].tcpIn)
          PROVE  s'[c].tcpIn[i] = [n |-> s'[c].written - Len(s'[c].tcpIn) + i,
                                   part |-> "whole"]
      <4>1. CASE i \in 1..Len(s[c].tcpIn)
        BY <1>q, <2>2, <2>4, <4>1 DEF PipeInv
      <4>2. CASE i = Len(s[c].tcpIn) + 1
        BY <1>q, <2>2, <2>4, <4>2 DEF PipeInv
      <4> QED
        BY <1>q, <2>2, <2>4, <3>1, <4>1, <4>2
    <3> QED
      BY <1>q, <2>2, <2>4, <3>1 DEF PipeInv
  <2>6. [i \in 1..s'[c].written |-> i] =
          Append([i \in 1..s[c].written |-> i], Len([i \in 1..s[c].written |-> i]) + 1)
    <3>1. Len([i \in 1..s[c].written |-> i]) = s[c].written
      BY <1>q
    <3> QED
      BY <1>q, <2>2, <3>1
  <2> QED
    BY <2>2, <2>5, <2>6 DEF Down!Next, Down!Put
<1>4. CASE ~ReadPacket(c) /\ ~SkipHeader(c) /\ ~ReadTail(c) /\ ~ServerWrites(c)
  <2>1. PipeIdle(c)
    BY <1>4, MostStepsIdle
  <2> QED
    BY <2>1 DEF PipeIdle, PipeInv, Down!pipeVars
<1> QED
  BY <1>1, <1>2, <1>3, <1>4

PipesInv == TypeInv /\ \A c \in Conns : PipeInv(c)

LEMMA NextPipes ==
  ASSUME PipesInv, ~Oversize, [Next]_vars
  PROVE  /\ PipesInv'
         /\ \A c \in Conns : [Down(c)!Next]_(Down(c)!pipeVars)
<1>1. TypeInv'
  BY NextType DEF PipesInv
<1>2. ASSUME NEW d \in Conns
      PROVE  PipeInv(d)' /\ [Down(d)!Next]_(Down(d)!pipeVars)
  <2>1. CASE Next
    <3>1. PICK c \in Conns : Step(c)
      BY <2>1 DEF Next, Step
    <3>2. CASE c = d
      BY <3>1, <3>2, StepKeepsPipe DEF PipesInv, TypeInv
    <3>3. CASE c # d
      <4>1. s' = [s EXCEPT ![c] = s'[c]]
        BY <3>1, StepIsLocal DEF PipesInv, TypeInv
      <4>2. s'[d] = s[d]
        BY <3>3, <4>1 DEF PipesInv, TypeInv, TypeOK
      <4> QED
        BY <4>2 DEF PipesInv, PipeInv, Down!pipeVars
    <3> QED
      BY <3>2, <3>3
  <2>2. CASE UNCHANGED vars
    BY <2>2 DEF vars, PipesInv, PipeInv, Down!pipeVars
  <2> QED
    BY <2>1, <2>2
<1> QED
  BY <1>1, <1>2 DEF PipesInv

\* As long as the server announces no length that the proxy rejects, every
\* client is at the end of a pipe from the server: it gets the server's packets
\* in order, each once, none left out (CivBridge._server_reader_loop).
THEOREM ClientsHavePipes ==
  ASSUME ~Oversize
  PROVE  Spec => DownRefined
<1>1. Init => PipesInv /\ \A c \in Conns : Down(c)!Init
  <2> SUFFICES ASSUME Init PROVE PipesInv /\ \A c \in Conns : Down(c)!Init
    OBVIOUS
  <2>1. \A d \in Conns : /\ s[d].tcpIn = << >> /\ s[d].written = 0
                         /\ s[d].wsOut = << >>
    BY DEF Init, NewSession
  <2>2. PipesInv
    BY <2>1, InitType DEF PipesInv, PipeInv
  <2>3. \A c \in Conns : [i \in 1..s[c].written |-> i] = << >>
    BY <2>1
  <2> QED
    BY <2>1, <2>2, <2>3 DEF Down!Init
<1>2. PipesInv /\ [Next]_vars
        => PipesInv' /\ \A c \in Conns : [Down(c)!Next]_(Down(c)!pipeVars)
  BY NextPipes
<1> QED
  BY <1>1, <1>2, PTL DEF Spec, DownRefined

-----------------------------------------------------------------------------
(* What the client sends, on its way to the server.                        *)

\* What the server got is the client's messages in order but for those too long; a
\* bridge that still writes to it has written all others that were received; and
\* nothing was written to it before the bridge connected.
InOrder(c, got) ==
  \A i \in 1..Len(got) - 1 :
    /\ got[i] < got[i + 1]
    /\ (got[i] + 1)..(got[i + 1] - 1) \subseteq s[c].long

GotAll(c, got, n) ==
  IF got = << >>
  THEN n \in s[c].long
  ELSE got[Len(got)] <= n /\ (got[Len(got)] + 1)..n \subseteq s[c].long

UpInv(c) ==
  /\ InOrder(c, s[c].srvGot)
  /\ s[c].srvOpen /\ ~s[c].stopped => GotAll(c, s[c].srvGot, Received(c))
  /\ ~s[c].bridge \/ s[c].pc \in {"connecting", "failing"} =>
       s[c].srvGot = << >> /\ ~s[c].srvOpen

\* Does a step of c leave that direction alone, or break it off?
UpIdle(c) ==
  /\ s'[c].srvGot = s[c].srvGot
  /\ s'[c].srvOpen => s[c].srvOpen
  /\ s[c].stopped => s'[c].stopped
  /\ s[c].long \subseteq s'[c].long
  /\ Received(c)' = Received(c)
  /\ ~s'[c].bridge => ~s[c].bridge
  /\ s'[c].pc \in {"connecting", "failing"} => s[c].pc \in {"connecting", "failing"}

LEMMA MostStepsLeaveUp ==
  ASSUME TypeOK, NEW c \in Conns, Step(c), ~RefuseLogin(c), ~Login(c), ~Connect(c),
         ~ConnectTooLong(c), ~Failed(c), ~Forward(c), ~DropMessage(c)
  PROVE  UpIdle(c)
<1>s. s[c] \in Session
  BY DEF TypeOK
<1> USE DEF UpIdle, Received
<1>1. CASE Handler(c)
  <2>1. CASE Admit(c)
    BY <2>1, <1>s DEF Admit, Moves, TypeOK, Session
  <2>2. CASE Refuse(c)
    BY <2>2, <1>s DEF Refuse, Moves, TypeOK, Session
  <2>3. CASE Refused(c)
    BY <2>3, <1>s DEF Refused, TypeOK, Session
  <2>4. CASE Replied(c)
    BY <2>4, <1>s DEF Replied, Moves, TypeOK, Session
  <2>5. CASE Raises(c)
    BY <2>5, <1>s DEF Raises, TypeOK, Session
  <2>6. CASE ConnectFails(c)
    BY <2>6, <1>s DEF ConnectFails, Moves, TypeOK, Session
  <2>7. CASE LoggedIn(c)
    BY <2>7, <1>s DEF LoggedIn, TypeOK, Session
  <2>8. CASE Drained(c)
    BY <2>8, <1>s DEF Drained, Moves, TypeOK, Session
  <2>9. CASE LeaveUnbridged(c)
    BY <2>9, <1>s DEF LeaveUnbridged, Moves, Disconnected, TypeOK, Session
  <2>10. CASE CancelReader(c)
    BY <2>10, <1>s DEF CancelReader, Disconnected, TypeOK, Session
  <2>11. CASE CloseWriter(c)
    BY <2>11, <1>s DEF CloseWriter, Disconnected, TypeOK, Session
  <2>12. CASE Closed(c)
    BY <2>12, <1>s DEF Closed, TypeOK, Session
  <2> QED
    BY <1>1, <2>1, <2>2, <2>3, <2>4, <2>5, <2>6, <2>7, <2>8, <2>9, <2>10, <2>11, <2>12 DEF Handler
<1>2. CASE Reader(c)
  <2>1. CASE ReadPacket(c)
    BY <2>1, <1>s DEF ReadPacket, Reads, At, TypeOK, Session
  <2>2. CASE SkipHeader(c)
    BY <2>2, <1>s DEF SkipHeader, Reads, At, TypeOK, Session
  <2>3. CASE ReadTail(c)
    BY <2>3, <1>s DEF ReadTail, Reads, At, TypeOK, Session
  <2>4. CASE Flushed(c)
    BY <2>4, <1>s DEF Flushed, At, TypeOK, Session
  <2>5. CASE FlushFails(c)
    BY <2>5, <1>s DEF FlushFails, At, TypeOK, Session
  <2>6. CASE Eof(c)
    BY <2>6, <1>s DEF Eof, StopReading, At, TypeOK, Session
  <2>7. CASE CloseFromReader(c)
    BY <2>7, <1>s DEF CloseFromReader, TypeOK, Session
  <2>8. CASE ClosedByReader(c)
    BY <2>8, <1>s DEF ClosedByReader, At, TypeOK, Session
  <2>9. CASE Cancelled(c)
    BY <2>9, <1>s DEF Cancelled, TypeOK, Session
  <2> QED
    BY <1>2, <2>1, <2>2, <2>3, <2>4, <2>5, <2>6, <2>7, <2>8, <2>9 DEF Reader
<1>3. CASE ReadTimeout(c)
  BY <1>3, <1>s DEF ReadTimeout, StopReading, At, TypeOK, Session
<1>4. CASE Environment(c)
  <2>1. CASE ClientSends(c)
    <3>1. PICK kind \in Kinds, long \in {{}, {s[c].sent + 1}} :
            s'[c] = [s[c] EXCEPT !.wsIn = Append(@, kind), !.sent = @ + 1,
                                 !.long = @ \cup long]
      BY <2>1 DEF ClientSends, TypeOK
    <3>2. /\ s[c].wsIn \in Seq(Kinds) /\ s[c].sent \in Nat /\ Len(s[c].wsIn) \in Nat
          /\ s'[c].wsIn = Append(s[c].wsIn, kind) /\ s'[c].sent = s[c].sent + 1
      BY <1>s, <3>1 DEF Session
    <3>3. Len(s'[c].wsIn) = Len(s[c].wsIn) + 1
      BY <3>2
    <3>4. (s[c].sent + 1) - (Len(s[c].wsIn) + 1) = s[c].sent - Len(s[c].wsIn)
      <4>1. s[c].sent \in Int /\ Len(s[c].wsIn) \in Int
        BY <3>2
      <4> QED
        BY <4>1
    <3>5. Received(c)' = Received(c)
      BY <3>2, <3>3, <3>4
    <3> QED
      BY <1>s, <3>1, <3>5 DEF Session
  <2>2. CASE ClientCloses(c)
    BY <2>2, <1>s DEF ClientCloses, TypeOK, Session
  <2>3. CASE ServerWrites(c)
    BY <2>3, <1>s DEF ServerWrites, TypeOK, Session
  <2>4. CASE ServerCloses(c)
    BY <2>4, <1>s DEF ServerCloses, TypeOK, Session
  <2> QED
    BY <1>4, <2>1, <2>2, <2>3, <2>4 DEF Environment
<1> QED
  BY <1>1, <1>2, <1>3, <1>4 DEF Step

LEMMA StepKeepsUp ==
  ASSUME TypeOK, NEW c \in Conns, BridgeInv(c), UpInv(c), ReceivedSome(c), Step(c)
  PROVE  UpInv(c)'
<1>s. /\ s[c] \in Session
      /\ s[c].srvGot \in Seq(Nat) /\ Len(s[c].srvGot) \in Nat
      /\ s[c].wsIn \in Seq(Kinds) /\ Len(s[c].wsIn) \in Nat /\ s[c].sent \in Nat
  BY DEF TypeOK, Session
<1>r. Received(c) \in Nat
  BY <1>s DEF Received, ReceivedSome
<1>e. InOrder(c, << >>)'
  BY DEF InOrder
<1>1. CASE RefuseLogin(c) \/ Login(c)
  <2>1. /\ ~s[c].bridge
        /\ s'[c].srvGot = s[c].srvGot /\ s'[c].srvOpen = s[c].srvOpen
    BY <1>1, <1>s DEF RefuseLogin, Login, ReceivesLogin, Receives, TypeOK, Session
  <2>2. s'[c].srvGot = << >> /\ ~s'[c].srvOpen
    BY <2>1 DEF UpInv
  <2> QED
    BY <2>2, <1>e DEF UpInv
<1>2. CASE Failed(c)
  <2>1. /\ s[c].pc = "failing"
        /\ s'[c].srvGot = s[c].srvGot /\ s'[c].srvOpen = s[c].srvOpen
    BY <1>2, <1>s DEF Failed, TypeOK, Session
  <2>2. s'[c].srvGot = << >> /\ ~s'[c].srvOpen
    BY <2>1 DEF UpInv
  <2> QED
    BY <2>2, <1>e DEF UpInv
<1>3. CASE Connect(c)
  <2>1. /\ s[c].pc = "connecting"
        /\ s'[c] = [s[c] EXCEPT !.writer = "open", !.srvOpen = TRUE, !.pc = "login",
                                !.srvGot = Append(@, Received(c))]
    BY <1>3 DEF Connect, TypeOK
  <2>2. s[c].srvGot = << >> /\ s[c].bridge
    BY <2>1 DEF UpInv, BridgeInv, Unbridged
  <2>3. /\ s'[c].srvGot = Append(<< >>, Received(c))
        /\ s'[c].sent = s[c].sent /\ s'[c].wsIn = s[c].wsIn
        /\ s'[c].pc = "login" /\ s'[c].bridge
    BY <1>s, <2>1, <2>2 DEF Session
  <2>4. /\ Len(s'[c].srvGot) = 1 /\ s'[c].srvGot[1] = Received(c)
        /\ s'[c].srvGot # << >>
    BY <2>3
  <2>5. Received(c)' = Received(c)
    BY <2>3 DEF Received
  <2>6. (Received(c) + 1)..Received(c) = {}
    BY <1>r
  <2> QED
    BY <1>r, <2>3, <2>4, <2>5, <2>6 DEF UpInv, InOrder, GotAll
<1>4. CASE ConnectTooLong(c)
  <2>1. /\ s[c].pc = "connecting" /\ Received(c) \in s[c].long
        /\ s'[c] = [s[c] EXCEPT !.writer = "open", !.srvOpen = TRUE,
                                !.reader = "read", !.pc = "receive"]
    BY <1>4 DEF ConnectTooLong, TypeOK
  <2>2. s[c].srvGot = << >> /\ s[c].bridge
    BY <2>1 DEF UpInv, BridgeInv, Unbridged
  <2>3. /\ s'[c].srvGot = << >> /\ s'[c].long = s[c].long
        /\ s'[c].sent = s[c].sent /\ s'[c].wsIn = s[c].wsIn
        /\ s'[c].pc = "receive" /\ s'[c].bridge
    BY <1>s, <2>1, <2>2 DEF Session
  <2>4. Received(c)' = Received(c)
    BY <2>3 DEF Received
  <2> QED
    BY <1>e, <2>1, <2>3, <2>4 DEF UpInv, GotAll
<1>5. CASE Forward(c)
  <2> DEFINE got == s[c].srvGot
             after == IF s[c].srvOpen THEN Append(got, Received(c) + 1) ELSE got
  <2>1. /\ s[c].wsIn # << >> /\ s[c].bridge /\ ~s[c].stopped
        /\ s'[c] = [s[c] EXCEPT !.wsIn = Tail(@), !.pc = "drain", !.srvGot = after]
    BY <1>5 DEF Forward, Receives, TypeOK
  <2>2. /\ s'[c].srvGot = after /\ s'[c].long = s[c].long
        /\ s'[c].wsIn = Tail(s[c].wsIn) /\ s'[c].sent = s[c].sent
        /\ s'[c].srvOpen = s[c].srvOpen /\ s'[c].stopped = s[c].stopped
        /\ s'[c].bridge = s[c].bridge /\ s'[c].pc = "drain"
    BY <1>s, <2>1 DEF Session
  <2>3. Len(Tail(s[c].wsIn)) = Len(s[c].wsIn) - 1
    BY <1>s, <2>1, HeadTail
  <2>4. Received(c)' = Received(c) + 1
    BY <1>s, <2>2, <2>3 DEF Received
  <2>5. CASE ~s[c].srvOpen
    BY <2>1, <2>2, <2>5 DEF UpInv, InOrder
  <2>6. CASE s[c].srvOpen
    <3>1. s'[c].srvGot = Append(got, Received(c) + 1)
      BY <2>2, <2>6
    <3>2. /\ Len(s'[c].srvGot) = Len(got) + 1
          /\ s'[c].srvGot # << >>
          /\ s'[c].srvGot[Len(got) + 1] = Received(c) + 1
          /\ \A i \in 1..Len(got) : s'[c].srvGot[i] = got[i]
      BY <1>s, <1>r, <3>1
    <3>3. ASSUME NEW i \in 1..Len(s'[c].srvGot) - 1
          PROVE  /\ s'[c].srvGot[i] < s'[c].srvGot[i + 1]
                 /\ (s'[c].srvGot[i] + 1)..(s'[c].srvGot[i + 1] - 1) \subseteq s[c].long
      <4>1. i \in 1..Len(got) /\ got # << >> /\ got[i] \in Nat
        BY <1>s, <3>2
      <4>2. CASE i = Len(got)
        <5>1. /\ got[i] <= Received(c)
              /\ (got[i] + 1)..Received(c) \subseteq s[c].long
          BY <2>1, <2>6, <4>1, <4>2 DEF UpInv, GotAll
        <5>2. s'[c].srvGot[i] = got[i] /\ s'[c].srvGot[i + 1] = Received(c) + 1
          BY <3>2, <4>1, <4>2
        <5>3. got[i] < Received(c) + 1 /\ (Received(c) + 1) - 1 = Received(c)
          BY <1>r, <4>1, <5>1
        <5> QED
          BY <5>1, <5>2, <5>3
      <4>3. CASE i # Len(got)
        <5>1. i \in 1..Len(got) - 1 /\ i + 1 \in 1..Len(got)
          BY <1>s, <4>1, <4>3
        <5>2. /\ got[i] < got[i + 1]
              /\ (got[i] + 1)..(got[i + 1] - 1) \subseteq s[c].long
          BY <5>1 DEF UpInv, InOrder
        <5> QED
          BY <3>2, <5>1, <5>2
      <4> QED
        BY <4>2, <4>3
    <3>4. InOrder(c, s[c].srvGot)'
      BY <2>2, <3>3 DEF InOrder
    <3>5. GotAll(c, s[c].srvGot, Received(c))'
      <4>1. (Received(c) + 1) + 1 .. Received(c) + 1 = {}
        BY <1>r
      <4> QED
        BY <1>r, <2>4, <3>2, <4>1 DEF GotAll
    <3> QED
      BY <2>1, <2>2, <3>4, <3>5 DEF UpInv
  <2> QED
    BY <2>5, <2>6
<1>6. CASE DropMessage(c)
  <2>1. /\ s'[c].srvGot = s[c].srvGot /\ s'[c].long = s[c].long
        /\ s'[c].srvOpen = s[c].srvOpen /\ s'[c].stopped = s[c].stopped
        /\ s[c].bridge /\ s'[c].bridge /\ s'[c].pc = "receive"
        /\ s[c].wsIn # << >>
        /\ s'[c].wsIn = Tail(s[c].wsIn) /\ s'[c].sent = s[c].sent
        /\ s[c].stopped \/ Received(c) + 1 \in s[c].long
    BY <1>6, <1>s DEF DropMessage, Receives, TypeOK, Session
  <2>2. Received(c)' = Received(c) + 1
    <3>1. Len(Tail(s[c].wsIn)) = Len(s[c].wsIn) - 1
      BY <1>s, <2>1, HeadTail
    <3> QED
      BY <1>s, <2>1, <3>1 DEF Received
  <2>3. InOrder(c, s[c].srvGot)'
    BY <2>1 DEF UpInv, InOrder
  <2>4. ASSUME s[c].srvOpen, ~s[c].stopped
        PROVE  GotAll(c, s[c].srvGot, Received(c))'
    <3> DEFINE got == s[c].srvGot
    <3>1. CASE got = << >>
      BY <2>1, <2>2, <2>4, <3>1 DEF GotAll
    <3>2. CASE got # << >>
      <4>1. /\ got[Len(got)] <= Received(c)
            /\ (got[Len(got)] + 1)..Received(c) \subseteq s[c].long
        BY <2>4, <3>2 DEF UpInv, GotAll
      <4>2. got[Len(got)] \in Nat
        BY <1>s, <3>2
      <4>3. \A n \in (got[Len(got)] + 1)..(Received(c) + 1) :
              n \in (got[Len(got)] + 1)..Received(c) \/ n = Received(c) + 1
        BY <1>r, <4>2
      <4>4. (got[Len(got)] + 1)..(Received(c) + 1) \subseteq s[c].long
        BY <2>1, <2>4, <4>1, <4>3
      <4>5. got[Len(got)] <= Received(c) + 1
        BY <1>r, <4>1, <4>2
      <4> QED
        BY <2>1, <2>2, <3>2, <4>4, <4>5 DEF GotAll
    <3> QED
      BY <3>1, <3>2
  <2> QED
    BY <2>1, <2>3, <2>4 DEF UpInv
<1>7. CASE /\ ~RefuseLogin(c) /\ ~Login(c) /\ ~Connect(c) /\ ~ConnectTooLong(c)
           /\ ~Failed(c) /\ ~Forward(c) /\ ~DropMessage(c)
  <2>1. UpIdle(c)
    BY <1>7, MostStepsLeaveUp
  <2>2. InOrder(c, s[c].srvGot)'
    BY <2>1 DEF UpIdle, UpInv, InOrder
  <2>3. GotAll(c, s[c].srvGot, Received(c)) => GotAll(c, s[c].srvGot, Received(c))'
    BY <2>1 DEF UpIdle, GotAll
  <2> QED
    BY <2>1, <2>2, <2>3 DEF UpIdle, UpInv
<1> QED
  BY <1>1, <1>2, <1>3, <1>4, <1>5, <1>6, <1>7

UpstreamInv == SessionsInv /\ \A c \in Conns : UpInv(c)

LEMMA NextUpstream ==
  ASSUME UpstreamInv, [Next]_vars
  PROVE  UpstreamInv'
<1>1. SessionsInv'
  BY NextSessions DEF UpstreamInv
<1>2. ASSUME NEW d \in Conns PROVE UpInv(d)'
  <2>1. CASE Next
    <3>1. PICK c \in Conns : Step(c)
      BY <2>1 DEF Next, Step
    <3>2. CASE c = d
      BY <3>1, <3>2, StepKeepsUp DEF UpstreamInv, SessionsInv, TypeInv
    <3>3. CASE c # d
      <4>1. s' = [s EXCEPT ![c] = s'[c]]
        BY <3>1, StepIsLocal DEF UpstreamInv, SessionsInv, TypeInv
      <4>2. s'[d] = s[d]
        BY <3>3, <4>1 DEF UpstreamInv, SessionsInv, TypeInv, TypeOK
      <4> QED
        BY <4>2 DEF UpstreamInv, UpInv, InOrder, GotAll, Received
    <3> QED
      BY <3>2, <3>3
  <2>2. CASE UNCHANGED vars
    BY <2>2 DEF vars, UpstreamInv, UpInv, InOrder, GotAll, Received
  <2> QED
    BY <2>1, <2>2
<1> QED
  BY <1>1, <1>2 DEF UpstreamInv

\* Whatever the client, the server and the timeouts do, the server gets the
\* client's messages in order, each once, none left out but those too long for the
\* length field, and all others that the handler received while the bridge writes
\* (CivBridge._send_to_server).
THEOREM UpstreamOrdered == Spec => []UpstreamInOrder
<1>1. Init => UpstreamInv
  <2> SUFFICES ASSUME Init PROVE UpstreamInv
    OBVIOUS
  <2>1. SessionsInv
    BY InitType DEF Init, NewSession, SessionsInv, BridgeInv, Unbridged,
       BridgeStarts, BridgeEnds, ReaderRegistered
  <2>2. \A c \in Conns : s[c].srvGot = << >> /\ ~s[c].srvOpen
    BY DEF Init, NewSession
  <2> QED
    BY <2>1, <2>2 DEF UpstreamInv, UpInv, InOrder
<1>2. UpstreamInv => UpstreamInOrder
  BY DEF UpstreamInv, UpInv, InOrder, GotAll, UpstreamInOrder
<1> QED
  BY <1>1, <1>2, NextUpstream, PTL DEF Spec
=============================================================================
