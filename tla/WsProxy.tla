------------------------------ MODULE WsProxy -------------------------------
(***************************************************************************)
(* The in-process WebSocket proxy (ws_proxy.py).  Every WebSocket has a    *)
(* handler, handle_civsocket: it admits the socket, waits for a login it   *)
(* accepts, connects a CivBridge to freeciv-server and forwards what the   *)
(* client sends.  The bridge has a reader task, _server_reader_loop, which *)
(* forwards what the server sends and closes the bridge when the server    *)
(* goes away; the handler closes it when the client goes away.  Both may   *)
(* run CivBridge.close at once, the second cancelling the first.           *)
(*                                                                         *)
(* An action is what a task does between two awaits.  A packet's length    *)
(* and body are read in one action: between the two reads nothing changes  *)
(* that another task sees.  _send_buffer is empty at every await (append   *)
(* and clear have none between them), so it is not a variable.             *)
(***************************************************************************)
EXTENDS Naturals, Sequences, FiniteSets

CONSTANTS
  Conns,       \* the WebSocket connections that arrive
  Limit,       \* CONNECTION_LIMIT (1000 in the code)
  MaxSent,     \* bound: messages a client sends
  MaxWritten,  \* bound: packets the server writes to a connection
  Oversize     \* may the server announce a length the proxy rejects?

ASSUME WsProxyAssumption ==
  /\ IsFiniteSet(Conns)
  /\ Limit \in Nat \ {0}
  /\ MaxSent \in Nat
  /\ MaxWritten \in Nat
  /\ Oversize \in BOOLEAN

VARIABLES
  s,         \* the state of each connection, a record (see Session)
  registry   \* _connections, by connection (a key holds the conn_id)

vars == <<s, registry>>

\* A first message may be an acceptable login, be refused with a reply, or
\* make the handler raise (a login that is no object, a port that is no number).
Kinds == {"login", "refused", "raises"}

\* A packet whose length is rejected is "big": its header is skipped but its
\* body, the "tail", is left in the stream.
Packets == [n : Nat, part : {"whole", "big", "tail"}]

Points  == {"accept", "refusing", "receive", "replying", "connecting",
            "failing", "login", "drain", "joining", "closing", "done"}
ReaderPoints == {"none", "read", "flush", "selfAwait", "closing", "done"}

Session == [
  wsOpen  : BOOLEAN,        \* is the WebSocket open?
  wsIn    : Seq(Kinds),     \* messages the handler has not received
  sent    : Nat,            \* number of messages the client has sent
  long    : SUBSET Nat,     \* those too long for a length of 16 bits
  wsOut   : Seq(Nat),       \* packets it got, by number; 0 is none of the server's
  pc      : Points,         \* where the handler is suspended
  bridge  : BOOLEAN,        \* is the handler's local bridge not None?
  stopped : BOOLEAN,        \* CivBridge._stopped
  writer  : {"none", "open", "closed"},   \* CivBridge._writer
  reader  : ReaderPoints,   \* where CivBridge._flush_task is suspended
  cancel  : BOOLEAN,        \* is a cancellation pending on it?
  srvOpen : BOOLEAN,        \* is the server's end of the TCP connection open?
  tcpIn   : Seq(Packets),   \* what it wrote and the reader has not read
  written : Nat,            \* number of packets it wrote
  srvGot  : Seq(Nat)]       \* messages it received, by number

TypeOK ==
  /\ s \in [Conns -> Session]
  /\ registry \subseteq Conns

NewSession ==
  [wsOpen |-> TRUE, wsIn |-> << >>, sent |-> 0, long |-> {},
   wsOut |-> << >>,
   pc |-> "accept", bridge |-> FALSE, stopped |-> FALSE, writer |-> "none",
   reader |-> "none", cancel |-> FALSE, srvOpen |-> FALSE, tcpIn |-> << >>,
   written |-> 0, srvGot |-> << >>]

Init ==
  /\ s = [c \in Conns |-> NewSession]
  /\ registry = {}

-----------------------------------------------------------------------------
(* The handler: admission and login.                                       *)

\* An await that changes nothing but where the handler is.
Moves(c, from, to) ==
  /\ s[c].pc = from
  /\ s' = [s EXCEPT ![c].pc = to]
  /\ UNCHANGED registry

\* The limit is tested once, when the socket is accepted.
Admit(c)  == Cardinality(registry) < Limit /\ Moves(c, "accept", "receive")
Refuse(c) == Cardinality(registry) >= Limit /\ Moves(c, "accept", "refusing")

\* ws.close(1013), and the handler returns.
Refused(c) ==
  /\ s[c].pc = "refusing"
  /\ s' = [s EXCEPT ![c].pc = "done", ![c].wsOpen = FALSE]
  /\ UNCHANGED registry

\* ws.receive_text can return a message.
Receives(c) == s[c].pc = "receive" /\ s[c].wsIn # << >>

ReceivesLogin(c, kind) ==
  Receives(c) /\ ~s[c].bridge /\ Head(s[c].wsIn) = kind

RefuseLogin(c) ==
  /\ ReceivesLogin(c, "refused")
  /\ s' = [s EXCEPT ![c].wsIn = Tail(@), ![c].pc = "replying"]
  /\ UNCHANGED registry

\* The reply is sent, and the client may try again.
Replied(c) == s[c].wsOpen /\ Moves(c, "replying", "receive")

\* An exception while there is no bridge: the handler returns, and the
\* WebSocket is closed with it.
Raises(c) ==
  /\ \/ ReceivesLogin(c, "raises")
     \/ s[c].pc = "replying" /\ ~s[c].wsOpen
  /\ s' = [s EXCEPT ![c].pc = "done", ![c].wsOpen = FALSE]
  /\ UNCHANGED registry

\* A new CivBridge is registered and starts to connect.
Login(c) ==
  /\ ReceivesLogin(c, "login")
  /\ s' = [s EXCEPT ![c].wsIn = Tail(@), ![c].bridge = TRUE,
                    ![c].pc = "connecting"]
  /\ registry' = registry \cup {c}

-----------------------------------------------------------------------------
(* The handler: connecting and forwarding.                                 *)

\* The number of the message the handler received last.
Received(c) == s[c].sent - Len(s[c].wsIn)

\* Mutant: a login is written twice, by connect_to_server and by the handler.
ConnectTwice(c) ==
  /\ s[c].pc = "connecting" /\ Received(c) \notin s[c].long
  /\ s' = [s EXCEPT ![c].writer = "open", ![c].srvOpen = TRUE, ![c].pc = "login",
                    ![c].srvGot = @ \o <<Received(c), Received(c)>>]
  /\ UNCHANGED registry

\* connect_to_server: the connection is open and the login is written to it.
Connect(c) ==
  /\ s[c].pc = "connecting" /\ Received(c) \notin s[c].long
  /\ s' = [s EXCEPT ![c].writer = "open", ![c].srvOpen = TRUE, ![c].pc = "login",
                    ![c].srvGot = Append(@, Received(c))]
  /\ UNCHANGED registry

\* The login is too long: struct.pack raises before the write and the exception is
\* logged.  The bridge goes on, without an await up to the reader task's creation,
\* as if the server had the login.
ConnectTooLong(c) ==
  /\ s[c].pc = "connecting" /\ Received(c) \in s[c].long
  /\ s' = [s EXCEPT ![c].writer = "open", ![c].srvOpen = TRUE,
                    ![c].reader = "read", ![c].pc = "receive"]
  /\ UNCHANGED registry

\* The connection is refused or not made in 5 seconds: the client is told.
ConnectFails(c) == Moves(c, "connecting", "failing")

\* Mutant: the entry of a bridge that failed to connect is left behind.
FailedKeepsEntry(c) ==
  /\ s[c].pc = "failing"
  /\ s' = [s EXCEPT ![c].bridge = FALSE, ![c].pc = "receive"]
  /\ UNCHANGED registry

\* Told or not, the client may log in again: its next message is a login.
Failed(c) ==
  /\ s[c].pc = "failing"
  /\ s' = [s EXCEPT ![c].bridge = FALSE, ![c].pc = "receive"]
  /\ registry' = registry \ {c}

\* The login is drained, and the reader task created.
LoggedIn(c) ==
  /\ s[c].pc = "login"
  /\ s' = [s EXCEPT ![c].reader = "read", ![c].pc = "receive"]
  /\ UNCHANGED registry

\* What is written reaches the server while its end is open; a failed write is
\* logged and ignored.
Forward(c) ==
  /\ Receives(c) /\ s[c].bridge /\ ~s[c].stopped
  /\ Received(c) + 1 \notin s[c].long
  /\ s' = [s EXCEPT ![c].wsIn = Tail(@), ![c].pc = "drain",
                    ![c].srvGot = IF s[c].srvOpen THEN Append(@, Received(c) + 1)
                                                  ELSE @]
  /\ UNCHANGED registry

\* A stopped bridge drops what the client sends, and says nothing; so it does with
\* a message too long for its length field, for which struct.pack raises.
DropMessage(c) ==
  /\ Receives(c) /\ s[c].bridge
  /\ s[c].stopped \/ Received(c) + 1 \in s[c].long
  /\ s' = [s EXCEPT ![c].wsIn = Tail(@)]
  /\ UNCHANGED registry

Drained(c) == Moves(c, "drain", "receive")

-----------------------------------------------------------------------------
(* The handler: the client is gone.  CivBridge.close, in its finally.      *)

Disconnected(c) == s[c].pc = "receive" /\ s[c].wsIn = << >> /\ ~s[c].wsOpen

LeaveUnbridged(c) ==
  Disconnected(c) /\ ~s[c].bridge /\ Moves(c, "receive", "done")

\* The reader is running: it is cancelled and joined.
CancelReader(c) ==
  /\ Disconnected(c) /\ s[c].bridge
  /\ s[c].reader # "done"
  /\ s' = [s EXCEPT ![c].stopped = TRUE, ![c].cancel = TRUE, ![c].pc = "joining"]
  /\ UNCHANGED registry

\* The reader has ended, or has just been joined: the TCP connection is closed.
CloseWriter(c) ==
  /\ (Disconnected(c) /\ s[c].bridge) \/ s[c].pc = "joining"
  /\ s[c].reader = "done"
  /\ s' = [s EXCEPT ![c].stopped = TRUE, ![c].writer = "closed",
                    ![c].pc = "closing"]
  /\ UNCHANGED registry

\* Mutant: close leaves the registry to the reader.
CloseKeepsEntry(c) == Moves(c, "closing", "done")

Closed(c) ==
  /\ s[c].pc = "closing"
  /\ s' = [s EXCEPT ![c].pc = "done"]
  /\ registry' = registry \ {c}

Handler(c) ==
  \/ Admit(c) \/ Refuse(c) \/ Refused(c)
  \/ RefuseLogin(c) \/ Replied(c) \/ Raises(c)
  \/ Login(c) \/ Connect(c) \/ ConnectTooLong(c) \/ ConnectFails(c) \/ Failed(c)
  \/ LoggedIn(c)
  \/ Forward(c) \/ DropMessage(c) \/ Drained(c)
  \/ LeaveUnbridged(c) \/ CancelReader(c) \/ CloseWriter(c) \/ Closed(c)

-----------------------------------------------------------------------------
(* The reader task.                                                        *)

At(c, point) == s[c].reader = point /\ ~s[c].cancel

Reads(c, part) ==
  At(c, "read") /\ s[c].tcpIn # << >> /\ Head(s[c].tcpIn).part = part

\* The frames the client has when n is sent to it: it gets n if it is there.
Frames(c, n) == IF s[c].wsOpen THEN Append(s[c].wsOut, n) ELSE s[c].wsOut

\* Mutant: the buffer is not cleared, so the first packet is sent again.
ReadPacketAgain(c) ==
  /\ Reads(c, "whole")
  /\ \E n \in {Head(s[c].tcpIn).n, 1} :
       s' = [s EXCEPT ![c].tcpIn = Tail(@), ![c].reader = "flush",
                      ![c].wsOut = Frames(c, n)]
  /\ UNCHANGED registry

ReadPacket(c) ==
  /\ Reads(c, "whole")
  /\ s' = [s EXCEPT ![c].tcpIn = Tail(@), ![c].reader = "flush",
                    ![c].wsOut = Frames(c, Head(s[c].tcpIn).n)]
  /\ UNCHANGED registry

\* A rejected length: the loop continues with the packet's body still unread.
SkipHeader(c) ==
  /\ Reads(c, "big")
  /\ s' = [s EXCEPT ![c].tcpIn = <<[Head(@) EXCEPT !.part = "tail"]>> \o Tail(@)]
  /\ UNCHANGED registry

\* The body is then taken for a length (its first bytes, in ASCII, are an
\* acceptable one) and a body that swallows what follows for some way.
ReadTail(c) ==
  /\ Reads(c, "tail")
  /\ \E k \in 1..Len(s[c].tcpIn) :
       s' = [s EXCEPT ![c].tcpIn = SubSeq(@, k + 1, Len(@)),
                      ![c].reader = "flush", ![c].wsOut = Frames(c, 0)]
  /\ UNCHANGED registry

\* A send that the closed WebSocket ignores ends like one that succeeds.
Flushed(c) ==
  /\ At(c, "flush")
  /\ s' = [s EXCEPT ![c].reader = "read"]
  /\ UNCHANGED registry

\* The send fails: _stopped is set, so the reader ends without closing.
FlushFails(c) ==
  /\ At(c, "flush")
  /\ ~s[c].wsOpen
  /\ s' = [s EXCEPT ![c].stopped = TRUE, ![c].reader = "done"]
  /\ UNCHANGED registry

\* The server closed, or has been silent for 300 seconds: the reader closes the
\* bridge.  CivBridge.close cancels and awaits the reader, which is itself.
StopReading(c) ==
  /\ At(c, "read")
  /\ s[c].tcpIn = << >>
  /\ s' = [s EXCEPT ![c].stopped = TRUE, ![c].reader = "selfAwait"]
  /\ UNCHANGED registry

Eof(c)         == ~s[c].srvOpen /\ StopReading(c)
ReadTimeout(c) == s[c].srvOpen /\ StopReading(c)

\* The await of itself ends with the cancellation, which is swallowed, the
\* handler's too if it came meanwhile.
CloseFromReader(c) ==
  /\ s[c].reader = "selfAwait"
  /\ s' = [s EXCEPT ![c].cancel = FALSE, ![c].writer = "closed",
                    ![c].reader = "closing"]
  /\ UNCHANGED registry

ClosedByReader(c) ==
  /\ At(c, "closing")
  /\ s' = [s EXCEPT ![c].reader = "done"]
  /\ registry' = registry \ {c}

\* Mutant: the loop catches the cancellation and goes on.
CancelledGoesOn(c) ==
  /\ s[c].cancel /\ s[c].reader \in {"read", "flush", "closing"}
  /\ s' = [s EXCEPT ![c].cancel = FALSE]
  /\ UNCHANGED registry

\* Cancelled by the handler: _stopped is set, so nothing is closed; in the
\* middle of close, what is left of close is not done.
Cancelled(c) ==
  /\ s[c].cancel /\ s[c].reader \in {"read", "flush", "closing"}
  /\ s' = [s EXCEPT ![c].cancel = FALSE, ![c].reader = "done"]
  /\ UNCHANGED registry

Reader(c) ==
  \/ ReadPacket(c) \/ SkipHeader(c) \/ ReadTail(c) \/ Flushed(c) \/ FlushFails(c)
  \/ Eof(c) \/ CloseFromReader(c) \/ ClosedByReader(c) \/ Cancelled(c)

-----------------------------------------------------------------------------
(* The client and freeciv-server.                                          *)

ClientSends(c) ==
  /\ s[c].wsOpen /\ s[c].sent < MaxSent
  /\ \E kind \in Kinds, long \in {{}, {s[c].sent + 1}} :
       s' = [s EXCEPT ![c].wsIn = Append(@, kind), ![c].sent = @ + 1,
                      ![c].long = @ \cup long]
  /\ UNCHANGED registry

\* The client leaves, or its connection is lost.
ClientCloses(c) ==
  /\ s[c].wsOpen
  /\ s' = [s EXCEPT ![c].wsOpen = FALSE]
  /\ UNCHANGED registry

ServerWrites(c) ==
  /\ s[c].srvOpen /\ s[c].written < MaxWritten
  /\ \E part \in IF Oversize THEN {"whole", "big"} ELSE {"whole"} :
       s' = [s EXCEPT ![c].written = @ + 1, ![c].tcpIn =
               Append(@, [n |-> s[c].written + 1, part |-> part])]
  /\ UNCHANGED registry

ServerCloses(c) ==
  /\ s[c].srvOpen
  /\ s' = [s EXCEPT ![c].srvOpen = FALSE]
  /\ UNCHANGED registry

Environment(c) ==
  ClientSends(c) \/ ClientCloses(c) \/ ServerWrites(c) \/ ServerCloses(c)

Next ==
  \E c \in Conns : Handler(c) \/ Reader(c) \/ ReadTimeout(c) \/ Environment(c)

\* asyncio runs every task that can run.  Drained belongs to the handler: the
\* server is assumed to read what it is sent or to close.  The 300 seconds of
\* a read need not pass.
Fairness == \A c \in Conns : WF_vars(Handler(c)) /\ WF_vars(Reader(c))

Spec == Init /\ [][Next]_vars /\ Fairness

-----------------------------------------------------------------------------
(* Properties.                                                             *)

\* When a handler has returned nothing of its connection is left: no entry of
\* _connections, no open TCP connection, no reader task; whichever of the two
\* tasks closed the bridge, and wherever it was cancelled (ws_proxy.py:73-91).
NothingLeaks ==
  \A c \in Conns : s[c].pc = "done" =>
    /\ c \notin registry
    /\ s[c].writer # "open"
    /\ s[c].reader \in {"none", "done"}

\* _connections counts the live bridges: an entry has a handler that holds a
\* bridge, and a bridge that is forwarding has an entry (ws_proxy.py:241-247).
RegistryMatches ==
  \A c \in Conns :
    /\ c \in registry => s[c].bridge /\ s[c].pc # "done"
    /\ s[c].reader \in {"read", "flush"} /\ ~s[c].stopped => c \in registry

\* The server gets the client's messages in order and each once, and the only ones
\* left out, from the login that connected on, are those too long for the length
\* field; while the bridge and the server are there it has got all the others that
\* the handler received (ws_proxy.py:66, 96-102, 250).
UpstreamInOrder ==
  \A c \in Conns :
    LET got == s[c].srvGot
    IN  /\ \A i \in 1..Len(got) - 1 :
             /\ got[i] < got[i + 1]
             /\ (got[i] + 1)..(got[i + 1] - 1) \subseteq s[c].long
        /\ s[c].srvOpen /\ ~s[c].stopped =>
             IF got = << >>
             THEN Received(c) \in s[c].long
             ELSE /\ got[Len(got)] <= Received(c)
                  /\ (got[Len(got)] + 1)..Received(c) \subseteq s[c].long

\* One direction, from the server to the client, as an abstract pipe: what the
\* server wrote is numbered, what the client got is wsOut (ws_proxy.py:104-184).
Down(c) == INSTANCE Pipe WITH in <- [i \in 1..s[c].written |-> i],
                              out <- s[c].wsOut
DownRefined ==
  /\ \A c \in Conns : Down(c)!Init
  /\ [][\A c \in Conns : [Down(c)!Next]_(Down(c)!pipeVars)]_vars

\* A client that is gone is always cleaned up after: its handler returns, though
\* it waits in close for a reader that may be closing too (ws_proxy.py:78-90).
HandlerEnds == \A c \in Conns : ~s[c].wsOpen ~> s[c].pc = "done"
=============================================================================
