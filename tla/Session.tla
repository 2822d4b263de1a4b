------------------------------ MODULE Session ------------------------------
(***************************************************************************)
(* The web client's connection to a game server: launcher, web socket,     *)
(* login, the client's state and pages, the button that ends a turn, and   *)
(* the message log, on whose text the start of a game, an observer and a   *)
(* loaded game wait.  Packets of the server arrive in order (net); what    *)
(* timers do is interleaved with them.                                     *)
(***************************************************************************)
EXTENDS Integers, Sequences, FiniteSets

CONSTANTS
  Modes,       \* how the page was opened: observing, autostart, load
  MaxNet,      \* bound: packets on their way
  MaxTurns,    \* bound: turns of the game
  MaxLog,      \* bound: messages that wait in the log
  MaxTimers    \* bound: timers of the log that are counted apart

Own == 1       \* the number of the client's own connection
Other == 2
NoPlayer == 0  \* player_num of a connection without a player
Unset == -1    \* undefined

VARIABLES
  mode, server, net,   \* how the page was opened, the server, packets on their way
  ws, sent,            \* the web socket and the requests that were sent
  state, page,         \* civclient_state; "pregame" until set_client_page
  conn, connections,   \* client.conn and the connections
  log, timers, shown,  \* message_log: messages and timers; texts on the page
  jobs,                \* wait_for_text: text and what to do
  button, clicked      \* the turn button; whether it was clicked this turn

msgVars == <<log, timers, shown>>
webVars == <<ws, sent, state, page, conn, connections, jobs, button, clicked>>
vars == <<mode, server, net, webVars, msgVars>>

Texts == {"logged_in", "load_complete", "chat", "welcome", "closed"}
Packets == {"join", "reject", "mine", "theirs", "gone", "logged_in", "load_complete", "chat", "ping",
            "start_phase", "begin_turn", "end_phase", "end_turn", "endgame"}
Wants == {"observe", "ready", "load", "toggle"}

NoTimer == [running |-> 0, known |-> FALSE]
Pause(n) == IF n > MaxTimers THEN MaxTimers ELSE n

\* EventAggregator.update: a timer is started if none is known.
Put(l, ms) ==
  [queue |-> l.queue \o ms,
   timers |-> IF ms = <<>> \/ l.timers.known THEN l.timers
              ELSE [running |-> Pause(l.timers.running + 1), known |-> TRUE]]

\* cancel stops the timer that is known.
Cancel(t) == [running |-> t.running - (IF t.known THEN 1 ELSE 0), known |-> FALSE]

\* Mutant: only the area of the game's page.
AreaOfGame == page = "game"

\* get_chatbox_msg_list: the state was read when the module was loaded, so it
\* is always the area of the pregame page, and nothing once that is removed.
Area == page = "pregame"

\* fireNow with update_chatbox: without an area every message is put back,
\* which starts a timer that the latency's timer then replaces.
FireNow(l) ==
  IF l.queue = <<>> THEN [log |-> l, texts |-> {}]
  ELSE LET empty == [queue |-> <<>>, timers |-> Cancel(l.timers)]
           left == IF Area THEN empty ELSE Put(empty, l.queue)
       IN  [log |-> [left EXCEPT !.timers = [running |-> Pause(left.timers.running + 1), known |-> TRUE]],
            texts |-> IF Area THEN {l.queue[i] : i \in 1..Len(l.queue)} ELSE {}]

Log == [queue |-> log, timers |-> timers]
SetLog(l) == log' = l.queue /\ timers' = l.timers
Logged(ms) == SetLog(Put(Log, ms)) /\ UNCHANGED shown

-----------------------------------------------------------------------------
\* Requests.  A socket that is not open takes none.
Send(rs) == sent' = IF ws = "open" THEN sent \cup rs ELSE sent

ClientInfo == {"info"}

-----------------------------------------------------------------------------
\* Packets.

\* handle_server_join_reply; loadTimerId of the window is never set, so a start
\* never waits for a game to be loaded
JoinReply ==
  /\ conn' = [conn EXCEPT !.established = TRUE, !.id = Own]
  /\ Send(ClientInfo)
  /\ state' = "preparing"
  /\ jobs' = jobs \cup IF mode.autostart THEN {<<"logged_in", "ready">>}
                       ELSE IF mode.observing THEN {<<"logged_in", "observe">>} ELSE {}
  /\ UNCHANGED <<ws, page, connections, button, clicked, msgVars>>

Rejected ==
  /\ conn' = [conn EXCEPT !.id = Unset]
  /\ UNCHANGED <<ws, sent, state, page, connections, jobs, button, clicked, msgVars>>

\* handle_conn_info: the connection of the packet replaces client.conn before
\* the two are compared
ConnInfo(id, player) ==
  /\ connections' = connections \cup {id}
  /\ conn' = IF id = conn.id
             THEN [id |-> id, established |-> FALSE, player |-> player] ELSE conn
  /\ UNCHANGED <<ws, sent, state, page, jobs, button, clicked, msgVars>>

\* client_remove_cli_conn
ConnGone(id) ==
  /\ connections' = connections \ {id}
  /\ state' = IF id = conn.id /\ conn.player = NoPlayer THEN "preparing" ELSE state
  /\ UNCHANGED <<ws, sent, page, conn, jobs, button, clicked, msgVars>>

\* handle_chat_msg, add_chatbox_text
ChatMsg(text) ==
  /\ Len(log) < MaxLog
  /\ Logged(<<text>>)
  /\ UNCHANGED webVars

ConnPing ==
  /\ Send({"pong"})
  /\ UNCHANGED <<ws, state, page, conn, connections, jobs, button, clicked, msgVars>>

SetClientPage == page' = "game"

\* set_client_state: clear_chatbox twice and show_new_game_message, then the
\* page; clearing keeps the timers.
ToRunning ==
  LET empty == [queue |-> <<>>, timers |-> timers]
      greeting == IF mode.observing \/ mode.autostart THEN <<>> ELSE <<"welcome">>
  IN  /\ SetLog(Put(empty, greeting))
      /\ shown' = IF Area THEN {} ELSE shown
      /\ SetClientPage

\* handle_start_phase
StartPhase ==
  /\ state' = "running"
  /\ IF state # "running" THEN ToRunning ELSE UNCHANGED <<page, msgVars>>
  /\ UNCHANGED <<ws, sent, conn, connections, jobs, button, clicked>>

BeginTurn ==
  /\ button' = IF mode.observing THEN button ELSE TRUE
  /\ clicked' = FALSE
  /\ UNCHANGED <<ws, sent, state, page, conn, connections, jobs, msgVars>>

EndTurn ==
  /\ button' = IF mode.observing THEN button ELSE FALSE
  /\ UNCHANGED <<ws, sent, state, page, conn, connections, jobs, clicked, msgVars>>

\* handle_end_phase, chatbox_clip_messages: the log is emptied at once; the
\* lines that are kept are not counted here
EndPhase ==
  /\ LET f == FireNow(Log) IN SetLog(f.log) /\ shown' = shown \cup f.texts
  /\ UNCHANGED webVars

EndgameReport ==
  /\ state' = "over"
  /\ UNCHANGED <<ws, sent, page, conn, connections, jobs, button, clicked, msgVars>>

Handle ==
  /\ ws = "open" /\ net # <<>>
  /\ LET p == Head(net)
     IN  \/ p = "join" /\ JoinReply
         \/ p = "reject" /\ Rejected
         \/ p = "mine" /\ ConnInfo(Own, IF mode.observing THEN NoPlayer ELSE 1)
         \/ p = "theirs" /\ ConnInfo(Other, NoPlayer)
         \/ p = "gone" /\ ConnGone(Other)
         \/ p \in Texts /\ ChatMsg(p)
         \/ p = "ping" /\ ConnPing
         \/ p = "start_phase" /\ StartPhase
         \/ p = "begin_turn" /\ BeginTurn
         \/ p = "end_phase" /\ EndPhase
         \/ p = "end_turn" /\ EndTurn
         \/ p = "endgame" /\ EndgameReport
  /\ net' = Tail(net)
  /\ UNCHANGED <<mode, server>>

-----------------------------------------------------------------------------
\* The page: the launcher, the socket, timers and the player.

LoadGameCheck == IF mode.load THEN {<<"logged_in", "load">>, <<"load_complete", "toggle">>} ELSE {}

\* network_init, or network_init_manual_hack
NetworkInit ==
  /\ ws = "none"
  /\ ws' = "connecting"
  /\ jobs' = jobs \cup LoadGameCheck
  /\ UNCHANGED <<mode, server, net, sent, state, page, conn, connections, button, clicked, msgVars>>

\* check_websocket_ready
SocketOpens ==
  /\ ws = "connecting"
  /\ ws' = "open" /\ sent' = sent \cup {"login"}
  /\ UNCHANGED <<mode, server, net, state, page, conn, connections, jobs, button, clicked, msgVars>>

\* Mutant: the button is left as it is.
SocketClosesOnly ==
  /\ ws \in {"connecting", "open"}
  /\ ws' = "closed" /\ Len(log) < MaxLog /\ Logged(<<"closed">>)
  /\ UNCHANGED <<mode, server, net, sent, state, page, conn, connections, jobs, button, clicked>>

SocketCloses ==
  /\ ws \in {"connecting", "open"}
  /\ ws' = "closed" /\ button' = FALSE /\ Len(log) < MaxLog /\ Logged(<<"closed">>)
  /\ UNCHANGED <<mode, server, net, sent, state, page, conn, connections, jobs, clicked>>

\* A timer of the message log runs out; from then on no timer is known.
LogFires ==
  /\ timers.running > 0
  /\ LET f == FireNow([queue |-> log, timers |-> [running |-> timers.running - 1, known |-> FALSE]])
     IN  SetLog(f.log) /\ shown' = shown \cup f.texts
  /\ UNCHANGED <<mode, server, net, webVars>>

TextThere(text) == Area /\ text \in shown

\* wait_for_text has found its text: pregame_start_game gives up without a
\* player number, request_observe_game and load_game_real send a message
Poll(job) ==
  /\ TextThere(job[1])
  /\ jobs' = jobs \ {job}
  /\ LET what == job[2]
     IN  IF what = "toggle" \/ (what = "ready" /\ conn.player = Unset) THEN UNCHANGED sent
         ELSE Send({what})
  /\ UNCHANGED <<mode, server, net, ws, state, page, conn, connections, button, clicked, msgVars>>

\* send_end_turn returns at once: the store has no game_info (its name there is
\* gameInfo)
TurnDone ==
  /\ button /\ ~clicked /\ clicked' = TRUE
  /\ UNCHANGED <<mode, server, net, ws, sent, state, page, conn, connections, jobs, button, msgVars>>

-----------------------------------------------------------------------------
\* The server: answers requests it has got, and plays the game.
Says(ps) == Len(net) + Len(ps) <= MaxNet + 3 /\ Len(net) < MaxNet /\ net' = net \o ps

Answers ==
  \/ /\ "login" \in sent /\ server.login = "none"
     /\ \/ Says(<<"join", "logged_in", "mine">>) /\ server' = [server EXCEPT !.login = "yes"]
        \/ Says(<<"reject">>) /\ server' = [server EXCEPT !.login = "no"]
  \/ /\ server.login = "yes" /\ "load" \in sent /\ ~server.loaded /\ server.game = "pregame"
     /\ Says(<<"load_complete">>) /\ server' = [server EXCEPT !.loaded = TRUE]

Plays ==
  \/ /\ server.game = "pregame" /\ Says(<<"start_phase", "begin_turn">>)
     /\ server' = [server EXCEPT !.game = "running"]
  \/ /\ server.game = "running" /\ server.turn < MaxTurns
     /\ Says(<<"end_phase", "end_turn", "start_phase", "begin_turn">>)
     /\ server' = [server EXCEPT !.turn = @ + 1]
  \/ /\ server.game = "running" /\ Says(<<"endgame">>)
     /\ server' = [server EXCEPT !.game = "over"]

Chats ==
  /\ ~server.chat /\ server' = [server EXCEPT !.chat = TRUE]
  /\ \E p \in {"chat", "ping", "theirs", "gone"} : Says(<<p>>)

Server ==
  /\ ws = "open"
  /\ Answers \/ (server.login = "yes" /\ (Plays \/ Chats))
  /\ UNCHANGED <<mode, webVars, msgVars>>

-----------------------------------------------------------------------------
Init ==
  /\ mode \in Modes
  /\ server = [login |-> "none", game |-> "pregame", turn |-> 0, loaded |-> FALSE, chat |-> FALSE]
  /\ net = <<>> /\ ws = "none" /\ sent = {}
  /\ state = "initial" /\ page = "pregame"
  /\ conn = [id |-> Unset, established |-> FALSE, player |-> Unset] /\ connections = {}
  /\ log = <<>> /\ timers = NoTimer /\ shown = {} /\ jobs = {}
  /\ button = ~mode.observing /\ clicked = FALSE

Next ==
  \/ NetworkInit \/ SocketOpens \/ SocketCloses \/ Handle
  \/ LogFires \/ \E job \in jobs : Poll(job)
  \/ TurnDone \/ Server

Spec == Init /\ [][Next]_vars

\* The page's timers run out, packets are handled, a server answers.
FairSpec ==
  /\ Spec
  /\ WF_vars(Handle) /\ WF_vars(LogFires) /\ WF_vars(\E job \in jobs : Poll(job))

-----------------------------------------------------------------------------
TypeOK ==
  /\ mode \in Modes /\ ws \in {"none", "connecting", "open", "closed"}
  /\ \A i \in 1..Len(net) : net[i] \in Packets
  /\ state \in {"initial", "preparing", "running", "over"} /\ page \in {"pregame", "game"}
  /\ conn.id \in {Unset, Own} /\ conn.player \in {Unset, NoPlayer, 1}
  /\ connections \subseteq {Own, Other} /\ shown \subseteq Texts
  /\ timers.running \in 0..MaxTimers /\ (timers.known => timers.running > 0)
  /\ jobs \subseteq Texts \X Wants /\ button \in BOOLEAN

\* The game's page is shown as long as a phase runs: handle_start_phase brings
\* it up however the client got there.
PageOfGame == state = "running" => page = "game"

\* What waits for a text is done only after it: the client is ready, observes or
\* loads a game only once the server has let it in.
WaitsForLogin == sent \cap {"observe", "ready", "load"} # {} => server.login = "yes" /\ conn.id = Own

\* Nobody ends a turn or starts one on a connection that is closed.
ClosedIsOver == ws = "closed" => ~button

\* The session is sound: its page fits its state, it waits for the login, and a
\* closed connection ends the turns.
SessionSound == TypeOK /\ PageOfGame /\ WaitsForLogin /\ ClosedIsOver

\* An observer asks to observe, unless the connection or the pregame page goes
\* before the server's greeting was found in the message area.
ObserverWaits == mode.observing /\ ~mode.autostart /\ conn.id = Own
ObserverServed == "observe" \in sent \/ ws = "closed" \/ page = "game"
ObserverAsks == ObserverWaits ~> ObserverServed
=============================================================================
