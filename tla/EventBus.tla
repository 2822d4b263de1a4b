------------------------------ MODULE EventBus ------------------------------
(***************************************************************************)
(* The event buses behind GET /game/events.  The agents and the API        *)
(* publish to every subscriber's queue without waiting; a generator per    *)
(* stream takes events from its queue and sends them to its observer.      *)
(* There are two classes: server.EventBus starts a stream with the latest  *)
(* events and removes a subscriber whose queue is full, and                *)
(* multi_main.EventBus keeps no history and makes room in a full queue by  *)
(* dropping its oldest event.                                              *)
(*                                                                         *)
(* Events are numbered in the order they are published.                    *)
(***************************************************************************)
EXTENDS Naturals, Sequences

CONSTANTS
  Streams,    \* the requests for /game/events
  QueueSize,  \* maxsize of a subscriber's queue (100 in server, 200 in multi_main)
  MaxHistory, \* max_history (200)
  Shown,      \* history a new stream begins with (20)
  MaxEvents   \* bound: events published

ASSUME EventBusAssumption ==
  /\ QueueSize \in Nat \ {0}
  /\ MaxHistory \in Nat \ {0}
  /\ Shown \in 1..MaxHistory /\ Shown <= QueueSize
  /\ MaxEvents \in Nat

VARIABLES
  policy,      \* which of the two classes: "drop_stream" or "drop_oldest"
  published,   \* number of events published
  history,     \* _history of server.EventBus
  subscribers, \* _subscribers: streams whose queue is published to
  queue,       \* a stream's queue
  phase,       \* where a stream's generator is
  sent,        \* events a stream has sent to its observer
  since        \* events published when a stream subscribed

vars == <<policy, published, history, subscribers, queue, phase, sent, since>>

TypeOK ==
  /\ policy \in {"drop_stream", "drop_oldest"}
  /\ published \in 0..MaxEvents
  /\ history \in Seq(1..MaxEvents) /\ Len(history) <= MaxHistory
  /\ subscribers \subseteq Streams
  /\ queue \in [Streams -> Seq(1..MaxEvents)]
  /\ \A o \in Streams : Len(queue[o]) <= QueueSize
  /\ phase \in [Streams -> {"new", "opened", "waiting", "sending", "closed"}]
  /\ sent \in [Streams -> Seq(1..MaxEvents)]
  /\ since \in [Streams -> 0..MaxEvents]

Init ==
  /\ policy \in {"drop_stream", "drop_oldest"}
  /\ published = 0
  /\ history = << >>
  /\ subscribers = {}
  /\ queue = [o \in Streams |-> << >>]
  /\ phase = [o \in Streams |-> "new"]
  /\ sent = [o \in Streams |-> << >>]
  /\ since = [o \in Streams |-> 0]

\* The last n elements of q, or all.
Last(q, n) == IF Len(q) <= n THEN q ELSE SubSeq(q, Len(q) - n + 1, Len(q))

Full(o) == Len(queue[o]) >= QueueSize

-----------------------------------------------------------------------------
(* The bus.                                                                *)

\* Mutant: the second put is not only for a queue that was full.
PutTwice(q, e) ==
  IF Len(q) < QueueSize - 1
  THEN Append(Append(q, e), e)
  ELSE Append(IF Len(q) < QueueSize THEN q ELSE Tail(q), e)

\* Mutant: a full queue keeps what it has.
DropNewest(q, e) == IF Len(q) < QueueSize THEN Append(q, e) ELSE q

\* multi_main: put, if need be after removing the oldest event.
PutDropOldest(q, e) ==
  IF Len(q) < QueueSize THEN Append(q, e) ELSE Append(Tail(q), e)

\* server: put_nowait; a full queue raises, and the queue is left as it is.
PutNoWait(q, e) == IF Len(q) < QueueSize THEN Append(q, e) ELSE q

\* Mutant: the subscribers with full queues are not removed.
NoneDead == {}

\* server: the subscribers whose put_nowait raises.
Dead == {o \in subscribers : Full(o)}

\* publish, by an agent's _publish_event or api_agent_actions.
Publish ==
  /\ published < MaxEvents
  /\ published' = published + 1
  /\ \/ /\ policy = "drop_stream"
        /\ history' = Last(Append(history, published'), MaxHistory)
        /\ queue' = [o \in Streams |-> IF o \in subscribers
                                       THEN PutNoWait(queue[o], published')
                                       ELSE queue[o]]
        /\ subscribers' = subscribers \ Dead
     \/ /\ policy = "drop_oldest"
        /\ queue' = [o \in Streams |-> IF o \in subscribers
                                       THEN PutDropOldest(queue[o], published')
                                       ELSE queue[o]]
        /\ UNCHANGED <<history, subscribers>>
  /\ UNCHANGED <<policy, phase, sent, since>>

\* game_events: the endpoint subscribes and returns its streaming response.
Subscribe(o) ==
  /\ phase[o] = "new"
  /\ phase' = [phase EXCEPT ![o] = "opened"]
  /\ subscribers' = subscribers \cup {o}
  /\ queue' = [queue EXCEPT ![o] = Last(history, Shown)]
  /\ since' = [since EXCEPT ![o] = published]
  /\ UNCHANGED <<policy, published, history, sent>>

-----------------------------------------------------------------------------
(* event_generator.                                                        *)

\* The response starts to iterate the generator.
Begin(o) ==
  /\ phase[o] = "opened"
  /\ phase' = [phase EXCEPT ![o] = "waiting"]
  /\ UNCHANGED <<policy, published, history, subscribers, queue, sent, since>>

\* Mutant: the generator waits for a second event.
TakeBatch(o) ==
  /\ phase[o] = "waiting" /\ Len(queue[o]) > 1
  /\ sent' = [sent EXCEPT ![o] = Append(@, Head(queue[o]))]
  /\ queue' = [queue EXCEPT ![o] = Tail(@)]
  /\ phase' = [phase EXCEPT ![o] = "sending"]
  /\ UNCHANGED <<policy, published, history, subscribers, since>>

\* queue.get() returns an event, which is yielded.
Take(o) ==
  /\ phase[o] = "waiting" /\ queue[o] # << >>
  /\ sent' = [sent EXCEPT ![o] = Append(@, Head(queue[o]))]
  /\ queue' = [queue EXCEPT ![o] = Tail(@)]
  /\ phase' = [phase EXCEPT ![o] = "sending"]
  /\ UNCHANGED <<policy, published, history, subscribers, since>>

\* 30 seconds without an event: a comment is yielded.  (A timeout that races an
\* event leaves it in the queue, for the next get.)
Keepalive(o) ==
  /\ phase[o] = "waiting" /\ queue[o] = << >>
  /\ phase' = [phase EXCEPT ![o] = "sending"]
  /\ UNCHANGED <<policy, published, history, subscribers, queue, sent, since>>

\* The response has written what was yielded, at the observer's pace.
Written(o) ==
  /\ phase[o] = "sending"
  /\ phase' = [phase EXCEPT ![o] = "waiting"]
  /\ UNCHANGED <<policy, published, history, subscribers, queue, sent, since>>

\* The observer disconnects: the generator is cancelled where it waits, or closed
\* where it has yielded, and unsubscribes.  One that never began has no finally to
\* run, and its queue stays.
Leave(o) ==
  /\ phase[o] \in {"opened", "waiting", "sending"}
  /\ phase' = [phase EXCEPT ![o] = "closed"]
  /\ subscribers' = IF phase[o] = "opened" THEN subscribers ELSE subscribers \ {o}
  /\ UNCHANGED <<policy, published, history, queue, sent, since>>

Generator(o) == Begin(o) \/ Take(o) \/ Written(o)

Next ==
  \/ Publish
  \/ \E o \in Streams : Subscribe(o) \/ Generator(o) \/ Keepalive(o) \/ Leave(o)

\* A generator that can go on does; an observer reads what it is sent or leaves.
Fairness == \A o \in Streams : WF_vars(Generator(o))

Spec == Init /\ [][Next]_vars /\ Fairness

-----------------------------------------------------------------------------
(* Properties.                                                             *)

\* What a stream has sent and what waits for it.
Feed(o) == sent[o] \o queue[o]

\* A stream never repeats or reorders events, whether it begins with history,
\* loses events or is removed (server.py:181-202, multi_main.py:103-112).
InOrder ==
  \A o \in Streams : \A i, j \in 1..Len(Feed(o)) : i < j => Feed(o)[i] < Feed(o)[j]

\* A stream of server.EventBus has no gaps: it shows what it began with and then
\* every event, up to the one it is removed for (server.py:181-202).
NoGap ==
  policy = "drop_stream" =>
    \A o \in Streams : \A i \in 1..Len(Feed(o)) - 1 : Feed(o)[i + 1] = Feed(o)[i] + 1

\* As long as a stream is subscribed, it has been given the latest event published
\* since then, however slow its observer (server.py:186-192, multi_main.py:104-112).
UpToDate ==
  \A o \in subscribers :
    published > since[o] => Feed(o) # << >> /\ Feed(o)[Len(Feed(o))] = published

\* The number of the last event a stream has sent.
Reached(o) == IF sent[o] = << >> THEN 0 ELSE sent[o][Len(sent[o])]

\* An event published to a stream reaches its observer, or a later one does, or
\* the observer leaves (server.py:485-496).
EventsArrive ==
  \A o \in Streams : \A n \in 1..MaxEvents :
    o \in subscribers /\ since[o] < n /\ published = n
      ~> phase[o] = "closed" \/ Reached(o) >= n
=============================================================================
