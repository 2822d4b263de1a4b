---------------------------- MODULE Conversation ----------------------------
(***************************************************************************)
(* The conversation an XBWorldAgent keeps with its LLM (agent.py).  A turn *)
(* or a user's command appends a user message and runs _llm_loop: call the *)
(* LLM, append its reply, run the tools it asks for, append their results, *)
(* and again, at most MaxIter times; then trim.  wait_for cancels a turn   *)
(* that takes too long, wherever the loop is suspended, and an answer of   *)
(* an unexpected form raises out of the loop.                              *)
(*                                                                         *)
(* A message is its role and the number of tool calls it makes: texts and  *)
(* arguments do not matter here, and the results of one reply are appended *)
(* together, in the order of its calls.                                    *)
(***************************************************************************)
EXTENDS Naturals, Sequences

CONSTANTS
  TrimAt,       \* a conversation is trimmed above this length (16 in the code)
  Keep,         \* the number of messages trimming looks at (10)
  MaxIter,      \* max_iterations (5)
  MaxCalls,     \* bound: tool calls in a reply
  MaxCuts,      \* bound: loops ended by a cancellation or an exception
  OnePerCall    \* OpenAIProvider: a message per result; Gemini: one for all

ASSUME ConversationAssumption ==
  /\ TrimAt \in Nat /\ Keep \in 1..TrimAt - 1
  /\ MaxIter \in Nat \ {0}
  /\ MaxCalls \in Nat
  /\ MaxCuts \in Nat
  /\ OnePerCall \in BOOLEAN

VARIABLES
  conv,      \* XBWorldAgent.conversation
  pc,        \* where _llm_loop is suspended: "idle" when it does not run
  auto,      \* is it a turn, under the timeout, and not a user's command?
  iter,      \* iteration of the loop
  cuts       \* number of loops that were cut short

vars == <<conv, pc, auto, iter, cuts>>

Roles    == {"system", "user", "assistant", "tool"}
Messages == [role : Roles, calls : 0..MaxCalls]

Message(role) == [role |-> role, calls |-> 0]
Calls(k)      == [role |-> "assistant", calls |-> k]

TypeOK ==
  /\ conv \in Seq(Messages)
  /\ pc \in {"idle", "call", "tools"}
  /\ auto \in BOOLEAN
  /\ iter \in 0..MaxIter
  /\ cuts \in 0..MaxCuts

Init ==
  /\ conv = <<Message("system")>>
  /\ pc = "idle"
  /\ auto = FALSE
  /\ iter = 0
  /\ cuts = 0

-----------------------------------------------------------------------------
(* Operations on a conversation.                                           *)

\* format_tool_results, for k calls.
Results(k) == [i \in 1..(IF OnePerCall THEN k ELSE 1) |-> Message("tool")]

\* The number of tool messages q begins with.
LeadingTools(q) ==
  CHOOSE n \in 0..Len(q) :
    /\ \A i \in 1..n : q[i].role = "tool"
    /\ n < Len(q) => q[n + 1].role # "tool"

\* Mutant: what is kept may begin in the middle of a reply's results (as in
\* LLMEngine._trim_conversation).
PlainTrim(q) ==
  IF Len(q) <= TrimAt
  THEN q
  ELSE <<q[1]>> \o SubSeq(q, Len(q) - Keep + 1, Len(q))

\* Mutant: the oldest messages are kept, in place of the latest.
TrimLatest(q) ==
  IF Len(q) <= TrimAt
  THEN q
  ELSE SubSeq(q, 1, CHOOSE n \in Keep..Len(q) :
                      /\ n < Len(q) => q[n + 1].role # "tool"
                      /\ \A i \in Keep + 1..n : q[i].role = "tool")

\* _trim_conversation: the system message and the last Keep ones, without the
\* results they begin with, whose calls are not among them.
Trim(q) ==
  IF Len(q) <= TrimAt
  THEN q
  ELSE LET recent == SubSeq(q, Len(q) - Keep + 1, Len(q))
       IN  <<q[1]>> \o SubSeq(recent, LeadingTools(recent) + 1, Keep)

\* The length of q without the replies and results it ends with.
BeforeReplies(q) ==
  CHOOSE n \in 0..Len(q) :
    /\ n > 0 => q[n].role \notin {"tool", "assistant"}
    /\ \A i \in n + 1..Len(q) : q[i].role \in {"tool", "assistant"}

\* Mutant: only the results are taken back.
RollbackTools(q) ==
  LET n == CHOOSE m \in 0..Len(q) : /\ m > 0 => q[m].role # "tool"
                                    /\ \A i \in m + 1..Len(q) : q[i].role = "tool"
  IN  SubSeq(q, 1, n)

\* An answer that cannot be parsed takes back the loop's replies and results.
Rollback(q) == SubSeq(q, 1, BeforeReplies(q))

\* Every call of an assistant message has its result right after it.
Answered(q) ==
  \A i \in 1..Len(q) :
    q[i].calls > 0 => \A j \in 1..Len(Results(q[i].calls)) :
                        i + j <= Len(q) /\ q[i + j].role = "tool"

-----------------------------------------------------------------------------
(* The loop.                                                               *)

\* _autonomous_turn and _handle_user_command, up to the loop's first await.
Start(isAuto) ==
  /\ pc = "idle"
  /\ conv' = Append(conv, Message("user"))
  /\ pc' = "call"
  /\ auto' = isAuto
  /\ iter' = 1
  /\ UNCHANGED cuts

\* The loop is left with conversation q, and trims it.
Leave(q) ==
  /\ conv' = Trim(q)
  /\ pc' = "idle"
  /\ UNCHANGED <<auto, iter, cuts>>

\* No answer, or an HTTP status that is not 200.
CallFails == pc = "call" /\ Leave(conv)

\* The API answers.  A conversation with an unanswered call is refused, with a
\* status that is not 200 ("OpenAI requires ..." in format_tool_results).
Answers == pc = "call" /\ Answered(conv)

Unparseable == Answers /\ Leave(Rollback(conv))

\* Mutant: the loop returns before it trims.
ReportReturns ==
  /\ Answers
  /\ conv' = Append(conv, Message("assistant"))
  /\ pc' = "idle"
  /\ UNCHANGED <<auto, iter, cuts>>

\* A text without tool calls ends the loop.
Report == Answers /\ Leave(Append(conv, Message("assistant")))

CallTools ==
  /\ Answers
  /\ \E k \in 1..MaxCalls : conv' = Append(conv, Calls(k))
  /\ pc' = "tools"
  /\ UNCHANGED <<auto, iter, cuts>>

\* The tools have run: their results are appended, and the loop goes on.
Answer ==
  /\ pc = "tools"
  /\ LET answered == conv \o Results(conv[Len(conv)].calls)
     IN  IF iter = MaxIter
         THEN Leave(answered)
         ELSE /\ conv' = answered
              /\ pc' = "call"
              /\ iter' = iter + 1
              /\ UNCHANGED <<auto, cuts>>

\* The loop ends where it is, and nothing is trimmed.
Cut ==
  /\ cuts < MaxCuts
  /\ cuts' = cuts + 1
  /\ pc' = "idle"
  /\ UNCHANGED <<conv, auto, iter>>

\* wait_for cancels a turn.
Timeout == auto /\ pc \in {"call", "tools"} /\ Cut

\* parse_response is not under the loop's try: it raises on a message whose
\* tool_calls are null.
Malformed == Answers /\ Cut

Loop == CallFails \/ Unparseable \/ Report \/ CallTools \/ Answer

Next == (\E isAuto \in BOOLEAN : Start(isAuto)) \/ Loop \/ Timeout \/ Malformed

\* A call and a tool end, at the latest by their own cuts, and turns keep
\* coming.
Fairness == WF_vars(Loop) /\ WF_vars(Start(TRUE))

Spec == Init /\ [][Next]_vars /\ Fairness

-----------------------------------------------------------------------------
(* Properties.                                                             *)

\* "Every 'tool' message follows an 'assistant' message with tool_calls"
\* (agent.py:476): no trimming, rollback or cancellation leaves an orphan.
ToolsFollow ==
  \A i \in 1..Len(conv) : conv[i].role = "tool" =>
    /\ i > 1
    /\ \/ conv[i - 1].role = "tool"
       \/ conv[i - 1].role = "assistant" /\ conv[i - 1].calls > 0

\* "Every tool_call_id in an assistant message has a matching tool response"
\* (agent.py:477), when the LLM is called.
CallsAnswered == pc = "call" => Answered(conv)

\* And it holds as long as no loop is cut short: replies, results, rollbacks and
\* trimming alone never part a call from its results (agent.py:402-497).
UncutAnswered == cuts = 0 => CallsAnswered

\* "Keep conversation manageable by trimming old messages" (agent.py:472): every
\* way out of a loop that is not cut short leaves at most TrimAt messages.
UncutTrimmed == cuts = 0 /\ pc = "idle" => Len(conv) <= TrimAt

\* A conversation the API refuses is repaired: the calls without results are
\* trimmed away some turns later.
Recovers == ~Answered(conv) ~> Answered(conv)
=============================================================================
