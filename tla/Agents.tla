------------------------------- MODULE Agents -------------------------------
(***************************************************************************)
(* The agent process (apps/agent): agent_loop runs one cycle after the     *)
(* other; a cycle takes the agents one by one, fetches a batch of the      *)
(* activities behind the agent's cursor, handles each and moves the cursor.*)
(*                                                                         *)
(* An activity is dated when a request builds its envelope and is visible  *)
(* when the request commits, so that activities become visible in another  *)
(* order than that of their dates.  Messages are numbered by their dates;  *)
(* of the activities only those of messages are shown, the others move the *)
(* cursor and nothing else.  The request that an agent sends is one of the *)
(* API's: it may be committed after its client has given up.               *)
(***************************************************************************)
EXTENDS Naturals, Sequences, FiniteSets

CONSTANTS Agent,        \* principals with a policy, which answer each other too
          Human,        \* stands for everybody else
          batch_size,
          MaxMessages,  \* bound: messages ever written
          MaxStops      \* bound: how often a cycle breaks off or the process stops

ASSUME AgentsAssumption ==
    /\ IsFiniteSet(Agent) /\ Human \notin Agent
    /\ batch_size \in Nat \ {0} /\ MaxMessages \in Nat /\ MaxStops \in Nat

VARIABLES
    messages,       \* by date: sender, whether it calls the agents, the message answered,
                    \* state, who was past it
    cursor,         \* date of the last activity that each agent has done with
    runner,         \* the process: agents left in this cycle, the agent, its batch, where it is
    tried,          \* history: the messages that each agent has handled
    stops

agent_vars == <<messages, cursor, runner, tried, stops>>

Asleep == [left |-> {}, agent |-> Human, batch |-> {}, at |-> "sleep"]
Dates == 1..Len(messages)
Stored(i) == i \in Dates /\ messages[i].state = "stored"

AgentsInit ==
    /\ messages = <<>>
    /\ cursor = [a \in Agent |-> 0] /\ runner = Asleep
    /\ tried = [a \in Agent |-> {}] /\ stops = 0
-----------------------------------------------------------------------------
(* Requests to the API.  A message calls the agents when it mentions them  *)
(* or its channel is one where they are enabled.                           *)
Written(sender, calls, to) ==
    Append(messages, [sender |-> sender, calls |-> calls, to |-> to, state |-> "sent", late |-> {}])

send_message ==
    /\ Len(messages) < MaxMessages
    /\ \E calls \in BOOLEAN : messages' = Written(Human, calls, 0)
    /\ UNCHANGED <<cursor, runner, tried, stops>>

(* An agent is past a date when its cursor is, or its batch goes further.  *)
Past(a, i) ==
    \/ cursor[a] > i
    \/ runner.agent = a /\ \E k \in runner.batch : k > i

(* A request that fails stays as it is.                                    *)
CommitMessage(i) ==
    /\ i \in Dates /\ messages[i].state = "sent"
    /\ messages' = [messages EXCEPT ![i].state = "stored", ![i].late = {a \in Agent : Past(a, i)}]
    /\ UNCHANGED <<cursor, runner, tried, stops>>

edit_message(i) ==
    /\ Stored(i) /\ messages[i].sender = Human /\ messages[i].calls
    /\ messages' = [messages EXCEPT ![i].calls = FALSE]
    /\ UNCHANGED <<cursor, runner, tried, stops>>
-----------------------------------------------------------------------------
(* The process                                                             *)
run_once ==
    /\ runner.at = "sleep"
    /\ runner' = [runner EXCEPT !.left = Agent, !.at = "cycle"]
    /\ UNCHANGED <<messages, cursor, tried, stops>>

end_cycle ==
    /\ runner.at = "cycle" /\ runner.left = {}
    /\ runner' = Asleep
    /\ UNCHANGED <<messages, cursor, tried, stops>>

(* A batch is a set of dates, which are taken up from the earliest on.     *)
First(batch) == CHOOSE i \in batch : \A k \in batch : i <= k
Newest(batch) == CHOOSE i \in batch : \A k \in batch : i >= k

Behind(a) == {i \in Dates : Stored(i) /\ i > cursor[a]}
NewestFirst(a) ==                                                  (* Bug: desc for asc *)
    {i \in Behind(a) : Cardinality({k \in Behind(a) : k > i}) < batch_size}
_fetch_activities(a) ==
    {i \in Behind(a) : Cardinality({k \in Behind(a) : k < i}) < batch_size}

_process_policy(a) ==
    /\ runner.at = "cycle" /\ a \in runner.left
    /\ LET batch == _fetch_activities(a)
       IN  runner' = [left |-> runner.left \ {a}, agent |-> a, batch |-> batch,
                      at |-> IF batch = {} THEN "cycle" ELSE "handle"]
    /\ UNCHANGED <<messages, cursor, tried, stops>>

(* A deleted message is answered like any other.                           *)
Responds(a, i) == messages[i].sender # a /\ messages[i].calls

(* The answer quotes the message, and may so call the agents again.        *)
_handle_activity ==
    /\ runner.at = "handle"
    /\ LET a == runner.agent
           i == First(runner.batch)
       IN  /\ tried' = [tried EXCEPT ![a] = @ \cup {i}]
           /\ IF Responds(a, i)
              THEN /\ Len(messages) < MaxMessages
                   /\ \E calls \in {FALSE, messages[i].calls} : messages' = Written(a, calls, i)
                   /\ runner' = [runner EXCEPT !.at = "wait"]
              ELSE /\ runner' = [runner EXCEPT !.at = "move"] /\ UNCHANGED messages
    /\ UNCHANGED <<cursor, stops>>

(* Nothing more is written once the bound is reached.                      *)
full_stop ==
    /\ runner.at = "handle" /\ Len(messages) = MaxMessages
    /\ Responds(runner.agent, First(runner.batch))
    /\ tried' = [tried EXCEPT ![runner.agent] = @ \cup {First(runner.batch)}]
    /\ runner' = [runner EXCEPT !.at = "move"]
    /\ UNCHANGED <<messages, cursor, stops>>

(* The response arrives, or the client raises: refused, lost or too late.  *)
respond_returns ==
    /\ runner.at = "wait"
    /\ runner' = [runner EXCEPT !.at = "move"]
    /\ UNCHANGED <<messages, cursor, tried, stops>>

WholeBatch(a, batch) == Newest(batch)                                (* Bug: the cursor of the batch *)
Done(a, batch) == First(batch)
_update_cursor ==
    /\ runner.at = "move"
    /\ cursor' = [cursor EXCEPT ![runner.agent] = Done(runner.agent, runner.batch)]
    /\ LET left == runner.batch \ {First(runner.batch)}
       IN  runner' = [runner EXCEPT !.batch = left, !.at = IF left = {} THEN "cycle" ELSE "handle"]
    /\ UNCHANGED <<messages, tried, stops>>

(* An exception outside of _handle_activity ends the cycle, and a process  *)
(* that is stopped starts anew: what was fetched is forgotten either way.  *)
agent_loop ==
    /\ runner.at # "sleep" /\ stops < MaxStops
    /\ stops' = stops + 1 /\ runner' = Asleep
    /\ UNCHANGED <<messages, cursor, tried>>
-----------------------------------------------------------------------------
AgentStep ==
    \/ run_once \/ end_cycle \/ _handle_activity \/ full_stop \/ respond_returns \/ _update_cursor
    \/ \E a \in Agent : _process_policy(a)

AgentsNext ==
    \/ AgentStep \/ agent_loop \/ send_message
    \/ \E i \in Dates : CommitMessage(i) \/ edit_message(i)

(* The loop sleeps between two cycles and never ends.                      *)
AgentsFairness == WF_agent_vars(AgentStep)
AgentsSpec == AgentsInit /\ [][AgentsNext]_agent_vars /\ AgentsFairness
-----------------------------------------------------------------------------
(* The cursor passes no message that the agent has not handled, unless the *)
(* message became visible when the agent was already past its date.        *)
NothingIsSkipped ==
    \A a \in Agent : \A i \in 1..cursor[a] :
        Stored(i) /\ a \notin messages[i].late => i \in tried[a]

(* An agent answers a message once, and once more for each cycle that was  *)
(* broken off between the answer and the move of the cursor.               *)
AnswersAreBounded ==
    \A a \in Agent : \A i \in Dates :
        Cardinality({j \in Dates : messages[j].sender = a /\ messages[j].to = i}) <= 1 + stops

(* Whatever breaks off, again and again every agent has handled every      *)
(* message that became visible in time.                                    *)
EveryMessageIsTried ==
    []<>(\A a \in Agent : \A i \in Dates : Stored(i) /\ a \notin messages[i].late => i \in tried[a])

(* The cursor is neither too early nor too late: no message is passed over *)
(* and none is answered again but for a cycle that broke off (runner.py).  *)
HandledInTurn == NothingIsSkipped /\ AnswersAreBounded
=============================================================================
