---------------------------- MODULE ClientFronts ----------------------------
(***************************************************************************)
(* How a client's request reaches an operation of the controller and how   *)
(* the answer comes back.  There are three fronts.  mcp_http_proxy.py and  *)
(* StdioMCPServer read JSON-RPC requests from standard input, one line at  *)
(* a time, while the host may write ahead; AicApiClient makes one call at  *)
(* a time.  The proxy and the client ask the controller over HTTP and give *)
(* up after a timeout, when the operation may be yet to run; the stdio     *)
(* server runs it in its own process.  The operation itself keeps the      *)
(* contract AgentCall (AppRuntime implements it); what is checked here is  *)
(* that the client may rely on the same contract.                          *)
(***************************************************************************)
EXTENDS Sequences

CONSTANTS
  Requests,
  Asks        \* request -> what its client may send for it

Nothing == "nothing"
Lines == {"proxy", "stdio"}
Fronts == Lines \cup {"client"}

\* A message: its front, what it says, and whether it has an id.
Message(front, form, id) == [front |-> front, form |-> form, id |-> id]
Unsent == Message("none", "none", FALSE)

(* The forms of a line: "call" names a tool that is there and "unknown" one  *)
(* that is not; "noparams" is a tools/call whose params are null; "query" is *)
(* tools/list (of which the proxy makes an empty list if the controller does *)
(* not answer in 10 s), initialize, ping or an unknown method; "badjson"     *)
(* cannot be parsed.                                                         *)
LineForms == {"call", "unknown", "noparams", "query", "initialized", "badjson"}

\* The calls of the client, whose answer is what the method returns or raises.
StateCall == Message("client", "state", TRUE)      \* set_app_state, start_app, ...
ControlCall == Message("client", "control", TRUE)  \* send_control
ToolCall == Message("client", "call", TRUE)        \* mcp_call_tool
ConvenienceCall == ToolCall                        \* mcp_set_gain, ...: fixed names
MessageCall(form) == Message("client", form, TRUE)
ClientCalls == {StateCall, ControlCall, ToolCall, ConvenienceCall,
                MessageCall("message_call"), MessageCall("message_noparams"),
                Message("client", "unknown", TRUE)}

ASSUME FrontsAssumption ==
  /\ Nothing \notin Requests
  /\ Asks \in [Requests -> SUBSET ([front : Lines, form : LineForms, id : BOOLEAN] \cup ClientCalls)]

VARIABLES
  ask,      \* request -> the message sent
  lines,    \* front -> the requests on its standard input
  hand,     \* front -> the request it works on
  posted,   \* requests the controller has got, or will get
  phase, runs, reply,  \* the call of the operation, as AgentCall has it
  seen      \* request -> the answers its client has got

toolVars == <<phase, runs, reply>>
frontVars == <<ask, lines, hand, posted, toolVars, seen>>

Tool == INSTANCE AgentCall

Init ==
  /\ ask = [r \in Requests |-> Unsent]
  /\ lines = [f \in Fronts |-> <<>>]
  /\ hand = [f \in Fronts |-> Nothing]
  /\ posted = {}
  /\ seen = [r \in Requests |-> <<>>]
  /\ Tool!Init

-----------------------------------------------------------------------------
(* The client.                                                             *)

Write(r, m) ==
  /\ ask[r] = Unsent /\ m \in Asks[r]
  /\ ask' = [ask EXCEPT ![r] = m]
  /\ lines' = [lines EXCEPT ![m.front] = Append(@, r)]
  /\ UNCHANGED <<hand, posted, toolVars, seen>>

\* A host may write line after line; a method call ends before the next.
SendLine(r) == \E m \in Asks[r] : m.front \in Lines /\ Write(r, m)
CallMethod(r) ==
  /\ hand["client"] = Nothing /\ lines["client"] = <<>>
  /\ \E m \in Asks[r] : m.front = "client" /\ Write(r, m)

-----------------------------------------------------------------------------
(* The fronts.                                                             *)

\* An answer without an id belongs to no request.
Answer(r, a) ==
  seen' = IF ask[r].id THEN [seen EXCEPT ![r] = Append(@, a)] ELSE seen

\* mcp_http_proxy.py, handle_request: what it answers itself and what it fails at.
AnsweredByProxy(form) == form = "query"
RaisesInProxy(form) == form \in {"badjson", "noparams"}

\* MCPServer.handle_request: a call without a tool's name is an error; the
\* methods that change nothing are answered.
RefusedByServer(form) == form \in {"noparams", "message_noparams"}
AnsweredByServer(form) == form \in {"query", "initialized"}

TakeLine(f) ==
  /\ hand[f] = Nothing /\ lines[f] # <<>>
  /\ lines' = [lines EXCEPT ![f] = Tail(@)]

\* The front has done with the line, with an answer or without.
Done(f) == UNCHANGED <<hand, posted>>
Keep(f, r) == hand' = [hand EXCEPT ![f] = r] /\ UNCHANGED seen

\* Mutant: an exception ends the loop of the proxy.
TakeProxyLineOnce ==
  LET r == Head(lines["proxy"]) IN
  LET form == ask[r].form IN
  /\ TakeLine("proxy")
  /\ \/ RaisesInProxy(form) /\ Keep("proxy", r) /\ UNCHANGED posted
     \/ form = "initialized" /\ Done("proxy") /\ UNCHANGED seen
     \/ AnsweredByProxy(form) /\ Done("proxy") /\ Answer(r, "result")
     \/ form \in {"call", "unknown"} /\ posted' = posted \cup {r} /\ Keep("proxy", r)
     \/ form \in {"call", "unknown"} /\ Done("proxy") /\ Answer(r, "error")
  /\ UNCHANGED <<ask, toolVars>>

\* main: a line that raises is reported on stderr and passed over.  A call is
\* posted, unless the connection is refused.
TakeProxyLine ==
  LET r == Head(lines["proxy"]) IN
  LET form == ask[r].form IN
  /\ TakeLine("proxy")
  /\ \/ (RaisesInProxy(form) \/ form = "initialized") /\ Done("proxy") /\ UNCHANGED seen
     \/ AnsweredByProxy(form) /\ Done("proxy") /\ Answer(r, "result")
     \/ form \in {"call", "unknown"} /\ posted' = posted \cup {r} /\ Keep("proxy", r)
     \/ form \in {"call", "unknown"} /\ Done("proxy") /\ Answer(r, "error")
  /\ UNCHANGED <<ask, toolVars>>

\* StdioMCPServer.run: the error of a line that is no JSON has no id.
TakeStdioLine ==
  LET r == Head(lines["stdio"]) IN
  LET form == ask[r].form IN
  /\ TakeLine("stdio")
  /\ \/ form = "badjson" /\ Done("stdio") /\ UNCHANGED seen
     \/ AnsweredByServer(form) /\ Done("stdio") /\ Answer(r, "result")
     \/ RefusedByServer(form) /\ Done("stdio") /\ Answer(r, "refused")
     \/ form \in {"call", "unknown"} /\ posted' = posted \cup {r} /\ Keep("stdio", r)
  /\ UNCHANGED <<ask, toolVars>>

\* _make_request: the connection may be refused, which raises.
MakeRequest ==
  LET r == Head(lines["client"]) IN
  /\ TakeLine("client")
  /\ \/ posted' = posted \cup {r} /\ Keep("client", r)
     \/ Done("client") /\ Answer(r, "raised")
  /\ UNCHANGED <<ask, toolVars>>

\* What the client is shown of the reply.  An exception of a tool is an HTTP
\* error, except for /mcp/message and in the stdio server; the proxy makes a
\* result with isError of that, raise_for_status an exception.  REST endpoints
\* answer every error so; a command that is rejected is not one.
Shown(r) ==
  LET m == ask[r] IN
  CASE m.form = "state" /\ reply[r] # "result" -> "raised"
    [] m.form = "control" /\ reply[r] = "error" -> "raised"
    [] reply[r] = "raised" /\ (m.front # "client" \/ m.form = "message_call") -> "error"
    [] OTHER -> reply[r]

\* Mutant: an answer is taken from whichever connection has one.
ReceiveFromAny(f) ==
  /\ hand[f] # Nothing
  /\ \E q \in posted : /\ phase[q] = "closed" /\ ask[q].front = f
                       /\ Answer(hand[f], Shown(q))
  /\ hand' = [hand EXCEPT ![f] = Nothing]
  /\ UNCHANGED <<ask, lines, posted, toolVars>>

\* The answer arrives on the connection of the request.
Receive(f) ==
  /\ hand[f] \in posted /\ phase[hand[f]] = "closed"
  /\ Answer(hand[f], Shown(hand[f]))
  /\ hand' = [hand EXCEPT ![f] = Nothing]
  /\ UNCHANGED <<ask, lines, posted, toolVars>>

\* 30 s, or timeout of the client: the connection is closed, and an answer that
\* comes later is lost with it.  The controller does not notice.
GiveUp(f) ==
  /\ f # "stdio" /\ hand[f] \in posted
  /\ Answer(hand[f], IF f = "proxy" THEN "error" ELSE "raised")
  /\ hand' = [hand EXCEPT ![f] = Nothing]
  /\ UNCHANGED <<ask, lines, posted, toolVars>>

TakeInput(f) ==
  CASE f = "proxy" -> TakeProxyLine [] f = "stdio" -> TakeStdioLine [] f = "client" -> MakeRequest
FrontStep(f) == TakeInput(f) \/ Receive(f) \/ GiveUp(f)

-----------------------------------------------------------------------------
(* The controller, or the tool registry of the stdio server's process.     *)

\* MCPToolRegistry.call_tool does not know the tool, or handle_request refuses.
Refuses(r) == ask[r].form = "unknown" \/ RefusedByServer(ask[r].form)

Serve(r) ==
  /\ r \in posted
  /\ \/ ~Refuses(r) /\ Tool!Open(r)
     \/ phase[r] = "new" /\ Tool!Close(r, "refused")

\* Only an operation that waits for a loop may run after its reply.
Immediate(r) == ask[r].form \in {"state", "control"}
Operate(r) == (Immediate(r) => phase[r] = "open") /\ Tool!Run(r)
Reply(r) ==
  \E a \in Tool!Answers \ {"refused"} :
    (Immediate(r) => a # "timeout") /\ Tool!Close(r, a)

ControllerStep(r) ==
  /\ Serve(r) \/ Operate(r) \/ Reply(r)
  /\ UNCHANGED <<ask, lines, hand, posted, seen>>

Next ==
  \/ \E r \in Requests : SendLine(r) \/ CallMethod(r) \/ ControllerStep(r)
  \/ \E f \in Fronts : FrontStep(f)

\* The fronts run.  A call in the stdio server's own process ends: that of an
\* agent tool by its timeout, that of a control tool, which waits in send_string
\* without one, because the command broker is assumed to take messages again
\* (Northbound has that wait).  Of the controller behind HTTP nothing is assumed.
FrontSpec ==
  /\ Init /\ [][Next]_frontVars
  /\ \A f \in Fronts : WF_frontVars(FrontStep(f))
  /\ \A r \in Requests :
       WF_frontVars(ask[r].front = "stdio" /\ ControllerStep(r) /\ phase'[r] # phase[r])

-----------------------------------------------------------------------------
\* Requests that are meant to have an effect, as their clients see them.
IsCall(r) ==
  ask[r].form \notin {"none", "query", "initialized", "badjson"}
HostPhase ==
  [r \in Requests |->
     CASE ~IsCall(r) -> "new"
       [] IsCall(r) /\ seen[r] = <<>> -> "open"
       [] IsCall(r) /\ Len(seen[r]) = 1 -> "closed"
       [] OTHER -> "closed again"]
HostReply ==
  [r \in Requests |-> IF IsCall(r) /\ seen[r] # <<>> THEN Head(seen[r]) ELSE "none"]

\* Through every front a client may rely on what an agent request promises: one
\* answer, for its own request and no other; a result only after the operation
\* has run, which it does once at most; and after a refusal it never runs.  A
\* timeout of the front, a refused connection and an HTTP error tell nothing.
Host == INSTANCE AgentCall WITH phase <- HostPhase, reply <- HostReply
ClientsRelyOnCall == Host!Spec

\* What a front has an answer for.
Answerable(r) ==
  /\ ask[r].id
  /\ ask[r].front = "proxy" => ~RaisesInProxy(ask[r].form) /\ ask[r].form # "initialized"
  /\ ask[r].form # "badjson"

\* Every request with an id that a front can make sense of is answered, behind
\* whatever lines it waits, and whether or not the controller answers.
RequestsAnswered == \A r \in Requests : Answerable(r) ~> seen[r] # <<>>
=============================================================================
