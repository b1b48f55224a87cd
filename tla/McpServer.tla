------------------------------ MODULE McpServer ------------------------------
(***************************************************************************)
(* The MCP servers (src/src/mcp.rs) over the memory store.  A server reads *)
(* one message at a time from its client's pipe and answers it; a verb     *)
(* that finds the project's name missing makes it ask the client for one,  *)
(* and it then reads the pipe itself until a message with the id of its    *)
(* question arrives.  Both sides number their requests, each its own way.  *)
(***************************************************************************)
EXTENDS UserMemory

CONSTANTS
    Asks,           \* the requests each server's client may send
    Patient,        \* the servers whose client waits for each answer
    MaxCalls        \* bound: requests after the first, and dream commands

VARIABLES
    srv,        \* each server: running, what it knows of its client, its call
    chan,       \* each connection: the pipe, and the client's side of it
    calls       \* how many requests and dream commands were started

vars == <<memoryVars, srv, chan, calls>>

Down == [up |-> FALSE, elicits |-> FALSE, next_id |-> 1, at |-> "read", call |-> -1, eid |-> 0]
Fresh == [Down EXCEPT !.up = TRUE]
\* unanswered: requests sent; turn: the last one sent with none unanswered;
\* owed: questions not replied to; mistaken: a request was read as a reply.
Closed == [pipe |-> << >>, open |-> FALSE, last |-> -1, unanswered |-> {},
           turn |-> -1, owed |-> {}, mistaken |-> FALSE]
Opened == [Closed EXCEPT !.open = TRUE]

\* ping stands for whatever is answered at once and changes nothing: tools/list,
\* an unknown method or tool, memory_list, memory_read, a named verb.
Tool == [kind : {"initialize", "ping", "consolidate", "verb"}, slug : {INDEX}, draft : {"none"}]
        \cup [kind : {"write"}, slug : Slug, draft : Draft]
        \cup [kind : {"delete"}, slug : Slug, draft : {"none"}]
ASSUME ServerAssumption == Asks \in [Server -> SUBSET Tool] /\ MaxCalls \in Nat
Message(id, kind, slug, draft) == [id |-> id, kind |-> kind, slug |-> slug, draft |-> draft]
IsReply(msg) == msg.kind = "reply"

-----------------------------------------------------------------------------
(* The client. *)

Send(s, tool) ==
    LET c == chan[s]
        id == c.last + 1
    IN  /\ srv[s].up /\ c.open /\ calls < MaxCalls
        /\ s \in Patient => c.unanswered = {}
        /\ tool.kind = "initialize" => id = 0
        /\ chan' = [chan EXCEPT ![s] = [c EXCEPT
              !.pipe = Append(@, Message(id, tool.kind, tool.slug, tool.draft)),
              !.last = id,
              !.unanswered = @ \cup {id},
              !.turn = IF c.unanswered = {} THEN id ELSE @]]
        /\ calls' = IF tool.kind = "initialize" THEN calls ELSE calls + 1
        /\ UNCHANGED <<memoryVars, srv>>

\* A notification has no id and gets no answer; a cancelled call goes on.
Notify(s) ==
    /\ srv[s].up /\ chan[s].open /\ calls < MaxCalls /\ s \notin Patient
    /\ chan' = [chan EXCEPT ![s].pipe = Append(@, Message(-1, "notification", INDEX, "none"))]
    /\ calls' = calls + 1
    /\ UNCHANGED <<memoryVars, srv>>

Reply(s, id) ==
    /\ chan[s].open /\ id \in chan[s].owed
    /\ chan' = [chan EXCEPT ![s].pipe = Append(@, Message(id, "reply", INDEX, "none")),
                            ![s].owed = @ \ {id}]
    /\ UNCHANGED <<memoryVars, srv, calls>>

\* Bound: a client leaves when no more is going to be asked.
Close(s) ==
    /\ srv[s].up /\ chan[s].open /\ calls = MaxCalls
    /\ chan' = [chan EXCEPT ![s].open = FALSE]
    /\ UNCHANGED <<memoryVars, srv, calls>>

-----------------------------------------------------------------------------
(* The server. *)

ReadsAt(s, at) == srv[s].up /\ srv[s].at = at /\ chan[s].pipe # << >>
read_message(s) == Head(chan[s].pipe)

\* What stands of the connection once the message at its head is read.
Rest(s) == [chan[s] EXCEPT !.pipe = Tail(@)]
Answered(c, id) == [c EXCEPT !.unanswered = @ \ {id}]

\* initialize, and whatever is answered at once.
Answer(s) ==
    /\ ReadsAt(s, "read") /\ read_message(s).kind \in {"initialize", "ping"}
    /\ srv' = [srv EXCEPT ![s].elicits = @ \/ read_message(s).kind = "initialize"]
    /\ chan' = [chan EXCEPT ![s] = Answered(Rest(s), read_message(s).id)]
    /\ UNCHANGED <<memoryVars, calls>>

\* A notification, or a reply nobody waits for any more.
Ignore(s) ==
    /\ ReadsAt(s, "read") /\ (IsReply(read_message(s)) \/ read_message(s).kind = "notification")
    /\ chan' = [chan EXCEPT ![s] = Rest(s)]
    /\ UNCHANGED <<memoryVars, srv, calls>>

handle_tool_call(s) ==
    /\ ReadsAt(s, "read")
    /\ LET msg == read_message(s)
       IN  /\ \/ msg.kind = "write" /\ write(s, msg.slug, msg.draft) /\ UNCHANGED look
              \/ msg.kind = "delete" /\ delete(s, msg.slug) /\ UNCHANGED look
              \/ msg.kind = "consolidate" /\ memory_consolidate(s)
              \/ msg.kind = "verb" /\ UNCHANGED memoryVars
           /\ srv' = [srv EXCEPT ![s].at = IF msg.kind = "verb" THEN "verb" ELSE "tool",
                                 ![s].call = msg.id]
    /\ chan' = [chan EXCEPT ![s] = Rest(s)]
    /\ UNCHANGED calls

\* The store has done, or refused, what the tool asked.
ToolDone(s) ==
    /\ srv[s].up /\ srv[s].at = "tool" /\ ~Busy(s)
    /\ srv' = [srv EXCEPT ![s].at = "read"]
    /\ chan' = [chan EXCEPT ![s] = Answered(@, srv[s].call)]
    /\ UNCHANGED <<memoryVars, calls>>

\* init or adopt ends: with a name it had or could do without, or for want of one.
VerbDone(s) ==
    /\ srv[s].up /\ srv[s].at = "verb"
    /\ srv' = [srv EXCEPT ![s].at = "read"]
    /\ chan' = [chan EXCEPT ![s] = Answered(@, srv[s].call)]
    /\ UNCHANGED <<memoryVars, calls>>

\* Faulty variant: the questions are numbered two apart.
elicitation_skips(s) ==
    /\ srv[s].up /\ srv[s].at = "verb" /\ srv[s].elicits
    /\ srv' = [srv EXCEPT ![s].at = "elicit", ![s].eid = srv[s].next_id + 1,
                          ![s].next_id = @ + 2]
    /\ chan' = [chan EXCEPT ![s].owed = @ \cup {srv[s].next_id + 1}]
    /\ UNCHANGED <<memoryVars, calls>>

elicitation_request(s) ==
    /\ srv[s].up /\ srv[s].at = "verb" /\ srv[s].elicits
    /\ srv' = [srv EXCEPT ![s].at = "elicit", ![s].eid = srv[s].next_id,
                          ![s].next_id = @ + 1]
    /\ chan' = [chan EXCEPT ![s].owed = @ \cup {srv[s].next_id}]
    /\ UNCHANGED <<memoryVars, calls>>

\* Faulty variant: only a message with a method can be the one waited for.
IsRequestFor(s, msg) == msg.id = srv[s].eid /\ ~IsReply(msg)

\* While it waits the server drops every message of another id, requests too.
IsFor(s, msg) == msg.id = srv[s].eid
Elicited(s) ==
    /\ ReadsAt(s, "elicit")
    /\ LET msg == read_message(s)
       IN  IF IsFor(s, msg)
           THEN /\ srv' = [srv EXCEPT ![s].at = "read"]
                /\ chan' = [chan EXCEPT ![s] =
                     [Answered(Rest(s), srv[s].call) EXCEPT !.mistaken = @ \/ ~IsReply(msg)]]
           ELSE /\ chan' = [chan EXCEPT ![s] = Rest(s)]
                /\ UNCHANGED srv
    /\ UNCHANGED <<memoryVars, calls>>

\* End of input: a call that waits is answered with the verb's first result.
EndOfInput(s) ==
    /\ srv[s].up /\ chan[s].pipe = << >> /\ ~chan[s].open
    /\ \/ /\ srv[s].at = "read"
          /\ srv' = [srv EXCEPT ![s] = Down]
          /\ chan' = [chan EXCEPT ![s] = Closed]
       \/ /\ srv[s].at = "elicit"
          /\ srv' = [srv EXCEPT ![s].at = "read"]
          /\ chan' = [chan EXCEPT ![s] = Answered(@, srv[s].call)]
    /\ UNCHANGED <<memoryVars, calls>>

serve(s) ==
    \/ Answer(s) \/ Ignore(s) \/ handle_tool_call(s) \/ ToolDone(s)
    \/ VerbDone(s) \/ elicitation_request(s) \/ Elicited(s) \/ EndOfInput(s)

\* One that is killed while it has nothing to do is one never used again.
Killed(s) ==
    /\ srv[s].up /\ srv[s].at # "read"
    /\ IF Busy(s) THEN Crash(s) ELSE UNCHANGED memoryVars
    /\ srv' = [srv EXCEPT ![s] = Down]
    /\ chan' = [chan EXCEPT ![s] = Closed]
    /\ UNCHANGED calls

-----------------------------------------------------------------------------
Command(d) ==
    /\ calls < MaxCalls
    /\ \/ \E here \in BOOLEAN : run_dream(d, here)
       \/ retire_marker(d)
    /\ calls' = calls + 1
    /\ UNCHANGED <<srv, chan>>

Step(p) == (StoreStep(p) \/ DreamStep(p)) /\ UNCHANGED <<srv, chan, calls>>

Init ==
    /\ MemoryInit
    /\ srv = [s \in Server |-> Fresh]
    /\ chan = [s \in Server |-> Opened]
    /\ calls = 0

Next ==
    \/ \E s \in Server :
          \/ (\E tool \in Asks[s] : Send(s, tool)) \/ Notify(s) \/ Close(s)
          \/ (\E id \in chan[s].owed : Reply(s, id))
          \/ serve(s) \/ Killed(s)
    \/ \E d \in Dream : Command(d) \/ (Crash(d) /\ UNCHANGED <<srv, chan, calls>>)
    \/ \E p \in Proc : Step(p)
    \/ RemoveMarker /\ UNCHANGED <<srv, chan, calls>>

\* The scheduler runs every process, and a client replies to what it is asked.
Fairness ==
    /\ \A s \in Server : WF_vars(serve(s))
    /\ \A p \in Proc : WF_vars(Step(p))
    /\ \A s \in Server :
          WF_vars(\E id \in chan[s].owed : Reply(s, id))

Spec == Init /\ [][Next]_vars /\ Fairness
=============================================================================
