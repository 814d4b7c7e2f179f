-------------------------------- MODULE McpShim --------------------------------
(* The MCP shim (mcp/stdio_proxy.py) between a client and a child MCP server.   *)
(* One thread passes the client's messages on and records the ids of tools/call *)
(* requests; the other one reads the child's messages and has the daemon        *)
(* sanitize a result whose id is recorded.  Client, child and daemon are        *)
(* outside: the client does not reuse an id it waits for, the child answers what *)
(* it was asked, in any order, and may send notifications, requests of its own,    *)
(* lines that are no message, and end.                                          *)
EXTENDS Naturals, Sequences

CONSTANTS
    Ids,         \* ids of the client's requests
    ChildIds,    \* ids of the child's own requests
    Contents,    \* what a tool may answer: sequences of kinds of items
    Sizes,       \* sizes of a message: it fits, or re-encoded it is too large
    PipeCap,     \* messages a pipe holds before its writer waits
    \* bounds of the model
    MaxAsked,    \* on the client's requests
    MaxExtra     \* on what the child sends unasked

\* Items of a result: as the child wrote them ...
RawKinds == {"text", "resource", "blob", "media"}
\* ... unknown ones, which pass; and what the shim makes of the others.
Items == RawKinds \union {"other", "clean", "empty", "notice"}

ASSUME ShimAssumption == /\ "none" \notin Ids \union ChildIds
                         /\ Contents \subseteq Seq(RawKinds \union {"other"})
                         /\ Sizes \subseteq {"fits", "large"}
                         /\ PipeCap \in Nat \ {0}
                         /\ MaxAsked \in Nat
                         /\ MaxExtra \in Nat

VARIABLES
    asked,      \* asked[i]: what the client waits for under id i
    inbound,    \* the thread client_to_child
    pending,    \* pending_calls
    toChild,    \* child.stdin
    serving,    \* requests the child has read and not answered
    toShim,     \* child.stdout
    alive,      \* is the child running?
    outbound,   \* the thread child_to_client
    heard,      \* what the client has read last
    up,         \* is the shim process up?
    sent,       \* requests sent so far
    extra       \* messages the child sent unasked

childVars == <<toChild, serving, toShim, alive, extra>>
vars == <<asked, inbound, pending, toChild, serving, toShim, alive, outbound, heard,
          up, sent, extra>>

Requests == [kind : {"call", "list"}, id : Ids, size : {"fits", "large"}]
Messages == [kind : {"call", "list"}, id : Ids, items : Seq(Items),
             size : {"fits", "large"}]
            \union [kind : {"request"}, id : ChildIds]
            \union [kind : {"notification"}, id : {"none"}]
            \union [kind : {"garbage"}, id : {"none"}]

NoMessage == [kind |-> "none", id |-> "none"]

\* Types of the variables.
TypeOK == /\ asked \in [Ids -> {"nothing", "call", "list"}]
          /\ inbound \in [todo : Seq({"record", "forward"}),
                          msg : Requests \union {NoMessage}, open : BOOLEAN]
          /\ pending \subseteq Ids
          /\ toChild \in Seq(Requests) /\ Len(toChild) <= PipeCap
          /\ serving \subseteq Requests
          /\ toShim \in Seq(Messages) /\ Len(toShim) <= PipeCap
          /\ alive \in BOOLEAN
          /\ outbound \in [st : {"reading", "sanitizing", "writing", "ended"},
                           msg : Messages \union {NoMessage}, at : Nat]
          /\ heard \in Messages \union {NoMessage}
          /\ up \in BOOLEAN
          /\ sent \in Nat /\ extra \in Nat

Init == /\ asked = [i \in Ids |-> "nothing"]
        /\ inbound = [todo |-> <<>>, msg |-> NoMessage, open |-> TRUE]
        /\ pending = {}
        /\ toChild = <<>>
        /\ serving = {}
        /\ toShim = <<>>
        /\ alive = TRUE
        /\ outbound = [st |-> "reading", msg |-> NoMessage, at |-> 1]
        /\ heard = NoMessage
        /\ up = TRUE
        /\ sent = 0
        /\ extra = 0
--------------------------------------------------------------------------------
(* client_to_child                                                             *)

\* a shim that records a call after it has passed it on
RecordLast(kind) == IF kind = "call" THEN <<"forward", "record">> ELSE <<"forward">>

\* What the thread does with a message: a tools/call is recorded first.
Todo(kind) == IF kind = "call" THEN <<"record", "forward">> ELSE <<"forward">>

NextIs(step) == up /\ inbound.open /\ inbound.todo # <<>> /\ Head(inbound.todo) = step
Did == inbound' = [inbound EXCEPT !.todo = Tail(@)]

\* The client sends a request and the thread reads it.
Ask(i, kind, size) ==
    /\ up /\ inbound.open /\ inbound.todo = <<>>
    /\ sent < MaxAsked
    /\ asked[i] = "nothing"
    /\ asked' = [asked EXCEPT ![i] = kind]
    /\ inbound' = [inbound EXCEPT !.todo = Todo(kind),
                                  !.msg = [kind |-> kind, id |-> i, size |-> size]]
    /\ sent' = sent + 1
    /\ UNCHANGED <<pending, outbound, heard, up, childVars>>

Record == /\ NextIs("record")
          /\ Did
          /\ pending' = pending \union {inbound.msg.id}
          /\ UNCHANGED <<asked, outbound, heard, up, sent, childVars>>

\* a write that does not wait
ForwardAtOnce == /\ NextIs("forward")
                 /\ Did
                 /\ toChild' = Append(toChild, inbound.msg)
                 /\ UNCHANGED <<asked, pending, serving, toShim, alive, outbound, heard,
                                up, sent, extra>>

\* _write_message to the child: waits for room; a message that is too large is
\* dropped without a word.
Forward == /\ NextIs("forward")
           /\ Did
           /\ IF inbound.msg.size = "fits"
              THEN /\ alive /\ Len(toChild) < PipeCap
                   /\ toChild' = Append(toChild, inbound.msg)
              ELSE UNCHANGED toChild
           /\ UNCHANGED <<asked, pending, serving, toShim, alive, outbound, heard, up,
                          sent, extra>>

\* The write fails because the child is gone: the thread ends.
ForwardBreaks == /\ NextIs("forward")
                 /\ inbound.msg.size = "fits" /\ ~alive
                 /\ inbound' = [inbound EXCEPT !.todo = <<>>, !.open = FALSE]
                 /\ UNCHANGED <<asked, pending, outbound, heard, up, sent, childVars>>

\* End of the client's input, or a line that is no message: the child's input is
\* closed and the thread ends.
CloseInput == /\ up /\ inbound.open /\ inbound.todo = <<>>
              /\ inbound' = [inbound EXCEPT !.open = FALSE]
              /\ UNCHANGED <<asked, pending, outbound, heard, up, sent, childVars>>
--------------------------------------------------------------------------------
(* The child                                                                   *)

Emit(m) == alive /\ Len(toShim) < PipeCap /\ toShim' = Append(toShim, m)

ChildReads == /\ alive /\ toChild # <<>>
              /\ serving' = serving \union {Head(toChild)}
              /\ toChild' = Tail(toChild)
              /\ UNCHANGED <<asked, inbound, pending, toShim, alive, outbound, heard, up,
                             sent, extra>>

ChildAnswers ==
    /\ \E q \in serving, size \in Sizes :
          /\ serving' = serving \ {q}
          /\ \E content \in (IF q.kind = "call" THEN Contents ELSE {<<>>}) :
                Emit([kind |-> q.kind, id |-> q.id, items |-> content, size |-> size])
    /\ UNCHANGED <<asked, inbound, pending, toChild, alive, outbound, heard, up, sent,
                   extra>>

ChildSpeaks ==
    /\ extra < MaxExtra
    /\ extra' = extra + 1
    /\ \/ \E i \in ChildIds : Emit([kind |-> "request", id |-> i])
       \/ \E kind \in {"notification", "garbage"} : Emit([kind |-> kind, id |-> "none"])
    /\ UNCHANGED <<asked, inbound, pending, toChild, serving, alive, outbound, heard, up,
                   sent>>

\* The child ends or crashes; what it has written stays in the pipe.
ChildExits == /\ alive
              /\ alive' = FALSE
              /\ toChild' = <<>>
              /\ serving' = {}
              /\ UNCHANGED <<asked, inbound, pending, toShim, outbound, heard, up, sent,
                             extra>>
--------------------------------------------------------------------------------
(* child_to_client                                                             *)

At(st) == up /\ outbound.st = st

\* The end of the child's output, or a line that is no message or is too long, ends
\* the thread for good.
StopReading == /\ At("reading")
               /\ \/ toShim = <<>> /\ ~alive
                  \/ toShim # <<>> /\ Head(toShim).kind = "garbage"
               /\ outbound' = [outbound EXCEPT !.st = "ended"]
               /\ UNCHANGED <<asked, inbound, pending, heard, up, sent, childVars>>

IsAnswer(m) == m.kind \in {"call", "list"}

\* The thread reads a message, looks its id up under the lock and pops it.
Receive(popped) ==
    /\ At("reading")
    /\ toShim # <<>> /\ Head(toShim).kind # "garbage"
    /\ toShim' = Tail(toShim)
    /\ outbound' = [st |-> IF IsAnswer(Head(toShim)) /\ Head(toShim).id \in pending
                           THEN "sanitizing" ELSE "writing",
                    msg |-> Head(toShim), at |-> 1]
    /\ pending' = popped
    /\ UNCHANGED <<asked, inbound, toChild, serving, alive, heard, up, sent, extra>>

\* a lookup that leaves the id in pending_calls
TakeLeavesPending == Receive(pending)

\* a lock that the other thread holds while it writes to the child
TakeAfterForward == inbound.todo = <<>> /\ Receive(pending \ {Head(toShim).id})

\* Any message takes its id out of pending_calls; a result is sanitized if the id
\* was there.
Take == Receive(pending \ {Head(toShim).id})

\* What an item may become.  Text goes to the daemon: it comes back clean, or empty
\* if it is blocked or the daemon cannot be reached in time.
Sanitized(item) == CASE item \in {"text", "resource"} -> {"clean", "empty"}
                     [] item \in {"blob", "media"} -> {"notice"}
                     [] OTHER -> {item}

SanitizeItem ==
    /\ At("sanitizing")
    /\ outbound.at \in DOMAIN outbound.msg.items
    /\ \E item \in Sanitized(outbound.msg.items[outbound.at]) :
          outbound' = [outbound EXCEPT !.msg.items[outbound.at] = item, !.at = @ + 1]
    /\ UNCHANGED <<asked, inbound, pending, heard, up, sent, childVars>>

EndSanitize ==
    /\ At("sanitizing")
    /\ outbound.at \notin DOMAIN outbound.msg.items
    /\ outbound' = [outbound EXCEPT !.st = "writing"]
    /\ UNCHANGED <<asked, inbound, pending, heard, up, sent, childVars>>

\* An answer of the daemon that is no JSON object, or a connection that breaks
\* half-way, is an exception nobody catches: the thread ends.
SanitizeRaises ==
    /\ At("sanitizing")
    /\ outbound.at \in DOMAIN outbound.msg.items
    /\ outbound.msg.items[outbound.at] \in {"text", "resource"}
    /\ outbound' = [outbound EXCEPT !.st = "ended"]
    /\ UNCHANGED <<asked, inbound, pending, heard, up, sent, childVars>>

\* _write_message to the client, which also drops what is too large.
Write == /\ At("writing")
         /\ IF IsAnswer(outbound.msg) /\ outbound.msg.size = "large"
            THEN UNCHANGED <<heard, asked>>
            ELSE /\ heard' = outbound.msg
                 /\ asked' = IF IsAnswer(outbound.msg)
                             THEN [asked EXCEPT ![outbound.msg.id] = "nothing"]
                             ELSE asked
         /\ outbound' = [st |-> "reading", msg |-> NoMessage, at |-> 1]
         /\ UNCHANGED <<inbound, pending, up, sent, childVars>>

Outbound == StopReading \/ Take \/ SanitizeItem \/ EndSanitize \/ SanitizeRaises \/ Write
--------------------------------------------------------------------------------

\* pump() returns once the first thread has ended and the second one has, or five
\* seconds have passed; the child is terminated and the threads end with the process.
Exit == /\ up /\ ~inbound.open
        /\ up' = FALSE
        /\ alive' = FALSE
        /\ toChild' = <<>>
        /\ serving' = {}
        /\ UNCHANGED <<asked, inbound, pending, toShim, outbound, heard, sent, extra>>

Next == \/ \E i \in Ids, kind \in {"call", "list"}, size \in Sizes : Ask(i, kind, size)
        \/ Record \/ Forward \/ ForwardBreaks \/ CloseInput
        \/ ChildReads \/ ChildAnswers \/ ChildSpeaks \/ ChildExits
        \/ Outbound
        \/ Exit

Spec == Init /\ [][Next]_vars

\* The second thread runs when it can: the client reads its input and a call of the
\* daemon has a timeout.  Nothing is assumed of the child, the client's requests or
\* the first thread.
FairSpec == Spec /\ WF_vars(Outbound)
--------------------------------------------------------------------------------

\* "sanitize tools/call results via the daemon": no answer to a tools/call reaches
\* the client with an item that holds raw text or binary content, whatever the
\* daemon does, in whatever order the child answers and however the two threads
\* interleave.
OnlySanitized ==
    heard.kind = "call" =>
        \A k \in DOMAIN heard.items : heard.items[k] \notin RawKinds

\* pending_calls is what decides whether an answer is sanitized: an id is in it only
\* while the client waits for that very call, so it does not grow beyond the calls in
\* flight and no later request under the same id is taken for a tool call.
PendingIsAsked == \A i \in pending : asked[i] = "call"

\* An answer that the child has written reaches the client, unless it is too large
\* to be written or the shim stops reading: the thread never waits for the child to
\* read, though the pipe to the child may be full.
AnswersArrive ==
    \A i \in Ids :
        (\E k \in DOMAIN toShim : /\ IsAnswer(toShim[k])
                                  /\ toShim[k].id = i
                                  /\ toShim[k].size = "fits")
        ~> (asked[i] = "nothing" \/ outbound.st = "ended" \/ ~up)
=============================================================================
