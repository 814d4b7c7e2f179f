------------------------------ MODULE ProxyGateway ------------------------------
(* ProxyGateway (orchestration/proxy_gateway.py): concurrent chat requests that *)
(* share one token vault.  Each request is an asyncio task; its `_prepare` runs *)
(* in an executor thread that walks the payload (dlp/openai_payload.py,         *)
(* dlp/transformer.py), mints a token per sensitive span, and looks up the      *)
(* tokens the answer may restore.  The task then calls the upstream, restores   *)
(* the answer (whole, or delta by delta on SSE) and deletes the request's rows. *)
(* Tasks may be cancelled, also while the executor thread is still at work.     *)
(*                                                                              *)
(* A payload is a sequence of text parts; a part is what the classifier makes   *)
(* of it, the spans that are sensitive and the tokens the client wrote into it. *)
EXTENDS VaultRows, Sequences

CONSTANTS
    Requests,     \* ids of the chat requests (uuid4, never shared)
    ToolIds,      \* ids the MCP shim passes to /internal/v1/sanitize
    Payloads,     \* Payloads[r]: payloads the client of r may send, sequences of parts
    Upstreams,    \* is there an upstream? (the base URL may not be allowlisted)
    Streams,      \* the requests with "stream": true
    Workers,      \* threads of the default executor
    Ttl,          \* vault_ttl_seconds
    \* bounds of the model
    MaxClock,     \* on the clock
    MaxCancels,   \* on the cancellations of one request
    MaxTools,     \* on the calls of /internal/v1/sanitize
    CloseMayFail, \* may resp.aclose() raise, or be cancelled?
    Replies       \* sets of tokens an answer may write

\* How the walker treats a part: allowed as it is; redacted; blocked by policy;
\* blocked because a detector raised; refused uninspected (strict mode); or passed
\* by without a look at its text, because its role is assistant or unknown
\* ("unwalked") or because it has not the form it should have ("malformed": a
\* message that is no object, a bare string in a list of parts).
PassedBy == {"unwalked", "malformed"}
Kinds == {"clean", "redact", "secret", "fault", "uninspected"} \union PassedBy
Part == [kind : Kinds, spans : Seq(Values), quotes : SUBSET Tokens]

ASSUME ProxyAssumption ==
    /\ Requests \union ToolIds \subseteq RequestIds
    /\ Requests \intersect ToolIds = {}
    /\ Payloads \in [Requests -> SUBSET Seq(Part)]
    \* a text is allowed only if the classifier finds no span in it
    /\ \A r \in Requests : \A p \in Payloads[r] : \A i \in DOMAIN p :
          p[i].kind = "clean" => p[i].spans = <<>>
    /\ Upstreams \subseteq BOOLEAN
    /\ Streams \subseteq Requests
    /\ Workers \in Nat \ {0}
    /\ Ttl \in Nat
    /\ MaxClock \in Nat
    /\ MaxCancels \in Nat
    /\ MaxTools \in Nat
    /\ CloseMayFail \in BOOLEAN
    /\ Replies \subseteq SUBSET Tokens
    /\ Tokens \intersect Values = {}

VARIABLES
    rows,       \* the vault's table
    clock,      \* the wall clock
    upstream,   \* FALSE if the configured base URL is not allowlisted
    payload,    \* payload[r]: what the client of r sent
    task,       \* task[r]: where the coroutine of r stands
    job,        \* job[r]: the executor job that prepares r
    seen,       \* seen[r]: the values and tokens of r's text the upstream got
    got,        \* got[r]: the values and tokens in what the client of r read last
    verdict,    \* verdict[r]: how r is being answered
    cancels,    \* cancels[r]: cancellations delivered to r
    tools,      \* calls of /internal/v1/sanitize so far
    \* history
    born,       \* token -> [value, rid] it was generated for
    arrived     \* arrived[r]: the time r came in

vaultVars == <<rows, born>>
vars == <<rows, clock, upstream, payload, task, job, seen, got, verdict,
          cancels, tools, born, arrived>>

TaskStates == {"new", "prepare", "drain", "call", "stream", "closing",
               "cleanup", "gone", "done"}
JobStates == {"none", "queued", "walking", "looking", "done", "dropped"}
Verdicts == {"none", "refused", "unconfigured", "failed", "answered", "cancelled"}

\* The state of one _prepare call: the part it is at and the spans of it that
\* are left, the tokens of this part and of the parts before, the sanitized text,
\* whether a finding blocks, the tokens to look up and the restore mapping.
Job == [st : JobStates, part : Nat, left : Nat, hits : SUBSET Tokens,
        minted : SUBSET Tokens, out : SUBSET (Values \union Tokens),
        blocked : BOOLEAN, look : SUBSET Tokens,
        map : SUBSET (Tokens \X Values)]

NoJob == [st |-> "none", part |-> 0, left |-> 0, hits |-> {}, minted |-> {},
          out |-> {}, blocked |-> FALSE, look |-> {}, map |-> {}]

\* Types of the variables.
TypeOK == /\ IsTable(rows)
          /\ clock \in Nat
          /\ upstream \in BOOLEAN
          /\ DOMAIN payload = Requests
          /\ \A r \in Requests : payload[r] \in Payloads[r]
          /\ task \in [Requests -> TaskStates]
          /\ job \in [Requests -> Job]
          /\ seen \in [Requests -> SUBSET (Values \union Tokens)]
          /\ got \in [Requests -> SUBSET (Values \union Tokens)]
          /\ verdict \in [Requests -> Verdicts]
          /\ cancels \in [Requests -> Nat]
          /\ tools \in Nat
          /\ DOMAIN born \subseteq Tokens
          /\ \A tk \in DOMAIN born : born[tk] \in [value : Values, rid : RequestIds]
          /\ arrived \in [Requests -> Nat]

Init == /\ rows = EmptyTable
        /\ clock = 0
        /\ upstream \in Upstreams
        /\ payload \in {f \in [Requests -> UNION {Payloads[r] : r \in Requests}] :
                           \A r \in Requests : f[r] \in Payloads[r]}
        /\ task = [r \in Requests |-> "new"]
        /\ job = [r \in Requests |-> NoJob]
        /\ seen = [r \in Requests |-> {}]
        /\ got = [r \in Requests |-> {}]
        /\ verdict = [r \in Requests |-> "none"]
        /\ cancels = [r \in Requests |-> 0]
        /\ tools = 0
        /\ born = EmptyTable
        /\ arrived = [r \in Requests |-> 0]

SpanSet(p) == {p.spans[i] : i \in DOMAIN p.spans}
--------------------------------------------------------------------------------
(* The vault as the proxy's threads see it: mint and get are atomic here (their *)
(* two halves are the subject of TokenVault), and a generated token of 128     *)
(* random bits is one that was never generated before.                         *)

MintOk(r, v, tk) ==
    LET kept == CleanupExpired(rows, clock)
        held == Holders(kept, r, v) IN
    IF held # {}
    THEN /\ tk \in held
         /\ rows' = Refresh(kept, tk, ExpiryOf(clock, Ttl))
         /\ born' = born
    ELSE /\ HasRoom(kept, v)
         /\ tk \in Insertable(kept, r, v) \ DOMAIN born
         /\ rows' = Insert(kept, tk, r, v, ExpiryOf(clock, Ttl))
         /\ born' = [x \in DOMAIN born \union {tk} |->
                        IF x = tk THEN [value |-> v, rid |-> r] ELSE born[x]]

MintFails(r, v) ==
    LET kept == CleanupExpired(rows, clock) IN
    /\ Holders(kept, r, v) = {}
    /\ ~HasRoom(kept, v)
    /\ rows' = kept
    /\ born' = born
--------------------------------------------------------------------------------
(* _prepare, in an executor thread.                                            *)

Running(r) == job[r].st \in {"walking", "looking"}
Busy == {r \in Requests : Running(r)}
AtPart(r) == job[r].st = "walking" /\ job[r].part \in DOMAIN payload[r]
PartOf(r) == payload[r][job[r].part]
SpansLeft(r, n) == IF n \in DOMAIN payload[r] THEN Len(payload[r][n].spans) ELSE 0

\* Fields of a job that moves on to its next part.
NextPart(r, j) == [j EXCEPT !.part = @ + 1, !.hits = {},
                            !.left = SpansLeft(r, job[r].part + 1)]

JobStep(r) == /\ UNCHANGED <<clock, upstream, payload, task, seen, got, verdict,
                             cancels, tools, arrived>>

Start(r) ==
    /\ job[r].st = "queued"
    /\ Cardinality(Busy) < Workers
    /\ job' = [job EXCEPT ![r] = [NoJob EXCEPT !.st = "walking", !.part = 1,
                                               !.left = SpansLeft(r, 1)]]
    /\ JobStep(r) /\ UNCHANGED vaultVars

\* a walk in which the decision on the last part wins
KeepPartUnblocks(r) ==
    /\ AtPart(r)
    /\ PartOf(r).kind \in {"clean"} \union PassedBy
    /\ job' = [job EXCEPT ![r] =
                  NextPart(r, [@ EXCEPT !.out = job[r].out \union PartOf(r).quotes
                                                  \union SpanSet(PartOf(r)),
                                        !.blocked = FALSE])]
    /\ JobStep(r) /\ UNCHANGED vaultVars

\* The text is allowed, or its part is passed by: it stays as it is.
KeepPart(r) ==
    /\ AtPart(r)
    /\ PartOf(r).kind \in {"clean"} \union PassedBy
    /\ job' = [job EXCEPT ![r] =
                  NextPart(r, [@ EXCEPT !.out = job[r].out \union PartOf(r).quotes
                                                  \union SpanSet(PartOf(r))])]
    /\ JobStep(r) /\ UNCHANGED vaultVars

\* Policy blocks the text, or the detector raised and the transform fails closed;
\* the walk goes on, and later parts still mint.
BlockPart(r) ==
    /\ AtPart(r)
    /\ PartOf(r).kind \in {"secret", "fault"}
    /\ job' = [job EXCEPT ![r] = NextPart(r, [@ EXCEPT !.blocked = TRUE])]
    /\ JobStep(r) /\ UNCHANGED vaultVars

\* Strict mode: an image, audio or file part ends the walk.
RefusePart(r) ==
    /\ AtPart(r)
    /\ PartOf(r).kind = "uninspected"
    /\ job' = [job EXCEPT ![r].blocked = TRUE, ![r].st = "done"]
    /\ JobStep(r) /\ UNCHANGED vaultVars

\* The rightmost span that is left gets its token.
MintSpan(r) ==
    /\ AtPart(r)
    /\ PartOf(r).kind = "redact"
    /\ job[r].left > 0
    /\ \E tk \in Tokens :
          /\ MintOk(r, PartOf(r).spans[job[r].left], tk)
          /\ job' = [job EXCEPT ![r].left = @ - 1, ![r].hits = @ \union {tk}]
    /\ JobStep(r)

\* a transform that fails open: the text it could not redact stays
MintRefusedKeepsText(r) ==
    /\ AtPart(r)
    /\ PartOf(r).kind = "redact"
    /\ job[r].left > 0
    /\ MintFails(r, PartOf(r).spans[job[r].left])
    /\ job' = [job EXCEPT ![r] =
                  NextPart(r, [@ EXCEPT !.out = @ \union SpanSet(PartOf(r))])]
    /\ JobStep(r)

\* The vault is full: the transform fails closed, and the tokens of the part
\* that are already minted stay in the vault and in no finding.
MintRefused(r) ==
    /\ AtPart(r)
    /\ PartOf(r).kind = "redact"
    /\ job[r].left > 0
    /\ MintFails(r, PartOf(r).spans[job[r].left])
    /\ job' = [job EXCEPT ![r] = NextPart(r, [@ EXCEPT !.blocked = TRUE])]
    /\ JobStep(r)

RedactPart(r) ==
    /\ AtPart(r)
    /\ PartOf(r).kind = "redact"
    /\ job[r].left = 0
    /\ job' = [job EXCEPT ![r] =
                  NextPart(r, [@ EXCEPT
                      !.out = job[r].out \union PartOf(r).quotes \union job[r].hits,
                      !.minted = job[r].minted \union job[r].hits])]
    /\ JobStep(r) /\ UNCHANGED vaultVars

\* an allow-set with every token the vault holds
EndWalkAllowsAll(r) ==
    /\ job[r].st = "walking"
    /\ job[r].part \notin DOMAIN payload[r]
    /\ job' = [job EXCEPT ![r] =
                  IF @.blocked THEN [@ EXCEPT !.st = "done"]
                               ELSE [@ EXCEPT !.st = "looking", !.look = DOMAIN rows]]
    /\ JobStep(r) /\ UNCHANGED vaultVars

\* The walk is over: a blocking finding refuses the request; otherwise every
\* token of the sanitized text and every minted one may be restored.
EndWalk(r) ==
    /\ job[r].st = "walking"
    /\ job[r].part \notin DOMAIN payload[r]
    /\ job' = [job EXCEPT ![r] =
                  IF @.blocked
                  THEN [@ EXCEPT !.st = "done"]
                  ELSE [@ EXCEPT !.st = "looking",
                                 !.look = (job[r].look \union job[r].out
                                           \union job[r].minted)
                                          \intersect Tokens]]
    /\ JobStep(r) /\ UNCHANGED vaultVars

\* RestoreAllowSet.mapping_view: one get() per token, in the order of a set.
LookUp(r) ==
    /\ job[r].st = "looking"
    /\ \E tk \in job[r].look :
          IF tk \in DOMAIN rows /\ rows[tk].expires > clock
          THEN /\ job' = [job EXCEPT ![r].look = @ \ {tk},
                                     ![r].map = @ \union {<<tk, rows[tk].value>>}]
               /\ UNCHANGED rows
          ELSE /\ job' = [job EXCEPT ![r].look = @ \ {tk}]
               /\ rows' = DropToken(rows, tk)
    /\ JobStep(r) /\ UNCHANGED born

Finish(r) ==
    /\ job[r].st = "looking"
    /\ job[r].look = {}
    /\ job' = [job EXCEPT ![r].st = "done"]
    /\ JobStep(r) /\ UNCHANGED vaultVars

Prepare(r) == \/ Start(r)
              \/ KeepPart(r)
              \/ BlockPart(r)
              \/ RefusePart(r)
              \/ MintSpan(r)
              \/ MintRefused(r)
              \/ RedactPart(r)
              \/ EndWalk(r)
              \/ LookUp(r)
              \/ Finish(r)
--------------------------------------------------------------------------------
(* chat_completions and iter_sse, on the event loop.                           *)

GoTo(r, s) == task' = [task EXCEPT ![r] = s]
Answer(r, v) == verdict' = [verdict EXCEPT ![r] = v]
\* The coroutine is over: what its frame holds, and what was observed of it, goes;
\* a job that still runs keeps its own state.
Leave(r, s) ==
    /\ GoTo(r, s)
    /\ job' = [job EXCEPT ![r] = IF Running(r) THEN @ ELSE NoJob]
    /\ seen' = [seen EXCEPT ![r] = {}]
    /\ got' = [got EXCEPT ![r] = {}]
    /\ verdict' = [verdict EXCEPT ![r] = "none"]
    /\ cancels' = [cancels EXCEPT ![r] = 0]
    /\ arrived' = [arrived EXCEPT ![r] = 0]

TaskStep(r) == UNCHANGED <<rows, born, clock, upstream, payload, tools>>

\* The route mints a fresh id and the gateway submits _prepare.
Arrive(r) ==
    /\ task[r] = "new"
    /\ GoTo(r, "prepare")
    /\ job' = [job EXCEPT ![r].st = "queued"]
    /\ arrived' = [arrived EXCEPT ![r] = clock]
    /\ TaskStep(r) /\ UNCHANGED <<seen, got, verdict, cancels>>

\* a refusal that returns without the cleanup
RefuseForgets(r) ==
    /\ task[r] = "prepare"
    /\ job[r].st = "done"
    /\ job[r].blocked \/ ~upstream
    /\ Leave(r, "gone")
    /\ TaskStep(r)

\* A blocked outcome, or no upstream: answered without leaving the machine.
Refuse(r) ==
    /\ task[r] = "prepare"
    /\ job[r].st = "done"
    /\ job[r].blocked \/ ~upstream
    /\ Answer(r, IF job[r].blocked THEN "refused" ELSE "unconfigured")
    /\ GoTo(r, "cleanup")
    /\ TaskStep(r) /\ UNCHANGED <<job, seen, got, cancels, arrived>>

\* The sanitized payload goes to the upstream.
Send(r) ==
    /\ task[r] = "prepare"
    /\ job[r].st = "done"
    /\ ~job[r].blocked
    /\ upstream
    /\ seen' = [seen EXCEPT ![r] = job[r].out]
    /\ GoTo(r, "call")
    /\ TaskStep(r) /\ UNCHANGED <<job, got, verdict, cancels, arrived>>

\* The call raises, or times out.
CallFails(r) ==
    /\ task[r] = "call"
    /\ Answer(r, "failed")
    /\ GoTo(r, "cleanup")
    /\ TaskStep(r) /\ UNCHANGED <<job, seen, got, cancels, arrived>>

\* An error status, or a body that is not JSON.
BadAnswer(r) ==
    /\ task[r] = "call"
    /\ Answer(r, "failed")
    /\ GoTo(r, IF r \in Streams THEN "closing" ELSE "cleanup")
    /\ TaskStep(r) /\ UNCHANGED <<job, seen, got, cancels, arrived>>

\* What the client reads where the upstream wrote the tokens of `reply`.
Restored(r, reply) ==
    {pair[2] : pair \in {p \in job[r].map : p[1] \in reply}}
    \union {tk \in reply : \A p \in job[r].map : p[1] # tk}

\* The body is restored as a whole.
WholeAnswer(r) ==
    /\ task[r] = "call"
    /\ r \notin Streams
    /\ \E reply \in Replies :
          got' = [got EXCEPT ![r] = Restored(r, reply)]
    /\ Answer(r, "answered")
    /\ GoTo(r, "cleanup")
    /\ TaskStep(r) /\ UNCHANGED <<job, seen, cancels, arrived>>

StreamOpens(r) ==
    /\ task[r] = "call"
    /\ r \in Streams
    /\ GoTo(r, "stream")
    /\ TaskStep(r) /\ UNCHANGED <<job, seen, got, verdict, cancels, arrived>>

StreamDelta(r) ==
    /\ task[r] = "stream"
    /\ \E tk \in Tokens : got' = [got EXCEPT ![r] = Restored(r, {tk})]
    /\ TaskStep(r) /\ UNCHANGED <<task, job, seen, verdict, cancels, arrived>>

\* The stream ends, breaks (an error event is sent) or its consumer goes away
\* at a yield (the generator is finalized).
StreamEnds(r) ==
    /\ task[r] = "stream"
    /\ \E v \in {"answered", "failed", "cancelled"} : Answer(r, v)
    /\ GoTo(r, "closing")
    /\ TaskStep(r) /\ UNCHANGED <<job, seen, got, cancels, arrived>>

\* finally: await resp.aclose(); if it raises, or a cancellation reaches it, the
\* next line does not run.
CloseResponse(r) ==
    /\ task[r] = "closing"
    /\ GoTo(r, "cleanup")
    /\ TaskStep(r) /\ UNCHANGED <<job, seen, got, verdict, cancels, arrived>>

CloseFails(r) ==
    /\ CloseMayFail
    /\ task[r] = "closing"
    /\ Leave(r, "gone")
    /\ TaskStep(r)

\* CancelledError out of `await fut`, once the job has ended.
Drained(r) ==
    /\ task[r] = "drain"
    /\ job[r].st = "done"
    /\ GoTo(r, "cleanup")
    /\ TaskStep(r) /\ UNCHANGED <<job, seen, got, verdict, cancels, arrived>>

\* finally: self._vault.delete_request(rid)
Cleanup(r) ==
    /\ task[r] = "cleanup"
    /\ rows' = DropRequest(rows, r)
    /\ Leave(r, "done")
    /\ UNCHANGED <<born, clock, upstream, payload, tools>>

\* a cancellation that does not wait for the thread
AfterCancelAtOnce == [prepare |-> "cleanup", drain |-> "cleanup", call |-> "cleanup",
                      stream |-> "closing"]

\* Where a cancellation takes a task that waits.  The first one during _prepare
\* makes it wait for the job; one that arrives then cancels the wait itself (and
\* the job, if no thread has taken it).  One during aclose() is CloseFails.
AfterCancel == [prepare |-> "drain", drain |-> "cleanup", call |-> "cleanup",
                stream |-> "closing"]

Cancel(r) ==
    /\ task[r] \in DOMAIN AfterCancel
    /\ cancels[r] < MaxCancels
    /\ cancels' = [cancels EXCEPT ![r] = @ + 1]
    /\ GoTo(r, AfterCancel[task[r]])
    /\ verdict' = [verdict EXCEPT ![r] = IF @ = "none" THEN "cancelled" ELSE @]
    /\ job' = [job EXCEPT ![r].st = IF task[r] = "drain" /\ @ = "queued"
                                    THEN "dropped" ELSE @]
    /\ TaskStep(r) /\ UNCHANGED <<seen, got, arrived>>

Handle(r) == \/ Refuse(r)
             \/ Send(r)
             \/ CallFails(r)
             \/ BadAnswer(r)
             \/ WholeAnswer(r)
             \/ StreamOpens(r)
             \/ StreamEnds(r)
             \/ CloseResponse(r)
             \/ Drained(r)
             \/ Cleanup(r)
--------------------------------------------------------------------------------

\* POST /internal/v1/sanitize for one tool text with one span: it mints under the
\* JSON-RPC id of the tool call, and nothing deletes that id.
SanitizeTool(i) ==
    /\ tools < MaxTools
    /\ tools' = tools + 1
    /\ \E v \in Values : \/ \E tk \in Tokens : MintOk(i, v, tk)
                         \/ MintFails(i, v)
    /\ UNCHANGED <<clock, upstream, payload, task, job, seen, got, verdict,
                   cancels, arrived>>

Tick == /\ clock < MaxClock
        /\ clock' = clock + 1
        /\ UNCHANGED <<rows, born, upstream, payload, task, job, seen, got, verdict,
                       cancels, tools, arrived>>

Next == \/ \E r \in Requests : \/ Arrive(r)
                               \/ Prepare(r)
                               \/ Handle(r)
                               \/ StreamDelta(r)
                               \/ CloseFails(r)
                               \/ Cancel(r)
        \/ \E i \in ToolIds : SanitizeTool(i)
        \/ Tick

Spec == Init /\ [][Next]_vars

\* The executor and the event loop run what is ready, the upstream call ends (it
\* has a timeout) and so does the body; clients, clocks and cancellations are free.
Fairness == \A r \in Requests : WF_vars(Prepare(r)) /\ WF_vars(Handle(r))

FairSpec == Spec /\ Fairness
--------------------------------------------------------------------------------

Parts(r) == {payload[r][i] : i \in DOMAIN payload[r]}
Finished(r) == task[r] \in {"gone", "done"}
Sent(r) == task[r] \in {"call", "stream", "closing"} \/ verdict[r] = "answered"
Quoted(r) == UNION {p.quotes : p \in Parts(r)}
RowsOf(r) == {tk \in DOMAIN rows : rows[tk].rid = r}

\* What reaches the upstream holds no sensitive value of a part the walker inspects,
\* however the walk, the vault's cap, the expiry of rows and cancellations meet:
\* a raw value leaves only in a part that is passed by.
OnlyUnwalkedLeaves ==
    \A r \in Requests :
        seen[r] \intersect Values
            \subseteq UNION {SpanSet(p) : p \in {q \in Parts(r) : q.kind \in PassedBy}}

\* ADR-005: "Detector failure" and "unsupported image/audio/file blocks" and
\* "Secret/Confidential findings" make "no upstream call": a request is sent only if
\* every part the walker inspects is allowed or redacted, and then every span of a
\* redacted part has a token of its own in the text that was sent.  (Of the parts the
\* walker passes by it says nothing: see MalformedIsBlocked.)
SentIsComplete ==
    \A r \in Requests : Sent(r) =>
        \A p \in Parts(r) : p.kind \notin PassedBy =>
            /\ p.kind \in {"clean", "redact"}
            /\ p.kind = "redact" =>
                  \A v \in SpanSet(p) : \E tk \in seen[r] \intersect DOMAIN born :
                      born[tk] = [value |-> v, rid |-> r]

\* ADR-005: "malformed payloads" make "no upstream call" as well: a request with a part
\* that has not the form it should have is not sent.
MalformedIsBlocked ==
    \A r \in Requests : Sent(r) => \A p \in Parts(r) : p.kind # "malformed"

\* ADR-005: "Restore only tokens minted or already present on this request." Every
\* value a request may restore is the one its token was generated for, and the
\* token was generated for this request or written by its client; so no client
\* reads the value of another request unless it already had the token.
RestoresOwn ==
    \A r \in Requests :
        /\ \A p \in job[r].map :
              /\ p[1] \in DOMAIN born
              /\ p[2] = born[p[1]].value
              /\ born[p[1]].rid = r \/ p[1] \in Quoted(r)
        /\ got[r] \intersect Values \subseteq {p[2] : p \in job[r].map}

\* While the answer is awaited or streamed, a token that was minted for the request
\* can be restored: no other request, tool call or cleanup has taken its row
\* before the lookup, unless the time to live has passed.
OwnTokensRestorable ==
    \A r \in Requests :
        (task[r] \in {"call", "stream"} /\ clock < arrived[r] + Ttl) =>
            \A tk \in job[r].minted : \E p \in job[r].map : p[1] = tk

\* While a request is served, an unexpired row of it is removed by nobody else: its
\* rows go when they expire or when its own task deletes them.
OthersKeepOut ==
    [][\A r \in Requests, tk \in DOMAIN rows :
          (rows[tk].rid = r /\ tk \notin DOMAIN rows') =>
              \/ rows[tk].expires <= clock
              \/ task[r] = "cleanup" /\ task'[r] = "done"]_vars

\* test_cancel_cleans_request_state: once the coroutine of a request is over,
\* however it ended, the vault holds nothing of the request, and no thread that is
\* still at work for it puts something there later.
NothingLeft ==
    \A r \in Requests : Finished(r) => RowsOf(r) = {}

\* Every request is answered or given up, and from then on leaves no raw value in
\* the vault, whatever fails or is cancelled on the way.
EventuallyForgotten ==
    \A r \in Requests :
        task[r] = "prepare" ~> [](task[r] = "done" /\ RowsOf(r) = {})
=============================================================================
