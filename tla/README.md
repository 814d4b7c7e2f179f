# LakanVault in TLA+

A formal model of LakanVault's gateway: the parts that keep raw personal data inside
the machine while requests, threads, cancellations and clocks interleave. Everything
is translated from the source under `src/src/lakanvault/` (written below as `lv/`);
`PROJECT.json` maps each definition to its lines.

## 1. The system

LakanVault is a local FastAPI daemon. Clients send OpenAI-style chat requests to it
instead of to the provider; it replaces sensitive spans by opaque tokens, forwards the
sanitized payload, restores the tokens in the answer, whole or streamed, and forgets
them. A second family of endpoints scans folders through a fixed pipeline, and an MCP
shim sanitizes tool results on a stdio pipe. Beside these stand a protect/restore pair of
tools with surrogates per session, a chat demo with a model server on the machine, a
launcher that starts that server, and a registry of trusted model hashes.

| Component | State | Operations | Hard behaviour | What makes it correct |
|---|---|---|---|---|
| Opaque token vault `lv/infrastructure/token_vault.py` | SQLite table `tokens` in memory, RLock | `mint`, `get`, `delete_request`, `cleanup_expired`, `close` | `now` is read before the lock is taken, so a call may act on an old clock; caps; collisions | one token per request and value, kept as long as announced; caps hold; get answers with the right value; nothing after close |
| Proxy gateway `lv/orchestration/proxy_gateway.py` | per request: coroutine, executor job, restore mapping; shared vault and HTTP client | `chat_completions`, `_prepare`, `_await_prepare`, `iter_sse`, `sanitize` | executor thread beside the event loop; cancellation at every await; upstream failures; `finally` blocks that may be cut short | no redacted or blocked value leaves; an answer restores its own tokens; every request is forgotten |
| Scan and span resolution `lv/local_core/{findings,scan}.py`, `dlp/transformer.py` | the findings of one text, pass by pass | `resolve_overlaps`, `scan`, `merge`, `_merge_spans`, replacement | two or three overlap passes and a type filter in a row; verdicts of the LLM beside sure and unsure findings; offsets that move | the LLM overrides nothing confident; no secret is lost; exactly the spans are replaced |
| Payload walk `lv/local_core/dlp/openai_payload.py`, `transformer.py`, `lv/local_core/privacy/opaque_anonymizer.py` | the copy of the payload that is being rewritten | one transform per text part | a part fails after some of its spans were minted; a later part is clean after a blocked one | fail closed: one bad part blocks the request |
| SSE restore `lv/infrastructure/upstream/sse.py` and `iter_sse` | `pending` raw text, `_buf` of the restorer | `feed`, `flush`, `parse_sse_chunk` | any cut of raw text and of deltas; CRLF; text after the last blank line; several choices | the client reads the restored text, in order, with a bounded tail |
| Scan pipeline, stages and cloud bus `lv/orchestration/{pipeline,bus,gateway}.py`, `lv/local_core/*/stage.py`, `lv/app/server.py` | the global `_gateway`, each Gateway's configuration and bus, the event of a run, audit records | `/api/scan`, `/api/settings`, its reset | requests in threadpool threads without a lock; the gateway is dropped and rebuilt under running scans | no partial run is shown as complete; the cloud stays off once off; the response is truthful |
| Configuration `lv/shared/config.py` | `config/local.yaml` | load, save, clear keys | read, truncate, write, unlocked | a settings change is not lost or seen half |
| MCP stdio shim `lv/mcp/stdio_proxy.py` | `pending_calls`, three threads | pump requests, pump answers | reused ids, an answer before its call is recorded, daemon down | tool text is sanitized or replaced, never passed raw |
| Protect sessions, surrogate vault `lv/orchestration/gateway.py`, `lv/local_core/anonymizer/`, `lv/mcp/stdio_server.py` | sessions, a SQLite vault each, the key file, one Faker | `protect`, `restore` | sessions shared by threads, connections that are not; test-and-set without a lock; surrogates that collide; a Faker that two threads seed | what is restored is what was protected; a secret keeps its surrogate |
| Chat demo `lv/orchestration/gateway.py`, `lv/local_core/adapters/local_llm_client.py` | the gateway's token vault, a mapping per chat, the text so far | `/api/chat`, `/api/chat/stream` | rows that nobody deletes; settings that replace the gateway under a chat; streams that break | only tokens go to the model; a chat shows its own values |
| Local runtime and launcher `lv/local_core/runtime/`, `lv/launcher/bootstrap.py`, `lv/tray/app.py` | the server process, `_proc`, `_active_model`, the port | start, stop, restart, `/api/runtime/select`, Quit | selects and Quit beside each other; servers that hang, die or do not end; someone else at the port | no server is left running; the answer names the model that is served; waits end |
| Model registry `lv/local_core/integrity/registry.py` | `baselines.json`, models and quarantine directories | `scan`, `set_baseline`, `quarantine` | files change while they are hashed and moved; `baselines.json` is rewritten unlocked | nothing is trusted unasked; a recorded baseline is known; what is ejected is kept |
| Detectors, evaluation | none | see `PROJECT.json` | | |

Interaction: the proxy gateway, the sanitize endpoint and the MCP shim (through that
endpoint) mint in the one vault of the application; each Gateway has another one for its
chats. Scans, chats, the registry's endpoints and `/api/runtime/select` go through the one
`_gateway`, which every settings PUT and reset replaces; the MCP tool server is a process
with a Gateway of its own. Section 8 lists what is not modelled.

## 2. Modules

    VaultRows ─┬─ TokenVault ─── MCTokenVault, TokenVaultProofs
               │      │ ImplementsMap
               │   TokenMap                      (abstract specification)
               └─ ProxyGateway ─ MCProxyGateway, ProxyGatewayProofs
    SseStream ── MCSseStream, TextProofs
    ScanService ── MCScanService, ScanServiceProofs
    McpShim ── MCMcpShim, McpShimProofs
    ModelRegistry ── MCModelRegistry, ModelRegistryProofs
    ProtectSessions ── MCProtectSessions, ProtectSessionsProofs
    Redaction ── MCRedaction, TextProofs
    LlamaRuntime ── MCLlamaRuntime, LocalModelProofs
    LocalChat ── MCLocalChat, LocalModelProofs

TextProofs and LocalModelProofs hold the proofs of two modules each: of a text on its way
out and on its way back, and of what runs a model on this machine. The two halves stand
for themselves; no invariant speaks of both.

* **VaultRows**: the `tokens` table as a function from token to row, and what the SQL
  statements do to it, as operators: `CleanupExpired`, `Holders` (the SELECT by request
  and value), `Refresh`, `HasRoom` (`_enforce_cap_unlocked`), `Insertable` (PRIMARY KEY
  and UNIQUE(request_id, raw_value)), `DropRequest`. Used by TokenVault and ProxyGateway.
* **TokenMap**: what the port `TokenVaultPort` (`lv/contracts/proxy.py`) promises: a
  bounded map from tokens to values and their owners. An owner has at most one live
  token per value; an entry keeps its value and owner, and leaves only when its time is
  over, when its owner is deleted, or when the map is closed.
* **TokenVault**: the vault under concurrent callers. A call is two steps: `Start…`
  reads the clock and computes the expiry; one of `MintReuses`, `MintInserts`,
  `MintOverCap`, `MintCollides`, `GetFinds`, `GetMisses`, `CallOnClosed` is the whole
  body under the lock. `promised` is a history variable: the expiry each token was
  announced with, until it is due or its row is withdrawn.
* **ProxyGateway**: one coroutine per chat request (`task`), one executor job per
  request (`job`), the shared table, a bounded executor. A payload is a sequence of
  parts; a part is what the classifier makes of it (allowed, redacted, blocked by
  policy, blocked by a detector fault, refused uninspected, not walked, of a form it should
  not have), with its spans and the tokens its client wrote. The last two kinds are what
  `_transform_content` and the walk of the messages pass by (`PassedBy`). `Cancel` may come at every await; `AfterCancel` says
  where it takes the coroutine. History: `born` (what a token was generated for).
* **SseStream**: the raw answer as marks that the network cuts into reads, `pending`,
  `work` (what is left of the block that is being parsed: a step sends one event), the
  restorer's buffer, and the events sent. The opening `[LV_` is shortened to two
  characters and the body of 26 to `BodyLen`; everything the regular expressions tell
  apart (opening, body, too long a body, closing) is kept, also that `$` matches before a
  newline at the end of the text, so that what is held then ends before it (`Shown`,
  `Held`).
* **ScanService**: scans, settings PUTs and resets as threads that step through
  `get_gateway()` (test, load, assign, return), the stages, the bus, the response; and
  through read, truncate, dump or unlink, reset, reload, rebuild. Any number of settings
  requests may be at this at once: `disk` says whether the file is there and parses, `local`
  what it says, `opening` who has found it and not yet opened it, so that a load may find
  it gone, spoilt or empty. Two that have it open write over each other (`Overwrite`), and
  what is written into a file that was removed is lost (`DumpLost`). A stage is the set of
  statuses it may return for what it looks at (`Integrity`, `ThreatScanner`, `Privacy`,
  `Audit`). History: `off` (a request turned the cloud off, and none has asked for it
  since), `offSince` (the scans that came in then), and `overlap`: whether two settings
  requests were ever at work at once, or one dropped the gateway while another thread was
  about to put one there. (The audit records are history too: nothing in the code reads
  them back.)
* **McpShim**: the two pump threads with the set `pending_calls` between them, the
  child's two pipes with their limited room, a child that answers in any order, speaks
  unasked and may end, a daemon that may block, be away or answer nonsense. `inbound`
  and `outbound` are the two threads; `asked` is what the client waits for.
* **Redaction**: one text on its way through the detectors (what they report is free),
  the loop of `resolve_overlaps` turn by turn, the passes of `scan()` or of the proxy,
  the verdicts of the LLM, and the replacement of the spans from right to left. The text
  is a row of pieces that know which characters of the old text they stand for.
* **ModelRegistry**: requests that scan, pin and eject, file by file and step by step
  (read the baselines, list, hash, stat; read, truncate, write; choose a name, move, log),
  beside others who put files there and change them. History: `promised`, `due` (the
  pins a scan has to know), `asked`, `moved`; `clash` says whether a reader of
  `baselines.json` met a writer.
* **ProtectSessions**: each call of protect or restore in a thread; the session's vault
  is found or made (key file and all), then places are replaced from right to left, each
  by the attempts of `surrogate()`. A name takes two steps, seed and ask, because all
  threads share the Faker. A word is `free` if no letter touches it: secrets are found
  anywhere, names only where they stand free, on the way out and on the way back.
* **LlamaRuntime**: the processes at the port (ours, as they load, serve and end, and a
  foreign one), the fields `_proc` and `_active_model`, the threads of select and the
  launcher's main thread in its three modes. History: `answers`, and `odd`, which says
  whether two threads were ever at work on the runtime at once ("overlap") and whether
  something else than the runtime's own server had the port ("port").
* **LocalChat**: chats that mint in the vault of the gateway they came to, the lookup of
  their mapping, a model server that writes any token it has ever been sent, whole or in
  two deltas, and that may stop anywhere; rows that expire; settings that put another
  gateway in place. History: `sent` (what reached the server) and `last` (what a client
  was shown).

## 3. Runs

| Run | Instance | Shows |
|---|---|---|
| `token_vault` | 2 threads, 2 requests, 2 values (1 and 3 bytes), 3 tokens, 2 rows, 5 bytes, clock to 2, ttl -1 or 2 | `WithinCap`, `PromiseKept`, `SameTokenAgain`, `AnswersOwn`, and `ImplementsMap`: the vault refines TokenMap |
| `proxy_safety` | a plain request (3 payloads), a stream whose client quotes any token, a tool call, 2 executor threads, 3 rows, clock to 1, one cancellation each, `aclose` may fail | `OnlyUnwalkedLeaves`, `SentIsComplete`, `RestoresOwn`, `OwnTokensRestorable`, `OthersKeepOut` |
| `proxy_forget` | shorter payloads, one executor thread, upstream allowed or not, `aclose` does not fail, fairness | `NothingLeft`, and `EventuallyForgotten` (liveness) |
| `sse` | every cut of five telling texts into three deltas and of the raw text into reads, LF and CRLF, 0 to 2 characters missing at the end | `ReadsRestoredText`, `TailBounded`, `EventsInOrder` |
| `scan` | a settings request that turns the cloud off and one that does so, sets another section or resets, at once or one after the other, beside a scan; cloud on at the start; gateway built or not; two stages | `NoPartialRunIsComplete`, `OffMeansOff`, `ReportsTruth` |
| `mcp_shim` | two ids and three requests, so that an id is reused; one unasked message; pipes of one message; messages that fit or are too large; fairness | `OnlySanitized`, `PendingIsAsked`, and `AnswersArrive` (liveness) |
| `registry` | 2 model files, 2 hashes, a scan, a pin from outside and one of the current hash, 2 ejections of one name, one change by others, clock to 1 | `TrustedWasPinned`, `PinsAreKnown` |
| `protect` | 2 threads, 3 calls, 2 sessions of the gateway's making and an unknown one, 2 secrets whose first surrogates collide, 2 people, 3 attempts | `RoundTrip`, `SecretKeepsSurrogate` |
| `runtime` | the three modes, 2 models, 2 selecting threads, 2 selects, 3 servers, one foreign visit, fairness | `NoStray`, `ServedAsTold`, and `SelectsEnd` (liveness) |
| `chat` | 2 chats at once of five kinds (two values, one, one with an injection, blocked, plain), 2 rows, one settings change, 2 deltas | `OnlyTokensSent`, `ShowsOwn` |
| `redaction` | a text of 3 characters, every set of three reports of six kinds (sure or unsure secret, catch-all secret, account number, sure or unsure name), and of verdicts, at most two and three with the reports, both ways | `Resolved`, `RightText`, `ConfidentStays`, `UnsureAccounted`, `SecretsStay` |
| `redaction_loses` | the same, the proxy's way | violated: see section 6 |

The bounds are chosen so that the interesting cases happen. Two rows and five bytes let
either cap be the one that is hit, and a third token is needed to have a choice left
when both rows are taken. A clock of 2 with ttl 2 lets a call read time 0, wait, and run
when other rows have expired. In the proxy the third row is the room that the tool call
takes away from a request of two spans, so a mint fails on the second span of a part; a
quoted token may be one of the other request, of the tool call, or of nobody. The five
SSE texts hold a token of the request, one that is not in the mapping, openings that
turn out to be none (one of them inside another), a body one too long, a text that
ends inside a token, and newlines in and behind what begins like one. Two settings requests are enough for one to
turn the cloud off and one to bring it back by what it has read, and a scan may come in before, between or behind
them, or build the gateway itself; the stages of its run, of which the order is a setting,
are one that may warn or fail and the audit (four of them, or further requests, beside two
writers take too long). That no request turns the cloud on again is left to the theorems,
which are for all requests and every order that ends with the audit. In the shim pipes of one message make each thread wait on the other side as
soon as a second message comes. Three characters have room for two findings that touch,
overlap, contain each other or are apart, and a third one across both. In the registry a scan
beside two pins is what can meet a half-written file. Three protect calls are a protect, another one of the
session, which may collide with it, and the restore of the first. Three servers are the
one of the launcher and one per select. In the chat two rows are filled by one prompt of
two values, so the other chat finds the vault full. Permutations of tokens (of threads in
`chat`, of settings requests in `scan`) are symmetry where no property tells them apart and no liveness is checked.

`TypeOK` of `TokenVault`, `McpShim` and `Redaction` is checked; in the other modules it
documents the types, and is proved where section 5 says so.

Each property has a mutant in `PROJECT.json`: a plausible bug in one mapped definition
(a lookup that ignores the request, a cap test that is off by one, a walk in which the
last part wins, a hold that misses a complete body, a bus rebuilt from the old flag)
that TLC finds under the same configuration.

## 4. Fairness

`proxy_forget`: `WF(Prepare(r))`: the executor runs what is queued and the
walk of a finite payload ends. `WF(Handle(r))`: the event loop resumes ready
coroutines, the upstream call ends because the HTTP client has a timeout (120 s), and a
body ends or breaks. No fairness is assumed of clients, clocks, tool calls, further
deltas or cancellations.

`mcp_shim`: `WF(Outbound)`, the thread that reads the child: the client reads its input,
and a call of the daemon has a timeout of 30 s. Nothing is assumed of the child, of the
client's requests or of the thread that writes to the child, which may wait for room for
ever; `AnswersArrive` says that this does not keep answers back.

`runtime`: `WF(Work(t))`, the steps of a thread inside `start`, `wait_until_ready` and
`stop`. Each of their waits has a deadline in the code (90 s for the port, 5 s for the end
of a process), which is why `TimesOut` and `Kill` are steps of the thread and not of its
surroundings. Nothing is assumed of the servers, of the foreign program or of Quit.

## 5. Proofs

### The vault (`TokenVaultProofs`)

All for any number of threads, requests, values and tokens, any caps and any bound on
the clock. Assumed: `CapAssumption` (the caps are naturals, every value has a length)
and `ThreadAssumption` (ttls are integers). The model assumes that `time.time()` does
not go back while a call waits.

* `TypeCorrect`: `Spec => []TypeOK`.
* `Invariant`: `Spec => []IInv`. `PromiseKept` alone is not inductive. A cleanup inside
  `mint` uses the `now` the call has read before it waited; that it takes no row with a
  promise needs `now <= clock` (in `TypeOK`) and that a promise that is still listed is
  not due (`PromisesUndue`). That an insertion does not overwrite a promised row needs
  the shape of the table; that a reused token is *the* token needs `Unique`: no two rows
  have the same request and value. `Small` carries both caps.
* `PromisesHold`: `Spec => []PromiseKept`. `CapsHold`: `Spec => []WithinCap`, both caps.
  The bytes of a table are the elements of a set, `Bytes`, that has a pair per row and byte,
  so that a row more is a disjoint union (`BytesOfOneMore`) and the sum that SQLite takes
  is a cardinality. `EntriesBounded`: never more than `MaxEntries` rows.
* `SameToken`: `Spec => SameTokenAgain`, from `Unique` and `PromiseKept`: while a
  (request, value) has a token whose promise is not due, `mint` answers that token and
  never refuses. `OwnAnswers`: `Spec => AnswersOwn`.
* `VaultIsMap`: `Spec => ImplementsMap`: initial states map to initial states, every
  step of the vault to a step of TokenMap or a stutter.

### Redaction (`TextProofs`)

For a text of any length, any kinds of findings, any number of them at any places, and
any verdicts. Assumed: `RedactionAssumption` (a secret of the rules has tier SECRET, what
Presidio finds a tier from 1 to 3, the ways are the two of the code).

* `Invariant`: `Spec => []IInv`, one lemma per part of the invariant (`TypedStep`,
  `LoopStep`, `PassStep`, `MergeStep`, `TextStep`), and `TypeCorrect`.
* `ResolvedAlways`: what `Resolved` asks of the finding that is kept - a higher tier, surer,
  not shorter, or not of the catch-all rule - says nothing of `Rank`, by which the loop
  sorts; that the one follows from the other needs that nothing that is left in the loop
  comes before what is kept (`LoopInv`): without it a later finding could be dropped for one
  it should have displaced.
* `SecretsAlwaysStay`: `PassInv` follows the sure secrets through the passes. After the
  first pass each is kept or shares characters with a sure secret that is
  (`NotBehind`: only a sure secret is not preceded by one). In the second pass of
  `scan()` a kept one could only give way to another secret (`BehindSecret`), and those
  are apart already. After that they are confident, and the LLM cannot touch them.
* `ConfidentAlwaysStays`, `UnsureAlwaysAccounted`: what is merged is in the way of no
  confident finding (`MergedParts`), so the pass after the merge drops none.
* `RightTextAlways`: `Shape(edge)` cuts the text in two. Before the edge it is the old
  text and all that is left to replace lies there; behind it the pieces join up to the
  end and stand for spans or for characters outside of every span. The edge moves to the
  beginning of the span that is replaced (`ReplaceShape`).

### The proxy (`ProxyGatewayProofs`)

For any number of requests, tool calls and executor threads, any payloads, time to live
and caps, and any number of cancellations. Assumed: `ProxyAssumption` (a request is not a
tool call; a text is allowed only if the classifier finds no span in it) and
`CapAssumption`.

* `Invariant`: `Spec => []IInv`, from which `TypeCorrect` follows. The parts follow the
  request from end to end: `WalkInv` and `ReadyInv` say that what the walk has behind it may
  leave, unless a part blocked; `TextInv` and `TokensInv` which values and tokens its text
  holds; `RowsAreBorn` and `MapInv` that table and mapping tell what a token was generated
  for; `TaskInv` that only the text of a job that has ended and did not block is sent.
* `OnlyUnwalkedLeavesHolds`, `SentIsCompleteHolds`, `RestoresOwnHolds`: from these parts. The
  second is about the parts that are inspected; what the walk passes by is sent, malformed
  or not (section 6).
* `OwnTokensRestorableHolds` needs `FreshInv`: each token of a request is in the table with
  an expiry not before `arrived + Ttl`, then in the lookup, then in the mapping. It is
  inductive because nobody takes such rows away, which is the action property
  `OthersKeepOut` (`OthersKeepOutHolds`).
* `NothingLeftHolds`: `ASSUME MaxCancels <= 1, CloseMayFail = FALSE PROVE Spec =>
  []NothingLeft`, the two premises of section 6. `Quiet` is its invariant: a coroutine that
  drains has used up its cancellation, so it waits for its job and cleans up after it.

### The MCP shim (`McpShimProofs`)

For any ids, any length of the pipes, any content of the answers, any number of messages.

* `TypeCorrect`, and `Waits`: a request, and then its answer, is in one place at a time
  (`OnceInv`) and the client waits for it all along (`AwaitedInv`). Without that a second
  answer could find its id gone from `pending_calls`. `PendingIsAskedHolds` is part of it.
* `OnlySanitizedHolds`: `ASSUME Ids \intersect ChildIds = {}` (section 6). A call is
  recorded before it is passed on and stays recorded until its answer is read
  (`RecordedInv`), and the items up to the one at hand are sanitized (`CleanInv`).

### The chat (`LocalModelProofs`)

For any threads, prompts, size of the vault, number of settings saved and of deltas; no
premise beside `ChatAssumption` (what is allowed has no span).

* `OnlyTokensSentHolds`: every span behind the one at hand has its token, and what is
  blocked or has an injection never comes to be sent (`PrepareInv`).
* `ShowsOwnHolds`: numbers of chats are unique (`NumberInv`), so the tokens in a request
  under the chat's number are its own (`TalkInv`), though the model mixes all it was sent.

### Scans (`ScanServiceProofs`)

For any number of scans and of settings requests, whatever they ask, any files, with or
without a gateway at the start, any results of the stages. The order of the stages is a
constant because the code takes it from the configuration (`pipeline.order`).

* `Types`, `TypeCorrect`: a thread that is past `get_gateway()` holds a gateway.
* `NoPartialRunIsCompleteHolds`: `ASSUME AuditLast`: the order of the stages ends with the
  audit and has no other, as it does in `default.yaml`. Nothing else is assumed of them.
* `Cloud`, `OffMeansOffHolds`, `ReportsTruthHolds` have no premise; the exception is in the
  properties, and it is `overlap`. `CloudInv` says that `overlap` misses no such
  moment and that until it is set: the bus of every gateway is what its configuration says
  (`BusInv`); the gateway, and the settings that somebody is about to build one from, say
  what the file says, unless a settings request has begun to rewrite the file and has not yet
  dropped the gateway (`FreshInv`); who rewrites the file is alone with it, and once it is
  rewritten the gateway that is found or built then has the new settings before they are
  applied to it (`WriterInv`). That is why a PUT of another section, which loads the
  configuration again and does not rebuild the bus, changes nothing. Then, once the cloud is off, neither the
  file nor the gateway nor one that is being made has it, nor what a request is about to
  write (`OffInv`), and what scans do and report follows (`ForwardInv`).

### The registry (`ModelRegistryProofs`)

For any files, hashes, requests and changes by others. `Invariants` holds two, one per
property.

* `TrustedWasPinnedHolds`: who writes or reports a baseline has had it asked for
  (`AskedInv`), whatever half-written files are read.
* `PinsAreKnownHolds`, with the exception of the property itself (`clash`): without a clash
  one pin is written at a time, by somebody who knows all that have been answered
  (`KnownInv`).

### Protect sessions (`ProtectSessionsProofs`)

For any number of threads, calls, words and attempts, any prompts, and any way in which
surrogates of names collide or seeds interfere. `ProtectAssumption` includes that `uuid4`
never returns an id twice. All three theorems assume `ClientIds = {}` (section 6).

* `Sessions`: an id that the gateway makes up is known to one thread until its vault is
  there, so a session has one vault (`Alone`). Rows are never taken away nor given to
  another word, and no word is its own surrogate (`RowsInv`); what has been replaced is a
  row of that vault (`TextInv`). An attempt that a row once spoiled stays spoiled, so each
  secret's row is the first one to be had (`FirstInv`).
* `SecretKeepsSurrogateHolds`: two first attempts that are both to be had are the same.
* `RoundTripHolds`: assumes `FreeFound` too: a found word that is no secret has no
  letter beside it. `restore` matches surrogates of names only where they stand free, so
  without it a name that was found inside a longer word would stay replaced. `RestoredInv`
  says what `restore` may have left or put in besides: words that are surrogates by now,
  which the property excuses.

### The stream (`TextProofs`)

For answers of any number of events and texts of any length, cut in any way into deltas and
reads, both line ends, any tail left out, any mapping and any length of the body of a
token. Assumed: `SseAssumption` ([DONE] comes last; the characters of a body are not those
around it).

* Where the reader is: `Place(k)` says that k events have been sent and that what is ahead of
  it (`ToCome`: `work`, `pending` and `wire` without their CRs) is the events k + 1 to n,
  each with its blank line (`Ahead`). A CR stands only before an LF (`LineEnds`); one that
  is the last of `pending` waits for its LF, which is the next mark on the wire (`Marks`).
  `PlaceNext`: every step keeps the place or goes on by one, whatever is cut.
* `TailBoundedHolds` (`ReaderInv`): what `feed` keeps begins at an opening and has no more
  than one body behind it (`HeldBounded`).
* `EventsInOrderHolds` (`OrderInv`): the events that are out are those up to the place, one
  for one; the one that may come besides, with the restorer's rest, comes where nothing is
  ahead any more (`SentFor`).
* `ReadsRestoredTextHolds`: `ASSUME ChoiceIds = {0}` (section 6). `HeardInv` says that there
  is a character d of the text so far with the text up to d restored and sent and the
  rest in the buffer, and that no token of the mapping lies across d (`Hears`, `Clean`).
  `RestoreSplits`: at such a place the text may be restored in two parts. `StaysClean`: a
  text cut where the regular expression cuts it is cut at such a place, whatever follows;
  `FeedReads` carries this from one delta to the next.

### The runtime (`LocalModelProofs`)

For any models and threads that select, any number of servers, selects and visits of a
foreign program, in each of the three modes. No premise beside `RuntimeAssumption`; the
properties hold while `odd` does not say "overlap", or anything (section 6).

* `RuntimeInvariant`. While no two threads have been at work at once (`Alone`) the one that
  starts a server finds `_proc` empty, and has told the server to end before it forgets it
  (`HeldInv`), so every server that has not been told is the one of `_proc` (`NoneLeft`).
  `ChildInv`: the gateway process of the frozen launcher runs only while the launcher is
  up. While the port was nobody else's, a server that is not gone is the one of `_proc`,
  and it has the model the field says (`PortInv`).
* `ExitInv`: where the launcher was handed the runtime, its end comes after a stop that has
  emptied `_proc`; where it was not, nothing is said of the servers (section 6).
* `NoStrayHolds` and `ServedAsToldHolds` follow: after `wait` one server listens at the port,
  and it is the one that was started.

### Only model-checked

The liveness properties `EventuallyForgotten`, `AnswersArrive` and `SelectsEnd`, which rest
on fairness. Every other property of the runs that pass has a theorem. That the proxy's way
loses findings (`redaction_loses`) is a counterexample and needs no proof.

## 6. Where the code does not keep what it says

Stated as a run: `find_pii_spans` resolves the overlaps of all types before the proxy picks
the three it redacts. A name or telephone number that loses to a finding of another type
with a higher tier is dropped, then that finding is filtered out, and the text passes as
public with both (`redaction_loses`).

Seven more statements of the documents are in the modules, and TLC refutes each of them under
a configuration that is kept beside the runs:

| Statement, configuration | Says | What the code does |
|---|---|---|
| `MalformedIsBlocked`, `MCProxyMalformed.cfg` | ADR-005, line 27: malformed payloads are blocked, no upstream call | a bare string in a content list, and a message that is no object, are passed on unread (`openai_payload.py:70`) |
| `NoForwardWhenOff`, `MCScanLate.cfg` | ADR-002, line 22: no cloud forward if `cloud.enabled` is false | on a cold start a thread that has loaded the old configuration puts its gateway in place after the PUT that turned the cloud off was answered, and later scans are forwarded (`server.py:158`) |
| `NoForwardOfFailure`, `MCScanFailed.cfg` | the same line: no cloud forward if anything failed | `EventBus.publish` tests its cloud flag only; the event of a failed run is handed to it like any other (`gateway.py:171`). The HTTP call itself is still a comment; "forwarded" is that `publish` logs it and returns True |
| `DocumentedOrder`, `MCRedactionOrder.cfg` | `findings.py:62-63`: higher tier, then higher confidence, then longer span | a longer match of the catch-all rule gives way to a shorter one of another rule (line 68) |
| `EjectedIsKept`, `MCModelRegistryEject.cfg` | `registry.py:5`: quarantined models are moved to `data/quarantine/` | the name there is the second and the model's name: of a model that is put back and ejected again within a second the first file is replaced (line 111) |
| `PinsAreAlwaysKnown`, `MCModelRegistryPins.cfg` | `registry.py:4`: a model whose hash is not that of its baseline is POISONED | of two requests that rewrite `baselines.json` at a time one pin is lost, and a scan that reads it half-written says UNVERIFIED (line 129) |
| `QuitStopsRuntime`, `MCLlamaRuntimeQuit.cfg` | `docs/v2/PHASE2_PLAN.md:109`: tray Quit stops the runtime | a runtime that is not ready within 90 s is returned as `None`, so the launcher has nothing to stop, and its server survives (`bootstrap.py:98`) |

The passing runs state their premises where the code needs them. Each premise stands for
a behaviour in which the property fails; to see it, change the named constant or leave the
named disjunct out of the property:

* `proxy_forget`, `MaxCancels = 1`: `_await_prepare` survives one cancellation only. A second
  one lands in its `await fut`; the `finally` deletes the rows of the request and the
  executor thread, still walking, mints more, which stay until they expire (`NothingLeft`;
  `src/tests/unit/test_openai_proxy.py:325` asserts that nothing is left).
  `CloseMayFail = FALSE`: an `aclose` that raises or is cancelled skips the deletion in the
  same `finally`.
* `sse`, `ChoiceIds = {0}`: one `SlidingTokenRestorer` serves all choices of a stream; with
  deltas of two choices, what it holds of one comes out in the next delta of the other
  (`ReadsRestoredText`; ADR-005, line 43).
* `scan`, `overlap` in `OffMeansOff` and `ReportsTruth`. Of two settings requests that overlap
  one change may be lost: a PUT of another section that has read the file before writes
  `cloud: on` back, and the cloud stays on. A PUT of another section that
  loads the configuration again after the cloud was turned off, on a gateway built before,
  leaves it with the cloud in its bus and without it in its configuration: scans that have that
  gateway are forwarded, and their answers say `cloud_forwarded: false` (`gateway.py:196`). The late gateway of the
  table above is the third case. What two writers leave may also not parse: then every
  load, and with it every settings request, fails until somebody repairs the file; one that
  finds the file and opens it when a reset has removed it fails half-way, with the gateway
  dropped or kept as it was. The endpoints run in threadpool threads and hold no lock.
* `mcp_shim`, `ChildIds = {"s"}`: the shim pops the id of every message of the child, also
  of a request the child makes itself. If its number is that of a `tools/call` in flight,
  the result of that call is passed on as it is (`OnlySanitized`;
  `docs/cs301/CURSOR_SETUP.md:11`).
* `registry`, `clash` in `PinsAreKnown`: see `PinsAreAlwaysKnown` above.
* `protect`, `ClientIds = {}`: two first calls under a session id that the clients made up
  make two vaults, and the surrogates of one are lost (`RoundTrip`). `Plain` in
  `RoundTrip`: a prompt that contains a surrogate of its session of its own accord comes
  back with the original in its place. Every prompt of the run has its names standing free
  (`FreeFound` in the proof): a name found with a letter, a digit or an underscore beside it
  is replaced there but not restored.
* `runtime`, `odd`: two selects, or a select and Quit, at a time start two servers, and one
  is held by nobody; after a kill, which is not awaited, the old server may still listen
  and is taken for the new one; another program at the port is taken for the runtime's.

Met but not stated: the integrity stage of a scan is built without a baseline and says
"SHA-256 verified" of any file it can read (ADR-003: "don't mark verified");
`audit_recent` sorts the records by their random ids;
`scan()` announces "one overlap pass over both detectors" and makes it the third one, so a
name that lost to an account number stays unprotected when the account number loses to a
secret beside the name; a `[DONE]` without its blank line is sent before the text the
restorer still holds; the shim's reading thread ends at the first line that is no message,
while the other thread goes on forwarding calls that nobody will answer; a chat stream
that times out while it reads ends with neither done nor error, and one whose connection
closes looks complete; a model that goes between its hash and its `stat()` fails the whole
scan of the registry; a surrogate of a name that the model writes with a letter beside it
is not restored.

## 7. Abstractions

* In ProxyGateway `mint` and `get` are atomic (their two halves are TokenVault's
  subject), and a generated token of 128 random bits was never generated before; in
  TokenVault the generator may return any token, also one that is in the table.
* The lookup of the mapping takes the tokens in any order, the walk its parts in order
  and the spans of a part from right to left.
* A data line of SSE is one mark: `pending` concatenates, so cuts inside a line make no
  difference to what is parsed. Fields other than `data`, comments and data that is no
  JSON (which the code feeds to the restorer as text) are left out; JSON without a delta is
  one kind of event ("other").
* In Redaction what the detectors report, whether `scan()` asks the LLM (`llm`,
  `suspicion`) and where `Vault.sanitize` finds a text again are free; a replacement is
  one piece, whatever its length. Reports of equal rank, which the code takes in the
  order of its rules, are taken in any order.
* Stages of the pipeline are the sets of statuses they may return. A section of `local.yaml`
  has one value, a request sets one section or resets, and the sections are merged as a whole;
  writing the file is one step after the one that empties it. Of what two writers leave in one
  file only this is kept: some of the sections of the one that wrote first stay beside those
  of the other, or the text does not parse. A file that is empty parses, as no settings. On
  Windows a file that somebody has open cannot be removed (`UnlinkFails`); on Linux it can.
* In ModelRegistry a file is hashed in one step: a file that changes while it is read has a
  hash that is neither the old nor the new one, which is then as unknown as any other. Others
  put a file back or change it at any time, also within the second of an ejection.
* In ProtectSessions a text is a row of words, the places the scan reports are part of the
  prompt, and drawing a surrogate is a function of key, value and attempt (`make_rng`). The
  MCP tools and the Gateway's methods are one action each at the start and at the end.
* In LlamaRuntime the model files do not change, so `available()` holds; a server that is
  killed may stay at the port for any time; a server binds the port only if it is free.
  `--no-runtime`, and a Ctrl+C before the launcher's `try`, are left out.
* In LocalChat a delta is a token, or one of the two parts of one; the rest of the model's
  text is left out. A row expires after its chat was prepared (an hour against
  milliseconds). The model server is any server: it is not LlamaRuntime's, which may
  break at any time as well.
* In McpShim an item of a result is its kind. Error objects, `structuredContent` and a
  content that is no list are passed as they are by the code and are "other" here; the
  `isError` flag and the client's replies to the child's requests are left out. Reading
  a message of the child and looking its id up is one step: nothing else takes an id out.

## 8. Not modelled, and the plan

Later work: the image inspector and the body limit of the proxy.

Left aside, and why: regular expressions, Presidio, spaCy and the tables of entity types
and keywords (data, not control: what they report is free in the models); the classify
and audit endpoints and the lists of models (they only read); the seeding of
configuration files and the file pickers (single steps of one process); the tray's icon,
whose status is set once; the evaluation scripts (no state, nothing runs beside them).
