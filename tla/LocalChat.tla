-------------------------------- MODULE LocalChat --------------------------------
(* The chat demo: Gateway.chat and chat_stream_events (orchestration/gateway.py)   *)
(* behind POST /api/chat and /api/chat/stream, with LocalLLMClient                 *)
(* (local_core/adapters).  A chat replaces what is sensitive in its prompt by       *)
(* tokens of the gateway's own vault, sends it to a model server on this machine    *)
(* and restores the tokens in what comes back, delta by delta.  PUT /api/settings   *)
(* puts another gateway, with an empty vault, into the place of the first one.      *)
EXTENDS Naturals, Sequences, FiniteSets

CONSTANTS
    Chatters,    \* threads of the pool that serve a chat
    Prompts,     \* what is asked: [spans, verdict, inject]
    MaxRows,     \* max_entries of the vault
    \* bounds of the model: chats, settings saved, deltas of an answer
    MaxChats, MaxSaves, MaxDeltas

\* spans: the sensitive values from right to left; verdict: of classify_content;
\* inject: is it taken for an injection?
ASSUME ChatAssumption ==
    /\ \A p \in Prompts : /\ p.spans \in Seq(STRING)
                          /\ p.verdict \in {"allow", "redact", "block"}
                          /\ p.inject \in BOOLEAN
                          /\ p.verdict = "allow" => p.spans = <<>>
    /\ {MaxRows, MaxChats, MaxSaves, MaxDeltas} \subseteq Nat

VARIABLES
    gateway,   \* number of the gateway in place
    rows,      \* the rows of all vaults: [in, id, value], which also is the token
    chats,     \* how many chats there have been; a chat's number is its request_id
    pc,        \* pc[c]: where the chat of thread c stands
    via,       \* via[c]: its gateway
    id, prompt, \* its request_id and its prompt
    left,      \* left[c]: how many spans have still to be replaced
    minted,    \* minted[c]: its tokens
    mapping,   \* mapping[c]: those of them it knows the values of
    raw,       \* raw[c]: the deltas received
    \* history
    sent,      \* what reached a model server: [id, prompt, tokens, plain]
    last       \* what a client was told last: [how, id, raw, shown]

shared == <<gateway, rows, chats>>
local == <<pc, via, id, prompt, left, minted, mapping, raw>>
vars == <<shared, local, sent, last>>

NoPrompt == [spans |-> <<>>, verdict |-> "allow", inject |-> FALSE]
NoAnswer == [how |-> "", id |-> 0, raw |-> <<>>, shown |-> [values |-> {}, tokens |-> {}]]

Init == /\ gateway = 1
        /\ rows = {}
        /\ chats = 0
        /\ pc = [c \in Chatters |-> "idle"]
        /\ via = [c \in Chatters |-> 0]
        /\ id = [c \in Chatters |-> 0]
        /\ prompt = [c \in Chatters |-> NoPrompt]
        /\ left = [c \in Chatters |-> 0]
        /\ minted = [c \in Chatters |-> {}]
        /\ mapping = [c \in Chatters |-> {}]
        /\ raw = [c \in Chatters |-> <<>>]
        /\ sent = {}
        /\ last = NoAnswer

Go(c, from, to) == pc[c] = from /\ pc' = [pc EXCEPT ![c] = to]

\* The texts the spans of a prompt hide.
Values(p) == {p.spans[i] : i \in DOMAIN p.spans}

\* The complete tokens in the text so far, whatever deltas they came in.
Tokens(text) == {text[i].token : i \in {j \in DOMAIN text : text[j].part = "whole"}}
                \union {text[i].token : i \in {j \in 1..Len(text) - 1 :
                            /\ text[j].part = "head" /\ text[j + 1].part = "tail"
                            /\ text[j].token = text[j + 1].token}}

\* OpaqueAnonymizer.restore of the text so far: the values of its own tokens, the others
\* as they are.
Restore(text, map) == [values |-> {tk.value : tk \in Tokens(text) \intersect map},
                       tokens |-> Tokens(text) \ map]
--------------------------------------------------------------------------------
(* _prepare_chat.                                                              *)

Ask(c, p) ==
    /\ chats < MaxChats
    /\ Go(c, "idle", CASE p.verdict = "block" -> "blocked"
                       [] p.verdict = "redact" -> "mint"
                       [] OTHER -> "guard")
    /\ chats' = chats + 1
    /\ id' = [id EXCEPT ![c] = chats']
    /\ via' = [via EXCEPT ![c] = gateway]
    /\ prompt' = [prompt EXCEPT ![c] = p]
    /\ left' = [left EXCEPT ![c] = Len(p.spans)]
    /\ UNCHANGED <<gateway, rows, minted, mapping, raw, sent, last>>

Row(c) == [in |-> via[c], id |-> id[c], value |-> prompt[c].spans[Len(prompt[c].spans) - left[c] + 1]]
InVault(n) == {tk \in rows : tk.in = n}
HasRoom(c) == Row(c) \in rows \/ Cardinality(InVault(via[c])) < MaxRows

\* OpaqueAnonymizer.anonymize: a token per span, from right to left.
Mint(c) ==
    /\ pc[c] = "mint" /\ left[c] > 0 /\ HasRoom(c)
    /\ rows' = rows \union {Row(c)}
    /\ minted' = [minted EXCEPT ![c] = @ \union {Row(c)}]
    /\ left' = [left EXCEPT ![c] = @ - 1]
    /\ UNCHANGED <<gateway, chats, pc, via, id, prompt, mapping, raw, sent, last>>

\* a chat that goes on with what it has
MintSkips(c) ==
    /\ left[c] > 0 /\ ~HasRoom(c)
    /\ Go(c, "mint", "guard")
    /\ UNCHANGED <<shared, via, id, prompt, left, minted, mapping, raw, sent, last>>

\* A full vault blocks the chat; the rows it has minted stay until they expire.
MintFails(c) ==
    /\ pc[c] = "mint" /\ left[c] > 0 /\ ~HasRoom(c)
    /\ pc' = [pc EXCEPT ![c] = "blocked"]
    /\ minted' = [minted EXCEPT ![c] = {}]
    /\ UNCHANGED <<shared, via, id, prompt, left, mapping, raw, sent, last>>

MintedAll(c) ==
    /\ left[c] = 0
    /\ Go(c, "mint", "guard")
    /\ UNCHANGED <<shared, via, id, prompt, left, minted, mapping, raw, sent, last>>

\* a look-up in the vault of the gateway that is in place now
LookUpNow(c) == {tk \in minted[c] : tk \in rows /\ tk.in = gateway}

\* The values of its tokens, each read back from the vault.
LookUp(c) == minted[c] \intersect rows

\* detect_prompt_injection looks at the prompt as it was written, after the minting.
Guard(c) ==
    /\ Go(c, "guard", IF prompt[c].inject THEN "blocked" ELSE "send")
    /\ mapping' = [mapping EXCEPT ![c] = LookUp(c)]
    /\ UNCHANGED <<shared, via, id, prompt, left, minted, raw, sent, last>>
--------------------------------------------------------------------------------
(* The model server.                                                           *)

\* The chat is over.
Finish(c, how) ==
    /\ pc' = [pc EXCEPT ![c] = "idle"]
    /\ via' = [via EXCEPT ![c] = 0] /\ id' = [id EXCEPT ![c] = 0]
    /\ prompt' = [prompt EXCEPT ![c] = NoPrompt]
    /\ left' = [left EXCEPT ![c] = 0]
    /\ minted' = [minted EXCEPT ![c] = {}] /\ mapping' = [mapping EXCEPT ![c] = {}]
    /\ raw' = [raw EXCEPT ![c] = <<>>]
    /\ last' = IF how = "done" THEN [how |-> how, id |-> id[c], raw |-> raw[c],
                                     shown |-> Restore(raw[c], mapping[c])]
               ELSE [NoAnswer EXCEPT !.how = how]
    /\ UNCHANGED <<shared, sent>>

\* BLOCKED_USER_MESSAGE in place of an answer.
AnswerBlocked(c) == pc[c] = "blocked" /\ Finish(c, "blocked")

\* The request with the sanitized prompt reaches the server.
Send(c) ==
    /\ Go(c, "send", "read")
    /\ sent' = sent \union {[id |-> id[c], prompt |-> prompt[c], tokens |-> minted[c],
                             plain |-> Values(prompt[c]) \ {tk.value : tk \in minted[c]}]}
    /\ UNCHANGED <<shared, via, id, prompt, left, minted, mapping, raw, last>>

\* A delta: a token, or one of two parts of it, of any chat the model has heard of.
Read(c) ==
    /\ pc[c] = "read" /\ Len(raw[c]) < MaxDeltas
    /\ \E tk \in UNION {s.tokens : s \in sent}, part \in {"whole", "head", "tail"} :
          /\ (part = "tail") <=> (raw[c] # <<>> /\ raw[c][Len(raw[c])] = [token |-> tk, part |-> "head"])
          /\ raw' = [raw EXCEPT ![c] = Append(@, [token |-> tk, part |-> part])]
    /\ UNCHANGED <<shared, pc, via, id, prompt, left, minted, mapping, sent, last>>

\* [DONE], or the end of the connection, which reads the same.
Done(c) == pc[c] = "read" /\ Finish(c, "done")

\* No connection, one that is reset, or lines that make no sense: an error event, or
\* an answer without text.
Broken(c) == pc[c] \in {"send", "read"} /\ Finish(c, "error")

\* Other exceptions, a timeout while it reads among them, end a stream without a word
\* and are a 500 to the other endpoint; a client may also go away.
CutShort(c) == pc[c] \in {"send", "read"} /\ Finish(c, "nothing")
--------------------------------------------------------------------------------

\* DEFAULT_TTL, an hour, is over; a chat is prepared in less.
Expire(tk) ==
    /\ \A c \in Chatters : pc[c] \in {"mint", "guard"} => tk.id # id[c]
    /\ rows' = rows \ {tk}
    /\ UNCHANGED <<gateway, chats, local, sent, last>>

\* PUT /api/settings, /api/settings/reset: reset_gateway.
SaveSettings ==
    /\ gateway <= MaxSaves
    /\ gateway' = gateway + 1
    /\ UNCHANGED <<rows, chats, local, sent, last>>

Prepare(c) == \/ Mint(c)
              \/ MintFails(c)
              \/ MintedAll(c)
              \/ Guard(c)

Talk(c) == \/ AnswerBlocked(c)
           \/ Send(c)
           \/ Read(c)
           \/ Done(c)
           \/ Broken(c)
           \/ CutShort(c)

Next == \/ \E c \in Chatters, p \in Prompts : Ask(c, p)
        \/ \E c \in Chatters : Prepare(c) \/ Talk(c)
        \/ \E tk \in rows : Expire(tk)
        \/ SaveSettings

Spec == Init /\ [][Next]_vars
--------------------------------------------------------------------------------

\* Nothing sensitive and nothing blocked reaches a model server, also when the vault
\* is full by the earlier chats, whose rows nobody deletes, or the settings change.
OnlyTokensSent ==
    \A s \in sent : /\ s.plain = {} /\ ~s.prompt.inject /\ s.prompt.verdict # "block"
                    /\ \A tk \in s.tokens : tk.id = s.id

\* What a chat shows last is the model's text with every token of the chat's own
\* restored, in one delta or in two, and no token of another one, although rows expire
\* and gateways are replaced while the model is writing.
ShowsOwn ==
    last.shown = [values |-> {tk.value : tk \in {x \in Tokens(last.raw) : x.id = last.id}},
                  tokens |-> {x \in Tokens(last.raw) : x.id # last.id}]
=============================================================================
