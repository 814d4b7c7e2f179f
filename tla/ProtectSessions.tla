----------------------------- MODULE ProtectSessions -----------------------------
(* Protect and restore (orchestration/gateway.py, local_core/anonymizer), as the  *)
(* MCP tool server (mcp/stdio_server.py) offers them.  protect replaces what the   *)
(* scan finds by surrogates of the session's vault; restore puts the originals     *)
(* back into a reply.  Each call runs in some thread of a pool.  The threads share *)
(* the dictionary of sessions, the key file and the one Faker of the process; a    *)
(* vault's SQLite connection only works in the thread that made it.                *)
EXTENDS Naturals, Sequences, FiniteSets, FiniteSetsExt

CONSTANTS
    Threads,
    Uuids,          \* the session ids the gateway makes up, in order
    ClientIds,      \* the session ids clients make up themselves
    Strangers,      \* ids of sessions of other processes
    Secrets,        \* words that are secrets
    People,         \* words that are names of people; all other words are plain
    Prompts,        \* what clients protect: [text: row of words, found: the places
                    \* the scan reports]; a word is [word, free], free if it stands
                    \* between characters that belong to no word
    Attempts,       \* how often surrogate() tries
    FakeSecret(_, _, _), \* create_fake_secret: by key, word, attempt
    FakeName(_, _),      \* what Faker gives: by its seed and how often it was asked
    MaxCalls        \* bound on the calls

Ids == {Uuids[i] : i \in DOMAIN Uuids} \union ClientIds \union Strangers

ASSUME ProtectAssumption == /\ Secrets \intersect People = {}
                            /\ Attempts \in Nat \ {0} /\ MaxCalls \in Nat
                            /\ Uuids \in Seq(STRING)
                            /\ \A i, j \in DOMAIN Uuids : Uuids[i] = Uuids[j] => i = j
                            /\ \A p \in Prompts :
                                  /\ p.text \in Seq([word : STRING, free : BOOLEAN])
                                  /\ p.found \subseteq DOMAIN p.text

VARIABLES
    key,        \* data/vault.key: "none", "empty" or "whole"
    faker,      \* the seed of the process's Faker and how often it was asked since
    vaults,     \* the Vault objects: [owner, key, rows]; rows: fake -> [real, secret]
    sessions,   \* _protect_vaults: id -> place in vaults, 0 for none
    issued,     \* how many uuids have been used
    calls,      \* how many calls have come
    pc, sid,    \* pc[t], sid[t]: where thread t stands, for which session
    vault,      \* vault[t]: the vault it works with
    prompt,     \* prompt[t]: what it protects
    todo,       \* todo[t]: the places it has still to replace
    out,        \* out[t]: the text it is rewriting
    tries,      \* tries[t]: the attempts at the place it is at
    reply,      \* reply[t]: the answer whose text it has to restore
    \* history
    answers,    \* what protect answered: [id, prompt, out]
    restores    \* what restore answered: [id, of, text]

shared == <<key, faker, vaults, sessions, issued, calls>>
local == <<pc, sid, vault, prompt, todo, out, tries, reply>>
history == <<answers, restores>>
vars == <<shared, local, history>>

NoPrompt == [text |-> <<>>, found |-> {}]
NoReply == [id |-> "", prompt |-> NoPrompt, out |-> <<>>]

Init == /\ key = "none"
        /\ faker = [seed |-> <<>>, asked |-> 0]
        /\ vaults = <<>>
        /\ sessions = [s \in Ids |-> 0]
        /\ issued = 0
        /\ calls = 0
        /\ pc = [t \in Threads |-> "idle"]
        /\ sid = [t \in Threads |-> ""]
        /\ vault = [t \in Threads |-> 0]
        /\ prompt = [t \in Threads |-> NoPrompt]
        /\ todo = [t \in Threads |-> {}]
        /\ out = [t \in Threads |-> <<>>]
        /\ tries = [t \in Threads |-> 0]
        /\ reply = [t \in Threads |-> NoReply]
        /\ answers = {}
        /\ restores = {}

Go(t, from, to) == pc[t] = from /\ pc' = [pc EXCEPT ![t] = to]

\* Thread t is back in the pool.
Return(t) == /\ pc' = [pc EXCEPT ![t] = "idle"]
             /\ sid' = [sid EXCEPT ![t] = ""]
             /\ vault' = [vault EXCEPT ![t] = 0]
             /\ prompt' = [prompt EXCEPT ![t] = NoPrompt]
             /\ todo' = [todo EXCEPT ![t] = {}]
             /\ out' = [out EXCEPT ![t] = <<>>]
             /\ tries' = [tries EXCEPT ![t] = 0]
             /\ reply' = [reply EXCEPT ![t] = NoReply]

\* The session ids clients know: made up by themselves, or answered.
Known == ClientIds \union {a.id : a \in answers}
--------------------------------------------------------------------------------
(* protect_prompt: the session's vault.                                        *)

\* A call names a session, or the gateway makes one up.
CallProtect(t) ==
    /\ calls < MaxCalls
    /\ calls' = calls + 1
    /\ Go(t, "idle", "find")
    /\ prompt' \in {[prompt EXCEPT ![t] = p] : p \in Prompts}
    /\ \/ \E s \in Known : sid' = [sid EXCEPT ![t] = s] /\ UNCHANGED issued
       \/ /\ issued < Len(Uuids)
          /\ issued' = issued + 1
          /\ sid' = [sid EXCEPT ![t] = Uuids[issued']]
    /\ UNCHANGED <<key, faker, vaults, sessions, vault, todo, out, tries, reply, history>>

\* a new vault for each call
FindVaultAnew(t) ==
    /\ Go(t, "find", "key")
    /\ UNCHANGED <<shared, sid, vault, prompt, todo, out, tries, reply, history>>

\* _vault_for_session: one that is there is used, else one is made.
FindVault(t) ==
    /\ Go(t, "find", IF sessions[sid[t]] = 0 THEN "key" ELSE "scan")
    /\ vault' = [vault EXCEPT ![t] = sessions[sid[t]]]
    /\ UNCHANGED <<shared, sid, prompt, todo, out, tries, reply, history>>

\* load_key: test, create, write, read.
TestKey(t) ==
    /\ Go(t, "key", IF key = "none" THEN "create" ELSE "read")
    /\ UNCHANGED <<shared, sid, vault, prompt, todo, out, tries, reply, history>>

CreateKey(t) ==
    /\ key = "none"
    /\ Go(t, "create", "write")
    /\ key' = "empty"
    /\ UNCHANGED <<faker, vaults, sessions, issued, calls, sid, vault, prompt, todo,
                   out, tries, reply, history>>

\* O_EXCL: whoever comes second fails.
CreateFails(t) ==
    /\ pc[t] = "create" /\ key # "none"
    /\ Return(t)
    /\ UNCHANGED <<shared, history>>

WriteKey(t) ==
    /\ Go(t, "write", "read")
    /\ key' = "whole"
    /\ UNCHANGED <<faker, vaults, sessions, issued, calls, sid, vault, prompt, todo,
                   out, tries, reply, history>>

\* Vault.__init__ ends: the connection belongs to this thread.
MakeVault(t) ==
    /\ Go(t, "read", "remember")
    /\ vaults' = Append(vaults, [owner |-> t, key |-> key,
                                 rows |-> [f \in {} |-> [real |-> "", secret |-> FALSE]]])
    /\ vault' = [vault EXCEPT ![t] = Len(vaults')]
    /\ UNCHANGED <<key, faker, sessions, issued, calls, sid, prompt, todo, out, tries,
                   reply, history>>

RememberVault(t) ==
    /\ Go(t, "remember", "scan")
    /\ sessions' = [sessions EXCEPT ![sid[t]] = vault[t]]
    /\ UNCHANGED <<key, faker, vaults, issued, calls, sid, vault, prompt, todo, out,
                   tries, reply, history>>
--------------------------------------------------------------------------------
(* process_input: scan, then Vault.sanitize from right to left.                *)

\* Vault.sanitize adds the other places of a word that was found: any of a secret,
\* free-standing ones of anything else.
Spans(p) == p.found \union
            {i \in DOMAIN p.text : /\ p.text[i].word \in Secrets \/ p.text[i].free
                                   /\ \E j \in p.found : p.text[j].word = p.text[i].word}

Scan(t) ==
    /\ Go(t, "scan", "replace")
    /\ todo' = [todo EXCEPT ![t] = Spans(prompt[t])]
    /\ out' = [out EXCEPT ![t] = prompt[t].text]
    /\ UNCHANGED <<shared, sid, vault, prompt, tries, reply, history>>

Place(t) == Max(todo[t])
Real(t) == prompt[t].text[Place(t)].word
Seed(t) == <<vaults[vault[t]].key, Real(t), tries[t]>>
Rows(t) == vaults[vault[t]].rows
Mine(t) == vaults[vault[t]].owner = t

\* The place gets its surrogate.
Put(t, fake) ==
    /\ pc' = [pc EXCEPT ![t] = "replace"]
    /\ out' = [out EXCEPT ![t][Place(t)].word = fake]
    /\ todo' = [todo EXCEPT ![t] = @ \ {Place(t)}]
    /\ tries' = [tries EXCEPT ![t] = 0]

\* surrogate(): the row of this very value is used again ...
Reuse(t, fake) ==
    /\ Mine(t)
    /\ fake \in DOMAIN Rows(t) /\ Rows(t)[fake].real = Real(t)
    /\ Put(t, fake)
    /\ UNCHANGED <<vaults, sid, vault, prompt, reply>>

\* rows that are overwritten
InsertOver(t, fake) ==
    /\ Mine(t) /\ fake # Real(t)
    /\ vaults' = [vaults EXCEPT ![vault[t]].rows =
                     [f \in DOMAIN @ \union {fake} |->
                        IF f = fake THEN [real |-> Real(t), secret |-> Real(t) \in Secrets]
                        ELSE @[f]]]
    /\ Put(t, fake)
    /\ UNCHANGED <<sid, vault, prompt, reply>>

\* ... a surrogate that is not the value and not taken gets a row ...
Insert(t, fake) ==
    /\ Mine(t)
    /\ fake # Real(t) /\ fake \notin DOMAIN Rows(t)
    /\ vaults' = [vaults EXCEPT ![vault[t]].rows =
                     [f \in DOMAIN @ \union {fake} |->
                        IF f = fake THEN [real |-> Real(t), secret |-> Real(t) \in Secrets]
                        ELSE @[f]]]
    /\ Put(t, fake)
    /\ UNCHANGED <<sid, vault, prompt, reply>>

Unusable(t, fake) == IF fake \in DOMAIN Rows(t) THEN Rows(t)[fake].real # Real(t)
                     ELSE fake = Real(t)

\* ... another one is drawn otherwise, ...
TryAgain(t, fake) ==
    /\ Mine(t) /\ Unusable(t, fake) /\ tries[t] + 1 < Attempts
    /\ pc' = [pc EXCEPT ![t] = "replace"]
    /\ tries' = [tries EXCEPT ![t] = @ + 1]
    /\ UNCHANGED <<vaults, sid, vault, prompt, todo, out, reply>>

\* ... and the call fails at the last attempt, or in a thread that did not make the
\* connection.
Raise(t, fake) ==
    /\ ~Mine(t) \/ (Unusable(t, fake) /\ tries[t] + 1 = Attempts)
    /\ Return(t)
    /\ UNCHANGED vaults

Settle(t, fake) == \/ Reuse(t, fake)
                   \/ Insert(t, fake)
                   \/ TryAgain(t, fake)
                   \/ Raise(t, fake)

ReplaceSecret(t) ==
    /\ pc[t] = "replace" /\ todo[t] # {} /\ Real(t) \notin People
    /\ Settle(t, FakeSecret(Seed(t)[1], Seed(t)[2], Seed(t)[3]))
    /\ UNCHANGED <<key, faker, sessions, issued, calls, history>>

\* fake_person seeds the Faker of the process ...
SeedFaker(t) ==
    /\ Go(t, "replace", "seeded")
    /\ todo[t] # {} /\ Real(t) \in People
    /\ faker' = [seed |-> Seed(t), asked |-> 0]
    /\ UNCHANGED <<key, vaults, sessions, issued, calls, sid, vault, prompt, todo, out,
                   tries, reply, history>>

\* ... and asks it for a name, whoever has seeded it by then.
ReplaceName(t) ==
    /\ pc[t] = "seeded"
    /\ faker' = [faker EXCEPT !.asked = @ + 1]
    /\ Settle(t, FakeName(faker.seed, faker.asked))
    /\ UNCHANGED <<key, sessions, issued, calls, history>>

AnswerProtect(t) ==
    /\ pc[t] = "replace" /\ todo[t] = {}
    /\ answers' = answers \union {[id |-> sid[t], prompt |-> prompt[t], out |-> out[t]]}
    /\ Return(t)
    /\ UNCHANGED <<shared, restores>>
--------------------------------------------------------------------------------
(* restore_prompt, process_output.                                             *)

\* The reply quotes what some protect answered.
CallRestore(t) ==
    /\ calls < MaxCalls
    /\ calls' = calls + 1
    /\ Go(t, "idle", "known")
    /\ \E s \in Known \union Strangers : sid' = [sid EXCEPT ![t] = s]
    /\ \E a \in answers : reply' = [reply EXCEPT ![t] = a]
    /\ UNCHANGED <<key, faker, vaults, sessions, issued, vault, prompt, todo, out, tries,
                   history>>

FindSession(t) ==
    /\ Go(t, "known", "restore")
    /\ sessions[sid[t]] # 0
    /\ vault' = [vault EXCEPT ![t] = sessions[sid[t]]]
    /\ UNCHANGED <<shared, sid, prompt, todo, out, tries, reply, history>>

\* An unknown session is a KeyError, which the tool answers.
UnknownSession(t) ==
    /\ pc[t] = "known" /\ sessions[sid[t]] = 0
    /\ Return(t)
    /\ UNCHANGED <<shared, history>>

\* Vault.restore: every surrogate in one pass, those of secrets anywhere and others
\* where they stand free.
Restored(rows, text) ==
    [i \in DOMAIN text |->
        IF text[i].word \in DOMAIN rows /\ (rows[text[i].word].secret \/ text[i].free)
        THEN [text[i] EXCEPT !.word = rows[text[i].word].real] ELSE text[i]]

AnswerRestore(t) ==
    /\ pc[t] = "restore" /\ Mine(t)
    /\ restores' = restores \union
                   {[id |-> sid[t], of |-> reply[t],
                     text |-> Restored(vaults[vault[t]].rows, reply[t].out)]}
    /\ Return(t)
    /\ UNCHANGED <<shared, answers>>

\* The connection refuses another thread.
RestoreRaises(t) ==
    /\ pc[t] = "restore" /\ ~Mine(t)
    /\ Return(t)
    /\ UNCHANGED <<shared, history>>

Vault(t) == \/ FindVault(t)
            \/ TestKey(t)
            \/ CreateKey(t)
            \/ CreateFails(t)
            \/ WriteKey(t)
            \/ MakeVault(t)
            \/ RememberVault(t)

Protect(t) == \/ CallProtect(t)
              \/ Vault(t)
              \/ Scan(t)
              \/ ReplaceSecret(t)
              \/ SeedFaker(t)
              \/ ReplaceName(t)
              \/ AnswerProtect(t)

Restore(t) == \/ CallRestore(t)
              \/ FindSession(t)
              \/ UnknownSession(t)
              \/ AnswerRestore(t)
              \/ RestoreRaises(t)

Next == \E t \in Threads : Protect(t) \/ Restore(t)

Spec == Init /\ [][Next]_vars
--------------------------------------------------------------------------------

\* Types of the variables.
TypeOK == /\ key \in {"none", "empty", "whole"}
          /\ \A s \in Ids : sessions[s] \in 0..Len(vaults)
          /\ \A i \in DOMAIN vaults :
                /\ vaults[i].owner \in Threads
                /\ vaults[i].key \in {"empty", "whole"}
                /\ \A f \in DOMAIN vaults[i].rows :
                      vaults[i].rows[f].real \in Secrets \union People
          /\ \A t \in Threads : /\ vault[t] \in 0..Len(vaults)
                                /\ todo[t] \subseteq DOMAIN out[t]
                                /\ tries[t] \in 0..Attempts - 1
          /\ issued \in 0..Len(Uuids) /\ calls \in 0..MaxCalls

\* A text that holds no surrogate of its session of its own accord.
Plain(p, rows) == \A i \in DOMAIN p.text \ Spans(p) : p.text[i].word \notin DOMAIN rows

\* "call lakanvault_restore on the model reply with the same session_id": what restore
\* answers to the text protect gave out is the text it was given, whatever else the
\* session has protected in between, however its surrogates collided, and whatever
\* other threads did to the Faker.
RoundTrip ==
    \A r \in restores :
        r.id = r.of.id /\ Plain(r.of.prompt, vaults[sessions[r.id]].rows)
            => r.text = r.of.prompt.text

\* A secret keeps its surrogate: "same value + same key always gives the same fake"
\* (helper.py:20), so that the model reads one name for one secret in all prompts of
\* a session, also when a surrogate was taken at the first attempt.
SecretKeepsSurrogate ==
    \A a, b \in answers : a.id = b.id =>
        \A i \in DOMAIN a.out, j \in DOMAIN b.out :
            /\ i \in Spans(a.prompt) /\ j \in Spans(b.prompt)
            /\ a.prompt.text[i].word = b.prompt.text[j].word
            /\ a.prompt.text[i].word \in Secrets
            => a.out[i].word = b.out[j].word
=============================================================================
