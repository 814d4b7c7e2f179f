------------------------------- MODULE TokenVault -------------------------------
(* InMemoryTokenVault (infrastructure/token_vault.py) under concurrent callers. *)
(* mint and get read the wall clock BEFORE they take the lock, so a call is two *)
(* steps: it starts (the clock is read, the expiry computed) and it runs (the   *)
(* whole body under the RLock, one atomic step).  Between the two the clock may *)
(* pass and other callers may run.                                              *)
EXTENDS VaultRows

CONSTANTS
    Threads,    \* concurrent callers (executor and threadpool threads)
    MintsFor,   \* MintsFor[t]: the request ids thread t mints for
    Ttls,       \* ttl_seconds the callers pass
    MaxClock    \* bound of the model on the clock

ASSUME ThreadAssumption == /\ MintsFor \in [Threads -> SUBSET RequestIds]
                           /\ Ttls \subseteq Int
                           /\ MaxClock \in Nat

VARIABLES
    rows,       \* the tokens table
    open,       \* FALSE once close() has run
    clock,      \* time.time(), in units of the model
    call,       \* call[t]: what thread t is doing
    last,       \* the answer of the call that returned last
    promised    \* token -> the expiry its last mint announced, until it is due

vars == <<rows, open, clock, call, last, promised>>

NoCall == [op |-> "none"]

MintCall == [op : {"mint"}, value : Values, rid : RequestIds,
             now : Int, expires : Int]
GetCall  == [op : {"get"}, token : Tokens, now : Int]

\* Answers: a token, a value, None or the name of the exception raised.
Nothing == [kind |-> "none"]
MintAnswer == [kind : {"minted"}, token : Tokens, value : Values, rid : RequestIds]
GetAnswer == [kind : {"found"}, token : Tokens, value : Values]
             \union [kind : {"missing"}, token : Tokens]
Raised == [kind : {"VaultCapacityError", "RuntimeError", "ProgrammingError"}]

\* Types of the variables.
TypeOK == /\ IsTable(rows)
          /\ open \in BOOLEAN
          /\ clock \in Nat
          /\ call \in [Threads -> {NoCall} \union MintCall \union GetCall]
          /\ \A t \in Threads : call[t] # NoCall => call[t].now <= clock
          /\ last \in {Nothing} \union MintAnswer \union GetAnswer \union Raised
          /\ DOMAIN promised \subseteq Tokens
          /\ \A tk \in DOMAIN promised : promised[tk] \in Int

Init == /\ rows = EmptyTable
        /\ open = TRUE
        /\ clock = 0
        /\ call = [t \in Threads |-> NoCall]
        /\ last = Nothing
        /\ promised = EmptyTable

--------------------------------------------------------------------------------

\* Promises that are not due; the ones of rows a caller removed are withdrawn.
Undue(p, now) == Restrict(p, {tk \in DOMAIN p : p[tk] > now})
Surviving(p, table) == Restrict(p, DOMAIN p \intersect DOMAIN table)
Announce(p, tk, e) ==
    Undue([x \in DOMAIN p \union {tk} |-> IF x = tk THEN e ELSE p[x]], clock)

Return(t, answer) == /\ call' = [call EXCEPT ![t] = NoCall]
                     /\ last' = answer

\* The wall clock passes.
Tick == /\ clock < MaxClock
        /\ clock' = clock + 1
        /\ promised' = Undue(promised, clock + 1)
        /\ UNCHANGED <<rows, open, call, last>>

\* mint(): `now` and `expires` are computed outside the lock.
StartMint(t, v, r, ttl) ==
    /\ call[t] = NoCall
    /\ r \in MintsFor[t]
    /\ call' = [call EXCEPT ![t] =
                   [op |-> "mint", value |-> v, rid |-> r, now |-> clock,
                    expires |-> ExpiryOf(clock, ttl)]]
    /\ UNCHANGED <<rows, open, clock, last, promised>>

Minting(t) == call[t] \in MintCall /\ open
Kept(t) == CleanupExpired(rows, call[t].now)
OwnHolders(t) == Holders(Kept(t), call[t].rid, call[t].value)

Minted(t, tk) == [kind |-> "minted", token |-> tk,
                  value |-> call[t].value, rid |-> call[t].rid]

\* mint() under the lock finds the value: same token, new expiry.
MintReuses(t) ==
    /\ Minting(t)
    /\ \E tk \in OwnHolders(t) :
          /\ rows' = Refresh(Kept(t), tk, call[t].expires)
          /\ promised' = Announce(promised, tk, call[t].expires)
          /\ Return(t, Minted(t, tk))
    /\ UNCHANGED <<open, clock>>

\* mint() under the lock inserts; up to five generated tokens are tried, so the
\* one that stays is any token the PRIMARY KEY accepts.
MintInserts(t) ==
    /\ Minting(t)
    /\ OwnHolders(t) = {}
    /\ HasRoom(Kept(t), call[t].value)
    /\ \E tk \in Insertable(Kept(t), call[t].rid, call[t].value) :
          /\ rows' = Insert(Kept(t), tk, call[t].rid, call[t].value, call[t].expires)
          /\ promised' = Announce(promised, tk, call[t].expires)
          /\ Return(t, Minted(t, tk))
    /\ UNCHANGED <<open, clock>>

\* The cap is reached after the cleanup (which is committed).
MintOverCap(t) ==
    /\ Minting(t)
    /\ OwnHolders(t) = {}
    /\ ~HasRoom(Kept(t), call[t].value)
    /\ rows' = Kept(t)
    /\ Return(t, [kind |-> "VaultCapacityError"])
    /\ UNCHANGED <<open, clock, promised>>

\* Five generated tokens in a row are already keys of the table.
MintCollides(t) ==
    /\ Minting(t)
    /\ OwnHolders(t) = {}
    /\ HasRoom(Kept(t), call[t].value)
    /\ DOMAIN Kept(t) # {}
    /\ rows' = Kept(t)
    /\ Return(t, [kind |-> "RuntimeError"])
    /\ UNCHANGED <<open, clock, promised>>

\* get(): `now` is read outside the lock.
StartGet(t, tk) ==
    /\ call[t] = NoCall
    /\ call' = [call EXCEPT ![t] = [op |-> "get", token |-> tk, now |-> clock]]
    /\ UNCHANGED <<rows, open, clock, last, promised>>

Getting(t) == call[t] \in GetCall /\ open

GetFinds(t) ==
    LET tk == call[t].token IN
    /\ Getting(t)
    /\ tk \in DOMAIN rows
    /\ rows[tk].expires > call[t].now
    /\ Return(t, [kind |-> "found", token |-> tk, value |-> rows[tk].value])
    /\ UNCHANGED <<rows, open, clock, promised>>

\* No row, or an expired one, which get() deletes.
GetMisses(t) ==
    LET tk == call[t].token IN
    /\ Getting(t)
    /\ tk \in DOMAIN rows => rows[tk].expires <= call[t].now
    /\ rows' = DropToken(rows, tk)
    /\ Return(t, [kind |-> "missing", token |-> tk])
    /\ UNCHANGED <<open, clock, promised>>

\* Every statement on the closed connection raises.
CallOnClosed(t) ==
    /\ ~open
    /\ call[t] # NoCall
    /\ Return(t, [kind |-> "ProgrammingError"])
    /\ UNCHANGED <<rows, open, clock, promised>>

DeleteRequest(r) ==
    /\ open
    /\ rows' = DropRequest(rows, r)
    /\ promised' = Surviving(promised, rows')
    /\ UNCHANGED <<open, clock, call, last>>

\* cleanup_expired() reads the clock under the lock.
Cleanup ==
    /\ open
    /\ rows' = CleanupExpired(rows, clock)
    /\ UNCHANGED <<open, clock, call, last, promised>>

Close ==
    /\ open
    /\ rows' = EmptyTable
    /\ open' = FALSE
    /\ promised' = EmptyTable
    /\ UNCHANGED <<clock, call, last>>

Step(t) == \/ \E v \in Values, r \in RequestIds, ttl \in Ttls : StartMint(t, v, r, ttl)
           \/ MintReuses(t)
           \/ MintInserts(t)
           \/ MintOverCap(t)
           \/ MintCollides(t)
           \/ \E tk \in Tokens : StartGet(t, tk)
           \/ GetFinds(t)
           \/ GetMisses(t)
           \/ CallOnClosed(t)

Next == \/ \E t \in Threads : Step(t)
        \/ \E r \in RequestIds : DeleteRequest(r)
        \/ Tick
        \/ Cleanup
        \/ Close

Spec == Init /\ [][Next]_vars
--------------------------------------------------------------------------------

\* What _enforce_cap_unlocked is for: after any interleaving of mints the table
\* holds at most max_entries rows and at most max_bytes bytes of raw values.
WithinCap == /\ Cardinality(DOMAIN rows) <= MaxEntries
             /\ TotalBytes(rows) <= MaxBytes

\* A token handed out by mint stays restorable until the expiry that mint
\* announced: nothing that other calls do (their cleanups with older or newer
\* clocks, their expirations on get, their insertions) takes it away earlier.
\* It is withdrawn only by delete_request and close.
PromiseKept ==
    \A tk \in DOMAIN promised :
        /\ tk \in DOMAIN rows
        /\ rows[tk].expires >= promised[tk]

\* mint's contract "same request+value reuses the token" seen from outside: while
\* a (request, value) has a token whose promise is not due, whatever mint answers
\* for it is that token, and it is never refused for capacity or collision.
SameTokenStep ==
    \A t \in Threads, tk \in DOMAIN promised :
        (/\ call[t] \in MintCall
         /\ call'[t] = NoCall
         /\ open
         /\ rows[tk].rid = call[t].rid
         /\ rows[tk].value = call[t].value)
        => last' = Minted(t, tk)
SameTokenAgain == [][SameTokenStep]_vars

\* No answer mixes requests up: a token that mint returns stands, from that moment
\* on, for the value and the request it was asked for, and get answers with the
\* value of the very row it found alive.
OwnAnswerStep ==
    \A t \in Threads :
        call[t] # NoCall /\ call'[t] = NoCall =>
            /\ last'.kind = "minted" =>
                  /\ last'.token \in DOMAIN rows'
                  /\ rows'[last'.token].value = call[t].value
                  /\ rows'[last'.token].rid = call[t].rid
            /\ last'.kind = "found" =>
                  /\ last'.token = call[t].token
                  /\ rows[call[t].token].value = last'.value
AnswersOwn == [][OwnAnswerStep]_vars

\* The vault implements the map TokenVaultPort promises.
Map == INSTANCE TokenMap WITH entries <- rows
ImplementsMap == Map!Spec
=============================================================================
