------------------------------- MODULE VaultRows -------------------------------
(* The `tokens` table of InMemoryTokenVault and what each SQL statement does to *)
(* it.  A table is a function from tokens (the PRIMARY KEY) to rows; created_at *)
(* is never read and is left out, value_bytes is a function of the value.  The *)
(* operators have no state: TokenVault and ProxyGateway both keep a table.     *)
EXTENDS Integers, FiniteSets, FiniteSetsExt, Functions

CONSTANTS
    Tokens,       \* opaque tokens the generator can produce
    Values,       \* raw spans a caller may want replaced
    RequestIds,   \* request ids callers pass
    ValueBytes,   \* UTF-8 size of a value
    MaxEntries,   \* max_entries
    MaxBytes      \* max_bytes

ASSUME CapAssumption ==
    /\ MaxEntries \in Nat
    /\ MaxBytes \in Nat
    /\ ValueBytes \in [Values -> Nat]

Row == [value : Values, rid : RequestIds, expires : Int]

\* A table with at most one row per token.
IsTable(rows) == /\ DOMAIN rows \subseteq Tokens
                 /\ \A tk \in DOMAIN rows : rows[tk] \in Row

EmptyTable == [tk \in {} |-> 0]

--------------------------------------------------------------------------------
(* Faults a maintainer could plausibly introduce; the runs show that the       *)
(* properties notice each of them.                                             *)

\* a cleanup that forgets the expiry column
CleanupDropsYoung(rows, now) ==
    Restrict(rows, {tk \in DOMAIN rows : rows[tk].expires > now + 1})

\* a cap that counts the rows before the insertion instead of after it
RoomOffByOne(rows, v) == /\ Cardinality(DOMAIN rows) <= MaxEntries
                         /\ Cardinality(UNION {{tk} \X (1..ValueBytes[rows[tk].value]) :
                                                  tk \in DOMAIN rows})
                               + ValueBytes[v] <= MaxBytes

\* a reuse that looks the value up without its request id
HolderIgnoresRequest(rows, r, v) == {tk \in DOMAIN rows : rows[tk].value = v}

\* an INSERT whose columns value and request_id are swapped
InsertSwapped(rows, tk, r, v, e) ==
    [x \in DOMAIN rows \union {tk} |->
        IF x = tk THEN [value |-> r, rid |-> v, expires |-> e] ELSE rows[x]]

\* a mint that never looks the value up
HoldersNeverFound(rows, r, v) == {}

\* an ON CONFLICT REPLACE insertion: any generated token is taken
InsertableIgnoresKey(rows, r, v) == Tokens

\* a deletion that keeps the rows of the request and drops the others
DropOtherRequests(rows, r) == Restrict(rows, {tk \in DOMAIN rows : rows[tk].rid = r})

--------------------------------------------------------------------------------

\* DELETE FROM tokens WHERE expires_at <= now
CleanupExpired(rows, now) ==
    Restrict(rows, {tk \in DOMAIN rows : rows[tk].expires > now})

\* SELECT token FROM tokens WHERE request_id = r AND value = v
Holders(rows, r, v) ==
    {tk \in DOMAIN rows : rows[tk].rid = r /\ rows[tk].value = v}

\* UPDATE tokens SET expires_at = e WHERE token = tk
Refresh(rows, tk, e) == [rows EXCEPT ![tk].expires = e]

\* SELECT SUM(value_bytes): the bytes of all rows, counted
Bytes(rows) == UNION {{tk} \X (1..ValueBytes[rows[tk].value]) : tk \in DOMAIN rows}
TotalBytes(rows) == Cardinality(Bytes(rows))

\* the negation of the condition that raises VaultCapacityError
HasRoom(rows, v) == /\ Cardinality(DOMAIN rows) + 1 <= MaxEntries
                    /\ TotalBytes(rows) + ValueBytes[v] <= MaxBytes

\* generated tokens that the PRIMARY KEY and the unique index on (request_id,
\* value) accept; inserting any other one raises IntegrityError
Insertable(rows, r, v) ==
    {tk \in Tokens \ DOMAIN rows : Holders(rows, r, v) = {}}

Insert(rows, tk, r, v, e) ==
    [x \in DOMAIN rows \union {tk} |->
        IF x = tk THEN [value |-> v, rid |-> r, expires |-> e] ELSE rows[x]]

\* DELETE FROM tokens WHERE token = tk
DropToken(rows, tk) == Restrict(rows, DOMAIN rows \ {tk})

\* DELETE FROM tokens WHERE request_id = r
DropRequest(rows, r) == Restrict(rows, {tk \in DOMAIN rows : rows[tk].rid # r})

\* max(float(ttl_seconds), 0.0) added to the time of the call
ExpiryOf(now, ttl) == now + (IF ttl > 0 THEN ttl ELSE 0)
=============================================================================
