-------------------------------- MODULE TokenMap --------------------------------
(* What TokenVaultPort promises: a bounded map from opaque tokens to the raw    *)
(* values of requests.  An entry keeps its value and its owner for as long as   *)
(* it lives, an owner has at most one live token per value, and an entry leaves *)
(* only when its time is over, when its owner is deleted or when the map is     *)
(* closed.  How and when the vault computes the time is not said here.          *)
EXTENDS Integers, FiniteSets

CONSTANTS Tokens, Values, RequestIds, MaxEntries

VARIABLES entries,   \* partial function: token -> [value, rid, expires]
          clock,     \* the wall clock
          open       \* FALSE once the map is closed

vars == <<entries, clock, open>>

Entry == [value : Values, rid : RequestIds, expires : Int]

Init == /\ entries = [tk \in {} |-> 0]
        /\ clock = 0
        /\ open = TRUE

Expired == {tk \in DOMAIN entries : entries[tk].expires <= clock}

Only(m, S) == [tk \in DOMAIN m \intersect S |-> m[tk]]

Pass == /\ clock' = clock + 1
        /\ UNCHANGED <<entries, open>>

\* Entries whose time is over may go at any moment.
Forget(gone) == /\ gone \subseteq Expired
                /\ entries' = Only(entries, DOMAIN entries \ gone)
                /\ UNCHANGED <<clock, open>>

\* A live value of an owner keeps its token; only the expiry is new.
Reuse(gone, tk) ==
    /\ open
    /\ gone \subseteq Expired
    /\ tk \in DOMAIN entries \ gone
    /\ DOMAIN entries' = DOMAIN entries \ gone
    /\ \A x \in DOMAIN entries' \ {tk} : entries'[x] = entries[x]
    /\ entries'[tk] \in Entry
    /\ entries'[tk].value = entries[tk].value
    /\ entries'[tk].rid = entries[tk].rid
    /\ UNCHANGED <<clock, open>>

\* A value its owner has no token for gets one that names nothing else.
Fresh(gone, tk) ==
    LET kept == DOMAIN entries \ gone IN
    /\ open
    /\ gone \subseteq Expired
    /\ tk \notin kept
    /\ Cardinality(kept) < MaxEntries
    /\ DOMAIN entries' = kept \union {tk}
    /\ \A x \in kept : entries'[x] = entries[x]
    /\ entries'[tk] \in Entry
    /\ \A x \in kept : ~(entries[x].value = entries'[tk].value
                         /\ entries[x].rid = entries'[tk].rid)
    /\ UNCHANGED <<clock, open>>

DeleteOwner(r) ==
    /\ entries' = Only(entries, {tk \in DOMAIN entries : entries[tk].rid # r})
    /\ UNCHANGED <<clock, open>>

Wipe == /\ entries' = [tk \in {} |-> 0]
        /\ open' = FALSE
        /\ UNCHANGED clock

Next == \/ Pass
        \/ \E gone \in SUBSET DOMAIN entries : Forget(gone)
        \/ \E gone \in SUBSET DOMAIN entries, tk \in Tokens :
              Reuse(gone, tk) \/ Fresh(gone, tk)
        \/ \E r \in RequestIds : DeleteOwner(r)
        \/ Wipe

Spec == Init /\ [][Next]_vars
=============================================================================
