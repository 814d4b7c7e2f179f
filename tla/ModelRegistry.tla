------------------------------ MODULE ModelRegistry ------------------------------
(* The registry of trusted model hashes (local_core/integrity/registry.py) under  *)
(* the /api/integrity endpoints (app/server.py).  Requests of threadpool threads   *)
(* hash the files of the models directory, move a model into quarantine, and pin   *)
(* baselines in baselines.json, while others put files there and change them.      *)
(* Nothing of this is locked.                                                      *)
EXTENDS Naturals, Sequences, Functions

CONSTANTS
    Scanners,   \* GET /api/integrity/scan, one request each
    Ejecters,   \* POST /api/integrity/eject
    Pinners,    \* POST /api/integrity/baseline
    Model(_),   \* the model_name of an eject or baseline request
    Sha(_),     \* its sha256_hex, Current if the request leaves it out
    Current,
    Names,      \* names of model files, in the order of the directory
    Hashes,
    AtStart,    \* the files at the start: name -> hash
    MaxChanges, \* bound on how often others put or change a file
    MaxClock    \* bound on the seconds of the clock

Requests == Scanners \union Ejecters \union Pinners

ASSUME RegistryAssumption == /\ Names \in Seq(STRING)
                             /\ IsInjective(Names)
                             /\ Current \notin Hashes
                             /\ Scanners \intersect (Ejecters \union Pinners) = {}
                             /\ Ejecters \intersect Pinners = {}
                             /\ MaxChanges \in Nat /\ MaxClock \in Nat

VARIABLES
    models,     \* the models directory: name -> hash of its bytes
    baselines,  \* what baselines.json says: name -> hash
    readable,   \* does baselines.json parse?  (not while it is being rewritten)
    quarantine, \* the quarantine directory: <<second, name>> -> hash
    clock,      \* the second of datetime.now()
    changes,    \* how often others have touched a file
    pc,         \* pc[r]: where request r stands
    loaded,     \* loaded[r]: the baselines r has read
    todo,       \* todo[r]: the files r has still to hash
    hash,       \* hash[r]: the hash r has just computed
    entries,    \* entries[r]: the ModelEntry of each file r has passed
    dest,       \* dest[r]: where r moves its model
    \* history
    asked,      \* the <<name, hash>> that requests asked to trust
    promised,   \* name -> hash of the pins that have been answered
    due,        \* due[r]: those of them that scan r has to know
    moved,      \* the ejections: [to, bytes]
    clash       \* has a reader of baselines.json met a writer?

files == <<models, baselines, readable, quarantine, clock, changes>>
calls == <<pc, loaded, todo, hash, entries, dest>>
history == <<asked, promised, due, moved, clash>>
vars == <<files, calls, history>>

Nothing == [n \in {} |-> Current]
With(f, n, h) == [x \in DOMAIN f \union {n} |-> IF x = n THEN h ELSE f[x]]
Without(f, n) == [x \in DOMAIN f \ {n} |-> f[x]]

Init == /\ models = AtStart
        /\ baselines = Nothing
        /\ readable = TRUE
        /\ quarantine = [d \in {} |-> Current]
        /\ clock = 0
        /\ changes = 0
        /\ pc = [r \in Requests |-> "start"]
        /\ loaded = [r \in Requests |-> Nothing]
        /\ todo = [r \in Requests |-> <<>>]
        /\ hash = [r \in Requests |-> Current]
        /\ entries = [r \in Requests |-> [n \in {} |-> [sha |-> Current, status |-> ""]]]
        /\ dest = [r \in Requests |-> <<>>]
        /\ asked = {}
        /\ promised = Nothing
        /\ due = [r \in Scanners |-> Nothing]
        /\ moved = {}
        /\ clash = FALSE

Go(r, from, to) == pc[r] = from /\ pc' = [pc EXCEPT ![r] = to]
--------------------------------------------------------------------------------
(* scan(): the baselines are read once, then file after file is hashed.        *)

\* _load_baselines: a file that does not parse counts as one without baselines.
Loaded == IF readable THEN baselines ELSE Nothing

Rewriting == \E p \in Pinners : pc[p] \in {"truncate", "write", "overwrite"}

StartScan(r) ==
    /\ Go(r, "start", "list")
    /\ loaded' = [loaded EXCEPT ![r] = Loaded]
    /\ due' = [due EXCEPT ![r] = promised]
    /\ clash' = (clash \/ ~readable)
    /\ UNCHANGED <<files, todo, hash, entries, dest, asked, promised, moved>>

\* A baseline request that names no hash scans, to pin the hash of the moment.
StartPinCurrent(r) ==
    /\ Sha(r) = Current
    /\ Go(r, "start", "list")
    /\ loaded' = [loaded EXCEPT ![r] = Loaded]
    /\ UNCHANGED <<files, todo, hash, entries, dest, history>>

ListDirectory(r) ==
    /\ Go(r, "list", "hash")
    /\ todo' = [todo EXCEPT ![r] = SelectSeq(Names, LAMBDA n : n \in DOMAIN models)]
    /\ UNCHANGED <<files, loaded, hash, entries, dest, history>>

\* A file that is gone by now is passed over, ...
SkipFile(r) ==
    /\ pc[r] = "hash" /\ todo[r] # <<>>
    /\ Head(todo[r]) \notin DOMAIN models
    /\ todo' = [todo EXCEPT ![r] = Tail(@)]
    /\ UNCHANGED <<files, pc, loaded, hash, entries, dest, history>>

HashFile(r) ==
    /\ todo[r] # <<>>
    /\ Head(todo[r]) \in DOMAIN models
    /\ Go(r, "hash", "stat")
    /\ hash' = [hash EXCEPT ![r] = models[Head(todo[r])]]
    /\ asked' = IF r \in Pinners /\ Head(todo[r]) = Model(r)
                THEN asked \union {<<Model(r), hash'[r]>>} ELSE asked
    /\ UNCHANGED <<files, loaded, todo, entries, dest, promised, due, moved, clash>>

\* a registry that trusts what it has no baseline for
StatusOrTrust(base, n, h) ==
    IF n \notin DOMAIN base \/ base[n] = h THEN "TRUSTED" ELSE "POISONED"

Status(base, n, h) == CASE n \notin DOMAIN base -> "UNVERIFIED"
                        [] n \in DOMAIN base /\ base[n] = h -> "TRUSTED"
                        [] n \in DOMAIN base /\ base[n] # h -> "POISONED"

StatFile(r) ==
    LET n == Head(todo[r]) IN
    /\ Go(r, "stat", "hash")
    /\ n \in DOMAIN models
    /\ entries' = [entries EXCEPT ![r] =
                      With(@, n, [sha |-> hash[r],
                                  status |-> Status(loaded[r], n, hash[r])])]
    /\ todo' = [todo EXCEPT ![r] = Tail(@)]
    /\ UNCHANGED <<files, loaded, hash, dest, history>>

\* ... but one that goes between its hash and its stat() fails the whole scan.
StatFails(r) ==
    /\ Go(r, "stat", "failed")
    /\ Head(todo[r]) \notin DOMAIN models
    /\ UNCHANGED <<files, loaded, todo, hash, entries, dest, history>>

EndScan(r) ==
    /\ todo[r] = <<>>
    /\ Go(r, "hash", IF r \in Scanners THEN "done"
                     ELSE IF Model(r) \in DOMAIN entries[r] THEN "read" ELSE "failed")
    /\ UNCHANGED <<files, loaded, todo, hash, entries, dest, history>>
--------------------------------------------------------------------------------
(* set_baseline(): read all, change one, empty the file, write all.            *)

StartPin(r) ==
    /\ Sha(r) # Current
    /\ Go(r, "start", "read")
    /\ asked' = asked \union {<<Model(r), Sha(r)>>}
    /\ UNCHANGED <<files, loaded, todo, hash, entries, dest, promised, due, moved,
                   clash>>

ReadBaselines(r) ==
    /\ Go(r, "read", "truncate")
    /\ loaded' = [loaded EXCEPT ![r] = Loaded]
    /\ promised' = Without(promised, Model(r))
    /\ due' = [s \in Scanners |-> Without(due[s], Model(r))]
    /\ clash' = (clash \/ Rewriting)
    /\ UNCHANGED <<files, todo, hash, entries, dest, asked, moved>>

Truncate(r) ==
    /\ Go(r, "truncate", "write")
    /\ readable' = FALSE
    /\ UNCHANGED <<models, baselines, quarantine, clock, changes, loaded, todo, hash,
                   entries, dest, history>>

Pinned(r) == IF Sha(r) = Current THEN entries[r][Model(r)].sha ELSE Sha(r)

\* baselines.json with the one line only
WrittenAlone(r) == With(Nothing, Model(r), Pinned(r))

Written(r) == With(loaded[r], Model(r), Pinned(r))

\* Who writes after another one has written into the same emptied file may leave
\* a mixture of both.
Write(r) ==
    /\ pc[r] \in {"write", "overwrite"}
    /\ pc' = [p \in Requests |-> IF p = r THEN "done"
                                 ELSE IF pc[p] = "write" THEN "overwrite" ELSE pc[p]]
    /\ baselines' = Written(r)
    /\ readable' \in IF pc[r] = "write" THEN {TRUE} ELSE BOOLEAN
    /\ promised' = With(promised, Model(r), Pinned(r))
    /\ UNCHANGED <<models, quarantine, clock, changes, loaded, todo, hash, entries,
                   dest, asked, due, moved, clash>>
--------------------------------------------------------------------------------
(* quarantine(): test, choose a name by the second, move, log.                 *)

Dest(r) == <<clock, Model(r)>>

StartEject(r) ==
    /\ Go(r, "start", IF Model(r) \in DOMAIN models THEN "move" ELSE "failed")
    /\ dest' = [dest EXCEPT ![r] = Dest(r)]
    /\ UNCHANGED <<files, loaded, todo, hash, entries, history>>

\* A rename replaces what has the name already.
Move(r) ==
    /\ Model(r) \in DOMAIN models
    /\ Go(r, "move", "log")
    /\ models' = Without(models, Model(r))
    /\ quarantine' = With(quarantine, dest[r], models[Model(r)])
    /\ moved' = moved \union {[by |-> r, to |-> dest[r], bytes |-> models[Model(r)]]}
    /\ UNCHANGED <<baselines, readable, clock, changes, loaded, todo, hash, entries,
                   dest, asked, promised, due, clash>>

MoveFails(r) ==
    /\ Model(r) \notin DOMAIN models
    /\ Go(r, "move", "failed")
    /\ UNCHANGED <<files, loaded, todo, hash, entries, dest, history>>

LogEjection(r) ==
    /\ Go(r, "log", "done")
    /\ UNCHANGED <<files, loaded, todo, hash, entries, dest, history>>
--------------------------------------------------------------------------------
(* Others: time passes; a file is changed, or put there.                       *)

Tick == /\ clock < MaxClock
        /\ clock' = clock + 1
        /\ UNCHANGED <<models, baselines, readable, quarantine, changes, calls, history>>

ChangeFile == /\ changes < MaxChanges
              /\ changes' = changes + 1
              /\ \E n \in DOMAIN models : \E h \in Hashes \ {models[n]} :
                    models' = With(models, n, h)
              /\ UNCHANGED <<baselines, readable, quarantine, clock, calls, history>>

PutFile == /\ changes < MaxChanges
           /\ changes' = changes + 1
           /\ \E n \in Range(Names) \ DOMAIN models : \E h \in Hashes :
                 models' = With(models, n, h)
           /\ UNCHANGED <<baselines, readable, quarantine, clock, calls, history>>

Scan(r) == \/ ListDirectory(r)
           \/ SkipFile(r)
           \/ HashFile(r)
           \/ StatFile(r)
           \/ StatFails(r)
           \/ EndScan(r)

Pin(r) == \/ StartPin(r)
          \/ StartPinCurrent(r)
          \/ Scan(r)
          \/ ReadBaselines(r)
          \/ Truncate(r)
          \/ Write(r)

Eject(r) == \/ StartEject(r)
            \/ Move(r)
            \/ MoveFails(r)
            \/ LogEjection(r)

Next == \/ \E r \in Scanners : StartScan(r) \/ Scan(r)
        \/ \E r \in Pinners : Pin(r)
        \/ \E r \in Ejecters : Eject(r)
        \/ Tick
        \/ ChangeFile
        \/ PutFile

Spec == Init /\ [][Next]_vars
--------------------------------------------------------------------------------

\* Nothing is reported TRUSTED that nobody asked to trust: ADR-003 "Fail closed -
\* don't mark verified", however the scan meets half-written baselines, files that
\* change under it and pins in progress.
TrustedWasPinned ==
    \A r \in Requests : \A n \in DOMAIN entries[r] :
        entries[r][n].status = "TRUSTED" => <<n, entries[r][n].sha>> \in asked

\* What a scan says of a file whose pin had been answered when the scan came in:
\* it is TRUSTED or POISONED by that very baseline.
Knows(r) ==
    \A n \in DOMAIN due[r] \intersect DOMAIN entries[r] :
        entries[r][n].status = IF entries[r][n].sha = due[r][n] THEN "TRUSTED" ELSE "POISONED"

\* "A model whose live hash doesn't match its recorded baseline is flagged POISONED"
\* (registry.py:4): a pin that has been answered is known to every later scan, though
\* files are changed, moved and put back under it - as long as no request reads
\* baselines.json while another one rewrites it.
PinsAreKnown == clash \/ \A r \in Scanners : Knows(r)

\* The same without the exception: a model whose hash is not the one of its baseline is
\* flagged POISONED, however many baselines are recorded at a time.
PinsAreAlwaysKnown == \A r \in Scanners : Knows(r)

\* "can be quarantined (moved to data/quarantine/, removed from the active models
\* directory)" (registry.py:5): the bytes of every ejected model are in quarantine under
\* the name its record gives, also when a model of that name is put back and ejected again.
EjectedIsKept == \A m \in moved : /\ m.to \in DOMAIN quarantine
                                  /\ quarantine[m.to] = m.bytes
=============================================================================
