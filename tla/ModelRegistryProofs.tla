-------------------------- MODULE ModelRegistryProofs --------------------------
(* Theorems about ModelRegistry, for any number of requests, of files and of      *)
(* hashes, and any number of changes others make.                                 *)
EXTENDS ModelRegistry, TLAPS

--------------------------------------------------------------------------------
(* The inductive invariants.                                                   *)

\* The shape of what the requests keep.
Shapes == /\ pc = [r \in Requests |-> pc[r]]
          /\ loaded = [r \in Requests |-> loaded[r]]
          /\ todo = [r \in Requests |-> todo[r]]
          /\ hash = [r \in Requests |-> hash[r]]
          /\ entries = [r \in Requests |-> entries[r]]
          /\ dest = [r \in Requests |-> dest[r]]
          /\ due = [r \in Scanners |-> due[r]]
          /\ clock \in Nat

\* What a map says has been asked for.
AreAsked(f) == \A n \in DOMAIN f : <<n, f[n]>> \in asked

\* Whoever writes a baseline has asked for it, with a hash of its own or with the one
\* it has just computed.
PinnerInv(r) ==
    /\ pc[r] # "start" /\ Sha(r) # Current => <<Model(r), Sha(r)>> \in asked
    /\ pc[r] = "stat" /\ Head(todo[r]) = Model(r) => <<Model(r), hash[r]>> \in asked
    /\ Model(r) \in DOMAIN entries[r] => <<Model(r), entries[r][Model(r)].sha>> \in asked
    /\ pc[r] \in {"read", "truncate", "write", "overwrite"} /\ Sha(r) = Current =>
          Model(r) \in DOMAIN entries[r]

\* What is reported as trusted has been asked for.
TrustInv(r) == \A n \in DOMAIN entries[r] :
                  entries[r][n].status = "TRUSTED" => <<n, entries[r][n].sha>> \in asked

RequestInv(r) == AreAsked(loaded[r]) /\ (r \in Pinners => PinnerInv(r)) /\ TrustInv(r)
AskedInv == AreAsked(baselines) /\ \A r \in Requests : RequestInv(r)

\* g says what f says, and maybe more.
Says(g, f, without) ==
    \A n \in DOMAIN f : n \in without \/ (n \in DOMAIN g /\ g[n] = f[n])

\* As long as no reader has met a writer, one pin is written at a time, by somebody who
\* knows the pins that have been answered, and so does the file.
Writing(p) == pc[p] \in {"truncate", "write"}
WriterInv ==
    /\ \A p \in Pinners : pc[p] # "overwrite"
    /\ \A p, q \in Pinners : Writing(p) /\ Writing(q) => p = q
    /\ ~readable => \E p \in Pinners : pc[p] = "write"
    /\ Says(baselines, promised, {})
    /\ \A p \in Pinners : Writing(p) => Says(loaded[p], promised, {Model(p)})

\* A scan has loaded the pins it has to know, and judges by what it has loaded.
ScanInv(r) ==
    /\ pc[r] = "start" => DOMAIN entries[r] = {} /\ DOMAIN due[r] = {}
    /\ Says(loaded[r], due[r], {})
    /\ \A n \in DOMAIN entries[r] :
          entries[r][n].status = Status(loaded[r], n, entries[r][n].sha)

KnownInv == ~clash => WriterInv /\ \A r \in Scanners : ScanInv(r)

--------------------------------------------------------------------------------
(* Requests.                                                                   *)

\* A request is of one kind.
LEMMA Kinds ==
    ASSUME NEW r \in Requests
    PROVE  /\ r \in Scanners => r \notin Ejecters /\ r \notin Pinners
           /\ r \in Ejecters => r \notin Scanners /\ r \notin Pinners
           /\ r \in Pinners => r \notin Scanners /\ r \notin Ejecters
  BY RegistryAssumption DEF Requests

\* The steps of a request.
Hashing(r) == StartPinCurrent(r) \/ Scan(r)
Pinning(r) == StartPin(r) \/ ReadBaselines(r) \/ Truncate(r) \/ Write(r)
Step(r) == \/ r \in Scanners /\ (StartScan(r) \/ Scan(r))
           \/ r \in Pinners /\ (Hashing(r) \/ Pinning(r))
           \/ r \in Ejecters /\ Eject(r)

\* What others keep of theirs; a write may catch them in theirs.
Untouched(u) == /\ pc'[u] = pc[u] \/ (pc[u] = "write" /\ pc'[u] = "overwrite")
                /\ loaded'[u] = loaded[u] /\ todo'[u] = todo[u] /\ hash'[u] = hash[u]
                /\ entries'[u] = entries[u] /\ dest'[u] = dest[u]

\* A request changes only what it keeps itself.
LEMMA OnlyOwn ==
    ASSUME Shapes, NEW r \in Requests, Step(r)
    PROVE  Shapes' /\ \A u \in Requests : u # r => Untouched(u)
<1> USE DEF Shapes, Untouched, Go, history, files
<1>1. CASE StartScan(r) \/ StartPinCurrent(r)
  BY <1>1 DEF StartScan, StartPinCurrent
<1>2. CASE ListDirectory(r) \/ SkipFile(r)
  BY <1>2 DEF ListDirectory, SkipFile
<1>3. CASE HashFile(r)
  BY <1>3 DEF HashFile
<1>4. CASE StatFile(r)
  <2> DEFINE e == With(entries[r], Head(todo[r]),
                       [sha |-> hash[r], status |-> Status(loaded[r], Head(todo[r]), hash[r])])
  <2>1. entries' = [entries EXCEPT ![r] = e]
    BY <1>4 DEF StatFile
  <2> HIDE DEF e
  <2> QED
    BY <1>4, <2>1 DEF StatFile
<1>5. CASE StatFails(r) \/ MoveFails(r) \/ LogEjection(r)
  BY <1>5 DEF StatFails, MoveFails, LogEjection
<1>6. CASE EndScan(r)
  <2> DEFINE to == IF r \in Scanners THEN "done"
                     ELSE IF Model(r) \in DOMAIN entries[r] THEN "read" ELSE "failed"
  <2>1. pc' = [pc EXCEPT ![r] = to]
    BY <1>6 DEF EndScan
  <2> HIDE DEF to
  <2> QED
    BY <1>6, <2>1 DEF EndScan
<1>7. CASE StartPin(r) \/ Truncate(r)
  BY <1>7 DEF StartPin, Truncate
<1>8. CASE ReadBaselines(r)
  BY <1>8 DEF ReadBaselines
<1>9. CASE Write(r)
  BY <1>9 DEF Write
<1>10. CASE StartEject(r)
  BY <1>10 DEF StartEject
<1>11. CASE Move(r)
  BY <1>11 DEF Move
<1> QED
  BY <1>1, <1>2, <1>3, <1>4, <1>5, <1>6, <1>7, <1>8, <1>9, <1>10, <1>11
     DEF Step, Hashing, Pinning, Scan, Eject

--------------------------------------------------------------------------------
(* What is trusted has been asked for.                                         *)

\* A request that is not touched is as it was.
LEMMA RequestKept ==
    ASSUME NEW u \in Requests, RequestInv(u), Untouched(u), asked \subseteq asked'
    PROVE  RequestInv(u)'
<1>1. AreAsked(loaded[u])'
  BY DEF RequestInv, AreAsked, Untouched
<1>2. TrustInv(u)'
  BY DEF RequestInv, TrustInv, Untouched
<1>3. ASSUME u \in Pinners PROVE PinnerInv(u)'
  <2>1. PinnerInv(u)
    BY <1>3 DEF RequestInv
  <2> QED
    BY <2>1 DEF PinnerInv, Untouched
<1> QED
  BY <1>1, <1>2, <1>3 DEF RequestInv

\* The invariant holds at the start.
LEMMA StartsAsked == Init => Shapes /\ AskedInv
<1> SUFFICES ASSUME Init PROVE Shapes /\ AskedInv
  OBVIOUS
<1>1. Shapes
  BY DEF Init, Shapes
<1>2. DOMAIN Nothing = {}
  BY DEF Nothing
<1>3. AreAsked(baselines)
  BY <1>2 DEF Init, AreAsked
<1>4. ASSUME NEW r \in Requests PROVE RequestInv(r)
  <2>1. loaded[r] = Nothing /\ pc[r] = "start" /\ DOMAIN entries[r] = {}
    BY DEF Init
  <2> QED
    BY <1>2, <2>1 DEF RequestInv, AreAsked, PinnerInv, TrustInv
<1> QED
  BY <1>1, <1>3, <1>4 DEF AskedInv

\* What a request loads has been asked for.
LEMMA LoadedAsked == AskedInv => AreAsked(Loaded)
  BY DEF AskedInv, AreAsked, Loaded, Nothing

\* The steps of a request's own that load baselines, or only go on.
LEMMA GoOnAsked ==
    ASSUME Shapes, AskedInv, NEW r \in Requests,
           \/ r \in Scanners /\ StartScan(r)
           \/ r \in Scanners \union Pinners /\ (ListDirectory(r) \/ SkipFile(r) \/ StatFails(r) \/ EndScan(r))
           \/ r \in Pinners /\ (StartPinCurrent(r) \/ ReadBaselines(r) \/ Truncate(r))
           \/ r \in Ejecters /\ Eject(r)
    PROVE  RequestInv(r)' /\ asked' = asked /\ baselines' = baselines
<1>1. RequestInv(r)
  BY DEF AskedInv
<1>2. asked' = asked /\ baselines' = baselines /\ entries' = entries /\ hash' = hash
  BY DEF StartScan, ListDirectory, SkipFile, StatFails, EndScan, StartPinCurrent, ReadBaselines,
         Truncate, Eject, StartEject, Move, MoveFails, LogEjection, files, history
<1>3. loaded'[r] \in {loaded[r], Loaded}
  BY DEF Shapes, StartScan, ListDirectory, SkipFile, StatFails, EndScan, StartPinCurrent,
         ReadBaselines, Truncate, Eject, StartEject, Move, MoveFails, LogEjection
<1>4. AreAsked(loaded[r])'
  <2>1. AreAsked(loaded'[r])
    BY <1>1, <1>3, LoadedAsked DEF RequestInv
  <2> QED
    BY <1>2, <2>1 DEF AreAsked
<1>5. TrustInv(r)'
  BY <1>1, <1>2 DEF RequestInv, TrustInv
<1>6. ASSUME r \in Pinners PROVE PinnerInv(r)'
  <2>1. PinnerInv(r) /\ r \notin Scanners /\ r \notin Ejecters
    BY <1>1, <1>6, Kinds DEF RequestInv
  <2>2. CASE StartPinCurrent(r)
    BY <1>2, <2>1, <2>2 DEF StartPinCurrent, PinnerInv, Shapes, Go
  <2>3. CASE ListDirectory(r) \/ SkipFile(r) \/ StatFails(r)
    BY <1>2, <2>1, <2>3 DEF ListDirectory, SkipFile, StatFails, PinnerInv, Shapes, Go
  <2>4. CASE EndScan(r)
    <3>1. /\ pc'[r] = IF r \in Scanners THEN "done"
                        ELSE IF Model(r) \in DOMAIN entries[r] THEN "read" ELSE "failed"
          /\ pc[r] = "hash"
      BY <2>4 DEF EndScan, Shapes, Go
    <3>2. pc'[r] \in {"read", "failed"} /\ (pc'[r] = "read" => Model(r) \in DOMAIN entries[r])
      BY <2>1, <3>1
    <3> QED
      BY <1>2, <2>1, <3>1, <3>2 DEF PinnerInv
  <2>5. CASE ReadBaselines(r) \/ Truncate(r)
    BY <1>2, <2>1, <2>5 DEF ReadBaselines, Truncate, PinnerInv, Shapes, Go
  <2> QED
    BY <2>1, <2>2, <2>3, <2>4, <2>5
<1> QED
  BY <1>2, <1>4, <1>5, <1>6 DEF RequestInv

\* A hash is computed: whoever wants to pin it has asked for it now.
LEMMA HashAsked ==
    ASSUME Shapes, AskedInv, NEW r \in Requests, HashFile(r)
    PROVE  RequestInv(r)' /\ asked \subseteq asked' /\ baselines' = baselines
<1>1. RequestInv(r)
  BY DEF AskedInv
<1>2. /\ pc[r] = "hash" /\ pc'[r] = "stat" /\ todo' = todo /\ entries' = entries
      /\ loaded' = loaded /\ baselines' = baselines
      /\ asked' = IF r \in Pinners /\ Head(todo[r]) = Model(r)
                  THEN asked \union {<<Model(r), hash'[r]>>} ELSE asked
  BY DEF HashFile, Shapes, Go, files
<1>3. AreAsked(loaded[r])' /\ TrustInv(r)'
  BY <1>1, <1>2 DEF RequestInv, AreAsked, TrustInv
<1>4. ASSUME r \in Pinners PROVE PinnerInv(r)'
  BY <1>1, <1>2, <1>4 DEF RequestInv, PinnerInv
<1> QED
  BY <1>2, <1>3, <1>4 DEF RequestInv

\* A file is entered: it is trusted only if its hash is the baseline that was loaded.
LEMMA StatAsked ==
    ASSUME Shapes, AskedInv, NEW r \in Requests, StatFile(r)
    PROVE  RequestInv(r)' /\ asked' = asked /\ baselines' = baselines
<1> DEFINE n == Head(todo[r])
           e == [sha |-> hash[r], status |-> Status(loaded[r], n, hash[r])]
<1>1. RequestInv(r)
  BY DEF AskedInv
<1>2. /\ pc[r] = "stat" /\ pc'[r] = "hash" /\ loaded' = loaded /\ hash' = hash
      /\ baselines' = baselines /\ asked' = asked
      /\ entries' = [entries EXCEPT ![r] = With(entries[r], n, e)]
  BY DEF StatFile, Shapes, Go, files, history
<1>3. e.sha = hash[r] /\ e.status = Status(loaded[r], n, hash[r])
  OBVIOUS
<1> HIDE DEF e, n
<1>4. entries'[r] = With(entries[r], n, e)
  BY <1>2 DEF Shapes
<1>5. e.status = "TRUSTED" => <<n, e.sha>> \in asked
  <2>1. e.status = "TRUSTED" => n \in DOMAIN loaded[r] /\ loaded[r][n] = hash[r]
    BY <1>3 DEF Status
  <2> QED
    BY <1>1, <1>3, <2>1 DEF RequestInv, AreAsked
<1>6. AreAsked(loaded[r])'
  BY <1>1, <1>2 DEF RequestInv, AreAsked
<1>7. TrustInv(r)'
  <2>1. ASSUME NEW x \in DOMAIN entries'[r], entries'[r][x].status = "TRUSTED"
        PROVE  <<x, entries'[r][x].sha>> \in asked
    <3>1. CASE x = n
      <4>1. entries'[r][x] = e
        BY <1>4, <3>1 DEF With
      <4> QED
        BY <1>5, <2>1, <3>1, <4>1
    <3>2. CASE x # n
      <4>1. x \in DOMAIN entries[r] /\ entries'[r][x] = entries[r][x]
        BY <1>4, <3>2 DEF With
      <4> QED
        BY <1>1, <2>1, <4>1 DEF RequestInv, TrustInv
    <3> QED
      BY <3>1, <3>2
  <2> QED
    BY <1>2, <2>1 DEF TrustInv
<1>8. ASSUME r \in Pinners PROVE PinnerInv(r)'
  <2>1. PinnerInv(r)
    BY <1>1, <1>8 DEF RequestInv
  <2>2. Model(r) \in DOMAIN entries'[r] => <<Model(r), entries'[r][Model(r)].sha>> \in asked
    <3>1. n = Model(r) => <<Model(r), e.sha>> \in asked
      BY <1>2, <1>3, <2>1 DEF PinnerInv, n
    <3>2. Model(r) # n /\ Model(r) \in DOMAIN entries'[r] =>
             Model(r) \in DOMAIN entries[r] /\ entries'[r][Model(r)] = entries[r][Model(r)]
      BY <1>4 DEF With
    <3>3. entries'[r][n] = e
      BY <1>4 DEF With
    <3> QED
      BY <2>1, <3>1, <3>2, <3>3 DEF PinnerInv
  <2> QED
    BY <1>2, <2>1, <2>2 DEF PinnerInv
<1> QED
  BY <1>2, <1>6, <1>7, <1>8 DEF RequestInv

\* A pin with a hash of its own is asked for at once.
LEMMA PinAsked ==
    ASSUME Shapes, AskedInv, NEW r \in Pinners, StartPin(r)
    PROVE  RequestInv(r)' /\ asked \subseteq asked' /\ baselines' = baselines
<1>1. RequestInv(r) /\ r \in Requests
  BY DEF AskedInv, Requests
<1>2. /\ pc[r] = "start" /\ pc'[r] = "read" /\ entries' = entries /\ loaded' = loaded
      /\ hash' = hash /\ todo' = todo /\ baselines' = baselines /\ Sha(r) # Current
      /\ asked' = asked \union {<<Model(r), Sha(r)>>}
  BY <1>1 DEF StartPin, Shapes, Go, files
<1>3. AreAsked(loaded[r])' /\ TrustInv(r)'
  BY <1>1, <1>2 DEF RequestInv, AreAsked, TrustInv
<1>4. PinnerInv(r)'
  BY <1>1, <1>2 DEF RequestInv, PinnerInv
<1> QED
  BY <1>2, <1>3, <1>4 DEF RequestInv

\* What is written was loaded, or is the hash the request has asked for.
LEMMA WriteAsked ==
    ASSUME Shapes, AskedInv, NEW r \in Pinners, Write(r)
    PROVE  RequestInv(r)' /\ asked' = asked /\ AreAsked(baselines)'
<1>1. RequestInv(r) /\ r \in Requests
  BY DEF AskedInv, Requests
<1>2. /\ pc[r] \in {"write", "overwrite"} /\ pc'[r] = "done" /\ entries' = entries
      /\ loaded' = loaded /\ hash' = hash /\ todo' = todo /\ asked' = asked
      /\ baselines' = With(loaded[r], Model(r), Pinned(r))
  BY <1>1 DEF Write, Written
<1>3. AreAsked(loaded[r])' /\ TrustInv(r)' /\ PinnerInv(r)'
  BY <1>1, <1>2 DEF RequestInv, AreAsked, TrustInv, PinnerInv
<1>4. <<Model(r), Pinned(r)>> \in asked
  BY <1>1, <1>2 DEF RequestInv, PinnerInv, Pinned
<1>5. AreAsked(baselines)'
  BY <1>1, <1>2, <1>4 DEF With, RequestInv, AreAsked
<1> QED
  BY <1>2, <1>3, <1>5 DEF RequestInv

\* Every step keeps it.
LEMMA AskedStep == Shapes /\ AskedInv /\ [Next]_vars => Shapes' /\ AskedInv'
<1> SUFFICES ASSUME Shapes, AskedInv, [Next]_vars PROVE Shapes' /\ AskedInv'
  OBVIOUS
<1>1. ASSUME NEW r \in Requests, Step(r) PROVE Shapes' /\ AskedInv'
  <2>1. Shapes' /\ \A u \in Requests : u # r => Untouched(u)
    BY <1>1, OnlyOwn
  <2>2. RequestInv(r)' /\ asked \subseteq asked' /\ AreAsked(baselines)'
    <3>1. AreAsked(baselines) /\ (baselines' = baselines /\ asked \subseteq asked'
                                     => AreAsked(baselines)')
      BY DEF AskedInv, AreAsked
    <3> QED
      BY <1>1, <3>1, GoOnAsked, HashAsked, StatAsked, PinAsked, WriteAsked
         DEF Step, Hashing, Pinning, Scan
  <2>3. \A u \in Requests : RequestInv(u)'
    BY <2>1, <2>2, RequestKept DEF AskedInv
  <2> QED
    BY <2>1, <2>2, <2>3 DEF AskedInv
<1>2. CASE Tick \/ ChangeFile \/ PutFile \/ UNCHANGED vars
  <2>1. UNCHANGED <<calls, asked, baselines, due>> /\ clock' \in Nat
    BY <1>2 DEF Tick, ChangeFile, PutFile, vars, files, history, Shapes
  <2>2. Shapes'
    BY <2>1 DEF Shapes, calls
  <2>3. \A u \in Requests : RequestInv(u)'
    BY <2>1, RequestKept DEF AskedInv, Untouched, calls
  <2> QED
    BY <2>1, <2>2, <2>3 DEF AskedInv, AreAsked
<1>3. CASE \/ \E r \in Scanners : StartScan(r) \/ Scan(r)
           \/ \E r \in Pinners : Pin(r)
           \/ \E r \in Ejecters : Eject(r)
  BY <1>1, <1>3 DEF Step, Hashing, Pinning, Pin, Requests
<1> QED
  BY <1>2, <1>3 DEF Next

--------------------------------------------------------------------------------
(* What a scan knows.                                                          *)

Rewrites == {"truncate", "write", "overwrite"}

\* Nobody who writes baselines moves, and the file and the promises stay.
LEMMA WriterKept ==
    ASSUME WriterInv, UNCHANGED <<baselines, readable, promised>>,
           \A p \in Pinners : /\ pc'[p] = pc[p] \/ (pc[p] \notin Rewrites /\ pc'[p] \notin Rewrites)
                              /\ Writing(p) => loaded'[p] = loaded[p]
    PROVE  WriterInv'
<1>1. \A p \in Pinners : /\ Writing(p)' <=> Writing(p)
                         /\ pc'[p] = "overwrite" <=> pc[p] = "overwrite"
                         /\ pc'[p] = "write" <=> pc[p] = "write"
  BY DEF Writing, Rewrites
<1>2. \A p \in Pinners : Writing(p)' => Says(loaded[p], promised, {Model(p)})' 
  BY <1>1 DEF WriterInv, Says
<1> QED
  BY <1>1, <1>2 DEF WriterInv, Says

\* A scan that is not touched is as it was, also when it need no longer know a pin.
LEMMA ScanKept ==
    ASSUME NEW u \in Scanners, ScanInv(u), pc'[u] = "start" => pc[u] = "start",
           loaded'[u] = loaded[u], entries'[u] = entries[u],
           DOMAIN due'[u] \subseteq DOMAIN due[u],
           \A n \in DOMAIN due'[u] : due'[u][n] = due[u][n]
    PROVE  ScanInv(u)'
<1>1. pc'[u] = "start" => DOMAIN entries'[u] = {} /\ DOMAIN due'[u] = {}
  BY DEF ScanInv
<1>2. Says(loaded[u], due[u], {})'
  BY DEF ScanInv, Says
<1>3. \A n \in DOMAIN entries'[u] :
         entries'[u][n].status = Status(loaded'[u], n, entries'[u][n].sha)
  BY DEF ScanInv
<1> QED
  BY <1>1, <1>2, <1>3 DEF ScanInv

\* The invariant holds at the start.
LEMMA StartsKnown == Init => KnownInv
<1> SUFFICES ASSUME Init PROVE KnownInv
  OBVIOUS
<1>1. DOMAIN Nothing = {}
  BY DEF Nothing
<1>2. WriterInv
  BY <1>1 DEF Init, WriterInv, Writing, Says, Requests
<1>3. ASSUME NEW u \in Scanners PROVE ScanInv(u)
  BY <1>1 DEF Init, ScanInv, Says, Requests
<1> QED
  BY <1>2, <1>3 DEF KnownInv

\* A scan starts: if it meets no writer it has loaded every pin it has to know.
LEMMA StartScanKnown ==
    ASSUME Shapes, KnownInv, NEW r \in Scanners, StartScan(r), ~clash'
    PROVE  WriterInv' /\ \A u \in Scanners : ScanInv(u)'
<1>1. r \in Requests /\ r \notin Pinners /\ Scanners \subseteq Requests /\ Pinners \subseteq Requests
  BY Kinds DEF Requests
<1>2. ~clash /\ readable /\ WriterInv /\ \A u \in Scanners : ScanInv(u)
  BY DEF StartScan, KnownInv
<1>3. /\ UNCHANGED <<baselines, readable, promised, entries>>
      /\ pc[r] = "start" /\ pc'[r] = "list" /\ loaded'[r] = baselines /\ due'[r] = promised
      /\ \A u \in Requests : u # r => pc'[u] = pc[u] /\ loaded'[u] = loaded[u]
      /\ \A u \in Scanners : u # r => due'[u] = due[u]
  BY <1>1, <1>2 DEF StartScan, Shapes, Go, files, Loaded
<1>4. WriterInv'
  BY <1>1, <1>2, <1>3, WriterKept
<1>5. ScanInv(r)'
  <2>1. Says(baselines, promised, {})
    BY <1>2 DEF WriterInv
  <2>2. Says(loaded[r], due[r], {})'
    BY <1>3, <2>1 DEF Says
  <2>3. DOMAIN entries'[r] = {}
    BY <1>2, <1>3 DEF ScanInv
  <2> QED
    BY <1>3, <2>2, <2>3 DEF ScanInv
<1>6. ASSUME NEW u \in Scanners, u # r PROVE ScanInv(u)'
  BY <1>1, <1>2, <1>3, <1>6, ScanKept
<1> QED
  BY <1>4, <1>5, <1>6

\* A file is entered with the status the loaded baselines give it.
LEMMA StatKnown ==
    ASSUME Shapes, NEW r \in Scanners, ScanInv(r), StatFile(r)
    PROVE  ScanInv(r)'
<1> DEFINE n == Head(todo[r])
           e == [sha |-> hash[r], status |-> Status(loaded[r], n, hash[r])]
<1>1. /\ pc'[r] = "hash" /\ loaded' = loaded /\ due' = due
      /\ entries' = [entries EXCEPT ![r] = With(entries[r], n, e)] /\ r \in Requests
  BY DEF StatFile, Shapes, Go, history, Requests
<1>2. e.status = Status(loaded[r], n, e.sha)
  OBVIOUS
<1> HIDE DEF e, n
<1>3. entries'[r] = With(entries[r], n, e)
  BY <1>1 DEF Shapes
<1>4. ASSUME NEW x \in DOMAIN entries'[r]
      PROVE  entries'[r][x].status = Status(loaded[r], x, entries'[r][x].sha)
  <2>1. CASE x = n
    <3>1. entries'[r][x] = e
      BY <1>3, <2>1 DEF With
    <3> QED
      BY <1>2, <2>1, <3>1
  <2>2. CASE x # n
    <3>1. x \in DOMAIN entries[r] /\ entries'[r][x] = entries[r][x]
      BY <1>3, <2>2 DEF With
    <3> QED
      BY <3>1 DEF ScanInv
  <2> QED
    BY <2>1, <2>2
<1>5. Says(loaded[r], due[r], {})'
  BY <1>1 DEF ScanInv, Says
<1> QED
  BY <1>1, <1>4, <1>5 DEF ScanInv

\* The steps that neither read nor write baselines.json for good.
LEMMA QuietKnown ==
    ASSUME Shapes, KnownInv, NEW r \in Requests, ~clash',
           \/ r \in Scanners \union Pinners /\ Scan(r)
           \/ r \in Pinners /\ (StartPinCurrent(r) \/ StartPin(r))
           \/ r \in Ejecters /\ Eject(r)
    PROVE  WriterInv' /\ \A u \in Scanners : ScanInv(u)'
<1> DEFINE Rest == {"start", "list", "hash", "stat", "done", "read", "failed", "move", "log"}
<1>1. UNCHANGED <<baselines, readable, promised, due, clash>>
  BY DEF Scan, ListDirectory, SkipFile, HashFile, StatFile, StatFails, EndScan, StartPinCurrent,
         StartPin, Eject, StartEject, Move, MoveFails, LogEjection, files, history
<1>2. /\ pc[r] \in Rest /\ pc'[r] \in Rest /\ pc'[r] # "start"
      /\ \A u \in Requests : u # r => pc'[u] = pc[u]
  <2>1. CASE SkipFile(r)
    BY <2>1 DEF SkipFile
  <2>2. CASE ListDirectory(r) \/ HashFile(r) \/ StatFile(r) \/ StatFails(r) \/ EndScan(r)
    BY <2>2 DEF ListDirectory, HashFile, StatFile, StatFails, EndScan, Go, Shapes
  <2>3. CASE StartPinCurrent(r) \/ StartPin(r) \/ Eject(r)
    BY <2>3 DEF StartPinCurrent, StartPin, Eject, StartEject, Move, MoveFails, LogEjection, Go,
                Shapes
  <2> QED
    BY <2>1, <2>2, <2>3 DEF Scan
<1>3. \A u \in Requests : u # r => loaded'[u] = loaded[u] /\ entries'[u] = entries[u]
  <2>1. Step(r)
    BY DEF Step, Hashing, Pinning
  <2> QED
    BY <2>1, OnlyOwn DEF Untouched
<1>4. ~clash /\ WriterInv /\ \A u \in Scanners : ScanInv(u)
  BY <1>1 DEF KnownInv
<1>5. WriterInv'
  <2>1. ASSUME NEW p \in Pinners
        PROVE  /\ pc'[p] = pc[p] \/ (pc[p] \notin Rewrites /\ pc'[p] \notin Rewrites)
               /\ Writing(p) => loaded'[p] = loaded[p]
    BY <1>2, <1>3 DEF Rewrites, Writing, Requests
  <2> QED
    BY <1>1, <1>4, <2>1, WriterKept
<1>6. ASSUME NEW u \in Scanners PROVE ScanInv(u)'
  <2>1. CASE u # r
    BY <1>1, <1>2, <1>3, <1>4, <2>1, ScanKept DEF Requests
  <2>2. CASE u = r /\ StatFile(r)
    BY <1>4, <2>2, StatKnown
  <2>3. CASE u = r /\ ~StatFile(r)
    <3>1. r \notin Pinners /\ r \notin Ejecters
      BY <2>3, Kinds
    <3>2. loaded' = loaded /\ entries' = entries
      BY <2>3, <3>1 DEF Scan, ListDirectory, SkipFile, HashFile, StatFails, EndScan
    <3> QED
      BY <1>1, <1>2, <1>4, <2>3, <3>2, ScanKept
  <2> QED
    BY <2>1, <2>2, <2>3
<1> QED
  BY <1>5, <1>6

\* Baselines are read for a pin: if nobody is writing them they hold every pin that has
\* been answered, and the one that is about to change is owed to nobody any more.
LEMMA ReadKnown ==
    ASSUME Shapes, KnownInv, NEW r \in Pinners, ReadBaselines(r), ~clash'
    PROVE  WriterInv' /\ \A u \in Scanners : ScanInv(u)'
<1>1. r \in Requests /\ r \notin Scanners /\ Scanners \subseteq Requests /\ Pinners \subseteq Requests
  BY Kinds DEF Requests
<1>2. ~clash /\ ~Rewriting /\ WriterInv /\ \A u \in Scanners : ScanInv(u)
  BY DEF ReadBaselines, KnownInv
<1>3. /\ UNCHANGED <<baselines, readable, entries>>
      /\ pc[r] = "read" /\ pc'[r] = "truncate" /\ loaded'[r] = Loaded
      /\ \A u \in Requests : u # r => pc'[u] = pc[u] /\ loaded'[u] = loaded[u]
      /\ promised' = Without(promised, Model(r))
      /\ \A u \in Scanners : due'[u] = Without(due[u], Model(r))
  BY <1>1 DEF ReadBaselines, Shapes, Go, files
<1>4. \A p \in Pinners : pc[p] \notin Rewrites
  BY <1>2 DEF Rewriting, Rewrites
<1>5. readable /\ loaded'[r] = baselines
  BY <1>2, <1>3, <1>4 DEF WriterInv, Rewrites, Loaded
<1>6. /\ DOMAIN promised' = DOMAIN promised \ {Model(r)}
      /\ \A n \in DOMAIN promised' : promised'[n] = promised[n]
  BY <1>3 DEF Without
<1>7. Says(baselines, promised, {})
  BY <1>2 DEF WriterInv
<1>8. Says(baselines', promised', {}) /\ Says(loaded'[r], promised', {Model(r)})
  BY <1>3, <1>5, <1>6, <1>7 DEF Says
<1>9. \A p \in Pinners : /\ pc'[p] # "overwrite"
                         /\ Writing(p)' => p = r
  BY <1>1, <1>3, <1>4 DEF Rewrites, Writing
<1>10. WriterInv'
  <2>1. \A p, q \in Pinners : Writing(p)' /\ Writing(q)' => p = q
    BY <1>9
  <2>2. \A p \in Pinners : Writing(p)' => Says(loaded'[p], promised', {Model(p)})
    BY <1>8, <1>9
  <2>3. readable'
    BY <1>3, <1>5
  <2> QED
    BY <1>8, <1>9, <2>1, <2>2, <2>3 DEF WriterInv
<1>11. ASSUME NEW u \in Scanners PROVE ScanInv(u)'
  <2>1. /\ DOMAIN due'[u] \subseteq DOMAIN due[u]
        /\ \A n \in DOMAIN due'[u] : due'[u][n] = due[u][n]
    BY <1>3 DEF Without
  <2> QED
    BY <1>1, <1>2, <1>3, <2>1, ScanKept
<1> QED
  BY <1>10, <1>11

\* The file is emptied by the one that is writing it.
LEMMA TruncateKnown ==
    ASSUME Shapes, KnownInv, NEW r \in Pinners, Truncate(r), ~clash'
    PROVE  WriterInv' /\ \A u \in Scanners : ScanInv(u)'
<1>1. r \in Requests /\ r \notin Scanners /\ Scanners \subseteq Requests /\ Pinners \subseteq Requests
  BY Kinds DEF Requests
<1>2. /\ UNCHANGED <<baselines, entries, loaded, promised, due, clash>>
      /\ pc[r] = "truncate" /\ pc'[r] = "write"
      /\ \A u \in Requests : u # r => pc'[u] = pc[u]
  BY <1>1 DEF Truncate, Shapes, Go, history
<1>3. WriterInv /\ \A u \in Scanners : ScanInv(u)
  BY <1>2 DEF KnownInv
<1>4. \A p \in Pinners : (Writing(p)' <=> Writing(p)) /\ pc'[p] # "overwrite"
  BY <1>1, <1>2, <1>3 DEF Writing, WriterInv
<1>5. \A p \in Pinners : Writing(p)' => Says(loaded'[p], promised', {Model(p)})
  BY <1>2, <1>3, <1>4 DEF WriterInv
<1>6. WriterInv'
  BY <1>2, <1>3, <1>4, <1>5 DEF WriterInv
<1>7. ASSUME NEW u \in Scanners PROVE ScanInv(u)'
  BY <1>1, <1>2, <1>3, ScanKept
<1> QED
  BY <1>6, <1>7

\* The baselines are written by somebody who knows all the others that have been
\* answered.
LEMMA WriteKnown ==
    ASSUME Shapes, KnownInv, NEW r \in Pinners, Write(r), ~clash'
    PROVE  WriterInv' /\ \A u \in Scanners : ScanInv(u)'
<1>1. r \in Requests /\ r \notin Scanners /\ Scanners \subseteq Requests /\ Pinners \subseteq Requests
  BY Kinds DEF Requests
<1>2. /\ UNCHANGED <<entries, loaded, due, clash>>
      /\ pc[r] \in {"write", "overwrite"}
      /\ pc' = [p \in Requests |-> IF p = r THEN "done"
                                   ELSE IF pc[p] = "write" THEN "overwrite" ELSE pc[p]]
      /\ baselines' = With(loaded[r], Model(r), Pinned(r))
      /\ promised' = With(promised, Model(r), Pinned(r))
      /\ readable' \in IF pc[r] = "write" THEN {TRUE} ELSE BOOLEAN
  BY DEF Write, Written
<1>3. WriterInv /\ \A u \in Scanners : ScanInv(u)
  BY <1>2 DEF KnownInv
<1>4. pc[r] = "write" /\ \A p \in Pinners : p # r => pc[p] \notin Rewrites
  BY <1>2, <1>3 DEF WriterInv, Writing, Rewrites
<1>5. \A p \in Pinners : pc'[p] \notin Rewrites
  BY <1>1, <1>2, <1>4 DEF Rewrites
<1>6. Says(loaded[r], promised, {Model(r)})
  BY <1>3, <1>4 DEF WriterInv, Writing
<1>7. Says(baselines', promised', {})
  <2>1. ASSUME NEW n \in DOMAIN promised'
        PROVE  n \in DOMAIN baselines' /\ baselines'[n] = promised'[n]
    <3>1. CASE n = Model(r)
      BY <1>2, <3>1 DEF With
    <3>2. CASE n # Model(r)
      <4>1. n \in DOMAIN promised /\ promised'[n] = promised[n]
        BY <1>2, <3>2 DEF With
      <4>2. n \in DOMAIN loaded[r] /\ loaded[r][n] = promised[n]
        BY <1>6, <3>2, <4>1 DEF Says
      <4> QED
        BY <1>2, <3>2, <4>1, <4>2 DEF With
    <3> QED
      BY <3>1, <3>2
  <2> QED
    BY <2>1 DEF Says
<1>8. readable' = TRUE
  BY <1>2, <1>4
<1>9. WriterInv'
  BY <1>5, <1>7, <1>8 DEF WriterInv, Writing, Rewrites
<1>10. ASSUME NEW u \in Scanners PROVE ScanInv(u)'
  <2>1. pc'[u] = "start" => pc[u] = "start"
    BY <1>1, <1>2
  <2> QED
    BY <1>2, <1>3, <2>1, ScanKept
<1> QED
  BY <1>9, <1>10

\* Every step keeps it.
LEMMA KnownStep == Shapes /\ KnownInv /\ [Next]_vars => KnownInv'
<1> SUFFICES ASSUME Shapes, KnownInv, [Next]_vars, ~clash'
             PROVE  WriterInv' /\ \A u \in Scanners : ScanInv(u)'
  BY DEF KnownInv
<1>1. CASE Tick \/ ChangeFile \/ PutFile \/ UNCHANGED vars
  <2>1. UNCHANGED <<calls, baselines, readable, promised, due, clash>>
    BY <1>1 DEF Tick, ChangeFile, PutFile, vars, files, history
  <2>2. WriterInv /\ \A u \in Scanners : ScanInv(u)
    BY <2>1 DEF KnownInv
  <2>3. WriterInv'
    BY <2>1, <2>2, WriterKept DEF calls
  <2>4. \A u \in Scanners : ScanInv(u)'
    BY <2>1, <2>2, ScanKept DEF calls
  <2> QED
    BY <2>3, <2>4
<1>2. ASSUME NEW r \in Scanners, StartScan(r) \/ Scan(r)
      PROVE  WriterInv' /\ \A u \in Scanners : ScanInv(u)'
  BY <1>2, StartScanKnown, QuietKnown DEF Requests
<1>3. ASSUME NEW r \in Pinners, Pin(r)
      PROVE  WriterInv' /\ \A u \in Scanners : ScanInv(u)'
  BY <1>3, QuietKnown, ReadKnown, TruncateKnown, WriteKnown DEF Pin, Requests
<1>4. ASSUME NEW r \in Ejecters, Eject(r)
      PROVE  WriterInv' /\ \A u \in Scanners : ScanInv(u)'
  BY <1>4, QuietKnown DEF Requests
<1> QED
  BY <1>1, <1>2, <1>3, <1>4 DEF Next

--------------------------------------------------------------------------------
(* The theorems.                                                               *)

\* The two invariants, each inductive with the shapes of the state.
THEOREM Invariants == Spec => [](Shapes /\ AskedInv /\ KnownInv)
<1>1. Init => Shapes /\ AskedInv /\ KnownInv
  BY StartsAsked, StartsKnown
<1>2. Shapes /\ AskedInv /\ KnownInv /\ [Next]_vars => Shapes' /\ AskedInv' /\ KnownInv'
  BY AskedStep, KnownStep
<1> QED
  BY <1>1, <1>2, PTL DEF Spec

\* Nothing is reported as trusted that nobody asked to trust, for any number of scans and
\* pins that meet each other's half-written baselines.
THEOREM TrustedWasPinnedHolds == Spec => []TrustedWasPinned
<1>1. AskedInv => TrustedWasPinned
  BY DEF AskedInv, RequestInv, TrustInv, TrustedWasPinned
<1> QED
  BY <1>1, Invariants, PTL

\* A pin that has been answered is known to every later scan, unless somebody read the
\* baselines while they were being written.
THEOREM PinsAreKnownHolds == Spec => []PinsAreKnown
<1>1. KnownInv => PinsAreKnown
  <2> SUFFICES ASSUME KnownInv, ~clash, NEW r \in Scanners,
                      NEW n \in DOMAIN due[r] \intersect DOMAIN entries[r]
               PROVE  entries[r][n].status = IF entries[r][n].sha = due[r][n]
                                             THEN "TRUSTED" ELSE "POISONED"
    BY DEF PinsAreKnown, Knows
  <2>1. n \in DOMAIN loaded[r] /\ loaded[r][n] = due[r][n]
    BY DEF KnownInv, ScanInv, Says
  <2>2. entries[r][n].status = Status(loaded[r], n, entries[r][n].sha)
    BY DEF KnownInv, ScanInv
  <2> QED
    BY <2>1, <2>2 DEF Status
<1> QED
  BY <1>1, Invariants, PTL
================================================================================
