--------------------------- MODULE ScanServiceProofs ---------------------------
(* Theorems about ScanService, for every number of scans and settings requests,   *)
(* whatever the requests ask, any file at the start, any prompts and any order of  *)
(* the stages; what is said of a run is for orders that end with the audit.        *)
EXTENDS ScanService, TLAPS

--------------------------------------------------------------------------------
(* The inductive invariant.                                                    *)

Sections == (UNION {DOMAIN a.set : a \in Asks}) \union (UNION {DOMAIN f : f \in AtStart})
Gateways == [cfg : BOOLEAN, bus : BOOLEAN]
Events == [results : Seq(Statuses), overall : {"PASS", "WARN", "FAIL"}]
Getting == {"check", "load", "assign", "return", "failed"}
ScanPcs == Getting \union {"start", "refused", "stages", "publish", "respond", "done"}
WriterPcs == Getting \union {"start", "read", "truncate", "dump", "overwrite", "lost", "unlink",
                             "saved", "reset", "reload", "rebuild", "done"}

\* Types of the files, of the gateways, of the threads, and of the runs.
FileTyped == /\ DOMAIN local \subseteq Sections
             /\ \A t \in Threads : DOMAIN read[t] \subseteq Sections
             /\ ask \in [Writers -> Asks]
             /\ disk \in {"none", "yaml", "garbage"}
             /\ disk # "yaml" => DOMAIN local = {}
GatewayTyped == gateways \in Seq(Gateways) /\ gateway \in 0..Len(gateways)
PcTyped == /\ pc \in [Threads -> ScanPcs \union WriterPcs]
           /\ \A t \in Scans : pc[t] \in ScanPcs
           /\ \A t \in Writers : pc[t] \in WriterPcs
MineTyped == /\ mine \in [Threads -> Nat] /\ read = [t \in Threads |-> read[t]]
             /\ \A t \in Threads : mine[t] <= Len(gateways)
OpenTyped == opening \subseteq Threads /\ \A t \in opening : pc[t] \in Loads
RunTyped == /\ event \in [Scans -> Events]
            /\ forwarded \subseteq Scans /\ reported \subseteq Scans /\ offSince \subseteq Scans
            /\ \A a \in audits : a.scan \in Scans
            /\ off \in BOOLEAN /\ overlap \in BOOLEAN
Typed == FileTyped /\ GatewayTyped /\ PcTyped /\ MineTyped /\ OpenTyped /\ RunTyped

\* A thread that uses its gateway has one.
MineInv == \A t \in Threads :
              pc[t] \in {"stages", "publish", "respond", "reload", "rebuild"} => mine[t] # 0

\* A run: it stops at its first failure; once it has gone through every stage without
\* one, its audit record has been written; and it ends in one of these two ways.
Clean(results) == \A i \in DOMAIN results : results[i] \notin Bad
RunInv(t) ==
    LET results == event[t].results
    IN  /\ Len(results) <= Len(Order)
        /\ IF event[t].overall = "FAIL"
           THEN {i \in DOMAIN results : results[i] \in Bad} = {Len(results)}
           ELSE Clean(results)
        /\ event[t].overall = "WARN" => \E i \in DOMAIN results : results[i] = "WARN"
        /\ event[t].overall = "PASS" => \A i \in DOMAIN results : results[i] # "WARN"
        /\ event[t].overall # "FAIL" /\ Len(results) = Len(Order) =>
              [scan |-> t, overall |-> event[t].overall,
               results |-> SubSeq(results, 1, Len(results) - 1)] \in audits
        /\ pc[t] \in {"publish", "respond", "done"} =>
              event[t].overall = "FAIL" \/ Len(results) = Len(Order)

\* The bus of a gateway is what its configuration says.
BusInv == \A i \in DOMAIN gateways : gateways[i].cfg <=> gateways[i].bus

\* From the time a settings request empties the file to the time it drops the gateway, the
\* gateway may be older than the file; otherwise it says what the file says, and so do the
\* settings from which somebody is about to build one.
Writing == {"dump", "overwrite", "lost"}
Saving == {"dump", "overwrite", "lost", "saved", "reset"}
FreshInv ==
    (\A w \in Writers : pc[w] \notin Saving) =>
        /\ gateway # 0 => (gateways[gateway].cfg <=> CloudIn(local))
        /\ \A t \in Threads : pc[t] = "assign" => (CloudIn(read[t]) <=> CloudIn(local))

\* A settings request is alone with the file, and once it has written it the file has no
\* cloud if it turned that off; the gateway it applies the settings to has them already.
Saved == {"saved", "reset", "check", "load", "assign", "return", "reload", "rebuild"}
WriterInv ==
    /\ disk # "garbage"
    /\ \A w \in Writers :
          /\ pc[w] \notin {"overwrite", "lost"}
          /\ w \in opening => disk = "yaml"
          /\ pc[w] \in {"reload", "rebuild"} => (gateways[mine[w]].cfg <=> CloudIn(local))
          /\ pc[w] \in Saved /\ TurnsOff(ask[w]) => ~CloudIn(local)

\* Once the cloud is off no file that is read, or about to be written, has it, nor does the
\* gateway or one that is being built.
OffInv ==
    off => /\ ~CloudIn(local)
           /\ gateway # 0 => ~gateways[gateway].cfg
           /\ \A t \in Threads : pc[t] = "assign" => ~CloudIn(read[t])
           /\ \A w \in Writers :
                 AtWork(w) => /\ ~TurnsOn(ask[w])
                              /\ pc[w] \in {"truncate", "dump"} => ~CloudIn(read[w])

\* A scan that came in since then works with a gateway without the cloud; and what a scan
\* reports is what the bus of its gateway did.
ForwardInv ==
    \A t \in Scans :
        /\ t \in offSince =>
              /\ off /\ pc[t] # "start" /\ t \notin forwarded
              /\ pc[t] \in {"stages", "publish", "respond"} => ~gateways[mine[t]].bus
        /\ t \in forwarded => pc[t] \in {"respond", "done"}
        /\ t \in reported => pc[t] = "done"
        /\ pc[t] = "respond" => (t \in forwarded <=> gateways[mine[t]].bus)
        /\ pc[t] = "done" => (t \in reported <=> t \in forwarded)

\* All of this as long as settings requests come one after the other.
Cloudy == BusInv /\ FreshInv /\ WriterInv /\ OffInv /\ ForwardInv
CloudInv == (Overlap => overlap) /\ (~overlap => Cloudy)

--------------------------------------------------------------------------------
(* Files and threads.                                                          *)

\* Merging settings and leaving sections out names no new section.
LEMMA MergedSections ==
    ASSUME NEW a \in Asks, NEW f, DOMAIN f \subseteq Sections
    PROVE  DOMAIN Rewritten(a, f) \subseteq Sections
<1>1. DOMAIN a.set \subseteq Sections
  BY DEF Sections
<1>2. DOMAIN Merge(f, a.set) \subseteq Sections
  BY <1>1 DEF Merge
<1>3. DOMAIN Restrict(f, DOMAIN f \ Cleared) \subseteq Sections
  BY DEF Restrict
<1> QED
  BY <1>2, <1>3 DEF Rewritten

\* A file in which a request has turned the cloud off does not have it on.
LEMMA RewrittenOff ==
    ASSUME NEW a \in Asks, NEW f, TurnsOff(a)
    PROVE  ~CloudIn(Rewritten(a, f))
<1>1. CASE a.op # "reset"
  <2>1. "cloud" \in DOMAIN a.set /\ a.set["cloud"] # "on" /\ Rewritten(a, f) = Merge(f, a.set)
    BY <1>1, ScanAssumption DEF TurnsOff, Rewritten, CloudIn
  <2>2. Merge(f, a.set)["cloud"] = a.set["cloud"]
    BY <2>1 DEF Merge
  <2> QED
    BY <2>1, <2>2 DEF CloudIn
<1>2. CASE a.op = "reset"
  <2>1. "cloud" \in Cleared /\ Rewritten(a, f) = Restrict(f, DOMAIN f \ Cleared)
    BY <1>2 DEF TurnsOff, Rewritten
  <2> QED
    BY <2>1 DEF CloudIn, Restrict
<1> QED
  BY <1>1, <1>2

\* A request that does not turn the cloud on leaves it off.
LEMMA RewrittenStaysOff ==
    ASSUME NEW a \in Asks, NEW f, ~TurnsOn(a), ~CloudIn(f)
    PROVE  ~CloudIn(Rewritten(a, f))
<1>1. CASE a.op = "put"
  <2>1. ~CloudIn(a.set) /\ Rewritten(a, f) = Merge(f, a.set)
    BY <1>1 DEF TurnsOn, Rewritten
  <2>2. CASE "cloud" \in DOMAIN a.set
    <3>1. Merge(f, a.set)["cloud"] = a.set["cloud"]
      BY <2>2 DEF Merge
    <3> QED
      BY <2>1, <2>2, <3>1 DEF CloudIn
  <2>3. CASE "cloud" \notin DOMAIN a.set /\ "cloud" \in DOMAIN f
    <3>1. Merge(f, a.set)["cloud"] = f["cloud"]
      BY <2>3 DEF Merge
    <3> QED
      BY <2>1, <2>3, <3>1 DEF CloudIn
  <2>4. CASE "cloud" \notin DOMAIN a.set /\ "cloud" \notin DOMAIN f
    <3>1. "cloud" \notin DOMAIN Merge(f, a.set)
      BY <2>4 DEF Merge
    <3> QED
      BY <2>1, <3>1 DEF CloudIn
  <2> QED
    BY <2>2, <2>3, <2>4
<1>2. CASE a.op # "put"
  <2> DEFINE g == Restrict(f, DOMAIN f \ Cleared)
  <2>1. Rewritten(a, f) = g
    BY <1>2 DEF Rewritten
  <2>2. "cloud" \in DOMAIN g => "cloud" \in DOMAIN f /\ g["cloud"] = f["cloud"]
    BY DEF Restrict
  <2> HIDE DEF g
  <2> QED
    BY <2>1, <2>2 DEF CloudIn
<1> QED
  BY <1>1, <1>2

\* A file without settings has no cloud.
LEMMA EmptyOff == ~CloudIn(Empty) /\ DOMAIN Empty = {}
  BY DEF CloudIn, Empty

\* A request is a scan or a settings request.
LEMMA OfAKind ==
    ASSUME NEW t \in Threads
    PROVE  /\ t \in Scans \/ t \in Writers
           /\ ~(t \in Scans /\ t \in Writers)
  BY ScanAssumption DEF Threads

\* A thread that goes on leaves the others where they stand.
LEMMA Going ==
    ASSUME PcTyped, NEW t \in Threads, NEW from, NEW to, Go(t, from, to),
           t \in Scans => to \in ScanPcs, t \in Writers => to \in WriterPcs
    PROVE  /\ pc[t] = from /\ pc'[t] = to
           /\ \A u \in Threads : u # t => pc'[u] = pc[u]
           /\ PcTyped'
<1>1. pc[t] = from /\ pc' = [pc EXCEPT ![t] = to]
  BY DEF Go, Moving
<1>2. pc'[t] = to /\ \A u \in Threads : u # t => pc'[u] = pc[u]
  BY <1>1 DEF PcTyped
<1>3. pc' \in [Threads -> ScanPcs \union WriterPcs]
  BY <1>1 DEF PcTyped, Threads
<1>4. /\ \A u \in Scans : pc'[u] \in ScanPcs
      /\ \A u \in Writers : pc'[u] \in WriterPcs
  BY <1>2 DEF PcTyped, Threads
<1> QED
  BY <1>1, <1>2, <1>3, <1>4 DEF PcTyped

\* Emptying, writing and removing the file moves, besides the thread that does it, only
\* those that have the file open to write.
LEMMA Writes ==
    ASSUME PcTyped, NEW t \in Writers, Truncate(t) \/ Dump(t) \/ Unlink(t)
    PROVE  /\ PcTyped'
           /\ pc[t] \in {"truncate", "dump", "unlink"}
           /\ pc'[t] = IF pc[t] = "truncate" THEN "dump" ELSE "saved"
           /\ \A u \in Threads : u # t => \/ pc'[u] = pc[u]
                                          \/ pc[u] \in Writing /\ pc'[u] \in Writing
           /\ \A u \in Scans : pc'[u] = pc[u]
<1>1. t \in Threads /\ "dump" \notin ScanPcs /\ "overwrite" \notin ScanPcs
  BY DEF Threads, ScanPcs, Getting
<1>2. CASE Truncate(t)
  <2>1. /\ pc[t] = "truncate"
        /\ pc' = [u \in Threads |-> IF u = t \/ pc[u] = "overwrite" THEN "dump" ELSE pc[u]]
    BY <1>2 DEF Truncate, Moving
  <2>2. \A u \in Scans : pc'[u] = pc[u]
    BY <1>1, <2>1, OfAKind DEF PcTyped, Threads
  <2>3. \A u \in Writers : pc'[u] \in WriterPcs
    BY <2>1 DEF PcTyped, Threads, WriterPcs
  <2> QED
    BY <1>1, <2>1, <2>2, <2>3 DEF PcTyped, Writing, Threads
<1>3. CASE Dump(t)
  <2>1. /\ pc[t] = "dump"
        /\ pc' = [u \in Threads |-> IF u = t THEN "saved"
                                    ELSE IF pc[u] = "dump" THEN "overwrite" ELSE pc[u]]
    BY <1>3 DEF Dump, Moving
  <2>2. \A u \in Scans : pc'[u] = pc[u]
    BY <1>1, <2>1, OfAKind DEF PcTyped, Threads
  <2>3. \A u \in Writers : pc'[u] \in WriterPcs
    BY <2>1 DEF PcTyped, Threads, WriterPcs
  <2> QED
    BY <1>1, <2>1, <2>2, <2>3 DEF PcTyped, Writing, Threads
<1>4. CASE Unlink(t)
  <2>1. /\ pc[t] = "unlink"
        /\ pc' = [u \in Threads |->
                    IF u = t THEN "saved"
                    ELSE IF pc[u] \in {"dump", "overwrite"} THEN "lost" ELSE pc[u]]
    BY <1>4 DEF Unlink, Moving
  <2>2. \A u \in Scans : pc'[u] = pc[u]
    BY <1>1, <2>1, OfAKind DEF PcTyped, Threads
  <2>3. \A u \in Writers : pc'[u] \in WriterPcs
    BY <2>1 DEF PcTyped, Threads, WriterPcs
  <2> QED
    BY <1>1, <2>1, <2>2, <2>3 DEF PcTyped, Writing, Threads
<1> QED
  BY <1>2, <1>3, <1>4

--------------------------------------------------------------------------------
(* Types.                                                                      *)

\* The types hold at the start.
LEMMA StartsTyped == Init => Typed /\ MineInv
<1> SUFFICES ASSUME Init PROVE Typed /\ MineInv
  OBVIOUS
<1>1. FileTyped
  <2>1. /\ DOMAIN local \subseteq Sections /\ disk = IF DOMAIN local = {} THEN "none" ELSE "yaml"
        /\ ask \in [Writers -> Asks] /\ \A t \in Threads : read[t] = local
    <3>1. local \in AtStart /\ read = [t \in Threads |-> local]
      BY DEF Init
    <3>2. DOMAIN local \subseteq Sections
      BY <3>1 DEF Sections
    <3> QED
      BY <3>1, <3>2 DEF Init
  <2> QED
    BY <2>1 DEF FileTyped
<1>2. GatewayTyped
  <2>1. Gateway(local) \in Gateways
    BY DEF Gateway, Gateways, CloudIn
  <2>2. <<Gateway(local)>> \in Seq(Gateways) /\ <<>> \in Seq(Gateways)
    BY <2>1
  <2>3. gateways \in Seq(Gateways)
    BY <2>2 DEF Init
  <2>4. Len(gateways) \in Nat
    BY <2>3
  <2> QED
    BY <2>3, <2>4 DEF Init, GatewayTyped
<1>3. PcTyped
  BY DEF Init, PcTyped, ScanPcs, WriterPcs, Threads
<1>4. MineTyped /\ OpenTyped
  BY <1>2 DEF Init, MineTyped, OpenTyped, GatewayTyped
<1>5. RunTyped
  <2>1. NoEvent \in Events
    BY DEF NoEvent, Events
  <2> QED
    BY <2>1 DEF Init, RunTyped
<1>6. MineInv
  BY DEF Init, MineInv
<1> QED
  BY <1>1, <1>2, <1>3, <1>4, <1>5, <1>6 DEF Typed

\* A thread that has found the file goes on from there, or stays.
LEMMA Opened ==
    ASSUME OpenTyped, NEW t \in Threads,
           \A u \in Threads : u # t => \/ pc'[u] = pc[u]
                                       \/ pc[u] \in Writing,
           opening' \subseteq opening, t \in opening' => pc[t] \notin Loads
    PROVE  OpenTyped'
<1>1. Writing \intersect Loads = {}
  BY DEF Writing, Loads
<1> QED
  BY <1>1 DEF OpenTyped

\* The history of overlapping requests.
LEMMA OverlapTyped ==
    ASSUME overlap \in BOOLEAN, overlap' = (overlap \/ Overlap') \/ overlap' = overlap
    PROVE  overlap' \in BOOLEAN
  BY DEF Overlap

\* Finding the file, and finding that it cannot be read, keep the types.
LEMMA FileStepsTyped ==
    ASSUME Typed, MineInv, NEW t \in Threads, FindFile(t) \/ LoadFails(t)
    PROVE  Typed' /\ MineInv'
<1>1. FileTyped /\ GatewayTyped /\ PcTyped /\ MineTyped /\ OpenTyped /\ RunTyped
  BY DEF Typed
<1>2. CASE FindFile(t)
  <2>1. OpenTyped'
    BY <1>1, <1>2 DEF FindFile, OpenTyped
  <2> QED
    BY <1>1, <1>2, <2>1
       DEF FindFile, settings, runs, turned, Typed, FileTyped, GatewayTyped, PcTyped, MineTyped,
           RunTyped, MineInv
<1>3. CASE LoadFails(t)
  <2>1. PICK from \in Loads : Go(t, from, "failed")
    BY <1>3 DEF LoadFails
  <2>2. PcTyped' /\ pc'[t] = "failed" /\ \A u \in Threads : u # t => pc'[u] = pc[u]
    BY <1>1, <2>1, Going DEF ScanPcs, WriterPcs, Getting
  <2>3. OpenTyped'
    BY <1>1, <1>3, <2>2, Opened DEF LoadFails
  <2>4. overlap' \in BOOLEAN
    BY <1>1, <2>1, OverlapTyped DEF Go, Moving, RunTyped
  <2>5. MineInv'
    BY <1>3, <2>2 DEF LoadFails, MineInv
  <2> QED
    BY <1>1, <1>3, <2>2, <2>3, <2>4, <2>5
       DEF LoadFails, settings, runs, turned, Typed, FileTyped, GatewayTyped, MineTyped, RunTyped
<1> QED
  BY <1>2, <1>3

\* The four steps of get_gateway() keep the types.
LEMMA GetTyped ==
    ASSUME Typed, MineInv, NEW t \in Threads, GetGateway(t)
    PROVE  Typed' /\ MineInv'
<1>1. FileTyped /\ GatewayTyped /\ PcTyped /\ MineTyped /\ OpenTyped /\ RunTyped
  BY DEF Typed
<1>2. Getting \subseteq ScanPcs /\ Getting \subseteq WriterPcs
  BY DEF ScanPcs, WriterPcs
<1>3. /\ UNCHANGED <<settings, runs>> /\ overlap' = (overlap \/ Overlap')
      /\ off' \in BOOLEAN /\ offSince' = offSince
  BY <1>1 DEF GetGateway, Check, LoadConfig, Assign, Return, Go, Moving, turned, Answered,
              RunTyped
<1>4. RunTyped'
  BY <1>1, <1>3, OverlapTyped DEF RunTyped, runs
<1>5. CASE Check(t)
  <2> DEFINE to == IF gateway = 0 THEN "load" ELSE "return"
  <2>1. /\ PcTyped' /\ pc[t] = "check" /\ pc'[t] = to
        /\ \A u \in Threads : u # t => pc'[u] = pc[u]
    BY <1>1, <1>2, <1>5, Going DEF Check, Getting
  <2>2. MineInv'
    BY <1>1, <1>5, <2>1 DEF Check, MineInv, threads
  <2>3. OpenTyped'
    BY <1>1, <1>5, <2>1, Opened DEF Check, Loads, threads
  <2> QED
    BY <1>1, <1>3, <1>4, <1>5, <2>1, <2>2, <2>3
       DEF Check, settings, threads, Typed, FileTyped, GatewayTyped, MineTyped
<1>6. CASE LoadConfig(t)
  <2>1. PcTyped' /\ pc'[t] = "assign" /\ \A u \in Threads : u # t => pc'[u] = pc[u]
    BY <1>1, <1>2, <1>6, Going DEF LoadConfig, Getting
  <2>2. MineInv'
    BY <1>1, <1>6, <2>1 DEF LoadConfig, MineInv
  <2>3. FileTyped' /\ MineTyped'
    BY <1>1, <1>6 DEF LoadConfig, FileTyped, MineTyped, settings
  <2>4. OpenTyped'
    BY <1>1, <1>6, <2>1, Opened DEF LoadConfig, Reads
  <2> QED
    BY <1>1, <1>4, <1>6, <2>1, <2>2, <2>3, <2>4 DEF LoadConfig, Typed, GatewayTyped
<1>7. CASE Assign(t)
  <2>1. /\ PcTyped' /\ pc[t] = "assign" /\ pc'[t] = "return"
        /\ \A u \in Threads : u # t => pc'[u] = pc[u]
    BY <1>1, <1>2, <1>7, Going DEF Assign, Getting
  <2>2. MineInv'
    BY <1>1, <1>7, <2>1 DEF Assign, MineInv, threads
  <2>3. Gateway(read[t]) \in Gateways
    BY DEF Gateway, Gateways, CloudIn
  <2>4. GatewayTyped' /\ Len(gateways') = Len(gateways) + 1 /\ Len(gateways) \in Nat
    BY <1>1, <1>7, <2>3 DEF Assign, GatewayTyped
  <2>5. MineTyped'
    BY <1>1, <1>7, <2>4 DEF Assign, MineTyped, threads
  <2>6. OpenTyped'
    BY <1>1, <1>7, <2>1, Opened DEF Assign, Loads, threads
  <2> QED
    BY <1>1, <1>3, <1>4, <1>7, <2>1, <2>2, <2>4, <2>5, <2>6
       DEF Assign, settings, threads, Typed, FileTyped
<1>8. CASE Return(t)
  <2> DEFINE to == IF gateway = 0 THEN "failed"
                   ELSE CASE t \in Scans -> "stages"
                          [] t \in Writers -> IF ask[t].op = "put" THEN "reload" ELSE "done"
  <2>1. (t \in Scans => to \in ScanPcs) /\ (t \in Writers => to \in WriterPcs)
    BY OfAKind DEF ScanPcs, WriterPcs, Getting
  <2>2. /\ PcTyped' /\ pc[t] = "return" /\ pc'[t] = to
        /\ \A u \in Threads : u # t => pc'[u] = pc[u]
    BY <1>1, <1>8, <2>1, Going DEF Return
  <2>3. mine'[t] = gateway /\ \A u \in Threads : u # t => mine'[u] = mine[u]
    BY <1>1, <1>8 DEF Return, MineTyped
  <2>4. MineInv'
    BY <2>2, <2>3 DEF MineInv
  <2>5. gateway \in Nat /\ gateway <= Len(gateways)
    BY <1>1 DEF GatewayTyped
  <2>6. MineTyped'
    BY <1>1, <1>8, <2>3, <2>5 DEF Return, MineTyped
  <2>7. OpenTyped'
    BY <1>1, <1>8, <2>2, Opened DEF Return, Loads
  <2> QED
    BY <1>1, <1>3, <1>4, <1>8, <2>2, <2>4, <2>6, <2>7
       DEF Return, settings, Typed, FileTyped, GatewayTyped
<1> QED
  BY <1>5, <1>6, <1>7, <1>8 DEF GetGateway

\* A stage ends with one of the statuses.
LEMMA StageOutcome ==
    ASSUME NEW t \in Scans, NEW i \in DOMAIN Order, NEW status \in Outcomes(Order[i], t)
    PROVE  /\ status \in Statuses
           /\ Order[i] = "audit" => status \in {"PASS", "ERROR"}
<1>1. Order[i] \in {"integrity", "threat_scanner", "privacy", "audit"}
  BY ScanAssumption
<1>2. Prompt(t) \in {"none", "plain", "personal"}
  BY ScanAssumption
<1>3. Privacy(Prompt(t)) \subseteq Statuses
  BY <1>2 DEF Privacy, Statuses
<1> QED
  BY <1>1, <1>3 DEF Outcomes, Integrity, ThreatScanner, Audit, Statuses

\* What a stage adds to an event.
LEMMA AddedStage ==
    ASSUME NEW e \in Events, NEW status \in Statuses
    PROVE  /\ AddStage(e, status) \in Events
           /\ AddStage(e, status).results = Append(e.results, status)
           /\ status \in Bad => AddStage(e, status).overall = "FAIL"
           /\ status \notin Bad /\ status = "WARN" /\ e.overall = "PASS" =>
                 AddStage(e, status).overall = "WARN"
           /\ status \notin Bad /\ ~(status = "WARN" /\ e.overall = "PASS") =>
                 AddStage(e, status).overall = e.overall
<1> DEFINE now == CASE status \in Bad -> "FAIL"
                    [] status = "WARN" /\ e.overall = "PASS" -> "WARN"
                    [] OTHER -> e.overall
<1>1. e.results \in Seq(Statuses) /\ e.overall \in {"PASS", "WARN", "FAIL"}
  BY DEF Events
<1>2. Append(e.results, status) \in Seq(Statuses)
  BY <1>1
<1>3. now \in {"PASS", "WARN", "FAIL"}
  BY <1>1 DEF Bad
<1>4. AddStage(e, status) = [results |-> Append(e.results, status), overall |-> now]
  BY DEF AddStage
<1>5. /\ status \in Bad => now = "FAIL"
      /\ status \notin Bad /\ status = "WARN" /\ e.overall = "PASS" => now = "WARN"
      /\ status \notin Bad /\ ~(status = "WARN" /\ e.overall = "PASS") => now = e.overall
  BY DEF Bad
<1> HIDE DEF now
<1> QED
  BY <1>2, <1>3, <1>4, <1>5 DEF Events

\* The steps of a scan keep the types.
LEMMA ScanTyped ==
    ASSUME Typed, MineInv, NEW t \in Scans, Scan(t)
    PROVE  Typed' /\ MineInv'
<1>1. /\ FileTyped /\ GatewayTyped /\ PcTyped /\ MineTyped /\ OpenTyped /\ RunTyped
      /\ t \in Threads
  BY DEF Typed, Threads
<1>2. CASE RunStage(t)
  <2> DEFINE i == Len(event[t].results) + 1
  <2>1. event[t] \in Events
    BY <1>1 DEF RunTyped
  <2>2. PICK status \in Outcomes(Order[i], t) :
           /\ i \in DOMAIN Order
           /\ event' = [event EXCEPT ![t] = AddStage(event[t], status)]
           /\ audits' = audits \/ audits' = audits \union {Record(t)}
    BY <1>2 DEF RunStage
  <2>3. AddStage(event[t], status) \in Events
    BY <2>1, <2>2, StageOutcome, AddedStage
  <2>4. /\ UNCHANGED <<local, disk, ask, gateway, gateways, pc, mine, read, opening>>
        /\ UNCHANGED <<forwarded, reported, off, offSince, overlap>>
    BY <1>2 DEF RunStage, settings, threads, turned
  <2>5. Record(t).scan \in Scans
    BY DEF Record
  <2>6. RunTyped'
    BY <1>1, <2>2, <2>3, <2>4, <2>5 DEF RunTyped
  <2> QED
    BY <1>1, <2>4, <2>6
       DEF Typed, FileTyped, GatewayTyped, PcTyped, MineTyped, OpenTyped, MineInv
<1>3. ASSUME NEW from, NEW to \in ScanPcs, Go(t, from, to), from \notin Loads,
             to \in {"stages", "publish", "respond"} => from \in {"stages", "publish", "respond"},
             UNCHANGED <<settings, gateway, gateways, threads, event, audits>>,
             forwarded' \subseteq forwarded \union {t}, reported' \subseteq reported \union {t},
             off' = off, offSince' \subseteq offSince \union {t}
      PROVE  Typed' /\ MineInv'
  <2>1. /\ PcTyped' /\ pc[t] = from /\ pc'[t] = to
        /\ \A u \in Threads : u # t => pc'[u] = pc[u]
    BY <1>1, <1>3, OfAKind, Going
  <2>2. to \notin {"reload", "rebuild"}
    BY <1>3 DEF ScanPcs, Getting
  <2>3. UNCHANGED <<local, disk, ask, mine, read, opening>>
    BY <1>3 DEF settings, threads
  <2>4. MineInv'
    BY <1>3, <2>1, <2>2, <2>3 DEF MineInv
  <2>5. OpenTyped'
    BY <1>1, <1>3, <2>1, <2>3, Opened
  <2>6. overlap' \in BOOLEAN
    BY <1>1, <1>3, OverlapTyped DEF Go, Moving, RunTyped
  <2> QED
    BY <1>1, <1>3, <2>1, <2>3, <2>4, <2>5, <2>6
       DEF Typed, FileTyped, GatewayTyped, MineTyped, RunTyped
<1>4. /\ {"check", "refused", "publish", "respond", "done"} \subseteq ScanPcs
      /\ {"start", "stages", "publish", "respond"} \intersect Loads = {}
  BY DEF ScanPcs, Getting, Loads
<1>5. CASE StartScan(t)
  BY <1>3, <1>4, <1>5 DEF StartScan, runs
<1>6. CASE RefuseScan(t)
  BY <1>3, <1>4, <1>6 DEF RefuseScan, runs, turned
<1>7. CASE EndRun(t)
  BY <1>3, <1>4, <1>7 DEF EndRun, runs, turned
<1>8. CASE Publish(t)
  BY <1>3, <1>4, <1>8 DEF Publish, turned
<1>9. CASE Respond(t)
  BY <1>3, <1>4, <1>9 DEF Respond, turned
<1> QED
  BY <1>2, <1>5, <1>6, <1>7, <1>8, <1>9 DEF Scan

\* What apply_settings does to the gateway of a request: its configuration is what the
\* file says, and its bus is what the configuration says, or stays.
LEMMA FlagSteps ==
    ASSUME Typed, MineInv, NEW t \in Writers, Reload(t) \/ Rebuild(t)
    PROVE  /\ GatewayTyped' /\ Len(gateways') = Len(gateways) /\ mine[t] \in 1..Len(gateways)
           /\ \A k \in 1..Len(gateways) : k # mine[t] => gateways'[k] = gateways[k]
           /\ Reload(t) => /\ gateways'[mine[t]].cfg = CloudIn(local)
                           /\ gateways'[mine[t]].bus = gateways[mine[t]].bus
           /\ Rebuild(t) => /\ gateways'[mine[t]].cfg = gateways[mine[t]].cfg
                            /\ gateways'[mine[t]].bus \in {gateways[mine[t]].bus,
                                                          gateways[mine[t]].cfg}
<1> DEFINE g == mine[t]
<1>1. /\ gateways \in Seq(Gateways) /\ gateway' = gateway /\ gateway \in 0..Len(gateways)
      /\ g \in 1..Len(gateways)
  BY DEF Reload, Rebuild, Go, Moving, Typed, MineInv, MineTyped, GatewayTyped, Threads
<1> HIDE DEF g
<1>2. CASE Reload(t)
  <2>own. gateways[g] \in Gateways
    BY <1>1
  <2>1. gateways[g].cfg \in BOOLEAN /\ gateways[g].bus \in BOOLEAN /\ CloudIn(local) \in BOOLEAN
    BY <2>own DEF Gateways, CloudIn
  <2>2. gateways' = [gateways EXCEPT ![g].cfg = CloudIn(local)]
    BY <1>2 DEF Reload, g
  <2>3. /\ gateways' \in Seq(Gateways) /\ Len(gateways') = Len(gateways)
        /\ \A k \in 1..Len(gateways) : k # g => gateways'[k] = gateways[k]
        /\ gateways'[g].cfg = CloudIn(local) /\ gateways'[g].bus = gateways[g].bus
    <3> DEFINE b == CloudIn(local)
               c == [gateways[g] EXCEPT !.cfg = b]
    <3>1. b \in BOOLEAN /\ gateways[g] \in Gateways /\ gateways[g].cfg \in BOOLEAN
          /\ gateways[g].bus \in BOOLEAN
      BY <2>own, <2>1
    <3> HIDE DEF b
    <3>2. c = [cfg |-> b, bus |-> gateways[g].bus]
      BY <3>1 DEF Gateways
    <3>3. c \in Gateways /\ c.cfg = b /\ c.bus = gateways[g].bus
      BY <3>1, <3>2 DEF Gateways
    <3>4. gateways' = [gateways EXCEPT ![g] = c]
      BY <2>2 DEF b
    <3> HIDE DEF c
    <3>5. /\ gateways' \in Seq(Gateways) /\ Len(gateways') = Len(gateways)
          /\ \A k \in 1..Len(gateways) : k # g => gateways'[k] = gateways[k]
          /\ gateways'[g] = c
      BY <1>1, <3>3, <3>4
    <3> QED
      BY <3>3, <3>5 DEF b
  <2>4. ~Rebuild(t)
    BY <1>2 DEF Reload, Rebuild, Go
  <2> QED
    BY <1>1, <2>3, <2>4 DEF GatewayTyped, g
<1>3. CASE Rebuild(t)
  <2>own. gateways[g] \in Gateways
    BY <1>1
  <2>1. gateways[g].cfg \in BOOLEAN /\ gateways[g].bus \in BOOLEAN
    BY <2>own DEF Gateways
  <2>3. ~Reload(t)
    BY <1>3 DEF Reload, Rebuild, Go
  <2>4. CASE "cloud" \in DOMAIN ask[t].set
    <3>1. gateways' = [gateways EXCEPT ![g].bus = gateways[g].cfg]
      BY <1>3, <2>4 DEF Rebuild, g
    <3>2. /\ gateways' \in Seq(Gateways) /\ Len(gateways') = Len(gateways)
          /\ \A k \in 1..Len(gateways) : k # g => gateways'[k] = gateways[k]
          /\ gateways'[g].cfg = gateways[g].cfg /\ gateways'[g].bus = gateways[g].cfg
      <4> DEFINE b == gateways[g].cfg
                 c == [gateways[g] EXCEPT !.bus = b]
      <4>1. b \in BOOLEAN /\ gateways[g] \in Gateways /\ gateways[g].cfg \in BOOLEAN
            /\ gateways[g].bus \in BOOLEAN
        BY <2>own, <2>1
      <4> HIDE DEF b
      <4>2. c = [cfg |-> gateways[g].cfg, bus |-> b]
        BY <4>1 DEF Gateways
      <4>3. c \in Gateways /\ c.cfg = gateways[g].cfg /\ c.bus = b
        BY <4>1, <4>2 DEF Gateways
      <4>4. gateways' = [gateways EXCEPT ![g] = c]
        BY <3>1 DEF b
      <4> HIDE DEF c
      <4>5. /\ gateways' \in Seq(Gateways) /\ Len(gateways') = Len(gateways)
            /\ \A k \in 1..Len(gateways) : k # g => gateways'[k] = gateways[k]
            /\ gateways'[g] = c
        BY <1>1, <4>3, <4>4
      <4> QED
        BY <4>3, <4>5 DEF b
    <3> QED
      BY <1>1, <2>3, <3>2 DEF GatewayTyped, g
  <2>5. CASE "cloud" \notin DOMAIN ask[t].set
    <3>1. gateways' = gateways
      BY <1>3, <2>5 DEF Rebuild
    <3> QED
      BY <1>1, <2>3, <3>1 DEF GatewayTyped, g
  <2> QED
    BY <2>4, <2>5
<1> QED
  BY <1>2, <1>3

\* The steps of a settings request keep the types.
LEMMA PutTyped ==
    ASSUME Typed, MineInv, NEW t \in Writers, Put(t)
    PROVE  Typed' /\ MineInv'
<1>1. /\ FileTyped /\ GatewayTyped /\ PcTyped /\ MineTyped /\ OpenTyped /\ RunTyped
      /\ t \in Threads /\ ask[t] \in Asks
      /\ DOMAIN local \subseteq Sections /\ DOMAIN read[t] \subseteq Sections
  BY DEF Typed, Threads, FileTyped
<1>2. UNCHANGED runs /\ ask' = ask /\ mine' = mine
  BY DEF Put, StartPut, ReadLocal, Truncate, Dump, Overwrite, Unlink, DumpLost, UnlinkFails,
         LoadSaved, Reset, Reload, Rebuild, settings, threads
<1>3. RunTyped'
  <2>1. overlap' = (overlap \/ Overlap')
    BY DEF Put, StartPut, ReadLocal, Truncate, Dump, Overwrite, Unlink, DumpLost, UnlinkFails,
           LoadSaved, Reset, Reload, Rebuild, Go, Moving
  <2>2. off' \in BOOLEAN /\ offSince' \subseteq Scans
    BY <1>1 DEF Put, StartPut, ReadLocal, Truncate, Dump, Overwrite, Unlink, DumpLost,
           UnlinkFails, LoadSaved, Reset, Reload, Rebuild, turned, Answered, RunTyped
  <2>3. overlap' \in BOOLEAN
    BY <1>1, <2>1, OverlapTyped DEF RunTyped
  <2> QED
    BY <1>1, <1>2, <2>2, <2>3 DEF RunTyped, runs
<1>4. ASSUME NEW from, NEW to \in WriterPcs, Go(t, from, to),
             to \in {"reload", "rebuild"} => from \in {"reload", "rebuild"},
             opening' \subseteq opening /\ (t \in opening' => from \notin Loads),
             FileTyped', GatewayTyped', Len(gateways') = Len(gateways),
             read' = [read EXCEPT ![t] = read'[t]]
      PROVE  Typed' /\ MineInv'
  <2>1. /\ PcTyped' /\ pc[t] = from /\ pc'[t] = to
        /\ \A u \in Threads : u # t => pc'[u] = pc[u]
    BY <1>1, <1>4, OfAKind, Going
  <2>2. to \notin {"stages", "publish", "respond"}
    BY <1>4 DEF WriterPcs, Getting
  <2>3. MineInv'
    BY <1>2, <1>4, <2>1, <2>2 DEF MineInv
  <2>4. MineTyped'
    BY <1>1, <1>2, <1>4 DEF MineTyped
  <2>5. OpenTyped'
    BY <1>1, <1>4, <2>1, Opened
  <2> QED
    BY <1>3, <1>4, <2>1, <2>3, <2>4, <2>5 DEF Typed
<1>5. read = [read EXCEPT ![t] = read[t]]
  BY <1>1 DEF MineTyped
<1>6. /\ {"read", "truncate", "unlink", "saved", "reset", "check", "rebuild", "done", "failed"}
            \subseteq WriterPcs
      /\ {"start", "overwrite", "lost", "unlink", "reset", "rebuild"} \intersect Loads = {}
  BY DEF WriterPcs, Getting, Loads
<1>7. ASSUME UNCHANGED <<settings, gateway, gateways, read>> PROVE FileTyped' /\ GatewayTyped'
  BY <1>1, <1>7 DEF FileTyped, GatewayTyped, settings
<1>8. CASE StartPut(t)
  <2>1. UNCHANGED <<settings, gateway, gateways, opening, read>> /\ Go(t, "start", "read")
    BY <1>8 DEF StartPut, threads
  <2> QED
    BY <1>4, <1>5, <1>6, <1>7, <2>1
<1>9. CASE ReadLocal(t)
  <2> DEFINE to == IF ask[t].op = "put" \/ DOMAIN Rewritten(ask[t], local) # {} THEN "truncate"
                   ELSE IF t \in opening THEN "unlink" ELSE "saved"
  <2>1. to \in {"truncate", "unlink", "saved"}
    OBVIOUS
  <2>2. /\ Go(t, "read", to) /\ read' = [read EXCEPT ![t] = local] /\ read'[t] = local
        /\ UNCHANGED <<settings, gateway, gateways>> /\ opening' = opening \ {t}
    BY <1>1, <1>9 DEF ReadLocal, Reads, MineTyped
  <2> HIDE DEF to
  <2>3. FileTyped' /\ GatewayTyped'
    BY <1>1, <2>2 DEF FileTyped, GatewayTyped, MineTyped, settings
  <2>4. to \in WriterPcs /\ to \notin {"reload", "rebuild"}
    BY <1>6, <2>1
  <2> QED
    BY <1>4, <2>2, <2>3, <2>4
<1>10. CASE Truncate(t) \/ Dump(t) \/ Unlink(t)
  <2>1. /\ FileTyped' /\ GatewayTyped' /\ read' = read /\ opening' = opening
        /\ gateways' = gateways
    <3>1. UNCHANGED <<gateway, gateways, opening, read>>
      BY <1>10 DEF Truncate, Dump, Unlink, threads
    <3>2. DOMAIN local' \subseteq Sections /\ (disk' = "yaml" \/ (disk' = "none" /\ DOMAIN local' = {}))
      <4>1. CASE Dump(t)
        <5>1. DOMAIN Rewritten(ask[t], read[t]) \subseteq Sections
          BY <1>1, MergedSections
        <5>2. local' = Rewritten(ask[t], read[t]) /\ disk' = "yaml"
          BY <4>1 DEF Dump
        <5> QED
          BY <5>1, <5>2
      <4>2. CASE Truncate(t) \/ Unlink(t)
        BY <4>2, EmptyOff DEF Truncate, Unlink
      <4> QED
        BY <1>10, <4>1, <4>2
    <3> QED
      BY <1>1, <1>2, <3>1, <3>2 DEF FileTyped, GatewayTyped
  <2>2. /\ PcTyped' /\ pc[t] \in {"truncate", "dump", "unlink"}
        /\ pc'[t] \in {"dump", "saved"}
        /\ \A u \in Threads : u # t => \/ pc'[u] = pc[u]
                                       \/ pc[u] \in Writing /\ pc'[u] \in Writing
    <3>1. PcTyped
      BY <1>1
    <3>2. pc'[t] = IF pc[t] = "truncate" THEN "dump" ELSE "saved"
      BY <1>10, <3>1, Writes
    <3>3. /\ PcTyped' /\ pc[t] \in {"truncate", "dump", "unlink"}
          /\ \A u \in Threads : u # t => \/ pc'[u] = pc[u]
                                         \/ pc[u] \in Writing /\ pc'[u] \in Writing
      BY <1>10, <3>1, Writes
    <3>4. pc'[t] \in {"dump", "saved"}
      BY <3>2
    <3> QED
      BY <3>3, <3>4
  <2>3. OpenTyped'
    BY <1>1, <2>1, <2>2, Opened DEF Loads
  <2>4. MineInv'
    BY <1>2, <2>2 DEF MineInv, Writing
  <2>5. MineTyped'
    BY <1>1, <1>2, <2>1 DEF MineTyped
  <2> QED
    BY <1>3, <2>1, <2>2, <2>3, <2>4, <2>5 DEF Typed
<1>11. CASE Overwrite(t)
  <2>1. /\ UNCHANGED <<gateway, gateways, opening, read>> /\ Go(t, "overwrite", "saved")
        /\ \/ disk' = "garbage" /\ local' = Empty
           \/ /\ disk' = "yaml"
              /\ \E kept \in SUBSET DOMAIN local :
                    local' = Merge(Rewritten(ask[t], read[t]), Restrict(local, kept))
    BY <1>11 DEF Overwrite, threads
  <2>2. FileTyped'
    <3>1. CASE disk' = "garbage" /\ local' = Empty
      BY <1>1, <1>2, <2>1, <3>1, EmptyOff DEF FileTyped
    <3>2. CASE disk' = "yaml" /\ \E kept \in SUBSET DOMAIN local :
                 local' = Merge(Rewritten(ask[t], read[t]), Restrict(local, kept))
      <4>1. PICK kept \in SUBSET DOMAIN local :
               local' = Merge(Rewritten(ask[t], read[t]), Restrict(local, kept))
        BY <3>2
      <4>2. DOMAIN Rewritten(ask[t], read[t]) \subseteq Sections
        BY <1>1, MergedSections
      <4>3. DOMAIN local' \subseteq Sections
        BY <1>1, <4>1, <4>2 DEF Merge, Restrict
      <4> QED
        BY <1>1, <1>2, <2>1, <3>2, <4>3 DEF FileTyped
    <3> QED
      BY <2>1, <3>1, <3>2
  <2>3. GatewayTyped'
    BY <1>1, <2>1 DEF GatewayTyped
  <2> QED
    BY <1>4, <1>5, <1>6, <2>1, <2>2, <2>3
<1>12. CASE DumpLost(t) \/ UnlinkFails(t) \/ LoadSaved(t) \/ Reset(t)
  <2>1. /\ UNCHANGED <<settings, gateways, read>>
        /\ \E from, to \in {"lost", "unlink", "saved", "reset", "check", "failed"} :
              /\ Go(t, from, to)
              /\ opening' \subseteq opening /\ (t \in opening' => from \notin Loads)
    <3>1. CASE LoadSaved(t)
      BY <3>1 DEF LoadSaved, Reads
    <3>2. CASE DumpLost(t) \/ UnlinkFails(t) \/ Reset(t)
      BY <1>6, <3>2 DEF DumpLost, UnlinkFails, Reset, threads
    <3> QED
      BY <1>12, <3>1, <3>2
  <2>2. FileTyped'
    BY <1>1, <2>1 DEF FileTyped, settings
  <2>3. GatewayTyped'
    <3>1. gateway' \in {gateway, 0}
      BY <1>12 DEF DumpLost, UnlinkFails, LoadSaved, Reset
    <3> QED
      BY <1>1, <2>1, <3>1 DEF GatewayTyped
  <2>4. PICK from, to \in {"lost", "unlink", "saved", "reset", "check", "failed"} :
              /\ Go(t, from, to)
              /\ opening' \subseteq opening /\ (t \in opening' => from \notin Loads)
    BY <2>1
  <2>5. to \in WriterPcs /\ to \notin {"reload", "rebuild"}
    BY <2>4 DEF WriterPcs, Getting
  <2> QED
    BY <1>4, <1>5, <2>1, <2>2, <2>3, <2>4, <2>5
<1>13. CASE Reload(t) \/ Rebuild(t)
  <2>1. GatewayTyped' /\ Len(gateways') = Len(gateways)
    BY <1>13, FlagSteps
  <2>2. FileTyped' /\ read' = read
    BY <1>1, <1>13 DEF Reload, Rebuild, FileTyped, settings, threads
  <2> QED
    BY <1>4, <1>5, <1>6, <1>13, <2>1, <2>2 DEF Reload, Rebuild, Reads, threads
<1> QED
  BY <1>8, <1>9, <1>10, <1>11, <1>12, <1>13 DEF Put

\* Every step keeps the types.
LEMMA StepTyped == Typed /\ MineInv /\ [Next]_vars => Typed' /\ MineInv'
<1> SUFFICES ASSUME Typed, MineInv, [Next]_vars PROVE Typed' /\ MineInv'
  OBVIOUS
<1>1. CASE UNCHANGED vars
  BY <1>1 DEF vars, settings, threads, runs, turned, Typed, FileTyped, GatewayTyped, PcTyped,
              MineTyped, OpenTyped, RunTyped, MineInv
<1>2. CASE Next
  BY <1>2, FileStepsTyped, GetTyped, ScanTyped, PutTyped DEF Next
<1> QED
  BY <1>1, <1>2

--------------------------------------------------------------------------------
(* A run.                                                                      *)

\* The order of the stages ends with the audit, and has no other one.
AuditLast == /\ Order # <<>>
             /\ \A i \in DOMAIN Order : Order[i] = "audit" <=> i = Len(Order)

\* A run that is not touched, and does not end, is as it was.
LEMMA RunKept ==
    ASSUME NEW t \in Scans, RunInv(t), event'[t] = event[t], audits \subseteq audits',
           pc'[t] \in {"publish", "respond", "done"} => pc[t] \in {"publish", "respond", "done"}
    PROVE  RunInv(t)'
  BY DEF RunInv, Clean

\* A stage keeps the invariant of its run: a status more, and its record if it is the
\* last one.
LEMMA StageRun ==
    ASSUME Typed, AuditLast, NEW t \in Scans, RunInv(t), RunStage(t)
    PROVE  RunInv(t)' /\ audits \subseteq audits' /\ \A u \in Scans : u # t => event'[u] = event[u]
<1> DEFINE e == event[t]
           n == Len(e.results)
<1>1. e \in Events /\ pc[t] = "stages" /\ pc' = pc /\ n + 1 \in DOMAIN Order /\ ShouldContinue(e)
  BY DEF RunStage, Typed, RunTyped
<1>2. /\ e.results \in Seq(Statuses) /\ n \in Nat /\ e.overall \in {"PASS", "WARN"}
      /\ Order \in Seq({"integrity", "threat_scanner", "privacy", "audit"})
  BY <1>1, ScanAssumption DEF Events, ShouldContinue, Bad
<1>3. PICK status \in Outcomes(Order[n + 1], t) :
         /\ event' = [event EXCEPT ![t] = AddStage(e, status)]
         /\ audits' = IF Order[n + 1] = "audit" /\ status = "PASS"
                      THEN audits \union {Record(t)} ELSE audits
  BY DEF RunStage
<1>4. status \in Statuses /\ (Order[n + 1] = "audit" => status \in {"PASS", "ERROR"})
  BY <1>1, <1>3, StageOutcome
<1> DEFINE f == AddStage(e, status)
<1>5. event'[t] = f /\ \A u \in Scans : u # t => event'[u] = event[u]
  BY <1>3 DEF Typed, RunTyped
<1>6. /\ f.results = Append(e.results, status)
      /\ status \in Bad => f.overall = "FAIL"
      /\ status \notin Bad /\ status = "WARN" /\ e.overall = "PASS" => f.overall = "WARN"
      /\ status \notin Bad /\ ~(status = "WARN" /\ e.overall = "PASS") => f.overall = e.overall
  BY <1>1, <1>4, AddedStage
<1> HIDE DEF f
<1>7. /\ Len(f.results) = n + 1 /\ DOMAIN f.results = 1..(n + 1) /\ DOMAIN e.results = 1..n
      /\ f.results[n + 1] = status /\ \A i \in 1..n : f.results[i] = e.results[i]
      /\ SubSeq(f.results, 1, n) = e.results
  <2>1. /\ Len(f.results) = n + 1 /\ DOMAIN f.results = 1..(n + 1) /\ DOMAIN e.results = 1..n
        /\ f.results[n + 1] = status /\ \A i \in 1..n : f.results[i] = e.results[i]
    BY <1>2, <1>4, <1>6
  <2>2. SubSeq(f.results, 1, n) = e.results
    BY <1>2, <1>4, <1>6
  <2> QED
    BY <2>1, <2>2
<1>8. Clean(e.results) /\ n + 1 <= Len(Order) /\ Len(Order) \in Nat
  BY <1>1, <1>2 DEF RunInv
<1>9. IF f.overall = "FAIL"
      THEN {i \in DOMAIN f.results : f.results[i] \in Bad} = {n + 1} ELSE Clean(f.results)
  <2>1. \A i \in 1..n : f.results[i] \notin Bad
    BY <1>7, <1>8 DEF Clean
  <2>2. CASE status \in Bad
    BY <1>2, <1>6, <1>7, <2>1, <2>2
  <2>3. CASE status \notin Bad
    <3>1. f.overall # "FAIL"
      BY <1>2, <1>6, <2>3
    <3> QED
      BY <1>2, <1>7, <2>1, <2>3, <3>1 DEF Clean
  <2> QED
    BY <2>2, <2>3
<1>10. /\ f.overall = "WARN" => \E i \in DOMAIN f.results : f.results[i] = "WARN"
       /\ f.overall = "PASS" => \A i \in DOMAIN f.results : f.results[i] # "WARN"
  <2>1. /\ e.overall = "WARN" => \E i \in 1..n : e.results[i] = "WARN"
        /\ e.overall = "PASS" => \A i \in 1..n : e.results[i] # "WARN"
    BY <1>7 DEF RunInv
  <2>2. f.overall = "WARN" => status = "WARN" \/ e.overall = "WARN"
    BY <1>2, <1>6
  <2>3. f.overall = "PASS" => status # "WARN" /\ e.overall = "PASS"
    BY <1>2, <1>6 DEF Bad
  <2>4. ASSUME f.overall = "WARN" PROVE \E i \in 1..(n + 1) : f.results[i] = "WARN"
    <3>1. CASE status = "WARN"
      BY <1>2, <1>7, <3>1
    <3>2. CASE e.overall = "WARN"
      <4>1. PICK i \in 1..n : e.results[i] = "WARN"
        BY <2>1, <3>2
      <4>2. i \in 1..(n + 1) /\ f.results[i] = "WARN"
        BY <1>2, <1>7, <4>1
      <4> QED
        BY <4>2
    <3> QED
      BY <2>2, <2>4, <3>1, <3>2
  <2>5. ASSUME f.overall = "PASS", NEW i \in 1..(n + 1) PROVE f.results[i] # "WARN"
    <3>1. CASE i = n + 1
      BY <1>7, <2>3, <2>5, <3>1
    <3>2. CASE i \in 1..n
      BY <1>7, <2>1, <2>3, <2>5, <3>2
    <3> QED
      BY <1>2, <3>1, <3>2
  <2>6. DOMAIN f.results = 1..(n + 1)
    BY <1>7
  <2>7. f.overall = "WARN" => \E i \in DOMAIN f.results : f.results[i] = "WARN"
    BY <2>4, <2>6
  <2>8. f.overall = "PASS" => \A i \in DOMAIN f.results : f.results[i] # "WARN"
    BY <2>5, <2>6
  <2> QED
    BY <2>7, <2>8
<1>11. ASSUME f.overall # "FAIL", n + 1 = Len(Order)
       PROVE  [scan |-> t, overall |-> f.overall, results |-> SubSeq(f.results, 1, n)] \in audits'
  <2>1. Order[n + 1] = "audit"
    BY <1>1, <1>11 DEF AuditLast
  <2>2. status = "PASS"
    BY <1>4, <1>6, <1>11, <2>1 DEF Bad
  <2>3. f.overall = e.overall
    BY <1>6, <2>2 DEF Bad
  <2>4. Record(t) = [scan |-> t, overall |-> f.overall, results |-> SubSeq(f.results, 1, n)]
    BY <1>7, <2>3 DEF Record
  <2> QED
    BY <1>3, <2>1, <2>2, <2>4
<1>12. Len(f.results) - 1 = n
  BY <1>2, <1>7
<1>13. RunInv(t)'
  BY <1>1, <1>5, <1>7, <1>8, <1>9, <1>10, <1>11, <1>12 DEF RunInv, Clean
<1> QED
  BY <1>3, <1>5, <1>13

\* Every step keeps the invariant of every run.
LEMMA RunStep ==
    ASSUME Typed, AuditLast, \A t \in Scans : RunInv(t), [Next]_vars
    PROVE  \A t \in Scans : RunInv(t)'
<1> DEFINE Ended == {"publish", "respond", "done"}
<1>1. PcTyped
  BY DEF Typed
<1>2. CASE /\ event' = event /\ audits' = audits
           /\ \A t \in Scans : pc'[t] \in Ended => pc[t] \in Ended
  BY <1>2, RunKept
<1>3. CASE UNCHANGED vars
  BY <1>2, <1>3 DEF vars, runs
<1>4. ASSUME NEW t \in Threads, GetGateway(t) PROVE \A u \in Scans : RunInv(u)'
  <2>1. event' = event /\ audits' = audits
    BY <1>4 DEF GetGateway, Check, LoadConfig, Assign, Return, runs
  <2>2. \A u \in Scans : pc'[u] = pc[u] \/ pc'[u] \notin Ended
    BY <1>1, <1>4, OfAKind
       DEF GetGateway, Check, LoadConfig, Assign, Return, Go, Moving, PcTyped, Threads
  <2> QED
    BY <1>2, <2>1, <2>2
<1>5. ASSUME NEW t \in Writers, Put(t) PROVE \A u \in Scans : RunInv(u)'
  <2>1. event' = event /\ audits' = audits
    BY <1>5 DEF Put, StartPut, ReadLocal, Truncate, Dump, Overwrite, Unlink, DumpLost,
                UnlinkFails, LoadSaved, Reset, Reload, Rebuild, runs
  <2>2. \A u \in Scans : u # t
    BY ScanAssumption
  <2>3. CASE Truncate(t) \/ Dump(t) \/ Unlink(t)
    <3>1. \A u \in Scans : pc'[u] = pc[u]
      BY <1>1, <2>3, Writes
    <3> QED
      BY <1>2, <2>1, <3>1
  <2>4. CASE ~(Truncate(t) \/ Dump(t) \/ Unlink(t))
    <3>1. \A u \in Scans : pc'[u] = pc[u]
      BY <1>1, <1>5, <2>2, <2>4
         DEF Put, StartPut, ReadLocal, Overwrite, DumpLost, UnlinkFails, LoadSaved, Reset,
             Reload, Rebuild, Go, Moving, PcTyped, Threads
    <3> QED
      BY <1>2, <2>1, <3>1
  <2> QED
    BY <2>3, <2>4
<1>6. ASSUME NEW t \in Scans, Scan(t) PROVE \A u \in Scans : RunInv(u)'
  <2>1. CASE RunStage(t)
    <3>1. pc' = pc
      BY <2>1 DEF RunStage
    <3> QED
      BY <2>1, <3>1, StageRun, RunKept
  <2>2. CASE EndRun(t)
    <3>1. /\ pc[t] = "stages" /\ pc'[t] = "publish" /\ event' = event /\ audits' = audits
          /\ \A u \in Scans : u # t => pc'[u] = pc[u]
      BY <1>1, <2>2 DEF EndRun, Go, Moving, PcTyped, Threads, runs
    <3>2. event[t] \in Events
      BY DEF Typed, RunTyped
    <3>3. event[t].overall = "FAIL" \/ Len(event[t].results) = Len(Order)
      BY <2>2, <3>2 DEF EndRun, ShouldContinue, Bad, Events
    <3>4. RunInv(t)'
      BY <3>1, <3>3 DEF RunInv, Clean
    <3> QED
      BY <3>1, <3>4, RunKept
  <2>3. CASE StartScan(t) \/ RefuseScan(t) \/ Publish(t) \/ Respond(t)
    <3>1. event' = event /\ audits' = audits
      BY <2>3 DEF StartScan, RefuseScan, Publish, Respond, runs
    <3>2. \A u \in Scans : pc'[u] \in Ended => pc[u] \in Ended
      BY <1>1, <2>3
         DEF StartScan, RefuseScan, Publish, Respond, Go, Moving, PcTyped, Threads
    <3> QED
      BY <1>2, <3>1, <3>2
  <2> QED
    BY <1>6, <2>1, <2>2, <2>3 DEF Scan
<1>7. ASSUME NEW t \in Threads, FindFile(t) \/ LoadFails(t) PROVE \A u \in Scans : RunInv(u)'
  <2>1. event' = event /\ audits' = audits
    BY <1>7 DEF FindFile, LoadFails, runs
  <2>2. \A u \in Scans : pc'[u] = pc[u] \/ pc'[u] \notin Ended
    BY <1>1, <1>7 DEF FindFile, LoadFails, Go, Moving, PcTyped, Threads
  <2> QED
    BY <1>2, <2>1, <2>2
<1> QED
  BY <1>3, <1>4, <1>5, <1>6, <1>7 DEF Next

--------------------------------------------------------------------------------
(* The cloud.                                                                  *)

\* The invariant of the cloud holds at the start.
LEMMA StartsCloud == Init => CloudInv
<1> SUFFICES ASSUME Init PROVE CloudInv
  OBVIOUS
<1>1. /\ \A t \in Threads : pc[t] = "start" /\ read[t] = local
      /\ \A w \in Writers : pc[w] = "start"
      /\ opening = {} /\ forwarded = {} /\ reported = {} /\ offSince = {} /\ off = FALSE
      /\ disk # "garbage"
  BY DEF Init, Threads
<1>2. \A i \in DOMAIN gateways : gateways[i] = Gateway(local)
  <2>1. gateways = <<>> \/ gateways = <<Gateway(local)>>
    BY DEF Init
  <2> QED
    BY <2>1
<1>3. gateway # 0 => gateway \in DOMAIN gateways
  <2>1. gateway = Len(gateways) /\ (gateways = <<>> \/ gateways = <<Gateway(local)>>)
    BY DEF Init
  <2> QED
    BY <2>1
<1>4. Gateway(local).cfg = CloudIn(local) /\ Gateway(local).bus = CloudIn(local)
  BY DEF Gateway
<1>5. BusInv
  BY <1>2, <1>4 DEF BusInv
<1>6. FreshInv
  BY <1>1, <1>2, <1>3, <1>4 DEF FreshInv
<1>7. WriterInv
  BY <1>1 DEF WriterInv, Saved
<1>8. OffInv /\ ForwardInv
  BY <1>1 DEF OffInv, ForwardInv, Threads
<1>9. ~Overlap
  BY <1>1 DEF Overlap, AtWork
<1> QED
  BY <1>5, <1>6, <1>7, <1>8, <1>9 DEF CloudInv, Cloudy

\* As long as no two overlap, the other settings requests have not begun or have ended.
LEMMA Alone ==
    ASSUME ~Overlap, NEW t \in Writers, AtWork(t), NEW w \in Writers, w # t
    PROVE  pc[w] \in {"start", "done", "failed"}
  BY DEF Overlap, AtWork

\* A step of which a scan sees nothing leaves it as it was.
LEMMA ForwardKept ==
    ASSUME ForwardInv, UNCHANGED <<forwarded, reported>>,
           \A u \in Scans :
              /\ pc'[u] = pc[u] /\ mine'[u] = mine[u]
              /\ pc[u] \in {"stages", "publish", "respond"} =>
                    (gateways'[mine[u]].bus <=> gateways[mine[u]].bus),
           \A u \in offSince' : u \in offSince /\ off'
    PROVE  ForwardInv'
  BY DEF ForwardInv

\* Once a settings request that turns the cloud off is answered, it is off.
LEMMA AnsweredOff ==
    ASSUME WriterInv, FreshInv, ~Overlap, NEW t \in Writers, pc[t] \in {"return", "rebuild"},
           TurnsOff(ask[t])
    PROVE  /\ ~CloudIn(local)
           /\ gateway # 0 => ~gateways[gateway].cfg
           /\ \A u \in Threads : pc[u] = "assign" => ~CloudIn(read[u])
<1>1. AtWork(t)
  BY DEF AtWork
<1>2. \A w \in Writers : w # t => pc[w] \in {"start", "done", "failed"}
  BY <1>1, Alone
<1>3. \A w \in Writers : pc[w] \notin Saving
  BY <1>2 DEF Saving, Writing
<1>4. ~CloudIn(local)
  BY DEF WriterInv, Saved
<1> QED
  BY <1>3, <1>4 DEF FreshInv

\* The steps of get_gateway(): what is built says what the file says, or will be dropped.
LEMMA GetCloud ==
    ASSUME Typed, MineInv, Cloudy, ~Overlap, NEW t \in Threads, GetGateway(t)
    PROVE  Cloudy'
<1>1. /\ FileTyped /\ GatewayTyped /\ PcTyped /\ MineTyped /\ OpenTyped /\ RunTyped
      /\ BusInv /\ FreshInv /\ WriterInv /\ OffInv /\ ForwardInv
  BY DEF Typed, Cloudy
<1>2. /\ gateways \in Seq(Gateways) /\ Len(gateways) \in Nat
      /\ DOMAIN gateways = 1..Len(gateways) /\ gateway \in Nat /\ gateway <= Len(gateways)
  <2>1. gateways \in Seq(Gateways)
    BY <1>1 DEF GatewayTyped
  <2>2. Len(gateways) \in Nat
    BY <2>1
  <2> QED
    BY <1>1, <2>1, <2>2 DEF GatewayTyped
<1>3. UNCHANGED <<local, disk, ask, forwarded, reported, offSince>>
  BY DEF GetGateway, Check, LoadConfig, Assign, Return, settings, runs, turned, Answered
<1>4. /\ pc[t] \in {"check", "load", "assign", "return"}
      /\ \A u \in Threads : u # t => pc'[u] = pc[u]
      /\ pc'[t] \in Getting \union {"stages", "reload", "done"}
      /\ t \in Scans => pc'[t] \in Getting \union {"stages"}
  BY <1>1, OfAKind DEF GetGateway, Check, LoadConfig, Assign, Return, Go, Moving, PcTyped, Getting
<1>5. t \in Scans => t \notin forwarded /\ t \notin reported
  BY <1>1, <1>4 DEF ForwardInv
<1>6. /\ \A w \in Writers : pc'[w] \in Saving <=> pc[w] \in Saving
      /\ \A w \in Writers : AtWork(w)' => AtWork(w)
      /\ \A w \in Writers : pc'[w] \notin {"overwrite", "lost"}
      /\ \A w \in Writers : pc'[w] \in {"truncate", "dump"} => pc'[w] = pc[w] /\ w # t
      /\ \A w \in Writers : pc'[w] \in Saved => pc[w] \in Saved
  BY <1>1, <1>4 DEF Saving, Writing, Saved, AtWork, Getting, WriterInv, Threads
<1>7. opening' \subseteq opening
  BY DEF GetGateway, Check, LoadConfig, Assign, Return, threads, Reads
<1>8. CASE Check(t) \/ LoadConfig(t)
  <2>1. UNCHANGED <<gateway, gateways, mine, off>>
    BY <1>8 DEF Check, LoadConfig, threads, turned
  <2>2. /\ pc'[t] \in {"load", "return", "assign"}
        /\ pc'[t] = "assign" => read'[t] = local
        /\ \A u \in Threads : u # t => read'[u] = read[u]
    BY <1>1, <1>8 DEF Check, LoadConfig, Go, Moving, PcTyped, MineTyped, threads
  <2>3. BusInv'
    BY <1>1, <2>1 DEF BusInv
  <2>4. FreshInv'
    BY <1>1, <1>3, <1>4, <1>6, <2>1, <2>2 DEF FreshInv
  <2>5. WriterInv'
    BY <1>1, <1>3, <1>4, <1>6, <1>7, <2>1, <2>2 DEF WriterInv, Threads
  <2>6. OffInv'
    BY <1>1, <1>3, <1>4, <1>6, <2>1, <2>2 DEF OffInv, Threads
  <2>7. ForwardInv'
    BY <1>1, <1>3, <1>4, <1>5, <2>1, <2>2 DEF ForwardInv, Threads
  <2> QED
    BY <2>3, <2>4, <2>5, <2>6, <2>7 DEF Cloudy
<1>9. CASE Assign(t)
  <2> DEFINE n == Len(gateways)
             c == CloudIn(read[t])
  <2>1. /\ UNCHANGED <<mine, read, off>> /\ pc[t] = "assign" /\ pc'[t] = "return"
        /\ gateways' = Append(gateways, Gateway(read[t])) /\ gateway' = Len(gateways')
    BY <1>1, <1>9 DEF Assign, Go, Moving, PcTyped, threads, turned
  <2>2. c \in BOOLEAN /\ Gateway(read[t]) = [cfg |-> c, bus |-> c]
    BY DEF CloudIn, Gateway
  <2>3. Gateway(read[t]) \in Gateways /\ Gateway(read[t]).cfg = c /\ Gateway(read[t]).bus = c
    BY <2>2 DEF Gateways
  <2>4. /\ Len(gateways') = n + 1 /\ DOMAIN gateways' = 1..(n + 1)
        /\ \A k \in 1..n : gateways'[k] = gateways[k]
        /\ gateways'[n + 1].cfg = c /\ gateways'[n + 1].bus = c
        /\ gateway' = n + 1
    BY <1>2, <2>1, <2>3
  <2>5. \A u \in Threads : pc[u] \in {"stages", "publish", "respond", "reload", "rebuild"} =>
                              gateways'[mine[u]] = gateways[mine[u]]
    BY <1>1, <1>2, <2>4 DEF MineInv, MineTyped
  <2> HIDE DEF n
  <2>6. BusInv'
    <3>1. ASSUME NEW i \in 1..(n + 1) PROVE gateways'[i].cfg <=> gateways'[i].bus
      <4>1. CASE i = n + 1
        BY <2>4, <4>1
      <4>2. CASE i # n + 1
        <5>1. i \in 1..n
          BY <1>2, <3>1, <4>2 DEF n
        <5> QED
          BY <1>1, <1>2, <2>4, <5>1 DEF BusInv, n
      <4> QED
        BY <4>1, <4>2
    <3> QED
      BY <2>4, <3>1 DEF BusInv
  <2>7. FreshInv'
    BY <1>1, <1>3, <1>4, <1>6, <2>1, <2>4 DEF FreshInv
  <2>8. WriterInv'
    <3>1. \A w \in Writers : pc'[w] \in {"reload", "rebuild"} =>
             (gateways'[mine'[w]].cfg <=> CloudIn(local'))
      BY <1>1, <1>3, <1>4, <2>1, <2>5 DEF WriterInv, Threads
    <3> QED
      BY <1>1, <1>3, <1>6, <1>7, <3>1 DEF WriterInv
  <2>9. OffInv'
    BY <1>1, <1>3, <1>4, <1>6, <2>1, <2>4 DEF OffInv, Threads
  <2>10. ForwardInv'
    BY <1>1, <1>3, <1>4, <1>5, <2>1, <2>5 DEF ForwardInv, Threads
  <2> QED
    BY <2>6, <2>7, <2>8, <2>9, <2>10 DEF Cloudy
<1>10. CASE Return(t)
  <2>1. /\ UNCHANGED <<gateway, gateways, read>> /\ mine'[t] = gateway
        /\ \A u \in Threads : u # t => mine'[u] = mine[u]
        /\ pc[t] = "return" /\ pc'[t] \in {"failed", "stages", "reload", "done"}
        /\ pc'[t] \in {"stages", "reload"} => gateway # 0
        /\ t \in Scans => off' = off
        /\ off' = off \/ (off' = (off \/ TurnsOff(ask[t])) /\ t \in Writers)
        /\ off' # off => pc'[t] = "done" /\ t \in Writers
    BY <1>1, <1>10, OfAKind
       DEF Return, Go, Moving, PcTyped, MineTyped, turned, Answered
  <2>2. BusInv'
    BY <1>1, <2>1 DEF BusInv
  <2>3. FreshInv'
    BY <1>1, <1>3, <1>4, <1>6, <2>1 DEF FreshInv
  <2>4. ASSUME t \in Writers
        PROVE  /\ \A w \in Writers : w # t => pc[w] \in {"start", "done", "failed"}
               /\ \A w \in Writers : pc[w] \notin Saving
    <3>1. AtWork(t)
      BY <2>1 DEF AtWork
    <3>2. \A w \in Writers : w # t => pc[w] \in {"start", "done", "failed"}
      BY <2>4, <3>1, Alone
    <3> QED
      BY <2>1, <3>2 DEF Saving, Writing
  <2>5. WriterInv'
    <3>1. ASSUME NEW w \in Writers, pc'[w] \in {"reload", "rebuild"}
          PROVE  gateways'[mine'[w]].cfg <=> CloudIn(local')
      <4>1. CASE w = t
        BY <1>1, <1>3, <2>1, <2>4, <3>1, <4>1 DEF FreshInv
      <4>2. CASE w # t
        BY <1>1, <1>3, <1>4, <2>1, <3>1, <4>2 DEF WriterInv, Threads
      <4> QED
        BY <4>1, <4>2
    <3> QED
      BY <1>1, <1>3, <1>6, <1>7, <3>1 DEF WriterInv
  <2>6. OffInv'
    <3>1. CASE off' = off
      BY <1>1, <1>3, <1>4, <1>6, <2>1, <3>1 DEF OffInv, Threads
    <3>2. CASE off' # off /\ off'
      <4>1. TurnsOff(ask[t]) /\ t \in Writers
        BY <1>1, <2>1, <3>2 DEF RunTyped
      <4>2. /\ ~CloudIn(local)
            /\ gateway # 0 => ~gateways[gateway].cfg
            /\ \A u \in Threads : pc[u] = "assign" => ~CloudIn(read[u])
        BY <1>1, <2>1, <4>1, AnsweredOff
      <4>3. \A w \in Writers : ~AtWork(w)'
        BY <1>4, <2>1, <2>4, <3>2, <4>1 DEF AtWork, Threads
      <4> QED
        BY <1>3, <1>4, <2>1, <4>2, <4>3 DEF OffInv
    <3> QED
      BY <3>1, <3>2 DEF OffInv
  <2>7. off => off'
    BY <2>1
  <2>8. ForwardInv'
    <3>1. ASSUME off, gateway # 0 PROVE ~gateways[gateway].bus
      <4>1. gateway \in DOMAIN gateways
        BY <1>2, <3>1
      <4> QED
        BY <1>1, <3>1, <4>1 DEF OffInv, BusInv
    <3>2. t \in Scans => pc'[t] \in {"failed", "stages"}
      BY <1>4, <2>1 DEF Getting
    <3>3. ASSUME NEW u \in Scans
          PROVE  /\ u \in offSince' =>
                      /\ off' /\ pc'[u] # "start" /\ u \notin forwarded'
                      /\ pc'[u] \in {"stages", "publish", "respond"} =>
                            ~gateways'[mine'[u]].bus
                 /\ u \in forwarded' => pc'[u] \in {"respond", "done"}
                 /\ u \in reported' => pc'[u] = "done"
                 /\ pc'[u] = "respond" => (u \in forwarded' <=> gateways'[mine'[u]].bus)
                 /\ pc'[u] = "done" => (u \in reported' <=> u \in forwarded')
      <4>1. CASE u = t
        BY <1>1, <1>3, <1>5, <2>1, <2>7, <3>1, <3>2, <4>1 DEF ForwardInv
      <4>2. CASE u # t
        <5>1. pc'[u] = pc[u] /\ mine'[u] = mine[u]
          BY <1>4, <2>1, <4>2 DEF Threads
        <5> QED
          BY <1>1, <1>3, <2>1, <2>7, <5>1 DEF ForwardInv
      <4> QED
        BY <4>1, <4>2
    <3> QED
      BY <3>3 DEF ForwardInv
  <2> QED
    BY <2>2, <2>3, <2>5, <2>6, <2>8 DEF Cloudy
<1> QED
  BY <1>8, <1>9, <1>10 DEF GetGateway

\* Finding the file; and only a scan finds that it cannot be read after all.
LEMMA FileCloud ==
    ASSUME Typed, MineInv, Cloudy, ~Overlap, NEW t \in Threads, FindFile(t) \/ LoadFails(t)
    PROVE  Cloudy'
<1>1. /\ FileTyped /\ PcTyped /\ OpenTyped
      /\ BusInv /\ FreshInv /\ WriterInv /\ OffInv /\ ForwardInv
  BY DEF Typed, Cloudy
<1>2. UNCHANGED <<local, disk, ask, gateway, gateways, mine, read, forwarded, reported, off, offSince>>
  BY DEF FindFile, LoadFails, settings, runs, turned
<1>3. CASE FindFile(t)
  <2>1. pc' = pc /\ disk = "yaml" /\ opening' = opening \union {t}
    BY <1>1, <1>3 DEF FindFile, FileTyped, WriterInv
  <2>2. WriterInv'
    BY <1>1, <1>2, <2>1 DEF WriterInv
  <2> QED
    BY <1>1, <1>2, <2>1, <2>2 DEF Cloudy, BusInv, FreshInv, OffInv, ForwardInv, AtWork
<1>4. CASE LoadFails(t)
  <2>1. t \notin Writers /\ t \in Scans
    BY <1>1, <1>4, OfAKind DEF LoadFails, WriterInv
  <2>2. /\ pc[t] \in Loads /\ pc'[t] = "failed" /\ opening' \subseteq opening
        /\ \A u \in Threads : u # t => pc'[u] = pc[u]
    BY <1>1, <1>4 DEF LoadFails, Go, Moving, PcTyped
  <2>3. t \notin forwarded /\ t \notin reported
    BY <1>1, <2>1, <2>2 DEF ForwardInv, Loads
  <2>4. \A w \in Writers : pc'[w] = pc[w]
    BY <2>1, <2>2 DEF Threads
  <2>5. FreshInv' /\ WriterInv'
    BY <1>1, <1>2, <2>2, <2>4 DEF FreshInv, WriterInv
  <2>6. OffInv'
    BY <1>1, <1>2, <2>2, <2>4 DEF OffInv, AtWork
  <2>7. ForwardInv'
    BY <1>1, <1>2, <2>2, <2>3 DEF ForwardInv, Threads
  <2> QED
    BY <1>1, <1>2, <2>5, <2>6, <2>7 DEF Cloudy, BusInv
<1> QED
  BY <1>3, <1>4

\* A scan: whether it came in since the cloud was turned off, what its bus did, and what it
\* reports.
LEMMA ScanCloud ==
    ASSUME Typed, MineInv, Cloudy, NEW t \in Scans, Scan(t)
    PROVE  Cloudy'
<1>1. /\ PcTyped /\ MineTyped /\ GatewayTyped
      /\ BusInv /\ FreshInv /\ WriterInv /\ OffInv /\ ForwardInv
      /\ t \in Threads /\ t \notin Writers
  BY ScanAssumption DEF Typed, Cloudy, Threads
<1>2. UNCHANGED <<local, disk, ask, gateway, gateways, mine, read, opening, off>>
  BY DEF Scan, StartScan, RefuseScan, RunStage, EndRun, Publish, Respond, settings, threads,
         turned
<1>3. /\ \A u \in Threads : u # t => pc'[u] = pc[u]
      /\ pc'[t] \notin {"assign", "start"} \/ pc'[t] = pc[t]
  <2>1. CASE RunStage(t)
    BY <2>1 DEF RunStage
  <2>2. CASE StartScan(t) \/ RefuseScan(t) \/ EndRun(t) \/ Publish(t) \/ Respond(t)
    BY <1>1, <2>2 DEF StartScan, RefuseScan, EndRun, Publish, Respond, Go, Moving, PcTyped
  <2> QED
    BY <2>1, <2>2 DEF Scan
<1>4. \A w \in Writers : pc'[w] = pc[w]
  BY <1>1, <1>3 DEF Threads
<1>5. BusInv' /\ WriterInv'
  BY <1>1, <1>2, <1>4 DEF BusInv, WriterInv
<1>6. FreshInv'
  BY <1>1, <1>2, <1>3, <1>4 DEF FreshInv
<1>7. OffInv'
  BY <1>1, <1>2, <1>3, <1>4 DEF OffInv, AtWork
<1>8. CASE StartScan(t)
  <2>1. /\ pc[t] = "start" /\ pc'[t] = "check" /\ UNCHANGED <<forwarded, reported>>
        /\ offSince' = IF off THEN offSince \union {t} ELSE offSince
    BY <1>1, <1>8 DEF StartScan, Go, Moving, PcTyped, runs
  <2> QED
    BY <1>1, <1>2, <1>3, <1>5, <1>6, <1>7, <2>1 DEF Cloudy, ForwardInv, Threads
<1>9. CASE RefuseScan(t) \/ RunStage(t) \/ EndRun(t)
  <2>1. /\ pc[t] \in {"start", "stages"} /\ pc'[t] \in {"refused", "stages", "publish"}
        /\ pc[t] = "start" => pc'[t] = "refused"
        /\ UNCHANGED <<forwarded, reported, offSince>>
    BY <1>1, <1>9 DEF RefuseScan, RunStage, EndRun, Go, Moving, PcTyped, runs, turned
  <2> QED
    BY <1>1, <1>2, <1>3, <1>5, <1>6, <1>7, <2>1 DEF Cloudy, ForwardInv, Threads
<1>10. CASE Publish(t)
  <2>1. /\ pc[t] = "publish" /\ pc'[t] = "respond" /\ UNCHANGED <<reported, offSince>>
        /\ forwarded' = IF gateways[mine[t]].bus THEN forwarded \union {t} ELSE forwarded
    BY <1>1, <1>10 DEF Publish, Go, Moving, PcTyped, turned
  <2>2. t \notin forwarded
    BY <1>1, <2>1 DEF ForwardInv
  <2> QED
    BY <1>1, <1>2, <1>3, <1>5, <1>6, <1>7, <2>1, <2>2 DEF Cloudy, ForwardInv, Threads
<1>11. CASE Respond(t)
  <2>1. /\ pc[t] = "respond" /\ pc'[t] = "done" /\ UNCHANGED <<forwarded, offSince>>
        /\ reported' = IF gateways[mine[t]].cfg THEN reported \union {t} ELSE reported
    BY <1>1, <1>11 DEF Respond, Go, Moving, PcTyped, turned
  <2>2. mine[t] \in DOMAIN gateways
    BY <1>1, <2>1 DEF MineInv, MineTyped, GatewayTyped
  <2>3. gateways[mine[t]].cfg <=> gateways[mine[t]].bus
    BY <1>1, <2>2 DEF BusInv
  <2>4. t \notin reported /\ (t \in forwarded <=> gateways[mine[t]].bus)
    BY <1>1, <2>1 DEF ForwardInv
  <2> QED
    BY <1>1, <1>2, <1>3, <1>5, <1>6, <1>7, <2>1, <2>3, <2>4 DEF Cloudy, ForwardInv, Threads
<1> QED
  BY <1>8, <1>9, <1>10, <1>11 DEF Scan

\* What apply_settings finds is what it sets: the gateway is new, and so is its bus.
LEMMA FlagsKept ==
    ASSUME Typed, MineInv, BusInv, WriterInv, NEW t \in Writers, Reload(t) \/ Rebuild(t)
    PROVE  /\ DOMAIN gateways' = DOMAIN gateways
           /\ \A i \in DOMAIN gateways : /\ gateways'[i].cfg <=> gateways[i].cfg
                                         /\ gateways'[i].bus <=> gateways[i].bus
<1> DEFINE g == mine[t]
<1>1. /\ GatewayTyped' /\ Len(gateways') = Len(gateways) /\ g \in 1..Len(gateways)
      /\ \A k \in 1..Len(gateways) : k # g => gateways'[k] = gateways[k]
      /\ Reload(t) => /\ gateways'[g].cfg = CloudIn(local)
                      /\ gateways'[g].bus = gateways[g].bus
      /\ Rebuild(t) => /\ gateways'[g].cfg = gateways[g].cfg
                       /\ gateways'[g].bus \in {gateways[g].bus, gateways[g].cfg}
  BY FlagSteps
<1>2. DOMAIN gateways = 1..Len(gateways) /\ DOMAIN gateways' = 1..Len(gateways)
  BY <1>1 DEF Typed, GatewayTyped
<1>3. Reload(t) => (gateways[g].cfg <=> CloudIn(local))
  BY DEF Reload, Go, Moving, WriterInv
<1>4. gateways[g].cfg <=> gateways[g].bus
  BY <1>1, <1>2 DEF BusInv
<1> HIDE DEF g
<1>5. (gateways'[g].cfg <=> gateways[g].cfg) /\ (gateways'[g].bus <=> gateways[g].bus)
  BY <1>1, <1>3, <1>4
<1>6. ASSUME NEW i \in DOMAIN gateways
      PROVE  (gateways'[i].cfg <=> gateways[i].cfg) /\ (gateways'[i].bus <=> gateways[i].bus)
  BY <1>1, <1>2, <1>5
<1> QED
  BY <1>2, <1>6

\* A settings request that is alone: it writes what it has read and changed, and drops the
\* gateway before it gets a new one.
LEMMA PutCloud ==
    ASSUME Typed, MineInv, Cloudy, ~Overlap, ~Overlap', NEW t \in Writers, Put(t)
    PROVE  Cloudy'
<1>1. /\ FileTyped /\ PcTyped /\ MineTyped /\ GatewayTyped /\ RunTyped /\ OpenTyped
      /\ BusInv /\ FreshInv /\ WriterInv /\ OffInv /\ ForwardInv
      /\ t \in Threads /\ \A u \in Scans : u # t
      /\ ask[t] \in Asks /\ DOMAIN gateways = 1..Len(gateways)
  BY ScanAssumption DEF Typed, Cloudy, Threads, FileTyped, GatewayTyped
<1>2. UNCHANGED <<ask, mine, forwarded, reported>>
  BY DEF Put, StartPut, ReadLocal, Truncate, Dump, Overwrite, Unlink, DumpLost, UnlinkFails,
         LoadSaved, Reset, Reload, Rebuild, settings, threads, runs
<1>3. CASE StartPut(t)
  <2>1. /\ UNCHANGED <<local, disk, gateway, gateways, read, opening>>
        /\ pc[t] = "start" /\ pc'[t] = "read" /\ \A u \in Threads : u # t => pc'[u] = pc[u]
        /\ off' = (off /\ ~TurnsOn(ask[t]))
        /\ offSince' = IF TurnsOn(ask[t]) THEN {} ELSE offSince
    BY <1>1, <1>3 DEF StartPut, Go, Moving, PcTyped, settings, threads
  <2>2. BusInv' /\ FreshInv'
    BY <1>1, <2>1 DEF BusInv, FreshInv, Saving, Writing, Threads
  <2>3. WriterInv'
    BY <1>1, <1>2, <2>1 DEF WriterInv, Saved, OpenTyped, Loads, Threads
  <2>4. OffInv'
    BY <1>1, <1>2, <2>1 DEF OffInv, AtWork, Threads
  <2>5. ForwardInv'
    <3>1. \A u \in offSince' : u \in offSince /\ off'
      BY <1>1, <2>1 DEF ForwardInv, RunTyped
    <3>2. \A u \in Scans : pc'[u] = pc[u]
      BY <1>1, <2>1 DEF Threads
    <3> QED
      BY <1>1, <1>2, <2>1, <3>1, <3>2, ForwardKept
  <2> QED
    BY <2>2, <2>3, <2>4, <2>5 DEF Cloudy
<1>4. ASSUME ~StartPut(t)
      PROVE  /\ AtWork(t)
             /\ \A w \in Writers : w # t => pc[w] \in {"start", "done", "failed"}
             /\ \A u \in Threads : u # t => pc'[u] = pc[u]
             /\ \A u \in Scans : pc'[u] = pc[u]
             /\ \A w \in Writers : w # t => w \notin opening
             /\ opening' \subseteq opening
             /\ ~Overwrite(t) /\ ~DumpLost(t)
  <2>1. AtWork(t)
    BY <1>4 DEF Put, ReadLocal, Truncate, Dump, Overwrite, Unlink, DumpLost, UnlinkFails,
                LoadSaved, Reset, Reload, Rebuild, Go, AtWork
  <2>2. \A w \in Writers : w # t => pc[w] \in {"start", "done", "failed"}
    BY <2>1, Alone
  <2>3. \A u \in Threads : u # t => pc'[u] = pc[u]
    <3>1. CASE Truncate(t) \/ Dump(t) \/ Unlink(t)
      <4>1. \A u \in Threads : u # t => \/ pc'[u] = pc[u]
                                        \/ pc[u] \in Writing /\ pc'[u] \in Writing
        BY <1>1, <3>1, Writes
      <4>2. \A u \in Scans : pc'[u] = pc[u]
        BY <1>1, <3>1, Writes
      <4> QED
        BY <2>2, <4>1, <4>2 DEF Writing, Threads
    <3>2. CASE ~(Truncate(t) \/ Dump(t) \/ Unlink(t))
      BY <1>1, <1>4, <3>2
         DEF Put, ReadLocal, Overwrite, DumpLost, UnlinkFails, LoadSaved, Reset, Reload,
             Rebuild, Go, Moving, PcTyped
    <3> QED
      BY <3>1, <3>2
  <2>4. \A w \in Writers : w # t => w \notin opening
    BY <1>1, <2>2 DEF OpenTyped, Loads, Threads
  <2>5. opening' \subseteq opening
    BY <1>4 DEF Put, ReadLocal, Truncate, Dump, Overwrite, Unlink, DumpLost, UnlinkFails,
                LoadSaved, Reset, Reload, Rebuild, threads, Reads
  <2>6. ~Overwrite(t) /\ ~DumpLost(t)
    BY <1>1 DEF Overwrite, DumpLost, Go, WriterInv
  <2> QED
    BY <1>1, <2>1, <2>2, <2>3, <2>4, <2>5, <2>6 DEF Threads
<1>5. ASSUME ~StartPut(t), UNCHANGED <<local, disk, gateway, gateways, off, offSince>>,
             pc'[t] \in {"truncate", "unlink", "saved", "failed", "reset"},
             \A u \in Threads : u # t => read'[u] = read[u],
             pc'[t] = "truncate" => read'[t] = local,
             pc'[t] \notin Saving => pc[t] \notin Saving,
             pc'[t] \in {"saved", "reset"} => pc[t] = "saved" \/ ~CloudIn(local)
      PROVE  Cloudy'
  <2>1. BusInv'
    BY <1>1, <1>5 DEF BusInv
  <2>2. FreshInv'
    <3>1. ASSUME \A w \in Writers : pc'[w] \notin Saving
          PROVE  \A w \in Writers : pc[w] \notin Saving
      <4>1. pc[t] \notin Saving
        BY <1>5, <3>1
      <4> QED
        BY <1>4, <1>5, <3>1, <4>1 DEF Saving, Writing, Threads
    <3>2. \A u \in Threads : pc'[u] = "assign" => pc[u] = "assign" /\ read'[u] = read[u]
      BY <1>4, <1>5
    <3> QED
      BY <1>1, <1>5, <3>1, <3>2 DEF FreshInv
  <2>3. WriterInv'
    BY <1>1, <1>2, <1>4, <1>5 DEF WriterInv, Saved, Threads
  <2>4. OffInv'
    BY <1>1, <1>2, <1>4, <1>5 DEF OffInv, AtWork, Threads
  <2>5. ForwardInv'
    <3>1. \A u \in offSince' : u \in offSince /\ off'
      BY <1>1, <1>5 DEF ForwardInv, RunTyped
    <3> QED
      BY <1>1, <1>2, <1>4, <1>5, <3>1, ForwardKept
  <2> QED
    BY <2>1, <2>2, <2>3, <2>4, <2>5 DEF Cloudy
<1>6. CASE ReadLocal(t)
  <2> DEFINE to == IF ask[t].op = "put" \/ DOMAIN Rewritten(ask[t], local) # {} THEN "truncate"
                   ELSE IF t \in opening THEN "unlink" ELSE "saved"
  <2>1. /\ pc[t] = "read" /\ pc'[t] = to /\ read' = [read EXCEPT ![t] = local]
        /\ UNCHANGED <<local, disk, gateway, gateways, off, offSince>>
        /\ t \notin opening => disk = "none"
    BY <1>1, <1>6 DEF ReadLocal, Reads, Go, Moving, PcTyped, settings, turned
  <2>2. to \in {"truncate", "unlink", "saved"} /\ (to = "saved" => t \notin opening)
    OBVIOUS
  <2>3. t \notin opening => ~CloudIn(local)
    BY <1>1, <2>1 DEF FileTyped, CloudIn
  <2>4. read'[t] = local /\ \A u \in Threads : u # t => read'[u] = read[u]
    BY <1>1, <2>1 DEF MineTyped
  <2>5. ~StartPut(t)
    BY <2>1 DEF StartPut, Go
  <2> HIDE DEF to
  <2> QED
    BY <1>5, <2>1, <2>2, <2>3, <2>4, <2>5 DEF Saving, Writing
<1>7. CASE UnlinkFails(t) \/ LoadSaved(t)
  <2>1. /\ UNCHANGED <<local, disk, gateway, gateways, off, offSince, read>>
        /\ \/ pc[t] = "unlink" /\ pc'[t] = "failed"
           \/ pc[t] = "saved" /\ pc'[t] = "reset"
    BY <1>1, <1>7 DEF UnlinkFails, LoadSaved, Go, Moving, PcTyped, settings, threads, turned
  <2>2. ~StartPut(t)
    BY <2>1 DEF StartPut, Go
  <2> QED
    BY <1>5, <2>1, <2>2 DEF Saving, Writing
<1>8. CASE Truncate(t) \/ Dump(t) \/ Unlink(t)
  <2>1. /\ UNCHANGED <<gateway, gateways, off, offSince, read, opening>> /\ disk' # "garbage"
        /\ local' = Empty \/ (Dump(t) /\ local' = Rewritten(ask[t], read[t]))
        /\ disk' = "yaml" \/ Unlink(t)
    BY <1>8 DEF Truncate, Dump, Unlink, threads, turned
  <2>2. /\ pc[t] \in {"truncate", "dump", "unlink"} /\ (Dump(t) => pc[t] = "dump")
        /\ (Unlink(t) => pc[t] = "unlink")
        /\ (pc'[t] = "dump" /\ pc[t] = "truncate") \/ pc'[t] = "saved"
    <3>1. pc'[t] = IF pc[t] = "truncate" THEN "dump" ELSE "saved"
      BY <1>1, <1>8, Writes
    <3>2. pc[t] \in {"truncate", "dump", "unlink"}
      BY <1>1, <1>8, Writes
    <3>3. (Dump(t) => pc[t] = "dump") /\ (Unlink(t) => pc[t] = "unlink")
      BY DEF Dump, Unlink
    <3> QED
      BY <3>1, <3>2, <3>3
  <2>3. ~StartPut(t)
    BY <2>2 DEF StartPut, Go
  <2>4. BusInv'
    BY <1>1, <2>1 DEF BusInv
  <2>5. pc'[t] \in Saving
    BY <2>2 DEF Saving, Writing
  <2>6. FreshInv'
    BY <2>5 DEF FreshInv
  <2>7. TurnsOff(ask[t]) => ~CloudIn(local')
    BY <1>1, <2>1, RewrittenOff, EmptyOff
  <2>8. WriterInv'
    <3>1. ASSUME NEW w \in Writers
          PROVE  /\ pc'[w] \notin {"overwrite", "lost"}
                 /\ w \in opening' => disk' = "yaml"
                 /\ pc'[w] \in {"reload", "rebuild"} =>
                       (gateways'[mine'[w]].cfg <=> CloudIn(local'))
                 /\ pc'[w] \in Saved /\ TurnsOff(ask'[w]) => ~CloudIn(local')
      <4>1. CASE w = t
        <5>1. t \notin opening
          BY <1>1, <2>2 DEF OpenTyped, Loads
        <5> QED
          BY <1>2, <2>1, <2>2, <2>7, <4>1, <5>1
      <4>2. CASE w # t
        <5>1. pc'[w] \in {"start", "done", "failed"} /\ w \notin opening
          BY <1>4, <2>3, <4>2 DEF Threads
        <5> QED
          BY <2>1, <5>1 DEF Saved
      <4> QED
        BY <4>1, <4>2
    <3> QED
      BY <2>1, <3>1 DEF WriterInv
  <2>9. OffInv'
    <3>1. off => ~CloudIn(local')
      <4>1. CASE local' = Empty
        BY <4>1, EmptyOff
      <4>2. CASE Dump(t) /\ local' = Rewritten(ask[t], read[t])
        <5>1. AtWork(t)
          BY <1>4, <2>3
        <5>2. off => ~TurnsOn(ask[t]) /\ ~CloudIn(read[t])
          BY <1>1, <2>2, <4>2, <5>1 DEF OffInv
        <5> QED
          BY <1>1, <4>2, <5>2, RewrittenStaysOff
      <4> QED
        BY <2>1, <4>1, <4>2
    <3>2. \A u \in Threads : pc'[u] = "assign" => pc[u] = "assign"
      BY <1>4, <2>2, <2>3
    <3>3. ASSUME NEW w \in Writers, off, AtWork(w)'
          PROVE  ~TurnsOn(ask[w]) /\ (pc'[w] \in {"truncate", "dump"} => ~CloudIn(read[w]))
      <4>1. w = t
        BY <1>4, <2>3, <3>3 DEF AtWork, Threads
      <4> QED
        BY <1>1, <1>4, <2>2, <2>3, <3>3, <4>1 DEF OffInv
    <3> QED
      BY <1>1, <1>2, <2>1, <3>1, <3>2, <3>3 DEF OffInv
  <2>10. ForwardInv'
    <3>1. \A u \in offSince' : u \in offSince /\ off'
      BY <1>1, <2>1 DEF ForwardInv, RunTyped
    <3> QED
      BY <1>1, <1>2, <1>4, <2>1, <2>3, <3>1, ForwardKept
  <2> QED
    BY <2>4, <2>6, <2>8, <2>9, <2>10 DEF Cloudy
<1>9. CASE Reset(t)
  <2>1. /\ UNCHANGED <<local, disk, gateways, off, offSince, read, opening>> /\ gateway' = 0
        /\ pc[t] = "reset" /\ pc'[t] = "check"
    BY <1>1, <1>9 DEF Reset, Go, Moving, PcTyped, settings, threads, turned
  <2>2. ~StartPut(t)
    BY <2>1 DEF StartPut, Go
  <2>3. BusInv'
    BY <1>1, <2>1 DEF BusInv
  <2>4. \A u \in Threads : pc'[u] # "assign"
    BY <1>4, <2>1, <2>2 DEF Overlap
  <2>5. FreshInv'
    BY <2>1, <2>4 DEF FreshInv
  <2>6. WriterInv'
    BY <1>1, <1>2, <1>4, <2>1, <2>2 DEF WriterInv, Saved, Threads
  <2>7. OffInv'
    BY <1>1, <1>2, <1>4, <2>1, <2>2, <2>4 DEF OffInv, AtWork, Threads
  <2>8. ForwardInv'
    <3>1. \A u \in offSince' : u \in offSince /\ off'
      BY <1>1, <2>1 DEF ForwardInv, RunTyped
    <3> QED
      BY <1>1, <1>2, <1>4, <2>1, <2>2, <3>1, ForwardKept
  <2> QED
    BY <2>3, <2>5, <2>6, <2>7, <2>8 DEF Cloudy
<1>10. CASE Reload(t) \/ Rebuild(t)
  <2>1. /\ DOMAIN gateways' = DOMAIN gateways
        /\ \A i \in DOMAIN gateways : /\ gateways'[i].cfg <=> gateways[i].cfg
                                      /\ gateways'[i].bus <=> gateways[i].bus
    BY <1>1, <1>10, FlagsKept
  <2>2. /\ UNCHANGED <<local, disk, gateway, read, offSince>>
        /\ \/ pc[t] = "reload" /\ pc'[t] = "rebuild" /\ off' = off
           \/ pc[t] = "rebuild" /\ pc'[t] = "done" /\ off' = (off \/ TurnsOff(ask[t]))
    BY <1>1, <1>10 DEF Reload, Rebuild, Go, Moving, PcTyped, settings, threads, turned, Answered
  <2>3. ~StartPut(t)
    BY <2>2 DEF StartPut, Go
  <2>4. /\ gateway # 0 => (gateways'[gateway].cfg <=> gateways[gateway].cfg)
        /\ \A u \in Threads : pc[u] \in {"stages", "publish", "respond", "reload", "rebuild"} =>
              /\ gateways'[mine[u]].cfg <=> gateways[mine[u]].cfg
              /\ gateways'[mine[u]].bus <=> gateways[mine[u]].bus
    <3>1. gateway # 0 => gateway \in DOMAIN gateways
      BY <1>1 DEF GatewayTyped
    <3>2. \A u \in Threads : pc[u] \in {"stages", "publish", "respond", "reload", "rebuild"} =>
                                mine[u] \in DOMAIN gateways
      BY <1>1 DEF MineInv, MineTyped, GatewayTyped
    <3> QED
      BY <2>1, <3>1, <3>2
  <2>5. BusInv'
    BY <1>1, <2>1 DEF BusInv
  <2>6. FreshInv'
    <3>1. \A w \in Writers : pc[w] \notin Saving
      BY <1>4, <2>2, <2>3 DEF Saving, Writing
    <3>2. \A u \in Threads : pc'[u] = "assign" => pc[u] = "assign"
      BY <1>4, <2>2, <2>3
    <3> QED
      BY <1>1, <2>2, <2>4, <3>1, <3>2 DEF FreshInv
  <2>7. WriterInv'
    <3>1. ASSUME NEW w \in Writers
          PROVE  /\ pc'[w] \notin {"overwrite", "lost"}
                 /\ w \in opening' => disk' = "yaml"
                 /\ pc'[w] \in {"reload", "rebuild"} =>
                       (gateways'[mine'[w]].cfg <=> CloudIn(local'))
                 /\ pc'[w] \in Saved /\ TurnsOff(ask'[w]) => ~CloudIn(local')
      <4>1. CASE w = t
        BY <1>1, <1>2, <1>4, <2>2, <2>3, <2>4, <4>1 DEF WriterInv, Saved
      <4>2. CASE w # t
        <5>1. pc'[w] \in {"start", "done", "failed"} /\ w \notin opening'
          BY <1>4, <2>3, <4>2 DEF Threads
        <5> QED
          BY <5>1 DEF Saved
      <4> QED
        BY <4>1, <4>2
    <3> QED
      BY <1>1, <2>2, <3>1 DEF WriterInv
  <2>8. OffInv'
    <3>1. \A u \in Threads : pc'[u] = "assign" => pc[u] = "assign"
      BY <1>4, <2>2, <2>3
    <3>2. CASE off' = off
      BY <1>1, <1>2, <1>4, <2>2, <2>3, <2>4, <3>1, <3>2 DEF OffInv, AtWork, Threads
    <3>3. CASE off' # off /\ off'
      <4>1. TurnsOff(ask[t]) /\ pc[t] = "rebuild" /\ pc'[t] = "done"
        BY <1>1, <2>2, <3>3 DEF RunTyped
      <4>2. /\ ~CloudIn(local)
            /\ gateway # 0 => ~gateways[gateway].cfg
            /\ \A u \in Threads : pc[u] = "assign" => ~CloudIn(read[u])
        BY <1>1, <4>1, AnsweredOff
      <4>3. \A w \in Writers : ~AtWork(w)'
        BY <1>4, <2>3, <4>1 DEF AtWork, Threads
      <4> QED
        BY <2>2, <2>4, <3>1, <4>2, <4>3 DEF OffInv
    <3> QED
      BY <3>2, <3>3 DEF OffInv
  <2>9. ForwardInv'
    <3>1. \A u \in offSince' : u \in offSince /\ off'
      BY <1>1, <2>2 DEF ForwardInv, RunTyped
    <3>2. \A u \in Scans : u \in Threads
      BY DEF Threads
    <3> QED
      BY <1>1, <1>2, <1>4, <2>3, <2>4, <3>1, <3>2, ForwardKept
  <2> QED
    BY <2>5, <2>6, <2>7, <2>8, <2>9 DEF Cloudy
<1> QED
  BY <1>3, <1>4, <1>6, <1>7, <1>8, <1>9, <1>10 DEF Put

\* Every step keeps the invariant of the cloud.
LEMMA CloudStep == Typed /\ MineInv /\ CloudInv /\ [Next]_vars => CloudInv'
<1> SUFFICES ASSUME Typed, MineInv, CloudInv, [Next]_vars PROVE CloudInv'
  OBVIOUS
<1>1. CASE UNCHANGED vars
  BY <1>1 DEF vars, settings, threads, runs, turned, CloudInv, Cloudy, BusInv, FreshInv,
              WriterInv, OffInv, ForwardInv, Overlap, AtWork
<1>2. ASSUME overlap' = (overlap \/ Overlap') \/ (overlap' = overlap /\ pc' = pc),
             ~overlap /\ ~Overlap /\ ~Overlap' => Cloudy'
      PROVE  CloudInv'
  <2>1. pc' = pc => (Overlap' <=> Overlap)
    BY DEF Overlap, AtWork
  <2>2. Overlap => overlap
    BY DEF CloudInv
  <2>3. (Overlap' => overlap') /\ (overlap => overlap')
    <3>1. CASE overlap' = (overlap \/ Overlap')
      BY <3>1, Zenon
    <3>2. CASE overlap' = overlap /\ pc' = pc
      BY <2>1, <2>2, <3>2, Zenon
    <3> QED
      BY <1>2, <3>1, <3>2
  <2>4. ~overlap' => ~overlap /\ ~Overlap /\ ~Overlap'
    BY <2>2, <2>3
  <2> QED
    BY <1>2, <2>3, <2>4 DEF CloudInv
<1>3. ASSUME NEW t \in Threads, FindFile(t) \/ LoadFails(t) PROVE CloudInv'
  <2>1. overlap' = (overlap \/ Overlap') \/ (overlap' = overlap /\ pc' = pc)
    BY <1>3 DEF FindFile, LoadFails, Go, Moving
  <2>2. ~overlap /\ ~Overlap /\ ~Overlap' => Cloudy'
    BY <1>3, FileCloud DEF CloudInv
  <2> QED
    BY <1>2, <2>1, <2>2
<1>4. ASSUME NEW t \in Threads, GetGateway(t) PROVE CloudInv'
  <2>1. overlap' = (overlap \/ Overlap')
    BY <1>4 DEF GetGateway, Check, LoadConfig, Assign, Return, Go, Moving
  <2>2. ~overlap /\ ~Overlap /\ ~Overlap' => Cloudy'
    BY <1>4, GetCloud DEF CloudInv
  <2> QED
    BY <1>2, <2>1, <2>2
<1>5. ASSUME NEW t \in Scans, Scan(t) PROVE CloudInv'
  <2>1. overlap' = (overlap \/ Overlap') \/ (overlap' = overlap /\ pc' = pc)
    BY <1>5 DEF Scan, StartScan, RefuseScan, RunStage, EndRun, Publish, Respond, Go, Moving
  <2>2. ~overlap /\ ~Overlap /\ ~Overlap' => Cloudy'
    BY <1>5, ScanCloud DEF CloudInv
  <2> QED
    BY <1>2, <2>1, <2>2
<1>6. ASSUME NEW t \in Writers, Put(t) PROVE CloudInv'
  <2>1. overlap' = (overlap \/ Overlap')
    BY <1>6 DEF Put, StartPut, ReadLocal, Truncate, Dump, Overwrite, Unlink, DumpLost,
                UnlinkFails, LoadSaved, Reset, Reload, Rebuild, Go, Moving
  <2>2. ~overlap /\ ~Overlap /\ ~Overlap' => Cloudy'
    BY <1>6, PutCloud DEF CloudInv
  <2> QED
    BY <1>2, <2>1, <2>2
<1> QED
  BY <1>1, <1>3, <1>4, <1>5, <1>6 DEF Next

--------------------------------------------------------------------------------
(* The theorems.                                                               *)

\* The types of the state, and a thread past get_gateway() has a gateway.
THEOREM Types == Spec => [](Typed /\ MineInv)
<1>1. Init => Typed /\ MineInv
  BY StartsTyped
<1>2. Typed /\ MineInv /\ [Next]_vars => Typed' /\ MineInv'
  BY StepTyped
<1> QED
  BY <1>1, <1>2, PTL DEF Spec

\* Type correctness: files name known sections, threads hold gateways that were built.
THEOREM TypeCorrect == Spec => []TypeOK
<1>1. Typed => TypeOK
  <2> SUFFICES ASSUME Typed PROVE TypeOK
    OBVIOUS
  <2>1. FileTyped /\ GatewayTyped /\ MineTyped /\ RunTyped
    BY DEF Typed
  <2>2. /\ DOMAIN local \subseteq (UNION {DOMAIN a.set : a \in Asks})
                                  \union (UNION {DOMAIN f : f \in AtStart})
        /\ disk \in {"none", "yaml", "garbage"}
    BY <2>1 DEF FileTyped, Sections
  <2>3. \A i \in DOMAIN gateways : gateways[i] \in [cfg : BOOLEAN, bus : BOOLEAN]
    <3>1. \A i \in DOMAIN gateways : gateways[i] \in Gateways
      BY <2>1 DEF GatewayTyped
    <3> QED
      BY <3>1 DEF Gateways
  <2>4. \A t \in Threads : mine[t] \in 0..Len(gateways)
    BY <2>1 DEF MineTyped, GatewayTyped
  <2>5. \A t \in Scans : /\ event[t].results \in Seq(Statuses)
                         /\ event[t].overall \in {"PASS", "WARN", "FAIL"}
    BY <2>1 DEF RunTyped, Events
  <2> QED
    BY <2>1, <2>2, <2>3, <2>4, <2>5 DEF TypeOK, GatewayTyped, RunTyped
<1> QED
  BY <1>1, Types, PTL

\* ADR-002 for every order of the stages that ends with the audit: no run that was cut
\* short is shown as complete, and what is shown is in the audit.
THEOREM NoPartialRunIsCompleteHolds ==
    ASSUME AuditLast
    PROVE  Spec => []NoPartialRunIsComplete
<1>1. Init => \A t \in Scans : RunInv(t)
  <2> SUFFICES ASSUME Init, NEW t \in Scans PROVE RunInv(t)
    OBVIOUS
  <2>1. event[t] = NoEvent /\ pc[t] = "start"
    BY DEF Init, Threads
  <2>2. Len(Order) \in Nat \ {0}
    BY ScanAssumption, AuditLast DEF AuditLast
  <2>3. event[t].results = <<>> /\ event[t].overall = "PASS"
    BY <2>1 DEF NoEvent
  <2> QED
    BY <2>1, <2>2, <2>3 DEF RunInv, Clean
<1>2. Typed /\ (\A t \in Scans : RunInv(t)) /\ [Next]_vars => \A t \in Scans : RunInv(t)'
  BY AuditLast, RunStep
<1>3. Typed /\ (\A t \in Scans : RunInv(t)) => NoPartialRunIsComplete
  <2> SUFFICES ASSUME Typed, NEW t \in Scans, RunInv(t), pc[t] = "done"
               PROVE  LET results == event[t].results
                          failures == {i \in DOMAIN results : results[i] \in Bad}
                      IN  IF event[t].overall = "FAIL"
                          THEN failures = {Len(results)}
                          ELSE /\ Len(results) = Len(Order)
                               /\ failures = {}
                               /\ [scan |-> t, overall |-> event[t].overall,
                                  results |-> SubSeq(results, 1, Len(results) - 1)] \in audits
                               /\ event[t].overall = "WARN" <=>
                                     \E i \in DOMAIN results : results[i] = "WARN"
    BY DEF NoPartialRunIsComplete
  <2>1. event[t].overall \in {"PASS", "WARN", "FAIL"}
    BY DEF Typed, RunTyped, Events
  <2> QED
    BY <2>1 DEF RunInv, Clean
<1>4. (\A t \in Scans : RunInv(t))' <=> \A t \in Scans : RunInv(t)'
  OBVIOUS
<1> QED
  BY <1>1, <1>2, <1>3, <1>4, Types, PTL DEF Spec

\* The file, the gateways, and what scans do and report, as long as settings requests come
\* one after the other and no gateway is put back that one of them has dropped.
THEOREM Cloud == Spec => []CloudInv
<1>1. Init => CloudInv
  BY StartsCloud
<1>2. Typed /\ MineInv /\ CloudInv /\ [Next]_vars => CloudInv'
  BY CloudStep
<1> QED
  BY <1>1, <1>2, Types, PTL DEF Spec

\* Turning the cloud off is final until a request turns it on, whatever else is set or
\* reset, and whether or not there is a gateway - unless settings requests have overlapped,
\* or a gateway that was being built when one was dropped has been put in its place.
THEOREM OffMeansOffHolds == Spec => []OffMeansOff
<1>1. RunTyped /\ CloudInv => OffMeansOff
  <2> SUFFICES ASSUME RunTyped, CloudInv, ~overlap PROVE forwarded \intersect offSince = {}
    BY DEF OffMeansOff
  <2>1. ForwardInv
    BY DEF CloudInv, Cloudy
  <2> QED
    BY <2>1 DEF ForwardInv, RunTyped
<1>2. Typed => RunTyped
  BY DEF Typed
<1> QED
  BY <1>1, <1>2, Types, Cloud, PTL

\* A response says that the cloud has the scan exactly if it has, although the gateway may
\* be dropped, and its configuration loaded again, between the two; with the same exception.
THEOREM ReportsTruthHolds == Spec => []ReportsTruth
<1>1. CloudInv => ReportsTruth
  BY DEF CloudInv, Cloudy, ForwardInv, ReportsTruth
<1> QED
  BY <1>1, Cloud, PTL
=============================================================================
