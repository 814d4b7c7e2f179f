------------------------------- MODULE ScanService -------------------------------
(* /api/scan and /api/settings (app/server.py) on one process-wide Gateway.     *)
(* Requests run in threadpool threads.  A scan takes the gateway, runs the      *)
(* stages of the pipeline in order (orchestration/pipeline.py), hands the event *)
(* to the bus (orchestration/bus.py) and reports.  A settings PUT, or a reset,  *)
(* rewrites config/local.yaml (shared/config.py), drops the gateway and gets a  *)
(* new one; a PUT applies the settings to it.  Nothing of this is locked.       *)
EXTENDS Naturals, Sequences, FiniteSets, Functions

CONSTANTS
    Scans,      \* scan requests
    Writers,    \* settings requests
    Asks,       \* what settings requests ask: [op, set], op "put" or "reset"
    Prompt(_),  \* the prompt_text of a scan: "none", "plain" or "personal"
    Order,      \* pipeline.order
    Cleared,    \* the sections a reset removes
    AtStart     \* what local.yaml may be at the start: section -> value

Threads == Scans \union Writers

ASSUME ScanAssumption == /\ Scans \intersect Writers = {}
                         /\ Order \in Seq({"integrity", "threat_scanner", "privacy", "audit"})
                         /\ \A a \in Asks : a.op \in {"put", "reset"}
                         /\ \A t \in Scans : Prompt(t) \in {"none", "plain", "personal"}

VARIABLES
    ask,        \* ask[w]: the settings request w
    local,      \* the settings in config/local.yaml: section -> value
    disk,       \* that file: "none", "yaml", or "garbage" that does not parse
    gateway,    \* the global `_gateway`: an id, 0 for None
    gateways,   \* the Gateway objects built so far: id -> [cfg, bus]
    pc,         \* pc[t]: where thread t stands
    opening,    \* threads that have found the file and are about to open it
    mine,       \* mine[t]: the gateway thread t works with (0 for None)
    read,       \* read[t]: the settings thread t has read
    event,      \* event[t]: the PipelineEvent of scan t
    forwarded,  \* scans the bus has forwarded
    reported,   \* scans whose response says cloud_forwarded
    \* history
    audits,     \* the audit records: [scan, results, overall]
    off,        \* has the cloud been turned off, and no request asked for it since?
    offSince,   \* scans that came in since then
    overlap     \* have settings requests overlapped, or has one dropped the gateway
                \* while another thread was putting one there?

settings == <<ask, local, disk>>
threads == <<opening, mine, read>>
runs == <<event, forwarded, reported, audits>>
turned == <<off, offSince>>
vars == <<settings, gateway, gateways, pc, threads, runs, turned, overlap>>

Statuses == {"PASS", "WARN", "FAIL", "ERROR"}
Bad == {"FAIL", "ERROR"}

\* load_config: default.yaml has cloud.enabled: false; local.yaml overrides it.
CloudIn(file) == "cloud" \in DOMAIN file /\ file["cloud"] = "on"

\* a merge in which what is on disk wins
MergeKeepsOld(file, set) == [x \in DOMAIN file \union DOMAIN set |->
                                IF x \in DOMAIN file THEN file[x] ELSE set[x]]

\* _deep_merge of the settings of a request into what was read.
Merge(file, set) == [x \in DOMAIN file \union DOMAIN set |->
                        IF x \in DOMAIN set THEN set[x] ELSE file[x]]

Gateway(file) == [cfg |-> CloudIn(file), bus |-> CloudIn(file)]
NoEvent == [results |-> <<>>, overall |-> "PASS"]
Empty == [x \in {} |-> ""]

\* Some request may have built the gateway before.
Init == /\ local \in AtStart
        /\ disk = IF DOMAIN local = {} THEN "none" ELSE "yaml"
        /\ ask \in [Writers -> Asks]
        /\ gateways \in {<<>>, <<Gateway(local)>>}
        /\ gateway = Len(gateways)
        /\ pc = [t \in Threads |-> "start"]
        /\ opening = {}
        /\ mine = [t \in Threads |-> 0]
        /\ read = [t \in Threads |-> local]
        /\ event = [t \in Scans |-> NoEvent]
        /\ forwarded = {}
        /\ reported = {}
        /\ audits = {}
        /\ off = FALSE
        /\ offSince = {}
        /\ overlap = FALSE

AtWork(w) == pc[w] \notin {"start", "done", "failed"}
Overlap == \/ \E v, w \in Writers : v # w /\ AtWork(v) /\ AtWork(w)
           \/ \E w \in Writers, t \in Threads : pc[w] = "reset" /\ pc[t] = "assign"

\* Threads go on as f says.
Moving(f) == pc' = f /\ overlap' = (overlap \/ Overlap')
Go(t, from, to) == pc[t] = from /\ Moving([pc EXCEPT ![t] = to])
--------------------------------------------------------------------------------
(* load_config, and the reading half of save_local_config: exists(), then open() *)
(* and parse.                                                                   *)

Loads == {"read", "saved", "load", "reload"}

FindFile(t) ==
    /\ pc[t] \in Loads
    /\ t \notin opening
    /\ disk # "none"
    /\ opening' = opening \union {t}
    /\ UNCHANGED <<settings, gateway, gateways, pc, mine, read, runs, turned, overlap>>

\* The file parses, or was not found: `local` has its settings, none if there is no file.
Reads(t) == /\ disk = IF t \in opening THEN "yaml" ELSE "none"
            /\ opening' = opening \ {t}

\* The file is gone by now, or does not parse, and the request fails.
LoadFails(t) ==
    /\ t \in opening
    /\ disk # "yaml"
    /\ \E from \in Loads : Go(t, from, "failed")
    /\ opening' = opening \ {t}
    /\ UNCHANGED <<settings, gateway, gateways, mine, read, runs, turned>>

TurnsOff(a) == IF a.op = "reset" THEN "cloud" \in Cleared
               ELSE "cloud" \in DOMAIN a.set /\ ~CloudIn(a.set)
TurnsOn(a) == a.op = "put" /\ CloudIn(a.set)

\* The settings request of t is answered.
Answered(t) == off' = (off \/ TurnsOff(ask[t])) /\ offSince' = offSince
--------------------------------------------------------------------------------
(* get_gateway(), called by every request: test, build, assign, return.        *)

Check(t) ==
    /\ Go(t, "check", IF gateway = 0 THEN "load" ELSE "return")
    /\ UNCHANGED <<settings, gateway, gateways, threads, runs, turned>>

\* Gateway.__init__ loads the configuration ...
LoadConfig(t) ==
    /\ Reads(t)
    /\ Go(t, "load", "assign")
    /\ read' = [read EXCEPT ![t] = local]
    /\ UNCHANGED <<settings, gateway, gateways, mine, runs, turned>>

\* ... builds the bus from it, and the object becomes the global one.
Assign(t) ==
    /\ Go(t, "assign", "return")
    /\ gateways' = Append(gateways, Gateway(read[t]))
    /\ gateway' = Len(gateways')
    /\ UNCHANGED <<settings, threads, runs, turned>>

\* `return _gateway` reads the global again: None if somebody has reset it, and
\* then the request fails.
Return(t) ==
    /\ Go(t, "return", IF gateway = 0 THEN "failed"
                       ELSE CASE t \in Scans -> "stages"
                              [] t \in Writers -> IF ask[t].op = "put" THEN "reload" ELSE "done")
    /\ mine' = [mine EXCEPT ![t] = gateway]
    /\ IF gateway # 0 /\ t \in Writers /\ ask[t].op = "reset"
       THEN Answered(t) ELSE UNCHANGED turned
    /\ UNCHANGED <<settings, gateway, gateways, opening, read, runs>>

GetGateway(t) == Check(t) \/ LoadConfig(t) \/ Assign(t) \/ Return(t)
--------------------------------------------------------------------------------
(* A scan.                                                                     *)

\* api_scan refuses a scan without a path, or of a path that is not there.
RefuseScan(t) ==
    /\ Go(t, "start", "refused")
    /\ UNCHANGED <<settings, gateway, gateways, threads, runs, turned>>

StartScan(t) ==
    /\ Go(t, "start", "check")
    /\ off' = off
    /\ offSince' = IF off THEN offSince \union {t} ELSE offSince
    /\ UNCHANGED <<settings, gateway, gateways, threads, runs>>

\* a run that only looks at the stage before
ContinueAfterLast(e) ==
    \A i \in DOMAIN e.results : i = Len(e.results) => e.results[i] # "FAIL"

\* PipelineEvent.should_continue
ShouldContinue(e) == e.overall \notin Bad

\* PipelineEvent.add_stage: FAIL and ERROR poison the run, WARN shows on a PASS.
AddStage(e, status) ==
    [results |-> Append(e.results, status),
     overall |-> CASE status \in Bad -> "FAIL"
                   [] status = "WARN" /\ e.overall = "PASS" -> "WARN"
                   [] OTHER -> e.overall]

\* IntegrityStage: the file may be gone by now, or not be read to its end.  It is never
\* compared with a baseline: the gateway gives the stage none.
Integrity == {"PASS", "FAIL", "ERROR"}

\* ThreatScannerStage: warnings about the environment, the user and the directory of
\* the model, which may be gone when it is looked at; the pipeline catches that.
ThreatScanner == {"PASS", "WARN", "ERROR"}

\* PrivacyStage: counts what is personal in the prompt, unless a detector raises.
Privacy(text) == CASE text = "none" -> {"PASS"}
                   [] text = "plain" -> {"PASS", "ERROR"}
                   [] text = "personal" -> {"WARN", "ERROR"}

\* AuditStage: its record is written, or not.
Audit == {"PASS", "ERROR"}

\* The statuses a stage of scan t may return.
Outcomes(stage, t) == CASE stage = "integrity" -> Integrity
                        [] stage = "threat_scanner" -> ThreatScanner
                        [] stage = "privacy" -> Privacy(Prompt(t))
                        [] stage = "audit" -> Audit

\* AuditStage.write: the stages so far and the status they give.
Record(t) == [scan |-> t, results |-> event[t].results, overall |-> event[t].overall]

\* One stage runs; the audit stage writes its record unless it fails.
RunStage(t) ==
    LET i == Len(event[t].results) + 1 IN
    /\ pc[t] = "stages"
    /\ i \in DOMAIN Order
    /\ ShouldContinue(event[t])
    /\ \E status \in Outcomes(Order[i], t) :
          /\ event' = [event EXCEPT ![t] = AddStage(@, status)]
          /\ audits' = IF Order[i] = "audit" /\ status = "PASS"
                       THEN audits \union {Record(t)} ELSE audits
    /\ UNCHANGED <<settings, gateway, gateways, pc, threads, forwarded, reported, turned,
                   overlap>>

EndRun(t) ==
    /\ Len(event[t].results) = Len(Order) \/ ~ShouldContinue(event[t])
    /\ Go(t, "stages", "publish")
    /\ UNCHANGED <<settings, gateway, gateways, threads, runs, turned>>

\* EventBus.publish: forwards whatever it is given if its cloud flag is on.
Publish(t) ==
    /\ Go(t, "publish", "respond")
    /\ forwarded' = IF gateways[mine[t]].bus THEN forwarded \union {t} ELSE forwarded
    /\ UNCHANGED <<settings, gateway, gateways, threads, event, reported, audits, turned>>

\* receive() ignores what publish() returned and reports the configured flag.
Respond(t) ==
    /\ Go(t, "respond", "done")
    /\ reported' = IF gateways[mine[t]].cfg THEN reported \union {t} ELSE reported
    /\ UNCHANGED <<settings, gateway, gateways, threads, event, forwarded, audits, turned>>
--------------------------------------------------------------------------------
(* PUT /api/settings and POST /api/settings/reset.                             *)

StartPut(t) ==
    /\ Go(t, "start", "read")
    /\ off' = (off /\ ~TurnsOn(ask[t]))
    /\ offSince' = IF TurnsOn(ask[t]) THEN {} ELSE offSince
    /\ UNCHANGED <<settings, gateway, gateways, threads, runs>>

\* What the file will be: the settings merged into what was read, or what was read
\* without the sections a reset removes.
Rewritten(a, file) == IF a.op = "put" THEN Merge(file, a.set)
                      ELSE Restrict(file, DOMAIN file \ Cleared)

\* save_local_config and clear_local_config_keys: read ...
ReadLocal(t) ==
    LET left == DOMAIN Rewritten(ask[t], local) IN
    /\ Reads(t)
    /\ Go(t, "read", IF ask[t].op = "put" \/ left # {} THEN "truncate"
                     ELSE IF t \in opening THEN "unlink" ELSE "saved")
    /\ read' = [read EXCEPT ![t] = local]
    /\ UNCHANGED <<settings, gateway, gateways, mine, runs, turned>>

\* ... open(..., "w") makes the file or empties it, whoever else has it open to write,
\* and until it is written it reads as no settings; ...
Truncate(t) ==
    /\ pc[t] = "truncate"
    /\ Moving([u \in Threads |-> IF u = t \/ pc[u] = "overwrite" THEN "dump" ELSE pc[u]])
    /\ local' = Empty
    /\ disk' = "yaml"
    /\ UNCHANGED <<ask, gateway, gateways, threads, runs, turned>>

\* ... the settings are written into the empty file, ...
Dump(t) ==
    /\ pc[t] = "dump"
    /\ Moving([u \in Threads |-> IF u = t THEN "saved"
                                 ELSE IF pc[u] = "dump" THEN "overwrite" ELSE pc[u]])
    /\ local' = Rewritten(ask[t], read[t])
    /\ disk' = "yaml"
    /\ UNCHANGED <<ask, gateway, gateways, threads, runs, turned>>

\* ... or over what another request has written since it was emptied: the end of that,
\* if it is longer, stays behind as further sections, or spoils the file.
Overwrite(t) ==
    /\ Go(t, "overwrite", "saved")
    /\ \/ /\ disk' = "garbage"
          /\ local' = Empty
       \/ /\ disk' = "yaml"
          /\ \E kept \in SUBSET DOMAIN local :
                local' = Merge(Rewritten(ask[t], read[t]), Restrict(local, kept))
    /\ UNCHANGED <<ask, gateway, gateways, threads, runs, turned>>

\* A reset that leaves no settings removes the file; what others write who have it open
\* is lost ...
Unlink(t) ==
    /\ pc[t] = "unlink"
    /\ Moving([u \in Threads |-> IF u = t THEN "saved"
                                 ELSE IF pc[u] \in {"dump", "overwrite"} THEN "lost" ELSE pc[u]])
    /\ local' = Empty
    /\ disk' = "none"
    /\ UNCHANGED <<ask, gateway, gateways, threads, runs, turned>>

DumpLost(t) ==
    /\ Go(t, "lost", "saved")
    /\ UNCHANGED <<settings, gateway, gateways, threads, runs, turned>>

\* ... or, on Windows, it cannot be removed while they have it open.
UnlinkFails(t) ==
    /\ \E u \in Threads \ {t} : u \in opening \/ pc[u] \in {"dump", "overwrite"}
    /\ Go(t, "unlink", "failed")
    /\ UNCHANGED <<settings, gateway, gateways, threads, runs, turned>>

\* Both functions load the configuration again; what they return is not used.
LoadSaved(t) ==
    /\ Reads(t)
    /\ Go(t, "saved", "reset")
    /\ UNCHANGED <<settings, gateway, gateways, mine, read, runs, turned>>

\* a PUT that keeps the gateway
ResetSkipped(t) ==
    /\ Go(t, "reset", "check")
    /\ UNCHANGED <<settings, gateway, gateways, threads, runs, turned>>

Reset(t) ==
    /\ Go(t, "reset", "check")
    /\ gateway' = 0
    /\ UNCHANGED <<settings, gateways, threads, runs, turned>>

\* apply_settings: the gateway's configuration is loaded again ...
Reload(t) ==
    /\ Reads(t)
    /\ Go(t, "reload", "rebuild")
    /\ gateways' = [gateways EXCEPT ![mine[t]].cfg = CloudIn(local)]
    /\ UNCHANGED <<settings, gateway, mine, read, runs, turned>>

\* ... and the bus is rebuilt if the request names the cloud section.
Rebuild(t) ==
    /\ Go(t, "rebuild", "done")
    /\ gateways' = IF "cloud" \in DOMAIN ask[t].set
                   THEN [gateways EXCEPT ![mine[t]].bus = gateways[mine[t]].cfg]
                   ELSE gateways
    /\ Answered(t)
    /\ UNCHANGED <<settings, gateway, threads, runs>>

Scan(t) == \/ StartScan(t)
           \/ RefuseScan(t)
           \/ RunStage(t)
           \/ EndRun(t)
           \/ Publish(t)
           \/ Respond(t)

Put(t) == \/ StartPut(t)
          \/ ReadLocal(t)
          \/ Truncate(t)
          \/ Dump(t)
          \/ Overwrite(t)
          \/ Unlink(t)
          \/ DumpLost(t)
          \/ UnlinkFails(t)
          \/ LoadSaved(t)
          \/ Reset(t)
          \/ Reload(t)
          \/ Rebuild(t)

Next == \/ \E t \in Threads : FindFile(t) \/ LoadFails(t) \/ GetGateway(t)
        \/ \E t \in Scans : Scan(t)
        \/ \E t \in Writers : Put(t)

Spec == Init /\ [][Next]_vars
--------------------------------------------------------------------------------

\* Types of the variables.
TypeOK == /\ DOMAIN local \subseteq (UNION {DOMAIN a.set : a \in Asks})
                                 \union (UNION {DOMAIN f : f \in AtStart})
          /\ disk \in {"none", "yaml", "garbage"}
          /\ gateway \in 0..Len(gateways)
          /\ \A i \in DOMAIN gateways : gateways[i] \in [cfg : BOOLEAN, bus : BOOLEAN]
          /\ \A t \in Threads : mine[t] \in 0..Len(gateways)
          /\ \A t \in Scans : /\ event[t].results \in Seq(Statuses)
                              /\ event[t].overall \in {"PASS", "WARN", "FAIL"}
          /\ forwarded \union reported \union {a.scan : a \in audits} \union offSince \subseteq Scans

\* ADR-002: "FAIL or ERROR on any stage -> no downstream stages run" and "I don't
\* show partial runs as complete": a scan that is shown as PASS or WARN has run every
\* stage, none failed, and its audit record holds the stages before it and the status
\* it is shown with; one shown as FAIL ended with its first failure.
NoPartialRunIsComplete ==
    \A t \in Scans : pc[t] = "done" =>
        LET results == event[t].results
            failures == {i \in DOMAIN results : results[i] \in Bad}
        IN  IF event[t].overall = "FAIL"
            THEN failures = {Len(results)}
            ELSE /\ Len(results) = Len(Order)
                 /\ failures = {}
                 /\ [scan |-> t, overall |-> event[t].overall,
                    results |-> SubSeq(results, 1, Len(results) - 1)] \in audits
                 /\ event[t].overall = "WARN" <=> \E i \in DOMAIN results : results[i] = "WARN"

\* ADR-002: "No cloud forward if anything failed or if cloud.enabled is false".  Turning
\* the cloud off is final until a request asks for it again: a scan that comes in after
\* the PUT or the reset that turned it off has been answered is not forwarded, whatever
\* other sections are set or reset in the meantime, and though gateways are dropped and
\* built beside it, also by a scan that finds none - as long as no two settings requests
\* overlap, and none drops the gateway while another thread is putting one there.
OffMeansOff == overlap \/ forwarded \intersect offSince = {}

\* The same without the exception.
NoForwardWhenOff == forwarded \intersect offSince = {}

\* The first half of the sentence: no run that failed is forwarded.
NoForwardOfFailure == \A t \in forwarded : event[t].overall # "FAIL"

\* A response tells the truth about the cloud: it says forwarded exactly if the bus
\* forwarded, although it asks the configuration, which is loaded again under it, and not
\* the bus, which is not always rebuilt then - with the same exception.
ReportsTruth ==
    overlap \/ \A t \in Scans : pc[t] = "done" => (t \in reported <=> t \in forwarded)
=============================================================================
