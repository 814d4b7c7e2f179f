------------------------------ MODULE LlamaRuntime ------------------------------
(* The bundled model server: LlamaRuntime (local_core/runtime/llama_runtime.py),  *)
(* the launcher that starts and stops it (launcher/bootstrap.py, tray/app.py) and  *)
(* POST /api/runtime/select, whose thread-pool threads restart it with another     *)
(* model.  They share the fields _proc and _active_model without a lock, and the   *)
(* port of the server with whoever else listens there.                             *)
EXTENDS Naturals, Sequences, FiniteSets

CONSTANTS
    Models,      \* the model files of the runtime
    BootModel,   \* the one the launcher starts
    Selectors,   \* threads that run POST /api/runtime/select
    Modes,       \* how the launcher is run: "console", "tray" or "exe" (frozen)
    MaxServers,  \* bounds of the model: servers ever started, ...
    MaxSelects,  \* ... selects, and
    MaxForeign   \* times another program takes the port

Threads == Selectors \union {"main"}

ASSUME RuntimeAssumption ==
    /\ BootModel \in Models /\ "foreign" \notin Models /\ "main" \notin Selectors
    /\ Modes \subseteq {"console", "tray", "exe"}
    /\ MaxServers \in Nat /\ MaxSelects \in Nat /\ MaxForeign \in Nat

VARIABLES
    servers,   \* the server processes: [model, at, told], told once it is told to end
    foreign,   \* another program listens at the port
    _proc,     \* place in servers of the one the runtime holds, 0 for none
    _active,   \* _active_model
    mode,      \* how the launcher was run
    handed,    \* start_bundled_runtime returned the runtime
    child,     \* the gateway process of a frozen launcher
    step,      \* step[t]: where thread t stands
    model,     \* model[t]: the model it starts
    held,      \* held[t]: the process whose end it awaits
    selects, visits, \* selects and visits of foreign programs so far
    \* history
    odd,       \* what happened so far that the code does not provide for: "overlap",
               \* two threads at work on the runtime; "port", a server not its own there
    answers    \* what was said of the server before anything odd: [model, by]

port == <<servers, foreign>>
fields == <<_proc, _active>>
launcher == <<mode, handed, child>>
threads == <<step, model, held>>
counts == <<selects, visits>>
history == <<odd, answers>>
runtimeVars == <<port, fields, launcher, threads, counts, history>>

RuntimeInit == /\ servers = <<>>
               /\ foreign = FALSE
               /\ _proc = 0
               /\ _active = "none"
               /\ mode \in Modes
               /\ handed = FALSE
               /\ child = "none"
               /\ step = [t \in Threads |-> IF t = "main" THEN "start" ELSE "idle"]
               /\ model = [t \in Threads |-> BootModel]
               /\ held = [t \in Threads |-> 0]
               /\ selects = 0 /\ visits = 0
               /\ odd = {}
               /\ answers = {}

Listening == {p \in DOMAIN servers : servers[p].at = "serving"}
\* _port_open
PortOpen == foreign \/ Listening # {}
Answering == {servers[p].model : p \in Listening} \union (IF foreign THEN {"foreign"} ELSE {})
Gone(p) == servers[p].at = "gone"
GatewayUp == IF mode = "exe" THEN child = "running"
             ELSE step["main"] \notin {"start", "spawn", "wait", "serve", "exited"}

Goes(t, from, to) == step[t] = from /\ step' = [step EXCEPT ![t] = to]

\* Threads that are at work on the runtime.
Inside(t) == step[t] \in {"stop", "end", "await", "forget", "start", "spawn", "wait"}
Entering(t) == odd' = IF \E u \in Threads \ {t} : Inside(u) THEN odd \union {"overlap"} ELSE odd

\* The process of the launcher ends, and its threads with it.
Exit == step' = [t \in Threads |-> IF t = "main" THEN "exited" ELSE "idle"]

\* An exception: the select is answered 500; the launcher ends, but for the tray,
\* which shows its icon until a Quit gets through.
Fail(t) ==
    IF t \in Selectors THEN step' = [step EXCEPT ![t] = "idle"]
    ELSE IF mode # "console" /\ step[t] \in {"end", "stop"} THEN step' = [step EXCEPT ![t] = "up"]
    ELSE Exit
--------------------------------------------------------------------------------
(* LlamaRuntime.start and wait_until_ready.                                    *)

\* A server that is already there is taken for the runtime's.
Adopt(t) ==
    /\ PortOpen /\ _proc = 0
    /\ Goes(t, "start", "wait")
    /\ _active' = model[t]
    /\ UNCHANGED <<port, _proc, launcher, model, held, counts, history>>

MustSpawn(t) ==
    /\ ~(PortOpen /\ _proc = 0)
    /\ Goes(t, "start", "spawn")
    /\ UNCHANGED <<port, fields, launcher, model, held, counts, history>>

Spawn(t) ==
    /\ Len(servers) < MaxServers
    /\ Goes(t, "spawn", "wait")
    /\ servers' = Append(servers, [model |-> model[t], at |-> "loading", told |-> FALSE])
    /\ _proc' = Len(servers')
    /\ _active' = model[t]
    /\ UNCHANGED <<foreign, launcher, model, held, counts, history>>

\* Popen raises, also in the launcher, which does not catch it.
SpawnFails(t) ==
    /\ step[t] = "spawn"
    /\ Fail(t)
    /\ UNCHANGED <<port, fields, launcher, model, held, counts, history>>

\* wait_until_ready is over: the select is answered; the launcher keeps the runtime
\* only if it is ready.
Waited(t, ready) ==
    /\ step' = [step EXCEPT ![t] = IF t = "main" THEN "serve" ELSE "idle"]
    /\ handed' = IF t = "main" THEN ready ELSE handed
    /\ answers' = IF ready /\ odd = {} THEN answers \union {[model |-> _active, by |-> Answering]}
                  ELSE answers
    /\ UNCHANGED <<port, fields, mode, child, model, held, counts, odd>>

Ready(t) == step[t] = "wait" /\ PortOpen /\ Waited(t, TRUE)

Died(t) == step[t] = "wait" /\ ~PortOpen /\ _proc # 0 /\ Gone(_proc) /\ Waited(t, FALSE)

\* a wait without a deadline
WaitsOn(t) == step[t] = "wait" /\ ~PortOpen /\ UNCHANGED runtimeVars

\* 90 seconds are over.
TimesOut(t) == step[t] = "wait" /\ ~PortOpen /\ Waited(t, FALSE)
--------------------------------------------------------------------------------
(* LlamaRuntime.stop.                                                          *)

\* After it a select goes on in restart(); the launcher ends.
Stopped(t) == IF t = "main" THEN Exit ELSE step' = [step EXCEPT ![t] = "start"]

NothingToStop(t) ==
    /\ step[t] = "stop" /\ _proc = 0
    /\ Stopped(t)
    /\ UNCHANGED <<port, fields, launcher, model, held, counts, history>>

StopHeld(t) ==
    /\ _proc # 0
    /\ Goes(t, "stop", "end")
    /\ UNCHANGED <<port, fields, launcher, model, held, counts, history>>

\* Another thread has set _proc to None since.
HeldIsGone(t) ==
    /\ step[t] = "end" /\ _proc = 0
    /\ Fail(t)
    /\ UNCHANGED <<port, fields, launcher, model, held, counts, history>>

AlreadyDead(t) ==
    /\ _proc # 0 /\ Gone(_proc)
    /\ Goes(t, "end", "forget")
    /\ UNCHANGED <<port, fields, launcher, model, held, counts, history>>

Terminate(t) ==
    /\ _proc # 0 /\ ~Gone(_proc)
    /\ Goes(t, "end", "await")
    /\ servers' = [servers EXCEPT ![_proc].told = TRUE]
    /\ held' = [held EXCEPT ![t] = _proc]
    /\ UNCHANGED <<foreign, fields, launcher, model, counts, history>>

\* a stop that does not wait for the end of the process
NoAwait(t) ==
    /\ Goes(t, "await", "forget")
    /\ UNCHANGED <<port, fields, launcher, model, held, counts, history>>

Awaited(t) ==
    /\ Goes(t, "await", "forget")
    /\ Gone(held[t])
    /\ UNCHANGED <<port, fields, launcher, model, held, counts, history>>

\* After 5 seconds it is killed, and nobody awaits that.
Kill(t) ==
    /\ Goes(t, "await", "forget")
    /\ ~Gone(held[t])
    /\ odd' = odd \union {"port"}
    /\ UNCHANGED <<port, fields, launcher, model, held, counts, answers>>

Forget(t) ==
    /\ step[t] = "forget"
    /\ Stopped(t)
    /\ _proc' = 0
    /\ held' = [held EXCEPT ![t] = 0]
    /\ UNCHANGED <<port, _active, launcher, model, counts, history>>
--------------------------------------------------------------------------------
(* POST /api/runtime/select and the launcher.                                  *)

\* a select that starts the new server without stopping the old one
SelectStarts(t) ==
    /\ t \in Selectors
    /\ GatewayUp /\ mode # "exe" /\ selects < MaxSelects
    /\ Goes(t, "idle", "start")
    /\ selects' = selects + 1
    /\ model' \in {[model EXCEPT ![t] = m] : m \in Models}
    /\ Entering(t)
    /\ UNCHANGED <<port, fields, launcher, held, visits, answers>>

\* runtime_select: restart() with a model of the list.  The gateway process of a
\* frozen launcher has no runtime and refuses.
Select(t) ==
    /\ t \in Selectors
    /\ GatewayUp /\ mode # "exe" /\ selects < MaxSelects
    /\ Goes(t, "idle", "stop")
    /\ selects' = selects + 1
    /\ model' \in {[model EXCEPT ![t] = m] : m \in Models}
    /\ Entering(t)
    /\ UNCHANGED <<port, fields, launcher, held, visits, answers>>

\* The gateway starts, in a thread or as a process; the launcher waits for it, in vain
\* or not, and then for its end.
StartGateway ==
    /\ Goes("main", "serve", "up")
    /\ child' = IF mode = "exe" THEN "running" ELSE "none"
    /\ UNCHANGED <<port, fields, mode, handed, model, held, counts, history>>

\* Ctrl+C or Quit: the gateway process is told to end, then the runtime is stopped if
\* start_bundled_runtime returned it.
Quit ==
    /\ step["main"] = "up"
    /\ child' = IF child = "running" THEN "gone" ELSE child
    /\ IF handed THEN Goes("main", "up", "stop") /\ Entering("main")
       ELSE Exit /\ UNCHANGED odd
    /\ UNCHANGED <<port, fields, mode, handed, model, held, counts, answers>>

ChildDies ==
    /\ child = "running" /\ child' = "gone"
    /\ UNCHANGED <<port, fields, mode, handed, threads, counts, history>>
--------------------------------------------------------------------------------
(* The processes at the port.                                                  *)

\* A server has loaded and listens, if the port is free and it is still wanted.
Bind(p) ==
    /\ servers[p].at = "loading" /\ ~servers[p].told /\ ~PortOpen
    /\ servers' = [servers EXCEPT ![p].at = "serving"]
    /\ UNCHANGED <<foreign, fields, launcher, threads, counts, history>>

\* It ends, as told or by itself.
End(p) ==
    /\ ~Gone(p)
    /\ servers' = [servers EXCEPT ![p].at = "gone"]
    /\ UNCHANGED <<foreign, fields, launcher, threads, counts, history>>

ForeignComes ==
    /\ ~PortOpen /\ visits < MaxForeign
    /\ foreign' = TRUE
    /\ visits' = visits + 1
    /\ odd' = odd \union {"port"}
    /\ UNCHANGED <<servers, fields, launcher, threads, selects, answers>>

ForeignLeaves ==
    /\ foreign /\ foreign' = FALSE
    /\ UNCHANGED <<servers, fields, launcher, threads, counts, history>>

Start(t) == \/ Adopt(t)
            \/ MustSpawn(t)
            \/ Spawn(t)
            \/ SpawnFails(t)
            \/ Ready(t)
            \/ Died(t)
            \/ TimesOut(t)

Stop(t) == \/ NothingToStop(t)
           \/ StopHeld(t)
           \/ HeldIsGone(t)
           \/ AlreadyDead(t)
           \/ Terminate(t)
           \/ Awaited(t)
           \/ Kill(t)
           \/ Forget(t)

Work(t) == Start(t) \/ Stop(t)

RuntimeNext == \/ \E t \in Threads : Work(t) \/ Select(t)
               \/ StartGateway \/ Quit \/ ChildDies
               \/ \E p \in DOMAIN servers : Bind(p) \/ End(p)
               \/ ForeignComes \/ ForeignLeaves

RuntimeSpec == RuntimeInit /\ [][RuntimeNext]_runtimeVars

\* A thread goes on while its process lives; its waits are bounded.
FairSpec == RuntimeSpec /\ \A t \in Threads : WF_runtimeVars(Work(t))
--------------------------------------------------------------------------------

Servers == [model : Models, at : {"loading", "serving", "gone"}, told : BOOLEAN]

\* Types of the variables.
TypeOK ==
    /\ servers \in Seq(Servers)
    /\ foreign \in BOOLEAN /\ handed \in BOOLEAN
    /\ _proc \in 0..Len(servers)
    /\ _active \in Models \union {"none"}
    /\ mode \in {"console", "tray", "exe"}
    /\ child \in {"none", "running", "gone"}
    /\ step \in [Threads -> {"idle", "stop", "end", "await", "forget", "start", "spawn", "wait",
                            "serve", "up", "exited"}]
    /\ model \in [Threads -> Models]
    /\ held \in [Threads -> 0..Len(servers)]
    /\ odd \subseteq {"overlap", "port"}

\* A server that the program has started and that nobody has told to end.
Wanted(p) == ~Gone(p) /\ ~servers[p].told

\* Unless two threads have been at work on the runtime at once, every wanted server is the
\* one the runtime holds, so that the next stop of the runtime reaches it, whatever failed
\* or ran out of time before.  Where the launcher was handed the runtime, none is left when
\* it has ended, though selects have put other servers in place; and no gateway process is.
\* (When the launcher was handed none: see QuitStopsRuntime.)
NoStray ==
    /\ "overlap" \notin odd => \A p \in DOMAIN servers : Wanted(p) => p = _proc
    /\ step["main"] = "exited" =>
          /\ ("overlap" \notin odd /\ handed) => \A p \in DOMAIN servers : ~Wanted(p)
          /\ child # "running"

\* "tray Quit stops runtime" (docs/v2/PHASE2_PLAN.md:109): when the launcher has ended no
\* server is left that nobody has told to end.
QuitStopsRuntime ==
    step["main"] = "exited" => \A p \in DOMAIN servers : ~Wanted(p)

\* Where it is said that the runtime is ready with a model, the server that listens has
\* that model: neither the old server, whose port the new one needs, nor another one
\* was taken for it (unless another program has held the port, a server did not end
\* in the time it is given, or two threads were at work: see the README).
ServedAsTold == \A a \in answers : a.by = {a.model}

\* Every select is answered, and a Quit ends: also if the server never listens, does not
\* end when told, or dies.
SelectsEnd == \A t \in Threads : Inside(t) ~> ~Inside(t)
=============================================================================
