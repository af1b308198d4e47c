---------------------------- MODULE PluginSandbox ----------------------------
(***************************************************************************)
(* What contains a plugin: the sandbox and its resource guard while it     *)
(* runs, then what its code may import, call and open.  The parts share no *)
(* state.                                                                  *)
(***************************************************************************)
EXTENDS Integers, Sequences, FiniteSets, SequencesExt

(***************************************************************************)
(* StrategySandbox (src/engine/plugins/sandbox/__init__.py) replaces       *)
(* process-wide builtins, the import hook (restricted_importer.py) and     *)
(* resource limits while a strategy is evaluated, and puts them back.      *)
(* Evaluations await the strategy under one lock; from_factory and cleanup *)
(* take no lock and run between the steps of an evaluation.                *)
(***************************************************************************)
CONSTANTS Sandboxes, EvalTasks,
          MaxEvals          \* bound: evaluations started

ASSUME SandboxAssumption ==
    /\ MaxEvals \in Nat
    /\ "none" \notin Sandboxes /\ "free" \notin EvalTasks    \* what absence is called

VARIABLES sbProc,     \* the process: whose import hook, builtins and limits are in place, the flag
          sbKept,     \* each sandbox: the values it saved, "none" when it holds nothing
          sbLock,     \* _eval_lock: the evaluation that holds it, or "free"
          sbTask,     \* each evaluation: pc, its sandbox, a violation it raised
          sbMetrics,  \* SandboxMetrics: evaluations and errors
          sbTold,     \* what happened: evaluations that returned, that failed to [], violations swallowed
          sbStarted   \* evaluations started

sbVars == <<sbProc, sbKept, sbLock, sbTask, sbMetrics, sbTold, sbStarted>>

Host == [imports |-> "host", builtins |-> "host", limits |-> "host"]
Nothing == [imports |-> "none", builtins |-> "none", limits |-> "none"]
NotEvaluating == [pc |-> "idle", sandbox |-> "none", marked |-> FALSE]
Zero == [evaluations |-> 0, errors |-> 0]

SandboxInit ==
    /\ sbProc = [hooks |-> Host, flag |-> FALSE]
    /\ sbKept = [s \in Sandboxes |-> Nothing]
    /\ sbLock = "free"
    /\ sbTask = [t \in EvalTasks |-> NotEvaluating]
    /\ sbMetrics = [s \in Sandboxes |-> Zero]
    /\ sbTold = [s \in Sandboxes |-> [returned |-> 0, failed |-> 0, swallowed |-> 0]]
    /\ sbStarted = 0

\* RestrictedImporter.install keeps the hook it replaces, once.
InstallImporter(hooks, kept, s) ==
    IF kept.imports = "none"
    THEN [hooks |-> [hooks EXCEPT !.imports = s], kept |-> [kept EXCEPT !.imports = hooks.imports]]
    ELSE [hooks |-> hooks, kept |-> kept]

\* _activate_restrictions: the importer first, then the builtins one by one, then the
\* resource limits; the process flag last.
Activate(hooks, kept, s) ==
    LET a == InstallImporter(hooks, kept, s) IN
    [hooks |-> [a.hooks EXCEPT !.builtins = s, !.limits = s],
     kept  |-> [a.kept EXCEPT !.builtins = hooks.builtins, !.limits = hooks.limits]]

\* RestrictedImporter.uninstall restores the hook only when its own is in place.
UninstallImporter(hooks, kept, s) ==
    IF kept.imports # "none" /\ hooks.imports = s
    THEN [hooks EXCEPT !.imports = kept.imports] ELSE hooks

\* _deactivate_restrictions: what was kept is put back and forgotten.
Deactivate(hooks, kept, s) ==
    LET h == UninstallImporter(hooks, kept, s)
        b == IF kept.builtins = "none" THEN h ELSE [h EXCEPT !.builtins = kept.builtins]
    IN IF kept.limits = "none" THEN b ELSE [b EXCEPT !.limits = kept.limits]

MutLockTaken == FALSE

LockTaken == sbLock # "free"

\* safe_evaluate is called and waits for the lock.
EvaluateCalled(t, s) ==
    /\ sbTask[t].pc = "idle" /\ sbStarted < MaxEvals
    /\ sbTask' = [sbTask EXCEPT ![t] = [pc |-> "waits", sandbox |-> s, marked |-> FALSE]]
    /\ sbStarted' = sbStarted + 1
    /\ UNCHANGED <<sbProc, sbKept, sbLock, sbMetrics, sbTold>>

\* The lock is taken, the restrictions go up and on_bar is called.
EvaluateStarts(t) ==
    LET s == sbTask[t].sandbox
        a == Activate(sbProc.hooks, sbKept[s], s) IN
    /\ sbTask[t].pc = "waits" /\ ~LockTaken
    /\ sbLock' = t
    /\ sbProc' = [hooks |-> a.hooks, flag |-> TRUE]
    /\ sbKept' = [sbKept EXCEPT ![s] = a.kept]
    /\ sbTask' = [sbTask EXCEPT ![t].pc = "runs"]
    /\ UNCHANGED <<sbMetrics, sbTold, sbStarted>>

\* _restricted_getattr counts a blocked attribute; it returns the default or raises a
\* marked PermissionError, which the strategy lets through or handles.
BlockedAttribute(t, escapes) ==
    LET s == sbTask[t].sandbox IN
    /\ sbTask[t].pc = "runs" /\ ~sbTask[t].marked /\ sbMetrics[s].errors < MaxEvals
    /\ sbMetrics' = [sbMetrics EXCEPT ![s].errors = @ + 1]
    /\ sbTask' = [sbTask EXCEPT ![t].marked = escapes]
    /\ sbTold' = IF escapes THEN sbTold ELSE [sbTold EXCEPT ![s].swallowed = @ + 1]
    /\ UNCHANGED <<sbProc, sbKept, sbLock, sbStarted>>

MutErrorsAfter(s, how, marked) ==
    sbMetrics[s].errors + (IF how \in {"timeout", "raises"} THEN 1 ELSE 0)

\* _evaluate_inner counts an error unless the hook did.
ErrorsAfter(s, how, marked) ==
    sbMetrics[s].errors
    + (IF how = "timeout" \/ (how = "raises" /\ ~marked) THEN 1 ELSE 0)

Ends == {"signals", "timeout", "raises", "cancelled", "garbled"}

\* The evaluation ends: signals, a timeout, an exception, or the task is cancelled
\* (which counts nothing). The finally block takes the restrictions down, and the
\* lock is released. After it _convert_signals raises on an answer that is no list of
\* anything, None for one: this exception leaves safe_evaluate and counts nothing.
EvaluateEnds(t, how) ==
    LET s == sbTask[t].sandbox IN
    /\ sbTask[t].pc = "runs"
    /\ sbTask[t].marked => how = "raises"
    /\ sbProc' = [hooks |-> Deactivate(sbProc.hooks, sbKept[s], s), flag |-> FALSE]
    /\ sbKept' = [sbKept EXCEPT ![s] = Nothing]
    /\ sbLock' = IF sbLock = t THEN "free" ELSE sbLock
    /\ sbMetrics' = [sbMetrics EXCEPT ![s] =
           [evaluations |-> @.evaluations + (IF how = "signals" THEN 1 ELSE 0),
            errors      |-> ErrorsAfter(s, how, sbTask[t].marked)]]
    /\ sbTold' = [sbTold EXCEPT ![s] =
           [returned  |-> @.returned + (IF how = "signals" THEN 1 ELSE 0),
            failed    |-> @.failed + (IF how \in {"timeout", "raises"} THEN 1 ELSE 0),
            swallowed |-> @.swallowed]]
    /\ sbTask' = [sbTask EXCEPT ![t] = NotEvaluating]
    /\ UNCHANGED sbStarted

\* from_factory: a new sandbox builds its strategy under restrictions, in one step of
\* the event loop, whatever evaluation is under way; its own imports are taken to
\* pass a hook that is up.
FromFactory(s) ==
    LET a == Activate(sbProc.hooks, Nothing, s) IN
    /\ sbKept[s] = Nothing
    /\ sbProc' = [hooks |-> Deactivate(a.hooks, a.kept, s), flag |-> FALSE]
    /\ UNCHANGED <<sbKept, sbLock, sbTask, sbMetrics, sbTold, sbStarted>>

\* cleanup takes the sandbox's restrictions down and removes its directory.
Cleanup(s) ==
    /\ sbProc' = [hooks |-> Deactivate(sbProc.hooks, sbKept[s], s), flag |-> FALSE]
    /\ sbKept' = [sbKept EXCEPT ![s] = Nothing]
    /\ UNCHANGED <<sbLock, sbTask, sbMetrics, sbTold, sbStarted>>

SandboxNext ==
    \/ \E t \in EvalTasks :
         \/ \E s \in Sandboxes : EvaluateCalled(t, s)
         \/ EvaluateStarts(t)
         \/ \E escapes \in BOOLEAN : BlockedAttribute(t, escapes)
         \/ \E how \in Ends : EvaluateEnds(t, how)
    \/ \E s \in Sandboxes : FromFactory(s) \/ Cleanup(s)

----------------------------------------
(* Properties *)

\* When no evaluation is running, the import hook, the builtins and the resource
\* limits are the host's, however evaluations, factories and cleanups were
\* interleaved.
HooksRestored ==
    (\A t \in EvalTasks : sbTask[t].pc # "runs") => sbProc = [hooks |-> Host, flag |-> FALSE]

\* SandboxMetrics tell what happened: evaluations that returned signals, and an error
\* for each one that safe_evaluate answered with an empty list and each violation the
\* strategy swallowed, counted once.  (Evaluations that leave it with an exception,
\* cancelled or garbled, are in neither count.)
MetricsTellOutcome ==
    \A s \in Sandboxes :
      /\ sbMetrics[s].evaluations = sbTold[s].returned
      /\ sbMetrics[s].errors = sbTold[s].failed + sbTold[s].swallowed
           + Cardinality({t \in EvalTasks : sbTask[t].sandbox = s /\ sbTask[t].marked})

----------------------------------------
(***************************************************************************)
(* resource_limits (src/engine/plugins/sandbox/resource_limits.py): a      *)
(* guarded region with a SIGALRM timer and a tracemalloc peak, both global *)
(* to the process, entered by threads under a lock that is never waited    *)
(* for. The alarm may go off at any step of the main thread.               *)
(***************************************************************************)

CONSTANTS GuardThreads, MainThread

ASSUME GuardAssumption == MainThread \in GuardThreads /\ {"free", "prior", "none"} \cap GuardThreads = {}

VARIABLES rgLock,     \* _guard_lock: its holder or "free"
          rgAlarm,    \* SIGALRM: whose handler is installed, whether the timer runs
          rgTracing,  \* tracemalloc is on
          rgHosts,    \* the host had switched tracemalloc on itself
          rgThread,   \* each thread: pc, what it armed, what it raises
          rgHurt      \* what went wrong with a guard itself: "arming", "alarm", "monitor"

rgVars == <<rgLock, rgAlarm, rgTracing, rgHosts, rgThread, rgHurt>>

Outside == [pc |-> "out", armed |-> FALSE, prior |-> "none", started |-> FALSE, watched |-> FALSE, breach |-> FALSE, says |-> "none"]

GuardInit ==
    /\ rgLock = "free"
    /\ rgAlarm = [handler |-> "prior", running |-> FALSE]
    /\ rgHosts \in BOOLEAN /\ rgTracing = rgHosts
    /\ rgThread = [t \in GuardThreads |-> Outside]
    /\ rgHurt = {}

\* The lock is taken, or the entry fails at once with SINGLE_FLIGHT_RESOURCE.
EnterGuard(t) ==
    /\ rgThread[t].pc = "out"
    /\ \/ /\ rgLock = "free" /\ rgLock' = t
          /\ rgThread' = [rgThread EXCEPT ![t] = [Outside EXCEPT !.pc = "arm"]]
       \/ /\ rgLock # "free"
          /\ rgThread' = [rgThread EXCEPT ![t] = [Outside EXCEPT !.says = "single_flight"]]
          /\ UNCHANGED rgLock
    /\ UNCHANGED <<rgAlarm, rgTracing, rgHosts, rgHurt>>

\* _arm_cpu_guard: only on the main thread; the handler, then the timer, either of
\* which may fail and leaves timer_armed false.
ArmCpu(t) ==
    /\ rgThread[t].pc = "arm"
    /\ \/ /\ t = MainThread
          /\ rgAlarm' = [handler |-> t, running |-> TRUE]
          /\ rgThread' = [rgThread EXCEPT ![t].pc = "trace", ![t].armed = TRUE,
                                                 ![t].prior = rgAlarm.handler]
          /\ UNCHANGED rgHurt
       \/ /\ t = MainThread
          /\ rgAlarm' = [rgAlarm EXCEPT !.handler = t]
          /\ rgThread' = [rgThread EXCEPT ![t].pc = "trace"]
          /\ rgHurt' = rgHurt \cup {"arming"}
       \/ /\ rgThread' = [rgThread EXCEPT ![t].pc = "trace"]
          /\ UNCHANGED <<rgAlarm, rgHurt>>
    /\ UNCHANGED <<rgLock, rgTracing, rgHosts>>

\* _setup_memory_guard starts tracemalloc unless it runs, and a monitor thread; without
\* a cap, or when tracemalloc cannot start, nothing watches.
SetupMemory(t) ==
    /\ rgThread[t].pc = "trace"
    /\ \/ /\ rgTracing' = TRUE
          /\ rgThread' = [rgThread EXCEPT ![t].pc = "body", ![t].started = ~rgTracing, ![t].watched = TRUE]
       \/ /\ rgThread' = [rgThread EXCEPT ![t].pc = "body"]
          /\ UNCHANGED rgTracing
    /\ UNCHANGED <<rgLock, rgAlarm, rgHosts, rgHurt>>

\* The monitor cannot be started: outside the inner try, so that only the lock is
\* released, and the timer, the handler and tracemalloc stay as they are.
MonitorFails(t) ==
    /\ rgThread[t].pc = "trace"
    /\ rgTracing' = TRUE
    /\ rgThread' = [rgThread EXCEPT ![t] = [Outside EXCEPT !.says = "monitor"]]
    /\ rgLock' = "free" /\ rgHurt' = rgHurt \cup {"monitor"}
    /\ UNCHANGED <<rgAlarm, rgHosts>>

\* The monitor sees too much memory in use.
MemoryBreach(t) ==
    /\ rgThread[t].pc = "body" /\ rgThread[t].watched /\ ~rgThread[t].breach
    /\ rgThread' = [rgThread EXCEPT ![t].breach = TRUE]
    /\ UNCHANGED <<rgLock, rgAlarm, rgTracing, rgHosts, rgHurt>>

\* The body returns or raises and the finally block begins: the monitor is stopped.
BodyEnds(t) ==
    /\ rgThread[t].pc = "body"
    /\ rgThread' = [rgThread EXCEPT ![t].pc = "teardown"]
    /\ UNCHANGED <<rgLock, rgAlarm, rgTracing, rgHosts, rgHurt>>

MutKeepTimer(t) == [rgAlarm EXCEPT !.handler = "prior"]

MutDisarm(t) == [rgAlarm EXCEPT !.running = FALSE]

\* _teardown_guards: the timer is stopped and the caller's handler restored.
Disarm(t) ==
    IF rgThread[t].armed THEN [handler |-> rgThread[t].prior, running |-> FALSE] ELSE rgAlarm

TeardownCpu(t) ==
    /\ rgThread[t].pc = "teardown"
    /\ rgAlarm' = Disarm(t)
    /\ rgThread' = [rgThread EXCEPT ![t].pc = "finalize"]
    /\ UNCHANGED <<rgLock, rgTracing, rgHosts, rgHurt>>

\* _finalize_memory stops tracemalloc when the guard started it and raises after a
\* breach; the lock is released last.
FinalizeMemory(t) ==
    /\ rgThread[t].pc = "finalize"
    /\ rgTracing' = (rgTracing /\ ~rgThread[t].started)
    /\ rgThread' = [rgThread EXCEPT ![t] =
          [Outside EXCEPT !.says = IF rgThread[t].breach THEN "memory"
                                   ELSE IF rgThread[t].says = "none" THEN "done" ELSE rgThread[t].says,
                          !.breach = rgThread[t].breach]]
    /\ rgLock' = "free"
    /\ UNCHANGED <<rgAlarm, rgHosts, rgHurt>>

\* The timer expires and the handler raises in the main thread: in the body, which
\* the finally block follows; while a guard is set up, which nothing tears down, or
\* torn down, whose remaining steps are skipped; and, when a failed guard left its
\* timer, in whatever the thread does outside.
Alarm ==
    /\ rgAlarm.running /\ rgAlarm.handler = MainThread
    /\ rgAlarm' = [rgAlarm EXCEPT !.running = FALSE]
    /\ LET t == MainThread IN
       \/ /\ rgThread[t].pc = "body"
          /\ rgThread' = [rgThread EXCEPT ![t].pc = "teardown", ![t].says = "cpu"]
          /\ UNCHANGED <<rgLock, rgHurt>>
       \/ /\ rgThread[t].pc \in {"arm", "trace", "teardown", "finalize"}
          /\ rgThread' = [rgThread EXCEPT ![t] = [Outside EXCEPT !.says = "cpu"]]
          /\ rgLock' = "free" /\ rgHurt' = rgHurt \cup {"alarm"}
       \/ /\ rgThread[t].pc = "out"
          /\ rgThread' = [rgThread EXCEPT ![t].says = "stray"]
          /\ UNCHANGED <<rgLock, rgHurt>>
    /\ UNCHANGED <<rgTracing, rgHosts>>

GuardNext ==
    \/ \E t \in GuardThreads :
         EnterGuard(t) \/ ArmCpu(t) \/ SetupMemory(t) \/ MonitorFails(t) \/ MemoryBreach(t) \/ BodyEnds(t)
         \/ TeardownCpu(t) \/ FinalizeMemory(t)
    \/ Alarm

----------------------------------------
(* Properties *)

\* A free lock means the caller's alarm handler is back, no timer runs and
\* tracemalloc is as the host left it, unless arming failed between its two calls, an
\* alarm interrupted the set-up or the teardown itself, or a monitor did not start;
\* only this last one leaves a timer behind.
GuardLeavesNothing ==
    rgLock = "free" =>
      /\ rgAlarm.running => "monitor" \in rgHurt
      /\ rgHurt = {} => rgAlarm.handler = "prior" /\ rgTracing = rgHosts

\* Only the holder of the lock is inside, also after an alarm: unless a guard died
\* with its monitor, the alarm never raises in a thread outside the guarded region.
AlarmHitsHolder ==
    "monitor" \notin rgHurt =>
        /\ rgAlarm.running => rgAlarm.handler = rgLock
        /\ \A t \in GuardThreads : rgThread[t].says # "stray"

----------------------------------------
(***************************************************************************)
(* What plugin code may import, call, open and reach, and how a strategy   *)
(* is loaded (src/engine/plugins/: restricted_importer.py, registry.py,    *)
(* plugin_registry.py, sandbox/ast_validator.py, sandbox/filesystem.py).   *)
(* A dotted module name and a path are sequences of their parts; source    *)
(* code is the statements the checkers look at. A link of the file system  *)
(* may be pointed elsewhere at any time.                                   *)
(***************************************************************************)

CONSTANTS AllowedModules,          \* FROZEN_ALLOWED_MODULES
          DeniedModules,           \* DENYLIST_MODULES
          Bypass,           \* _INTERNAL_BYPASS_MODULES
          Modules,          \* module names plugins use
          PluginNames, PluginClasses,
          MaxFlips          \* bound: link changes and registrations

ASSUME PolicyAssumption ==
    /\ MaxFlips \in Nat
    /\ AllowedModules # {} /\ AllowedModules \cup Bypass \cup DeniedModules \subseteq Seq(STRING)
    /\ \A n \in AllowedModules \cup Bypass : Len(n) = 1
    /\ \A n \in DeniedModules : <<n[1]>> \notin AllowedModules

VARIABLES plLoaded,   \* the plugin in use: its statements, {} for none
          plSource,   \* the source being loaded and where the load stands
          plLink,     \* where the link /work/link points: "inside" or "outside"
          plOpen,     \* an open call of plugin code: pc, the path asked for, the path checked
          plRegistry, \* PluginRegistry._plugins: name to class, "none" when absent
          plFlips     \* link changes and registrations so far

plVars == <<plLoaded, plSource, plLink, plOpen, plRegistry, plFlips>>

RootOf(n) == <<n[1]>>

----------------------------------------
(* Imports *)

MutStaticBlocked(n) == n \in DeniedModules \/ (RootOf(n) \notin DeniedModules /\ RootOf(n) \notin AllowedModules)

\* ImportValidator._module_is_blocked
StaticBlocked(n) ==
    \/ n \in DeniedModules
    \/ IF RootOf(n) \in DeniedModules THEN n \notin AllowedModules ELSE RootOf(n) \notin AllowedModules

\* RestrictedImporter._is_allowed, asked by find_spec and the __import__ hook
DynamicAllowed(n) == RootOf(n) \in Bypass \/ (RootOf(n) \notin DeniedModules /\ RootOf(n) \in AllowedModules)

MutAstForbidden(n, allowlist) == RootOf(n) \in DeniedModules \/ n \in DeniedModules

\* ASTValidator._is_forbidden_module
AstForbidden(n, allowlist) ==
    \/ RootOf(n) \in DeniedModules \/ n \in DeniedModules
    \/ allowlist # {} /\ RootOf(n) \notin allowlist /\ n \notin allowlist

DangerousCalls == {"exec", "eval", "compile", "__import__"}

\* Statements: import n, from (level dots) n import a name or *, and calls.
Imports == [kind : {"import"}, name : Modules, level : {0}, star : {FALSE}]
FromImports == [kind : {"from"}, name : Modules, level : 0..2, star : BOOLEAN]
CallsOf == [kind : {"call"}, name : {<<"exec">>, <<"len">>, <<"importlib", "import_module">>, <<"importlib", "__import__">>},
          level : {0}, star : {FALSE}]
Statements == Imports \cup FromImports \cup CallsOf

\* ImportValidator.visit_Import, visit_ImportFrom and visit_Call
StaticViolation(s) ==
    CASE s.kind \in {"import", "from"} -> StaticBlocked(s.name)
      [] s.kind = "call" -> \/ Len(s.name) = 1 /\ s.name[1] \in DangerousCalls
                            \/ s.name = <<"importlib", "import_module">>

\* ASTValidator.visit_Import, visit_ImportFrom and visit_Call
AstViolation(s, allowlist) ==
    CASE s.kind = "import" -> AstForbidden(s.name, allowlist)
      [] s.kind = "from" -> s.level > 1 \/ s.star \/ AstForbidden(s.name, allowlist)
      [] s.kind = "call" -> \/ Len(s.name) = 1 /\ s.name[1] \in DangerousCalls
                            \/ Len(s.name) = 2 /\ s.name[2] \in {"import_module", "__import__"}

----------------------------------------
(* Loading *)

PolicyInit ==
    /\ plLoaded = {}
    /\ plSource = [pc |-> "none", statements |-> {}]
    /\ plLink = "inside"
    /\ plOpen = [pc |-> "none", path |-> <<>>, checked |-> <<>>]
    /\ plRegistry = [n \in PluginNames |-> "none"]
    /\ plFlips = 0

\* load_strategy_class: the file is read once, capped, parsed and checked; the bytes
\* that were checked are the ones compiled and run. (Loads come before link changes, to bound the run.)
ReadSource(st) ==
    /\ plSource.pc = "none" /\ plLoaded = {} /\ plFlips = 0
    /\ plSource' = [pc |-> "read", statements |-> st]
    /\ UNCHANGED <<plLoaded, plLink, plOpen, plRegistry, plFlips>>

\* Rejected sources, missing classes and failing constructors all make load_strategy
\* return None.
LoadStrategy(works) ==
    /\ plSource.pc = "read"
    /\ plSource' = [pc |-> "none", statements |-> {}]
    /\ plLoaded' = IF works /\ \A s \in plSource.statements : ~StaticViolation(s)
                   THEN plSource.statements ELSE {}
    /\ UNCHANGED <<plLink, plOpen, plRegistry, plFlips>>

Unload ==
    /\ plLoaded # {} /\ plOpen.pc = "none"
    /\ plLoaded' = {}
    /\ UNCHANGED <<plSource, plLink, plOpen, plRegistry, plFlips>>

\* PluginRegistry.register (the name new, the class concrete), unregister and clear.
RegisterPlugin(n, c) ==
    /\ plRegistry[n] = "none" /\ plFlips < MaxFlips
    /\ plRegistry' = [plRegistry EXCEPT ![n] = c]
    /\ plFlips' = plFlips + 1
    /\ UNCHANGED <<plLoaded, plSource, plLink, plOpen>>

UnregisterPlugins(names) ==
    /\ \A n \in names : plRegistry[n] # "none"
    /\ names # {}
    /\ plRegistry' = [n \in PluginNames |-> IF n \in names THEN "none" ELSE plRegistry[n]]
    /\ UNCHANGED <<plLoaded, plSource, plLink, plOpen, plFlips>>

----------------------------------------
(* Files: the work directory is /work; /work/link is a symbolic link. *)

WorkDir == <<"work">>
Paths == {<<"work", "data">>, <<"work", "link">>, <<"etc">>, <<"workshop">>}

\* os.path.realpath
RealPath(p) ==
    IF p # <<"work", "link">> THEN p
    ELSE IF plLink = "inside" THEN <<"work", "data">> ELSE <<"etc">>

\* PathValidator._within: the root itself or a path below it, by whole parts.
Within(p) == p = WorkDir \/ IsStrictPrefix(WorkDir, p)

\* StrategySandbox._restricted_open: no descriptors, no mode with w, a or + (x passes),
\* and the resolved path must lie in the work directory or an artifact.
RestrictedOpen(p, writes) ==
    /\ plLoaded # {} /\ plOpen.pc = "none"
    /\ plOpen' = IF writes \/ ~Within(RealPath(p)) THEN [plOpen EXCEPT !.pc = "none"]
                 ELSE [pc |-> "checked", path |-> p, checked |-> RealPath(p)]
    /\ UNCHANGED <<plLoaded, plSource, plLink, plRegistry, plFlips>>

MutOpened(o) == RealPath(o.path)

\* The original open is handed the resolved path, not the one asked for.
Opened(o) == o.checked

OpensFile ==
    /\ plOpen.pc = "checked"
    /\ plOpen' = [plOpen EXCEPT !.pc = "open", !.checked = Opened(plOpen)]
    /\ UNCHANGED <<plLoaded, plSource, plLink, plRegistry, plFlips>>

ClosesFile ==
    /\ plOpen.pc = "open"
    /\ plOpen' = [pc |-> "none", path |-> <<>>, checked |-> <<>>]
    /\ UNCHANGED <<plLoaded, plSource, plLink, plRegistry, plFlips>>

\* Another process points the link elsewhere.
LinkMoves ==
    /\ plFlips < MaxFlips
    /\ plLink' = IF plLink = "inside" THEN "outside" ELSE "inside"
    /\ plFlips' = plFlips + 1
    /\ UNCHANGED <<plLoaded, plSource, plOpen, plRegistry>>

PolicyNext ==
    \/ \E a, b \in Statements : ReadSource({a, b})
    \/ \E works \in BOOLEAN : LoadStrategy(works)
    \/ Unload
    \/ \E n \in PluginNames, c \in PluginClasses : RegisterPlugin(n, c)
    \/ \E names \in SUBSET PluginNames : UnregisterPlugins(names)
    \/ \E p \in Paths, writes \in BOOLEAN : RestrictedOpen(p, writes)
    \/ OpensFile \/ ClosesFile \/ LinkMoves

----------------------------------------
(* Properties *)

\* A strategy that passed the static check at load time can import at run time
\* everything it names: the two allowlists never disagree about a loaded plugin.
LoadedIsImportable ==
    \A s \in plLoaded : s.kind \in {"import", "from"} => DynamicAllowed(s.name)

\* ASTValidator with the frozen allowlist accepts nothing that the loader rejects.
AstIsStricter ==
    plSource.pc = "read" /\ (\A s \in plSource.statements : ~AstViolation(s, AllowedModules))
      => \A s \in plSource.statements : ~StaticViolation(s)

\* The file plugin code gets lies in the work directory even when a link moved
\* between the check and the open.
OpenedIsInside == plOpen.pc = "open" => Within(plOpen.checked)
=============================================================================
