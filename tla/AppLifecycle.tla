---------------------------- MODULE AppLifecycle ----------------------------
(***************************************************************************)
(* The life of an application in the core framework (src/sca/ossie-sca):   *)
(* ApplicationFactory_impl::create and Application_impl::releaseObject,    *)
(* one remote call per step, against the executable devices (GPP.cpp), the *)
(* naming service and the component processes (ossieResource.h).           *)
(*                                                                         *)
(* One client calls at a time.  A component is a resource found through    *)
(* the naming service and its code an executable, as in every waveform     *)
(* under src/sca/waveforms.                                                *)
(*                                                                         *)
(* create and releaseObject declare what they throw; any other user        *)
(* exception that reaches them goes to std::unexpected and ends the        *)
(* process of the domain manager.  A system exception reaches the client.  *)
(***************************************************************************)
EXTENDS Naturals, Sequences, SequencesExt

CONSTANTS
    Factories,      \* the installed applications
    Components,     \* component instantiations of their assemblies
    Comps,          \* per factory, its components in the order of the assembly
    Conns,          \* per factory, its connections [uses, provides]
    Files, File,    \* the executables, and the one of each component
    Devices,        \* executable devices
    Names,          \* application names
    FirstDevices,   \* the devices registered from the start
    Exclusive,      \* clients create one application of a factory at a time
    MayCrash,       \* the components whose process may die
    MayLock,        \* the devices whose adminState management may set
    MayFailFork,    \* the devices whose fork may fail
    MaxCalls,       \* bound: calls of create and releaseObject
    None            \* no device, no process, no naming context

ASSUME AssemblyAssumption ==
    /\ Comps \in [Factories -> Seq(Components) \ {<< >>}]
    /\ \A f, g \in Factories : \A i \in DOMAIN Comps[f], j \in DOMAIN Comps[g] :
           Comps[f][i] = Comps[g][j] => f = g /\ i = j
    /\ \A f \in Factories :
           Conns[f] \in Seq([uses : ToSet(Comps[f]), provides : ToSet(Comps[f])])
    /\ File \in [Components -> Files]
ASSUME DeviceAssumption == FirstDevices \subseteq Devices /\ None \notin Devices
ASSUME LifecycleBound == MaxCalls \in Nat /\ Exclusive \in BOOLEAN /\ None \notin Nat

VARIABLES
    (* the domain manager's process *)
    dmn,        \* "up", or what ended it
    at, nth,    \* the step of the call in progress, and how far it has come
    app, das,   \* the application it makes or releases; create's devices
    calls,      \* calls made so far
    raised,     \* history: some call ended with an exception
    appseq,     \* the domain's applications
    info,       \* ComponentInfo, one per component and SHARED by the
                \* applications of a factory
    registeredDevices,  \* per factory, the devices it has looked up once
    (* the naming service *)
    root,       \* the context bound to each application name
    ctxs,       \* per context ever made: the processes bound in it, and alive
    (* the devices *)
    registered, adminState, loadedFiles,
    (* the component processes, by pid *)
    procs

callVars == <<at, nth, app, das>>
domainVars == <<dmn, callVars, calls, raised, appseq, info, registeredDevices>>
namingVars == <<root, ctxs>>
deviceVars == <<registered, adminState, loadedFiles>>
vars == <<domainVars, namingVars, deviceVars, procs>>

\* The device assignment sequence of a call: None where it misses a component.
Assignments(f) == [ToSet(Comps[f]) -> registered \cup {None}]

\* What create keeps of an application and releaseObject uses.
App(f, name, ctx, pids, links) ==
    [f |-> f, name |-> name, ctx |-> ctx, pids |-> pids, links |-> links]
NoApp == App(None, None, None, << >>, << >>)

Listed(name) == \E k \in DOMAIN appseq : appseq[k].name = name

Init ==
    /\ dmn = "up"
    /\ at = "idle"
    /\ nth = 0 /\ app = NoApp /\ das = << >>
    /\ calls = 0
    /\ raised = FALSE
    /\ appseq = << >>
    /\ info = [c \in Components |->
                  [assigned |-> None, deployed |-> FALSE, pid |-> None,
                   device |-> None, rsc |-> None]]
    /\ registeredDevices = [f \in Factories |-> {}]
    /\ root = [n \in Names |-> None]
    /\ ctxs = << >>
    /\ registered = FirstDevices
    /\ adminState = [d \in Devices |-> "UNLOCKED"]
    /\ loadedFiles = [d \in Devices |-> [x \in Files |-> 0]]
    /\ procs = << >>

\* The component the call is at, and its process states.
comp == Comps[app.f][nth]
Alive(p) == procs[p].st \in {"starting", "bound", "waiting", "woken"}

GoTo(step, i) == at' = step /\ nth' = i /\ UNCHANGED <<app, das>>
Idle == at' = "idle" /\ nth' = 0 /\ app' = NoApp /\ das' = << >>
Raise == Idle /\ raised' = TRUE
Abort(why) == dmn' = why /\ UNCHANGED <<callVars, raised>>

-----------------------------------------------------------------------------
(* ApplicationFactory_impl::create                                         *)

CallCreate(f, name, a) ==
    /\ dmn = "up" /\ at = "idle" /\ calls < MaxCalls
    /\ Exclusive => \A k \in DOMAIN appseq : appseq[k].f # f
    /\ at' = "create"
    /\ nth' = 1 /\ app' = App(f, name, None, << >>, << >>) /\ das' = a
    /\ calls' = calls + 1
    /\ UNCHANGED <<dmn, raised, appseq, info, registeredDevices, namingVars, deviceVars, procs>>

\* "Application name already exists."
RefuseName ==
    /\ dmn = "up" /\ at = "create" /\ Listed(app.name)
    /\ Raise
    /\ UNCHANGED <<dmn, calls, appseq, info, registeredDevices, namingVars, deviceVars, procs>>

\* bind_new_context raises AlreadyBound when an earlier call left the name bound.
BindContext ==
    /\ dmn = "up" /\ at = "create" /\ ~Listed(app.name)
    /\ IF root[app.name] = None
       THEN /\ ctxs' = Append(ctxs, [bound |-> [c \in Components |-> None], alive |-> TRUE])
            /\ root' = [root EXCEPT ![app.name] = Len(ctxs) + 1]
            /\ at' = "verify"
            /\ app' = [app EXCEPT !.ctx = Len(ctxs) + 1]
            /\ UNCHANGED <<dmn, nth, das, raised>>
       ELSE Abort("AlreadyBound") /\ UNCHANGED namingVars
    /\ UNCHANGED <<calls, appseq, info, registeredDevices, deviceVars, procs>>

\* Keeps the assignments it finds even when it then refuses the sequence.
VerifyDeviceAssignments ==
    /\ dmn = "up" /\ at = "verify"
    /\ info' = [c \in Components |->
                   IF c \in ToSet(Comps[app.f]) /\ das[c] # None
                   THEN [info[c] EXCEPT !.assigned = das[c]] ELSE info[c]]
    /\ IF \A c \in ToSet(Comps[app.f]) : das[c] # None
       THEN GoTo("devices", 1) /\ UNCHANGED raised
       ELSE Raise
    /\ UNCHANGED <<dmn, calls, appseq, registeredDevices, namingVars, deviceVars, procs>>

\* The devices are asked for when none is known yet, and never again.
GetRegisteredDevices ==
    /\ dmn = "up" /\ at = "devices"
    /\ registeredDevices' =
           [registeredDevices EXCEPT ![app.f] = IF @ = {} THEN registered ELSE @]
    /\ GoTo("load", 1)
    /\ UNCHANGED <<dmn, calls, raised, appseq, info, namingVars, deviceVars, procs>>

\* Fault: a file loaded before is not counted again.
IncrementNew(n) == IF n = 0 THEN 1 ELSE n

\* GPP_i::incrementFile: a file loaded before is counted twice.
IncrementFile(n) == IF n = 0 THEN 1 ELSE n + 2

\* find_device_from_id and the device's load.
Load ==
    /\ dmn = "up" /\ at = "load"
    /\ LET d == info[comp].assigned
       IN  \/ /\ d \notin registeredDevices[app.f]
              /\ Abort("assert") /\ UNCHANGED loadedFiles
           \/ /\ d \in registeredDevices[app.f] /\ adminState[d] # "UNLOCKED"
              /\ Abort("InvalidState") /\ UNCHANGED loadedFiles
           \/ /\ d \in registeredDevices[app.f] /\ adminState[d] = "UNLOCKED"
              /\ loadedFiles' = [loadedFiles EXCEPT ![d][File[comp]] = IncrementFile(@)]
              /\ GoTo("execute", nth) /\ UNCHANGED <<dmn, raised>>
    /\ UNCHANGED <<calls, appseq, info, registeredDevices, namingVars,
                   registered, adminState, procs>>

\* Fault: one component too many.
AfterExecutePastEnd(pids) ==
    /\ at' = IF nth <= Len(Comps[app.f]) THEN "load" ELSE "await"
    /\ nth' = IF nth <= Len(Comps[app.f]) THEN nth + 1 ELSE 1
    /\ app' = [app EXCEPT !.pids = pids]
    /\ UNCHANGED das

\* The next component to load, or the first one to wait for.
AfterExecute(pids) ==
    /\ at' = IF nth < Len(Comps[app.f]) THEN "load" ELSE "await"
    /\ nth' = IF nth < Len(Comps[app.f]) THEN nth + 1 ELSE 1
    /\ app' = [app EXCEPT !.pids = pids]
    /\ UNCHANGED das

\* GPP_i::execute; create goes on when it answers -1.
Execute ==
    /\ dmn = "up" /\ at = "execute"
    /\ LET d == info[comp].assigned
           pid == Len(procs) + 1
       IN  \/ /\ adminState[d] # "UNLOCKED"
              /\ Abort("InvalidState") /\ UNCHANGED <<info, procs>>
           \/ /\ adminState[d] = "UNLOCKED" /\ loadedFiles[d][File[comp]] = 0
              /\ Abort("InvalidFileName") /\ UNCHANGED <<info, procs>>
           \/ /\ adminState[d] = "UNLOCKED" /\ loadedFiles[d][File[comp]] > 0
              /\ procs' = Append(procs, [comp |-> comp, dev |-> d, ctx |-> app.ctx,
                                         st |-> "starting", released |-> FALSE,
                                         crashed |-> FALSE, conns |-> {}])
              /\ info' = [info EXCEPT ![comp].deployed = TRUE, ![comp].pid = pid,
                                      ![comp].device = d]
              /\ AfterExecute(Append(app.pids, pid)) /\ UNCHANGED <<dmn, raised>>
           \/ /\ adminState[d] = "UNLOCKED" /\ loadedFiles[d][File[comp]] > 0
              /\ d \in MayFailFork
              /\ AfterExecute(app.pids) /\ UNCHANGED <<dmn, raised, info, procs>>
    /\ UNCHANGED <<calls, appseq, registeredDevices, namingVars, deviceVars>>

\* Each component is waited for until it has bound its name, then initialized
\* and configured; the call raises when the process is gone by then.
AwaitComponent ==
    /\ dmn = "up" /\ at = "await"
    /\ LET p == ctxs[app.ctx].bound[comp]
       IN  /\ p # None
           /\ info' = [info EXCEPT ![comp].rsc = p]
           /\ IF Alive(p)
              THEN /\ IF nth < Len(Comps[app.f])
                      THEN GoTo("await", nth + 1) ELSE GoTo("connect", Len(Conns[app.f]))
                   /\ UNCHANGED raised
              ELSE Raise
    /\ UNCHANGED <<dmn, calls, appseq, registeredDevices, namingVars, deviceVars, procs>>

\* Connections are made from the last to the first.
Connect ==
    /\ dmn = "up" /\ at = "connect" /\ nth > 0
    /\ LET c == Conns[app.f][nth]
           user == ctxs[app.ctx].bound[c.uses]
           provider == ctxs[app.ctx].bound[c.provides]
       IN  IF Alive(user) /\ Alive(provider)
           THEN /\ procs' = [procs EXCEPT ![user].conns = @ \cup {[id |-> nth, to |-> provider]}]
                /\ nth' = nth - 1
                /\ app' = [app EXCEPT !.links = Append(@, [port |-> user, id |-> nth])]
                /\ UNCHANGED <<at, das, raised>>
           ELSE Raise /\ UNCHANGED procs
    /\ UNCHANGED <<dmn, calls, appseq, info, registeredDevices, namingVars, deviceVars>>

ListApplication ==
    /\ dmn = "up" /\ at = "connect" /\ nth = 0
    /\ appseq' = Append(appseq, app)
    /\ Idle
    /\ UNCHANGED <<dmn, calls, raised, info, registeredDevices, namingVars, deviceVars, procs>>

-----------------------------------------------------------------------------
(* Application_impl::releaseObject, on an application of the domain's list *)

CallRelease(k) ==
    /\ dmn = "up" /\ at = "idle" /\ calls < MaxCalls
    /\ at' = "unlist"
    /\ nth' = 1 /\ app' = appseq[k] /\ das' = << >>
    /\ calls' = calls + 1
    /\ UNCHANGED <<dmn, raised, appseq, info, registeredDevices, namingVars, deviceVars, procs>>

\* Fault: the application is not found by its name.
UnlistFirst ==
    /\ dmn = "up" /\ at = "unlist"
    /\ appseq' = Tail(appseq)
    /\ GoTo("disconnect", 1)
    /\ UNCHANGED <<dmn, calls, raised, info, registeredDevices, namingVars, deviceVars, procs>>

\* The list is searched for the name of the application's first component.
Unlist ==
    /\ dmn = "up" /\ at = "unlist"
    /\ appseq' = RemoveFirstMatch(appseq, LAMBDA a :
                     a.name = app.name /\ Comps[a.f][1] = Comps[app.f][1])
    /\ GoTo("disconnect", 1)
    /\ UNCHANGED <<dmn, calls, raised, info, registeredDevices, namingVars, deviceVars, procs>>

\* Fault: the connections are forgotten.
DisconnectNone ==
    /\ dmn = "up" /\ at = "disconnect"
    /\ GoTo("releaseObject", 1)
    /\ UNCHANGED <<dmn, calls, raised, appseq, info, registeredDevices,
                   namingVars, deviceVars, procs>>

Disconnect ==
    /\ dmn = "up" /\ at = "disconnect"
    /\ IF nth > Len(app.links)
       THEN GoTo("releaseObject", 1) /\ UNCHANGED <<raised, procs>>
       ELSE LET link == app.links[nth]
            IN  IF Alive(link.port)
                THEN /\ procs' = [procs EXCEPT ![link.port].conns =
                                     {c \in @ : c.id # link.id}]
                     /\ GoTo("disconnect", nth + 1) /\ UNCHANGED raised
                ELSE Raise /\ UNCHANGED procs
    /\ UNCHANGED <<dmn, calls, appseq, info, registeredDevices, namingVars, deviceVars>>

\* On to the next component, or to the naming context after the last.
AfterTerminate ==
    IF nth < Len(Comps[app.f]) THEN GoTo("releaseObject", nth + 1) ELSE GoTo("unbind", 1)

\* The component's releaseObject signals the condition main waits for; a main
\* that does not wait yet misses it.
ReleaseResource ==
    /\ dmn = "up" /\ at = "releaseObject"
    /\ LET p == info[comp].rsc
       IN  \/ /\ ~info[comp].deployed
              /\ AfterTerminate /\ UNCHANGED <<raised, procs>>
           \/ /\ info[comp].deployed /\ ~Alive(p)
              /\ Raise /\ UNCHANGED procs
           \/ /\ info[comp].deployed /\ Alive(p)
              /\ procs' = [procs EXCEPT ![p].released = TRUE,
                                        ![p].st = IF @ = "waiting" THEN "woken" ELSE @]
              /\ GoTo("unload", nth) /\ UNCHANGED raised
    /\ UNCHANGED <<dmn, calls, appseq, info, registeredDevices, namingVars, deviceVars>>

Unload ==
    /\ dmn = "up" /\ at = "unload"
    /\ LET d == info[comp].device
       IN  \/ /\ adminState[d] = "LOCKED"
              /\ Abort("InvalidState") /\ UNCHANGED loadedFiles
           \/ /\ adminState[d] # "LOCKED" /\ loadedFiles[d][File[comp]] = 0
              /\ Abort("InvalidFileName") /\ UNCHANGED loadedFiles
           \/ /\ adminState[d] # "LOCKED" /\ loadedFiles[d][File[comp]] > 0
              /\ loadedFiles' = [loadedFiles EXCEPT ![d][File[comp]] = @ - 1]
              /\ GoTo("terminate", nth) /\ UNCHANGED <<dmn, raised>>
    /\ UNCHANGED <<calls, appseq, info, registeredDevices, namingVars,
                   registered, adminState, procs>>

\* Fault: terminate does not wait (WNOHANG).
TerminateNoWait ==
    /\ dmn = "up" /\ at = "terminate"
    /\ AfterTerminate
    /\ UNCHANGED <<dmn, calls, raised, appseq, info, registeredDevices,
                   namingVars, deviceVars, procs>>

\* GPP_i::terminate kills nothing: it waits for the process to end by itself.
Terminate ==
    /\ dmn = "up" /\ at = "terminate"
    /\ LET d == info[comp].device
           p == info[comp].pid
       IN  \/ /\ adminState[d] = "LOCKED"
              /\ Abort("InvalidState") /\ UNCHANGED procs
           \/ /\ adminState[d] # "LOCKED" /\ ~Alive(p)
              /\ procs' = [procs EXCEPT ![p].st = "reaped"]
              /\ AfterTerminate /\ UNCHANGED <<dmn, raised>>
    /\ UNCHANGED <<calls, appseq, info, registeredDevices, namingVars, deviceVars>>

\* Fault: the application's name stays bound.
UnbindNothing ==
    /\ dmn = "up" /\ at = "unbind"
    /\ GoTo("destroy", 1)
    /\ UNCHANGED <<dmn, calls, raised, appseq, info, registeredDevices,
                   namingVars, deviceVars, procs>>

UnbindContext ==
    /\ dmn = "up" /\ at = "unbind"
    /\ IF root[app.name] = None
       THEN Abort("NotFound") /\ UNCHANGED root
       ELSE /\ root' = [root EXCEPT ![app.name] = None]
            /\ GoTo("destroy", 1) /\ UNCHANGED <<dmn, raised>>
    /\ UNCHANGED <<calls, appseq, info, registeredDevices, ctxs, deviceVars, procs>>

DestroyContext ==
    /\ dmn = "up" /\ at = "destroy"
    /\ IF \E c \in Components : ctxs[app.ctx].bound[c] # None
       THEN Abort("NotEmpty") /\ UNCHANGED ctxs
       ELSE /\ ctxs' = [ctxs EXCEPT ![app.ctx].alive = FALSE]
            /\ Idle /\ UNCHANGED <<dmn, raised>>
    /\ UNCHANGED <<calls, appseq, info, registeredDevices, root, deviceVars, procs>>

-----------------------------------------------------------------------------
(* A component process: ossieResource's constructor, run and destructor.   *)

\* Fault: the name is not bound in the application's context.
BindElsewhere(p) ==
    /\ procs[p].st = "starting"
    /\ procs' = [procs EXCEPT ![p].st = "bound"]
    /\ UNCHANGED <<domainVars, namingVars, deviceVars>>

\* The constructor ends by binding the name; without a context it throws.
Bind(p) ==
    /\ procs[p].st = "starting"
    /\ LET x == procs[p].ctx
       IN  IF ctxs[x].alive
           THEN /\ ctxs' = [ctxs EXCEPT ![x].bound[procs[p].comp] = p]
                /\ procs' = [procs EXCEPT ![p].st = "bound"]
           ELSE /\ procs' = [procs EXCEPT ![p].st = "exited", ![p].crashed = TRUE]
                /\ UNCHANGED ctxs
    /\ UNCHANGED <<domainVars, root, deviceVars>>

Wait(p) ==
    /\ procs[p].st = "bound"
    /\ procs' = [procs EXCEPT ![p].st = "waiting"]
    /\ UNCHANGED <<domainVars, namingVars, deviceVars>>

\* Fault: the destructor leaves the name bound.
ShutdownBound(p) ==
    /\ procs[p].st = "woken"
    /\ procs' = [procs EXCEPT ![p].st = "exited"]
    /\ UNCHANGED <<domainVars, namingVars, deviceVars>>

\* The destructor unbinds the name, and main returns.
Shutdown(p) ==
    /\ procs[p].st = "woken"
    /\ ctxs' = [ctxs EXCEPT ![procs[p].ctx].bound[procs[p].comp] = None]
    /\ procs' = [procs EXCEPT ![p].st = "exited"]
    /\ UNCHANGED <<domainVars, root, deviceVars>>

\* The process dies with its name bound.
Crash(p) ==
    /\ procs[p].comp \in MayCrash
    /\ Alive(p)
    /\ procs' = [procs EXCEPT ![p].st = "exited", ![p].crashed = TRUE]
    /\ UNCHANGED <<domainVars, namingVars, deviceVars>>

-----------------------------------------------------------------------------
(* The devices.                                                            *)

\* A device manager comes up with another device.
RegisterDevice(d) ==
    /\ d \notin registered
    /\ registered' = registered \cup {d}
    /\ UNCHANGED <<domainVars, namingVars, adminState, loadedFiles, procs>>

SetAdminState(d, s) ==
    /\ d \in MayLock
    /\ adminState[d] # s
    /\ adminState' = [adminState EXCEPT ![d] = s]
    /\ UNCHANGED <<domainVars, namingVars, registered, loadedFiles, procs>>

-----------------------------------------------------------------------------

DomainStep ==
    \/ RefuseName \/ BindContext \/ VerifyDeviceAssignments \/ GetRegisteredDevices
    \/ Load \/ Execute \/ AwaitComponent \/ Connect \/ ListApplication
    \/ Unlist \/ Disconnect \/ ReleaseResource \/ Unload \/ Terminate
    \/ UnbindContext \/ DestroyContext

ProcessStep(p) == Bind(p) \/ Wait(p) \/ Shutdown(p)

Next ==
    \/ \E f \in Factories, name \in Names : \E a \in Assignments(f) : CallCreate(f, name, a)
    \/ \E k \in DOMAIN appseq : CallRelease(k)
    \/ DomainStep
    \/ \E p \in DOMAIN procs : ProcessStep(p) \/ Crash(p)
    \/ \E d \in Devices :
          \/ RegisterDevice(d)
          \/ \E s \in {"UNLOCKED", "LOCKED", "SHUTTING_DOWN"} : SetAdminState(d, s)

Spec == Init /\ [][Next]_vars

\* The call in progress and the processes are scheduled; nobody owes a call,
\* a crash, a device or a change of state.
FairSpec ==
    /\ Spec
    /\ WF_vars(DomainStep)
    /\ \A p \in 1 .. (MaxCalls * Cardinality(Components)) :
           WF_vars(p \in DOMAIN procs /\ ProcessStep(p))

-----------------------------------------------------------------------------
(* Properties                                                              *)

Pids == DOMAIN procs
States == {"starting", "bound", "waiting", "woken", "exited", "reaped"}
Steps == {"idle", "create", "verify", "devices", "load", "execute", "await", "connect",
          "unlist", "disconnect", "releaseObject", "unload", "terminate", "unbind", "destroy"}

\* The steps made for one component after another.
ComponentSteps == {"load", "execute", "await", "releaseObject", "unload", "terminate"}

IsApp(a) ==
    /\ a.f \in Factories /\ a.name \in Names /\ a.ctx \in DOMAIN ctxs /\ a.pids \in Seq(Pids)
    /\ \A j \in DOMAIN a.links :
           a.links[j].port \in Pids /\ a.links[j].id \in DOMAIN Conns[a.f]

\* Every variable has its type, and whatever is kept of a process or of a
\* naming context names one that was made.
TypeOK ==
    /\ dmn \in {"up", "assert", "AlreadyBound", "InvalidState", "InvalidFileName",
                "NotFound", "NotEmpty"}
    /\ at \in Steps
    /\ at = "idle" => app = NoApp
    /\ at \notin {"idle", "create"} => IsApp(app)
    /\ nth \in Nat /\ (at \in ComponentSteps => nth \in DOMAIN Comps[app.f])
    /\ calls \in 0 .. MaxCalls
    /\ raised \in BOOLEAN
    /\ \A k \in DOMAIN appseq : IsApp(appseq[k])
    /\ info \in [Components -> [assigned : Devices \cup {None}, deployed : BOOLEAN,
                                pid : Pids \cup {None}, device : Devices \cup {None},
                                rsc : Pids \cup {None}]]
    /\ registeredDevices \in [Factories -> SUBSET Devices]
    /\ root \in [Names -> DOMAIN ctxs \cup {None}]
    /\ ctxs \in Seq([bound : [Components -> Pids \cup {None}], alive : BOOLEAN])
    /\ registered \in SUBSET Devices
    /\ adminState \in [Devices -> {"UNLOCKED", "LOCKED", "SHUTTING_DOWN"}]
    /\ loadedFiles \in [Devices -> [Files -> Nat]]
    /\ \A p \in Pids :
           procs[p] \in [comp : Components, dev : Devices, ctx : DOMAIN ctxs, st : States,
                         released : BOOLEAN, crashed : BOOLEAN,
                         conns : SUBSET [id : Nat, to : Pids]]

\* The applications the domain lists have names of their own, and each is
\* reachable under its name in a context of its own that still exists, also
\* while other applications come, go or fail half way.
ListedReachable ==
    \A k \in DOMAIN appseq :
        /\ root[appseq[k].name] = appseq[k].ctx
        /\ ctxs[appseq[k].ctx].alive
        /\ \A j \in DOMAIN appseq : appseq[j].name = appseq[k].name => j = k

\* An executable stays loaded on its device for as long as a process nobody
\* has released runs it, whoever else loads and unloads the same file.
LoadedWhileRunning ==
    \A p \in Pids :
        (Alive(p) /\ ~procs[p].released) => loadedFiles[procs[p].dev][File[procs[p].comp]] > 0

\* No component is left connected to one that has been released: all the
\* connections of an application go before its first component does.
NoDanglingConnection ==
    \A p \in Pids : Alive(p) => \A c \in procs[p].conns : ~procs[c.to].released

\* Application_impl.cpp:241: "all executed processes should be terminated"
\* before an application is gone: those its own create executed.
ReleaseTerminatesAll ==
    at \in {"unbind", "destroy"} =>
        \A j \in DOMAIN app.pids : procs[app.pids[j]].st = "reaped"

Died == \E p \in Pids : procs[p].crashed
ForkFailed == at = "await" /\ Len(app.pids) < Len(Comps[app.f])

\* create never executes a file that was unloaded under it, releaseObject
\* never misses its name, and finds its context empty unless a process died.
NoInconsistentAbort ==
    /\ dmn \notin {"InvalidFileName", "NotFound"}
    /\ dmn = "NotEmpty" => Died

\* As long as no call raised, the processes, the names and the contexts that
\* exist between two calls are those of the listed applications.
NothingLeftBehind ==
    (at = "idle" /\ ~raised) =>
        /\ \A p \in Pids : procs[p].st # "reaped" =>
               \E k \in DOMAIN appseq : Contains(appseq[k].pids, p)
        /\ \A n \in Names : root[n] # None => Listed(n)
        /\ \A x \in DOMAIN ctxs : ctxs[x].alive => \E n \in Names : root[n] = x

\* create returns or raises, however the component processes it starts are
\* scheduled, unless one of them died or was never forked.
CreateReturns == (at = "create") ~> (at = "idle" \/ dmn # "up" \/ Died \/ ForkFailed)

\* decimator.cpp:108: the released component's main "shuts down everything",
\* so the releaseObject that waits for it in terminate returns.
ReleaseReturns == (at = "unlist") ~> (at = "idle" \/ dmn # "up")
=============================================================================
