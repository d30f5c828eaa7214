------------------------- MODULE AppLifecycle_proof -------------------------
(***************************************************************************)
(* Theorems about AppLifecycle, for any factories, components, devices and *)
(* names, and any number of calls.                                         *)
(*                                                                         *)
(* TypeInv says what the variables are, what is known of the call in       *)
(* progress and that nobody releases a component before its application is *)
(* listed; NameInv, proved from it, how the applications, their names and  *)
(* their naming contexts belong together.                                  *)
(***************************************************************************)
EXTENDS AppLifecycle, FiniteSetTheorems, SequenceTheorems,
        WellFoundedInduction, TLAPS

-----------------------------------------------------------------------------
(* The invariants.                                                         *)

\* create once it has its context; releaseObject once it has left the list.
Building == {"verify", "devices", "load", "execute", "await", "connect"}
Releasing == {"disconnect", "releaseObject", "unload", "terminate", "unbind", "destroy"}
Working == Building \cup Releasing \cup {"unlist"}

Proc == [comp : Components, dev : Devices, ctx : Nat, st : States,
         released : BOOLEAN, crashed : BOOLEAN, conns : SUBSET [id : Nat, to : Nat]]
Context == [bound : [Components -> Nat \cup {None}], alive : BOOLEAN]
Info == [assigned : Devices \cup {None}, deployed : BOOLEAN, pid : Nat \cup {None},
         device : Devices \cup {None}, rsc : Nat \cup {None}]
Application == [f : Factories, name : Names, ctx : Nat, pids : Seq(Nat),
                links : Seq([port : Nat, id : Nat])]

Types ==
    /\ dmn \in {"up", "assert", "AlreadyBound", "InvalidState", "InvalidFileName",
                "NotFound", "NotEmpty"}
    /\ at \in Steps /\ nth \in Nat /\ calls \in 0 .. MaxCalls /\ raised \in BOOLEAN
    /\ appseq \in Seq(Application)
    /\ info \in [Components -> Info]
    /\ registeredDevices \in [Factories -> SUBSET Devices]
    /\ root \in [Names -> Nat \cup {None}]
    /\ ctxs \in Seq(Context)
    /\ registered \in SUBSET Devices
    /\ adminState \in [Devices -> {"UNLOCKED", "LOCKED", "SHUTTING_DOWN"}]
    /\ loadedFiles \in [Devices -> [Files -> Nat]]
    /\ procs \in Seq(Proc)

\* Processes and contexts that are kept somewhere were made.
AppMade(a) ==
    /\ a.ctx \in DOMAIN ctxs
    /\ \A j \in DOMAIN a.pids : a.pids[j] \in Pids
    /\ \A j \in DOMAIN a.links :
           a.links[j].port \in Pids /\ a.links[j].id \in DOMAIN Conns[a.f]
Made ==
    /\ \A k \in DOMAIN appseq : AppMade(appseq[k])
    /\ \A c \in Components : info[c].pid \in Pids \cup {None} /\ info[c].rsc \in Pids \cup {None}
    /\ \A n \in Names : root[n] \in DOMAIN ctxs \cup {None}
    /\ \A x \in DOMAIN ctxs, c \in Components : ctxs[x].bound[c] \in Pids \cup {None}
    /\ \A p \in Pids : procs[p].ctx \in DOMAIN ctxs /\ \A l \in procs[p].conns : l.to \in Pids

\* What the call in progress has found out.
CallInv ==
    /\ at = "idle" => app = NoApp
    /\ at = "create" => \E f \in Factories, name \in Names : app = App(f, name, None, << >>, << >>)
    /\ at \in {"create", "verify"} => das \in [ToSet(Comps[app.f]) -> Devices \cup {None}]
    /\ at \in Working => app \in Application /\ AppMade(app)
    /\ at \in ComponentSteps => nth \in DOMAIN Comps[app.f]
    /\ at = "connect" => nth <= Len(Conns[app.f])
    /\ at = "disconnect" => nth >= 1
    /\ at \in {"devices", "load", "execute"} =>
           \A c \in ToSet(Comps[app.f]) : info[c].assigned \in Devices
    /\ at = "await" => \A j \in 1 .. nth - 1 : ctxs[app.ctx].bound[Comps[app.f][j]] # None
    /\ at = "connect" => \A c \in ToSet(Comps[app.f]) : ctxs[app.ctx].bound[c] # None

\* Nobody releases a component of an application that is not listed yet.
FreshInv ==
    /\ \A p \in Pids : procs[p].st = "woken" => procs[p].released
    /\ at \in Building => \A p \in Pids : procs[p].ctx = app.ctx => ~procs[p].released

TypeInv == Types /\ Made /\ CallInv /\ FreshInv

\* Names and contexts belong to each other, whatever calls have failed.
NameInv ==
    /\ \A m, n \in Names : root[m] = root[n] /\ root[m] # None => m = n
    /\ ListedReachable
    /\ at \in (Building \cup Releasing) \ {"destroy"} =>
           root[app.name] = app.ctx /\ ctxs[app.ctx].alive /\ ~Listed(app.name)
    /\ at = "unlist" => \E k \in DOMAIN appseq : appseq[k] = app
    /\ at = "destroy" => root[app.name] = None /\ \A n \in Names : root[n] # app.ctx
    /\ dmn # "NotFound"

-----------------------------------------------------------------------------
(* What a step may do to the processes, the contexts and the components.   *)

\* Process p goes on with these; no other process changes.
ProcIs(p, state, released, crashed, conns) ==
    /\ procs' \in Seq(Proc) /\ Pids' = Pids
    /\ \A q \in Pids : q # p => procs'[q] = procs[q]
    /\ procs'[p].comp = procs[p].comp /\ procs'[p].dev = procs[p].dev
    /\ procs'[p].ctx = procs[p].ctx /\ procs'[p].st = state
    /\ procs'[p].released = released /\ procs'[p].crashed = crashed
    /\ procs'[p].conns = conns

\* The devices of the components stay; those of c change in other respects.
InfoIs(c, deployed, pid, device, rsc) ==
    /\ info' \in [Components -> Info]
    /\ \A d \in Components : d # c => info'[d] = info[d]
    /\ info'[c].assigned = info[c].assigned
    /\ info'[c].deployed = deployed /\ info'[c].pid = pid
    /\ info'[c].device = device /\ info'[c].rsc = rsc

\* Component c is bound to v in context x; nothing else changes in a context.
BoundIs(x, c, v) ==
    /\ ctxs' \in Seq(Context) /\ DOMAIN ctxs' = DOMAIN ctxs
    /\ \A y \in DOMAIN ctxs : ctxs'[y].alive = ctxs[y].alive
    /\ \A y \in DOMAIN ctxs, d \in Components :
           ctxs'[y].bound[d] = IF y = x /\ d = c THEN v ELSE ctxs[y].bound[d]

LEMMA ProcType ==
    ASSUME Types
    PROVE  /\ Len(procs) \in Nat /\ Pids = 1 .. Len(procs)
           /\ \A p \in Pids : p \in Nat /\ procs[p] \in Proc
<1>1. procs \in Seq(Proc)
    BY DEF Types
<1>2. Len(procs) \in Nat /\ Pids = 1 .. Len(procs)
    BY <1>1, LenProperties DEF Pids
<1> QED
    BY <1>1, <1>2, ElementOfSeq

LEMMA ProcUpdate ==
    ASSUME Types, NEW p \in Pids, NEW r \in Proc, procs' = [procs EXCEPT ![p] = r],
           r.comp = procs[p].comp, r.dev = procs[p].dev, r.ctx = procs[p].ctx
    PROVE  ProcIs(p, r.st, r.released, r.crashed, r.conns)
<1>1. procs[p] \in Proc /\ procs \in Seq(Proc) /\ p \in 1 .. Len(procs) /\ Pids = 1 .. Len(procs)
    BY ProcType DEF Types
<1> DEFINE Q == [procs EXCEPT ![p] = r]
<1>2. /\ Q \in Seq(Proc) /\ Len(Q) = Len(procs)
      /\ \A q \in 1 .. Len(procs) : Q[q] = IF q = p THEN r ELSE procs[q]
    BY <1>1, ExceptSeq
<1>3. procs' = Q
    OBVIOUS
<1> HIDE DEF Q
<1>4. DOMAIN procs' = Pids
    BY <1>1, <1>2, <1>3, LenProperties
<1> QED BY <1>1, <1>2, <1>3, <1>4 DEF ProcIs, Pids

LEMMA StUpdate ==
    ASSUME Types, NEW p \in Pids, NEW s \in States, procs' = [procs EXCEPT ![p].st = s]
    PROVE  ProcIs(p, s, procs[p].released, procs[p].crashed, procs[p].conns)
<1> DEFINE r == [procs[p] EXCEPT !.st = s]
<1>1. procs[p] \in Proc
    BY ProcType
<1>2. /\ r \in Proc /\ r.comp = procs[p].comp /\ r.dev = procs[p].dev /\ r.ctx = procs[p].ctx
      /\ r.st = s /\ r.released = procs[p].released /\ r.crashed = procs[p].crashed
      /\ r.conns = procs[p].conns
    BY <1>1 DEF Proc
<1>3. procs' = [procs EXCEPT ![p] = r]
    OBVIOUS
<1> HIDE DEF r
<1> QED BY <1>2, <1>3, ProcUpdate

LEMMA EndUpdate ==
    ASSUME Types, NEW p \in Pids, NEW s \in States,
           procs' = [procs EXCEPT ![p].st = s, ![p].crashed = TRUE]
    PROVE  ProcIs(p, s, procs[p].released, TRUE, procs[p].conns)
<1> DEFINE r == [procs[p] EXCEPT !.st = s, !.crashed = TRUE]
<1>1. procs[p] \in Proc
    BY ProcType
<1>2. /\ r \in Proc /\ r.comp = procs[p].comp /\ r.dev = procs[p].dev /\ r.ctx = procs[p].ctx
      /\ r.st = s /\ r.released = procs[p].released /\ r.crashed = TRUE
      /\ r.conns = procs[p].conns
    BY <1>1 DEF Proc
<1>3. procs' = [procs EXCEPT ![p] = r]
    <2>1. p \in DOMAIN procs
        BY DEF Pids
    <2> QED BY <2>1
<1> HIDE DEF r
<1> QED BY <1>2, <1>3, ProcUpdate

LEMMA BoundUpdate ==
    ASSUME Types, NEW x \in DOMAIN ctxs, NEW c \in Components, NEW v \in Nat \cup {None},
           ctxs' = [ctxs EXCEPT ![x].bound[c] = v]
    PROVE  BoundIs(x, c, v)
<1> DEFINE r == [ctxs[x] EXCEPT !.bound = [@ EXCEPT ![c] = v]]
           Q == [ctxs EXCEPT ![x] = r]
<1>1. ctxs \in Seq(Context) /\ DOMAIN ctxs = 1 .. Len(ctxs) /\ ctxs[x] \in Context
    BY LenProperties, ElementOfSeq DEF Types
<1>2. r \in Context /\ r.alive = ctxs[x].alive
      /\ \A d \in Components : r.bound[d] = IF d = c THEN v ELSE ctxs[x].bound[d]
    BY <1>1 DEF Context
<1>3. ctxs' = Q
    OBVIOUS
<1> HIDE DEF r
<1>4. /\ Q \in Seq(Context) /\ Len(Q) = Len(ctxs)
      /\ \A y \in 1 .. Len(ctxs) : Q[y] = IF y = x THEN r ELSE ctxs[y]
    BY <1>1, <1>2, ExceptSeq
<1> HIDE DEF Q
<1>5. DOMAIN ctxs' = DOMAIN ctxs
    BY <1>1, <1>3, <1>4, LenProperties
<1> QED BY <1>1, <1>2, <1>3, <1>4, <1>5 DEF BoundIs

LEMMA ReleaseUpdate ==
    ASSUME Types, NEW p \in Pids, NEW s \in States,
           procs' = [procs EXCEPT ![p].released = TRUE, ![p].st = s]
    PROVE  ProcIs(p, s, TRUE, procs[p].crashed, procs[p].conns)
<1> DEFINE r == [procs[p] EXCEPT !.released = TRUE, !.st = s]
<1>1. procs[p] \in Proc
    BY ProcType
<1>2. /\ r \in Proc /\ r.comp = procs[p].comp /\ r.dev = procs[p].dev /\ r.ctx = procs[p].ctx
      /\ r.st = s /\ r.released = TRUE /\ r.crashed = procs[p].crashed
      /\ r.conns = procs[p].conns
    BY <1>1 DEF Proc
<1>3. procs' = [procs EXCEPT ![p] = r]
    <2>1. p \in DOMAIN procs
        BY DEF Pids
    <2> QED BY <2>1
<1> HIDE DEF r
<1> QED BY <1>2, <1>3, ProcUpdate

LEMMA ConnsUpdate ==
    ASSUME Types, NEW p \in Pids, NEW l \in SUBSET [id : Nat, to : Nat],
           procs' = [procs EXCEPT ![p].conns = l]
    PROVE  ProcIs(p, procs[p].st, procs[p].released, procs[p].crashed, l)
<1> DEFINE r == [procs[p] EXCEPT !.conns = l]
<1>1. procs[p] \in Proc
    BY ProcType
<1>2. /\ r \in Proc /\ r.comp = procs[p].comp /\ r.dev = procs[p].dev /\ r.ctx = procs[p].ctx
      /\ r.st = procs[p].st /\ r.released = procs[p].released /\ r.crashed = procs[p].crashed
      /\ r.conns = l
    BY <1>1 DEF Proc
<1>3. procs' = [procs EXCEPT ![p] = r]
    OBVIOUS
<1> HIDE DEF r
<1> QED BY <1>2, <1>3, ProcUpdate

\* What is known of a call in progress stays known while it does not move.
LEMMA CallStays ==
    ASSUME CallInv, UNCHANGED callVars, Pids \subseteq Pids', DOMAIN ctxs \subseteq DOMAIN ctxs',
           \A c \in Components : info'[c].assigned = info[c].assigned,
           at \in {"await", "connect"} => \A c \in Components :
               ctxs[app.ctx].bound[c] # None => ctxs'[app.ctx].bound[c] # None
    PROVE  CallInv'
<1>1. ASSUME app \in Application PROVE ToSet(Comps[app.f]) \subseteq Components
    BY <1>1, AssemblyAssumption DEF ToSet, Application
<1>2. at \in Working => AppMade(app)'
    BY DEF CallInv, AppMade, callVars
<1>3. ASSUME at = "await" PROVE \A j \in 1 .. nth - 1 : ctxs'[app.ctx].bound[Comps[app.f][j]] # None
    <2>1. app \in Application /\ nth \in DOMAIN Comps[app.f]
        BY <1>3 DEF CallInv, Working, Building, ComponentSteps
    <2>2. \A j \in 1 .. nth - 1 : Comps[app.f][j] \in Components
        BY <2>1, AssemblyAssumption DEF Application
    <2> QED BY <1>3, <2>2 DEF CallInv
<1>4. at \in {"devices", "load", "execute", "connect"} => at \in Working
    BY DEF Working, Building
<1> QED BY <1>1, <1>2, <1>3, <1>4 DEF CallInv, callVars

-----------------------------------------------------------------------------
(* Types.                                                                  *)

LEMMA TypeInit == Init => TypeInv
<1> SUFFICES ASSUME Init PROVE TypeInv
    OBVIOUS
<1>1. Types
    <2>1. info \in [Components -> Info]
        BY DEF Init, Info
    <2>2. ctxs \in Seq(Context) /\ procs \in Seq(Proc) /\ appseq \in Seq(Application)
        BY DEF Init
    <2>3. loadedFiles \in [Devices -> [Files -> Nat]]
        BY DEF Init
    <2>4. calls \in 0 .. MaxCalls /\ nth \in Nat
        BY LifecycleBound DEF Init
    <2>5. /\ registered \in SUBSET Devices /\ registeredDevices \in [Factories -> SUBSET Devices]
          /\ adminState \in [Devices -> {"UNLOCKED", "LOCKED", "SHUTTING_DOWN"}]
          /\ root \in [Names -> Nat \cup {None}]
        BY DeviceAssumption DEF Init
    <2>6. at \in Steps /\ dmn = "up" /\ raised \in BOOLEAN
        BY DEF Init, Steps
    <2> QED BY <2>1, <2>2, <2>3, <2>4, <2>5, <2>6 DEF Types
<1>2. Made
    BY DEF Init, Made, Pids
<1>3. CallInv
    BY DEF Init, CallInv, Working, Building, Releasing, ComponentSteps
<1>4. FreshInv
    BY DEF Init, FreshInv, Building, Pids
<1> QED BY <1>1, <1>2, <1>3, <1>4 DEF TypeInv

\* The component a call is at.
LEMMA CompType ==
    ASSUME TypeInv, at \in ComponentSteps
    PROVE  /\ app \in Application /\ AppMade(app) /\ nth \in DOMAIN Comps[app.f]
           /\ app.f \in Factories /\ app.name \in Names /\ app.ctx \in DOMAIN ctxs
           /\ comp \in Components /\ comp \in ToSet(Comps[app.f]) /\ File[comp] \in Files
           /\ info[comp] \in Info
<1>1. app \in Application /\ AppMade(app) /\ nth \in DOMAIN Comps[app.f]
    BY DEF TypeInv, CallInv, ComponentSteps, Working, Building, Releasing
<1>2. app.f \in Factories /\ app.name \in Names /\ app.ctx \in DOMAIN ctxs
    BY <1>1 DEF Application, AppMade
<1>3. comp \in Components /\ comp \in ToSet(Comps[app.f])
    BY <1>1, <1>2, AssemblyAssumption DEF comp, ToSet
<1> QED BY <1>1, <1>2, <1>3, AssemblyAssumption DEF TypeInv, Types

LEMMA CallCreateTypes ==
    ASSUME TypeInv, NEW f \in Factories, NEW name \in Names, NEW a \in Assignments(f),
           CallCreate(f, name, a)
    PROVE  TypeInv'
<1>1. Types'
    BY LifecycleBound DEF TypeInv, Types, CallCreate, Steps, namingVars, deviceVars
<1>2. Made'
    BY DEF TypeInv, Made, CallCreate, AppMade, Pids, namingVars
<1>3. a \in [ToSet(Comps[f]) -> Devices \cup {None}]
    BY DEF Assignments, TypeInv, Types
<1>4. CallInv'
    BY <1>3 DEF CallInv, CallCreate, Working, Building, Releasing, ComponentSteps, App
<1>5. FreshInv'
    BY DEF TypeInv, FreshInv, CallCreate, Building, Pids
<1> QED BY <1>1, <1>2, <1>4, <1>5 DEF TypeInv

\* A call that ends.
LEMMA IdleCall == Idle => CallInv'
    BY DEF Idle, CallInv, Working, Building, Releasing, ComponentSteps

\* An exception that ends the domain manager's process.
LEMMA AbortTypes ==
    ASSUME TypeInv, NEW why \in {"assert", "AlreadyBound", "InvalidState", "InvalidFileName",
                                 "NotFound", "NotEmpty"},
           Abort(why), UNCHANGED <<calls, appseq, info, registeredDevices, namingVars, deviceVars,
                                   procs>>
    PROVE  TypeInv'
<1>1. Types'
    BY DEF TypeInv, Types, Abort, namingVars, deviceVars, callVars
<1>2. Made'
    BY DEF TypeInv, Made, AppMade, Pids, namingVars
<1>3. CallInv'
    BY CallStays DEF TypeInv, Abort, namingVars, Pids
<1>4. FreshInv'
    BY DEF TypeInv, FreshInv, Abort, callVars, Pids
<1> QED BY <1>1, <1>2, <1>3, <1>4 DEF TypeInv

\* A call that raises an exception the client gets.
LEMMA RaiseTypes ==
    ASSUME TypeInv, Raise, UNCHANGED <<dmn, calls, appseq, registeredDevices, namingVars,
                                       deviceVars, procs>>,
           info' \in [Components -> Info],
           \A c \in Components : info'[c].pid = info[c].pid /\ info'[c].rsc \in Pids \cup {info[c].rsc}
    PROVE  TypeInv'
<1>1. Types'
    BY DEF TypeInv, Types, Raise, Idle, Steps, namingVars, deviceVars
<1>2. Made'
    BY DEF TypeInv, Made, AppMade, Pids, namingVars
<1>3. CallInv'
    BY IdleCall DEF Raise
<1>4. FreshInv'
    BY DEF TypeInv, FreshInv, Raise, Idle, Building, Pids
<1> QED BY <1>1, <1>2, <1>3, <1>4 DEF TypeInv

LEMMA RefuseNameTypes == TypeInv /\ RefuseName => TypeInv'
<1> SUFFICES ASSUME TypeInv, RefuseName PROVE TypeInv'
    OBVIOUS
<1>1. info' \in [Components -> Info]
    BY DEF RefuseName, TypeInv, Types
<1> QED BY <1>1, RaiseTypes DEF RefuseName

LEMMA WorkingApp ==
    ASSUME TypeInv, at \in Working
    PROVE  /\ app \in Application /\ AppMade(app) /\ app.f \in Factories /\ app.name \in Names
           /\ app.ctx \in DOMAIN ctxs /\ ToSet(Comps[app.f]) \subseteq Components
<1>1. app \in Application /\ AppMade(app)
    BY DEF TypeInv, CallInv
<1>2. app.f \in Factories /\ app.name \in Names /\ app.ctx \in DOMAIN ctxs
    BY <1>1 DEF Application, AppMade
<1> QED BY <1>1, <1>2, AssemblyAssumption DEF ToSet

\* The context create binds.
LEMMA BindContextEffect ==
    ASSUME TypeInv, BindContext, root[app.name] = None
    PROVE  LET x == Len(ctxs) + 1
           IN  /\ x \in Nat /\ x \notin DOMAIN ctxs /\ x # None
               /\ ctxs' \in Seq(Context) /\ DOMAIN ctxs' = DOMAIN ctxs \cup {x}
               /\ \A y \in DOMAIN ctxs : ctxs'[y] = ctxs[y]
               /\ ctxs'[x].alive /\ \A c \in Components : ctxs'[x].bound[c] = None
               /\ app.f \in Factories /\ app.name \in Names /\ app.ctx = None
               /\ root' = [root EXCEPT ![app.name] = x] /\ root' \in [Names -> Nat \cup {None}]
               /\ app' = App(app.f, app.name, x, << >>, << >>) /\ app' \in Application
<1> DEFINE x == Len(ctxs) + 1
           r == [bound |-> [c \in Components |-> None], alive |-> TRUE]
<1>1. ctxs \in Seq(Context) /\ Len(ctxs) \in Nat /\ DOMAIN ctxs = 1 .. Len(ctxs)
    BY LenProperties DEF TypeInv, Types
<1>2. r \in Context /\ r.alive /\ \A c \in Components : r.bound[c] = None
    BY DEF Context
<1>3. ctxs' = Append(ctxs, r) /\ at = "create"
    BY DEF BindContext
<1> HIDE DEF r
<1>4. /\ ctxs' \in Seq(Context) /\ Len(ctxs') = Len(ctxs) + 1 /\ ctxs'[x] = r
      /\ \A y \in 1 .. Len(ctxs) : ctxs'[y] = ctxs[y]
    BY <1>1, <1>2, <1>3, AppendProperties
<1>5. x \in Nat /\ x \notin DOMAIN ctxs /\ DOMAIN ctxs' = DOMAIN ctxs \cup {x}
    BY <1>1, <1>4, LenProperties
<1>6. PICK f \in Factories, name \in Names : app = App(f, name, None, << >>, << >>)
    BY <1>3 DEF TypeInv, CallInv
<1>7. app.f = f /\ app.name = name /\ app.ctx = None
      /\ app' = App(app.f, app.name, x, << >>, << >>) /\ app' \in Application
    <2>1. app.f = f /\ app.name = name /\ app.ctx = None
        BY <1>6 DEF App
    <2>2. app' = [app EXCEPT !.ctx = x]
        BY DEF BindContext
    <2>3. app' = App(app.f, app.name, x, << >>, << >>)
        BY <1>6, <2>1, <2>2 DEF App
    <2>4. app' \in Application
        BY <1>5, <2>1, <2>3 DEF App, Application
    <2> QED BY <2>1, <2>3, <2>4
<1>8. root' = [root EXCEPT ![app.name] = x] /\ root' \in [Names -> Nat \cup {None}]
    BY <1>5 DEF BindContext, TypeInv, Types
<1> QED BY <1>1, <1>2, <1>4, <1>5, <1>6, <1>7, <1>8, LifecycleBound

LEMMA BindContextTypes == TypeInv /\ BindContext => TypeInv'
<1> SUFFICES ASSUME TypeInv, BindContext PROVE TypeInv'
    OBVIOUS
<1>1. CASE root[app.name] # None
    <2>1. Abort("AlreadyBound")
        BY <1>1 DEF BindContext
    <2> QED BY <1>1, <2>1, AbortTypes DEF BindContext, namingVars
<1>2. CASE root[app.name] = None
    <2> DEFINE x == Len(ctxs) + 1
    <2>1. /\ x \in Nat /\ x \notin DOMAIN ctxs
          /\ ctxs' \in Seq(Context) /\ DOMAIN ctxs' = DOMAIN ctxs \cup {x}
          /\ \A y \in DOMAIN ctxs : ctxs'[y] = ctxs[y]
          /\ ctxs'[x].alive /\ \A c \in Components : ctxs'[x].bound[c] = None
          /\ app.f \in Factories /\ app.name \in Names
          /\ root' = [root EXCEPT ![app.name] = x] /\ root' \in [Names -> Nat \cup {None}]
          /\ app' = App(app.f, app.name, x, << >>, << >>) /\ app' \in Application
        BY <1>2, BindContextEffect
    <2>2. at = "create" /\ at' = "verify" /\ UNCHANGED <<dmn, nth, das, raised, calls, appseq, info,
              registeredDevices, deviceVars, procs>>
        BY <1>2 DEF BindContext
    <2> HIDE DEF x
    <2>3. Types'
        BY <2>1, <2>2 DEF TypeInv, Types, Steps, deviceVars
    <2>4. \A k \in DOMAIN appseq : AppMade(appseq[k])'
        BY <2>1, <2>2 DEF TypeInv, Made, AppMade, Pids
    <2>5. Made'
        <3>1. \A n \in Names : root'[n] \in DOMAIN ctxs' \cup {None}
            BY <2>1 DEF TypeInv, Types, Made
        <3>2. \A y \in DOMAIN ctxs', c \in Components : ctxs'[y].bound[c] \in Pids \cup {None}
            BY <2>1 DEF TypeInv, Made
        <3> QED BY <2>1, <2>2, <2>4, <3>1, <3>2 DEF TypeInv, Made, Pids
    <2>6. CallInv'
        <3>1. app'.ctx = x /\ app'.f = app.f /\ app'.pids = << >> /\ app'.links = << >>
            BY <2>1 DEF App
        <3>2. AppMade(app)'
            BY <2>1, <3>1 DEF AppMade
        <3>3. das' \in [ToSet(Comps[app'.f]) -> Devices \cup {None}]
            BY <2>2, <3>1 DEF TypeInv, CallInv
        <3> QED BY <2>1, <2>2, <3>2, <3>3 DEF CallInv, ComponentSteps
    <2>7. FreshInv'
        <3>1. app'.ctx = x /\ \A p \in Pids : procs[p].ctx # x
            BY <2>1 DEF App, TypeInv, Made
        <3> QED BY <2>2, <3>1 DEF TypeInv, FreshInv, Pids
    <2> QED BY <2>3, <2>5, <2>6, <2>7 DEF TypeInv
<1> QED BY <1>1, <1>2

\* What a step that makes no process and no context must keep to.
LEMMA MadeStays ==
    ASSUME TypeInv, UNCHANGED <<appseq, root>>, Pids' = Pids, DOMAIN ctxs' = DOMAIN ctxs,
           \A c \in Components : /\ info'[c].pid \in Pids \cup {info[c].pid}
                                 /\ info'[c].rsc \in Pids \cup {info[c].rsc},
           \A x \in DOMAIN ctxs, c \in Components :
               ctxs'[x].bound[c] \in Pids \cup {None, ctxs[x].bound[c]},
           \A p \in Pids : /\ procs'[p].ctx = procs[p].ctx
                           /\ \A l \in procs'[p].conns : l \in procs[p].conns \/ l.to \in Pids
    PROVE  Made'
<1>1. \A k \in DOMAIN appseq : AppMade(appseq[k])'
    BY DEF TypeInv, Made, AppMade
<1>2. \A p \in Pids : procs'[p].ctx \in DOMAIN ctxs /\ \A l \in procs'[p].conns : l.to \in Pids
    BY DEF TypeInv, Made
<1> QED BY <1>1, <1>2 DEF TypeInv, Made

LEMMA ProcKeeps ==
    ASSUME NEW p \in Pids, NEW s, NEW r, NEW k, NEW l, ProcIs(p, s, r, k, l)
    PROVE  /\ procs' \in Seq(Proc) /\ Pids' = Pids
           /\ \A q \in Pids : /\ procs'[q].comp = procs[q].comp /\ procs'[q].dev = procs[q].dev
                              /\ procs'[q].ctx = procs[q].ctx
                              /\ procs'[q].st = IF q = p THEN s ELSE procs[q].st
                              /\ procs'[q].released = IF q = p THEN r ELSE procs[q].released
                              /\ procs'[q].crashed = IF q = p THEN k ELSE procs[q].crashed
                              /\ procs'[q].conns = IF q = p THEN l ELSE procs[q].conns
    BY DEF ProcIs

LEMMA VerifyEffect ==
    ASSUME TypeInv, VerifyDeviceAssignments
    PROVE  /\ info' \in [Components -> Info]
           /\ \A c \in Components :
                  /\ info'[c].deployed = info[c].deployed /\ info'[c].pid = info[c].pid
                  /\ info'[c].device = info[c].device /\ info'[c].rsc = info[c].rsc
           /\ (\A c \in ToSet(Comps[app.f]) : das[c] # None) =>
                  \A c \in ToSet(Comps[app.f]) : info'[c].assigned \in Devices
<1> DEFINE S == ToSet(Comps[app.f])
           New(c) == IF c \in S /\ das[c] # None
                     THEN [info[c] EXCEPT !.assigned = das[c]] ELSE info[c]
<1>1. info' = [c \in Components |-> New(c)] /\ at = "verify"
    BY DEF VerifyDeviceAssignments
<1>2. S \subseteq Components /\ das \in [S -> Devices \cup {None}] /\ info \in [Components -> Info]
    BY <1>1, WorkingApp DEF TypeInv, CallInv, Working, Building, Types
<1>3. ASSUME NEW c \in Components
      PROVE  /\ New(c) \in Info /\ New(c).deployed = info[c].deployed /\ New(c).pid = info[c].pid
             /\ New(c).device = info[c].device /\ New(c).rsc = info[c].rsc
             /\ c \in S /\ das[c] # None => New(c).assigned \in Devices
    <2>1. info[c] \in Info
        BY <1>2
    <2>2. c \in S /\ das[c] # None => das[c] \in Devices
        BY <1>2
    <2> QED BY <2>1, <2>2 DEF Info
<1> HIDE DEF New
<1> QED BY <1>1, <1>2, <1>3

LEMMA VerifyTypes == TypeInv /\ VerifyDeviceAssignments => TypeInv'
<1> SUFFICES ASSUME TypeInv, VerifyDeviceAssignments PROVE TypeInv'
    OBVIOUS
<1> DEFINE given == \A c \in ToSet(Comps[app.f]) : das[c] # None
<1>1. /\ at = "verify" /\ UNCHANGED <<dmn, calls, appseq, registeredDevices, namingVars,
                                      deviceVars, procs>>
      /\ IF given THEN GoTo("devices", 1) /\ UNCHANGED raised ELSE Raise
    BY DEF VerifyDeviceAssignments
<1>2. CASE ~given
    BY <1>1, <1>2, VerifyEffect, RaiseTypes
<1>3. CASE given
    <2>1. Types'
        BY <1>1, <1>3, VerifyEffect DEF TypeInv, Types, GoTo, Steps, namingVars, deviceVars
    <2>2. Made'
        BY <1>1, VerifyEffect, MadeStays DEF TypeInv, Made, Pids, namingVars
    <2>3. CallInv'
        BY <1>1, <1>3, VerifyEffect, WorkingApp
           DEF GoTo, CallInv, ComponentSteps, Working, Building,
            AppMade, Pids, namingVars
    <2>4. FreshInv'
        BY <1>1, <1>3 DEF TypeInv, FreshInv, GoTo, Building, Pids
    <2> QED BY <2>1, <2>2, <2>3, <2>4 DEF TypeInv
<1> QED BY <1>2, <1>3

LEMMA GetRegisteredDevicesTypes == TypeInv /\ GetRegisteredDevices => TypeInv'
<1> SUFFICES ASSUME TypeInv, GetRegisteredDevices PROVE TypeInv'
    OBVIOUS
<1> USE DEF GetRegisteredDevices, GoTo
<1>1. Types'
    BY DEF TypeInv, Types, Steps, namingVars, deviceVars
<1>2. Made'
    BY MadeStays DEF TypeInv, Made, Pids, namingVars
<1>3. CallInv'
    <2>1. app.f \in Factories /\ 1 \in DOMAIN Comps[app.f]
        <3>1. app.f \in Factories
            BY WorkingApp DEF Working, Building
        <3>2. Comps[app.f] \in Seq(Components) /\ Comps[app.f] # << >>
            BY <3>1, AssemblyAssumption
        <3> QED BY <3>1, <3>2, EmptySeq, LenProperties
    <2>2. app \in Application /\ AppMade(app)
        BY WorkingApp DEF Working, Building
    <2> QED BY <2>1, <2>2
               DEF TypeInv, CallInv, ComponentSteps, Working, Building, AppMade, Pids, namingVars
<1>4. FreshInv'
    BY DEF TypeInv, FreshInv, Building, Pids
<1> QED BY <1>1, <1>2, <1>3, <1>4 DEF TypeInv

LEMMA LoadTypes == TypeInv /\ Load => TypeInv'
<1> SUFFICES ASSUME TypeInv, Load PROVE TypeInv'
    OBVIOUS
<1> DEFINE d == info[comp].assigned
<1>1. /\ at = "load"
      /\ UNCHANGED <<calls, appseq, info, registeredDevices, namingVars, registered, adminState,
                     procs>>
      /\ \/ Abort("assert") /\ UNCHANGED loadedFiles
         \/ Abort("InvalidState") /\ UNCHANGED loadedFiles
         \/ /\ d \in registeredDevices[app.f]
            /\ loadedFiles' = [loadedFiles EXCEPT ![d][File[comp]] = IncrementFile(@)]
            /\ GoTo("execute", nth) /\ UNCHANGED <<dmn, raised>>
    BY DEF Load
<1>2. CASE (Abort("assert") \/ Abort("InvalidState")) /\ UNCHANGED loadedFiles
    BY <1>1, <1>2, AbortTypes DEF deviceVars
<1>3. CASE /\ d \in registeredDevices[app.f]
           /\ loadedFiles' = [loadedFiles EXCEPT ![d][File[comp]] = IncrementFile(@)]
           /\ GoTo("execute", nth) /\ UNCHANGED <<dmn, raised>>
    <2>1. /\ comp \in ToSet(Comps[app.f]) /\ File[comp] \in Files /\ app.f \in Factories
          /\ app \in Application /\ AppMade(app) /\ nth \in DOMAIN Comps[app.f]
        BY <1>1, CompType DEF ComponentSteps
    <2>2. d \in Devices
        BY <1>1, <2>1 DEF TypeInv, CallInv
    <2>3. loadedFiles' \in [Devices -> [Files -> Nat]]
        <3>1. loadedFiles \in [Devices -> [Files -> Nat]]
            BY DEF TypeInv, Types
        <3>2. IncrementFile(loadedFiles[d][File[comp]]) \in Nat
            BY <2>1, <2>2, <3>1 DEF IncrementFile
        <3> QED BY <1>3, <2>1, <2>2, <3>1, <3>2
    <2>4. Types'
        BY <1>1, <1>3, <2>3 DEF TypeInv, Types, GoTo, Steps, namingVars
    <2>5. Made'
        BY <1>1, MadeStays DEF TypeInv, Made, Pids, namingVars
    <2>6. CallInv'
        BY <1>1, <1>3, <2>1 DEF TypeInv, CallInv, GoTo, ComponentSteps, Working, Building, AppMade,
            Pids, namingVars
    <2>7. FreshInv'
        BY <1>1, <1>3 DEF TypeInv, FreshInv, GoTo, Building, Pids
    <2> QED BY <2>4, <2>5, <2>6, <2>7 DEF TypeInv
<1> QED BY <1>1, <1>2, <1>3

\* Either the domain manager ends, or the component's process is made, or not.
Forks ==
    LET d == info[comp].assigned
        pid == Len(procs) + 1
    IN  /\ d \in Devices /\ pid \in Nat /\ pid \notin Pids /\ Pids' = Pids \cup {pid}
        /\ procs' \in Seq(Proc) /\ \A q \in Pids : procs'[q] = procs[q]
        /\ procs'[pid].comp = comp /\ procs'[pid].dev = d /\ procs'[pid].ctx = app.ctx
        /\ procs'[pid].st = "starting" /\ procs'[pid].released = FALSE
        /\ procs'[pid].crashed = FALSE /\ procs'[pid].conns = {}
        /\ InfoIs(comp, TRUE, pid, d, info[comp].rsc)
        /\ AfterExecute(Append(app.pids, pid)) /\ UNCHANGED <<dmn, raised>>
ForksNot == AfterExecute(app.pids) /\ UNCHANGED <<dmn, raised, info, procs>>

LEMMA ExecuteEffect ==
    ASSUME TypeInv, Execute
    PROVE  /\ at = "execute" /\ dmn = "up"
           /\ UNCHANGED <<calls, appseq, registeredDevices, namingVars, deviceVars>>
           /\ \/ Abort("InvalidState") /\ UNCHANGED <<info, procs>>
              \/ /\ loadedFiles[info[comp].assigned][File[comp]] = 0
                 /\ Abort("InvalidFileName") /\ UNCHANGED <<info, procs>>
              \/ Forks
              \/ ForksNot
<1> DEFINE d == info[comp].assigned
           pid == Len(procs) + 1
           r == [comp |-> comp, dev |-> d, ctx |-> app.ctx, st |-> "starting", released |-> FALSE,
                 crashed |-> FALSE, conns |-> {}]
<1>1. /\ at = "execute" /\ dmn = "up"
      /\ UNCHANGED <<calls, appseq, registeredDevices, namingVars, deviceVars>>
    BY DEF Execute
<1>2. /\ comp \in Components /\ comp \in ToSet(Comps[app.f]) /\ app.ctx \in DOMAIN ctxs
      /\ info[comp] \in Info
    BY <1>1, CompType DEF ComponentSteps
<1>3. d \in Devices
    BY <1>1, <1>2 DEF TypeInv, CallInv
<1>4. procs \in Seq(Proc) /\ Len(procs) \in Nat /\ Pids = 1 .. Len(procs)
    BY ProcType DEF TypeInv, Types
<1>5. app.ctx \in Nat
    BY <1>2, LenProperties DEF TypeInv, Types
<1>6. r \in Proc
    BY <1>2, <1>3, <1>5 DEF Proc, States
<1>7. ASSUME /\ procs' = Append(procs, r)
             /\ info' = [info EXCEPT ![comp].deployed = TRUE, ![comp].pid = pid, ![comp].device = d]
             /\ AfterExecute(Append(app.pids, pid)) /\ UNCHANGED <<dmn, raised>>
      PROVE  Forks
    <2>1. /\ procs' \in Seq(Proc) /\ Len(procs') = pid /\ procs'[pid] = r
          /\ \A q \in 1 .. Len(procs) : procs'[q] = procs[q]
        BY <1>4, <1>6, <1>7, AppendProperties
    <2>2. pid \in Nat /\ pid \notin Pids /\ Pids' = Pids \cup {pid}
        BY <1>4, <2>1, LenProperties DEF Pids
    <2> DEFINE i == [info[comp] EXCEPT !.deployed = TRUE, !.pid = pid, !.device = d]
    <2>3. /\ i \in Info /\ i.assigned = info[comp].assigned /\ i.deployed = TRUE /\ i.pid = pid
          /\ i.device = d /\ i.rsc = info[comp].rsc
        BY <1>2, <1>3, <2>2 DEF Info
    <2>4. info \in [Components -> Info]
        BY DEF TypeInv, Types
    <2>5. info' = [info EXCEPT ![comp] = i]
        BY <1>2, <1>7, <2>4
    <2> HIDE DEF i
    <2>6. InfoIs(comp, TRUE, pid, d, info[comp].rsc)
        BY <1>2, <2>3, <2>4, <2>5 DEF InfoIs
    <2>7. /\ procs'[pid].comp = comp /\ procs'[pid].dev = d /\ procs'[pid].ctx = app.ctx
          /\ procs'[pid].st = "starting" /\ procs'[pid].released = FALSE
          /\ procs'[pid].crashed = FALSE /\ procs'[pid].conns = {}
        BY <2>1
    <2>8. \A q \in Pids : procs'[q] = procs[q]
        BY <1>4, <2>1
    <2> HIDE DEF r
    <2> QED BY <1>3, <1>7, <2>1, <2>2, <2>6, <2>7, <2>8 DEF Forks
<1> QED BY <1>1, <1>7 DEF Execute, ForksNot

\* What becomes of the call after a component was executed.
LEMMA AfterExecuteEffect ==
    ASSUME TypeInv, at = "execute", NEW pids \in Seq(Nat), AfterExecute(pids)
    PROVE  /\ app' \in Application /\ app'.f = app.f /\ app'.name = app.name /\ app'.ctx = app.ctx
           /\ app'.links = app.links /\ app'.pids = pids /\ das' = das
           /\ \/ at' = "load" /\ nth' = nth + 1 /\ nth' \in DOMAIN Comps[app.f]
              \/ at' = "await" /\ nth' = 1 /\ nth' \in DOMAIN Comps[app.f] /\ nth = Len(Comps[app.f])
<1>1. app \in Application /\ app.f \in Factories /\ nth \in DOMAIN Comps[app.f]
    BY CompType DEF ComponentSteps
<1>2. app' = [app EXCEPT !.pids = pids] /\ das' = das
    BY DEF AfterExecute
<1>3. /\ app' \in Application /\ app'.f = app.f /\ app'.name = app.name /\ app'.ctx = app.ctx
      /\ app'.links = app.links /\ app'.pids = pids
    BY <1>1, <1>2 DEF Application
<1>4. Len(Comps[app.f]) \in Nat /\ DOMAIN Comps[app.f] = 1 .. Len(Comps[app.f])
    BY <1>1, AssemblyAssumption, LenProperties
<1>5. CASE nth < Len(Comps[app.f])
    <2>1. at' = "load" /\ nth' = nth + 1
        BY <1>5 DEF AfterExecute
    <2> QED BY <1>1, <1>2, <1>3, <1>4, <1>5, <2>1
<1>6. CASE ~(nth < Len(Comps[app.f]))
    <2>1. at' = "await" /\ nth' = 1
        BY <1>6 DEF AfterExecute
    <2> QED BY <1>1, <1>2, <1>3, <1>4, <1>6, <2>1
<1> QED BY <1>5, <1>6

LEMMA ExecuteTypes == TypeInv /\ Execute => TypeInv'
<1> SUFFICES ASSUME TypeInv, Execute PROVE TypeInv'
    OBVIOUS
<1> DEFINE d == info[comp].assigned
           pid == Len(procs) + 1
<1>1. /\ at = "execute" /\ UNCHANGED <<calls, appseq, registeredDevices, namingVars, deviceVars>>
      /\ \/ (Abort("InvalidState") \/ Abort("InvalidFileName")) /\ UNCHANGED <<info, procs>>
         \/ Forks
         \/ ForksNot
    BY ExecuteEffect
<1>2. /\ comp \in Components /\ app \in Application /\ AppMade(app)
      /\ app.pids \in Seq(Nat) /\ app.ctx \in DOMAIN ctxs
    BY <1>1, CompType DEF ComponentSteps, Application
<1>3. CASE (Abort("InvalidState") \/ Abort("InvalidFileName")) /\ UNCHANGED <<info, procs>>
    BY <1>1, <1>3, AbortTypes
<1>4. CASE Forks
    <2>1. /\ pid \in Nat /\ Pids' = Pids \cup {pid} /\ procs' \in Seq(Proc)
          /\ \A q \in Pids : procs'[q] = procs[q]
          /\ procs'[pid].ctx = app.ctx /\ procs'[pid].st = "starting"
          /\ procs'[pid].released = FALSE /\ procs'[pid].conns = {}
          /\ InfoIs(comp, TRUE, pid, d, info[comp].rsc)
          /\ AfterExecute(Append(app.pids, pid)) /\ UNCHANGED <<dmn, raised>>
        BY <1>4 DEF Forks
    <2> HIDE DEF pid, d
    <2>2. Append(app.pids, pid) \in Seq(Nat) /\ \A j \in DOMAIN Append(app.pids, pid) :
              Append(app.pids, pid)[j] \in Pids'
        <3>1. \A j \in DOMAIN app.pids : app.pids[j] \in Pids
            BY <1>2 DEF AppMade
        <3>2. /\ Append(app.pids, pid) \in Seq(Nat) /\ Len(Append(app.pids, pid)) = Len(app.pids) + 1
              /\ \A j \in 1 .. Len(app.pids) : Append(app.pids, pid)[j] = app.pids[j]
              /\ Append(app.pids, pid)[Len(app.pids) + 1] = pid
            BY <1>2, <2>1, AppendProperties
        <3>3. /\ DOMAIN app.pids = 1 .. Len(app.pids) /\ Len(app.pids) \in Nat
              /\ DOMAIN Append(app.pids, pid) = 1 .. Len(Append(app.pids, pid))
            BY <1>2, <3>2, LenProperties
        <3> QED BY <2>1, <3>1, <3>2, <3>3
    <2>3. /\ app' \in Application /\ app'.f = app.f /\ app'.ctx = app.ctx /\ app'.links = app.links
          /\ app'.pids = Append(app.pids, pid)
          /\ at' \in {"load", "await"} /\ nth' \in DOMAIN Comps[app.f] /\ nth' \in Nat
          /\ at' = "await" => nth' = 1
        <3>1. DOMAIN Comps[app.f] \subseteq Nat
            BY <1>2, AssemblyAssumption, LenProperties DEF Application
        <3> QED BY <1>1, <2>1, <2>2, <3>1, AfterExecuteEffect
    <2>4. Types'
        BY <1>1, <2>1, <2>3 DEF TypeInv, Types, InfoIs, Steps, namingVars, deviceVars
    <2>5. AppMade(app)'
        BY <1>1, <1>2, <2>1, <2>2, <2>3 DEF AppMade, namingVars
    <2>6. Made'
        <3>1. \A k \in DOMAIN appseq : AppMade(appseq[k])'
            BY <1>1, <2>1 DEF TypeInv, Made, AppMade, namingVars
        <3>2. \A c \in Components : info'[c].pid \in Pids' \cup {None} /\ info'[c].rsc \in Pids' \cup {None}
            BY <1>2, <2>1 DEF TypeInv, Made, InfoIs
        <3>3. \A q \in Pids' : procs'[q].ctx \in DOMAIN ctxs /\ \A l \in procs'[q].conns : l.to \in Pids'
            BY <1>2, <2>1 DEF TypeInv, Made
        <3> QED BY <1>1, <2>1, <3>1, <3>2, <3>3 DEF TypeInv, Made, namingVars
    <2>7. CallInv'
        <3>1. \A c \in Components : info'[c].assigned = info[c].assigned
            BY <2>1 DEF InfoIs
        <3>2. \A c \in ToSet(Comps[app.f]) : info'[c].assigned \in Devices
            BY <1>1, <3>1, WorkingApp DEF TypeInv, CallInv, Working, Building
        <3>3. at' = "await" => 1 .. nth' - 1 = {}
            BY <2>3
        <3> QED BY <2>3, <2>5, <3>2, <3>3 DEF CallInv, Working, Building, Releasing, ComponentSteps
    <2>8. FreshInv'
        BY <1>1, <2>1, <2>3 DEF TypeInv, FreshInv, Building
    <2> QED BY <2>4, <2>6, <2>7, <2>8 DEF TypeInv
<1>5. CASE ForksNot
    <2>1. /\ app' \in Application /\ app'.f = app.f /\ app'.ctx = app.ctx /\ app'.links = app.links
          /\ app'.pids = app.pids /\ UNCHANGED <<dmn, raised, info, procs>>
          /\ at' \in {"load", "await"} /\ nth' \in DOMAIN Comps[app.f] /\ nth' \in Nat
          /\ at' = "await" => nth' = 1
        <3>1. DOMAIN Comps[app.f] \subseteq Nat
            BY <1>2, AssemblyAssumption, LenProperties DEF Application
        <3> QED BY <1>1, <1>2, <1>5, <3>1, AfterExecuteEffect DEF ForksNot
    <2>2. Types'
        BY <1>1, <2>1 DEF TypeInv, Types, Steps, namingVars, deviceVars
    <2>3. Made'
        BY <1>1, <2>1, MadeStays DEF TypeInv, Made, Pids, namingVars
    <2>4. AppMade(app)'
        BY <1>1, <1>2, <2>1 DEF AppMade, Pids, namingVars
    <2>5. CallInv'
        <3>1. at' = "await" => 1 .. nth' - 1 = {}
            BY <2>1
        <3>2. \A c \in ToSet(Comps[app.f]) : info'[c].assigned \in Devices
            BY <1>1, <2>1 DEF TypeInv, CallInv
        <3> QED BY <2>1, <2>4, <3>1, <3>2 DEF CallInv, Working, Building, Releasing, ComponentSteps
    <2>6. FreshInv'
        BY <1>1, <2>1 DEF TypeInv, FreshInv, Building, Pids
    <2> QED BY <2>2, <2>3, <2>5, <2>6 DEF TypeInv
<1> QED BY <1>1, <1>3, <1>4, <1>5

LEMMA AwaitEffect ==
    ASSUME TypeInv, AwaitComponent
    PROVE  LET p == ctxs[app.ctx].bound[comp]
           IN  /\ p \in Pids /\ comp \in Components
               /\ InfoIs(comp, info[comp].deployed, info[comp].pid, info[comp].device, p)
<1> DEFINE p == ctxs[app.ctx].bound[comp]
           i == [info[comp] EXCEPT !.rsc = p]
<1>1. at = "await" /\ p # None /\ info' = [info EXCEPT ![comp].rsc = p]
    BY DEF AwaitComponent
<1>2. comp \in Components /\ app.ctx \in DOMAIN ctxs /\ info[comp] \in Info
    BY <1>1, CompType DEF ComponentSteps
<1>3. p \in Pids /\ p \in Nat
    BY <1>1, <1>2, ProcType DEF TypeInv, Made
<1>4. /\ i \in Info /\ i.assigned = info[comp].assigned /\ i.deployed = info[comp].deployed
      /\ i.pid = info[comp].pid /\ i.device = info[comp].device /\ i.rsc = p
    BY <1>2, <1>3 DEF Info
<1>5. info' = [info EXCEPT ![comp] = i] /\ info \in [Components -> Info]
    BY <1>1 DEF TypeInv, Types
<1> HIDE DEF i
<1> QED BY <1>2, <1>3, <1>4, <1>5 DEF InfoIs

LEMMA AwaitTypes == TypeInv /\ AwaitComponent => TypeInv'
<1> SUFFICES ASSUME TypeInv, AwaitComponent PROVE TypeInv'
    OBVIOUS
<1> DEFINE p == ctxs[app.ctx].bound[comp]
<1>1. /\ at = "await" /\ p # None
      /\ UNCHANGED <<dmn, calls, appseq, registeredDevices, namingVars, deviceVars, procs>>
      /\ \/ nth < Len(Comps[app.f]) /\ GoTo("await", nth + 1) /\ UNCHANGED raised
         \/ ~(nth < Len(Comps[app.f])) /\ GoTo("connect", Len(Conns[app.f])) /\ UNCHANGED raised
         \/ Raise
    BY DEF AwaitComponent
<1>2. /\ p \in Pids /\ comp \in Components
      /\ InfoIs(comp, info[comp].deployed, info[comp].pid, info[comp].device, p)
    BY AwaitEffect
<1>3. \A c \in Components : /\ info'[c].pid = info[c].pid /\ info'[c].rsc \in Pids \cup {info[c].rsc}
                            /\ info'[c].assigned = info[c].assigned
    BY <1>2 DEF InfoIs
<1>4. info' \in [Components -> Info]
    BY <1>2 DEF InfoIs
<1>5. CASE Raise
    BY <1>1, <1>3, <1>4, <1>5, RaiseTypes
<1>6. ASSUME UNCHANGED raised, UNCHANGED <<app, das>>, nth' \in Nat, at' \in {"await", "connect"},
             CallInv'
      PROVE  TypeInv'
    <2>1. Types'
        BY <1>1, <1>4, <1>6 DEF TypeInv, Types, Steps, namingVars, deviceVars
    <2>2. Made'
        BY <1>1, <1>3, MadeStays DEF TypeInv, Made, Pids, namingVars
    <2>3. FreshInv'
        BY <1>1, <1>6 DEF TypeInv, FreshInv, Building, Pids
    <2> QED BY <1>6, <2>1, <2>2, <2>3 DEF TypeInv
<1>7. /\ app \in Application /\ AppMade(app) /\ nth \in DOMAIN Comps[app.f] /\ app.f \in Factories
      /\ Len(Comps[app.f]) \in Nat /\ DOMAIN Comps[app.f] = 1 .. Len(Comps[app.f])
      /\ comp = Comps[app.f][nth]
    BY <1>1, CompType, AssemblyAssumption, LenProperties DEF ComponentSteps, comp
<1>8. CASE nth < Len(Comps[app.f]) /\ GoTo("await", nth + 1) /\ UNCHANGED raised
    <2>1. UNCHANGED <<app,
                      das>> /\ at' = "await" /\ nth' = nth + 1 /\ nth' \in Nat /\ nth' \in DOMAIN Comps[app.f]
        BY <1>7, <1>8 DEF GoTo
    <2>2. \A j \in 1 .. nth' - 1 : ctxs[app.ctx].bound[Comps[app.f][j]] # None
        <3>1. \A j \in 1 .. nth - 1 : ctxs[app.ctx].bound[Comps[app.f][j]] # None
            BY <1>1 DEF TypeInv, CallInv
        <3>2. \A j \in 1 .. nth' - 1 : j \in 1 .. nth - 1 \/ j = nth
            BY <1>7, <2>1
        <3> QED BY <1>1, <1>7, <3>1, <3>2
    <2>3. CallInv'
        BY <1>1, <1>7, <2>1, <2>2
           DEF CallInv, AppMade, Working, Building, Releasing, ComponentSteps, Pids,
            namingVars
    <2> QED BY <1>6, <1>8, <2>1, <2>3
<1>9. CASE ~(nth < Len(Comps[app.f])) /\ GoTo("connect", Len(Conns[app.f])) /\ UNCHANGED raised
    <2>1. /\ UNCHANGED <<app, das>> /\ at' = "connect" /\ nth' = Len(Conns[app.f])
        BY <1>9 DEF GoTo
    <2>2. nth' \in Nat /\ nth' <= Len(Conns[app.f])
        BY <1>7, <2>1, AssemblyAssumption, LenProperties
    <2>3. \A c \in ToSet(Comps[app.f]) : ctxs[app.ctx].bound[c] # None
        <3>1. \A j \in 1 .. nth - 1 : ctxs[app.ctx].bound[Comps[app.f][j]] # None
            BY <1>1 DEF TypeInv, CallInv
        <3>2. \A j \in DOMAIN Comps[app.f] : j \in 1 .. nth - 1 \/ j = nth
            BY <1>7, <1>9
        <3> QED BY <1>1, <1>7, <3>1, <3>2 DEF ToSet
    <2>4. CallInv'
        BY <1>1, <1>7, <2>1, <2>2, <2>3
           DEF CallInv, AppMade, Working, Building, Releasing, ComponentSteps, Pids,
            namingVars
    <2> QED BY <1>6, <1>9, <2>1, <2>2, <2>4
<1> QED BY <1>1, <1>5, <1>8, <1>9

\* The connection made, between two processes of the application's context.
LEMMA ConnectEffect ==
    ASSUME TypeInv, Connect
    PROVE  LET c == Conns[app.f][nth]
               user == ctxs[app.ctx].bound[c.uses]
               provider == ctxs[app.ctx].bound[c.provides]
           IN  /\ at = "connect" /\ nth \in DOMAIN Conns[app.f] /\ nth \in Nat
               /\ c.uses \in Components /\ c.provides \in Components
               /\ user \in Pids /\ provider \in Pids /\ user # None /\ provider # None
               /\ UNCHANGED <<dmn, calls, appseq, info, registeredDevices, namingVars, deviceVars>>
               /\ \/ Raise /\ UNCHANGED procs
                  \/ /\ ProcIs(user, procs[user].st, procs[user].released, procs[user].crashed,
                               procs[user].conns \cup {[id |-> nth, to |-> provider]})
                     /\ UNCHANGED <<at, das, raised>> /\ nth' = nth - 1 /\ nth' \in Nat
                     /\ app' \in Application /\ app'.f = app.f /\ app'.name = app.name
                     /\ app'.ctx = app.ctx /\ app'.pids = app.pids
                     /\ app'.links = Append(app.links, [port |-> user, id |-> nth])
<1> DEFINE c == Conns[app.f][nth]
           user == ctxs[app.ctx].bound[c.uses]
           provider == ctxs[app.ctx].bound[c.provides]
           l == procs[user].conns \cup {[id |-> nth, to |-> provider]}
<1>1. at = "connect" /\ nth > 0
      /\ UNCHANGED <<dmn, calls, appseq, info, registeredDevices, namingVars, deviceVars>>
    BY DEF Connect
<1>2. nth \in Nat /\ nth <= Len(Conns[app.f])
    BY <1>1 DEF TypeInv, Types, CallInv
<1>3. /\ app \in Application /\ app.f \in Factories /\ app.ctx \in DOMAIN ctxs
      /\ ToSet(Comps[app.f]) \subseteq Components
    BY <1>1, WorkingApp DEF Working, Building
<1>4. Conns[app.f] \in Seq([uses : ToSet(Comps[app.f]), provides : ToSet(Comps[app.f])])
    BY <1>3, AssemblyAssumption
<1>5. nth \in DOMAIN Conns[app.f] /\ c.uses \in ToSet(Comps[app.f]) /\ c.provides \in ToSet(Comps[app.f])
    <2>1. DOMAIN Conns[app.f] = 1 .. Len(Conns[app.f]) /\ Len(Conns[app.f]) \in Nat
        BY <1>4, LenProperties
    <2>2. nth \in 1 .. Len(Conns[app.f])
        BY <1>1, <1>2, <2>1
    <2>3. c \in [uses : ToSet(Comps[app.f]), provides : ToSet(Comps[app.f])]
        BY <1>4, <2>2, ElementOfSeq
    <2> QED BY <2>1, <2>2, <2>3
<1>6. user \in Pids /\ provider \in Pids /\ user # None /\ provider # None
    <2>1. user # None /\ provider # None
        BY <1>1, <1>5 DEF TypeInv, CallInv
    <2> QED BY <1>3, <1>5, <2>1 DEF TypeInv, Made
<1>7. CASE Raise /\ UNCHANGED procs
    BY <1>1, <1>2, <1>3, <1>5, <1>6, <1>7
<1>8. CASE /\ procs' = [procs EXCEPT ![user].conns = @ \cup {[id |-> nth, to |-> provider]}]
           /\ nth' = nth - 1
           /\ app' = [app EXCEPT !.links = Append(@, [port |-> user, id |-> nth])]
           /\ UNCHANGED <<at, das, raised>>
    <2>1. user \in Nat /\ provider \in Nat /\ l \in SUBSET [id : Nat, to : Nat]
        <3>1. user \in Nat /\ provider \in Nat /\ procs[user] \in Proc
            BY <1>6, ProcType DEF TypeInv
        <3>2. procs[user].conns \in SUBSET [id : Nat, to : Nat]
            BY <3>1 DEF Proc
        <3> HIDE DEF user, provider
        <3> QED BY <1>2, <3>1, <3>2
    <2>2. procs' = [procs EXCEPT ![user].conns = l]
        BY <1>8
    <2>3. ProcIs(user, procs[user].st, procs[user].released, procs[user].crashed, l)
        BY <1>6, <2>1, <2>2, ConnsUpdate DEF TypeInv
    <2>4. nth' \in Nat
        <3>1. \A n \in Nat : n > 0 => n - 1 \in Nat
            OBVIOUS
        <3> QED BY <1>1, <1>2, <1>8, <3>1
    <2>5. Append(app.links, [port |-> user, id |-> nth]) \in Seq([port : Nat, id : Nat])
        <3>1. app.links \in Seq([port : Nat, id : Nat]) /\ [port |-> user, id |-> nth] \in [port : Nat, id : Nat]
            BY <1>2, <1>3, <2>1 DEF Application
        <3> QED BY <3>1, AppendProperties
    <2>6. /\ app' \in Application /\ app'.f = app.f /\ app'.name = app.name
          /\ app'.ctx = app.ctx /\ app'.pids = app.pids
          /\ app'.links = Append(app.links, [port |-> user, id |-> nth])
        BY <1>3, <1>8, <2>5 DEF Application
    <2> QED BY <1>1, <1>2, <1>3, <1>5, <1>6, <1>8, <2>3, <2>4, <2>6
<1> QED BY <1>7, <1>8 DEF Connect

LEMMA ConnectTypes == TypeInv /\ Connect => TypeInv'
<1> SUFFICES ASSUME TypeInv, Connect PROVE TypeInv'
    OBVIOUS
<1> DEFINE c == Conns[app.f][nth]
           user == ctxs[app.ctx].bound[c.uses]
           provider == ctxs[app.ctx].bound[c.provides]
           link == [port |-> user, id |-> nth]
<1>1. /\ at = "connect" /\ nth \in DOMAIN Conns[app.f] /\ user \in Pids /\ provider \in Pids
      /\ UNCHANGED <<dmn, calls, appseq, info, registeredDevices, namingVars, deviceVars>>
      /\ \/ Raise /\ UNCHANGED procs
         \/ /\ ProcIs(user, procs[user].st, procs[user].released, procs[user].crashed,
                               procs[user].conns \cup {[id |-> nth, to |-> provider]})
            /\ UNCHANGED <<at, das, raised>> /\ nth' = nth - 1 /\ nth' \in Nat
            /\ app' \in Application /\ app'.f = app.f /\ app'.name = app.name
            /\ app'.ctx = app.ctx /\ app'.pids = app.pids
            /\ app'.links = Append(app.links, link)
    BY ConnectEffect
<1>2. CASE Raise /\ UNCHANGED procs
    BY <1>1, <1>2, RaiseTypes DEF TypeInv, Types
<1>3. CASE /\ ProcIs(user, procs[user].st, procs[user].released, procs[user].crashed,
                               procs[user].conns \cup {[id |-> nth, to |-> provider]})
           /\ UNCHANGED <<at, das, raised>> /\ nth' = nth - 1 /\ nth' \in Nat
           /\ app' \in Application /\ app'.f = app.f /\ app'.name = app.name
           /\ app'.ctx = app.ctx /\ app'.pids = app.pids
           /\ app'.links = Append(app.links, link)
    <2> HIDE DEF user, provider
    <2>1. /\ procs' \in Seq(Proc) /\ Pids' = Pids
          /\ \A q \in Pids : /\ procs'[q].ctx = procs[q].ctx /\ procs'[q].st = procs[q].st
                             /\ procs'[q].released = procs[q].released
                             /\ \A l \in procs'[q].conns : l \in procs[q].conns \/ l = [id |-> nth, to |-> provider]
        BY <1>1, <1>3, ProcKeeps
    <2>2. Types'
        BY <1>1, <1>3, <2>1 DEF TypeInv, Types, namingVars, deviceVars
    <2>3. Made'
        BY <1>1, <2>1, MadeStays DEF TypeInv, Made, namingVars
    <2>4. AppMade(app)'
        <3>1. AppMade(app) /\ app.links \in Seq([port : Nat, id : Nat]) /\ link \in [port : Nat, id : Nat]
            BY <1>1, WorkingApp, ProcType DEF TypeInv, Types, Working, Building, Application
        <3> HIDE DEF link
        <3>2. /\ Len(Append(app.links, link)) = Len(app.links) + 1
              /\ Append(app.links, link) \in Seq([port : Nat, id : Nat])
              /\ \A j \in 1 .. Len(app.links) : Append(app.links, link)[j] = app.links[j]
              /\ Append(app.links, link)[Len(app.links) + 1] = link
            BY <3>1, AppendProperties
        <3>3. /\ DOMAIN app.links = 1 .. Len(app.links) /\ Len(app.links) \in Nat
              /\ DOMAIN Append(app.links, link) = 1 .. Len(Append(app.links, link))
            BY <3>1, <3>2, LenProperties
        <3>4. \A j \in DOMAIN Append(app.links, link) :
                  LET m == Append(app.links, link)[j] IN m.port \in Pids /\ m.id \in DOMAIN Conns[app.f]
            BY <1>1, <3>1, <3>2, <3>3 DEF AppMade, link
        <3> QED BY <1>1, <1>3, <2>1, <3>1, <3>4 DEF AppMade, namingVars
    <2>5. CallInv'
        <3>1. nth' <= Len(Conns[app.f])
            BY <1>1, <1>3 DEF TypeInv, Types, CallInv
        <3> QED BY <1>1, <1>3, <2>4, <3>1
                   DEF TypeInv, CallInv, namingVars, ComponentSteps, Working, Building
    <2>6. FreshInv'
        BY <1>1, <1>3, <2>1 DEF TypeInv, FreshInv
    <2> QED BY <2>2, <2>3, <2>5, <2>6 DEF TypeInv
<1> QED BY <1>1, <1>2, <1>3

LEMMA ListEffect ==
    ASSUME TypeInv, ListApplication
    PROVE  /\ at = "connect" /\ app \in Application /\ AppMade(app) /\ appseq' \in Seq(Application)
           /\ DOMAIN appseq' = DOMAIN appseq \cup {Len(appseq) + 1}
           /\ Len(appseq) + 1 \notin DOMAIN appseq
           /\ \A k \in DOMAIN appseq : appseq'[k] = appseq[k]
           /\ appseq'[Len(appseq) + 1] = app
<1>1. at = "connect" /\ app \in Application /\ AppMade(app) /\ appseq' = Append(appseq, app)
    BY WorkingApp DEF Working, Building, ListApplication
<1>2. appseq \in Seq(Application) /\ Len(appseq) \in Nat /\ DOMAIN appseq = 1 .. Len(appseq)
    BY LenProperties DEF TypeInv, Types
<1>3. /\ appseq' \in Seq(Application) /\ Len(appseq') = Len(appseq) + 1
      /\ \A k \in 1 .. Len(appseq) : appseq'[k] = appseq[k]
      /\ appseq'[Len(appseq) + 1] = app
    BY <1>1, <1>2, AppendProperties
<1>4. DOMAIN appseq' = 1 .. Len(appseq) + 1
    BY <1>3, LenProperties
<1> QED BY <1>1, <1>2, <1>3, <1>4

LEMMA ListTypes == TypeInv /\ ListApplication => TypeInv'
<1> SUFFICES ASSUME TypeInv, ListApplication PROVE TypeInv'
    OBVIOUS
<1>1. Idle /\ UNCHANGED <<dmn, calls, raised, info, registeredDevices, namingVars, deviceVars,
                          procs>>
    BY DEF ListApplication
<1>2. Types'
    BY <1>1, ListEffect DEF TypeInv, Types, Idle, Steps, namingVars, deviceVars
<1>3. \A k \in DOMAIN appseq' : AppMade(appseq'[k])
    BY ListEffect DEF TypeInv, Made
<1>4. Made'
    BY <1>1, <1>3 DEF TypeInv, Made, AppMade, Pids, namingVars
<1>5. FreshInv'
    BY <1>1 DEF TypeInv, FreshInv, Idle, Building, Pids
<1> QED BY <1>1, <1>2, <1>4, <1>5, IdleCall DEF TypeInv

LEMMA CallReleaseTypes ==
    ASSUME TypeInv, NEW k \in DOMAIN appseq, CallRelease(k)
    PROVE  TypeInv'
<1>1. appseq[k] \in Application /\ AppMade(appseq[k])
    <2>1. appseq \in Seq(Application)
        BY DEF TypeInv, Types
    <2> QED BY <2>1, ElementOfSeq, LenProperties DEF TypeInv, Made
<1>2. Types'
    BY LifecycleBound DEF TypeInv, Types, CallRelease, Steps, namingVars, deviceVars
<1>3. Made'
    BY DEF TypeInv, Made, CallRelease, AppMade, Pids, namingVars
<1>4. CallInv'
    BY <1>1 DEF CallInv, CallRelease, AppMade, Working, Building, Releasing, ComponentSteps, Pids,
       namingVars
<1>5. FreshInv'
    BY DEF TypeInv, FreshInv, CallRelease, Building, Pids
<1> QED BY <1>2, <1>3, <1>4, <1>5 DEF TypeInv

LEMMA MinExists ==
    ASSUME NEW S \in SUBSET Nat, S # {}
    PROVE  Min(S) \in S
<1>1. PICK x \in S : \A y \in S : ~(<<y, x>> \in OpToRel(<, Nat))
    BY NatLessThanWellFounded, WFMin
<1>2. ASSUME NEW y \in S PROVE x <= y
    <2>1. <<y, x>> \in Nat \X Nat /\ x \in Nat /\ y \in Nat
        BY <1>1, <1>2
    <2>2. ~(y < x)
        BY <1>1, <2>1, Zenon DEF OpToRel
    <2> QED BY <2>1, <2>2
<1> QED
    BY <1>2 DEF Min

LEMMA UnlistEffect ==
    ASSUME TypeInv, Unlist
    PROVE  LET hits == {k \in DOMAIN appseq : appseq[k].name = app.name
                                              /\ Comps[appseq[k].f][1] = Comps[app.f][1]}
           IN  \/ hits = {} /\ appseq' = appseq
               \/ \E k \in hits : appseq' = RemoveAt(appseq, k)
<1> DEFINE Hit(a) == a.name = app.name /\ Comps[a.f][1] = Comps[app.f][1]
           I == {k \in 1 .. Len(appseq) : Hit(appseq[k])}
           hits == {k \in DOMAIN appseq : Hit(appseq[k])}
<1>1. DOMAIN appseq = 1 .. Len(appseq)
    BY LenProperties DEF TypeInv, Types
<1>2. appseq' = IF \E k \in 1 .. Len(appseq) : Hit(appseq[k])
                THEN RemoveAt(appseq, IF I # {} THEN Min(I) ELSE 0) ELSE appseq
    BY DEF Unlist, RemoveFirstMatch, SelectInSeq
<1>3. I = hits /\ I \in SUBSET Nat
    BY <1>1
<1>4. CASE I = {}
    BY <1>2, <1>3, <1>4
<1>5. CASE I # {}
    <2>1. Min(I) \in I
        BY <1>3, <1>5, MinExists
    <2> QED BY <1>2, <1>3, <1>5, <2>1
<1> QED BY <1>4, <1>5

\* What a step of a release that only moves on must keep to.
LEMMA GoesOn ==
    ASSUME TypeInv, at \in Working, NEW step \in Releasing, NEW i \in Nat, GoTo(step, i),
           step \in ComponentSteps => i \in DOMAIN Comps[app.f],
           step = "disconnect" => i >= 1,
           DOMAIN ctxs' = DOMAIN ctxs, Pids' = Pids
    PROVE  CallInv' /\ at' \in Steps /\ nth' \in Nat
<1>1. app \in Application /\ AppMade(app)
    BY WorkingApp
<1> QED BY <1>1 DEF GoTo, CallInv, AppMade, Working, Building, Releasing, ComponentSteps, Steps

LEMMA RemoveAtElement ==
    ASSUME NEW S, NEW s \in Seq(S), NEW i \in 1 .. Len(s)
    PROVE  /\ RemoveAt(s, i) \in Seq(S) /\ Len(RemoveAt(s, i)) = Len(s) - 1
           /\ \A k \in 1 .. (Len(s) - 1) : RemoveAt(s, i)[k] = IF k < i THEN s[k] ELSE s[k + 1]
<1> DEFINE a == SubSeq(s, 1, i - 1)
           b == SubSeq(s, i + 1, Len(s))
<1>1. Len(s) \in Nat
    BY LenProperties
<1>2. a \in Seq(S) /\ Len(a) = i - 1 /\ \A k \in 1 .. (i - 1) : a[k] = s[k]
    BY <1>1, SubSeqProperties
<1>3. b \in Seq(S) /\ Len(b) = Len(s) - i /\ \A k \in 1 .. (Len(s) - i) : b[k] = s[i + k]
    BY <1>1, SubSeqProperties
<1>4. PICK p \in Seq(S), q \in Seq(S) : p = a /\ q = b
    BY <1>2, <1>3
<1> HIDE DEF a, b
<1>5. /\ p \o q \in Seq(S) /\ Len(p \o q) = Len(p) + Len(q)
      /\ \A k \in 1 .. (Len(p) + Len(q)) : (p \o q)[k] = IF k <= Len(p) THEN p[k] ELSE q[k - Len(p)]
    BY ConcatProperties
<1>6. RemoveAt(s, i) = p \o q
    BY <1>4 DEF RemoveAt, a, b
<1>7. Len(p) = i - 1 /\ Len(q) = Len(s) - i
    BY <1>2, <1>3, <1>4
<1>8. Len(p \o q) = Len(s) - 1
    BY <1>1, <1>5, <1>7
<1>9. ASSUME NEW k \in 1 .. (Len(s) - 1)
      PROVE  (p \o q)[k] = IF k < i THEN s[k] ELSE s[k + 1]
    <2>1. k \in 1 .. (Len(p) + Len(q))
        BY <1>1, <1>7
    <2>2. CASE k < i
        BY <1>1, <1>2, <1>4, <1>5, <1>7, <2>1, <2>2
    <2>3. CASE ~(k < i)
        <3>1. k - Len(p) \in 1 .. (Len(s) - i) /\ i + (k - Len(p)) = k + 1 /\ ~(k <= Len(p))
            BY <1>1, <1>7, <2>3
        <3>2. q[k - Len(p)] = s[k + 1]
            BY <1>3, <1>4, <3>1
        <3> QED BY <1>5, <2>1, <2>3, <3>1, <3>2
    <2> QED BY <2>2, <2>3
<1> QED
    BY <1>5, <1>6, <1>8, <1>9

\* What leaves the list is one application, or nothing.
LEMMA UnlistTypes == TypeInv /\ Unlist => TypeInv'
<1> SUFFICES ASSUME TypeInv, Unlist PROVE TypeInv'
    OBVIOUS
<1>1. /\ at = "unlist" /\ GoTo("disconnect", 1)
      /\ UNCHANGED <<dmn, calls, raised, info, registeredDevices, namingVars, deviceVars, procs>>
    BY DEF Unlist
<1>2. appseq' \in Seq(Application) /\ \A k \in DOMAIN appseq' : \E j \in DOMAIN appseq : appseq'[k] = appseq[j]
    <2>1. appseq \in Seq(Application) /\ DOMAIN appseq = 1 .. Len(appseq) /\ Len(appseq) \in Nat
        BY LenProperties DEF TypeInv, Types
    <2>2. ASSUME NEW i \in DOMAIN appseq, appseq' = RemoveAt(appseq, i) PROVE <1>2!1 /\ <1>2!2
        <3>1. /\ appseq' \in Seq(Application) /\ Len(appseq') = Len(appseq) - 1
              /\ \A k \in 1 .. (Len(appseq) - 1) :
                     appseq'[k] = IF k < i THEN appseq[k] ELSE appseq[k + 1]
            BY <2>1, <2>2, RemoveAtElement
        <3>2. DOMAIN appseq' = 1 .. (Len(appseq) - 1)
            BY <3>1, LenProperties
        <3>3. \A k \in 1 .. (Len(appseq) - 1) : k \in 1 .. Len(appseq) /\ k + 1 \in 1 .. Len(appseq)
            BY <2>1
        <3> QED BY <2>1, <3>1, <3>2, <3>3
    <2> QED BY <2>1, <2>2, UnlistEffect
<1>3. Pids' = Pids /\ DOMAIN ctxs' = DOMAIN ctxs
    BY <1>1 DEF Pids, namingVars
<1>4. CallInv' /\ at' = "disconnect" /\ nth' \in Nat
    BY <1>1, <1>3, GoesOn DEF Working, Releasing, ComponentSteps, GoTo
<1>5. Types'
    BY <1>1, <1>2, <1>4 DEF TypeInv, Types, Steps, namingVars, deviceVars
<1>6. Made'
    <2>1. \A k \in DOMAIN appseq' : AppMade(appseq'[k])
        BY <1>2 DEF TypeInv, Made
    <2>2. \A k \in DOMAIN appseq' : AppMade(appseq[k])'
        BY <1>1, <1>3, <2>1 DEF AppMade
    <2> QED BY <1>1, <1>3, <2>2 DEF TypeInv, Made, namingVars
<1>7. FreshInv'
    BY <1>1, <1>3, <1>4 DEF TypeInv, FreshInv, Building
<1> QED BY <1>4, <1>5, <1>6, <1>7 DEF TypeInv

\* A step of a release that changes one process, and may raise.
LEMMA OneProcTypes ==
    ASSUME TypeInv, UNCHANGED <<calls, appseq, info, registeredDevices, namingVars, deviceVars>>,
           NEW p \in Pids, NEW s, NEW r, NEW c, NEW l, ProcIs(p, s, r, c, l),
           s = "woken" => r, l \subseteq procs[p].conns,
           at \notin Building, CallInv', UNCHANGED <<dmn,
                                                     raised>>, at' \in Steps \ Building, nth' \in Nat
    PROVE  TypeInv'
<1>1. /\ procs' \in Seq(Proc) /\ Pids' = Pids
      /\ \A q \in Pids : /\ procs'[q].ctx = procs[q].ctx
                         /\ procs'[q].st = "woken" => procs'[q].released
                         /\ \A m \in procs'[q].conns : m \in procs[q].conns
    BY ProcKeeps DEF TypeInv, FreshInv
<1>2. Types'
    BY <1>1 DEF TypeInv, Types, namingVars, deviceVars
<1>3. Made'
    BY <1>1, MadeStays DEF TypeInv, Made, namingVars
<1>4. FreshInv'
    BY <1>1 DEF TypeInv, FreshInv
<1> QED BY <1>2, <1>3, <1>4 DEF TypeInv

\* A step of a release, or of nobody, that leaves the processes alone.
LEMMA StillTypes ==
    ASSUME TypeInv, UNCHANGED <<calls, appseq, info, registeredDevices, namingVars, deviceVars,
                                procs>>,
           CallInv', UNCHANGED <<dmn, raised>>, at' \in Steps \ Building, nth' \in Nat
    PROVE  TypeInv'
<1>1. Types'
    BY DEF TypeInv, Types, namingVars, deviceVars
<1>2. Made'
    BY MadeStays DEF TypeInv, Made, namingVars, Pids
<1>3. FreshInv'
    BY DEF TypeInv, FreshInv, Pids
<1> QED BY <1>1, <1>2, <1>3 DEF TypeInv

LEMMA FirstComponent == ASSUME NEW f \in Factories PROVE 1 \in DOMAIN Comps[f]
<1>1. Comps[f] \in Seq(Components) /\ Comps[f] # << >>
    BY AssemblyAssumption
<1> QED BY <1>1, EmptySeq, LenProperties

LEMMA DisconnectTypes == TypeInv /\ Disconnect => TypeInv'
<1> SUFFICES ASSUME TypeInv, Disconnect PROVE TypeInv'
    OBVIOUS
<1> DEFINE link == app.links[nth]
           l == {c \in procs[link.port].conns : c.id # link.id}
<1>1. /\ at = "disconnect" /\ nth >= 1 /\ nth \in Nat
      /\ UNCHANGED <<dmn, calls, appseq, info, registeredDevices, namingVars, deviceVars>>
      /\ \/ GoTo("releaseObject", 1) /\ UNCHANGED <<raised, procs>>
         \/ /\ ~(nth > Len(app.links)) /\ procs' = [procs EXCEPT ![link.port].conns = l]
            /\ GoTo("disconnect", nth + 1) /\ UNCHANGED raised
         \/ Raise /\ UNCHANGED procs
    BY DEF Disconnect, TypeInv, Types, CallInv
<1>2. app \in Application /\ AppMade(app) /\ app.f \in Factories
    BY <1>1, WorkingApp DEF Working, Releasing
<1>3. CASE Raise /\ UNCHANGED procs
    BY <1>1, <1>3, RaiseTypes DEF TypeInv, Types
<1>4. CASE GoTo("releaseObject", 1) /\ UNCHANGED <<raised, procs>>
    <2>1. 1 \in DOMAIN Comps[app.f]
        BY <1>2, FirstComponent
    <2>2. CallInv' /\ at' = "releaseObject" /\ nth' \in Nat
        BY <1>1, <1>4, <2>1, GoesOn DEF Working, Releasing, ComponentSteps, GoTo, Pids, namingVars
    <2> QED BY <1>1, <1>4, <2>2, StillTypes DEF Building, Steps
<1>5. CASE /\ ~(nth > Len(app.links)) /\ procs' = [procs EXCEPT ![link.port].conns = l]
           /\ GoTo("disconnect", nth + 1) /\ UNCHANGED raised
    <2>1. link.port \in Pids
        <3>1. app.links \in Seq([port : Nat, id : Nat])
            BY <1>2 DEF Application
        <3>2. nth \in DOMAIN app.links
            BY <1>1, <1>5, <3>1, LenProperties
        <3> QED BY <1>2, <3>2 DEF AppMade
    <2>2. l \in SUBSET [id : Nat, to : Nat]
        <3>1. procs[link.port] \in Proc
            BY <2>1, ProcType DEF TypeInv
        <3> QED BY <3>1 DEF Proc
    <2>3. ProcIs(link.port, procs[link.port].st, procs[link.port].released,
                 procs[link.port].crashed, l)
        BY <1>5, <2>1, <2>2, ConnsUpdate DEF TypeInv
    <2>4. CallInv' /\ at' = "disconnect" /\ nth' \in Nat
        BY <1>1, <1>5, <2>3, GoesOn DEF Working, Releasing, ComponentSteps, GoTo, namingVars, ProcIs
    <2>5. procs[link.port].st = "woken" => procs[link.port].released
        BY <2>1 DEF TypeInv, FreshInv
    <2>6. l \subseteq procs[link.port].conns
        OBVIOUS
    <2> HIDE DEF link, l
    <2> QED BY <1>1, <1>5, <2>1, <2>3, <2>4, <2>5, <2>6, OneProcTypes DEF Building, Steps
<1> QED BY <1>1, <1>3, <1>4, <1>5

\* What comes after a component was terminated.
LEMMA AfterTerminateEffect ==
    ASSUME TypeInv, at \in {"releaseObject", "terminate"}, AfterTerminate,
           DOMAIN ctxs' = DOMAIN ctxs, Pids' = Pids
    PROVE  /\ CallInv' /\ UNCHANGED <<app,
                                      das>> /\ at' \in {"releaseObject", "unbind"} /\ nth' \in Nat
           /\ \/ at' = "releaseObject" /\ nth' = nth + 1 /\ nth' \in DOMAIN Comps[app.f]
              \/ at' = "unbind" /\ nth = Len(Comps[app.f])
<1>1. nth \in DOMAIN Comps[app.f] /\ app.f \in Factories
    BY CompType DEF ComponentSteps
<1>2. Len(Comps[app.f]) \in Nat /\ DOMAIN Comps[app.f] = 1 .. Len(Comps[app.f])
    BY <1>1, AssemblyAssumption, LenProperties
<1>3. CASE nth < Len(Comps[app.f]) /\ GoTo("releaseObject", nth + 1)
    <2>1. nth + 1 \in DOMAIN Comps[app.f] /\ nth + 1 \in Nat
        BY <1>1, <1>2, <1>3
    <2> QED BY <1>3, <2>1, GoesOn DEF Working, Releasing, GoTo
<1>4. CASE ~(nth < Len(Comps[app.f])) /\ GoTo("unbind", 1)
    <2>1. nth = Len(Comps[app.f])
        BY <1>1, <1>2, <1>4
    <2> QED BY <1>4, <2>1, GoesOn DEF Working, Releasing, ComponentSteps, GoTo
<1> QED BY <1>3, <1>4 DEF AfterTerminate

LEMMA ReleaseResourceTypes == TypeInv /\ ReleaseResource => TypeInv'
<1> SUFFICES ASSUME TypeInv, ReleaseResource PROVE TypeInv'
    OBVIOUS
<1> DEFINE p == info[comp].rsc
           s == IF procs[p].st = "waiting" THEN "woken" ELSE procs[p].st
<1>1. /\ at = "releaseObject"
      /\ UNCHANGED <<dmn, calls, appseq, info, registeredDevices, namingVars, deviceVars>>
      /\ \/ AfterTerminate /\ UNCHANGED <<raised, procs>>
         \/ Raise /\ UNCHANGED procs
         \/ /\ procs' = [procs EXCEPT ![p].released = TRUE, ![p].st = s]
            /\ GoTo("unload", nth) /\ UNCHANGED raised
    BY DEF ReleaseResource
<1>2. nth \in DOMAIN Comps[app.f] /\ app.f \in Factories /\ nth \in Nat
    BY <1>1, CompType DEF ComponentSteps, TypeInv, Types
<1>3. CASE Raise /\ UNCHANGED procs
    BY <1>1, <1>3, RaiseTypes DEF TypeInv, Types
<1>4. CASE AfterTerminate /\ UNCHANGED <<raised, procs>>
    <2>1. CallInv' /\ at' \in {"releaseObject", "unbind"} /\ nth' \in Nat
        BY <1>1, <1>4, AfterTerminateEffect DEF Pids, namingVars
    <2> QED BY <1>1, <1>4, <2>1, StillTypes DEF Building, Steps
<1>5. CASE /\ procs' = [procs EXCEPT ![p].released = TRUE, ![p].st = s]
           /\ GoTo("unload", nth) /\ UNCHANGED raised
    <2>1. CASE p \notin Pids
        <3>1. procs' = procs
            BY <1>5, <2>1, ProcType DEF TypeInv, Types, Pids
        <3>2. CallInv' /\ at' = "unload" /\ nth' \in Nat
            BY <1>1, <1>2, <1>5, <3>1, GoesOn DEF Working, Releasing, GoTo, namingVars, Pids
        <3> QED BY <1>1, <1>5, <3>1, <3>2, StillTypes DEF Building, Steps
    <2>2. CASE p \in Pids
        <3>1. procs[p].st \in States /\ s \in States
            BY <2>2, ProcType DEF TypeInv, Proc, States
        <3>2. ProcIs(p, s, TRUE, procs[p].crashed, procs[p].conns)
            BY <1>5, <2>2, <3>1, ReleaseUpdate DEF TypeInv
        <3>3. CallInv' /\ at' = "unload" /\ nth' \in Nat
            BY <1>1, <1>2, <1>5, <3>2, GoesOn DEF Working, Releasing, GoTo, namingVars, ProcIs
        <3> HIDE DEF p, s
        <3> QED BY <1>1, <1>5, <2>2, <3>2, <3>3, OneProcTypes DEF Building, Steps
    <2> QED BY <2>1, <2>2
<1> QED BY <1>1, <1>3, <1>4, <1>5

LEMMA UnloadTypes == TypeInv /\ Unload => TypeInv'
<1> SUFFICES ASSUME TypeInv, Unload PROVE TypeInv'
    OBVIOUS
<1> DEFINE d == info[comp].device
<1>1. /\ at = "unload"
      /\ UNCHANGED <<calls, appseq, info, registeredDevices, namingVars, registered, adminState,
                     procs>>
      /\ \/ (Abort("InvalidState") \/ Abort("InvalidFileName")) /\ UNCHANGED loadedFiles
         \/ /\ loadedFiles[d][File[comp]] > 0
            /\ loadedFiles' = [loadedFiles EXCEPT ![d][File[comp]] = @ - 1]
            /\ GoTo("terminate", nth) /\ UNCHANGED <<dmn, raised>>
    BY DEF Unload
<1>2. nth \in DOMAIN Comps[app.f] /\ nth \in Nat /\ File[comp] \in Files
    BY <1>1, CompType DEF ComponentSteps, TypeInv, Types
<1>3. CASE (Abort("InvalidState") \/ Abort("InvalidFileName")) /\ UNCHANGED loadedFiles
    BY <1>1, <1>3, AbortTypes DEF deviceVars
<1>4. CASE /\ loadedFiles[d][File[comp]] > 0
           /\ loadedFiles' = [loadedFiles EXCEPT ![d][File[comp]] = @ - 1]
           /\ GoTo("terminate", nth) /\ UNCHANGED <<dmn, raised>>
    <2>1. CallInv' /\ at' = "terminate" /\ nth' \in Nat
        BY <1>1, <1>2, <1>4, GoesOn DEF Working, Releasing, GoTo, namingVars, Pids
    <2>2. loadedFiles \in [Devices -> [Files -> Nat]]
        BY DEF TypeInv, Types
    <2>3. loadedFiles' \in [Devices -> [Files -> Nat]]
        <3>1. CASE d \notin Devices
            BY <1>4, <2>2, <3>1
        <3>2. CASE d \in Devices
            <4>1. loadedFiles[d][File[comp]] - 1 \in Nat
                BY <1>2, <1>4, <2>2, <3>2
            <4> QED BY <1>2, <1>4, <2>2, <3>2, <4>1
        <3> QED BY <3>1, <3>2
    <2>4. Types'
        BY <1>1, <1>4, <2>1, <2>3 DEF TypeInv, Types, Steps, namingVars
    <2>5. Made'
        BY <1>1, MadeStays DEF TypeInv, Made, namingVars, Pids
    <2>6. FreshInv'
        BY <1>1, <2>1 DEF TypeInv, FreshInv, Building, Pids
    <2> QED BY <2>1, <2>4, <2>5, <2>6 DEF TypeInv
<1> QED BY <1>1, <1>3, <1>4

LEMMA TerminateTypes == TypeInv /\ Terminate => TypeInv'
<1> SUFFICES ASSUME TypeInv, Terminate PROVE TypeInv'
    OBVIOUS
<1> DEFINE p == info[comp].pid
<1>1. /\ at = "terminate"
      /\ UNCHANGED <<calls, appseq, info, registeredDevices, namingVars, deviceVars>>
      /\ \/ Abort("InvalidState") /\ UNCHANGED procs
         \/ procs' = [procs EXCEPT ![p].st = "reaped"] /\ AfterTerminate /\ UNCHANGED <<dmn,
                                                                                        raised>>
    BY DEF Terminate
<1>2. CASE Abort("InvalidState") /\ UNCHANGED procs
    BY <1>1, <1>2, AbortTypes
<1>3. CASE procs' = [procs EXCEPT ![p].st = "reaped"] /\ AfterTerminate /\ UNCHANGED <<dmn, raised>>
    <2>1. CASE p \notin Pids
        <3>1. procs' = procs
            BY <1>3, <2>1, ProcType DEF TypeInv, Types, Pids
        <3>2. CallInv' /\ at' \in {"releaseObject", "unbind"} /\ nth' \in Nat
            BY <1>1, <1>3, <3>1, AfterTerminateEffect DEF namingVars, Pids
        <3> QED BY <1>1, <1>3, <3>1, <3>2, StillTypes DEF Building, Steps
    <2>2. CASE p \in Pids
        <3>1. ProcIs(p, "reaped", procs[p].released, procs[p].crashed, procs[p].conns)
            BY <1>3, <2>2, StUpdate DEF TypeInv, States
        <3>2. CallInv' /\ at' \in {"releaseObject", "unbind"} /\ nth' \in Nat
            BY <1>1, <1>3, <3>1, AfterTerminateEffect DEF namingVars, ProcIs
        <3> HIDE DEF p
        <3> QED BY <1>1, <1>3, <2>2, <3>1, <3>2, OneProcTypes DEF Building, Steps
    <2> QED BY <2>1, <2>2
<1> QED BY <1>1, <1>2, <1>3

LEMMA UnbindContextTypes == TypeInv /\ UnbindContext => TypeInv'
<1> SUFFICES ASSUME TypeInv, UnbindContext PROVE TypeInv'
    OBVIOUS
<1>1. /\ at = "unbind"
      /\ UNCHANGED <<calls, appseq, info, registeredDevices, ctxs, deviceVars, procs>>
      /\ \/ Abort("NotFound") /\ UNCHANGED root
         \/ /\ root' = [root EXCEPT ![app.name] = None]
            /\ GoTo("destroy", 1) /\ UNCHANGED <<dmn, raised>>
    BY DEF UnbindContext
<1>2. CASE Abort("NotFound") /\ UNCHANGED root
    BY <1>1, <1>2, AbortTypes DEF namingVars
<1>3. CASE root' = [root EXCEPT ![app.name] = None] /\ GoTo("destroy", 1) /\ UNCHANGED <<dmn,
                                                                                         raised>>
    <2>1. CallInv' /\ at' = "destroy" /\ nth' \in Nat
        BY <1>1, <1>3, GoesOn DEF Working, Releasing, ComponentSteps, GoTo, Pids
    <2>2. Types'
        BY <1>1, <1>3, <2>1 DEF TypeInv, Types, Steps, deviceVars
    <2>3. Made'
        <3>1. \A k \in DOMAIN appseq : AppMade(appseq[k])'
            BY <1>1 DEF TypeInv, Made, AppMade, Pids
        <3>2. \A n \in Names : root'[n] \in DOMAIN ctxs \cup {None}
            BY <1>3 DEF TypeInv, Types, Made
        <3> QED BY <1>1, <3>1, <3>2 DEF TypeInv, Made, Pids
    <2>4. FreshInv'
        BY <1>1, <2>1 DEF TypeInv, FreshInv, Building, Pids
    <2> QED BY <2>1, <2>2, <2>3, <2>4 DEF TypeInv
<1> QED BY <1>1, <1>2, <1>3

\* The context that is destroyed; its bindings do not change.
LEMMA DestroyEffect ==
    ASSUME TypeInv, at = "destroy", ctxs' = [ctxs EXCEPT ![app.ctx].alive = FALSE]
    PROVE  /\ ctxs' \in Seq(Context) /\ DOMAIN ctxs' = DOMAIN ctxs /\ app.ctx \in DOMAIN ctxs
           /\ \A y \in DOMAIN ctxs : /\ ctxs'[y].bound = ctxs[y].bound
                                     /\ ctxs'[y].alive = IF y = app.ctx THEN FALSE ELSE ctxs[y].alive
<1> DEFINE x == app.ctx
           r == [ctxs[x] EXCEPT !.alive = FALSE]
           Q == [ctxs EXCEPT ![x] = r]
<1>1. x \in DOMAIN ctxs
    BY WorkingApp DEF Working, Releasing
<1>2. ctxs \in Seq(Context) /\ DOMAIN ctxs = 1 .. Len(ctxs) /\ ctxs[x] \in Context
    BY <1>1, LenProperties, ElementOfSeq DEF TypeInv, Types
<1>3. r \in Context /\ r.alive = FALSE /\ r.bound = ctxs[x].bound
    BY <1>2 DEF Context
<1>4. ctxs' = Q
    OBVIOUS
<1> HIDE DEF r, x
<1>5. /\ Q \in Seq(Context) /\ Len(Q) = Len(ctxs)
      /\ \A y \in 1 .. Len(ctxs) : Q[y] = IF y = x THEN r ELSE ctxs[y]
    BY <1>1, <1>2, <1>3, ExceptSeq
<1> HIDE DEF Q
<1>6. DOMAIN ctxs' = DOMAIN ctxs
    BY <1>2, <1>4, <1>5, LenProperties
<1>7. \A y \in DOMAIN ctxs : /\ ctxs'[y].bound = ctxs[y].bound
                             /\ ctxs'[y].alive = IF y = x THEN FALSE ELSE ctxs[y].alive
    BY <1>2, <1>3, <1>4, <1>5
<1> QED BY <1>1, <1>4, <1>5, <1>6, <1>7 DEF x

LEMMA DestroyContextTypes == TypeInv /\ DestroyContext => TypeInv'
<1> SUFFICES ASSUME TypeInv, DestroyContext PROVE TypeInv'
    OBVIOUS
<1>1. /\ at = "destroy"
      /\ UNCHANGED <<calls, appseq, info, registeredDevices, root, deviceVars, procs>>
      /\ \/ Abort("NotEmpty") /\ UNCHANGED ctxs
         \/ ctxs' = [ctxs EXCEPT ![app.ctx].alive = FALSE] /\ Idle /\ UNCHANGED <<dmn, raised>>
    BY DEF DestroyContext
<1>2. CASE Abort("NotEmpty") /\ UNCHANGED ctxs
    BY <1>1, <1>2, AbortTypes DEF namingVars
<1>3. CASE ctxs' = [ctxs EXCEPT ![app.ctx].alive = FALSE] /\ Idle /\ UNCHANGED <<dmn, raised>>
    <2>1. /\ ctxs' \in Seq(Context) /\ DOMAIN ctxs' = DOMAIN ctxs
          /\ \A y \in DOMAIN ctxs : ctxs'[y].bound = ctxs[y].bound
        BY <1>1, <1>3, DestroyEffect
    <2>2. Types'
        BY <1>1, <1>3, <2>1 DEF TypeInv, Types, Idle, Steps, deviceVars
    <2>3. Made'
        BY <1>1, <2>1, MadeStays DEF TypeInv, Made, Pids
    <2>4. FreshInv'
        BY <1>1, <1>3 DEF TypeInv, FreshInv, Idle, Building, Pids
    <2> QED BY <1>3, <2>2, <2>3, <2>4, IdleCall DEF TypeInv
<1> QED BY <1>1, <1>2, <1>3

\* A step of a process p, which may bind or unbind its own name.
LEMMA ProcessTypes ==
    ASSUME TypeInv, UNCHANGED <<domainVars, root, deviceVars>>,
           NEW p \in Pids, NEW s, NEW c, ProcIs(p, s, procs[p].released, c, procs[p].conns),
           s = "woken" => procs[p].released,
           \/ UNCHANGED ctxs
           \/ BoundIs(procs[p].ctx, procs[p].comp, p)
           \/ procs[p].st = "woken" /\ BoundIs(procs[p].ctx, procs[p].comp, None)
    PROVE  TypeInv'
<1>1. /\ procs' \in Seq(Proc) /\ Pids' = Pids
      /\ \A q \in Pids : /\ procs'[q].ctx = procs[q].ctx
                         /\ procs'[q].released = procs[q].released
                         /\ procs'[q].st = "woken" => procs'[q].released
                         /\ \A m \in procs'[q].conns : m \in procs[q].conns
    BY ProcKeeps DEF TypeInv, FreshInv
<1>2. p # None
    BY ProcType, LifecycleBound DEF TypeInv
<1>3. /\ ctxs' \in Seq(Context) /\ DOMAIN ctxs' = DOMAIN ctxs
      /\ \A x \in DOMAIN ctxs, d \in Components : ctxs'[x].bound[d] \in Pids \cup {None, ctxs[x].bound[d]}
    BY DEF BoundIs, TypeInv, Types
<1>4. UNCHANGED <<appseq, info, callVars, at, app, dmn, nth, calls, raised, registeredDevices>>
    BY DEF domainVars, callVars
<1>5. Types'
    BY <1>1, <1>3, <1>4 DEF TypeInv, Types, deviceVars
<1>6. Made'
    BY <1>1, <1>3, <1>4, MadeStays DEF TypeInv, Made
<1>7. CallInv'
    <2>1. ASSUME at \in {"await", "connect"}, NEW d \in Components, ctxs[app.ctx].bound[d] # None
          PROVE  ctxs'[app.ctx].bound[d] # None
        <3>1. app.ctx \in DOMAIN ctxs
            BY <2>1, WorkingApp DEF Working, Building
        <3>2. CASE UNCHANGED ctxs \/ BoundIs(procs[p].ctx, procs[p].comp, p)
            BY <1>2, <2>1, <3>1, <3>2 DEF BoundIs
        <3>3. CASE procs[p].st = "woken" /\ BoundIs(procs[p].ctx, procs[p].comp, None)
            <4>1. procs[p].ctx # app.ctx
                BY <2>1, <3>3 DEF TypeInv, FreshInv, Building
            <4> QED BY <2>1, <3>1, <3>3, <4>1 DEF BoundIs
        <3> QED BY <3>2, <3>3
    <2> QED BY <1>1, <1>3, <1>4, <2>1, CallStays DEF TypeInv
<1>8. FreshInv'
    BY <1>1, <1>4 DEF TypeInv, FreshInv
<1> QED BY <1>5, <1>6, <1>7, <1>8 DEF TypeInv

\* What a process does to itself and to its name.
LEMMA BindEffect ==
    ASSUME TypeInv, NEW p \in Pids, Bind(p)
    PROVE  /\ procs[p].st = "starting" /\ UNCHANGED <<domainVars, root, deviceVars>>
           /\ procs[p].ctx \in DOMAIN ctxs /\ procs[p].comp \in Components
           /\ \/ /\ ctxs[procs[p].ctx].alive
                 /\ ProcIs(p, "bound", procs[p].released, procs[p].crashed, procs[p].conns)
                 /\ BoundIs(procs[p].ctx, procs[p].comp, p)
              \/ /\ ProcIs(p, "exited", procs[p].released, procs'[p].crashed, procs[p].conns)
                 /\ procs'[p].crashed /\ UNCHANGED ctxs
<1>1. p \in Nat /\ procs[p].ctx \in DOMAIN ctxs /\ procs[p].comp \in Components
    BY ProcType DEF TypeInv, Made, Proc
<1>2. CASE /\ ctxs[procs[p].ctx].alive
           /\ ctxs' = [ctxs EXCEPT ![procs[p].ctx].bound[procs[p].comp] = p]
           /\ procs' = [procs EXCEPT ![p].st = "bound"]
    <2>1. ProcIs(p, "bound", procs[p].released, procs[p].crashed, procs[p].conns)
        BY <1>2, StUpdate DEF TypeInv, States
    <2>2. BoundIs(procs[p].ctx, procs[p].comp, p)
        BY <1>1, <1>2, BoundUpdate DEF TypeInv
    <2> QED BY <1>1, <1>2, <2>1, <2>2 DEF Bind
<1>3. CASE /\ procs' = [procs EXCEPT ![p].st = "exited", ![p].crashed = TRUE]
           /\ UNCHANGED ctxs
    <2>1. ProcIs(p, "exited", procs[p].released, TRUE, procs[p].conns)
        BY <1>3, EndUpdate DEF TypeInv, States
    <2>2. ProcIs(p, "exited", procs[p].released, procs'[p].crashed, procs[p].conns)
          /\ procs'[p].crashed
        BY <2>1 DEF ProcIs
    <2> QED BY <1>1, <1>3, <2>2 DEF Bind
<1> QED BY <1>2, <1>3 DEF Bind

LEMMA ShutdownEffect ==
    ASSUME TypeInv, NEW p \in Pids, Shutdown(p)
    PROVE  /\ procs[p].st = "woken" /\ UNCHANGED <<domainVars, root, deviceVars>>
           /\ procs[p].ctx \in DOMAIN ctxs /\ procs[p].comp \in Components
           /\ ProcIs(p, "exited", procs[p].released, procs[p].crashed, procs[p].conns)
           /\ BoundIs(procs[p].ctx, procs[p].comp, None)
<1>1. procs[p].ctx \in DOMAIN ctxs /\ procs[p].comp \in Components
    BY ProcType DEF TypeInv, Made, Proc
<1>2. ProcIs(p, "exited", procs[p].released, procs[p].crashed, procs[p].conns)
    BY StUpdate DEF Shutdown, TypeInv, States
<1>3. BoundIs(procs[p].ctx, procs[p].comp, None)
    BY <1>1, BoundUpdate DEF Shutdown, TypeInv
<1> QED BY <1>1, <1>2, <1>3 DEF Shutdown

LEMMA WaitEffect ==
    ASSUME TypeInv, NEW p \in Pids, Wait(p)
    PROVE  /\ procs[p].st = "bound" /\ UNCHANGED <<domainVars, namingVars, deviceVars>>
           /\ ProcIs(p, "waiting", procs[p].released, procs[p].crashed, procs[p].conns)
    BY StUpdate DEF Wait, TypeInv, States

LEMMA CrashEffect ==
    ASSUME TypeInv, NEW p \in Pids, Crash(p)
    PROVE  /\ Alive(p) /\ UNCHANGED <<domainVars, namingVars, deviceVars>>
           /\ ProcIs(p, "exited", procs[p].released, procs'[p].crashed, procs[p].conns)
           /\ procs'[p].crashed
<1>1. ProcIs(p, "exited", procs[p].released, TRUE, procs[p].conns)
    BY EndUpdate DEF Crash, TypeInv, States
<1> QED BY <1>1 DEF Crash, ProcIs

LEMMA ProcessStepTypes ==
    ASSUME TypeInv, NEW p \in Pids, ProcessStep(p) \/ Crash(p)
    PROVE  TypeInv'
<1>1. CASE Bind(p)
    <2>1. \E s, c : /\ ProcIs(p, s, procs[p].released, c, procs[p].conns) /\ s # "woken"
                    /\ UNCHANGED ctxs \/ BoundIs(procs[p].ctx, procs[p].comp, p)
                    /\ UNCHANGED <<domainVars, root, deviceVars>>
        BY <1>1, BindEffect
    <2> QED BY <2>1, ProcessTypes
<1>2. CASE Wait(p)
    BY <1>2, WaitEffect, ProcessTypes DEF namingVars
<1>3. CASE Shutdown(p)
    BY <1>3, ShutdownEffect, ProcessTypes
<1>4. CASE Crash(p)
    <2>1. \E s, c : /\ ProcIs(p, s, procs[p].released, c, procs[p].conns) /\ s # "woken"
                    /\ UNCHANGED ctxs /\ UNCHANGED <<domainVars, root, deviceVars>>
        BY <1>4, CrashEffect DEF namingVars
    <2> QED BY <2>1, ProcessTypes
<1> QED BY <1>1, <1>2, <1>3, <1>4 DEF ProcessStep

LEMMA DeviceTypes ==
    ASSUME TypeInv, NEW d \in Devices,
           \/ RegisterDevice(d)
           \/ \E s \in {"UNLOCKED", "LOCKED", "SHUTTING_DOWN"} : SetAdminState(d, s)
    PROVE  TypeInv'
<1>1. UNCHANGED <<domainVars, namingVars, loadedFiles, procs>>
    BY DEF RegisterDevice, SetAdminState
<1>2. registered' \in SUBSET Devices /\ adminState' \in [Devices -> {"UNLOCKED", "LOCKED", "SHUTTING_DOWN"}]
    BY DEF RegisterDevice, SetAdminState, TypeInv, Types
<1>3. Types'
    BY <1>1, <1>2 DEF TypeInv, Types, domainVars, callVars, namingVars
<1>4. Made'
    BY <1>1 DEF TypeInv, Made, AppMade, Pids, domainVars, namingVars
<1>5. CallInv'
    BY <1>1, CallStays DEF TypeInv, Pids, domainVars, callVars, namingVars
<1>6. FreshInv'
    BY <1>1 DEF TypeInv, FreshInv, Pids, domainVars, callVars
<1> QED BY <1>3, <1>4, <1>5, <1>6 DEF TypeInv

LEMMA TypeStep == TypeInv /\ [Next]_vars => TypeInv'
<1> SUFFICES ASSUME TypeInv, [Next]_vars PROVE TypeInv'
    OBVIOUS
<1>1. CASE UNCHANGED vars
    <2>1. Types' /\ Made'
        BY <1>1 DEF TypeInv, Types, Made, AppMade, Pids, vars, domainVars, callVars, namingVars,
           deviceVars
    <2>2. CallInv'
        BY <1>1, CallStays DEF TypeInv, Pids, vars, domainVars, callVars, namingVars
    <2>3. FreshInv'
        BY <1>1 DEF TypeInv, FreshInv, Pids, vars, domainVars, callVars
    <2> QED BY <2>1, <2>2, <2>3 DEF TypeInv
<1>2. CASE \E f \in Factories, name \in Names : \E a \in Assignments(f) : CallCreate(f, name, a)
    BY <1>2, CallCreateTypes
<1>3. CASE \E k \in DOMAIN appseq : CallRelease(k)
    BY <1>3, CallReleaseTypes
<1>4. CASE DomainStep
    BY <1>4, RefuseNameTypes, BindContextTypes, VerifyTypes, GetRegisteredDevicesTypes, LoadTypes,
       ExecuteTypes, AwaitTypes, ConnectTypes, ListTypes, UnlistTypes, DisconnectTypes,
       ReleaseResourceTypes, UnloadTypes, TerminateTypes, UnbindContextTypes, DestroyContextTypes
       DEF DomainStep
<1>5. CASE \E p \in DOMAIN procs : ProcessStep(p) \/ Crash(p)
    BY <1>5, ProcessStepTypes DEF Pids
<1>6. CASE \E d \in Devices :
              \/ RegisterDevice(d)
              \/ \E s \in {"UNLOCKED", "LOCKED", "SHUTTING_DOWN"} : SetAdminState(d, s)
    BY <1>6, DeviceTypes
<1> QED BY <1>1, <1>2, <1>3, <1>4, <1>5, <1>6 DEF Next

LEMMA SeqNarrow ==
    ASSUME NEW S, NEW T, NEW s \in Seq(S), \A j \in DOMAIN s : s[j] \in T
    PROVE  s \in Seq(T)
<1>1. s \in [1 .. Len(s) -> S] /\ Len(s) \in Nat /\ DOMAIN s = 1 .. Len(s)
    BY LenProperties
<1>2. s \in [1 .. Len(s) -> T]
    BY <1>1
<1> QED BY <1>1, <1>2, SeqDef

LEMMA IsAppFrom == ASSUME NEW a \in Application, AppMade(a) PROVE IsApp(a)
<1>1. a.pids \in Seq(Pids)
    BY SeqNarrow DEF Application, AppMade
<1> QED BY <1>1 DEF IsApp, Application, AppMade

LEMMA TypeImplied == TypeInv => TypeOK
<1> SUFFICES ASSUME TypeInv PROVE TypeOK
    OBVIOUS
<1>1. at \notin {"idle", "create"} => IsApp(app)
    BY IsAppFrom DEF TypeInv, Types, CallInv, Steps, Working, Building, Releasing
<1>2. \A k \in DOMAIN appseq : IsApp(appseq[k])
    BY IsAppFrom, ElementOfSeq, LenProperties DEF TypeInv, Types, Made
<1>3. info \in [Components -> [assigned : Devices \cup {None}, deployed : BOOLEAN,
                               pid : Pids \cup {None}, device : Devices \cup {None},
                               rsc : Pids \cup {None}]]
    <2>1. info \in [Components -> Info]
        BY DEF TypeInv, Types
    <2>2. ASSUME NEW c \in Components
          PROVE  info[c] \in [assigned : Devices \cup {None}, deployed : BOOLEAN,
                              pid : Pids \cup {None}, device : Devices \cup {None},
                              rsc : Pids \cup {None}]
        BY <2>1 DEF TypeInv, Made, Info
    <2> QED BY <2>1, <2>2
<1>4. ctxs \in Seq([bound : [Components -> Pids \cup {None}], alive : BOOLEAN])
    <2>1. ctxs \in Seq(Context)
        BY DEF TypeInv, Types
    <2>2. ASSUME NEW x \in DOMAIN ctxs
          PROVE  ctxs[x] \in [bound : [Components -> Pids \cup {None}], alive : BOOLEAN]
        <3>1. ctxs[x] \in Context
            BY <2>1, ElementOfSeq, LenProperties
        <3>2. \A c \in Components : ctxs[x].bound[c] \in Pids \cup {None}
            BY DEF TypeInv, Made
        <3> QED BY <3>1, <3>2 DEF Context
    <2> QED BY <2>1, <2>2, SeqNarrow
<1>5. ASSUME NEW p \in Pids
      PROVE  procs[p] \in [comp : Components, dev : Devices, ctx : DOMAIN ctxs, st : States,
                           released : BOOLEAN, crashed : BOOLEAN,
                           conns : SUBSET [id : Nat, to : Pids]]
    <2>1. procs[p] \in Proc /\ procs[p].ctx \in DOMAIN ctxs
        BY ProcType DEF TypeInv, Made
    <2>2. procs[p].conns \in SUBSET [id : Nat, to : Pids]
        <3>1. \A l \in procs[p].conns : l \in [id : Nat, to : Nat] /\ l.to \in Pids
            BY <2>1 DEF Proc, TypeInv, Made
        <3> QED BY <3>1
    <2> QED BY <2>1, <2>2 DEF Proc
<1>6. root \in [Names -> DOMAIN ctxs \cup {None}]
    BY DEF TypeInv, Types, Made
<1> QED BY <1>1, <1>2, <1>3, <1>4, <1>5, <1>6 DEF TypeInv, Types, CallInv, TypeOK

LEMMA TypeAlways == Spec => []TypeInv
<1> QED BY TypeInit, TypeStep, PTL DEF Spec

\* Every variable has its type, and whatever the domain manager, the naming
\* service or another process keeps of a process or of a context names one
\* that was made (ApplicationFactory_impl.cpp, Application_impl.cpp).
THEOREM TypeCorrect == Spec => []TypeOK
<1> QED BY TypeAlways, TypeImplied, PTL

-----------------------------------------------------------------------------
(* Names and contexts.                                                     *)

\* The steps at which the call's application has its name and its context.
Named == (Building \cup Releasing) \ {"destroy"}

\* What a step that changes no name, no context and not the list must keep to.
LEMMA NameStays ==
    ASSUME TypeInv, NameInv, UNCHANGED <<appseq, root>>, DOMAIN ctxs' = DOMAIN ctxs,
           \A x \in DOMAIN ctxs : ctxs'[x].alive = ctxs[x].alive, dmn' # "NotFound",
           \/ at' \in {"idle", "create"}
           \/ at \in Named /\ at' \in Named /\ app'.name = app.name /\ app'.ctx = app.ctx
           \/ at' = at /\ app' = app
    PROVE  NameInv'
<1>1. \A k \in DOMAIN appseq : appseq[k].ctx \in DOMAIN ctxs
    BY DEF TypeInv, Made, AppMade
<1>2. at \in Named => app.ctx \in DOMAIN ctxs
    BY WorkingApp DEF Named, Working
<1>3. ListedReachable'
    BY <1>1 DEF NameInv, ListedReachable
<1>4. at' \in Named => root'[app'.name] = app'.ctx /\ ctxs'[app'.ctx].alive /\ ~Listed(app.name)'
    BY <1>2 DEF NameInv, Named, Building, Releasing, Listed
<1> QED BY <1>3, <1>4 DEF NameInv, Named, Building, Releasing

LEMMA ListedType ==
    ASSUME TypeInv, NEW k \in DOMAIN appseq
    PROVE  /\ appseq[k] \in Application /\ AppMade(appseq[k]) /\ appseq[k].f \in Factories
           /\ appseq[k].name \in Names /\ appseq[k].ctx \in DOMAIN ctxs
<1>1. appseq[k] \in Application /\ AppMade(appseq[k])
    BY ElementOfSeq, LenProperties DEF TypeInv, Types, Made
<1> QED BY <1>1 DEF Application, AppMade

LEMMA NameInit == Init => NameInv
    BY DEF Init, NameInv, ListedReachable, Building, Releasing

LEMMA BindContextNames == TypeInv /\ NameInv /\ BindContext => NameInv'
<1> SUFFICES ASSUME TypeInv, NameInv, BindContext PROVE NameInv'
    OBVIOUS
<1>1. CASE root[app.name] # None
    <2>1. Abort("AlreadyBound") /\ UNCHANGED <<appseq, namingVars>>
        BY <1>1 DEF BindContext
    <2> QED BY <2>1, NameStays DEF Abort, callVars, namingVars
<1>2. CASE root[app.name] = None
    <2> DEFINE x == Len(ctxs) + 1
    <2>1. /\ x \notin DOMAIN ctxs /\ x # None /\ DOMAIN ctxs' = DOMAIN ctxs \cup {x}
          /\ \A y \in DOMAIN ctxs : ctxs'[y] = ctxs[y]
          /\ ctxs'[x].alive /\ app.name \in Names
          /\ root' = [root EXCEPT ![app.name] = x]
          /\ app' = App(app.f, app.name, x, << >>, << >>)
        BY <1>2, BindContextEffect
    <2>2. at' = "verify" /\ UNCHANGED <<dmn, appseq>> /\ ~Listed(app.name)
        BY <1>2 DEF BindContext
    <2> HIDE DEF x
    <2>3. \A n \in Names : root'[n] = IF n = app.name THEN x ELSE root[n]
        BY <2>1 DEF TypeInv, Types
    <2>4. \A n \in Names : root[n] # x
        BY <2>1 DEF TypeInv, Made
    <2>5. \A m, n \in Names : root'[m] = root'[n] /\ root'[m] # None => m = n
        BY <2>3, <2>4 DEF NameInv
    <2>6. ListedReachable'
        <3>1. ASSUME NEW k \in DOMAIN appseq
              PROVE  /\ appseq[k].name \in Names /\ appseq[k].name # app.name
                     /\ appseq[k].ctx \in DOMAIN ctxs
            BY <2>2, ListedType DEF Listed
        <3> QED BY <2>1, <2>2, <2>3, <3>1 DEF NameInv, ListedReachable
    <2>7. app'.name = app.name /\ app'.ctx = x
        BY <2>1 DEF App
    <2>8. root'[app'.name] = app'.ctx /\ ctxs'[app'.ctx].alive /\ ~Listed(app.name)'
        BY <2>1, <2>2, <2>3, <2>7 DEF Listed
    <2> QED BY <2>2, <2>5, <2>6, <2>8 DEF NameInv
<1> QED BY <1>1, <1>2

LEMMA ListNames == TypeInv /\ NameInv /\ ListApplication => NameInv'
<1> SUFFICES ASSUME TypeInv, NameInv, ListApplication PROVE NameInv'
    OBVIOUS
<1>1. at' = "idle" /\ UNCHANGED <<dmn, root, ctxs>>
    BY DEF ListApplication, Idle, namingVars
<1>2. root[app.name] = app.ctx /\ ctxs[app.ctx].alive /\ ~Listed(app.name)
    BY ListEffect DEF NameInv, Building
<1>3. ListedReachable'
    BY <1>1, <1>2, ListEffect DEF NameInv, ListedReachable, Listed
<1> QED BY <1>1, <1>3 DEF NameInv, Building, Releasing

LEMMA CallReleaseNames ==
    ASSUME TypeInv, NameInv, NEW k \in DOMAIN appseq, CallRelease(k)
    PROVE  NameInv'
<1>1. at' = "unlist" /\ app' = appseq[k] /\ UNCHANGED <<dmn, appseq, root, ctxs>>
    BY DEF CallRelease, namingVars
<1>2. ListedReachable'
    BY <1>1 DEF NameInv, ListedReachable
<1> QED BY <1>1, <1>2 DEF NameInv, Building, Releasing

\* The list without its element k, as far as a reader of it can tell.
UnlistsAt(k) ==
    /\ k \in Nat /\ DOMAIN appseq' \subseteq Nat
    /\ \A j \in DOMAIN appseq' : \E i \in DOMAIN appseq \ {k} :
           appseq'[j] = appseq[i] /\ i = IF j < k THEN j ELSE j + 1
    /\ \A i \in DOMAIN appseq \ {k} : \E j \in DOMAIN appseq' : appseq'[j] = appseq[i]

LEMMA UnlistsOne ==
    ASSUME TypeInv, NameInv, Unlist
    PROVE  \E k \in DOMAIN appseq : appseq[k] = app /\ UnlistsAt(k)
<1>1. PICK k \in DOMAIN appseq : appseq[k] = app
    BY DEF Unlist, NameInv
<1>2. appseq \in Seq(Application) /\ DOMAIN appseq = 1 .. Len(appseq) /\ Len(appseq) \in Nat
    BY LenProperties DEF TypeInv, Types
<1>3. \A j \in DOMAIN appseq : appseq[j].name = app.name => j = k
    BY <1>1 DEF NameInv, ListedReachable
<1>4. appseq' = RemoveAt(appseq, k)
    BY <1>1, <1>3, UnlistEffect
<1>5. /\ appseq' \in Seq(Application) /\ Len(appseq') = Len(appseq) - 1
      /\ \A j \in 1 .. (Len(appseq) - 1) : appseq'[j] = IF j < k THEN appseq[j] ELSE appseq[j + 1]
    BY <1>1, <1>2, <1>4, RemoveAtElement
<1>6. DOMAIN appseq' = 1 .. (Len(appseq) - 1)
    BY <1>5, LenProperties
<1>7. ASSUME NEW j \in DOMAIN appseq'
      PROVE  \E i \in DOMAIN appseq \ {k} :
                 appseq'[j] = appseq[i] /\ i = IF j < k THEN j ELSE j + 1
    <2>1. j \in 1 .. Len(appseq) /\ j + 1 \in 1 .. Len(appseq) /\ k \in 1 .. Len(appseq)
        BY <1>1, <1>2, <1>6
    <2>2. CASE j < k
        BY <1>2, <1>5, <1>6, <2>1, <2>2
    <2>3. CASE ~(j < k)
        BY <1>2, <1>5, <1>6, <2>1, <2>3
    <2> QED BY <2>2, <2>3
<1>8. ASSUME NEW i \in DOMAIN appseq \ {k}
      PROVE  \E j \in DOMAIN appseq' : appseq'[j] = appseq[i]
    <2>1. CASE i < k
        <3>1. i \in 1 .. (Len(appseq) - 1)
            BY <1>1, <1>2, <2>1
        <3> QED BY <1>5, <1>6, <2>1, <3>1
    <2>2. CASE ~(i < k)
        <3>1. i - 1 \in 1 .. (Len(appseq) - 1) /\ ~(i - 1 < k) /\ (i - 1) + 1 = i
            BY <1>1, <1>2, <2>2
        <3>2. appseq'[i - 1] = appseq[(i - 1) + 1]
            BY <1>5, <3>1
        <3> QED BY <1>6, <3>1, <3>2
    <2> QED BY <2>1, <2>2
<1>9. k \in Nat /\ DOMAIN appseq' \subseteq Nat
    BY <1>1, <1>2, <1>6
<1> QED BY <1>1, <1>7, <1>8, <1>9 DEF UnlistsAt

\* The application that is released is the one that leaves the list, and no
\* other has its name.
LEMMA UnlistNames == TypeInv /\ NameInv /\ Unlist => NameInv'
<1> SUFFICES ASSUME TypeInv, NameInv, Unlist PROVE NameInv'
    OBVIOUS
<1>1. at = "unlist" /\ at' = "disconnect" /\ UNCHANGED <<dmn, app, root, ctxs>>
    BY DEF Unlist, GoTo, namingVars
<1>2. PICK k \in DOMAIN appseq : appseq[k] = app /\ UnlistsAt(k)
    BY UnlistsOne
<1>3. root[app.name] = app.ctx /\ ctxs[app.ctx].alive
    BY <1>2 DEF NameInv, ListedReachable
<1>4. ListedReachable'
    <2>1. \A j \in DOMAIN appseq' : root[appseq'[j].name] = appseq'[j].ctx /\ ctxs[appseq'[j].ctx].alive
        BY <1>2 DEF NameInv, ListedReachable, UnlistsAt
    <2>2. ASSUME NEW i \in DOMAIN appseq', NEW j \in DOMAIN appseq', appseq'[i].name = appseq'[j].name
          PROVE  i = j
        <3>1. PICK m \in DOMAIN appseq : appseq'[i] = appseq[m] /\ m = IF i < k THEN i ELSE i + 1
            BY <1>2 DEF UnlistsAt
        <3>2. PICK n \in DOMAIN appseq : appseq'[j] = appseq[n] /\ n = IF j < k THEN j ELSE j + 1
            BY <1>2 DEF UnlistsAt
        <3>3. m = n
            BY <2>2, <3>1, <3>2 DEF NameInv, ListedReachable
        <3>4. i \in Nat /\ j \in Nat /\ k \in Nat
            BY <1>2 DEF UnlistsAt
        <3> QED BY <3>1, <3>2, <3>3, <3>4
    <2> QED BY <1>1, <2>1, <2>2 DEF ListedReachable
<1>5. ~Listed(app.name)'
    BY <1>1, <1>2 DEF NameInv, ListedReachable, UnlistsAt, Listed
<1> QED BY <1>1, <1>3, <1>4, <1>5 DEF NameInv

LEMMA UnbindContextNames ==
    ASSUME TypeInv, NameInv, UnbindContext
    PROVE  NameInv' /\ UNCHANGED <<dmn, raised>> /\ GoTo("destroy", 1)
           /\ root' = [root EXCEPT ![app.name] = None]
<1>1. at = "unbind" /\ UNCHANGED <<appseq, ctxs>>
    BY DEF UnbindContext
<1>2. app.name \in Names /\ app.ctx \in DOMAIN ctxs /\ app.ctx # None
    <2>1. app.name \in Names /\ app.ctx \in DOMAIN ctxs
        BY <1>1, WorkingApp DEF Working, Releasing
    <2> QED BY <2>1, LenProperties, LifecycleBound DEF TypeInv, Types
<1>3. root[app.name] = app.ctx /\ ~Listed(app.name)
    BY <1>1 DEF NameInv, Releasing
<1>4. /\ UNCHANGED <<dmn, raised>> /\ GoTo("destroy", 1) /\ at' = "destroy" /\ app' = app
      /\ root' = [root EXCEPT ![app.name] = None]
    BY <1>2, <1>3 DEF UnbindContext, GoTo
<1>5. \A n \in Names : root'[n] = IF n = app.name THEN None ELSE root[n]
    BY <1>4 DEF TypeInv, Types
<1>6. ListedReachable'
    <2>1. \A k \in DOMAIN appseq : appseq[k].name \in Names /\ appseq[k].name # app.name
        BY <1>3, ListedType DEF Listed
    <2> QED BY <1>1, <1>5, <2>1 DEF NameInv, ListedReachable
<1>7. \A n \in Names : root'[n] # app.ctx
    BY <1>2, <1>3, <1>5 DEF NameInv
<1>8. \A m, n \in Names : root'[m] = root'[n] /\ root'[m] # None => m = n
    BY <1>5 DEF NameInv
<1> QED BY <1>2, <1>4, <1>5, <1>6, <1>7, <1>8 DEF NameInv, Building, Releasing

LEMMA DestroyContextNames == TypeInv /\ NameInv /\ DestroyContext => NameInv'
<1> SUFFICES ASSUME TypeInv, NameInv, DestroyContext PROVE NameInv'
    OBVIOUS
<1>1. /\ at = "destroy" /\ UNCHANGED <<appseq, root>>
      /\ \/ Abort("NotEmpty") /\ UNCHANGED ctxs
         \/ ctxs' = [ctxs EXCEPT ![app.ctx].alive = FALSE] /\ Idle /\ UNCHANGED dmn
    BY DEF DestroyContext
<1>2. CASE Abort("NotEmpty") /\ UNCHANGED ctxs
    BY <1>1, <1>2, NameStays DEF Abort, callVars
<1>3. CASE ctxs' = [ctxs EXCEPT ![app.ctx].alive = FALSE] /\ Idle /\ UNCHANGED dmn
    <2>1. \A y \in DOMAIN ctxs : ctxs'[y].alive = IF y = app.ctx THEN FALSE ELSE ctxs[y].alive
        BY <1>1, <1>3, DestroyEffect
    <2>2. \A k \in DOMAIN appseq : appseq[k].ctx \in DOMAIN ctxs /\ appseq[k].ctx # app.ctx
        <3>1. \A k \in DOMAIN appseq : appseq[k].name \in Names /\ appseq[k].ctx \in DOMAIN ctxs
            BY ListedType
        <3> QED BY <1>1, <3>1 DEF NameInv, ListedReachable
    <2>3. ListedReachable'
        BY <1>1, <2>1, <2>2 DEF NameInv, ListedReachable
    <2> QED BY <1>1, <1>3, <2>3 DEF NameInv, Idle, Building, Releasing
<1> QED BY <1>1, <1>2, <1>3

\* What every other step does to names, contexts and the list: nothing.
LEMMA NameSteps ==
    ASSUME TypeInv, NameInv,
           \/ RefuseName \/ VerifyDeviceAssignments \/ GetRegisteredDevices \/ Load \/ Execute
           \/ AwaitComponent \/ Connect \/ Disconnect \/ ReleaseResource \/ Unload \/ Terminate
    PROVE  NameInv'
<1>1. CASE RefuseName
    BY <1>1, NameStays DEF RefuseName, Raise, Idle, namingVars, NameInv
<1>2. CASE VerifyDeviceAssignments
    BY <1>2, NameStays
       DEF VerifyDeviceAssignments, Raise, Idle, GoTo, namingVars, NameInv, Named, Building
<1>3. CASE GetRegisteredDevices
    BY <1>3, NameStays DEF GetRegisteredDevices, GoTo, namingVars, NameInv, Named, Building
<1>4. CASE Load
    BY <1>4, NameStays DEF Load, Abort, callVars, GoTo, namingVars, NameInv, Named, Building
<1>5. CASE Execute
    <2>1. at = "execute" /\ UNCHANGED <<appseq, namingVars>>
          /\ \/ at' = at /\ app' = app /\ dmn' # "NotFound"
             \/ (Forks \/ ForksNot) /\ UNCHANGED dmn
        BY <1>5, ExecuteEffect DEF Abort, callVars, Forks, ForksNot
    <2>2. Forks \/ ForksNot => at' \in {"load", "await"} /\ app'.name = app.name /\ app'.ctx = app.ctx
        <3>1. app \in Application
            BY <2>1, WorkingApp DEF Working, Building
        <3>2. Forks => \E pids : AfterExecute(pids)
            BY DEF Forks
        <3>3. ForksNot => \E pids : AfterExecute(pids)
            BY DEF ForksNot
        <3>4. ASSUME NEW pids, AfterExecute(pids)
              PROVE  at' \in {"load", "await"} /\ app'.name = app.name /\ app'.ctx = app.ctx
            BY <3>1, <3>4 DEF AfterExecute, Application
        <3> QED BY <3>2, <3>3, <3>4
    <2> QED BY <2>1, <2>2, NameStays DEF namingVars, NameInv, Named, Building
<1>6. CASE AwaitComponent
    BY <1>6, NameStays DEF AwaitComponent, Raise, Idle, GoTo, namingVars, NameInv, Named, Building
<1>7. CASE Connect
    BY <1>7, ConnectEffect, NameStays DEF Raise, Idle, namingVars, NameInv, Named, Building
<1>8. CASE Disconnect
    BY <1>8, NameStays DEF Disconnect, Raise, Idle, GoTo, namingVars, NameInv, Named, Releasing
<1>9. CASE ReleaseResource
    BY <1>9, NameStays
       DEF ReleaseResource, AfterTerminate, Raise, Idle, GoTo, namingVars, NameInv, Named, Releasing
<1>10. CASE Unload
    BY <1>10, NameStays DEF Unload, Abort, callVars, GoTo, namingVars, NameInv, Named, Releasing
<1>11. CASE Terminate
    BY <1>11, NameStays
       DEF Terminate, AfterTerminate, Abort, callVars, GoTo, namingVars, NameInv, Named, Releasing
<1> QED BY <1>1, <1>2, <1>3, <1>4, <1>5, <1>6, <1>7, <1>8, <1>9, <1>10, <1>11

LEMMA ProcessNames ==
    ASSUME TypeInv, NameInv, NEW p \in Pids, ProcessStep(p) \/ Crash(p)
    PROVE  NameInv'
<1>1. /\ UNCHANGED <<at, app, dmn, appseq, root>> /\ DOMAIN ctxs' = DOMAIN ctxs
      /\ \A x \in DOMAIN ctxs : ctxs'[x].alive = ctxs[x].alive
    <2>1. CASE Bind(p)
        BY <2>1, BindEffect DEF domainVars, callVars, BoundIs
    <2>2. CASE Shutdown(p)
        BY <2>2, ShutdownEffect DEF domainVars, callVars, BoundIs
    <2>3. CASE Wait(p) \/ Crash(p)
        BY <2>3 DEF Wait, Crash, domainVars, callVars, namingVars
    <2> QED BY <2>1, <2>2, <2>3 DEF ProcessStep
<1> QED BY <1>1, NameStays DEF NameInv

LEMMA NameStep == TypeInv /\ NameInv /\ [Next]_vars => NameInv'
<1> SUFFICES ASSUME TypeInv, NameInv, [Next]_vars PROVE NameInv'
    OBVIOUS
<1>1. ASSUME UNCHANGED <<domainVars, namingVars>> PROVE NameInv'
    BY <1>1, NameStays DEF NameInv, domainVars, callVars, namingVars
<1>2. CASE UNCHANGED vars
    BY <1>1, <1>2 DEF vars
<1>3. CASE \E f \in Factories, name \in Names : \E a \in Assignments(f) : CallCreate(f, name, a)
    BY <1>3, NameStays DEF CallCreate, namingVars, NameInv
<1>4. CASE \E k \in DOMAIN appseq : CallRelease(k)
    BY <1>4, CallReleaseNames
<1>5. CASE DomainStep
    BY <1>5, BindContextNames, ListNames, UnlistNames, UnbindContextNames, DestroyContextNames,
       NameSteps DEF DomainStep
<1>6. CASE \E p \in DOMAIN procs : ProcessStep(p) \/ Crash(p)
    BY <1>6, ProcessNames DEF Pids
<1>7. CASE \E d \in Devices :
              \/ RegisterDevice(d)
              \/ \E s \in {"UNLOCKED", "LOCKED", "SHUTTING_DOWN"} : SetAdminState(d, s)
    BY <1>1, <1>7 DEF RegisterDevice, SetAdminState
<1> QED BY <1>2, <1>3, <1>4, <1>5, <1>6, <1>7 DEF Next

LEMMA NamesAlways == Spec => [](TypeInv /\ NameInv)
<1>1. Init => TypeInv /\ NameInv
    BY TypeInit, NameInit
<1>2. TypeInv /\ NameInv /\ [Next]_vars => (TypeInv /\ NameInv)'
    BY TypeStep, NameStep
<1> QED BY <1>1, <1>2, PTL DEF Spec

\* The applications the domain lists have names of their own, and each is
\* found under its name in a living context of its own, whatever else is
\* created, released or fails half way (Application_impl.cpp:222-300,
\* ApplicationFactory_impl.cpp:150-600).
THEOREM ListedReachableAlways == Spec => []ListedReachable
<1>1. TypeInv /\ NameInv => ListedReachable
    BY DEF NameInv
<1> QED BY <1>1, NamesAlways, PTL
=============================================================================
