--------------------------- MODULE AppRelease_proof ---------------------------
(***************************************************************************)
(* Theorems about the processes of the applications of AppLifecycle, for   *)
(* clients that create one application of a factory at a time (Exclusive). *)
(*                                                                         *)
(* A factory keeps what it knows of its components in one ComponentInfo    *)
(* per component, which all of its applications share.  With one           *)
(* application of a factory at a time, that information is the             *)
(* application's own; from this follow, in layers, which processes a       *)
(* release has come to (ReleaseInv), which are connected (ConnInv), how    *)
(* often their files are loaded (LoadInv) and what is left (LeftInv).      *)
(***************************************************************************)
EXTENDS AppLifecycle_proof

-----------------------------------------------------------------------------
(* The invariants.                                                         *)

\* The processes of an application are those its factory knows of.
Owns(a) ==
    /\ \A p \in Pids : procs[p].ctx = a.ctx =>
           LET c == procs[p].comp
           IN  /\ c \in ToSet(Comps[a.f])
               /\ info[c].deployed /\ info[c].pid = p /\ info[c].device = procs[p].dev
               /\ p \in ToSet(a.pids)
    /\ \A j \in DOMAIN a.pids : procs[a.pids[j]].ctx = a.ctx

Found(a, c) ==
    info[c].rsc \in Pids /\ procs[info[c].rsc].ctx = a.ctx /\ procs[info[c].rsc].comp = c
Complete(a) == Owns(a) /\ \A c \in ToSet(Comps[a.f]) : Found(a, c)

\* A name in a context is that of a process that runs, or has died.
BoundInv ==
    \A x \in DOMAIN ctxs, c \in Components :
        LET p == ctxs[x].bound[c]
        IN  p # None => /\ procs[p].ctx = x /\ procs[p].comp = c
                        /\ procs[p].st \in {"exited", "reaped"} => procs[p].crashed

OwnInv ==
    /\ BoundInv
    /\ \A k \in DOMAIN appseq :
           /\ Complete(appseq[k])
           /\ \A j \in DOMAIN appseq : appseq[j].f = appseq[k].f => j = k
           /\ at \in {"create"} \cup Building \cup Releasing => appseq[k].f # app.f
    /\ at \in Building => Owns(app)
    /\ at \in {"verify", "devices"} => \A p \in Pids : procs[p].ctx # app.ctx
    /\ at \in {"load", "execute"} => \A p \in Pids :
           procs[p].ctx = app.ctx => \E j \in 1 .. nth - 1 : procs[p].comp = Comps[app.f][j]
    /\ at = "await" => \A j \in 1 .. nth - 1 : Found(app, Comps[app.f][j])
    /\ at \in {"connect", "unlist"} \cup Releasing => Complete(app)

\* How far a release has come with the processes, one after the other.
Pid(j) == info[Comps[app.f][j]].pid
ReleaseInv ==
    /\ \A k \in DOMAIN appseq, p \in Pids : procs[p].ctx = appseq[k].ctx => ~procs[p].released
    /\ at \in {"unlist", "disconnect"} =>
           \A p \in Pids : procs[p].ctx = app.ctx => ~procs[p].released
    /\ at \in {"releaseObject", "unload", "terminate"} =>
           /\ \A j \in 1 .. nth - 1 : procs[Pid(j)].st = "reaped"
           /\ \A j \in nth .. Len(Comps[app.f]) :
                  (j > nth \/ at = "releaseObject") => ~procs[Pid(j)].released
    /\ at \in {"unbind", "destroy"} =>
           \A p \in Pids : procs[p].ctx = app.ctx => procs[p].st = "reaped"
    /\ dmn = "NotEmpty" => Died

\* Connections stay within an application, which keeps note of all of them.
Noted(a, first) ==
    \A p \in Pids : procs[p].ctx = a.ctx => \A l \in procs[p].conns :
        \E j \in first .. Len(a.links) : a.links[j].port = p /\ a.links[j].id = l.id
ConnInv ==
    /\ \A p \in Pids : \A l \in procs[p].conns : procs[l.to].ctx = procs[p].ctx
    /\ \A k \in DOMAIN appseq : Noted(appseq[k], 1)
    /\ at \in Building \cup {"unlist"} => Noted(app, 1)
    /\ at = "disconnect" => Noted(app, nth)
    /\ at \in Releasing \ {"disconnect"} =>
           \A p \in Pids : procs[p].ctx = app.ctx => procs[p].conns = {}
    /\ \A p, q \in Pids : procs[p].released /\ procs[q].ctx = procs[p].ctx => procs[q].conns = {}

\* A file is counted at least once for each process that is not released, and
\* for the one about to be executed or unloaded.
Using(d, x) ==
    {p \in Pids : procs[p].dev = d /\ File[procs[p].comp] = x /\ ~procs[p].released}
Pending(d, x) ==
    IF \/ at = "execute" /\ info[comp].assigned = d /\ File[comp] = x
       \/ at = "unload" /\ info[comp].device = d /\ File[comp] = x
    THEN 1 ELSE 0
LoadInv ==
    /\ \A d \in Devices, x \in Files :
           loadedFiles[d][x] >= Cardinality(Using(d, x)) + Pending(d, x)
    /\ dmn # "InvalidFileName"

\* What is there when no call has raised.
LeftInv ==
    ~raised =>
        /\ \A p \in Pids : procs[p].st # "reaped" =>
               \/ \E k \in DOMAIN appseq : procs[p].ctx = appseq[k].ctx
               \/ at \in Working /\ procs[p].ctx = app.ctx
        /\ \A n \in Names : root[n] # None => Listed(n) \/ (at \in Working /\ n = app.name)
        /\ \A x \in DOMAIN ctxs : ctxs[x].alive =>
               (\E n \in Names : root[n] = x) \/ (at = "destroy" /\ x = app.ctx)

-----------------------------------------------------------------------------
(* What belongs to whom.                                                   *)

LEMMA OtherComponents ==
    ASSUME NEW f \in Factories, NEW g \in Factories
    PROVE  /\ f # g => ToSet(Comps[f]) \cap ToSet(Comps[g]) = {}
           /\ \A i, j \in DOMAIN Comps[f] : Comps[f][i] = Comps[f][j] => i = j
           /\ Comps[f] \in Seq(Components) /\ DOMAIN Comps[f] = 1 .. Len(Comps[f])
           /\ Len(Comps[f]) \in Nat /\ DOMAIN Comps[f] \subseteq Nat
           /\ ToSet(Comps[f]) \subseteq Components
           /\ \A c \in ToSet(Comps[f]) : \E i \in DOMAIN Comps[f] : c = Comps[f][i]
           /\ \A i \in DOMAIN Comps[f] : Comps[f][i] \in ToSet(Comps[f])
<1>1. Comps[f] \in Seq(Components)
    BY AssemblyAssumption
<1>2. DOMAIN Comps[f] = 1 .. Len(Comps[f]) /\ Len(Comps[f]) \in Nat
    BY <1>1, LenProperties
<1>3. f # g => ToSet(Comps[f]) \cap ToSet(Comps[g]) = {}
    BY AssemblyAssumption DEF ToSet
<1>4. \A i, j \in DOMAIN Comps[f] : Comps[f][i] = Comps[f][j] => i = j
    BY AssemblyAssumption
<1>5. DOMAIN Comps[f] \subseteq Nat
    BY <1>2
<1>6. /\ \A c \in ToSet(Comps[f]) : \E i \in DOMAIN Comps[f] : c = Comps[f][i]
      /\ \A i \in DOMAIN Comps[f] : Comps[f][i] \in ToSet(Comps[f])
    BY DEF ToSet
<1>7. \A i \in DOMAIN Comps[f] : Comps[f][i] \in Components
    BY <1>1, <1>2, ElementOfSeq
<1>8. ToSet(Comps[f]) \subseteq Components
    BY <1>6, <1>7
<1> QED BY <1>1, <1>2, <1>3, <1>4, <1>5, <1>6, <1>8

\* No two applications share a context.
LEMMA OtherContexts ==
    ASSUME TypeInv, NameInv
    PROVE  /\ \A j, k \in DOMAIN appseq : appseq[j].ctx = appseq[k].ctx => j = k
           /\ at \in Building \cup Releasing => \A k \in DOMAIN appseq : appseq[k].ctx # app.ctx
<1>1. \A x \in DOMAIN ctxs : x # None
    BY LenProperties, LifecycleBound DEF TypeInv, Types
<1>2. ASSUME NEW j \in DOMAIN appseq, NEW k \in DOMAIN appseq, appseq[j].ctx = appseq[k].ctx
      PROVE  j = k
    <2>1. /\ appseq[j].name \in Names /\ appseq[k].name \in Names /\ appseq[k].ctx # None
          /\ root[appseq[j].name] = appseq[j].ctx /\ root[appseq[k].name] = appseq[k].ctx
        BY <1>1, ListedType DEF NameInv, ListedReachable
    <2>2. appseq[j].name = appseq[k].name
        BY <1>2, <2>1 DEF NameInv
    <2> QED BY <2>2 DEF NameInv, ListedReachable
<1>3. ASSUME at \in Building \cup Releasing, NEW k \in DOMAIN appseq
      PROVE  appseq[k].ctx # app.ctx
    <2>1. /\ appseq[k].name \in Names /\ appseq[k].ctx # None
          /\ root[appseq[k].name] = appseq[k].ctx /\ app.name \in Names
        BY <1>1, <1>3, ListedType, WorkingApp DEF NameInv, ListedReachable, Working
    <2>2. CASE at = "destroy"
        BY <2>1, <2>2 DEF NameInv
    <2>3. CASE at # "destroy"
        <3>1. root[app.name] = app.ctx /\ ~Listed(app.name)
            BY <1>3, <2>3 DEF NameInv
        <3>2. appseq[k].name # app.name
            BY <3>1 DEF Listed
        <3> QED BY <2>1, <3>1, <3>2 DEF NameInv
    <2> QED BY <2>2, <2>3
<1> QED BY <1>2, <1>3

\* A component whose process is known is executed, on that process's device.
LEMMA CompletePid ==
    ASSUME TypeInv, NEW a, Complete(a), NEW c \in ToSet(Comps[a.f])
    PROVE  /\ info[c].deployed /\ info[c].pid \in Pids /\ info[c].rsc = info[c].pid
           /\ procs[info[c].pid].ctx = a.ctx /\ procs[info[c].pid].comp = c
           /\ info[c].device = procs[info[c].pid].dev /\ info[c].device \in Devices
<1>1. Found(a, c) /\ Owns(a)
    BY DEF Complete
<1>2. info[c].deployed /\ info[c].pid = info[c].rsc /\ info[c].device = procs[info[c].rsc].dev
    BY <1>1 DEF Found, Owns
<1>3. procs[info[c].rsc].dev \in Devices
    BY <1>1, ProcType DEF Found, TypeInv, Proc
<1> QED BY <1>1, <1>2, <1>3 DEF Found

\* Processes end once, and are told what to do by nobody but the processes
\* of their application.
Lasting ==
    /\ Pids \subseteq Pids'
    /\ \A p \in Pids : /\ procs'[p].comp = procs[p].comp /\ procs'[p].dev = procs[p].dev
                       /\ procs'[p].ctx = procs[p].ctx
                       /\ procs[p].crashed => procs'[p].crashed
                       /\ procs[p].st = "reaped" => procs'[p].st = "reaped"

\* The application, the step and what is known of it stay, but for the devices
\* that were assigned.
Unhurt ==
    /\ Pids' = Pids /\ Lasting /\ UNCHANGED appseq
    /\ \A c \in Components : /\ info'[c].deployed = info[c].deployed /\ info'[c].pid = info[c].pid
                             /\ info'[c].device = info[c].device /\ info'[c].rsc = info[c].rsc

LEMMA UnhurtOwns ==
    ASSUME TypeInv, Unhurt, NEW a, a.f \in Factories, \A j \in DOMAIN a.pids : a.pids[j] \in Pids
    PROVE  /\ Owns(a) => Owns(a)'
           /\ \A c \in Components : Found(a, c) => Found(a, c)'
           /\ Complete(a) => Complete(a)'
<1>1. ToSet(Comps[a.f]) \subseteq Components
    BY OtherComponents
<1>2. Owns(a) => Owns(a)'
    BY <1>1 DEF Unhurt, Lasting, Owns
<1>3. \A c \in Components : Found(a, c) => Found(a, c)'
    BY DEF Unhurt, Lasting, Found
<1> QED BY <1>1, <1>2, <1>3 DEF Complete

-----------------------------------------------------------------------------
(* Whose processes are whose.                                              *)

LEMMA OwnInit == Init => OwnInv
    BY DEF Init, OwnInv, BoundInv, Building, Releasing

\* What a step that starts no process, binds no name and learns nothing of a
\* component must keep to.
LEMMA OwnStays ==
    ASSUME TypeInv, OwnInv, Unhurt, BoundInv',
           \/ at' = "idle"
           \/ /\ app'.f = app.f /\ app'.ctx = app.ctx /\ app'.pids = app.pids
              /\ \/ at' = at /\ nth' = nth
                 \/ at = "create" /\ at' = "create"
                 \/ at = "verify" /\ at' = "devices"
                 \/ at = "devices" /\ at' = "load" /\ nth' = 1
                 \/ at = "load" /\ at' = "execute" /\ nth' = nth
                 \/ at = "connect" /\ at' = "connect"
                 \/ at \in Releasing /\ at' \in Releasing
    PROVE  OwnInv'
<1>1. \A k \in DOMAIN appseq : Complete(appseq[k])'
    <2>1. ASSUME NEW k \in DOMAIN appseq PROVE Complete(appseq[k])'
        <3>1. PICK a : a = appseq[k]
            OBVIOUS
        <3>2. Complete(a) /\ a.f \in Factories /\ \A j \in DOMAIN a.pids : a.pids[j] \in Pids
            BY <3>1, ListedType DEF OwnInv, AppMade
        <3>3. Complete(a)'
            BY <3>2, UnhurtOwns
        <3> QED BY <3>1, <3>3 DEF Unhurt, Complete, Owns, Found
    <2> QED BY <2>1
<1>2. /\ at \in Working => /\ app.f \in Factories /\ \A j \in DOMAIN app.pids : app.pids[j] \in Pids
                           /\ ToSet(Comps[app.f]) \subseteq Components
    BY WorkingApp DEF AppMade
<1>3. at' \in Building => Owns(app)'
    <2>1. ASSUME at' \in Building PROVE Owns(app)'
        <3>1. PICK a : a = app
            OBVIOUS
        <3>2. at \in Building
            BY <2>1 DEF Building, Releasing
        <3>3. Owns(a) /\ a.f \in Factories /\ \A j \in DOMAIN a.pids : a.pids[j] \in Pids
            BY <1>2, <3>1, <3>2 DEF OwnInv, Working
        <3>4. Owns(a)'
            BY <3>3, UnhurtOwns
        <3> QED BY <2>1, <3>1, <3>4 DEF Owns, Building
    <2> QED BY <2>1
<1>4. at' \in {"connect", "unlist"} \cup Releasing => Complete(app)'
    <2>1. ASSUME at' \in {"connect", "unlist"} \cup Releasing PROVE Complete(app)'
        <3>1. PICK a : a = app
            OBVIOUS
        <3>2. at \in {"connect", "unlist"} \cup Releasing
            BY <2>1 DEF Releasing
        <3>3. Complete(a) /\ a.f \in Factories /\ \A j \in DOMAIN a.pids : a.pids[j] \in Pids
            BY <1>2, <3>1, <3>2 DEF OwnInv, Working, Building
        <3>4. Complete(a)'
            BY <3>3, UnhurtOwns
        <3> QED BY <2>1, <3>1, <3>4 DEF Complete, Owns, Found, Releasing
    <2> QED BY <2>1
<1>5. at' \in {"verify", "devices"} => \A p \in Pids' : procs'[p].ctx # app'.ctx
    BY DEF OwnInv, Unhurt, Lasting, Releasing
<1>6. at' \in {"load", "execute"} => \A p \in Pids' :
           procs'[p].ctx = app'.ctx => \E j \in 1 .. nth' - 1 : procs'[p].comp = Comps[app'.f][j]
    BY DEF OwnInv, Unhurt, Lasting, Releasing
<1>7. at' = "await" => \A j \in 1 .. nth' - 1 : Found(app, Comps[app.f][j])'
    <2>1. ASSUME at' = "await", NEW j \in 1 .. nth' - 1 PROVE Found(app, Comps[app.f][j])'
        <3>1. at = "await" /\ nth' = nth /\ app'.f = app.f /\ app'.ctx = app.ctx
            BY <2>1 DEF Releasing
        <3>2. Found(app, Comps[app.f][j])
            BY <2>1, <3>1 DEF OwnInv
        <3>3. Comps[app.f][j] \in Components
            <4>1. nth \in DOMAIN Comps[app.f] /\ app.f \in Factories /\ nth \in Nat
                BY <3>1, CompType DEF ComponentSteps, TypeInv, Types
            <4>2. j \in DOMAIN Comps[app.f]
                BY <2>1, <3>1, <4>1, OtherComponents
            <4> QED BY <4>1, <4>2, OtherComponents
        <3> QED BY <3>1, <3>2, <3>3 DEF Found, Unhurt, Lasting
    <2> QED BY <2>1
<1>8. \A k \in DOMAIN appseq' :
          /\ \A j \in DOMAIN appseq' : appseq'[j].f = appseq'[k].f => j = k
          /\ at' \in {"create"} \cup Building \cup Releasing => appseq'[k].f # app'.f
    BY DEF OwnInv, Unhurt, Building, Releasing
<1> QED BY <1>1, <1>3, <1>4, <1>5, <1>6, <1>7, <1>8 DEF OwnInv, Unhurt, Building

LEMMA BoundStays ==
    ASSUME TypeInv, BoundInv, Lasting,
           \A x \in DOMAIN ctxs', c \in Components :
               ctxs'[x].bound[c] # None => x \in DOMAIN ctxs /\ ctxs'[x].bound[c] = ctxs[x].bound[c],
           \A p \in Pids : procs'[p].st \in {"exited", "reaped"} =>
               procs'[p].crashed \/ procs[p].st \in {"exited", "reaped"}
    PROVE  BoundInv'
<1> SUFFICES ASSUME NEW x \in DOMAIN ctxs', NEW c \in Components, ctxs'[x].bound[c] # None
             PROVE  LET p == ctxs'[x].bound[c]
                    IN  /\ procs'[p].ctx = x /\ procs'[p].comp = c
                        /\ procs'[p].st \in {"exited", "reaped"} => procs'[p].crashed
    BY DEF BoundInv
<1> DEFINE p == ctxs[x].bound[c]
<1>1. x \in DOMAIN ctxs /\ ctxs'[x].bound[c] = p /\ p # None
    OBVIOUS
<1>2. /\ p \in Pids /\ procs[p].ctx = x /\ procs[p].comp = c
      /\ procs[p].st \in {"exited", "reaped"} => procs[p].crashed
    BY <1>1 DEF BoundInv, TypeInv, Made
<1> HIDE DEF p
<1>3. /\ procs'[p].ctx = x /\ procs'[p].comp = c
      /\ procs[p].crashed => procs'[p].crashed
    BY <1>2 DEF Lasting
<1>4. procs'[p].st \in {"exited", "reaped"} => procs'[p].crashed
    BY <1>2, <1>3
<1> QED BY <1>1, <1>3, <1>4

\* A step that changes neither processes nor contexts nor the components.
LEMMA StillOwn ==
    ASSUME TypeInv, OwnInv, UNCHANGED <<appseq, procs, ctxs>>,
           \A c \in Components : /\ info'[c].deployed = info[c].deployed /\ info'[c].pid = info[c].pid
                                 /\ info'[c].device = info[c].device /\ info'[c].rsc = info[c].rsc
    PROVE  Unhurt /\ BoundInv'
<1>1. Lasting
    BY DEF Lasting, Pids
<1>2. BoundInv'
    BY <1>1, BoundStays DEF OwnInv
<1> QED BY <1>1, <1>2 DEF Unhurt, Pids

LEMMA CallCreateOwn ==
    ASSUME Exclusive, TypeInv, OwnInv, NEW f \in Factories, NEW name \in Names,
           NEW a \in Assignments(f), CallCreate(f, name, a)
    PROVE  OwnInv'
<1>1. /\ at = "idle" /\ at' = "create" /\ app' = App(f, name, None, << >>, << >>) /\ app'.f = f
      /\ UNCHANGED <<appseq, procs, ctxs, info>> /\ \A k \in DOMAIN appseq : appseq[k].f # f
    BY DEF CallCreate, App, namingVars
<1>2. OwnInv => \A k \in DOMAIN appseq : Complete(appseq[k])'
    BY <1>1 DEF OwnInv, Complete, Owns, Found, Pids
<1>3. BoundInv'
    BY <1>1, StillOwn
<1> QED BY <1>1, <1>2, <1>3 DEF OwnInv, Building, Releasing

LEMMA BindContextOwn == TypeInv /\ NameInv /\ OwnInv /\ BindContext => OwnInv'
<1> SUFFICES ASSUME TypeInv, NameInv, OwnInv, BindContext PROVE OwnInv'
    OBVIOUS
<1>1. CASE root[app.name] # None
    <2>1. Abort("AlreadyBound") /\ UNCHANGED <<appseq, procs, ctxs, info>>
        BY <1>1 DEF BindContext, namingVars
    <2> QED BY <2>1, StillOwn, OwnStays DEF Abort, callVars
<1>2. CASE root[app.name] = None
    <2> DEFINE x == Len(ctxs) + 1
    <2>1. /\ x \notin DOMAIN ctxs /\ DOMAIN ctxs' = DOMAIN ctxs \cup {x}
          /\ \A y \in DOMAIN ctxs : ctxs'[y] = ctxs[y]
          /\ \A c \in Components : ctxs'[x].bound[c] = None
          /\ app' = App(app.f, app.name, x, << >>, << >>)
        BY <1>2, BindContextEffect
    <2>2. at = "create" /\ at' = "verify" /\ UNCHANGED <<appseq, procs, info>>
        BY <1>2 DEF BindContext
    <2> HIDE DEF x
    <2>3. app'.f = app.f /\ app'.ctx = x /\ app'.pids = << >>
        BY <2>1 DEF App
    <2>4. \A p \in Pids : procs[p].ctx # x
        BY <2>1 DEF TypeInv, Made
    <2>5. Lasting /\ Pids' = Pids
        BY <2>2 DEF Lasting, Pids
    <2>6. BoundInv'
        BY <2>1, <2>2, <2>5, BoundStays DEF OwnInv
    <2>7. \A k \in DOMAIN appseq : Complete(appseq[k])'
        BY <2>2 DEF OwnInv, Complete, Owns, Found, Pids
    <2>8. Owns(app)' /\ \A p \in Pids' : procs'[p].ctx # app'.ctx
        BY <2>2, <2>3, <2>4, <2>5 DEF Owns
    <2> QED BY <2>2, <2>3, <2>6, <2>7, <2>8 DEF OwnInv, Building, Releasing
<1> QED BY <1>1, <1>2

LEMMA ListOwn == TypeInv /\ NameInv /\ OwnInv /\ ListApplication => OwnInv'
<1> SUFFICES ASSUME TypeInv, NameInv, OwnInv, ListApplication PROVE OwnInv'
    OBVIOUS
<1>1. at = "connect" /\ at' = "idle" /\ UNCHANGED <<info, procs, ctxs>>
    BY DEF ListApplication, Idle, namingVars
<1>2. Pids' = Pids /\ BoundInv'
    <2>1. Lasting /\ Pids' = Pids
        BY <1>1 DEF Lasting, Pids
    <2> QED BY <1>1, <2>1, BoundStays DEF OwnInv
<1>3. ASSUME NEW k \in DOMAIN appseq' PROVE Complete(appseq[k])'
    <2>1. PICK a : a = appseq'[k]
        OBVIOUS
    <2>2. Complete(a)
        BY <1>1, <2>1, ListEffect DEF OwnInv
    <2>3. Complete(a)'
        BY <1>1, <1>2, <2>2 DEF Complete, Owns, Found
    <2> QED BY <2>1, <2>3 DEF Complete, Owns, Found
<1>4. \A j, k \in DOMAIN appseq' : appseq'[j].f = appseq'[k].f => j = k
    BY ListEffect DEF OwnInv, Building
<1> QED BY <1>1, <1>2, <1>3, <1>4 DEF OwnInv, Building, Releasing

LEMMA CallReleaseOwn ==
    ASSUME TypeInv, OwnInv, NEW k \in DOMAIN appseq, CallRelease(k)
    PROVE  OwnInv'
<1>1. at' = "unlist" /\ app' = appseq[k] /\ UNCHANGED <<appseq, info, procs, ctxs>>
    BY DEF CallRelease, namingVars
<1>2. \A j \in DOMAIN appseq : Complete(appseq[j])'
    BY <1>1 DEF OwnInv, Complete, Owns, Found, Pids
<1>3. BoundInv'
    BY <1>1, StillOwn
<1> QED BY <1>1, <1>2, <1>3 DEF OwnInv, Building, Releasing, Complete, Owns, Found

LEMMA UnlistOwn == TypeInv /\ NameInv /\ OwnInv /\ Unlist => OwnInv'
<1> SUFFICES ASSUME TypeInv, NameInv, OwnInv, Unlist PROVE OwnInv'
    OBVIOUS
<1>1. at = "unlist" /\ at' = "disconnect" /\ UNCHANGED <<app, info, procs, ctxs>>
    BY DEF Unlist, GoTo, namingVars
<1>2. PICK k \in DOMAIN appseq : appseq[k] = app /\ UnlistsAt(k)
    BY UnlistsOne
<1>3. Pids' = Pids /\ BoundInv'
    <2>1. Lasting /\ Pids' = Pids
        BY <1>1 DEF Lasting, Pids
    <2> QED BY <1>1, <2>1, BoundStays DEF OwnInv
<1>4. ASSUME NEW j \in DOMAIN appseq' PROVE Complete(appseq[j])' /\ appseq'[j].f # app.f
    <2>1. PICK i \in DOMAIN appseq \ {k} : appseq'[j] = appseq[i]
        BY <1>2 DEF UnlistsAt
    <2>2. Complete(appseq[i]) /\ appseq[i].f # app.f
        BY <1>2, <2>1 DEF OwnInv
    <2> QED BY <1>1, <1>3, <2>1, <2>2 DEF Complete, Owns, Found
<1>5. \A i, j \in DOMAIN appseq' : appseq'[i].f = appseq'[j].f => i = j
    <2>1. ASSUME NEW i \in DOMAIN appseq', NEW j \in DOMAIN appseq', appseq'[i].f = appseq'[j].f
          PROVE  i = j
        <3>1. PICK m \in DOMAIN appseq : appseq'[i] = appseq[m] /\ m = IF i < k THEN i ELSE i + 1
            BY <1>2 DEF UnlistsAt
        <3>2. PICK n \in DOMAIN appseq : appseq'[j] = appseq[n] /\ n = IF j < k THEN j ELSE j + 1
            BY <1>2 DEF UnlistsAt
        <3>3. m = n
            BY <2>1, <3>1, <3>2 DEF OwnInv
        <3>4. i \in Nat /\ j \in Nat /\ k \in Nat
            BY <1>2 DEF UnlistsAt
        <3> QED BY <3>1, <3>2, <3>3, <3>4
    <2> QED BY <2>1
<1>6. Complete(app)'
    BY <1>1, <1>3 DEF OwnInv, Complete, Owns, Found
<1> QED BY <1>1, <1>3, <1>4, <1>5, <1>6 DEF OwnInv, Building, Releasing

LEMMA StillSteps ==
    ASSUME TypeInv, OwnInv,
           \/ RefuseName \/ VerifyDeviceAssignments \/ GetRegisteredDevices \/ Load
           \/ Unload \/ UnbindContext
    PROVE  OwnInv'
<1>1. CASE RefuseName
    BY <1>1, StillOwn, OwnStays DEF RefuseName, Raise, Idle, namingVars
<1>2. CASE VerifyDeviceAssignments
    <2>1. Unhurt /\ BoundInv'
        BY <1>2, VerifyEffect, StillOwn DEF VerifyDeviceAssignments, namingVars
    <2> QED BY <1>2, <2>1, OwnStays DEF VerifyDeviceAssignments, Raise, Idle, GoTo
<1>3. CASE GetRegisteredDevices
    BY <1>3, StillOwn, OwnStays DEF GetRegisteredDevices, GoTo, namingVars
<1>4. CASE Load
    BY <1>4, StillOwn, OwnStays DEF Load, Abort, callVars, GoTo, namingVars
<1>5. CASE Unload
    BY <1>5, StillOwn, OwnStays DEF Unload, Abort, callVars, GoTo, namingVars, Releasing
<1>6. CASE UnbindContext
    BY <1>6, StillOwn, OwnStays DEF UnbindContext, Abort, callVars, GoTo, Releasing
<1> QED BY <1>1, <1>2, <1>3, <1>4, <1>5, <1>6

LEMMA ExecuteOwn == TypeInv /\ NameInv /\ OwnInv /\ Execute => OwnInv'
<1> SUFFICES ASSUME TypeInv, NameInv, OwnInv, Execute PROVE OwnInv'
    OBVIOUS
<1> DEFINE d == info[comp].assigned
           pid == Len(procs) + 1
<1>1. /\ at = "execute" /\ UNCHANGED <<appseq, ctxs>>
      /\ \/ (Abort("InvalidState") \/ Abort("InvalidFileName")) /\ UNCHANGED <<info, procs>>
         \/ Forks
         \/ ForksNot
    BY ExecuteEffect DEF namingVars
<1>2. /\ app \in Application /\ AppMade(app) /\ app.f \in Factories /\ nth \in DOMAIN Comps[app.f]
      /\ comp = Comps[app.f][nth] /\ comp \in ToSet(Comps[app.f]) /\ nth \in Nat
      /\ app.pids \in Seq(Nat)
    BY <1>1, CompType DEF ComponentSteps, comp, TypeInv, Types, Application
<1>3. /\ Owns(app) /\ \A k \in DOMAIN appseq : Complete(appseq[k]) /\ appseq[k].f # app.f
      /\ \A p \in Pids : procs[p].ctx = app.ctx => \E j \in 1 .. nth - 1 : procs[p].comp = Comps[app.f][j]
    BY <1>1 DEF OwnInv, Building
<1>4. CASE (Abort("InvalidState") \/ Abort("InvalidFileName")) /\ UNCHANGED <<info, procs>>
    BY <1>1, <1>4, StillOwn, OwnStays DEF Abort, callVars
<1>5. ASSUME NEW pids \in Seq(Nat), AfterExecute(pids), Pids \subseteq Pids',
             \A p \in Pids' : /\ p \in Pids => procs'[p].ctx = procs[p].ctx /\ procs'[p].comp = procs[p].comp
                              /\ p \notin Pids => procs'[p].comp = comp,
             BoundInv', \A k \in DOMAIN appseq : Complete(appseq[k])',
             app'.pids = pids => Owns(app)'
      PROVE  OwnInv'
    <2>1. /\ app'.f = app.f /\ app'.ctx = app.ctx /\ app'.pids = pids
          /\ \/ at' = "load" /\ nth' = nth + 1
             \/ at' = "await" /\ nth' = 1
        BY <1>1, <1>5, AfterExecuteEffect
    <2>2. at' = "load" => \A p \in Pids' :
              procs'[p].ctx = app'.ctx => \E j \in 1 .. nth' - 1 : procs'[p].comp = Comps[app'.f][j]
        <3>1. ASSUME at' = "load" PROVE 1 .. nth - 1 \subseteq 1 .. nth' - 1 /\ nth \in 1 .. nth' - 1
            <4>1. nth >= 1
                BY <1>2, OtherComponents
            <4> QED BY <1>2, <2>1, <3>1, <4>1
        <3> QED BY <1>2, <1>3, <1>5, <2>1, <3>1
    <2>3. at' = "await" => 1 .. nth' - 1 = {}
        BY <2>1
    <2> QED BY <1>1, <1>3, <1>5, <2>1, <2>2, <2>3 DEF OwnInv, Building, Releasing
<1>6. CASE ForksNot
    <2>1. AfterExecute(app.pids) /\ UNCHANGED <<info, procs>>
        BY <1>6 DEF ForksNot
    <2>2. Unhurt /\ BoundInv' /\ Pids' = Pids
        BY <1>1, <2>1, StillOwn DEF Unhurt
    <2>3. \A k \in DOMAIN appseq : Complete(appseq[k])'
        BY <1>1, <1>3, <2>1, <2>2 DEF Complete, Owns, Found
    <2>4. Owns(app)'
        <3>1. app'.f = app.f /\ app'.ctx = app.ctx /\ app'.pids = app.pids
            BY <1>1, <1>2, <2>1, AfterExecuteEffect
        <3> QED BY <1>3, <2>1, <2>2, <3>1 DEF Owns
    <2> QED BY <1>2, <1>5, <2>1, <2>2, <2>3, <2>4
<1>7. CASE Forks
    <2>1. /\ pid \in Nat /\ pid \notin Pids /\ Pids' = Pids \cup {pid}
          /\ \A q \in Pids : procs'[q] = procs[q]
          /\ procs'[pid].comp = comp /\ procs'[pid].dev = d /\ procs'[pid].ctx = app.ctx
          /\ InfoIs(comp, TRUE, pid, d, info[comp].rsc)
          /\ AfterExecute(Append(app.pids, pid))
        BY <1>7 DEF Forks
    <2> HIDE DEF pid, d
    <2>2. Lasting
        BY <2>1 DEF Lasting
    <2>3. BoundInv'
        BY <1>1, <2>1, <2>2, BoundStays DEF OwnInv
    <2>4. ASSUME NEW k \in DOMAIN appseq PROVE Complete(appseq[k])'
        <3>1. appseq[k].f \in Factories /\ appseq[k].f # app.f /\ appseq[k].ctx # app.ctx
            BY <1>1, <1>3, ListedType, OtherContexts DEF Building
        <3>2. \A c \in ToSet(Comps[appseq[k].f]) : info'[c] = info[c]
            <4>1. ToSet(Comps[appseq[k].f]) \cap ToSet(Comps[app.f]) = {}
                BY <1>2, <3>1, OtherComponents
            <4>2. ToSet(Comps[appseq[k].f]) \subseteq Components
                BY <3>1, OtherComponents
            <4> QED BY <1>2, <2>1, <4>1, <4>2 DEF InfoIs
        <3>3. appseq' = appseq /\ AppMade(appseq[k])
            BY <1>1, ListedType
        <3> QED BY <1>3, <2>1, <3>1, <3>2, <3>3 DEF Complete, Owns, Found, AppMade
    <2>5. app'.pids = Append(app.pids, pid) => Owns(app)'
        <3> SUFFICES ASSUME app'.pids = Append(app.pids, pid) PROVE Owns(app)'
            OBVIOUS
        <3>1. app'.f = app.f /\ app'.ctx = app.ctx /\ Append(app.pids, pid) \in Seq(Nat)
            BY <1>1, <1>2, <2>1, AppendProperties, AfterExecuteEffect
        <3>2. /\ Len(Append(app.pids, pid)) = Len(app.pids) + 1
              /\ \A j \in 1 .. Len(app.pids) : Append(app.pids, pid)[j] = app.pids[j]
              /\ Append(app.pids, pid)[Len(app.pids) + 1] = pid
            BY <1>2, <2>1, AppendProperties
        <3>3. /\ DOMAIN app.pids = 1 .. Len(app.pids) /\ Len(app.pids) \in Nat
              /\ DOMAIN Append(app.pids, pid) = 1 .. Len(Append(app.pids, pid))
            BY <1>2, <3>1, LenProperties
        <3>4. /\ \A j \in DOMAIN Append(app.pids, pid) :
                     Append(app.pids, pid)[j] = pid \/ Append(app.pids, pid)[j] \in ToSet(app.pids)
              /\ pid \in ToSet(Append(app.pids, pid))
              /\ ToSet(app.pids) \subseteq ToSet(Append(app.pids, pid))
            BY <3>2, <3>3 DEF ToSet
        <3>5. \A q \in ToSet(app.pids) : q \in Pids /\ procs[q].ctx = app.ctx
            BY <1>2, <1>3 DEF Owns, AppMade, ToSet
        <3>6. \A j \in DOMAIN app'.pids : procs'[app'.pids[j]].ctx = app'.ctx
            BY <2>1, <3>1, <3>4, <3>5
        <3>7. ASSUME NEW p \in Pids, procs[p].ctx = app.ctx
              PROVE  /\ procs[p].comp \in ToSet(Comps[app.f]) /\ info'[procs[p].comp] = info[procs[p].comp]
            <4>1. PICK j \in 1 .. nth - 1 : procs[p].comp = Comps[app.f][j]
                BY <1>3, <3>7
            <4>2. j \in DOMAIN Comps[app.f] /\ j # nth
                BY <1>2, OtherComponents
            <4>3. procs[p].comp # comp /\ procs[p].comp \in Components
                BY <1>2, <4>1, <4>2, OtherComponents
            <4> QED BY <1>2, <2>1, <4>1, <4>2, <4>3, OtherComponents DEF InfoIs
        <3>8. ASSUME NEW p \in Pids', procs'[p].ctx = app.ctx
              PROVE  LET c == procs'[p].comp
                     IN  /\ c \in ToSet(Comps[app.f])
                         /\ info'[c].deployed /\ info'[c].pid = p /\ info'[c].device = procs'[p].dev
                         /\ p \in ToSet(Append(app.pids, pid))
            <4>1. CASE p = pid
                BY <1>2, <2>1, <3>4, <4>1 DEF InfoIs
            <4>2. CASE p \in Pids
                <5>1. /\ procs[p].ctx = app.ctx /\ procs'[p] = procs[p]
                      /\ info'[procs[p].comp] = info[procs[p].comp]
                    BY <2>1, <3>7, <3>8, <4>2
                <5> QED BY <1>3, <3>4, <4>2, <5>1 DEF Owns
            <4> QED BY <2>1, <4>1, <4>2
        <3> QED BY <3>1, <3>6, <3>8 DEF Owns
    <2>6. Append(app.pids, pid) \in Seq(Nat)
        BY <1>2, <2>1, AppendProperties
    <2> QED BY <1>5, <2>1, <2>3, <2>4, <2>5, <2>6
<1> QED BY <1>1, <1>4, <1>6, <1>7

\* A component is found by its name, which its own process has bound.
LEMMA AwaitOwn == TypeInv /\ NameInv /\ OwnInv /\ AwaitComponent => OwnInv'
<1> SUFFICES ASSUME TypeInv, NameInv, OwnInv, AwaitComponent PROVE OwnInv'
    OBVIOUS
<1> DEFINE q == ctxs[app.ctx].bound[comp]
<1>1. /\ at = "await" /\ q # None /\ UNCHANGED <<appseq, procs, ctxs>>
      /\ \/ nth < Len(Comps[app.f]) /\ GoTo("await", nth + 1)
         \/ ~(nth < Len(Comps[app.f])) /\ GoTo("connect", Len(Conns[app.f]))
         \/ Idle
    BY DEF AwaitComponent, Raise, namingVars
<1>2. /\ q \in Pids /\ comp \in Components
      /\ InfoIs(comp, info[comp].deployed, info[comp].pid, info[comp].device, q)
    BY AwaitEffect
<1>3. /\ app.f \in Factories /\ nth \in DOMAIN Comps[app.f] /\ app.ctx \in DOMAIN ctxs
      /\ comp = Comps[app.f][nth] /\ comp \in ToSet(Comps[app.f]) /\ nth \in Nat
    BY <1>1, CompType DEF ComponentSteps, comp, TypeInv, Types
<1>4. procs[q].ctx = app.ctx /\ procs[q].comp = comp
    <2>1. q # None /\ app.ctx \in DOMAIN ctxs /\ comp \in Components
        BY <1>1, <1>2, <1>3
    <2>2. BoundInv
        BY DEF OwnInv
    <2> QED BY <2>1, <2>2 DEF BoundInv
<1> HIDE DEF q
<1>5. Pids' = Pids /\ BoundInv'
    <2>1. Lasting /\ Pids' = Pids
        BY <1>1 DEF Lasting, Pids
    <2> QED BY <1>1, <2>1, BoundStays DEF OwnInv
<1>6. /\ \A c \in Components : /\ info'[c].deployed = info[c].deployed /\ info'[c].pid = info[c].pid
                               /\ info'[c].device = info[c].device
                               /\ c # comp => info'[c].rsc = info[c].rsc
      /\ info'[comp].rsc = q
    BY <1>2 DEF InfoIs
<1>7. ASSUME NEW k \in DOMAIN appseq PROVE Complete(appseq[k])'
    <2>1. Complete(appseq[k]) /\ appseq[k].f \in Factories /\ appseq[k].f # app.f
        BY <1>1, ListedType DEF OwnInv, Building
    <2>2. ToSet(Comps[appseq[k].f]) \cap ToSet(Comps[app.f]) = {}
        BY <1>3, <2>1, OtherComponents
    <2>3. ToSet(Comps[appseq[k].f]) \subseteq Components
        BY <2>1, OtherComponents
    <2>4. comp \notin ToSet(Comps[appseq[k].f])
        BY <1>3, <2>2
    <2> QED BY <1>1, <1>5, <1>6, <2>1, <2>3, <2>4 DEF Complete, Owns, Found
<1>8. app' = app => Owns(app)'
    <2>1. ToSet(Comps[app.f]) \subseteq Components
        BY <1>3, OtherComponents
    <2> QED BY <1>1, <1>5, <1>6, <2>1 DEF OwnInv, Owns, Building
<1>9. \A j \in 1 .. nth : j \in DOMAIN Comps[app.f] /\ (j \in 1 .. nth - 1 \/ j = nth)
    BY <1>3, OtherComponents
<1>10. app' = app => \A j \in 1 .. nth : Found(app, Comps[app.f][j])'
    <2>1. ASSUME app' = app, NEW j \in 1 .. nth PROVE Found(app, Comps[app.f][j])'
        <3>1. j \in DOMAIN Comps[app.f] /\ Comps[app.f][j] \in Components
            BY <1>3, <1>9, OtherComponents
        <3>2. CASE j = nth
            BY <1>1, <1>3, <1>4, <1>5, <1>2, <1>6, <2>1, <3>2 DEF Found
        <3>3. CASE j # nth
            <4>1. Comps[app.f][j] # comp
                BY <1>3, <3>1, <3>3, OtherComponents
            <4>2. Found(app, Comps[app.f][j])
                BY <1>1, <1>9, <3>3 DEF OwnInv
            <4> QED BY <1>1, <1>5, <1>6, <2>1, <3>1, <4>1, <4>2 DEF Found
        <3> QED BY <3>2, <3>3
    <2> QED BY <2>1
<1>11. CASE nth < Len(Comps[app.f]) /\ GoTo("await", nth + 1)
    <2>1. at' = "await" /\ app' = app /\ nth' - 1 = nth
        BY <1>3, <1>11 DEF GoTo
    <2> QED BY <1>1, <1>5, <1>7, <1>8, <1>10, <2>1 DEF OwnInv, Building, Releasing
<1>12. CASE ~(nth < Len(Comps[app.f])) /\ GoTo("connect", Len(Conns[app.f]))
    <2>1. at' = "connect" /\ app' = app /\ nth = Len(Comps[app.f])
        BY <1>3, <1>12, OtherComponents DEF GoTo
    <2>2. Complete(app)'
        <3>1. \A c \in ToSet(Comps[app.f]) : \E i \in 1 .. nth : c = Comps[app.f][i]
            <4>1. DOMAIN Comps[app.f] = 1 .. nth
                BY <1>3, <2>1, OtherComponents
            <4> QED BY <4>1 DEF ToSet
        <3>2. ASSUME NEW c \in ToSet(Comps[app.f]) PROVE Found(app, c)'
            <4>1. PICK i \in 1 .. nth : c = Comps[app.f][i]
                BY <3>1
            <4> QED BY <1>10, <2>1, <4>1 DEF Found
        <3> QED BY <1>8, <2>1, <3>2 DEF Complete
    <2> QED BY <1>1, <1>5, <1>7, <1>8, <2>1, <2>2 DEF OwnInv, Building, Releasing
<1>13. CASE Idle
    BY <1>1, <1>5, <1>7, <1>13 DEF OwnInv, Idle, Building, Releasing
<1> QED BY <1>1, <1>11, <1>12, <1>13

\* One process goes on, without ending before it is told to.
LEMMA OneProcOwn ==
    ASSUME TypeInv, OwnInv, NEW p \in Pids, NEW s, NEW r, NEW c, NEW l, ProcIs(p, s, r, c, l),
           s \in {"exited", "reaped"} => procs[p].st \in {"exited", "reaped"},
           c = procs[p].crashed, UNCHANGED <<appseq, info, ctxs>>,
           procs[p].st = "reaped" => s = "reaped"
    PROVE  Unhurt /\ BoundInv'
<1>1. Lasting /\ Pids' = Pids
    BY ProcKeeps DEF Lasting
<1>2. \A q \in Pids : procs'[q].st \in {"exited", "reaped"} => procs[q].st \in {"exited", "reaped"}
    BY ProcKeeps
<1>3. BoundInv'
    BY <1>1, <1>2, BoundStays DEF OwnInv
<1> QED BY <1>1, <1>3 DEF Unhurt

LEMMA ConnectOwn == TypeInv /\ OwnInv /\ Connect => OwnInv'
<1> SUFFICES ASSUME TypeInv, OwnInv, Connect PROVE OwnInv'
    OBVIOUS
<1> DEFINE user == ctxs[app.ctx].bound[Conns[app.f][nth].uses]
           provider == ctxs[app.ctx].bound[Conns[app.f][nth].provides]
           l == procs[user].conns \cup {[id |-> nth, to |-> provider]}
<1>1. /\ at = "connect" /\ user \in Pids /\ UNCHANGED <<appseq, info, ctxs>>
      /\ \/ Raise /\ UNCHANGED procs
         \/ /\ ProcIs(user, procs[user].st, procs[user].released, procs[user].crashed, l)
            /\ UNCHANGED at
            /\ app'.f = app.f /\ app'.ctx = app.ctx /\ app'.pids = app.pids
    BY ConnectEffect DEF namingVars
<1> HIDE DEF user, l
<1>2. CASE Raise /\ UNCHANGED procs
    BY <1>1, <1>2, StillOwn, OwnStays DEF Raise, Idle
<1>3. CASE /\ ProcIs(user, procs[user].st, procs[user].released, procs[user].crashed, l)
           /\ UNCHANGED at
           /\ app'.f = app.f /\ app'.ctx = app.ctx /\ app'.pids = app.pids
    <2>1. Unhurt /\ BoundInv'
        BY <1>1, <1>3, OneProcOwn
    <2> QED BY <1>1, <1>3, <2>1, OwnStays
<1> QED BY <1>1, <1>2, <1>3

LEMMA DisconnectEffect ==
    ASSUME TypeInv, Disconnect
    PROVE  LET link == app.links[nth]
               p == link.port
           IN  /\ at = "disconnect" /\ nth \in Nat
               /\ UNCHANGED <<dmn, calls, appseq, info, registeredDevices, namingVars, deviceVars>>
               /\ \/ nth > Len(app.links) /\ GoTo("releaseObject", 1) /\ UNCHANGED <<raised, procs>>
                  \/ /\ nth \in 1 .. Len(app.links) /\ p \in Pids
                     /\ ProcIs(p, procs[p].st, procs[p].released, procs[p].crashed,
                               {c \in procs[p].conns : c.id # link.id})
                     /\ GoTo("disconnect", nth + 1) /\ UNCHANGED raised
                  \/ Raise /\ UNCHANGED procs
<1> DEFINE link == app.links[nth]
           l == {c \in procs[link.port].conns : c.id # link.id}
<1>1. /\ at = "disconnect" /\ nth >= 1 /\ nth \in Nat
      /\ UNCHANGED <<dmn, calls, appseq, info, registeredDevices, namingVars, deviceVars>>
      /\ \/ nth > Len(app.links) /\ GoTo("releaseObject", 1) /\ UNCHANGED <<raised, procs>>
         \/ /\ ~(nth > Len(app.links)) /\ procs' = [procs EXCEPT ![link.port].conns = l]
            /\ GoTo("disconnect", nth + 1) /\ UNCHANGED raised
         \/ Raise /\ UNCHANGED procs
    BY DEF Disconnect, TypeInv, Types, CallInv
<1>2. ASSUME ~(nth > Len(app.links)), procs' = [procs EXCEPT ![link.port].conns = l]
      PROVE  /\ nth \in 1 .. Len(app.links) /\ link.port \in Pids
             /\ ProcIs(link.port, procs[link.port].st, procs[link.port].released,
                       procs[link.port].crashed, l)
    <2>1. app \in Application /\ AppMade(app)
        BY <1>1, WorkingApp DEF Working, Releasing
    <2>2. app.links \in Seq([port : Nat, id : Nat])
        BY <2>1 DEF Application
    <2>3. nth \in 1 .. Len(app.links) /\ nth \in DOMAIN app.links
        BY <1>1, <1>2, <2>2, LenProperties
    <2>4. link.port \in Pids
        BY <2>1, <2>3 DEF AppMade
    <2>5. l \in SUBSET [id : Nat, to : Nat]
        <3>1. procs[link.port] \in Proc
            BY <2>4, ProcType DEF TypeInv
        <3> QED BY <3>1 DEF Proc
    <2> QED BY <1>2, <2>3, <2>4, <2>5, ConnsUpdate DEF TypeInv
<1> QED BY <1>1, <1>2

\* What is known of the component that is released, while it is.
LEMMA ReleasedComp ==
    ASSUME TypeInv, OwnInv, at \in {"releaseObject", "unload", "terminate"}
    PROVE  /\ app.f \in Factories /\ nth \in DOMAIN Comps[app.f] /\ nth \in Nat
           /\ comp = Comps[app.f][nth] /\ comp \in ToSet(Comps[app.f]) /\ Complete(app)
           /\ info[comp].deployed /\ info[comp].pid \in Pids /\ info[comp].rsc = info[comp].pid
           /\ procs[info[comp].pid].ctx = app.ctx /\ procs[info[comp].pid].comp = comp
           /\ info[comp].device = procs[info[comp].pid].dev /\ info[comp].device \in Devices
<1>1. /\ app.f \in Factories /\ nth \in DOMAIN Comps[app.f] /\ nth \in Nat
      /\ comp = Comps[app.f][nth] /\ comp \in ToSet(Comps[app.f])
    BY CompType DEF ComponentSteps, comp, TypeInv, Types
<1>2. Complete(app)
    BY DEF OwnInv, Releasing
<1> QED BY <1>1, <1>2, CompletePid

LEMMA ReleaseResourceEffect ==
    ASSUME TypeInv, OwnInv, ReleaseResource
    PROVE  LET p == info[comp].pid
           IN  /\ at = "releaseObject"
               /\ UNCHANGED <<dmn, calls, appseq, info, registeredDevices, namingVars, deviceVars>>
               /\ \/ Raise /\ UNCHANGED procs
                  \/ \E s : /\ ProcIs(p, s, TRUE, procs[p].crashed, procs[p].conns)
                            /\ s \in {"woken", procs[p].st} /\ Alive(p)
                            /\ GoTo("unload", nth) /\ UNCHANGED raised
<1> DEFINE p == info[comp].pid
           s == IF procs[p].st = "waiting" THEN "woken" ELSE procs[p].st
<1>1. at = "releaseObject"
      /\ UNCHANGED <<dmn, calls, appseq, info, registeredDevices, namingVars, deviceVars>>
    BY DEF ReleaseResource
<1>2. info[comp].deployed /\ p \in Pids /\ info[comp].rsc = p
    BY <1>1, ReleasedComp
<1>3. \/ Raise /\ UNCHANGED procs
      \/ /\ Alive(p) /\ procs' = [procs EXCEPT ![p].released = TRUE, ![p].st = s]
         /\ GoTo("unload", nth) /\ UNCHANGED raised
    BY <1>2 DEF ReleaseResource
<1>4. s \in States /\ s \in {"woken", procs[p].st}
    BY <1>2, ProcType DEF TypeInv, Proc, States
<1>5. procs' = [procs EXCEPT ![p].released = TRUE, ![p].st = s]
          => ProcIs(p, s, TRUE, procs[p].crashed, procs[p].conns)
    BY <1>2, <1>4, ReleaseUpdate DEF TypeInv
<1> HIDE DEF s, p
<1> QED BY <1>1, <1>3, <1>4, <1>5 DEF p

LEMMA TerminateEffect ==
    ASSUME TypeInv, OwnInv, Terminate
    PROVE  LET p == info[comp].pid
           IN  /\ at = "terminate"
               /\ UNCHANGED <<calls, appseq, info, registeredDevices, namingVars, deviceVars>>
               /\ \/ Abort("InvalidState") /\ UNCHANGED procs
                  \/ /\ ProcIs(p, "reaped", procs[p].released, procs[p].crashed, procs[p].conns)
                     /\ procs[p].st \in {"exited", "reaped"} /\ AfterTerminate
                     /\ UNCHANGED <<dmn, raised>>
<1> DEFINE p == info[comp].pid
<1>1. /\ at = "terminate"
      /\ UNCHANGED <<calls, appseq, info, registeredDevices, namingVars, deviceVars>>
      /\ \/ Abort("InvalidState") /\ UNCHANGED procs
         \/ /\ ~Alive(p) /\ procs' = [procs EXCEPT ![p].st = "reaped"]
            /\ AfterTerminate /\ UNCHANGED <<dmn, raised>>
    BY DEF Terminate
<1>2. p \in Pids /\ procs[p].st \in States
    BY <1>1, ReleasedComp, ProcType DEF TypeInv, Proc
<1>3. procs' = [procs EXCEPT ![p].st = "reaped"]
          => ProcIs(p, "reaped", procs[p].released, procs[p].crashed, procs[p].conns)
    BY <1>2, StUpdate DEF TypeInv, States
<1>4. ~Alive(p) => procs[p].st \in {"exited", "reaped"}
    BY <1>2 DEF Alive, States
<1> QED BY <1>1, <1>3, <1>4

\* What a process does to itself and to its name.
LEMMA ProcessEffect ==
    ASSUME TypeInv, NEW p \in Pids, ProcessStep(p) \/ Crash(p)
    PROVE  /\ UNCHANGED <<domainVars, root, deviceVars>> /\ Lasting /\ Pids' = Pids
           /\ procs[p].st # "reaped"
           /\ \E s, c : ProcIs(p, s, procs[p].released, c, procs[p].conns)
<1>1. UNCHANGED <<domainVars, root, deviceVars>> /\ procs[p].st # "reaped"
    BY DEF ProcessStep, Bind, Wait, Shutdown, Crash, namingVars, Alive
<1>2. /\ \E s, c : ProcIs(p, s, procs[p].released, c, procs[p].conns)
      /\ procs[p].crashed => procs'[p].crashed
    <2>1. CASE Bind(p)
        BY <2>1, BindEffect DEF ProcIs
    <2>2. CASE Wait(p)
        BY <2>2, WaitEffect DEF ProcIs
    <2>3. CASE Shutdown(p)
        BY <2>3, ShutdownEffect DEF ProcIs
    <2>4. CASE Crash(p)
        BY <2>4, CrashEffect DEF ProcIs
    <2> QED BY <2>1, <2>2, <2>3, <2>4 DEF ProcessStep
<1>3. Lasting /\ Pids' = Pids
    BY <1>1, <1>2 DEF ProcIs, Lasting
<1> QED BY <1>1, <1>2, <1>3

LEMMA ReleaseSteps ==
    ASSUME TypeInv, OwnInv, Disconnect \/ ReleaseResource \/ Terminate
    PROVE  OwnInv'
<1>1. CASE Disconnect
    <2>1. /\ at \in Releasing /\ UNCHANGED <<appseq, info, ctxs>>
          /\ (at' \in Releasing /\ app' = app) \/ at' = "idle"
        BY <1>1, DisconnectEffect DEF GoTo, Raise, Idle, Releasing, namingVars
    <2>2. Unhurt /\ BoundInv'
        BY <1>1, <2>1, DisconnectEffect, StillOwn, OneProcOwn
    <2> QED BY <2>1, <2>2, OwnStays
<1>2. CASE ReleaseResource
    <2>1. /\ at \in Releasing /\ UNCHANGED <<appseq, info, ctxs>>
          /\ (at' \in Releasing /\ app' = app) \/ at' = "idle"
        BY <1>2, ReleaseResourceEffect DEF GoTo, Raise, Idle, Releasing, namingVars
    <2>2. Unhurt /\ BoundInv'
        <3> DEFINE p == info[comp].pid
        <3>1. p \in Pids
            BY <1>2, ReleaseResourceEffect, ReleasedComp
        <3>2. CASE UNCHANGED procs
            BY <2>1, <3>2, StillOwn
        <3>3. CASE \E s : /\ ProcIs(p, s, TRUE, procs[p].crashed, procs[p].conns)
                          /\ s \in {"woken", procs[p].st} /\ Alive(p)
            <4>1. PICK s : /\ ProcIs(p, s, procs'[p].released, procs[p].crashed, procs[p].conns)
                           /\ s \in {"woken", procs[p].st} /\ Alive(p)
                BY <3>3 DEF ProcIs
            <4>2. procs[p].st # "reaped"
                BY <4>1 DEF Alive
            <4> HIDE DEF p
            <4> QED BY <2>1, <3>1, <4>1, <4>2, OneProcOwn
        <3> QED BY <1>2, <3>2, <3>3, ReleaseResourceEffect
    <2> QED BY <2>1, <2>2, OwnStays
<1>3. CASE Terminate
    <2>1. /\ at \in Releasing /\ UNCHANGED <<appseq, info, ctxs>>
          /\ at' \in Releasing /\ app' = app
        BY <1>3, TerminateEffect DEF AfterTerminate, GoTo, Abort, callVars, Releasing, namingVars
    <2>2. Unhurt /\ BoundInv'
        <3> DEFINE p == info[comp].pid
        <3>1. p \in Pids
            BY <1>3, TerminateEffect, ReleasedComp
        <3>2. CASE UNCHANGED procs
            BY <2>1, <3>2, StillOwn
        <3>3. CASE /\ ProcIs(p, "reaped", procs[p].released, procs[p].crashed, procs[p].conns)
                   /\ procs[p].st \in {"exited", "reaped"}
            <4> HIDE DEF p
            <4> QED BY <2>1, <3>1, <3>3, OneProcOwn
        <3> QED BY <1>3, <3>2, <3>3, TerminateEffect
    <2> QED BY <2>1, <2>2, OwnStays
<1> QED BY <1>1, <1>2, <1>3

LEMMA DestroyContextOwn == TypeInv /\ OwnInv /\ DestroyContext => OwnInv'
<1> SUFFICES ASSUME TypeInv, OwnInv, DestroyContext PROVE OwnInv'
    OBVIOUS
<1>1. /\ at = "destroy" /\ UNCHANGED <<appseq, info, procs>>
      /\ \/ at' = at /\ app' = app /\ nth' = nth /\ UNCHANGED ctxs
         \/ at' = "idle" /\ ctxs' = [ctxs EXCEPT ![app.ctx].alive = FALSE]
    BY DEF DestroyContext, Idle, Abort, callVars
<1>2. DOMAIN ctxs' = DOMAIN ctxs /\ \A y \in DOMAIN ctxs : ctxs'[y].bound = ctxs[y].bound
    BY <1>1, DestroyEffect
<1>3. Unhurt /\ BoundInv'
    <2>1. Lasting
        BY <1>1 DEF Lasting, Pids
    <2>2. BoundInv'
        BY <1>1, <1>2, <2>1, BoundStays DEF OwnInv
    <2> QED BY <1>1, <2>1, <2>2 DEF Unhurt, Pids
<1> QED BY <1>1, <1>3, OwnStays

\* A process that shuts down has no other name than the one it unbinds; one
\* that dies leaves its name, and the model remembers it.
LEMMA ProcessOwn ==
    ASSUME TypeInv, OwnInv, NEW p \in Pids, ProcessStep(p) \/ Crash(p)
    PROVE  OwnInv'
<1>1. UNCHANGED <<at, app, nth, appseq, info>> /\ Lasting /\ Pids' = Pids
    BY ProcessEffect DEF domainVars, callVars
<1>2. BoundInv
    BY DEF OwnInv
<1>3. CASE (Bind(p) /\ UNCHANGED ctxs) \/ Wait(p) \/ Crash(p)
    <2>1. UNCHANGED ctxs
        BY <1>3 DEF Wait, Crash, namingVars
    <2>2. \A q \in Pids : procs'[q].st \in {"exited", "reaped"} =>
              procs'[q].crashed \/ procs[q].st \in {"exited", "reaped"}
        <3>1. CASE Bind(p)
            BY <3>1, BindEffect, ProcKeeps DEF ProcIs
        <3>2. CASE Wait(p)
            BY <3>2, WaitEffect DEF ProcIs
        <3>3. CASE Crash(p)
            BY <3>3, CrashEffect DEF ProcIs
        <3> QED BY <1>3, <3>1, <3>2, <3>3
    <2> QED BY <1>1, <1>2, <2>1, <2>2, BoundStays, OwnStays DEF Unhurt
<1>4. CASE Bind(p) /\ ~UNCHANGED ctxs
    <2>1. /\ ProcIs(p, "bound", procs[p].released, procs[p].crashed, procs[p].conns)
          /\ BoundIs(procs[p].ctx, procs[p].comp, p)
        BY <1>4, BindEffect
    <2>2. BoundInv'
        BY <1>2, <2>1 DEF BoundInv, BoundIs, ProcIs, TypeInv, Made
    <2> QED BY <1>1, <2>2, OwnStays DEF Unhurt
<1>5. CASE Shutdown(p)
    <2>1. /\ ProcIs(p, "exited", procs[p].released, procs[p].crashed, procs[p].conns)
          /\ BoundIs(procs[p].ctx, procs[p].comp, None)
        BY <1>5, ShutdownEffect
    <2>2. BoundInv'
        <3> SUFFICES ASSUME NEW x \in DOMAIN ctxs', NEW c \in Components, ctxs'[x].bound[c] # None
                     PROVE  LET q == ctxs'[x].bound[c]
                            IN  /\ procs'[q].ctx = x /\ procs'[q].comp = c
                                /\ procs'[q].st \in {"exited", "reaped"} => procs'[q].crashed
            BY DEF BoundInv
        <3> DEFINE q == ctxs[x].bound[c]
        <3>1. /\ x \in DOMAIN ctxs /\ ctxs'[x].bound[c] = q /\ q # None
              /\ ~(x = procs[p].ctx /\ c = procs[p].comp)
            BY <2>1 DEF BoundIs
        <3>2. /\ q \in Pids /\ procs[q].ctx = x /\ procs[q].comp = c
              /\ procs[q].st \in {"exited", "reaped"} => procs[q].crashed
            BY <1>2, <3>1 DEF BoundInv, TypeInv, Made
        <3>3. q # p
            BY <3>1, <3>2
        <3> QED BY <2>1, <3>1, <3>2, <3>3 DEF ProcIs
    <2> QED BY <1>1, <2>2, OwnStays DEF Unhurt
<1> QED BY <1>3, <1>4, <1>5 DEF ProcessStep

LEMMA OwnStep == Exclusive /\ TypeInv /\ NameInv /\ OwnInv /\ [Next]_vars => OwnInv'
<1> SUFFICES ASSUME Exclusive, TypeInv, NameInv, OwnInv, [Next]_vars PROVE OwnInv'
    OBVIOUS
<1>1. ASSUME UNCHANGED <<domainVars, namingVars, procs>> PROVE OwnInv'
    BY <1>1, StillOwn, OwnStays DEF domainVars, callVars, namingVars
<1>2. CASE UNCHANGED vars
    BY <1>1, <1>2 DEF vars
<1>3. CASE \E f \in Factories, name \in Names : \E a \in Assignments(f) : CallCreate(f, name, a)
    BY <1>3, CallCreateOwn
<1>4. CASE \E k \in DOMAIN appseq : CallRelease(k)
    BY <1>4, CallReleaseOwn
<1>5. CASE DomainStep
    BY <1>5, StillSteps, BindContextOwn, ExecuteOwn, AwaitOwn, ConnectOwn, ListOwn, UnlistOwn,
       ReleaseSteps, DestroyContextOwn DEF DomainStep
<1>6. CASE \E p \in DOMAIN procs : ProcessStep(p) \/ Crash(p)
    BY <1>6, ProcessOwn DEF Pids
<1>7. CASE \E d \in Devices :
              \/ RegisterDevice(d)
              \/ \E s \in {"UNLOCKED", "LOCKED", "SHUTTING_DOWN"} : SetAdminState(d, s)
    BY <1>1, <1>7 DEF RegisterDevice, SetAdminState
<1> QED BY <1>2, <1>3, <1>4, <1>5, <1>6, <1>7 DEF Next

-----------------------------------------------------------------------------
(* How far a release has come.                                             *)

\* The processes of the application that is released, one per component.
LEMMA ReleasedPids ==
    ASSUME TypeInv, OwnInv, at \in {"unlist"} \cup Releasing
    PROVE  /\ app.f \in Factories /\ DOMAIN Comps[app.f] = 1 .. Len(Comps[app.f])
           /\ Len(Comps[app.f]) \in Nat
           /\ \A j \in DOMAIN Comps[app.f] :
                  Comps[app.f][j] \in Components /\ Pid(j) \in Pids /\ procs[Pid(j)].ctx = app.ctx
           /\ \A i, j \in DOMAIN Comps[app.f] : Pid(i) = Pid(j) => i = j
           /\ \A p \in Pids : procs[p].ctx = app.ctx => \E j \in DOMAIN Comps[app.f] : p = Pid(j)
<1>1. app.f \in Factories /\ Complete(app)
    BY WorkingApp DEF Working, OwnInv
<1>2. /\ DOMAIN Comps[app.f] = 1 .. Len(Comps[app.f]) /\ Len(Comps[app.f]) \in Nat
      /\ \A i, j \in DOMAIN Comps[app.f] : Comps[app.f][i] = Comps[app.f][j] => i = j
      /\ \A c \in ToSet(Comps[app.f]) : \E i \in DOMAIN Comps[app.f] : c = Comps[app.f][i]
      /\ \A i \in DOMAIN Comps[app.f] : Comps[app.f][i] \in ToSet(Comps[app.f])
      /\ ToSet(Comps[app.f]) \subseteq Components
    BY <1>1, OtherComponents
<1>3. \A c \in ToSet(Comps[app.f]) :
          info[c].pid \in Pids /\ procs[info[c].pid].ctx = app.ctx /\ procs[info[c].pid].comp = c
    BY <1>1, CompletePid
<1>4. \A j \in DOMAIN Comps[app.f] :
          /\ Comps[app.f][j] \in Components /\ Pid(j) \in Pids /\ procs[Pid(j)].ctx = app.ctx
          /\ procs[Pid(j)].comp = Comps[app.f][j]
    BY <1>2, <1>3 DEF Pid
<1>5. \A i, j \in DOMAIN Comps[app.f] : Pid(i) = Pid(j) => i = j
    BY <1>2, <1>4
<1>6. ASSUME NEW p \in Pids, procs[p].ctx = app.ctx PROVE \E j \in DOMAIN Comps[app.f] : p = Pid(j)
    <2>1. procs[p].comp \in ToSet(Comps[app.f]) /\ info[procs[p].comp].pid = p
        BY <1>1, <1>6 DEF Complete, Owns
    <2> QED BY <1>2, <2>1 DEF Pid
<1> QED BY <1>1, <1>2, <1>4, <1>5, <1>6

LEMMA ReleaseInit == Init => ReleaseInv
    BY DEF Init, ReleaseInv, Pids

\* What a step that releases nothing must keep to.
LEMMA ReleaseStays ==
    ASSUME TypeInv, OwnInv, ReleaseInv, Lasting, Pids' = Pids, UNCHANGED appseq,
           \A p \in Pids : procs'[p].released = procs[p].released,
           \A c \in Components : info'[c].pid = info[c].pid,
           dmn' # "NotEmpty" \/ dmn' = dmn,
           \/ at' \in {"idle", "create"} \cup Building
           \/ /\ app'.f = app.f /\ app'.ctx = app.ctx
              /\ \/ at' = at /\ nth' = nth
                 \/ at = "disconnect" /\ at' = "disconnect"
                 \/ at = "unload" /\ at' = "terminate" /\ nth' = nth
                 \/ at = "unbind" /\ at' = "destroy"
    PROVE  ReleaseInv'
<1>1. \A k \in DOMAIN appseq', p \in Pids' : procs'[p].ctx = appseq'[k].ctx => ~procs'[p].released
    BY DEF ReleaseInv, Lasting
<1>2. at' \in {"unlist", "disconnect"} =>
          \A p \in Pids' : procs'[p].ctx = app'.ctx => ~procs'[p].released
    BY DEF ReleaseInv, Lasting, Building
<1>3. ASSUME at' \in {"releaseObject", "unload", "terminate"}
      PROVE  /\ \A j \in 1 .. nth' - 1 : procs'[Pid(j)'].st = "reaped"
             /\ \A j \in nth' .. Len(Comps[app'.f]) :
                    (j > nth' \/ at' = "releaseObject") => ~procs'[Pid(j)'].released
    <2>1. /\ at \in {"releaseObject", "unload", "terminate"} /\ nth' = nth /\ app'.f = app.f
          /\ at' = "releaseObject" => at = "releaseObject"
        BY <1>3 DEF Building
    <2>2. nth \in DOMAIN Comps[app.f] /\ nth \in Nat
        BY <2>1, ReleasedComp
    <2>3. \A j \in DOMAIN Comps[app.f] : Pid(j)' = Pid(j) /\ Pid(j) \in Pids
        BY <2>1, ReleasedPids DEF Pid, Releasing
    <2>4. \A j \in 1 .. nth - 1 : j \in DOMAIN Comps[app.f] /\ procs[Pid(j)].st = "reaped"
        BY <2>1, <2>2, ReleasedPids DEF ReleaseInv, Releasing
    <2>5. \A j \in nth .. Len(Comps[app.f]) :
              /\ j \in DOMAIN Comps[app.f]
              /\ (j > nth \/ at' = "releaseObject") => ~procs[Pid(j)].released
        BY <2>1, <2>2, ReleasedPids DEF ReleaseInv, Releasing
    <2>6. ASSUME NEW j \in 1 .. nth' - 1 PROVE procs'[Pid(j)'].st = "reaped"
        BY <2>1, <2>3, <2>4 DEF Lasting
    <2>7. ASSUME NEW j \in nth' .. Len(Comps[app'.f]), j > nth' \/ at' = "releaseObject"
          PROVE  ~procs'[Pid(j)'].released
        <3>1. j \in nth .. Len(Comps[app.f]) /\ (j > nth \/ at' = "releaseObject")
            BY <2>1, <2>7
        <3>2. ~procs[Pid(j)].released /\ Pid(j) \in Pids /\ Pid(j)' = Pid(j)
            BY <2>3, <2>5, <3>1
        <3> QED BY <3>2
    <2> QED BY <2>6, <2>7
<1>4. at' \in {"unbind", "destroy"} =>
          \A p \in Pids' : procs'[p].ctx = app'.ctx => procs'[p].st = "reaped"
    BY DEF ReleaseInv, Lasting, Building
<1>5. dmn' = "NotEmpty" => Died'
    BY DEF ReleaseInv, Died, Lasting
<1> QED BY <1>1, <1>2, <1>3, <1>4, <1>5 DEF ReleaseInv

LEMMA StillLasting == UNCHANGED procs => Lasting /\ Pids' = Pids
    BY DEF Lasting, Pids

LEMMA ListRelease == TypeInv /\ ReleaseInv /\ ListApplication => ReleaseInv'
<1> SUFFICES ASSUME TypeInv, ReleaseInv, ListApplication PROVE ReleaseInv'
    OBVIOUS
<1>1. at' = "idle" /\ UNCHANGED <<dmn, procs>>
    BY DEF ListApplication, Idle
<1>2. \A p \in Pids : procs[p].ctx = app.ctx => ~procs[p].released
    BY ListEffect DEF TypeInv, FreshInv, Building
<1> QED BY <1>1, <1>2, ListEffect DEF ReleaseInv, Died, Pids

LEMMA CallReleaseRelease ==
    ASSUME ReleaseInv, NEW k \in DOMAIN appseq, CallRelease(k)
    PROVE  ReleaseInv'
<1>1. at' = "unlist" /\ app' = appseq[k] /\ UNCHANGED <<dmn, appseq, procs>>
    BY DEF CallRelease
<1> QED BY <1>1 DEF ReleaseInv, Died, Pids

LEMMA UnlistRelease == TypeInv /\ NameInv /\ ReleaseInv /\ Unlist => ReleaseInv'
<1> SUFFICES ASSUME TypeInv, NameInv, ReleaseInv, Unlist PROVE ReleaseInv'
    OBVIOUS
<1>1. at = "unlist" /\ at' = "disconnect" /\ UNCHANGED <<dmn, app, procs>>
    BY DEF Unlist, GoTo
<1>2. \A j \in DOMAIN appseq' : \E i \in DOMAIN appseq : appseq'[j] = appseq[i]
    BY UnlistsOne DEF UnlistsAt
<1> QED BY <1>1, <1>2 DEF ReleaseInv, Died, Pids

LEMMA ExecuteRelease == TypeInv /\ NameInv /\ OwnInv /\ ReleaseInv /\ Execute => ReleaseInv'
<1> SUFFICES ASSUME TypeInv, NameInv, OwnInv, ReleaseInv, Execute PROVE ReleaseInv'
    OBVIOUS
<1> DEFINE pid == Len(procs) + 1
<1>1. /\ at = "execute" /\ UNCHANGED <<appseq, ctxs>>
      /\ \/ (Abort("InvalidState") \/ Abort("InvalidFileName")) /\ UNCHANGED <<info, procs>>
         \/ Forks
         \/ ForksNot
    BY ExecuteEffect DEF namingVars
<1>2. CASE (Abort("InvalidState") \/ Abort("InvalidFileName")) /\ UNCHANGED <<info, procs>>
    BY <1>1, <1>2, StillLasting, ReleaseStays DEF Abort, callVars, Building
<1>3. CASE ForksNot
    BY <1>1, <1>3, StillLasting, ReleaseStays DEF ForksNot, AfterExecute, Building
<1>4. CASE Forks
    <2>1. /\ Pids' = Pids \cup {pid} /\ \A q \in Pids : procs'[q] = procs[q]
          /\ procs'[pid].ctx = app.ctx /\ procs'[pid].released = FALSE
          /\ AfterExecute(Append(app.pids, pid)) /\ UNCHANGED dmn
        BY <1>4 DEF Forks
    <2> HIDE DEF pid
    <2>2. at' \in {"load", "await"}
        BY <2>1 DEF AfterExecute
    <2>3. \A k \in DOMAIN appseq', p \in Pids' :
              procs'[p].ctx = appseq'[k].ctx => ~procs'[p].released
        BY <1>1, <2>1 DEF ReleaseInv
    <2>4. dmn' = "NotEmpty" => Died'
        BY <2>1 DEF ReleaseInv, Died
    <2> QED BY <2>2, <2>3, <2>4 DEF ReleaseInv
<1> QED BY <1>1, <1>2, <1>3, <1>4

LEMMA DisconnectRelease == TypeInv /\ OwnInv /\ ReleaseInv /\ Disconnect => ReleaseInv'
<1> SUFFICES ASSUME TypeInv, OwnInv, ReleaseInv, Disconnect PROVE ReleaseInv'
    OBVIOUS
<1>1. at = "disconnect" /\ UNCHANGED <<dmn, appseq, info>>
    BY DisconnectEffect
<1>2. /\ Pids' = Pids /\ Lasting
      /\ \A p \in Pids : procs'[p].released = procs[p].released
    BY DisconnectEffect, StillLasting, ProcKeeps DEF Lasting
<1>3. CASE Raise
    BY <1>1, <1>2, <1>3, ReleaseStays DEF Raise, Idle
<1>4. CASE GoTo("disconnect", nth + 1)
    BY <1>1, <1>2, <1>4, ReleaseStays DEF GoTo
<1>5. CASE GoTo("releaseObject", 1)
    <2>1. at' = "releaseObject" /\ nth' = 1 /\ app' = app
        BY <1>5 DEF GoTo
    <2>2. \A j \in DOMAIN Comps[app.f] : Pid(j)' = Pid(j) /\ Pid(j) \in Pids /\ ~procs[Pid(j)].released
        BY <1>1, <2>1, ReleasedPids DEF Pid, Releasing, ReleaseInv
    <2>3. 1 .. nth' - 1 = {} /\ \A j \in nth' .. Len(Comps[app.f]) : j \in DOMAIN Comps[app.f]
        BY <1>1, <2>1, ReleasedPids DEF Releasing
    <2>4. \A j \in nth' .. Len(Comps[app.f]) : ~procs'[Pid(j)'].released
        BY <1>2, <2>2, <2>3
    <2> QED BY <1>1, <1>2, <2>1, <2>3, <2>4 DEF ReleaseInv, Died, Lasting
<1> QED BY <1>3, <1>4, <1>5, DisconnectEffect

LEMMA ReleaseResourceRelease ==
    TypeInv /\ NameInv /\ OwnInv /\ ReleaseInv /\ ReleaseResource => ReleaseInv'
<1> SUFFICES ASSUME TypeInv, NameInv, OwnInv, ReleaseInv, ReleaseResource PROVE ReleaseInv'
    OBVIOUS
<1> DEFINE p == info[comp].pid
<1>1. at = "releaseObject" /\ UNCHANGED <<dmn, appseq, info>> /\ p = Pid(nth)
    BY ReleaseResourceEffect, ReleasedComp DEF Pid
<1>2. /\ p \in Pids /\ procs[p].ctx = app.ctx /\ nth \in DOMAIN Comps[app.f] /\ nth \in Nat
    BY <1>1, ReleasedComp
<1>3. CASE Raise /\ UNCHANGED procs
    BY <1>1, <1>3, StillLasting, ReleaseStays DEF Raise, Idle
<1>4. CASE \E s : /\ ProcIs(p, s, TRUE, procs[p].crashed, procs[p].conns)
                  /\ s \in {"woken", procs[p].st} /\ Alive(p)
                  /\ GoTo("unload", nth) /\ UNCHANGED raised
    <2>1. PICK s : /\ ProcIs(p, s, TRUE, procs[p].crashed, procs[p].conns)
                   /\ s \in {"woken", procs[p].st} /\ Alive(p)
        BY <1>4
    <2> HIDE DEF p
    <2>2. /\ Pids' = Pids /\ Lasting
          /\ \A q \in Pids : q # p => procs'[q] = procs[q]
        BY <2>1 DEF ProcIs, Lasting, Alive
    <2>3. at' = "unload" /\ nth' = nth /\ app' = app
        BY <1>4 DEF GoTo
    <2>4. \A k \in DOMAIN appseq', q \in Pids' :
              procs'[q].ctx = appseq'[k].ctx => ~procs'[q].released
        <3>1. \A k \in DOMAIN appseq : appseq[k].ctx # app.ctx
            BY <1>1, OtherContexts DEF Releasing
        <3> QED BY <1>1, <1>2, <2>2, <3>1 DEF ReleaseInv, Lasting
    <2>5. \A j \in DOMAIN Comps[app.f] : /\ Pid(j)' = Pid(j) /\ Pid(j) \in Pids
                                         /\ j # nth => Pid(j) # p
        BY <1>1, <1>2, <2>3, ReleasedPids DEF Pid, Releasing
    <2>6. \A j \in 1 .. nth - 1 : j \in DOMAIN Comps[app.f] /\ j # nth
        BY <1>1, <1>2, ReleasedPids DEF Releasing
    <2>7. ASSUME NEW j \in nth' .. Len(Comps[app.f]), j > nth' PROVE ~procs'[Pid(j)'].released
        <3>1. j \in DOMAIN Comps[app.f] /\ j # nth /\ j \in nth .. Len(Comps[app.f])
            BY <1>1, <1>2, <2>3, <2>7, ReleasedPids DEF Releasing
        <3>2. ~procs[Pid(j)].released
            BY <1>1, <3>1 DEF ReleaseInv
        <3> QED BY <2>2, <2>5, <3>1, <3>2
    <2>8. \A j \in 1 .. nth' - 1 : procs'[Pid(j)'].st = "reaped"
        BY <1>1, <2>2, <2>3, <2>5, <2>6 DEF ReleaseInv, Lasting
    <2>9. dmn' = "NotEmpty" => Died'
        BY <1>1, <2>2 DEF ReleaseInv, Died, Lasting
    <2> QED BY <2>3, <2>4, <2>7, <2>8, <2>9 DEF ReleaseInv
<1> QED BY <1>3, <1>4, ReleaseResourceEffect

LEMMA TerminateRelease == TypeInv /\ OwnInv /\ ReleaseInv /\ Terminate => ReleaseInv'
<1> SUFFICES ASSUME TypeInv, OwnInv, ReleaseInv, Terminate PROVE ReleaseInv'
    OBVIOUS
<1> DEFINE p == info[comp].pid
<1>1. at = "terminate" /\ UNCHANGED <<appseq, info, namingVars>> /\ p = Pid(nth)
    BY TerminateEffect, ReleasedComp DEF Pid
<1>2. p \in Pids /\ nth \in DOMAIN Comps[app.f] /\ nth \in Nat
    BY <1>1, ReleasedComp
<1>3. CASE Abort("InvalidState") /\ UNCHANGED procs
    BY <1>1, <1>3, StillLasting, ReleaseStays DEF Abort, callVars
<1>4. CASE /\ ProcIs(p, "reaped", procs[p].released, procs[p].crashed, procs[p].conns)
           /\ AfterTerminate /\ UNCHANGED dmn
    <2> HIDE DEF p
    <2>1. /\ Pids' = Pids /\ Lasting /\ procs'[p].st = "reaped"
          /\ \A q \in Pids : procs'[q].released = procs[q].released
        BY <1>2, <1>4 DEF ProcIs, Lasting
    <2>2. /\ UNCHANGED app
          /\ \/ at' = "releaseObject" /\ nth' = nth + 1
             \/ at' = "unbind" /\ nth = Len(Comps[app.f])
        BY <1>1, <1>4, <2>1, AfterTerminateEffect DEF namingVars
    <2>3. \A j \in DOMAIN Comps[app.f] : Pid(j)' = Pid(j) /\ Pid(j) \in Pids
        BY <1>1, <2>2, ReleasedPids DEF Pid, Releasing
    <2>4. \A k \in DOMAIN appseq', q \in Pids' :
              procs'[q].ctx = appseq'[k].ctx => ~procs'[q].released
        BY <1>1, <2>1 DEF ReleaseInv, Lasting
    <2>5. dmn' = "NotEmpty" => Died'
        BY <1>4, <2>1 DEF ReleaseInv, Died, Lasting
    <2>6. ASSUME NEW j \in 1 .. nth PROVE j \in DOMAIN Comps[app.f] /\ procs'[Pid(j)].st = "reaped"
        <3>1. j \in DOMAIN Comps[app.f]
            BY <1>1, <1>2, ReleasedPids DEF Releasing
        <3>2. CASE j = nth
            BY <1>1, <2>1, <3>1, <3>2
        <3>3. CASE j # nth
            <4>1. j \in 1 .. nth - 1
                BY <1>2, <3>3
            <4>2. procs[Pid(j)].st = "reaped"
                BY <1>1, <4>1 DEF ReleaseInv
            <4> QED BY <2>1, <2>3, <3>1, <4>2 DEF Lasting
        <3> QED BY <3>2, <3>3
    <2>7. CASE at' = "releaseObject" /\ nth' = nth + 1
        <3>1. \A j \in 1 .. nth' - 1 : procs'[Pid(j)'].st = "reaped"
            <4>1. 1 .. nth' - 1 = 1 .. nth
                BY <1>2, <2>7
            <4> QED BY <2>3, <2>6, <4>1
        <3>2. ASSUME NEW j \in nth' .. Len(Comps[app.f]) PROVE ~procs'[Pid(j)'].released
            <4>1. j \in DOMAIN Comps[app.f] /\ j > nth /\ j \in nth .. Len(Comps[app.f])
                BY <1>1, <1>2, <2>7, ReleasedPids DEF Releasing
            <4>2. ~procs[Pid(j)].released
                BY <1>1, <4>1 DEF ReleaseInv
            <4> QED BY <2>1, <2>3, <4>1, <4>2
        <3> QED BY <2>2, <2>4, <2>5, <2>7, <3>1, <3>2 DEF ReleaseInv
    <2>8. CASE at' = "unbind" /\ nth = Len(Comps[app.f])
        <3>1. ASSUME NEW q \in Pids, procs[q].ctx = app.ctx PROVE procs'[q].st = "reaped"
            <4>1. PICK j \in DOMAIN Comps[app.f] : q = Pid(j)
                BY <1>1, <3>1, ReleasedPids DEF Releasing
            <4>2. j \in 1 .. nth
                BY <1>1, <2>8, <4>1, ReleasedPids DEF Releasing
            <4> QED BY <2>6, <4>1, <4>2
        <3> QED BY <2>1, <2>2, <2>4, <2>5, <2>8, <3>1 DEF ReleaseInv, Lasting
    <2> QED BY <2>2, <2>7, <2>8
<1> QED BY <1>3, <1>4, TerminateEffect

\* A context that still has names when its processes are gone was left with
\* them by processes that died.
LEMMA DestroyContextRelease == TypeInv /\ OwnInv /\ ReleaseInv /\ DestroyContext => ReleaseInv'
<1> SUFFICES ASSUME TypeInv, OwnInv, ReleaseInv, DestroyContext PROVE ReleaseInv'
    OBVIOUS
<1>1. at = "destroy" /\ UNCHANGED <<appseq, info, procs>> /\ app.ctx \in DOMAIN ctxs
    BY WorkingApp DEF DestroyContext, Working, Releasing
<1>2. CASE Idle /\ UNCHANGED dmn
    BY <1>1, <1>2, StillLasting, ReleaseStays DEF Idle
<1>3. CASE Abort("NotEmpty") /\ \E c \in Components : ctxs[app.ctx].bound[c] # None
    <2>1. PICK c \in Components : ctxs[app.ctx].bound[c] # None
        BY <1>3
    <2> DEFINE p == ctxs[app.ctx].bound[c]
    <2>2. p \in Pids
        BY <1>1, <2>1 DEF TypeInv, Made
    <2>3. /\ procs[p].ctx = app.ctx
          /\ procs[p].st \in {"exited", "reaped"} => procs[p].crashed
        BY <1>1, <2>1 DEF OwnInv, BoundInv
    <2>4. procs[p].st = "reaped"
        BY <1>1, <2>2, <2>3 DEF ReleaseInv
    <2>5. Died'
        BY <1>1, <2>2, <2>3, <2>4 DEF Died, Pids
    <2> QED BY <1>1, <1>3, <2>5 DEF ReleaseInv, Abort, callVars, Pids
<1> QED BY <1>2, <1>3 DEF DestroyContext

LEMMA StillRelease ==
    ASSUME TypeInv, OwnInv, ReleaseInv,
           \/ RefuseName \/ BindContext \/ VerifyDeviceAssignments \/ GetRegisteredDevices \/ Load
           \/ AwaitComponent \/ Connect \/ Unload \/ UnbindContext
    PROVE  ReleaseInv'
<1>1. CASE RefuseName
    BY <1>1, StillLasting, ReleaseStays DEF RefuseName, Raise, Idle
<1>2. CASE BindContext
    BY <1>2, StillLasting, ReleaseStays DEF BindContext, Abort, callVars, Building
<1>3. CASE VerifyDeviceAssignments
    BY <1>3, VerifyEffect, StillLasting, ReleaseStays
       DEF VerifyDeviceAssignments, Raise, Idle, GoTo, Building
<1>4. CASE GetRegisteredDevices
    BY <1>4, StillLasting, ReleaseStays DEF GetRegisteredDevices, GoTo, Building
<1>5. CASE Load
    BY <1>5, StillLasting, ReleaseStays DEF Load, Abort, callVars, GoTo, Building
<1>6. CASE AwaitComponent
    <2>1. \A c \in Components : info'[c].pid = info[c].pid
        BY <1>6, AwaitEffect DEF InfoIs
    <2> QED BY <1>6, <2>1, StillLasting, ReleaseStays
               DEF AwaitComponent, Raise, Idle, GoTo, Building
<1>7. CASE Connect
    <2>1. /\ UNCHANGED <<dmn, appseq,
                         info>> /\ at' \in {"idle", "connect"} /\ Lasting /\ Pids' = Pids
          /\ \A p \in Pids : procs'[p].released = procs[p].released
        <3>1. CASE Raise /\ UNCHANGED procs
            BY <1>7, <3>1, ConnectEffect, StillLasting DEF Raise, Idle
        <3>2. CASE ~(Raise /\ UNCHANGED procs)
            <4> DEFINE user == ctxs[app.ctx].bound[Conns[app.f][nth].uses]
            <4>1. /\ UNCHANGED <<dmn, appseq, info, at>> /\ at = "connect"
                  /\ \E l : ProcIs(user, procs[user].st, procs[user].released, procs[user].crashed, l)
                BY <1>7, <3>2, ConnectEffect
            <4> HIDE DEF user
            <4> QED BY <4>1 DEF ProcIs, Lasting
        <3> QED BY <3>1, <3>2
    <2> QED BY <2>1, ReleaseStays DEF Building
<1>8. CASE Unload
    BY <1>8, StillLasting, ReleaseStays DEF Unload, Abort, callVars, GoTo
<1>9. CASE UnbindContext
    BY <1>9, StillLasting, ReleaseStays DEF UnbindContext, Abort, callVars, GoTo
<1> QED BY <1>1, <1>2, <1>3, <1>4, <1>5, <1>6, <1>7, <1>8, <1>9

LEMMA ProcessRelease ==
    ASSUME TypeInv, OwnInv, ReleaseInv, NEW p \in Pids, ProcessStep(p) \/ Crash(p)
    PROVE  ReleaseInv'
<1>1. /\ UNCHANGED <<dmn, at, app, nth, appseq, info>> /\ Lasting /\ Pids' = Pids
      /\ \A q \in Pids : procs'[q].released = procs[q].released
    BY ProcessEffect DEF domainVars, callVars, ProcIs
<1> QED BY <1>1, ReleaseStays

LEMMA ReleaseStep == TypeInv /\ NameInv /\ OwnInv /\ ReleaseInv /\ [Next]_vars => ReleaseInv'
<1> SUFFICES ASSUME TypeInv, NameInv, OwnInv, ReleaseInv, [Next]_vars PROVE ReleaseInv'
    OBVIOUS
<1>1. ASSUME UNCHANGED <<domainVars, procs>> PROVE ReleaseInv'
    BY <1>1, StillLasting, ReleaseStays DEF domainVars, callVars
<1>2. CASE UNCHANGED vars
    BY <1>1, <1>2 DEF vars
<1>3. CASE \E f \in Factories, name \in Names : \E a \in Assignments(f) : CallCreate(f, name, a)
    BY <1>3, StillLasting, ReleaseStays DEF CallCreate
<1>4. CASE \E k \in DOMAIN appseq : CallRelease(k)
    BY <1>4, CallReleaseRelease
<1>5. CASE DomainStep
    BY <1>5, StillRelease, ExecuteRelease, ListRelease, UnlistRelease, DisconnectRelease,
       ReleaseResourceRelease, TerminateRelease, DestroyContextRelease DEF DomainStep
<1>6. CASE \E p \in DOMAIN procs : ProcessStep(p) \/ Crash(p)
    BY <1>6, ProcessRelease DEF Pids
<1>7. CASE \E d \in Devices :
              \/ RegisterDevice(d)
              \/ \E s \in {"UNLOCKED", "LOCKED", "SHUTTING_DOWN"} : SetAdminState(d, s)
    BY <1>1, <1>7 DEF RegisterDevice, SetAdminState
<1> QED BY <1>2, <1>3, <1>4, <1>5, <1>6, <1>7 DEF Next

\* The invariant of a domain whose clients are exclusive.
ExclusiveInv == TypeInv /\ NameInv /\ OwnInv /\ ReleaseInv

LEMMA ExclusiveAlways == ASSUME Exclusive PROVE Spec => []ExclusiveInv
<1>1. Init => ExclusiveInv
    BY TypeInit, NameInit, OwnInit, ReleaseInit DEF ExclusiveInv
<1>2. ExclusiveInv /\ [Next]_vars => ExclusiveInv'
    BY TypeStep, NameStep, OwnStep, ReleaseStep DEF ExclusiveInv
<1> QED BY <1>1, <1>2, PTL DEF Spec

\* Application_impl.cpp:241: "all executed processes should be terminated"
\* before an application is gone.  Every process its create executed has been
\* reaped when releaseObject goes on to unbind its name.
THEOREM ReleaseTerminatesAlways == ASSUME Exclusive PROVE Spec => []ReleaseTerminatesAll
<1>1. ExclusiveInv => ReleaseTerminatesAll
    <2> SUFFICES ASSUME ExclusiveInv, at \in {"unbind", "destroy"}, NEW j \in DOMAIN app.pids
                 PROVE  procs[app.pids[j]].st = "reaped"
        BY DEF ReleaseTerminatesAll
    <2>1. app.pids[j] \in Pids
        BY WorkingApp DEF ExclusiveInv, Working, Releasing, AppMade
    <2>2. procs[app.pids[j]].ctx = app.ctx
        BY DEF ExclusiveInv, OwnInv, Complete, Owns, Releasing
    <2> QED BY <2>1, <2>2 DEF ExclusiveInv, ReleaseInv
<1> QED BY <1>1, ExclusiveAlways, PTL

-----------------------------------------------------------------------------
(* Who is connected to whom.                                               *)

LEMMA ConnInit == Init => ConnInv
    BY DEF Init, ConnInv, Noted, Pids, Building, Releasing

\* What a step that makes and breaks no connection must keep to.
LEMMA ConnStays ==
    ASSUME TypeInv, ConnInv, Lasting, Pids' = Pids, UNCHANGED appseq,
           \A p \in Pids : procs'[p].conns = procs[p].conns /\ procs'[p].released = procs[p].released,
           \/ at' \in {"idle", "create"}
           \/ /\ app'.ctx = app.ctx /\ app'.links = app.links
              /\ \/ at' = at /\ nth' = nth
                 \/ at \in Building /\ at' \in Building
                 \/ at \in Releasing \ {"disconnect"} /\ at' \in Releasing \ {"disconnect"}
    PROVE  ConnInv'
<1>1. \A p \in Pids' : \A l \in procs'[p].conns : procs'[l.to].ctx = procs'[p].ctx
    BY DEF TypeInv, Made, ConnInv, Lasting
<1>2. \A p, q \in Pids' :
          procs'[p].released /\ procs'[q].ctx = procs'[p].ctx => procs'[q].conns = {}
    BY DEF ConnInv, Lasting
<1>3. \A k \in DOMAIN appseq' : Noted(appseq[k], 1)'
    BY DEF ConnInv, Noted, Lasting
<1>4. at' \in Building \cup {"unlist"} => Noted(app, 1)'
    BY DEF ConnInv, Noted, Lasting, Building, Releasing
<1>5. at' = "disconnect" => Noted(app, nth)'
    BY DEF ConnInv, Noted, Lasting, Building
<1>6. at' \in Releasing \ {"disconnect"} =>
          \A p \in Pids' : procs'[p].ctx = app'.ctx => procs'[p].conns = {}
    BY DEF ConnInv, Lasting, Building, Releasing
<1> QED BY <1>1, <1>2, <1>3, <1>4, <1>5, <1>6 DEF ConnInv

LEMMA BindContextConn == TypeInv /\ ConnInv /\ BindContext => ConnInv'
<1> SUFFICES ASSUME TypeInv, ConnInv, BindContext PROVE ConnInv'
    OBVIOUS
<1>1. UNCHANGED <<appseq, procs>> /\ Lasting /\ Pids' = Pids
    BY StillLasting DEF BindContext
<1>2. CASE root[app.name] # None
    BY <1>1, <1>2, ConnStays DEF BindContext, Abort, callVars
<1>3. CASE root[app.name] = None
    <2>1. at' = "verify" /\ app'.ctx \notin DOMAIN ctxs
        BY <1>3, BindContextEffect DEF BindContext, App
    <2>2. \A p \in Pids : procs[p].ctx # app'.ctx
        BY <2>1 DEF TypeInv, Made
    <2> QED BY <1>1, <2>1, <2>2 DEF ConnInv, Noted, Building, Releasing
<1> QED BY <1>2, <1>3

LEMMA ExecuteConn == TypeInv /\ ConnInv /\ Execute => ConnInv'
<1> SUFFICES ASSUME TypeInv, ConnInv, Execute PROVE ConnInv'
    OBVIOUS
<1> DEFINE pid == Len(procs) + 1
<1>1. /\ at = "execute" /\ UNCHANGED appseq
      /\ \/ (Abort("InvalidState") \/ Abort("InvalidFileName")) /\ UNCHANGED procs
         \/ Forks
         \/ ForksNot
    BY ExecuteEffect
<1>2. CASE (Abort("InvalidState") \/ Abort("InvalidFileName")) /\ UNCHANGED procs
    BY <1>1, <1>2, StillLasting, ConnStays DEF Abort, callVars
<1>3. app \in Application
    BY <1>1, WorkingApp DEF Working, Building
<1>4. ASSUME NEW pids, AfterExecute(pids)
      PROVE  at' \in Building /\ at \in Building /\ app'.ctx = app.ctx /\ app'.links = app.links
    BY <1>1, <1>3, <1>4 DEF AfterExecute, Building, Application
<1>5. CASE ForksNot
    BY <1>1, <1>4, <1>5, StillLasting, ConnStays DEF ForksNot
<1>6. CASE Forks
    <2>1. /\ pid \notin Pids /\ Pids' = Pids \cup {pid} /\ \A q \in Pids : procs'[q] = procs[q]
          /\ procs'[pid].ctx = app.ctx /\ procs'[pid].released = FALSE /\ procs'[pid].conns = {}
          /\ AfterExecute(Append(app.pids, pid))
        BY <1>6 DEF Forks
    <2> HIDE DEF pid
    <2>2. at' \in Building /\ at \in Building /\ app'.ctx = app.ctx /\ app'.links = app.links
        BY <1>4, <2>1
    <2>3. \A p \in Pids' : \A l \in procs'[p].conns : procs'[l.to].ctx = procs'[p].ctx
        BY <2>1 DEF TypeInv, Made, ConnInv
    <2>4. \A p, q \in Pids' :
              procs'[p].released /\ procs'[q].ctx = procs'[p].ctx => procs'[q].conns = {}
        BY <2>1 DEF ConnInv
    <2>5. \A k \in DOMAIN appseq' : Noted(appseq[k], 1)'
        BY <1>1, <2>1 DEF ConnInv, Noted
    <2>6. Noted(app, 1)'
        BY <2>1, <2>2 DEF ConnInv, Noted
    <2> QED BY <2>2, <2>3, <2>4, <2>5, <2>6 DEF ConnInv, Building, Releasing
<1> QED BY <1>1, <1>2, <1>5, <1>6

\* A connection is made between processes of the application, and noted.
LEMMA ConnectConn == TypeInv /\ NameInv /\ OwnInv /\ ConnInv /\ Connect => ConnInv'
<1> SUFFICES ASSUME TypeInv, NameInv, OwnInv, ConnInv, Connect PROVE ConnInv'
    OBVIOUS
<1> DEFINE user == ctxs[app.ctx].bound[Conns[app.f][nth].uses]
           provider == ctxs[app.ctx].bound[Conns[app.f][nth].provides]
           new == [id |-> nth, to |-> provider]
           link == [port |-> user, id |-> nth]
<1>1. /\ at = "connect" /\ user \in Pids /\ provider \in Pids /\ user # None /\ provider # None
      /\ Conns[app.f][nth].uses \in Components /\ Conns[app.f][nth].provides \in Components
      /\ UNCHANGED appseq /\ nth \in Nat
      /\ \/ Raise /\ UNCHANGED procs
         \/ /\ ProcIs(user, procs[user].st, procs[user].released, procs[user].crashed,
                      procs[user].conns \cup {new})
            /\ UNCHANGED at /\ app'.ctx = app.ctx /\ app'.links = Append(app.links, link)
    BY ConnectEffect
<1>2. app \in Application /\ app.ctx \in DOMAIN ctxs
    BY <1>1, WorkingApp DEF Working, Building
<1>3. procs[user].ctx = app.ctx /\ procs[provider].ctx = app.ctx
    BY <1>1, <1>2 DEF OwnInv, BoundInv
<1>4. new.to = provider /\ new.id = nth /\ link.port = user /\ link.id = nth
    OBVIOUS
<1>5. CASE Raise /\ UNCHANGED procs
    BY <1>1, <1>5, StillLasting, ConnStays DEF Raise, Idle
<1>6. CASE /\ ProcIs(user, procs[user].st, procs[user].released, procs[user].crashed,
                     procs[user].conns \cup {new})
           /\ UNCHANGED at /\ app'.ctx = app.ctx /\ app'.links = Append(app.links, link)
    <2>1. /\ app.links \in Seq([port : Nat, id : Nat]) /\ link \in [port : Nat, id : Nat]
        BY <1>1, <1>2, ProcType DEF Application, TypeInv
    <2> HIDE DEF user, provider, new, link
    <2>2. /\ Len(app'.links) = Len(app.links) + 1 /\ Len(app.links) \in Nat
          /\ \A j \in 1 .. Len(app.links) : app'.links[j] = app.links[j]
          /\ app'.links[Len(app.links) + 1] = link
        BY <1>6, <2>1, AppendProperties, LenProperties
    <2>3. /\ Pids' = Pids
          /\ \A q \in Pids : /\ procs'[q].ctx = procs[q].ctx /\ procs'[q].released = procs[q].released
                             /\ q # user => procs'[q].conns = procs[q].conns
          /\ procs'[user].conns = procs[user].conns \cup {new}
        BY <1>1, <1>6, ProcKeeps
    <2>4. ASSUME NEW p \in Pids, NEW l \in procs'[p].conns
          PROVE  procs'[l.to].ctx = procs'[p].ctx
        <3>1. CASE l \in procs[p].conns
            BY <2>3, <3>1 DEF ConnInv, TypeInv, Made
        <3>2. CASE p = user /\ l = new
            BY <1>1, <1>3, <1>4, <2>3, <3>2
        <3> QED BY <2>3, <2>4, <3>1, <3>2
    <2>5. \A p, q \in Pids : procs'[p].released /\ procs'[q].ctx = procs'[p].ctx => procs'[q].conns = {}
        <3>1. \A p \in Pids : procs[p].ctx = app.ctx => ~procs[p].released
            BY <1>1 DEF TypeInv, FreshInv, Building
        <3> QED BY <1>1, <1>3, <2>3, <3>1 DEF ConnInv
    <2>6. \A k \in DOMAIN appseq' : Noted(appseq[k], 1)'
        <3>1. \A k \in DOMAIN appseq : appseq[k].ctx # app.ctx
            BY <1>1, OtherContexts DEF Building
        <3> QED BY <1>1, <1>3, <2>3, <3>1 DEF ConnInv, Noted
    <2>7. ASSUME NEW p \in Pids, procs[p].ctx = app.ctx, NEW l \in procs'[p].conns
          PROVE  \E j \in 1 .. Len(app'.links) : app'.links[j].port = p /\ app'.links[j].id = l.id
        <3>1. CASE l \in procs[p].conns
            <4>1. PICK j \in 1 .. Len(app.links) : app.links[j].port = p /\ app.links[j].id = l.id
                BY <1>1, <2>7, <3>1 DEF ConnInv, Noted, Building
            <4>2. j \in 1 .. Len(app'.links)
                BY <2>2
            <4> QED BY <2>2, <4>1, <4>2
        <3>2. CASE p = user /\ l = new
            <4>1. Len(app.links) + 1 \in 1 .. Len(app'.links)
                BY <2>2
            <4> QED BY <1>4, <2>2, <3>2, <4>1
        <3> QED BY <2>3, <2>7, <3>1, <3>2
    <2>8. Noted(app, 1)'
        BY <1>6, <2>3, <2>7 DEF Noted
    <2> QED BY <1>1, <1>6, <2>3, <2>4, <2>5, <2>6, <2>8 DEF ConnInv, Building, Releasing
<1> QED BY <1>1, <1>5, <1>6

LEMMA ListConn == TypeInv /\ ConnInv /\ ListApplication => ConnInv'
<1> SUFFICES ASSUME TypeInv, ConnInv, ListApplication PROVE ConnInv'
    OBVIOUS
<1>1. at' = "idle" /\ UNCHANGED procs
    BY DEF ListApplication, Idle
<1>2. Noted(app, 1)
    BY ListEffect DEF ConnInv, Building
<1>3. \A k \in DOMAIN appseq' : Noted(appseq[k], 1)'
    BY <1>1, <1>2, ListEffect DEF ConnInv, Noted, Pids
<1> QED BY <1>1, <1>3 DEF ConnInv, Building, Releasing, Pids

LEMMA CallReleaseConn ==
    ASSUME ConnInv, NEW k \in DOMAIN appseq, CallRelease(k)
    PROVE  ConnInv'
<1>1. at' = "unlist" /\ app' = appseq[k] /\ UNCHANGED <<appseq, procs>>
    BY DEF CallRelease
<1> QED BY <1>1 DEF ConnInv, Noted, Building, Releasing, Pids

LEMMA UnlistConn == TypeInv /\ NameInv /\ ConnInv /\ Unlist => ConnInv'
<1> SUFFICES ASSUME TypeInv, NameInv, ConnInv, Unlist PROVE ConnInv'
    OBVIOUS
<1>1. at = "unlist" /\ at' = "disconnect" /\ nth' = 1 /\ UNCHANGED <<app, procs>>
    BY DEF Unlist, GoTo
<1>2. \A j \in DOMAIN appseq' : \E i \in DOMAIN appseq : appseq'[j] = appseq[i]
    BY UnlistsOne DEF UnlistsAt
<1>3. \A j \in DOMAIN appseq' : Noted(appseq[j], 1)'
    BY <1>1, <1>2 DEF ConnInv, Noted, Pids
<1> QED BY <1>1, <1>3 DEF ConnInv, Noted, Building, Releasing, Pids

\* The connections that are left are those the release has not come to.
LEMMA DisconnectConn == TypeInv /\ NameInv /\ ConnInv /\ Disconnect => ConnInv'
<1> SUFFICES ASSUME TypeInv, NameInv, ConnInv, Disconnect PROVE ConnInv'
    OBVIOUS
<1> DEFINE link == app.links[nth]
           port == link.port
<1>1. at = "disconnect" /\ UNCHANGED appseq /\ nth \in Nat /\ Noted(app, nth)
    BY DisconnectEffect DEF ConnInv
<1>2. app.links \in Seq([port : Nat, id : Nat]) /\ Len(app.links) \in Nat
    BY <1>1, WorkingApp, LenProperties DEF Application, Working, Releasing
<1>3. CASE Raise /\ UNCHANGED procs
    BY <1>1, <1>3, StillLasting, ConnStays DEF Raise, Idle
<1>4. CASE nth > Len(app.links) /\ GoTo("releaseObject", 1) /\ UNCHANGED procs
    <2>1. nth .. Len(app.links) = {}
        BY <1>1, <1>2, <1>4
    <2>2. \A p \in Pids : procs[p].ctx = app.ctx => procs[p].conns = {}
        BY <1>1, <2>1 DEF Noted
    <2> QED BY <1>1, <1>4, <2>2 DEF ConnInv, Noted, GoTo, Building, Releasing, Pids
<1>5. CASE /\ nth \in 1 .. Len(app.links) /\ port \in Pids
           /\ ProcIs(port, procs[port].st, procs[port].released, procs[port].crashed,
                     {c \in procs[port].conns : c.id # link.id})
           /\ GoTo("disconnect", nth + 1)
    <2> HIDE DEF link, port
    <2>1. /\ Pids' = Pids
          /\ \A q \in Pids : /\ procs'[q].ctx = procs[q].ctx /\ procs'[q].released = procs[q].released
                             /\ q # port => procs'[q].conns = procs[q].conns
          /\ procs'[port].conns = {c \in procs[port].conns : c.id # link.id}
        BY <1>5, ProcKeeps
    <2>2. at' = "disconnect" /\ nth' = nth + 1 /\ app' = app
        BY <1>5 DEF GoTo
    <2>3. \A p \in Pids : procs'[p].conns \subseteq procs[p].conns
        BY <2>1
    <2>4. \A p \in Pids' : \A l \in procs'[p].conns : procs'[l.to].ctx = procs'[p].ctx
        BY <2>1, <2>3 DEF ConnInv, TypeInv, Made
    <2>5. \A p, q \in Pids' :
              procs'[p].released /\ procs'[q].ctx = procs'[p].ctx => procs'[q].conns = {}
        BY <2>1, <2>3 DEF ConnInv
    <2>6. \A k \in DOMAIN appseq' : Noted(appseq[k], 1)'
        BY <1>1, <2>1, <2>3 DEF ConnInv, Noted
    <2>7. ASSUME NEW p \in Pids, procs[p].ctx = app.ctx, NEW l \in procs'[p].conns
          PROVE  \E j \in nth + 1 .. Len(app.links) : app.links[j].port = p /\ app.links[j].id = l.id
        <3>1. PICK j \in nth .. Len(app.links) : app.links[j].port = p /\ app.links[j].id = l.id
            BY <1>1, <2>3, <2>7 DEF Noted
        <3>2. j # nth
            BY <2>1, <2>7, <3>1 DEF link, port
        <3>3. j \in nth + 1 .. Len(app.links)
            BY <1>1, <1>2, <3>2
        <3> QED BY <3>1, <3>3
    <2>8. Noted(app, nth)'
        BY <2>1, <2>2, <2>7 DEF Noted
    <2> QED BY <2>2, <2>4, <2>5, <2>6, <2>8 DEF ConnInv, Building, Releasing
<1> QED BY <1>3, <1>4, <1>5, DisconnectEffect

LEMMA ReleaseResourceConn == TypeInv /\ OwnInv /\ ConnInv /\ ReleaseResource => ConnInv'
<1> SUFFICES ASSUME TypeInv, OwnInv, ConnInv, ReleaseResource PROVE ConnInv'
    OBVIOUS
<1> DEFINE p == info[comp].pid
<1>1. at = "releaseObject" /\ UNCHANGED appseq /\ p \in Pids /\ procs[p].ctx = app.ctx
    BY ReleaseResourceEffect, ReleasedComp
<1>2. CASE Raise /\ UNCHANGED procs
    BY <1>1, <1>2, StillLasting, ConnStays DEF Raise, Idle
<1>3. CASE \E s : /\ ProcIs(p, s, TRUE, procs[p].crashed, procs[p].conns)
                  /\ s \in {"woken", procs[p].st} /\ Alive(p)
                  /\ GoTo("unload", nth) /\ UNCHANGED raised
    <2>1. /\ Pids' = Pids /\ at' = "unload" /\ app' = app
          /\ \A q \in Pids : /\ procs'[q].ctx = procs[q].ctx /\ procs'[q].conns = procs[q].conns
                             /\ q # p => procs'[q].released = procs[q].released
        BY <1>3 DEF ProcIs, GoTo
    <2> HIDE DEF p
    <2>2. \A q \in Pids : procs[q].ctx = app.ctx => procs[q].conns = {}
        BY <1>1 DEF ConnInv, Releasing
    <2>3. \A q \in Pids' : \A l \in procs'[q].conns : procs'[l.to].ctx = procs'[q].ctx
        BY <2>1 DEF ConnInv, TypeInv, Made
    <2>4. \A q, r \in Pids' :
              procs'[q].released /\ procs'[r].ctx = procs'[q].ctx => procs'[r].conns = {}
        BY <1>1, <2>1, <2>2 DEF ConnInv
    <2>5. \A k \in DOMAIN appseq' : Noted(appseq[k], 1)'
        BY <1>1, <2>1 DEF ConnInv, Noted
    <2> QED BY <2>1, <2>2, <2>3, <2>4, <2>5 DEF ConnInv, Building
<1> QED BY <1>2, <1>3, ReleaseResourceEffect

LEMMA StillConn ==
    ASSUME TypeInv, OwnInv, ConnInv,
           \/ RefuseName \/ VerifyDeviceAssignments \/ GetRegisteredDevices \/ Load \/ AwaitComponent
           \/ Unload \/ Terminate \/ UnbindContext \/ DestroyContext
    PROVE  ConnInv'
<1>1. CASE RefuseName
    BY <1>1, StillLasting, ConnStays DEF RefuseName, Raise, Idle
<1>2. CASE VerifyDeviceAssignments
    BY <1>2, StillLasting, ConnStays DEF VerifyDeviceAssignments, Raise, Idle, GoTo, Building
<1>3. CASE GetRegisteredDevices
    BY <1>3, StillLasting, ConnStays DEF GetRegisteredDevices, GoTo, Building
<1>4. CASE Load
    BY <1>4, StillLasting, ConnStays DEF Load, Abort, callVars, GoTo, Building
<1>5. CASE AwaitComponent
    BY <1>5, StillLasting, ConnStays DEF AwaitComponent, Raise, Idle, GoTo, Building
<1>6. CASE Unload
    BY <1>6, StillLasting, ConnStays DEF Unload, Abort, callVars, GoTo, Releasing
<1>7. CASE Terminate
    <2> DEFINE p == info[comp].pid
    <2>1. at = "terminate" /\ UNCHANGED appseq /\ p \in Pids
        BY <1>7, TerminateEffect, ReleasedComp
    <2>2. CASE Abort("InvalidState") /\ UNCHANGED procs
        BY <2>1, <2>2, StillLasting, ConnStays DEF Abort, callVars
    <2>3. CASE /\ ProcIs(p, "reaped", procs[p].released, procs[p].crashed, procs[p].conns)
               /\ AfterTerminate
        <3> HIDE DEF p
        <3>1. /\ Pids' = Pids /\ Lasting
              /\ \A q \in Pids : procs'[q].released = procs[q].released /\ procs'[q].conns = procs[q].conns
            BY <2>1, <2>3 DEF ProcIs, Lasting
        <3>2. at' \in {"releaseObject", "unbind"} /\ app' = app
            BY <2>3 DEF AfterTerminate, GoTo
        <3> QED BY <2>1, <3>1, <3>2, ConnStays DEF Releasing
    <2> QED BY <1>7, <2>2, <2>3, TerminateEffect
<1>8. CASE UnbindContext
    BY <1>8, StillLasting, ConnStays DEF UnbindContext, Abort, callVars, GoTo, Releasing
<1>9. CASE DestroyContext
    BY <1>9, StillLasting, ConnStays DEF DestroyContext, Abort, callVars, Idle
<1> QED BY <1>1, <1>2, <1>3, <1>4, <1>5, <1>6, <1>7, <1>8, <1>9

LEMMA ProcessConn ==
    ASSUME TypeInv, ConnInv, NEW p \in Pids, ProcessStep(p) \/ Crash(p)
    PROVE  ConnInv'
<1>1. /\ UNCHANGED <<at, app, nth, appseq>> /\ Lasting /\ Pids' = Pids
      /\ \A q \in Pids : procs'[q].released = procs[q].released /\ procs'[q].conns = procs[q].conns
    BY ProcessEffect DEF domainVars, callVars, ProcIs
<1> QED BY <1>1, ConnStays

LEMMA ConnStep == ExclusiveInv /\ ConnInv /\ [Next]_vars => ConnInv'
<1> SUFFICES ASSUME TypeInv, NameInv, OwnInv, ConnInv, [Next]_vars PROVE ConnInv'
    BY DEF ExclusiveInv
<1>1. ASSUME UNCHANGED <<domainVars, procs>> PROVE ConnInv'
    BY <1>1, StillLasting, ConnStays DEF domainVars, callVars
<1>2. CASE UNCHANGED vars
    BY <1>1, <1>2 DEF vars
<1>3. CASE \E f \in Factories, name \in Names : \E a \in Assignments(f) : CallCreate(f, name, a)
    BY <1>3, StillLasting, ConnStays DEF CallCreate
<1>4. CASE \E k \in DOMAIN appseq : CallRelease(k)
    BY <1>4, CallReleaseConn
<1>5. CASE DomainStep
    BY <1>5, StillConn, BindContextConn, ExecuteConn, ConnectConn, ListConn, UnlistConn,
       DisconnectConn, ReleaseResourceConn DEF DomainStep
<1>6. CASE \E p \in DOMAIN procs : ProcessStep(p) \/ Crash(p)
    BY <1>6, ProcessConn DEF Pids
<1>7. CASE \E d \in Devices :
              \/ RegisterDevice(d)
              \/ \E s \in {"UNLOCKED", "LOCKED", "SHUTTING_DOWN"} : SetAdminState(d, s)
    BY <1>1, <1>7 DEF RegisterDevice, SetAdminState
<1> QED BY <1>2, <1>3, <1>4, <1>5, <1>6, <1>7 DEF Next

\* Application_impl.cpp:226-238: every connection of an application is undone
\* before its first component is released, so no process that runs is left
\* connected to a released one.
THEOREM NoDanglingAlways == ASSUME Exclusive PROVE Spec => []NoDanglingConnection
<1>1. Init => ConnInv
    BY ConnInit
<1>2. ExclusiveInv /\ ConnInv /\ [Next]_vars => ConnInv'
    BY ConnStep
<1>3. ExclusiveInv /\ ConnInv => NoDanglingConnection
    <2> SUFFICES ASSUME TypeInv, ConnInv, NEW p \in Pids, NEW c \in procs[p].conns
                 PROVE  ~procs[c.to].released
        BY DEF NoDanglingConnection, ExclusiveInv
    <2>1. c.to \in Pids /\ procs[c.to].ctx = procs[p].ctx
        BY DEF TypeInv, Made, ConnInv
    <2> QED BY <2>1 DEF ConnInv
<1> QED BY <1>1, <1>2, <1>3, ExclusiveAlways, PTL DEF Spec

-----------------------------------------------------------------------------
(* How often a file is loaded.                                             *)

LEMMA UsingFinite ==
    ASSUME TypeInv, NEW d, NEW x
    PROVE  IsFiniteSet(Using(d, x)) /\ Cardinality(Using(d, x)) \in Nat
<1>1. Pids = 1 .. Len(procs) /\ Len(procs) \in Nat
    BY ProcType DEF TypeInv
<1>2. IsFiniteSet(Pids)
    BY <1>1, FS_Interval
<1>3. Using(d, x) \in SUBSET Pids
    BY DEF Using
<1>4. IsFiniteSet(Using(d, x))
    BY <1>2, <1>3, FS_Subset
<1> QED BY <1>4, FS_CardinalityType

LEMMA LoadInit == Init => LoadInv
<1> SUFFICES ASSUME Init PROVE LoadInv
    OBVIOUS
<1>1. ASSUME NEW d \in Devices, NEW x \in Files
      PROVE  loadedFiles[d][x] >= Cardinality(Using(d, x)) + Pending(d, x)
    <2>1. Using(d, x) = {}
        BY DEF Init, Using, Pids
    <2>2. Pending(d, x) = 0 /\ loadedFiles[d][x] = 0
        BY <1>1 DEF Init, Pending
    <2> QED BY <2>1, <2>2, FS_EmptySet
<1> QED BY <1>1 DEF Init, LoadInv

\* What a step that loads, starts, releases and unloads nothing must keep to.
LEMMA LoadStays ==
    ASSUME TypeInv, LoadInv, Lasting, Pids' = Pids, UNCHANGED loadedFiles,
           \A p \in Pids : procs'[p].released = procs[p].released,
           dmn' # "InvalidFileName" \/ dmn' = dmn,
           at' \notin {"execute", "unload"} \/ UNCHANGED <<at, app, nth, info>>
    PROVE  LoadInv'
<1>1. ASSUME NEW d \in Devices, NEW x \in Files
      PROVE  loadedFiles'[d][x] >= Cardinality(Using(d, x))' + Pending(d, x)'
    <2>1. Using(d, x)' = Using(d, x)
        BY DEF Using, Lasting
    <2>2. Pending(d, x)' = 0 \/ Pending(d, x)' = Pending(d, x)
        BY DEF Pending, comp
    <2>3. Pending(d, x) \in {0, 1}
        BY DEF Pending
    <2>4. loadedFiles[d][x] \in Nat /\ loadedFiles[d][x] >= Cardinality(Using(d, x)) + Pending(d, x)
        BY DEF TypeInv, Types, LoadInv
    <2>5. Cardinality(Using(d, x)) \in Nat
        BY UsingFinite
    <2>6. Cardinality(Using(d, x))' = Cardinality(Using(d, x))
        BY <2>1
    <2> HIDE DEF Using, Pending
    <2> QED BY <2>2, <2>3, <2>4, <2>5, <2>6
<1> QED BY <1>1 DEF LoadInv

\* Loading counts the file once more than it did.
LEMMA LoadLoads == TypeInv /\ LoadInv /\ Load => LoadInv'
<1> SUFFICES ASSUME TypeInv, LoadInv, Load PROVE LoadInv'
    OBVIOUS
<1> DEFINE e == info[comp].assigned
<1>1. /\ at = "load" /\ UNCHANGED <<info, procs>>
      /\ \/ (Abort("assert") \/ Abort("InvalidState")) /\ UNCHANGED loadedFiles
         \/ /\ loadedFiles' = [loadedFiles EXCEPT ![e][File[comp]] = IncrementFile(@)]
            /\ GoTo("execute", nth) /\ UNCHANGED dmn
    BY DEF Load
<1>2. CASE (Abort("assert") \/ Abort("InvalidState")) /\ UNCHANGED loadedFiles
    BY <1>1, <1>2, StillLasting, LoadStays DEF Abort, callVars
<1>3. CASE /\ loadedFiles' = [loadedFiles EXCEPT ![e][File[comp]] = IncrementFile(@)]
           /\ GoTo("execute", nth) /\ UNCHANGED dmn
    <2>1. at' = "execute" /\ comp' = comp /\ nth' = nth /\ app' = app
        BY <1>3 DEF GoTo, comp
    <2>2. ASSUME NEW d \in Devices, NEW x \in Files
          PROVE  loadedFiles'[d][x] >= Cardinality(Using(d, x))' + Pending(d, x)'
        <3>1. Cardinality(Using(d, x))' = Cardinality(Using(d, x))
            BY <1>1 DEF Using, Pids
        <3>2. Pending(d, x)' = IF d = e /\ x = File[comp] THEN 1 ELSE 0
            BY <1>1, <2>1 DEF Pending
        <3>3. loadedFiles[d][x] \in Nat /\ loadedFiles[d][x] >= Cardinality(Using(d, x))
            <4>1. Pending(d, x) = 0
                BY <1>1 DEF Pending
            <4> QED BY <4>1, UsingFinite DEF TypeInv, Types, LoadInv
        <3>4. loadedFiles'[d][x] = IF d = e /\ x = File[comp]
                                   THEN IncrementFile(loadedFiles[d][x]) ELSE loadedFiles[d][x]
            <4>1. loadedFiles \in [Devices -> [Files -> Nat]]
                BY DEF TypeInv, Types
            <4> HIDE DEF e
            <4> QED BY <1>3, <4>1
        <3>5. Cardinality(Using(d, x)) \in Nat
            BY UsingFinite
        <3> HIDE DEF Using, Pending, e
        <3> QED BY <3>1, <3>2, <3>3, <3>4, <3>5 DEF IncrementFile
    <2>3. dmn' # "InvalidFileName"
        BY <1>3 DEF LoadInv
    <2> QED BY <2>2, <2>3 DEF LoadInv
<1> QED BY <1>1, <1>2, <1>3

\* The process that is started takes the place of the execution to come.
LEMMA ExecuteLoads == TypeInv /\ LoadInv /\ Execute => LoadInv'
<1> SUFFICES ASSUME TypeInv, LoadInv, Execute PROVE LoadInv'
    OBVIOUS
<1> DEFINE e == info[comp].assigned
           pid == Len(procs) + 1
<1>1. /\ at = "execute" /\ UNCHANGED loadedFiles
      /\ \/ Abort("InvalidState") /\ UNCHANGED <<info, procs>>
         \/ /\ loadedFiles[e][File[comp]] = 0
            /\ Abort("InvalidFileName") /\ UNCHANGED <<info, procs>>
         \/ Forks
         \/ ForksNot
    BY ExecuteEffect DEF deviceVars
<1>2. e \in Devices /\ File[comp] \in Files
    <2>1. comp \in ToSet(Comps[app.f]) /\ File[comp] \in Files
        BY <1>1, CompType DEF ComponentSteps
    <2> QED BY <1>1, <2>1 DEF TypeInv, CallInv
<1>3. Pending(e, File[comp]) = 1
    BY <1>1 DEF Pending
<1>4. loadedFiles[e][File[comp]] > 0
    <2> DEFINE n == Cardinality(Using(e, File[comp]))
    <2>1. n \in Nat
        BY UsingFinite
    <2>2. loadedFiles[e][File[comp]] >= n + 1 /\ loadedFiles[e][File[comp]] \in Nat
        BY <1>2, <1>3 DEF LoadInv, TypeInv, Types
    <2> HIDE DEF n, e
    <2> QED BY <2>1, <2>2
<1>5. CASE Abort("InvalidState") /\ UNCHANGED <<info, procs>>
    BY <1>1, <1>5, StillLasting, LoadStays DEF Abort, callVars
<1>6. CASE ForksNot
    BY <1>1, <1>6, StillLasting, LoadStays DEF ForksNot, AfterExecute
<1>7. CASE Forks
    <2>1. /\ pid \notin Pids /\ Pids' = Pids \cup {pid} /\ \A q \in Pids : procs'[q] = procs[q]
          /\ procs'[pid].dev = e /\ procs'[pid].comp = comp /\ procs'[pid].released = FALSE
          /\ at' \in {"load", "await"} /\ UNCHANGED dmn
        BY <1>7 DEF Forks, AfterExecute
    <2> HIDE DEF pid, e
    <2>2. ASSUME NEW d \in Devices, NEW x \in Files
          PROVE  loadedFiles'[d][x] >= Cardinality(Using(d, x))' + Pending(d, x)'
        <3>1. Pending(d, x)' = 0
            BY <2>1 DEF Pending
        <3>2. Using(d, x)' = IF d = e /\ x = File[comp] THEN Using(d, x) \cup {pid} ELSE Using(d, x)
            BY <2>1 DEF Using
        <3>3. pid \notin Using(d, x)
            BY <2>1 DEF Using
        <3>4. /\ IsFiniteSet(Using(d, x)) /\ Cardinality(Using(d, x)) \in Nat
              /\ loadedFiles[d][x] >= Cardinality(Using(d, x)) + Pending(d, x)
              /\ loadedFiles[d][x] \in Nat
            BY UsingFinite DEF LoadInv, TypeInv, Types
        <3>5. CASE d = e /\ x = File[comp]
            <4>1. Cardinality(Using(d, x))' = Cardinality(Using(d, x)) + 1
                BY <3>2, <3>3, <3>4, <3>5, FS_AddElement
            <4>2. Pending(d, x) = 1
                BY <1>3, <3>5
            <4> HIDE DEF Using, Pending
            <4> QED BY <1>1, <3>1, <3>4, <4>1, <4>2
        <3>6. CASE ~(d = e /\ x = File[comp])
            <4>1. Cardinality(Using(d, x))' = Cardinality(Using(d, x))
                BY <3>2, <3>6
            <4>2. Pending(d, x) \in {0, 1}
                BY DEF Pending
            <4> HIDE DEF Using, Pending
            <4> QED BY <1>1, <3>1, <3>4, <4>1, <4>2
        <3> QED BY <3>5, <3>6
    <2>3. dmn' # "InvalidFileName"
        BY <2>1 DEF LoadInv
    <2> QED BY <2>2, <2>3 DEF LoadInv
<1> QED BY <1>1, <1>4, <1>5, <1>6, <1>7

\* The process that is released leaves its place to the unloading to come.
LEMMA ReleaseResourceLoads ==
    TypeInv /\ OwnInv /\ ReleaseInv /\ LoadInv /\ ReleaseResource => LoadInv'
<1> SUFFICES ASSUME TypeInv, OwnInv, ReleaseInv, LoadInv, ReleaseResource PROVE LoadInv'
    OBVIOUS
<1> DEFINE p == info[comp].pid
<1>1. at = "releaseObject" /\ UNCHANGED <<dmn, info, loadedFiles>>
    BY ReleaseResourceEffect DEF deviceVars
<1>2. /\ p \in Pids /\ procs[p].comp = comp /\ info[comp].device = procs[p].dev
      /\ nth \in DOMAIN Comps[app.f] /\ nth \in Nat /\ comp = Comps[app.f][nth]
    BY <1>1, ReleasedComp
<1>3. ~procs[p].released
    <2>1. nth \in nth .. Len(Comps[app.f])
        BY <1>1, <1>2, ReleasedPids DEF Releasing
    <2> QED BY <1>1, <1>2, <2>1 DEF ReleaseInv, Pid
<1>4. CASE Raise /\ UNCHANGED procs
    BY <1>1, <1>4, StillLasting, LoadStays DEF Raise, Idle
<1>5. CASE \E s : ProcIs(p, s, TRUE, procs[p].crashed, procs[p].conns) /\ GoTo("unload", nth)
    <2> HIDE DEF p
    <2>1. /\ Pids' = Pids /\ procs'[p].released
          /\ \A q \in Pids : /\ procs'[q].comp = procs[q].comp /\ procs'[q].dev = procs[q].dev
                             /\ q # p => procs'[q].released = procs[q].released
        BY <1>5 DEF ProcIs
    <2>2. at' = "unload" /\ comp' = comp
        BY <1>5 DEF GoTo, comp
    <2>3. ASSUME NEW d \in Devices, NEW x \in Files
          PROVE  loadedFiles'[d][x] >= Cardinality(Using(d, x))' + Pending(d, x)'
        <3>1. Pending(d, x)' = IF d = procs[p].dev /\ x = File[comp] THEN 1 ELSE 0
            BY <1>1, <1>2, <2>2 DEF Pending
        <3>2. Using(d, x)' = Using(d, x) \ {p}
            BY <2>1 DEF Using
        <3>3. p \in Using(d, x) <=> d = procs[p].dev /\ x = File[comp]
            BY <1>2, <1>3 DEF Using
        <3>4. /\ IsFiniteSet(Using(d, x)) /\ Cardinality(Using(d, x)) \in Nat
              /\ loadedFiles[d][x] >= Cardinality(Using(d, x)) + Pending(d, x)
              /\ loadedFiles[d][x] \in Nat /\ Pending(d, x) = 0
            BY <1>1, UsingFinite DEF LoadInv, TypeInv, Types, Pending
        <3>5. Cardinality(Using(d, x))' = IF p \in Using(d, x) THEN Cardinality(Using(d, x)) - 1
                                                             ELSE Cardinality(Using(d, x))
            BY <3>2, <3>4, FS_RemoveElement
        <3> HIDE DEF Using, Pending
        <3> QED BY <1>1, <3>1, <3>3, <3>4, <3>5
    <2>4. dmn' # "InvalidFileName"
        BY <1>1 DEF LoadInv
    <2> QED BY <2>3, <2>4 DEF LoadInv
<1> QED BY <1>4, <1>5, ReleaseResourceEffect

LEMMA UnloadLoads == TypeInv /\ OwnInv /\ LoadInv /\ Unload => LoadInv'
<1> SUFFICES ASSUME TypeInv, OwnInv, LoadInv, Unload PROVE LoadInv'
    OBVIOUS
<1> DEFINE e == info[comp].device
<1>1. /\ at = "unload" /\ UNCHANGED <<info, procs>>
      /\ \/ Abort("InvalidState") /\ UNCHANGED loadedFiles
         \/ loadedFiles[e][File[comp]] = 0 /\ Abort("InvalidFileName")
         \/ /\ loadedFiles' = [loadedFiles EXCEPT ![e][File[comp]] = @ - 1]
            /\ GoTo("terminate", nth) /\ UNCHANGED dmn
    BY DEF Unload
<1>2. e \in Devices /\ File[comp] \in Files
    BY <1>1, ReleasedComp, CompType DEF ComponentSteps
<1>3. Pending(e, File[comp]) = 1
    BY <1>1 DEF Pending
<1>4. loadedFiles[e][File[comp]] > 0
    <2> DEFINE n == Cardinality(Using(e, File[comp]))
    <2>1. n \in Nat
        BY UsingFinite
    <2>2. loadedFiles[e][File[comp]] >= n + 1 /\ loadedFiles[e][File[comp]] \in Nat
        BY <1>2, <1>3 DEF LoadInv, TypeInv, Types
    <2> HIDE DEF n, e
    <2> QED BY <2>1, <2>2
<1>5. CASE Abort("InvalidState") /\ UNCHANGED loadedFiles
    BY <1>1, <1>5, StillLasting, LoadStays DEF Abort, callVars
<1>6. CASE /\ loadedFiles' = [loadedFiles EXCEPT ![e][File[comp]] = @ - 1]
           /\ GoTo("terminate", nth) /\ UNCHANGED dmn
    <2>1. at' = "terminate"
        BY <1>6 DEF GoTo
    <2>2. ASSUME NEW d \in Devices, NEW x \in Files
          PROVE  loadedFiles'[d][x] >= Cardinality(Using(d, x))' + Pending(d, x)'
        <3>1. Cardinality(Using(d, x))' = Cardinality(Using(d, x))
            BY <1>1 DEF Using, Pids
        <3>2. Pending(d, x)' = 0
            BY <2>1 DEF Pending
        <3>3. /\ Pending(d, x) = IF d = e /\ x = File[comp] THEN 1 ELSE 0
              /\ loadedFiles[d][x] \in Nat
              /\ loadedFiles[d][x] >= Cardinality(Using(d, x)) + Pending(d, x)
            BY <1>1 DEF Pending, LoadInv, TypeInv, Types
        <3>4. loadedFiles'[d][x] = IF d = e /\ x = File[comp]
                                   THEN loadedFiles[d][x] - 1 ELSE loadedFiles[d][x]
            <4>1. loadedFiles \in [Devices -> [Files -> Nat]]
                BY DEF TypeInv, Types
            <4> HIDE DEF e
            <4> QED BY <1>6, <4>1
        <3>5. Cardinality(Using(d, x)) \in Nat
            BY UsingFinite
        <3> HIDE DEF Using, Pending, e
        <3> QED BY <3>1, <3>2, <3>3, <3>4, <3>5
    <2>3. dmn' # "InvalidFileName"
        BY <1>6 DEF LoadInv
    <2> QED BY <2>2, <2>3 DEF LoadInv
<1> QED BY <1>1, <1>4, <1>5, <1>6

\* The steps of a call that do not concern its files.
LEMMA StillLoads ==
    ASSUME TypeInv, OwnInv, LoadInv,
           \/ RefuseName \/ BindContext \/ VerifyDeviceAssignments \/ GetRegisteredDevices
           \/ AwaitComponent \/ Connect \/ ListApplication \/ Unlist \/ Disconnect \/ Terminate
           \/ UnbindContext \/ DestroyContext
    PROVE  LoadInv'
<1>1. CASE RefuseName
    BY <1>1, StillLasting, LoadStays DEF RefuseName, Raise, Idle, deviceVars
<1>2. CASE BindContext
    BY <1>2, StillLasting, LoadStays DEF BindContext, Abort, callVars, deviceVars
<1>3. CASE VerifyDeviceAssignments
    BY <1>3, StillLasting, LoadStays DEF VerifyDeviceAssignments, Raise, Idle, GoTo, deviceVars
<1>4. CASE GetRegisteredDevices
    BY <1>4, StillLasting, LoadStays DEF GetRegisteredDevices, GoTo, deviceVars
<1>5. CASE AwaitComponent
    BY <1>5, StillLasting, LoadStays DEF AwaitComponent, Raise, Idle, GoTo, deviceVars
<1>6. CASE Connect
    <2>1. CASE Raise /\ UNCHANGED procs
        BY <1>6, <2>1, ConnectEffect, StillLasting, LoadStays DEF Raise, Idle, deviceVars
    <2>2. CASE ~(Raise /\ UNCHANGED procs)
        <3> DEFINE user == ctxs[app.ctx].bound[Conns[app.f][nth].uses]
        <3>1. /\ UNCHANGED <<dmn, at, deviceVars>> /\ at = "connect"
              /\ \E l : ProcIs(user, procs[user].st, procs[user].released, procs[user].crashed, l)
            BY <1>6, <2>2, ConnectEffect
        <3> HIDE DEF user
        <3>2. Lasting /\ Pids' = Pids /\ \A p \in Pids : procs'[p].released = procs[p].released
            BY <3>1 DEF ProcIs, Lasting
        <3> QED BY <3>1, <3>2, LoadStays DEF deviceVars
    <2> QED BY <2>1, <2>2
<1>7. CASE ListApplication
    BY <1>7, StillLasting, LoadStays DEF ListApplication, Idle, deviceVars
<1>8. CASE Unlist
    BY <1>8, StillLasting, LoadStays DEF Unlist, GoTo, deviceVars
<1>9. CASE Disconnect
    <2>1. /\ UNCHANGED <<dmn, deviceVars>> /\ at' \notin {"execute", "unload"}
          /\ Lasting /\ Pids' = Pids /\ \A p \in Pids : procs'[p].released = procs[p].released
        <3>1. CASE UNCHANGED procs
            BY <1>9, <3>1, DisconnectEffect, StillLasting DEF GoTo, Raise, Idle
        <3>2. CASE ~UNCHANGED procs
            <4> DEFINE q == app.links[nth].port
            <4>1. /\ UNCHANGED <<dmn, deviceVars>> /\ at' = "disconnect"
                  /\ \E l : ProcIs(q, procs[q].st, procs[q].released, procs[q].crashed, l)
                BY <1>9, <3>2, DisconnectEffect DEF GoTo
            <4> HIDE DEF q
            <4> QED BY <4>1 DEF ProcIs, Lasting
        <3> QED BY <3>1, <3>2
    <2> QED BY <2>1, LoadStays DEF deviceVars
<1>10. CASE Terminate
    <2> DEFINE p == info[comp].pid
    <2>1. at = "terminate" /\ UNCHANGED deviceVars /\ p \in Pids
        BY <1>10, TerminateEffect, ReleasedComp
    <2>2. CASE Abort("InvalidState") /\ UNCHANGED procs
        BY <2>1, <2>2, StillLasting, LoadStays DEF Abort, callVars, deviceVars
    <2>3. CASE /\ ProcIs(p, "reaped", procs[p].released, procs[p].crashed, procs[p].conns)
               /\ AfterTerminate /\ UNCHANGED dmn
        <3> HIDE DEF p
        <3>1. Pids' = Pids /\ Lasting /\ \A q \in Pids : procs'[q].released = procs[q].released
            BY <2>1, <2>3 DEF ProcIs, Lasting
        <3>2. at' \in {"releaseObject", "unbind"}
            BY <2>3 DEF AfterTerminate, GoTo
        <3> QED BY <2>1, <2>3, <3>1, <3>2, LoadStays DEF deviceVars
    <2> QED BY <1>10, <2>2, <2>3, TerminateEffect
<1>11. CASE UnbindContext
    BY <1>11, StillLasting, LoadStays DEF UnbindContext, Abort, callVars, GoTo, deviceVars
<1>12. CASE DestroyContext
    BY <1>12, StillLasting, LoadStays DEF DestroyContext, Abort, callVars, Idle, deviceVars
<1> QED BY <1>1, <1>2, <1>3, <1>4, <1>5, <1>6, <1>7, <1>8, <1>9, <1>10, <1>11, <1>12

LEMMA ProcessLoads ==
    ASSUME TypeInv, LoadInv, NEW p \in Pids, ProcessStep(p) \/ Crash(p)
    PROVE  LoadInv'
<1>1. /\ UNCHANGED <<dmn, at, app, nth, info, loadedFiles>> /\ Lasting /\ Pids' = Pids
      /\ \A q \in Pids : procs'[q].released = procs[q].released
    BY ProcessEffect DEF domainVars, callVars, deviceVars, ProcIs
<1> QED BY <1>1, LoadStays

LEMMA LoadStep == ExclusiveInv /\ LoadInv /\ [Next]_vars => LoadInv'
<1> SUFFICES ASSUME TypeInv, OwnInv, ReleaseInv, LoadInv, [Next]_vars PROVE LoadInv'
    BY DEF ExclusiveInv
<1>1. ASSUME UNCHANGED <<domainVars, loadedFiles, procs>> PROVE LoadInv'
    BY <1>1, StillLasting, LoadStays DEF domainVars, callVars
<1>2. CASE UNCHANGED vars
    BY <1>1, <1>2 DEF vars, deviceVars
<1>3. CASE \E f \in Factories, name \in Names : \E a \in Assignments(f) : CallCreate(f, name, a)
    BY <1>3, StillLasting, LoadStays DEF CallCreate, deviceVars
<1>4. CASE \E k \in DOMAIN appseq : CallRelease(k)
    BY <1>4, StillLasting, LoadStays DEF CallRelease, deviceVars
<1>5. CASE DomainStep
    BY <1>5, StillLoads, LoadLoads, ExecuteLoads, ReleaseResourceLoads, UnloadLoads DEF DomainStep
<1>6. CASE \E p \in DOMAIN procs : ProcessStep(p) \/ Crash(p)
    BY <1>6, ProcessLoads DEF Pids
<1>7. CASE \E d \in Devices :
              \/ RegisterDevice(d)
              \/ \E s \in {"UNLOCKED", "LOCKED", "SHUTTING_DOWN"} : SetAdminState(d, s)
    BY <1>1, <1>7 DEF RegisterDevice, SetAdminState
<1> QED BY <1>2, <1>3, <1>4, <1>5, <1>6, <1>7 DEF Next

LEMMA LoadAlways == ASSUME Exclusive PROVE Spec => [](ExclusiveInv /\ LoadInv)
<1>1. Init => LoadInv
    BY LoadInit
<1>2. ExclusiveInv /\ LoadInv /\ [Next]_vars => LoadInv'
    BY LoadStep
<1> QED BY <1>1, <1>2, ExclusiveAlways, PTL DEF Spec

\* GPP.cpp:261-345: the count a device keeps of a file is at least that of the
\* processes that run it and are not released, so no unload, of this or of
\* another application that uses the file, takes it away under them.
THEOREM LoadedAlways == ASSUME Exclusive PROVE Spec => []LoadedWhileRunning
<1>1. ExclusiveInv /\ LoadInv => LoadedWhileRunning
    <2> SUFFICES ASSUME TypeInv, LoadInv, NEW p \in Pids, ~procs[p].released
                 PROVE  loadedFiles[procs[p].dev][File[procs[p].comp]] > 0
        BY DEF LoadedWhileRunning, ExclusiveInv
    <2> DEFINE d == procs[p].dev
               x == File[procs[p].comp]
    <2>1. d \in Devices /\ x \in Files
        BY ProcType, AssemblyAssumption DEF TypeInv, Proc
    <2>2. p \in Using(d, x) /\ Pending(d, x) \in {0, 1}
        BY DEF Using, Pending
    <2>3. IsFiniteSet(Using(d, x)) /\ Cardinality(Using(d, x)) \in Nat
        BY UsingFinite
    <2>4. Cardinality(Using(d, x)) # 0
        BY <2>2, <2>3, FS_EmptySet
    <2>5. loadedFiles[d][x] \in Nat /\ loadedFiles[d][x] >= Cardinality(Using(d, x)) + Pending(d, x)
        BY <2>1 DEF LoadInv, TypeInv, Types
    <2> HIDE DEF d, x
    <2> QED BY <2>2, <2>3, <2>4, <2>5 DEF d, x
<1> QED BY <1>1, LoadAlways, PTL

\* The aborts "unable to load" and "name not found" of create and
\* releaseObject cannot be met, and the naming context that is destroyed is
\* empty unless a process died with its name bound.
THEOREM NoInconsistentAbortAlways == ASSUME Exclusive PROVE Spec => []NoInconsistentAbort
<1>1. ExclusiveInv /\ LoadInv => NoInconsistentAbort
    BY DEF ExclusiveInv, LoadInv, NameInv, ReleaseInv, NoInconsistentAbort
<1> QED BY <1>1, LoadAlways, PTL

-----------------------------------------------------------------------------
(* What is left when no call raised.                                       *)

LEMMA LeftInit == Init => LeftInv
    BY DEF Init, LeftInv, Pids

\* What a step must keep to that makes and ends no application and no context.
LEMMA LeftStays ==
    ASSUME LeftInv, Pids \subseteq Pids', UNCHANGED <<appseq, root>>,
           \A p \in Pids : /\ procs'[p].ctx = procs[p].ctx
                           /\ procs[p].st = "reaped" => procs'[p].st = "reaped",
           \A p \in Pids' \ Pids : at' \in Working /\ procs'[p].ctx = app'.ctx,
           DOMAIN ctxs' = DOMAIN ctxs, \A x \in DOMAIN ctxs : ctxs'[x].alive = ctxs[x].alive,
           raised => raised',
           \/ raised'
           \/ at \notin Working
           \/ /\ at' \in Working /\ (at = "destroy" => at' = "destroy")
              /\ app'.name = app.name /\ app'.ctx = app.ctx
    PROVE  LeftInv'
<1> SUFFICES ASSUME ~raised'
             PROVE  /\ \A p \in Pids' : procs'[p].st # "reaped" =>
                           \/ \E k \in DOMAIN appseq : procs'[p].ctx = appseq[k].ctx
                           \/ at' \in Working /\ procs'[p].ctx = app'.ctx
                    /\ \A n \in Names : root[n] # None =>
                           Listed(n) \/ (at' \in Working /\ n = app'.name)
                    /\ \A x \in DOMAIN ctxs : ctxs'[x].alive =>
                           (\E n \in Names : root[n] = x) \/ (at' = "destroy" /\ x = app'.ctx)
    BY DEF LeftInv, Listed
<1>1. ~raised /\ (at = "destroy" => at \in Working)
    BY DEF Working, Releasing
<1> HIDE DEF Working
<1>2. \A p \in Pids' : procs'[p].st # "reaped" =>
          \/ \E k \in DOMAIN appseq : procs'[p].ctx = appseq[k].ctx
          \/ at' \in Working /\ procs'[p].ctx = app'.ctx
    BY <1>1 DEF LeftInv
<1>3. \A n \in Names : root[n] # None => Listed(n) \/ (at' \in Working /\ n = app'.name)
    BY <1>1 DEF LeftInv
<1>4. \A x \in DOMAIN ctxs : ctxs'[x].alive =>
          (\E n \in Names : root[n] = x) \/ (at' = "destroy" /\ x = app'.ctx)
    BY <1>1 DEF LeftInv
<1> QED BY <1>2, <1>3, <1>4

\* Such a step of a call that starts no process either.
LEMMA LeftGoesOn ==
    ASSUME LeftInv, Lasting, Pids' = Pids, UNCHANGED <<appseq, root, ctxs>>,
           raised => raised',
           \/ raised'
           \/ at \notin Working
           \/ /\ at' \in Working /\ (at = "destroy" => at' = "destroy")
              /\ app'.name = app.name /\ app'.ctx = app.ctx
    PROVE  LeftInv'
    BY LeftStays DEF Lasting

LEMMA BindContextLeft == TypeInv /\ LeftInv /\ BindContext => LeftInv'
<1> SUFFICES ASSUME TypeInv, LeftInv, BindContext PROVE LeftInv'
    OBVIOUS
<1>1. at = "create" /\ UNCHANGED <<appseq, procs>>
    BY DEF BindContext
<1>2. CASE root[app.name] # None
    <2>1. UNCHANGED <<at, root, ctxs, raised>>
        BY <1>2 DEF BindContext, Abort, callVars, namingVars
    <2> QED BY <1>1, <2>1, StillLasting, LeftGoesOn DEF Working, Building, Releasing
<1>3. CASE root[app.name] = None
    <2> DEFINE x == Len(ctxs) + 1
    <2>1. /\ DOMAIN ctxs' = DOMAIN ctxs \cup {x} /\ \A y \in DOMAIN ctxs : ctxs'[y] = ctxs[y]
          /\ app.name \in Names /\ root' = [root EXCEPT ![app.name] = x]
          /\ app' = App(app.f, app.name, x, << >>, << >>)
        BY <1>3, BindContextEffect
    <2>2. at' \in Working /\ raised' = raised /\ app'.name = app.name /\ app'.ctx = x
        BY <1>3, <2>1 DEF BindContext, Working, Building, App
    <2> HIDE DEF x
    <2>3. \A n \in Names : root'[n] = IF n = app.name THEN x ELSE root[n]
        BY <2>1 DEF TypeInv, Types
    <2>4. \A y \in DOMAIN ctxs : y # None
        BY LenProperties, LifecycleBound DEF TypeInv, Types
    <2>5. at \notin Working /\ at # "destroy"
        BY <1>1 DEF Working, Building, Releasing
    <2> SUFFICES ASSUME ~raised' PROVE LeftInv'
        BY DEF LeftInv
    <2>6. \A p \in Pids' : procs'[p].st # "reaped" =>
              \E k \in DOMAIN appseq' : procs'[p].ctx = appseq'[k].ctx
        BY <1>1, <2>2, <2>5 DEF LeftInv, Pids
    <2>7. \A n \in Names : root'[n] # None => Listed(n)' \/ n = app'.name
        BY <1>1, <2>2, <2>3, <2>5 DEF LeftInv, Listed
    <2>8. ASSUME NEW y \in DOMAIN ctxs', ctxs'[y].alive PROVE \E n \in Names : root'[n] = y
        <3>1. CASE y = x
            BY <2>1, <2>3, <3>1
        <3>2. CASE y # x
            <4>1. y \in DOMAIN ctxs /\ ctxs[y].alive
                BY <2>1, <2>8, <3>2
            <4>2. PICK n \in Names : root[n] = y
                BY <2>2, <2>5, <4>1 DEF LeftInv
            <4>3. n # app.name
                BY <1>3, <2>4, <4>1, <4>2
            <4> QED BY <2>3, <4>2, <4>3
        <3> QED BY <3>1, <3>2
    <2> QED BY <2>2, <2>6, <2>7, <2>8 DEF LeftInv
<1> QED BY <1>2, <1>3

LEMMA ExecuteLeft == TypeInv /\ LeftInv /\ Execute => LeftInv'
<1> SUFFICES ASSUME TypeInv, LeftInv, Execute PROVE LeftInv'
    OBVIOUS
<1>1. /\ at = "execute" /\ UNCHANGED <<appseq, root, ctxs>>
      /\ \/ (Abort("InvalidState") \/ Abort("InvalidFileName")) /\ UNCHANGED procs
         \/ Forks
         \/ ForksNot
    BY ExecuteEffect DEF namingVars
<1>2. CASE (Abort("InvalidState") \/ Abort("InvalidFileName")) /\ UNCHANGED procs
    BY <1>1, <1>2, StillLasting, LeftGoesOn DEF Abort, callVars, Working, Building
<1>3. app \in Application
    BY <1>1, CompType DEF ComponentSteps
<1>4. ASSUME NEW pids, AfterExecute(pids)
      PROVE  at' \in Working /\ app'.name = app.name /\ app'.ctx = app.ctx
    <2>1. at' \in {"load", "await"} /\ app' = [app EXCEPT !.pids = pids]
        BY <1>4 DEF AfterExecute
    <2> QED BY <1>3, <2>1 DEF Application, Working, Building
<1>5. CASE ForksNot
    <2>1. at' \in Working /\ app'.name = app.name /\ app'.ctx = app.ctx /\ UNCHANGED <<procs,
                                                                                       raised>>
        BY <1>4, <1>5 DEF ForksNot
    <2> QED BY <1>1, <2>1, StillLasting, LeftGoesOn
<1>6. CASE Forks
    <2> DEFINE pid == Len(procs) + 1
    <2>1. /\ Pids' = Pids \cup {pid} /\ \A q \in Pids : procs'[q] = procs[q]
          /\ procs'[pid].ctx = app.ctx /\ UNCHANGED raised
          /\ AfterExecute(Append(app.pids, pid))
        BY <1>6 DEF Forks
    <2> HIDE DEF pid
    <2>2. at' \in Working /\ app'.name = app.name /\ app'.ctx = app.ctx
        BY <1>4, <2>1
    <2>3. at # "destroy"
        BY <1>1
    <2> HIDE DEF Working
    <2> QED BY <1>1, <2>1, <2>2, <2>3, LeftStays
<1> QED BY <1>1, <1>2, <1>5, <1>6

LEMMA ListLeft == TypeInv /\ LeftInv /\ ListApplication => LeftInv'
<1> SUFFICES ASSUME TypeInv, LeftInv, ListApplication, ~raised' PROVE LeftInv'
    BY DEF LeftInv
<1>1. at = "connect" /\ UNCHANGED <<raised, root, ctxs, procs>>
    BY DEF ListApplication, Idle, namingVars
<1> DEFINE m == Len(appseq) + 1
<1>2. /\ m \in DOMAIN appseq' /\ appseq'[m] = app
      /\ \A k \in DOMAIN appseq : k \in DOMAIN appseq' /\ appseq'[k] = appseq[k]
    BY ListEffect
<1> HIDE DEF m
<1>3. \A p \in Pids' : procs'[p].st # "reaped" =>
          \E k \in DOMAIN appseq' : procs'[p].ctx = appseq'[k].ctx
    BY <1>1, <1>2 DEF LeftInv, Pids
<1>4. \A n \in Names : root'[n] # None => Listed(n)'
    BY <1>1, <1>2 DEF LeftInv, Listed
<1>5. \A x \in DOMAIN ctxs' : ctxs'[x].alive => \E n \in Names : root'[n] = x
    BY <1>1 DEF LeftInv
<1> QED BY <1>3, <1>4, <1>5 DEF LeftInv

LEMMA UnlistLeft == TypeInv /\ NameInv /\ LeftInv /\ Unlist => LeftInv'
<1> SUFFICES ASSUME TypeInv, NameInv, LeftInv, Unlist, ~raised' PROVE LeftInv'
    BY DEF LeftInv
<1>1. at = "unlist" /\ at' \in Working /\ app' = app /\ UNCHANGED <<raised, root, ctxs, procs>>
    BY DEF Unlist, GoTo, namingVars, Working, Releasing
<1>2. PICK k \in DOMAIN appseq : appseq[k] = app /\ UnlistsAt(k)
    BY UnlistsOne
<1>3. \A i \in DOMAIN appseq : appseq[i] = app \/ \E j \in DOMAIN appseq' : appseq'[j] = appseq[i]
    BY <1>2 DEF UnlistsAt
<1>4. \A p \in Pids' : procs'[p].st # "reaped" =>
          \/ \E j \in DOMAIN appseq' : procs'[p].ctx = appseq'[j].ctx
          \/ procs'[p].ctx = app'.ctx
    BY <1>1, <1>3 DEF LeftInv, Pids
<1>5. \A n \in Names : root'[n] # None => Listed(n)' \/ n = app'.name
    BY <1>1, <1>3 DEF LeftInv, Listed
<1>6. \A x \in DOMAIN ctxs' : ctxs'[x].alive => \E n \in Names : root'[n] = x
    BY <1>1 DEF LeftInv
<1> QED BY <1>1, <1>4, <1>5, <1>6 DEF LeftInv

\* The context that is no longer bound to a name is the one destroyed next.
LEMMA UnbindContextLeft == TypeInv /\ NameInv /\ LeftInv /\ UnbindContext => LeftInv'
<1> SUFFICES ASSUME TypeInv, NameInv, LeftInv, UnbindContext, ~raised' PROVE LeftInv'
    BY DEF LeftInv
<1>1. /\ at = "unbind" /\ UNCHANGED <<appseq, ctxs, procs>>
      /\ at' = "destroy" /\ app' = app /\ raised' = raised
      /\ root' = [root EXCEPT ![app.name] = None]
    BY UnbindContextNames DEF UnbindContext, GoTo
<1>2. at \in Working /\ at' \in Working /\ at # "destroy"
    BY <1>1 DEF Working, Releasing
<1>3. \A n \in Names : root'[n] = IF n = app.name THEN None ELSE root[n]
    BY <1>1 DEF TypeInv, Types
<1>4. root[app.name] = app.ctx
    BY <1>1 DEF NameInv, Releasing
<1>5. \A p \in Pids' : procs'[p].st # "reaped" =>
          \/ \E k \in DOMAIN appseq' : procs'[p].ctx = appseq'[k].ctx
          \/ procs'[p].ctx = app'.ctx
    BY <1>1 DEF LeftInv, Pids
<1>6. \A n \in Names : root'[n] # None => Listed(n)'
    BY <1>1, <1>3 DEF LeftInv, Listed
<1>7. \A x \in DOMAIN ctxs' : ctxs'[x].alive => (\E n \in Names : root'[n] = x) \/ x = app'.ctx
    BY <1>1, <1>2, <1>3, <1>4 DEF LeftInv
<1> QED BY <1>1, <1>2, <1>5, <1>6, <1>7 DEF LeftInv

LEMMA DestroyContextLeft ==
    TypeInv /\ NameInv /\ ReleaseInv /\ LeftInv /\ DestroyContext => LeftInv'
<1> SUFFICES ASSUME TypeInv, NameInv, ReleaseInv, LeftInv, DestroyContext, ~raised' PROVE LeftInv'
    BY DEF LeftInv
<1>1. /\ at = "destroy" /\ UNCHANGED <<raised, appseq, root, procs>>
      /\ \/ UNCHANGED <<ctxs, at, app>>
         \/ ctxs' = [ctxs EXCEPT ![app.ctx].alive = FALSE] /\ at' = "idle"
    BY DEF DestroyContext, Abort, Idle, callVars
<1>2. CASE UNCHANGED <<ctxs, at, app>>
    BY <1>1, <1>2, StillLasting, LeftGoesOn DEF Working, Releasing
<1>3. CASE ctxs' = [ctxs EXCEPT ![app.ctx].alive = FALSE] /\ at' = "idle"
    <2>1. /\ DOMAIN ctxs' = DOMAIN ctxs
          /\ \A y \in DOMAIN ctxs : ctxs'[y].alive = IF y = app.ctx THEN FALSE ELSE ctxs[y].alive
        BY <1>1, <1>3, DestroyEffect
    <2>2. \A p \in Pids : procs[p].ctx = app.ctx => procs[p].st = "reaped"
        BY <1>1 DEF ReleaseInv
    <2>3. root[app.name] = None
        BY <1>1 DEF NameInv
    <2>4. \A p \in Pids' : procs'[p].st # "reaped" =>
              \E k \in DOMAIN appseq' : procs'[p].ctx = appseq'[k].ctx
        BY <1>1, <2>2 DEF LeftInv, Pids
    <2>5. \A n \in Names : root'[n] # None => Listed(n)'
        BY <1>1, <2>3 DEF LeftInv, Listed
    <2>6. \A x \in DOMAIN ctxs' : ctxs'[x].alive => \E n \in Names : root'[n] = x
        BY <1>1, <2>1 DEF LeftInv
    <2> QED BY <2>4, <2>5, <2>6 DEF LeftInv
<1> QED BY <1>1, <1>2, <1>3

\* The steps of a call that make no context and no application.
LEMMA StillLeft ==
    ASSUME TypeInv, OwnInv, LeftInv,
           \/ RefuseName \/ VerifyDeviceAssignments \/ GetRegisteredDevices \/ Load
           \/ AwaitComponent \/ Connect \/ Disconnect \/ ReleaseResource \/ Unload \/ Terminate
    PROVE  LeftInv'
<1>1. CASE RefuseName
    BY <1>1, StillLasting, LeftGoesOn DEF RefuseName, Raise, namingVars
<1>2. CASE VerifyDeviceAssignments
    BY <1>2, StillLasting, LeftGoesOn
       DEF VerifyDeviceAssignments, Raise, GoTo, namingVars, Working, Building
<1>3. CASE GetRegisteredDevices
    BY <1>3, StillLasting, LeftGoesOn DEF GetRegisteredDevices, GoTo, namingVars, Working, Building
<1>4. CASE Load
    BY <1>4, StillLasting, LeftGoesOn DEF Load, Abort, callVars, GoTo, namingVars, Working, Building
<1>5. CASE AwaitComponent
    BY <1>5, StillLasting, LeftGoesOn DEF AwaitComponent, Raise, GoTo, namingVars, Working, Building
<1>6. CASE Connect
    <2>1. CASE Raise /\ UNCHANGED procs
        BY <1>6, <2>1, ConnectEffect, StillLasting, LeftGoesOn DEF Raise, namingVars
    <2>2. CASE ~(Raise /\ UNCHANGED procs)
        <3> DEFINE user == ctxs[app.ctx].bound[Conns[app.f][nth].uses]
        <3>1. /\ UNCHANGED <<at, raised, appseq, namingVars>> /\ at = "connect"
              /\ app'.name = app.name /\ app'.ctx = app.ctx
              /\ \E l : ProcIs(user, procs[user].st, procs[user].released, procs[user].crashed, l)
            BY <1>6, <2>2, ConnectEffect
        <3> HIDE DEF user
        <3>2. Lasting /\ Pids' = Pids
            BY <3>1 DEF ProcIs, Lasting
        <3> QED BY <3>1, <3>2, LeftGoesOn DEF namingVars, Working, Building
    <2> QED BY <2>1, <2>2
<1>7. CASE Disconnect
    <2>1. /\ UNCHANGED <<appseq, namingVars>> /\ at = "disconnect"
          /\ \/ raised'
             \/ at' \in {"disconnect", "releaseObject"} /\ app' = app /\ raised' = raised
        BY <1>7, DisconnectEffect DEF GoTo, Raise
    <2>2. Lasting /\ Pids' = Pids
        <3>1. CASE UNCHANGED procs
            BY <3>1, StillLasting
        <3>2. CASE ~UNCHANGED procs
            <4> DEFINE q == app.links[nth].port
            <4>1. \E l : ProcIs(q, procs[q].st, procs[q].released, procs[q].crashed, l)
                BY <1>7, <3>2, DisconnectEffect
            <4> HIDE DEF q
            <4> QED BY <4>1 DEF ProcIs, Lasting
        <3> QED BY <3>1, <3>2
    <2> QED BY <2>1, <2>2, LeftGoesOn DEF namingVars, Working, Releasing
<1>8. CASE ReleaseResource
    <2> DEFINE p == info[comp].pid
    <2>1. at = "releaseObject" /\ UNCHANGED <<appseq, namingVars>> /\ p \in Pids
        BY <1>8, ReleaseResourceEffect, ReleasedComp
    <2>2. CASE Raise /\ UNCHANGED procs
        BY <2>1, <2>2, StillLasting, LeftGoesOn DEF Raise, namingVars
    <2>3. CASE \E s : /\ ProcIs(p, s, TRUE, procs[p].crashed, procs[p].conns)
                      /\ s \in {"woken", procs[p].st} /\ Alive(p)
                      /\ GoTo("unload", nth) /\ UNCHANGED raised
        <3> HIDE DEF p
        <3>1. procs[p].st # "reaped"
            BY <2>3 DEF Alive
        <3>2. Lasting /\ Pids' = Pids
            BY <2>3, <3>1 DEF ProcIs, Lasting
        <3> QED BY <2>1, <2>3, <3>2, LeftGoesOn DEF namingVars, GoTo, Working, Releasing
    <2> QED BY <1>8, <2>2, <2>3, ReleaseResourceEffect
<1>9. CASE Unload
    BY <1>9, StillLasting, LeftGoesOn
       DEF Unload, Abort, callVars, GoTo, namingVars, Working, Releasing
<1>10. CASE Terminate
    <2> DEFINE p == info[comp].pid
    <2>1. at = "terminate" /\ UNCHANGED <<appseq, namingVars>> /\ p \in Pids
        BY <1>10, TerminateEffect, ReleasedComp
    <2>2. CASE Abort("InvalidState") /\ UNCHANGED procs
        BY <2>1, <2>2, StillLasting, LeftGoesOn
           DEF Abort, callVars, namingVars, Working, Releasing
    <2>3. CASE /\ ProcIs(p, "reaped", procs[p].released, procs[p].crashed, procs[p].conns)
               /\ AfterTerminate /\ UNCHANGED raised
        <3> HIDE DEF p
        <3>1. Pids' = Pids /\ Lasting
            BY <2>1, <2>3 DEF ProcIs, Lasting
        <3>2. at' \in {"releaseObject", "unbind"} /\ app' = app
            BY <2>3 DEF AfterTerminate, GoTo
        <3> QED BY <2>1, <2>3, <3>1, <3>2, LeftGoesOn DEF namingVars, Working, Releasing
    <2> QED BY <1>10, <2>2, <2>3, TerminateEffect
<1> QED BY <1>1, <1>2, <1>3, <1>4, <1>5, <1>6, <1>7, <1>8, <1>9, <1>10

LEMMA ProcessLeft ==
    ASSUME TypeInv, LeftInv, NEW p \in Pids, ProcessStep(p) \/ Crash(p)
    PROVE  LeftInv'
<1>1. /\ UNCHANGED <<at, app, raised, appseq, root>> /\ Lasting /\ Pids' = Pids
    BY ProcessEffect DEF domainVars, callVars
<1>2. DOMAIN ctxs' = DOMAIN ctxs /\ \A x \in DOMAIN ctxs : ctxs'[x].alive = ctxs[x].alive
    <2>1. CASE Bind(p)
        BY <2>1, BindEffect DEF BoundIs
    <2>2. CASE Wait(p)
        BY <2>2, WaitEffect DEF namingVars
    <2>3. CASE Shutdown(p)
        BY <2>3, ShutdownEffect DEF BoundIs
    <2>4. CASE Crash(p)
        BY <2>4, CrashEffect DEF namingVars
    <2> QED BY <2>1, <2>2, <2>3, <2>4 DEF ProcessStep
<1> QED BY <1>1, <1>2, LeftStays DEF Lasting

LEMMA LeftStep == ExclusiveInv /\ LeftInv /\ [Next]_vars => LeftInv'
<1> SUFFICES ASSUME TypeInv, NameInv, OwnInv, ReleaseInv, LeftInv, [Next]_vars PROVE LeftInv'
    BY DEF ExclusiveInv
<1>1. ASSUME UNCHANGED <<domainVars, namingVars, procs>> PROVE LeftInv'
    BY <1>1, StillLasting, LeftGoesOn DEF domainVars, callVars, namingVars
<1>2. CASE UNCHANGED vars
    BY <1>1, <1>2 DEF vars
<1>3. CASE \E f \in Factories, name \in Names : \E a \in Assignments(f) : CallCreate(f, name, a)
    BY <1>3, StillLasting, LeftGoesOn DEF CallCreate, namingVars, Working, Building, Releasing
<1>4. CASE \E k \in DOMAIN appseq : CallRelease(k)
    BY <1>4, StillLasting, LeftGoesOn DEF CallRelease, namingVars, Working, Building, Releasing
<1>5. CASE DomainStep
    BY <1>5, StillLeft, BindContextLeft, ExecuteLeft, ListLeft, UnlistLeft, UnbindContextLeft,
       DestroyContextLeft DEF DomainStep
<1>6. CASE \E p \in DOMAIN procs : ProcessStep(p) \/ Crash(p)
    BY <1>6, ProcessLeft DEF Pids
<1>7. CASE \E d \in Devices :
              \/ RegisterDevice(d)
              \/ \E s \in {"UNLOCKED", "LOCKED", "SHUTTING_DOWN"} : SetAdminState(d, s)
    BY <1>1, <1>7 DEF RegisterDevice, SetAdminState
<1> QED BY <1>2, <1>3, <1>4, <1>5, <1>6, <1>7 DEF Next

\* ApplicationFactory_impl.cpp and Application_impl.cpp: as long as no create
\* and no releaseObject has raised, every process that exists between two
\* calls is one of a listed application's, every name in the naming service is
\* a listed application's and every context that exists is bound to a name.
THEOREM NothingLeftBehindAlways == ASSUME Exclusive PROVE Spec => []NothingLeftBehind
<1>1. Init => LeftInv
    BY LeftInit
<1>2. ExclusiveInv /\ LeftInv /\ [Next]_vars => LeftInv'
    BY LeftStep
<1>3. ExclusiveInv /\ LeftInv => NothingLeftBehind
    <2> SUFFICES ASSUME TypeInv, OwnInv, LeftInv, at = "idle", ~raised
                 PROVE  /\ \A p \in Pids : procs[p].st # "reaped" =>
                               \E k \in DOMAIN appseq : Contains(appseq[k].pids, p)
                        /\ \A n \in Names : root[n] # None => Listed(n)
                        /\ \A x \in DOMAIN ctxs : ctxs[x].alive => \E n \in Names : root[n] = x
        BY DEF NothingLeftBehind, ExclusiveInv
    <2>1. at \notin Working
        BY DEF Working, Building, Releasing
    <2>2. ASSUME NEW p \in Pids, procs[p].st # "reaped"
          PROVE  \E k \in DOMAIN appseq : Contains(appseq[k].pids, p)
        <3>1. PICK k \in DOMAIN appseq : procs[p].ctx = appseq[k].ctx
            BY <2>1, <2>2 DEF LeftInv
        <3>2. p \in ToSet(appseq[k].pids)
            BY <3>1 DEF OwnInv, Complete, Owns
        <3>3. appseq[k].pids \in Seq(Nat)
            BY ListedType DEF Application
        <3>4. DOMAIN appseq[k].pids = 1 .. Len(appseq[k].pids)
            BY <3>3, LenProperties
        <3> QED BY <3>2, <3>4 DEF ToSet, Contains
    <2> QED BY <2>1, <2>2 DEF LeftInv
<1> QED BY <1>1, <1>2, <1>3, ExclusiveAlways, PTL DEF Spec
=============================================================================
