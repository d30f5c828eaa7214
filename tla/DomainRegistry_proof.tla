------------------------ MODULE DomainRegistry_proof ------------------------
(***************************************************************************)
(* Proofs about the registries of the core framework, for any number of    *)
(* managers and devices, any DCDs and any bounds.  What the registries say *)
(* of devices is proved for managers that clients call one at a time, and  *)
(* whatever happens at the others; what the domain's list of managers      *)
(* holds, when no two calls change that list at once.                      *)
(***************************************************************************)
EXTENDS DomainRegistry, SequenceTheorems, WellFoundedInduction, TLAPS

-----------------------------------------------------------------------------
(* The inductive invariant.                                                *)

\* What the domain and manager m's process have of the devices of m.
Own(m) == ToSet(Devs[m])
InDomain(m) == ToSet(registeredDevices) \cap Own(m)
AtManager(m) == ToSet(local[m])

Distinct(s) == \A i, j \in DOMAIN s : s[i] = s[j] => i = j

EarlySteps == {"check", "grow", "store", "mount", "registered"}
DeviceSteps == {"adminState", "checkManager", "storeDevice"}

\* The device the boot thread has at the manager and not yet at the domain,
\* and those unregisterDevice has at neither but in the list.
Coming(m) == IF bootAt[m] \in DeviceSteps THEN {Devs[m][bootNth[m]]} ELSE {}
Leaving(m) == {d \in Own(m) : \E c \in Callers : unreg[m][c].at = "local" /\ unreg[m][c].device = d}

\* The steps of unregisterDevice that use the index it has found.
Settled == {"found", "domain", "local"}
UnregCalls == [at : UnregSteps, device : Devices \cup {Nil}, nth : Nat]

Types ==
    /\ dmn \in {"up", "MountPointAlreadyExists"}
    /\ deviceManagers \in Seq(Refs)
    /\ registeredDevices \in Seq(Devices)
    /\ mounts \subseteq Managers
    /\ proc \in [Managers -> {"off", "up", "dead"}]
    /\ boots \in [Managers -> Nat] /\ calls \in [Managers -> Nat]
    /\ adminState \in [Managers -> {"unset", "REGISTERED", "SHUTTING_DOWN"}]
    /\ local \in [Managers -> Seq(Devices)]
    /\ bootAt \in [Managers -> BootSteps] /\ bootNth \in [Managers -> Nat \ {0}]
    /\ downAt \in [Managers -> DownSteps]
    /\ todo \in [Managers -> Seq(Devices)] /\ releasing \in [Managers -> Nat]
    /\ bootEntry \in [Managers -> Nat \ {0}] /\ downEntry \in [Managers -> Nat \ {0}]
    /\ unreg \in [Managers -> [Callers -> UnregCalls]]

\* A manager's list has no more devices than the boot thread has come to.
BoundsOf(m) ==
    /\ boots[m] <= MaxBoots[m] /\ calls[m] <= MaxCalls
    /\ bootAt[m] # "off" => boots[m] >= 1
    /\ Up(m) => boots[m] >= 1
    /\ bootNth[m] <= Len(Devs[m]) + 1
    /\ bootAt[m] \in DeviceSteps => bootNth[m] <= Len(Devs[m])
    /\ Len(local[m]) < bootNth[m] \/ (bootAt[m] \in DeviceSteps /\ Len(local[m]) <= bootNth[m])
    /\ releasing[m] <= Len(Devs[m])
    /\ \A c \in Callers :
           /\ unreg[m][c].at # "none" =>
                  unreg[m][c].device \in Devices /\ unreg[m][c].nth \in 1 .. (Len(Devs[m]) + 1)
           /\ unreg[m][c].at \in Settled => unreg[m][c].nth \in DOMAIN Devs[m]
    /\ unreg[m]["shutdown"].at # "none" => releasing[m] >= 1 /\ downAt[m] = "release"

Bounds == \A m \in Managers : BoundsOf(m)

NoDuplicates == Distinct(registeredDevices) /\ \A m \in Managers : Distinct(local[m])

TypeInv == Types /\ Bounds /\ NoDuplicates

\* Whose devices are where, and how far a manager's have come.
OwnInv(m) ==
    /\ AtManager(m) \subseteq Own(m) /\ ToSet(todo[m]) \subseteq Own(m)
    /\ \A c \in Callers : unreg[m][c].at # "none" => unreg[m][c].device \in Own(m)
    /\ \A k \in DOMAIN Devs[m] :
           Devs[m][k] \in AtManager(m) =>
               k < bootNth[m] \/ (k = bootNth[m] /\ bootAt[m] \in DeviceSteps)

\* A manager that clients call one at a time serves one call, which is the
\* shutdown's own when that is about.
AloneInv(m) ==
    m \in Alone =>
        /\ \A c, e \in Callers : unreg[m][c].at # "none" /\ unreg[m][e].at # "none" => c = e
        /\ downAt[m] \notin {"none", "raised", "done"} =>
               \A c \in Clients : unreg[m][c].at = "none"

\* Nothing else takes a device off the list then: the index stays good.
IndexInv(m) ==
    m \in Alone => \A c \in Callers :
        Up(m) /\ unreg[m][c].at \in Settled =>
            /\ unreg[m][c].nth \in DOMAIN local[m]
            /\ local[m][unreg[m][c].nth] = unreg[m][c].device

\* What a file system stays mounted for, and how a boot begins.
MountInv(m) ==
    /\ m \in mounts => boots[m] >= 1
    /\ m \in mounts /\ bootAt[m] \in {"check", "grow", "store", "mount"} => boots[m] > 1
    /\ m \notin mounts => InDomain(m) = {}
    /\ bootAt[m] \in {"registered", "launch"} \cup DeviceSteps => m \in mounts
    /\ Up(m) /\ bootAt[m] = "registered" => InDomain(m) = {}
    /\ Up(m) /\ bootAt[m] \in EarlySteps => 
           local[m] = << >> /\ \A c \in Callers : unreg[m][c].at = "none"
    /\ Up(m) /\ adminState[m] = "unset" => bootAt[m] \in EarlySteps
    /\ Up(m) /\ downAt[m] = "none" => adminState[m] # "SHUTTING_DOWN"
    /\ Up(m) /\ downAt[m] = "none" /\ adminState[m] = "REGISTERED" =>
           bootAt[m] \in {"launch"} \cup DeviceSteps
    /\ Up(m) => bootAt[m] # "off"

\* With no shutdown about, a device is in both registries, or on its way.
AgreeInv(m) ==
    (m \in Alone /\ Up(m) /\ downAt[m] = "none" /\ adminState[m] = "REGISTERED") =>
        /\ AtManager(m) = InDomain(m) \cup Coming(m) \cup Leaving(m)
        /\ Coming(m) \cap InDomain(m) = {}
        /\ Leaving(m) \cap InDomain(m) = {}
        /\ Coming(m) \cap Leaving(m) = {}

DeviceInvAt(m) == OwnInv(m) /\ AloneInv(m) /\ IndexInv(m) /\ MountInv(m) /\ AgreeInv(m)
DeviceInv == \A m \in Managers : DeviceInvAt(m)

-----------------------------------------------------------------------------
(* The list of managers, when no two calls change it at once.              *)

\* One call at a time has settled on its place in the list, and it is right.
ChangingInv ==
    /\ \A m, n \in Changing : m = n
    /\ \A m \in Managers : bootAt[m] = "store" =>
           /\ deviceManagers # << >> /\ deviceManagers[Len(deviceManagers)] = Nil
           /\ downAt[m] # "shift"
    /\ \A m \in Managers : downAt[m] = "shift" =>
           /\ downEntry[m] \in DOMAIN deviceManagers
           /\ deviceManagers[downEntry[m]] = Reference(m)

ListedInv(m) ==
    (Up(m) /\ (bootAt[m] \in {"mount", "registered"} \/ adminState[m] = "REGISTERED")) => Listed(m)

\* The device the boot thread has asked the domain to take.
Offered(m) == IF bootAt[m] \in {"checkManager", "storeDevice"} THEN {Devs[m][bootNth[m]]} ELSE {}

\* A shutdown of a registered manager takes every device along.
DownInv(m) ==
    /\ Up(m) /\ bootAt[m] \in EarlySteps => downAt[m] = "none" /\ adminState[m] = "unset"
    /\ downAt[m] # "none" => adminState[m] = "SHUTTING_DOWN"
    /\ m \in Alone =>
           /\ downAt[m] = "snapshot" =>
                  /\ InDomain(m) \cup Offered(m) \subseteq AtManager(m)
                  /\ Offered(m) \cap InDomain(m) = {}
           /\ downAt[m] = "remove" =>
                  /\ InDomain(m) \cup Offered(m) \subseteq ToSet(todo[m])
                  /\ Offered(m) \cap InDomain(m) = {}
           /\ downAt[m] \in {"shift", "unlisted", "release", "done"} =>
                  InDomain(m) = {} /\ Offered(m) = {}
           /\ InDomain(m) # {} \/ bootAt[m] = "storeDevice" => Known(m)

ListInvAt(m) == ListedInv(m) /\ DownInv(m)
ListInv == ChangingInv /\ \A m \in Careful : ListInvAt(m)
-----------------------------------------------------------------------------
(* Sequences without duplicates, and the set of their elements.            *)

LEMMA MinExists ==
    ASSUME NEW S \in SUBSET Nat, S # {}
    PROVE  Min(S) \in S
<1>1. PICK x \in S : \A y \in S : ~(<<y, x>> \in OpToRel(<, Nat))
    BY NatLessThanWellFounded, WFMin
<1>2. ASSUME NEW y \in S PROVE x <= y
    <2>1. <<y, x>> \in Nat \X Nat /\ x \in Nat /\ y \in Nat
        BY <1>1
    <2>2. ~(y < x)
        BY <1>1, <2>1, Zenon DEF OpToRel
    <2> QED BY <2>1, <2>2
<1> QED
    BY <1>2 DEF Min

LEMMA ContainsIsMember ==
    ASSUME NEW S, NEW s \in Seq(S), NEW x
    PROVE  Contains(s, x) <=> x \in ToSet(s)
    BY DEF Contains, ToSet

LEMMA AppendElement ==
    ASSUME NEW S, NEW s \in Seq(S), NEW x \in S
    PROVE  /\ Append(s, x) \in Seq(S) /\ Len(Append(s, x)) = Len(s) + 1
           /\ ToSet(Append(s, x)) = ToSet(s) \cup {x}
           /\ Distinct(s) /\ x \notin ToSet(s) => Distinct(Append(s, x))
           /\ \A i \in DOMAIN s : i \in DOMAIN Append(s, x) /\ Append(s, x)[i] = s[i]
<1>1. /\ Append(s, x) \in Seq(S) /\ Len(Append(s, x)) = Len(s) + 1
      /\ \A i \in 1 .. Len(s) : Append(s, x)[i] = s[i]
      /\ Append(s, x)[Len(s) + 1] = x
    OBVIOUS
<1>2. DOMAIN s = 1 .. Len(s) /\ DOMAIN Append(s, x) = 1 .. (Len(s) + 1) /\ Len(s) \in Nat
    OBVIOUS
<1>3. ToSet(Append(s, x)) = ToSet(s) \cup {x}
    BY <1>1, <1>2 DEF ToSet
<1>4. Distinct(s) /\ x \notin ToSet(s) => Distinct(Append(s, x))
    BY <1>1, <1>2 DEF ToSet, Distinct
<1> QED
    BY <1>1, <1>2, <1>3, <1>4

\* Taking out the i-th element moves those behind it up.
LEMMA RemoveAtElement ==
    ASSUME NEW S, NEW s \in Seq(S), NEW i \in 1 .. Len(s)
    PROVE  /\ RemoveAt(s, i) \in Seq(S) /\ Len(RemoveAt(s, i)) = Len(s) - 1
           /\ \A k \in 1 .. (Len(s) - 1) : RemoveAt(s, i)[k] = IF k < i THEN s[k] ELSE s[k + 1]
<1> DEFINE a == SubSeq(s, 1, i - 1)
           b == SubSeq(s, i + 1, Len(s))
<1>1. Len(s) \in Nat
    OBVIOUS
<1>2. a \in Seq(S) /\ Len(a) = i - 1 /\ \A k \in 1 .. (i - 1) : a[k] = s[k]
    BY <1>1
<1>3. b \in Seq(S) /\ Len(b) = Len(s) - i /\ \A k \in 1 .. (Len(s) - i) : b[k] = s[i + k]
    BY <1>1
<1>4. PICK p \in Seq(S), q \in Seq(S) : p = a /\ q = b
    BY <1>2, <1>3
<1> HIDE DEF a, b
<1>5. /\ p \o q \in Seq(S) /\ Len(p \o q) = Len(p) + Len(q)
      /\ \A k \in 1 .. (Len(p) + Len(q)) : (p \o q)[k] = IF k <= Len(p) THEN p[k] ELSE q[k - Len(p)]
    OBVIOUS
<1>6. RemoveAt(s, i) = p \o q
    BY <1>4 DEF RemoveAt, a, b
<1>7. Len(p) = i - 1 /\ Len(q) = Len(s) - i
    BY <1>2, <1>3, <1>4
<1>8. Len(p \o q) = Len(s) - 1
    BY <1>1, <1>5, <1>7
<1>9. ASSUME NEW k \in 1 .. (Len(s) - 1)
      PROVE  (p \o q)[k] = IF k < i THEN s[k] ELSE s[k + 1]
    <2>1. k \in 1 .. (Len(p) + Len(q))
        BY <1>1, <1>7
    <2>2. CASE k < i
        BY <1>1, <1>2, <1>4, <1>5, <1>7, <2>1, <2>2
    <2>3. CASE ~(k < i)
        <3>1. k - Len(p) \in 1 .. (Len(s) - i) /\ i + (k - Len(p)) = k + 1 /\ ~(k <= Len(p))
            BY <1>1, <1>7, <2>3
        <3>2. q[k - Len(p)] = s[k + 1]
            BY <1>3, <1>4, <3>1
        <3> QED BY <1>5, <2>1, <2>3, <3>1, <3>2
    <2> QED BY <2>2, <2>3
<1> QED
    BY <1>5, <1>6, <1>8, <1>9

LEMMA RemoveAtRest ==
    ASSUME NEW S, NEW s \in Seq(S), NEW i \in 1 .. Len(s)
    PROVE  /\ \A k \in 1 .. Len(s) : k # i => s[k] \in ToSet(RemoveAt(s, i))
           /\ Distinct(s) => /\ Distinct(RemoveAt(s, i))
                             /\ ToSet(RemoveAt(s, i)) = ToSet(s) \ {s[i]}
<1> DEFINE r == RemoveAt(s, i)
<1>1. r \in Seq(S) /\ Len(r) = Len(s) - 1 /\ Len(s) \in Nat
      /\ \A k \in 1 .. (Len(s) - 1) : r[k] = IF k < i THEN s[k] ELSE s[k + 1]
    BY RemoveAtElement, LenProperties
<1>2. DOMAIN s = 1 .. Len(s) /\ DOMAIN r = 1 .. (Len(s) - 1)
    BY <1>1
<1> HIDE DEF r
<1>3. ASSUME NEW k \in 1 .. Len(s), k # i PROVE s[k] \in ToSet(r)
    <2>1. CASE k < i
        BY <1>1, <1>2, <2>1 DEF ToSet
    <2>2. CASE i < k
        <3>1. k - 1 \in DOMAIN r /\ r[k - 1] = s[k]
            BY <1>1, <1>2, <2>2
        <3> QED BY <3>1 DEF ToSet
    <2> QED BY <1>1, <1>3, <2>1, <2>2
<1>4. ASSUME Distinct(s) PROVE Distinct(r)
    <2> SUFFICES ASSUME NEW j \in DOMAIN r, NEW k \in DOMAIN r, r[j] = r[k] PROVE j = k
        BY DEF Distinct
    <2>1. \A n \in DOMAIN r : /\ n \in Nat /\ n \in DOMAIN s /\ n + 1 \in DOMAIN s
                              /\ r[n] = IF n < i THEN s[n] ELSE s[n + 1]
        BY <1>1
    <2>2. \A n \in DOMAIN s, o \in DOMAIN s : s[n] = s[o] => n = o
        BY <1>4 DEF Distinct
    <2> QED BY <2>1, <2>2
<1>5. ASSUME Distinct(s) PROVE ToSet(r) = ToSet(s) \ {s[i]}
    <2>1. ASSUME NEW k \in DOMAIN r PROVE r[k] \in ToSet(s) /\ r[k] # s[i]
        BY <1>1, <1>2, <1>5 DEF ToSet, Distinct
    <2>2. ToSet(r) \subseteq ToSet(s) \ {s[i]}
        BY <2>1 DEF ToSet
    <2>3. ToSet(s) \ {s[i]} \subseteq ToSet(r)
        BY <1>2, <1>3 DEF ToSet
    <2> QED BY <2>2, <2>3
<1> QED
    BY <1>3, <1>4, <1>5 DEF r

LEMMA FrontElements ==
    ASSUME NEW S, NEW s \in Seq(S), s # << >>
    PROVE  /\ Front(s) \in Seq(S) /\ Len(Front(s)) <= Len(s)
           /\ ToSet(Front(s)) \subseteq ToSet(s)
           /\ Distinct(s) => Distinct(Front(s))
<1>1. Len(s) \in Nat /\ \A k \in 1 .. Len(s) : s[k] \in S
    BY LenProperties
<1>2. /\ Front(s) \in Seq(S) /\ Len(Front(s)) = Len(s) - 1
      /\ \A k \in 1 .. (Len(s) - 1) : Front(s)[k] = s[k]
    <2>1. Len(s) # 0
        OBVIOUS
    <2>2. Len(s) - 1 \in Int /\ 1 <= Len(s) /\ \A k \in 1 .. (Len(s) - 1) : s[k] \in S
        BY <1>1
    <2>3. /\ SubSeq(s, 1, Len(s) - 1) \in Seq(S)
          /\ Len(SubSeq(s, 1, Len(s) - 1)) = IF 1 <= Len(s) - 1 THEN (Len(s) - 1) - 1 + 1 ELSE 0
          /\ \A k \in 1 .. ((Len(s) - 1) - 1 + 1) : SubSeq(s, 1, Len(s) - 1)[k] = s[1 + k - 1]
        BY <2>2
    <2>4. \A k \in 1 .. (Len(s) - 1) : 1 + k - 1 = k
        OBVIOUS
    <2>5. (Len(s) - 1) - 1 + 1 = Len(s) - 1 /\ (~(1 <= Len(s) - 1) => Len(s) - 1 = 0)
        <3>1. \A n \in Nat : n # 0 => /\ (n - 1) - 1 + 1 = n - 1
                                      /\ ~(1 <= n - 1) => n - 1 = 0
            OBVIOUS
        <3> QED BY <1>1, <2>1, <3>1
    <2> QED BY <2>3, <2>4, <2>5 DEF Front
<1>3. DOMAIN s = 1 .. Len(s) /\ DOMAIN Front(s) = 1 .. (Len(s) - 1)
    BY <1>2
<1>4. ToSet(Front(s)) \subseteq ToSet(s)
    BY <1>1, <1>2, <1>3 DEF ToSet
<1> QED
    BY <1>1, <1>2, <1>3, <1>4 DEF Distinct

\* What is left of a list of which an entry was removed.
LEMMA ShiftedTypes ==
    ASSUME NEW S, NEW s \in Seq(S), NEW i \in Nat
    PROVE  Shifted(s, i) \in Seq(S)
<1>1. CASE i \in DOMAIN s
    BY <1>1, RemoveAtElement DEF Shifted
<1>2. CASE i \notin DOMAIN s /\ s # << >>
    BY <1>2, FrontElements DEF Shifted
<1>3. CASE i \notin DOMAIN s /\ s = << >>
    <2>1. Front(s) = << >>
        BY <1>3 DEF Front
    <2> QED BY <1>3, <2>1 DEF Shifted
<1> QED BY <1>1, <1>2, <1>3

LEMMA ShiftedRest ==
    ASSUME NEW S, NEW s \in Seq(S), NEW i \in Nat, Distinct(s), s # << >>
    PROVE  /\ Shifted(s, i) \in Seq(S) /\ Len(Shifted(s, i)) <= Len(s)
           /\ Distinct(Shifted(s, i))
    BY RemoveAtElement, RemoveAtRest, FrontElements DEF Shifted

LEMMA TailElements ==
    ASSUME NEW S, NEW s \in Seq(S), s # << >>
    PROVE  /\ Head(s) \in ToSet(s) /\ ToSet(Tail(s)) \subseteq ToSet(s)
           /\ ToSet(s) \ {Head(s)} \subseteq ToSet(Tail(s))
<1>1. /\ Len(s) \in Nat /\ Len(s) # 0 /\ DOMAIN s = 1 .. Len(s) /\ Head(s) = s[1]
      /\ Tail(s) \in Seq(S) /\ Len(Tail(s)) = Len(s) - 1
      /\ \A i \in 1 .. Len(Tail(s)) : Tail(s)[i] = s[i + 1]
    BY HeadTailProperties, LenProperties
<1>2. DOMAIN Tail(s) = 1 .. (Len(s) - 1)
    BY <1>1
<1>3. ASSUME NEW k \in DOMAIN s, s[k] # Head(s) PROVE s[k] \in ToSet(Tail(s))
    <2>1. k - 1 \in 1 .. (Len(s) - 1) /\ (k - 1) + 1 = k
        BY <1>1, <1>3
    <2> QED BY <1>1, <1>2, <2>1 DEF ToSet
<1>4. ASSUME NEW k \in DOMAIN Tail(s) PROVE Tail(s)[k] \in ToSet(s)
    <2>1. k + 1 \in DOMAIN s /\ k \in 1 .. Len(Tail(s))
        BY <1>1
    <2> QED BY <1>1, <2>1 DEF ToSet
<1>5. Head(s) \in ToSet(s)
    BY <1>1 DEF ToSet
<1>6. ToSet(Tail(s)) \subseteq ToSet(s)
    BY <1>4 DEF ToSet
<1>7. ToSet(s) \ {Head(s)} \subseteq ToSet(Tail(s))
    BY <1>3 DEF ToSet
<1> QED
    BY <1>5, <1>6, <1>7

LEMMA WithoutElement ==
    ASSUME NEW S, NEW s \in Seq(S), NEW x
    PROVE  \/ x \notin ToSet(s) /\ Without(s, x) = s
           \/ \E i \in 1 .. Len(s) : s[i] = x /\ Without(s, x) = RemoveAt(s, i)
<1> DEFINE I == {i \in 1 .. Len(s) : s[i] = x}
<1>1. CASE I = {}
    <2>1. \A i \in 1 .. Len(s) : s[i] # x
        BY <1>1
    <2>2. x \notin ToSet(s)
        BY <2>1 DEF ToSet
    <2> QED BY <2>1, <2>2 DEF Without, RemoveFirst
<1>2. CASE I # {}
    <2>1. SelectInSeq(s, LAMBDA v : v = x) = Min(I)
        BY <1>2 DEF SelectInSeq
    <2>2. Min(I) \in I
        <3>1. I \in SUBSET Nat
            OBVIOUS
        <3> QED BY <1>2, <3>1, MinExists
    <2>3. Without(s, x) = RemoveAt(s, Min(I))
        BY <1>2, <2>1 DEF Without, RemoveFirst
    <2> QED BY <2>2, <2>3
<1> QED
    BY <1>1, <1>2

LEMMA WithoutRest ==
    ASSUME NEW S, NEW s \in Seq(S), Distinct(s), NEW x
    PROVE  /\ Without(s, x) \in Seq(S) /\ Len(Without(s, x)) <= Len(s)
           /\ Distinct(Without(s, x)) /\ ToSet(Without(s, x)) = ToSet(s) \ {x}
<1>1. CASE x \notin ToSet(s) /\ Without(s, x) = s
    BY <1>1
<1>2. CASE \E i \in 1 .. Len(s) : s[i] = x /\ Without(s, x) = RemoveAt(s, i)
    BY <1>2, RemoveAtElement, RemoveAtRest
<1> QED
    BY <1>1, <1>2, WithoutElement

-----------------------------------------------------------------------------
(* Types, bounds and duplicates.                                           *)

LEMMA DeviceOfDCD ==
    ASSUME NEW m \in Managers
    PROVE  /\ Devs[m] \in Seq(Devices) /\ Len(Devs[m]) \in Nat /\ DOMAIN Devs[m] = 1 .. Len(Devs[m])
           /\ \A k \in 1 .. Len(Devs[m]) : Devs[m][k] \in Devices /\ Devs[m][k] \in Own(m)
           /\ MaxBoots[m] \in Nat /\ MaxCalls \in Nat
<1>1. Devs[m] \in Seq(Devices)
    BY NodeAssumption
<1>2. Len(Devs[m]) \in Nat /\ DOMAIN Devs[m] = 1 .. Len(Devs[m])
    BY <1>1
<1> QED
    BY <1>1, <1>2, RegistryBounds DEF Own, ToSet

LEMMA ManagerTypes ==
    ASSUME Types, Bounds, NEW m \in Managers
    PROVE  /\ local[m] \in Seq(Devices) /\ Len(local[m]) \in Nat
           /\ DOMAIN local[m] = 1 .. Len(local[m]) /\ Len(local[m]) <= Len(Devs[m])
           /\ bootNth[m] \in Nat /\ bootNth[m] >= 1
           /\ bootAt[m] \in DeviceSteps => bootNth[m] \in 1 .. Len(Devs[m])
           /\ bootAt[m] \notin DeviceSteps => Len(local[m]) < bootNth[m]
           /\ Len(local[m]) <= bootNth[m]
<1>1. local[m] \in Seq(Devices) /\ Len(local[m]) \in Nat /\ DOMAIN local[m] = 1 .. Len(local[m])
    BY LenProperties DEF Types
<1>2. bootNth[m] \in Nat /\ bootNth[m] >= 1 /\ Len(Devs[m]) \in Nat
    BY DeviceOfDCD DEF Types
<1>3. BoundsOf(m)
    BY DEF Bounds
<1> QED
    BY <1>1, <1>2, <1>3 DEF BoundsOf

\* A step of one unregisterDevice call, which leaves the others alone.
OneCall(m, c, u) ==
    /\ unreg' \in [Managers -> [Callers -> UnregCalls]]
    /\ unreg'[m][c] = u
    /\ \A e \in Callers : e # c => unreg'[m][e] = unreg[m][e]
    /\ \A n \in Managers : n # m => unreg'[n] = unreg[n]

LEMMA CallTypes ==
    ASSUME Types, NEW m \in Managers, NEW c \in Callers
    PROVE  /\ unreg[m] \in [Callers -> UnregCalls] /\ unreg[m][c] \in UnregCalls
           /\ unreg[m][c].at \in UnregSteps /\ unreg[m][c].nth \in Nat
           /\ unreg[m][c].device \in Devices \cup {Nil}
           /\ NoCall \in UnregCalls /\ NoCall.at = "none"
<1>1. unreg[m] \in [Callers -> UnregCalls]
    BY DEF Types
<1>2. unreg[m][c] \in UnregCalls
    BY <1>1
<1>3. NoCall \in UnregCalls /\ NoCall.at = "none"
    BY DEF NoCall, UnregCalls, UnregSteps
<1> QED
    BY <1>1, <1>2, <1>3 DEF UnregCalls

LEMMA OneCallChanges ==
    ASSUME Types, NEW m \in Managers, NEW c \in Callers, NEW u \in UnregCalls,
           unreg' = [unreg EXCEPT ![m][c] = u]
    PROVE  OneCall(m, c, u)
<1>1. unreg \in [Managers -> [Callers -> UnregCalls]] /\ unreg[m] \in [Callers -> UnregCalls]
    BY DEF Types
<1>2. unreg' = [unreg EXCEPT ![m] = [unreg[m] EXCEPT ![c] = u]]
    OBVIOUS
<1>3. [unreg[m] EXCEPT ![c] = u] \in [Callers -> UnregCalls]
    BY <1>1
<1> QED
    BY <1>1, <1>2, <1>3 DEF OneCall

LEMMA CallMoves ==
    ASSUME Types, NEW m \in Managers, NEW c \in Callers, NEW step \in UnregSteps,
           UnregAt(m, c, step)
    PROVE  \E u \in UnregCalls :
               /\ u.at = step /\ u.device = unreg[m][c].device /\ u.nth = unreg[m][c].nth
               /\ OneCall(m, c, u)
<1> DEFINE u == [unreg[m][c] EXCEPT !.at = step]
<1>1. unreg[m][c] \in UnregCalls
    BY CallTypes
<1>2. u \in UnregCalls /\ u.at = step /\ u.device = unreg[m][c].device /\ u.nth = unreg[m][c].nth
    BY <1>1 DEF UnregCalls
<1>3. unreg' = [unreg EXCEPT ![m][c] = u]
    BY DEF UnregAt
<1> HIDE DEF u
<1> QED
    BY <1>2, <1>3, OneCallChanges

LEMMA CallEnds ==
    ASSUME Types, NEW m \in Managers, NEW c \in Callers, EndUnregister(m, c)
    PROVE  OneCall(m, c, NoCall)
    BY CallTypes, OneCallChanges DEF EndUnregister

LEMMA CallSearches ==
    ASSUME Types, NEW m \in Managers, NEW c \in Callers,
           unreg' = [unreg EXCEPT ![m][c].nth = @ + 1]
    PROVE  \E u \in UnregCalls :
               /\ u.at = unreg[m][c].at /\ u.device = unreg[m][c].device
               /\ u.nth = unreg[m][c].nth + 1 /\ OneCall(m, c, u)
<1> DEFINE u == [unreg[m][c] EXCEPT !.nth = @ + 1]
<1>1. unreg[m][c] \in UnregCalls
    BY CallTypes
<1>2. /\ u \in UnregCalls /\ u.at = unreg[m][c].at /\ u.device = unreg[m][c].device
      /\ u.nth = unreg[m][c].nth + 1
    BY <1>1 DEF UnregCalls
<1>3. unreg' = [unreg EXCEPT ![m][c] = u]
    OBVIOUS
<1> HIDE DEF u
<1> QED
    BY <1>2, <1>3, OneCallChanges

LEMMA CallStarts ==
    ASSUME Types, NEW m \in Managers, NEW c \in Callers, NEW d \in Devices,
           unreg' = [unreg EXCEPT ![m][c] = [at |-> "search", device |-> d, nth |-> 1]]
    PROVE  OneCall(m, c, [at |-> "search", device |-> d, nth |-> 1])
<1>1. [at |-> "search", device |-> d, nth |-> 1] \in UnregCalls
    BY DEF UnregCalls, UnregSteps
<1> QED
    BY <1>1, OneCallChanges

LEMMA TypeInit == Init => TypeInv
<1> SUFFICES ASSUME Init PROVE TypeInv
    OBVIOUS
<1>1. Types
    <2>1. NoCall \in UnregCalls
        BY DEF NoCall, UnregCalls, UnregSteps
    <2> QED BY <2>1 DEF Init, Types, BootSteps, DownSteps
<1>2. Bounds
    BY DeviceOfDCD DEF Init, Bounds, BoundsOf, Up, DeviceSteps, NoCall, Callers, Settled
<1>3. NoDuplicates
    BY DEF Init, NoDuplicates, Distinct
<1> QED
    BY <1>1, <1>2, <1>3 DEF TypeInv

\* A step of one call keeps the types when the call it leaves has them.
LEMMA CallStepTypes ==
    ASSUME TypeInv, NEW m \in Managers, NEW c \in Callers, NEW u \in UnregCalls, OneCall(m, c, u),
           unreg[m][c].at # "none", u.device \in Devices, u.nth \in 1 .. (Len(Devs[m]) + 1),
           u.at \in Settled => u.nth \in 1 .. Len(Devs[m]),
           registeredDevices' \in Seq(Devices), Distinct(registeredDevices'),
           UNCHANGED <<dmn, deviceManagers, mounts, processVars, adminState, local, boot, down,
                       calls>>
    PROVE  TypeInv'
<1> USE DEF processVars, boot, down
<1>1. Types /\ Bounds /\ NoDuplicates
    BY DEF TypeInv
<1>2. Types'
    BY <1>1 DEF Types, OneCall
<1>3. Bounds'
    <2> SUFFICES ASSUME NEW n \in Managers PROVE BoundsOf(n)'
        BY DEF Bounds
    <2>1. \A e \in Callers : unreg'[n][e] = unreg[n][e] \/ (n = m /\ e = c /\ unreg'[n][e] = u)
        BY DEF OneCall
    <2>2. DOMAIN Devs[m] = 1 .. Len(Devs[m]) /\ "shutdown" \in Callers
        BY DeviceOfDCD DEF Callers
    <2> QED BY <1>1, <2>1, <2>2 DEF Bounds, BoundsOf, Up
<1>4. NoDuplicates'
    BY <1>1 DEF NoDuplicates
<1> QED
    BY <1>2, <1>3, <1>4 DEF TypeInv

LEMMA RefuseTypes ==
    ASSUME TypeInv, NEW m \in Managers, NEW c \in Callers, Refuse(m, c),
           registeredDevices' \in Seq(Devices), Distinct(registeredDevices'),
           UNCHANGED <<dmn, deviceManagers, mounts, boots, adminState, local, boot, todo, releasing,
                       downEntry, calls>>
    PROVE  TypeInv'
<1> USE DEF boot
<1>1. Types /\ Bounds /\ NoDuplicates
    BY DEF TypeInv
<1>2. OneCall(m, c, NoCall) /\ NoCall.at = "none"
    BY <1>1, CallEnds, CallTypes DEF Refuse
<1>3. \/ proc' = proc /\ downAt' = downAt
      \/ /\ c = "shutdown" /\ proc' = [proc EXCEPT ![m] = "dead"]
         /\ downAt' = [downAt EXCEPT ![m] = "raised"]
    BY DEF Refuse, Die, DownAt
<1>4. Types'
    <2>1. proc' \in [Managers -> {"off", "up", "dead"}] /\ downAt' \in [Managers -> DownSteps]
        BY <1>1, <1>3 DEF Types, DownSteps
    <2> QED BY <1>1, <1>2, <2>1 DEF Types, OneCall
<1>5. Bounds'
    <2> SUFFICES ASSUME NEW n \in Managers PROVE BoundsOf(n)'
        BY DEF Bounds
    <2>1. \A e \in Callers : unreg'[n][e] = unreg[n][e] \/ (n = m /\ e = c /\ unreg'[n][e].at = "none")
        BY <1>2 DEF OneCall
    <2>2. proc'[n] = "up" => proc[n] = "up"
        BY <1>1, <1>3 DEF Types
    <2>3. unreg'[n]["shutdown"].at # "none" =>
              unreg'[n]["shutdown"] = unreg[n]["shutdown"] /\ downAt'[n] = downAt[n]
        <3>1. CASE n = m /\ c = "shutdown"
            BY <1>2, <3>1 DEF OneCall
        <3>2. CASE ~(n = m /\ c = "shutdown")
            <4>1. downAt'[n] = downAt[n]
                BY <1>1, <1>3, <3>2 DEF Types
            <4> QED BY <2>1, <3>2, <4>1 DEF Callers
        <3> QED BY <3>1, <3>2
    <2>4. \A e \in Callers :
              /\ unreg'[n][e].at # "none" =>
                     unreg'[n][e].device \in Devices /\ unreg'[n][e].nth \in 1 .. (Len(Devs[n]) + 1)
              /\ unreg'[n][e].at \in Settled => unreg'[n][e].nth \in DOMAIN Devs[n]
        BY <1>1, <2>1 DEF Bounds, BoundsOf, Settled
    <2> QED BY <1>1, <2>2, <2>3, <2>4 DEF Bounds, BoundsOf, Up
<1>6. NoDuplicates'
    BY <1>1 DEF NoDuplicates
<1> QED
    BY <1>4, <1>5, <1>6 DEF TypeInv

LEMMA TypeStep ==
    ASSUME TypeInv, [Next]_vars
    PROVE  TypeInv'
<1> USE DEF Up, Die, BootAt, DownAt, NextDevice, NextEntry, domainVars, processVars, boot, down
<1>1. Types /\ Bounds /\ NoDuplicates
    BY DEF TypeInv
<1>2. ASSUME NEW m \in Managers, StartManager(m) PROVE TypeInv'
    <2>1. Types'
        <3>1. unreg' \in [Managers -> [Callers -> UnregCalls]]
            <4>1. NoCall \in UnregCalls
                BY DEF NoCall, UnregCalls, UnregSteps
            <4> QED BY <1>1, <1>2, <4>1 DEF StartManager, Types
        <3>2. bootEntry' \in [Managers -> Nat \ {0}] /\ downEntry' \in [Managers -> Nat \ {0}]
            BY <1>1, <1>2 DEF StartManager, Types
        <3> QED BY <1>1, <1>2, <3>1, <3>2 DEF StartManager, Types, BootSteps, DownSteps
    <2>2. Bounds'
        <3>1. Len(<< >>) = 0
            OBVIOUS
        <3>2. /\ boots' = [boots EXCEPT ![m] = @ + 1] /\ boots[m] < MaxBoots[m] /\ calls' = calls
              /\ proc' = [proc EXCEPT ![m] = "up"] /\ local' = [local EXCEPT ![m] = << >>]
              /\ bootAt' = [bootAt EXCEPT ![m] = "check"] /\ bootNth' = [bootNth EXCEPT ![m] = 1]
              /\ releasing' = [releasing EXCEPT ![m] = 0]
              /\ downAt' = [downAt EXCEPT ![m] = "none"]
              /\ unreg' = [unreg EXCEPT ![m] = [c \in Callers |-> NoCall]]
            BY <1>2 DEF StartManager
        <3> SUFFICES ASSUME NEW n \in Managers PROVE BoundsOf(n)'
            BY DEF Bounds, BoundsOf
        <3>3. CASE n = m
            BY <1>1, <3>1, <3>2, <3>3, DeviceOfDCD DEF Bounds, BoundsOf, Types, DeviceSteps,
               Callers, NoCall, Settled
        <3>4. CASE n # m
            BY <1>1, <3>2, <3>4 DEF Bounds, BoundsOf
        <3> QED BY <3>3, <3>4
    <2>3. NoDuplicates'
        <3>1. Distinct(<< >>)
            BY DEF Distinct
        <3>2. registeredDevices' = registeredDevices /\ local' = [local EXCEPT ![m] = << >>]
            BY <1>2 DEF StartManager
        <3> QED BY <1>1, <3>1, <3>2 DEF NoDuplicates
    <2> QED BY <2>1, <2>2, <2>3 DEF TypeInv
<1>3. ASSUME NEW m \in Managers, CheckManager(m) PROVE TypeInv'
    <2>1. Types'
        <3>1. bootEntry' \in [Managers -> Nat \ {0}]
            <4>1. bootEntry \in [Managers -> Nat \ {0}] /\ bootEntry[m] + 1 \in Nat \ {0}
                BY <1>1 DEF Types
            <4>2. \/ bootEntry' = bootEntry \/ bootEntry' = [bootEntry EXCEPT ![m] = bootEntry[m] + 1]
                  \/ bootEntry' = [bootEntry EXCEPT ![m] = 1]
                BY <1>3 DEF CheckManager
            <4> QED BY <4>1, <4>2
        <3> QED BY <1>1, <1>3, <3>1 DEF CheckManager, Types, BootSteps
    <2>2. Bounds'
        BY <1>1, <1>3, DeviceOfDCD DEF CheckManager, Bounds, BoundsOf, Types, DeviceSteps,
           AtDomain
    <2>3. NoDuplicates'
        BY <1>1, <1>3 DEF CheckManager, NoDuplicates
    <2> QED BY <2>1, <2>2, <2>3 DEF TypeInv
<1>4. ASSUME NEW m \in Managers, GrowList(m) PROVE TypeInv'
    <2>1. Types'
        <3>1. deviceManagers' \in Seq(Refs)
            BY <1>1, <1>4, AppendElement DEF GrowList, Types, Refs
        <3> QED BY <1>1, <1>4, <3>1 DEF GrowList, Types, BootSteps
    <2>2. Bounds'
        BY <1>1, <1>4, DeviceOfDCD DEF GrowList, Bounds, BoundsOf, Types, DeviceSteps, AtDomain
    <2>3. NoDuplicates'
        BY <1>1, <1>4 DEF GrowList, NoDuplicates
    <2> QED BY <2>1, <2>2, <2>3 DEF TypeInv
<1>5. ASSUME NEW m \in Managers, StoreManager(m) PROVE TypeInv'
    <2>1. Types'
        <3>1. boots[m] \in 1 .. MaxBoots[m]
            BY <1>1, <1>5, DeviceOfDCD DEF StoreManager, Types, Bounds, BoundsOf
        <3>2. Reference(m) \in Refs
            BY <3>1 DEF Reference, Refs
        <3>3. deviceManagers' = [deviceManagers EXCEPT ![Len(deviceManagers)] = Reference(m)]
            BY <1>5 DEF StoreManager
        <3>4. deviceManagers \in Seq(Refs) /\ Len(deviceManagers) \in Nat
              /\ DOMAIN deviceManagers = 1 .. Len(deviceManagers)
            BY <1>1, LenProperties DEF Types
        <3>5. deviceManagers' \in Seq(Refs)
            <4>1. CASE Len(deviceManagers) = 0
                <5>1. Len(deviceManagers) \notin DOMAIN deviceManagers
                    BY <3>4, <4>1
                <5>2. deviceManagers' = deviceManagers
                    BY <3>3, <3>4, <5>1
                <5> QED BY <3>4, <5>2
            <4>2. CASE Len(deviceManagers) # 0
                BY <3>2, <3>3, <3>4, <4>2
            <4> QED BY <4>1, <4>2
        <3> QED BY <1>1, <1>5, <3>5 DEF StoreManager, Types, BootSteps
    <2>2. Bounds'
        BY <1>1, <1>5, DeviceOfDCD DEF StoreManager, Bounds, BoundsOf, Types, DeviceSteps,
           AtDomain
    <2>3. NoDuplicates'
        BY <1>1, <1>5 DEF StoreManager, NoDuplicates
    <2> QED BY <2>1, <2>2, <2>3 DEF TypeInv
<1>6. ASSUME NEW m \in Managers, MountFileSystem(m) PROVE TypeInv'
    <2>1. Types'
        <3>1. bootEntry' \in [Managers -> Nat \ {0}]
            <4>1. bootEntry' = bootEntry \/ bootEntry' = [bootEntry EXCEPT ![m] = 1]
                BY <1>6 DEF MountFileSystem
            <4>2. bootEntry \in [Managers -> Nat \ {0}] /\ 1 \in Nat \ {0}
                BY <1>1 DEF Types
            <4>3. CASE bootEntry' = bootEntry
                BY <4>2, <4>3
            <4>4. CASE bootEntry' = [bootEntry EXCEPT ![m] = 1]
                BY <4>2, <4>4
            <4> QED BY <4>1, <4>3, <4>4
        <3> QED BY <1>1, <1>6, <3>1 DEF MountFileSystem, Types, BootSteps
    <2>2. Bounds'
        BY <1>1, <1>6, DeviceOfDCD DEF MountFileSystem, Bounds, BoundsOf, Types, DeviceSteps,
           AtDomain
    <2>3. NoDuplicates'
        BY <1>1, <1>6 DEF MountFileSystem, NoDuplicates
    <2> QED BY <2>1, <2>2, <2>3 DEF TypeInv
<1>7. ASSUME NEW m \in Managers, SetRegistered(m) PROVE TypeInv'
    <2>1. Types'
        BY <1>1, <1>7 DEF SetRegistered, Types, BootSteps
    <2>2. Bounds'
        BY <1>1, <1>7, DeviceOfDCD DEF SetRegistered, Bounds, BoundsOf, Types, DeviceSteps,
           AtDomain
    <2>3. NoDuplicates'
        BY <1>1, <1>7 DEF SetRegistered, NoDuplicates
    <2> QED BY <2>1, <2>2, <2>3 DEF TypeInv
<1>8. ASSUME NEW m \in Managers, RegisterLocally(m) PROVE TypeInv'
    <2>0. /\ local[m] \in Seq(Devices) /\ Distinct(local[m]) /\ Len(local[m]) < bootNth[m]
          /\ bootNth[m] \in 1 .. Len(Devs[m]) /\ Len(local[m]) \in Nat /\ bootNth[m] \in Nat
          /\ Len(local[m]) <= bootNth[m] /\ Len(local[m]) + 1 <= bootNth[m]
        BY <1>1, <1>8, ManagerTypes DEF RegisterLocally, NoDuplicates, DeviceSteps
    <2>a. PICK new \in Seq(Devices) :
              local' = [local EXCEPT ![m] = new] /\ Len(new) <= bootNth[m] /\ Distinct(new)
        <3> DEFINE d == Devs[m][bootNth[m]]
        <3>1. CASE Contains(local[m], d)
            <4>1. local' = [local EXCEPT ![m] = local[m]]
                BY <1>8, <3>1 DEF RegisterLocally
            <4> QED BY <2>0, <4>1
        <3>2. CASE ~Contains(local[m], d)
            <4>1. d \in Devices /\ d \notin ToSet(local[m])
                BY <2>0, <3>2, ContainsIsMember, DeviceOfDCD
            <4>2. /\ Append(local[m], d) \in Seq(Devices) /\ Len(Append(local[m], d)) = Len(local[m]) + 1
                  /\ Distinct(Append(local[m], d))
                BY <2>0, <4>1, AppendElement
            <4>3. local' = [local EXCEPT ![m] = Append(local[m], d)]
                <5>1. local' = [local EXCEPT ![m] = IF Contains(@, d) THEN @ ELSE Append(@, d)]
                    BY <1>8 DEF RegisterLocally
                <5> QED BY <3>2, <5>1
            <4> QED BY <2>0, <4>2, <4>3
        <3> QED BY <3>1, <3>2
    <2>b. /\ bootAt' = [bootAt EXCEPT ![m] = "adminState"]
          /\ UNCHANGED <<domainVars, processVars, adminState, down, unreg, calls, bootNth>>
        BY <1>8 DEF RegisterLocally
    <2>1. Types'
        <3>1. bootEntry' \in [Managers -> Nat \ {0}]
            BY <1>1, <1>8 DEF RegisterLocally, Types
        <3> QED BY <1>1, <2>a, <2>b, <3>1 DEF Types, BootSteps
    <2>2. Bounds'
        <3> SUFFICES ASSUME NEW n \in Managers PROVE BoundsOf(n)'
            BY DEF Bounds
        <3>1. CASE n = m
            <4>1. local'[n] = new /\ bootAt'[n] = "adminState" /\ bootNth'[n] = bootNth[n]
                BY <1>1, <2>a, <2>b, <3>1 DEF Types
            <4>2. bootNth[n] <= Len(Devs[n]) /\ bootNth[n] <= Len(Devs[n]) + 1 /\ bootNth[n] \in Nat
                BY <2>0, <3>1
            <4>3. bootAt'[n] # "off" => boots'[n] >= 1
                BY <1>1, <1>8, <2>b, <3>1 DEF RegisterLocally, Bounds, BoundsOf
            <4> QED BY <1>1, <2>a, <2>b, <3>1, <4>1, <4>2, <4>3 DEF Bounds, BoundsOf,
                       DeviceSteps
        <3>2. CASE n # m
            <4>1. local'[n] = local[n] /\ bootAt'[n] = bootAt[n] /\ bootNth'[n] = bootNth[n]
                BY <1>1, <2>a, <2>b, <3>2
            <4> QED BY <1>1, <2>b, <4>1 DEF Bounds, BoundsOf
        <3> QED BY <3>1, <3>2
    <2>3. NoDuplicates'
        BY <1>1, <2>a, <2>b DEF Types, NoDuplicates
    <2> QED BY <2>1, <2>2, <2>3 DEF TypeInv
<1>9. ASSUME NEW m \in Managers, ReadAdminState(m) PROVE TypeInv'
    <2>1. Types'
        <3>1. CASE BootAt(m, "checkManager")
            BY <1>1, <1>9, <3>1 DEF ReadAdminState, Types, BootSteps
        <3>2. CASE NextDevice(m)
            BY <1>1, <1>9, <3>2 DEF ReadAdminState, Types, BootSteps, DownSteps
        <3> QED BY <1>9, <3>1, <3>2 DEF ReadAdminState
    <2>2. Bounds'
        <3>1. CASE BootAt(m, "checkManager")
            BY <1>1, <1>9, <3>1 DEF ReadAdminState, Bounds, BoundsOf, Types, DeviceSteps
        <3>2. CASE NextDevice(m)
            <4>1. bootNth' = [bootNth EXCEPT ![m] = @ + 1] /\ bootAt' = [bootAt EXCEPT ![m] = "launch"]
                  /\ UNCHANGED <<domainVars, processVars, adminState, local, down, unreg, calls>>
                  /\ bootAt[m] = "adminState"
                BY <1>9, <3>2 DEF ReadAdminState
            <4> SUFFICES ASSUME NEW n \in Managers PROVE BoundsOf(n)'
                BY DEF Bounds, BoundsOf
            <4>2. CASE n = m
                <5>1. bootNth'[n] = bootNth[n] + 1 /\ bootAt'[n] = "launch"
                    BY <1>1, <4>1, <4>2 DEF Types
                <5>2. /\ bootNth[n] \in 1 .. Len(Devs[n]) /\ Len(local[n]) \in Nat
                      /\ Len(local[n]) <= bootNth[n] /\ Len(Devs[n]) \in Nat
                    BY <1>1, <4>1, <4>2, ManagerTypes, DeviceOfDCD DEF DeviceSteps
                <5> QED BY <1>1, <4>1, <4>2, <5>1, <5>2 DEF Bounds, BoundsOf, DeviceSteps
            <4>3. CASE n # m
                <5>1. bootNth'[n] = bootNth[n] /\ bootAt'[n] = bootAt[n]
                    BY <1>1, <4>1, <4>3
                <5> QED BY <1>1, <4>1, <5>1 DEF Bounds, BoundsOf
            <4> QED BY <4>2, <4>3
        <3> QED BY <1>9, <3>1, <3>2 DEF ReadAdminState
    <2>3. NoDuplicates'
        BY <1>1, <1>9 DEF ReadAdminState, NoDuplicates
    <2> QED BY <2>1, <2>2, <2>3 DEF TypeInv
<1>10. ASSUME NEW m \in Managers, CheckItsManager(m) PROVE TypeInv'
    <2>1. Types'
        <3>1. bootEntry' \in [Managers -> Nat \ {0}]
            <4>1. bootEntry \in [Managers -> Nat \ {0}] /\ bootEntry[m] + 1 \in Nat \ {0}
                BY <1>1 DEF Types
            <4>2. \/ bootEntry' = bootEntry \/ bootEntry' = [bootEntry EXCEPT ![m] = bootEntry[m] + 1]
                  \/ bootEntry' = [bootEntry EXCEPT ![m] = 1]
                BY <1>10 DEF CheckItsManager
            <4> QED BY <4>1, <4>2
        <3> QED BY <1>1, <1>10, <3>1 DEF CheckItsManager, Types, BootSteps
    <2>2. Bounds'
        BY <1>1, <1>10, DeviceOfDCD DEF CheckItsManager, Bounds, BoundsOf, Types, DeviceSteps,
           AtDomain
    <2>3. NoDuplicates'
        BY <1>1, <1>10 DEF CheckItsManager, NoDuplicates
    <2> QED BY <2>1, <2>2, <2>3 DEF TypeInv
<1>11. ASSUME NEW m \in Managers, StoreDevice(m) PROVE TypeInv'
    <2>0. /\ bootAt[m] = "storeDevice" /\ bootNth[m] \in 1 .. Len(Devs[m])
          /\ bootNth' = [bootNth EXCEPT ![m] = @ + 1] /\ bootAt' = [bootAt EXCEPT ![m] = "launch"]
          /\ UNCHANGED <<dmn, deviceManagers, mounts, processVars, adminState, local, down, unreg,
                         calls>>
        BY <1>1, <1>11, DeviceOfDCD DEF StoreDevice, Types, Bounds, BoundsOf, DeviceSteps
    <2>a. registeredDevices' \in Seq(Devices) /\ Distinct(registeredDevices')
        <3> DEFINE d == Devs[m][bootNth[m]]
        <3>1. d \in Devices /\ registeredDevices \in Seq(Devices) /\ Distinct(registeredDevices)
            BY <1>1, <2>0, DeviceOfDCD DEF Types, NoDuplicates
        <3>2. registeredDevices' = IF Contains(registeredDevices, d) THEN registeredDevices
                                   ELSE Append(registeredDevices, d)
            BY <1>11 DEF StoreDevice
        <3> HIDE DEF d
        <3> QED BY <3>1, <3>2, ContainsIsMember, AppendElement
    <2>1. Types'
        <3>1. bootEntry' \in [Managers -> Nat \ {0}]
            BY <1>1, <1>11 DEF StoreDevice, Types
        <3>2. bootNth' \in [Managers -> Nat \ {0}] /\ bootAt' \in [Managers -> BootSteps]
            <4>1. bootNth[m] + 1 \in Nat \ {0} /\ bootNth \in [Managers -> Nat \ {0}]
                BY <1>1, <2>0 DEF Types
            <4>2. bootAt \in [Managers -> BootSteps] /\ "launch" \in BootSteps
                BY <1>1 DEF Types, BootSteps
            <4> QED BY <2>0, <4>1, <4>2
        <3> QED BY <1>1, <2>0, <2>a, <3>1, <3>2 DEF Types
    <2>2. Bounds'
        <3> SUFFICES ASSUME NEW n \in Managers PROVE BoundsOf(n)'
            BY DEF Bounds, BoundsOf
        <3>1. CASE n = m
            <4>1. bootNth'[n] = bootNth[n] + 1 /\ bootAt'[n] = "launch"
                BY <1>1, <2>0, <3>1 DEF Types
            <4>2. /\ bootNth[n] \in 1 .. Len(Devs[n]) /\ Len(local[n]) \in Nat
                  /\ Len(local[n]) <= bootNth[n] /\ Len(Devs[n]) \in Nat
                BY <1>1, <2>0, <3>1, ManagerTypes, DeviceOfDCD
            <4> QED BY <1>1, <2>0, <3>1, <4>1, <4>2 DEF Bounds, BoundsOf, DeviceSteps
        <3>2. CASE n # m
            <4>1. bootNth'[n] = bootNth[n] /\ bootAt'[n] = bootAt[n]
                BY <1>1, <2>0, <3>2
            <4> QED BY <1>1, <2>0, <4>1 DEF Bounds, BoundsOf
        <3> QED BY <3>1, <3>2
    <2>3. NoDuplicates'
        BY <1>1, <2>0, <2>a DEF NoDuplicates
    <2> QED BY <2>1, <2>2, <2>3 DEF TypeInv
<1>12. ASSUME NEW m \in Managers, CallShutdown(m) PROVE TypeInv'
    <2>1. Types'
        BY <1>1, <1>12 DEF CallShutdown, Types, BootSteps, DownSteps
    <2>2. Bounds'
        BY <1>1, <1>12, DeviceOfDCD DEF CallShutdown, Bounds, BoundsOf, Types, DeviceSteps,
           AtDomain
    <2>3. NoDuplicates'
        BY <1>1, <1>12 DEF CallShutdown, NoDuplicates
    <2> QED BY <2>1, <2>2, <2>3 DEF TypeInv
<1>13. ASSUME NEW m \in Managers, SnapshotDevices(m) PROVE TypeInv'
    <2>1. Types'
        BY <1>1, <1>13 DEF SnapshotDevices, Types, BootSteps, DownSteps
    <2>2. Bounds'
        BY <1>1, <1>13, DeviceOfDCD DEF SnapshotDevices, Bounds, BoundsOf, Types, DeviceSteps,
           AtDomain
    <2>3. NoDuplicates'
        BY <1>1, <1>13 DEF SnapshotDevices, NoDuplicates
    <2> QED BY <2>1, <2>2, <2>3 DEF TypeInv
<1>14. ASSUME NEW m \in Managers, RemoveDevice(m) PROVE TypeInv'
    <2>0. registeredDevices' \in Seq(Devices) /\ Distinct(registeredDevices')
        BY <1>1, <1>14, WithoutRest DEF RemoveDevice, Types, NoDuplicates
    <2>a. todo' \in [Managers -> Seq(Devices)]
        <3>1. todo[m] \in Seq(Devices) /\ Tail(todo[m]) \in Seq(Devices)
            BY <1>1, <1>14, HeadTailProperties DEF RemoveDevice, Types
        <3>2. todo' = todo \/ todo' = [todo EXCEPT ![m] = Tail(todo[m])]
            BY <1>14 DEF RemoveDevice
        <3>3. todo \in [Managers -> Seq(Devices)]
            BY <1>1 DEF Types
        <3> QED BY <3>1, <3>2, <3>3
    <2>1. Types'
        BY <1>1, <1>14, <2>0, <2>a DEF RemoveDevice, Types, DownSteps
    <2>2. Bounds'
        BY <1>1, <1>14, DeviceOfDCD DEF RemoveDevice, Bounds, BoundsOf, Types, DeviceSteps,
           AtDomain
    <2>3. NoDuplicates'
        BY <1>1, <1>14, <2>0 DEF RemoveDevice, NoDuplicates
    <2> QED BY <2>1, <2>2, <2>3 DEF TypeInv
<1>15. ASSUME NEW m \in Managers, Unlist(m) PROVE TypeInv'
    <2>1. Types'
        <3>1. deviceManagers \in Seq(Refs) /\ downEntry[m] \in Nat \ {0}
            BY <1>1 DEF Types
        <3>2. deviceManagers' \in Seq(Refs)
            BY <1>15, <3>1, ShiftedTypes DEF Unlist
        <3> QED BY <1>1, <1>15, <3>2 DEF Unlist, Types, DownSteps
    <2>2. Bounds'
        BY <1>1, <1>15, DeviceOfDCD DEF Unlist, Bounds, BoundsOf, Types, DeviceSteps, AtDomain
    <2>3. NoDuplicates'
        BY <1>1, <1>15 DEF Unlist, NoDuplicates
    <2> QED BY <2>1, <2>2, <2>3 DEF TypeInv
<1>23. ASSUME NEW m \in Managers, SearchList(m) PROVE TypeInv'
    <2>1. Types'
        <3>1. downEntry' \in [Managers -> Nat \ {0}]
            <4>1. downEntry \in [Managers -> Nat \ {0}] /\ downEntry[m] + 1 \in Nat \ {0}
                BY <1>1 DEF Types
            <4>2. downEntry' = downEntry \/ downEntry' = [downEntry EXCEPT ![m] = downEntry[m] + 1]
                BY <1>23 DEF SearchList
            <4> QED BY <4>1, <4>2
        <3> QED BY <1>1, <1>23, <3>1 DEF SearchList, Types, DownSteps
    <2>2. Bounds'
        <3>1. /\ downAt[m] = "remove" /\ \A n \in Managers : downAt'[n] # downAt[n] => n = m
              /\ UNCHANGED <<processVars, local, boot, releasing, unreg, calls>>
            BY <1>1, <1>23 DEF SearchList, Types
        <3> QED BY <1>1, <3>1 DEF Bounds, BoundsOf
    <2>3. NoDuplicates'
        BY <1>1, <1>23 DEF SearchList, NoDuplicates
    <2> QED BY <2>1, <2>2, <2>3 DEF TypeInv
<1>16. ASSUME NEW m \in Managers, StartRelease(m) PROVE TypeInv'
    <2>0. Len(local[m]) \in Nat /\ Len(local[m]) <= Len(Devs[m])
        BY <1>1, ManagerTypes
    <2>1. Types'
        BY <1>1, <1>16, <2>0 DEF StartRelease, Types, DownSteps
    <2>2. Bounds'
        BY <1>1, <1>16, <2>0 DEF StartRelease, Bounds, BoundsOf
    <2>3. NoDuplicates'
        BY <1>1, <1>16 DEF StartRelease, NoDuplicates
    <2> QED BY <2>1, <2>2, <2>3 DEF TypeInv
<1>17. ASSUME NEW m \in Managers, ReleaseDevice(m) PROVE TypeInv'
    <2> DEFINE u == [at |-> "search", device |-> local[m][releasing[m]], nth |-> 1]
    <2>a. /\ UNCHANGED <<domainVars, boots, adminState, local, boot, todo, releasing, downEntry,
                         calls>>
          /\ downAt[m] = "release" /\ unreg[m]["shutdown"].at = "none"
          /\ proc' = proc \/ proc' = [proc EXCEPT ![m] = "dead"]
        BY <1>17 DEF ReleaseDevice
    <2>b. "shutdown" \in Callers
        BY DEF Callers
    <2>c. \/ /\ unreg' = unreg
             /\ downAt' = [downAt EXCEPT ![m] = "done"] \/ downAt' = [downAt EXCEPT ![m] = "raised"]
          \/ /\ OneCall(m, "shutdown", u) /\ downAt' = downAt
             /\ u.device \in Devices /\ u.nth = 1 /\ u.at = "search" /\ releasing[m] >= 1
        <3>1. CASE unreg' = unreg /\ downAt' = [downAt EXCEPT ![m] = "done"]
            BY <3>1
        <3>3. CASE unreg' = unreg /\ downAt' = [downAt EXCEPT ![m] = "raised"]
            BY <3>3
        <3>2. CASE releasing[m] \in DOMAIN local[m] /\ downAt' = downAt
                   /\ unreg' = [unreg EXCEPT ![m]["shutdown"] = u]
            <4>1. releasing[m] \in 1 .. Len(local[m]) /\ local[m][releasing[m]] \in Devices
                BY <1>1, <3>2, ManagerTypes
            <4>2. OneCall(m, "shutdown", u)
                BY <1>1, <2>b, <3>2, <4>1, CallStarts
            <4> QED BY <3>2, <4>1, <4>2
        <3> QED BY <1>17, <3>1, <3>2, <3>3 DEF ReleaseDevice
    <2>1. Types'
        <3>1. unreg' \in [Managers -> [Callers -> UnregCalls]]
            BY <1>1, <2>c DEF Types, OneCall
        <3>2. downAt' \in [Managers -> DownSteps]
            BY <1>1, <2>c DEF Types, DownSteps
        <3> QED BY <1>1, <2>a, <3>1, <3>2 DEF Types
    <2>2. Bounds'
        <3> SUFFICES ASSUME NEW n \in Managers PROVE BoundsOf(n)'
            BY DEF Bounds, BoundsOf
        <3>1. proc'[n] = "up" => proc[n] = "up"
            BY <1>1, <2>a DEF Types
        <3>2. CASE unreg' = unreg
            <4>1. downAt'[n] # downAt[n] => n = m
                BY <1>1, <2>c, <2>a, <3>2 DEF Types
            <4> QED BY <1>1, <2>a, <3>1, <3>2, <4>1 DEF Bounds, BoundsOf
        <3>3. CASE OneCall(m, "shutdown", u) /\ downAt' = downAt
                   /\ u.device \in Devices /\ u.nth = 1 /\ u.at = "search" /\ releasing[m] >= 1
            <4>1. 1 \in 1 .. (Len(Devs[n]) + 1)
                BY DeviceOfDCD
            <4> HIDE DEF u
            <4>2. \A c \in Callers : unreg'[n][c] = unreg[n][c] \/ (n = m /\ c = "shutdown" /\ unreg'[n][c] = u)
                BY <3>3 DEF OneCall
            <4> QED BY <1>1, <2>a, <2>b, <3>1, <3>3, <4>1, <4>2 DEF Bounds, BoundsOf, Settled
        <3> HIDE DEF u
        <3> QED BY <2>c, <3>2, <3>3
    <2>3. NoDuplicates'
        BY <1>1, <2>a DEF Types, NoDuplicates
    <2> QED BY <2>1, <2>2, <2>3 DEF TypeInv
<1>18. ASSUME NEW m \in Managers, NEW c \in Clients, NEW d \in ToSet(local[m]),
              CallUnregister(m, c, d)
       PROVE  TypeInv'
    <2> DEFINE u == [at |-> "search", device |-> d, nth |-> 1]
    <2>0. /\ d \in Devices /\ c \in Callers /\ c # "shutdown"
          /\ UNCHANGED <<domainVars, processVars, adminState, local, boot, down>>
          /\ calls[m] < MaxCalls /\ calls' = [calls EXCEPT ![m] = @ + 1]
        <3>1. d \in Devices
            BY <1>1, ManagerTypes DEF ToSet
        <3> QED BY <1>18, <3>1, ShutdownIsNoClient DEF CallUnregister, Callers
    <2>1. OneCall(m, c, u)
        BY <1>1, <1>18, <2>0, CallStarts DEF CallUnregister
    <2>a. u.device \in Devices /\ u.nth = 1 /\ u.at = "search"
        BY <2>0
    <2> HIDE DEF u
    <2>2. Types'
        <3>1. calls' \in [Managers -> Nat]
            BY <1>1, <2>0 DEF Types
        <3> QED BY <1>1, <2>0, <2>1, <3>1 DEF Types, OneCall
    <2>3. Bounds'
        <3> SUFFICES ASSUME NEW n \in Managers PROVE BoundsOf(n)'
            BY DEF Bounds
        <3>1. 1 \in 1 .. (Len(Devs[n]) + 1)
            BY DeviceOfDCD
        <3>2. calls'[n] <= MaxCalls
            <4>1. CASE n = m
                BY <1>1, <2>0, <4>1, DeviceOfDCD DEF Types
            <4>2. CASE n # m
                BY <1>1, <2>0, <4>2 DEF Types, Bounds, BoundsOf
            <4> QED BY <4>1, <4>2
        <3>3. \A e \in Callers : unreg'[n][e] = unreg[n][e] \/ (n = m /\ e = c /\ unreg'[n][e] = u)
            BY <2>1 DEF OneCall
        <3>4. "shutdown" \in Callers
            BY DEF Callers
        <3> QED BY <1>1, <2>0, <2>a, <3>1, <3>2, <3>3, <3>4 DEF Bounds, BoundsOf, Settled
    <2>4. NoDuplicates'
        BY <1>1, <2>0 DEF NoDuplicates
    <2> QED BY <2>2, <2>3, <2>4 DEF TypeInv
<1>24. ASSUME NEW m \in Managers, NEW c \in Callers, SearchDevice(m, c) PROVE TypeInv'
    <2> DEFINE i == unreg[m][c].nth
    <2>a. /\ unreg[m][c].at = "search"
          /\ UNCHANGED <<domainVars, boots, adminState, local, boot, todo, releasing, downEntry,
                         calls>>
        BY <1>24 DEF SearchDevice
    <2>b. \/ i \in DOMAIN local[m] /\ UnregAt(m, c, "found") /\ UNCHANGED <<proc, downAt>>
          \/ /\ i \in DOMAIN local[m] /\ unreg' = [unreg EXCEPT ![m][c].nth = @ + 1]
             /\ UNCHANGED <<proc, downAt>>
          \/ Refuse(m, c)
        BY <1>24 DEF SearchDevice
    <2>c. /\ unreg[m][c].device \in Devices
          /\ i \in DOMAIN local[m] => i \in 1 .. Len(Devs[m]) /\ i + 1 \in 1 .. (Len(Devs[m]) + 1)
        <3>1. unreg[m][c].device \in Devices
            BY <1>1, <2>a DEF Bounds, BoundsOf
        <3>2. /\ DOMAIN local[m] = 1 .. Len(local[m]) /\ Len(local[m]) \in Nat
              /\ Len(local[m]) <= Len(Devs[m]) /\ Len(Devs[m]) \in Nat
            BY <1>1, ManagerTypes, DeviceOfDCD
        <3> QED BY <3>1, <3>2
    <2>d. registeredDevices' \in Seq(Devices) /\ Distinct(registeredDevices')
        BY <1>1, <2>a DEF Types, NoDuplicates
    <2>1. CASE Refuse(m, c)
        BY <1>1, <2>1, <2>a, <2>d, RefuseTypes
    <2>2. CASE ~Refuse(m, c)
        <3>1. PICK u \in UnregCalls :
                  /\ OneCall(m, c, u) /\ u.device = unreg[m][c].device
                  /\ u.nth \in 1 .. (Len(Devs[m]) + 1)
                  /\ u.at \in Settled => u.nth \in 1 .. Len(Devs[m])
            <4>1. CASE i \in DOMAIN local[m] /\ UnregAt(m, c, "found")
                <5>1. PICK u \in UnregCalls : u.at = "found" /\ u.device = unreg[m][c].device
                                             /\ u.nth = unreg[m][c].nth /\ OneCall(m, c, u)
                    BY <1>1, <4>1, CallMoves DEF UnregSteps
                <5>2. i \in 1 .. Len(Devs[m]) /\ i \in 1 .. (Len(Devs[m]) + 1)
                    BY <2>c, <4>1, DeviceOfDCD
                <5> QED BY <5>1, <5>2
            <4>2. CASE i \in DOMAIN local[m] /\ unreg' = [unreg EXCEPT ![m][c].nth = @ + 1]
                <5>1. PICK u \in UnregCalls : /\ u.at = unreg[m][c].at /\ u.device = unreg[m][c].device
                                             /\ u.nth = unreg[m][c].nth + 1 /\ OneCall(m, c, u)
                    BY <1>1, <4>2, CallSearches
                <5> QED BY <2>a, <2>c, <4>2, <5>1 DEF Settled
            <4> QED BY <2>b, <2>2, <4>1, <4>2
        <3>2. UNCHANGED <<proc, downAt>>
            BY <2>b, <2>2
        <3> QED BY <1>1, <2>a, <2>c, <2>d, <3>1, <3>2, CallStepTypes
    <2> QED BY <2>1, <2>2
<1>25. ASSUME NEW m \in Managers, NEW c \in Callers, ChooseWay(m, c) PROVE TypeInv'
    <2>1. PICK step \in {"domain", "local"} : UnregAt(m, c, step)
        BY <1>25 DEF ChooseWay
    <2>2. PICK u \in UnregCalls : u.at = step /\ u.device = unreg[m][c].device
                                 /\ u.nth = unreg[m][c].nth /\ OneCall(m, c, u)
        BY <1>1, <2>1, CallMoves DEF UnregSteps
    <2>3. /\ unreg[m][c].at = "found"
          /\ UNCHANGED <<domainVars, processVars, adminState, local, boot, down, calls>>
        BY <1>25 DEF ChooseWay
    <2>4. u.device \in Devices /\ u.nth \in 1 .. (Len(Devs[m]) + 1) /\ u.nth \in 1 .. Len(Devs[m])
        BY <1>1, <2>2, <2>3, DeviceOfDCD DEF Bounds, BoundsOf, Settled
    <2>5. registeredDevices' \in Seq(Devices) /\ Distinct(registeredDevices')
        BY <1>1, <2>3 DEF Types, NoDuplicates
    <2> QED BY <1>1, <2>2, <2>3, <2>4, <2>5, CallStepTypes
<1>19. ASSUME NEW m \in Managers, NEW c \in Callers, UnregisterAtDomain(m, c) PROVE TypeInv'
    <2>0. registeredDevices' \in Seq(Devices) /\ Distinct(registeredDevices')
        BY <1>1, <1>19, WithoutRest DEF UnregisterAtDomain, Types, NoDuplicates
    <2>a. /\ unreg[m][c].at = "domain"
          /\ UNCHANGED <<dmn, deviceManagers, mounts, boots, adminState, local, boot, todo,
                         releasing, downEntry, calls>>
        BY <1>19 DEF UnregisterAtDomain
    <2>1. CASE Refuse(m, c)
        BY <1>1, <2>0, <2>1, <2>a, RefuseTypes
    <2>2. CASE UnregAt(m, c, "local") /\ UNCHANGED <<proc, downAt>>
        <3>1. PICK u \in UnregCalls : u.at = "local" /\ u.device = unreg[m][c].device
                                     /\ u.nth = unreg[m][c].nth /\ OneCall(m, c, u)
            BY <1>1, <2>2, CallMoves DEF UnregSteps
        <3>2. u.device \in Devices /\ u.nth \in 1 .. (Len(Devs[m]) + 1) /\ u.nth \in 1 .. Len(Devs[m])
            BY <1>1, <2>a, <3>1, DeviceOfDCD DEF Bounds, BoundsOf, Settled
        <3> QED BY <1>1, <2>0, <2>2, <2>a, <3>1, <3>2, CallStepTypes
    <2> QED BY <1>19, <2>1, <2>2 DEF UnregisterAtDomain
<1>20. ASSUME NEW m \in Managers, NEW c \in Callers, RemoveLocally(m, c) PROVE TypeInv'
    <2>0. PICK new \in Seq(Devices) :
              local' = [local EXCEPT ![m] = new] /\ Len(new) <= Len(local[m]) /\ Distinct(new)
        <3>1. /\ local[m] \in Seq(Devices) /\ Distinct(local[m]) /\ Len(local[m]) \in Nat
              /\ local = [local EXCEPT ![m] = local[m]] /\ unreg[m][c].nth \in Nat
            BY <1>1, LenProperties, CallTypes DEF Types, NoDuplicates
        <3>2. CASE local' = local
            BY <3>1, <3>2
        <3>3. CASE local[m] # << >> /\ local' = [local EXCEPT ![m] = Shifted(local[m], unreg[m][c].nth)]
            <4>1. /\ Shifted(local[m], unreg[m][c].nth) \in Seq(Devices)
                  /\ Len(Shifted(local[m], unreg[m][c].nth)) <= Len(local[m])
                  /\ Distinct(Shifted(local[m], unreg[m][c].nth))
                BY <3>1, <3>3, ShiftedRest
            <4> QED BY <3>3, <4>1
        <3> QED BY <1>20, <3>2, <3>3 DEF RemoveLocally
    <2>a. /\ UNCHANGED <<domainVars, boots, adminState, boot, downAt, todo, downEntry, calls>>
          /\ EndUnregister(m, c) /\ unreg[m][c].at = "local"
          /\ proc' = proc \/ proc' = [proc EXCEPT ![m] = "dead"]
          /\ \/ releasing' = releasing
             \/ c = "shutdown" /\ releasing' = [releasing EXCEPT ![m] = @ - 1]
        BY <1>20 DEF RemoveLocally, Return
    <2>b. OneCall(m, c, NoCall) /\ NoCall.at = "none"
        BY <1>1, <2>a, CallEnds, CallTypes
    <2>c. releasing' \in [Managers -> Nat] /\ \A n \in Managers : releasing'[n] <= releasing[n]
        <3>1. CASE releasing' = releasing
            BY <1>1, <3>1 DEF Types
        <3>2. CASE c = "shutdown" /\ releasing' = [releasing EXCEPT ![m] = @ - 1]
            <4>1. releasing[m] >= 1 /\ releasing \in [Managers -> Nat]
                BY <1>1, <2>a, <3>2 DEF Types, Bounds, BoundsOf
            <4>2. releasing[m] - 1 \in Nat /\ releasing[m] - 1 <= releasing[m]
                BY <4>1
            <4> QED BY <3>2, <4>1, <4>2
        <3> QED BY <2>a, <3>1, <3>2
    <2>1. Types'
        BY <1>1, <2>0, <2>a, <2>b, <2>c DEF Types, OneCall
    <2>2. Bounds'
        <3> SUFFICES ASSUME NEW n \in Managers PROVE BoundsOf(n)'
            BY DEF Bounds, BoundsOf
        <3>1. Len(local'[n]) <= Len(local[n]) /\ Len(local[n]) \in Nat /\ Len(local'[n]) \in Nat
            BY <1>1, <2>0, LenProperties
        <3>2. proc'[n] = "up" => proc[n] = "up"
            BY <1>1, <2>a DEF Types
        <3>3. bootNth[n] \in Nat /\ Len(Devs[n]) \in Nat
            BY <1>1, DeviceOfDCD DEF Types
        <3>4. /\ releasing'[n] <= releasing[n] /\ releasing[n] \in Nat /\ releasing'[n] \in Nat
              /\ n # m \/ c # "shutdown" => releasing'[n] = releasing[n]
            BY <1>1, <2>a, <2>c DEF Types
        <3>5. \A e \in Callers : \/ unreg'[n][e] = unreg[n][e] /\ (n # m \/ e # c)
                                 \/ n = m /\ e = c /\ unreg'[n][e].at = "none"
            BY <2>b DEF OneCall
        <3>6. /\ unreg'[n]["shutdown"].at # "none" => unreg[n]["shutdown"].at # "none"
              /\ unreg'[n]["shutdown"].at # "none" => releasing'[n] = releasing[n]
            BY <3>4, <3>5 DEF Callers
        <3>7. \A e \in Callers :
                  /\ unreg'[n][e].at # "none" =>
                         unreg'[n][e].device \in Devices /\ unreg'[n][e].nth \in 1 .. (Len(Devs[n]) + 1)
                  /\ unreg'[n][e].at \in Settled => unreg'[n][e].nth \in DOMAIN Devs[n]
            BY <1>1, <3>5 DEF Bounds, BoundsOf, Settled
        <3>8. BoundsOf(n)
            BY <1>1 DEF Bounds
        <3>9. /\ Len(local'[n]) < bootNth[n]
                 \/ (bootAt[n] \in DeviceSteps /\ Len(local'[n]) <= bootNth[n])
              /\ releasing'[n] <= Len(Devs[n])
            BY <3>1, <3>3, <3>4, <3>8 DEF BoundsOf
        <3>10. unreg'[n]["shutdown"].at # "none" => releasing'[n] >= 1 /\ downAt'[n] = "release"
            BY <2>a, <3>6, <3>8 DEF BoundsOf
        <3> QED BY <2>a, <3>2, <3>7, <3>8, <3>9, <3>10 DEF BoundsOf
    <2>3. NoDuplicates'
        BY <1>1, <2>0, <2>a DEF Types, NoDuplicates
    <2> QED BY <2>1, <2>2, <2>3 DEF TypeInv
<1>21. ASSUME NEW m \in Managers, Crash(m) PROVE TypeInv'
    <2>1. Types'
        BY <1>1, <1>21 DEF Crash, Types, BootSteps
    <2>2. Bounds'
        BY <1>1, <1>21, DeviceOfDCD DEF Crash, Bounds, BoundsOf, Types, DeviceSteps, AtDomain
    <2>3. NoDuplicates'
        BY <1>1, <1>21 DEF Crash, NoDuplicates
    <2> QED BY <2>1, <2>2, <2>3 DEF TypeInv
<1>22. CASE UNCHANGED vars
    <2>1. Types' /\ Bounds' /\ NoDuplicates'
        BY <1>1, <1>22 DEF vars, Types, Bounds, BoundsOf, NoDuplicates
    <2> QED BY <2>1 DEF TypeInv
<1> QED
    BY <1>2, <1>3, <1>4, <1>5, <1>6, <1>7, <1>8, <1>9, <1>10, <1>11, <1>12, <1>13, <1>14, <1>15,
       <1>16, <1>17, <1>18, <1>19, <1>20, <1>21, <1>22, <1>23, <1>24, <1>25 DEF Next

\* Every variable has its type, for any DCDs, bounds and faults.
THEOREM TypeCorrect == Spec => []TypeOK
<1>1. TypeInv => TypeOK
    <2> SUFFICES ASSUME TypeInv PROVE TypeOK
        OBVIOUS
    <2>1. Types /\ Bounds
        BY DEF TypeInv
    <2>2. ASSUME NEW m \in Managers
          PROVE  /\ boots[m] \in 0 .. MaxBoots[m] /\ calls[m] \in 0 .. MaxCalls
                 /\ releasing[m] \in 0 .. Len(Devs[m])
                 /\ bootNth[m] \in 1 .. (Len(Devs[m]) + 1)
                 /\ bootAt[m] \in DeviceSteps => bootNth[m] \in DOMAIN Devs[m]
                 /\ bootEntry[m] \in Nat \ {0} /\ downEntry[m] \in Nat \ {0}
                 /\ \A c \in Callers :
                        /\ unreg[m][c].at \in UnregSteps
                        /\ unreg[m][c].at # "none" =>
                               /\ unreg[m][c].device \in Devices
                               /\ unreg[m][c].nth \in 1 .. (Len(Devs[m]) + 1)
                        /\ unreg[m][c].at \in Settled => unreg[m][c].nth \in DOMAIN Devs[m]
        <3>1. boots[m] \in Nat /\ calls[m] \in Nat /\ releasing[m] \in Nat
            BY <2>1 DEF Types
        <3>2. BoundsOf(m)
            BY <2>1 DEF Bounds
        <3>3. bootAt[m] \in DeviceSteps => bootNth[m] \in DOMAIN Devs[m]
            BY <2>1, DeviceOfDCD, ManagerTypes
        <3>4. bootNth[m] \in Nat /\ bootNth[m] >= 1 /\ Len(Devs[m]) \in Nat
            BY <2>1, DeviceOfDCD, ManagerTypes
        <3>5. bootEntry[m] \in Nat \ {0} /\ downEntry[m] \in Nat \ {0}
            BY <2>1 DEF Types
        <3>6. \A c \in Callers : unreg[m][c].at \in UnregSteps
            BY <2>1, CallTypes
        <3> QED BY <3>1, <3>2, <3>3, <3>4, <3>5, <3>6, DeviceOfDCD DEF BoundsOf
    <2> QED BY <2>1, <2>2 DEF TypeOK, Types, DeviceSteps, Settled
<1> QED
    BY <1>1, TypeInit, TypeStep, PTL DEF Spec

-----------------------------------------------------------------------------
(* Where the devices are.                                                  *)

LEMMA OwnDisjoint ==
    ASSUME NEW m \in Managers, NEW n \in Managers, n # m
    PROVE  Own(m) \cap Own(n) = {}
    BY NodeAssumption DEF Own, ToSet

\* A step that changes nothing of manager n, nor what the domain has of it.
SameAt(n) ==
    /\ proc'[n] = proc[n] /\ boots'[n] = boots[n] /\ adminState'[n] = adminState[n]
    /\ local'[n] = local[n] /\ bootAt'[n] = bootAt[n] /\ bootNth'[n] = bootNth[n]
    /\ downAt'[n] = downAt[n] /\ todo'[n] = todo[n] /\ unreg'[n] = unreg[n]
    /\ InDomain(n)' = InDomain(n) /\ (n \in mounts' <=> n \in mounts)

LEMMA SameKeepsDevices ==
    ASSUME NEW n \in Managers, DeviceInvAt(n), SameAt(n)
    PROVE  DeviceInvAt(n)'
<1> USE DEF SameAt, Up, AtManager, Own, Coming, Leaving
<1>1. OwnInv(n)'
    BY DEF DeviceInvAt, OwnInv
<1>2. IndexInv(n)'
    BY DEF DeviceInvAt, IndexInv
<1>3. MountInv(n)'
    BY DEF DeviceInvAt, MountInv
<1>4. AgreeInv(n)'
    BY DEF DeviceInvAt, AgreeInv
<1>5. AloneInv(n)'
    BY DEF DeviceInvAt, AloneInv
<1> QED
    BY <1>1, <1>2, <1>3, <1>4, <1>5 DEF DeviceInvAt

LEMMA EmptyElements == ToSet(<< >>) = {}
    BY DEF ToSet

LEMMA DeviceInit == Init => DeviceInv
<1> SUFFICES ASSUME Init, NEW m \in Managers PROVE DeviceInvAt(m)
    BY DEF DeviceInv
<1>1. AtManager(m) = {} /\ InDomain(m) = {} /\ ToSet(todo[m]) = {}
    BY DEF Init, AtManager, InDomain, ToSet
<1> QED
    BY <1>1 DEF Init, DeviceInvAt, OwnInv, AloneInv, IndexInv, MountInv, AgreeInv, Up, Coming,
       Leaving, NoCall, Callers, Settled, EarlySteps, DeviceSteps

LEMMA StartManagerEffect ==
    ASSUME TypeInv, NEW m \in Managers, StartManager(m)
    PROVE  /\ ~Up(m) /\ proc'[m] = "up" /\ boots'[m] = boots[m] + 1 /\ adminState'[m] = "unset"
           /\ local'[m] = << >> /\ bootAt'[m] = "check" /\ bootNth'[m] = 1 /\ downAt'[m] = "none"
           /\ todo'[m] = << >> /\ \A c \in Callers : unreg'[m][c].at = "none"
           /\ mounts' = mounts
           /\ InDomain(m)' = InDomain(m)
           /\ \A n \in Managers : n # m => SameAt(n)
<1> USE DEF Up, Die, BootAt, DownAt, NextDevice, NextEntry, domainVars, processVars, boot, down
<1>1. Types /\ Bounds
    BY DEF TypeInv
<1>2. \A n \in Managers : InDomain(n)' = InDomain(n)
    BY DEF StartManager, InDomain
<1>3. ASSUME NEW n \in Managers, n # m PROVE SameAt(n)
    BY <1>1, <1>2, <1>3 DEF StartManager, SameAt
<1>4. /\ ~Up(m) /\ proc'[m] = "up" /\ boots'[m] = boots[m] + 1 /\ adminState'[m] = "unset"
      /\ local'[m] = << >> /\ bootAt'[m] = "check" /\ bootNth'[m] = 1 /\ downAt'[m] = "none"
      /\ todo'[m] = << >> /\ \A c \in Callers : unreg'[m][c].at = "none"
      /\ mounts' = mounts
    BY <1>1 DEF StartManager, Types, NoCall
<1> QED
    BY <1>2, <1>3, <1>4

LEMMA StartManagerDevices ==
    ASSUME TypeInv, DeviceInv, NEW m \in Managers, StartManager(m)
    PROVE  DeviceInv'
<1> USE DEF Up
<1>1. Types /\ Bounds /\ DeviceInvAt(m)
    BY DEF TypeInv, DeviceInv
<1>2. OwnInv(m)'
    BY StartManagerEffect, EmptyElements DEF OwnInv, AtManager
<1>3. IndexInv(m)'
    BY <1>1, StartManagerEffect DEF DeviceInvAt, IndexInv, Settled
<1>4. MountInv(m)'
    <2>1. boots[m] \in Nat /\ (boots[m] >= 1 => boots[m] + 1 >= 1 /\ boots[m] + 1 > 1)
        BY <1>1 DEF Types
    <2> QED BY <1>1, StartManagerEffect, <2>1 DEF DeviceInvAt, MountInv, EarlySteps, DeviceSteps
<1>5. AgreeInv(m)'
    BY <1>1, StartManagerEffect DEF DeviceInvAt, AgreeInv, MountInv, AtManager, Coming, Leaving,
       EarlySteps
<1>6. AloneInv(m)'
    BY <1>1, StartManagerEffect DEF DeviceInvAt, AloneInv
<1>7. DeviceInvAt(m)'
    BY <1>2, <1>3, <1>4, <1>5, <1>6 DEF DeviceInvAt
<1> QED
    BY StartManagerEffect, <1>7, SameKeepsDevices DEF DeviceInv

LEMMA CheckManagerEffect ==
    ASSUME TypeInv, NEW m \in Managers, CheckManager(m)
    PROVE  /\ proc[m] = "up" /\ bootAt[m] = "check"
           /\ \/ proc'[m] = "dead" /\ bootAt'[m] = "check"
              \/ proc'[m] = proc[m] /\ bootAt'[m] \in {"check", "grow", "mount"}
           /\ boots'[m] = boots[m] /\ adminState'[m] = adminState[m] /\ local'[m] = local[m]
           /\ bootNth'[m] = bootNth[m] /\ downAt'[m] = downAt[m] /\ todo'[m] = todo[m]
           /\ unreg'[m] = unreg[m]
           /\ mounts' = mounts
           /\ InDomain(m)' = InDomain(m)
           /\ \A n \in Managers : n # m => SameAt(n)
<1> USE DEF Up, Die, BootAt, DownAt, NextDevice, NextEntry, domainVars, processVars, boot, down
<1>1. Types /\ Bounds
    BY DEF TypeInv
<1>2. \A n \in Managers : InDomain(n)' = InDomain(n)
    BY DEF CheckManager, InDomain
<1>3. ASSUME NEW n \in Managers, n # m PROVE SameAt(n)
    BY <1>1, <1>2, <1>3 DEF CheckManager, SameAt, Types
<1>4. /\ proc[m] = "up" /\ bootAt[m] = "check"
      /\ \/ proc'[m] = "dead" /\ bootAt'[m] = "check"
         \/ proc'[m] = proc[m] /\ bootAt'[m] \in {"check", "grow", "mount"}
      /\ boots'[m] = boots[m] /\ adminState'[m] = adminState[m] /\ local'[m] = local[m]
      /\ bootNth'[m] = bootNth[m] /\ downAt'[m] = downAt[m] /\ todo'[m] = todo[m]
      /\ unreg'[m] = unreg[m]
      /\ mounts' = mounts
    <2>1. CASE Die(m) /\ UNCHANGED boot
        <3>1. /\ proc' = [proc EXCEPT ![m] = "dead"] /\ bootAt' = bootAt /\ bootNth' = bootNth
              /\ UNCHANGED <<domainVars, boots, adminState, local, down, unreg>>
            BY <2>1 DEF CheckManager
        <3>2. proc[m] = "up" /\ bootAt[m] = "check"
            BY DEF CheckManager
        <3>3. proc'[m] = "dead"
            BY <1>1, <3>1 DEF Types
        <3> QED BY <3>1, <3>2, <3>3
    <2>2. CASE BootAt(m, IF Meets(m, bootEntry[m]) = "end" THEN "grow" ELSE "mount") /\ UNCHANGED proc
        BY <1>1, <2>2 DEF CheckManager, Types
    <2>3. CASE NextEntry(m) /\ UNCHANGED proc
        BY <1>1, <2>3 DEF CheckManager, Types
    <2> QED BY <2>1, <2>2, <2>3 DEF CheckManager
<1> QED
    BY <1>2, <1>3, <1>4

LEMMA CheckManagerDevices ==
    ASSUME TypeInv, DeviceInv, NEW m \in Managers, CheckManager(m)
    PROVE  DeviceInv'
<1> USE DEF Up
<1>1. Types /\ Bounds /\ DeviceInvAt(m)
    BY DEF TypeInv, DeviceInv
<1>2. OwnInv(m)'
    BY <1>1, CheckManagerEffect, DeviceOfDCD, ManagerTypes DEF DeviceInvAt, OwnInv, AtManager,
       Own, DeviceSteps
<1>3. IndexInv(m)'
    BY <1>1, CheckManagerEffect DEF DeviceInvAt, IndexInv
<1>4. MountInv(m)'
    BY <1>1, CheckManagerEffect DEF DeviceInvAt, MountInv, EarlySteps, DeviceSteps, Bounds
<1>5. AgreeInv(m)'
    BY <1>1, CheckManagerEffect DEF DeviceInvAt, AgreeInv, MountInv, AtManager, Coming, Leaving,
       EarlySteps, DeviceSteps
<1>6. AloneInv(m)'
    BY <1>1, CheckManagerEffect DEF DeviceInvAt, AloneInv
<1>7. DeviceInvAt(m)'
    BY <1>2, <1>3, <1>4, <1>5, <1>6 DEF DeviceInvAt
<1> QED
    BY CheckManagerEffect, <1>7, SameKeepsDevices DEF DeviceInv

LEMMA GrowListEffect ==
    ASSUME TypeInv, NEW m \in Managers, GrowList(m)
    PROVE  /\ bootAt[m] = "grow" /\ bootAt'[m] = "store"
           /\ proc'[m] = proc[m] /\ boots'[m] = boots[m] /\ adminState'[m] = adminState[m]
           /\ local'[m] = local[m] /\ bootNth'[m] = bootNth[m] /\ downAt'[m] = downAt[m]
           /\ todo'[m] = todo[m] /\ unreg'[m] = unreg[m]
           /\ mounts' = mounts
           /\ InDomain(m)' = InDomain(m)
           /\ \A n \in Managers : n # m => SameAt(n)
<1> USE DEF Up, Die, BootAt, DownAt, NextDevice, NextEntry, domainVars, processVars, boot, down
<1>1. Types /\ Bounds
    BY DEF TypeInv
<1>2. \A n \in Managers : InDomain(n)' = InDomain(n)
    BY DEF GrowList, InDomain
<1>3. ASSUME NEW n \in Managers, n # m PROVE SameAt(n)
    BY <1>1, <1>2, <1>3 DEF GrowList, SameAt
<1>4. /\ bootAt[m] = "grow" /\ bootAt'[m] = "store"
      /\ proc'[m] = proc[m] /\ boots'[m] = boots[m] /\ adminState'[m] = adminState[m]
      /\ local'[m] = local[m] /\ bootNth'[m] = bootNth[m] /\ downAt'[m] = downAt[m]
      /\ todo'[m] = todo[m] /\ unreg'[m] = unreg[m]
      /\ mounts' = mounts
    BY <1>1 DEF GrowList, Types
<1> QED
    BY <1>2, <1>3, <1>4

LEMMA GrowListDevices ==
    ASSUME TypeInv, DeviceInv, NEW m \in Managers, GrowList(m)
    PROVE  DeviceInv'
<1> USE DEF Up
<1>1. Types /\ Bounds /\ DeviceInvAt(m)
    BY DEF TypeInv, DeviceInv
<1>2. OwnInv(m)'
    BY <1>1, GrowListEffect, DeviceOfDCD, ManagerTypes DEF DeviceInvAt, OwnInv, AtManager, Own,
       DeviceSteps
<1>3. IndexInv(m)'
    BY <1>1, GrowListEffect DEF DeviceInvAt, IndexInv
<1>4. MountInv(m)'
    BY <1>1, GrowListEffect DEF DeviceInvAt, MountInv, EarlySteps, DeviceSteps, Bounds
<1>5. AgreeInv(m)'
    BY <1>1, GrowListEffect DEF DeviceInvAt, AgreeInv, MountInv, AtManager, Coming, Leaving,
       EarlySteps, DeviceSteps
<1>6. AloneInv(m)'
    BY <1>1, GrowListEffect DEF DeviceInvAt, AloneInv
<1>7. DeviceInvAt(m)'
    BY <1>2, <1>3, <1>4, <1>5, <1>6 DEF DeviceInvAt
<1> QED
    BY GrowListEffect, <1>7, SameKeepsDevices DEF DeviceInv

LEMMA StoreManagerEffect ==
    ASSUME TypeInv, NEW m \in Managers, StoreManager(m)
    PROVE  /\ bootAt[m] = "store" /\ bootAt'[m] = "mount"
           /\ proc'[m] = proc[m] /\ boots'[m] = boots[m] /\ adminState'[m] = adminState[m]
           /\ local'[m] = local[m] /\ bootNth'[m] = bootNth[m] /\ downAt'[m] = downAt[m]
           /\ todo'[m] = todo[m] /\ unreg'[m] = unreg[m]
           /\ mounts' = mounts
           /\ InDomain(m)' = InDomain(m)
           /\ \A n \in Managers : n # m => SameAt(n)
<1> USE DEF Up, Die, BootAt, DownAt, NextDevice, NextEntry, domainVars, processVars, boot, down
<1>1. Types /\ Bounds
    BY DEF TypeInv
<1>2. \A n \in Managers : InDomain(n)' = InDomain(n)
    BY DEF StoreManager, InDomain
<1>3. ASSUME NEW n \in Managers, n # m PROVE SameAt(n)
    BY <1>1, <1>2, <1>3 DEF StoreManager, SameAt
<1>4. /\ bootAt[m] = "store" /\ bootAt'[m] = "mount"
      /\ proc'[m] = proc[m] /\ boots'[m] = boots[m] /\ adminState'[m] = adminState[m]
      /\ local'[m] = local[m] /\ bootNth'[m] = bootNth[m] /\ downAt'[m] = downAt[m]
      /\ todo'[m] = todo[m] /\ unreg'[m] = unreg[m]
      /\ mounts' = mounts
    BY <1>1 DEF StoreManager, Types
<1> QED
    BY <1>2, <1>3, <1>4

LEMMA StoreManagerDevices ==
    ASSUME TypeInv, DeviceInv, NEW m \in Managers, StoreManager(m)
    PROVE  DeviceInv'
<1> USE DEF Up
<1>1. Types /\ Bounds /\ DeviceInvAt(m)
    BY DEF TypeInv, DeviceInv
<1>2. OwnInv(m)'
    BY <1>1, StoreManagerEffect, DeviceOfDCD, ManagerTypes DEF DeviceInvAt, OwnInv, AtManager,
       Own, DeviceSteps
<1>3. IndexInv(m)'
    BY <1>1, StoreManagerEffect DEF DeviceInvAt, IndexInv
<1>4. MountInv(m)'
    BY <1>1, StoreManagerEffect DEF DeviceInvAt, MountInv, EarlySteps, DeviceSteps, Bounds
<1>5. AgreeInv(m)'
    BY <1>1, StoreManagerEffect DEF DeviceInvAt, AgreeInv, MountInv, AtManager, Coming, Leaving,
       EarlySteps, DeviceSteps
<1>6. AloneInv(m)'
    BY <1>1, StoreManagerEffect DEF DeviceInvAt, AloneInv
<1>7. DeviceInvAt(m)'
    BY <1>2, <1>3, <1>4, <1>5, <1>6 DEF DeviceInvAt
<1> QED
    BY StoreManagerEffect, <1>7, SameKeepsDevices DEF DeviceInv

LEMMA MountFileSystemEffect ==
    ASSUME TypeInv, NEW m \in Managers, MountFileSystem(m)
    PROVE  /\ bootAt[m] = "mount"
           /\ \/ proc[m] # "up" /\ bootAt'[m] = "off" /\ mounts' = mounts
              \/ bootAt'[m] = "mount" /\ mounts' = mounts
              \/ /\ proc[m] = "up" /\ m \notin mounts /\ mounts' = mounts \cup {m}
                 /\ bootAt'[m] = "registered"
           /\ proc'[m] = proc[m] /\ boots'[m] = boots[m] /\ adminState'[m] = adminState[m]
           /\ local'[m] = local[m] /\ bootNth'[m] = bootNth[m] /\ downAt'[m] = downAt[m]
           /\ todo'[m] = todo[m] /\ unreg'[m] = unreg[m]
           /\ InDomain(m)' = InDomain(m)
           /\ \A n \in Managers : n # m => SameAt(n)
<1> USE DEF Up, Die, BootAt, DownAt, NextDevice, NextEntry, domainVars, processVars, boot, down
<1>1. Types /\ Bounds
    BY DEF TypeInv
<1>2. \A n \in Managers : InDomain(n)' = InDomain(n)
    BY DEF MountFileSystem, InDomain
<1>3. ASSUME NEW n \in Managers, n # m PROVE SameAt(n)
    BY <1>1, <1>2, <1>3 DEF MountFileSystem, SameAt, Types
<1>4. /\ bootAt[m] = "mount"
      /\ \/ proc[m] # "up" /\ bootAt'[m] = "off" /\ mounts' = mounts
         \/ bootAt'[m] = "mount" /\ mounts' = mounts
         \/ /\ proc[m] = "up" /\ m \notin mounts /\ mounts' = mounts \cup {m}
            /\ bootAt'[m] = "registered"
      /\ proc'[m] = proc[m] /\ boots'[m] = boots[m] /\ adminState'[m] = adminState[m]
      /\ local'[m] = local[m] /\ bootNth'[m] = bootNth[m] /\ downAt'[m] = downAt[m]
      /\ todo'[m] = todo[m] /\ unreg'[m] = unreg[m]
    BY <1>1 DEF MountFileSystem, Types
<1> QED
    BY <1>2, <1>3, <1>4

LEMMA MountFileSystemDevices ==
    ASSUME TypeInv, DeviceInv, NEW m \in Managers, MountFileSystem(m)
    PROVE  DeviceInv'
<1> USE DEF Up
<1>1. Types /\ Bounds /\ DeviceInvAt(m)
    BY DEF TypeInv, DeviceInv
<1>2. OwnInv(m)'
    BY <1>1, MountFileSystemEffect, DeviceOfDCD, ManagerTypes DEF DeviceInvAt, OwnInv,
       AtManager, Own, DeviceSteps
<1>3. IndexInv(m)'
    BY <1>1, MountFileSystemEffect DEF DeviceInvAt, IndexInv
<1>4. MountInv(m)'
    BY <1>1, MountFileSystemEffect DEF DeviceInvAt, MountInv, EarlySteps, DeviceSteps, Bounds,
       BoundsOf
<1>5. AgreeInv(m)'
    BY <1>1, MountFileSystemEffect DEF DeviceInvAt, AgreeInv, MountInv, AtManager, Coming,
       Leaving, EarlySteps
<1>6. AloneInv(m)'
    BY <1>1, MountFileSystemEffect DEF DeviceInvAt, AloneInv
<1>7. DeviceInvAt(m)'
    BY <1>2, <1>3, <1>4, <1>5, <1>6 DEF DeviceInvAt
<1> QED
    BY MountFileSystemEffect, <1>7, SameKeepsDevices DEF DeviceInv

LEMMA SetRegisteredEffect ==
    ASSUME TypeInv, NEW m \in Managers, SetRegistered(m)
    PROVE  /\ proc[m] = "up" /\ bootAt[m] = "registered"
           /\ adminState'[m] = "REGISTERED" /\ bootAt'[m] = "launch"
           /\ proc'[m] = proc[m] /\ boots'[m] = boots[m] /\ local'[m] = local[m]
           /\ bootNth'[m] = bootNth[m] /\ downAt'[m] = downAt[m] /\ todo'[m] = todo[m]
           /\ unreg'[m] = unreg[m]
           /\ mounts' = mounts
           /\ InDomain(m)' = InDomain(m)
           /\ \A n \in Managers : n # m => SameAt(n)
<1> USE DEF Up, Die, BootAt, DownAt, NextDevice, NextEntry, domainVars, processVars, boot, down
<1>1. Types /\ Bounds
    BY DEF TypeInv
<1>2. \A n \in Managers : InDomain(n)' = InDomain(n)
    BY DEF SetRegistered, InDomain
<1>3. ASSUME NEW n \in Managers, n # m PROVE SameAt(n)
    BY <1>1, <1>2, <1>3 DEF SetRegistered, SameAt
<1>4. /\ proc[m] = "up" /\ bootAt[m] = "registered"
      /\ adminState'[m] = "REGISTERED" /\ bootAt'[m] = "launch"
      /\ proc'[m] = proc[m] /\ boots'[m] = boots[m] /\ local'[m] = local[m]
      /\ bootNth'[m] = bootNth[m] /\ downAt'[m] = downAt[m] /\ todo'[m] = todo[m]
      /\ unreg'[m] = unreg[m]
      /\ mounts' = mounts
    BY <1>1 DEF SetRegistered, Types
<1> QED
    BY <1>2, <1>3, <1>4

LEMMA SetRegisteredDevices ==
    ASSUME TypeInv, DeviceInv, NEW m \in Managers, SetRegistered(m)
    PROVE  DeviceInv'
<1> USE DEF Up
<1>1. Types /\ Bounds /\ DeviceInvAt(m)
    BY DEF TypeInv, DeviceInv
<1>2. OwnInv(m)'
    BY <1>1, SetRegisteredEffect, DeviceOfDCD, ManagerTypes DEF DeviceInvAt, OwnInv, AtManager,
       Own, DeviceSteps
<1>3. IndexInv(m)'
    BY <1>1, SetRegisteredEffect DEF DeviceInvAt, IndexInv
<1>4. MountInv(m)'
    BY <1>1, SetRegisteredEffect DEF DeviceInvAt, MountInv, EarlySteps, DeviceSteps, Bounds
<1>5. AgreeInv(m)'
    BY <1>1, SetRegisteredEffect, EmptyElements DEF DeviceInvAt, AgreeInv, MountInv, AtManager,
       Coming, Leaving, EarlySteps, DeviceSteps
<1>6. AloneInv(m)'
    BY <1>1, SetRegisteredEffect DEF DeviceInvAt, AloneInv
<1>7. DeviceInvAt(m)'
    BY <1>2, <1>3, <1>4, <1>5, <1>6 DEF DeviceInvAt
<1> QED
    BY SetRegisteredEffect, <1>7, SameKeepsDevices DEF DeviceInv

LEMMA ReadAdminStateEffect ==
    ASSUME TypeInv, NEW m \in Managers, ReadAdminState(m)
    PROVE  /\ proc[m] = "up" /\ bootAt[m] = "adminState"
           /\ \/ /\ adminState[m] = "REGISTERED" /\ bootAt'[m] = "checkManager"
                 /\ bootNth'[m] = bootNth[m]
              \/ /\ adminState[m] # "REGISTERED" /\ bootAt'[m] = "launch"
                 /\ bootNth'[m] = bootNth[m] + 1
           /\ proc'[m] = proc[m] /\ boots'[m] = boots[m] /\ adminState'[m] = adminState[m]
           /\ local'[m] = local[m] /\ downAt'[m] = downAt[m] /\ todo'[m] = todo[m]
           /\ unreg'[m] = unreg[m]
           /\ mounts' = mounts
           /\ InDomain(m)' = InDomain(m)
           /\ \A n \in Managers : n # m => SameAt(n)
<1> USE DEF Up, Die, BootAt, DownAt, NextDevice, NextEntry, domainVars, processVars, boot, down
<1>1. Types /\ Bounds
    BY DEF TypeInv
<1>2. \A n \in Managers : InDomain(n)' = InDomain(n)
    BY DEF ReadAdminState, InDomain
<1>3. ASSUME NEW n \in Managers, n # m PROVE SameAt(n)
    BY <1>1, <1>2, <1>3 DEF ReadAdminState, SameAt, Types
<1>4. /\ proc[m] = "up" /\ bootAt[m] = "adminState"
      /\ \/ /\ adminState[m] = "REGISTERED" /\ bootAt'[m] = "checkManager"
            /\ bootNth'[m] = bootNth[m]
         \/ /\ adminState[m] # "REGISTERED" /\ bootAt'[m] = "launch"
            /\ bootNth'[m] = bootNth[m] + 1
      /\ proc'[m] = proc[m] /\ boots'[m] = boots[m] /\ adminState'[m] = adminState[m]
      /\ local'[m] = local[m] /\ downAt'[m] = downAt[m] /\ todo'[m] = todo[m]
      /\ unreg'[m] = unreg[m]
      /\ mounts' = mounts
    BY <1>1 DEF ReadAdminState, Types
<1> QED
    BY <1>2, <1>3, <1>4

LEMMA ReadAdminStateDevices ==
    ASSUME TypeInv, DeviceInv, NEW m \in Managers, ReadAdminState(m)
    PROVE  DeviceInv'
<1> USE DEF Up
<1>1. Types /\ Bounds /\ DeviceInvAt(m)
    BY DEF TypeInv, DeviceInv
<1>2. OwnInv(m)'
    <2>1. /\ Own(m)' = Own(m) /\ AtManager(m)' = AtManager(m)
          /\ ToSet(todo[m])' = ToSet(todo[m])
        BY ReadAdminStateEffect DEF Own, AtManager
    <2>2. ASSUME NEW k \in DOMAIN Devs[m], Devs[m][k] \in AtManager(m)
          PROVE  k < bootNth'[m] \/ (k = bootNth'[m] /\ bootAt'[m] \in DeviceSteps)
        <3>1. k \in Nat /\ bootNth[m] \in Nat
            BY <1>1, DeviceOfDCD, ManagerTypes
        <3>2. k < bootNth[m] \/ k = bootNth[m]
            BY <1>1, <2>2 DEF DeviceInvAt, OwnInv
        <3> QED BY ReadAdminStateEffect, <3>1, <3>2 DEF DeviceSteps
    <2> QED BY <1>1, ReadAdminStateEffect, <2>1, <2>2 DEF DeviceInvAt, OwnInv
<1>3. IndexInv(m)'
    BY <1>1, ReadAdminStateEffect DEF DeviceInvAt, IndexInv
<1>4. MountInv(m)'
    BY <1>1, ReadAdminStateEffect DEF DeviceInvAt, MountInv, EarlySteps, DeviceSteps, Bounds
<1>5. AgreeInv(m)'
    BY <1>1, ReadAdminStateEffect DEF DeviceInvAt, AgreeInv, MountInv, AtManager, Coming,
       Leaving, EarlySteps, DeviceSteps
<1>6. AloneInv(m)'
    BY <1>1, ReadAdminStateEffect DEF DeviceInvAt, AloneInv
<1>7. DeviceInvAt(m)'
    BY <1>2, <1>3, <1>4, <1>5, <1>6 DEF DeviceInvAt
<1> QED
    BY ReadAdminStateEffect, <1>7, SameKeepsDevices DEF DeviceInv

LEMMA CheckItsManagerEffect ==
    ASSUME TypeInv, NEW m \in Managers, CheckItsManager(m)
    PROVE  /\ proc[m] = "up" /\ bootAt[m] = "checkManager"
           /\ \/ proc'[m] = "dead" /\ bootAt'[m] = "checkManager"
              \/ proc'[m] = proc[m] /\ bootAt'[m] \in {"checkManager", "storeDevice"}
           /\ boots'[m] = boots[m] /\ adminState'[m] = adminState[m] /\ local'[m] = local[m]
           /\ bootNth'[m] = bootNth[m] /\ downAt'[m] = downAt[m] /\ todo'[m] = todo[m]
           /\ unreg'[m] = unreg[m]
           /\ mounts' = mounts
           /\ InDomain(m)' = InDomain(m)
           /\ \A n \in Managers : n # m => SameAt(n)
<1> USE DEF Up, Die, BootAt, DownAt, NextDevice, NextEntry, domainVars, processVars, boot, down
<1>1. Types /\ Bounds
    BY DEF TypeInv
<1>2. \A n \in Managers : InDomain(n)' = InDomain(n)
    BY DEF CheckItsManager, InDomain
<1>3. ASSUME NEW n \in Managers, n # m PROVE SameAt(n)
    BY <1>1, <1>2, <1>3 DEF CheckItsManager, SameAt, Types
<1>4. /\ proc[m] = "up" /\ bootAt[m] = "checkManager"
      /\ \/ proc'[m] = "dead" /\ bootAt'[m] = "checkManager"
         \/ proc'[m] = proc[m] /\ bootAt'[m] \in {"checkManager", "storeDevice"}
      /\ boots'[m] = boots[m] /\ adminState'[m] = adminState[m] /\ local'[m] = local[m]
      /\ bootNth'[m] = bootNth[m] /\ downAt'[m] = downAt[m] /\ todo'[m] = todo[m]
      /\ unreg'[m] = unreg[m]
      /\ mounts' = mounts
    <2>1. CASE Die(m) /\ UNCHANGED boot
        <3>1. /\ proc' = [proc EXCEPT ![m] = "dead"] /\ bootAt' = bootAt /\ bootNth' = bootNth
              /\ UNCHANGED <<domainVars, boots, adminState, local, down, unreg>>
            BY <2>1 DEF CheckItsManager
        <3>2. proc[m] = "up" /\ bootAt[m] = "checkManager"
            BY DEF CheckItsManager
        <3>3. proc'[m] = "dead"
            BY <1>1, <3>1 DEF Types
        <3> QED BY <3>1, <3>2, <3>3
    <2>2. CASE BootAt(m, "storeDevice") /\ UNCHANGED proc
        BY <1>1, <2>2 DEF CheckItsManager, Types
    <2>3. CASE NextEntry(m) /\ UNCHANGED proc
        BY <1>1, <2>3 DEF CheckItsManager, Types
    <2> QED BY <2>1, <2>2, <2>3 DEF CheckItsManager
<1> QED
    BY <1>2, <1>3, <1>4

LEMMA CheckItsManagerDevices ==
    ASSUME TypeInv, DeviceInv, NEW m \in Managers, CheckItsManager(m)
    PROVE  DeviceInv'
<1> USE DEF Up
<1>1. Types /\ Bounds /\ DeviceInvAt(m)
    BY DEF TypeInv, DeviceInv
<1>2. OwnInv(m)'
    BY <1>1, CheckItsManagerEffect, DeviceOfDCD, ManagerTypes DEF DeviceInvAt, OwnInv,
       AtManager, Own, DeviceSteps
<1>3. IndexInv(m)'
    BY <1>1, CheckItsManagerEffect DEF DeviceInvAt, IndexInv
<1>4. MountInv(m)'
    BY <1>1, CheckItsManagerEffect DEF DeviceInvAt, MountInv, EarlySteps, DeviceSteps, Bounds
<1>5. AgreeInv(m)'
    BY <1>1, CheckItsManagerEffect DEF DeviceInvAt, AgreeInv, MountInv, AtManager, Coming,
       Leaving, EarlySteps, DeviceSteps
<1>6. AloneInv(m)'
    BY <1>1, CheckItsManagerEffect DEF DeviceInvAt, AloneInv
<1>7. DeviceInvAt(m)'
    BY <1>2, <1>3, <1>4, <1>5, <1>6 DEF DeviceInvAt
<1> QED
    BY CheckItsManagerEffect, <1>7, SameKeepsDevices DEF DeviceInv

LEMMA CallShutdownEffect ==
    ASSUME TypeInv, NEW m \in Managers, CallShutdown(m)
    PROVE  /\ proc[m] = "up" /\ downAt[m] = "none"
           /\ m \in Careful => adminState[m] = "REGISTERED"
           /\ m \in Alone => \A c \in Callers : unreg[m][c].at = "none"
           /\ downAt'[m] = "snapshot" /\ adminState'[m] = "SHUTTING_DOWN"
           /\ proc'[m] = proc[m] /\ boots'[m] = boots[m] /\ local'[m] = local[m]
           /\ bootAt'[m] = bootAt[m] /\ bootNth'[m] = bootNth[m] /\ todo'[m] = todo[m]
           /\ unreg'[m] = unreg[m]
           /\ mounts' = mounts
           /\ InDomain(m)' = InDomain(m)
           /\ \A n \in Managers : n # m => SameAt(n)
<1> USE DEF Up, Die, BootAt, DownAt, NextDevice, NextEntry, domainVars, processVars, boot, down
<1>1. Types /\ Bounds
    BY DEF TypeInv
<1>2. \A n \in Managers : InDomain(n)' = InDomain(n)
    BY DEF CallShutdown, InDomain
<1>3. ASSUME NEW n \in Managers, n # m PROVE SameAt(n)
    BY <1>1, <1>2, <1>3 DEF CallShutdown, SameAt
<1>4. /\ proc[m] = "up" /\ downAt[m] = "none"
      /\ m \in Careful => adminState[m] = "REGISTERED"
      /\ m \in Alone => \A c \in Callers : unreg[m][c].at = "none"
      /\ downAt'[m] = "snapshot" /\ adminState'[m] = "SHUTTING_DOWN"
      /\ proc'[m] = proc[m] /\ boots'[m] = boots[m] /\ local'[m] = local[m]
      /\ bootAt'[m] = bootAt[m] /\ bootNth'[m] = bootNth[m] /\ todo'[m] = todo[m]
      /\ unreg'[m] = unreg[m]
      /\ mounts' = mounts
    BY <1>1 DEF CallShutdown, Invites, Serving, Types
<1> QED
    BY <1>2, <1>3, <1>4

LEMMA CallShutdownDevices ==
    ASSUME TypeInv, DeviceInv, NEW m \in Managers, CallShutdown(m)
    PROVE  DeviceInv'
<1> USE DEF Up
<1>1. Types /\ Bounds /\ DeviceInvAt(m)
    BY DEF TypeInv, DeviceInv
<1>2. OwnInv(m)'
    BY <1>1, CallShutdownEffect, DeviceOfDCD, ManagerTypes DEF DeviceInvAt, OwnInv, AtManager,
       Own
<1>3. IndexInv(m)'
    BY <1>1, CallShutdownEffect DEF DeviceInvAt, IndexInv
<1>4. MountInv(m)'
    BY <1>1, CallShutdownEffect DEF DeviceInvAt, MountInv, EarlySteps, DeviceSteps, Bounds
<1>5. AgreeInv(m)'
    BY <1>1, CallShutdownEffect DEF DeviceInvAt, AgreeInv, MountInv, AtManager, Coming, Leaving,
       EarlySteps
<1>6. AloneInv(m)'
    BY <1>1, CallShutdownEffect DEF DeviceInvAt, AloneInv, Callers
<1>7. DeviceInvAt(m)'
    BY <1>2, <1>3, <1>4, <1>5, <1>6 DEF DeviceInvAt
<1> QED
    BY CallShutdownEffect, <1>7, SameKeepsDevices DEF DeviceInv

LEMMA SnapshotDevicesEffect ==
    ASSUME TypeInv, NEW m \in Managers, SnapshotDevices(m)
    PROVE  /\ downAt[m] = "snapshot" /\ downAt'[m] = "remove" /\ todo'[m] = local[m]
           /\ proc'[m] = proc[m] /\ boots'[m] = boots[m] /\ adminState'[m] = adminState[m]
           /\ local'[m] = local[m] /\ bootAt'[m] = bootAt[m] /\ bootNth'[m] = bootNth[m]
           /\ unreg'[m] = unreg[m]
           /\ mounts' = mounts
           /\ InDomain(m)' = InDomain(m)
           /\ \A n \in Managers : n # m => SameAt(n)
<1> USE DEF Up, Die, BootAt, DownAt, NextDevice, NextEntry, domainVars, processVars, boot, down
<1>1. Types /\ Bounds
    BY DEF TypeInv
<1>2. \A n \in Managers : InDomain(n)' = InDomain(n)
    BY DEF SnapshotDevices, InDomain
<1>3. ASSUME NEW n \in Managers, n # m PROVE SameAt(n)
    BY <1>1, <1>2, <1>3 DEF SnapshotDevices, SameAt
<1>4. /\ downAt[m] = "snapshot" /\ downAt'[m] = "remove" /\ todo'[m] = local[m]
      /\ proc'[m] = proc[m] /\ boots'[m] = boots[m] /\ adminState'[m] = adminState[m]
      /\ local'[m] = local[m] /\ bootAt'[m] = bootAt[m] /\ bootNth'[m] = bootNth[m]
      /\ unreg'[m] = unreg[m]
      /\ mounts' = mounts
    BY <1>1 DEF SnapshotDevices, Types
<1> QED
    BY <1>2, <1>3, <1>4

LEMMA SnapshotDevicesDevices ==
    ASSUME TypeInv, DeviceInv, NEW m \in Managers, SnapshotDevices(m)
    PROVE  DeviceInv'
<1> USE DEF Up
<1>1. Types /\ Bounds /\ DeviceInvAt(m)
    BY DEF TypeInv, DeviceInv
<1>2. OwnInv(m)'
    BY <1>1, SnapshotDevicesEffect, DeviceOfDCD, ManagerTypes DEF DeviceInvAt, OwnInv,
       AtManager, Own
<1>3. IndexInv(m)'
    BY <1>1, SnapshotDevicesEffect DEF DeviceInvAt, IndexInv
<1>4. MountInv(m)'
    BY <1>1, SnapshotDevicesEffect DEF DeviceInvAt, MountInv, EarlySteps, DeviceSteps, Bounds
<1>5. AgreeInv(m)'
    BY <1>1, SnapshotDevicesEffect DEF DeviceInvAt, AgreeInv, MountInv, AtManager, Coming,
       Leaving, EarlySteps
<1>6. AloneInv(m)'
    BY <1>1, SnapshotDevicesEffect DEF DeviceInvAt, AloneInv
<1>7. DeviceInvAt(m)'
    BY <1>2, <1>3, <1>4, <1>5, <1>6 DEF DeviceInvAt
<1> QED
    BY SnapshotDevicesEffect, <1>7, SameKeepsDevices DEF DeviceInv

LEMMA SearchListEffect ==
    ASSUME TypeInv, NEW m \in Managers, SearchList(m)
    PROVE  /\ downAt[m] = "remove" /\ downAt'[m] \in {"remove", "raised", "unlisted", "shift"}
           /\ proc'[m] = proc[m] /\ boots'[m] = boots[m] /\ adminState'[m] = adminState[m]
           /\ local'[m] = local[m] /\ bootAt'[m] = bootAt[m] /\ bootNth'[m] = bootNth[m]
           /\ todo'[m] = todo[m] /\ unreg'[m] = unreg[m]
           /\ mounts' = mounts
           /\ InDomain(m)' = InDomain(m)
           /\ \A n \in Managers : n # m => SameAt(n)
<1> USE DEF Up, Die, BootAt, DownAt, NextDevice, NextEntry, domainVars, processVars, boot, down
<1>1. Types /\ Bounds
    BY DEF TypeInv
<1>2. \A n \in Managers : InDomain(n)' = InDomain(n)
    BY DEF SearchList, InDomain
<1>3. ASSUME NEW n \in Managers, n # m PROVE SameAt(n)
    BY <1>1, <1>2, <1>3 DEF SearchList, SameAt, Types
<1>4. /\ downAt[m] = "remove" /\ downAt'[m] \in {"remove", "raised", "unlisted", "shift"}
      /\ proc'[m] = proc[m] /\ boots'[m] = boots[m] /\ adminState'[m] = adminState[m]
      /\ local'[m] = local[m] /\ bootAt'[m] = bootAt[m] /\ bootNth'[m] = bootNth[m]
      /\ todo'[m] = todo[m] /\ unreg'[m] = unreg[m]
      /\ mounts' = mounts
    BY <1>1 DEF SearchList, Types
<1> QED
    BY <1>2, <1>3, <1>4

LEMMA SearchListDevices ==
    ASSUME TypeInv, DeviceInv, NEW m \in Managers, SearchList(m)
    PROVE  DeviceInv'
<1> USE DEF Up
<1>1. Types /\ Bounds /\ DeviceInvAt(m)
    BY DEF TypeInv, DeviceInv
<1>2. OwnInv(m)'
    BY <1>1, SearchListEffect, DeviceOfDCD, ManagerTypes DEF DeviceInvAt, OwnInv, AtManager, Own
<1>3. IndexInv(m)'
    BY <1>1, SearchListEffect DEF DeviceInvAt, IndexInv
<1>4. MountInv(m)'
    BY <1>1, SearchListEffect DEF DeviceInvAt, MountInv, EarlySteps, DeviceSteps, Bounds
<1>5. AgreeInv(m)'
    BY <1>1, SearchListEffect DEF DeviceInvAt, AgreeInv, MountInv, AtManager, Coming, Leaving,
       EarlySteps
<1>6. AloneInv(m)'
    BY <1>1, SearchListEffect DEF DeviceInvAt, AloneInv
<1>7. DeviceInvAt(m)'
    BY <1>2, <1>3, <1>4, <1>5, <1>6 DEF DeviceInvAt
<1> QED
    BY SearchListEffect, <1>7, SameKeepsDevices DEF DeviceInv

LEMMA UnlistEffect ==
    ASSUME TypeInv, NEW m \in Managers, Unlist(m)
    PROVE  /\ downAt[m] = "shift" /\ downAt'[m] = "unlisted"
           /\ proc'[m] = proc[m] /\ boots'[m] = boots[m] /\ adminState'[m] = adminState[m]
           /\ local'[m] = local[m] /\ bootAt'[m] = bootAt[m] /\ bootNth'[m] = bootNth[m]
           /\ todo'[m] = todo[m] /\ unreg'[m] = unreg[m]
           /\ mounts' = mounts
           /\ InDomain(m)' = InDomain(m)
           /\ \A n \in Managers : n # m => SameAt(n)
<1> USE DEF Up, Die, BootAt, DownAt, NextDevice, NextEntry, domainVars, processVars, boot, down
<1>1. Types /\ Bounds
    BY DEF TypeInv
<1>2. \A n \in Managers : InDomain(n)' = InDomain(n)
    BY DEF Unlist, InDomain
<1>3. ASSUME NEW n \in Managers, n # m PROVE SameAt(n)
    BY <1>1, <1>2, <1>3 DEF Unlist, SameAt, Types
<1>4. /\ downAt[m] = "shift" /\ downAt'[m] = "unlisted"
      /\ proc'[m] = proc[m] /\ boots'[m] = boots[m] /\ adminState'[m] = adminState[m]
      /\ local'[m] = local[m] /\ bootAt'[m] = bootAt[m] /\ bootNth'[m] = bootNth[m]
      /\ todo'[m] = todo[m] /\ unreg'[m] = unreg[m]
      /\ mounts' = mounts
    BY <1>1 DEF Unlist, Types
<1> QED
    BY <1>2, <1>3, <1>4

LEMMA UnlistDevices ==
    ASSUME TypeInv, DeviceInv, NEW m \in Managers, Unlist(m)
    PROVE  DeviceInv'
<1> USE DEF Up
<1>1. Types /\ Bounds /\ DeviceInvAt(m)
    BY DEF TypeInv, DeviceInv
<1>2. OwnInv(m)'
    BY <1>1, UnlistEffect, DeviceOfDCD, ManagerTypes DEF DeviceInvAt, OwnInv, AtManager, Own
<1>3. IndexInv(m)'
    BY <1>1, UnlistEffect DEF DeviceInvAt, IndexInv
<1>4. MountInv(m)'
    BY <1>1, UnlistEffect DEF DeviceInvAt, MountInv, EarlySteps, DeviceSteps, Bounds
<1>5. AgreeInv(m)'
    BY <1>1, UnlistEffect DEF DeviceInvAt, AgreeInv, MountInv, AtManager, Coming, Leaving,
       EarlySteps
<1>6. AloneInv(m)'
    BY <1>1, UnlistEffect DEF DeviceInvAt, AloneInv
<1>7. DeviceInvAt(m)'
    BY <1>2, <1>3, <1>4, <1>5, <1>6 DEF DeviceInvAt
<1> QED
    BY UnlistEffect, <1>7, SameKeepsDevices DEF DeviceInv

LEMMA StartReleaseEffect ==
    ASSUME TypeInv, NEW m \in Managers, StartRelease(m)
    PROVE  /\ downAt[m] = "unlisted" /\ downAt'[m] = "release"
           /\ proc'[m] = proc[m] /\ boots'[m] = boots[m] /\ adminState'[m] = adminState[m]
           /\ local'[m] = local[m] /\ bootAt'[m] = bootAt[m] /\ bootNth'[m] = bootNth[m]
           /\ todo'[m] = todo[m] /\ unreg'[m] = unreg[m]
           /\ mounts' = mounts
           /\ InDomain(m)' = InDomain(m)
           /\ \A n \in Managers : n # m => SameAt(n)
<1> USE DEF Up, Die, BootAt, DownAt, NextDevice, NextEntry, domainVars, processVars, boot, down
<1>1. Types /\ Bounds
    BY DEF TypeInv
<1>2. \A n \in Managers : InDomain(n)' = InDomain(n)
    BY DEF StartRelease, InDomain
<1>3. ASSUME NEW n \in Managers, n # m PROVE SameAt(n)
    BY <1>1, <1>2, <1>3 DEF StartRelease, SameAt
<1>4. /\ downAt[m] = "unlisted" /\ downAt'[m] = "release"
      /\ proc'[m] = proc[m] /\ boots'[m] = boots[m] /\ adminState'[m] = adminState[m]
      /\ local'[m] = local[m] /\ bootAt'[m] = bootAt[m] /\ bootNth'[m] = bootNth[m]
      /\ todo'[m] = todo[m] /\ unreg'[m] = unreg[m]
      /\ mounts' = mounts
    BY <1>1 DEF StartRelease, Types
<1> QED
    BY <1>2, <1>3, <1>4

LEMMA StartReleaseDevices ==
    ASSUME TypeInv, DeviceInv, NEW m \in Managers, StartRelease(m)
    PROVE  DeviceInv'
<1> USE DEF Up
<1>1. Types /\ Bounds /\ DeviceInvAt(m)
    BY DEF TypeInv, DeviceInv
<1>2. OwnInv(m)'
    BY <1>1, StartReleaseEffect, DeviceOfDCD, ManagerTypes DEF DeviceInvAt, OwnInv, AtManager,
       Own
<1>3. IndexInv(m)'
    BY <1>1, StartReleaseEffect DEF DeviceInvAt, IndexInv
<1>4. MountInv(m)'
    BY <1>1, StartReleaseEffect DEF DeviceInvAt, MountInv, EarlySteps, DeviceSteps, Bounds
<1>5. AgreeInv(m)'
    BY <1>1, StartReleaseEffect DEF DeviceInvAt, AgreeInv, MountInv, AtManager, Coming, Leaving,
       EarlySteps
<1>6. AloneInv(m)'
    BY <1>1, StartReleaseEffect DEF DeviceInvAt, AloneInv
<1>7. DeviceInvAt(m)'
    BY <1>2, <1>3, <1>4, <1>5, <1>6 DEF DeviceInvAt
<1> QED
    BY StartReleaseEffect, <1>7, SameKeepsDevices DEF DeviceInv

LEMMA CrashEffect ==
    ASSUME TypeInv, NEW m \in Managers, Crash(m)
    PROVE  /\ proc'[m] = "dead"
           /\ boots'[m] = boots[m] /\ adminState'[m] = adminState[m] /\ local'[m] = local[m]
           /\ bootAt'[m] = bootAt[m] /\ bootNth'[m] = bootNth[m] /\ downAt'[m] = downAt[m]
           /\ todo'[m] = todo[m] /\ unreg'[m] = unreg[m]
           /\ mounts' = mounts
           /\ InDomain(m)' = InDomain(m)
           /\ \A n \in Managers : n # m => SameAt(n)
<1> USE DEF Up, Die, BootAt, DownAt, NextDevice, NextEntry, domainVars, processVars, boot, down
<1>1. Types /\ Bounds
    BY DEF TypeInv
<1>2. \A n \in Managers : InDomain(n)' = InDomain(n)
    BY DEF Crash, InDomain
<1>3. ASSUME NEW n \in Managers, n # m PROVE SameAt(n)
    BY <1>1, <1>2, <1>3 DEF Crash, SameAt
<1>4. /\ proc'[m] = "dead"
      /\ boots'[m] = boots[m] /\ adminState'[m] = adminState[m] /\ local'[m] = local[m]
      /\ bootAt'[m] = bootAt[m] /\ bootNth'[m] = bootNth[m] /\ downAt'[m] = downAt[m]
      /\ todo'[m] = todo[m] /\ unreg'[m] = unreg[m]
      /\ mounts' = mounts
    BY <1>1 DEF Crash, Types
<1> QED
    BY <1>2, <1>3, <1>4

LEMMA CrashDevices ==
    ASSUME TypeInv, DeviceInv, NEW m \in Managers, Crash(m)
    PROVE  DeviceInv'
<1> USE DEF Up
<1>1. Types /\ Bounds /\ DeviceInvAt(m)
    BY DEF TypeInv, DeviceInv
<1>2. OwnInv(m)'
    BY <1>1, CrashEffect, DeviceOfDCD, ManagerTypes DEF DeviceInvAt, OwnInv, AtManager, Own
<1>3. IndexInv(m)'
    BY <1>1, CrashEffect DEF DeviceInvAt, IndexInv
<1>4. MountInv(m)'
    BY <1>1, CrashEffect DEF DeviceInvAt, MountInv, EarlySteps, DeviceSteps, Bounds
<1>5. AgreeInv(m)'
    BY <1>1, CrashEffect DEF DeviceInvAt, AgreeInv, MountInv, AtManager, Coming, Leaving,
       EarlySteps
<1>6. AloneInv(m)'
    BY <1>1, CrashEffect DEF DeviceInvAt, AloneInv
<1>7. DeviceInvAt(m)'
    BY <1>2, <1>3, <1>4, <1>5, <1>6 DEF DeviceInvAt
<1> QED
    BY CrashEffect, <1>7, SameKeepsDevices DEF DeviceInv

\* A device of m that joins or leaves the domain's list is of no other manager.
LEMMA DomainChange ==
    ASSUME NEW m \in Managers, NEW d \in Own(m),
           \/ ToSet(registeredDevices') = ToSet(registeredDevices) \cup {d}
           \/ ToSet(registeredDevices') = ToSet(registeredDevices) \ {d}
    PROVE  /\ \A n \in Managers : n # m => InDomain(n)' = InDomain(n)
           /\ ToSet(registeredDevices') = ToSet(registeredDevices) \cup {d} =>
                  InDomain(m)' = InDomain(m) \cup {d}
           /\ ToSet(registeredDevices') = ToSet(registeredDevices) \ {d} =>
                  InDomain(m)' = InDomain(m) \ {d}
<1>1. \A n \in Managers : InDomain(n)' = ToSet(registeredDevices') \cap Own(n)
    BY DEF InDomain
<1>2. \A n \in Managers : n # m => d \notin Own(n)
    BY OwnDisjoint
<1>3. ASSUME NEW n \in Managers, n # m PROVE InDomain(n)' = InDomain(n)
    BY <1>1, <1>2, <1>3 DEF InDomain
<1> QED
    BY <1>1, <1>3 DEF InDomain

LEMMA RegisterLocallyEffect ==
    ASSUME TypeInv, DeviceInv, NEW m \in Managers, RegisterLocally(m)
    PROVE  /\ proc[m] = "up" /\ bootAt[m] = "launch" /\ bootAt'[m] = "adminState"
           /\ bootNth[m] \in 1 .. Len(Devs[m]) /\ bootNth[m] \in Nat
           /\ Devs[m][bootNth[m]] \in Own(m) \ AtManager(m)
           /\ AtManager(m)' = AtManager(m) \cup {Devs[m][bootNth[m]]}
           /\ \A i \in DOMAIN local[m] : i \in DOMAIN local'[m] /\ local'[m][i] = local[m][i]
<1> DEFINE d == Devs[m][bootNth[m]]
<1> USE DEF Up, Die, BootAt, DownAt, NextDevice, NextEntry, domainVars, processVars, boot, down
<1>1. Types /\ Bounds /\ NoDuplicates /\ DeviceInvAt(m)
    BY DEF TypeInv, DeviceInv
<1>2. /\ proc[m] = "up" /\ bootAt[m] = "launch" /\ bootAt'[m] = "adminState"
      /\ bootNth[m] \in 1 .. Len(Devs[m]) /\ bootNth[m] \in Nat /\ local[m] \in Seq(Devices)
    BY <1>1, ManagerTypes DEF RegisterLocally, Types
<1>3. d \in Own(m) /\ d \in Devices /\ bootNth[m] \in DOMAIN Devs[m]
    BY <1>2, DeviceOfDCD
<1>4. d \notin AtManager(m)
    BY <1>1, <1>2, <1>3 DEF DeviceInvAt, OwnInv, DeviceSteps
<1>5. ~Contains(local[m], d)
    BY <1>2, <1>4, ContainsIsMember DEF AtManager
<1>6. local' = [local EXCEPT ![m] = IF Contains(@, d) THEN @ ELSE Append(@, d)]
    BY DEF RegisterLocally
<1>7. local'[m] = Append(local[m], d)
    BY <1>1, <1>5, <1>6 DEF Types
<1>8. /\ ToSet(Append(local[m], d)) = ToSet(local[m]) \cup {d}
      /\ \A i \in DOMAIN local[m] : i \in DOMAIN Append(local[m], d) /\ Append(local[m], d)[i] = local[m][i]
    BY <1>2, <1>3, AppendElement
<1>9. AtManager(m)' = AtManager(m) \cup {d}
    BY <1>7, <1>8 DEF AtManager
<1> QED
    BY <1>2, <1>3, <1>4, <1>7, <1>8, <1>9

LEMMA StoreDeviceEffect ==
    ASSUME TypeInv, DeviceInv, NEW m \in Managers, StoreDevice(m)
    PROVE  /\ bootAt[m] = "storeDevice" /\ bootAt'[m] = "launch" /\ bootNth'[m] = bootNth[m] + 1
           /\ bootNth[m] \in 1 .. Len(Devs[m]) /\ bootNth[m] \in Nat
           /\ \A n \in Managers : n # m => InDomain(n)' = InDomain(n)
           /\ InDomain(m)' = InDomain(m) \cup {Devs[m][bootNth[m]]}
<1> DEFINE d == Devs[m][bootNth[m]]
<1> USE DEF Up, Die, BootAt, DownAt, NextDevice, NextEntry, domainVars, processVars, boot, down
<1>1. Types /\ Bounds /\ NoDuplicates /\ DeviceInvAt(m)
    BY DEF TypeInv, DeviceInv
<1>2. /\ bootAt[m] = "storeDevice" /\ bootAt'[m] = "launch" /\ bootNth'[m] = bootNth[m] + 1
      /\ bootNth[m] \in 1 .. Len(Devs[m]) /\ bootNth[m] \in Nat
    BY <1>1, ManagerTypes DEF StoreDevice, Types, DeviceSteps
<1>3. d \in Own(m) /\ d \in Devices
    BY <1>2, DeviceOfDCD
<1>4. registeredDevices' = IF Contains(registeredDevices, d) THEN registeredDevices
                           ELSE Append(registeredDevices, d)
    BY DEF StoreDevice
<1>5. registeredDevices \in Seq(Devices)
    BY <1>1 DEF Types
<1>6. ToSet(registeredDevices') = ToSet(registeredDevices) \cup {d}
    <2> HIDE DEF d
    <2>1. CASE Contains(registeredDevices, d)
        BY <1>4, <1>5, <2>1, ContainsIsMember
    <2>2. CASE ~Contains(registeredDevices, d)
        BY <1>3, <1>4, <1>5, <2>2, AppendElement
    <2> QED BY <2>1, <2>2
<1> QED
    BY <1>2, <1>3, <1>6, DomainChange

LEMMA RemoveDeviceEffect ==
    ASSUME TypeInv, DeviceInv, NEW m \in Managers, RemoveDevice(m)
    PROVE  /\ downAt[m] = "remove" /\ \A n \in Managers : n # m => InDomain(n)' = InDomain(n)
           /\ ToSet(todo'[m]) \subseteq ToSet(todo[m])
           /\ \/ /\ downAt'[m] = "remove" /\ proc'[m] = proc[m]
                 /\ InDomain(m)' = InDomain(m) \ {Head(todo[m])}
                 /\ Head(todo[m]) \in InDomain(m)
                 /\ ToSet(todo[m]) \ {Head(todo[m])} \subseteq ToSet(todo'[m])
              \/ downAt'[m] = "raised" /\ proc'[m] = "dead" /\ InDomain(m)' = InDomain(m)
<1> DEFINE d == Head(todo[m])
<1> USE DEF Up, Die, BootAt, DownAt, NextDevice, NextEntry, domainVars, processVars, boot, down
<1>1. Types /\ Bounds /\ NoDuplicates /\ DeviceInvAt(m)
    BY DEF TypeInv, DeviceInv
<1>2. downAt[m] = "remove" /\ todo[m] \in Seq(Devices) /\ todo[m] # << >>
      /\ registeredDevices \in Seq(Devices) /\ Distinct(registeredDevices)
    BY <1>1 DEF RemoveDevice, Types, NoDuplicates
<1>3. /\ d \in ToSet(todo[m]) /\ ToSet(Tail(todo[m])) \subseteq ToSet(todo[m])
      /\ ToSet(todo[m]) \ {d} \subseteq ToSet(Tail(todo[m]))
    BY <1>2, TailElements
<1>4. d \in Own(m)
    BY <1>1, <1>3 DEF DeviceInvAt, OwnInv
<1>5. CASE /\ Contains(registeredDevices, d) /\ registeredDevices' = Without(registeredDevices, d)
           /\ todo' = [todo EXCEPT ![m] = Tail(@)] /\ UNCHANGED <<downAt, proc>>
    <2>1. d \in InDomain(m)
        BY <1>2, <1>4, <1>5, ContainsIsMember DEF InDomain
    <2>2. ToSet(registeredDevices') = ToSet(registeredDevices) \ {d}
        BY <1>2, <1>5, WithoutRest
    <2>3. todo'[m] = Tail(todo[m])
        BY <1>1, <1>5 DEF Types
    <2>4. InDomain(m)' = InDomain(m) \ {d} /\ \A n \in Managers : n # m => InDomain(n)' = InDomain(n)
        BY <1>4, <2>2, DomainChange
    <2> QED BY <1>2, <1>3, <1>5, <2>1, <2>3, <2>4
<1>6. CASE /\ DownAt(m, "raised") /\ Die(m) /\ UNCHANGED <<registeredDevices, todo>>
    <2>1. \A n \in Managers : InDomain(n)' = InDomain(n)
        BY <1>6 DEF InDomain
    <2> QED BY <1>1, <1>2, <1>6, <2>1 DEF Types
<1> QED
    BY <1>5, <1>6 DEF RemoveDevice

LEMMA RegisterLocallyFrame ==
    ASSUME TypeInv, NEW m \in Managers, RegisterLocally(m)
    PROVE  /\ proc'[m] = proc[m] /\ boots'[m] = boots[m] /\ adminState'[m] = adminState[m]
           /\ bootNth'[m] = bootNth[m] /\ downAt'[m] = downAt[m] /\ todo'[m] = todo[m]
           /\ unreg'[m] = unreg[m]
           /\ mounts' = mounts
           /\ InDomain(m)' = InDomain(m)
           /\ \A n \in Managers : n # m => SameAt(n)
<1> USE DEF Up, Die, BootAt, DownAt, NextDevice, NextEntry, domainVars, processVars, boot, down
<1>1. Types /\ Bounds
    BY DEF TypeInv
<1>2. \A n \in Managers : InDomain(n)' = InDomain(n)
    BY DEF RegisterLocally, InDomain
<1>3. ASSUME NEW n \in Managers, n # m PROVE SameAt(n)
    BY <1>1, <1>2, <1>3 DEF RegisterLocally, SameAt
<1>4. /\ proc'[m] = proc[m] /\ boots'[m] = boots[m] /\ adminState'[m] = adminState[m]
      /\ bootNth'[m] = bootNth[m] /\ downAt'[m] = downAt[m] /\ todo'[m] = todo[m]
      /\ unreg'[m] = unreg[m]
      /\ mounts' = mounts
    BY <1>1 DEF RegisterLocally
<1> QED
    BY <1>2, <1>3, <1>4

LEMMA RegisterLocallyDevices ==
    ASSUME TypeInv, DeviceInv, NEW m \in Managers, RegisterLocally(m)
    PROVE  DeviceInv'
<1> USE DEF Up
<1>1. Types /\ Bounds /\ DeviceInvAt(m)
    BY DEF TypeInv, DeviceInv
<1>2. OwnInv(m)'
    <2>1. Own(m)' = Own(m) /\ ToSet(todo[m])' = ToSet(todo[m])
        BY RegisterLocallyFrame
    <2>2. ASSUME NEW k \in DOMAIN Devs[m], Devs[m][k] \in AtManager(m)'
          PROVE  k < bootNth'[m] \/ (k = bootNth'[m] /\ bootAt'[m] \in DeviceSteps)
        <3>1. bootNth[m] \in DOMAIN Devs[m]
            BY RegisterLocallyEffect
        <3>2. Devs[m][k] = Devs[m][bootNth[m]] => k = bootNth[m]
            BY <3>1, NodeAssumption
        <3>3. Devs[m][k] \in AtManager(m) => k < bootNth[m]
            BY <1>1, RegisterLocallyEffect DEF DeviceInvAt, OwnInv
        <3> QED BY RegisterLocallyFrame, <2>2, <3>2, <3>3, RegisterLocallyEffect DEF DeviceSteps
    <2> QED BY <1>1, RegisterLocallyFrame, <2>1, <2>2, RegisterLocallyEffect DEF DeviceInvAt,
               OwnInv
<1>3. IndexInv(m)'
    BY <1>1, RegisterLocallyFrame, RegisterLocallyEffect DEF DeviceInvAt, IndexInv
<1>4. MountInv(m)'
    BY <1>1, RegisterLocallyFrame, RegisterLocallyEffect DEF DeviceInvAt, MountInv, EarlySteps,
       DeviceSteps
<1>5. AgreeInv(m)'
    BY <1>1, RegisterLocallyFrame, RegisterLocallyEffect DEF DeviceInvAt, AgreeInv, Coming,
       Leaving, EarlySteps, DeviceSteps
<1>6. AloneInv(m)'
    BY <1>1, RegisterLocallyFrame DEF DeviceInvAt, AloneInv
<1>7. DeviceInvAt(m)'
    BY <1>2, <1>3, <1>4, <1>5, <1>6 DEF DeviceInvAt
<1> QED
    BY RegisterLocallyFrame, <1>7, SameKeepsDevices DEF DeviceInv

LEMMA StoreDeviceFrame ==
    ASSUME TypeInv, DeviceInv, NEW m \in Managers, StoreDevice(m)
    PROVE  /\ proc'[m] = proc[m] /\ boots'[m] = boots[m] /\ adminState'[m] = adminState[m]
           /\ local'[m] = local[m] /\ downAt'[m] = downAt[m] /\ todo'[m] = todo[m]
           /\ unreg'[m] = unreg[m]
           /\ mounts' = mounts
           /\ \A n \in Managers : n # m => SameAt(n)
<1> USE DEF Up, Die, BootAt, DownAt, NextDevice, NextEntry, domainVars, processVars, boot, down
<1>1. Types /\ Bounds
    BY DEF TypeInv
<1>2. \A n \in Managers : n # m => InDomain(n)' = InDomain(n)
    BY StoreDeviceEffect
<1>3. ASSUME NEW n \in Managers, n # m PROVE SameAt(n)
    BY <1>1, <1>2, <1>3 DEF StoreDevice, SameAt
<1>4. /\ proc'[m] = proc[m] /\ boots'[m] = boots[m] /\ adminState'[m] = adminState[m]
      /\ local'[m] = local[m] /\ downAt'[m] = downAt[m] /\ todo'[m] = todo[m]
      /\ unreg'[m] = unreg[m]
      /\ mounts' = mounts
    BY <1>1 DEF StoreDevice
<1> QED
    BY <1>3, <1>4

LEMMA StoreDeviceDevices ==
    ASSUME TypeInv, DeviceInv, NEW m \in Managers, StoreDevice(m)
    PROVE  DeviceInv'
<1> USE DEF Up
<1>1. Types /\ Bounds /\ DeviceInvAt(m)
    BY DEF TypeInv, DeviceInv
<1>2. OwnInv(m)'
    <2>1. /\ Own(m)' = Own(m) /\ AtManager(m)' = AtManager(m)
          /\ ToSet(todo[m])' = ToSet(todo[m])
        BY StoreDeviceFrame DEF Own, AtManager
    <2>2. ASSUME NEW k \in DOMAIN Devs[m], Devs[m][k] \in AtManager(m)
          PROVE  k < bootNth'[m]
        <3>1. k \in Nat /\ bootNth[m] \in Nat /\ bootNth'[m] = bootNth[m] + 1
            BY <1>1, DeviceOfDCD, ManagerTypes, StoreDeviceEffect
        <3>2. k < bootNth[m] \/ k = bootNth[m]
            BY <1>1, <2>2 DEF DeviceInvAt, OwnInv
        <3> QED BY <3>1, <3>2
    <2> QED BY <1>1, <2>1, <2>2, StoreDeviceFrame DEF DeviceInvAt, OwnInv
<1>3. IndexInv(m)'
    BY <1>1, StoreDeviceFrame, StoreDeviceEffect DEF DeviceInvAt, IndexInv
<1>4. MountInv(m)'
    BY <1>1, StoreDeviceFrame, StoreDeviceEffect DEF DeviceInvAt, MountInv, EarlySteps,
       DeviceSteps
<1>5. AgreeInv(m)'
    <2> SUFFICES ASSUME m \in Alone, Up(m)', downAt'[m] = "none", adminState'[m] = "REGISTERED"
                 PROVE  /\ AtManager(m)' = InDomain(m)' \cup Coming(m)' \cup Leaving(m)'
                        /\ Coming(m)' \cap InDomain(m)' = {} /\ Leaving(m)' \cap InDomain(m)' = {}
                        /\ Coming(m)' \cap Leaving(m)' = {}
        BY DEF AgreeInv
    <2>1. Up(m) /\ downAt[m] = "none" /\ adminState[m] = "REGISTERED"
        BY StoreDeviceFrame
    <2>2. /\ AtManager(m) = InDomain(m) \cup Coming(m) \cup Leaving(m)
          /\ Coming(m) \cap InDomain(m) = {} /\ Leaving(m) \cap InDomain(m) = {}
          /\ Coming(m) \cap Leaving(m) = {}
        BY <1>1, <2>1 DEF DeviceInvAt, AgreeInv
    <2> QED
        <3>1. AtManager(m)' = AtManager(m)
            BY StoreDeviceFrame DEF AtManager
        <3>2. /\ Coming(m) = {Devs[m][bootNth[m]]} /\ Coming(m)' = {} /\ Leaving(m)' = Leaving(m)
              /\ InDomain(m)' = InDomain(m) \cup Coming(m)
            BY StoreDeviceFrame, StoreDeviceEffect DEF Coming, Leaving, DeviceSteps
        <3> QED BY <2>2, <3>1, <3>2
<1>6. AloneInv(m)'
    BY <1>1, StoreDeviceFrame DEF DeviceInvAt, AloneInv
<1>7. DeviceInvAt(m)'
    BY <1>2, <1>3, <1>4, <1>5, <1>6 DEF DeviceInvAt
<1> QED
    BY StoreDeviceFrame, <1>7, SameKeepsDevices DEF DeviceInv

LEMMA RemoveDeviceFrame ==
    ASSUME TypeInv, DeviceInv, NEW m \in Managers, RemoveDevice(m)
    PROVE  /\ boots'[m] = boots[m] /\ adminState'[m] = adminState[m] /\ local'[m] = local[m]
           /\ bootAt'[m] = bootAt[m] /\ bootNth'[m] = bootNth[m] /\ unreg'[m] = unreg[m]
           /\ mounts' = mounts
           /\ \A n \in Managers : n # m => SameAt(n)
<1> USE DEF Up, Die, BootAt, DownAt, NextDevice, NextEntry, domainVars, processVars, boot, down
<1>1. Types /\ Bounds
    BY DEF TypeInv
<1>2. \A n \in Managers : n # m => InDomain(n)' = InDomain(n)
    BY RemoveDeviceEffect
<1>3. ASSUME NEW n \in Managers, n # m PROVE SameAt(n)
    BY <1>1, <1>2, <1>3 DEF RemoveDevice, SameAt, Types
<1>4. /\ boots'[m] = boots[m] /\ adminState'[m] = adminState[m] /\ local'[m] = local[m]
      /\ bootAt'[m] = bootAt[m] /\ bootNth'[m] = bootNth[m] /\ unreg'[m] = unreg[m]
      /\ mounts' = mounts
    BY <1>1 DEF RemoveDevice
<1> QED
    BY <1>3, <1>4

LEMMA RemoveDeviceDevices ==
    ASSUME TypeInv, DeviceInv, NEW m \in Managers, RemoveDevice(m)
    PROVE  DeviceInv'
<1> USE DEF Up
<1>1. Types /\ Bounds /\ DeviceInvAt(m)
    BY DEF TypeInv, DeviceInv
<1>2. OwnInv(m)'
    BY <1>1, RemoveDeviceFrame, RemoveDeviceEffect, DeviceOfDCD, ManagerTypes DEF DeviceInvAt,
       OwnInv, AtManager, Own
<1>3. IndexInv(m)'
    BY <1>1, RemoveDeviceFrame, RemoveDeviceEffect DEF DeviceInvAt, IndexInv
<1>4. MountInv(m)'
    BY <1>1, RemoveDeviceFrame, RemoveDeviceEffect DEF DeviceInvAt, MountInv, EarlySteps
<1>5. AgreeInv(m)'
    BY <1>1, RemoveDeviceFrame, RemoveDeviceEffect DEF DeviceInvAt, AgreeInv, Coming, Leaving,
       EarlySteps
<1>6. AloneInv(m)'
    BY <1>1, RemoveDeviceFrame, RemoveDeviceEffect DEF DeviceInvAt, AloneInv
<1>7. DeviceInvAt(m)'
    BY <1>2, <1>3, <1>4, <1>5, <1>6 DEF DeviceInvAt
<1> QED
    BY RemoveDeviceFrame, <1>7, SameKeepsDevices DEF DeviceInv

-----------------------------------------------------------------------------
(* The calls of unregisterDevice.                                          *)

\* A step of one up to the removal from the manager's list.
CallStep(m, c, u) ==
    /\ OneCall(m, c, u) /\ unreg[m][c].at \in {"search", "found", "domain"}
    /\ u.at # "none" => u.device = unreg[m][c].device
    /\ m \in Alone /\ Up(m) /\ u.at \in Settled =>
           u.nth \in DOMAIN local[m] /\ local[m][u.nth] = u.device
    /\ \/ proc' = proc /\ downAt' = downAt
       \/ /\ u.at = "none" /\ c = "shutdown" /\ proc' = [proc EXCEPT ![m] = "dead"]
          /\ downAt' = [downAt EXCEPT ![m] = "raised"]
    /\ UNCHANGED <<mounts, boots, adminState, local, bootAt, bootNth, todo>>
    /\ \A n \in Managers : n # m => InDomain(n)' = InDomain(n)
    /\ IF u.at = "local" /\ adminState[m] = "REGISTERED"
       THEN u.device \in InDomain(m) /\ InDomain(m)' = InDomain(m) \ {u.device}
       ELSE InDomain(m)' \subseteq InDomain(m)
            /\ (adminState[m] = "REGISTERED" => InDomain(m)' = InDomain(m))

LEMMA CallStepDevices ==
    ASSUME TypeInv, DeviceInv, NEW m \in Managers, NEW c \in Callers, NEW u \in UnregCalls,
           CallStep(m, c, u)
    PROVE  DeviceInv'
<1>1. Types /\ Bounds /\ DeviceInvAt(m)
    BY DEF TypeInv, DeviceInv
<1>2. ASSUME NEW n \in Managers, n # m PROVE SameAt(n)
    BY <1>1, <1>2 DEF CallStep, OneCall, SameAt, Types
<1>3. /\ \/ proc'[m] = proc[m] /\ downAt'[m] = downAt[m]
         \/ u.at = "none" /\ proc'[m] = "dead" /\ downAt'[m] = "raised"
      /\ mounts' = mounts /\ boots'[m] = boots[m] /\ adminState'[m] = adminState[m]
      /\ local'[m] = local[m] /\ bootAt'[m] = bootAt[m] /\ bootNth'[m] = bootNth[m]
      /\ todo'[m] = todo[m] /\ AtManager(m)' = AtManager(m)
      /\ InDomain(m)' \subseteq InDomain(m)
    BY <1>1 DEF CallStep, Types, AtManager
<1>4. /\ unreg[m][c].at \in {"search", "found", "domain"} /\ unreg'[m][c] = u
      /\ \A e \in Callers : e # c => unreg'[m][e] = unreg[m][e]
      /\ u.at # "none" => u.device = unreg[m][c].device /\ u.device \in Own(m)
    BY <1>1 DEF CallStep, OneCall, DeviceInvAt, OwnInv
<1>5. OwnInv(m)'
    <2>1. \A e \in Callers : unreg'[m][e].at # "none" => unreg'[m][e].device \in Own(m)
        BY <1>1, <1>4 DEF DeviceInvAt, OwnInv
    <2> QED BY <1>1, <1>3, <2>1 DEF DeviceInvAt, OwnInv, Own
<1>6. AloneInv(m)'
    <2>1. /\ \A e \in Callers : unreg'[m][e].at # "none" => unreg[m][e].at # "none"
          /\ downAt'[m] \in {downAt[m], "raised"}
        BY <1>3, <1>4
    <2> QED BY <1>1, <2>1 DEF DeviceInvAt, AloneInv, Callers
<1>7. IndexInv(m)'
    BY <1>1, <1>3, <1>4 DEF DeviceInvAt, IndexInv, CallStep, Up
<1>8. MountInv(m)'
    <2>1. ~(Up(m) /\ bootAt[m] \in EarlySteps)
        BY <1>1, <1>4 DEF DeviceInvAt, MountInv
    <2>2. Up(m)' => Up(m) /\ downAt'[m] = downAt[m]
        BY <1>3 DEF Up
    <2> QED BY <1>1, <1>3, <2>1, <2>2 DEF DeviceInvAt, MountInv, EarlySteps
<1>9. AgreeInv(m)'
    <2> SUFFICES ASSUME m \in Alone, Up(m)', downAt'[m] = "none", adminState'[m] = "REGISTERED"
                 PROVE  /\ AtManager(m)' = InDomain(m)' \cup Coming(m)' \cup Leaving(m)'
                        /\ Coming(m)' \cap InDomain(m)' = {} /\ Leaving(m)' \cap InDomain(m)' = {}
                        /\ Coming(m)' \cap Leaving(m)' = {}
        BY DEF AgreeInv
    <2>1. Up(m) /\ downAt[m] = "none" /\ adminState[m] = "REGISTERED"
        BY <1>3 DEF Up
    <2>2. /\ AtManager(m) = InDomain(m) \cup Coming(m) \cup Leaving(m)
          /\ Coming(m) \cap InDomain(m) = {}
        BY <1>1, <2>1 DEF DeviceInvAt, AgreeInv
    <2>3. \A e \in Callers : e # c => unreg[m][e].at = "none" /\ unreg'[m][e].at = "none"
        BY <1>1, <1>4 DEF DeviceInvAt, AloneInv
    <2>4. Leaving(m) = {}
        BY <1>4, <2>3 DEF Leaving
    <2>5. Leaving(m)' = IF u.at = "local" THEN {u.device} ELSE {}
        BY <1>4, <2>3 DEF Leaving, Own
    <2>6. Coming(m)' = Coming(m)
        BY <1>3 DEF Coming
    <2>7. Leaving(m)' \subseteq InDomain(m) /\ InDomain(m)' = InDomain(m) \ Leaving(m)'
        BY <2>1, <2>5 DEF CallStep
    <2> QED BY <1>3, <2>2, <2>4, <2>6, <2>7
<1>10. DeviceInvAt(m)'
    BY <1>5, <1>6, <1>7, <1>8, <1>9 DEF DeviceInvAt
<1> QED
    BY <1>2, <1>10, SameKeepsDevices DEF DeviceInv

LEMMA RefuseIsStep ==
    ASSUME TypeInv, NEW m \in Managers, NEW c \in Callers, Refuse(m, c),
           unreg[m][c].at \in {"search", "found", "domain"}, UNCHANGED registeredDevices,
           UNCHANGED <<mounts, boots, adminState, local, bootAt, bootNth, todo>>
    PROVE  \E u \in UnregCalls : CallStep(m, c, u)
<1>1. OneCall(m, c, NoCall) /\ NoCall \in UnregCalls /\ NoCall.at = "none"
    BY CallEnds, CallTypes DEF Refuse, TypeInv
<1>2. \/ proc' = proc /\ downAt' = downAt
      \/ /\ c = "shutdown" /\ proc' = [proc EXCEPT ![m] = "dead"]
         /\ downAt' = [downAt EXCEPT ![m] = "raised"]
    BY DEF Refuse, Die, DownAt
<1>3. \A n \in Managers : InDomain(n)' = InDomain(n)
    BY DEF InDomain
<1> QED
    BY <1>1, <1>2, <1>3 DEF CallStep, Settled

LEMMA SearchDeviceIsStep ==
    ASSUME TypeInv, NEW m \in Managers, NEW c \in Callers, SearchDevice(m, c)
    PROVE  \E u \in UnregCalls : CallStep(m, c, u)
<1> USE DEF domainVars, boot, down
<1> DEFINE i == unreg[m][c].nth
<1>1. unreg[m][c].at = "search" /\ UNCHANGED registeredDevices
      /\ UNCHANGED <<mounts, boots, adminState, local, bootAt, bootNth, todo>>
    BY DEF SearchDevice
<1>2. \A n \in Managers : InDomain(n)' = InDomain(n)
    BY <1>1 DEF InDomain
<1>3. Types
    BY DEF TypeInv
<1>4. CASE /\ i \in DOMAIN local[m] /\ local[m][i] = unreg[m][c].device
           /\ UnregAt(m, c, "found") /\ UNCHANGED <<proc, downAt>>
    <2>1. "found" \in UnregSteps
        BY DEF UnregSteps
    <2>2. PICK u \in UnregCalls : /\ u.at = "found" /\ u.device = unreg[m][c].device /\ u.nth = i
                                  /\ OneCall(m, c, u)
        BY <1>3, <1>4, <2>1, CallMoves
    <2> QED BY <1>1, <1>2, <1>4, <2>2 DEF CallStep
<1>5. CASE /\ unreg' = [unreg EXCEPT ![m][c].nth = @ + 1] /\ UNCHANGED <<proc, downAt>>
    <2>1. PICK u \in UnregCalls : /\ u.at = unreg[m][c].at /\ u.device = unreg[m][c].device
                                  /\ OneCall(m, c, u)
        BY <1>3, <1>5, CallSearches
    <2> QED BY <1>1, <1>2, <1>5, <2>1 DEF CallStep, Settled
<1>6. CASE Refuse(m, c)
    BY <1>1, <1>6, RefuseIsStep
<1> QED
    BY <1>4, <1>5, <1>6 DEF SearchDevice

LEMMA ChooseWayIsStep ==
    ASSUME TypeInv, DeviceInv, NEW m \in Managers, NEW c \in Callers, ChooseWay(m, c)
    PROVE  \E u \in UnregCalls : CallStep(m, c, u)
<1> USE DEF domainVars, processVars, boot, down
<1> DEFINE step == IF adminState[m] = "REGISTERED" THEN "domain" ELSE "local"
<1>1. /\ unreg[m][c].at = "found" /\ Up(m) /\ UnregAt(m, c, step)
      /\ UNCHANGED <<registeredDevices, proc, downAt>>
      /\ UNCHANGED <<mounts, boots, adminState, local, bootAt, bootNth, todo>>
    BY DEF ChooseWay
<1>2. \A n \in Managers : InDomain(n)' = InDomain(n)
    BY <1>1 DEF InDomain
<1>3. Types /\ step \in UnregSteps
    BY DEF TypeInv, UnregSteps
<1> HIDE DEF step
<1>4. PICK u \in UnregCalls : /\ u.at = step /\ u.device = unreg[m][c].device
                              /\ u.nth = unreg[m][c].nth /\ OneCall(m, c, u)
    BY <1>1, <1>3, CallMoves
<1>5. m \in Alone => unreg[m][c].nth \in DOMAIN local[m] /\ local[m][unreg[m][c].nth] = unreg[m][c].device
    BY <1>1 DEF DeviceInv, DeviceInvAt, IndexInv, Settled
<1> QED
    BY <1>1, <1>2, <1>4, <1>5 DEF CallStep, step

LEMMA UnregisterAtDomainIsStep ==
    ASSUME TypeInv, DeviceInv, NEW m \in Managers, NEW c \in Callers, UnregisterAtDomain(m, c)
    PROVE  \E u \in UnregCalls : CallStep(m, c, u)
<1> USE DEF boot, down
<1> DEFINE d == unreg[m][c].device
<1>1. /\ unreg[m][c].at = "domain"
      /\ UNCHANGED <<mounts, boots, adminState, local, bootAt, bootNth, todo>>
    BY DEF UnregisterAtDomain
<1>2. Types /\ registeredDevices \in Seq(Devices) /\ Distinct(registeredDevices)
    BY DEF TypeInv, Types, NoDuplicates
<1>3. d \in Own(m)
    BY <1>1 DEF DeviceInv, DeviceInvAt, OwnInv
<1>4. CASE /\ Contains(registeredDevices, d) /\ registeredDevices' = Without(registeredDevices, d)
           /\ UnregAt(m, c, "local") /\ UNCHANGED <<proc, downAt>>
    <2>1. d \in InDomain(m)
        BY <1>2, <1>3, <1>4, ContainsIsMember DEF InDomain
    <2>2. ToSet(registeredDevices') = ToSet(registeredDevices) \ {d}
        BY <1>2, <1>4, WithoutRest
    <2>3. InDomain(m)' = InDomain(m) \ {d} /\ \A n \in Managers : n # m => InDomain(n)' = InDomain(n)
        BY <1>3, <2>2, DomainChange
    <2>4. "local" \in UnregSteps
        BY DEF UnregSteps
    <2>5. PICK u \in UnregCalls : /\ u.at = "local" /\ u.device = d /\ u.nth = unreg[m][c].nth
                                  /\ OneCall(m, c, u)
        BY <1>2, <1>4, <2>4, CallMoves
    <2>6. m \in Alone /\ Up(m) => unreg[m][c].nth \in DOMAIN local[m] /\ local[m][unreg[m][c].nth] = d
        BY <1>1 DEF DeviceInv, DeviceInvAt, IndexInv, Settled
    <2> QED BY <1>1, <1>4, <2>1, <2>3, <2>5, <2>6 DEF CallStep
<1>5. CASE Refuse(m, c) /\ UNCHANGED registeredDevices
    BY <1>1, <1>5, RefuseIsStep
<1> QED
    BY <1>4, <1>5 DEF UnregisterAtDomain

\* Only shutdown's own call ends it.
LEMMA CallEndsAtRelease ==
    ASSUME TypeInv, NEW m \in Managers, NEW c \in Callers, NEW u \in UnregCalls,
           CallStep(m, c, u), downAt'[m] # downAt[m]
    PROVE  downAt[m] = "release"
    BY DEF TypeInv, Bounds, BoundsOf, CallStep

LEMMA CallStepElsewhere ==
    ASSUME TypeInv, NEW m \in Managers, NEW c \in Callers, NEW u \in UnregCalls, CallStep(m, c, u),
           NEW n \in Managers, n # m
    PROVE  SameAt(n)
    BY DEF TypeInv, Types, CallStep, OneCall, SameAt

\* A call begins, with a device of the list.
CallBegins(m, c, d) ==
    /\ OneCall(m, c, [at |-> "search", device |-> d, nth |-> 1])
    /\ Up(m) /\ d \in AtManager(m) /\ unreg[m][c].at = "none"
    /\ m \in Alone => /\ \A e \in Callers : unreg[m][e].at = "none"
                      /\ downAt[m] \notin {"none", "raised", "done"} => c = "shutdown"
    /\ UNCHANGED <<registeredDevices, mounts, proc, boots, adminState, local, bootAt, bootNth, downAt,
                   todo>>

LEMMA CallBeginsDevices ==
    ASSUME TypeInv, DeviceInv, NEW m \in Managers, NEW c \in Callers, NEW d \in Devices,
           CallBegins(m, c, d)
    PROVE  DeviceInv' /\ \A n \in Managers : InDomain(n)' = InDomain(n) /\ (n # m => SameAt(n))
<1> DEFINE u == [at |-> "search", device |-> d, nth |-> 1]
<1>1. Types /\ Bounds /\ DeviceInvAt(m)
    BY DEF TypeInv, DeviceInv
<1>2. \A n \in Managers : InDomain(n)' = InDomain(n)
    BY DEF CallBegins, InDomain
<1>3. ASSUME NEW n \in Managers, n # m PROVE SameAt(n)
    BY <1>2, <1>3 DEF CallBegins, OneCall, SameAt
<1>4. AtManager(m)' = AtManager(m) /\ local[m] # << >> /\ d \in Own(m)
    BY <1>1 DEF CallBegins, AtManager, ToSet, DeviceInvAt, OwnInv
<1>5. /\ unreg'[m][c].at = "search" /\ unreg'[m][c].device = d
      /\ \A e \in Callers : e # c => unreg'[m][e] = unreg[m][e]
    BY DEF CallBegins, OneCall
<1>6. OwnInv(m)'
    BY <1>1, <1>4, <1>5 DEF CallBegins, DeviceInvAt, OwnInv, Own
<1>7. AloneInv(m)'
    BY <1>1, <1>5, ShutdownIsNoClient DEF CallBegins, DeviceInvAt, AloneInv, Callers
<1>8. IndexInv(m)'
    BY <1>1, <1>5 DEF CallBegins, DeviceInvAt, IndexInv, Settled, Up
<1>9. MountInv(m)'
    <2>1. bootAt[m] \notin EarlySteps
        BY <1>1, <1>4 DEF CallBegins, DeviceInvAt, MountInv
    <2> QED BY <1>1, <1>2, <2>1 DEF CallBegins, DeviceInvAt, MountInv, Up
<1>10. AgreeInv(m)'
    <2>1. m \in Alone => Leaving(m)' = Leaving(m)
        BY <1>5 DEF CallBegins, Leaving, Own
    <2>2. Coming(m)' = Coming(m)
        BY DEF CallBegins, Coming
    <2> QED BY <1>1, <1>2, <1>4, <2>1, <2>2 DEF CallBegins, DeviceInvAt, AgreeInv, Up
<1>11. DeviceInvAt(m)'
    BY <1>6, <1>7, <1>8, <1>9, <1>10 DEF DeviceInvAt
<1> QED
    BY <1>2, <1>3, <1>11, SameKeepsDevices DEF DeviceInv

LEMMA CallUnregisterBegins ==
    ASSUME TypeInv, NEW m \in Managers, NEW c \in Clients, NEW d \in ToSet(local[m]),
           CallUnregister(m, c, d)
    PROVE  d \in Devices /\ CallBegins(m, c, d)
<1> USE DEF domainVars, processVars, boot, down
<1>1. Types
    BY DEF TypeInv
<1>2. d \in Devices /\ d \in AtManager(m) /\ c \in Callers
    <2>1. local[m] \in Seq(Devices)
        BY <1>1 DEF Types
    <2> QED BY <2>1 DEF ToSet, AtManager, Callers
<1>3. OneCall(m, c, [at |-> "search", device |-> d, nth |-> 1])
    BY <1>1, <1>2, CallStarts DEF CallUnregister
<1> QED
    BY <1>2, <1>3 DEF CallUnregister, CallBegins, Invites, Serving

\* The loop of shutdown begins a call, or ends.
LEMMA ReleaseDeviceIsStep ==
    ASSUME TypeInv, DeviceInv, NEW m \in Managers, ReleaseDevice(m)
    PROVE  /\ downAt[m] = "release"
           /\ \/ \E d \in Devices : CallBegins(m, "shutdown", d)
              \/ /\ downAt'[m] \in {"raised", "done"} /\ proc'[m] \in {proc[m], "dead"}
                 /\ boots'[m] = boots[m] /\ adminState'[m] = adminState[m] /\ local'[m] = local[m]
                 /\ bootAt'[m] = bootAt[m] /\ bootNth'[m] = bootNth[m] /\ todo'[m] = todo[m]
                 /\ unreg'[m] = unreg[m] /\ mounts' = mounts /\ InDomain(m)' = InDomain(m)
                 /\ \A n \in Managers : n # m => SameAt(n)
<1> USE DEF domainVars, boot
<1>1. Types /\ DeviceInvAt(m)
    BY DEF TypeInv, DeviceInv
<1>2. downAt[m] = "release" /\ unreg[m]["shutdown"].at = "none" /\ "shutdown" \in Callers
    BY DEF ReleaseDevice, Callers
<1>3. CASE /\ releasing[m] \in DOMAIN local[m] /\ UNCHANGED <<downAt, proc>>
           /\ unreg' = [unreg EXCEPT ![m]["shutdown"] =
                          [at |-> "search", device |-> local[m][releasing[m]], nth |-> 1]]
    <2>1. PICK d \in Devices : d = local[m][releasing[m]] /\ d \in AtManager(m)
        <3>1. local[m] \in Seq(Devices)
            BY <1>1 DEF Types
        <3> QED BY <1>3, <3>1 DEF AtManager, ToSet
    <2>2. OneCall(m, "shutdown", [at |-> "search", device |-> d, nth |-> 1])
        BY <1>1, <1>2, <1>3, <2>1, CallStarts
    <2>3. m \in Alone => \A e \in Callers : unreg[m][e].at = "none"
        BY <1>1, <1>2 DEF DeviceInvAt, AloneInv, Callers
    <2> QED BY <1>2, <1>3, <2>1, <2>2, <2>3 DEF ReleaseDevice, CallBegins
<1>4. CASE /\ \E step \in {"raised", "done"} : DownAt(m, step)
           /\ UNCHANGED unreg /\ (Die(m) \/ UNCHANGED proc)
    <2>1. /\ \A n \in Managers : InDomain(n)' = InDomain(n)
          /\ UNCHANGED <<mounts, boots, adminState, local, bootAt, bootNth, todo>>
        BY DEF ReleaseDevice, InDomain
    <2>2. ASSUME NEW n \in Managers, n # m PROVE SameAt(n)
        BY <1>1, <1>4, <2>1, <2>2 DEF SameAt, Die, DownAt, Types
    <2> QED BY <1>1, <1>2, <1>4, <2>1, <2>2 DEF Die, DownAt, Types
<1> QED
    BY <1>3, <1>4 DEF ReleaseDevice

LEMMA ReleaseDeviceDevices ==
    ASSUME TypeInv, DeviceInv, NEW m \in Managers, ReleaseDevice(m)
    PROVE  DeviceInv'
<1> USE DEF Up
<1>1. Types /\ Bounds /\ DeviceInvAt(m)
    BY DEF TypeInv, DeviceInv
<1>2. CASE \E d \in Devices : CallBegins(m, "shutdown", d)
    BY <1>2, CallBeginsDevices DEF Callers
<1>3. CASE ~ \E d \in Devices : CallBegins(m, "shutdown", d)
    <2>1. OwnInv(m)'
        BY <1>1, <1>3, ReleaseDeviceIsStep DEF DeviceInvAt, OwnInv, AtManager, Own
    <2>2. IndexInv(m)'
        BY <1>1, <1>3, ReleaseDeviceIsStep DEF DeviceInvAt, IndexInv
    <2>3. MountInv(m)'
        BY <1>1, <1>3, ReleaseDeviceIsStep DEF DeviceInvAt, MountInv, EarlySteps
    <2>4. AgreeInv(m)'
        BY <1>1, <1>3, ReleaseDeviceIsStep DEF DeviceInvAt, AgreeInv
    <2>5. AloneInv(m)'
        BY <1>1, <1>3, ReleaseDeviceIsStep DEF DeviceInvAt, AloneInv
    <2>6. DeviceInvAt(m)'
        BY <2>1, <2>2, <2>3, <2>4, <2>5 DEF DeviceInvAt
    <2> QED BY <1>3, <2>6, ReleaseDeviceIsStep, SameKeepsDevices DEF DeviceInv
<1> QED
    BY <1>2, <1>3

\* The removal from the manager's list ends the call.
LEMMA RemoveLocallyEffect ==
    ASSUME TypeInv, DeviceInv, NEW m \in Managers, NEW c \in Callers, RemoveLocally(m, c)
    PROVE  /\ OneCall(m, c, NoCall) /\ proc[m] = "up" /\ unreg[m][c].at = "local"
           /\ proc'[m] = proc[m] \/ proc'[m] = "dead"
           /\ AtManager(m)' \subseteq AtManager(m)
           /\ local[m] = << >> => local'[m] = << >>
           /\ m \in Alone => AtManager(m)' = AtManager(m) \ {unreg[m][c].device}
<1> USE DEF Up, Die
<1>1. Types /\ Bounds /\ NoDuplicates /\ DeviceInvAt(m)
    BY DEF TypeInv, DeviceInv
<1>2. /\ local[m] \in Seq(Devices) /\ Distinct(local[m]) /\ DOMAIN local[m] = 1 .. Len(local[m])
      /\ unreg[m][c].nth \in Nat
    BY <1>1, ManagerTypes, CallTypes DEF NoDuplicates
<1>3. /\ OneCall(m, c, NoCall) /\ proc[m] = "up" /\ unreg[m][c].at = "local"
      /\ proc'[m] = proc[m] \/ proc'[m] = "dead"
    BY <1>1, CallEnds DEF RemoveLocally, Return, Types
<1>4. m \in Alone => /\ unreg[m][c].nth \in DOMAIN local[m]
                     /\ local[m][unreg[m][c].nth] = unreg[m][c].device
    BY <1>1, <1>3 DEF DeviceInvAt, IndexInv, Settled
<1>5. CASE local[m] = << >> /\ local' = local
    BY <1>2, <1>3, <1>4, <1>5 DEF AtManager
<1>6. CASE local[m] # << >> /\ local' = [local EXCEPT ![m] = Shifted(@, unreg[m][c].nth)]
    <2> DEFINE i == unreg[m][c].nth
    <2>1. local'[m] = Shifted(local[m], i)
        BY <1>1, <1>6 DEF Types
    <2>2. CASE i \in DOMAIN local[m]
        <3>1. ToSet(local'[m]) = ToSet(local[m]) \ {local[m][i]}
            BY <1>2, <2>1, <2>2, RemoveAtRest DEF Shifted
        <3> QED BY <1>3, <1>4, <1>6, <3>1 DEF AtManager
    <2>3. CASE i \notin DOMAIN local[m]
        <3>1. ToSet(local'[m]) \subseteq ToSet(local[m])
            BY <1>2, <1>6, <2>1, <2>3, FrontElements DEF Shifted
        <3> QED BY <1>3, <1>4, <1>6, <2>3, <3>1 DEF AtManager
    <2> QED BY <2>2, <2>3
<1> QED
    BY <1>5, <1>6 DEF RemoveLocally

LEMMA RemoveLocallyFrame ==
    ASSUME TypeInv, NEW m \in Managers, NEW c \in Callers, RemoveLocally(m, c)
    PROVE  /\ boots'[m] = boots[m] /\ adminState'[m] = adminState[m] /\ bootAt'[m] = bootAt[m]
           /\ bootNth'[m] = bootNth[m] /\ downAt'[m] = downAt[m] /\ todo'[m] = todo[m]
           /\ mounts' = mounts /\ InDomain(m)' = InDomain(m)
           /\ \A n \in Managers : n # m => SameAt(n)
<1> USE DEF Up, Die, domainVars, boot
<1>1. Types
    BY DEF TypeInv
<1>2. \A n \in Managers : InDomain(n)' = InDomain(n)
    BY DEF RemoveLocally, InDomain
<1>3. OneCall(m, c, NoCall)
    BY <1>1, CallEnds DEF RemoveLocally, Return
<1>4. ASSUME NEW n \in Managers, n # m PROVE SameAt(n)
    BY <1>1, <1>2, <1>3, <1>4 DEF RemoveLocally, OneCall, SameAt, Types
<1> QED
    BY <1>2, <1>4 DEF RemoveLocally

LEMMA RemoveLocallyDevices ==
    ASSUME TypeInv, DeviceInv, NEW m \in Managers, NEW c \in Callers, RemoveLocally(m, c)
    PROVE  DeviceInv'
<1> USE DEF Up
<1>1. Types /\ Bounds /\ DeviceInvAt(m)
    BY DEF TypeInv, DeviceInv
<1>2. /\ unreg[m][c].at = "local" /\ unreg'[m][c].at = "none"
      /\ \A e \in Callers : e # c => unreg'[m][e] = unreg[m][e]
    BY RemoveLocallyEffect DEF OneCall, NoCall
<1>3. OwnInv(m)'
    BY <1>1, <1>2, RemoveLocallyFrame, RemoveLocallyEffect DEF DeviceInvAt, OwnInv, Own
<1>4. AloneInv(m)'
    <2>1. \A e \in Callers : unreg'[m][e].at # "none" => unreg[m][e].at # "none"
        BY <1>2
    <2> QED BY <1>1, <2>1, RemoveLocallyFrame DEF DeviceInvAt, AloneInv, Callers
<1>5. m \in Alone => \A e \in Callers : e # c => unreg[m][e].at = "none"
    BY <1>1, <1>2 DEF DeviceInvAt, AloneInv
<1>6. IndexInv(m)'
    BY <1>2, <1>5 DEF IndexInv, Settled
<1>7. MountInv(m)'
    BY <1>1, <1>2, RemoveLocallyFrame, RemoveLocallyEffect DEF DeviceInvAt, MountInv, EarlySteps
<1>8. AgreeInv(m)'
    <2> SUFFICES ASSUME m \in Alone, Up(m)', downAt'[m] = "none", adminState'[m] = "REGISTERED"
                 PROVE  /\ AtManager(m)' = InDomain(m)' \cup Coming(m)' \cup Leaving(m)'
                        /\ Coming(m)' \cap InDomain(m)' = {} /\ Leaving(m)' \cap InDomain(m)' = {}
                        /\ Coming(m)' \cap Leaving(m)' = {}
        BY DEF AgreeInv
    <2>1. Up(m) /\ downAt[m] = "none" /\ adminState[m] = "REGISTERED"
        BY RemoveLocallyFrame, RemoveLocallyEffect
    <2>2. /\ AtManager(m) = InDomain(m) \cup Coming(m) \cup Leaving(m)
          /\ Coming(m) \cap InDomain(m) = {} /\ Leaving(m) \cap InDomain(m) = {}
          /\ Coming(m) \cap Leaving(m) = {}
        BY <1>1, <2>1 DEF DeviceInvAt, AgreeInv
    <2>3. unreg[m][c].device \in Own(m)
        BY <1>1, <1>2 DEF DeviceInvAt, OwnInv
    <2>4. Leaving(m) = {unreg[m][c].device}
        BY <1>2, <1>5, <2>3 DEF Leaving
    <2>5. Leaving(m)' = {}
        BY <1>2, <1>5 DEF Leaving
    <2>6. /\ Coming(m)' = Coming(m) /\ InDomain(m)' = InDomain(m)
          /\ AtManager(m)' = AtManager(m) \ Leaving(m)
        BY RemoveLocallyFrame, RemoveLocallyEffect, <2>4 DEF Coming
    <2> QED BY <2>2, <2>5, <2>6
<1>9. DeviceInvAt(m)'
    BY <1>3, <1>4, <1>6, <1>7, <1>8 DEF DeviceInvAt
<1> QED
    BY RemoveLocallyFrame, <1>9, SameKeepsDevices DEF DeviceInv

LEMMA DeviceStep ==
    ASSUME TypeInv, DeviceInv, [Next]_vars
    PROVE  DeviceInv'
<1>1. ASSUME UNCHANGED vars PROVE DeviceInv'
    <2>1. \A n \in Managers : SameAt(n)
        BY <1>1 DEF vars, domainVars, processVars, boot, down, SameAt, InDomain
    <2> QED BY <2>1, SameKeepsDevices DEF DeviceInv
<1>2. ASSUME NEW m \in Managers, NEW c \in Clients, NEW d \in ToSet(local[m]),
             CallUnregister(m, c, d)
      PROVE  DeviceInv'
    BY <1>2, CallUnregisterBegins, CallBeginsDevices DEF Callers
<1>3. ASSUME NEW m \in Managers, NEW c \in Callers,
             SearchDevice(m, c) \/ ChooseWay(m, c) \/ UnregisterAtDomain(m, c)
      PROVE  DeviceInv'
    BY <1>3, SearchDeviceIsStep, ChooseWayIsStep, UnregisterAtDomainIsStep, CallStepDevices
<1> QED
    BY <1>1, StartManagerDevices, CheckManagerDevices, GrowListDevices, StoreManagerDevices,
       MountFileSystemDevices, SetRegisteredDevices, RegisterLocallyDevices,
       ReadAdminStateDevices, CheckItsManagerDevices, StoreDeviceDevices, CallShutdownDevices,
       SnapshotDevicesDevices, RemoveDeviceDevices, SearchListDevices, UnlistDevices,
       StartReleaseDevices, ReleaseDeviceDevices, <1>2, <1>3, RemoveLocallyDevices, CrashDevices
    DEF Next

\* What the registries hold, for any interleaving of boots, shutdowns, crashes
\* and clients, registrations that overlap included.
THEOREM DevicesInvariance == Spec => [](TypeInv /\ DeviceInv)
    BY TypeInit, TypeStep, DeviceInit, DeviceStep, PTL DEF Spec

LEMMA ReturnStep ==
    ASSUME TypeInv, DeviceInv, OnlyReturnAborts, [Next]_vars
    PROVE  OnlyReturnAborts'
<1>1. boots \in [Managers -> Nat]
    BY DEF TypeInv, Types
<1>2. \A m \in Managers : boots[m] > 1 => boots'[m] > 1
    <2>1. ASSUME NEW m \in Managers, StartManager(m)
          PROVE  \A n \in Managers : boots[n] > 1 => boots'[n] > 1
        <3>1. boots' = [boots EXCEPT ![m] = @ + 1]
            BY <2>1 DEF StartManager
        <3> QED BY <1>1, <3>1
    <2>2. CASE \A m \in Managers : ~StartManager(m)
        <3>1. boots' = boots
            BY <2>2 DEF Next, vars, processVars, domainVars, Crash, CheckManager, GrowList,
               StoreManager, MountFileSystem, SetRegistered, RegisterLocally, ReadAdminState,
               CheckItsManager, StoreDevice, CallShutdown, SnapshotDevices, RemoveDevice,
               SearchList, Unlist, StartRelease, ReleaseDevice, CallUnregister, SearchDevice,
               ChooseWay, UnregisterAtDomain, RemoveLocally
        <3> QED BY <3>1
    <2> QED BY <2>1, <2>2
<1>3. ASSUME dmn' # dmn PROVE \E m \in Managers : boots[m] > 1
    <2>1. PICK m \in Managers : MountFileSystem(m)
        BY <1>3 DEF Next, vars, processVars, domainVars, Crash, StartManager, CheckManager,
           GrowList, StoreManager, SetRegistered, RegisterLocally, ReadAdminState,
           CheckItsManager, StoreDevice, CallShutdown, SnapshotDevices, RemoveDevice, SearchList,
           Unlist, StartRelease, ReleaseDevice, CallUnregister, SearchDevice, ChooseWay,
           UnregisterAtDomain, RemoveLocally
    <2>2. m \in mounts /\ bootAt[m] = "mount"
        BY <1>3, <2>1 DEF MountFileSystem
    <2> QED BY <2>2 DEF DeviceInv, DeviceInvAt, MountInv
<1> QED
    BY <1>2, <1>3 DEF OnlyReturnAborts

\* A registration ends the domain manager only when a manager comes back.
THEOREM OnlyReturnAbortsAlways == Spec => []OnlyReturnAborts
<1>1. Init => OnlyReturnAborts
    BY DEF Init, OnlyReturnAborts
<1> QED
    BY <1>1, ReturnStep, DevicesInvariance, PTL DEF Spec

\* Between two calls, the domain and a manager that clients call one at a time
\* agree on its devices.
THEOREM RegistriesAgreeAlways == Spec => []RegistriesAgree
<1>1. DeviceInv => RegistriesAgree
    <2> SUFFICES ASSUME DeviceInv, NEW m \in Managers, m \in Alone,
                        Up(m), adminState[m] = "REGISTERED",
                        bootAt[m] = "launch", downAt[m] = "none",
                        \A c \in Callers : unreg[m][c].at = "none"
                 PROVE  ToSet(registeredDevices) \cap ToSet(Devs[m]) = ToSet(local[m])
        BY RegistryBounds DEF RegistriesAgree
    <2>1. Coming(m) = {} /\ Leaving(m) = {}
        BY DEF Coming, Leaving, DeviceSteps
    <2>2. AtManager(m) = InDomain(m) \cup Coming(m) \cup Leaving(m)
        BY DEF DeviceInv, DeviceInvAt, AgreeInv
    <2> QED BY <2>1, <2>2 DEF AtManager, InDomain, Own
<1> QED
    BY <1>1, DevicesInvariance, PTL

\* The index found before unregisterDevice's remote calls is good after them,
\* if clients call the manager one at a time.
THEOREM IndexStaysValidAlways == Spec => []IndexStaysValid
<1>1. DeviceInv => IndexStaysValid
    BY RegistryBounds DEF DeviceInv, DeviceInvAt, IndexInv, IndexStaysValid, Settled
<1> QED
    BY <1>1, DevicesInvariance, PTL

-----------------------------------------------------------------------------
(* The list of managers, as a set of references.                           *)

LEMMA ListTypes ==
    ASSUME TypeInv
    PROVE  /\ deviceManagers \in Seq(Refs) /\ Len(deviceManagers) \in Nat
           /\ DOMAIN deviceManagers = 1 .. Len(deviceManagers)
           /\ \A k \in 1 .. Len(deviceManagers) :
                  deviceManagers[k] # Nil =>
                      deviceManagers[k] = <<deviceManagers[k][1], deviceManagers[k][2]>>
<1>1. deviceManagers \in Seq(Refs)
    BY DEF TypeInv, Types
<1>2. \A r \in Refs : r # Nil => r = <<r[1], r[2]>>
    BY DEF Refs
<1> QED
    BY <1>1, <1>2, LenProperties

LEMMA ReferenceIsNotNil ==
    ASSUME TypeInv, NEW m \in Managers, Up(m)
    PROVE  Reference(m) # Nil
<1>1. boots[m] \in 1 .. MaxBoots[m]
    BY DeviceOfDCD DEF TypeInv, Types, Bounds, BoundsOf
<1> QED
    BY <1>1, NilIsNoReference DEF Reference

LEMMA InList ==
    ASSUME TypeInv, NEW m \in Managers
    PROVE  /\ Listed(m) <=> Reference(m) \in ToSet(deviceManagers)
           /\ Known(m) <=> \E r \in ToSet(deviceManagers) : r # Nil /\ r[1] = m
    BY ListTypes DEF Listed, Known, Contains, ToSet

\* A loop that meets the manager is at its entry.
LEMMA LoopEnds ==
    ASSUME TypeInv, NEW m \in Managers, NEW i \in Nat, Meets(m, i) = "found"
    PROVE  /\ i \in 1 .. Len(deviceManagers) /\ i \in DOMAIN deviceManagers
           /\ deviceManagers[i] = Reference(m) /\ deviceManagers[i] # Nil
<1>1. i \in DOMAIN deviceManagers /\ Answers(deviceManagers[i]) /\ deviceManagers[i][1] = m
    BY DEF Meets
<1> QED
    BY <1>1, ListTypes DEF Answers, Reference

\* The last place is the only one a registration stores to, and it is empty.
LEMMA StoreManagerList ==
    ASSUME TypeInv, ChangingInv, NEW m \in Managers, StoreManager(m)
    PROVE  /\ Reference(m) \in ToSet(deviceManagers')
           /\ \A r \in ToSet(deviceManagers) : r # Nil => r \in ToSet(deviceManagers')
<1> DEFINE n == Len(deviceManagers)
<1>1. n \in Nat /\ DOMAIN deviceManagers = 1 .. n /\ deviceManagers \in Seq(Refs)
    BY ListTypes
<1>2. deviceManagers # << >> /\ deviceManagers[n] = Nil
    BY DEF ChangingInv, StoreManager
<1>3. n \in 1 .. n
    BY <1>1, <1>2
<1>4. deviceManagers' = [deviceManagers EXCEPT ![n] = Reference(m)]
    BY DEF StoreManager
<1>5. /\ DOMAIN deviceManagers' = 1 .. n /\ deviceManagers'[n] = Reference(m)
      /\ \A k \in 1 .. n : k # n => deviceManagers'[k] = deviceManagers[k]
    BY <1>1, <1>3, <1>4
<1>6. Reference(m) \in ToSet(deviceManagers')
    BY <1>3, <1>5 DEF ToSet
<1>7. ASSUME NEW r \in ToSet(deviceManagers), r # Nil PROVE r \in ToSet(deviceManagers')
    <2>1. PICK k \in 1 .. n : deviceManagers[k] = r
        BY <1>1 DEF ToSet
    <2> QED BY <1>2, <1>5, <1>7, <2>1 DEF ToSet
<1> QED
    BY <1>6, <1>7

\* A manager loses no entry but to its own unregistration.
LEMMA UnlistList ==
    ASSUME TypeInv, ChangingInv, NEW m \in Managers, Unlist(m)
    PROVE  \A r \in ToSet(deviceManagers) : r \in ToSet(deviceManagers') \/ r = Reference(m)
<1> DEFINE i == downEntry[m]
<1>1. i \in 1 .. Len(deviceManagers) /\ deviceManagers[i] = Reference(m)
    BY ListTypes DEF ChangingInv, Unlist
<1>2. deviceManagers' = RemoveAt(deviceManagers, i)
    BY <1>1, ListTypes DEF Unlist, Shifted
<1>3. \A k \in 1 .. Len(deviceManagers) : k # i => deviceManagers[k] \in ToSet(deviceManagers')
    BY <1>1, <1>2, ListTypes, RemoveAtRest
<1> QED
    BY <1>1, <1>3, ListTypes DEF ToSet

LEMMA OthersStayListed ==
    ASSUME TypeInv, ChangingInv, [Next]_vars, NEW c \in Managers, ~Unlist(c)
    PROVE  \A r \in ToSet(deviceManagers) : r # Nil /\ r[1] = c => r \in ToSet(deviceManagers')
<1>1. CASE deviceManagers' = deviceManagers
    BY <1>1
<1>2. ASSUME NEW m \in Managers, GrowList(m)
      PROVE  ToSet(deviceManagers) \subseteq ToSet(deviceManagers')
    <2>1. deviceManagers' = Append(deviceManagers, Nil) /\ Nil \in Refs
        BY <1>2 DEF GrowList, Refs
    <2> QED BY <2>1, ListTypes, AppendElement
<1>3. ASSUME NEW m \in Managers, Unlist(m)
      PROVE  \A r \in ToSet(deviceManagers) : r # Nil /\ r[1] = c => r \in ToSet(deviceManagers')
    <2>1. m # c
        BY <1>3
    <2> QED BY <1>3, <2>1, UnlistList DEF Reference
<1>4. \/ deviceManagers' = deviceManagers
      \/ \E m \in Managers : GrowList(m) \/ StoreManager(m) \/ Unlist(m)
    BY DEF Next, vars, processVars, domainVars, Crash, StartManager, CheckManager,
       MountFileSystem, SetRegistered, RegisterLocally, ReadAdminState, CheckItsManager,
       StoreDevice, CallShutdown, SnapshotDevices, RemoveDevice, SearchList, StartRelease,
       ReleaseDevice, CallUnregister, SearchDevice, ChooseWay, UnregisterAtDomain, RemoveLocally
<1> QED
    BY <1>1, <1>2, <1>3, <1>4, StoreManagerList

LEMMA ManagerStaysListed ==
    ASSUME TypeInv, TypeInv', ChangingInv, [Next]_vars, NEW c \in Managers, ~Unlist(c)
    PROVE  /\ Known(c) => Known(c)'
           /\ Listed(c) /\ Up(c) /\ boots'[c] = boots[c] => Listed(c)'
<1>1. /\ Known(c) => \E r \in ToSet(deviceManagers) : r # Nil /\ r[1] = c
      /\ Listed(c) => Reference(c) \in ToSet(deviceManagers)
    BY InList
<1>2. \A r \in ToSet(deviceManagers') : r # Nil /\ r[1] = c => Known(c)'
    BY DEF Known, ToSet
<1>3. boots'[c] = boots[c] /\ Reference(c) \in ToSet(deviceManagers') => Listed(c)'
    <2>1. Len(deviceManagers') \in Nat /\ DOMAIN deviceManagers' = 1 .. Len(deviceManagers')
        BY LenProperties DEF TypeInv
    <2> QED BY <2>1 DEF Listed, Contains, ToSet, Reference
<1>4. Reference(c)[1] = c
    BY DEF Reference
<1> QED
    BY <1>1, <1>2, <1>3, <1>4, OthersStayListed, ReferenceIsNotNil

\* Who is to change the list has no other with it.
LEMMA ChangingStep ==
    ASSUME TypeInv, ChangingInv, ~Overlap, [Next]_vars
    PROVE  ChangingInv'
<1>1. Types
    BY DEF TypeInv
<1>2. ASSUME NEW m \in Managers, GrowList(m) PROVE ChangingInv'
    <2>1. /\ \A n \in Managers : bootAt[n] # "store" /\ downAt[n] # "shift"
          /\ bootAt' = [bootAt EXCEPT ![m] = "store"] /\ downAt' = downAt
          /\ deviceManagers' = Append(deviceManagers, Nil)
        BY <1>2 DEF GrowList, BootAt, MayChange, Changing, down
    <2>2. /\ Append(deviceManagers, Nil) # << >>
          /\ Append(deviceManagers, Nil)[Len(Append(deviceManagers, Nil))] = Nil
        <3>1. deviceManagers \in Seq(Refs) /\ Nil \in Refs
            BY ListTypes DEF Refs
        <3> QED BY <3>1
    <2>3. \A n \in Managers : bootAt'[n] = "store" => n = m
        BY <1>1, <2>1 DEF Types
    <2> QED BY <2>1, <2>2, <2>3 DEF ChangingInv, Changing
<1>3. ASSUME NEW m \in Managers, StoreManager(m) \/ Unlist(m) PROVE ChangingInv'
    <2>1. /\ m \in Changing /\ ~(bootAt[m] = "store" /\ downAt[m] = "shift")
          /\ \/ bootAt[m] = "store" /\ bootAt' = [bootAt EXCEPT ![m] = "mount"] /\ downAt' = downAt
             \/ downAt[m] = "shift" /\ downAt' = [downAt EXCEPT ![m] = "unlisted"] /\ bootAt' = bootAt
        BY <1>3 DEF StoreManager, Unlist, BootAt, DownAt, Changing, ChangingInv, boot, down
    <2>2. \A n \in Managers : n # m => bootAt[n] # "store" /\ downAt[n] # "shift"
        BY <2>1 DEF ChangingInv, Changing
    <2>3. \A n \in Managers : bootAt'[n] # "store" /\ downAt'[n] # "shift"
        BY <1>1, <2>1, <2>2 DEF Types
    <2> QED BY <2>3 DEF ChangingInv, Changing
<1>4. ASSUME NEW m \in Managers, SearchList(m), Meets(m, downEntry[m]) = "found"
      PROVE  ChangingInv'
    <2>1. /\ \A n \in Managers : bootAt[n] # "store" /\ downAt[n] # "shift"
          /\ downAt' = [downAt EXCEPT ![m] = "shift"]
          /\ UNCHANGED <<deviceManagers, bootAt, downEntry, boots>>
        BY <1>4 DEF SearchList, DownAt, MayChange, Changing, boot, domainVars, processVars
    <2>2. downEntry[m] \in DOMAIN deviceManagers /\ deviceManagers[downEntry[m]] = Reference(m)
        BY <1>1, <1>4, LoopEnds DEF Types
    <2>3. \A n \in Managers : downAt'[n] = "shift" => n = m
        BY <1>1, <2>1 DEF Types
    <2> QED BY <2>1, <2>2, <2>3 DEF ChangingInv, Changing, Reference
<1>5. ASSUME deviceManagers' = deviceManagers,
             \A n \in Managers :
                 /\ bootAt'[n] = "store" => bootAt[n] = "store"
                 /\ downAt'[n] = "shift" => /\ downAt[n] = "shift" /\ downEntry'[n] = downEntry[n]
                                           /\ boots'[n] = boots[n]
      PROVE  ChangingInv'
    BY <1>5 DEF ChangingInv, Changing, Reference
<1>6. ASSUME NEW m \in Managers, SearchList(m), Meets(m, downEntry[m]) # "found"
      PROVE  ChangingInv'
    <2>1. /\ deviceManagers' = deviceManagers /\ bootAt' = bootAt /\ boots' = boots
          /\ downAt[m] = "remove"
          /\ \/ downAt' = downAt
                /\ downEntry' = [downEntry EXCEPT ![m] = @ + 1]
             \/ downEntry' = downEntry
                /\ \E step \in {"raised", "unlisted"} : downAt' = [downAt EXCEPT ![m] = step]
        BY <1>6 DEF SearchList, DownAt, boot, domainVars, processVars
    <2>2. \A n \in Managers : downAt'[n] = "shift" =>
              downAt[n] = "shift" /\ downEntry'[n] = downEntry[n]
        BY <1>1, <2>1 DEF Types
    <2> QED BY <1>5, <2>1, <2>2
<1>7. ASSUME NEW m \in Managers, StartManager(m) PROVE ChangingInv'
    <2>1. /\ deviceManagers' = deviceManagers /\ boots' = [boots EXCEPT ![m] = @ + 1]
          /\ bootAt' = [bootAt EXCEPT ![m] = "check"] /\ downAt' = [downAt EXCEPT ![m] = "none"]
          /\ downEntry' = [downEntry EXCEPT ![m] = 1]
        BY <1>7 DEF StartManager, DownAt, domainVars
    <2> QED BY <1>1, <1>5, <2>1 DEF Types
<1>8. CASE /\ deviceManagers' = deviceManagers /\ boots' = boots /\ downEntry' = downEntry
           /\ \A n \in Managers : bootAt'[n] = "store" => bootAt[n] = "store"
           /\ \A n \in Managers : downAt'[n] = "shift" => downAt[n] = "shift"
    BY <1>5, <1>8
<1>9. ASSUME NEW m \in Managers,
             \/ CheckManager(m) \/ MountFileSystem(m) \/ SetRegistered(m) \/ RegisterLocally(m)
             \/ ReadAdminState(m) \/ CheckItsManager(m) \/ StoreDevice(m)
             \/ CallShutdown(m) \/ SnapshotDevices(m) \/ RemoveDevice(m)
             \/ StartRelease(m) \/ ReleaseDevice(m) \/ Crash(m)
      PROVE  ChangingInv'
    <2>1. deviceManagers' = deviceManagers /\ boots' = boots /\ downEntry' = downEntry
        BY <1>9 DEF processVars, domainVars, down, Crash, CheckManager, MountFileSystem,
           SetRegistered, RegisterLocally, ReadAdminState, CheckItsManager, StoreDevice,
           CallShutdown, SnapshotDevices, RemoveDevice, StartRelease, ReleaseDevice
    <2>2. \/ bootAt' = bootAt
          \/ \E step \in {"off", "grow", "mount", "registered", "launch", "adminState",
                          "checkManager", "storeDevice"} : bootAt' = [bootAt EXCEPT ![m] = step]
        BY <1>9 DEF boot, BootAt, NextDevice, NextEntry, Crash, CheckManager, MountFileSystem,
           SetRegistered, RegisterLocally, ReadAdminState, CheckItsManager, StoreDevice,
           CallShutdown, SnapshotDevices, RemoveDevice, StartRelease, ReleaseDevice
    <2>3. \/ downAt' = downAt
          \/ \E step \in {"snapshot", "remove", "release", "raised", "done"} :
                 downAt' = [downAt EXCEPT ![m] = step]
        BY <1>9 DEF down, DownAt, Crash, CheckManager, MountFileSystem, SetRegistered,
           RegisterLocally, ReadAdminState, CheckItsManager, StoreDevice, CallShutdown,
           SnapshotDevices, RemoveDevice, StartRelease, ReleaseDevice
    <2>4. \A n \in Managers : bootAt'[n] = "store" => bootAt[n] = "store"
        BY <1>1, <2>2 DEF Types
    <2>5. \A n \in Managers : downAt'[n] = "shift" => downAt[n] = "shift"
        BY <1>1, <2>3 DEF Types
    <2> QED BY <1>8, <2>1, <2>4, <2>5
<1>11. ASSUME NEW m \in Managers, NEW c \in Callers,
              \/ SearchDevice(m, c) \/ ChooseWay(m, c) \/ UnregisterAtDomain(m, c)
              \/ RemoveLocally(m, c)
       PROVE  ChangingInv'
    <2>1. /\ deviceManagers' = deviceManagers /\ boots' = boots /\ downEntry' = downEntry
          /\ bootAt' = bootAt
        BY <1>11 DEF processVars, domainVars, boot, down, SearchDevice, ChooseWay,
           UnregisterAtDomain, RemoveLocally
    <2>2. downAt' = downAt \/ downAt' = [downAt EXCEPT ![m] = "raised"]
        BY <1>11 DEF down, DownAt, Refuse, SearchDevice, ChooseWay, UnregisterAtDomain,
           RemoveLocally
    <2>3. \A n \in Managers : downAt'[n] = "shift" => downAt[n] = "shift"
        BY <1>1, <2>2 DEF Types
    <2> QED BY <1>8, <2>1, <2>3
<1>12. ASSUME NEW m \in Managers, NEW c \in Clients, NEW d \in ToSet(local[m]), CallUnregister(m, c, d)
       PROVE  ChangingInv'
    BY <1>8, <1>12 DEF CallUnregister, domainVars, processVars, boot, down
<1>10. CASE UNCHANGED vars
    BY <1>8, <1>10 DEF vars, domainVars, processVars, boot, down
<1> QED
    BY <1>2, <1>3, <1>4, <1>6, <1>7, <1>9, <1>10, <1>11, <1>12 DEF Next

-----------------------------------------------------------------------------
(* A manager that clients treat with care stays in the list while the      *)
(* domain has devices of it, and while it is registered.                   *)

LEMMA SameKeepsListed ==
    ASSUME TypeInv, TypeInv', ChangingInv, [Next]_vars,
           NEW c \in Managers, ListInvAt(c), SameAt(c)
    PROVE  ListInvAt(c)'
<1> USE DEF SameAt, Up
<1>1. ~Unlist(c)
    BY UnlistEffect
<1>2. (Known(c) => Known(c)') /\ (Listed(c) /\ Up(c) => Listed(c)')
    BY <1>1, ManagerStaysListed
<1>3. ListedInv(c)'
    BY <1>2 DEF ListInvAt, ListedInv
<1>4. DownInv(c)'
    BY <1>2 DEF ListInvAt, DownInv, Offered, Leaving, AtManager
<1> QED
    BY <1>3, <1>4 DEF ListInvAt

LEMMA StartManagerListed ==
    ASSUME TypeInv, TypeInv', DeviceInv, ChangingInv, Next,
           NEW m \in Careful, m \in Managers, ListInvAt(m), StartManager(m)
    PROVE  ListInvAt(m)'
<1> USE DEF Up
<1>1. DeviceInvAt(m)
    BY DEF DeviceInv
<1>2. (Known(m) => Known(m)') /\ (Listed(m) /\ Up(m) /\ boots'[m] = boots[m] => Listed(m)')
    <2>1. ~Unlist(m)
        BY StartManagerEffect, UnlistEffect
    <2> QED BY <2>1, ManagerStaysListed
<1>3. ListedInv(m)'
    BY <1>2, StartManagerEffect DEF ListInvAt, ListedInv, DownInv
<1>4. DownInv(m)'
    BY <1>2, StartManagerEffect DEF ListInvAt, DownInv, Offered, Leaving, AtManager
<1> QED
    BY <1>3, <1>4 DEF ListInvAt

LEMMA CheckManagerListed ==
    ASSUME TypeInv, TypeInv', DeviceInv, ChangingInv, Next,
           NEW m \in Careful, m \in Managers, ListInvAt(m), CheckManager(m)
    PROVE  ListInvAt(m)'
<1> USE DEF Up
<1>1. DeviceInvAt(m)
    BY DEF DeviceInv
<1>2. (Known(m) => Known(m)') /\ (Listed(m) /\ Up(m) /\ boots'[m] = boots[m] => Listed(m)')
    <2>1. ~Unlist(m)
        BY CheckManagerEffect, UnlistEffect
    <2> QED BY <2>1, ManagerStaysListed
<1>3. ListedInv(m)'
    <2>1. ASSUME bootAt'[m] = "mount" PROVE Listed(m)'
        <3>1. \/ bootAt' = bootAt
              \/ bootAt' = [bootAt EXCEPT ![m] = IF Meets(m, bootEntry[m]) = "end" THEN "grow" ELSE "mount"]
                 /\ Meets(m, bootEntry[m]) \in {"end", "found"}
            BY DEF CheckManager, BootAt, NextEntry, boot
        <3>2. /\ bootAt[m] = "check" /\ bootAt \in [Managers -> BootSteps]
              /\ bootEntry[m] \in Nat
            BY CheckManagerEffect DEF TypeInv, Types
        <3>3. Meets(m, bootEntry[m]) = "found"
            BY <2>1, <3>1, <3>2
        <3>5. Listed(m)
            BY <3>2, <3>3, LoopEnds DEF Listed, Contains
        <3> QED BY <1>2, <3>5, CheckManagerEffect
    <2> QED BY <1>2, <2>1, CheckManagerEffect DEF ListInvAt, ListedInv, DownInv
<1>4. DownInv(m)'
    BY <1>2, CheckManagerEffect DEF ListInvAt, DownInv, Offered, Leaving, AtManager, EarlySteps
<1> QED
    BY <1>3, <1>4 DEF ListInvAt

LEMMA GrowListListed ==
    ASSUME TypeInv, TypeInv', DeviceInv, ChangingInv, Next,
           NEW m \in Careful, m \in Managers, ListInvAt(m), GrowList(m)
    PROVE  ListInvAt(m)'
<1> USE DEF Up
<1>1. DeviceInvAt(m)
    BY DEF DeviceInv
<1>2. (Known(m) => Known(m)') /\ (Listed(m) /\ Up(m) /\ boots'[m] = boots[m] => Listed(m)')
    <2>1. ~Unlist(m)
        BY GrowListEffect, UnlistEffect
    <2> QED BY <2>1, ManagerStaysListed
<1>3. ListedInv(m)'
    BY <1>2, GrowListEffect DEF ListInvAt, ListedInv, DownInv
<1>4. DownInv(m)'
    BY <1>2, GrowListEffect DEF ListInvAt, DownInv, Offered, Leaving, AtManager, EarlySteps
<1> QED
    BY <1>3, <1>4 DEF ListInvAt

LEMMA StoreManagerListed ==
    ASSUME TypeInv, TypeInv', DeviceInv, ChangingInv, Next,
           NEW m \in Careful, m \in Managers, ListInvAt(m), StoreManager(m)
    PROVE  ListInvAt(m)'
<1> USE DEF Up
<1>1. DeviceInvAt(m)
    BY DEF DeviceInv
<1>2. (Known(m) => Known(m)') /\ (Listed(m) /\ Up(m) /\ boots'[m] = boots[m] => Listed(m)')
    <2>1. ~Unlist(m)
        BY StoreManagerEffect, UnlistEffect
    <2> QED BY <2>1, ManagerStaysListed
<1>3. ListedInv(m)'
    <2>1. Up(m) => Listed(m)'
        <3>1. Reference(m)' = Reference(m)
            BY StoreManagerEffect DEF Reference
        <3>2. Reference(m) \in ToSet(deviceManagers')
            BY StoreManagerList
        <3>3. Len(deviceManagers') \in Nat /\ DOMAIN deviceManagers' = 1 .. Len(deviceManagers')
            BY LenProperties DEF TypeInv
        <3> QED BY <3>1, <3>2, <3>3 DEF Listed, Contains, ToSet
    <2> QED BY <2>1, StoreManagerEffect DEF ListedInv
<1>4. DownInv(m)'
    BY <1>2, StoreManagerEffect DEF ListInvAt, DownInv, Offered, Leaving, AtManager, EarlySteps
<1> QED
    BY <1>3, <1>4 DEF ListInvAt

LEMMA MountFileSystemListed ==
    ASSUME TypeInv, TypeInv', DeviceInv, ChangingInv, Next,
           NEW m \in Careful, m \in Managers, ListInvAt(m), MountFileSystem(m)
    PROVE  ListInvAt(m)'
<1> USE DEF Up
<1>1. DeviceInvAt(m)
    BY DEF DeviceInv
<1>2. (Known(m) => Known(m)') /\ (Listed(m) /\ Up(m) /\ boots'[m] = boots[m] => Listed(m)')
    <2>1. ~Unlist(m)
        BY MountFileSystemEffect, UnlistEffect
    <2> QED BY <2>1, ManagerStaysListed
<1>3. ListedInv(m)'
    BY <1>2, MountFileSystemEffect DEF ListInvAt, ListedInv, DownInv
<1>4. DownInv(m)'
    BY <1>2, MountFileSystemEffect DEF ListInvAt, DownInv, Offered, Leaving, AtManager,
       EarlySteps
<1> QED
    BY <1>3, <1>4 DEF ListInvAt

LEMMA SetRegisteredListed ==
    ASSUME TypeInv, TypeInv', DeviceInv, ChangingInv, Next,
           NEW m \in Careful, m \in Managers, ListInvAt(m), SetRegistered(m)
    PROVE  ListInvAt(m)'
<1> USE DEF Up
<1>1. DeviceInvAt(m)
    BY DEF DeviceInv
<1>2. (Known(m) => Known(m)') /\ (Listed(m) /\ Up(m) /\ boots'[m] = boots[m] => Listed(m)')
    <2>1. ~Unlist(m)
        BY SetRegisteredEffect, UnlistEffect
    <2> QED BY <2>1, ManagerStaysListed
<1>3. ListedInv(m)'
    BY <1>2, SetRegisteredEffect DEF ListInvAt, ListedInv, DownInv
<1>4. DownInv(m)'
    BY <1>2, SetRegisteredEffect DEF ListInvAt, DownInv, Offered, Leaving, AtManager, EarlySteps
<1> QED
    BY <1>3, <1>4 DEF ListInvAt

LEMMA RegisterLocallyListed ==
    ASSUME TypeInv, TypeInv', DeviceInv, ChangingInv, Next,
           NEW m \in Careful, m \in Managers, ListInvAt(m), RegisterLocally(m)
    PROVE  ListInvAt(m)'
<1> USE DEF Up
<1>1. DeviceInvAt(m)
    BY DEF DeviceInv
<1>2. (Known(m) => Known(m)') /\ (Listed(m) /\ Up(m) /\ boots'[m] = boots[m] => Listed(m)')
    <2>1. ~Unlist(m)
        BY RegisterLocallyFrame, RegisterLocallyEffect, UnlistEffect
    <2> QED BY <2>1, ManagerStaysListed
<1>3. ListedInv(m)'
    BY <1>2, RegisterLocallyFrame, RegisterLocallyEffect DEF ListInvAt, ListedInv, DownInv
<1>4. DownInv(m)'
    BY <1>2, RegisterLocallyFrame, RegisterLocallyEffect DEF ListInvAt, DownInv, Offered,
       Leaving, AtManager, EarlySteps
<1> QED
    BY <1>3, <1>4 DEF ListInvAt

LEMMA ReadAdminStateListed ==
    ASSUME TypeInv, TypeInv', DeviceInv, ChangingInv, Next,
           NEW m \in Careful, m \in Managers, ListInvAt(m), ReadAdminState(m)
    PROVE  ListInvAt(m)'
<1> USE DEF Up
<1>1. DeviceInvAt(m)
    BY DEF DeviceInv
<1>2. (Known(m) => Known(m)') /\ (Listed(m) /\ Up(m) /\ boots'[m] = boots[m] => Listed(m)')
    <2>1. ~Unlist(m)
        BY ReadAdminStateEffect, UnlistEffect
    <2> QED BY <2>1, ManagerStaysListed
<1>3. ListedInv(m)'
    BY <1>2, ReadAdminStateEffect DEF ListInvAt, ListedInv, DownInv
<1>4. DownInv(m)'
    BY <1>2, ReadAdminStateEffect DEF ListInvAt, DownInv, Offered, Leaving, AtManager,
       EarlySteps
<1> QED
    BY <1>3, <1>4 DEF ListInvAt

LEMMA CheckItsManagerListed ==
    ASSUME TypeInv, TypeInv', DeviceInv, ChangingInv, Next,
           NEW m \in Careful, m \in Managers, ListInvAt(m), CheckItsManager(m)
    PROVE  ListInvAt(m)'
<1> USE DEF Up
<1>1. DeviceInvAt(m)
    BY DEF DeviceInv
<1>2. (Known(m) => Known(m)') /\ (Listed(m) /\ Up(m) /\ boots'[m] = boots[m] => Listed(m)')
    <2>1. ~Unlist(m)
        BY CheckItsManagerEffect, UnlistEffect
    <2> QED BY <2>1, ManagerStaysListed
<1>3. ListedInv(m)'
    BY <1>2, CheckItsManagerEffect DEF ListInvAt, ListedInv, DownInv
<1>4. DownInv(m)'
    <2>1. ASSUME bootAt'[m] = "storeDevice" PROVE Known(m)
        <3>1. \/ bootAt' = bootAt
              \/ bootAt' = [bootAt EXCEPT ![m] = "storeDevice"] /\ Meets(m, bootEntry[m]) = "found"
            BY DEF CheckItsManager, BootAt, NextEntry, boot
        <3>2. Meets(m, bootEntry[m]) = "found" /\ bootEntry[m] \in Nat
            BY <2>1, <3>1, CheckItsManagerEffect DEF TypeInv, Types
        <3> QED BY <3>2, LoopEnds DEF Known, Reference
    <2> QED BY <1>2, <2>1, CheckItsManagerEffect DEF ListInvAt, DownInv, Offered, Leaving,
               AtManager, EarlySteps
<1> QED
    BY <1>3, <1>4 DEF ListInvAt

LEMMA StoreDeviceListed ==
    ASSUME TypeInv, TypeInv', DeviceInv, ChangingInv, Next,
           NEW m \in Careful, m \in Managers, ListInvAt(m), StoreDevice(m)
    PROVE  ListInvAt(m)'
<1> USE DEF Up
<1>1. DeviceInvAt(m)
    BY DEF DeviceInv
<1>2. (Known(m) => Known(m)') /\ (Listed(m) /\ Up(m) /\ boots'[m] = boots[m] => Listed(m)')
    <2>1. ~Unlist(m)
        BY StoreDeviceFrame, StoreDeviceEffect, UnlistEffect
    <2> QED BY <2>1, ManagerStaysListed
<1>3. ListedInv(m)'
    BY <1>2, StoreDeviceFrame, StoreDeviceEffect DEF ListInvAt, ListedInv, DownInv
<1>4. DownInv(m)'
    BY <1>2, StoreDeviceFrame, StoreDeviceEffect DEF ListInvAt, DownInv, Offered, Leaving,
       AtManager, EarlySteps
<1> QED
    BY <1>3, <1>4 DEF ListInvAt

LEMMA CallShutdownListed ==
    ASSUME TypeInv, TypeInv', DeviceInv, ChangingInv, Next,
           NEW m \in Careful, m \in Managers, ListInvAt(m), CallShutdown(m)
    PROVE  ListInvAt(m)'
<1> USE DEF Up
<1>1. DeviceInvAt(m)
    BY DEF DeviceInv
<1>2. (Known(m) => Known(m)') /\ (Listed(m) /\ Up(m) /\ boots'[m] = boots[m] => Listed(m)')
    <2>1. ~Unlist(m)
        BY CallShutdownEffect, UnlistEffect
    <2> QED BY <2>1, ManagerStaysListed
<1>3. ListedInv(m)'
    BY <1>2, CallShutdownEffect DEF ListInvAt, ListedInv, DownInv
<1>4. DownInv(m)'
    <2>1. bootAt[m] \notin EarlySteps
        BY <1>1, CallShutdownEffect DEF DeviceInvAt, MountInv, EarlySteps, DeviceSteps
    <2>2. /\ Offered(m) \subseteq Coming(m) /\ Offered(m)' = Offered(m)
          /\ AtManager(m)' = AtManager(m)
        BY CallShutdownEffect DEF Offered, Coming, DeviceSteps, AtManager
    <2>3. ASSUME m \in Alone
          PROVE  /\ AtManager(m) = InDomain(m) \cup Coming(m)
                 /\ Coming(m) \cap InDomain(m) = {}
        <3>1. Leaving(m) = {}
            BY <2>3, CallShutdownEffect DEF Leaving
        <3> QED BY <1>1, <2>3, <3>1, CallShutdownEffect DEF DeviceInvAt, AgreeInv
    <2>4. m \in Alone /\ bootAt[m] = "storeDevice" => Known(m)
        BY DEF ListInvAt, DownInv
    <2> QED BY <1>2, <2>1, <2>2, <2>3, <2>4, CallShutdownEffect DEF ListInvAt, DownInv
<1> QED
    BY <1>3, <1>4 DEF ListInvAt

LEMMA SnapshotDevicesListed ==
    ASSUME TypeInv, TypeInv', DeviceInv, ChangingInv, Next,
           NEW m \in Careful, m \in Managers, ListInvAt(m), SnapshotDevices(m)
    PROVE  ListInvAt(m)'
<1> USE DEF Up
<1>1. DeviceInvAt(m)
    BY DEF DeviceInv
<1>2. (Known(m) => Known(m)') /\ (Listed(m) /\ Up(m) /\ boots'[m] = boots[m] => Listed(m)')
    <2>1. ~Unlist(m)
        BY SnapshotDevicesEffect, UnlistEffect
    <2> QED BY <2>1, ManagerStaysListed
<1>3. ListedInv(m)'
    BY <1>2, SnapshotDevicesEffect DEF ListInvAt, ListedInv, DownInv
<1>4. DownInv(m)'
    BY <1>2, SnapshotDevicesEffect DEF ListInvAt, DownInv, Offered, Leaving, AtManager
<1> QED
    BY <1>3, <1>4 DEF ListInvAt

LEMMA RemoveDeviceListed ==
    ASSUME TypeInv, TypeInv', DeviceInv, ChangingInv, Next,
           NEW m \in Careful, m \in Managers, ListInvAt(m), RemoveDevice(m)
    PROVE  ListInvAt(m)'
<1> USE DEF Up
<1>1. DeviceInvAt(m)
    BY DEF DeviceInv
<1>2. (Known(m) => Known(m)') /\ (Listed(m) /\ Up(m) /\ boots'[m] = boots[m] => Listed(m)')
    <2>1. ~Unlist(m)
        BY RemoveDeviceFrame, RemoveDeviceEffect, UnlistEffect DEF RemoveDevice, Unlist
    <2> QED BY <2>1, ManagerStaysListed
<1>3. ListedInv(m)'
    BY <1>2, RemoveDeviceFrame, RemoveDeviceEffect DEF ListInvAt, ListedInv, DownInv
<1>4. DownInv(m)'
    BY <1>2, RemoveDeviceFrame, RemoveDeviceEffect DEF ListInvAt, DownInv, Offered, Leaving,
       AtManager
<1> QED
    BY <1>3, <1>4 DEF ListInvAt

LEMMA SearchListListed ==
    ASSUME TypeInv, TypeInv', DeviceInv, ChangingInv, Next,
           NEW m \in Careful, m \in Managers, ListInvAt(m), SearchList(m)
    PROVE  ListInvAt(m)'
<1> USE DEF Up
<1>2. (Known(m) => Known(m)') /\ (Listed(m) /\ Up(m) /\ boots'[m] = boots[m] => Listed(m)')
    <2>1. ~Unlist(m)
        BY SearchListEffect, UnlistEffect
    <2> QED BY <2>1, ManagerStaysListed
<1>3. ListedInv(m)'
    BY <1>2, SearchListEffect DEF ListInvAt, ListedInv, DownInv
<1>4. DownInv(m)'
    <2>1. m \in Alone => InDomain(m) = {} /\ Offered(m) = {}
        BY SearchListEffect, EmptyElements DEF SearchList, ListInvAt, DownInv
    <2>2. InDomain(m)' = InDomain(m) /\ Offered(m)' = Offered(m)
          /\ ToSet(todo[m])' = ToSet(todo[m])
        BY SearchListEffect DEF Offered
    <2> QED BY <1>2, <2>1, <2>2, SearchListEffect DEF ListInvAt, DownInv
<1> QED
    BY <1>3, <1>4 DEF ListInvAt

LEMMA UnlistListed ==
    ASSUME TypeInv, TypeInv', DeviceInv, ChangingInv, Next,
           NEW m \in Careful, m \in Managers, ListInvAt(m), Unlist(m)
    PROVE  ListInvAt(m)'
<1> USE DEF Up
<1>1. DeviceInvAt(m)
    BY DEF DeviceInv
<1>3. ListedInv(m)'
    BY UnlistEffect DEF ListInvAt, ListedInv, DownInv, EarlySteps
<1>4. DownInv(m)'
    <2> SUFFICES ASSUME m \in Alone PROVE DownInv(m)'
        BY UnlistEffect DEF ListInvAt, DownInv, EarlySteps
    <2>1. InDomain(m) = {} /\ Offered(m) = {}
        BY UnlistEffect DEF ListInvAt, DownInv
    <2>2. InDomain(m)' = {} /\ Offered(m)' = {} /\ bootAt'[m] # "storeDevice"
        BY <2>1, UnlistEffect DEF Offered
    <2> QED BY <2>2, UnlistEffect DEF ListInvAt, DownInv
<1> QED
    BY <1>3, <1>4 DEF ListInvAt

LEMMA StartReleaseListed ==
    ASSUME TypeInv, TypeInv', DeviceInv, ChangingInv, Next,
           NEW m \in Careful, m \in Managers, ListInvAt(m), StartRelease(m)
    PROVE  ListInvAt(m)'
<1> USE DEF Up
<1>1. DeviceInvAt(m)
    BY DEF DeviceInv
<1>2. (Known(m) => Known(m)') /\ (Listed(m) /\ Up(m) /\ boots'[m] = boots[m] => Listed(m)')
    <2>1. ~Unlist(m)
        BY StartReleaseEffect, UnlistEffect
    <2> QED BY <2>1, ManagerStaysListed
<1>3. ListedInv(m)'
    BY <1>2, StartReleaseEffect DEF ListInvAt, ListedInv, DownInv
<1>4. DownInv(m)'
    BY <1>2, StartReleaseEffect DEF ListInvAt, DownInv, Offered, Leaving, AtManager
<1> QED
    BY <1>3, <1>4 DEF ListInvAt

LEMMA CallBeginsListed ==
    ASSUME TypeInv, TypeInv', DeviceInv, ChangingInv, Next, NEW m \in Careful, m \in Managers,
           NEW c \in Callers, NEW d \in Devices, ListInvAt(m), CallBegins(m, c, d)
    PROVE  ListInvAt(m)'
<1> USE DEF Up
<1>1. InDomain(m)' = InDomain(m)
    BY CallBeginsDevices
<1>2. (Known(m) => Known(m)') /\ (Listed(m) /\ Up(m) /\ boots'[m] = boots[m] => Listed(m)')
    <2>1. ~Unlist(m)
        BY UnlistEffect DEF CallBegins
    <2> QED BY <2>1, ManagerStaysListed
<1>3. ListedInv(m)'
    BY <1>2 DEF CallBegins, ListInvAt, ListedInv
<1>4. DownInv(m)'
    <2>1. Offered(m)' = Offered(m) /\ AtManager(m)' = AtManager(m)
        BY DEF CallBegins, Offered, AtManager
    <2> QED BY <1>1, <1>2, <2>1 DEF CallBegins, ListInvAt, DownInv
<1> QED
    BY <1>3, <1>4 DEF ListInvAt

LEMMA CallStepListed ==
    ASSUME TypeInv, TypeInv', DeviceInv, ChangingInv, Next, NEW m \in Careful, m \in Managers,
           NEW c \in Callers, NEW u \in UnregCalls, ListInvAt(m), CallStep(m, c, u)
    PROVE  ListInvAt(m)'
<1> USE DEF Up
<1>1. /\ InDomain(m)' \subseteq InDomain(m)
      /\ \/ proc'[m] = proc[m] /\ downAt'[m] = downAt[m]
         \/ proc'[m] = "dead" /\ downAt'[m] = "raised"
      /\ UNCHANGED <<boots, adminState, local, bootAt, bootNth, todo>>
    BY DEF CallStep, TypeInv, Types
<1>2. (Known(m) => Known(m)') /\ (Listed(m) /\ Up(m) /\ boots'[m] = boots[m] => Listed(m)')
    <2>1. ~Unlist(m)
        BY <1>1, UnlistEffect
    <2> QED BY <2>1, ManagerStaysListed
<1>3. ListedInv(m)'
    BY <1>1, <1>2 DEF ListInvAt, ListedInv
<1>4. DownInv(m)'
    <2>1. Offered(m)' = Offered(m) /\ AtManager(m)' = AtManager(m)
          /\ ToSet(todo[m])' = ToSet(todo[m])
        BY <1>1 DEF Offered, AtManager
    <2>2. downAt'[m] # "none" => adminState[m] = "SHUTTING_DOWN"
        <3>1. Bounds /\ DeviceInvAt(m)
            BY DEF TypeInv, DeviceInv
        <3>2. CASE downAt'[m] = downAt[m]
            BY <3>2 DEF ListInvAt, DownInv
        <3>3. CASE downAt'[m] # downAt[m]
            <4>1. downAt[m] = "release"
                BY <3>3, CallEndsAtRelease
            <4> QED BY <4>1 DEF ListInvAt, DownInv
        <3> QED BY <3>2, <3>3
    <2> QED BY <1>1, <1>2, <2>1, <2>2 DEF ListInvAt, DownInv
<1> QED
    BY <1>3, <1>4 DEF ListInvAt

LEMMA ReleaseDeviceListed ==
    ASSUME TypeInv, TypeInv', DeviceInv, ChangingInv, Next,
           NEW m \in Careful, m \in Managers, ListInvAt(m), ReleaseDevice(m)
    PROVE  ListInvAt(m)'
<1> USE DEF Up
<1>1. CASE \E d \in Devices : CallBegins(m, "shutdown", d)
    BY <1>1, CallBeginsListed DEF Callers
<1>2. CASE ~ \E d \in Devices : CallBegins(m, "shutdown", d)
    <2>1. (Known(m) => Known(m)') /\ (Listed(m) /\ Up(m) /\ boots'[m] = boots[m] => Listed(m)')
        <3>1. ~Unlist(m)
            BY ReleaseDeviceIsStep, UnlistEffect
        <3> QED BY <3>1, ManagerStaysListed
    <2>2. ListedInv(m)'
        BY <1>2, <2>1, ReleaseDeviceIsStep DEF ListInvAt, ListedInv
    <2>3. DownInv(m)'
        BY <1>2, <2>1, ReleaseDeviceIsStep DEF ListInvAt, DownInv, Offered, AtManager
    <2> QED BY <2>2, <2>3 DEF ListInvAt
<1> QED
    BY <1>1, <1>2

LEMMA RemoveLocallyListed ==
    ASSUME TypeInv, TypeInv', DeviceInv, ChangingInv, Next,
           NEW m \in Careful, m \in Managers, NEW c \in Callers, ListInvAt(m),
           RemoveLocally(m, c)
    PROVE  ListInvAt(m)'
<1> USE DEF Up
<1>1. DeviceInvAt(m)
    BY DEF DeviceInv
<1>2. (Known(m) => Known(m)') /\ (Listed(m) /\ Up(m) /\ boots'[m] = boots[m] => Listed(m)')
    <2>1. ~Unlist(m)
        BY RemoveLocallyFrame, RemoveLocallyEffect, UnlistEffect
    <2> QED BY <2>1, ManagerStaysListed
<1>3. ListedInv(m)'
    BY <1>2, RemoveLocallyFrame, RemoveLocallyEffect DEF ListInvAt, ListedInv, DownInv
<1>4. DownInv(m)'
    <2>1. m \in Alone => downAt[m] \notin {"snapshot", "remove"}
        <3>1. c = "shutdown" => downAt[m] = "release"
            BY RemoveLocallyEffect DEF TypeInv, Bounds, BoundsOf
        <3>2. m \in Alone /\ c # "shutdown" => downAt[m] \in {"none", "raised", "done"}
            BY <1>1, RemoveLocallyEffect DEF DeviceInvAt, AloneInv, Callers
        <3> QED BY <3>1, <3>2
    <2>2. Offered(m)' = Offered(m)
        BY RemoveLocallyFrame DEF Offered
    <2> QED BY <1>2, <2>1, <2>2, RemoveLocallyFrame, RemoveLocallyEffect DEF ListInvAt, DownInv
<1> QED
    BY <1>3, <1>4 DEF ListInvAt

LEMMA CrashListed ==
    ASSUME TypeInv, TypeInv', DeviceInv, ChangingInv, Next,
           NEW m \in Careful, m \in Managers, ListInvAt(m), Crash(m)
    PROVE  ListInvAt(m)'
<1> USE DEF Up
<1>1. DeviceInvAt(m)
    BY DEF DeviceInv
<1>2. (Known(m) => Known(m)') /\ (Listed(m) /\ Up(m) /\ boots'[m] = boots[m] => Listed(m)')
    <2>1. ~Unlist(m)
        BY CrashEffect, UnlistEffect
    <2> QED BY <2>1, ManagerStaysListed
<1>3. ListedInv(m)'
    BY <1>2, CrashEffect DEF ListInvAt, ListedInv, DownInv
<1>4. DownInv(m)'
    BY <1>2, CrashEffect DEF ListInvAt, DownInv, Offered, Leaving, AtManager
<1> QED
    BY <1>3, <1>4 DEF ListInvAt

LEMMA ListInit == Init => ListInv
<1> SUFFICES ASSUME Init PROVE ListInv
    OBVIOUS
<1>1. \A m \in Managers : InDomain(m) = {}
    BY DEF Init, InDomain, ToSet
<1> QED
    BY <1>1, RegistryBounds DEF Init, ListInv, ListInvAt, ChangingInv, Changing, ListedInv, DownInv, Up

LEMMA ListStep ==
    ASSUME TypeInv, TypeInv', DeviceInv, ListInv, ~Overlap, [Next]_vars
    PROVE  ListInv'
<1>1. ChangingInv /\ ChangingInv'
    BY ChangingStep DEF ListInv
<1> SUFFICES ASSUME NEW c \in Careful PROVE ListInvAt(c)'
    BY <1>1 DEF ListInv
<1>2. c \in Managers /\ ListInvAt(c)
    BY RegistryBounds DEF ListInv
<1>3. CASE SameAt(c)
    BY <1>1, <1>2, <1>3, SameKeepsListed
<1>4. ASSUME ~SameAt(c), Next PROVE ListInvAt(c)'
    <2>1. \/ StartManager(c) \/ CheckManager(c) \/ GrowList(c) \/ StoreManager(c)
          \/ MountFileSystem(c) \/ SetRegistered(c) \/ RegisterLocally(c) \/ ReadAdminState(c)
          \/ CheckItsManager(c) \/ StoreDevice(c) \/ CallShutdown(c) \/ SnapshotDevices(c)
          \/ RemoveDevice(c) \/ SearchList(c) \/ Unlist(c) \/ StartRelease(c)
          \/ ReleaseDevice(c) \/ Crash(c)
          \/ \E e \in Clients, d \in Devices : CallBegins(c, e, d)
          \/ \E e \in Callers : (\E u \in UnregCalls : CallStep(c, e, u)) \/ RemoveLocally(c, e)
        <3>1. ASSUME NEW m \in Managers, m # c PROVE
                  ~(\/ StartManager(m) \/ CheckManager(m) \/ GrowList(m) \/ StoreManager(m)
                    \/ MountFileSystem(m) \/ SetRegistered(m) \/ RegisterLocally(m)
                    \/ ReadAdminState(m) \/ CheckItsManager(m) \/ StoreDevice(m)
                    \/ CallShutdown(m) \/ SnapshotDevices(m) \/ RemoveDevice(m)
                    \/ SearchList(m) \/ Unlist(m) \/ StartRelease(m) \/ Crash(m))
            BY <1>2, <1>4, <3>1, StartManagerEffect, CheckManagerEffect, GrowListEffect,
               StoreManagerEffect, MountFileSystemEffect, SetRegisteredEffect,
               RegisterLocallyFrame, ReadAdminStateEffect, CheckItsManagerEffect,
               StoreDeviceFrame, CallShutdownEffect, SnapshotDevicesEffect, RemoveDeviceFrame,
               SearchListEffect, UnlistEffect, StartReleaseEffect, CrashEffect
        <3>2. ASSUME NEW m \in Managers, m # c PROVE ~ReleaseDevice(m)
            BY <1>2, <1>4, <3>2, ReleaseDeviceIsStep, CallBeginsDevices DEF Callers
        <3>3. ASSUME NEW m \in Managers, NEW e \in Clients, NEW d \in ToSet(local[m]),
                     CallUnregister(m, e, d)
              PROVE  m = c /\ d \in Devices /\ CallBegins(m, e, d)
            BY <1>2, <1>4, <3>3, CallUnregisterBegins, CallBeginsDevices DEF Callers
        <3>4. ASSUME NEW m \in Managers, NEW e \in Callers,
                     SearchDevice(m, e) \/ ChooseWay(m, e) \/ UnregisterAtDomain(m, e)
              PROVE  m = c /\ \E u \in UnregCalls : CallStep(m, e, u)
            <4>1. PICK u \in UnregCalls : CallStep(m, e, u)
                BY <3>4, SearchDeviceIsStep, ChooseWayIsStep, UnregisterAtDomainIsStep
            <4> QED BY <1>2, <1>4, <4>1, CallStepElsewhere
        <3>5. ASSUME NEW m \in Managers, NEW e \in Callers, m # c PROVE ~RemoveLocally(m, e)
            BY <1>2, <1>4, <3>5, RemoveLocallyFrame
        <3> QED BY <1>4, <3>1, <3>2, <3>3, <3>4, <3>5 DEF Next
    <2>2. ASSUME NEW e \in Clients, NEW d \in Devices, CallBegins(c, e, d) PROVE ListInvAt(c)'
        BY <1>1, <1>2, <1>4, <2>2, CallBeginsListed DEF Callers
    <2>3. ASSUME NEW e \in Callers, NEW u \in UnregCalls, CallStep(c, e, u) PROVE ListInvAt(c)'
        BY <1>1, <1>2, <1>4, <2>3, CallStepListed
    <2>4. ASSUME NEW e \in Callers, RemoveLocally(c, e) PROVE ListInvAt(c)'
        BY <1>1, <1>2, <1>4, <2>4, RemoveLocallyListed
    <2> QED
        BY <1>1, <1>2, <1>4, <2>1, <2>2, <2>3, <2>4, StartManagerListed, CheckManagerListed,
           GrowListListed, StoreManagerListed, MountFileSystemListed, SetRegisteredListed,
           RegisterLocallyListed, ReadAdminStateListed, CheckItsManagerListed,
           StoreDeviceListed, CallShutdownListed, SnapshotDevicesListed, RemoveDeviceListed,
           SearchListListed, UnlistListed, StartReleaseListed, ReleaseDeviceListed, CrashListed
<1>5. CASE UNCHANGED vars
    <2>1. SameAt(c)
        BY <1>5 DEF vars, domainVars, processVars, boot, down, SameAt, InDomain
    <2> QED BY <1>3, <2>1
<1> QED
    BY <1>3, <1>4, <1>5

\* While no two calls change the list of managers at once, that list, the mounts and the
\* device list belong together as ListInv says, for the managers that clients
\* treat with care, through boots, shutdowns, crashes and restarts.
THEOREM ListInvariance ==
    ASSUME ~Overlap
    PROVE  Spec => []ListInv
<1>1. TypeInv /\ TypeInv' /\ DeviceInv /\ ListInv /\ [Next]_vars => ListInv'
    BY ListStep
<1> QED
    BY <1>1, ListInit, DevicesInvariance, PTL DEF Spec

\* While no two calls change the list of managers at once, a careful manager
\* whose registration returned is listed and its file system mounted until it
\* is shut down, whatever unlists others.
THEOREM RegisteredListedAlways ==
    ASSUME ~Overlap
    PROVE  Spec => []RegisteredListed
<1>1. DeviceInv /\ ListInv => RegisteredListed
    <2> SUFFICES ASSUME DeviceInv, ListInv, NEW m \in Careful, Up(m), adminState[m] = "REGISTERED"
                 PROVE  Listed(m) /\ m \in mounts
        BY DEF RegisteredListed, RegistrationLost
    <2>1. m \in Managers /\ DeviceInvAt(m) /\ ListInvAt(m)
        BY RegistryBounds DEF DeviceInv, ListInv
    <2>2. Listed(m) /\ downAt[m] = "none"
        BY <2>1 DEF ListInvAt, ListedInv, DownInv
    <2>3. m \in mounts
        BY <2>1, <2>2 DEF DeviceInvAt, MountInv
    <2> QED BY <2>2, <2>3
<1> QED
    BY <1>1, ListInvariance, DevicesInvariance, PTL

\* While no two calls change the list of managers at once, the domain lists no
\* device of a manager it does not list, if clients call that manager one at a
\* time and only when it is registered, whatever happens at others.
THEOREM NoOrphanDeviceAlways ==
    ASSUME ~Overlap
    PROVE  Spec => []NoOrphanDevice
<1>1. ListInv => NoOrphanDevice
    BY DEF ListInv, ListInvAt, DownInv, NoOrphanDevice, OrphanDevice, InDomain, Own
<1> QED
    BY <1>1, ListInvariance, PTL

=============================================================================
