--------------------------- MODULE DomainRegistry ---------------------------
(***************************************************************************)
(* The two registries of the core framework (src/sca/ossie-sca): what the  *)
(* domain manager knows of device managers and devices, and what each      *)
(* device manager knows of its own devices.  They are kept equal by remote *)
(* calls, with no lock on either side: the boot thread of a device manager *)
(* (DeviceManager_impl::post_constructor), a client's shutdown and the     *)
(* unregisterDevice calls of several clients interleave at every remote    *)
(* call, those for the labels of the entries of a list included.           *)
(*                                                                         *)
(* Devices and device managers are known by their labels and identifiers,  *)
(* here one name each, and the devices' processes do not die.  A dead      *)
(* device manager answers nothing: asking it anything raises.  Services    *)
(* and the connections of devices to services are left out.  The domain    *)
(* manager's calls on its list of devices are taken one at a time: each    *)
(* is a step.                                                              *)
(*                                                                         *)
(* An exception a function does not declare ends its process.              *)
(***************************************************************************)
EXTENDS Naturals, Sequences, SequencesExt, FiniteSetsExt

CONSTANTS
    Managers,       \* device managers, one per node
    Devices,        \* devices
    Devs,           \* per manager, the devices of its DCD, in order
    MayCrash,       \* the managers whose process may die
    Clients,        \* the callers of unregisterDevice
    Careful,        \* the managers that clients shut down, and whose devices they
                    \* unregister, only while it is registered
    Alone,          \* the managers that serve one call of a client at a time
    Overlap,        \* two calls may change the list of managers at once
    MaxBoots,       \* bound: how often each manager's process is started
    MaxCalls,       \* bound: unregisterDevice calls of clients per manager
    Nil             \* the nil object reference

ASSUME NodeAssumption ==
    /\ Devs \in [Managers -> Seq(Devices)]
    /\ \A m, n \in Managers : \A i \in DOMAIN Devs[m], j \in DOMAIN Devs[n] :
           Devs[m][i] = Devs[n][j] => m = n /\ i = j
ASSUME NilIsNoReference == \A m \in Managers : Nil \notin {m} \X (1 .. MaxBoots[m])
ASSUME RegistryBounds ==
    /\ MaxBoots \in [Managers -> Nat] /\ MaxCalls \in Nat
    /\ Careful \subseteq Managers /\ Alone \subseteq Managers /\ MayCrash \subseteq Managers
    /\ Overlap \in BOOLEAN
ASSUME ShutdownIsNoClient == "shutdown" \notin Clients

VARIABLES
    (* the domain manager *)
    dmn,                \* "up", or the exception that ended it
    deviceManagers,     \* references to device managers: <<manager, process>>
    registeredDevices,  \* the devices of all of them
    mounts,             \* the managers whose file system is mounted
    (* the device managers *)
    proc, boots,        \* process state, and how often it was started
    adminState,         \* _adminState; the constructor leaves it unset
    local,              \* _registeredDevices of each manager
    bootAt, bootNth,    \* its boot thread, and the device of the DCD it is at
    bootEntry,          \* the entry of deviceManagers it is being compared with
    downAt, todo, releasing, \* the shutdown call it serves: where it is, the devices
                        \* unregisterDeviceManager still removes, the loop's index
    downEntry,          \* the entry of deviceManagers it is being compared with
    unreg,              \* the unregisterDevice call it serves each caller: where it
                        \* is, the device, and the index in local
    calls               \* how many of them for clients so far

domainVars == <<dmn, deviceManagers, registeredDevices, mounts>>
processVars == <<proc, boots>>
boot == <<bootAt, bootNth, bootEntry>>
down == <<downAt, todo, releasing, downEntry>>
vars == <<domainVars, processVars, adminState, local, boot, down, unreg, calls>>

\* shutdown calls unregisterDevice too.
Callers == Clients \cup {"shutdown"}
NoCall == [at |-> "none", device |-> Nil, nth |-> 0]

Init ==
    /\ dmn = "up"
    /\ deviceManagers = << >>
    /\ registeredDevices = << >>
    /\ mounts = {}
    /\ proc = [m \in Managers |-> "off"]
    /\ boots = [m \in Managers |-> 0]
    /\ adminState = [m \in Managers |-> "unset"]
    /\ local = [m \in Managers |-> << >>]
    /\ bootAt = [m \in Managers |-> "off"]
    /\ bootNth = [m \in Managers |-> 1]
    /\ bootEntry = [m \in Managers |-> 1]
    /\ downAt = [m \in Managers |-> "none"]
    /\ todo = [m \in Managers |-> << >>]
    /\ releasing = [m \in Managers |-> 0]
    /\ downEntry = [m \in Managers |-> 1]
    /\ unreg = [m \in Managers |-> [c \in Callers |-> NoCall]]
    /\ calls = [m \in Managers |-> 0]

Up(m) == proc[m] = "up"
Die(m) == proc' = [proc EXCEPT ![m] = "dead"]
Without(seq, x) == RemoveFirst(seq, x)

\* The reference the running process of m goes by, and whether one answers.
Reference(m) == <<m, boots[m]>>
Answers(ref) == ref # Nil /\ Up(ref[1]) /\ boots[ref[1]] = ref[2]

\* What a loop over _deviceManagers that looks for m does at entry i, when it
\* has asked both for their labels.  The calls of others may change the list
\* before it is at the next entry.
Meets(m, i) ==
    IF i \notin DOMAIN deviceManagers THEN "end"
    ELSE IF ~Answers(deviceManagers[i]) \/ ~Up(m) THEN "raise"
    ELSE IF deviceManagers[i][1] = m THEN "found" ELSE "next"

\* The calls that are to change the list at a place they have settled on.
Changing == {m \in Managers : bootAt[m] = "store" \/ downAt[m] = "shift"}
MayChange == Overlap \/ Changing = {}

\* What the loop that moves the later entries up leaves, at the index i: with
\* none there, the last entry goes.
Shifted(seq, i) == IF i \in DOMAIN seq THEN RemoveAt(seq, i) ELSE Front(seq)

-----------------------------------------------------------------------------
(* The boot thread: registerDeviceManager at the domain manager, then the  *)
(* devices of the DCD one after the other.                                 *)

BootAt(m, step) ==
    /\ bootAt' = [bootAt EXCEPT ![m] = step]
    /\ bootEntry' = [bootEntry EXCEPT ![m] = 1]
    /\ UNCHANGED bootNth
NextEntry(m) ==
    /\ bootEntry' = [bootEntry EXCEPT ![m] = @ + 1]
    /\ UNCHANGED <<bootAt, bootNth>>
NextDevice(m) ==
    /\ bootAt' = [bootAt EXCEPT ![m] = "launch"]
    /\ bootNth' = [bootNth EXCEPT ![m] = @ + 1]
    /\ UNCHANGED bootEntry

\* The shutdown call goes on at the given step, or ends.
DownAt(m, step) == downAt' = [downAt EXCEPT ![m] = step]

\* The unregisterDevice call of c goes on at the given step, or ends.
UnregAt(m, c, step) == unreg' = [unreg EXCEPT ![m][c].at = step]
EndUnregister(m, c) == unreg' = [unreg EXCEPT ![m][c] = NoCall]

\* What a process has asked the domain manager for goes on without it.
AtDomain(m) ==
    \/ bootAt[m] \in {"grow", "store", "mount", "storeDevice"}
    \/ downAt[m] \in {"remove", "shift"}
    \/ \E c \in Callers : unreg[m][c].at = "domain"

StartManager(m) ==
    /\ ~Up(m) /\ boots[m] < MaxBoots[m] /\ ~AtDomain(m)
    /\ proc' = [proc EXCEPT ![m] = "up"]
    /\ boots' = [boots EXCEPT ![m] = @ + 1]
    /\ adminState' = [adminState EXCEPT ![m] = "unset"]
    /\ local' = [local EXCEPT ![m] = << >>]
    /\ bootAt' = [bootAt EXCEPT ![m] = "check"]
    /\ bootNth' = [bootNth EXCEPT ![m] = 1]
    /\ bootEntry' = [bootEntry EXCEPT ![m] = 1]
    /\ DownAt(m, "none")
    /\ todo' = [todo EXCEPT ![m] = << >>]
    /\ releasing' = [releasing EXCEPT ![m] = 0]
    /\ downEntry' = [downEntry EXCEPT ![m] = 1]
    /\ unreg' = [unreg EXCEPT ![m] = [c \in Callers |-> NoCall]]
    /\ UNCHANGED <<domainVars, calls>>

\* addDeviceMgr: a manager that is not met in the list is added.
CheckManager(m) ==
    /\ dmn = "up" /\ Up(m) /\ bootAt[m] = "check"
    /\ \/ Meets(m, bootEntry[m]) = "raise" /\ Die(m) /\ UNCHANGED boot
       \/ Meets(m, bootEntry[m]) = "next" /\ NextEntry(m) /\ UNCHANGED proc
       \/ /\ Meets(m, bootEntry[m]) \in {"end", "found"}
          /\ BootAt(m, IF Meets(m, bootEntry[m]) = "end" THEN "grow" ELSE "mount")
          /\ UNCHANGED proc
    /\ UNCHANGED <<domainVars, boots, adminState, local, down, unreg, calls>>

\* _deviceManagers.length (_deviceManagers.length () + 1)
GrowList(m) ==
    /\ dmn = "up" /\ bootAt[m] = "grow"
    /\ MayChange
    /\ deviceManagers' = Append(deviceManagers, Nil)
    /\ BootAt(m, "store")
    /\ UNCHANGED <<dmn, registeredDevices, mounts, processVars, adminState, local,
                   down, unreg, calls>>

\* Fault: the first entry instead of the last.
StoreFirst(m) ==
    /\ dmn = "up" /\ bootAt[m] = "store"
    /\ deviceManagers' = [deviceManagers EXCEPT ![1] = Reference(m)]
    /\ BootAt(m, "mount")
    /\ UNCHANGED <<dmn, registeredDevices, mounts, processVars, adminState, local,
                   down, unreg, calls>>

\* _deviceManagers[_deviceManagers.length () - 1] = deviceMgr
StoreManager(m) ==
    /\ dmn = "up" /\ bootAt[m] = "store"
    /\ deviceManagers' = [deviceManagers EXCEPT ![Len(deviceManagers)] = Reference(m)]
    /\ BootAt(m, "mount")
    /\ UNCHANGED <<dmn, registeredDevices, mounts, processVars, adminState, local,
                   down, unreg, calls>>

\* Fault: a mount point without the manager's label.
MountAtRoot(m) ==
    /\ dmn = "up" /\ bootAt[m] = "mount"
    /\ \/ ~Up(m) /\ BootAt(m, "off") /\ UNCHANGED <<dmn, mounts>>
       \/ Up(m) /\ mounts # {} /\ dmn' = "MountPointAlreadyExists" /\ UNCHANGED <<mounts, boot>>
       \/ Up(m) /\ mounts = {} /\ mounts' = mounts \cup {m}
          /\ BootAt(m, "registered") /\ UNCHANGED dmn
    /\ UNCHANGED <<deviceManagers, registeredDevices, processVars, adminState, local,
                   down, unreg, calls>>

\* registerDeviceManager mounts the file system, and returns: a manager has
\* no device or service yet when it registers.  Nothing is ever unmounted,
\* and registerDeviceManager does not declare what mount throws.
MountFileSystem(m) ==
    /\ dmn = "up" /\ bootAt[m] = "mount"
    /\ \/ ~Up(m) /\ BootAt(m, "off") /\ UNCHANGED <<dmn, mounts>>
       \/ Up(m) /\ m \in mounts /\ dmn' = "MountPointAlreadyExists" /\ UNCHANGED <<mounts, boot>>
       \/ Up(m) /\ m \notin mounts /\ mounts' = mounts \cup {m}
          /\ BootAt(m, "registered") /\ UNCHANGED dmn
    /\ UNCHANGED <<deviceManagers, registeredDevices, processVars, adminState, local,
                   down, unreg, calls>>

SetRegistered(m) ==
    /\ Up(m) /\ bootAt[m] = "registered"
    /\ adminState' = [adminState EXCEPT ![m] = "REGISTERED"]
    /\ BootAt(m, "launch")
    /\ UNCHANGED <<domainVars, processVars, local, down, unreg, calls>>

\* Fault: the new device becomes the first.
RegisterInFront(m) ==
    /\ Up(m) /\ bootAt[m] = "launch" /\ bootNth[m] <= Len(Devs[m])
    /\ LET d == Devs[m][bootNth[m]]
       IN  local' = [local EXCEPT ![m] = IF Contains(@, d) THEN @ ELSE <<d>> \o @]
    /\ BootAt(m, "adminState")
    /\ UNCHANGED <<domainVars, processVars, adminState, down, unreg, calls>>

\* The device's process is up and has bound its name; registerDevice adds it.
RegisterLocally(m) ==
    /\ Up(m) /\ bootAt[m] = "launch" /\ bootNth[m] <= Len(Devs[m])
    /\ LET d == Devs[m][bootNth[m]]
       IN  local' = [local EXCEPT ![m] = IF Contains(@, d) THEN @ ELSE Append(@, d)]
    /\ BootAt(m, "adminState")
    /\ UNCHANGED <<domainVars, processVars, adminState, down, unreg, calls>>

ReadAdminState(m) ==
    /\ Up(m) /\ bootAt[m] = "adminState"
    /\ \/ adminState[m] = "REGISTERED" /\ BootAt(m, "checkManager")
       \/ adminState[m] # "REGISTERED" /\ NextDevice(m)
    /\ UNCHANGED <<domainVars, processVars, adminState, local, down, unreg, calls>>

\* DomainManager_impl::registerDevice: a manager that is not registered gets
\* an exception DeviceManager_impl::registerDevice does not declare.
CheckItsManager(m) ==
    /\ dmn = "up" /\ Up(m) /\ bootAt[m] = "checkManager"
    /\ \/ Meets(m, bootEntry[m]) = "found" /\ BootAt(m, "storeDevice") /\ UNCHANGED proc
       \/ Meets(m, bootEntry[m]) = "next" /\ NextEntry(m) /\ UNCHANGED proc
       \/ Meets(m, bootEntry[m]) \in {"end", "raise"} /\ Die(m) /\ UNCHANGED boot
    /\ UNCHANGED <<domainVars, boots, adminState, local, down, unreg, calls>>

StoreDevice(m) ==
    /\ dmn = "up" /\ bootAt[m] = "storeDevice"
    /\ LET d == Devs[m][bootNth[m]]
       IN  registeredDevices' = IF Contains(registeredDevices, d) THEN registeredDevices
                                ELSE Append(registeredDevices, d)
    /\ NextDevice(m)
    /\ UNCHANGED <<dmn, deviceManagers, mounts, processVars, adminState, local,
                   down, unreg, calls>>

-----------------------------------------------------------------------------
(* DeviceManager_impl::shutdown, called by a client that found the manager *)
(* in the domain's list.                                                   *)

Listed(m) == Contains(deviceManagers, Reference(m))
Serving(m) == \/ downAt[m] \notin {"none", "raised", "done"}
              \/ \E c \in Callers : unreg[m][c].at # "none"
Invites(m) ==
    /\ Up(m) /\ Listed(m)
    /\ m \in Careful => adminState[m] = "REGISTERED"
    /\ m \in Alone => ~Serving(m)

\* Fault: _adminState is left alone.
CallShutdownUnflagged(m) ==
    /\ Invites(m) /\ downAt[m] = "none"
    /\ DownAt(m, "snapshot") /\ UNCHANGED <<todo, releasing, downEntry>>
    /\ UNCHANGED <<domainVars, processVars, adminState, local, boot, unreg, calls>>

CallShutdown(m) ==
    /\ Invites(m) /\ downAt[m] = "none"
    /\ adminState' = [adminState EXCEPT ![m] = "SHUTTING_DOWN"]
    /\ DownAt(m, "snapshot") /\ UNCHANGED <<todo, releasing, downEntry>>
    /\ UNCHANGED <<domainVars, processVars, local, boot, unreg, calls>>

\* unregisterDeviceManager asks the manager for its devices ...
SnapshotDevices(m) ==
    /\ dmn = "up" /\ Up(m) /\ downAt[m] = "snapshot"
    /\ DownAt(m, "remove")
    /\ todo' = [todo EXCEPT ![m] = local[m]] /\ UNCHANGED <<releasing, downEntry>>
    /\ UNCHANGED <<domainVars, processVars, adminState, local, boot, unreg, calls>>

\* ... removes each, raising what shutdown does not declare for one it does
\* not know ...
RemoveDevice(m) ==
    /\ dmn = "up" /\ downAt[m] = "remove" /\ todo[m] # << >>
    /\ LET d == Head(todo[m])
       IN  \/ /\ Contains(registeredDevices, d)
              /\ registeredDevices' = Without(registeredDevices, d)
              /\ todo' = [todo EXCEPT ![m] = Tail(@)]
              /\ UNCHANGED <<downAt, proc>>
           \/ /\ ~Contains(registeredDevices, d)
              /\ DownAt(m, "raised")
              /\ Die(m) /\ UNCHANGED <<registeredDevices, todo>>
    /\ UNCHANGED <<dmn, deviceManagers, mounts, boots, adminState, local, boot,
                   releasing, downEntry, unreg, calls>>

\* ... looks for the manager in its list ...
SearchList(m) ==
    /\ dmn = "up" /\ downAt[m] = "remove" /\ todo[m] = << >>
    /\ \/ Meets(m, downEntry[m]) = "next"
          /\ downEntry' = [downEntry EXCEPT ![m] = @ + 1] /\ UNCHANGED downAt
       \/ Meets(m, downEntry[m]) = "raise" /\ DownAt(m, "raised") /\ UNCHANGED downEntry
       \/ Meets(m, downEntry[m]) = "end" /\ DownAt(m, "unlisted") /\ UNCHANGED downEntry
       \/ Meets(m, downEntry[m]) = "found" /\ MayChange
          /\ DownAt(m, "shift") /\ UNCHANGED downEntry
    /\ UNCHANGED <<domainVars, processVars, adminState, local, boot, todo, releasing,
                   unreg, calls>>


\* ... and takes the entry off at the index where it met the manager.  No more
\* entries go than were stored, so the list is not empty here.
Unlist(m) ==
    /\ dmn = "up" /\ downAt[m] = "shift"
    /\ deviceManagers' = Shifted(deviceManagers, downEntry[m])
    /\ DownAt(m, "unlisted")
    /\ UNCHANGED <<dmn, registeredDevices, mounts, processVars, adminState, local,
                   boot, todo, releasing, downEntry, unreg, calls>>

\* Fault: the loop starts one past the last device.
StartReleasePastEnd(m) ==
    /\ Up(m) /\ downAt[m] = "unlisted"
    /\ DownAt(m, "release")
    /\ releasing' = [releasing EXCEPT ![m] = Len(local[m]) + 1]
    /\ UNCHANGED <<todo, downEntry>>
    /\ UNCHANGED <<domainVars, processVars, adminState, local, boot, unreg, calls>>

StartRelease(m) ==
    /\ Up(m) /\ downAt[m] = "unlisted"
    /\ DownAt(m, "release")
    /\ releasing' = [releasing EXCEPT ![m] = Len(local[m])] /\ UNCHANGED <<todo, downEntry>>
    /\ UNCHANGED <<domainVars, processVars, adminState, local, boot, unreg, calls>>

\* From the last device to the first: unregisterDevice, then releaseObject.
\* An index past the end raises or ends the process.
ReleaseDevice(m) ==
    /\ Up(m) /\ downAt[m] = "release" /\ unreg[m]["shutdown"].at = "none"
    /\ \/ releasing[m] = 0 /\ DownAt(m, "done") /\ UNCHANGED <<proc, unreg>>
       \/ /\ releasing[m] > Len(local[m])
          /\ DownAt(m, "raised")
          /\ Die(m) \/ UNCHANGED proc
          /\ UNCHANGED unreg
       \/ /\ releasing[m] \in DOMAIN local[m]
          /\ unreg' = [unreg EXCEPT ![m]["shutdown"] =
                          [at |-> "search", device |-> local[m][releasing[m]], nth |-> 1]]
          /\ UNCHANGED <<downAt, proc>>
    /\ UNCHANGED <<domainVars, boots, adminState, local, boot, todo, releasing,
                   downEntry, calls>>

-----------------------------------------------------------------------------
(* DeviceManager_impl::unregisterDevice, called by clients and by shutdown *)

CallUnregister(m, c, d) ==
    /\ Invites(m) /\ unreg[m][c].at = "none" /\ calls[m] < MaxCalls
    /\ unreg' = [unreg EXCEPT ![m][c] = [at |-> "search", device |-> d, nth |-> 1]]
    /\ calls' = [calls EXCEPT ![m] = @ + 1]
    /\ UNCHANGED <<domainVars, processVars, adminState, local, boot, down>>

\* The exception reaches the client, or ends shutdown, which does not declare it.
Refuse(m, c) ==
    /\ EndUnregister(m, c)
    /\ IF c = "shutdown" THEN Die(m) /\ DownAt(m, "raised") ELSE UNCHANGED <<proc, downAt>>

\* The next device of the list is asked for its label.
SearchDevice(m, c) ==
    /\ Up(m) /\ unreg[m][c].at = "search"
    /\ LET i == unreg[m][c].nth
       IN  \/ /\ i \in DOMAIN local[m] /\ local[m][i] = unreg[m][c].device
              /\ UnregAt(m, c, "found") /\ UNCHANGED <<proc, downAt>>
           \/ /\ i \in DOMAIN local[m] /\ local[m][i] # unreg[m][c].device
              /\ unreg' = [unreg EXCEPT ![m][c].nth = @ + 1] /\ UNCHANGED <<proc, downAt>>
           \/ i \notin DOMAIN local[m] /\ Refuse(m, c)
    /\ UNCHANGED <<domainVars, boots, adminState, local, boot, todo, releasing, downEntry,
                   calls>>

\* The domain manager is asked first, unless the manager is shutting down.
ChooseWay(m, c) ==
    /\ Up(m) /\ unreg[m][c].at = "found"
    /\ UnregAt(m, c, IF adminState[m] = "REGISTERED" THEN "domain" ELSE "local")
    /\ UNCHANGED <<domainVars, processVars, adminState, local, boot, down, calls>>

\* A device the domain does not know raises.
UnregisterAtDomain(m, c) ==
    /\ dmn = "up" /\ unreg[m][c].at = "domain"
    /\ \/ /\ Contains(registeredDevices, unreg[m][c].device)
          /\ registeredDevices' = Without(registeredDevices, unreg[m][c].device)
          /\ UnregAt(m, c, "local") /\ UNCHANGED <<proc, downAt>>
       \/ /\ ~Contains(registeredDevices, unreg[m][c].device)
          /\ Refuse(m, c) /\ UNCHANGED registeredDevices
    /\ UNCHANGED <<dmn, deviceManagers, mounts, boots, adminState, local, boot, todo,
                   releasing, downEntry, calls>>

\* The call returns; the loop of shutdown goes on.
Return(m, c) ==
    /\ EndUnregister(m, c)
    /\ releasing' = IF c = "shutdown" THEN [releasing EXCEPT ![m] = @ - 1] ELSE releasing

\* Fault: the last device goes, whichever was found.
RemoveLast(m, c) ==
    /\ Up(m) /\ unreg[m][c].at = "local"
    /\ \/ local[m] = << >> /\ Die(m) /\ EndUnregister(m, c) /\ UNCHANGED <<local, releasing>>
       \/ /\ local[m] # << >> /\ local' = [local EXCEPT ![m] = Front(@)]
          /\ Return(m, c) /\ UNCHANGED proc
    /\ UNCHANGED <<domainVars, boots, adminState, boot, downAt, todo, downEntry, calls>>

\* The devices behind the index found move up and the last place goes.  With no
\* device left, length () - 1 wraps and the loop runs away.
RemoveLocally(m, c) ==
    /\ Up(m) /\ unreg[m][c].at = "local"
    /\ \/ local[m] = << >> /\ Die(m) /\ EndUnregister(m, c) /\ UNCHANGED <<local, releasing>>
       \/ /\ local[m] # << >>
          /\ local' = [local EXCEPT ![m] = Shifted(@, unreg[m][c].nth)]
          /\ Return(m, c) /\ UNCHANGED proc
    /\ UNCHANGED <<domainVars, boots, adminState, boot, downAt, todo, downEntry, calls>>

-----------------------------------------------------------------------------

Crash(m) ==
    /\ m \in MayCrash /\ Up(m)
    /\ Die(m)
    /\ UNCHANGED <<domainVars, boots, adminState, local, boot, down, unreg, calls>>

Next ==
    \E m \in Managers :
        \/ StartManager(m) \/ CheckManager(m) \/ GrowList(m) \/ StoreManager(m)
        \/ MountFileSystem(m) \/ SetRegistered(m) \/ RegisterLocally(m) \/ ReadAdminState(m)
        \/ CheckItsManager(m) \/ StoreDevice(m)
        \/ CallShutdown(m) \/ SnapshotDevices(m) \/ RemoveDevice(m) \/ SearchList(m)
        \/ Unlist(m) \/ StartRelease(m) \/ ReleaseDevice(m)
        \/ \E c \in Clients, d \in ToSet(local[m]) : CallUnregister(m, c, d)
        \/ \E c \in Callers : \/ SearchDevice(m, c) \/ ChooseWay(m, c)
                              \/ UnregisterAtDomain(m, c) \/ RemoveLocally(m, c)
        \/ Crash(m)

Spec == Init /\ [][Next]_vars

-----------------------------------------------------------------------------
(* Properties                                                              *)

Refs == {Nil} \cup UNION {{m} \X (1 .. MaxBoots[m]) : m \in Managers}
BootSteps == {"off", "check", "grow", "store", "mount", "registered", "launch",
              "adminState", "checkManager", "storeDevice"}
DownSteps == {"none", "snapshot", "remove", "shift", "unlisted", "release", "raised", "done"}
UnregSteps == {"none", "search", "found", "domain", "local"}

\* Every variable has its type; indices stay where the code may use them.
TypeOK ==
    /\ dmn \in {"up", "MountPointAlreadyExists"}
    /\ deviceManagers \in Seq(Refs)
    /\ registeredDevices \in Seq(Devices)
    /\ mounts \subseteq Managers
    /\ proc \in [Managers -> {"off", "up", "dead"}]
    /\ \A m \in Managers : boots[m] \in 0 .. MaxBoots[m] /\ calls[m] \in 0 .. MaxCalls
    /\ adminState \in [Managers -> {"unset", "REGISTERED", "SHUTTING_DOWN"}]
    /\ local \in [Managers -> Seq(Devices)]
    /\ \A m \in Managers :
           /\ bootAt[m] \in BootSteps /\ bootNth[m] \in 1 .. (Len(Devs[m]) + 1)
           /\ bootAt[m] \in {"adminState", "checkManager", "storeDevice"} =>
                  bootNth[m] \in DOMAIN Devs[m]
           /\ downAt[m] \in DownSteps
           /\ bootEntry[m] \in Nat \ {0} /\ downEntry[m] \in Nat \ {0}
           /\ todo[m] \in Seq(Devices) /\ releasing[m] \in 0 .. Len(Devs[m])
           /\ \A c \in Callers : LET u == unreg[m][c]
                  IN  /\ u.at \in UnregSteps
                      /\ u.at # "none" => u.device \in Devices /\ u.nth \in 1 .. (Len(Devs[m]) + 1)
                      /\ u.at \in {"found", "domain", "local"} => u.nth \in DOMAIN Devs[m]

Known(m) == \E k \in DOMAIN deviceManagers :
                deviceManagers[k] # Nil /\ deviceManagers[k][1] = m

OrphanDevice(m) == ToSet(registeredDevices) \cap ToSet(Devs[m]) # {} /\ ~Known(m)

\* However the boot thread of a manager, its death and the calls of clients
\* follow each other, and whatever happens at other managers, the domain never
\* lists a device of a manager it does not list, if clients call that manager
\* one at a time and only when it is registered.
NoOrphanDevice == \A m \in Careful \cap Alone : ~OrphanDevice(m)

\* DomainManager_impl.cpp:385: unregistering a device manager "shall release
\* all device(s) associated with the DeviceManager that is being unregistered".
ReleasesDevices == \A m \in Managers : ~OrphanDevice(m)

RegistrationLost(m) ==
    dmn = "up" /\ Up(m) /\ adminState[m] = "REGISTERED" /\ ~(Listed(m) /\ m \in mounts)

\* DomainManager_impl.cpp:207: registerDeviceManager adds the "device manager
\* to list": one whose registration returned is listed and its file system
\* mounted until it is shut down.
RegisteredListed == \A m \in Careful : ~RegistrationLost(m)

\* Between two calls, the domain and a manager that clients call one at a time
\* agree on its devices.
RegistriesAgree ==
    \A m \in Alone :
        (/\ Up(m) /\ adminState[m] = "REGISTERED"
         /\ bootAt[m] = "launch" /\ downAt[m] = "none"
         /\ \A c \in Callers : unreg[m][c].at = "none")
        => ToSet(registeredDevices) \cap ToSet(Devs[m]) = ToSet(local[m])

\* The index unregisterDevice found before its remote calls still is the
\* device's index after them, whatever the boot thread registers meanwhile, if
\* clients call the manager one at a time.
IndexStaysValid ==
    \A m \in Alone : \A c \in Callers :
        (Up(m) /\ unreg[m][c].at \in {"found", "domain", "local"}) =>
            /\ unreg[m][c].nth \in DOMAIN local[m]
            /\ local[m][unreg[m][c].nth] = unreg[m][c].device

\* DeviceManager_impl.cpp:417: unregisterDevice "shall remove the input
\* registeredDevice from the DeviceManagers registeredDevices attribute".
RemovesItsDevice ==
    [][\A m \in Managers, c \in Callers :
           unreg[m][c].at = "local" /\ unreg'[m][c].at = "none" /\ Up(m)' =>
               ~Contains(local'[m], unreg[m][c].device)]_vars


\* A registration ends the domain manager only when a manager comes back.
OnlyReturnAborts == dmn # "up" => \E m \in Managers : boots[m] > 1
=============================================================================
