----------------------------- MODULE FileManager -----------------------------
(***************************************************************************)
(* The file manager of the domain manager, and the file systems mounted in *)
(* it (src/sca/ossie-sca/trunk/framework: FileManager_impl, FileSystem_impl*)
(* and File_impl).  Every client is served by a thread of its own and the  *)
(* mount table has no lock; a client's call is a sequence of local steps   *)
(* on the table and of remote calls on file systems, which live on other   *)
(* nodes and may be gone.                                                  *)
(*                                                                         *)
(* A name is the sequence of its elements after the leading "/".  A file   *)
(* system keeps a directory (what each local path is) apart from the data  *)
(* (what the bytes of each file are), so a file that is open outlives its  *)
(* name.  One remote call is one step of its file system, except rmdir,    *)
(* which walks the tree twice.                                             *)
(*                                                                         *)
(* Names are valid ones; files and directories have different names.       *)
(* exists, list, query and getMounts change nothing and are left out.  A   *)
(* device may fail to make a file, may read less than it was asked for and *)
(* take less than it was given, and often nobody is told; a file that      *)
(* exists can be opened.                                                   *)
(***************************************************************************)
EXTENDS Naturals, Sequences, SequencesExt, FiniteSetsExt

CONSTANTS
    Clients,        \* threads of the file manager, one per client
    FileSystems,
    Points,         \* mount points clients ask for
    FileNames,      \* names of files, as clients of the file manager write them
    DirNames,       \* names of directories
    Initially,      \* per file system, what each local path is at first
    InitialData,    \* what the files that exist at first hold
    Block,          \* what clients write
    Own,            \* the file system in the domain manager's own process
    MayDie,         \* the file systems whose node may go away
    Does,           \* per client, the operations it asks for
    MaxCalls,       \* bound: calls of each client
    Nothing, Directory  \* a local path that is no file: it is absent, or a directory

Root == << >>
Elements == UNION {Range(n) : n \in FileNames \cup DirNames \cup Points}
Parts(names) == UNION {Prefixes(s) : s \in UNION {Suffixes(n) : n \in names}}
LocalPaths == Parts(FileNames \cup DirNames) \cup {Root}
FilePaths == (UNION {Suffixes(n) : n \in FileNames}) \ {Root}
Byte == Block \cup UNION {Range(d) : d \in Range(InitialData)}
Operations == {"mount", "unmount", "remove", "copy", "create", "open", "mkdir", "rmdir"}

ASSUME NameAssumption ==    \* no name is a file's here and a directory's there
    /\ FileNames \cup DirNames \cup Points \subseteq Seq(Elements)
    /\ Root \in Points /\ Root \notin FileNames
    /\ FilePaths \cap Parts(DirNames \cup Points) = {}
ASSUME DiskAssumption ==    \* no two names are those of one file
    /\ InitialData \in Seq(Seq(Byte))
    /\ Initially \in [FileSystems -> [LocalPaths -> DOMAIN InitialData \cup {Nothing, Directory}]]
    /\ \A f \in FileSystems : Initially[f][Root] = Directory
    /\ \A f \in FileSystems, p \in FilePaths : Initially[f][p] # Directory
    /\ \A f, g \in FileSystems, p, q \in LocalPaths :
           Initially[f][p] = Initially[g][q] /\ <<f, p>> # <<g, q>>
               => Initially[f][p] \in {Nothing, Directory}
ASSUME MarkAssumption ==
    Nothing # Directory /\ Nothing \notin Nat \cup Points /\ Directory \notin Nat
ASSUME FileManagerBounds ==
    /\ IsFiniteSet(Clients) /\ MaxCalls \in [Clients -> Nat]
    /\ Does \in [Clients -> SUBSET Operations]
    /\ MayDie \subseteq FileSystems /\ Own \in FileSystems

VARIABLES
    numMounts, mount_table,     \* the mount table, and how long it should be
    node,           \* per file system and local path: Nothing, Directory or a file
    data,           \* the bytes of each file
    down,           \* file systems whose node has gone away
    call, calls,    \* per client: the call it is in, or its last; how many so far
    granted         \* history: what clients were told is mounted

tableVars == <<numMounts, mount_table, granted>>
diskVars == <<node, data, down>>
vars == <<tableVars, diskVars, call, calls>>

Empty == [mountPoint |-> Nothing, fs |-> Nothing]   \* a fresh entry of the table

-----------------------------------------------------------------------------
(* Names and mount points.                                                 *)

\* pathMatches: how many leading elements a path and a mount point have in
\* common, "/" being the first of both.
Shared(path, point) ==
    Max({k \in 0 .. Min({Len(path), Len(point)}) : SubSeq(path, 1, k) = SubSeq(point, 1, k)})
pathMatches(path, entry) == IF entry = Empty THEN 0 ELSE 1 + Shared(path, entry.mountPoint)

\* Fault: a later entry that matches as well is preferred.
LastOfEqual(table, path) ==
    LET matches == [i \in DOMAIN table |-> pathMatches(path, table[i])]
    IN  Max({i \in DOMAIN table : matches[i] = Max(Range(matches))})

\* getFSandFSPath: the first entry that has most elements in common.
getFS(table, path) ==
    LET matches == [i \in DOMAIN table |-> pathMatches(path, table[i])]
    IN  Min({i \in DOMAIN table : matches[i] = Max(Range(matches))})
getFSPath(table, path) ==
    LET entry == table[getFS(table, path)]
        matched == IF entry = Empty THEN 0 ELSE Shared(path, entry.mountPoint)
    IN  SubSeq(path, matched + 1, Len(path))

\* What a name should denote: the longest mount point above it decides.
Above(table, path) ==
    {i \in DOMAIN table : table[i] # Empty /\ IsPrefix(table[i].mountPoint, path)}
Denotes(table, path) ==
    LET best == CHOOSE i \in Above(table, path) : \A j \in Above(table, path) :
                    Len(table[j].mountPoint) <= Len(table[i].mountPoint)
    IN  <<table[best].fs, SubSeq(path, Len(table[best].mountPoint) + 1, Len(path))>>

\* The core framework mounts "/" first and its nodes one level below it.
CoreTable(table) ==
    /\ table # << >> /\ table[1].mountPoint = Root
    /\ \A i \in DOMAIN table : table[i] # Empty => Len(table[i].mountPoint) <= 1
    /\ \A i, j \in DOMAIN table :
           table[i] # Empty /\ table[i].mountPoint = table[j].mountPoint => i = j

-----------------------------------------------------------------------------
Idle == [at |-> "idle", op |-> "none", out |-> "none", quiet |-> FALSE,
         meant |-> << >>, before |-> << >>]

\* The domain manager mounts its own file system before it serves anybody.
Init ==
    /\ mount_table = <<[mountPoint |-> Root, fs |-> Own]>>
    /\ numMounts = 1 /\ granted = Range(mount_table)
    /\ node = Initially
    /\ data = InitialData
    /\ down = {}
    /\ call = [c \in Clients |-> Idle]
    /\ calls = [c \in Clients |-> 0]

\* History: the other calls that changing the mount table, or a file,
\* may disturb.
Others(c, Disturbed(_)) ==
    [k \in Clients |-> IF k # c /\ Disturbed(call[k]) THEN [call[k] EXCEPT !.quiet = FALSE]
                       ELSE call[k]]
Running(k) == k.at \notin {"idle", "done"}
Remounting(k) == Running(k) /\ k.op \in {"mount", "unmount"}

Goto(c, step) == call' = [call EXCEPT ![c].at = step]
\* What is remembered of a call that is over.  A copy that a device has cut
\* short returns to its client as one that has succeeded does.
Over(k, result) ==
    LET copied == k.op = "copy" /\ result # "raised"
    IN  [at |-> "done", op |-> k.op, out |-> result, quiet |-> copied /\ k.quiet,
         meant |-> IF copied THEN k.meant ELSE << >>,
         before |-> IF copied THEN k.before ELSE << >>]
Return(c, result) == call' = [call EXCEPT ![c] = Over(@, result)]
Raise(c) == Return(c, "raised")
Ready(c, op) ==
    /\ ~Running(call[c]) /\ calls[c] < MaxCalls[c] /\ op \in Does[c]
    /\ calls' = [calls EXCEPT ![c] = @ + 1]

-----------------------------------------------------------------------------
(* mount and unmount.                                                      *)

Mounted(point) == \E i \in DOMAIN mount_table : mount_table[i].mountPoint = point

CallMount(c) ==
    /\ Ready(c, "mount")
    /\ \E point \in Points, f \in FileSystems :
           LET alone == \A k \in Clients \ {c} : ~Remounting(call[k])
               new == [at |-> "count", op |-> "mount",
                       entry |-> [mountPoint |-> point, fs |-> f],
                       quiet |-> alone, meant |-> << >>, before |-> << >>]
           IN  call' = [Others(c, Remounting) EXCEPT ![c] =
                           IF Mounted(point) THEN Over(new, "raised") ELSE new]
    /\ UNCHANGED <<tableVars, diskVars>>

CountMount(c) ==
    /\ call[c].at = "count"
    /\ numMounts' = numMounts + 1
    /\ Goto(c, "length")
    /\ UNCHANGED <<mount_table, granted, diskVars, calls>>

\* mount_table->length(numMounts): a table that a mount and an unmount which
\* overlapped have left too long is cut.
GrowTable(c) ==
    /\ call[c].at = "length"
    /\ mount_table' = [i \in 1 .. numMounts |->
                          IF i <= Len(mount_table) THEN mount_table[i] ELSE Empty]
    /\ LET Cut(k) == numMounts < Len(mount_table) /\ Running(k)
       IN  call' = [Others(c, Cut) EXCEPT ![c].at = "store"]
    /\ UNCHANGED <<numMounts, granted, diskVars, calls>>

\* Fault: the entry after the table's first is taken.
StoreSecond(c) ==
    /\ call[c].at = "store"
    /\ mount_table' = [mount_table EXCEPT ![Min({2, Len(mount_table)})] = call[c].entry]
    /\ granted' = IF call[c].quiet THEN granted \cup {call[c].entry} ELSE granted
    /\ Return(c, "ok")
    /\ UNCHANGED <<numMounts, diskVars, calls>>

\* An index past the table's length raises a system exception.  Two mounts
\* that overlap both store in the last entry.
StoreMount(c) ==
    /\ call[c].at = "store"
    /\ \/ numMounts > Len(mount_table) /\ Raise(c) /\ UNCHANGED <<mount_table, granted>>
       \/ /\ numMounts \in DOMAIN mount_table
          /\ mount_table' = [mount_table EXCEPT ![numMounts] = call[c].entry]
          /\ granted' = IF call[c].quiet THEN granted \cup {call[c].entry} ELSE granted
          /\ LET Replaced(k) == mount_table[numMounts] # Empty
             IN  call' = [Others(c, Replaced) EXCEPT ![c] = Over(@, "ok")]
    /\ UNCHANGED <<numMounts, diskVars, calls>>

\* unmount looks for its entry below numMounts, and closes the gap.
CallUnmount(c) ==
    /\ Ready(c, "unmount")
    /\ \E point \in Points :
           LET hits == {i \in 1 .. numMounts :
                           i > Len(mount_table) \/ mount_table[i].mountPoint = point}
               missing == hits = {} \/ Min(hits \cup {numMounts + 1}) > Len(mount_table)
               new == [at |-> "uncount", op |-> "unmount",
                       quiet |-> TRUE, meant |-> << >>, before |-> << >>]
           IN  \/ /\ missing
                  /\ call' = [call EXCEPT ![c] = Over(new, "raised")]
                  /\ UNCHANGED <<mount_table, granted>>
               \/ /\ ~missing
                  /\ mount_table' = RemoveAt(mount_table, Min(hits))
                  /\ granted' = {e \in granted : e.mountPoint # point}
                  /\ call' = [Others(c, Running) EXCEPT ![c] = new]
    /\ UNCHANGED <<numMounts, diskVars>>

\* Fault: counted twice.
CountUnmountTwice(c) ==
    /\ call[c].at = "uncount"
    /\ numMounts' = numMounts - 2
    /\ Return(c, "ok")
    /\ UNCHANGED <<mount_table, granted, diskVars, calls>>

CountUnmount(c) ==
    /\ call[c].at = "uncount"
    /\ numMounts' = numMounts - 1
    /\ Return(c, "ok")
    /\ UNCHANGED <<mount_table, granted, diskVars, calls>>

-----------------------------------------------------------------------------
(* The calls on files.  Resolving the names of a call is one step; it      *)
(* keeps indexes of the table, and every remote call looks them up again.  *)

CallFile(c, op, names) ==
    LET table == SubSeq(mount_table, 1, numMounts)
        known == numMounts # 0 /\ numMounts <= Len(mount_table)
        meant == IF known /\ CoreTable(table)
                 THEN [n \in DOMAIN names |-> Denotes(table, names[n])] ELSE << >>
        first == CASE op = "remove" -> "exists" [] op = "copy" -> "exists"
                   [] op = "rmdir" -> "check" [] OTHER -> op
        new == [at |-> first, op |-> op,
                fs |-> [n \in DOMAIN names |-> getFS(table, names[n])],
                path |-> [n \in DOMAIN names |-> getFSPath(table, names[n])],
                file |-> << >>, got |-> << >>, cut |-> FALSE,
                quiet |-> meant # << >>, meant |-> meant,
                before |-> [n \in DOMAIN meant |-> node[meant[n][1]][meant[n][2]]]]
    IN  /\ Ready(c, op)
        /\ \/ known /\ call' = [call EXCEPT ![c] = new]
           \/ ~known /\ call' = [call EXCEPT ![c] = Over([Idle EXCEPT !.op = op], "raised")]
        /\ UNCHANGED <<tableVars, diskVars>>

CallOnFile(c) ==
    \/ \E op \in {"remove", "create", "open"}, n \in FileNames : CallFile(c, op, <<n>>)
    \/ \E op \in {"remove", "mkdir", "rmdir"}, n \in DirNames : CallFile(c, op, <<n>>)
    \/ \E src, dst \in FileNames : CallFile(c, "copy", <<src, dst>>)

\* mount_table[i].fs, and whether a remote call on it is answered.
Fs(c, n) == mount_table[call[c].fs[n]].fs
Path(c, n) == call[c].path[n]
Answers(c, n) ==
    /\ call[c].fs[n] <= Len(mount_table) /\ mount_table[call[c].fs[n]] # Empty
    /\ Fs(c, n) \notin down
Node(c, n) == node[Fs(c, n)][Path(c, n)]

Step(c, op, step) == call[c].op = op /\ call[c].at = step
Unanswered(c, n) == ~Answers(c, n) /\ Raise(c) /\ UNCHANGED <<tableVars, diskVars, calls>>
Found(c, n, step) == Goto(c, step) /\ UNCHANGED <<tableVars, diskVars, calls>>

\* An exception a file system does not declare ends its process.
Abort(c, n) ==
    /\ down' = down \cup {Fs(c, n)} /\ Raise(c)
    /\ UNCHANGED <<tableVars, node, data, calls>>

\* The rest of a step that changes the file at <<f, p>>, or opens it.
Touch(c, f, p, update) ==
    LET Meant(k) == Contains(k.meant, <<f, p>>)
    IN  call' = [Others(c, Meant) EXCEPT ![c] = update]
Ended(c) == Over(call[c], "ok")

\* remove: only what exists is removed.
RemoveExists(c) ==
    /\ Step(c, "remove", "exists")
    /\ \/ Unanswered(c, 1)
       \/ Answers(c, 1) /\ Node(c, 1) # Nothing /\ Found(c, 1, "remove")
       \/ /\ Answers(c, 1) /\ Node(c, 1) = Nothing
          /\ Return(c, "ok") /\ UNCHANGED <<tableVars, diskVars, calls>>

Below(c, n) == {q \in LocalPaths : IsStrictPrefix(Path(c, n), q)}
Full(c, n) == \E q \in Below(c, n) : node[Fs(c, n)][q] # Nothing

FileRemove(c) ==
    /\ Step(c, "remove", "remove")
    /\ \/ Unanswered(c, 1)
       \/ /\ Answers(c, 1) /\ Node(c, 1) = Nothing
          /\ Raise(c) /\ UNCHANGED <<tableVars, diskVars, calls>>
       \/ Answers(c, 1) /\ Node(c, 1) # Nothing /\ Full(c, 1) /\ Abort(c, 1)
       \/ /\ Answers(c, 1) /\ Node(c, 1) # Nothing /\ ~Full(c, 1)
          /\ node' = [node EXCEPT ![Fs(c, 1)][Path(c, 1)] = Nothing]
          /\ Touch(c, Fs(c, 1), Path(c, 1), Ended(c))
          /\ UNCHANGED <<tableVars, data, down, calls>>

\* mkdir makes the missing directories above it, too.
FileMkdir(c) ==
    /\ Step(c, "mkdir", "mkdir")
    /\ \/ Unanswered(c, 1)
       \/ /\ Answers(c, 1) /\ Node(c, 1) # Nothing
          /\ Raise(c) /\ UNCHANGED <<tableVars, diskVars, calls>>
       \/ /\ Answers(c, 1) /\ Node(c, 1) = Nothing
          /\ node' = [node EXCEPT ![Fs(c, 1)] = [q \in LocalPaths |->
                         IF IsPrefix(q, Path(c, 1)) THEN Directory ELSE @[q]]]
          /\ Return(c, "ok")
          /\ UNCHANGED <<tableVars, data, down, calls>>

\* rmdir walks the tree once to see that it holds directories only ...
DirsIn(c) == {q \in Below(c, 1) \cup {Path(c, 1)} : node[Fs(c, 1)][q] = Directory}
HoldsFile(c, d) ==
    \E q \in LocalPaths : IsPrefix(d, q) /\ node[Fs(c, 1)][q] \notin {Nothing, Directory}

RmdirCheck(c) ==
    /\ Step(c, "rmdir", "check")
    /\ \/ Unanswered(c, 1)
       \/ /\ Answers(c, 1) /\ (Node(c, 1) # Directory \/ HoldsFile(c, Path(c, 1)))
          /\ Raise(c) /\ UNCHANGED <<tableVars, diskVars, calls>>
       \/ /\ Answers(c, 1) /\ Node(c, 1) = Directory /\ ~HoldsFile(c, Path(c, 1))
          /\ Found(c, 1, "purge")

\* ... and again to remove them: a file made in between stops it half way, a
\* directory gone in between ends the process.
RmdirPurge(c) ==
    /\ Step(c, "rmdir", "purge")
    /\ \/ Unanswered(c, 1)
       \/ Answers(c, 1) /\ Node(c, 1) # Directory /\ Abort(c, 1)
       \/ /\ Answers(c, 1) /\ Node(c, 1) = Directory
          /\ \E gone \in SUBSET {d \in DirsIn(c) : ~HoldsFile(c, d)} :
                 /\ \A d \in gone, q \in DirsIn(c) : IsPrefix(d, q) => q \in gone
                 /\ ~HoldsFile(c, Path(c, 1)) => gone = DirsIn(c)
                 /\ node' = [node EXCEPT ![Fs(c, 1)] = [q \in LocalPaths |->
                                IF q \in gone THEN Nothing ELSE @[q]]]
          /\ Return(c, IF HoldsFile(c, Path(c, 1)) THEN "raised" ELSE "ok")
          /\ UNCHANGED <<tableVars, data, down, calls>>

\* FileSystem_impl::create: a file that exists is refused; where it cannot be
\* made, as there is no directory for it, a File comes back that is not open.
Creates(c, f, n, update(_)) ==
    LET p == Path(c, n)
        room == node[f][Front(p)] = Directory
    IN  \/ /\ node[f][p] # Nothing
           /\ Raise(c) /\ UNCHANGED <<tableVars, diskVars, calls>>
        \/ /\ node[f][p] = Nothing
           /\ call' = [call EXCEPT ![c] = update(Nothing)]
           /\ UNCHANGED <<tableVars, diskVars, calls>>
        \/ /\ node[f][p] = Nothing /\ room
           /\ data' = Append(data, << >>)
           /\ node' = [node EXCEPT ![f][p] = Len(data) + 1]
           /\ Touch(c, f, p, update(Len(data) + 1))
           /\ UNCHANGED <<tableVars, down, calls>>

\* create and open give the client a File: it writes a block and closes it.
Held(c, file) == [call[c] EXCEPT !.at = "held", !.file = <<[home |-> Fs(c, 1), node |-> file]>>]

FileCreate(c) ==
    /\ Step(c, "create", "create")
    /\ \/ Unanswered(c, 1)
       \/ LET Hand(file) == Held(c, file) IN Answers(c, 1) /\ Creates(c, Fs(c, 1), 1, Hand)

FileOpen(c) ==
    /\ Step(c, "open", "open")
    /\ \/ Unanswered(c, 1)
       \/ /\ Answers(c, 1) /\ Node(c, 1) = Nothing
          /\ Raise(c) /\ UNCHANGED <<tableVars, diskVars, calls>>
       \/ /\ Answers(c, 1) /\ Node(c, 1) # Nothing
          /\ call' = [call EXCEPT ![c] = Held(c, Node(c, 1))]
          /\ UNCHANGED <<tableVars, diskVars, calls>>

-----------------------------------------------------------------------------
(* File_impl: a File lives on its file system's node.                      *)

FileAnswers(c, n) == call[c].file[n].home \notin down
Silent(c, n) == ~FileAnswers(c, n) /\ Raise(c) /\ UNCHANGED <<tableVars, diskVars, calls>>

\* Bytes are written over what is there, from the start.
Overwrite(old, new) == new \o SubSeq(old, Len(new) + 1, Len(old))

\* What a device reads or takes of some bytes.
Some(bytes) == {SubSeq(bytes, 1, m) : m \in 0 .. Len(bytes)}

Flush(c, n, bytes, update) ==
    LET file == call[c].file[n]
    IN  /\ data' = [data EXCEPT ![file.node] = Overwrite(@, bytes)]
        /\ Touch(c, file.home, Path(c, n), update)
        /\ UNCHANGED <<tableVars, node, down, calls>>

\* A stream hands small writes to the file when it is closed, others at once:
\* then it raises an exception if the file does not take them.
Write(c, n, bytes, step) ==
    \/ Flush(c, n, bytes, [call[c] EXCEPT !.at = step, !.got = << >>])
    \/ \E taken \in Some(bytes) : Flush(c, n, taken, Over(call[c], "raised"))
    \/ /\ call' = [call EXCEPT ![c].at = step, ![c].got = bytes]
       /\ UNCHANGED <<tableVars, diskVars, calls>>

FileWrite(c) ==
    /\ call[c].at = "held"
    /\ \/ Silent(c, 1)
       \/ FileAnswers(c, 1) /\ call[c].file[1].node = Nothing
          /\ Raise(c) /\ UNCHANGED <<tableVars, diskVars, calls>>
       \/ FileAnswers(c, 1) /\ call[c].file[1].node # Nothing
          /\ \E b \in Block : Write(c, 1, <<b>>, "close")

\* close does not say what the file has not taken.
FileClose(c) ==
    /\ call[c].at = "close" /\ call[c].op # "copy"
    /\ \/ Silent(c, 1)
       \/ /\ FileAnswers(c, 1)
          /\ \E taken \in Some(call[c].got) : Flush(c, 1, taken, Ended(c))

-----------------------------------------------------------------------------
(* copy.                                                                   *)

CopyExists(c) ==
    /\ Step(c, "copy", "exists")
    /\ \/ Unanswered(c, 1)
       \/ /\ Answers(c, 1) /\ Node(c, 1) = Nothing
          /\ Raise(c) /\ UNCHANGED <<tableVars, diskVars, calls>>
       \/ /\ Answers(c, 1) /\ Node(c, 1) # Nothing
          /\ Found(c, 1, IF call[c].fs[1] = call[c].fs[2] THEN "copyFile" ELSE "openSource")

Complete(given, taken) == IF taken = given THEN "ok" ELSE "cut"

\* FileSystem_impl::copy: only that a name is not there is reported, neither
\* what stands in the way of the new file nor that a device fails half way.
CopyFile(c) ==
    LET from == Node(c, 1)
        to == node[Fs(c, 1)][Path(c, 2)]
        room == node[Fs(c, 1)][Front(Path(c, 2))] = Directory
    IN  /\ Step(c, "copy", "copyFile")
        /\ \/ Unanswered(c, 1)
           \/ /\ Answers(c, 1) /\ (from = Nothing \/ ~room)
              /\ Raise(c) /\ UNCHANGED <<tableVars, diskVars, calls>>
           \/ /\ Answers(c, 1) /\ from # Nothing /\ room /\ to # Nothing
              /\ Return(c, "ok") /\ UNCHANGED <<tableVars, diskVars, calls>>
           \/ /\ Answers(c, 1) /\ from # Nothing /\ room /\ to = Nothing
              /\ Return(c, "cut") /\ UNCHANGED <<tableVars, diskVars, calls>>
           \/ /\ Answers(c, 1) /\ from # Nothing /\ room /\ to = Nothing
              /\ \E taken \in Some(data[from]) :
                     /\ data' = Append(data, taken)
                     /\ Touch(c, Fs(c, 1), Path(c, 2),
                              Over(call[c], Complete(data[from], taken)))
              /\ node' = [node EXCEPT ![Fs(c, 1)][Path(c, 2)] = Len(data) + 1]
              /\ UNCHANGED <<tableVars, down, calls>>

Opens(c, n, from, step) ==
    /\ Step(c, "copy", from)
    /\ \/ Unanswered(c, n)
       \/ /\ Answers(c, n) /\ Node(c, n) = Nothing
          /\ Raise(c) /\ UNCHANGED <<tableVars, diskVars, calls>>
       \/ /\ Answers(c, n) /\ Node(c, n) # Nothing
          /\ call' = [call EXCEPT ![c].at = step,
                        ![c].file = Append(@, [home |-> Fs(c, n), node |-> Node(c, n)])]
          /\ UNCHANGED <<tableVars, diskVars, calls>>

OpenSource(c) == Opens(c, 1, "openSource", "sizeOf")

\* An empty file is not copied.
SizeOf(c) ==
    LET size == Len(data[call[c].file[1].node])
    IN  /\ Step(c, "copy", "sizeOf")
        /\ \/ Silent(c, 1)
           \/ /\ FileAnswers(c, 1) /\ size = 0
              /\ Raise(c) /\ UNCHANGED <<tableVars, diskVars, calls>>
           \/ /\ FileAnswers(c, 1) /\ size > 0
              /\ call' = [call EXCEPT ![c].at = "destination", ![c].got = size]
              /\ UNCHANGED <<tableVars, diskVars, calls>>

DestinationExists(c) ==
    /\ Step(c, "copy", "destination")
    /\ \/ Unanswered(c, 2)
       \/ Answers(c, 2) /\ Found(c, 2, IF Node(c, 2) = Nothing THEN "create" ELSE "openCopy")

\* Fault: the copy is created where the source is.
CreateAtSource(c) ==
    LET GoOn(file) == [call[c] EXCEPT !.at = "openCopy"]
    IN  Step(c, "copy", "create") /\ Creates(c, Fs(c, 1), 2, GoOn)

CreateDestination(c) ==
    LET GoOn(file) == [call[c] EXCEPT !.at = "openCopy"]
    IN  /\ Step(c, "copy", "create")
        /\ \/ Unanswered(c, 2)
           \/ Answers(c, 2) /\ Creates(c, Fs(c, 2), 2, GoOn)

OpenDestination(c) == Opens(c, 2, "openCopy", "read")

\* Fault: the last byte stays behind.
ReadAllButOne(c) ==
    /\ Step(c, "copy", "read") /\ FileAnswers(c, 1)
    /\ call' = [call EXCEPT ![c].at = "write",
                  ![c].got = SubSeq(data[call[c].file[1].node], 1, call[c].got - 1)]
    /\ UNCHANGED <<tableVars, diskVars, calls>>

\* readsome reads what it can get.
ReadSource(c) ==
    LET bytes == data[call[c].file[1].node]
        asked == SubSeq(bytes, 1, Min({call[c].got, Len(bytes)}))
    IN  /\ Step(c, "copy", "read")
        /\ \/ Silent(c, 1)
           \/ /\ FileAnswers(c, 1)
              /\ \E read \in Some(asked) :
                     call' = [call EXCEPT ![c].at = "write", ![c].got = read,
                                          ![c].cut = read # asked]
              /\ UNCHANGED <<tableVars, diskVars, calls>>

WriteDestination(c) ==
    /\ Step(c, "copy", "write")
    /\ \/ Silent(c, 2)
       \/ FileAnswers(c, 2) /\ Write(c, 2, call[c].got, "closeSource")

CloseSource(c) ==
    /\ Step(c, "copy", "closeSource")
    /\ \/ Silent(c, 1)
       \/ FileAnswers(c, 1) /\ Found(c, 1, "closeCopy")

CloseDestination(c) ==
    /\ Step(c, "copy", "closeCopy")
    /\ \/ Silent(c, 2)
       \/ /\ FileAnswers(c, 2)
          /\ \E taken \in Some(call[c].got) :
                 Flush(c, 2, taken, Over(call[c], IF call[c].cut THEN "cut"
                                                  ELSE Complete(call[c].got, taken)))

-----------------------------------------------------------------------------
NodeDies(f) ==
    /\ f \in MayDie \ down
    /\ down' = down \cup {f}
    /\ UNCHANGED <<tableVars, node, data, call, calls>>

Copying(c) ==
    \/ CopyExists(c) \/ CopyFile(c) \/ OpenSource(c) \/ SizeOf(c) \/ DestinationExists(c)
    \/ CreateDestination(c) \/ OpenDestination(c) \/ ReadSource(c) \/ WriteDestination(c)
    \/ CloseSource(c) \/ CloseDestination(c)

Remounts(c) ==
    \/ CallMount(c) \/ CountMount(c) \/ GrowTable(c) \/ StoreMount(c)
    \/ CallUnmount(c) \/ CountUnmount(c)

Single(c) ==
    \/ RemoveExists(c) \/ FileRemove(c) \/ FileMkdir(c) \/ RmdirCheck(c) \/ RmdirPurge(c)
    \/ FileCreate(c) \/ FileOpen(c) \/ FileWrite(c) \/ FileClose(c)

Next ==
    \/ Own \notin down /\ \E c \in Clients :
           Remounts(c) \/ CallOnFile(c) \/ Single(c) \/ Copying(c)
    \/ \E f \in FileSystems : NodeDies(f)

Spec == Init /\ [][Next]_vars

-----------------------------------------------------------------------------
(* Properties.                                                             *)

TypeOK ==
    /\ numMounts \in Nat
    /\ mount_table \in Seq([mountPoint : Points, fs : FileSystems] \cup {Empty})
    /\ data \in Seq(Seq(Byte))
    /\ node \in [FileSystems -> [LocalPaths -> DOMAIN data \cup {Nothing, Directory}]]
    /\ down \subseteq FileSystems
    /\ \A c \in Clients : /\ call[c].op \in Operations \cup {"none"}
                          /\ call[c].quiet \in BOOLEAN
                          /\ calls[c] \in 0 .. MaxCalls[c]

\* getFSandFSPath (FileManager_impl.cpp:445-499) counts common elements, not
\* prefixes.  With "/" mounted first and the nodes one level below it, as the
\* core framework does, it still finds the longest mount point above a name.
ResolvesLongest ==
    CoreTable(mount_table) =>
        \A n \in FileNames \cup DirNames :
            <<mount_table[getFS(mount_table, n)].fs, getFSPath(mount_table, n)>>
                = Denotes(mount_table, n)

\* A mount that met no other mount or unmount on its way (73-88 takes no
\* lock) stays in the part of the table that is searched, whatever others
\* mount and unmount afterwards, until it is unmounted.
LoneMountListed ==
    \A e \in granted : \E i \in 1 .. Min({numMounts, Len(mount_table)}) : mount_table[i] = e

\* The bytes of a file, by its file system and local path, if it is one.
Bytes(file) ==
    LET n == node[file[1]][file[2]] IN IF n \in DOMAIN data THEN data[n] ELSE n

Copied(k) ==
    \/ Bytes(k.meant[2]) = Bytes(k.meant[1])
    \/ k.out = "cut" /\ Bytes(k.meant[2]) \in {Nothing} \cup Some(Bytes(k.meant[1]))

\* A copy (142-196) to a new name that returned, while nobody else changed
\* either file and nothing was unmounted, has made an exact copy unless a
\* device cut it short, which its client is not told (FileSystem_impl.cpp:120,
\* File_impl.cpp:69 and 118); then nothing stands under the new name, or bytes
\* the source begins with, and never bytes of anything else.
CopyFaithful ==
    \A c \in Clients :
        LET k == call[c]
        IN  k.op = "copy" /\ k.at = "done" /\ k.out # "raised" /\ k.quiet
            /\ k.before[2] = Nothing => Copied(k)

\* A step of a copy that no unmount has disturbed changes no file but the one
\* its destination's name stood for when it was called, although it keeps an
\* index of the mount table over nine remote calls (158-195).
OnlyDestinationChanges ==
    [][\A c \in Clients :
           call[c].op = "copy" /\ call[c].quiet /\ call'[c].at # call[c].at
               /\ call'[c].op = "copy" /\ call[c].at # "done"
           => \A f \in FileSystems, p \in LocalPaths :
                  <<f, p>> # call[c].meant[2] => Bytes(<<f, p>>)' = Bytes(<<f, p>>)]_vars

=============================================================================
