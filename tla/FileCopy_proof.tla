---------------------------- MODULE FileCopy_proof ----------------------------
(***************************************************************************)
(* Theorems about copy, and the other calls on files, of FileManager, for  *)
(* any clients, file systems, names and mount points, and any number of    *)
(* calls.                                                                  *)
(*                                                                         *)
(* PlaceInv says that a file has one place at most, and that what a call   *)
(* has open is at the place its name stood for or nowhere; CopiesInv what  *)
(* each step of a copy that nobody has disturbed knows about the two files.*)
(***************************************************************************)
EXTENDS FileManager_proof

\* The steps of a copy by what it has found, opened and read.
NoFileYet == {"exists", "copyFile", "openSource", "sizeOf", "destination", "create"}
SourceOpen == {"sizeOf", "destination", "create", "openCopy", "read", "write",
               "closeSource", "closeCopy"}
Sized == {"destination", "create", "openCopy", "read"}
BothOpen == {"read", "write", "closeSource", "closeCopy"}

At(place) == node[place[1]][place[2]]

\* An open file is where the name it was opened under led, or nowhere.
HandlesPlaced(k) ==
    \A n \in DOMAIN k.file, f \in FileSystems, p \in LocalPaths :
        node[f][p] = k.file[n].node /\ k.file[n].node \in DOMAIN data
            => f = k.file[n].home /\ p = k.path[n]

PlaceInv ==
    /\ \A f, g \in FileSystems, p, q \in LocalPaths :
           node[f][p] = node[g][q] /\ node[f][p] \in DOMAIN data => f = g /\ p = q
    /\ \A c \in Clients : call[c] \in FileCall => HandlesPlaced(call[c])

\* Where the names of an undisturbed copy lead has not changed.
Leads(k) ==
    /\ \A n \in 1 .. 2 : /\ k.fs[n] \in DOMAIN mount_table /\ mount_table[k.fs[n]] # Empty
                         /\ k.meant[n] = <<mount_table[k.fs[n]].fs, k.path[n]>>
    /\ \A n \in DOMAIN k.file : k.file[n].home = k.meant[n][1]
Foreseen(k) ==
    /\ Len(k.meant) = 2
    /\ \A n \in 1 .. 2 : k.meant[n] \in FileSystems \X FilePaths
    /\ k \in FileCall => Leads(k)

\* What a copy has of a file's bytes: all of them, if nothing was cut short.
Carries(k, bytes, file) == bytes \in Some(data[file]) /\ (k.cut \/ bytes = data[file])

\* What is known of the files of a copy to a new name.
Content(k) ==
    LET from == At(k.meant[1])
        to == At(k.meant[2])
    IN  /\ k \in EndedCall => Copied(k)
        /\ k.at \in NoFileYet => to = Nothing
        /\ k.at \in SourceOpen => from = k.file[1].node /\ from \in DOMAIN data
        /\ k.at \in Sized => k.got = Len(data[from])
        /\ k.at = "openCopy" /\ to # Nothing =>
               to \in DOMAIN data /\ data[to] = << >> /\ to # from
        /\ k.at \in BothOpen => to = k.file[2].node /\ to \in DOMAIN data /\ to # from
        /\ k.at \in {"read", "write"} => data[to] = << >>
        /\ k.at \in {"write", "closeSource", "closeCopy"} =>
               \/ data[to] = << >> /\ Carries(k, k.got, from)
               \/ k.got = << >> /\ Carries(k, data[to], from)

CopyInv(k) ==
    k.op = "copy" /\ k.quiet => Foreseen(k) /\ (k.before[2] = Nothing => Content(k))
CopiesInv == \A c \in Clients : CopyInv(call[c])

-----------------------------------------------------------------------------
(* What a step does to the files of the others.                            *)

Steady(f, p) ==
    /\ node'[f][p] = node[f][p]
    /\ node[f][p] \in DOMAIN data => data'[node[f][p]] = data[node[f][p]]

\* A file that is there does not move, and a new one has one place; whoever
\* is to hear of a change to a file does.
DiskStep(c) ==
    /\ DOMAIN data \subseteq DOMAIN data'
    /\ \A f \in FileSystems, p \in LocalPaths :
           node'[f][p] \in DOMAIN data => node'[f][p] = node[f][p]
    /\ \A f, g \in FileSystems, p, q \in LocalPaths :
           node'[f][p] = node'[g][q] /\ node'[f][p] \in DOMAIN data' \ DOMAIN data
               => f = g /\ p = q
    /\ \A f \in FileSystems, p \in FilePaths :
           Steady(f, p) \/ \A k \in Clients \ {c} :
                               Contains(call[k].meant, <<f, p>>) => ~call'[k].quiet

\* Whoever is to hear of a change to the mount table does.
TableStep(c) ==
    \A k \in Clients \ {c} :
        call'[k].quiet /\ Running(call[k]) =>
            \A i \in DOMAIN mount_table : mount_table[i] # Empty =>
                i \in DOMAIN mount_table' /\ mount_table'[i] = mount_table[i]

\* A step of an undisturbed copy changes the file it is to write only.
Contained(c) ==
    call[c].op = "copy" /\ call[c].quiet /\ call[c].at # "done" =>
        \A f \in FileSystems, p \in LocalPaths :
            <<f, p>> # call[c].meant[2] => Bytes(<<f, p>>)' = Bytes(<<f, p>>)

Good(c) ==
    /\ Moves(c) /\ DiskStep(c) /\ TableStep(c) /\ Contained(c)
    /\ call'[c] \in FileCall => (HandlesPlaced(call[c]))'
    /\ (CopyInv(call[c]))'

\* A file is a number, what is no file is none.
LEMMA NoFile ==
    ASSUME TypeInv
    PROVE  /\ DOMAIN data = 1 .. Len(data) /\ Len(data) \in Nat
           /\ \A x \in {Nothing, Directory} : x \notin Nat
BY LenProperties, MarkAssumption DEF TypeInv, DiskInv

LEMMA Unmoved ==
    ASSUME NEW c \in Clients, Moves(c), NEW k \in Clients \ {c}, call'[k].quiet,
           CallTypes
    PROVE  call'[k] = call[k]
<1>1. Hushed(call[k]).quiet = FALSE
    BY HushedType DEF CallTypes
<1>2. call'[k] # Hushed(call[k])
    BY <1>1
<1> QED BY <1>2 DEF Moves

LEMMA OtherHandles ==
    ASSUME TypeInv, TypeInv', PlaceInv, NEW c \in Clients, Moves(c), DiskStep(c),
           NEW k \in Clients \ {c}, call'[k] \in FileCall
    PROVE  (HandlesPlaced(call[k]))'
<1>1. call[k] \in Calls
    BY DEF TypeInv, CallTypes
<1>2. call[k] \in FileCall /\ call'[k].file = call[k].file /\ call'[k].path = call[k].path
    <2>1. CASE call'[k] = call[k]
        BY <2>1
    <2>2. CASE call'[k] = Hushed(call[k])
        <3>1. Hushed(call[k]) \in FileCall
            BY <2>2
        <3> QED BY <1>1, <2>2, <3>1, HushedType
    <2> QED BY <2>1, <2>2 DEF Moves
<1>3. HandlesPlaced(call[k]) /\ Opened(call[k])
    BY <1>2 DEF PlaceInv, TypeInv, CallTypes, FileInv
<1>4. ASSUME NEW n \in DOMAIN call[k].file, NEW f \in FileSystems, NEW p \in LocalPaths,
             node'[f][p] = call[k].file[n].node, call[k].file[n].node \in DOMAIN data'
      PROVE  f = call[k].file[n].home /\ p = call[k].path[n]
    <2>1. call[k].file[n].node \in DOMAIN data
        <3>1. call[k].file[n].node \in DOMAIN data \cup {Nothing}
            BY <1>3 DEF Opened
        <3>2. Nothing \notin DOMAIN data'
            BY NoFile, LenProperties DEF TypeInv, DiskInv
        <3> QED BY <1>4, <3>1, <3>2
    <2>2. node'[f][p] = node[f][p]
        BY <1>4, <2>1 DEF DiskStep
    <2>3. node[f][p] = call[k].file[n].node
        BY <1>4, <2>2
    <2>4. HandlesPlaced(call[k])
        BY <1>3
    <2> QED BY <2>1, <2>3, <2>4 DEF HandlesPlaced
<1> QED BY <1>2, <1>4 DEF HandlesPlaced

LEMMA PlacesKept ==
    ASSUME TypeInv, TypeInv', PlaceInv, NEW c \in Clients, Good(c)
    PROVE  PlaceInv'
<1>1. \A k \in Clients : call'[k] \in FileCall => (HandlesPlaced(call[k]))'
    BY OtherHandles DEF Good
<1>2. ASSUME NEW f \in FileSystems, NEW g \in FileSystems, NEW p \in LocalPaths,
             NEW q \in LocalPaths, node'[f][p] = node'[g][q], node'[f][p] \in DOMAIN data'
      PROVE  f = g /\ p = q
    <2>1. CASE node'[f][p] \in DOMAIN data
        <3>1. node'[f][p] = node[f][p] /\ node'[g][q] = node[g][q]
            BY <1>2, <2>1 DEF Good, DiskStep
        <3>2. node[f][p] = node[g][q] /\ node[f][p] \in DOMAIN data
            BY <1>2, <2>1, <3>1
        <3> QED BY <3>2 DEF PlaceInv
    <2>2. CASE node'[f][p] \notin DOMAIN data
        BY <1>2, <2>2 DEF Good, DiskStep
    <2> QED BY <2>1, <2>2
<1> QED BY <1>1, <1>2 DEF PlaceInv

\* The bytes of a file that is left alone.
LEMMA SteadyBytes ==
    ASSUME TypeInv, TypeInv', DOMAIN data \subseteq DOMAIN data',
           NEW f \in FileSystems, NEW p \in LocalPaths, Steady(f, p)
    PROVE  /\ Bytes(<<f, p>>)' = Bytes(<<f, p>>) /\ At(<<f, p>>)' = At(<<f, p>>)
           /\ At(<<f, p>>) \in DOMAIN data => data'[At(<<f, p>>)] = data[At(<<f, p>>)]
<1>1. node[f][p] \in DOMAIN data \cup {Nothing, Directory}
    BY DEF TypeInv, DiskInv
<1>2. DOMAIN data' \subseteq Nat
    BY LenProperties DEF TypeInv, DiskInv
<1>3. node[f][p] \in DOMAIN data' => node[f][p] \in DOMAIN data
    BY <1>1, <1>2, NoFile
<1> QED BY <1>3 DEF Steady, Bytes, At

\* A copy of somebody else keeps what it knows, or is told that it is disturbed.
LEMMA OtherCopies ==
    ASSUME TypeInv, TypeInv', NEW c \in Clients, Good(c), NEW k \in Clients \ {c},
           CopyInv(call[k])
    PROVE  (CopyInv(call[k]))'
<1> SUFFICES ASSUME call'[k].op = "copy", call'[k].quiet
             PROVE  (Foreseen(call[k]))' /\ (call'[k].before[2] = Nothing => (Content(call[k]))')
    BY DEF CopyInv
<1>1. call'[k] = call[k]
    BY Unmoved DEF Good, TypeInv
<1>2. Foreseen(call[k]) /\ (call[k].before[2] = Nothing => Content(call[k]))
    BY <1>1 DEF CopyInv
<1> DEFINE K == call[k]
<1>3. /\ Len(K.meant) = 2 /\ K.meant[1] \in FileSystems \X FilePaths
      /\ K.meant[2] \in FileSystems \X FilePaths
    BY <1>2 DEF Foreseen
<1>4. ASSUME NEW n \in 1 .. 2
      PROVE  /\ Bytes(K.meant[n])' = Bytes(K.meant[n]) /\ At(K.meant[n])' = At(K.meant[n])
             /\ At(K.meant[n]) \in DOMAIN data =>
                    data'[At(K.meant[n])] = data[At(K.meant[n])]
    <2>1. PICK f \in FileSystems, p \in FilePaths : K.meant[n] = <<f, p>>
        BY <1>3
    <2>2. Contains(K.meant, <<f, p>>)
        BY <1>3, <2>1 DEF Contains
    <2>3. Steady(f, p)
        BY <1>1, <2>2 DEF Good, DiskStep
    <2>4. p \in LocalPaths /\ DOMAIN data \subseteq DOMAIN data'
        BY PathTypes DEF Good, DiskStep
    <2>5. /\ Bytes(<<f, p>>)' = Bytes(<<f, p>>) /\ At(<<f, p>>)' = At(<<f, p>>)
          /\ At(<<f, p>>) \in DOMAIN data => data'[At(<<f, p>>)] = data[At(<<f, p>>)]
        BY <2>3, <2>4, SteadyBytes
    <2>6. /\ Bytes(K.meant[n])' = Bytes(<<f, p>>)' /\ At(K.meant[n])' = At(<<f, p>>)'
        BY <1>1, <2>1 DEF Bytes, At
    <2> QED BY <2>1, <2>5, <2>6
<1>5. (Foreseen(call[k]))'
    <2>1. ASSUME K \in FileCall PROVE (Leads(call[k]))'
        <3>1. Leads(K)
            BY <1>2, <2>1 DEF Foreseen
        <3>2. Running(K)
            BY <2>1, KindOfCall, NotFile DEF TypeInv, CallTypes
        <3>3. \A i \in DOMAIN mount_table : mount_table[i] # Empty =>
                  i \in DOMAIN mount_table' /\ mount_table'[i] = mount_table[i]
            BY <1>1, <3>2 DEF Good, TableStep
        <3> QED BY <1>1, <3>1, <3>3 DEF Leads
    <2> QED BY <1>1, <1>3, <2>1 DEF Foreseen
<1>6. ASSUME Content(call[k]) PROVE (Content(call[k]))'
    <2>1. /\ At(K.meant[1])' = At(K.meant[1]) /\ At(K.meant[2])' = At(K.meant[2])
          /\ Bytes(K.meant[1])' = Bytes(K.meant[1]) /\ Bytes(K.meant[2])' = Bytes(K.meant[2])
          /\ At(K.meant[1]) \in DOMAIN data => data'[At(K.meant[1])] = data[At(K.meant[1])]
          /\ At(K.meant[2]) \in DOMAIN data => data'[At(K.meant[2])] = data[At(K.meant[2])]
        BY <1>4
    <2>2. DOMAIN data \subseteq DOMAIN data'
        BY DEF Good, DiskStep
    <2>3. Content(K)
        BY <1>6
    <2> HIDE DEF K
    <2>4. (Content(K))'
        BY <1>1, <1>6, <2>1, <2>2, <2>3
           DEF Content, Carries, Copied, NoFileYet, SourceOpen, Sized, BothOpen, K
    <2> QED BY <2>4 DEF K
<1> QED BY <1>1, <1>2, <1>5, <1>6

LEMMA GoodKeeps ==
    ASSUME TypeInv, TypeInv', PlaceInv, CopiesInv, NEW c \in Clients, Good(c)
    PROVE  PlaceInv' /\ CopiesInv'
<1>1. ASSUME NEW k \in Clients PROVE (CopyInv(call[k]))'
    <2>1. CASE k = c
        BY <2>1 DEF Good
    <2>2. CASE k # c
        BY <2>2, OtherCopies DEF CopiesInv
    <2> QED BY <2>1, <2>2
<1> QED BY <1>1, PlacesKept DEF CopiesInv

-----------------------------------------------------------------------------
(* Steps that leave the disk alone.                                        *)

LEMMA StillDisk ==
    ASSUME TypeInv, NEW c \in Clients, UNCHANGED <<node, data>>
    PROVE  DiskStep(c) /\ Contained(c)
<1>1. DiskStep(c)
    BY DEF DiskStep, Steady
<1>2. Contained(c)
    BY DEF Contained, Bytes
<1> QED BY <1>1, <1>2

LEMMA StillGood ==
    ASSUME TypeInv, NEW c \in Clients, UNCHANGED <<tableVars, node, data>>, Moves(c),
           call'[c] \in FileCall => HandlesPlaced(call'[c]), CopyInv(call'[c])
    PROVE  Good(c)
<1>1. TableStep(c)
    BY DEF TableStep, tableVars
<1>2. call'[c] \in FileCall => (HandlesPlaced(call[c]))'
    BY DEF HandlesPlaced
<1>3. (CopyInv(call[c]))'
    BY DEF CopyInv, Foreseen, Leads, Content, Carries, Copied, At, Bytes, tableVars
<1> QED BY <1>1, <1>2, <1>3, StillDisk DEF Good

\* A call that ends with an exception, or is none of copy, knows nothing more.
LEMMA EndsGood ==
    ASSUME TypeInv, NEW c \in Clients, UNCHANGED <<tableVars, node, data>>,
           NEW result \in {"ok", "raised"}, Return(c, result),
           call[c].op # "copy" \/ result = "raised"
    PROVE  Good(c)
<1>1. Moves(c) /\ call'[c] = Over(call[c], result) /\ call'[c] \in EndedCall
    BY ReturnEffect
<1>2. ~call'[c].quiet
    <2>1. ~(call[c].op = "copy" /\ result = "ok")
        OBVIOUS
    <2>2. call'[c].quiet = ((call[c].op = "copy" /\ result = "ok") /\ call[c].quiet)
        BY <1>1 DEF Over
    <2> QED BY <2>1, <2>2
<1> QED BY <1>1, <1>2, StillGood, NotFile DEF CopyInv

LEMMA RaisedGood ==
    ASSUME TypeInv, NEW c \in Clients, UNCHANGED <<tableVars, node, data>>, Raise(c)
    PROVE  Good(c)
BY EndsGood DEF Raise

LEMMA UnansweredGood ==
    ASSUME TypeInv, NEW c \in Clients, NEW n, Unanswered(c, n) \/ Silent(c, n)
    PROVE  Good(c)
BY RaisedGood DEF Unanswered, Silent, diskVars

LEMMA GoesOnGood ==
    ASSUME TypeInv, NEW c \in Clients, UNCHANGED <<tableVars, node, data>>,
           NEW x \in FileCall, call' = [call EXCEPT ![c] = x], HandlesPlaced(x), CopyInv(x)
    PROVE  Good(c)
<1>1. Moves(c) /\ call'[c] = x
    BY MovesPlain DEF TypeInv, Calls
<1> QED BY <1>1, StillGood

-----------------------------------------------------------------------------
(* mount and unmount.                                                      *)

LEMMA OverFields ==
    ASSUME NEW k, NEW result
    PROVE  Over(k, result).op = k.op /\ (Over(k, result).quiet => result # "raised")
BY DEF Over

LEMMA RemountOp ==
    ASSUME TypeInv, RoomInv, NEW c \in Clients, Remounts(c)
    PROVE  call'[c] \notin FileCall /\ call'[c].op # "copy" /\ UNCHANGED diskVars /\ Moves(c)
<1>1. CASE CallMount(c)
    <2>1. call'[c].op = "mount"
        <3>1. PICK point \in Points, f \in FileSystems :
                  LET alone == \A k \in Clients \ {c} : ~Remounting(call[k])
                      new == [at |-> "count", op |-> "mount",
                              entry |-> [mountPoint |-> point, fs |-> f],
                              quiet |-> alone, meant |-> << >>, before |-> << >>]
                  IN  call' = [Others(c, Remounting) EXCEPT ![c] =
                                  IF Mounted(point) THEN Over(new, "raised") ELSE new]
            BY <1>1 DEF CallMount
        <3> QED BY <3>1, OverFields DEF Others
    <2> QED BY <1>1, <2>1, CallMountEffect, NotFile
<1>2. CASE CountMount(c)
    BY <1>2, CountMountEffect, NotFile DEF MountCall
<1>3. CASE GrowTable(c)
    BY <1>3, GrowEffect, NotFile DEF MountCall
<1>4. CASE StoreMount(c)
    <2>1. call[c].op = "mount"
        BY <1>4, StoreEffect DEF MountCall
    <2>2. call'[c] = Over(call[c], "raised") \/ call'[c] = Over(call[c], "ok")
        BY <1>4 DEF StoreMount, Raise, Return, Others, TypeInv, CallTypes
    <2> QED BY <1>4, <2>1, <2>2, StoreEffect, OverFields, NotFile
<1>5. CASE CallUnmount(c)
    <2>1. call'[c].op = "unmount"
        <3> DEFINE new == [at |-> "uncount", op |-> "unmount",
                           quiet |-> TRUE, meant |-> << >>, before |-> << >>]
        <3>1. call'[c] = Over(new, "raised") \/ call'[c] = new
            BY <1>5 DEF CallUnmount, Others, TypeInv, CallTypes
        <3> QED BY <3>1, OverFields
    <2> QED BY <1>5, <2>1, CallUnmountEffect, NotFile
<1>6. CASE CountUnmount(c)
    <2>1. call[c].op = "unmount" /\ call'[c] = Over(call[c], "ok")
        <3>1. call[c] \in UnmountCall
            BY <1>6, KindOfCall DEF CountUnmount, TypeInv, CallTypes
        <3> QED BY <1>6, <3>1, ReturnEffect DEF CountUnmount, UnmountCall
    <2>2. Over(call[c], "ok").op = "unmount"
        BY <2>1, OverFields
    <2>3. call'[c].op = "unmount"
        BY <2>1, <2>2
    <2>4. call'[c] \notin FileCall /\ UNCHANGED diskVars /\ Moves(c)
        BY <1>6, CountUnmountEffect, NotFile
    <2> QED BY <2>3, <2>4
<1> QED BY <1>1, <1>2, <1>3, <1>4, <1>5, <1>6 DEF Remounts

\* The table changes under a running call only where there was no file
\* system, or the call is told.
LEMMA RemountTable ==
    ASSUME TypeInv, NEW c \in Clients, Remounts(c)
    PROVE  TableStep(c)
<1>1. DOMAIN mount_table = 1 .. Len(mount_table) /\ Len(mount_table) \in Nat /\ numMounts \in Nat
    BY TableIndex DEF TypeInv, TableTypes
<1>2. \A k \in Clients : ~Hushed(call[k]).quiet
    BY HushedType DEF TypeInv, CallTypes
<1>3. CASE UNCHANGED mount_table
    BY <1>3 DEF TableStep
<1>4. CASE GrowTable(c)
    <2>1. mount_table' \in Table
        BY <1>4, GrowEffect
    <2>2. DOMAIN mount_table' = 1 .. numMounts
        BY <1>4, <2>1, GrowEffect, LenProperties DEF Table
    <2>3. CASE numMounts < Len(mount_table)
        BY <1>2, <1>4, <2>3, GrowEffect DEF TableStep
    <2>4. CASE ~(numMounts < Len(mount_table))
        <3>1. \A i \in DOMAIN mount_table :
                  i \in DOMAIN mount_table' /\ mount_table'[i] = mount_table[i]
            BY <1>1, <1>4, <2>2, <2>4, GrowEffect
        <3> QED BY <3>1 DEF TableStep
    <2> QED BY <2>3, <2>4
<1>5. CASE /\ numMounts \in 1 .. Len(mount_table)
           /\ mount_table' = [mount_table EXCEPT ![numMounts] = call[c].entry]
           /\ mount_table[numMounts] # Empty => \A k \in Clients \ {c} : call'[k] = Hushed(call[k])
    <2>1. CASE mount_table[numMounts] # Empty
        BY <1>2, <1>5, <2>1 DEF TableStep
    <2>2. CASE mount_table[numMounts] = Empty
        BY <1>1, <1>5, <2>2 DEF TableStep
    <2> QED BY <2>1, <2>2
<1>6. CASE \A k \in Clients \ {c} : Running(call[k]) => call'[k] = Hushed(call[k])
    BY <1>2, <1>6 DEF TableStep
<1>7. CASE CallMount(c) \/ CountMount(c) \/ CountUnmount(c)
    BY <1>3, <1>7, CallMountEffect DEF CountMount, CountUnmount, tableVars
<1> QED BY <1>3, <1>4, <1>5, <1>6, <1>7, StoreEffect, CallUnmountEffect DEF Remounts

LEMMA RemountGood ==
    ASSUME TypeInv, RoomInv, NEW c \in Clients, Remounts(c)
    PROVE  Good(c)
BY RemountOp, RemountTable, StillDisk DEF Good, CopyInv, diskVars

-----------------------------------------------------------------------------
(* A call on files begins.                                                 *)

LEMMA NothingOpen == ASSUME NEW k, k.file = << >> PROVE HandlesPlaced(k)
BY DEF HandlesPlaced

LEMMA PlainCallGood ==
    ASSUME TypeInv, NEW c \in Clients, NEW op \in FileOps \ {"copy"}, NEW n,
           n \in FileNames \/ (op \notin {"create", "open"} /\ n \in DirNames),
           op = "mkdir" => n \in DirNames, CallFile(c, op, <<n>>)
    PROVE  Good(c)
<1> DEFINE names == <<n>>
<1>1. /\ names \in Seq(FileNames \cup DirNames) /\ Len(names) = 1 /\ names[1] = n
      /\ CallFile(c, op, names) /\ op \in FileOps
    OBVIOUS
<1> HIDE DEF names
<1>2. op \in {"create", "open", "copy"} => \A i \in 1 .. 1 : names[i] \in FileNames
    BY <1>1
<1>3. op = "mkdir" => \A i \in 1 .. 1 : names[i] \in DirNames
    BY <1>1
<1>4. /\ Moves(c) /\ UNCHANGED <<tableVars, diskVars>>
      /\ \/ call'[c] \in EndedCall /\ ~call'[c].quiet
         \/ call'[c] \in FileCall /\ call'[c].op = op /\ call'[c].file = << >>
    BY <1>1, <1>2, <1>3, CallFileEffect
<1>5. CopyInv(call'[c])
    BY <1>4 DEF CopyInv
<1>6. call'[c] \in FileCall => HandlesPlaced(call'[c])
    BY <1>4, NothingOpen, NotFile
<1> QED BY <1>4, <1>5, <1>6, StillGood DEF diskVars

LEMMA CopyCallGood ==
    ASSUME TypeInv, NEW c \in Clients, NEW src \in FileNames, NEW dst \in FileNames,
           CallFile(c, "copy", <<src, dst>>)
    PROVE  Good(c)
<1> DEFINE names == <<src, dst>>
           x == call'[c]
<1>1. /\ names \in Seq(FileNames \cup DirNames) /\ Len(names) = 2
      /\ \A i \in 1 .. 2 : names[i] \in FileNames
      /\ CallFile(c, "copy", names) /\ "copy" \in FileOps
    BY DEF FileOps, Operations
<1> HIDE DEF names
<1>2. /\ Moves(c) /\ UNCHANGED <<tableVars, diskVars>>
      /\ \/ x \in EndedCall /\ ~x.quiet
         \/ /\ x \in FileCall /\ FileInv(x) /\ x.op = "copy" /\ x.file = << >>
            /\ x.at = "exists"
            /\ x.quiet => /\ Len(x.meant) = 2
                          /\ \A n \in 1 .. 2 :
                                 /\ x.fs[n] \in DOMAIN mount_table
                                 /\ mount_table[x.fs[n]] # Empty
                                 /\ x.meant[n] = <<mount_table[x.fs[n]].fs, x.path[n]>>
                                 /\ x.before[n] = node[x.meant[n][1]][x.meant[n][2]]
    BY <1>1, CallFileEffect
<1>3. CASE x \in EndedCall /\ ~x.quiet
    BY <1>2, <1>3, StillGood, NotFile DEF CopyInv, diskVars
<1>4. CASE x \in FileCall /\ ~x.quiet
    <2>1. x.file = << >>
        BY <1>2, <1>4, NotFile
    <2> QED BY <1>2, <1>4, <2>1, StillGood, NothingOpen DEF CopyInv, diskVars
<1>5. CASE x \in FileCall /\ x.quiet
    <2>1. /\ FileInv(x) /\ x.op = "copy" /\ x.file = << >> /\ x.at = "exists" /\ Len(x.meant) = 2
          /\ \A n \in 1 .. 2 : /\ x.fs[n] \in DOMAIN mount_table
                               /\ mount_table[x.fs[n]] # Empty
                               /\ x.meant[n] = <<mount_table[x.fs[n]].fs, x.path[n]>>
                               /\ x.before[n] = node[x.meant[n][1]][x.meant[n][2]]
        BY <1>2, <1>5, NotFile
    <2>2. ASSUME NEW n \in 1 .. 2 PROVE x.meant[n] \in FileSystems \X FilePaths
        <3>1. mount_table[x.fs[n]] \in Entry
            BY <2>1, SMTT(30), ElementOfSeq, TableIndex DEF TypeInv, TableTypes, Table
        <3>2. x.path[n] \in FilePaths
            <4>1. Named(x) /\ x.path \in Seq(LocalPaths)
                BY <1>5, <2>1 DEF FileInv, FileCall
            <4>2. n \in DOMAIN x.path
                <5>1. Len(x.path) = 2
                    BY <2>1, <4>1 DEF Named
                <5>2. DOMAIN x.path = 1 .. Len(x.path)
                    BY <4>1, LenProperties
                <5> QED BY <5>1, <5>2
            <4> QED BY <2>1, <4>1, <4>2 DEF Named
        <3>3. mount_table[x.fs[n]].fs \in FileSystems
            BY <3>1 DEF Entry
        <3> HIDE DEF x
        <3> QED BY <2>1, <3>2, <3>3
    <2> HIDE DEF x
    <2>3. Leads(x)
        BY <2>1 DEF Leads
    <2>4. Foreseen(x)
        BY <2>1, <2>2, <2>3 DEF Foreseen
    <2>5. x \notin EndedCall
        BY <1>5, NotFile
    <2>6. x.before[2] = Nothing => Content(x)
        BY <2>1, <2>5 DEF Content, At, NoFileYet, SourceOpen, Sized, BothOpen
    <2>7. CopyInv(x) /\ HandlesPlaced(x)
        BY <2>1, <2>4, <2>6, NothingOpen DEF CopyInv
    <2> QED BY <1>2, <2>7, StillGood DEF x, diskVars
<1> QED BY <1>2, <1>3, <1>4, <1>5

LEMMA CallOnFileGood ==
    ASSUME TypeInv, NEW c \in Clients, CallOnFile(c) PROVE Good(c)
<1>1. {"remove", "create", "open", "mkdir", "rmdir"} \subseteq FileOps \ {"copy"}
    BY DEF FileOps, Operations
<1>2. ASSUME NEW op \in {"remove", "create", "open"}, NEW n \in FileNames, CallFile(c, op, <<n>>)
      PROVE  Good(c)
    BY <1>1, <1>2, PlainCallGood
<1>3. ASSUME NEW op \in {"remove", "mkdir", "rmdir"}, NEW n \in DirNames, CallFile(c, op, <<n>>)
      PROVE  Good(c)
    BY <1>1, <1>3, PlainCallGood
<1> QED BY <1>2, <1>3, CopyCallGood DEF CallOnFile

-----------------------------------------------------------------------------
(* Changes of the disk.                                                    *)

\* Whoever Touch tells needs to know no more than of the place it names.
LEMMA Noticed ==
    ASSUME TypeInv, NEW c \in Clients, NEW f \in FileSystems, NEW p \in LocalPaths,
           NEW x \in Calls, Touch(c, f, p, x),
           DOMAIN data \subseteq DOMAIN data',
           \A g \in FileSystems, q \in LocalPaths :
               node'[g][q] \in DOMAIN data => node'[g][q] = node[g][q],
           \A g \in FileSystems, q \in LocalPaths :
               node'[g][q] \in DOMAIN data' \ DOMAIN data => g = f /\ q = p,
           \A g \in FileSystems, q \in FilePaths : Steady(g, q) \/ (g = f /\ q = p)
    PROVE  DiskStep(c) /\ Moves(c) /\ call'[c] = x
<1>1. /\ Moves(c) /\ call'[c] = x
      /\ \A k \in Clients \ {c} : call'[k] = IF Contains(call[k].meant, <<f, p>>)
                                             THEN Hushed(call[k]) ELSE call[k]
    BY TouchEffect
<1>2. \A k \in Clients : ~Hushed(call[k]).quiet
    BY HushedType DEF TypeInv, CallTypes
<1>3. \A g \in FileSystems, q \in FilePaths :
          Steady(g, q) \/ \A k \in Clients \ {c} :
                              Contains(call[k].meant, <<g, q>>) => ~call'[k].quiet
    BY <1>1, <1>2
<1> QED BY <1>1, <1>3 DEF DiskStep

LEMMA RemovedDisk ==
    ASSUME TypeInv, NEW c \in Clients, NEW f \in FileSystems, NEW p \in LocalPaths,
           NEW x \in Calls, Touch(c, f, p, x),
           node' = [node EXCEPT ![f][p] = Nothing], UNCHANGED data
    PROVE  DiskStep(c) /\ Moves(c) /\ call'[c] = x
<1>1. ASSUME NEW g \in FileSystems, NEW q \in LocalPaths
      PROVE  node'[g][q] = IF g = f /\ q = p THEN Nothing ELSE node[g][q]
    BY DEF TypeInv, DiskInv
<1>2. Nothing \notin DOMAIN data
    BY NoFile
<1>3. \A g \in FileSystems, q \in FilePaths : Steady(g, q) \/ (g = f /\ q = p)
    BY <1>1, PathTypes DEF Steady
<1> QED BY <1>1, <1>2, <1>3, Noticed

LEMMA NewDisk ==
    ASSUME TypeInv, NEW c \in Clients, NEW f \in FileSystems, NEW p \in LocalPaths,
           NEW x \in Calls, Touch(c, f, p, x), NEW bytes \in Seq(Byte),
           data' = Append(data, bytes), node' = [node EXCEPT ![f][p] = Len(data) + 1],
           UNCHANGED down
    PROVE  /\ DiskStep(c) /\ Moves(c) /\ call'[c] = x
           /\ \A g \in FileSystems, q \in LocalPaths :
                  IF g = f /\ q = p THEN node'[g][q] = Len(data) + 1 ELSE Steady(g, q)
<1>1. /\ DOMAIN data \subseteq DOMAIN data' /\ Len(data) + 1 \in Nat
      /\ \A i \in DOMAIN data : data'[i] = data[i]
    BY NewFile
<1>2. ASSUME NEW g \in FileSystems, NEW q \in LocalPaths
      PROVE  node'[g][q] = IF g = f /\ q = p THEN Len(data) + 1 ELSE node[g][q]
    BY DEF TypeInv, DiskInv
<1>3. Len(data) + 1 \notin DOMAIN data
    BY NoFile
<1>4. \A g \in FileSystems, q \in LocalPaths :
          IF g = f /\ q = p THEN node'[g][q] = Len(data) + 1 ELSE Steady(g, q)
    BY <1>1, <1>2 DEF Steady
<1>5. \A g \in FileSystems, q \in FilePaths : Steady(g, q) \/ (g = f /\ q = p)
    BY <1>4, PathTypes
<1>6. \A g \in FileSystems, q \in LocalPaths :
          node'[g][q] \in DOMAIN data' \ DOMAIN data => g = f /\ q = p
    <2>1. \A g \in FileSystems, q \in LocalPaths :
              node[g][q] \in DOMAIN data \cup {Nothing, Directory}
        BY DEF TypeInv, DiskInv
    <2>2. Nothing \notin DOMAIN data' /\ Directory \notin DOMAIN data'
        <3>1. DOMAIN data' \subseteq Nat
            BY NewFile, LenProperties DEF DiskInv
        <3> QED BY <3>1, MarkAssumption
    <2> QED BY <1>2, <2>1, <2>2
<1> QED BY <1>1, <1>2, <1>3, <1>4, <1>5, <1>6, Noticed

\* What is written to an open file changes the file its name stood for.
LEMMA FlushDisk ==
    ASSUME TypeInv, NEW c \in Clients, NEW n \in DOMAIN call[c].file,
           call[c].file[n] \in Handle, call[c].file[n].node \in DOMAIN data,
           Path(c, n) \in LocalPaths, HandlesPlaced(call[c]),
           NEW bytes, NEW x \in Calls, Flush(c, n, bytes, x)
    PROVE  /\ DiskStep(c) /\ Moves(c) /\ call'[c] = x
           /\ \A g \in FileSystems, q \in LocalPaths :
                  Steady(g, q) \/ (g = call[c].file[n].home /\ q = Path(c, n))
           /\ \A i \in DOMAIN data :
                  data'[i] = IF i = call[c].file[n].node THEN Overwrite(data[i], bytes) ELSE data[i]
           /\ DOMAIN data' = DOMAIN data
<1> DEFINE file == call[c].file[n]
           i == file.node
<1>1. /\ data' = [data EXCEPT ![i] = Overwrite(@, bytes)]
      /\ Touch(c, file.home, Path(c, n), x) /\ UNCHANGED <<tableVars, node, down, calls>>
    BY DEF Flush
<1>2. DOMAIN data' = DOMAIN data
    BY <1>1
<1>3. file.home \in FileSystems
    BY DEF Handle
<1>4. \A j \in DOMAIN data : data'[j] = IF j = i THEN Overwrite(data[j], bytes) ELSE data[j]
    BY <1>1
<1>5. ASSUME NEW g \in FileSystems, NEW q \in LocalPaths
      PROVE  Steady(g, q) \/ (g = file.home /\ q = Path(c, n))
    <2>1. CASE node[g][q] = i
        BY <2>1 DEF HandlesPlaced, Path
    <2>2. CASE node[g][q] # i
        BY <1>1, <1>4, <2>2 DEF Steady
    <2> QED BY <2>1, <2>2
<1> HIDE DEF i, file
<1>6. \A g \in FileSystems, q \in FilePaths : Steady(g, q) \/ (g = file.home /\ q = Path(c, n))
    BY <1>5, PathTypes
<1>7. DiskStep(c) /\ Moves(c) /\ call'[c] = x
    BY <1>1, <1>2, <1>3, <1>6, Noticed
<1> QED BY <1>2, <1>4, <1>5, <1>7 DEF i, file

\* Directories come and go, files stay.
LEMMA DirsDisk ==
    ASSUME TypeInv, NEW c \in Clients, UNCHANGED data,
           \A g \in FileSystems, q \in LocalPaths :
               node'[g][q] \in {node[g][q], Nothing, Directory},
           \A g \in FileSystems, q \in FilePaths : node'[g][q] = node[g][q]
    PROVE  DiskStep(c)
<1>1. Nothing \notin DOMAIN data /\ Directory \notin DOMAIN data
    BY NoFile
<1> QED BY <1>1 DEF DiskStep, Steady

-----------------------------------------------------------------------------
(* The calls of one name.                                                  *)

LEMMA PlainGood ==
    ASSUME TypeInv, NEW c \in Clients, call[c].op # "copy", UNCHANGED tableVars, Moves(c),
           DiskStep(c), call'[c].op = call[c].op,
           call'[c] \in FileCall => (HandlesPlaced(call[c]))'
    PROVE  Good(c)
<1>1. TableStep(c)
    BY DEF TableStep, tableVars
<1> QED BY <1>1 DEF Good, Contained, CopyInv

LEMMA EndedOp ==
    ASSUME TypeInv, NEW c \in Clients
    PROVE  Ended(c) \in Calls /\ Ended(c) \notin FileCall /\ Ended(c).op = call[c].op
BY EndedType, NotFile, OverFields DEF Ended

LEMMA PlacedNow ==
    ASSUME TypeInv, PlaceInv, NEW c \in Clients, call[c].at \in FileSteps
    PROVE  HandlesPlaced(call[c])
BY FileAt DEF PlaceInv

LEMMA PlainGoto ==
    ASSUME TypeInv, PlaceInv, NEW c \in Clients, call[c].at \in FileSteps, call[c].op # "copy",
           NEW step \in FileSteps, Goto(c, step), UNCHANGED <<tableVars, diskVars, calls>>
    PROVE  Good(c)
<1> DEFINE x == [call[c] EXCEPT !.at = step]
<1>1. /\ x \in FileCall /\ x.file = call[c].file /\ x.op = call[c].op /\ x.path = call[c].path
    BY FileAt, AtFields
<1>2. call' = [call EXCEPT ![c] = x]
    BY DEF Goto
<1> HIDE DEF x
<1>3. HandlesPlaced(x) /\ CopyInv(x)
    BY <1>1, PlacedNow DEF HandlesPlaced, CopyInv
<1> QED BY <1>1, <1>2, <1>3, GoesOnGood DEF diskVars

LEMMA RemoveExistsGood ==
    ASSUME TypeInv, PlaceInv, NEW c \in Clients, RemoveExists(c) PROVE Good(c)
<1>1. call[c].op = "remove" /\ call[c].at \in FileSteps /\ "remove" \in FileSteps
    BY StepAt DEF RemoveExists, FileSteps, CopySteps
<1>2. CASE Found(c, 1, "remove")
    BY <1>1, <1>2, PlainGoto DEF Found
<1>3. CASE Return(c, "ok") /\ UNCHANGED <<tableVars, diskVars, calls>>
    BY <1>1, <1>3, EndsGood DEF diskVars
<1> QED BY <1>2, <1>3, UnansweredGood DEF RemoveExists

LEMMA FileRemoveGood ==
    ASSUME TypeInv, PlaceInv, NEW c \in Clients, FileRemove(c) PROVE Good(c)
<1>1. call[c].op = "remove" /\ call[c].at \in FileSteps /\ 1 \in DOMAIN call[c].path
    BY StepAt, OneName DEF FileRemove, FileSteps, CopySteps
<1>2. CASE Raise(c) /\ UNCHANGED <<tableVars, node, data>>
    BY <1>2, RaisedGood
<1>3. CASE /\ Answers(c, 1)
           /\ node' = [node EXCEPT ![Fs(c, 1)][Path(c, 1)] = Nothing]
           /\ Touch(c, Fs(c, 1), Path(c, 1), Ended(c))
           /\ UNCHANGED <<tableVars, data, down, calls>>
    <2>1. Fs(c, 1) \in FileSystems /\ Path(c, 1) \in LocalPaths
        BY <1>1, <1>3, NodeType
    <2>2. DiskStep(c) /\ Moves(c) /\ call'[c] = Ended(c)
        BY <1>3, <2>1, EndedOp, RemovedDisk
    <2> QED BY <1>1, <1>3, <2>2, EndedOp, PlainGood
<1> QED BY <1>2, <1>3, UnansweredGood DEF FileRemove, Abort, diskVars

LEMMA FileMkdirGood ==
    ASSUME TypeInv, PlaceInv, NEW c \in Clients, FileMkdir(c) PROVE Good(c)
<1>1. call[c].op = "mkdir" /\ call[c].at \in FileSteps /\ 1 \in DOMAIN call[c].path
    BY StepAt, OneName DEF FileMkdir, FileSteps, CopySteps
<1>2. CASE Raise(c) /\ UNCHANGED <<tableVars, diskVars, calls>>
    BY <1>2, RaisedGood DEF diskVars
<1>3. CASE /\ Answers(c, 1)
           /\ node' = [node EXCEPT ![Fs(c, 1)] = [q \in LocalPaths |->
                          IF IsPrefix(q, Path(c, 1)) THEN Directory ELSE @[q]]]
           /\ Return(c, "ok")
           /\ UNCHANGED <<tableVars, data, down, calls>>
    <2>1. Fs(c, 1) \in FileSystems /\ Path(c, 1) \in LocalPaths
        BY <1>1, <1>3, NodeType
    <2>2. Prefixes(Path(c, 1)) \cap FilePaths = {}
        BY <1>1, FileAt DEF FileInv, Named, Path
    <2>3. \A q \in FilePaths : ~IsPrefix(q, Path(c, 1)) /\ q \in LocalPaths
        BY <2>1, <2>2, SparesFiles, PathTypes
    <2>4. \A g \in FileSystems, q \in LocalPaths :
              node'[g][q] = IF g = Fs(c, 1) /\ IsPrefix(q, Path(c, 1)) THEN Directory
                            ELSE node[g][q]
        BY <1>3, <2>1 DEF TypeInv, DiskInv
    <2>5. DiskStep(c)
        BY <1>3, <2>3, <2>4, DirsDisk
    <2>6. Moves(c) /\ call'[c].op = call[c].op /\ call'[c] \notin FileCall
        BY <1>3, ReturnEffect, OverFields, NotFile
    <2> QED BY <1>1, <1>3, <2>5, <2>6, PlainGood
<1> QED BY <1>2, <1>3, UnansweredGood DEF FileMkdir

LEMMA RmdirCheckGood ==
    ASSUME TypeInv, PlaceInv, NEW c \in Clients, RmdirCheck(c) PROVE Good(c)
<1>1. call[c].op = "rmdir" /\ call[c].at \in FileSteps /\ "purge" \in FileSteps
    BY StepAt DEF RmdirCheck, FileSteps, CopySteps
<1>2. CASE Raise(c) /\ UNCHANGED <<tableVars, diskVars, calls>>
    BY <1>2, RaisedGood DEF diskVars
<1>3. CASE Found(c, 1, "purge")
    BY <1>1, <1>3, PlainGoto DEF Found
<1> QED BY <1>2, <1>3, UnansweredGood DEF RmdirCheck

LEMMA RmdirPurgeGood ==
    ASSUME TypeInv, PlaceInv, NEW c \in Clients, RmdirPurge(c) PROVE Good(c)
<1>1. call[c].op = "rmdir" /\ call[c].at \in FileSteps /\ 1 \in DOMAIN call[c].path
    BY StepAt, OneName DEF RmdirPurge, FileSteps, CopySteps
<1>2. CASE Raise(c) /\ UNCHANGED <<tableVars, node, data>>
    BY <1>2, RaisedGood
<1>3. CASE /\ Answers(c, 1)
           /\ \E gone \in SUBSET {d \in DirsIn(c) : ~HoldsFile(c, d)} :
                  node' = [node EXCEPT ![Fs(c, 1)] = [q \in LocalPaths |->
                              IF q \in gone THEN Nothing ELSE @[q]]]
           /\ Return(c, IF HoldsFile(c, Path(c, 1)) THEN "raised" ELSE "ok")
           /\ UNCHANGED <<tableVars, data, down, calls>>
    <2>1. Fs(c, 1) \in FileSystems
        BY <1>1, <1>3, NodeType
    <2>2. PICK gone \in SUBSET {d \in DirsIn(c) : ~HoldsFile(c, d)} :
              node' = [node EXCEPT ![Fs(c, 1)] = [q \in LocalPaths |->
                          IF q \in gone THEN Nothing ELSE @[q]]]
        BY <1>3
    <2>3. \A g \in FileSystems, q \in LocalPaths :
              node'[g][q] = IF g = Fs(c, 1) /\ q \in gone THEN Nothing ELSE node[g][q]
        BY <2>1, <2>2 DEF TypeInv, DiskInv
    <2>4. \A q \in FilePaths : q \notin gone /\ q \in LocalPaths
        BY <2>1, PathTypes DEF DirsIn, TypeInv, DiskInv
    <2>5. DiskStep(c)
        BY <1>3, <2>3, <2>4, DirsDisk
    <2>6. Moves(c) /\ call'[c].op = call[c].op /\ call'[c] \notin FileCall
        BY <1>3, ReturnEffect, OverFields, NotFile
    <2> QED BY <1>1, <1>3, <2>5, <2>6, PlainGood
<1> QED BY <1>2, <1>3, UnansweredGood DEF RmdirPurge, Abort

LEMMA HeldPlaced ==
    ASSUME TypeInv, TypeInv', NEW c \in Clients, call[c].at \in FileSteps,
           Fs(c, 1) \in FileSystems, NEW v \in Nat \cup {Nothing}, call'[c] = Held(c, v),
           \A g \in FileSystems, q \in LocalPaths :
               node'[g][q] = v /\ v \in DOMAIN data' => g = Fs(c, 1) /\ q = Path(c, 1)
    PROVE  (HandlesPlaced(call[c]))' /\ call'[c].op = call[c].op
<1>1. /\ call'[c].file = <<[home |-> Fs(c, 1), node |-> v]>>
      /\ call'[c].op = call[c].op /\ call'[c].path = call[c].path
    BY HeldType
<1>2. /\ DOMAIN call'[c].file = {1}
      /\ call'[c].file[1].home = Fs(c, 1) /\ call'[c].file[1].node = v
    BY <1>1
<1> QED BY <1>1, <1>2 DEF HandlesPlaced, Path

LEMMA FileCreateGood ==
    ASSUME TypeInv, TypeInv', PlaceInv, NEW c \in Clients, FileCreate(c) PROVE Good(c)
<1>1. call[c].op = "create" /\ call[c].at \in FileSteps /\ 1 \in DOMAIN call[c].path
    BY StepAt, OneName DEF FileCreate, FileSteps, CopySteps
<1>2. CASE Raise(c) /\ UNCHANGED <<tableVars, diskVars, calls>>
    BY <1>2, RaisedGood DEF diskVars
<1>3. CASE /\ Answers(c, 1) /\ call' = [call EXCEPT ![c] = Held(c, Nothing)]
           /\ UNCHANGED <<tableVars, diskVars, calls>>
    <2>1. Fs(c, 1) \in FileSystems
        BY <1>1, <1>3, NodeType
    <2>2. Held(c, Nothing) \in FileCall
        BY <1>1, <2>1, HeldType
    <2>3. Moves(c) /\ call'[c] = Held(c, Nothing)
        BY <1>3, <2>2, MovesPlain DEF TypeInv, Calls
    <2>4. Nothing \notin DOMAIN data'
        BY <1>3, NoFile DEF diskVars
    <2>5. (HandlesPlaced(call[c]))' /\ call'[c].op = call[c].op
        BY <1>1, <2>1, <2>3, <2>4, HeldPlaced
    <2> QED BY <1>1, <1>3, <2>3, <2>5, PlainGood, StillDisk DEF diskVars
<1>4. CASE /\ Answers(c, 1) /\ data' = Append(data, << >>)
           /\ node' = [node EXCEPT ![Fs(c, 1)][Path(c, 1)] = Len(data) + 1]
           /\ Touch(c, Fs(c, 1), Path(c, 1), Held(c, Len(data) + 1))
           /\ UNCHANGED <<tableVars, down, calls>>
    <2>1. Fs(c, 1) \in FileSystems /\ Path(c, 1) \in LocalPaths /\ << >> \in Seq(Byte)
        BY <1>1, <1>4, NodeType, EmptySeq
    <2>2. Len(data) + 1 \in Nat /\ Len(data) + 1 \notin DOMAIN data
        BY NoFile
    <2>3. Held(c, Len(data) + 1) \in Calls
        BY <1>1, <2>1, <2>2, HeldType DEF Calls
    <2>4. /\ DiskStep(c) /\ Moves(c) /\ call'[c] = Held(c, Len(data) + 1)
          /\ \A g \in FileSystems, q \in LocalPaths :
                 IF g = Fs(c, 1) /\ q = Path(c, 1) THEN node'[g][q] = Len(data) + 1
                 ELSE Steady(g, q)
        <3> DEFINE f == Fs(c, 1)
                   p == Path(c, 1)
                   x == Held(c, Len(data) + 1)
        <3>1. /\ Touch(c, f, p, x) /\ f \in FileSystems /\ p \in LocalPaths /\ x \in Calls
              /\ data' = Append(data, << >>) /\ << >> \in Seq(Byte) /\ UNCHANGED down
              /\ node' = [node EXCEPT ![f][p] = Len(data) + 1]
            BY <1>4, <2>1, <2>3
        <3> HIDE DEF f, p, x
        <3>2. /\ DiskStep(c) /\ Moves(c) /\ call'[c] = x
              /\ \A g \in FileSystems, q \in LocalPaths :
                     IF g = f /\ q = p THEN node'[g][q] = Len(data) + 1 ELSE Steady(g, q)
            BY <3>1, NewDisk
        <3> QED BY <3>2 DEF f, p, x
    <2>5. \A g \in FileSystems, q \in LocalPaths :
              node'[g][q] = Len(data) + 1 => g = Fs(c, 1) /\ q = Path(c, 1)
        <3>1. \A g \in FileSystems, q \in LocalPaths : node[g][q] # Len(data) + 1
            BY <2>2, NoFile DEF TypeInv, DiskInv
        <3> QED BY <2>4, <3>1 DEF Steady
    <2>6. (HandlesPlaced(call[c]))' /\ call'[c].op = call[c].op
        BY <1>1, <2>1, <2>2, <2>4, <2>5, HeldPlaced
    <2> QED BY <1>1, <1>4, <2>4, <2>6, PlainGood
<1> QED BY <1>2, <1>3, <1>4, UnansweredGood DEF FileCreate, Creates

LEMMA FileOpenGood ==
    ASSUME TypeInv, TypeInv', PlaceInv, NEW c \in Clients, FileOpen(c) PROVE Good(c)
<1>1. call[c].op = "open" /\ call[c].at \in FileSteps /\ 1 \in DOMAIN call[c].path
    BY StepAt, OneName DEF FileOpen, FileSteps, CopySteps
<1>2. CASE Raise(c) /\ UNCHANGED <<tableVars, diskVars, calls>>
    BY <1>2, RaisedGood DEF diskVars
<1>3. CASE /\ Answers(c, 1) /\ call' = [call EXCEPT ![c] = Held(c, Node(c, 1))]
           /\ UNCHANGED <<tableVars, diskVars, calls>>
    <2>1. /\ Fs(c, 1) \in FileSystems /\ Path(c, 1) \in LocalPaths
          /\ Node(c, 1) \in DOMAIN data \cup {Nothing}
        BY <1>1, <1>3, NodeType
    <2>2. Node(c, 1) \in Nat \cup {Nothing}
        BY <2>1, NoFile
    <2>3. Held(c, Node(c, 1)) \in FileCall
        BY <1>1, <2>1, <2>2, HeldType
    <2>4. Moves(c) /\ call'[c] = Held(c, Node(c, 1))
        BY <1>3, <2>3, MovesPlain DEF TypeInv, Calls
    <2>5. \A g \in FileSystems, q \in LocalPaths :
              node'[g][q] = Node(c, 1) /\ Node(c, 1) \in DOMAIN data' =>
                  g = Fs(c, 1) /\ q = Path(c, 1)
        BY <1>3, <2>1 DEF PlaceInv, Node, diskVars
    <2>6. (HandlesPlaced(call[c]))' /\ call'[c].op = call[c].op
        BY <1>1, <2>1, <2>2, <2>4, <2>5, HeldPlaced
    <2> QED BY <1>1, <1>3, <2>4, <2>6, PlainGood, StillDisk DEF diskVars
<1> QED BY <1>2, <1>3, UnansweredGood DEF FileOpen

LEMMA FileWriteGood ==
    ASSUME TypeInv, PlaceInv, NEW c \in Clients, FileWrite(c) PROVE Good(c)
<1>1. call[c].at = "held" /\ call[c].at \in FileSteps /\ "close" \in FileSteps
    BY DEF FileWrite, FileSteps
<1>2. /\ call[c].op # "copy" /\ Len(call[c].file) = 1 /\ 1 \in DOMAIN call[c].file
      /\ call[c].file[1] \in Handle /\ HandlesPlaced(call[c]) /\ call[c] \in FileCall
      /\ Path(c, 1) \in LocalPaths /\ call[c].file[1].node \in DOMAIN data \cup {Nothing}
    BY <1>1, FileAt, OneName, PlacedNow DEF FileInv, Opened
<1>3. CASE Raise(c) /\ UNCHANGED <<tableVars, diskVars, calls>>
    BY <1>3, RaisedGood DEF diskVars
<1>4. CASE call[c].file[1].node # Nothing /\ \E b \in Block : Write(c, 1, <<b>>, "close")
    <2>1. PICK b \in Block : Write(c, 1, <<b>>, "close")
        BY <1>4
    <2>2. <<b>> \in Seq(Byte) /\ << >> \in Seq(Byte)
        BY EmptySeq DEF Byte
    <2>3. ASSUME NEW got \in {<< >>, <<b>>}
          PROVE  LET x == [call[c] EXCEPT !.at = "close", !.got = got]
                 IN  /\ x \in FileCall /\ x.file = call[c].file
                     /\ x.path = call[c].path /\ x.op = call[c].op
        <3>1. "close" \in FileSteps /\ got \in Nat \cup Seq(Byte)
            BY <1>1, <2>2
        <3> QED BY <1>2, <3>1 DEF FileCall
    <2>4. CASE Flush(c, 1, <<b>>, [call[c] EXCEPT !.at = "close", !.got = << >>])
        <3> DEFINE x == [call[c] EXCEPT !.at = "close", !.got = << >>]
        <3>1. /\ x \in Calls /\ x.file = call[c].file /\ x.path = call[c].path
              /\ x.op = call[c].op /\ Flush(c, 1, <<b>>, x)
            BY <2>3, <2>4 DEF Calls
        <3> HIDE DEF x
        <3>2. /\ DiskStep(c) /\ Moves(c) /\ call'[c] = x /\ DOMAIN data' = DOMAIN data
            BY <1>2, <1>4, <3>1, FlushDisk
        <3>3. UNCHANGED <<tableVars, node>>
            BY <2>4 DEF Flush
        <3>4. (HandlesPlaced(call[c]))'
            BY <1>2, <3>1, <3>2, <3>3 DEF HandlesPlaced
        <3> QED BY <1>2, <3>1, <3>2, <3>3, <3>4, PlainGood
    <2>5. CASE /\ call' = [call EXCEPT ![c].at = "close", ![c].got = <<b>>]
               /\ UNCHANGED <<tableVars, diskVars, calls>>
        <3> DEFINE x == [call[c] EXCEPT !.at = "close", !.got = <<b>>]
        <3>1. /\ x \in FileCall /\ x.file = call[c].file /\ x.path = call[c].path
              /\ x.op = call[c].op /\ call' = [call EXCEPT ![c] = x]
            BY <2>3, <2>5
        <3> HIDE DEF x
        <3>2. HandlesPlaced(x) /\ CopyInv(x)
            BY <1>2, <3>1 DEF HandlesPlaced, CopyInv
        <3> QED BY <2>5, <3>1, <3>2, GoesOnGood DEF diskVars
    <2>6. ASSUME NEW taken \in Some(<<b>>), Flush(c, 1, taken, Over(call[c], "raised"))
          PROVE  Good(c)
        <3>1. /\ Over(call[c], "raised") \in Calls /\ Over(call[c], "raised") \notin FileCall
              /\ Over(call[c], "raised").op = call[c].op
            BY OverType, NotFile, OverFields DEF TypeInv, CallTypes, Calls
        <3>2. taken \in Seq(Byte)
            BY <2>2, SomeTypes
        <3>3. call[c].file[1].node \in DOMAIN data
            BY <1>2, <1>4
        <3> HIDE DEF Over
        <3>4. DiskStep(c) /\ Moves(c) /\ call'[c] = Over(call[c], "raised")
            BY <1>1, <1>2, <2>6, <3>1, <3>2, <3>3, FlushDisk
        <3>5. UNCHANGED tableVars
            BY <2>6 DEF Flush
        <3> QED BY <1>2, <3>1, <3>4, <3>5, PlainGood
    <2> QED BY <2>1, <2>4, <2>5, <2>6 DEF Write
<1> QED BY <1>3, <1>4, UnansweredGood DEF FileWrite

LEMMA FileCloseGood ==
    ASSUME TypeInv, PlaceInv, NEW c \in Clients, FileClose(c) PROVE Good(c)
<1>1. call[c].at = "close" /\ call[c].at \in FileSteps
    BY DEF FileClose, FileSteps
<1>2. ASSUME NEW taken \in Some(call[c].got), Flush(c, 1, taken, Ended(c)) PROVE Good(c)
    <2>1. /\ call[c].op # "copy" /\ Len(call[c].file) = 1 /\ 1 \in DOMAIN call[c].file
          /\ call[c].file[1] \in Handle /\ HandlesPlaced(call[c])
          /\ Path(c, 1) \in LocalPaths /\ call[c].file[1].node \in DOMAIN data
          /\ taken \in Seq(Byte)
        BY <1>1, FileAt, OneName, PlacedNow, SomeTypes DEF FileInv, Opened
    <2>2. /\ DiskStep(c) /\ Moves(c) /\ call'[c] = Ended(c)
        BY <1>2, <2>1, EndedOp, FlushDisk
    <2>3. UNCHANGED tableVars
        BY <1>2 DEF Flush
    <2> QED BY <2>1, <2>2, <2>3, EndedOp, PlainGood
<1> QED BY <1>2, UnansweredGood DEF FileClose

LEMMA SingleGood ==
    ASSUME TypeInv, TypeInv', PlaceInv, NEW c \in Clients, Single(c) PROVE Good(c)
BY RemoveExistsGood, FileRemoveGood, FileMkdirGood, RmdirCheckGood, RmdirPurgeGood,
   FileCreateGood, FileOpenGood, FileWriteGood, FileCloseGood DEF Single

-----------------------------------------------------------------------------
(* The steps of a copy.                                                    *)

LEMMA CopyKnows ==
    ASSUME TypeInv, CopiesInv, NEW c \in Clients, NEW step \in CopySteps,
           Step(c, "copy", step), call[c].quiet
    PROVE  /\ Foreseen(call[c]) /\ Leads(call[c])
           /\ call[c].before[2] = Nothing => Content(call[c])
           /\ \A n \in {1, 2} : /\ call[c].meant[n] = <<Fs(c, n), Path(c, n)>>
                                /\ Fs(c, n) \in FileSystems /\ Path(c, n) \in FilePaths
                                /\ Path(c, n) \in LocalPaths
                                /\ At(call[c].meant[n]) = Node(c, n)
<1>1. call[c] \in FileCall /\ call[c].op = "copy"
    BY CopyAt
<1>2. Foreseen(call[c]) /\ (call[c].before[2] = Nothing => Content(call[c]))
    BY <1>1 DEF CopiesInv, CopyInv
<1>3. Leads(call[c])
    BY <1>1, <1>2 DEF Foreseen
<1>4. ASSUME NEW n \in {1, 2}
      PROVE  /\ call[c].meant[n] = <<Fs(c, n), Path(c, n)>>
             /\ Fs(c, n) \in FileSystems /\ Path(c, n) \in FilePaths
             /\ Path(c, n) \in LocalPaths
             /\ At(call[c].meant[n]) = Node(c, n)
    <2>0. n \in 1 .. 2
        OBVIOUS
    <2>1. call[c].meant[n] = <<Fs(c, n), Path(c, n)>>
        BY <1>3, <2>0 DEF Leads, Fs, Path
    <2>2. call[c].meant[n] \in FileSystems \X FilePaths
        BY <1>2, <2>0 DEF Foreseen
    <2>3. Fs(c, n) \in FileSystems /\ Path(c, n) \in FilePaths
        BY <2>1, <2>2
    <2> QED BY <2>1, <2>3, PathTypes DEF At, Node
<1> QED BY <1>2, <1>3, <1>4

\* Where the names of a copy lead does not change as it goes on.
LEMMA Carried ==
    ASSUME TypeInv, CopiesInv, NEW c \in Clients, NEW from \in CopySteps,
           Step(c, "copy", from), NEW x \in FileCall,
           x.fs = call[c].fs, x.path = call[c].path, x.quiet = call[c].quiet,
           x.meant = call[c].meant,
           x.quiet => \A n \in DOMAIN x.file : x.file[n].home = x.meant[n][1]
    PROVE  x.quiet => Foreseen(x) /\ Leads(x)
<1> SUFFICES ASSUME x.quiet PROVE Foreseen(x) /\ Leads(x)
    OBVIOUS
<1>1. Foreseen(call[c]) /\ Leads(call[c])
    BY CopyKnows
<1>2. Leads(x)
    BY <1>1 DEF Leads
<1> QED BY <1>1, <1>2 DEF Foreseen

LEMMA CopyGoesOnGood ==
    ASSUME TypeInv, PlaceInv, CopiesInv, NEW c \in Clients, NEW from \in CopySteps,
           Step(c, "copy", from), NEW x \in FileCall, call' = [call EXCEPT ![c] = x],
           UNCHANGED <<tableVars, diskVars, calls>>, x.file = call[c].file,
           x.fs = call[c].fs, x.path = call[c].path, x.quiet = call[c].quiet,
           x.meant = call[c].meant, x.before = call[c].before,
           call[c].quiet /\ call[c].before[2] = Nothing /\ Content(call[c]) => Content(x)
    PROVE  Good(c)
<1>1. call[c].at \in FileSteps /\ call[c].op = "copy"
    BY CopyAt
<1>2. HandlesPlaced(x)
    <2>1. HandlesPlaced(call[c])
        BY <1>1, PlacedNow
    <2> QED BY <2>1 DEF HandlesPlaced
<1>3. CopyInv(x)
    <2>1. x.quiet => \A n \in DOMAIN x.file : x.file[n].home = x.meant[n][1]
        <3>1. x.quiet => Leads(call[c])
            BY CopyKnows
        <3> QED BY <3>1 DEF Leads
    <2>2. x.quiet => Foreseen(x)
        BY <2>1, Carried
    <2>3. x.quiet /\ x.before[2] = Nothing => Content(x)
        BY CopyKnows
    <2> QED BY <2>2, <2>3 DEF CopyInv
<1> QED BY <1>2, <1>3, GoesOnGood DEF diskVars

LEMMA CopyGoto ==
    ASSUME TypeInv, PlaceInv, CopiesInv, NEW c \in Clients, NEW from \in CopySteps,
           Step(c, "copy", from), NEW step \in CopySteps, Goto(c, step),
           UNCHANGED <<tableVars, diskVars, calls>>,
           ASSUME NEW x \in FileCall, x.at = step, x.file = call[c].file, x.got = call[c].got,
                  x.meant = call[c].meant, x.cut = call[c].cut, Content(call[c]), call[c].quiet
           PROVE  Content(x)
    PROVE  Good(c)
<1> DEFINE x == [call[c] EXCEPT !.at = step]
<1>1. /\ x \in FileCall /\ x.at = step /\ x.got = call[c].got /\ x.file = call[c].file
      /\ x.fs = call[c].fs /\ x.path = call[c].path /\ x.quiet = call[c].quiet
      /\ x.meant = call[c].meant /\ x.before = call[c].before
    BY CopyAt, AtFields DEF FileSteps
<1>2. call' = [call EXCEPT ![c] = x]
    BY DEF Goto
<1>4. x.cut = call[c].cut
    BY CopyAt DEF FileCall
<1> HIDE DEF x
<1>3. Content(call[c]) /\ call[c].quiet => Content(x)
    BY <1>1, <1>4
<1> QED BY <1>1, <1>2, <1>3, CopyGoesOnGood

LEMMA CopyExistsGood ==
    ASSUME TypeInv, PlaceInv, CopiesInv, NEW c \in Clients, CopyExists(c) PROVE Good(c)
<1>0. Step(c, "copy", "exists") /\ "exists" \in CopySteps
    BY DEF CopyExists, CopySteps
<1>1. CASE Raise(c) /\ UNCHANGED <<tableVars, diskVars, calls>>
    BY <1>1, RaisedGood DEF diskVars
<1>2. CASE \E step \in {"copyFile", "openSource"} : Found(c, 1, step)
    <2>1. PICK step \in {"copyFile", "openSource"} : Found(c, 1, step)
        BY <1>2
    <2>2. step \in CopySteps /\ Goto(c, step) /\ UNCHANGED <<tableVars, diskVars, calls>>
        BY <2>1 DEF CopySteps, Found
    <2>3. ASSUME NEW x \in FileCall, x.at = step, x.file = call[c].file, x.got = call[c].got,
                 x.meant = call[c].meant, Content(call[c]), call[c].quiet
          PROVE  Content(x)
        <3>1. call[c].at = "exists" /\ x \notin EndedCall
            BY <1>0, CopyAt, NotFile
        <3> QED BY <2>3, <3>1 DEF Content, NoFileYet, SourceOpen, Sized, BothOpen
    <2> QED BY <1>0, <2>2, <2>3, CopyGoto
<1> QED BY <1>1, <1>2, UnansweredGood DEF CopyExists

\* A step is contained when it leaves every place alone but the one it may write.
LEMMA ContainedBy ==
    ASSUME TypeInv, TypeInv', NEW c \in Clients, DOMAIN data \subseteq DOMAIN data',
           call[c].op = "copy" /\ call[c].quiet =>
               \A f \in FileSystems, p \in LocalPaths :
                   Steady(f, p) \/ <<f, p>> = call[c].meant[2]
    PROVE  Contained(c)
BY SteadyBytes DEF Contained

\* What the step that ends a copy has to have done.
Brings(result, from, to) ==
    \/ Bytes(to)' = Bytes(from)'
    \/ result = "cut" /\ Bytes(to)' \in {Nothing} \cup Some(Bytes(from)')

\* A copy that is over has made one.
LEMMA CopyEnds ==
    ASSUME TypeInv, TypeInv', CopiesInv, NEW c \in Clients, NEW from \in CopySteps,
           Step(c, "copy", from), UNCHANGED tableVars, Moves(c), DiskStep(c), Contained(c),
           NEW result \in {"ok", "cut"}, call'[c] = Over(call[c], result),
           call[c].quiet /\ call[c].before[2] = Nothing =>
               \A f, g \in FileSystems, p, q \in LocalPaths :
                   call[c].meant = <<<<f, p>>, <<g, q>>>> =>
                       Brings(result, <<f, p>>, <<g, q>>)
    PROVE  Good(c)
<1> DEFINE x == Over(call[c], result)
<1>1. x \in EndedCall /\ x \notin FileCall
    BY OverType, NotFile DEF TypeInv, CallTypes
<1>2. /\ x.at = "done" /\ x.quiet = call[c].quiet /\ x.out = result
      /\ x.meant = call[c].meant /\ x.before = call[c].before
    <2>1. call[c].op = "copy" /\ call[c].quiet \in BOOLEAN
        BY CopyAt DEF FileCall
    <2> QED BY <2>1 DEF Over
<1>5. call'[c] = x
    OBVIOUS
<1> HIDE DEF x
<1>3. (CopyInv(call[c]))'
    <2> SUFFICES ASSUME call[c].quiet
                 PROVE  /\ (Foreseen(call[c]))'
                        /\ call[c].before[2] = Nothing => (Content(call[c]))'
        BY <1>2, <1>5 DEF CopyInv
    <2>1. Foreseen(call[c])
        BY CopyKnows
    <2>2. (Foreseen(call[c]))'
        BY <1>1, <1>2, <1>5, <2>1 DEF Foreseen
    <2>3. ASSUME call[c].before[2] = Nothing PROVE (Content(call[c]))'
        <3>0. PICK f \in FileSystems, p \in FilePaths, g \in FileSystems, q \in FilePaths :
                  call[c].meant[1] = <<f, p>> /\ call[c].meant[2] = <<g, q>>
            BY <2>1 DEF Foreseen
        <3>1. call[c].meant = <<<<f, p>>, <<g, q>>>>
            BY <2>1, <3>0, CopyAt DEF Foreseen, FileCall, Meant
        <3>4. Brings(result, <<f, p>>, <<g, q>>)
            BY <2>3, <3>1, PathTypes
        <3>5. /\ call'[c].meant[1] = <<f, p>> /\ call'[c].meant[2] = <<g, q>>
              /\ call'[c].out = result
            BY <1>2, <1>5, <3>0
        <3>6. (Bytes(call[c].meant[1]))' = Bytes(<<f, p>>)'
              /\ (Bytes(call[c].meant[2]))' = Bytes(<<g, q>>)'
            BY <3>5 DEF Bytes
        <3>2. (Copied(call[c]))'
            BY <3>4, <3>5, <3>6 DEF Copied, Brings
        <3> QED BY <1>1, <1>2, <1>5, <3>2 DEF Content, NoFileYet, SourceOpen, Sized, BothOpen
    <2> QED BY <2>2, <2>3
<1>4. TableStep(c)
    BY DEF TableStep, tableVars
<1> QED BY <1>1, <1>3, <1>4, <1>5 DEF Good

LEMMA CopyFileGood ==
    ASSUME TypeInv, TypeInv', PlaceInv, CopiesInv, NEW c \in Clients, CopyFile(c) PROVE Good(c)
<1>0. Step(c, "copy", "copyFile") /\ "copyFile" \in CopySteps
    BY DEF CopyFile, CopySteps
<1>1. CASE Raise(c) /\ UNCHANGED <<tableVars, diskVars, calls>>
    BY <1>1, RaisedGood DEF diskVars
<1>2. /\ call[c].at \in FileSteps /\ 1 \in DOMAIN call[c].path /\ 2 \in DOMAIN call[c].path
      /\ call[c].at = "copyFile" /\ call[c].op = "copy" /\ Fs(c, 1) = Fs(c, 2)
    BY <1>0, CopyAt DEF CopyOpened, Fs
<1>3. CASE /\ Answers(c, 1) /\ node[Fs(c, 1)][Path(c, 2)] # Nothing
           /\ Return(c, "ok") /\ UNCHANGED <<tableVars, diskVars, calls>>
    <2>1. call[c].quiet => call[c].before[2] # Nothing
        <3> SUFFICES ASSUME call[c].quiet, call[c].before[2] = Nothing PROVE FALSE
            OBVIOUS
        <3>1. Content(call[c]) /\ At(call[c].meant[2]) = Node(c, 2)
            BY <1>0, CopyKnows
        <3>2. Node(c, 2) = Nothing
            BY <1>2, <3>1 DEF Content, NoFileYet
        <3> QED BY <1>2, <1>3, <3>2 DEF Node
    <2>2. Moves(c) /\ call'[c] = Over(call[c], "ok")
        BY <1>3, ReturnEffect
    <2> QED BY <1>0, <1>3, <2>1, <2>2, StillDisk, CopyEnds DEF diskVars
<1>5. CASE /\ Answers(c, 1) /\ node[Fs(c, 1)][Path(c, 2)] = Nothing
           /\ Return(c, "cut") /\ UNCHANGED <<tableVars, diskVars, calls>>
    <2>1. Moves(c) /\ call'[c] = Over(call[c], "cut")
        BY <1>5, ReturnEffect
    <2>2. ASSUME call[c].quiet, NEW f \in FileSystems, NEW g \in FileSystems,
                 NEW p \in LocalPaths, NEW q \in LocalPaths,
                 call[c].meant = <<<<f, p>>, <<g, q>>>>
          PROVE  Brings("cut", <<f, p>>, <<g, q>>)
        <3>1. g = Fs(c, 2) /\ q = Path(c, 2)
            BY <1>0, <2>2, CopyKnows
        <3>2. node'[g][q] = Nothing /\ UNCHANGED data
            BY <1>2, <1>5, <3>1 DEF diskVars
        <3>3. Bytes(<<g, q>>)' = Nothing
            BY <3>2, NoFile DEF Bytes
        <3> QED BY <3>3 DEF Brings
    <2> QED BY <1>0, <1>5, <2>1, <2>2, StillDisk, CopyEnds DEF diskVars
<1>4. ASSUME Answers(c, 1), Node(c, 1) # Nothing,
             node[Fs(c, 1)][Path(c, 2)] = Nothing,
             NEW taken \in Some(data[Node(c, 1)]), data' = Append(data, taken),
             node' = [node EXCEPT ![Fs(c, 1)][Path(c, 2)] = Len(data) + 1],
             Touch(c, Fs(c, 1), Path(c, 2),
                   Over(call[c], Complete(data[Node(c, 1)], taken))),
             UNCHANGED <<tableVars, down, calls>>
      PROVE  Good(c)
    <2> DEFINE result == Complete(data[Node(c, 1)], taken)
               y == Over(call[c], result)
    <2>0. result \in {"ok", "cut"} /\ y \in Calls
        BY OverType DEF Complete, TypeInv, CallTypes, Calls
    <2>1. /\ Fs(c, 1) \in FileSystems /\ Node(c, 1) \in DOMAIN data
          /\ Path(c, 1) \in LocalPaths /\ Path(c, 2) \in LocalPaths
        BY <1>2, <1>4, NodeType, FileAt
    <2>2. PICK f \in FileSystems, p \in LocalPaths, q \in LocalPaths, from \in DOMAIN data :
              f = Fs(c, 1) /\ p = Path(c, 1) /\ q = Path(c, 2) /\ from = Node(c, 1)
        BY <2>1
    <2>3. /\ data[from] \in Seq(Byte) /\ from = node[f][p] /\ taken \in Some(data[from])
          /\ taken \in Seq(Byte) /\ (result = "cut" \/ taken = data[from])
        <3>1. data[from] \in Seq(Byte)
            BY <2>2, ElementOfSeq, LenProperties DEF TypeInv, DiskInv
        <3> QED BY <1>4, <2>2, <3>1, SomeTypes DEF Node, Complete
    <2>4. /\ Touch(c, f, q, y) /\ y \in Calls
          /\ data' = Append(data, taken)
          /\ node' = [node EXCEPT ![f][q] = Len(data) + 1] /\ UNCHANGED down
        BY <1>4, <2>0, <2>2
    <2> HIDE DEF result, y
    <2>5. /\ DiskStep(c) /\ Moves(c) /\ call'[c] = y
          /\ \A g \in FileSystems, l \in LocalPaths :
                 IF g = f /\ l = q THEN node'[g][l] = Len(data) + 1 ELSE Steady(g, l)
        BY <2>3, <2>4, NewDisk
    <2>6. /\ DOMAIN data \subseteq DOMAIN data' /\ Len(data) + 1 \in DOMAIN data'
          /\ data'[Len(data) + 1] = taken
        BY <2>3, <2>4, NewFile
    <2>7. call[c].quiet => call[c].meant[2] = <<f, q>> /\ call[c].meant[1] = <<f, p>>
        BY <1>0, <1>2, <2>2, CopyKnows
    <2>8. Contained(c)
        BY <2>5, <2>6, <2>7, ContainedBy
    <2>9. Brings(result, <<f, p>>, <<f, q>>)
        <3>1. Bytes(<<f, q>>)' = taken
            BY <2>5, <2>6 DEF Bytes
        <3>2. q # p
            BY <1>4, <2>2 DEF Node
        <3>3. Steady(f, p)
            BY <2>5, <3>2
        <3>4. Bytes(<<f, p>>)' = Bytes(<<f, p>>)
            BY <2>6, <3>3, SteadyBytes
        <3>5. Bytes(<<f, p>>) = data[from]
            BY <2>3 DEF Bytes
        <3> QED BY <2>3, <3>1, <3>4, <3>5 DEF Brings
    <2>10. call[c].quiet /\ call[c].before[2] = Nothing =>
               \A g, h \in FileSystems, l, m \in LocalPaths :
                   call[c].meant = <<<<g, l>>, <<h, m>>>> =>
                       Brings(result, <<g, l>>, <<h, m>>)
        BY <2>7, <2>9
    <2>11. UNCHANGED tableVars
        BY <1>4
    <2>12. call'[c] = Over(call[c], result)
        BY <2>5 DEF y
    <2> QED BY <1>0, <2>0, <2>5, <2>8, <2>10, <2>11, <2>12, CopyEnds
<1> QED BY <1>1, <1>3, <1>4, <1>5, UnansweredGood DEF CopyFile, Node

LEMMA OpensGood ==
    ASSUME TypeInv, PlaceInv, CopiesInv, NEW c \in Clients, NEW n \in {1, 2},
           NEW from \in CopySteps, NEW step \in CopySteps, Opens(c, n, from, step),
           Order(n, from, step)
    PROVE  Good(c)
<1>0. Step(c, "copy", from)
    BY DEF Opens
<1>1. CASE Raise(c) /\ UNCHANGED <<tableVars, diskVars, calls>>
    BY <1>1, RaisedGood DEF diskVars
<1>2. CASE OpensOne(c, n, step) /\ UNCHANGED <<tableVars, diskVars, calls>>
    <2>1. /\ Fs(c, n) \in FileSystems /\ Node(c, n) \in DOMAIN data
          /\ DOMAIN call[c].file = 1 .. (n - 1)
        BY <1>0, <1>2, OpensEffect
    <2>2. PICK x \in FileCall : OneMore(c, n, step, x)
        BY <1>0, <1>2, OpensEffect
    <2>3. /\ x.at = step /\ x.got = call[c].got /\ x.path = call[c].path /\ x.fs = call[c].fs
          /\ x.quiet = call[c].quiet /\ x.meant = call[c].meant /\ x.before = call[c].before
          /\ x.file[n].home = Fs(c, n) /\ x.file[n].node = Node(c, n)
          /\ \A i \in 1 .. (n - 1) : x.file[i] = call[c].file[i]
          /\ call' = [call EXCEPT ![c] = x] /\ DOMAIN x.file = 1 .. n
        BY <2>2 DEF OneMore
    <2>4. \A i \in DOMAIN x.file : i = n \/ (i \in 1 .. (n - 1) /\ i \in DOMAIN call[c].file)
        BY <2>1, <2>3
    <2>5. HandlesPlaced(x)
        <3>1. HandlesPlaced(call[c]) /\ Path(c, n) \in LocalPaths
            BY <1>0, CopyAt, PlacedNow, FileAt
        <3>2. \A f \in FileSystems, p \in LocalPaths :
                  node[f][p] = Node(c, n) => f = Fs(c, n) /\ p = Path(c, n)
            BY <2>1, <3>1 DEF PlaceInv, Node
        <3>3. ASSUME NEW i \in DOMAIN x.file, NEW f \in FileSystems, NEW p \in LocalPaths,
                     node[f][p] = x.file[i].node, x.file[i].node \in DOMAIN data
              PROVE  f = x.file[i].home /\ p = x.path[i]
            <4>1. CASE i = n
                BY <2>3, <3>2, <3>3, <4>1 DEF Path
            <4>2. CASE i \in 1 .. (n - 1) /\ i \in DOMAIN call[c].file
                BY <2>3, <3>1, <3>3, <4>2 DEF HandlesPlaced
            <4> QED BY <2>4, <4>1, <4>2
        <3> QED BY <3>3 DEF HandlesPlaced
    <2>6. x.quiet => Foreseen(x)
        <3>1. x.quiet => \A i \in DOMAIN x.file : x.file[i].home = x.meant[i][1]
            <4> SUFFICES ASSUME x.quiet, NEW i \in DOMAIN x.file
                         PROVE  x.file[i].home = x.meant[i][1]
                OBVIOUS
            <4>1. /\ Leads(call[c]) /\ call[c].meant[n] = <<Fs(c, n), Path(c, n)>>
                BY <1>0, <2>3, CopyKnows
            <4>2. CASE i = n
                BY <2>3, <4>1, <4>2
            <4>3. CASE i \in 1 .. (n - 1) /\ i \in DOMAIN call[c].file
                BY <2>3, <4>1, <4>3 DEF Leads
            <4> QED BY <2>4, <4>2, <4>3
        <3> QED BY <1>0, <2>3, <3>1, Carried
    <2>7. ASSUME x.quiet, x.before[2] = Nothing PROVE Content(x)
        <3>1. /\ Content(call[c]) /\ At(call[c].meant[1]) = Node(c, 1)
              /\ At(call[c].meant[2]) = Node(c, 2) /\ call[c].at = from /\ x \notin EndedCall
            BY <1>0, <2>3, <2>7, CopyKnows, CopyAt, NotFile
        <3>2. CASE n = 1 /\ from = "openSource" /\ step = "sizeOf"
            BY <2>1, <2>3, <3>1, <3>2 DEF Content, NoFileYet, SourceOpen, Sized, BothOpen
        <3>3. CASE n = 2 /\ from = "openCopy" /\ step = "read"
            <4>1. x.file[1] = call[c].file[1]
                BY <2>3, <3>3
            <4>2. Node(c, 2) # Nothing
                BY <1>2, <3>3 DEF OpensOne
            <4> QED BY <2>1, <2>3, <3>1, <3>3, <4>1, <4>2
                    DEF Content, NoFileYet, SourceOpen, Sized, BothOpen
        <3> QED BY <3>2, <3>3 DEF Order
    <2> QED BY <1>2, <2>3, <2>5, <2>6, <2>7, GoesOnGood DEF CopyInv, diskVars
<1> QED BY <1>1, <1>2, UnansweredGood DEF Opens, OpensOne

LEMMA OpenGood ==
    ASSUME TypeInv, PlaceInv, CopiesInv, NEW c \in Clients,
           OpenSource(c) \/ OpenDestination(c)
    PROVE  Good(c)
BY OpensGood DEF OpenSource, OpenDestination, CopySteps, Order

LEMMA SizeOfGood ==
    ASSUME TypeInv, PlaceInv, CopiesInv, NEW c \in Clients, SizeOf(c) PROVE Good(c)
<1>0. Step(c, "copy", "sizeOf") /\ {"sizeOf", "destination"} \subseteq CopySteps
    BY DEF SizeOf, CopySteps
<1>1. CASE Raise(c) /\ UNCHANGED <<tableVars, diskVars, calls>>
    BY <1>1, RaisedGood DEF diskVars
<1>2. CASE /\ call' = [call EXCEPT ![c].at = "destination",
                         ![c].got = Len(data[call[c].file[1].node])]
           /\ UNCHANGED <<tableVars, diskVars, calls>>
    <2> DEFINE got == Len(data[call[c].file[1].node])
               x == [call[c] EXCEPT !.at = "destination", !.got = got]
    <2>1. 1 \in DOMAIN call[c].file /\ call[c].file[1].node \in DOMAIN data
        BY <1>0, CopyAt DEF CopyOpened
    <2>2. got \in Nat
        BY <2>1, ElementOfSeq, LenProperties DEF TypeInv, DiskInv
    <2> HIDE DEF got
    <2>3. /\ x \in FileCall /\ x.at = "destination" /\ x.got = got
          /\ x.file = call[c].file /\ x.path = call[c].path
          /\ x.fs = call[c].fs /\ x.quiet = call[c].quiet
          /\ x.meant = call[c].meant /\ x.before = call[c].before
        <3>1. call[c] \in FileCall /\ "destination" \in FileSteps /\ got \in Nat \cup Seq(Byte)
            BY <1>0, <2>2, CopyAt DEF FileSteps
        <3> QED BY <3>1 DEF FileCall
    <2>4. call' = [call EXCEPT ![c] = x]
        BY <1>2 DEF got
    <2> HIDE DEF x
    <2>5. Content(call[c]) => Content(x)
        <3>1. call[c].at = "sizeOf" /\ x \notin EndedCall
            BY <1>0, <2>3, CopyAt, NotFile
        <3> QED BY <2>3, <3>1 DEF Content, NoFileYet, SourceOpen, Sized, BothOpen, got
    <2> QED BY <1>0, <1>2, <2>3, <2>4, <2>5, CopyGoesOnGood
<1> QED BY <1>1, <1>2, UnansweredGood DEF SizeOf

LEMMA DestinationExistsGood ==
    ASSUME TypeInv, PlaceInv, CopiesInv, NEW c \in Clients, DestinationExists(c) PROVE Good(c)
<1>0. /\ Step(c, "copy", "destination") /\ "destination" \in CopySteps
    BY DEF DestinationExists, CopySteps
<1>1. CASE \E step \in {"create", "openCopy"} : Found(c, 2, step)
    <2>1. PICK step \in {"create", "openCopy"} : Found(c, 2, step)
        BY <1>1
    <2>2. step \in CopySteps /\ Goto(c, step) /\ UNCHANGED <<tableVars, diskVars, calls>>
        BY <2>1 DEF CopySteps, Found
    <2>3. ASSUME NEW x \in FileCall, x.at = step, x.file = call[c].file, x.got = call[c].got,
                 x.meant = call[c].meant, Content(call[c]), call[c].quiet
          PROVE  Content(x)
        <3>1. call[c].at = "destination" /\ x \notin EndedCall
            BY <1>0, CopyAt, NotFile
        <3> QED BY <2>1, <2>3, <3>1 DEF Content, NoFileYet, SourceOpen, Sized, BothOpen
    <2> QED BY <1>0, <2>2, <2>3, CopyGoto
<1> QED BY <1>1, UnansweredGood DEF DestinationExists


\* A copy that has written, or made, a file goes on.
LEMMA CopyChanges ==
    ASSUME TypeInv, TypeInv', PlaceInv, CopiesInv, NEW c \in Clients, NEW from \in CopySteps,
           Step(c, "copy", from), UNCHANGED tableVars, Moves(c), DiskStep(c), Contained(c),
           NEW x \in FileCall, call'[c] = x, x.file = call[c].file,
           x.fs = call[c].fs, x.path = call[c].path, x.quiet = call[c].quiet,
           x.meant = call[c].meant, x.before = call[c].before,
           call[c].quiet /\ call[c].before[2] = Nothing => (Content(call[c]))'
    PROVE  Good(c)
<1>1. (HandlesPlaced(call[c]))'
    <2>1. /\ HandlesPlaced(call[c])
          /\ \A n \in DOMAIN call[c].file : call[c].file[n].node \in DOMAIN data
        BY CopyAt, PlacedNow
    <2>2. ASSUME NEW n \in DOMAIN call[c].file, NEW f \in FileSystems, NEW p \in LocalPaths,
                 node'[f][p] = call[c].file[n].node
          PROVE  f = call[c].file[n].home /\ p = call[c].path[n]
        <3>1. call[c].file[n].node \in DOMAIN data
            BY <2>1
        <3>2. node'[f][p] = node[f][p]
            BY <2>2, <3>1 DEF DiskStep
        <3>3. node[f][p] = call[c].file[n].node
            BY <2>2, <3>2
        <3> QED BY <2>1, <3>1, <3>3 DEF HandlesPlaced
    <2> QED BY <2>2 DEF HandlesPlaced
<1>2. (CopyInv(call[c]))'
    <2>1. x.quiet => \A n \in DOMAIN x.file : x.file[n].home = x.meant[n][1]
        <3>1. x.quiet => Leads(call[c])
            BY CopyKnows
        <3> QED BY <3>1 DEF Leads
    <2>2. x.quiet => Foreseen(x)
        BY <2>1, Carried
    <2>3. x.quiet => (Foreseen(call[c]))'
        BY <2>2 DEF Foreseen, Leads, tableVars
    <2> QED BY <2>3 DEF CopyInv
<1>3. TableStep(c)
    BY DEF TableStep, tableVars
<1> QED BY <1>1, <1>2, <1>3 DEF Good

LEMMA CreateDestinationGood ==
    ASSUME TypeInv, TypeInv', PlaceInv, CopiesInv, NEW c \in Clients, CreateDestination(c)
    PROVE  Good(c)
<1> DEFINE x == [call[c] EXCEPT !.at = "openCopy"]
<1>0. Step(c, "copy", "create") /\ {"create", "openCopy"} \subseteq CopySteps
    BY DEF CreateDestination, CopySteps
<1>1. /\ x \in FileCall /\ x.at = "openCopy" /\ x.file = call[c].file /\ x.got = call[c].got
      /\ x.fs = call[c].fs /\ x.path = call[c].path /\ x.quiet = call[c].quiet
      /\ x.meant = call[c].meant /\ x.before = call[c].before
    BY <1>0, CopyAt, AtFields DEF FileSteps
<1>2. /\ call[c].at = "create" /\ call[c].at \in FileSteps
      /\ 1 \in DOMAIN call[c].path /\ 2 \in DOMAIN call[c].path
      /\ x \notin EndedCall
    BY <1>0, <1>1, CopyAt, NotFile
<1>3. CASE Raise(c) /\ UNCHANGED <<tableVars, diskVars, calls>>
    BY <1>3, RaisedGood DEF diskVars
<1> HIDE DEF x
<1>4. CASE call' = [call EXCEPT ![c] = x] /\ UNCHANGED <<tableVars, diskVars, calls>>
    <2>1. Content(call[c]) => Content(x)
        BY <1>1, <1>2 DEF Content, NoFileYet, SourceOpen, Sized, BothOpen
    <2> QED BY <1>0, <1>1, <1>4, <2>1, CopyGoesOnGood
<1>5. CASE /\ Answers(c, 2) /\ Node(c, 2) = Nothing /\ data' = Append(data, << >>)
           /\ node' = [node EXCEPT ![Fs(c, 2)][Path(c, 2)] = Len(data) + 1]
           /\ Touch(c, Fs(c, 2), Path(c, 2), x)
           /\ UNCHANGED <<tableVars, down, calls>>
    <2>1. Fs(c, 2) \in FileSystems /\ Path(c, 2) \in LocalPaths /\ << >> \in Seq(Byte)
        BY <1>2, <1>5, NodeType, EmptySeq
    <2>2. PICK g \in FileSystems, q \in LocalPaths : g = Fs(c, 2) /\ q = Path(c, 2)
        BY <2>1
    <2>3. /\ Touch(c, g, q, x) /\ x \in Calls /\ data' = Append(data, << >>)
          /\ node' = [node EXCEPT ![g][q] = Len(data) + 1] /\ UNCHANGED <<down, tableVars>>
        BY <1>1, <1>5, <2>2 DEF Calls
    <2>4. /\ DiskStep(c) /\ Moves(c) /\ call'[c] = x
          /\ \A h \in FileSystems, l \in LocalPaths :
                 IF h = g /\ l = q THEN node'[h][l] = Len(data) + 1 ELSE Steady(h, l)
        BY <2>1, <2>3, NewDisk
    <2>5. /\ DOMAIN data \subseteq DOMAIN data' /\ Len(data) + 1 \in DOMAIN data'
          /\ data'[Len(data) + 1] = << >>
        BY <2>1, <2>3, NewFile
    <2>6. call[c].quiet => call[c].meant[2] = <<g, q>>
        BY <1>0, <2>2, CopyKnows
    <2>7. Contained(c)
        BY <2>4, <2>5, <2>6, ContainedBy
    <2>8. ASSUME call[c].quiet, call[c].before[2] = Nothing PROVE (Content(call[c]))'
        <3>1. /\ Content(call[c]) /\ call[c].meant[1] = <<Fs(c, 1), Path(c, 1)>>
              /\ Fs(c, 1) \in FileSystems /\ Path(c, 1) \in LocalPaths
            BY <1>0, <2>8, CopyKnows
        <3>2. PICK f \in FileSystems, p \in LocalPaths : call[c].meant[1] = <<f, p>>
            BY <3>1
        <3>3. At(call[c].meant[1]) = node[f][p] /\ At(call[c].meant[2]) = node[g][q]
            BY <2>6, <2>8, <3>2 DEF At
        <3>4. node[f][p] = call[c].file[1].node /\ node[f][p] \in DOMAIN data
              /\ call[c].got = Len(data[node[f][p]])
            BY <1>2, <3>1, <3>3 DEF Content, SourceOpen, Sized
        <3>5. node[g][q] = Nothing /\ Nothing \notin DOMAIN data
            BY <1>5, <2>2, NoFile DEF Node
        <3>6. Steady(f, p)
            BY <2>4, <3>4, <3>5
        <3>7. At(call[c].meant[1])' = node'[f][p] /\ At(call[c].meant[2])' = node'[g][q]
            BY <1>1, <2>4, <2>6, <2>8, <3>2 DEF At
        <3>8. /\ node'[f][p] = node[f][p] /\ data'[node[f][p]] = data[node[f][p]]
              /\ node'[g][q] = Len(data) + 1
            BY <2>4, <3>4, <3>6 DEF Steady
        <3>9. node[f][p] # Len(data) + 1
            BY <3>4, NoFile
        <3> QED BY <1>1, <1>2, <2>4, <2>5, <3>4, <3>7, <3>8, <3>9
                DEF Content, NoFileYet, SourceOpen, Sized, BothOpen
    <2> QED BY <1>0, <1>1, <2>3, <2>4, <2>7, <2>8, CopyChanges
<1> QED BY <1>3, <1>4, <1>5, UnansweredGood DEF CreateDestination, Creates, x, Node


LEMMA ReadSourceGood ==
    ASSUME TypeInv, PlaceInv, CopiesInv, NEW c \in Clients, ReadSource(c) PROVE Good(c)
<1>0. Step(c, "copy", "read") /\ {"read", "write"} \subseteq CopySteps
    BY DEF ReadSource, CopySteps
<1>1. ASSUME UNCHANGED <<tableVars, diskVars, calls>>,
             LET bytes == data[call[c].file[1].node]
                 asked == SubSeq(bytes, 1, Min({call[c].got, Len(bytes)}))
             IN  \E read \in Some(asked) :
                     call' = [call EXCEPT ![c].at = "write", ![c].got = read,
                                          ![c].cut = read # asked]
      PROVE  Good(c)
    <2> DEFINE bytes == data[call[c].file[1].node]
               m == Min({call[c].got, Len(bytes)})
               asked == SubSeq(bytes, 1, m)
               y(got) == [[call[c] EXCEPT !.at = "write", !.got = got]
                              EXCEPT !.cut = got # asked]
    <2>1. 1 \in DOMAIN call[c].file /\ call[c].file[1].node \in DOMAIN data /\ call[c].got \in Nat
        BY <1>0, CopyAt DEF CopyOpened
    <2>2. bytes \in Seq(Byte) /\ Len(bytes) \in Nat
        BY <2>1, ElementOfSeq, LenProperties DEF TypeInv, DiskInv
    <2>3. PICK got \in Some(asked) : call' = [call EXCEPT ![c] = y(got)]
        BY <1>1
    <2> HIDE DEF bytes
    <2>4. m \in Nat /\ m <= Len(bytes) /\ (call[c].got = Len(bytes) => m = Len(bytes))
        BY <2>1, <2>2, MinOfTwo
    <2> HIDE DEF m
    <2>5. asked \in Seq(Byte) /\ (call[c].got = Len(bytes) => asked = bytes)
        BY <2>2, <2>4, SubSeqProperties, ElementOfSeq
    <2> HIDE DEF asked
    <2>8. got \in Seq(Byte)
        BY <2>5, SomeTypes
    <2> DEFINE x == y(got)
    <2>6. /\ x \in FileCall /\ x.at = "write" /\ x.got = got /\ x.cut = (got # asked)
          /\ x.file = call[c].file /\ x.path = call[c].path
          /\ x.fs = call[c].fs /\ x.quiet = call[c].quiet
          /\ x.meant = call[c].meant /\ x.before = call[c].before
        <3>1. call[c] \in FileCall /\ "write" \in FileSteps /\ got \in Nat \cup Seq(Byte)
            BY <1>0, <2>8, CopyAt DEF FileSteps
        <3>2. (got # asked) \in BOOLEAN
            OBVIOUS
        <3> QED BY <3>1, <3>2 DEF FileCall
    <2>9. call' = [call EXCEPT ![c] = x]
        BY <2>3
    <2> HIDE DEF x, y
    <2>7. Content(call[c]) => Content(x)
        <3>1. call[c].at = "read" /\ x \notin EndedCall
            BY <1>0, <2>6, CopyAt, NotFile
        <3> SUFFICES ASSUME Content(call[c]) PROVE Content(x)
            OBVIOUS
        <3>2. /\ call[c].got = Len(data[At(call[c].meant[1])])
              /\ At(call[c].meant[1]) = call[c].file[1].node
            BY <3>1 DEF Content, SourceOpen, Sized
        <3>3. Carries(x, x.got, At(x.meant[1]))
            BY <2>3, <2>5, <2>6, <3>2 DEF Carries, bytes
        <3> QED BY <2>6, <3>1, <3>3
                DEF Content, NoFileYet, SourceOpen, Sized, BothOpen
    <2> QED BY <1>0, <1>1, <2>6, <2>7, <2>9, CopyGoesOnGood
<1> QED BY <1>1, UnansweredGood DEF ReadSource

LEMMA WholeIsSome ==
    ASSUME NEW bytes \in Seq(Byte)
    PROVE  bytes \in Some(bytes)
<1>1. Len(bytes) \in Nat /\ SubSeq(bytes, 1, Len(bytes)) = bytes
    BY SubSeqFull, LenProperties
<1>2. Len(bytes) \in 0 .. Len(bytes)
    BY <1>1
<1> QED BY <1>1, <1>2 DEF Some

LEMMA SomeOfSome ==
    ASSUME NEW bytes \in Seq(Byte), NEW t \in Some(bytes), NEW u \in Some(t)
    PROVE  u \in Some(bytes)
<1>1. /\ t \in Seq(Byte) /\ Len(t) \in 0 .. Len(bytes) /\ Len(bytes) \in Nat
      /\ \A i \in 1 .. Len(t) : t[i] = bytes[i]
    BY SomeTypes, LenProperties
<1>2. /\ u \in Seq(Byte) /\ Len(u) \in 0 .. Len(t)
      /\ \A i \in 1 .. Len(u) : u[i] = t[i]
    BY <1>1, SomeTypes
<1> DEFINE m == Len(u)
           v == SubSeq(bytes, 1, m)
<1>3. m \in 0 .. Len(bytes) /\ \A i \in 1 .. m : bytes[i] \in Byte /\ u[i] = bytes[i]
    BY <1>1, <1>2, ElementOfSeq, LenProperties
<1>4. /\ v \in Seq(Byte) /\ Len(v) = (IF 1 <= m THEN m - 1 + 1 ELSE 0)
      /\ \A i \in 1 .. (m - 1 + 1) : v[i] = bytes[1 + i - 1]
    BY <1>3, SubSeqProperties
<1>5. u = v
    <2>1. Len(v) = Len(u) /\ \A i \in 1 .. Len(u) : v[i] = u[i]
        BY <1>3, <1>4
    <2> QED BY <1>2, <1>4, <2>1, SeqEqual
<1> QED BY <1>3, <1>5 DEF Some

\* What is written to the destination of a copy, and what comes of it.
LEMMA CopyFlush ==
    ASSUME TypeInv, TypeInv', PlaceInv, CopiesInv, NEW c \in Clients,
           NEW from \in {"write", "closeCopy"}, Step(c, "copy", from),
           NEW taken \in Some(call[c].got), NEW x \in Calls, Flush(c, 2, taken, x)
    PROVE  /\ DiskStep(c) /\ Moves(c) /\ call'[c] = x /\ Contained(c)
           /\ UNCHANGED <<tableVars, node>> /\ DOMAIN data' = DOMAIN data
           /\ call[c].quiet /\ call[c].before[2] = Nothing =>
                  \E a, b \in DOMAIN data :
                      /\ At(call[c].meant[1]) = a /\ At(call[c].meant[2]) = b
                      /\ call[c].file[1].node = a /\ call[c].file[2].node = b
                      /\ data'[a] = data[a] /\ data'[b] \in Some(data[a]) /\ a # b
                      /\ call[c].cut \/ taken # call[c].got \/ data'[b] = data[a]
<1>0. from \in CopySteps
    BY DEF CopySteps
<1>1. /\ call[c].at = from /\ call[c].at \in FileSteps /\ call[c].op = "copy"
      /\ 2 \in DOMAIN call[c].path /\ 2 \in DOMAIN call[c].file
      /\ call[c].file[2] \in Handle /\ call[c].file[2].node \in DOMAIN data
      /\ Path(c, 2) \in LocalPaths /\ HandlesPlaced(call[c])
      /\ call[c].got \in Seq(Byte) /\ taken \in Seq(Byte)
    BY <1>0, CopyAt, FileAt, PlacedNow, SomeTypes DEF CopyOpened
<1>2. /\ DiskStep(c) /\ Moves(c) /\ call'[c] = x
      /\ \A g \in FileSystems, q \in LocalPaths :
             Steady(g, q) \/ (g = call[c].file[2].home /\ q = Path(c, 2))
      /\ \A i \in DOMAIN data :
             data'[i] = IF i = call[c].file[2].node THEN Overwrite(data[i], taken) ELSE data[i]
      /\ DOMAIN data' = DOMAIN data
    BY <1>1, FlushDisk
<1>3. UNCHANGED <<tableVars, node>>
    BY DEF Flush
<1>4. Contained(c)
    <2>1. call[c].quiet => call[c].meant[2] = <<call[c].file[2].home, Path(c, 2)>>
        <3> SUFFICES ASSUME call[c].quiet
                     PROVE  call[c].meant[2] = <<call[c].file[2].home, Path(c, 2)>>
            OBVIOUS
        <3>1. Leads(call[c]) /\ call[c].meant[2] = <<Fs(c, 2), Path(c, 2)>>
            BY <1>0, CopyKnows
        <3> QED BY <1>1, <3>1 DEF Leads
    <2> QED BY <1>2, <2>1, ContainedBy
<1>5. ASSUME call[c].quiet, call[c].before[2] = Nothing
      PROVE  \E a, b \in DOMAIN data :
                 /\ At(call[c].meant[1]) = a /\ At(call[c].meant[2]) = b
                 /\ call[c].file[1].node = a /\ call[c].file[2].node = b
                 /\ data'[a] = data[a] /\ data'[b] \in Some(data[a]) /\ a # b
                 /\ call[c].cut \/ taken # call[c].got \/ data'[b] = data[a]
    <2>1. Content(call[c])
        BY <1>0, <1>5, CopyKnows
    <2>2. PICK a \in DOMAIN data, b \in DOMAIN data :
              /\ At(call[c].meant[1]) = a /\ At(call[c].meant[2]) = b /\ a # b
              /\ call[c].file[1].node = a /\ call[c].file[2].node = b
        BY <1>1, <2>1 DEF Content, SourceOpen, BothOpen
    <2>3. data[a] \in Seq(Byte) /\ data[b] \in Seq(Byte)
        BY ElementOfSeq, LenProperties DEF TypeInv, DiskInv
    <2>4. \/ data[b] = << >> /\ Carries(call[c], call[c].got, a)
          \/ call[c].got = << >> /\ Carries(call[c], data[b], a)
        BY <1>1, <2>1, <2>2 DEF Content
    <2>5. data'[b] = Overwrite(data[b], taken) /\ data'[a] = data[a]
        BY <1>2, <2>2
    <2>6. CASE data[b] = << >> /\ Carries(call[c], call[c].got, a)
        <3>1. data'[b] = taken
            BY <1>1, <2>5, <2>6, OverwriteType
        <3>2. taken \in Some(data[a])
            BY <2>3, <2>6, SomeOfSome DEF Carries
        <3> QED BY <2>2, <2>5, <2>6, <3>1, <3>2 DEF Carries
    <2>7. CASE call[c].got = << >> /\ Carries(call[c], data[b], a)
        <3>1. taken = << >>
            <4>1. Len(taken) \in 0 .. Len(<< >>) /\ Len(<< >>) = 0
                BY <1>1, <2>7, SomeTypes, LenProperties, EmptySeq
            <4> QED BY <1>1, <4>1, EmptySeq
        <3>2. data'[b] = data[b]
            BY <2>3, <2>5, <3>1, OverwriteType
        <3> QED BY <2>2, <2>5, <2>7, <3>2 DEF Carries
    <2> QED BY <2>4, <2>6, <2>7
<1> QED BY <1>2, <1>3, <1>4, <1>5

LEMMA WriteDestinationGood ==
    ASSUME TypeInv, TypeInv', PlaceInv, CopiesInv, NEW c \in Clients, WriteDestination(c)
    PROVE  Good(c)
<1>0. Step(c, "copy", "write") /\ {"write", "closeSource"} \subseteq CopySteps
    BY DEF WriteDestination, CopySteps
<1>1. /\ call[c] \in FileCall /\ "closeSource" \in FileSteps
      /\ call[c].got \in Nat \cup Seq(Byte) /\ << >> \in Nat \cup Seq(Byte)
      /\ call[c].at = "write"
    BY <1>0, CopyAt, EmptySeq DEF FileCall, FileSteps
<1>2. ASSUME NEW got \in Nat \cup Seq(Byte)
      PROVE  LET x == [call[c] EXCEPT !.at = "closeSource", !.got = got]
             IN  /\ x \in FileCall /\ x.at = "closeSource" /\ x.got = got
                 /\ x.file = call[c].file /\ x.path = call[c].path /\ x.cut = call[c].cut
                 /\ x.fs = call[c].fs /\ x.quiet = call[c].quiet
                 /\ x.meant = call[c].meant /\ x.before = call[c].before
    BY <1>1 DEF FileCall
<1>3. CASE Flush(c, 2, call[c].got, [call[c] EXCEPT !.at = "closeSource", !.got = << >>])
    <2> DEFINE x == [call[c] EXCEPT !.at = "closeSource", !.got = << >>]
    <2>1. /\ x \in FileCall /\ x.at = "closeSource" /\ x.got = << >>
          /\ x.file = call[c].file /\ x.path = call[c].path /\ x.cut = call[c].cut
          /\ x.fs = call[c].fs /\ x.quiet = call[c].quiet
          /\ x.meant = call[c].meant /\ x.before = call[c].before
        BY <1>1, <1>2
    <2>2. Flush(c, 2, call[c].got, x)
        BY <1>3
    <2> HIDE DEF x
    <2>3. x \in Calls /\ x \notin EndedCall
        BY <2>1, NotFile DEF Calls
    <2>4. /\ DiskStep(c) /\ Moves(c) /\ call'[c] = x /\ Contained(c)
          /\ UNCHANGED <<tableVars, node>> /\ DOMAIN data' = DOMAIN data
          /\ call[c].quiet /\ call[c].before[2] = Nothing =>
                 \E a, b \in DOMAIN data :
                     /\ At(call[c].meant[1]) = a /\ At(call[c].meant[2]) = b
                     /\ call[c].file[1].node = a /\ call[c].file[2].node = b
                     /\ data'[a] = data[a] /\ data'[b] \in Some(data[a]) /\ a # b
                     /\ call[c].cut \/ data'[b] = data[a]
        <3>1. call[c].got \in Some(call[c].got)
            BY <1>0, CopyAt, WholeIsSome DEF CopyOpened
        <3> QED BY <1>0, <2>2, <2>3, <3>1, CopyFlush
    <2>5. ASSUME call[c].quiet, call[c].before[2] = Nothing PROVE (Content(call[c]))'
        <3>1. PICK a \in DOMAIN data, b \in DOMAIN data :
                  /\ At(call[c].meant[1]) = a /\ At(call[c].meant[2]) = b
                  /\ call[c].file[1].node = a /\ call[c].file[2].node = b
                  /\ data'[a] = data[a] /\ data'[b] \in Some(data[a]) /\ a # b
                  /\ call[c].cut \/ data'[b] = data[a]
            BY <2>4, <2>5
        <3>2. At(call[c].meant[1])' = a /\ At(call[c].meant[2])' = b
            BY <2>1, <2>4, <3>1 DEF At
        <3> QED BY <2>1, <2>3, <2>4, <3>1, <3>2
                DEF Content, Carries, NoFileYet, SourceOpen, Sized, BothOpen
    <2> QED BY <1>0, <2>1, <2>4, <2>5, CopyChanges
<1>4. CASE /\ call' = [call EXCEPT ![c].at = "closeSource", ![c].got = call[c].got]
           /\ UNCHANGED <<tableVars, diskVars, calls>>
    <2> DEFINE x == [call[c] EXCEPT !.at = "closeSource", !.got = call[c].got]
    <2>1. /\ x \in FileCall /\ x.at = "closeSource" /\ x.got = call[c].got
          /\ x.file = call[c].file /\ x.path = call[c].path /\ x.cut = call[c].cut
          /\ x.fs = call[c].fs /\ x.quiet = call[c].quiet
          /\ x.meant = call[c].meant /\ x.before = call[c].before
        BY <1>1, <1>2
    <2>2. call' = [call EXCEPT ![c] = x]
        BY <1>4
    <2> HIDE DEF x
    <2>3. x \notin EndedCall
        BY <2>1, NotFile
    <2>4. ASSUME Content(call[c]) PROVE Content(x)
        <3> QED BY <1>1, <2>1, <2>3, <2>4
                DEF Content, Carries, NoFileYet, SourceOpen, Sized, BothOpen
    <2> QED BY <1>0, <1>4, <2>1, <2>2, <2>4, CopyGoesOnGood
<1>5. ASSUME NEW taken \in Some(call[c].got), Flush(c, 2, taken, Over(call[c], "raised"))
      PROVE  Good(c)
    <2> DEFINE x == Over(call[c], "raised")
    <2>1. x \in Calls /\ x \notin FileCall /\ ~x.quiet
        <3>1. x \in EndedCall
            BY OverType DEF TypeInv, CallTypes
        <3>2. x.quiet \in BOOLEAN /\ (x.quiet => "raised" # "raised")
            BY <3>1, OverFields DEF EndedCall
        <3> QED BY <3>1, <3>2, NotFile DEF Calls
    <2>2. Flush(c, 2, taken, x)
        BY <1>5
    <2> HIDE DEF x
    <2>3. /\ DiskStep(c) /\ Moves(c) /\ call'[c] = x /\ Contained(c) /\ UNCHANGED tableVars
        BY <1>0, <2>1, <2>2, CopyFlush
    <2>4. TableStep(c)
        BY <2>3 DEF TableStep, tableVars
    <2> QED BY <2>1, <2>3, <2>4 DEF Good, CopyInv
<1> QED BY <1>3, <1>4, <1>5, UnansweredGood DEF WriteDestination, Write

LEMMA CloseGood ==
    ASSUME TypeInv, TypeInv', PlaceInv, CopiesInv, NEW c \in Clients,
           CloseSource(c) \/ CloseDestination(c)
    PROVE  Good(c)
<1>1. CASE CloseSource(c)
    <2>0. /\ Step(c, "copy", "closeSource")
          /\ {"closeSource", "closeCopy"} \subseteq CopySteps
        BY <1>1 DEF CloseSource, CopySteps
    <2>1. CASE Found(c, 1, "closeCopy")
        <3>1. Goto(c, "closeCopy") /\ UNCHANGED <<tableVars, diskVars, calls>>
            BY <2>1 DEF Found
        <3>2. ASSUME NEW x \in FileCall, x.at = "closeCopy", x.file = call[c].file,
                     x.got = call[c].got, x.meant = call[c].meant, x.cut = call[c].cut,
                     Content(call[c]),
                     call[c].quiet
              PROVE  Content(x)
            <4>1. call[c].at = "closeSource" /\ x \notin EndedCall
                BY <2>0, CopyAt, NotFile
            <4> QED BY <3>2, <4>1 DEF Content, Carries, NoFileYet, SourceOpen, Sized, BothOpen
        <3> QED BY <2>0, <3>1, <3>2, CopyGoto
    <2> QED BY <1>1, <2>1, UnansweredGood DEF CloseSource
<1>2. CASE CloseDestination(c)
    <2>0. Step(c, "copy", "closeCopy") /\ "closeCopy" \in CopySteps
        BY <1>2 DEF CloseDestination, CopySteps
    <2>1. ASSUME NEW taken \in Some(call[c].got), NEW result \in {"ok", "cut"},
                 result = "cut" \/ (~call[c].cut /\ taken = call[c].got),
                 Flush(c, 2, taken, Over(call[c], result))
          PROVE  Good(c)
        <3> DEFINE y == Over(call[c], result)
        <3>0. y \in Calls /\ Flush(c, 2, taken, y)
            BY <2>1, OverType DEF TypeInv, CallTypes, Calls
        <3> HIDE DEF y
        <3>1. /\ DiskStep(c) /\ Moves(c) /\ call'[c] = y /\ Contained(c)
              /\ UNCHANGED <<tableVars, node>> /\ DOMAIN data' = DOMAIN data
              /\ call[c].quiet /\ call[c].before[2] = Nothing =>
                     \E a, b \in DOMAIN data :
                         /\ At(call[c].meant[1]) = a /\ At(call[c].meant[2]) = b
                         /\ call[c].file[1].node = a /\ call[c].file[2].node = b
                         /\ data'[a] = data[a] /\ data'[b] \in Some(data[a]) /\ a # b
                         /\ call[c].cut \/ taken # call[c].got \/ data'[b] = data[a]
            BY <2>0, <3>0, CopyFlush
        <3>2. ASSUME call[c].quiet, call[c].before[2] = Nothing,
                     NEW f \in FileSystems, NEW g \in FileSystems,
                     NEW p \in LocalPaths, NEW q \in LocalPaths,
                     call[c].meant = <<<<f, p>>, <<g, q>>>>
              PROVE  Brings(result, <<f, p>>, <<g, q>>)
            <4>1. PICK a \in DOMAIN data, b \in DOMAIN data :
                      /\ At(call[c].meant[1]) = a /\ At(call[c].meant[2]) = b
                      /\ data'[a] = data[a] /\ data'[b] \in Some(data[a])
                      /\ call[c].cut \/ taken # call[c].got \/ data'[b] = data[a]
                BY <3>1, <3>2
            <4>2. node'[f][p] = a /\ node'[g][q] = b
                BY <3>1, <3>2, <4>1 DEF At
            <4>3. Bytes(<<f, p>>)' = data[a] /\ Bytes(<<g, q>>)' = data'[b]
                BY <3>1, <4>1, <4>2 DEF Bytes
            <4> QED BY <2>1, <4>1, <4>3 DEF Brings
        <3>3. call'[c] = Over(call[c], result)
            BY <3>1 DEF y
        <3> QED BY <2>0, <3>1, <3>2, <3>3, CopyEnds
    <2>2. CASE \E taken \in Some(call[c].got) :
                   Flush(c, 2, taken, Over(call[c], IF call[c].cut THEN "cut"
                                                    ELSE Complete(call[c].got, taken)))
        <3>1. PICK taken \in Some(call[c].got) :
                  Flush(c, 2, taken, Over(call[c], IF call[c].cut THEN "cut"
                                                   ELSE Complete(call[c].got, taken)))
            BY <2>2
        <3> DEFINE result == IF call[c].cut THEN "cut" ELSE Complete(call[c].got, taken)
        <3>2. /\ result \in {"ok", "cut"}
              /\ result = "cut" \/ (~call[c].cut /\ taken = call[c].got)
            BY DEF Complete
        <3>3. Flush(c, 2, taken, Over(call[c], result))
            BY <3>1
        <3> HIDE DEF result
        <3> QED BY <2>1, <3>2, <3>3
    <2> QED BY <1>2, <2>2, UnansweredGood DEF CloseDestination
<1> QED BY <1>1, <1>2


LEMMA ClientGood ==
    ASSUME TypeInv, TypeInv', RoomInv, PlaceInv, CopiesInv, NEW c \in Clients,
           Remounts(c) \/ CallOnFile(c) \/ Single(c) \/ Copying(c)
    PROVE  Good(c)
<1>1. CASE Copying(c)
    BY <1>1, CopyExistsGood, CopyFileGood, OpenGood, SizeOfGood, DestinationExistsGood,
       CreateDestinationGood, ReadSourceGood, WriteDestinationGood, CloseGood DEF Copying
<1> QED BY <1>1, RemountGood, CallOnFileGood, SingleGood

-----------------------------------------------------------------------------
(* The theorems.                                                           *)

LEMMA CopiesStarted == Init => PlaceInv /\ CopiesInv
<1> SUFFICES ASSUME Init PROVE PlaceInv /\ CopiesInv
    OBVIOUS
<1>1. TypeInv
    BY Started
<1>2. \A c \in Clients : call[c].at = "idle" /\ call[c].quiet = FALSE
    BY DEF Init, Idle
<1>3. \A c \in Clients : call[c] \notin FileCall
    BY <1>1, <1>2, KindOfCall, NotFile DEF TypeInv, CallTypes
<1>4. ASSUME NEW f \in FileSystems, NEW g \in FileSystems, NEW p \in LocalPaths,
             NEW q \in LocalPaths, node[f][p] = node[g][q], node[f][p] \in DOMAIN data
      PROVE  f = g /\ p = q
    <2>1. node[f][p] \notin {Nothing, Directory}
        BY <1>1, <1>4, NoFile
    <2>2. Initially[f][p] = Initially[g][q] /\ Initially[f][p] \notin {Nothing, Directory}
        BY <1>4, <2>1 DEF Init
    <2>3. ~(<<f, p>> # <<g, q>>)
        BY <2>2, DiskAssumption
    <2> QED BY <2>3
<1>5. PlaceInv
    BY <1>3, <1>4 DEF PlaceInv
<1>6. CopiesInv
    BY <1>2 DEF CopiesInv, CopyInv
<1> QED BY <1>5, <1>6

LEMMA Rested ==
    ASSUME PlaceInv, CopiesInv, UNCHANGED <<tableVars, node, data, call>>
    PROVE  PlaceInv' /\ CopiesInv'
<1>1. PlaceInv'
    BY DEF PlaceInv, HandlesPlaced
<1>2. ASSUME NEW c \in Clients PROVE (CopyInv(call[c]))'
    <2>1. CopyInv(call[c])
        BY DEF CopiesInv
    <2> QED BY <2>1 DEF CopyInv, Foreseen, Leads, Content, Carries, Copied, At, Bytes, tableVars
<1> QED BY <1>1, <1>2 DEF CopiesInv

LEMMA CopiesInductive ==
    TypeInv /\ RoomInv /\ PlaceInv /\ CopiesInv /\ TypeInv' /\ [Next]_vars
        => PlaceInv' /\ CopiesInv'
<1> SUFFICES ASSUME TypeInv, RoomInv, PlaceInv, CopiesInv, TypeInv', [Next]_vars
             PROVE  PlaceInv' /\ CopiesInv'
    OBVIOUS
<1>1. CASE \E c \in Clients : Remounts(c) \/ CallOnFile(c) \/ Single(c) \/ Copying(c)
    BY <1>1, ClientGood, GoodKeeps
<1>2. CASE \E f \in FileSystems : NodeDies(f)
    BY <1>2, Rested DEF NodeDies
<1>3. CASE UNCHANGED vars
    BY <1>3, Rested DEF vars, diskVars
<1> QED BY <1>1, <1>2, <1>3 DEF Next

LEMMA CopyInvariants == Spec => [](TypeInv /\ RoomInv /\ PlaceInv /\ CopiesInv)
BY Invariants, CopiesStarted, CopiesInductive, PTL DEF Spec

\* A copy to a new name that returned, while nobody changed either file and
\* nothing was unmounted, has made an exact copy (FileManager_impl.cpp:142-196)
\* unless a device cut it short (FileSystem_impl.cpp:120, File_impl.cpp:69 and
\* 118); then nothing stands under the new name, or bytes the source begins
\* with.  The files may be of any length, and anybody else served meanwhile.
THEOREM CopyFaithfulAlways == Spec => []CopyFaithful
<1>1. TypeInv /\ CopiesInv => CopyFaithful
    <2> SUFFICES ASSUME TypeInv, CopiesInv, NEW c \in Clients,
                        call[c].op = "copy", call[c].at = "done", call[c].quiet,
                        call[c].before[2] = Nothing
                 PROVE  Copied(call[c])
        BY DEF CopyFaithful
    <2>1. call[c] \in EndedCall
        BY KindOfCall DEF TypeInv, CallTypes
    <2> QED BY <2>1 DEF CopiesInv, CopyInv, Content
<1> QED BY <1>1, CopyInvariants, PTL

\* No step of a copy that no unmount has disturbed changes a file other than
\* the one its destination's name stood for, although the copy keeps indices
\* of the mount table over nine remote calls (FileManager_impl.cpp:158-195).
THEOREM DestinationOnly == Spec => OnlyDestinationChanges
<1>1. ASSUME TypeInv, TypeInv', RoomInv, PlaceInv, CopiesInv, [Next]_vars, NEW c \in Clients,
             call[c].op = "copy" /\ call[c].quiet /\ call'[c].at # call[c].at
                 /\ call'[c].op = "copy" /\ call[c].at # "done",
             NEW f \in FileSystems, NEW p \in LocalPaths, <<f, p>> # call[c].meant[2]
      PROVE  Bytes(<<f, p>>)' = Bytes(<<f, p>>)
    <2>1. PICK k \in Clients : Remounts(k) \/ CallOnFile(k) \/ Single(k) \/ Copying(k)
        BY <1>1 DEF Next, NodeDies, vars
    <2>2. Good(k)
        BY <1>1, <2>1, ClientGood
    <2>3. c = k
        <3>1. c # k => call'[c] = call[c] \/ call'[c] = Hushed(call[c])
            BY <2>2 DEF Good, Moves
        <3>2. Hushed(call[c]).at = call[c].at
            BY <1>1, HushedType DEF TypeInv, CallTypes
        <3> QED BY <1>1, <3>1, <3>2
    <2> QED BY <1>1, <2>2, <2>3 DEF Good, Contained
<1>2. TypeInv /\ TypeInv' /\ RoomInv /\ PlaceInv /\ CopiesInv /\ [Next]_vars =>
          [\A c \in Clients :
               call[c].op = "copy" /\ call[c].quiet /\ call'[c].at # call[c].at
                   /\ call'[c].op = "copy" /\ call[c].at # "done"
               => \A f \in FileSystems, p \in LocalPaths :
                      <<f, p>> # call[c].meant[2] => Bytes(<<f, p>>)' = Bytes(<<f, p>>)]_vars
    BY <1>1
<1> QED BY <1>2, CopyInvariants, PTL DEF Spec, OnlyDestinationChanges

=============================================================================
