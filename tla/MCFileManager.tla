---------------------------- MODULE MCFileManager ----------------------------
(***************************************************************************)
(* The file system of the domain manager, mounted at "/" with one file,    *)
(* and an empty one of a node, to be mounted at "/n".                      *)
(***************************************************************************)
EXTENDS FileManager

CONSTANTS core, node1, c1, c2

MCPoints == {<< >>, <<"n">>}
MCFileNames == {<<"f">>, <<"n", "g">>}
MCDirNames == {<<"n">>}
MCInitially ==
    [x \in {core, node1} |-> [p \in LocalPaths |->
        IF p = << >> THEN Directory ELSE IF p = <<"f">> /\ x = core THEN 1 ELSE Nothing]]
MCInitialData == << <<"x", "y">> >>
MCDoes ==
    c1 :> {"mount", "copy", "rmdir"}
        @@ c2 :> {"mount", "unmount", "remove", "create", "open", "mkdir", "rmdir"}
MCMaxCalls == c1 :> 2 @@ c2 :> 2
=============================================================================
