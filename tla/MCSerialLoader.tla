---------------------------- MODULE MCSerialLoader ----------------------------
(***************************************************************************)
(* A flash of seven blocks of two pages, the first of which holds nothing  *)
(* of ours.  Every image takes two blocks with its header, as the boot     *)
(* loader does on a device with blocks of 8k: in the second of the blocks  *)
(* it may start in, it reaches the first of the applications'.             *)
(***************************************************************************)
EXTENDS SerialLoader

CONSTANTS ubl, app, old

MCNumPage == [i \in {ubl, app, old} |-> 2]
MCSize == [i \in {ubl, app, old} |-> IF i = ubl THEN 1 ELSE 2]
=============================================================================
