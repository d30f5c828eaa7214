-------------------------- MODULE MCAppLifecycle --------------------------
(***************************************************************************)
(* AppLifecycle for TLC: a factory of two components, the second connected *)
(* to the first, and one of a component with the same executable.          *)
(***************************************************************************)
EXTENDS AppLifecycle

CONSTANTS f1, f2, ca, cb, cc, exe1, exe2

MCComps == [f \in {f1, f2} |-> IF f = f1 THEN <<ca, cb>> ELSE <<cc>>]
MCConns == [f \in {f1, f2} |->
               IF f = f1 THEN <<[uses |-> cb, provides |-> ca]>> ELSE << >>]
MCFile == [k \in {ca, cb, cc} |-> IF k = cb THEN exe2 ELSE exe1]
=============================================================================
