-------------------------- MODULE MCDomainRegistry --------------------------
(***************************************************************************)
(* DomainRegistry for TLC: three nodes, one with two devices and one that  *)
(* is started twice; two nodes with devices; and a single one with three.  *)
(***************************************************************************)
EXTENDS DomainRegistry

CONSTANTS m1, m2, m3, c1, c2, d1, d2, d3

TwoNodesDevs == [m \in {m1, m2} |-> IF m = m1 THEN <<d1, d2>> ELSE <<d3>>]
TwoNodesBoots == [m \in {m1, m2} |-> IF m = m1 THEN 2 ELSE 1]

OneNodeDevs == [m \in {m1} |-> <<d1, d2, d3>>]
OneNodeBoots == [m \in {m1} |-> 1]

ThreeNodesDevs == [m \in {m1, m2, m3} |-> IF m = m1 THEN <<d1, d2>> ELSE << >>]
ThreeNodesBoots == [m \in {m1, m2, m3} |-> IF m = m2 THEN 2 ELSE 1]
=============================================================================
