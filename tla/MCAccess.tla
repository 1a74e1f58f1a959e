------------------------------ MODULE MCAccess ------------------------------
(* Access on a small instance: tabs are interchangeable, people too, and no *)
(* checked property is a liveness property.                                 *)
EXTENDS Access, TLC

Symmetry == Permutations(Tabs) \cup Permutations(Subjects)
=============================================================================
