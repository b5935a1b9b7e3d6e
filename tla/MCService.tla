----------------------------- MODULE MCService -----------------------------
(* Instances of Service: one or two of two replicas are deployed, and any  *)
(* command may be no JSON.                                                 *)
EXTENDS Service, TLC

AnyBodies == [Commands -> Shops \cup {None}]

Symmetry == Permutations(Replicas) \cup Permutations(Commands) \cup Permutations(Shops)
=============================================================================
