----------------------------- MODULE MCConsumer -----------------------------
(* Instances of Consumer: one or two replicas.                             *)
EXTENDS Consumer
=============================================================================
