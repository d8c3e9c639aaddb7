------------------------------ MODULE MCGroups ------------------------------
(***************************************************************************)
(* Instances of Groups for TLC.                                            *)
(***************************************************************************)
EXTENDS Groups, TLC

(* Connections, and group names, are interchangeable: Init lets each        *)
(* connection ask for anything.  Only for runs without liveness.            *)
Interchangeable == Permutations(Conns) \cup Permutations(Streams)
=============================================================================
