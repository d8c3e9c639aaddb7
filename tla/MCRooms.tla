------------------------------- MODULE MCRooms -------------------------------
(***************************************************************************)
(* Instances of Rooms for TLC.                                             *)
(***************************************************************************)
EXTENDS Rooms, TLC

(* Requests and tokens are interchangeable.  Only without liveness.         *)
Interchangeable == Permutations(Requests) \cup Permutations(Tokens)
=============================================================================
