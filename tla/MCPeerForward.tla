---------------------------- MODULE MCPeerForward ----------------------------
(***************************************************************************)
(* Instances of PeerForward for TLC.                                       *)
(***************************************************************************)
EXTENDS PeerForward, TLC

(* Publishers are interchangeable, and subscribers.  Only without liveness. *)
Interchangeable == Permutations(Publishers) \cup Permutations(Subscribers)
=============================================================================
