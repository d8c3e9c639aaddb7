------------------------------- MODULE MCRelay -------------------------------
(***************************************************************************)
(* Instances of Relay for TLC.                                             *)
(***************************************************************************)
EXTENDS Relay, TLC

CONSTANTS a, b, b2, u1, u2

(* b2 is another connection of b's user: a reconnect, or the subscriber of  *)
(* one who publishes.                                                       *)
TwoUsers == a :> u1 @@ b :> u2 @@ b2 :> u2
=============================================================================
