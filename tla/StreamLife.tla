----------------------------- MODULE StreamLife -----------------------------
(***************************************************************************)
(* What a stream promises those who publish it and those who subscribe to  *)
(* it, with neither locks nor tasks nor callbacks.  One publisher at a     *)
(* time, who stays the publisher until its link has ended.  Nobody joins   *)
(* before there was a publisher, and nobody comes to a stream that was     *)
(* deleted.  A stream is reaped only when a publisher has left it, and it  *)
(* is removed once, whoever removes it; then its publisher is cut off,     *)
(* unless closing the connection fails.                                    *)
(*                                                                         *)
(* It does not promise that a stream is reaped only while nobody publishes *)
(* it: a publisher may be back when the tick strikes, and may even come to *)
(* a stream that it found just before.                                     *)
(***************************************************************************)
CONSTANTS Publishers, Subscribers, NoPeer

VARIABLES
    life,       \* "present", and then "deleted" or "reaped"
    publisher,
    link,       \* the publisher's connection: "none", "dialing", "live", "ended"
    past,       \* those who have published and left
    audience    \* the subscribers listed

vars == <<life, publisher, link, past, audience>>

Init ==
    /\ life = "present"
    /\ publisher = NoPeer
    /\ link = "none"
    /\ past = {}
    /\ audience = {}

Published == publisher # NoPeer \/ past # {}

Publish(p) ==
    /\ life # "deleted"
    /\ publisher = NoPeer
    /\ p \notin past
    /\ publisher' = p
    /\ link' = "dialing"
    /\ UNCHANGED <<life, past, audience>>

(* The connection is made or fails, and is lost in the end.                 *)
Connect ==
    /\ link = "dialing"
    /\ link' = "live"
    /\ UNCHANGED <<life, publisher, past, audience>>

End ==
    /\ link \in {"dialing", "live"}
    /\ link' = "ended"
    /\ UNCHANGED <<life, publisher, past, audience>>

Leave ==
    /\ link = "ended"
    /\ publisher' = NoPeer
    /\ link' = "none"
    /\ past' = past \cup {publisher}
    /\ UNCHANGED <<life, audience>>

Join(s) ==
    /\ life # "deleted"
    /\ Published
    /\ s \notin audience
    /\ audience' = audience \cup {s}
    /\ UNCHANGED <<life, publisher, link, past>>

Part(s) ==
    /\ s \in audience
    /\ audience' = audience \ {s}
    /\ UNCHANGED <<life, publisher, link, past>>

(* The stream goes, and its publisher is cut off if that succeeds.          *)
Goes(how) ==
    /\ life = "present"
    /\ life' = how
    /\ link' \in {link, IF publisher = NoPeer THEN "none" ELSE "ended"}
    /\ UNCHANGED <<publisher, past, audience>>

Delete == Goes("deleted")

Reap == past # {} /\ Goes("reaped")

Next ==
    \/ \E p \in Publishers : Publish(p)
    \/ Connect \/ End \/ Leave
    \/ \E s \in Subscribers : Join(s) \/ Part(s)
    \/ Delete \/ Reap

Spec == Init /\ [][Next]_vars
=============================================================================
