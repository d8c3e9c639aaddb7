--------------------------- MODULE GroupMembership ---------------------------
(***************************************************************************)
(* What the WebSocket groups of a room promise, with neither locks nor     *)
(* tasks nor channels.  A place is a user in a group; a session is one     *)
(* connection's right to receive what is sent to its place.  A session     *)
(* that has ended never comes back, and a place that is taken away takes   *)
(* every session of the place with it.                                     *)
(***************************************************************************)
CONSTANTS Sessions, Places

VARIABLES
    place,      \* the place each session is opened for
    members,    \* the places taken
    session     \* "out" before, "in" during and "gone" after a session

vars == <<place, members, session>>

Init ==
    /\ place \in [Sessions -> Places]
    /\ members = {}
    /\ session = [s \in Sessions |-> "out"]

(* A session is opened and its place is taken, if it was not already.       *)
Enter(s) ==
    /\ session[s] = "out"
    /\ members' = members \cup {place[s]}
    /\ session' = [session EXCEPT ![s] = "in"]
    /\ UNCHANGED place

(* A session ends on its own; its place stays taken for a while.            *)
Hangup(s) ==
    /\ session[s] = "in"
    /\ session' = [session EXCEPT ![s] = "gone"]
    /\ UNCHANGED <<place, members>>

(* A place is given up: by a connection that closes, or for a user exiting. *)
Vacate(p) ==
    /\ p \in members
    /\ members' = members \ {p}
    /\ session' = [s \in Sessions |->
                      IF place[s] = p /\ session[s] = "in" THEN "gone"
                      ELSE session[s]]
    /\ UNCHANGED place

(* A connection fails before it becomes a session.                          *)
Next ==
    \/ \E s \in Sessions : Enter(s) \/ Hangup(s)
    \/ \E p \in Places : Vacate(p)

Spec == Init /\ [][Next]_vars

(* Whoever receives is a member.                                            *)
ReceiversAreMembers ==
    \A s \in Sessions : session[s] = "in" => place[s] \in members
=============================================================================
