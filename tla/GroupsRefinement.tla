-------------------------- MODULE GroupsRefinement --------------------------
(***************************************************************************)
(* Groups implements GroupMembership: the connection handler, the manager  *)
(* and the tasks only ever open, hang up and vacate sessions the way the   *)
(* abstract specification allows.  Two steps matter.  A JoinGroup is an    *)
(* Enter.  A leave_group of a member, by whichever connection or exit, is  *)
(* a Vacate: it takes the channel every session of the place listens to.   *)
(***************************************************************************)
EXTENDS GroupsProofs

Place == [user : Users, stream : Streams]
Members == {p \in Place : p.user \in inner_user[p.stream]}
SessionMap == [c \in Conns |-> SessionOf(c)]

(* A step that changes neither who is a member nor any session.             *)
Quiet == UNCHANGED <<request, Members, SessionMap>>

LEMMA QuietStep == Quiet => UNCHANGED Membership!vars
BY DEF Quiet, Membership!vars, Members, SessionMap, Place

LEMMA SessionType ==
    ASSUME NEW c \in Conns
    PROVE  SessionOf(c) \in {"out", "in", "gone"}
BY DEF SessionOf

LEMMA InitImplements == Init => Membership!Init
<1>. SUFFICES ASSUME Init PROVE Membership!Init
  OBVIOUS
<1>1. request \in [Conns -> Place]
  BY DEF Init, Place
<1>2. Members = {}
  BY DEF Init, Members, Place
<1>3. SessionMap = [c \in Conns |-> "out"]
  BY DEF Init, SessionMap, SessionOf
<1>. QED
  BY <1>1, <1>2, <1>3 DEF Membership!Init, Members, SessionMap, Place

LEMMA JoinImplements ==
    ASSUME IInv, NEW c \in Conns, JoinGroup(c)
    PROVE  Membership!Enter(c)
<1>. USE DEF IInv
<1>1. /\ stream(c) \in Streams /\ user(c) \in Users
      /\ request[c] = [user |-> user(c), stream |-> stream(c)]
      /\ join(stream(c), user(c), c)
      /\ pc[c] = "joining"
      /\ pc' = [pc EXCEPT ![c] = "joined"]
      /\ UNCHANGED <<request, rx>>
  BY RequestType DEF JoinGroup, join_group
<1>2. SessionOf(c) = "out" /\ SessionOf(c)' = "in"
  BY <1>1 DEF SessionOf, TypeOK
<1>3. ASSUME NEW d \in Conns, d # c
      PROVE  SessionOf(d)' = SessionOf(d)
  <2>1. stream(d) \in Streams /\ user(d) \in Users
    BY RequestType
  <2>2. pc'[d] = pc[d] /\ rx'[d] = rx[d]
    BY <1>1, <1>3 DEF TypeOK
  <2>3. Channel(d)' = user_senders'[stream(d)][user(d)]
    BY <1>1 DEF Channel, stream, user
  <2>4. rx[d] # c
    BY <1>1, DistinctNames DEF Provenance, BeforeJoin
  <2>5. \/ user_senders'[stream(d)][user(d)] = user_senders[stream(d)][user(d)]
        \/ /\ user_senders'[stream(d)][user(d)] = c
           /\ user_senders[stream(d)][user(d)] = NoConn
    <3>1. CASE /\ stream(d) = stream(c) /\ user(d) = user(c)
               /\ user_tasks[stream(c)][user(c)] = NoConn
      <4>1. user_senders'[stream(d)][user(d)] = c
        BY <1>1, <2>1, <3>1, JoinStep
      <4>2. user_senders[stream(d)][user(d)] = NoConn
        BY <2>1, <3>1 DEF MembershipAgreement
      <4>. QED  BY <4>1, <4>2
    <3>2. CASE ~(/\ stream(d) = stream(c) /\ user(d) = user(c)
                 /\ user_tasks[stream(c)][user(c)] = NoConn)
      BY <1>1, <2>1, <3>2, JoinStep
    <3>. QED  BY <3>1, <3>2
  <2>6. Attached(d)' <=> Attached(d)
    BY <2>2, <2>3, <2>4, <2>5 DEF Attached, Channel
  <2>. QED  BY <2>2, <2>6 DEF SessionOf
<1>4. SessionMap' = [SessionMap EXCEPT ![c] = "in"]
  BY <1>2, <1>3 DEF SessionMap
<1>5. Members' = Members \cup {request[c]}
  <2>1. ASSUME NEW p \in Place
        PROVE  p \in Members' <=> p \in Members \/ p = request[c]
    <3>1. p.stream \in Streams /\ p.user \in Users
          /\ p = [user |-> p.user, stream |-> p.stream]
      BY DEF Place
    <3>2. inner_user'[p.stream] =
              IF p.stream = stream(c) THEN inner_user[p.stream] \cup {user(c)}
              ELSE inner_user[p.stream]
      BY <1>1, <3>1, JoinStep
    <3>. QED  BY <1>1, <3>1, <3>2 DEF Members
  <2>2. request[c] \in Place
    BY <1>1 DEF Place
  <2>3. Members \subseteq Place /\ Members' \subseteq Place
    BY DEF Members
  <2>. QED  BY <2>1, <2>2, <2>3
<1>. QED
  BY <1>1, <1>2, <1>4, <1>5 DEF Membership!Enter, Members, SessionMap, Place

(* leave_group, by Close or by end_user, when nobody is between its join    *)
(* and its subscription.                                                    *)
LEMMA LeaveImplements ==
    ASSUME IInv, NEW g \in Streams, NEW u \in Users, leave_group(g, u),
           UNCHANGED <<request, rx>>,
           \A d \in Conns : pc[d] # "joined",
           \A d \in Conns : \/ pc'[d] = pc[d]
                            \/ /\ stream(d) = g /\ user(d) = u
                               /\ pc[d] = "done" /\ pc'[d] = "closed"
    PROVE  Membership!Vacate([user |-> u, stream |-> g]) \/ Quiet
<1>. USE DEF IInv
<1>. DEFINE p == [user |-> u, stream |-> g]
<1>1. p \in Place
  BY DEF Place
<1>2. ASSUME NEW d \in Conns
      PROVE  SessionOf(d)' = IF request[d] = p /\ SessionOf(d) = "in" THEN "gone"
                             ELSE SessionOf(d)
  <2>1. /\ stream(d) \in Streams /\ user(d) \in Users
        /\ request[d] = [user |-> user(d), stream |-> stream(d)]
    BY RequestType
  <2>2. Channel(d)' = user_senders'[stream(d)][user(d)]
    BY DEF Channel, stream, user
  <2>3. CASE request[d] = p
    <3>1. stream(d) = g /\ user(d) = u
      BY <2>1, <2>3
    <3>2. ~Attached(d)'
      BY <2>1, <2>2, <3>1, LeaveChannels DEF Attached
    <3>. QED
      BY <2>3, <3>2 DEF SessionOf
  <2>4. CASE request[d] # p
    <3>1. ~(stream(d) = g /\ user(d) = u)
      BY <2>1, <2>4
    <3>2. Attached(d)' <=> Attached(d)
      BY <2>1, <2>2, <3>1, LeaveChannels DEF Attached, Channel
    <3>3. pc'[d] = pc[d]
      BY <3>1
    <3>. QED
      BY <2>4, <3>2, <3>3 DEF SessionOf
  <2>. QED  BY <2>3, <2>4
<1>3. Members' = Members \ {p}
  <2>1. ASSUME NEW q \in Place
        PROVE  q \in Members' <=> q \in Members /\ q # p
    <3>1. q.stream \in Streams /\ q.user \in Users
          /\ q = [user |-> q.user, stream |-> q.stream]
      BY DEF Place
    <3>2. q.user \in inner_user'[q.stream] <=>
              /\ q.user \in inner_user[q.stream]
              /\ ~(q.stream = g /\ q.user = u /\ g \in groups)
      BY <3>1, LeaveIndex
    <3>3. q \in Members' <=> q.user \in inner_user'[q.stream]
      BY DEF Members
    <3>4. q \in Members <=> q.user \in inner_user[q.stream]
      BY DEF Members
    <3>5. q = p <=> q.stream = g /\ q.user = u
      BY <3>1
    <3>6. q.user \in inner_user[q.stream] => q.stream \in groups
      BY <3>1 DEF MembershipAgreement
    <3>. QED  BY <3>2, <3>3, <3>4, <3>5, <3>6
  <2>2. Members \subseteq Place /\ Members' \subseteq Place
    BY DEF Members
  <2>. QED  BY <2>1, <2>2
<1>4. SessionMap' = [s \in Conns |->
                        IF request[s] = p /\ SessionMap[s] = "in" THEN "gone"
                        ELSE SessionMap[s]]
  BY <1>2 DEF SessionMap
<1>5. CASE p \in Members
  BY <1>3, <1>4, <1>5 DEF Membership!Vacate, Members, SessionMap, Place
<1>6. CASE p \notin Members
  <2>1. ASSUME NEW d \in Conns, request[d] = p
        PROVE  SessionOf(d) # "in"
    <3>1. stream(d) = g /\ user(d) = u
      BY <2>1 DEF stream, user
    <3>2. user_senders[g][u] = NoConn
      BY <1>1, <1>6 DEF Members, MembershipAgreement
    <3>. QED  BY <3>1, <3>2 DEF SessionOf, Attached, Channel
  <2>2. SessionMap' = SessionMap
    BY <1>4, <2>1 DEF SessionMap
  <2>3. Members' = Members
    BY <1>3, <1>6
  <2>. QED  BY <2>2, <2>3 DEF Quiet
<1>. QED  BY <1>1, <1>5, <1>6

(* A step that keeps the membership, the channels and the receivers, and    *)
(* moves a connection only within one phase of its session, is quiet.       *)
LEMMA PhaseQuiet ==
    ASSUME UNCHANGED <<request, rx, user_senders, inner_user>>,
           \A d \in Conns :
              \/ pc'[d] = pc[d]
              \/ pc[d] \in BeforeJoin /\ pc'[d] \in BeforeJoin
              \/ pc[d] \in {"serving", "done"} /\ pc'[d] \in {"done", "dead"}
    PROVE  Quiet
<1>1. ASSUME NEW d \in Conns PROVE SessionOf(d)' = SessionOf(d)
  <2>1. Attached(d)' <=> Attached(d)
    BY DEF Attached, Channel, stream, user
  <2>. QED  BY <2>1 DEF SessionOf, BeforeJoin
<1>. QED  BY <1>1 DEF Quiet, Members, SessionMap

(* send_task ends: the session hangs up, if it had not been evicted.        *)
LEMMA SendTaskImplements ==
    ASSUME IInv, NEW c \in Conns, rx[c] # NoConn,
           rx' = [rx EXCEPT ![c] = NoConn],
           UNCHANGED <<request, user_senders, inner_user, pc>>
    PROVE  Membership!Hangup(c) \/ Quiet
<1>. USE DEF IInv
<1>1. ASSUME NEW d \in Conns, d # c PROVE SessionOf(d)' = SessionOf(d)
  <2>1. Attached(d)' <=> Attached(d)
    BY <1>1 DEF Attached, Channel, stream, user, TypeOK
  <2>. QED  BY <2>1 DEF SessionOf
<1>2. ~Attached(c)'
  BY DEF Attached, TypeOK
<1>3. pc[c] \notin BeforeJoin
  BY DEF Provenance
<1>4. Members' = Members
  BY DEF Members
<1>5. CASE pc[c] # "joined" /\ Attached(c)
  <2>1. SessionOf(c) = "in" /\ SessionOf(c)' = "gone"
    BY <1>2, <1>3, <1>5 DEF SessionOf, BeforeJoin
  <2>2. SessionMap' = [SessionMap EXCEPT ![c] = "gone"]
    BY <1>1, <2>1 DEF SessionMap
  <2>. QED
    BY <1>4, <2>1, <2>2 DEF Membership!Hangup, Members, SessionMap, Place
<1>6. CASE ~(pc[c] # "joined" /\ Attached(c))
  <2>1. SessionOf(c)' = SessionOf(c)
    BY <1>2, <1>6 DEF SessionOf
  <2>2. SessionMap' = SessionMap
    BY <1>1, <2>1 DEF SessionMap
  <2>. QED  BY <1>4, <2>2 DEF Quiet
<1>. QED  BY <1>5, <1>6

LEMMA NextImplements ==
    IInv /\ [Next]_vars => [Membership!Next]_(Membership!vars)
<1>. SUFFICES ASSUME IInv, [Next]_vars
              PROVE  \/ \E s \in Conns : Membership!Enter(s) \/ Membership!Hangup(s)
                     \/ \E p \in Place : Membership!Vacate(p)
                     \/ Quiet
  BY QuietStep DEF Membership!Next, Place
<1>. USE DEF manager_vars, group_vars
<1>. DEFINE Step == \/ \E s \in Conns : Membership!Enter(s) \/ Membership!Hangup(s)
                    \/ \E p \in Place : Membership!Vacate(p)
                    \/ Quiet
<1>a. TypeOK
  BY DEF IInv
<1>1. ASSUME NEW c \in Conns, ConnNext(c)
      PROVE  Step
  <2>. USE <1>a DEF TypeOK, BeforeJoin
  <2>1. CASE Authorize(c)
    BY <2>1, PhaseQuiet DEF Authorize
  <2>2. CASE Upgrade(c)
    BY <2>2, PhaseQuiet DEF Upgrade
  <2>3. CASE UpgradePanics(c)
    BY <2>3, PhaseQuiet DEF UpgradePanics
  <2>4. CASE GroupExists(c)
    BY <2>4, PhaseQuiet DEF GroupExists
  <2>5. CASE NewGroup(c)
    <3>1. UNCHANGED <<user_senders, inner_user>>
      BY <2>5, NewGroupQuiet DEF IInv
    <3>. QED  BY <2>5, <3>1, PhaseQuiet DEF NewGroup
  <2>6. CASE JoinGroup(c)
    BY <2>6, JoinImplements
  <2>7. CASE Subscribe(c)
    <3>1. /\ pc[c] = "joined" /\ pc' = [pc EXCEPT ![c] = "serving"]
          /\ rx' = [rx EXCEPT ![c] = user_senders[stream(c)][user(c)]]
          /\ user_senders[stream(c)][user(c)] # NoConn
          /\ UNCHANGED <<request, user_senders, inner_user>>
      BY <2>7 DEF Subscribe, IInv, UnwrapSafe, Channel
    <3>2. Attached(c)'
      BY <3>1 DEF Attached, Channel, stream, user
    <3>3. SessionOf(c)' = SessionOf(c)
      BY <3>1, <3>2 DEF SessionOf
    <3>4. ASSUME NEW d \in Conns, d # c PROVE SessionOf(d)' = SessionOf(d)
      <4>1. Attached(d)' <=> Attached(d)
        BY <3>1, <3>4 DEF Attached, Channel, stream, user
      <4>. QED  BY <3>1, <3>4, <4>1 DEF SessionOf
    <3>. QED  BY <3>1, <3>3, <3>4 DEF Quiet, Members, SessionMap
  <2>8. CASE Announce(c) \/ Broadcast(c) \/ RecvTaskEnds(c)
    BY <2>8, PhaseQuiet DEF Announce, Broadcast, RecvTaskEnds
  <2>9. CASE SendTaskCloses(c) \/ SendTaskEnds(c)
    BY <2>9, SendTaskImplements DEF SendTaskCloses, SendTaskEnds
  <2>10. CASE SelectReturns(c)
    BY <2>10, PhaseQuiet DEF SelectReturns
  <2>11. CASE ClosePanics(c)
    BY <2>11, PhaseQuiet DEF ClosePanics
  <2>12. CASE PipeForwards(c) \/ PipeEnds(c)
    BY <2>12, PhaseQuiet DEF PipeForwards, PipeEnds, conn_vars
  <2>13. CASE Close(c)
    <3>. PICK g \in Streams, u \in Users : g = stream(c) /\ u = user(c)
      BY RequestType
    <3>1. leave_group(g, u) /\ UNCHANGED <<request, rx>>
      BY <2>13 DEF Close, leave_group, leave
    <3>2. \A d \in Conns : pc[d] # "joined"
      BY <2>13, DistinctNames DEF Close, LockFree, IInv, Exclusion, InManager
    <3>3. \A d \in Conns : \/ pc'[d] = pc[d]
                            \/ /\ stream(d) = g /\ user(d) = u
                               /\ pc[d] = "done" /\ pc'[d] = "closed"
      BY <2>13 DEF Close
    <3>. HIDE DEF TypeOK, BeforeJoin, manager_vars, group_vars
    <3>4. Membership!Vacate([user |-> u, stream |-> g]) \/ Quiet
      BY <3>1, <3>2, <3>3, LeaveImplements
    <3>5. [user |-> u, stream |-> g] \in Place
      BY DEF Place
    <3>. QED  BY <3>4, <3>5
  <2>. QED
    BY <1>1, <2>1, <2>2, <2>3, <2>4, <2>5, <2>6, <2>7, <2>8, <2>9, <2>10, <2>11,
       <2>12, <2>13 DEF ConnNext
<1>2. CASE RoomNext
  <2>1. ASSUME NEW g \in Streams, EndLeaves(g) PROVE Step
    <3>. PICK u \in Users : u = admin_user
      BY <1>a, <2>1 DEF EndLeaves, TypeOK
    <3>1. leave_group(g, u) /\ UNCHANGED <<request, rx, pc>>
      BY <2>1 DEF EndLeaves, leave_group, leave, conn_vars
    <3>2. \A d \in Conns : pc[d] # "joined"
      BY <2>1, DistinctNames DEF EndLeaves, IInv, Exclusion, InManager
    <3>. HIDE DEF manager_vars, group_vars
    <3>3. Membership!Vacate([user |-> u, stream |-> g]) \/ Quiet
      BY <3>1, <3>2, LeaveImplements
    <3>4. [user |-> u, stream |-> g] \in Place
      BY DEF Place
    <3>. QED  BY <3>3, <3>4
  <2>2. CASE UNCHANGED <<request, rx, user_senders, inner_user, pc>>
    BY <2>2, PhaseQuiet
  <2>. QED
    BY <1>2, <2>1, <2>2
       DEF RoomNext, RoomJoin, Exit, DeleteUser, DeleteRoom, EndReturns,
           RemoveClient, KeepClient, DeleteDone,
           StreamTakesRooms, StreamGivesRooms, end_user, conn_vars
<1>3. CASE Finished \/ UNCHANGED vars
  BY <1>3, PhaseQuiet DEF Finished, vars, conn_vars
<1>. QED  BY <1>1, <1>2, <1>3 DEF Next

(* Groups implements GroupMembership: a session that is over is never       *)
(* resumed, and whoever gives a place up ends every session of the place    *)
(* (Group::leave, end_user, route/ws/mod.rs).                               *)
THEOREM Implements == Spec => ImplementsMembership
<1>1. Init => Membership!Init
  BY InitImplements
<1>2. IInv /\ [Next]_vars => [Membership!Next]_(Membership!vars)
  BY NextImplements
<1>. QED
  BY <1>1, <1>2, Invariance, PTL DEF Spec, ImplementsMembership, Membership!Spec
=============================================================================
