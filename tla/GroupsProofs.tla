---------------------------- MODULE GroupsProofs ----------------------------
(***************************************************************************)
(* Proofs about Groups, for any users, streams and connections.            *)
(*                                                                         *)
(* IInv is inductive: type correctness, the agreement of the collections   *)
(* of a group, what the manager's lock excludes (Exclusion), and where     *)
(* channels come from (Provenance).  The lemmas first show, one conjunct   *)
(* after the other, that every step preserves it.                          *)
(***************************************************************************)
EXTENDS Groups, FiniteSetTheorems, TLAPS

BeforeJoin == {"idle", "authorized", "upgraded", "creating", "joining", "failed"}

(* The write lock is held by the one process that is inside the manager,    *)
(* and what a connection has seen there is still so.                        *)
Exclusion ==
    /\ \A c \in Conns : pc[c] \in InManager <=> lock = c
    /\ admin = "ending" <=> lock = Admin
    /\ \A c \in Conns :
          /\ pc[c] = "creating" => stream(c) \notin groups
          /\ pc[c] = "joining" => stream(c) \in groups

(* A connection has neither tasks nor channel before it joins; a channel    *)
(* that is listed or listened to was made, by a connection of that user     *)
(* and group.                                                               *)
Provenance ==
    /\ \A c \in Conns : pc[c] \in BeforeJoin =>
          pipe[c] = "none" /\ rx[c] = NoConn /\ recv_task[c] = "none"
    /\ \A c \in Conns : rx[c] # NoConn =>
          pipe[rx[c]] # "none" /\ request[rx[c]] = request[c]
    /\ \A g \in Streams, u \in Users : user_senders[g][u] # NoConn =>
          /\ pipe[user_senders[g][u]] # "none"
          /\ request[user_senders[g][u]] = [user |-> u, stream |-> g]

IInv ==
    /\ TypeOK
    /\ MembershipAgreement
    /\ IndexAgreement
    /\ Exclusion
    /\ UnwrapSafe
    /\ Provenance
    /\ NoZombieReceiver
    /\ MemberHasConnection
    /\ AnnouncedIsPresent

-----------------------------------------------------------------------------
(* Type correctness.                                                       *)

(* Updating one entry of a table indexed by group and user.                 *)
LEMMA TableUpdate ==
    ASSUME NEW S, NEW U, NEW X, NEW f \in [S -> [U -> X]],
           NEW g \in S, NEW u \in U, NEW x \in X
    PROVE  /\ [f EXCEPT ![g][u] = x] \in [S -> [U -> X]]
           /\ \A h \in S, v \in U :
                 [f EXCEPT ![g][u] = x][h][v] =
                     IF h = g /\ v = u THEN x ELSE f[h][v]
OBVIOUS

(* Recording an event about a user.                                         *)
LEMMA PresenceUpdate ==
    ASSUME TypeOK, NEW g \in Streams, NEW u \in Users,
           NEW e \in {"none", "open", "close"}
    PROVE  /\ [presence EXCEPT ![g][u] = e]
                  \in [Streams -> [Users -> {"none", "open", "close"}]]
           /\ \A h \in Streams, v \in Users :
                 [presence EXCEPT ![g][u] = e][h][v] =
                     IF h = g /\ v = u THEN e ELSE presence[h][v]
<1>. DEFINE Event == {"none", "open", "close"}
<1>1. presence \in [Streams -> [Users -> Event]] /\ e \in Event
  BY DEF TypeOK
<1>. HIDE DEF Event
<1>2. /\ [presence EXCEPT ![g][u] = e] \in [Streams -> [Users -> Event]]
      /\ \A h \in Streams, v \in Users :
            [presence EXCEPT ![g][u] = e][h][v] =
                IF h = g /\ v = u THEN e ELSE presence[h][v]
  BY <1>1, TableUpdate
<1>. QED  BY <1>2 DEF Event

LEMMA InitType == Init => TypeOK
<1>. SUFFICES ASSUME Init PROVE TypeOK
  OBVIOUS
<1>1. /\ inner_user \in [Streams -> SUBSET Users]
      /\ user_count \in [Streams -> Nat]
      /\ users_group \in [Users -> SUBSET Streams]
  BY DEF Init
<1>2. /\ user_tasks \in [Streams -> [Users -> MaybeConn]]
      /\ user_senders \in [Streams -> [Users -> MaybeConn]]
  BY DEF Init, MaybeConn
<1>3. presence \in [Streams -> [Users -> {"none", "open", "close"}]]
  BY DEF Init
<1>4. /\ pipe \in [Conns -> {"none", "running", "aborted", "ended"}]
      /\ pending \in [Conns -> BOOLEAN]
      /\ pc \in [Conns -> Stages]
      /\ rx \in [Conns -> MaybeConn]
      /\ recv_task \in [Conns -> {"none", "starting", "looping", "ended"}]
  BY DEF Init, Stages, MaybeConn
<1>. QED  BY <1>1, <1>2, <1>3, <1>4 DEF Init, TypeOK

(* The counter of a group someone is in can be decremented.                 *)
LEMMA CountPositive ==
    ASSUME TypeOK, MembershipAgreement, NEW g \in Streams,
           NEW u \in inner_user[g]
    PROVE  user_count[g] \in Nat /\ user_count[g] - 1 \in Nat
<1>1. IsFiniteSet(inner_user[g])
  BY FiniteUsers, FS_Subset DEF TypeOK
<1>2. Cardinality(inner_user[g]) # 0
  BY <1>1, FS_EmptySet
<1>. QED  BY <1>2 DEF TypeOK, MembershipAgreement

(* What Group::leave does for a user in the group, and that leave_group     *)
(* does nothing, but for the index, otherwise.                              *)
LEMMA LeaveStep ==
    ASSUME NEW g, NEW u, leave_group(g, u)
    PROVE  /\ groups' = groups
           /\ g \in groups => users_group' = [users_group EXCEPT ![u] = @ \ {g}]
           /\ g \notin groups => users_group' = users_group
           /\ g \in groups /\ u \in inner_user[g] =>
                 /\ inner_user' = [inner_user EXCEPT ![g] = @ \ {u}]
                 /\ user_count' = [user_count EXCEPT ![g] = @ - 1]
                 /\ user_tasks' = [user_tasks EXCEPT ![g][u] = NoConn]
                 /\ user_senders' = [user_senders EXCEPT ![g][u] = NoConn]
                 /\ presence' = [presence EXCEPT ![g][u] = "close"]
                 /\ pipe' = AbortTask(g, u)
                 /\ pending' = Sent(g, u)
           /\ ~(g \in groups /\ u \in inner_user[g]) =>
                 /\ UNCHANGED <<inner_user, user_count, user_tasks, user_senders>>
                 /\ UNCHANGED <<presence, pipe, pending>>
<1>1. CASE g \in groups /\ u \in inner_user[g]
  <2>. leave(g, u)
    BY <1>1 DEF leave_group
  <2>1. /\ inner_user' = [inner_user EXCEPT ![g] = @ \ {u}]
        /\ user_count' = [user_count EXCEPT ![g] = @ - 1]
        /\ pipe' = AbortTask(g, u)
        /\ pending' = Sent(g, u)
    BY <1>1 DEF leave
  <2>2. /\ user_tasks' = [user_tasks EXCEPT ![g][u] = NoConn]
        /\ user_senders' = [user_senders EXCEPT ![g][u] = NoConn]
        /\ presence' = [presence EXCEPT ![g][u] = "close"]
    BY <1>1 DEF leave, SendersWithout
  <2>3. groups' = groups /\ users_group' = [users_group EXCEPT ![u] = @ \ {g}]
    BY <1>1 DEF leave_group, IndexWithout
  <2>. QED  BY <1>1, <2>1, <2>2, <2>3
<1>2. CASE g \in groups /\ u \notin inner_user[g]
  BY <1>2 DEF leave_group, leave, group_vars, IndexWithout
<1>3. CASE g \notin groups
  BY <1>3 DEF leave_group, manager_vars, group_vars
<1>. QED  BY <1>1, <1>2, <1>3

LEMMA LeaveType ==
    ASSUME TypeOK, MembershipAgreement, NEW g \in Streams, NEW u \in Users,
           leave_group(g, u)
    PROVE  /\ groups' \subseteq Streams
           /\ inner_user' \in [Streams -> SUBSET Users]
           /\ user_count' \in [Streams -> Nat]
           /\ user_tasks' \in [Streams -> [Users -> MaybeConn]]
           /\ user_senders' \in [Streams -> [Users -> MaybeConn]]
           /\ users_group' \in [Users -> SUBSET Streams]
           /\ pipe' \in [Conns -> {"none", "running", "aborted", "ended"}]
           /\ pending' \in [Conns -> BOOLEAN]
           /\ presence' \in [Streams -> [Users -> {"none", "open", "close"}]]
<1>1. groups' \subseteq Streams /\ users_group' \in [Users -> SUBSET Streams]
  BY LeaveStep DEF TypeOK
<1>2. CASE g \in groups /\ u \in inner_user[g]
  <2>1. user_count[g] - 1 \in Nat
    BY <1>2, CountPositive
  <2>2. AbortTask(g, u) \in [Conns -> {"none", "running", "aborted", "ended"}]
    BY DEF TypeOK, AbortTask, Abort, MaybeConn
  <2>3. Sent(g, u) \in [Conns -> BOOLEAN]
    BY DEF TypeOK, Sent
  <2>4. /\ [user_tasks EXCEPT ![g][u] = NoConn] \in [Streams -> [Users -> MaybeConn]]
        /\ [user_senders EXCEPT ![g][u] = NoConn] \in [Streams -> [Users -> MaybeConn]]
    BY TableUpdate DEF TypeOK, MaybeConn
  <2>5. [presence EXCEPT ![g][u] = "close"]
            \in [Streams -> [Users -> {"none", "open", "close"}]]
    BY PresenceUpdate
  <2>6. /\ [inner_user EXCEPT ![g] = @ \ {u}] \in [Streams -> SUBSET Users]
        /\ [user_count EXCEPT ![g] = @ - 1] \in [Streams -> Nat]
    BY <2>1 DEF TypeOK
  <2>7. /\ inner_user' = [inner_user EXCEPT ![g] = @ \ {u}]
        /\ user_count' = [user_count EXCEPT ![g] = @ - 1]
        /\ user_tasks' = [user_tasks EXCEPT ![g][u] = NoConn]
        /\ user_senders' = [user_senders EXCEPT ![g][u] = NoConn]
        /\ presence' = [presence EXCEPT ![g][u] = "close"]
        /\ pipe' = AbortTask(g, u)
        /\ pending' = Sent(g, u)
    BY <1>2, LeaveStep
  <2>. QED
    BY <1>1, <2>2, <2>3, <2>4, <2>5, <2>6, <2>7
<1>3. CASE ~(g \in groups /\ u \in inner_user[g])
  BY <1>1, <1>3, LeaveStep DEF TypeOK
<1>. QED  BY <1>2, <1>3

(* What Group::join leaves in its tables.                                   *)
LEMMA JoinType ==
    ASSUME TypeOK, NEW g \in Streams, NEW u \in Users, NEW c \in Conns,
           join(g, u, c)
    PROVE  /\ inner_user' \in [Streams -> SUBSET Users]
           /\ user_count' \in [Streams -> Nat]
           /\ user_tasks' \in [Streams -> [Users -> MaybeConn]]
           /\ user_senders' \in [Streams -> [Users -> MaybeConn]]
           /\ pipe' \in [Conns -> {"none", "running", "aborted", "ended"}]
<1>1. inner_user' \in [Streams -> SUBSET Users] /\ user_count' \in [Streams -> Nat]
  BY DEF TypeOK, join, Counted
<1>2. CASE user_tasks[g][u] = NoConn
  <2>1. /\ user_tasks' = [user_tasks EXCEPT ![g][u] = c]
        /\ user_senders' = [user_senders EXCEPT ![g][u] = c]
        /\ pipe' = [pipe EXCEPT ![c] = "running"]
    BY <1>2 DEF join
  <2>. QED
    BY <1>1, <2>1, TableUpdate DEF TypeOK, MaybeConn
<1>3. CASE user_tasks[g][u] # NoConn
  BY <1>1, <1>3 DEF TypeOK, join
<1>. QED  BY <1>2, <1>3

LEMMA NextType == TypeOK /\ MembershipAgreement /\ [Next]_vars => TypeOK'
<1>. SUFFICES ASSUME TypeOK, MembershipAgreement, [Next]_vars
              PROVE  TypeOK'
  OBVIOUS
<1>. USE DEF TypeOK, group_vars, manager_vars, admin_vars, room_vars, conn_vars
<1>1. ASSUME NEW c \in Conns, ConnNext(c)
      PROVE  TypeOK'
  <2>1. CASE Authorize(c)
    BY <2>1 DEF Authorize, Stages
  <2>2. CASE Upgrade(c)
    BY <2>2 DEF Upgrade, Stages
  <2>3. CASE UpgradePanics(c)
    BY <2>3 DEF UpgradePanics, Stages
  <2>4. CASE GroupExists(c)
    BY <2>4 DEF GroupExists, Stages
  <2>5. CASE NewGroup(c)
    BY <2>5 DEF NewGroup, new_group, Stages, MaybeConn, stream, user
  <2>6. CASE JoinGroup(c)
    <3>1. stream(c) \in Streams /\ user(c) \in Users
      BY DEF stream, user
    <3>2. join(stream(c), user(c), c)
      BY <2>6 DEF JoinGroup, join_group
    <3>3. /\ users_group' = [users_group EXCEPT ![user(c)] = @ \cup {stream(c)}]
          /\ pc' = [pc EXCEPT ![c] = "joined"]
          /\ UNCHANGED <<pending, presence, groups, room_vars, lock, request,
                         rx, recv_task, admin_vars>>
      BY <2>6 DEF JoinGroup, join_group, join
    <3>4. /\ users_group' \in [Users -> SUBSET Streams]
          /\ pc' \in [Conns -> Stages]
      BY <3>1, <3>3 DEF Stages
    <3>. QED
      BY <3>1, <3>2, <3>3, <3>4, JoinType
  <2>7. CASE Subscribe(c)
    BY <2>7 DEF Subscribe, Stages, MaybeConn, stream, user
  <2>8. CASE Announce(c)
    <3>1. stream(c) \in Streams /\ user(c) \in Users
      BY DEF stream, user
    <3>2. [presence EXCEPT ![stream(c)][user(c)] = "open"]
              \in [Streams -> [Users -> {"none", "open", "close"}]]
      BY <3>1, PresenceUpdate
    <3>. QED
      BY <2>8, <3>1, <3>2 DEF Announce, Sent
  <2>9. CASE Broadcast(c)
    BY <2>9 DEF Broadcast, Sent, stream, user
  <2>10. CASE RecvTaskEnds(c)
    BY <2>10 DEF RecvTaskEnds, Stages
  <2>11. CASE SendTaskCloses(c)
    BY <2>11 DEF SendTaskCloses, MaybeConn
  <2>12. CASE SendTaskEnds(c)
    BY <2>12 DEF SendTaskEnds, MaybeConn
  <2>13. CASE SelectReturns(c)
    BY <2>13 DEF SelectReturns, Stages
  <2>14. CASE Close(c)
    <3>1. stream(c) \in Streams /\ user(c) \in Users
      BY DEF stream, user
    <3>2. leave_group(stream(c), user(c))
      BY <2>14 DEF Close
    <3>. HIDE DEF group_vars, manager_vars
    <3>. QED
      BY <2>14, <3>1, <3>2, LeaveType DEF Close, Stages
  <2>15. CASE ClosePanics(c)
    BY <2>15 DEF ClosePanics, Stages
  <2>16. CASE PipeForwards(c)
    BY <2>16 DEF PipeForwards, Stages
  <2>17. CASE PipeEnds(c)
    BY <2>17 DEF PipeEnds, Stages
  <2>. QED
    BY <1>1, <2>1, <2>2, <2>3, <2>4, <2>5, <2>6, <2>7, <2>8, <2>9, <2>10, <2>11, <2>12, <2>13, <2>14, <2>15, <2>16, <2>17 DEF ConnNext
<1>2. CASE RoomNext
  <2>1. ASSUME NEW u \in Users, RoomJoin(u) PROVE TypeOK'
    BY <2>1 DEF RoomJoin
  <2>2. ASSUME NEW u \in Users, Exit(u) PROVE TypeOK'
    BY <2>2 DEF Exit, end_user
  <2>3. ASSUME NEW u \in Users, DeleteUser(u) PROVE TypeOK'
    BY <2>3 DEF DeleteUser, end_user
  <2>4. ASSUME NEW g \in Streams, EndLeaves(g) PROVE TypeOK'
    <3>1. leave_group(g, admin_user) /\ admin_user \in Users
      BY <2>4 DEF EndLeaves
    <3>2. /\ UNCHANGED <<room_vars, lock, request, conn_vars, admin, admin_user,
                         deleting>>
          /\ group_names' \subseteq Streams
      BY <2>4 DEF EndLeaves
    <3>. HIDE DEF group_vars, manager_vars
    <3>. QED
      BY <3>1, <3>2, LeaveType
  <2>5. CASE DeleteRoom
    BY <2>5 DEF DeleteRoom, RoomsFree
  <2>6. CASE EndReturns
    BY <2>6 DEF EndReturns
  <2>7. CASE RemoveClient
    BY <2>7 DEF RemoveClient
  <2>8. CASE KeepClient
    BY <2>8 DEF KeepClient
  <2>9. CASE DeleteDone
    BY <2>9 DEF DeleteDone
  <2>10. CASE StreamTakesRooms
    BY <2>10 DEF StreamTakesRooms, RoomsFree
  <2>11. CASE StreamGivesRooms
    BY <2>11 DEF StreamGivesRooms
  <2>. QED
    BY <1>2, <2>1, <2>2, <2>3, <2>4, <2>5, <2>6, <2>7, <2>8, <2>9, <2>10, <2>11
    DEF RoomNext
<1>3. CASE Finished \/ UNCHANGED vars
  BY <1>3 DEF Finished, vars
<1>. QED  BY <1>1, <1>2, <1>3 DEF Next

-----------------------------------------------------------------------------
(* Membership.                                                             *)

(* The steps that touch the groups.                                         *)
LEMMA GroupSteps ==
    ASSUME [Next]_vars
    PROVE  \/ \E c \in Conns : NewGroup(c) \/ JoinGroup(c) \/ Close(c)
           \/ \E g \in Streams : EndLeaves(g)
           \/ UNCHANGED <<groups, inner_user, user_count, user_tasks, user_senders>>
<1>. USE DEF group_vars, manager_vars
<1>. DEFINE Same ==
        UNCHANGED <<groups, inner_user, user_count, user_tasks, user_senders>>
<1>1. ASSUME NEW c \in Conns, ConnNext(c)
      PROVE  NewGroup(c) \/ JoinGroup(c) \/ Close(c) \/ Same
  <2>1. CASE Authorize(c) \/ Upgrade(c) \/ UpgradePanics(c) \/ GroupExists(c)
    BY <2>1 DEF Authorize, Upgrade, UpgradePanics, GroupExists
  <2>2. CASE Subscribe(c) \/ Announce(c) \/ Broadcast(c) \/ RecvTaskEnds(c)
    BY <2>2 DEF Subscribe, Announce, Broadcast, RecvTaskEnds
  <2>3. CASE SendTaskCloses(c) \/ SendTaskEnds(c) \/ SelectReturns(c)
    BY <2>3 DEF SendTaskCloses, SendTaskEnds, SelectReturns
  <2>4. CASE ClosePanics(c) \/ PipeForwards(c) \/ PipeEnds(c)
    BY <2>4 DEF ClosePanics, PipeForwards, PipeEnds
  <2>. QED  BY <1>1, <2>1, <2>2, <2>3, <2>4 DEF ConnNext
<1>2. CASE RoomNext
  BY <1>2 DEF RoomNext, RoomJoin, Exit, DeleteUser, DeleteRoom, EndReturns,
              RemoveClient, KeepClient, DeleteDone,
              StreamTakesRooms, StreamGivesRooms, end_user
<1>3. CASE Finished \/ UNCHANGED vars
  BY <1>3 DEF Finished, vars
<1>. QED  BY <1>1, <1>2, <1>3 DEF Next

LEMMA InitAgreement == Init => MembershipAgreement
BY FS_EmptySet DEF Init, MembershipAgreement

LEMMA LeaveAgreement ==
    ASSUME TypeOK, MembershipAgreement, NEW g \in Streams, NEW u \in Users,
           leave_group(g, u)
    PROVE  MembershipAgreement'
<1>1. CASE ~(g \in groups /\ u \in inner_user[g])
  BY <1>1, LeaveStep DEF MembershipAgreement
<1>2. CASE g \in groups /\ u \in inner_user[g]
  <2>1. /\ groups' = groups
        /\ inner_user' = [inner_user EXCEPT ![g] = @ \ {u}]
        /\ user_count' = [user_count EXCEPT ![g] = @ - 1]
        /\ user_tasks' = [user_tasks EXCEPT ![g][u] = NoConn]
        /\ user_senders' = [user_senders EXCEPT ![g][u] = NoConn]
    BY <1>2, LeaveStep
  <2>2. ASSUME NEW h \in Streams
        PROVE  user_count'[h] = Cardinality(inner_user'[h])
    <3>1. IsFiniteSet(inner_user[g])
      BY FiniteUsers, FS_Subset DEF TypeOK
    <3>2. Cardinality(inner_user[g] \ {u}) = Cardinality(inner_user[g]) - 1
      BY <1>2, <3>1, FS_RemoveElement
    <3>. QED
      BY <2>1, <3>2 DEF TypeOK, MembershipAgreement
  <2>3. ASSUME NEW h \in Streams, NEW v \in Users
        PROVE  /\ user_tasks'[h][v] =
                      IF h = g /\ v = u THEN NoConn ELSE user_tasks[h][v]
               /\ user_senders'[h][v] =
                      IF h = g /\ v = u THEN NoConn ELSE user_senders[h][v]
    BY <2>1, TableUpdate DEF TypeOK, MaybeConn
  <2>4. ASSUME NEW h \in Streams
        PROVE  inner_user'[h] = IF h = g THEN inner_user[h] \ {u} ELSE inner_user[h]
    BY <2>1 DEF TypeOK
  <2>5. ASSUME NEW h \in Streams
        PROVE  h \notin groups' => inner_user'[h] = {}
    BY <2>1, <2>4 DEF MembershipAgreement
  <2>6. ASSUME NEW h \in Streams, NEW v \in Users
        PROVE  /\ user_tasks'[h][v] = user_senders'[h][v]
               /\ v \in inner_user'[h] <=> user_tasks'[h][v] # NoConn
    <3>1. /\ user_tasks[h][v] = user_senders[h][v]
          /\ v \in inner_user[h] <=> user_tasks[h][v] # NoConn
      BY DEF MembershipAgreement
    <3>2. v \in inner_user'[h] <=> v \in inner_user[h] /\ ~(h = g /\ v = u)
      BY <2>4
    <3>3. CASE h = g /\ v = u
      BY <2>3, <3>2, <3>3
    <3>4. CASE ~(h = g /\ v = u)
      BY <2>3, <3>1, <3>2, <3>4
    <3>. QED  BY <3>3, <3>4
  <2>. QED
    BY <2>2, <2>5, <2>6 DEF MembershipAgreement
<1>. QED  BY <1>1, <1>2

LEMMA JoinStep ==
    ASSUME TypeOK, NEW g \in Streams, NEW u \in Users, NEW c \in Conns,
           join(g, u, c)
    PROVE  /\ \A h \in Streams :
                 /\ inner_user'[h] =
                       IF h = g THEN inner_user[h] \cup {u} ELSE inner_user[h]
                 /\ user_count'[h] =
                       IF h = g /\ u \notin inner_user[g] THEN user_count[h] + 1
                       ELSE user_count[h]
           /\ \A h \in Streams, v \in Users :
                 /\ user_tasks'[h][v] =
                       IF h = g /\ v = u /\ user_tasks[g][u] = NoConn THEN c
                       ELSE user_tasks[h][v]
                 /\ user_senders'[h][v] =
                       IF h = g /\ v = u /\ user_tasks[g][u] = NoConn THEN c
                       ELSE user_senders[h][v]
           /\ pipe' = IF user_tasks[g][u] = NoConn
                      THEN [pipe EXCEPT ![c] = "running"] ELSE pipe
           /\ UNCHANGED <<pending, presence>>
<1>1. \A h \in Streams :
         /\ inner_user'[h] =
               IF h = g THEN inner_user[h] \cup {u} ELSE inner_user[h]
         /\ user_count'[h] =
               IF h = g /\ u \notin inner_user[g] THEN user_count[h] + 1
               ELSE user_count[h]
  BY DEF TypeOK, join, Counted
<1>2. CASE user_tasks[g][u] = NoConn
  <2>1. /\ user_tasks' = [user_tasks EXCEPT ![g][u] = c]
        /\ user_senders' = [user_senders EXCEPT ![g][u] = c]
        /\ pipe' = [pipe EXCEPT ![c] = "running"]
        /\ UNCHANGED <<pending, presence>>
    BY <1>2 DEF join
  <2>2. \A h \in Streams, v \in Users :
           /\ user_tasks'[h][v] =
                 IF h = g /\ v = u THEN c ELSE user_tasks[h][v]
           /\ user_senders'[h][v] =
                 IF h = g /\ v = u THEN c ELSE user_senders[h][v]
    BY <2>1, TableUpdate DEF TypeOK, MaybeConn
  <2>3. \A h \in Streams, v \in Users :
           /\ user_tasks'[h][v] =
                 IF h = g /\ v = u /\ user_tasks[g][u] = NoConn THEN c
                 ELSE user_tasks[h][v]
           /\ user_senders'[h][v] =
                 IF h = g /\ v = u /\ user_tasks[g][u] = NoConn THEN c
                 ELSE user_senders[h][v]
    BY <1>2, <2>2
  <2>4. pipe' = IF user_tasks[g][u] = NoConn
                THEN [pipe EXCEPT ![c] = "running"] ELSE pipe
    BY <1>2, <2>1
  <2>. QED  BY <1>1, <2>1, <2>3, <2>4
<1>3. CASE user_tasks[g][u] # NoConn
  BY <1>1, <1>3 DEF join
<1>. QED  BY <1>2, <1>3

LEMMA RequestType ==
    ASSUME TypeOK, NEW c \in Conns
    PROVE  /\ stream(c) \in Streams
           /\ user(c) \in Users
           /\ request[c] = [user |-> user(c), stream |-> stream(c)]
BY DEF TypeOK, stream, user

LEMMA NextAgreement ==
    ASSUME TypeOK, MembershipAgreement, [Next]_vars
    PROVE  MembershipAgreement'
<1>1. ASSUME NEW c \in Conns, NewGroup(c) PROVE MembershipAgreement'
  <2>1. stream(c) \in Streams
    BY RequestType
  <2>2. new_group(stream(c))
    BY <1>1 DEF NewGroup
  <2>. QED
    BY <2>1, <2>2, FS_EmptySet DEF new_group, MembershipAgreement, TypeOK
<1>2. ASSUME NEW c \in Conns, JoinGroup(c) PROVE MembershipAgreement'
  <2>1. stream(c) \in Streams /\ user(c) \in Users
    BY RequestType
  <2>2. join(stream(c), user(c), c) /\ stream(c) \in groups /\ groups' = groups
    BY <1>2 DEF JoinGroup, join_group
  <2>3. ASSUME NEW h \in Streams
        PROVE  user_count'[h] = Cardinality(inner_user'[h])
    <3>1. IsFiniteSet(inner_user[h])
      BY FiniteUsers, FS_Subset DEF TypeOK
    <3>2. Cardinality(inner_user[h] \cup {user(c)}) =
              IF user(c) \in inner_user[h] THEN Cardinality(inner_user[h])
              ELSE Cardinality(inner_user[h]) + 1
      BY <3>1, FS_AddElement
    <3>3. CASE h = stream(c)
      <4>1. /\ inner_user'[h] = inner_user[h] \cup {user(c)}
            /\ user_count'[h] = IF user(c) \notin inner_user[h]
                                THEN user_count[h] + 1 ELSE user_count[h]
        BY <2>1, <2>2, <3>3, JoinStep
      <4>. QED  BY <3>2, <4>1 DEF MembershipAgreement
    <3>4. CASE h # stream(c)
      <4>1. inner_user'[h] = inner_user[h] /\ user_count'[h] = user_count[h]
        BY <2>1, <2>2, <3>4, JoinStep
      <4>. QED  BY <4>1 DEF MembershipAgreement
    <3>. QED  BY <3>3, <3>4
  <2>4. ASSUME NEW h \in Streams, h \notin groups'
        PROVE  inner_user'[h] = {}
    <3>1. h # stream(c) /\ h \notin groups
      BY <2>2, <2>4
    <3>2. inner_user'[h] = inner_user[h]
      BY <2>1, <2>2, <3>1, JoinStep
    <3>. QED  BY <3>1, <3>2 DEF MembershipAgreement
  <2>5. ASSUME NEW h \in Streams, NEW v \in Users
        PROVE  /\ user_tasks'[h][v] = user_senders'[h][v]
               /\ v \in inner_user'[h] <=> user_tasks'[h][v] # NoConn
    <3>1. /\ user_tasks[h][v] = user_senders[h][v]
          /\ v \in inner_user[h] <=> user_tasks[h][v] # NoConn
      BY DEF MembershipAgreement
    <3>2. v \in inner_user'[h] <=>
              v \in inner_user[h] \/ (h = stream(c) /\ v = user(c))
      <4>1. inner_user'[h] = IF h = stream(c) THEN inner_user[h] \cup {user(c)}
                             ELSE inner_user[h]
        BY <2>1, <2>2, JoinStep
      <4>. QED  BY <4>1
    <3>3. /\ user_tasks'[h][v] =
                IF h = stream(c) /\ v = user(c)
                   /\ user_tasks[stream(c)][user(c)] = NoConn
                THEN c ELSE user_tasks[h][v]
          /\ user_senders'[h][v] =
                IF h = stream(c) /\ v = user(c)
                   /\ user_tasks[stream(c)][user(c)] = NoConn
                THEN c ELSE user_senders[h][v]
      BY <2>1, <2>2, JoinStep
    <3>4. CASE h = stream(c) /\ v = user(c)
      BY <3>1, <3>4, <3>2, <3>3, DistinctNames
    <3>5. CASE ~(h = stream(c) /\ v = user(c))
      BY <3>1, <3>5, <3>2, <3>3
    <3>. QED  BY <3>4, <3>5
  <2>. QED
    BY <2>3, <2>4, <2>5 DEF MembershipAgreement
<1>3. ASSUME NEW c \in Conns, Close(c) PROVE MembershipAgreement'
  BY <1>3, RequestType, LeaveAgreement DEF Close
<1>4. ASSUME NEW g \in Streams, EndLeaves(g) PROVE MembershipAgreement'
  <2>1. admin_user \in Users /\ leave_group(g, admin_user)
    BY <1>4 DEF EndLeaves, TypeOK
  <2>. QED  BY <2>1, LeaveAgreement
<1>5. CASE UNCHANGED <<groups, inner_user, user_count, user_tasks, user_senders>>
  BY <1>5 DEF MembershipAgreement
<1>. QED  BY <1>1, <1>2, <1>3, <1>4, <1>5, GroupSteps

-----------------------------------------------------------------------------
(* The manager's lock.                                                     *)

LEMMA InitExclusion == Init => Exclusion
BY DistinctNames DEF Init, Exclusion, InManager

LEMMA NextExclusion ==
    ASSUME TypeOK, Exclusion, [Next]_vars
    PROVE  Exclusion'
<1>. USE DistinctNames
         DEF TypeOK, Exclusion, InManager, stream, manager_vars, admin_vars
<1>1. ASSUME NEW c \in Conns, ConnNext(c)
      PROVE  Exclusion'
  <2>1. CASE Authorize(c) \/ UpgradePanics(c) \/ SelectReturns(c) \/ ClosePanics(c)
    BY <2>1 DEF Authorize, UpgradePanics, SelectReturns, ClosePanics
  <2>2. CASE Upgrade(c)
    BY <2>2 DEF Upgrade, LockFree, RoomsFree
  <2>3. CASE GroupExists(c)
    BY <2>3 DEF GroupExists
  <2>4. CASE NewGroup(c)
    BY <2>4 DEF NewGroup, new_group
  <2>5. CASE JoinGroup(c)
    BY <2>5 DEF JoinGroup, join_group
  <2>6. CASE Subscribe(c)
    BY <2>6 DEF Subscribe
  <2>7. CASE Announce(c) \/ Broadcast(c) \/ RecvTaskEnds(c)
    BY <2>7 DEF Announce, Broadcast, RecvTaskEnds
  <2>8. CASE SendTaskCloses(c) \/ SendTaskEnds(c)
    BY <2>8 DEF SendTaskCloses, SendTaskEnds
  <2>9. CASE PipeForwards(c) \/ PipeEnds(c)
    BY <2>9 DEF PipeForwards, PipeEnds, conn_vars
  <2>10. CASE Close(c)
    <3>1. groups' = groups
      BY <2>10, LeaveStep DEF Close
    <3>. QED
      BY <2>10, <3>1 DEF Close, LockFree, RoomsFree
  <2>. QED
    BY <1>1, <2>1, <2>2, <2>3, <2>4, <2>5, <2>6, <2>7, <2>8, <2>9, <2>10
       DEF ConnNext
<1>2. CASE RoomNext
  <2>. USE DEF conn_vars, LockFree, RoomsFree
  <2>1. ASSUME NEW u \in Users, RoomJoin(u) PROVE Exclusion'
    BY <2>1 DEF RoomJoin
  <2>2. ASSUME NEW u \in Users, Exit(u) \/ DeleteUser(u) PROVE Exclusion'
    BY <2>2 DEF Exit, DeleteUser, end_user
  <2>3. ASSUME NEW g \in Streams, EndLeaves(g) PROVE Exclusion'
    <3>1. groups' = groups
      BY <2>3, LeaveStep DEF EndLeaves
    <3>. QED
      BY <2>3, <3>1 DEF EndLeaves
  <2>4. CASE EndReturns
    BY <2>4 DEF EndReturns
  <2>5. CASE DeleteRoom \/ RemoveClient \/ KeepClient \/ DeleteDone
             \/ StreamTakesRooms \/ StreamGivesRooms
    BY <2>5 DEF DeleteRoom, RemoveClient, KeepClient, DeleteDone, StreamTakesRooms,
                StreamGivesRooms
  <2>. QED  BY <1>2, <2>1, <2>2, <2>3, <2>4, <2>5 DEF RoomNext
<1>3. CASE Finished \/ UNCHANGED vars
  BY <1>3 DEF Finished, vars, conn_vars
<1>. QED  BY <1>1, <1>2, <1>3 DEF Next

-----------------------------------------------------------------------------
(* The index of a user's groups.                                           *)

LEMMA InitIndex == Init => IndexAgreement
BY DEF Init, IndexAgreement

(* The steps that touch users_group, or what end_user has copied of it.     *)
LEMMA IndexSteps ==
    ASSUME [Next]_vars
    PROVE  \/ \E c \in Conns : NewGroup(c) \/ JoinGroup(c) \/ Close(c)
           \/ \E g \in Streams : EndLeaves(g)
           \/ \E u \in Users : Exit(u) \/ DeleteUser(u)
           \/ EndReturns
           \/ /\ UNCHANGED <<inner_user, users_group, group_names>>
              /\ \/ UNCHANGED <<admin, admin_user>>
                 \/ admin # "ending" /\ admin' # "ending"
<1>. USE DEF group_vars, manager_vars, admin_vars
<1>. DEFINE Same ==
        /\ UNCHANGED <<inner_user, users_group, group_names>>
        /\ \/ UNCHANGED <<admin, admin_user>>
           \/ admin # "ending" /\ admin' # "ending"
<1>1. ASSUME NEW c \in Conns, ConnNext(c)
      PROVE  NewGroup(c) \/ JoinGroup(c) \/ Close(c) \/ Same
  <2>1. CASE Authorize(c) \/ Upgrade(c) \/ UpgradePanics(c) \/ GroupExists(c)
    BY <2>1 DEF Authorize, Upgrade, UpgradePanics, GroupExists
  <2>2. CASE Subscribe(c) \/ Announce(c) \/ Broadcast(c) \/ RecvTaskEnds(c)
    BY <2>2 DEF Subscribe, Announce, Broadcast, RecvTaskEnds
  <2>3. CASE SendTaskCloses(c) \/ SendTaskEnds(c) \/ SelectReturns(c)
    BY <2>3 DEF SendTaskCloses, SendTaskEnds, SelectReturns
  <2>4. CASE ClosePanics(c) \/ PipeForwards(c) \/ PipeEnds(c)
    BY <2>4 DEF ClosePanics, PipeForwards, PipeEnds
  <2>. QED  BY <1>1, <2>1, <2>2, <2>3, <2>4 DEF ConnNext
<1>2. ASSUME NEW u \in Users, RoomJoin(u)
      PROVE  Same
  BY <1>2 DEF RoomJoin
<1>3. CASE DeleteRoom \/ RemoveClient \/ KeepClient \/ DeleteDone
           \/ StreamTakesRooms \/ StreamGivesRooms
  BY <1>3 DEF DeleteRoom, RemoveClient, KeepClient, DeleteDone, StreamTakesRooms,
              StreamGivesRooms, RoomsFree
<1>4. CASE Finished \/ UNCHANGED vars
  BY <1>4 DEF Finished, vars
<1>. QED  BY <1>1, <1>2, <1>3, <1>4 DEF Next, RoomNext

LEMMA LeaveIndex ==
    ASSUME TypeOK, NEW g \in Streams, NEW u \in Users, leave_group(g, u),
           NEW h \in Streams, NEW v \in Users
    PROVE  /\ v \in inner_user'[h] <=>
                 v \in inner_user[h] /\ ~(h = g /\ v = u /\ g \in groups)
           /\ h \in users_group'[v] <=>
                 h \in users_group[v] /\ ~(h = g /\ v = u /\ g \in groups)
<1>1. CASE g \in groups
  <2>1. users_group' = [users_group EXCEPT ![u] = @ \ {g}]
    BY <1>1, LeaveStep
  <2>2. inner_user' = [inner_user EXCEPT ![g] = @ \ {u}] \/
        (inner_user' = inner_user /\ u \notin inner_user[g])
    BY <1>1, LeaveStep
  <2>3. users_group'[v] = IF v = u THEN users_group[v] \ {g} ELSE users_group[v]
    BY <2>1 DEF TypeOK
  <2>4. \/ inner_user'[h] = IF h = g THEN inner_user[h] \ {u} ELSE inner_user[h]
        \/ inner_user'[h] = inner_user[h] /\ u \notin inner_user[g]
    BY <2>2 DEF TypeOK
  <2>. QED  BY <1>1, <2>3, <2>4
<1>2. CASE g \notin groups
  <2>1. inner_user' = inner_user /\ users_group' = users_group
    BY <1>2, LeaveStep
  <2>. QED  BY <1>2, <2>1
<1>. QED  BY <1>1, <1>2

LEMMA NextIndex ==
    ASSUME TypeOK, MembershipAgreement, Exclusion, IndexAgreement, [Next]_vars
    PROVE  IndexAgreement'
<1>1. ASSUME NEW c \in Conns, NewGroup(c) PROVE IndexAgreement'
  <2>1. stream(c) \in Streams /\ inner_user[stream(c)] = {}
    BY <1>1, RequestType DEF NewGroup, Exclusion, MembershipAgreement
  <2>2. inner_user' = inner_user
    BY <1>1, <2>1 DEF NewGroup, new_group, TypeOK
  <2>3. UNCHANGED <<users_group, admin, admin_user, group_names>>
    BY <1>1 DEF NewGroup, new_group, admin_vars
  <2>. QED  BY <2>2, <2>3 DEF IndexAgreement
<1>2. ASSUME NEW c \in Conns, JoinGroup(c) PROVE IndexAgreement'
  <2>1. stream(c) \in Streams /\ user(c) \in Users
    BY RequestType
  <2>2. /\ inner_user' = [inner_user EXCEPT ![stream(c)] = @ \cup {user(c)}]
        /\ users_group' = [users_group EXCEPT ![user(c)] = @ \cup {stream(c)}]
        /\ UNCHANGED <<admin, admin_user, group_names>>
    BY <1>2 DEF JoinGroup, join_group, join, admin_vars
  <2>3. admin # "ending"
    BY <1>2, DistinctNames DEF JoinGroup, Exclusion, InManager
  <2>. QED  BY <2>1, <2>2, <2>3 DEF IndexAgreement, TypeOK
<1>3. ASSUME NEW c \in Conns, Close(c) PROVE IndexAgreement'
  <2>1. stream(c) \in Streams /\ user(c) \in Users
    BY RequestType
  <2>2. leave_group(stream(c), user(c))
        /\ UNCHANGED <<admin, admin_user, group_names>> /\ admin = "idle"
    BY <1>3 DEF Close, admin_vars, RoomsFree
  <2>3. ASSUME NEW v \in Users, NEW h \in Streams
        PROVE  v \in inner_user'[h] <=> h \in users_group'[v]
    <3>1. v \in inner_user[h] <=> h \in users_group[v]
      BY <2>2 DEF IndexAgreement
    <3>2. v \in inner_user'[h] <=> v \in inner_user[h] /\
              ~(h = stream(c) /\ v = user(c) /\ stream(c) \in groups)
      BY <2>1, <2>2, LeaveIndex
    <3>3. h \in users_group'[v] <=> h \in users_group[v] /\
              ~(h = stream(c) /\ v = user(c) /\ stream(c) \in groups)
      BY <2>1, <2>2, LeaveIndex
    <3>. QED  BY <3>1, <3>2, <3>3
  <2>. QED  BY <2>2, <2>3 DEF IndexAgreement
<1>4. ASSUME NEW g \in Streams, EndLeaves(g) PROVE IndexAgreement'
  <2>1. /\ admin_user \in Users
        /\ leave_group(g, admin_user)
        /\ admin = "ending"
        /\ g \in group_names
        /\ group_names' = group_names \ {g}
        /\ UNCHANGED <<admin, admin_user>>
    BY <1>4 DEF EndLeaves, TypeOK
  <2>2. g \in groups
    BY <2>1 DEF IndexAgreement, MembershipAgreement
  <2>3. ASSUME NEW v \in Users, NEW h \in Streams
        PROVE  v \in inner_user'[h] <=>
                   \/ h \in users_group'[v]
                   \/ admin_user = v /\ h \in group_names'
    <3>1. v \in inner_user[h] <=>
              h \in users_group[v] \/ (admin_user = v /\ h \in group_names)
      BY <2>1 DEF IndexAgreement
    <3>2. v \in inner_user'[h] <=>
              v \in inner_user[h] /\ ~(h = g /\ v = admin_user)
      BY <2>1, <2>2, LeaveIndex
    <3>3. h \in users_group'[v] <=>
              h \in users_group[v] /\ ~(h = g /\ v = admin_user)
      BY <2>1, <2>2, LeaveIndex
    <3>. QED  BY <2>1, <3>1, <3>2, <3>3
  <2>. QED  BY <2>1, <2>3 DEF IndexAgreement
<1>5. ASSUME NEW u \in Users, Exit(u) \/ DeleteUser(u) PROVE IndexAgreement'
  <2>1. /\ admin' = "ending"
        /\ admin_user' = u
        /\ group_names' = users_group[u]
        /\ users_group' = [users_group EXCEPT ![u] = {}]
        /\ inner_user' = inner_user
        /\ admin # "ending"
    BY <1>5 DEF Exit, DeleteUser, end_user, RoomsFree, group_vars
  <2>. QED  BY <2>1 DEF IndexAgreement, TypeOK
<1>6. CASE EndReturns
  BY <1>6 DEF EndReturns, IndexAgreement, manager_vars, group_vars
<1>7. CASE /\ UNCHANGED <<inner_user, users_group, group_names>>
           /\ \/ UNCHANGED <<admin, admin_user>>
              \/ admin # "ending" /\ admin' # "ending"
  BY <1>7 DEF IndexAgreement
<1>. QED  BY <1>1, <1>2, <1>3, <1>4, <1>5, <1>6, <1>7, IndexSteps

-----------------------------------------------------------------------------
(* Channels and pipes.                                                     *)

LEMMA RequestFixed == [Next]_vars => request' = request
BY DEF Next, ConnNext, RoomNext, Finished, vars, Authorize, Upgrade, UpgradePanics,
       GroupExists, NewGroup, JoinGroup, Subscribe, Announce, Broadcast,
       RecvTaskEnds, SendTaskCloses, SendTaskEnds, SelectReturns, Close,
       ClosePanics, PipeForwards, PipeEnds, RoomJoin, Exit, DeleteUser,
       DeleteRoom, EndLeaves, EndReturns, RemoveClient, KeepClient, DeleteDone,
       StreamTakesRooms, StreamGivesRooms

(* Whether the user was a member or not, after leave_group it has no        *)
(* channel, and the pipe that fed it is being torn down.                    *)
LEMMA LeaveChannels ==
    ASSUME TypeOK, MembershipAgreement, NEW g \in Streams, NEW u \in Users,
           leave_group(g, u)
    PROVE  /\ \A h \in Streams, v \in Users :
                 user_senders'[h][v] =
                     IF h = g /\ v = u THEN NoConn ELSE user_senders[h][v]
           /\ \A k \in Conns :
                 pipe'[k] = IF k = user_senders[g][u] THEN Abort(pipe[k]) ELSE pipe[k]
<1>1. CASE g \in groups /\ u \in inner_user[g]
  <2>1. /\ user_senders' = [user_senders EXCEPT ![g][u] = NoConn]
        /\ pipe' = AbortTask(g, u)
    BY <1>1, LeaveStep
  <2>2. \A h \in Streams, v \in Users :
           user_senders'[h][v] =
               IF h = g /\ v = u THEN NoConn ELSE user_senders[h][v]
    BY <2>1, TableUpdate DEF TypeOK, MaybeConn
  <2>3. user_tasks[g][u] = user_senders[g][u] /\ user_tasks[g][u] \in Conns
    BY <1>1 DEF MembershipAgreement, TypeOK, MaybeConn
  <2>4. AbortTask(g, u) = [pipe EXCEPT ![user_senders[g][u]] = Abort(@)]
    BY <2>3, DistinctNames DEF AbortTask
  <2>5. \A k \in Conns :
           pipe'[k] = IF k = user_senders[g][u] THEN Abort(pipe[k]) ELSE pipe[k]
    BY <2>1, <2>3, <2>4 DEF TypeOK
  <2>. QED  BY <2>2, <2>5
<1>2. CASE ~(g \in groups /\ u \in inner_user[g])
  <2>1. user_senders' = user_senders /\ pipe' = pipe
    BY <1>2, LeaveStep
  <2>2. user_senders[g][u] = NoConn
    BY <1>2 DEF MembershipAgreement
  <2>. QED  BY <2>1, <2>2, DistinctNames
<1>. QED  BY <1>1, <1>2

(* A new group had nobody, so creating it takes nobody's channel away.      *)
LEMMA NewGroupQuiet ==
    ASSUME TypeOK, MembershipAgreement, Exclusion, NEW c \in Conns, NewGroup(c)
    PROVE  user_senders' = user_senders /\ inner_user' = inner_user
<1>1. /\ stream(c) \in Streams
      /\ inner_user[stream(c)] = {}
  BY RequestType DEF NewGroup, Exclusion, MembershipAgreement
<1>2. \A u \in Users : user_senders[stream(c)][u] = NoConn
  BY <1>1 DEF MembershipAgreement
<1>3. user_senders[stream(c)] = [u \in Users |-> NoConn]
  BY <1>1, <1>2 DEF TypeOK
<1>4. /\ user_senders' = [user_senders EXCEPT
                             ![stream(c)] = [u \in Users |-> NoConn]]
      /\ inner_user' = [inner_user EXCEPT ![stream(c)] = {}]
  BY DEF NewGroup, new_group
<1>. QED  BY <1>1, <1>3, <1>4 DEF TypeOK

(* Only a join gives a user a channel, and only a leave takes it away.      *)
LEMMA ChannelSteps ==
    ASSUME TypeOK, MembershipAgreement, Exclusion, [Next]_vars
    PROVE  \/ \E c \in Conns : JoinGroup(c) \/ Close(c)
           \/ \E g \in Streams : EndLeaves(g)
           \/ UNCHANGED <<user_senders, inner_user>>
BY GroupSteps, NewGroupQuiet

LEMMA InitUnwrap == Init => UnwrapSafe
BY DEF Init, UnwrapSafe

(* Nobody becomes "joined" but by JoinGroup.                                *)
LEMMA JoinedSteps ==
    ASSUME TypeOK, [Next]_vars, NEW d \in Conns, pc'[d] = "joined"
    PROVE  JoinGroup(d) \/ pc[d] = "joined"
<1>. USE DEF TypeOK
<1>1. ASSUME NEW c \in Conns, ConnNext(c)
      PROVE  JoinGroup(d) \/ pc[d] = "joined"
  <2>1. CASE Authorize(c) \/ Upgrade(c) \/ UpgradePanics(c) \/ GroupExists(c)
    BY <2>1 DEF Authorize, Upgrade, UpgradePanics, GroupExists
  <2>2. CASE Subscribe(c) \/ Announce(c) \/ Broadcast(c) \/ RecvTaskEnds(c)
    BY <2>2 DEF Subscribe, Announce, Broadcast, RecvTaskEnds
  <2>3. CASE SendTaskCloses(c) \/ SendTaskEnds(c) \/ SelectReturns(c)
    BY <2>3 DEF SendTaskCloses, SendTaskEnds, SelectReturns
  <2>4. CASE ClosePanics(c) \/ PipeForwards(c) \/ PipeEnds(c)
    BY <2>4 DEF ClosePanics, PipeForwards, PipeEnds, conn_vars
  <2>5. CASE NewGroup(c) \/ JoinGroup(c) \/ Close(c)
    BY <2>5 DEF NewGroup, JoinGroup, Close
  <2>. QED  BY <1>1, <2>1, <2>2, <2>3, <2>4, <2>5 DEF ConnNext
<1>2. CASE RoomNext
  BY <1>2 DEF RoomNext, RoomJoin, Exit, DeleteUser, DeleteRoom, EndLeaves,
              EndReturns, RemoveClient, KeepClient, DeleteDone,
              StreamTakesRooms, StreamGivesRooms, conn_vars
<1>3. CASE Finished \/ UNCHANGED vars
  BY <1>3 DEF Finished, vars, conn_vars
<1>. QED  BY <1>1, <1>2, <1>3 DEF Next

LEMMA NextUnwrap ==
    ASSUME TypeOK, MembershipAgreement, MembershipAgreement', Exclusion,
           UnwrapSafe, [Next]_vars
    PROVE  UnwrapSafe'
<1>. SUFFICES ASSUME NEW d \in Conns, pc'[d] = "joined"
              PROVE  Member(d)' /\ Channel(d)' # NoConn
  BY DEF UnwrapSafe
<1>. DEFINE g == stream(d)
            u == user(d)
<1>1. /\ g \in Streams /\ u \in Users
      /\ stream(d)' = g /\ user(d)' = u
  BY RequestType, RequestFixed DEF stream, user
<1>. HIDE DEF g, u
<1>2. SUFFICES user_senders'[g][u] # NoConn
  BY <1>1, <1>2 DEF MembershipAgreement, Member, Channel
<1>3. CASE JoinGroup(d)
  <2>1. join(g, u, d)
    BY <1>3 DEF JoinGroup, join_group, g, u
  <2>2. user_senders'[g][u] =
            IF user_tasks[g][u] = NoConn THEN d ELSE user_senders[g][u]
    BY <1>1, <2>1, JoinStep
  <2>. QED
    BY <1>1, <2>2, DistinctNames DEF MembershipAgreement
<1>4. CASE pc[d] = "joined"
  <2>1. user_senders[g][u] # NoConn
    BY <1>4 DEF UnwrapSafe, Channel, g, u
  <2>2. lock = d
    BY <1>4 DEF Exclusion, InManager
  <2>3. ASSUME NEW c \in Conns PROVE ~JoinGroup(c) /\ ~Close(c)
    BY <1>4, <2>2, DistinctNames DEF JoinGroup, Close, LockFree, Exclusion, InManager
  <2>4. ASSUME NEW h \in Streams PROVE ~EndLeaves(h)
    BY <2>2, DistinctNames DEF EndLeaves, Exclusion
  <2>5. user_senders' = user_senders
    BY <2>3, <2>4, ChannelSteps
  <2>. QED  BY <2>1, <2>5
<1>. QED  BY <1>3, <1>4, JoinedSteps

LEMMA InitProvenance == Init => Provenance
BY DEF Init, Provenance

LEMMA LeaveProvenance ==
    ASSUME TypeOK, MembershipAgreement, Provenance, NEW g \in Streams,
           NEW u \in Users, leave_group(g, u), UNCHANGED <<request, rx, recv_task>>,
           \A c \in Conns : pc'[c] \in BeforeJoin => pc[c] \in BeforeJoin
    PROVE  Provenance'
<1>1. \A k \in Conns : pipe'[k] = "none" <=> pipe[k] = "none"
  BY LeaveChannels DEF Abort
<1>2. ASSUME NEW c \in Conns, rx[c] # NoConn
      PROVE  pipe'[rx[c]] # "none" /\ request[rx[c]] = request[c]
  BY <1>1, <1>2 DEF Provenance, TypeOK, MaybeConn
<1>3. ASSUME NEW h \in Streams, NEW v \in Users, user_senders'[h][v] # NoConn
      PROVE  /\ pipe'[user_senders'[h][v]] # "none"
             /\ request[user_senders'[h][v]] = [user |-> v, stream |-> h]
  <2>1. user_senders'[h][v] = user_senders[h][v]
    BY <1>3, LeaveChannels
  <2>2. user_senders[h][v] \in Conns
    BY <1>3, <2>1 DEF TypeOK, MaybeConn
  <2>. QED  BY <1>1, <1>3, <2>1, <2>2 DEF Provenance
<1>4. ASSUME NEW c \in Conns, pc'[c] \in BeforeJoin
      PROVE  pipe'[c] = "none" /\ rx[c] = NoConn /\ recv_task[c] = "none"
  BY <1>1, <1>4 DEF Provenance
<1>. QED  BY <1>2, <1>3, <1>4 DEF Provenance

LEMMA JoinProvenance ==
    ASSUME TypeOK, Provenance, NEW c \in Conns, JoinGroup(c)
    PROVE  Provenance'
<1>. DEFINE g == stream(c)
            u == user(c)
<1>1. /\ g \in Streams /\ u \in Users
      /\ request[c] = [user |-> u, stream |-> g]
  BY RequestType
<1>2. /\ join(g, u, c)
      /\ pc' = [pc EXCEPT ![c] = "joined"]
      /\ UNCHANGED <<request, rx, recv_task>>
  BY DEF JoinGroup, join_group
<1>. HIDE DEF g, u
<1>3. \A k \in Conns :
         pipe'[k] = IF k = c /\ user_tasks[g][u] = NoConn THEN "running" ELSE pipe[k]
  BY <1>1, <1>2, JoinStep DEF TypeOK
<1>4. ASSUME NEW d \in Conns, pc'[d] \in BeforeJoin
      PROVE  pipe'[d] = "none" /\ rx[d] = NoConn /\ recv_task[d] = "none"
  <2>1. d # c /\ pc[d] \in BeforeJoin
    BY <1>2, <1>4 DEF TypeOK, BeforeJoin
  <2>. QED  BY <1>3, <2>1 DEF Provenance
<1>5. ASSUME NEW d \in Conns, rx[d] # NoConn
      PROVE  pipe'[rx[d]] # "none" /\ request[rx[d]] = request[d]
  BY <1>3, <1>5 DEF Provenance, TypeOK, MaybeConn
<1>6. ASSUME NEW h \in Streams, NEW v \in Users, user_senders'[h][v] # NoConn
      PROVE  /\ pipe'[user_senders'[h][v]] # "none"
             /\ request[user_senders'[h][v]] = [user |-> v, stream |-> h]
  <2>1. CASE h = g /\ v = u /\ user_tasks[g][u] = NoConn
    <3>1. user_senders'[h][v] = c
      BY <1>1, <1>2, <2>1, JoinStep
    <3>. QED  BY <1>1, <1>3, <2>1, <3>1
  <2>2. CASE ~(h = g /\ v = u /\ user_tasks[g][u] = NoConn)
    <3>1. user_senders'[h][v] = user_senders[h][v]
      BY <1>1, <1>2, <2>2, JoinStep
    <3>2. user_senders[h][v] \in Conns
      BY <1>6, <3>1 DEF TypeOK, MaybeConn
    <3>. QED  BY <1>3, <1>6, <3>1, <3>2 DEF Provenance
  <2>. QED  BY <2>1, <2>2
<1>. QED  BY <1>2, <1>4, <1>5, <1>6 DEF Provenance

LEMMA NextProvenance ==
    ASSUME TypeOK, MembershipAgreement, Exclusion, UnwrapSafe, Provenance,
           [Next]_vars
    PROVE  Provenance'
<1>1. ASSUME NEW c \in Conns, ConnNext(c)
      PROVE  Provenance'
  <2>. USE DEF Provenance, TypeOK, BeforeJoin, manager_vars, group_vars
  <2>1. CASE Authorize(c)
    BY <2>1 DEF Authorize
  <2>2. CASE Upgrade(c)
    BY <2>2 DEF Upgrade
  <2>3. CASE UpgradePanics(c)
    BY <2>3 DEF UpgradePanics
  <2>4. CASE GroupExists(c)
    BY <2>4 DEF GroupExists
  <2>5. CASE NewGroup(c)
    <3>1. UNCHANGED <<user_senders, request, rx, recv_task, pipe>>
      BY <2>5, NewGroupQuiet DEF NewGroup, new_group
    <3>. QED
      BY <2>5, <3>1 DEF NewGroup
  <2>6. CASE JoinGroup(c)
    <3>. HIDE DEF Provenance, TypeOK, BeforeJoin, manager_vars, group_vars
    <3>. QED  BY <2>6, JoinProvenance
  <2>7. CASE Subscribe(c)
    <3>1. /\ stream(c) \in Streams /\ user(c) \in Users
          /\ request[c] = [user |-> user(c), stream |-> stream(c)]
      BY RequestType
    <3>2. user_senders[stream(c)][user(c)] # NoConn
      BY <2>7 DEF Subscribe, UnwrapSafe, Channel
    <3>3. /\ rx' = [rx EXCEPT ![c] = user_senders[stream(c)][user(c)]]
          /\ recv_task' = [recv_task EXCEPT ![c] = "starting"]
          /\ pc' = [pc EXCEPT ![c] = "serving"]
          /\ UNCHANGED <<request, pipe, user_senders>>
      BY <2>7 DEF Subscribe
    <3>4. \A d \in Conns : rx'[d] =
              IF d = c THEN user_senders[stream(c)][user(c)] ELSE rx[d]
      BY <3>3
    <3>5. ASSUME NEW d \in Conns, rx'[d] # NoConn
          PROVE  pipe[rx'[d]] # "none" /\ request[rx'[d]] = request[d]
      <4>1. CASE d = c
        BY <3>1, <3>2, <3>4, <4>1
      <4>2. CASE d # c
        BY <3>4, <3>5, <4>2
      <4>. QED  BY <4>1, <4>2
    <3>6. ASSUME NEW d \in Conns, pc'[d] \in BeforeJoin
          PROVE  pipe[d] = "none" /\ rx'[d] = NoConn /\ recv_task'[d] = "none"
      <4>1. d # c /\ pc[d] \in BeforeJoin
        BY <3>3, <3>6
      <4>. QED  BY <3>3, <4>1
    <3>. QED
      BY <3>3, <3>5, <3>6
  <2>8. CASE Announce(c) \/ Broadcast(c) \/ RecvTaskEnds(c)
    BY <2>8 DEF Announce, Broadcast, RecvTaskEnds
  <2>9. CASE SendTaskCloses(c) \/ SendTaskEnds(c)
    <3>1. \A d \in Conns : rx'[d] = rx[d] \/ rx'[d] = NoConn
      BY <2>9 DEF SendTaskCloses, SendTaskEnds
    <3>2. UNCHANGED <<pc, recv_task, pipe, request, user_senders>>
      BY <2>9 DEF SendTaskCloses, SendTaskEnds
    <3>. QED
      BY <3>1, <3>2
  <2>10. CASE SelectReturns(c) \/ ClosePanics(c)
    BY <2>10 DEF SelectReturns, ClosePanics
  <2>11. CASE PipeForwards(c) \/ PipeEnds(c)
    <3>1. \A k \in Conns : pipe'[k] = "none" <=> pipe[k] = "none"
      BY <2>11 DEF PipeForwards, PipeEnds
    <3>2. UNCHANGED <<pc, rx, recv_task, request, user_senders>>
      BY <2>11 DEF PipeForwards, PipeEnds, conn_vars
    <3>. QED
      BY <3>1, <3>2 DEF MaybeConn
  <2>12. CASE Close(c)
    <3>1. stream(c) \in Streams /\ user(c) \in Users
      BY RequestType
    <3>2. leave_group(stream(c), user(c)) /\ UNCHANGED <<request, rx, recv_task>>
      BY <2>12 DEF Close
    <3>3. \A d \in Conns : pc'[d] \in BeforeJoin => pc[d] \in BeforeJoin
      BY <2>12 DEF Close
    <3>. HIDE DEF Provenance, TypeOK, BeforeJoin, manager_vars, group_vars
    <3>. QED  BY <3>1, <3>2, <3>3, LeaveProvenance
  <2>. QED
    BY <1>1, <2>1, <2>2, <2>3, <2>4, <2>5, <2>6, <2>7, <2>8, <2>9, <2>10, <2>11,
       <2>12 DEF ConnNext
<1>2. CASE RoomNext
  <2>1. ASSUME NEW g \in Streams, EndLeaves(g) PROVE Provenance'
    <3>1. admin_user \in Users /\ leave_group(g, admin_user)
          /\ UNCHANGED <<request, rx, recv_task, pc>>
      BY <2>1 DEF EndLeaves, TypeOK, conn_vars
    <3>. QED  BY <3>1, LeaveProvenance
  <2>2. CASE UNCHANGED <<pc, rx, recv_task, pipe, request, user_senders>>
    BY <2>2 DEF Provenance
  <2>. QED
    BY <1>2, <2>1, <2>2
       DEF RoomNext, RoomJoin, Exit, DeleteUser, DeleteRoom, EndReturns,
           RemoveClient, KeepClient, DeleteDone,
           StreamTakesRooms, StreamGivesRooms, end_user, conn_vars,
           manager_vars, group_vars
<1>3. CASE Finished \/ UNCHANGED vars
  BY <1>3 DEF Finished, vars, conn_vars, manager_vars, group_vars, Provenance
<1>. QED  BY <1>1, <1>2, <1>3 DEF Next

-----------------------------------------------------------------------------
(* Receivers and members.                                                  *)

LEMMA InitZombie == Init => NoZombieReceiver
BY DEF Init, NoZombieReceiver

LEMMA LeaveZombie ==
    ASSUME TypeOK, MembershipAgreement, Provenance, NoZombieReceiver,
           NEW g \in Streams, NEW u \in Users, leave_group(g, u),
           UNCHANGED <<request, rx>>
    PROVE  NoZombieReceiver'
<1>. SUFFICES ASSUME NEW d \in Conns, rx[d] # NoConn,
                     rx[d] # user_senders'[stream(d)][user(d)]
              PROVE  pipe'[rx[d]] \in {"aborted", "ended"}
  BY DEF NoZombieReceiver, Attached, Channel, stream, user
<1>1. /\ rx[d] \in Conns
      /\ pipe[rx[d]] # "none"
      /\ stream(d) \in Streams /\ user(d) \in Users
  BY RequestType DEF TypeOK, MaybeConn, Provenance
<1>2. CASE rx[d] = user_senders[stream(d)][user(d)]
  <2>1. stream(d) = g /\ user(d) = u
    BY <1>1, <1>2, LeaveChannels
  <2>2. pipe'[rx[d]] = Abort(pipe[rx[d]])
    BY <1>1, <1>2, <2>1, LeaveChannels
  <2>. QED  BY <1>1, <2>2 DEF Abort, TypeOK
<1>3. CASE rx[d] # user_senders[stream(d)][user(d)]
  <2>1. pipe[rx[d]] \in {"aborted", "ended"}
    BY <1>3 DEF NoZombieReceiver, Attached, Channel
  <2>. QED  BY <1>1, <2>1, LeaveChannels DEF Abort
<1>. QED  BY <1>2, <1>3

LEMMA JoinZombie ==
    ASSUME TypeOK, MembershipAgreement, Provenance, NoZombieReceiver,
           NEW c \in Conns, JoinGroup(c)
    PROVE  NoZombieReceiver'
<1>1. UNCHANGED <<request, rx>>
  BY DEF JoinGroup
<1>. SUFFICES ASSUME NEW d \in Conns, rx[d] # NoConn,
                     rx[d] # user_senders'[stream(d)][user(d)]
              PROVE  pipe'[rx[d]] \in {"aborted", "ended"}
  BY <1>1 DEF NoZombieReceiver, Attached, Channel, stream, user
<1>2. /\ stream(c) \in Streams /\ user(c) \in Users
      /\ stream(d) \in Streams /\ user(d) \in Users
  BY RequestType
<1>3. join(stream(c), user(c), c) /\ pc[c] \in BeforeJoin
  BY DEF JoinGroup, join_group, BeforeJoin
<1>4. rx[d] \in Conns
  BY DEF TypeOK, MaybeConn
<1>5. rx[d] # c
  BY <1>3, <1>4 DEF Provenance
<1>6. pipe'[rx[d]] = pipe[rx[d]]
  <2>1. pipe' = pipe \/ pipe' = [pipe EXCEPT ![c] = "running"]
    BY <1>2, <1>3, JoinStep
  <2>. QED  BY <1>4, <1>5, <2>1 DEF TypeOK
<1>7. rx[d] # user_senders[stream(d)][user(d)]
  <2>1. CASE stream(d) = stream(c) /\ user(d) = user(c)
             /\ user_tasks[stream(c)][user(c)] = NoConn
    <3>1. user_senders[stream(d)][user(d)] = NoConn
      BY <1>2, <2>1 DEF MembershipAgreement
    <3>. QED  BY <3>1
  <2>2. CASE ~(stream(d) = stream(c) /\ user(d) = user(c)
               /\ user_tasks[stream(c)][user(c)] = NoConn)
    <3>1. user_senders'[stream(d)][user(d)] = user_senders[stream(d)][user(d)]
      BY <1>2, <1>3, <2>2, JoinStep
    <3>. QED  BY <3>1
  <2>. QED  BY <2>1, <2>2
<1>. QED  BY <1>6, <1>7 DEF NoZombieReceiver, Attached, Channel

LEMMA NextZombie ==
    ASSUME TypeOK, MembershipAgreement, Exclusion, UnwrapSafe, Provenance,
           NoZombieReceiver, [Next]_vars
    PROVE  NoZombieReceiver'
<1>. USE DEF manager_vars, group_vars
<1>1. ASSUME NEW c \in Conns, ConnNext(c)
      PROVE  NoZombieReceiver'
  <2>1. CASE UNCHANGED <<rx, pipe, request, user_senders>>
    BY <2>1 DEF NoZombieReceiver, Attached, Channel, stream, user
  <2>2. CASE NewGroup(c)
    <3>1. UNCHANGED <<user_senders, request, rx, pipe>>
      BY <2>2, NewGroupQuiet DEF NewGroup, new_group
    <3>. QED  BY <2>1, <3>1
  <2>3. CASE JoinGroup(c)
    BY <2>3, JoinZombie
  <2>4. CASE Subscribe(c)
    <3>1. /\ rx' = [rx EXCEPT ![c] = user_senders[stream(c)][user(c)]]
          /\ UNCHANGED <<request, pipe, user_senders>>
      BY <2>4 DEF Subscribe
    <3>2. \A d \in Conns : rx'[d] =
              IF d = c THEN user_senders[stream(c)][user(c)] ELSE rx[d]
      BY <3>1 DEF TypeOK
    <3>. QED
      BY <3>1, <3>2 DEF NoZombieReceiver, Attached, Channel, stream, user
  <2>5. CASE SendTaskCloses(c) \/ SendTaskEnds(c)
    <3>1. \A d \in Conns : rx'[d] = rx[d] \/ rx'[d] = NoConn
      BY <2>5 DEF SendTaskCloses, SendTaskEnds, TypeOK
    <3>2. UNCHANGED <<pipe, request, user_senders>>
      BY <2>5 DEF SendTaskCloses, SendTaskEnds
    <3>. QED
      BY <3>1, <3>2 DEF NoZombieReceiver, Attached, Channel, stream, user
  <2>6. CASE PipeForwards(c) \/ PipeEnds(c)
    <3>1. \A k \in Conns : pipe'[k] = pipe[k] \/ pipe'[k] = "ended"
      BY <2>6 DEF PipeForwards, PipeEnds, TypeOK
    <3>2. UNCHANGED <<rx, request, user_senders>>
      BY <2>6 DEF PipeForwards, PipeEnds, conn_vars
    <3>. QED
      BY <3>1, <3>2
         DEF NoZombieReceiver, Attached, Channel, stream, user, TypeOK, MaybeConn
  <2>7. CASE Close(c)
    <3>1. /\ stream(c) \in Streams /\ user(c) \in Users
          /\ leave_group(stream(c), user(c)) /\ UNCHANGED <<request, rx>>
      BY <2>7, RequestType DEF Close
    <3>. QED  BY <3>1, LeaveZombie
  <2>. QED
    BY <1>1, <2>1, <2>2, <2>3, <2>4, <2>5, <2>6, <2>7
       DEF ConnNext, Authorize, Upgrade, UpgradePanics, GroupExists, Announce,
           Broadcast, RecvTaskEnds, SelectReturns, ClosePanics
<1>2. CASE RoomNext
  <2>1. ASSUME NEW g \in Streams, EndLeaves(g) PROVE NoZombieReceiver'
    <3>1. admin_user \in Users /\ leave_group(g, admin_user)
          /\ UNCHANGED <<request, rx>>
      BY <2>1 DEF EndLeaves, TypeOK, conn_vars
    <3>. QED  BY <3>1, LeaveZombie
  <2>2. CASE UNCHANGED <<rx, pipe, request, user_senders>>
    BY <2>2 DEF NoZombieReceiver, Attached, Channel, stream, user
  <2>. QED
    BY <1>2, <2>1, <2>2
       DEF RoomNext, RoomJoin, Exit, DeleteUser, DeleteRoom, EndReturns,
           RemoveClient, KeepClient, DeleteDone,
           StreamTakesRooms, StreamGivesRooms, end_user, conn_vars
<1>3. CASE Finished \/ UNCHANGED vars
  BY <1>3 DEF Finished, vars, conn_vars, NoZombieReceiver, Attached, Channel,
              stream, user
<1>. QED  BY <1>1, <1>2, <1>3 DEF Next

LEMMA InitMember == Init => MemberHasConnection
BY DEF Init, MemberHasConnection

(* A connection that could give its membership up still can, unless it just *)
(* did, or the room was deleted under it.                                   *)
LEMMA HolderSteps ==
    ASSUME TypeOK, [Next]_vars, NEW d \in Conns,
           pc[d] \in {"joined", "serving", "done"}
    PROVE  \/ pc'[d] \in {"joined", "serving", "done"}
           \/ Close(d)
           \/ room = "deleted"
<1>. USE DEF TypeOK
<1>1. ASSUME NEW c \in Conns, ConnNext(c)
      PROVE  \/ pc'[d] \in {"joined", "serving", "done"}
             \/ Close(d)
             \/ room = "deleted"
  <2>1. CASE Authorize(c) \/ Upgrade(c) \/ UpgradePanics(c) \/ GroupExists(c)
    BY <2>1 DEF Authorize, Upgrade, UpgradePanics, GroupExists
  <2>2. CASE Subscribe(c) \/ Announce(c) \/ Broadcast(c) \/ RecvTaskEnds(c)
    BY <2>2 DEF Subscribe, Announce, Broadcast, RecvTaskEnds
  <2>3. CASE SendTaskCloses(c) \/ SendTaskEnds(c) \/ SelectReturns(c)
    BY <2>3 DEF SendTaskCloses, SendTaskEnds, SelectReturns
  <2>4. CASE ClosePanics(c) \/ PipeForwards(c) \/ PipeEnds(c)
    BY <2>4 DEF ClosePanics, PipeForwards, PipeEnds, conn_vars
  <2>5. CASE NewGroup(c) \/ JoinGroup(c) \/ Close(c)
    BY <2>5 DEF NewGroup, JoinGroup, Close
  <2>. QED  BY <1>1, <2>1, <2>2, <2>3, <2>4, <2>5 DEF ConnNext
<1>2. CASE RoomNext
  BY <1>2 DEF RoomNext, RoomJoin, Exit, DeleteUser, DeleteRoom, EndLeaves,
              EndReturns, RemoveClient, KeepClient, DeleteDone,
              StreamTakesRooms, StreamGivesRooms, conn_vars
<1>3. CASE Finished \/ UNCHANGED vars
  BY <1>3 DEF Finished, vars, conn_vars
<1>. QED  BY <1>1, <1>2, <1>3 DEF Next

(* A deleted room stays deleted.                                            *)
LEMMA RoomSteps == [Next]_vars => (room' = "live" => room = "live")
BY DEF Next, ConnNext, RoomNext, Finished, vars, Authorize, Upgrade, UpgradePanics,
       GroupExists, NewGroup, JoinGroup, Subscribe, Announce, Broadcast,
       RecvTaskEnds, SendTaskCloses, SendTaskEnds, SelectReturns, Close,
       ClosePanics, PipeForwards, PipeEnds, RoomJoin, Exit, DeleteUser,
       DeleteRoom, EndLeaves, EndReturns, RemoveClient, KeepClient, DeleteDone,
       StreamTakesRooms, StreamGivesRooms,
       room_vars

LEMMA NextMember ==
    ASSUME TypeOK, MembershipAgreement, Exclusion, MemberHasConnection, [Next]_vars
    PROVE  MemberHasConnection'
<1>. SUFFICES ASSUME room' = "live", NEW g \in Streams, NEW u \in inner_user'[g]
              PROVE  \E c \in Conns :
                        /\ request[c] = [user |-> u, stream |-> g]
                        /\ pc'[c] \in {"joined", "serving", "done"}
  BY RequestFixed DEF MemberHasConnection
<1>1. room = "live"
  BY RoomSteps
<1>2. ASSUME u \in inner_user[g],
             \A c \in Conns : request[c] = [user |-> u, stream |-> g] => ~Close(c)
      PROVE  \E c \in Conns :
                /\ request[c] = [user |-> u, stream |-> g]
                /\ pc'[c] \in {"joined", "serving", "done"}
  <2>1. PICK d \in Conns : /\ request[d] = [user |-> u, stream |-> g]
                           /\ pc[d] \in {"joined", "serving", "done"}
    BY <1>1, <1>2 DEF MemberHasConnection
  <2>. QED  BY <1>1, <1>2, <2>1, HolderSteps
<1>3. ASSUME NEW c \in Conns, JoinGroup(c)
      PROVE  \E d \in Conns :
                /\ request[d] = [user |-> u, stream |-> g]
                /\ pc'[d] \in {"joined", "serving", "done"}
  <2>1. /\ stream(c) \in Streams /\ user(c) \in Users
        /\ request[c] = [user |-> user(c), stream |-> stream(c)]
        /\ join(stream(c), user(c), c)
        /\ pc' = [pc EXCEPT ![c] = "joined"]
    BY <1>3, RequestType DEF JoinGroup, join_group
  <2>2. CASE g = stream(c) /\ u = user(c)
    BY <2>1, <2>2 DEF TypeOK
  <2>3. CASE ~(g = stream(c) /\ u = user(c))
    <3>1. u \in inner_user[g]
      <4>1. inner_user' = [inner_user EXCEPT ![stream(c)] = @ \cup {user(c)}]
        BY <2>1 DEF join
      <4>. QED  BY <2>3, <4>1 DEF TypeOK
    <3>2. ASSUME NEW d \in Conns PROVE ~Close(d)
      BY <1>3, DistinctNames DEF JoinGroup, Close, LockFree, Exclusion, InManager
    <3>. QED  BY <1>2, <3>1, <3>2
  <2>. QED  BY <2>2, <2>3
<1>4. ASSUME NEW c \in Conns, Close(c)
      PROVE  \E d \in Conns :
                /\ request[d] = [user |-> u, stream |-> g]
                /\ pc'[d] \in {"joined", "serving", "done"}
  <2>1. /\ stream(c) \in Streams /\ user(c) \in Users
        /\ leave_group(stream(c), user(c))
        /\ pc[c] = "done" /\ pc' = [pc EXCEPT ![c] = "closed"]
    BY <1>4, RequestType DEF Close
  <2>2. u \in inner_user[g] /\ ~(g = stream(c) /\ u = user(c))
    <3>1. u \in Users
      BY NextType DEF TypeOK
    <3>2. /\ u \in inner_user[g]
          /\ ~(g = stream(c) /\ u = user(c) /\ stream(c) \in groups)
      BY <2>1, <3>1, LeaveIndex
    <3>. QED  BY <3>2 DEF MembershipAgreement
  <2>3. PICK d \in Conns : /\ request[d] = [user |-> u, stream |-> g]
                           /\ pc[d] \in {"joined", "serving", "done"}
    BY <1>1, <2>2 DEF MemberHasConnection
  <2>4. d # c
    BY <2>2, <2>3 DEF stream, user
  <2>. QED  BY <2>1, <2>3, <2>4 DEF TypeOK
<1>5. ASSUME NEW h \in Streams, EndLeaves(h)
      PROVE  \E d \in Conns :
                /\ request[d] = [user |-> u, stream |-> g]
                /\ pc'[d] \in {"joined", "serving", "done"}
  <2>1. /\ admin_user \in Users /\ leave_group(h, admin_user)
        /\ pc' = pc
    BY <1>5 DEF EndLeaves, TypeOK, conn_vars
  <2>2. u \in Users
    BY NextType DEF TypeOK
  <2>3. u \in inner_user[g]
    BY <2>1, <2>2, LeaveIndex
  <2>. QED  BY <1>1, <2>1, <2>3 DEF MemberHasConnection
<1>6. CASE UNCHANGED <<user_senders, inner_user>>
  BY <1>2, <1>4, <1>6
<1>. QED  BY <1>3, <1>4, <1>5, <1>6, ChannelSteps

LEMMA InitAnnounced == Init => AnnouncedIsPresent
BY DEF Init, AnnouncedIsPresent

LEMMA NextAnnounced ==
    ASSUME TypeOK, MembershipAgreement, Exclusion, Provenance,
           AnnouncedIsPresent, [Next]_vars
    PROVE  AnnouncedIsPresent'
<1>. USE DEF manager_vars, group_vars
<1>1. CASE UNCHANGED <<request, user_senders, presence, recv_task>>
  BY <1>1 DEF AnnouncedIsPresent, Channel, stream, user
<1>2. ASSUME NEW g \in Streams, NEW u \in Users, leave_group(g, u),
             UNCHANGED <<request, recv_task>>
      PROVE  AnnouncedIsPresent'
  <2>. SUFFICES ASSUME NEW d \in Conns, recv_task[d] = "looping",
                       user_senders'[stream(d)][user(d)] = d
                PROVE  presence'[stream(d)][user(d)] = "open"
    BY <1>2 DEF AnnouncedIsPresent, Channel, stream, user
  <2>1. stream(d) \in Streams /\ user(d) \in Users
    BY RequestType
  <2>2. ~(stream(d) = g /\ user(d) = u)
        /\ user_senders[stream(d)][user(d)] = d
    BY <1>2, <2>1, LeaveChannels, DistinctNames
  <2>3. presence[stream(d)][user(d)] = "open"
    BY <2>2 DEF AnnouncedIsPresent, Channel
  <2>4. presence' = presence \/ presence' = [presence EXCEPT ![g][u] = "close"]
    BY <1>2, LeaveStep
  <2>. QED  BY <2>1, <2>2, <2>3, <2>4, PresenceUpdate
<1>3. ASSUME NEW c \in Conns, ConnNext(c)
      PROVE  AnnouncedIsPresent'
  <2>0. stream(c) \in Streams /\ user(c) \in Users
    BY RequestType
  <2>1. CASE NewGroup(c)
    <3>1. UNCHANGED <<user_senders, request, recv_task>>
      BY <2>1, NewGroupQuiet DEF NewGroup
    <3>. SUFFICES ASSUME NEW d \in Conns, recv_task[d] = "looping",
                         user_senders[stream(d)][user(d)] = d
                  PROVE  presence'[stream(d)][user(d)] = "open"
      BY <3>1 DEF AnnouncedIsPresent, Channel, stream, user
    <3>2. stream(d) # stream(c)
      <4>1. inner_user[stream(c)] = {}
        BY <2>0, <2>1 DEF NewGroup, Exclusion, MembershipAgreement
      <4>2. user(d) \in inner_user[stream(d)]
        <5>1. user_tasks[stream(d)][user(d)] = d
          BY RequestType DEF MembershipAgreement
        <5>. QED  BY <5>1, RequestType, DistinctNames DEF MembershipAgreement
      <4>. QED  BY <4>1, <4>2
    <3>3. presence' = [presence EXCEPT ![stream(c)] = [u \in Users |-> "none"]]
      BY <2>1 DEF NewGroup, new_group
    <3>4. presence'[stream(d)] = presence[stream(d)]
      BY <2>0, <3>2, <3>3, RequestType DEF TypeOK
    <3>. QED  BY <3>4 DEF AnnouncedIsPresent, Channel
  <2>2. CASE JoinGroup(c)
    <3>1. /\ join(stream(c), user(c), c)
          /\ UNCHANGED <<request, recv_task, presence>>
      BY <2>2 DEF JoinGroup, join_group, join
    <3>2. recv_task[c] = "none"
      BY <2>2 DEF JoinGroup, Provenance, BeforeJoin
    <3>. SUFFICES ASSUME NEW d \in Conns, recv_task[d] = "looping",
                         user_senders'[stream(d)][user(d)] = d
                  PROVE  presence[stream(d)][user(d)] = "open"
      BY <3>1 DEF AnnouncedIsPresent, Channel, stream, user
    <3>3. user_senders[stream(d)][user(d)] = d
      <4>1. d # c
        BY <3>2
      <4>2. stream(d) \in Streams /\ user(d) \in Users
        BY RequestType
      <4>3. \/ user_senders'[stream(d)][user(d)] = c
            \/ user_senders'[stream(d)][user(d)] = user_senders[stream(d)][user(d)]
        BY <2>0, <3>1, <4>2, JoinStep
      <4>. QED  BY <4>1, <4>3
    <3>. QED  BY <3>3 DEF AnnouncedIsPresent, Channel
  <2>3. CASE Subscribe(c)
    <3>1. /\ recv_task' = [recv_task EXCEPT ![c] = "starting"]
          /\ UNCHANGED <<request, user_senders, presence>>
      BY <2>3 DEF Subscribe
    <3>. QED
      BY <3>1 DEF AnnouncedIsPresent, Channel, stream, user, TypeOK
  <2>4. CASE Announce(c)
    <3>1. UNCHANGED <<request, user_senders>>
      BY <2>4 DEF Announce
    <3>. SUFFICES ASSUME NEW d \in Conns, recv_task'[d] = "looping",
                         user_senders[stream(d)][user(d)] = d
                  PROVE  presence'[stream(d)][user(d)] = "open"
      BY <3>1 DEF AnnouncedIsPresent, Channel, stream, user
    <3>2. stream(d) \in Streams /\ user(d) \in Users
      BY RequestType
    <3>3. CASE recv_task' = [recv_task EXCEPT ![c] = "ended"] /\ presence' = presence
      BY <3>3 DEF AnnouncedIsPresent, Channel, TypeOK
    <3>4. CASE /\ recv_task' = [recv_task EXCEPT ![c] = "looping"]
               /\ presence' = [presence EXCEPT ![stream(c)][user(c)] = "open"]
      <4>1. presence'[stream(d)][user(d)] =
                IF stream(d) = stream(c) /\ user(d) = user(c) THEN "open"
                ELSE presence[stream(d)][user(d)]
        BY <2>0, <3>2, <3>4, PresenceUpdate
      <4>2. d # c => recv_task[d] = "looping"
        BY <3>4 DEF TypeOK
      <4>. QED  BY <4>1, <4>2 DEF AnnouncedIsPresent, Channel
    <3>. QED  BY <2>4, <3>3, <3>4 DEF Announce
  <2>5. CASE Broadcast(c) \/ RecvTaskEnds(c)
    <3>1. /\ recv_task' = recv_task \/ recv_task' = [recv_task EXCEPT ![c] = "ended"]
          /\ UNCHANGED <<request, user_senders, presence>>
      BY <2>5 DEF Broadcast, RecvTaskEnds
    <3>. QED
      BY <3>1 DEF AnnouncedIsPresent, Channel, stream, user, TypeOK
  <2>6. CASE Close(c)
    BY <1>2, <2>0, <2>6 DEF Close
  <2>. QED
    BY <1>1, <1>3, <2>1, <2>2, <2>3, <2>4, <2>5, <2>6
       DEF ConnNext, Authorize, Upgrade, UpgradePanics, GroupExists,
           SendTaskCloses, SendTaskEnds, SelectReturns, ClosePanics,
           PipeForwards, PipeEnds, conn_vars
<1>4. CASE RoomNext
  <2>1. ASSUME NEW g \in Streams, EndLeaves(g) PROVE AnnouncedIsPresent'
    BY <1>2, <2>1 DEF EndLeaves, TypeOK, conn_vars
  <2>. QED
    BY <1>1, <1>4, <2>1
       DEF RoomNext, RoomJoin, Exit, DeleteUser, DeleteRoom, EndReturns,
           RemoveClient, KeepClient, DeleteDone,
           StreamTakesRooms, StreamGivesRooms, end_user, conn_vars
<1>5. CASE Finished \/ UNCHANGED vars
  BY <1>1, <1>5 DEF Finished, vars, conn_vars
<1>. QED  BY <1>3, <1>4, <1>5 DEF Next

-----------------------------------------------------------------------------
(* The theorems.                                                           *)

LEMMA Inductive == IInv /\ [Next]_vars => IInv'
BY NextType, NextAgreement, NextIndex, NextExclusion, NextUnwrap,
   NextProvenance, NextZombie, NextMember, NextAnnounced DEF IInv

(* The invariant of the whole module: whatever connections, tasks and room  *)
(* handlers do, every conjunct of IInv holds in every reachable state.      *)
THEOREM Invariance == Spec => []IInv
<1>1. Init => IInv
  BY InitType, InitAgreement, InitIndex, InitExclusion, InitUnwrap,
     InitProvenance, InitZombie, InitMember, InitAnnounced DEF IInv
<1>. QED  BY <1>1, Inductive, PTL DEF Spec

(* Every variable keeps its type; the counter of members stays a natural    *)
(* number because a leave is counted only for a user that was counted.      *)
THEOREM TypeCorrect == Spec => []TypeOK
<1>1. IInv => TypeOK
  BY DEF IInv
<1>. QED  BY <1>1, Invariance, PTL

(* The fields of a Group, each behind its own lock, always agree on who is  *)
(* a member (Group::join, Group::leave).                                    *)
THEOREM MembershipAgrees == Spec => []MembershipAgreement
<1>1. IInv => MembershipAgreement
  BY DEF IInv
<1>. QED  BY <1>1, Invariance, PTL

(* A user's list of groups is exact, so an exit leaves no group behind.     *)
THEOREM IndexAgrees == Spec => []IndexAgreement
<1>1. IInv => IndexAgreement
  BY DEF IInv
<1>. QED  BY <1>1, Invariance, PTL

(* The unwrap in get_user_sender, reached between join_or_create and the    *)
(* release of the manager's lock, never fails.                              *)
THEOREM UnwrapIsSafe == Spec => []UnwrapSafe
<1>1. IInv => UnwrapSafe
  BY DEF IInv
<1>. QED  BY <1>1, Invariance, PTL

(* Every receiver of a channel the group has dropped belongs to a pipe that *)
(* is being torn down: an evicted socket cannot go on listening.            *)
THEOREM NoZombies == Spec => []NoZombieReceiver
<1>1. IInv => NoZombieReceiver
  BY DEF IInv
<1>. QED  BY <1>1, Invariance, PTL

(* While the room lives, a member always has a connection that will give    *)
(* the membership up.                                                       *)
THEOREM MembersHaveConnections == Spec => []MemberHasConnection
<1>1. IInv => MemberHasConnection
  BY DEF IInv
<1>. QED  BY <1>1, Invariance, PTL

(* A member whose owning connection has announced itself is present to the  *)
(* others.                                                                  *)
THEOREM AnnouncedArePresent == Spec => []AnnouncedIsPresent
<1>1. IInv => AnnouncedIsPresent
  BY DEF IInv
<1>. QED  BY <1>1, Invariance, PTL
=============================================================================
