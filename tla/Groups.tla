------------------------------- MODULE Groups -------------------------------
(***************************************************************************)
(* The WebSocket groups of one room: libws's GroupsManager, the `/ws'      *)
(* connection handler with the tasks it spawns, and the room handlers that *)
(* reach the manager (room/join, room/exit, room/delete).                  *)
(*                                                                         *)
(* What is kept.  Every await between two calls on the manager is an       *)
(* interleaving point.  The write lock of Room.group_manager is `lock'.    *)
(* The global ROOMS mutex is held across several steps by exit and delete, *)
(* and by whip and whep until the room's forwarder is theirs.  So it is    *)
(* held exactly when `admin' is not "idle", and one admin process stands   *)
(* for all of these requests.  A handler that takes ROOMS and              *)
(* then waits for the manager is one action whose guard asks for both: the *)
(* order ROOMS, manager is the same everywhere.                            *)
(*                                                                         *)
(* What is abstracted.  A user's personal broadcast channel, and the pipe  *)
(* task that feeds it, are named by the connection whose join made them.   *)
(* The messages waiting in front of a pipe are one flag, `pending'.  An    *)
(* absent users_group entry and an empty one behave alike in every method, *)
(* so both are the empty set, and init_user changes nothing modelled.      *)
(***************************************************************************)
EXTENDS Integers, FiniteSets

CONSTANTS
    Users,       \* user ids of the room
    Streams,     \* group names clients ask for
    Conns,       \* WebSocket connections; each is opened at most once
    NoConn,      \* no connection: an absent map entry, a dropped receiver
    Admin,       \* the room handler, as a holder of the manager's lock
    NoOne,       \* the lock is free
    SlowPipes,   \* TRUE: a pipe may fall a whole channel (64) behind
    Exiting,     \* the users whose exit somebody asks for
    Deletable,   \* TRUE: somebody asks for the room's deletion
    Streaming    \* TRUE: whip and whep take ROOMS now and then

ASSUME FiniteUsers == IsFiniteSet(Users)
ASSUME DistinctNames == NoConn \notin Conns /\ Admin \notin Conns
                        /\ NoOne \notin Conns \cup Users \cup {Admin}
ASSUME Environment == SlowPipes \in BOOLEAN /\ Exiting \subseteq Users
                      /\ {Deletable, Streaming} \subseteq BOOLEAN

VARIABLES
    room,          \* "live" while the room is in ROOMS, then "deleted"
    client_map,    \* users joined to the room
    lock,          \* holder of the group_manager write lock
    groups,        \* names present in GroupsManager.inner
    inner_user,    \* Group.inner_user
    user_count,    \* Group.user_count
    user_tasks,    \* Group.user_tasks: whose pipe, by maker
    user_senders,  \* Group.user_senders: which channel, by maker
    users_group,   \* GroupsManager.users_group
    pipe,          \* the broadcast_pipe task spawned by each connection's join
    pending,       \* another user's message waits in front of the pipe
    presence,      \* last open or close event sent for a user in a group
    request,       \* the user and stream each connection asks for
    pc,            \* where the connection's on_upgrade future stands
    rx,            \* the channel its send_task receives from, NoConn if ended
    recv_task,     \* its recv_task
    admin,         \* where the handler holding ROOMS stands
    admin_user,    \* the user it is deleting, NoOne between requests
    group_names,   \* end_user's copy of the groups still to be left
    deleting       \* TRUE when user_delete is called by all_user_delete

group_vars == <<inner_user, user_count, user_tasks, user_senders, pipe,
                pending, presence>>
manager_vars == <<group_vars, groups, users_group>>
admin_vars == <<admin, admin_user, group_names, deleting>>
room_vars == <<room, client_map>>
conn_vars == <<pc, rx, recv_task>>
vars == <<room_vars, lock, manager_vars, request, conn_vars, admin_vars>>

MaybeConn == Conns \cup {NoConn}
Stages == {"idle", "authorized", "upgraded", "creating", "joining", "joined",
           "serving", "done", "closed", "failed", "dead"}
InManager == {"upgraded", "creating", "joining", "joined"}

user(c) == request[c].user
stream(c) == request[c].stream

TypeOK ==
    /\ room \in {"live", "deleted"}
    /\ client_map \subseteq Users
    /\ lock \in Conns \cup {Admin, NoOne}
    /\ groups \subseteq Streams
    /\ inner_user \in [Streams -> SUBSET Users]
    /\ user_count \in [Streams -> Nat]
    /\ user_tasks \in [Streams -> [Users -> MaybeConn]]
    /\ user_senders \in [Streams -> [Users -> MaybeConn]]
    /\ users_group \in [Users -> SUBSET Streams]
    /\ pipe \in [Conns -> {"none", "running", "aborted", "ended"}]
    /\ pending \in [Conns -> BOOLEAN]
    /\ presence \in [Streams -> [Users -> {"none", "open", "close"}]]
    /\ request \in [Conns -> [user : Users, stream : Streams]]
    /\ pc \in [Conns -> Stages]
    /\ rx \in [Conns -> MaybeConn]
    /\ recv_task \in [Conns -> {"none", "starting", "looping", "ended"}]
    /\ admin \in {"idle", "ending", "removing", "deleting", "streaming"}
    /\ admin_user \in IF admin \in {"ending", "removing"} THEN Users ELSE {NoOne}
    /\ group_names \subseteq Streams
    /\ deleting \in BOOLEAN

Init ==
    /\ room = "live"
    /\ client_map = {}
    /\ lock = NoOne
    /\ groups = {}
    /\ inner_user = [g \in Streams |-> {}]
    /\ user_count = [g \in Streams |-> 0]
    /\ user_tasks = [g \in Streams |-> [u \in Users |-> NoConn]]
    /\ user_senders = [g \in Streams |-> [u \in Users |-> NoConn]]
    /\ users_group = [u \in Users |-> {}]
    /\ pipe = [c \in Conns |-> "none"]
    /\ pending = [c \in Conns |-> FALSE]
    /\ presence = [g \in Streams |-> [u \in Users |-> "none"]]
    /\ request \in [Conns -> [user : Users, stream : Streams]]
    /\ pc = [c \in Conns |-> "idle"]
    /\ rx = [c \in Conns |-> NoConn]
    /\ recv_task = [c \in Conns |-> "none"]
    /\ admin = "idle"
    /\ admin_user = NoOne
    /\ group_names = {}
    /\ deleting = FALSE

-----------------------------------------------------------------------------
(* Channels and pipes.                                                     *)

(* The pipes subscribed to a group's channel: an aborted one holds its      *)
(* receiver until the runtime drops the task.                               *)
Subscribed(g) ==
    {k \in Conns : stream(k) = g /\ pipe[k] \in {"running", "aborted"}}

(* What waits in front of the pipes once user u has sent on group g: a pipe *)
(* skips what its own user sent.                                            *)
Sent(g, u) ==
    [k \in Conns |-> pending[k] \/ (k \in Subscribed(g) /\ user(k) # u)]

(* JoinHandle::abort, on a task that may have ended already.                *)
Abort(p) == IF p = "running" THEN "aborted" ELSE p

(* Mutant: leave forgets to abort the task.                                 *)
AbortNothing(g, u) == pipe

(* The task whose pipe Group::leave aborts.                                 *)
AbortTask(g, u) ==
    IF user_tasks[g][u] = NoConn THEN pipe
    ELSE [pipe EXCEPT ![user_tasks[g][u]] = Abort(@)]

-----------------------------------------------------------------------------
(* Methods of Group and GroupsManager.                                     *)

(* Mutant: fetch_add outside the test.                                      *)
CountedAgain(g, u) == user_count[g] + 1

(* join counts a user it had to push.                                       *)
Counted(g, u) ==
    IF u \in inner_user[g] THEN user_count[g] ELSE user_count[g] + 1

(* Group::join by connection c: a user who has a task already shares its    *)
(* channel, whatever has become of the pipe.                                *)
join(g, u, c) ==
    /\ inner_user' = [inner_user EXCEPT ![g] = @ \cup {u}]
    /\ user_count' = [user_count EXCEPT ![g] = Counted(g, u)]
    /\ \/ /\ user_tasks[g][u] = NoConn
          /\ user_tasks' = [user_tasks EXCEPT ![g][u] = c]
          /\ user_senders' = [user_senders EXCEPT ![g][u] = c]
          /\ pipe' = [pipe EXCEPT ![c] = "running"]
       \/ /\ user_tasks[g][u] # NoConn
          /\ UNCHANGED <<user_tasks, user_senders, pipe>>
    /\ UNCHANGED <<pending, presence>>

(* Mutant: leave keeps the user's sender.                                   *)
SendersKept(g, u) == user_senders

(* leave removes the user's sender.                                         *)
SendersWithout(g, u) == [user_senders EXCEPT ![g][u] = NoConn]

(* Mutant: leave without its early return.                                  *)
LeaveAgain(g, u) ==
    /\ inner_user' = [inner_user EXCEPT ![g] = @ \ {u}]
    /\ user_count' = [user_count EXCEPT ![g] = @ - 1]
    /\ pipe' = AbortTask(g, u)
    /\ user_tasks' = [user_tasks EXCEPT ![g][u] = NoConn]
    /\ user_senders' = SendersWithout(g, u)
    /\ pending' = Sent(g, u)
    /\ presence' = [presence EXCEPT ![g][u] = "close"]

(* Group::leave: the rest is skipped for a user who has left already.       *)
leave(g, u) ==
    \/ /\ u \in inner_user[g]
       /\ inner_user' = [inner_user EXCEPT ![g] = @ \ {u}]
       /\ user_count' = [user_count EXCEPT ![g] = @ - 1]
       /\ pipe' = AbortTask(g, u)
       /\ user_tasks' = [user_tasks EXCEPT ![g][u] = NoConn]
       /\ user_senders' = SendersWithout(g, u)
       /\ pending' = Sent(g, u)
       /\ presence' = [presence EXCEPT ![g][u] = "close"]
    \/ /\ u \notin inner_user[g]
       /\ UNCHANGED group_vars

(* Mutant: leave_group without its retain.                                  *)
IndexKept(g, u) == users_group

(* leave_group takes the name out of the user's list, if there is a list.   *)
IndexWithout(g, u) == [users_group EXCEPT ![u] = @ \ {g}]

(* GroupsManager::leave_group: GroupNotFound changes nothing.               *)
leave_group(g, u) ==
    \/ /\ g \in groups
       /\ leave(g, u)
       /\ users_group' = IndexWithout(g, u)
       /\ UNCHANGED groups
    \/ /\ g \notin groups
       /\ UNCHANGED manager_vars

(* GroupsManager::join_group: joins and records the group under the user.   *)
join_group(g, u, c) ==
    /\ g \in groups
    /\ join(g, u, c)
    /\ users_group' = [users_group EXCEPT ![u] = @ \cup {g}]
    /\ UNCHANGED groups

(* GroupsManager::new_group: HashMap::insert replaces a group of that name. *)
new_group(g) ==
    /\ groups' = groups \cup {g}
    /\ inner_user' = [inner_user EXCEPT ![g] = {}]
    /\ user_count' = [user_count EXCEPT ![g] = 0]
    /\ user_tasks' = [user_tasks EXCEPT ![g] = [u \in Users |-> NoConn]]
    /\ user_senders' = [user_senders EXCEPT ![g] = [u \in Users |-> NoConn]]
    /\ presence' = [presence EXCEPT ![g] = [u \in Users |-> "none"]]
    /\ UNCHANGED <<users_group, pipe, pending>>

-----------------------------------------------------------------------------
(* A connection: route/ws/mod.rs.                                          *)

(* Mutant: the manager is used under a shared lock.                         *)
LockShared == TRUE

LockFree == lock = NoOne
RoomsFree == admin = "idle"

(* auth_user: the client must be in the room now; the clone it returns is   *)
(* what the upgrade trusts later.                                           *)
Authorize(c) ==
    /\ pc[c] = "idle"
    /\ RoomsFree
    /\ room = "live"
    /\ user(c) \in client_map
    /\ pc' = [pc EXCEPT ![c] = "authorized"]
    /\ UNCHANGED <<room_vars, lock, manager_vars, request, rx, recv_task, admin_vars>>

(* on_upgrade takes ROOMS, the manager's lock, drops ROOMS, init_user.      *)
Upgrade(c) ==
    /\ pc[c] = "authorized"
    /\ RoomsFree
    /\ room = "live"
    /\ LockFree
    /\ lock' = c
    /\ pc' = [pc EXCEPT ![c] = "upgraded"]
    /\ UNCHANGED <<room_vars, manager_vars, request, rx, recv_task, admin_vars>>

(* rooms.get_mut(..).unwrap() of a room deleted since: the future panics.   *)
UpgradePanics(c) ==
    /\ pc[c] = "authorized"
    /\ RoomsFree
    /\ room = "deleted"
    /\ pc' = [pc EXCEPT ![c] = "failed"]
    /\ UNCHANGED <<room_vars, lock, manager_vars, request, rx, recv_task, admin_vars>>

(* join_or_create: the answer of group_exists decides what comes next.      *)
GroupExists(c) ==
    /\ pc[c] = "upgraded"
    /\ pc' = [pc EXCEPT ![c] =
                  IF stream(c) \in groups THEN "joining" ELSE "creating"]
    /\ UNCHANGED <<room_vars, lock, manager_vars, request, rx, recv_task, admin_vars>>

NewGroup(c) ==
    /\ pc[c] = "creating"
    /\ new_group(stream(c))
    /\ pc' = [pc EXCEPT ![c] = "joining"]
    /\ UNCHANGED <<room_vars, lock, request, rx, recv_task, admin_vars>>

JoinGroup(c) ==
    /\ pc[c] = "joining"
    /\ join_group(stream(c), user(c), c)
    /\ pc' = [pc EXCEPT ![c] = "joined"]
    /\ UNCHANGED <<room_vars, lock, request, rx, recv_task, admin_vars>>

(* get_user_receiver subscribes to the user's channel, the lock is dropped, *)
(* send_task and recv_task are spawned and select! waits for either.        *)
Subscribe(c) ==
    /\ pc[c] = "joined"
    /\ rx' = [rx EXCEPT ![c] = user_senders[stream(c)][user(c)]]
    /\ recv_task' = [recv_task EXCEPT ![c] = "starting"]
    /\ lock' = NoOne
    /\ pc' = [pc EXCEPT ![c] = "serving"]
    /\ UNCHANGED <<room_vars, manager_vars, request, admin_vars>>

(* recv_task's first send, the open event; it ends if nobody is subscribed. *)
(* A task being polled when select! aborts it still gets this far.          *)
Announce(c) ==
    /\ recv_task[c] = "starting"
    /\ \/ /\ Subscribed(stream(c)) # {}
          /\ presence' = [presence EXCEPT ![stream(c)][user(c)] = "open"]
          /\ pending' = Sent(stream(c), user(c))
          /\ recv_task' = [recv_task EXCEPT ![c] = "looping"]
       \/ /\ Subscribed(stream(c)) = {}
          /\ recv_task' = [recv_task EXCEPT ![c] = "ended"]
          /\ UNCHANGED <<presence, pending>>
    /\ UNCHANGED <<room_vars, lock, groups, inner_user, user_count, user_tasks,
                   user_senders, users_group, pipe, request, pc, rx, admin_vars>>

(* recv_task sends a client's message to the group.                         *)
Broadcast(c) ==
    /\ recv_task[c] = "looping"
    /\ \/ /\ Subscribed(stream(c)) # {}
          /\ pending' = Sent(stream(c), user(c))
          /\ UNCHANGED recv_task
       \/ /\ Subscribed(stream(c)) = {}
          /\ recv_task' = [recv_task EXCEPT ![c] = "ended"]
          /\ UNCHANGED pending
    /\ UNCHANGED <<room_vars, lock, groups, inner_user, user_count, user_tasks,
                   user_senders, users_group, pipe, presence, request, pc, rx,
                   admin_vars>>

(* recv_task ends: the socket closes, a unicast fails, or select! aborted   *)
(* the task, before its first poll or at an await.                          *)
RecvTaskEnds(c) ==
    /\ \/ recv_task[c] = "looping"
       \/ recv_task[c] = "starting" /\ pc[c] # "serving"
    /\ recv_task' = [recv_task EXCEPT ![c] = "ended"]
    /\ UNCHANGED <<room_vars, lock, manager_vars, request, pc, rx, admin_vars>>

(* The channel of a receiver is closed when no sender is left: neither the  *)
(* user_senders entry nor the pipe's clone.                                 *)
ChannelClosed(c) ==
    /\ user_senders[stream(c)][user(c)] # rx[c]
    /\ pipe[rx[c]] = "ended"

(* send_task ends because its channel is closed.                            *)
SendTaskCloses(c) ==
    /\ rx[c] # NoConn
    /\ ChannelClosed(c)
    /\ rx' = [rx EXCEPT ![c] = NoConn]
    /\ UNCHANGED <<room_vars, lock, manager_vars, request, pc, recv_task, admin_vars>>

(* send_task ends because the socket refused a message, it lagged behind,   *)
(* or select! aborted it.                                                   *)
SendTaskEnds(c) ==
    /\ rx[c] # NoConn
    /\ rx' = [rx EXCEPT ![c] = NoConn]
    /\ UNCHANGED <<room_vars, lock, manager_vars, request, pc, recv_task, admin_vars>>

(* select! returns when one of the two tasks is over.                       *)
SelectReturns(c) ==
    /\ pc[c] = "serving"
    /\ rx[c] = NoConn \/ recv_task[c] = "ended"
    /\ pc' = [pc EXCEPT ![c] = "done"]
    /\ UNCHANGED <<room_vars, lock, manager_vars, request, rx, recv_task, admin_vars>>

(* Mutant: the future ends without leave_group.                             *)
CloseStays(c) ==
    /\ pc[c] = "done"
    /\ RoomsFree
    /\ room = "live"
    /\ LockFree
    /\ pc' = [pc EXCEPT ![c] = "closed"]
    /\ UNCHANGED <<room_vars, lock, manager_vars, request, rx, recv_task, admin_vars>>

(* Mutant: the other task is awaited where select! should abort it.         *)
CloseAfterBoth(c) ==
    /\ rx[c] = NoConn /\ recv_task[c] = "ended"
    /\ pc[c] = "done"
    /\ RoomsFree
    /\ room = "live"
    /\ LockFree
    /\ leave_group(stream(c), user(c))
    /\ pc' = [pc EXCEPT ![c] = "closed"]
    /\ UNCHANGED <<room_vars, lock, request, rx, recv_task, admin_vars>>

(* After select!: ROOMS, the manager's lock and leave_group, all held       *)
(* together; the user leaves whoever owns the group's task by now.          *)
Close(c) ==
    /\ pc[c] = "done"
    /\ RoomsFree
    /\ room = "live"
    /\ LockFree
    /\ leave_group(stream(c), user(c))
    /\ pc' = [pc EXCEPT ![c] = "closed"]
    /\ UNCHANGED <<room_vars, lock, request, rx, recv_task, admin_vars>>

(* The same unwrap as in the upgrade, of a room deleted since.              *)
ClosePanics(c) ==
    /\ pc[c] = "done"
    /\ RoomsFree
    /\ room = "deleted"
    /\ pc' = [pc EXCEPT ![c] = "dead"]
    /\ UNCHANGED <<room_vars, lock, manager_vars, request, rx, recv_task, admin_vars>>

-----------------------------------------------------------------------------
(* The pipe task of Group::join, named by the connection that spawned it.  *)

(* recv().await returned another user's message and it is sent to the       *)
(* user's channel; with no receiver there the send fails and the task       *)
(* returns.  More messages may wait behind this one.                        *)
PipeForwards(k) ==
    /\ pipe[k] \in {"running", "aborted"}
    /\ pending[k]
    /\ \/ /\ \E c \in Conns : rx[c] = k
          /\ pending' \in {pending, [pending EXCEPT ![k] = FALSE]}
          /\ UNCHANGED pipe
       \/ /\ \A c \in Conns : rx[c] # k
          /\ pipe' = [pipe EXCEPT ![k] = "ended"]
          /\ pending' = [pending EXCEPT ![k] = FALSE]
    /\ UNCHANGED <<room_vars, lock, groups, inner_user, user_count, user_tasks,
                   user_senders, users_group, presence, request, conn_vars,
                   admin_vars>>

(* The task is dropped after an abort, or its recv() reports Lagged, which  *)
(* ends the `while let Ok' loop.                                            *)
PipeEnds(k) ==
    /\ \/ pipe[k] = "aborted"
       \/ SlowPipes /\ pipe[k] = "running" /\ pending[k]
    /\ pipe' = [pipe EXCEPT ![k] = "ended"]
    /\ pending' = [pending EXCEPT ![k] = FALSE]
    /\ UNCHANGED <<room_vars, lock, groups, inner_user, user_count, user_tasks,
                   user_senders, users_group, presence, request, conn_vars,
                   admin_vars>>

-----------------------------------------------------------------------------
(* The room handlers, serialised by ROOMS.                                 *)

(* Room::join: the client gets an id of its own.                            *)
RoomJoin(u) ==
    /\ RoomsFree
    /\ room = "live"
    /\ LockFree
    /\ u \notin client_map
    /\ client_map' = client_map \cup {u}
    /\ UNCHANGED <<room, lock, manager_vars, request, conn_vars, admin_vars>>

(* GroupsManager::end_user, first half: takes the user's entry away and     *)
(* keeps a copy of its groups.                                              *)
end_user(u) ==
    /\ LockFree
    /\ lock' = Admin
    /\ admin' = "ending"
    /\ admin_user' = u
    /\ group_names' = users_group[u]
    /\ users_group' = [users_group EXCEPT ![u] = {}]

(* room/exit: user_delete ends the user before it looks at the token.       *)
Exit(u) ==
    /\ u \in Exiting
    /\ RoomsFree
    /\ room = "live"
    /\ end_user(u)
    /\ deleting' = FALSE
    /\ UNCHANGED <<room_vars, groups, group_vars, request, conn_vars>>

(* room/delete: all_user_delete works on the users present.                 *)
DeleteRoom ==
    /\ Deletable
    /\ RoomsFree
    /\ room = "live"
    /\ admin' = "deleting"
    /\ deleting' = TRUE
    /\ UNCHANGED <<room_vars, lock, manager_vars, request, conn_vars, admin_user,
                   group_names>>

DeleteUser(u) ==
    /\ admin = "deleting"
    /\ u \in client_map
    /\ end_user(u)
    /\ UNCHANGED <<room_vars, groups, group_vars, request, conn_vars, deleting>>

(* end_user, second half: one leave_group per copied name.                  *)
EndLeaves(g) ==
    /\ admin = "ending"
    /\ g \in group_names
    /\ leave_group(g, admin_user)
    /\ group_names' = group_names \ {g}
    /\ UNCHANGED <<room_vars, lock, request, conn_vars, admin, admin_user,
                   deleting>>

(* end_user returns and the guard is dropped.                               *)
EndReturns ==
    /\ admin = "ending"
    /\ group_names = {}
    /\ lock' = NoOne
    /\ admin' = "removing"
    /\ UNCHANGED <<room_vars, manager_vars, request, conn_vars, admin_user,
                   group_names, deleting>>

(* user_delete waits for the forwarder and closes the client's streams, all *)
(* of it in Rooms and PeerForward, and nothing says here that it ever ends. *)
(* Then it removes the client, and all_user_delete goes on.                 *)
RemoveClient ==
    /\ admin = "removing"
    /\ client_map' = client_map \ {admin_user}
    /\ admin' = IF deleting THEN "deleting" ELSE "idle"
    /\ admin_user' = NoOne
    /\ UNCHANGED <<room, lock, manager_vars, request, conn_vars, group_names,
                   deleting>>

(* user_delete gives up: a wrong token, no such client, or an error from    *)
(* the deletion of one of the client's streams, which ends a room/delete.   *)
KeepClient ==
    /\ admin = "removing"
    /\ admin' = "idle"
    /\ admin_user' = NoOne
    /\ deleting' = FALSE
    /\ UNCHANGED <<room_vars, lock, manager_vars, request, conn_vars, group_names>>

DeleteDone ==
    /\ admin = "deleting"
    /\ client_map = {}
    /\ room' = "deleted"
    /\ admin' = "idle"
    /\ deleting' = FALSE
    /\ UNCHANGED <<client_map, lock, manager_vars, request, conn_vars, admin_user,
                   group_names>>

(* whip and whep, in Rooms: with ROOMS in hand they wait for the forwarder, *)
(* for ever perhaps.                                                        *)
StreamTakesRooms ==
    /\ Streaming
    /\ RoomsFree
    /\ room = "live"
    /\ admin' = "streaming"
    /\ UNCHANGED <<room_vars, lock, manager_vars, request, conn_vars, admin_user,
                   group_names, deleting>>

StreamGivesRooms ==
    /\ admin = "streaming"
    /\ admin' = "idle"
    /\ UNCHANGED <<room_vars, lock, manager_vars, request, conn_vars, admin_user,
                   group_names, deleting>>

(* Nothing is left to happen: every connection this instance allows is      *)
(* over, tasks included, and no room request is under way.                  *)
Finished ==
    /\ RoomsFree
    /\ \A c \in Conns :
          /\ \/ pc[c] \in {"closed", "failed", "dead"}
             \/ pc[c] = "idle" /\ room = "deleted"
          /\ rx[c] = NoConn
          /\ recv_task[c] \in {"none", "ended"}
    /\ UNCHANGED vars

-----------------------------------------------------------------------------
ConnNext(c) ==
    \/ Authorize(c)
    \/ Upgrade(c)
    \/ UpgradePanics(c)
    \/ GroupExists(c)
    \/ NewGroup(c)
    \/ JoinGroup(c)
    \/ Subscribe(c)
    \/ Announce(c)
    \/ Broadcast(c)
    \/ RecvTaskEnds(c)
    \/ SendTaskCloses(c)
    \/ SendTaskEnds(c)
    \/ SelectReturns(c)
    \/ Close(c)
    \/ ClosePanics(c)
    \/ PipeForwards(c)
    \/ PipeEnds(c)

RoomNext ==
    \/ \E u \in Users : RoomJoin(u) \/ Exit(u) \/ DeleteUser(u)
    \/ \E g \in Streams : EndLeaves(g)
    \/ DeleteRoom
    \/ EndReturns
    \/ RemoveClient
    \/ KeepClient
    \/ DeleteDone
    \/ StreamTakesRooms
    \/ StreamGivesRooms

Next ==
    \/ \E c \in Conns : ConnNext(c)
    \/ RoomNext
    \/ Finished

Spec == Init /\ [][Next]_vars

(* Fairness.  Tasks and handlers are scheduled by tokio, and its mutexes    *)
(* are fair queues: who asks for ROOMS and the manager gets them in turn,   *)
(* hence strong fairness for the one step that waits for both.  It says     *)
(* nothing if they are not given back, and whether the forwarder lets go of *)
(* those who wait for it with ROOMS is not assumed: RemoveClient,           *)
(* KeepClient and StreamGivesRooms need not happen.  Nothing is assumed of  *)
(* clients: sockets need not fail, users need not exit.                     *)
FairConn(c) ==
    /\ WF_vars(GroupExists(c))
    /\ WF_vars(NewGroup(c))
    /\ WF_vars(JoinGroup(c))
    /\ WF_vars(Subscribe(c))
    /\ WF_vars(Announce(c))
    /\ WF_vars(SendTaskCloses(c))
    /\ WF_vars(SelectReturns(c))
    /\ SF_vars(Close(c))
    /\ SF_vars(ClosePanics(c))
    /\ WF_vars(pipe[c] = "aborted" /\ PipeEnds(c))

FairRoom ==
    /\ \A u \in Users : SF_vars(DeleteUser(u))
    /\ \A g \in Streams : WF_vars(EndLeaves(g))
    /\ WF_vars(EndReturns)
    /\ WF_vars(DeleteDone)

FairSpec == Spec /\ (\A c \in Conns : FairConn(c)) /\ FairRoom

-----------------------------------------------------------------------------
(* Properties.                                                             *)

Member(c) == user(c) \in inner_user[stream(c)]
Channel(c) == user_senders[stream(c)][user(c)]

(* A connection in receipt of its group's messages.                         *)
Attached(c) == rx[c] # NoConn /\ rx[c] = Channel(c)

(* The three collections of a Group agree on who is in it, the counter      *)
(* counts them, and a group GroupsManager does not know has nobody: every   *)
(* join, leave, end_user and new_group keeps four separately locked fields  *)
(* in step (Group::join, Group::leave).                                     *)
MembershipAgreement ==
    \A g \in Streams :
        /\ user_count[g] = Cardinality(inner_user[g])
        /\ g \notin groups => inner_user[g] = {}
        /\ \A u \in Users :
              /\ user_tasks[g][u] = user_senders[g][u]
              /\ u \in inner_user[g] <=> user_tasks[g][u] # NoConn

(* users_group lists exactly the groups a user is in, except those end_user *)
(* has copied and has yet to leave: otherwise an exit would leave a user    *)
(* behind in a group that nothing will ever take out (end_user).            *)
IndexAgreement ==
    \A u \in Users, g \in Streams :
        u \in inner_user[g] <=>
            \/ g \in users_group[u]
            \/ admin = "ending" /\ admin_user = u /\ g \in group_names

(* The unwrap in Group::get_user_sender never meets an absent user: between *)
(* join_or_create and get_user_receiver nobody can take the user out.       *)
UnwrapSafe ==
    \A c \in Conns : pc[c] = "joined" => Member(c) /\ Channel(c) # NoConn

(* A connection that still receives from a channel the group has dropped    *)
(* has a pipe that is being torn down, so no socket goes on receiving a     *)
(* group's messages once its user has been taken out (Group::leave).        *)
NoZombieReceiver ==
    \A c \in Conns :
        rx[c] # NoConn /\ ~Attached(c) => pipe[rx[c]] \in {"aborted", "ended"}

(* While the room lives, a member has a connection that will give the       *)
(* membership up: sockets that fail, users that exit and clients that       *)
(* reconnect never leave a member that only room/exit could remove.         *)
MemberHasConnection ==
    room = "live" =>
        \A g \in Streams : \A u \in inner_user[g] :
            \E c \in Conns :
                /\ request[c] = [user |-> u, stream |-> g]
                /\ pc[c] \in {"joined", "serving", "done"}

(* To the others in a group, a member whose connection has announced itself *)
(* is present: the close event of an earlier connection of the same user    *)
(* never outlives the open event of the one that owns the membership now.   *)
AnnouncedIsPresent ==
    \A c \in Conns :
        recv_task[c] = "looping" /\ Channel(c) = c
            => presence[stream(c)][user(c)] = "open"

(* The session of a connection, as GroupMembership sees it.                 *)
SessionOf(c) ==
    IF pc[c] \in {"idle", "authorized", "upgraded", "creating", "joining",
                  "failed"}
    THEN "out"
    ELSE IF pc[c] = "joined" \/ Attached(c) THEN "in" ELSE "gone"

Membership == INSTANCE GroupMembership WITH
    Sessions <- Conns,
    Places <- [user : Users, stream : Streams],
    place <- request,
    members <- {p \in [user : Users, stream : Streams] :
                    p.user \in inner_user[p.stream]},
    session <- [c \in Conns |-> SessionOf(c)]

(* The handler, the manager and the tasks together do what GroupMembership  *)
(* promises: a leave ends every session of the place, whichever connection  *)
(* or exit caused it, and a session once over is never resumed.             *)
ImplementsMembership == Membership!Spec

(* A socket whose user has been taken out of the group (an exit, or a       *)
(* leave by another socket of that user) stops receiving, even if its       *)
(* client does nothing: the abort ends the pipe, the last sender goes, and  *)
(* send_task sees its channel closed.                                       *)
EvictedStopsReceiving ==
    \A c \in Conns :
        (rx[c] # NoConn /\ ~Attached(c)) ~> (rx[c] = NoConn)

(* Whoever waits for the forwarder with ROOMS in hand has it in the end.    *)
(* Not so in general: the server may stand still with the forwarder locked  *)
(* (CloseReturns in PeerForward, WhepGetsPublisher in Rooms).               *)
ForwarderComesBack == []<>(admin \notin {"removing", "streaming"})

(* A connection whose tasks are over gives up its membership, or the room   *)
(* is deleted first, unless the forwarder keeps ROOMS from everybody: no    *)
(* chain of exits, stream handlers and other connections, and no wait       *)
(* within the groups, keeps it from its turn at ROOMS and at the manager    *)
(* for ever (route/ws/mod.rs).                                              *)
DoneLeaves ==
    ForwarderComesBack =>
        \A c \in Conns : pc[c] = "done" ~> pc[c] \in {"closed", "dead"}

(* README: "Broadcast" is supported on WebSockets.  A connection attached   *)
(* to its group has a pipe that will bring it the group's messages.         *)
MembersHearBroadcasts ==
    \A c \in Conns :
        pc[c] = "serving" /\ recv_task[c] = "looping" /\ Attached(c)
            => pipe[rx[c]] # "ended"
=============================================================================
