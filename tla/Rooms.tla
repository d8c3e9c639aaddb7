-------------------------------- MODULE Rooms --------------------------------
(***************************************************************************)
(* One room: who is in it, which streams its clients list as theirs, which *)
(* streams its Forwarder has, and the HTTP handlers that change them.      *)
(*                                                                         *)
(* Two locks are held across awaits and are variables: the global ROOMS    *)
(* mutex and the room's forwarder, always taken with write().  Between two *)
(* awaits that may wait for a lock a handler is one step.                  *)
(*                                                                         *)
(* What is abstracted.  A Client and its clones share one stream list, so  *)
(* a client is its token; the random tokens are distinct.  A stream's      *)
(* entry in Forwarder.stream_map is `status': all that matters here of its *)
(* PeerForward is whether a publisher is set, is connected, or has left,   *)
(* and these change as StreamLife says, which PeerForward implements.      *)
(* The locks inside the Forwarder are never held while waiting for one of  *)
(* these two.  Forwarder.stream_map is: whoever closes a stream holds it    *)
(* through PeerForward::close(), which may never return (module             *)
(* PeerForward), so closing is a stage of its own, and until it is over     *)
(* nobody else gets at the streams.  The groups of the room are in Groups.  *)
(***************************************************************************)
EXTENDS Integers, SequencesExt

CONSTANTS
    Capacity,    \* of the room; user ids are 0 .. Capacity - 1
    NeedsHost,   \* TRUE: id 0 is for who knows the master key
    Streams,     \* stream names, numbered in their alphabetical order
    Tokens,      \* the tokens joins may draw: bounds the number of joins
    NoToken,     \* no client has the id
    Requests,    \* requests; each is made at most once
    NoOne,       \* the lock is free; nothing asked
    Ops,         \* what requests may ask for in this instance
    Faulty,      \* TRUE: setting up a peer connection may fail
    Impatient    \* TRUE: clients may disconnect before they are answered

StreamOps == {"create", "destroy", "whip", "whep", "infos"}
RoomOps == {"exit", "delete"}

ASSUME CapacityIsNatural == Capacity \in Nat
ASSUME StreamsAreOrdered == Streams \subseteq Nat
ASSUME NamesAreDistinct == NoToken \notin Tokens /\ NoOne \notin Requests \cup Streams
ASSUME InstanceIsSound == {NeedsHost, Faulty, Impatient} \subseteq BOOLEAN
                          /\ Ops \subseteq StreamOps \cup RoomOps

VARIABLES
    room,            \* "none", "live" while in ROOMS, "deleted"
    clients,         \* Room.client_map: the token of the client with an id
    issued,          \* the tokens drawn so far
    stream_map,      \* Client.stream_map of each client, in order of addition
    status,          \* the streams of the Forwarder
    abandoned,       \* those that a publisher has left
    reaping,         \* the stream that publish_check_tick is closing
    rooms_lock,      \* the request holding ROOMS
    forwarder_lock,  \* the request holding the forwarder
    pc,              \* where each request stands
    asked,           \* what it asks for, and the client it speaks for
    streams,         \* user_delete's copy of the streams still to be deleted
    user_ids         \* all_user_delete's copy of the ids still to be deleted

Ids == 0 .. Capacity - 1
Over == {"succeeded", "rejected", "failed", "panicked", "dropped"}
Stages == {"idle", "authorized", "waiting", "locked", "adding", "unlisting",
           "dummy", "prepared", "spinning", "subscribing", "deleting",
           "exiting", "destroying", "closing", "removing"} \cup Over

room_vars == <<room, clients, issued>>
locks == <<rooms_lock, forwarder_lock>>
copies == <<streams, user_ids>>
stream_vars == <<status, abandoned, reaping>>
vars == <<room_vars, stream_map, stream_vars, locks, pc, asked, copies>>

op(r) == asked[r].op
id(r) == asked[r].id
token(r) == asked[r].token
stream(r) == asked[r].stream

Nothing == [op |-> "none", id |-> NoOne, token |-> NoToken, stream |-> NoOne]
Request == [op : Ops \cup {"none"}, id : Ids \cup {NoOne},
            token : Tokens \cup {NoToken}, stream : Streams \cup {NoOne}]

TypeOK ==
    /\ room \in {"none", "live", "deleted"}
    /\ clients \in [Ids -> Tokens \cup {NoToken}]
    /\ issued \subseteq Tokens
    /\ stream_map \in [Tokens -> Seq(Streams)]
    /\ \A t \in Tokens : IsInjective(stream_map[t])
    /\ status \in [Streams -> {"absent", "idle", "dialing", "live"}]
    /\ abandoned \subseteq Streams
    /\ \A s \in abandoned : status[s] # "absent"
    /\ reaping \in Streams \cup {NoOne}
    /\ rooms_lock \in Requests \cup {NoOne}
    /\ forwarder_lock \in Requests \cup {NoOne}
    /\ pc \in [Requests -> Stages]
    /\ asked \in [Requests -> Request]
    /\ streams \in [Requests -> Seq(Streams)]
    /\ user_ids \in [Requests -> SUBSET Ids]

Init ==
    /\ room = "none"
    /\ clients = [i \in Ids |-> NoToken]
    /\ issued = {}
    /\ stream_map = [t \in Tokens |-> <<>>]
    /\ status = [s \in Streams |-> "absent"]
    /\ abandoned = {}
    /\ reaping = NoOne
    /\ rooms_lock = NoOne
    /\ forwarder_lock = NoOne
    /\ pc = [r \in Requests |-> "idle"]
    /\ asked = [r \in Requests |-> Nothing]
    /\ streams = [r \in Requests |-> <<>>]
    /\ user_ids = [r \in Requests |-> {}]

-----------------------------------------------------------------------------
(* A client's list of streams: a Vec in the order of addition.             *)

(* The halving search of slice::binary_search: the index of s, or 0.  The   *)
(* list is searched as if it were sorted.  (For lists of up to two names    *)
(* every version of the library probes the same places.)                    *)
binary_search(list, s) ==
    LET probe[left \in 1 .. Len(list) + 1, right \in 1 .. Len(list) + 1] ==
            IF left >= right THEN 0
            ELSE LET mid == (left + right) \div 2
                 IN  IF list[mid] = s THEN mid
                     ELSE IF list[mid] < s THEN probe[mid + 1, right]
                     ELSE probe[left, mid]
    IN  probe[1, Len(list) + 1]

(* Mutant: add_stream pushes without looking.                               *)
AddAgain(t, s) ==
    stream_map' = [stream_map EXCEPT ![t] = Append(@, s)]

(* Client::add_stream of the client with token t, when it succeeds.         *)
add_stream(t, s) ==
    /\ ~Contains(stream_map[t], s)
    /\ stream_map' = [stream_map EXCEPT ![t] = Append(@, s)]

(* Client::remove_stream succeeds if the list has the name and the search   *)
(* finds it.                                                                *)
Removable(t, s) ==
    /\ Contains(stream_map[t], s)
    /\ binary_search(stream_map[t], s) \in 1 .. Len(stream_map[t])

remove_stream(t, s) ==
    /\ Removable(t, s)
    /\ stream_map' =
           [stream_map EXCEPT ![t] = RemoveAt(@, binary_search(@, s))]

-----------------------------------------------------------------------------
(* The streams of the Forwarder.                                           *)

(* s is taken from Forwarder.stream_map, now that close() has returned.     *)
Removed(s) ==
    /\ status' = [status EXCEPT ![s] = "absent"]
    /\ abandoned' = abandoned \ {s}

(* Request r awaits close() in stream_delete: of destroy or of user_delete. *)
InClose(r) == pc[r] \in {"destroying", "closing"}

(* Forwarder.stream_map, for whoever has the forwarder: only the tick can   *)
(* have it.                                                                 *)
MapFree == reaping = NoOne

-----------------------------------------------------------------------------
(* The two locks.                                                          *)

(* Mutant: the rooms are read without the mutex.                            *)
RoomsShared == TRUE

RoomsFree == rooms_lock = NoOne
ForwarderFree == forwarder_lock = NoOne

WaitsForRooms(r) ==
    \/ pc[r] = "authorized" /\ op(r) = "whip"
    \/ pc[r] = "prepared"

WaitsForForwarder(r) ==
    \/ pc[r] = "authorized" /\ op(r) # "whip"
    \/ pc[r] = "waiting"
    \/ pc[r] = "exiting" /\ streams[r] # <<>>

(* Request r drops whatever it holds.                                       *)
Released(r) ==
    /\ rooms_lock' = IF rooms_lock = r THEN NoOne ELSE rooms_lock
    /\ forwarder_lock' = IF forwarder_lock = r THEN NoOne ELSE forwarder_lock

Goto(r, stage) == pc' = [pc EXCEPT ![r] = stage]

(* The handler returns, or its future panics, and its guards are dropped.   *)
Ends(r, how) == Goto(r, how) /\ Released(r)

-----------------------------------------------------------------------------
(* The room: room/create and room/join, each in one go under ROOMS.        *)

CreateRoom ==
    /\ room = "none"
    /\ RoomsFree
    /\ room' = "live"
    /\ UNCHANGED <<clients, issued, stream_map, stream_vars, locks, pc, asked, copies>>

(* Room::join: the host gets id 0, anybody else the lowest free id.         *)
Enters(i, t) ==
    /\ RoomsFree
    /\ room = "live"
    /\ clients[i] = NoToken
    /\ t \notin issued
    /\ clients' = [clients EXCEPT ![i] = t]
    /\ issued' = issued \cup {t}
    /\ UNCHANGED <<room, stream_map, stream_vars, locks, pc, asked, copies>>

JoinAsHost(t) ==
    /\ NeedsHost
    /\ 0 \in Ids
    /\ Enters(0, t)

Join(i, t) ==
    LET first == IF NeedsHost THEN 1 ELSE 0
    IN  /\ first <= i
        /\ \A j \in first .. i - 1 : clients[j] # NoToken
        /\ Enters(i, t)

-----------------------------------------------------------------------------
(* Requests about streams: route/rtc.                                      *)

(* auth_user: the client is in the room now; the handler goes on with       *)
(* clones of the room and of the client, whatever happens to them.          *)
Authorize(r, o, i, s) ==
    /\ pc[r] = "idle"
    /\ o \in Ops \cap StreamOps
    /\ RoomsFree
    /\ room = "live"
    /\ clients[i] # NoToken
    /\ asked' = [asked EXCEPT ![r] =
                     [op |-> o, id |-> i, token |-> clients[i], stream |-> s]]
    /\ Goto(r, "authorized")
    /\ UNCHANGED <<room_vars, stream_map, stream_vars, locks, copies>>

(* create, destroy, infos and the first half of whep take the forwarder of  *)
(* the room they hold a clone of.                                           *)
LockForwarder(r) ==
    /\ pc[r] = "authorized"
    /\ op(r) # "whip"
    /\ ForwarderFree
    /\ forwarder_lock' = r
    /\ Goto(r, "locked")
    /\ UNCHANGED <<room_vars, stream_map, stream_vars, rooms_lock, asked, copies>>

(* The upgrades of whip and whep look the room up again ...                 *)
LockRooms(r) ==
    /\ WaitsForRooms(r)
    /\ RoomsFree
    /\ \/ /\ room = "live"
          /\ rooms_lock' = r
          /\ Goto(r, "waiting")
       \/ /\ room = "deleted"
          /\ Goto(r, "panicked")
          /\ UNCHANGED rooms_lock
    /\ UNCHANGED <<room_vars, stream_map, stream_vars, forwarder_lock, asked, copies>>

(* ... and wait for the forwarder with ROOMS in hand.                       *)
TakeForwarder(r) ==
    /\ pc[r] = "waiting"
    /\ ForwarderFree
    /\ forwarder_lock' = r
    /\ rooms_lock' = NoOne
    /\ Goto(r, IF op(r) = "whip" THEN "locked" ELSE "spinning")
    /\ UNCHANGED <<room_vars, stream_map, stream_vars, asked, copies>>

(* stream_create: an existing stream is an error, reported as success.      *)
Create(r) ==
    /\ pc[r] = "locked"
    /\ MapFree
    /\ op(r) = "create"
    /\ \/ /\ status[stream(r)] = "absent"
          /\ status' = [status EXCEPT ![stream(r)] = "idle"]
          /\ Goto(r, "adding")
          /\ UNCHANGED <<abandoned, reaping, locks>>
       \/ /\ status[stream(r)] # "absent"
          /\ Ends(r, "succeeded")
          /\ UNCHANGED stream_vars
    /\ UNCHANGED <<room_vars, stream_map, asked, copies>>

(* create and whip list the stream as the client's.  A stream listed        *)
(* already is an error, which only create reports.                          *)
AddStream(r) ==
    /\ pc[r] = "adding"
    /\ \/ add_stream(token(r), stream(r)) /\ Ends(r, "succeeded")
       \/ /\ Contains(stream_map[token(r)], stream(r))
          /\ Ends(r, IF op(r) = "create" THEN "failed" ELSE "succeeded")
          /\ UNCHANGED stream_map
    /\ UNCHANGED <<room_vars, stream_vars, asked, copies>>

(* stream_delete, whoever's stream it is: close() is awaited.               *)
Destroy(r) ==
    /\ pc[r] = "locked"
    /\ MapFree
    /\ op(r) = "destroy"
    /\ \/ status[stream(r)] # "absent" /\ Goto(r, "destroying") /\ UNCHANGED locks
       \/ status[stream(r)] = "absent" /\ Ends(r, "succeeded")
    /\ UNCHANGED <<room_vars, stream_map, stream_vars, asked, copies>>

(* close() has returned, if it does ...                                     *)
StreamDestroyed(r) ==
    /\ pc[r] = "destroying"
    /\ Removed(stream(r))
    /\ Goto(r, "unlisting")
    /\ UNCHANGED <<room_vars, stream_map, reaping, locks, asked, copies>>

(* ... and the stream is taken from the client's list.                      *)
Unlist(r) ==
    /\ pc[r] = "unlisting"
    /\ \/ remove_stream(token(r), stream(r)) /\ Ends(r, "succeeded")
       \/ /\ ~Removable(token(r), stream(r))
          /\ Ends(r, "failed")
          /\ UNCHANGED stream_map
    /\ UNCHANGED <<room_vars, stream_vars, asked, copies>>

Infos(r) ==
    /\ pc[r] = "locked"
    /\ MapFree
    /\ op(r) = "infos"
    /\ Ends(r, "succeeded")
    /\ UNCHANGED <<room_vars, stream_map, stream_vars, asked, copies>>

(* whip: publish() sets a publisher on a stream that has none, which it     *)
(* adds if need be, and the forwarder is dropped; any error panics.         *)
Publish(r) ==
    /\ pc[r] = "locked"
    /\ MapFree
    /\ op(r) = "whip"
    /\ \/ /\ status[stream(r)] \in {"absent", "idle"}
          /\ status' = [status EXCEPT ![stream(r)] = "dialing"]
          /\ Goto(r, "adding")
          /\ Released(r)
          /\ UNCHANGED <<abandoned, reaping>>
       \/ /\ Faulty \/ status[stream(r)] \in {"dialing", "live"}
          /\ Ends(r, "panicked")
          /\ UNCHANGED stream_vars
    /\ UNCHANGED <<room_vars, stream_map, asked, copies>>

(* whep, first half: a stream that exists is left as it is; for any other   *)
(* virtual_publish adds it ...                                              *)
VirtualPublish(r) ==
    /\ pc[r] = "locked"
    /\ MapFree
    /\ op(r) = "whep"
    /\ \/ /\ status[stream(r)] # "absent"
          /\ Ends(r, "prepared")
          /\ UNCHANGED stream_vars
       \/ /\ status[stream(r)] = "absent"
          /\ status' = [status EXCEPT ![stream(r)] = "idle"]
          /\ Goto(r, "dummy")
          /\ UNCHANGED <<abandoned, reaping, locks>>
       \/ /\ Faulty /\ status[stream(r)] = "absent"
          /\ Ends(r, "failed")
          /\ UNCHANGED stream_vars
    /\ UNCHANGED <<room_vars, stream_map, asked, copies>>

(* Mutant: the guard of the forwarder lives on in the upgrade.              *)
DummyKeepsForwarder(r) ==
    /\ pc[r] = "dummy"
    /\ MapFree
    /\ \/ /\ status' = [status EXCEPT ![stream(r)] = "dialing"]
          /\ Goto(r, "prepared")
          /\ UNCHANGED <<abandoned, reaping, locks>>
       \/ /\ Faulty
          /\ Ends(r, "failed")
          /\ UNCHANGED stream_vars
    /\ UNCHANGED <<room_vars, stream_map, asked, copies>>

(* ... and publish() sets a dummy publisher, in nobody's name.              *)
PublishDummy(r) ==
    /\ pc[r] = "dummy"
    /\ MapFree
    /\ \/ /\ status' = [status EXCEPT ![stream(r)] = "dialing"]
          /\ Ends(r, "prepared")
          /\ UNCHANGED <<abandoned, reaping>>
       \/ /\ Faulty
          /\ Ends(r, "failed")
          /\ UNCHANGED stream_vars
    /\ UNCHANGED <<room_vars, stream_map, asked, copies>>

(* Mutant: a stream that is gone counts as one that is not ok yet.          *)
SpinOn(r) ==
    /\ pc[r] = "spinning"
    /\ MapFree
    /\ \/ status[stream(r)] = "live" /\ Goto(r, "subscribing")
       \/ status[stream(r)] # "live" /\ UNCHANGED pc
    /\ UNCHANGED <<room_vars, stream_map, stream_vars, locks, asked, copies>>

(* whep, second half: `while !publish_is_ok {}' with the forwarder in hand. *)
(* It goes round until the publisher is connected, or panics when the       *)
(* stream is gone.                                                          *)
Spin(r) ==
    /\ pc[r] = "spinning"
    /\ MapFree
    /\ \/ status[stream(r)] = "live" /\ Goto(r, "subscribing") /\ UNCHANGED locks
       \/ status[stream(r)] = "absent" /\ Ends(r, "panicked")
       \/ status[stream(r)] \notin {"live", "absent"} /\ UNCHANGED <<pc, locks>>
    /\ UNCHANGED <<room_vars, stream_map, stream_vars, asked, copies>>

(* add_subscribe looks again whether the publisher is connected.            *)
Subscribe(r) ==
    /\ pc[r] = "subscribing"
    /\ MapFree
    /\ \/ status[stream(r)] = "live" /\ Ends(r, "succeeded")
       \/ (Faulty \/ status[stream(r)] # "live") /\ Ends(r, "panicked")
    /\ UNCHANGED <<room_vars, stream_map, stream_vars, asked, copies>>

-----------------------------------------------------------------------------
(* room/exit and room/delete: ROOMS is held from beginning to end.         *)

(* Mutant: user_delete does not check the token.                            *)
TokenUnchecked(i, t) == TRUE

check_token(i, t) == clients[i] = t

(* user_delete looks the client up by id, checks the token it was given and *)
(* copies the client's streams.                                             *)
Exit(r, i, t) ==
    /\ pc[r] = "idle"
    /\ "exit" \in Ops
    /\ RoomsFree
    /\ room = "live"
    /\ t \in issued
    /\ asked' = [asked EXCEPT ![r] =
                     [op |-> "exit", id |-> i, token |-> t, stream |-> NoOne]]
    /\ \/ /\ clients[i] # NoToken /\ check_token(i, t)
          /\ rooms_lock' = r
          /\ streams' = [streams EXCEPT ![r] = stream_map[clients[i]]]
          /\ Goto(r, "exiting")
       \/ /\ ~(clients[i] # NoToken /\ check_token(i, t))
          /\ Goto(r, "rejected")
          /\ UNCHANGED <<rooms_lock, streams>>
    /\ UNCHANGED <<room_vars, stream_map, stream_vars, forwarder_lock, user_ids>>

(* all_user_delete copies the ids ...                                       *)
Delete(r) ==
    /\ pc[r] = "idle"
    /\ "delete" \in Ops
    /\ RoomsFree
    /\ room = "live"
    /\ rooms_lock' = r
    /\ user_ids' = [user_ids EXCEPT ![r] = {i \in Ids : clients[i] # NoToken}]
    /\ asked' = [asked EXCEPT ![r] = [Nothing EXCEPT !.op = "delete"]]
    /\ Goto(r, "deleting")
    /\ UNCHANGED <<room_vars, stream_map, stream_vars, forwarder_lock, streams>>

(* ... and deletes one user after the other.                                *)
DeleteUser(r, i) ==
    /\ pc[r] = "deleting"
    /\ i \in user_ids[r]
    /\ user_ids' = [user_ids EXCEPT ![r] = @ \ {i}]
    /\ \/ /\ clients[i] # NoToken
          /\ asked' = [asked EXCEPT ![r].id = i, ![r].token = clients[i]]
          /\ streams' = [streams EXCEPT ![r] = stream_map[clients[i]]]
          /\ Goto(r, "exiting")
       \/ /\ clients[i] = NoToken
          /\ UNCHANGED <<asked, streams, pc>>
    /\ UNCHANGED <<room_vars, stream_map, stream_vars, locks>>

(* user_delete takes the forwarder and deletes one stream after the other;  *)
(* an error ends the request and leaves the client in the room.  (To have   *)
(* the forwarder and wait for stream_map is here to wait for both.)         *)
DeleteStream(r) ==
    /\ pc[r] = "exiting"
    /\ streams[r] # <<>>
    /\ ForwarderFree
    /\ MapFree
    /\ \/ /\ status[Head(streams[r])] # "absent"
          /\ forwarder_lock' = r
          /\ Goto(r, "closing")
          /\ UNCHANGED rooms_lock
       \/ status[Head(streams[r])] = "absent" /\ Ends(r, "failed")
    /\ UNCHANGED <<room_vars, stream_map, stream_vars, asked, copies>>

(* close() has returned, if it does: the forwarder is dropped.              *)
StreamDeleted(r) ==
    /\ pc[r] = "closing"
    /\ Removed(Head(streams[r]))
    /\ forwarder_lock' = NoOne
    /\ Goto(r, "removing")
    /\ UNCHANGED <<room_vars, stream_map, reaping, rooms_lock, asked, copies>>

RemoveStream(r) ==
    /\ pc[r] = "removing"
    /\ \/ /\ remove_stream(token(r), Head(streams[r]))
          /\ streams' = [streams EXCEPT ![r] = Tail(@)]
          /\ Goto(r, "exiting")
          /\ UNCHANGED locks
       \/ /\ ~Removable(token(r), Head(streams[r]))
          /\ Ends(r, "failed")
          /\ UNCHANGED <<stream_map, streams>>
    /\ UNCHANGED <<room_vars, stream_vars, asked, user_ids>>

RemoveClient(r) ==
    /\ pc[r] = "exiting"
    /\ streams[r] = <<>>
    /\ clients' = [clients EXCEPT ![id(r)] = NoToken]
    /\ \/ op(r) = "delete" /\ Goto(r, "deleting") /\ UNCHANGED locks
       \/ op(r) # "delete" /\ Ends(r, "succeeded")
    /\ UNCHANGED <<room, issued, stream_map, stream_vars, asked, copies>>

RemoveRoom(r) ==
    /\ pc[r] = "deleting"
    /\ user_ids[r] = {}
    /\ room' = "deleted"
    /\ Ends(r, "succeeded")
    /\ UNCHANGED <<clients, issued, stream_map, stream_vars, asked, copies>>

(* The client of an HTTP request disconnects while the handler awaits a     *)
(* lock or a peer connection: the handler's future is dropped, guards       *)
(* included.  A stream it was closing stays in the Forwarder.  The upgrades *)
(* run in tasks of their own and are not dropped.                           *)
Disconnect(r) ==
    /\ Impatient
    /\ \/ pc[r] = "authorized" /\ op(r) # "whip"
       \/ pc[r] = "dummy" \/ InClose(r)
       \/ pc[r] = "exiting" /\ streams[r] # <<>>
    /\ Ends(r, "dropped")
    /\ UNCHANGED <<room_vars, stream_map, stream_vars, asked, copies>>

-----------------------------------------------------------------------------
(* What happens to a stream on its own: as StreamLife has it.              *)

(* The publisher's connection is closed and remove_publish follows.         *)
IsLeft(s) ==
    /\ status' = [status EXCEPT ![s] = "idle"]
    /\ abandoned' = abandoned \cup {s}

(* ICE ends one way or the other: connected, or failed and closed.          *)
Settle(s) ==
    /\ status[s] = "dialing"
    /\ \/ status' = [status EXCEPT ![s] = "live"] /\ UNCHANGED abandoned
       \/ IsLeft(s)
    /\ UNCHANGED <<room_vars, stream_map, reaping, locks, pc, asked, copies>>

Leave(s) ==
    /\ status[s] = "live"
    /\ IsLeft(s)
    /\ UNCHANGED <<room_vars, stream_map, reaping, locks, pc, asked, copies>>

(* publish_check_tick takes stream_map and closes a stream whose publisher  *)
(* has been gone for publish_leave_timeout.  (It keeps stream_map for the   *)
(* next such stream: to give it back in between only adds behaviours.)      *)
Takes(s) ==
    /\ MapFree
    /\ \A r \in Requests : ~InClose(r)
    /\ s \in abandoned
    /\ reaping' = s
    /\ UNCHANGED <<room_vars, stream_map, status, abandoned, locks, pc, asked, copies>>

(* It takes no notice of who lists the stream ...                           *)
Reap(s) == status[s] = "idle" /\ Takes(s)

(* ... nor, if the leave time is an old one, of a publisher who is back.    *)
ReapReturned(s) == status[s] \in {"dialing", "live"} /\ Takes(s)

(* close() has returned, if it does.                                        *)
Reaped ==
    /\ reaping # NoOne
    /\ Removed(reaping)
    /\ reaping' = NoOne
    /\ UNCHANGED <<room_vars, stream_map, locks, pc, asked, copies>>

(* Nothing is left to happen but further joins: every request is over.      *)
Finished ==
    /\ \A r \in Requests : pc[r] \in Over \cup {"idle"}
    /\ UNCHANGED vars

-----------------------------------------------------------------------------
RequestNext(r) ==
    \/ \E o \in StreamOps, i \in Ids, s \in Streams : Authorize(r, o, i, s)
    \/ \E i \in Ids, t \in Tokens : Exit(r, i, t)
    \/ \E i \in Ids : DeleteUser(r, i)
    \/ LockForwarder(r)
    \/ LockRooms(r)
    \/ TakeForwarder(r)
    \/ Create(r)
    \/ AddStream(r)
    \/ Destroy(r)
    \/ StreamDestroyed(r)
    \/ Unlist(r)
    \/ Infos(r)
    \/ Publish(r)
    \/ VirtualPublish(r)
    \/ PublishDummy(r)
    \/ Spin(r)
    \/ Subscribe(r)
    \/ Delete(r)
    \/ DeleteStream(r)
    \/ StreamDeleted(r)
    \/ RemoveStream(r)
    \/ RemoveClient(r)
    \/ RemoveRoom(r)
    \/ Disconnect(r)

RoomNext ==
    \/ CreateRoom
    \/ \E t \in Tokens : JoinAsHost(t) \/ \E i \in Ids : Join(i, t)

StreamNext ==
    \/ \E s \in Streams : Settle(s) \/ Leave(s) \/ Reap(s) \/ ReapReturned(s)
    \/ Reaped

Next ==
    \/ \E r \in Requests : RequestNext(r)
    \/ RoomNext
    \/ StreamNext
    \/ Finished

Spec == Init /\ [][Next]_vars

(* Fairness.  Handlers are scheduled, tokio's locks are fair queues (strong *)
(* fairness where a step waits for one of the two), ICE settles, and the    *)
(* tick runs.  Nobody need ever make a request, disconnect, or close a      *)
(* connection, and no close() need ever return.                             *)
GetsLock(r) == LockForwarder(r) \/ LockRooms(r) \/ TakeForwarder(r) \/ DeleteStream(r)

GoesOn(r) ==
    \/ Create(r) \/ AddStream(r) \/ Destroy(r) \/ Unlist(r) \/ Infos(r) \/ Publish(r)
    \/ VirtualPublish(r) \/ PublishDummy(r) \/ Spin(r) \/ Subscribe(r)
    \/ RemoveStream(r) \/ RemoveClient(r) \/ RemoveRoom(r)
    \/ \E i \in Ids : DeleteUser(r, i)

FairRequest(r) == SF_vars(GetsLock(r)) /\ WF_vars(GoesOn(r))
FairStream(s) == WF_vars(Settle(s)) /\ WF_vars(Reap(s))

FairSpec ==
    /\ Spec
    /\ \A r \in Requests : FairRequest(r)
    /\ \A s \in Streams : FairStream(s)

-----------------------------------------------------------------------------
(* Properties.                                                             *)

(* A deleted room is empty for good: nobody joins between the copy of the   *)
(* ids in all_user_delete and rooms.remove, so no client is left holding a  *)
(* token for a room that is not in ROOMS (room/delete.rs).                  *)
DeletedRoomIsEmpty ==
    room = "deleted" => \A i \in Ids : clients[i] = NoToken

(* A client leaves the room only by an exit made with its own token or by   *)
(* the room's deletion, and the one removed is the one that was looked up:  *)
(* an id that changes hands while a user_delete waits for the forwarder     *)
(* never costs the newcomer its place, nor does a stale token (user_delete).*)
OnlyOwnersExit ==
    [][\A i \in Ids :
          clients[i] # NoToken /\ clients'[i] # clients[i] =>
              /\ clients'[i] = NoToken
              /\ \E r \in Requests :
                    /\ pc[r] = "exiting" /\ pc'[r] \in {"succeeded", "deleting"}
                    /\ id(r) = i
                    /\ token(r) = clients[i]]_vars

(* Nobody waits in a circle: whoever has the forwarder waits for neither    *)
(* lock, whoever has ROOMS for the forwarder at most, and a request that is *)
(* over, however it ended, has left no lock behind.  (Every handler takes   *)
(* the two in this order; whep lets go of the forwarder before its upgrade  *)
(* asks for ROOMS.)                                                         *)
NoCircularWait ==
    \A r \in Requests :
        /\ rooms_lock = r => ~WaitsForRooms(r) /\ pc[r] \notin Over
        /\ forwarder_lock = r =>
            ~WaitsForRooms(r) /\ ~WaitsForForwarder(r) /\ pc[r] \notin Over

(* No close() hangs, neither a request's nor the tick's.  (One may: see      *)
(* CloseReturns in module PeerForward.)                                     *)
ClosesReturn ==
    /\ []<>(reaping = NoOne)
    /\ \A r \in Requests : []<>~InClose(r)

(* As long as no close() hangs every request is answered, though ROOMS is   *)
(* held while the forwarder is waited for, the forwarder while whep waits   *)
(* for a publisher, and both through a close().  (Where whep may wait for   *)
(* ever WhepGetsPublisher fails.)                                           *)
RequestsAnswered ==
    ClosesReturn => \A r \in Requests : pc[r] # "idle" ~> pc[r] \in Over

(* README: "(join / exit) Room".  A client that asks to exit with its own   *)
(* token, and waits for the answer, does exit.                              *)
ExitsSucceed ==
    \A r \in Requests : op(r) = "exit" => pc[r] # "failed"

(* README: "When whep is called without whip, the server prepares the dummy *)
(* whip".  A whep that waits for a publisher does not wait for ever, as     *)
(* long as no close() hangs.                                                *)
WhepGetsPublisher ==
    ClosesReturn => \A r \in Requests : pc[r] = "spinning" ~> pc[r] # "spinning"
=============================================================================
