----------------------------- MODULE RoomsProofs -----------------------------
(***************************************************************************)
(* Proofs about Rooms, for any capacity, streams, tokens and requests.     *)
(*                                                                         *)
(* IInv is inductive.  Besides the types it says what ROOMS excludes, what *)
(* a request at each stage carries, and which clients all_user_delete has  *)
(* still to delete.  Nothing is assumed of binary_search but what          *)
(* remove_stream tests: that it returned an index of the list.             *)
(***************************************************************************)
EXTENDS Rooms, SequenceTheorems, TLAPS

HoldsRooms == {"waiting", "deleting", "exiting", "closing", "removing"}
HoldsForwarder == {"locked", "destroying", "unlisting", "dummy", "spinning",
                   "subscribing", "closing"}
Deleting == {"deleting", "exiting", "closing", "removing"}
Serving == {"authorized", "waiting", "locked", "adding", "destroying",
            "unlisting", "dummy", "prepared", "spinning", "subscribing"}

(* A request about a stream has a stream and the token of a client.         *)
Carries ==
    \A r \in Requests : pc[r] \in Serving =>
        token(r) \in Tokens /\ stream(r) \in Streams

(* Each lock is held at the stages between taking and releasing it, and at  *)
(* no other: which is why nobody waits in a circle.  (create lists its      *)
(* stream with the forwarder in hand, whip has dropped it by then.)         *)
Exclusion ==
    \A r \in Requests :
        /\ pc[r] \in HoldsRooms <=> rooms_lock = r
        /\ pc[r] \in HoldsForwarder => forwarder_lock = r
        /\ forwarder_lock = r => pc[r] \in HoldsForwarder \cup {"adding"}

(* The client that is being deleted is still the one that was looked up.    *)
SameClient ==
    \A r \in Requests : pc[r] \in {"exiting", "closing", "removing"} =>
        /\ id(r) \in Ids
        /\ token(r) \in Tokens
        /\ token(r) = clients[id(r)]

StreamLeft ==
    \A r \in Requests : pc[r] \in {"closing", "removing"} => streams[r] # <<>>

(* all_user_delete has still to delete whoever is in the room.              *)
AllCopied ==
    \A r \in Requests :
        /\ pc[r] = "deleting" => op(r) = "delete"
        /\ pc[r] \in Deleting /\ op(r) = "delete" =>
              \A i \in Ids : clients[i] # NoToken =>
                  i \in user_ids[r] \/ (pc[r] # "deleting" /\ i = id(r))

IInv ==
    /\ TypeOK
    /\ Carries
    /\ Exclusion
    /\ SameClient
    /\ StreamLeft
    /\ AllCopied
    /\ DeletedRoomIsEmpty
-----------------------------------------------------------------------------
(* Lists of streams.                                                       *)

(* Appending a name that is not listed keeps the names distinct.            *)
LEMMA Appending ==
    ASSUME NEW list \in Seq(Streams), IsInjective(list),
           NEW s \in Streams, ~Contains(list, s)
    PROVE  Append(list, s) \in Seq(Streams) /\ IsInjective(Append(list, s))
<1>1. /\ Append(list, s) \in Seq(Streams)
      /\ DOMAIN Append(list, s) = 1 .. Len(list) + 1
      /\ \A j \in 1 .. Len(list) : Append(list, s)[j] = list[j]
      /\ Append(list, s)[Len(list) + 1] = s
      /\ DOMAIN list = 1 .. Len(list) /\ Len(list) \in Nat
  BY AppendProperties, LenProperties
<1>2. ASSUME NEW j \in 1 .. Len(list) + 1, NEW k \in 1 .. Len(list) + 1,
             Append(list, s)[j] = Append(list, s)[k]
      PROVE  j = k
  <2>1. CASE j \in 1 .. Len(list) /\ k \in 1 .. Len(list)
    BY <1>1, <1>2, <2>1 DEF IsInjective
  <2>2. CASE j \in 1 .. Len(list) /\ k = Len(list) + 1
    BY <1>1, <1>2, <2>2 DEF Contains
  <2>3. CASE j = Len(list) + 1 /\ k \in 1 .. Len(list)
    BY <1>1, <1>2, <2>3 DEF Contains
  <2> QED
    BY <1>1, <2>1, <2>2, <2>3
<1> QED
  BY <1>1, <1>2 DEF IsInjective

(* Removing at an index keeps the names distinct.                           *)
LEMMA Removing ==
    ASSUME NEW list \in Seq(Streams), IsInjective(list),
           NEW k \in 1 .. Len(list)
    PROVE  RemoveAt(list, k) \in Seq(Streams) /\ IsInjective(RemoveAt(list, k))
<1> DEFINE front == SubSeq(list, 1, k - 1)
           back == SubSeq(list, k + 1, Len(list))
           rest == RemoveAt(list, k)
<1> HIDE DEF front, back, rest
<1>0. Len(list) \in Nat
  BY LenProperties
<1>1. /\ Len(list) \in Nat /\ DOMAIN list = 1 .. Len(list)
      /\ \A j \in 1 .. Len(list) : list[j] \in Streams
  BY LenProperties, ElementOfSeq
<1>2. /\ front \in Seq(Streams)
      /\ Len(front) = k - 1
      /\ \A j \in 1 .. k - 1 : front[j] = list[j]
  <2>1. \A j \in 1 .. k - 1 : list[j] \in Streams
    BY <1>1
  <2>2. /\ front \in Seq(Streams)
        /\ Len(front) = IF 1 <= k - 1 THEN (k - 1) - 1 + 1 ELSE 0
        /\ \A j \in 1 .. (k - 1) - 1 + 1 : front[j] = list[1 + j - 1]
    BY <1>1, <2>1, SubSeqProperties DEF front
  <2> QED
    BY <1>1, <2>2
<1>3. /\ back \in Seq(Streams)
      /\ Len(back) = Len(list) - k
      /\ \A j \in 1 .. Len(list) - k : back[j] = list[k + j]
  <2>1. \A j \in k + 1 .. Len(list) : list[j] \in Streams
    BY <1>1
  <2>2. /\ back \in Seq(Streams)
        /\ Len(back) = IF k + 1 <= Len(list) THEN Len(list) - (k + 1) + 1 ELSE 0
        /\ \A j \in 1 .. Len(list) - (k + 1) + 1 : back[j] = list[(k + 1) + j - 1]
    BY <1>1, <2>1, SubSeqProperties DEF back
  <2>3. ASSUME NEW j \in 1 .. Len(list) - k
        PROVE  back[j] = list[k + j]
    <3>1. j \in 1 .. Len(list) - (k + 1) + 1 /\ (k + 1) + j - 1 = k + j
      BY <1>1
    <3>2. back[j] = list[(k + 1) + j - 1]
      BY <2>2, <3>1
    <3> QED
      BY <3>1, <3>2
  <2>4. Len(back) = Len(list) - k
    <3>1. CASE k + 1 <= Len(list)
      BY <1>1, <2>2, <3>1
    <3>2. CASE k = Len(list)
      <4>1. Len(back) = 0
        BY <1>1, <2>2, <3>2
      <4> QED
        BY <1>1, <3>2, <4>1
    <3>3. k + 1 <= Len(list) \/ k = Len(list)
      BY <1>0
    <3> QED
      BY <3>1, <3>2, <3>3
  <2> QED
    BY <2>2, <2>3, <2>4
<1>4. /\ rest \in Seq(Streams)
      /\ Len(rest) = Len(list) - 1
      /\ \A j \in 1 .. Len(list) - 1 :
            rest[j] = IF j <= k - 1 THEN list[j] ELSE list[j + 1]
  <2>1. /\ rest \in Seq(Streams)
        /\ Len(rest) = Len(front) + Len(back)
        /\ \A j \in 1 .. Len(front) + Len(back) :
              rest[j] = IF j <= Len(front) THEN front[j] ELSE back[j - Len(front)]
    BY <1>2, <1>3, ConcatProperties DEF RemoveAt, front, back, rest
  <2>2. ASSUME NEW j \in 1 .. Len(list) - 1
        PROVE  rest[j] = IF j <= k - 1 THEN list[j] ELSE list[j + 1]
    <3>1. CASE j <= k - 1
      <4>1. /\ j \in 1 .. Len(front) + Len(back)
            /\ j <= Len(front) /\ j \in 1 .. k - 1
        BY <1>1, <1>2, <1>3, <3>1
      <4>2. rest[j] = front[j]
        BY <2>1, <4>1
      <4> QED
        BY <1>2, <3>1, <4>1, <4>2
    <3>2. CASE ~(j <= k - 1)
      <4>1. j - (k - 1) \in 1 .. Len(list) - k /\ k + (j - (k - 1)) = j + 1
        BY <1>1, <3>2
      <4>2. j \in 1 .. Len(front) + Len(back) /\ ~(j <= Len(front))
        BY <1>1, <1>2, <1>3, <3>2
      <4>3. rest[j] = back[j - (k - 1)]
        BY <1>2, <2>1, <4>2
      <4> QED
        BY <1>3, <3>2, <4>1, <4>3
    <3> QED
      BY <3>1, <3>2
  <2> QED
    BY <1>1, <1>2, <1>3, <2>1, <2>2
<1>5. DOMAIN rest = 1 .. Len(list) - 1
  BY <1>4, LenProperties
<1>6. ASSUME NEW i \in 1 .. Len(list) - 1, NEW j \in 1 .. Len(list) - 1,
             rest[i] = rest[j]
      PROVE  i = j
  <2> DEFINE at(n) == IF n <= k - 1 THEN n ELSE n + 1
  <2>1. \A n \in 1 .. Len(list) - 1 : at(n) \in 1 .. Len(list) /\ rest[n] = list[at(n)]
    BY <1>1, <1>4
  <2>2. at(i) = at(j)
    BY <1>1, <1>6, <2>1 DEF IsInjective
  <2> QED
    BY <1>1, <2>2
<1> QED
  BY <1>4, <1>5, <1>6 DEF IsInjective, rest

Lists == stream_map \in [Tokens -> Seq(Streams)]
         /\ \A t \in Tokens : IsInjective(stream_map[t])

LEMMA AddStreamKeepsLists ==
    ASSUME Lists, NEW t \in Tokens, NEW s \in Streams, add_stream(t, s)
    PROVE  Lists'
BY Appending DEF Lists, add_stream

LEMMA RemoveStreamKeepsLists ==
    ASSUME Lists, NEW t \in Tokens, NEW s, remove_stream(t, s)
    PROVE  Lists'
<1> DEFINE k == binary_search(stream_map[t], s)
<1>1. k \in 1 .. Len(stream_map[t])
  BY DEF remove_stream, Removable
<1>2. stream_map' = [stream_map EXCEPT ![t] = RemoveAt(stream_map[t], k)]
  BY DEF remove_stream, Lists
<1> QED
  BY <1>1, <1>2, Removing DEF Lists

-----------------------------------------------------------------------------
(* Every step preserves every part of the invariant.                       *)

(* Types.  The lists of streams keep theirs by the lemmas above; the copy   *)
(* that RemoveStream shortens is not empty.                                 *)
LEMMA TypeStep ==
    ASSUME TypeOK, Carries, SameClient, StreamLeft, [Next]_vars
    PROVE  TypeOK'
<1>1. ASSUME NEW r \in Requests, NEW o \in StreamOps, NEW i \in Ids,
             NEW s \in Streams, Authorize(r, o, i, s)
      PROVE  TypeOK'
  BY <1>1
  DEF Authorize, Goto, room_vars, stream_vars, locks, copies, TypeOK, Stages,
      Over, Request
<1>2. ASSUME NEW r \in Requests, NEW i \in Ids, NEW t \in Tokens, Exit(r, i, t)
      PROVE  TypeOK'
  <2>1. asked' \in [Requests -> Request]
    BY <1>2 DEF Exit, TypeOK, Request
  <2>2. streams' \in [Requests -> Seq(Streams)]
    BY <1>2 DEF Exit, TypeOK
  <2> QED
    BY <1>2, <2>1, <2>2
    DEF Exit, Goto, room_vars, stream_vars, TypeOK, Stages, Over
<1>3. ASSUME NEW r \in Requests, NEW i \in Ids, DeleteUser(r, i)
      PROVE  TypeOK'
  <2>1. asked' \in [Requests -> Request]
    <3>1. ASSUME NEW t \in Tokens
          PROVE  [asked[r] EXCEPT !.id = i, !.token = t] \in Request
      <4>1. asked[r] \in Request
        BY DEF TypeOK
      <4> QED
        BY <4>1 DEF Request
    <3>2. CASE clients[i] # NoToken
      <4>1. asked' = [asked EXCEPT ![r] =
                          [asked[r] EXCEPT !.id = i, !.token = clients[i]]]
        BY <1>3, <3>2 DEF DeleteUser, TypeOK
      <4> QED
        BY <3>1, <3>2, <4>1 DEF TypeOK
    <3> QED
      BY <1>3, <3>2 DEF DeleteUser, TypeOK
  <2>2. streams' \in [Requests -> Seq(Streams)]
    BY <1>3 DEF DeleteUser, TypeOK
  <2> QED
    BY <1>3, <2>1, <2>2
    DEF DeleteUser, Goto, room_vars, stream_vars, locks, TypeOK, Stages, Over
<1>4. ASSUME NEW r \in Requests, LockForwarder(r)
      PROVE  TypeOK'
  BY <1>4
  DEF LockForwarder, Goto, room_vars, stream_vars, copies, op, TypeOK, Stages,
      Over, Request
<1>5. ASSUME NEW r \in Requests, LockRooms(r)
      PROVE  TypeOK'
  BY <1>5
  DEF LockRooms, Goto, room_vars, stream_vars, copies, op, TypeOK, Stages,
      Over, Request
<1>6. ASSUME NEW r \in Requests, TakeForwarder(r)
      PROVE  TypeOK'
  BY <1>6
  DEF TakeForwarder, Goto, room_vars, stream_vars, copies, op, TypeOK, Stages,
      Over, Request
<1>7. ASSUME NEW r \in Requests, Create(r)
      PROVE  TypeOK'
  BY <1>7
  DEF Create, Ends, Released, Goto, room_vars, stream_vars, locks, copies, op,
      stream, TypeOK, Stages, Over, Request
<1>8. ASSUME NEW r \in Requests, AddStream(r)
      PROVE  TypeOK'
  <2>1. CASE add_stream(token(r), stream(r))
    <3>1. Lists'
      BY <1>8, <2>1, AddStreamKeepsLists
      DEF AddStream, TypeOK, Lists, Carries, Serving
    <3> QED
      BY <1>8, <2>1, <3>1
      DEF AddStream, Ends, Released, Goto, room_vars, stream_vars, copies, op,
          token, stream, TypeOK, Stages, Over, Lists
  <2>2. CASE UNCHANGED stream_map
    BY <1>8, <2>2
      DEF AddStream, Ends, Released, Goto, room_vars, stream_vars, copies, op,
          token, stream, TypeOK, Stages, Over, Lists
  <2> QED
    BY <1>8, <2>1, <2>2 DEF AddStream
<1>9. ASSUME NEW r \in Requests, Destroy(r)
      PROVE  TypeOK'
  BY <1>9
  DEF Destroy, Ends, Released, Goto, room_vars, stream_vars, locks,
      copies, op, stream, TypeOK, Stages, Over, Request
<1>10. ASSUME NEW r \in Requests, Unlist(r)
      PROVE  TypeOK'
  <2>1. CASE remove_stream(token(r), stream(r))
    <3>1. Lists'
      BY <1>10, <2>1, RemoveStreamKeepsLists
      DEF Unlist, TypeOK, Lists, Carries, Serving
    <3> QED
      BY <1>10, <2>1, <3>1
      DEF Unlist, Ends, Released, Goto, room_vars, stream_vars, copies, token,
          stream, TypeOK, Stages, Over, Lists
  <2>2. CASE UNCHANGED stream_map
    BY <1>10, <2>2
      DEF Unlist, Ends, Released, Goto, room_vars, stream_vars, copies, token,
          stream, TypeOK, Stages, Over, Lists
  <2> QED
    BY <1>10, <2>1, <2>2 DEF Unlist
<1>11. ASSUME NEW r \in Requests, Infos(r)
      PROVE  TypeOK'
  BY <1>11
  DEF Infos, Ends, Released, Goto, room_vars, stream_vars, copies, op, TypeOK,
      Stages, Over, Request
<1>12. ASSUME NEW r \in Requests, Publish(r)
      PROVE  TypeOK'
  <2>1. /\ status' \in [Streams -> {"absent", "idle", "dialing", "live"}]
        /\ abandoned' = abandoned /\ reaping' = reaping
        /\ \A s \in abandoned : status'[s] # "absent"
    BY <1>12 DEF Publish, stream_vars, TypeOK
  <2>2. pc' \in [Requests -> Stages]
    BY <1>12 DEF Publish, Ends, Goto, TypeOK, Stages, Over
  <2> QED
    BY <1>12, <2>1, <2>2
    DEF Publish, Ends, Released, room_vars, copies, TypeOK
<1>13. ASSUME NEW r \in Requests, VirtualPublish(r)
      PROVE  TypeOK'
  BY <1>13
  DEF VirtualPublish, Ends, Released, Goto, room_vars, stream_vars, locks,
      copies, op, stream, TypeOK, Stages, Over, Request
<1>14. ASSUME NEW r \in Requests, PublishDummy(r)
      PROVE  TypeOK'
  BY <1>14
  DEF PublishDummy, Ends, Released, Goto, room_vars, stream_vars, copies,
      stream, TypeOK, Stages, Over, Request
<1>15. ASSUME NEW r \in Requests, Spin(r)
      PROVE  TypeOK'
  BY <1>15
  DEF Spin, Ends, Released, Goto, room_vars, stream_vars, locks, copies,
      stream, TypeOK, Stages, Over, Request
<1>16. ASSUME NEW r \in Requests, Subscribe(r)
      PROVE  TypeOK'
  BY <1>16
  DEF Subscribe, Ends, Released, Goto, room_vars, stream_vars, copies, stream,
      TypeOK, Stages, Over, Request
<1>17. ASSUME NEW r \in Requests, Delete(r)
      PROVE  TypeOK'
  BY <1>17 DEF Delete, Goto, room_vars, stream_vars, Nothing, TypeOK, Stages,
               Over, Request
<1>18. ASSUME NEW r \in Requests, DeleteStream(r)
      PROVE  TypeOK'
  BY <1>18
  DEF DeleteStream, Removed, Ends, Released, Goto, room_vars, stream_vars,
      locks, copies, TypeOK, Stages, Over, Request
<1>19. ASSUME NEW r \in Requests, RemoveStream(r)
      PROVE  TypeOK'
  <2>1. Tail(streams[r]) \in Seq(Streams)
    BY <1>19, HeadTailProperties DEF RemoveStream, StreamLeft, TypeOK
  <2>2. Lists'
    <3>1. CASE remove_stream(token(r), Head(streams[r]))
      BY <1>19, <3>1, RemoveStreamKeepsLists
      DEF RemoveStream, TypeOK, Lists, SameClient
    <3>2. CASE UNCHANGED stream_map
      BY <3>2 DEF TypeOK, Lists
    <3> QED
      BY <1>19, <3>1, <3>2 DEF RemoveStream
  <2>3. streams' \in [Requests -> Seq(Streams)] /\ pc' \in [Requests -> Stages]
    BY <1>19, <2>1 DEF RemoveStream, Ends, Goto, TypeOK, Stages, Over
  <2> QED
    BY <1>19, <2>2, <2>3
    DEF RemoveStream, Ends, Released, room_vars, stream_vars, locks, TypeOK,
        Lists
<1>20. ASSUME NEW r \in Requests, RemoveClient(r)
      PROVE  TypeOK'
  BY <1>20
  DEF RemoveClient, stream_vars, Ends, Released, Goto, locks, copies, op, id,
      TypeOK, Stages, Over, Request
<1>21. ASSUME NEW r \in Requests, RemoveRoom(r)
      PROVE  TypeOK'
  BY <1>21
  DEF RemoveRoom, stream_vars, Ends, Released, Goto, copies, TypeOK, Stages,
      Over, Request
<1>22. ASSUME NEW r \in Requests, Disconnect(r)
      PROVE  TypeOK'
  BY <1>22
  DEF Disconnect, Ends, Released, Goto, room_vars, stream_vars, copies, op,
      TypeOK, Stages, Over, Request
<1>23. ASSUME CreateRoom
      PROVE  TypeOK'
  BY <1>23
  DEF CreateRoom, stream_vars, locks, copies, RoomsFree, TypeOK, Stages, Over,
      Request
<1>24. ASSUME NEW i \in Ids, NEW t \in Tokens, Enters(i, t)
      PROVE  TypeOK'
  BY <1>24 DEF Enters, stream_vars, locks, copies, RoomsFree, TypeOK, Stages,
               Over, Request
<1>25. ASSUME NEW s \in Streams,
             Settle(s) \/ Leave(s) \/ Reap(s) \/ ReapReturned(s)
      PROVE  TypeOK'
  BY <1>25
  DEF Settle, Leave, Reap, ReapReturned, Takes, IsLeft, room_vars,
      stream_vars, locks, copies, TypeOK, Stages, Over, Request
<1>26. ASSUME UNCHANGED vars
      PROVE  TypeOK'
  BY <1>26 DEF vars, room_vars, stream_vars, locks, copies, TypeOK, Stages,
               Over, Request
<1>27. ASSUME NEW r \in Requests, StreamDestroyed(r)
      PROVE  TypeOK'
  BY <1>27
  DEF StreamDestroyed, Removed, Goto, room_vars, locks, copies, stream, TypeOK,
      Stages, Over, Request
<1>28. ASSUME NEW r \in Requests, StreamDeleted(r)
      PROVE  TypeOK'
  BY <1>28
  DEF StreamDeleted, Removed, Goto, room_vars, copies, TypeOK, Stages, Over,
      Request
<1>29. ASSUME Reaped
      PROVE  TypeOK'
  BY <1>29
  DEF Reaped, Removed, room_vars, locks, copies, TypeOK, Stages, Over, Request
<1> QED
  BY <1>27, <1>28, <1>29, <1>1, <1>2, <1>3, <1>4, <1>5, <1>6, <1>7, <1>8, <1>9, <1>10, <1>11,
      <1>12, <1>13, <1>14, <1>15, <1>16, <1>17, <1>18, <1>19, <1>20, <1>21,
      <1>22, <1>23, <1>24, <1>25, <1>26
  DEF Next, RequestNext, RoomNext, StreamNext, Join, JoinAsHost, Finished

(* Requests about streams carry one, and the token of a client.              *)
LEMMA CarriesStep ==
    ASSUME TypeOK, Carries, [Next]_vars
    PROVE  Carries'
<1>1. ASSUME NEW r \in Requests, NEW o \in StreamOps, NEW i \in Ids,
             NEW s \in Streams, Authorize(r, o, i, s)
      PROVE  Carries'
  BY <1>1
  DEF Authorize, Goto, room_vars, stream_vars, locks, copies, Carries,
      Serving, TypeOK, Over, token, stream
<1>2. ASSUME NEW r \in Requests, NEW i \in Ids, NEW t \in Tokens, Exit(r, i, t)
      PROVE  Carries'
  BY <1>2
  DEF Exit, Goto, room_vars, stream_vars, Carries, Serving, TypeOK, Over,
      token, stream
<1>3. ASSUME NEW r \in Requests, NEW i \in Ids, DeleteUser(r, i)
      PROVE  Carries'
  BY <1>3
  DEF DeleteUser, Goto, room_vars, stream_vars, locks, Carries, Serving,
      TypeOK, Over, token, stream
<1>4. ASSUME NEW r \in Requests, LockForwarder(r)
      PROVE  Carries'
  BY <1>4
  DEF LockForwarder, Goto, room_vars, stream_vars, copies, op, Carries,
      Serving, TypeOK, Over, token, stream
<1>5. ASSUME NEW r \in Requests, LockRooms(r)
      PROVE  Carries'
  BY <1>5
  DEF LockRooms, WaitsForRooms, Goto, Carries, Serving, TypeOK, token, stream
<1>6. ASSUME NEW r \in Requests, TakeForwarder(r)
      PROVE  Carries'
  BY <1>6
  DEF TakeForwarder, Goto, room_vars, stream_vars, copies, op, Carries,
      Serving, TypeOK, Over, token, stream
<1>7. ASSUME NEW r \in Requests, Create(r)
      PROVE  Carries'
  BY <1>7
  DEF Create, Ends, Released, Goto, room_vars, stream_vars, locks, copies, op,
      stream, Carries, Serving, TypeOK, Over, token
<1>8. ASSUME NEW r \in Requests, AddStream(r)
      PROVE  Carries'
  BY <1>8
  DEF AddStream, Ends, Released, Goto, room_vars, stream_vars, copies, op,
      token, stream, Carries, Serving, TypeOK, Over
<1>9. ASSUME NEW r \in Requests, Destroy(r)
      PROVE  Carries'
  BY <1>9
  DEF Destroy, Removed, Ends, Released, Goto, room_vars, stream_vars, locks,
      copies, op, stream, Carries, Serving, TypeOK, Over, token
<1>10. ASSUME NEW r \in Requests, Unlist(r)
      PROVE  Carries'
  BY <1>10
  DEF Unlist, Ends, Released, Goto, room_vars, stream_vars, copies, token,
      stream, Carries, Serving, TypeOK, Over
<1>11. ASSUME NEW r \in Requests, Infos(r)
      PROVE  Carries'
  BY <1>11
  DEF Infos, Ends, Released, Goto, room_vars, stream_vars, copies, op,
      Carries, Serving, TypeOK, Over, token, stream
<1>12. ASSUME NEW r \in Requests, Publish(r)
      PROVE  Carries'
  BY <1>12
  DEF Publish, Ends, Released, Goto, room_vars, stream_vars, copies, op,
      stream, Carries, Serving, TypeOK, Over, token
<1>13. ASSUME NEW r \in Requests, VirtualPublish(r)
      PROVE  Carries'
  BY <1>13
  DEF VirtualPublish, Ends, Released, Goto, room_vars, stream_vars, locks,
      copies, op, stream, Carries, Serving, TypeOK, Over, token
<1>14. ASSUME NEW r \in Requests, PublishDummy(r)
      PROVE  Carries'
  BY <1>14
  DEF PublishDummy, Ends, Released, Goto, room_vars, stream_vars, copies,
      stream, Carries, Serving, TypeOK, Over, token
<1>15. ASSUME NEW r \in Requests, Spin(r)
      PROVE  Carries'
  BY <1>15
  DEF Spin, Ends, Released, Goto, room_vars, stream_vars, locks, copies,
      stream, Carries, Serving, TypeOK, Over, token
<1>16. ASSUME NEW r \in Requests, Subscribe(r)
      PROVE  Carries'
  BY <1>16
  DEF Subscribe, Ends, Released, Goto, room_vars, stream_vars, copies, stream,
      Carries, Serving, TypeOK, Over, token
<1>17. ASSUME NEW r \in Requests, Delete(r)
      PROVE  Carries'
  BY <1>17
  DEF Delete, Goto, room_vars, stream_vars, Nothing, Carries, Serving, TypeOK,
      Over, token, stream
<1>18. ASSUME NEW r \in Requests, DeleteStream(r)
      PROVE  Carries'
  BY <1>18
  DEF DeleteStream, Removed, Ends, Released, Goto, room_vars, stream_vars,
      locks, copies, Carries, Serving, TypeOK, Over, token, stream
<1>19. ASSUME NEW r \in Requests, RemoveStream(r)
      PROVE  Carries'
  BY <1>19
  DEF RemoveStream, Ends, Released, Goto, room_vars, stream_vars, locks,
      token, Carries, Serving, TypeOK, Over, stream
<1>20. ASSUME NEW r \in Requests, RemoveClient(r)
      PROVE  Carries'
  BY <1>20
  DEF RemoveClient, stream_vars, Ends, Released, Goto, locks, copies, op, id,
      Carries, Serving, TypeOK, Over, token, stream
<1>21. ASSUME NEW r \in Requests, RemoveRoom(r)
      PROVE  Carries'
  BY <1>21
  DEF RemoveRoom, stream_vars, Ends, Released, Goto, copies, Carries, Serving,
      TypeOK, Over, token, stream
<1>22. ASSUME NEW r \in Requests, Disconnect(r)
      PROVE  Carries'
  BY <1>22
  DEF Disconnect, Ends, Released, Goto, room_vars, stream_vars, copies, op,
      Carries, Serving, TypeOK, Over, token, stream
<1>23. ASSUME CreateRoom
      PROVE  Carries'
  BY <1>23
  DEF CreateRoom, stream_vars, locks, copies, RoomsFree, Carries, Serving,
      TypeOK, Over, token, stream
<1>24. ASSUME NEW i \in Ids, NEW t \in Tokens, Enters(i, t)
      PROVE  Carries'
  BY <1>24
  DEF Enters, stream_vars, locks, copies, RoomsFree, Carries, Serving, TypeOK,
      Over, token, stream
<1>25. ASSUME NEW s \in Streams,
             Settle(s) \/ Leave(s) \/ Reap(s) \/ ReapReturned(s)
      PROVE  Carries'
  BY <1>25
  DEF Settle, Leave, Reap, ReapReturned, Takes, IsLeft, room_vars,
      stream_vars, locks, copies, Carries, Serving, TypeOK, Over, token,
      stream
<1>26. ASSUME UNCHANGED vars
      PROVE  Carries'
  BY <1>26
  DEF vars, room_vars, stream_vars, locks, copies, Carries, Serving, TypeOK,
      Over, token, stream
<1>27. ASSUME NEW r \in Requests, StreamDestroyed(r)
      PROVE  Carries'
  BY <1>27
  DEF StreamDestroyed, Goto, Carries, Serving, TypeOK, token, stream
<1>28. ASSUME NEW r \in Requests, StreamDeleted(r)
      PROVE  Carries'
  BY <1>28
  DEF StreamDeleted, Goto, Carries, Serving, TypeOK, token, stream
<1>29. ASSUME Reaped
      PROVE  Carries'
  BY <1>29 DEF Reaped, Carries, Serving, token, stream
<1> QED
  BY <1>27, <1>28, <1>29, <1>1, <1>2, <1>3, <1>4, <1>5, <1>6, <1>7, <1>8, <1>9, <1>10, <1>11,
      <1>12, <1>13, <1>14, <1>15, <1>16, <1>17, <1>18, <1>19, <1>20, <1>21,
      <1>22, <1>23, <1>24, <1>25, <1>26
  DEF Next, RequestNext, RoomNext, StreamNext, Join, JoinAsHost, Finished

(* A request that drops what it holds may go to any stage without locks ... *)
LEMMA EndsKeepsExclusion ==
    ASSUME TypeOK, Exclusion, NEW r \in Requests,
           NEW stage \in Over \cup {"adding", "prepared"}, Ends(r, stage)
    PROVE  Exclusion'
<1>1. /\ pc'[r] = stage /\ stage \notin HoldsRooms /\ stage \notin HoldsForwarder
      /\ \A q \in Requests \ {r} : pc'[q] = pc[q]
  BY DEF Ends, Goto, TypeOK, Over, HoldsRooms, HoldsForwarder
<1>2. /\ rooms_lock' # r /\ forwarder_lock' # r
      /\ \A q \in Requests \ {r} : /\ rooms_lock' = q <=> rooms_lock = q
                                   /\ forwarder_lock' = q <=> forwarder_lock = q
  BY NamesAreDistinct DEF Ends, Released
<1> QED
  BY <1>1, <1>2 DEF Exclusion

(* ... and one that keeps its locks to stages with the same ones.           *)
LEMMA KeptKeepsExclusion ==
    ASSUME TypeOK, Exclusion, NEW r \in Requests, UNCHANGED locks,
           NEW stage, Goto(r, stage),
           stage \in HoldsRooms <=> pc[r] \in HoldsRooms,
           \/ stage \in HoldsForwarder <=> pc[r] \in HoldsForwarder
           \/ stage = "adding",
           stage # "adding" => pc[r] # "adding"
    PROVE  Exclusion'
<1>1. pc'[r] = stage /\ \A q \in Requests \ {r} : pc'[q] = pc[q]
  BY DEF Goto, TypeOK
<1>2. rooms_lock' = rooms_lock /\ forwarder_lock' = forwarder_lock
  BY DEF locks
<1>3. "adding" \notin HoldsForwarder
  BY DEF HoldsForwarder
<1> QED
  BY <1>1, <1>2, <1>3 DEF Exclusion

(* A lock that is taken was free: ROOMS is taken first ...                  *)
LEMMA TakesRooms ==
    ASSUME TypeOK, Exclusion, NEW r \in Requests,
           rooms_lock = NoOne, rooms_lock' = r, UNCHANGED forwarder_lock,
           pc[r] \notin HoldsForwarder, pc[r] # "adding",
           NEW stage \in HoldsRooms \ HoldsForwarder, Goto(r, stage)
    PROVE  Exclusion'
<1>1. pc'[r] = stage /\ \A q \in Requests \ {r} : pc'[q] = pc[q]
  BY DEF Goto, TypeOK
<1>2. stage \notin HoldsForwarder
  OBVIOUS
<1>3. \A q \in Requests : pc[q] \notin HoldsRooms
  BY NamesAreDistinct DEF Exclusion
<1> QED
  BY <1>1, <1>2, <1>3 DEF Exclusion

(* ... and the forwarder alone, or in exchange for ROOMS.                   *)
LEMMA TakesForwarder ==
    ASSUME TypeOK, Exclusion, NEW r \in Requests,
           forwarder_lock = NoOne, forwarder_lock' = r,
           rooms_lock' = IF pc[r] \in HoldsRooms THEN NoOne ELSE rooms_lock,
           NEW stage \in HoldsForwarder \ HoldsRooms, Goto(r, stage)
    PROVE  Exclusion'
<1>1. pc'[r] = stage /\ \A q \in Requests \ {r} : pc'[q] = pc[q]
  BY DEF Goto, TypeOK
<1>2. stage \notin HoldsRooms
  OBVIOUS
<1>3. \A q \in Requests : pc[q] \notin HoldsForwarder
  BY NamesAreDistinct DEF Exclusion
<1>4. /\ rooms_lock' # r
      /\ \A q \in Requests \ {r} : rooms_lock' = q <=> rooms_lock = q
  BY NamesAreDistinct DEF Exclusion
<1> QED
  BY <1>1, <1>2, <1>3, <1>4 DEF Exclusion

(* The forwarder is taken by a user_delete that goes on holding ROOMS ...   *)
LEMMA TakesBoth ==
    ASSUME TypeOK, Exclusion, NEW r \in Requests,
           forwarder_lock = NoOne, forwarder_lock' = r, UNCHANGED rooms_lock,
           pc[r] \in HoldsRooms,
           NEW stage \in HoldsRooms \cap HoldsForwarder, Goto(r, stage)
    PROVE  Exclusion'
<1>1. pc'[r] = stage /\ \A q \in Requests \ {r} : pc'[q] = pc[q]
  BY DEF Goto, TypeOK
<1>2. \A q \in Requests : pc[q] \notin HoldsForwarder
  BY NamesAreDistinct DEF Exclusion
<1> QED
  BY <1>1, <1>2 DEF Exclusion

(* ... and given back by it.                                                *)
LEMMA GivesForwarder ==
    ASSUME TypeOK, Exclusion, NEW r \in Requests,
           pc[r] \in HoldsRooms \cap HoldsForwarder,
           forwarder_lock' = NoOne, UNCHANGED rooms_lock,
           NEW stage \in HoldsRooms \ HoldsForwarder, Goto(r, stage)
    PROVE  Exclusion'
<1>1. pc'[r] = stage /\ \A q \in Requests \ {r} : pc'[q] = pc[q]
  BY DEF Goto, TypeOK
<1>2. forwarder_lock = r
  BY DEF Exclusion
<1>3. \A q \in Requests \ {r} : pc[q] \notin HoldsForwarder
  BY <1>2 DEF Exclusion
<1> QED
  BY <1>1, <1>2, <1>3, NamesAreDistinct DEF Exclusion

(* Every step keeps each lock and its stages together.                      *)
LEMMA ExclusionStep ==
    ASSUME TypeOK, Exclusion, [Next]_vars
    PROVE  Exclusion'
<1>1. ASSUME NEW r \in Requests, NEW o \in StreamOps, NEW i \in Ids,
             NEW s \in Streams, Authorize(r, o, i, s)
      PROVE  Exclusion'
  BY <1>1, KeptKeepsExclusion DEF Authorize, HoldsRooms, HoldsForwarder
<1>2. ASSUME NEW r \in Requests, NEW i \in Ids, NEW t \in Tokens, Exit(r, i, t)
      PROVE  Exclusion'
  <2>1. pc[r] = "idle" /\ rooms_lock = NoOne /\ forwarder_lock' = forwarder_lock
    BY <1>2 DEF Exit, RoomsFree
  <2>2. CASE rooms_lock' = r /\ Goto(r, "exiting")
    BY <2>1, <2>2, TakesRooms DEF HoldsRooms, HoldsForwarder
  <2>3. CASE UNCHANGED rooms_lock /\ Goto(r, "rejected")
    BY <2>1, <2>3, KeptKeepsExclusion DEF locks, HoldsRooms, HoldsForwarder
  <2> QED
    BY <1>2, <2>2, <2>3 DEF Exit
<1>3. ASSUME NEW r \in Requests, NEW i \in Ids, DeleteUser(r, i)
      PROVE  Exclusion'
  <2>1. pc[r] = "deleting" /\ UNCHANGED locks
    BY <1>3 DEF DeleteUser, locks
  <2>2. CASE Goto(r, "exiting")
    BY <2>1, <2>2, KeptKeepsExclusion DEF HoldsRooms, HoldsForwarder
  <2>3. CASE UNCHANGED pc
    BY <2>1, <2>3 DEF locks, Exclusion
  <2> QED
    BY <1>3, <2>2, <2>3 DEF DeleteUser
<1>4. ASSUME NEW r \in Requests, LockForwarder(r)
      PROVE  Exclusion'
  <2>1. /\ pc[r] = "authorized"
        /\ forwarder_lock = NoOne
        /\ forwarder_lock' = r /\ rooms_lock' = rooms_lock
        /\ Goto(r, "locked")
    BY <1>4 DEF LockForwarder, ForwarderFree
  <2> QED
    BY <2>1, TakesForwarder DEF HoldsRooms, HoldsForwarder
<1>5. ASSUME NEW r \in Requests, LockRooms(r)
      PROVE  Exclusion'
  <2>1. /\ pc[r] \in {"authorized", "prepared"}
        /\ rooms_lock = NoOne
        /\ forwarder_lock' = forwarder_lock
    BY <1>5 DEF LockRooms, WaitsForRooms, RoomsFree
  <2>2. CASE rooms_lock' = r /\ Goto(r, "waiting")
    BY <2>1, <2>2, TakesRooms DEF HoldsRooms, HoldsForwarder
  <2>3. CASE UNCHANGED rooms_lock /\ Goto(r, "panicked")
    BY <2>1, <2>3, KeptKeepsExclusion DEF locks, HoldsRooms, HoldsForwarder
  <2> QED
    BY <1>5, <2>2, <2>3 DEF LockRooms
<1>6. ASSUME NEW r \in Requests, TakeForwarder(r)
      PROVE  Exclusion'
  <2>1. /\ pc[r] = "waiting"
        /\ forwarder_lock = NoOne
        /\ forwarder_lock' = r /\ rooms_lock' = NoOne
    BY <1>6 DEF TakeForwarder, ForwarderFree
  <2>2. PICK stage \in {"locked", "spinning"} : Goto(r, stage)
    BY <1>6 DEF TakeForwarder
  <2> QED
    BY <2>1, <2>2, TakesForwarder DEF HoldsRooms, HoldsForwarder
<1>7. ASSUME NEW r \in Requests, Create(r)
      PROVE  Exclusion'
  <2>1. CASE UNCHANGED locks /\ Goto(r, "adding")
    BY <1>7, <2>1, KeptKeepsExclusion DEF Create, HoldsRooms, HoldsForwarder
  <2>2. CASE Ends(r, "succeeded")
    BY <2>2, EndsKeepsExclusion DEF Over
  <2> QED
    BY <1>7, <2>1, <2>2 DEF Create
<1>8. ASSUME NEW r \in Requests, AddStream(r)
      PROVE  Exclusion'
  <2>1. PICK how \in {"succeeded", "failed"} : Ends(r, how)
    BY <1>8 DEF AddStream
  <2> QED
    BY <2>1, EndsKeepsExclusion DEF Over
<1>9. ASSUME NEW r \in Requests, Destroy(r)
      PROVE  Exclusion'
  <2>1. CASE UNCHANGED locks /\ Goto(r, "destroying")
    BY <1>9, <2>1, KeptKeepsExclusion DEF Destroy, HoldsRooms, HoldsForwarder
  <2>2. CASE Ends(r, "succeeded")
    BY <2>2, EndsKeepsExclusion DEF Over
  <2> QED
    BY <1>9, <2>1, <2>2 DEF Destroy
<1>10. ASSUME NEW r \in Requests, Unlist(r)
      PROVE  Exclusion'
  <2>1. PICK how \in {"succeeded", "failed"} : Ends(r, how)
    BY <1>10 DEF Unlist
  <2> QED
    BY <2>1, EndsKeepsExclusion DEF Over
<1>11. ASSUME NEW r \in Requests, Infos(r)
      PROVE  Exclusion'
  BY <1>11, EndsKeepsExclusion DEF Infos, Over
<1>12. ASSUME NEW r \in Requests, Publish(r)
      PROVE  Exclusion'
  <2>1. PICK stage \in {"adding", "panicked"} : Ends(r, stage)
    BY <1>12 DEF Publish, Ends
  <2> QED
    BY <2>1, EndsKeepsExclusion DEF Over
<1>13. ASSUME NEW r \in Requests, VirtualPublish(r)
      PROVE  Exclusion'
  <2>1. CASE UNCHANGED locks /\ Goto(r, "dummy")
    BY <1>13, <2>1, KeptKeepsExclusion
    DEF VirtualPublish, HoldsRooms, HoldsForwarder
  <2>2. ASSUME NEW how \in {"prepared", "failed"}, Ends(r, how)
        PROVE  Exclusion'
    BY <2>2, EndsKeepsExclusion DEF Over
  <2> QED
    BY <1>13, <2>1, <2>2 DEF VirtualPublish
<1>14. ASSUME NEW r \in Requests, PublishDummy(r)
      PROVE  Exclusion'
  <2>1. PICK how \in {"prepared", "failed"} : Ends(r, how)
    BY <1>14 DEF PublishDummy
  <2> QED
    BY <2>1, EndsKeepsExclusion DEF Over
<1>15. ASSUME NEW r \in Requests, Spin(r)
      PROVE  Exclusion'
  <2>1. CASE Goto(r, "subscribing") /\ UNCHANGED locks
    BY <1>15, <2>1, KeptKeepsExclusion DEF Spin, HoldsRooms, HoldsForwarder
  <2>2. CASE Ends(r, "panicked")
    BY <2>2, EndsKeepsExclusion DEF Over
  <2>3. CASE UNCHANGED <<pc, locks>>
    BY <2>3 DEF locks, Exclusion
  <2> QED
    BY <1>15, <2>1, <2>2, <2>3 DEF Spin
<1>16. ASSUME NEW r \in Requests, Subscribe(r)
      PROVE  Exclusion'
  <2>1. PICK how \in {"succeeded", "panicked"} : Ends(r, how)
    BY <1>16 DEF Subscribe
  <2> QED
    BY <2>1, EndsKeepsExclusion DEF Over
<1>17. ASSUME NEW r \in Requests, Delete(r)
      PROVE  Exclusion'
  <2>1. /\ pc[r] = "idle"
        /\ rooms_lock = NoOne
        /\ rooms_lock' = r /\ forwarder_lock' = forwarder_lock
        /\ Goto(r, "deleting")
    BY <1>17 DEF Delete, RoomsFree
  <2> QED
    BY <2>1, TakesRooms DEF HoldsRooms, HoldsForwarder
<1>18. ASSUME NEW r \in Requests, DeleteStream(r)
      PROVE  Exclusion'
  <2>1. pc[r] = "exiting" /\ forwarder_lock = NoOne
    BY <1>18 DEF DeleteStream, ForwarderFree
  <2>2. CASE forwarder_lock' = r /\ Goto(r, "closing") /\ UNCHANGED rooms_lock
    BY <2>1, <2>2, TakesBoth DEF HoldsRooms, HoldsForwarder
  <2>3. CASE Ends(r, "failed")
    BY <2>3, EndsKeepsExclusion DEF Over
  <2> QED
    BY <1>18, <2>2, <2>3 DEF DeleteStream
<1>19. ASSUME NEW r \in Requests, RemoveStream(r)
      PROVE  Exclusion'
  <2>1. CASE Goto(r, "exiting") /\ UNCHANGED locks
    BY <1>19, <2>1, KeptKeepsExclusion
    DEF RemoveStream, HoldsRooms, HoldsForwarder
  <2>2. CASE Ends(r, "failed")
    BY <2>2, EndsKeepsExclusion DEF Over
  <2> QED
    BY <1>19, <2>1, <2>2 DEF RemoveStream
<1>20. ASSUME NEW r \in Requests, RemoveClient(r)
      PROVE  Exclusion'
  <2>1. CASE Goto(r, "deleting") /\ UNCHANGED locks
    BY <1>20, <2>1, KeptKeepsExclusion
    DEF RemoveClient, HoldsRooms, HoldsForwarder
  <2>2. CASE Ends(r, "succeeded")
    BY <2>2, EndsKeepsExclusion DEF Over
  <2> QED
    BY <1>20, <2>1, <2>2 DEF RemoveClient
<1>21. ASSUME NEW r \in Requests, RemoveRoom(r)
      PROVE  Exclusion'
  BY <1>21, EndsKeepsExclusion DEF RemoveRoom, Over
<1>22. ASSUME NEW r \in Requests, Disconnect(r)
      PROVE  Exclusion'
  BY <1>22, EndsKeepsExclusion DEF Disconnect, Over
<1>23. ASSUME UNCHANGED <<pc, locks>>
      PROVE  Exclusion'
  BY <1>23 DEF locks, Exclusion
<1>24. ASSUME NEW i \in Ids, NEW t \in Tokens, Enters(i, t)
      PROVE  UNCHANGED <<pc, locks>>
  BY <1>24 DEF Enters
<1>25. ASSUME CreateRoom \/ StreamNext \/ UNCHANGED vars
      PROVE  UNCHANGED <<pc, locks>>
  BY <1>25 DEF CreateRoom, StreamNext, Settle, Leave, Reap, ReapReturned, Takes,
               Reaped, vars
<1>26. ASSUME NEW r \in Requests, StreamDestroyed(r)
      PROVE  Exclusion'
  <2>1. pc[r] = "destroying" /\ Goto(r, "unlisting") /\ UNCHANGED locks
    BY <1>26 DEF StreamDestroyed, locks
  <2> QED
    BY <2>1, KeptKeepsExclusion DEF HoldsRooms, HoldsForwarder
<1>27. ASSUME NEW r \in Requests, StreamDeleted(r)
      PROVE  Exclusion'
  <2>1. /\ pc[r] = "closing" /\ Goto(r, "removing")
        /\ forwarder_lock' = NoOne /\ UNCHANGED rooms_lock
    BY <1>27 DEF StreamDeleted
  <2> QED
    BY <2>1, GivesForwarder DEF HoldsRooms, HoldsForwarder
<1> QED
  BY <1>26, <1>27, <1>1, <1>2, <1>3, <1>4, <1>5, <1>6, <1>7, <1>8, <1>9, <1>10, <1>11,
      <1>12, <1>13, <1>14, <1>15, <1>16, <1>17, <1>18, <1>19, <1>20, <1>21,
      <1>22, <1>23, <1>24, <1>25
  DEF Next, RequestNext, RoomNext, Join, JoinAsHost, Finished

(* What requests about streams do to the room and to those that delete      *)
(* clients: nothing.                                                        *)
Serves(r) ==
    \/ \E o \in StreamOps, i \in Ids, s \in Streams : Authorize(r, o, i, s)
    \/ LockForwarder(r)
    \/ LockRooms(r)
    \/ TakeForwarder(r)
    \/ Create(r)
    \/ AddStream(r)
    \/ Destroy(r)
    \/ StreamDestroyed(r)
    \/ Unlist(r)
    \/ Infos(r)
    \/ Publish(r)
    \/ VirtualPublish(r)
    \/ PublishDummy(r)
    \/ Spin(r)
    \/ Subscribe(r)
    \/ Disconnect(r)

LEMMA ServingKeeps ==
    ASSUME TypeOK, NEW r \in Requests, Serves(r)
    PROVE  /\ UNCHANGED <<room, clients, issued, streams, user_ids>>
           /\ \A q \in Requests : pc'[q] \in Deleting =>
                 pc'[q] = pc[q] /\ asked'[q] = asked[q]
<1>1. CASE \E o \in StreamOps, i \in Ids, s \in Streams : Authorize(r, o, i, s)
  BY <1>1
  DEF Authorize, Goto, room_vars, stream_vars, copies, TypeOK, Deleting, Over
<1>2. CASE LockForwarder(r)
  BY <1>2
  DEF LockForwarder, Goto, room_vars, stream_vars, copies, TypeOK, Deleting,
      Over
<1>3. CASE LockRooms(r)
  BY <1>3
  DEF LockRooms, Goto, room_vars, stream_vars, copies, TypeOK, Deleting, Over
<1>4. CASE TakeForwarder(r)
  BY <1>4
  DEF TakeForwarder, Goto, room_vars, stream_vars, copies, TypeOK, Deleting,
      Over
<1>5. CASE Create(r)
  BY <1>5
  DEF Create, Ends, Released, Goto, room_vars, stream_vars, copies, TypeOK,
      Deleting, Over
<1>6. CASE AddStream(r)
  BY <1>6
  DEF AddStream, Ends, Released, Goto, room_vars, stream_vars, copies, TypeOK,
      Deleting, Over
<1>7. CASE Destroy(r)
  BY <1>7
  DEF Destroy, Removed, Ends, Released, Goto, room_vars, stream_vars, copies,
      TypeOK, Deleting, Over
<1>8. CASE Unlist(r)
  BY <1>8
  DEF Unlist, Ends, Released, Goto, room_vars, stream_vars, copies, TypeOK,
      Deleting, Over
<1>9. CASE Infos(r)
  BY <1>9
  DEF Infos, Ends, Released, Goto, room_vars, stream_vars, copies, TypeOK,
      Deleting, Over
<1>10. CASE Publish(r)
  BY <1>10
  DEF Publish, Ends, Released, Goto, room_vars, stream_vars, copies, TypeOK,
      Deleting, Over
<1>11. CASE VirtualPublish(r)
  BY <1>11
  DEF VirtualPublish, Ends, Released, Goto, room_vars, stream_vars, copies,
      TypeOK, Deleting, Over
<1>12. CASE PublishDummy(r)
  BY <1>12
  DEF PublishDummy, Ends, Released, Goto, room_vars, stream_vars, copies,
      TypeOK, Deleting, Over
<1>13. CASE Spin(r)
  BY <1>13
  DEF Spin, Ends, Released, Goto, room_vars, stream_vars, copies, TypeOK,
      Deleting, Over
<1>14. CASE Subscribe(r)
  BY <1>14
  DEF Subscribe, Ends, Released, Goto, room_vars, stream_vars, copies, TypeOK,
      Deleting, Over
<1>15. CASE Disconnect(r)
  BY <1>15
  DEF Disconnect, Ends, Released, Goto, room_vars, stream_vars, copies,
      TypeOK, Deleting, Over
<1>16. CASE StreamDestroyed(r)
  BY <1>16
  DEF StreamDestroyed, Goto, room_vars, copies, TypeOK, Deleting
<1> QED
  BY <1>16, <1>1, <1>2, <1>3, <1>4, <1>5, <1>6, <1>7, <1>8, <1>9, <1>10, <1>11,
      <1>12, <1>13, <1>14, <1>15 DEF Serves

(* Nobody comes or goes while ROOMS is held, but the client being deleted.   *)
LEMMA SameClientStep ==
    ASSUME TypeOK, Exclusion, SameClient, [Next]_vars
    PROVE  SameClient'
<1>1. ASSUME NEW r \in Requests, Serves(r)
      PROVE  SameClient'
  BY <1>1, ServingKeeps
  DEF SameClient, Deleting, id, token
<1>2. ASSUME NEW r \in Requests, NEW i \in Ids, NEW t \in Tokens, Exit(r, i, t)
      PROVE  SameClient'
  BY <1>2, NamesAreDistinct
  DEF Exit, Goto, room_vars, stream_vars, SameClient, Exclusion, HoldsRooms,
      HoldsForwarder, RoomsFree, ForwarderFree, TypeOK, Over, id, token, op,
      check_token
<1>3. ASSUME NEW r \in Requests, NEW i \in Ids, DeleteUser(r, i)
      PROVE  SameClient'
  <2>1. CASE clients[i] = NoToken
    BY <1>3, <2>1
    DEF DeleteUser, room_vars, stream_vars, SameClient, id, token
  <2>2. CASE clients[i] # NoToken
    <3>1. /\ asked'[r].id = i /\ asked'[r].token = clients[i]
          /\ clients[i] \in Tokens
      BY <1>3, <2>2 DEF DeleteUser, TypeOK, Request
    <3>2. \A q \in Requests \ {r} : asked'[q] = asked[q] /\ pc'[q] = pc[q]
      BY <1>3, <2>2 DEF DeleteUser, Goto, TypeOK
    <3> QED
      BY <1>3, <3>1, <3>2 DEF DeleteUser, room_vars, stream_vars, SameClient,
                              id, token
  <2> QED
    BY <2>1, <2>2
<1>4. ASSUME NEW r \in Requests, Delete(r)
      PROVE  SameClient'
  BY <1>4, NamesAreDistinct
  DEF Delete, Goto, room_vars, stream_vars, Nothing, SameClient, Exclusion,
      HoldsRooms, HoldsForwarder, RoomsFree, ForwarderFree, TypeOK, Over, id,
      token, op, check_token
<1>5. ASSUME NEW r \in Requests, DeleteStream(r)
      PROVE  SameClient'
  BY <1>5, NamesAreDistinct
  DEF DeleteStream, Removed, Ends, Released, Goto, room_vars, stream_vars,
      locks, copies, SameClient, Exclusion, HoldsRooms, HoldsForwarder,
      RoomsFree, ForwarderFree, TypeOK, Over, id, token, op, check_token
<1>6. ASSUME NEW r \in Requests, RemoveStream(r)
      PROVE  SameClient'
  BY <1>6, NamesAreDistinct
  DEF RemoveStream, Ends, Released, Goto, room_vars, stream_vars, locks,
      token, SameClient, Exclusion, HoldsRooms, HoldsForwarder, RoomsFree,
      ForwarderFree, TypeOK, Over, id, op, check_token
<1>7. ASSUME NEW r \in Requests, RemoveClient(r)
      PROVE  SameClient'
  BY <1>7, NamesAreDistinct
  DEF RemoveClient, stream_vars, Ends, Released, Goto, locks, copies, op, id,
      SameClient, Exclusion, HoldsRooms, HoldsForwarder, RoomsFree,
      ForwarderFree, TypeOK, Over, token, check_token
<1>8. ASSUME NEW r \in Requests, RemoveRoom(r)
      PROVE  SameClient'
  BY <1>8, NamesAreDistinct
  DEF RemoveRoom, stream_vars, Ends, Released, Goto, copies, SameClient,
      Exclusion, HoldsRooms, HoldsForwarder, RoomsFree, ForwarderFree, TypeOK,
      Over, id, token, op, check_token
<1>9. ASSUME NEW i \in Ids, NEW t \in Tokens, Enters(i, t)
      PROVE  SameClient'
  BY <1>9, NamesAreDistinct
  DEF Enters, stream_vars, locks, copies, RoomsFree, ForwarderFree,
      SameClient, Exclusion, HoldsRooms, HoldsForwarder, TypeOK, Over, id,
      token, op, check_token
<1>10. ASSUME CreateRoom \/ StreamNext \/ UNCHANGED vars
      PROVE  SameClient'
  BY <1>10
  DEF CreateRoom, locks, copies, StreamNext, Settle, Leave, Reap,
      ReapReturned, Takes, Reaped, Removed, IsLeft, vars, room_vars, stream_vars, SameClient,
      Deleting, id, token
<1>11. ASSUME NEW r \in Requests, StreamDeleted(r)
      PROVE  SameClient'
  BY <1>11
  DEF StreamDeleted, Goto, room_vars, copies, TypeOK, SameClient, id, token
<1> QED
  BY <1>11, <1>1, <1>2, <1>3, <1>4, <1>5, <1>6, <1>7, <1>8, <1>9, <1>10
  DEF Next, RequestNext, RoomNext, Serves, Join, JoinAsHost, Finished

(* The copy of the streams is not empty where it is shortened.               *)
LEMMA StreamLeftStep ==
    ASSUME TypeOK, StreamLeft, [Next]_vars
    PROVE  StreamLeft'
<1>1. ASSUME NEW r \in Requests, Serves(r)
      PROVE  StreamLeft'
  BY <1>1, ServingKeeps
  DEF StreamLeft, Deleting
<1>2. ASSUME NEW r \in Requests, NEW i \in Ids, NEW t \in Tokens, Exit(r, i, t)
      PROVE  StreamLeft'
  BY <1>2
  DEF Exit, Goto, room_vars, stream_vars, StreamLeft, TypeOK, Over
<1>3. ASSUME NEW r \in Requests, NEW i \in Ids, DeleteUser(r, i)
      PROVE  StreamLeft'
  BY <1>3
  DEF DeleteUser, Goto, room_vars, stream_vars, locks, StreamLeft, TypeOK,
      Over
<1>4. ASSUME NEW r \in Requests, Delete(r)
      PROVE  StreamLeft'
  BY <1>4
  DEF Delete, Goto, room_vars, stream_vars, Nothing, StreamLeft, TypeOK, Over
<1>5. ASSUME NEW r \in Requests, DeleteStream(r)
      PROVE  StreamLeft'
  BY <1>5
  DEF DeleteStream, Removed, Ends, Released, Goto, room_vars, stream_vars,
      locks, copies, StreamLeft, TypeOK, Over
<1>6. ASSUME NEW r \in Requests, RemoveStream(r)
      PROVE  StreamLeft'
  BY <1>6
  DEF RemoveStream, Ends, Released, Goto, room_vars, stream_vars, locks,
      token, StreamLeft, TypeOK, Over
<1>7. ASSUME NEW r \in Requests, RemoveClient(r)
      PROVE  StreamLeft'
  BY <1>7
  DEF RemoveClient, stream_vars, Ends, Released, Goto, locks, copies, op, id,
      StreamLeft, TypeOK, Over
<1>8. ASSUME NEW r \in Requests, RemoveRoom(r)
      PROVE  StreamLeft'
  BY <1>8
  DEF RemoveRoom, stream_vars, Ends, Released, Goto, copies, StreamLeft,
      TypeOK, Over
<1>9. ASSUME NEW i \in Ids, NEW t \in Tokens, Enters(i, t)
      PROVE  StreamLeft'
  BY <1>9
  DEF Enters, stream_vars, locks, copies, RoomsFree, StreamLeft, TypeOK, Over
<1>10. ASSUME CreateRoom \/ StreamNext \/ UNCHANGED vars
      PROVE  StreamLeft'
  BY <1>10
  DEF CreateRoom, locks, copies, StreamNext, Settle, Leave, Reap,
      ReapReturned, Takes, Reaped, Removed, IsLeft, vars, room_vars, stream_vars, StreamLeft,
      Deleting
<1>11. ASSUME NEW r \in Requests, StreamDeleted(r)
      PROVE  StreamLeft'
  BY <1>11
  DEF StreamDeleted, Goto, room_vars, copies, TypeOK, StreamLeft
<1> QED
  BY <1>11, <1>1, <1>2, <1>3, <1>4, <1>5, <1>6, <1>7, <1>8, <1>9, <1>10
  DEF Next, RequestNext, RoomNext, Serves, Join, JoinAsHost, Finished

(* Whoever is in the room stays on the list of all_user_delete.              *)
LEMMA AllCopiedStep ==
    ASSUME TypeOK, Exclusion, SameClient, AllCopied, [Next]_vars
    PROVE  AllCopied'
<1>1. ASSUME NEW r \in Requests, Serves(r)
      PROVE  AllCopied'
  BY <1>1, ServingKeeps
  DEF AllCopied, Deleting, id, op
<1>2. ASSUME NEW r \in Requests, NEW i \in Ids, NEW t \in Tokens, Exit(r, i, t)
      PROVE  AllCopied'
  BY <1>2, NamesAreDistinct
  DEF Exit, Goto, room_vars, stream_vars, AllCopied, Deleting, Exclusion,
      HoldsRooms, HoldsForwarder, SameClient, RoomsFree, ForwarderFree,
      TypeOK, Over, id, op
<1>3. ASSUME NEW r \in Requests, NEW i \in Ids, DeleteUser(r, i)
      PROVE  AllCopied'
  <2>1. /\ op(r) = "delete"
        /\ \A j \in Ids : clients[j] # NoToken => j \in user_ids[r]
    BY <1>3 DEF DeleteUser, AllCopied, Deleting
  <2>2. /\ clients' = clients
        /\ user_ids'[r] = user_ids[r] \ {i}
        /\ \A q \in Requests \ {r} :
              asked'[q] = asked[q] /\ pc'[q] = pc[q] /\ user_ids'[q] = user_ids[q]
    BY <1>3 DEF DeleteUser, Goto, room_vars, stream_vars, TypeOK
  <2>3. CASE clients[i] = NoToken
    BY <1>3, <2>1, <2>2, <2>3
    DEF DeleteUser, AllCopied, Deleting, op, id
  <2>4. CASE clients[i] # NoToken
    <3>1. /\ asked'[r].id = i /\ asked'[r].op = asked[r].op
          /\ pc'[r] = "exiting"
      BY <1>3, <2>4 DEF DeleteUser, Goto, TypeOK, Request
    <3> QED
      BY <2>1, <2>2, <3>1 DEF AllCopied, Deleting, op, id
  <2> QED
    BY <2>3, <2>4
<1>4. ASSUME NEW r \in Requests, Delete(r)
      PROVE  AllCopied'
  BY <1>4, NamesAreDistinct
  DEF Delete, Goto, room_vars, stream_vars, Nothing, AllCopied, Deleting,
      Exclusion, HoldsRooms, HoldsForwarder, SameClient, RoomsFree,
      ForwarderFree, TypeOK, Over, id, op
<1>5. ASSUME NEW r \in Requests, DeleteStream(r)
      PROVE  AllCopied'
  <2>1. /\ pc[r] = "exiting"
        /\ \E stage \in {"closing", "failed"} : pc' = [pc EXCEPT ![r] = stage]
        /\ UNCHANGED <<clients, asked, user_ids>>
    BY <1>5 DEF DeleteStream, Ends, Goto, room_vars, copies
  <2> QED
    BY <2>1 DEF AllCopied, Deleting, TypeOK, id, op
<1>6. ASSUME NEW r \in Requests, RemoveStream(r)
      PROVE  AllCopied'
  BY <1>6, NamesAreDistinct
  DEF RemoveStream, Ends, Released, Goto, room_vars, stream_vars, locks,
      token, AllCopied, Deleting, Exclusion, HoldsRooms, HoldsForwarder,
      SameClient, RoomsFree, ForwarderFree, TypeOK, Over, id, op
<1>7. ASSUME NEW r \in Requests, RemoveClient(r)
      PROVE  AllCopied'
  <2>1. /\ pc[r] = "exiting"
        /\ clients' = [clients EXCEPT ![id(r)] = NoToken]
        /\ UNCHANGED <<asked, user_ids>>
        /\ \A q \in Requests \ {r} : pc'[q] = pc[q]
        /\ \/ pc'[r] = "deleting" /\ op(r) = "delete"
           \/ pc'[r] = "succeeded"
    BY <1>7 DEF RemoveClient, Ends, Goto, copies, TypeOK
  <2>2. \A j \in Ids : clients'[j] # NoToken => clients[j] # NoToken /\ j # id(r)
    BY <2>1 DEF TypeOK
  <2> QED
    BY <2>1, <2>2 DEF AllCopied, Deleting, op, id
<1>8. ASSUME NEW r \in Requests, RemoveRoom(r)
      PROVE  AllCopied'
  BY <1>8, NamesAreDistinct
  DEF RemoveRoom, stream_vars, Ends, Released, Goto, copies, AllCopied,
      Deleting, Exclusion, HoldsRooms, HoldsForwarder, SameClient, RoomsFree,
      ForwarderFree, TypeOK, Over, id, op
<1>9. ASSUME NEW i \in Ids, NEW t \in Tokens, Enters(i, t)
      PROVE  AllCopied'
  BY <1>9, NamesAreDistinct
  DEF Enters, stream_vars, locks, copies, RoomsFree, ForwarderFree, AllCopied,
      Deleting, Exclusion, HoldsRooms, HoldsForwarder, SameClient, TypeOK,
      Over, id, op
<1>10. ASSUME CreateRoom \/ StreamNext \/ UNCHANGED vars
      PROVE  AllCopied'
  BY <1>10
  DEF CreateRoom, locks, copies, StreamNext, Settle, Leave, Reap,
      ReapReturned, Takes, Reaped, Removed, IsLeft, vars, room_vars, stream_vars, AllCopied,
      Deleting, id, op
<1>11. ASSUME NEW r \in Requests, StreamDeleted(r)
      PROVE  AllCopied'
  BY <1>11
  DEF StreamDeleted, Goto, room_vars, copies, TypeOK, AllCopied, Deleting, id, op
<1> QED
  BY <1>11, <1>1, <1>2, <1>3, <1>4, <1>5, <1>6, <1>7, <1>8, <1>9, <1>10
  DEF Next, RequestNext, RoomNext, Serves, Join, JoinAsHost, Finished

(* Only these steps change the room or who is in it.                        *)
LEMMA RoomKept ==
    ASSUME TypeOK, [Next]_vars
    PROVE  \/ UNCHANGED <<room, clients>>
           \/ CreateRoom
           \/ \E i \in Ids, t \in Tokens : Enters(i, t)
           \/ \E r \in Requests : RemoveClient(r) \/ RemoveRoom(r)
<1>1. ASSUME NEW r \in Requests, RequestNext(r), ~RemoveClient(r), ~RemoveRoom(r)
      PROVE  UNCHANGED <<room, clients>>
  BY <1>1, ServingKeeps
  DEF RequestNext, Serves, Exit, Delete, DeleteUser, DeleteStream,
      StreamDeleted, RemoveStream, room_vars
<1>2. CASE StreamNext \/ Finished \/ UNCHANGED vars
  BY <1>2 DEF StreamNext, Settle, Leave, Reap, ReapReturned, Takes, Reaped, Removed, IsLeft,
              Finished, vars, room_vars, stream_vars
<1> QED
  BY <1>1, <1>2 DEF Next, RoomNext, JoinAsHost, Join

(* The room that is removed has nobody left on that list.                   *)
LEMMA DeletedRoomStep ==
    ASSUME TypeOK, AllCopied, DeletedRoomIsEmpty, [Next]_vars
    PROVE  DeletedRoomIsEmpty'
<1>1. CASE UNCHANGED <<room, clients>>
  BY <1>1 DEF DeletedRoomIsEmpty
<1>2. CASE CreateRoom \/ \E i \in Ids, t \in Tokens : Enters(i, t)
  BY <1>2 DEF CreateRoom, Enters, DeletedRoomIsEmpty
<1>3. ASSUME NEW r \in Requests, RemoveClient(r)
      PROVE  DeletedRoomIsEmpty'
  BY <1>3 DEF RemoveClient, DeletedRoomIsEmpty, TypeOK
<1>4. ASSUME NEW r \in Requests, RemoveRoom(r)
      PROVE  DeletedRoomIsEmpty'
  BY <1>4 DEF RemoveRoom, AllCopied, Deleting, DeletedRoomIsEmpty
<1> QED
  BY <1>1, <1>2, <1>3, <1>4, RoomKept

-----------------------------------------------------------------------------
(* The invariant, and what follows from it.                                *)

LEMMA InitIInv == Init => IInv
<1> SUFFICES ASSUME Init PROVE IInv
  OBVIOUS
<1>1. TypeOK
  BY EmptySeq
  DEF Init, TypeOK, Stages, Over, Request, Nothing, IsInjective
<1>2. Carries /\ Exclusion /\ SameClient /\ StreamLeft /\ AllCopied
  BY NamesAreDistinct
  DEF Init, Carries, Serving, Exclusion, HoldsRooms, HoldsForwarder,
      SameClient, StreamLeft, AllCopied, Deleting
<1>3. DeletedRoomIsEmpty
  BY DEF Init, DeletedRoomIsEmpty
<1> QED
  BY <1>1, <1>2, <1>3 DEF IInv

LEMMA NextIInv == IInv /\ [Next]_vars => IInv'
<1> SUFFICES ASSUME IInv, [Next]_vars PROVE IInv'
  OBVIOUS
<1>1. TypeOK' /\ Carries' /\ Exclusion'
  BY TypeStep, CarriesStep, ExclusionStep DEF IInv
<1>2. SameClient' /\ StreamLeft'
  BY SameClientStep, StreamLeftStep DEF IInv
<1>3. AllCopied' /\ DeletedRoomIsEmpty'
  BY AllCopiedStep, DeletedRoomStep DEF IInv
<1> QED
  BY <1>1, <1>2, <1>3 DEF IInv

LEMMA Inductive == Spec => []IInv
BY InitIInv, NextIInv, PTL DEF Spec

(* Every reachable state is well typed; in particular no client lists a     *)
(* stream twice, whatever its handlers are doing (Client::add_stream).      *)
THEOREM TypeCorrect == Spec => []TypeOK
<1>1. IInv => TypeOK
  BY DEF IInv
<1> QED
  BY <1>1, Inductive, PTL

(* A deleted room is empty: nobody is left holding a token for it           *)
(* (all_user_delete, room/delete.rs).                                       *)
THEOREM DeletedRoomsAreEmpty == Spec => []DeletedRoomIsEmpty
<1>1. IInv => DeletedRoomIsEmpty
  BY DEF IInv
<1> QED
  BY <1>1, Inductive, PTL

(* Nobody waits in a circle for ROOMS and a forwarder, and no request that  *)
(* is over, panicked or dropped ones included, has left one of them locked  *)
(* (route/rtc and route/room: ROOMS before the forwarder, everywhere).      *)
THEOREM NobodyWaitsInACircle == Spec => []NoCircularWait
<1>1. IInv => NoCircularWait
  BY DEF IInv, Exclusion, HoldsRooms, HoldsForwarder, NoCircularWait,
         WaitsForRooms, WaitsForForwarder, Over
<1> QED
  BY <1>1, Inductive, PTL

(* The step behind OnlyOwnersExit: besides a join, which takes a free id,   *)
(* only RemoveClient changes the clients, and the client it removes is      *)
(* still the one whose token was checked.                                   *)
LEMMA ExitStep ==
    ASSUME IInv, [Next]_vars, NEW i \in Ids,
           clients[i] # NoToken, clients'[i] # clients[i]
    PROVE  /\ clients'[i] = NoToken
           /\ \E r \in Requests :
                 /\ pc[r] = "exiting" /\ pc'[r] \in {"succeeded", "deleting"}
                 /\ id(r) = i
                 /\ token(r) = clients[i]
<1>1. ASSUME NEW r \in Requests, RemoveClient(r)
      PROVE  /\ clients'[i] = NoToken
             /\ pc[r] = "exiting" /\ pc'[r] \in {"succeeded", "deleting"}
             /\ id(r) = i
             /\ token(r) = clients[i]
  <2>1. /\ pc[r] = "exiting"
        /\ clients' = [clients EXCEPT ![id(r)] = NoToken]
        /\ pc'[r] \in {"succeeded", "deleting"}
    BY <1>1 DEF RemoveClient, Ends, Goto, IInv, TypeOK
  <2>2. id(r) = i /\ clients'[i] = NoToken
    BY <2>1 DEF IInv, TypeOK
  <2> QED
    BY <2>1, <2>2 DEF IInv, SameClient
<1>2. ASSUME NEW j \in Ids, NEW t \in Tokens, Enters(j, t)
      PROVE  FALSE
  BY <1>2 DEF Enters, IInv, TypeOK
<1>3. ASSUME NEW r \in Requests, RemoveRoom(r) \/ CreateRoom
      PROVE  FALSE
  BY <1>3 DEF RemoveRoom, CreateRoom
<1> QED
  BY <1>1, <1>2, <1>3, RoomKept DEF IInv, CreateRoom

(* Clients leave the room only by an exit made with their own token or by   *)
(* its deletion, however long a user_delete waits for the forwarder.        *)
THEOREM OnlyOwnersLeave == Spec => OnlyOwnersExit
<1>1. IInv /\ [Next]_vars =>
         [\A i \in Ids :
             clients[i] # NoToken /\ clients'[i] # clients[i] =>
                 /\ clients'[i] = NoToken
                 /\ \E r \in Requests :
                       /\ pc[r] = "exiting" /\ pc'[r] \in {"succeeded", "deleting"}
                       /\ id(r) = i
                       /\ token(r) = clients[i]]_vars
  BY ExitStep
<1> QED
  BY <1>1, Inductive, PTL DEF Spec, OnlyOwnersExit
=============================================================================
