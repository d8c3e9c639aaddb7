-------------------------------- MODULE Relay --------------------------------
(***************************************************************************)
(* The data channels of one stream: a broadcast channel for the group, one *)
(* for each connection, the three loops that join them, and the map from   *)
(* users to their channels, which publisher and subscribers share.         *)
(*                                                                         *)
(* A receiver of a channel of tokio::sync::broadcast is what has been sent  *)
(* since it was made and is still to be received; if that is more than the *)
(* capacity it gets an error.  Sending fails when there is no receiver.    *)
(* A frame's payload is the serial number of its message, its length is    *)
(* left out.  Frames name the connection they come from; the code sees its *)
(* user only.  Every message starts with the four bytes of an address, as  *)
(* the clients make them, and fits the reader's buffer.                    *)
(***************************************************************************)
EXTENDS Naturals, Sequences

CONSTANTS
    Users,
    Conns,           \* connections with a data channel, each made once
    user,            \* whose they are; a user may have several
    NoConn,          \* the user has no entry
    GroupCapacity,   \* of the group's channel: 64
    UserCapacity,    \* of a connection's channel: 64
    Opening,         \* the connections whose data channel opens
    Speaking,        \* the connections whose clients send messages
    Leaving,         \* the connections whose clients hang up
    Messages         \* bound: how many messages they send

ASSUME ConnsHaveUsers == user \in [Conns -> Users] /\ NoConn \notin Conns
ASSUME CapacitiesArePositive ==
    GroupCapacity \in Nat \ {0} /\ UserCapacity \in Nat \ {0}
ASSUME ClientsAreConns ==
    Opening \subseteq Conns /\ Speaking \subseteq Conns /\ Leaving \subseteq Conns
ASSUME MessagesIsNat == Messages \in Nat

VARIABLES
    conn,             \* open, shut (its data channel only), or closed
    channel,          \* how far its data channel has come
    user_sender_map,  \* the connection whose channel a user has
    group,            \* all that was sent on the group's channel
    reader,           \* data_channel_read_loop
    pipe,             \* data_channel_broadcast_pipe_loop
    queue,            \* its receiver of the group's channel
    joined,           \* how much had been sent when it was made
    writer,           \* data_channel_write_loop
    inbox,            \* its receiver of the connection's channel
    heard,            \* what it has written to the data channel
    callback,         \* the callback for the state Closed
    sent              \* messages sent so far

vars == <<conn, channel, user_sender_map, group, reader, pipe, queue, joined,
          writer, inbox, heard, callback, sent>>

Frames == [typ : {"struct", "open", "close"}, from : Conns, to : Users, n : Nat]

TypeOK ==
    /\ conn \in [Conns -> {"open", "shut", "closed"}]
    /\ channel \in [Conns -> {"none", "wired", "open"}]
    /\ user_sender_map \in [Users -> Conns \cup {NoConn}]
    /\ \A c \in Conns, u \in Users : user_sender_map[u] = c => user[c] = u
    /\ group \in Seq(Frames)
    /\ reader \in [Conns -> {"none", "opening", "on", "ended", "failed"}]
    /\ pipe \in [Conns -> {"none", "on", "lagged", "failed"}]
    /\ queue \in [Conns -> Seq(Frames)]
    /\ joined \in [Conns -> 0 .. Len(group)]
    /\ writer \in [Conns -> {"none", "on", "lagged", "failed", "ended"}]
    /\ inbox \in [Conns -> Seq(Frames)]
    /\ heard \in [Conns -> Seq(Frames)]
    /\ callback \in [Conns -> {"none", "noticed", "removed"}]
    /\ sent \in 0 .. Messages

Init ==
    /\ conn = [c \in Conns |-> "open"]
    /\ channel = [c \in Conns |-> "none"]
    /\ user_sender_map = [u \in Users |-> NoConn]
    /\ group = <<>>
    /\ reader = [c \in Conns |-> "none"]
    /\ pipe = [c \in Conns |-> "none"]
    /\ queue = [c \in Conns |-> <<>>]
    /\ joined = [c \in Conns |-> 0]
    /\ writer = [c \in Conns |-> "none"]
    /\ inbox = [c \in Conns |-> <<>>]
    /\ heard = [c \in Conns |-> <<>>]
    /\ callback = [c \in Conns |-> "none"]
    /\ sent = 0

-----------------------------------------------------------------------------
(* Frames.  An event and a broadcast are addressed to their own sender.     *)

Event(typ, c) == [typ |-> typ, from |-> c, to |-> user[c], n |-> 0]
Struct(c, u) == [typ |-> "struct", from |-> c, to |-> u, n |-> sent + 1]
IsBroadcast(frame) == frame.to = user[frame.from]

(* Mutant: the group's channel is not given a receiver of its own.          *)
GroupHasLoops == \E c \in Conns : pipe[c] = "on"

(* DataChannelForward._receiver: the group's channel always has a receiver. *)
GroupHasReceiver == TRUE

(* To the group: to every pipe there is.                                    *)
SendToGroup(frame) ==
    /\ group' = IF GroupHasReceiver THEN Append(group, frame) ELSE group
    /\ queue' = [c \in Conns |->
                    IF pipe[c] = "on" THEN Append(queue[c], frame) ELSE queue[c]]

(* To a connection: to its write loop.                                      *)
HasReceiver(c) == writer[c] = "on"
SendTo(c, frame) == inbox' = [inbox EXCEPT ![c] = Append(@, frame)]

(* A connection's channel has the map and the pipe for senders.             *)
HasSender(c) == pipe[c] = "on" \/ user_sender_map[user[c]] = c

-----------------------------------------------------------------------------
(* The data channel comes up.                                              *)

(* Mutant: the entry is made under anybody's id.                            *)
RegisterAsAnybody(c) ==
    /\ channel[c] = "none"
    /\ channel' = [channel EXCEPT ![c] = "wired"]
    /\ \E u \in Users : user_sender_map' = [user_sender_map EXCEPT ![u] = c]
    /\ UNCHANGED <<conn, group, reader, pipe, queue, joined, writer, inbox,
                   heard, callback, sent>>

(* publish_data_channel and subscribe_data_channel, in a task that          *)
(* on_data_channel spawns: it may run after the connection was closed.      *)
Register(c) ==
    /\ channel[c] = "none"
    /\ channel' = [channel EXCEPT ![c] = "wired"]
    /\ user_sender_map' = [user_sender_map EXCEPT ![user[c]] = c]
    /\ UNCHANGED <<conn, group, reader, pipe, queue, joined, writer, inbox,
                   heard, callback, sent>>

(* on_open, which may never come: the channel is detached (if that fails it *)
(* is as if it had not come) and the three loops are spawned, of which two  *)
(* receive what is sent from here on.                                       *)
OnOpen(c) ==
    /\ c \in Opening
    /\ channel[c] = "wired"
    /\ channel' = [channel EXCEPT ![c] = "open"]
    /\ reader' = [reader EXCEPT ![c] = "opening"]
    /\ writer' = [writer EXCEPT ![c] = "on"]
    /\ pipe' = [pipe EXCEPT ![c] = "on"]
    /\ joined' = [joined EXCEPT ![c] = Len(group)]
    /\ UNCHANGED <<conn, user_sender_map, group, queue, inbox, heard, callback,
                   sent>>

-----------------------------------------------------------------------------
(* data_channel_read_loop.  What was in the buffers is read even after the  *)
(* connection was closed.                                                   *)

Goes(c, state) == reader' = [reader EXCEPT ![c] = state]

Announce(c) ==
    /\ reader[c] = "opening"
    /\ SendToGroup(Event("open", c))
    /\ Goes(c, IF GroupHasReceiver THEN "on" ELSE "failed")
    /\ UNCHANGED <<conn, channel, user_sender_map, pipe, joined, writer,
                   inbox, heard, callback, sent>>

Reads(c) ==
    /\ reader[c] = "on"
    /\ c \in Speaking
    /\ sent < Messages
    /\ sent' = sent + 1

ReadBroadcast(c) ==
    /\ Reads(c)
    /\ SendToGroup(Struct(c, user[c]))
    /\ Goes(c, IF GroupHasReceiver THEN "on" ELSE "failed")
    /\ UNCHANGED <<conn, channel, user_sender_map, pipe, joined, writer,
                   inbox, heard, callback>>

(* Mutant: who sends to a user without a receiver removes its entry.        *)
UnicastEvicts(c, u) ==
    /\ Reads(c)
    /\ u # user[c]
    /\ \/ user_sender_map[u] = NoConn /\ UNCHANGED <<user_sender_map, inbox>>
       \/ \E d \in Conns :
            /\ user_sender_map[u] = d
            /\ \/ /\ HasReceiver(d)
                  /\ SendTo(d, Struct(c, u))
                  /\ UNCHANGED user_sender_map
               \/ /\ ~HasReceiver(d)
                  /\ user_sender_map' = [user_sender_map EXCEPT ![u] = NoConn]
                  /\ UNCHANGED inbox
    /\ UNCHANGED <<conn, channel, group, reader, pipe, queue, joined, writer,
                   heard, callback>>

(* To a user without an entry nothing is sent, and that is all; an entry    *)
(* whose channel has no receiver ends the loop of the one who sends.        *)
ReadUnicast(c, u) ==
    /\ Reads(c)
    /\ u # user[c]
    /\ \/ user_sender_map[u] = NoConn /\ UNCHANGED <<reader, inbox>>
       \/ \E d \in Conns :
            /\ user_sender_map[u] = d
            /\ \/ HasReceiver(d) /\ SendTo(d, Struct(c, u)) /\ UNCHANGED reader
               \/ ~HasReceiver(d) /\ Goes(c, "failed") /\ UNCHANGED inbox
    /\ UNCHANGED <<conn, channel, user_sender_map, group, pipe, queue,
                   joined, writer, heard, callback>>

(* An error, or nothing more to read.                                       *)
ReadEnds(c) ==
    /\ reader[c] = "on"
    /\ conn[c] # "open"
    /\ Goes(c, "ended")
    /\ UNCHANGED <<conn, channel, user_sender_map, group, pipe, queue,
                   joined, writer, inbox, heard, callback, sent>>

-----------------------------------------------------------------------------
(* data_channel_broadcast_pipe_loop: the group's frames, but for the user's *)
(* own, to the connection's channel.                                        *)

PipeEnds(c, how) ==
    /\ pipe' = [pipe EXCEPT ![c] = how]
    /\ queue' = [queue EXCEPT ![c] = <<>>]

(* Mutant: who lags goes on with the oldest frame there is.                 *)
LagIgnored(c) ==
    /\ pipe[c] = "on"
    /\ Len(queue[c]) > GroupCapacity
    /\ queue' = [queue EXCEPT ![c] = Tail(@)]
    /\ UNCHANGED <<conn, channel, user_sender_map, group, reader, pipe,
                   joined, writer, inbox, heard, callback, sent>>

PipeLags(c) ==
    /\ pipe[c] = "on"
    /\ Len(queue[c]) > GroupCapacity
    /\ PipeEnds(c, "lagged")
    /\ UNCHANGED <<conn, channel, user_sender_map, group, reader, joined,
                   writer, inbox, heard, callback, sent>>

PipeHas(c) == pipe[c] = "on" /\ Len(queue[c]) \in 1 .. GroupCapacity
IsOwn(c, frame) == user[frame.from] = user[c]

(* Mutant: a frame of one's own ends the loop.                              *)
PipeStopsAtOwn(c) ==
    /\ PipeHas(c)
    /\ IsOwn(c, Head(queue[c]))
    /\ PipeEnds(c, "failed")
    /\ UNCHANGED <<conn, channel, user_sender_map, group, reader, joined,
                   writer, inbox, heard, callback, sent>>

PipeSkipsOwn(c) ==
    /\ PipeHas(c)
    /\ IsOwn(c, Head(queue[c]))
    /\ queue' = [queue EXCEPT ![c] = Tail(@)]
    /\ UNCHANGED <<conn, channel, user_sender_map, group, reader, pipe,
                   joined, writer, inbox, heard, callback, sent>>

PipeSends(c) ==
    /\ PipeHas(c)
    /\ ~IsOwn(c, Head(queue[c]))
    /\ \/ /\ HasReceiver(c)
          /\ SendTo(c, Head(queue[c]))
          /\ queue' = [queue EXCEPT ![c] = Tail(@)]
          /\ UNCHANGED pipe
       \/ ~HasReceiver(c) /\ PipeEnds(c, "failed") /\ UNCHANGED inbox
    /\ UNCHANGED <<conn, channel, user_sender_map, group, reader, joined,
                   writer, heard, callback, sent>>

-----------------------------------------------------------------------------
(* data_channel_write_loop: the connection's channel to its data channel.   *)

WriterOver(c, how) ==
    /\ writer' = [writer EXCEPT ![c] = how]
    /\ inbox' = [inbox EXCEPT ![c] = <<>>]
    /\ UNCHANGED heard

Write(c) ==
    /\ writer[c] = "on"
    /\ Len(inbox[c]) \in 1 .. UserCapacity
    /\ \/ /\ conn[c] = "open"
          /\ heard' = [heard EXCEPT ![c] = Append(@, Head(inbox[c]))]
          /\ inbox' = [inbox EXCEPT ![c] = Tail(@)]
          /\ UNCHANGED writer
       \/ conn[c] # "open" /\ WriterOver(c, "failed")
    /\ UNCHANGED <<conn, channel, user_sender_map, group, reader, pipe,
                   queue, joined, callback, sent>>

(* It lags, or all is written and nobody is left to send.                   *)
WriterEnds(c) ==
    /\ writer[c] = "on"
    /\ \/ Len(inbox[c]) > UserCapacity /\ WriterOver(c, "lagged")
       \/ inbox[c] = <<>> /\ ~HasSender(c) /\ WriterOver(c, "ended")
    /\ UNCHANGED <<conn, channel, user_sender_map, group, reader, pipe,
                   queue, joined, callback, sent>>

-----------------------------------------------------------------------------
(* The client closes its data channel, or the whole connection.             *)

Shut(c) ==
    /\ c \in Leaving
    /\ conn[c] = "open" /\ channel[c] = "open"
    /\ conn' = [conn EXCEPT ![c] = "shut"]
    /\ UNCHANGED <<channel, user_sender_map, group, reader, pipe, queue,
                   joined, writer, inbox, heard, callback, sent>>

HangUp(c) ==
    /\ c \in Leaving
    /\ conn[c] # "closed"
    /\ conn' = [conn EXCEPT ![c] = "closed"]
    /\ UNCHANGED <<channel, user_sender_map, group, reader, pipe, queue,
                   joined, writer, inbox, heard, callback, sent>>

(* Mutant: the event is only sent for the user's registered connection.     *)
NoticeIfMapped(c) ==
    /\ conn[c] = "closed"
    /\ callback[c] = "none"
    /\ callback' = [callback EXCEPT ![c] = "noticed"]
    /\ \/ user_sender_map[user[c]] = c /\ SendToGroup(Event("close", c))
       \/ user_sender_map[user[c]] # c /\ UNCHANGED <<group, queue>>
    /\ UNCHANGED <<conn, channel, user_sender_map, reader, pipe, joined,
                   writer, inbox, heard, sent>>

(* The callback for the state Closed: notice_network_event, whether or not  *)
(* there was an open event ...                                              *)
Notice(c) ==
    /\ conn[c] = "closed"
    /\ callback[c] = "none"
    /\ callback' = [callback EXCEPT ![c] = "noticed"]
    /\ SendToGroup(Event("close", c))
    /\ UNCHANGED <<conn, channel, user_sender_map, reader, pipe, joined,
                   writer, inbox, heard, sent>>

(* ... and, at the end of remove_publish or remove_subscribe, the user's    *)
(* entry, whichever of its connections made it.                             *)
Remove(c) ==
    /\ callback[c] = "noticed"
    /\ callback' = [callback EXCEPT ![c] = "removed"]
    /\ user_sender_map' = [user_sender_map EXCEPT ![user[c]] = NoConn]
    /\ UNCHANGED <<conn, channel, group, reader, pipe, queue, joined, writer,
                   inbox, heard, sent>>

-----------------------------------------------------------------------------
Piping(c) == PipeLags(c) \/ PipeSkipsOwn(c) \/ PipeSends(c)

Writing(c) == Write(c) \/ WriterEnds(c)

Next ==
    \E c \in Conns :
        \/ Register(c) \/ OnOpen(c)
        \/ Announce(c) \/ ReadBroadcast(c) \/ ReadEnds(c)
        \/ \E u \in Users : ReadUnicast(c, u)
        \/ Piping(c) \/ Writing(c)
        \/ Shut(c) \/ HangUp(c) \/ Notice(c) \/ Remove(c)

Spec == Init /\ [][Next]_vars

(* Tasks that can go on do.  Nobody need open a channel, send, or hang up.  *)
FairSpec ==
    /\ Spec
    /\ \A c \in Conns :
        /\ WF_vars(Announce(c)) /\ WF_vars(ReadEnds(c))
        /\ WF_vars(Piping(c)) /\ WF_vars(Writing(c))
        /\ WF_vars(Notice(c)) /\ WF_vars(Remove(c))

-----------------------------------------------------------------------------
(* Properties.                                                             *)

(* What is left of a sequence without the elements that are not in S.  (The *)
(* provers know nothing of SelectSeq.)                                      *)
Kept(seq, S) ==
    LET kept[n \in 0 .. Len(seq)] ==
            IF n = 0 THEN <<>>
            ELSE IF seq[n] \in S THEN Append(kept[n - 1], seq[n])
            ELSE kept[n - 1]
    IN  kept[Len(seq)]

Broadcasts == {frame \in Frames : IsBroadcast(frame)}
FromOthers(c) == {frame \in Frames : ~IsOwn(c, frame)}

(* A client receives what others send to the group from the moment its      *)
(* loops are up, in that order, each frame once and none left out; what it  *)
(* misses it misses at the end: a loop that lags ends, it does not skip     *)
(* (data_channel_broadcast_pipe_loop, data_channel_write_loop).             *)
NoGaps ==
    \A c \in Conns : \E last \in 0 .. Len(group) :
        Kept(heard[c], Broadcasts) =
            Kept(SubSeq(group, joined[c] + 1, last), FromOthers(c))

(* An open connection ceases to be read only while the channel of somebody  *)
(* who is in the map has no receiver: broadcasts and events never end their *)
(* sender's loop, even if nobody listens (data_channel_read_loop).          *)
ReadersFailByUnicast ==
    [][\A c \in Conns :
          reader[c] # "failed" /\ reader'[c] = "failed" =>
            \E d \in Conns : /\ d # c
                             /\ user_sender_map[user[d]] = d
                             /\ writer[d] # "on"]_vars

(* A registered user cannot be reached only if one of its own connections   *)
(* was closed: nobody else's coming and going takes its entry               *)
(* (user_sender_map, shared by publisher and subscribers).                  *)
UnreachableByItsOwn ==
    \A c \in Conns :
        channel[c] # "none" /\ user_sender_map[user[c]] = NoConn
            => \E d \in Conns : user[d] = user[c] /\ callback[d] = "removed"

Lost(c) == conn[c] # "open" \/ pipe[c] = "lagged" \/ writer[c] = "lagged"

(* What others send to the group: events, and messages by their number.     *)
GroupFramesFor(c) ==
    {frame \in {Event(typ, d) : typ \in {"open", "close"}, d \in Conns} \cup
                {[Event("struct", d) EXCEPT !.n = n] :
                    d \in Speaking, n \in 1 .. Messages} : ~IsOwn(c, frame)}

(* What is sent to the group while one's loops are up is heard, unless one's *)
(* connection closes or lags: no loop ends because of what somebody else    *)
(* does, or because of a frame of one's own.                                *)
BroadcastsAreHeard ==
    \A c \in Opening : \A frame \in GroupFramesFor(c) :
        (\E k \in DOMAIN queue[c] : queue[c][k] = frame)
        ~> (Lost(c) \/ \E k \in DOMAIN heard[c] : heard[c][k] = frame)

(* Whoever is closed is announced closed, whatever became of its entry and  *)
(* its loops.  (The announcement may come before that of its opening.)      *)
ClosedIsAnnounced ==
    \A c \in Leaving :
        conn[c] = "closed" ~> \E i \in DOMAIN group : group[i] = Event("close", c)
=============================================================================
