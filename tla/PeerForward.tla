----------------------------- MODULE PeerForward -----------------------------
(***************************************************************************)
(* One stream: its entry in Forwarder.stream_map and its PeerForward, with *)
(* the handlers that publish, subscribe and delete it, the callbacks of its *)
(* peer connections, and the tick that removes it when its publisher has   *)
(* been gone for too long.                                                 *)
(*                                                                         *)
(* Every task takes tokio's fair RwLocks one inside the other, and a step  *)
(* is what it does from one wait to the next.  The locks modelled are      *)
(* those held while another is waited for: stream_map, subscribe_group and *)
(* publish.  The two leave times and the tracks have locks too, which no   *)
(* task keeps while it waits for one that somebody else can keep from it.  *)
(*                                                                         *)
(* The handlers hold the room's forwarder from beginning to end.  The data *)
(* channels are in Relay, what subscribers do with the tracks is in        *)
(* TrackForward.                                                           *)
(***************************************************************************)
EXTENDS RwLocks

CONSTANTS
    Publishers,    \* the connections of whips: each is made once
    Subscribers,   \* the connections of wheps: each is made once
    NoPeer,        \* the stream has no publisher
    NoTask,        \* nobody holds the forwarder
    Faulty,        \* TRUE: setting up or closing a connection may fail
    Deletes,       \* TRUE: the stream may be deleted
    TimesOut       \* TRUE: the tick may find that publish_leave_timeout is over

Peers == Publishers \cup Subscribers

ASSUME PeersAreDistinct ==
    Publishers \cap Subscribers = {} /\ NoPeer \notin Peers
ASSUME SwitchesAreSound == {Faulty, Deletes, TimesOut} \subseteq BOOLEAN

Tick == <<"tick", NoPeer>>
Delete == <<"delete", NoPeer>>
Up(x) == <<"up", x>>         \* the handler that makes the connection x
Down(x) == <<"down", x>>     \* its callback for the state Closed
Tasks == {Tick, Delete} \cup ({"up", "down"} \X Peers)

ASSUME TasksAreDistinct == NoTask \notin Tasks

Locks == {"stream_map", "subscribe_group", "publish"}

VARIABLES
    entry,                  \* in stream_map, or by whom it was removed
    spared,                 \* whom a failing close() left as they were (history)
    publish,                \* the publisher
    publish_tracks,         \* whose tracks are listed
    publish_leave_time,     \* is it set?
    subscribe_group,
    subscribe_leave_time,   \* is it set?
    conn,                   \* the connections
    track,                  \* the publishers' tracks on their way
    line,                   \* the lines before the locks
    forwarder,              \* the task that holds the room's forwarder
    pc,                     \* where the tasks stand
    pass,                   \* of the tick
    due                     \* what the tick has found

forward_vars == <<publish, publish_tracks, publish_leave_time,
                  subscribe_group, subscribe_leave_time>>
tick_vars == <<pass, due>>
vars == <<entry, spared, forward_vars, conn, track, line, forwarder, pc, tick_vars>>

Stages == {"idle", "looking", "awaiting", "finding", "checking", "rechecking",
           "building", "setting", "stamping", "adding", "info", "reading",
           "completing", "removing", "clearing", "leaving", "closing",
           "closing_all", "over"}

TypeOK ==
    /\ entry \in {"listed", "deleted", "reaped"}
    /\ spared \subseteq Peers
    /\ publish \in Publishers \cup {NoPeer}
    /\ publish_tracks \subseteq Publishers
    /\ publish_leave_time \in BOOLEAN
    /\ subscribe_group \subseteq Subscribers
    /\ subscribe_leave_time \in BOOLEAN
    /\ conn \in [Peers -> {"none", "new", "wired", "answered", "connected",
                           "closed", "unheard"}]
    /\ track \in [Publishers -> {"none", "coming", "up"}]
    /\ line \in [Locks -> SUBSET [task : Tasks, mode : {"read", "write"},
                                  before : SUBSET Tasks]]
    /\ forwarder \in Tasks \cup {NoTask}
    /\ pc \in [Tasks -> Stages]
    /\ entry = "listed" => pc[Tick] # "over"
    /\ pass \in {1, 2}
    /\ due \in BOOLEAN

(* Mutant: the leave time of the publisher starts like the subscribers'.    *)
InitAbandoned ==
    /\ entry = "listed"
    /\ spared = {}
    /\ publish = NoPeer
    /\ publish_tracks = {}
    /\ publish_leave_time = TRUE
    /\ subscribe_group = {}
    /\ subscribe_leave_time = TRUE
    /\ conn = [x \in Peers |-> "none"]
    /\ track = [p \in Publishers |-> "none"]
    /\ line = [l \in Locks |-> Unlocked]
    /\ forwarder = NoTask
    /\ pc = [t \in Tasks |-> "idle"]
    /\ pass = 1
    /\ due = FALSE

(* stream_create: nobody has published, and nobody has subscribed.          *)
Init ==
    /\ entry = "listed"
    /\ spared = {}
    /\ publish = NoPeer
    /\ publish_tracks = {}
    /\ publish_leave_time = FALSE
    /\ subscribe_group = {}
    /\ subscribe_leave_time = TRUE
    /\ conn = [x \in Peers |-> "none"]
    /\ track = [p \in Publishers |-> "none"]
    /\ line = [l \in Locks |-> Unlocked]
    /\ forwarder = NoTask
    /\ pc = [t \in Tasks |-> "idle"]
    /\ pass = 1
    /\ due = FALSE

-----------------------------------------------------------------------------
(* Waiting, and going on.                                                  *)

At(t, stage) == pc[t] = stage
Goto(t, stage) == pc' = [pc EXCEPT ![t] = stage]
Has(t, l, mode) == Granted(line[l], t, mode)

(* t joins the line of l and keeps what it has.                             *)
Waits(t, l, mode) == line' = [line EXCEPT ![l] = Asked(@, t, mode)]

(* t gives the lock `from' back and joins the line of `to'.                 *)
Passes(t, from, to, mode) ==
    line' = [[line EXCEPT ![from] = Given(@, t)] EXCEPT ![to] = Asked(@, t, mode)]

GivesBack(t, l) == line' = [line EXCEPT ![l] = Given(@, t)]

(* t returns: its guards are dropped, a handler's forwarder included.       *)
Returns(t, stage) ==
    /\ Goto(t, stage)
    /\ line' = [l \in Locks |-> Given(line[l], t)]
    /\ forwarder' = IF forwarder = t THEN NoTask ELSE forwarder

(* Mutant: the handlers do not exclude one another.                         *)
ForwarderShared == TRUE

ForwarderFree == forwarder = NoTask

-----------------------------------------------------------------------------
(* whip and whep take the forwarder; whip goes on to publish and            *)
(* set_publish.                                                             *)

StartUp(x) ==
    /\ At(Up(x), "idle")
    /\ ForwarderFree
    /\ forwarder' = Up(x)
    /\ Waits(Up(x), "stream_map", "read")
    /\ Goto(Up(x), IF x \in Subscribers THEN "looking" ELSE "finding")
    /\ UNCHANGED <<entry, spared, forward_vars, conn, track, tick_vars>>

(* A stream that is not listed is somebody else's PeerForward by now.       *)
Find(x) ==
    /\ At(Up(x), "finding")
    /\ Has(Up(x), "stream_map", "read")
    /\ \/ /\ entry = "listed"
          /\ Passes(Up(x), "stream_map", "publish", "read")
          /\ Goto(Up(x), "checking")
          /\ UNCHANGED forwarder
       \/ entry # "listed" /\ Returns(Up(x), "over")
    /\ UNCHANGED <<entry, spared, forward_vars, conn, track, tick_vars>>

(* publish_is_some before the connection is made.  (It is asked twice, with *)
(* publish_lock taken and dropped in between: all the same to a handler     *)
(* that has the forwarder.)                                                 *)
CheckPublish(p) ==
    /\ At(Up(p), "checking")
    /\ Has(Up(p), "publish", "read")
    /\ \/ /\ publish = NoPeer
          /\ GivesBack(Up(p), "publish")
          /\ Goto(Up(p), "building")
          /\ UNCHANGED forwarder
       \/ publish # NoPeer /\ Returns(Up(p), "over")
    /\ UNCHANGED <<entry, spared, forward_vars, conn, track, tick_vars>>

(* new_publish_peer, the callbacks, peer_complete.                          *)
BuildPublish(p) ==
    /\ At(Up(p), "building")
    /\ \/ /\ Waits(Up(p), "publish", "write")
          /\ Goto(Up(p), "setting")
          /\ UNCHANGED forwarder
       \/ Faulty /\ Returns(Up(p), "over")
    /\ UNCHANGED <<entry, spared, forward_vars, conn, track, tick_vars>>

(* Mutant: the guard of publish lives to the end of set_publish.            *)
SetAndKeep(p) ==
    /\ At(Up(p), "setting")
    /\ Has(Up(p), "publish", "write")
    /\ publish = NoPeer
    /\ publish' = p
    /\ conn' = [conn EXCEPT ![p] = "wired"]
    /\ Goto(Up(p), "stamping")
    /\ UNCHANGED <<entry, spared, publish_tracks, publish_leave_time, subscribe_group,
                   subscribe_leave_time, track, line, forwarder, tick_vars>>

(* Mutant: the answer is sent before the leave time is reset.               *)
SetAndAnswer(p) ==
    /\ At(Up(p), "setting")
    /\ Has(Up(p), "publish", "write")
    /\ publish = NoPeer
    /\ publish' = p
    /\ conn' = [conn EXCEPT ![p] = "answered"]
    /\ GivesBack(Up(p), "publish")
    /\ Goto(Up(p), "stamping")
    /\ UNCHANGED <<entry, spared, publish_tracks, publish_leave_time, subscribe_group,
                   subscribe_leave_time, track, forwarder, tick_vars>>

(* set_publish, first section: nobody has published in between ...          *)
SetPublish(p) ==
    /\ At(Up(p), "setting")
    /\ Has(Up(p), "publish", "write")
    /\ publish = NoPeer
    /\ publish' = p
    /\ conn' = [conn EXCEPT ![p] = "wired"]
    /\ GivesBack(Up(p), "publish")
    /\ Goto(Up(p), "stamping")
    /\ UNCHANGED <<entry, spared, publish_tracks, publish_leave_time, subscribe_group,
                   subscribe_leave_time, track, forwarder, tick_vars>>

(* ... and the second; the event that follows carries an info().            *)
Returned(p) ==
    /\ At(Up(p), "stamping")
    /\ publish_leave_time' = FALSE
    /\ Waits(Up(p), "subscribe_group", "read")
    /\ Goto(Up(p), "info")
    /\ UNCHANGED <<entry, spared, publish, publish_tracks, subscribe_group,
                   subscribe_leave_time, conn, track, forwarder, tick_vars>>

-----------------------------------------------------------------------------
(* whep: first the wait for a connected publisher, with the forwarder in    *)
(* hand; then subscribe and add_subscribe.                                  *)

PublishIsOk == \E p \in Publishers : publish = p /\ conn[p] = "connected"

(* A stream that is not listed is an error, and unwrap panics.              *)
Look(s) ==
    /\ At(Up(s), "looking")
    /\ Has(Up(s), "stream_map", "read")
    /\ \/ /\ entry = "listed"
          /\ Passes(Up(s), "stream_map", "publish", "read")
          /\ Goto(Up(s), "awaiting")
          /\ UNCHANGED forwarder
       \/ entry # "listed" /\ Returns(Up(s), "over")
    /\ UNCHANGED <<entry, spared, forward_vars, conn, track, tick_vars>>

(* while !publish_is_ok {}: round again, or on to subscribe.                *)
Await(s) ==
    /\ At(Up(s), "awaiting")
    /\ Has(Up(s), "publish", "read")
    /\ Passes(Up(s), "publish", "stream_map", "read")
    /\ Goto(Up(s), IF PublishIsOk THEN "finding" ELSE "looking")
    /\ UNCHANGED <<entry, spared, forward_vars, conn, track, forwarder, tick_vars>>

(* Mutant: the guard of publish_is_ok is kept while publish_is_some asks.   *)
CheckHoldingOn(s) ==
    /\ At(Up(s), "checking")
    /\ Has(Up(s), "publish", "read")
    /\ \/ /\ PublishIsOk
          /\ Waits(Up(s), "publish", "read")
          /\ Goto(Up(s), "rechecking")
          /\ UNCHANGED forwarder
       \/ ~PublishIsOk /\ Returns(Up(s), "over")
    /\ UNCHANGED <<entry, spared, forward_vars, conn, track, tick_vars>>

(* publish_is_ok ...                                                        *)
CheckSubscribe(s) ==
    /\ At(Up(s), "checking")
    /\ Has(Up(s), "publish", "read")
    /\ \/ /\ PublishIsOk
          /\ Passes(Up(s), "publish", "publish", "read")
          /\ Goto(Up(s), "rechecking")
          /\ UNCHANGED forwarder
       \/ ~PublishIsOk /\ Returns(Up(s), "over")
    /\ UNCHANGED <<entry, spared, forward_vars, conn, track, tick_vars>>

(* ... then publish_is_some.                                                *)
RecheckSubscribe(s) ==
    /\ At(Up(s), "rechecking")
    /\ Has(Up(s), "publish", "read")
    /\ \/ /\ publish # NoPeer
          /\ GivesBack(Up(s), "publish")
          /\ Goto(Up(s), "building")
          /\ UNCHANGED forwarder
       \/ publish = NoPeer /\ Returns(Up(s), "over")
    /\ UNCHANGED <<entry, spared, forward_vars, conn, track, tick_vars>>

BuildSubscribe(s) ==
    /\ At(Up(s), "building")
    /\ \/ /\ conn' = [conn EXCEPT ![s] = "new"]
          /\ Waits(Up(s), "subscribe_group", "write")
          /\ Goto(Up(s), "adding")
          /\ UNCHANGED forwarder
       \/ Faulty /\ Returns(Up(s), "over") /\ UNCHANGED conn
    /\ UNCHANGED <<entry, spared, forward_vars, track, tick_vars>>

(* The connection is listed in one section, the leave time reset in the     *)
(* next.                                                                    *)
AddSubscribe(s) ==
    /\ At(Up(s), "adding")
    /\ Has(Up(s), "subscribe_group", "write")
    /\ subscribe_group' = subscribe_group \cup {s}
    /\ GivesBack(Up(s), "subscribe_group")
    /\ Goto(Up(s), "stamping")
    /\ UNCHANGED <<entry, spared, publish, publish_tracks, publish_leave_time,
                   subscribe_leave_time, conn, track, forwarder, tick_vars>>

Subscribed(s) ==
    /\ At(Up(s), "stamping")
    /\ subscribe_leave_time' = FALSE
    /\ Waits(Up(s), "subscribe_group", "read")
    /\ Goto(Up(s), "info")
    /\ UNCHANGED <<entry, spared, publish, publish_tracks, publish_leave_time,
                   subscribe_group, conn, track, forwarder, tick_vars>>

(* peer_complete comes last: if it fails the connection stays listed.       *)
CompleteSubscribe(s) ==
    /\ At(Up(s), "completing")
    /\ \/ /\ conn[s] = "wired"
          /\ conn' = [conn EXCEPT ![s] = "answered"]
       \/ (Faulty \/ conn[s] # "wired") /\ UNCHANGED conn
    /\ Returns(Up(s), "over")
    /\ UNCHANGED <<entry, spared, forward_vars, track, tick_vars>>

-----------------------------------------------------------------------------
(* info(): subscribe_group, then the leave times, then publish, and all of  *)
(* them kept to the end.  Whoever sends an event calls it, and the tick.    *)

ReadGroup(t) ==
    /\ At(t, "info")
    /\ Has(t, "subscribe_group", "read")
    /\ \/ t = Tick /\ due' \in {FALSE, TimesOut /\ publish_leave_time}
       \/ t # Tick /\ UNCHANGED due
    /\ Waits(t, "publish", "read")
    /\ Goto(t, "reading")
    /\ UNCHANGED <<entry, spared, forward_vars, conn, track, forwarder, pass>>

(* The end of info() is the end of set_publish: the answer is sent ...      *)
InfoOfPublish(p) ==
    /\ At(Up(p), "reading")
    /\ Has(Up(p), "publish", "read")
    /\ conn' = [conn EXCEPT ![p] = IF @ = "wired" THEN "answered" ELSE @]
    /\ Returns(Up(p), "over")
    /\ UNCHANGED <<entry, spared, forward_vars, track, tick_vars>>

(* ... of new_subscription_peer, after which the callbacks are set ...      *)
InfoOfSubscribe(s) ==
    /\ At(Up(s), "reading")
    /\ Has(Up(s), "publish", "read")
    /\ conn' = [conn EXCEPT ![s] = IF @ = "new" THEN "wired" ELSE @]
    /\ line' = [l \in Locks |-> Given(line[l], Up(s))]
    /\ Goto(Up(s), "completing")
    /\ UNCHANGED <<entry, spared, forward_vars, track, forwarder, tick_vars>>

(* ... and of the callbacks.                                                *)
InfoOfDown(x) ==
    /\ At(Down(x), "reading")
    /\ Has(Down(x), "publish", "read")
    /\ Returns(Down(x), "over")
    /\ UNCHANGED <<entry, spared, forward_vars, conn, track, tick_vars>>

-----------------------------------------------------------------------------
(* The callbacks for the state Closed: remove_publish, remove_subscribe.    *)
(* Whoever closes is still listed, and the code refuses what cannot happen. *)

Closed(x) ==
    /\ At(Down(x), "idle")
    /\ conn[x] = "closed"
    /\ Waits(Down(x), IF x \in Publishers THEN "publish" ELSE "subscribe_group",
             "write")
    /\ Goto(Down(x), "removing")
    /\ UNCHANGED <<entry, spared, forward_vars, conn, track, forwarder, tick_vars>>

(* Mutant: the guard of publish lives to the end of remove_publish.         *)
RemoveAndKeep(p) ==
    /\ At(Down(p), "removing")
    /\ Has(Down(p), "publish", "write")
    /\ publish = p
    /\ publish' = NoPeer
    /\ Goto(Down(p), "clearing")
    /\ UNCHANGED <<entry, spared, publish_tracks, publish_leave_time, subscribe_group,
                   subscribe_leave_time, conn, track, line, forwarder, tick_vars>>

RemovePublish(p) ==
    /\ At(Down(p), "removing")
    /\ Has(Down(p), "publish", "write")
    /\ publish = p
    /\ publish' = NoPeer
    /\ GivesBack(Down(p), "publish")
    /\ Goto(Down(p), "clearing")
    /\ UNCHANGED <<entry, spared, publish_tracks, publish_leave_time, subscribe_group,
                   subscribe_leave_time, conn, track, forwarder, tick_vars>>

ClearTracks(p) ==
    /\ At(Down(p), "clearing")
    /\ publish_tracks' = {}
    /\ Goto(Down(p), "leaving")
    /\ UNCHANGED <<entry, spared, publish, publish_leave_time, subscribe_group,
                   subscribe_leave_time, conn, track, line, forwarder, tick_vars>>

SetLeaveTime(p) ==
    /\ At(Down(p), "leaving")
    /\ publish_leave_time' = TRUE
    /\ Waits(Down(p), "subscribe_group", "read")
    /\ Goto(Down(p), "info")
    /\ UNCHANGED <<entry, spared, publish, publish_tracks, subscribe_group,
                   subscribe_leave_time, conn, track, forwarder, tick_vars>>

(* Mutant: the leave time is set after the group is given back.             *)
RemoveThenStamp(s) ==
    \/ /\ At(Down(s), "removing")
       /\ Has(Down(s), "subscribe_group", "write")
       /\ subscribe_group' = subscribe_group \ {s}
       /\ GivesBack(Down(s), "subscribe_group")
       /\ Goto(Down(s), IF subscribe_group' = {} THEN "leaving" ELSE "over")
       /\ UNCHANGED <<entry, spared, publish, publish_tracks, publish_leave_time,
                      subscribe_leave_time, conn, track, forwarder, tick_vars>>
    \/ /\ At(Down(s), "leaving")
       /\ subscribe_leave_time' = TRUE
       /\ Goto(Down(s), "over")
       /\ UNCHANGED <<entry, spared, publish, publish_tracks, publish_leave_time,
                      subscribe_group, conn, track, line, forwarder, tick_vars>>

RemoveSubscribe(s) ==
    /\ At(Down(s), "removing")
    /\ Has(Down(s), "subscribe_group", "write")
    /\ s \in subscribe_group
    /\ subscribe_group' = subscribe_group \ {s}
    /\ subscribe_leave_time' = (subscribe_leave_time \/ subscribe_group' = {})
    /\ Passes(Down(s), "subscribe_group", "subscribe_group", "read")
    /\ Goto(Down(s), "info")
    /\ UNCHANGED <<entry, spared, publish, publish_tracks, publish_leave_time, conn,
                   track, forwarder, tick_vars>>

-----------------------------------------------------------------------------
(* Removing the stream: stream_delete and the tick.                        *)

StartDelete ==
    /\ Deletes
    /\ At(Delete, "idle")
    /\ ForwarderFree
    /\ forwarder' = Delete
    /\ Waits(Delete, "stream_map", "write")
    /\ Goto(Delete, "finding")
    /\ UNCHANGED <<entry, spared, forward_vars, conn, track, tick_vars>>

(* Mutant: the guard of stream_map is dropped before the stream is closed.   *)
FindAndGiveBack ==
    /\ At(Delete, "finding")
    /\ Has(Delete, "stream_map", "write")
    /\ \/ /\ entry = "listed"
          /\ Passes(Delete, "stream_map", "publish", "read")
          /\ Goto(Delete, "closing")
          /\ UNCHANGED forwarder
       \/ entry # "listed" /\ Returns(Delete, "over")
    /\ UNCHANGED <<entry, spared, forward_vars, conn, track, tick_vars>>

FindToDelete ==
    /\ At(Delete, "finding")
    /\ Has(Delete, "stream_map", "write")
    /\ \/ /\ entry = "listed"
          /\ Waits(Delete, "publish", "read")
          /\ Goto(Delete, "closing")
          /\ UNCHANGED forwarder
       \/ entry # "listed" /\ Returns(Delete, "over")
    /\ UNCHANGED <<entry, spared, forward_vars, conn, track, tick_vars>>

(* close(): publish, then subscribe_group, both kept to the end.            *)
Close(t) ==
    /\ At(t, "closing")
    /\ Has(t, "publish", "read")
    /\ Waits(t, "subscribe_group", "read")
    /\ Goto(t, "closing_all")
    /\ UNCHANGED <<entry, spared, forward_vars, conn, track, forwarder, tick_vars>>

(* Whom close() gets to: the publisher, then the subscribers.  The first    *)
(* that fails to close ends it, and those after it stay as they are.        *)
Reached(done) ==
    LET all == subscribe_group \cup ({publish} \ {NoPeer})
    IN  /\ done \subseteq all
        /\ done # all => Faulty
        /\ publish # NoPeer /\ publish \notin done => done = {}

(* The connections are closed, and the entry is removed whether or not      *)
(* close() failed.  A connection closed before its callbacks are set will   *)
(* not tell.                                                                *)
CloseAll(t) ==
    /\ At(t, "closing_all")
    /\ Has(t, "subscribe_group", "read")
    /\ \E done \in SUBSET Peers :
          /\ Reached(done)
          /\ conn' = [x \in Peers |->
                         IF x \in done
                         THEN IF conn[x] = "new" THEN "unheard" ELSE "closed"
                         ELSE conn[x]]
          /\ spared' = (subscribe_group \cup ({publish} \ {NoPeer})) \ done
    /\ entry' = IF t = Tick THEN "reaped" ELSE "deleted"
    /\ Returns(t, "over")
    /\ UNCHANGED <<forward_vars, track, tick_vars>>

(* publish_check_tick, first pass: with stream_map to read ...              *)
TickStarts ==
    /\ At(Tick, "idle")
    /\ entry = "listed"
    /\ Waits(Tick, "stream_map", "read")
    /\ Goto(Tick, "finding")
    /\ pass' = 1
    /\ UNCHANGED <<entry, spared, forward_vars, conn, track, forwarder, due>>

(* ... and second pass: with stream_map to write.  A stream that is gone is *)
(* of no interest.                                                          *)
TickFinds ==
    /\ At(Tick, "finding")
    /\ Has(Tick, "stream_map", IF pass = 1 THEN "read" ELSE "write")
    /\ \/ /\ entry = "listed"
          /\ Waits(Tick, "subscribe_group", "read")
          /\ Goto(Tick, "info")
          /\ UNCHANGED forwarder
       \/ entry # "listed" /\ Returns(Tick, "over")
    /\ UNCHANGED <<entry, spared, forward_vars, conn, track, tick_vars>>

(* Mutant: the tick ends, where it should go on, when nobody is to go.      *)
TickBreaks ==
    /\ At(Tick, "reading")
    /\ Has(Tick, "publish", "read")
    /\ Returns(Tick, "over")
    /\ UNCHANGED <<entry, spared, forward_vars, conn, track, tick_vars>>

TickDecides ==
    /\ At(Tick, "reading")
    /\ Has(Tick, "publish", "read")
    /\ \/ /\ ~due
          /\ Returns(Tick, "idle")
          /\ UNCHANGED pass
       \/ /\ due /\ pass = 1
          /\ line' = [l \in Locks |->
                        IF l = "stream_map" THEN Asked(Given(line[l], Tick), Tick, "write")
                        ELSE Given(line[l], Tick)]
          /\ Goto(Tick, "finding")
          /\ pass' = 2
          /\ UNCHANGED forwarder
       \/ /\ due /\ pass = 2
          /\ line' = [line EXCEPT !["subscribe_group"] = Given(@, Tick),
                                  !["publish"] = Asked(Given(@, Tick), Tick, "read")]
          /\ Goto(Tick, "closing")
          /\ UNCHANGED <<pass, forwarder>>
    /\ UNCHANGED <<entry, spared, forward_vars, conn, track, due>>

-----------------------------------------------------------------------------
(* The connections.                                                        *)

(* Nothing is heard of a connection before its answer is sent.  Failed and  *)
(* Disconnected both close it.                                              *)
Settle(x) ==
    /\ conn[x] = "answered"
    /\ \/ conn' = [conn EXCEPT ![x] = "connected"]
       \/ conn' = [conn EXCEPT ![x] = "closed"]
    /\ UNCHANGED <<entry, spared, forward_vars, track, line, forwarder, pc, tick_vars>>

HangUp(x) ==
    /\ conn[x] = "connected"
    /\ conn' = [conn EXCEPT ![x] = "closed"]
    /\ UNCHANGED <<entry, spared, forward_vars, track, line, forwarder, pc, tick_vars>>

(* on_track spawns publish_track_up, which lists the track.                 *)
OnTrack(p) ==
    /\ conn[p] = "connected"
    /\ track[p] = "none"
    /\ track' = [track EXCEPT ![p] = "coming"]
    /\ UNCHANGED <<entry, spared, forward_vars, conn, line, forwarder, pc, tick_vars>>

TrackUp(p) ==
    /\ track[p] = "coming"
    /\ track' = [track EXCEPT ![p] = "up"]
    /\ publish_tracks' = publish_tracks \cup {p}
    /\ UNCHANGED <<entry, spared, publish, publish_leave_time, subscribe_group,
                   subscribe_leave_time, conn, line, forwarder, pc, tick_vars>>

-----------------------------------------------------------------------------
Publishing(p) ==
    \/ CheckPublish(p) \/ BuildPublish(p) \/ SetPublish(p) \/ Returned(p)
    \/ InfoOfPublish(p)

Subscribing(s) ==
    \/ Look(s) \/ Await(s) \/ CheckSubscribe(s) \/ RecheckSubscribe(s)
    \/ BuildSubscribe(s) \/ AddSubscribe(s) \/ Subscribed(s)
    \/ InfoOfSubscribe(s) \/ CompleteSubscribe(s)

Unpublishing(p) == RemovePublish(p) \/ ClearTracks(p) \/ SetLeaveTime(p)

Deleting == FindToDelete \/ Close(Delete) \/ CloseAll(Delete)

Ticking == TickFinds \/ TickDecides \/ Close(Tick) \/ CloseAll(Tick)

Next ==
    \/ \E x \in Peers : StartUp(x) \/ Find(x) \/ Closed(x) \/ InfoOfDown(x)
    \/ \E p \in Publishers : Publishing(p) \/ Unpublishing(p)
    \/ \E s \in Subscribers : Subscribing(s) \/ RemoveSubscribe(s)
    \/ \E t \in Tasks : ReadGroup(t)
    \/ StartDelete \/ Deleting
    \/ TickStarts \/ Ticking
    \/ \E x \in Peers : Settle(x) \/ HangUp(x)
    \/ \E p \in Publishers : OnTrack(p) \/ TrackUp(p)

Spec == Init /\ [][Next]_vars

(* Tasks that can go on do; the locks are fair by themselves, as their      *)
(* lines are.  Nobody need ever ask for anything, connect, or hang up.      *)
FairSpec ==
    /\ Spec
    /\ \A x \in Peers :
        WF_vars(Find(x)) /\ WF_vars(Closed(x)) /\ WF_vars(InfoOfDown(x))
    /\ \A p \in Publishers : WF_vars(Publishing(p)) /\ WF_vars(Unpublishing(p))
    /\ \A s \in Subscribers : WF_vars(Subscribing(s)) /\ WF_vars(RemoveSubscribe(s))
    /\ \A t \in Tasks : WF_vars(ReadGroup(t))
    /\ WF_vars(Deleting) /\ WF_vars(Ticking)

-----------------------------------------------------------------------------
(* Properties.                                                             *)

(* No task asks for a lock that it has.  tokio's locks are not reentrant: a *)
(* second read behind a writer that waits for the first would never end     *)
(* (publish_is_ok, then publish_is_some; info, then close).                 *)
NobodyWaitsForItself ==
    \A l \in Locks : \A e \in line[l] : e.task \notin e.before

(* subscribe_leave_time is set while nobody subscribes and only then, though *)
(* new_subscription_peer resets it after it has given the group back; the   *)
(* one exception is that gap.                                               *)
SubscribeLeaveAgreement ==
    (\A s \in Subscribers : ~At(Up(s), "stamping")) =>
        (subscribe_leave_time <=> subscribe_group = {})

(* stream_delete leaves no open connection behind but those that a failing  *)
(* close() did not get to, and nobody joins a stream that is gone: whoever  *)
(* is listed with it is closed, or was there and was spared                 *)
(* (Forwarder::stream_delete, PeerForwardInternal::close).                  *)
DeletedIsClosed ==
    entry = "deleted" =>
        \A x \in subscribe_group \cup ({publish} \ {NoPeer}) :
            conn[x] = "closed" \/ x \in spared

(* A stream is removed once: neither stream_delete nor the tick closes one  *)
(* that the other is about to remove or has removed, though each looks for  *)
(* it long before (stream_map, kept to write over close()).                 *)
RemovedOnce == [][entry' # entry => entry = "listed"]_vars

(* A connection that is closed is forgotten, and the stream can be          *)
(* published again, whatever order the callbacks, the handlers and the      *)
(* tick's first pass come to the locks in.  Only while close() is not under *)
(* way: a callback may wait for ever behind one (CloseReturns).             *)
ClosedIsForgotten ==
    \A x \in Peers : conn[x] = "closed" ~> x # publish /\ x \notin subscribe_group

(* A handler that has the forwarder gives it back, unless it is a whep that *)
(* goes round for ever as it finds again and again that no publisher is     *)
(* connected: no handler, callback or tick keeps it from a lock for ever.   *)
(* (That the wait of whep may last for ever, because it keeps the publisher *)
(* out, is WhepGetsPublisher in Rooms.  Only without close(), as above.)    *)
HandlersReturn ==
    \A x \in Peers :
        /\ []<>(forwarder # Up(x) \/ At(Up(x), "looking"))
        /\ []<>(forwarder # Up(x) \/ ~At(Up(x), "looking"))

(* No publisher's handler or callback is under way.                         *)
PublishersQuiet ==
    \A p \in Publishers, t \in {"up", "down"} : pc[<<t, p>>] \in {"idle", "over"}

(* A stream whose publisher has gone is due to be reaped, whatever order    *)
(* the handlers and callbacks of successive publishers set and reset the    *)
(* leave time in: none is left without a publisher and without a leave time. *)
AbandonedIsDue ==
    /\ entry = "listed" /\ publish = NoPeer
    /\ PublishersQuiet
    /\ \E p \in Publishers : At(Down(p), "over")
    => publish_leave_time

(* What StreamLife sees of the stream.                                      *)
Past == {p \in Publishers : pc[Down(p)] \notin {"idle", "removing"}}

LinkOf(x) ==
    IF x = NoPeer THEN "none"
    ELSE IF conn[x] = "closed" THEN "ended"
    ELSE IF conn[x] = "connected" THEN "live" ELSE "dialing"

Life == INSTANCE StreamLife WITH
    life <- IF entry = "listed" THEN "present" ELSE entry,
    publisher <- publish,
    link <- LinkOf(publish),
    past <- Past,
    audience <- subscribe_group

(* The handlers, the callbacks and the tick, each in several sections with  *)
(* the others in between, keep the promise of StreamLife: only a stream     *)
(* that a publisher has left is reaped, nobody comes to one that was        *)
(* deleted, and no publisher is replaced before its connection has ended.   *)
ImplementsStreamLife == Life!Spec

(* README: "(join / exit) Room".  Exiting deletes the client's streams,     *)
(* which has to come to an end.                                             *)
CloseReturns ==
    forwarder = Delete ~> forwarder # Delete
=============================================================================
