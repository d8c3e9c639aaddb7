# rust-server-for-multiplayer in TLA+

The server keeps *rooms*. A client joins a room over HTTP and gets a user id and
a token; with them it opens WebSockets that exchange messages within a named
*group*, publishes a *stream* over WebRTC (`whip`), or subscribes to one
(`whep`). This directory holds TLA+ modules of that server, the TLC instances
that check them, and proofs for TLAPS. Paths below are relative to `src/`, the
root of the repository; the server's own code is in its directory `src/`.

## 1. Inventory

| Part | Code | State | Operations | Hard because |
|---|---|---|---|---|
| ROOMS | `src/main.rs` 44 | map of rooms under one global `Mutex` | create, join, exit, delete, list | held across awaits of every lock below |
| Room | `src/room.rs` | `client_map`, the group manager, the forwarder | `join`, `user_delete`, `all_user_delete` | many awaits between looking a client up and removing it; errors leave half the work done |
| Client | `src/forward/rtc/client.rs` | token, list of streams (shared by all clones) | `add_stream`, `remove_stream` | a copy of what the Forwarder knows, kept by hand |
| Group, GroupsManager | `libs/libws/src/lib.rs` | members, their count, their channels and pipes, groups of each user | `join`, `leave`, `join_group`, `leave_group`, `end_user`, `new_group` | several collections that must agree; tasks and channels that outlive their entries |
| WebSocket handler | `src/route/ws/mod.rs` | two tasks and a clean-up per connection | upgrade, receive, send, close | authorization is a snapshot; two sockets of one user; leave races with exit |
| Stream routes | `src/route/rtc/*.rs` | none of their own | create, destroy, infos, whip, whep, layers | take ROOMS and the forwarder, in two orders of dropping; busy waits |
| Forwarder | `src/rtc/mod.rs` | map of streams under a `RwLock` | create, delete, (virtual_)publish, subscribe, tick | check under one lock, act under another; timeouts |
| PeerForward | `src/forward/rtc/{mod,internal}.rs` | publisher, subscribers, tracks, leave times | set/remove publish, add/remove subscribe, close, info | callbacks of connections run whenever they like |
| Data channel relay | `internal.rs` 152-297, 491-514, 679-702 | a channel per connection, one per stream, the map from users to channels | broadcast, unicast, open/close events | three loops per connection, bounded channels, one map for publishers and subscribers |
| Track forwarding | `subscribe.rs`, `track.rs`, `internal.rs` 448-489 | the list of tracks; for each subscriber the track it gets, its binding, the layer it remembers | list, select, disable, enable, follow the publisher | changes, selections and packets in any order; a one-place channel |

How they interact. Room handlers run under ROOMS from beginning to end and take
the group manager and the forwarder one after the other. A WebSocket handler
authorizes (ROOMS), upgrades, takes ROOMS and then the manager's write lock to
join, and again the manager's to leave. Stream handlers authorize, then hold the
room's forwarder; `whip` and `whep` take ROOMS a second time and wait for the
forwarder with it. Connections report to PeerForward by callbacks, each in a
task of its own, and a tick removes streams whose publisher has left.

What makes each part correct:

* groups: who is a member, who is counted, who has a channel and whom the index
  names agree; no socket that was thrown out goes on receiving; a connection that
  is over leaves its group; open and close events tell who is present;
* rooms: a client leaves by its own token or with the room; a deleted room is
  empty; every request is answered; an exit succeeds;
* streams: at most one publisher, removed only by its own callback; a stream is
  reaped only when its publisher is gone; nobody waits for ever;
* relay: what is sent to the group reaches every other connection once, in order
  and without gaps; who can be reached does not depend on strangers;
* tracks: what is forwarded agrees with the list, the binding and the
  subscriber's wishes; who waits for a track that is there gets it.

The hazards, each at its line, with the properties that watch them, are listed in
`PROJECT.json`.

## 2. Modules

| Module | Models |
|---|---|
| `Groups` | the WebSocket side: handlers, `Group`, `GroupsManager`, and a process for exits and the room's deletion |
| `GroupMembership` | what it promises: sessions enter a place, hang up, and are vacated together |
| `MCGroups` | instances of `Groups` |
| `GroupsProofs` | the inductive invariant of `Groups` and the theorems that follow |
| `GroupsRefinement` | `Groups` implements `GroupMembership` |
| `Rooms` | one room: clients, their streams, the HTTP handlers and the two locks they hold |
| `MCRooms` | instances of `Rooms` |
| `RoomsProofs` | the inductive invariant of `Rooms` and the theorems that follow |
| `RwLocks` | tokio's fair `RwLock` as a line of readers and writers (external) |
| `RwLocksProofs` | what asking and giving back do to a line, and that the lines are locks |
| `StreamLife` | what a stream promises: who may publish, join, delete and reap it, and when |
| `PeerForward` | one stream: its entry in the Forwarder, its publisher, subscribers, leave times and tracks, the handlers, callbacks and the tick |
| `MCPeerForward` | instances of `PeerForward` |
| `PeerForwardProofs` | the inductive invariant of `PeerForward` and the theorems that follow |
| `PeerForwardRefinement` | `PeerForward` implements `StreamLife` |
| `Relay` | the data channels of one stream: the read, write and pipe loops of each connection, the channels between them, the map of users, the events |
| `MCRelay` | an instance of `Relay` |
| `RelayProofs` | the inductive invariant of `Relay` and the theorems that follow |
| `TrackForward` | what one subscriber is sent: the list of tracks, the publishers that come and go, its tasks and its selections of a layer |
| `MCTrackForward` | an instance of `TrackForward` |
| `TrackForwardProofs` | the inductive invariant of `TrackForward` and the theorems that follow |

### Groups

One room and its manager. `groups`, `inner_user`, `user_count`, `user_tasks` and
`user_senders` are the fields of `GroupsManager.groups` and `Group`;
`users_group` is the index; `lock` is the manager's `RwLock`, always taken with
`write()` by the handlers modelled. A connection `c` has a program counter
`pc[c]`, its `request`, the state of `recv_task` and `send_task`, its receiver
`rx[c]` and the pipe it spawned, if its `join` spawned one. Pipes and channels
are named by the connection whose `join` made them.

* Between two awaits that may wait, a handler is one action. ROOMS and then the
  manager are taken in that order by everybody, so waiting for both is one
  action whose guard is that both are free.
* The process `admin` stands for whoever keeps ROOMS across an await: room/exit and
  room/delete, and with `Streaming` also `whip` and `whep` (`StreamTakesRooms`). One
  such process is enough, since ROOMS serialises those handlers. All of them wait for
  the room's forwarder with ROOMS in hand; that wait is in `RemoveClient`, `KeepClient`
  and `StreamGivesRooms`, and none of these need ever happen.
* An empty entry of `users_group` and no entry are the same: every reader treats
  them so.
* The backlog of a channel is a flag, "something is pending": no property counts
  messages. A pipe that lags behind the 64 places of its channel may end at any
  time (`SlowPipes`).
* After the room is deleted its manager lives on in the handlers' clones, and so
  do its variables.
* Bounds: each connection is made once (`Conns`), each user exits at most as often
  as `Exiting` says and the room is deleted at most once (`Deletable`). A
  reconnect is another member of `Conns`.

`GroupMembership` is the abstract view: a session is outside, in its place, or
over; the steps are `Enter`, `HangUp` and `Vacate`. That `Vacate` ends all
sessions of a place at once is the point: an old socket's leave does throw out the
newer one, and the abstraction records precisely that.

### Rooms

`clients` is `client_map`: the token held by each id. A client is its token, as
all clones of a `Client` share one list and tokens are drawn at random. `stream_map`
gives each client's list, in the order of addition, which matters:
`remove_stream` searches it by halves. `binary_search` is the standard library's
search; for lists of up to two names, the size the runs use, all its versions
probe the same places. `status` abstracts the Forwarder: a stream is absent, idle
(no publisher), dialing (a publisher whose connection is not up) or live, and
`abandoned` are those that a publisher has left. These change as `StreamLife` says,
with the end of a connection and its callback in one step: `Settle` and `Leave` are
the connection coming up, failing or being lost, `Reap` and `Reaped` the tick. The tick takes any
abandoned stream at any time, so it covers every timeout; that it also takes one
whose publisher is back (`ReapReturned`) may happen but need not. A publisher that
comes to a stream it found just before the tick removed it is not a case of its own:
nobody sees the difference to one that came just before.

* `rooms_lock` and `forwarder_lock` are the two locks held across awaits.
  Handlers that finish under ROOMS without waiting are one action.
* `stream_delete` and the tick await `PeerForward::close()` with the Forwarder's
  `stream_map` locked, `stream_delete` with the forwarder too and `user_delete` with ROOMS
  besides. So a removal has two steps, and in between the request is "destroying" or
  "closing", or `reaping` names the tick's stream: meanwhile nobody else gets at the
  streams (`MapFree`). The second step (`StreamDestroyed`, `StreamDeleted`, `Reaped`)
  need never happen.
* A request's `asked` holds what the handler took from its authorization: it goes
  on with it however stale it is.
* `Disconnect` is a client that hangs up while its handler waits: the HTTP server
  drops the handler's future and its guards; a stream that was being closed stays
  in the Forwarder. Upgraded handlers run in tasks of
  their own and are not dropped.
* `user_delete` also waits for the group manager. `Groups` shows that lock is
  always freed, and `Rooms` leaves it out; a request dropped at that await has
  changed nothing in `Rooms` yet.
* Ids, tokens and requests are bounded by `Capacity`, `Tokens` and `Requests`; a
  token is drawn once and a request made once. `Ops` says which requests an
  instance has, `Faulty` whether setting up a connection may fail, `Impatient`
  whether clients hang up.

`WaitsForRooms` and `WaitsForForwarder` say at which stages a request waits for
which lock; the first is also the guard of `LockRooms`.

### PeerForward

One stream of the map. `entry` says whether it is listed, and if not who removed
it; the next five variables are fields of `PeerForwardInternal`, the times as
flags, the tracks by their publisher. `conn[x]` is the life of a connection: made
(`new`), its callbacks set (`wired`), its answer sent, connected, closed; one that
is closed before its callbacks are set is `unheard`. A task is a pair: `<<"up", x>>`
is the handler that makes `x`, `<<"down", x>>` the callback when it is closed,
and there are the tick and a deletion.

* Here, unlike in the other two modules, locks nest in more than one order, so
  each lock is a line (`RwLocks`) and asking and getting are separate steps: a
  reader that comes behind a waiting writer waits too, as with tokio's. A line is a
  set of records, each with the tasks before it: all that the order is needed for.
* Modelled are the locks somebody holds while waiting for another: `stream_map`,
  `subscribe_group`, `publish`. `publish_tracks` and the two leave times are taken
  last by everybody, so waiting for them ends, and a step may take them at once.
* The temporaries in the tail expression of `info()` live to its end: it keeps
  `subscribe_group` while it waits for `publish`.
* Handlers hold the room's forwarder from beginning to end (`forwarder`), so at
  most one publishes, subscribes or deletes; callbacks and the tick do not. A handler of
  a subscriber begins with whep's `while !publish_is_ok` (`Look`, `Await`), which
  may go round for ever.
* `close()` closes the publisher, then the subscribers, and returns at the first that
  fails; its callers remove the entry all the same. With `Faulty`, `CloseAll` may stop
  anywhere on the way, and `spared` remembers whom it has not got to.
* `set_publish` and `remove_subscribe` refuse a publisher that is not alone or a
  subscriber that is not listed. With the forwarder held that cannot happen,
  so it is a guard here; `HandlersReturn` and `ClosedIsForgotten` would fail if a
  guard ever blocked.
* Bounds: each connection is made once, one deletion, one stream; `Faulty` (setting up
  or closing a connection may fail), `Deletes` and `TimesOut` turn parts on.

`StreamLife` is the abstract view, without locks, tasks or callbacks: a stream is
present until it is deleted or reaped, once; it has one publisher at a time, who
stays until the connection has ended (`Publish`, `Connect`, `End`, `Leave`);
subscribers come (`Join`) once somebody has published and not after a deletion; the
tick reaps only what a publisher has left. A stream that goes takes its publisher's
connection along, unless closing fails. `Life` maps `PeerForward` to it: `entry`
is the life, `publish` the publisher, `conn[publish]` its link, `subscribe_group`
the audience, and those whose callback has got past `remove_publish`'s first section
are the past. What `StreamLife` does not promise is as telling: a publisher or a
subscriber may still come to a stream that was just reaped, as the handler found it
before, and a stream may be reaped though its publisher is back.

### Relay

One stream's data channels. A connection `c` of `user[c]` has its data channel
(`channel`), three loops (`reader`, `pipe`, `writer`), and a channel of its own
from pipe and unicasts to writer; the stream has one channel for the group. A
receiver of a `tokio::sync::broadcast` channel is what it has still to receive:
`queue[c]` of the group's, `inbox[c]` of the connection's. One that has more than
the capacity to receive gets an error, at which the loop ends. `group` and `heard`
record all that was sent to the group and all that reached the client.

* `user_sender_map` is shared by the publisher and the subscribers of the stream and
  keyed by user, so a user's second connection replaces the first's entry, and
  either's end removes it (`Register`, `Remove`).
* A frame goes to the group if its address is its sender, as in the code.
* The lifecycle of a connection is as much as the relay sees of it: open, its data
  channel closed, closed; the callback announces (`Notice`) and removes (`Remove`).
* Bounds: a connection is made once, `Messages` in all, and which connections get as
  far as opening, speaking and leaving (`Opening`, `Speaking`, `Leaving`). In the
  instance, `b2` is the second connection of `b`'s user; `b`'s data channel
  never opens, which leaves an entry in the map that nobody receives for.

### TrackForward

`publish_tracks` is the list, a set whose order is that of the rids, and `up` the tracks
that `publish_track_up` has put there, which may happen after `remove_publish` has
cleared the list. Of two tracks with one rid the code takes the older, the model either. For each
kind, `task`, `recv`, `binding` and `pre_rid` are the local variables of
`sender_forward_rtp` and its entry of `track_binding_publish_rid`. `changes[k]`
counts the messages `()` of the change channel that the task has still to receive,
`selects[k]` is the content of the one-place channel of selections, or `Lagged`.

* One branch of the task's `select!` is one action: it keeps the locks it takes to
  its end. The order of the branches is free, as `select!` draws it at random.
* A subscriber selects a layer that is on offer, `RID_ENABLE` or `RID_DISABLE`. The
  selection is handled later, when the track may be gone.
* The kinds share nothing, so the instance gives a subscriber one or the other.
* Packets, and with them sequence numbers, are left out: which track a task
  receives from is what counts. Setting a track and writing a packet fail only
  once the subscriber has closed: it is taken to support the published codecs.
* Bounds: a publisher is made once, `Selections`, `Others`, a change channel of one
  place instead of 16, so that it lags.

## 3. What is checked

| Run | Instance | Shows |
|---|---|---|
| `groups_exit` | 2 users, 2 groups, 2 connections, exits, deletion, slow pipes | `TypeOK`; `MembershipAgreement` and `IndexAgreement` (the collections and the index agree); `UnwrapSafe` (`get_user_receiver` finds a sender); `MemberHasConnection` (no ghost members); `NoZombieReceiver` (a socket on a dropped channel has no live pipe); `AnnouncedIsPresent`; `ImplementsMembership` (refinement) |
| `groups_live` | 1 user, 2 connections, exit, deletion, whips that hold ROOMS, fairness | `EvictedStopsReceiving`; `DoneLeaves` (a finished connection leaves its group, if whoever waits for the forwarder with ROOMS in hand gets it) |
| `groups_deaf` | 2 connections | **violated**: `MembersHearBroadcasts` |
| `rooms_streams` | capacity 2 with a host, 2 streams, 2 tokens, 3 requests of all kinds, faults, hang-ups | `TypeOK` (no stream listed twice); `DeletedRoomIsEmpty`; `OnlyOwnersExit`; `NoCircularWait` (whoever has the forwarder waits for neither lock, whoever has ROOMS for the forwarder at most, and nobody leaves a lock behind) |
| `rooms_answer` | 1 client, 1 stream, 3 of whip, whep, destroy, exit, delete, fairness | `RequestsAnswered` (if no `close()` hangs) |
| `rooms_exit` | 1 client, 2 streams, create and exit | **violated**: `ExitsSucceed` |
| `rooms_whep` | 1 client, 1 stream, create, whip, whep, fairness | **violated**: `WhepGetsPublisher` (though no `close()` hangs) |
| `peers_tidy` | 2 publishers, 1 subscriber, faults, deletion, timeouts | `TypeOK` (the tick never ends while the stream is listed); `NobodyWaitsForItself` (no lock is asked for twice); `DeletedIsClosed` (a deleted stream leaves nothing open but what a failing `close()` did not get to); `AbandonedIsDue` (a stream without its publisher has a leave time); `RemovedOnce` (the tick and a deletion never both remove it); `ImplementsStreamLife` (refinement) |
| `peers_forget` | 1 publisher, 2 subscribers, faults, fairness | without `close()`: `ClosedIsForgotten`; `HandlersReturn` (a handler gives the forwarder back, but for a whep that goes round for ever as no publisher is connected); `SubscribeLeaveAgreement` |
| `peers_close` | 1 publisher, 2 subscribers, a deletion, fairness | **violated**: `CloseReturns` |
| `relay_hears` | 3 connections of 2 users, 1 message, capacities 2 and 1, fairness | `NoGaps` (what is heard is a prefix of what was sent since the loops were up); `UnreachableByItsOwn` (only a user's own connections take its entry); `ReadersFailByUnicast` (broadcasts and events never end a reader); `BroadcastsAreHeard`; `ClosedIsAnnounced` |
| `tracks_serve` | a publisher with 2 layers, one with sound, a subscriber, 2 selections, another subscriber, fairness | `OwnKind`; `BindingAgreement` (forwarded if and only if bound, and to that layer); `RequestsFindTheirTrack`; `NothingListedNothingForwarded`; `DisabledUntilSelected`; `SubscribersAreServed`; `TasksEnd` |

The bounds are where the interesting cases first appear. Two connections of one
user are an old socket and its reconnect, or a member and somebody to listen. Two
users and two groups let an index name the wrong one. In `rooms_streams` three requests let one hold ROOMS, one hold
the forwarder and one arrive, and two tokens let an id change hands. Three
connections together with exits make 2.7 million states and take longer than a
run should; the proofs cover every number. In `peers_*` a second publisher is one
that returns, and a second subscriber is the one whose handler sends an event, or
who leaves, while the first leaves. `peers_tidy` and `peers_close` do not check
for deadlock: there the system may stop, as `peers_close` shows. `peers_forget`,
without `close()`, does. In `relay_hears` and `tracks_serve` the clients may do
nothing more, so these do not either. In `relay_hears` one message
and the events of three connections are enough to overrun channels of two and one
places, at the pipe and at the writer; in `tracks_serve` two selections
are a disabling and an enabling, or a lag, and the second publisher finds a
subscriber that is bound to a layer of the first.

Fairness. Handlers and tasks that can run do run: tokio schedules them (weak
fairness). Tokio's `Mutex` and `RwLock` are FIFO queues, so whoever waits for one
that is freed again and again gets it (strong fairness on the actions that take a
lock). ICE settles and the tick recurs (weak fairness of `Settle` and of `Reap`, which
takes abandoned streams without a publisher; none for `ReapReturned`, as a leave time
that is old is an accident).
In `PeerForward` the locks' fairness is in their lines, and weak fairness of each
task's steps is enough. In `Relay` and `TrackForward` every loop that has something to receive
receives it, as a task that waits for nothing else does. In `TrackForward` this is
weak fairness of a task's changes and of its selections, each by itself: `select!`
draws at random among the branches that are ready, so none is passed over for
ever. Nobody is obliged to connect, to publish, to ask for anything, to hang up or to
close a connection. Setting up a peer connection ends, one way or the other.

What is *not* assumed is that `close()` returns, nor that whoever waits for the forwarder
gets it: `peers_close` shows a `close()` that hangs with the forwarder locked, and
`rooms_whep` a `whep` that goes round with it. Both may keep ROOMS locked for ever, as
exits, deletions, `whip` and `whep` wait for the forwarder with ROOMS in hand. So
`DoneLeaves` has the hypothesis `ForwarderComesBack`, that no such wait lasts for ever, and
`RequestsAnswered` and `WhepGetsPublisher` have `ClosesReturn`, that no `close()` does; the
steps concerned have no fairness. `RequestsAnswered` needs a second
exclusion: `rooms_answer` leaves out `create`, faults and hang-ups, because with
any of them the wait of `rooms_whep` keeps a request from ever being answered;
without them every stream that exists has or had a publisher, and the wait ends.
`HandlersReturn` excepts that wait in its statement, and `peers_forget` has
neither a deletion nor the tick's second pass, hence no `close()`.

### Disagreements found

* `groups_deaf`: `join` spawns the pipe that carries broadcasts to the user's
  channel, and only then does the handler subscribe to that channel. A broadcast in
  between finds no receiver, the pipe returns, and no later join revives it.
* `rooms_exit`: the unsorted list. A client that created `b` and then `a` cannot
  leave; its streams are partly gone and every retry fails.
* `rooms_whep`: a stream that exists without a publisher gets no dummy, and `whep`
  spins on it with the forwarder locked. The `whip` that would help waits for the
  forwarder with ROOMS locked, and with that the server stands still.
* `peers_close`: `close()` and `info()` nest the same two locks in opposite orders.
  Readers alone would not mind, but a publisher and a subscriber that leave
  queue a writer on each, and all four stand still, with the forwarder locked.

Met while modelling, without a run:

* `close()` returns at the first connection that fails to close (`internal.rs` 143, 146),
  and `stream_delete` and the tick remove the entry all the same (`rtc/mod.rs` 97,
  135-139): the connections after it stay open, and no later deletion finds them.
  `PeerForward` has these steps (`CloseAll`).
* A pipe or a `send_task` that lags 64 messages behind ends (`libws/src/lib.rs` 101,
  `route/ws/mod.rs` 108): the member stays in its group and hears nothing. `Groups` has
  the step (`SlowPipes`).
* A client's stream may be gone from the Forwarder though its list has it: the tick took it,
  somebody destroyed it, or two clients whipped it. Its exit then fails in
  `stream_delete` (`room.rs` 167). `Rooms` has these steps; `rooms_exit` shows the failure
  by the search alone.
* `publish_track_up` may list a track after `remove_publish` has cleared the list
  (`internal.rs` 485): the list then has a track whose publisher has left. `TrackForward`
  has this step (`TrackUp`).
* The close event of a user is sent by the callback, the open event by a task of the
  data channel (`forward/rtc/mod.rs` 127, `internal.rs` 198): the open one may come last.
  `Relay` has these steps.
* An exit after a WebSocket's subscription and before `recv_task` has announced the
  user (`route/ws/mod.rs` 130) sends the close first, the open second, and no close
  again: the group counts the user as present. `Groups` has these steps.
* `remove_publish` sets the leave time in a section of its own (`internal.rs` 354); a
  publisher that returns just before has its reset undone, and the tick will
  close a stream in use. `PeerForward` has these steps.
* A unicast on a data channel is cut by its last byte (`internal.rs` 237: `n + 4` where
  the broadcast has `n + 5`). A message shorter than its address is read
  with the address of the one before in the buffer.
* A unicast to a user whose data channel is registered but not open, or no longer
  written, ends the read loop of the sender: it is mute (`internal.rs` 237-240).
  `Relay` has these steps; `ReadersFailByUnicast` says that nothing else does it.
* The end of one of a user's connections takes the map entry of the other
  (`internal.rs` 360, 670), which no unicast reaches from then on.
* Two selections in quick succession end the forwarding task for good
  (`subscribe.rs` 264), that of the sound too, as every selection is sent to both.
* A task that sees a cleared and refilled list only once keeps its track of the
  publisher that has left (`subscribe.rs` 143), and goes round its `select!` on a
  closed channel.
* Bound as `RID_ENABLE` (a client may ask for that as a layer), a task forwards the
  first track, but requests for a picture find no track of that name
  (`subscribe.rs` 295).

## 4. What is proved

All proofs are for any users, groups, connections, capacities, streams, tokens,
requests, publishers and tracks, from the named assumptions of the modules (that the special values are
not members of the sets they are added to, and the like).

`GroupsProofs`. `IInv` is inductive. The agreement of the collections is not
inductive by itself: one has to know that at most one process is inside the manager
and what it saw there is still so (`Exclusion`), and that a channel somebody
listens to was made by a connection of the same user and group (`Provenance`).
From it: `TypeCorrect`, `MembershipAgrees`, `IndexAgrees`, `UnwrapIsSafe`,
`NoZombies`, `MembersHaveConnections`, `AnnouncedArePresent`.

`GroupsRefinement`. `Implements`: `Spec => ImplementsMembership`. Joins map to
`Enter`, closes and evictions to `HangUp` and `Vacate`, all else stutters; the
agreement of members and sessions comes from `IInv`.

`RoomsProofs`. `IInv` adds to the types what each stage carries (`Carries`,
`StreamLeft`), that ROOMS is held from taking to release (`Exclusion`), that the
client being deleted is the one looked up (`SameClient`), and that whoever is in
the room is still on the list of `all_user_delete` (`AllCopied`). `Exclusion` says at
which stages each of the two locks is held, for ROOMS exactly, for the forwarder but
for the stage "adding", which `create` passes with it and `whip` without. From it:
`TypeCorrect`, `DeletedRoomsAreEmpty`, `NobodyWaitsInACircle` and, as an action
property, `OnlyOwnersLeave`. Nothing is assumed of the recursive `binary_search` but what
`remove_stream` tests, that it returned an index, so the proofs hold for every
implementation of it.

`TrackForwardProofs`. `IInv` joins the types and the invariants of `TrackForward` to
`AtRest`: a task that does not run has no track, one that never ran no binding,
and none starts without a subscriber. Without it a subscription could
start a task with somebody else's track, and nothing would be known of an empty list
for tasks that are over. From it: `TypeCorrect`, `ForwardsItsKind`, `BindingsAgree`,
`EmptyListForwardsNothing`, `RequestsArrive` and, as an action property,
`DisabledStays`. The assumptions are that tracks have numbers as rids, that the
special rids are not numbers, and that the bounds are numbers.

`RwLocksProofs`. What asking and giving back do to a line that is in order
(`InOrder`: nobody twice, between any two one is before the other), and that such
lines are locks: `WritersAreAlone`, `GrantsStay`. The lemmas speak of a set of records
and its order, so nothing has to be proved by induction over a sequence.

`PeerForwardProofs`. The heart of `IInv` is `LineInv`: which locks a task has or waits
for follows from where it stands (`Queues`), and the lines are in order. With it no
task asks twice; with `Exclusion`, that the holder of the forwarder is the only
handler under way, the lives of the connections can be told from the stages
(`SubscribersInv`, `PublishersInv`); `RemovalInv` says that whoever has found the
stream to remove it keeps `stream_map` to write, so that nobody else finds it;
`AbandonedInv` that a stream without publisher and leave time was never published, or a
callback is about to write the time. A connection that is closed before its callbacks
are set is never forgotten (`unheard`); `SubscribersInv` shows that this happens only
once the stream has gone. What `DeletedIsClosed` excepts, `spared`, is only what a
failing `close()` did not get to. From it: `TypeCorrect`, `NobodyAsksTwice`,
`DeletedStreamsAreClosed`, `SubscribeLeaveAgrees`, `AbandonedStreamsAreDue` and, as an
action property, `StreamsAreRemovedOnce`.

`PeerForwardRefinement`. `Implements`: `Spec => ImplementsStreamLife`. `SetPublish` maps
to `Publish`, `RemovePublish` to `Leave`, `AddSubscribe` to `Join`, `RemoveSubscribe` to
`Part`, `CloseAll` to `Delete` or `Reap`; the connection's own steps to `Connect` and
`End`, all else stutters. `IInv` is not enough: one has to know that a leave time, the
tick's finding and a subscription under way all come from somebody who has published,
sections ago (`EarlierInv`).

`RelayProofs`. For `NoGaps` the line of a connection is what was heard on it and what
its writer has still to write. While pipe and writer run, the line matches all that
the pipe has passed (`PassedInv`), and what it has not passed is the end of the log
(`QueueInv`). A writer that ends, by a lag or a close, drops the unheard part of its
line, so `FrontsInv` says of every front of the line beyond what was heard that it
matches some stretch of the log: that is what makes the invariant inductive. `Kept`, the
selection of the broadcasts, is a recursive function; what it does with a longer
sequence is proved by induction with the least element of a set, as the library's
induction takes an operator. From it: `TypeCorrect`, `NothingIsSkipped`,
`EntriesAreLostByTheirOwn` and, as an action property, `OnlyUnicastsFail`.

All the `IInv`s, and `EarlierInv`, were checked by TLC on instances like those above
before they were proved.

Only model-checked: liveness (`EvictedStopsReceiving`, `DoneLeaves`,
`RequestsAnswered`, `ClosedIsForgotten`, `HandlersReturn`, `BroadcastsAreHeard`,
`ClosedIsAnnounced`, `SubscribersAreServed`, `TasksEnd`), because the prover has no rules
for fairness and `ENABLED` here; and the violations. What `binary_search` finds, an
induction over its range, is not proved either, and no proof needs it. Every invariant, action property and
refinement that a passing run checks is also a theorem.

## 5. Not modelled

* The bytes of messages, on WebSockets and data channels: their length, and what the
  readers do with one that is shorter than an address or longer than the buffer. A
  WebSocket message that fails is one that ends `recv_task` (`RecvTaskEnds`).
* RTP packets, their sequence numbers, the RTCP messages themselves and the SDP from
  which `MediaInfo` is read.
* `Forwarder::forward_infos`, but for the forwarder that `infos` holds (`Rooms`): it changes
  nothing. It keeps `stream_map` to read across each `info()`, which keeps
  `subscribe_group` while it waits for `publish`; the first pass of the tick, which is
  modelled, does the same.
* The exchange of ICE candidates after a `whip` or `whep` is answered: it changes
  no state of the server.
* Parsing of requests, HTTP plumbing, listing of rooms, configuration, metrics,
  static files, conversions (no state); `libwish` (a client the server does not
  use); `Group::remove_group` (nobody calls it); the browser samples.

## 6. Plan

1. An abstract relay, what is sent to the group and how far each connection has heard
   it, implemented by `Relay`: `NoGaps` as a refinement.
2. Each stream of `Rooms` follows `StreamLife` from one removal to the next: so far that
   is read off the actions, not checked.
