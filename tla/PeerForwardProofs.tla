-------------------------- MODULE PeerForwardProofs --------------------------
(***************************************************************************)
(* Proofs about PeerForward, for any publishers and subscribers.           *)
(***************************************************************************)
EXTENDS PeerForward, RwLocksProofs

(* The locks that t has or waits for, by where it stands.                   *)
Queues(t, l) ==
    \/ /\ l = "stream_map"
       /\ \/ pc[t] \in {"looking", "finding"}
          \/ /\ t \in {Tick, Delete}
             /\ pc[t] \in {"info", "reading", "closing", "closing_all"}
    \/ /\ l = "subscribe_group"
       /\ \/ pc[t] \in {"adding", "info", "reading", "closing_all"}
          \/ At(t, "removing") /\ \E s \in Subscribers : t = Down(s)
    \/ /\ l = "publish"
       /\ \/ pc[t] \in {"awaiting", "checking", "rechecking", "setting", "reading",
                        "closing", "closing_all"}
          \/ At(t, "removing") /\ \E p \in Publishers : t = Down(p)

LineInv ==
    /\ pc \in [Tasks -> Stages]
    /\ line \in [Locks -> Lines(Tasks)]
    /\ \A l \in Locks : InOrder(line[l])
    /\ \A l \in Locks, t \in Tasks : InLine(line[l], t) <=> Queues(t, l)

(* Who has the forwarder is under way, and no other handler is.             *)
Exclusion ==
    /\ forwarder \in {NoTask, Delete} \cup {Up(x) : x \in Peers}
    /\ \A t \in {Delete} \cup {Up(x) : x \in Peers} :
        pc[t] \in {"idle", "over"} <=> forwarder # t

(* A subscriber is listed and new until its callbacks are set ...           *)
SubscribersInv ==
    \A s \in Subscribers :
        /\ pc[Up(s)] \in {"idle", "looking", "awaiting", "finding", "checking",
                           "rechecking", "building"} =>
            conn[s] = "none" /\ s \notin subscribe_group
        /\ At(Up(s), "adding") => conn[s] = "new" /\ s \notin subscribe_group
        /\ pc[Up(s)] \in {"stamping", "info", "reading"} =>
            conn[s] \in {"new", "unheard"} /\ s \in subscribe_group
        /\ conn[s] = "new" => pc[Up(s)] \in {"adding", "stamping", "info", "reading"}
        /\ ~At(Down(s), "idle") => conn[s] = "closed"
        /\ entry = "listed" => conn[s] # "unheard"

(* ... and a publisher is the stream's until its callback has removed it.   *)
PublishersInv ==
    \A p \in Publishers :
        /\ pc[Up(p)] \in {"idle", "finding", "checking", "building", "setting"} =>
            conn[p] = "none"
        /\ conn[p] # "new"
        /\ conn[p] = "none" => publish # p
        /\ ~At(Down(p), "idle") => conn[p] = "closed"
        /\ /\ conn[p] \in {"wired", "answered", "connected", "closed"}
           /\ pc[Down(p)] \in {"idle", "removing"}
           => publish = p
        /\ entry = "listed" /\ pc[Up(p)] \in {"stamping", "info", "reading"} =>
            conn[p] = "wired"

(* Nobody is about to join a stream that was deleted.                       *)
DeletedInv ==
    entry = "deleted" =>
        \A x \in Peers :
            pc[Up(x)] \in {"idle", "looking", "awaiting", "finding", "over"}

(* A stream without publisher and leave time was never published, or a      *)
(* callback is about to set the leave time.                                 *)
AbandonedInv ==
    entry = "listed" /\ publish = NoPeer /\ ~publish_leave_time =>
        \/ \A p \in Publishers : At(Down(p), "idle")
        \/ \E p \in Publishers : pc[Down(p)] \in {"clearing", "leaving"}

(* Who has found the stream that it will remove keeps the map to write.     *)
Removes(t) ==
    \/ t \in {Tick, Delete} /\ pc[t] \in {"closing", "closing_all"}
    \/ t = Tick /\ pass = 2 /\ pc[t] \in {"info", "reading"}

RemovalInv ==
    \A t \in Tasks : Removes(t) =>
        entry = "listed" /\ Heads(line["stream_map"], t)

IInv ==
    /\ TypeOK
    /\ LineInv
    /\ Exclusion
    /\ SubscribersInv
    /\ PublishersInv
    /\ DeletedInv
    /\ DeletedIsClosed
    /\ SubscribeLeaveAgreement
    /\ AbandonedInv
    /\ RemovalInv

-----------------------------------------------------------------------------
(* The tasks have different names.                                          *)
LEMMA TaskNames ==
    /\ Tick \in Tasks /\ Delete \in Tasks /\ Tick # Delete
    /\ \A x \in Peers :
        /\ Up(x) \in Tasks /\ Up(x) \notin {Tick, Delete, NoTask}
        /\ Down(x) \in Tasks /\ Down(x) \notin {Tick, Delete, NoTask}
        /\ \A y \in Peers : Up(x) # Down(y) /\ (x # y => Up(x) # Up(y) /\ Down(x) # Down(y))
    /\ \A p \in Publishers, s \in Subscribers : Down(p) # Down(s) /\ Up(p) # Up(s)
    /\ NoTask \notin Tasks
    /\ \A x \in Publishers : x \in Peers /\ x \notin Subscribers /\ x # NoPeer
    /\ \A x \in Subscribers : x \in Peers /\ x \notin Publishers /\ x # NoPeer
  BY TasksAreDistinct, PeersAreDistinct DEF Tasks, Tick, Delete, Up, Down, Peers

-----------------------------------------------------------------------------
(* What a step does to the lines: t asks for a lock, passes from one to the *)
(* other, gives one back, or gives all back; and stands where it says.      *)

LEMMA MovingStep ==
    ASSUME LineInv, NEW t \in Tasks, NEW stage \in Stages, Goto(t, stage),
           line' \in [Locks -> Lines(Tasks)],
           \A k \in Locks : InOrder(line'[k]),
           \A k \in Locks : InLine(line'[k], t) <=> Queues(t, k)',
           \A k \in Locks, u \in Tasks \ {t} : InLine(line'[k], u) <=> InLine(line[k], u)
    PROVE  LineInv'
<1>1. pc' \in [Tasks -> Stages] /\ \A u \in Tasks \ {t} : pc'[u] = pc[u]
  BY DEF LineInv, Goto
<1>2. \A u \in Tasks \ {t}, k \in Locks : Queues(u, k)' <=> Queues(u, k)
  BY <1>1 DEF Queues, At
<1>3. \A k \in Locks, u \in Tasks : InLine(line'[k], u) <=> Queues(u, k)'
  BY <1>2 DEF LineInv
<1> QED
  BY <1>1, <1>3 DEF LineInv

LEMMA AskingStep ==
    ASSUME LineInv, NEW t \in Tasks, NEW l \in Locks, NEW mode \in {"read", "write"},
           NEW stage \in Stages, Waits(t, l, mode), Goto(t, stage), ~Queues(t, l),
           \A k \in Locks : Queues(t, k)' <=> k = l \/ Queues(t, k)
    PROVE  LineInv' /\ \A u : Heads(line["stream_map"], u) => Heads(line'["stream_map"], u)
<1>1. ~InLine(line[l], t)
  BY DEF LineInv
<1>2. /\ Asked(line[l], t, mode) \in Lines(Tasks)
      /\ InOrder(Asked(line[l], t, mode))
      /\ \A u : InLine(Asked(line[l], t, mode), u) <=> u = t \/ InLine(line[l], u)
      /\ \A u : Heads(line[l], u) => Heads(Asked(line[l], t, mode), u)
  BY <1>1, AskedLine DEF LineInv
<1>3. line' = [line EXCEPT ![l] = Asked(line[l], t, mode)]
  BY DEF Waits
<1>4. /\ line' \in [Locks -> Lines(Tasks)]
      /\ \A k \in Locks : InOrder(line'[k])
      /\ \A k \in Locks : \A u : InLine(line'[k], u) <=> (k = l /\ u = t) \/ InLine(line[k], u)
  BY <1>2, <1>3 DEF LineInv
<1>5. \A u : Heads(line["stream_map"], u) => Heads(line'["stream_map"], u)
  BY <1>2, <1>3 DEF LineInv, Locks
<1>6. \A k \in Locks : InLine(line'[k], t) <=> Queues(t, k)'
  BY <1>4 DEF LineInv
<1> QED
  BY <1>4, <1>5, <1>6, MovingStep

LEMMA GivingStep ==
    ASSUME LineInv, NEW t \in Tasks, NEW l \in Locks, NEW stage \in Stages,
           GivesBack(t, l), Goto(t, stage),
           \A k \in Locks : Queues(t, k)' <=> k # l /\ Queues(t, k)
    PROVE  LineInv' /\ \A u : u # t /\ Heads(line["stream_map"], u)
                                => Heads(line'["stream_map"], u)
<1>1. /\ Given(line[l], t) \in Lines(Tasks)
      /\ InOrder(Given(line[l], t))
      /\ \A u : InLine(Given(line[l], t), u) <=> u # t /\ InLine(line[l], u)
      /\ \A u : u # t /\ Heads(line[l], u) => Heads(Given(line[l], t), u)
  BY GivenLine DEF LineInv
<1>2. line' = [line EXCEPT ![l] = Given(line[l], t)]
  BY DEF GivesBack
<1>3. /\ line' \in [Locks -> Lines(Tasks)]
      /\ \A k \in Locks : InOrder(line'[k])
      /\ \A k \in Locks : \A u : InLine(line'[k], u) <=> ~(k = l /\ u = t) /\ InLine(line[k], u)
  BY <1>1, <1>2 DEF LineInv
<1>4. \A u : u # t /\ Heads(line["stream_map"], u) => Heads(line'["stream_map"], u)
  BY <1>1, <1>2 DEF LineInv, Locks
<1>5. \A k \in Locks : InLine(line'[k], t) <=> Queues(t, k)'
  BY <1>3 DEF LineInv
<1> QED
  BY <1>3, <1>4, <1>5, MovingStep

LEMMA PassingStep ==
    ASSUME LineInv, NEW t \in Tasks, NEW from \in Locks, NEW to \in Locks,
           NEW mode \in {"read", "write"}, NEW stage \in Stages,
           Passes(t, from, to, mode), Goto(t, stage), from = to \/ ~Queues(t, to),
           \A k \in Locks : Queues(t, k)' <=> k = to \/ (k # from /\ Queues(t, k))
    PROVE  LineInv' /\ \A u : u # t /\ Heads(line["stream_map"], u)
                                => Heads(line'["stream_map"], u)
<1> DEFINE given(k) == Given(line[k], t)
           asked(ln) == Asked(ln, t, mode)
           last == IF from = to THEN given(to) ELSE line[to]
<1>1. \A k \in Locks : /\ given(k) \in Lines(Tasks) /\ InOrder(given(k))
                       /\ \A u : InLine(given(k), u) <=> u # t /\ InLine(line[k], u)
                       /\ \A u : u # t /\ Heads(line[k], u) => Heads(given(k), u)
  BY GivenLine DEF LineInv
<1>2. last \in Lines(Tasks) /\ InOrder(last) /\ ~InLine(last, t)
  BY <1>1 DEF LineInv
<1>3. /\ asked(last) \in Lines(Tasks) /\ InOrder(asked(last))
      /\ \A u : InLine(asked(last), u) <=> u = t \/ InLine(last, u)
      /\ \A u : Heads(last, u) => Heads(asked(last), u)
  BY <1>2, AskedLine
<1>4. line' = [[line EXCEPT ![from] = given(from)] EXCEPT ![to] = asked(last)]
  BY DEF Passes, LineInv
<1> HIDE DEF given, asked
<1>5. /\ \A u : InLine(last, u) <=> ~(from = to /\ u = t) /\ InLine(line[to], u)
      /\ \A u : u # t /\ Heads(line[to], u) => Heads(last, u)
  BY <1>1
<1> HIDE DEF last
<1>6. /\ line' \in [Locks -> Lines(Tasks)]
      /\ line'[to] = asked(last)
      /\ from # to => line'[from] = given(from)
      /\ \A k \in Locks \ {from, to} : line'[k] = line[k]
  BY <1>1, <1>3, <1>4 DEF LineInv
<1>7. \A k \in Locks : InOrder(line'[k])
  BY <1>1, <1>3, <1>6 DEF LineInv
<1>8. \A k \in Locks : InLine(line'[k], t) <=> Queues(t, k)'
  BY <1>1, <1>3, <1>6 DEF LineInv
<1>9. \A k \in Locks, u \in Tasks \ {t} : InLine(line'[k], u) <=> InLine(line[k], u)
  BY <1>1, <1>3, <1>5, <1>6
<1>10. \A u : u # t /\ Heads(line["stream_map"], u) => Heads(line'["stream_map"], u)
  BY <1>1, <1>3, <1>5, <1>6 DEF Locks
<1> QED
  BY <1>6, <1>7, <1>8, <1>9, <1>10, MovingStep

LEMMA ReturningStep ==
    ASSUME LineInv, NEW t \in Tasks, NEW stage \in Stages, Goto(t, stage),
           line' = [l \in Locks |-> Given(line[l], t)],
           \A k \in Locks : ~Queues(t, k)'
    PROVE  LineInv' /\ \A u : u # t /\ Heads(line["stream_map"], u)
                                => Heads(line'["stream_map"], u)
<1>1. \A k \in Locks :
        /\ line'[k] \in Lines(Tasks)
        /\ InOrder(line'[k])
        /\ \A u : InLine(line'[k], u) <=> u # t /\ InLine(line[k], u)
        /\ \A u : u # t /\ Heads(line[k], u) => Heads(line'[k], u)
  BY GivenLine DEF LineInv
<1>2. line' \in [Locks -> Lines(Tasks)]
  BY <1>1
<1>3. "stream_map" \in Locks
  BY DEF Locks
<1> QED
  BY <1>1, <1>2, <1>3, MovingStep

-----------------------------------------------------------------------------
(* The lines after each action of a task t: in order, and whoever else was  *)
(* at the head of the line for stream_map still is.                         *)
KeepsHeads(t) ==
    \A u : u # t /\ Heads(line["stream_map"], u) => Heads(line'["stream_map"], u)

LEMMA LeavingStep ==
    ASSUME LineInv, NEW t \in Tasks, NEW stage \in {"idle", "over"}, Returns(t, stage)
    PROVE  LineInv' /\ KeepsHeads(t)
<1>1. Goto(t, stage) /\ line' = [l \in Locks |-> Given(line[l], t)]
  BY DEF Returns
<1>2. stage \in Stages
  BY DEF Stages
<1>3. pc'[t] = stage
  BY <1>1 DEF Goto, LineInv
<1>4. \A k \in Locks : ~Queues(t, k)'
  BY <1>3 DEF Queues, At
<1> QED
  BY <1>1, <1>2, <1>4, ReturningStep DEF KeepsHeads

LEMMA HandlerLines ==
    ASSUME LineInv, NEW x \in Peers,
           StartUp(x) \/ Find(x)
    PROVE  LineInv' /\ KeepsHeads(Up(x))
<1>1. CASE StartUp(x)
  BY <1>1, AskingStep, TaskNames
  DEF StartUp, Queues, At, Goto, LineInv, Locks, Stages, KeepsHeads
<1>2. CASE Find(x)
  <2>1. CASE Returns(Up(x), "over")
    BY <2>1, LeavingStep, TaskNames
  <2>2. CASE ~Returns(Up(x), "over")
    <3>1. Passes(Up(x), "stream_map", "publish", "read") /\ Goto(Up(x), "checking")
      BY <1>2, <2>2 DEF Find
    <3>2. /\ "stream_map" = "publish" \/ ~Queues(Up(x), "publish")
         /\ \A k \in Locks : Queues(Up(x), k)' <=>
                k = "publish" \/ (k # "stream_map" /\ Queues(Up(x), k))
      BY <1>2, <2>2, TaskNames DEF Find, Queues, At, Goto, LineInv, Locks
    <3> QED
      BY <3>1, <3>2, PassingStep, TaskNames DEF Locks, Stages, KeepsHeads
  <2> QED
    BY <2>1, <2>2
<1> QED
  BY <1>1, <1>2

LEMMA PublishingLines ==
    ASSUME LineInv, NEW p \in Publishers,
           \/ CheckPublish(p) \/ BuildPublish(p) \/ SetPublish(p) \/ Returned(p)
           \/ InfoOfPublish(p)
    PROVE  LineInv' /\ KeepsHeads(Up(p))
<1>1. CASE CheckPublish(p)
  <2>1. CASE Returns(Up(p), "over")
    BY <2>1, LeavingStep, TaskNames
  <2>2. CASE ~Returns(Up(p), "over")
    BY <1>1, <2>2, GivingStep, TaskNames
    DEF CheckPublish, Queues, At, Goto, LineInv, Locks, Stages, KeepsHeads
  <2> QED
    BY <2>1, <2>2
<1>2. CASE BuildPublish(p)
  <2>1. CASE Returns(Up(p), "over")
    BY <2>1, LeavingStep, TaskNames
  <2>2. CASE ~Returns(Up(p), "over")
    BY <1>2, <2>2, AskingStep, TaskNames
    DEF BuildPublish, Queues, At, Goto, LineInv, Locks, Stages, KeepsHeads
  <2> QED
    BY <2>1, <2>2
<1>3. CASE SetPublish(p)
  BY <1>3, GivingStep, TaskNames
  DEF SetPublish, Queues, At, Goto, LineInv, Locks, Stages, KeepsHeads
<1>4. CASE Returned(p)
  BY <1>4, AskingStep, TaskNames
  DEF Returned, Queues, At, Goto, LineInv, Locks, Stages, KeepsHeads
<1>5. CASE InfoOfPublish(p)
  BY <1>5, LeavingStep, TaskNames DEF InfoOfPublish
<1> QED
  BY <1>1, <1>2, <1>3, <1>4, <1>5

LEMMA SubscribingLines ==
    ASSUME LineInv, NEW s \in Subscribers,
           \/ Look(s) \/ Await(s) \/ CheckSubscribe(s) \/ RecheckSubscribe(s)
           \/ BuildSubscribe(s) \/ AddSubscribe(s) \/ Subscribed(s)
           \/ InfoOfSubscribe(s) \/ CompleteSubscribe(s)
    PROVE  LineInv' /\ KeepsHeads(Up(s))
<1>1. CASE CheckSubscribe(s)
  <2>1. CASE Returns(Up(s), "over")
    BY <2>1, LeavingStep, TaskNames
  <2>2. CASE ~Returns(Up(s), "over")
    <3>1. Passes(Up(s), "publish", "publish", "read") /\ Goto(Up(s), "rechecking")
      BY <1>1, <2>2 DEF CheckSubscribe
    <3>2. /\ "publish" = "publish" \/ ~Queues(Up(s), "publish")
         /\ \A k \in Locks : Queues(Up(s), k)' <=>
                k = "publish" \/ (k # "publish" /\ Queues(Up(s), k))
      BY <1>1, <2>2, TaskNames DEF CheckSubscribe, Queues, At, Goto, LineInv, Locks
    <3> QED
      BY <3>1, <3>2, PassingStep, TaskNames DEF Locks, Stages, KeepsHeads
  <2> QED
    BY <2>1, <2>2
<1>2. CASE RecheckSubscribe(s)
  <2>1. CASE Returns(Up(s), "over")
    BY <2>1, LeavingStep, TaskNames
  <2>2. CASE ~Returns(Up(s), "over")
    <3>1. GivesBack(Up(s), "publish") /\ Goto(Up(s), "building")
      BY <1>2, <2>2 DEF RecheckSubscribe
    <3>2. \A k \in Locks : Queues(Up(s), k)' <=> k # "publish" /\ Queues(Up(s), k)
      BY <1>2, <3>1, TaskNames DEF RecheckSubscribe, Queues, At, Goto, LineInv, Locks
    <3> QED
      BY <3>1, <3>2, GivingStep, TaskNames DEF Locks, Stages, KeepsHeads
  <2> QED
    BY <2>1, <2>2
<1>3. CASE BuildSubscribe(s)
  <2>1. CASE Returns(Up(s), "over")
    BY <2>1, LeavingStep, TaskNames
  <2>2. CASE ~Returns(Up(s), "over")
    BY <1>3, <2>2, AskingStep, TaskNames
    DEF BuildSubscribe, Queues, At, Goto, LineInv, Locks, Stages, KeepsHeads
  <2> QED
    BY <2>1, <2>2
<1>4. CASE AddSubscribe(s)
  BY <1>4, GivingStep, TaskNames
  DEF AddSubscribe, Queues, At, Goto, LineInv, Locks, Stages, KeepsHeads
<1>5. CASE Subscribed(s)
  BY <1>5, AskingStep, TaskNames
  DEF Subscribed, Queues, At, Goto, LineInv, Locks, Stages, KeepsHeads
<1>6. CASE InfoOfSubscribe(s)
  BY <1>6, ReturningStep, TaskNames
  DEF InfoOfSubscribe, Queues, At, Goto, LineInv, Locks, Stages, KeepsHeads
<1>7. CASE CompleteSubscribe(s)
  BY <1>7, LeavingStep, TaskNames DEF CompleteSubscribe
<1>8. CASE Look(s)
  <2>1. CASE Returns(Up(s), "over")
    BY <2>1, LeavingStep, TaskNames
  <2>2. CASE ~Returns(Up(s), "over")
    <3>1. Passes(Up(s), "stream_map", "publish", "read") /\ Goto(Up(s), "awaiting")
      BY <1>8, <2>2 DEF Look
    <3>2. /\ "stream_map" = "publish" \/ ~Queues(Up(s), "publish")
         /\ \A k \in Locks : Queues(Up(s), k)' <=>
                k = "publish" \/ (k # "stream_map" /\ Queues(Up(s), k))
      BY <1>8, <3>1, TaskNames DEF Look, Queues, At, Goto, LineInv, Locks
    <3> QED
      BY <3>1, <3>2, PassingStep, TaskNames DEF Locks, Stages, KeepsHeads
  <2> QED
    BY <2>1, <2>2
<1>9. CASE Await(s)
  <2>1. PICK stage \in {"looking", "finding"} :
            Passes(Up(s), "publish", "stream_map", "read") /\ Goto(Up(s), stage)
    BY <1>9 DEF Await
  <2>2. /\ "publish" = "stream_map" \/ ~Queues(Up(s), "stream_map")
        /\ \A k \in Locks : Queues(Up(s), k)' <=>
               k = "stream_map" \/ (k # "publish" /\ Queues(Up(s), k))
    BY <1>9, <2>1, TaskNames DEF Await, Queues, At, Goto, LineInv, Locks
  <2> QED
    BY <2>1, <2>2, PassingStep, TaskNames DEF Locks, Stages, KeepsHeads
<1> QED
  BY <1>1, <1>2, <1>3, <1>4, <1>5, <1>6, <1>7, <1>8, <1>9

LEMMA CallbackLines ==
    ASSUME LineInv, NEW x \in Peers,
           Closed(x) \/ InfoOfDown(x)
    PROVE  LineInv' /\ KeepsHeads(Down(x))
<1>1. CASE Closed(x)
  <2>1. CASE x \in Publishers
    <3>1. Waits(Down(x), "publish", "write") /\ Goto(Down(x), "removing")
      BY <1>1, <2>1 DEF Closed
    <3>2. /\ ~Queues(Down(x), "publish")
          /\ \A k \in Locks : Queues(Down(x), k)' <=>
                k = "publish" \/ Queues(Down(x), k)
      BY <1>1, <2>1, <3>1, TaskNames DEF Closed, Queues, At, Goto, LineInv, Locks
    <3> QED
      BY <3>1, <3>2, AskingStep, TaskNames DEF Locks, Stages, KeepsHeads
  <2>2. CASE x \in Subscribers
    <3>1. Waits(Down(x), "subscribe_group", "write") /\ Goto(Down(x), "removing")
      BY <1>1, <2>2, TaskNames DEF Closed
    <3>2. /\ ~Queues(Down(x), "subscribe_group")
          /\ \A k \in Locks : Queues(Down(x), k)' <=>
                k = "subscribe_group" \/ Queues(Down(x), k)
      BY <1>1, <2>2, <3>1, TaskNames DEF Closed, Queues, At, Goto, LineInv, Locks
    <3> QED
      BY <3>1, <3>2, AskingStep, TaskNames DEF Locks, Stages, KeepsHeads
  <2> QED
    BY <2>1, <2>2 DEF Peers
<1>2. CASE InfoOfDown(x)
  BY <1>2, LeavingStep, TaskNames DEF InfoOfDown
<1> QED
  BY <1>1, <1>2

LEMMA UnpublishingLines ==
    ASSUME LineInv, NEW p \in Publishers,
           RemovePublish(p) \/ ClearTracks(p) \/ SetLeaveTime(p)
    PROVE  LineInv' /\ KeepsHeads(Down(p))
<1>1. CASE RemovePublish(p)
  <2>1. GivesBack(Down(p), "publish") /\ Goto(Down(p), "clearing")
    BY <1>1 DEF RemovePublish
  <2>2. \A k \in Locks : Queues(Down(p), k)' <=> k # "publish" /\ Queues(Down(p), k)
    BY <1>1, TaskNames DEF RemovePublish, Queues, At, Goto, LineInv, Locks
  <2> QED
    BY <2>1, <2>2, GivingStep, TaskNames DEF Locks, Stages, KeepsHeads
<1>2. CASE ClearTracks(p)
  BY <1>2, MovingStep, TaskNames
  DEF ClearTracks, Queues, At, Goto, LineInv, Locks, Stages, KeepsHeads
<1>3. CASE SetLeaveTime(p)
  BY <1>3, AskingStep, TaskNames
  DEF SetLeaveTime, Queues, At, Goto, LineInv, Locks, Stages, KeepsHeads
<1> QED
  BY <1>1, <1>2, <1>3

LEMMA UnsubscribingLines ==
    ASSUME LineInv, NEW s \in Subscribers,
           RemoveSubscribe(s)
    PROVE  LineInv' /\ KeepsHeads(Down(s))
<1>1. Passes(Down(s), "subscribe_group", "subscribe_group", "read") /\ Goto(Down(s), "info")
  BY DEF RemoveSubscribe
<1>2. /\ "subscribe_group" = "subscribe_group" \/ ~Queues(Down(s), "subscribe_group")
     /\ \A k \in Locks : Queues(Down(s), k)' <=>
            k = "subscribe_group" \/ (k # "subscribe_group" /\ Queues(Down(s), k))
  BY TaskNames DEF RemoveSubscribe, Queues, At, Goto, LineInv, Locks
<1> QED
  BY <1>1, <1>2, PassingStep, TaskNames DEF Locks, Stages, KeepsHeads

LEMMA ReadingLines ==
    ASSUME LineInv, NEW t \in Tasks,
           ReadGroup(t)
    PROVE  LineInv' /\ KeepsHeads(t)
  BY AskingStep, TaskNames
  DEF ReadGroup, Queues, At, Goto, LineInv, Locks, Stages, KeepsHeads

LEMMA ClosingLines ==
    ASSUME LineInv, NEW t \in {Tick, Delete},
           Close(t) \/ CloseAll(t)
    PROVE  LineInv' /\ KeepsHeads(t)
<1>1. CASE Close(t)
  <2>1. /\ pc[t] = "closing" /\ Goto(t, "closing_all")
        /\ pc'[t] = "closing_all"
        /\ Waits(t, "subscribe_group", "read")
    BY <1>1, TaskNames DEF Close, At, Goto, LineInv
  <2>2. /\ ~Queues(t, "subscribe_group")
        /\ \A k \in Locks : Queues(t, k)' <=> k = "subscribe_group" \/ Queues(t, k)
    BY <2>1, TaskNames DEF Queues, At, Locks
  <2> QED
    BY <2>1, <2>2, AskingStep, TaskNames DEF Locks, Stages, KeepsHeads
<1>2. CASE CloseAll(t)
  BY <1>2, LeavingStep, TaskNames DEF CloseAll
<1> QED
  BY <1>1, <1>2

LEMMA DeletingLines ==
    ASSUME LineInv,
           StartDelete \/ FindToDelete
    PROVE  LineInv' /\ KeepsHeads(Delete)
<1>1. CASE StartDelete
  BY <1>1, AskingStep, TaskNames
  DEF StartDelete, Queues, At, Goto, LineInv, Locks, Stages, KeepsHeads
<1>2. CASE FindToDelete
  <2>1. CASE Returns(Delete, "over")
    BY <2>1, LeavingStep, TaskNames
  <2>2. CASE ~Returns(Delete, "over")
    BY <1>2, <2>2, AskingStep, TaskNames
    DEF FindToDelete, Queues, At, Goto, LineInv, Locks, Stages, KeepsHeads
  <2> QED
    BY <2>1, <2>2
<1> QED
  BY <1>1, <1>2

LEMMA TickingLines ==
    ASSUME LineInv,
           TickStarts \/ TickFinds
    PROVE  LineInv' /\ KeepsHeads(Tick)
<1>1. CASE TickStarts
  BY <1>1, AskingStep, TaskNames
  DEF TickStarts, Queues, At, Goto, LineInv, Locks, Stages, KeepsHeads
<1>2. CASE TickFinds
  <2>1. CASE Returns(Tick, "over")
    BY <2>1, LeavingStep, TaskNames
  <2>2. CASE ~Returns(Tick, "over")
    BY <1>2, <2>2, AskingStep, TaskNames
    DEF TickFinds, Queues, At, Goto, LineInv, Locks, Stages, KeepsHeads
  <2> QED
    BY <2>1, <2>2
<1> QED
  BY <1>1, <1>2
LEMMA DecidingLines ==
    ASSUME LineInv, TickDecides
    PROVE  /\ LineInv' /\ KeepsHeads(Tick)
           /\ due /\ pass = 2 => line'["stream_map"] = line["stream_map"]
<1>1. At(Tick, "reading")
  BY DEF TickDecides
<1>2. CASE Returns(Tick, "idle") /\ ~due
  BY <1>2, LeavingStep, TaskNames
<1> DEFINE given(k) == Given(line[k], Tick)
           asked(k, mode) == Asked(given(k), Tick, mode)
<1>3. \A k \in Locks :
        /\ given(k) \in Lines(Tasks) /\ InOrder(given(k)) /\ ~InLine(given(k), Tick)
        /\ \A u : u # Tick => (InLine(given(k), u) <=> InLine(line[k], u))
        /\ \A u : u # Tick /\ Heads(line[k], u) => Heads(given(k), u)
  BY GivenLine, TaskNames DEF LineInv
<1>4. \A k \in Locks, mode \in {"read", "write"} :
        /\ asked(k, mode) \in Lines(Tasks) /\ InOrder(asked(k, mode))
        /\ InLine(asked(k, mode), Tick)
        /\ \A u : u # Tick => (InLine(asked(k, mode), u) <=> InLine(line[k], u))
        /\ \A u : u # Tick /\ Heads(line[k], u) => Heads(asked(k, mode), u)
  <2> HIDE DEF given
  <2> SUFFICES ASSUME NEW k \in Locks, NEW mode \in {"read", "write"}
               PROVE  /\ asked(k, mode) \in Lines(Tasks) /\ InOrder(asked(k, mode))
                      /\ InLine(asked(k, mode), Tick)
                      /\ \A u : u # Tick => (InLine(asked(k, mode), u) <=> InLine(line[k], u))
                      /\ \A u : u # Tick /\ Heads(line[k], u) => Heads(asked(k, mode), u)
    OBVIOUS
  <2>1. /\ asked(k, mode) \in Lines(Tasks) /\ InOrder(asked(k, mode))
        /\ \A u : InLine(asked(k, mode), u) <=> u = Tick \/ InLine(given(k), u)
        /\ \A u : Heads(given(k), u) => Heads(asked(k, mode), u)
    BY <1>3, AskedLine, TaskNames
  <2> QED
    BY <1>3, <2>1
<1>5. CASE ~(Returns(Tick, "idle") /\ ~due) /\ pass = 1
  <2>1. /\ Goto(Tick, "finding") /\ due
        /\ line' = [k \in Locks |-> IF k = "stream_map" THEN asked(k, "write") ELSE given(k)]
    BY <1>5 DEF TickDecides
  <2>2. \A k \in Locks : Queues(Tick, k)' <=> k = "stream_map"
    BY <2>1, TaskNames DEF Queues, At, Goto, LineInv, Locks
  <2> HIDE DEF given, asked
  <2>3. LineInv'
    BY <1>3, <1>4, <2>1, <2>2, MovingStep, TaskNames DEF Stages
  <2>4. KeepsHeads(Tick)
    BY <1>4, <2>1 DEF KeepsHeads, Locks
  <2> QED
    BY <1>5, <2>3, <2>4
<1>6. CASE ~(Returns(Tick, "idle") /\ ~due) /\ pass # 1
  <2>1. /\ Goto(Tick, "closing")
        /\ line' = [line EXCEPT !["subscribe_group"] = given("subscribe_group"),
                                !["publish"] = asked("publish", "read")]
    BY <1>6 DEF TickDecides
  <2>2. \A k \in Locks : Queues(Tick, k)' <=> k \in {"stream_map", "publish"}
    BY <2>1, TaskNames DEF Queues, At, Goto, LineInv, Locks
  <2> HIDE DEF given, asked
  <2>3. /\ line' \in [Locks -> Lines(Tasks)]
        /\ line'["stream_map"] = line["stream_map"]
        /\ line'["subscribe_group"] = given("subscribe_group")
        /\ line'["publish"] = asked("publish", "read")
    BY <1>3, <1>4, <2>1 DEF LineInv, Locks
  <2>4. InLine(line["stream_map"], Tick)
    BY <1>1, TaskNames DEF LineInv, Queues, At, Locks
  <2>5. LineInv'
    BY <1>3, <1>4, <2>1, <2>2, <2>3, <2>4, MovingStep, TaskNames
    DEF Stages, Locks, LineInv
  <2> QED
    BY <2>3, <2>5 DEF KeepsHeads
<1> QED
  BY <1>2, <1>5, <1>6

-----------------------------------------------------------------------------
(* IInv is inductive: the handlers, the callbacks, the deletion and the    *)
(* tick, and the connections.                                               *)

LEMMA HandlerSteps ==
    ASSUME IInv, NEW x \in Peers, StartUp(x) \/ Find(x)
    PROVE  IInv'
<1>1. LineInv' /\ KeepsHeads(Up(x))
  BY HandlerLines DEF IInv
<1>2. TypeOK'
  BY <1>1, TaskNames
  DEF IInv, TypeOK, LineInv, StartUp, Find, Returns, ForwarderFree, Goto, At,
      forward_vars, tick_vars, Lines
<1>3. Exclusion'
  BY TaskNames
  DEF IInv, TypeOK, Exclusion, StartUp, Find, Returns, ForwarderFree, Goto,
      At, forward_vars, tick_vars
<1>4. SubscribersInv'
  BY TaskNames
  DEF IInv, TypeOK, SubscribersInv, StartUp, Find, Returns, ForwarderFree,
      Goto, At, forward_vars, tick_vars
<1>5. PublishersInv'
  BY TaskNames
  DEF IInv, TypeOK, PublishersInv, StartUp, Find, Returns, ForwarderFree,
      Goto, At, forward_vars, tick_vars
<1>6. DeletedInv'
  BY TaskNames
  DEF IInv, TypeOK, Exclusion, DeletedInv, StartUp, Find, Returns,
      ForwarderFree, Goto, At, forward_vars, tick_vars
<1>7. DeletedIsClosed'
  BY TaskNames
  DEF IInv, TypeOK, Exclusion, SubscribersInv, PublishersInv, DeletedInv,
      DeletedIsClosed, StartUp, Find, Returns, ForwarderFree, Goto, At,
      forward_vars, tick_vars
<1>8. SubscribeLeaveAgreement'
  BY TaskNames
  DEF IInv, TypeOK, SubscribersInv, SubscribeLeaveAgreement, StartUp, Find,
      Returns, ForwarderFree, Goto, At, forward_vars, tick_vars
<1>9. AbandonedInv'
  BY TaskNames
  DEF IInv, TypeOK, PublishersInv, AbandonedInv, StartUp, Find, Returns,
      ForwarderFree, Goto, At, forward_vars, tick_vars
<1>10. RemovalInv'
  BY <1>1, TaskNames
  DEF IInv, TypeOK, RemovalInv, Removes, KeepsHeads, StartUp, Find, Returns,
      ForwarderFree, Goto, At, forward_vars, tick_vars
<1> QED
  BY <1>1, <1>2, <1>3, <1>4, <1>5, <1>6, <1>7, <1>8, <1>9, <1>10 DEF IInv

LEMMA PublishingSteps ==
    ASSUME IInv, NEW p \in Publishers, Publishing(p)
    PROVE  IInv'
<1>1. LineInv' /\ KeepsHeads(Up(p))
  BY PublishingLines DEF IInv, Publishing
<1>2. TypeOK'
  <2>1. /\ line' \in [Locks -> SUBSET [task : Tasks, mode : {"read", "write"},
                                        before : SUBSET Tasks]]
        /\ pc' \in [Tasks -> Stages] /\ pc'[Tick] = pc[Tick]
    BY <1>1, TaskNames
    DEF IInv, LineInv, Lines, Publishing, CheckPublish, BuildPublish, SetPublish,
        Returned, InfoOfPublish, Returns, Goto
  <2>2. /\ forwarder' \in Tasks \cup {NoTask}
        /\ publish' \in Publishers \cup {NoPeer}
        /\ publish_leave_time' \in BOOLEAN
    BY TaskNames
    DEF IInv, TypeOK, Publishing, CheckPublish, BuildPublish, SetPublish,
        Returned, InfoOfPublish, Returns, forward_vars
  <2>3. conn' \in [Peers -> {"none", "new", "wired", "answered", "connected",
                             "closed", "unheard"}]
    BY DEF IInv, TypeOK, Publishing, CheckPublish, BuildPublish, SetPublish,
           Returned, InfoOfPublish
  <2> QED
    BY <2>1, <2>2, <2>3
    DEF IInv, TypeOK, Publishing, CheckPublish, BuildPublish, SetPublish,
        Returned, InfoOfPublish, forward_vars, tick_vars
<1>3. Exclusion'
  BY TaskNames
  DEF IInv, TypeOK, Exclusion, Publishing, CheckPublish, BuildPublish,
      SetPublish, Returned, InfoOfPublish, Returns, Goto, At, forward_vars,
      tick_vars
<1>4. SubscribersInv'
  BY TaskNames
  DEF IInv, TypeOK, SubscribersInv, Publishing, CheckPublish, BuildPublish,
      SetPublish, Returned, InfoOfPublish, Returns, Goto, At, forward_vars,
      tick_vars
<1>5. PublishersInv'
  BY TaskNames
  DEF IInv, TypeOK, PublishersInv, Publishing, CheckPublish, BuildPublish,
      SetPublish, Returned, InfoOfPublish, Returns, Goto, At, forward_vars,
      tick_vars
<1>6. DeletedInv'
  BY TaskNames
  DEF IInv, TypeOK, Exclusion, DeletedInv, Publishing, CheckPublish,
      BuildPublish, SetPublish, Returned, InfoOfPublish, Returns, Goto, At,
      forward_vars, tick_vars
<1>7. DeletedIsClosed'
  BY TaskNames
  DEF IInv, TypeOK, Exclusion, SubscribersInv, PublishersInv, DeletedInv,
      DeletedIsClosed, Publishing, CheckPublish, BuildPublish, SetPublish,
      Returned, InfoOfPublish, Returns, Goto, At, forward_vars, tick_vars
<1>8. SubscribeLeaveAgreement'
  BY TaskNames
  DEF IInv, TypeOK, SubscribersInv, SubscribeLeaveAgreement, Publishing,
      CheckPublish, BuildPublish, SetPublish, Returned, InfoOfPublish,
      Returns, Goto, At, forward_vars, tick_vars
<1>9. AbandonedInv'
  BY TaskNames
  DEF IInv, TypeOK, PublishersInv, AbandonedInv, Publishing, CheckPublish,
      BuildPublish, SetPublish, Returned, InfoOfPublish, Returns, Goto, At,
      forward_vars, tick_vars
<1>10. RemovalInv'
  BY <1>1, TaskNames
  DEF IInv, TypeOK, RemovalInv, Removes, KeepsHeads, Publishing, CheckPublish,
      BuildPublish, SetPublish, Returned, InfoOfPublish, Returns, Goto, At,
      forward_vars, tick_vars
<1> QED
  BY <1>1, <1>2, <1>3, <1>4, <1>5, <1>6, <1>7, <1>8, <1>9, <1>10 DEF IInv

LEMMA SubscribingSteps ==
    ASSUME IInv, NEW s \in Subscribers, Subscribing(s)
    PROVE  IInv'
<1>1. LineInv' /\ KeepsHeads(Up(s))
  BY SubscribingLines DEF IInv, Subscribing
<1>2. TypeOK'
  BY <1>1, TaskNames
  DEF IInv, TypeOK, LineInv, Subscribing, Look, Await, CheckSubscribe, RecheckSubscribe,
      BuildSubscribe, AddSubscribe, Subscribed, InfoOfSubscribe,
      CompleteSubscribe, Returns, Goto, At, forward_vars, tick_vars, Lines
<1>3. Exclusion'
  BY TaskNames
  DEF IInv, TypeOK, Exclusion, Subscribing, Look, Await, CheckSubscribe, RecheckSubscribe,
      BuildSubscribe, AddSubscribe, Subscribed, InfoOfSubscribe,
      CompleteSubscribe, Returns, Goto, At, forward_vars, tick_vars
<1>4. SubscribersInv'
  BY TaskNames
  DEF IInv, TypeOK, SubscribersInv, Subscribing, Look, Await, CheckSubscribe,
      RecheckSubscribe, BuildSubscribe, AddSubscribe, Subscribed,
      InfoOfSubscribe, CompleteSubscribe, Returns, Goto, At, forward_vars,
      tick_vars
<1>5. PublishersInv'
  BY TaskNames
  DEF IInv, TypeOK, PublishersInv, Subscribing, Look, Await, CheckSubscribe,
      RecheckSubscribe, BuildSubscribe, AddSubscribe, Subscribed,
      InfoOfSubscribe, CompleteSubscribe, Returns, Goto, At, forward_vars,
      tick_vars
<1>6. DeletedInv'
  BY TaskNames
  DEF IInv, TypeOK, Exclusion, DeletedInv, Subscribing, Look, Await, CheckSubscribe,
      RecheckSubscribe, BuildSubscribe, AddSubscribe, Subscribed,
      InfoOfSubscribe, CompleteSubscribe, Returns, Goto, At, forward_vars,
      tick_vars
<1>7. DeletedIsClosed'
  BY TaskNames
  DEF IInv, TypeOK, Exclusion, SubscribersInv, PublishersInv, DeletedInv,
      DeletedIsClosed, Subscribing, Look, Await, CheckSubscribe, RecheckSubscribe,
      BuildSubscribe, AddSubscribe, Subscribed, InfoOfSubscribe,
      CompleteSubscribe, Returns, Goto, At, forward_vars, tick_vars
<1>8. SubscribeLeaveAgreement'
  BY TaskNames
  DEF IInv, TypeOK, SubscribersInv, SubscribeLeaveAgreement, Subscribing,
      Look, Await, CheckSubscribe, RecheckSubscribe, BuildSubscribe, AddSubscribe,
      Subscribed, InfoOfSubscribe, CompleteSubscribe, Returns, Goto, At,
      forward_vars, tick_vars
<1>9. AbandonedInv'
  BY TaskNames
  DEF IInv, TypeOK, PublishersInv, AbandonedInv, Subscribing, Look, Await, CheckSubscribe,
      RecheckSubscribe, BuildSubscribe, AddSubscribe, Subscribed,
      InfoOfSubscribe, CompleteSubscribe, Returns, Goto, At, forward_vars,
      tick_vars
<1>10. RemovalInv'
  BY <1>1, TaskNames
  DEF IInv, TypeOK, RemovalInv, Removes, KeepsHeads, Subscribing,
      Look, Await, CheckSubscribe, RecheckSubscribe, BuildSubscribe, AddSubscribe,
      Subscribed, InfoOfSubscribe, CompleteSubscribe, Returns, Goto, At,
      forward_vars, tick_vars
<1> QED
  BY <1>1, <1>2, <1>3, <1>4, <1>5, <1>6, <1>7, <1>8, <1>9, <1>10 DEF IInv

LEMMA CallbackSteps ==
    ASSUME IInv, NEW x \in Peers, Closed(x) \/ InfoOfDown(x)
    PROVE  IInv'
<1>1. LineInv' /\ KeepsHeads(Down(x))
  BY CallbackLines DEF IInv
<1>2. TypeOK'
  BY <1>1, TaskNames
  DEF IInv, TypeOK, LineInv, Closed, InfoOfDown, Returns, Goto, At,
      forward_vars, tick_vars, Lines
<1>3. Exclusion'
  BY TaskNames
  DEF IInv, TypeOK, Exclusion, Closed, InfoOfDown, Returns, Goto, At,
      forward_vars, tick_vars
<1>4. SubscribersInv'
  BY TaskNames
  DEF IInv, TypeOK, SubscribersInv, Closed, InfoOfDown, Returns, Goto, At,
      forward_vars, tick_vars
<1>5. PublishersInv'
  BY TaskNames
  DEF IInv, TypeOK, PublishersInv, Closed, InfoOfDown, Returns, Goto, At,
      forward_vars, tick_vars
<1>6. DeletedInv'
  BY TaskNames
  DEF IInv, TypeOK, Exclusion, DeletedInv, Closed, InfoOfDown, Returns, Goto,
      At, forward_vars, tick_vars
<1>7. DeletedIsClosed'
  BY TaskNames
  DEF IInv, TypeOK, Exclusion, SubscribersInv, PublishersInv, DeletedInv,
      DeletedIsClosed, Closed, InfoOfDown, Returns, Goto, At, forward_vars,
      tick_vars
<1>8. SubscribeLeaveAgreement'
  BY TaskNames
  DEF IInv, TypeOK, SubscribersInv, SubscribeLeaveAgreement, Closed,
      InfoOfDown, Returns, Goto, At, forward_vars, tick_vars
<1>9. AbandonedInv'
  BY TaskNames
  DEF IInv, TypeOK, PublishersInv, AbandonedInv, Closed, InfoOfDown, Returns,
      Goto, At, forward_vars, tick_vars
<1>10. RemovalInv'
  BY <1>1, TaskNames
  DEF IInv, TypeOK, RemovalInv, Removes, KeepsHeads, Closed, InfoOfDown,
      Returns, Goto, At, forward_vars, tick_vars
<1> QED
  BY <1>1, <1>2, <1>3, <1>4, <1>5, <1>6, <1>7, <1>8, <1>9, <1>10 DEF IInv

LEMMA UnpublishingSteps ==
    ASSUME IInv, NEW p \in Publishers, Unpublishing(p)
    PROVE  IInv'
<1>1. LineInv' /\ KeepsHeads(Down(p))
  BY UnpublishingLines DEF IInv, Unpublishing
<1>2. TypeOK'
  BY <1>1, TaskNames
  DEF IInv, TypeOK, LineInv, Unpublishing, RemovePublish, ClearTracks,
      SetLeaveTime, Goto, At, forward_vars, tick_vars, Lines
<1>3. Exclusion'
  BY TaskNames
  DEF IInv, TypeOK, Exclusion, Unpublishing, RemovePublish, ClearTracks,
      SetLeaveTime, Goto, At, forward_vars, tick_vars
<1>4. SubscribersInv'
  BY TaskNames
  DEF IInv, TypeOK, SubscribersInv, Unpublishing, RemovePublish, ClearTracks,
      SetLeaveTime, Goto, At, forward_vars, tick_vars
<1>5. PublishersInv'
  BY TaskNames
  DEF IInv, TypeOK, PublishersInv, Unpublishing, RemovePublish, ClearTracks,
      SetLeaveTime, Goto, At, forward_vars, tick_vars
<1>6. DeletedInv'
  BY TaskNames
  DEF IInv, TypeOK, Exclusion, DeletedInv, Unpublishing, RemovePublish,
      ClearTracks, SetLeaveTime, Goto, At, forward_vars, tick_vars
<1>7. DeletedIsClosed'
  BY TaskNames
  DEF IInv, TypeOK, Exclusion, SubscribersInv, PublishersInv, DeletedInv,
      DeletedIsClosed, Unpublishing, RemovePublish, ClearTracks, SetLeaveTime,
      Goto, At, forward_vars, tick_vars
<1>8. SubscribeLeaveAgreement'
  BY TaskNames
  DEF IInv, TypeOK, SubscribersInv, SubscribeLeaveAgreement, Unpublishing,
      RemovePublish, ClearTracks, SetLeaveTime, Goto, At, forward_vars,
      tick_vars
<1>9. AbandonedInv'
  BY TaskNames
  DEF IInv, TypeOK, PublishersInv, AbandonedInv, Unpublishing, RemovePublish,
      ClearTracks, SetLeaveTime, Goto, At, forward_vars, tick_vars
<1>10. RemovalInv'
  BY <1>1, TaskNames
  DEF IInv, TypeOK, RemovalInv, Removes, KeepsHeads, Unpublishing,
      RemovePublish, ClearTracks, SetLeaveTime, Goto, At, forward_vars,
      tick_vars
<1> QED
  BY <1>1, <1>2, <1>3, <1>4, <1>5, <1>6, <1>7, <1>8, <1>9, <1>10 DEF IInv

LEMMA UnsubscribingSteps ==
    ASSUME IInv, NEW s \in Subscribers, RemoveSubscribe(s)
    PROVE  IInv'
<1>1. LineInv' /\ KeepsHeads(Down(s))
  BY UnsubscribingLines DEF IInv
<1>2. TypeOK'
  BY <1>1, TaskNames
  DEF IInv, TypeOK, LineInv, RemoveSubscribe, Goto, At, forward_vars,
      tick_vars, Lines
<1>3. Exclusion'
  BY TaskNames
  DEF IInv, TypeOK, Exclusion, RemoveSubscribe, Goto, At, forward_vars,
      tick_vars
<1>4. SubscribersInv'
  BY TaskNames
  DEF IInv, TypeOK, SubscribersInv, RemoveSubscribe, Goto, At, forward_vars,
      tick_vars
<1>5. PublishersInv'
  BY TaskNames
  DEF IInv, TypeOK, PublishersInv, RemoveSubscribe, Goto, At, forward_vars,
      tick_vars
<1>6. DeletedInv'
  BY TaskNames
  DEF IInv, TypeOK, Exclusion, DeletedInv, RemoveSubscribe, Goto, At,
      forward_vars, tick_vars
<1>7. DeletedIsClosed'
  BY TaskNames
  DEF IInv, TypeOK, Exclusion, SubscribersInv, PublishersInv, DeletedInv,
      DeletedIsClosed, RemoveSubscribe, Goto, At, forward_vars, tick_vars
<1>8. SubscribeLeaveAgreement'
  BY TaskNames
  DEF IInv, TypeOK, SubscribersInv, SubscribeLeaveAgreement, RemoveSubscribe,
      Goto, At, forward_vars, tick_vars
<1>9. AbandonedInv'
  BY TaskNames
  DEF IInv, TypeOK, PublishersInv, AbandonedInv, RemoveSubscribe, Goto, At,
      forward_vars, tick_vars
<1>10. RemovalInv'
  BY <1>1, TaskNames
  DEF IInv, TypeOK, RemovalInv, Removes, KeepsHeads, RemoveSubscribe, Goto,
      At, forward_vars, tick_vars
<1> QED
  BY <1>1, <1>2, <1>3, <1>4, <1>5, <1>6, <1>7, <1>8, <1>9, <1>10 DEF IInv

LEMMA ReadingSteps ==
    ASSUME IInv, NEW t \in Tasks, ReadGroup(t)
    PROVE  IInv'
<1>1. LineInv' /\ KeepsHeads(t)
  BY ReadingLines DEF IInv
<1>2. TypeOK'
  BY <1>1, TaskNames
  DEF IInv, TypeOK, LineInv, ReadGroup, Goto, At, forward_vars, tick_vars,
      Lines
<1>3. Exclusion'
  BY TaskNames
  DEF IInv, TypeOK, Exclusion, ReadGroup, Goto, At, forward_vars, tick_vars
<1>4. SubscribersInv'
  BY TaskNames
  DEF IInv, TypeOK, SubscribersInv, ReadGroup, Goto, At, forward_vars,
      tick_vars
<1>5. PublishersInv'
  BY TaskNames
  DEF IInv, TypeOK, PublishersInv, ReadGroup, Goto, At, forward_vars,
      tick_vars
<1>6. DeletedInv'
  BY TaskNames
  DEF IInv, TypeOK, Exclusion, DeletedInv, ReadGroup, Goto, At, forward_vars,
      tick_vars
<1>7. DeletedIsClosed'
  BY TaskNames
  DEF IInv, TypeOK, Exclusion, SubscribersInv, PublishersInv, DeletedInv,
      DeletedIsClosed, ReadGroup, Goto, At, forward_vars, tick_vars
<1>8. SubscribeLeaveAgreement'
  BY TaskNames
  DEF IInv, TypeOK, SubscribersInv, SubscribeLeaveAgreement, ReadGroup, Goto,
      At, forward_vars, tick_vars
<1>9. AbandonedInv'
  BY TaskNames
  DEF IInv, TypeOK, PublishersInv, AbandonedInv, ReadGroup, Goto, At,
      forward_vars, tick_vars
<1>10. RemovalInv'
  <2>1. line'["stream_map"] = line["stream_map"]
    BY DEF IInv, LineInv, ReadGroup, Waits, Locks
  <2> QED
    BY <2>1, TaskNames
    DEF IInv, TypeOK, RemovalInv, Removes, ReadGroup, Goto, At, tick_vars
<1> QED
  BY <1>1, <1>2, <1>3, <1>4, <1>5, <1>6, <1>7, <1>8, <1>9, <1>10 DEF IInv

LEMMA DeletingSteps ==
    ASSUME IInv, StartDelete \/ FindToDelete
    PROVE  IInv'
<1>1. LineInv' /\ KeepsHeads(Delete)
  BY DeletingLines DEF IInv
<1>2. TypeOK'
  BY <1>1, TaskNames
  DEF IInv, TypeOK, LineInv, StartDelete, FindToDelete, Returns,
      ForwarderFree, Goto, At, forward_vars, tick_vars, Lines
<1>3. Exclusion'
  BY TaskNames
  DEF IInv, TypeOK, Exclusion, StartDelete, FindToDelete, Returns,
      ForwarderFree, Goto, At, forward_vars, tick_vars
<1>4. SubscribersInv'
  BY TaskNames
  DEF IInv, TypeOK, SubscribersInv, StartDelete, FindToDelete, Returns,
      ForwarderFree, Goto, At, forward_vars, tick_vars
<1>5. PublishersInv'
  BY TaskNames
  DEF IInv, TypeOK, PublishersInv, StartDelete, FindToDelete, Returns,
      ForwarderFree, Goto, At, forward_vars, tick_vars
<1>6. DeletedInv'
  BY TaskNames
  DEF IInv, TypeOK, Exclusion, DeletedInv, StartDelete, FindToDelete, Returns,
      ForwarderFree, Goto, At, forward_vars, tick_vars
<1>7. DeletedIsClosed'
  BY TaskNames
  DEF IInv, TypeOK, Exclusion, SubscribersInv, PublishersInv, DeletedInv,
      DeletedIsClosed, StartDelete, FindToDelete, Returns, ForwarderFree,
      Goto, At, forward_vars, tick_vars
<1>8. SubscribeLeaveAgreement'
  BY TaskNames
  DEF IInv, TypeOK, SubscribersInv, SubscribeLeaveAgreement, StartDelete,
      FindToDelete, Returns, ForwarderFree, Goto, At, forward_vars, tick_vars
<1>9. AbandonedInv'
  BY TaskNames
  DEF IInv, TypeOK, PublishersInv, AbandonedInv, StartDelete, FindToDelete,
      Returns, ForwarderFree, Goto, At, forward_vars, tick_vars
<1>10. RemovalInv'
  <2>1. CASE Removes(Delete)'
    <3>1. FindToDelete /\ ~Returns(Delete, "over")
      BY <2>1, TaskNames
      DEF IInv, TypeOK, Removes, StartDelete, FindToDelete, Returns, Goto
    <3>2. entry' = "listed" /\ Has(Delete, "stream_map", "write")
      BY <3>1 DEF FindToDelete
    <3>3. line'["stream_map"] = line["stream_map"]
      BY <3>1 DEF IInv, LineInv, FindToDelete, Waits, Locks
    <3>4. Heads(line'["stream_map"], Delete)
      BY <3>2, <3>3, WriterHeads DEF Has
    <3> QED
      BY <1>1, <3>1, <3>2, <3>4, TaskNames
      DEF IInv, TypeOK, RemovalInv, Removes, KeepsHeads, FindToDelete, Goto,
          tick_vars
  <2>2. CASE ~Removes(Delete)'
    BY <1>1, <2>2, TaskNames
    DEF IInv, TypeOK, RemovalInv, Removes, KeepsHeads, StartDelete,
        FindToDelete, Returns, Goto, tick_vars
  <2> QED
    BY <2>1, <2>2
<1> QED
  BY <1>1, <1>2, <1>3, <1>4, <1>5, <1>6, <1>7, <1>8, <1>9, <1>10 DEF IInv

LEMMA TickingSteps ==
    ASSUME IInv, TickStarts \/ TickFinds \/ TickDecides
    PROVE  IInv'
<1>1. LineInv' /\ KeepsHeads(Tick)
  BY TickingLines, DecidingLines DEF IInv
<1>2. TypeOK'
  BY <1>1, TaskNames
  DEF IInv, TypeOK, LineInv, TickStarts, TickFinds, TickDecides, Returns,
      Goto, At, forward_vars, tick_vars, Lines
<1>3. Exclusion'
  BY TaskNames
  DEF IInv, TypeOK, Exclusion, TickStarts, TickFinds, TickDecides, Returns,
      Goto, At, forward_vars, tick_vars
<1>4. SubscribersInv'
  BY TaskNames
  DEF IInv, TypeOK, SubscribersInv, TickStarts, TickFinds, TickDecides,
      Returns, Goto, At, forward_vars, tick_vars
<1>5. PublishersInv'
  BY TaskNames
  DEF IInv, TypeOK, PublishersInv, TickStarts, TickFinds, TickDecides,
      Returns, Goto, At, forward_vars, tick_vars
<1>6. DeletedInv'
  BY TaskNames
  DEF IInv, TypeOK, Exclusion, DeletedInv, TickStarts, TickFinds, TickDecides,
      Returns, Goto, At, forward_vars, tick_vars
<1>7. DeletedIsClosed'
  BY TaskNames
  DEF IInv, TypeOK, Exclusion, SubscribersInv, PublishersInv, DeletedInv,
      DeletedIsClosed, TickStarts, TickFinds, TickDecides, Returns, Goto, At,
      forward_vars, tick_vars
<1>8. SubscribeLeaveAgreement'
  BY TaskNames
  DEF IInv, TypeOK, SubscribersInv, SubscribeLeaveAgreement, TickStarts,
      TickFinds, TickDecides, Returns, Goto, At, forward_vars, tick_vars
<1>9. AbandonedInv'
  BY TaskNames
  DEF IInv, TypeOK, PublishersInv, AbandonedInv, TickStarts, TickFinds,
      TickDecides, Returns, Goto, At, forward_vars, tick_vars
<1>10. RemovalInv'
  <2>1. ASSUME NEW u \in Tasks \ {Tick}, Removes(u)'
        PROVE  entry' = "listed" /\ Heads(line'["stream_map"], u)
    <3>1. Removes(u) /\ entry' = entry
      BY <2>1, TaskNames
      DEF IInv, TypeOK, Removes, TickStarts, TickFinds, TickDecides, Returns, Goto
    <3> QED
      BY <1>1, <3>1 DEF IInv, RemovalInv, KeepsHeads
  <2>2. ASSUME Removes(Tick)'
        PROVE  entry' = "listed" /\ Heads(line'["stream_map"], Tick)
    <3>1. CASE TickFinds
      <4>1. /\ pass = 2 /\ entry = "listed" /\ entry' = entry
            /\ Waits(Tick, "subscribe_group", "read")
            /\ Has(Tick, "stream_map", "write")
        BY <2>2, <3>1, TaskNames
        DEF IInv, TypeOK, Removes, TickFinds, Returns, Goto, tick_vars
      <4>2. line'["stream_map"] = line["stream_map"]
        BY <4>1 DEF IInv, LineInv, Waits, Locks
      <4> QED
        BY <4>1, <4>2, WriterHeads DEF Has
    <3>2. CASE TickDecides
      <4>1. due /\ pass = 2 /\ At(Tick, "reading") /\ entry' = entry
        BY <2>2, <3>2, TaskNames
        DEF IInv, TypeOK, Removes, TickDecides, Returns, Goto, At
      <4>2. line'["stream_map"] = line["stream_map"]
        BY <3>2, <4>1, DecidingLines DEF IInv
      <4> QED
        BY <4>1, <4>2, TaskNames DEF IInv, RemovalInv, Removes, At
    <3>3. ~TickStarts
      BY <2>2, TaskNames DEF IInv, TypeOK, Removes, TickStarts, Goto
    <3> QED
      BY <3>1, <3>2, <3>3
  <2> QED
    BY <2>1, <2>2 DEF RemovalInv
<1> QED
  BY <1>1, <1>2, <1>3, <1>4, <1>5, <1>6, <1>7, <1>8, <1>9, <1>10 DEF IInv

LEMMA ClosingSteps ==
    ASSUME IInv, NEW t \in {Tick, Delete}, Close(t) \/ CloseAll(t)
    PROVE  IInv'
<1>1. LineInv' /\ KeepsHeads(t)
  BY ClosingLines DEF IInv
<1>2. TypeOK'
  BY <1>1, TaskNames
  DEF IInv, TypeOK, LineInv, Close, CloseAll, Reached, Returns, Goto, At,
      forward_vars, tick_vars, Lines
<1>3. Exclusion'
  BY TaskNames
  DEF IInv, TypeOK, Exclusion, Close, CloseAll, Returns, Goto, At,
      forward_vars, tick_vars
<1>4. SubscribersInv'
  <2>1. CASE Close(t)
    BY <2>1, TaskNames
    DEF IInv, TypeOK, SubscribersInv, Close, Goto, At, forward_vars
  <2>2. CASE CloseAll(t)
    <3>1. /\ pc' = [pc EXCEPT ![t] = "over"]
          /\ subscribe_group' = subscribe_group
          /\ \A s \in Subscribers :
                \/ conn'[s] = conn[s]
                \/ /\ s \in subscribe_group
                   /\ conn'[s] = IF conn[s] = "new" THEN "unheard" ELSE "closed"
      BY <2>2, TaskNames
      DEF IInv, TypeOK, CloseAll, Reached, Returns, Goto, forward_vars
    <3>2. \A s \in Subscribers : /\ pc'[Up(s)] = pc[Up(s)]
                                /\ pc'[Down(s)] = pc[Down(s)]
      BY <3>1, TaskNames DEF IInv, TypeOK
    <3>3. entry = "listed" /\ entry' # "listed"
      BY <2>2, TaskNames DEF IInv, RemovalInv, Removes, CloseAll, At
    <3> QED
      BY <3>1, <3>2, <3>3 DEF IInv, SubscribersInv, At
  <2> QED
    BY <2>1, <2>2
<1>5. PublishersInv'
  BY TaskNames
  DEF IInv, TypeOK, PublishersInv, Close, CloseAll, Reached, Returns, Goto, At,
      forward_vars, tick_vars
<1>6. DeletedInv'
  BY TaskNames
  DEF IInv, TypeOK, Exclusion, DeletedInv, Close, CloseAll, Returns, Goto, At,
      forward_vars, tick_vars
<1>7. DeletedIsClosed'
  <2>1. CASE Close(t)
    BY <2>1 DEF IInv, DeletedIsClosed, Close, forward_vars
  <2>2. CASE CloseAll(t) /\ t = Tick
    BY <2>2 DEF DeletedIsClosed, CloseAll
  <2>3. CASE CloseAll(t) /\ t = Delete
    <3>1. \A x \in Peers : conn[x] # "new"
      BY <2>3, TaskNames
      DEF IInv, Exclusion, SubscribersInv, PublishersInv, CloseAll, At, Peers
    <3>2. UNCHANGED <<publish, subscribe_group>>
      BY <2>3 DEF CloseAll, forward_vars
    <3>3. subscribe_group \cup ({publish} \ {NoPeer}) \subseteq Peers
      BY DEF IInv, TypeOK, Peers
    <3>4. \A x \in subscribe_group \cup ({publish} \ {NoPeer}) :
              conn'[x] = "closed" \/ x \in spared'
      BY <2>3, <3>1, <3>3 DEF CloseAll
    <3> QED
      BY <3>2, <3>4 DEF DeletedIsClosed
  <2> QED
    BY <2>1, <2>2, <2>3
<1>8. SubscribeLeaveAgreement'
  BY TaskNames
  DEF IInv, TypeOK, SubscribersInv, SubscribeLeaveAgreement, Close, CloseAll,
      Returns, Goto, At, forward_vars, tick_vars
<1>9. AbandonedInv'
  BY TaskNames
  DEF IInv, TypeOK, PublishersInv, AbandonedInv, Close, CloseAll, Returns,
      Goto, At, forward_vars, tick_vars
<1>10. RemovalInv'
  <2>1. CASE Close(t)
    <3>1. line'["stream_map"] = line["stream_map"]
      BY <2>1 DEF IInv, LineInv, Close, Waits, Locks
    <3> QED
      BY <2>1, <3>1, TaskNames
      DEF IInv, TypeOK, RemovalInv, Removes, Close, Goto, At, tick_vars
  <2>2. CASE CloseAll(t)
    <3>1. Heads(line["stream_map"], t) /\ InOrder(line["stream_map"])
      BY <2>2, TaskNames
      DEF IInv, LineInv, RemovalInv, Removes, CloseAll, At, Locks
    <3>2. \A u \in Tasks : Removes(u) => u = t
      BY <3>1, OneHead DEF IInv, RemovalInv
    <3>3. \A u \in Tasks : ~Removes(u)'
      BY <2>2, <3>2, TaskNames
      DEF IInv, TypeOK, Removes, CloseAll, Returns, Goto, tick_vars
    <3> QED
      BY <3>3 DEF RemovalInv
  <2> QED
    BY <2>1, <2>2
<1> QED
  BY <1>1, <1>2, <1>3, <1>4, <1>5, <1>6, <1>7, <1>8, <1>9, <1>10 DEF IInv

LEMMA ConnectionSteps ==
    ASSUME IInv, NEW x \in Peers, Settle(x) \/ HangUp(x)
    PROVE  IInv'
<1>1. /\ UNCHANGED <<entry, spared, forward_vars, track, line, forwarder, pc, tick_vars>>
      /\ conn[x] \in {"answered", "connected"}
      /\ \E state \in {"connected", "closed"} : conn' = [conn EXCEPT ![x] = state]
  BY DEF Settle, HangUp
<1>2. LineInv' /\ TypeOK'
  BY <1>1 DEF IInv, LineInv, TypeOK, Queues, At, forward_vars, tick_vars
<1>3. Exclusion' /\ DeletedInv' /\ SubscribeLeaveAgreement' /\ AbandonedInv' /\ RemovalInv'
  BY <1>1
  DEF IInv, Exclusion, DeletedInv, SubscribeLeaveAgreement, AbandonedInv,
      RemovalInv, Removes, At, forward_vars, tick_vars
<1>4. SubscribersInv'
  BY <1>1 DEF IInv, TypeOK, SubscribersInv, At, forward_vars
<1>5. PublishersInv'
  BY <1>1 DEF IInv, TypeOK, PublishersInv, At, forward_vars
<1>6. DeletedIsClosed'
  BY <1>1, TaskNames DEF IInv, TypeOK, DeletedIsClosed, forward_vars
<1> QED
  BY <1>2, <1>3, <1>4, <1>5, <1>6 DEF IInv

LEMMA TrackSteps ==
    ASSUME IInv, NEW p \in Publishers, OnTrack(p) \/ TrackUp(p)
    PROVE  IInv'
<1>1. /\ UNCHANGED <<entry, spared, publish, publish_leave_time, subscribe_group,
                     subscribe_leave_time, conn, line, forwarder, pc, tick_vars>>
      /\ TypeOK'
  BY DEF IInv, TypeOK, OnTrack, TrackUp, forward_vars, tick_vars
<1> QED
  BY <1>1
  DEF IInv, LineInv, Queues, Exclusion, SubscribersInv, PublishersInv, DeletedInv,
      DeletedIsClosed, SubscribeLeaveAgreement, AbandonedInv, RemovalInv, Removes,
      At, tick_vars

-----------------------------------------------------------------------------
(* IInv holds at first and is inductive.                                    *)
LEMMA Initially == Init => IInv
<1> SUFFICES ASSUME Init PROVE IInv
  OBVIOUS
<1>1. LineInv
  <2>1. \A l \in Locks : /\ line[l] \in Lines(Tasks) /\ InOrder(line[l])
                         /\ \A u : ~InLine(line[l], u)
    BY UnlockedLine DEF Init
  <2>2. line \in [Locks -> Lines(Tasks)]
    BY <2>1 DEF Init
  <2> QED
    BY <2>1, <2>2 DEF Init, LineInv, Queues, At, Stages
<1>2. TypeOK
  BY <1>1, TaskNames DEF Init, TypeOK, LineInv, Lines, Stages
<1>3. Exclusion /\ SubscribersInv /\ PublishersInv
  BY TaskNames DEF Init, Exclusion, SubscribersInv, PublishersInv, At
<1>4. DeletedInv /\ DeletedIsClosed /\ SubscribeLeaveAgreement
  BY DEF Init, DeletedInv, DeletedIsClosed, SubscribeLeaveAgreement
<1>5. AbandonedInv /\ RemovalInv
  BY TaskNames DEF Init, AbandonedInv, RemovalInv, Removes, At
<1> QED
  BY <1>1, <1>2, <1>3, <1>4, <1>5 DEF IInv

LEMMA Steps == IInv /\ [Next]_vars => IInv'
<1> SUFFICES ASSUME IInv, [Next]_vars PROVE IInv'
  OBVIOUS
<1>1. CASE UNCHANGED vars
  BY <1>1
  DEF IInv, TypeOK, LineInv, Queues, Exclusion, SubscribersInv, PublishersInv,
      DeletedInv, DeletedIsClosed, SubscribeLeaveAgreement, AbandonedInv,
      RemovalInv, Removes, At, vars, forward_vars, tick_vars
<1>2. ASSUME NEW x \in Peers, StartUp(x) \/ Find(x) \/ Closed(x) \/ InfoOfDown(x)
      PROVE  IInv'
  BY <1>2, HandlerSteps, CallbackSteps
<1>3. ASSUME NEW p \in Publishers, Publishing(p) \/ Unpublishing(p)
      PROVE  IInv'
  BY <1>3, PublishingSteps, UnpublishingSteps
<1>4. ASSUME NEW s \in Subscribers, Subscribing(s) \/ RemoveSubscribe(s)
      PROVE  IInv'
  BY <1>4, SubscribingSteps, UnsubscribingSteps
<1>5. ASSUME NEW t \in Tasks, ReadGroup(t) PROVE IInv'
  BY <1>5, ReadingSteps
<1>6. CASE StartDelete \/ Deleting
  BY <1>6, DeletingSteps, ClosingSteps DEF Deleting
<1>7. CASE TickStarts \/ Ticking
  BY <1>7, TickingSteps, ClosingSteps DEF Ticking
<1>8. ASSUME NEW x \in Peers, Settle(x) \/ HangUp(x) PROVE IInv'
  BY <1>8, ConnectionSteps
<1>9. ASSUME NEW p \in Publishers, OnTrack(p) \/ TrackUp(p) PROVE IInv'
  BY <1>9, TrackSteps
<1> QED
  BY <1>1, <1>2, <1>3, <1>4, <1>5, <1>6, <1>7, <1>8, <1>9 DEF Next

LEMMA Always == Spec => []IInv
  BY Initially, Steps, PTL DEF Spec

-----------------------------------------------------------------------------
(* All variables keep their types, and the tick goes on while the stream is *)
(* listed (publish_check_tick).                                             *)
THEOREM TypeCorrect == Spec => []TypeOK
<1>1. IInv => TypeOK
  BY DEF IInv
<1> QED
  BY Always, <1>1, PTL

(* No task asks for a lock that it already has or waits for.                *)
THEOREM NobodyAsksTwice == Spec => []NobodyWaitsForItself
<1>1. IInv => NobodyWaitsForItself
  BY DEF IInv, LineInv, InOrder, NobodyWaitsForItself
<1> QED
  BY Always, <1>1, PTL

(* stream_delete leaves no open connection behind but those that a failing  *)
(* close() did not get to, and nobody joins later.                          *)
THEOREM DeletedStreamsAreClosed == Spec => []DeletedIsClosed
<1>1. IInv => DeletedIsClosed
  BY DEF IInv
<1> QED
  BY Always, <1>1, PTL

(* The subscribers' leave time is set if and only if nobody subscribes, but *)
(* for the gap in new_subscription_peer.                                    *)
THEOREM SubscribeLeaveAgrees == Spec => []SubscribeLeaveAgreement
<1>1. IInv => SubscribeLeaveAgreement
  BY DEF IInv
<1> QED
  BY Always, <1>1, PTL

(* A stream that its publisher has left is due to be reaped.                *)
THEOREM AbandonedStreamsAreDue == Spec => []AbandonedIsDue
<1>1. IInv => AbandonedIsDue
  <2>1. PublishersQuiet => \A p \in Publishers : pc[Down(p)] \in {"idle", "over"}
    BY DEF PublishersQuiet, Down
  <2> QED
    BY <2>1 DEF IInv, AbandonedInv, AbandonedIsDue, At
<1> QED
  BY Always, <1>1, PTL

(* The tick and stream_delete never both remove the stream.                 *)
THEOREM StreamsAreRemovedOnce == Spec => RemovedOnce
<1> DEFINE Once == entry' # entry => entry = "listed"
<1>1. IInv /\ [Next]_vars => [Once]_vars
  <2> SUFFICES ASSUME IInv, Next, entry' # entry PROVE entry = "listed"
    OBVIOUS
  <2>1. PICK t \in {Tick, Delete} : CloseAll(t)
    BY DEF Next, StartUp, Find, Closed, InfoOfDown, Publishing, CheckPublish,
        BuildPublish, SetPublish, Returned, InfoOfPublish, Unpublishing,
        RemovePublish, ClearTracks, SetLeaveTime, Subscribing, Look, Await, CheckSubscribe,
        RecheckSubscribe, BuildSubscribe, AddSubscribe, Subscribed,
        InfoOfSubscribe, CompleteSubscribe, RemoveSubscribe, ReadGroup,
        StartDelete, Deleting, FindToDelete, Close, TickStarts, Ticking,
        TickFinds, TickDecides, Settle, HangUp, OnTrack, TrackUp
  <2> QED
    BY <2>1, TaskNames DEF IInv, RemovalInv, Removes, CloseAll, At
<1> QED
  BY Always, <1>1, PTL DEF Spec, RemovedOnce
=============================================================================
