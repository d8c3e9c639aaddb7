------------------------ MODULE PeerForwardRefinement ------------------------
(***************************************************************************)
(* PeerForward implements StreamLife.  What has to be shown beyond the     *)
(* invariant of PeerForwardProofs is that nobody reaps or joins a stream   *)
(* too early: whoever is about to has looked long before, and what it saw  *)
(* then, a leave time or a publisher, means that somebody has published.   *)
(***************************************************************************)
EXTENDS PeerForwardProofs

Published == publish # NoPeer \/ Past # {}

(* A leave time, the tick's word for it, and the tick that closes all come  *)
(* from a publisher that has left; who sets up a subscription has seen one. *)
EarlierInv ==
    /\ publish_leave_time \/ due => Past # {}
    /\ pc[Tick] \in {"closing", "closing_all"} => due
    /\ \A s \in Subscribers :
        pc[Up(s)] \in {"rechecking", "building", "adding"} => Published

RInv == IInv /\ EarlierInv

(* What StreamLife sees is as before.                                       *)
Quiet == UNCHANGED <<entry, publish, LinkOf(publish), Past, subscribe_group>>

Step == EarlierInv' /\ [Life!Next]_(Life!vars)

-----------------------------------------------------------------------------
LEMMA QuietStep == Quiet => UNCHANGED Life!vars
  BY DEF Quiet, Life!vars

(* A publisher has left from the moment its callback has removed it.        *)
LEMMA PastStays ==
    ASSUME RInv, NEW t \in Tasks, NEW stage, Goto(t, stage),
           \A p \in Publishers : t = Down(p) =>
                (pc[t] \in {"idle", "removing"} <=> stage \in {"idle", "removing"})
    PROVE  Past' = Past
<1>1. \A p \in Publishers : pc'[Down(p)] = IF t = Down(p) THEN stage ELSE pc[Down(p)]
  BY TaskNames DEF RInv, IInv, TypeOK, Goto
<1> QED
  BY <1>1 DEF Past

(* The publisher's link is that of the connection that publishes.           *)
LEMMA LinkStays ==
    ASSUME RInv, publish' = publish,
           publish # NoPeer => conn'[publish] = conn[publish]
    PROVE  LinkOf(publish)' = LinkOf(publish)
  BY DEF LinkOf

LEMMA InitImplements == Init => Life!Init /\ EarlierInv
<1> SUFFICES ASSUME Init PROVE Life!Init /\ EarlierInv
  OBVIOUS
<1>1. Past = {}
  BY TaskNames DEF Init, Past
<1>2. LinkOf(publish) = "none"
  BY DEF Init, LinkOf
<1>3. Life!Init
  BY <1>1, <1>2 DEF Init, Life!Init
<1>4. EarlierInv
  BY TaskNames DEF Init, EarlierInv
<1> QED
  BY <1>3, <1>4

-----------------------------------------------------------------------------
(* whip.  The second look at publish is the one that counts.                *)
LEMMA HandlerImplements ==
    ASSUME RInv, NEW x \in Peers, StartUp(x) \/ Find(x)
    PROVE  Step
<1>1. PICK stage \in {"looking", "finding", "checking", "over"} : Goto(Up(x), stage)
  BY DEF StartUp, Find, Returns
<1>2. UNCHANGED <<entry, forward_vars, conn, tick_vars>>
  BY DEF StartUp, Find
<1>3. Past' = Past
  BY <1>1, PastStays, TaskNames
<1>4. Quiet
  BY <1>2, <1>3, LinkStays DEF Quiet, forward_vars
<1>5. EarlierInv'
  BY <1>1, <1>2, <1>3, TaskNames
  DEF RInv, IInv, TypeOK, EarlierInv, Published, Goto, forward_vars, tick_vars
<1> QED
  BY <1>4, <1>5, QuietStep DEF Step

LEMMA PublishingImplements ==
    ASSUME RInv, NEW p \in Publishers, Publishing(p)
    PROVE  Step
<1>1. PICK stage \in {"building", "setting", "stamping", "info", "over"} :
          Goto(Up(p), stage)
  BY DEF Publishing, CheckPublish, BuildPublish, SetPublish, Returned,
         InfoOfPublish, Returns
<1>2. Past' = Past
  BY <1>1, PastStays, TaskNames
<1>3. UNCHANGED <<entry, subscribe_group, tick_vars>>
  BY DEF Publishing, CheckPublish, BuildPublish, SetPublish, Returned,
         InfoOfPublish, forward_vars
<1>4. publish_leave_time' => publish_leave_time
  BY DEF Publishing, CheckPublish, BuildPublish, SetPublish, Returned,
         InfoOfPublish, forward_vars
<1>5. publish # NoPeer => publish' = publish
  BY DEF Publishing, CheckPublish, BuildPublish, SetPublish, Returned,
         InfoOfPublish, forward_vars
<1>6. EarlierInv'
  BY <1>1, <1>2, <1>3, <1>4, <1>5, TaskNames
  DEF RInv, IInv, TypeOK, EarlierInv, Published, Goto, tick_vars
<1>7. CASE SetPublish(p)
  <2>1. /\ conn[p] = "none" /\ p \notin Past /\ entry # "deleted"
    BY <1>7, TaskNames
    DEF RInv, IInv, PublishersInv, DeletedInv, SetPublish, Past, At
  <2>2. LinkOf(publish)' = "dialing"
    BY <1>7, TaskNames DEF RInv, IInv, TypeOK, SetPublish, LinkOf
  <2>3. Life!Publish(p)
    BY <1>2, <1>3, <1>7, <2>1, <2>2 DEF Life!Publish, SetPublish
  <2> QED
    BY <1>6, <2>3 DEF Step, Life!Next
<1>8. CASE ~SetPublish(p)
  <2>1. publish' = publish
    BY <1>8 DEF Publishing, CheckPublish, BuildPublish, Returned,
                InfoOfPublish, forward_vars
  <2>2. CASE InfoOfPublish(p)
    <3>1. conn' = [conn EXCEPT ![p] = IF conn[p] = "wired" THEN "answered" ELSE conn[p]]
      BY <2>2 DEF InfoOfPublish
    <3>2. LinkOf(publish)' = LinkOf(publish)
      BY <2>1, <3>1, TaskNames DEF RInv, IInv, TypeOK, LinkOf
    <3>3. Quiet
      BY <1>2, <1>3, <2>1, <3>2 DEF Quiet
    <3> QED
      BY <1>6, <3>3, QuietStep DEF Step
  <2>3. CASE ~InfoOfPublish(p)
    <3>1. UNCHANGED conn
      BY <1>8, <2>3 DEF Publishing, CheckPublish, BuildPublish, Returned
    <3>2. Quiet
      BY <1>2, <1>3, <2>1, <3>1, LinkStays DEF Quiet
    <3> QED
      BY <1>6, <3>2, QuietStep DEF Step
  <2> QED
    BY <2>2, <2>3
<1> QED
  BY <1>7, <1>8

-----------------------------------------------------------------------------
(* whep.  publish_is_ok has seen the publisher; it may be gone by the time  *)
(* the subscriber is listed, but then it is one of the past.                *)
LEMMA SubscribingImplements ==
    ASSUME RInv, NEW s \in Subscribers, Subscribing(s)
    PROVE  Step
<1> USE DEF Subscribing, Look, Await, CheckSubscribe, RecheckSubscribe, BuildSubscribe,
            AddSubscribe, Subscribed, InfoOfSubscribe, CompleteSubscribe
<1>1. PICK stage \in {"looking", "awaiting", "finding", "rechecking", "building", "adding", "stamping", "info",
                      "completing", "over"} : Goto(Up(s), stage)
  BY DEF Returns
<1>2. Past' = Past
  BY <1>1, PastStays, TaskNames
<1>3. UNCHANGED <<entry, publish, publish_leave_time, tick_vars>>
  BY DEF forward_vars
<1>4. stage \in {"rechecking", "building", "adding"} => Published
  <2>1. pc'[Up(s)] = stage
    BY <1>1, TaskNames DEF RInv, IInv, TypeOK, Goto
  <2>2. At(Up(s), "checking") => stage = "over" \/ PublishIsOk
    BY <2>1, TaskNames DEF RInv, IInv, TypeOK, Goto, At, Returns
  <2>3. PublishIsOk => Published
    BY TaskNames DEF PublishIsOk, Published
  <2>4. stage \in {"rechecking", "building", "adding"} =>
            pc[Up(s)] \in {"checking", "rechecking", "building"}
    BY <2>1, TaskNames DEF RInv, IInv, TypeOK, Goto, At, Returns
  <2> QED
    BY <2>2, <2>3, <2>4 DEF RInv, EarlierInv, At
<1>5. EarlierInv'
  <2>1. \A r \in Subscribers : pc'[Up(r)] = IF r = s THEN stage ELSE pc[Up(r)]
    BY <1>1, TaskNames DEF RInv, IInv, TypeOK, Goto
  <2>2. pc'[Tick] = pc[Tick]
    BY <1>1, TaskNames DEF RInv, IInv, TypeOK, Goto
  <2> QED
    BY <1>2, <1>3, <1>4, <2>1, <2>2 DEF RInv, EarlierInv, Published, tick_vars
<1>6. LinkOf(publish)' = LinkOf(publish)
  <2>1. publish # s
    BY TaskNames DEF RInv, IInv, TypeOK
  <2>2. conn' = conn \/ \E state : conn' = [conn EXCEPT ![s] = state]
    OBVIOUS
  <2>3. publish # NoPeer => conn'[publish] = conn[publish]
    BY <2>1, <2>2 DEF RInv, IInv, TypeOK, Peers
  <2> QED
    BY <1>3, <2>3, LinkStays
<1>7. CASE AddSubscribe(s)
  <2>1. entry # "deleted" /\ Published /\ s \notin subscribe_group
    BY <1>7, TaskNames DEF RInv, IInv, DeletedInv, SubscribersInv, EarlierInv, At
  <2>2. Life!Join(s)
    BY <1>2, <1>3, <1>6, <1>7, <2>1 DEF Life!Join, Life!Published, Published
  <2> QED
    BY <1>5, <2>2 DEF Step, Life!Next
<1>8. CASE ~AddSubscribe(s)
  <2>1. UNCHANGED subscribe_group
    BY <1>8 DEF forward_vars
  <2>2. Quiet
    BY <1>2, <1>3, <1>6, <2>1 DEF Quiet
  <2> QED
    BY <1>5, <2>2, QuietStep DEF Step
<1> QED
  BY <1>7, <1>8

-----------------------------------------------------------------------------
(* The callbacks.                                                           *)
LEMMA CallbackImplements ==
    ASSUME RInv, NEW x \in Peers, Closed(x) \/ InfoOfDown(x)
    PROVE  Step
<1>1. \/ At(Down(x), "idle") /\ Goto(Down(x), "removing")
      \/ At(Down(x), "reading") /\ Goto(Down(x), "over")
  BY DEF Closed, InfoOfDown, Returns
<1>2. UNCHANGED <<entry, forward_vars, conn, tick_vars>>
  BY DEF Closed, InfoOfDown
<1>3. Past' = Past
  BY <1>1, PastStays, TaskNames DEF At
<1>4. Quiet
  BY <1>2, <1>3, LinkStays DEF Quiet, forward_vars
<1>5. EarlierInv'
  BY <1>1, <1>2, <1>3, TaskNames
  DEF RInv, IInv, TypeOK, EarlierInv, Published, Goto, forward_vars, tick_vars
<1> QED
  BY <1>4, <1>5, QuietStep DEF Step

LEMMA UnpublishingImplements ==
    ASSUME RInv, NEW p \in Publishers, Unpublishing(p)
    PROVE  Step
<1>1. CASE RemovePublish(p)
  <2>1. Past' = Past \cup {p}
    <3>1. \A q \in Publishers : pc'[Down(q)] = IF q = p THEN "clearing" ELSE pc[Down(q)]
      BY <1>1, TaskNames DEF RInv, IInv, TypeOK, RemovePublish, Goto
    <3> QED
      BY <3>1 DEF Past
  <2>2. LinkOf(publish) = "ended" /\ LinkOf(publish)' = "none"
    BY <1>1, TaskNames DEF RInv, IInv, PublishersInv, RemovePublish, LinkOf, At
  <2>3. Life!Leave
    BY <1>1, <2>1, <2>2 DEF Life!Leave, RemovePublish
  <2>4. EarlierInv'
    BY <1>1, <2>1, TaskNames
    DEF RInv, IInv, TypeOK, EarlierInv, Published, RemovePublish, Goto, tick_vars
  <2> QED
    BY <2>3, <2>4 DEF Step, Life!Next
<1>2. CASE ClearTracks(p) \/ SetLeaveTime(p)
  <2>1. \/ At(Down(p), "clearing") /\ Goto(Down(p), "leaving")
        \/ At(Down(p), "leaving") /\ Goto(Down(p), "info")
    BY <1>2 DEF ClearTracks, SetLeaveTime
  <2>2. Past' = Past /\ p \in Past
    BY <2>1, PastStays, TaskNames DEF At, Past
  <2>3. UNCHANGED <<entry, publish, subscribe_group, conn, tick_vars>>
    BY <1>2 DEF ClearTracks, SetLeaveTime
  <2>4. Quiet
    BY <2>2, <2>3, LinkStays DEF Quiet
  <2>5. EarlierInv'
    BY <2>1, <2>2, <2>3, TaskNames
    DEF RInv, IInv, TypeOK, EarlierInv, Published, Goto, tick_vars
  <2> QED
    BY <2>4, <2>5, QuietStep DEF Step
<1> QED
  BY <1>1, <1>2 DEF Unpublishing

LEMMA UnsubscribingImplements ==
    ASSUME RInv, NEW s \in Subscribers, RemoveSubscribe(s)
    PROVE  Step
<1>1. Goto(Down(s), "info")
  BY DEF RemoveSubscribe
<1>2. UNCHANGED <<entry, publish, publish_leave_time, conn, tick_vars>>
  BY DEF RemoveSubscribe
<1>3. Past' = Past
  BY <1>1, PastStays, TaskNames
<1>4. LinkOf(publish)' = LinkOf(publish)
  BY <1>2, LinkStays
<1>5. Life!Part(s)
  BY <1>2, <1>3, <1>4 DEF Life!Part, RemoveSubscribe
<1>6. EarlierInv'
  BY <1>1, <1>2, <1>3, TaskNames
  DEF RInv, IInv, TypeOK, EarlierInv, Published, Goto, tick_vars
<1> QED
  BY <1>5, <1>6 DEF Step, Life!Next

-----------------------------------------------------------------------------
(* info(), stream_delete and the tick.  The tick's word is from its look at *)
(* the leave time, and it closes on nothing else.                           *)
LEMMA ReadingImplements ==
    ASSUME RInv, NEW t \in Tasks, ReadGroup(t)
    PROVE  Step
<1>1. At(t, "info") /\ Goto(t, "reading")
  BY DEF ReadGroup
<1>2. UNCHANGED <<entry, forward_vars, conn>>
  BY DEF ReadGroup
<1>3. due' => due \/ publish_leave_time
  BY DEF ReadGroup
<1>4. Past' = Past
  BY <1>1, PastStays DEF At
<1>5. Quiet
  BY <1>2, <1>4, LinkStays DEF Quiet, forward_vars
<1>6. EarlierInv'
  <2>1. pc'[Tick] \in {"closing", "closing_all"} =>
            t # Tick /\ pc[Tick] \in {"closing", "closing_all"}
    BY <1>1, TaskNames DEF RInv, IInv, TypeOK, Goto
  <2>2. t # Tick => due' = due
    BY DEF ReadGroup
  <2>3. \A s \in Subscribers : pc'[Up(s)] \in {"rechecking", "building", "adding"} =>
            pc'[Up(s)] = pc[Up(s)]
    BY <1>1, TaskNames DEF RInv, IInv, TypeOK, Goto
  <2> QED
    BY <1>2, <1>3, <1>4, <2>1, <2>2, <2>3
    DEF RInv, EarlierInv, Published, forward_vars
<1> QED
  BY <1>5, <1>6, QuietStep DEF Step

LEMMA RemovingImplements ==
    ASSUME RInv,
           \/ StartDelete \/ FindToDelete \/ TickStarts \/ TickFinds \/ TickDecides
           \/ Close(Tick) \/ Close(Delete)
    PROVE  Step
<1> DEFINE Moves(t) == \E stage \in Stages :
               /\ Goto(t, stage)
               /\ t = Tick /\ stage \in {"closing", "closing_all"} => due
<1>1. PICK t \in {Tick, Delete} : Moves(t)
  <2>1. CASE StartDelete \/ FindToDelete \/ Close(Delete)
    <3>1. Moves(Delete)
      BY <2>1, TaskNames DEF StartDelete, FindToDelete, Close, Returns, Stages
    <3> QED
      BY <3>1
  <2>2. CASE TickStarts \/ TickFinds
    <3>1. Moves(Tick)
      BY <2>2 DEF TickStarts, TickFinds, Returns, Stages
    <3> QED
      BY <3>1
  <2>3. CASE TickDecides
    <3>1. Moves(Tick)
      BY <2>3 DEF TickDecides, Returns, Stages
    <3> QED
      BY <3>1
  <2>4. CASE Close(Tick)
    <3>1. Moves(Tick)
      BY <2>4 DEF Close, RInv, EarlierInv, At, Stages
    <3> QED
      BY <3>1
  <2> HIDE DEF Moves
  <2> QED
    BY <2>1, <2>2, <2>3, <2>4
<1> USE DEF StartDelete, FindToDelete, TickStarts, TickFinds, TickDecides, Close
<1>2. UNCHANGED <<entry, forward_vars, conn, due>>
  BY DEF tick_vars
<1>3. Past' = Past
  BY <1>1, PastStays, TaskNames
<1>4. Quiet
  BY <1>2, <1>3, LinkStays DEF Quiet, forward_vars
<1>5. EarlierInv'
  BY <1>1, <1>2, <1>3, TaskNames
  DEF RInv, IInv, TypeOK, EarlierInv, Published, Goto, forward_vars
<1> QED
  BY <1>4, <1>5, QuietStep DEF Step

LEMMA CloseAllImplements ==
    ASSUME RInv, NEW t \in {Tick, Delete}, CloseAll(t)
    PROVE  Step
<1>1. Goto(t, "over") /\ UNCHANGED <<forward_vars, tick_vars>>
  BY DEF CloseAll, Returns
<1>2. Past' = Past
  BY <1>1, PastStays, TaskNames
<1>3. EarlierInv'
  BY <1>1, <1>2, TaskNames
  DEF RInv, IInv, TypeOK, EarlierInv, Published, Goto, forward_vars, tick_vars
<1>4. entry = "listed"
  BY TaskNames DEF RInv, IInv, RemovalInv, Removes, CloseAll, At
<1>5. LinkOf(publish)' \in {LinkOf(publish),
                             IF publish = NoPeer THEN "none" ELSE "ended"}
  <2>1. publish' = publish
    BY <1>1 DEF forward_vars
  <2>2. publish # NoPeer => conn'[publish] \in {conn[publish], "closed"}
    BY DEF RInv, IInv, TypeOK, PublishersInv, CloseAll, Peers
  <2> QED
    BY <2>1, <2>2 DEF LinkOf
<1>6. CASE t = Delete
  <2>1. entry' = "deleted"
    BY <1>6, TaskNames DEF CloseAll
  <2>2. Life!Delete
    BY <1>1, <1>2, <1>4, <1>5, <2>1 DEF Life!Delete, Life!Goes, forward_vars
  <2> QED
    BY <1>3, <2>2 DEF Step, Life!Next
<1>7. CASE t = Tick
  <2>1. entry' = "reaped"
    BY <1>7 DEF CloseAll
  <2>2. Past # {}
    BY <1>7 DEF RInv, EarlierInv, CloseAll, At
  <2>3. Life!Reap
    BY <1>1, <1>2, <1>4, <1>5, <2>1, <2>2 DEF Life!Reap, Life!Goes, forward_vars
  <2> QED
    BY <1>3, <2>3 DEF Step, Life!Next
<1> QED
  BY <1>6, <1>7

-----------------------------------------------------------------------------
(* The connections.  One that is not closed is still the publisher's.       *)
LEMMA ConnectionImplements ==
    ASSUME RInv, NEW x \in Peers, Settle(x) \/ HangUp(x)
    PROVE  Step
<1>1. /\ UNCHANGED <<entry, forward_vars, pc, tick_vars>>
      /\ conn[x] \in {"answered", "connected"}
  BY DEF Settle, HangUp
<1>2. PICK state \in {"connected", "closed"} :
          /\ conn' = [conn EXCEPT ![x] = state]
          /\ state = "connected" => conn[x] = "answered"
  BY DEF Settle, HangUp
<1>3. Past' = Past
  BY <1>1 DEF Past
<1>4. EarlierInv'
  BY <1>1, <1>3 DEF RInv, EarlierInv, Published, forward_vars, tick_vars
<1>5. CASE x \in Publishers
  <2>1. publish = x /\ x # NoPeer
    BY <1>1, <1>5, TaskNames DEF RInv, IInv, TypeOK, PublishersInv, At
  <2>2. LinkOf(publish) = IF conn[x] = "connected" THEN "live" ELSE "dialing"
    BY <1>1, <2>1 DEF LinkOf
  <2>3. LinkOf(publish)' = IF state = "connected" THEN "live" ELSE "ended"
    BY <1>1, <1>2, <2>1 DEF RInv, IInv, TypeOK, LinkOf, forward_vars
  <2>4. Life!Connect \/ Life!End
    BY <1>1, <1>2, <1>3, <2>2, <2>3 DEF Life!Connect, Life!End, forward_vars
  <2> QED
    BY <1>4, <2>4 DEF Step, Life!Next
<1>6. CASE x \in Subscribers
  <2>1. publish # x
    BY <1>6, TaskNames DEF RInv, IInv, TypeOK
  <2>2. publish # NoPeer => conn'[publish] = conn[publish]
    BY <1>2, <2>1 DEF RInv, IInv, TypeOK, Peers
  <2>3. Quiet
    BY <1>1, <1>3, <2>2, LinkStays DEF Quiet, forward_vars
  <2> QED
    BY <1>4, <2>3, QuietStep DEF Step
<1> QED
  BY <1>5, <1>6 DEF Peers

LEMMA TrackImplements ==
    ASSUME RInv, NEW p \in Publishers, OnTrack(p) \/ TrackUp(p)
    PROVE  Step
<1>1. UNCHANGED <<entry, publish, publish_leave_time, subscribe_group, conn, pc,
                  tick_vars>>
  BY DEF OnTrack, TrackUp, forward_vars
<1>2. Past' = Past
  BY <1>1 DEF Past
<1>3. Quiet
  BY <1>1, <1>2, LinkStays DEF Quiet
<1>4. EarlierInv'
  BY <1>1, <1>2 DEF RInv, EarlierInv, Published, tick_vars
<1> QED
  BY <1>3, <1>4, QuietStep DEF Step

-----------------------------------------------------------------------------
LEMMA NextImplements == RInv /\ [Next]_vars => Step
<1> SUFFICES ASSUME RInv, [Next]_vars PROVE Step
  OBVIOUS
<1>1. CASE UNCHANGED vars
  <2>1. Past' = Past
    BY <1>1 DEF vars, Past
  <2>2. UNCHANGED <<entry, publish, publish_leave_time, subscribe_group, conn, pc, due>>
    BY <1>1 DEF vars, forward_vars, tick_vars
  <2>3. Quiet
    BY <2>1, <2>2, LinkStays DEF Quiet
  <2>4. EarlierInv'
    BY <2>1, <2>2 DEF RInv, EarlierInv, Published
  <2> QED
    BY <2>3, <2>4, QuietStep DEF Step
<1>2. CASE Next
  BY <1>2, HandlerImplements, CallbackImplements, PublishingImplements,
     UnpublishingImplements, SubscribingImplements, UnsubscribingImplements,
     ReadingImplements, RemovingImplements, CloseAllImplements,
     ConnectionImplements, TrackImplements
  DEF Next, Deleting, Ticking
<1> QED
  BY <1>1, <1>2

(* PeerForward implements StreamLife: only a stream that a publisher has    *)
(* left is reaped, nobody comes to one that was deleted or that was never   *)
(* published, a publisher stays until its connection has ended, and a       *)
(* removed stream's publisher is cut off, if it can be (set_publish,        *)
(* remove_publish, new_subscription_peer, stream_delete,                    *)
(* publish_check_tick).                                                     *)
THEOREM Implements == Spec => ImplementsStreamLife
<1>1. Init => Life!Init /\ RInv
  BY InitImplements, Initially DEF RInv
<1>2. RInv /\ [Next]_vars => RInv'
  BY NextImplements, Steps DEF RInv, Step
<1>3. RInv /\ [Next]_vars => [Life!Next]_(Life!vars)
  BY NextImplements DEF Step
<1> QED
  BY <1>1, <1>2, <1>3, PTL DEF Spec, ImplementsStreamLife, Life!Spec
=============================================================================
