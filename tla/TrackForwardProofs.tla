------------------------- MODULE TrackForwardProofs -------------------------
(***************************************************************************)
(* Proofs about TrackForward, for any publishers, tracks and bounds.       *)
(*                                                                         *)
(* IInv is inductive.  What BindingAgreement says of tasks that run and    *)
(* NothingListedNothingForwarded of all of them needs to know what a task  *)
(* that does not run has: no track, and before it runs no binding; and     *)
(* that no task starts before there is a subscriber.                       *)
(***************************************************************************)
EXTENDS TrackForward, TLAPS

AtRest ==
    \A k \in Kinds :
        /\ ~Running(k) => recv[k] = NoTrack
        /\ task[k] = "none" => binding[k] = NoRid
        /\ sub = "none" => task[k] = "none"

IInv ==
    /\ TypeOK
    /\ AtRest
    /\ OwnKind
    /\ BindingAgreement
    /\ NothingListedNothingForwarded

USE DEF Layers

-----------------------------------------------------------------------------
(* At first nothing is listed and nobody forwards.                          *)
LEMMA Initially == Init => IInv
  BY MarksAreNoRids, BoundsAreNat
  DEF Init, IInv, TypeOK, AtRest, OwnKind, BindingAgreement, Running,
      NothingListedNothingForwarded

(* A change counts for every task that runs, and is never lost.             *)
LEMMA Noticing ==
    ASSUME TypeOK, Notify
    PROVE  /\ changes' \in [Kinds -> 0 .. ChangeCapacity + 1]
           /\ \A k \in Kinds : changes'[k] = 0 => changes[k] = 0 /\ ~Running(k)
  BY BoundsAreNat DEF TypeOK, Notify, Running

-----------------------------------------------------------------------------
(* The publishers and the subscriber.                                       *)

LEMMA PublisherSteps ==
    ASSUME IInv, NEW p \in Publishers, Publish(p) \/ Unpublish(p) \/ ClearTracks(p)
    PROVE  IInv'
<1>1. CASE Publish(p)
  BY <1>1 DEF IInv, Publish, forward_vars, client_vars, TypeOK, AtRest, OwnKind,
      BindingAgreement, Running, NothingListedNothingForwarded
<1>2. CASE Unpublish(p)
  BY <1>2 DEF IInv, Unpublish, forward_vars, client_vars, TypeOK, AtRest,
      OwnKind, BindingAgreement, Running, NothingListedNothingForwarded
<1>3. CASE ClearTracks(p)
  <2>1. /\ changes' \in [Kinds -> 0 .. ChangeCapacity + 1]
        /\ \A k \in Kinds : changes'[k] = 0 => ~Running(k)
    BY <1>3, Noticing DEF IInv, ClearTracks
  <2>2. /\ UNCHANGED <<sub, task, recv, binding, pre_rid>>
        /\ TypeOK'
    BY <1>3, <2>1 DEF IInv, ClearTracks, forward_vars, client_vars, TypeOK
  <2>3. NothingListedNothingForwarded'
    BY <2>1, <2>2 DEF IInv, AtRest, Running, NothingListedNothingForwarded
  <2> QED
    BY <2>2, <2>3 DEF IInv, AtRest, OwnKind, BindingAgreement, Running
<1> QED
  BY <1>1, <1>2, <1>3

LEMMA ListingSteps ==
    ASSUME IInv, NEW t \in Tracks, TrackUp(t)
    PROVE  IInv'
<1>1. /\ UNCHANGED <<sub, task, recv, binding, pre_rid>>
      /\ publish_tracks' # {}
      /\ TypeOK'
  BY Noticing DEF IInv, TrackUp, forward_vars, client_vars, TypeOK
<1> QED
  BY <1>1 DEF IInv, AtRest, OwnKind, BindingAgreement, Running,
      NothingListedNothingForwarded

LEMMA SubscriberSteps ==
    ASSUME IInv, NEW kinds \in SUBSET Kinds,
           Subscribe(kinds) \/ SubscriberCloses \/ RemoveSubscribe
    PROVE  IInv'
<1>1. CASE Subscribe(kinds)
  <2>1. UNCHANGED <<publish_tracks, recv, binding, pre_rid>> /\ TypeOK'
    BY <1>1, BoundsAreNat
    DEF IInv, Subscribe, publisher_vars, client_vars, TypeOK
  <2>2. /\ \A k \in Kinds : recv[k] = NoTrack /\ binding[k] = NoRid
        /\ sub' = "listed"
        /\ \A k \in Kinds : task'[k] # "none" => Running(k)'
    BY <1>1 DEF IInv, AtRest, Running, Subscribe
  <2> QED
    BY <2>1, <2>2 DEF IInv, AtRest, OwnKind, BindingAgreement, Running,
        NothingListedNothingForwarded
<1>2. CASE SubscriberCloses \/ RemoveSubscribe
  BY <1>2 DEF IInv, SubscriberCloses, RemoveSubscribe, publisher_vars,
      forward_vars, client_vars, TypeOK, AtRest, OwnKind, BindingAgreement,
      Running, NothingListedNothingForwarded
<1> QED
  BY <1>1, <1>2

LEMMA OthersSteps ==
    ASSUME IInv, AnotherSubscribes \/ \E rid \in OnOffer \cup {Enable, Disable} : Select(rid)
    PROVE  IInv'
<1>1. CASE AnotherSubscribes
  <2>1. /\ changes' \in [Kinds -> 0 .. ChangeCapacity + 1]
        /\ \A k \in Kinds : changes'[k] = 0 => changes[k] = 0
    BY <1>1, Noticing DEF IInv, AnotherSubscribes
  <2>2. /\ UNCHANGED <<sub, publish_tracks, task, recv, binding, pre_rid>>
        /\ TypeOK'
    BY <1>1, <2>1, BoundsAreNat
    DEF IInv, AnotherSubscribes, publisher_vars, forward_vars, TypeOK
  <2> QED
    BY <2>1, <2>2 DEF IInv, AtRest, OwnKind, BindingAgreement, Running,
        NothingListedNothingForwarded
<1>2. ASSUME NEW rid \in OnOffer \cup {Enable, Disable}, Select(rid)
      PROVE  IInv'
  <2>1. UNCHANGED <<sub, publish_tracks, task, recv, binding, pre_rid, changes>>
    BY <1>2 DEF Select, publisher_vars, forward_vars
  <2>2. rid \in Nat \cup {Enable, Disable}
    BY <1>2, TracksAreSound DEF IInv, TypeOK, OnOffer, Listed
  <2>3. TypeOK'
    BY <1>2, <2>2, BoundsAreNat
    DEF IInv, Select, SelectKindRid, publisher_vars, forward_vars, TypeOK
  <2> QED
    BY <2>1, <2>3 DEF IInv, AtRest, OwnKind, BindingAgreement, Running,
        NothingListedNothingForwarded
<1> QED
  BY <1>1, <1>2

-----------------------------------------------------------------------------
(* The tasks.                                                               *)

LEMMA ChangingSteps ==
    ASSUME IInv, NEW k \in Kinds, Changing(k)
    PROVE  IInv'
<1>0. Running(k) /\ UNCHANGED <<sub, publish_tracks, task>>
  BY DEF Changing, ChangeLags, Offline, BindFirst, Stay, Sees, publisher_vars,
      forward_vars
<1>1. CASE ChangeLags(k)
  <2>1. TypeOK'
    BY <1>1, BoundsAreNat
    DEF IInv, ChangeLags, publisher_vars, forward_vars, client_vars, TypeOK
  <2>2. UNCHANGED <<recv, binding>>
    BY <1>1 DEF ChangeLags, forward_vars
  <2>3. \A i \in Kinds : changes'[i] = 0 => changes[i] = 0
    BY <1>1, BoundsAreNat DEF IInv, TypeOK, ChangeLags
  <2> QED
    BY <1>0, <2>1, <2>2, <2>3 DEF IInv, AtRest, OwnKind, BindingAgreement,
        Running, NothingListedNothingForwarded
<1>2. CASE Offline(k)
  <2>1. TypeOK'
    BY <1>2, BoundsAreNat
    DEF IInv, Offline, Sees, publisher_vars, client_vars, TypeOK
  <2>2. /\ recv' = [recv EXCEPT ![k] = NoTrack]
        /\ binding'[k] \in {Disable, NoRid}
        /\ \A i \in Kinds \ {k} : binding'[i] = binding[i] /\ changes'[i] = changes[i]
    BY <1>2 DEF IInv, TypeOK, Offline, Sees
  <2> QED
    BY <1>0, <2>1, <2>2 DEF IInv, TypeOK, AtRest, OwnKind, BindingAgreement,
        Running, NothingListedNothingForwarded
<1>3. CASE BindFirst(k)
  <2>1. PICK t \in Tracks : /\ IsFirst(t, Listed(k))
                            /\ recv' = [recv EXCEPT ![k] = t]
                            /\ binding' = [binding EXCEPT ![k] = t.rid]
    BY <1>3 DEF BindFirst
  <2>2. t.kind = k /\ t.rid \in Nat /\ t # NoTrack /\ publish_tracks # {}
    BY <2>1, TracksAreSound DEF IsFirst, Listed
  <2>3. TypeOK'
    BY <1>3, <2>1, <2>2, BoundsAreNat
    DEF IInv, BindFirst, Sees, publisher_vars, client_vars, TypeOK
  <2> QED
    BY <1>0, <2>1, <2>2, <2>3, MarksAreNoRids DEF IInv, TypeOK, AtRest, OwnKind,
        BindingAgreement, Running, NothingListedNothingForwarded
<1>4. CASE Stay(k)
  <2>1. TypeOK' /\ UNCHANGED <<recv, binding>> /\ publish_tracks # {}
    BY <1>4, BoundsAreNat
    DEF IInv, Stay, Sees, publisher_vars, client_vars, TypeOK
  <2> QED
    BY <1>0, <2>1 DEF IInv, AtRest, OwnKind, BindingAgreement, Running,
        NothingListedNothingForwarded
<1> QED
  BY <1>1, <1>2, <1>3, <1>4 DEF Changing

LEMMA Ending ==
    ASSUME IInv, NEW k \in Kinds, Ends(k)
    PROVE  IInv'
<1>1. TypeOK'
  BY BoundsAreNat DEF IInv, Ends, publisher_vars, client_vars, TypeOK
<1>2. /\ UNCHANGED <<sub, publish_tracks, binding>>
      /\ task' = [task EXCEPT ![k] = "over"]
      /\ recv' = [recv EXCEPT ![k] = NoTrack]
      /\ changes' = [changes EXCEPT ![k] = 0]
      /\ sub # "none"
  BY DEF IInv, AtRest, Running, Ends, publisher_vars
<1> QED
  BY <1>1, <1>2 DEF IInv, TypeOK, AtRest, OwnKind, BindingAgreement, Running,
      NothingListedNothingForwarded

LEMMA SelectingSteps ==
    ASSUME IInv, NEW k \in Kinds, Selecting(k)
    PROVE  IInv'
<1> DEFINE Obeying == Running(k) /\ UNCHANGED <<sub, publish_tracks, task, changes>>
<1>1. CASE SelectNothing(k)
  <2>1. Obeying /\ UNCHANGED <<recv, binding>>
    BY <1>1 DEF SelectNothing, Obeys, publisher_vars
  <2>2. TypeOK'
    BY <1>1 DEF IInv, SelectNothing, Obeys, publisher_vars, client_vars, TypeOK
  <2> QED
    BY <2>1, <2>2 DEF IInv, AtRest, OwnKind, BindingAgreement, Running,
        NothingListedNothingForwarded
<1>2. CASE SelectDisable(k)
  <2>1. Obeying /\ binding' = [binding EXCEPT ![k] = Disable]
    BY <1>2 DEF SelectDisable, Obeys, publisher_vars
  <2>2. recv' = [recv EXCEPT ![k] = NoTrack]
    BY <1>2, <2>1 DEF SelectDisable, IInv, TypeOK, BindingAgreement
  <2>3. TypeOK'
    BY <1>2, MarksAreNoRids
    DEF IInv, SelectDisable, Obeys, publisher_vars, client_vars, TypeOK
  <2> QED
    BY <2>1, <2>2, <2>3 DEF IInv, TypeOK, AtRest, OwnKind, BindingAgreement,
        Running, NothingListedNothingForwarded
<1>3. CASE SelectTrack(k)
  <2>1. Obeying /\ binding' = [binding EXCEPT ![k] = NewRid(k)] /\ k = "video"
    BY <1>3 DEF SelectTrack, Obeys, Concerns, publisher_vars
  <2>2. PICK t \in Tracks : /\ IsFirst(t, Selectable(k))
                            /\ recv' = [recv EXCEPT ![k] = t]
    BY <1>3 DEF SelectTrack
  <2>3. /\ t.kind = "video" /\ t.rid \in Nat /\ t # NoTrack
        /\ publish_tracks # {}
        /\ NewRid(k) \in {t.rid, Enable}
    BY <2>2, TracksAreSound DEF IsFirst, Selectable, Listed
  <2>4. TypeOK'
    BY <1>3, <2>1, <2>2, <2>3
    DEF IInv, SelectTrack, Obeys, publisher_vars, client_vars, TypeOK
  <2> QED
    BY <2>1, <2>2, <2>3, <2>4, MarksAreNoRids DEF IInv, TypeOK, AtRest, OwnKind,
        BindingAgreement, Running, NothingListedNothingForwarded
<1>4. CASE SelectFails(k)
  <2>1. Obeying /\ UNCHANGED recv
    BY <1>4 DEF SelectFails, Obeys, publisher_vars
  <2>2. /\ binding'[k] = binding[k] \/ (binding[k] = Disable /\ binding'[k] = NoRid)
        /\ \A i \in Kinds \ {k} : binding'[i] = binding[i]
        /\ TypeOK'
    BY <1>4
    DEF IInv, SelectFails, Resumes, Obeys, publisher_vars, client_vars, TypeOK
  <2> QED
    BY <2>1, <2>2, MarksAreNoRids DEF IInv, AtRest, OwnKind, BindingAgreement,
        Running, NothingListedNothingForwarded
<1>5. CASE SelectEnds(k)
  BY <1>5, Ending DEF SelectEnds
<1> QED
  BY <1>1, <1>2, <1>3, <1>4, <1>5 DEF Selecting

(* IInv is inductive.                                                       *)
LEMMA Steps == IInv /\ [Next]_vars => IInv'
<1> SUFFICES ASSUME IInv, [Next]_vars PROVE IInv'
  OBVIOUS
<1>1. CASE UNCHANGED vars
  BY <1>1 DEF vars, publisher_vars, forward_vars, client_vars, IInv, TypeOK,
      AtRest, OwnKind, BindingAgreement, Running, NothingListedNothingForwarded
<1>2. CASE Next
  <2>1. ASSUME NEW p \in Publishers, Publish(p) \/ Unpublish(p) \/ ClearTracks(p)
        PROVE  IInv'
    BY <2>1, PublisherSteps
  <2>2. ASSUME NEW t \in Tracks, TrackUp(t) PROVE IInv'
    BY <2>2, ListingSteps
  <2>3. ASSUME NEW kinds \in Offers, Subscribe(kinds) PROVE IInv'
    BY <2>3, SubscriberSteps, OffersAreKinds
  <2>4. CASE SubscriberCloses \/ RemoveSubscribe
    BY <2>4, SubscriberSteps
  <2>5. CASE AnotherSubscribes \/ \E rid \in OnOffer \cup {Enable, Disable} : Select(rid)
    BY <2>5, OthersSteps
  <2>6. ASSUME NEW k \in Kinds, Changing(k) \/ Selecting(k) \/ WriteFails(k)
        PROVE  IInv'
    BY <2>6, ChangingSteps, SelectingSteps, Ending DEF WriteFails
  <2> QED
    BY <1>2, <2>1, <2>2, <2>3, <2>4, <2>5, <2>6 DEF Next
<1> QED
  BY <1>1, <1>2

-----------------------------------------------------------------------------
LEMMA Always == Spec => []IInv
  BY Initially, Steps, PTL DEF Spec

(* All variables keep their types: no counter passes its bound, and what a  *)
(* task remembers is never RID_DISABLE (sender_forward_rtp, pre_rid).       *)
THEOREM TypeCorrect == Spec => []TypeOK
<1>1. IInv => TypeOK
  BY DEF IInv
<1> QED
  BY Always, <1>1, PTL

(* A task forwards tracks of its own kind only, though select_layer tells   *)
(* both tasks and looks for video in either.                                *)
THEOREM ForwardsItsKind == Spec => []OwnKind
<1>1. IInv => OwnKind
  BY DEF IInv
<1> QED
  BY Always, <1>1, PTL

(* A task that runs forwards a track if and only if it is bound, and the    *)
(* binding names that track (track_binding_publish_rid).                    *)
THEOREM BindingsAgree == Spec => []BindingAgreement
<1>1. IInv => BindingAgreement
  BY DEF IInv
<1> QED
  BY Always, <1>1, PTL

(* Who has seen all changes of an empty list forwards nothing               *)
(* (remove_publish, sender_forward_rtp).                                    *)
THEOREM EmptyListForwardsNothing == Spec => []NothingListedNothingForwarded
<1>1. IInv => NothingListedNothingForwarded
  BY DEF IInv
<1> QED
  BY Always, <1>1, PTL

(* A request for a picture finds the track that is forwarded, if that is    *)
(* listed and bound by its name, and none of another kind                   *)
(* (sender_forward_rtcp).                                                   *)
THEOREM RequestsArrive == Spec => []RequestsFindTheirTrack
<1>1. IInv => RequestsFindTheirTrack
  BY MarksAreNoRids
  DEF IInv, TypeOK, OwnKind, BindingAgreement, RequestsFindTheirTrack,
      RequestTargets, Listed
<1> QED
  BY Always, <1>1, PTL

(* Nothing but a selection of its own binds a task that is disabled.        *)
THEOREM DisabledStays == Spec => DisabledUntilSelected
<1> DEFINE Kept == \A k \in Kinds : binding[k] = Disable =>
                      binding'[k] = Disable \/ (selects[k] # NoRid /\ selects'[k] = NoRid)
<1>1. IInv /\ [Next]_vars => [Kept]_vars
  <2> SUFFICES ASSUME IInv, Next PROVE Kept
    OBVIOUS
  <2>1. CASE UNCHANGED binding
    BY <2>1
  <2>2. ASSUME NEW k \in Kinds, Changing(k) PROVE Kept
    BY <2>2 DEF IInv, TypeOK, Changing, ChangeLags, Offline, BindFirst, MayBind,
        Stay, forward_vars
  <2>3. ASSUME NEW k \in Kinds, Selecting(k) PROVE Kept
    <3>1. CASE SelectEnds(k)
      BY <3>1 DEF SelectEnds, Ends
    <3>2. CASE ~SelectEnds(k)
      BY <2>3, <3>2 DEF IInv, TypeOK, Selecting, SelectNothing, SelectDisable,
          SelectTrack, SelectFails, Obeys
    <3> QED
      BY <3>1, <3>2
  <2> QED
    BY <2>1, <2>2, <2>3 DEF Next, Publish, Unpublish, ClearTracks, TrackUp,
        Subscribe, AnotherSubscribes, SubscriberCloses, RemoveSubscribe, Select,
        WriteFails, Ends, forward_vars
<1> QED
  BY Always, <1>1, PTL DEF Spec, DisabledUntilSelected
=============================================================================
