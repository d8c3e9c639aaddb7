---------------------------- MODULE TrackForward ----------------------------
(***************************************************************************)
(* What one subscriber of a stream is sent: for video and for audio a task *)
(* each (sender_forward_rtp) that forwards one of the tracks listed in      *)
(* publish_tracks, follows the list's changes and obeys the subscriber's   *)
(* selection of a layer.                                                   *)
(*                                                                         *)
(* A task waits for a change, a packet or a selection, whichever comes; the *)
(* handling of each is a step, as it keeps the locks of the list and of the *)
(* bindings to its end.  Packets change nothing but a sequence number and   *)
(* are left out: what counts is which track a task receives from.  A        *)
(* subscriber takes the codecs that are published: setting a track and      *)
(* writing a packet fail only once it has closed.                           *)
(* A layer is a rid, a number in the order of the names; 0 is the empty     *)
(* name of a track without layers.                                          *)
(***************************************************************************)
EXTENDS Naturals

CONSTANTS
    Publishers,       \* connections that publish, one after the other
    Tracks,           \* their tracks: by whom, of what kind, with which rid
    NoTrack,          \* the empty channel of a task that forwards nothing
    NoRid,            \* no binding, nothing remembered
    Enable, Disable,  \* RID_ENABLE, RID_DISABLE
    Lagged,           \* more selections than the channel keeps
    Offers,           \* the sets of kinds that a subscriber may ask for
    ChangeCapacity,   \* of publish_tracks_change: 16
    Selections,       \* bound: how often the subscriber selects
    Others            \* bound: how many other subscribers come

Kinds == {"video", "audio"}

ASSUME TracksAreSound ==
    Tracks \subseteq [by : Publishers, kind : Kinds, rid : Nat] /\ NoTrack \notin Tracks
ASSUME MarksAreNoRids ==
    /\ {NoRid, Enable, Disable, Lagged} \cap Nat = {}
    /\ NoRid \notin {Enable, Disable, Lagged}
    /\ Enable \notin {Disable, Lagged} /\ Disable # Lagged
ASSUME OffersAreKinds == Offers \subseteq SUBSET Kinds
ASSUME BoundsAreNat ==
    ChangeCapacity \in Nat \ {0} /\ Selections \in Nat /\ Others \in Nat

VARIABLES
    pub,             \* the publishers
    up,              \* the tracks that publish_track_up has listed
    publish_tracks,  \* the list
    sub,             \* the subscriber
    task,            \* its tasks
    recv,            \* the track each forwards
    binding,         \* track_binding_publish_rid
    pre_rid,         \* the layer before it was disabled
    changes,         \* changes each task has still to see
    selects,         \* the selection each task has still to see
    selected,        \* how often it selected
    others           \* how many other subscribers came

publisher_vars == <<pub, up, publish_tracks>>
forward_vars == <<task, recv, binding, pre_rid>>
client_vars == <<selected, others>>
vars == <<publisher_vars, sub, forward_vars, changes, selects, client_vars>>

Layers == Nat \cup {Enable, Disable}

TypeOK ==
    /\ pub \in [Publishers -> {"none", "live", "unset", "over"}]
    /\ up \subseteq Tracks
    /\ publish_tracks \subseteq Tracks
    /\ sub \in {"none", "listed", "closed", "removed"}
    /\ task \in [Kinds -> {"none", "on", "over"}]
    /\ recv \in [Kinds -> Tracks \cup {NoTrack}]
    /\ binding \in [Kinds -> Layers \cup {NoRid}]
    /\ pre_rid \in [Kinds -> Nat \cup {Enable, NoRid}]
    /\ changes \in [Kinds -> 0 .. ChangeCapacity + 1]
    /\ selects \in [Kinds -> Layers \cup {NoRid, Lagged}]
    /\ selected \in 0 .. Selections
    /\ others \in 0 .. Others

Init ==
    /\ pub = [p \in Publishers |-> "none"]
    /\ up = {}
    /\ publish_tracks = {}
    /\ sub = "none"
    /\ task = [k \in Kinds |-> "none"]
    /\ recv = [k \in Kinds |-> NoTrack]
    /\ binding = [k \in Kinds |-> NoRid]
    /\ pre_rid = [k \in Kinds |-> NoRid]
    /\ changes = [k \in Kinds |-> 0]
    /\ selects = [k \in Kinds |-> NoRid]
    /\ selected = 0
    /\ others = 0

-----------------------------------------------------------------------------
(* The list and its readers.                                               *)

Listed(k) == {t \in publish_tracks : t.kind = k}

(* The list is sorted by rid: the first of some of its tracks.  Of two with *)
(* one rid (of publishers one after the other) it is either.                *)
IsFirst(t, tracks) == t \in tracks /\ \A other \in tracks : t.rid <= other.rid

Running(k) == task[k] = "on"

(* Every task that runs will see the change; how far behind one is that     *)
(* lags makes no difference.                                                *)
Notify ==
    changes' = [k \in Kinds |->
                    IF Running(k) /\ changes[k] <= ChangeCapacity
                    THEN changes[k] + 1 ELSE changes[k]]

PublishIsSome == \E p \in Publishers : pub[p] = "live"

-----------------------------------------------------------------------------
(* The publishers: set_publish, on_track, remove_publish.                  *)

Publish(p) ==
    /\ pub[p] = "none"
    /\ ~PublishIsSome
    /\ pub' = [pub EXCEPT ![p] = "live"]
    /\ UNCHANGED <<up, publish_tracks, sub, forward_vars, changes, selects,
                   client_vars>>

Unpublish(p) ==
    /\ pub[p] = "live"
    /\ pub' = [pub EXCEPT ![p] = "unset"]
    /\ UNCHANGED <<up, publish_tracks, sub, forward_vars, changes, selects,
                   client_vars>>

(* Mutant: the list is cleared and nobody told.                             *)
ClearSilently(p) ==
    /\ pub[p] = "unset"
    /\ pub' = [pub EXCEPT ![p] = "over"]
    /\ publish_tracks' = {}
    /\ UNCHANGED <<up, sub, forward_vars, changes, selects, client_vars>>

(* The list is cleared in a section of its own, whoever's tracks are on it.  *)
ClearTracks(p) ==
    /\ pub[p] = "unset"
    /\ pub' = [pub EXCEPT ![p] = "over"]
    /\ publish_tracks' = {}
    /\ Notify
    /\ UNCHANGED <<up, sub, forward_vars, selects, client_vars>>

(* publish_track_up, in a task that on_track spawned: its publisher may have *)
(* left, and others come.                                                   *)
TrackUp(t) ==
    /\ pub[t.by] # "none"
    /\ t \notin up
    /\ up' = up \cup {t}
    /\ publish_tracks' = publish_tracks \cup {t}
    /\ Notify
    /\ UNCHANGED <<pub, sub, forward_vars, selects, client_vars>>

(* track_forward: packets come while the track can be read.                 *)
Flows(t) == t \in up /\ pub[t.by] = "live"

-----------------------------------------------------------------------------
(* The subscriber.                                                         *)

(* Mutant: a new subscriber waits for the next change.                      *)
SubscribeAndWait(kinds) ==
    /\ sub = "none"
    /\ PublishIsSome
    /\ sub' = "listed"
    /\ task' = [k \in Kinds |-> IF k \in kinds THEN "on" ELSE "none"]
    /\ UNCHANGED <<publisher_vars, recv, binding, pre_rid, changes, selects,
                   client_vars>>

(* new_subscription_peer: a task for each kind the offer asks for, and a    *)
(* change for everybody.                                                    *)
Subscribe(kinds) ==
    /\ sub = "none"
    /\ PublishIsSome
    /\ sub' = "listed"
    /\ task' = [k \in Kinds |-> IF k \in kinds THEN "on" ELSE "none"]
    /\ changes' = [k \in Kinds |-> IF k \in kinds THEN 1 ELSE 0]
    /\ UNCHANGED <<publisher_vars, recv, binding, pre_rid, selects, client_vars>>

AnotherSubscribes ==
    /\ PublishIsSome
    /\ others < Others
    /\ others' = others + 1
    /\ Notify
    /\ UNCHANGED <<publisher_vars, sub, forward_vars, selects, selected>>

SubscriberCloses ==
    /\ sub = "listed"
    /\ sub' = "closed"
    /\ UNCHANGED <<publisher_vars, forward_vars, changes, selects, client_vars>>

RemoveSubscribe ==
    /\ sub = "closed"
    /\ sub' = "removed"
    /\ UNCHANGED <<publisher_vars, forward_vars, changes, selects, client_vars>>

(* The publisher's offer said that it has layers.                           *)
PublishIsSvc == \E t \in Tracks : pub[t.by] = "live" /\ t.rid # 0

(* get_layer: the rids of the video tracks.                                 *)
OnOffer == IF PublishIsSvc THEN {t.rid : t \in Listed("video")} ELSE {}

(* select_kind_rid: to every task that runs.                                *)
SelectKindRid(rid) ==
    selects' = [k \in Kinds |->
                    IF ~Running(k) THEN selects[k]
                    ELSE IF selects[k] = NoRid THEN rid ELSE Lagged]

(* select_layer, with a layer on offer or RID_ENABLE, and un_select_layer,   *)
(* of a subscriber that is listed.                                          *)
Select(rid) ==
    /\ rid \in OnOffer \cup {Enable, Disable}
    /\ sub \in {"listed", "closed"}
    /\ selected < Selections
    /\ selected' = selected + 1
    /\ SelectKindRid(rid)
    /\ UNCHANGED <<publisher_vars, sub, forward_vars, changes, others>>

-----------------------------------------------------------------------------
(* sender_forward_rtp: a change of the list.                               *)

Sees(k) ==
    /\ Running(k)
    /\ changes[k] \in 1 .. ChangeCapacity
    /\ changes' = [changes EXCEPT ![k] = @ - 1]
    /\ UNCHANGED <<publisher_vars, sub, task, selects, client_vars>>

(* Whoever lags gets an error, and next the oldest that is kept.            *)
ChangeLags(k) ==
    /\ Running(k)
    /\ changes[k] > ChangeCapacity
    /\ changes' = [changes EXCEPT ![k] = ChangeCapacity]
    /\ UNCHANGED <<publisher_vars, sub, forward_vars, selects, client_vars>>

(* Mutant: who goes offline stays bound.                                    *)
OfflineKeepsBinding(k) ==
    /\ publish_tracks = {}
    /\ Sees(k)
    /\ recv' = [recv EXCEPT ![k] = NoTrack]
    /\ pre_rid' = [pre_rid EXCEPT ![k] = NoRid]
    /\ UNCHANGED binding

(* Nothing listed: nothing is forwarded, and disabled is all that is kept.  *)
Offline(k) ==
    /\ publish_tracks = {}
    /\ Sees(k)
    /\ recv' = [recv EXCEPT ![k] = NoTrack]
    /\ pre_rid' = [pre_rid EXCEPT ![k] = NoRid]
    /\ binding' = [binding EXCEPT ![k] = IF @ = Disable THEN Disable ELSE NoRid]

(* Mutant: a task that is disabled binds with the next change.              *)
MayBindDisabled(k) == publish_tracks # {} /\ recv[k] = NoTrack

(* Who forwards a track stays with it, listed or not.                       *)
MayBind(k) ==
    /\ publish_tracks # {}
    /\ recv[k] = NoTrack
    /\ binding[k] # Disable

BindFirst(k) ==
    /\ MayBind(k)
    /\ Sees(k)
    /\ \E t \in Tracks :
          /\ IsFirst(t, Listed(k))
          /\ recv' = [recv EXCEPT ![k] = t]
          /\ binding' = [binding EXCEPT ![k] = t.rid]
    /\ UNCHANGED pre_rid

Stay(k) ==
    /\ publish_tracks # {}
    /\ MayBind(k) /\ Listed(k) # {} => sub # "listed"
    /\ Sees(k)
    /\ UNCHANGED <<recv, pre_rid, binding>>

-----------------------------------------------------------------------------
(* sender_forward_rtp: a selection.  All selections are of video.           *)

(* Mutant: a selection is everybody's.                                      *)
ConcernsAll(k) == TRUE

Concerns(k) == k = "video"

Obeys(k) ==
    /\ Running(k)
    /\ selects[k] \notin {NoRid, Lagged}
    /\ selects' = [selects EXCEPT ![k] = NoRid]
    /\ UNCHANGED <<publisher_vars, sub, task, changes, client_vars>>

SelectNothing(k) ==
    /\ Obeys(k)
    /\ ~Concerns(k) \/ selects[k] = binding[k]
    /\ UNCHANGED <<recv, binding, pre_rid>>

(* What was disabled is enabled as it was before, or with the first there is. *)
Resumes(k) == binding[k] = Disable /\ selects[k] = Enable
NewRid(k) ==
    IF ~Resumes(k) THEN selects[k]
    ELSE IF pre_rid[k] # NoRid THEN pre_rid[k]
    ELSE IF Listed(k) # {} THEN (CHOOSE t \in Tracks : IsFirst(t, Listed(k))).rid
    ELSE NoRid

(* Mutant: who is disabled is disabled again, and remembers that.            *)
SelectDisableAgain(k) ==
    /\ Obeys(k)
    /\ Concerns(k)
    /\ selects[k] = Disable
    /\ recv' = [recv EXCEPT ![k] = IF binding[k] # NoRid THEN NoTrack ELSE @]
    /\ pre_rid' = [pre_rid EXCEPT ![k] = IF binding[k] # NoRid THEN binding[k] ELSE @]
    /\ binding' = [binding EXCEPT ![k] = Disable]

SelectDisable(k) ==
    /\ Obeys(k)
    /\ Concerns(k)
    /\ selects[k] = Disable /\ binding[k] # Disable
    /\ recv' = [recv EXCEPT ![k] = IF binding[k] # NoRid THEN NoTrack ELSE @]
    /\ pre_rid' = [pre_rid EXCEPT ![k] = IF binding[k] # NoRid THEN binding[k] ELSE @]
    /\ binding' = [binding EXCEPT ![k] = Disable]

Selectable(k) == {t \in Listed("video") : NewRid(k) \in {t.rid, Enable}}

SelectTrack(k) ==
    /\ Obeys(k)
    /\ Concerns(k)
    /\ selects[k] \notin {Disable, binding[k]}
    /\ \E t \in Tracks :
          /\ IsFirst(t, Selectable(k))
          /\ recv' = [recv EXCEPT ![k] = t]
    /\ binding' = [binding EXCEPT ![k] = NewRid(k)]
    /\ UNCHANGED pre_rid

(* No such track, or it cannot be set; what is resumed has lost its binding. *)
SelectFails(k) ==
    /\ Obeys(k)
    /\ Concerns(k)
    /\ selects[k] \notin {Disable, binding[k]}
    /\ Selectable(k) # {} => sub # "listed"
    /\ binding' = [binding EXCEPT ![k] = IF Resumes(k) THEN NoRid ELSE @]
    /\ UNCHANGED <<recv, pre_rid>>

-----------------------------------------------------------------------------
(* The end of a task; its receivers are dropped.                           *)

Ends(k) ==
    /\ Running(k)
    /\ task' = [task EXCEPT ![k] = "over"]
    /\ recv' = [recv EXCEPT ![k] = NoTrack]
    /\ changes' = [changes EXCEPT ![k] = 0]
    /\ selects' = [selects EXCEPT ![k] = NoRid]
    /\ UNCHANGED <<publisher_vars, sub, binding, pre_rid, client_vars>>

(* Mutant: an error of the selections is ignored.                           *)
SelectLagsOnly(k) == selects[k] = Lagged /\ Ends(k)

(* The channel of the selections holds one: two before the task sees the    *)
(* first are an error.  So is the end of the subscriber, whose sender it is. *)
SelectEnds(k) ==
    /\ selects[k] = Lagged \/ (sub = "removed" /\ selects[k] = NoRid)
    /\ Ends(k)

(* A packet cannot be written.                                              *)
WriteFails(k) ==
    /\ sub \in {"closed", "removed"}
    /\ recv[k] # NoTrack /\ Flows(recv[k])
    /\ Ends(k)

-----------------------------------------------------------------------------
(* Mutant: a request goes to the first layer, whatever is forwarded.        *)
FirstOfKind(k) == {t \in Listed(k) : IsFirst(t, Listed(k))}

(* sender_forward_rtcp: the tracks that a request of the subscriber for a   *)
(* new picture goes to.                                                     *)
RequestTargets(k) ==
    {t \in Listed(k) : t.rid = binding[k]}

-----------------------------------------------------------------------------
Changing(k) == ChangeLags(k) \/ Offline(k) \/ BindFirst(k) \/ Stay(k)

Selecting(k) ==
    SelectNothing(k) \/ SelectDisable(k) \/ SelectTrack(k) \/ SelectFails(k)
    \/ SelectEnds(k)

Next ==
    \/ \E p \in Publishers : Publish(p) \/ Unpublish(p) \/ ClearTracks(p)
    \/ \E t \in Tracks : TrackUp(t)
    \/ \E kinds \in Offers : Subscribe(kinds)
    \/ AnotherSubscribes \/ SubscriberCloses \/ RemoveSubscribe
    \/ \E rid \in OnOffer \cup {Enable, Disable} : Select(rid)
    \/ \E k \in Kinds : Changing(k) \/ Selecting(k) \/ WriteFails(k)

Spec == Init /\ [][Next]_vars

(* Tasks that can go on do, and select! is random: whatever is there to be  *)
(* seen is seen.  Nobody need publish, subscribe, select, or leave.         *)
FairSpec ==
    /\ Spec
    /\ \A p \in Publishers : WF_vars(ClearTracks(p))
    /\ WF_vars(RemoveSubscribe)
    /\ \A k \in Kinds : WF_vars(Changing(k)) /\ WF_vars(Selecting(k))

-----------------------------------------------------------------------------
(* Properties.                                                             *)

(* A task forwards tracks of its own kind only, though select_layer tells   *)
(* both tasks and looks for video in either.                                *)
OwnKind == \A k \in Kinds : recv[k] # NoTrack => recv[k].kind = k

(* A task that runs forwards a track exactly when it is bound to a layer,   *)
(* and to that track's, whatever publishers and tracks come and go: the map *)
(* that the requests go by agrees with what is forwarded.                   *)
BindingAgreement ==
    \A k \in Kinds : Running(k) =>
        /\ recv[k] = NoTrack <=> binding[k] \in {NoRid, Disable}
        /\ recv[k] # NoTrack => binding[k] \in {recv[k].rid, Enable}

(* Who disabled a track gets none, though others come to publish or to      *)
(* subscribe, until it selects again.                                       *)
DisabledUntilSelected ==
    [][\A k \in Kinds : binding[k] = Disable =>
            binding'[k] = Disable \/ (selects[k] # NoRid /\ selects'[k] = NoRid)]_vars

(* A request goes to tracks of its kind only, and to the one that is being  *)
(* forwarded, if that is listed and was not bound as RID_ENABLE (then it    *)
(* goes nowhere).                                                           *)
RequestsFindTheirTrack ==
    \A k \in Kinds :
        /\ \A t \in RequestTargets(k) : t.kind = k
        /\ Running(k) /\ recv[k] # NoTrack /\ binding[k] # Enable =>
            (recv[k] \in RequestTargets(k)
             <=> recv[k] \in publish_tracks)

(* A subscriber that has seen all changes forwards nothing when nothing is  *)
(* listed.                                                                  *)
NothingListedNothingForwarded ==
    \A k \in Kinds :
        publish_tracks = {} /\ changes[k] = 0 => recv[k] = NoTrack

(* A subscriber that neither has nor remembers a layer gets one as soon as  *)
(* there is one, whether it came before the track or after.                 *)
SubscribersAreServed ==
    \A k \in Kinds :
        (Running(k) /\ binding[k] = NoRid /\ pre_rid[k] = NoRid /\ Listed(k) # {})
        ~> (~Running(k) \/ binding[k] # NoRid \/ Listed(k) = {})

(* The tasks of a subscriber that is removed come to an end.                *)
TasksEnd == \A k \in Kinds : sub = "removed" ~> task[k] # "on"
=============================================================================
