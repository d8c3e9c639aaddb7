--------------------------- MODULE MCTrackForward ---------------------------
(***************************************************************************)
(* Instances of TrackForward for TLC.                                      *)
(***************************************************************************)
EXTENDS TrackForward

CONSTANTS p1, p2

(* p1 sends video in two layers, p2 sound only.                             *)
LayersThenSound ==
    {[by |-> p1, kind |-> "video", rid |-> 1], [by |-> p1, kind |-> "video", rid |-> 2],
     [by |-> p2, kind |-> "audio", rid |-> 0]}

(* The tasks of a subscriber share nothing: one is as good as both.         *)
OneKind == {{"video"}, {"audio"}}
=============================================================================
