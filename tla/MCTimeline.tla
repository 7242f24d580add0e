----------------------------- MODULE MCTimeline -----------------------------
(***************************************************************************)
(* Model-checking instance of Timeline.                                    *)
(***************************************************************************)
EXTENDS Timeline

=============================================================================
