------------------------------- MODULE MCTracer -------------------------------
(***************************************************************************)
(* Small instances of Tracer for TLC.                                      *)
(***************************************************************************)
EXTENDS Tracer, TLC

CONSTANTS s1, s2

(* The transactions the SDK starts; of a screen load s2 is the span of the *)
(* time to display, which the tracer does not wait for.                    *)
AllConfigs == {Manual, ScreenLoad({s2}), UIEvent, Launch}
===============================================================================
