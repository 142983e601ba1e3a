------------------------- MODULE MCMonitoringEvents -------------------------
(***************************************************************************)
(* A small instance of MonitoringEvents: a rate that comes and goes, with  *)
(* the same warnings each time, a quality that falls, an evaluation that   *)
(* raises.                                                                 *)
(***************************************************************************)
EXTENDS MonitoringEvents, TLC

Clear    == [warnings |-> 0, missing |-> FALSE, quality |-> 100, alarm |-> FALSE, raises |-> FALSE]
Outage   == [warnings |-> 1, missing |-> TRUE, quality |-> 5, alarm |-> TRUE, raises |-> FALSE]
Failing  == [warnings |-> 0, missing |-> FALSE, quality |-> 0, alarm |-> FALSE, raises |-> TRUE]

MCFindings == {Clear, Outage, Failing}

MCIds == 1..10

MCKeys == {"degraded", "fx_missing", "error"} \X {0, 1}

MCContents ==
  [type: {"monitoring_tick_completed", "market_data_degraded", "fx_missing", "monitoring_error"},
   severity: {"info", "warning", "critical"}]

(* The threads are interchangeable; nothing but invariants is checked here.  *)
ThreadSymmetry == Permutations(Threads)
=============================================================================
