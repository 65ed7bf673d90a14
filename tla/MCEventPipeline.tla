---------------------------- MODULE MCEventPipeline ----------------------------
(* Small instances of EventPipeline for TLC.                               *)
EXTENDS EventPipeline, TLC

Total == [kind |-> "TOTAL", line |-> 6, team |-> None]
MCMarkets == {Total}

\* One score under the line, one over it; the home side wins the first.
MCScores == { [home |-> 1, away |-> 0], [home |-> 0, away |-> 2] }

OneScore == { [home |-> 1, away |-> 0] }

NoBets == {}

OverlapFaults == {"overlap", "nightly"}
CorrectedFaults == {"config", "overlap", "correction", "outage", "blip"}
VoidFaults == {"blip", "outage"}
BlipOnly == {"blip"}
===============================================================================
