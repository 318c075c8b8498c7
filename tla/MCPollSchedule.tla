---------------------------- MODULE MCPollSchedule ----------------------------
(***************************************************************************)
(* PollSchedule with three cadences: one polled every cycle, one without a *)
(* declared frequency, and one whose interval is two cycles.  A time unit  *)
(* is about two minutes.                                                   *)
(***************************************************************************)
EXTENDS PollSchedule

MCRegistry == <<"fcr", "now", "prices">>
MCCadence ==
  [d \in {"fcr", "now", "prices"} |-> CASE d = "fcr" -> 48 [] d = "now" -> 4 [] OTHER -> 0]
=============================================================================
