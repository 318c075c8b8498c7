------------------------------- MODULE StudyTime -------------------------------
(***************************************************************************)
(* The time axis of the forecasting modules: ticks, hours and days.  Local *)
(* time (Europe/Copenhagen) and UTC are not told apart.                    *)
(***************************************************************************)
EXTENDS Integers, FiniteSets, FiniteSetsExt

CONSTANTS
  None,       \* None: no value, no forecast, no lookback; a fit that raised
  Hour, Day   \* in ticks

\* A day is made of whole hours.
ASSUME TimeAssumption == {Hour, Day} \subseteq Nat \ {0} /\ Day % Hour = 0

FlooredToHour(t) == t - (t % Hour)
DateOf(t) == t \div Day
TimeOfDay(t) == t % Day
===============================================================================
