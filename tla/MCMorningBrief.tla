---------------------------- MODULE MCMorningBrief ----------------------------
(***************************************************************************)
(* MorningBrief with two horizons, one refreshed every day and one every   *)
(* other day.                                                              *)
(***************************************************************************)
EXTENDS MorningBrief, TLC

\* Runners execute the same code.
RunnerSymmetry == Permutations(Runners)

MCHorizons == <<"month", "year">>
MCRefreshInterval == [h \in {"month", "year"} |-> IF h = "month" THEN 1 ELSE 2]
\* A month forecast that has expired.
MCInitialCache == <<[horizon |-> "month", generated |-> 1, validUntil |-> 1, by |-> 0]>>
=============================================================================
