--------------------------- MODULE MCEventReports ---------------------------
(***************************************************************************)
(* EventReports over three market time units.  The figures of the first    *)
(* two are published when the system starts (the history a baseline        *)
(* needs), and so is, in the runs that say so, the one a trigger can fire  *)
(* on.                                                                     *)
(***************************************************************************)
EXTENDS EventReports, TLC

\* Two runners of the cycle execute the same code; they are interchangeable.
RunnerSymmetry == Permutations(Cycles)

\* A quiet past and a spike: the mean of 0 and 1 is 1/2, 4 is beyond 3 stdev.
SpikePublished == [k \in Keys |-> <<CASE k[2] = 1 -> 0 [] k[2] = 2 -> 1 [] OTHER -> 4>>]

\* The spike in DK1, while DK2 is flat, so the zones diverge at the spike.  Every
\* key but DK2's last has been revised before, by less than the tolerance.
DivergencePublished ==
  [k \in Keys |->
     CASE k[1] = "DK2" -> IF k[2] = 3 THEN <<1>> ELSE <<0, 1>>
       [] k[2] = 1 -> <<1, 0>>
       [] k[2] = 2 -> <<0, 1>>
       [] OTHER -> <<5, 4>>]
=============================================================================
