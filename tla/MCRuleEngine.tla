---------------------------- MODULE MCRuleEngine ----------------------------
(***************************************************************************)
(* The rule engine reading the table its writers fill: two zones of three  *)
(* times, an ingestor beside a backfill, figures revised meanwhile.        *)
(***************************************************************************)
EXTENDS MarketTriggers, MarketOrder

\* DK2's three figures and DK1's first have been revised already; DK1's newest is not
\* out yet.
MCInitialFigures ==
  [k \in Keys |-> IF k[1] = "DK2" THEN <<0, 1>> ELSE <<<<1, 0>>, <<1>>, <<>>>>[k[2]]]

=============================================================================
