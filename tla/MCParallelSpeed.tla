--------------------------- MODULE MCParallelSpeed ---------------------------
(* Instances of ParallelSpeed for TLC.                                     *)
EXTENDS ParallelSpeed

Deal(hands, draws, replenishes, plays) ==
  [hand |-> hands, draw |-> draws, replenish |-> replenishes, play |-> [p \in DOMAIN plays |-> <<plays[p]>>]]

Two(a, b) == (0 :> a) @@ (1 :> b)

(* Ten cards of a deck of 52: both players can play on the first pile at   *)
(* once; a card can be played only after one was turned; the first player  *)
(* can win; no card can ever be played.                                    *)
MCDeals == {
  Deal(Two(<<1, 5>>, <<14, 8>>), Two(<<2>>, <<12>>), Two(<<21>>, <<23>>), Two(0, 10)),
  Deal(Two(<<5, 8>>, <<1, 2>>), Two(<<12>>, <<14>>), Two(<<0>>, <<21>>), Two(10, 23)),
  Deal(Two(<<1, 14>>, <<5, 8>>), Two(<<2>>, <<12>>), Two(<<21>>, <<23>>), Two(0, 10)),
  Deal(Two(<<5, 8>>, <<21, 23>>), Two(<<0>>, <<14>>), Two(<<12>>, <<1>>), Two(10, 2)) }

=============================================================================
