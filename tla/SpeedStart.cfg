SPECIFICATION Spec
CONSTANTS
  PLAYERS = 2
  Ranks = 13
  Deals <- MCDeals
INVARIANTS
  PlayersWaitForStart
