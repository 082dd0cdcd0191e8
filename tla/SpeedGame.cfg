SPECIFICATION FairSpec
CONSTANTS
  PLAYERS = 2
  Ranks = 13
  Deals <- MCDeals
INVARIANTS
  DeckComplete
  PlaysAreLegal
  TurnFindsCards
  EndIsJustified
PROPERTIES
  ImplementsGame
  GameEnds
