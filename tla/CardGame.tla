------------------------------ MODULE CardGame ------------------------------
(***************************************************************************)
(* The rules of the card game that demo/parallel_speed plays, with no      *)
(* threads in it: every move is one step.  A card is played on a pile      *)
(* whose last card is its neighbour, and the player is owed a card until   *)
(* it has drawn; cards are turned for all players at once, whoever is owed *)
(* a card, but not when the game is over.                                  *)
(*                                                                         *)
(* ParallelSpeed implements this specification: see its definition Game.   *)
(***************************************************************************)
EXTENDS StackOfCards

CONSTANTS
  PLAYERS,  \* The number of players, and of piles.
  Ranks,    \* The number of ranks.
  Deals     \* The deals, each a function from the kinds of stacks.

VARIABLES
  hands, draws, replenishes, plays,   \* The stacks, one of each per player.
  owed,                               \* Who has played and not yet drawn.
  over                                \* Is the game over?

gameVars == <<hands, draws, replenishes, plays, owed, over>>

Players == 0 .. PLAYERS - 1

Neighbours(c, d) == (c - d) % Ranks \in {1, Ranks - 1}

Init ==
  /\ \E d \in Deals :
       /\ hands = d.hand
       /\ draws = d.draw
       /\ replenishes = d.replenish
       /\ plays = d.play
  /\ owed = [p \in Players |-> FALSE]
  /\ over = FALSE

(* Any player may play on any pile.                                        *)
Play(p, q) ==
  /\ ~ owed[p]
  /\ \E card \in ToSet(hands[p]) :
       /\ Neighbours(card, last_card(plays[q]))
       /\ hands' = [hands EXCEPT ![p] = remove(@, card)]
       /\ plays' = [plays EXCEPT ![q] = add(@, card)]
  /\ owed' = [owed EXCEPT ![p] = TRUE]
  /\ UNCHANGED <<draws, replenishes, over>>

(* For a card that was played one is drawn, if there is one.               *)
Draw(p) ==
  /\ owed[p]
  /\ owed' = [owed EXCEPT ![p] = FALSE]
  /\ \/ /\ draws[p] # << >>
        /\ hands' = [hands EXCEPT ![p] = add(@, draw(draws[p]).card)]
        /\ draws' = [draws EXCEPT ![p] = draw(@).rest]
     \/ draws[p] = << >> /\ UNCHANGED <<hands, draws>>
  /\ UNCHANGED <<replenishes, plays, over>>

Turn ==
  /\ ~ over
  /\ \A p \in Players : replenishes[p] # << >>
  /\ plays' = [p \in Players |-> add(plays[p], draw(replenishes[p]).card)]
  /\ replenishes' = [p \in Players |-> draw(replenishes[p]).rest]
  /\ UNCHANGED <<hands, draws, owed, over>>

(* A player has no cards left and is owed none, or there are none to turn. *)
End ==
  /\ ~ over
  /\ \/ \E p \in Players : hands[p] = << >> /\ ~ owed[p]
     \/ \A p \in Players : replenishes[p] = << >>
  /\ over' = TRUE
  /\ UNCHANGED <<hands, draws, replenishes, plays, owed>>

Next ==
  \/ \E p, q \in Players : Play(p, q)
  \/ \E p \in Players : Draw(p)
  \/ Turn
  \/ End

Spec == Init /\ [][Next]_gameVars

=============================================================================
