---------------------------- MODULE ParallelSpeed ----------------------------
(***************************************************************************)
(* The demonstration program of CIFT (demo/parallel_speed): the card game  *)
(* speed.  Every player is a thread that plays cards of its hand on shared *)
(* piles, one more is the referee, and each pile has a mutex.              *)
(*                                                                         *)
(* The hand and the draw pile of a player are touched by that player only, *)
(* and the replenish piles by the referee only.  The player states, the    *)
(* ready bits and the two flags are plain variables read without a lock,   *)
(* so every read of one is a step.  A card is added to a pile in two       *)
(* steps, as the linked list does it: the tail is found, then linked.      *)
(***************************************************************************)
EXTENDS StackOfCards

CONSTANTS
  PLAYERS,  \* The number of players, and of piles.
  Ranks,    \* The number of ranks, 13.
  Deals     \* The deals the deck can be shuffled to, see DealsAssumption.

Players == 0 .. PLAYERS - 1
Referee == PLAYERS
NoOne   == PLAYERS + 1

(* What the stacks are for; every player has one of each kind, the play    *)
(* pile being one for all to play on.                                      *)
Kinds == {"hand", "draw", "replenish", "play"}

(* deal(): to every player as many cards of each kind, and one on its play *)
(* pile.  A card is a number, and its rank the remainder by Ranks.         *)
IsDeal(d) ==
  /\ d \in [Kinds -> [Players -> Seq(Nat)]]
  /\ \A kind \in Kinds : \A p, q \in Players : Len(d[kind][p]) = Len(d[kind][q])
  /\ \A p \in Players : d.hand[p] # << >> /\ Len(d.play[p]) = 1

Dealt(d) == [s \in Kinds \X Players |-> d[s[1]][s[2]]]

CardsOf(stacks) == UNION {ToSet(stacks[s]) : s \in DOMAIN stacks}

(* check_deck: every card of the deck is in some stack, every card of a    *)
(* stack is of the deck, and none is found twice.                          *)
CheckDeck(stacks, deck) ==
  /\ CardsOf(stacks) = deck
  /\ \A s, t \in DOMAIN stacks :
       \A i \in DOMAIN stacks[s], j \in DOMAIN stacks[t] :
         stacks[s][i] = stacks[t][j] => s = t /\ i = j

Deck == CardsOf(Dealt(CHOOSE d \in Deals : TRUE))

(* The cards of the deck are swapped again and again: any order may come.  *)
IsShuffled(d) == CheckDeck(Dealt(d), Deck)

ASSUME DealsAssumption ==
  /\ PLAYERS \in Nat \ {0}
  /\ Ranks \in Nat \ {0}
  /\ \A d \in Deals : IsDeal(d) /\ IsShuffled(d)

VARIABLES
  player_hand, draw_pile, replenish_pile,
  play_pile,        \* Sequences of cards with who put them there.
  stack_lock,       \* The holder of the mutex of each play pile.
  player_state, player_ready, game_start_flag, game_over,
  pc,               \* Where each player is.
  at,               \* The card of the hand and the pile a player looks at.
  seen,             \* The pile whose tail a player has found.
  referee,          \* Where the referee is.
  seat,             \* The player or pile it is at in a loop.
  count             \* What it has counted in the loop.

cards      == <<player_hand, draw_pile, replenish_pile, play_pile>>
flags      == <<player_state, player_ready, game_start_flag, game_over>>
playerVars == <<pc, at, seen>>
refVars    == <<referee, seat, count>>
vars       == <<cards, stack_lock, flags, playerVars, refVars>>

Put(card, who) == [card |-> card, by |-> who]

(* deal() and play_speed(): the cards are dealt and the threads created.   *)
Init ==
  /\ \E d \in Deals :
       /\ player_hand = d.hand
       /\ draw_pile = d.draw
       /\ replenish_pile = d.replenish
       /\ play_pile = [p \in Players |-> <<Put(d.play[p][1], NoOne)>>]
  /\ stack_lock = [p \in Players |-> NoOne]
  /\ player_state = [p \in Players |-> "unlaunched"]
  /\ player_ready = [p \in Players |-> FALSE]
  /\ game_start_flag = FALSE
  /\ game_over = FALSE
  /\ pc = [p \in Players |-> "launched"]
  /\ at = [p \in Players |-> <<first_card, 0>>]
  /\ seen = [p \in Players |-> << >>]
  /\ referee = "count_ready"
  /\ seat = 0
  /\ count = 0

Step(p, from, to) ==
  /\ pc[p] = from
  /\ pc' = [pc EXCEPT ![p] = to]

-----------------------------------------------------------------------------
(* threaded_player.                                                        *)

SetState(p, state) ==
  /\ player_state' = [player_state EXCEPT ![p] = state]
  /\ UNCHANGED <<player_ready, game_start_flag, game_over>>

Arrive(p) ==
  /\ Step(p, "launched", "arrived")
  /\ SetState(p, "wait_for_start")
  /\ UNCHANGED <<cards, stack_lock, at, seen, refVars>>

BeReady(p) ==
  /\ Step(p, "arrived", "begin")
  /\ player_ready' = [player_ready EXCEPT ![p] = TRUE]
  /\ UNCHANGED <<cards, stack_lock, player_state, game_start_flag, game_over,
                 at, seen, refVars>>

(* The loop before this tests the pointer to the start flag, which is not  *)
(* NULL: it waits for nothing.                                             *)
Begin(p) ==
  /\ Step(p, "begin", "loop")
  /\ SetState(p, "active")
  /\ UNCHANGED <<cards, stack_lock, at, seen, refVars>>

(* There are cards in the hand: play() looks at its first card and the     *)
(* first pile.                                                             *)
Scan(p) ==
  /\ size(player_hand[p]) > 0
  /\ Step(p, "loop", "lock")
  /\ at' = [at EXCEPT ![p] = <<first_card, 0>>]
  /\ UNCHANGED <<cards, stack_lock, flags, seen, refVars>>

(* The hand is empty.                                                      *)
Win(p) ==
  /\ size(player_hand[p]) = 0
  /\ Step(p, "loop", "done")
  /\ SetState(p, "done")
  /\ UNCHANGED <<cards, stack_lock, at, seen, refVars>>

Card(p) == player_hand[p][at[p][1]]
Pile(p) == at[p][2]

(* stack_of_cards::lock and unlock.                                        *)
Acquire(pile, thread) ==
  /\ stack_lock[pile] = NoOne
  /\ stack_lock' = [stack_lock EXCEPT ![pile] = thread]

Release(pile) == stack_lock' = [stack_lock EXCEPT ![pile] = NoOne]

Lock_NotHeld(p) ==
  /\ Step(p, "lock", "look")
  /\ stack_lock' = [stack_lock EXCEPT ![Pile(p)] = p]
  /\ UNCHANGED <<cards, flags, at, seen, refVars>>

Lock(p) ==
  /\ Step(p, "lock", "look")
  /\ Acquire(Pile(p), p)
  /\ UNCHANGED <<cards, flags, at, seen, refVars>>

(* The ranks are neighbours, and the king is next to the ace.              *)
Adjacent(c, d) == (c - d) % Ranks \in {1, Ranks - 1}

(* Does the card go on the last card of the pile?                          *)
Look(p) ==
  LET last == last_card(play_pile[Pile(p)]).card IN
  /\ Step(p, "look", IF Adjacent(Card(p), last) THEN "add" ELSE "pass")
  /\ UNCHANGED <<cards, stack_lock, flags, at, seen, refVars>>

(* Where it is tried next: on the next pile, or the next card on the first *)
(* pile; or there is nothing to play.                                      *)
NextPlace(p) ==
  LET card == next_card(player_hand[p], at[p][1])
  IN CASE Pile(p) < PLAYERS - 1                    -> <<at[p][1], Pile(p) + 1>>
       [] Pile(p) = PLAYERS - 1 /\ card # NoCard  -> <<card, 0>>
       [] OTHER                                    -> << >>

(* It does not go there.                                                   *)
Pass(p) ==
  LET next == NextPlace(p) IN
  /\ Step(p, "pass", IF next = << >> THEN "stuck" ELSE "lock")
  /\ at' = [at EXCEPT ![p] = IF next = << >> THEN <<first_card, 0>> ELSE next]
  /\ Release(Pile(p))
  /\ UNCHANGED <<cards, flags, seen, refVars>>

(* It does: add() looks for the tail of the pile.                          *)
FindTail(p) ==
  /\ Step(p, "add", "link")
  /\ seen' = [seen EXCEPT ![p] = play_pile[Pile(p)]]
  /\ UNCHANGED <<cards, stack_lock, flags, at, refVars>>

(* The card is linked behind that tail, and leaves the hand.               *)
Link(p) ==
  /\ Step(p, "link", "unlock")
  /\ play_pile' = [play_pile EXCEPT ![Pile(p)] = add(seen[p], Put(Card(p), p))]
  /\ player_hand' = [player_hand EXCEPT ![p] = remove(@, Card(p))]
  /\ seen' = [seen EXCEPT ![p] = << >>]
  /\ UNCHANGED <<draw_pile, replenish_pile, stack_lock, flags, at, refVars>>

(* The pile is unlocked; the scan of the hand is at its end.               *)
Unlock(p) ==
  /\ Step(p, "unlock", "draw")
  /\ Release(Pile(p))
  /\ at' = [at EXCEPT ![p] = <<first_card, 0>>]
  /\ UNCHANGED <<cards, flags, seen, refVars>>

(* The last card of the draw pile is drawn, the piles being free again.    *)
Draw(p) ==
  /\ Step(p, "draw", "played")
  /\ IF size(draw_pile[p]) > 0
       THEN /\ player_hand' = [player_hand EXCEPT ![p] = add(@, draw(draw_pile[p]).card)]
            /\ draw_pile' = [draw_pile EXCEPT ![p] = draw(@).rest]
       ELSE UNCHANGED <<player_hand, draw_pile>>
  /\ UNCHANGED <<replenish_pile, play_pile, stack_lock, flags, at, seen, refVars>>

(* The player says how play() went.                                        *)
Tell(p) ==
  /\ \/ Step(p, "played", "check") /\ SetState(p, "active")
     \/ Step(p, "stuck", "check") /\ SetState(p, "stuck")
  /\ UNCHANGED <<cards, stack_lock, at, seen, refVars>>

CheckOver_Ignored(p) ==
  /\ Step(p, "check", "loop")
  /\ UNCHANGED <<cards, stack_lock, flags, at, seen, refVars>>

(* The player looks whether the game is over.                              *)
CheckOver(p) ==
  /\ IF game_over
       THEN Step(p, "check", "done") /\ SetState(p, "done")
       ELSE Step(p, "check", "loop") /\ UNCHANGED flags
  /\ UNCHANGED <<cards, stack_lock, at, seen, refVars>>

Player(p) ==
  \/ Arrive(p) \/ BeReady(p) \/ Begin(p) \/ Scan(p) \/ Win(p)
  \/ Lock(p) \/ Look(p) \/ Pass(p) \/ FindTail(p) \/ Link(p)
  \/ Unlock(p) \/ Draw(p) \/ Tell(p) \/ CheckOver(p)

-----------------------------------------------------------------------------
(* threaded_referee.                                                       *)

(* The referee goes on, and the next loop begins at the first seat.        *)
Go(to) ==
  /\ referee' = to
  /\ seat' = 0
  /\ count' = 0

(* Does the player at the seat count in this loop?                         *)
Counts(p) ==
  CASE referee = "count_ready" -> player_ready[p]
    [] referee = "count_stuck" -> player_state[p] = "stuck"
    [] OTHER                   -> player_state[p] = "done"

(* count_ready_players and count_players: one bit or state is read.        *)
CountOne ==
  /\ referee \in {"count_ready", "count_stuck", "count_done", "await"}
  /\ seat < PLAYERS
  /\ seat' = seat + 1
  /\ count' = count + (IF Counts(seat) THEN 1 ELSE 0)
  /\ UNCHANGED <<cards, stack_lock, flags, playerVars, referee>>

Counted(loop) == referee = loop /\ seat = PLAYERS

StartGame ==
  /\ Counted("count_ready")
  /\ IF count = PLAYERS
       THEN game_start_flag' = TRUE /\ Go("count_stuck")
       ELSE UNCHANGED game_start_flag /\ Go("count_ready")
  /\ UNCHANGED <<cards, stack_lock, player_state, player_ready, game_over,
                 playerVars>>

Judge_NoTest ==
  /\ Counted("count_stuck")
  /\ Go(IF count = PLAYERS THEN "lock" ELSE "count_done")
  /\ UNCHANGED <<cards, stack_lock, flags, playerVars>>

Judge_EndsWhenStuck ==
  /\ Counted("count_stuck")
  /\ game_over' = (game_over \/ count = PLAYERS)
  /\ Go("count_done")
  /\ UNCHANGED <<cards, stack_lock, player_state, player_ready,
                 game_start_flag, playerVars>>

Judge_TurnsUnlocked ==
  LET noMore == count = PLAYERS /\ size(replenish_pile[0]) = 0 IN
  /\ Counted("count_stuck")
  /\ game_over' = (game_over \/ noMore)
  /\ Go(IF count = PLAYERS /\ ~ noMore THEN "turn" ELSE "count_done")
  /\ UNCHANGED <<cards, stack_lock, player_state, player_ready,
                 game_start_flag, playerVars>>

(* All players are stuck: are there cards to turn?                         *)
Judge ==
  LET noMore == count = PLAYERS /\ size(replenish_pile[0]) = 0 IN
  /\ Counted("count_stuck")
  /\ game_over' = (game_over \/ noMore)
  /\ Go(IF count = PLAYERS /\ ~ noMore THEN "lock" ELSE "count_done")
  /\ UNCHANGED <<cards, stack_lock, player_state, player_ready,
                 game_start_flag, playerVars>>

(* turn_cards locks all piles, in order.                                   *)
LockPile ==
  /\ referee = "lock"
  /\ Acquire(seat, Referee)
  /\ IF seat = PLAYERS - 1 THEN Go("turn")
     ELSE seat' = seat + 1 /\ UNCHANGED <<referee, count>>
  /\ UNCHANGED <<cards, flags, playerVars>>

(* With all piles locked, each gets a card of its replenish pile.          *)
TurnCards ==
  /\ referee = "turn"
  /\ \A p \in Players : replenish_pile[p] # << >>
  /\ play_pile' = [p \in Players |->
                     add(play_pile[p], Put(draw(replenish_pile[p]).card, Referee))]
  /\ replenish_pile' = [p \in Players |-> draw(replenish_pile[p]).rest]
  /\ Go("unlock")
  /\ UNCHANGED <<player_hand, draw_pile, stack_lock, flags, playerVars>>

UnlockPile ==
  /\ referee = "unlock"
  /\ Release(seat)
  /\ IF seat = PLAYERS - 1 THEN Go("count_done")
     ELSE seat' = seat + 1 /\ UNCHANGED <<referee, count>>
  /\ UNCHANGED <<cards, flags, playerVars>>

(* A player is done: the game is over.  The loop ends when it is.          *)
EndGame ==
  /\ Counted("count_done")
  /\ game_over' = (game_over \/ count # 0)
  /\ Go(IF game_over' THEN "await" ELSE "count_stuck")
  /\ UNCHANGED <<cards, stack_lock, player_state, player_ready,
                 game_start_flag, playerVars>>

(* The referee leaves when all players are done.                           *)
Leave ==
  /\ Counted("await")
  /\ Go(IF count = PLAYERS THEN "end" ELSE "await")
  /\ UNCHANGED <<cards, stack_lock, flags, playerVars>>

RefereeStep ==
  \/ CountOne \/ StartGame \/ Judge \/ LockPile \/ TurnCards \/ UnlockPile
  \/ EndGame \/ Leave

Ended == referee = "end" /\ \A p \in Players : pc[p] = "done"

Next ==
  \/ \E p \in Players : Player(p)
  \/ RefereeStep
  \/ Ended /\ UNCHANGED vars

Spec == Init /\ [][Next]_vars

(* The threads are scheduled again and again; and a mutex that is released *)
(* again and again is given at last to each thread that waits for it.      *)
Fairness ==
  /\ \A p \in Players : WF_vars(Player(p)) /\ SF_vars(Lock(p))
  /\ WF_vars(RefereeStep)
  /\ SF_vars(LockPile)

FairSpec == Spec /\ Fairness

-----------------------------------------------------------------------------
(* All the cards there are, stack by stack.                                *)
Stacks ==
  [s \in Kinds \X Players |->
     LET p == s[2] IN
     CASE s[1] = "hand"      -> player_hand[p]
       [] s[1] = "draw"      -> draw_pile[p]
       [] s[1] = "replenish" -> replenish_pile[p]
       [] s[1] = "play"      -> [k \in DOMAIN play_pile[p] |-> play_pile[p][k].card]]

(* check_deck (check_deck.cpp:38-91), at every moment and not only at the  *)
(* end: no card is lost and none is there twice, however the players and   *)
(* the referee interleave.                                                 *)
DeckComplete == CheckDeck(Stacks, Deck)

(* A card that a player put on a pile is a neighbour of the card under it  *)
(* (main.cpp:127-130): what the player looked at is what it played on.     *)
PlaysAreLegal ==
  \A p \in Players :
    \A k \in 2 .. Len(play_pile[p]) :
      play_pile[p][k].by \in Players =>
        Adjacent(play_pile[p][k].card, play_pile[p][k - 1].card)

(* "assert p != NULL" (stack_of_cards.cpp:126): only the first replenish   *)
(* pile is tested, but the referee finds a card in each (main.cpp:224,254).*)
TurnFindsCards ==
  referee = "turn" => \A p \in Players : replenish_pile[p] # << >>

(* The game ends with a player who has no cards left or with no cards left *)
(* to turn (main.cpp:252-266), although the referee judges by states that  *)
(* are out of date.                                                        *)
EndIsJustified ==
  game_over => \/ \E p \in Players : player_hand[p] = << >>
               \/ \A p \in Players : replenish_pile[p] = << >>

(* The threads play by the rules (main.cpp:117-279): although a play is    *)
(* many steps, and the referee judges by states that are out of date, the  *)
(* stacks change as in a game in which every move is one step.  A player   *)
(* draws one card for each it played before it plays again, cards are      *)
(* turned one for each pile, with no play half made and not when the game  *)
(* is over, and the end is declared once.  A player that has left the pile *)
(* may still be owed its card when cards are turned: its state says stuck  *)
(* until it tells how play() went.                                         *)
Table == [p \in Players |-> [k \in DOMAIN play_pile[p] |-> play_pile[p][k].card]]
Game  == INSTANCE CardGame
           WITH hands <- player_hand, draws <- draw_pile,
                replenishes <- replenish_pile, plays <- Table,
                owed <- [p \in Players |-> pc[p] = "unlock" \/ pc[p] = "draw"],
                over <- game_over
ImplementsGame == Game!Spec

(* Every game ends, and main() can join all threads (main.cpp:416-419).    *)
GameEnds == <>[]Ended

(* "wait here until the game is ready to start, this bit gets set by the   *)
(* referee" (main.cpp:161-162).                                            *)
PlayersWaitForStart ==
  \A p \in Players :
    pc[p] \notin {"launched", "arrived", "begin"} => game_start_flag

=============================================================================
