---------------------------- MODULE StackOfCards ----------------------------
(***************************************************************************)
(* The stacks of the card game (demo/parallel_speed/stack_of_cards.cpp,    *)
(* the linked list, which the header selects): a sequence of cards that    *)
(* grows and is drawn from at its end.  A pointer to a card of a stack is  *)
(* its place in the sequence.                                              *)
(***************************************************************************)
EXTENDS Integers, Sequences, SequencesExt

NoCard == 0   \* The NULL pointer.

first_card == 1

(* The scan goes on to the card behind the one it is at.                   *)
next_card(stack, place) == IF place < Len(stack) THEN place + 1 ELSE NoCard

last_card(stack) == Last(stack)

(* The last card of a stack, and what is left of the stack without it.     *)
draw(stack) == [card |-> Last(stack), rest |-> Front(stack)]

(* operator+=, and add where nothing can come between its steps.           *)
add(stack, card) == Append(stack, card)

(* The first card that is equal to it leaves the stack.                    *)
remove(stack, card) == RemoveFirst(stack, card)

size(stack) == Len(stack)

=============================================================================
