------------------------- MODULE ParallelSpeedProofs -------------------------
(***************************************************************************)
(* What the mutexes of the piles are good for, and how a game ends, for    *)
(* any number of players and any deal.                                     *)
(***************************************************************************)
EXTENDS ParallelSpeed, SequenceTheorems, TLAPS

Threads == Players \union {Referee, NoOne}

PutType == [card : Nat, by : Threads]

PlayerPc == {"launched", "arrived", "begin", "loop", "lock", "look", "pass", "add", "link",
             "unlock", "draw", "played", "stuck", "check", "done"}

PlayerStates == {"unlaunched", "wait_for_start", "active", "stuck", "done"}

RefereePc == {"count_ready", "count_stuck", "count_done", "await", "lock", "turn", "unlock", "end"}

TypeOK ==
  /\ player_hand \in [Players -> Seq(Nat)]
  /\ draw_pile \in [Players -> Seq(Nat)]
  /\ replenish_pile \in [Players -> Seq(Nat)]
  /\ play_pile \in [Players -> Seq(PutType)]
  /\ stack_lock \in [Players -> Threads]
  /\ player_state \in [Players -> PlayerStates]
  /\ game_over \in BOOLEAN
  /\ pc \in [Players -> PlayerPc]
  /\ at \in [Players -> (Nat \ {0}) \X Players]
  /\ seen \in [Players -> Seq(PutType)]
  /\ referee \in RefereePc
  /\ seat \in 0 .. PLAYERS
  /\ count \in Nat

(* Who is at a pile holds its mutex; the referee has them up to its seat   *)
(* when it takes them, and from its seat on when it gives them back.       *)
AtPile == {"look", "pass", "add", "link", "unlock"}

LockInv ==
  /\ \A p \in Players : pc[p] \in AtPile => stack_lock[Pile(p)] = p
  /\ referee \in {"lock", "unlock"} => seat < PLAYERS
  /\ referee = "lock" => \A r \in Players : r < seat => stack_lock[r] = Referee
  /\ referee = "turn" => \A r \in Players : stack_lock[r] = Referee
  /\ referee = "unlock" => \A r \in Players : r >= seat => stack_lock[r] = Referee

(* The card a player looks at is in its hand; when it is to be added it    *)
(* fits, and the tail that was found is still the pile's.                  *)
Fits(p) ==
  /\ pc[p] \in {"lock", "look", "pass", "add", "link"} => at[p][1] <= Len(player_hand[p])
  /\ pc[p] \in {"add", "link"} => Adjacent(Card(p), Last(play_pile[Pile(p)]).card)
  /\ pc[p] = "link" => seen[p] = play_pile[Pile(p)]

(* PlaysAreLegal, for one pile.                                            *)
Legal(pile) ==
  \A k \in 2 .. Len(pile) :
    pile[k].by \in Players => Adjacent(pile[k].card, pile[k - 1].card)

PileInv ==
  /\ \A r \in Players : play_pile[r] # << >> /\ Legal(play_pile[r])
  /\ \A p \in Players : Fits(p)

(* The referee turns the replenish piles together, and only if there are   *)
(* cards in the first.                                                     *)
TurnInv ==
  /\ \A p, q \in Players : Len(replenish_pile[p]) = Len(replenish_pile[q])
  /\ referee \in {"lock", "turn"} => replenish_pile[0] # << >>

(* A player is done when its hand is empty or the game was over; the       *)
(* referee ends the game with a player who was done before, or with no     *)
(* card left to turn.                                                      *)
EndInv ==
  /\ \A p \in Players : player_state[p] = "done" <=> pc[p] = "done"
  /\ \A p \in Players : pc[p] = "done" => (player_hand[p] = << >> \/ game_over)
  /\ (referee = "count_done" /\ count # 0) => \E p \in Players : pc[p] = "done"
  /\ game_over => \/ \E p \in Players : pc[p] = "done" /\ player_hand[p] = << >>
                  \/ \A p \in Players : replenish_pile[p] = << >>

IInv == TypeOK /\ DeckComplete /\ LockInv /\ PileInv /\ TurnInv /\ EndInv

-----------------------------------------------------------------------------
(* What a step of a player leaves alone.                                   *)
LEMMA PlayerFrame ==
  ASSUME TypeOK, NEW p \in Players, Player(p)
  PROVE  /\ UNCHANGED <<replenish_pile, game_over, referee, seat, count>>
         /\ \A q \in Players \ {p} :
              /\ pc'[q] = pc[q] /\ at'[q] = at[q] /\ seen'[q] = seen[q]
              /\ player_hand'[q] = player_hand[q]
              /\ player_state'[q] = player_state[q]
<1> USE DEF cards, flags, refVars, Step, SetState, TypeOK
<1>1. CASE Arrive(p) \/ BeReady(p) \/ Begin(p) \/ Tell(p) \/ CheckOver(p) \/ Win(p)
  BY <1>1 DEF Arrive, BeReady, Begin, Tell, CheckOver, Win
<1>2. CASE Scan(p) \/ Lock(p) \/ Look(p) \/ FindTail(p)
  BY <1>2 DEF Scan, Lock, Look, FindTail
<1>3. CASE Pass(p)
  BY <1>3 DEF Pass
<1>4. CASE Link(p)
  BY <1>4 DEF Link
<1>5. CASE Unlock(p)
  BY <1>5 DEF Unlock
<1>6. CASE Draw(p)
  BY <1>6 DEF Draw
<1> QED BY <1>1, <1>2, <1>3, <1>4, <1>5, <1>6 DEF Player

LEMMA SizeFact ==
  ASSUME NEW S, NEW s \in Seq(S)
  PROVE  /\ size(s) \in Nat /\ size(s) = Len(s)
         /\ size(s) > 0 <=> s # << >>
         /\ size(s) = 0 <=> s = << >>
BY DEF size

(* A card that is there once is removed where it is.                       *)
LEMMA RemoveOne ==
  ASSUME NEW S, NEW s \in Seq(S), NEW i \in 1 .. Len(s),
         \A j \in 1 .. Len(s) : s[j] = s[i] => j = i
  PROVE  /\ remove(s, s[i]) \in Seq(S)
         /\ Len(remove(s, s[i])) = Len(s) - 1
         /\ \A k \in 1 .. Len(s) - 1 :
              remove(s, s[i])[k] = s[IF k < i THEN k ELSE k + 1]
<1> DEFINE I == {j \in 1 .. Len(s) : s[j] = s[i]}
<1>1. I = {i}
  OBVIOUS
<1>2. SelectInSeq(s, LAMBDA v : v = s[i]) = Min(I)
  BY <1>1 DEF SelectInSeq
<1>3. Min(I) = i
  BY <1>1 DEF Min
<1>4. remove(s, s[i]) = RemoveAt(s, i)
  BY <1>2, <1>3 DEF remove, RemoveFirst
<1>5. RemoveAt(s, i) = SubSeq(s, 1, i - 1) \o SubSeq(s, i + 1, Len(s))
  BY DEF RemoveAt
<1>6. /\ SubSeq(s, 1, i - 1) \in Seq(S) /\ Len(SubSeq(s, 1, i - 1)) = i - 1
      /\ SubSeq(s, i + 1, Len(s)) \in Seq(S) /\ Len(SubSeq(s, i + 1, Len(s))) = Len(s) - i
      /\ \A k \in 1 .. i - 1 : SubSeq(s, 1, i - 1)[k] = s[k]
      /\ \A k \in 1 .. Len(s) - i : SubSeq(s, i + 1, Len(s))[k] = s[i + k]
  OBVIOUS
<1> HIDE DEF I
<1>7. \A u, v \in Seq(S) :
        /\ u \o v \in Seq(S) /\ Len(u \o v) = Len(u) + Len(v)
        /\ \A k \in 1 .. Len(u) + Len(v) :
             (u \o v)[k] = IF k <= Len(u) THEN u[k] ELSE v[k - Len(u)]
  OBVIOUS
<1>8. \E u, v \in Seq(S) :
        /\ remove(s, s[i]) = u \o v /\ Len(u) = i - 1 /\ Len(v) = Len(s) - i
        /\ \A k \in 1 .. i - 1 : u[k] = s[k]
        /\ \A k \in 1 .. Len(s) - i : v[k] = s[i + k]
  BY <1>4, <1>5, <1>6
<1>9. PICK u \in Seq(S), v \in Seq(S) :
        /\ remove(s, s[i]) = u \o v /\ Len(u) = i - 1 /\ Len(v) = Len(s) - i
        /\ \A k \in 1 .. i - 1 : u[k] = s[k]
        /\ \A k \in 1 .. Len(s) - i : v[k] = s[i + k]
  BY <1>8
<1>10. Len(s) \in Nat /\ i \in Nat /\ 1 <= i /\ i <= Len(s)
  OBVIOUS
<1>11. remove(s, s[i]) \in Seq(S) /\ Len(remove(s, s[i])) = Len(s) - 1
  BY <1>7, <1>9, <1>10
<1>12. ASSUME NEW k \in 1 .. Len(s) - 1
       PROVE  remove(s, s[i])[k] = s[IF k < i THEN k ELSE k + 1]
  <2>1. remove(s, s[i])[k] = IF k <= Len(u) THEN u[k] ELSE v[k - Len(u)]
    BY <1>7, <1>9, <1>10
  <2>2. CASE k < i
    BY <1>9, <1>10, <2>1, <2>2
  <2>3. CASE ~ (k < i)
    <3>1. k - Len(u) \in 1 .. Len(s) - i /\ i + (k - Len(u)) = k + 1 /\ ~ (k <= Len(u))
      BY <1>9, <1>10, <2>3
    <3>2. v[k - Len(u)] = s[k + 1]
      BY <1>9, <3>1
    <3> QED BY <2>1, <2>3, <3>1, <3>2
  <2> QED BY <2>2, <2>3
<1> QED BY <1>11, <1>12

(* A stack holds a card.                                                   *)
Holds(stack, card) == \E k \in 1 .. Len(stack) : stack[k] = card

LEMMA InCards ==
  ASSUME NEW Slots, NEW S, NEW stacks \in [Slots -> Seq(S)], NEW v
  PROVE  v \in CardsOf(stacks) <=> \E s \in Slots : Holds(stacks[s], v)
<1>1. DOMAIN stacks = Slots
  OBVIOUS
<1>2. v \in CardsOf(stacks) <=> \E s \in Slots : v \in ToSet(stacks[s])
  BY <1>1 DEF CardsOf
<1>3. \A s \in Slots : v \in ToSet(stacks[s]) <=> Holds(stacks[s], v)
  BY DEF ToSet, Holds
<1> QED BY <1>2, <1>3

(* What check_deck finds out, said of the places of the cards.             *)
OncePlaced(stacks, Slots) ==
  \A s, t \in Slots : \A k \in 1 .. Len(stacks[s]), l \in 1 .. Len(stacks[t]) :
    stacks[s][k] = stacks[t][l] => s = t /\ k = l

LEMMA DeckIs ==
  ASSUME NEW Slots, NEW S, NEW deck, NEW stacks \in [Slots -> Seq(S)]
  PROVE  CheckDeck(stacks, deck) <=> CardsOf(stacks) = deck /\ OncePlaced(stacks, Slots)
<1>1. DOMAIN stacks = Slots /\ \A s \in Slots : DOMAIN stacks[s] = 1 .. Len(stacks[s])
  OBVIOUS
<1>2. ASSUME CheckDeck(stacks, deck) PROVE OncePlaced(stacks, Slots)
  <2> SUFFICES ASSUME NEW s \in Slots, NEW t \in Slots, NEW k \in 1 .. Len(stacks[s]),
                      NEW l \in 1 .. Len(stacks[t]), stacks[s][k] = stacks[t][l]
               PROVE  s = t /\ k = l
    BY DEF OncePlaced
  <2>1. s \in DOMAIN stacks /\ t \in DOMAIN stacks
        /\ k \in DOMAIN stacks[s] /\ l \in DOMAIN stacks[t]
    BY <1>1
  <2> QED BY <1>2, <2>1 DEF CheckDeck
<1>3. ASSUME CardsOf(stacks) = deck, OncePlaced(stacks, Slots) PROVE CheckDeck(stacks, deck)
  <2> SUFFICES ASSUME NEW s \in DOMAIN stacks, NEW t \in DOMAIN stacks,
                      NEW k \in DOMAIN stacks[s], NEW l \in DOMAIN stacks[t],
                      stacks[s][k] = stacks[t][l]
               PROVE  s = t /\ k = l
    BY <1>3 DEF CheckDeck
  <2>1. s \in Slots /\ t \in Slots /\ k \in 1 .. Len(stacks[s]) /\ l \in 1 .. Len(stacks[t])
    BY <1>1
  <2> QED BY <1>3, <2>1 DEF OncePlaced
<1>4. CheckDeck(stacks, deck) => CardsOf(stacks) = deck
  BY DEF CheckDeck
<1> QED BY <1>2, <1>3, <1>4

(* From each of some stacks a card moves to the end of another.            *)
CardsMoved(s1, s2, Slots, From, i, to) ==
  /\ \A a \in From : i[a] \in 1 .. Len(s1[a]) /\ to[a] \notin From
  /\ \A a, b \in From : to[a] = to[b] => a = b
  /\ \A a \in From : /\ Len(s2[a]) = Len(s1[a]) - 1
                     /\ \A k \in 1 .. Len(s1[a]) - 1 :
                          s2[a][k] = s1[a][IF k < i[a] THEN k ELSE k + 1]
  /\ \A a \in From : s2[to[a]] = Append(s1[to[a]], s1[a][i[a]])
  /\ \A b \in Slots \ From : (\A a \in From : to[a] # b) => s2[b] = s1[b]

LEMMA Moves ==
  ASSUME NEW Slots, NEW S, NEW deck,
         NEW s1 \in [Slots -> Seq(S)], NEW s2 \in [Slots -> Seq(S)],
         NEW From \in SUBSET Slots, NEW i \in [From -> Nat], NEW to \in [From -> Slots],
         CardsMoved(s1, s2, Slots, From, i, to),
         CheckDeck(s1, deck)
  PROVE  CheckDeck(s2, deck)
<1> USE DEF CardsMoved
<1> DEFINE Stayed(b, k, c, j) == b \notin From /\ c = b /\ j = k
           Slid(b, k, c, j) == b \in From /\ c = b /\ j = IF k < i[b] THEN k ELSE k + 1
           Came(b, k, c, j) == /\ b \notin From /\ c \in From /\ to[c] = b /\ j = i[c]
                               /\ k = Len(s1[b]) + 1
           Was(b, k, c, j) == Stayed(b, k, c, j) \/ Slid(b, k, c, j) \/ Came(b, k, c, j)
<1>0. /\ DOMAIN s1 = Slots /\ DOMAIN s2 = Slots
      /\ \A b \in Slots : /\ Len(s1[b]) \in Nat /\ DOMAIN s1[b] = 1 .. Len(s1[b])
                          /\ Len(s2[b]) \in Nat /\ DOMAIN s2[b] = 1 .. Len(s2[b])
      /\ \A a \in From : i[a] \in Nat
  OBVIOUS
<1>1. \A a \in From : /\ to[a] \in Slots /\ to[a] \notin From /\ a \in Slots
                      /\ Len(s2[to[a]]) = Len(s1[to[a]]) + 1
                      /\ \A k \in 1 .. Len(s1[to[a]]) : s2[to[a]][k] = s1[to[a]][k]
                      /\ s2[to[a]][Len(s1[to[a]]) + 1] = s1[a][i[a]]
  <2> SUFFICES ASSUME NEW a \in From
               PROVE  /\ Len(s2[to[a]]) = Len(s1[to[a]]) + 1
                      /\ \A k \in 1 .. Len(s1[to[a]]) : s2[to[a]][k] = s1[to[a]][k]
                      /\ s2[to[a]][Len(s1[to[a]]) + 1] = s1[a][i[a]]
    OBVIOUS
  <2>1. s1[to[a]] \in Seq(S) /\ s1[a] \in Seq(S) /\ i[a] \in 1 .. Len(s1[a])
    OBVIOUS
  <2>2. s1[a][i[a]] \in S
    BY <2>1
  <2>3. s2[to[a]] = Append(s1[to[a]], s1[a][i[a]])
    OBVIOUS
  <2> QED BY <2>1, <2>2, <2>3
<1>2. ASSUME NEW b \in Slots, NEW k \in 1 .. Len(s2[b])
      PROVE  \E c \in Slots : \E j \in 1 .. Len(s1[c]) :
               Was(b, k, c, j) /\ s2[b][k] = s1[c][j]
  <2>1. CASE b \in From
    <3> DEFINE j == IF k < i[b] THEN k ELSE k + 1
    <3>1. j \in 1 .. Len(s1[b]) /\ s2[b][k] = s1[b][j]
      BY <1>0, <2>1
    <3>2. Was(b, k, b, j)
      BY <2>1
    <3> QED BY <3>1, <3>2
  <2>2. CASE b \notin From /\ k <= Len(s1[b])
    <3>1. s2[b][k] = s1[b][k]
      <4>1. CASE \E a \in From : to[a] = b
        BY <1>0, <1>1, <2>2, <4>1
      <4>2. CASE ~ \E a \in From : to[a] = b
        BY <2>2, <4>2
      <4> QED BY <4>1, <4>2
    <3>2. Was(b, k, b, k)
      BY <2>2
    <3>3. k \in 1 .. Len(s1[b])
      BY <1>0, <2>2
    <3> QED BY <3>1, <3>2, <3>3
  <2>3. CASE b \notin From /\ ~ (k <= Len(s1[b]))
    <3>1. PICK a \in From : to[a] = b
      <4>1. s2[b] # s1[b]
        BY <1>0, <2>3
      <4> QED BY <2>3, <4>1
    <3>2. k = Len(s1[b]) + 1 /\ s2[b][k] = s1[a][i[a]] /\ a \in Slots
      BY <1>0, <1>1, <2>3, <3>1
    <3>3. Was(b, k, a, i[a])
      BY <2>3, <3>1, <3>2
    <3> QED BY <3>2, <3>3
  <2> QED BY <2>1, <2>2, <2>3
<1>3. ASSUME NEW c \in Slots, NEW j \in 1 .. Len(s1[c])
      PROVE  \E b \in Slots : \E k \in 1 .. Len(s2[b]) : s2[b][k] = s1[c][j]
  <2>1. CASE c \in From /\ j = i[c]
    BY <1>0, <1>1, <2>1
  <2>2. CASE c \in From /\ j # i[c]
    <3> DEFINE k == IF j < i[c] THEN j ELSE j - 1
    <3>1. k \in 1 .. Len(s2[c]) /\ k \in 1 .. Len(s1[c]) - 1 /\ j = IF k < i[c] THEN k ELSE k + 1
      BY <1>0, <2>2
    <3>2. s2[c][k] = s1[c][j]
      BY <2>2, <3>1
    <3> QED BY <3>1, <3>2
  <2>3. CASE c \notin From
    <3>1. CASE \E a \in From : to[a] = c
      <4>1. j \in 1 .. Len(s2[c]) /\ s2[c][j] = s1[c][j]
        BY <1>0, <1>1, <3>1
      <4> QED BY <4>1
    <3>2. CASE ~ \E a \in From : to[a] = c
      <4>1. s2[c] = s1[c]
        BY <2>3, <3>2
      <4>2. j \in 1 .. Len(s2[c]) /\ s2[c][j] = s1[c][j]
        BY <4>1
      <4> QED BY <4>2
    <3> QED BY <3>1, <3>2
  <2> QED BY <2>1, <2>2, <2>3
<1>4. ASSUME NEW b \in Slots, NEW k \in 1 .. Len(s2[b]),
             NEW d \in Slots, NEW l \in 1 .. Len(s2[d]),
             NEW c, NEW j, Was(b, k, c, j), Was(d, l, c, j)
      PROVE  b = d /\ k = l
  <2>1. CASE Slid(b, k, c, j) /\ Slid(d, l, c, j)
    BY <1>0, <2>1
  <2>2. CASE Slid(b, k, c, j) /\ Came(d, l, c, j)
    BY <1>0, <2>2
  <2>3. CASE Came(b, k, c, j) /\ Slid(d, l, c, j)
    BY <1>0, <2>3
  <2>4. CASE Came(b, k, c, j) /\ Came(d, l, c, j)
    BY <2>4
  <2>5. CASE Stayed(b, k, c, j) \/ Stayed(d, l, c, j)
    BY <1>4, <2>5
  <2> QED BY <1>4, <2>1, <2>2, <2>3, <2>4, <2>5
<1> HIDE DEF Was, Stayed, Slid, Came
<1>5. \A b, d \in Slots : \A k \in 1 .. Len(s2[b]), l \in 1 .. Len(s2[d]) :
        s2[b][k] = s2[d][l] => b = d /\ k = l
  <2> SUFFICES ASSUME NEW b \in Slots, NEW d \in Slots, NEW k \in 1 .. Len(s2[b]),
                      NEW l \in 1 .. Len(s2[d]), s2[b][k] = s2[d][l]
               PROVE  b = d /\ k = l
    OBVIOUS
  <2>1. PICK c \in Slots : \E j \in 1 .. Len(s1[c]) : Was(b, k, c, j) /\ s2[b][k] = s1[c][j]
    BY <1>2
  <2>2. PICK j \in 1 .. Len(s1[c]) : Was(b, k, c, j) /\ s2[b][k] = s1[c][j]
    BY <2>1
  <2>3. PICK e \in Slots : \E m \in 1 .. Len(s1[e]) : Was(d, l, e, m) /\ s2[d][l] = s1[e][m]
    BY <1>2
  <2>4. PICK m \in 1 .. Len(s1[e]) : Was(d, l, e, m) /\ s2[d][l] = s1[e][m]
    BY <2>3
  <2>5. c = e /\ j = m
    <3>1. s1[c][j] = s1[e][m] /\ c \in DOMAIN s1 /\ e \in DOMAIN s1
          /\ j \in DOMAIN s1[c] /\ m \in DOMAIN s1[e]
      BY <1>0, <2>2, <2>4
    <3> QED BY <3>1 DEF CheckDeck
  <2> QED BY <1>4, <2>2, <2>4, <2>5
<1>6. CardsOf(s2) = CardsOf(s1)
  <2>1. ASSUME NEW v \in CardsOf(s2) PROVE v \in CardsOf(s1)
    <3>1. PICK b \in Slots : Holds(s2[b], v)
      BY InCards
    <3>2. PICK k \in 1 .. Len(s2[b]) : s2[b][k] = v
      BY <3>1 DEF Holds
    <3>3. PICK c \in Slots : \E j \in 1 .. Len(s1[c]) : Was(b, k, c, j) /\ s2[b][k] = s1[c][j]
      BY <1>2
    <3>4. PICK j \in 1 .. Len(s1[c]) : s2[b][k] = s1[c][j]
      BY <3>3
    <3>5. Holds(s1[c], v)
      BY <3>2, <3>4 DEF Holds
    <3> QED BY <3>5, InCards
  <2>2. ASSUME NEW v \in CardsOf(s1) PROVE v \in CardsOf(s2)
    <3>1. PICK c \in Slots : Holds(s1[c], v)
      BY InCards
    <3>2. PICK j \in 1 .. Len(s1[c]) : s1[c][j] = v
      BY <3>1 DEF Holds
    <3>3. PICK b \in Slots : \E k \in 1 .. Len(s2[b]) : s2[b][k] = s1[c][j]
      BY <1>3
    <3>4. PICK k \in 1 .. Len(s2[b]) : s2[b][k] = s1[c][j]
      BY <3>3
    <3>5. Holds(s2[b], v)
      BY <3>2, <3>4 DEF Holds
    <3> QED BY <3>5, InCards
  <2> QED BY <2>1, <2>2
<1>7. CardsOf(s1) = deck
  BY DeckIs
<1>8. OncePlaced(s2, Slots)
  BY <1>5 DEF OncePlaced
<1>9. CardsOf(s2) = deck
  BY <1>6, <1>7
<1> QED BY <1>8, <1>9, DeckIs

(* One card moves from its place to the end of another stack.              *)
CardMoved(s1, s2, Slots, from, i, to) ==
  /\ from # to /\ i \in 1 .. Len(s1[from])
  /\ Len(s2[from]) = Len(s1[from]) - 1
  /\ \A k \in 1 .. Len(s1[from]) - 1 : s2[from][k] = s1[from][IF k < i THEN k ELSE k + 1]
  /\ s2[to] = Append(s1[to], s1[from][i])
  /\ \A b \in Slots \ {from, to} : s2[b] = s1[b]

LEMMA MoveOne ==
  ASSUME NEW Slots, NEW S, NEW deck,
         NEW s1 \in [Slots -> Seq(S)], NEW s2 \in [Slots -> Seq(S)],
         NEW from \in Slots, NEW to \in Slots, NEW i \in Nat,
         CardMoved(s1, s2, Slots, from, i, to), CheckDeck(s1, deck)
  PROVE  CheckDeck(s2, deck)
<1> USE DEF CardMoved
<1> DEFINE From == {from}
           is   == [a \in From |-> i]
           tos  == [a \in From |-> to]
<1>1. From \in SUBSET Slots /\ is \in [From -> Nat] /\ tos \in [From -> Slots]
  OBVIOUS
<1>2. \A a \in From : a = from /\ is[a] = i /\ tos[a] = to /\ tos[a] \notin From
  OBVIOUS
<1>3. from \in From
  OBVIOUS
<1> HIDE DEF From, is, tos
<1>4. \A b \in Slots \ From : (\A a \in From : tos[a] # b) => s2[b] = s1[b]
  BY <1>2, <1>3
<1>5. \A a \in From : is[a] \in 1 .. Len(s1[a]) /\ tos[a] \notin From
  BY <1>2
<1>6. \A a, b \in From : tos[a] = tos[b] => a = b
  BY <1>2
<1>7. \A a \in From : /\ Len(s2[a]) = Len(s1[a]) - 1
                     /\ \A k \in 1 .. Len(s1[a]) - 1 :
                          s2[a][k] = s1[a][IF k < is[a] THEN k ELSE k + 1]
  BY <1>2
<1>8. \A a \in From : s2[tos[a]] = Append(s1[tos[a]], s1[a][is[a]])
  BY <1>2
<1>9. CardsMoved(s1, s2, Slots, From, is, tos)
  BY <1>4, <1>5, <1>6, <1>7, <1>8 DEF CardsMoved
<1> QED BY <1>1, <1>9, Moves

(* What these do to a stack is plain.                                      *)
USE DEF first_card, last_card, draw, add, Acquire, Release

LEMMA SeqFacts ==
  ASSUME NEW S, NEW s \in Seq(S), s # << >>
  PROVE  /\ Len(s) \in Nat \ {0}
         /\ Last(s) \in S
         /\ Front(s) \in Seq(S) /\ Len(Front(s)) = Len(s) - 1
         /\ \A i \in 1 .. Len(s) : RemoveAt(s, i) \in Seq(S)
<1>1. Len(s) \in Nat \ {0}
  OBVIOUS
<1>2. Last(s) \in S
  BY <1>1 DEF Last
<1>3. Front(s) \in Seq(S) /\ Len(Front(s)) = Len(s) - 1
  <2>1. PICK n \in Nat : n = Len(s) - 1
    BY <1>1
  <2>2. \A i \in 1 .. n : s[i] \in S
    BY <1>1, <2>1
  <2>3. SubSeq(s, 1, n) \in Seq(S) /\ Len(SubSeq(s, 1, n)) = IF 1 <= n THEN n - 1 + 1 ELSE 0
    BY <2>2, SubSeqProperties
  <2>4. Front(s) = SubSeq(s, 1, n)
    BY <2>1 DEF Front
  <2> QED BY <2>1, <2>3, <2>4
<1>4. \A i \in 1 .. Len(s) : RemoveAt(s, i) \in Seq(S)
  BY <1>1 DEF RemoveAt
<1> QED BY <1>1, <1>2, <1>3, <1>4

LEMMA PlayersFact ==
  /\ PLAYERS \in Nat \ {0} /\ Players = 0 .. PLAYERS - 1 /\ 0 \in Players
  /\ Referee \notin Players /\ NoOne \notin Players /\ Referee # NoOne
BY DealsAssumption DEF Players, Referee, NoOne

(* What is drawn, and what is left.                                        *)
LEMMA DrawFacts ==
  ASSUME NEW S, NEW s \in Seq(S), s # << >>
  PROVE  /\ Len(s) \in 1 .. Len(s) /\ Last(s) = s[Len(s)] /\ Last(s) \in S
         /\ Len(Front(s)) = Len(s) - 1
         /\ \A k \in 1 .. Len(s) - 1 : Front(s)[k] = s[IF k < Len(s) THEN k ELSE k + 1]
<1>1. Len(s) \in Nat \ {0} /\ Last(s) = s[Len(s)]
  BY DEF Last
<1>2. Len(Front(s)) = Len(s) - 1 /\ Last(s) \in S
  BY SeqFacts
<1>3. \A k \in 1 .. Len(s) - 1 : Front(s)[k] = s[k]
  BY <1>1 DEF Front
<1> QED BY <1>1, <1>2, <1>3

(* The cards of a play pile, and all stacks of four families of them.      *)
CardsIn(pile) == [k \in DOMAIN pile |-> pile[k].card]

StacksOf(hands, draws, replenishes, plays) ==
  [s \in Kinds \X Players |->
     LET p == s[2] IN
     CASE s[1] = "hand"      -> hands[p]
       [] s[1] = "draw"      -> draws[p]
       [] s[1] = "replenish" -> replenishes[p]
       [] s[1] = "play"      -> CardsIn(plays[p])]

LEMMA StacksAre ==
  /\ Stacks = StacksOf(player_hand, draw_pile, replenish_pile, play_pile)
  /\ Stacks' = StacksOf(player_hand', draw_pile', replenish_pile', play_pile')
BY DEF Stacks, StacksOf, CardsIn

LEMMA CardsInFacts ==
  ASSUME NEW pile \in Seq(PutType)
  PROVE  /\ CardsIn(pile) \in Seq(Nat)
         /\ \A card \in Nat, who \in Threads :
              CardsIn(Append(pile, Put(card, who))) = Append(CardsIn(pile), card)
<1>0. \A k \in 1 .. Len(pile) : pile[k].card \in Nat
  <2> TAKE k \in 1 .. Len(pile)
  <2>1. pile[k] \in PutType
    OBVIOUS
  <2> QED BY <2>1 DEF PutType
<1>1. CardsIn(pile) \in Seq(Nat) /\ Len(CardsIn(pile)) = Len(pile)
      /\ \A k \in 1 .. Len(pile) : CardsIn(pile)[k] = pile[k].card
  <2>1. CardsIn(pile) = [k \in 1 .. Len(pile) |-> pile[k].card]
    BY DEF CardsIn
  <2> QED BY <1>0, <2>1
<1>2. ASSUME NEW card \in Nat, NEW who \in Threads
      PROVE  CardsIn(Append(pile, Put(card, who))) = Append(CardsIn(pile), card)
  <2> DEFINE longer == Append(pile, Put(card, who))
             more   == Append(CardsIn(pile), card)
  <2>1. Put(card, who) \in PutType /\ Put(card, who).card = card
    BY DEF Put, PutType
  <2>2. /\ longer \in Seq(PutType) /\ Len(longer) = Len(pile) + 1
        /\ \A k \in 1 .. Len(pile) : longer[k] = pile[k]
        /\ longer[Len(pile) + 1] = Put(card, who)
    BY <2>1
  <2>3. /\ more \in Seq(Nat) /\ Len(more) = Len(pile) + 1
        /\ \A k \in 1 .. Len(pile) : more[k] = pile[k].card
        /\ more[Len(pile) + 1] = card
    BY <1>1
  <2> HIDE DEF longer, more
  <2>4. /\ DOMAIN CardsIn(longer) = 1 .. Len(pile) + 1
        /\ CardsIn(longer) = [k \in 1 .. Len(pile) + 1 |-> longer[k].card]
    BY <2>2 DEF CardsIn
  <2>5. DOMAIN more = 1 .. Len(pile) + 1 /\ more = [k \in 1 .. Len(pile) + 1 |-> more[k]]
    BY <2>3
  <2>6. \A k \in 1 .. Len(pile) + 1 : longer[k].card = more[k]
    <3> TAKE k \in 1 .. Len(pile) + 1
    <3>1. k \in 1 .. Len(pile) \/ k = Len(pile) + 1
      OBVIOUS
    <3> QED BY <2>1, <2>2, <2>3, <3>1
  <2>7. CardsIn(longer) = more
    BY <2>4, <2>5, <2>6
  <2> QED BY <2>7 DEF longer, more
<1> QED BY <1>1, <1>2

(* Which stack is which.                                                   *)
Shows(s, hands, draws, replenishes, plays) ==
  /\ s \in [Kinds \X Players -> Seq(Nat)]
  /\ \A p \in Players : /\ s[<<"hand", p>>] = hands[p]
                        /\ s[<<"draw", p>>] = draws[p]
                        /\ s[<<"replenish", p>>] = replenishes[p]
                        /\ s[<<"play", p>>] = CardsIn(plays[p])

LEMMA StacksFacts ==
  ASSUME NEW h \in [Players -> Seq(Nat)], NEW d \in [Players -> Seq(Nat)],
         NEW r \in [Players -> Seq(Nat)], NEW y \in [Players -> Seq(PutType)]
  PROVE  Shows(StacksOf(h, d, r, y), h, d, r, y)
<1>1. \A p \in Players : CardsIn(y[p]) \in Seq(Nat)
  BY CardsInFacts
<1>2. \A k \in Kinds, p \in Players :
        StacksOf(h, d, r, y)[<<k, p>>] =
          CASE k = "hand"      -> h[p]
            [] k = "draw"      -> d[p]
            [] k = "replenish" -> r[p]
            [] k = "play"      -> CardsIn(y[p])
  BY DEF StacksOf
<1>3. \A p \in Players :
        /\ StacksOf(h, d, r, y)[<<"hand", p>>] = h[p]
        /\ StacksOf(h, d, r, y)[<<"draw", p>>] = d[p]
        /\ StacksOf(h, d, r, y)[<<"replenish", p>>] = r[p]
        /\ StacksOf(h, d, r, y)[<<"play", p>>] = CardsIn(y[p])
  BY <1>2 DEF Kinds
<1>4. \A x \in Kinds \X Players : StacksOf(h, d, r, y)[x] \in Seq(Nat)
  <2> TAKE x \in Kinds \X Players
  <2>1. PICK k \in Kinds, p \in Players : x = <<k, p>>
    OBVIOUS
  <2>2. k \in {"hand", "draw", "replenish", "play"}
    BY DEF Kinds
  <2> QED BY <1>1, <1>3, <2>1, <2>2
<1>5. StacksOf(h, d, r, y) \in [Kinds \X Players -> Seq(Nat)]
  <2> DEFINE F(x) == CASE x[1] = "hand"      -> h[x[2]]
                       [] x[1] = "draw"      -> d[x[2]]
                       [] x[1] = "replenish" -> r[x[2]]
                       [] x[1] = "play"      -> CardsIn(y[x[2]])
  <2>1. StacksOf(h, d, r, y) = [x \in Kinds \X Players |-> F(x)]
    BY DEF StacksOf
  <2> HIDE DEF F
  <2>2. \A x \in Kinds \X Players : F(x) \in Seq(Nat)
    BY <1>4, <2>1
  <2> QED BY <2>1, <2>2
<1> QED BY <1>3, <1>5 DEF Shows

(* The stacks before and after a step.                                     *)
LEMMA StacksNow ==
  ASSUME TypeOK
  PROVE  Shows(Stacks, player_hand, draw_pile, replenish_pile, play_pile)
BY StacksAre, StacksFacts DEF TypeOK

LEMMA StacksNext ==
  ASSUME TypeOK'
  PROVE  Shows(Stacks', player_hand', draw_pile', replenish_pile', play_pile')
BY StacksAre, StacksFacts DEF TypeOK

(* A hand holds no card twice.                                             *)
LEMMA HandDistinct ==
  ASSUME TypeOK, DeckComplete, NEW p \in Players,
         NEW i \in 1 .. Len(player_hand[p]), NEW j \in 1 .. Len(player_hand[p]),
         player_hand[p][i] = player_hand[p][j]
  PROVE  i = j
<1>1. /\ Stacks \in [Kinds \X Players -> Seq(Nat)]
      /\ Stacks[<<"hand", p>>] = player_hand[p] /\ <<"hand", p>> \in Kinds \X Players
  BY StacksNow DEF Kinds, Shows
<1>2. OncePlaced(Stacks, Kinds \X Players)
  BY <1>1, DeckIs DEF DeckComplete
<1> QED BY <1>1, <1>2 DEF OncePlaced

(* A sequence of steps goes on through these.                              *)
LEMMA PcStep ==
  ASSUME TypeOK, NEW p \in Players, NEW from, NEW to \in PlayerPc, Step(p, from, to)
  PROVE  pc' \in [Players -> PlayerPc]
BY DEF Step, TypeOK

LEMMA LockStep ==
  ASSUME TypeOK, NEW r \in Players, NEW holder \in Threads,
         stack_lock' = [stack_lock EXCEPT ![r] = holder]
  PROVE  stack_lock' \in [Players -> Threads]
BY DEF TypeOK

-----------------------------------------------------------------------------
LEMMA TypeStepPlayer ==
  ASSUME TypeOK, DeckComplete, LockInv, PileInv, NEW p \in Players, Player(p)
  PROVE  TypeOK'
<1>1. /\ UNCHANGED <<replenish_pile, game_over, referee, seat, count>>
      /\ replenish_pile' \in [Players -> Seq(Nat)] /\ game_over' \in BOOLEAN
      /\ referee' \in RefereePc /\ seat' \in 0 .. PLAYERS /\ count' \in Nat
  BY PlayerFrame DEF TypeOK
<1>2. CASE Arrive(p) \/ BeReady(p) \/ Begin(p) \/ Tell(p) \/ CheckOver(p) \/ Win(p)
  <2>1. UNCHANGED <<cards, stack_lock, at, seen>>
    BY <1>2 DEF Arrive, BeReady, Begin, Tell, CheckOver, Win
  <2>2. player_state' \in [Players -> PlayerStates] /\ pc' \in [Players -> PlayerPc]
    BY <1>2 DEF Arrive, BeReady, Begin, Tell, CheckOver, Win, TypeOK, PlayerStates, PlayerPc,
       Step, SetState, flags
  <2> QED BY <1>1, <2>1, <2>2 DEF TypeOK, cards
<1> DEFINE AtType == [Players -> (Nat \ {0}) \X Players]
<1>3. at[p][1] \in Nat \ {0} /\ at[p][2] \in Players /\ <<1, 0>> \in (Nat \ {0}) \X Players
  <2>1. at[p] \in (Nat \ {0}) \X Players
    BY DEF TypeOK
  <2> QED BY <2>1, PlayersFact
<1>4. p \in Threads /\ NoOne \in Threads
  BY DEF Threads
<1>5. CASE Scan(p)
  <2>1. pc' \in [Players -> PlayerPc]
    BY <1>5, PcStep DEF Scan, PlayerPc
  <2>2. at' \in AtType
    BY <1>5, <1>3 DEF Scan, TypeOK
  <2> QED BY <1>1, <1>5, <2>1, <2>2 DEF Scan, TypeOK, cards, flags
<1>6. CASE Lock(p)
  <2>1. pc' \in [Players -> PlayerPc]
    BY <1>6, PcStep DEF Lock, PlayerPc
  <2>2. stack_lock' \in [Players -> Threads]
    BY <1>6, <1>3, <1>4, LockStep DEF Lock, Pile
  <2> QED BY <1>1, <1>6, <2>1, <2>2 DEF Lock, TypeOK, cards, flags
<1>7. CASE Look(p)
  <2>1. pc' \in [Players -> PlayerPc]
    BY <1>7, PcStep DEF Look, PlayerPc
  <2> QED BY <1>1, <1>7, <2>1 DEF Look, TypeOK, cards, flags
<1>8. CASE FindTail(p)
  <2>1. pc' \in [Players -> PlayerPc]
    BY <1>8, PcStep DEF FindTail, PlayerPc
  <2>2. seen' \in [Players -> Seq(PutType)]
    BY <1>8, <1>3 DEF FindTail, TypeOK, Pile
  <2> QED BY <1>1, <1>8, <2>1, <2>2 DEF FindTail, TypeOK, cards, flags
<1>9. CASE Pass(p)
  <2>1. pc' \in [Players -> PlayerPc]
    BY <1>9, PcStep DEF Pass, PlayerPc
  <2>2. stack_lock' \in [Players -> Threads]
    BY <1>9, <1>3, <1>4, LockStep DEF Pass, Pile
  <2>3. NextPlace(p) = << >> \/ NextPlace(p) \in (Nat \ {0}) \X Players
    <3>1. Pile(p) < PLAYERS - 1 => <<at[p][1], Pile(p) + 1>> \in (Nat \ {0}) \X Players
      BY <1>3, PlayersFact DEF Pile
    <3>2. next_card(player_hand[p], at[p][1]) # NoCard
            => next_card(player_hand[p], at[p][1]) \in Nat \ {0}
      BY <1>3 DEF next_card, NoCard
    <3>3. next_card(player_hand[p], at[p][1]) # NoCard
            => <<next_card(player_hand[p], at[p][1]), 0>> \in (Nat \ {0}) \X Players
      BY <3>2, PlayersFact
    <3> QED BY <3>1, <3>3 DEF NextPlace
  <2>4. at' \in AtType
    BY <1>9, <1>3, <2>3 DEF Pass, TypeOK
  <2> QED BY <1>1, <1>9, <2>1, <2>2, <2>4 DEF Pass, TypeOK, cards, flags
<1>10. CASE Link(p)
  <2>1. at[p][1] \in 1 .. Len(player_hand[p]) /\ player_hand[p] \in Seq(Nat)
        /\ seen[p] \in Seq(PutType) /\ at[p][2] \in Players
    BY <1>10 DEF Link, Step, PileInv, Fits, TypeOK
  <2>2. Put(Card(p), p) \in PutType
    BY <2>1 DEF Put, PutType, Card, Threads
  <2>3. play_pile' \in [Players -> Seq(PutType)]
    <3>1. Append(seen[p], Put(Card(p), p)) \in Seq(PutType)
      BY <2>1, <2>2
    <3> QED BY <1>10, <3>1 DEF Link, TypeOK
  <2>4. player_hand' \in [Players -> Seq(Nat)]
    <3>1. remove(player_hand[p], Card(p)) \in Seq(Nat)
      BY <2>1, HandDistinct, RemoveOne DEF Card
    <3> QED BY <1>10, <3>1 DEF Link, TypeOK
  <2>5. pc' \in [Players -> PlayerPc]
    BY <1>10, PcStep DEF Link, PlayerPc
  <2>6. seen' \in [Players -> Seq(PutType)]
    BY <1>10 DEF Link, TypeOK
  <2> QED BY <1>1, <1>10, <2>3, <2>4, <2>5, <2>6 DEF Link, TypeOK, flags
<1>12. CASE Unlock(p)
  <2>1. pc' \in [Players -> PlayerPc]
    BY <1>12, PcStep DEF Unlock, PlayerPc
  <2>2. stack_lock' \in [Players -> Threads]
    BY <1>12, <1>3, <1>4, LockStep DEF Unlock, Pile
  <2>3. at' \in [Players -> (Nat \ {0}) \X Players]
    BY <1>12, <1>3 DEF Unlock, TypeOK
  <2> QED BY <1>1, <1>12, <2>1, <2>2, <2>3 DEF Unlock, TypeOK, cards, flags
<1>11. CASE Draw(p)
  <2>1. pc' \in [Players -> PlayerPc]
    BY <1>11, PcStep DEF Draw, PlayerPc
  <2>4. player_hand' \in [Players -> Seq(Nat)] /\ draw_pile' \in [Players -> Seq(Nat)]
    <3>1. CASE draw_pile[p] = << >>
      BY <1>11, <3>1 DEF Draw, TypeOK, size
    <3>2. CASE draw_pile[p] # << >>
      <4>1. Last(draw_pile[p]) \in Nat /\ Front(draw_pile[p]) \in Seq(Nat)
        BY <3>2, SeqFacts DEF TypeOK
      <4>2. Append(player_hand[p], Last(draw_pile[p])) \in Seq(Nat)
        BY <4>1 DEF TypeOK
      <4>3. size(draw_pile[p]) > 0
        BY <3>2, SizeFact DEF TypeOK
      <4>4. player_hand' \in [Players -> Seq(Nat)]
        BY <1>11, <4>2, <4>3 DEF Draw, TypeOK
      <4>5. draw_pile' \in [Players -> Seq(Nat)]
        BY <1>11, <4>1, <4>3 DEF Draw, TypeOK
      <4> QED BY <4>4, <4>5
    <3> QED BY <3>1, <3>2
  <2> QED BY <1>1, <1>11, <2>1, <2>4 DEF Draw, TypeOK, flags
<1> QED BY <1>2, <1>5, <1>6, <1>10, <1>11, <1>12, <1>7, <1>8, <1>9 DEF Player

LEMMA TypeStepReferee ==
  ASSUME TypeOK, LockInv, PileInv, RefereeStep
  PROVE  TypeOK'
<1> USE DEF cards, flags, playerVars, refVars, Go
<1>1. CASE CountOne
  <2>1. count' \in Nat /\ seat' \in 0 .. PLAYERS
    BY <1>1, PlayersFact DEF CountOne, TypeOK
  <2> QED BY <1>1, <2>1 DEF CountOne, TypeOK
<1>2. CASE StartGame \/ Judge \/ EndGame \/ Leave
  <2>1. seat' \in 0 .. PLAYERS /\ count' \in Nat /\ referee' \in RefereePc /\ game_over' \in BOOLEAN
    <3>1. 0 \in 0 .. PLAYERS
      BY PlayersFact
    <3>2. CASE StartGame
      BY <3>1, <3>2 DEF StartGame, TypeOK, RefereePc
    <3>3. CASE Judge
      BY <3>1, <3>3 DEF Judge, TypeOK, RefereePc
    <3>4. CASE EndGame
      BY <3>1, <3>4 DEF EndGame, TypeOK, RefereePc
    <3>5. CASE Leave
      BY <3>1, <3>5 DEF Leave, TypeOK, RefereePc
    <3> QED BY <1>2, <3>2, <3>3, <3>4, <3>5
  <2>2. UNCHANGED <<player_hand, draw_pile, replenish_pile, play_pile, stack_lock, player_state,
                    pc, at, seen>>
    BY <1>2 DEF StartGame, Judge, EndGame, Leave
  <2> QED BY <2>1, <2>2 DEF TypeOK
<1>3. CASE LockPile \/ UnlockPile
  <2>1. seat \in Players
    BY <1>3, PlayersFact DEF LockPile, UnlockPile, LockInv, TypeOK
  <2>2. stack_lock' \in [Players -> Threads]
    BY <1>3, <2>1, LockStep DEF LockPile, UnlockPile, Threads
  <2>3. seat' \in 0 .. PLAYERS /\ count' \in Nat /\ referee' \in RefereePc
    <3>1. 0 \in 0 .. PLAYERS /\ (seat + 1) \in 0 .. PLAYERS
      BY <2>1, PlayersFact
    <3>2. CASE LockPile
      BY <3>1, <3>2 DEF LockPile, TypeOK, RefereePc
    <3>3. CASE UnlockPile
      BY <3>1, <3>3 DEF UnlockPile, TypeOK, RefereePc
    <3> QED BY <1>3, <3>2, <3>3
  <2>4. UNCHANGED <<player_hand, draw_pile, replenish_pile, play_pile, player_state, game_over,
                    pc, at, seen>>
    BY <1>3 DEF LockPile, UnlockPile
  <2> QED BY <2>2, <2>3, <2>4 DEF TypeOK
<1>4. CASE TurnCards
  <2>1. \A p \in Players : /\ Last(replenish_pile[p]) \in Nat
                           /\ Front(replenish_pile[p]) \in Seq(Nat)
    BY <1>4, SeqFacts DEF TurnCards, TypeOK
  <2>2. replenish_pile' \in [Players -> Seq(Nat)]
    BY <1>4, <2>1 DEF TurnCards
  <2>3. \A p \in Players : Put(Last(replenish_pile[p]), Referee) \in PutType
    BY <2>1 DEF Put, PutType, Threads
  <2>4. play_pile' \in [Players -> Seq(PutType)]
    BY <1>4, <2>3 DEF TurnCards, TypeOK
  <2>5. seat' \in 0 .. PLAYERS /\ count' \in Nat /\ referee' \in RefereePc
    BY <1>4, PlayersFact DEF TurnCards, RefereePc
  <2> QED BY <1>4, <2>2, <2>4, <2>5 DEF TurnCards, TypeOK
<1> QED BY <1>1, <1>2, <1>3, <1>4 DEF RefereeStep

-----------------------------------------------------------------------------
(* A step that moves no card.                                              *)
LEMMA DeckStays ==
  ASSUME DeckComplete, UNCHANGED cards
  PROVE  DeckComplete'
<1>1. Stacks' = Stacks
  BY StacksAre DEF cards
<1> QED BY <1>1 DEF DeckComplete

(* Stacks that a step leaves alone.                                        *)
LEMMA SameStack ==
  ASSUME TypeOK, TypeOK', NEW q \in Players
  PROVE  /\ player_hand'[q] = player_hand[q] => Stacks'[<<"hand", q>>] = Stacks[<<"hand", q>>]
         /\ draw_pile'[q] = draw_pile[q] => Stacks'[<<"draw", q>>] = Stacks[<<"draw", q>>]
         /\ replenish_pile'[q] = replenish_pile[q]
              => Stacks'[<<"replenish", q>>] = Stacks[<<"replenish", q>>]
         /\ play_pile'[q] = play_pile[q] => Stacks'[<<"play", q>>] = Stacks[<<"play", q>>]
<1>1. /\ Stacks[<<"hand", q>>] = player_hand[q] /\ Stacks[<<"draw", q>>] = draw_pile[q]
      /\ Stacks[<<"replenish", q>>] = replenish_pile[q]
      /\ Stacks[<<"play", q>>] = CardsIn(play_pile[q])
  BY StacksNow DEF Shows
<1>2. /\ Stacks'[<<"hand", q>>] = player_hand'[q] /\ Stacks'[<<"draw", q>>] = draw_pile'[q]
      /\ Stacks'[<<"replenish", q>>] = replenish_pile'[q]
      /\ Stacks'[<<"play", q>>] = CardsIn(play_pile'[q])
  BY StacksNext DEF Shows
<1> QED BY <1>1, <1>2

(* A card that is played goes from the hand to the pile, and one that is   *)
(* drawn from the draw pile to the hand: the tail that a player has found  *)
(* is still the end of the pile when it links its card.                    *)
LEMMA DeckStepPlayer ==
  ASSUME TypeOK, DeckComplete, PileInv, TypeOK', NEW p \in Players, Player(p)
  PROVE  DeckComplete'
<1> DEFINE Slots == Kinds \X Players
<1>1. CASE ~ Link(p) /\ ~ Draw(p)
  <2>1. UNCHANGED cards
    BY <1>1 DEF Player, Arrive, BeReady, Begin, Scan, Win, Lock, Look, Pass, FindTail, Unlock,
       Tell, CheckOver
  <2> QED BY <2>1, DeckStays
<1>2. /\ Stacks \in [Slots -> Seq(Nat)] /\ Stacks' \in [Slots -> Seq(Nat)]
      /\ CheckDeck(Stacks, Deck) /\ (CheckDeck(Stacks', Deck) => DeckComplete')
  BY StacksNow, StacksNext DEF DeckComplete, Shows
<1>3. CASE Link(p)
  <2> DEFINE r == at[p][2]
             i == at[p][1]
             from == <<"hand", p>>
             to   == <<"play", r>>
  <2>1. at[p] \in (Nat \ {0}) \X Players /\ r \in Players /\ i \in Nat
    BY DEF TypeOK
  <2>2. i \in 1 .. Len(player_hand[p]) /\ seen[p] = play_pile[r]
    BY <1>3, <2>1 DEF Link, Step, PileInv, Fits, Pile
  <2>3. /\ player_hand' = [player_hand EXCEPT ![p] = remove(@, Card(p))]
        /\ play_pile' = [play_pile EXCEPT ![r] = Append(@, Put(Card(p), p))]
        /\ UNCHANGED <<draw_pile, replenish_pile>> /\ Card(p) = player_hand[p][i]
    BY <1>3, <2>1, <2>2 DEF Link, Pile, Card, TypeOK
  <2>4. /\ player_hand[p] \in Seq(Nat) /\ Card(p) \in Nat
        /\ Len(remove(player_hand[p], Card(p))) = Len(player_hand[p]) - 1
        /\ \A k \in 1 .. Len(player_hand[p]) - 1 :
             remove(player_hand[p], Card(p))[k] = player_hand[p][IF k < i THEN k ELSE k + 1]
    <3>1. player_hand[p] \in Seq(Nat)
      BY DEF TypeOK
    <3>2. \A j \in 1 .. Len(player_hand[p]) :
            player_hand[p][j] = player_hand[p][i] => j = i
      BY <2>2, HandDistinct
    <3> DEFINE hand == player_hand[p]
    <3>3. hand \in Seq(Nat) /\ i \in 1 .. Len(hand) /\ hand[i] \in Nat
          /\ \A j \in 1 .. Len(hand) : hand[j] = hand[i] => j = i
      BY <2>2, <3>1, <3>2
    <3> HIDE DEF i, hand
    <3>4. /\ Len(remove(hand, hand[i])) = Len(hand) - 1
          /\ \A k \in 1 .. Len(hand) - 1 :
               remove(hand, hand[i])[k] = hand[IF k < i THEN k ELSE k + 1]
      BY <3>3, RemoveOne
    <3>5. Card(p) = hand[i]
      BY <2>3 DEF hand
    <3>6. /\ hand \in Seq(Nat) /\ Card(p) \in Nat
          /\ Len(remove(hand, Card(p))) = Len(hand) - 1
          /\ \A k \in 1 .. Len(hand) - 1 :
               remove(hand, Card(p))[k] = hand[IF k < i THEN k ELSE k + 1]
      BY <3>3, <3>4, <3>5
    <3> QED BY <3>6 DEF hand
  <2>5. CardsIn(Append(play_pile[r], Put(Card(p), p))) = Append(CardsIn(play_pile[r]), Card(p))
    BY <2>1, <2>4, CardsInFacts DEF TypeOK, Threads
  <2>6. from \in Slots /\ to \in Slots /\ from # to
    BY <2>1 DEF Kinds
  <2> HIDE DEF r, i
  <2>7. /\ Stacks[from] = player_hand[p] /\ Stacks[to] = CardsIn(play_pile[r])
        /\ Stacks'[from] = remove(player_hand[p], Card(p))
        /\ Stacks'[to] = Append(CardsIn(play_pile[r]), Card(p))
    BY <2>1, <2>3, <2>5, StacksNow, StacksNext, ZenonT(30) DEF TypeOK, Shows
  <2>8. ASSUME NEW b \in Slots \ {from, to} PROVE Stacks'[b] = Stacks[b]
    <3>1. PICK k \in Kinds, q \in Players : b = <<k, q>>
      OBVIOUS
    <3>2. k = "hand" \/ k = "draw" \/ k = "replenish" \/ k = "play"
      BY DEF Kinds
    <3>3. (k = "hand" => q # p) /\ (k = "play" => q # r)
      BY <2>8, <3>1
    <3>4. /\ k # "hand" \/ player_hand'[q] = player_hand[q]
          /\ k # "play" \/ play_pile'[q] = play_pile[q]
      BY <2>3, <3>3 DEF TypeOK
    <3> HIDE DEF from, to
    <3> QED BY <2>3, <3>1, <3>2, <3>4, SameStack
  <2> HIDE DEF from, to, Slots
  <2>9. CardMoved(Stacks, Stacks', Slots, from, i, to)
    BY <2>2, <2>3, <2>4, <2>6, <2>7, <2>8 DEF CardMoved
  <2> QED BY <1>2, <2>1, <2>6, <2>9, MoveOne
<1>4. CASE Draw(p)
  <2>1. CASE draw_pile[p] = << >>
    <3>1. UNCHANGED cards
      BY <1>4, <2>1 DEF Draw, size, cards
    <3> QED BY <3>1, DeckStays
  <2>2. CASE draw_pile[p] # << >>
    <3> DEFINE from == <<"draw", p>>
               to   == <<"hand", p>>
               i    == Len(draw_pile[p])
    <3>1. /\ player_hand' = [player_hand EXCEPT ![p] = Append(@, Last(draw_pile[p]))]
          /\ draw_pile' = [draw_pile EXCEPT ![p] = Front(@)]
          /\ UNCHANGED <<play_pile, replenish_pile>>
      <4>1. size(draw_pile[p]) > 0
        BY <2>2, SizeFact DEF TypeOK
      <4> QED BY <1>4, <4>1 DEF Draw, TypeOK
    <3>2. /\ draw_pile[p] \in Seq(Nat) /\ i \in 1 .. Len(draw_pile[p])
          /\ Last(draw_pile[p]) = draw_pile[p][i]
          /\ Len(Front(draw_pile[p])) = Len(draw_pile[p]) - 1
          /\ \A k \in 1 .. Len(draw_pile[p]) - 1 :
               Front(draw_pile[p])[k] = draw_pile[p][IF k < i THEN k ELSE k + 1]
      <4>1. draw_pile[p] \in Seq(Nat)
        BY DEF TypeOK
      <4> QED BY <2>2, <4>1, DrawFacts
    <3>3. from \in Slots /\ to \in Slots /\ from # to
      BY DEF Kinds
    <3> HIDE DEF i
    <3>4. /\ Stacks[from] = draw_pile[p] /\ Stacks[to] = player_hand[p]
          /\ Stacks'[from] = Front(draw_pile[p])
          /\ Stacks'[to] = Append(player_hand[p], draw_pile[p][i])
      <4>1. /\ player_hand'[p] = Append(player_hand[p], draw_pile[p][i])
            /\ draw_pile'[p] = Front(draw_pile[p])
        BY <3>1, <3>2 DEF TypeOK
      <4> QED BY <4>1, StacksNow, StacksNext DEF Shows
    <3>5. ASSUME NEW b \in Slots \ {from, to} PROVE Stacks'[b] = Stacks[b]
      <4>1. PICK k \in Kinds, q \in Players : b = <<k, q>>
        OBVIOUS
      <4>2. k = "hand" \/ k = "draw" \/ k = "replenish" \/ k = "play"
        BY DEF Kinds
      <4>3. (k = "hand" \/ k = "draw") => q # p
        BY <3>5, <4>1
      <4>4. /\ k # "hand" \/ player_hand'[q] = player_hand[q]
            /\ k # "draw" \/ draw_pile'[q] = draw_pile[q]
        BY <3>1, <4>3 DEF TypeOK
      <4> HIDE DEF from, to
      <4> QED BY <3>1, <4>1, <4>2, <4>4, SameStack
    <3> HIDE DEF from, to, Slots
    <3>6. CardMoved(Stacks, Stacks', Slots, from, i, to) /\ i \in Nat
      BY <3>2, <3>3, <3>4, <3>5, SMTT(30) DEF CardMoved
    <3> QED BY <1>2, <3>3, <3>6, MoveOne
  <2> QED BY <2>1, <2>2
<1> QED BY <1>1, <1>3, <1>4

(* When cards are turned, one goes from every replenish pile to its play   *)
(* pile.                                                                   *)
LEMMA DeckStepReferee ==
  ASSUME TypeOK, DeckComplete, TypeOK', RefereeStep
  PROVE  DeckComplete'
<1>1. CASE ~ TurnCards
  <2>1. UNCHANGED cards
    BY <1>1 DEF RefereeStep, CountOne, StartGame, Judge, LockPile, UnlockPile, EndGame, Leave
  <2> QED BY <2>1, DeckStays
<1>2. CASE TurnCards
  <2> DEFINE Slots == Kinds \X Players
             From  == {"replenish"} \X Players
             i     == [a \in From |-> Len(replenish_pile[a[2]])]
             to    == [a \in From |-> <<"play", a[2]>>]
  <2>1. /\ Stacks \in [Slots -> Seq(Nat)] /\ Stacks' \in [Slots -> Seq(Nat)]
        /\ CheckDeck(Stacks, Deck) /\ (CheckDeck(Stacks', Deck) => DeckComplete')
    BY StacksNow, StacksNext DEF DeckComplete, Shows
  <2>2. /\ \A p \in Players : /\ replenish_pile[p] # << >>
                               /\ replenish_pile'[p] = Front(replenish_pile[p])
                               /\ play_pile'[p] = Append(play_pile[p],
                                                     Put(Last(replenish_pile[p]), Referee))
        /\ UNCHANGED <<player_hand, draw_pile>>
    BY <1>2 DEF TurnCards
  <2>3. ASSUME NEW p \in Players
        PROVE  /\ replenish_pile[p] \in Seq(Nat)
               /\ Len(replenish_pile[p]) \in 1 .. Len(replenish_pile[p])
               /\ Last(replenish_pile[p]) = replenish_pile[p][Len(replenish_pile[p])]
               /\ Last(replenish_pile[p]) \in Nat
               /\ Len(Front(replenish_pile[p])) = Len(replenish_pile[p]) - 1
               /\ \A k \in 1 .. Len(replenish_pile[p]) - 1 :
                    Front(replenish_pile[p])[k] =
                      replenish_pile[p][IF k < Len(replenish_pile[p]) THEN k ELSE k + 1]
    <3>1. replenish_pile[p] \in Seq(Nat) /\ replenish_pile[p] # << >>
      BY <2>2 DEF TypeOK
    <3> QED BY <3>1, DrawFacts
  <2>4. \A p \in Players :
          CardsIn(play_pile'[p]) = Append(CardsIn(play_pile[p]), Last(replenish_pile[p]))
    <3> TAKE p \in Players
    <3>1. play_pile[p] \in Seq(PutType) /\ Last(replenish_pile[p]) \in Nat /\ Referee \in Threads
      BY <2>3 DEF TypeOK, Threads
    <3> QED BY <2>2, <3>1, CardsInFacts
  <2>5. /\ \A a \in From : \E p \in Players :
             a = <<"replenish", p>> /\ i[a] = Len(replenish_pile[p]) /\ to[a] = <<"play", p>>
        /\ From \in SUBSET Slots /\ to \in [From -> Slots]
    BY DEF Kinds
  <2>6. i \in [From -> Nat]
    <3>1. \A a \in From : Len(replenish_pile[a[2]]) \in Nat
      BY <2>3
    <3> QED BY <3>1
  <2>7. \A p \in Players :
          /\ <<"replenish", p>> \in From
          /\ to[<<"replenish", p>>] = <<"play", p>>
    OBVIOUS
  <2>8. \A x \in Slots : \E k \in Kinds, p \in Players : x = <<k, p>>
    OBVIOUS
  <2>9. \A p \in Players : <<"play", p>> \notin From
    OBVIOUS
  <2> HIDE DEF From, i, to, Slots
  <2>10. \A p \in Players :
           /\ Stacks[<<"replenish", p>>] = replenish_pile[p]
           /\ Stacks'[<<"replenish", p>>] = Front(replenish_pile[p])
           /\ Stacks[<<"play", p>>] = CardsIn(play_pile[p])
           /\ Stacks'[<<"play", p>>] = Append(CardsIn(play_pile[p]), Last(replenish_pile[p]))
           /\ Stacks'[<<"hand", p>>] = Stacks[<<"hand", p>>]
           /\ Stacks'[<<"draw", p>>] = Stacks[<<"draw", p>>]
    BY <2>2, <2>4, StacksNow, StacksNext, ZenonT(30) DEF Shows
  <2>11. ASSUME NEW a \in From
         PROVE  /\ i[a] \in 1 .. Len(Stacks[a]) /\ to[a] \notin From
                /\ Len(Stacks'[a]) = Len(Stacks[a]) - 1
                /\ \A k \in 1 .. Len(Stacks[a]) - 1 :
                     Stacks'[a][k] = Stacks[a][IF k < i[a] THEN k ELSE k + 1]
                /\ Stacks'[to[a]] = Append(Stacks[to[a]], Stacks[a][i[a]])
    <3>1. PICK p \in Players :
            a = <<"replenish", p>> /\ i[a] = Len(replenish_pile[p]) /\ to[a] = <<"play", p>>
      BY <2>5
    <3>2. /\ Stacks[a] = replenish_pile[p] /\ Stacks'[a] = Front(replenish_pile[p])
          /\ Stacks'[to[a]] = Append(Stacks[to[a]], Last(replenish_pile[p]))
      <4>1. Stacks'[<<"play", p>>] = Append(Stacks[<<"play", p>>], Last(replenish_pile[p]))
        BY <2>10, Zenon
      <4> QED BY <2>10, <3>1, <4>1, Zenon
    <3>3. to[a] \notin From
      BY <2>9, <3>1
    <3> QED BY <2>3, <3>1, <3>2, <3>3
  <2>12. \A a, b \in From : to[a] = to[b] => a = b
    BY <2>5
  <2>13. ASSUME NEW b \in Slots \ From, \A a \in From : to[a] # b
         PROVE  Stacks'[b] = Stacks[b]
    <3>1. PICK k \in Kinds, p \in Players : b = <<k, p>>
      BY <2>8
    <3>2. k = "hand" \/ k = "draw" \/ k = "replenish" \/ k = "play"
      BY DEF Kinds
    <3>3. k # "replenish" /\ k # "play"
      BY <2>7, <2>13, <3>1
    <3> QED BY <2>10, <3>1, <3>2, <3>3
  <2>14. CardsMoved(Stacks, Stacks', Slots, From, i, to)
    BY <2>11, <2>12, <2>13 DEF CardsMoved
  <2> QED BY <2>1, <2>5, <2>6, <2>14, Moves
<1> QED BY <1>1, <1>2

-----------------------------------------------------------------------------
(* Who takes a mutex finds it free, and who leaves a pile gives it back.   *)
LEMMA LockInvPlayer ==
  ASSUME TypeOK, LockInv, NEW p \in Players, Player(p)
  PROVE  LockInv'
<1>1. UNCHANGED <<referee, seat>> /\ \A q \in Players \ {p} : pc'[q] = pc[q] /\ at'[q] = at[q]
  BY PlayerFrame
<1>2. p # Referee /\ p # NoOne /\ Referee # NoOne /\ at[p][2] \in Players
  <2>1. at[p] \in (Nat \ {0}) \X Players
    BY DEF TypeOK
  <2> QED BY <2>1, PlayersFact
<1>3. CASE Arrive(p) \/ BeReady(p) \/ Begin(p) \/ Draw(p) \/ Tell(p) \/ CheckOver(p) \/ Win(p)
           \/ Scan(p)
  <2>1. stack_lock' = stack_lock /\ pc'[p] \notin AtPile
    BY <1>3 DEF Arrive, BeReady, Begin, Draw, Tell, CheckOver, Win, Scan, Step, TypeOK, AtPile
  <2> QED BY <1>1, <2>1 DEF LockInv, Pile
<1>4. CASE Look(p) \/ FindTail(p) \/ Link(p)
  <2>1. stack_lock' = stack_lock /\ at' = at /\ pc[p] \in AtPile
    BY <1>4 DEF Look, FindTail, Link, Step, AtPile
  <2> QED BY <1>1, <2>1 DEF LockInv, Pile
<1>5. CASE Lock(p)
  <2>1. /\ stack_lock[at[p][2]] = NoOne /\ at' = at
        /\ stack_lock' = [stack_lock EXCEPT ![at[p][2]] = p]
    BY <1>5 DEF Lock, Pile
  <2>2. stack_lock'[at[p][2]] = p /\ \A r \in Players : r # at[p][2] => stack_lock'[r] = stack_lock[r]
    BY <1>2, <2>1 DEF TypeOK
  <2>3. \A q \in Players : pc'[q] \in AtPile => stack_lock'[at[q][2]] = q
    <3> SUFFICES ASSUME NEW q \in Players, q # p, pc[q] \in AtPile
                 PROVE  stack_lock'[at[q][2]] = q
      BY <1>1, <2>2
    <3>1. stack_lock[at[q][2]] = q /\ at[q][2] \in Players
      <4>1. at[q] \in (Nat \ {0}) \X Players
        BY DEF TypeOK
      <4> QED BY <4>1 DEF LockInv, Pile
    <3>2. q # NoOne
      BY PlayersFact
    <3> QED BY <2>1, <2>2, <3>1, <3>2
  <2> QED BY <1>1, <1>2, <2>1, <2>2, <2>3 DEF LockInv, Pile
<1>6. CASE Pass(p) \/ Unlock(p)
  <2>1. /\ stack_lock' = [stack_lock EXCEPT ![at[p][2]] = NoOne]
        /\ pc[p] \in AtPile /\ pc'[p] \notin AtPile
    BY <1>6 DEF Pass, Unlock, Step, AtPile, Pile, TypeOK
  <2>2. \A r \in Players : r # at[p][2] => stack_lock'[r] = stack_lock[r]
    BY <1>2, <2>1 DEF TypeOK
  <2>3. stack_lock[at[p][2]] = p
    BY <2>1 DEF LockInv, Pile
  <2>4. \A q \in Players : pc'[q] \in AtPile => stack_lock'[at'[q][2]] = q
    <3> SUFFICES ASSUME NEW q \in Players, q # p, pc[q] \in AtPile
                 PROVE  stack_lock'[at[q][2]] = q
      BY <1>1, <2>1
    <3>1. stack_lock[at[q][2]] = q /\ at[q][2] \in Players
      <4>1. at[q] \in (Nat \ {0}) \X Players
        BY DEF TypeOK
      <4> QED BY <4>1 DEF LockInv, Pile
    <3> QED BY <2>2, <2>3, <3>1
  <2> QED BY <1>1, <1>2, <2>2, <2>3, <2>4 DEF LockInv, Pile
<1> QED BY <1>3, <1>4, <1>5, <1>6 DEF Player

LEMMA LockInvReferee ==
  ASSUME TypeOK, LockInv, RefereeStep
  PROVE  LockInv'
<1>1. UNCHANGED <<pc, at>>
  BY DEF RefereeStep, CountOne, StartGame, Judge, LockPile, TurnCards, UnlockPile, EndGame,
     Leave, playerVars
<1>2. CASE CountOne \/ StartGame \/ EndGame \/ Leave
  <2>1. stack_lock' = stack_lock /\ referee' \notin {"lock", "turn", "unlock"}
    BY <1>2 DEF CountOne, StartGame, EndGame, Leave, Go, refVars
  <2> QED BY <1>1, <2>1 DEF LockInv, Pile
<1>3. CASE Judge
  <2>1. stack_lock' = stack_lock /\ referee' \in {"lock", "count_done"} /\ seat' = 0
    BY <1>3 DEF Judge, Go
  <2>2. \A r \in Players : ~ (r < 0)
    BY PlayersFact
  <2> QED BY <1>1, <2>1, <2>2, PlayersFact DEF LockInv, Pile
<1>4. CASE LockPile
  <2>1. /\ referee = "lock" /\ seat < PLAYERS /\ seat \in Players
        /\ stack_lock[seat] = NoOne /\ stack_lock' = [stack_lock EXCEPT ![seat] = Referee]
        /\ \A r \in Players : r < seat => stack_lock[r] = Referee
    BY <1>4, PlayersFact DEF LockPile, LockInv, TypeOK
  <2>2. stack_lock'[seat] = Referee /\ \A r \in Players : r # seat => stack_lock'[r] = stack_lock[r]
    BY <2>1 DEF TypeOK
  <2>3. \A q \in Players : pc'[q] \in AtPile => stack_lock'[at'[q][2]] = q
    <3> SUFFICES ASSUME NEW q \in Players, pc[q] \in AtPile
                 PROVE  stack_lock'[at[q][2]] = q
      BY <1>1
    <3>1. stack_lock[at[q][2]] = q /\ at[q][2] \in Players
      <4>1. at[q] \in (Nat \ {0}) \X Players
        BY DEF TypeOK
      <4> QED BY <4>1 DEF LockInv, Pile
    <3>2. q # NoOne
      BY PlayersFact
    <3> QED BY <2>1, <2>2, <3>1, <3>2
  <2>4. CASE seat = PLAYERS - 1
    <3>1. referee' = "turn"
      BY <1>4, <2>4 DEF LockPile, Go
    <3>2. \A r \in Players : r < seat \/ r = seat
      BY <2>4, PlayersFact
    <3> QED BY <2>1, <2>2, <2>3, <3>1, <3>2 DEF LockInv, Pile
  <2>5. CASE seat # PLAYERS - 1
    <3>1. referee' = "lock" /\ seat' = seat + 1
      BY <1>4, <2>1, <2>5 DEF LockPile
    <3>2. seat' < PLAYERS /\ \A r \in Players : r < seat' => (r < seat \/ r = seat)
      BY <2>1, <2>5, <3>1, PlayersFact
    <3> QED BY <2>1, <2>2, <2>3, <3>1, <3>2 DEF LockInv, Pile
  <2> QED BY <2>4, <2>5
<1>5. CASE TurnCards
  <2>1. stack_lock' = stack_lock /\ referee = "turn" /\ referee' = "unlock" /\ seat' = 0
    BY <1>5 DEF TurnCards, Go
  <2> QED BY <1>1, <2>1, PlayersFact DEF LockInv, Pile
<1>6. CASE UnlockPile
  <2>1. /\ referee = "unlock" /\ seat < PLAYERS /\ seat \in Players
        /\ stack_lock[seat] = Referee /\ stack_lock' = [stack_lock EXCEPT ![seat] = NoOne]
        /\ \A r \in Players : r >= seat => stack_lock[r] = Referee
    BY <1>6, PlayersFact DEF UnlockPile, LockInv, TypeOK
  <2>2. \A r \in Players : r # seat => stack_lock'[r] = stack_lock[r]
    BY <2>1 DEF TypeOK
  <2>3. \A q \in Players : pc'[q] \in AtPile => stack_lock'[at'[q][2]] = q
    <3> SUFFICES ASSUME NEW q \in Players, pc[q] \in AtPile
                 PROVE  stack_lock'[at[q][2]] = q
      BY <1>1
    <3>1. stack_lock[at[q][2]] = q /\ at[q][2] \in Players
      <4>1. at[q] \in (Nat \ {0}) \X Players
        BY DEF TypeOK
      <4> QED BY <4>1 DEF LockInv, Pile
    <3>2. q # Referee
      BY PlayersFact
    <3> QED BY <2>1, <2>2, <3>1, <3>2
  <2>4. CASE seat = PLAYERS - 1
    <3>1. referee' = "count_done"
      BY <1>6, <2>4 DEF UnlockPile, Go
    <3> QED BY <2>3, <3>1 DEF LockInv, Pile
  <2>5. CASE seat # PLAYERS - 1
    <3>1. referee' = "unlock" /\ seat' = seat + 1
      BY <1>6, <2>1, <2>5 DEF UnlockPile
    <3>2. seat' < PLAYERS /\ \A r \in Players : r >= seat' => (r >= seat /\ r # seat)
      BY <2>1, <2>5, <3>1, PlayersFact
    <3> QED BY <2>1, <2>2, <2>3, <3>1, <3>2 DEF LockInv, Pile
  <2> QED BY <2>4, <2>5
<1> QED BY <1>2, <1>3, <1>4, <1>5, <1>6 DEF RefereeStep

-----------------------------------------------------------------------------
(* A pile stays legal with a card that fits on its last one, or that is    *)
(* the referee's.                                                          *)
LEMMA LegalAppend ==
  ASSUME NEW pile \in Seq(PutType), pile # << >>, Legal(pile), NEW put \in PutType,
         put.by \in Players => Adjacent(put.card, Last(pile).card)
  PROVE  Append(pile, put) # << >> /\ Legal(Append(pile, put))
<1> DEFINE new == Append(pile, put)
<1>1. Len(pile) \in Nat \ {0} /\ Len(new) = Len(pile) + 1
  OBVIOUS
<1>2. \A k \in 1 .. Len(pile) : new[k] = pile[k]
  OBVIOUS
<1>3. new[Len(pile) + 1] = put
  OBVIOUS
<1>4. ASSUME NEW k \in 2 .. Len(new), new[k].by \in Players
      PROVE  Adjacent(new[k].card, new[k - 1].card)
  <2>1. CASE k = Len(pile) + 1
    <3>1. new[k] = put /\ new[k - 1] = Last(pile)
      BY <1>1, <1>2, <1>3, <2>1 DEF Last
    <3> QED BY <1>4, <3>1
  <2>2. CASE k # Len(pile) + 1
    <3>1. k \in 2 .. Len(pile) /\ new[k] = pile[k] /\ new[k - 1] = pile[k - 1]
      BY <1>1, <1>2, <2>2
    <3> QED BY <1>4, <3>1 DEF Legal
  <2> QED BY <2>1, <2>2
<1>5. new # << >>
  BY <1>1
<1> QED BY <1>4, <1>5 DEF Legal

LEMMA PileInvPlayer ==
  ASSUME TypeOK, LockInv, PileInv, NEW p \in Players, Player(p)
  PROVE  PileInv'
<1>1. \A q \in Players \ {p} : /\ pc'[q] = pc[q] /\ at'[q] = at[q] /\ seen'[q] = seen[q]
                               /\ player_hand'[q] = player_hand[q]
  BY PlayerFrame
<1>2. /\ at[p] \in (Nat \ {0}) \X Players /\ at[p][1] \in Nat \ {0} /\ at[p][2] \in Players
      /\ player_hand[p] \in Seq(Nat)
  <2>1. at[p] \in (Nat \ {0}) \X Players
    BY DEF TypeOK
  <2> QED BY <2>1 DEF TypeOK
<1>3. CASE ~ Link(p)
  <2>1. play_pile' = play_pile
    BY <1>3 DEF Player, Arrive, BeReady, Begin, Scan, Win, Lock, Look, Pass, FindTail, Unlock, Draw,
       Tell, CheckOver, cards
  <2>2. \A q \in Players \ {p} : Fits(q)'
    BY <1>1, <2>1 DEF PileInv, Fits, Card, Pile
  <2>3. Fits(p)'
    <3>1. CASE Arrive(p) \/ BeReady(p) \/ Begin(p) \/ Tell(p) \/ CheckOver(p) \/ Win(p)
               \/ Unlock(p) \/ Draw(p)
      <4>1. pc'[p] \notin {"lock", "look", "pass", "add", "link"}
        BY <3>1 DEF Arrive, BeReady, Begin, Tell, CheckOver, Win, Unlock, Draw, Step, TypeOK
      <4> QED BY <4>1 DEF Fits
    <3>2. CASE Scan(p)
      <4>1. pc'[p] = "lock" /\ at'[p] = <<1, 0>> /\ player_hand' = player_hand
            /\ player_hand[p] # << >>
        BY <3>2, SizeFact DEF Scan, Step, TypeOK, cards
      <4>2. at'[p][1] <= Len(player_hand'[p])
        BY <1>2, <4>1
      <4> QED BY <4>1, <4>2 DEF Fits
    <3>3. CASE Lock(p)
      <4>1. pc[p] = "lock" /\ pc'[p] = "look" /\ at' = at /\ player_hand' = player_hand
        BY <3>3 DEF Lock, Step, TypeOK, cards
      <4> QED BY <4>1 DEF Fits, PileInv
    <3>4. CASE Look(p)
      <4>1. /\ pc[p] = "look" /\ at' = at /\ player_hand' = player_hand
            /\ pc'[p] = IF Adjacent(Card(p), Last(play_pile[Pile(p)]).card) THEN "add" ELSE "pass"
        BY <3>4 DEF Look, Step, TypeOK, cards
      <4> QED BY <2>1, <4>1 DEF Fits, PileInv, Card, Pile
    <3>5. CASE Pass(p)
      <4>1. pc[p] = "pass" /\ player_hand' = player_hand /\ pc'[p] \in {"stuck", "lock"}
        BY <3>5 DEF Pass, Step, TypeOK, cards
      <4>2. ASSUME pc'[p] = "lock" PROVE at'[p][1] <= Len(player_hand[p])
        <5>1. NextPlace(p) # << >> /\ at'[p] = NextPlace(p)
          BY <3>5, <4>2 DEF Pass, Step, TypeOK
        <5>2. at[p][1] <= Len(player_hand[p])
          BY <4>1 DEF PileInv, Fits
        <5>3. NextPlace(p)[1] = at[p][1]
              \/ (NextPlace(p)[1] = at[p][1] + 1 /\ at[p][1] < Len(player_hand[p]))
          BY <1>2, <5>1 DEF NextPlace, next_card, NoCard
        <5> QED BY <1>2, <5>1, <5>2, <5>3
      <4> QED BY <4>1, <4>2 DEF Fits
    <3>6. CASE FindTail(p)
      <4>1. /\ pc[p] = "add" /\ pc'[p] = "link" /\ at' = at /\ player_hand' = player_hand
            /\ seen'[p] = play_pile[Pile(p)]
        BY <3>6 DEF FindTail, Step, TypeOK, cards
      <4> QED BY <2>1, <4>1 DEF Fits, PileInv, Card, Pile
    <3> QED BY <1>3, <3>1, <3>2, <3>3, <3>4, <3>5, <3>6 DEF Player
  <2> QED BY <2>1, <2>2, <2>3 DEF PileInv
<1>4. CASE Link(p)
  <2> DEFINE r == at[p][2]
  <2>1. /\ pc[p] = "link" /\ pc'[p] = "unlock" /\ at' = at
        /\ play_pile' = [play_pile EXCEPT ![r] = Append(seen[p], Put(Card(p), p))]
    BY <1>4 DEF Link, Step, TypeOK, Pile
  <2>2. stack_lock[r] = p
    BY <2>1 DEF LockInv, AtPile, Pile
  <2>3. /\ seen[p] = play_pile[r] /\ at[p][1] \in 1 .. Len(player_hand[p])
        /\ Adjacent(Card(p), Last(play_pile[r]).card)
    BY <1>2, <2>1 DEF PileInv, Fits, Pile
  <2>4. Put(Card(p), p) \in PutType /\ Put(Card(p), p).card = Card(p)
    <3>1. Card(p) \in Nat
      BY <1>2, <2>3 DEF Card
    <3> QED BY <3>1 DEF Put, PutType, Threads
  <2>5. play_pile[r] \in Seq(PutType) /\ play_pile[r] # << >> /\ Legal(play_pile[r])
    BY <1>2 DEF PileInv, TypeOK
  <2>6. \A s \in Players : play_pile'[s] # << >> /\ Legal(play_pile'[s])
    <3>1. /\ Append(play_pile[r], Put(Card(p), p)) # << >>
          /\ Legal(Append(play_pile[r], Put(Card(p), p)))
      BY <2>3, <2>4, <2>5, LegalAppend
    <3> HIDE DEF r
    <3> QED BY <2>1, <2>3, <3>1 DEF PileInv, TypeOK
  <2>7. ASSUME NEW q \in Players \ {p} PROVE Fits(q)'
    <3>1. at[q] \in (Nat \ {0}) \X Players /\ at[q][2] \in Players
      <4>1. at[q] \in (Nat \ {0}) \X Players
        BY DEF TypeOK
      <4> QED BY <4>1
    <3>2. pc[q] \in {"add", "link"} => at[q][2] # r
      BY <2>2 DEF LockInv, AtPile, Pile
    <3>3. pc[q] \in {"add", "link"} => play_pile'[at[q][2]] = play_pile[at[q][2]]
      BY <2>1, <3>1, <3>2 DEF TypeOK
    <3> QED BY <1>1, <3>3 DEF PileInv, Fits, Card, Pile
  <2>8. Fits(p)'
    BY <2>1 DEF Fits
  <2>9. \A s \in Players : (play_pile[s] # << >> /\ Legal(play_pile[s]))'
    BY <2>6 DEF Legal
  <2> QED BY <2>7, <2>8, <2>9 DEF PileInv
<1> QED BY <1>3, <1>4

LEMMA PileInvReferee ==
  ASSUME TypeOK, LockInv, PileInv, TurnInv, RefereeStep
  PROVE  PileInv'
<1>1. UNCHANGED <<pc, at, seen, player_hand>>
  BY DEF RefereeStep, CountOne, StartGame, Judge, LockPile, TurnCards, UnlockPile, EndGame,
     Leave, playerVars, cards
<1>2. CASE ~ TurnCards
  <2>1. play_pile' = play_pile
    BY <1>2 DEF RefereeStep, CountOne, StartGame, Judge, LockPile, UnlockPile, EndGame, Leave, cards
  <2> QED BY <1>1, <2>1 DEF PileInv, Fits, Card, Pile
<1>3. CASE TurnCards
  <2>1. /\ referee = "turn" /\ \A r \in Players : replenish_pile[r] # << >>
        /\ play_pile' = [r \in Players |->
                           Append(play_pile[r], Put(Last(replenish_pile[r]), Referee))]
    BY <1>3 DEF TurnCards
  <2>2. ASSUME NEW q \in Players PROVE Fits(q)'
    <3>1. pc[q] \notin AtPile
      <4>1. at[q] \in (Nat \ {0}) \X Players
        BY DEF TypeOK
      <4>2. stack_lock[at[q][2]] = Referee /\ q # Referee
        BY <2>1, <4>1, PlayersFact DEF LockInv
      <4> QED BY <4>2 DEF LockInv, Pile
    <3> QED BY <1>1, <3>1 DEF PileInv, Fits, AtPile
  <2>3. ASSUME NEW r \in Players
        PROVE  /\ Append(play_pile[r], Put(Last(replenish_pile[r]), Referee)) # << >>
               /\ Legal(Append(play_pile[r], Put(Last(replenish_pile[r]), Referee)))
    <3>1. Last(replenish_pile[r]) \in Nat
      BY <2>1, SeqFacts DEF TypeOK
    <3>2. /\ Put(Last(replenish_pile[r]), Referee) \in PutType
          /\ Put(Last(replenish_pile[r]), Referee).by \notin Players
      BY <3>1, PlayersFact DEF Put, PutType, Threads
    <3>3. play_pile[r] \in Seq(PutType) /\ play_pile[r] # << >> /\ Legal(play_pile[r])
      BY DEF PileInv, TypeOK
    <3> QED BY <3>2, <3>3, LegalAppend
  <2>4. \A r \in Players : play_pile'[r] # << >> /\ Legal(play_pile'[r])
    BY <2>1, <2>3
  <2> QED BY <2>2, <2>4 DEF PileInv, Legal
<1> QED BY <1>2, <1>3

-----------------------------------------------------------------------------
LEMMA TurnInvStep ==
  ASSUME TypeOK, TurnInv, (\E p \in Players : Player(p)) \/ RefereeStep
  PROVE  TurnInv'
<1>1. CASE \E p \in Players : Player(p)
  <2>1. UNCHANGED <<replenish_pile, referee>>
    BY <1>1, PlayerFrame
  <2> QED BY <2>1 DEF TurnInv
<1>2. CASE RefereeStep /\ ~ TurnCards
  <2>1. replenish_pile' = replenish_pile
    BY <1>2 DEF RefereeStep, CountOne, StartGame, Judge, LockPile, UnlockPile, EndGame, Leave, cards
  <2>2. CASE Judge
    <3>1. referee' \notin {"lock", "turn"} \/ replenish_pile[0] # << >>
      BY <2>2, SizeFact, PlayersFact DEF Judge, Go, TypeOK
    <3> QED BY <2>1, <3>1 DEF TurnInv
  <2>3. CASE LockPile
    BY <2>1, <2>3 DEF LockPile, TurnInv
  <2>4. CASE CountOne \/ StartGame \/ UnlockPile \/ EndGame \/ Leave
    <3>1. referee' \notin {"lock", "turn"}
      BY <2>4 DEF CountOne, StartGame, UnlockPile, EndGame, Leave, Go
    <3> QED BY <2>1, <3>1 DEF TurnInv
  <2> QED BY <1>2, <2>2, <2>3, <2>4 DEF RefereeStep
<1>3. CASE TurnCards
  <2>1. referee' = "unlock" /\ \A p \in Players : replenish_pile[p] # << >>
    BY <1>3 DEF TurnCards, Go
  <2>2. \A p \in Players : /\ replenish_pile'[p] = Front(replenish_pile[p])
                           /\ Len(replenish_pile'[p]) = Len(replenish_pile[p]) - 1
    BY <1>3, <2>1, SeqFacts DEF TurnCards, TypeOK
  <2>3. \A p, q \in Players : Len(replenish_pile'[p]) = Len(replenish_pile'[q])
    BY <2>2 DEF TurnInv
  <2> QED BY <2>1, <2>3 DEF TurnInv
<1> QED BY <1>1, <1>2, <1>3

(* The first replenish pile says whether the others are empty.             *)
LEMMA AllOrNone ==
  ASSUME TypeOK, TurnInv, NEW p \in Players
  PROVE  replenish_pile[p] = << >> <=> replenish_pile[0] = << >>
<1>1. replenish_pile[p] \in Seq(Nat) /\ replenish_pile[0] \in Seq(Nat)
  BY PlayersFact DEF TypeOK
<1>2. Len(replenish_pile[p]) = Len(replenish_pile[0])
  BY PlayersFact DEF TurnInv
<1> QED BY <1>1, <1>2

LEMMA EndInvPlayer ==
  ASSUME TypeOK, EndInv, NEW p \in Players, Player(p)
  PROVE  EndInv'
<1>1. /\ UNCHANGED <<replenish_pile, game_over, referee, count>>
      /\ \A q \in Players \ {p} : /\ pc'[q] = pc[q] /\ player_hand'[q] = player_hand[q]
                                  /\ player_state'[q] = player_state[q]
  BY PlayerFrame
<1>2. pc[p] # "done"
  BY DEF Player, Arrive, BeReady, Begin, Scan, Win, Lock, Look, Pass, FindTail, Link, Unlock, Draw,
     Tell, CheckOver, Step
<1>3. /\ player_state'[p] = "done" <=> pc'[p] = "done"
      /\ pc'[p] = "done" => (player_hand'[p] = << >> \/ game_over)
  <2>1. player_state[p] # "done"
    BY <1>2 DEF EndInv
  <2>2. CASE Win(p)
    BY <2>2, SizeFact DEF Win, Step, SetState, TypeOK, cards
  <2>3. CASE CheckOver(p)
    BY <2>1, <2>3 DEF CheckOver, Step, SetState, TypeOK, cards, flags
  <2>4. CASE Arrive(p) \/ BeReady(p) \/ Begin(p) \/ Tell(p)
    BY <2>1, <2>4 DEF Arrive, BeReady, Begin, Tell, Step, SetState, TypeOK
  <2>5. CASE Scan(p) \/ Lock(p) \/ Look(p) \/ FindTail(p)
    BY <2>1, <2>5 DEF Scan, Lock, Look, FindTail, Step, TypeOK, flags
  <2>6. CASE Pass(p) \/ Link(p) \/ Unlock(p) \/ Draw(p)
    <3>1. player_state' = player_state
      BY <2>6 DEF Pass, Link, Unlock, Draw, flags
    <3>2. pc'[p] # "done"
      BY <2>6, SMTT(30) DEF Pass, Link, Unlock, Draw, Step, TypeOK
    <3> QED BY <2>1, <3>1, <3>2
  <2> QED BY <2>2, <2>3, <2>4, <2>5, <2>6 DEF Player
<1>4. \A q \in Players : (pc[q] = "done") => (pc'[q] = "done" /\ player_hand'[q] = player_hand[q])
  BY <1>1, <1>2
<1>5. \A q \in Players : /\ player_state'[q] = "done" <=> pc'[q] = "done"
                         /\ pc'[q] = "done" => (player_hand'[q] = << >> \/ game_over')
  <2>1. ASSUME NEW q \in Players \ {p}
        PROVE  /\ player_state'[q] = "done" <=> pc'[q] = "done"
               /\ pc'[q] = "done" => (player_hand'[q] = << >> \/ game_over')
    BY <1>1 DEF EndInv
  <2> QED BY <1>1, <1>3, <2>1
<1>6. (referee' = "count_done" /\ count' # 0) => \E q \in Players : pc'[q] = "done"
  BY <1>1, <1>4 DEF EndInv
<1>7. game_over' => \/ \E q \in Players : pc'[q] = "done" /\ player_hand'[q] = << >>
                    \/ \A q \in Players : replenish_pile'[q] = << >>
  BY <1>1, <1>4 DEF EndInv
<1> QED BY <1>5, <1>6, <1>7 DEF EndInv

LEMMA EndInvReferee ==
  ASSUME TypeOK, LockInv, TurnInv, EndInv, RefereeStep
  PROVE  EndInv'
<1>1. UNCHANGED <<pc, player_hand, player_state>>
  BY DEF RefereeStep, CountOne, StartGame, Judge, LockPile, TurnCards, UnlockPile, EndGame,
     Leave, playerVars, cards, flags
<1>2. CASE CountOne
  <2>1. UNCHANGED <<replenish_pile, game_over, referee>>
    BY <1>2 DEF CountOne, cards, flags
  <2>2. seat \in Players
    BY <1>2, PlayersFact DEF CountOne, TypeOK
  <2>3. (referee = "count_done" /\ count' # 0) => (count # 0 \/ player_state[seat] = "done")
    BY <1>2 DEF CountOne, Counts, TypeOK
  <2> QED BY <1>1, <2>1, <2>2, <2>3 DEF EndInv
<1>3. CASE StartGame \/ Leave \/ LockPile \/ UnlockPile
  <2>1. UNCHANGED <<replenish_pile, game_over>>
    BY <1>3 DEF StartGame, Leave, LockPile, UnlockPile, cards, flags
  <2>2. referee' # "count_done" \/ count' = 0
    BY <1>3 DEF StartGame, Leave, LockPile, UnlockPile, Go
  <2> QED BY <1>1, <2>1, <2>2 DEF EndInv
<1>4. CASE Judge
  <2>1. replenish_pile' = replenish_pile /\ count' = 0
    BY <1>4 DEF Judge, cards, Go
  <2>2. (game_over' /\ ~ game_over) => \A p \in Players : replenish_pile[p] = << >>
    <3>1. (game_over' /\ ~ game_over) => replenish_pile[0] = << >>
      BY <1>4, SizeFact, PlayersFact DEF Judge, TypeOK
    <3> QED BY <3>1, AllOrNone
  <2>3. game_over' => (game_over \/ \A p \in Players : replenish_pile[p] = << >>)
    BY <2>2
  <2>4. game_over => game_over'
    BY <1>4 DEF Judge
  <2> QED BY <1>1, <2>1, <2>3, <2>4 DEF EndInv
<1>5. CASE TurnCards
  <2>1. /\ UNCHANGED game_over /\ count' = 0
        /\ \A p \in Players : replenish_pile[p] # << >>
    BY <1>5 DEF TurnCards, Go, flags
  <2> QED BY <1>1, <2>1, PlayersFact DEF EndInv
<1>6. CASE EndGame
  <2>1. /\ replenish_pile' = replenish_pile /\ count' = 0 /\ referee = "count_done"
        /\ game_over' = (game_over \/ count # 0)
    BY <1>6 DEF EndGame, cards, Go, Counted
  <2> QED BY <1>1, <2>1 DEF EndInv
<1> QED BY <1>2, <1>3, <1>4, <1>5, <1>6 DEF RefereeStep

-----------------------------------------------------------------------------
LEMMA InitIInv == Init => IInv
<1> SUFFICES ASSUME Init PROVE IInv
  OBVIOUS
<1>1. PICK d \in Deals :
        /\ player_hand = d.hand /\ draw_pile = d.draw /\ replenish_pile = d.replenish
        /\ play_pile = [p \in Players |-> <<Put(d.play[p][1], NoOne)>>]
  BY DEF Init
<1>2. /\ d.hand \in [Players -> Seq(Nat)] /\ d.draw \in [Players -> Seq(Nat)]
      /\ d.replenish \in [Players -> Seq(Nat)] /\ d.play \in [Players -> Seq(Nat)]
      /\ \A p, q \in Players : Len(d.replenish[p]) = Len(d.replenish[q])
      /\ \A p \in Players : Len(d.play[p]) = 1
  BY DealsAssumption DEF IsDeal, Kinds
<1>3. \A p \in Players : Put(d.play[p][1], NoOne) \in PutType
  BY <1>2 DEF Put, PutType, Threads
<1>4. play_pile \in [Players -> Seq(PutType)]
  BY <1>1, <1>3
<1>5. \A p \in Players : play_pile[p] # << >> /\ Legal(play_pile[p])
  BY <1>1 DEF Legal
<1>6. TypeOK
  <2>1. <<1, 0>> \in (Nat \ {0}) \X Players /\ 0 \in 0 .. PLAYERS
    BY PlayersFact
  <2>2. stack_lock \in [Players -> Threads]
    BY DEF Init, Threads
  <2>3. at \in [Players -> (Nat \ {0}) \X Players] /\ seat \in 0 .. PLAYERS
    BY <2>1 DEF Init
  <2>4. /\ player_state \in [Players -> PlayerStates] /\ pc \in [Players -> PlayerPc]
        /\ seen \in [Players -> Seq(PutType)]
    BY DEF Init, PlayerPc, PlayerStates
  <2>5. game_over \in BOOLEAN /\ referee \in RefereePc /\ count \in Nat
    BY DEF Init, RefereePc
  <2>6. /\ player_hand \in [Players -> Seq(Nat)] /\ draw_pile \in [Players -> Seq(Nat)]
        /\ replenish_pile \in [Players -> Seq(Nat)]
    BY <1>1, <1>2
  <2> QED BY <1>4, <2>2, <2>3, <2>4, <2>5, <2>6 DEF TypeOK
<1>7. LockInv
  BY DEF Init, LockInv, AtPile
<1>8. PileInv
  BY <1>5 DEF Init, PileInv, Fits
<1>9. TurnInv
  BY <1>1, <1>2 DEF Init, TurnInv
<1>10. EndInv
  BY DEF Init, EndInv
<1>11. DeckComplete
  <2>1. \A p \in Players : CardsIn(play_pile[p]) = d.play[p]
    <3> TAKE p \in Players
    <3>1. d.play[p] \in Seq(Nat) /\ Len(d.play[p]) = 1
      BY <1>2
    <3>2. d.play[p] = <<d.play[p][1]>>
      BY <3>1
    <3>3. CardsIn(play_pile[p]) = <<d.play[p][1]>>
      BY <1>1 DEF CardsIn, Put
    <3> QED BY <3>2, <3>3
  <2>2. Dealt(d) \in [Kinds \X Players -> Seq(Nat)]
        /\ \A k \in Kinds, p \in Players : Dealt(d)[<<k, p>>] = d[k][p]
    BY DealsAssumption DEF IsDeal, Dealt
  <2>3. ASSUME NEW x \in Kinds \X Players PROVE Stacks[x] = Dealt(d)[x]
    <3>1. PICK k \in Kinds, p \in Players : x = <<k, p>>
      OBVIOUS
    <3>2. k = "hand" \/ k = "draw" \/ k = "replenish" \/ k = "play"
      BY DEF Kinds
    <3>3. d.hand = d["hand"] /\ d.draw = d["draw"] /\ d.replenish = d["replenish"]
          /\ d.play = d["play"]
      OBVIOUS
    <3>4. Dealt(d)[x] = d[k][p]
      BY <2>2, <3>1
    <3>5. /\ Stacks[<<"hand", p>>] = d.hand[p] /\ Stacks[<<"draw", p>>] = d.draw[p]
          /\ Stacks[<<"replenish", p>>] = d.replenish[p] /\ Stacks[<<"play", p>>] = d.play[p]
      BY <1>1, <1>6, <2>1, StacksNow DEF Shows
    <3> QED BY <3>1, <3>2, <3>3, <3>4, <3>5
  <2>4. Stacks = Dealt(d)
    BY <1>6, <2>2, <2>3, StacksNow DEF Shows
  <2> QED BY <2>4, DealsAssumption DEF DeckComplete, IsShuffled
<1> QED BY <1>6, <1>7, <1>8, <1>9, <1>10, <1>11 DEF IInv

LEMMA StepIInv == IInv /\ [Next]_vars => IInv'
<1> SUFFICES ASSUME IInv, [Next]_vars PROVE IInv'
  OBVIOUS
<1>1. CASE UNCHANGED vars
  <2>1. DeckComplete'
    BY <1>1, DeckStays DEF vars, IInv
  <2>2. (TypeOK /\ LockInv /\ PileInv /\ TurnInv /\ EndInv)'
    BY <1>1 DEF vars, cards, flags, playerVars, refVars, IInv, TypeOK, LockInv, PileInv, Fits,
       Card, Pile, TurnInv, EndInv
  <2> QED BY <2>1, <2>2 DEF IInv
<1>2. CASE \E p \in Players : Player(p)
  BY <1>2, TypeStepPlayer, DeckStepPlayer, LockInvPlayer, PileInvPlayer, TurnInvStep,
     EndInvPlayer DEF IInv
<1>3. CASE RefereeStep
  BY <1>3, TypeStepReferee, DeckStepReferee, LockInvReferee, PileInvReferee, TurnInvStep,
     EndInvReferee DEF IInv
<1> QED BY <1>1, <1>2, <1>3 DEF Next

THEOREM Invariance == Spec => []IInv
BY InitIInv, StepIInv, PTL DEF Spec

(* check_deck would find the deck complete at every moment                 *)
(* (check_deck.cpp:38-91): whatever the players and the referee do at the  *)
(* same time, every card is in one place of one stack.                     *)
THEOREM DeckIsComplete == Spec => []DeckComplete
<1>1. IInv => DeckComplete
  BY DEF IInv
<1> QED BY <1>1, Invariance, PTL

(* What a player looked at is what it played on (main.cpp:127-130): the    *)
(* mutex of the pile is held from the look to the link, and while the      *)
(* referee turns cards it has them all.                                    *)
THEOREM LegalPlays == Spec => []PlaysAreLegal
<1>1. IInv => PlaysAreLegal
  BY DEF IInv, PileInv, Legal, PlaysAreLegal
<1> QED BY <1>1, Invariance, PTL

(* The assertion of stack_of_cards.cpp:126 holds when cards are turned,    *)
(* although the referee has looked at the first replenish pile only        *)
(* (main.cpp:224, 254).                                                    *)
THEOREM TurnsFindCards == Spec => []TurnFindsCards
<1>1. IInv => TurnFindsCards
  BY AllOrNone DEF IInv, TurnInv, TurnFindsCards
<1> QED BY <1>1, Invariance, PTL

(* The game ends with an empty hand or with no card to turn                *)
(* (main.cpp:252-266), whenever the referee has read the players' states.  *)
THEOREM EndsAreJustified == Spec => []EndIsJustified
<1>1. IInv => EndIsJustified
  BY DEF IInv, EndInv, EndIsJustified
<1> QED BY <1>1, Invariance, PTL

-----------------------------------------------------------------------------
(* The threads play by the rules of CardGame.                              *)

(* The referee has left its loop when the game is over.                    *)
OverInv == game_over => referee \in {"count_done", "await", "end"}

LEMMA OverStep == OverInv /\ [Next]_vars => OverInv'
<1> SUFFICES ASSUME OverInv, [Next]_vars PROVE OverInv'
  OBVIOUS
<1>1. CASE UNCHANGED <<game_over, referee>>
  BY <1>1 DEF OverInv
<1>2. ASSUME NEW p \in Players, Player(p) PROVE UNCHANGED <<game_over, referee>>
  BY <1>2, PlayerFrame DEF Player, Arrive, BeReady, Begin, Scan, Win, Lock, Look, Pass,
     FindTail, Link, Unlock, Draw, Tell, CheckOver, SetState, flags, refVars
<1>3. CASE CountOne \/ StartGame
  BY <1>3 DEF OverInv, CountOne, StartGame, Counted, Go, flags
<1>4. CASE Judge \/ LockPile \/ TurnCards
  BY <1>4 DEF OverInv, Judge, LockPile, TurnCards, Counted, Go, flags
<1>5. CASE UnlockPile \/ EndGame \/ Leave
  BY <1>5 DEF OverInv, UnlockPile, EndGame, Leave, Counted, Go, flags
<1> QED BY <1>1, <1>2, <1>3, <1>4, <1>5 DEF Next, RefereeStep, vars, flags, refVars

(* The two modules mean the same by a stack and by neighbours.             *)
LEMMA SameRules ==
  /\ Game!Players = Players
  /\ \A s, c : Game!remove(s, c) = remove(s, c)
  /\ \A s, c : Game!add(s, c) = Append(s, c)
  /\ \A s : Game!draw(s).card = Last(s) /\ Game!draw(s).rest = Front(s)
  /\ \A s : Game!last_card(s) = Last(s)
  /\ \A s : Game!ToSet(s) = ToSet(s)
  /\ \A c, d : Game!Neighbours(c, d) <=> Adjacent(c, d)
<1>1. Game!Players = Players
  BY DEF Game!Players, Players
<1>2. \A s, c : Game!remove(s, c) = remove(s, c)
  <2> SUFFICES ASSUME NEW s, NEW c PROVE Game!remove(s, c) = remove(s, c)
    OBVIOUS
  <2> DEFINE I == {j \in 1 .. Len(s) : s[j] = c}
  <2>1. SelectInSeq(s, LAMBDA v : v = c) = IF I = {} THEN 0 ELSE Min(I)
    BY DEF SelectInSeq
  <2>2. Game!SelectInSeq(s, LAMBDA v : v = c) = IF I = {} THEN 0 ELSE Game!Min(I)
    BY DEF Game!SelectInSeq
  <2>3. Game!Min(I) = Min(I)
    BY DEF Game!Min, Min
  <2>4. \A i : Game!RemoveAt(s, i) = RemoveAt(s, i)
    BY DEF Game!RemoveAt, RemoveAt
  <2> HIDE DEF I
  <2>5. SelectInSeq(s, LAMBDA v : v = c) = Game!SelectInSeq(s, LAMBDA v : v = c)
    BY <2>1, <2>2, <2>3
  <2> QED BY <2>4, <2>5 DEF Game!remove, remove, Game!RemoveFirst, RemoveFirst
<1>3. \A s, c : Game!add(s, c) = Append(s, c)
  BY DEF Game!add
<1>4. \A s : Game!draw(s).card = Last(s) /\ Game!draw(s).rest = Front(s)
  BY DEF Game!draw, Game!Last, Game!Front, Last, Front
<1>5. \A s : Game!last_card(s) = Last(s)
  BY DEF Game!last_card, Game!Last, Last
<1>6. \A s : Game!ToSet(s) = ToSet(s)
  BY DEF Game!ToSet, ToSet
<1>7. \A c, d : Game!Neighbours(c, d) <=> Adjacent(c, d)
  BY DEF Game!Neighbours, Adjacent
<1> QED BY <1>1, <1>2, <1>3, <1>4, <1>5, <1>6, <1>7

Owing(where) == where = "unlock" \/ where = "draw"
Owed         == [p \in Players |-> pc[p] = "unlock" \/ pc[p] = "draw"]

LEMMA OwedStep ==
  ASSUME TypeOK, NEW p \in Players, NEW from, NEW to, Step(p, from, to)
  PROVE  /\ (Owing(from) <=> Owing(to)) => Owed' = Owed
         /\ Owing(to) => Owed' = [Owed EXCEPT ![p] = TRUE]
         /\ ~ Owing(to) => Owed' = [Owed EXCEPT ![p] = FALSE]
         /\ Owed[p] <=> Owing(from)
<1>1. pc[p] = from /\ pc'[p] = to /\ \A q \in Players \ {p} : pc'[q] = pc[q]
  BY DEF Step, TypeOK
<1>2. ASSUME Owing(from) <=> Owing(to) PROVE Owed' = Owed
  <2>1. \A q \in Players :
          (pc'[q] = "unlock" \/ pc'[q] = "draw") <=> (pc[q] = "unlock" \/ pc[q] = "draw")
    BY <1>1, <1>2 DEF Owing
  <2> QED BY <2>1, Zenon DEF Owed
<1>3. ASSUME Owing(to) PROVE Owed' = [Owed EXCEPT ![p] = TRUE]
  <2>1. \A q \in Players :
          (pc'[q] = "unlock" \/ pc'[q] = "draw")
            <=> IF q = p THEN TRUE ELSE (pc[q] = "unlock" \/ pc[q] = "draw")
    BY <1>1, <1>3 DEF Owing
  <2> QED BY <2>1, Zenon DEF Owed
<1>4. ASSUME ~ Owing(to) PROVE Owed' = [Owed EXCEPT ![p] = FALSE]
  <2>1. \A q \in Players :
          (pc'[q] = "unlock" \/ pc'[q] = "draw")
            <=> IF q = p THEN FALSE ELSE (pc[q] = "unlock" \/ pc[q] = "draw")
    BY <1>1, <1>4 DEF Owing
  <2> QED BY <2>1, Zenon DEF Owed
<1>5. Owed[p] <=> Owing(from)
  BY <1>1 DEF Owed, Owing
<1> QED BY <1>2, <1>3, <1>4, <1>5

(* What a card put on a pile shows on the table.                           *)
LEMMA TableFacts ==
  ASSUME TypeOK, NEW r \in Players
  PROVE  /\ Table[r] = CardsIn(play_pile[r])
         /\ \A card \in Nat, who \in Threads :
              CardsIn(Append(play_pile[r], Put(card, who))) = Append(Table[r], card)
<1>1. Table[r] = CardsIn(play_pile[r])
  BY DEF Table, CardsIn
<1>2. play_pile[r] \in Seq(PutType)
  BY DEF TypeOK
<1> QED BY <1>1, <1>2, CardsInFacts

(* What shows of a pile is the card that was put on it last.               *)
LEMMA TableTop ==
  ASSUME TypeOK, NEW r \in Players, play_pile[r] # << >>
  PROVE  Last(Table[r]) = Last(play_pile[r]).card
<1>1. play_pile[r] \in Seq(PutType)
  BY DEF TypeOK
<1>2. Table[r] = [k \in 1 .. Len(play_pile[r]) |-> play_pile[r][k].card]
  BY <1>1 DEF Table
<1>3. Len(Table[r]) = Len(play_pile[r]) /\ Len(play_pile[r]) \in 1 .. Len(play_pile[r])
  BY <1>1, <1>2
<1>4. Table[r][Len(play_pile[r])] = play_pile[r][Len(play_pile[r])].card
  BY <1>2, <1>3
<1> QED BY <1>3, <1>4 DEF Last

LEMMA InitGame == Init => Game!Init /\ OverInv
<1> SUFFICES ASSUME Init PROVE Game!Init /\ OverInv
  OBVIOUS
<1>1. PICK d \in Deals :
        /\ player_hand = d.hand /\ draw_pile = d.draw /\ replenish_pile = d.replenish
        /\ play_pile = [p \in Players |-> <<Put(d.play[p][1], NoOne)>>]
  BY DEF Init
<1>2. d.play \in [Players -> Seq(Nat)] /\ \A p \in Players : Len(d.play[p]) = 1
  BY DealsAssumption DEF IsDeal, Kinds
<1>3. Table = d.play
  <2>1. ASSUME NEW p \in Players PROVE Table[p] = d.play[p]
    <3>1. d.play[p] \in Seq(Nat) /\ Len(d.play[p]) = 1
      BY <1>2
    <3>2. d.play[p] = <<d.play[p][1]>>
      BY <3>1
    <3>3. Table[p] = <<d.play[p][1]>>
      BY <1>1 DEF Table, Put
    <3> QED BY <3>2, <3>3
  <2> QED BY <1>2, <2>1 DEF Table
<1>4. Owed = [p \in Players |-> FALSE]
  <2>1. \A p \in Players : ~ (pc[p] = "unlock" \/ pc[p] = "draw")
    BY DEF Init
  <2> QED BY <2>1, Zenon DEF Owed
<1>5. game_over = FALSE /\ OverInv
  BY DEF Init, OverInv
<1> QED BY <1>1, <1>3, <1>4, <1>5, SameRules DEF Game!Init, Owed, Table

(* What the moves of the game change, in terms of the threads.             *)
SameTable == /\ UNCHANGED <<player_hand, draw_pile, replenish_pile, play_pile>>
             /\ UNCHANGED game_over

LEMMA NoMove == SameTable /\ Owed' = Owed => UNCHANGED Game!gameVars
<1> SUFFICES ASSUME SameTable, Owed' = Owed PROVE UNCHANGED Game!gameVars
  OBVIOUS
<1>1. Table' = Table
  BY DEF SameTable, Table
<1> QED BY <1>1 DEF SameTable, Game!gameVars, Owed, Table

(* A card is linked to the pile it was looked at for.                      *)
LEMMA LinkPlays ==
  ASSUME IInv, NEW p \in Players, NEW r \in Players, r = Pile(p), Link(p)
  PROVE  Game!Play(p, r)
<1> DEFINE card == Card(p)
<1>1. at[p] \in (Nat \ {0}) \X Players
  BY DEF IInv, TypeOK
<1>2. at[p][1] \in Nat \ {0}
  BY <1>1
<1>3. /\ pc[p] = "link" /\ player_hand' = [player_hand EXCEPT ![p] = remove(@, card)]
      /\ play_pile' = [play_pile EXCEPT ![r] = Append(seen[p], Put(card, p))]
      /\ UNCHANGED <<draw_pile, replenish_pile, game_over>>
  BY DEF Link, Step, flags
<1>4. seen[p] = play_pile[r] /\ at[p][1] <= Len(player_hand[p])
      /\ Adjacent(card, Last(play_pile[r]).card) /\ play_pile[r] # << >>
  BY <1>2, <1>3 DEF IInv, PileInv, Fits
<1>5. card \in Nat /\ card \in ToSet(player_hand[p])
  <2>1. player_hand[p] \in Seq(Nat)
    BY DEF IInv, TypeOK
  <2>2. at[p][1] \in 1 .. Len(player_hand[p])
    BY <1>2, <1>4, <2>1
  <2>3. \A s \in Seq(Nat) : \A k \in 1 .. Len(s) : s[k] \in Nat /\ s[k] \in ToSet(s)
    BY DEF ToSet
  <2> QED BY <2>1, <2>2, <2>3, Zenon DEF Card
<1>6. TypeOK /\ play_pile \in [Players -> Seq(PutType)] /\ p \in Threads
  BY DEF IInv, TypeOK, Threads
<1> HIDE DEF card
<1>7. Table' = [Table EXCEPT ![r] = Append(@, card)]
  <2>1. CardsIn(play_pile'[r]) = Append(Table[r], card)
    BY <1>2, <1>3, <1>4, <1>5, <1>6, TableFacts
  <2>2. \A q \in Players \ {r} : play_pile'[q] = play_pile[q]
    BY <1>2, <1>3, <1>6
  <2>3. Table' = [q \in Players |-> CardsIn(play_pile'[q])]
    BY DEF Table, CardsIn
  <2>4. Table = [q \in Players |-> CardsIn(play_pile[q])]
    BY DEF Table, CardsIn
  <2> QED BY <1>2, <2>1, <2>2, <2>3, <2>4, SMTT(30)
<1>8. Owed' = [Owed EXCEPT ![p] = TRUE] /\ ~ Owed[p]
  <2>1. Step(p, "link", "unlock") /\ ~ Owing("link") /\ Owing("unlock")
    BY DEF Link, Owing
  <2> QED BY <1>6, <2>1, OwedStep
<1>9. Last(Table[r]) = Last(play_pile[r]).card
  BY <1>2, <1>4, <1>6, TableTop
<1>10. Game!Neighbours(card, Game!last_card(Table[r]))
  BY <1>4, <1>9, SameRules
<1>11. /\ player_hand' = [player_hand EXCEPT ![p] = Game!remove(@, card)]
       /\ Table' = [Table EXCEPT ![r] = Game!add(@, card)]
       /\ card \in Game!ToSet(player_hand[p])
  BY <1>3, <1>5, <1>7, SameRules
<1> QED BY <1>3, <1>8, <1>10, <1>11, Zenon DEF Game!Play, Owed, Table

LEMMA DrawDraws ==
  ASSUME IInv, NEW p \in Players, Draw(p)
  PROVE  Game!Draw(p)
<1>1. TypeOK /\ draw_pile[p] \in Seq(Nat)
  BY DEF IInv, TypeOK
<1>2. Owed[p] /\ Owed' = [Owed EXCEPT ![p] = FALSE]
  BY <1>1, OwedStep DEF Draw, Owing
<1>3. Table' = Table /\ UNCHANGED <<replenish_pile, game_over>>
  BY DEF Draw, Table, flags
<1>4. CASE draw_pile[p] # << >>
  <2>1. size(draw_pile[p]) > 0
    BY <1>1, <1>4, SizeFact
  <2>2. /\ player_hand' = [player_hand EXCEPT ![p] = Game!add(@, Game!draw(draw_pile[p]).card)]
        /\ draw_pile' = [draw_pile EXCEPT ![p] = Game!draw(@).rest]
    BY <2>1, SameRules DEF Draw
  <2> QED BY <1>2, <1>3, <1>4, <2>2, Zenon DEF Game!Draw, Owed, Table
<1>5. CASE draw_pile[p] = << >>
  <2>1. ~ (size(draw_pile[p]) > 0)
    BY <1>1, <1>5, SizeFact
  <2>2. UNCHANGED <<player_hand, draw_pile>>
    BY <2>1 DEF Draw
  <2> QED BY <1>2, <1>3, <1>5, <2>2, Zenon DEF Game!Draw, Owed, Table
<1> QED BY <1>4, <1>5

(* A player may be owed a card while cards are turned.                     *)
LEMMA TurnTurns ==
  ASSUME IInv, OverInv, TurnCards
  PROVE  Game!Turn
<1>1. TypeOK /\ referee = "turn"
  BY DEF IInv, TurnCards
<1>2. ~ game_over
  BY <1>1 DEF OverInv
<1>3. \A q \in Players : replenish_pile[q] # << >>
  BY DEF TurnCards
<1>4. Owed' = Owed /\ UNCHANGED <<player_hand, draw_pile, game_over>>
  BY DEF TurnCards, Owed, flags, playerVars
<1>5. Table' = [q \in Players |-> Append(Table[q], Last(replenish_pile[q]))]
  <2>1. play_pile' = [q \in Players |->
                        Append(play_pile[q], Put(Last(replenish_pile[q]), Referee))]
    BY DEF TurnCards
  <2>2. Table' = [q \in Players |-> CardsIn(play_pile'[q])]
    BY DEF Table, CardsIn
  <2>3. ASSUME NEW q \in Players
        PROVE  CardsIn(play_pile'[q]) = Append(Table[q], Last(replenish_pile[q]))
    <3>1. Last(replenish_pile[q]) \in Nat
      BY <1>1, <1>3, SeqFacts DEF TypeOK
    <3>2. Referee \in Threads
      BY DEF Threads
    <3> QED BY <1>1, <2>1, <3>1, <3>2, TableFacts
  <2> QED BY <2>2, <2>3
<1>6. replenish_pile' = [q \in Players |-> Front(replenish_pile[q])]
  BY DEF TurnCards
<1>7. /\ Table' = [q \in Players |-> Game!add(Table[q], Game!draw(replenish_pile[q]).card)]
      /\ replenish_pile' = [q \in Players |-> Game!draw(replenish_pile[q]).rest]
  BY <1>5, <1>6, SameRules
<1> QED BY <1>2, <1>3, <1>4, <1>7, SameRules, Zenon DEF Game!Turn, Owed, Table

(* The game is over only with the ends the rules know.                     *)
LEMMA EndEnds ==
  ASSUME IInv, IInv', Judge \/ EndGame
  PROVE  Game!End \/ UNCHANGED Game!gameVars
<1>1. UNCHANGED <<player_hand, draw_pile, replenish_pile, play_pile, pc>>
  BY DEF Judge, EndGame, cards, playerVars
<1>2. Owed' = Owed /\ Table' = Table
  BY <1>1 DEF Owed, Table
<1>3. game_over \in BOOLEAN /\ game_over' \in BOOLEAN /\ (game_over => game_over')
  BY DEF IInv, TypeOK, Judge, EndGame
<1>4. CASE game_over' = game_over
  BY <1>1, <1>2, <1>4, NoMove DEF SameTable
<1>5. CASE ~ game_over /\ game_over'
  <2>1. \/ \E p \in Players : pc'[p] = "done" /\ player_hand'[p] = << >>
        \/ \A p \in Players : replenish_pile'[p] = << >>
    BY <1>5 DEF IInv, EndInv
  <2>2. \/ \E p \in Players : player_hand[p] = << >> /\ ~ Owed[p]
        \/ \A p \in Players : replenish_pile[p] = << >>
    BY <1>1, <2>1 DEF Owed
  <2>3. game_over' = TRUE
    BY <1>3, <1>5
  <2>4. Game!End
    BY <1>1, <1>2, <1>5, <2>2, <2>3, SameRules DEF Game!End, Owed, Table
  <2> QED BY <2>4
<1> QED BY <1>3, <1>4, <1>5

LEMMA PlayerMoves ==
  ASSUME IInv, NEW p \in Players, Player(p)
  PROVE  Game!Next \/ UNCHANGED Game!gameVars
<1>1. CASE Link(p)
  <2>1. at[p] \in (Nat \ {0}) \X Players
    BY DEF IInv, TypeOK
  <2>2. PICK r \in Players : r = Pile(p)
    BY <2>1 DEF Pile
  <2>3. Game!Play(p, r)
    BY <1>1, <2>2, LinkPlays
  <2>4. p \in Game!Players /\ r \in Game!Players
    BY SameRules
  <2> QED BY <2>3, <2>4 DEF Game!Next
<1>2. CASE Draw(p)
  BY <1>2, DrawDraws, SameRules DEF Game!Next
<1>3. CASE ~ Link(p) /\ ~ Draw(p)
  <2>1. SameTable
    BY <1>3 DEF SameTable, Player, Arrive, BeReady, Begin, Scan, Win, Lock, Look, Pass, FindTail,
       Unlock, Tell, CheckOver, SetState, cards, flags
  <2>2. \E from, to : Step(p, from, to) /\ (Owing(from) <=> Owing(to))
    <3>1. CASE Arrive(p) \/ BeReady(p) \/ Begin(p)
      BY <3>1 DEF Arrive, BeReady, Begin, Owing
    <3>2. CASE Scan(p) \/ Win(p) \/ Lock(p)
      BY <3>2 DEF Scan, Win, Lock, Owing
    <3>3. CASE Look(p)
      BY <3>3 DEF Look, Owing
    <3>4. CASE Pass(p)
      BY <3>4 DEF Pass, Owing
    <3>5. CASE FindTail(p) \/ Unlock(p) \/ Tell(p) \/ CheckOver(p)
      BY <3>5 DEF FindTail, Unlock, Tell, CheckOver, Owing
    <3> QED BY <1>3, <3>1, <3>2, <3>3, <3>4, <3>5 DEF Player
  <2>3. TypeOK
    BY DEF IInv
  <2>4. Owed' = Owed
    BY <2>2, <2>3, OwedStep
  <2> QED BY <2>1, <2>4, NoMove
<1> QED BY <1>1, <1>2, <1>3

LEMMA RefereeMoves ==
  ASSUME IInv, IInv', OverInv, RefereeStep
  PROVE  Game!Next \/ UNCHANGED Game!gameVars
<1>1. CASE TurnCards
  BY <1>1, TurnTurns DEF Game!Next
<1>2. CASE Judge \/ EndGame
  BY <1>2, EndEnds DEF Game!Next
<1>3. CASE CountOne \/ StartGame \/ LockPile \/ UnlockPile \/ Leave
  <2>1. SameTable /\ pc' = pc
    BY <1>3 DEF SameTable, CountOne, StartGame, LockPile, UnlockPile, Leave, cards, flags,
       playerVars
  <2>2. Owed' = Owed
    BY <2>1 DEF Owed
  <2> QED BY <2>1, <2>2, NoMove
<1> QED BY <1>1, <1>2, <1>3 DEF RefereeStep

LEMMA StepGame == IInv /\ IInv' /\ OverInv /\ [Next]_vars => [Game!Next]_(Game!gameVars)
<1> SUFFICES ASSUME IInv, IInv', OverInv, [Next]_vars
             PROVE  Game!Next \/ UNCHANGED Game!gameVars
  OBVIOUS
<1>1. CASE UNCHANGED vars
  <2>1. SameTable /\ Owed' = Owed
    BY <1>1 DEF vars, cards, flags, playerVars, SameTable, Owed
  <2> QED BY <2>1, NoMove
<1>2. CASE \E p \in Players : Player(p)
  BY <1>2, PlayerMoves
<1>3. CASE RefereeStep
  BY <1>3, RefereeMoves
<1> QED BY <1>1, <1>2, <1>3 DEF Next

(* The threads play the game of CardGame (main.cpp:117-279): a play of     *)
(* many steps, made while others play and the referee counts, is one move, *)
(* for each card played one is drawn before the next is played, cards are  *)
(* turned with no play half made and before the end, and the game ends     *)
(* once, when the rules say so.                                            *)
THEOREM FollowsTheRules == Spec => ImplementsGame
<1>1. Spec => [](OverInv)
  <2>1. Init => OverInv
    BY InitGame
  <2> QED BY <2>1, OverStep, PTL DEF Spec
<1> QED BY <1>1, Invariance, InitGame, StepGame, PTL DEF Spec, ImplementsGame, Game!Spec

=============================================================================
