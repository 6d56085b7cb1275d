------------------------------ MODULE PuzzleTurn ------------------------------
(* The turns of the two user layers of a match, from the moment a player puts a    *)
(* block down to the next block, with the attacks that cross between them          *)
(* (ModPuzzleUser.tjs, PuzzleUserLayer and PuzzleStatusLayer).  All of it runs in   *)
(* one event loop: an action is the handler of one timer, animation or posted      *)
(* call, with every function it calls.  What the board decides (which pieces fall,  *)
(* which are erased, whether the entry is blocked) is left open.  The match is      *)
(* played on one machine.                                                          *)
EXTENDS OjamaStock

CONSTANTS Columns,      \* number of stocks of a status layer (gridWidth - 3)
          Linking,      \* pieces of one colour that are erased together
          MaxGroups,    \* bound: groups erased at once
          MaxChain,     \* bound: chain count of a turn
          MaxFall,      \* bound: pieces that fall when others were erased
          MaxRoom,      \* bound: ojama a board has room for at once
          MaxTurns      \* bound: blocks put down by each player

ASSUMPTION TurnAssumption ==
    /\ Columns \in Nat \ {0}
    /\ Linking \in Nat \ {0}
    /\ {MaxGroups, MaxChain, MaxFall, MaxRoom, MaxTurns} \subseteq Nat

Layer == 1..2
Opponent(l) == 3 - l

VARIABLES
    moving,                 \* intervalTimer or the timer of the AI is enabled
    fallers,                \* pieces whose mover runs
    landers,                \* pieces in their landing animation
    falling_, landingAnimationCount_, landingAnimationMax_,
    erasing,                \* the erase animations run
    chainCount_, eraseCount_,
    effect,                 \* the mover of attackEffectLayer runs
    attacking_, counterAttack_, ojamaCountOnAttack_, remainingOjama_,
    posted,                 \* calls of startCounterAttackEffect in anotherCycle
    lockOjama, ojamaFalled_,
    stock,                  \* counts of ojamaPieces of the status layer
    addCount_, opponentAdded_,
    half,                   \* which half of the status animation runs
    isGameOver,
    turns                   \* blocks put down, for the bound

board == <<moving, fallers, landers, falling_, landingAnimationCount_,
           landingAnimationMax_, erasing, turns>>
chain == <<chainCount_, eraseCount_>>
attack == <<effect, attacking_, counterAttack_, ojamaCountOnAttack_, remainingOjama_, posted>>
ojama == <<lockOjama, ojamaFalled_, stock>>
status == <<addCount_, opponentAdded_, half>>
vars == <<board, chain, attack, ojama, status, isGameOver>>

TypeOK ==
    /\ \A v \in {moving, falling_, erasing, effect, attacking_, counterAttack_, lockOjama,
                 ojamaFalled_, opponentAdded_} : v \in [Layer -> BOOLEAN]
    /\ \A v \in {fallers, landers, landingAnimationCount_, landingAnimationMax_, chainCount_,
                 eraseCount_, ojamaCountOnAttack_, posted, turns} : v \in [Layer -> Nat]
    /\ remainingOjama_ \in [Layer -> Int]
    /\ addCount_ \in [Layer -> Int]
    /\ stock \in [Layer -> [1..Columns -> Nat]]
    /\ half \in [Layer -> {"none", "first", "latter"}]
    /\ isGameOver \in BOOLEAN

\* start() has created the first block of both layers.
Init ==
    /\ moving = [l \in Layer |-> TRUE]
    /\ fallers = [l \in Layer |-> 0]
    /\ landers = [l \in Layer |-> 0]
    /\ falling_ = [l \in Layer |-> FALSE]
    /\ landingAnimationCount_ = [l \in Layer |-> 0]
    /\ landingAnimationMax_ = [l \in Layer |-> 0]
    /\ erasing = [l \in Layer |-> FALSE]
    /\ chainCount_ = [l \in Layer |-> 0]
    /\ eraseCount_ = [l \in Layer |-> 0]
    /\ effect = [l \in Layer |-> FALSE]
    /\ attacking_ = [l \in Layer |-> FALSE]
    /\ counterAttack_ = [l \in Layer |-> FALSE]
    /\ ojamaCountOnAttack_ = [l \in Layer |-> 0]
    /\ remainingOjama_ = [l \in Layer |-> 0]
    /\ posted = [l \in Layer |-> 0]
    /\ lockOjama = [l \in Layer |-> FALSE]
    /\ ojamaFalled_ = [l \in Layer |-> FALSE]
    /\ stock = [l \in Layer |-> [i \in 1..Columns |-> 0]]
    /\ addCount_ = [l \in Layer |-> 0]
    /\ opponentAdded_ = [l \in Layer |-> FALSE]
    /\ half = [l \in Layer |-> "none"]
    /\ isGameOver = FALSE
    /\ turns = [l \in Layer |-> 0]

----------------------------------------------------------------------------
(* The pieces of a board.                                                          *)

\* A plausible slip in StartFall: the landing is not counted in advance.
StartFallUncounted(l, n, max) ==
    /\ fallers' = [fallers EXCEPT ![l] = @ + n]
    /\ falling_' = [falling_ EXCEPT ![l] = @ \/ n > 0]
    /\ landingAnimationMax_' = [landingAnimationMax_ EXCEPT ![l] = max]

\* startFall: the landing of a piece is counted before its fall starts.  max is what
\* has been counted so far.
StartFall(l, n, max) ==
    /\ fallers' = [fallers EXCEPT ![l] = @ + n]
    /\ falling_' = [falling_ EXCEPT ![l] = @ \/ n > 0]
    /\ landingAnimationMax_' = [landingAnimationMax_ EXCEPT ![l] = max + n]

\* decideBlock: one of the two pieces may have to fall, the other lands at once.
DecideBlock(l) ==
    /\ ~isGameOver /\ moving[l] /\ turns[l] < MaxTurns
    /\ moving' = [moving EXCEPT ![l] = FALSE]
    /\ \E n \in 0..1 :
          /\ StartFall(l, n, landingAnimationMax_[l] + 2 - n)
          /\ landers' = [landers EXCEPT ![l] = @ + 2 - n]
    /\ turns' = [turns EXCEPT ![l] = @ + 1]
    /\ UNCHANGED <<landingAnimationCount_, erasing, chain, attack, ojama, status, isGameOver>>

\* onPieceEvent, onStopMover.
OnStopMover(l) ==
    /\ ~isGameOver /\ fallers[l] > 0
    /\ fallers' = [fallers EXCEPT ![l] = @ - 1]
    /\ falling_' = [falling_ EXCEPT ![l] = FALSE]
    /\ landers' = [landers EXCEPT ![l] = @ + 1]
    /\ UNCHANGED <<moving, landingAnimationCount_, landingAnimationMax_, erasing, turns,
                   chain, attack, ojama, status, isGameOver>>

\* checkGameOver finds the entry blocked, and gameOver stops both timers.
GameOver(s, l, max) ==
    /\ isGameOver' = TRUE
    /\ moving' = [k \in Layer |-> FALSE]
    /\ stock' = s
    /\ landingAnimationMax_' = [landingAnimationMax_ EXCEPT ![l] = max]
    /\ UNCHANGED <<fallers, falling_, chainCount_, lockOjama, ojamaFalled_>>

\* fallOjamaPieces takes ojama from the stock, as many as there is room for.  There is
\* room for one: the entry is free.
DropOjama(l, s, max) ==
    /\ \E n \in 1..MaxRoom :
          /\ n <= Total(s[l])
          /\ stock' = [s EXCEPT ![l] = Take(@, n)]
          /\ StartFall(l, n, max)
    /\ ojamaFalled_' = [ojamaFalled_ EXCEPT ![l] = TRUE]
    /\ UNCHANGED <<moving, chainCount_, lockOjama, isGameOver>>

\* A plausible slip in CreateNewBlock: the lock is left behind.
CreateNewBlockLocked(l, s, max) ==
    /\ moving' = [moving EXCEPT ![l] = TRUE]
    /\ chainCount_' = [chainCount_ EXCEPT ![l] = 0]
    /\ ojamaFalled_' = [ojamaFalled_ EXCEPT ![l] = FALSE]
    /\ stock' = s
    /\ landingAnimationMax_' = [landingAnimationMax_ EXCEPT ![l] = max]
    /\ UNCHANGED <<fallers, falling_, lockOjama, isGameOver>>

CreateNewBlock(l, s, max) ==
    /\ moving' = [moving EXCEPT ![l] = TRUE]
    /\ chainCount_' = [chainCount_ EXCEPT ![l] = 0]
    /\ ojamaFalled_' = [ojamaFalled_ EXCEPT ![l] = FALSE]
    /\ lockOjama' = [lockOjama EXCEPT ![Opponent(l)] = FALSE]
    /\ stock' = s
    /\ landingAnimationMax_' = [landingAnimationMax_ EXCEPT ![l] = max]
    /\ UNCHANGED <<fallers, falling_, isGameOver>>

\* fallOjamaPieces, in a handler that has brought the stocks to s and the number of
\* landings to wait for to max.
FallOjamaPieces(l, s, max) ==
    LET blocked == falling_[l] \/ attacking_'[l] \/ moving[l]
        drops == Total(s[l]) > 0 /\ ~lockOjama[l] /\ ~ojamaFalled_[l]
    IN  \/ GameOver(s, l, max)
        \/ /\ blocked
           /\ stock' = s
           /\ landingAnimationMax_' = [landingAnimationMax_ EXCEPT ![l] = max]
           /\ UNCHANGED <<moving, fallers, falling_, chainCount_, lockOjama, ojamaFalled_, isGameOver>>
        \/ ~blocked /\ drops /\ DropOjama(l, s, max)
        \/ ~blocked /\ ~drops /\ CreateNewBlock(l, s, max)

\* fallPieces: pieces above those erased fall, or there is none.
FallPieces(l, s) ==
    \/ /\ \E n \in 1..MaxFall : StartFall(l, n, landingAnimationMax_[l])
       /\ stock' = s
       /\ UNCHANGED <<moving, chainCount_, lockOjama, ojamaFalled_, isGameOver>>
    \/ FallOjamaPieces(l, s, landingAnimationMax_[l])

\* erasePieces: a group needs a piece that is no ojama among those that landed.
ErasePieces(l) ==
    \/ /\ ~ojamaFalled_[l]
       /\ \E n \in 1..MaxGroups :
             /\ chainCount_[l] + n <= MaxChain
             /\ chainCount_' = [chainCount_ EXCEPT ![l] = @ + n]
             /\ eraseCount_' = [eraseCount_ EXCEPT ![l] = n * Linking]
       /\ erasing' = [erasing EXCEPT ![l] = TRUE]
       /\ landingAnimationMax_' = [landingAnimationMax_ EXCEPT ![l] = 0]
       /\ UNCHANGED <<moving, fallers, falling_, ojama, isGameOver>>
    \/ /\ eraseCount_' = [eraseCount_ EXCEPT ![l] = 0]
       /\ FallOjamaPieces(l, stock, 0)
       /\ UNCHANGED erasing

\* A plausible slip in LastLanded: > for >=.
LastLandedLate(l, landed) == landingAnimationMax_[l] > 0 /\ landed > landingAnimationMax_[l]

LastLanded(l, landed) == landingAnimationMax_[l] > 0 /\ landed >= landingAnimationMax_[l]

\* endLanding.
EndLanding(l) ==
    LET landed == landingAnimationCount_[l] + 1
        all == LastLanded(l, landed)
    IN  /\ ~isGameOver /\ landers[l] > 0
        /\ landers' = [landers EXCEPT ![l] = @ - 1]
        /\ landingAnimationCount_' = [landingAnimationCount_ EXCEPT ![l] = IF all THEN 0 ELSE landed]
        /\ UNCHANGED <<turns, attack, status>>
        /\ \/ all /\ ErasePieces(l)
           \/ ~all /\ UNCHANGED <<moving, fallers, falling_, landingAnimationMax_, erasing, chain,
                                  ojama, isGameOver>>

----------------------------------------------------------------------------
(* The stock of ojama and its animation.                                           *)

\* addOjama restarts the animation.  If it is running, stopping the old movers ends
\* both halves at once: the new count is applied to the stock and the end is announced.
StockWith(t, count) ==
    IF half[t] = "none" THEN stock ELSE [stock EXCEPT ![t] = UpdateOjama(@, count)]

\* A plausible slip in CounterDue: whether the effect runs already is not asked.
CounterDueAlways(t) == IF counterAttack_[t] THEN 1 ELSE 0

\* onStatusEvent, onEndOjamaAnimation: a counter attack that is due is posted.
CounterDue(t) == IF counterAttack_[t] /\ ~effect[t] THEN 1 ELSE 0

AddOjama(t, count, byOpponent) ==
    /\ addCount_' = [addCount_ EXCEPT ![t] = count]
    /\ opponentAdded_' = [opponentAdded_ EXCEPT ![t] = byOpponent]
    /\ half' = [half EXCEPT ![t] = IF @ = "none" THEN "first" ELSE "latter"]
    /\ posted' = IF half[t] = "none" \/ byOpponent THEN posted
                 ELSE [posted EXCEPT ![t] = @ + CounterDue(t)]

\* onOjamaEvent, when the last mover of the first half stops: updateOjama.
FirstHalfEnds(l) ==
    /\ ~isGameOver /\ half[l] = "first"
    /\ stock' = [stock EXCEPT ![l] = UpdateOjama(@, addCount_[l])]
    /\ half' = [half EXCEPT ![l] = "latter"]
    /\ UNCHANGED <<board, chain, attack, lockOjama, ojamaFalled_, addCount_, opponentAdded_, isGameOver>>

\* onOjamaEvent, when the last mover of the latter half stops.  A posted call runs at
\* the next idle moment, before an animation that takes 100 ms can end.
LatterHalfEnds(l) ==
    /\ ~isGameOver /\ half[l] = "latter" /\ posted[l] = 0
    /\ half' = [half EXCEPT ![l] = "none"]
    /\ posted' = IF opponentAdded_[l] THEN posted ELSE [posted EXCEPT ![l] = @ + CounterDue(l)]
    /\ UNCHANGED <<board, chain, effect, attacking_, counterAttack_, ojamaCountOnAttack_,
                   remainingOjama_, ojama, addCount_, opponentAdded_, isGameOver>>

----------------------------------------------------------------------------
(* Attacks.                                                                        *)

Power(l) == eraseCount_[l] * chainCount_[l]

\* A plausible slip in LockOpponent: an offset locks, an attack does not.
LockOpponentOnOffset(l) == [lockOjama EXCEPT ![Opponent(l)] = @ \/ Total(stock[l]) > 0]

\* startAttackEffect locks the ojama of the opponent if the attack goes there.
LockOpponent(l) == [lockOjama EXCEPT ![Opponent(l)] = @ \/ Total(stock[l]) = 0]

\* endErase of the last piece: startAttackEffect.  Posted calls run before (idle).
EndErase(l) ==
    /\ ~isGameOver /\ erasing[l] /\ \A k \in Layer : posted[k] = 0
    /\ erasing' = [erasing EXCEPT ![l] = FALSE]
    /\ effect' = [effect EXCEPT ![l] = TRUE]
    /\ attacking_' = [attacking_ EXCEPT ![l] = TRUE]
    /\ counterAttack_' = [counterAttack_ EXCEPT ![l] = FALSE]
    /\ ojamaCountOnAttack_' = [ojamaCountOnAttack_ EXCEPT ![l] = Total(stock[l])]
    /\ lockOjama' = LockOpponent(l)
    /\ UNCHANGED <<moving, fallers, landers, falling_, landingAnimationCount_,
                   landingAnimationMax_, turns, chain, remainingOjama_, posted, ojamaFalled_,
                   stock, status, isGameOver>>

\* anotherCycle calls startCounterAttackEffect.
StartCounterAttackEffect(l) ==
    /\ ~isGameOver /\ posted[l] > 0
    /\ posted' = [posted EXCEPT ![l] = @ - 1]
    /\ effect' = [effect EXCEPT ![l] = TRUE]
    /\ ojamaCountOnAttack_' = [ojamaCountOnAttack_ EXCEPT ![l] = Total(stock[l])]
    /\ UNCHANGED <<board, chain, attacking_, counterAttack_, remainingOjama_, ojama, status, isGameOver>>

\* What both branches of onAttackEffectEvent, onStopMover, begin with.
EffectStops(l) ==
    /\ ~isGameOver /\ effect[l]
    /\ effect' = [effect EXCEPT ![l] = FALSE]
    /\ attacking_' = [attacking_ EXCEPT ![l] = FALSE]
    /\ UNCHANGED <<landers, landingAnimationCount_, erasing, turns, eraseCount_, ojamaCountOnAttack_>>

\* The attack meets an empty stock and goes to the opponent.
AttackEnds(l) ==
    LET o == Opponent(l)
    IN  /\ EffectStops(l) /\ ~counterAttack_[l] /\ ojamaCountOnAttack_[l] = 0
        /\ AddOjama(o, Power(l), FALSE)
        /\ remainingOjama_' = [remainingOjama_ EXCEPT ![l] = 0]
        /\ UNCHANGED counterAttack_
        /\ FallPieces(l, StockWith(o, Power(l)))

\* The attack offsets the attacker's own ojama; what is left is a counter attack, which
\* starts when the stock's animation has ended.
OffsetEnds(l) ==
    LET s == StockWith(l, -Power(l))
        left == Total(s[l]) - Power(l)
    IN  /\ EffectStops(l) /\ ~counterAttack_[l] /\ ojamaCountOnAttack_[l] > 0
        /\ AddOjama(l, -Power(l), FALSE)
        /\ remainingOjama_' = [remainingOjama_ EXCEPT ![l] = left]
        /\ counterAttack_' = [counterAttack_ EXCEPT ![l] = left < 0]
        /\ \/ ~(left < 0) /\ FallPieces(l, s)
           \/ /\ left < 0
              /\ stock' = s
              /\ UNCHANGED <<moving, fallers, falling_, landingAnimationMax_, chainCount_,
                             lockOjama, ojamaFalled_, isGameOver>>

CounterEnds(l) ==
    LET o == Opponent(l)
    IN  /\ EffectStops(l) /\ counterAttack_[l]
        /\ AddOjama(o, -remainingOjama_[l], TRUE)
        /\ remainingOjama_' = [remainingOjama_ EXCEPT ![l] = 0]
        /\ counterAttack_' = [counterAttack_ EXCEPT ![l] = FALSE]
        /\ FallPieces(l, StockWith(o, -remainingOjama_[l]))

Step(l) ==
    \/ OnStopMover(l)
    \/ EndLanding(l)
    \/ EndErase(l)
    \/ AttackEnds(l)
    \/ OffsetEnds(l)
    \/ StartCounterAttackEffect(l)
    \/ CounterEnds(l)
    \/ FirstHalfEnds(l)
    \/ LatterHalfEnds(l)

Next == \E l \in Layer : DecideBlock(l) \/ Step(l)

Spec == Init /\ [][Next]_vars
\* Animations end and posted calls run; when a player puts a block down is up to him.
FairSpec == Spec /\ \A l \in Layer : WF_vars(Step(l))

----------------------------------------------------------------------------
(* Properties.                                                                     *)

\* The erased pieces wait for a counter attack that has not started.
Waiting(l) == counterAttack_[l] /\ ~effect[l]

Activity(l) == <<moving[l], fallers[l] + landers[l] > 0, erasing[l], effect[l], Waiting(l)>>

\* While the match runs a layer does exactly one thing: the block is moved, or pieces
\* fall and land, or are erased, or an attack flies, or a counter attack is due.  No
\* animation continues a turn that another one has continued already, and erasePieces
\* runs when the last piece has landed and not before (landingAnimationMax_).
OneActivity ==
    ~isGameOver => \A l \in Layer :
        \E i \in 1..5 : Activity(l)[i] /\ \A j \in 1..5 \ {i} : ~Activity(l)[j]

AttackOn(l) ==
    LET o == Opponent(l)
    IN  effect[o] /\ ~counterAttack_[o] /\ ojamaCountOnAttack_[o] = 0

\* The lock ends with the attacker's turn (createNewBlock resets opponent.lockOjama):
\* it never keeps the ojama of a player up while the attacker moves a block.
LockEnds == \A l \in Layer : lockOjama[l] => ~moving[Opponent(l)]

\* No ojama starts to fall on a player whom an attack is flying at
\* (startAttackEffect: the ojama are locked so that they do not fall).
NoDropUnderAttack ==
    [][\A l \in Layer : ~ojamaFalled_[l] /\ ojamaFalled_'[l] => ~AttackOn(l)]_vars

\* The end of the status animation and a new attack both announce a counter attack
\* (onStatusEvent): it is posted once, for a layer that waits for it.
CounterPostedOnce == \A l \in Layer : posted[l] > 0 => posted[l] = 1 /\ Waiting(l)

\* Every block put down is followed by another one or by the end of the match, unless
\* the counter attack that should follow is never announced: the opponent's counter
\* attack has restarted the animation (opponentAdded_).
TurnEndsUnlessMuted ==
    \A l \in Layer :
        ~moving[l] ~> moving[l] \/ isGameOver \/ (Waiting(l) /\ opponentAdded_[l])

\* Every turn ends: pieces fall after a counter attack ("at the end of the counter
\* effect the pieces fall") and after an attack that causes none.
TurnEnds == \A l \in Layer : ~moving[l] ~> moving[l] \/ isGameOver
================================================================================
