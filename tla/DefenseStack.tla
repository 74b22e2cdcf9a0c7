---------------------------- MODULE DefenseStack ----------------------------
(***************************************************************************)
(* The risk level of one market (risk/defense_stack.py).  evaluate is      *)
(* called once per quote cycle with the inventory skew, the session P&L    *)
(* and whether the market is active; the level rises at once and falls     *)
(* only after a cooldown.  Skews and their thresholds are in percent.      *)
(***************************************************************************)
EXTENDS Integers, Sequences

CONSTANTS
    Skews, Pnls,      \* the inputs a cycle may see
    SkewWiden, SkewOneSide, SkewKill,   \* inventory_skew_*
    MaxLoss,          \* max_per_market_loss_cents
    CooldownCycles    \* defense_cooldown_cycles

ASSUME InputsAssumption == Skews \subseteq Int /\ Pnls \subseteq Int
ASSUME ThresholdsAssumption ==
    SkewWiden \in Int /\ SkewOneSide \in Int /\ SkewKill \in Int
ASSUME MaxLossAssumption == MaxLoss \in Int
ASSUME CooldownAssumption == CooldownCycles \in Nat

Levels == {"NORMAL", "WIDEN", "ONE_SIDE", "KILL_SWITCH"}

Severity == [NORMAL |-> 0, WIDEN |-> 1, ONE_SIDE |-> 2, KILL_SWITCH |-> 3]

VARIABLES
    level,     \* current_level
    cooldown,  \* _cooldown_counter
    targets    \* history: the targets of the last evaluations, newest last

vars == <<level, cooldown, targets>>

\* At least as many evaluations as the cooldown looks at.
Window == CooldownCycles + 1

Remember(history, target) ==
    LET longer == Append(history, target)
    IN  IF Len(longer) > Window THEN Tail(longer) ELSE longer

Abs(n) == IF n < 0 THEN -n ELSE n

-----------------------------------------------------------------------------
\* Mutation: the loss limit is compared with the wrong sign.
DetermineTargetByGain(skew, pnl, active) ==
    IF ~active \/ Abs(skew) >= SkewKill \/ pnl >= MaxLoss THEN "KILL_SWITCH"
    ELSE IF Abs(skew) >= SkewOneSide \/ pnl <= -(MaxLoss \div 2) THEN "ONE_SIDE"
    ELSE IF Abs(skew) >= SkewWiden THEN "WIDEN" ELSE "NORMAL"

DetermineTarget(skew, pnl, active) ==
    IF ~active \/ Abs(skew) >= SkewKill \/ pnl <= -MaxLoss THEN "KILL_SWITCH"
    ELSE IF Abs(skew) >= SkewOneSide \/ pnl <= -(MaxLoss \div 2) THEN "ONE_SIDE"
    ELSE IF Abs(skew) >= SkewWiden THEN "WIDEN" ELSE "NORMAL"

Init ==
    /\ level = "NORMAL"
    /\ cooldown = 0
    /\ targets = <<>>

Escalate(target) ==
    /\ Severity[target] > Severity[level]
    /\ level' = target
    /\ cooldown' = 0
    /\ targets' = Remember(targets, target)

\* Mutation: the counter survives the drop to a lower level.
CoolDownKeepsCounter(target) ==
    /\ Severity[target] < Severity[level]
    /\ cooldown' = cooldown + 1
    /\ level' = IF cooldown + 1 >= CooldownCycles THEN target ELSE level
    /\ targets' = Remember(targets, target)

\* Mutation: a drop always goes to NORMAL.
CoolDownToNormal(target) ==
    /\ Severity[target] < Severity[level]
    /\ IF cooldown + 1 >= CooldownCycles
       THEN level' = "NORMAL" /\ cooldown' = 0
       ELSE level' = level /\ cooldown' = cooldown + 1
    /\ targets' = Remember(targets, target)

\* Mutation: a counter that has reached the cooldown is reset too early.
CoolDownNeverEnds(target) ==
    /\ Severity[target] < Severity[level]
    /\ cooldown' = IF cooldown + 1 >= CooldownCycles THEN 0 ELSE cooldown + 1
    /\ level' = IF cooldown >= CooldownCycles THEN target ELSE level
    /\ targets' = Remember(targets, target)

CoolDown(target) ==
    /\ Severity[target] < Severity[level]
    /\ IF cooldown + 1 >= CooldownCycles
       THEN level' = target /\ cooldown' = 0
       ELSE level' = level /\ cooldown' = cooldown + 1
    /\ targets' = Remember(targets, target)

\* Mutation: a return of the threat does not restart the cooldown.
StayWithoutReset(target) ==
    /\ Severity[target] = Severity[level]
    /\ targets' = Remember(targets, target)
    /\ UNCHANGED <<level, cooldown>>

Stay(target) ==
    /\ Severity[target] = Severity[level]
    /\ cooldown' = 0
    /\ targets' = Remember(targets, target)
    /\ UNCHANGED level

Evaluate(skew, pnl, active) ==
    LET target == DetermineTarget(skew, pnl, active)
    IN  Escalate(target) \/ CoolDown(target) \/ Stay(target)

Next == \E skew \in Skews, pnl \in Pnls, active \in BOOLEAN :
            Evaluate(skew, pnl, active)

\* run_market evaluates the risk in every cycle.
Spec == Init /\ [][Next]_vars /\ WF_vars(Next)

-----------------------------------------------------------------------------
TypeOK ==
    /\ level \in Levels
    /\ cooldown \in 0 .. CooldownCycles
    /\ targets \in Seq(Levels)

Newest == targets[Len(targets)]

\* The level is never milder than what the last cycle's inputs call for: a
\* drop goes to the target of the cycle that ends the cooldown, not to one of
\* an earlier cycle, and never below it.
NeverUnderreacts ==
    targets # <<>> => Severity[level] >= Severity[Newest]

\* The level falls only when each of the last CooldownCycles evaluations saw
\* a target below the level it falls from: one cycle in which the threat is
\* back restarts the wait (defense_stack.py:48).
CooldownRespected ==
    [][Severity[level'] < Severity[level] =>
          /\ Len(targets') >= CooldownCycles
          /\ \A i \in 0 .. CooldownCycles - 1 :
                Severity[targets'[Len(targets') - i]] < Severity[level]]_vars

\* A market that stays calm comes back to two-sided quoting by itself.
CalmsDown ==
    []<>(targets # <<>> /\ Severity[Newest] > 0) \/ <>[](level = "NORMAL")

\* A worse input is never the safer one, whatever the configured thresholds
\* and their order: with more skew, a greater loss or a market that has
\* stopped the level rises at least as far as it would have without, and it
\* may cool down only where it would have cooled down without.
WorseInputsNeverCalm ==
    \A s, t \in Skews, p, q \in Pnls, a, b \in BOOLEAN :
        (Abs(s) <= Abs(t) /\ p >= q /\ (b => a)) =>
            LET mild  == Severity[DetermineTarget(s, p, a)]
                worse == Severity[DetermineTarget(t, q, b)]
            IN  /\ mild > Severity[level] => worse >= mild
                /\ worse < Severity[level] => mild < Severity[level]
=============================================================================
