------------------------ MODULE DefenseStack_proofs ------------------------
(* Theorems about DefenseStack, for every input set, threshold and cooldown. *)
EXTENDS DefenseStack, SequenceTheorems, TLAPS

(***************************************************************************)
(* The inductive invariant: the counter never runs ahead of the history,   *)
(* and the evaluations it has counted all saw a target below the level.    *)
(***************************************************************************)
CalmStreak ==
    /\ Len(targets) <= Window
    /\ cooldown <= Len(targets)
    /\ \A i \in 0 .. cooldown - 1 :
            Severity[targets[Len(targets) - i]] < Severity[level]

IInv == TypeOK /\ CalmStreak /\ NeverUnderreacts

\* Remember appends the newest target and forgets at most the oldest one.
LEMMA RememberShifts ==
    ASSUME NEW s \in Seq(Levels), NEW x \in Levels, Len(s) <= Window
    PROVE  LET r == Remember(s, x)
           IN  /\ r \in Seq(Levels)
               /\ Len(r) <= Window
               /\ Len(r) = Len(s) + 1 \/ (Len(r) = Window /\ Len(s) = Window)
               /\ r # <<>>
               /\ r[Len(r)] = x
               /\ \A i \in 1 .. Len(r) - 1 : r[Len(r) - i] = s[Len(s) - (i - 1)]
<1> DEFINE longer == Append(s, x)
<1>1. /\ longer \in Seq(Levels)
      /\ Len(longer) = Len(s) + 1
      /\ longer[Len(s) + 1] = x
      /\ \A j \in 1 .. Len(s) : longer[j] = s[j]
  BY AppendProperties
<1>2. Len(s) \in Nat /\ Window \in Nat /\ Window >= 1
  BY LenProperties, CooldownAssumption DEF Window
<1>3. CASE Len(longer) > Window
  <2>1. Len(s) = Window
    BY <1>1, <1>2, <1>3
  <2>2. Remember(s, x) = Tail(longer)
    BY <1>3 DEF Remember
  <2>3. /\ Tail(longer) \in Seq(Levels)
        /\ Len(Tail(longer)) = Len(s)
        /\ \A j \in 1 .. Len(s) : Tail(longer)[j] = longer[j + 1]
    BY <1>1, <1>2
  <2> HIDE DEF longer
  <2>4. \A i \in 1 .. Len(s) - 1 :
            Tail(longer)[Len(s) - i] = s[Len(s) - (i - 1)]
    <3> TAKE i \in 1 .. Len(s) - 1
    <3>1. Len(s) - i \in 1 .. Len(s) /\ Len(s) - i + 1 \in 1 .. Len(s)
      BY <1>2
    <3>2. Len(s) - i + 1 = Len(s) - (i - 1)
      BY <1>2
    <3> QED BY <3>1, <3>2, <2>3, <1>1
  <2>5. Tail(longer)[Len(s)] = x
    BY <2>1, <2>3, <1>1, <1>2
  <2>6. Tail(longer) # <<>>
    <3>1. Len(Tail(longer)) >= 1
      BY <2>1, <2>3, <1>2
    <3> QED BY <3>1, <2>3, EmptySeq
  <2> QED BY <2>1, <2>2, <2>3, <2>4, <2>5, <2>6
<1>4. CASE ~(Len(longer) > Window)
  <2>1. Remember(s, x) = longer
    BY <1>4 DEF Remember
  <2>2. longer # <<>>
    BY <1>1, <1>2
  <2> HIDE DEF longer
  <2>3. \A i \in 1 .. Len(longer) - 1 : longer[Len(longer) - i] = s[Len(s) - (i - 1)]
    <3> TAKE i \in 1 .. Len(longer) - 1
    <3>1. Len(longer) - i = Len(s) - (i - 1) /\ Len(longer) - i \in 1 .. Len(s)
      BY <1>1, <1>2
    <3> QED BY <3>1, <1>1
  <2> QED BY <2>1, <2>2, <2>3, <1>1, <1>2, <1>4
<1> QED BY <1>3, <1>4

LEMMA TargetIsALevel ==
    ASSUME NEW skew, NEW pnl, NEW active
    PROVE  DetermineTarget(skew, pnl, active) \in Levels
BY DEF DetermineTarget, Levels

LEMMA SeverityIsNat == \A l \in Levels : Severity[l] \in 0 .. 3
BY DEF Severity, Levels

\* Every step keeps the invariant, and a step down follows a calm streak.
LEMMA EvaluateStep ==
    ASSUME IInv, NEW target \in Levels,
           Escalate(target) \/ CoolDown(target) \/ Stay(target)
    PROVE  /\ IInv'
           /\ Severity[level'] < Severity[level] =>
                /\ Len(targets') >= CooldownCycles
                /\ \A i \in 0 .. CooldownCycles - 1 :
                    Severity[targets'[Len(targets') - i]] < Severity[level]
<1> USE CooldownAssumption
<1>1. targets' = Remember(targets, target)
  BY DEF Escalate, CoolDown, Stay
<1>2. level \in Levels /\ targets \in Seq(Levels) /\ cooldown \in 0 .. CooldownCycles
  BY DEF IInv, TypeOK
<1>3. level' \in Levels
  BY <1>2 DEF Escalate, CoolDown, Stay
<1>4. Severity[level] \in 0 .. 3 /\ Severity[level'] \in 0 .. 3 /\ Severity[target] \in 0 .. 3
  BY <1>2, <1>3, SeverityIsNat
<1> DEFINE n == Len(targets)
           m == Len(targets')
<1>5. /\ targets' \in Seq(Levels)
      /\ m <= Window
      /\ m = n + 1 \/ (m = Window /\ n = Window)
      /\ targets' # <<>>
      /\ targets'[m] = target
      /\ \A i \in 1 .. m - 1 : targets'[m - i] = targets[n - (i - 1)]
  BY <1>1, <1>2, RememberShifts, Zenon DEF IInv, CalmStreak
<1>6. n \in Nat /\ m \in Nat /\ n <= Window /\ Window = CooldownCycles + 1 /\ cooldown <= n
  BY <1>2, <1>5, LenProperties DEF IInv, CalmStreak, Window
<1> HIDE DEF n, m
\* The evaluations counted so far, seen from the new history.
<1>7. ASSUME Severity[target] < Severity[level], cooldown + 1 <= CooldownCycles
      PROVE  /\ m >= cooldown + 1
             /\ \A i \in 0 .. cooldown :
                    Severity[targets'[m - i]] < Severity[level]
  <2>1. m >= cooldown + 1
    BY <1>2, <1>5, <1>6, <1>7
  <2>2. ASSUME NEW i \in 0 .. cooldown
        PROVE  Severity[targets'[m - i]] < Severity[level]
    <3>1. CASE i = 0
      BY <3>1, <1>5, <1>6, <1>7
    <3>2. CASE i # 0
      <4>1. i \in 1 .. m - 1 /\ i - 1 \in 0 .. cooldown - 1
        BY <3>2, <2>1, <1>2, <1>6
      <4>2. targets'[m - i] = targets[n - (i - 1)]
        BY <4>1, <1>5
      <4>3. Severity[targets[n - (i - 1)]] < Severity[level]
        BY <4>1 DEF IInv, CalmStreak, n
      <4> QED BY <4>2, <4>3
    <3> QED BY <3>1, <3>2
  <2> QED BY <2>1, <2>2
<1>8. CASE cooldown' = 0 /\ Severity[level'] >= Severity[target]
           /\ ~ (Severity[level'] < Severity[level])
  <2>1. TypeOK'
    BY <1>3, <1>5, <1>8 DEF TypeOK
  <2>2. CalmStreak'
    BY <1>5, <1>6, <1>8 DEF CalmStreak, m, Window
  <2>3. NeverUnderreacts'
    BY <1>5, <1>8 DEF NeverUnderreacts, Newest, m
  <2> QED BY <2>1, <2>2, <2>3, <1>8 DEF IInv
<1>9. CASE Escalate(target)
  BY <1>8, <1>9, <1>4 DEF Escalate
<1>10. CASE Stay(target)
  BY <1>8, <1>10, <1>4 DEF Stay
<1>11. CASE CoolDown(target) /\ cooldown + 1 >= CooldownCycles
  <2>1. level' = target /\ cooldown' = 0 /\ Severity[target] < Severity[level]
    BY <1>11 DEF CoolDown
  <2>2. TypeOK' /\ NeverUnderreacts'
    BY <2>1, <1>4, <1>5, <1>3 DEF TypeOK, NeverUnderreacts, Newest, m
  <2>3. CalmStreak'
    BY <1>5, <1>6, <2>1 DEF CalmStreak, m, Window
  <2>4. m >= CooldownCycles /\ \A i \in 0 .. CooldownCycles - 1 :
            Severity[targets'[m - i]] < Severity[level]
    <3>1. CASE cooldown + 1 = CooldownCycles
      BY <3>1, <1>2, <1>7, <2>1
    <3>2. CASE cooldown = CooldownCycles
      <4>1. m >= CooldownCycles
        BY <3>2, <1>5, <1>6
      <4>2. ASSUME NEW i \in 0 .. CooldownCycles - 1
            PROVE  Severity[targets'[m - i]] < Severity[level]
        <5>1. CASE i = 0
          BY <5>1, <1>5, <1>6, <2>1
        <5>2. CASE i # 0
          <6>1. i \in 1 .. m - 1 /\ i - 1 \in 0 .. cooldown - 1
            BY <5>2, <4>1, <3>2, <1>6
          <6>2. Severity[targets[n - (i - 1)]] < Severity[level]
            BY <6>1 DEF IInv, CalmStreak, n
          <6> QED BY <6>1, <6>2, <1>5
        <5> QED BY <5>1, <5>2
      <4> QED BY <4>1, <4>2
    <3> QED BY <3>1, <3>2, <1>2, <1>11
  <2> QED BY <2>2, <2>3, <2>4 DEF IInv, m
<1>12. CASE CoolDown(target) /\ ~(cooldown + 1 >= CooldownCycles)
  <2>1. /\ level' = level /\ cooldown' = cooldown + 1
        /\ Severity[target] < Severity[level]
    BY <1>12 DEF CoolDown
  <2>2. cooldown + 1 <= CooldownCycles
    BY <1>12, <1>2
  <2>3. TypeOK' /\ NeverUnderreacts'
    BY <2>1, <2>2, <1>2, <1>4, <1>5, <1>3 DEF TypeOK, NeverUnderreacts, Newest, m
  <2>4. CalmStreak'
    <3>1. /\ m >= cooldown'
          /\ \A i \in 0 .. cooldown' - 1 :
                Severity[targets'[m - i]] < Severity[level']
      BY <2>1, <2>2, <1>2, <1>7
    <3> QED BY <3>1, <1>5 DEF CalmStreak, m, Window
  <2> QED BY <2>1, <2>3, <2>4, <1>4 DEF IInv
<1> QED BY <1>9, <1>10, <1>11, <1>12

LEMMA StutterStep == IInv /\ UNCHANGED vars => IInv'
BY DEF IInv, TypeOK, CalmStreak, NeverUnderreacts, Newest, Window, vars

LEMMA InitStep == Init => IInv
<1> SUFFICES ASSUME Init PROVE IInv
  OBVIOUS
<1>1. TypeOK /\ NeverUnderreacts
  BY CooldownAssumption DEF Init, TypeOK, NeverUnderreacts, Levels
<1>2. CalmStreak
  BY CooldownAssumption DEF Init, CalmStreak, Window
<1> QED BY <1>1, <1>2 DEF IInv

LEMMA NextStep ==
    ASSUME IInv, Next
    PROVE  /\ IInv'
           /\ Severity[level'] < Severity[level] =>
                /\ Len(targets') >= CooldownCycles
                /\ \A i \in 0 .. CooldownCycles - 1 :
                    Severity[targets'[Len(targets') - i]] < Severity[level]
<1>1. PICK skew \in Skews, pnl \in Pnls, active \in BOOLEAN :
            Evaluate(skew, pnl, active)
  BY DEF Next
<1> DEFINE target == DetermineTarget(skew, pnl, active)
<1>2. target \in Levels
  BY TargetIsALevel
<1>3. Escalate(target) \/ CoolDown(target) \/ Stay(target)
  BY <1>1 DEF Evaluate
<1> HIDE DEF target
<1> QED BY <1>2, <1>3, EvaluateStep

\* The invariant: the counter counts what the history shows.
THEOREM Invariance == Spec => []IInv
<1>1. IInv /\ [Next]_vars => IInv'
  BY NextStep, StutterStep
<1> QED BY InitStep, <1>1, PTL DEF Spec

\* Types, for every input: the counter never passes the configured cooldown.
THEOREM TypeCorrect == Spec => []TypeOK
<1>1. IInv => TypeOK
  BY DEF IInv
<1> QED BY <1>1, Invariance, PTL

\* The level is at least as severe as the last cycle's inputs call for.
THEOREM NeverMilderThanTheTarget == Spec => []NeverUnderreacts
<1>1. IInv => NeverUnderreacts
  BY DEF IInv
<1> QED BY <1>1, Invariance, PTL

\* The level falls only after CooldownCycles evaluations in a row that saw a
\* target below it, for every cooldown, 0 included.
THEOREM FallsOnlyAfterTheCooldown == Spec => CooldownRespected
<1>1. ASSUME IInv, [Next]_vars
      PROVE  [Severity[level'] < Severity[level] =>
                /\ Len(targets') >= CooldownCycles
                /\ \A i \in 0 .. CooldownCycles - 1 :
                    Severity[targets'[Len(targets') - i]]
                        < Severity[level]]_vars
  BY <1>1, NextStep
<1> QED BY <1>1, Invariance, PTL DEF Spec, CooldownRespected

\* More skew, a greater loss or a stopped market never lower the target,
\* whatever the thresholds are and however they are ordered.
LEMMA TargetIsMonotone ==
    ASSUME NEW s \in Skews, NEW t \in Skews, NEW p \in Pnls, NEW q \in Pnls,
           NEW a \in BOOLEAN, NEW b \in BOOLEAN,
           Abs(s) <= Abs(t), p >= q, b => a
    PROVE  Severity[DetermineTarget(s, p, a)]
               <= Severity[DetermineTarget(t, q, b)]
<1>1. s \in Int /\ t \in Int /\ p \in Int /\ q \in Int
  BY InputsAssumption
<1>2. Abs(s) \in Int /\ Abs(t) \in Int /\ MaxLoss \in Int /\ -(MaxLoss \div 2) \in Int
  BY <1>1, MaxLossAssumption DEF Abs
<1> DEFINE half == -(MaxLoss \div 2)
<1> HIDE DEF half
<1> QED
  BY <1>1, <1>2, ThresholdsAssumption, MaxLossAssumption
  DEF DetermineTarget, Severity, half

\* At every level the machine can be at, worse inputs alarm at least as much
\* and calm at most as much (defense_stack.py:53).
THEOREM WorseIsNeverSafer == Spec => []WorseInputsNeverCalm
<1>1. IInv => WorseInputsNeverCalm
  <2> SUFFICES ASSUME IInv,
                      NEW s \in Skews, NEW t \in Skews,
                      NEW p \in Pnls, NEW q \in Pnls,
                      NEW a \in BOOLEAN, NEW b \in BOOLEAN,
                      Abs(s) <= Abs(t), p >= q, b => a
               PROVE  LET mild  == Severity[DetermineTarget(s, p, a)]
                          worse == Severity[DetermineTarget(t, q, b)]
                      IN  /\ mild > Severity[level] => worse >= mild
                          /\ worse < Severity[level] => mild < Severity[level]
    BY DEF WorseInputsNeverCalm
  <2>1. Severity[DetermineTarget(s, p, a)]
            <= Severity[DetermineTarget(t, q, b)]
    BY TargetIsMonotone
  <2>2. DetermineTarget(s, p, a) \in Levels /\ DetermineTarget(t, q, b) \in Levels
    BY DEF DetermineTarget, Levels
  <2>3. level \in Levels
    BY DEF IInv, TypeOK
  <2>4. \A l \in Levels : Severity[l] \in 0 .. 3
    BY DEF Severity, Levels
  <2> QED BY <2>1, <2>2, <2>3, <2>4
<1> QED BY <1>1, Invariance, PTL
=============================================================================
