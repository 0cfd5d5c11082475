---------------------------- MODULE CascadeProofs ----------------------------
(* What holds of the cascade for every delay, ramp, period and demand.     *)
EXTENDS Cascade, TLAPS

----------------------------------------------------------------------------
(* Stages and strategy.                                                    *)

(* The inductive form: the strategy is one of the three, so that the       *)
(* length of its sequence is known.                                        *)
StagesInv == strategy \in Strategies /\ StagesInSequence

LEMMA SequenceLengths ==
    ASSUME strategy \in Strategies
    PROVE  /\ Len(Sequence) \in 1..3
           /\ DOMAIN Sequence = 1..Len(Sequence)
           /\ \A n \in 1..Len(Sequence) : Sequence[n] \in Boilers
<1>1. CASE strategy = "C1"
  <2>1. Sequence = <<1, 2, 3>>
    BY <1>1 DEF Sequence
  <2> QED BY <2>1 DEF Boilers
<1>2. CASE strategy = "C2"
  <2>1. Sequence = <<2, 3, 1>>
    BY <1>2 DEF Sequence
  <2> QED BY <2>1 DEF Boilers
<1>3. CASE strategy = "C3"
  <2>1. Sequence = <<3>>
    BY <1>3 DEF Sequence
  <2> QED BY <2>1 DEF Boilers
<1> QED BY <1>1, <1>2, <1>3 DEF Strategies

(* One to as many stages as the sequence has boilers, always: a new        *)
(* strategy starts from one stage, and a timer only starts a stage the     *)
(* sequence has (set_active_consigne, evaluate_cascade_stages).            *)
THEOREM StagesStayInSequence == Spec => []StagesInSequence
<1>1. Init => StagesInv
  BY DEF Init, StagesInv, StagesInSequence, Strategies, Sequence
<1>2. StagesInv /\ [Next]_vars => StagesInv'
  <2> SUFFICES ASSUME StagesInv, [Next]_vars PROVE StagesInv'
    OBVIOUS
  <2>1. stages \in 1..Len(Sequence) /\ Len(Sequence) \in 1..3
    BY SequenceLengths DEF StagesInv, StagesInSequence
  <2>2. CASE SomeRound
    <3>1. PICK d \in Periods : Round(d)
      BY <2>2 DEF SomeRound
    <3>2. Sequence' = Sequence /\ strategy' \in Strategies
      BY <3>1 DEF Round, consigne, Sequence, StagesInv
    <3>3. stages' \in {stages, stages + 1, stages - 1}
          /\ (stages' = stages + 1 => stages < Len(Sequence))
          /\ (stages' = stages - 1 => stages > 1)
      BY <2>1, <3>1 DEF Round, Stage, CanStageUp, CanStageDown
    <3> QED BY <2>1, <3>2, <3>3 DEF StagesInv, StagesInSequence
  <2>3. CASE \E s \in Strategies, l \in {0, 1} : Apply(s, l)
    <3>1. PICK s \in Strategies, l \in {0, 1} : Apply(s, l)
      BY <2>3
    <3>2. CASE s = strategy
      BY <2>1, <3>1, <3>2 DEF Apply, staging, StagesInv, StagesInSequence, Sequence
    <3>3. CASE s # strategy
      <4>1. stages' = 1 /\ strategy' = s
        BY <3>1, <3>3 DEF Apply
      <4> QED BY <4>1 DEF StagesInv, StagesInSequence, Sequence, Strategies
    <3> QED BY <3>2, <3>3
  <2>4. CASE \/ \E q \in Demands : PressureMoves(q)
             \/ UNCHANGED vars
    BY <2>4 DEF PressureMoves, vars, consigne, staging, StagesInv,
                StagesInSequence, Sequence
  <2> QED BY <2>2, <2>3, <2>4 DEF Next
<1> QED BY <1>1, <1>2, PTL DEF Spec, StagesInv

----------------------------------------------------------------------------
(* The burner sequence.                                                    *)

(* Where a boiler stands in its start tells how long it purged and ignited *)
(* in it, and it gives power only once both are complete.                  *)
FireInv ==
    \A b \in Boilers :
        /\ timer[b] \in Nat /\ purged[b] \in Nat /\ lit[b] \in Nat
        /\ state[b] \in {"OFF", "PURGING", "IGNITING", "RUNNING", "COOLDOWN"}
        /\ state[b] = "PURGING" => purged[b] = timer[b] /\ purged[b] <= Purge
                                   /\ lit[b] = 0
        /\ state[b] = "IGNITING" => purged[b] = Purge /\ lit[b] = timer[b]
                                    /\ lit[b] <= Ignite
        /\ state[b] = "RUNNING" => purged[b] = Purge /\ lit[b] = Ignite
        /\ load[b] # 0 => /\ state[b] \in {"RUNNING", "COOLDOWN"}
                          /\ purged[b] = Purge /\ lit[b] = Ignite

(* A load means a whole purge and a whole ignition since the last purge    *)
(* began, for all times, ramps and periods (Boiler.update).                *)
THEOREM FireFollowsPurge == Spec => []BurnsOnlyAfterPurge
<1>1. Init => FireInv
  BY TimesAssumption DEF Init, FireInv, Zero
<1>2. FireInv /\ [Next]_vars => FireInv'
  <2> SUFFICES ASSUME FireInv, [Next]_vars PROVE FireInv'
    OBVIOUS
  <2>1. CASE SomeRound
    <3>1. PICK d \in Periods : Round(d)
      BY <2>1 DEF SomeRound
    <3>2. d \in Nat /\ d > 0 /\ Purge \in Nat /\ Ignite \in Nat
      BY TimesAssumption
    <3> SUFFICES ASSUME NEW b \in Boilers PROVE (FireInv!(b))'
      BY DEF FireInv
    <3> DEFINE t == target'[b]
    <3>3. /\ state'[b] = Burn(b, t, d)[1]
          /\ timer'[b] = Burn(b, t, d)[2]
          /\ load'[b] = LoadAfter(b, t, d)
          /\ purged'[b] = IF state[b] # "PURGING" /\ state'[b] = "PURGING" THEN 0
                          ELSE IF state[b] # "PURGING" THEN purged[b]
                          ELSE Lesser(purged[b] + d, Purge)
          /\ lit'[b] = IF state[b] # "PURGING" /\ state'[b] = "PURGING" THEN 0
                       ELSE IF state[b] # "IGNITING" THEN lit[b]
                       ELSE Lesser(lit[b] + d, Ignite)
      BY <3>1 DEF Round, Spent
    <3>4. FireInv!(b)
      BY DEF FireInv
    <3> HIDE DEF t
    <3>5. CASE state[b] = "OFF"
      BY <3>2, <3>3, <3>4, <3>5 DEF Burn, LoadAfter, Lesser
    <3>6. CASE state[b] = "PURGING"
      BY <3>2, <3>3, <3>4, <3>6 DEF Burn, LoadAfter, Lesser, Over, Duration
    <3>7. CASE state[b] = "IGNITING"
      BY <3>2, <3>3, <3>4, <3>7 DEF Burn, LoadAfter, Lesser, Over, Duration
    <3>8. CASE state[b] = "RUNNING"
      BY <3>2, <3>3, <3>4, <3>8 DEF Burn, LoadAfter, Lesser
    <3>9. CASE state[b] = "COOLDOWN"
      BY <3>2, <3>3, <3>4, <3>9 DEF Burn, LoadAfter, Lesser
    <3> QED BY <3>4, <3>5, <3>6, <3>7, <3>8, <3>9
  <2>2. CASE UNCHANGED <<burners, history>>
    BY <2>2 DEF FireInv, burners, history
  <2> QED BY <2>1, <2>2 DEF Next, Apply, PressureMoves, vars
<1>3. FireInv => BurnsOnlyAfterPurge
  BY DEF FireInv, BurnsOnlyAfterPurge
<1> QED BY <1>1, <1>2, <1>3, PTL DEF Spec
----------------------------------------------------------------------------
(* The shares of a round.                                                  *)

LEMMA LimitsWithinPower ==
    ASSUME strategy \in Strategies, limit \in {0, 1}, NEW b \in Boilers
    PROVE  /\ PowerOf(b) \in Nat /\ PowerOf(b) <= BaseLimit(b)
           /\ BaseLimit(b) \in Nat /\ BaseLimit(b) <= Power[b]
           /\ Power[b] \in Nat
           /\ limit # 0 /\ b = Sequence[1] => PowerOf(b) <= limit
<1>1. Power[b] \in Nat
  BY DEF Power
<1>2. BaseLimit(b) \in {0, Power[b]}
  BY DEF BaseLimit
<1>3. PowerOf(b) = IF b = Sequence[1] /\ limit # 0 /\ limit < BaseLimit(b)
                   THEN limit ELSE BaseLimit(b)
  BY DEF PowerOf
<1> QED BY <1>1, <1>2, <1>3

(* What the boilers before a place leave.                                  *)
LEMMA RemainingSteps ==
    /\ Remaining(1) = demand
    /\ Remaining(2) = Remaining(1) - Taken(1, Remaining(1))
    /\ Remaining(3) = Remaining(2) - Taken(2, Remaining(2))
<1> DEFINE body(f, m) == IF m = 1 THEN demand ELSE f[m - 1] - Taken(m - 1, f[m - 1])
           left == CHOOSE f : f = [m \in 1..3 |-> body(f, m)]
           second == demand - Taken(1, demand)
           third == second - Taken(2, second)
           w == [m \in 1..3 |-> IF m = 1 THEN demand
                                 ELSE IF m = 2 THEN second ELSE third]
<1>1. w = [m \in 1..3 |-> body(w, m)]
  OBVIOUS
<1>2. left = [m \in 1..3 |-> body(left, m)]
  BY <1>1
<1>3. Remaining(1) = left[1] /\ Remaining(2) = left[2] /\ Remaining(3) = left[3]
  BY DEF Remaining
<1> HIDE DEF left
<1>4. left = [m \in 1..3 |-> IF m = 1 THEN demand
                             ELSE left[m - 1] - Taken(m - 1, left[m - 1])]
  BY <1>2
<1>5. ASSUME NEW m \in 1..3
      PROVE  left[m] = IF m = 1 THEN demand
                       ELSE left[m - 1] - Taken(m - 1, left[m - 1])
  BY <1>4, Zenon
<1>6. left[1] = demand
  BY <1>5
<1>7. left[2] = left[2 - 1] - Taken(2 - 1, left[2 - 1])
  BY <1>5
<1>8. left[3] = left[3 - 1] - Taken(3 - 1, left[3 - 1])
  BY <1>5
<1>9. left[2] = left[1] - Taken(1, left[1]) /\ left[3] = left[2] - Taken(2, left[2])
  BY <1>7, <1>8
<1> QED BY <1>3, <1>6, <1>9

(* What is left for each place is a natural number.                        *)
LEMMA RemainingIsNat ==
    ASSUME strategy \in Strategies, limit \in {0, 1}, demand \in Nat,
           NEW n \in 1..Len(Sequence)
    PROVE  Remaining(n) \in Nat
<1>1. ASSUME NEW m \in 1..Len(Sequence), NEW x \in Nat
      PROVE  x - Taken(m, x) \in Nat
  BY SequenceLengths, LimitsWithinPower DEF Taken, Lesser
<1>2. n \in 1..3 /\ Len(Sequence) \in 1..3
  BY SequenceLengths
<1>3. Remaining(1) \in Nat
  BY RemainingSteps
<1>4. ASSUME n > 1 PROVE Remaining(2) \in Nat
  <2>1. 1 \in 1..Len(Sequence)
    BY <1>2
  <2>2. Remaining(1) - Taken(1, Remaining(1)) \in Nat
    BY <1>1, <1>3, <2>1
  <2> QED BY <2>2, RemainingSteps
<1>5. ASSUME n > 2 PROVE Remaining(3) \in Nat
  <2>1. 2 \in 1..Len(Sequence) /\ Remaining(2) \in Nat
    BY <1>2, <1>4, <1>5
  <2>2. Remaining(2) - Taken(2, Remaining(2)) \in Nat
    BY <1>1, <2>1
  <2> QED BY <2>2, RemainingSteps
<1> QED BY <1>2, <1>3, <1>4, <1>5

(* No boiler is asked for more than its limit.                             *)
LEMMA SharesWithinLimits ==
    ASSUME strategy \in Strategies, limit \in {0, 1}, demand \in Nat,
           NEW k, NEW b \in Boilers
    PROVE  Shares(k)[b] \in Nat /\ Shares(k)[b] <= PowerOf(b)
<1>1. CASE \E n \in (1..k) \cap DOMAIN Sequence : Sequence[n] = b
  <2>1. PositionOf(b) \in 1..Len(Sequence) /\ Sequence[PositionOf(b)] = b
    BY <1>1, SequenceLengths DEF PositionOf
  <2>2. Shares(k)[b] = Lesser(Remaining(PositionOf(b)), PowerOf(b))
    BY <1>1, <2>1 DEF Shares, Taken
  <2>3. Remaining(PositionOf(b)) \in Nat
    BY <2>1, RemainingIsNat
  <2> QED BY <2>2, <2>3, LimitsWithinPower DEF Lesser
<1>2. CASE ~ \E n \in (1..k) \cap DOMAIN Sequence : Sequence[n] = b
  BY <1>2, LimitsWithinPower DEF Shares
<1> QED BY <1>1, <1>2
(* A sequence names no boiler twice.                                       *)
LEMMA SequencePositions ==
    ASSUME strategy \in Strategies, NEW n \in 1..Len(Sequence)
    PROVE  /\ PositionOf(Sequence[n]) = n
           /\ \A m \in 1..Len(Sequence) : Sequence[m] = Sequence[n] => m = n
<1>1. \A m \in 1..Len(Sequence) : Sequence[m] = Sequence[n] => m = n
  <2>1. CASE strategy = "C1"
    <3>1. Sequence = <<1, 2, 3>>
      BY <2>1 DEF Sequence
    <3> QED BY <3>1
  <2>2. CASE strategy = "C2"
    <3>1. Sequence = <<2, 3, 1>>
      BY <2>2 DEF Sequence
    <3> QED BY <3>1
  <2>3. CASE strategy = "C3"
    <3>1. Sequence = <<3>>
      BY <2>3 DEF Sequence
    <3> QED BY <3>1
  <2> QED BY <2>1, <2>2, <2>3 DEF Strategies
<1>2. DOMAIN Sequence = 1..Len(Sequence)
  BY SequenceLengths
<1> QED BY <1>1, <1>2 DEF PositionOf

(* The share of the boiler at a place.                                     *)
LEMMA SharesByPlace ==
    ASSUME strategy \in Strategies, NEW k \in 1..Len(Sequence),
           NEW n \in 1..Len(Sequence)
    PROVE  Shares(k)[Sequence[n]] =
             IF n <= k THEN Lesser(Remaining(n), PowerOf(Sequence[n])) ELSE 0
<1>1. Sequence[n] \in Boilers /\ DOMAIN Sequence = 1..Len(Sequence)
      /\ Len(Sequence) \in 1..3
  BY SequenceLengths
<1>2. PositionOf(Sequence[n]) = n
  BY SequencePositions
<1>3. (\E m \in (1..k) \cap DOMAIN Sequence : Sequence[m] = Sequence[n]) <=> n <= k
  BY <1>1, SequencePositions
<1> QED BY <1>1, <1>2, <1>3 DEF Shares, Taken

(* The first k boilers share what is asked for, or give all they can; the  *)
(* others are asked for nothing.                                           *)
LEMMA SharesAreExact ==
    ASSUME strategy \in Strategies, limit \in {0, 1}, demand \in Nat,
           NEW k \in 1..Len(Sequence)
    PROVE  LET A == {Sequence[n] : n \in (1..k) \cap DOMAIN Sequence}
           IN  /\ Total(Shares(k), A)
                     = Lesser(demand, Total([b \in Boilers |-> PowerOf(b)], A))
               /\ \A b \in Boilers \ A : Shares(k)[b] = 0
<1> DEFINE A == {Sequence[n] : n \in (1..k) \cap DOMAIN Sequence}
           S == Shares(k)
           P == [b \in Boilers |-> PowerOf(b)]
<1>1. \A b \in Boilers \ A : S[b] = 0
  BY DEF Shares
<1>2. /\ P[1] = PowerOf(1) /\ P[2] = PowerOf(2) /\ P[3] = PowerOf(3)
      /\ P[1] \in Nat /\ P[2] \in Nat /\ P[3] \in Nat
  BY LimitsWithinPower DEF Boilers
<1>3. \A n \in 1..Len(Sequence) :
        S[Sequence[n]] = IF n <= k THEN Lesser(Remaining(n), PowerOf(Sequence[n])) ELSE 0
  BY SharesByPlace
<1>4. /\ Remaining(1) = demand
      /\ Remaining(2) = Remaining(1) - Lesser(Remaining(1), PowerOf(Sequence[1]))
      /\ Remaining(3) = Remaining(2) - Lesser(Remaining(2), PowerOf(Sequence[2]))
  BY RemainingSteps DEF Taken
<1>5. DOMAIN Sequence = 1..Len(Sequence)
  BY SequenceLengths
<1> SUFFICES Total(S, A) = Lesser(demand, Total(P, A))
  BY <1>1
<1> HIDE DEF S, P
<1>6. CASE strategy = "C1"
  <2>1. Sequence = <<1, 2, 3>>
    BY <1>6 DEF Sequence
  <2>2. /\ Len(Sequence) = 3
        /\ Sequence[1] = 1 /\ Sequence[2] = 2 /\ Sequence[3] = 3
    BY <2>1
  <2>3. k \in 1..3 /\ A = {Sequence[n] : n \in 1..k}
    BY <1>5, <2>2
  <2>4. /\ S[1] = Lesser(Remaining(1), P[1])
        /\ S[2] = IF 2 <= k THEN Lesser(Remaining(2), P[2]) ELSE 0
        /\ S[3] = IF 3 <= k THEN Lesser(Remaining(3), P[3]) ELSE 0
    BY <1>2, <1>3, <2>2, <2>3
  <2>5. (1 \in A <=> 1 <= k) /\ (2 \in A <=> 2 <= k) /\ (3 \in A <=> 3 <= k)
    BY <2>2, <2>3
  <2> HIDE DEF A
  <2> QED BY <1>2, <1>4, <2>2, <2>3, <2>4, <2>5 DEF Total, Lesser
<1>7. CASE strategy = "C2"
  <2>1. Sequence = <<2, 3, 1>>
    BY <1>7 DEF Sequence
  <2>2. /\ Len(Sequence) = 3
        /\ Sequence[1] = 2 /\ Sequence[2] = 3 /\ Sequence[3] = 1
    BY <2>1
  <2>3. k \in 1..3 /\ A = {Sequence[n] : n \in 1..k}
    BY <1>5, <2>2
  <2>4. /\ S[2] = Lesser(Remaining(1), P[2])
        /\ S[3] = IF 2 <= k THEN Lesser(Remaining(2), P[3]) ELSE 0
        /\ S[1] = IF 3 <= k THEN Lesser(Remaining(3), P[1]) ELSE 0
    BY <1>2, <1>3, <2>2, <2>3
  <2>5. (2 \in A <=> 1 <= k) /\ (3 \in A <=> 2 <= k) /\ (1 \in A <=> 3 <= k)
    BY <2>2, <2>3
  <2> HIDE DEF A
  <2> QED BY <1>2, <1>4, <2>2, <2>3, <2>4, <2>5 DEF Total, Lesser
<1>8. CASE strategy = "C3"
  <2>1. Sequence = <<3>>
    BY <1>8 DEF Sequence
  <2>2. Len(Sequence) = 1 /\ Sequence[1] = 3
    BY <2>1
  <2>3. k = 1 /\ A = {3}
    BY <1>5, <2>2
  <2>4. S[3] = Lesser(Remaining(1), P[3])
    BY <1>2, <1>3, <2>2, <2>3
  <2> HIDE DEF A
  <2> QED BY <1>2, <1>4, <2>3, <2>4 DEF Total, Lesser
<1> QED BY <1>6, <1>7, <1>8 DEF Strategies

----------------------------------------------------------------------------
(* Types and limits.                                                       *)

LEMMA LoadFollowsTarget ==
    ASSUME NEW x \in Nat, NEW t \in Nat, NEW step \in Nat, NEW y,
           y = IF x < t THEN IF x + step > t THEN t ELSE x + step
               ELSE IF x - step < t THEN t ELSE x - step
    PROVE  y \in Nat /\ (y <= x \/ y <= t)
OBVIOUS

LEMMA RoundLoads ==
    ASSUME TypeOK, NEW d \in Periods, Round(d), NEW b \in Boilers
    PROVE  /\ target'[b] \in Nat /\ target'[b] <= PowerOf(b)
           /\ load'[b] \in Nat
           /\ load'[b] <= load[b] \/ load'[b] <= target'[b]
<1>1. strategy \in Strategies /\ limit \in {0, 1} /\ demand \in Nat
      /\ load[b] \in Nat
  BY DemandsAssumption DEF TypeOK, Power
<1>2. target'[b] = Shares(stages')[b]
  BY DEF Round
<1>3. target'[b] \in Nat /\ target'[b] <= PowerOf(b)
  BY <1>1, <1>2, SharesWithinLimits
<1>4. load'[b] = LoadAfter(b, target'[b], d)
  BY DEF Round
<1> DEFINE t == target'[b]
<1> HIDE DEF t
<1>5. t \in Nat /\ load'[b] = LoadAfter(b, t, d) /\ t = target'[b]
  BY <1>3, <1>4 DEF t
<1>6. Ramp * d \in Nat
  BY TimesAssumption
<1>7. LoadAfter(b, t, d) \in {0, load[b], Ramped(b, t, d)}
  BY DEF LoadAfter
<1>8. Ramped(b, t, d) \in Nat /\ (Ramped(b, t, d) <= load[b] \/ Ramped(b, t, d) <= t)
  <2> DEFINE y == Ramped(b, t, d)
  <2>1. y = IF load[b] < t
            THEN IF load[b] + Ramp * d > t THEN t ELSE load[b] + Ramp * d
            ELSE IF load[b] - Ramp * d < t THEN t ELSE load[b] - Ramp * d
    BY DEF Ramped
  <2> HIDE DEF y
  <2>2. y \in Nat /\ (y <= load[b] \/ y <= t)
    BY <1>1, <1>5, <1>6, <2>1, LoadFollowsTarget
  <2> QED BY <2>2 DEF y
<1> QED BY <1>1, <1>3, <1>5, <1>7, <1>8

LEMMA WithinThree ==
    ASSUME NEW n \in 1..3, NEW k \in 1..n
    PROVE  k \in 1..3
OBVIOUS

(* Every variable keeps its type, and no boiler is ever asked for, or      *)
(* gives, more than its power, for every delay, ramp and period.           *)
THEOREM TypeCorrect == Spec => []TypeOK
<1>1. Init => TypeOK
  BY TimesAssumption, DemandsAssumption
  DEF Init, TypeOK, Zero, Strategies, Power, Boilers
<1>2. TypeOK /\ StagesInSequence' /\ [Next]_vars => TypeOK'
  <2> SUFFICES ASSUME TypeOK, StagesInSequence', [Next]_vars PROVE TypeOK'
    OBVIOUS
  <2>1. CASE SomeRound
    <3>1. PICK d \in Periods : Round(d)
      BY <2>1 DEF SomeRound
    <3>2. strategy' \in Strategies /\ limit' \in {0, 1} /\ demand' \in Demands
      BY <3>1 DEF Round, consigne, TypeOK
    <3>3. stages' \in 1..3
      <4>1. Len(Sequence) \in 1..3
        BY SequenceLengths DEF TypeOK
      <4>2. Sequence' = Sequence
        BY <3>1 DEF Round, consigne, Sequence
      <4>3. stages' \in 1..Len(Sequence)
        BY <4>2 DEF StagesInSequence
      <4> QED BY <4>1, <4>3, WithinThree
    <3>4. high' \in 0..Delay /\ low' \in 0..Delay
      BY <3>1, TimesAssumption DEF Round, Stage, TypeOK
    <3>5. \A b \in Boilers : load'[b] \in 0..Power[b] /\ target'[b] \in 0..Power[b]
      <4> TAKE b \in Boilers
      <4>1. /\ target'[b] \in Nat /\ target'[b] <= PowerOf(b)
            /\ load'[b] \in Nat
            /\ load'[b] <= load[b] \/ load'[b] <= target'[b]
        BY <3>1, RoundLoads
      <4>2. /\ PowerOf(b) \in Nat /\ PowerOf(b) <= BaseLimit(b)
            /\ BaseLimit(b) \in Nat /\ BaseLimit(b) <= Power[b]
            /\ Power[b] \in Nat
        BY LimitsWithinPower DEF TypeOK
      <4>3. load[b] \in 0..Power[b]
        BY DEF TypeOK
      <4> QED BY <4>1, <4>2, <4>3
    <3>6. \A b \in Boilers : \A t :
            /\ Burn(b, t, d)[1] \in {"OFF", "PURGING", "IGNITING", "RUNNING", "COOLDOWN"}
            /\ Burn(b, t, d)[2] \in Nat
      <4> TAKE b \in Boilers
      <4> TAKE t
      <4>1. state[b] \in {"OFF", "PURGING", "IGNITING", "RUNNING", "COOLDOWN"}
            /\ timer[b] \in Nat /\ timer[b] + d \in Nat
        BY TimesAssumption DEF TypeOK
      <4> QED BY <4>1 DEF Burn
    <3>7. /\ state' \in [Boilers -> {"OFF", "PURGING", "IGNITING", "RUNNING", "COOLDOWN"}]
          /\ timer' \in [Boilers -> Nat]
      BY <3>1, <3>6 DEF Round
    <3>8. purged' \in [Boilers -> 0..Purge] /\ lit' \in [Boilers -> 0..Ignite]
      BY <3>1, TimesAssumption DEF Round, Spent, Lesser, TypeOK
    <3> QED BY <3>2, <3>3, <3>4, <3>5, <3>7, <3>8 DEF TypeOK
  <2>2. CASE \E s \in Strategies, l \in {0, 1} : Apply(s, l)
    BY <2>2, TimesAssumption DEF Apply, TypeOK, staging, burners, history
  <2>3. CASE \E q \in Demands : PressureMoves(q)
    BY <2>3 DEF PressureMoves, TypeOK, consigne, staging, burners, history
  <2>4. CASE UNCHANGED vars
    BY <2>4 DEF vars, TypeOK, consigne, staging, burners, history
  <2> QED BY <2>1, <2>2, <2>3, <2>4 DEF Next
<1> QED BY <1>1, <1>2, StagesStayInSequence, PTL DEF Spec

(* No load rises past the limit of the order in force, whatever load the   *)
(* boiler had when the order came (get_sequence_and_limits, update).       *)
THEOREM LimitsHoldTheRamp == Spec => NeverRampsOverLimit
<1> DEFINE Within(b) ==
      load'[b] > load[b] =>
          /\ load'[b] <= BaseLimit(b)'
          /\ limit' # 0 /\ b = Sequence'[1] => load'[b] <= limit'
<1>1. TypeOK /\ [Next]_vars => [\A b \in Boilers : Within(b)]_vars
  <2> SUFFICES ASSUME TypeOK, Next, NEW b \in Boilers, load'[b] > load[b]
               PROVE  /\ load'[b] <= BaseLimit(b)'
                      /\ limit' # 0 /\ b = Sequence'[1] => load'[b] <= limit'
    OBVIOUS
  <2>1. load[b] \in Nat /\ strategy \in Strategies /\ limit \in {0, 1}
    BY DEF TypeOK, Power
  <2>2. ~ UNCHANGED load
    BY <2>1
  <2>3. PICK d \in Periods : Round(d)
    BY <2>2 DEF Next, SomeRound, Apply, PressureMoves, burners
  <2>4. /\ target'[b] \in Nat /\ target'[b] <= PowerOf(b)
        /\ load'[b] \in Nat
        /\ load'[b] <= load[b] \/ load'[b] <= target'[b]
    BY <2>3, RoundLoads
  <2>5. /\ PowerOf(b) \in Nat /\ PowerOf(b) <= BaseLimit(b)
        /\ BaseLimit(b) \in Nat
        /\ limit # 0 /\ b = Sequence[1] => PowerOf(b) <= limit
    BY <2>1, LimitsWithinPower
  <2>6. strategy' = strategy /\ limit' = limit
    BY <2>3 DEF Round, consigne
  <2>7. BaseLimit(b)' = BaseLimit(b) /\ Sequence' = Sequence
    BY <2>6 DEF BaseLimit, Sequence
  <2> QED BY <2>1, <2>4, <2>5, <2>6, <2>7
<1> QED BY <1>1, TypeCorrect, PTL DEF Spec, NeverRampsOverLimit

(* After every round the targets of the active stages add up to the power  *)
(* asked for, or to all those stages may give, and no other boiler has a   *)
(* target, for every demand and whatever stage has just come or gone       *)
(* (update).                                                               *)
THEOREM SharesMatchDemand == Spec => RoundsShareExactly
<1>1. TypeOK /\ StagesInSequence' /\ [Next]_vars =>
        [UNCHANGED <<consigne, demand>> => ShareIsExact']_vars
  <2> SUFFICES ASSUME TypeOK, StagesInSequence', Next, vars' # vars,
                      UNCHANGED <<consigne, demand>>
               PROVE  ShareIsExact'
    OBVIOUS
  <2>1. strategy \in Strategies /\ limit \in {0, 1} /\ demand \in Nat
    BY DemandsAssumption DEF TypeOK
  <2>2. PICK d \in Periods : Round(d)
    BY DEF Next, SomeRound, Apply, PressureMoves, consigne, vars
  <2>3. strategy' = strategy /\ limit' = limit /\ demand' = demand
    BY DEF consigne
  <2>4. Sequence' = Sequence
    BY <2>3 DEF Sequence
  <2>5. \A b : PowerOf(b)' = PowerOf(b)
    BY <2>3, <2>4 DEF PowerOf, BaseLimit
  <2>6. stages' \in 1..Len(Sequence)
    BY <2>4 DEF StagesInSequence
  <2>7. target' = Shares(stages')
    BY <2>2 DEF Round
  <2> DEFINE A == {Sequence[n] : n \in (1..stages') \cap DOMAIN Sequence}
  <2>8. Active' = A
    BY <2>4 DEF Active
  <2>9. /\ Total(Shares(stages'), A)
             = Lesser(demand, Total([b \in Boilers |-> PowerOf(b)], A))
        /\ \A b \in Boilers \ A : Shares(stages')[b] = 0
    BY <2>1, <2>6, SharesAreExact
  <2>10. [b \in Boilers |-> PowerOf(b)]' = [b \in Boilers |-> PowerOf(b)]
    BY <2>5
  <2> QED BY <2>3, <2>7, <2>8, <2>9, <2>10 DEF ShareIsExact, Total, Lesser
<1> QED BY <1>1, TypeCorrect, StagesStayInSequence, PTL DEF Spec, RoundsShareExactly
=============================================================================
