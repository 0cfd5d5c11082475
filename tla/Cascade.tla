------------------------------- MODULE Cascade -------------------------------
(***************************************************************************)
(* The boiler cascade of the PLC simulator (CascadeController,             *)
(* cascade_logic.py) and its three boilers (Boiler, boiler_model.py).  One *)
(* thread applies the orders that are due, shares the power the pressure   *)
(* asks for among the active stages and moves each burner, so that a call  *)
(* of it is one step.                                                      *)
(*                                                                         *)
(* Power counts in blocks of 50 kW, the largest limit an order may carry.  *)
(* So do the loads and targets, which the code keeps in percents of the    *)
(* power of the boiler: no rounding lies between the two.  Time counts in  *)
(* the unit of the constants.  Boilers are never in FAULT: nothing in the  *)
(* program calls trigger_fault.                                            *)
(***************************************************************************)
EXTENDS Integers, Sequences, FiniteSets

CONSTANTS
    Delay,                      \* CASCADE_DELAY_SEC
    Purge, Ignite, Cooldown,    \* PURGE_TIME, IGNITE_TIME, COOLDOWN_TIME
    Ramp,                       \* ramp_rate: 5 % of 400 kW, 2 % of 1000 kW
    Periods,                    \* dt, what may elapse between two rounds
    Demands                     \* what the pressure may ask for

Boilers    == 1..3
Strategies == {"C1", "C2", "C3"}
Power      == [b \in Boilers |-> IF b = 1 THEN 8 ELSE 20]

ASSUME TimesAssumption ==
    /\ Delay \in Nat /\ Purge \in Nat /\ Ignite \in Nat /\ Cooldown \in Nat
    /\ Periods \subseteq Nat \ {0}
    /\ Ramp \in Nat \ {0}

ASSUME DemandsAssumption == 0 \in Demands /\ Demands \subseteq Nat

VARIABLES
    strategy, limit,    \* active_strategy; dynamic_power_limit_kw, 0 = None
    stages,             \* active_stages
    high, low,          \* high_load_timer, low_load_timer
    demand,             \* total_required_kw: max(0, error * kp)
    state, load, target, timer,     \* of each boiler
    purged, lit         \* history: how long each boiler purged and ignited
                        \* since its last purge began, up to the full time

consigne == <<strategy, limit>>
staging  == <<stages, high, low>>
burners  == <<state, load, target, timer>>
history  == <<purged, lit>>
vars     == <<consigne, staging, demand, burners, history>>

TypeOK ==
    /\ strategy \in Strategies /\ limit \in {0, 1}
    /\ stages \in 1..3
    /\ high \in 0..Delay /\ low \in 0..Delay
    /\ demand \in Demands
    /\ state \in [Boilers -> {"OFF", "PURGING", "IGNITING", "RUNNING", "COOLDOWN"}]
    /\ \A b \in Boilers : load[b] \in 0..Power[b] /\ target[b] \in 0..Power[b]
    /\ timer \in [Boilers -> Nat]
    /\ purged \in [Boilers -> 0..Purge] /\ lit \in [Boilers -> 0..Ignite]

Lesser(x, y) == IF x < y THEN x ELSE y

Zero == [b \in Boilers |-> 0]

Init ==
    /\ strategy = "C1" /\ limit = 0
    /\ stages = 1 /\ high = 0 /\ low = 0
    /\ demand = 0
    /\ state = [b \in Boilers |-> "OFF"]
    /\ load = Zero /\ target = Zero /\ timer = Zero
    /\ purged = Zero /\ lit = Zero

----------------------------------------------------------------------------
(* set_active_consigne: a change of strategy starts from one stage.        *)

(* Mutant: the stages are kept.                                            *)
ApplyKeepingStages(s, l) ==
    /\ strategy' = s /\ limit' = l
    /\ UNCHANGED <<staging, demand, burners, history>>

Apply(s, l) ==
    /\ \/ s # strategy /\ stages' = 1 /\ high' = 0 /\ low' = 0
       \/ s = strategy /\ UNCHANGED staging
    /\ strategy' = s /\ limit' = l
    /\ UNCHANGED <<demand, burners, history>>

(* The pressure, or the pressure asked for, changes (physics.py).          *)
PressureMoves(q) ==
    /\ demand' = q
    /\ UNCHANGED <<consigne, staging, burners, history>>

----------------------------------------------------------------------------
(* get_sequence_and_limits                                                 *)

Sequence == CASE strategy = "C1" -> <<1, 2, 3>>
              [] strategy = "C2" -> <<2, 3, 1>>
              [] strategy = "C3" -> <<3>>

BaseLimit(b) ==
    IF \/ b = 1 /\ strategy # "C1"
       \/ b = 2 /\ strategy = "C3" THEN 0 ELSE Power[b]

(* Mutant: the limit of the order is forgotten.                            *)
BaseOnly(b) == BaseLimit(b)

(* The limit of an order is the one of the first boiler of the sequence.   *)
PowerOf(b) ==
    IF b = Sequence[1] /\ limit # 0 /\ limit < BaseLimit(b) THEN limit
    ELSE BaseLimit(b)

----------------------------------------------------------------------------
(* evaluate_cascade_stages                                                 *)

Active == {Sequence[n] : n \in (1..stages) \cap DOMAIN Sequence}

(* The sum of f over a set of boilers.                                     *)
Total(f, S) ==
    (IF 1 \in S THEN f[1] ELSE 0) + (IF 2 \in S THEN f[2] ELSE 0)
        + (IF 3 \in S THEN f[3] ELSE 0)

(* The average load of the active boilers.  A load weighs the fortieths of *)
(* the power of its boiler.                                                *)
Fortieths == [b \in Boilers |-> load[b] * (IF b = 1 THEN 5 ELSE 2)]

AverageOver(percent) ==
    100 * Total(Fortieths, Active) > 40 * percent * Cardinality(Active)

AverageUnder(percent) ==
    100 * Total(Fortieths, Active) < 40 * percent * Cardinality(Active)

(* Mutant: the last boiler of the sequence is never started.               *)
CanStageUpButLast == AverageOver(80) /\ stages < Len(Sequence) - 1

CanStageUp == AverageOver(80) /\ stages < Len(Sequence)

(* Mutant: a stage stops where the one below it is overloaded.             *)
CanStageDownEarly == AverageUnder(60) /\ stages > 1

CanStageDown == AverageUnder(25) /\ stages > 1

(* A timer runs while its condition lasts and starts again when it is up;  *)
(* at most one of the two conditions holds.                                *)
Stage(d) ==
    /\ high' = IF CanStageUp /\ high + d < Delay THEN high + d ELSE 0
    /\ low' = IF CanStageDown /\ low + d < Delay THEN low + d ELSE 0
    /\ stages' = IF CanStageUp /\ high + d >= Delay THEN stages + 1
                 ELSE IF CanStageDown /\ low + d >= Delay THEN stages - 1
                 ELSE stages

----------------------------------------------------------------------------
(* update: in the order of the sequence, each of the first k boilers takes *)
(* what it can of the power left.                                          *)

(* What the boiler at n takes of a remainder.                              *)
Taken(n, remaining) == Lesser(remaining, PowerOf(Sequence[n]))

(* Mutant: what a boiler takes is not subtracted.                          *)
RemainingWhole(n) == demand

(* What is left for the boiler at n.                                       *)
Remaining(n) ==
    LET left[m \in 1..3] ==
          IF m = 1 THEN demand ELSE left[m - 1] - Taken(m - 1, left[m - 1])
    IN  left[n]

PositionOf(b) == CHOOSE n \in DOMAIN Sequence : Sequence[n] = b

(* set_target_load for every boiler.                                       *)
Shares(k) ==
    [b \in Boilers |->
        IF \E n \in (1..k) \cap DOMAIN Sequence : Sequence[n] = b
        THEN Taken(PositionOf(b), Remaining(PositionOf(b)))
        ELSE 0]

----------------------------------------------------------------------------
(* Boiler.update, with the target of this round.                           *)

Duration == [PURGING |-> Purge, IGNITING |-> Ignite, COOLDOWN |-> Cooldown]

(* Mutant: every state is compared with the time of the ignition.          *)
OverIgnite(s, elapsed) == elapsed >= Ignite

Over(s, elapsed) == elapsed >= Duration[s]

(* State and timer after the round.  A purge without demand is abandoned,  *)
(* an ignition is not; a demand ends a cooldown.                           *)
Burn(b, t, d) ==
    LET s == state[b]
        elapsed == timer[b] + d
    IN  CASE s = "OFF"      -> IF t > 0 THEN <<"PURGING", 0>> ELSE <<s, timer[b]>>
          [] s = "PURGING"  -> << IF t = 0 THEN "OFF"
                                  ELSE IF Over(s, elapsed) THEN "IGNITING" ELSE s,
                                  IF Over(s, elapsed) THEN 0 ELSE elapsed >>
          [] s = "IGNITING" -> IF Over(s, elapsed) THEN <<"RUNNING", 0>>
                               ELSE <<s, elapsed>>
          [] s = "RUNNING"  -> IF t = 0 THEN <<"COOLDOWN", 0>> ELSE <<s, timer[b]>>
          [] s = "COOLDOWN" -> IF t > 0 THEN <<"PURGING", 0>>
                               ELSE IF Over(s, elapsed) THEN <<"OFF", 0>>
                               ELSE <<s, elapsed>>

(* Mutant: the load may pass its target.                                   *)
RampedPast(b, t, d) == IF load[b] < t THEN load[b] + Ramp * d
                       ELSE load[b] - Ramp * d

(* The load moves towards its target by the ramp.                          *)
Ramped(b, t, d) ==
    LET step == Ramp * d
    IN  IF load[b] < t
        THEN IF load[b] + step > t THEN t ELSE load[b] + step
        ELSE IF load[b] - step < t THEN t ELSE load[b] - step

LoadAfter(b, t, d) ==
    CASE state[b] \in {"OFF", "COOLDOWN"} -> 0
      [] state[b] = "RUNNING" /\ t > 0   -> Ramped(b, t, d)
      [] OTHER                           -> load[b]

(* History: the time a boiler spent in s since its last purge began.       *)
Spent(h, s, full, d) ==
    [b \in Boilers |->
        IF state[b] # "PURGING" /\ state'[b] = "PURGING" THEN 0
        ELSE IF state[b] # s THEN h[b]
        ELSE Lesser(h[b] + d, full)]

(* A round of the control thread: CascadeController.update, then each      *)
(* boiler.                                                                 *)
Round(d) ==
    /\ Stage(d)
    /\ target' = Shares(stages')
    /\ state' = [b \in Boilers |-> Burn(b, target'[b], d)[1]]
    /\ timer' = [b \in Boilers |-> Burn(b, target'[b], d)[2]]
    /\ load' = [b \in Boilers |-> LoadAfter(b, target'[b], d)]
    /\ purged' = Spent(purged, "PURGING", Purge, d)
    /\ lit' = Spent(lit, "IGNITING", Ignite, d)
    /\ UNCHANGED <<consigne, demand>>

SomeRound == \E d \in Periods : Round(d)

Next ==
    \/ SomeRound
    \/ \E s \in Strategies, l \in {0, 1} : Apply(s, l)
    \/ \E q \in Demands : PressureMoves(q)

(* The control thread loops for ever and catches its exceptions.           *)
Spec == Init /\ [][Next]_vars /\ WF_vars(SomeRound)

----------------------------------------------------------------------------
(* A boiler that gives power went through a whole purge and a whole        *)
(* ignition since its last purge began, whatever orders and pressure did   *)
(* meanwhile (Boiler.update).                                              *)
BurnsOnlyAfterPurge ==
    \A b \in Boilers : load[b] > 0 => purged[b] = Purge /\ lit[b] = Ignite

(* There are never more stages than boilers in the sequence, also after a  *)
(* change of strategy (set_active_consigne, evaluate_cascade_stages).      *)
StagesInSequence == stages \in 1..Len(Sequence)

(* A load only rises to what the consigne in force allows: within the      *)
(* limit of the order for the first boiler of the sequence, not at all for *)
(* a boiler the strategy leaves out, however both stood before             *)
(* (get_sequence_and_limits, update).                                      *)
NeverRampsOverLimit ==
    [][\A b \in Boilers :
          load'[b] > load[b] =>
              /\ load'[b] <= BaseLimit(b)'
              /\ limit' # 0 /\ b = Sequence'[1] => load'[b] <= limit']_vars

(* A round shares exactly the power asked for, or all there is in the      *)
(* active stages, and none of it to another boiler (update).               *)
ShareIsExact ==
    /\ Total(target, Active)
          = Lesser(demand, Total([b \in Boilers |-> PowerOf(b)], Active))
    /\ \A b \in Boilers \ Active : target[b] = 0

RoundsShareExactly == [][UNCHANGED <<consigne, demand>> => ShareIsExact']_vars

Steady == <>[][UNCHANGED <<consigne, demand>>]_vars

(* Under one consigne and one demand the number of stages settles: no      *)
(* boiler is started and stopped for ever.                                 *)
StagingSettles == Steady => <>[][UNCHANGED stages]_vars

(* Under one consigne without limit and one demand, the boilers end up     *)
(* giving that demand, or all that the sequence can give.                  *)
Served ==
    Total(load, Boilers)
        = Lesser(demand, Total([b \in Boilers |-> BaseLimit(b)], Boilers))

DemandServed == Steady => <>[](limit = 0 => Served)
=============================================================================
