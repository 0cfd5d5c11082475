------------------------ MODULE OrderValidationProofs ------------------------
(* Whatever the payload, an order the gateway accepts is never refused by  *)
(* the planner for its attributes.                                         *)
EXTENDS OrderValidation, ExchangeLemmas

(* A value within a limit still is, once rounded to three decimals.        *)
LEMMA RoundedWithinLimit ==
    ASSUME NEW v \in Int
    PROVE  /\ v \in 0..MAX_POWER_LIMIT_KW => Round3(v) \in 0..MAX_POWER_LIMIT_KW
           /\ v \in 0..MAX_PRESSURE_BAR => Round3(v) \in 0..MAX_PRESSURE_BAR
           /\ v = 0 => Round3(v) = 0
<1>1. PICK k \in Int : Round3(v) = 10 * k /\ v - 5 <= 10 * k /\ 10 * k <= v + 5
  BY Round3Near
<1>2. MAX_POWER_LIMIT_KW = 500000 /\ MAX_PRESSURE_BAR = 180000
  BY SMT DEF MAX_POWER_LIMIT_KW, MAX_PRESSURE_BAR, Scale
<1>3. /\ v >= 0 => 10 * k >= 0
      /\ v <= 500000 => 10 * k <= 500000
      /\ v <= 180000 => 10 * k <= 180000
  BY <1>1, SMT
<1>4. v = 0 => 10 * k = 0
  BY <1>1, SMT
<1> DEFINE r == 10 * k
<1>5. /\ r \in Int /\ Round3(v) = r
      /\ v >= 0 => r >= 0
      /\ v <= 500000 => r <= 500000
      /\ v <= 180000 => r <= 180000
  BY <1>1, <1>3
<1>6. v = 0 => Round3(v) = 0
  BY <1>1, <1>4
<1> HIDE DEF r
<1>7. /\ MAX_POWER_LIMIT_KW \in Int /\ MAX_PRESSURE_BAR \in Int
      /\ v <= MAX_POWER_LIMIT_KW => r <= MAX_POWER_LIMIT_KW
      /\ v <= MAX_PRESSURE_BAR => r <= MAX_PRESSURE_BAR
  BY <1>2, <1>5
<1>8. QED
  BY <1>5, <1>6, <1>7

(* Rounding twice gives the codes 0 and 2 no value of another code: the    *)
(* intervals they cover have bounds of three decimals.                     *)
LEMMA MetCodeStable ==
    ASSUME NEW v \in Int, MetCode(v) \in {0, 2}
    PROVE  MetCode(Round3(v)) = MetCode(v)
<1>1. ASSUME NEW w \in Int
      PROVE  /\ MetCode(w) = 0 <=> -5000 <= w /\ w <= 5000
             /\ MetCode(w) = 2 <=> 15000 <= w /\ w <= 25000
  BY DEF MetCode, RoundHalfEven, Scale
<1>2. PICK k \in Int : Round3(v) = 10 * k /\ v - 5 <= 10 * k /\ 10 * k <= v + 5
  BY Round3Near
<1>3. CASE MetCode(v) = 0
  BY <1>1, <1>2, <1>3
<1>4. CASE MetCode(v) = 2
  BY <1>1, <1>2, <1>4
<1>5. QED
  BY <1>3, <1>4

LEMMA AcceptedByBoth ==
    ASSUME NEW b \in Body, GatewayError(b) = 0
    PROVE  AttributeStatus(Decoded(b)) = 0
<1> DEFINE d == Decoded(b)
<1>1. b.profile \in Profiles
  BY DEF GatewayError
<1>2. \A i \in 1..11 : GatewayRules(b)[i][1]
  BY <1>1, GatewayStatus DEF GatewayError
<1>3. d \in Body
  BY DecodedType
<1>4. d.profile = b.profile
  BY <1>1 DEF Decoded, Word, Profiles
<1>5. PROFILE_RULES[b.profile].c2_2 \subseteq {0, 2}
  BY <1>1 DEF PROFILE_RULES, MetProfiles
<1> DEFINE rules == PROFILE_RULES[b.profile]
<1>6. /\ b.limit \in 0..MAX_POWER_LIMIT_KW
      /\ b.elec \in 0..MAX_PRESSURE_BAR
      /\ b.profile = 6 => b.limit = 0 /\ b.elec = 0
      /\ \A i \in Reserved : b.rsv1[i] = 0 /\ b.rsv2[i] = 0
      /\ b.rsv3 = 0
      /\ b.met = rules.c2_1
      /\ MetCode(b.metType) \in rules.c2_2
      /\ b.metBar \in 0..MAX_PRESSURE_BAR
      /\ rules.c2_3_zero_only => b.metBar = 0
      /\ b.secours \in rules.c3_1
  <2>1. /\ GatewayRules(b)[1][1] /\ GatewayRules(b)[2][1]
        /\ GatewayRules(b)[3][1] /\ GatewayRules(b)[4][1]
        /\ GatewayRules(b)[5][1] /\ GatewayRules(b)[6][1]
        /\ GatewayRules(b)[7][1] /\ GatewayRules(b)[8][1]
        /\ GatewayRules(b)[9][1] /\ GatewayRules(b)[10][1]
        /\ GatewayRules(b)[11][1]
    BY <1>2
  <2>2. 0 <= b.limit /\ b.limit <= MAX_POWER_LIMIT_KW
    BY <2>1, Zenon DEF GatewayRules
  <2>3. 0 <= b.elec /\ b.elec <= MAX_PRESSURE_BAR
    BY <2>1, Zenon DEF GatewayRules
  <2>4. b.profile = 6 => b.limit = 0 /\ b.elec = 0
    BY <2>1, Zenon DEF GatewayRules
  <2>5. /\ \A i \in Reserved : b.rsv1[i] = 0
        /\ \A i \in Reserved : b.rsv2[i] = 0
        /\ b.rsv3 = 0
    BY <2>1, Zenon DEF GatewayRules
  <2>6. b.met = rules.c2_1 /\ b.secours \in rules.c3_1
    BY <2>1, Zenon DEF GatewayRules
  <2>7. MetCode(b.metType) \in rules.c2_2
    BY <2>1, Zenon DEF GatewayRules
  <2>8. 0 <= b.metBar /\ b.metBar <= MAX_PRESSURE_BAR
    BY <2>1, Zenon DEF GatewayRules
  <2>9. rules.c2_3_zero_only => b.metBar = 0
    BY <2>1, Zenon DEF GatewayRules
  <2>10. b.limit \in Int /\ b.elec \in Int /\ b.metBar \in Int
    BY DEF Body
  <2>11. MAX_POWER_LIMIT_KW \in Int /\ MAX_PRESSURE_BAR \in Int
    BY SMT DEF MAX_POWER_LIMIT_KW, MAX_PRESSURE_BAR, Scale
  <2> HIDE DEF rules
  <2>12. QED
    BY <2>2, <2>3, <2>4, <2>5, <2>6, <2>7, <2>8, <2>9, <2>10, <2>11
<1>7. /\ d.limit \in 0..MAX_POWER_LIMIT_KW
      /\ d.elec \in 0..MAX_PRESSURE_BAR
      /\ d.profile = 6 => d.limit = 0 /\ d.elec = 0
      /\ \A i \in Reserved : d.rsv1[i] = 0 /\ d.rsv2[i] = 0
      /\ d.rsv3 = 0
      /\ d.met = rules.c2_1
      /\ MetCode(d.metType) \in rules.c2_2
      /\ d.metBar \in 0..MAX_PRESSURE_BAR
      /\ rules.c2_3_zero_only => d.metBar = 0
      /\ d.secours \in rules.c3_1
  <2>1. /\ d.rsv1 = Words(b.rsv1) /\ d.rsv2 = Words(b.rsv2)
        /\ d.rsv3 = Word(b.rsv3) /\ d.met = Word(b.met)
        /\ d.secours = Word(b.secours) /\ d.limit = Round3(b.limit)
        /\ d.elec = Round3(b.elec) /\ d.metBar = Round3(b.metBar)
        /\ d.metType = Round3(b.metType)
    BY DEF Decoded
  <2>2. rules.c2_1 \in {0, 5} /\ rules.c3_1 \subseteq {0, 1}
    BY <1>1 DEF PROFILE_RULES
  <2>3. \A n \in {0, 1, 5} : Word(n) = n
    BY DEF Word
  <2>4. MetCode(d.metType) = MetCode(b.metType)
    BY <1>5, <1>6, <2>1, MetCodeStable DEF Body
  <2>5. /\ d.limit \in 0..MAX_POWER_LIMIT_KW
        /\ d.elec \in 0..MAX_PRESSURE_BAR
        /\ d.metBar \in 0..MAX_PRESSURE_BAR
        /\ b.limit = 0 => d.limit = 0
        /\ b.elec = 0 => d.elec = 0
        /\ b.metBar = 0 => d.metBar = 0
    BY <1>6, <2>1, RoundedWithinLimit DEF Body
  <2>6. /\ d.rsv3 = 0 /\ d.met = b.met /\ d.secours = b.secours
        /\ \A i \in Reserved : d.rsv1[i] = 0 /\ d.rsv2[i] = 0
    BY <1>6, <2>1, <2>2, <2>3 DEF Words
  <2> HIDE DEF d, rules
  <2>7. QED
    BY <1>4, <1>6, <2>4, <2>5, <2>6
<1>8. \A i \in 1..15 : PlcRules(d)[i][1]
  <2>1. rules = PROFILE_RULES[d.profile]
    BY <1>4
  <2>2. 4 \in Reserved /\ 5 \in Reserved /\ 6 \in Reserved
    BY DEF Reserved
  <2> HIDE DEF d, rules
  <2>3. /\ PlcRules(d)[1][1] /\ PlcRules(d)[2][1] /\ PlcRules(d)[3][1]
        /\ PlcRules(d)[4][1] /\ PlcRules(d)[5][1] /\ PlcRules(d)[6][1]
    BY <1>7, <2>2, Zenon DEF PlcRules
  <2>4. /\ PlcRules(d)[7][1] /\ PlcRules(d)[8][1] /\ PlcRules(d)[9][1]
        /\ PlcRules(d)[10][1] /\ PlcRules(d)[11][1] /\ PlcRules(d)[12][1]
    BY <1>7, <2>1, <2>2, Zenon DEF PlcRules
  <2>5. PlcRules(d)[13][1] /\ PlcRules(d)[14][1] /\ PlcRules(d)[15][1]
    BY <1>7, <2>1, <2>2, Zenon DEF PlcRules
  <2>6. QED
    BY <2>3, <2>4, <2>5
<1>9. QED
  BY <1>1, <1>3, <1>4, <1>8, PlcStatus DEF AttributeStatus

----------------------------------------------------------------------------
THEOREM TypeCorrect == Spec => []TypeOK
<1>1. Init => TypeOK
  BY DEF Init, TypeOK
<1>2. TypeOK /\ [Next]_vars => TypeOK'
  <2> SUFFICES ASSUME TypeOK, [Next]_vars PROVE TypeOK'
    OBVIOUS
  <2>1. payload \in Body
    BY PayloadsAssumption DEF TypeOK
  <2>2. CASE GatewayValidate
    BY <2>1, <2>2, GatewayErrorType DEF TypeOK, GatewayValidate
  <2>3. CASE PlcValidate
    BY <2>1, <2>3, DecodedType, AttributeStatusType DEF TypeOK, PlcValidate
  <2>4. CASE Done \/ UNCHANGED vars
    BY <2>4 DEF TypeOK, Done, vars
  <2>5. QED
    BY <2>2, <2>3, <2>4 DEF Next
<1>3. QED
  BY <1>1, <1>2, PTL DEF Spec

(* What the gateway found is remembered until the planner has judged.      *)
Inv ==
    /\ TypeOK
    /\ stage # "received" => gatewayError = GatewayError(payload)
    /\ stage = "judged" => plcStatus = AttributeStatus(Decoded(payload))

LEMMA InvHolds == Spec => []Inv
<1>1. Init => Inv
  BY DEF Init, TypeOK, Inv
<1>2. Inv /\ TypeOK' /\ [Next]_vars => Inv'
  <2> SUFFICES ASSUME Inv, TypeOK', [Next]_vars PROVE Inv'
    OBVIOUS
  <2>1. CASE GatewayValidate
    BY <2>1 DEF Inv, GatewayValidate
  <2>2. CASE PlcValidate
    BY <2>2 DEF Inv, PlcValidate
  <2>3. CASE Done \/ UNCHANGED vars
    BY <2>3 DEF Inv, Done, vars
  <2>4. QED
    BY <2>1, <2>2, <2>3 DEF Next
<1>3. QED
  BY <1>1, <1>2, TypeCorrect, PTL DEF Spec

(* Every payload the gateway validates passes the planner's validation:    *)
(* _collect_exchange_table_errors is no weaker, over all REAL values, than *)
(* decoding followed by _validate_order_attributes.                        *)
THEOREM GatewayIsNoWeaker == Spec => []GatewayNoWeaker
<1>1. Inv => GatewayNoWeaker
  <2> SUFFICES ASSUME Inv, stage = "judged", gatewayError = 0
               PROVE  plcStatus = 0
    BY DEF GatewayNoWeaker
  <2>1. payload \in Body
    BY PayloadsAssumption DEF Inv, TypeOK
  <2>2. GatewayError(payload) = 0
    BY DEF Inv
  <2>3. QED
    BY <2>1, <2>2, AcceptedByBoth DEF Inv
<1>2. QED
  BY <1>1, InvHolds, PTL

(* For every payload the registers hold exactly, the planner finds the     *)
(* first error the gateway announced: the tests of                         *)
(* _collect_exchange_table_errors and _validate_order_attributes come in   *)
(* an order that finds the same one, although the planner tests the        *)
(* reserved fields of C1 and C2 one by one, and gives each its own code    *)
(* where the gateway gives 140 or 240 for any of them.                     *)
THEOREM VerdictsAgree == Spec => []SameVerdict
<1>1. Inv => SameVerdict
  <2> SUFFICES ASSUME Inv, stage = "judged", Decoded(payload) = payload
               PROVE  gatewayError = Announced(plcStatus)
    BY DEF SameVerdict, Representable
  <2>1. payload \in Body
    BY PayloadsAssumption DEF Inv, TypeOK
  <2>2. plcStatus = AttributeStatus(payload) /\ gatewayError = GatewayError(payload)
    BY DEF Inv
  <2>3. QED
    BY <2>1, <2>2, OneVerdict DEF Announced
<1>2. QED
  BY <1>1, InvHolds, PTL
=============================================================================
