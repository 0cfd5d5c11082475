---------------------------- MODULE ExchangeTable ----------------------------
(***************************************************************************)
(* The Rev02 exchange table of one order: the consignes C1, C2 and C3, the *)
(* rules both ends apply to them, and what the Modbus words keep of them.  *)
(*                                                                         *)
(* The gateway checks the JSON values (gateway_modbus_sbc.py,              *)
(* _collect_exchange_table_errors); the planner checks what it decodes     *)
(* from the registers (scheduler.py, _validate_order_attributes).  Each    *)
(* keeps its own copy of the rules.                                        *)
(*                                                                         *)
(* A REAL is an integer number of ten-thousandths (Scale units are 1.0),   *)
(* one digit finer than the three decimals the planner keeps.  The fields  *)
(* 4, 5 and 6 of C1 and of C2 are reserved, and the two ends do not name   *)
(* them alike; those of C3 stand as one value, for both ends go through    *)
(* them with the same loop and the same codes.                             *)
(***************************************************************************)
EXTENDS Integers, Sequences, FiniteSets

Scale == 10000

MAX_POWER_LIMIT_KW == 50 * Scale
MAX_PRESSURE_BAR   == 18 * Scale

Reserved == 4..6

Body == [profile : Int, limit : Int, elec : Int, rsv1 : [Reserved -> Int],  \* c1
         met : Int, metType : Int, metBar : Int, rsv2 : [Reserved -> Int],  \* c2
         secours : Int, rsv3 : Int]                                         \* c3

(* What a block of zeros decodes to.                                       *)
Zeros == [i \in Reserved |-> 0]

ZeroBody == [profile |-> 0, limit |-> 0, elec |-> 0, rsv1 |-> Zeros,
             met |-> 0, metType |-> 0, metBar |-> 0, rsv2 |-> Zeros,
             secours |-> 0, rsv3 |-> 0]

Profiles == 2..6

(* The profiles that drive the MET boiler; the others want it all zero.    *)
MetProfiles == {2, 5}

PROFILE_RULES == [p \in Profiles |->
    [c2_1   |-> IF p \in MetProfiles THEN 5 ELSE 0,
     c2_2   |-> IF p \in MetProfiles THEN {0, 2} ELSE {0},
     c2_3_zero_only |-> p \notin MetProfiles,
     c3_1   |-> IF p \in MetProfiles THEN {0, 1} ELSE {0}]]

----------------------------------------------------------------------------
(* Mutant: ties go up.                                                     *)
RoundHalfUp(v, m) == (v + m \div 2) \div m

(* Python's round(): to the nearest multiple of m, and on a tie to the     *)
(* even one.  The result counts multiples.                                 *)
RoundHalfEven(v, m) ==
    LET q == v \div m
        r == v % m
    IN  IF 2 * r < m THEN q
        ELSE IF 2 * r > m THEN q + 1
        ELSE q + (q % 2)

(* The rounding of met_type, int(round(c2[1])).                            *)
MetCode(v) == RoundHalfEven(v, Scale)

(* The words written at %MW1000 keep 16 bits of each integer; the planner  *)
(* rounds each REAL it reads back to three decimals.                       *)
Word(n)   == n % 65536
Words(r)  == [i \in Reserved |-> Word(r[i])]
Round3(v) == 10 * RoundHalfEven(v, 10)

Decoded(b) ==
    [profile |-> Word(b.profile), limit |-> Round3(b.limit),
     elec |-> Round3(b.elec), rsv1 |-> Words(b.rsv1),
     met |-> Word(b.met), metType |-> Round3(b.metType),
     metBar |-> Round3(b.metBar), rsv2 |-> Words(b.rsv2),
     secours |-> Word(b.secours), rsv3 |-> Word(b.rsv3)]

----------------------------------------------------------------------------
(* A rule is <<holds, code>>, in the order the code tests it; 320 stands   *)
(* for the codes of the five reserved fields of C3.  The planner has a     *)
(* code for each reserved field of C1 and C2.                              *)
PlcRules(b) ==
    LET rules == PROFILE_RULES[b.profile]
    IN  << <<b.limit \in 0..MAX_POWER_LIMIT_KW, 120>>,
           <<b.elec \in 0..MAX_PRESSURE_BAR, 130>>,
           <<b.profile = 6 => (b.limit = 0 /\ b.elec = 0),
             IF b.limit # 0 THEN 120 ELSE 130>>,
           <<b.rsv1[4] = 0, 140>>,
           <<b.rsv1[5] = 0, 150>>,
           <<b.rsv1[6] = 0, 160>>,
           <<b.met = rules.c2_1, 210>>,
           <<MetCode(b.metType) \in rules.c2_2, 220>>,
           <<b.metBar \in 0..MAX_PRESSURE_BAR, 230>>,
           <<rules.c2_3_zero_only => b.metBar = 0, 230>>,
           <<b.rsv2[4] = 0, 240>>,
           <<b.rsv2[5] = 0, 250>>,
           <<b.rsv2[6] = 0, 260>>,
           <<b.secours \in rules.c3_1, 310>>,
           <<b.rsv3 = 0, 320>> >>

Broken(rules) == {i \in DOMAIN rules : ~ rules[i][1]}

(* The code of the first broken rule, 0 when all hold.                     *)
FirstBroken(rules) ==
    IF Broken(rules) = {} THEN 0
    ELSE rules[CHOOSE i \in Broken(rules) : \A j \in Broken(rules) : i <= j][2]

(* scheduler.py: the attribute status of a decoded order, 0 when valid.    *)
AttributeStatus(b) ==
    IF b.profile \notin Profiles THEN 110 ELSE FirstBroken(PlcRules(b))

(* gateway_modbus_sbc.py: its own copy of the same table, with one code    *)
(* for the reserved fields of C1 and one for those of C2.                  *)
(* The first definition is a mutant, without the rule of profile 6.        *)
GatewayRulesNoProfile6(b) ==
    LET rules == PROFILE_RULES[b.profile]
    IN  << <<0 <= b.limit /\ b.limit <= MAX_POWER_LIMIT_KW, 120>>,
           <<0 <= b.elec /\ b.elec <= MAX_PRESSURE_BAR, 130>>,
           <<\A i \in Reserved : b.rsv1[i] = 0, 140>>,
           <<b.met = rules.c2_1, 210>>,
           <<MetCode(b.metType) \in rules.c2_2, 220>>,
           <<0 <= b.metBar /\ b.metBar <= MAX_PRESSURE_BAR, 230>>,
           <<\A i \in Reserved : b.rsv2[i] = 0, 240>>,
           <<b.secours \in rules.c3_1, 310>>,
           <<b.rsv3 = 0, 320>> >>

GatewayRules(b) ==
    LET rules == PROFILE_RULES[b.profile]
    IN  << <<0 <= b.limit /\ b.limit <= MAX_POWER_LIMIT_KW, 120>>,
           <<0 <= b.elec /\ b.elec <= MAX_PRESSURE_BAR, 130>>,
           <<b.profile = 6 => (b.limit = 0 /\ b.elec = 0),
             IF b.limit # 0 THEN 120 ELSE 130>>,
           <<\A i \in Reserved : b.rsv1[i] = 0, 140>>,
           <<b.met = rules.c2_1, 210>>,
           <<MetCode(b.metType) \in rules.c2_2, 220>>,
           <<0 <= b.metBar /\ b.metBar <= MAX_PRESSURE_BAR, 230>>,
           <<rules.c2_3_zero_only => b.metBar = 0, 230>>,
           <<\A i \in Reserved : b.rsv2[i] = 0, 240>>,
           <<b.secours \in rules.c3_1, 310>>,
           <<b.rsv3 = 0, 320>> >>

(* The code of errors[0], 0 when the list is empty.                        *)
GatewayError(b) ==
    IF b.profile \notin Profiles THEN 110 ELSE FirstBroken(GatewayRules(b))

(* scheduler.py, _handle_order_delete: the code of the first consigne with *)
(* a word that is not zero, 0 when there is none.                          *)
NonZeroPart(b) ==
    IF Word(b.profile) # 0 \/ b.limit # 0 \/ b.elec # 0 \/ Words(b.rsv1) # Zeros
    THEN 100
    ELSE IF Word(b.met) # 0 \/ b.metType # 0 \/ b.metBar # 0 \/ Words(b.rsv2) # Zeros
    THEN 200
    ELSE IF Word(b.secours) # 0 \/ Word(b.rsv3) # 0
    THEN 300
    ELSE 0

----------------------------------------------------------------------------
(* What an order that comes due asks of the boiler cascade                 *)
(* (_decode_order_controls).  `current` is the pressure the cascade        *)
(* follows now, kept when the order names none.                            *)
Strategy(b) ==
    IF b.secours = 1 THEN "C3" ELSE IF MetCode(b.metType) = 2 THEN "C2" ELSE "C1"

TargetPressure(b, current) ==
    LET named == IF Strategy(b) # "C1" /\ b.metBar > 0 THEN b.metBar ELSE b.elec
    IN  IF named > 0 THEN named ELSE current

(* 0 is the code's None: no limit on the priority boiler.                  *)
PowerLimit(b) == IF b.limit > 0 THEN b.limit ELSE 0
=============================================================================
