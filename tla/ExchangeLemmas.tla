--------------------------- MODULE ExchangeLemmas ---------------------------
(* What the rounding, the decoding and the rule tables of ExchangeTable    *)
(* guarantee for every block, and what removing from and inserting into a  *)
(* queue give, by position.                                                *)
EXTENDS ExchangeTable, SequencesExt, SequenceTheorems, TLAPS

LEMMA RoundHalfEvenInt ==
    ASSUME NEW v \in Int, NEW m \in Nat \ {0}
    PROVE  RoundHalfEven(v, m) \in Int
BY DEF RoundHalfEven

(* The planner keeps the multiple of a thousandth nearest to the value.    *)
LEMMA Round3Near ==
    ASSUME NEW v \in Int
    PROVE  \E k \in Int : Round3(v) = 10 * k /\ v - 5 <= 10 * k /\ 10 * k <= v + 5
<1> DEFINE k == RoundHalfEven(v, 10)
<1>1. k \in Int
  BY RoundHalfEvenInt
<1>2. v - 5 <= 10 * k /\ 10 * k <= v + 5
  BY DEF RoundHalfEven
<1>3. QED
  BY <1>1, <1>2 DEF Round3

LEMMA DecodedType ==
    ASSUME NEW b \in Body
    PROVE  Decoded(b) \in Body
<1>1. ASSUME NEW v \in Int PROVE Word(v) \in Int
  BY DEF Word
<1>2. ASSUME NEW v \in Int PROVE Round3(v) \in Int
  BY RoundHalfEvenInt DEF Round3
<1>3. ASSUME NEW r \in [Reserved -> Int] PROVE Words(r) \in [Reserved -> Int]
  BY <1>1, <1>3 DEF Words
<1>4. QED
  BY <1>1, <1>2, <1>3 DEF Decoded, Body

LEMMA ZeroBodyType == ZeroBody \in Body
BY DEF ZeroBody, Zeros, Body

(* A set of positions in a table of at most fifteen rules has a least one. *)
LEMMA LeastPosition ==
    ASSUME NEW P \in SUBSET (1..15), P # {}
    PROVE  \E i \in P : \A j \in P : i <= j
<1> SUFFICES ASSUME \A i \in P : \E j \in P : j < i
             PROVE  FALSE
  OBVIOUS
<1>1. 1 \notin P
  OBVIOUS
<1>2. 2 \notin P
  BY <1>1
<1>3. 3 \notin P
  BY <1>1, <1>2
<1>4. 4 \notin P
  BY <1>1, <1>2, <1>3
<1>5. 5 \notin P
  BY <1>1, <1>2, <1>3, <1>4
<1>6. 6 \notin P
  BY <1>1, <1>2, <1>3, <1>4, <1>5
<1>7. \A i \in 7..15 : i \in P => \E j \in P : j \in 7..15 /\ j < i
  BY <1>1, <1>2, <1>3, <1>4, <1>5, <1>6
<1>8. 7 \notin P /\ 8 \notin P /\ 9 \notin P
  BY <1>7
<1>9. 10 \notin P /\ 11 \notin P /\ 12 \notin P
  BY <1>7, <1>8
<1>10. \A i \in 13..15 : i \in P => \E j \in P : j \in 13..15 /\ j < i
  BY <1>7, <1>8, <1>9
<1>11. 13 \notin P /\ 14 \notin P /\ 15 \notin P
  BY <1>10
<1>12. \A i \in 1..15 : i \in 1..6 \/ i \in 7..12 \/ i \in {13, 14, 15}
  OBVIOUS
<1>13. /\ \A i \in 1..6 : i \in {1, 2, 3, 4, 5, 6}
       /\ \A i \in 7..12 : i \in {7, 8, 9, 10, 11, 12}
  OBVIOUS
<1>14. P = {}
  BY <1>1, <1>2, <1>3, <1>4, <1>5, <1>6, <1>8, <1>9, <1>11, <1>12, <1>13
<1>15. QED
  BY <1>14

LEMMA FirstBrokenProperties ==
    ASSUME NEW rules, DOMAIN rules \subseteq 1..15,
           \A i \in DOMAIN rules : rules[i][2] \in Nat \ {0}
    PROVE  /\ FirstBroken(rules) \in Nat
           /\ FirstBroken(rules) = 0 <=> \A i \in DOMAIN rules : rules[i][1]
<1>1. CASE Broken(rules) = {}
  BY <1>1 DEF FirstBroken, Broken
<1>2. CASE Broken(rules) # {}
  <2>1. Broken(rules) \subseteq 1..15
    BY DEF Broken
  <2>2. \E i \in Broken(rules) : \A j \in Broken(rules) : i <= j
    BY <1>2, <2>1, LeastPosition
  <2> DEFINE first == CHOOSE i \in Broken(rules) : \A j \in Broken(rules) : i <= j
  <2>3. first \in Broken(rules)
    BY <2>2
  <2>4. first \in DOMAIN rules /\ ~rules[first][1]
    BY <2>3 DEF Broken
  <2>5. FirstBroken(rules) = rules[first][2]
    BY <1>2 DEF FirstBroken
  <2> HIDE DEF first
  <2>6. QED
    BY <2>4, <2>5
<1>3. QED
  BY <1>1, <1>2

(* The first broken rule decides.                                          *)
LEMMA FirstBrokenIs ==
    ASSUME NEW rules, DOMAIN rules \subseteq 1..15, NEW i \in DOMAIN rules,
           ~rules[i][1], \A j \in DOMAIN rules : j < i => rules[j][1]
    PROVE  FirstBroken(rules) = rules[i][2]
<1> DEFINE Least(k) == k \in Broken(rules) /\ \A j \in Broken(rules) : k <= j
<1>1. i \in Broken(rules) /\ Broken(rules) \subseteq 1..15
  BY DEF Broken
<1>2. \A j \in Broken(rules) : j \in DOMAIN rules /\ ~rules[j][1]
  BY DEF Broken
<1>3. Least(i)
  BY <1>1, <1>2
<1>4. ASSUME NEW k \in Broken(rules), Least(k) PROVE k = i
  <2>1. k <= i /\ k \in DOMAIN rules /\ ~rules[k][1]
    BY <1>1, <1>2, <1>4
  <2>2. ~(k < i)
    BY <2>1
  <2>3. QED
    BY <1>1, <2>1, <2>2
<1>5. (CHOOSE k \in Broken(rules) : \A j \in Broken(rules) : k <= j) = i
  BY <1>3, <1>4
<1>6. QED
  BY <1>1, <1>5 DEF FirstBroken

(* Both tables, rule by rule: a status of 0 means every rule holds.        *)
LEMMA PlcStatus ==
    ASSUME NEW b \in Body, b.profile \in Profiles
    PROVE  /\ FirstBroken(PlcRules(b)) \in Nat
           /\ FirstBroken(PlcRules(b)) = 0 <=>
                \A i \in 1..15 : PlcRules(b)[i][1]
<1>1. DOMAIN PlcRules(b) = 1..15
  BY DEF PlcRules
<1>2. \A i \in 1..15 : PlcRules(b)[i][2] \in Nat \ {0}
  BY DEF PlcRules
<1>3. QED
  BY <1>1, <1>2, FirstBrokenProperties

LEMMA GatewayStatus ==
    ASSUME NEW b \in Body, b.profile \in Profiles
    PROVE  /\ FirstBroken(GatewayRules(b)) \in Nat
           /\ FirstBroken(GatewayRules(b)) = 0 <=>
                \A i \in 1..11 : GatewayRules(b)[i][1]
<1>1. DOMAIN GatewayRules(b) = 1..11
  BY DEF GatewayRules
<1>2. \A i \in 1..11 : GatewayRules(b)[i][2] \in Nat \ {0}
  BY DEF GatewayRules
<1>3. QED
  BY <1>1, <1>2, FirstBrokenProperties

LEMMA AttributeStatusType ==
    ASSUME NEW b \in Body
    PROVE  AttributeStatus(b) \in Nat
BY PlcStatus DEF AttributeStatus

LEMMA GatewayErrorType ==
    ASSUME NEW b \in Body
    PROVE  GatewayError(b) \in Nat
BY GatewayStatus DEF GatewayError

(* The two copies of the table, rule by rule: the rules of the planner     *)
(* that stand for rule i of the gateway, in the order the planner tests    *)
(* them.  Only the two rules of reserved fields stand for three.           *)
FirstOf(i) == IF i <= 4 THEN i ELSE IF i <= 9 THEN i + 2 ELSE i + 4
LastOf(i) == IF i <= 3 THEN i ELSE IF i <= 8 THEN i + 2 ELSE i + 4

LEMMA TablesCorrespond ==
    ASSUME NEW b \in Body, b.profile \in Profiles, NEW i \in 1..11
    PROVE  LET P == PlcRules(b)
               G == GatewayRules(b)
           IN  /\ G[i][1] <=> \A k \in FirstOf(i)..LastOf(i) : P[k][1]
               /\ \A k \in FirstOf(i)..LastOf(i) :
                    G[i][2] = IF P[k][2] \in {150, 160} THEN 140
                              ELSE IF P[k][2] \in {250, 260} THEN 240
                              ELSE P[k][2]
<1> DEFINE P == PlcRules(b)
           G == GatewayRules(b)
           Same(j, k) == (G[j][1] <=> P[k][1]) /\ G[j][2] = P[k][2]
<1>1. /\ b.limit \in Int /\ b.elec \in Int /\ b.metBar \in Int
      /\ MAX_POWER_LIMIT_KW \in Int /\ MAX_PRESSURE_BAR \in Int
  BY SMT DEF Body, MAX_POWER_LIMIT_KW, MAX_PRESSURE_BAR, Scale
<1>2. /\ b.limit \in 0..MAX_POWER_LIMIT_KW <=> 0 <= b.limit /\ b.limit <= MAX_POWER_LIMIT_KW
      /\ b.elec \in 0..MAX_PRESSURE_BAR <=> 0 <= b.elec /\ b.elec <= MAX_PRESSURE_BAR
      /\ b.metBar \in 0..MAX_PRESSURE_BAR <=> 0 <= b.metBar /\ b.metBar <= MAX_PRESSURE_BAR
  BY <1>1
<1>3. Same(1, 1) /\ Same(2, 2) /\ Same(3, 3)
  BY <1>2, Zenon DEF PlcRules, GatewayRules
<1>4. Same(5, 7) /\ Same(6, 8) /\ Same(7, 9) /\ Same(8, 10)
  BY <1>2, Zenon DEF PlcRules, GatewayRules
<1>5. Same(10, 14) /\ Same(11, 15)
  BY Zenon DEF PlcRules, GatewayRules
<1>6. /\ G[4][1] <=> \A j \in Reserved : b.rsv1[j] = 0
      /\ P[4][1] <=> b.rsv1[4] = 0
      /\ P[5][1] <=> b.rsv1[5] = 0
      /\ P[6][1] <=> b.rsv1[6] = 0
      /\ G[4][2] = 140 /\ P[4][2] = 140 /\ P[5][2] = 150 /\ P[6][2] = 160
  BY Zenon DEF PlcRules, GatewayRules
<1>7. /\ G[9][1] <=> \A j \in Reserved : b.rsv2[j] = 0
      /\ P[11][1] <=> b.rsv2[4] = 0
      /\ P[12][1] <=> b.rsv2[5] = 0
      /\ P[13][1] <=> b.rsv2[6] = 0
      /\ G[9][2] = 240 /\ P[11][2] = 240 /\ P[12][2] = 250 /\ P[13][2] = 260
  BY Zenon DEF PlcRules, GatewayRules
<1>8. /\ P[1][2] = 120 /\ P[2][2] = 130 /\ P[3][2] \in {120, 130}
      /\ P[7][2] = 210 /\ P[8][2] = 220 /\ P[9][2] = 230 /\ P[10][2] = 230
      /\ P[14][2] = 310 /\ P[15][2] = 320
  BY Zenon DEF PlcRules
<1>9. Reserved = {4, 5, 6}
  BY DEF Reserved
<1>10. G[4][1] <=> P[4][1] /\ P[5][1] /\ P[6][1]
  BY <1>6, <1>9
<1>11. G[9][1] <=> P[11][1] /\ P[12][1] /\ P[13][1]
  BY <1>7, <1>9
<1> HIDE DEF P, G
<1>12. CASE i \in {1, 2, 3}
  <2>1. FirstOf(i) = i /\ LastOf(i) = i
    BY <1>12 DEF FirstOf, LastOf
  <2>2. \A k \in FirstOf(i)..LastOf(i) : k = i
    BY <2>1
  <2>3. i \in FirstOf(i)..LastOf(i) /\ Same(i, i) /\ P[i][2] \in {120, 130}
    BY <1>3, <1>8, <1>12, <2>1
  <2>4. QED
    BY <2>2, <2>3 DEF P, G
<1>13. CASE i = 4
  <2>1. FirstOf(i)..LastOf(i) = {4, 5, 6}
    BY <1>13 DEF FirstOf, LastOf
  <2>2. QED
    BY <1>6, <1>10, <1>13, <2>1 DEF P, G
<1>14. CASE i \in {5, 6, 7, 8}
  <2>1. FirstOf(i) = i + 2 /\ LastOf(i) = i + 2
    BY <1>14 DEF FirstOf, LastOf
  <2>2. \A k \in FirstOf(i)..LastOf(i) : k = i + 2
    BY <2>1
  <2>3. i + 2 \in FirstOf(i)..LastOf(i) /\ Same(i, i + 2)
        /\ P[i + 2][2] \in {210, 220, 230}
    BY <1>4, <1>8, <1>14, <2>1
  <2>4. QED
    BY <2>2, <2>3 DEF P, G
<1>15. CASE i = 9
  <2>1. FirstOf(i)..LastOf(i) = {11, 12, 13}
    BY <1>15 DEF FirstOf, LastOf
  <2>2. QED
    BY <1>7, <1>11, <1>15, <2>1 DEF P, G
<1>16. CASE i \in {10, 11}
  <2>1. FirstOf(i) = i + 4 /\ LastOf(i) = i + 4
    BY <1>16 DEF FirstOf, LastOf
  <2>2. \A k \in FirstOf(i)..LastOf(i) : k = i + 4
    BY <2>1
  <2>3. i + 4 \in FirstOf(i)..LastOf(i) /\ Same(i, i + 4)
        /\ P[i + 4][2] \in {310, 320}
    BY <1>5, <1>8, <1>16, <2>1
  <2>4. QED
    BY <2>2, <2>3 DEF P, G
<1>17. i \in {1, 2, 3} \/ i = 4 \/ i \in {5, 6, 7, 8} \/ i = 9 \/ i \in {10, 11}
  OBVIOUS
<1>18. QED
  BY <1>12, <1>13, <1>14, <1>15, <1>16, <1>17

(* The two validators find the same first error in the same values; the    *)
(* gateway has one code for all the reserved fields of a consigne.         *)
LEMMA OneVerdict ==
    ASSUME NEW b \in Body
    PROVE  LET status == AttributeStatus(b)
           IN  GatewayError(b) = IF status \in {150, 160} THEN 140
                                 ELSE IF status \in {250, 260} THEN 240
                                 ELSE status
<1> DEFINE Ann(c) == IF c \in {150, 160} THEN 140
                     ELSE IF c \in {250, 260} THEN 240 ELSE c
<1>1. CASE b.profile \notin Profiles
  BY <1>1 DEF AttributeStatus, GatewayError
<1>2. CASE b.profile \in Profiles
  <2> DEFINE P == PlcRules(b)
             G == GatewayRules(b)
  <2>1. DOMAIN P = 1..15 /\ DOMAIN G = 1..11
    BY DEF PlcRules, GatewayRules
  <2>2. \A i \in 1..11 :
          /\ G[i][1] <=> \A k \in FirstOf(i)..LastOf(i) : P[k][1]
          /\ \A k \in FirstOf(i)..LastOf(i) : G[i][2] = Ann(P[k][2])
    BY <1>2, TablesCorrespond
  <2> HIDE DEF P, G
  <2>3. \A k \in 1..15 : \E i \in 1..11 : k \in FirstOf(i)..LastOf(i)
    <3>1. /\ \A k \in 1..3 : k \in FirstOf(k)..LastOf(k)
          /\ \A k \in 4..6 : k \in FirstOf(4)..LastOf(4)
          /\ \A k \in 7..10 : k - 2 \in 5..8 /\ k \in FirstOf(k - 2)..LastOf(k - 2)
          /\ \A k \in 11..13 : k \in FirstOf(9)..LastOf(9)
          /\ \A k \in 14..15 : k - 4 \in 10..11 /\ k \in FirstOf(k - 4)..LastOf(k - 4)
      BY DEF FirstOf, LastOf
    <3>2. \A k \in 1..15 : k \in 1..3 \/ k \in 4..6 \/ k \in 7..10
                           \/ k \in 11..13 \/ k \in 14..15
      OBVIOUS
    <3>3. QED
      BY <3>1, <3>2
  <2>4. CASE \A i \in 1..11 : G[i][1]
    <3>1. \A k \in 1..15 : P[k][1]
      BY <2>2, <2>3, <2>4
    <3>2. Broken(P) = {} /\ Broken(G) = {}
      BY <2>1, <2>4, <3>1 DEF Broken
    <3>3. AttributeStatus(b) = 0 /\ GatewayError(b) = 0
      BY <1>2, <3>2 DEF FirstBroken, AttributeStatus, GatewayError, P, G
    <3>4. QED
      BY <3>3
  <2>5. CASE ~ \A i \in 1..11 : G[i][1]
    <3>1. Broken(G) \subseteq 1..15 /\ Broken(G) # {}
      BY <2>1, <2>5 DEF Broken
    <3>2. PICK i \in Broken(G) : \A j \in Broken(G) : i <= j
      BY <3>1, LeastPosition
    <3>3. /\ i \in 1..11 /\ ~G[i][1]
          /\ \A j \in 1..11 : j < i => G[j][1]
      BY <2>1, <3>2 DEF Broken
    <3>4. FirstBroken(G) = G[i][2]
      BY <2>1, <3>3, FirstBrokenIs
    (* The first rule of the planner that breaks is one of those that      *)
    (* stand for rule i: the earlier ones stand for rules that hold.       *)
    <3>5. Broken(P) \subseteq 1..15 /\ Broken(P) # {}
      <4>1. FirstOf(i)..LastOf(i) \subseteq 1..15
        BY <3>3 DEF FirstOf, LastOf
      <4>2. QED
        BY <2>1, <2>2, <3>3, <4>1 DEF Broken
    <3>6. PICK k \in Broken(P) : \A j \in Broken(P) : k <= j
      BY <3>5, LeastPosition
    <3>7. /\ k \in 1..15 /\ ~P[k][1]
          /\ \A j \in 1..15 : j < k => P[j][1]
      BY <2>1, <3>6 DEF Broken
    <3>8. FirstBroken(P) = P[k][2]
      BY <2>1, <3>7, FirstBrokenIs
    <3>9. PICK h \in 1..11 : k \in FirstOf(h)..LastOf(h)
      BY <2>3, <3>7
    <3>10. ~G[h][1]
      BY <2>2, <3>7, <3>9
    <3>11. ~(h < i)
      BY <3>3, <3>10
    <3>12. ~(i < h)
      <4> SUFFICES ASSUME i < h PROVE FALSE
        OBVIOUS
      <4>1. LastOf(i) < FirstOf(h) /\ FirstOf(i)..LastOf(i) \subseteq 1..15
        BY <3>3, <3>9 DEF FirstOf, LastOf
      <4>2. /\ LastOf(i) \in Int /\ FirstOf(i) \in Int
            /\ LastOf(h) \in Int /\ FirstOf(h) \in Int
        BY <3>3, <3>9 DEF FirstOf, LastOf
      <4>3. LastOf(i) < k
        BY <3>7, <3>9, <4>1, <4>2
      <4>4. \A j \in FirstOf(i)..LastOf(i) : j < k
        BY <3>7, <4>2, <4>3
      <4>5. \A j \in FirstOf(i)..LastOf(i) : P[j][1]
        BY <3>7, <4>1, <4>4
      <4>6. QED
        BY <2>2, <3>3, <4>5
    <3>13. h = i
      BY <3>3, <3>9, <3>11, <3>12
    <3>14. G[i][2] = Ann(P[k][2])
      BY <2>2, <3>3, <3>9, <3>13
    <3>15. AttributeStatus(b) = P[k][2] /\ GatewayError(b) = G[i][2]
      BY <1>2, <3>4, <3>8 DEF AttributeStatus, GatewayError, P, G
    <3>16. QED
      BY <3>14, <3>15
  <2>6. QED
    BY <2>4, <2>5
<1>3. QED
  BY <1>1, <1>2

-----------------------------------------------------------------------------
(* Queues.                                                                 *)
LEMMA RemoveAtProperties ==
    ASSUME NEW S, NEW q \in Seq(S), NEW n \in 1..Len(q)
    PROVE  /\ RemoveAt(q, n) \in Seq(S)
           /\ Len(RemoveAt(q, n)) = Len(q) - 1
           /\ \A m \in 1..(Len(q) - 1) :
                RemoveAt(q, n)[m] = IF m < n THEN q[m] ELSE q[m + 1]
<1> DEFINE front == SubSeq(q, 1, n - 1)
           back  == SubSeq(q, n + 1, Len(q))
<1>1. front \in Seq(S) /\ Len(front) = n - 1
      /\ \A m \in 1..(n - 1) : front[m] = q[m]
  OBVIOUS
<1>2. back \in Seq(S) /\ Len(back) = Len(q) - n
      /\ \A m \in 1..(Len(q) - n) : back[m] = q[n + m]
  OBVIOUS
<1>3. RemoveAt(q, n) = front \o back
  BY DEF RemoveAt
<1> HIDE DEF front, back
<1>4. /\ front \o back \in Seq(S)
      /\ Len(front \o back) = Len(front) + Len(back)
      /\ \A m \in 1..(Len(front) + Len(back)) :
           (front \o back)[m] = IF m <= Len(front) THEN front[m]
                               ELSE back[m - Len(front)]
  BY <1>1, <1>2, ConcatProperties
<1>5. Len(front) + Len(back) = Len(q) - 1 /\ Len(q) \in Nat
  BY <1>1, <1>2
<1>6. ASSUME NEW m \in 1..(Len(q) - 1)
      PROVE  RemoveAt(q, n)[m] = IF m < n THEN q[m] ELSE q[m + 1]
  <2>1. RemoveAt(q, n)[m] = IF m <= n - 1 THEN front[m] ELSE back[m - (n - 1)]
    BY <1>1, <1>3, <1>4, <1>5
  <2>2. CASE m < n
    BY <1>1, <2>1, <2>2
  <2>3. CASE m >= n
    <3>1. m - (n - 1) \in 1..(Len(q) - n) /\ n + (m - (n - 1)) = m + 1
      BY <1>5, <2>3
    <3>2. back[m - (n - 1)] = q[m + 1]
      BY <1>2, <3>1
    <3> QED BY <2>1, <2>3, <3>2
  <2> QED BY <2>2, <2>3
<1>7. QED
  BY <1>3, <1>4, <1>5, <1>6

LEMMA InsertAtProperties ==
    ASSUME NEW S, NEW q \in Seq(S), NEW o \in S, NEW n \in 1..(Len(q) + 1)
    PROVE  /\ InsertAt(q, n, o) \in Seq(S)
           /\ Len(InsertAt(q, n, o)) = Len(q) + 1
           /\ \A m \in 1..(Len(q) + 1) :
                InsertAt(q, n, o)[m] = IF m < n THEN q[m]
                                       ELSE IF m = n THEN o ELSE q[m - 1]
<1> DEFINE front == SubSeq(q, 1, n - 1)
           back  == SubSeq(q, n, Len(q))
<1>1. front \in Seq(S) /\ Len(front) = n - 1
      /\ \A m \in 1..(n - 1) : front[m] = q[m]
  OBVIOUS
<1>2. back \in Seq(S) /\ Len(back) = Len(q) - n + 1
      /\ \A m \in 1..(Len(q) - n + 1) : back[m] = q[n + m - 1]
  OBVIOUS
<1>3. InsertAt(q, n, o) = (front \o <<o>>) \o back
  BY DEF InsertAt
<1> HIDE DEF front, back
<1>4. /\ front \o <<o>> \in Seq(S)
      /\ Len(front \o <<o>>) = n
      /\ \A m \in 1..n : (front \o <<o>>)[m] = IF m < n THEN front[m] ELSE o
  BY <1>1, AppendIsConcat, AppendProperties
<1> DEFINE grown == front \o <<o>>
<1>5. /\ grown \o back \in Seq(S)
      /\ Len(grown \o back) = Len(grown) + Len(back)
      /\ \A m \in 1..(Len(grown) + Len(back)) :
           (grown \o back)[m] = IF m <= Len(grown) THEN grown[m]
                               ELSE back[m - Len(grown)]
  <2> HIDE DEF grown
  <2>1. grown \in Seq(S)
    BY <1>4 DEF grown
  <2>2. QED
    BY <2>1, <1>2, ConcatProperties
<1>6. InsertAt(q, n, o) = grown \o back
  BY <1>3
<1>7. Len(grown) = n /\ \A m \in 1..n : grown[m] = IF m < n THEN q[m] ELSE o
  BY <1>1, <1>4
<1> HIDE DEF grown
<1>8. QED
  BY <1>2, <1>5, <1>6, <1>7
=============================================================================
