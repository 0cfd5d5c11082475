-------------------------- MODULE RuntimeBlockProofs --------------------------
(* The runtime block, for any number of orders.                            *)
EXTENDS RuntimeBlock, TLAPS

(* The identifier is the last field assigned and the first one copied, so  *)
(* that what is copied after it is at least as recent.                     *)
CopyInv ==
    /\ TypeOK
    /\ orderId <= strategy /\ orderId <= target
    /\ strategy <= applied /\ target <= applied
    /\ control = "target" => strategy = applied
    /\ control = "id" => strategy = applied /\ target = applied
    /\ telemetry # "id" => copy.id <= orderId
    /\ telemetry \in {"target", "block"} => copy.id <= copy.strategy
    /\ telemetry = "block" => copy.id <= copy.target
    /\ IdNeverAhead

LEMMA CopyInvHolds == Spec => []CopyInv
<1>1. Init => CopyInv
  BY MaxOrdersAssumption DEF Init, CopyInv, TypeOK, IdNeverAhead, Start, Orders, Blocks
<1>2. CopyInv /\ [Next]_vars => CopyInv'
  <2> SUFFICES ASSUME CopyInv, [Next]_vars PROVE CopyInv'
    OBVIOUS
  <2> USE MaxOrdersAssumption DEF CopyInv, TypeOK, IdNeverAhead, Orders, Blocks
  <2>1. CASE AssignStrategy
    BY <2>1 DEF AssignStrategy, telemetryVars
  <2>2. CASE AssignTarget
    BY <2>2 DEF AssignTarget, telemetryVars
  <2>3. CASE AssignId
    BY <2>3 DEF AssignId, telemetryVars
  <2>4. CASE CopyId
    BY <2>4 DEF CopyId, controlVars
  <2>5. CASE CopyStrategy
    BY <2>5 DEF CopyStrategy, controlVars
  <2>6. CASE CopyTarget
    BY <2>6 DEF CopyTarget, controlVars
  <2>7. CASE WriteBlock
    BY <2>7 DEF WriteBlock, controlVars
  <2>8. CASE UNCHANGED vars
    BY <2>8 DEF vars, controlVars, telemetryVars
  <2> QED BY <2>1, <2>2, <2>3, <2>4, <2>5, <2>6, <2>7, <2>8
          DEF Next, Control, Telemetry
<1> QED BY <1>1, <1>2, PTL DEF Spec

(* Every field holds the number of an order that was executed.             *)
THEOREM TypeCorrect == Spec => []TypeOK
<1>1. CopyInv => TypeOK
  BY DEF CopyInv
<1> QED BY <1>1, CopyInvHolds, PTL

(* The order in the block never comes with an older strategy or pressure,  *)
(* however many orders are executed while it is copied.                    *)
THEOREM BlockIsNotOlderThanItsOrder == Spec => []IdNeverAhead
<1>1. CopyInv => IdNeverAhead
  BY DEF CopyInv
<1> QED BY <1>1, CopyInvHolds, PTL
=============================================================================
