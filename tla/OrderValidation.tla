--------------------------- MODULE OrderValidation ---------------------------
(***************************************************************************)
(* The life of one upsert payload through both validators: the gateway     *)
(* checks the JSON values, writes the preparation block (unless it refuses *)
(* the order), and the planner checks what it decodes from the registers.  *)
(* `bypass` is the operator's request, validation_mode = observe_only, to  *)
(* let the planner judge an order the gateway finds wrong.                 *)
(***************************************************************************)
EXTENDS ExchangeTable

CONSTANT Payloads      \* the C1/C2/C3 values operators send

ASSUME PayloadsAssumption == Payloads \subseteq Body

VARIABLES
    payload,           \* the values of the request
    bypass,            \* validation bypass requested
    stage,             \* "received", "refused", "written", "judged"
    gatewayError,      \* code of the first gateway error, 0 if none
    plcStatus          \* %MW1045 after the planner judged the block

vars == <<payload, bypass, stage, gatewayError, plcStatus>>

TypeOK ==
    /\ payload \in Payloads
    /\ bypass \in BOOLEAN
    /\ stage \in {"received", "refused", "written", "judged"}
    /\ gatewayError \in Int
    /\ plcStatus \in Int

Init ==
    /\ payload \in Payloads
    /\ bypass \in BOOLEAN
    /\ stage = "received"
    /\ gatewayError = 0
    /\ plcStatus = 0

(* _handle_upsert: the first error refuses the order, unless bypassed.     *)
GatewayValidate ==
    /\ stage = "received"
    /\ gatewayError' = GatewayError(payload)
    /\ stage' = IF gatewayError' # 0 /\ ~bypass THEN "refused" ELSE "written"
    /\ UNCHANGED <<payload, bypass, plcStatus>>

(* _handle_order_upsert: the planner decodes the words and judges them.    *)
PlcValidate ==
    /\ stage = "written"
    /\ plcStatus' = AttributeStatus(Decoded(payload))
    /\ stage' = "judged"
    /\ UNCHANGED <<payload, bypass, gatewayError>>

Done ==
    /\ stage \in {"refused", "judged"}
    /\ UNCHANGED vars

Next == GatewayValidate \/ PlcValidate \/ Done

Spec == Init /\ [][Next]_vars

----------------------------------------------------------------------------
(* An order the gateway finds right is never refused by the planner for    *)
(* its attributes: rounding to three decimals, and again to an integer for *)
(* met_type, must not push an accepted value over a limit.                 *)
GatewayNoWeaker ==
    stage = "judged" /\ gatewayError = 0 => plcStatus = 0

(* A value survives the trip through the registers unchanged.              *)
Representable(b) == Decoded(b) = b

(* What the gateway announces of an order the planner gives this status:   *)
(* it has one code for all the reserved fields of a consigne.              *)
Announced(status) ==
    IF status \in {150, 160} THEN 140
    ELSE IF status \in {250, 260} THEN 240
    ELSE status

(* For values the registers hold exactly, the two copies of the rule table *)
(* find the same first error, so that a bypassed order gets from the       *)
(* planner the status the gateway announced; only among the reserved       *)
(* fields of C1 or of C2 does the planner tell more than the gateway.      *)
SameVerdict ==
    stage = "judged" /\ Representable(payload) =>
        gatewayError = Announced(plcStatus)
=============================================================================
