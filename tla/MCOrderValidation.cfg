SPECIFICATION Spec
CONSTANT Payloads <- MCPayloads
INVARIANTS GatewayNoWeaker SameVerdict
