------------------------- MODULE MCOrderValidation -------------------------
(* Payloads around every boundary of the rule table: each profile and two  *)
(* unknown ones, limits at, over and a rounding error over their bound,    *)
(* met_type at, and a rounding error below, the ties of round(); then      *)
(* every choice of reserved fields, next to values the tables judge before *)
(* and after them.                                                         *)
EXTENDS OrderValidation

Boundaries ==
    [profile : {2, 3, 6, 7, 65538},
     limit : {-4, 0, 500000, 500004, 500010},
     elec : {0, 50000, 180010}, rsv1 : {Zeros},
     met : {0, 5}, metType : {0, 14996, 15004, 24996, 25004, 20000},
     metBar : {0, 4, 180010}, rsv2 : {Zeros},
     secours : {0, 1, 2}, rsv3 : {0, 65536}]

SomeReserved == [Reserved -> {0, 1}] \cup {[Zeros EXCEPT ![5] = 65536]}

ReservedFields ==
    [profile : {3, 6}, limit : {0, 500010}, elec : {0, 50000},
     rsv1 : SomeReserved, met : {0, 5}, metType : {0}, metBar : {0, 4},
     rsv2 : SomeReserved, secours : {0, 1}, rsv3 : {0, 1}]

MCPayloads == Boundaries \cup ReservedFields
=============================================================================
