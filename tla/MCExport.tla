------------------------------ MODULE MCExport ------------------------------
(***************************************************************************)
(* Two validators and their operators, who may also stake with each other. *)
(* Stakes of 4 can be slashed twice; 14 of 8ths of a coin leave fractions  *)
(* whenever they are shared.                                               *)
(***************************************************************************)
EXTENDS Export

CONSTANTS v1, v2, a, b

MCValidator == {v1, v2}
MCDelegator == {a, b}
MCOperator == [v \in MCValidator |-> IF v = v1 THEN a ELSE b]

=============================================================================
