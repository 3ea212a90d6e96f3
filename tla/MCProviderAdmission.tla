------------------------- MODULE MCProviderAdmission -------------------------
(***************************************************************************)
(* Instances of ProviderAdmission for TLC: executions are model values.    *)
(***************************************************************************)
EXTENDS ProviderAdmission, TLC

CONSTANTS e1, e2, e3
=============================================================================
