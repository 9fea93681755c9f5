------------------------------ MODULE MCBilling -------------------------------
(* Instances of Billing for TLC: two plans whose difference prorates to an  *)
(* amount Moyasar rounds up, and a period of two days.                      *)
EXTENDS Billing, TLC

CONSTANTS basic, plus

MCPlan == {basic, plus}
MCPrice == (basic :> 20) @@ (plus :> 50)

MCOnePlan == {basic}
MCOnePrice == basic :> 20

MCUnreported == {NoAmount}

\* The ids are interchangeable.
Symmetric == Permutations(Event) \cup Permutations(Intent) \cup Permutations(Api) \cup Permutations(Hook)
===============================================================================
