------------------------------ MODULE MCChildren ------------------------------
(* Instances of Children for TLC. *)
EXTENDS Children

MCGiven == [k \in {"k1"} |-> "ann"]

\* A goal of the child, and a reward for the whole family.
MCTerms ==
  {[kid |-> "k1", metric |-> "XP", target |-> 1],
   [kid |-> NoKid, metric |-> "none", target |-> None]}
===============================================================================
