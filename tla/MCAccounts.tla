------------------------------ MODULE MCAccounts ------------------------------
(* An owner and two ids for members, two requests at a time, two copies of the *)
(* access cache, two subscriptions on two plans.                               *)
EXTENDS Accounts, TLC

CONSTANTS p1, p2, l1, l2, c1, c2, s1, m1, m2

MCCap == [plan \in {"start", "pro"} |-> IF plan = "start" THEN 15 ELSE 999]
Symmetry == Permutations({p1, p2}) \cup Permutations({l1, l2}) \cup Permutations({c1, c2})
            \cup Permutations({m1, m2})
=============================================================================
