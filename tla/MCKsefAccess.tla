----------------------------- MODULE MCKsefAccess -----------------------------
(* One firm and one client: two tokens, two subscriptions or licences, two JPK *)
(* files.                                                                      *)
EXTENDS KsefAccess, TLC

CONSTANTS s1, s2, t1, t2

MCCap == [plan \in {"start", "pro"} |-> IF plan = "start" THEN 15 ELSE 999]
Licence(plan, cap, expires) == [plan |-> plan, cap |-> cap, issued |-> 0, expires |-> expires]
MCLicences == {Licence("start", 5, 1), Licence("pro", 20, 2)}
Symmetry == Permutations({s1, s2}) \cup Permutations({t1, t2})
===============================================================================
