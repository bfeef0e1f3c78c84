---------------------------- MODULE MCInstallation ----------------------------
(***************************************************************************)
(* Two images.  The newer has one more migration, which is not             *)
(* transactional, and an edited file: it may drift, so it runs after the   *)
(* older one, and the older one refuses to run after it.                   *)
(***************************************************************************)
EXTENDS Installation, TLC

CONSTANTS p1, p2, p3, t1, t2, d1, r1, r2

MCImages == {"old", "new"}
MCVersions == {"baseline", "setup-token", "index"}
MCManifest == [img \in MCImages |->
    IF img = "new" THEN <<"setup-token", "index">> ELSE <<"setup-token">>]
MCSumOf == [img \in MCImages |-> [v \in MCVersions |->
    IF img = "new" /\ v = "setup-token" THEN "other" ELSE "sum"]]
Symmetry == Permutations({p1, p2, p3}) \cup Permutations({t1, t2}) \cup Permutations({r1, r2})
=============================================================================
