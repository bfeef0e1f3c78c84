--------------------------- MODULE MCNotifications ---------------------------
(* One slot of the worker and one of the portal, one offline invoice.        *)
EXTENDS Notifications, TLC

CONSTANTS w1, w2, i1

MCHostOf == [p \in Slots |-> IF p = w1 THEN "worker" ELSE "portal"]
MCKinds == [p \in Slots |-> IF p = w1 THEN {"offline24", "jpk", "health"}
                            ELSE {"offline24", "receivables", "digest"}]
MCDeadline == [i \in Invoices |-> 1]
=============================================================================
