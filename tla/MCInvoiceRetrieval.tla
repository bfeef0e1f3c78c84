------------------------ MODULE MCInvoiceRetrieval ------------------------
(* Instances of InvoiceRetrieval for TLC. *)
EXTENDS InvoiceRetrieval, TLC

CONSTANTS r1, r2

Sales == [i \in Invoices |-> 1]

\* Invoice 1 is a sale; the others are purchases.
BothDirections == [i \in Invoices |-> IF i = 1 THEN 1 ELSE 2]

NeverSynced == [d \in Directions |-> 0]
SyncedBefore == [d \in Directions |-> 1]

RunSymmetry == Permutations(Runs)

=============================================================================
