------------------------- MODULE MCIssuedInvoices -------------------------
(* Instances of IssuedInvoices for TLC. *)
EXTENDS IssuedInvoices, TLC

CONSTANTS i1, i2, q1, q2, q3, m1, m2

\* Two requests for i1, a double click or a retry; one for i2.
Clicks == [q \in Requests |-> IF q = q3 THEN i2 ELSE i1]

=============================================================================
