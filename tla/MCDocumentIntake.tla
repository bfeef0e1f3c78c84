-------------------------- MODULE MCDocumentIntake --------------------------
(* Instances of DocumentIntake for TLC. *)
EXTENDS DocumentIntake, TLC

CONSTANTS r1, r2, d1, d2, n1, n2, m1

\* Two documents of different clients, both attached to one e-mail.
TwoNips == (d1 :> n1 @@ d2 :> n2)
OneMail == (m1 :> {d1, d2})

=============================================================================
