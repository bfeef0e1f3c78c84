----------------------------- MODULE MCJobRunner -----------------------------
(* Instances of JobRunner for TLC. *)
EXTENDS JobRunner, TLC

CONSTANTS w1, w2, j1, a, b

NoShadow == [o \in Occurrences |-> FALSE]

OneJob == [o \in Occurrences |-> j1]

AllEnabled == [w \in Workers |-> [j \in Jobs |-> "enabled"]]

\* Two occurrences of j1, a scheduled one and one that a user enqueues: b may
\* fall due while a is still running or waiting for its retry.
TwoDue == (a :> 0 @@ b :> 1)
TwoAttempts == (a :> 2 @@ b :> 1)

WorkerSymmetry == Permutations(Workers)

=============================================================================
