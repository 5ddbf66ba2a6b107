------------------------ MODULE MCNotificationRetry ------------------------
(* NotificationRetry on small instances.                                   *)
EXTENDS NotificationRetry, TLC

\* Operators are interchangeable.
OperatorSymmetry == Permutations(Operators)
=============================================================================
