----------------------------- MODULE MCAdminAuth -----------------------------
(* Small instances of AdminAuth.                                               *)
EXTENDS AdminAuth, TLC

\* What the server's path may name at first; pkd-admin's default file is not there yet.
MCFiles == {[f \in Paths |-> IF f = ServerPath THEN kind ELSE "missing"] : kind \in FirstContents}

\* Requests are interchangeable.
MCSymmetry == Permutations(Requests)
=============================================================================
