----------------------------- MODULE MCBriefJob -----------------------------
(* Instances of BriefJob for TLC. *)
EXTENDS BriefJob, TLC

CONSTANTS j1, j2, r1, r2

\* Jobs and requests are interchangeable (safety runs only).
Symmetric == Permutations(Jobs) \cup Permutations(Requests)
=============================================================================
