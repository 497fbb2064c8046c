----------------------------- MODULE Selection -----------------------------
(***************************************************************************)
(* What the writer-critics loop of a content brief promises: scripts are   *)
(* considered one after the other, each with its score, and when one is    *)
(* chosen it is the earliest of the best ones considered so far. A choice  *)
(* can be withdrawn (the brief is run again), what was considered cannot.  *)
(***************************************************************************)
EXTENDS Integers, Sequences

CONSTANTS
  Candidate,  \* what can be considered: records with an integer "score"
  NoChoice    \* not a candidate

VARIABLES
  considered,  \* the candidates, in the order in which they were considered
  chosen       \* the candidate chosen, or NoChoice

\* The candidate at i: no other one beats it, and no earlier one equals it.
IsEarliestBest(i, cs) ==
  /\ \A k \in 1..Len(cs) : cs[k].score <= cs[i].score
  /\ \A k \in 1..(i - 1) : cs[k].score < cs[i].score

Init ==
  /\ considered = <<>>
  /\ chosen = NoChoice

\* One more candidate is considered.
Grow ==
  LET last == considered'[Len(considered')] IN
  /\ considered' # <<>>
  /\ last \in Candidate
  /\ considered' = Append(considered, last)

Consider ==
  /\ chosen = NoChoice
  /\ Grow
  /\ chosen' = NoChoice

Settle ==
  /\ chosen = NoChoice
  /\ Grow
  /\ \E i \in 1..Len(considered') :
       IsEarliestBest(i, considered') /\ chosen' = considered'[i]

Withdraw ==
  /\ chosen' = NoChoice
  /\ UNCHANGED considered

Next == Consider \/ Settle \/ Withdraw

Spec == Init /\ [][Next]_<<considered, chosen>>
=============================================================================
