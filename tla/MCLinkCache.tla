----------------------------- MODULE MCLinkCache -----------------------------
(***************************************************************************)
(* Small instances of LXMFLinkCache: senders s1 and s2, nodes n1 and n2.   *)
(***************************************************************************)
EXTENDS LXMFLinkCache, TLC

CONSTANTS s1, s2, n1, n2

\* Two direct sends, to two destinations.
BothEnsure == [s \in Senders |-> "ensure"]
TwoPeers == [s \in Senders |-> IF s = s1 THEN <<n1>> ELSE <<n2>>]

\* A propagated send that retries, next to one that does not.
RetryAndEnsure == [s \in Senders |-> IF s = s1 THEN "retry" ELSE "ensure"]
RetryOrder == [s \in Senders |-> IF s = s1 THEN <<n1, n2>> ELSE <<n2>>]

\* Links are interchangeable: a sender takes any that is unused, and nothing is
\* chosen among them.
LinkSymmetry == Permutations(Links)
=============================================================================
