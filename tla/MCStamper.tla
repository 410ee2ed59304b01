------------------------------ MODULE MCStamper ------------------------------
(* GenerateStamp with three workers and digests of two two-bit bytes.       *)
EXTENDS LXMFStamper

CONSTANTS w1, w2, w3

\* Costs below, at and above the four bits of a digest, and the refused zero.
MCCosts == {0, 1, 3, 4, 5}
=============================================================================
