----------------------------- MODULE MCMessenger -----------------------------
(* One message, two contents, two propagation nodes; and the formats of     *)
(* messages and announces.                                                  *)
EXTENDS Messengers

CONSTANTS hello, world, fwd, rev

\* The first content has one field, the second has two.
MCOrders == [c \in {hello, world} |-> IF c = hello THEN {fwd} ELSE {fwd, rev}]

\* The first node gets nearer and dearer; the second announces no cost, and
\* is the subject of a malformed announce and of one that is not its own.
Announce(n, c, h) ==
    [node |-> n, wellFormed |-> TRUE, genuine |-> TRUE, cost |-> c, hops |-> h]
MCAnnounces ==
    {Announce(1, 1, 2), Announce(1, 2, 1), Announce(2, -1, 1),
     [Announce(2, 2, 2) EXCEPT !.wellFormed = FALSE],
     [Announce(2, 2, 2) EXCEPT !.genuine = FALSE]}

Fields == INSTANCE LXMFFields WITH MaxDepth <- 3, MaxPairs <- 3
Announced == INSTANCE LXMFAnnounce WITH
               MaxDepth <- 3, MaxPairs <- 3, MaxBytes <- 10, MaxItems <- 4, MaxInt64 <- 1023

\* The state in which the properties of operators are looked at: they are the
\* same in all.
Beginning == /\ msg = NewMessage(hello) /\ calls = 0 /\ inbox = {}
             /\ call = Idle /\ nodes = [n \in Nodes |-> None]

\* A message arrives with the fields it was sent with, exactly if all keys are
\* bytes and the maps are not nested too deep; and when what arrives depends on
\* the order in which Go walks a map (message.go:476-782).
FieldsSurvive == Beginning => Fields!FieldsSurvive /\ Fields!OneReading

\* What the readers of announce data make of what the package writes, names in
\* legacy announces included; and on any data, well formed or not, the readers
\* do not contradict each other and read what is called valid (helpers.go).
AnnounceSurvives ==
    Beginning => /\ Announced!AnnounceSurvives
                 /\ Announced!LegacyNameSurvives
                 /\ Announced!ReadersAgree
                 /\ Announced!ValidIsReadable
=============================================================================
