------------------------------ MODULE LXMFStored ------------------------------
(***************************************************************************)
(* The files of pkg/lxmf with the formats of the messages that leave it.   *)
(***************************************************************************)
EXTENDS LXMFFiles, Integers

CONSTANTS Sizes, Payloads, Paddings, Texts

\* A payload is of bytes; a text of characters of the alphabet, of "=" (-1), of
\* newlines (-3) and of others (-2).
ASSUME FormatsAssumption ==
  /\ Sizes \subseteq Nat \ {0}
  /\ Payloads \subseteq Seq(0 .. 255)
  /\ Paddings \subseteq Nat
  /\ Texts \subseteq Seq(-3 .. 63)

Formats == INSTANCE LXMFFormats

\* A packet that ChooseDeliveryMethod chooses carries the message, but for the
\* fallback from opportunistic delivery; a direct send records the
\* representation in which it sent; and what fits on paper, where the method is
\* chosen and where the URI is made (message.go:145, delivery_link.go,
\* paper.go:20).  The same in every state, it is looked at in the first.
SizesRight ==
  Init => Formats!ChosenPacketFits /\ Formats!RepresentationTrue /\ Formats!PaperFits

\* DecodePaperURI reads what PaperURI wrote, and what UnpackContainer gives back
\* of a stored message (paper.go, container.go).
StoredReadBack == Init => Formats!PaperReadable /\ Formats!ReloadKeeps

\* "DecodePaperURI [...] accepts canonical or padded base64" (paper.go:28).
PaperCanonical == Init => Formats!CanonicalOrPadded
=============================================================================
