------------------------------- MODULE RRCNick -------------------------------
(***************************************************************************)
(* The nickname of an RRC client (room.go), as the client keeps it and as  *)
(* the hub takes it from the client's envelopes (hub.go, session.go).      *)
(*                                                                         *)
(* A nickname is a sequence of characters: " ", "nl" for the control       *)
(* characters that TrimSpace takes for space, "ctl" for the others, and    *)
(* anything else is a letter.                                              *)
(***************************************************************************)
EXTENDS Integers, Sequences

CONSTANTS MaxNickBytes,
          Nicks    \* the nicknames that the property is about

Space == {" ", "nl"}
Control == {"nl", "ctl"}

------------------------------------------------------------------------------
(* Operations                                                              *)

\* strings.TrimSpace: from the first to the last character that is no space.
TrimSpace(s) ==
    LET ink == {i \in DOMAIN s : s[i] \notin Space}
    IN IF ink = {} THEN <<>>
       ELSE SubSeq(s, CHOOSE i \in ink : \A j \in ink : i <= j,
                      CHOOSE i \in ink : \A j \in ink : j <= i)

\* The loop of SanitizeNick, over the first n characters for every n.
Stripped(s, out) ==
    LET b[n \in 0 .. Len(s)] == IF n = 0 THEN <<>>
                                ELSE IF s[n] \in out THEN b[n - 1] ELSE Append(b[n - 1], s[n])
    IN b[Len(s)]

\* Only the NULs and newlines taken out.
SanitizeNickNewlines(nick) == Stripped(TrimSpace(nick), {"nl"})

SanitizeNick(nick) == Stripped(TrimSpace(nick), Control)

\* applyInboundNick with the session's setNick: what the hub calls a peer that
\* it called `old`.
applyInboundNick(old, nick) ==
    LET clean == SanitizeNick(nick)
    IN IF clean = <<>> \/ Len(clean) > MaxNickBytes THEN old ELSE SanitizeNick(clean)

\* What the hub calls a client after a message of the client: sendType leaves
\* an empty nickname out, and handlePeer then keeps the one it has.
HubNick(old, nick) == IF nick = <<>> THEN old ELSE applyInboundNick(old, nick)

------------------------------------------------------------------------------
(* Properties                                                              *)

\* After a message the hub calls a client what the client calls itself, blanks
\* at the ends aside, or goes on with the name of an earlier message: if the
\* client has no name any more, or one that is too long.  What the hub takes
\* has no control characters, is short enough and stays as it is when it is
\* sanitized again (room.go:16-29, session.go:39, 78, hub.go:244-251).
NickAgrees ==
    \A n, earlier \in Nicks :
        LET own == TrimSpace(SanitizeNick(n))
            old == HubNick(<<>>, earlier)
            hub == HubNick(old, SanitizeNick(n))
        IN /\ hub = IF own = <<>> \/ Len(own) > MaxNickBytes THEN old ELSE own
           /\ SanitizeNick(hub) = hub
           /\ \A i \in DOMAIN hub : hub[i] \notin Control
           /\ Len(hub) <= MaxNickBytes

\* "SanitizeNick not idempotent" is what the fuzz test fails with
\* (mutation_fuzz_test.go:65): a nickname that was sanitized is left alone.
SanitizeNickIdempotent ==
    \A n \in Nicks : SanitizeNick(SanitizeNick(n)) = SanitizeNick(n)
=============================================================================
