----------------------------- MODULE Messengers -----------------------------
(***************************************************************************)
(* The Messenger of pkg/lxmf beside the compact message of pkg/mf.         *)
(***************************************************************************)
EXTENDS LXMFMessenger

CONSTANTS SenderHashLength, MaxMessageSize, Bytes

\* With hashes of no bytes a group flag would be nothing but a first byte.
ASSUME LengthsAssumption ==
    SenderHashLength \in Nat \ {0} /\ MaxMessageSize \in Nat

MF == INSTANCE MFMessage

\* A compact message has one encoding, of the length that Len announces:
\* whatever Unpack accepts is what Pack makes of it; and a message to a group
\* comes back whole (mf.go:98-136).  The same in every state, it is looked at
\* in the first.
CompactRepacks == Init => MF!EncodingUnique /\ MF!GroupComesBack

\* "Unpack parses Pack output." (mf.go:117), for every message that NewMessage
\* accepts, as the fuzz test demands (fuzz_test.go:27-53).
CompactRoundTrip == Init => MF!UnpackParsesPack

\* A text within MaxMessageSize can be sent (constants.go:8).
CompactSendable == Init => MF!EveryTextFits
=============================================================================
