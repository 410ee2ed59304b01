------------------------------ MODULE MFMessage ------------------------------
(***************************************************************************)
(* The compact message of pkg/mf: Validate, Pack, Unpack and Equal of a    *)
(* Message, and the send functions of Messenger with the sizes that the    *)
(* vendored encryption and packet give a payload.                          *)
(*                                                                         *)
(* A byte string is a sequence of bytes.  Constructors return a set: the   *)
(* message, or nothing if they return an error.                            *)
(***************************************************************************)
EXTENDS Integers, Sequences

CONSTANTS SenderHashLength, MaxMessageSize, Bytes

groupFlagPresent == 1

Validate(m) ==
  /\ Len(m.sender) = SenderHashLength
  /\ Len(m.group) > 0 => Len(m.group) = SenderHashLength
  /\ Len(m.text) <= MaxMessageSize

\* NewMessage is the case of an empty group.
NewMessageWithGroup(sender, group, text) ==
  {m \in {[sender |-> sender, group |-> group, text |-> text]} : Validate(m)}

Pack(m) ==
  {p \in {m.sender \o (IF m.group = <<>> THEN <<>> ELSE <<groupFlagPresent>> \o m.group) \o m.text} :
     Validate(m)}

\* Mutant of Unpack: any byte below 2 is taken for the flag.
UnpackAnyFlag(data) ==
  LET sender == SubSeq(data, 1, SenderHashLength)
      rest == SubSeq(data, SenderHashLength + 1, Len(data))
  IN CASE Len(data) < SenderHashLength -> {}
       [] rest # <<>> /\ rest[1] <= groupFlagPresent /\ Len(rest) > SenderHashLength ->
            NewMessageWithGroup(sender, SubSeq(rest, 2, 1 + SenderHashLength),
                                SubSeq(rest, 2 + SenderHashLength, Len(rest)))
       [] OTHER -> NewMessageWithGroup(sender, <<>>, rest)

Unpack(data) ==
  LET sender == SubSeq(data, 1, SenderHashLength)
      rest == SubSeq(data, SenderHashLength + 1, Len(data))
  IN CASE Len(data) < SenderHashLength -> {}
       [] rest # <<>> /\ rest[1] = groupFlagPresent ->
            IF Len(rest) < 1 + SenderHashLength THEN {}
            ELSE NewMessageWithGroup(sender, SubSeq(rest, 2, 1 + SenderHashLength),
                                     SubSeq(rest, 2 + SenderHashLength, Len(rest)))
       [] OTHER -> NewMessageWithGroup(sender, <<>>, rest)

\* Equal does not look at the group.
Equal(m, other) == m.text = other.text /\ m.sender = other.sender

-----------------------------------------------------------------------------
(* Sending: only sizes matter.                                               *)

MTU == 500

\* Message.Len for a hash of h bytes and a text of n.
PackedLen(h, group, n) == h + (IF group THEN 1 + h ELSE 0) + n

\* identity.Encrypt: an ephemeral key, an initialisation vector, the payload
\* padded to the next full block, and a MAC.
Encrypted(n) == 32 + 16 + 16 * (n \div 16 + 1) + 32

\* Packet.Pack with a header of the first type; it refuses more than the MTU.
PacketSize(n) == 2 + 16 + 1 + n

\* sendPacked, for hashes of the real length.
sendPacked(group, n) ==
  IF PacketSize(Encrypted(PackedLen(16, group, n))) > MTU THEN "packet too large" ELSE "sent"

\* SendMessage and SendGroupMessage for hashes of dest and group bytes: the
\* first check that fails decides.
SendMessage(dest, known, n) ==
  CASE dest # 16 -> "hash length"
    [] ~known -> "identity not found"
    [] n > 420 -> "too long"
    [] OTHER -> sendPacked(FALSE, n)

SendGroupMessage(dest, group, known, n) ==
  CASE dest # 16 \/ group # 16 -> "hash length"
    [] ~known -> "identity not found"
    [] n > 420 -> "too long"
    [] OTHER -> sendPacked(TRUE, n)

-----------------------------------------------------------------------------
(* Properties                                                                *)

\* Up to one byte more than Validate accepts: no message that can be packed, and
\* no encoding of one, is left out.
ByteStrings(n) == UNION {[1..k -> Bytes] : k \in 0..n}
Messages == [sender : ByteStrings(SenderHashLength + 1), group : ByteStrings(SenderHashLength + 1),
             text : ByteStrings(MaxMessageSize + 1)]

\* "Unpack parses Pack output." (mf.go:117): a message that was packed comes
\* back as one that Equal takes for the same.
UnpackParsesPack ==
  \A m \in Messages : \A p \in Pack(m) : \E u \in Unpack(p) : Equal(m, u)

\* A message to a group comes back whole, whatever its text begins with: the
\* flag is followed by as many bytes as Pack wrote (mf.go:103, 126).
GroupComesBack ==
  \A m \in Messages : \A p \in Pack(m) : m.group # <<>> => Unpack(p) = {m}

\* There is one encoding: whatever Unpack accepts is what Pack makes of the
\* message, and it has the length that Len announces.
EncodingUnique ==
  \A data \in ByteStrings(2 * SenderHashLength + MaxMessageSize + 2) : \A m \in Unpack(data) :
    /\ Pack(m) = {data}
    /\ Len(data) = PackedLen(SenderHashLength, m.group # <<>>, Len(m.text))

\* MaxMessageSize is "max text length (MTU 500 - header 64 - SenderHashLength
\* 16)" (constants.go:8): every text of that length fits into a packet.
EveryTextFits ==
  \A n \in 0..420 : SendMessage(16, TRUE, n) = "sent"
=============================================================================
