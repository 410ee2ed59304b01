----------------------------- MODULE LXMFFormats -----------------------------
(***************************************************************************)
(* The sizes and formats in which an LXMF message leaves and is kept: the  *)
(* choice of a delivery method by size (message.go), the representation    *)
(* that a direct send records (delivery_link.go, propagation_link.go), the *)
(* paper URI (paper.go) and the container of a stored message              *)
(* (container.go).  A packed message is its length where only sizes count. *)
(***************************************************************************)
EXTENDS Integers, Sequences, FiniteSets

\* The inputs that the properties are about: sizes of packed messages, payloads
\* and texts of paper URIs, and numbers of padding characters.
CONSTANTS Sizes, Payloads, Paddings, Texts

DestinationLength == 16
SignatureLength == 64
TimestampSize == 8
StructOverhead == 8
Overhead == 2 * DestinationLength + SignatureLength + TimestampSize + StructOverhead

EncryptedPacketMDU == 383 + TimestampSize
PlainPacketMDU == 464
LinkPacketMDU == 431
EncryptedPacketMaxContent == EncryptedPacketMDU - Overhead + DestinationLength
LinkPacketMaxContent == LinkPacketMDU - Overhead
PlainPacketMaxContent == PlainPacketMDU - Overhead + DestinationLength

QRMaxStorage == 2953
uriPrefixLen == 6

\* What is left of a QR code after the prefix, in base64.
PaperMDU == ((QRMaxStorage - uriPrefixLen) * 6) \div 8

Methods == {"unknown", "opportunistic", "direct", "propagated", "paper"}
DestinationTypes == {"single", "group", "plain", "link"}

------------------------------------------------------------------------------
(* What Reticulum-Go makes of a payload of n bytes.                        *)

MTU == 500

\* identity.Encrypt: an ephemeral key, an initialisation vector, the payload
\* padded to the next full block, and a MAC.
Encrypted(n) == 32 + 16 + 16 * (n \div 16 + 1) + 32

\* A link encrypts with the key it has.
LinkEncrypted(n) == Encrypted(n) - 32

PacketFits(n) == 2 + 16 + 1 + n <= MTU

------------------------------------------------------------------------------
(* Delivery by size.                                                       *)

ContentSize(n) ==
    LET payloadLen == n - 2 * DestinationLength - SignatureLength
    IN IF payloadLen <= TimestampSize + StructOverhead THEN 0
       ELSE payloadLen - TimestampSize - StructOverhead

MaxContentForMethod(method, destinationType) ==
    CASE method = "opportunistic" ->
            {IF destinationType = "plain" THEN PlainPacketMaxContent
             ELSE EncryptedPacketMaxContent}
      [] method \in {"direct", "propagated"} -> {LinkPacketMaxContent}
      [] method = "paper" -> {PaperMDU}
      [] OTHER -> {}

\* ChooseDeliveryMethod: {} is its error.
ChooseDeliveryMethod(n, desiredMethod, destinationType) ==
    LET desired == IF desiredMethod = "unknown" THEN "direct" ELSE desiredMethod
        size == ContentSize(n)
    IN CASE n = 0 -> {}
         [] desired = "opportunistic" ->
               {<<IF \E limit \in MaxContentForMethod(desired, destinationType) : size > limit
                  THEN "direct" ELSE "opportunistic", "packet">>}
         [] desired \in {"direct", "propagated"} ->
               {<<desired, IF size <= LinkPacketMaxContent THEN "packet" ELSE "resource">>}
         [] desired = "paper" -> IF n > PaperMDU THEN {} ELSE {<<"paper", "unknown">>}

\* NeedsDirectDelivery, of a packed message.
NeedsDirectDelivery(n) ==
    \A limit \in MaxContentForMethod("opportunistic", "single") : ContentSize(n) > limit

\* How sendPropagationPayload sends n bytes on a link.
sendPropagationPayload(n) == IF n <= LinkPacketMaxContent THEN "packet" ELSE "resource"

\* What sendDirectPacked then records, with the limit of a link packet.
directRepresentationMDU(n) == IF n > LinkPacketMDU THEN "resource" ELSE "packet"
directRepresentation(n) == IF n > LinkPacketMaxContent THEN "resource" ELSE "packet"

\* DetermineTransportEncryption: the description; all but the last are
\* encrypted.
DetermineTransportEncryption(method, destinationType) ==
    CASE method = "direct" -> "EC"
      [] method # "unknown" /\ destinationType = "single" -> "EC"
      [] method # "unknown" /\ destinationType = "group" -> "AES"
      [] OTHER -> "unencrypted"

------------------------------------------------------------------------------
(* Paper.  A URI is its prefix, here TRUE or FALSE, and a sequence of      *)
(* characters: sextets, "=" as -1, what is not in the alphabet as -2 and a *)
(* newline as -3.                                                          *)

pad == -1
newline == -3

\* base64.URLEncoding without padding: the bits of the bytes, six by six, the
\* last filled up with zeros.
Sextets(b) ==
    LET byte(i) == IF i \in DOMAIN b THEN b[i] ELSE 0
        char(i) == LET k == (3 * (i - 1)) \div 4   \* whole bytes before
                   IN CASE i % 4 = 1 -> byte(k + 1) \div 4
                        [] i % 4 = 2 -> (byte(k + 1) % 4) * 16 + byte(k + 2) \div 16
                        [] i % 4 = 3 -> (byte(k + 1) % 16) * 4 + byte(k + 2) \div 64
                        [] OTHER -> byte(k + 1) % 64
    IN [i \in 1 .. (8 * Len(b) + 5) \div 6 |-> char(i)]

\* The bytes of the sextets: left-over bits are dropped without a look at them.
Bytes(s) ==
    LET byte(i) == LET k == (4 * (i - 1)) \div 3
                   IN CASE i % 3 = 1 -> s[k + 1] * 4 + s[k + 2] \div 16
                        [] i % 3 = 2 -> (s[k + 1] % 16) * 16 + s[k + 2] \div 4
                        [] OTHER -> (s[k + 1] % 4) * 64 + s[k + 2]
    IN [i \in 1 .. (6 * Len(s)) \div 8 |-> byte(i)]

\* TrimRight(s, "=")
TrimPad(s) ==
    SubSeq(s, 1, CHOOSE n \in 0 .. Len(s) : /\ n = 0 \/ s[n] # pad
                                            /\ \A i \in n + 1 .. Len(s) : s[i] = pad)

\* What is left without the newlines.
Unbroken(s) ==
    LET kept == {i \in DOMAIN s : s[i] # newline}
        at(j) == CHOOSE i \in kept : Cardinality({k \in kept : k <= i}) = j
    IN [j \in 1 .. Cardinality(kept) |-> s[at(j)]]

\* base64.URLEncoding.DecodeString skips newlines wherever they stand; the rest
\* is groups of four characters, of which only the last may be padded.
DecodeString(s) ==
    LET u == Unbroken(s)
        t == TrimPad(u)
    IN IF Len(u) % 4 # 0 \/ Len(u) - Len(t) > 2 \/ \E i \in DOMAIN t : t[i] \notin 0 .. 63
       THEN {} ELSE {Bytes(t)}

PaperURI(p) ==
    IF p = <<>> \/ Len(p) > PaperMDU THEN {} ELSE {<<TRUE, Sextets(p)>>}

\* The padding is taken off and, by the length of what is left, put on again.
Repadded(s) ==
    LET t == TrimPad(s)
    IN t \o [i \in 1 .. (4 - (Len(t) % 4)) % 4 |-> pad]

DecodePaperURI(uri) ==
    IF ~uri[1] \/ uri[2] = <<>> THEN {}
    ELSE {p \in DecodeString(Repadded(uri[2])) : Len(p) <= PaperMDU}

------------------------------------------------------------------------------
(* The container of a stored message.                                      *)

\* Packed bytes: none, some that Unpack refuses (Pack makes such, of a Fields
\* map that no receiver accepts), and some with a signature that is the
\* source's or is not.  A resolver may also be missing.
Packed == {"", "refused", "signed", "forged"}
Resolvers == {"nil", "failing", "ignorant", "knowing"}

States == {"generating", "outbound", "sending", "sent", "delivered", "rejected",
           "cancelled", "failed"}
Messages == [state : States, method : Methods, packed : Packed, incoming : BOOLEAN,
             representation : {"unknown", "packet", "resource"}, validated : BOOLEAN]

MessageContainer(msg) ==
    [state |-> msg.state, lxmf_bytes |-> msg.packed, method |-> msg.method,
     transport_encryption |-> DetermineTransportEncryption(msg.method, "single")]

PackContainer(msg) == IF msg.packed = "" THEN {} ELSE {MessageContainer(msg)}

\* Unpack: the message, also the one with an invalid signature; none for bytes
\* that cannot be read and a resolver that fails.
Unpack(data, resolver) ==
    IF data \in {"", "refused"} \/ resolver = "failing" THEN {}
    ELSE {[state |-> "generating", method |-> "unknown", packed |-> data, incoming |-> TRUE,
           representation |-> "unknown",
           validated |-> resolver = "knowing" /\ data = "signed"]}

\* Mutant of UnpackContainer: without the delivery method.
UnpackContainerBare(c, resolver) ==
    {[m EXCEPT !.state = c.state] : m \in Unpack(c.lxmf_bytes, resolver)}

\* UnpackContainer: a representation that Unpack leaves unknown becomes packet.
UnpackContainer(c, resolver) ==
    IF c.lxmf_bytes = "" THEN {}
    ELSE {[state |-> c.state, method |-> c.method, packed |-> m.packed, incoming |-> m.incoming,
           representation |-> IF c.method # "unknown" /\ m.representation = "unknown"
                              THEN "packet" ELSE m.representation,
           validated |-> m.validated] : m \in Unpack(c.lxmf_bytes, resolver)}

------------------------------------------------------------------------------
(* Properties                                                              *)

\* Whatever method is chosen for a packed message, with representation packet,
\* one packet carries it: without the destination hash and encrypted for its
\* destination, or on a link.  The exception is the message that is too large
\* for an opportunistic packet: it is to go direct as a packet whatever its
\* size (message.go:168), and above LinkPacketMDU no link packet takes it.
\* NeedsDirectDelivery sees the same limit.
ChosenPacketFits ==
    \A n \in Sizes, desired \in Methods, t \in {"single", "plain"} :
        \A c \in ChooseDeliveryMethod(n, desired, t) :
            LET sent == IF n > DestinationLength THEN n - DestinationLength ELSE 0
                fits == CASE c[1] = "opportunistic" ->
                               PacketFits(IF t = "plain" THEN sent ELSE Encrypted(sent))
                          [] OTHER -> PacketFits(LinkEncrypted(n))
            IN /\ c[2] = "packet" =>
                    (fits <=> ~(/\ desired = "opportunistic" /\ c[1] = "direct"
                                /\ n > LinkPacketMDU))
               /\ desired = "opportunistic" /\ t = "single" =>
                    (NeedsDirectDelivery(n) <=> c[1] = "direct")

\* The representation that a direct send records is the one it was sent in;
\* ChooseDeliveryMethod announces the other exactly for the 112 sizes that only
\* the packed message, and not its content, exceeds the limit
\* (delivery_link.go:146, propagation_link.go:167, message.go:172).
RepresentationTrue ==
    \A n \in Sizes :
        /\ directRepresentation(n) = sendPropagationPayload(n)
        /\ sendPropagationPayload(n) = "packet" => PacketFits(LinkEncrypted(n))
        /\ ChooseDeliveryMethod(n, "direct", "single") = {<<"direct", directRepresentation(n)>>}
             <=> n \notin LinkPacketMaxContent + 1 .. LinkPacketMDU

\* PaperMDU is the most whose URI a QR code holds.  It is compared with the
\* packed message where the method is chosen and with its encryption where the
\* URI is made: of the messages for which paper is chosen those above 2127
\* bytes have no URI (message.go:177, paper.go:20, constants.go:191).
PaperFits ==
    \A n \in Sizes :
        /\ n <= PaperMDU <=> uriPrefixLen + (8 * n + 5) \div 6 <= QRMaxStorage
        /\ ChooseDeliveryMethod(n, "paper", "single") # {} /\ Encrypted(n) > PaperMDU
             <=> n \in 2128 .. PaperMDU

\* DecodePaperURI gives back what PaperURI was given, with padding or without,
\* right or wrong.  Whatever else it accepts has the characters of the URI of
\* what it returns, but for newlines, padding and the left-over bits of the
\* last, or none, which it takes for an empty payload (paper.go:24, 37-41).
PaperReadable ==
    /\ \A p \in Payloads, k \in Paddings : \A u \in PaperURI(p) :
           DecodePaperURI(<<u[1], u[2] \o [i \in 1 .. k |-> pad]>>) = {p}
    /\ \A s \in Texts : \A p \in DecodePaperURI(<<TRUE, s>>) :
           LET t == TrimPad(Unbroken(Repadded(s)))
           IN IF p = <<>> THEN t = <<>>
              ELSE \E u \in PaperURI(p) :
                      /\ Len(u[2]) = Len(t)
                      /\ \A i \in 1 .. Len(t) - 1 : u[2][i] = t[i]

\* DecodePaperURI "accepts canonical or padded base64" (paper.go:28): nothing
\* but characters of the alphabet stands before the padding.
CanonicalOrPadded ==
    \A s \in Texts : DecodePaperURI(<<TRUE, s>>) # {} =>
        \A i \in DOMAIN TrimPad(s) : s[i] \in 0 .. 63

\* A stored message whose bytes Unpack accepts comes back with its state, method
\* and bytes, also when its signature is invalid or its source unknown; it is
\* verified anew.  What the container says of the encryption fits its method.
\* Its representation does not come back, a resource is a packet, and every
\* message is an incoming one (container.go:44-52, 57-68, message.go:385-455).
ReloadKeeps ==
    \A m \in Messages, resolver \in Resolvers : \A c \in PackContainer(m) :
        /\ UnpackContainer(c, resolver) = {} <=> m.packed = "refused" \/ resolver = "failing"
        /\ c.transport_encryption = "unencrypted" <=> m.method = "unknown"
        /\ \A r \in UnpackContainer(c, resolver) :
              /\ <<r.state, r.method, r.packed>> = <<m.state, m.method, m.packed>>
              /\ r.validated => m.packed # "forged" /\ resolver = "knowing"
              /\ r.incoming
              /\ r.representation = m.representation <=>
                    m.representation = IF m.method = "unknown" THEN "unknown" ELSE "packet"
=============================================================================
