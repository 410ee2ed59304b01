----------------------------- MODULE RRCEnvelope -----------------------------
(***************************************************************************)
(* What two RRC peers make of each other's bytes: the envelope             *)
(* (envelope.go) and the bodies of HELLO, WELCOME and JOINED (bodies.go)   *)
(* through CBOR and back.                                                  *)
(*                                                                         *)
(* A Go value in an `any` is a tuple that starts with its kind:            *)
(*   <<"nil">>  <<"uint", n>>  <<"int", n>> (negative)  <<"bytes", s>>     *)
(*   <<"text", s, valid>>   valid: whether the string is UTF-8             *)
(*   <<"arr", s>>  <<"map", f>>, a map[uint64]any                          *)
(*   <<"anymap", f>>, a map[any]any, its keys again such tuples            *)
(***************************************************************************)
EXTENDS Integers, Sequences

CONSTANTS
  IdentityLength, MessageIDLength,
  Cbor(_),        \* what a value is decoded as into an `any`, once encoded
  Decodable(_)    \* whether the decoder takes what the encoder writes of it

\* The inputs that the properties are about: numbers, strings of bytes and of
\* characters; the bodies of envelopes, and capabilities; and maps that a peer
\* may have sent.
CONSTANTS Numbers, ByteStrings, Strings, Bodies, Capabilities, Raws

ProtocolVersion == 1
KeyVersion == 0
KeyType == 1
KeyMsgID == 2
KeyTimestamp == 3
KeySender == 4
KeyRoom == 5
KeyBody == 6
KeyNick == 7

The(S) == CHOOSE x \in S : TRUE

------------------------------------------------------------------------------
(* Reading an `any`.                                                       *)

asUint64(v) == IF v[1] = "uint" THEN {v[2]} ELSE {}

\* An asString that takes the empty string for a missing one.
asStringNonEmpty(v) == IF v[1] = "text" /\ v[2] # <<>> THEN {v} ELSE {}
asString(v) == IF v[1] = "text" THEN {v} ELSE {}

\* A missing key reads as nil.
At(raw, k) == IF k \in DOMAIN raw THEN raw[k] ELSE <<"nil">>

------------------------------------------------------------------------------
(* The envelope.  room, body and nick are sets: empty if the Has flag is   *)
(* false.                                                                  *)

Marshal(e) ==
    IF \/ e.version # ProtocolVersion
       \/ Len(e.msgID) # MessageIDLength
       \/ Len(e.sender) # IdentityLength
    THEN {}
    ELSE {[k \in KeyVersion .. KeySender
              \cup (IF e.room # {} THEN {KeyRoom} ELSE {})
              \cup (IF e.body # {} THEN {KeyBody} ELSE {})
              \cup (IF e.nick # {} THEN {KeyNick} ELSE {}) |->
            CASE k = KeyVersion -> <<"uint", e.version>>
              [] k = KeyType -> <<"uint", e.type>>
              [] k = KeyMsgID -> <<"bytes", e.msgID>>
              [] k = KeyTimestamp -> <<"uint", e.timestamp>>
              [] k = KeySender -> <<"bytes", e.sender>>
              [] k = KeyRoom -> The(e.room)
              [] k = KeyBody -> The(e.body)
              [] k = KeyNick -> The(e.nick)]}

\* The envelope of a decoded map whose fields are in order.
FromMap(raw) ==
    LET maybe(k) == IF k \in DOMAIN raw THEN {raw[k]} ELSE {}
    IN [version |-> raw[KeyVersion][2], type |-> raw[KeyType][2],
        msgID |-> raw[KeyMsgID][2], timestamp |-> raw[KeyTimestamp][2],
        sender |-> raw[KeySender][2], room |-> maybe(KeyRoom),
        body |-> maybe(KeyBody), nick |-> maybe(KeyNick)]

\* UnmarshalEnvelope, of the map that CBOR decodes: the envelope, or none.
UnmarshalEnvelope(raw) ==
    IF \/ asUint64(At(raw, KeyVersion)) # {ProtocolVersion}
       \/ asUint64(At(raw, KeyType)) = {}
       \/ asUint64(At(raw, KeyTimestamp)) = {}
       \/ At(raw, KeyMsgID)[1] # "bytes" \/ Len(raw[KeyMsgID][2]) # MessageIDLength
       \/ At(raw, KeySender)[1] # "bytes" \/ Len(raw[KeySender][2]) # IdentityLength
       \/ \E k \in {KeyRoom, KeyNick} \cap DOMAIN raw : asString(raw[k]) = {}
    THEN {} ELSE {FromMap(raw)}

\* What a peer reads of the bytes of a map.
Receive(raw) ==
    IF \A k \in DOMAIN raw : Decodable(raw[k])
    THEN UnmarshalEnvelope([k \in DOMAIN raw |-> Cbor(raw[k])])
    ELSE {}

\* The envelope with which onRoomContent forwards the one of a peer.
Forward(e, peer, room, nick) ==
    [e EXCEPT !.version = ProtocolVersion, !.sender = peer, !.room = {room}, !.nick = nick]

------------------------------------------------------------------------------
(* The bodies.  Every field is a set: empty if its Has flag is false.      *)

\* coerceUintMap: keys that are no unsigned numbers are left out.
coerceUintMap(v) ==
    CASE v[1] = "map" -> {v[2]}
      [] v[1] = "anymap" ->
            {[n \in UNION {asUint64(k) : k \in DOMAIN v[2]} |-> v[2][<<"uint", n>>]]}
      [] OTHER -> {}

LimitKeys == 0 .. 4

\* HubLimits.ToMap and ParseHubLimits: a limit that is missing or no number
\* reads as 0.
LimitsToMap(l) == <<"map", [k \in LimitKeys |-> <<"uint", l[k]>>]>>
ParseHubLimits(v) ==
    {[k \in LimitKeys |-> IF asUint64(At(raw, k)) = {} THEN 0
                          ELSE The(asUint64(At(raw, k)))] :
        raw \in coerceUintMap(v)}

\* WelcomeBody.ToMap; HelloBody.ToMap is the same without limits.  The keys
\* are 0 for the name, 1 for the version, 2 for the capabilities, 3 for the
\* limits; nothing at all becomes nil.
ToMap(w) ==
    LET keys == {0 : x \in w.name} \cup {1 : x \in w.version}
                \cup {2 : x \in w.caps} \cup {3 : x \in w.limits}
    IN IF keys = {} THEN <<"nil">>
       ELSE <<"map", [k \in keys |->
               CASE k = 0 -> The(w.name) [] k = 1 -> The(w.version)
                 [] k = 2 -> <<"map", The(w.caps)>>
                 [] k = 3 -> LimitsToMap(The(w.limits))]>>

\* ParseWelcomeBody: an error for a body that is no map; a field of the wrong
\* type counts as missing.
ParseWelcomeBody(body) ==
    IF body = <<"nil">>
    THEN {[name |-> {}, version |-> {}, caps |-> {}, limits |-> {}]}
    ELSE {[name |-> asString(At(raw, 0)), version |-> asString(At(raw, 1)),
           caps |-> coerceUintMap(At(raw, 2)),
           limits |-> ParseHubLimits(At(raw, 3))] : raw \in coerceUintMap(body)}

\* ParseHelloBody reads the first three fields.
ParseHelloBody(body) ==
    {[w EXCEPT !.limits = {}] : w \in ParseWelcomeBody(body)}

\* ParseJoinedMembers: whatever is no identity is left out.
ParseJoinedMembers(body) ==
    IF body[1] # "arr" THEN <<>>
    ELSE SelectSeq(body[2], LAMBDA v : v[1] = "bytes" /\ Len(v[2]) = IdentityLength)

------------------------------------------------------------------------------
(* Properties                                                              *)

Valid == {<<"text", t, TRUE>> : t \in Strings}
Texts == Valid \cup {<<"text", t, FALSE>> : t \in Strings}
Maybe(S) == {{}} \cup {{x} : x \in S}

Envelopes ==
    [version : Numbers, type : Numbers, msgID : ByteStrings, timestamp : Numbers,
     sender : ByteStrings, room : Maybe(Texts), body : Maybe(Bodies), nick : Maybe(Texts)]

\* An envelope that a session sends arrives as it was, its body as CBOR gives
\* it back, exactly if every string in it is UTF-8: the sender notices nothing
\* of the others, which the receiver drops (envelope.go:46, 85, session.go:88).
EnvelopeSurvives ==
    \A e \in Envelopes : \A raw \in Marshal(e) :
        Receive(raw) =
            IF \A v \in e.room \cup e.body \cup e.nick : Decodable(v)
            THEN {[e EXCEPT !.body = {Cbor(v) : v \in @}]} ELSE {}

\* Whatever the hub accepts from a member, the others get: the forwarded
\* envelope can be sent and read, with the type, identifier, time and body of
\* the original, and says who the hub knows the sender to be (envelope.go:50-58
\* and 94-126, hub.go:447-463).
ForwardedArrives ==
    \A raw \in Raws : \A e \in Receive(raw) :
        \A peer \in ByteStrings, room \in Valid, nick \in Maybe(Valid) :
            Len(peer) = IdentityLength =>
                \E m \in Marshal(Forward(e, peer, room, nick)) :
                    Receive(m) = {[e EXCEPT !.sender = peer, !.room = {room}, !.nick = nick]}

Welcomes ==
    [name : Maybe(Valid), version : Maybe(Valid), caps : Maybe(Capabilities),
     limits : Maybe([LimitKeys -> Numbers])]

\* The bodies of HELLO and WELCOME come out of the other side's parser as they
\* went in, the limits of the hub included, through the map type that CBOR
\* chooses (bodies.go:17-71, 131-189).
BodiesSurvive ==
    \A w \in Welcomes :
        /\ ParseWelcomeBody(Cbor(ToMap(w))) = {w}
        /\ w.limits = {} => ParseHelloBody(Cbor(ToMap(w))) = {w}
=============================================================================
