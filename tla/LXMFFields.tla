----------------------------- MODULE LXMFFields -----------------------------
(***************************************************************************)
(* The payload of an LXMessage on its way: encodePayload at the sender,    *)
(* decodePayloadAndSplit and applyPayload at the receiver, with the        *)
(* normalisation of the Fields map (message.go:476-782).                   *)
(*                                                                         *)
(* A value of the application is a tuple as in LXMFWire, an integer being  *)
(* <<"int", n>> and a map a function on such values.                       *)
(***************************************************************************)
EXTENDS LXMFWire, FiniteSets, SequencesExt

\* The code that UseCompactInts picks for a number, as the Go type it gets.
CompactType(n) ==
    CASE n \in -128 .. 127 -> "int8"
      [] n \in 128 .. 255 -> "uint8"
      [] OTHER -> "uint16"

\* Encode: the wire forms of a value; a map is walked in any order.
RECURSIVE Encode(_)
Encode(v) ==
    CASE v[1] = "int" -> {<<"int", CompactType(v[2]), v[2]>>}
      [] v[1] = "arr" -> {<<"arr", s>> : s \in
            Product([i \in DOMAIN v[2] |-> Encode(v[2][i])])}
      [] v[1] = "map" -> UNION {
            {<<"map", s>> : s \in Product([i \in DOMAIN order |->
                Encode(order[i]) \X Encode(v[2][order[i]])])} :
               order \in SetToSeqs(DOMAIN v[2])}
      [] OTHER -> {v}

\* payloadList and encodePayload: the elements of the payload array.
encodePayload(p) ==
    Product(<<Encode(p.timestamp), Encode(p.title), Encode(p.content),
              Encode(p.fields)>>
            \o (IF p.stamp = <<"nil">> THEN <<>> ELSE <<Encode(p.stamp)>>))

------------------------------------------------------------------------------
(* The receiver.  A result is the set of the values it can have, empty for *)
(* an error.                                                               *)

asBytes(v) ==
    CASE v[1] = "nil" -> {<<"nil">>}
      [] v[1] \in {"bin", "str"} ->
            {IF v[2] = <<>> THEN <<"nil">> ELSE <<"bin", v[2]>>}
      [] OTHER -> {}

\* A key check that lets 256 through.
asByteKeyWide(k) == IF k[1] = "int" /\ k[3] \in 0 .. 256 THEN {k[3]} ELSE {}

asByteKey(k) == IF k[1] = "int" /\ k[3] \in 0 .. 255 THEN {k[3]} ELSE {}

\* asFields, for the results that normalizeFieldValue has for the values: one
\* bad entry is an error; of two keys that are the same byte, the one that the
\* walk over the Go map meets last wins.
asFields(m, normal) ==
    LET bytes == UNION {asByteKey(k) : k \in DOMAIN m}
        from(b) == UNION {normal[k] : k \in {j \in DOMAIN m : b \in asByteKey(j)}}
    IN IF \E k \in DOMAIN m : asByteKey(k) = {} \/ normal[k] = {} THEN {}
       ELSE {<<"map", f>> : f \in {g \in [bytes -> UNION {from(b) : b \in bytes}] :
                                      \A b \in bytes : g[b] \in from(b)}}

RECURSIVE normalizeFieldValue(_)
normalizeFieldValue(v) ==
    CASE v[1] = "map" ->
            asFields(v[2], [k \in DOMAIN v[2] |-> normalizeFieldValue(v[2][k])])
      [] v[1] = "arr" -> {<<"arr", s>> : s \in
            Product([i \in DOMAIN v[2] |-> normalizeFieldValue(v[2][i])])}
      [] OTHER -> {v}

\* applyPayload.  The fields are a map or nil.
applyPayload(payload) ==
    IF \/ Len(payload) < 4
       \/ payload[1][1] \notin {"int", "float"}
       \/ payload[4][1] \notin {"nil", "map"}
    THEN {}
    ELSE {[timestamp |-> payload[1], title |-> t, content |-> c, fields |-> f,
           stamp |-> s] :
             t \in asBytes(payload[2]), c \in asBytes(payload[3]),
             f \in normalizeFieldValue(payload[4]),
             s \in IF Len(payload) > 4 THEN asBytes(payload[5]) ELSE {<<"nil">>}}

\* decodePayloadAndSplit, then applyPayload.
Unpack(elements) ==
    IF Len(elements) \notin 4 .. 5 THEN {}
    ELSE UNION {applyPayload(p) : p \in
            Product([i \in DOMAIN elements |-> DecodeInterface(elements[i], 0)])}

------------------------------------------------------------------------------
(* Properties, over small values.                                          *)

ByteNumbers == {<<"int", 1>>, <<"int", 255>>}
Keys == ByteNumbers \cup {<<"int", -1>>, <<"int", 256>>, <<"str", <<"k">>>>, <<"nil">>}
Leaves == {<<"nil">>, <<"int", 128>>, <<"bin", <<"x">>>>, <<"str", <<>>>>}

MapsOn(keys, values, size) ==
    UNION {{<<"map", f>> : f \in [d -> values]} :
              d \in {e \in SUBSET keys : Cardinality(e) <= size}}

Inner == MapsOn(Keys, Leaves, 2)
Deep == MapsOn(ByteNumbers, MapsOn(ByteNumbers, {<<"nil">>, <<"map", <<>>>>}, 2), 1)
Lists == {<<"arr", <<v>>>> : v \in Inner \cup Leaves}
         \cup {<<"arr", <<v, <<"arr", <<v, w>>>>>>>> : v, w \in Leaves}
Fields == MapsOn(ByteNumbers, Leaves \cup Inner \cup Lists, 1)
          \cup MapsOn(ByteNumbers, Leaves, 2)
          \cup MapsOn(ByteNumbers, Deep, 1)

RECURSIVE Depth(_)
Depth(v) ==
    LET deepest(S) == IF S = {} THEN 0 ELSE CHOOSE n \in S : \A k \in S : k <= n
    IN CASE v[1] = "map" -> 1 + deepest({Depth(v[2][k]) : k \in DOMAIN v[2]})
         [] v[1] = "arr" -> deepest({Depth(v[2][i]) : i \in DOMAIN v[2]})
         [] OTHER -> 0

RECURSIVE ByteKeys(_)
ByteKeys(v) ==
    CASE v[1] = "map" -> \A k \in DOMAIN v[2] : k \in ByteNumbers /\ ByteKeys(v[2][k])
      [] v[1] = "arr" -> \A i \in DOMAIN v[2] : ByteKeys(v[2][i])
      [] OTHER -> TRUE

\* A received value as the sender would write it.
RECURSIVE AsSent(_)
AsSent(v) ==
    CASE v[1] = "int" -> <<"int", v[3]>>
      [] v[1] = "arr" -> <<"arr", [i \in DOMAIN v[2] |-> AsSent(v[2][i])]>>
      [] v[1] = "map" -> <<"map", [k \in {<<"int", b>> : b \in DOMAIN v[2]} |->
                                      AsSent(v[2][k[2]])]>>
      [] OTHER -> v

\* A value with the bytes that stand in an array turned to text.
RECURSIVE Texted(_)
Texted(v) ==
    CASE v[1] = "arr" -> <<"arr", [i \in DOMAIN v[2] |->
            IF v[2][i][1] = "bin" THEN <<"str", v[2][i][2]>> ELSE Texted(v[2][i])]>>
      [] v[1] = "map" -> <<"map", [k \in DOMAIN v[2] |-> Texted(v[2][k])]>>
      [] OTHER -> v

Texts == {<<"nil">>, <<"bin", <<"x">>>>}

Payloads ==
    [timestamp : {<<"float", 1>>}, title : {<<"bin", <<"x">>>>}, content : {<<"nil">>},
     fields : Fields, stamp : {<<"nil">>}]
    \cup [timestamp : {<<"float", 1>>}, title : Texts, content : Texts,
          fields : MapsOn(ByteNumbers, Leaves, 2) \cup {<<"nil">>}, stamp : Texts]

\* What a sender packs, the receiver unpacks to the same message, whatever the
\* order its encoder walks the maps in, exactly if every map in the fields has
\* bytes for keys and they nest no deeper than the receiver's limit: Pack
\* takes the other messages too, and the receiver refuses the whole message.
\* Bytes arrive as bytes in a field and in a map at any depth, in an array as
\* text: the receiver decodes loosely (message.go:262, 551, 618, 698).
FieldsSurvive ==
    \A p \in Payloads : \A w \in encodePayload(p) :
        {[g EXCEPT !.fields = AsSent(@)] : g \in Unpack(w)} =
            IF ByteKeys(p.fields) /\ Depth(p.fields) <= MaxDepth
            THEN {[p EXCEPT !.fields = Texted(@)]} ELSE {}

Spelled == {<<"int", "int8", 1>>, <<"int", "uint8", 1>>, <<"int", "uint16", 1>>,
            <<"int", "int8", 2>>}
Pairs == Spelled \X {<<"nil">>, <<"bool", TRUE>>}

\* A map that has been decoded is read in more than one way, by the order in
\* which Go walks it, exactly if it writes one field in two number formats
\* with different values; a repeated field in one format is settled by the
\* order on the wire (message.go:647, 706).
OneReading ==
    \A s \in UNION {[1 .. n -> Pairs] : n \in 0 .. 3} :
        LET m == DecodeInterface(<<"map", s>>, 0)
            ways == UNION {normalizeFieldValue(v) : v \in m}
        IN Len(s) <= MaxPairs =>
             /\ ways # {}
             /\ Cardinality(ways) > 1 <=>
                   \E v \in m : \E j, k \in DOMAIN v[2] :
                       j[3] = k[3] /\ v[2][j] # v[2][k]
=============================================================================
