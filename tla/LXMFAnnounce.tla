---------------------------- MODULE LXMFAnnounce ----------------------------
(***************************************************************************)
(* The application data of announces (pkg/lxmf/helpers.go): written by     *)
(* EncodeAnnounceAppData and its two v0.5.0 forms, read piece by piece by  *)
(* four functions that each decode it anew, and the seven-element data of  *)
(* propagation nodes with its three readers.                               *)
(*                                                                         *)
(* Application data is legacy text, [text |-> s], or a MessagePack array,  *)
(* [items |-> s, count |-> n], whose header says n and which ends after    *)
(* the items s.  A text is a sequence of characters: a letter, a blank, a  *)
(* NUL, and "syriac", a character of U+0700-U+073F, whose first byte in    *)
(* UTF-8, 0xdc, is also the code of an array with a length of two bytes    *)
(* (0xdd, of U+0740-U+077F, is that of one with four).                     *)
(***************************************************************************)
EXTENDS LXMFWire, FiniteSets, SequencesExt

CONSTANTS MaxBytes,   \* maxAnnounceAppDataBytes
          MaxItems,   \* announceAppDataArrayMax
          MaxInt64    \* 2^63 - 1, in place of which any bound will do

SFCompression == 0
PNMetaName == 1

TypeOf(n) ==
    CASE n <= 127 -> "int8"
      [] n \in 128 .. 255 -> "uint8"
      [] n > 255 /\ n <= MaxInt64 -> "uint16"
      [] OTHER -> "uint64"

Number(n) == <<"int", TypeOf(n), n>>

\* The bytes a value takes, for the small values used here.
RECURSIVE SizeOf(_)
SizeOf(w) ==
    CASE w[1] = "bin" -> 2 + Len(w[2])
      [] w[1] = "str" -> 1 + Len(w[2])
      [] w[1] = "int" -> IF w[2] = "int8" THEN 1 ELSE 2
      [] w[1] = "arr" -> 1 + SumFunction([i \in DOMAIN w[2] |-> SizeOf(w[2][i])])
      [] OTHER -> 1

Text(s) == [text |-> s]
Array(s) == [items |-> s, count |-> Len(s)]
IsText(d) == DOMAIN d = {"text"}
Size(d) == IF IsText(d) THEN Len(d.text) ELSE SizeOf(<<"arr", d.items>>)

------------------------------------------------------------------------------
(* The announce of a peer.                                                 *)

EncodeAnnounceAppData(name) == Text(name)

CostElement(cost) == IF cost >= 0 THEN Number(cost) ELSE <<"nil">>

EncodeAnnounceAppDataV5(name, cost) ==
    Array(<<<<"bin", name>>, CostElement(cost)>>)

\* features is a sequence of bytes.
EncodeAnnounceAppDataV5WithFeatures(name, cost, features) ==
    Array(<<<<"bin", name>>, CostElement(cost),
            <<"arr", [i \in DOMAIN features |-> Number(features[i])]>>>>)

\* isMsgpackArray of the first byte: every array, and some text.
isMsgpackArray(d) == IsText(d) => d.text[1] = "syriac"

\* unmarshalMsgpackArray: the elements, or none for an error.  Text that looks
\* like an array announces at least 2^15 elements.
unmarshalMsgpackArray(d) ==
    IF IsText(d) \/ d.count > MaxItems \/ d.count > Len(d.items) THEN {}
    ELSE Product([i \in DOMAIN d.items |-> DecodeInterface(d.items[i], 0)])

\* What the readers begin with: nothing for empty data, an error, the text, or
\* the elements.
Opened(d) ==
    IF Size(d) = 0 THEN <<"empty">>
    ELSE IF Size(d) > MaxBytes THEN <<"error">>
    ELSE IF ~isMsgpackArray(d) THEN <<"text">>
    ELSE IF unmarshalMsgpackArray(d) = {} THEN <<"error">>
    ELSE <<"items", The(unmarshalMsgpackArray(d))>>

RECURSIVE TrimSpace(_)
TrimSpace(s) ==
    IF s # <<>> /\ Head(s) = " " THEN TrimSpace(Tail(s))
    ELSE IF s # <<>> /\ Last(s) = " " THEN TrimSpace(Front(s))
    ELSE s

\* The trimming before the NULs are out.
sanitizeAnnounceDisplayNameTrimmed(s) ==
    SelectSeq(TrimSpace(s), LAMBDA c : c # "nul")

sanitizeAnnounceDisplayName(s) == TrimSpace(SelectSeq(s, LAMBDA c : c # "nul"))

\* The results are <<"error">>, <<"none">> for ok false, or <<"ok", value>>.
DisplayNameFromAppData(d) ==
    LET o == Opened(d) IN
    CASE o[1] = "empty" -> <<"ok", <<>>>>
      [] o[1] = "text" -> <<"ok", d.text>>
      [] o[1] = "error" -> <<"error">>
      [] o[1] = "items" ->
            IF o[2] = <<>> \/ o[2][1][1] = "nil" THEN <<"ok", <<>>>>
            ELSE IF o[2][1][1] \in {"bin", "str"}
            THEN <<"ok", sanitizeAnnounceDisplayName(o[2][1][2])>>
            ELSE <<"error">>

\* asInt64, and the switch in StampCostFromAppData.
asInt64(v) == IF v[1] = "int" /\ v[3] <= MaxInt64 THEN {v[3]} ELSE {}

StampCostFromAppData(d) ==
    LET o == Opened(d) IN
    CASE o[1] = "error" -> <<"error">>
      [] o[1] = "items" ->
            IF Len(o[2]) >= 2 /\ \E n \in asInt64(o[2][2]) : n >= 0
            THEN <<"ok", The(asInt64(o[2][2]))>> ELSE <<"none">>
      [] OTHER -> <<"none">>

HasList(o) == Len(o[2]) >= 3 /\ o[2][3][1] = "arr"

CompressionSupportFromAppData(d) ==
    LET o == Opened(d) IN
    CASE o[1] = "empty" -> <<"none">>
      [] o[1] = "error" -> <<"error">>
      [] o[1] = "text" -> <<"ok", TRUE>>
      [] o[1] = "items" ->
            <<"ok", HasList(o) => \E i \in DOMAIN o[2][3][2] :
                                     SFCompression \in asInt64(o[2][3][2][i])>>

\* The codes, as a set.
FeatureSupportFromAppData(d) ==
    LET o == Opened(d) IN
    CASE o[1] = "error" -> <<"error">>
      [] o[1] = "items" ->
            IF HasList(o)
            THEN <<"ok", UNION {asInt64(o[2][3][2][i]) \cap 0 .. 255 :
                                   i \in DOMAIN o[2][3][2]}>>
            ELSE <<"none">>
      [] OTHER -> <<"none">>

------------------------------------------------------------------------------
(* The announce of a propagation node.                                     *)

\* DecodeInt64 wraps a large uint64 around, takes nil for 0 and takes floats
\* that are whole numbers.
DecodeInt64(w) ==
    CASE w[1] = "int" ->
            {IF w[3] > MaxInt64 THEN w[3] - 2 * (MaxInt64 + 1) ELSE w[3]}
      [] w[1] = "nil" -> {0}
      [] w[1] = "float" -> {w[2]}
      [] OTHER -> {}

DecodeBool(w) == CASE w[1] = "bool" -> {w[2]} [] w[1] = "nil" -> {FALSE}
                   [] OTHER -> {}

\* decodePNAnnounceArray stops at the first element of the wrong type, with an
\* error if the data ends there and for a sixth element that is no array, and
\* with an empty result otherwise.  Text is no array, or one of 2^15 elements
\* and more if its header is whole: the two bytes after a "syriac"'s first.
decodePNAnnounceArray(d) ==
    LET w == d.items
        bad(i) == CASE i \in {2, 4, 5} -> DecodeInt64(w[i]) = {}
                    [] i = 3 -> DecodeBool(w[i]) = {}
                    [] i = 6 -> \/ w[6][1] # "arr"
                                \/ Len(w[6][2]) # 3
                                \/ \E k \in 1 .. 3 : DecodeInt64(w[6][2][k]) = {}
                    [] i = 7 -> DecodeInterface(w[7], 0) = {}
                    [] OTHER -> FALSE
        stops == {i \in 1 .. 7 : IF i > Len(w) THEN TRUE ELSE bad(i)}
        first == CHOOSE i \in stops : \A j \in stops : i <= j
        long == d.text[1] = "syriac" /\ Len(d.text) > 1
    IN IF IsText(d) THEN <<IF d.text = <<>> \/ long THEN "none" ELSE "error">>
       ELSE IF d.count # 7 THEN <<"none">>
       ELSE IF stops = {} THEN <<"ok", [costs |-> [k \in 1 .. 3 |->
                                           The(DecodeInt64(w[6][2][k]))],
                                        meta |-> The(DecodeInterface(w[7], 0))]>>
       ELSE IF \/ first > Len(w) \/ first = 7
               \/ first = 6 /\ w[6][1] \notin {"arr", "nil"}
       THEN <<"error">> ELSE <<"none">>

pnAnnounceShapeValid(r) == r[1] = "ok" /\ r[2].meta[1] = "map"

\* The checks on the elements repeat what the decoder made sure of, but for
\* the metadata.
PNAnnounceDataIsValid(d) ==
    LET r == decodePNAnnounceArray(d) IN r[1] = "ok" /\ r[2].meta[1] = "map"

PNStampCostFromAppData(d) ==
    LET r == decodePNAnnounceArray(d) IN
    IF r[1] = "error" THEN <<"error">>
    ELSE IF pnAnnounceShapeValid(r) /\ r[2].costs[1] >= 0
    THEN <<"ok", r[2].costs[1]>> ELSE <<"none">>

\* lookupAnyKey takes the first entry it meets: every name it can find.
PNNameFromAppData(d) ==
    LET r == decodePNAnnounceArray(d)
        name(v) == IF v[1] \in {"bin", "str"} THEN <<"ok", v[2]>> ELSE <<"none">>
        found == {k \in DOMAIN r[2].meta[2] : PNMetaName \in asInt64(k)}
    IN IF r[1] = "error" THEN {<<"error">>}
       ELSE IF ~pnAnnounceShapeValid(r) \/ found = {} THEN {<<"none">>}
       ELSE {name(r[2].meta[2][k]) : k \in found}

------------------------------------------------------------------------------
(* Properties, over small data.                                            *)

Names == UNION {[1 .. n -> {"a", " ", "nul", "syriac"}] : n \in 0 .. 3}
         \cup {[i \in 1 .. n |-> "a"] : n \in {MaxBytes, MaxBytes + 1}}

AnnouncedCosts == {-1, 0, 127, 128, 256, MaxInt64}
FeatureLists == UNION {[1 .. n -> {0, 1, 255}] : n \in 0 .. 2}

\* A legacy announce gives back the name it was made from exactly if the name
\* does not start with a character of U+0700-U+077F and is not too long: such
\* a name is taken for an array that no reader can decode (helpers.go:23, 253).
LegacyNameSurvives ==
    \A n \in Names :
        DisplayNameFromAppData(EncodeAnnounceAppData(n)) =
            IF n # <<>> /\ (n[1] = "syriac" \/ Len(n) > MaxBytes)
            THEN <<"error">> ELSE <<"ok", n>>

\* What is left of a name between its outer blanks and NULs, without NULs.
Clean(n) ==
    LET solid == {i \in DOMAIN n : n[i] \notin {" ", "nul"}} IN
    IF solid = {} THEN <<>>
    ELSE SelectSeq(SubSeq(n, CHOOSE i \in solid : \A j \in solid : i <= j,
                             CHOOSE i \in solid : \A j \in solid : j <= i),
                   LAMBDA c : c # "nul")

\* A v0.5.0 announce, with or without a list of features, gives every reader
\* what it was made from, and an error to all of them if it is too long: no
\* encoder checks the length (helpers.go:15, 84, 143, 154, 182, 217).
AnnounceSurvives ==
    \A n \in Names, c \in AnnouncedCosts, given \in {{}} \cup {{f} : f \in FeatureLists} :
        LET codes == Range(The(given))
            d == IF given = {} THEN EncodeAnnounceAppDataV5(n, c)
                 ELSE EncodeAnnounceAppDataV5WithFeatures(n, c, The(given))
            read == <<DisplayNameFromAppData(d), StampCostFromAppData(d),
                      FeatureSupportFromAppData(d),
                      CompressionSupportFromAppData(d)>>
        IN read = IF Size(d) > MaxBytes THEN [i \in 1 .. 4 |-> <<"error">>]
                  ELSE <<<<"ok", Clean(n)>>,
                         IF c < 0 THEN <<"none">> ELSE <<"ok", c>>,
                         IF given = {} THEN <<"none">> ELSE <<"ok", codes>>,
                         <<"ok", given = {} \/ SFCompression \in codes>>>>

Items == {<<"nil">>, <<"bool", TRUE>>, <<"bin", <<"a">>>>, <<"int", "int8", -1>>,
          <<"int", "uint8", 0>>, <<"int", "uint64", MaxInt64 + 1>>,
          <<"arr", <<>>>>, <<"arr", <<<<"int", "uint16", 256>>>>>>,
          <<"arr", <<<<"bin", <<>>>>, <<"int", "uint8", 0>>>>>>,
          <<"map", <<<<<<"bin", <<>>>>, <<"nil">>>>>>>>}

Foreign == {Text(n) : n \in Names}
           \cup {[items |-> s, count |-> Len(s) + k] :
                    s \in UNION {[1 .. n -> Items] : n \in 0 .. 3}, k \in 0 .. 1}
           \cup {Array([i \in 1 .. n |-> <<"nil">>]) : n \in 4 .. MaxItems + 1}

\* On any data, the four readers fail together (that of the name also on a
\* name of the wrong type), and a peer is taken to support compression exactly
\* if it sends no list of features or one that has the code, read as a byte
\* the same way by both readers (helpers.go:209, 245).
ReadersAgree ==
    \A d \in Foreign :
        LET feature == FeatureSupportFromAppData(d)
            compression == CompressionSupportFromAppData(d)
            fails(r) == r[1] = "error"
        IN /\ fails(feature) <=> fails(StampCostFromAppData(d))
           /\ fails(feature) <=> fails(compression)
           /\ fails(feature) => fails(DisplayNameFromAppData(d))
           /\ compression[1] = "ok" =>
                 compression[2] = (feature[1] = "ok" => SFCompression \in feature[2])

PNItems(i) ==
    CASE i = 1 -> {<<"nil">>, <<"bin", <<>>>>}
      [] i \in {2, 4, 5} -> {<<"int", "int8", 5>>, <<"nil">>, <<"bin", <<>>>>}
      [] i = 3 -> {<<"bool", TRUE>>, <<"int", "int8", 0>>}
      [] i = 6 -> {<<"arr", <<c, <<"nil">>, <<"float", 3>>>>>> :
                      c \in {<<"int", "int8", -1>>, <<"int", "uint64", MaxInt64 + 1>>,
                             <<"int", "int8", 16>>, <<"str", <<>>>>}}
                  \cup {<<"arr", <<>>>>, <<"nil">>, <<"bool", TRUE>>}
      [] i = 7 -> {<<"nil">>} \cup
                  {<<"map", s>> : s \in UNION {[1 .. n ->
                     {<<<<"int", "int8", 1>>, <<"bin", <<"a">>>>>>,
                      <<<<"int", "uint8", 1>>, <<"str", <<"b">>>>>>,
                      <<<<"bin", <<>>>>, <<"nil">>>>}] : n \in 0 .. 2}}

PNData == {Text(<<>>), Text(<<"a">>), Text(<<"syriac">>), Text(<<"syriac", "a">>),
           Array(<<<<"nil">>>>)} \cup
          {[items |-> SubSeq(s, 1, n), count |-> 7] :
              s \in Product([i \in 1 .. 7 |-> PNItems(i)]), n \in 5 .. 7}

\* An announce that PNAnnounceDataIsValid lets into the registry can be read by
\* the two readers without an error, which ReceivedAnnounce would return; no
\* other announce has a cost or a name; and the cost is what the node wrote,
\* a wrapped or negative one being none (helpers.go:258, 296, 313,
\* propagation.go:49-62).
ValidIsReadable ==
    \A d \in PNData :
        LET cost == PNStampCostFromAppData(d)
            names == PNNameFromAppData(d)
        IN IF PNAnnounceDataIsValid(d)
           THEN /\ <<"error">> \notin names
                /\ cost = IF d.items[6][2][1] = <<"int", "int8", 16>>
                          THEN <<"ok", 16>> ELSE <<"none">>
           ELSE /\ cost \in {<<"error">>, <<"none">>}
                /\ names = {cost}
=============================================================================
