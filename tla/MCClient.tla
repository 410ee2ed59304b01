------------------------------- MODULE MCClient -------------------------------
(***************************************************************************)
(* Instances of RRCClient for TLC, with the formats of its messages.       *)
(***************************************************************************)
EXTENDS RRCMessages, TLC

CONSTANTS c1, c2, c3, c4, c5, r1

\* A JOIN, content for the room, a PART, a Close and a JOIN without a room.
MCOp == [c \in Calls |->
  CASE c \in {c1, c5} -> "JOIN" [] c = c2 -> "MSG" [] c = c3 -> "PART" [] c = c4 -> "CLOSE"]
MCRoomOf == [c \in Calls |-> IF c \in {c4, c5} THEN NoRoom ELSE r1]

Codec == INSTANCE RRCCodec
MCCbor(v) == Codec!Recoded(v)
MCDecodable(v) == Codec!Readable(v)

\* Identifiers and identities of the right length and of the other's.
MCByteStrings == {<<"x">>, <<"x", "x">>, <<"y", "y">>}
MCStrings == {<<>>, <<"x">>}

\* The Scalars of these, written out: what a constant of RRCEnvelope stands for
\* may not be defined by an operator of its instance.
MCScalars ==
  {<<"nil">>, <<"uint", 0>>, <<"uint", 1>>, <<"int", -1>>}
  \cup {<<"bytes", s>> : s \in MCByteStrings}
  \cup {<<"text", t, valid>> : t \in MCStrings, valid \in BOOLEAN}

\* Every scalar alone, in an array, in a map and in a map of a map.
MCBodies ==
  MCScalars \cup {<<"arr", <<v>>>> : v \in MCScalars}
  \cup {<<"map", [k \in {3} |-> v]>> : v \in MCScalars}
  \cup {<<"map", [k \in {2} |-> <<"map", [j \in {0} |-> v]>>]>> : v \in MCScalars}

MCCapabilities == {<<>>, [k \in {0, 9} |-> <<"uint", 1>>]}

\* Maps with and without the optional and some required keys, with identifiers
\* of the right and the wrong length and type, and any scalar in the others.
MCRaws ==
  {[k \in d |-> CASE k = 2 -> i [] k = 4 -> s [] k \in 5 .. 7 -> v [] OTHER -> <<"uint", 1>>] :
     d \in {(0 .. 9) \ x : x \in SUBSET {1, 2, 5, 6, 7}},
     i \in {<<"bytes", <<"x">>>>, <<"bytes", <<"x", "x">>>>, <<"uint", 1>>},
     s \in {<<"bytes", <<"x">>>>, <<"bytes", <<"x", "x">>>>},
     v \in MCScalars}

\* The containers among the bodies, those in them, and what they are decoded as.
MCNested ==
  LET maps == {<<"map", f>> : f \in MCCapabilities}
              \cup {<<"map", [k \in {0} |-> v]>> : v \in Scalars}
              \cup {Envelope!LimitsToMap(l) : l \in [0 .. 4 -> Numbers]}
      sent == (MCBodies \ Scalars) \cup maps
              \cup ({Envelope!ToMap(w) : w \in Envelope!Welcomes} \ {<<"nil">>})
  IN sent \cup {MCCbor(v) : v \in sent}

MCNicks == UNION {[1 .. n -> {"a", " ", "nl", "ctl"}] : n \in 0 .. 4}
=============================================================================
