----------------------------- MODULE RRCMessages -----------------------------
(***************************************************************************)
(* The RRC client with the formats of what it sends and receives, and what *)
(* the formats rest on: the contract of the CBOR library.                  *)
(***************************************************************************)
EXTENDS RRCClient, Sequences

CONSTANTS
  IdentityLength, MessageIDLength, MaxNickBytes,
  Cbor(_), Decodable(_),
  Numbers, ByteStrings, Strings, Bodies, Capabilities, Raws,
  Nested,    \* arrays and maps, with all those in them
  Characters, Nicks

Envelope == INSTANCE RRCEnvelope
Nick == INSTANCE RRCNick

Scalars ==
  {<<"nil">>} \cup {<<"uint", n>> : n \in Numbers} \cup {<<"int", -n>> : n \in Numbers \ {0}}
  \cup {<<"bytes", s>> : s \in ByteStrings} \cup Envelope!Texts

Values == Scalars \cup Nested

\* What is no array or map is decoded as it was, but for a string that is not
\* UTF-8, which is refused; a map is decoded as a map[any]any with uint64 keys;
\* and what has been decoded is encoded and decoded to itself.
ASSUME CodecAssumption ==
  /\ \A v \in Scalars : Cbor(v) = v /\ (Decodable(v) <=> (v[1] = "text" => v[3]))
  /\ \A v \in Nested :
       /\ v[1] \in {"arr", "map", "anymap"}
       /\ v[1] = "map" =>
            Cbor(v) = <<"anymap", [k \in {<<"uint", n>> : n \in DOMAIN v[2]} |-> Cbor(v[2][k[2]])]>>
       /\ Cbor(v) \in Nested /\ Cbor(Cbor(v)) = Cbor(v)
       /\ Decodable(Cbor(v)) <=> Decodable(v)

\* The inputs are made of such values.
ASSUME InputAssumption ==
  /\ 1 \in Numbers /\ Numbers \subseteq Nat
  /\ Bodies \subseteq Values
  /\ \A c \in Capabilities : c \in [DOMAIN c -> Scalars]
  /\ \A raw \in Raws : raw \in [DOMAIN raw -> Values]
  /\ \A w \in Envelope!Welcomes : Envelope!ToMap(w) \in Values
  /\ \A v \in Nested : \A k \in DOMAIN v[2] : v[2][k] \in Values
  /\ Nicks \subseteq Seq(Characters)
  /\ MaxNickBytes \in Nat

\* What arrives of an envelope that a session sends, what the hub forwards of
\* one that it accepts, and what the parsers make of the bodies of HELLO and
\* WELCOME (envelope.go:45-150, hub.go:444, bodies.go).
EnvelopeSurvives ==
  Init => /\ Envelope!EnvelopeSurvives
          /\ Envelope!ForwardedArrives
          /\ Envelope!BodiesSurvive

\* What a hub calls its client after a message, and what it does not take over
\* of the client's nickname (room.go, hub.go:243-253).
NickAgrees == Init => Nick!NickAgrees

\* Sanitizing a nickname twice is the same as once, as two tests demand
\* (property_oracle_test.go:83-89, mutation_fuzz_test.go:63-65).
NickIdempotent == Init => Nick!SanitizeNickIdempotent
=============================================================================
