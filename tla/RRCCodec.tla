------------------------------- MODULE RRCCodec -------------------------------
(***************************************************************************)
(* CBOR as the RRC package uses it: a value encoded, and decoded into an   *)
(* `any`.  The values are those of RRCEnvelope.                            *)
(***************************************************************************)

\* Maps come back as map[any]any with uint64 keys.
RECURSIVE Recoded(_)
Recoded(v) ==
    CASE v[1] = "arr" -> <<"arr", [i \in DOMAIN v[2] |-> Recoded(v[2][i])]>>
      [] v[1] = "map" -> <<"anymap", [k \in {<<"uint", n>> : n \in DOMAIN v[2]} |->
                                         Recoded(v[2][k[2]])]>>
      [] v[1] = "anymap" -> <<"anymap", [k \in DOMAIN v[2] |-> Recoded(v[2][k])]>>
      [] OTHER -> v

\* The encoder takes any string, the decoder refuses one that is not UTF-8.
RECURSIVE Readable(_)
Readable(v) ==
    CASE v[1] = "text" -> v[3]
      [] v[1] = "arr" -> \A i \in DOMAIN v[2] : Readable(v[2][i])
      [] v[1] \in {"map", "anymap"} -> \A k \in DOMAIN v[2] : Readable(v[2][k])
      [] OTHER -> TRUE
=============================================================================
