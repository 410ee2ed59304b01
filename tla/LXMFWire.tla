------------------------------ MODULE LXMFWire ------------------------------
(***************************************************************************)
(* MessagePack as pkg/lxmf reads it: the vendored DecodeInterface with the *)
(* map decoder of message.go:617.                                          *)
(*                                                                         *)
(* A value on the wire is a tuple that starts with its kind:               *)
(*   <<"nil">>  <<"bool", b>>  <<"float", n>>  <<"bin", s>>  <<"str", s>>  *)
(*   <<"int", t, n>>    t names the wire code, hence the Go type it gets   *)
(*   <<"arr", s>>       s is the sequence of the elements                  *)
(*   <<"map", s>>       s is the sequence of <<key, value>> pairs          *)
(* A decoded value is the same, with a function in place of the pairs: a   *)
(* map[any]any keeps an int8 and a uint8 of the same number apart.         *)
(* Extension types, which nothing in the package writes, are left out.     *)
(***************************************************************************)
EXTENDS Integers, Sequences

CONSTANTS MaxDepth,  \* msgpackMapMaxDepth
          MaxPairs   \* msgpackMapMaxPairs

The(S) == CHOOSE x \in S : TRUE

\* The sequences whose i-th element is drawn from the i-th set.
Product(sets) ==
    LET upTo[n \in 0 .. Len(sets)] ==
            IF n = 0 THEN {<<>>}
            ELSE {Append(s, x) : s \in upTo[n - 1], x \in sets[n]}
    IN upTo[Len(sets)]

\* reflect.Type.Comparable of the decoded kinds.
Comparable(v) == v[1] \notin {"bin", "arr", "map"}

\* decodeMap, after its keys and values: nothing below the depth limit, no
\* oversized map and no key that Go cannot hash; the last entry of a key wins.
decodeMap(pairs, keys, values, depth) ==
    LET last(k) == CHOOSE i \in DOMAIN keys :
                      /\ k \in keys[i]
                      /\ \A j \in DOMAIN keys : k \in keys[j] => j <= i
    IN IF \/ depth >= MaxDepth
          \/ Len(pairs) > MaxPairs
          \/ \E i \in DOMAIN keys : \/ keys[i] = {} \/ values[i] = {}
                                    \/ ~Comparable(The(keys[i]))
       THEN {}
       ELSE {<<"map", [k \in {The(keys[i]) : i \in DOMAIN keys} |->
                          The(values[last(k)])]>>}

\* DecodeInterfaceLoose of what is no array and no map.
Loose(v) ==
    CASE v[1] = "bin" -> <<"str", v[2]>>
      [] v[1] = "int" -> <<"int", IF v[2] \in {"uint8", "uint16", "uint32", "uint64"}
                                  THEN "uint64" ELSE "int64", v[3]>>
      [] OTHER -> v

\* DecodeInterface: the decoded value, or none.  UseLooseInterfaceDecoding is
\* about the elements of arrays only: a map is left to decodeMap, which asks
\* for DecodeInterface wherever the map stands.
RECURSIVE DecodeInterface(_, _)
DecodeInterface(w, depth) ==
    CASE w[1] = "arr" -> {<<"arr", s>> : s \in Product([i \in DOMAIN w[2] |->
            {Loose(v) : v \in DecodeInterface(w[2][i], depth)}])}
      [] w[1] = "map" ->
            LET side(n) == [i \in DOMAIN w[2] |->
                               DecodeInterface(w[2][i][n], depth + 1)]
            IN decodeMap(w[2], side(1), side(2), depth)
      [] OTHER -> {w}
=============================================================================
