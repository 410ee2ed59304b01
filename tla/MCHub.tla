-------------------------------- MODULE MCHub --------------------------------
(* Instances of RRCHub for TLC. *)
EXTENDS RRCHub, TLC
CONSTANTS a, b, c, k1, k2, r1, r2, p1, p2, p3, p4, p5

\* a and b are two links of the same identity, c is another peer's.
MCIdOf == [l \in Links |-> IF l = c THEN k2 ELSE k1]

Env(t, r) == [type |-> t, room |-> r, nick |-> "none", body |-> "ok"]
Hello == Env("HELLO", NoRoom)
BadHello == [Hello EXCEPT !.nick = "long"]

\* The identity k1 comes back on link b while packets of a are in flight; the
\* last packet of b is a JOIN, a PING or another HELLO, with
\* an acceptable nickname or not.
ReconnectTraffic == [p \in Packets |->
  CASE p = p1 -> {<<a, Env("JOIN", r1)>>}
    [] p = p2 -> {<<a, Env("PART", r1)>>}
    [] p = p3 -> {<<b, Hello>>}
    [] p = p4 -> {<<b, Env("JOIN", r1)>>, <<b, Env("PING", NoRoom)>>, <<b, BadHello>>,
                  <<b, Hello>>}]

\* Two welcomed peers talk in two rooms.
RelayTraffic == [p \in Packets |->
  CASE p = p1 -> {<<a, Env("JOIN", r1)>>, <<a, Env("JOIN", LongRoom)>>}
    [] p = p2 -> {<<a, Env("JOIN", r2)>>, <<a, Env("PART", r1)>>}
    [] p = p3 -> {<<c, Env("JOIN", r1)>>}
    [] p = p4 -> {<<a, Env("MSG", r1)>>, <<a, [Env("MSG", r1) EXCEPT !.body = "bad"]>>,
                  <<a, Env("MSG", NoRoom)>>}
    [] p = p5 -> {<<c, Env("PART", r1)>>, <<c, Env("MSG", r1)>>}]

\* Two HELLOs of one session.
TwoHelloTraffic == [p \in Packets |-> {<<a, Hello>>}]
=============================================================================
