------------------------- MODULE LXMFMessengerProofs -------------------------
(***************************************************************************)
(* What a Messenger transmits, for any number of sends, contents, nodes    *)
(* and costs.                                                              *)
(*                                                                         *)
(* The properties speak of what was sent.  They rest on what the message   *)
(* holds between two steps of a call, which depends on how far the call    *)
(* got: after the first Pack the hash is one of the current content, after *)
(* the second Packed has the stamp and the current content.  Where the     *)
(* encoder has a choice, signature and stamp are of the content sent; only *)
(* where it has none are they of the bytes sent.                           *)
(*                                                                         *)
(* TypeInv adds what a call holds of the nodes: an upload is of the cost   *)
(* of its node, and a retry is at a place among its candidates.  The order *)
(* of the candidates is a fact about the registry alone: a finite set of   *)
(* nodes can be sorted, and what AttemptOrder puts in front and cuts off   *)
(* keeps the rest in order.                                                *)
(*                                                                         *)
(* Last, the encoding of the compact message of pkg/mf.                    *)
(***************************************************************************)
EXTENDS Messengers, FiniteSetTheorems, TLAPS

\* Of PropagationPacked only the step that makes it matters here.
Known(m) ==
    m \in [content : Contents, stamp : Stamps \cup {None},
           hash : Payloads \cup {None}, packed : Wires \cup {None},
           prop : {m.prop}, sent : BOOLEAN]

\* The signature is of the content, and of the payload unless there is a stamp
\* beside several fields.
Covered(w) ==
    /\ w.sig.content = w.payload.content
    /\ w.stamp = None \/ OneEncoding(w.payload.content) => Verify(w)

\* The stamp is of the content, and of the payload unless there are several
\* fields.
Accepted(w, cost) ==
    /\ ValidateStamp(w, 0) /\ w.stamp.cost >= cost
    /\ w.stamp.of.content = w.payload.content
    /\ OneEncoding(w.payload.content) => ValidateStamp(w, cost)

\* Packed, if there is one, carries a signature of its own content.
Verified(m) == m.packed # None => Covered(m.packed)

\* Packed is there and holds the current content.
Current(m) == m.packed # None /\ m.packed.payload.content = m.content

\* The stamp is one for the current content, of this cost.
Stamped(m, cost) ==
    m.stamp # None /\ m.stamp.of \in encodePayload(m) /\ m.stamp.cost = cost

\* What a call has made of the message when it comes to transmitting it.
Ready(m, c) ==
    /\ c.via = "direct" \/ (c.via # "opportunistic" /\ c.stamped) => Current(m)
    /\ c.cost > 0 =>
          IF c.via = "opportunistic" THEN Stamped(m, c.cost)
                                     ELSE Accepted(m.packed, c.cost)

CallOK(c) ==
    /\ c \in [pc : {"idle", "stamp", "transmit", "attempt"}, via : Vias,
              stamped : BOOLEAN, cost : Costs, node : {c.node},
              pnCost : {c.pnCost}, attempts : {c.attempts}, cands : {c.cands},
              next : {c.next}]
    /\ c.cost > 0 => c.stamped
    /\ c.pc = "stamp" => c.cost > 0
    /\ c.pc = "attempt" => c.via = "retry"

SentOK(s) ==
    /\ Covered(s.wire)
    /\ s.cost > 0 => Accepted(s.wire, s.cost)
    /\ s.stamped \/ s.via \in {"opportunistic", "direct"} =>
          s.wire.payload.content = s.content
    /\ s.pnCost = s.need

\* The inductive invariant.
SendInv ==
    /\ Known(msg) /\ Verified(msg) /\ CallOK(call)
    /\ call.pc = "stamp" => msg.hash \in encodePayload(msg)
    /\ call.pc \in {"transmit", "attempt"} => Ready(msg, call)
    /\ \A s \in sends : SentOK(s)

------------------------------------------------------------------------------
(* The operators of LXMFMessage.                                             *)

\* An encoding has the content of the message, and there is one if the encoder
\* has no choice.
LEMMA Encoded ==
    ASSUME NEW m, m.content \in Contents, NEW h \in encodePayload(m)
    PROVE  /\ h \in Payloads /\ h.content = m.content
           /\ OneEncoding(m.content) => \A b \in encodePayload(m) : b = h
BY DEF encodePayload, Payloads, OneEncoding

\* Pack leaves a signed encoding of the current content and the stamp.
LEMMA PackOK ==
    ASSUME NEW m, Known(m), NEW p \in Pack(m)
    PROVE  /\ Known(p) /\ p.content = m.content /\ p.stamp = m.stamp /\ p.prop = m.prop
           /\ p.hash \in encodePayload(m) /\ p.packed \in Wires /\ Current(p)
           /\ p.packed.stamp = m.stamp /\ p.packed.payload.content = m.content
           /\ Covered(p.packed)
           /\ OneEncoding(m.content) => p.packed.payload = p.hash
<1>1. PICK h \in encodePayload(m), b \in encodePayload(m) :
         p = [m EXCEPT !.hash = h,
                       !.packed = [payload |-> IF m.stamp = None THEN h ELSE b,
                                   sig |-> h, stamp |-> m.stamp]]
  BY ZenonT(60) DEF Pack
<1> DEFINE q == IF m.stamp = None THEN h ELSE b
           w == [payload |-> q, sig |-> h, stamp |-> m.stamp]
<1>2. m.content \in Contents /\ m.stamp \in Stamps \cup {None}
  BY DEF Known
<1>3. /\ h \in Payloads /\ h.content = m.content
      /\ b \in Payloads /\ b.content = m.content
      /\ OneEncoding(m.content) => b = h
  BY <1>2, Encoded
<1>4. q \in Payloads /\ q.content = m.content /\ (m.stamp = None \/ OneEncoding(m.content) => q = h)
  BY <1>3
<1>5. w \in Wires /\ w.payload = q /\ w.sig = h /\ w.stamp = m.stamp
  BY <1>2, <1>3, <1>4 DEF Wires
<1>6. w # None
  BY <1>5, NoneAssumption
<1>7. p = [m EXCEPT !.hash = h, !.packed = w]
  BY <1>1
<1> HIDE DEF q, w
<1>8. /\ Known(p) /\ p.content = m.content /\ p.stamp = m.stamp
      /\ p.hash = h /\ p.packed = w /\ p.prop = m.prop
  BY ZenonT(60), <1>3, <1>5, <1>7 DEF Known
<1> QED BY <1>3, <1>4, <1>5, <1>6, <1>8 DEF Current, Covered, Verify, UnpackedHash

\* A Pack that fails changes the hash alone.
LEMMA PackFailsOK ==
    ASSUME NEW m, Known(m), NEW p \in PackFails(m)
    PROVE  /\ Known(p) /\ p.packed = m.packed /\ p.prop = m.prop
           /\ Verified(m) => Verified(p)
<1>1. PICK h \in encodePayload(m) : p = [m EXCEPT !.hash = h]
  BY DEF PackFails
<1>2. h \in Payloads BY Encoded DEF Known
<1> QED BY <1>1, <1>2 DEF Known, Verified

\* Packing for a node keeps a Packed that is there.
LEMMA ForPropagationOK ==
    ASSUME NEW m, Known(m), Verified(m), NEW c, NEW p \in packForPropagation(m, c)
    PROVE  /\ Known(p) /\ Verified(p) /\ p.packed # None /\ p.content = m.content
           /\ m.packed # None => p.packed = m.packed
           /\ p.prop.wire = p.packed /\ p.prop.pnCost = c
<1>1. PICK q \in IF m.packed = None THEN Pack(m) ELSE {m} : p = PackPropagated(q, c)
  BY DEF packForPropagation
<1>2. /\ Known(q) /\ Verified(q) /\ q.packed # None /\ q.content = m.content
      /\ m.packed # None => q.packed = m.packed
  BY <1>1, PackOK DEF Verified, Current
<1>3. /\ p.content = q.content /\ p.packed = q.packed /\ Known(p)
      /\ p.prop = [wire |-> q.packed, pnCost |-> c]
  BY <1>1, <1>2 DEF PackPropagated, Known
<1> QED BY <1>2, <1>3 DEF Verified

\* packForPropagation that fails leaves the message as good as it was.
LEMMA PropagationFailsOK ==
    ASSUME NEW m, Known(m), Verified(m), NEW p \in packForPropagationFails(m)
    PROVE  Known(p) /\ Verified(p)
<1>1. CASE p = m BY <1>1
<1>2. CASE p \in PackFails(m) BY <1>2, PackFailsOK
<1>3. ASSUME NEW q \in IF m.packed = None THEN Pack(m) ELSE {m}, p = [q EXCEPT !.prop = None]
      PROVE  Known(p) /\ Verified(p)
  <2>1. Known(q) /\ Verified(q) BY <1>3, PackOK DEF Verified
  <2>2. Known(p) /\ p.packed = q.packed BY <1>3, <2>1 DEF Known
  <2> QED BY <2>1, <2>2 DEF Verified
<1> QED BY <1>1, <1>2, <1>3 DEF packForPropagationFails

\* A stamp for the hash of the current content.
LEMMA WithStampOK ==
    ASSUME NEW m, Known(m), NEW cost \in Costs \ {0}, m.hash \in encodePayload(m)
    PROVE  LET p == WithStamp(m, cost) IN
           /\ Known(p) /\ p.packed = m.packed /\ p.content = m.content
           /\ encodePayload(p) = encodePayload(m) /\ p.hash = m.hash
           /\ Stamped(p, cost)
<1> DEFINE s == [of |-> m.hash, cost |-> cost]
           p == WithStamp(m, cost)
<1>1. m.hash \in Payloads BY Encoded DEF Known
<1>2. s \in Stamps /\ s # None /\ s.of = m.hash /\ s.cost = cost
  BY <1>1, NoneAssumption DEF Stamps
<1>3. p = [m EXCEPT !.stamp = s] BY DEF WithStamp
<1> HIDE DEF s, p
<1>4. /\ Known(p) /\ p.packed = m.packed /\ p.content = m.content
      /\ p.hash = m.hash /\ p.stamp = s
  BY <1>2, <1>3 DEF Known
<1>5. encodePayload(p) = encodePayload(m) BY <1>4 DEF encodePayload
<1>6. Stamped(p, cost) BY <1>2, <1>4, <1>5 DEF Stamped
<1> QED BY <1>4, <1>5, <1>6 DEF p

\* A Pack after the search puts the stamp where the recipient accepts it.
LEMMA StampPackedOK ==
    ASSUME NEW m, Known(m), NEW cost \in Costs, Stamped(m, cost), NEW p \in Pack(m)
    PROVE  Accepted(p.packed, cost)
<1>1. /\ p.packed.stamp = m.stamp /\ p.packed.payload.content = m.content
      /\ OneEncoding(m.content) => p.packed.payload = p.hash
      /\ p.hash \in encodePayload(m)
  BY PackOK
<1>2. /\ m.stamp # None /\ m.stamp.cost = cost /\ m.stamp.of.content = m.content
      /\ OneEncoding(m.content) => m.stamp.of = p.hash
  BY <1>1, Encoded DEF Stamped, Known
<1>3. cost \in Int /\ cost >= cost /\ 0 <= 0 BY MessageAssumption DEF Costs
<1> QED BY <1>1, <1>2, <1>3 DEF Accepted, ValidateStamp, UnpackedHash

------------------------------------------------------------------------------
(* The calls.                                                                *)

\* A call that has returned holds nothing.
LEMMA IdleOK == CallOK(Idle) /\ Idle.pc = "idle"
BY MessageAssumption DEF CallOK, Idle, Vias, Costs

\* A call that returns.
LEMMA Returns ==
    ASSUME Known(msg'), Verified(msg'), call' = Idle, \A s \in sends' : SentOK(s)
    PROVE  SendInv'
BY IdleOK DEF SendInv

\* The record of a transmission by the current call.
LEMMA SentGood ==
    ASSUME NEW m, NEW w, NEW n, NEW k, k = n, Covered(w),
           call.cost > 0 => Accepted(w, call.cost),
           call.stamped \/ call.via \in {"opportunistic", "direct"} =>
               w.payload.content = m.content
    PROVE  SentOK(Sent(m, w, n, k))
BY DEF SentOK, Sent

\* The message of a call that goes on, or is over, after the transmission.
LEMMA MarkSent ==
    ASSUME NEW m, Known(m), Verified(m)
    PROVE  LET p == [m EXCEPT !.sent = TRUE] IN
           Known(p) /\ Verified(p) /\ p.packed = m.packed /\ p.content = m.content
<1> DEFINE p == [m EXCEPT !.sent = TRUE]
<1>1. Known(p) /\ p.packed = m.packed /\ p.content = m.content
  BY ZenonT(60) DEF Known
<1> HIDE DEF p
<1>2. Verified(p) BY <1>1 DEF Verified
<1> QED BY <1>1, <1>2 DEF p

\* A call at another label.
LEMMA CallAt ==
    ASSUME NEW c, CallOK(c), NEW p \in {"stamp", "transmit", "attempt"},
           p = "stamp" => c.cost > 0, p = "attempt" => c.via = "retry"
    PROVE  LET d == [c EXCEPT !.pc = p] IN
           /\ CallOK(d) /\ d.pc = p /\ d.via = c.via /\ d.stamped = c.stamped
           /\ d.cost = c.cost
BY DEF CallOK

\* What a send function is called with.
LEMMA RequestOK ==
    ASSUME NEW r \in Requests
    PROVE  CallOK(r) /\ r.pc = "transmit"
<1>1. /\ r.pc = "transmit" /\ r.via \in Vias /\ r.stamped \in BOOLEAN
      /\ r.cost \in StampCosts \cup {0} /\ (~r.stamped => r.cost = 0)
  BY DEF Requests
<1>2. r.cost \in Costs
  <2>1. 0 \in Costs BY MessageAssumption DEF Costs
  <2>2. StampCosts \subseteq Costs BY MessengerAssumption
  <2> QED BY <1>1, <2>1, <2>2
<1>3. r \in [pc : {"transmit"}, via : Vias, stamped : BOOLEAN,
             cost : StampCosts \cup {0}, node : Nodes \cup {None},
             pnCost : NodeCosts \cup {0},
             attempts : Attempts \cup {0}, cands : {<<>>}, next : {0}]
  BY DEF Requests
<1>4. r \in [pc : {"idle", "stamp", "transmit", "attempt"}, via : Vias,
             stamped : BOOLEAN, cost : Costs, node : {r.node},
             pnCost : {r.pnCost}, attempts : {r.attempts}, cands : {r.cands},
             next : {r.next}]
  BY <1>1, <1>2, <1>3
<1> QED BY <1>1, <1>2, <1>4 DEF CallOK, Costs

\* A Pack without a stamp to search makes the message ready.
LEMMA StartOK ==
    ASSUME SendInv, NEW r \in Requests, Start(r)
    PROVE  SendInv'
<1>1. CallOK(r) /\ r.pc = "transmit" BY RequestOK
<1>2. Known(msg) /\ Verified(msg) /\ (\A s \in sends' : SentOK(s)) /\ r.cost \in Nat
  BY <1>1 DEF SendInv, Start, CallOK, Costs
<1>3. CASE ~PacksFirst(r) /\ call' = r /\ UNCHANGED msg
  <2>1. r.via # "direct" /\ (r.via # "opportunistic" => ~r.stamped)
    BY <1>1, <1>3 DEF PacksFirst, DirectPacks, PropagatedPacks, RetryPacks, CallOK, Vias
  <2>2. ~(r.cost > 0)
    BY <1>1, <1>3, <2>1 DEF PacksFirst, OpportunisticPacks, CallOK
  <2>3. Ready(msg', call') BY <1>3, <2>1, <2>2 DEF Ready
  <2>4. CallOK(call') /\ call'.pc = "transmit" BY <1>1, <1>3
  <2> QED BY <1>2, <1>3, <2>3, <2>4 DEF SendInv
<1>4. ASSUME msg' \in Pack(msg),
             call' = [r EXCEPT !.pc = IF r.cost > 0 THEN "stamp" ELSE "transmit"]
      PROVE  SendInv'
  <2>1. /\ Known(msg') /\ Current(msg') /\ msg'.hash \in encodePayload(msg)
        /\ msg'.content = msg.content /\ Verified(msg')
    BY <1>2, <1>4, PackOK DEF Verified
  <2>2. encodePayload(msg') = encodePayload(msg) BY <2>1 DEF encodePayload
  <2>3. CASE r.cost > 0
    <3>1. CallOK(call') /\ call'.pc = "stamp" BY ZenonT(60), <1>1, <1>4, <2>3, CallAt
    <3> QED BY <1>2, <2>1, <2>2, <3>1 DEF SendInv
  <2>4. CASE ~(r.cost > 0)
    <3>1. CallOK(call') /\ call'.pc = "transmit" /\ call'.cost = r.cost
      BY ZenonT(60), <1>1, <1>4, <2>4, CallAt
    <3>2. Ready(msg', call') BY <2>1, <2>4, <3>1 DEF Ready
    <3> QED BY <1>2, <2>1, <3>1, <3>2 DEF SendInv
  <2> QED BY <2>3, <2>4
<1>5. ASSUME msg' \in PackFails(msg), call' = Idle PROVE SendInv'
  BY <1>2, <1>5, PackFailsOK, Returns
<1> QED BY <1>3, <1>4, <1>5 DEF Start

\* The stamp is for the content that goes out.
LEMMA GenerateStampOK ==
    ASSUME SendInv, GenerateStamp
    PROVE  SendInv'
<1> DEFINE m == WithStamp(msg, call.cost)
<1>1. /\ Known(msg) /\ Verified(msg) /\ CallOK(call) /\ msg.hash \in encodePayload(msg)
      /\ \A s \in sends' : SentOK(s)
  BY DEF SendInv, GenerateStamp
<1>2. call.cost \in Costs \ {0} BY <1>1 DEF CallOK, GenerateStamp, Costs
<1>3. /\ Known(m) /\ m.packed = msg.packed /\ m.content = msg.content
      /\ Stamped(m, call.cost)
  BY <1>1, <1>2, WithStampOK
<1>4. Verified(m) BY <1>1, <1>3 DEF Verified
<1>5. LET d == [call EXCEPT !.pc = "transmit"] IN
      /\ CallOK(d) /\ d.pc = "transmit" /\ d.via = call.via /\ d.cost = call.cost
  BY ZenonT(60), <1>1, CallAt
<1> HIDE DEF m
<1>6. CASE call' = Idle /\ UNCHANGED msg BY <1>1, <1>6, Returns
<1>7. CASE /\ call.via = "opportunistic" /\ msg' = m
           /\ call' = [call EXCEPT !.pc = "transmit"]
  <2>1. Ready(msg', call') BY <1>3, <1>5, <1>7 DEF Ready
  <2> QED BY <1>1, <1>3, <1>4, <1>5, <1>7, <2>1 DEF SendInv
<1>8. CASE /\ call.via # "opportunistic" /\ msg' \in Pack(m)
           /\ call' = [call EXCEPT !.pc = "transmit"]
  <2>1. Known(msg') /\ Current(msg') /\ Verified(msg')
    BY <1>3, <1>8, PackOK DEF Verified
  <2>2. Accepted(msg'.packed, call.cost)
    BY <1>2, <1>3, <1>8, StampPackedOK
  <2>3. Ready(msg', call') BY <1>5, <1>8, <2>1, <2>2 DEF Ready
  <2> QED BY <1>1, <1>5, <1>8, <2>1, <2>3 DEF SendInv
<1>9. CASE msg' \in PackFails(m) /\ call' = Idle
  BY <1>1, <1>3, <1>4, <1>9, PackFailsOK, Returns
<1> QED BY <1>6, <1>7, <1>8, <1>9 DEF GenerateStamp, m

\* Send packs what the message holds now.
LEMMA SendOK ==
    ASSUME SendInv, Send
    PROVE  SendInv'
<1>1. /\ Known(msg) /\ Verified(msg) /\ CallOK(call) /\ Ready(msg, call)
      /\ \A s \in sends : SentOK(s)
  BY DEF SendInv, Send
<1>2. call' = Idle /\ call.via = "opportunistic" BY DEF Send
<1>3. CASE UNCHANGED <<msg, sends>> BY <1>1, <1>2, <1>3, Returns
<1>4. CASE msg' \in PackFails(msg) /\ UNCHANGED sends
  BY <1>1, <1>2, <1>4, PackFailsOK, Returns
<1>5. CASE msg' \in Pack(msg) /\ UNCHANGED sends
  BY <1>1, <1>2, <1>5, PackOK, Returns DEF Verified
<1>6. ASSUME NEW m \in Pack(msg), msg' = [m EXCEPT !.sent = TRUE],
             sends' = sends \cup {Sent(m, m.packed, 0, 0)}
      PROVE  SendInv'
  <2>1. /\ Known(m) /\ Current(m) /\ Verified(m) /\ m.content = msg.content
        /\ Covered(m.packed)
    BY <1>1, PackOK DEF Verified
  <2>2. call.cost > 0 => Accepted(m.packed, call.cost)
    <3>1. call.cost \in Costs BY <1>1 DEF CallOK
    <3>2. call.cost > 0 => Stamped(msg, call.cost) BY <1>1, <1>2 DEF Ready
    <3> QED BY <1>1, <3>1, <3>2, StampPackedOK
  <2>3. SentOK(Sent(m, m.packed, 0, 0)) BY <2>1, <2>2, SentGood DEF Current
  <2>4. Known(msg') /\ Verified(msg') BY <1>6, <2>1, MarkSent
  <2> QED BY <1>1, <1>2, <1>6, <2>3, <2>4, Returns
<1> QED BY <1>3, <1>4, <1>5, <1>6 DEF Send

\* sendDirectPacked, with what the stamp step has left.
LEMMA SendDirectOK ==
    ASSUME SendInv, sendDirectPacked
    PROVE  SendInv'
<1>1. /\ Known(msg) /\ Verified(msg) /\ Ready(msg, call) /\ \A s \in sends : SentOK(s)
  BY DEF SendInv, sendDirectPacked
<1>2. call' = Idle /\ call.via = "direct" BY DEF sendDirectPacked
<1>3. CASE UNCHANGED <<msg, sends>> BY <1>1, <1>2, <1>3, Returns
<1>4. CASE /\ msg' = [msg EXCEPT !.sent = TRUE]
           /\ sends' = sends \cup {Sent(msg, msg.packed, 0, 0)}
  <2>1. Current(msg) /\ Covered(msg.packed)
    BY <1>1, <1>2 DEF Ready, Verified, Current
  <2>2. call.cost > 0 => Accepted(msg.packed, call.cost)
    BY <1>1, <1>2 DEF Ready
  <2>3. SentOK(Sent(msg, msg.packed, 0, 0)) BY <2>1, <2>2, SentGood DEF Current
  <2>4. Known(msg') /\ Verified(msg') BY <1>1, <1>4, MarkSent
  <2> QED BY <1>1, <1>2, <1>4, <2>3, <2>4, Returns
<1> QED BY <1>3, <1>4 DEF sendDirectPacked

\* What packForPropagation uploads, by a call that is ready.
LEMMA UploadOK ==
    ASSUME SendInv, call.pc \in {"transmit", "attempt"}, call.via \in {"propagated", "retry"},
           NEW n, NEW m \in packForPropagation(msg, n)
    PROVE  /\ Known(m) /\ Verified(m) /\ Ready(m, call)
           /\ SentOK(Sent(m, m.prop.wire, n, m.prop.pnCost))
<1>1. /\ Known(msg) /\ Verified(msg) /\ CallOK(call) /\ Ready(msg, call)
  BY DEF SendInv
<1>2. /\ Known(m) /\ Verified(m) /\ m.packed # None /\ m.content = msg.content
      /\ msg.packed # None => m.packed = msg.packed
      /\ m.prop.wire = m.packed /\ m.prop.pnCost = n
  BY <1>1, ForPropagationOK
<1>3. call.stamped => Current(m) /\ m.packed = msg.packed
  BY <1>1, <1>2 DEF Ready, Current
<1>4. call.cost > 0 => Accepted(m.packed, call.cost)
  BY <1>1, <1>3 DEF Ready, CallOK
<1>5. Ready(m, call) BY <1>3, <1>4 DEF Ready
<1>6. SentOK(Sent(m, m.packed, n, m.prop.pnCost))
  BY <1>2, <1>3, <1>4, SentGood DEF Verified, Current
<1> QED BY <1>2, <1>5, <1>6

\* The upload of one call to one node.
LEMMA SendPropagatedOK ==
    ASSUME SendInv, SendPropagated
    PROVE  SendInv'
<1>1. /\ Known(msg) /\ Verified(msg) /\ (\A s \in sends : SentOK(s)) /\ call' = Idle
      /\ call.pc = "transmit" /\ call.via = "propagated"
  BY DEF SendInv, SendPropagated
<1>2. CASE msg' \in packForPropagationFails(msg) /\ UNCHANGED sends
  BY <1>1, <1>2, PropagationFailsOK, Returns
<1>3. ASSUME NEW m \in packForPropagation(msg, call.pnCost),
             msg' \in {m, [m EXCEPT !.sent = TRUE]},
             sends' \in {sends, sends \cup {Sent(m, m.prop.wire, call.pnCost, m.prop.pnCost)}}
      PROVE  SendInv'
  <2>1. /\ Known(m) /\ Verified(m)
        /\ SentOK(Sent(m, m.prop.wire, call.pnCost, m.prop.pnCost))
    BY <1>1, UploadOK
  <2>2. Known(msg') /\ Verified(msg') BY <1>3, <2>1, MarkSent
  <2> QED BY <1>1, <1>3, <2>1, <2>2, Returns
<1> QED BY <1>2, <1>3 DEF SendPropagated

\* One attempt of SendMessagePropagatedWithRetry, whether it fails or not.
LEMMA AttemptOK ==
    ASSUME SendInv, Attempt
    PROVE  SendInv'
<1> DEFINE n == call.cands[call.next].cost
<1>1. /\ Known(msg) /\ Verified(msg) /\ CallOK(call) /\ (\A s \in sends : SentOK(s))
      /\ call.pc = "attempt" /\ call.via = "retry"
  BY DEF SendInv, Attempt, CallOK
<1>2. CASE msg' \in packForPropagationFails(msg) /\ call' = Idle /\ UNCHANGED sends
  BY <1>1, <1>2, PropagationFailsOK, Returns
<1>3. ASSUME NEW m \in packForPropagation(msg, n), msg' = m, Continue,
             sends' \in {sends, sends \cup {Sent(m, m.prop.wire, n, m.prop.pnCost)}}
      PROVE  SendInv'
  <2>1. /\ Known(m) /\ Verified(m) /\ Ready(m, call)
        /\ SentOK(Sent(m, m.prop.wire, n, m.prop.pnCost))
    BY <1>1, UploadOK
  <2>2. \A s \in sends' : SentOK(s) BY <1>1, <1>3, <2>1
  <2>3. CASE call' = Idle BY <1>3, <2>1, <2>2, <2>3, Returns
  <2>4. CASE call' = [call EXCEPT !.next = @ + 1]
    <3>1. /\ CallOK(call') /\ call'.pc = "attempt" /\ call'.via = call.via
          /\ call'.stamped = call.stamped /\ call'.cost = call.cost
      BY <1>1, <2>4 DEF CallOK
    <3>2. Ready(msg', call') BY <1>3, <2>1, <3>1 DEF Ready
    <3> QED BY <1>3, <2>1, <2>2, <3>1, <3>2 DEF SendInv
  <2> QED BY <1>3, <2>3, <2>4 DEF Continue
<1>4. ASSUME NEW m \in packForPropagation(msg, n), msg' = [m EXCEPT !.sent = TRUE], call' = Idle,
             sends' = sends \cup {Sent(m, m.prop.wire, n, m.prop.pnCost)}
      PROVE  SendInv'
  <2>1. /\ Known(m) /\ Verified(m)
        /\ SentOK(Sent(m, m.prop.wire, n, m.prop.pnCost))
    BY <1>1, UploadOK
  <2>2. Known(msg') /\ Verified(msg') BY <1>4, <2>1, MarkSent
  <2> QED BY <1>1, <1>4, <2>1, <2>2, Returns
<1> QED BY <1>2, <1>3, <1>4 DEF Attempt

\* The retry orders its nodes and leaves the message alone.
LEMMA BeginRetryOK ==
    ASSUME SendInv, NEW paths, BeginRetry(paths)
    PROVE  SendInv'
<1>1. /\ Known(msg) /\ Verified(msg) /\ CallOK(call) /\ (\A s \in sends : SentOK(s))
      /\ Ready(msg, call) /\ call.via = "retry" /\ UNCHANGED <<msg, sends>>
  BY DEF SendInv, BeginRetry
<1>2. PICK cs, k : call' \in {Idle, [call EXCEPT !.pc = "attempt", !.cands = cs,
                                                 !.attempts = k, !.next = 1]}
  BY ZenonT(60) DEF BeginRetry
<1>3. CASE call' = Idle BY <1>1, <1>3, Returns
<1>4. CASE call' = [call EXCEPT !.pc = "attempt", !.cands = cs, !.attempts = k, !.next = 1]
  <2>1. /\ CallOK(call') /\ call'.pc = "attempt" /\ call'.via = call.via
        /\ call'.stamped = call.stamped /\ call'.cost = call.cost
    BY ZenonT(60), <1>1, <1>4 DEF CallOK
  <2>2. Ready(msg', call') BY <1>1, <2>1 DEF Ready
  <2> QED BY <1>1, <2>1, <2>2 DEF SendInv
<1> QED BY <1>2, <1>3, <1>4

\* Between two calls the caller may set another content.
LEMMA SetContentOK ==
    ASSUME SendInv, NEW c \in Contents, SetContent(c)
    PROVE  SendInv'
<1>1. Known(msg) /\ Verified(msg) /\ (\A s \in sends' : SentOK(s)) /\ call' = Idle
  BY DEF SendInv, SetContent
<1>2. Known(msg') /\ msg'.packed = msg.packed BY ZenonT(60), <1>1 DEF SetContent, Known
<1>3. Verified(msg') BY <1>1, <1>2 DEF Verified
<1> QED BY <1>1, <1>2, <1>3, Returns

\* A new message has neither hash nor bytes.
LEMMA InitOK == Init => SendInv
<1> SUFFICES ASSUME NEW c \in Contents, msg = NewMessage(c), call = Idle, sends = {}
             PROVE  SendInv
  BY DEF Init
<1>1. Known(msg) /\ Verified(msg) BY DEF NewMessage, Known, Verified
<1> QED BY <1>1, IdleOK DEF SendInv

\* Every step of the Messenger keeps the invariant.
LEMMA NextOK == SendInv /\ [Next]_vars => SendInv'
<1> SUFFICES ASSUME SendInv, [Next]_vars PROVE SendInv'
  OBVIOUS
<1>1. CASE UNCHANGED <<msg, call, sends>> BY <1>1 DEF SendInv
<1>2. CASE CallStep
  BY <1>2, GenerateStampOK, SendOK, SendDirectOK, SendPropagatedOK, AttemptOK, BeginRetryOK
     DEF CallStep
<1>3. ASSUME NEW r \in Requests, Start(r) PROVE SendInv' BY <1>3, StartOK
<1>4. ASSUME NEW c \in Contents, SetContent(c) PROVE SendInv' BY <1>4, SetContentOK
<1>5. ASSUME NEW a \in Announces, ReceivedAnnounce(a) PROVE UNCHANGED <<msg, call, sends>>
  BY <1>5 DEF ReceivedAnnounce
<1>6. ASSUME NEW w, NEW handler, NEW resolver, Receive(w, handler, resolver)
      PROVE  UNCHANGED <<msg, call, sends>>
  BY <1>6 DEF Receive
<1> QED BY <1>1, <1>2, <1>3, <1>4, <1>5, <1>6 DEF Next, vars

------------------------------------------------------------------------------
(* The order in which the nodes are tried.                                  *)

\* What the registry knows of its nodes.
NodesOK == nodes \in [Nodes -> [cost : MinCost .. MaxCost, hops : Nat] \cup {None}]

\* A reachable node is one that was announced.
LEMMA Reachable ==
    ASSUME NodesOK, NEW paths \in SUBSET Nodes
    PROVE  /\ reachable(paths) \subseteq Nodes
           /\ \A n \in reachable(paths) : nodes[n] \in [cost : MinCost .. MaxCost, hops : Nat]
BY DEF NodesOK, reachable

\* Hops and hash order the reachable nodes.
LEMMA HopsOrder ==
    ASSUME NEW S, S \subseteq Nat, \A n \in S : nodes[n].hops \in Nat
    PROVE  \A a, b, c \in S :
              /\ ~ByHops(a, a)
              /\ ByHops(a, b) \/ ByHops(b, a) \/ a = b
              /\ ByHops(a, b) /\ ByHops(b, c) => ByHops(a, c)
BY DEF ByHops

\* A finite set of nodes can be put in that order: the place of a node is the
\* number of those before it.
LEMMA Sortable ==
    ASSUME NEW S, S \subseteq Nat, IsFiniteSet(S), \A n \in S : nodes[n].hops \in Nat
    PROVE  \E s \in [1 .. Cardinality(S) -> S] :
              \A i, j \in 1 .. Cardinality(S) : i < j => ByHops(s[i], s[j])
<1> DEFINE Before(x) == {y \in S : ByHops(y, x)}
           n == Cardinality(S)
           place == [x \in S |-> Cardinality(Before(x)) + 1]
<1>0. \A a, b, c \in S :
              /\ ~ByHops(a, a)
              /\ ByHops(a, b) \/ ByHops(b, a) \/ a = b
              /\ ByHops(a, b) /\ ByHops(b, c) => ByHops(a, c)
  BY ZenonT(60), HopsOrder
<1>1. n \in Nat BY FS_CardinalityType
<1>2. ASSUME NEW x \in S
      PROVE  IsFiniteSet(Before(x)) /\ Cardinality(Before(x)) \in Nat /\ Cardinality(Before(x)) < n
  <2>1. Before(x) \in SUBSET S /\ Before(x) # S BY <1>0
  <2>2. IsFiniteSet(Before(x)) BY <2>1, FS_Subset
  <2>3. Cardinality(Before(x)) <= n /\ Cardinality(Before(x)) # n BY <2>1, FS_Subset
  <2>4. Cardinality(Before(x)) \in Nat BY <2>2, FS_CardinalityType
  <2> HIDE DEF Before, n
  <2> QED BY <1>1, <2>2, <2>3, <2>4
<1>3. ASSUME NEW x \in S, NEW y \in S, ByHops(x, y)
      PROVE  Cardinality(Before(x)) < Cardinality(Before(y))
  <2>1. Before(x) \in SUBSET Before(y) /\ Before(x) # Before(y) BY ZenonT(60), <1>0, <1>3
  <2>2. /\ Cardinality(Before(x)) <= Cardinality(Before(y))
        /\ Cardinality(Before(x)) # Cardinality(Before(y))
    BY <1>2, <2>1, FS_Subset
  <2>3. Cardinality(Before(x)) \in Nat /\ Cardinality(Before(y)) \in Nat BY <1>2
  <2> HIDE DEF Before
  <2> QED BY <2>2, <2>3
<1> HIDE DEF Before, n
<1>4. place \in [S -> 1 .. n] BY <1>1, <1>2
<1>5. \A x, y \in S : ByHops(x, y) => place[x] < place[y] BY <1>2, <1>3
<1>6. \A x, y \in S : place[x] \in Int /\ place[y] \in Int /\ (place[x] = place[y] => x = y)
  BY <1>0, <1>4, <1>5
<1> HIDE DEF place
<1>7. place \in Injection(S, 1 .. n) BY <1>4, <1>6 DEF Injection, IsInjective
<1>8. IsFiniteSet(1 .. n) /\ Cardinality(1 .. n) = n BY <1>1, FS_Interval
<1>9. place \in Surjection(S, 1 .. n) BY <1>7, <1>8, FS_Injection DEF n
<1>10. \A i \in 1 .. n : \E x \in S : place[x] = i BY <1>9 DEF Surjection
<1> DEFINE s == [i \in 1 .. n |-> CHOOSE x \in S : place[x] = i]
<1>11. \A i \in 1 .. n : s[i] \in S /\ place[s[i]] = i BY <1>10
<1>12. s \in [1 .. n -> S] BY <1>11
<1> HIDE DEF s
<1>13. ASSUME NEW i \in 1 .. n, NEW j \in 1 .. n, i < j PROVE ByHops(s[i], s[j])
  <2>1. s[i] \in S /\ s[j] \in S /\ place[s[i]] = i /\ place[s[j]] = j BY <1>11
  <2>2. ~(j < i) /\ i # j BY <1>1, <1>13
  <2>3. ~ByHops(s[j], s[i]) /\ s[i] # s[j] BY ZenonT(60), <1>5, <2>1, <2>2
  <2> QED BY ZenonT(60), <1>0, <2>1, <2>3
<1> QED BY ZenonT(60), <1>12, <1>13 DEF n

\* ByDistance gives every node of the set once, the nearest first.
LEMMA DistanceSorts ==
    ASSUME NEW S, S \subseteq Nat, IsFiniteSet(S), \A n \in S : nodes[n].hops \in Nat
    PROVE  /\ ByDistance(S) \in [1 .. Cardinality(S) -> S]
           /\ \A i, j \in 1 .. Cardinality(S) : i < j => ByHops(ByDistance(S)[i], ByDistance(S)[j])
BY ZenonT(60), Sortable DEF ByDistance

\* What is left of a sorted sequence of distinct nodes behind the preferred one.
LEMMA OrderOf ==
    ASSUME NEW W, W \subseteq Nat, IsFiniteSet(W), \A n \in W : nodes[n].hops \in Nat,
           NEW preferred
    PROVE  LET first == IF preferred \in W THEN <<preferred>> ELSE <<>>
               out == first \o ByDistance(W \ {preferred})
           IN  /\ Cardinality(W) \in Nat
               /\ out \in [1 .. Cardinality(W) -> W]
               /\ preferred \in W => out[1] = preferred
               /\ \A i, j \in 1 .. Cardinality(W) :
                     i < j => out[i] = preferred \/ ByHops(out[i], out[j])
               /\ \A i, j \in 1 .. Cardinality(W) : i < j => out[i] # out[j]
<1> DEFINE R == W \ {preferred}
           m == Cardinality(R)
           s == ByDistance(R)
           n == Cardinality(W)
<1>1. n \in Nat BY FS_CardinalityType
<1>2. IsFiniteSet(R) /\ m = IF preferred \in W THEN n - 1 ELSE n BY FS_RemoveElement
<1>3. m \in Nat BY <1>2, FS_CardinalityType
<1>4. /\ s \in [1 .. m -> R]
      /\ \A i, j \in 1 .. m : i < j => ByHops(s[i], s[j])
  BY ZenonT(60), <1>2, DistanceSorts
<1>5. \A a \in R : ~ByHops(a, a) BY ZenonT(60), HopsOrder
<1>6. \A i \in 1 .. m : s[i] \in W /\ s[i] # preferred BY ZenonT(60), <1>4
<1>7. \A i, j \in 1 .. m : i < j => s[i] # s[j] BY ZenonT(60), <1>4, <1>5
<1> HIDE DEF s, m, n, R
<1>8. s \in Seq(R) /\ Len(s) = m BY <1>3, <1>4
<1>9. CASE preferred \in W
  <2> DEFINE out == <<preferred>> \o s
  <2>1. m = n - 1 BY <1>2, <1>9
  <2>2. /\ Len(out) = n /\ out[1] = preferred
        /\ \A i \in 1 .. n : i # 1 => i - 1 \in 1 .. m /\ out[i] = s[i - 1]
    BY <1>1, <1>3, <1>8, <2>1
  <2>3. out = [i \in 1 .. n |-> out[i]] BY <1>1, <1>8, <2>2
  <2> HIDE DEF out
  <2>4. out \in [1 .. n -> W] BY <1>6, <1>9, <2>2, <2>3
  <2>5. ASSUME NEW i \in 1 .. n, NEW j \in 1 .. n, i < j
        PROVE  (out[i] = preferred \/ ByHops(out[i], out[j])) /\ out[i] # out[j]
    <3>1. j # 1 BY <1>1, <2>5
    <3>2. CASE i = 1 BY <1>6, <2>2, <3>1, <3>2
    <3>3. CASE i # 1
      <4>1. /\ i - 1 \in 1 .. m /\ j - 1 \in 1 .. m /\ i - 1 < j - 1
            /\ out[i] = s[i - 1] /\ out[j] = s[j - 1]
        BY <1>1, <2>2, <2>5, <3>1, <3>3
      <4> QED BY <1>4, <1>7, <4>1
    <3> QED BY <3>2, <3>3
  <2> QED BY ZenonT(60), <1>1, <1>9, <2>2, <2>4, <2>5 DEF s, n, R, out
<1>10. CASE preferred \notin W
  <2>1. m = n BY <1>2, <1>10
  <2>2. <<>> \o s = s BY <1>8
  <2>3. s \in [1 .. n -> W] BY <1>4, <2>1 DEF R
  <2> QED BY ZenonT(60), <1>1, <1>4, <1>7, <1>10, <2>1, <2>2, <2>3 DEF s, n, R
<1> QED BY ZenonT(60), <1>9, <1>10

\* k distinct nodes of W, the preferred one first, the others nearest first.
Ordered(order, W, k, preferred) ==
    /\ order \in [1 .. k -> W] /\ Len(order) = k /\ order \in Seq(W)
    /\ preferred \in W /\ k # 0 => order[1] = preferred
    /\ \A i, j \in 1 .. k :
          i < j => order[i] = preferred \/ ByHops(order[i], order[j])
    /\ \A i, j \in 1 .. k : i < j => order[i] # order[j]

\* AttemptOrder is that order, cut at the limit.
LEMMA OrderCut ==
    ASSUME NodesOK, NEW paths \in SUBSET Nodes, NEW preferred, NEW skip, NEW max \in Int
    PROVE  LET order == AttemptOrder(paths, preferred, skip, max)
               W == reachable(paths) \ skip
               n == Cardinality(W)
               k == IF max > 0 /\ max < n THEN max ELSE n
           IN  n \in Nat /\ Ordered(order, W, k, preferred)
<1> DEFINE order == AttemptOrder(paths, preferred, skip, max)
           W == reachable(paths) \ skip
           n == Cardinality(W)
           k == IF max > 0 /\ max < n THEN max ELSE n
           first == IF preferred \in W THEN <<preferred>> ELSE <<>>
           out == first \o ByDistance(W \ {preferred})
<1>1. /\ W \subseteq Nodes /\ W \subseteq Nat /\ IsFiniteSet(W)
      /\ \A x \in W : nodes[x].hops \in Nat
  <2>1. reachable(paths) \subseteq Nodes BY Reachable
  <2>2. IsFiniteSet(W) BY <2>1, MessengerAssumption, FS_Subset
  <2>3. \A x \in W : nodes[x].hops \in Nat BY Reachable
  <2> QED BY ZenonT(60), <2>1, <2>2, <2>3, MessengerAssumption
<1>2. order = IF max > 0 /\ Len(out) > max THEN SubSeq(out, 1, max) ELSE out
  BY DEF AttemptOrder
<1> HIDE DEF W
<1>3. /\ n \in Nat /\ out \in [1 .. n -> W]
      /\ preferred \in W => out[1] = preferred
      /\ \A i, j \in 1 .. n : i < j => out[i] = preferred \/ ByHops(out[i], out[j])
      /\ \A i, j \in 1 .. n : i < j => out[i] # out[j]
  BY ZenonT(60), <1>1, OrderOf
<1> HIDE DEF out, n, order
<1>4. out \in Seq(W) /\ Len(out) = n BY <1>3
<1>5. k \in Nat /\ k <= n BY <1>3
<1>6. \A i \in 1 .. k : i \in 1 .. n BY <1>3, <1>5
<1>7. order \in [1 .. k -> W] /\ \A i \in 1 .. k : order[i] = out[i]
  <2>1. CASE max > 0 /\ max < n
    <3>1. order = SubSeq(out, 1, max) BY <1>2, <1>4, <2>1
    <3>2. SubSeq(out, 1, max) = [i \in 1 .. max |-> out[i]] BY <1>3, <1>4, <2>1
    <3>3. k = max BY <2>1
    <3> QED BY ZenonT(60), <1>3, <1>6, <3>1, <3>2, <3>3
  <2>2. CASE ~(max > 0 /\ max < n)
    BY <1>2, <1>3, <1>4, <2>2
  <2> QED BY <2>1, <2>2
<1>8. order \in Seq(W) /\ Len(order) = k BY <1>5, <1>7
<1>9. preferred \in W /\ k # 0 => order[1] = preferred
  <2>1. k # 0 => 1 \in 1 .. k BY <1>5
  <2> QED BY <1>3, <1>7, <2>1
<1> HIDE DEF k
<1>10. /\ \A i, j \in 1 .. k : i < j => order[i] = preferred \/ ByHops(order[i], order[j])
       /\ \A i, j \in 1 .. k : i < j => order[i] # order[j]
  BY <1>3, <1>6, <1>7
<1>11. Ordered(order, W, k, preferred) BY SMTT(60), <1>7, <1>8, <1>9, <1>10 DEF Ordered
<1> QED BY <1>3, <1>11 DEF order, W, n, k

\* The properties of Ordered are those that AttemptOrderRight asks for.
LEMMA OrderRight == NodesOK => AttemptOrderRight
<1> SUFFICES ASSUME NodesOK, NEW paths \in SUBSET Nodes, NEW preferred \in Nodes \cup {None},
                    NEW skip \in SUBSET Nodes, NEW max \in Attempts
             PROVE  LET order == AttemptOrder(paths, preferred, skip, max)
                        wanted == reachable(paths) \ skip
                    IN /\ IsInjective(order)
                       /\ Range(order) \subseteq wanted
                       /\ Len(order) = IF max > 0 /\ max < Cardinality(wanted) THEN max
                                       ELSE Cardinality(wanted)
                       /\ preferred \in wanted /\ order # <<>> => order[1] = preferred
                       /\ \A i, j \in 1 .. Len(order) :
                             i < j /\ order[i] # preferred =>
                                 nodes[order[i]].hops <= nodes[order[j]].hops
  BY ZenonT(60) DEF AttemptOrderRight
<1> DEFINE order == AttemptOrder(paths, preferred, skip, max)
           W == reachable(paths) \ skip
           n == Cardinality(W)
           k == IF max > 0 /\ max < n THEN max ELSE n
<1>1. max \in Int BY MessengerAssumption
<1>2. n \in Nat /\ Ordered(order, W, k, preferred) BY <1>1, OrderCut
<1>3. \A x \in W : nodes[x].hops \in Nat BY Reachable
<1> HIDE DEF order, W, n
<1>4. k \in Nat BY <1>1, <1>2
<1> HIDE DEF k
<1>5. IsInjective(order) BY <1>2, <1>4 DEF IsInjective, Ordered
<1>6. Range(order) \subseteq W BY <1>2 DEF Range, Ordered
<1>7. order # <<>> => k # 0 BY <1>2, <1>4 DEF Ordered
<1>8. ASSUME NEW i \in 1 .. k, NEW j \in 1 .. k, i < j, order[i] # preferred
      PROVE  nodes[order[i]].hops <= nodes[order[j]].hops
  <2>1. ByHops(order[i], order[j]) /\ order[i] \in W /\ order[j] \in W BY <1>2, <1>8 DEF Ordered
  <2> QED BY <1>3, <2>1 DEF ByHops
<1>9. Len(order) = k /\ (preferred \in W /\ order # <<>> => order[1] = preferred)
  BY <1>2, <1>7 DEF Ordered
<1> QED BY ZenonT(60), <1>5, <1>6, <1>8, <1>9 DEF order, W, n, k

------------------------------------------------------------------------------
(* Types.                                                                    *)

\* The node's cost, the candidates and the place in them that a call holds.
CallTyped(c) ==
    /\ c.pnCost \in Costs /\ c.cands \in Seq(Candidates) /\ c.attempts \in Int
    /\ c.pc = "attempt" => c.next \in 1 .. c.attempts /\ c.attempts <= Len(c.cands)

Propagated(m) == m.prop \in Uploads \cup {None}

SentTyped(s) == s.wire \in Wires /\ s.pnCost \in Costs

TypeInv ==
    /\ Propagated(msg) /\ CallTyped(call) /\ calls \in 0 .. MaxCalls /\ NodesOK
    /\ \A s \in sends : SentTyped(s)

\* No stamp is a cost.
LEMMA ZeroCost == 0 \in Costs
BY MessageAssumption DEF Costs

\* Only a call between two attempts has a place in its candidates.
LEMMA NotAttempting ==
    ASSUME NEW c, c.pnCost \in Costs, c.cands \in Seq(Candidates), c.attempts \in Int,
           c.pc # "attempt"
    PROVE  CallTyped(c)
BY DEF CallTyped

\* A call that has returned is typed.
LEMMA IdleTyped == CallTyped(Idle)
BY ZeroCost DEF CallTyped, Idle

\* Pack does not touch the upload that was made before.
LEMMA PackKeeps ==
    ASSUME NEW m, Known(m), Propagated(m)
    PROVE  /\ \A p \in Pack(m) : Propagated(p)
           /\ \A p \in PackFails(m) : Propagated(p)
BY PackOK, PackFailsOK DEF Propagated

\* The upload is made of the bytes of the message and the cost of the node.
LEMMA ForPropagationTyped ==
    ASSUME NEW m, Known(m), Verified(m), NEW c \in Costs, NEW p \in packForPropagation(m, c)
    PROVE  Propagated(p) /\ p.prop.wire \in Wires /\ p.prop.pnCost \in Costs
<1>1. /\ Known(p) /\ p.packed # None /\ p.prop.wire = p.packed /\ p.prop.pnCost = c
  BY ForPropagationOK
<1>2. p.packed \in Wires BY <1>1 DEF Known
<1>3. PICK q \in IF m.packed = None THEN Pack(m) ELSE {m} : p = PackPropagated(q, c)
  BY DEF packForPropagation
<1>4. Known(q) BY <1>3, PackOK
<1>5. p.prop = [wire |-> q.packed, pnCost |-> c] BY <1>3, <1>4 DEF PackPropagated, Known
<1>6. p.prop \in Uploads BY <1>1, <1>2, <1>5 DEF Uploads
<1> QED BY <1>1, <1>2, <1>6 DEF Propagated

\* packForPropagation that fails leaves the last upload or none.
LEMMA PropagationFailsTyped ==
    ASSUME NEW m, Known(m), Verified(m), Propagated(m), NEW p \in packForPropagationFails(m)
    PROVE  Propagated(p)
<1>1. CASE p = m BY <1>1
<1>2. CASE p \in PackFails(m) BY <1>2, PackKeeps
<1>3. ASSUME NEW q \in IF m.packed = None THEN Pack(m) ELSE {m}, p = [q EXCEPT !.prop = None]
      PROVE  Propagated(p)
  <2>1. Known(q) BY <1>3, PackOK
  <2> QED BY <1>3, <2>1 DEF Known, Propagated
<1> QED BY <1>1, <1>2, <1>3 DEF packForPropagationFails

\* What is recorded of a transmission.
LEMMA SentFields ==
    ASSUME NEW m, NEW w, NEW n, NEW k
    PROVE  /\ Sent(m, w, n, k).wire = w /\ Sent(m, w, n, k).need = n
           /\ Sent(m, w, n, k).pnCost = k
BY DEF Sent

\* MarkSent leaves the upload alone.
LEMMA MarkSentTyped ==
    ASSUME NEW m, Known(m), Propagated(m)
    PROVE  Propagated([m EXCEPT !.sent = TRUE])
BY DEF Known, Propagated

\* A step that ends the call.
LEMMA ReturnsTyped ==
    ASSUME TypeInv, Propagated(msg'), call' = Idle, UNCHANGED <<calls, nodes>>,
           \A s \in sends' : SentTyped(s)
    PROVE  TypeInv'
BY IdleTyped DEF TypeInv, NodesOK

\* A request has no candidates yet.
LEMMA RequestTyped ==
    ASSUME NEW r \in Requests
    PROVE  /\ CallTyped(r) /\ CallTyped([r EXCEPT !.pc = "stamp"])
           /\ CallTyped([r EXCEPT !.pc = "transmit"])
<1>1. /\ r.pnCost \in NodeCosts \cup {0} /\ r.cands = <<>> /\ r.pc = "transmit"
      /\ r.attempts \in Attempts \cup {0}
  BY SMTT(60) DEF Requests
<1>2. NodeCosts \subseteq Costs /\ Attempts \subseteq Int BY MessengerAssumption
<1>3. r.pnCost \in Costs /\ r.cands \in Seq(Candidates) /\ r.attempts \in Int
  <2>1. r.pnCost \in Costs BY <1>1, <1>2, ZeroCost
  <2>2. r.attempts \in Int
    <3>1. \A x \in Attempts \cup {0} : x \in Int BY <1>2
    <3> QED BY ZenonT(60), <1>1, <3>1
  <2>3. r.cands \in Seq(Candidates) BY <1>1
  <2> QED BY <2>1, <2>2, <2>3
<1>4. \A p \in {"stamp", "transmit"} :
         /\ [r EXCEPT !.pc = p].pc = p
         /\ [r EXCEPT !.pc = p].pnCost = r.pnCost /\ [r EXCEPT !.pc = p].cands = r.cands
         /\ [r EXCEPT !.pc = p].attempts = r.attempts
  BY DEF Requests
<1> QED BY ZenonT(60), <1>1, <1>3, <1>4, NotAttempting

\* A send function begins.
LEMMA StartTyped ==
    ASSUME SendInv, TypeInv, NEW r \in Requests, Start(r)
    PROVE  TypeInv'
<1>1. /\ Known(msg) /\ Propagated(msg) /\ (\A s \in sends' : SentTyped(s)) /\ NodesOK'
  BY DEF SendInv, TypeInv, Start, NodesOK
<1>2. calls' \in 0 .. MaxCalls BY MessengerAssumption DEF TypeInv, Start
<1>3. Propagated(msg') BY <1>1, PackKeeps DEF Start
<1>4. CallTyped(call') BY ZenonT(60), RequestTyped, IdleTyped DEF Start
<1> QED BY <1>1, <1>2, <1>3, <1>4 DEF TypeInv

\* The stamp step packs again and leaves the candidates alone.
LEMMA GenerateStampTyped ==
    ASSUME SendInv, TypeInv, GenerateStamp
    PROVE  TypeInv'
<1> DEFINE m == WithStamp(msg, call.cost)
           d == [call EXCEPT !.pc = "transmit"]
<1>1. /\ Known(msg) /\ CallOK(call) /\ msg.hash \in encodePayload(msg)
      /\ Propagated(msg) /\ CallTyped(call) /\ call.pc = "stamp"
      /\ (\A s \in sends' : SentTyped(s)) /\ NodesOK' /\ calls' \in 0 .. MaxCalls
  BY DEF SendInv, TypeInv, GenerateStamp, NodesOK
<1>2. call.cost \in Costs \ {0} BY <1>1 DEF CallOK, Costs
<1>3. Known(m) BY <1>1, <1>2, WithStampOK
<1>4. Propagated(m) BY <1>1 DEF WithStamp, Known, Propagated
<1>5. CallTyped(d)
  <2>1. /\ d.pc = "transmit" /\ d.pnCost = call.pnCost /\ d.cands = call.cands
        /\ d.attempts = call.attempts
    BY <1>1 DEF CallOK
  <2> HIDE DEF d
  <2> QED BY <1>1, <2>1 DEF CallTyped
<1>6. Propagated(msg') /\ CallTyped(call')
  <2> HIDE DEF m, d
  <2>1. \/ call' = Idle /\ msg' = msg
        \/ call' = d /\ msg' = m
        \/ call' = d /\ msg' \in Pack(m)
        \/ call' = Idle /\ msg' \in PackFails(m)
    BY DEF GenerateStamp, m, d
  <2> QED BY <1>1, <1>3, <1>4, <1>5, <2>1, PackKeeps, IdleTyped
<1> QED BY <1>1, <1>6 DEF TypeInv

\* The opportunistic send.
LEMMA SendTyped ==
    ASSUME SendInv, TypeInv, Send
    PROVE  TypeInv'
<1>1. /\ Known(msg) /\ Verified(msg) /\ Propagated(msg) /\ (\A s \in sends : SentTyped(s))
      /\ call' = Idle /\ UNCHANGED <<calls, nodes>>
  BY DEF SendInv, TypeInv, Send
<1>2. CASE UNCHANGED <<msg, sends>> BY <1>1, <1>2, ReturnsTyped
<1>3. CASE msg' \in PackFails(msg) \cup Pack(msg) /\ UNCHANGED sends
  BY <1>1, <1>3, PackKeeps, ReturnsTyped
<1>4. ASSUME NEW m \in Pack(msg), msg' = [m EXCEPT !.sent = TRUE],
             sends' = sends \cup {Sent(m, m.packed, 0, 0)}
      PROVE  TypeInv'
  <2>1. Known(m) /\ Propagated(m) /\ m.packed \in Wires BY <1>1, PackOK, PackKeeps
  <2>2. SentTyped(Sent(m, m.packed, 0, 0)) BY <2>1, SentFields, ZeroCost DEF SentTyped
  <2>3. Propagated(msg') BY <1>4, <2>1, MarkSentTyped
  <2> QED BY <1>1, <1>4, <2>2, <2>3, ReturnsTyped
<1> QED BY <1>2, <1>3, <1>4 DEF Send

\* The direct send.
LEMMA SendDirectTyped ==
    ASSUME SendInv, TypeInv, sendDirectPacked
    PROVE  TypeInv'
<1>1. /\ Known(msg) /\ Ready(msg, call) /\ Propagated(msg) /\ (\A s \in sends : SentTyped(s))
      /\ call.via = "direct" /\ call' = Idle /\ UNCHANGED <<calls, nodes>>
  BY DEF SendInv, TypeInv, sendDirectPacked
<1>2. CASE UNCHANGED <<msg, sends>> BY <1>1, <1>2, ReturnsTyped
<1>3. CASE /\ msg' = [msg EXCEPT !.sent = TRUE]
           /\ sends' = sends \cup {Sent(msg, msg.packed, 0, 0)}
  <2>1. msg.packed \in Wires BY <1>1 DEF Ready, Current, Known
  <2>2. SentTyped(Sent(msg, msg.packed, 0, 0)) BY <2>1, SentFields, ZeroCost DEF SentTyped
  <2>3. Propagated(msg') BY <1>1, <1>3, MarkSentTyped
  <2> QED BY <1>1, <1>3, <2>2, <2>3, ReturnsTyped
<1> QED BY <1>2, <1>3 DEF sendDirectPacked

\* An upload for a node of a cost in range.
LEMMA UploadTyped ==
    ASSUME Known(msg), Verified(msg), NEW n \in Costs, NEW m \in packForPropagation(msg, n)
    PROVE  /\ Known(m) /\ Propagated(m) /\ Propagated([m EXCEPT !.sent = TRUE])
           /\ SentTyped(Sent(m, m.prop.wire, n, m.prop.pnCost))
<1>1. Known(m) /\ Propagated(m) /\ m.prop.wire \in Wires /\ m.prop.pnCost \in Costs
  BY ForPropagationOK, ForPropagationTyped
<1>2. Propagated([m EXCEPT !.sent = TRUE]) BY <1>1, MarkSentTyped
<1> QED BY <1>1, <1>2, SentFields DEF SentTyped

\* The upload of one call to one node.
LEMMA SendPropagatedTyped ==
    ASSUME SendInv, TypeInv, SendPropagated
    PROVE  TypeInv'
<1>1. /\ Known(msg) /\ Verified(msg) /\ Propagated(msg) /\ (\A s \in sends : SentTyped(s))
      /\ call.pnCost \in Costs /\ call' = Idle /\ UNCHANGED <<calls, nodes>>
  BY DEF SendInv, TypeInv, SendPropagated, CallTyped
<1>2. CASE msg' \in packForPropagationFails(msg) /\ UNCHANGED sends
  BY <1>1, <1>2, PropagationFailsTyped, ReturnsTyped
<1>3. ASSUME NEW m \in packForPropagation(msg, call.pnCost),
             msg' \in {m, [m EXCEPT !.sent = TRUE]},
             sends' \in {sends, sends \cup {Sent(m, m.prop.wire, call.pnCost, m.prop.pnCost)}}
      PROVE  TypeInv'
  <2>1. /\ Propagated(m) /\ Propagated([m EXCEPT !.sent = TRUE])
        /\ SentTyped(Sent(m, m.prop.wire, call.pnCost, m.prop.pnCost))
    BY <1>1, UploadTyped
  <2> QED BY ZenonT(60), <1>1, <1>3, <2>1, ReturnsTyped
<1> QED BY <1>2, <1>3 DEF SendPropagated

\* One attempt: the next one has a place among the candidates, or there is
\* none.
LEMMA AttemptTyped ==
    ASSUME SendInv, TypeInv, Attempt
    PROVE  TypeInv'
<1> DEFINE n == call.cands[call.next].cost
<1>1. /\ Known(msg) /\ Verified(msg) /\ Propagated(msg) /\ (\A s \in sends : SentTyped(s))
      /\ CallOK(call) /\ CallTyped(call) /\ call.pc = "attempt" /\ UNCHANGED <<calls, nodes>>
  BY DEF SendInv, TypeInv, Attempt
<1>2. n \in Costs
  <2>1. call.next \in 1 .. Len(call.cands) BY <1>1 DEF CallTyped
  <2>2. call.cands[call.next] \in Candidates BY <1>1, <2>1 DEF CallTyped
  <2> QED BY <2>2 DEF Candidates
<1>3. CASE msg' \in packForPropagationFails(msg) /\ call' = Idle /\ UNCHANGED sends
  BY <1>1, <1>3, PropagationFailsTyped, ReturnsTyped
<1>4. ASSUME NEW m \in packForPropagation(msg, n), msg' = m, Continue,
             sends' \in {sends, sends \cup {Sent(m, m.prop.wire, n, m.prop.pnCost)}}
      PROVE  TypeInv'
  <2>1. Propagated(m) /\ SentTyped(Sent(m, m.prop.wire, n, m.prop.pnCost))
    BY ZenonT(60), <1>1, <1>2, UploadTyped
  <2>2. \A s \in sends' : SentTyped(s) BY SMTT(60), <1>1, <1>4, <2>1
  <2>3. CASE call' = Idle BY SMTT(60), <1>1, <1>4, <2>1, <2>2, <2>3, ReturnsTyped
  <2>4. CASE call.next # call.attempts /\ call' = [call EXCEPT !.next = @ + 1]
    <3>1. /\ call'.pc = call.pc /\ call'.pnCost = call.pnCost /\ call'.cands = call.cands
          /\ call'.attempts = call.attempts /\ call'.next = call.next + 1
      BY <1>1, <2>4 DEF CallOK
    <3>2. CallTyped(call') BY <1>1, <2>4, <3>1 DEF CallTyped
    <3> QED BY <1>1, <1>4, <2>1, <2>2, <3>2 DEF TypeInv, NodesOK
  <2> QED BY <1>4, <2>3, <2>4 DEF Continue
<1>5. ASSUME NEW m \in packForPropagation(msg, n), msg' = [m EXCEPT !.sent = TRUE], call' = Idle,
             sends' = sends \cup {Sent(m, m.prop.wire, n, m.prop.pnCost)}
      PROVE  TypeInv'
  <2>1. /\ Propagated([m EXCEPT !.sent = TRUE])
        /\ SentTyped(Sent(m, m.prop.wire, n, m.prop.pnCost))
    BY <1>1, <1>2, UploadTyped
  <2> QED BY <1>1, <1>5, <2>1, ReturnsTyped
<1> QED BY <1>3, <1>4, <1>5 DEF Attempt

\* The candidates are the nodes of the order, each with the cost known of it.
LEMMA BeginRetryTyped ==
    ASSUME SendInv, TypeInv, NEW paths \in SUBSET Nodes, BeginRetry(paths)
    PROVE  TypeInv'
<1> DEFINE order == AttemptOrder(paths, call.node, {}, 0)
           wanted == IF call.attempts < 1 THEN 1 ELSE call.attempts
           cs == [i \in 1 .. Len(order) |-> [node |-> order[i], cost |-> nodes[order[i]].cost]]
           k == IF wanted > Len(order) THEN Len(order) ELSE wanted
<1>1. /\ Propagated(msg) /\ (\A s \in sends : SentTyped(s)) /\ NodesOK
      /\ CallOK(call) /\ CallTyped(call) /\ UNCHANGED <<msg, sends, calls, nodes>>
  BY DEF SendInv, TypeInv, BeginRetry
<1>2. call' = IF order = <<>> THEN Idle
              ELSE [call EXCEPT !.pc = "attempt", !.cands = cs, !.attempts = k, !.next = 1]
  BY ZenonT(60) DEF BeginRetry
<1>3. order \in Seq(reachable(paths))
  <2>1. reachable(paths) \ {} = reachable(paths) OBVIOUS
  <2>0. 0 \in Int OBVIOUS
  <2>2. \E q : Ordered(order, reachable(paths) \ {}, q, call.node)
    BY ZenonT(60), <1>1, <2>0, OrderCut
  <2> QED BY <2>1, <2>2 DEF Ordered
<1>4. \A x \in reachable(paths) : x \in Nodes /\ nodes[x].cost \in Costs
  BY <1>1, Reachable, MessengerAssumption DEF Costs
<1> HIDE DEF order
<1>5. cs \in Seq(Candidates) /\ Len(cs) = Len(order)
  <2>1. \A i \in 1 .. Len(order) : cs[i] \in Candidates BY <1>3, <1>4 DEF Candidates
  <2>2. Len(order) \in Nat BY <1>3
  <2>3. cs = [i \in 1 .. Len(order) |-> cs[i]] OBVIOUS
  <2> HIDE DEF cs
  <2> QED BY <2>1, <2>2, <2>3
<1> HIDE DEF cs
<1>6. CASE call' = Idle BY <1>1, <1>6, ReturnsTyped
<1>7. CASE order # <<>> /\ call' = [call EXCEPT !.pc = "attempt", !.cands = cs,
                                              !.attempts = k, !.next = 1]
  <2>1. k \in 1 .. Len(order)
    <3>1. Len(order) \in Nat \ {0} BY <1>3, <1>7
    <3>2. wanted \in Nat \ {0} BY <1>1 DEF CallTyped
    <3> QED BY <3>1, <3>2
  <2> HIDE DEF k
  <2>2. /\ call'.pc = "attempt" /\ call'.pnCost = call.pnCost /\ call'.cands = cs
        /\ call'.attempts = k /\ call'.next = 1
    BY ZenonT(60), <1>1, <1>7 DEF CallOK
  <2>3. CallTyped(call') BY <1>1, <1>3, <1>5, <2>1, <2>2 DEF CallTyped
  <2> QED BY <1>1, <2>3 DEF TypeInv, NodesOK, Propagated
<1> QED BY <1>2, <1>6, <1>7

\* A new content drops nothing that was typed.
LEMMA SetContentTyped ==
    ASSUME SendInv, TypeInv, NEW c \in Contents, SetContent(c)
    PROVE  TypeInv'
<1>1. /\ Known(msg) /\ Propagated(msg) /\ call' = call /\ UNCHANGED <<calls, nodes, sends>>
      /\ msg' = [msg EXCEPT !.content = c]
  BY DEF SendInv, TypeInv, SetContent
<1>2. Propagated(msg') BY <1>1 DEF Known, Propagated
<1> QED BY <1>1, <1>2 DEF TypeInv, NodesOK

\* The cost stored for a node is at least the minimum.
LEMMA AnnounceTyped ==
    ASSUME TypeInv, NEW a \in Announces, ReceivedAnnounce(a)
    PROVE  TypeInv'
<1> DEFINE cost == PNStampCostFromAppData(a)
           stored == IF cost = None THEN MinCost
                     ELSE IF cost < MinCost THEN MinCost ELSE cost
           e == [cost |-> stored, hops |-> a.hops]
<1>1. /\ a.node \in Nodes /\ a.cost \in Int /\ a.cost <= MaxCost /\ a.hops \in Nat
      /\ MinCost \in Nat /\ MinCost <= MaxCost /\ MaxCost \in Nat
  BY MessengerAssumption, MessageAssumption DEF Costs
<1>2. stored \in MinCost .. MaxCost BY <1>1 DEF PNStampCostFromAppData
<1>3. nodes' = [nodes EXCEPT ![a.node] = e] /\ UNCHANGED <<msg, call, calls, sends>>
  BY DEF ReceivedAnnounce
<1> HIDE DEF stored
<1>4. e \in [cost : MinCost .. MaxCost, hops : Nat] BY <1>1, <1>2
<1> HIDE DEF e
<1>5. NodesOK' BY <1>1, <1>3, <1>4 DEF TypeInv, NodesOK
<1> QED BY <1>3, <1>5 DEF TypeInv

\* No node is known at the start.
LEMMA InitTyped == Init => TypeInv
<1> SUFFICES ASSUME NEW c \in Contents, msg = NewMessage(c), call = Idle, sends = {},
                    calls = 0, nodes = [n \in Nodes |-> None]
             PROVE  TypeInv
  BY DEF Init
<1>1. Propagated(msg) BY DEF NewMessage, Propagated
<1>2. NodesOK BY DEF NodesOK
<1>3. calls \in 0 .. MaxCalls BY MessengerAssumption
<1> QED BY <1>1, <1>2, <1>3, IdleTyped DEF TypeInv

\* Every step of the Messenger keeps the types.
LEMMA NextTyped == SendInv /\ TypeInv /\ [Next]_vars => TypeInv'
<1> SUFFICES ASSUME SendInv, TypeInv, [Next]_vars PROVE TypeInv'
  OBVIOUS
<1>1. CASE UNCHANGED <<msg, call, calls, nodes, sends>>
  BY <1>1 DEF TypeInv, NodesOK
<1>2. CASE CallStep
  BY <1>2, GenerateStampTyped, SendTyped, SendDirectTyped, SendPropagatedTyped, AttemptTyped,
     BeginRetryTyped DEF CallStep
<1>3. ASSUME NEW r \in Requests, Start(r) PROVE TypeInv' BY <1>3, StartTyped
<1>4. ASSUME NEW c \in Contents, SetContent(c) PROVE TypeInv' BY <1>4, SetContentTyped
<1>5. ASSUME NEW a \in Announces, ReceivedAnnounce(a) PROVE TypeInv' BY <1>5, AnnounceTyped
<1>6. ASSUME NEW w, NEW handler, NEW resolver, Receive(w, handler, resolver)
      PROVE  UNCHANGED <<msg, call, calls, nodes, sends>>
  BY <1>6 DEF Receive
<1> QED BY <1>1, <1>2, <1>3, <1>4, <1>5, <1>6 DEF Next, vars

------------------------------------------------------------------------------
(* The candidates of a retry.                                                *)

\* No node is among the candidates twice.
Distinct(c) ==
    c.pc = "attempt" =>
        \A i, j \in 1 .. Len(c.cands) : i < j => c.cands[i].node # c.cands[j].node

\* The steps that leave a call between two attempts: the first takes the
\* candidates, the others go on to the next one.
LEMMA AttemptNext ==
    ASSUME SendInv, TypeInv, [Next]_vars, call'.pc = "attempt", call' # call
    PROVE  \/ \E paths \in SUBSET Nodes : BeginRetry(paths)
           \/ call.pc = "attempt" /\ call' = [call EXCEPT !.next = @ + 1]
<1>1. Idle.pc # "attempt" BY DEF Idle
<1>2. CASE CallStep
  <2>1. ASSUME GenerateStamp PROVE FALSE
    <3>1. call' = Idle \/ call' = [call EXCEPT !.pc = "transmit"] BY <2>1 DEF GenerateStamp
    <3>2. CallOK(call) BY DEF SendInv
    <3>3. call' = [call EXCEPT !.pc = "transmit"] => call'.pc = "transmit"
      BY <3>2 DEF CallOK
    <3> QED BY <1>1, <3>1, <3>3
  <2>2. ASSUME Attempt PROVE call.pc = "attempt" /\ call' = [call EXCEPT !.next = @ + 1]
    BY <1>1, <2>2 DEF Attempt, Continue
  <2> QED BY <1>1, <1>2, <2>1, <2>2
          DEF CallStep, Send, sendDirectPacked, SendPropagated
<1>3. ASSUME NEW r \in Requests, Start(r) PROVE FALSE
  <2>1. r.pc = "transmit" /\ CallOK(r) BY <1>3, RequestOK
  <2>2. \/ call' = r \/ call' = Idle
        \/ call' = [r EXCEPT !.pc = IF r.cost > 0 THEN "stamp" ELSE "transmit"]
    BY <1>3 DEF Start
  <2>3. call' = [r EXCEPT !.pc = IF r.cost > 0 THEN "stamp" ELSE "transmit"] =>
            call'.pc \in {"stamp", "transmit"}
    BY <2>1 DEF CallOK
  <2> QED BY <1>1, <2>1, <2>2, <2>3
<1>4. ASSUME NEW c \in Contents, SetContent(c) PROVE FALSE BY <1>4 DEF SetContent
<1>5. ASSUME NEW a \in Announces, ReceivedAnnounce(a) PROVE FALSE BY <1>5 DEF ReceivedAnnounce
<1>6. ASSUME NEW w, NEW handler, NEW resolver, Receive(w, handler, resolver) PROVE FALSE
  BY <1>6 DEF Receive
<1> QED BY <1>2, <1>3, <1>4, <1>5, <1>6 DEF Next, vars

\* AttemptOrder lists no node twice, and the candidates are its nodes.
LEMMA BeginRetryDistinct ==
    ASSUME SendInv, TypeInv, NEW paths \in SUBSET Nodes, BeginRetry(paths)
    PROVE  call.pc # "attempt" /\ Distinct(call')
<1> DEFINE order == AttemptOrder(paths, call.node, {}, 0)
           cs == [i \in 1 .. Len(order) |-> [node |-> order[i], cost |-> nodes[order[i]].cost]]
<1>0. call.pc = "transmit" BY DEF BeginRetry
<1>1. PICK most : call' \in {Idle, [call EXCEPT !.pc = "attempt", !.cands = cs,
                                            !.attempts = most, !.next = 1]}
  BY ZenonT(60) DEF BeginRetry
<1>2. PICK q : Ordered(order, reachable(paths) \ {}, q, call.node) /\ q \in Nat
  <2>1. 0 \in Int /\ NodesOK BY DEF TypeInv
  <2>2. LET W == reachable(paths) \ {}
            n == Cardinality(W)
            k == IF 0 > 0 /\ 0 < n THEN 0 ELSE n
        IN  n \in Nat /\ Ordered(order, W, k, call.node)
    BY ZenonT(60), <2>1, OrderCut
  <2> QED BY <2>2
<1>3. /\ Len(order) = q
      /\ \A i, j \in 1 .. q : i < j => order[i] # order[j]
  BY <1>2 DEF Ordered
<1> HIDE DEF order
<1>4. /\ Len(cs) = q
      /\ \A i, j \in 1 .. q : i < j => cs[i].node # cs[j].node
  BY <1>2, <1>3
<1> HIDE DEF cs
<1>5. CASE call' = Idle BY <1>0, <1>5 DEF Idle, Distinct
<1>6. CASE call' = [call EXCEPT !.pc = "attempt", !.cands = cs, !.attempts = most, !.next = 1]
  <2>1. call'.cands = cs BY <1>6 DEF SendInv, CallOK
  <2> QED BY <1>0, <1>4, <2>1 DEF Distinct
<1> QED BY <1>1, <1>5, <1>6

\* The candidates of a call are distinct and stay as they are.
LEMMA NextDistinct ==
    ASSUME SendInv, TypeInv, Distinct(call), [Next]_vars
    PROVE  /\ Distinct(call')
           /\ [call.pc = "attempt" /\ call'.pc = "attempt" =>
                  /\ call'.cands = call.cands
                  /\ \A i \in 1 .. call.next :
                        call.cands[i].node # call'.cands[call'.next].node]_call
<1>1. CASE call' = call BY <1>1
<1>2. CASE call'.pc # "attempt" BY <1>2 DEF Distinct
<1>3. ASSUME NEW paths \in SUBSET Nodes, BeginRetry(paths)
      PROVE  Distinct(call') /\ call.pc # "attempt"
  BY <1>3, BeginRetryDistinct
<1>4. CASE call.pc = "attempt" /\ call' = [call EXCEPT !.next = @ + 1] /\ call'.pc = "attempt"
  <2>1. call'.cands = call.cands /\ call'.next = call.next + 1 BY <1>4 DEF SendInv, CallOK
  <2>2. CallTyped(call') BY NextTyped DEF TypeInv
  <2>3. call.next + 1 \in 1 .. Len(call.cands) /\ call.next \in Int /\ Len(call.cands) \in Nat
    BY <1>4, <2>1, <2>2 DEF CallTyped, TypeInv
  <2>4. \A i \in 1 .. call.next : i \in 1 .. Len(call.cands) /\ i < call.next + 1
    BY <2>3
  <2> QED BY <1>4, <2>1, <2>3, <2>4 DEF Distinct
<1> QED BY <1>1, <1>2, <1>3, <1>4, AttemptNext

------------------------------------------------------------------------------
(* The results.                                                              *)

\* SendInv is an invariant: what a call finds in the message is what it, and
\* not an earlier call, has put there, but for an unstamped upload.
THEOREM SendInvariant == Spec => []SendInv
<1>1. Init => SendInv BY InitOK
<1>2. SendInv /\ [Next]_vars => SendInv' BY NextOK
<1> QED BY <1>1, <1>2, PTL DEF Spec

\* Whatever its fields, a message goes out with a signature over the content
\* that goes out, and over the bytes that go out if it has no stamp or its
\* content has one encoding, by all eight send functions and after any earlier
\* sends of the message (message.go:285-314).
THEOREM SignatureAlwaysCovers == Spec => []SignatureCovers
<1>1. SendInv => SignatureCovers BY DEF SendInv, SentOK, Covered, SignatureCovers
<1> QED BY <1>1, SendInvariant, PTL

\* A call that asked for a stamp sends one of that cost for the content that
\* goes out, and one that ValidateStamp accepts if the content has one encoding
\* (messenger.go:191-203, delivery_link.go:183-195).
THEOREM StampAlwaysAccepted == Spec => []StampAccepted
<1>1. SendInv => StampAccepted BY DEF SendInv, SentOK, Accepted, StampAccepted
<1> QED BY <1>1, SendInvariant, PTL

\* What goes out is the current content of the message, whatever its fields,
\* for every call but the unstamped uploads.
THEOREM SentAlwaysCurrent == Spec => []SentIsCurrent
<1>1. SendInv => SentIsCurrent BY DEF SendInv, SentOK, SentIsCurrent
<1> QED BY <1>1, SendInvariant, PTL

\* Every upload carries a node stamp of exactly the cost that was called for:
\* that of the node of this attempt, not of an earlier one.
THEOREM UploadStampedForNode == Spec => [](\A s \in sends : s.pnCost = s.need)
<1>1. SendInv => \A s \in sends : s.pnCost = s.need BY DEF SendInv, SentOK
<1> QED BY <1>1, SendInvariant, PTL

\* A call holds candidates of the registry's costs and stays within them.
THEOREM TypeInvariant == Spec => [](SendInv /\ TypeInv)
<1>1. Init => TypeInv BY InitTyped
<1>2. SendInv /\ TypeInv /\ [Next]_vars => TypeInv' BY NextTyped
<1> QED BY <1>1, <1>2, SendInvariant, PTL DEF Spec

\* Message, call, transmissions and registry keep their types; an attempt is
\* always one of the candidates, so that the slice of nodes is never indexed
\* beyond its end (propagation_send.go:137, SendPropagatedWithRetry).
THEOREM TypeCorrect == Spec => []TypeOK
<1>1. SendInv /\ TypeInv => TypeOK
  <2> SUFFICES ASSUME SendInv, TypeInv PROVE TypeOK
    OBVIOUS
  <2>1. msg \in Messages BY DEF SendInv, TypeInv, Known, Propagated, Messages
  <2>2. call.pc \in {"idle", "stamp", "transmit", "attempt"} BY DEF SendInv, CallOK
  <2> QED BY <2>1, <2>2 DEF TypeInv, CallTyped, SentTyped, NodesOK, TypeOK
<1> QED BY <1>1, TypeInvariant, PTL

\* Whatever the registry holds, however many nodes there are and whichever are
\* skipped, AttemptOrder lists reachable nodes, none twice, as many as there are
\* or as were asked for, the preferred one first and the others nearest first.
THEOREM OrderIsRight == Spec => []AttemptOrderRight
<1>1. TypeInv => AttemptOrderRight BY OrderRight DEF TypeInv
<1> QED BY <1>1, TypeInvariant, PTL

\* A call WithRetry uploads to no node twice, whatever fails and whatever is
\* announced while it runs, for any number of nodes and attempts
\* (propagation_send.go:130-169).
THEOREM NoNodeTwice == Spec => NodesTriedOnce
<1>1. Init => Distinct(call)
  BY DEF Init, Idle, Distinct
<1>2. SendInv /\ TypeInv /\ Distinct(call) /\ [Next]_vars => Distinct(call)'
  BY NextDistinct DEF Distinct
<1>3. SendInv /\ TypeInv /\ Distinct(call) /\ [Next]_vars =>
        [call.pc = "attempt" /\ call'.pc = "attempt" =>
           /\ call'.cands = call.cands
           /\ \A i \in 1 .. call.next :
                 call.cands[i].node # call'.cands[call'.next].node]_call
  BY NextDistinct
<1> QED BY <1>1, <1>2, <1>3, TypeInvariant, PTL DEF Spec, NodesTriedOnce

\* Every upload carries a node stamp that the node of that attempt accepts at
\* the cost it announced, after any number of attempts at other nodes.
THEOREM UploadsMeetNode == Spec => []UploadMeetsNode
<1>1. SendInv /\ TypeInv => UploadMeetsNode
  <2> SUFFICES ASSUME SendInv, TypeInv, NEW s \in sends, s.need > 0
               PROVE  ValidatePNStamp(s, s.need)
    BY SMTT(60) DEF UploadMeetsNode
  <2>1. s.pnCost = s.need /\ s.pnCost \in Int
    BY DEF SendInv, SentOK, TypeInv, SentTyped, Costs
  <2> QED BY <2>1 DEF ValidatePNStamp
<1> QED BY <1>1, TypeInvariant, PTL
-----------------------------------------------------------------------------
(* The compact message                                                       *)

INSTANCE SequenceTheorems

\* The byte strings up to a length.
LEMMA ByteSeqs ==
  ASSUME NEW n \in Nat, NEW s
  PROVE  s \in MF!ByteStrings(n) <=> s \in Seq(Bytes) /\ Len(s) <= n
<1>1. ASSUME s \in MF!ByteStrings(n) PROVE s \in Seq(Bytes) /\ Len(s) <= n
  <2>1. PICK k \in 0..n : s \in [1..k -> Bytes]
    BY <1>1 DEF MF!ByteStrings
  <2>2. s \in Seq(Bytes)
    BY <2>1
  <2>3. Len(s) = k
    BY SMTT(60), <2>1
  <2>4. QED
    BY <2>1, <2>2, <2>3
<1>2. ASSUME s \in Seq(Bytes), Len(s) <= n PROVE s \in MF!ByteStrings(n)
  <2>1. Len(s) \in 0..n /\ s \in [1..Len(s) -> Bytes]
    BY <1>2, LenProperties
  <2>2. QED
    BY ZenonT(60), <2>1 DEF MF!ByteStrings
<1>3. QED
  BY <1>1, <1>2

\* A sequence cut where its first part ends.
LEMMA CutJoined ==
  ASSUME NEW S, NEW a \in Seq(S), NEW b \in Seq(S)
  PROVE  /\ SubSeq(a \o b, 1, Len(a)) = a
         /\ SubSeq(a \o b, Len(a) + 1, Len(a \o b)) = b
<1> DEFINE c == a \o b
<1>1. /\ c \in Seq(S) /\ Len(c) = Len(a) + Len(b)
      /\ \A i \in 1 .. Len(a) + Len(b) : c[i] = IF i <= Len(a) THEN a[i] ELSE b[i - Len(a)]
  BY ConcatProperties
<1>2. Len(a) \in Nat /\ Len(b) \in Nat
  BY LenProperties
<1>3. \A i \in 1 .. Len(c) : c[i] \in S
  BY <1>1, ElementOfSeq
<1> HIDE DEF c
<1>4. /\ SubSeq(c, 1, Len(a)) \in Seq(S) /\ Len(SubSeq(c, 1, Len(a))) = Len(a)
      /\ \A i \in 1 .. Len(a) : SubSeq(c, 1, Len(a))[i] = c[i]
  <2>1. \A i \in 1 .. Len(a) : c[i] \in S
    BY <1>1, <1>2, <1>3
  <2>2. QED
    BY <1>2, <2>1, SubSeqProperties
<1>5. /\ SubSeq(c, Len(a) + 1, Len(c)) \in Seq(S)
      /\ Len(SubSeq(c, Len(a) + 1, Len(c))) = Len(b)
      /\ \A i \in 1 .. Len(b) : SubSeq(c, Len(a) + 1, Len(c))[i] = c[Len(a) + i]
  <2>1. \A i \in Len(a) + 1 .. Len(c) : c[i] \in S
    BY <1>1, <1>2, <1>3
  <2>2. QED
    BY <1>1, <1>2, <2>1, SubSeqProperties
<1>6. \A i \in 1 .. Len(SubSeq(c, 1, Len(a))) : SubSeq(c, 1, Len(a))[i] = a[i]
  BY <1>1, <1>2, <1>4
<1>7. \A i \in 1 .. Len(SubSeq(c, Len(a) + 1, Len(c))) :
         SubSeq(c, Len(a) + 1, Len(c))[i] = b[i]
  <2> TAKE i \in 1 .. Len(SubSeq(c, Len(a) + 1, Len(c)))
  <2>1. i \in 1 .. Len(b) /\ Len(a) + i \in 1 .. Len(a) + Len(b) /\ ~(Len(a) + i <= Len(a))
    BY <1>2, <1>5
  <2>2. SubSeq(c, Len(a) + 1, Len(c))[i] = c[Len(a) + i] /\ c[Len(a) + i] = b[(Len(a) + i) - Len(a)]
    BY <1>1, <1>5, <2>1
  <2>3. QED
    BY <1>2, <2>1, <2>2
<1>8. SubSeq(c, 1, Len(a)) = a
  BY <1>4, <1>6, SeqEqual
<1>9. SubSeq(c, Len(a) + 1, Len(c)) = b
  BY <1>5, <1>7, SeqEqual
<1>10. QED
  BY <1>8, <1>9 DEF c

\* And a sequence is made of the two parts it is cut into.
LEMMA JoinCut ==
  ASSUME NEW S, NEW s \in Seq(S), NEW n \in 0 .. Len(s)
  PROVE  /\ SubSeq(s, 1, n) \in Seq(S) /\ Len(SubSeq(s, 1, n)) = n
         /\ SubSeq(s, n + 1, Len(s)) \in Seq(S)
         /\ Len(SubSeq(s, n + 1, Len(s))) = Len(s) - n
         /\ SubSeq(s, 1, n) \o SubSeq(s, n + 1, Len(s)) = s
<1>1. Len(s) \in Nat /\ \A i \in 1 .. Len(s) : s[i] \in S
  BY LenProperties, ElementOfSeq
<1>2. SubSeq(s, 1, n) \in Seq(S) /\ Len(SubSeq(s, 1, n)) = n
  BY <1>1, SubSeqProperties
<1>3. /\ SubSeq(s, n + 1, Len(s)) \in Seq(S)
      /\ Len(SubSeq(s, n + 1, Len(s))) = Len(s) - n
  BY <1>1, SubSeqProperties
<1>4. SubSeq(s, 1, n) \o SubSeq(s, n + 1, Len(s)) = SubSeq(s, 1, Len(s))
  <2>1. /\ 1 \in 1 .. Len(s) + 1 /\ n \in 1 - 1 .. Len(s) /\ Len(s) \in n .. Len(s)
    BY <1>1
  <2>2. QED
    BY ZenonT(60), <2>1, ConcatAdjacentSubSeq
<1>5. QED
  BY ZenonT(60), <1>2, <1>3, <1>4, SubSeqFull

\* Unpack cuts off the sender and looks at the first byte of the rest.
LEMMA UnpackJoined ==
  ASSUME NEW S, NEW sender \in Seq(S), Len(sender) = SenderHashLength, NEW rest \in Seq(S)
  PROVE  MF!Unpack(sender \o rest) =
           IF rest # <<>> /\ rest[1] = 1
           THEN IF Len(rest) < 1 + SenderHashLength THEN {}
                ELSE MF!NewMessageWithGroup(sender, SubSeq(rest, 2, 1 + SenderHashLength),
                                            SubSeq(rest, 2 + SenderHashLength, Len(rest)))
           ELSE MF!NewMessageWithGroup(sender, <<>>, rest)
<1> DEFINE data == sender \o rest
<1>1. /\ SubSeq(data, 1, SenderHashLength) = sender
      /\ SubSeq(data, SenderHashLength + 1, Len(data)) = rest
  BY CutJoined
<1>2. Len(data) = SenderHashLength + Len(rest) /\ Len(rest) \in Nat /\ SenderHashLength \in Nat
  BY SMTT(60), ConcatProperties, LenProperties, LengthsAssumption
<1>3. ~(Len(data) < SenderHashLength)
  BY <1>2
<1> HIDE DEF data
<1>4. QED
  BY ZenonT(60), <1>1, <1>3 DEF MF!Unpack, MF!groupFlagPresent, data

\* The flag, a group and a text, put together and taken apart.
LEMMA Grouped ==
  ASSUME NEW S, NEW flag \in S, NEW group \in Seq(S), Len(group) = SenderHashLength,
         NEW text \in Seq(S), NEW rest, rest = (<<flag>> \o group) \o text
  PROVE  /\ rest \in Seq(S) /\ rest # <<>> /\ rest[1] = flag
         /\ Len(rest) = 1 + SenderHashLength + Len(text)
         /\ SubSeq(rest, 2, 1 + SenderHashLength) = group
         /\ SubSeq(rest, 2 + SenderHashLength, Len(rest)) = text
<1> DEFINE flagged == <<flag>> \o group
           L == SenderHashLength
<1>1. L \in Nat /\ Len(text) \in Nat
  BY LengthsAssumption, LenProperties
<1>2. <<flag>> \in Seq(S) /\ Len(<<flag>>) = 1 /\ <<flag>>[1] = flag
  OBVIOUS
<1>3. /\ flagged \in Seq(S) /\ Len(flagged) = 1 + L
      /\ \A i \in 1 .. 1 + L : flagged[i] = IF i <= 1 THEN <<flag>>[i] ELSE group[i - 1]
  <2>1. /\ flagged \in Seq(S) /\ Len(flagged) = Len(<<flag>>) + Len(group)
        /\ \A i \in 1 .. Len(<<flag>>) + Len(group) :
              flagged[i] = IF i <= Len(<<flag>>) THEN <<flag>>[i] ELSE group[i - Len(<<flag>>)]
    BY <1>2, ConcatProperties
  <2>2. QED
    BY <1>2, <2>1
<1>0. rest = flagged \o text
  OBVIOUS
<1> HIDE DEF flagged
<1>4. /\ rest \in Seq(S) /\ Len(rest) = 1 + L + Len(text)
      /\ \A i \in 1 .. 1 + L + Len(text) :
            rest[i] = IF i <= 1 + L THEN flagged[i] ELSE text[i - (1 + L)]
  <2>1. /\ rest \in Seq(S) /\ Len(rest) = Len(flagged) + Len(text)
        /\ \A i \in 1 .. Len(flagged) + Len(text) :
              rest[i] = IF i <= Len(flagged) THEN flagged[i] ELSE text[i - Len(flagged)]
    BY <1>0, <1>3, ConcatProperties
  <2>2. QED
    BY <1>3, <2>1
<1>5. SubSeq(rest, (1 + L) + 1, Len(rest)) = text
  BY <1>0, <1>3, CutJoined
<1>6. rest[1] = flag
  <2>1. 1 \in 1 .. 1 + L /\ 1 \in 1 .. 1 + L + Len(text) /\ 1 <= 1 + L
    BY <1>1
  <2>2. rest[1] = flagged[1] /\ flagged[1] = <<flag>>[1]
    BY SMTT(60), <1>3, <1>4, <2>1
  <2>3. QED
    BY <2>2
<1>7. \A i \in 1 .. L : rest[i + 1] = group[i]
  <2> TAKE i \in 1 .. L
  <2>1. /\ i + 1 \in 1 .. 1 + L /\ i + 1 \in 1 .. 1 + L + Len(text)
        /\ i + 1 <= 1 + L /\ ~(i + 1 <= 1) /\ (i + 1) - 1 = i
    BY <1>1
  <2>2. rest[i + 1] = flagged[i + 1] /\ flagged[i + 1] = group[(i + 1) - 1]
    BY <1>3, <1>4, <2>1
  <2>3. QED
    BY <2>1, <2>2
<1>8. /\ SubSeq(rest, 2, 1 + L) \in Seq(S)
      /\ Len(SubSeq(rest, 2, 1 + L)) = L
      /\ \A i \in 1 .. L : SubSeq(rest, 2, 1 + L)[i] = rest[i + 1]
  <2>1. \A i \in 2 .. 1 + L : rest[i] \in S
    BY <1>1, <1>4, ElementOfSeq
  <2>2. QED
    BY SMTT(60), <1>1, <2>1, SubSeqProperties
<1>9. SubSeq(rest, 2, 1 + L) = group
  BY <1>7, <1>8, SeqEqual
<1>10. rest # <<>>
  BY <1>1, <1>4
<1>11. (1 + L) + 1 = 2 + L
  BY <1>1
<1>12. QED
  BY SMTT(60), <1>4, <1>5, <1>6, <1>9, <1>10, <1>11

LEMMA UnpackGrouped ==
  ASSUME NEW S, 1 \in S, NEW sender \in Seq(S), Len(sender) = SenderHashLength,
         NEW group \in Seq(S), Len(group) = SenderHashLength, NEW text \in Seq(S)
  PROVE  MF!Unpack((sender \o (<<1>> \o group)) \o text) =
           MF!NewMessageWithGroup(sender, group, text)
<1>0. PICK rest : rest = (<<1>> \o group) \o text
  BY ZenonT(60)
<1>1. /\ rest \in Seq(S) /\ rest # <<>> /\ rest[1] = 1
      /\ Len(rest) = 1 + SenderHashLength + Len(text)
      /\ SubSeq(rest, 2, 1 + SenderHashLength) = group
      /\ SubSeq(rest, 2 + SenderHashLength, Len(rest)) = text
  BY SMTT(60), <1>0, Grouped
<1>2. (sender \o (<<1>> \o group)) \o text = sender \o rest
  <2>1. <<1>> \in Seq(S)
    OBVIOUS
  <2>2. <<1>> \o group \in Seq(S)
    BY <2>1, ConcatProperties
  <2>3. QED
    BY SMTT(60), <1>0, <2>2, ConcatAssociative
<1>3. ~(Len(rest) < 1 + SenderHashLength)
  <2>1. Len(text) \in Nat /\ SenderHashLength \in Nat
    BY LenProperties, LengthsAssumption
  <2>2. Len(rest) = 1 + SenderHashLength + Len(text)
    BY <1>1
  <2>3. QED
    BY <2>1, <2>2
<1>4. QED
  BY ZenonT(60), <1>1, <1>2, <1>3, UnpackJoined

LEMMA NewMessageIs ==
  ASSUME NEW sender, NEW group, NEW text
  PROVE  MF!NewMessageWithGroup(sender, group, text) =
           LET m == [sender |-> sender, group |-> group, text |-> text]
           IN IF MF!Validate(m) THEN {m} ELSE {}
BY DEF MF!NewMessageWithGroup

\* The fields of a message that can be packed.
LEMMA Packable ==
  ASSUME NEW m \in MF!Messages, NEW p \in MF!Pack(m)
  PROVE  /\ m = [sender |-> m.sender, group |-> m.group, text |-> m.text]
         /\ MF!Validate(m)
         /\ m.sender \in Seq(Bytes) /\ Len(m.sender) = SenderHashLength
         /\ m.group \in Seq(Bytes)
         /\ m.group # <<>> => Len(m.group) = SenderHashLength
         /\ m.text \in Seq(Bytes)
         /\ p = (m.sender \o (IF m.group = <<>> THEN <<>> ELSE <<1>> \o m.group)) \o m.text
<1>1. SenderHashLength + 1 \in Nat /\ MaxMessageSize + 1 \in Nat
  BY LengthsAssumption
<1>2. m = [sender |-> m.sender, group |-> m.group, text |-> m.text]
  BY DEF MF!Messages
<1>3. /\ m.sender \in MF!ByteStrings(SenderHashLength + 1)
      /\ m.group \in MF!ByteStrings(SenderHashLength + 1)
      /\ m.text \in MF!ByteStrings(MaxMessageSize + 1)
  BY DEF MF!Messages
<1>4. m.sender \in Seq(Bytes) /\ m.group \in Seq(Bytes) /\ m.text \in Seq(Bytes)
  BY <1>1, <1>3, ByteSeqs
<1>5. /\ MF!Validate(m)
      /\ p = (m.sender \o (IF m.group = <<>> THEN <<>> ELSE <<1>> \o m.group)) \o m.text
  BY ZenonT(60) DEF MF!Pack, MF!groupFlagPresent
<1>6. m.group # <<>> => Len(m.group) > 0
  BY <1>4, EmptySeq
<1>7. QED
  BY <1>2, <1>4, <1>5, <1>6 DEF MF!Validate

\* A message to a group comes back whole.
LEMMA GroupsComeBack == MF!GroupComesBack
<1> SUFFICES ASSUME NEW m \in MF!Messages, NEW p \in MF!Pack(m), m.group # <<>>
             PROVE  MF!Unpack(p) = {m}
  BY DEF MF!GroupComesBack
<1> DEFINE S == Bytes \cup {1}
           L == SenderHashLength
<1>1. /\ m.sender \in Seq(S) /\ Len(m.sender) = L
      /\ m.group \in Seq(S) /\ m.text \in Seq(S)
  BY ZenonT(60), Packable, SeqMonotonic
<1>2. MF!NewMessageWithGroup(m.sender, m.group, m.text) = {m}
  BY ZenonT(60), Packable, NewMessageIs
<1>3. Len(m.group) = L /\ 1 \in S
  BY ZenonT(60), Packable
<1>4. p = (m.sender \o (<<1>> \o m.group)) \o m.text
  BY ZenonT(60), Packable
<1> HIDE DEF S
<1>5. MF!Unpack(p) = MF!NewMessageWithGroup(m.sender, m.group, m.text)
  BY <1>1, <1>3, <1>4, UnpackGrouped
<1>6. QED
  BY <1>2, <1>5

\* What Unpack accepts with the flag: the sender, the flag, a group and a text.
LEMMA FlagRest ==
  ASSUME NEW S, NEW rest \in Seq(S), ~(Len(rest) < 1 + SenderHashLength),
         NEW group, group = SubSeq(rest, 2, 1 + SenderHashLength),
         NEW text, text = SubSeq(rest, 2 + SenderHashLength, Len(rest))
  PROVE  /\ group \in Seq(S) /\ Len(group) = SenderHashLength
         /\ text \in Seq(S) /\ Len(text) = Len(rest) - (1 + SenderHashLength)
         /\ <<rest[1]>> \o group \in Seq(S)
         /\ (<<rest[1]>> \o group) \o text = rest
<1> DEFINE L == SenderHashLength
<1>1. L \in Nat /\ Len(rest) \in Nat
  BY LengthsAssumption, LenProperties
<1>2. 1 + L \in 0 .. Len(rest) /\ (1 + L) + 1 = 2 + L /\ 1 \in 1 .. Len(rest)
      /\ 1 + L \in 1 .. Len(rest)
  BY <1>1
<1>3. /\ SubSeq(rest, 1, 1 + L) \in Seq(S)
      /\ SubSeq(rest, (1 + L) + 1, Len(rest)) \in Seq(S)
      /\ Len(SubSeq(rest, (1 + L) + 1, Len(rest))) = Len(rest) - (1 + L)
      /\ SubSeq(rest, 1, 1 + L) \o SubSeq(rest, (1 + L) + 1, Len(rest)) = rest
  BY ZenonT(60), <1>2, JoinCut
<1>4. SubSeq(rest, 1, 1 + L) = <<rest[1]>> \o SubSeq(rest, 2, 1 + L)
  <2>1. SubSeq(rest, 1, 1 + L) = <<rest[1]>> \o SubSeq(rest, 1 + 1, 1 + L)
    BY ZenonT(60), <1>2, SubSeqRecursiveFirst
  <2>2. 1 + 1 = 2
    OBVIOUS
  <2>3. QED
    BY <2>1, <2>2, Zenon
<1>5. group \in Seq(S) /\ Len(group) = L
  <2>1. \A i \in 2 .. 1 + L : rest[i] \in S
    BY <1>1, ElementOfSeq
  <2>2. SubSeq(rest, 2, 1 + L) \in Seq(S) /\ Len(SubSeq(rest, 2, 1 + L)) = L
    BY SMTT(60), <1>1, <2>1, SubSeqProperties
  <2>3. QED
    BY <2>2
<1>6. QED
  BY ZenonT(60), <1>2, <1>3, <1>4, <1>5

\* There is one encoding of a message.
LEMMA UniqueEncoding == MF!EncodingUnique
<1> DEFINE L == SenderHashLength
<1>1. 2 * L + MaxMessageSize + 2 \in Nat /\ L \in Nat /\ L > 0
  BY LengthsAssumption
<1> SUFFICES ASSUME NEW data \in Seq(Bytes), NEW m, m \in MF!Unpack(data)
             PROVE  /\ MF!Pack(m) = {data}
                    /\ Len(data) = MF!PackedLen(L, m.group # <<>>, Len(m.text))
  <2>1. \A data \in MF!ByteStrings(2 * L + MaxMessageSize + 2) : data \in Seq(Bytes)
    BY <1>1, ByteSeqs
  <2>2. QED
    BY <2>1 DEF MF!EncodingUnique
<1> DEFINE sender == SubSeq(data, 1, L)
           rest == SubSeq(data, L + 1, Len(data))
<1>2. Len(data) \in Nat /\ ~(Len(data) < L)
  <2>1. Len(data) \in Nat
    BY LenProperties
  <2>2. ASSUME Len(data) < L PROVE FALSE
    <3>1. SubSeq(data, L + 1, Len(data)) = <<>>
      BY SMTT(60), <1>1, <2>1, <2>2, SubSeqEmpty
    <3>2. QED
      BY <2>2, <3>1 DEF MF!Unpack
  <2>3. QED
    BY <2>1, <2>2
<1>3. /\ sender \in Seq(Bytes) /\ Len(sender) = L
      /\ rest \in Seq(Bytes) /\ Len(rest) = Len(data) - L
      /\ sender \o rest = data
  <2>1. L \in 0 .. Len(data)
    BY <1>1, <1>2
  <2>2. QED
    BY ZenonT(60), <2>1, JoinCut
<1>4. CASE rest # <<>> /\ rest[1] = 1
  <2> DEFINE group == SubSeq(rest, 2, 1 + L)
             text == SubSeq(rest, 2 + L, Len(rest))
  <2>1. ~(Len(rest) < 1 + L) /\ m \in MF!NewMessageWithGroup(sender, group, text)
    BY ZenonT(60), <1>2, <1>4 DEF MF!Unpack, MF!groupFlagPresent
  <2>2. MF!Validate(m) /\ m = [sender |-> sender, group |-> group, text |-> text]
    BY ZenonT(60), <2>1 DEF MF!NewMessageWithGroup
  <2> HIDE DEF sender, rest
  <2>3. /\ group \in Seq(Bytes) /\ Len(group) = L
        /\ text \in Seq(Bytes) /\ Len(text) = Len(rest) - (1 + L)
        /\ <<1>> \o group \in Seq(Bytes)
        /\ (<<1>> \o group) \o text = rest
    <3>1. /\ group \in Seq(Bytes) /\ Len(group) = L
          /\ text \in Seq(Bytes) /\ Len(text) = Len(rest) - (1 + L)
          /\ <<rest[1]>> \o group \in Seq(Bytes)
          /\ (<<rest[1]>> \o group) \o text = rest
      BY ZenonT(60), <1>3, <2>1, FlagRest
    <3>2. QED
      BY <1>4, <3>1, Zenon
  <2> HIDE DEF group, text
  <2>4. group # <<>>
    BY <1>1, <2>3
  <2>5. (sender \o (<<1>> \o group)) \o text = data
    <3>1. PICK flagged \in Seq(Bytes) : flagged = <<1>> \o group
      BY ZenonT(60), <2>3
    <3>2. (sender \o flagged) \o text = sender \o (flagged \o text)
      <4>1. sender \in Seq(Bytes) /\ text \in Seq(Bytes)
        BY <1>3, <2>3
      <4>2. QED
        BY SMTT(60), <4>1, ConcatAssociative
    <3>3. flagged \o text = rest /\ sender \o rest = data
      BY SMTT(60), <1>3, <2>3, <3>1
    <3>4. QED
      BY <3>1, <3>2, <3>3, Zenon
  <2>6. MF!Pack(m) = {data}
    BY ZenonT(60), <2>2, <2>4, <2>5 DEF MF!Pack, MF!groupFlagPresent
  <2>7. Len(data) = L + (1 + L) + Len(text)
    BY SMTT(60), <1>1, <1>2, <1>3, <2>3
  <2>8. QED
    BY SMTT(60), <2>2, <2>4, <2>6, <2>7 DEF MF!PackedLen
<1>5. CASE ~(rest # <<>> /\ rest[1] = 1)
  <2>1. m \in MF!NewMessageWithGroup(sender, <<>>, rest)
    BY ZenonT(60), <1>2, <1>5 DEF MF!Unpack, MF!groupFlagPresent
  <2>2. MF!Validate(m) /\ m = [sender |-> sender, group |-> <<>>, text |-> rest]
    BY <2>1 DEF MF!NewMessageWithGroup
  <2> HIDE DEF sender, rest
  <2>3. (sender \o <<>>) \o rest = data
    BY <1>3, ConcatEmptySeq
  <2>4. MF!Pack(m) = {data}
    BY <2>2, <2>3 DEF MF!Pack
  <2>5. Len(data) = L + Len(rest)
    BY SMTT(60), <1>1, <1>2, <1>3
  <2>6. QED
    BY SMTT(60), <1>1, <1>3, <2>2, <2>4, <2>5 DEF MF!PackedLen
<1>6. QED
  BY ZenonT(60), <1>4, <1>5

\* For hashes and texts of any length and bytes of any kind: whatever Unpack
\* accepts, Pack gives back byte by byte with the length that Len announces, and
\* a message to a group comes back whole (mf.go:98-136).
THEOREM CompactAlwaysRepacks == Spec => []CompactRepacks
<1>1. CompactRepacks
  BY UniqueEncoding, GroupsComeBack DEF CompactRepacks
<1>2. QED
  BY <1>1, PTL
=============================================================================
