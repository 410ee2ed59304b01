----------------------------- MODULE LXMFMessage -----------------------------
(***************************************************************************)
(* The LXMessage object of pkg/lxmf/message.go: packing, the propagation   *)
(* packing, unpacking and stamp validation, as operators on records.       *)
(*                                                                         *)
(* The data is cut down to what decides whether a message verifies.  An    *)
(* encoded payload is the content together with the order in which the     *)
(* encoder met the entries of the Fields map: the vendored msgpack encoder *)
(* walks a map[byte]any in Go's unspecified map order, so a message with   *)
(* one field has one order and a message with more has several.  A hash is *)
(* the payload it was computed from, a signature the payload it signs, and *)
(* a stamp the hash and the cost it was searched for.  The timestamp is    *)
(* set by the first Pack and kept, so it is part of the content.           *)
(***************************************************************************)
EXTENDS Integers

CONSTANTS Contents,  \* what the application puts in a message
          Orders,    \* for each content the orders its Fields can be encoded in
          MaxCost,   \* stamp costs are 1 .. MaxCost, 0 asks for none
          None       \* a nil slice

ASSUME MessageAssumption ==
    /\ Contents # {}
    /\ \A c \in Contents : Orders[c] # {}
    /\ MaxCost \in Nat

Costs == 0 .. MaxCost

Payloads == [content : Contents, order : UNION {Orders[c] : c \in Contents}]

\* The encoder has no choice: a content with no more than one field.
OneEncoding(c) == \A o, p \in Orders[c] : o = p

Stamps == [of : Payloads, cost : Costs \ {0}]

\* Packed: the payload as sent, what the signature covers, and the stamp.
Wires == [payload : Payloads, sig : Payloads, stamp : Stamps \cup {None}]

\* PropagationPacked: the encrypted message and the cost of its node stamp.
Uploads == [wire : Wires, pnCost : Costs]

ASSUME NoneAssumption == None \notin Stamps /\ None \notin Wires

Messages ==
    [content : Contents, stamp : Stamps \cup {None},
     hash : Payloads \cup {None}, packed : Wires \cup {None},
     prop : Uploads \cup {None}, sent : BOOLEAN]

NewMessage(c) ==
    [content |-> c, stamp |-> None, hash |-> None, packed |-> None,
     prop |-> None, sent |-> FALSE]

\* encodePayload: any order of the fields can come out.
encodePayload(m) == {[content |-> m.content, order |-> o] : o \in Orders[m.content]}

\* A Pack that keeps the signature of an earlier Pack.
PackSignedOnce(m) ==
    {[m EXCEPT !.hash = h,
               !.packed = [payload |-> IF m.stamp = None THEN h ELSE b,
                           sig |-> IF m.packed = None THEN h ELSE m.packed.sig,
                           stamp |-> m.stamp]] :
        h \in encodePayload(m), b \in encodePayload(m)}

\* Pack: the payload without the stamp is encoded, hashed and signed; if the
\* message has a stamp the payload is encoded again, with it.
Pack(m) ==
    UNION {{[m EXCEPT !.hash = h,
                      !.packed = [payload |-> IF m.stamp = None THEN h ELSE b,
                                  sig |-> h, stamp |-> m.stamp]] :
               b \in encodePayload(m)} : h \in encodePayload(m)}

\* A Pack whose signer fails: Hash is already the new one, Packed is not.
PackFails(m) == {[m EXCEPT !.hash = h] : h \in encodePayload(m)}

\* PackPropagated encrypts Packed and, for a positive cost, searches a stamp
\* for it.
PackPropagated(m, pnCost) ==
    [m EXCEPT !.prop = [wire |-> m.packed, pnCost |-> pnCost]]

\* The hash that decodePayloadAndSplit and UnpackFromBytes recover is that of
\* the payload bytes as they arrived.
UnpackedHash(w) == w.payload

\* sourceID.Verify(signedPart, signature)
Verify(w) == UnpackedHash(w) = w.sig

\* UnpackFromBytes: the message handed on, for a source that the resolver
\* knows or does not know.
UnpackFromBytes(w, known) ==
    [wire |-> w,
     validated |-> known /\ Verify(w),
     reason |-> IF ~known THEN "sourceUnknown"
                ELSE IF Verify(w) THEN "none" ELSE "signatureInvalid"]

\* ValidateStamp without tickets: a stamp is valid for the hash it was
\* searched for, up to the cost it was searched with.
ValidateStamp(w, targetCost) ==
    /\ w.stamp # None
    /\ \/ targetCost <= 0
       \/ /\ w.stamp.of = UnpackedHash(w)
          /\ w.stamp.cost >= targetCost

\* ValidatePNStamp: the node takes the trailing stamp off an upload and checks
\* it against the rest.
ValidatePNStamp(u, targetCost) == u.pnCost > 0 /\ u.pnCost >= targetCost
=============================================================================
