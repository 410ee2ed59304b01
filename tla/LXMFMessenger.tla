---------------------------- MODULE LXMFMessenger ----------------------------
(***************************************************************************)
(* A Messenger sending one LXMessage, over and over, by every path of      *)
(* pkg/lxmf: Send, SendStamped, SendDirect, SendStampedDirect,             *)
(* SendPropagated, SendStampedPropagated and the two forms WithRetry; the  *)
(* propagation registry, which announces change while a send runs; and the *)
(* Messenger of the recipient, which receives the opportunistic packets.   *)
(*                                                                         *)
(* A call is a few steps: it packs, searches a stamp (which can take       *)
(* minutes), packs again and transmits; a call WithRetry transmits to one  *)
(* node per step.  The application touches the message only between calls. *)
(* What the links do is in LXMFLinkCache, the stamp search in LXMFStamper. *)
(***************************************************************************)
EXTENDS LXMFMessage, Sequences, FiniteSets, Functions

CONSTANTS Nodes,       \* propagation node hashes, ordered as numbers
          MinCost,     \* PropagationStampCostMin
          Announces,   \* the announces that may arrive
          Attempts,    \* maxAttempts arguments
          StampCosts,  \* stampCost arguments
          NodeCosts,   \* pnStampCost arguments
          MaxCalls     \* bound on the sends of a behaviour

ASSUME MessengerAssumption ==
    /\ Nodes \subseteq Nat /\ IsFiniteSet(Nodes)
    /\ MinCost \in Costs \ {0}
    /\ Announces \subseteq [node : Nodes, wellFormed : BOOLEAN,
                            genuine : BOOLEAN, cost : Int, hops : Nat]
    /\ \A a \in Announces : a.cost <= MaxCost
    /\ Attempts \subseteq Int
    /\ StampCosts \subseteq Costs
    /\ NodeCosts \subseteq Costs
    /\ MaxCalls \in Nat

VARIABLES msg,       \* the message
          call,      \* the send in progress
          calls,     \* sends made so far
          nodes,     \* PropagationRegistry.nodes
          sends,     \* everything transmitted, with what was asked for
          inbox      \* what the recipient's handler was called with

vars == <<msg, call, calls, nodes, sends, inbox>>

Vias == {"opportunistic", "direct", "propagated", "retry"}

Idle == [pc |-> "idle", via |-> "opportunistic", stamped |-> FALSE, cost |-> 0,
         node |-> None, pnCost |-> 0, attempts |-> 0, cands |-> <<>>,
         next |-> 0]

Candidates == [node : Nodes, cost : Costs]

------------------------------------------------------------------------------
(* The registry.                                                           *)

\* The layout of the announce's data; its cost, if it has one.
PNAnnounceDataIsValid(a) == a.wellFormed
PNStampCostFromAppData(a) == IF a.cost < 0 THEN None ELSE a.cost

\* An announce stored with the cost it came with.
ReceivedAnnounceRaw(a) ==
    /\ PNAnnounceDataIsValid(a) /\ a.genuine
    /\ nodes' = [nodes EXCEPT ![a.node] = [cost |-> a.cost, hops |-> a.hops]]
    /\ UNCHANGED <<msg, call, calls, sends, inbox>>

\* A well-formed announce of the destination it names replaces what is known
\* of the node; a cost below the minimum, or none, becomes the minimum.
ReceivedAnnounce(a) ==
    /\ PNAnnounceDataIsValid(a) /\ a.genuine
    /\ LET cost == PNStampCostFromAppData(a) IN
       nodes' = [nodes EXCEPT ![a.node] =
                    [cost |-> IF cost = None THEN MinCost
                              ELSE IF cost < MinCost THEN MinCost ELSE cost,
                     hops |-> a.hops]]
    /\ UNCHANGED <<msg, call, calls, sends, inbox>>

\* The known nodes that the transport has a path to.
reachable(paths) == {n \in paths : nodes[n] # None}

ByHops(a, b) ==
    \/ nodes[a].hops < nodes[b].hops
    \/ nodes[a].hops = nodes[b].hops /\ a < b

\* The nodes of a set nearest first, those equally far by their hash.
ByDistance(S) ==
    CHOOSE s \in [1 .. Cardinality(S) -> S] :
        \A i, j \in 1 .. Cardinality(S) : i < j => ByHops(s[i], s[j])

\* The preferred node put in front without looking for it further on.
AttemptOrderTwice(paths, preferred, skip, maxAttempts) ==
    LET wanted == reachable(paths) \ skip
        first == IF preferred \in wanted THEN <<preferred>> ELSE <<>>
        out == first \o ByDistance(wanted)
    IN IF maxAttempts > 0 /\ Len(out) > maxAttempts
       THEN SubSeq(out, 1, maxAttempts) ELSE out

\* AttemptOrder: of the reachable nodes that are not skipped the preferred one,
\* then the others by hops and hash, cut at maxAttempts if positive.
AttemptOrder(paths, preferred, skip, maxAttempts) ==
    LET wanted == reachable(paths) \ skip
        first == IF preferred \in wanted THEN <<preferred>> ELSE <<>>
        out == first \o ByDistance(wanted \ {preferred})
    IN IF maxAttempts > 0 /\ Len(out) > maxAttempts
       THEN SubSeq(out, 1, maxAttempts) ELSE out

------------------------------------------------------------------------------
(* The sender.                                                             *)

Init ==
    /\ \E c \in Contents : msg = NewMessage(c)
    /\ call = Idle
    /\ calls = 0
    /\ nodes = [n \in Nodes |-> None]
    /\ sends = {}
    /\ inbox = {}

\* SetTitle, SetContent or a new value of Fields.
SetContent(c) ==
    /\ call = Idle
    /\ msg.content # c
    /\ msg' = [msg EXCEPT !.content = c]
    /\ UNCHANGED <<call, calls, sends, nodes, inbox>>

\* The calls, with the arguments the path has; node is the preferred node of a
\* call WithRetry, the one node of SendPropagated need not be told apart.
Requests ==
    {r \in [pc : {"transmit"}, via : Vias, stamped : BOOLEAN,
            cost : StampCosts \cup {0}, node : Nodes \cup {None},
            pnCost : NodeCosts \cup {0},
            attempts : Attempts \cup {0}, cands : {<<>>}, next : {0}] :
        /\ ~r.stamped => r.cost = 0
        /\ r.via # "retry" => r.node = None
        /\ r.via = "propagated" => r.pnCost \in NodeCosts
        /\ r.via # "propagated" => r.pnCost = 0
        /\ r.via # "retry" => r.attempts = 0
        /\ r.via = "retry" => r.attempts \in Attempts}

\* The calls that pack before they do anything else: SendStamped, if it has a
\* stamp to search; the direct ones; the stamped propagated ones, at any cost.
OpportunisticPacks(r) == r.via = "opportunistic" /\ r.cost > 0
DirectPacks(r) == r.via = "direct"
PropagatedPacks(r) == r.via = "propagated" /\ r.stamped
RetryPacks(r) == r.via = "retry" /\ r.stamped

PacksFirst(r) ==
    OpportunisticPacks(r) \/ DirectPacks(r) \/ PropagatedPacks(r) \/ RetryPacks(r)

\* Pack only what was never packed.
StartPackOnce(r) ==
    /\ call = Idle /\ calls < MaxCalls
    /\ calls' = calls + 1
    /\ \/ /\ ~PacksFirst(r) \/ msg.packed # None
          /\ call' = [r EXCEPT !.pc = IF r.cost > 0 THEN "stamp" ELSE "transmit"]
          /\ UNCHANGED msg
       \/ /\ PacksFirst(r) /\ msg.packed = None
          /\ \/ /\ msg' \in Pack(msg)
                /\ call' = [r EXCEPT !.pc = IF r.cost > 0 THEN "stamp"
                                                          ELSE "transmit"]
             \/ /\ msg' \in PackFails(msg)
                /\ call' = Idle
    /\ UNCHANGED <<sends, nodes, inbox>>

\* The head of the send functions: an unstamped Send and SendPropagated go
\* straight on, all others pack, and go on to the stamp for a positive cost.
Start(r) ==
    /\ call = Idle /\ calls < MaxCalls
    /\ calls' = calls + 1
    /\ \/ /\ ~PacksFirst(r)
          /\ call' = r
          /\ UNCHANGED msg
       \/ /\ PacksFirst(r)
          /\ \/ /\ msg' \in Pack(msg)
                /\ call' = [r EXCEPT !.pc = IF r.cost > 0 THEN "stamp"
                                                          ELSE "transmit"]
             \/ /\ msg' \in PackFails(msg)
                /\ call' = Idle
    /\ UNCHANGED <<sends, nodes, inbox>>

\* generateStampWithLog: a stamp for the message's hash.
WithStamp(m, cost) == [m EXCEPT !.stamp = [of |-> m.hash, cost |-> cost]]

\* A stamp that is set but not packed into the message.
StampNotPacked ==
    /\ call.pc = "stamp"
    /\ \/ /\ call' = Idle
          /\ UNCHANGED msg
       \/ /\ call' = [call EXCEPT !.pc = "transmit"]
          /\ msg' = WithStamp(msg, call.cost)
    /\ UNCHANGED <<calls, sends, nodes, inbox>>

\* GenerateStamp(msg.Hash) runs out of time, or sets the stamp and, but for
\* the opportunistic path, packs again.
GenerateStamp ==
    /\ call.pc = "stamp"
    /\ \/ /\ call' = Idle
          /\ UNCHANGED msg
       \/ LET m == WithStamp(msg, call.cost)
          IN IF call.via = "opportunistic"
             THEN msg' = m /\ call' = [call EXCEPT !.pc = "transmit"]
             ELSE \/ msg' \in Pack(m) /\ call' = [call EXCEPT !.pc = "transmit"]
                  \/ msg' \in PackFails(m) /\ call' = Idle
    /\ UNCHANGED <<calls, sends, nodes, inbox>>

\* What a transmission of message m leaves: what was asked and what went out.
Sent(m, w, need, pnCost) ==
    [via |-> call.via, stamped |-> call.stamped, cost |-> call.cost,
     content |-> m.content, wire |-> w, need |-> need, pnCost |-> pnCost]

\* Send: the peer is unknown; Pack fails; the packet cannot be sent; or it is.
Send ==
    /\ call.pc = "transmit" /\ call.via = "opportunistic"
    /\ \/ UNCHANGED <<msg, sends>>
       \/ msg' \in PackFails(msg) /\ UNCHANGED sends
       \/ msg' \in Pack(msg) /\ UNCHANGED sends
       \/ \E m \in Pack(msg) :
             /\ msg' = [m EXCEPT !.sent = TRUE]
             /\ sends' = sends \cup {Sent(m, m.packed, 0, 0)}
    /\ call' = Idle
    /\ UNCHANGED <<calls, nodes, inbox>>

\* sendDirectPacked: the link fails, or the packed message goes out on it.
sendDirectPacked ==
    /\ call.pc = "transmit" /\ call.via = "direct"
    /\ \/ UNCHANGED <<msg, sends>>
       \/ /\ msg' = [msg EXCEPT !.sent = TRUE]
          /\ sends' = sends \cup {Sent(msg, msg.packed, 0, 0)}
    /\ call' = Idle
    /\ UNCHANGED <<calls, nodes, inbox>>

\* packForPropagation: packs a message that is not packed, forgets the last
\* propagation packing and makes a new one.
packForPropagation(m, pnCost) ==
    {PackPropagated(p, pnCost) : p \in IF m.packed = None THEN Pack(m) ELSE {m}}

\* Its failures: the recipient is unknown; Pack fails; the node stamp is not
\* found in time, after the last propagation packing was forgotten.
packForPropagationFails(m) ==
    {m} \cup (IF m.packed = None THEN PackFails(m) ELSE {})
        \cup {[p EXCEPT !.prop = None] :
                 p \in IF m.packed = None THEN Pack(m) ELSE {m}}

\* SendPropagated: the packing, the link or the transfer fails, or the upload
\* reaches the node; a transfer that is reported as failed may have, too.
SendPropagated ==
    /\ call.pc = "transmit" /\ call.via = "propagated"
    /\ \/ msg' \in packForPropagationFails(msg) /\ UNCHANGED sends
       \/ \E m \in packForPropagation(msg, call.pnCost) :
             /\ msg' \in {m, [m EXCEPT !.sent = TRUE]}
             /\ \/ sends' = sends \cup
                     {Sent(m, m.prop.wire, call.pnCost, m.prop.pnCost)}
                \/ msg' = m /\ UNCHANGED sends
    /\ call' = Idle
    /\ UNCHANGED <<calls, nodes, inbox>>

------------------------------------------------------------------------------
(* Sending with retry.                                                     *)

\* SendPropagatedWithRetry takes the candidates once, from the nodes known and
\* the transport's paths at that moment; without any it fails.  With a nil
\* registry it is SendPropagated with the minimum cost.
BeginRetry(paths) ==
    /\ call.pc = "transmit" /\ call.via = "retry"
    /\ LET order == AttemptOrder(paths, call.node, {}, 0)
           wanted == IF call.attempts < 1 THEN 1 ELSE call.attempts
       IN call' = IF order = <<>> THEN Idle
                  ELSE [call EXCEPT
                          !.pc = "attempt",
                          !.cands = [i \in 1 .. Len(order) |->
                             [node |-> order[i], cost |-> nodes[order[i]].cost]],
                          !.attempts = IF wanted > Len(order) THEN Len(order)
                                                              ELSE wanted,
                          !.next = 1]
    /\ UNCHANGED <<msg, calls, sends, nodes, inbox>>

\* After the last candidate, the first one again.
ContinueRound ==
    call' = [call EXCEPT !.next = IF @ = call.attempts THEN 1 ELSE @ + 1]

\* The attempt after a failed one: the next candidate, or the error return.
Continue ==
    call' = IF call.next = call.attempts THEN Idle
            ELSE [call EXCEPT !.next = @ + 1]

\* Packing for the first node serves all of them.
AttemptPackedOnce ==
    /\ call.pc = "attempt"
    /\ LET node == call.cands[call.next] IN
       \E m \in IF call.next > 1 THEN {msg}
                ELSE packForPropagation(msg, node.cost) :
          \/ /\ msg' = m /\ Continue
             /\ UNCHANGED sends
          \/ /\ msg' = [m EXCEPT !.sent = TRUE] /\ call' = Idle
             /\ sends' = sends \cup
                  {Sent(m, m.prop.wire, node.cost, m.prop.pnCost)}
    /\ UNCHANGED <<calls, nodes, inbox>>

\* One round of the loop: packing for the node, a new link, the transfer.  A
\* failed packing ends the call; a failed link or transfer goes on to the
\* next candidate, and the failed transfer may have reached the node.
Attempt ==
    /\ call.pc = "attempt"
    /\ LET node == call.cands[call.next] IN
       \/ /\ msg' \in packForPropagationFails(msg) /\ call' = Idle
          /\ UNCHANGED sends
       \/ \E m \in packForPropagation(msg, node.cost) :
          LET upload == Sent(m, m.prop.wire, node.cost, m.prop.pnCost) IN
          \/ /\ msg' = m /\ Continue
             /\ sends' \in {sends, sends \cup {upload}}
          \/ /\ msg' = [m EXCEPT !.sent = TRUE] /\ call' = Idle
             /\ sends' = sends \cup {upload}
    /\ UNCHANGED <<calls, nodes, inbox>>

------------------------------------------------------------------------------
(* The recipient.                                                          *)

Packets == {s.wire : s \in {x \in sends : x.via = "opportunistic"}}

\* Receive and onPacket: the packet decrypts (and a proof goes back, which no
\* code here reads), then it is dropped for want of a handler or of an answer
\* of the resolver, or the handler is called.  Handler and resolver can be
\* replaced at any time; the network loses, repeats and reorders packets.
Receive(w, handler, resolver) ==
    /\ inbox' = IF handler /\ resolver # "error"
                THEN inbox \cup {UnpackFromBytes(w, resolver = "known")}
                ELSE inbox
    /\ UNCHANGED <<msg, call, calls, nodes, sends>>

------------------------------------------------------------------------------

CallStep ==
    GenerateStamp \/ Send \/ sendDirectPacked \/ SendPropagated
    \/ Attempt \/ \E paths \in SUBSET Nodes : BeginRetry(paths)

Next ==
    \/ CallStep
    \/ \E r \in Requests : Start(r)
    \/ \E c \in Contents : SetContent(c)
    \/ \E a \in Announces : ReceivedAnnounce(a)
    \/ \E w \in Packets, handler \in BOOLEAN,
          resolver \in {"known", "unknown", "error"} :
          Receive(w, handler, resolver)

Spec == Init /\ [][Next]_vars

------------------------------------------------------------------------------
(* Properties.                                                             *)

\* Every variable keeps its type; no known node has a cost below the minimum
\* (propagation.go:67).
TypeOK ==
    /\ msg \in Messages
    /\ call.pc \in {"idle", "stamp", "transmit", "attempt"}
    /\ call.cands \in Seq(Candidates)
    /\ call.pc = "attempt" => call.next \in 1 .. call.attempts
                             /\ call.attempts <= Len(call.cands)
    /\ calls \in 0 .. MaxCalls
    /\ nodes \in [Nodes -> [cost : MinCost .. MaxCost, hops : Nat] \cup {None}]
    /\ \A s \in sends : s.wire \in Wires /\ s.pnCost \in Costs

\* Every message that goes out, by any path and after any earlier calls on the
\* same message, carries a signature over the content that goes out, and one
\* that verifies if the message has no stamp, whatever its fields, or has no
\* more than one field.  Pack signs one encoding and, with a stamp, puts
\* another one in Packed (message.go:285-314); for several fields the two can
\* differ, which is what NoneRejected is about.
SignatureCovers ==
    \A s \in sends :
        /\ s.wire.sig.content = s.wire.payload.content
        /\ s.wire.stamp = None \/ OneEncoding(s.wire.payload.content) => Verify(s.wire)

\* The recipient's handler never gets a message of this sender with its
\* signature marked invalid (message.go:453-456, messenger.go:316).
NoneRejected == \A e \in inbox : e.reason # "signatureInvalid"

\* A call that asked for a stamp of some cost transmits a message with a stamp
\* of that cost, searched for the content that goes out; the recipient's
\* ValidateStamp accepts it if the content has one encoding, since the hash is
\* then still the one that the stamp was searched for after the second Pack
\* (messenger.go:191-203, delivery_link.go:183-195).
StampAccepted ==
    \A s \in sends : s.cost > 0 =>
        /\ ValidateStamp(s.wire, 0) /\ s.wire.stamp.cost >= s.cost
        /\ s.wire.stamp.of.content = s.wire.payload.content
        /\ OneEncoding(s.wire.payload.content) => ValidateStamp(s.wire, s.cost)

\* What goes out is what the message holds, not what an earlier call left in
\* Packed, for every call but the unstamped propagated ones, which upload a
\* message as it was packed (messenger.go:206, propagation_send.go:98).
SentIsCurrent ==
    \A s \in sends :
        s.stamped \/ s.via \in {"opportunistic", "direct"} =>
            s.wire.payload.content = s.content

\* Every upload carries a stamp that the node it goes to accepts at its cost,
\* whatever nodes were tried before it and whatever they cost: every attempt
\* packs again (propagation_send.go:146).
UploadMeetsNode ==
    \A s \in sends : s.need > 0 => ValidatePNStamp(s, s.need)

\* AttemptOrder gives every reachable node that is not skipped once, up to the
\* limit, a reachable preferred node first and the others nearest first
\* (propagation_send.go:15).  It reads the registry alone, so it is enough to
\* look at the states before the first call, which have every registry.
AttemptOrderRight ==
    calls = 0 =>
    \A paths \in SUBSET Nodes, preferred \in Nodes \cup {None},
       skip \in SUBSET Nodes, max \in Attempts :
        LET order == AttemptOrder(paths, preferred, skip, max)
            wanted == reachable(paths) \ skip
        IN /\ IsInjective(order)
           /\ Range(order) \subseteq wanted
           /\ Len(order) = IF max > 0 /\ max < Cardinality(wanted) THEN max
                           ELSE Cardinality(wanted)
           /\ preferred \in wanted /\ order # <<>> => order[1] = preferred
           /\ \A i, j \in 1 .. Len(order) :
                 i < j /\ order[i] # preferred =>
                     nodes[order[i]].hops <= nodes[order[j]].hops

\* A call WithRetry uploads to no node twice, however many links and transfers
\* fail and however the registry changes meanwhile: it goes through the
\* candidates it took at the start, and no two of these are the same node
\* (propagation_send.go:130-169).
NodesTriedOnce ==
    [][call.pc = "attempt" /\ call'.pc = "attempt" =>
         /\ call'.cands = call.cands
         /\ \A i \in 1 .. call.next :
               call.cands[i].node # call'.cands[call'.next].node]_call
=============================================================================
