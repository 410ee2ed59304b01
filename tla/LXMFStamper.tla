----------------------------- MODULE LXMFStamper -----------------------------
(***************************************************************************)
(* GenerateStamp of pkg/lxmf/stamper.go: one call that starts a pool of    *)
(* workers, takes the first stamp that any of them puts in a channel of    *)
(* capacity one, and has to leave no worker behind.  The call, each        *)
(* worker, the goroutine that closes the channel and the owner of the      *)
(* context run concurrently; a step below is one channel, context or       *)
(* random-source operation of one of them.                                 *)
(*                                                                         *)
(* A stamp is identified with the digest SHA256(workblock || stamp), which *)
(* is all that the code looks at.  A digest is a sequence of Bytes bytes   *)
(* of ByteBits bits, the first one the most significant (the code: 32      *)
(* bytes of 8 bits), and the target and the score are computed byte by     *)
(* byte as the code does.                                                  *)
(***************************************************************************)
EXTENDS Integers, Sequences, FiniteSets

CONSTANTS Workers,    \* the worker goroutines, runtime.NumCPU() of them
          Bytes,      \* bytes of a digest
          ByteBits,   \* bits of a byte
          Costs       \* the stampCost arguments of the call

ASSUME StamperAssumption ==
    /\ Workers # {}
    /\ Bytes \in Nat \ {0}
    /\ ByteBits \in Nat \ {0}
    /\ Costs \subseteq Int

VARIABLES cost,     \* stampCost
          material, \* whether messageID is non-empty
          call,     \* GenerateStamp: "start", "recv" at <-resCh, "ret"
          result,   \* what it returned
          pc,       \* where each worker is
          cand,     \* the digest of a worker's candidate
          resCh,    \* the buffered result channel
          closed,   \* close(resCh) was done
          ctxDone,  \* the caller's ctx is cancelled or past its deadline
          subDone,  \* subCtx is done
          randErr,  \* rand.Read failed for some worker
          panicked  \* a send met the closed channel

vars == <<cost, material, call, result, pc, cand, resCh, closed, ctxDone,
          subDone, randErr, panicked>>

Bits == Bytes * ByteBits

\* 1 << n, for the bits of a byte and the first that is not one.
Shift[n \in 0 .. ByteBits] == IF n = 0 THEN 1 ELSE 2 * Shift[n - 1]

Digests == [0 .. Bytes - 1 -> 0 .. Shift[ByteBits] - 1]

NoStamp == [i \in {} |-> 0]

Returned(kind) == [kind |-> kind, stamp |-> NoStamp, value |-> 0]

Results ==
    [kind : {"none", "badCost", "noMaterial", "notFound"},
     stamp : {NoStamp}, value : {0}]
    \cup [kind : {"ok"}, stamp : Digests, value : Nat]

------------------------------------------------------------------------------
(* The arithmetic.                                                         *)

\* A position that is one bit too high.
TargetHigh(c) ==
    LET pos == Bits - c + 1
        byteIdx == Bytes - 1 - (pos \div ByteBits)
    IN [i \in 0 .. Bytes - 1 |->
            IF c < Bits /\ i = byteIdx THEN Shift[pos % ByteBits] ELSE 0]

\* 1 << (Bits - c) as bytes; all zero for the costs that have no such bit.
stampTargetBytes(c) ==
    LET pos == Bits - c
        byteIdx == Bytes - 1 - (pos \div ByteBits)
    IN [i \in 0 .. Bytes - 1 |->
            IF c < Bits /\ i = byteIdx THEN Shift[pos % ByteBits] ELSE 0]

\* bytes.Compare(a, b) <= 0
AtMost(a, b) ==
    \/ a = b
    \/ \E i \in 0 .. Bytes - 1 :
          /\ a[i] < b[i]
          /\ \A j \in 0 .. i - 1 : a[j] = b[j]

\* The leading zero bits of the digest.
StampValue(d) ==
    LET zeros == {i \in 0 .. Bytes - 1 : \A j \in 0 .. i : d[j] = 0}
        first == Cardinality(zeros)
    IN ByteBits * first +
         (IF first = Bytes THEN 0
          ELSE Cardinality({bit \in 0 .. ByteBits - 1 : d[first] < Shift[bit]}))

StampValid(d, c) ==
    \/ c <= 0
    \/ /\ c <= Bits
       /\ AtMost(d, stampTargetBytes(c))

------------------------------------------------------------------------------
(* The call.                                                               *)

Init ==
    /\ cost \in Costs
    /\ material \in BOOLEAN
    /\ call = "start"
    /\ result = Returned("none")
    /\ pc = [w \in Workers |-> "idle"]
    /\ cand = [w \in Workers |-> NoStamp]
    /\ resCh = <<>>
    /\ closed = FALSE
    /\ ctxDone \in BOOLEAN
    /\ subDone = FALSE
    /\ randErr = FALSE
    /\ panicked = FALSE

\* StampWorkblock refuses an empty messageID.
WorkblockFails == ~material

\* The early returns, or make(chan), WithCancel and one wg.Go per worker.
GenerateStamp ==
    /\ call = "start"
    /\ \/ /\ cost <= 0 \/ WorkblockFails
          /\ call' = "ret"
          /\ result' = Returned(IF cost <= 0 THEN "badCost" ELSE "noMaterial")
          /\ UNCHANGED <<pc, subDone>>
       \/ /\ cost > 0 /\ ~WorkblockFails
          /\ call' = "recv"
          /\ pc' = [w \in Workers |-> "poll"]
          /\ subDone' = ctxDone
          /\ UNCHANGED result
    /\ UNCHANGED <<cost, material, cand, resCh, closed, ctxDone, randErr,
                   panicked>>

\* res, ok := <-resCh, the return and the deferred cancel().
Receive ==
    /\ call = "recv"
    /\ \/ /\ resCh # <<>>
          /\ result' = [kind |-> "ok", stamp |-> Head(resCh),
                        value |-> StampValue(Head(resCh))]
          /\ resCh' = Tail(resCh)
       \/ /\ resCh = <<>> /\ closed
          /\ result' = Returned("notFound")
          /\ UNCHANGED resCh
    /\ call' = "ret"
    /\ subDone' = TRUE
    /\ UNCHANGED <<cost, material, pc, cand, closed, ctxDone, randErr,
                   panicked>>

\* The caller cancels ctx or its deadline passes; subCtx is derived from it.
CancelContext ==
    /\ ~ctxDone
    /\ ctxDone' = TRUE
    /\ subDone' = (call # "start")
    /\ UNCHANGED <<cost, material, call, result, pc, cand, resCh, closed,
                   randErr, panicked>>

------------------------------------------------------------------------------
(* The workers.                                                            *)

Goto(w, label) == pc' = [pc EXCEPT ![w] = label]

\* The non-blocking look at subCtx at the top of the loop.
Poll(w) ==
    /\ pc[w] = "poll"
    /\ Goto(w, IF subDone THEN "done" ELSE "try")
    /\ UNCHANGED <<cost, material, call, result, cand, resCh, closed, ctxDone,
                   subDone, randErr, panicked>>

\* rand.Read, the digest of the candidate and its comparison with the target.
Try(w) ==
    /\ pc[w] = "try"
    /\ \/ /\ randErr' = TRUE
          /\ Goto(w, "done")
          /\ UNCHANGED cand
       \/ \E d \in Digests :
             /\ IF AtMost(d, stampTargetBytes(cost))
                THEN Goto(w, "found") /\ cand' = [cand EXCEPT ![w] = d]
                ELSE Goto(w, "poll") /\ UNCHANGED cand
             /\ UNCHANGED randErr
    /\ UNCHANGED <<cost, material, call, result, resCh, closed, ctxDone,
                   subDone, panicked>>

\* A plain send, with no case for subCtx.
OfferBlocking(w) ==
    /\ pc[w] = "found"
    /\ resCh = <<>>
    /\ resCh' = <<cand[w]>>
    /\ Goto(w, "cancel")
    /\ UNCHANGED <<cost, material, call, result, cand, closed, ctxDone,
                   subDone, randErr, panicked>>

\* cancel() moved before the send.
OfferCancelled(w) ==
    /\ pc[w] = "found"
    /\ subDone' = TRUE
    /\ \/ resCh = <<>> /\ resCh' = <<cand[w]>>
       \/ UNCHANGED resCh
    /\ Goto(w, "done")
    /\ UNCHANGED <<cost, material, call, result, cand, closed, ctxDone,
                   randErr, panicked>>

\* The select of the send and <-subCtx.Done(): any ready case may be taken,
\* and evaluating a send to a closed channel panics.
Offer(w) ==
    /\ pc[w] = "found"
    /\ \/ /\ closed
          /\ panicked' = TRUE
          /\ UNCHANGED <<pc, resCh>>
       \/ /\ ~closed /\ resCh = <<>>
          /\ resCh' = <<cand[w]>>
          /\ Goto(w, "cancel")
          /\ UNCHANGED panicked
       \/ /\ subDone
          /\ Goto(w, "done")
          /\ UNCHANGED <<resCh, panicked>>
    /\ UNCHANGED <<cost, material, call, result, cand, closed, ctxDone,
                   subDone, randErr>>

\* The winner's cancel() and return.
CancelOthers(w) ==
    /\ pc[w] = "cancel"
    /\ subDone' = TRUE
    /\ Goto(w, "done")
    /\ UNCHANGED <<cost, material, call, result, cand, resCh, closed, ctxDone,
                   randErr, panicked>>

\* close(resCh) as soon as one worker is done.
CloseFirst ==
    /\ ~closed
    /\ \E w \in Workers : pc[w] = "done"
    /\ closed' = TRUE
    /\ UNCHANGED <<cost, material, call, result, pc, cand, resCh, ctxDone,
                   subDone, randErr, panicked>>

\* wg.Wait() and close(resCh).
CloseResults ==
    /\ ~closed
    /\ \A w \in Workers : pc[w] = "done"
    /\ closed' = TRUE
    /\ UNCHANGED <<cost, material, call, result, pc, cand, resCh, ctxDone,
                   subDone, randErr, panicked>>

Worker(w) == Poll(w) \/ Try(w) \/ Offer(w) \/ CancelOthers(w)

Next ==
    \/ GenerateStamp
    \/ Receive
    \/ CancelContext
    \/ CloseResults
    \/ \E w \in Workers : Worker(w)

Spec == Init /\ [][Next]_vars

\* Every goroutine that can take a step is scheduled; nothing makes the
\* context end, nor a candidate meet the target.
FairSpec ==
    /\ Spec
    /\ WF_vars(GenerateStamp)
    /\ WF_vars(Receive)
    /\ WF_vars(CloseResults)
    /\ \A w \in Workers : WF_vars(Worker(w))

------------------------------------------------------------------------------
(* Properties.                                                             *)

\* Every variable keeps its type; the result channel never holds more than
\* the one result it has room for (stamper.go:152).
TypeOK ==
    /\ cost \in Costs
    /\ material \in BOOLEAN
    /\ call \in {"start", "recv", "ret"}
    /\ result \in Results
    /\ pc \in [Workers -> {"idle", "poll", "try", "found", "cancel", "done"}]
    /\ cand \in [Workers -> Digests \cup {NoStamp}]
    /\ resCh \in {<<>>} \cup {<<d>> : d \in Digests}
    /\ closed \in BOOLEAN
    /\ ctxDone \in BOOLEAN
    /\ subDone \in BOOLEAN
    /\ randErr \in BOOLEAN
    /\ panicked \in BOOLEAN

\* No worker sends on the channel after the closing goroutine closed it: the
\* channel is closed only when every worker has returned (stamper.go:187).
NoSendAfterClose == ~panicked

\* ErrStampNotFound is returned only when the caller's context ended or the
\* random source failed: the cancel() by which the winning worker stops the
\* others never hides the winner's own stamp (stamper.go:176-181, 192).
NotFoundOnlyIfStopped ==
    result.kind = "notFound" => ctxDone \/ randErr

\* A stamp GenerateStamp returns for a cost a digest can have is one that
\* StampValid accepts for that cost, and its score falls short of the cost by
\* one bit at most, and only for the digest equal to the target: the target
\* is 1 << (256 - cost) and the comparison is <= (stamper.go:102, 174, 216).
ReturnedMeetsCost ==
    result.kind = "ok" /\ cost <= Bits =>
        /\ StampValid(result.stamp, cost)
        /\ \/ result.value >= cost
           \/ /\ result.value = cost - 1
              /\ result.stamp = stampTargetBytes(cost)

\* What ReturnedMeetsCost rests on: what is returned passed the comparison
\* with the target, and the score is the score of that stamp.
ReturnedWasFound ==
    result.kind = "ok" =>
        /\ AtMost(result.stamp, stampTargetBytes(cost))
        /\ result.value = StampValue(result.stamp)

\* Once GenerateStamp has returned or its context has ended, the call
\* returns and every worker it started ends: none stays blocked on the full
\* channel nor keeps searching (stamper.go:176-181, 187-190).
WorkersEnd ==
    (ctxDone \/ call = "ret") ~>
        (call = "ret" /\ \A w \in Workers : pc[w] \in {"idle", "done"})
=============================================================================
