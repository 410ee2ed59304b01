-------------------------- MODULE LXMFStamperProofs --------------------------
(***************************************************************************)
(* Proofs about GenerateStamp for any number of workers, any digest width  *)
(* and any cost.  The inductive invariant SearchInv says where a stamp     *)
(* that was found can be: with its worker or in the channel.  That a stamp *)
(* below the target has the score asked for is a fact about digests and    *)
(* powers of two, MeetsCost.                                               *)
(***************************************************************************)
EXTENDS LXMFStamper, FiniteSetTheorems, WellFoundedInduction, TLAPS

MeetsTarget(d) == d \in Digests /\ AtMost(d, stampTargetBytes(cost))

(* The workers run only between the start of the call and its end, and the *)
(* channel is closed only when they have all returned.                     *)
PhaseInv ==
    /\ call = "start" =>
          /\ resCh = <<>>
          /\ result.kind = "none"
          /\ \A w \in Workers : pc[w] = "idle"
    /\ call = "recv" => result.kind = "none"
    /\ closed => \A w \in Workers : pc[w] = "done"

(* Only candidates that met the target travel.                             *)
FoundInv ==
    /\ \A w \in Workers : pc[w] = "found" => MeetsTarget(cand[w])
    /\ resCh # <<>> => MeetsTarget(resCh[1])

(* A worker stops because subCtx is done or the random source failed, and  *)
(* while the call still waits and its context lives, subCtx is done only   *)
(* once the winner's stamp is in the channel.                              *)
StopInv ==
    /\ \A w \in Workers : pc[w] = "done" => subDone \/ randErr
    /\ call = "recv" /\ ~ctxDone /\ (subDone \/ \E w \in Workers : pc[w] = "cancel")
          => resCh # <<>>

SearchInv ==
    /\ TypeOK
    /\ PhaseInv
    /\ FoundInv
    /\ StopInv
    /\ NoSendAfterClose
    /\ NotFoundOnlyIfStopped
    /\ ReturnedWasFound

------------------------------------------------------------------------------

\* The score that StampValue computes is a natural number.
LEMMA StampValueNat ==
    ASSUME NEW d \in Digests
    PROVE  StampValue(d) \in Nat
<1> DEFINE Z == {i \in 0 .. Bytes - 1 : \A j \in 0 .. i : d[j] = 0}
           B == {bit \in 0 .. ByteBits - 1 : d[Cardinality(Z)] < Shift[bit]}
<1>1. IsFiniteSet(0 .. Bytes - 1) /\ IsFiniteSet(0 .. ByteBits - 1)
  BY StamperAssumption, FS_Interval
<1>2. Cardinality(Z) \in Nat
  BY ZenonT(60), <1>1, FS_Subset, FS_CardinalityType
<1>3. Cardinality(B) \in Nat
  <2>1. B \subseteq 0 .. ByteBits - 1
    OBVIOUS
  <2> QED
    BY ZenonT(60), <1>1, <2>1, FS_Subset, FS_CardinalityType
<1>4. StampValue(d) = ByteBits * Cardinality(Z) +
         (IF Cardinality(Z) = Bytes THEN 0 ELSE Cardinality(B))
  BY DEF StampValue
<1> QED
  BY <1>2, <1>3, <1>4, StamperAssumption

\* Receiving from a channel that holds one result empties it.
LEMMA OneResult ==
    ASSUME NEW d PROVE Head(<<d>>) = d /\ Tail(<<d>>) = <<>>
OBVIOUS

\* The invariant holds before the call starts.
LEMMA InitSearchInv == Init => SearchInv
<1> SUFFICES ASSUME Init PROVE SearchInv
  OBVIOUS
<1>1. TypeOK
  BY ZenonT(60) DEF Init, TypeOK, Results, Returned
<1>2. PhaseInv /\ FoundInv /\ StopInv
  BY StamperAssumption DEF Init, PhaseInv, FoundInv, StopInv, Returned
<1>3. NoSendAfterClose /\ NotFoundOnlyIfStopped /\ ReturnedWasFound
  BY DEF Init, NoSendAfterClose, NotFoundOnlyIfStopped, ReturnedWasFound,
         Returned
<1> QED
  BY <1>1, <1>2, <1>3 DEF SearchInv

\* The first receive: what is in the channel was found by a worker, and an
\* empty closed channel means that the search was stopped from outside.
LEMMA ReceiveOK == SearchInv /\ Receive => SearchInv'
<1> SUFFICES ASSUME SearchInv, Receive PROVE SearchInv'
  OBVIOUS
<1> USE DEF SearchInv
<1>1. CASE resCh # <<>>
  <2> DEFINE d == resCh[1]
  <2>1. d \in Digests /\ AtMost(d, stampTargetBytes(cost)) /\ resCh = <<d>>
    BY <1>1 DEF FoundInv, MeetsTarget, TypeOK
  <2>2. /\ result' = [kind |-> "ok", stamp |-> d, value |-> StampValue(d)]
        /\ resCh' = <<>>
    <3>1. Head(resCh) = d /\ Tail(resCh) = <<>>
      BY ZenonT(60), <2>1, OneResult
    <3> QED
      BY ZenonT(60), <1>1, <3>1 DEF Receive
  <2>3. StampValue(d) \in Nat
    BY <2>1, StampValueNat
  <2> HIDE DEF d
  <2>4. TypeOK'
    <3>1. result' \in Results
      BY <2>1, <2>2, <2>3 DEF Results
    <3> QED
      BY <2>2, <3>1 DEF Receive, TypeOK
  <2>5. ReturnedWasFound'
    <3>1. cost' = cost
      BY DEF Receive
    <3> QED
      BY <2>1, <2>2, <3>1 DEF ReturnedWasFound
  <2>6. NotFoundOnlyIfStopped' /\ NoSendAfterClose'
    BY <2>2 DEF Receive, NotFoundOnlyIfStopped, NoSendAfterClose
  <2>7. PhaseInv' /\ StopInv'
    BY <2>2 DEF Receive, PhaseInv, StopInv
  <2>8. FoundInv'
    BY <2>2 DEF Receive, FoundInv, MeetsTarget
  <2> QED
    BY <2>4, <2>5, <2>6, <2>7, <2>8
<1>2. CASE resCh = <<>>
  <2>1. /\ closed /\ result' = Returned("notFound")
        /\ UNCHANGED resCh
    BY <1>2 DEF Receive
  <2>2. ctxDone \/ randErr
    BY <1>2, <2>1, StamperAssumption DEF PhaseInv, StopInv, Receive
  <2>3. TypeOK'
    BY <2>1 DEF Receive, TypeOK, Results, Returned
  <2>4. NotFoundOnlyIfStopped' /\ NoSendAfterClose' /\ ReturnedWasFound'
    BY <2>1, <2>2 DEF Receive, NotFoundOnlyIfStopped, NoSendAfterClose,
                      ReturnedWasFound, Returned
  <2>5. PhaseInv' /\ StopInv'
    BY <2>1 DEF Receive, PhaseInv, StopInv
  <2>6. FoundInv'
    BY <2>1 DEF Receive, FoundInv, MeetsTarget
  <2> QED
    BY <2>3, <2>4, <2>5, <2>6
<1> QED
  BY <1>1, <1>2

\* The steps of the call and of its context other than the receive.
LEMMA CallStepsOK ==
    SearchInv /\ (GenerateStamp \/ CancelContext \/ CloseResults) => SearchInv'
<1> USE DEF SearchInv
<1>1. ASSUME SearchInv, GenerateStamp PROVE SearchInv'
  <2>1. TypeOK'
    BY <1>1 DEF GenerateStamp, TypeOK, Results, Returned
  <2>2. PhaseInv'
    BY <1>1, StamperAssumption DEF GenerateStamp, PhaseInv, TypeOK, Returned
  <2>3. FoundInv'
    BY <1>1 DEF GenerateStamp, FoundInv, PhaseInv, MeetsTarget, TypeOK
  <2>4. StopInv'
    BY <1>1 DEF GenerateStamp, StopInv, PhaseInv, TypeOK
  <2>5. NoSendAfterClose' /\ NotFoundOnlyIfStopped' /\ ReturnedWasFound'
    BY <1>1 DEF GenerateStamp, NoSendAfterClose, NotFoundOnlyIfStopped,
                ReturnedWasFound, Returned, PhaseInv
  <2> QED
    BY <2>1, <2>2, <2>3, <2>4, <2>5
<1>2. ASSUME SearchInv, CancelContext PROVE SearchInv'
  <2>1. TypeOK'
    BY <1>2 DEF CancelContext, TypeOK
  <2>2. PhaseInv' /\ StopInv'
    BY ZenonT(60), <1>2 DEF CancelContext, PhaseInv, StopInv
  <2>3. FoundInv'
    BY <1>2 DEF CancelContext, FoundInv, MeetsTarget
  <2>4. NoSendAfterClose' /\ NotFoundOnlyIfStopped' /\ ReturnedWasFound'
    BY <1>2 DEF CancelContext, NoSendAfterClose, NotFoundOnlyIfStopped,
                ReturnedWasFound
  <2> QED
    BY <2>1, <2>2, <2>3, <2>4
<1>3. ASSUME SearchInv, CloseResults PROVE SearchInv'
  <2>1. TypeOK'
    BY <1>3 DEF CloseResults, TypeOK
  <2>2. PhaseInv' /\ StopInv'
    BY <1>3 DEF CloseResults, PhaseInv, StopInv
  <2>3. FoundInv'
    BY <1>3 DEF CloseResults, FoundInv, MeetsTarget
  <2>4. NoSendAfterClose' /\ NotFoundOnlyIfStopped' /\ ReturnedWasFound'
    BY <1>3 DEF CloseResults, NoSendAfterClose, NotFoundOnlyIfStopped,
                ReturnedWasFound
  <2> QED
    BY <2>1, <2>2, <2>3, <2>4
<1> QED
  BY <1>1, <1>2, <1>3

\* The steps of a worker.
LEMMA WorkerOK ==
    ASSUME NEW w \in Workers, SearchInv, Worker(w)
    PROVE  SearchInv'
<1> USE DEF SearchInv, Goto
<1>1. CASE Poll(w)
  <2>1. TypeOK'
    BY <1>1 DEF Poll, TypeOK
  <2>2. PhaseInv' /\ StopInv'
    BY <1>1 DEF Poll, PhaseInv, StopInv, TypeOK
  <2>3. FoundInv'
    BY <1>1 DEF Poll, FoundInv, MeetsTarget, TypeOK
  <2>4. NoSendAfterClose' /\ NotFoundOnlyIfStopped' /\ ReturnedWasFound'
    BY <1>1 DEF Poll, NoSendAfterClose, NotFoundOnlyIfStopped,
                ReturnedWasFound
  <2> QED
    BY <2>1, <2>2, <2>3, <2>4
<1>2. CASE Try(w)
  <2>1. TypeOK'
    BY ZenonT(60), <1>2 DEF Try, TypeOK
  <2>2. PhaseInv' /\ StopInv'
    BY <1>2 DEF Try, PhaseInv, StopInv, TypeOK
  <2>3. FoundInv'
    BY <1>2 DEF Try, FoundInv, MeetsTarget, TypeOK
  <2>4. NoSendAfterClose' /\ NotFoundOnlyIfStopped' /\ ReturnedWasFound'
    BY <1>2 DEF Try, NoSendAfterClose, NotFoundOnlyIfStopped,
                ReturnedWasFound
  <2> QED
    BY <2>1, <2>2, <2>3, <2>4
<1>3. CASE Offer(w)
  <2>1. ~closed
    BY <1>3 DEF Offer, PhaseInv
  <2>2. cand[w] \in Digests /\ AtMost(cand[w], stampTargetBytes(cost))
    BY <1>3 DEF Offer, FoundInv, MeetsTarget
  <2>3. TypeOK'
    BY <1>3, <2>1, <2>2 DEF Offer, TypeOK
  <2>4. PhaseInv'
    BY <1>3, <2>1 DEF Offer, PhaseInv, TypeOK
  <2>5. StopInv'
    <3>1. CASE resCh' = <<cand[w]>> /\ pc' = [pc EXCEPT ![w] = "cancel"]
      <4>1. resCh' # <<>>
        BY <3>1
      <4> QED
        BY <1>3, <3>1, <4>1 DEF Offer, StopInv, TypeOK
    <3>2. CASE subDone /\ pc' = [pc EXCEPT ![w] = "done"] /\ UNCHANGED resCh
      BY <1>3, <3>2 DEF Offer, StopInv, TypeOK
    <3> QED
      BY <1>3, <2>1, <3>1, <3>2 DEF Offer
  <2>6. FoundInv'
    BY <1>3, <2>1, <2>2 DEF Offer, FoundInv, MeetsTarget, TypeOK
  <2>7. NoSendAfterClose' /\ NotFoundOnlyIfStopped' /\ ReturnedWasFound'
    BY SMTT(60), <1>3, <2>1 DEF Offer, NoSendAfterClose, NotFoundOnlyIfStopped,
                      ReturnedWasFound
  <2> QED
    BY <2>3, <2>4, <2>5, <2>6, <2>7
<1>4. CASE CancelOthers(w)
  <2>1. TypeOK'
    BY <1>4 DEF CancelOthers, TypeOK
  <2>2. PhaseInv' /\ StopInv'
    BY <1>4 DEF CancelOthers, PhaseInv, StopInv, TypeOK
  <2>3. FoundInv'
    BY <1>4 DEF CancelOthers, FoundInv, MeetsTarget, TypeOK
  <2>4. NoSendAfterClose' /\ NotFoundOnlyIfStopped' /\ ReturnedWasFound'
    BY SMTT(60), <1>4 DEF CancelOthers, NoSendAfterClose, NotFoundOnlyIfStopped,
                ReturnedWasFound
  <2> QED
    BY <2>1, <2>2, <2>3, <2>4
<1> QED
  BY <1>1, <1>2, <1>3, <1>4 DEF Worker

\* A step that changes nothing keeps the invariant.
LEMMA StutterOK == SearchInv /\ UNCHANGED vars => SearchInv'
BY DEF SearchInv, vars, TypeOK, PhaseInv, FoundInv, MeetsTarget, StopInv,
       NoSendAfterClose, NotFoundOnlyIfStopped, ReturnedWasFound

------------------------------------------------------------------------------
(* The score of a stamp that met the target.                                *)

\* A set of natural numbers that is not empty has a least element.
LEMMA Least ==
    ASSUME NEW T \in SUBSET Nat, T # {}
    PROVE  \E x \in T : \A y \in T : ~(y < x)
<1>1. PICK x \in T : \A y \in T : <<y, x>> \notin OpToRel(<, Nat)
  BY ZenonT(60), NatLessThanWellFounded, WFMin
<1>2. ASSUME NEW y \in T, y < x PROVE FALSE
  BY ZenonT(60), <1>1, <1>2 DEF OpToRel
<1> QED BY <1>2

\* Shift is the function that its equation describes.
LEMMA ShiftExists ==
    ASSUME NEW N \in Nat
    PROVE  \E f : f = [n \in 0 .. N |-> IF n = 0 THEN 1 ELSE 2 * f[n - 1]]
<1> DEFINE P(k) == \E f : f = [n \in 0 .. k |-> IF n = 0 THEN 1 ELSE 2 * f[n - 1]]
           T == {k \in Nat : ~P(k)}
<1> SUFFICES ASSUME T # {} PROVE FALSE
  BY ZenonT(60)
<1>1. PICK k \in T : \A y \in T : ~(y < k)
  <2> HIDE DEF P
  <2> QED BY ZenonT(60), Least
<1>2. k \in Nat /\ ~P(k) OBVIOUS
<1>3. CASE k = 0
  <2> DEFINE g == [n \in 0 .. 0 |-> 1]
  <2>1. g = [n \in 0 .. 0 |-> IF n = 0 THEN 1 ELSE 2 * g[n - 1]] OBVIOUS
  <2> QED BY ZenonT(60), <1>2, <1>3, <2>1
<1>4. CASE k # 0
  <2>1. P(k - 1)
    <3>1. k - 1 \in Nat /\ k - 1 < k BY <1>2, <1>4
    <3> HIDE DEF P
    <3> QED BY <1>1, <3>1
  <2>2. PICK f : f = [n \in 0 .. k - 1 |-> IF n = 0 THEN 1 ELSE 2 * f[n - 1]] BY <2>1
  <2> DEFINE g == [n \in 0 .. k |-> IF n = 0 THEN 1 ELSE 2 * f[n - 1]]
  <2>3. ASSUME NEW n \in 0 .. k, n # 0 PROVE f[n - 1] = g[n - 1]
    <3>1. n - 1 \in 0 .. k - 1 /\ n - 1 \in 0 .. k BY <1>2, <2>3
    <3>2. f[n - 1] = IF n - 1 = 0 THEN 1 ELSE 2 * f[(n - 1) - 1] BY <2>2, <3>1
    <3>3. g[n - 1] = IF n - 1 = 0 THEN 1 ELSE 2 * f[(n - 1) - 1] BY <3>1
    <3> QED BY <3>2, <3>3
  <2>4. \A n \in 0 .. k : g[n] = IF n = 0 THEN 1 ELSE 2 * g[n - 1]
    <3> SUFFICES ASSUME NEW n \in 0 .. k
                 PROVE  g[n] = IF n = 0 THEN 1 ELSE 2 * g[n - 1]
      BY ZenonT(60)
    <3>1. g[n] = IF n = 0 THEN 1 ELSE 2 * f[n - 1] OBVIOUS
    <3> HIDE DEF g
    <3> QED BY <2>3, <3>1
  <2>5. g = [n \in 0 .. k |-> g[n]] OBVIOUS
  <2> HIDE DEF g
  <2>6. g = [n \in 0 .. k |-> IF n = 0 THEN 1 ELSE 2 * g[n - 1]] BY ZenonT(60), <2>4, <2>5
  <2> QED BY <1>2, <2>6
<1> QED BY <1>3, <1>4

\* So the recursive definition of Shift has the function it describes.
LEMMA ShiftDef ==
    \A n \in 0 .. ByteBits : Shift[n] = IF n = 0 THEN 1 ELSE 2 * Shift[n - 1]
<1>1. ByteBits \in Nat BY StamperAssumption
<1>2. \E f : f = [n \in 0 .. ByteBits |-> IF n = 0 THEN 1 ELSE 2 * f[n - 1]]
  BY ZenonT(60), <1>1, ShiftExists
<1>3. Shift = [n \in 0 .. ByteBits |-> IF n = 0 THEN 1 ELSE 2 * Shift[n - 1]]
  BY ZenonT(60), <1>2 DEF Shift
<1> QED BY ZenonT(60), <1>3

\* It is positive and grows.
LEMMA ShiftPositive == \A n \in 0 .. ByteBits : Shift[n] \in Nat /\ Shift[n] > 0
<1> DEFINE T == {n \in 0 .. ByteBits : ~(Shift[n] \in Nat /\ Shift[n] > 0)}
<1>0. ByteBits \in Nat BY StamperAssumption
<1> SUFFICES ASSUME T # {} PROVE FALSE
  OBVIOUS
<1>1. PICK k \in T : \A y \in T : ~(y < k)
  <2>1. T \in SUBSET Nat BY <1>0
  <2> HIDE DEF T
  <2> QED BY <2>1, Least
<1>2. k \in 0 .. ByteBits /\ ~(Shift[k] \in Nat /\ Shift[k] > 0) OBVIOUS
<1>3. k # 0 BY <1>2, ShiftDef
<1>4. k - 1 \in 0 .. ByteBits /\ k - 1 < k BY <1>0, <1>2, <1>3
<1>5. Shift[k - 1] \in Nat /\ Shift[k - 1] > 0 BY <1>1, <1>4
<1>6. Shift[k] = 2 * Shift[k - 1] BY <1>2, <1>3, ShiftDef
<1> QED BY <1>2, <1>5, <1>6

\* A larger shift gives a larger number.
LEMMA ShiftGrows ==
    \A m, n \in 0 .. ByteBits : m < n => Shift[m] < Shift[n]
<1> DEFINE T == {n \in 0 .. ByteBits : \E m \in 0 .. ByteBits : m < n /\ ~(Shift[m] < Shift[n])}
<1>0. ByteBits \in Nat BY StamperAssumption
<1> SUFFICES ASSUME T # {} PROVE FALSE
  OBVIOUS
<1>1. PICK k \in T : \A y \in T : ~(y < k)
  <2>1. T \in SUBSET Nat BY <1>0
  <2> HIDE DEF T
  <2> QED BY <2>1, Least
<1>2. PICK m \in 0 .. ByteBits : m < k /\ ~(Shift[m] < Shift[k]) OBVIOUS
<1>3. k \in 0 .. ByteBits /\ k # 0 BY <1>0, <1>2
<1>4. k - 1 \in 0 .. ByteBits /\ k - 1 < k BY <1>0, <1>3
<1>5. Shift[k] = 2 * Shift[k - 1] BY <1>3, ShiftDef
<1>6. /\ Shift[k - 1] \in Nat /\ Shift[k - 1] > 0 /\ Shift[m] \in Nat
  BY <1>4, ShiftPositive
<1>7. m = k - 1 \/ m < k - 1 BY <1>0, <1>2, <1>3
<1>8. m < k - 1 => Shift[m] < Shift[k - 1] BY <1>1, <1>4
<1> QED BY <1>2, <1>5, <1>6, <1>7, <1>8

\* The bits of a byte above which a value lies.
LEMMA BitsAbove ==
    ASSUME NEW v \in Nat, NEW r \in 0 .. ByteBits - 1
    PROVE  LET B == {bit \in 0 .. ByteBits - 1 : v < Shift[bit]} IN
           /\ Cardinality(B) \in Nat
           /\ v < Shift[r] => Cardinality(B) >= ByteBits - r
           /\ v = Shift[r] => Cardinality(B) = ByteBits - r - 1
<1> DEFINE B == {bit \in 0 .. ByteBits - 1 : v < Shift[bit]}
<1>0. ByteBits \in Nat \ {0} BY StamperAssumption
<1>1. IsFiniteSet(0 .. ByteBits - 1) BY <1>0, FS_Interval
<1>2. IsFiniteSet(B) BY ZenonT(60), <1>1, FS_Subset
<1>3. Cardinality(B) \in Nat BY <1>2, FS_CardinalityType
<1>4. \A n \in 0 .. ByteBits - 1 : n \in 0 .. ByteBits /\ Shift[n] \in Nat
  BY <1>0, ShiftPositive
<1>5. \A m, n \in 0 .. ByteBits - 1 : m < n => Shift[m] < Shift[n]
  BY <1>4, ShiftGrows
<1>6. ASSUME v < Shift[r] PROVE Cardinality(B) >= ByteBits - r
  <2>1. r .. ByteBits - 1 \in SUBSET B
    <3> SUFFICES ASSUME NEW n \in r .. ByteBits - 1 PROVE n \in B
      OBVIOUS
    <3>1. n \in 0 .. ByteBits - 1 /\ (n = r \/ r < n) BY <1>0
    <3>2. Shift[n] \in Nat /\ Shift[r] \in Nat /\ (n = r \/ Shift[r] < Shift[n])
      BY <1>4, <1>5, <3>1
    <3>3. v < Shift[n] BY <1>6, <3>2
    <3> QED BY <3>1, <3>3
  <2>2. Cardinality(r .. ByteBits - 1) = ByteBits - r BY <1>0, FS_Interval
  <2>3. Cardinality(r .. ByteBits - 1) <= Cardinality(B) BY ZenonT(60), <1>2, <2>1, FS_Subset
  <2> QED BY <1>0, <1>3, <2>2, <2>3
<1>7. ASSUME v = Shift[r] PROVE Cardinality(B) = ByteBits - r - 1
  <2>1. ASSUME NEW n \in 0 .. ByteBits - 1 PROVE v < Shift[n] <=> r < n
    <3>1. n = r \/ r < n \/ n < r BY <1>0
    <3>2. Shift[n] \in Nat /\ Shift[r] \in Nat BY <1>4
    <3>3. (r < n => Shift[r] < Shift[n]) /\ (n < r => Shift[n] < Shift[r]) BY <1>5
    <3> QED BY <1>0, <1>7, <3>1, <3>2, <3>3
  <2>2. B = r + 1 .. ByteBits - 1
    <3>1. ASSUME NEW n \in B PROVE n \in r + 1 .. ByteBits - 1 BY <1>0, <2>1
    <3>2. ASSUME NEW n \in r + 1 .. ByteBits - 1 PROVE n \in B
      <4>1. n \in 0 .. ByteBits - 1 /\ r < n BY <1>0
      <4> QED BY <2>1, <4>1
    <3> QED BY <3>1, <3>2
  <2>3. Cardinality(r + 1 .. ByteBits - 1) = ByteBits - r - 1 BY <1>0, FS_Interval
  <2> QED BY ZenonT(60), <2>2, <2>3
<1> QED BY <1>3, <1>6, <1>7

\* The first byte of a digest that is not zero, or the end of it.
LEMMA FirstByte ==
    ASSUME NEW d \in Digests
    PROVE  \E k \in 0 .. Bytes : (\A j \in 0 .. k - 1 : d[j] = 0) /\ (k # Bytes => d[k] # 0)
<1>0. Bytes \in Nat \ {0} BY StamperAssumption
<1>1. CASE \A j \in 0 .. Bytes - 1 : d[j] = 0
  <2>1. Bytes \in 0 .. Bytes BY <1>0
  <2> QED BY <1>1, <2>1
<1>2. CASE \E j \in 0 .. Bytes - 1 : d[j] # 0
  <2> DEFINE T == {j \in 0 .. Bytes - 1 : d[j] # 0}
  <2>1. T \in SUBSET Nat /\ T # {} BY <1>0, <1>2
  <2>2. PICK k \in T : \A y \in T : ~(y < k)
    <3> HIDE DEF T
    <3> QED BY <2>1, Least
  <2>3. k \in 0 .. Bytes - 1 /\ d[k] # 0 OBVIOUS
  <2>4. k \in 0 .. Bytes BY <1>0, <2>3
  <2>5. ASSUME NEW j \in 0 .. k - 1 PROVE d[j] = 0
    <3>1. j \in 0 .. Bytes - 1 /\ j < k BY <1>0, <2>3
    <3> QED BY <2>2, <3>1
  <2> QED BY <2>3, <2>4, <2>5
<1> QED BY <1>1, <1>2

\* StampValue in terms of that byte.
LEMMA ValueAt ==
    ASSUME NEW d \in Digests, NEW k \in 0 .. Bytes,
           \A j \in 0 .. k - 1 : d[j] = 0, k # Bytes => d[k] # 0
    PROVE  StampValue(d) = ByteBits * k +
              (IF k = Bytes THEN 0
               ELSE Cardinality({bit \in 0 .. ByteBits - 1 : d[k] < Shift[bit]}))
<1> DEFINE Z == {i \in 0 .. Bytes - 1 : \A j \in 0 .. i : d[j] = 0}
<1>0. Bytes \in Nat \ {0} BY StamperAssumption
<1>1. Z = 0 .. k - 1
  <2>1. ASSUME NEW i \in Z PROVE i \in 0 .. k - 1
    <3>1. CASE k <= i
      <4>1. k \in 0 .. i /\ k # Bytes BY <1>0, <3>1
      <4> QED BY <4>1
    <3>2. CASE i < k BY <1>0, <3>2
    <3> QED BY <1>0, <3>1, <3>2
  <2>2. ASSUME NEW i \in 0 .. k - 1 PROVE i \in Z
    <3>1. i \in 0 .. Bytes - 1 BY <1>0
    <3>2. \A j \in 0 .. i : j \in 0 .. k - 1 BY <1>0
    <3> QED BY <3>1, <3>2
  <2> QED BY <2>1, <2>2
<1>2. Cardinality(0 .. k - 1) = k BY <1>0, FS_Interval
<1>3. Cardinality(Z) = k BY ZenonT(60), <1>1, <1>2
<1> QED BY <1>3 DEF StampValue

\* Division by the number of bits of a byte.
LEMMA BytePosition ==
    ASSUME NEW pos \in Nat, pos < Bits
    PROVE  /\ pos \div ByteBits \in 0 .. Bytes - 1
           /\ pos % ByteBits \in 0 .. ByteBits - 1
           /\ pos = ByteBits * (pos \div ByteBits) + (pos % ByteBits)
<1>1. ByteBits \in Nat \ {0} /\ Bytes \in Nat \ {0} BY StamperAssumption
<1>2. /\ pos \div ByteBits \in Nat /\ pos % ByteBits \in 0 .. ByteBits - 1
      /\ pos = ByteBits * (pos \div ByteBits) + (pos % ByteBits)
  BY <1>1
<1>3. pos < Bytes * ByteBits BY DEF Bits
<1>4. ASSUME pos \div ByteBits >= Bytes PROVE FALSE
  BY <1>1, <1>2, <1>3, <1>4
<1> QED BY <1>1, <1>2, <1>4

\* A digest that is at most the target has the score that was asked for, but
\* for the target itself, which falls short by one.
LEMMA MeetsCost ==
    ASSUME NEW d \in Digests, NEW c \in Int, 0 < c, c <= Bits, AtMost(d, stampTargetBytes(c))
    PROVE  StampValue(d) >= c \/ (StampValue(d) = c - 1 /\ d = stampTargetBytes(c))
<1> DEFINE t == stampTargetBytes(c)
           pos == Bits - c
           q == pos \div ByteBits
           r == pos % ByteBits
           b == Bytes - 1 - q
<1>1. ByteBits \in Nat \ {0} /\ Bytes \in Nat \ {0} /\ Bits = Bytes * ByteBits /\ Bits \in Nat
  BY StamperAssumption DEF Bits
<1>2. \A i \in 0 .. Bytes - 1 : t[i] = IF c < Bits /\ i = b THEN Shift[r] ELSE 0
  BY DEF stampTargetBytes
<1>3. ASSUME NEW i \in 0 .. Bytes - 1 PROVE d[i] \in Nat
  <2>1. ByteBits \in 0 .. ByteBits BY <1>1
  <2>2. Shift[ByteBits] \in Nat BY <2>1, ShiftPositive
  <2> QED BY <2>2 DEF Digests
<1>4. pos \in Nat /\ pos < Bits BY <1>1
<1>5. q \in 0 .. Bytes - 1 /\ r \in 0 .. ByteBits - 1 /\ pos = ByteBits * q + r
  BY <1>4, BytePosition
<1>6. b = Bytes - 1 - q /\ pos = Bits - c OBVIOUS
<1> HIDE DEF t, pos, q, r, b
<1>15. b \in 0 .. Bytes - 1 BY <1>1, <1>5, <1>6
<1>7. r \in 0 .. ByteBits /\ Shift[r] \in Nat /\ Shift[r] > 0 BY <1>1, <1>5, ShiftPositive
<1>8. ByteBits * b + ByteBits - r = c
  <2>1. ByteBits * b = ByteBits * Bytes - ByteBits - ByteBits * q BY <1>1, <1>5, <1>6
  <2>2. ByteBits * Bytes = Bits /\ ByteBits * q + r = Bits - c BY <1>1, <1>5, <1>6
  <2> DEFINE x == ByteBits * q
             y == ByteBits * b
  <2>3. x \in Int /\ r \in Int /\ y = Bits - ByteBits - x /\ x + r = Bits - c
    BY <1>1, <1>5, <2>1, <2>2
  <2> HIDE DEF x, y
  <2>4. y + ByteBits - r = c BY <1>1, <2>3
  <2> QED BY <2>4 DEF y
<1>9. PICK k \in 0 .. Bytes : (\A j \in 0 .. k - 1 : d[j] = 0) /\ (k # Bytes => d[k] # 0)
  BY FirstByte
<1> DEFINE B == {bit \in 0 .. ByteBits - 1 : d[k] < Shift[bit]}
<1>10. StampValue(d) = ByteBits * k + (IF k = Bytes THEN 0 ELSE Cardinality(B))
  BY <1>9, ValueAt
<1>11. k # Bytes => /\ Cardinality(B) \in Nat
                    /\ d[k] < Shift[r] => Cardinality(B) >= ByteBits - r
                    /\ d[k] = Shift[r] => Cardinality(B) = ByteBits - r - 1
  <2>1. k # Bytes => k \in 0 .. Bytes - 1 BY <1>1
  <2> QED BY <1>3, <1>5, <2>1, BitsAbove
<1> HIDE DEF B
<1>12. ASSUME k > b PROVE StampValue(d) >= c
  <2>1. k >= b + 1 /\ k \in Nat /\ b \in Nat BY <1>1, <1>15, <1>12
  <2>2. ByteBits * k >= ByteBits * (b + 1) BY <1>1, <2>1
  <2>3. ByteBits * (b + 1) = ByteBits * b + ByteBits /\ ByteBits * k \in Nat
    BY <1>1, <2>1
  <2>4. StampValue(d) \in Nat /\ StampValue(d) >= ByteBits * k
    BY <1>1, <1>10, <1>11, <2>3
  <2> QED BY <1>1, <1>5, <1>8, <2>1, <2>2, <2>3, <2>4
<1>13. CASE c = Bits
  <2>1. \A i \in 0 .. Bytes - 1 : d[i] = 0
    <3>1. \A i \in 0 .. Bytes - 1 : t[i] = 0 BY <1>1, <1>2, <1>13
    <3>2. ~\E i \in 0 .. Bytes - 1 : d[i] < t[i] BY <1>3, <3>1
    <3> QED BY <3>1, <3>2 DEF AtMost, t
  <2>2. k = Bytes
    <3>1. k # Bytes => k \in 0 .. Bytes - 1 BY <1>1
    <3> QED BY <1>9, <2>1, <3>1
  <2> QED BY <1>1, <1>15, <1>12, <2>2
<1>14. CASE c < Bits
  <2>1. \A i \in 0 .. Bytes - 1 : t[i] = IF i = b THEN Shift[r] ELSE 0 BY <1>2, <1>14
  <2>2. (\A j \in 0 .. b - 1 : d[j] = 0) /\ (d = t \/ d[b] < Shift[r])
    <3>1. CASE d = t
      <4>1. \A j \in 0 .. b - 1 : j \in 0 .. Bytes - 1 /\ j # b BY <1>1, <1>15
      <4> QED BY <2>1, <3>1, <4>1
    <3>2. ASSUME NEW i \in 0 .. Bytes - 1, d[i] < t[i], \A j \in 0 .. i - 1 : d[j] = t[j]
          PROVE  (\A j \in 0 .. b - 1 : d[j] = 0) /\ (d = t \/ d[b] < Shift[r])
      <4>1. i = b
        <5>1. i # b => t[i] = 0 BY <2>1
        <5> QED BY <1>3, <3>2, <5>1
      <4>2. d[b] < Shift[r] BY <1>15, <2>1, <3>2, <4>1
      <4>3. \A j \in 0 .. b - 1 : j \in 0 .. Bytes - 1 /\ j # b BY <1>1, <1>15
      <4> QED BY <2>1, <3>2, <4>1, <4>2, <4>3
    <3> QED BY <3>1, <3>2 DEF AtMost, t
  <2>3. ~(k < b)
    <3>1. k < b => k \in 0 .. b - 1 /\ k # Bytes BY <1>1, <1>15
    <3> QED BY <1>9, <2>2, <3>1
  <2>4. CASE k > b BY <1>12, <2>4
  <2>5. CASE k = b
    <3>1. k # Bytes BY <1>1, <1>15, <2>5
    <3>2. StampValue(d) = ByteBits * b + Cardinality(B) BY <1>10, <2>5, <3>1
    <3>3. CASE d[b] < Shift[r]
      <4>1. Cardinality(B) \in Nat /\ Cardinality(B) >= ByteBits - r BY <1>11, <2>5, <3>1, <3>3
      <4>2. ByteBits * b \in Nat BY <1>1, <1>15
      <4> QED BY <1>1, <1>5, <1>8, <3>2, <4>1, <4>2
    <3>4. CASE d = t
      <4>1. d[b] = Shift[r] BY <1>15, <2>1, <3>4
      <4>2. Cardinality(B) = ByteBits - r - 1 BY <1>11, <2>5, <3>1, <4>1
      <4>3. ByteBits * b \in Nat BY <1>1, <1>15
      <4>4. StampValue(d) = c - 1 BY <1>1, <1>5, <1>8, <3>2, <4>2, <4>3
      <4> QED BY <3>4, <4>4 DEF t
    <3> QED BY <2>2, <3>3, <3>4
  <2> QED BY <1>1, <1>15, <2>3, <2>4, <2>5
<1> QED BY <1>1, <1>13, <1>14

------------------------------------------------------------------------------

\* SearchInv is an invariant of GenerateStamp: stamps that were found are with
\* their worker or in the channel until the call has taken one.
THEOREM SearchInvariant == Spec => []SearchInv
<1>1. Init => SearchInv
  BY InitSearchInv
<1>2. SearchInv /\ [Next]_vars => SearchInv'
  <2> SUFFICES ASSUME SearchInv, [Next]_vars PROVE SearchInv'
    OBVIOUS
  <2>1. CASE UNCHANGED vars
    BY <2>1, StutterOK
  <2>2. CASE Receive
    BY <2>2, ReceiveOK
  <2>3. CASE GenerateStamp \/ CancelContext \/ CloseResults
    BY <2>3, CallStepsOK
  <2>4. CASE \E w \in Workers : Worker(w)
    BY <2>4, WorkerOK
  <2> QED
    BY <2>1, <2>2, <2>3, <2>4 DEF Next
<1> QED
  BY <1>1, <1>2, PTL DEF Spec

\* The variables keep their types and the channel its capacity of one.
THEOREM StamperTypes == Spec => []TypeOK
<1>1. SearchInv => TypeOK
  BY DEF SearchInv
<1> QED
  BY <1>1, SearchInvariant, PTL

\* No worker ever sends on the closed result channel.
THEOREM NeverSendsAfterClose == Spec => []NoSendAfterClose
<1>1. SearchInv => NoSendAfterClose
  BY DEF SearchInv
<1> QED
  BY <1>1, SearchInvariant, PTL

\* GenerateStamp returns ErrStampNotFound only if its context ended or the
\* random source failed, whatever the number of workers.
THEOREM NotFoundMeansStopped == Spec => []NotFoundOnlyIfStopped
<1>1. SearchInv => NotFoundOnlyIfStopped
  BY DEF SearchInv
<1> QED
  BY <1>1, SearchInvariant, PTL

\* A returned stamp passed the comparison with the target of the cost asked
\* for, and is returned with its own score.
THEOREM ReturnedIsFound == Spec => []ReturnedWasFound
<1>1. SearchInv => ReturnedWasFound
  BY DEF SearchInv
<1> QED
  BY <1>1, SearchInvariant, PTL

\* A stamp that GenerateStamp returns is valid at the cost it was asked for,
\* and scores it, but for the target itself, which falls short by one bit.
THEOREM ReturnedAlwaysMeets == Spec => []ReturnedMeetsCost
<1>1. SearchInv => ReturnedMeetsCost
  <2> SUFFICES ASSUME SearchInv, result.kind = "ok", cost <= Bits
               PROVE  /\ StampValid(result.stamp, cost)
                      /\ \/ result.value >= cost
                         \/ /\ result.value = cost - 1
                            /\ result.stamp = stampTargetBytes(cost)
    BY DEF ReturnedMeetsCost
  <2>1. /\ AtMost(result.stamp, stampTargetBytes(cost))
        /\ result.value = StampValue(result.stamp)
    BY DEF SearchInv, ReturnedWasFound
  <2>2. cost \in Int /\ result.stamp \in Digests /\ result.value \in Nat
    BY StamperAssumption DEF SearchInv, TypeOK, Results
  <2>3. StampValid(result.stamp, cost) BY <2>1 DEF StampValid
  <2>4. CASE cost <= 0 BY <2>2, <2>3, <2>4
  <2>5. CASE 0 < cost BY <2>1, <2>2, <2>3, <2>5, MeetsCost
  <2> QED BY <2>2, <2>4, <2>5
<1> QED BY <1>1, SearchInvariant, PTL
=============================================================================
