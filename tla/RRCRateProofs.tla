---------------------------- MODULE RRCRateProofs ----------------------------
(***************************************************************************)
(* The rate limit for any limit, window, delay and number of calls.        *)
(***************************************************************************)
EXTENDS RRCRate, TLAPS, FiniteSetTheorems

\* A call that holds Hub.mu read the clock at most MaxDelay before, and an
\* admitted call is forgotten only when it is a whole window old: this is what
\* pruning with a late clock can not spoil.
RateInv ==
  /\ TypeOK
  /\ IsFiniteSet(msgTimes) /\ (Limit > 0 => Cardinality(msgTimes) <= Limit)
  /\ \A c \in Calls : pc[c] = "waiting" => clock <= stamp[c] + MaxDelay
  /\ \A c \in Calls : when[c] <= stamp[c] + MaxDelay /\ stamp[c] <= clock /\ when[c] <= clock
  /\ Limit > 0 => \A d \in Admitted : d \in msgTimes \/ stamp[d] <= clock - Window
  /\ WindowBound

LEMMA InitOK == Init => RateInv
<1> SUFFICES ASSUME Init PROVE RateInv
  OBVIOUS
<1>1. TypeOK BY DEF Init, TypeOK
<1>2. Admitted = {} BY DEF Init, Admitted
<1>3. IsFiniteSet(msgTimes) /\ Cardinality(msgTimes) = 0 BY FS_EmptySet DEF Init
<1> QED BY <1>1, <1>2, <1>3, RateAssumption DEF Init, RateInv, WindowBound

\* Time passes, a call reads the clock.
LEMMA QuietOK ==
  ASSUME RateInv, Tick \/ \E c \in Calls : ReadNow(c)
  PROVE  RateInv'
<1>1. CASE Tick
  <2>1. UNCHANGED <<pc, stamp, when, msgTimes>> /\ clock' = clock + 1 BY <1>1 DEF Tick
  <2>2. TypeOK' BY <2>1 DEF RateInv, TypeOK
  <2>3. Admitted' = Admitted BY <2>1 DEF Admitted
  <2>4. WindowBound' BY <2>1, <2>3 DEF RateInv, WindowBound, Recent
  <2>5. \A c \in Calls : pc'[c] = "waiting" => clock' <= stamp'[c] + MaxDelay
    BY <1>1, <2>1, RateAssumption DEF Tick, RateInv, TypeOK
  <2>6. \A c \in Calls : /\ when'[c] <= stamp'[c] + MaxDelay
                         /\ stamp'[c] <= clock' /\ when'[c] <= clock'
    BY <2>1, RateAssumption DEF RateInv, TypeOK
  <2>7. Limit > 0 => \A d \in Admitted' : d \in msgTimes' \/ stamp'[d] <= clock' - Window
    BY <2>1, <2>3, RateAssumption DEF RateInv, TypeOK, Admitted
  <2> QED BY <2>1, <2>2, <2>4, <2>5, <2>6, <2>7 DEF RateInv
<1>2. ASSUME NEW c \in Calls, ReadNow(c) PROVE RateInv'
  <2>1. /\ pc[c] = "idle" /\ pc' = [pc EXCEPT ![c] = IF Limit = 0 THEN "admitted" ELSE "waiting"]
        /\ stamp' = [stamp EXCEPT ![c] = clock] /\ when' = [when EXCEPT ![c] = clock]
        /\ UNCHANGED <<clock, msgTimes>>
    BY <1>2 DEF ReadNow
  <2>2. TypeOK' BY <2>1 DEF RateInv, TypeOK
  <2>3. \A d \in Calls : /\ pc'[d] = "waiting" => clock' <= stamp'[d] + MaxDelay
                         /\ when'[d] <= stamp'[d] + MaxDelay
                         /\ stamp'[d] <= clock' /\ when'[d] <= clock'
    BY <2>1, RateAssumption DEF RateInv, TypeOK
  <2>4. CASE Limit > 0
    <3>1. Admitted' = Admitted /\ c \notin Admitted
      BY <2>1, <2>4 DEF Admitted, RateInv, TypeOK
    <3>2. \A d \in Admitted : stamp'[d] = stamp[d] /\ when'[d] = when[d]
      BY <2>1, <3>1 DEF RateInv, TypeOK, Admitted
    <3>3. \A d \in Admitted : Recent(d, Window - MaxDelay)' = Recent(d, Window - MaxDelay)
      BY <3>1, <3>2 DEF Recent
    <3>4. WindowBound' BY <3>1, <3>3 DEF RateInv, WindowBound
    <3> QED BY <2>1, <2>2, <2>3, <3>1, <3>2, <3>4 DEF RateInv
  <2>5. CASE ~(Limit > 0)
    BY <2>1, <2>2, <2>3, <2>5 DEF RateInv, WindowBound
  <2> QED BY <2>4, <2>5
<1> QED BY <1>1, <1>2

LEMMA AllowRateOK ==
  ASSUME RateInv, NEW c \in Calls, AllowRate(c)
  PROVE  RateInv'
<1> DEFINE K == Kept(c)
<1>1. /\ pc[c] = "waiting" /\ when' = [when EXCEPT ![c] = clock] /\ UNCHANGED <<clock, stamp>>
      /\ \/ msgTimes' = K /\ pc' = [pc EXCEPT ![c] = "refused"]
         \/ ~AtLimit(K) /\ msgTimes' = K \cup {c} /\ pc' = [pc EXCEPT ![c] = "admitted"]
  BY DEF AllowRate
<1>2. K \subseteq msgTimes /\ TypeOK BY DEF Kept, RateInv
<1>3. IsFiniteSet(K) /\ Cardinality(K) <= Cardinality(msgTimes) /\ Cardinality(K) \in Nat
      /\ Cardinality(msgTimes) \in Nat
  BY <1>2, FS_Subset, FS_CardinalityType DEF RateInv
<1>4. TypeOK' BY <1>1, <1>2 DEF TypeOK
<1>5. IsFiniteSet(msgTimes') /\ (Limit > 0 => Cardinality(msgTimes') <= Limit)
  <2>1. CASE msgTimes' = K BY <1>3, <2>1, RateAssumption DEF RateInv
  <2>2. CASE ~AtLimit(K) /\ msgTimes' = K \cup {c}
    <3>1. IsFiniteSet(K \cup {c}) /\ Cardinality(K \cup {c}) <= Cardinality(K) + 1
      BY SMTT(60), <1>3, FS_AddElement
    <3>2. Cardinality(K \cup {c}) \in Nat BY <3>1, FS_CardinalityType
    <3> QED BY <1>3, <2>2, <3>1, <3>2, RateAssumption DEF AtLimit
  <2> QED BY <1>1, <2>1, <2>2
<1>6. \A d \in Calls : /\ pc'[d] = "waiting" => clock' <= stamp'[d] + MaxDelay
                       /\ when'[d] <= stamp'[d] + MaxDelay
                       /\ stamp'[d] <= clock' /\ when'[d] <= clock'
  BY <1>1, <1>2, RateAssumption DEF RateInv, TypeOK
<1>7. \A d \in Admitted' : d \in Admitted \/ (d = c /\ c \in msgTimes')
  BY <1>1, <1>2 DEF Admitted, TypeOK
<1>8. Limit > 0 => \A d \in Admitted' : d \in msgTimes' \/ stamp'[d] <= clock' - Window
  <2> SUFFICES ASSUME Limit > 0, NEW d \in Admitted, d \notin msgTimes'
               PROVE  stamp[d] <= clock - Window
    BY <1>1, <1>7
  <2>1. CASE d \notin msgTimes BY <2>1 DEF RateInv
  <2>2. CASE d \in msgTimes
    <3>1. ~(stamp[d] > stamp[c] - Window) BY <1>1, <2>2 DEF Kept
    <3>2. stamp[c] <= clock BY DEF RateInv
    <3> QED BY <1>2, <3>1, <3>2, RateAssumption DEF TypeOK, Admitted
  <2> QED BY <2>1, <2>2
<1> HIDE DEF K
<1>9. WindowBound'
  <2> SUFFICES ASSUME Limit > 0, NEW a \in Admitted'
               PROVE  Cardinality(Recent(a, Window - MaxDelay)') <= Limit
    BY DEF WindowBound
  <2> DEFINE R == Recent(a, Window - MaxDelay)'
  <2>0. a \in Calls /\ c \notin Admitted BY <1>1 DEF Admitted
  <2>1. CASE when'[a] = clock
    <3>1. ASSUME NEW d \in R PROVE d \in msgTimes'
      <4>1. /\ d \in Admitted' /\ d \in Calls
            /\ clock - (Window - MaxDelay) < when'[d]
        BY <2>1, <3>1 DEF Recent, Admitted
      <4>2. when'[d] <= stamp'[d] + MaxDelay BY <1>6, <4>1
      <4>3. stamp'[d] > clock - Window
        BY <1>4, <4>1, <4>2, <1>2, RateAssumption DEF TypeOK
      <4> QED BY <1>1, <1>2, <1>4, <1>8, <4>1, <4>3, RateAssumption DEF TypeOK
    <3>2. R \subseteq msgTimes' BY <3>1
    <3> HIDE DEF R
    <3>3. Cardinality(R) <= Cardinality(msgTimes') /\ Cardinality(R) \in Nat
          /\ Cardinality(msgTimes') \in Nat
      BY <1>5, <3>2, FS_Subset, FS_CardinalityType
    <3>4. Cardinality(R) <= Limit BY <1>5, <3>3, RateAssumption
    <3> QED BY <3>4 DEF R
  <2>2. CASE when'[a] # clock
    <3>1. a # c /\ a \in Admitted /\ when'[a] = when[a] /\ when[a] < clock
      BY <1>1, <1>2, <1>6, <1>7, <2>0, <2>2 DEF TypeOK
    <3>2. c \notin R
      <4>1. when'[c] = clock /\ when[a] \in Nat /\ clock \in Nat
        BY <1>1, <1>2, <2>0 DEF TypeOK
      <4>2. ~(when'[c] <= when'[a]) BY <3>1, <4>1
      <4> QED BY <4>2 DEF Recent
    <3>3. R = Recent(a, Window - MaxDelay)
      <4>1. \A d \in Calls \ {c} : (d \in Admitted' <=> d \in Admitted) /\ when'[d] = when[d]
        BY <1>1, <1>2 DEF TypeOK, Admitted
      <4> QED BY <2>0, <3>1, <3>2, <4>1 DEF Recent, Admitted
    <3> QED BY <3>1, <3>3 DEF RateInv, WindowBound
  <2> QED BY <2>1, <2>2
<1> QED BY <1>4, <1>5, <1>6, <1>8, <1>9 DEF RateInv

\* The limiter's invariant holds in every reachable state.
THEOREM RateInvariant == Spec => []RateInv
<1>1. Init => RateInv BY InitOK
<1>2. RateInv /\ [Next]_vars => RateInv'
  <2> SUFFICES ASSUME RateInv, [Next]_vars PROVE RateInv'
    OBVIOUS
  <2>1. CASE UNCHANGED vars
    BY <2>1 DEF vars, RateInv, TypeOK, Admitted, WindowBound, Recent
  <2> QED BY <2>1, QuietOK, AllowRateOK DEF Next
<1> QED BY <1>1, <1>2, PTL DEF Spec

\* At most Limit messages in any interval of a window less the delay, and with it
\* the exact per-minute limit when calls are not delayed (MaxDelay = 0).
THEOREM WindowBoundHolds == Spec => []WindowBound
<1>1. RateInv => WindowBound BY DEF RateInv
<1> QED BY <1>1, RateInvariant, PTL

\* The list of a peer never outgrows the limit.
THEOREM ListBoundedHolds == Spec => []ListBounded
<1>1. RateInv => ListBounded BY DEF RateInv, ListBounded
<1> QED BY <1>1, RateInvariant, PTL
=============================================================================
