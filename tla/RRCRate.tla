------------------------------- MODULE RRCRate -------------------------------
(***************************************************************************)
(* Hub.allowRate (pkg/rrc/hub.go) for one peer.                            *)
(*                                                                         *)
(* allowRate reads the clock before it takes Hub.mu, and the packets of a  *)
(* peer are handled by concurrent goroutines: the times in msgTimes need   *)
(* not be in order, and a call may judge the list by a clock that is late. *)
(* MaxDelay bounds how late; the order of msgTimes does not matter to the  *)
(* code, so it is the set of the calls whose times it holds.               *)
(***************************************************************************)
EXTENDS Integers, FiniteSets

CONSTANTS
  Calls,     \* calls of allowRate for the peer (a bound)
  Limit,     \* HubLimits.RateLimitMsgsPerMinute
  Window,    \* time.Minute
  MaxDelay,  \* the longest time from time.Now() to the lock
  MaxTime    \* end of the clock (a bound)

ASSUME RateAssumption ==
  /\ Limit \in Nat
  /\ Window \in Nat \ {0}
  /\ MaxDelay \in Nat
  /\ MaxTime \in Nat

VARIABLES
  clock,     \* the time
  pc,        \* "idle", "waiting" for Hub.mu, "admitted" or "refused"
  stamp,     \* the call's now
  when,      \* the time at which the call held Hub.mu
  msgTimes   \* hubPeer.msgTimes

vars == <<clock, pc, stamp, when, msgTimes>>

Init ==
  /\ clock = 0
  /\ pc = [c \in Calls |-> "idle"]
  /\ stamp = [c \in Calls |-> 0]
  /\ when = [c \in Calls |-> 0]
  /\ msgTimes = {}

\* Time passes; no call is kept from Hub.mu for longer than MaxDelay.
Tick ==
  /\ clock < MaxTime
  /\ \A c \in Calls : pc[c] = "waiting" => clock < stamp[c] + MaxDelay
  /\ clock' = clock + 1
  /\ UNCHANGED <<pc, stamp, when, msgTimes>>

\* Without a limit the call returns at once; else now := time.Now().
ReadNow(c) ==
  /\ pc[c] = "idle"
  /\ pc' = [pc EXCEPT ![c] = IF Limit = 0 THEN "admitted" ELSE "waiting"]
  /\ stamp' = [stamp EXCEPT ![c] = clock]
  /\ when' = [when EXCEPT ![c] = clock]
  /\ UNCHANGED <<clock, msgTimes>>

\* Mutant of Kept: the window is one tick short.
KeptShort(c) == {d \in msgTimes : stamp[d] > stamp[c] - Window + 1}

\* The times after the cutoff of call c.
Kept(c) == {d \in msgTimes : stamp[d] > stamp[c] - Window}

\* The list is full.
AtLimit(S) == Cardinality(S) >= Limit

\* The critical section: the list is pruned, then the call is judged.
AllowRate(c) ==
  /\ pc[c] = "waiting"
  /\ when' = [when EXCEPT ![c] = clock]
  /\ \/ /\ AtLimit(Kept(c))
        /\ msgTimes' = Kept(c)
        /\ pc' = [pc EXCEPT ![c] = "refused"]
     \/ /\ ~AtLimit(Kept(c))
        /\ msgTimes' = Kept(c) \cup {c}
        /\ pc' = [pc EXCEPT ![c] = "admitted"]
  /\ UNCHANGED <<clock, stamp>>

Next == Tick \/ \E c \in Calls : ReadNow(c) \/ AllowRate(c)

Spec == Init /\ [][Next]_vars

-----------------------------------------------------------------------------

\* The types of the limiter's state.
TypeOK ==
  /\ clock \in Nat
  /\ pc \in [Calls -> {"idle", "waiting", "admitted", "refused"}]
  /\ stamp \in [Calls -> Nat]
  /\ when \in [Calls -> Nat]
  /\ msgTimes \in SUBSET Calls

Admitted == {c \in Calls : pc[c] = "admitted"}

\* The admitted calls that held Hub.mu in the last t units before call c did.
Recent(c, t) == {d \in Admitted : when[c] - t < when[d] /\ when[d] <= when[c]}

\* However the calls interleave, the messages of one peer let through in any
\* interval of a minute less the scheduling delay never exceed the limit: stale
\* clocks of concurrent calls cost at most MaxDelay of the window (allowRate).
WindowBound ==
  Limit > 0 => \A c \in Admitted : Cardinality(Recent(c, Window - MaxDelay)) <= Limit

\* msgTimes never holds more than the limit: the peer's list is bounded.
ListBounded == Limit > 0 => Cardinality(msgTimes) <= Limit
=============================================================================
