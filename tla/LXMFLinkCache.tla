---------------------------- MODULE LXMFLinkCache ----------------------------
(***************************************************************************)
(* The Messenger's cached link (pkg/lxmf/propagation_link.go, and the same *)
(* code again in delivery_link.go) and the callers that share it: sends    *)
(* that reuse or replace the link ("ensure": SendDirect, SendPropagated)   *)
(* and SendPropagatedWithRetry, which walks over propagation nodes         *)
(* ("retry").                                                              *)
(*                                                                         *)
(* Two kinds of locks are involved: the cache mutex (propLinkMu or         *)
(* deliveryLinkMu) and the mutex of each Link.  Link.Teardown and the      *)
(* link's watchdog run the closed callback while they hold the Link's      *)
(* mutex, and the callback takes the cache mutex.  Neither is reentrant.   *)
(***************************************************************************)
EXTENDS Integers, Sequences, FiniteSets

CONSTANTS
  Senders,   \* goroutines that send (a bound)
  Kind,      \* "ensure" or "retry", for each of them
  Order,     \* the nodes a sender tries, in order; one for "ensure"
  Links,     \* Link objects (a bound)
  Peers,     \* destinations and propagation nodes
  Flaky,     \* links that may be lost once they are up
  NoLink, NoPeer, Nobody

ASSUME CacheAssumption ==
  /\ Kind \in [Senders -> {"ensure", "retry"}]
  /\ Order \in [Senders -> Seq(Peers)]
  /\ \A s \in Senders : Len(Order[s]) > 0
  /\ Flaky \subseteq Links
  /\ NoLink \notin Links /\ NoPeer \notin Peers

\* The goroutines of a link: its watchdog with maintainLink, and the handler of
\* a teardown packet from the peer.
Watch(l) == <<"watchdog", l>>
Inbound(l) == <<"inbound", l>>
Procs == Senders \cup {Watch(l) : l \in Links} \cup {Inbound(l) : l \in Links}

ASSUME ProcsAssumption ==
  /\ Nobody \notin Procs
  /\ \A l, m \in Links : Watch(l) # Inbound(m) /\ Watch(l) \notin Senders /\ Inbound(l) \notin Senders

VARIABLES
  status,     \* Link.status; "unused" before NewLink
  dest,       \* the destination the link leads to
  linkMu,     \* who holds Link.mutex
  cache,      \* Messenger.propLink
  cachePeer,  \* Messenger.propLinkNode
  mu,         \* who holds Messenger.propLinkMu
  pc,         \* where each goroutine is
  lnk,        \* the sender's link
  attempt,    \* the index of the sender's current node
  uploaded,   \* <<sender, node>>: the payload reached the node
  result      \* the node a call reports, NoPeer for an error

vars == <<status, dest, linkMu, cache, cachePeer, mu, pc, lnk, attempt, uploaded, result>>

Node(s) == Order[s][attempt[s]]

Init ==
  /\ status = [l \in Links |-> "unused"]
  /\ dest = [l \in Links |-> NoPeer]
  /\ linkMu = [l \in Links |-> Nobody]
  /\ cache = NoLink
  /\ cachePeer = NoPeer
  /\ mu = Nobody
  /\ pc = [p \in Procs |-> IF p \in Senders THEN "start" ELSE "idle"]
  /\ lnk = [s \in Senders |-> NoLink]
  /\ attempt = [s \in Senders |-> 1]
  /\ uploaded = {}
  /\ result = [s \in Senders |-> NoPeer]

-----------------------------------------------------------------------------
(* The link layer. *)

\* The link proof arrives.
LinkUp(l) ==
  /\ status[l] = "pending"
  /\ linkMu[l] = Nobody
  /\ status' = [status EXCEPT ![l] = "active"]
  /\ UNCHANGED <<dest, linkMu, cache, cachePeer, mu, pc, lnk, attempt, uploaded, result>>

\* The watchdog finds the link silent.
LinkStale(l) ==
  /\ l \in Flaky
  /\ status[l] = "active"
  /\ linkMu[l] = Nobody
  /\ status' = [status EXCEPT ![l] = "stale"]
  /\ UNCHANGED <<dest, linkMu, cache, cachePeer, mu, pc, lnk, attempt, uploaded, result>>

\* An inbound packet revives a stale link.
LinkRevived(l) ==
  /\ status[l] = "stale"
  /\ linkMu[l] = Nobody
  /\ status' = [status EXCEPT ![l] = "active"]
  /\ UNCHANGED <<dest, linkMu, cache, cachePeer, mu, pc, lnk, attempt, uploaded, result>>

\* The watchdog closes a stale link or one that did not come up in time, and
\* calls the closed callback before it releases Link.mutex.
WatchdogClose(l) ==
  /\ status[l] \in {"stale", "pending"}
  /\ pc[Watch(l)] = "idle"
  /\ linkMu[l] = Nobody
  /\ status' = [status EXCEPT ![l] = "closed"]
  /\ linkMu' = [linkMu EXCEPT ![l] = Watch(l)]
  /\ pc' = [pc EXCEPT ![Watch(l)] = "callback"]
  /\ UNCHANGED <<dest, cache, cachePeer, mu, lnk, attempt, uploaded, result>>

\* maintainLink gives an inactive link up through Teardown.
MaintainTeardown(l) ==
  /\ l \in Flaky
  /\ status[l] = "active"
  /\ pc[Watch(l)] = "idle"
  /\ linkMu[l] = Nobody
  /\ status' = [status EXCEPT ![l] = "closed"]
  /\ linkMu' = [linkMu EXCEPT ![l] = Watch(l)]
  /\ pc' = [pc EXCEPT ![Watch(l)] = "callback"]
  /\ UNCHANGED <<dest, cache, cachePeer, mu, lnk, attempt, uploaded, result>>

\* A teardown of the peer comes in: HandleInbound takes it, under Link.mutex, if
\* the link is not closed, and revives a stale link ...
RemoteTeardown(l) ==
  /\ l \in Flaky
  /\ status[l] \in {"active", "stale"}
  /\ pc[Inbound(l)] = "idle"
  /\ linkMu[l] = Nobody
  /\ status' = [status EXCEPT ![l] = "active"]
  /\ pc' = [pc EXCEPT ![Inbound(l)] = "handleTeardown"]
  /\ UNCHANGED <<dest, linkMu, cache, cachePeer, mu, lnk, attempt, uploaded, result>>

\* ... and handleTeardown closes it without Link.mutex.
HandleTeardown(l) ==
  /\ pc[Inbound(l)] = "handleTeardown"
  /\ status' = [status EXCEPT ![l] = "closed"]
  /\ pc' = [pc EXCEPT ![Inbound(l)] = "callback"]
  /\ UNCHANGED <<dest, linkMu, cache, cachePeer, mu, lnk, attempt, uploaded, result>>

\* Mutant of Evicted: the callback does not compare the links.
EvictedAny(l) == cache # NoLink

\* The closed callback empties the cache if it holds this very link.
Evicted(l) == cache = l

\* The closed callback of link l, run by one of the link's goroutines.
ClosedCallback(p, l) ==
  /\ p \in {Watch(l), Inbound(l)}
  /\ pc[p] = "callback"
  /\ mu = Nobody
  /\ cache' = IF Evicted(l) THEN NoLink ELSE cache
  /\ cachePeer' = IF Evicted(l) THEN NoPeer ELSE cachePeer
  /\ linkMu' = IF linkMu[l] = p THEN [linkMu EXCEPT ![l] = Nobody] ELSE linkMu
  /\ pc' = [pc EXCEPT ![p] = "end"]
  /\ UNCHANGED <<status, dest, mu, lnk, attempt, uploaded, result>>

-----------------------------------------------------------------------------
(* The senders. *)

\* Mutant of Reusable: the peer of the cached link is not compared.
ReusableAny(s) == cache # NoLink /\ status[cache] = "active"

\* The cached link can be used by sender s.
Reusable(s) == cache # NoLink /\ status[cache] = "active" /\ cachePeer = Node(s)

\* ensurePropagationLink up to Teardown: the cache mutex stays locked while the
\* old link is torn down.
EnsureLink(s) ==
  /\ pc[s] = "start" /\ Kind[s] = "ensure"
  /\ mu = Nobody
  /\ \/ /\ Reusable(s)
        /\ lnk' = [lnk EXCEPT ![s] = cache]
        /\ pc' = [pc EXCEPT ![s] = "send"]
        /\ UNCHANGED mu
     \/ /\ ~Reusable(s) /\ cache = NoLink
        /\ pc' = [pc EXCEPT ![s] = "establish"]
        /\ UNCHANGED <<lnk, mu>>
     \/ /\ ~Reusable(s) /\ cache # NoLink
        /\ pc' = [pc EXCEPT ![s] = "teardown"]
        /\ mu' = s
        /\ UNCHANGED lnk
  /\ UNCHANGED <<status, dest, linkMu, cache, cachePeer, attempt, uploaded, result>>

\* packForPropagation fails: SendPropagatedWithRetry returns its error.
PackFails(s) ==
  /\ pc[s] = "start" /\ Kind[s] = "retry"
  /\ pc' = [pc EXCEPT ![s] = "done"]
  /\ UNCHANGED <<status, dest, linkMu, cache, cachePeer, mu, lnk, attempt, uploaded, result>>

\* What follows an emptied cache: a link to the node, unless the attempt has had
\* its link and failed.
After(s) == IF lnk[s] = NoLink THEN "establish" ELSE "next"

\* clearPropagationLink up to Teardown: at the start of an attempt, and after a
\* transfer that failed.
ClearLink(s) ==
  /\ (pc[s] = "start" /\ Kind[s] = "retry") \/ pc[s] = "failed"
  /\ mu = Nobody
  /\ \/ /\ cache = NoLink
        /\ pc' = [pc EXCEPT ![s] = After(s)]
        /\ UNCHANGED mu
     \/ /\ cache # NoLink
        /\ pc' = [pc EXCEPT ![s] = "teardown"]
        /\ mu' = s
  /\ UNCHANGED <<status, dest, linkMu, cache, cachePeer, lnk, attempt, uploaded, result>>

\* Link.Teardown of the cached link: an active link is closed and its closed
\* callback is called, with both mutexes held; any other link is left as it is.
Teardown(s) ==
  /\ pc[s] = "teardown"
  /\ linkMu[cache] = Nobody
  /\ \/ /\ status[cache] = "active"
        /\ status' = [status EXCEPT ![cache] = "closed"]
        /\ linkMu' = [linkMu EXCEPT ![cache] = s]
        /\ pc' = [pc EXCEPT ![s] = "callback"]
     \/ /\ status[cache] # "active"
        /\ pc' = [pc EXCEPT ![s] = "uncache"]
        /\ UNCHANGED <<status, linkMu>>
  /\ UNCHANGED <<dest, cache, cachePeer, mu, lnk, attempt, uploaded, result>>

\* Mutant of Uncache: the mutex stays locked.
UncacheLocked(s) ==
  /\ pc[s] = "uncache"
  /\ cache' = NoLink
  /\ cachePeer' = NoPeer
  /\ pc' = [pc EXCEPT ![s] = After(s)]
  /\ UNCHANGED <<status, dest, linkMu, mu, lnk, attempt, uploaded, result>>

\* The cache is emptied and the mutex released.
Uncache(s) ==
  /\ pc[s] = "uncache"
  /\ cache' = NoLink
  /\ cachePeer' = NoPeer
  /\ mu' = Nobody
  /\ pc' = [pc EXCEPT ![s] = After(s)]
  /\ UNCHANGED <<status, dest, linkMu, lnk, attempt, uploaded, result>>

\* establishPropagationLink: there is no path or no identity, the request can
\* not be sent, or a new link is requested.
Establish(s) ==
  /\ pc[s] = "establish"
  /\ \/ /\ pc' = [pc EXCEPT ![s] = "next"]
        /\ UNCHANGED <<status, dest, lnk>>
     \/ \E l \in Links :
          /\ status[l] = "unused"
          /\ status' = [status EXCEPT ![l] = "pending"]
          /\ dest' = [dest EXCEPT ![l] = Node(s)]
          /\ lnk' = [lnk EXCEPT ![s] = l]
          /\ pc' = [pc EXCEPT ![s] = "wait"]
  /\ UNCHANGED <<linkMu, cache, cachePeer, mu, attempt, uploaded, result>>

\* The polling loop sees the link active, or its deadline passes.
Wait(s) ==
  /\ pc[s] = "wait"
  /\ pc' = [pc EXCEPT ![s] = IF status[lnk[s]] = "active" THEN "publish" ELSE "giveUp"]
  /\ UNCHANGED <<status, dest, linkMu, cache, cachePeer, mu, lnk, attempt, uploaded, result>>

\* Teardown of a link that did not come up; by now it may have.
GiveUp(s) ==
  LET l == lnk[s] IN
  /\ pc[s] = "giveUp"
  /\ linkMu[l] = Nobody
  /\ \/ /\ status[l] = "active"
        /\ status' = [status EXCEPT ![l] = "closed"]
        /\ linkMu' = [linkMu EXCEPT ![l] = s]
        /\ pc' = [pc EXCEPT ![s] = "gaveUp"]
     \/ /\ status[l] # "active"
        /\ pc' = [pc EXCEPT ![s] = "next"]
        /\ UNCHANGED <<status, linkMu>>
  /\ UNCHANGED <<dest, cache, cachePeer, mu, lnk, attempt, uploaded, result>>

\* The closed callback, in the sender's goroutine that called Link.Teardown on l.
\* It asks for the cache mutex, also when this sender is the one that holds it.
SenderCallback(s, l) ==
  /\ pc[s] \in {"callback", "gaveUp"} /\ linkMu[l] = s
  /\ mu = Nobody
  /\ cache' = IF Evicted(l) THEN NoLink ELSE cache
  /\ cachePeer' = IF Evicted(l) THEN NoPeer ELSE cachePeer
  /\ linkMu' = [linkMu EXCEPT ![l] = Nobody]
  /\ pc' = [pc EXCEPT ![s] = IF pc[s] = "callback" THEN "uncache" ELSE "next"]
  /\ UNCHANGED <<status, dest, mu, lnk, attempt, uploaded, result>>

\* The new link enters the cache, whatever the cache holds by now.
Publish(s) ==
  /\ pc[s] = "publish"
  /\ mu = Nobody
  /\ cache' = lnk[s]
  /\ cachePeer' = Node(s)
  /\ pc' = [pc EXCEPT ![s] = "send"]
  /\ UNCHANGED <<status, dest, linkMu, mu, lnk, attempt, uploaded, result>>

\* The link takes the packet, or carries the last part of the resource.
Upload(s) ==
  /\ pc[s] = "send"
  /\ status[lnk[s]] = "active" /\ linkMu[lnk[s]] = Nobody
  /\ uploaded' = uploaded \cup {<<s, dest[lnk[s]]>>}
  /\ UNCHANGED <<status, dest, linkMu, cache, cachePeer, mu, pc, lnk, attempt, result>>

\* sendPropagationPayload returns nil.
SendOK(s) ==
  /\ pc[s] = "send"
  /\ <<s, dest[lnk[s]]>> \in uploaded
  /\ result' = [result EXCEPT ![s] = Node(s)]
  /\ pc' = [pc EXCEPT ![s] = "done"]
  /\ UNCHANGED <<status, dest, linkMu, cache, cachePeer, mu, lnk, attempt, uploaded>>

\* The link refuses the payload, or the transfer fails or outlasts five minutes
\* (its receiver may nevertheless have all of it).
SendFails(s) ==
  /\ pc[s] = "send"
  /\ pc' = [pc EXCEPT ![s] = IF Kind[s] = "retry" THEN "failed" ELSE "done"]
  /\ UNCHANGED <<status, dest, linkMu, cache, cachePeer, mu, lnk, attempt, uploaded, result>>

\* There is another candidate.
More(s) == attempt[s] < Len(Order[s])

\* The next candidate, or the last error.
NextNode(s) ==
  /\ pc[s] = "next"
  /\ \/ /\ More(s)
        /\ attempt' = [attempt EXCEPT ![s] = @ + 1]
        /\ lnk' = [lnk EXCEPT ![s] = NoLink]
        /\ pc' = [pc EXCEPT ![s] = "start"]
     \/ /\ ~More(s)
        /\ pc' = [pc EXCEPT ![s] = "done"]
        /\ UNCHANGED <<attempt, lnk>>
  /\ UNCHANGED <<status, dest, linkMu, cache, cachePeer, mu, uploaded, result>>

-----------------------------------------------------------------------------

LinkStep(l) ==
  \/ LinkUp(l) \/ LinkStale(l) \/ LinkRevived(l) \/ WatchdogClose(l)
  \/ MaintainTeardown(l) \/ RemoteTeardown(l) \/ HandleTeardown(l)

Sender(s) ==
  \/ EnsureLink(s) \/ PackFails(s) \/ ClearLink(s) \/ Teardown(s) \/ Uncache(s)
  \/ Establish(s) \/ Wait(s) \/ GiveUp(s) \/ (\E l \in Links : SenderCallback(s, l))
  \/ Publish(s) \/ Upload(s) \/ SendOK(s) \/ SendFails(s) \/ NextNode(s)

Next ==
  \/ \E l \in Links : LinkStep(l)
  \/ \E l \in Links : \E p \in {Watch(l), Inbound(l)} : ClosedCallback(p, l)
  \/ \E s \in Senders : Sender(s)

Spec == Init /\ [][Next]_vars

\* Goroutines that can run do run; links need not come up.
FairSpec ==
  /\ Spec
  /\ \A s \in Senders : WF_vars(Sender(s))
  /\ \A l \in Links : WF_vars(ClosedCallback(Watch(l), l)) /\ WF_vars(ClosedCallback(Inbound(l), l))

-----------------------------------------------------------------------------
(* What is checked. *)

SenderLabels ==
  {"start", "failed", "teardown", "callback", "uncache", "establish", "wait", "giveUp",
   "gaveUp", "publish", "send", "next", "done"}

\* The types of the Messenger's fields and of the goroutines' locals.
TypeOK ==
  /\ status \in [Links -> {"unused", "pending", "active", "stale", "closed"}]
  /\ dest \in [Links -> Peers \cup {NoPeer}]
  /\ linkMu \in [Links -> Procs \cup {Nobody}]
  /\ cache \in Links \cup {NoLink}
  /\ cachePeer \in Peers \cup {NoPeer}
  /\ mu \in Senders \cup {Nobody}
  /\ pc \in [Procs -> SenderLabels \cup {"idle", "handleTeardown", "end"}]
  /\ lnk \in [Senders -> Links \cup {NoLink}]
  /\ attempt \in [Senders -> Nat]
  /\ \A s \in Senders : attempt[s] \in 1..Len(Order[s])
  /\ uploaded \in SUBSET (Senders \X Peers)
  /\ result \in [Senders -> Peers \cup {NoPeer}]

\* A payload is only ever sent over a link to the node it is meant for, also when
\* other senders replace the cached link in between, and a call that reports a
\* node has uploaded to that node (ensurePropagationLink's comparison,
\* SendPropagatedWithRetry's return).
RightPeer ==
  \A s \in Senders : /\ pc[s] = "send" => dest[lnk[s]] = Node(s)
                     /\ result[s] # NoPeer => <<s, result[s]>> \in uploaded

\* The cache mutex is not held while a sender waits for a path, for its link to
\* come up or for a transfer (minutes), nor after the call.
NoLockWhileWaiting ==
  \A s \in Senders :
    pc[s] \in {"start", "failed", "establish", "wait", "giveUp", "gaveUp", "publish",
               "send", "next", "done"} => mu # s

\* A link leaves the cache because it closed, because a sender that holds the
\* mutex drops it, or for a newer link: the late callback of an old link never
\* evicts its successor (the comparison in the closed callback).
EvictsOwn ==
  [][cache # NoLink /\ cache' = NoLink => status[cache] = "closed" \/ mu # Nobody]_vars

\* "SendDirect packs, signs, and sends via an RNS link (packet or resource).":
\* every call returns.  TLC refutes it.
CallsReturn == \A s \in Senders : <>(pc[s] = "done")
=============================================================================
