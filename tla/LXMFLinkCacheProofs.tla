------------------------- MODULE LXMFLinkCacheProofs -------------------------
(***************************************************************************)
(* Proofs about the cached link of the Messenger, for any number of        *)
(* senders, links and nodes.                                               *)
(***************************************************************************)
EXTENDS LXMFLinkCache, TLAPS

\* Who is inside the critical section of the cache mutex.
LockInv ==
  \A s \in Senders : mu = s <=> pc[s] \in {"teardown", "callback", "uncache"}

\* The link of a sender leads to its node; only an unused link gets a destination.
SenderInv ==
  \A s \in Senders :
    /\ pc[s] \in SenderLabels
    /\ pc[s] \in {"wait", "giveUp", "publish", "send"} =>
         /\ lnk[s] \in Links
         /\ status[lnk[s]] # "unused"
         /\ dest[lnk[s]] = Node(s)
    /\ result[s] # NoPeer => <<s, result[s]>> \in uploaded

\* The cached link leads to the cached peer.
CachedInv ==
  /\ cache # NoLink => status[cache] # "unused" /\ dest[cache] = cachePeer
  /\ \A s \in Senders : pc[s] = "teardown" => cache \in Links

\* A closed callback only runs for a link that is closed.
ClosedInv ==
  \A l \in Links :
    /\ pc[Watch(l)] = "callback" => status[l] = "closed"
    /\ pc[Inbound(l)] = "callback" => status[l] = "closed"
    /\ linkMu[l] \in Senders => status[l] = "closed"

CacheInv == TypeOK /\ LockInv /\ SenderInv /\ CachedInv /\ ClosedInv

\* The goroutines are told apart.
LEMMA Apart ==
  /\ \A s \in Senders : s # Nobody /\ s \in Procs
  /\ \A l \in Links : /\ Watch(l) \in Procs /\ Watch(l) \notin Senders
                      /\ Inbound(l) \in Procs /\ Inbound(l) \notin Senders
  /\ \A l, m \in Links : /\ Watch(l) # Inbound(m)
                         /\ Watch(l) = Watch(m) => l = m
                         /\ Inbound(l) = Inbound(m) => l = m
  /\ NoLink \notin Links /\ NoPeer \notin Peers
<1>1. \A l, m \in Links : Watch(l) = Watch(m) => l = m
  BY DEF Watch
<1>2. \A l, m \in Links : Inbound(l) = Inbound(m) => l = m
  BY DEF Inbound
<1>3. \A l \in Links : Watch(l) \in Procs /\ Inbound(l) \in Procs
  BY DEF Procs
<1>4. \A s \in Senders : s \in Procs
  BY DEF Procs
<1> QED
  BY <1>1, <1>2, <1>3, <1>4, CacheAssumption, ProcsAssumption

\* A sender's current node is a peer.
LEMMA NodeOK ==
  ASSUME TypeOK, NEW s \in Senders
  PROVE  Node(s) \in Peers
<1>1. attempt[s] \in 1..Len(Order[s]) /\ Order[s] \in Seq(Peers)
  BY CacheAssumption DEF TypeOK
<1> QED
  BY <1>1 DEF Node

LEMMA InitOK == Init => CacheInv
<1> SUFFICES ASSUME Init PROVE CacheInv
  OBVIOUS
<1>1. pc \in [Procs -> SenderLabels \cup {"idle", "handleTeardown", "end"}]
  BY DEF Init, SenderLabels
<1>2. \A s \in Senders : attempt[s] = 1 /\ 1 \in 1..Len(Order[s])
  <2>1. \A s \in Senders : Len(Order[s]) \in Nat /\ Len(Order[s]) > 0
    BY CacheAssumption
  <2> QED
    BY <2>1 DEF Init
<1>3. TypeOK
  BY <1>1, <1>2 DEF Init, TypeOK
<1>4. LockInv /\ SenderInv /\ CachedInv
  BY Apart DEF Init, LockInv, SenderInv, CachedInv, SenderLabels
<1>5. ClosedInv
  <2>1. \A l \in Links : pc[Watch(l)] = "idle" /\ pc[Inbound(l)] = "idle" /\ linkMu[l] = Nobody
    BY Apart DEF Init
  <2>2. Nobody \notin Senders
    BY Apart
  <2> QED
    BY <2>1, <2>2 DEF ClosedInv
<1> QED
  BY <1>3, <1>4, <1>5 DEF CacheInv

\* Steps of the link layer.
LEMMA LinkStepOK ==
  ASSUME CacheInv, NEW l \in Links, LinkStep(l)
  PROVE  CacheInv'
<1> USE DEF CacheInv
<1>1. CASE LinkUp(l)
  BY <1>1, Apart DEF LinkUp, TypeOK, LockInv, SenderInv, CachedInv, ClosedInv, Node
<1>2. CASE LinkStale(l)
  BY <1>2, Apart DEF LinkStale, TypeOK, LockInv, SenderInv, CachedInv, ClosedInv, Node
<1>3. CASE LinkRevived(l)
  BY <1>3, Apart DEF LinkRevived, TypeOK, LockInv, SenderInv, CachedInv, ClosedInv, Node
<1>4. CASE WatchdogClose(l)
  <2>1. TypeOK' /\ LockInv' /\ CachedInv'
    BY <1>4, Apart DEF WatchdogClose, TypeOK, LockInv, CachedInv, SenderLabels
  <2>2. SenderInv'
    BY <1>4, Apart DEF WatchdogClose, TypeOK, SenderInv, Node
  <2>3. ClosedInv'
    BY <1>4, Apart DEF WatchdogClose, TypeOK, ClosedInv
  <2> QED
    BY <2>1, <2>2, <2>3
<1>5. CASE MaintainTeardown(l)
  <2>1. TypeOK' /\ LockInv' /\ CachedInv'
    BY <1>5, Apart DEF MaintainTeardown, TypeOK, LockInv, CachedInv, SenderLabels
  <2>2. SenderInv'
    BY <1>5, Apart DEF MaintainTeardown, TypeOK, SenderInv, Node
  <2>3. ClosedInv'
    BY <1>5, Apart DEF MaintainTeardown, TypeOK, ClosedInv
  <2> QED
    BY <2>1, <2>2, <2>3
<1>6. CASE RemoteTeardown(l)
  <2>1. TypeOK' /\ LockInv' /\ CachedInv'
    BY <1>6, Apart DEF RemoteTeardown, TypeOK, LockInv, CachedInv, SenderLabels
  <2>2. SenderInv'
    BY <1>6, Apart DEF RemoteTeardown, TypeOK, SenderInv, Node
  <2>3. ClosedInv'
    BY <1>6, Apart DEF RemoteTeardown, TypeOK, ClosedInv
  <2> QED
    BY <2>1, <2>2, <2>3
<1>7. CASE HandleTeardown(l)
  <2>1. TypeOK' /\ LockInv' /\ CachedInv'
    BY <1>7, Apart DEF HandleTeardown, TypeOK, LockInv, CachedInv, SenderLabels
  <2>2. SenderInv'
    BY <1>7, Apart DEF HandleTeardown, TypeOK, SenderInv, Node
  <2>3. ClosedInv'
    BY <1>7, Apart DEF HandleTeardown, TypeOK, ClosedInv
  <2> QED
    BY <2>1, <2>2, <2>3
<1> QED
  BY <1>1, <1>2, <1>3, <1>4, <1>5, <1>6, <1>7 DEF LinkStep

\* The closed callback in a goroutine of the link.
LEMMA ClosedCallbackOK ==
  ASSUME CacheInv, NEW l \in Links, NEW p \in {Watch(l), Inbound(l)}, ClosedCallback(p, l)
  PROVE  CacheInv'
<1> USE DEF CacheInv
<1>1. TypeOK' /\ LockInv' /\ CachedInv'
  BY Apart DEF ClosedCallback, Evicted, TypeOK, LockInv, CachedInv, SenderLabels
<1>2. SenderInv'
  BY Apart DEF ClosedCallback, TypeOK, SenderInv, Node
<1>3. ClosedInv'
  BY Apart DEF ClosedCallback, TypeOK, ClosedInv
<1> QED
  BY <1>1, <1>2, <1>3

\* A sender moves to another place.
LEMMA MoveOK ==
  ASSUME TypeOK, NEW s \in Senders, pc' = [pc EXCEPT ![s] = pc'[s]], pc'[s] \in SenderLabels
  PROVE  /\ pc' \in [Procs -> SenderLabels \cup {"idle", "handleTeardown", "end"}]
         /\ \A p \in Procs : p # s => pc'[p] = pc[p]
BY ZenonT(60), Apart DEF TypeOK

\* A step of sender s keeps what is known of every sender, if it keeps it for s.
LEMMA SendersOK ==
  ASSUME CacheInv, NEW s \in Senders,
         \A t \in Senders : t # s =>
           /\ pc'[t] = pc[t] /\ lnk'[t] = lnk[t]
           /\ attempt'[t] = attempt[t] /\ result'[t] = result[t],
         \A l \in Links : status[l] # "unused" => status'[l] # "unused" /\ dest'[l] = dest[l],
         uploaded \subseteq uploaded',
         pc'[s] \in SenderLabels,
         pc'[s] \in {"wait", "giveUp", "publish", "send"} =>
           lnk'[s] \in Links /\ status'[lnk'[s]] # "unused" /\ dest'[lnk'[s]] = Node(s)',
         result'[s] # NoPeer => <<s, result'[s]>> \in uploaded'
  PROVE  SenderInv'
<1>1. \A t \in Senders : t # s => Node(t)' = Node(t)
  BY DEF Node
<1> QED
  BY <1>1 DEF CacheInv, SenderInv

\* Steps of the senders.
LEMMA SenderOK ==
  ASSUME CacheInv, NEW s \in Senders, Sender(s)
  PROVE  CacheInv'
<1> USE DEF CacheInv
<1>0. Node(s) \in Peers
  BY NodeOK
<1>1. CASE EnsureLink(s)
  <2>0. /\ pc' = [pc EXCEPT ![s] = pc'[s]] /\ pc'[s] \in SenderLabels
        /\ pc'[s] \in {"send", "establish", "teardown"}
    BY <1>1, Apart DEF EnsureLink, Reusable, TypeOK, SenderLabels
  <2>1. /\ pc' \in [Procs -> SenderLabels \cup {"idle", "handleTeardown", "end"}]
        /\ \A p \in Procs : p # s => pc'[p] = pc[p]
    BY <2>0, MoveOK
  <2>2. TypeOK'
    <3>1. lnk' \in [Senders -> Links \cup {NoLink}] /\ mu' \in Senders \cup {Nobody}
      BY SMTT(60), <1>1 DEF EnsureLink, TypeOK
    <3> QED
      BY <1>1, <2>1, <3>1 DEF EnsureLink, TypeOK
  <2>3. LockInv' /\ CachedInv'
    BY <1>1, <1>0, <2>0, <2>1, Apart DEF EnsureLink, Reusable, TypeOK, LockInv, CachedInv, SenderInv
  <2>4. SenderInv'
    BY SMTT(60), <1>1, <1>0, <2>0, <2>1, SendersOK, Apart DEF EnsureLink, Reusable, TypeOK, SenderInv, CachedInv, Node
  <2>5. ClosedInv'
    BY <1>1, Apart DEF EnsureLink, Reusable, TypeOK, ClosedInv
  <2> QED
    BY <2>2, <2>3, <2>4, <2>5
<1>2. CASE PackFails(s)
  <2>1. TypeOK'
    BY <1>2, <1>0, Apart DEF PackFails, TypeOK, SenderLabels, SenderInv
  <2>2. LockInv' /\ CachedInv'
    BY <1>2, <1>0, Apart DEF PackFails, TypeOK, LockInv, CachedInv, SenderInv
  <2>3. SenderInv'
    BY <1>2, <1>0, Apart DEF PackFails, TypeOK, SenderInv, CachedInv, SenderLabels, Node
  <2>4. ClosedInv'
    BY <1>2, Apart DEF PackFails, TypeOK, ClosedInv
  <2> QED
    BY <2>1, <2>2, <2>3, <2>4
<1>3. CASE ClearLink(s)
  <2>0. /\ pc' = [pc EXCEPT ![s] = pc'[s]] /\ pc'[s] \in SenderLabels
        /\ pc'[s] \in {"establish", "next", "teardown"}
    BY <1>3, Apart DEF ClearLink, After, TypeOK, SenderLabels
  <2>1. TypeOK'
    BY SMTT(60), <1>3, <1>0, <2>0, MoveOK, Apart DEF ClearLink, TypeOK
  <2>2. LockInv' /\ CachedInv'
    BY <1>3, <1>0, <2>0, MoveOK, Apart DEF ClearLink, After, TypeOK, LockInv, CachedInv, SenderInv
  <2>3. SenderInv'
    BY ZenonT(60), <1>3, <1>0, <2>0, MoveOK, SendersOK, Apart DEF ClearLink, TypeOK, SenderInv, CachedInv, Node
  <2>4. ClosedInv'
    BY <1>3, Apart DEF ClearLink, After, TypeOK, ClosedInv
  <2> QED
    BY <2>1, <2>2, <2>3, <2>4
<1>4. CASE Teardown(s)
  <2>0. /\ pc' = [pc EXCEPT ![s] = pc'[s]] /\ pc'[s] \in SenderLabels
        /\ pc'[s] \in {"callback", "uncache"}
    BY <1>4, Apart DEF Teardown, TypeOK, SenderLabels
  <2>1. /\ pc' \in [Procs -> SenderLabels \cup {"idle", "handleTeardown", "end"}]
        /\ \A p \in Procs : p # s => pc'[p] = pc[p]
    BY <2>0, MoveOK
  <2>2. TypeOK'
    <3>1. cache \in Links /\ s \in Procs
      BY <1>4, Apart DEF Teardown, CachedInv
    <3>2. /\ status' \in [Links -> {"unused", "pending", "active", "stale", "closed"}]
          /\ linkMu' \in [Links -> Procs \cup {Nobody}]
      BY ZenonT(60), <1>4, <3>1 DEF Teardown, TypeOK
    <3> QED
      BY <1>4, <2>1, <3>2 DEF Teardown, TypeOK
  <2>3. LockInv' /\ CachedInv'
    BY <1>4, <1>0, <2>0, <2>1, Apart DEF Teardown, TypeOK, LockInv, CachedInv, SenderInv
  <2>4. SenderInv'
    <3>1. \A l \in Links : status[l] # "unused" => status'[l] # "unused" /\ dest'[l] = dest[l]
      BY <1>4 DEF Teardown, TypeOK
    <3>2. result'[s] # NoPeer => <<s, result'[s]>> \in uploaded'
      BY <1>4 DEF Teardown, SenderInv
    <3> QED
      BY <1>4, <2>0, <2>1, <3>1, <3>2, SendersOK, Apart DEF Teardown
  <2>5. ClosedInv'
    BY <1>4, Apart DEF Teardown, TypeOK, ClosedInv
  <2> QED
    BY <2>2, <2>3, <2>4, <2>5
<1>5. CASE Uncache(s)
  <2>1. TypeOK'
    BY <1>5, <1>0, Apart DEF Uncache, After, TypeOK, SenderLabels, SenderInv
  <2>2. LockInv' /\ CachedInv'
    BY <1>5, <1>0, Apart DEF Uncache, After, TypeOK, LockInv, CachedInv, SenderInv
  <2>3. SenderInv'
    BY <1>5, <1>0, Apart DEF Uncache, After, TypeOK, SenderInv, CachedInv, SenderLabels, Node
  <2>4. ClosedInv'
    BY <1>5, Apart DEF Uncache, After, TypeOK, ClosedInv
  <2> QED
    BY <2>1, <2>2, <2>3, <2>4
<1>6. CASE Establish(s)
  <2>0. /\ pc' = [pc EXCEPT ![s] = pc'[s]] /\ pc'[s] \in SenderLabels
        /\ pc'[s] \in {"next", "wait"}
    BY <1>6, Apart DEF Establish, TypeOK, SenderLabels
  <2>1. /\ pc' \in [Procs -> SenderLabels \cup {"idle", "handleTeardown", "end"}]
        /\ \A p \in Procs : p # s => pc'[p] = pc[p]
    BY <2>0, MoveOK
  <2>2. TypeOK'
    <3>1. /\ status' \in [Links -> {"unused", "pending", "active", "stale", "closed"}]
          /\ dest' \in [Links -> Peers \cup {NoPeer}]
          /\ lnk' \in [Senders -> Links \cup {NoLink}]
      <4>1. CASE UNCHANGED <<status, dest, lnk>>
        BY <4>1 DEF TypeOK
      <4>2. ASSUME NEW l \in Links,
                   status' = [status EXCEPT ![l] = "pending"],
                   dest' = [dest EXCEPT ![l] = Node(s)],
                   lnk' = [lnk EXCEPT ![s] = l]
            PROVE  <3>1!1 /\ <3>1!2 /\ <3>1!3
        BY <4>2, <1>0 DEF TypeOK
      <4> QED
        BY <1>6, <4>1, <4>2 DEF Establish
    <3> QED
      BY <1>6, <2>1, <3>1 DEF Establish, TypeOK
  <2>3. LockInv' /\ CachedInv'
    BY SMTT(60), <1>6, <1>0, <2>0, <2>1, Apart DEF Establish, TypeOK, LockInv, CachedInv, SenderInv
  <2>4. SenderInv'
    <3>1. \A l \in Links : status[l] # "unused" => status'[l] # "unused" /\ dest'[l] = dest[l]
      BY <1>6 DEF Establish, TypeOK
    <3>2. result'[s] # NoPeer => <<s, result'[s]>> \in uploaded'
      BY <1>6 DEF Establish, SenderInv
    <3>3. Node(s)' = Node(s)
      BY <1>6 DEF Establish, Node
    <3>4. pc'[s] = "wait" => lnk'[s] \in Links /\ status'[lnk'[s]] # "unused" /\ dest'[lnk'[s]] = Node(s)
      BY <1>6, Apart DEF Establish, TypeOK
    <3>5. \A t \in Senders : t # s => lnk'[t] = lnk[t]
      BY <1>6 DEF Establish, TypeOK
    <3> QED
      BY <1>6, <2>0, <2>1, <3>1, <3>2, <3>3, <3>4, <3>5, SendersOK, Apart DEF Establish
  <2>5. ClosedInv'
    BY <1>6, Apart DEF Establish, TypeOK, ClosedInv
  <2> QED
    BY <2>2, <2>3, <2>4, <2>5
<1>7. CASE Wait(s)
  <2>1. TypeOK'
    BY <1>7, <1>0, Apart DEF Wait, TypeOK, SenderLabels, SenderInv
  <2>2. LockInv' /\ CachedInv'
    BY <1>7, <1>0, Apart DEF Wait, TypeOK, LockInv, CachedInv, SenderInv
  <2>3. SenderInv'
    BY <1>7, <1>0, Apart DEF Wait, TypeOK, SenderInv, CachedInv, SenderLabels, Node
  <2>4. ClosedInv'
    BY <1>7, Apart DEF Wait, TypeOK, ClosedInv
  <2> QED
    BY <2>1, <2>2, <2>3, <2>4
<1>8. CASE GiveUp(s)
  <2>0. /\ pc' = [pc EXCEPT ![s] = pc'[s]] /\ pc'[s] \in SenderLabels
        /\ pc'[s] \in {"gaveUp", "next"}
    BY <1>8, Apart DEF GiveUp, TypeOK, SenderLabels
  <2>1. /\ pc' \in [Procs -> SenderLabels \cup {"idle", "handleTeardown", "end"}]
        /\ \A p \in Procs : p # s => pc'[p] = pc[p]
    BY <2>0, MoveOK
  <2>2. TypeOK'
    <3>1. lnk[s] \in Links /\ s \in Procs
      BY ZenonT(60), <1>8, Apart DEF GiveUp, SenderInv
    <3>2. /\ status' \in [Links -> {"unused", "pending", "active", "stale", "closed"}]
          /\ linkMu' \in [Links -> Procs \cup {Nobody}]
      <4>1. CASE UNCHANGED <<status, linkMu>>
        BY <4>1 DEF TypeOK
      <4>2. CASE /\ status' = [status EXCEPT ![lnk[s]] = "closed"]
                 /\ linkMu' = [linkMu EXCEPT ![lnk[s]] = s]
        BY <4>2, <3>1 DEF TypeOK
      <4> QED
        BY <1>8, <4>1, <4>2 DEF GiveUp
    <3> QED
      BY <1>8, <2>1, <3>2 DEF GiveUp, TypeOK
  <2>3. LockInv' /\ CachedInv'
    BY SMTT(60), <1>8, <1>0, <2>0, <2>1, Apart DEF GiveUp, TypeOK, LockInv, CachedInv, SenderInv
  <2>4. SenderInv'
    <3>1. \A l \in Links : status[l] # "unused" => status'[l] # "unused" /\ dest'[l] = dest[l]
      BY <1>8 DEF GiveUp, TypeOK
    <3>2. result'[s] # NoPeer => <<s, result'[s]>> \in uploaded'
      BY <1>8 DEF GiveUp, SenderInv
    <3> QED
      BY <1>8, <2>0, <2>1, <3>1, <3>2, SendersOK, Apart DEF GiveUp
  <2>5. ClosedInv'
    BY SMTT(60), <1>8, Apart DEF GiveUp, TypeOK, ClosedInv
  <2> QED
    BY <2>2, <2>3, <2>4, <2>5
<1>9. CASE \E l \in Links : SenderCallback(s, l)
  <2>1. TypeOK'
    BY <1>9, <1>0, Apart DEF SenderCallback, Evicted, TypeOK, SenderLabels, SenderInv
  <2>2. LockInv' /\ CachedInv'
    BY <1>9, <1>0, Apart DEF SenderCallback, Evicted, TypeOK, LockInv, CachedInv, SenderInv
  <2>3. SenderInv'
    BY <1>9, <1>0, Apart DEF SenderCallback, Evicted, TypeOK, SenderInv, CachedInv, SenderLabels, Node
  <2>4. ClosedInv'
    BY <1>9, Apart DEF SenderCallback, Evicted, TypeOK, ClosedInv
  <2> QED
    BY <2>1, <2>2, <2>3, <2>4
<1>10. CASE Publish(s)
  <2>1. TypeOK'
    BY <1>10, <1>0, Apart DEF Publish, TypeOK, SenderLabels, SenderInv
  <2>2. LockInv' /\ CachedInv'
    BY ZenonT(60), <1>10, <1>0, Apart DEF Publish, TypeOK, LockInv, CachedInv, SenderInv
  <2>3. SenderInv'
    BY <1>10, <1>0, Apart DEF Publish, TypeOK, SenderInv, CachedInv, SenderLabels, Node
  <2>4. ClosedInv'
    BY <1>10, Apart DEF Publish, TypeOK, ClosedInv
  <2> QED
    BY <2>1, <2>2, <2>3, <2>4
<1>11. CASE Upload(s)
  <2>1. TypeOK'
    <3>1. dest[lnk[s]] \in Peers
      BY ZenonT(60), <1>11, <1>0 DEF Upload, SenderInv
    <3>2. uploaded' \in SUBSET (Senders \X Peers)
      BY <1>11, <3>1 DEF Upload, TypeOK
    <3> QED
      BY SMTT(60), <1>11, <3>2 DEF Upload, TypeOK
  <2>2. LockInv' /\ CachedInv'
    BY <1>11, <1>0, Apart DEF Upload, TypeOK, LockInv, CachedInv, SenderInv
  <2>3. SenderInv'
    BY SMTT(60), <1>11, <1>0, Apart DEF Upload, TypeOK, SenderInv, CachedInv, SenderLabels, Node
  <2>4. ClosedInv'
    BY SMTT(60), <1>11, Apart DEF Upload, TypeOK, ClosedInv
  <2> QED
    BY <2>1, <2>2, <2>3, <2>4
<1>12. CASE SendOK(s)
  <2>1. TypeOK'
    BY SMTT(60), <1>12, <1>0, Apart DEF SendOK, TypeOK, SenderLabels, SenderInv
  <2>2. LockInv' /\ CachedInv'
    BY SMTT(60), <1>12, <1>0, Apart DEF SendOK, TypeOK, LockInv, CachedInv, SenderInv
  <2>3. SenderInv'
    <3>1. pc'[s] = "done" /\ \A t \in Senders : t # s => pc'[t] = pc[t]
      BY <1>12, Apart DEF SendOK, TypeOK
    <3>2. result'[s] = dest[lnk[s]] /\ \A t \in Senders : t # s => result'[t] = result[t]
      BY ZenonT(60), <1>12 DEF SendOK, TypeOK, SenderInv
    <3>3. <<s, result'[s]>> \in uploaded'
      <4>1. <<s, dest[lnk[s]]>> \in uploaded /\ uploaded' = uploaded
        BY <1>12 DEF SendOK
      <4> QED
        BY ZenonT(60), <3>2, <4>1
    <3> QED
      BY <1>12, <3>1, <3>2, <3>3, SendersOK DEF SendOK, SenderLabels
  <2>4. ClosedInv'
    BY SMTT(60), <1>12, Apart DEF SendOK, TypeOK, ClosedInv
  <2> QED
    BY <2>1, <2>2, <2>3, <2>4
<1>13. CASE SendFails(s)
  <2>1. TypeOK'
    BY SMTT(60), <1>13, <1>0, Apart DEF SendFails, TypeOK, SenderLabels, SenderInv
  <2>2. LockInv' /\ CachedInv'
    BY SMTT(60), <1>13, <1>0, Apart DEF SendFails, TypeOK, LockInv, CachedInv, SenderInv
  <2>3. SenderInv'
    BY SMTT(60), <1>13, <1>0, Apart DEF SendFails, TypeOK, SenderInv, CachedInv, SenderLabels, Node
  <2>4. ClosedInv'
    BY <1>13, Apart DEF SendFails, TypeOK, ClosedInv
  <2> QED
    BY <2>1, <2>2, <2>3, <2>4
<1>14. CASE NextNode(s)
  <2>0. /\ pc' = [pc EXCEPT ![s] = pc'[s]] /\ pc'[s] \in SenderLabels
        /\ pc'[s] \in {"start", "done"}
    BY <1>14, Apart DEF NextNode, More, TypeOK, SenderLabels
  <2>1. /\ pc' \in [Procs -> SenderLabels \cup {"idle", "handleTeardown", "end"}]
        /\ \A p \in Procs : p # s => pc'[p] = pc[p]
    BY <2>0, MoveOK
  <2>2. TypeOK'
    <3>1. Len(Order[s]) \in Nat
      BY CacheAssumption
    <3>2. /\ attempt' \in [Senders -> Nat]
          /\ \A t \in Senders : attempt'[t] \in 1..Len(Order[t])
          /\ lnk' \in [Senders -> Links \cup {NoLink}]
      <4>1. CASE UNCHANGED <<attempt, lnk>>
        BY <4>1 DEF TypeOK
      <4>2. CASE /\ More(s)
                 /\ attempt' = [attempt EXCEPT ![s] = @ + 1]
                 /\ lnk' = [lnk EXCEPT ![s] = NoLink]
        <5>1. attempt[s] \in Nat /\ attempt[s] + 1 \in 1..Len(Order[s])
          BY SMTT(60), <3>1, <4>2 DEF More, TypeOK
        <5> QED
          BY <4>2, <5>1 DEF TypeOK
      <4> QED
        BY <1>14, <4>1, <4>2 DEF NextNode
    <3> QED
      BY <1>14, <2>1, <3>2 DEF NextNode, TypeOK
  <2>3. LockInv' /\ CachedInv'
    BY SMTT(60), <1>14, <1>0, <2>0, <2>1, Apart DEF NextNode, More, TypeOK, LockInv, CachedInv, SenderInv
  <2>4. SenderInv'
    <3>1. \A t \in Senders : t # s => lnk'[t] = lnk[t] /\ attempt'[t] = attempt[t]
      BY SMTT(60), <1>14 DEF NextNode, TypeOK
    <3>2. result'[s] # NoPeer => <<s, result'[s]>> \in uploaded'
      BY ZenonT(60), <1>14 DEF NextNode, SenderInv
    <3> QED
      BY ZenonT(60), <1>14, <2>0, <2>1, <3>1, <3>2, SendersOK, Apart DEF NextNode
  <2>5. ClosedInv'
    BY SMTT(60), <1>14, Apart DEF NextNode, More, TypeOK, ClosedInv
  <2> QED
    BY <2>2, <2>3, <2>4, <2>5
<1> QED
  BY <1>1, <1>2, <1>3, <1>4, <1>5, <1>6, <1>7, <1>8, <1>9, <1>10, <1>11, <1>12, <1>13, <1>14 DEF Sender

LEMMA StutterOK == CacheInv /\ UNCHANGED vars => CacheInv'
BY DEF CacheInv, vars, TypeOK, LockInv, SenderInv, CachedInv, ClosedInv, Node

LEMMA NextOK == CacheInv /\ [Next]_vars => CacheInv'
<1> SUFFICES ASSUME CacheInv, [Next]_vars PROVE CacheInv'
  OBVIOUS
<1>1. CASE Next
  BY <1>1, LinkStepOK, ClosedCallbackOK, SenderOK DEF Next
<1>2. CASE UNCHANGED vars
  BY <1>2, StutterOK
<1> QED
  BY <1>1, <1>2

\* The inductive invariant holds in every reachable state.
THEOREM CacheInvariant == Spec => []CacheInv
BY InitOK, NextOK, PTL DEF Spec

\* The fields of the Messenger and the locals of its callers keep their types,
\* and no call runs past its last candidate.
THEOREM CacheTypes == Spec => []TypeOK
<1>1. CacheInv => TypeOK
  BY DEF CacheInv
<1> QED
  BY <1>1, CacheInvariant, PTL

\* Whatever links other callers put into the cache, a payload goes out on a link
\* to the node it is meant for, and a call that reports a node uploaded to it.
THEOREM SendsToRightPeer == Spec => []RightPeer
<1>1. CacheInv => RightPeer
  BY DEF CacheInv, SenderInv, RightPeer
<1> QED
  BY <1>1, CacheInvariant, PTL

\* No caller of ensurePropagationLink, establishPropagationLink or
\* clearPropagationLink waits for the network with the cache mutex locked.
THEOREM LockIsShort == Spec => []NoLockWhileWaiting
<1>1. CacheInv => NoLockWhileWaiting
  BY DEF CacheInv, LockInv, NoLockWhileWaiting
<1> QED
  BY <1>1, CacheInvariant, PTL

\* The late callback of an old link never evicts its successor.
THEOREM EvictionIsOwn == Spec => EvictsOwn
<1>1. CacheInv /\ [Next]_vars => [cache # NoLink /\ cache' = NoLink => status[cache] = "closed" \/ mu # Nobody]_vars
  <2> SUFFICES ASSUME CacheInv, Next, cache # NoLink, cache' = NoLink
               PROVE  status[cache] = "closed" \/ mu # Nobody
    BY DEF vars
  <2> USE DEF CacheInv
  <2>1. ASSUME NEW l \in Links, LinkStep(l) PROVE FALSE
    BY SMTT(60), <2>1 DEF LinkStep, LinkUp, LinkStale, LinkRevived, WatchdogClose, MaintainTeardown,
      RemoteTeardown, HandleTeardown
  <2>2. ASSUME NEW l \in Links, NEW p \in {Watch(l), Inbound(l)}, ClosedCallback(p, l)
        PROVE  status[cache] = "closed"
    BY SMTT(60), <2>2 DEF ClosedCallback, Evicted, ClosedInv
  <2>3. ASSUME NEW s \in Senders, Sender(s)
        PROVE  status[cache] = "closed" \/ mu # Nobody
    <3>1. CASE Uncache(s)
      BY ZenonT(60), <3>1, Apart DEF Uncache, LockInv
    <3>2. CASE Publish(s)
      BY ZenonT(60), <3>2, Apart DEF Publish, SenderInv
    <3>3. CASE \E l \in Links : SenderCallback(s, l)
      BY <3>3 DEF SenderCallback, Evicted, ClosedInv
    <3>4. CASE cache' = cache
      BY <3>4
    <3> QED
      BY ZenonT(60), <2>3, <3>1, <3>2, <3>3, <3>4
      DEF Sender, EnsureLink, PackFails, ClearLink, Teardown, Establish, Wait, GiveUp, Upload,
          SendOK, SendFails, NextNode
  <2> QED
    BY <2>1, <2>2, <2>3 DEF Next
<1> QED
  BY <1>1, CacheInvariant, PTL DEF Spec, EvictsOwn
=============================================================================
