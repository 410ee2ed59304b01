--------------------------- MODULE RRCHubInvariant ---------------------------
(***************************************************************************)
(* The inductive invariant of the hub, for any number of links,            *)
(* identities, rooms and packets: every step preserves it, and what        *)
(* follows from it at once.  The last part says how a goroutine goes on    *)
(* inside a callback; RRCHubProofs builds on it.                           *)
(***************************************************************************)
EXTENDS RRCHub, TLAPS

\* A goroutine outside of the callbacks of a link (the caller of Hub.Close) runs
\* no handler; one with an envelope in hand or inside registerOnce.Do runs for a
\* session that has its peerHash.
Owned(r, ph) ==
  /\ r.link \in Links \/ (r.env = NoEnv /\ ~r.reg /\ r.ret = "done")
  /\ r.env # NoEnv \/ r.reg => r.link \in Links /\ ph[r.link]

\* What a goroutine r has learnt on its way to its label: facts about remoteId,
\* peerHash, active and closed that no other goroutine takes back.
LocalOK(r, rid, ph, act, cl) ==
  /\ Owned(r, ph)
  /\ r.link \in Links \/ r.pc \in {"idle", "done", "close", "drop"}
  /\ r.pc \in {"register", "idCallback"} => rid[r.link]
  /\ r.pc = "regLock" => r.reg
  /\ r.pc = "reply" => r.msg # "none"
  /\ r.pc \in {"recv", "buffer", "recheck"} => r.own # NoEnv
  /\ r.pc \in {"handle", "hello", "welcome", "join", "part", "rate", "content"} =>
       r.env # NoEnv
  /\ r.pc \in {"join", "rate", "content", "forward"} => act[r.link]
  /\ r.pc = "join" => r.env.room \in Rooms
  /\ r.pc = "forward" => \A t \in r.todo : act[t] /\ IdOf[t] # IdOf[r.link]
  /\ r.pc = "drop" => r.cur \in Links /\ cl[r.cur]

GrInv == \A g \in Procs : LocalOK(gr[g], remoteId, peerHash, active, closed)

\* Identity before peerHash, peerHash before HELLO, HELLO before JOIN.
PeerInv ==
  \A l \in Links : /\ active[l] => peerHash[l]
                   /\ peerHash[l] => remoteId[l]
                   /\ joined[l] # {} => active[l]

\* The members of a room joined it.
RoomInv ==
  \A r \in Rooms : \A k \in rooms[r] : \E l \in Links : IdOf[l] = k /\ r \in joined[l]

OutInv ==
  \A t \in Links : \A m \in outbox[t] :
    m.type = "MSG" => /\ active[t] /\ m.from # IdOf[t]
                      /\ \E l \in Links : IdOf[l] = m.from /\ active[l]

\* The inductive invariant of the hub.
HubInv == TypeOK /\ GrInv /\ PeerInv /\ RoomInv /\ OutInv

-----------------------------------------------------------------------------

\* A handler that is done with its envelope is where it was, without it.
LEMMA ClearOK ==
  ASSUME NEW r \in Goroutine
  PROVE  /\ Clear(r) \in Goroutine
         /\ Clear(r).env = NoEnv /\ Clear(r).pc = r.pc /\ Clear(r).link = r.link
         /\ Clear(r).reg = r.reg /\ Clear(r).ret = r.ret
BY ZenonT(30) DEF Clear, Goroutine

\* A goroutine that has not begun or has ended knows nothing and needs nothing.
LEMMA DoneOK ==
  /\ Idle \in Goroutine /\ Done \in Goroutine
  /\ \A rid, ph, act, cl : LocalOK(Idle, rid, ph, act, cl) /\ LocalOK(Done, rid, ph, act, cl)
<1>1. Idle \in Goroutine BY DEF Idle, Goroutine, Labels
<1>2. Done \in Goroutine BY <1>1 DEF Done, Goroutine, Labels
<1>3. Idle.pc = "idle" /\ Idle.env = NoEnv /\ Idle.reg = FALSE /\ Idle.ret = "done"
  BY DEF Idle
<1>4. Done.pc = "done" /\ Done.env = NoEnv /\ Done.reg = FALSE /\ Done.ret = "done"
  BY DEF Idle, Done
<1> QED BY <1>1, <1>2, <1>3, <1>4 DEF LocalOK, Owned

\* A goroutine of a link that moves to label p keeps its locals.
LEMMA GoTo ==
  ASSUME NEW r \in Goroutine, NEW ph, Owned(r, ph), NEW p \in Labels, p # "done"
  PROVE  /\ At(r, p) \in Goroutine /\ Owned(At(r, p), ph)
         /\ At(r, p).pc = p /\ At(r, p).link = r.link /\ At(r, p).own = r.own
         /\ At(r, p).env = r.env /\ At(r, p).todo = r.todo /\ At(r, p).cur = r.cur
BY DEF At, Goroutine, Owned

\* What a goroutine has to know to move to each label.
LEMMA MoveOK ==
  ASSUME NEW r \in Goroutine, NEW rid, NEW ph, NEW act, NEW cl, Owned(r, ph), r.link \in Links,
         NEW p \in Labels, p \notin {"done", "regLock", "reply", "forward", "drop"},
         p \in {"register", "idCallback"} => rid[r.link],
         p \in {"recv", "buffer", "recheck"} => r.own # NoEnv,
         p \in {"handle", "hello", "welcome", "join", "part", "rate", "content"} => r.env # NoEnv,
         p \in {"join", "rate", "content"} => act[r.link],
         p = "join" => r.env.room \in Rooms
  PROVE  At(r, p) \in Goroutine /\ LocalOK(At(r, p), rid, ph, act, cl)
BY GoTo DEF LocalOK

Fit(r, rid, ph, act, cl) == r \in Goroutine /\ LocalOK(r, rid, ph, act, cl)

\* A goroutine goes to another label with what it knows.
LEMMA Moves ==
  ASSUME NEW r \in Goroutine, NEW rid, NEW ph, NEW act, NEW cl, Owned(r, ph), r.link \in Links
  PROVE  /\ Fit(At(r, "assignSess"), rid, ph, act, cl)
         /\ rid[r.link] => Fit(At(r, "register"), rid, ph, act, cl)
         /\ r.own # NoEnv => /\ Fit(At(r, "buffer"), rid, ph, act, cl)
                             /\ Fit(At(r, "recheck"), rid, ph, act, cl)
         /\ r.env # NoEnv =>
              /\ Fit(At(r, "hello"), rid, ph, act, cl)
              /\ Fit(At(r, "welcome"), rid, ph, act, cl)
              /\ Fit(At(r, "part"), rid, ph, act, cl)
              /\ act[r.link] =>
                   /\ r.env.room \in Rooms => Fit(At(r, "join"), rid, ph, act, cl)
                   /\ Fit(At(r, "rate"), rid, ph, act, cl)
                   /\ Fit(At(r, "content"), rid, ph, act, cl)
<1>1. Fit(At(r, "assignSess"), rid, ph, act, cl) BY MoveOK DEF Labels, Fit
<1>2. rid[r.link] => Fit(At(r, "register"), rid, ph, act, cl) BY MoveOK DEF Labels, Fit
<1>3. r.own # NoEnv => Fit(At(r, "buffer"), rid, ph, act, cl) BY MoveOK DEF Labels, Fit
<1>4. r.own # NoEnv => Fit(At(r, "recheck"), rid, ph, act, cl) BY MoveOK DEF Labels, Fit
<1>5. r.env # NoEnv => Fit(At(r, "hello"), rid, ph, act, cl) BY MoveOK DEF Labels, Fit
<1>6. r.env # NoEnv => Fit(At(r, "welcome"), rid, ph, act, cl) BY MoveOK DEF Labels, Fit
<1>7. r.env # NoEnv => Fit(At(r, "part"), rid, ph, act, cl) BY MoveOK DEF Labels, Fit
<1>8. r.env # NoEnv /\ act[r.link] /\ r.env.room \in Rooms => Fit(At(r, "join"), rid, ph, act, cl)
  BY MoveOK DEF Labels, Fit
<1>9. r.env # NoEnv /\ act[r.link] => Fit(At(r, "rate"), rid, ph, act, cl)
  BY MoveOK DEF Labels, Fit
<1>10. r.env # NoEnv /\ act[r.link] => Fit(At(r, "content"), rid, ph, act, cl)
  BY MoveOK DEF Labels, Fit
<1> QED BY SMTT(60), <1>1, <1>2, <1>3, <1>4, <1>5, <1>6, <1>7, <1>8, <1>9, <1>10

\* A handler returns to the end of the callback, which needs nothing.
LEMMA ReturnOK ==
  ASSUME NEW r \in Goroutine, NEW rid, NEW ph, NEW act, NEW cl, Owned(r, ph)
  PROVE  Return(r) \in Goroutine /\ LocalOK(Return(r), rid, ph, act, cl)
<1> DEFINE c == Clear(r)
<1>0. c \in Goroutine /\ c.env = NoEnv /\ c.link = r.link /\ c.reg = r.reg /\ c.ret = r.ret
  BY ClearOK
<1>4. Return(r) = At(c, IF r.reg THEN "endReg" ELSE r.ret)
  BY DEF Return
<1> HIDE DEF c
<1>1. CASE r.reg
  BY <1>0, <1>1, <1>4 DEF At, Goroutine, LocalOK, Owned, Labels
<1>2. CASE ~r.reg /\ r.ret = "done"
  <2>1. Return(r) = Done BY <1>2, <1>4 DEF At
  <2> QED BY <2>1, DoneOK
<1>3. CASE ~r.reg /\ r.ret = "assignSess"
  BY <1>0, <1>3, <1>4 DEF At, Goroutine, LocalOK, Owned, Labels
<1> QED BY <1>1, <1>2, <1>3 DEF Goroutine

\* register and the closing of sessions end where they were called from.
LEMMA ResumeOK ==
  ASSUME NEW r \in Goroutine, NEW rid, NEW ph, NEW act, NEW cl, Owned(r, ph)
  PROVE  Resume(r) \in Goroutine /\ LocalOK(Resume(r), rid, ph, act, cl)
<1>1. CASE r.todo # {}
  BY <1>1 DEF Resume, At, Goroutine, LocalOK, Owned, Labels
<1>2. CASE r.todo = {} /\ r.env # NoEnv
  BY <1>2 DEF Resume, At, Goroutine, LocalOK, Owned, Labels
<1>3. CASE r.todo = {} /\ r.env = NoEnv
  BY <1>3, ReturnOK DEF Resume
<1> QED BY <1>1, <1>2, <1>3

-----------------------------------------------------------------------------

\* The facts goroutines rely upon only ever become true.
Grow ==
  \A l \in Links : /\ remoteId[l] => remoteId'[l]
                   /\ peerHash[l] => peerHash'[l]
                   /\ active[l] => active'[l]
                   /\ closed[l] => closed'[l]

\* What a goroutine knows stays true when flags are set.
LEMMA LocalGrows ==
  ASSUME Grow, NEW r \in Goroutine, LocalOK(r, remoteId, peerHash, active, closed)
  PROVE  LocalOK(r, remoteId', peerHash', active', closed')
<1>1. r.todo \subseteq Links /\ r.link \in Links \cup {NoLink}
  BY DEF Goroutine
<1> QED BY <1>1 DEF LocalOK, Owned, Grow

\* One goroutine moves and flags are only set: the others keep what they know.
LEMMA GrStep ==
  ASSUME gr \in [Procs -> Goroutine], GrInv, Grow, NEW g \in Procs, NEW x \in Goroutine,
         LocalOK(x, remoteId', peerHash', active', closed'), gr' = [gr EXCEPT ![g] = x]
  PROVE  gr' \in [Procs -> Goroutine] /\ GrInv'
<1>1. gr' \in [Procs -> Goroutine]
  OBVIOUS
<1>2. ASSUME NEW h \in Procs
      PROVE  LocalOK(gr'[h], remoteId', peerHash', active', closed')
  <2>1. CASE h = g BY <2>1
  <2>2. CASE h # g
    <3>1. gr'[h] = gr[h] /\ gr[h] \in Goroutine BY <2>2
    <3>2. LocalOK(gr[h], remoteId, peerHash, active, closed) BY DEF GrInv
    <3> QED BY <3>1, <3>2, LocalGrows
  <2> QED BY <2>1, <2>2
<1> QED BY <1>1, <1>2 DEF GrInv

\* A packet that is not relayed content leaves OutInv alone.
LEMMA OutStep ==
  ASSUME TypeOK, OutInv, Grow, NEW l \in Links, NEW m, m.type # "MSG",
         outbox' \in {outbox, [outbox EXCEPT ![l] = @ \cup {m}]}
  PROVE  OutInv'
<1>1. \A t \in Links : \A n \in outbox'[t] : n.type = "MSG" => n \in outbox[t]
  BY DEF TypeOK
<1> QED BY <1>1 DEF OutInv, Grow

\* Content goes out from one active session to another of another identity.
LEMMA OutRelay ==
  ASSUME TypeOK, OutInv, UNCHANGED active, NEW t \in Links, NEW l \in Links, NEW m,
         m.from = IdOf[l], IdOf[t] # IdOf[l], active[t], active[l],
         outbox' \in {outbox, [outbox EXCEPT ![t] = @ \cup {m}]}
  PROVE  OutInv'
<1>1. \A v \in Links : \A n \in outbox'[v] : n \in outbox[v] \/ (v = t /\ n = m)
  BY DEF TypeOK
<1> QED BY <1>1 DEF OutInv

\* What goes out is a message of the hub.
LEMMA OutType ==
  ASSUME TypeOK, NEW t \in Links, NEW m \in OutMessage,
         outbox' \in {outbox, [outbox EXCEPT ![t] = @ \cup {m}]}
  PROVE  outbox' \in [Links -> SUBSET OutMessage]
BY DEF TypeOK

\* One more room for a session.
LEMMA JoinRoom ==
  ASSUME TypeOK, RoomInv, NEW l \in Links, NEW room \in Rooms, room \notin joined[l],
         joined' = [joined EXCEPT ![l] = @ \cup {room}],
         rooms' = [rooms EXCEPT ![room] = @ \cup {IdOf[l]}]
  PROVE  RoomInv' /\ joined' \in [Links -> SUBSET Rooms] /\ rooms' \in [Rooms -> SUBSET Ids]
<1>1. joined' \in [Links -> SUBSET Rooms] /\ rooms' \in [Rooms -> SUBSET Ids]
  <2>1. joined \in [Links -> SUBSET Rooms] /\ rooms \in [Rooms -> SUBSET Ids] BY DEF TypeOK
  <2>2. IdOf[l] \in Ids BY HubAssumption
  <2>3. joined' \in [Links -> SUBSET Rooms] BY <2>1
  <2>4. rooms' \in [Rooms -> SUBSET Ids] BY <2>1, <2>2
  <2> QED BY <2>3, <2>4
<1>2. \A q \in Rooms : \A k \in rooms'[q] : \E m \in Links : IdOf[m] = k /\ q \in joined'[m]
  <2>1. \A m \in Links : joined[m] \subseteq joined'[m] BY DEF TypeOK
  <2>2. room \in joined'[l] BY DEF TypeOK
  <2>3. ASSUME NEW q \in Rooms, NEW k \in rooms'[q]
        PROVE  k \in rooms[q] \/ (q = room /\ k = IdOf[l])
    BY DEF TypeOK
  <2> QED BY <2>1, <2>2, <2>3 DEF RoomInv
<1> QED BY ZenonT(60), <1>1, <1>2 DEF RoomInv

\* PeerInv and RoomInv depend on these variables only.
LEMMA Frame ==
  ASSUME PeerInv, RoomInv, UNCHANGED <<remoteId, peerHash, active, joined, rooms>>
  PROVE  PeerInv' /\ RoomInv'
BY DEF PeerInv, RoomInv

\* The links that are welcomed at the start have been through all of it.
LEMMA InitOK == Init => HubInv
<1> SUFFICES ASSUME Init PROVE HubInv
  OBVIOUS
<1> USE DEF Init
<1>1. gr \in [Procs -> Goroutine] /\ GrInv
  BY DoneOK DEF GrInv
<1>2. outbox \in [Links -> SUBSET OutMessage]
  BY DEF OutMessage, Message, Procs
<1>3. peers \in [Ids -> Links \cup {NoLink}]
  BY HubAssumption
<1>4. TypeOK
  <2> DEFINE W == [l \in Links |-> l \in Welcomed]
             F == [l \in Links |-> FALSE]
  <2>3. W \in [Links -> BOOLEAN] /\ F \in [Links -> BOOLEAN]
    <3>1. ASSUME NEW l \in Links PROVE (l \in Welcomed) \in BOOLEAN OBVIOUS
    <3> QED BY ZenonT(60), <3>1, Zenon
  <2>4. /\ remoteId = W /\ pktCb = W /\ idCb = W /\ sess = W /\ peerHash = W /\ active = W
        /\ closed = F /\ panicked = FALSE
    OBVIOUS
  <2> HIDE DEF W, F, Init
  <2>1. /\ remoteId \in [Links -> BOOLEAN] /\ pktCb \in [Links -> BOOLEAN]
        /\ idCb \in [Links -> BOOLEAN] /\ sess \in [Links -> BOOLEAN]
        /\ peerHash \in [Links -> BOOLEAN] /\ active \in [Links -> BOOLEAN]
        /\ closed \in [Links -> BOOLEAN] /\ panicked \in BOOLEAN
    BY ZenonT(30), <2>3, <2>4
  <2>2. /\ status \in [Links -> {"pending", "active", "stale", "closed"}]
        /\ plain \in [Links -> Envelope \cup {NoEnv}]
        /\ once \in [Links -> {"no", "running", "done"}]
        /\ pendingHello \in [Links -> Envelope \cup {NoEnv}]
        /\ joined \in [Links -> SUBSET Rooms] /\ rooms \in [Rooms -> SUBSET Ids]
    BY DEF Init
  <2> QED BY <1>1, <1>2, <1>3, <2>1, <2>2 DEF TypeOK
<1>5. PeerInv BY DEF PeerInv
<1>6. RoomInv
  BY DEF RoomInv
<1>7. OutInv BY DEF OutInv, Message
<1> QED BY <1>1, <1>4, <1>5, <1>6, <1>7 DEF HubInv

-----------------------------------------------------------------------------
(* Every step preserves HubInv. *)

\* TypeOK without the goroutines.
TypeRest ==
  /\ status \in [Links -> {"pending", "active", "stale", "closed"}]
  /\ remoteId \in [Links -> BOOLEAN]
  /\ pktCb \in [Links -> BOOLEAN]
  /\ idCb \in [Links -> BOOLEAN]
  /\ plain \in [Links -> Envelope \cup {NoEnv}]
  /\ sess \in [Links -> BOOLEAN]
  /\ peerHash \in [Links -> BOOLEAN]
  /\ once \in [Links -> {"no", "running", "done"}]
  /\ pendingHello \in [Links -> Envelope \cup {NoEnv}]
  /\ active \in [Links -> BOOLEAN]
  /\ joined \in [Links -> SUBSET Rooms]
  /\ closed \in [Links -> BOOLEAN]
  /\ peers \in [Ids -> Links \cup {NoLink}]
  /\ rooms \in [Rooms -> SUBSET Ids]
  /\ outbox \in [Links -> SUBSET OutMessage]
  /\ panicked \in BOOLEAN

\* What the invariant says of one goroutine.
LEMMA GrAt ==
  ASSUME HubInv, NEW g \in Procs
  PROVE  gr[g] \in Goroutine /\ LocalOK(gr[g], remoteId, peerHash, active, closed)
BY DEF HubInv, TypeOK, GrInv

-----------------------------------------------------------------------------
(* The handlers of envelopes. *)

\* Every step of the hub preserves the invariant.
LEMMA NextOK == HubInv /\ [Next]_vars => HubInv'
\* A step that changes none of the variables of the invariant.
<1>Still.
    ASSUME HubInv, UNCHANGED <<linkVars, peerVars, hubVars, gr, outbox>>, panicked' \in BOOLEAN
    PROVE  HubInv'
  <2> USE <1>Still
  <2>1. TypeOK' BY DEF HubInv, TypeOK, linkVars, peerVars, hubVars
  <2>2. GrInv' BY DEF HubInv, GrInv, linkVars, peerVars
  <2>3. PeerInv' /\ RoomInv' BY Frame DEF HubInv, linkVars, peerVars, hubVars
  <2>4. OutInv' BY DEF HubInv, OutInv, peerVars
  <2> QED BY <2>1, <2>2, <2>3, <2>4 DEF HubInv

\* A step that changes nothing the invariant relates but one goroutine.
<1>Quiet.
    ASSUME HubInv, NEW g \in Procs, NEW x \in Goroutine, gr' = [gr EXCEPT ![g] = x],
           LocalOK(x, remoteId, peerHash, active, closed), TypeRest',
           UNCHANGED <<remoteId, peerHash, active, joined, closed, rooms, outbox>>
    PROVE  HubInv'
  <2> USE <1>Quiet
  <2>1. Grow BY DEF Grow
  <2>2. gr' \in [Procs -> Goroutine] /\ GrInv'
    BY ZenonT(30), <2>1, GrStep DEF HubInv, TypeOK
  <2>3. PeerInv' /\ RoomInv' BY Frame DEF HubInv
  <2>4. OutInv' BY DEF OutInv, HubInv
  <2>5. TypeOK' BY <2>2 DEF TypeOK, TypeRest
  <2> QED BY <2>2, <2>3, <2>4, <2>5 DEF HubInv

\* A step that also sends one packet that is not relayed content.
<1>Sends.
    ASSUME HubInv, NEW g \in Procs, NEW x \in Goroutine, gr' = [gr EXCEPT ![g] = x],
           LocalOK(x, remoteId, peerHash, active, closed), NEW l \in Links,
           NEW m \in OutMessage, m.type # "MSG",
           outbox' \in {outbox, [outbox EXCEPT ![l] = @ \cup {m}]},
           UNCHANGED <<linkVars, peerVars, hubVars, panicked>>
    PROVE  HubInv'
  <2> USE <1>Sends
  <2>1. Grow BY DEF Grow, linkVars, peerVars
  <2>2. gr' \in [Procs -> Goroutine] /\ GrInv'
    BY ZenonT(30), <2>1, GrStep DEF HubInv, TypeOK, linkVars, peerVars
  <2>3. PeerInv' /\ RoomInv' BY Frame DEF HubInv, linkVars, peerVars, hubVars
  <2>4. OutInv' BY <2>1, OutStep DEF HubInv
  <2>5. outbox' \in [Links -> SUBSET OutMessage] BY DEF HubInv, TypeOK
  <2>6. TypeOK' BY <2>2, <2>5 DEF HubInv, TypeOK, linkVars, peerVars, hubVars
  <2> QED BY SMTT(60), <2>2, <2>3, <2>4, <2>6 DEF HubInv

\* The link comes up, is identified, is lost or stale.
<1>LinkStepOK.
    ASSUME HubInv, NEW l \in Links, LinkStep(l)
    PROVE  HubInv'
  <2> USE <1>LinkStepOK
  <2>0. Accept(l) \in Procs /\ Ident(l) \in Procs BY DEF Procs
  <2>1. CASE LinkUp(l)
    <3> DEFINE x == [Idle EXCEPT !.pc = "newSession", !.link = l]
    <3>1. x \in Goroutine /\ LocalOK(x, remoteId, peerHash, active, closed)
      BY ZenonT(30) DEF Idle, Goroutine, Labels, LocalOK, Owned
    <3>2. gr' = [gr EXCEPT ![Accept(l)] = x] BY <2>1 DEF LinkUp
    <3>3. TypeRest' BY <2>1 DEF LinkUp, HubInv, TypeOK, TypeRest, peerVars, hubVars
    <3> HIDE DEF x
    <3> QED BY ZenonT(30), <2>0, <2>1, <3>1, <3>2, <3>3, <1>Quiet DEF LinkUp, peerVars, hubVars
  <2>2. CASE Identified(l)
    <3> DEFINE x == [Idle EXCEPT !.pc = "idCallback", !.link = l]
    <3>0. remoteId' = [remoteId EXCEPT ![l] = TRUE] /\ remoteId'[l]
      BY <2>2 DEF Identified, HubInv, TypeOK
    <3>1. x \in Goroutine /\ LocalOK(x, remoteId', peerHash', active', closed')
      BY ZenonT(30), <3>0 DEF Idle, Goroutine, Labels, LocalOK, Owned
    <3>2. gr' = [gr EXCEPT ![Ident(l)] = x] BY <2>2 DEF Identified
    <3>3. Grow BY <2>2, <3>0 DEF Identified, Grow, HubInv, TypeOK, peerVars
    <3> HIDE DEF x
    <3>4. gr' \in [Procs -> Goroutine] /\ GrInv'
      BY ZenonT(30), <2>0, <3>1, <3>2, <3>3, GrStep DEF HubInv, TypeOK
    <3>5. TypeRest' BY <2>2 DEF Identified, HubInv, TypeOK, TypeRest, peerVars, hubVars
    <3>6. PeerInv' BY <2>2, <3>3 DEF Identified, HubInv, PeerInv, Grow, peerVars
    <3>7. RoomInv' /\ OutInv'
      BY SMTT(60), <2>2 DEF Identified, HubInv, RoomInv, OutInv, peerVars, hubVars
    <3> QED BY <3>4, <3>5, <3>6, <3>7 DEF HubInv, TypeOK, TypeRest
  <2>3. CASE LinkLost(l) \/ LinkStale(l)
    <3>1. TypeOK' BY <2>3 DEF LinkLost, LinkStale, HubInv, TypeOK, peerVars, hubVars
    <3> QED BY SMTT(60), <2>3, <3>1
            DEF LinkLost, LinkStale, HubInv, GrInv, PeerInv, RoomInv, OutInv, peerVars, hubVars
  <2> QED BY <2>1, <2>2, <2>3 DEF LinkStep

\* A packet arrives and its goroutine begins.
<1>PacketInOK.
    ASSUME HubInv, NEW g \in Packets, NEW t \in Traffic[g], PacketIn(g, t[1], t[2])
    PROVE  HubInv'
  <2> USE <1>PacketInOK
  <2> DEFINE l == t[1]
             e == t[2]
  <2>1. l \in Links /\ e \in Envelope /\ e # NoEnv /\ g \in Procs
    BY TrafficAssumption DEF Procs
  <2> HIDE DEF l, e
  <2>2. PacketIn(g, l, e) BY DEF l, e
  <2>6. plain' \in [Links -> Envelope \cup {NoEnv}]
    BY <2>1, <2>2 DEF PacketIn, HubInv, TypeOK
  <2>7. status' \in [Links -> {"pending", "active", "stale", "closed"}]
    BY ZenonT(30), <2>1, <2>2 DEF PacketIn, HubInv, TypeOK
  <2>3. TypeRest' BY <2>2, <2>6, <2>7 DEF PacketIn, HubInv, TypeOK, TypeRest, peerVars, hubVars
  <2>4. CASE pktCb[l]
    <3> DEFINE x == [Idle EXCEPT !.pc = "recv", !.link = l, !.own = e]
    <3>1. x \in Goroutine /\ LocalOK(x, remoteId, peerHash, active, closed)
      BY ZenonT(30), <2>1 DEF Idle, Goroutine, Labels, LocalOK, Owned
    <3>2. gr' = [gr EXCEPT ![g] = x] BY <2>2, <2>4 DEF PacketIn
    <3> HIDE DEF x
    <3> QED BY ZenonT(30), <2>1, <2>2, <2>3, <3>1, <3>2, <1>Quiet DEF PacketIn, peerVars, hubVars
  <2>5. CASE ~pktCb[l]
    <3>1. gr' = [gr EXCEPT ![g] = Done] BY <2>2, <2>5 DEF PacketIn
    <3> QED BY ZenonT(30), <2>1, <2>2, <2>3, <3>1, <1>Quiet, DoneOK DEF PacketIn, peerVars, hubVars
  <2> QED BY <2>4, <2>5

\* acceptLink and the identified callback.
<1>AcceptOK.
    ASSUME HubInv, NEW g \in Procs,
           NewSession(g) \/ AssignSess(g) \/ SetIdCb(g) \/ CheckId(g) \/ IdCallback(g)
    PROVE  HubInv'
  <2> USE <1>AcceptOK
  <2> DEFINE r == gr[g]
  <2>0. r \in Goroutine /\ LocalOK(r, remoteId, peerHash, active, closed) BY GrAt
  <2>1. CASE NewSession(g)
    <3>0. r.pc = "newSession" /\ r.link \in Links /\ Owned(r, peerHash)
      BY <2>0, <2>1 DEF NewSession, LocalOK
    <3> DEFINE own == plain[r.link]
               x == IF own = NoEnv THEN At(r, "assignSess")
                    ELSE [r EXCEPT !.pc = "recv", !.own = own, !.ret = "assignSess"]
    <3>1. own \in Envelope \cup {NoEnv} BY <3>0 DEF HubInv, TypeOK
    <3>2. gr' = [gr EXCEPT ![g] = x] BY <2>1 DEF NewSession
    <3>3. TypeRest' BY <2>1, <3>0 DEF NewSession, HubInv, TypeOK, TypeRest, peerVars, hubVars
    <3> HIDE DEF own, r
    <3>4. CASE own = NoEnv
      <4>1. gr' = [gr EXCEPT ![g] = At(r, "assignSess")] BY <3>2, <3>4
      <4>2. /\ At(r, "assignSess") \in Goroutine
            /\ LocalOK(At(r, "assignSess"), remoteId, peerHash, active, closed)
        BY ZenonT(30), <2>0, <3>0, Moves DEF Fit
      <4> QED BY ZenonT(30), <2>1, <3>3, <4>1, <4>2, <1>Quiet DEF NewSession, peerVars, hubVars
    <3>5. CASE own # NoEnv
      <4> DEFINE y == [r EXCEPT !.pc = "recv", !.own = own, !.ret = "assignSess"]
                 z == [r EXCEPT !.pc = "recv", !.own = own]
      <4>0. z \in Goroutine BY ZenonT(30), <2>0, <3>1 DEF Goroutine, Labels
      <4>1. y \in Goroutine
        <5>1. y = [z EXCEPT !.ret = "assignSess"] OBVIOUS
        <5> HIDE DEF y, z
        <5> QED BY <4>0, <5>1 DEF Goroutine
      <4>2. LocalOK(y, remoteId, peerHash, active, closed)
        BY <2>0, <3>0, <3>1, <3>5 DEF Goroutine, LocalOK, Owned
      <4>3. gr' = [gr EXCEPT ![g] = y] BY <3>2, <3>5
      <4> HIDE DEF y
      <4> QED BY ZenonT(30), <2>1, <3>3, <4>1, <4>2, <4>3, <1>Quiet
              DEF NewSession, peerVars, hubVars
    <3> QED BY <3>4, <3>5
  <2>2. CASE AssignSess(g)
    <3>0. r.pc = "assignSess" /\ r.link \in Links BY <2>0, <2>2 DEF AssignSess, LocalOK
    <3> DEFINE x == [r EXCEPT !.pc = "setIdCb", !.own = NoEnv, !.ret = "done"]
    <3>1. gr' = [gr EXCEPT ![g] = x] BY <2>2 DEF AssignSess
    <3>2. TypeRest' BY <2>2, <3>0 DEF AssignSess, HubInv, TypeOK, TypeRest, linkVars, hubVars
    <3> HIDE DEF r
    <3> DEFINE z == [r EXCEPT !.pc = "setIdCb", !.own = NoEnv]
    <3>5. z \in Goroutine BY ZenonT(30), <2>0 DEF Goroutine, Labels
    <3>3. x \in Goroutine
      <4>1. x = [z EXCEPT !.ret = "done"] OBVIOUS
      <4> HIDE DEF x, z
      <4> QED BY <3>5, <4>1 DEF Goroutine
    <3>4. LocalOK(x, remoteId, peerHash, active, closed)
      BY <2>0, <3>0 DEF Goroutine, LocalOK, Owned
    <3> HIDE DEF x
    <3> QED BY ZenonT(30), <2>2, <3>1, <3>2, <3>3, <3>4, <1>Quiet DEF AssignSess, linkVars, hubVars
  <2>3. CASE SetIdCb(g)
    <3>0. r.pc = "setIdCb" /\ r.link \in Links BY <2>0, <2>3 DEF SetIdCb, LocalOK
    <3> DEFINE x == At(r, "checkId")
    <3>1. gr' = [gr EXCEPT ![g] = x] BY SMTT(60), <2>3 DEF SetIdCb
    <3>2. TypeRest' BY <2>3, <3>0 DEF SetIdCb, HubInv, TypeOK, TypeRest, peerVars, hubVars
    <3> HIDE DEF r
    <3>3. x \in Goroutine /\ LocalOK(x, remoteId, peerHash, active, closed)
      BY SMTT(60), <2>0, <3>0 DEF At, Goroutine, Labels, LocalOK, Owned
    <3> HIDE DEF x
    <3> QED BY ZenonT(30), <2>3, <3>1, <3>2, <3>3, <1>Quiet DEF SetIdCb, peerVars, hubVars
  <2>4. CASE CheckId(g) \/ IdCallback(g)
    <3>0. r.pc \in {"checkId", "idCallback"} /\ r.link \in Links /\ Owned(r, peerHash)
      BY SMTT(60), ZenonT(60), <2>0, <2>4 DEF CheckId, IdCallback, LocalOK
    <3>1. TypeRest' /\ UNCHANGED <<remoteId, peerHash, active, joined, closed, rooms, outbox>>
      BY SMTT(60), ZenonT(60), <2>4
         DEF CheckId, IdCallback, HubInv, TypeOK, TypeRest, linkVars, peerVars, hubVars
    <3>2. PICK p \in {"register", "done"} :
            gr' = [gr EXCEPT ![g] = At(r, p)] /\ (p = "register" => remoteId[r.link])
      BY <2>0, <2>4 DEF CheckId, IdCallback, LocalOK
    <3> HIDE DEF r
    <3>3. CASE p = "register"
      <4>1. /\ At(r, "register") \in Goroutine
            /\ LocalOK(At(r, "register"), remoteId, peerHash, active, closed)
        BY ZenonT(30), <2>0, <3>0, <3>2, <3>3, Moves DEF Fit
      <4> QED BY ZenonT(30), <3>1, <3>2, <3>3, <4>1, <1>Quiet
    <3>4. CASE p = "done"
      BY ZenonT(30), <3>1, <3>2, <3>4, DoneOK, <1>Quiet DEF At
    <3> QED BY SMTT(60), ZenonT(60), <3>2, <3>3, <3>4
  <2> QED BY <2>1, <2>2, <2>3, <2>4

\* The callback ends.
<1>ExitOK.
    ASSUME NEW r \in Goroutine, NEW rid, NEW ph, NEW act, NEW cl, Owned(r, ph)
    PROVE  At(r, r.ret) \in Goroutine /\ LocalOK(At(r, r.ret), rid, ph, act, cl)
  <2> USE <1>ExitOK
  <2>1. CASE r.ret = "done"
    <3>1. At(r, r.ret) = Done BY SMTT(60), <2>1 DEF At
    <3> QED BY ZenonT(60), <3>1, DoneOK
  <2>2. CASE r.ret = "assignSess" BY SMTT(60), <2>2, GoTo DEF LocalOK, Owned, Labels
  <2> QED BY <2>1, <2>2 DEF Goroutine

\* handlePeer is called on the packet of the callback.
<1>HandleOK.
    ASSUME NEW r \in Goroutine, NEW rid, NEW ph, NEW act, NEW cl,
           r.link \in Links, ph[r.link], r.own # NoEnv
    PROVE  Handle(r) \in Goroutine /\ LocalOK(Handle(r), rid, ph, act, cl)
  <2> USE <1>HandleOK
  <2>1. Handle(r) \in Goroutine BY ZenonT(30) DEF Handle, Goroutine, Labels
  <2>2. Handle(r).pc = "handle" /\ Handle(r).env = r.own /\ Handle(r).link = r.link
    BY DEF Handle, Goroutine
  <2> QED BY <2>1, <2>2 DEF LocalOK, Owned

\* The packet handler that acceptLink installs, up to handlePeer.
<1>RecvOK.
    ASSUME HubInv, NEW g \in Procs, Recv(g) \/ Buffer(g) \/ Recheck(g)
    PROVE  HubInv'
  <2> USE <1>RecvOK
  <2> DEFINE r == gr[g]
             l == r.link
  <2>0. r \in Goroutine /\ LocalOK(r, remoteId, peerHash, active, closed) BY GrAt
  <2>1. l \in Links /\ r.own # NoEnv /\ Owned(r, peerHash)
    BY <2>0 DEF Recv, Buffer, Recheck, LocalOK
  <2>2. CASE Recv(g)
    <3> DEFINE m == Message("PONG", NoRoom, NoId, g)
    <3>1. m \in OutMessage /\ m.type # "MSG" BY DEF Message, OutMessage
    <3>2. outbox' \in {outbox, [outbox EXCEPT ![l] = @ \cup {m}]} BY <2>2 DEF Recv
    <3>3. UNCHANGED <<linkVars, peerVars, hubVars, panicked>> BY <2>2 DEF Recv
    <3>4. \/ peerHash[l] /\ gr' = [gr EXCEPT ![g] = Handle(r)]
          \/ remoteId[l] /\ gr' = [gr EXCEPT ![g] = At(r, "register")]
          \/ gr' = [gr EXCEPT ![g] = At(r, "buffer")]
          \/ gr' = [gr EXCEPT ![g] = At(r, "recheck")]
      BY ZenonT(30), <2>2 DEF Recv
    <3> HIDE DEF r, l, m
    <3>5. PICK x \in Goroutine : /\ LocalOK(x, remoteId, peerHash, active, closed)
                                 /\ gr' = [gr EXCEPT ![g] = x]
      <4>1. CASE peerHash[l] /\ gr' = [gr EXCEPT ![g] = Handle(r)]
        BY ZenonT(30), <2>0, <2>1, <4>1, <1>HandleOK DEF l
      <4>2. CASE remoteId[l] /\ gr' = [gr EXCEPT ![g] = At(r, "register")]
        <5>1. LocalOK(At(r, "register"), remoteId, peerHash, active, closed)
              /\ At(r, "register") \in Goroutine
          BY ZenonT(30), <2>0, <2>1, <4>2, Moves DEF l, Fit
        <5> QED BY ZenonT(30), <4>2, <5>1
      <4>3. ASSUME NEW p \in {"buffer", "recheck"}, gr' = [gr EXCEPT ![g] = At(r, p)]
            PROVE  \E x \in Goroutine : /\ LocalOK(x, remoteId, peerHash, active, closed)
                                        /\ gr' = [gr EXCEPT ![g] = x]
        <5>1. LocalOK(At(r, p), remoteId, peerHash, active, closed) /\ At(r, p) \in Goroutine
          BY ZenonT(30), <2>0, <2>1, Moves DEF l, Fit
        <5> QED BY ZenonT(30), <4>3, <5>1
      <4> QED BY <3>4, <4>1, <4>2, <4>3
    <3> QED BY ZenonT(30), <2>1, <3>1, <3>2, <3>3, <3>5, <1>Sends
  <2>3. CASE Buffer(g)
    <3>1. TypeRest' BY SMTT(60), <2>0, <2>1, <2>3
      DEF Buffer, Goroutine, HubInv, TypeOK, TypeRest, linkVars, hubVars
    <3>2. gr' = [gr EXCEPT ![g] = At(r, r.ret)] BY SMTT(60), ZenonT(60), <2>3 DEF Buffer
    <3> HIDE DEF r, l
    <3> QED BY ZenonT(30), <2>0, <2>1, <2>3, <3>1, <3>2, <1>ExitOK, <1>Quiet
            DEF Buffer, linkVars, hubVars
  <2>4. CASE Recheck(g)
    <3>1. TypeRest' /\ UNCHANGED <<remoteId, peerHash, active, joined, closed, rooms, outbox>>
      BY <2>4 DEF Recheck, HubInv, TypeOK, TypeRest, linkVars, peerVars, hubVars
    <3>2. \/ peerHash[l] /\ gr' = [gr EXCEPT ![g] = Handle(r)]
          \/ gr' = [gr EXCEPT ![g] = At(r, r.ret)]
      BY ZenonT(30), <2>4 DEF Recheck
    <3> HIDE DEF r
    <3> QED BY SMTT(60), ZenonT(60), <2>0, <2>1, <3>1, <3>2, <1>ExitOK, <1>HandleOK, <1>Quiet
  <2> QED BY <2>2, <2>3, <2>4

\* registerOnce.Do, entered or not.
<1>RegisterOK.
    ASSUME HubInv, NEW g \in Procs, Register(g)
    PROVE  HubInv'
  <2> USE <1>RegisterOK
  <2> DEFINE r == gr[g]
             l == r.link
  <2>0. r \in Goroutine /\ LocalOK(r, remoteId, peerHash, active, closed) BY GrAt
  <2>1. l \in Links /\ remoteId[l] /\ Owned(r, peerHash)
    BY <2>0 DEF Register, LocalOK
  <2>2. CASE once[l] = "no"
    <3> DEFINE x == [r EXCEPT !.pc = "regLock", !.reg = TRUE]
    <3>0. once[l] # "done" BY <2>2
    <3>1. /\ peerHash' = [peerHash EXCEPT ![l] = TRUE] /\ once' = [once EXCEPT ![l] = "running"]
          /\ gr' = [gr EXCEPT ![g] = x]
          /\ UNCHANGED <<linkVars, sess, pendingHello, active, joined, closed, hubVars,
                         outbox, panicked>>
      BY <3>0 DEF Register
    <3>2. peerHash'[l] /\ Grow
      BY <2>1, <3>1 DEF HubInv, TypeOK, Grow, linkVars
    <3> HIDE DEF l, r
    <3>3. x \in Goroutine BY ZenonT(60), <2>0 DEF Goroutine, Labels
    <3>4. LocalOK(x, remoteId', peerHash', active', closed')
      <4>1. x.pc = "regLock" /\ x.reg = TRUE /\ x.link = l BY <2>0 DEF Goroutine, l
      <4> QED BY <2>1, <3>2, <4>1 DEF LocalOK, Owned
    <3> HIDE DEF x
    <3>5. gr' \in [Procs -> Goroutine] /\ GrInv'
      BY ZenonT(30), <3>1, <3>2, <3>3, <3>4, GrStep DEF HubInv, TypeOK
    <3>6. TypeOK' BY <2>1, <3>1, <3>5 DEF HubInv, TypeOK, linkVars, hubVars
    <3>7. PeerInv' BY SMTT(60), <2>1, <3>1, <3>2 DEF HubInv, TypeOK, PeerInv, linkVars
    <3>8. RoomInv' /\ OutInv' BY SMTT(60), <3>1 DEF HubInv, RoomInv, OutInv, hubVars
    <3> QED BY <3>5, <3>6, <3>7, <3>8 DEF HubInv
  <2>3. CASE once[l] # "no"
    <3>1. TypeRest' /\ UNCHANGED <<remoteId, peerHash, active, joined, closed, rooms, outbox>>
      BY <2>3 DEF Register, HubInv, TypeOK, TypeRest, linkVars, peerVars, hubVars
    <3>2. \/ r.own # NoEnv /\ gr' = [gr EXCEPT ![g] = At(r, "recheck")]
          \/ gr' = [gr EXCEPT ![g] = At(r, r.ret)]
      BY <2>3 DEF Register
    <3> HIDE DEF r
    <3>3. CASE r.own # NoEnv /\ gr' = [gr EXCEPT ![g] = At(r, "recheck")]
      <4>1. LocalOK(At(r, "recheck"), remoteId, peerHash, active, closed)
            /\ At(r, "recheck") \in Goroutine
        BY ZenonT(30), <2>0, <2>1, <3>3, Moves DEF Fit
      <4> QED BY ZenonT(30), <3>1, <3>3, <4>1, <1>Quiet
    <3> QED BY SMTT(60), <2>0, <2>1, <3>1, <3>2, <3>3, <1>ExitOK, <1>Quiet
  <2> QED BY <2>2, <2>3

\* Rooms that only lose members.
<1>RoomShrink.
    ASSUME RoomInv, UNCHANGED joined, \A r \in Rooms : rooms'[r] \subseteq rooms[r]
    PROVE  RoomInv'
  BY <1>RoomShrink DEF RoomInv

\* What the order of a session's steps depends on, and what its messages do.
<1>PeerFrame.
    ASSUME PeerInv, UNCHANGED <<remoteId, peerHash, active, joined>>
    PROVE  PeerInv'
  BY <1>PeerFrame DEF PeerInv

\* OutInv depends on what went out and on who is active.
<1>OutFrame.
    ASSUME OutInv, UNCHANGED <<active, outbox>>
    PROVE  OutInv'
  BY <1>OutFrame DEF OutInv

\* What is left of Hub.rooms without a key.
<1>WithoutOK.
    ASSUME TypeOK, NEW k, NEW from
    PROVE  /\ Without(k, from) \in [Rooms -> SUBSET Ids]
           /\ \A r \in Rooms : Without(k, from)[r] \subseteq rooms[r]
  BY SMTT(60), <1>WithoutOK DEF Without, TypeOK

\* A step that changes Hub.peers and takes members out of rooms.
<1>Shrinks.
    ASSUME HubInv, NEW g \in Procs, NEW x \in Goroutine, gr' = [gr EXCEPT ![g] = x],
           LocalOK(x, remoteId, peerHash, active, closed),
           rooms' \in [Rooms -> SUBSET Ids], \A r \in Rooms : rooms'[r] \subseteq rooms[r],
           peers' \in [Ids -> Links \cup {NoLink}],
           pendingHello' \in [Links -> Envelope \cup {NoEnv}],
           UNCHANGED <<linkVars, sess, peerHash, once, active, joined, closed, outbox, panicked>>
    PROVE  HubInv'
  <2> USE <1>Shrinks
  <2>1. Grow BY ZenonT(60) DEF Grow, linkVars
  <2>2. gr' \in [Procs -> Goroutine] /\ GrInv'
    BY ZenonT(30), <2>1, GrStep DEF HubInv, TypeOK, linkVars
  <2>3. RoomInv' BY ZenonT(60), <1>RoomShrink DEF HubInv
  <2>4. UNCHANGED <<remoteId, peerHash, active, joined, outbox>> BY ZenonT(60) DEF linkVars
  <2>5. PeerInv' BY ZenonT(60), <2>4, <1>PeerFrame DEF HubInv
  <2>6. OutInv' BY ZenonT(60), <2>4, <1>OutFrame DEF HubInv
  <2>7. TypeOK' BY ZenonT(60), <2>2 DEF HubInv, TypeOK, linkVars
  <2> QED BY ZenonT(60), <2>2, <2>3, <2>5, <2>6, <2>7 DEF HubInv

\* The critical section of register.
<1>RegisterLockOK.
    ASSUME HubInv, NEW g \in Procs, RegisterLock(g)
    PROVE  HubInv'
  <2> USE <1>RegisterLockOK
  <2> DEFINE r == gr[g]
             l == r.link
             old == Previous(l)
             y == [r EXCEPT !.todo = old, !.env = pendingHello[l]]
  <2>0. r \in Goroutine /\ LocalOK(r, remoteId, peerHash, active, closed) BY GrAt
  <2>1. l \in Links /\ peerHash[l] BY SMTT(60), ZenonT(60), <2>0 DEF RegisterLock, LocalOK, Owned
  <2>2. IdOf[l] \in Ids /\ pendingHello[l] \in Envelope \cup {NoEnv} /\ TypeOK
    BY SMTT(60), ZenonT(60), <2>1, HubAssumption DEF HubInv, TypeOK
  <2>3. old \subseteq Links BY <2>2 DEF Previous, TypeOK
  <2>4. /\ rooms' = Without(IdOf[l], UNION {joined[o] : o \in old})
        /\ peers' = [peers EXCEPT ![IdOf[l]] = l]
        /\ pendingHello' = [pendingHello EXCEPT ![l] = NoEnv]
        /\ gr' = [gr EXCEPT ![g] = Resume(y)]
        /\ UNCHANGED <<linkVars, sess, peerHash, once, active, joined, closed, outbox, panicked>>
    BY DEF RegisterLock
  <2>5. peers' \in [Ids -> Links \cup {NoLink}] BY SMTT(60), <2>1, <2>2, <2>4 DEF TypeOK
  <2>6. pendingHello' \in [Links -> Envelope \cup {NoEnv}] BY SMTT(60), <2>1, <2>2, <2>4 DEF TypeOK
  <2>7. rooms' \in [Rooms -> SUBSET Ids] /\ \A q \in Rooms : rooms'[q] \subseteq rooms[q]
    BY <2>2, <2>4, <1>WithoutOK
  <2>8. y \in Goroutine /\ Owned(y, peerHash)
    <3> HIDE DEF old, r
    <3> QED BY ZenonT(30), <2>0, <2>1, <2>2, <2>3 DEF Goroutine, Owned
  <2> HIDE DEF y
  <2>9. Resume(y) \in Goroutine /\ LocalOK(Resume(y), remoteId, peerHash, active, closed)
    BY <2>8, ResumeOK
  <2> QED BY ZenonT(30), <2>4, <2>5, <2>6, <2>7, <2>9, <1>Shrinks

\* session.close of one of the sessions to be closed.
<1>CloseSessionOK.
    ASSUME HubInv, NEW g \in Procs, NEW v \in Links, CloseSession(g, v)
    PROVE  HubInv'
  <2> USE <1>CloseSessionOK
  <2> DEFINE r == gr[g]
  <2>0. r \in Goroutine /\ LocalOK(r, remoteId, peerHash, active, closed) BY GrAt
  <2>1. r.pc = "close" /\ v \in r.todo BY DEF CloseSession
  <2>2. CASE closed[v]
    <3> DEFINE y == [r EXCEPT !.todo = @ \ {v}]
    <3>1. gr' = [gr EXCEPT ![g] = Resume(y)] BY <2>2 DEF CloseSession
    <3>2. TypeRest' /\ UNCHANGED <<remoteId, peerHash, active, joined, closed, rooms, outbox>>
      BY <2>2 DEF CloseSession, HubInv, TypeOK, TypeRest, hubVars
    <3> HIDE DEF r
    <3>3. y \in Goroutine /\ Owned(y, peerHash) BY <2>0 DEF Goroutine, Owned, LocalOK
    <3> HIDE DEF y
    <3> QED BY ZenonT(30), <3>1, <3>2, <3>3, ResumeOK, <1>Quiet
  <2>3. CASE ~closed[v]
    <3> DEFINE x == [r EXCEPT !.pc = "drop", !.cur = v, !.todo = @ \ {v}]
    <3>1. /\ closed' = [closed EXCEPT ![v] = TRUE]
          /\ status' = [status EXCEPT ![v] = IF @ = "active" THEN "closed" ELSE @]
          /\ gr' = [gr EXCEPT ![g] = x]
          /\ UNCHANGED <<remoteId, pktCb, idCb, plain, sess, peerHash, once, pendingHello,
                         active, joined, hubVars, outbox, panicked>>
      BY <2>3 DEF CloseSession
    <3>2. closed'[v] /\ Grow BY <3>1 DEF HubInv, TypeOK, Grow
    <3> HIDE DEF r
    <3>3. x \in Goroutine BY ZenonT(30), <2>0 DEF Goroutine, Labels
    <3>4. x.pc = "drop" /\ x.cur = v /\ x.link = r.link /\ x.env = r.env /\ x.reg = r.reg
          /\ x.ret = r.ret
      BY <2>0 DEF Goroutine
    <3> HIDE DEF x
    <3>5. LocalOK(x, remoteId', peerHash', active', closed')
      BY ZenonT(60), <2>0, <3>1, <3>2, <3>4 DEF LocalOK, Owned
    <3>6. gr' \in [Procs -> Goroutine] /\ GrInv'
      BY ZenonT(30), <3>1, <3>2, <3>3, <3>5, GrStep DEF HubInv, TypeOK
    <3>7. TypeOK' BY SMTT(60), <3>1, <3>6 DEF HubInv, TypeOK, hubVars
    <3>8. PeerInv' /\ RoomInv' BY SMTT(60), <3>1, Frame DEF HubInv, hubVars
    <3>9. OutInv' BY ZenonT(60), <3>1 DEF HubInv, OutInv
    <3> QED BY <3>6, <3>7, <3>8, <3>9 DEF HubInv
  <2> QED BY <2>2, <2>3

\* The critical section of dropPeerIf.
<1>DropPeerIfOK.
    ASSUME HubInv, NEW g \in Procs, DropPeerIf(g)
    PROVE  HubInv'
  <2> USE <1>DropPeerIfOK
  <2> DEFINE r == gr[g]
             v == r.cur
             y == [r EXCEPT !.cur = NoLink]
  <2>0. r \in Goroutine /\ LocalOK(r, remoteId, peerHash, active, closed) BY GrAt
  <2>1. v \in Links /\ IdOf[v] \in Ids /\ TypeOK
    BY <2>0, HubAssumption DEF DropPeerIf, LocalOK, HubInv
  <2>2. gr' = [gr EXCEPT ![g] = Resume(y)] /\ UNCHANGED <<linkVars, peerVars, outbox, panicked>>
    BY DEF DropPeerIf
  <2>3. \/ /\ peers' = [peers EXCEPT ![IdOf[v]] = NoLink]
           /\ rooms' = Without(IdOf[v], joined[v])
        \/ peers' = peers /\ rooms' = rooms
    BY DEF DropPeerIf, hubVars
  <2>4. rooms' \in [Rooms -> SUBSET Ids] /\ \A q \in Rooms : rooms'[q] \subseteq rooms[q]
    <3>1. /\ Without(IdOf[v], joined[v]) \in [Rooms -> SUBSET Ids]
          /\ \A q \in Rooms : Without(IdOf[v], joined[v])[q] \subseteq rooms[q]
      BY ZenonT(30), <2>1, <1>WithoutOK
    <3>2. rooms \in [Rooms -> SUBSET Ids] BY ZenonT(60), <2>1 DEF TypeOK
    <3> HIDE DEF v
    <3> QED BY ZenonT(30), <2>3, <3>1, <3>2
  <2>5. peers' \in [Ids -> Links \cup {NoLink}]
    <3>1. peers \in [Ids -> Links \cup {NoLink}] BY ZenonT(60), <2>1 DEF TypeOK
    <3> HIDE DEF v
    <3> QED BY SMTT(60), <2>1, <2>3, <3>1
  <2>6. y \in Goroutine /\ Owned(y, peerHash)
    <3> HIDE DEF r
    <3> QED BY SMTT(60), <2>0 DEF Goroutine, Owned, LocalOK
  <2> HIDE DEF y
  <2>7. Resume(y) \in Goroutine /\ LocalOK(Resume(y), remoteId, peerHash, active, closed)
    BY <2>6, ResumeOK
  <2>8. pendingHello' \in [Links -> Envelope \cup {NoEnv}]
    BY ZenonT(60), <2>1, <2>2 DEF TypeOK, peerVars
  <2> QED BY ZenonT(30), <2>2, <2>4, <2>5, <2>7, <2>8, <1>Shrinks DEF peerVars

\* register is through, and handles the HELLO that was buffered.
<1>EndRegisterOK.
    ASSUME HubInv, NEW g \in Procs, EndRegister(g)
    PROVE  HubInv'
  <2> USE <1>EndRegisterOK
  <2> DEFINE r == gr[g]
             y == [r EXCEPT !.reg = FALSE]
  <2>0. r \in Goroutine /\ LocalOK(r, remoteId, peerHash, active, closed) BY GrAt
  <2>1. r.pc = "endReg" /\ r.link \in Links BY <2>0 DEF EndRegister, LocalOK
  <2>2. TypeRest' /\ UNCHANGED <<remoteId, peerHash, active, joined, closed, rooms, outbox>>
    BY <2>1 DEF EndRegister, HubInv, TypeOK, TypeRest, linkVars, hubVars
  <2>3. \/ r.own # NoEnv /\ gr' = [gr EXCEPT ![g] = At(y, "recheck")]
        \/ gr' = [gr EXCEPT ![g] = At(y, r.ret)]
    BY ZenonT(30) DEF EndRegister
  <2> HIDE DEF r
  <2>4. /\ y \in Goroutine /\ Owned(y, peerHash)
        /\ y.own = r.own /\ y.ret = r.ret /\ y.link = r.link
    BY ZenonT(30), <2>0, <2>1 DEF Goroutine, Owned, LocalOK
  <2> HIDE DEF y
  <2>5. CASE r.own # NoEnv /\ gr' = [gr EXCEPT ![g] = At(y, "recheck")]
    <3>1. At(y, "recheck") \in Goroutine
          /\ LocalOK(At(y, "recheck"), remoteId, peerHash, active, closed)
      BY ZenonT(30), <2>1, <2>4, <2>5, Moves DEF Fit
    <3> QED BY ZenonT(30), <2>2, <2>5, <3>1, <1>Quiet
  <2>6. CASE gr' = [gr EXCEPT ![g] = At(y, r.ret)]
    BY ZenonT(30), <2>2, <2>4, <2>6, <1>ExitOK, <1>Quiet
  <2> QED BY <2>3, <2>5, <2>6

\* The goroutine is about to send a reply.
<1>ReplyOK.
    ASSUME NEW r \in Goroutine, NEW rid, NEW ph, NEW act, NEW cl, Owned(r, ph), r.link \in Links,
           NEW type \in {"JOINED", "PARTED", "ERROR"}, NEW room \in Rooms \cup {NoRoom, LongRoom}
    PROVE  Reply(r, type, room) \in Goroutine /\ LocalOK(Reply(r, type, room), rid, ph, act, cl)
  <2> USE <1>ReplyOK
  <2> DEFINE q == At(r, "reply")
             x == [q EXCEPT !.msg = type, !.room = room]
  <2>1. /\ q \in Goroutine /\ Owned(q, ph) /\ q.pc = "reply" /\ q.link = r.link
    BY GoTo DEF Labels
  <2>2. Reply(r, type, room) = x BY DEF Reply
  <2> HIDE DEF q
  <2>3. x \in Goroutine BY ZenonT(30), <2>1 DEF Goroutine
  <2>4. /\ x.pc = "reply" /\ x.msg = type /\ x.link = q.link /\ x.env = q.env
        /\ x.reg = q.reg /\ x.ret = q.ret
    BY <2>1 DEF Goroutine
  <2> HIDE DEF x
  <2> QED BY SMTT(60), <2>1, <2>2, <2>3, <2>4 DEF LocalOK, Owned

\* handlePeer gives the session up.
<1>GiveUpOK.
    ASSUME NEW r \in Goroutine, NEW rid, NEW ph, NEW act, NEW cl, Owned(r, ph), r.link \in Links
    PROVE  LET x == [At(r, "close") EXCEPT !.todo = {r.link}, !.env = NoEnv]
           IN  x \in Goroutine /\ LocalOK(x, rid, ph, act, cl)
  <2> USE <1>GiveUpOK
  <2> DEFINE q == At(r, "close")
             x == [q EXCEPT !.todo = {r.link}, !.env = NoEnv]
  <2>1. /\ q \in Goroutine /\ Owned(q, ph) /\ q.pc = "close" /\ q.link = r.link
    BY GoTo DEF Labels
  <2> HIDE DEF q
  <2>2. x \in Goroutine /\ x.pc = "close" /\ x.link = r.link /\ Owned(x, ph)
    BY ZenonT(30), <2>1 DEF Goroutine, Owned
  <2> SUFFICES x \in Goroutine /\ LocalOK(x, rid, ph, act, cl)
    BY DEF q
  <2> HIDE DEF x
  <2> QED BY <2>2 DEF LocalOK

\* handlePeer: the session is there or the handler panics; the type decides.
<1>HandlePeerOK.
    ASSUME HubInv, NEW g \in Procs, HandlePeer(g)
    PROVE  HubInv'
  <2> USE <1>HandlePeerOK
  <2> DEFINE r == gr[g]
             l == r.link
             e == r.env
             m == Message("ERROR", NoRoom, NoId, g)
             Goes(x) == gr' = [gr EXCEPT ![g] = x]
  <2>0. r \in Goroutine /\ LocalOK(r, remoteId, peerHash, active, closed) BY SMTT(60), GrAt
  <2>1. l \in Links /\ e # NoEnv /\ Owned(r, peerHash)
    BY <2>0 DEF HandlePeer, LocalOK, Owned
  <2>2. m \in OutMessage /\ m.type # "MSG" BY DEF Message, OutMessage
  <2>3. outbox' \in {outbox, [outbox EXCEPT ![l] = @ \cup {m}]} BY DEF HandlePeer
  <2>4. UNCHANGED <<linkVars, peerVars, hubVars, panicked>> BY DEF HandlePeer
  <2>5. \/ Goes([At(r, "close") EXCEPT !.todo = {l}, !.env = NoEnv])
        \/ Goes(At(r, "hello")) \/ Goes(Return(r)) \/ Goes(At(r, "part"))
        \/ active[l] /\ e.room \in Rooms /\ Goes(At(r, "join"))
        \/ active[l] /\ Goes(At(r, "rate"))
        \/ Goes(Reply(r, "ERROR", NoRoom))
    BY ZenonT(30) DEF HandlePeer, Greeted
  <2> HIDE DEF r, m
  <2>6. PICK x \in Goroutine : LocalOK(x, remoteId, peerHash, active, closed) /\ Goes(x)
    <3>1. CASE Goes([At(r, "close") EXCEPT !.todo = {l}, !.env = NoEnv])
      BY ZenonT(30), <2>0, <2>1, <3>1, <1>GiveUpOK
    <3>2. CASE Goes(Return(r)) BY ZenonT(30), <2>0, <2>1, <3>2, ReturnOK
    <3>3. CASE Goes(Reply(r, "ERROR", NoRoom)) BY ZenonT(30), <2>0, <2>1, <3>3, <1>ReplyOK
    <3>4. ASSUME NEW p \in {"hello", "part", "join", "rate"}, Goes(At(r, p)),
                 p \in {"join", "rate"} => active[l], p = "join" => e.room \in Rooms
          PROVE  At(r, p) \in Goroutine /\ LocalOK(At(r, p), remoteId, peerHash, active, closed)
      BY ZenonT(30), <2>0, <2>1, <3>4, Moves DEF Fit
    <3> QED BY <2>5, <3>1, <3>2, <3>3, <3>4
  <2> QED BY ZenonT(30), <2>1, <2>2, <2>3, <2>4, <2>6, <1>Sends

\* onHello.
<1>OnHelloOK.
    ASSUME HubInv, NEW g \in Procs, OnHello(g)
    PROVE  HubInv'
  <2> USE <1>OnHelloOK
  <2> DEFINE r == gr[g]
             l == r.link
             x == At(r, "welcome")
  <2>0. r \in Goroutine /\ LocalOK(r, remoteId, peerHash, active, closed) BY GrAt
  <2>1. l \in Links /\ peerHash[l] /\ r.env # NoEnv /\ Owned(r, peerHash)
    BY <2>0 DEF OnHello, LocalOK, Owned
  <2>2. /\ active' = [active EXCEPT ![l] = TRUE] /\ gr' = [gr EXCEPT ![g] = x]
        /\ UNCHANGED <<linkVars, sess, peerHash, once, pendingHello, joined, closed, hubVars,
                       outbox, panicked>>
    BY SMTT(60), ZenonT(60) DEF OnHello
  <2>3. Grow BY <2>1, <2>2 DEF Grow, HubInv, TypeOK, linkVars
  <2> HIDE DEF r
  <2>4. x \in Goroutine /\ LocalOK(x, remoteId', peerHash', active', closed')
    BY ZenonT(30), <2>0, <2>1, <2>2, Moves DEF Fit
  <2> HIDE DEF x
  <2>5. gr' \in [Procs -> Goroutine] /\ GrInv'
    BY ZenonT(30), <2>2, <2>3, <2>4, GrStep DEF HubInv, TypeOK
  <2>6. TypeOK' BY SMTT(60), ZenonT(60), <2>1, <2>2, <2>5 DEF HubInv, TypeOK, linkVars, hubVars
  <2>7. PeerInv'
    BY SMTT(60), ZenonT(60), <2>1, <2>2, <2>3 DEF HubInv, TypeOK, PeerInv, Grow, linkVars
  <2>8. RoomInv' BY SMTT(60), <2>2 DEF HubInv, RoomInv, hubVars
  <2>9. OutInv' BY <2>2, <2>3 DEF HubInv, OutInv, Grow
  <2> QED BY SMTT(60), ZenonT(60), <2>5, <2>6, <2>7, <2>8, <2>9 DEF HubInv

\* A WELCOME or another reply goes out, or its link is gone.
<1>SendOK.
    ASSUME HubInv, NEW g \in Procs, SendWelcome(g) \/ SendReply(g)
    PROVE  HubInv'
  <2> USE <1>SendOK
  <2> DEFINE r == gr[g]
             l == r.link
             Goes(x) == gr' = [gr EXCEPT ![g] = x]
  <2>0. r \in Goroutine /\ LocalOK(r, remoteId, peerHash, active, closed) BY GrAt
  <2>1. l \in Links /\ Owned(r, peerHash) BY <2>0 DEF SendWelcome, SendReply, LocalOK
  <2>2. UNCHANGED <<linkVars, peerVars, hubVars, panicked>> BY DEF SendWelcome, SendReply
  <2>3. PICK m \in OutMessage :
          m.type # "MSG" /\ outbox' \in {outbox, [outbox EXCEPT ![l] = @ \cup {m}]}
    <3>1. CASE SendWelcome(g)
      <4>1. Message("WELCOME", NoRoom, NoId, g) \in OutMessage
            /\ Message("WELCOME", NoRoom, NoId, g).type # "MSG"
        BY DEF Message, OutMessage
      <4> QED BY <3>1, <4>1 DEF SendWelcome
    <3>2. CASE SendReply(g)
      <4>1. r.msg \in {"none", "JOINED", "PARTED", "ERROR"}
            /\ r.room \in Rooms \cup {NoRoom, LongRoom} /\ r.msg # "none"
        BY SMTT(60), ZenonT(60), <2>0, <3>2 DEF Goroutine, LocalOK, SendReply
      <4>2. Message(r.msg, r.room, NoId, g) \in OutMessage
            /\ Message(r.msg, r.room, NoId, g).type # "MSG"
        BY ZenonT(60), <4>1 DEF Message, OutMessage
      <4> QED BY ZenonT(30), <3>2, <4>2 DEF SendReply
    <3> QED BY <3>1, <3>2
  <2>4. \/ Goes([At(r, "close") EXCEPT !.todo = {l}, !.env = NoEnv])
        \/ Goes(Return(r))
    BY DEF SendWelcome, SendReply
  <2> HIDE DEF r
  <2>5. PICK x \in Goroutine : LocalOK(x, remoteId, peerHash, active, closed) /\ Goes(x)
    BY ZenonT(30), <2>0, <2>1, <2>4, <1>GiveUpOK, ReturnOK
  <2> QED BY ZenonT(30), <2>1, <2>2, <2>3, <2>5, <1>Sends

\* Steps that change joined and rooms only.
<1>Members.
    ASSUME HubInv, NEW g \in Procs, NEW x \in Goroutine, gr' = [gr EXCEPT ![g] = x],
           LocalOK(x, remoteId, peerHash, active, closed), RoomInv',
           joined' \in [Links -> SUBSET Rooms], rooms' \in [Rooms -> SUBSET Ids],
           \A l \in Links : joined'[l] # {} => active[l],
           UNCHANGED <<linkVars, sess, peerHash, once, pendingHello, active, closed, peers,
                       outbox, panicked>>
    PROVE  HubInv'
  <2> USE <1>Members
  <2>1. Grow BY DEF Grow, linkVars
  <2>2. gr' \in [Procs -> Goroutine] /\ GrInv'
    BY ZenonT(30), <2>1, GrStep DEF HubInv, TypeOK, linkVars
  <2>3. PeerInv' /\ OutInv' BY SMTT(60) DEF HubInv, PeerInv, OutInv, linkVars
  <2>4. TypeOK' BY <2>2 DEF HubInv, TypeOK, linkVars
  <2> QED BY SMTT(60), ZenonT(60), <2>2, <2>3, <2>4 DEF HubInv

\* onJoin, under the limits of rooms.
<1>OnJoinOK.
    ASSUME HubInv, NEW g \in Procs, OnJoin(g)
    PROVE  HubInv'
  <2> USE <1>OnJoinOK
  <2> DEFINE r == gr[g]
             l == r.link
             room == r.env.room
             Goes(x) == gr' = [gr EXCEPT ![g] = x]
  <2>0. r \in Goroutine /\ LocalOK(r, remoteId, peerHash, active, closed) BY GrAt
  <2>1. l \in Links /\ active[l] /\ room \in Rooms /\ Owned(r, peerHash) /\ IdOf[l] \in Ids
    BY SMTT(60), ZenonT(60), <2>0, HubAssumption DEF OnJoin, LocalOK
  <2>2. UNCHANGED <<linkVars, sess, peerHash, once, pendingHello, active, closed, peers,
                    outbox, panicked>>
    BY DEF OnJoin
  <2>3. Goes(Reply(r, "ERROR", NoRoom)) \/ Goes(Reply(r, "JOINED", room)) BY ZenonT(30) DEF OnJoin
  <2>4. \/ /\ room \notin joined[l] /\ ~Full(l)
           /\ joined' = [joined EXCEPT ![l] = @ \cup {room}]
           /\ rooms' = [rooms EXCEPT ![room] = @ \cup {IdOf[l]}]
        \/ joined' = joined /\ rooms' = rooms
    BY SMTT(60), ZenonT(60) DEF OnJoin
  <2> HIDE DEF r, room
  <2>5. PICK x \in Goroutine : LocalOK(x, remoteId, peerHash, active, closed) /\ Goes(x)
    BY <2>0, <2>1, <2>3, <1>ReplyOK
  <2>6. TypeOK /\ RoomInv /\ PeerInv BY SMTT(60), ZenonT(60) DEF HubInv
  <2>7. \A m \in Links : joined'[m] # {} => active[m]
    BY SMTT(60), ZenonT(60), <2>1, <2>4, <2>6 DEF TypeOK, PeerInv
  <2>8. RoomInv' /\ joined' \in [Links -> SUBSET Rooms] /\ rooms' \in [Rooms -> SUBSET Ids]
    <3>1. CASE joined' = joined /\ rooms' = rooms BY <2>6, <3>1 DEF RoomInv, TypeOK
    <3> HIDE DEF l
    <3>2. CASE /\ room \notin joined[l] /\ ~Full(l)
               /\ joined' = [joined EXCEPT ![l] = @ \cup {room}]
               /\ rooms' = [rooms EXCEPT ![room] = @ \cup {IdOf[l]}]
      BY ZenonT(30), <2>1, <2>6, <3>2, JoinRoom
    <3> QED BY SMTT(60), ZenonT(60), <2>4, <3>1, <3>2
  <2> QED BY ZenonT(30), <2>2, <2>5, <2>7, <2>8, <1>Members

\* onPart.
<1>OnPartOK.
    ASSUME HubInv, NEW g \in Procs, OnPart(g)
    PROVE  HubInv'
  <2> USE <1>OnPartOK
  <2> DEFINE r == gr[g]
             l == r.link
             room == r.env.room
             Goes(x) == gr' = [gr EXCEPT ![g] = x]
  <2>0. r \in Goroutine /\ LocalOK(r, remoteId, peerHash, active, closed) BY GrAt
  <2>1. l \in Links /\ Owned(r, peerHash) /\ IdOf[l] \in Ids
    BY ZenonT(60), <2>0, HubAssumption DEF OnPart, LocalOK
  <2>2. UNCHANGED <<linkVars, sess, peerHash, once, pendingHello, active, closed, peers,
                    outbox, panicked>>
    BY DEF OnPart
  <2>3. TypeOK /\ RoomInv /\ PeerInv BY DEF HubInv
  <2>4. CASE room \notin joined[l]
    <3>1. Goes(Return(r)) /\ UNCHANGED <<joined, rooms>> BY SMTT(60), <2>4 DEF OnPart
    <3>2. TypeRest' BY <2>2, <2>3, <3>1 DEF TypeOK, TypeRest, linkVars
    <3> HIDE DEF r
    <3> QED BY ZenonT(30), <2>0, <2>1, <2>2, <3>1, <3>2, ReturnOK, <1>Quiet DEF linkVars
  <2>5. CASE room \in joined[l]
    <3>1. /\ joined' = [joined EXCEPT ![l] = @ \ {room}]
          /\ rooms' = Without(IdOf[l], {room})
          /\ Goes(Reply(r, "PARTED", room))
      BY ZenonT(60), <2>5 DEF OnPart
    <3>2. room \in Rooms BY SMTT(60), ZenonT(60), <2>1, <2>3, <2>5 DEF TypeOK
    <3> HIDE DEF r, room
    <3>3. Reply(r, "PARTED", room) \in Goroutine
          /\ LocalOK(Reply(r, "PARTED", room), remoteId, peerHash, active, closed)
      BY SMTT(60), ZenonT(60), <2>0, <2>1, <3>2, <1>ReplyOK
    <3>4. joined' \in [Links -> SUBSET Rooms] BY SMTT(60), ZenonT(60), <2>1, <2>3, <3>1 DEF TypeOK
    <3>5. rooms' \in [Rooms -> SUBSET Ids] BY SMTT(60), ZenonT(60), <2>3, <3>1, <1>WithoutOK
    <3>6. \A m \in Links : joined'[m] # {} => active[m]
      BY SMTT(60), ZenonT(60), <2>1, <2>3, <3>1 DEF TypeOK, PeerInv
    <3>7. RoomInv'
      <4>1. ASSUME NEW q \in Rooms, NEW k \in rooms'[q]
            PROVE  \E m \in Links : IdOf[m] = k /\ q \in joined'[m]
        <5>1. k \in rooms[q] /\ ~(q = room /\ k = IdOf[l])
          BY SMTT(60), ZenonT(60), <2>3, <3>1, <4>1 DEF Without, TypeOK
        <5>2. PICK m \in Links : IdOf[m] = k /\ q \in joined[m]
          BY SMTT(60), ZenonT(60), <2>3, <5>1 DEF RoomInv
        <5>3. q \in joined'[m] BY SMTT(60), ZenonT(60), <2>1, <2>3, <3>1, <5>1, <5>2 DEF TypeOK
        <5> QED BY SMTT(60), ZenonT(60), <5>2, <5>3
      <4> QED BY <4>1 DEF RoomInv
    <3> QED BY ZenonT(30), <2>2, <3>1, <3>3, <3>4, <3>5, <3>6, <3>7, <1>Members
  <2> QED BY SMTT(60), ZenonT(60), <2>4, <2>5

\* The check of the rate.
<1>AllowRateOK.
    ASSUME HubInv, NEW g \in Procs, AllowRate(g)
    PROVE  HubInv'
  <2> USE <1>AllowRateOK
  <2> DEFINE r == gr[g]
  <2>0. r \in Goroutine /\ LocalOK(r, remoteId, peerHash, active, closed) BY GrAt
  <2>1. /\ r.pc = "rate" /\ r.link \in Links /\ Owned(r, peerHash)
        /\ r.env # NoEnv /\ active[r.link]
    BY SMTT(60), ZenonT(60), <2>0 DEF AllowRate, LocalOK
  <2>2. TypeRest' /\ UNCHANGED <<remoteId, peerHash, active, joined, closed, rooms, outbox>>
    BY SMTT(60), ZenonT(60) DEF AllowRate, HubInv, TypeOK, TypeRest, linkVars, peerVars, hubVars
  <2>3. \/ gr' = [gr EXCEPT ![g] = Reply(r, "ERROR", NoRoom)]
        \/ gr' = [gr EXCEPT ![g] = At(r, "content")]
    BY DEF AllowRate
  <2> HIDE DEF r
  <2>4. At(r, "content") \in Goroutine
        /\ LocalOK(At(r, "content"), remoteId, peerHash, active, closed)
    BY ZenonT(30), <2>0, <2>1, Moves DEF Fit
  <2>5. Reply(r, "ERROR", NoRoom) \in Goroutine
        /\ LocalOK(Reply(r, "ERROR", NoRoom), remoteId, peerHash, active, closed)
    BY <2>0, <2>1, <1>ReplyOK
  <2> QED BY SMTT(60), ZenonT(60), <2>2, <2>3, <2>4, <2>5, <1>Quiet

\* onRoomContent collects the recipients.
<1>OnRoomContentOK.
    ASSUME HubInv, NEW g \in Procs, OnRoomContent(g)
    PROVE  HubInv'
  <2> USE <1>OnRoomContentOK
  <2> DEFINE r == gr[g]
             l == r.link
             room == r.env.room
             to == Recipients(l, room)
             x == [At(r, "forward") EXCEPT !.todo = to, !.room = room]
  <2>0. r \in Goroutine /\ LocalOK(r, remoteId, peerHash, active, closed) BY GrAt
  <2>1. l \in Links /\ Owned(r, peerHash) /\ active[l]
    BY <2>0 DEF OnRoomContent, LocalOK
  <2>2. TypeRest' /\ UNCHANGED <<remoteId, peerHash, active, joined, closed, rooms, outbox>>
    BY DEF OnRoomContent, HubInv, TypeOK, TypeRest, linkVars, peerVars, hubVars
  <2>3. \/ gr' = [gr EXCEPT ![g] = Reply(r, "ERROR", NoRoom)]
        \/ gr' = [gr EXCEPT ![g] = Return(r)]
        \/ room \in joined[l] /\ gr' = [gr EXCEPT ![g] = x]
    BY ZenonT(30) DEF OnRoomContent
  <2>4. to \subseteq Links /\ \A t \in to : active[t] /\ IdOf[t] # IdOf[l]
    BY DEF Recipients
  <2>5. CASE room \in joined[l] /\ gr' = [gr EXCEPT ![g] = x]
    <3>1. room \in Rooms BY SMTT(60), ZenonT(60), <2>1, <2>5 DEF HubInv, TypeOK
    <3> DEFINE q == At(r, "forward")
    <3> HIDE DEF r, to, room
    <3>2. q \in Goroutine /\ Owned(q, peerHash) /\ q.pc = "forward" /\ q.link = l
      BY SMTT(60), ZenonT(60), <2>0, <2>1, GoTo DEF Labels
    <3> HIDE DEF q, l
    <3>3. x = [q EXCEPT !.todo = to, !.room = room] BY DEF q
    <3>4. x \in Goroutine BY ZenonT(30), <2>4, <3>1, <3>2, <3>3 DEF Goroutine
    <3>5. /\ x.pc = "forward" /\ x.link = l /\ x.todo = to /\ x.env = q.env /\ x.reg = q.reg
          /\ x.ret = q.ret
      BY ZenonT(30), <3>2, <3>3 DEF Goroutine
    <3> HIDE DEF x
    <3>6. LocalOK(x, remoteId, peerHash, active, closed)
      BY <2>1, <2>4, <3>2, <3>5 DEF LocalOK, Owned
    <3> QED BY ZenonT(30), <2>2, <2>5, <3>4, <3>6, <1>Quiet
  <2>6. CASE \/ gr' = [gr EXCEPT ![g] = Reply(r, "ERROR", NoRoom)]
             \/ gr' = [gr EXCEPT ![g] = Return(r)]
    <3> HIDE DEF r
    <3> QED BY ZenonT(30), <2>0, <2>1, <2>2, <2>6, <1>ReplyOK, ReturnOK, <1>Quiet
  <2> QED BY SMTT(60), <2>3, <2>5, <2>6

\* The content goes out to one recipient.
<1>ForwardOK.
    ASSUME HubInv, NEW g \in Procs, NEW t \in Links, Forward(g, t)
    PROVE  HubInv'
  <2> USE <1>ForwardOK
  <2> DEFINE r == gr[g]
             l == r.link
             m == Message("MSG", r.room, IdOf[l], g)
             y == [r EXCEPT !.todo = @ \ {t}]
  <2>0. r \in Goroutine /\ LocalOK(r, remoteId, peerHash, active, closed) BY GrAt
  <2>1. /\ r.pc = "forward" /\ l \in Links /\ Owned(r, peerHash) /\ active[l]
        /\ active[t] /\ IdOf[t] # IdOf[l] /\ IdOf[l] \in Ids
    BY SMTT(60), ZenonT(60), <2>0, HubAssumption DEF Forward, LocalOK
  <2>2. m \in OutMessage /\ m.from = IdOf[l]
    BY ZenonT(60), <2>0, <2>1 DEF Message, OutMessage, Goroutine
  <2>3. outbox' \in {outbox, [outbox EXCEPT ![t] = @ \cup {m}]}
        /\ UNCHANGED <<linkVars, peerVars, hubVars, panicked>>
    BY DEF Forward
  <2>4. gr' = [gr EXCEPT ![g] = Return(r)] \/ gr' = [gr EXCEPT ![g] = y]
    BY ZenonT(30) DEF Forward
  <2>5. OutInv'
    <3>1. UNCHANGED active BY SMTT(60), ZenonT(60), <2>3 DEF peerVars
    <3> HIDE DEF m, l
    <3> QED BY ZenonT(30), <2>1, <2>2, <2>3, <3>1, OutRelay DEF HubInv
  <2> HIDE DEF r, m
  <2>6. y \in Goroutine /\ LocalOK(y, remoteId, peerHash, active, closed)
    <3>1. y \in Goroutine BY <2>0 DEF Goroutine
    <3>2. /\ y.pc = "forward" /\ y.link = r.link /\ y.todo \subseteq r.todo
          /\ y.env = r.env /\ y.reg = r.reg /\ y.ret = r.ret
      BY SMTT(60), ZenonT(60), <2>0, <2>1 DEF Goroutine
    <3> HIDE DEF y
    <3> QED BY SMTT(60), ZenonT(60), <2>0, <2>1, <3>1, <3>2 DEF LocalOK, Owned
  <2> HIDE DEF y
  <2>7. PICK x \in Goroutine : /\ LocalOK(x, remoteId, peerHash, active, closed)
                               /\ gr' = [gr EXCEPT ![g] = x]
    BY SMTT(60), ZenonT(60), <2>0, <2>1, <2>4, <2>6, ReturnOK
  <2>8. Grow BY ZenonT(60), <2>3 DEF Grow, linkVars, peerVars
  <2>9. gr' \in [Procs -> Goroutine] /\ GrInv'
    BY ZenonT(30), <2>3, <2>7, <2>8, GrStep DEF HubInv, TypeOK, linkVars, peerVars
  <2>10. outbox' \in [Links -> SUBSET OutMessage] BY ZenonT(30), <2>2, <2>3, OutType DEF HubInv
  <2>11. TypeOK' BY SMTT(60), <2>3, <2>9, <2>10 DEF HubInv, TypeOK, linkVars, peerVars, hubVars
  <2>12. PeerInv' /\ RoomInv' BY <2>3, Frame DEF HubInv, linkVars, peerVars, hubVars
  <2> QED BY SMTT(60), <2>5, <2>9, <2>11, <2>12 DEF HubInv

\* Hub.Close collects the sessions.
<1>HubCloseOK.
    ASSUME HubInv, HubClose
    PROVE  HubInv'
  <2> USE <1>HubCloseOK
  <2> DEFINE open == {peers[k] : k \in Ids} \ {NoLink}
             y == [Idle EXCEPT !.todo = open]
  <2>1. /\ gr' = [gr EXCEPT ![Closer] = Resume(y)] /\ Closer \in Procs
        /\ peers' = [k \in Ids |-> NoLink] /\ rooms' = [q \in Rooms |-> {}]
        /\ UNCHANGED <<linkVars, peerVars, outbox, panicked>>
    BY DEF HubClose, Procs
  <2>2. open \subseteq Links BY DEF HubInv, TypeOK
  <2> HIDE DEF open
  <2>3. y \in Goroutine /\ Owned(y, peerHash)
    BY ZenonT(30), <2>2 DEF Idle, Goroutine, Labels, Owned
  <2> HIDE DEF y
  <2>4. Resume(y) \in Goroutine /\ LocalOK(Resume(y), remoteId, peerHash, active, closed)
    BY SMTT(60), <2>3, ResumeOK
  <2>5. /\ rooms' \in [Rooms -> SUBSET Ids] /\ \A q \in Rooms : rooms'[q] \subseteq rooms[q]
        /\ peers' \in [Ids -> Links \cup {NoLink}]
    BY SMTT(60), <2>1
  <2>6. pendingHello' \in [Links -> Envelope \cup {NoEnv}]
    BY <2>1 DEF HubInv, TypeOK, peerVars
  <2> QED BY ZenonT(30), <2>1, <2>4, <2>5, <2>6, <1>Shrinks DEF peerVars

<1> SUFFICES ASSUME HubInv, [Next]_vars PROVE HubInv'
  BY SMTT(60)
<1>1. CASE UNCHANGED vars
  <2>1. panicked' \in BOOLEAN BY SMTT(60), <1>1 DEF vars, HubInv, TypeOK
  <2>2. UNCHANGED <<linkVars, peerVars, hubVars, gr, outbox>> BY SMTT(60), <1>1 DEF vars
  <2> QED BY ZenonT(60), <2>1, <2>2, <1>Still
<1>2. CASE Next
  <2>1. ASSUME NEW l \in Links, LinkStep(l) PROVE HubInv'
    BY SMTT(60), <2>1, <1>LinkStepOK
  <2>2. ASSUME NEW g \in Packets, NEW t \in Traffic[g], PacketIn(g, t[1], t[2]) PROVE HubInv'
    BY ZenonT(60), <2>2, <1>PacketInOK
  <2>3. CASE HubClose BY SMTT(60), <2>3, <1>HubCloseOK
  <2>4. ASSUME NEW g \in Procs, Step(g) PROVE HubInv'
    <3>1. CASE NewSession(g) \/ AssignSess(g) \/ SetIdCb(g) \/ CheckId(g) \/ IdCallback(g)
      BY <3>1, <1>AcceptOK
    <3>2. CASE Recv(g) \/ Buffer(g) \/ Recheck(g) BY <3>2, <1>RecvOK
    <3>3. CASE Register(g) BY <3>3, <1>RegisterOK
    <3>4. CASE RegisterLock(g) BY SMTT(60), <3>4, <1>RegisterLockOK
    <3>5. CASE DropPeerIf(g) BY <3>5, <1>DropPeerIfOK
    <3>6. CASE EndRegister(g) BY <3>6, <1>EndRegisterOK
    <3>7. CASE HandlePeer(g) BY <3>7, <1>HandlePeerOK
    <3>8. CASE OnHello(g) BY <3>8, <1>OnHelloOK
    <3>9. CASE SendWelcome(g) \/ SendReply(g) BY SMTT(60), ZenonT(60), <3>9, <1>SendOK
    <3>10. CASE OnJoin(g) BY <3>10, <1>OnJoinOK
    <3>11. CASE OnPart(g) BY <3>11, <1>OnPartOK
    <3>12. CASE AllowRate(g) BY <3>12, <1>AllowRateOK
    <3>13. CASE OnRoomContent(g) BY <3>13, <1>OnRoomContentOK
    <3>14. CASE Panic(g) BY <3>14, <1>Still DEF Panic
    <3>15. ASSUME NEW l \in Links, CloseSession(g, l) PROVE HubInv'
      BY <3>15, <1>CloseSessionOK
    <3>16. ASSUME NEW l \in Links, Forward(g, l) PROVE HubInv'
      BY <3>16, <1>ForwardOK
    <3> QED BY ZenonT(60), <2>4, <3>1, <3>2, <3>3, <3>4, <3>5, <3>6, <3>7, <3>8, <3>9, <3>10, <3>11,
               <3>12, <3>13, <3>14, <3>15, <3>16 DEF Step
  <2> QED BY SMTT(60), <1>2, <2>1, <2>2, <2>3, <2>4 DEF Next
<1> QED BY <1>1, <1>2

-----------------------------------------------------------------------------
(* The results. *)

\* HubInv is an invariant: the chain identified, registered, greeted, joined is
\* never broken by any interleaving of packet handlers, registrations and closes.
THEOREM HubInvariant == Spec => []HubInv
<1>1. Init => HubInv BY InitOK
<1>2. HubInv /\ [Next]_vars => HubInv' BY NextOK
<1> QED BY <1>1, <1>2, PTL DEF Spec

\* The hub's maps and goroutines keep their types; no nil peer is ever closed.
THEOREM TypeCorrect == Spec => []TypeOK
<1>1. HubInv => TypeOK BY SMTT(60) DEF HubInv
<1> QED BY <1>1, HubInvariant, PTL

\* Hub.rooms lists only keys that a session proved, greeted with and joined with.
THEOREM MembersAuthenticated == Spec => []AuthenticatedMembers
<1>1. HubInv => AuthenticatedMembers
  BY SMTT(60) DEF HubInv, RoomInv, PeerInv, AuthenticatedMembers
<1> QED BY <1>1, HubInvariant, PTL

\* Relayed content carries a proven sender and goes to greeted peers only.
THEOREM RelayIsAuthentic == Spec => []RelayAuthentic
<1>1. HubInv => RelayAuthentic
  BY DEF HubInv, OutInv, PeerInv, RelayAuthentic
<1> QED BY <1>1, HubInvariant, PTL

-----------------------------------------------------------------------------
(* The steps of a goroutine behind the labels of acceptLink. *)

\* The goroutine has gone on from r to x inside a packet callback or a close: it
\* has not entered registerOnce.Do nor gone back into acceptLink, has ended only
\* where its callback ends, and serves itself or sessions found in Hub.peers.
Onward(r, x) ==
  /\ x.todo \subseteq r.todo \cup {r.link} \cup {peers[k] : k \in Ids}
  /\ x.reg => r.reg
  /\ x.pc = "endReg" => x.reg
  /\ x.pc \notin {"idle", "newSession", "setIdCb", "checkId", "idCallback", "regLock"}
  /\ \/ x.pc = "done" /\ x.link = NoLink /\ x.ret = "done" /\ ~x.reg /\ r.ret = "done"
     \/ /\ x.pc # "done" /\ x.link = r.link /\ x.ret = r.ret
        /\ x.pc = "assignSess" => r.ret = "assignSess"

\* y is r with other locals.
Same(r, y) ==
  /\ y.todo \subseteq r.todo \cup {r.link} \cup {peers[k] : k \in Ids}
  /\ y.reg => r.reg
  /\ y.link = r.link /\ y.ret = r.ret

Inner ==
  {"recv", "buffer", "recheck", "register", "close", "drop", "handle", "hello", "welcome",
   "join", "part", "rate", "content", "forward", "reply"}

\* A goroutine at another label has the same locals.
LEMMA AtFields ==
  ASSUME NEW y \in Goroutine, NEW p, p # "done"
  PROVE  /\ At(y, p).pc = p /\ At(y, p).link = y.link /\ At(y, p).reg = y.reg
         /\ At(y, p).ret = y.ret /\ At(y, p).todo = y.todo
BY ZenonT(60) DEF At, Goroutine

\* A label inside a callback, with the locals of the goroutine.
LEMMA OnwardFields ==
  ASSUME NEW r, NEW y, Same(r, y), NEW x, x.pc \in Inner \cup {"assignSess"},
         x.link = y.link, x.reg = y.reg, x.ret = y.ret, x.todo = y.todo,
         x.pc = "assignSess" => y.ret = "assignSess"
  PROVE  Onward(r, x)
<1>1. /\ x.pc \notin {"idle", "newSession", "setIdCb", "checkId", "idCallback", "regLock"}
      /\ x.pc # "done" /\ x.pc # "endReg"
  BY SMTT(60) DEF Inner
<1> QED BY ZenonT(60), <1>1 DEF Same, Onward

\* The end of a goroutine.
LEMMA OnwardDone ==
  ASSUME NEW r, NEW y, Same(r, y), y.ret = "done"
  PROVE  Onward(r, Done)
<1>1. Done.pc = "done" /\ Done.link = NoLink /\ Done.reg = FALSE /\ Done.todo = {}
      /\ Done.ret = "done"
  BY DEF Done, Idle
<1> QED BY <1>1 DEF Same, Onward

\* A goroutine that goes to such a label or returns goes on.
LEMMA OnwardAt ==
  ASSUME NEW r \in Goroutine, NEW y \in Goroutine, Same(r, y)
  PROVE  /\ \A p \in Inner : Onward(r, At(y, p))
         /\ Onward(r, At(y, y.ret))
<1>1. ASSUME NEW p \in Inner \cup {"assignSess"}, p = "assignSess" => y.ret = "assignSess"
      PROVE  Onward(r, At(y, p))
  <2> DEFINE x == At(y, p)
  <2>1. p # "done" BY SMTT(60) DEF Inner
  <2>2. x.pc = p /\ x.link = y.link /\ x.reg = y.reg /\ x.ret = y.ret /\ x.todo = y.todo
    BY <2>1, AtFields
  <2> HIDE DEF x
  <2>3. Onward(r, x) BY ZenonT(60), <1>1, <2>2, OnwardFields
  <2> QED BY <2>3 DEF x
<1>2. \A p \in Inner : Onward(r, At(y, p))
  <2>1. "assignSess" \notin Inner BY DEF Inner
  <2> QED BY <1>1, <2>1
<1>3. Onward(r, At(y, y.ret))
  <2>1. CASE y.ret = "done"
    <3>1. At(y, y.ret) = Done BY <2>1 DEF At
    <3> QED BY <2>1, <3>1, OnwardDone
  <2>2. CASE y.ret = "assignSess" BY <1>1, <2>2
  <2>3. y.ret \in {"done", "assignSess"} BY ZenonT(60) DEF Goroutine
  <2> QED BY <2>1, <2>2, <2>3
<1> QED BY <1>2, <1>3

\* Return and Resume go on.
LEMMA OnwardReturn ==
  ASSUME NEW r \in Goroutine, NEW y \in Goroutine, Same(r, y)
  PROVE  Onward(r, Return(y)) /\ Onward(r, Resume(y))
<1> DEFINE c == Clear(y)
<1>1. c \in Goroutine /\ c.link = y.link /\ c.reg = y.reg /\ c.ret = y.ret BY ClearOK
<1>2. c.todo = {} BY DEF Clear, Goroutine
<1>3. Return(y) = At(c, IF y.reg THEN "endReg" ELSE c.ret) BY SMTT(60), <1>1 DEF Return
<1> HIDE DEF c
<1>4. Same(r, c) BY <1>1, <1>2 DEF Same
<1>5. Onward(r, Return(y))
  <2>1. CASE y.reg
    <3> DEFINE x == At(c, "endReg")
    <3>1. Return(y) = x BY SMTT(60), ZenonT(60), <1>3, <2>1
    <3>2. x.pc = "endReg" /\ x.link = c.link /\ x.reg = c.reg /\ x.ret = c.ret /\ x.todo = c.todo
      BY <1>1, AtFields
    <3> HIDE DEF x
    <3>3. Onward(r, x) BY ZenonT(60), <1>1, <1>4, <2>1, <3>2 DEF Same, Onward
    <3> QED BY <3>1, <3>3
  <2>2. CASE ~y.reg
    <3>1. Return(y) = At(c, c.ret) BY <1>3, <2>2
    <3> QED BY <1>1, <1>4, <3>1, OnwardAt
  <2> QED BY <2>1, <2>2
<1>6. Onward(r, At(y, "close")) /\ Onward(r, At(y, "handle")) BY OnwardAt DEF Inner
<1> QED BY <1>5, <1>6 DEF Resume

\* The goroutine g goes on.
GoesOn(g) == \E x : gr' = [gr EXCEPT ![g] = x] /\ Onward(gr[g], x)

\* The labels of the packet callback, of register and of session.close.
Callback == (Inner \ {"register"}) \cup {"regLock", "endReg"}

\* The steps behind acceptLink and the entry to registerOnce.Do.
InnerStep(g) ==
  \/ Recv(g) \/ Buffer(g) \/ Recheck(g) \/ RegisterLock(g) \/ DropPeerIf(g) \/ EndRegister(g)
  \/ HandlePeer(g) \/ OnHello(g) \/ SendWelcome(g) \/ OnJoin(g) \/ OnPart(g)
  \/ AllowRate(g) \/ OnRoomContent(g) \/ SendReply(g)
  \/ \E l \in Links : CloseSession(g, l) \/ Forward(g, l)

\* The steps of acceptLink and of the identified callback, and the others.
LEMMA StepSplit ==
  ASSUME NEW g, Step(g)
  PROVE  \/ NewSession(g) \/ AssignSess(g) \/ SetIdCb(g) \/ CheckId(g) \/ IdCallback(g)
         \/ Register(g) \/ Panic(g) \/ InnerStep(g)
BY ZenonT(60) DEF Step, InnerStep

\* Every step inside a callback goes on.
LEMMA InnerOnward == \A g \in Procs : HubInv /\ InnerStep(g) => GoesOn(g)
\* The records that the handlers build by hand.
<1>OnwardBuilt.
    ASSUME NEW r \in Goroutine
    PROVE  /\ Same(r, r)
           /\ \A m, q : Onward(r, Reply(r, m, q))
           /\ Onward(r, [At(r, "close") EXCEPT !.todo = {r.link}, !.env = NoEnv])
           /\ Onward(r, Handle(r))
  <2> USE <1>OnwardBuilt
  <2>1. Same(r, r) BY DEF Same
  <2> DEFINE h == Handle(r)
             c == [At(r, "close") EXCEPT !.todo = {r.link}, !.env = NoEnv]
  <2>2. h.pc = "handle" /\ h.link = r.link /\ h.reg = r.reg /\ h.ret = r.ret /\ h.todo = r.todo
    BY DEF Handle, Goroutine
  <2>3. c.pc = "close" /\ c.link = r.link /\ c.reg = r.reg /\ c.ret = r.ret /\ c.todo = {r.link}
    BY DEF At, Goroutine
  <2>4. ASSUME NEW m, NEW q PROVE Onward(r, Reply(r, m, q))
    <3> DEFINE x == Reply(r, m, q)
    <3>1. x.pc = "reply" /\ x.link = r.link /\ x.reg = r.reg /\ x.ret = r.ret /\ x.todo = r.todo
      BY DEF Reply, At, Goroutine
    <3> HIDE DEF x
    <3>2. x.pc \in Inner \cup {"assignSess"} /\ x.pc # "assignSess" BY <3>1 DEF Inner
    <3>3. Onward(r, x) BY ZenonT(60), <2>1, <3>1, <3>2, OnwardFields
    <3> QED BY <3>3 DEF x
  <2> HIDE DEF h, c
  <2>5. Same(r, c) BY SMTT(60), <2>3 DEF Same
  <2>6. /\ h.pc \in Inner \cup {"assignSess"} /\ h.pc # "assignSess"
        /\ c.pc \in Inner \cup {"assignSess"} /\ c.pc # "assignSess"
    BY <2>2, <2>3 DEF Inner
  <2>7. Onward(r, h) BY ZenonT(60), <2>1, <2>2, <2>6, OnwardFields
  <2>8. Onward(r, c) BY ZenonT(60), <2>5, <2>6, OnwardFields
  <2> QED BY SMTT(60), <2>1, <2>4, <2>7, <2>8 DEF h, c

\* A goroutine goes on by the state it is given.
<1>GoesOnBy.
    ASSUME NEW g, NEW x, gr' = [gr EXCEPT ![g] = x], Onward(gr[g], x)
    PROVE  GoesOn(g)
  BY ZenonT(60), <1>GoesOnBy, Zenon DEF GoesOn

\* The handlers of envelopes go on.
<1>CallbackOnward.
    ASSUME HubInv, NEW g \in Procs,
           Recv(g) \/ Buffer(g) \/ Recheck(g) \/ OnHello(g) \/ SendWelcome(g) \/ SendReply(g)
           \/ AllowRate(g) \/ OnJoin(g) \/ OnPart(g) \/ HandlePeer(g)
    PROVE  GoesOn(g)
  <2> USE <1>CallbackOnward
  <2> DEFINE r == gr[g]
             c == [At(r, "close") EXCEPT !.todo = {r.link}, !.env = NoEnv]
  <2>0. r \in Goroutine BY GrAt
  <2>1. Same(r, r) BY ZenonT(60), <2>0, <1>OnwardBuilt
  <2>2. /\ Onward(r, At(r, r.ret)) /\ Onward(r, Return(r)) /\ Onward(r, Handle(r))
        /\ Onward(r, c) /\ \A m, q : Onward(r, Reply(r, m, q))
    BY ZenonT(60), <2>0, <2>1, OnwardAt, OnwardReturn, <1>OnwardBuilt
  <2>3. /\ Onward(r, At(r, "register")) /\ Onward(r, At(r, "buffer")) /\ Onward(r, At(r, "recheck"))
        /\ Onward(r, At(r, "hello")) /\ Onward(r, At(r, "welcome")) /\ Onward(r, At(r, "join"))
        /\ Onward(r, At(r, "part")) /\ Onward(r, At(r, "rate")) /\ Onward(r, At(r, "content"))
    <3>1. \A p \in Inner : Onward(r, At(r, p)) BY ZenonT(60), <2>0, <2>1, OnwardAt
    <3> QED BY <3>1 DEF Inner
  <2>4. ASSUME NEW x, gr' = [gr EXCEPT ![g] = x], Onward(r, x) PROVE GoesOn(g)
    BY ZenonT(60), <2>4, <1>GoesOnBy
  <2> HIDE DEF r, c
  <2>5. CASE Recv(g) \/ Buffer(g) \/ Recheck(g)
    BY ZenonT(60), <2>2, <2>3, <2>4, <2>5 DEF Recv, Buffer, Recheck, r
  <2>6. CASE OnHello(g) \/ SendWelcome(g) \/ SendReply(g)
    BY ZenonT(60), <2>2, <2>3, <2>4, <2>6 DEF OnHello, SendWelcome, SendReply, r, c
  <2>7. CASE AllowRate(g) \/ OnJoin(g) \/ OnPart(g)
    BY ZenonT(60), <2>2, <2>3, <2>4, <2>7 DEF AllowRate, OnJoin, OnPart, r
  <2>8. CASE HandlePeer(g)
    BY ZenonT(60), <2>2, <2>3, <2>4, <2>8 DEF HandlePeer, r, c
  <2> QED BY SMTT(60), <2>5, <2>6, <2>7, <2>8

\* register and the closing of sessions go on.
<1>CloseOnward.
    ASSUME HubInv, NEW g \in Procs,
           RegisterLock(g) \/ DropPeerIf(g) \/ EndRegister(g) \/ OnRoomContent(g)
           \/ \E v \in Links : CloseSession(g, v) \/ Forward(g, v)
    PROVE  GoesOn(g)
  <2> USE <1>CloseOnward
  <2> DEFINE r == gr[g]
  <2>0. r \in Goroutine /\ TypeOK BY GrAt DEF HubInv
  <2>1. Same(r, r) BY ZenonT(60), <2>0, <1>OnwardBuilt
  <2>2. /\ Onward(r, Return(r)) /\ \A m, q : Onward(r, Reply(r, m, q))
    BY ZenonT(60), <2>0, <2>1, OnwardReturn, <1>OnwardBuilt
  <2>3. CASE RegisterLock(g)
    <3> DEFINE old == Previous(r.link)
               y == [r EXCEPT !.todo = old, !.env = pendingHello[r.link]]
    <3>1. r.link \in Links BY SMTT(60), ZenonT(60), <2>3, GrAt DEF RegisterLock, LocalOK
    <3>2. old \subseteq Links /\ old \subseteq {peers[k] : k \in Ids}
      BY SMTT(60), ZenonT(60), <2>0, <3>1, HubAssumption DEF Previous, TypeOK
    <3>3. pendingHello[r.link] \in Envelope \cup {NoEnv} BY <2>0, <3>1 DEF TypeOK
    <3>4. gr' = [gr EXCEPT ![g] = Resume(y)] BY <2>3 DEF RegisterLock
    <3> HIDE DEF r, old
    <3>5. y \in Goroutine /\ y.todo = old /\ y.link = r.link /\ y.reg = r.reg /\ y.ret = r.ret
      BY ZenonT(60), <2>0, <3>2, <3>3 DEF Goroutine
    <3> HIDE DEF y
    <3>6. Same(r, y) BY ZenonT(60), <3>2, <3>5 DEF Same
    <3> QED BY ZenonT(60), <2>0, <3>4, <3>5, <3>6, OnwardReturn, <1>GoesOnBy DEF r
  <2>4. CASE DropPeerIf(g)
    <3> DEFINE y == [r EXCEPT !.cur = NoLink]
    <3>1. gr' = [gr EXCEPT ![g] = Resume(y)] BY <2>4 DEF DropPeerIf
    <3> HIDE DEF r
    <3>2. y \in Goroutine /\ y.todo = r.todo /\ y.link = r.link /\ y.reg = r.reg /\ y.ret = r.ret
      BY ZenonT(60), <2>0 DEF Goroutine
    <3> HIDE DEF y
    <3>3. Same(r, y) BY <3>2 DEF Same
    <3> QED BY ZenonT(60), <2>0, <3>1, <3>2, <3>3, OnwardReturn, <1>GoesOnBy DEF r
  <2>5. CASE EndRegister(g)
    <3> DEFINE y == [r EXCEPT !.reg = FALSE]
    <3>1. gr' = [gr EXCEPT ![g] = At(y, IF r.own # NoEnv THEN "recheck" ELSE r.ret)]
      BY <2>5 DEF EndRegister
    <3> HIDE DEF r
    <3>2. y \in Goroutine /\ y.todo = r.todo /\ y.link = r.link /\ y.reg = FALSE /\ y.ret = r.ret
      BY ZenonT(60), <2>0 DEF Goroutine
    <3> HIDE DEF y
    <3>3. Same(r, y) BY SMTT(60), <3>2 DEF Same
    <3>4. Onward(r, At(y, "recheck")) /\ Onward(r, At(y, r.ret))
      BY <2>0, <3>2, <3>3, OnwardAt DEF Inner
    <3>5. PICK p : gr' = [gr EXCEPT ![g] = At(y, p)] /\ p \in {"recheck", r.ret} BY ZenonT(60), <3>1
    <3> QED BY ZenonT(60), <3>4, <3>5, <1>GoesOnBy DEF r
  <2>6. CASE OnRoomContent(g)
    <3> DEFINE to == Recipients(r.link, r.env.room)
               f == [At(r, "forward") EXCEPT !.todo = to, !.room = r.env.room]
    <3>1. gr' = [gr EXCEPT ![g] = IF r.env.room \notin joined[r.link] THEN Reply(r, "ERROR", NoRoom)
                                  ELSE IF to = {} THEN Return(r) ELSE f]
      BY SMTT(60), ZenonT(60), <2>6 DEF OnRoomContent
    <3>2. to \subseteq {peers[k] : k \in Ids}
      BY HubAssumption DEF Recipients
    <3> HIDE DEF r, to
    <3>3. f.pc = "forward" /\ f.todo = to /\ f.link = r.link /\ f.reg = r.reg /\ f.ret = r.ret
      BY ZenonT(60), <2>0 DEF At, Goroutine
    <3> HIDE DEF f
    <3>4. Same(r, f) BY SMTT(60), <3>2, <3>3 DEF Same
    <3>5. f.pc \in Inner \cup {"assignSess"} /\ f.pc # "assignSess" BY <3>3 DEF Inner
    <3>6. Onward(r, f) BY ZenonT(60), <3>4, <3>5, OnwardFields
    <3>7. PICK x : gr' = [gr EXCEPT ![g] = x] /\ x \in {Reply(r, "ERROR", NoRoom), Return(r), f}
      BY ZenonT(60), <3>1
    <3> QED BY ZenonT(60), <2>2, <3>6, <3>7, <1>GoesOnBy DEF r
  <2>7. ASSUME NEW v \in Links, CloseSession(g, v) PROVE GoesOn(g)
    <3> DEFINE y == [r EXCEPT !.todo = @ \ {v}]
               z == [r EXCEPT !.pc = "drop", !.cur = v, !.todo = @ \ {v}]
    <3>1. gr' = [gr EXCEPT ![g] = Resume(y)] \/ gr' = [gr EXCEPT ![g] = z]
      BY ZenonT(60), <2>7 DEF CloseSession
    <3> HIDE DEF r
    <3>2. /\ y \in Goroutine /\ y.todo = r.todo \ {v} /\ y.link = r.link /\ y.reg = r.reg
          /\ y.ret = r.ret
      BY <2>0 DEF Goroutine
    <3>3. /\ z.pc = "drop" /\ z.todo = r.todo \ {v} /\ z.link = r.link /\ z.reg = r.reg
          /\ z.ret = r.ret
      BY SMTT(60), ZenonT(60), <2>0 DEF Goroutine
    <3> HIDE DEF y, z
    <3>4. Same(r, y) /\ Same(r, z) BY SMTT(60), <3>2, <3>3 DEF Same
    <3>5. z.pc \in Inner \cup {"assignSess"} /\ z.pc # "assignSess" BY <3>3 DEF Inner
    <3>6. Onward(r, z) BY ZenonT(60), <3>4, <3>5, OnwardFields
    <3>7. Onward(r, Resume(y)) BY <2>0, <3>2, <3>4, OnwardReturn
    <3> QED BY ZenonT(60), <3>1, <3>6, <3>7, <1>GoesOnBy DEF r
  <2>8. ASSUME NEW v \in Links, Forward(g, v) PROVE GoesOn(g)
    <3> DEFINE y == [r EXCEPT !.todo = @ \ {v}]
    <3>1. gr' = [gr EXCEPT ![g] = Return(r)] \/ gr' = [gr EXCEPT ![g] = y]
      BY ZenonT(60), <2>8 DEF Forward
    <3>0. r.pc = "forward" BY <2>8 DEF Forward
    <3> HIDE DEF r
    <3>2. /\ y.pc = "forward" /\ y.todo = r.todo \ {v} /\ y.link = r.link /\ y.reg = r.reg
          /\ y.ret = r.ret
      BY SMTT(60), <2>0, <3>0 DEF Goroutine
    <3> HIDE DEF y
    <3>3. Same(r, y) BY SMTT(60), <3>2 DEF Same
    <3>4. y.pc \in Inner \cup {"assignSess"} /\ y.pc # "assignSess" BY <3>2 DEF Inner
    <3>5. Onward(r, y) BY ZenonT(60), <3>3, <3>4, OnwardFields
    <3> QED BY ZenonT(60), <2>2, <3>1, <3>5, <1>GoesOnBy DEF r
  <2> QED BY ZenonT(60), <2>3, <2>4, <2>5, <2>6, <2>7, <2>8

<1> SUFFICES ASSUME HubInv, NEW g \in Procs, InnerStep(g) PROVE GoesOn(g)
  OBVIOUS
<1> QED BY ZenonT(60), <1>CallbackOnward, <1>CloseOnward DEF InnerStep

\* What the steps inside a callback leave alone.
LEMMA InnerFrame ==
  ASSUME NEW g, InnerStep(g)
  PROVE  /\ UNCHANGED <<remoteId, pktCb, idCb, plain, sess>>
         /\ gr[g].pc \in Callback
         /\ UNCHANGED status \/ \E l \in Links : CloseSession(g, l)
         /\ UNCHANGED once \/ EndRegister(g)
         /\ UNCHANGED peers \/ RegisterLock(g) \/ DropPeerIf(g)
         /\ UNCHANGED <<joined, rooms>> \/ OnJoin(g) \/ OnPart(g) \/ RegisterLock(g)
            \/ DropPeerIf(g)
<1>1. CASE Recv(g) \/ Buffer(g) \/ Recheck(g)
  BY <1>1 DEF Recv, Buffer, Recheck, linkVars, peerVars, hubVars, Callback, Inner
<1>2. CASE RegisterLock(g) BY <1>2 DEF RegisterLock, linkVars, Callback, Inner
<1>3. CASE DropPeerIf(g) BY <1>3 DEF DropPeerIf, linkVars, peerVars, Callback, Inner
<1>4. CASE EndRegister(g)
  BY SMTT(60), ZenonT(60), <1>4 DEF EndRegister, linkVars, hubVars, Callback, Inner
<1>5. CASE HandlePeer(g) \/ SendWelcome(g) \/ SendReply(g) \/ AllowRate(g) \/ OnRoomContent(g)
  BY <1>5 DEF HandlePeer, SendWelcome, SendReply, AllowRate, OnRoomContent, linkVars, peerVars,
              hubVars, Callback, Inner
<1>6. CASE OnHello(g) BY <1>6 DEF OnHello, linkVars, hubVars, Callback, Inner
<1>7. CASE OnJoin(g) \/ OnPart(g) BY ZenonT(60), <1>7 DEF OnJoin, OnPart, linkVars, Callback, Inner
<1>8. ASSUME NEW l \in Links, CloseSession(g, l)
      PROVE  /\ UNCHANGED <<remoteId, pktCb, idCb, plain, sess, once, peers, joined, rooms>>
             /\ gr[g].pc \in Callback
  BY <1>8 DEF CloseSession, hubVars, Callback, Inner
<1>9. ASSUME NEW l \in Links, Forward(g, l)
      PROVE  /\ UNCHANGED <<status, remoteId, pktCb, idCb, plain, sess, once, peers, joined, rooms>>
             /\ gr[g].pc \in Callback
  BY <1>9 DEF Forward, linkVars, peerVars, hubVars, Callback, Inner
<1> QED BY ZenonT(60), <1>1, <1>2, <1>3, <1>4, <1>5, <1>6, <1>7, <1>8, <1>9 DEF InnerStep
=============================================================================
