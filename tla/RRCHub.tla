------------------------------- MODULE RRCHub -------------------------------
(***************************************************************************)
(* The RRC hub (pkg/rrc/hub.go) on top of its sessions (pkg/rrc/session.go)*)
(* and of the inbound side of a Reticulum link (vendored link.go).         *)
(*                                                                         *)
(* Every packet of a link is handled by a goroutine of its own, so the     *)
(* handlers of one session run concurrently and in any order.  A step of   *)
(* this module is one critical section of Hub.mu, or one access to state   *)
(* that Hub.mu does not protect (peerHash, sess, the link, the session's   *)
(* closed flag).  A hubPeer is identified with its link: acceptLink makes  *)
(* exactly one hubPeer per link.                                           *)
(*                                                                         *)
(* The state after NewHub and Start is the initial state.  User callbacks  *)
(* (HubHandlers) read no state of the hub and are left out.                *)
(***************************************************************************)
EXTENDS Integers, FiniteSets

CONSTANTS
  Links,               \* the links that peers open to the hub
  Ids,                 \* identity hashes
  IdOf,                \* the identity that the peer behind a link proves
  Rooms,               \* normalised room names within MaxRoomNameBytes
  Packets,             \* packets received, all links together (a bound)
  Traffic,             \* for each packet, the links and envelopes it may be
  MaxRoomsPerSession,  \* HubLimits.MaxRoomsPerSession
  Flaky,               \* links that may go stale or be lost
  Welcomed,            \* links whose peers completed the HELLO exchange before
  MayClose,            \* whether Hub.Close is called
  NoLink, NoId, NoRoom, LongRoom, NoEnv

ASSUME HubAssumption ==
  /\ IdOf \in [Links -> Ids]
  /\ NoLink \notin Links
  /\ NoId \notin Ids
  /\ NoRoom \notin Rooms /\ LongRoom \notin Rooms
  /\ MaxRoomsPerSession \in Nat
  /\ Flaky \subseteq Links
  /\ Welcomed \subseteq Links
  /\ \A l, m \in Welcomed : IdOf[l] = IdOf[m] => l = m
  /\ MayClose \in BOOLEAN

\* What handlePeer tells apart in an Envelope: its type (MSG stands for MSG,
\* NOTICE and ACTION, PING for every type the hub does not act upon), a room
\* that is missing, too long or acceptable, a nickname that is absent (or empty
\* once sanitised), within MaxNickBytes or too long, and a body that
\* onRoomContent accepts or not.
Envelope ==
  [type: {"HELLO", "JOIN", "PART", "MSG", "PING"},
   room: Rooms \cup {NoRoom, LongRoom},
   nick: {"none", "ok", "long"},
   body: {"ok", "bad"}]

ASSUME TrafficAssumption ==
  /\ Traffic \in [Packets -> SUBSET (Links \X Envelope)]
  /\ NoEnv \notin Envelope

Accept(l) == <<"accept", l>>
Ident(l) == <<"ident", l>>
Closer == <<"close", NoLink>>

\* A packet's goroutine is neither of the link's own.
ASSUME ProcsAssumption == \A l \in Links : Accept(l) \notin Packets /\ Ident(l) \notin Packets

\* Goroutines: one per packet, one per link for the link-established callback
\* (acceptLink), one per link for the identification packet, and the caller
\* of Hub.Close.
Procs ==
  Packets \cup {Accept(l) : l \in Links} \cup {Ident(l) : l \in Links} \cup {Closer}

VARIABLES
  \* the link layer
  status,        \* Link.status
  remoteId,      \* Link.remoteIdentity is set
  pktCb,         \* Link.packetCallback is set
  idCb,          \* Link.identifiedCallback is set
  plain,         \* Link.pendingPlainData: the last packet seen without callback
  \* hubPeer and its session
  sess,          \* hubPeer.sess is assigned
  peerHash,      \* hubPeer.peerHash is assigned
  once,          \* the state of registerOnce
  pendingHello,  \* hubPeer.pendingHello
  active,        \* hubPeer.active
  joined,        \* hubPeer.rooms
  closed,        \* session.closed
  \* Hub
  peers,         \* Hub.peers
  rooms,         \* Hub.rooms; a room without members is not in the map
  \* control
  gr,            \* the goroutines
  outbox,        \* packets handed to each link
  panicked       \* a goroutine dereferenced a nil session

linkVars == <<status, remoteId, pktCb, idCb, plain>>
peerVars == <<sess, peerHash, once, pendingHello, active, joined, closed>>
hubVars == <<peers, rooms>>
vars == <<linkVars, peerVars, hubVars, gr, outbox, panicked>>

\* A goroutine: where it is, its link, the packet whose callback it runs
\* (own), the envelope handlePeer is at (env), whether it runs inside
\* registerOnce.Do, the sessions still to be served (todo) and the one being
\* served (cur), the reply to send, and where it goes after the callback.
Idle ==
  [pc |-> "idle", link |-> NoLink, own |-> NoEnv, env |-> NoEnv, reg |-> FALSE,
   todo |-> {}, cur |-> NoLink, msg |-> "none", room |-> NoRoom, ret |-> "done"]
Done == [Idle EXCEPT !.pc = "done"]

\* The goroutine r continues at label p; at "done" its locals are gone.
At(r, p) == IF p = "done" THEN Done ELSE [r EXCEPT !.pc = p]

\* The locals of handlePeer are gone.
Clear(r) == [r EXCEPT !.env = NoEnv, !.msg = "none", !.room = NoRoom, !.todo = {}]

\* handlePeer returns: inside registerOnce.Do to the end of register, else to
\* the end of the packet callback.
Return(r) == At(Clear(r), IF r.reg THEN "endReg" ELSE r.ret)

\* session.sendEnvelope succeeds.
CanSend(l) == sess[l] /\ ~closed[l] /\ status[l] = "active"

Message(type, room, from, g) == [type |-> type, room |-> room, from |-> from, by |-> g]

\* Links in Welcomed start where acceptLink, register and onHello have left
\* them, the others before they are established.
Init ==
  /\ status = [l \in Links |-> IF l \in Welcomed THEN "active" ELSE "pending"]
  /\ remoteId = [l \in Links |-> l \in Welcomed]
  /\ pktCb = [l \in Links |-> l \in Welcomed]
  /\ idCb = [l \in Links |-> l \in Welcomed]
  /\ plain = [l \in Links |-> NoEnv]
  /\ sess = [l \in Links |-> l \in Welcomed]
  /\ peerHash = [l \in Links |-> l \in Welcomed]
  /\ once = [l \in Links |-> IF l \in Welcomed THEN "done" ELSE "no"]
  /\ pendingHello = [l \in Links |-> NoEnv]
  /\ active = [l \in Links |-> l \in Welcomed]
  /\ joined = [l \in Links |-> {}]
  /\ closed = [l \in Links |-> FALSE]
  /\ peers = [k \in Ids |-> IF \E l \in Welcomed : IdOf[l] = k
                            THEN CHOOSE l \in Welcomed : IdOf[l] = k ELSE NoLink]
  /\ rooms = [r \in Rooms |-> {}]
  /\ gr = [g \in Procs |-> IF \E l \in Welcomed : g \in {Accept(l), Ident(l)}
                           THEN Done ELSE Idle]
  /\ outbox = [l \in Links |-> IF l \in Welcomed
                               THEN {Message("WELCOME", NoRoom, NoId, Accept(l))} ELSE {}]
  /\ panicked = FALSE

-----------------------------------------------------------------------------
(* The link layer. *)

\* handleRTTPacket: the link is active and the established callback, which
\* calls acceptLink, runs in a new goroutine.
LinkUp(l) ==
  /\ status[l] = "pending"
  /\ status' = [status EXCEPT ![l] = "active"]
  /\ gr' = [gr EXCEPT ![Accept(l)] = [Idle EXCEPT !.pc = "newSession", !.link = l]]
  /\ UNCHANGED <<remoteId, pktCb, idCb, plain, peerVars, hubVars, outbox, panicked>>

\* HandleIdentification stores the proven identity, then looks at the callback.
Identified(l) ==
  /\ status[l] \in {"active", "stale"}
  /\ gr[Ident(l)].pc = "idle"
  /\ status' = [status EXCEPT ![l] = "active"]
  /\ remoteId' = [remoteId EXCEPT ![l] = TRUE]
  /\ gr' = [gr EXCEPT ![Ident(l)] = [Idle EXCEPT !.pc = "idCallback", !.link = l]]
  /\ UNCHANGED <<pktCb, idCb, plain, peerVars, hubVars, outbox, panicked>>

\* A data packet arrives: a new goroutine runs the packet callback; without a
\* callback the link keeps the plaintext, over the one it kept before.
PacketIn(g, l, e) ==
  /\ status[l] \in {"active", "stale"}
  /\ gr[g].pc = "idle"
  /\ status' = [status EXCEPT ![l] = "active"]
  /\ \/ /\ pktCb[l]
        /\ gr' = [gr EXCEPT ![g] = [Idle EXCEPT !.pc = "recv", !.link = l, !.own = e]]
        /\ UNCHANGED plain
     \/ /\ ~pktCb[l]
        /\ plain' = [plain EXCEPT ![l] = e]
        /\ gr' = [gr EXCEPT ![g] = Done]
  /\ UNCHANGED <<remoteId, pktCb, idCb, peerVars, hubVars, outbox, panicked>>

\* The peer tears the link down or the watchdog gives it up.  The hub sets no
\* closed callback: nothing else happens.
LinkLost(l) ==
  /\ l \in Flaky
  /\ status[l] \in {"active", "stale"}
  /\ status' = [status EXCEPT ![l] = "closed"]
  /\ UNCHANGED <<remoteId, pktCb, idCb, plain, peerVars, hubVars, gr, outbox, panicked>>

\* The watchdog marks a silent link; the next inbound packet revives it.
LinkStale(l) ==
  /\ l \in Flaky
  /\ status[l] = "active"
  /\ status' = [status EXCEPT ![l] = "stale"]
  /\ UNCHANGED <<remoteId, pktCb, idCb, plain, peerVars, hubVars, gr, outbox, panicked>>

-----------------------------------------------------------------------------
(* acceptLink. *)

\* newSession sets the packet callback; SetPacketCallback runs it at once on
\* the plaintext the link kept, before newSession returns.
NewSession(g) ==
  LET r == gr[g] IN
  /\ r.pc = "newSession"
  /\ pktCb' = [pktCb EXCEPT ![r.link] = TRUE]
  /\ plain' = [plain EXCEPT ![r.link] = NoEnv]
  /\ gr' = [gr EXCEPT ![g] = IF plain[r.link] = NoEnv THEN At(r, "assignSess")
                             ELSE [r EXCEPT !.pc = "recv", !.own = plain[r.link],
                                            !.ret = "assignSess"]]
  /\ UNCHANGED <<status, remoteId, idCb, peerVars, hubVars, outbox, panicked>>

\* Mutant of AssignSess: the result goes to a variable that shadows p.sess.
AssignSessShadowed(g) ==
  LET r == gr[g] IN
  /\ r.pc = "assignSess"
  /\ gr' = [gr EXCEPT ![g] = [r EXCEPT !.pc = "setIdCb", !.own = NoEnv, !.ret = "done"]]
  /\ UNCHANGED <<linkVars, peerVars, hubVars, outbox, panicked>>

\* p.sess = newSession(...)
AssignSess(g) ==
  LET r == gr[g] IN
  /\ r.pc = "assignSess"
  /\ sess' = [sess EXCEPT ![r.link] = TRUE]
  /\ gr' = [gr EXCEPT ![g] = [r EXCEPT !.pc = "setIdCb", !.own = NoEnv, !.ret = "done"]]
  /\ UNCHANGED <<linkVars, peerHash, once, pendingHello, active, joined, closed,
                 hubVars, outbox, panicked>>

\* SetRemoteIdentifiedCallback
SetIdCb(g) ==
  LET r == gr[g] IN
  /\ r.pc = "setIdCb"
  /\ idCb' = [idCb EXCEPT ![r.link] = TRUE]
  /\ gr' = [gr EXCEPT ![g] = At(r, "checkId")]
  /\ UNCHANGED <<status, remoteId, pktCb, plain, peerVars, hubVars, outbox, panicked>>

\* Mutant of CheckId: acceptLink trusts the callback and does not look again.
CheckIdSkipped(g) ==
  /\ gr[g].pc = "checkId"
  /\ gr' = [gr EXCEPT ![g] = Done]
  /\ UNCHANGED <<linkVars, peerVars, hubVars, outbox, panicked>>

\* acceptLink looks once more for an identity that came before the callback.
CheckId(g) ==
  LET r == gr[g] IN
  /\ r.pc = "checkId"
  /\ gr' = [gr EXCEPT ![g] = At(r, IF remoteId[r.link] THEN "register" ELSE "done")]
  /\ UNCHANGED <<linkVars, peerVars, hubVars, outbox, panicked>>

\* The link's identification handler calls the identified callback, if set.
IdCallback(g) ==
  LET r == gr[g] IN
  /\ r.pc = "idCallback"
  /\ gr' = [gr EXCEPT ![g] = At(r, IF idCb[r.link] THEN "register" ELSE "done")]
  /\ UNCHANGED <<linkVars, peerVars, hubVars, outbox, panicked>>

-----------------------------------------------------------------------------
(* The packet callback: session.handleInbound and acceptLink's onMsg. *)

\* The callback calls handlePeer on its packet.
Handle(r) == [r EXCEPT !.pc = "handle", !.env = r.own, !.own = NoEnv]

\* A ping is answered by the session itself.  Then onMsg looks at peerHash and
\* at the link's identity, neither of them under Hub.mu.
Recv(g) ==
  LET r == gr[g]
      l == r.link
  IN
  /\ r.pc = "recv"
  /\ outbox' = IF r.own.type = "PING" /\ ~closed[l] /\ status[l] = "active"
               THEN [outbox EXCEPT ![l] = @ \cup {Message("PONG", NoRoom, NoId, g)}]
               ELSE outbox
  /\ gr' = [gr EXCEPT ![g] =
       CASE peerHash[l] -> Handle(r)
         [] ~peerHash[l] /\ remoteId[l] -> At(r, "register")
         [] OTHER -> At(r, IF r.own.type = "HELLO" THEN "buffer" ELSE "recheck")]
  /\ UNCHANGED <<linkVars, peerVars, hubVars, panicked>>

\* The HELLO waits for the identification.
Buffer(g) ==
  LET r == gr[g] IN
  /\ r.pc = "buffer"
  /\ pendingHello' = [pendingHello EXCEPT ![r.link] = r.own]
  /\ gr' = [gr EXCEPT ![g] = At(r, r.ret)]
  /\ UNCHANGED <<linkVars, sess, peerHash, once, active, joined, closed, hubVars,
                 outbox, panicked>>

\* The second look at peerHash: still unset, the packet is dropped.
Recheck(g) ==
  LET r == gr[g] IN
  /\ r.pc = "recheck"
  /\ gr' = [gr EXCEPT ![g] = IF peerHash[r.link] THEN Handle(r) ELSE At(r, r.ret)]
  /\ UNCHANGED <<linkVars, peerVars, hubVars, outbox, panicked>>
-----------------------------------------------------------------------------
(* register, session.close and dropPeerIf. *)

\* Mutant of Without: the loop that deletes the key is missing.
WithoutForgotten(k, from) == rooms

\* Hub.rooms without the key k in the given rooms.
Without(k, from) == [r \in Rooms |-> IF r \in from THEN rooms[r] \ {k} ELSE rooms[r]]

\* A goroutine that closed its sessions goes on: in register with the pending
\* HELLO, else to the end.
Resume(r) ==
  IF r.todo # {} THEN At(r, "close")
  ELSE IF r.env # NoEnv THEN At(r, "handle") ELSE Return(r)

\* registerOnce.Do: the first caller enters and sets peerHash, before it asks
\* for Hub.mu; the others wait until it is done.
Register(g) ==
  LET r == gr[g]
      l == r.link
  IN
  /\ r.pc = "register"
  /\ \/ /\ once[l] = "no"
        /\ once' = [once EXCEPT ![l] = "running"]
        /\ peerHash' = [peerHash EXCEPT ![l] = TRUE]
        /\ gr' = [gr EXCEPT ![g] = [r EXCEPT !.pc = "regLock", !.reg = TRUE]]
     \/ /\ once[l] = "done"
        /\ gr' = [gr EXCEPT ![g] = At(r, IF r.own # NoEnv THEN "recheck" ELSE r.ret)]
        /\ UNCHANGED <<once, peerHash>>
  /\ UNCHANGED <<linkVars, sess, pendingHello, active, joined, closed, hubVars,
                 outbox, panicked>>

\* The session of the same key that register replaces, if there is one.
Previous(l) == {peers[IdOf[l]]} \ {NoLink, l}

\* The critical section of register: the new session takes over the key, the
\* rooms of a previous session forget it, the pending HELLO is taken.
RegisterLock(g) ==
  LET r == gr[g]
      l == r.link
      k == IdOf[l]
      old == Previous(l)
  IN
  /\ r.pc = "regLock"
  /\ rooms' = Without(k, UNION {joined[o] : o \in old})
  /\ peers' = [peers EXCEPT ![k] = l]
  /\ pendingHello' = [pendingHello EXCEPT ![l] = NoEnv]
  /\ gr' = [gr EXCEPT ![g] = Resume([r EXCEPT !.todo = old, !.env = pendingHello[l]])]
  /\ UNCHANGED <<linkVars, sess, peerHash, once, active, joined, closed, outbox, panicked>>

\* session.close up to and including Teardown, which acts on active links only.
CloseSession(g, v) ==
  LET r == gr[g] IN
  /\ r.pc = "close"
  /\ v \in r.todo
  /\ sess[v]
  /\ \/ /\ closed[v]
        /\ gr' = [gr EXCEPT ![g] = Resume([r EXCEPT !.todo = @ \ {v}])]
        /\ UNCHANGED <<closed, status>>
     \/ /\ ~closed[v]
        /\ closed' = [closed EXCEPT ![v] = TRUE]
        /\ status' = [status EXCEPT ![v] = IF @ = "active" THEN "closed" ELSE @]
        /\ gr' = [gr EXCEPT ![g] = [r EXCEPT !.pc = "drop", !.cur = v, !.todo = @ \ {v}]]
  /\ UNCHANGED <<remoteId, pktCb, idCb, plain, sess, peerHash, once, pendingHello,
                 active, joined, hubVars, outbox, panicked>>

\* Mutant of Registered: a stale session is not told from its successor.
RegisteredByKey(v) == peerHash[v] /\ peers[IdOf[v]] # NoLink

\* Hub.peers holds this very session under its key.
Registered(v) == peerHash[v] /\ peers[IdOf[v]] = v

\* dropPeerIf, the session's close callback: only the session that Hub.peers
\* holds for its key is dropped, with its rooms.
DropPeerIf(g) ==
  LET r == gr[g]
      v == r.cur
      k == IdOf[v]
  IN
  /\ r.pc = "drop"
  /\ IF Registered(v)
     THEN /\ peers' = [peers EXCEPT ![k] = NoLink]
          /\ rooms' = Without(k, joined[v])
     ELSE UNCHANGED hubVars
  /\ gr' = [gr EXCEPT ![g] = Resume([r EXCEPT !.cur = NoLink])]
  /\ UNCHANGED <<linkVars, peerVars, outbox, panicked>>

\* Mutant of EndRegister: the once is not released.
EndRegisterStuck(g) ==
  LET r == gr[g] IN
  /\ r.pc = "endReg"
  /\ gr' = [gr EXCEPT ![g] = At([r EXCEPT !.reg = FALSE],
                                IF r.own # NoEnv THEN "recheck" ELSE r.ret)]
  /\ UNCHANGED <<linkVars, peerVars, hubVars, outbox, panicked>>

\* registerOnce.Do returns; a packet goroutine goes on with its own packet.
EndRegister(g) ==
  LET r == gr[g] IN
  /\ r.pc = "endReg"
  /\ once' = [once EXCEPT ![r.link] = "done"]
  /\ gr' = [gr EXCEPT ![g] = At([r EXCEPT !.reg = FALSE],
                                IF r.own # NoEnv THEN "recheck" ELSE r.ret)]
  /\ UNCHANGED <<linkVars, sess, peerHash, pendingHello, active, joined, closed,
                 hubVars, outbox, panicked>>

-----------------------------------------------------------------------------
(* handlePeer and the handlers. *)

\* The goroutine sends a packet to its own session, whatever comes of it.
Reply(r, type, room) == [At(r, "reply") EXCEPT !.msg = type, !.room = room]

\* Mutant of Greeted: the HELLO gate is missing.
GreetedAlways(l) == TRUE

\* Mutant of Greeted: a session counts as greeted once it has joined a room.
GreetedOnceJoined(l) == joined[l] # {}

\* The session's HELLO was seen.
Greeted(l) == active[l]

\* handlePeer: reads active under Hub.mu, applies the nickname, dispatches.  A
\* nickname that is too long is reported, and ends a session that is not active.
HandlePeer(g) ==
  LET r == gr[g]
      l == r.link
      e == r.env
  IN
  /\ r.pc = "handle"
  /\ e.nick = "none" \/ sess[l]
  /\ outbox' = IF e.nick = "long" /\ CanSend(l)
               THEN [outbox EXCEPT ![l] = @ \cup {Message("ERROR", NoRoom, NoId, g)}]
               ELSE outbox
  /\ gr' = [gr EXCEPT ![g] =
       CASE ~Greeted(l) /\ e.nick = "long" ->
              [At(r, "close") EXCEPT !.todo = {l}, !.env = NoEnv]
         [] ~Greeted(l) /\ e.nick # "long" ->
              IF e.type = "HELLO" THEN At(r, "hello") ELSE Return(r)
         [] Greeted(l) /\ e.type = "JOIN" ->
              IF e.room \in Rooms THEN At(r, "join") ELSE Reply(r, "ERROR", NoRoom)
         [] Greeted(l) /\ e.type = "PART" ->
              IF e.room = NoRoom THEN Return(r) ELSE At(r, "part")
         [] Greeted(l) /\ e.type = "MSG" ->
              IF e.room = NoRoom THEN Reply(r, "ERROR", NoRoom) ELSE At(r, "rate")
         [] OTHER -> Return(r)]
  /\ UNCHANGED <<linkVars, peerVars, hubVars, panicked>>

\* Mutant of OnHello: the answer is forgotten.
OnHelloSilent(g) ==
  LET r == gr[g] IN
  /\ r.pc = "hello"
  /\ active' = [active EXCEPT ![r.link] = TRUE]
  /\ gr' = [gr EXCEPT ![g] = Return(r)]
  /\ UNCHANGED <<linkVars, sess, peerHash, once, pendingHello, joined, closed, hubVars,
                 outbox, panicked>>

\* onHello: the session becomes active before the WELCOME is sent.
OnHello(g) ==
  LET r == gr[g] IN
  /\ r.pc = "hello"
  /\ active' = [active EXCEPT ![r.link] = TRUE]
  /\ gr' = [gr EXCEPT ![g] = At(r, "welcome")]
  /\ UNCHANGED <<linkVars, sess, peerHash, once, pendingHello, joined, closed, hubVars,
                 outbox, panicked>>

\* A WELCOME that cannot be sent ends the session.
SendWelcome(g) ==
  LET r == gr[g]
      l == r.link
  IN
  /\ r.pc = "welcome"
  /\ sess[l]
  /\ \/ /\ CanSend(l)
        /\ outbox' = [outbox EXCEPT ![l] = @ \cup {Message("WELCOME", NoRoom, NoId, g)}]
        /\ gr' = [gr EXCEPT ![g] = Return(r)]
     \/ /\ ~CanSend(l)
        /\ gr' = [gr EXCEPT ![g] = [At(r, "close") EXCEPT !.todo = {l}, !.env = NoEnv]]
        /\ UNCHANGED outbox
  /\ UNCHANGED <<linkVars, peerVars, hubVars, panicked>>

\* Mutant of Full: off by one.
FullLate(l) == Cardinality(joined[l]) > MaxRoomsPerSession

\* The session is in as many rooms as it may be.
Full(l) == Cardinality(joined[l]) >= MaxRoomsPerSession

\* onJoin: a room the session is not in yet counts against the limit.
OnJoin(g) ==
  LET r == gr[g]
      l == r.link
      room == r.env.room
      full == room \notin joined[l] /\ Full(l)
  IN
  /\ r.pc = "join"
  /\ IF room \notin joined[l] /\ ~full
     THEN /\ joined' = [joined EXCEPT ![l] = @ \cup {room}]
          /\ rooms' = [rooms EXCEPT ![room] = @ \cup {IdOf[l]}]
     ELSE UNCHANGED <<joined, rooms>>
  /\ gr' = [gr EXCEPT ![g] = IF full THEN Reply(r, "ERROR", NoRoom)
                                     ELSE Reply(r, "JOINED", room)]
  /\ UNCHANGED <<linkVars, sess, peerHash, once, pendingHello, active, closed, peers,
                 outbox, panicked>>

\* onPart: nothing is said about a room the session is not in.
OnPart(g) ==
  LET r == gr[g]
      l == r.link
      room == r.env.room
  IN
  /\ r.pc = "part"
  /\ IF room \in joined[l]
     THEN /\ joined' = [joined EXCEPT ![l] = @ \ {room}]
          /\ rooms' = Without(IdOf[l], {room})
          /\ gr' = [gr EXCEPT ![g] = Reply(r, "PARTED", room)]
     ELSE /\ gr' = [gr EXCEPT ![g] = Return(r)]
          /\ UNCHANGED <<joined, rooms>>
  /\ UNCHANGED <<linkVars, sess, peerHash, once, pendingHello, active, closed, peers,
                 outbox, panicked>>

\* allowRate and the body checks.  Which packets the limiter refuses is the
\* subject of module RRCRate; here it may refuse any.
AllowRate(g) ==
  LET r == gr[g] IN
  /\ r.pc = "rate"
  /\ \/ gr' = [gr EXCEPT ![g] = Reply(r, "ERROR", NoRoom)]
     \/ /\ r.env.body = "ok"
        /\ gr' = [gr EXCEPT ![g] = At(r, "content")]
  /\ UNCHANGED <<linkVars, peerVars, hubVars, outbox, panicked>>

\* Mutant of Recipients: the sender's own key is not skipped.
RecipientsAll(l, room) ==
  {t \in Links : IdOf[t] \in rooms[room] /\ peers[IdOf[t]] = t /\ active[t]}

\* The active sessions registered under the other keys of the room.
Recipients(l, room) ==
  {t \in Links : /\ IdOf[t] # IdOf[l]
                 /\ IdOf[t] \in rooms[room]
                 /\ peers[IdOf[t]] = t
                 /\ active[t]}

\* onRoomContent under Hub.mu: the sender must be in the room.
OnRoomContent(g) ==
  LET r == gr[g]
      l == r.link
      room == r.env.room
      to == Recipients(l, room)
  IN
  /\ r.pc = "content"
  /\ sess[l]
  /\ gr' = [gr EXCEPT ![g] =
       IF room \notin joined[l] THEN Reply(r, "ERROR", NoRoom)
       ELSE IF to = {} THEN Return(r)
       ELSE [At(r, "forward") EXCEPT !.todo = to, !.room = room]]
  /\ UNCHANGED <<linkVars, peerVars, hubVars, outbox, panicked>>

\* One recipient after the other, without Hub.mu; a failed send is ignored, and
\* sendEnvelope, unlike sendType, fails on a nil session.  The
\* sender of the copy is the identity that the link proved.
Forward(g, t) ==
  LET r == gr[g] IN
  /\ r.pc = "forward"
  /\ t \in r.todo
  /\ outbox' = IF CanSend(t)
               THEN [outbox EXCEPT ![t] = @ \cup {Message("MSG", r.room, IdOf[r.link], g)}]
               ELSE outbox
  /\ gr' = [gr EXCEPT ![g] = IF r.todo = {t} THEN Return(r)
                             ELSE [r EXCEPT !.todo = @ \ {t}]]
  /\ UNCHANGED <<linkVars, peerVars, hubVars, panicked>>

\* sendType for JOINED, PARTED and ERROR.
SendReply(g) ==
  LET r == gr[g]
      l == r.link
  IN
  /\ r.pc = "reply"
  /\ sess[l]
  /\ outbox' = IF CanSend(l)
               THEN [outbox EXCEPT ![l] = @ \cup {Message(r.msg, r.room, NoId, g)}]
               ELSE outbox
  /\ gr' = [gr EXCEPT ![g] = Return(r)]
  /\ UNCHANGED <<linkVars, peerVars, hubVars, panicked>>

\* Hub.Close empties the maps, then closes the sessions they held.
HubClose ==
  /\ MayClose
  /\ gr[Closer].pc = "idle"
  /\ peers' = [k \in Ids |-> NoLink]
  /\ rooms' = [r \in Rooms |-> {}]
  /\ gr' = [gr EXCEPT ![Closer] = Resume([Idle EXCEPT !.todo = {peers[k] : k \in Ids} \ {NoLink}])]
  /\ UNCHANGED <<linkVars, peerVars, outbox, panicked>>

\* The sessions that a goroutine dereferences in its next step.
Derefs(r) ==
  CASE r.pc = "handle" -> IF r.env.nick = "none" THEN {} ELSE {r.link}
    [] r.pc \in {"welcome", "reply", "content"} -> {r.link}
    [] r.pc = "close" -> r.todo
    [] OTHER -> {}

\* A method call on a session that is still nil ends the process.
Panic(g) ==
  /\ \E l \in Derefs(gr[g]) : ~sess[l]
  /\ panicked' = TRUE
  /\ UNCHANGED <<linkVars, peerVars, hubVars, gr, outbox>>

-----------------------------------------------------------------------------

LinkStep(l) == LinkUp(l) \/ Identified(l) \/ LinkLost(l) \/ LinkStale(l)

Step(g) ==
  \/ NewSession(g) \/ AssignSess(g) \/ SetIdCb(g) \/ CheckId(g) \/ IdCallback(g)
  \/ Recv(g) \/ Buffer(g) \/ Recheck(g)
  \/ Register(g) \/ RegisterLock(g) \/ DropPeerIf(g) \/ EndRegister(g)
  \/ HandlePeer(g) \/ OnHello(g) \/ SendWelcome(g) \/ OnJoin(g) \/ OnPart(g)
  \/ AllowRate(g) \/ OnRoomContent(g) \/ SendReply(g) \/ Panic(g)
  \/ \E l \in Links : CloseSession(g, l) \/ Forward(g, l)

Next ==
  /\ ~panicked
  /\ \/ \E l \in Links : LinkStep(l)
     \/ \E g \in Packets : \E t \in Traffic[g] : PacketIn(g, t[1], t[2])
     \/ HubClose
     \/ \E g \in Procs : Step(g)

Spec == Init /\ [][Next]_vars

\* The Go scheduler runs every goroutine that can run.
FairSpec == Spec /\ \A g \in Procs : WF_vars(~panicked /\ Step(g))
-----------------------------------------------------------------------------
(* What is checked. *)

Labels ==
  {"idle", "done", "newSession", "assignSess", "setIdCb", "checkId", "idCallback",
   "recv", "buffer", "recheck", "register", "regLock", "close", "drop", "endReg",
   "handle", "hello", "welcome", "join", "part", "rate", "content", "forward", "reply"}

Goroutine ==
  [pc: Labels, link: Links \cup {NoLink}, own: Envelope \cup {NoEnv},
   env: Envelope \cup {NoEnv}, reg: BOOLEAN, todo: SUBSET Links,
   cur: Links \cup {NoLink}, msg: {"none", "JOINED", "PARTED", "ERROR"},
   room: Rooms \cup {NoRoom, LongRoom}, ret: {"done", "assignSess"}]

OutMessage ==
  [type: {"WELCOME", "JOINED", "PARTED", "ERROR", "PONG", "MSG"},
   room: Rooms \cup {NoRoom, LongRoom}, from: Ids \cup {NoId}, by: Procs]

\* The types of the fields of Hub, hubPeer, session and Link that the hub reads
\* and writes; in particular no nil entry of Hub.peers is ever closed.
TypeOK ==
  /\ status \in [Links -> {"pending", "active", "stale", "closed"}]
  /\ remoteId \in [Links -> BOOLEAN]
  /\ pktCb \in [Links -> BOOLEAN]
  /\ idCb \in [Links -> BOOLEAN]
  /\ plain \in [Links -> Envelope \cup {NoEnv}]
  /\ sess \in [Links -> BOOLEAN]
  /\ peerHash \in [Links -> BOOLEAN]
  /\ once \in [Links -> {"no", "running", "done"}]
  /\ pendingHello \in [Links -> Envelope \cup {NoEnv}]
  /\ active \in [Links -> BOOLEAN]
  /\ joined \in [Links -> SUBSET Rooms]
  /\ closed \in [Links -> BOOLEAN]
  /\ peers \in [Ids -> Links \cup {NoLink}]
  /\ rooms \in [Rooms -> SUBSET Ids]
  /\ gr \in [Procs -> Goroutine]
  /\ outbox \in [Links -> SUBSET OutMessage]
  /\ panicked \in BOOLEAN

\* Whoever Hub.rooms lists got there through a session that proved this very
\* identity, passed the HELLO gate of handlePeer, joined the room and has not
\* parted from it since (onJoin, onPart).
AuthenticatedMembers ==
  \A r \in Rooms : \A k \in rooms[r] :
    \E l \in Links : IdOf[l] = k /\ remoteId[l] /\ active[l] /\ r \in joined[l]

\* The goroutines of a session between the gate for HELLO and the WELCOME.
Greeting(l) == {g \in Procs : gr[g].link = l /\ gr[g].pc \in {"hello", "welcome"}}

\* Concurrent JOINs of one session never exceed MaxRoomsPerSession (onJoin
\* counts and inserts in one critical section).
RoomLimit == \A l \in Links : Cardinality(joined[l]) <= MaxRoomsPerSession

\* Relayed content carries the proven identity of an active sender, is never
\* echoed to the sender's identity, whatever link it is on, and never reaches a
\* session before its HELLO (onRoomContent).
RelayAuthentic ==
  \A t \in Links : \A m \in outbox[t] :
    m.type = "MSG" =>
      /\ active[t]
      /\ m.from # IdOf[t]
      /\ \E l \in Links : IdOf[l] = m.from /\ remoteId[l] /\ active[l]

\* A key leaves Hub.peers only when the session registered under it was closed,
\* or by Hub.Close: the late close of a replaced session leaves its successor
\* alone (dropPeerIf; "stale close removed replacement peer" in its test).
StaleCloseHarmless ==
  [][\A k \in Ids : peers[k] # NoLink /\ peers'[k] = NoLink =>
       closed[peers[k]] \/ gr'[Closer] # gr[Closer]]_vars

\* "Exactly one HELLO per session; ignore extras." (handlePeer), as far as the
\* unlock after the reading of active allows: a HELLO that has not passed the
\* gate when the session becomes active is never welcomed; only those that have
\* passed it still are.
LateHelloIgnored ==
  [][\A l \in Links : active[l] =>
       /\ Greeting(l)' \subseteq Greeting(l)
       /\ \A m \in outbox'[l] \ outbox[l] : m.type = "WELCOME" => m.by \in Greeting(l)]_vars

\* A handler meets a session that is still nil only while acceptLink is inside
\* newSession or about to assign hubPeer.sess: of a session that is in Hub.peers
\* or that a later packet finds, no method call can fail (acceptLink, register,
\* onRoomContent, Hub.Close).
NilOnlyWhileAccepting ==
  \A g \in Procs : \A l \in Derefs(gr[g]) :
    ~sess[l] => gr[Accept(l)].ret = "assignSess" \/ gr[Accept(l)].pc = "assignSess"

\* As long as no identity opens a second link and the hub is not closed, the
\* rooms a registered session believes to be in (hubPeer.rooms) are exactly
\* those that list its key (Hub.rooms).
RoomViewsAgree ==
  (\A l, m \in Links : IdOf[l] = IdOf[m] => l = m) /\ ~MayClose =>
    \A l \in Links : peers[IdOf[l]] = l =>
      \A r \in Rooms : r \in joined[l] <=> IdOf[l] \in rooms[r]

\* An identification that arrives while acceptLink is still installing its
\* callbacks is not lost: when both are through, the session has registered.
IdentificationNotLost ==
  \A l \in Links : gr[Accept(l)].pc = "done" /\ gr[Ident(l)].pc = "done" => once[l] # "no"

\* Every goroutine of the hub that starts ends (each runs once): no cycle of
\* waiting through registerOnce, the closing of a previous session and dropPeerIf.
GoroutinesFinish == <>[](panicked \/ \A g \in Procs : gr[g].pc \in {"idle", "done"})

\* A HELLO with an acceptable nickname ends in a WELCOME, unless the link or the
\* session is gone: the one that handlePeer is given, the one that arrives once
\* peerHash is set, and the one that acceptLink's handler had buffered when the
\* identity came and register had not begun.
HelloAnswered ==
  LET Good(e) == IF e = NoEnv THEN FALSE ELSE e.type = "HELLO" /\ e.nick # "long"
      Taken(l) == \E g \in Procs :
                    /\ gr[g].link = l
                    /\ \/ gr[g].pc = "handle" /\ Good(gr[g].env)
                       \/ gr[g].pc = "recv" /\ Good(gr[g].own) /\ peerHash[l]
      Held(l) == Good(pendingHello[l]) /\ remoteId[l] /\ once[l] = "no"
      Over(l) == closed[l] \/ status[l] # "active" \/ panicked
  IN \A l \in Links :
       (Taken(l) \/ Held(l)) ~> (Over(l) \/ \E m \in outbox[l] : m.type = "WELCOME")

-----------------------------------------------------------------------------
(* What comments say and the code does not do: TLC refutes each of these.    *)

\* "Exactly one HELLO per session; ignore extras." (handlePeer): a session is
\* welcomed at most once.
OneWelcome ==
  \A l \in Links : Cardinality({m \in outbox[l] : m.type = "WELCOME"}) <= 1

\* "Buffer HELLO until link identify completes." (acceptLink): once the session
\* has registered its identity no HELLO stays in the buffer.
NoHelloStranded ==
  \A l \in Links : once[l] = "done" => pendingHello[l] = NoEnv

\* "RoomMembers returns identity hashes currently in room.": for the session
\* that Hub.peers holds, Hub.rooms and hubPeer.rooms say the same.
RoomMembersExact ==
  \A l \in Links : peers[IdOf[l]] = l =>
    \A r \in Rooms : r \in joined[l] => IdOf[l] \in rooms[r]

\* "HasPeer reports whether peerHash is currently connected.": a peer whose link
\* is closed is eventually gone.
DeadPeersLeave ==
  \A l \in Links : status[l] = "closed" ~> peers[IdOf[l]] # l

\* "Start registers the link-established callback and begins accepting
\* sessions.": a peer that identifies and greets while its link is being accepted
\* is served, no method is called on a session that is still nil.
NoNilSession == ~panicked
=============================================================================
