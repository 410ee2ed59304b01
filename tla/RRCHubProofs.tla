---------------------------- MODULE RRCHubProofs ----------------------------
(***************************************************************************)
(* What the hub does for any number of links, identities, rooms and        *)
(* packets, beyond the invariant HubInv of RRCHubInvariant: what its steps *)
(* may never do, in which order acceptLink, the identification and the     *)
(* packets of a link may interleave, that register's critical section is   *)
(* entered once, when the two views of the rooms agree, and how many rooms *)
(* a session may be in.                                                    *)
(***************************************************************************)
EXTENDS RRCHubInvariant

\* A key leaves Hub.peers only with its own, closed session or by Hub.Close.
THEOREM StaleCloseIsHarmless == Spec => StaleCloseHarmless
<1> DEFINE A == \A k \in Ids : peers[k] # NoLink /\ peers'[k] = NoLink =>
                  closed[peers[k]] \/ gr'[Closer] # gr[Closer]
<1>1. HubInv /\ [Next]_vars => [A]_vars
  <2> SUFFICES ASSUME HubInv, Next, NEW k \in Ids, peers[k] # NoLink, peers'[k] = NoLink
               PROVE  closed[peers[k]] \/ gr'[Closer] # gr[Closer]
    OBVIOUS
  <2>1. CASE HubClose
    <3>1. Closer \in Procs /\ TypeOK BY DEF Procs, HubInv
    <3>2. gr'[Closer] = Resume([Idle EXCEPT !.todo = {peers[i] : i \in Ids} \ {NoLink}])
      BY <2>1, <3>1 DEF HubClose, TypeOK
    <3>3. {peers[i] : i \in Ids} \ {NoLink} # {} OBVIOUS
    <3>4. gr'[Closer].pc = "close" BY SMTT(60), <3>2, <3>3 DEF Resume, At, Idle
    <3> QED BY SMTT(60), <2>1, <3>4 DEF HubClose
  <2>2. ASSUME NEW g \in Procs, RegisterLock(g) PROVE FALSE
    <3> DEFINE l == gr[g].link
    <3>1. l \in Links BY <2>2, GrAt DEF RegisterLock, LocalOK
    <3>2. peers' = [peers EXCEPT ![IdOf[l]] = l] BY SMTT(60), <2>2 DEF RegisterLock
    <3> HIDE DEF l
    <3> QED BY SMTT(60), <3>1, <3>2, HubAssumption DEF HubInv, TypeOK
  <2>3. ASSUME NEW g \in Procs, DropPeerIf(g) PROVE closed[peers[k]]
    <3> DEFINE v == gr[g].cur
    <3>1. v \in Links /\ closed[v] BY SMTT(60), <2>3, GrAt DEF DropPeerIf, LocalOK
    <3>2. peers[IdOf[v]] = v /\ peers' = [peers EXCEPT ![IdOf[v]] = NoLink]
      BY <2>3 DEF DropPeerIf, Registered, hubVars
    <3> HIDE DEF v
    <3> QED BY SMTT(60), <3>1, <3>2 DEF HubInv, TypeOK
  <2>4. CASE UNCHANGED peers BY <2>4
  <2>5. ASSUME NEW l \in Links, LinkStep(l) PROVE UNCHANGED peers
    BY <2>5 DEF LinkStep, LinkUp, Identified, LinkLost, LinkStale, hubVars
  <2>6. ASSUME NEW g \in Packets, NEW t \in Traffic[g], PacketIn(g, t[1], t[2])
        PROVE  UNCHANGED peers
    BY <2>6 DEF PacketIn, hubVars
  <2>7. ASSUME NEW g \in Procs, Step(g)
        PROVE  RegisterLock(g) \/ DropPeerIf(g) \/ UNCHANGED peers
    BY ZenonT(30), <2>7 DEF Step, NewSession, AssignSess, SetIdCb, CheckId, IdCallback, Recv,
       Buffer, Recheck, Register, EndRegister, HandlePeer, OnHello, SendWelcome, OnJoin, OnPart,
       AllowRate, OnRoomContent, SendReply, Panic, CloseSession, Forward, hubVars
  <2> QED BY SMTT(60), <2>1, <2>2, <2>3, <2>4, <2>5, <2>6, <2>7 DEF Next
<1> QED BY <1>1, HubInvariant, PTL DEF Spec, StaleCloseHarmless

-----------------------------------------------------------------------------
(* A HELLO that comes late. *)

Greets(r) == r.pc \in {"hello", "welcome"}

Mute == \A l \in Links : \A m \in outbox'[l] \ outbox[l] : m.type # "WELCOME"

Late ==
  \A l \in Links : active[l] =>
    /\ Greeting(l)' \subseteq Greeting(l)
    /\ \A m \in outbox'[l] \ outbox[l] : m.type = "WELCOME" => m.by \in Greeting(l)

\* No HELLO that finds its session active at the gate of handlePeer is welcomed.
THEOREM LateHelloIsIgnored == Spec => LateHelloIgnored
\* No way out of a handler leads to the greeting.
<1>NoGreeting.
    ASSUME NEW r \in Goroutine
    PROVE  /\ ~Greets(Done) /\ ~Greets(Return(r)) /\ ~Greets(Resume(r))
           /\ \A p \in Labels \ {"hello", "welcome"} : ~Greets(At(r, p))
           /\ \A m, q : ~Greets(Reply(r, m, q))
  <2> USE <1>NoGreeting
  <2>1. ~Greets(Done) BY DEF Done, Idle, Greets
  <2>2. ASSUME NEW y \in Goroutine, NEW p \in Labels \ {"hello", "welcome"}
        PROVE  ~Greets(At(y, p))
    BY <2>1, <2>2 DEF At, Greets, Goroutine
  <2>3. ~Greets(Return(r))
    <3>1. Clear(r) \in Goroutine BY ClearOK
    <3>2. (IF r.reg THEN "endReg" ELSE r.ret) \in Labels \ {"hello", "welcome"}
      BY DEF Goroutine, Labels
    <3> QED BY <2>2, <3>1, <3>2 DEF Return
  <2>4. ~Greets(Resume(r)) BY <2>2, <2>3 DEF Resume, Labels
  <2>5. ASSUME NEW m, NEW q PROVE ~Greets(Reply(r, m, q))
    BY DEF Reply, At, Greets, Goroutine
  <2> QED BY <2>1, <2>2, <2>3, <2>4, <2>5

\* A step of one goroutine that begins no greeting of an active session.
<1>GreetingShrinks.
    ASSUME TypeOK, NEW g \in Procs, NEW x, gr' = [gr EXCEPT ![g] = x],
           Greets(x) => x.link = gr[g].link /\ (Greets(gr[g]) \/ ~active[x.link])
    PROVE  \A l \in Links : active[l] => Greeting(l)' \subseteq Greeting(l)
  BY <1>GreetingShrinks DEF TypeOK, Greeting, Greets

\* Nothing goes out but a reply that is not a WELCOME.
<1>MuteStep.
    ASSUME TypeOK, NEW l \in Links, NEW m, m.type # "WELCOME",
           outbox' \in {outbox, [outbox EXCEPT ![l] = @ \cup {m}]}
    PROVE  Mute
  BY <1>MuteStep DEF TypeOK, Mute

\* A step of one goroutine that sends no WELCOME and begins no greeting.
<1>LateStep.
    ASSUME TypeOK, NEW g \in Procs, NEW x, gr' = [gr EXCEPT ![g] = x], ~Greets(x), Mute
    PROVE  Late
  <2> USE <1>LateStep
  <2>1. \A l \in Links : active[l] => Greeting(l)' \subseteq Greeting(l)
    BY ZenonT(30), <1>GreetingShrinks
  <2> QED BY <2>1 DEF Late, Mute

\* handlePeer lets a HELLO through to onHello only while active is not set.
<1>HandlePeerLate.
    ASSUME HubInv, NEW g \in Procs, HandlePeer(g)
    PROVE  Late
  <2> USE <1>HandlePeerLate
  <2> DEFINE r == gr[g]
             x == gr'[g]
             m == Message("ERROR", NoRoom, NoId, g)
  <2>1. r \in Goroutine /\ r.link \in Links /\ TypeOK
    BY SMTT(60), GrAt DEF HandlePeer, LocalOK, HubInv
  <2>2. gr' = [gr EXCEPT ![g] = x]
    BY <2>1 DEF HandlePeer, TypeOK
  <2>3. Mute
    <3>1. m.type # "WELCOME" BY DEF Message
    <3>2. outbox' \in {outbox, [outbox EXCEPT ![r.link] = @ \cup {m}]} BY DEF HandlePeer
    <3> HIDE DEF m, r
    <3> QED BY <2>1, <3>1, <3>2, <1>MuteStep
  <2>4. Greets(x) => x.link = r.link /\ ~active[r.link]
    <3>1. At(r, "hello").link = r.link BY DEF At
    <3>2. ~Greets([At(r, "close") EXCEPT !.todo = {r.link}, !.env = NoEnv])
      BY <2>1 DEF At, Greets, Goroutine
    <3>3. /\ ~Greets(Return(r)) /\ \A t, q : ~Greets(Reply(r, t, q))
          /\ ~Greets(At(r, "join")) /\ ~Greets(At(r, "part")) /\ ~Greets(At(r, "rate"))
      BY SMTT(60), ZenonT(60), <2>1, <1>NoGreeting DEF Labels
    <3>4. \/ x = At(r, "hello") /\ ~active[r.link]
          \/ x \in {[At(r, "close") EXCEPT !.todo = {r.link}, !.env = NoEnv], Return(r),
                    At(r, "join"), At(r, "part"), At(r, "rate"), Reply(r, "ERROR", NoRoom)}
      BY <2>1 DEF HandlePeer, Greeted, TypeOK
    <3> QED BY <3>1, <3>2, <3>3, <3>4
  <2> HIDE DEF x
  <2>5. \A l \in Links : active[l] => Greeting(l)' \subseteq Greeting(l)
    BY ZenonT(30), <2>1, <2>2, <2>4, <1>GreetingShrinks
  <2> QED BY <2>3, <2>5 DEF Late, Mute

\* The WELCOME is sent by a goroutine that has passed the gate.
<1>WelcomeLate.
    ASSUME HubInv, NEW g \in Procs, OnHello(g) \/ SendWelcome(g)
    PROVE  Late
  <2> USE <1>WelcomeLate
  <2> DEFINE r == gr[g]
             x == gr'[g]
             m == Message("WELCOME", NoRoom, NoId, g)
  <2>1. r \in Goroutine /\ r.link \in Links /\ TypeOK
    BY SMTT(60), GrAt DEF OnHello, SendWelcome, LocalOK, HubInv
  <2>2. gr' = [gr EXCEPT ![g] = x] /\ Greets(r)
    BY <2>1 DEF OnHello, SendWelcome, TypeOK, Greets
  <2>3. g \in Greeting(r.link) BY <2>2 DEF Greeting, Greets
  <2>4. m.by = g BY DEF Message
  <2>5. outbox' \in {outbox, [outbox EXCEPT ![r.link] = @ \cup {m}]}
    BY DEF OnHello, SendWelcome
  <2>6. Greets(x) => x.link = r.link
    <3>1. At(r, "welcome").link = r.link BY DEF At
    <3>2. ~Greets([At(r, "close") EXCEPT !.todo = {r.link}, !.env = NoEnv])
      BY <2>1 DEF At, Greets, Goroutine
    <3>3. ~Greets(Return(r)) BY <2>1, <1>NoGreeting
    <3>4. x \in {At(r, "welcome"), Return(r),
                 [At(r, "close") EXCEPT !.todo = {r.link}, !.env = NoEnv]}
      BY <2>1 DEF OnHello, SendWelcome, TypeOK
    <3> QED BY <3>1, <3>2, <3>3, <3>4
  <2>7. \A l \in Links : active[l] => Greeting(l)' \subseteq Greeting(l)
    <3> HIDE DEF x
    <3> QED BY ZenonT(30), <2>1, <2>2, <2>6, <1>GreetingShrinks
  <2> HIDE DEF m, x, r
  <2>8. \A l \in Links : \A n \in outbox'[l] \ outbox[l] : l = r.link /\ n = m
    BY <2>1, <2>5 DEF TypeOK
  <2> QED BY <2>3, <2>4, <2>7, <2>8 DEF Late

\* Every other step of a goroutine leaves the greetings alone.
<1>OtherLate.
    ASSUME HubInv, NEW g \in Procs, Step(g)
    PROVE  Late
  <2> USE <1>OtherLate
  <2> DEFINE r == gr[g]
             x == gr'[g]
  <2>0. r \in Goroutine /\ TypeOK BY GrAt DEF HubInv
  <2>1. CASE HandlePeer(g) BY <2>1, <1>HandlePeerLate
  <2>2. CASE OnHello(g) \/ SendWelcome(g) BY <2>2, <1>WelcomeLate
  <2>3. CASE Panic(g) BY SMTT(60), <2>3 DEF Panic, Late, Greeting
  <2>4. CASE NewSession(g) \/ AssignSess(g) \/ SetIdCb(g) \/ CheckId(g) \/ IdCallback(g)
    <3>1. gr' = [gr EXCEPT ![g] = x] /\ UNCHANGED outbox
      BY <2>0, <2>4 DEF NewSession, AssignSess, SetIdCb, CheckId, IdCallback, TypeOK
    <3>2. \A p \in {"assignSess", "checkId", "register", "done"} : ~Greets(At(r, p))
      BY <2>0, <1>NoGreeting DEF Labels
    <3> DEFINE y == [r EXCEPT !.pc = "recv", !.own = plain[r.link], !.ret = "assignSess"]
               z == [r EXCEPT !.pc = "setIdCb", !.own = NoEnv, !.ret = "done"]
    <3>3. ~Greets(y) /\ ~Greets(z) BY <2>0 DEF Greets, Goroutine
    <3>4. x \in {y, z} \/ \E p \in {"assignSess", "checkId", "register", "done"} : x = At(r, p)
      BY SMTT(60), <2>0, <2>4 DEF NewSession, AssignSess, SetIdCb, CheckId, IdCallback, TypeOK
    <3> HIDE DEF x, y, z
    <3>5. ~Greets(x) BY <3>2, <3>3, <3>4
    <3> QED BY ZenonT(30), <2>0, <3>1, <3>5, <1>LateStep DEF Mute
  <2>5. CASE Recv(g) \/ Buffer(g) \/ Recheck(g)
    <3>1. gr' = [gr EXCEPT ![g] = x]
      BY <2>0, <2>5 DEF Recv, Buffer, Recheck, TypeOK
    <3>2. ~Greets(At(r, r.ret)) /\ \A p \in {"register", "buffer", "recheck"} : ~Greets(At(r, p))
      BY <2>0, <1>NoGreeting DEF Labels, Goroutine
    <3>3. ~Greets(Handle(r)) BY <2>0 DEF Handle, Greets, Goroutine
    <3>4. ~Greets(x)
      <4>1. x \in {Handle(r), At(r, "register"), At(r, "buffer"), At(r, "recheck"), At(r, r.ret)}
        BY SMTT(60), <2>0, <2>5 DEF Recv, Buffer, Recheck, TypeOK
      <4> QED BY <3>2, <3>3, <4>1
    <3>5. Mute
      <4> DEFINE m == Message("PONG", NoRoom, NoId, g)
      <4>1. m.type # "WELCOME" BY DEF Message
      <4>2. r.link \in Links
        <5>1. r.pc \in {"recv", "buffer", "recheck"} BY <2>5 DEF Recv, Buffer, Recheck
        <5>2. r.link \in Links \/ r.pc \in {"idle", "done", "close", "drop"}
          BY ZenonT(60), GrAt DEF LocalOK
        <5> QED BY <5>1, <5>2
      <4>3. outbox' \in {outbox, [outbox EXCEPT ![r.link] = @ \cup {m}]}
        BY <2>5 DEF Recv, Buffer, Recheck
      <4> HIDE DEF m, r
      <4> QED BY <2>0, <4>1, <4>2, <4>3, <1>MuteStep
    <3> HIDE DEF x
    <3> QED BY ZenonT(30), <2>0, <3>1, <3>4, <3>5, <1>LateStep
  <2>6. CASE Register(g) \/ EndRegister(g)
    <3>1. gr' = [gr EXCEPT ![g] = x] /\ UNCHANGED outbox
      BY <2>0, <2>6 DEF Register, EndRegister, TypeOK
    <3> DEFINE e == [r EXCEPT !.reg = FALSE]
    <3>2. e \in Goroutine BY ZenonT(60), <2>0 DEF Goroutine
    <3>3. ASSUME NEW y \in Goroutine PROVE ~Greets(At(y, "recheck")) /\ ~Greets(At(y, r.ret))
      BY <2>0, <1>NoGreeting DEF Labels, Goroutine
    <3>4. ~Greets([r EXCEPT !.pc = "regLock", !.reg = TRUE])
      BY <2>0 DEF Greets, Goroutine
    <3>5. ~Greets(x)
      <4>1. x \in {[r EXCEPT !.pc = "regLock", !.reg = TRUE], At(r, "recheck"), At(r, r.ret),
                   At(e, "recheck"), At(e, r.ret)}
        BY SMTT(60), <2>0, <2>6 DEF Register, EndRegister, TypeOK
      <4> HIDE DEF e, r, x
      <4> QED BY <2>0, <3>2, <3>3, <3>4, <4>1
    <3> HIDE DEF x
    <3> QED BY ZenonT(30), <2>0, <3>1, <3>5, <1>LateStep DEF Mute
  <2>7. CASE RegisterLock(g) \/ DropPeerIf(g) \/ \E v \in Links : CloseSession(g, v)
    <3>1. CASE RegisterLock(g)
      <4> DEFINE y == [r EXCEPT !.todo = Previous(r.link), !.env = pendingHello[r.link]]
      <4>1. r.link \in Links BY SMTT(60), <3>1, GrAt DEF RegisterLock, LocalOK
      <4>2. Previous(r.link) \subseteq Links
        BY <2>0, <4>1, HubAssumption DEF Previous, TypeOK
      <4>3. pendingHello[r.link] \in Envelope \cup {NoEnv} BY <2>0, <4>1 DEF TypeOK
      <4>4. y \in Goroutine BY ZenonT(60), <2>0, <4>2, <4>3 DEF Goroutine
      <4>5. gr' = [gr EXCEPT ![g] = Resume(y)] /\ UNCHANGED outbox BY <3>1 DEF RegisterLock
      <4> HIDE DEF y
      <4>6. ~Greets(Resume(y)) BY SMTT(60), <4>4, <1>NoGreeting
      <4> QED BY ZenonT(30), <2>0, <4>5, <4>6, <1>LateStep DEF Mute
    <3>2. CASE DropPeerIf(g)
      <4> DEFINE y == [r EXCEPT !.cur = NoLink]
      <4>1. y \in Goroutine BY <2>0 DEF Goroutine
      <4>2. gr' = [gr EXCEPT ![g] = Resume(y)] /\ UNCHANGED outbox BY <3>2 DEF DropPeerIf
      <4> HIDE DEF y
      <4>3. ~Greets(Resume(y)) BY <4>1, <1>NoGreeting
      <4> QED BY ZenonT(30), <2>0, <4>2, <4>3, <1>LateStep DEF Mute
    <3>3. ASSUME NEW v \in Links, CloseSession(g, v) PROVE Late
      <4> DEFINE y == [r EXCEPT !.todo = @ \ {v}]
                 z == [r EXCEPT !.pc = "drop", !.cur = v, !.todo = @ \ {v}]
      <4>1. y \in Goroutine BY <2>0 DEF Goroutine
      <4>2. ~Greets(z) BY <2>0 DEF Greets, Goroutine
      <4>3. /\ gr' = [gr EXCEPT ![g] = Resume(y)] \/ gr' = [gr EXCEPT ![g] = z]
            /\ UNCHANGED outbox
        BY <3>3 DEF CloseSession
      <4> HIDE DEF y, z
      <4>4. ~Greets(Resume(y)) BY <4>1, <1>NoGreeting
      <4> QED BY ZenonT(30), <2>0, <4>2, <4>3, <4>4, <1>LateStep DEF Mute
    <3> QED BY <2>7, <3>1, <3>2, <3>3
  <2>8. CASE OnJoin(g) \/ OnPart(g) \/ AllowRate(g) \/ OnRoomContent(g)
    <3>1. gr' = [gr EXCEPT ![g] = x] /\ UNCHANGED outbox
      BY SMTT(60), <2>0, <2>8 DEF OnJoin, OnPart, AllowRate, OnRoomContent, TypeOK
    <3>2. /\ ~Greets(Return(r)) /\ ~Greets(At(r, "content"))
          /\ \A m, q : ~Greets(Reply(r, m, q))
      BY <2>0, <1>NoGreeting DEF Labels
    <3> DEFINE f == [At(r, "forward") EXCEPT !.todo = Recipients(r.link, r.env.room),
                                             !.room = r.env.room]
    <3>3. ~Greets(f) BY SMTT(60), <2>0 DEF At, Greets, Goroutine
    <3>4. CASE OnJoin(g) \/ OnPart(g) \/ AllowRate(g)
      <4>1. x \in {Return(r), At(r, "content"), Reply(r, "ERROR", NoRoom),
                   Reply(r, "JOINED", r.env.room), Reply(r, "PARTED", r.env.room)}
        <5>0. ASSUME NEW y, gr' = [gr EXCEPT ![g] = y] PROVE x = y
          <6>1. gr \in [Procs -> Goroutine] BY <2>0 DEF TypeOK
          <6> QED BY SMTT(60), <5>0, <6>1
        <5> HIDE DEF x
        <5>1. CASE OnJoin(g) BY ZenonT(60), <5>0, <5>1 DEF OnJoin
        <5>2. CASE OnPart(g) BY ZenonT(60), <5>0, <5>2 DEF OnPart
        <5>3. CASE AllowRate(g) BY ZenonT(60), <5>0, <5>3 DEF AllowRate
        <5> QED BY ZenonT(60), <3>4, <5>1, <5>2, <5>3
      <4>2. ~Greets(x) BY ZenonT(60), <3>2, <4>1
      <4> HIDE DEF x
      <4> QED BY ZenonT(30), <2>0, <3>1, <4>2, <1>LateStep DEF Mute
    <3>5. CASE OnRoomContent(g)
      <4>1. x \in {Return(r), Reply(r, "ERROR", NoRoom), f}
        BY <2>0, <3>5 DEF OnRoomContent, TypeOK
      <4> HIDE DEF f
      <4>2. ~Greets(x) BY <3>2, <3>3, <4>1
      <4> HIDE DEF x
      <4> QED BY ZenonT(30), <2>0, <3>1, <4>2, <1>LateStep DEF Mute
    <3> QED BY SMTT(60), ZenonT(60), <2>8, <3>4, <3>5
  <2>9. CASE SendReply(g)
    <3> DEFINE m == Message(r.msg, r.room, NoId, g)
    <3>1. gr' = [gr EXCEPT ![g] = Return(r)] BY <2>9 DEF SendReply
    <3>2. r.link \in Links
      <4>1. r.pc = "reply" BY <2>9 DEF SendReply
      <4>2. r.link \in Links \/ r.pc \in {"idle", "done", "close", "drop"}
        BY ZenonT(60), GrAt DEF LocalOK
      <4> QED BY <4>1, <4>2
    <3>3. m.type # "WELCOME" BY <2>0 DEF Message, Goroutine
    <3>4. outbox' \in {outbox, [outbox EXCEPT ![r.link] = @ \cup {m}]} BY <2>9 DEF SendReply
    <3>5. Mute
      <4> HIDE DEF m, r
      <4> QED BY <2>0, <3>2, <3>3, <3>4, <1>MuteStep
    <3>6. ~Greets(Return(r)) BY <2>0, <1>NoGreeting
    <3> HIDE DEF r
    <3> QED BY ZenonT(30), <2>0, <3>1, <3>5, <3>6, <1>LateStep
  <2>10. ASSUME NEW v \in Links, Forward(g, v) PROVE Late
    <3> DEFINE m == Message("MSG", r.room, IdOf[r.link], g)
               y == [r EXCEPT !.todo = @ \ {v}]
    <3>1. gr' = [gr EXCEPT ![g] = x] BY <2>0, <2>10 DEF Forward, TypeOK
    <3>2. x \in {Return(r), y} BY SMTT(60), <2>0, <2>10 DEF Forward, TypeOK
    <3>3. ~Greets(y) BY <2>0, <2>10 DEF Greets, Goroutine, Forward
    <3>4. ~Greets(x)
      <4> HIDE DEF y, x
      <4> QED BY <2>0, <3>2, <3>3, <1>NoGreeting
    <3>5. m.type # "WELCOME" BY DEF Message
    <3>6. outbox' \in {outbox, [outbox EXCEPT ![v] = @ \cup {m}]} BY <2>10 DEF Forward
    <3>7. Mute
      <4> HIDE DEF m
      <4> QED BY <2>0, <3>5, <3>6, <1>MuteStep
    <3> HIDE DEF x
    <3> QED BY ZenonT(30), <2>0, <3>1, <3>4, <3>7, <1>LateStep
  <2> QED BY ZenonT(30), <2>1, <2>2, <2>3, <2>4, <2>5, <2>6, <2>7, <2>8, <2>9, <2>10 DEF Step

<1>1. HubInv /\ [Next]_vars => [Late]_vars
  <2> SUFFICES ASSUME HubInv, Next PROVE Late
    OBVIOUS
  <2>0. TypeOK BY DEF HubInv
  <2>1. ASSUME NEW l \in Links, LinkStep(l) PROVE Late
    <3>1. CASE LinkUp(l)
      <4> DEFINE x == [Idle EXCEPT !.pc = "newSession", !.link = l]
      <4>1. ~Greets(x) BY DEF Idle, Greets
      <4>2. gr' = [gr EXCEPT ![Accept(l)] = x] /\ UNCHANGED outbox BY <3>1 DEF LinkUp
      <4>3. Accept(l) \in Procs BY DEF Procs
      <4> HIDE DEF x
      <4> QED BY ZenonT(30), <2>0, <4>1, <4>2, <4>3, <1>LateStep DEF Mute
    <3>2. CASE Identified(l)
      <4> DEFINE x == [Idle EXCEPT !.pc = "idCallback", !.link = l]
      <4>1. ~Greets(x) BY DEF Idle, Greets
      <4>2. gr' = [gr EXCEPT ![Ident(l)] = x] /\ UNCHANGED outbox BY <3>2 DEF Identified
      <4>3. Ident(l) \in Procs BY DEF Procs
      <4> HIDE DEF x
      <4> QED BY ZenonT(30), <2>0, <4>1, <4>2, <4>3, <1>LateStep DEF Mute
    <3>3. CASE LinkLost(l) \/ LinkStale(l)
      BY SMTT(60), <3>3 DEF LinkLost, LinkStale, Late, Greeting
    <3> QED BY <2>1, <3>1, <3>2, <3>3 DEF LinkStep
  <2>2. ASSUME NEW g \in Packets, NEW t \in Traffic[g], PacketIn(g, t[1], t[2]) PROVE Late
    <3> DEFINE x == [Idle EXCEPT !.pc = "recv", !.link = t[1], !.own = t[2]]
    <3>1. ~Greets(x) /\ ~Greets(Done) BY DEF Idle, Done, Greets
    <3>2. /\ gr' = [gr EXCEPT ![g] = x] \/ gr' = [gr EXCEPT ![g] = Done]
          /\ UNCHANGED outbox
      BY <2>2 DEF PacketIn
    <3>3. g \in Procs BY DEF Procs
    <3> HIDE DEF x
    <3> QED BY ZenonT(30), <2>0, <3>1, <3>2, <3>3, <1>LateStep DEF Mute
  <2>3. CASE HubClose
    <3> DEFINE y == [Idle EXCEPT !.todo = {peers[k] : k \in Ids} \ {NoLink}]
    <3>1. gr' = [gr EXCEPT ![Closer] = Resume(y)] /\ UNCHANGED outbox BY <2>3 DEF HubClose
    <3>2. {peers[k] : k \in Ids} \ {NoLink} \subseteq Links BY <2>0 DEF TypeOK
    <3>3. y \in Goroutine BY ZenonT(30), <3>2 DEF Idle, Goroutine, Labels
    <3>4. Closer \in Procs BY DEF Procs
    <3> HIDE DEF y
    <3>5. ~Greets(Resume(y)) BY <3>3, <1>NoGreeting
    <3> QED BY ZenonT(30), <2>0, <3>1, <3>4, <3>5, <1>LateStep DEF Mute
  <2> QED BY SMTT(60), <2>1, <2>2, <2>3, <1>OtherLate DEF Next
<1> QED BY <1>1, HubInvariant, PTL DEF Spec, LateHelloIgnored, Late

-----------------------------------------------------------------------------
(* acceptLink against the identification and the packets of its link. *)

\* acceptLink has not yet set the identified callback.
Before(l, q) ==
  \/ q[Accept(l)].pc \in {"idle", "newSession", "assignSess", "setIdCb"}
  \/ q[Accept(l)].ret = "assignSess"

\* acceptLink will still look for an identity, or has found one.
Looking(l, q) == Before(l, q) \/ q[Accept(l)].pc \in {"checkId", "register"}

\* The session is there, or acceptLink is about to assign it.
HasSession(l, ss, q) ==
  ss[l] \/ q[Accept(l)].ret = "assignSess" \/ q[Accept(l)].pc = "assignSess"

\* Which goroutine may be where, and for which link.
Place(g, r) ==
  /\ r.pc \in {"newSession", "assignSess", "setIdCb", "checkId"} \/ r.ret = "assignSess" =>
       r.link \in Links /\ g = Accept(r.link)
  /\ r.pc \in {"idle", "done", "newSession", "setIdCb", "checkId", "idCallback"} => r.ret = "done"
  /\ r.pc = "idCallback" => r.link \in Links /\ g = Ident(r.link)
  /\ \A l \in Links : g \in {Accept(l), Ident(l)} => r.link \in {l, NoLink}

PlaceInv == \A g \in Procs : Place(g, gr[g])

\* What a goroutine calls methods on has a session.
Served(r, ss, q) ==
  /\ r.link \in Links /\ r.pc \notin {"newSession", "idCallback"} => HasSession(r.link, ss, q)
  /\ r.pc \in {"setIdCb", "checkId"} => ss[r.link]
  /\ \A t \in r.todo : HasSession(t, ss, q)

SessInv ==
  /\ \A l \in Links : (idCb[l] => sess[l]) /\ (pktCb[l] => HasSession(l, sess, gr))
  /\ \A g \in Procs : Served(gr[g], sess, gr)
  /\ \A k \in Ids : peers[k] # NoLink => HasSession(peers[k], sess, gr)

\* No identity is missed: one that comes before the callback is seen by the
\* look that acceptLink takes afterwards.
IdentOK(l, rid, cb, on, q) ==
  /\ cb[l] \/ Before(l, q)
  /\ q[Ident(l)].pc # "idle" => rid[l]
  /\ q[Ident(l)].pc \notin {"idle", "idCallback", "register"} => on[l] # "no" \/ Looking(l, q)

IdentInv == \A l \in Links : IdentOK(l, remoteId, idCb, once, gr)

\* acceptLink is called once, when the link is established.
PendingInv == \A l \in Links : status[l] = "pending" => gr[Accept(l)].pc = "idle"

AcceptInv == PlaceInv /\ SessInv /\ IdentInv /\ PendingInv

\* The names of goroutines tell them apart.
LEMMA Keys ==
  /\ \A l \in Links : Accept(l) \in Procs /\ Ident(l) \in Procs
  /\ \A l, m \in Links : /\ Accept(l) # Ident(m)
                         /\ Accept(l) = Accept(m) => l = m
                         /\ Ident(l) = Ident(m) => l = m
  /\ \A l \in Links : Accept(l) # Closer /\ Ident(l) # Closer
BY DEF Accept, Ident, Closer, Procs

\* Sessions are there to stay.
SessGrow ==
  \A l \in Links : /\ sess[l] => sess'[l]
                   /\ HasSession(l, sess, gr) => HasSession(l, sess', gr')

IdGrow ==
  \A l \in Links : /\ remoteId[l] => remoteId'[l]
                   /\ idCb[l] => idCb'[l]
                   /\ once[l] # "no" => once'[l] # "no"

\* Hub.Close begins to close the sessions of Hub.peers.
LEMMA HubCloseOnward ==
  ASSUME HubInv, HubClose
  PROVE  \E x : gr' = [gr EXCEPT ![Closer] = x] /\ Onward(Idle, x)
<1> DEFINE T == {peers[k] : k \in Ids} \ {NoLink}
           y == [Idle EXCEPT !.todo = T]
<1>1. gr' = [gr EXCEPT ![Closer] = Resume(y)] BY DEF HubClose
<1>2. peers \in [Ids -> Links \cup {NoLink}] BY ZenonT(60) DEF HubInv, TypeOK
<1>3. T \subseteq Links BY <1>2
<1>4. y \in Goroutine /\ y.todo = T /\ y.link = NoLink /\ y.reg = FALSE /\ y.ret = "done"
  BY ZenonT(60), <1>3, DoneOK DEF Goroutine, Idle
<1>5. /\ Idle \in Goroutine /\ Idle.todo = {} /\ Idle.link = NoLink /\ Idle.reg = FALSE
      /\ Idle.ret = "done"
  BY DoneOK DEF Idle
<1>6. T \subseteq {peers[k] : k \in Ids} OBVIOUS
<1> HIDE DEF y, T
<1>7. Same(Idle, y) BY ZenonT(60), <1>4, <1>5, <1>6 DEF Same
<1>8. Onward(Idle, Resume(y)) BY SMTT(60), <1>4, <1>5, <1>7, OnwardReturn
<1> QED BY ZenonT(60), <1>1, <1>8

\* Links that are welcomed at the start are through, the others have not begun.
LEMMA InitAccept == Init => AcceptInv
<1> SUFFICES ASSUME Init PROVE AcceptInv OBVIOUS
<1>1. /\ gr = [g \in Procs |-> IF \E l \in Welcomed : g \in {Accept(l), Ident(l)}
                               THEN Done ELSE Idle]
      /\ status = [l \in Links |-> IF l \in Welcomed THEN "active" ELSE "pending"]
      /\ remoteId = [l \in Links |-> l \in Welcomed]
      /\ pktCb = [l \in Links |-> l \in Welcomed]
      /\ idCb = [l \in Links |-> l \in Welcomed]
      /\ sess = [l \in Links |-> l \in Welcomed]
      /\ once = [l \in Links |-> IF l \in Welcomed THEN "done" ELSE "no"]
      /\ peers = [k \in Ids |-> IF \E l \in Welcomed : IdOf[l] = k
                                THEN CHOOSE l \in Welcomed : IdOf[l] = k ELSE NoLink]
  BY DEF Init
<1>2. Idle.pc = "idle" /\ Idle.link = NoLink /\ Idle.ret = "done" /\ Idle.todo = {}
  BY DEF Idle
<1>3. Done.pc = "done" /\ Done.link = NoLink /\ Done.ret = "done" /\ Done.todo = {}
  BY DEF Done, Idle
<1>4. NoLink \notin Links /\ Welcomed \subseteq Links BY HubAssumption
<1>5. \A g \in Procs : gr[g] \in {Idle, Done} BY <1>1
<1>6. \A l \in Links :
        IF l \in Welcomed THEN /\ gr[Accept(l)] = Done /\ gr[Ident(l)] = Done
                               /\ remoteId[l] /\ idCb[l] /\ sess[l] /\ once[l] = "done"
                               /\ status[l] = "active"
        ELSE /\ gr[Accept(l)] = Idle /\ gr[Ident(l)] = Idle /\ ~pktCb[l] /\ ~idCb[l]
  <2>1. ASSUME NEW l \in Links, l \in Welcomed
        PROVE  gr[Accept(l)] = Done /\ gr[Ident(l)] = Done
    BY ZenonT(60), <1>1, <2>1, Keys
  <2>2. ASSUME NEW l \in Links, l \notin Welcomed
        PROVE  gr[Accept(l)] = Idle /\ gr[Ident(l)] = Idle
    BY ZenonT(60), <1>1, <1>4, <2>2, Keys
  <2>3. ASSUME NEW l \in Links, l \in Welcomed
        PROVE  remoteId[l] /\ idCb[l] /\ sess[l] /\ once[l] = "done" /\ status[l] = "active"
    BY ZenonT(60), <1>1, <2>3
  <2>4. ASSUME NEW l \in Links, l \notin Welcomed PROVE ~pktCb[l] /\ ~idCb[l]
    BY ZenonT(60), <1>1, <2>4
  <2> QED BY ZenonT(60), <2>1, <2>2, <2>3, <2>4
<1>7. PlaceInv
  <2>1. \A g \in Procs : /\ gr[g].pc \in {"idle", "done"} /\ gr[g].ret = "done"
                         /\ gr[g].link = NoLink /\ gr[g].todo = {}
    BY ZenonT(60), <1>2, <1>3, <1>5
  <2>2. \A g \in Procs : /\ gr[g].pc \notin {"newSession", "assignSess", "setIdCb", "checkId",
                                              "idCallback"}
                         /\ gr[g].ret # "assignSess"
    BY <2>1
  <2> QED BY ZenonT(60), <2>1, <2>2 DEF PlaceInv, Place
<1>8. SessInv
  <2>1. \A g \in Procs : Served(gr[g], sess, gr)
    <3>1. \A g \in Procs : /\ gr[g].pc \in {"idle", "done"} /\ gr[g].link = NoLink
                           /\ gr[g].todo = {}
      BY ZenonT(60), <1>2, <1>3, <1>5
    <3>2. \A g \in Procs : gr[g].pc \notin {"setIdCb", "checkId"} BY <3>1
    <3> QED BY ZenonT(60), <1>4, <3>1, <3>2 DEF Served
  <2>2. \A k \in Ids : peers[k] # NoLink => peers[k] \in Welcomed BY <1>1
  <2>3. \A l \in Links : sess[l] => HasSession(l, sess, gr) BY DEF HasSession
  <2> QED BY ZenonT(60), <1>4, <1>6, <2>1, <2>2, <2>3 DEF SessInv
<1>9. IdentInv
  <2>1. ASSUME NEW l \in Links PROVE IdentOK(l, remoteId, idCb, once, gr)
    <3>1. CASE l \in Welcomed BY SMTT(60), <1>6, <3>1 DEF IdentOK
    <3>2. CASE l \notin Welcomed
      <4>1. gr[Accept(l)].pc = "idle" /\ gr[Ident(l)].pc = "idle" BY <1>2, <1>6, <3>2
      <4> QED BY <4>1 DEF IdentOK, Before
    <3> QED BY SMTT(60), <3>1, <3>2
  <2> QED BY <2>1 DEF IdentInv
<1>10. PendingInv
  <2>1. "active" # "pending" OBVIOUS
  <2> QED BY ZenonT(60), <1>2, <1>6, <2>1 DEF PendingInv
<1> QED BY SMTT(60), <1>7, <1>8, <1>9, <1>10 DEF AcceptInv

\* Every step of the hub preserves AcceptInv.
LEMMA NextAccept == HubInv /\ HubInv' /\ AcceptInv /\ [Next]_vars => AcceptInv'
\* One goroutine moves to a place where it may be.
<1>PlaceStep.
    ASSUME TypeOK, PlaceInv, NEW g \in Procs, NEW x, gr' = [gr EXCEPT ![g] = x], Place(g, x)
    PROVE  PlaceInv'
  <2> USE <1>PlaceStep
  <2>1. gr \in [Procs -> Goroutine] BY ZenonT(60) DEF TypeOK
  <2>2. \A h \in Procs : gr'[h] = IF h = g THEN x ELSE gr[h] BY <2>1
  <2> QED BY ZenonT(60), <2>2 DEF PlaceInv

\* One goroutine moves to sessions that are there, and no session goes.
<1>SessStep.
    ASSUME HubInv, SessInv, SessGrow, NEW g \in Procs, NEW x, gr' = [gr EXCEPT ![g] = x],
           Served(x, sess', gr'),
           \A l \in Links : idCb'[l] => idCb[l] \/ sess'[l],
           \A l \in Links : pktCb'[l] => pktCb[l] \/ HasSession(l, sess', gr'),
           \A k \in Ids : peers'[k] \in {NoLink, peers[k], gr[g].link},
           gr[g].pc \notin {"newSession", "idCallback"} \/ UNCHANGED peers
    PROVE  SessInv'
  <2> USE <1>SessStep
  <2>1. gr \in [Procs -> Goroutine] /\ peers \in [Ids -> Links \cup {NoLink}]
    BY ZenonT(60) DEF HubInv, TypeOK
  <2>2. \A h \in Procs : gr'[h] = IF h = g THEN x ELSE gr[h] BY <2>1
  <2>3. ASSUME NEW h \in Procs PROVE Served(gr'[h], sess', gr')
    <3>1. CASE h = g BY <2>2, <3>1
    <3>2. CASE h # g
      <4>1. gr'[h] = gr[h] /\ gr[h] \in Goroutine BY SMTT(60), <2>1, <2>2, <3>2
      <4>2. gr[h].todo \subseteq Links BY <4>1 DEF Goroutine
      <4>3. Served(gr[h], sess, gr) BY DEF SessInv
      <4>4. gr[h].pc \in {"setIdCb", "checkId"} => gr[h].link \in Links
        BY ZenonT(60), GrAt DEF LocalOK
      <4> QED BY ZenonT(60), <4>1, <4>2, <4>3, <4>4 DEF Served, SessGrow
    <3> QED BY <3>1, <3>2
  <2>4. ASSUME NEW k \in Ids, peers'[k] # NoLink PROVE HasSession(peers'[k], sess', gr')
    <3>1. CASE peers'[k] = peers[k] BY ZenonT(60), <2>1, <2>4, <3>1 DEF SessInv, SessGrow
    <3>2. CASE peers'[k] # peers[k]
      <4>1. gr[g].link \in Links \cup {NoLink} BY ZenonT(60), <2>1 DEF Goroutine
      <4>2. /\ peers'[k] = gr[g].link /\ gr[g].link \in Links
            /\ gr[g].pc \notin {"newSession", "idCallback"}
        BY ZenonT(60), <2>4, <3>2, <4>1
      <4>3. Served(gr[g], sess, gr) BY DEF SessInv
      <4> QED BY ZenonT(60), <4>2, <4>3 DEF Served, SessGrow
    <3> QED BY <3>1, <3>2
  <2>5. \A l \in Links : (idCb'[l] => sess'[l]) /\ (pktCb'[l] => HasSession(l, sess', gr'))
    BY ZenonT(60) DEF SessInv, SessGrow
  <2> QED BY ZenonT(60), <2>3, <2>4, <2>5 DEF SessInv

\* One goroutine moves, not the acceptLink of a pending link.
<1>PendingStep.
    ASSUME TypeOK, PendingInv, NEW g \in Procs, NEW x, gr' = [gr EXCEPT ![g] = x],
           \A l \in Links : status'[l] = "pending" => status[l] = "pending" /\ g # Accept(l)
    PROVE  PendingInv'
  <2> USE <1>PendingStep
  <2>1. gr \in [Procs -> Goroutine] BY ZenonT(60) DEF TypeOK
  <2>2. \A h \in Procs : gr'[h] = IF h = g THEN x ELSE gr[h] BY <2>1
  <2> QED BY ZenonT(60), <2>2, Keys DEF PendingInv

\* A step inside a callback is not one of an acceptLink that has not begun.
<1>PendingInner.
    ASSUME TypeOK, PendingInv, NEW g \in Procs, NEW x, gr' = [gr EXCEPT ![g] = x], InnerStep(g)
    PROVE  PendingInv'
  <2> USE <1>PendingInner
  <2>1. gr[g].pc # "idle" BY InnerFrame DEF Callback, Inner
  <2>2. \A l \in Links : status[l] = "pending" => g # Accept(l) BY <2>1 DEF PendingInv
  <2>3. \A l \in Links : status'[l] = "pending" => status[l] = "pending"
    <3>0. status \in [Links -> {"pending", "active", "stale", "closed"}] BY ZenonT(60) DEF TypeOK
    <3>1. CASE UNCHANGED status BY <3>1
    <3>2. ASSUME NEW v \in Links, CloseSession(g, v)
          PROVE  \A l \in Links : status'[l] = "pending" => status[l] = "pending"
      <4>1. \/ UNCHANGED status
            \/ status' = [status EXCEPT ![v] = IF @ = "active" THEN "closed" ELSE @]
        BY <3>2 DEF CloseSession
      <4> QED BY <3>0, <4>1
    <3> QED BY <3>1, <3>2, InnerFrame
  <2> QED BY ZenonT(60), <2>2, <2>3, <1>PendingStep

\* One goroutine moves, and neither acceptLink nor the identification stop
\* looking before one has registered.
<1>IdentStep.
    ASSUME TypeOK, IdentInv, IdGrow, NEW g \in Procs, NEW x, gr' = [gr EXCEPT ![g] = x],
           \A l \in Links : g \in {Accept(l), Ident(l)} => IdentOK(l, remoteId', idCb', once', gr')
    PROVE  IdentInv'
  <2> USE <1>IdentStep
  <2>1. gr \in [Procs -> Goroutine] BY ZenonT(60) DEF TypeOK
  <2>2. \A h \in Procs : h # g => gr'[h] = gr[h] BY <2>1
  <2>3. ASSUME NEW l \in Links, g \notin {Accept(l), Ident(l)}
        PROVE  IdentOK(l, remoteId', idCb', once', gr')
    <3>1. gr'[Accept(l)] = gr[Accept(l)] /\ gr'[Ident(l)] = gr[Ident(l)]
      BY ZenonT(60), <2>2, <2>3, Keys
    <3>2. IdentOK(l, remoteId, idCb, once, gr) BY DEF IdentInv
    <3> QED BY ZenonT(60), <3>1, <3>2 DEF IdentOK, IdGrow, Before, Looking
  <2> QED BY ZenonT(60), <2>3 DEF IdentInv

\* A callback, a registration or a close leaves the session and the order of
\* identification and acceptance as they were.
<1>InnerAccept.
    ASSUME HubInv, HubInv', AcceptInv, NEW g \in Procs, InnerStep(g)
    PROVE  AcceptInv'
  <2> USE <1>InnerAccept
  <2> DEFINE r == gr[g]
  <2>0. /\ r \in Goroutine /\ r.pc \in Callback /\ TypeOK
        /\ PlaceInv /\ SessInv /\ IdentInv /\ PendingInv
        /\ UNCHANGED <<remoteId, pktCb, idCb, sess>>
    BY GrAt, InnerFrame DEF HubInv, AcceptInv
  <2>1. PICK x : gr' = [gr EXCEPT ![g] = x] /\ Onward(r, x)
    BY InnerOnward DEF GoesOn
  <2>2. gr'[g] = x /\ \A h \in Procs : h # g => gr'[h] = gr[h]
    BY <2>0, <2>1 DEF TypeOK
  <2>3. x \in Goroutine BY ZenonT(60), <2>2 DEF HubInv, TypeOK
  <2>4. r.pc \notin {"idle", "done", "newSession", "assignSess", "setIdCb", "checkId", "idCallback",
                     "register"}
    BY SMTT(60), <2>0 DEF Callback, Inner
  <2>5. Place(g, r) /\ Served(r, sess, gr) BY <2>0 DEF PlaceInv, SessInv
  <2>6. \A l \in Links : once[l] # "no" => once'[l] # "no"
    <3>1. CASE UNCHANGED once BY <3>1
    <3>2. CASE EndRegister(g)
      <4>1. once' = [once EXCEPT ![r.link] = "done"] BY <3>2 DEF EndRegister
      <4>2. once \in [Links -> {"no", "running", "done"}] BY ZenonT(60), <2>0 DEF TypeOK
      <4> HIDE DEF r
      <4> QED BY SMTT(60), <4>1, <4>2
    <3> QED BY SMTT(60), <3>1, <3>2, InnerFrame
  <2>7. \A k \in Ids : peers'[k] \in {NoLink, peers[k], r.link}
    <3>0. peers \in [Ids -> Links \cup {NoLink}] BY ZenonT(60), <2>0 DEF TypeOK
    <3>1. CASE UNCHANGED peers BY <3>1
    <3>2. CASE RegisterLock(g)
      <4>1. peers' = [peers EXCEPT ![IdOf[r.link]] = r.link] BY <3>2 DEF RegisterLock
      <4> HIDE DEF r
      <4> QED BY <3>0, <4>1
    <3>3. CASE DropPeerIf(g)
      <4>1. UNCHANGED peers \/ peers' = [peers EXCEPT ![IdOf[r.cur]] = NoLink]
        BY <3>3 DEF DropPeerIf, hubVars
      <4> HIDE DEF r
      <4> QED BY <3>0, <4>1
    <3> QED BY SMTT(60), <3>1, <3>2, <3>3, InnerFrame
  <2> HIDE DEF r
  <2>8. Place(g, x)
    <3>1. r.link \in Links \cup {NoLink} BY ZenonT(60), <2>0 DEF Goroutine
    <3>2. /\ x.pc \notin {"idle", "newSession", "setIdCb", "checkId", "idCallback"}
          /\ x.pc = "assignSess" => x.ret = "assignSess"
          /\ x.pc = "done" => x.ret = "done"
          /\ x.link \in {r.link, NoLink}
          /\ x.ret = "assignSess" => r.ret = "assignSess" /\ x.link = r.link
      BY ZenonT(60), <2>1 DEF Onward
    <3> QED BY ZenonT(60), <2>5, <3>2 DEF Place
  <2>9. PlaceInv' BY ZenonT(60), <2>0, <2>1, <2>8, <1>PlaceStep
  <2>10. SessGrow
    <3>1. ASSUME NEW l \in Links, HasSession(l, sess, gr) PROVE HasSession(l, sess', gr')
      <4>1. CASE g # Accept(l)
        <5>1. gr'[Accept(l)] = gr[Accept(l)] BY <2>2, <4>1, Keys
        <5> QED BY ZenonT(60), <2>0, <3>1, <5>1 DEF HasSession
      <4>2. CASE g = Accept(l)
        <5>1. r.ret = "assignSess" => x.ret = "assignSess" BY ZenonT(60), <2>1 DEF Onward
        <5> QED BY ZenonT(60), <2>0, <2>2, <2>4, <3>1, <4>2, <5>1 DEF HasSession, r
      <4> QED BY <4>1, <4>2
    <3> QED BY SMTT(60), <2>0, <3>1 DEF SessGrow
  <2>11. Served(x, sess', gr')
    <3>1. x.link \in Links => x.link = r.link
      BY ZenonT(60), <2>1, HubAssumption DEF Onward
    <3>2. x.link \in Links => HasSession(x.link, sess', gr')
      BY ZenonT(60), <2>4, <2>5, <2>10, <3>1 DEF Served, SessGrow
    <3>3. ASSUME NEW t \in x.todo PROVE HasSession(t, sess', gr')
      <4>0. t \in Links /\ t # NoLink BY <2>3, HubAssumption DEF Goroutine
      <4>1. t \in r.todo \/ t = r.link \/ \E k \in Ids : t = peers[k]
        BY ZenonT(60), <2>1 DEF Onward
      <4>2. HasSession(t, sess, gr)
        BY ZenonT(60), <2>0, <2>4, <2>5, <4>0, <4>1 DEF Served, SessInv
      <4> QED BY SMTT(60), <2>10, <4>0, <4>2 DEF SessGrow
    <3>4. x.pc \notin {"setIdCb", "checkId"} BY ZenonT(60), <2>1 DEF Onward
    <3> QED BY ZenonT(60), <3>2, <3>3, <3>4 DEF Served
  <2>12. SessInv'
    BY ZenonT(60), <2>0, <2>1, <2>4, <2>7, <2>10, <2>11, <1>SessStep DEF r
  <2>13. ASSUME NEW l \in Links, g \in {Accept(l), Ident(l)}
         PROVE  IdentOK(l, remoteId', idCb', once', gr')
    <3>1. IdentOK(l, remoteId, idCb, once, gr) BY <2>0 DEF IdentInv
    <3>2. CASE g = Accept(l)
      <4>1. gr'[Accept(l)] = x /\ gr[Accept(l)] = r /\ gr'[Ident(l)] = gr[Ident(l)]
        BY ZenonT(60), <2>2, <3>2, Keys DEF r
      <4>2. r.ret = "assignSess" => x.ret = "assignSess" BY ZenonT(60), <2>1 DEF Onward
      <4>3. Before(l, gr) => Before(l, gr') BY ZenonT(60), <2>4, <4>1, <4>2 DEF Before
      <4>4. Looking(l, gr) => Looking(l, gr') BY ZenonT(60), <2>4, <4>1, <4>3 DEF Looking
      <4> QED BY ZenonT(60), <2>0, <2>6, <3>1, <4>1, <4>3, <4>4 DEF IdentOK
    <3>3. CASE g = Ident(l)
      <4>1. gr'[Accept(l)] = gr[Accept(l)] /\ gr[Ident(l)] = r
        BY ZenonT(60), <2>2, <3>3, Keys DEF r
      <4> QED BY ZenonT(60), <2>0, <2>4, <2>6, <3>1, <4>1 DEF IdentOK, Before, Looking
    <3> QED BY <2>13, <3>2, <3>3
  <2>14. IdentInv'
    <3>1. IdGrow BY <2>0, <2>6 DEF IdGrow
    <3> QED BY ZenonT(60), <2>0, <2>1, <2>13, <3>1, <1>IdentStep
  <2>15. PendingInv' BY ZenonT(60), <2>0, <2>1, <1>PendingInner
  <2> QED BY SMTT(60), <2>9, <2>12, <2>14, <2>15 DEF AcceptInv

\* A step that registers nobody: what has to be shown of its goroutine.
<1>AcceptStep.
    ASSUME HubInv, AcceptInv, IdGrow, NEW g \in Procs, NEW x, gr' = [gr EXCEPT ![g] = x],
           Place(g, x),
           \A l \in Links : sess[l] => sess'[l],
           \A l \in Links : g = Accept(l) /\ HasSession(l, sess, gr) => HasSession(l, sess', gr'),
           SessGrow => Served(x, sess', gr'),
           \A l \in Links : idCb'[l] => idCb[l] \/ sess'[l],
           \A l \in Links : pktCb'[l] => pktCb[l] \/ HasSession(l, sess', gr'),
           \A k \in Ids : peers'[k] \in {NoLink, peers[k]},
           gr[g].pc \notin {"newSession", "idCallback"} \/ UNCHANGED peers,
           \A l \in Links : g \in {Accept(l), Ident(l)} => IdentOK(l, remoteId', idCb', once', gr'),
           \A l \in Links : status'[l] = "pending" => status[l] = "pending" /\ g # Accept(l)
    PROVE  AcceptInv'
  <2> USE <1>AcceptStep
  <2>0. TypeOK /\ PlaceInv /\ SessInv /\ IdentInv /\ PendingInv BY DEF HubInv, AcceptInv
  <2>1. gr \in [Procs -> Goroutine] BY ZenonT(60), <2>0 DEF TypeOK
  <2>2. \A h \in Procs : h # g => gr'[h] = gr[h] BY <2>1
  <2>3. SessGrow
    <3>1. ASSUME NEW l \in Links, g # Accept(l), HasSession(l, sess, gr)
          PROVE  HasSession(l, sess', gr')
      <4>1. gr'[Accept(l)] = gr[Accept(l)] BY <2>2, <3>1, Keys
      <4> QED BY ZenonT(60), <3>1, <4>1 DEF HasSession
    <3> QED BY ZenonT(60), <3>1 DEF SessGrow
  <2>4. PlaceInv' BY ZenonT(60), <2>0, <1>PlaceStep
  <2>5. SessInv'
    <3>1. \A k \in Ids : peers'[k] \in {NoLink, peers[k], gr[g].link} BY ZenonT(60)
    <3> QED BY ZenonT(60), <2>0, <2>3, <3>1, <1>SessStep
  <2>6. IdentInv' BY ZenonT(60), <2>0, <1>IdentStep
  <2>7. PendingInv' BY ZenonT(60), <2>0, <1>PendingStep
  <2> QED BY SMTT(60), ZenonT(60), <2>4, <2>5, <2>6, <2>7 DEF AcceptInv

\* A step that leaves the goroutines alone.
<1>AcceptStill.
    ASSUME AcceptInv, UNCHANGED <<remoteId, pktCb, idCb, sess, once, peers, gr>>,
           \A l \in Links : status'[l] = "pending" => status[l] = "pending"
    PROVE  AcceptInv'
  BY ZenonT(60), <1>AcceptStill DEF AcceptInv, PlaceInv, SessInv, IdentInv, PendingInv

\* The link comes up: acceptLink begins.
<1>LinkUpAccept.
    ASSUME HubInv, AcceptInv, NEW l \in Links, LinkUp(l)
    PROVE  AcceptInv'
  <2> USE <1>LinkUpAccept
  <2> DEFINE g == Accept(l)
             x == [Idle EXCEPT !.pc = "newSession", !.link = l]
  <2>1. /\ gr' = [gr EXCEPT ![g] = x] /\ status' = [status EXCEPT ![l] = "active"]
        /\ UNCHANGED <<remoteId, pktCb, idCb, sess, once, peers>>
        /\ status[l] = "pending"
    BY DEF LinkUp, peerVars, hubVars
  <2>2. x.pc = "newSession" /\ x.link = l /\ x.ret = "done" /\ x.todo = {} BY DEF Idle
  <2> HIDE DEF x
  <2>3. g \in Procs /\ gr \in [Procs -> Goroutine]
    BY Keys DEF HubInv, TypeOK
  <2>4. gr'[g] = x /\ \A h \in Procs : h # g => gr'[h] = gr[h] BY <2>1, <2>3
  <2>5. gr[g].pc = "idle" /\ gr[g].ret = "done"
    <3>1. gr[g].pc = "idle" BY <2>1 DEF AcceptInv, PendingInv
    <3> QED BY <2>3, <3>1 DEF AcceptInv, PlaceInv, Place
  <2>6. \A m \in Links : g = Accept(m) => m = l BY Keys
  <2>7. \A m \in Links : g # Ident(m) BY Keys
  <2>8. \A m \in Links : status'[m] = "pending" => status[m] = "pending" /\ g # Accept(m)
    <3>1. status \in [Links -> {"pending", "active", "stale", "closed"}]
      BY ZenonT(60) DEF HubInv, TypeOK
    <3> QED BY <2>1, <2>6, <3>1
  <2>9. Place(g, x) BY ZenonT(60), <2>2, <2>6, <2>7 DEF Place
  <2>10. HasSession(l, sess, gr) => sess[l] BY ZenonT(60), <2>5 DEF HasSession
  <2>11. \A m \in Links : g = Accept(m) /\ HasSession(m, sess, gr) => HasSession(m, sess', gr')
    BY ZenonT(60), <2>1, <2>6, <2>10 DEF HasSession
  <2>12. Served(x, sess', gr') BY ZenonT(60), <2>2 DEF Served
  <2>13. IdentOK(l, remoteId', idCb', once', gr')
    <3>1. IdentOK(l, remoteId, idCb, once, gr) BY DEF AcceptInv, IdentInv
    <3>2. Before(l, gr') BY ZenonT(60), <2>2, <2>4 DEF Before
    <3>3. gr'[Ident(l)] = gr[Ident(l)] BY SMTT(60), <2>4, <2>7, Keys
    <3> QED BY ZenonT(60), <2>1, <3>1, <3>2, <3>3 DEF IdentOK, Looking
  <2>14. \A m \in Links : g \in {Accept(m), Ident(m)} => IdentOK(m, remoteId', idCb', once', gr')
    BY ZenonT(60), <2>6, <2>7, <2>13
  <2>15. IdGrow BY <2>1 DEF IdGrow
  <2> HIDE DEF g
  <2> QED BY ZenonT(60), <2>1, <2>3, <2>8, <2>9, <2>11, <2>12, <2>14, <2>15, <1>AcceptStep

\* The identity is proven: the callback is called if it is set.
<1>IdentifiedAccept.
    ASSUME HubInv, AcceptInv, NEW l \in Links, Identified(l)
    PROVE  AcceptInv'
  <2> USE <1>IdentifiedAccept
  <2> DEFINE g == Ident(l)
             x == [Idle EXCEPT !.pc = "idCallback", !.link = l]
  <2>1. /\ gr' = [gr EXCEPT ![g] = x] /\ status' = [status EXCEPT ![l] = "active"]
        /\ remoteId' = [remoteId EXCEPT ![l] = TRUE]
        /\ UNCHANGED <<pktCb, idCb, sess, once, peers>>
    BY DEF Identified, peerVars, hubVars
  <2>2. x.pc = "idCallback" /\ x.link = l /\ x.ret = "done" /\ x.todo = {} BY DEF Idle
  <2> HIDE DEF x
  <2>3. g \in Procs /\ gr \in [Procs -> Goroutine]
    BY Keys DEF HubInv, TypeOK
  <2>4. gr'[g] = x /\ \A h \in Procs : h # g => gr'[h] = gr[h] BY <2>1, <2>3
  <2>5. \A m \in Links : g # Accept(m) BY Keys
  <2>6. \A m \in Links : g = Ident(m) => m = l BY Keys
  <2>7. \A m \in Links : status'[m] = "pending" => status[m] = "pending" /\ g # Accept(m)
    <3>1. status \in [Links -> {"pending", "active", "stale", "closed"}]
      BY ZenonT(60) DEF HubInv, TypeOK
    <3> QED BY <2>1, <2>5, <3>1
  <2>8. remoteId'[l] /\ \A m \in Links : remoteId[m] => remoteId'[m]
    <3>1. remoteId \in [Links -> BOOLEAN] BY ZenonT(60) DEF HubInv, TypeOK
    <3> QED BY ZenonT(60), <2>1, <3>1
  <2>9. Place(g, x) BY ZenonT(60), <2>2, <2>5, <2>6 DEF Place
  <2>10. Served(x, sess', gr') BY ZenonT(60), <2>2 DEF Served
  <2>11. IdentOK(l, remoteId', idCb', once', gr')
    <3>1. IdentOK(l, remoteId, idCb, once, gr) BY DEF AcceptInv, IdentInv
    <3>2. gr'[Accept(l)] = gr[Accept(l)] BY <2>4, <2>5, Keys
    <3> QED BY ZenonT(60), <2>1, <2>2, <2>4, <2>8, <3>1, <3>2 DEF IdentOK, Looking, Before
  <2>12. \A m \in Links : g \in {Accept(m), Ident(m)} => IdentOK(m, remoteId', idCb', once', gr')
    BY ZenonT(60), <2>5, <2>6, <2>11
  <2>13. IdGrow BY ZenonT(60), <2>1, <2>8 DEF IdGrow
  <2> HIDE DEF g
  <2> QED BY ZenonT(60), <2>1, <2>3, <2>5, <2>7, <2>9, <2>10, <2>12, <2>13, <1>AcceptStep

\* A packet arrives: its handler is there, and so is its session.
<1>PacketInAccept.
    ASSUME HubInv, AcceptInv, NEW g \in Packets, NEW l \in Links, NEW e, PacketIn(g, l, e)
    PROVE  AcceptInv'
  <2> USE <1>PacketInAccept
  <2>1. /\ status' = [status EXCEPT ![l] = "active"]
        /\ UNCHANGED <<remoteId, pktCb, idCb, sess, once, peers>>
        /\ gr[g].pc = "idle"
    BY DEF PacketIn, peerVars, hubVars
  <2>2. g \in Procs /\ \A m \in Links : g # Accept(m) /\ g # Ident(m)
    BY ProcsAssumption DEF Procs
  <2>3. PICK x : /\ gr' = [gr EXCEPT ![g] = x]
                 /\ x.pc \in {"recv", "done"} /\ x.ret = "done" /\ x.todo = {}
                 /\ x.link = NoLink \/ (x.link = l /\ pktCb[l])
    <3> DEFINE y == [Idle EXCEPT !.pc = "recv", !.link = l, !.own = e]
    <3>1. y.pc = "recv" /\ y.link = l /\ y.ret = "done" /\ y.todo = {} BY DEF Idle
    <3>2. Done.pc = "done" /\ Done.link = NoLink /\ Done.ret = "done" /\ Done.todo = {}
      BY DEF Done, Idle
    <3>3. (pktCb[l] /\ gr' = [gr EXCEPT ![g] = y]) \/ gr' = [gr EXCEPT ![g] = Done]
      BY ZenonT(60) DEF PacketIn
    <3> HIDE DEF y
    <3> QED BY ZenonT(60), <3>1, <3>2, <3>3
  <2>4. \A m \in Links : status'[m] = "pending" => status[m] = "pending" /\ g # Accept(m)
    <3>1. status \in [Links -> {"pending", "active", "stale", "closed"}]
      BY ZenonT(60) DEF HubInv, TypeOK
    <3> QED BY <2>1, <2>2, <3>1
  <2>5. x.pc \notin {"idle", "newSession", "assignSess", "setIdCb", "checkId", "idCallback"}
    BY <2>3
  <2>6. Place(g, x) BY ZenonT(60), <2>2, <2>3, <2>5 DEF Place
  <2>7. SessGrow => Served(x, sess', gr')
    <3>1. pktCb[l] => HasSession(l, sess, gr) BY DEF AcceptInv, SessInv
    <3>2. NoLink \notin Links BY HubAssumption
    <3> QED BY ZenonT(60), <2>3, <2>5, <3>1, <3>2 DEF Served, SessGrow
  <2>8. IdGrow BY <2>1 DEF IdGrow
  <2> QED BY ZenonT(60), <2>1, <2>2, <2>3, <2>4, <2>6, <2>7, <2>8, <1>AcceptStep

\* The sessions that Hub.Close closes are there.
<1>HubCloseAccept.
    ASSUME HubInv, HubInv', AcceptInv, HubClose
    PROVE  AcceptInv'
  <2> USE <1>HubCloseAccept
  <2>1. PICK x : gr' = [gr EXCEPT ![Closer] = x] /\ Onward(Idle, x) BY HubCloseOnward
  <2>2. /\ gr[Closer].pc = "idle" /\ peers' = [k \in Ids |-> NoLink]
        /\ UNCHANGED <<status, remoteId, pktCb, idCb, sess, once>>
    BY SMTT(60), ZenonT(60) DEF HubClose, linkVars, peerVars
  <2>3. /\ Closer \in Procs /\ gr \in [Procs -> Goroutine] /\ peers \in [Ids -> Links \cup {NoLink}]
        /\ \A m \in Links : Closer # Accept(m) /\ Closer # Ident(m)
    BY SMTT(60), Keys DEF HubInv, TypeOK, Procs
  <2>4. Idle.todo = {} /\ Idle.link = NoLink /\ Idle.reg = FALSE /\ Idle.ret = "done" BY DEF Idle
  <2>5. /\ x.pc \notin {"idle", "newSession", "setIdCb", "checkId", "idCallback"}
        /\ x.pc # "assignSess" /\ x.ret = "done" /\ x.link = NoLink
        /\ x.todo \subseteq {NoLink} \cup {peers[k] : k \in Ids}
    <3>1. "assignSess" # "done" OBVIOUS
    <3> QED BY ZenonT(60), <2>1, <2>4, <3>1 DEF Onward
  <2>6. x.todo \subseteq Links
    <3>1. gr'[Closer] = x BY <2>1, <2>3
    <3>2. x \in Goroutine BY ZenonT(60), <2>3, <3>1 DEF HubInv, TypeOK
    <3> QED BY <3>2 DEF Goroutine
  <2>7. NoLink \notin Links BY HubAssumption
  <2>8. Place(Closer, x)
    <3>1. x.ret # "assignSess" BY <2>5
    <3> QED BY ZenonT(60), <2>3, <2>5, <3>1 DEF Place
  <2>9. SessGrow => Served(x, sess', gr')
    <3>1. SUFFICES ASSUME SessGrow, NEW t \in x.todo PROVE HasSession(t, sess', gr')
      BY ZenonT(60), <2>5, <2>7 DEF Served
    <3>2. t \in Links /\ HasSession(t, sess, gr)
      BY ZenonT(60), <2>5, <2>6, <2>7 DEF AcceptInv, SessInv
    <3> QED BY <3>1, <3>2 DEF SessGrow
  <2>10. IdGrow BY <2>2 DEF IdGrow
  <2>11. \A k \in Ids : peers'[k] \in {NoLink, peers[k]} BY <2>2
  <2>12. gr[Closer].pc \notin {"newSession", "idCallback"} BY <2>2
  <2> QED BY ZenonT(60), <2>1, <2>2, <2>3, <2>8, <2>9, <2>10, <2>11, <2>12, <1>AcceptStep

\* A goroutine at one of the labels of acceptLink is the one of its link.
<1>Acceptor.
    ASSUME HubInv, AcceptInv, NEW g \in Procs,
           gr[g].pc \in {"newSession", "assignSess", "setIdCb", "checkId"}
    PROVE  /\ gr \in [Procs -> Goroutine] /\ gr[g] \in Goroutine /\ gr[g].link \in Links
           /\ g = Accept(gr[g].link)
           /\ \A m \in Links : (g = Accept(m) <=> m = gr[g].link) /\ g # Ident(m)
           /\ Place(g, gr[g]) /\ Served(gr[g], sess, gr)
           /\ IdentOK(gr[g].link, remoteId, idCb, once, gr)
           /\ gr[g].todo \subseteq Links
           /\ \A m \in Links : status[m] = "pending" => g # Accept(m)
  <2> USE <1>Acceptor
  <2>1. gr \in [Procs -> Goroutine] /\ gr[g] \in Goroutine BY ZenonT(60) DEF HubInv, TypeOK
  <2>2. Place(g, gr[g]) /\ Served(gr[g], sess, gr) BY DEF AcceptInv, PlaceInv, SessInv
  <2>3. gr[g].link \in Links /\ g = Accept(gr[g].link) BY ZenonT(60), <2>2 DEF Place
  <2>4. IdentOK(gr[g].link, remoteId, idCb, once, gr) BY <2>3 DEF AcceptInv, IdentInv
  <2>5. gr[g].todo \subseteq Links BY <2>1 DEF Goroutine
  <2>6. \A m \in Links : (g = Accept(m) <=> m = gr[g].link) /\ g # Ident(m)
    BY ZenonT(60), <2>3, Keys
  <2>7. gr[g].pc # "idle" OBVIOUS
  <2>8. \A m \in Links : status[m] = "pending" => g # Accept(m)
    BY ZenonT(60), <2>7 DEF AcceptInv, PendingInv
  <2> QED BY ZenonT(60), <2>1, <2>2, <2>3, <2>4, <2>5, <2>6, <2>8

\* The sessions that a goroutine is about to serve stay served.
<1>TodoServed.
    ASSUME NEW r, r.todo \subseteq Links, Served(r, sess, gr), SessGrow
    PROVE  \A t \in r.todo : HasSession(t, sess', gr')
  BY ZenonT(60), <1>TodoServed DEF Served, SessGrow

\* newSession installs the packet handler before the session is assigned.
<1>NewSessionAccept.
    ASSUME HubInv, AcceptInv, NEW g \in Procs, NewSession(g)
    PROVE  AcceptInv'
  <2> USE <1>NewSessionAccept
  <2> DEFINE r == gr[g]
             l == r.link
  <2>1. /\ r.pc = "newSession" /\ pktCb' = [pktCb EXCEPT ![l] = TRUE]
        /\ UNCHANGED <<status, remoteId, idCb, sess, once, peers>>
    BY SMTT(60) DEF NewSession, peerVars, hubVars
  <2>2. /\ gr \in [Procs -> Goroutine] /\ r \in Goroutine /\ l \in Links /\ g = Accept(l)
        /\ \A m \in Links : (g = Accept(m) <=> m = l) /\ g # Ident(m)
        /\ Place(g, r) /\ Served(r, sess, gr) /\ IdentOK(l, remoteId, idCb, once, gr)
        /\ r.todo \subseteq Links
        /\ \A m \in Links : status[m] = "pending" => g # Accept(m)
    BY ZenonT(60), <2>1, <1>Acceptor
  <2>3. PICK x : /\ gr' = [gr EXCEPT ![g] = x]
                 /\ x.link = l /\ x.todo = r.todo
                 /\ \/ x.pc = "assignSess"
                    \/ x.pc = "recv" /\ x.ret = "assignSess"
    <3> DEFINE y == [r EXCEPT !.pc = "recv", !.own = plain[r.link], !.ret = "assignSess"]
               z == At(r, "assignSess")
    <3>1. gr' = [gr EXCEPT ![g] = z] \/ gr' = [gr EXCEPT ![g] = y]
      BY ZenonT(60) DEF NewSession
    <3> HIDE DEF r
    <3>2. y.pc = "recv" /\ y.ret = "assignSess" /\ y.link = r.link /\ y.todo = r.todo
      BY SMTT(60), <2>2 DEF Goroutine
    <3>3. z.pc = "assignSess" /\ z.link = r.link /\ z.todo = r.todo BY ZenonT(60), <2>2, AtFields
    <3> HIDE DEF y, z
    <3> QED BY ZenonT(60), <3>1, <3>2, <3>3
  <2> HIDE DEF r
  <2>4. gr'[g] = x /\ \A h \in Procs : h # g => gr'[h] = gr[h] BY <2>2, <2>3
  <2>5. x.pc \notin {"idle", "done", "newSession", "setIdCb", "checkId", "idCallback"} BY <2>3
  <2>6. Place(g, x) BY ZenonT(60), <2>2, <2>3, <2>5 DEF Place
  <2>7. HasSession(l, sess', gr') /\ Before(l, gr')
    BY ZenonT(60), <2>2, <2>3, <2>4 DEF HasSession, Before
  <2>8. SessGrow => Served(x, sess', gr')
    BY ZenonT(60), <2>2, <2>3, <2>5, <2>7, <1>TodoServed DEF Served
  <2>9. \A m \in Links : pktCb'[m] => pktCb[m] \/ HasSession(m, sess', gr')
    <3>1. pktCb \in [Links -> BOOLEAN] BY ZenonT(60) DEF HubInv, TypeOK
    <3> HIDE DEF l
    <3> QED BY ZenonT(60), <2>1, <2>7, <3>1
  <2>10. IdentOK(l, remoteId', idCb', once', gr')
    <3>1. gr'[Ident(l)] = gr[Ident(l)] BY ZenonT(60), <2>2, <2>4, Keys
    <3> QED BY ZenonT(60), <2>1, <2>2, <2>7, <3>1 DEF IdentOK, Looking
  <2>11. \A m \in Links : g \in {Accept(m), Ident(m)} => IdentOK(m, remoteId', idCb', once', gr')
    BY ZenonT(60), <2>2, <2>10
  <2>12. IdGrow BY <2>1 DEF IdGrow
  <2>13. \A m \in Links : g = Accept(m) /\ HasSession(m, sess, gr) => HasSession(m, sess', gr')
    BY ZenonT(60), <2>2, <2>7
  <2> HIDE DEF l
  <2> QED BY ZenonT(60), <2>1, <2>2, <2>3, <2>6, <2>8, <2>9, <2>11, <2>12, <2>13, <1>AcceptStep

\* acceptLink assigns the session.
<1>AssignSessAccept.
    ASSUME HubInv, AcceptInv, NEW g \in Procs, AssignSess(g)
    PROVE  AcceptInv'
  <2> USE <1>AssignSessAccept
  <2> DEFINE r == gr[g]
             l == r.link
             x == [r EXCEPT !.pc = "setIdCb", !.own = NoEnv, !.ret = "done"]
  <2>1. /\ r.pc = "assignSess" /\ sess' = [sess EXCEPT ![l] = TRUE]
        /\ gr' = [gr EXCEPT ![g] = x]
        /\ UNCHANGED <<status, remoteId, pktCb, idCb, once, peers>>
    BY DEF AssignSess, linkVars, hubVars
  <2>2. /\ gr \in [Procs -> Goroutine] /\ r \in Goroutine /\ l \in Links /\ g = Accept(l)
        /\ \A m \in Links : (g = Accept(m) <=> m = l) /\ g # Ident(m)
        /\ Place(g, r) /\ Served(r, sess, gr) /\ IdentOK(l, remoteId, idCb, once, gr)
        /\ r.todo \subseteq Links
        /\ \A m \in Links : status[m] = "pending" => g # Accept(m)
    BY <2>1, <1>Acceptor
  <2> HIDE DEF r
  <2>3. x.pc = "setIdCb" /\ x.link = l /\ x.todo = r.todo /\ x.ret = "done"
    BY SMTT(60), ZenonT(60), <2>2 DEF Goroutine
  <2> HIDE DEF x
  <2>4. gr'[g] = x /\ \A h \in Procs : h # g => gr'[h] = gr[h] BY <2>1, <2>2
  <2>5. sess'[l] /\ \A m \in Links : sess[m] => sess'[m]
    <3>1. sess \in [Links -> BOOLEAN] BY ZenonT(60) DEF HubInv, TypeOK
    <3> HIDE DEF l
    <3> QED BY ZenonT(60), <2>1, <2>2, <3>1
  <2>6. Place(g, x) BY ZenonT(60), <2>2, <2>3 DEF Place
  <2>7. Before(l, gr') /\ HasSession(l, sess', gr')
    BY ZenonT(60), <2>2, <2>3, <2>4, <2>5 DEF HasSession, Before
  <2>8. SessGrow => Served(x, sess', gr')
    BY ZenonT(60), <2>2, <2>3, <2>5, <2>7, <1>TodoServed DEF Served
  <2>9. IdentOK(l, remoteId', idCb', once', gr')
    <3>1. gr'[Ident(l)] = gr[Ident(l)] BY ZenonT(60), <2>2, <2>4, Keys
    <3> QED BY ZenonT(60), <2>1, <2>2, <2>7, <3>1 DEF IdentOK, Looking
  <2>10. \A m \in Links : g \in {Accept(m), Ident(m)} => IdentOK(m, remoteId', idCb', once', gr')
    BY ZenonT(60), <2>2, <2>9
  <2>11. IdGrow BY <2>1 DEF IdGrow
  <2>12. \A m \in Links : g = Accept(m) /\ HasSession(m, sess, gr) => HasSession(m, sess', gr')
    BY ZenonT(60), <2>2, <2>7
  <2> HIDE DEF l
  <2> QED BY ZenonT(60), <2>1, <2>2, <2>5, <2>6, <2>8, <2>10, <2>11, <2>12, <1>AcceptStep

\* acceptLink sets the identified callback, and will look itself.
<1>SetIdCbAccept.
    ASSUME HubInv, AcceptInv, NEW g \in Procs, SetIdCb(g)
    PROVE  AcceptInv'
  <2> USE <1>SetIdCbAccept
  <2> DEFINE r == gr[g]
             l == r.link
             x == At(r, "checkId")
  <2>1. /\ r.pc = "setIdCb" /\ idCb' = [idCb EXCEPT ![l] = TRUE]
        /\ gr' = [gr EXCEPT ![g] = x]
        /\ UNCHANGED <<status, remoteId, pktCb, sess, once, peers>>
    BY SMTT(60) DEF SetIdCb, peerVars, hubVars
  <2>2. /\ gr \in [Procs -> Goroutine] /\ r \in Goroutine /\ l \in Links /\ g = Accept(l)
        /\ \A m \in Links : (g = Accept(m) <=> m = l) /\ g # Ident(m)
        /\ Place(g, r) /\ Served(r, sess, gr) /\ IdentOK(l, remoteId, idCb, once, gr)
        /\ r.todo \subseteq Links
        /\ \A m \in Links : status[m] = "pending" => g # Accept(m)
    BY ZenonT(60), <2>1, <1>Acceptor
  <2> HIDE DEF r
  <2>3. x.pc = "checkId" /\ x.link = l /\ x.todo = r.todo /\ x.ret = r.ret
    BY SMTT(60), ZenonT(60), <2>2, AtFields
  <2> HIDE DEF x
  <2>4. gr'[g] = x /\ \A h \in Procs : h # g => gr'[h] = gr[h] BY SMTT(60), <2>1, <2>2
  <2>5. sess[l] /\ r.ret = "done" BY ZenonT(60), <2>1, <2>2 DEF Served, Place
  <2>6. /\ idCb'[l]
        /\ \A m \in Links : (idCb[m] => idCb'[m]) /\ (idCb'[m] => idCb[m] \/ sess'[m])
    <3>1. idCb \in [Links -> BOOLEAN] BY ZenonT(60) DEF HubInv, TypeOK
    <3> HIDE DEF l
    <3> QED BY ZenonT(60), <2>1, <2>2, <2>5, <3>1
  <2>7. Place(g, x) BY ZenonT(60), <2>2, <2>3, <2>5 DEF Place
  <2>8. Looking(l, gr') /\ HasSession(l, sess', gr')
    BY ZenonT(60), <2>1, <2>2, <2>3, <2>4, <2>5 DEF HasSession, Looking
  <2>9. SessGrow => Served(x, sess', gr')
    BY ZenonT(60), <2>1, <2>2, <2>3, <2>5, <2>8, <1>TodoServed DEF Served
  <2>10. IdentOK(l, remoteId', idCb', once', gr')
    <3>1. gr'[Ident(l)] = gr[Ident(l)] BY ZenonT(60), <2>2, <2>4, Keys
    <3> QED BY ZenonT(60), <2>1, <2>2, <2>6, <2>8, <3>1 DEF IdentOK
  <2>11. \A m \in Links : g \in {Accept(m), Ident(m)} => IdentOK(m, remoteId', idCb', once', gr')
    BY ZenonT(60), <2>2, <2>10
  <2>12. IdGrow BY ZenonT(60), <2>1, <2>6 DEF IdGrow
  <2>13. \A m \in Links : g = Accept(m) /\ HasSession(m, sess, gr) => HasSession(m, sess', gr')
    BY ZenonT(60), <2>2, <2>8
  <2> HIDE DEF l
  <2> QED BY ZenonT(60), <2>1, <2>2, <2>6, <2>7, <2>9, <2>11, <2>12, <2>13, <1>AcceptStep

\* The second look of acceptLink comes after the callback is set.
<1>CheckIdAccept.
    ASSUME HubInv, AcceptInv, NEW g \in Procs, CheckId(g)
    PROVE  AcceptInv'
  <2> USE <1>CheckIdAccept
  <2> DEFINE r == gr[g]
             l == r.link
             x == At(r, IF remoteId[l] THEN "register" ELSE "done")
  <2>1. /\ r.pc = "checkId" /\ gr' = [gr EXCEPT ![g] = x]
        /\ UNCHANGED <<status, remoteId, pktCb, idCb, sess, once, peers>>
    BY SMTT(60) DEF CheckId, linkVars, peerVars, hubVars
  <2>2. /\ gr \in [Procs -> Goroutine] /\ r \in Goroutine /\ l \in Links /\ g = Accept(l)
        /\ \A m \in Links : (g = Accept(m) <=> m = l) /\ g # Ident(m)
        /\ Place(g, r) /\ Served(r, sess, gr) /\ IdentOK(l, remoteId, idCb, once, gr)
        /\ r.todo \subseteq Links
        /\ \A m \in Links : status[m] = "pending" => g # Accept(m)
    BY ZenonT(60), <2>1, <1>Acceptor
  <2>3. sess[l] /\ r.ret = "done" BY ZenonT(60), <2>1, <2>2 DEF Served, Place
  <2>4. \/ /\ remoteId[l] /\ x.pc = "register" /\ x.link = l /\ x.todo = r.todo
           /\ x.ret = "done"
        \/ ~remoteId[l] /\ x.pc = "done" /\ x.link = NoLink /\ x.todo = {} /\ x.ret = "done"
    <3> HIDE DEF r
    <3>1. CASE remoteId[l] BY ZenonT(60), <2>2, <2>3, <3>1, AtFields
    <3>2. CASE ~remoteId[l]
      <4>1. x = Done BY SMTT(60), <3>2 DEF At
      <4> QED BY <3>2, <4>1 DEF Done, Idle
    <3> QED BY ZenonT(60), <3>1, <3>2
  <2>5. idCb[l]
    <3>1. gr[Accept(l)].pc = "checkId" /\ gr[Accept(l)].ret = "done" BY ZenonT(60), <2>1, <2>2, <2>3
    <3>2. ~Before(l, gr) BY SMTT(60), ZenonT(60), <3>1 DEF Before
    <3> QED BY ZenonT(60), <2>2, <3>2 DEF IdentOK
  <2> HIDE DEF x, r
  <2>6. gr'[g] = x /\ \A h \in Procs : h # g => gr'[h] = gr[h] BY <2>1, <2>2
  <2>7. /\ x.pc \notin {"idle", "newSession", "assignSess", "setIdCb", "checkId", "idCallback"}
        /\ x.ret = "done"
    BY <2>4
  <2>8. Place(g, x) BY ZenonT(60), <2>2, <2>4, <2>7 DEF Place
  <2>9. HasSession(l, sess', gr') BY ZenonT(60), <2>1, <2>3 DEF HasSession
  <2>10. SessGrow => Served(x, sess', gr')
    <3>1. NoLink \notin Links BY HubAssumption
    <3> QED BY ZenonT(60), <2>2, <2>4, <2>7, <2>9, <3>1, <1>TodoServed DEF Served
  <2>11. IdentOK(l, remoteId', idCb', once', gr')
    <3>1. gr'[Ident(l)] = gr[Ident(l)] BY ZenonT(60), <2>2, <2>6, Keys
    <3>2. remoteId[l] => Looking(l, gr') BY ZenonT(60), <2>2, <2>4, <2>6 DEF Looking
    <3> QED BY ZenonT(60), <2>1, <2>2, <2>5, <3>1, <3>2 DEF IdentOK
  <2>12. \A m \in Links : g \in {Accept(m), Ident(m)} => IdentOK(m, remoteId', idCb', once', gr')
    BY ZenonT(60), <2>2, <2>11
  <2>13. IdGrow BY <2>1 DEF IdGrow
  <2>14. \A m \in Links : g = Accept(m) /\ HasSession(m, sess, gr) => HasSession(m, sess', gr')
    BY ZenonT(60), <2>2, <2>9
  <2> HIDE DEF l
  <2> QED BY ZenonT(60), <2>1, <2>2, <2>8, <2>10, <2>12, <2>13, <2>14, <1>AcceptStep

\* An identity that finds no callback comes before the second look.
<1>IdCallbackAccept.
    ASSUME HubInv, AcceptInv, NEW g \in Procs, IdCallback(g)
    PROVE  AcceptInv'
  <2> USE <1>IdCallbackAccept
  <2> DEFINE r == gr[g]
             l == r.link
             x == At(r, IF idCb[l] THEN "register" ELSE "done")
  <2>1. /\ r.pc = "idCallback" /\ gr' = [gr EXCEPT ![g] = x]
        /\ UNCHANGED <<status, remoteId, pktCb, idCb, sess, once, peers>>
    BY ZenonT(60) DEF IdCallback, linkVars, peerVars, hubVars
  <2>2. gr \in [Procs -> Goroutine] /\ r \in Goroutine BY ZenonT(60) DEF HubInv, TypeOK
  <2>3. Place(g, r) /\ Served(r, sess, gr) BY DEF AcceptInv, PlaceInv, SessInv
  <2>4. l \in Links /\ g = Ident(l) /\ r.ret = "done" BY ZenonT(60), <2>1, <2>3 DEF Place
  <2>5. IdentOK(l, remoteId, idCb, once, gr) /\ (idCb[l] => sess[l])
    BY <2>4 DEF AcceptInv, IdentInv, SessInv
  <2>6. \A m \in Links : (g = Ident(m) <=> m = l) /\ g # Accept(m) BY ZenonT(60), <2>4, Keys
  <2>7. \/ /\ idCb[l] /\ x.pc = "register" /\ x.link = l /\ x.todo = r.todo /\ x.ret = "done"
        \/ ~idCb[l] /\ x.pc = "done" /\ x.link = NoLink /\ x.todo = {} /\ x.ret = "done"
    <3> HIDE DEF r
    <3>1. CASE idCb[l] BY ZenonT(60), <2>2, <2>4, <3>1, AtFields
    <3>2. CASE ~idCb[l]
      <4>1. x = Done BY <3>2 DEF At
      <4> QED BY SMTT(60), <3>2, <4>1 DEF Done, Idle
    <3> QED BY ZenonT(60), <3>1, <3>2
  <2> HIDE DEF x, r
  <2>8. gr'[g] = x /\ \A h \in Procs : h # g => gr'[h] = gr[h] BY SMTT(60), <2>1, <2>2
  <2>9. /\ x.pc \notin {"idle", "newSession", "assignSess", "setIdCb", "checkId", "idCallback"}
        /\ x.ret = "done"
    BY <2>7
  <2>10. Place(g, x) BY ZenonT(60), <2>4, <2>6, <2>7, <2>9 DEF Place
  <2>11. SessGrow => Served(x, sess', gr')
    <3>1. NoLink \notin Links /\ r.todo \subseteq Links BY <2>2, HubAssumption DEF Goroutine
    <3>2. idCb[l] => HasSession(l, sess', gr') BY ZenonT(60), <2>1, <2>5 DEF HasSession
    <3> QED BY ZenonT(60), <2>3, <2>4, <2>7, <2>9, <3>1, <3>2, <1>TodoServed DEF Served
  <2>12. IdentOK(l, remoteId', idCb', once', gr')
    <3>1. gr'[Accept(l)] = gr[Accept(l)] BY ZenonT(60), <2>4, <2>6, <2>8, Keys
    <3>2. (Before(l, gr) => Before(l, gr')) /\ (Before(l, gr') => Looking(l, gr'))
      BY ZenonT(60), <3>1 DEF Before, Looking
    <3>3. remoteId[l] BY ZenonT(60), <2>1, <2>4, <2>5 DEF IdentOK, r
    <3>4. gr'[Ident(l)] = x BY <2>4, <2>8
    <3> QED BY ZenonT(60), <2>1, <2>5, <2>7, <3>2, <3>3, <3>4 DEF IdentOK
  <2>13. \A m \in Links : g \in {Accept(m), Ident(m)} => IdentOK(m, remoteId', idCb', once', gr')
    BY ZenonT(60), <2>6, <2>12
  <2>14. IdGrow BY <2>1 DEF IdGrow
  <2> HIDE DEF l
  <2> QED BY ZenonT(60), <2>1, <2>6, <2>10, <2>11, <2>13, <2>14, <1>AcceptStep

\* registerOnce is entered once: who finds it done leaves a registered link.
<1>RegisterAccept.
    ASSUME HubInv, AcceptInv, NEW g \in Procs, Register(g)
    PROVE  AcceptInv'
  <2> USE <1>RegisterAccept
  <2> DEFINE r == gr[g]
             l == r.link
  <2>1. r.pc = "register" /\ UNCHANGED <<status, remoteId, pktCb, idCb, sess, peers>>
    BY DEF Register, linkVars, hubVars
  <2>2. /\ gr \in [Procs -> Goroutine] /\ r \in Goroutine
        /\ once \in [Links -> {"no", "running", "done"}]
    BY ZenonT(60) DEF HubInv, TypeOK
  <2>3. l \in Links BY <2>1, GrAt DEF LocalOK
  <2>4. Place(g, r) /\ Served(r, sess, gr) BY DEF AcceptInv, PlaceInv, SessInv
  <2>5. PICK x : /\ gr' = [gr EXCEPT ![g] = x]
                 /\ \/ /\ \/ x.pc \in {"regLock", "recheck"}
                          \/ x.pc = "assignSess" /\ r.ret = "assignSess"
                       /\ x.link = l /\ x.ret = r.ret /\ x.todo = r.todo
                    \/ /\ x.pc = "done" /\ x.link = NoLink /\ x.ret = "done" /\ x.todo = {}
                       /\ r.ret = "done"
    <3> DEFINE y == [r EXCEPT !.pc = "regLock", !.reg = TRUE]
               z == At(r, "recheck")
               u == At(r, r.ret)
    <3>1. \E x \in {y, z, u} : gr' = [gr EXCEPT ![g] = x] BY ZenonT(60) DEF Register
    <3> HIDE DEF r
    <3>2. y.pc = "regLock" /\ y.link = r.link /\ y.ret = r.ret /\ y.todo = r.todo
      BY SMTT(60), ZenonT(60), <2>2 DEF Goroutine
    <3>3. z.pc = "recheck" /\ z.link = r.link /\ z.ret = r.ret /\ z.todo = r.todo
      BY SMTT(60), ZenonT(60), <2>2, AtFields
    <3>4. \/ /\ u.pc = "assignSess" /\ r.ret = "assignSess"
             /\ u.link = r.link /\ u.ret = r.ret /\ u.todo = r.todo
          \/ /\ u.pc = "done" /\ u.link = NoLink /\ u.ret = "done" /\ u.todo = {}
             /\ r.ret = "done"
      <4>1. CASE r.ret = "done"
        <5>1. u = Done BY SMTT(60), ZenonT(60), <4>1 DEF At
        <5> QED BY <4>1, <5>1 DEF Done, Idle
      <4>2. CASE r.ret = "assignSess" BY <2>2, <4>2, AtFields
      <4>3. r.ret \in {"done", "assignSess"} BY ZenonT(60), <2>2 DEF Goroutine
      <4> QED BY <4>1, <4>2, <4>3
    <3> HIDE DEF y, z, u
    <3> QED BY ZenonT(60), <3>1, <3>2, <3>3, <3>4
  <2>6. once'[l] # "no" /\ \A m \in Links : once[m] # "no" => once'[m] # "no"
    <3>1. once' = [once EXCEPT ![l] = "running"] \/ (once[l] = "done" /\ UNCHANGED once)
      BY ZenonT(60) DEF Register
    <3> HIDE DEF l
    <3> QED BY SMTT(60), <2>2, <2>3, <3>1
  <2> HIDE DEF r
  <2>7. gr'[g] = x /\ \A h \in Procs : h # g => gr'[h] = gr[h] BY SMTT(60), <2>2, <2>5
  <2>8. x.pc \notin {"idle", "newSession", "setIdCb", "checkId", "idCallback"} BY <2>5
  <2>9. Place(g, x)
    <3>1. /\ "done" # "assignSess" /\ x.pc = "assignSess" => x.ret = "assignSess"
          /\ x.pc = "done" => x.ret = "done"
      BY <2>5
    <3>2. x.ret = "assignSess" => r.ret = "assignSess" /\ x.link = l BY ZenonT(60), <2>5, <3>1
    <3>3. x.link \in {l, NoLink} BY ZenonT(60), <2>5
    <3>4. \A m \in Links : g \in {Accept(m), Ident(m)} => x.link \in {m, NoLink}
      BY ZenonT(60), <2>4, <3>3 DEF Place
    <3> QED BY ZenonT(60), <2>4, <2>8, <3>1, <3>2, <3>4 DEF Place
  <2>10. HasSession(l, sess, gr)
    BY ZenonT(60), <2>1, <2>3, <2>4 DEF Served
  <2>11. \A m \in Links : g = Accept(m) /\ HasSession(m, sess, gr) => HasSession(m, sess', gr')
    <3>1. SUFFICES ASSUME NEW m \in Links, g = Accept(m), HasSession(m, sess, gr)
                   PROVE  HasSession(m, sess', gr')
      OBVIOUS
    <3>2. sess[m] \/ r.ret = "assignSess" BY ZenonT(60), <2>1, <3>1 DEF HasSession, r
    <3>3. r.ret = "assignSess" => x.ret = "assignSess"
      <4>1. "done" # "assignSess" OBVIOUS
      <4> QED BY ZenonT(60), <2>5, <4>1
    <3> QED BY ZenonT(60), <2>1, <2>7, <3>1, <3>2, <3>3 DEF HasSession
  <2>12. SessGrow => Served(x, sess', gr')
    <3>1. NoLink \notin Links /\ r.todo \subseteq Links
      BY SMTT(60), <2>2, HubAssumption DEF Goroutine
    <3>2. SessGrow => HasSession(l, sess', gr') BY <2>3, <2>10 DEF SessGrow
    <3> QED BY ZenonT(60), <2>4, <2>5, <2>8, <3>1, <3>2, <1>TodoServed DEF Served
  <2>13. ASSUME NEW m \in Links, g \in {Accept(m), Ident(m)}
         PROVE  IdentOK(m, remoteId', idCb', once', gr')
    <3>0. m = l
      <4>1. NoLink \notin Links BY HubAssumption
      <4> QED BY ZenonT(60), <2>3, <2>4, <2>13, <4>1 DEF Place
    <3>1. IdentOK(m, remoteId, idCb, once, gr) BY DEF AcceptInv, IdentInv
    <3>2. CASE g = Accept(m)
      <4>1. gr'[Ident(m)] = gr[Ident(m)] /\ gr'[Accept(m)] = x /\ gr[Accept(m)] = r
        BY ZenonT(60), <2>7, <3>2, Keys DEF r
      <4>2. r.ret = "assignSess" => x.ret = "assignSess"
        <5>1. "done" # "assignSess" OBVIOUS
        <5> QED BY ZenonT(60), <2>5, <5>1
      <4>3. Before(m, gr) => Before(m, gr') BY ZenonT(60), <2>1, <4>1, <4>2 DEF Before
      <4> QED BY ZenonT(60), <2>1, <2>6, <3>0, <3>1, <4>1, <4>3 DEF IdentOK
    <3>3. CASE g = Ident(m)
      <4>1. gr'[Accept(m)] = gr[Accept(m)] /\ gr[Ident(m)] = r
        BY ZenonT(60), <2>7, <3>3, Keys DEF r
      <4> QED BY ZenonT(60), <2>1, <2>6, <3>0, <3>1, <4>1 DEF IdentOK, Before
    <3> QED BY <2>13, <3>2, <3>3
  <2>14. IdGrow BY ZenonT(60), <2>1, <2>6 DEF IdGrow
  <2>15. \A m \in Links : status'[m] = "pending" => status[m] = "pending" /\ g # Accept(m)
    BY ZenonT(60), <2>1 DEF AcceptInv, PendingInv, r
  <2> HIDE DEF l
  <2> QED BY ZenonT(60), <2>1, <2>5, <2>9, <2>11, <2>12, <2>13, <2>14, <2>15, <1>AcceptStep

<1> SUFFICES ASSUME HubInv, HubInv', AcceptInv, [Next]_vars PROVE AcceptInv'
  OBVIOUS
<1>1. CASE UNCHANGED vars
  BY <1>1, <1>AcceptStill DEF vars, linkVars, peerVars, hubVars
<1>2. ASSUME NEW l \in Links, LinkStep(l) PROVE AcceptInv'
  <2>1. CASE LinkUp(l) BY <2>1, <1>LinkUpAccept
  <2>2. CASE Identified(l) BY <2>2, <1>IdentifiedAccept
  <2>3. CASE LinkLost(l) \/ LinkStale(l)
    <3>0. status \in [Links -> {"pending", "active", "stale", "closed"}]
      BY ZenonT(60) DEF HubInv, TypeOK
    <3>1. /\ UNCHANGED <<remoteId, pktCb, idCb, sess, once, peers, gr>>
          /\ \/ status' = [status EXCEPT ![l] = "closed"]
             \/ status' = [status EXCEPT ![l] = "stale"]
      BY <2>3 DEF LinkLost, LinkStale, peerVars, hubVars
    <3>2. \A m \in Links : status'[m] = "pending" => status[m] = "pending" BY <3>0, <3>1
    <3> QED BY <3>1, <3>2, <1>AcceptStill
  <2> QED BY <1>2, <2>1, <2>2, <2>3 DEF LinkStep
<1>3. ASSUME NEW g \in Packets, NEW t \in Traffic[g], PacketIn(g, t[1], t[2]) PROVE AcceptInv'
  <2>1. t[1] \in Links BY TrafficAssumption
  <2> QED BY <1>3, <2>1, <1>PacketInAccept
<1>4. CASE HubClose BY <1>4, <1>HubCloseAccept
<1>5. ASSUME NEW g \in Procs, Step(g) PROVE AcceptInv'
  <2>1. CASE NewSession(g) BY <2>1, <1>NewSessionAccept
  <2>2. CASE AssignSess(g) BY SMTT(60), ZenonT(60), <2>2, <1>AssignSessAccept
  <2>3. CASE SetIdCb(g) BY <2>3, <1>SetIdCbAccept
  <2>4. CASE CheckId(g) BY <2>4, <1>CheckIdAccept
  <2>5. CASE IdCallback(g) BY <2>5, <1>IdCallbackAccept
  <2>6. CASE Register(g) BY <2>6, <1>RegisterAccept
  <2>7. CASE Panic(g) BY <2>7, <1>AcceptStill DEF Panic, linkVars, peerVars, hubVars
  <2>8. CASE InnerStep(g) BY <2>8, <1>InnerAccept
  <2> QED BY ZenonT(60), <1>5, <2>1, <2>2, <2>3, <2>4, <2>5, <2>6, <2>7, <2>8, StepSplit
<1> QED BY ZenonT(60), <1>1, <1>2, <1>3, <1>4, <1>5 DEF Next

\* acceptLink, the identification and the packets of a link keep the order that
\* its session needs, however they interleave.
THEOREM AcceptInvariant == Spec => []AcceptInv
<1>1. Init => AcceptInv BY InitAccept
<1>2. HubInv /\ HubInv' /\ AcceptInv /\ [Next]_vars => AcceptInv' BY NextAccept
<1> QED BY <1>1, <1>2, HubInvariant, PTL DEF Spec

\* For any number of links: the identification that arrives while acceptLink
\* installs its callbacks leads to register all the same (acceptLink,
\* Link.HandleIdentification).
THEOREM IdentificationIsNotLost == Spec => []IdentificationNotLost
<1>1. AcceptInv => IdentificationNotLost
  <2> SUFFICES ASSUME AcceptInv, NEW l \in Links, gr[Accept(l)].pc = "done",
                      gr[Ident(l)].pc = "done"
               PROVE  once[l] # "no"
    BY DEF IdentificationNotLost
  <2>1. IdentOK(l, remoteId, idCb, once, gr) BY DEF AcceptInv, IdentInv
  <2>2. gr[Accept(l)].ret # "assignSess" BY Keys DEF AcceptInv, PlaceInv, Place
  <2>3. ~Looking(l, gr) BY <2>2 DEF Looking, Before
  <2> QED BY <2>1, <2>3 DEF IdentOK
<1> QED BY <1>1, AcceptInvariant, PTL

\* For any number of links: a method is called on a nil session only between the
\* callback that newSession sets and the assignment of hubPeer.sess (acceptLink,
\* handlePeer, session.close).
THEOREM NilIsWhileAccepting == Spec => []NilOnlyWhileAccepting
<1>1. HubInv /\ AcceptInv => NilOnlyWhileAccepting
  <2> SUFFICES ASSUME HubInv, AcceptInv, NEW g \in Procs, NEW l \in Derefs(gr[g]), ~sess[l]
               PROVE  gr[Accept(l)].ret = "assignSess" \/ gr[Accept(l)].pc = "assignSess"
    BY SMTT(60), ZenonT(60) DEF NilOnlyWhileAccepting
  <2> DEFINE r == gr[g]
  <2>1. Served(r, sess, gr) BY DEF AcceptInv, SessInv
  <2>2. \/ r.pc = "close" /\ l \in r.todo
        \/ r.pc \in {"handle", "welcome", "reply", "content"} /\ l = r.link
    <3>1. l \in Derefs(r) OBVIOUS
    <3> HIDE DEF r
    <3>2. CASE r.pc = "handle" BY <3>1, <3>2 DEF Derefs
    <3>3. CASE r.pc \in {"welcome", "reply", "content"}
      <4>1. Derefs(r) = {r.link} BY <3>3 DEF Derefs
      <4> QED BY <3>1, <3>3, <4>1
    <3>4. CASE r.pc = "close"
      <4>1. Derefs(r) = r.todo BY <3>4 DEF Derefs
      <4> QED BY <3>1, <3>4, <4>1
    <3>5. CASE r.pc \notin {"handle", "welcome", "reply", "content", "close"}
      <4>1. Derefs(r) = {} BY SMTT(60), ZenonT(60), <3>5 DEF Derefs
      <4> QED BY <3>1, <4>1
    <3> QED BY <3>2, <3>3, <3>4, <3>5
  <2>3. r.pc \in {"handle", "welcome", "reply", "content"} => r.link \in Links
    BY SMTT(60), GrAt DEF LocalOK
  <2>4. r.pc \in {"handle", "welcome", "reply", "content"} =>
          r.pc \notin {"newSession", "idCallback"}
    OBVIOUS
  <2> HIDE DEF r
  <2>5. HasSession(l, sess, gr) BY ZenonT(60), <2>1, <2>2, <2>3, <2>4 DEF Served
  <2> QED BY <2>5 DEF HasSession
<1> QED BY <1>1, HubInvariant, AcceptInvariant, PTL

-----------------------------------------------------------------------------
(* registerOnce and the two views of the rooms. *)

\* The goroutine has not entered registerOnce.Do.
Move(r, x) ==
  /\ x.reg => r.reg /\ x.link = r.link
  /\ x.pc = "endReg" => x.reg
  /\ x.pc # "regLock"

\* Nor does one that goes to a label outside of it.
LEMMA MoveAt ==
  ASSUME NEW r \in Goroutine, NEW p, p \notin {"endReg", "regLock"}
  PROVE  Move(r, At(r, p))
<1>1. Done.pc = "done" /\ Done.reg = FALSE BY DEF Done, Idle
<1>2. Move(r, Done) BY <1>1 DEF Move
<1>3. CASE p = "done" BY SMTT(60), <1>2, <1>3 DEF At
<1>4. CASE p # "done" BY <1>2, <1>4, AtFields DEF Move
<1> QED BY <1>3, <1>4

\* The goroutine g moves, outside of register.
Moving(g) == \E x : gr' = [gr EXCEPT ![g] = x] /\ Move(gr[g], x)

\* A step moves nobody that matters, one goroutine, or enters registerOnce.Do.
LEMMA StepKinds ==
  ASSUME HubInv, [Next]_vars
  PROVE  \/ UNCHANGED <<gr, once, peers, joined, rooms>>
         \/ \E g \in Procs : Moving(g) /\ UNCHANGED <<once, peers, joined, rooms>>
         \/ \E g \in Procs : Moving(g) /\ InnerStep(g)
         \/ HubClose
         \/ \E g \in Procs : Register(g)
\* A step inside a callback does not enter registerOnce.Do.
<1>OnwardMove.
    ASSUME NEW r, NEW x, Onward(r, x)
    PROVE  Move(r, x)
  BY ZenonT(60), <1>OnwardMove DEF Onward, Move

\* Nor does a goroutine that begins.
<1>EnterMove.
    ASSUME NEW r \in Goroutine, NEW l, NEW e
    PROVE  /\ Move(r, [Idle EXCEPT !.pc = "newSession", !.link = l])
           /\ Move(r, [Idle EXCEPT !.pc = "idCallback", !.link = l])
           /\ Move(r, [Idle EXCEPT !.pc = "recv", !.link = l, !.own = e])
  BY <1>EnterMove DEF Move, Idle

\* Nor do the steps of acceptLink.
<1>OuterMove.
    ASSUME HubInv, NEW g \in Procs,
           NewSession(g) \/ AssignSess(g) \/ SetIdCb(g) \/ CheckId(g) \/ IdCallback(g)
    PROVE  Moving(g) /\ UNCHANGED <<once, peers, joined, rooms>>
  <2> USE <1>OuterMove
  <2> DEFINE r == gr[g]
  <2>0. r \in Goroutine BY GrAt
  <2>1. UNCHANGED <<once, peers, joined, rooms>>
    BY DEF NewSession, AssignSess, SetIdCb, CheckId, IdCallback, peerVars, hubVars
  <2>2. CASE NewSession(g)
    <3> DEFINE y == [r EXCEPT !.pc = "recv", !.own = plain[r.link], !.ret = "assignSess"]
               z == At(r, "assignSess")
    <3>1. gr' = [gr EXCEPT ![g] = z] \/ gr' = [gr EXCEPT ![g] = y]
      BY ZenonT(60), <2>2 DEF NewSession
    <3> HIDE DEF r
    <3>2. y.pc = "recv" /\ y.reg = r.reg /\ y.link = r.link BY <2>0 DEF Goroutine
    <3>3. Move(r, z) BY SMTT(60), <2>0, MoveAt
    <3> HIDE DEF y, z
    <3>4. Move(r, y) BY <3>2 DEF Move
    <3> QED BY ZenonT(60), <2>1, <3>1, <3>3, <3>4 DEF Moving, r
  <2>3. CASE AssignSess(g)
    <3> DEFINE y == [r EXCEPT !.pc = "setIdCb", !.own = NoEnv, !.ret = "done"]
    <3>1. gr' = [gr EXCEPT ![g] = y] BY ZenonT(60), <2>3 DEF AssignSess
    <3> HIDE DEF r
    <3>2. y.pc = "setIdCb" /\ y.reg = r.reg /\ y.link = r.link BY <2>0 DEF Goroutine
    <3> HIDE DEF y
    <3>3. Move(r, y) BY <3>2 DEF Move
    <3> QED BY ZenonT(60), <2>1, <3>1, <3>3 DEF Moving, r
  <2>4. CASE SetIdCb(g) \/ CheckId(g) \/ IdCallback(g)
    <3>1. \E p \in {"checkId", "register", "done"} : gr' = [gr EXCEPT ![g] = At(r, p)]
      BY ZenonT(60), <2>4 DEF SetIdCb, CheckId, IdCallback
    <3> HIDE DEF r
    <3>2. \A p \in {"checkId", "register", "done"} : Move(r, At(r, p)) BY <2>0, MoveAt
    <3> QED BY ZenonT(60), <2>1, <3>1, <3>2 DEF Moving, r
  <2> QED BY SMTT(60), <2>2, <2>3, <2>4

<1>0. gr \in [Procs -> Goroutine] BY ZenonT(60) DEF HubInv, TypeOK
<1>1. CASE UNCHANGED vars BY <1>1 DEF vars, peerVars, hubVars
<1>2. ASSUME NEW l \in Links, LinkStep(l)
      PROVE  \/ UNCHANGED <<gr, once, peers, joined, rooms>>
             \/ \E g \in Procs : Moving(g) /\ UNCHANGED <<once, peers, joined, rooms>>
  <2>0. UNCHANGED <<once, peers, joined, rooms>>
    BY <1>2 DEF LinkStep, LinkUp, Identified, LinkLost, LinkStale, peerVars, hubVars
  <2>1. CASE LinkUp(l)
    <3>1. gr' = [gr EXCEPT ![Accept(l)] = [Idle EXCEPT !.pc = "newSession", !.link = l]]
      BY <2>1 DEF LinkUp
    <3>2. Moving(Accept(l)) BY ZenonT(60), <1>0, <3>1, <1>EnterMove, Keys DEF Moving
    <3> QED BY <2>0, <3>2, Keys
  <2>2. CASE Identified(l)
    <3>1. gr' = [gr EXCEPT ![Ident(l)] = [Idle EXCEPT !.pc = "idCallback", !.link = l]]
      BY <2>2 DEF Identified
    <3>2. Moving(Ident(l)) BY ZenonT(60), <1>0, <3>1, <1>EnterMove, Keys DEF Moving
    <3> QED BY <2>0, <3>2, Keys
  <2>3. CASE LinkLost(l) \/ LinkStale(l) BY <2>0, <2>3 DEF LinkLost, LinkStale
  <2> QED BY <1>2, <2>1, <2>2, <2>3 DEF LinkStep
<1>3. ASSUME NEW g \in Packets, NEW l, NEW e, PacketIn(g, l, e)
      PROVE  \E h \in Procs : Moving(h) /\ UNCHANGED <<once, peers, joined, rooms>>
  <2>0. UNCHANGED <<once, peers, joined, rooms>> BY <1>3 DEF PacketIn, peerVars, hubVars
  <2>1. g \in Procs /\ gr[g] \in Goroutine BY <1>0 DEF Procs
  <2>2. \/ gr' = [gr EXCEPT ![g] = [Idle EXCEPT !.pc = "recv", !.link = l, !.own = e]]
        \/ gr' = [gr EXCEPT ![g] = Done]
    BY ZenonT(60), <1>3 DEF PacketIn
  <2>3. Move(gr[g], Done)
    <3>1. Move(gr[g], At(gr[g], "done")) BY <2>1, MoveAt
    <3> QED BY <3>1 DEF At
  <2>4. Moving(g) BY ZenonT(60), <2>1, <2>2, <2>3, <1>EnterMove DEF Moving
  <2> QED BY <2>0, <2>1, <2>4
<1>4. ASSUME NEW g \in Procs, Step(g)
      PROVE  \/ UNCHANGED <<gr, once, peers, joined, rooms>>
             \/ \E h \in Procs : Moving(h) /\ UNCHANGED <<once, peers, joined, rooms>>
             \/ \E h \in Procs : Moving(h) /\ InnerStep(h)
             \/ \E h \in Procs : Register(h)
  <2>1. CASE Panic(g) BY <2>1 DEF Panic, peerVars, hubVars
  <2>2. CASE NewSession(g) \/ AssignSess(g) \/ SetIdCb(g) \/ CheckId(g) \/ IdCallback(g)
    BY ZenonT(60), <2>2, <1>OuterMove
  <2>3. CASE InnerStep(g)
    <3>1. Moving(g) BY ZenonT(60), <2>3, InnerOnward, <1>OnwardMove DEF GoesOn, Moving
    <3> QED BY <2>3, <3>1
  <2>4. CASE Register(g) BY <2>4
  <2> QED BY ZenonT(60), <1>4, <2>1, <2>2, <2>3, <2>4, StepSplit
<1> QED BY ZenonT(60), <1>1, <1>2, <1>3, <1>4 DEF Next

\* Inside registerOnce.Do the once is running, for one goroutine only.
OnceInv ==
  /\ \A g \in Procs : /\ gr[g].pc = "endReg" => gr[g].reg
                      /\ gr[g].reg => once[gr[g].link] = "running"
  /\ \A g, h \in Procs : gr[g].reg /\ gr[h].reg /\ gr[g].link = gr[h].link => g = h

\* What is under a key in Hub.peers is a session of this identity that has
\* passed the critical section of register, for good.
PeersInv ==
  \A k \in Ids : peers[k] # NoLink =>
    /\ IdOf[peers[k]] = k /\ once[peers[k]] # "no"
    /\ \A g \in Procs : gr[g].pc = "regLock" => gr[g].link # peers[k]

\* Every step of the hub preserves OnceInv and PeersInv.
LEMMA NextOnce ==
  HubInv /\ OnceInv /\ PeersInv /\ [Next]_vars => OnceInv' /\ PeersInv'
\* Outside registerOnce.Do a goroutine may move freely.
<1>OnceMove.
    ASSUME TypeOK, OnceInv, NEW g \in Procs, Moving(g), UNCHANGED once
    PROVE  OnceInv'
  <2> USE <1>OnceMove
  <2>1. PICK x : gr' = [gr EXCEPT ![g] = x] /\ Move(gr[g], x) BY ZenonT(60) DEF Moving
  <2>2. gr \in [Procs -> Goroutine] BY ZenonT(60) DEF TypeOK
  <2>3. gr'[g] = x /\ \A h \in Procs : h # g => gr'[h] = gr[h] BY <2>1, <2>2
  <2>4. \A h \in Procs : /\ gr'[h].reg => gr[h].reg /\ gr'[h].link = gr[h].link
                         /\ gr'[h].pc = "endReg" => gr'[h].reg
    BY ZenonT(60), <2>1, <2>3 DEF Move, OnceInv
  <2> QED BY ZenonT(60), <2>4 DEF OnceInv

\* A goroutine moves, and Hub.peers loses keys at most.
<1>PeersMove.
    ASSUME TypeOK, PeersInv, NEW g \in Procs, Moving(g),
           \A l \in Links : once[l] # "no" => once'[l] # "no",
           \A k \in Ids : peers'[k] \in {NoLink, peers[k]}
    PROVE  PeersInv'
  <2> USE <1>PeersMove
  <2>1. PICK x : gr' = [gr EXCEPT ![g] = x] /\ Move(gr[g], x) BY ZenonT(60) DEF Moving
  <2>2. gr \in [Procs -> Goroutine] /\ peers \in [Ids -> Links \cup {NoLink}]
    BY ZenonT(60) DEF TypeOK
  <2>3. \A h \in Procs : gr'[h] = IF h = g THEN x ELSE gr[h] BY <2>1, <2>2
  <2>4. \A h \in Procs : gr'[h].pc = "regLock" => gr[h].pc = "regLock" /\ gr'[h].link = gr[h].link
    BY ZenonT(60), <2>1, <2>3 DEF Move
  <2>5. \A k \in Ids : peers'[k] # NoLink => peers'[k] = peers[k] /\ peers[k] \in Links
    BY ZenonT(60), <2>2
  <2>6. ASSUME NEW k \in Ids, peers'[k] # NoLink
        PROVE  /\ IdOf[peers'[k]] = k /\ once'[peers'[k]] # "no"
               /\ \A h \in Procs : gr'[h].pc = "regLock" => gr'[h].link # peers'[k]
    <3>1. peers'[k] = peers[k] /\ peers[k] \in Links /\ peers[k] # NoLink BY <2>5, <2>6
    <3>2. /\ IdOf[peers[k]] = k /\ once[peers[k]] # "no"
          /\ \A h \in Procs : gr[h].pc = "regLock" => gr[h].link # peers[k]
      BY ZenonT(60), <3>1 DEF PeersInv
    <3>3. once'[peers[k]] # "no" BY <3>1, <3>2
    <3> QED BY SMTT(60), ZenonT(60), <2>4, <3>1, <3>2, <3>3
  <2> QED BY ZenonT(60), <2>6 DEF PeersInv

\* A goroutine at the critical section of register is alone in registerOnce.Do.
<1>RegLockAlone.
    ASSUME HubInv, OnceInv, NEW g \in Procs, gr[g].pc = "regLock"
    PROVE  /\ gr[g].link \in Links /\ gr[g].reg /\ once[gr[g].link] = "running"
           /\ \A h \in Procs : gr[h].pc = "regLock" /\ gr[h].link = gr[g].link => h = g
  <2> USE <1>RegLockAlone
  <2>1. \A h \in Procs : gr[h].pc = "regLock" => gr[h].reg BY SMTT(60), ZenonT(60), GrAt DEF LocalOK
  <2>2. gr[g].link \in Links BY GrAt DEF LocalOK
  <2> QED BY ZenonT(60), <2>1, <2>2 DEF OnceInv

\* The critical section of register makes the session the one of its key.
<1>RegisterLockOnce.
    ASSUME HubInv, OnceInv, PeersInv, NEW g \in Procs, Moving(g), RegisterLock(g)
    PROVE  OnceInv' /\ PeersInv'
  <2> USE <1>RegisterLockOnce
  <2> DEFINE l == gr[g].link
  <2>0. TypeOK BY DEF HubInv
  <2>1. /\ gr[g].pc = "regLock" /\ peers' = [peers EXCEPT ![IdOf[l]] = l] /\ UNCHANGED once
    BY SMTT(60) DEF RegisterLock
  <2>2. OnceInv' BY SMTT(60), ZenonT(60), <2>0, <2>1, <1>OnceMove
  <2>3. /\ l \in Links /\ once[l] = "running"
        /\ \A h \in Procs : gr[h].pc = "regLock" /\ gr[h].link = l => h = g
    BY <2>1, <1>RegLockAlone
  <2>4. PICK x : gr' = [gr EXCEPT ![g] = x] /\ Move(gr[g], x) BY ZenonT(60) DEF Moving
  <2>5. gr \in [Procs -> Goroutine] /\ peers \in [Ids -> Links \cup {NoLink}]
    BY ZenonT(60), <2>0 DEF TypeOK
  <2>6. \A h \in Procs : gr'[h] = IF h = g THEN x ELSE gr[h] BY <2>4, <2>5
  <2>7. \A h \in Procs : gr'[h].pc = "regLock" => h # g /\ gr'[h] = gr[h]
    BY ZenonT(60), <2>4, <2>6 DEF Move
  <2> HIDE DEF l
  <2>8. ASSUME NEW k \in Ids, peers'[k] # NoLink
        PROVE  /\ IdOf[peers'[k]] = k /\ once'[peers'[k]] # "no"
               /\ \A h \in Procs : gr'[h].pc = "regLock" => gr'[h].link # peers'[k]
    <3>1. CASE k = IdOf[l]
      <4>1. peers'[k] = l BY SMTT(60), ZenonT(60), <2>1, <2>5, <3>1
      <4>2. once[l] # "no" BY SMTT(60), ZenonT(60), <2>3
      <4> QED BY ZenonT(60), <2>1, <2>3, <2>7, <3>1, <4>1, <4>2
    <3>2. CASE k # IdOf[l]
      <4>1. peers'[k] = peers[k] BY SMTT(60), ZenonT(60), <2>1, <2>5, <3>2
      <4>2. /\ IdOf[peers[k]] = k /\ once[peers[k]] # "no"
            /\ \A h \in Procs : gr[h].pc = "regLock" => gr[h].link # peers[k]
        BY <2>8, <4>1 DEF PeersInv
      <4> QED BY SMTT(60), ZenonT(60), <2>1, <2>7, <4>1, <4>2
    <3> QED BY <3>1, <3>2
  <2>9. PeersInv' BY ZenonT(60), <2>8 DEF PeersInv
  <2> QED BY <2>2, <2>9

\* registerOnce.Do ends.
<1>EndRegisterOnce.
    ASSUME HubInv, OnceInv, PeersInv, NEW g \in Procs, Moving(g), EndRegister(g)
    PROVE  OnceInv' /\ PeersInv'
  <2> USE <1>EndRegisterOnce
  <2> DEFINE r == gr[g]
             l == r.link
             y == [r EXCEPT !.reg = FALSE]
  <2>0. TypeOK /\ r \in Goroutine BY SMTT(60), GrAt DEF HubInv
  <2>1. r.pc = "endReg" /\ once' = [once EXCEPT ![l] = "done"] /\ UNCHANGED peers
    BY SMTT(60) DEF EndRegister, hubVars
  <2>2. r.reg BY <2>1 DEF OnceInv
  <2>3. l \in Links BY ZenonT(60), <2>2, GrAt DEF LocalOK, Owned
  <2>4. \E p \in {"recheck", r.ret} : gr' = [gr EXCEPT ![g] = At(y, p)]
    BY ZenonT(60) DEF EndRegister
  <2>5. gr \in [Procs -> Goroutine] /\ once \in [Links -> {"no", "running", "done"}]
        /\ peers \in [Ids -> Links \cup {NoLink}]
    BY ZenonT(60), <2>0 DEF TypeOK
  <2> HIDE DEF r
  <2>6. \A p \in {"recheck", r.ret} : ~At(y, p).reg /\ At(y, p).pc # "endReg"
    <3>1. y \in Goroutine /\ y.reg = FALSE BY ZenonT(60), <2>0 DEF Goroutine
    <3>2. r.ret # "endReg" BY SMTT(60), <2>0 DEF Goroutine
    <3> HIDE DEF y
    <3>3. \A p : p # "done" => At(y, p).reg = FALSE /\ At(y, p).pc = p BY SMTT(60), <3>1, AtFields
    <3>4. At(y, "done").reg = FALSE /\ At(y, "done").pc = "done" BY DEF At, Done, Idle
    <3> QED BY SMTT(60), <3>2, <3>3, <3>4
  <2>7. PICK x : gr' = [gr EXCEPT ![g] = x] /\ ~x.reg /\ x.pc # "endReg"
    BY ZenonT(60), <2>4, <2>6
  <2>8. \A h \in Procs : gr'[h] = IF h = g THEN x ELSE gr[h] BY SMTT(60), <2>5, <2>7
  <2>9. \A m \in Links : (once[m] # "no" => once'[m] # "no") /\ (m # l => once'[m] = once[m])
    <3> HIDE DEF l
    <3> QED BY <2>1, <2>5
  <2>10. PeersInv'
    BY ZenonT(60), <2>0, <2>1, <2>9, <1>PeersMove
  <2>11. \A h \in Procs : gr'[h].reg => gr'[h] = gr[h] /\ h # g /\ gr[h].reg
    BY ZenonT(60), <2>7, <2>8
  <2>12. \A h \in Procs : gr[h].reg /\ h # g => gr[h].link \in Links /\ gr[h].link # l
    <3>1. \A h \in Procs : gr[h].reg => gr[h].link \in Links BY GrAt DEF LocalOK, Owned
    <3> QED BY ZenonT(60), <2>2, <3>1 DEF OnceInv, r
  <2>13. \A h \in Procs : gr'[h].pc = "endReg" => gr'[h].reg
    BY ZenonT(60), <2>7, <2>8 DEF OnceInv
  <2>14. ASSUME NEW h \in Procs, gr'[h].reg PROVE once'[gr'[h].link] = "running"
    <3>1. gr'[h] = gr[h] /\ h # g /\ gr[h].reg BY <2>11, <2>14
    <3>2. gr[h].link \in Links /\ gr[h].link # l BY ZenonT(60), <2>12, <3>1
    <3>3. once[gr[h].link] = "running" BY SMTT(60), <3>1 DEF OnceInv
    <3>4. once'[gr[h].link] = once[gr[h].link] BY <2>9, <3>2
    <3> QED BY ZenonT(60), <3>1, <3>3, <3>4
  <2>15. \A h, i \in Procs : gr'[h].reg /\ gr'[i].reg /\ gr'[h].link = gr'[i].link => h = i
    BY ZenonT(60), <2>11 DEF OnceInv
  <2> QED BY ZenonT(60), <2>10, <2>13, <2>14, <2>15 DEF OnceInv

\* registerOnce.Do lets one goroutine in.
<1>RegisterOnce.
    ASSUME HubInv, OnceInv, PeersInv, NEW g \in Procs, Register(g)
    PROVE  OnceInv' /\ PeersInv'
  <2> USE <1>RegisterOnce
  <2> DEFINE r == gr[g]
             l == r.link
             x == [r EXCEPT !.pc = "regLock", !.reg = TRUE]
  <2>0. TypeOK /\ r \in Goroutine BY GrAt DEF HubInv
  <2>1. r.pc = "register" /\ UNCHANGED peers BY SMTT(60), ZenonT(60) DEF Register, hubVars
  <2>2. l \in Links BY <2>1, GrAt DEF LocalOK
  <2>3. gr \in [Procs -> Goroutine] /\ once \in [Links -> {"no", "running", "done"}]
        /\ peers \in [Ids -> Links \cup {NoLink}]
    BY ZenonT(60), <2>0 DEF TypeOK
  <2>4. CASE UNCHANGED once /\ \E p \in {"recheck", r.ret} : gr' = [gr EXCEPT ![g] = At(r, p)]
    <3>1. \A p \in {"recheck", r.ret} : Move(r, At(r, p))
      <4> HIDE DEF r
      <4>1. r.ret \in {"done", "assignSess"} BY ZenonT(60), <2>0 DEF Goroutine
      <4>2. \A p \in {"recheck", r.ret} : p \notin {"endReg", "regLock"} BY <4>1
      <4> QED BY SMTT(60), <2>0, <4>2, MoveAt
    <3>2. Moving(g)
      <4>1. PICK p \in {"recheck", r.ret} : gr' = [gr EXCEPT ![g] = At(r, p)] BY ZenonT(60), <2>4
      <4>2. Move(gr[g], At(r, p)) BY <3>1
      <4> QED BY ZenonT(60), <4>1, <4>2 DEF Moving
    <3>3. OnceInv' BY SMTT(60), <2>0, <2>4, <3>2, <1>OnceMove
    <3>4. PeersInv' BY ZenonT(60), <2>0, <2>1, <2>4, <3>2, <1>PeersMove
    <3> QED BY SMTT(60), <3>3, <3>4
  <2>5. CASE /\ once[l] = "no" /\ once' = [once EXCEPT ![l] = "running"]
             /\ gr' = [gr EXCEPT ![g] = x]
    <3> HIDE DEF r
    <3>1. x.pc = "regLock" /\ x.reg = TRUE /\ x.link = l BY <2>0 DEF Goroutine
    <3> HIDE DEF x, l
    <3>2. \A h \in Procs : gr'[h] = IF h = g THEN x ELSE gr[h] BY <2>3, <2>5
    <3>3. once'[l] = "running" /\ \A m \in Links : m # l => once'[m] = once[m]
      BY SMTT(60), <2>2, <2>3, <2>5
    <3>4. \A h \in Procs : gr[h].reg => gr[h].link \in Links /\ gr[h].link # l
      <4>1. \A h \in Procs : gr[h].reg => gr[h].link \in Links BY SMTT(60), GrAt DEF LocalOK, Owned
      <4>2. \A h \in Procs : gr[h].reg => once[gr[h].link] = "running" BY ZenonT(60) DEF OnceInv
      <4>3. "running" # "no" OBVIOUS
      <4> QED BY ZenonT(60), <2>5, <4>1, <4>2, <4>3
    <3>5. \A h \in Procs : gr'[h].pc = "endReg" => gr'[h].reg
      BY ZenonT(60), <3>1, <3>2 DEF OnceInv
    <3>6. ASSUME NEW h \in Procs, gr'[h].reg PROVE once'[gr'[h].link] = "running"
      <4>1. CASE h = g BY SMTT(60), ZenonT(60), <3>1, <3>2, <3>3, <4>1
      <4>2. CASE h # g
        <5>1. gr'[h] = gr[h] /\ gr[h].reg BY SMTT(60), <3>2, <3>6, <4>2
        <5>2. gr[h].link \in Links /\ gr[h].link # l BY ZenonT(60), <3>4, <5>1
        <5>3. once[gr[h].link] = "running" BY <5>1 DEF OnceInv
        <5>4. once'[gr[h].link] = once[gr[h].link] BY <3>3, <5>2
        <5> QED BY SMTT(60), <5>1, <5>3, <5>4
      <4> QED BY ZenonT(60), <4>1, <4>2
    <3>7. \A h, i \in Procs : gr'[h].reg /\ gr'[i].reg /\ gr'[h].link = gr'[i].link => h = i
      <4>1. \A h \in Procs : gr'[h].reg => h = g \/ (gr[h].reg /\ gr'[h].link # l)
        BY ZenonT(60), <3>2, <3>4
      <4>2. gr'[g].link = l BY <3>1, <3>2
      <4> QED BY ZenonT(60), <3>2, <4>1, <4>2 DEF OnceInv
    <3>8. \A k \in Ids : peers[k] # NoLink => peers[k] \in Links /\ peers[k] # l
      BY ZenonT(60), <2>3, <2>5 DEF PeersInv
    <3>9. ASSUME NEW k \in Ids, peers'[k] # NoLink
          PROVE  /\ IdOf[peers'[k]] = k /\ once'[peers'[k]] # "no"
                 /\ \A h \in Procs : gr'[h].pc = "regLock" => gr'[h].link # peers'[k]
      <4>1. peers'[k] = peers[k] /\ peers[k] \in Links /\ peers[k] # l BY <2>1, <3>8, <3>9
      <4>2. /\ IdOf[peers[k]] = k /\ once[peers[k]] # "no"
            /\ \A h \in Procs : gr[h].pc = "regLock" => gr[h].link # peers[k]
        BY ZenonT(60), <3>9, <4>1 DEF PeersInv
      <4>3. once'[peers[k]] # "no" BY SMTT(60), <3>3, <4>1, <4>2
      <4>4. \A h \in Procs : gr'[h].pc = "regLock" => gr'[h].link # peers[k]
        BY ZenonT(60), <3>1, <3>2, <4>1, <4>2
      <4> QED BY SMTT(60), ZenonT(60), <4>1, <4>2, <4>3, <4>4
    <3>10. PeersInv' BY ZenonT(60), <3>9 DEF PeersInv
    <3> QED BY ZenonT(60), <3>5, <3>6, <3>7, <3>10 DEF OnceInv
  <2> QED BY ZenonT(60), <2>4, <2>5 DEF Register

<1> SUFFICES ASSUME HubInv, OnceInv, PeersInv, [Next]_vars PROVE OnceInv' /\ PeersInv'
  OBVIOUS
<1>0. TypeOK BY DEF HubInv
<1>1. CASE UNCHANGED <<gr, once, peers, joined, rooms>>
  BY ZenonT(60), <1>1 DEF OnceInv, PeersInv
<1>2. ASSUME NEW g \in Procs, Moving(g), UNCHANGED <<once, peers>> PROVE OnceInv' /\ PeersInv'
  BY ZenonT(60), <1>0, <1>2, <1>OnceMove, <1>PeersMove
<1>3. ASSUME NEW g \in Procs, Moving(g), InnerStep(g) PROVE OnceInv' /\ PeersInv'
  <2>1. CASE RegisterLock(g) BY SMTT(60), <1>3, <2>1, <1>RegisterLockOnce
  <2>2. CASE EndRegister(g) BY SMTT(60), ZenonT(60), <1>3, <2>2, <1>EndRegisterOnce
  <2>3. CASE UNCHANGED <<once, peers>> BY <1>2, <1>3, <2>3
  <2>4. CASE UNCHANGED once /\ DropPeerIf(g)
    <3>0. peers \in [Ids -> Links \cup {NoLink}] BY ZenonT(60), <1>0 DEF TypeOK
    <3>1. UNCHANGED peers \/ \E k \in {IdOf[gr[g].cur]} : peers' = [peers EXCEPT ![k] = NoLink]
      BY <2>4 DEF DropPeerIf, hubVars
    <3>2. \A k \in Ids : peers'[k] \in {NoLink, peers[k]} BY <3>0, <3>1
    <3> QED BY ZenonT(60), <1>0, <1>3, <2>4, <3>2, <1>OnceMove, <1>PeersMove
  <2> QED BY ZenonT(60), <1>3, <2>1, <2>2, <2>3, <2>4, InnerFrame
<1>4. CASE HubClose
  <2>1. PICK x : gr' = [gr EXCEPT ![Closer] = x] /\ Onward(Idle, x) BY <1>4, HubCloseOnward
  <2>2. ~x.reg /\ x.pc # "endReg" /\ x.pc # "regLock"
    <3>1. Idle.reg = FALSE BY DEF Idle
    <3> QED BY ZenonT(60), <2>1, <3>1 DEF Onward
  <2>3. Closer \in Procs /\ Moving(Closer) BY ZenonT(60), <2>1, <2>2 DEF Moving, Move, Procs
  <2>4. UNCHANGED once /\ peers' = [k \in Ids |-> NoLink] BY <1>4 DEF HubClose, peerVars
  <2>5. \A k \in Ids : peers'[k] \in {NoLink, peers[k]} BY <2>4
  <2> QED BY ZenonT(60), <1>0, <2>3, <2>4, <2>5, <1>OnceMove, <1>PeersMove
<1>5. ASSUME NEW g \in Procs, Register(g) PROVE OnceInv' /\ PeersInv'
  BY <1>5, <1>RegisterOnce
<1> QED BY ZenonT(60), <1>1, <1>2, <1>3, <1>4, <1>5, StepKinds

\* The links that are welcomed at the start have registered.
LEMMA InitOnce == Init => OnceInv /\ PeersInv
<1> SUFFICES ASSUME Init PROVE OnceInv /\ PeersInv OBVIOUS
<1>1. /\ gr = [g \in Procs |-> IF \E l \in Welcomed : g \in {Accept(l), Ident(l)}
                               THEN Done ELSE Idle]
      /\ once = [l \in Links |-> IF l \in Welcomed THEN "done" ELSE "no"]
      /\ peers = [k \in Ids |-> IF \E l \in Welcomed : IdOf[l] = k
                                THEN CHOOSE l \in Welcomed : IdOf[l] = k ELSE NoLink]
  BY DEF Init
<1>2. Idle.pc = "idle" /\ Idle.reg = FALSE /\ Done.pc = "done" /\ Done.reg = FALSE
  BY DEF Done, Idle
<1>3. \A g \in Procs : gr[g] = Idle \/ gr[g] = Done BY <1>1
<1>4. \A g \in Procs : ~gr[g].reg /\ gr[g].pc # "endReg" /\ gr[g].pc # "regLock"
  BY SMTT(60), <1>2, <1>3
<1>5. ASSUME NEW k \in Ids, peers[k] # NoLink PROVE IdOf[peers[k]] = k /\ once[peers[k]] # "no"
  <2>1. \E l \in Welcomed : IdOf[l] = k BY SMTT(60), <1>1, <1>5
  <2>2. peers[k] \in Welcomed /\ IdOf[peers[k]] = k BY <1>1, <2>1
  <2>3. Welcomed \subseteq Links BY HubAssumption
  <2> QED BY SMTT(60), <1>1, <2>2, <2>3
<1> QED BY ZenonT(60), <1>4, <1>5 DEF OnceInv, PeersInv

\* For any number of links and packets: registerOnce.Do is entered by one
\* goroutine of a session and left once; what Hub.peers holds under a key is a
\* session of this identity that has been through it (register, dropPeerIf).
THEOREM RegistersOnce == Spec => [](OnceInv /\ PeersInv)
<1>1. Init => OnceInv /\ PeersInv BY InitOnce
<1>2. HubInv /\ (OnceInv /\ PeersInv) /\ [Next]_vars => (OnceInv /\ PeersInv)' BY SMTT(60), NextOnce
<1> QED BY <1>1, <1>2, HubInvariant, PTL DEF Spec

\* Each identity has one link, and the hub is not closed.
Single == (\A l, m \in Links : IdOf[l] = IdOf[m] => l = m) /\ ~MayClose

\* The session is in Hub.peers or has not passed register yet.
Current(l) ==
  \/ peers[IdOf[l]] = l \/ once[l] = "no"
  \/ \E g \in Procs : gr[g].pc = "regLock" /\ gr[g].link = l

SameRooms(l) == \A r \in Rooms : r \in joined[l] <=> IdOf[l] \in rooms[r]

ViewsInv == Single => \A l \in Links : Current(l) => SameRooms(l)

\* A step that neither makes a session current nor touches its rooms.
LEMMA ViewsKept ==
  ASSUME ViewsInv,
         Single => \A l \in Links : Current(l)' =>
           \/ SameRooms(l)'
           \/ /\ Current(l) /\ joined'[l] = joined[l]
              /\ \A r \in Rooms : IdOf[l] \in rooms'[r] <=> IdOf[l] \in rooms[r]
  PROVE  ViewsInv'
<1> SUFFICES ASSUME Single, NEW l \in Links, Current(l)' PROVE SameRooms(l)'
  BY SMTT(60) DEF ViewsInv
<1>1. CASE SameRooms(l)' BY <1>1
<1>2. CASE /\ Current(l) /\ joined'[l] = joined[l]
           /\ \A r \in Rooms : IdOf[l] \in rooms'[r] <=> IdOf[l] \in rooms[r]
  <2>1. SameRooms(l) BY <1>2 DEF ViewsInv
  <2> QED BY ZenonT(60), <1>2, <2>1 DEF SameRooms
<1> QED BY SMTT(60), ZenonT(60), <1>1, <1>2

\* A goroutine that moves makes no session current.
LEMMA CurrentMove ==
  ASSUME TypeOK, NEW g \in Procs, Moving(g), NEW l \in Links, Current(l)',
         once'[l] = "no" => once[l] = "no",
         peers'[IdOf[l]] = l => peers[IdOf[l]] = l
  PROVE  Current(l)
<1>1. PICK x : gr' = [gr EXCEPT ![g] = x] /\ Move(gr[g], x) BY ZenonT(60) DEF Moving
<1>2. gr \in [Procs -> Goroutine] BY ZenonT(60) DEF TypeOK
<1>3. \A h \in Procs : gr'[h] = IF h = g THEN x ELSE gr[h] BY <1>1, <1>2
<1>4. \A h \in Procs : gr'[h].pc = "regLock" => gr'[h] = gr[h]
  BY ZenonT(60), <1>1, <1>3 DEF Move
<1> QED BY ZenonT(60), <1>4 DEF Current

\* A goroutine moves and the rooms stay as they are.
LEMMA ViewsMove ==
  ASSUME TypeOK, ViewsInv, NEW g \in Procs, Moving(g), UNCHANGED <<peers, joined, rooms>>,
         \A l \in Links : once'[l] = "no" => once[l] = "no"
  PROVE  ViewsInv'
<1>1. \A l \in Links : Current(l)' => Current(l) BY ZenonT(60), CurrentMove
<1> QED BY ZenonT(60), <1>1, ViewsKept

\* register makes a session current that was pending, and finds no other one of
\* its identity.
LEMMA RegisterLockViews ==
  ASSUME HubInv, PeersInv, ViewsInv, NEW g \in Procs, Moving(g), RegisterLock(g)
  PROVE  ViewsInv'
<1> DEFINE l == gr[g].link
           k == IdOf[l]
<1>0. TypeOK /\ l \in Links /\ gr[g].pc = "regLock"
  <2>1. gr[g].pc = "regLock" BY DEF RegisterLock
  <2> QED BY ZenonT(60), <2>1, GrAt DEF HubInv, LocalOK
<1>1. /\ rooms' = Without(k, UNION {joined[o] : o \in Previous(l)})
      /\ peers' = [peers EXCEPT ![k] = l] /\ UNCHANGED <<once, joined>>
  BY DEF RegisterLock
<1>2. /\ peers \in [Ids -> Links \cup {NoLink}] /\ rooms \in [Rooms -> SUBSET Ids]
      /\ IdOf \in [Links -> Ids]
  BY ZenonT(60), <1>0, HubAssumption DEF TypeOK
<1>3. SUFFICES ASSUME Single, NEW m \in Links, Current(m)'
               PROVE  /\ Current(m) /\ joined'[m] = joined[m]
                      /\ \A r \in Rooms : IdOf[m] \in rooms'[r] <=> IdOf[m] \in rooms[r]
  BY ZenonT(60), ViewsKept
<1>4. Previous(l) = {}
  <2>1. peers[k] # NoLink => IdOf[peers[k]] = k /\ peers[k] \in Links
    BY <1>0, <1>2 DEF PeersInv
  <2>2. peers[k] # NoLink => peers[k] = l BY ZenonT(60), <1>0, <1>3, <2>1 DEF Single
  <2> QED BY SMTT(60), ZenonT(60), <2>2 DEF Previous
<1> HIDE DEF l
<1>5. \A r \in Rooms : rooms'[r] = rooms[r] BY SMTT(60), <1>1, <1>4 DEF Without
<1>6. Current(m)
  <2>1. CASE m = l BY ZenonT(60), <1>0, <2>1 DEF Current, l
  <2>2. CASE m # l
    <3>1. IdOf[m] # k BY ZenonT(60), <1>0, <1>3, <2>2 DEF Single
    <3>2. peers'[IdOf[m]] = peers[IdOf[m]] BY SMTT(60), <1>1, <1>2, <3>1
    <3> QED BY ZenonT(60), <1>0, <1>1, <1>3, <3>2, CurrentMove
  <2> QED BY <2>1, <2>2
<1> QED BY ZenonT(60), <1>1, <1>5, <1>6

\* The session that dropPeerIf takes out of Hub.peers never comes back.
LEMMA DropViews ==
  ASSUME HubInv, PeersInv, ViewsInv, NEW g \in Procs, Moving(g), DropPeerIf(g)
  PROVE  ViewsInv'
<1> DEFINE v == gr[g].cur
           k == IdOf[v]
<1>0. TypeOK /\ v \in Links
  <2>1. gr[g].pc = "drop" BY DEF DropPeerIf
  <2> QED BY ZenonT(60), <2>1, GrAt DEF HubInv, LocalOK
<1>1. UNCHANGED <<once, joined>> BY DEF DropPeerIf, peerVars
<1>2. /\ peers \in [Ids -> Links \cup {NoLink}] /\ rooms \in [Rooms -> SUBSET Ids]
      /\ IdOf \in [Links -> Ids] /\ NoLink \notin Links
  BY ZenonT(60), <1>0, HubAssumption DEF TypeOK
<1>3. CASE ~Registered(v)
  <2>1. UNCHANGED <<peers, rooms>> BY <1>3 DEF DropPeerIf, hubVars
  <2> QED BY ZenonT(60), <1>0, <1>1, <2>1, ViewsMove
<1>4. CASE Registered(v)
  <2>1. peers' = [peers EXCEPT ![k] = NoLink] /\ rooms' = Without(k, joined[v])
    BY <1>4 DEF DropPeerIf
  <2>2. peers[k] = v BY ZenonT(60), <1>4 DEF Registered
  <2> HIDE DEF v
  <2>3. SUFFICES ASSUME Single, NEW m \in Links, Current(m)'
                 PROVE  /\ Current(m) /\ joined'[m] = joined[m]
                        /\ \A r \in Rooms : IdOf[m] \in rooms'[r] <=> IdOf[m] \in rooms[r]
    BY ZenonT(60), ViewsKept
  <2>4. peers'[IdOf[m]] = m => peers[IdOf[m]] = m BY <1>2, <2>1
  <2>5. Current(m) BY ZenonT(60), <1>0, <1>1, <2>3, <2>4, CurrentMove
  <2>6. m # v
    <3>1. SUFFICES ASSUME m = v PROVE FALSE BY SMTT(60)
    <3>2. peers'[k] = NoLink /\ k \in Ids BY SMTT(60), ZenonT(60), <1>0, <1>2, <2>1
    <3>3. /\ once[v] # "no"
          /\ \A h \in Procs : gr[h].pc = "regLock" => gr[h].link # v
      BY SMTT(60), <1>0, <1>2, <2>2, <3>2 DEF PeersInv
    <3>4. PICK x : gr' = [gr EXCEPT ![g] = x] /\ Move(gr[g], x) BY ZenonT(60) DEF Moving
    <3>5. gr \in [Procs -> Goroutine] BY ZenonT(60), <1>0 DEF TypeOK
    <3>6. \A h \in Procs : gr'[h] = IF h = g THEN x ELSE gr[h] BY <3>4, <3>5
    <3>7. \A h \in Procs : gr'[h].pc = "regLock" => gr'[h] = gr[h]
      BY ZenonT(60), <3>4, <3>6 DEF Move
    <3>8. \A h \in Procs : gr'[h].pc = "regLock" => gr'[h].link # v
      BY ZenonT(60), <3>3, <3>7
    <3>9. peers'[IdOf[v]] # v BY SMTT(60), <1>0, <1>2, <3>2
    <3> QED BY ZenonT(60), <1>1, <2>3, <3>1, <3>3, <3>8, <3>9 DEF Current
  <2>7. IdOf[m] # k BY ZenonT(60), <1>0, <2>3, <2>6 DEF Single
  <2>8. \A r \in Rooms : IdOf[m] \in rooms'[r] <=> IdOf[m] \in rooms[r]
    BY SMTT(60), ZenonT(60), <2>1, <2>7 DEF Without
  <2> QED BY ZenonT(60), <1>1, <2>5, <2>8
<1> QED BY <1>3, <1>4

\* onJoin and onPart change both views in one critical section.
LEMMA JoinPartViews ==
  ASSUME HubInv, ViewsInv, NEW g \in Procs, Moving(g), OnJoin(g) \/ OnPart(g)
  PROVE  ViewsInv'
<1> DEFINE l == gr[g].link
           room == gr[g].env.room
<1>0. TypeOK /\ l \in Links
  <2>1. gr[g].pc \in {"join", "part"} BY ZenonT(60) DEF OnJoin, OnPart
  <2> QED BY ZenonT(60), <2>1, GrAt DEF HubInv, LocalOK
<1>1. UNCHANGED <<once, peers>> BY ZenonT(60) DEF OnJoin, OnPart
<1>2. /\ joined \in [Links -> SUBSET Rooms] /\ rooms \in [Rooms -> SUBSET Ids]
      /\ IdOf \in [Links -> Ids]
  BY ZenonT(60), <1>0, HubAssumption DEF TypeOK
<1>3. \/ UNCHANGED <<joined, rooms>>
      \/ /\ joined' = [joined EXCEPT ![l] = @ \cup {room}] /\ room \in Rooms
         /\ rooms' = [rooms EXCEPT ![room] = @ \cup {IdOf[l]}]
      \/ /\ joined' = [joined EXCEPT ![l] = @ \ {room}]
         /\ rooms' = Without(IdOf[l], {room})
  <2>1. CASE OnJoin(g)
    <3>1. room \in Rooms
      <4>1. gr[g].pc = "join" BY ZenonT(60), <2>1 DEF OnJoin
      <4> QED BY ZenonT(60), <4>1, GrAt DEF LocalOK
    <3> QED BY ZenonT(60), <2>1, <3>1 DEF OnJoin
  <2>2. CASE OnPart(g) BY ZenonT(60), <2>2 DEF OnPart
  <2> QED BY ZenonT(60), <2>1, <2>2
<1> HIDE DEF l, room
<1>4. SUFFICES ASSUME Single, NEW m \in Links, Current(m)'
               PROVE  \/ SameRooms(m)'
                      \/ /\ Current(m) /\ joined'[m] = joined[m]
                         /\ \A r \in Rooms : IdOf[m] \in rooms'[r] <=> IdOf[m] \in rooms[r]
  BY ZenonT(60), ViewsKept
<1>5. Current(m) BY ZenonT(60), <1>0, <1>1, <1>4, CurrentMove
<1>6. CASE m # l
  <2>1. IdOf[m] # IdOf[l] BY ZenonT(60), <1>0, <1>4, <1>6 DEF Single
  <2>2. joined'[m] = joined[m] BY SMTT(60), ZenonT(60), <1>2, <1>3, <1>6
  <2>3. \A r \in Rooms : IdOf[m] \in rooms'[r] <=> IdOf[m] \in rooms[r]
    BY SMTT(60), <1>2, <1>3, <2>1 DEF Without
  <2> QED BY ZenonT(60), <1>5, <2>2, <2>3
<1>7. CASE m = l
  <2>1. \A r \in Rooms : r \in joined[l] <=> IdOf[l] \in rooms[r]
    BY SMTT(60), ZenonT(60), <1>0, <1>4, <1>5, <1>7 DEF ViewsInv, SameRooms
  <2>2. \A r \in Rooms : r \in joined'[l] <=> IdOf[l] \in rooms'[r]
    <3>1. CASE UNCHANGED <<joined, rooms>> BY SMTT(60), ZenonT(60), <2>1, <3>1
    <3>2. CASE /\ joined' = [joined EXCEPT ![l] = @ \cup {room}] /\ room \in Rooms
               /\ rooms' = [rooms EXCEPT ![room] = @ \cup {IdOf[l]}]
      BY SMTT(60), <1>0, <1>2, <2>1, <3>2
    <3>3. CASE /\ joined' = [joined EXCEPT ![l] = @ \ {room}]
               /\ rooms' = Without(IdOf[l], {room})
      BY SMTT(60), <1>0, <1>2, <2>1, <3>3 DEF Without
    <3> QED BY SMTT(60), <1>3, <3>1, <3>2, <3>3
  <2> QED BY ZenonT(60), <1>7, <2>2 DEF SameRooms
<1> QED BY <1>6, <1>7

\* A session that begins to register stays current.
LEMMA RegisterViews ==
  ASSUME HubInv, ViewsInv, NEW g \in Procs, Register(g)
  PROVE  ViewsInv'
<1> DEFINE r == gr[g]
           l == r.link
           x == [r EXCEPT !.pc = "regLock", !.reg = TRUE]
<1>0. TypeOK /\ r \in Goroutine BY GrAt DEF HubInv
<1>1. UNCHANGED <<peers, joined, rooms>> BY DEF Register, hubVars
<1>2. gr \in [Procs -> Goroutine] /\ once \in [Links -> {"no", "running", "done"}]
  BY ZenonT(60), <1>0 DEF TypeOK
<1>3. CASE UNCHANGED once /\ \E p \in {"recheck", r.ret} : gr' = [gr EXCEPT ![g] = At(r, p)]
  <2>1. PICK p \in {"recheck", r.ret} : gr' = [gr EXCEPT ![g] = At(r, p)] BY ZenonT(60), <1>3
  <2>2. r.ret \in {"done", "assignSess"} BY ZenonT(60), <1>0 DEF Goroutine
  <2>3. p \notin {"endReg", "regLock"} BY SMTT(60), <2>2
  <2>4. Move(gr[g], At(r, p)) BY SMTT(60), <1>0, <2>3, MoveAt
  <2>5. Moving(g) BY ZenonT(60), <2>1, <2>4 DEF Moving
  <2> QED BY ZenonT(60), <1>0, <1>1, <1>3, <2>5, ViewsMove
<1>4. CASE /\ once[l] = "no" /\ once' = [once EXCEPT ![l] = "running"]
           /\ gr' = [gr EXCEPT ![g] = x]
  <2> HIDE DEF r
  <2>1. x.link = l BY <1>0 DEF Goroutine
  <2> HIDE DEF x, l
  <2>2. \A h \in Procs : gr'[h] = IF h = g THEN x ELSE gr[h] BY SMTT(60), ZenonT(60), <1>2, <1>4
  <2>3. \A m \in Links : once'[m] = "no" => once[m] = "no" BY <1>2, <1>4
  <2>4. ASSUME NEW m \in Links, Current(m)' PROVE Current(m)
    <3>1. CASE m = l BY <1>4, <3>1 DEF Current
    <3>2. CASE m # l
      BY ZenonT(60), <1>1, <2>1, <2>2, <2>3, <2>4, <3>2 DEF Current
    <3> QED BY SMTT(60), ZenonT(60), <3>1, <3>2
  <2> QED BY ZenonT(60), <1>1, <2>4, ViewsKept
<1> QED BY ZenonT(60), <1>3, <1>4 DEF Register

\* Every step of the hub preserves ViewsInv.
LEMMA NextViews ==
  ASSUME HubInv, PeersInv, ViewsInv, [Next]_vars
  PROVE  ViewsInv'
<1>0. TypeOK BY DEF HubInv
<1>1. CASE UNCHANGED <<gr, once, peers, joined, rooms>>
  BY ZenonT(60), <1>1 DEF ViewsInv, Single, Current, SameRooms
<1>2. ASSUME NEW g \in Procs, Moving(g), UNCHANGED <<once, peers, joined, rooms>> PROVE ViewsInv'
  BY ZenonT(60), <1>0, <1>2, ViewsMove
<1>3. ASSUME NEW g \in Procs, Moving(g), InnerStep(g) PROVE ViewsInv'
  <2>1. CASE RegisterLock(g) BY SMTT(60), ZenonT(60), <1>3, <2>1, RegisterLockViews
  <2>2. CASE DropPeerIf(g) BY SMTT(60), ZenonT(60), <1>3, <2>2, DropViews
  <2>3. CASE OnJoin(g) \/ OnPart(g) BY <1>3, <2>3, JoinPartViews
  <2>4. CASE UNCHANGED <<peers, joined, rooms>>
    <3>0. once \in [Links -> {"no", "running", "done"}] BY ZenonT(60), <1>0 DEF TypeOK
    <3>1. UNCHANGED once \/ \E l \in {gr[g].link} : once' = [once EXCEPT ![l] = "done"]
      <4>1. EndRegister(g) => \E l \in {gr[g].link} : once' = [once EXCEPT ![l] = "done"]
        BY DEF EndRegister
      <4> QED BY <1>3, <4>1, InnerFrame
    <3>2. \A l \in Links : once'[l] = "no" => once[l] = "no" BY <3>0, <3>1
    <3> QED BY ZenonT(60), <1>0, <1>3, <2>4, <3>2, ViewsMove
  <2> QED BY ZenonT(60), <1>3, <2>1, <2>2, <2>3, <2>4, InnerFrame
<1>4. CASE HubClose BY <1>4 DEF HubClose, ViewsInv, Single
<1>5. ASSUME NEW g \in Procs, Register(g) PROVE ViewsInv'
  BY <1>5, RegisterViews
<1> QED BY ZenonT(60), <1>1, <1>2, <1>3, <1>4, <1>5, StepKinds

\* For any number of links and rooms: while no identity opens a second link and
\* the hub is not closed, hubPeer.rooms of a registered session and Hub.rooms
\* say the same, through every interleaving of onJoin, onPart, register and
\* dropPeerIf.
THEOREM RoomViewsDoAgree == Spec => []RoomViewsAgree
<1>1. Init => ViewsInv
  <2> SUFFICES ASSUME Init PROVE \A l \in Links : SameRooms(l) BY DEF ViewsInv
  <2>1. joined = [m \in Links |-> {}] /\ rooms = [r \in Rooms |-> {}]
    BY ZenonT(60) DEF Init
  <2> QED BY <2>1 DEF SameRooms
<1>2. HubInv /\ (OnceInv /\ PeersInv) /\ ViewsInv /\ [Next]_vars => ViewsInv'
  BY NextViews
<1>3. ViewsInv => RoomViewsAgree
  BY ZenonT(60) DEF ViewsInv, RoomViewsAgree, Single, Current, SameRooms
<1> QED BY <1>1, <1>2, <1>3, HubInvariant, RegistersOnce, PTL DEF Spec

-----------------------------------------------------------------------------
(* The number of rooms of a session. *)
INSTANCE FiniteSetTheorems

\* A session is in finitely many rooms, and in no more than it may: Cardinality
\* means the number of rooms only because hubPeer.rooms is finite.
LimitInv ==
  \A l \in Links : IsFiniteSet(joined[l]) /\ Cardinality(joined[l]) <= MaxRoomsPerSession

\* onJoin adds a room to a session that is below the limit.
LEMMA JoinLimit ==
  ASSUME TypeOK, LimitInv, NEW l \in Links, NEW room, room \notin joined[l], ~Full(l),
         joined' = [joined EXCEPT ![l] = @ \cup {room}]
  PROVE  LimitInv'
<1> SUFFICES ASSUME NEW m \in Links
             PROVE  IsFiniteSet(joined'[m]) /\ Cardinality(joined'[m]) <= MaxRoomsPerSession
  BY DEF LimitInv
<1>1. IsFiniteSet(joined[m]) /\ Cardinality(joined[m]) <= MaxRoomsPerSession
  BY SMTT(60) DEF LimitInv
<1>2. CASE m # l BY SMTT(60), <1>1, <1>2 DEF TypeOK
<1>3. CASE m = l
  <2>1. joined'[l] = joined[l] \cup {room} BY DEF TypeOK
  <2>2. IsFiniteSet(joined'[l]) /\ Cardinality(joined'[l]) = Cardinality(joined[l]) + 1
    BY ZenonT(60), <1>1, <1>3, <2>1, FS_AddElement
  <2>3. Cardinality(joined[l]) \in Nat BY <1>1, <1>3, FS_CardinalityType
  <2> QED BY SMTT(60), ZenonT(60), <1>3, <2>2, <2>3, HubAssumption DEF Full
<1> QED BY <1>2, <1>3

\* onPart takes a room from a session.
LEMMA PartLimit ==
  ASSUME TypeOK, LimitInv, NEW l \in Links, NEW room,
         joined' = [joined EXCEPT ![l] = @ \ {room}]
  PROVE  LimitInv'
<1> SUFFICES ASSUME NEW m \in Links
             PROVE  IsFiniteSet(joined'[m]) /\ Cardinality(joined'[m]) <= MaxRoomsPerSession
  BY DEF LimitInv
<1>1. IsFiniteSet(joined[m]) /\ Cardinality(joined[m]) <= MaxRoomsPerSession
  BY SMTT(60) DEF LimitInv
<1>2. joined'[m] = joined[m] \/ joined'[m] = joined[m] \ {room} BY DEF TypeOK
<1>3. /\ IsFiniteSet(joined[m] \ {room})
      /\ \/ Cardinality(joined[m] \ {room}) = Cardinality(joined[m])
         \/ Cardinality(joined[m] \ {room}) = Cardinality(joined[m]) - 1
  BY <1>1, FS_RemoveElement
<1>4. Cardinality(joined[m]) \in Nat BY <1>1, FS_CardinalityType
<1>5. Cardinality(joined[m] \ {room}) <= MaxRoomsPerSession
  BY SMTT(60), ZenonT(60), <1>1, <1>3, <1>4, HubAssumption
<1> QED BY SMTT(60), <1>1, <1>2, <1>3, <1>5

\* Only onJoin and onPart change the rooms of a session.
LEMMA JoinedFrame ==
  ASSUME [Next]_vars
  PROVE  UNCHANGED joined \/ \E g \in Procs : OnJoin(g) \/ OnPart(g)
<1>1. ASSUME NEW l \in Links, LinkStep(l) PROVE UNCHANGED joined
  BY <1>1 DEF LinkStep, LinkUp, Identified, LinkLost, LinkStale, peerVars
<1>2. ASSUME NEW g \in Packets, NEW t \in Traffic[g], PacketIn(g, t[1], t[2])
      PROVE  UNCHANGED joined
  BY <1>2 DEF PacketIn, peerVars
<1>3. CASE HubClose BY <1>3 DEF HubClose, peerVars
<1>4. ASSUME NEW g \in Procs, Step(g) PROVE UNCHANGED joined \/ OnJoin(g) \/ OnPart(g)
  BY ZenonT(60), <1>4 DEF Step, NewSession, AssignSess, SetIdCb, CheckId, IdCallback, Recv, Buffer,
     Recheck, Register, RegisterLock, DropPeerIf, EndRegister, HandlePeer, OnHello, SendWelcome,
     AllowRate, OnRoomContent, SendReply, Panic, CloseSession, Forward, peerVars
<1>5. CASE UNCHANGED vars BY <1>5 DEF vars, peerVars
<1> QED BY ZenonT(60), <1>1, <1>2, <1>3, <1>4, <1>5 DEF Next

\* However the JOINs of a session interleave, it is never in more than
\* MaxRoomsPerSession rooms: onJoin counts and adds under one Hub.mu.
THEOREM RoomLimitHolds == Spec => []RoomLimit
<1>1. Init => LimitInv
  <2> SUFFICES ASSUME Init PROVE LimitInv OBVIOUS
  <2>1. joined = [l \in Links |-> {}] BY DEF Init
  <2> QED BY SMTT(60), <2>1, FS_EmptySet, HubAssumption DEF LimitInv
<1>2. HubInv /\ LimitInv /\ [Next]_vars => LimitInv'
  <2> SUFFICES ASSUME HubInv, LimitInv, [Next]_vars PROVE LimitInv' OBVIOUS
  <2>0. TypeOK BY DEF HubInv
  <2>1. CASE UNCHANGED joined BY <2>1 DEF LimitInv
  <2>2. ASSUME NEW g \in Procs, OnJoin(g), ~UNCHANGED joined PROVE LimitInv'
    <3>1. gr[g].link \in Links BY ZenonT(60), <2>2, GrAt DEF OnJoin, LocalOK
    <3> QED BY ZenonT(60), <2>0, <2>2, <3>1, JoinLimit DEF OnJoin
  <2>3. ASSUME NEW g \in Procs, OnPart(g), ~UNCHANGED joined PROVE LimitInv'
    <3>1. gr[g].link \in Links BY ZenonT(60), <2>3, GrAt DEF OnPart, LocalOK
    <3> QED BY ZenonT(60), <2>0, <2>3, <3>1, PartLimit DEF OnPart
  <2> QED BY <2>1, <2>2, <2>3, JoinedFrame
<1>3. LimitInv => RoomLimit BY DEF LimitInv, RoomLimit
<1> QED BY <1>1, <1>2, <1>3, HubInvariant, PTL DEF Spec
=============================================================================
