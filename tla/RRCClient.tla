------------------------------ MODULE RRCClient ------------------------------
(***************************************************************************)
(* The RRC client (pkg/rrc/client.go on session.go): Dial, the dispatch of *)
(* inbound packets, the calls of the application and the ways a link ends. *)
(*                                                                         *)
(* Every inbound packet is handled by a goroutine of its own.  The HELLO   *)
(* and every request of the application is answered by at most one packet  *)
(* of the hub, so a request and its answer share one entry of pkt.  The    *)
(* hub is the environment: what it does with a request is what the         *)
(* handlers of hub.go do for the client's own session.  It need not do     *)
(* anything, and a packet need not arrive: that is how packets get lost.   *)
(***************************************************************************)
EXTENDS Integers, FiniteSets

CONSTANTS
  Calls,     \* goroutines of the application, each makes one call (a bound)
  Op,        \* the call: "JOIN", "PART", "MSG", "PING" or "CLOSE"
  RoomOf,    \* its room, normalised
  Rooms,
  Flaky,     \* whether the link may go stale or be lost once it is up
  NoRoom, Nobody

ASSUME ClientAssumption ==
  /\ Op \in [Calls -> {"JOIN", "PART", "MSG", "PING", "CLOSE"}]
  /\ RoomOf \in [Calls -> Rooms \cup {NoRoom}]
  /\ NoRoom \notin Rooms
  /\ Flaky \in BOOLEAN

\* The goroutine in Dial, the link's watchdog with maintainLink, and the handler
\* of a teardown packet.
Dialer == <<"dial">>
Watch == <<"watchdog">>
Inbound == <<"inbound">>
Procs == Calls \cup {Dialer, Watch, Inbound}

\* The HELLO and the calls that send.
Hello == <<"hello">>
Requests == Calls \cup {Hello}

ASSUME ProcsAssumption ==
  {Dialer, Watch, Inbound, Hello, Nobody} \cap Calls = {} /\ Nobody \notin Procs

VARIABLES
  status,     \* Link.status
  linkMu,     \* who holds Link.mutex across the closed callback
  state,      \* Client.state
  rooms,      \* Client.rooms
  welcomeCh,  \* an envelope is in Dial's channel
  closedCh,   \* Dial's closedCh is closed
  closed,     \* session.closed
  pc,         \* where each goroutine is
  pkt,        \* where each request or its answer is
  seen,       \* the state that dispatch read for the WELCOME
  onCloses,   \* calls of ClientHandlers.OnClose
  panicked,   \* closedCh was closed twice
  hubActive,  \* the hub has welcomed the session
  hubRooms,   \* the rooms the hub has the session in
  granted     \* the rooms the hub ever confirmed

linkVars == <<status, linkMu>>
clientVars == <<state, rooms, welcomeCh, closedCh, closed, onCloses, panicked>>
hubVars == <<hubActive, hubRooms, granted>>
vars == <<linkVars, clientVars, pc, pkt, seen, hubVars>>

Init ==
  /\ status = "none"
  /\ linkMu = Nobody
  /\ state = "Connected"
  /\ rooms = {}
  /\ welcomeCh = FALSE /\ closedCh = FALSE /\ closed = FALSE
  /\ pc = [p \in Procs |-> IF p = Dialer THEN "dial" ELSE "idle"]
  /\ pkt = [q \in Requests |-> "none"]
  /\ seen = "Connected"
  /\ onCloses = 0
  /\ panicked = FALSE
  /\ hubActive = FALSE /\ hubRooms = {} /\ granted = {}

Go(p, label) == pc' = [pc EXCEPT ![p] = label]

-----------------------------------------------------------------------------
(* Dial. *)

\* There is no path, no identity or the request fails; or the link is requested.
Establish ==
  /\ pc[Dialer] = "dial"
  /\ \/ Go(Dialer, "failed") /\ UNCHANGED status
     \/ Go(Dialer, "waitLink") /\ status' = "pending"
  /\ UNCHANGED <<linkMu, clientVars, pkt, seen, hubVars>>

\* The polling loop sees the link active, or DialTimeout passes.
WaitLink ==
  /\ pc[Dialer] = "waitLink"
  /\ Go(Dialer, IF status = "active" THEN "identify" ELSE "teardown")
  /\ UNCHANGED <<linkVars, clientVars, pkt, seen, hubVars>>

\* Link.Identify
Identify ==
  /\ pc[Dialer] = "identify"
  /\ Go(Dialer, IF status = "active" THEN "hello" ELSE "teardown")
  /\ UNCHANGED <<linkVars, clientVars, pkt, seen, hubVars>>

\* What session.sendEnvelope looks at before it calls Link.SendPacket.
CanSend == ~closed /\ status = "active"

\* sendHello up to SendPacket; the state still is Connected.
SendHello ==
  /\ pc[Dialer] = "hello"
  /\ Go(Dialer, IF CanSend THEN "helloPacket" ELSE "teardown")
  /\ UNCHANGED <<linkVars, clientVars, pkt, seen, hubVars>>

\* Link.SendPacket looks at the status again, with Link.mutex.
SendHelloPacket ==
  /\ pc[Dialer] = "helloPacket" /\ linkMu = Nobody
  /\ \/ /\ status = "active"
        /\ pkt' = [pkt EXCEPT ![Hello] = "up"]
        /\ Go(Dialer, "await")
     \/ /\ status # "active"
        /\ Go(Dialer, "teardown")
        /\ UNCHANGED pkt
  /\ UNCHANGED <<linkVars, clientVars, seen, hubVars>>

\* c.state = ClientAwaitingWelcome, whatever the state was.
Await ==
  /\ pc[Dialer] = "await"
  /\ state' = "AwaitingWelcome"
  /\ Go(Dialer, "select")
  /\ UNCHANGED <<linkVars, rooms, welcomeCh, closedCh, closed, onCloses, panicked, pkt,
                 seen, hubVars>>

\* Mutant of Select: the case of WelcomeTimeout is missing.
SelectForever ==
  /\ pc[Dialer] = "select"
  /\ \/ welcomeCh /\ welcomeCh' = FALSE /\ Go(Dialer, "activate")
     \/ closedCh /\ Go(Dialer, "failed") /\ UNCHANGED welcomeCh
  /\ UNCHANGED <<linkVars, state, rooms, closedCh, closed, onCloses, panicked, pkt, seen,
                 hubVars>>

\* Mutant of Select: the case of closedCh does not return.
SelectFallsThrough ==
  /\ pc[Dialer] = "select"
  /\ \/ welcomeCh /\ welcomeCh' = FALSE /\ Go(Dialer, "activate")
     \/ Go(Dialer, "teardown") /\ UNCHANGED welcomeCh
     \/ closedCh /\ Go(Dialer, "ok") /\ UNCHANGED welcomeCh
  /\ UNCHANGED <<linkVars, state, rooms, closedCh, closed, onCloses, panicked, pkt, seen,
                 hubVars>>

\* The select of Dial: any case that is ready.
Select ==
  /\ pc[Dialer] = "select"
  /\ \/ welcomeCh /\ welcomeCh' = FALSE /\ Go(Dialer, "activate")
     \/ Go(Dialer, "teardown") /\ UNCHANGED welcomeCh
     \/ closedCh /\ Go(Dialer, "failed") /\ UNCHANGED welcomeCh
  /\ UNCHANGED <<linkVars, state, rooms, closedCh, closed, onCloses, panicked, pkt, seen,
                 hubVars>>

\* c.state = ClientActive, whatever the state was; Dial returns the client.
Activate ==
  /\ pc[Dialer] = "activate"
  /\ state' = "Active"
  /\ Go(Dialer, "ok")
  /\ UNCHANGED <<linkVars, rooms, welcomeCh, closedCh, closed, onCloses, panicked, pkt,
                 seen, hubVars>>

-----------------------------------------------------------------------------
(* The end of the link. *)

\* Where a goroutine goes after Link.Teardown or the closed callback.
After(p) == IF p = Dialer THEN "failed" ELSE IF p \in Calls THEN "onClose" ELSE "end"

\* Link.Teardown, by Dial or by session.close: an active link is closed and the
\* closed callback runs with Link.mutex held; any other link is left alone.
Teardown(p) ==
  /\ pc[p] = "teardown"
  /\ linkMu = Nobody
  /\ \/ status = "active" /\ status' = "closed" /\ linkMu' = p /\ Go(p, "callback")
     \/ status # "active" /\ Go(p, After(p)) /\ UNCHANGED linkVars
  /\ UNCHANGED <<clientVars, pkt, seen, hubVars>>

\* The link proof arrives.
LinkUp ==
  /\ status = "pending" /\ linkMu = Nobody
  /\ status' = "active"
  /\ UNCHANGED <<linkMu, clientVars, pc, pkt, seen, hubVars>>

\* The watchdog finds the link silent.
LinkStale ==
  /\ Flaky
  /\ status = "active" /\ linkMu = Nobody
  /\ status' = "stale"
  /\ UNCHANGED <<linkMu, clientVars, pc, pkt, seen, hubVars>>

\* The watchdog closes a link that did not come up or stayed silent, maintainLink
\* one without traffic; both hold Link.mutex across the callback.
WatchdogClose ==
  /\ status \in {"pending", "stale"} \/ (Flaky /\ status = "active")
  /\ pc[Watch] = "idle" /\ linkMu = Nobody
  /\ status' = "closed"
  /\ linkMu' = Watch
  /\ Go(Watch, "callback")
  /\ UNCHANGED <<clientVars, pkt, seen, hubVars>>

\* A teardown packet of the hub passes the closed check of HandleInbound.
TeardownIn ==
  /\ Flaky
  /\ status \in {"active", "stale"} /\ linkMu = Nobody
  /\ pc[Inbound] = "idle"
  /\ status' = "active"
  /\ Go(Inbound, "handleTeardown")
  /\ UNCHANGED <<linkMu, clientVars, pkt, seen, hubVars>>

\* handleTeardown closes the link without Link.mutex.
HandleTeardown ==
  /\ pc[Inbound] = "handleTeardown"
  /\ status' = "closed"
  /\ Go(Inbound, "callback")
  /\ UNCHANGED <<linkMu, clientVars, pkt, seen, hubVars>>

\* The closed callback looks at closedCh ...
ClosedCallback(p) ==
  /\ pc[p] = "callback"
  /\ Go(p, IF closedCh THEN "linkClosed" ELSE "closeCh")
  /\ UNCHANGED <<linkVars, clientVars, pkt, seen, hubVars>>

\* Mutant of CloseCh: the callback returns without onLinkClosed.
CloseChOnly(p) ==
  /\ pc[p] = "closeCh"
  /\ closedCh' = TRUE
  /\ panicked' = closedCh
  /\ linkMu' = IF linkMu = p THEN Nobody ELSE linkMu
  /\ Go(p, After(p))
  /\ UNCHANGED <<status, state, rooms, welcomeCh, closed, onCloses, pkt, seen, hubVars>>

\* ... and closes it.
CloseCh(p) ==
  /\ pc[p] = "closeCh"
  /\ closedCh' = TRUE
  /\ panicked' = closedCh
  /\ Go(p, "linkClosed")
  /\ UNCHANGED <<linkVars, state, rooms, welcomeCh, closed, onCloses, pkt, seen, hubVars>>

\* Mutant of Connected: onLinkClosed does not look at the state.
ConnectedAlways == TRUE

\* onLinkClosed has not been here.
Connected == state # "Disconnected"

\* onLinkClosed: at the end of the closed callback, as the session's close
\* callback, and at the end of Client.Close.
OnLinkClosed(p) ==
  /\ pc[p] \in {"linkClosed", "onClose", "final"}
  /\ state' = "Disconnected"
  /\ rooms' = IF Connected THEN {} ELSE rooms
  /\ onCloses' = IF Connected THEN onCloses + 1 ELSE onCloses
  /\ linkMu' = IF linkMu = p THEN Nobody ELSE linkMu
  /\ Go(p, CASE pc[p] = "linkClosed" -> After(p)
             [] pc[p] = "onClose" -> "final"
             [] pc[p] = "final" -> "end")
  /\ UNCHANGED <<status, welcomeCh, closedCh, closed, panicked, pkt, seen, hubVars>>

-----------------------------------------------------------------------------
(* The application. *)

\* Client.Close and session.close up to Teardown.
Close(c) ==
  /\ Op[c] = "CLOSE"
  /\ pc[c] = "idle" /\ pc[Dialer] = "ok"
  /\ closed' = TRUE
  /\ Go(c, IF closed THEN "final" ELSE "teardown")
  /\ UNCHANGED <<linkVars, state, rooms, welcomeCh, closedCh, onCloses, panicked, pkt, seen,
                 hubVars>>

\* requireActive; a JOIN needs a room, a MSG goes on to look for its room.
Call(c) ==
  /\ Op[c] # "CLOSE"
  /\ pc[c] = "idle" /\ pc[Dialer] = "ok"
  /\ Go(c, IF state # "Active" \/ (Op[c] = "JOIN" /\ RoomOf[c] = NoRoom) THEN "end"
           ELSE IF Op[c] = "MSG" THEN "member" ELSE "send")
  /\ UNCHANGED <<linkVars, clientVars, pkt, seen, hubVars>>

\* Mutant of Member: the client's own rooms are not consulted.
MemberAnyway(c) ==
  /\ pc[c] = "member"
  /\ Go(c, "send")
  /\ UNCHANGED <<linkVars, clientVars, pkt, seen, hubVars>>

\* sendRoomContent looks for the room.
Member(c) ==
  /\ pc[c] = "member"
  /\ Go(c, IF RoomOf[c] \in rooms THEN "send" ELSE "end")
  /\ UNCHANGED <<linkVars, clientVars, pkt, seen, hubVars>>

\* session.sendType up to SendPacket.
Send(c) ==
  /\ pc[c] = "send"
  /\ Go(c, IF CanSend THEN "packet" ELSE "end")
  /\ UNCHANGED <<linkVars, clientVars, pkt, seen, hubVars>>

\* Link.SendPacket, whether it succeeds or not: closed is not looked at again.
SendPacket(c) ==
  /\ pc[c] = "packet" /\ linkMu = Nobody
  /\ pkt' = IF status = "active" THEN [pkt EXCEPT ![c] = "up"] ELSE pkt
  /\ Go(c, "end")
  /\ UNCHANGED <<linkVars, clientVars, seen, hubVars>>

-----------------------------------------------------------------------------
(* The hub and the network. *)

\* onHello
HubHello ==
  /\ pkt[Hello] = "up"
  /\ pkt' = [pkt EXCEPT ![Hello] = "down"]
  /\ hubActive' = TRUE
  /\ UNCHANGED <<linkVars, clientVars, pc, seen, hubRooms, granted>>

\* onJoin: JOINED or, when a limit is exceeded, an ERROR the client only reports.
HubJoin(c) ==
  /\ pkt[c] = "up" /\ Op[c] = "JOIN" /\ hubActive
  /\ \/ /\ hubRooms' = hubRooms \cup {RoomOf[c]}
        /\ granted' = granted \cup {RoomOf[c]}
        /\ pkt' = [pkt EXCEPT ![c] = "down"]
     \/ /\ pkt' = [pkt EXCEPT ![c] = "done"]
        /\ UNCHANGED <<hubRooms, granted>>
  /\ UNCHANGED <<linkVars, clientVars, pc, seen, hubActive>>

\* onPart answers only for a room the session is in.
HubPart(c) ==
  /\ pkt[c] = "up" /\ Op[c] = "PART" /\ hubActive
  /\ hubRooms' = hubRooms \ {RoomOf[c]}
  /\ pkt' = [pkt EXCEPT ![c] = IF RoomOf[c] \in hubRooms THEN "down" ELSE "done"]
  /\ UNCHANGED <<linkVars, clientVars, pc, seen, hubActive, granted>>

\* A message is relayed to others; a ping is answered.
HubOther(c) ==
  /\ pkt[c] = "up" /\ Op[c] \in {"MSG", "PING"}
  /\ pkt' = [pkt EXCEPT ![c] = IF Op[c] = "PING" THEN "down" ELSE "done"]
  /\ UNCHANGED <<linkVars, clientVars, pc, seen, hubVars>>

\* HandleInbound takes a packet of the hub and starts its goroutine.
Receive(q) ==
  /\ pkt[q] = "down"
  /\ status \in {"active", "stale"} /\ linkMu = Nobody
  /\ status' = "active"
  /\ pkt' = [pkt EXCEPT ![q] = "recv"]
  /\ UNCHANGED <<linkMu, clientVars, pc, seen, hubVars>>

\* dispatch reads the state; only the case of a WELCOME uses it.
ReadState ==
  /\ pkt[Hello] = "recv"
  /\ seen' = state
  /\ pkt' = [pkt EXCEPT ![Hello] = "apply"]
  /\ UNCHANGED <<linkVars, clientVars, pc, hubVars>>

\* dispatch of a WELCOME: a full channel or another state drop it.
DispatchWelcome ==
  /\ pkt[Hello] = "apply"
  /\ welcomeCh' = (welcomeCh \/ seen = "AwaitingWelcome")
  /\ pkt' = [pkt EXCEPT ![Hello] = "done"]
  /\ UNCHANGED <<linkVars, state, rooms, closedCh, closed, onCloses, panicked, pc, seen,
                 hubVars>>

\* dispatch of JOINED, PARTED and PONG, in whatever state.
Dispatch(c) ==
  /\ pkt[c] = "recv"
  /\ rooms' = CASE Op[c] = "JOIN" -> rooms \cup {RoomOf[c]}
                [] Op[c] = "PART" -> rooms \ {RoomOf[c]}
                [] OTHER -> rooms
  /\ pkt' = [pkt EXCEPT ![c] = "done"]
  /\ UNCHANGED <<linkVars, state, welcomeCh, closedCh, closed, onCloses, panicked, pc, seen,
                 hubVars>>

-----------------------------------------------------------------------------

Dial == Establish \/ WaitLink \/ Identify \/ SendHello \/ SendHelloPacket \/ Await \/ Select
        \/ Activate

\* A step of a goroutine other than a packet's.
Step(p) ==
  \/ p = Dialer /\ Dial
  \/ p = Inbound /\ HandleTeardown
  \/ p \in Calls /\ (Close(p) \/ Call(p) \/ Member(p) \/ Send(p) \/ SendPacket(p))
  \/ Teardown(p) \/ ClosedCallback(p) \/ CloseCh(p) \/ OnLinkClosed(p)

PacketStep(q) ==
  \/ q = Hello /\ (ReadState \/ DispatchWelcome)
  \/ q \in Calls /\ Dispatch(q)

Environment ==
  \/ LinkUp \/ LinkStale \/ WatchdogClose \/ TeardownIn
  \/ HubHello \/ \E c \in Calls : HubJoin(c) \/ HubPart(c) \/ HubOther(c)
  \/ \E q \in Requests : Receive(q)

Next ==
  /\ ~panicked
  /\ Environment \/ (\E p \in Procs : Step(p)) \/ (\E q \in Requests : PacketStep(q))

Spec == Init /\ [][Next]_vars

\* Goroutines that can run do run; nothing is asked of the hub and the network.
FairSpec ==
  /\ Spec
  /\ \A p \in Procs : WF_vars(pc[p] # "idle" /\ ~panicked /\ Step(p))
  /\ \A q \in Requests : WF_vars(~panicked /\ PacketStep(q))

-----------------------------------------------------------------------------
(* What is checked. *)

Labels ==
  {"idle", "dial", "waitLink", "identify", "hello", "helloPacket", "await", "select", "activate", "ok",
   "failed", "teardown", "callback", "closeCh", "linkClosed", "onClose", "final", "end",
   "member", "send", "packet", "handleTeardown"}

\* The types of the fields of Client, session and Link.
TypeOK ==
  /\ status \in {"none", "pending", "active", "stale", "closed"}
  /\ linkMu \in Procs \cup {Nobody}
  /\ state \in {"Connected", "AwaitingWelcome", "Active", "Disconnected"}
  /\ rooms \subseteq Rooms \cup {NoRoom}
  /\ welcomeCh \in BOOLEAN /\ closedCh \in BOOLEAN /\ closed \in BOOLEAN
  /\ pc \in [Procs -> Labels]
  /\ pkt \in [Requests -> {"none", "up", "down", "recv", "apply", "done"}]
  /\ seen \in {"Connected", "AwaitingWelcome", "Active", "Disconnected"}
  /\ onCloses \in Nat
  /\ panicked \in BOOLEAN
  /\ hubActive \in BOOLEAN /\ hubRooms \subseteq granted /\ granted \subseteq Rooms

\* The client is Active, and Dial hands it out, only for a session that the hub
\* has welcomed ("WELCOME required before Active" in the acceptance test).
ActiveIsWelcomed == state = "Active" \/ pc[Dialer] = "ok" => hubActive

\* The client believes to be in a room only if the hub said so, and sends content
\* only to such rooms ("we track JOINED" in sendRoomContent).
BeliefConfirmed ==
  /\ rooms \subseteq granted
  /\ \A c \in Calls : Op[c] = "MSG" /\ pkt[c] # "none" => RoomOf[c] \in granted

\* Once Dial has returned, Disconnected is final and OnClose is not called again,
\* however Close, the watchdog and a teardown of the hub race (onLinkClosed).
DisconnectedFinal ==
  [][state = "Disconnected" /\ pc[Dialer] \in {"ok", "failed"} =>
       state' = "Disconnected" /\ onCloses' = onCloses]_vars

\* Every goroutine that starts comes to an end (each runs once): Dial returns
\* whatever the hub and the link do, and no call waits forever for Link.mutex.
AllReturn == <>[](panicked \/ \A p \in Procs : pc[p] \in {"idle", "ok", "failed", "end"})

\* A link that closes after Dial has returned leaves the client Disconnected.
CloseNoticed ==
  [](pc[Dialer] = "ok" /\ status = "active" =>
       [](status = "closed" => <>(state = "Disconnected" \/ panicked)))

-----------------------------------------------------------------------------
(* What comments say and the code does not do: TLC refutes each of these.    *)

\* "State returns the current client session state.": when Dial has returned a
\* client and its link has been reported closed, the state is Disconnected.
StateCurrent == pc[Dialer] = "ok" /\ onCloses > 0 => state = "Disconnected"

\* "Dial establishes a Link to hubHash, sends HELLO, and waits for WELCOME.": a
\* WELCOME that was delivered is there for Dial to take.
NoWelcomeDropped == pc[Dialer] = "select" /\ pkt[Hello] = "done" => welcomeCh

\* "Rooms returns a snapshot of joined room names": when nothing is on its way,
\* the client's rooms are those the hub has it in.
RoomsInSync ==
  state = "Active" /\ (\A q \in Requests : pkt[q] \in {"none", "done"}) => rooms = hubRooms

\* "Close tears down the Link and ends the session.": no close of the link from
\* two sides ends the process.
NoDoubleClose == ~panicked
=============================================================================
