--------------------------- MODULE RRCClientProofs ---------------------------
(***************************************************************************)
(* Proofs about the RRC client, for any number of calls and rooms; about   *)
(* what it sends, for values of any size and any codec that keeps the      *)
(* contract of CodecAssumption; and about nicknames of any length.         *)
(***************************************************************************)
EXTENDS RRCMessages, TLAPS

\* The WELCOME, wherever it is, comes from a hub that has welcomed the session.
WelcomeInv ==
  \/ hubActive
  \/ /\ pkt[Hello] \in {"none", "up"}
     /\ ~welcomeCh
     /\ pc[Dialer] \notin {"activate", "ok"}
     /\ state # "Active"

\* A JOINED on its way, the client's rooms and every message sent are covered by
\* what the hub has granted.
RoomInv ==
  /\ rooms \subseteq granted
  /\ \A c \in Calls :
       /\ Op[c] = "JOIN" /\ (pc[c] \in {"send", "packet"} \/ pkt[c] # "none") => RoomOf[c] \in Rooms
       /\ Op[c] = "JOIN" /\ pkt[c] \in {"down", "recv"} => RoomOf[c] \in granted
       /\ Op[c] = "MSG" /\ (pc[c] \in {"send", "packet"} \/ pkt[c] # "none") => RoomOf[c] \in granted

ClientInv == TypeOK /\ WelcomeInv /\ RoomInv

\* The goroutines are told apart.
LEMMA Apart ==
  /\ Dialer \in Procs /\ Watch \in Procs /\ Inbound \in Procs
  /\ Dialer # Watch /\ Dialer # Inbound /\ Watch # Inbound
  /\ Dialer \notin Calls /\ Watch \notin Calls /\ Inbound \notin Calls
  /\ Hello \in Requests /\ Hello \notin Calls
  /\ \A c \in Calls : c \in Procs /\ c \in Requests
<1>1. Dialer # Watch /\ Dialer # Inbound /\ Watch # Inbound
  BY DEF Dialer, Watch, Inbound
<1> QED
  BY <1>1, ProcsAssumption DEF Procs, Requests

LEMMA InitOK == Init => ClientInv
<1> SUFFICES ASSUME Init PROVE ClientInv
  OBVIOUS
<1>1. TypeOK
  BY ZenonT(60) DEF Init, TypeOK, Labels
<1>2. WelcomeInv
  BY Apart DEF Init, WelcomeInv
<1>3. RoomInv
  BY Apart DEF Init, RoomInv
<1> QED
  BY <1>1, <1>2, <1>3 DEF ClientInv

\* A goroutine goes on.
LEMMA GoOK ==
  ASSUME TypeOK, NEW p \in Procs, NEW label \in Labels, Go(p, label)
  PROVE  /\ pc' \in [Procs -> Labels]
         /\ pc'[p] = label
         /\ \A q \in Procs : q # p => pc'[q] = pc[q]
BY DEF TypeOK, Go

\* Dial asks for a link.
LEMMA EstablishOK ==
  ASSUME ClientInv, Establish
  PROVE  ClientInv'
<1> USE DEF ClientInv
<1>1. TypeOK'
  BY Apart DEF Establish, Go, TypeOK, Labels, linkVars, clientVars, hubVars
<1>2. WelcomeInv'
  BY Apart DEF Establish, Go, TypeOK, WelcomeInv, linkVars, clientVars, hubVars
<1>3. RoomInv'
  BY Apart DEF Establish, Go, TypeOK, RoomInv, linkVars, clientVars, hubVars
<1> QED
  BY <1>1, <1>2, <1>3

\* Dial waits for it.
LEMMA WaitLinkOK ==
  ASSUME ClientInv, WaitLink
  PROVE  ClientInv'
<1> USE DEF ClientInv
<1>1. TypeOK'
  BY Apart DEF WaitLink, Go, TypeOK, Labels, linkVars, clientVars, hubVars
<1>2. WelcomeInv'
  BY Apart DEF WaitLink, Go, TypeOK, WelcomeInv, linkVars, clientVars, hubVars
<1>3. RoomInv'
  BY Apart DEF WaitLink, Go, TypeOK, RoomInv, linkVars, clientVars, hubVars
<1> QED
  BY <1>1, <1>2, <1>3

\* Dial identifies.
LEMMA IdentifyOK ==
  ASSUME ClientInv, Identify
  PROVE  ClientInv'
<1> USE DEF ClientInv
<1>1. TypeOK'
  BY Apart DEF Identify, Go, TypeOK, Labels, linkVars, clientVars, hubVars
<1>2. WelcomeInv'
  BY Apart DEF Identify, Go, TypeOK, WelcomeInv, linkVars, clientVars, hubVars
<1>3. RoomInv'
  BY Apart DEF Identify, Go, TypeOK, RoomInv, linkVars, clientVars, hubVars
<1> QED
  BY <1>1, <1>2, <1>3

\* Dial is about to send the HELLO.
LEMMA SendHelloOK ==
  ASSUME ClientInv, SendHello
  PROVE  ClientInv'
<1> USE DEF ClientInv
<1>1. TypeOK'
  BY Apart DEF SendHello, CanSend, Go, TypeOK, Labels, linkVars, clientVars, hubVars
<1>2. WelcomeInv'
  BY Apart DEF SendHello, CanSend, Go, TypeOK, WelcomeInv, linkVars, clientVars, hubVars
<1>3. RoomInv'
  BY Apart DEF SendHello, CanSend, Go, TypeOK, RoomInv, linkVars, clientVars, hubVars
<1> QED
  BY <1>1, <1>2, <1>3

\* Dial sends the HELLO.
LEMMA SendHelloPacketOK ==
  ASSUME ClientInv, SendHelloPacket
  PROVE  ClientInv'
<1> USE DEF ClientInv
<1>1. TypeOK'
  BY Apart DEF SendHelloPacket, Go, TypeOK, Labels, linkVars, clientVars, hubVars
<1>2. WelcomeInv'
  BY Apart DEF SendHelloPacket, Go, TypeOK, WelcomeInv, linkVars, clientVars, hubVars
<1>3. RoomInv'
  BY Apart DEF SendHelloPacket, Go, TypeOK, RoomInv, linkVars, clientVars, hubVars
<1> QED
  BY <1>1, <1>2, <1>3

\* Dial waits for the WELCOME.
LEMMA AwaitOK ==
  ASSUME ClientInv, Await
  PROVE  ClientInv'
<1> USE DEF ClientInv
<1>1. TypeOK'
  BY Apart DEF Await, Go, TypeOK, Labels, linkVars, clientVars, hubVars
<1>2. WelcomeInv'
  BY Apart DEF Await, Go, TypeOK, WelcomeInv, linkVars, clientVars, hubVars
<1>3. RoomInv'
  BY Apart DEF Await, Go, TypeOK, RoomInv, linkVars, clientVars, hubVars
<1> QED
  BY <1>1, <1>2, <1>3

\* Dial takes the WELCOME, gives up or sees the link closed.
LEMMA SelectOK ==
  ASSUME ClientInv, Select
  PROVE  ClientInv'
<1> USE DEF ClientInv
<1>1. TypeOK'
  <2>1. PICK label \in {"activate", "teardown", "failed"} : Go(Dialer, label)
    BY DEF Select
  <2>2. pc' \in [Procs -> Labels]
    BY <2>1, Apart, GoOK DEF Labels
  <2>3. welcomeCh' \in BOOLEAN
    BY ZenonT(60) DEF Select, TypeOK
  <2> QED
    BY <2>2, <2>3 DEF Select, TypeOK, linkVars, hubVars
<1>2. WelcomeInv'
  BY Apart DEF Select, Go, TypeOK, WelcomeInv, linkVars, clientVars, hubVars
<1>3. RoomInv'
  BY Apart DEF Select, Go, TypeOK, RoomInv, linkVars, clientVars, hubVars
<1> QED
  BY <1>1, <1>2, <1>3

\* Dial returns the client.
LEMMA ActivateOK ==
  ASSUME ClientInv, Activate
  PROVE  ClientInv'
<1> USE DEF ClientInv
<1>1. TypeOK'
  BY Apart DEF Activate, Go, TypeOK, Labels, linkVars, clientVars, hubVars
<1>2. WelcomeInv'
  BY Apart DEF Activate, Go, TypeOK, WelcomeInv, linkVars, clientVars, hubVars
<1>3. RoomInv'
  BY Apart DEF Activate, Go, TypeOK, RoomInv, linkVars, clientVars, hubVars
<1> QED
  BY <1>1, <1>2, <1>3

\* Link.Teardown.
LEMMA TeardownOK ==
  ASSUME ClientInv, NEW p \in Procs, Teardown(p)
  PROVE  ClientInv'
<1> USE DEF ClientInv
<1>1. TypeOK'
  BY Apart DEF Teardown, After, Go, TypeOK, Labels, linkVars, clientVars, hubVars
<1>2. WelcomeInv'
  BY Apart DEF Teardown, After, Go, TypeOK, WelcomeInv, linkVars, clientVars, hubVars
<1>3. RoomInv'
  BY Apart DEF Teardown, After, Go, TypeOK, RoomInv, linkVars, clientVars, hubVars
<1> QED
  BY <1>1, <1>2, <1>3

\* The link comes up.
LEMMA LinkUpOK ==
  ASSUME ClientInv, LinkUp
  PROVE  ClientInv'
<1> USE DEF ClientInv
<1>1. TypeOK'
  BY Apart DEF LinkUp, Go, TypeOK, Labels, linkVars, clientVars, hubVars
<1>2. WelcomeInv'
  BY Apart DEF LinkUp, Go, TypeOK, WelcomeInv, linkVars, clientVars, hubVars
<1>3. RoomInv'
  BY Apart DEF LinkUp, Go, TypeOK, RoomInv, linkVars, clientVars, hubVars
<1> QED
  BY <1>1, <1>2, <1>3

\* The link goes stale.
LEMMA LinkStaleOK ==
  ASSUME ClientInv, LinkStale
  PROVE  ClientInv'
<1> USE DEF ClientInv
<1>1. TypeOK'
  BY Apart DEF LinkStale, Go, TypeOK, Labels, linkVars, clientVars, hubVars
<1>2. WelcomeInv'
  BY Apart DEF LinkStale, Go, TypeOK, WelcomeInv, linkVars, clientVars, hubVars
<1>3. RoomInv'
  BY Apart DEF LinkStale, Go, TypeOK, RoomInv, linkVars, clientVars, hubVars
<1> QED
  BY <1>1, <1>2, <1>3

\* The watchdog closes the link.
LEMMA WatchdogCloseOK ==
  ASSUME ClientInv, WatchdogClose
  PROVE  ClientInv'
<1> USE DEF ClientInv
<1>1. TypeOK'
  BY Apart DEF WatchdogClose, Go, TypeOK, Labels, linkVars, clientVars, hubVars
<1>2. WelcomeInv'
  BY Apart DEF WatchdogClose, Go, TypeOK, WelcomeInv, linkVars, clientVars, hubVars
<1>3. RoomInv'
  BY Apart DEF WatchdogClose, Go, TypeOK, RoomInv, linkVars, clientVars, hubVars
<1> QED
  BY <1>1, <1>2, <1>3

\* A teardown packet arrives.
LEMMA TeardownInOK ==
  ASSUME ClientInv, TeardownIn
  PROVE  ClientInv'
<1> USE DEF ClientInv
<1>1. TypeOK'
  BY Apart DEF TeardownIn, Go, TypeOK, Labels, linkVars, clientVars, hubVars
<1>2. WelcomeInv'
  BY Apart DEF TeardownIn, Go, TypeOK, WelcomeInv, linkVars, clientVars, hubVars
<1>3. RoomInv'
  BY Apart DEF TeardownIn, Go, TypeOK, RoomInv, linkVars, clientVars, hubVars
<1> QED
  BY <1>1, <1>2, <1>3

\* The teardown packet is handled.
LEMMA HandleTeardownOK ==
  ASSUME ClientInv, HandleTeardown
  PROVE  ClientInv'
<1> USE DEF ClientInv
<1>1. TypeOK'
  BY Apart DEF HandleTeardown, Go, TypeOK, Labels, linkVars, clientVars, hubVars
<1>2. WelcomeInv'
  BY Apart DEF HandleTeardown, Go, TypeOK, WelcomeInv, linkVars, clientVars, hubVars
<1>3. RoomInv'
  BY Apart DEF HandleTeardown, Go, TypeOK, RoomInv, linkVars, clientVars, hubVars
<1> QED
  BY <1>1, <1>2, <1>3

\* The closed callback.
LEMMA ClosedCallbackOK ==
  ASSUME ClientInv, NEW p \in Procs, ClosedCallback(p)
  PROVE  ClientInv'
<1> USE DEF ClientInv
<1>1. TypeOK'
  BY Apart DEF ClosedCallback, Go, TypeOK, Labels, linkVars, clientVars, hubVars
<1>2. WelcomeInv'
  BY Apart DEF ClosedCallback, Go, TypeOK, WelcomeInv, linkVars, clientVars, hubVars
<1>3. RoomInv'
  BY Apart DEF ClosedCallback, Go, TypeOK, RoomInv, linkVars, clientVars, hubVars
<1> QED
  BY <1>1, <1>2, <1>3

\* The channel is closed.
LEMMA CloseChOK ==
  ASSUME ClientInv, NEW p \in Procs, CloseCh(p)
  PROVE  ClientInv'
<1> USE DEF ClientInv
<1>1. TypeOK'
  BY Apart DEF CloseCh, Go, TypeOK, Labels, linkVars, clientVars, hubVars
<1>2. WelcomeInv'
  BY Apart DEF CloseCh, Go, TypeOK, WelcomeInv, linkVars, clientVars, hubVars
<1>3. RoomInv'
  BY Apart DEF CloseCh, Go, TypeOK, RoomInv, linkVars, clientVars, hubVars
<1> QED
  BY <1>1, <1>2, <1>3

\* onLinkClosed.
LEMMA OnLinkClosedOK ==
  ASSUME ClientInv, NEW p \in Procs, OnLinkClosed(p)
  PROVE  ClientInv'
<1> USE DEF ClientInv
<1>1. TypeOK'
  BY Apart DEF OnLinkClosed, Connected, After, Go, TypeOK, Labels, linkVars, clientVars, hubVars
<1>2. WelcomeInv'
  BY Apart DEF OnLinkClosed, Connected, After, Go, TypeOK, WelcomeInv, linkVars, clientVars, hubVars
<1>3. RoomInv'
  BY Apart DEF OnLinkClosed, Connected, After, Go, TypeOK, RoomInv, linkVars, clientVars, hubVars
<1> QED
  BY <1>1, <1>2, <1>3

\* Client.Close.
LEMMA CloseOK ==
  ASSUME ClientInv, NEW c \in Calls, Close(c)
  PROVE  ClientInv'
<1> USE DEF ClientInv
<1>1. TypeOK'
  BY Apart DEF Close, Go, TypeOK, Labels, linkVars, clientVars, hubVars
<1>2. WelcomeInv'
  BY Apart DEF Close, Go, TypeOK, WelcomeInv, linkVars, clientVars, hubVars
<1>3. RoomInv'
  BY Apart DEF Close, Go, TypeOK, RoomInv, linkVars, clientVars, hubVars
<1> QED
  BY <1>1, <1>2, <1>3

\* A call of the application.
LEMMA CallOK ==
  ASSUME ClientInv, NEW c \in Calls, Call(c)
  PROVE  ClientInv'
<1> USE DEF ClientInv
<1>1. TypeOK'
  BY Apart, ClientAssumption DEF Call, Go, TypeOK, Labels, linkVars, clientVars, hubVars
<1>2. WelcomeInv'
  BY Apart DEF Call, Go, TypeOK, WelcomeInv, linkVars, clientVars, hubVars
<1>3. RoomInv'
  BY Apart, ClientAssumption DEF Call, Go, TypeOK, RoomInv, linkVars, clientVars, hubVars
<1> QED
  BY <1>1, <1>2, <1>3

\* sendRoomContent looks for the room.
LEMMA MemberOK ==
  ASSUME ClientInv, NEW c \in Calls, Member(c)
  PROVE  ClientInv'
<1> USE DEF ClientInv
<1>1. TypeOK'
  BY Apart DEF Member, Go, TypeOK, Labels, linkVars, clientVars, hubVars
<1>2. WelcomeInv'
  BY Apart DEF Member, Go, TypeOK, WelcomeInv, linkVars, clientVars, hubVars
<1>3. RoomInv'
  BY Apart DEF Member, Go, TypeOK, RoomInv, linkVars, clientVars, hubVars
<1> QED
  BY <1>1, <1>2, <1>3

\* session.sendType up to SendPacket.
LEMMA SendOK ==
  ASSUME ClientInv, NEW c \in Calls, Send(c)
  PROVE  ClientInv'
<1> USE DEF ClientInv
<1>1. TypeOK'
  BY Apart DEF Send, CanSend, Go, TypeOK, Labels, linkVars, clientVars, hubVars
<1>2. WelcomeInv'
  BY Apart DEF Send, CanSend, Go, TypeOK, WelcomeInv, linkVars, clientVars, hubVars
<1>3. RoomInv'
  BY Apart DEF Send, CanSend, Go, TypeOK, RoomInv, linkVars, clientVars, hubVars
<1> QED
  BY <1>1, <1>2, <1>3

\* Link.SendPacket.
LEMMA SendPacketOK ==
  ASSUME ClientInv, NEW c \in Calls, SendPacket(c)
  PROVE  ClientInv'
<1> USE DEF ClientInv
<1>1. TypeOK'
  BY Apart DEF SendPacket, Go, TypeOK, Labels, linkVars, clientVars, hubVars
<1>2. WelcomeInv'
  BY Apart DEF SendPacket, Go, TypeOK, WelcomeInv, linkVars, clientVars, hubVars
<1>3. RoomInv'
  BY Apart DEF SendPacket, Go, TypeOK, RoomInv, linkVars, clientVars, hubVars
<1> QED
  BY <1>1, <1>2, <1>3

\* The hub welcomes the session.
LEMMA HubHelloOK ==
  ASSUME ClientInv, HubHello
  PROVE  ClientInv'
<1> USE DEF ClientInv
<1>1. TypeOK'
  BY Apart DEF HubHello, Go, TypeOK, Labels, linkVars, clientVars, hubVars
<1>2. WelcomeInv'
  BY Apart DEF HubHello, Go, TypeOK, WelcomeInv, linkVars, clientVars, hubVars
<1>3. RoomInv'
  BY Apart DEF HubHello, Go, TypeOK, RoomInv, linkVars, clientVars, hubVars
<1> QED
  BY <1>1, <1>2, <1>3

\* The hub handles a request.
LEMMA HubJoinOK ==
  ASSUME ClientInv, NEW c \in Calls, HubJoin(c)
  PROVE  ClientInv'
<1> USE DEF ClientInv
<1>1. TypeOK'
  BY Apart DEF HubJoin, Go, TypeOK, Labels, linkVars, clientVars, hubVars, RoomInv
<1>2. WelcomeInv'
  BY Apart DEF HubJoin, Go, TypeOK, WelcomeInv, linkVars, clientVars, hubVars
<1>3. RoomInv'
  BY Apart DEF HubJoin, Go, TypeOK, RoomInv, linkVars, clientVars, hubVars
<1> QED
  BY <1>1, <1>2, <1>3

\* The hub handles a request.
LEMMA HubPartOK ==
  ASSUME ClientInv, NEW c \in Calls, HubPart(c)
  PROVE  ClientInv'
<1> USE DEF ClientInv
<1>1. TypeOK'
  BY Apart DEF HubPart, Go, TypeOK, Labels, linkVars, clientVars, hubVars
<1>2. WelcomeInv'
  BY Apart DEF HubPart, Go, TypeOK, WelcomeInv, linkVars, clientVars, hubVars
<1>3. RoomInv'
  BY Apart DEF HubPart, Go, TypeOK, RoomInv, linkVars, clientVars, hubVars
<1> QED
  BY <1>1, <1>2, <1>3

\* The hub handles a request.
LEMMA HubOtherOK ==
  ASSUME ClientInv, NEW c \in Calls, HubOther(c)
  PROVE  ClientInv'
<1> USE DEF ClientInv
<1>1. TypeOK'
  BY Apart DEF HubOther, Go, TypeOK, Labels, linkVars, clientVars, hubVars
<1>2. WelcomeInv'
  BY Apart DEF HubOther, Go, TypeOK, WelcomeInv, linkVars, clientVars, hubVars
<1>3. RoomInv'
  BY Apart DEF HubOther, Go, TypeOK, RoomInv, linkVars, clientVars, hubVars
<1> QED
  BY <1>1, <1>2, <1>3

\* A packet arrives.
LEMMA ReceiveOK ==
  ASSUME ClientInv, NEW q \in Requests, Receive(q)
  PROVE  ClientInv'
<1> USE DEF ClientInv
<1>1. TypeOK'
  BY Apart DEF Receive, Go, TypeOK, Labels, linkVars, clientVars, hubVars
<1>2. WelcomeInv'
  BY Apart DEF Receive, Go, TypeOK, WelcomeInv, linkVars, clientVars, hubVars
<1>3. RoomInv'
  BY Apart DEF Receive, Go, TypeOK, RoomInv, linkVars, clientVars, hubVars
<1> QED
  BY <1>1, <1>2, <1>3

\* dispatch reads the state.
LEMMA ReadStateOK ==
  ASSUME ClientInv, ReadState
  PROVE  ClientInv'
<1> USE DEF ClientInv
<1>1. TypeOK'
  BY Apart DEF ReadState, Go, TypeOK, Labels, linkVars, clientVars, hubVars
<1>2. WelcomeInv'
  BY Apart DEF ReadState, Go, TypeOK, WelcomeInv, linkVars, clientVars, hubVars
<1>3. RoomInv'
  BY Apart DEF ReadState, Go, TypeOK, RoomInv, linkVars, clientVars, hubVars
<1> QED
  BY <1>1, <1>2, <1>3

\* dispatch of the WELCOME.
LEMMA DispatchWelcomeOK ==
  ASSUME ClientInv, DispatchWelcome
  PROVE  ClientInv'
<1> USE DEF ClientInv
<1>1. TypeOK'
  BY Apart DEF DispatchWelcome, Go, TypeOK, Labels, linkVars, clientVars, hubVars
<1>2. WelcomeInv'
  BY Apart DEF DispatchWelcome, Go, TypeOK, WelcomeInv, linkVars, clientVars, hubVars
<1>3. RoomInv'
  BY Apart DEF DispatchWelcome, Go, TypeOK, RoomInv, linkVars, clientVars, hubVars
<1> QED
  BY <1>1, <1>2, <1>3

\* dispatch of another packet.
LEMMA DispatchOK ==
  ASSUME ClientInv, NEW c \in Calls, Dispatch(c)
  PROVE  ClientInv'
<1> USE DEF ClientInv
<1>1. TypeOK'
  BY Apart, ClientAssumption DEF Dispatch, Go, TypeOK, Labels, linkVars, clientVars, hubVars
<1>2. WelcomeInv'
  BY Apart DEF Dispatch, Go, TypeOK, WelcomeInv, linkVars, clientVars, hubVars
<1>3. RoomInv'
  BY Apart, ClientAssumption DEF Dispatch, Go, TypeOK, RoomInv, linkVars, clientVars, hubVars
<1> QED
  BY <1>1, <1>2, <1>3

LEMMA NextOK == ClientInv /\ [Next]_vars => ClientInv'
<1> SUFFICES ASSUME ClientInv, [Next]_vars PROVE ClientInv'
  OBVIOUS
<1>1. CASE UNCHANGED vars
  BY <1>1 DEF vars, linkVars, clientVars, hubVars, ClientInv, TypeOK, WelcomeInv, RoomInv
<1>2. CASE Environment
  BY <1>2, LinkUpOK, LinkStaleOK, WatchdogCloseOK, TeardownInOK, HubHelloOK, HubJoinOK,
     HubPartOK, HubOtherOK, ReceiveOK DEF Environment
<1>3. ASSUME NEW p \in Procs, Step(p) PROVE ClientInv'
  BY <1>3, EstablishOK, WaitLinkOK, IdentifyOK, SendHelloOK, SendHelloPacketOK, AwaitOK, SelectOK, ActivateOK,
     TeardownOK, HandleTeardownOK, ClosedCallbackOK, CloseChOK, OnLinkClosedOK, CloseOK,
     CallOK, MemberOK, SendOK, SendPacketOK DEF Step, Dial
<1>4. ASSUME NEW q \in Requests, PacketStep(q) PROVE ClientInv'
  BY <1>4, ReadStateOK, DispatchWelcomeOK, DispatchOK DEF PacketStep
<1> QED
  BY <1>1, <1>2, <1>3, <1>4 DEF Next

\* The inductive invariant holds in every reachable state.
THEOREM ClientInvariant == Spec => []ClientInv
BY InitOK, NextOK, PTL DEF Spec

\* The fields of the client keep their types.
THEOREM ClientTypes == Spec => []TypeOK
<1>1. ClientInv => TypeOK
  BY DEF ClientInv
<1> QED
  BY <1>1, ClientInvariant, PTL

\* Dial hands out a client, and a client is Active, only if the hub has welcomed it.
THEOREM WelcomedBeforeActive == Spec => []ActiveIsWelcomed
<1>1. ClientInv => ActiveIsWelcomed
  BY DEF ClientInv, WelcomeInv, ActiveIsWelcomed
<1> QED
  BY <1>1, ClientInvariant, PTL

\* The rooms of the client, and those it sends content to, were granted by the hub.
THEOREM BeliefIsConfirmed == Spec => []BeliefConfirmed
<1>1. ClientInv => BeliefConfirmed
  BY DEF ClientInv, RoomInv, BeliefConfirmed
<1> QED
  BY <1>1, ClientInvariant, PTL

\* After Dial has returned nothing leaves Disconnected or calls OnClose twice.
THEOREM DisconnectedIsFinal == Spec => DisconnectedFinal
<1>1. [Next]_vars => [state = "Disconnected" /\ pc[Dialer] \in {"ok", "failed"} =>
                        state' = "Disconnected" /\ onCloses' = onCloses]_vars
  <2> SUFFICES ASSUME Next, state = "Disconnected", pc[Dialer] \in {"ok", "failed"}
               PROVE  state' = "Disconnected" /\ onCloses' = onCloses
    BY SMTT(60) DEF vars
  <2>1. CASE Environment
    BY SMTT(60), <2>1 DEF Environment, LinkUp, LinkStale, WatchdogClose, TeardownIn, HubHello, HubJoin,
       HubPart, HubOther, Receive, clientVars
  <2>2. ASSUME NEW p \in Procs, Step(p) PROVE state' = "Disconnected" /\ onCloses' = onCloses
    <3>1. CASE Dial
      BY <3>1 DEF Dial, Establish, WaitLink, Identify, SendHello, SendHelloPacket, Await, Select, Activate
    <3>2. CASE OnLinkClosed(p)
      BY <3>2 DEF OnLinkClosed, Connected
    <3>3. CASE UNCHANGED <<state, onCloses>>
      BY <3>3
    <3> QED
      BY <2>2, <3>1, <3>2, <3>3 DEF Step, HandleTeardown, Close, Call, Member, Send, SendPacket, Teardown,
         ClosedCallback, CloseCh, clientVars
  <2>3. ASSUME NEW q \in Requests, PacketStep(q) PROVE state' = "Disconnected" /\ onCloses' = onCloses
    BY <2>3 DEF PacketStep, ReadState, DispatchWelcome, Dispatch, clientVars
  <2> QED
    BY <2>1, <2>2, <2>3 DEF Next
<1> QED
  BY <1>1, PTL DEF Spec, DisconnectedFinal

-----------------------------------------------------------------------------
(* Envelopes                                                                 *)

\* The parts of a pair.
Pair(v, k, x) == v[1] = k /\ v[2] = x

LEMMA Pairs ==
  \A v, k, x : v = <<k, x>> => Pair(v, k, x)
<1>1. ASSUME NEW v, NEW k, NEW x, v = <<k, x>>
      PROVE  Pair(v, k, x)
  <2>1. v[1] = k
    BY <1>1, Zenon
  <2>2. v[2] = x
    BY <1>1, Zenon
  <2>3. QED
    BY <2>1, <2>2, Zenon DEF Pair
<1>2. QED
  BY <1>1, Zenon

\* What is known of a value by its kind.
LEMMA Kinds ==
  ASSUME NEW v \in Values
  PROVE  /\ v[1] = "uint" => v[2] \in Numbers
         /\ v[1] = "bytes" => v[2] \in ByteStrings
         /\ v[1] = "text" => v \in Envelope!Texts
<1>1. CASE v \in Nested
  <2>1. v[1] \in {"arr", "map", "anymap"}
    BY ZenonT(60), <1>1, CodecAssumption
  <2>2. v[1] # "uint" /\ v[1] # "bytes" /\ v[1] # "text"
    BY <2>1
  <2>3. QED
    BY <2>2, Zenon
<1>2. CASE v = <<"nil">>
  BY <1>2, Zenon
<1>3. CASE \E n \in Numbers : v = <<"uint", n>>
  <2>1. PICK n \in Numbers : v = <<"uint", n>>
    BY <1>3, Zenon
  <2>2. v[1] = "uint" /\ v[2] = n
    BY <2>1, Zenon
  <2>3. QED
    BY <2>2, Zenon
<1>4. CASE \E n \in Numbers : v = <<"int", -n>>
  <2>1. PICK n \in Numbers : v = <<"int", -n>>
    BY <1>4, Zenon
  <2>2. v[1] = "int"
    BY <2>1, Zenon
  <2>3. QED
    BY <2>2, Zenon
<1>5. CASE \E s \in ByteStrings : v = <<"bytes", s>>
  <2>1. PICK s \in ByteStrings : v = <<"bytes", s>>
    BY <1>5, Zenon
  <2>2. v[1] = "bytes" /\ v[2] = s
    BY <2>1, Zenon
  <2>3. QED
    BY <2>2, Zenon
<1>6. CASE v \in Envelope!Texts
  <2>1. PICK t \in Strings : v = <<"text", t, TRUE>> \/ v = <<"text", t, FALSE>>
    BY <1>6, Zenon DEF Envelope!Texts, Envelope!Valid
  <2>2. v[1] = "text"
    <3>1. \A b : <<"text", t, b>>[1] = "text"
      BY Zenon
    <3>2. QED
      BY <2>1, <3>1, Zenon
  <2>3. QED
    BY <1>6, <2>2, Zenon
<1>7. QED
  BY <1>1, <1>2, <1>3, <1>4, <1>5, <1>6, Zenon DEF Values, Scalars

\* Through CBOR twice is through CBOR once.
LEMMA Through ==
  ASSUME NEW v \in Values
  PROVE  /\ Cbor(v) \in Values /\ Cbor(Cbor(v)) = Cbor(v)
         /\ Decodable(Cbor(v)) <=> Decodable(v)
         /\ Cbor(v)[1] \in {"uint", "bytes", "text"} => Cbor(v) = v
<1>1. CASE v \in Scalars
  BY <1>1, CodecAssumption, Zenon DEF Values
<1>2. CASE v \in Nested
  <2>1. Cbor(v) \in Nested /\ Cbor(Cbor(v)) = Cbor(v) /\ (Decodable(Cbor(v)) <=> Decodable(v))
    BY <1>2, CodecAssumption, Zenon
  <2>2. Cbor(v)[1] \in {"arr", "map", "anymap"}
    BY <2>1, CodecAssumption, Zenon
  <2>3. Cbor(v)[1] \notin {"uint", "bytes", "text"}
    BY <2>2
  <2>4. QED
    BY <2>1, <2>3, Zenon DEF Values
<1>3. QED
  BY <1>1, <1>2, Zenon DEF Values

\* The numbers of an envelope, its byte strings and its texts are scalars.
LEMMA ScalarsThrough ==
  /\ \A n \in Numbers : /\ <<"uint", n>> \in Values /\ Cbor(<<"uint", n>>) = <<"uint", n>>
                        /\ Decodable(<<"uint", n>>)
  /\ \A s \in ByteStrings : /\ <<"bytes", s>> \in Values /\ Cbor(<<"bytes", s>>) = <<"bytes", s>>
                            /\ Decodable(<<"bytes", s>>)
  /\ \A v \in Envelope!Texts : v \in Values /\ Cbor(v) = v /\ v[1] = "text"
  /\ \A v \in Envelope!Valid : v \in Envelope!Texts /\ Decodable(v)
<1>1. ASSUME NEW n \in Numbers
      PROVE  /\ <<"uint", n>> \in Values /\ Cbor(<<"uint", n>>) = <<"uint", n>>
             /\ Decodable(<<"uint", n>>)
  <2>1. PICK v : v = <<"uint", n>>
    BY ZenonT(60)
  <2>2. v \in Scalars /\ v[1] = "uint"
    BY <2>1, Zenon DEF Scalars
  <2>3. v[1] # "text"
    BY <2>2, Zenon
  <2>4. QED
    BY <2>1, <2>2, <2>3, CodecAssumption, Zenon DEF Values
<1>2. ASSUME NEW s \in ByteStrings
      PROVE  /\ <<"bytes", s>> \in Values /\ Cbor(<<"bytes", s>>) = <<"bytes", s>>
             /\ Decodable(<<"bytes", s>>)
  <2>1. PICK v : v = <<"bytes", s>>
    BY ZenonT(60)
  <2>2. v \in Scalars /\ v[1] = "bytes"
    BY <2>1, Zenon DEF Scalars
  <2>3. v[1] # "text"
    BY <2>2, Zenon
  <2>4. QED
    BY <2>1, <2>2, <2>3, CodecAssumption, Zenon DEF Values
<1>3. ASSUME NEW v \in Envelope!Texts
      PROVE  v \in Values /\ Cbor(v) = v /\ v[1] = "text"
  <2>1. PICK t \in Strings : v = <<"text", t, TRUE>> \/ v = <<"text", t, FALSE>>
    BY Zenon DEF Envelope!Texts, Envelope!Valid
  <2>2. v[1] = "text"
    <3>1. \A b : <<"text", t, b>>[1] = "text"
      BY Zenon
    <3>2. QED
      BY <2>1, <3>1, Zenon
  <2>3. v \in Scalars
    BY Zenon DEF Scalars
  <2>4. QED
    BY <2>2, <2>3, CodecAssumption, Zenon DEF Values
<1>4. ASSUME NEW v \in Envelope!Valid
      PROVE  v \in Envelope!Texts /\ Decodable(v)
  <2>1. PICK t \in Strings : v = <<"text", t, TRUE>>
    BY Zenon DEF Envelope!Valid
  <2>2. v \in Envelope!Texts
    BY Zenon DEF Envelope!Texts
  <2>3. v[3]
    BY <2>1, Zenon
  <2>4. v \in Scalars
    BY <2>2, Zenon DEF Scalars
  <2>5. QED
    BY <2>2, <2>3, <2>4, CodecAssumption, Zenon
<1>5. QED
  BY <1>1, <1>2, <1>3, <1>4, Zenon

\* The keys are eight.
LEMMA KeysApart ==
  /\ \A k : k \in Envelope!KeyVersion .. Envelope!KeySender <=>
       k \in {Envelope!KeyVersion, Envelope!KeyType, Envelope!KeyMsgID,
              Envelope!KeyTimestamp, Envelope!KeySender}
  /\ Envelope!KeyVersion # Envelope!KeyType /\ Envelope!KeyVersion # Envelope!KeyMsgID
  /\ Envelope!KeyVersion # Envelope!KeyTimestamp /\ Envelope!KeyVersion # Envelope!KeySender
  /\ Envelope!KeyVersion # Envelope!KeyRoom /\ Envelope!KeyVersion # Envelope!KeyBody
  /\ Envelope!KeyVersion # Envelope!KeyNick
  /\ Envelope!KeyType # Envelope!KeyMsgID /\ Envelope!KeyType # Envelope!KeyTimestamp
  /\ Envelope!KeyType # Envelope!KeySender /\ Envelope!KeyType # Envelope!KeyRoom
  /\ Envelope!KeyType # Envelope!KeyBody /\ Envelope!KeyType # Envelope!KeyNick
  /\ Envelope!KeyMsgID # Envelope!KeyTimestamp /\ Envelope!KeyMsgID # Envelope!KeySender
  /\ Envelope!KeyMsgID # Envelope!KeyRoom /\ Envelope!KeyMsgID # Envelope!KeyBody
  /\ Envelope!KeyMsgID # Envelope!KeyNick
  /\ Envelope!KeyTimestamp # Envelope!KeySender /\ Envelope!KeyTimestamp # Envelope!KeyRoom
  /\ Envelope!KeyTimestamp # Envelope!KeyBody /\ Envelope!KeyTimestamp # Envelope!KeyNick
  /\ Envelope!KeySender # Envelope!KeyRoom /\ Envelope!KeySender # Envelope!KeyBody
  /\ Envelope!KeySender # Envelope!KeyNick
  /\ Envelope!KeyRoom # Envelope!KeyBody /\ Envelope!KeyRoom # Envelope!KeyNick
  /\ Envelope!KeyBody # Envelope!KeyNick
BY DEF Envelope!KeyVersion, Envelope!KeyType, Envelope!KeyMsgID, Envelope!KeyTimestamp,
       Envelope!KeySender, Envelope!KeyRoom, Envelope!KeyBody, Envelope!KeyNick

\* The envelopes that can be sent, whatever their length of identifiers.
Envelopes ==
  [version : Numbers, type : Numbers, msgID : ByteStrings, timestamp : Numbers,
   sender : ByteStrings, room : Envelope!Maybe(Envelope!Texts),
   body : Envelope!Maybe(Values), nick : Envelope!Maybe(Envelope!Texts)]

\* An optional field is its one value.
LEMMA TheOne ==
  ASSUME NEW S, NEW o \in Envelope!Maybe(S)
  PROVE  o # {} => Envelope!The(o) \in S /\ o = {Envelope!The(o)}
BY DEF Envelope!Maybe, Envelope!The

\* What is in the map of an envelope: raw has a key for a field exactly if the
\* field is there, and the field under it.
Holds(raw, key, o) ==
  /\ key \in DOMAIN raw <=> o # {}
  /\ key \in DOMAIN raw => o = {raw[key]}

\* The map of an envelope, key by key.
LEMMA MarshalIs ==
  ASSUME NEW e \in Envelopes, NEW raw \in Envelope!Marshal(e)
  PROVE  /\ e.version = Envelope!ProtocolVersion
         /\ Len(e.msgID) = MessageIDLength /\ Len(e.sender) = IdentityLength
         /\ DOMAIN raw \subseteq (Envelope!KeyVersion .. Envelope!KeySender)
              \cup {Envelope!KeyRoom, Envelope!KeyBody, Envelope!KeyNick}
         /\ Envelope!KeyVersion .. Envelope!KeySender \subseteq DOMAIN raw
         /\ raw[Envelope!KeyVersion] = <<"uint", e.version>>
         /\ raw[Envelope!KeyType] = <<"uint", e.type>>
         /\ raw[Envelope!KeyMsgID] = <<"bytes", e.msgID>>
         /\ raw[Envelope!KeyTimestamp] = <<"uint", e.timestamp>>
         /\ raw[Envelope!KeySender] = <<"bytes", e.sender>>
         /\ Holds(raw, Envelope!KeyRoom, e.room)
         /\ Holds(raw, Envelope!KeyBody, e.body)
         /\ Holds(raw, Envelope!KeyNick, e.nick)
<1> DEFINE K == Envelope!KeyVersion .. Envelope!KeySender
                  \cup (IF e.room # {} THEN {Envelope!KeyRoom} ELSE {})
                  \cup (IF e.body # {} THEN {Envelope!KeyBody} ELSE {})
                  \cup (IF e.nick # {} THEN {Envelope!KeyNick} ELSE {})
<1>1. /\ ~(\/ e.version # Envelope!ProtocolVersion
           \/ Len(e.msgID) # MessageIDLength
           \/ Len(e.sender) # IdentityLength)
      /\ raw = [k \in K |->
            CASE k = Envelope!KeyVersion -> <<"uint", e.version>>
              [] k = Envelope!KeyType -> <<"uint", e.type>>
              [] k = Envelope!KeyMsgID -> <<"bytes", e.msgID>>
              [] k = Envelope!KeyTimestamp -> <<"uint", e.timestamp>>
              [] k = Envelope!KeySender -> <<"bytes", e.sender>>
              [] k = Envelope!KeyRoom -> Envelope!The(e.room)
              [] k = Envelope!KeyBody -> Envelope!The(e.body)
              [] k = Envelope!KeyNick -> Envelope!The(e.nick)]
  BY Zenon DEF Envelope!Marshal
<1>2. DOMAIN raw = K
  BY <1>1, Zenon
<1>3. /\ \A k \in {Envelope!KeyVersion, Envelope!KeyType, Envelope!KeyMsgID,
                   Envelope!KeyTimestamp, Envelope!KeySender} : k \in K
      /\ Envelope!KeyRoom \in K <=> e.room # {}
      /\ Envelope!KeyBody \in K <=> e.body # {}
      /\ Envelope!KeyNick \in K <=> e.nick # {}
      /\ K \subseteq (Envelope!KeyVersion .. Envelope!KeySender)
              \cup {Envelope!KeyRoom, Envelope!KeyBody, Envelope!KeyNick}
  BY KeysApart, Zenon
<1> HIDE DEF K
<1>4. /\ e.room \in Envelope!Maybe(Envelope!Texts) /\ e.body \in Envelope!Maybe(Values)
      /\ e.nick \in Envelope!Maybe(Envelope!Texts)
  BY Zenon DEF Envelopes
<1>5. raw[Envelope!KeyVersion] = <<"uint", e.version>>
  BY <1>1, <1>3, KeysApart, Zenon
<1>6. raw[Envelope!KeyType] = <<"uint", e.type>>
  BY <1>1, <1>3, KeysApart, Zenon
<1>7. raw[Envelope!KeyMsgID] = <<"bytes", e.msgID>>
  BY <1>1, <1>3, KeysApart, Zenon
<1>8. raw[Envelope!KeyTimestamp] = <<"uint", e.timestamp>>
  BY <1>1, <1>3, KeysApart, Zenon
<1>9. raw[Envelope!KeySender] = <<"bytes", e.sender>>
  BY <1>1, <1>3, KeysApart, Zenon
<1>10. Holds(raw, Envelope!KeyRoom, e.room)
  <2>1. e.room # {} => raw[Envelope!KeyRoom] = Envelope!The(e.room)
    BY <1>1, <1>3, KeysApart, Zenon
  <2>2. e.room # {} => e.room = {Envelope!The(e.room)}
    BY <1>4, TheOne
  <2>3. QED
    BY <1>2, <1>3, <2>1, <2>2, Zenon DEF Holds
<1>11. Holds(raw, Envelope!KeyBody, e.body)
  <2>1. e.body # {} => raw[Envelope!KeyBody] = Envelope!The(e.body)
    BY <1>1, <1>3, KeysApart, Zenon
  <2>2. e.body # {} => e.body = {Envelope!The(e.body)}
    BY <1>4, TheOne
  <2>3. QED
    BY <1>2, <1>3, <2>1, <2>2, Zenon DEF Holds
<1>12. Holds(raw, Envelope!KeyNick, e.nick)
  <2>1. e.nick # {} => raw[Envelope!KeyNick] = Envelope!The(e.nick)
    BY <1>1, <1>3, KeysApart, Zenon
  <2>2. e.nick # {} => e.nick = {Envelope!The(e.nick)}
    BY <1>4, TheOne
  <2>3. QED
    BY <1>2, <1>3, <2>1, <2>2, Zenon DEF Holds
<1>13. Envelope!KeyVersion .. Envelope!KeySender \subseteq DOMAIN raw
  <2> SUFFICES ASSUME NEW k \in Envelope!KeyVersion .. Envelope!KeySender PROVE k \in DOMAIN raw
    BY Zenon
  <2>1. k \in {Envelope!KeyVersion, Envelope!KeyType, Envelope!KeyMsgID,
                Envelope!KeyTimestamp, Envelope!KeySender}
    BY KeysApart, Zenon
  <2>2. QED
    BY <1>2, <1>3, <2>1, Zenon
<1>14. /\ e.version = Envelope!ProtocolVersion
       /\ Len(e.msgID) = MessageIDLength /\ Len(e.sender) = IdentityLength
  BY <1>1, Zenon
<1>15. QED
  BY <1>2, <1>3, <1>5, <1>6, <1>7, <1>8, <1>9, <1>10, <1>11, <1>12, <1>13, <1>14, Zenon

\* What UnmarshalEnvelope takes.
LEMMA UnmarshalIs ==
  ASSUME NEW d, NEW type, NEW msgID, NEW time, NEW sender,
         Envelope!KeyVersion .. Envelope!KeySender \subseteq DOMAIN d,
         d[Envelope!KeyVersion] = <<"uint", Envelope!ProtocolVersion>>,
         d[Envelope!KeyType] = <<"uint", type>>,
         d[Envelope!KeyMsgID] = <<"bytes", msgID>>, Len(msgID) = MessageIDLength,
         d[Envelope!KeyTimestamp] = <<"uint", time>>,
         d[Envelope!KeySender] = <<"bytes", sender>>, Len(sender) = IdentityLength,
         \A k \in {Envelope!KeyRoom, Envelope!KeyNick} \cap DOMAIN d : d[k][1] = "text"
  PROVE  Envelope!UnmarshalEnvelope(d) = {Envelope!FromMap(d)}
<1>1. /\ Envelope!KeyVersion \in DOMAIN d /\ Envelope!KeyType \in DOMAIN d
      /\ Envelope!KeyMsgID \in DOMAIN d /\ Envelope!KeyTimestamp \in DOMAIN d
      /\ Envelope!KeySender \in DOMAIN d
  BY KeysApart, Zenon
<1>2. Envelope!asUint64(Envelope!At(d, Envelope!KeyVersion)) = {Envelope!ProtocolVersion}
  <2>1. /\ d[Envelope!KeyVersion][1] = "uint"
        /\ d[Envelope!KeyVersion][2] = Envelope!ProtocolVersion
    <3>1. Pair(d[Envelope!KeyVersion], "uint", Envelope!ProtocolVersion)
      BY Pairs, Zenon
    <3>2. QED
      BY <3>1, Zenon DEF Pair
  <2>2. QED
    BY <1>1, <2>1, Zenon DEF Envelope!asUint64, Envelope!At
<1>3. Envelope!asUint64(Envelope!At(d, Envelope!KeyType)) # {}
  <2>1. d[Envelope!KeyType][1] = "uint"
    BY Pairs, ZenonT(60) DEF Pair
  <2>2. QED
    BY <1>1, <2>1, Zenon DEF Envelope!asUint64, Envelope!At
<1>4. Envelope!asUint64(Envelope!At(d, Envelope!KeyTimestamp)) # {}
  <2>1. d[Envelope!KeyTimestamp][1] = "uint"
    BY Pairs, Zenon DEF Pair
  <2>2. QED
    BY <1>1, <2>1, Zenon DEF Envelope!asUint64, Envelope!At
<1>5. Envelope!At(d, Envelope!KeyMsgID)[1] = "bytes" /\ Len(d[Envelope!KeyMsgID][2]) = MessageIDLength
  <2>1. d[Envelope!KeyMsgID][1] = "bytes" /\ d[Envelope!KeyMsgID][2] = msgID
    <3>1. Pair(d[Envelope!KeyMsgID], "bytes", msgID)
      BY Pairs, Zenon
    <3>2. QED
      BY <3>1, Zenon DEF Pair
  <2>2. QED
    BY <1>1, <2>1, Zenon DEF Envelope!At
<1>6. Envelope!At(d, Envelope!KeySender)[1] = "bytes" /\ Len(d[Envelope!KeySender][2]) = IdentityLength
  <2>1. d[Envelope!KeySender][1] = "bytes" /\ d[Envelope!KeySender][2] = sender
    <3>1. Pair(d[Envelope!KeySender], "bytes", sender)
      BY Pairs, Zenon
    <3>2. QED
      BY <3>1, Zenon DEF Pair
  <2>2. QED
    BY <1>1, <2>1, Zenon DEF Envelope!At
<1>7. \A k \in {Envelope!KeyRoom, Envelope!KeyNick} \cap DOMAIN d : Envelope!asString(d[k]) # {}
  BY Zenon DEF Envelope!asString
<1>8. QED
  BY <1>2, <1>3, <1>4, <1>5, <1>6, <1>7, Zenon DEF Envelope!UnmarshalEnvelope

\* An envelope that can be sent arrives.
LEMMA Arrives ==
  ASSUME NEW e \in Envelopes, NEW raw \in Envelope!Marshal(e)
  PROVE  Envelope!Receive(raw) =
           IF \A v \in e.room \cup e.body \cup e.nick : Decodable(v)
           THEN {[e EXCEPT !.body = {Cbor(v) : v \in @}]} ELSE {}
<1> DEFINE d == [k \in DOMAIN raw |-> Cbor(raw[k])]
<1>1. /\ e.type \in Numbers /\ e.timestamp \in Numbers /\ e.version \in Numbers
      /\ e.msgID \in ByteStrings /\ e.sender \in ByteStrings
      /\ e.room \in Envelope!Maybe(Envelope!Texts) /\ e.body \in Envelope!Maybe(Values)
      /\ e.nick \in Envelope!Maybe(Envelope!Texts)
  BY Zenon DEF Envelopes
<1>2. /\ e.version = Envelope!ProtocolVersion
      /\ Len(e.msgID) = MessageIDLength /\ Len(e.sender) = IdentityLength
      /\ DOMAIN raw \subseteq (Envelope!KeyVersion .. Envelope!KeySender)
           \cup {Envelope!KeyRoom, Envelope!KeyBody, Envelope!KeyNick}
      /\ Envelope!KeyVersion .. Envelope!KeySender \subseteq DOMAIN raw
  BY MarshalIs, Zenon
<1>3. /\ raw[Envelope!KeyVersion] = <<"uint", e.version>>
      /\ raw[Envelope!KeyType] = <<"uint", e.type>>
      /\ raw[Envelope!KeyMsgID] = <<"bytes", e.msgID>>
      /\ raw[Envelope!KeyTimestamp] = <<"uint", e.timestamp>>
      /\ raw[Envelope!KeySender] = <<"bytes", e.sender>>
  BY MarshalIs, Zenon
<1>4. /\ Holds(raw, Envelope!KeyRoom, e.room)
      /\ Holds(raw, Envelope!KeyBody, e.body)
      /\ Holds(raw, Envelope!KeyNick, e.nick)
  BY MarshalIs, Zenon
<1>5. \A k \in Envelope!KeyVersion .. Envelope!KeySender : Decodable(raw[k]) /\ Cbor(raw[k]) = raw[k]
  <2> SUFFICES ASSUME NEW k \in Envelope!KeyVersion .. Envelope!KeySender
               PROVE  Decodable(raw[k]) /\ Cbor(raw[k]) = raw[k]
    BY Zenon
  <2>1. k \in {Envelope!KeyVersion, Envelope!KeyType, Envelope!KeyMsgID,
                Envelope!KeyTimestamp, Envelope!KeySender}
    BY KeysApart, Zenon
  <2>2. (\E n \in Numbers : raw[k] = <<"uint", n>>) \/ (\E b \in ByteStrings : raw[k] = <<"bytes", b>>)
    BY <1>1, <1>3, <2>1, Zenon
  <2>3. QED
    BY <2>2, ScalarsThrough, Zenon
<1>6. (\A k \in DOMAIN raw : Decodable(raw[k])) <=>
        \A v \in e.room \cup e.body \cup e.nick : Decodable(v)
  BY <1>2, <1>4, <1>5, Zenon DEF Holds
<1>7. \A o \in Envelope!Maybe(Envelope!Texts) : \A v \in o : Cbor(v) = v /\ v[1] = "text"
  BY ScalarsThrough, Zenon DEF Envelope!Maybe
<1>8. /\ DOMAIN d = DOMAIN raw /\ \A k \in DOMAIN raw : d[k] = Cbor(raw[k])
  BY Zenon
<1>9. /\ Envelope!KeyVersion \in DOMAIN raw /\ Envelope!KeyType \in DOMAIN raw
      /\ Envelope!KeyMsgID \in DOMAIN raw /\ Envelope!KeyTimestamp \in DOMAIN raw
      /\ Envelope!KeySender \in DOMAIN raw
  BY <1>2, KeysApart, Zenon
<1> HIDE DEF d
<1>10. /\ d[Envelope!KeyVersion] = <<"uint", e.version>>
       /\ d[Envelope!KeyType] = <<"uint", e.type>>
       /\ d[Envelope!KeyMsgID] = <<"bytes", e.msgID>>
       /\ d[Envelope!KeyTimestamp] = <<"uint", e.timestamp>>
       /\ d[Envelope!KeySender] = <<"bytes", e.sender>>
  BY <1>3, <1>5, <1>8, <1>9, KeysApart, Zenon
<1>11. Holds(d, Envelope!KeyRoom, e.room) /\ Holds(d, Envelope!KeyNick, e.nick)
  BY <1>1, <1>4, <1>7, <1>8, Zenon DEF Holds
<1>12. Holds(d, Envelope!KeyBody, {Cbor(v) : v \in e.body})
  <2>1. Envelope!KeyBody \in DOMAIN raw => e.body = {raw[Envelope!KeyBody]}
    BY <1>4, Zenon DEF Holds
  <2>2. Envelope!KeyBody \in DOMAIN raw <=> e.body # {}
    BY <1>4, Zenon DEF Holds
  <2>3. CASE e.body = {}
    BY <1>8, <2>2, <2>3, Zenon DEF Holds
  <2>4. CASE e.body # {}
    <3>1. PICK v : v = raw[Envelope!KeyBody]
      OBVIOUS
    <3>2. e.body = {v} /\ Envelope!KeyBody \in DOMAIN d /\ d[Envelope!KeyBody] = Cbor(v)
      BY <1>8, <2>1, <2>2, <2>4, <3>1, Zenon
    <3>3. {Cbor(x) : x \in e.body} = {Cbor(v)}
      BY <3>2, Zenon
    <3>4. QED
      BY <3>2, <3>3, Zenon DEF Holds
  <2>5. QED
    BY <2>3, <2>4, Zenon
<1>13. \A k \in {Envelope!KeyRoom, Envelope!KeyNick} \cap DOMAIN d : d[k][1] = "text"
  BY <1>1, <1>7, <1>11, Zenon DEF Holds
<1>14. Envelope!UnmarshalEnvelope(d) = {Envelope!FromMap(d)}
  BY <1>2, <1>8, <1>10, <1>13, UnmarshalIs, Zenon
<1>15. Envelope!FromMap(d) = [e EXCEPT !.body = {Cbor(v) : v \in @}]
  <2>1. /\ d[Envelope!KeyVersion][2] = e.version /\ d[Envelope!KeyType][2] = e.type
        /\ d[Envelope!KeyMsgID][2] = e.msgID /\ d[Envelope!KeyTimestamp][2] = e.timestamp
        /\ d[Envelope!KeySender][2] = e.sender
    <3>1. /\ Pair(d[Envelope!KeyVersion], "uint", e.version)
          /\ Pair(d[Envelope!KeyType], "uint", e.type)
          /\ Pair(d[Envelope!KeyMsgID], "bytes", e.msgID)
          /\ Pair(d[Envelope!KeyTimestamp], "uint", e.timestamp)
          /\ Pair(d[Envelope!KeySender], "bytes", e.sender)
      BY <1>10, Pairs, Zenon
    <3>2. QED
      BY <3>1, Zenon DEF Pair
  <2>2. \A k, o : Holds(d, k, o) => (IF k \in DOMAIN d THEN {d[k]} ELSE {}) = o
    BY Zenon DEF Holds
  <2>3. Envelope!FromMap(d) =
          [version |-> e.version, type |-> e.type, msgID |-> e.msgID,
           timestamp |-> e.timestamp, sender |-> e.sender, room |-> e.room,
           body |-> {Cbor(v) : v \in e.body}, nick |-> e.nick]
    BY <1>11, <1>12, <2>1, <2>2, Zenon DEF Envelope!FromMap
  <2>4. PICK B : B = {Cbor(v) : v \in e.body}
    BY ZenonT(60)
  <2>5. [e EXCEPT !.body = B] =
          [version |-> e.version, type |-> e.type, msgID |-> e.msgID,
           timestamp |-> e.timestamp, sender |-> e.sender, room |-> e.room,
           body |-> B, nick |-> e.nick]
    BY DEF Envelopes
  <2>6. QED
    BY <2>3, <2>4, <2>5, Zenon
<1>16. QED
  BY <1>6, <1>14, <1>15, Zenon DEF Envelope!Receive, d

\* What the hub makes of the map of a peer: the fields are scalars of their
\* kinds, and the body has been through CBOR.
LEMMA ReceivedIs ==
  ASSUME NEW raw \in Raws, NEW e \in Envelope!Receive(raw)
  PROVE  /\ e \in Envelopes /\ e.version = Envelope!ProtocolVersion
         /\ Len(e.msgID) = MessageIDLength
         /\ \A v \in e.body : Cbor(v) = v /\ Decodable(v)
<1> DEFINE d == [k \in DOMAIN raw |-> Cbor(raw[k])]
<1>1. /\ \A k \in DOMAIN raw : Decodable(raw[k])
      /\ e \in Envelope!UnmarshalEnvelope(d)
  BY Zenon DEF Envelope!Receive
<1>2. \A k \in DOMAIN raw : raw[k] \in Values
  BY InputAssumption, Zenon
<1>3. /\ DOMAIN d = DOMAIN raw
      /\ \A k \in DOMAIN d : d[k] \in Values /\ Cbor(d[k]) = d[k] /\ Decodable(d[k])
  BY <1>1, <1>2, Through, Zenon
<1> HIDE DEF d
<1>4. /\ Envelope!asUint64(Envelope!At(d, Envelope!KeyVersion)) = {Envelope!ProtocolVersion}
      /\ Envelope!asUint64(Envelope!At(d, Envelope!KeyType)) # {}
      /\ Envelope!asUint64(Envelope!At(d, Envelope!KeyTimestamp)) # {}
      /\ Envelope!At(d, Envelope!KeyMsgID)[1] = "bytes" /\ Len(d[Envelope!KeyMsgID][2]) = MessageIDLength
      /\ Envelope!At(d, Envelope!KeySender)[1] = "bytes" /\ Len(d[Envelope!KeySender][2]) = IdentityLength
      /\ \A k \in {Envelope!KeyRoom, Envelope!KeyNick} \cap DOMAIN d : Envelope!asString(d[k]) # {}
      /\ e = Envelope!FromMap(d)
  BY <1>1, Zenon DEF Envelope!UnmarshalEnvelope
<1>5. \A k : Envelope!At(d, k)[1] \in {"uint", "bytes"} => k \in DOMAIN d /\ Envelope!At(d, k) = d[k]
  <2>1. <<"nil">>[1] = "nil"
    BY Zenon
  <2>2. QED
    BY <2>1, Zenon DEF Envelope!At
<1>6. \A k : Envelope!asUint64(Envelope!At(d, k)) # {} =>
        /\ k \in DOMAIN d /\ d[k][1] = "uint" /\ d[k][2] \in Numbers
        /\ Envelope!asUint64(Envelope!At(d, k)) = {d[k][2]}
  <2> SUFFICES ASSUME NEW k, Envelope!asUint64(Envelope!At(d, k)) # {}
               PROVE  /\ k \in DOMAIN d /\ d[k][1] = "uint" /\ d[k][2] \in Numbers
                      /\ Envelope!asUint64(Envelope!At(d, k)) = {d[k][2]}
    BY Zenon
  <2>1. /\ Envelope!At(d, k)[1] = "uint"
        /\ Envelope!asUint64(Envelope!At(d, k)) = {Envelope!At(d, k)[2]}
    BY Zenon DEF Envelope!asUint64
  <2>2. k \in DOMAIN d /\ Envelope!At(d, k) = d[k]
    BY <1>5, <2>1
  <2>3. PICK v \in Values : v = d[k]
    BY <1>3, <2>2, Zenon
  <2>4. v[1] = "uint" => v[2] \in Numbers
    BY Kinds, Zenon
  <2>5. QED
    BY <2>1, <2>2, <2>3, <2>4, Zenon
<1>7. \A k : Envelope!At(d, k)[1] = "bytes" => k \in DOMAIN d /\ d[k][2] \in ByteStrings
  <2> SUFFICES ASSUME NEW k, Envelope!At(d, k)[1] = "bytes"
               PROVE  k \in DOMAIN d /\ d[k][2] \in ByteStrings
    BY Zenon
  <2>1. k \in DOMAIN d /\ Envelope!At(d, k) = d[k]
    BY <1>5
  <2>2. PICK v \in Values : v = d[k]
    BY <1>3, <2>1, Zenon
  <2>3. v[1] = "bytes" => v[2] \in ByteStrings
    BY Kinds, Zenon
  <2>4. QED
    BY <2>1, <2>2, <2>3, Zenon
<1>8. \A k \in {Envelope!KeyRoom, Envelope!KeyNick} \cap DOMAIN d : d[k] \in Envelope!Texts
  BY <1>3, <1>4, Kinds, Zenon DEF Envelope!asString
<1>9. /\ d[Envelope!KeyVersion][2] \in Numbers /\ d[Envelope!KeyVersion][2] = Envelope!ProtocolVersion
      /\ d[Envelope!KeyType][2] \in Numbers /\ d[Envelope!KeyTimestamp][2] \in Numbers
      /\ d[Envelope!KeyMsgID][2] \in ByteStrings /\ d[Envelope!KeySender][2] \in ByteStrings
  BY <1>4, <1>6, <1>7, Zenon
<1> DEFINE maybe(k) == IF k \in DOMAIN d THEN {d[k]} ELSE {}
<1>10. /\ maybe(Envelope!KeyRoom) \in Envelope!Maybe(Envelope!Texts)
       /\ maybe(Envelope!KeyNick) \in Envelope!Maybe(Envelope!Texts)
       /\ maybe(Envelope!KeyBody) \in Envelope!Maybe(Values)
       /\ \A v \in maybe(Envelope!KeyBody) : Cbor(v) = v /\ Decodable(v)
  BY <1>3, <1>8, Zenon DEF Envelope!Maybe
<1>11. e = [version |-> d[Envelope!KeyVersion][2], type |-> d[Envelope!KeyType][2],
            msgID |-> d[Envelope!KeyMsgID][2], timestamp |-> d[Envelope!KeyTimestamp][2],
            sender |-> d[Envelope!KeySender][2], room |-> maybe(Envelope!KeyRoom),
            body |-> maybe(Envelope!KeyBody), nick |-> maybe(Envelope!KeyNick)]
  BY <1>4, Zenon DEF Envelope!FromMap
<1> HIDE DEF maybe
<1>12. QED
  BY <1>4, <1>9, <1>10, <1>11 DEF Envelopes

\* The envelope of a session and the one that the hub forwards.
LEMMA EnvelopesArrive == Envelope!EnvelopeSurvives
<1> SUFFICES ASSUME NEW e \in Envelope!Envelopes, NEW raw \in Envelope!Marshal(e)
             PROVE  Envelope!Receive(raw) =
                      IF \A v \in e.room \cup e.body \cup e.nick : Decodable(v)
                      THEN {[e EXCEPT !.body = {Cbor(v) : v \in @}]} ELSE {}
  BY Zenon DEF Envelope!EnvelopeSurvives
<1>1. Envelope!Maybe(Bodies) \subseteq Envelope!Maybe(Values)
  BY InputAssumption, Zenon DEF Envelope!Maybe
<1>2. e \in Envelopes
  BY <1>1 DEF Envelope!Envelopes, Envelopes
<1>3. QED
  BY <1>2, Arrives, Zenon

LEMMA ForwardedArrive == Envelope!ForwardedArrives
<1> SUFFICES ASSUME NEW raw \in Raws, NEW e \in Envelope!Receive(raw),
                    NEW peer \in ByteStrings, NEW room \in Envelope!Valid,
                    NEW nick \in Envelope!Maybe(Envelope!Valid),
                    Len(peer) = IdentityLength
             PROVE  \E m \in Envelope!Marshal(Envelope!Forward(e, peer, room, nick)) :
                      Envelope!Receive(m) =
                        {[e EXCEPT !.sender = peer, !.room = {room}, !.nick = nick]}
  BY Zenon DEF Envelope!ForwardedArrives
<1>1. /\ e \in Envelopes /\ e.version = Envelope!ProtocolVersion
      /\ Len(e.msgID) = MessageIDLength
      /\ \A v \in e.body : Cbor(v) = v /\ Decodable(v)
  BY ReceivedIs, Zenon
<1>2. PICK f : f = Envelope!Forward(e, peer, room, nick)
  OBVIOUS
<1>3. /\ {room} \in Envelope!Maybe(Envelope!Texts) /\ nick \in Envelope!Maybe(Envelope!Texts)
      /\ \A v \in {room} \cup nick : Decodable(v)
  BY ScalarsThrough, Zenon DEF Envelope!Maybe
<1>4. /\ f \in Envelopes /\ f.version = Envelope!ProtocolVersion
      /\ f.msgID = e.msgID /\ f.sender = peer /\ f.room = {room} /\ f.body = e.body
      /\ f.nick = nick
      /\ f = [e EXCEPT !.sender = peer, !.room = {room}, !.nick = nick]
  BY ZenonT(60), <1>1, <1>2, <1>3 DEF Envelopes, Envelope!Forward
<1>5. Envelope!Marshal(f) # {}
  BY <1>1, <1>4, Zenon DEF Envelope!Marshal
<1>6. PICK m : m \in Envelope!Marshal(f)
  BY <1>5, Zenon
<1>7. \A v \in f.room \cup f.body \cup f.nick : Decodable(v)
  BY <1>1, <1>3, <1>4, Zenon
<1>8. Envelope!Receive(m) = {[f EXCEPT !.body = {Cbor(v) : v \in @}]}
  BY <1>4, <1>6, <1>7, Arrives, Zenon
<1>9. {Cbor(v) : v \in f.body} = f.body
  <2>1. \A v \in f.body : Cbor(v) = v
    BY <1>1, <1>4, Zenon
  <2>2. QED
    BY <2>1
<1>10. [f EXCEPT !.body = {Cbor(v) : v \in @}] = f
  <2>1. [f EXCEPT !.body = f.body] = f
    BY ZenonT(60), <1>4 DEF Envelopes
  <2>2. QED
    BY <1>9, <2>1, Zenon
<1>11. QED
  BY <1>2, <1>4, <1>6, <1>8, <1>10, Zenon

\* A map that is sent arrives with its keys, and its values through CBOR.
LEMMA MapIs ==
  ASSUME NEW v \in Values, NEW f, v = <<"map", f>>
  PROVE  /\ v \in Nested /\ v[2] = f
         /\ Cbor(v) # <<"nil">>
         /\ Envelope!coerceUintMap(Cbor(v)) = {[n \in DOMAIN f |-> Cbor(f[n])]}
<1>1. v[1] = "map" /\ v[2] = f
  BY Zenon
<1>2. v \notin Scalars
  <2> SUFFICES ASSUME v \in Scalars PROVE FALSE
    OBVIOUS
  <2>1. CASE v = <<"nil">>
    <3>1. <<"nil">>[1] = "nil"
      BY Zenon
    <3>2. QED
      BY <1>1, <2>1, <3>1, Zenon
  <2>2. CASE \E n \in Numbers : v = <<"uint", n>>
    <3>1. v[1] = "uint"
      BY <2>2, Zenon
    <3>2. QED
      BY <1>1, <3>1, Zenon
  <2>3. CASE \E n \in Numbers : v = <<"int", -n>>
    <3>1. v[1] = "int"
      BY <2>3, Zenon
    <3>2. QED
      BY <1>1, <3>1, Zenon
  <2>4. CASE \E s \in ByteStrings : v = <<"bytes", s>>
    <3>1. v[1] = "bytes"
      BY <2>4, Zenon
    <3>2. QED
      BY <1>1, <3>1, Zenon
  <2>5. CASE v \in Envelope!Texts
    <3>1. v[1] = "text"
      BY <2>5, ScalarsThrough, Zenon
    <3>2. QED
      BY <1>1, <3>1, Zenon
  <2>6. QED
    BY <2>1, <2>2, <2>3, <2>4, <2>5, Zenon DEF Scalars
<1>3. v \in Nested
  BY <1>2, Zenon DEF Values
<1> DEFINE K == {<<"uint", n>> : n \in DOMAIN f}
           g == [k \in K |-> Cbor(f[k[2]])]
<1>4. Cbor(v) = <<"anymap", g>>
  BY <1>1, <1>3, CodecAssumption, Zenon
<1>5. PICK c : c = Cbor(v)
  OBVIOUS
<1>6. DOMAIN g = K
  BY Zenon
<1>7. ASSUME NEW n \in DOMAIN f
      PROVE  <<"uint", n>> \in K /\ g[<<"uint", n>>] = Cbor(f[n])
  <2>1. PICK k : k = <<"uint", n>>
    BY ZenonT(60)
  <2>2. k \in K /\ k[2] = n
    BY <2>1, Zenon
  <2>3. g[k] = Cbor(f[k[2]])
    BY <2>2, Zenon
  <2>4. QED
    BY <2>1, <2>2, <2>3, Zenon
<1>8. \A k \in K : \E n \in DOMAIN f : k = <<"uint", n>> /\ Envelope!asUint64(k) = {n}
  <2> SUFFICES ASSUME NEW k \in K
               PROVE  \E n \in DOMAIN f : k = <<"uint", n>> /\ Envelope!asUint64(k) = {n}
    BY Zenon
  <2>1. PICK n \in DOMAIN f : k = <<"uint", n>>
    BY Zenon
  <2>2. k[1] = "uint" /\ k[2] = n
    BY <2>1, Zenon
  <2>3. QED
    BY <2>1, <2>2, Zenon DEF Envelope!asUint64
<1>9. \A n \in DOMAIN f : <<"uint", n>> \in K /\ Envelope!asUint64(<<"uint", n>>) = {n}
  <2> SUFFICES ASSUME NEW n \in DOMAIN f
               PROVE  <<"uint", n>> \in K /\ Envelope!asUint64(<<"uint", n>>) = {n}
    BY Zenon
  <2>1. PICK k : k = <<"uint", n>>
    OBVIOUS
  <2>2. k[1] = "uint" /\ k[2] = n
    BY <2>1, Zenon
  <2>3. QED
    BY <1>7, <2>1, <2>2, Zenon DEF Envelope!asUint64
<1> HIDE DEF K
<1>10. UNION {Envelope!asUint64(k) : k \in K} = DOMAIN f
  <2>1. ASSUME NEW n \in UNION {Envelope!asUint64(k) : k \in K} PROVE n \in DOMAIN f
    <3>1. PICK k \in K : n \in Envelope!asUint64(k)
      BY Zenon
    <3>2. QED
      BY <1>8, <3>1, Zenon
  <2>2. ASSUME NEW n \in DOMAIN f PROVE n \in UNION {Envelope!asUint64(k) : k \in K}
    BY <1>9, Zenon
  <2>3. QED
    BY <2>1, <2>2, Zenon
<1> HIDE DEF g
<1>11. c[1] = "anymap" /\ c[2] = g
  <2>1. c = <<"anymap", g>>
    BY <1>4, <1>5, Zenon
  <2>2. QED
    BY <2>1, Pairs, Zenon DEF Pair
<1>12. Cbor(v) # <<"nil">>
  <2>1. <<"nil">>[1] = "nil"
    BY Zenon
  <2>2. c # <<"nil">>
    BY <1>11, <2>1, Zenon
  <2>3. QED
    BY <1>5, <2>2, Zenon
<1>13. Envelope!coerceUintMap(c) =
         {[n \in UNION {Envelope!asUint64(k) : k \in DOMAIN g} |-> g[<<"uint", n>>]]}
  <2>1. c[1] # "map"
    BY <1>11, Zenon
  <2>2. QED
    BY <1>11, <2>1, Zenon DEF Envelope!coerceUintMap
<1>14. [n \in UNION {Envelope!asUint64(k) : k \in DOMAIN g} |-> g[<<"uint", n>>]] =
         [n \in DOMAIN f |-> g[<<"uint", n>>]]
  BY <1>6, <1>10, Zenon
<1>15. [n \in DOMAIN f |-> g[<<"uint", n>>]] = [n \in DOMAIN f |-> Cbor(f[n])]
  BY <1>7, Zenon
<1>16. QED
  BY <1>1, <1>3, <1>5, <1>12, <1>13, <1>14, <1>15, Zenon

\* The map of a body of WELCOME, key by key.
LEMMA ToMapIs ==
  ASSUME NEW w \in Envelope!Welcomes, Envelope!ToMap(w) # <<"nil">>
  PROVE  \E f : /\ Envelope!ToMap(w) = <<"map", f>>
                /\ Holds(f, 0, w.name) /\ Holds(f, 1, w.version)
                /\ 2 \in DOMAIN f <=> w.caps # {}
                /\ 2 \in DOMAIN f => f[2] = <<"map", Envelope!The(w.caps)>>
                /\ 3 \in DOMAIN f <=> w.limits # {}
                /\ 3 \in DOMAIN f => f[3] = Envelope!LimitsToMap(Envelope!The(w.limits))
<1> DEFINE keys == {0 : x \in w.name} \cup {1 : x \in w.version}
                     \cup {2 : x \in w.caps} \cup {3 : x \in w.limits}
           f == [k \in keys |->
                  CASE k = 0 -> Envelope!The(w.name) [] k = 1 -> Envelope!The(w.version)
                    [] k = 2 -> <<"map", Envelope!The(w.caps)>>
                    [] k = 3 -> Envelope!LimitsToMap(Envelope!The(w.limits))]
<1>1. Envelope!ToMap(w) = <<"map", f>>
  BY Zenon DEF Envelope!ToMap
<1>2. 0 # 1 /\ 0 # 2 /\ 0 # 3 /\ 1 # 2 /\ 1 # 3 /\ 2 # 3
  OBVIOUS
<1>3. /\ 0 \in keys <=> w.name # {}
      /\ 1 \in keys <=> w.version # {}
      /\ 2 \in keys <=> w.caps # {}
      /\ 3 \in keys <=> w.limits # {}
  BY <1>2
<1>4. DOMAIN f = keys
  BY Zenon
<1> HIDE DEF keys
<1>5. /\ 0 \in keys => f[0] = Envelope!The(w.name)
      /\ 1 \in keys => f[1] = Envelope!The(w.version)
  BY <1>2, Zenon
<1>6. 2 \in keys => f[2] = <<"map", Envelope!The(w.caps)>>
  BY <1>2, Zenon
<1>7. 3 \in keys => f[3] = Envelope!LimitsToMap(Envelope!The(w.limits))
  BY <1>2, Zenon
<1> HIDE DEF f
<1>8. /\ w.name \in Envelope!Maybe(Envelope!Valid)
      /\ w.version \in Envelope!Maybe(Envelope!Valid)
  BY Zenon DEF Envelope!Welcomes
<1>9. /\ w.name # {} => w.name = {Envelope!The(w.name)}
      /\ w.version # {} => w.version = {Envelope!The(w.version)}
  BY <1>8, TheOne
<1>10. Holds(f, 0, w.name) /\ Holds(f, 1, w.version)
  BY <1>3, <1>4, <1>5, <1>9, Zenon DEF Holds
<1>11. QED
  BY <1>1, <1>3, <1>4, <1>6, <1>7, <1>10, Zenon

\* The limits of a hub are read as they were written.
LEMMA LimitsAgain ==
  ASSUME NEW l \in [Envelope!LimitKeys -> Numbers], Envelope!LimitsToMap(l) \in Values
  PROVE  Envelope!ParseHubLimits(Cbor(Envelope!LimitsToMap(l))) = {l}
<1> DEFINE f == [k \in Envelope!LimitKeys |-> <<"uint", l[k]>>]
           raw == [n \in DOMAIN f |-> Cbor(f[n])]
<1>1. PICK v : v = <<"map", f>>
  BY ZenonT(60)
<1>2. Envelope!LimitsToMap(l) = v
  BY <1>1, Zenon DEF Envelope!LimitsToMap
<1>3. v \in Values
  BY <1>2, Zenon
<1>4. \A k \in Envelope!LimitKeys : k \in DOMAIN raw /\ raw[k] = <<"uint", l[k]>>
  BY ScalarsThrough, Zenon
<1> HIDE DEF f
<1>5. Envelope!coerceUintMap(Cbor(v)) = {raw}
  BY <1>1, <1>3, MapIs
<1> HIDE DEF raw
<1>6. ASSUME NEW k \in Envelope!LimitKeys
      PROVE  Envelope!asUint64(Envelope!At(raw, k)) = {l[k]}
  <2>1. Pair(raw[k], "uint", l[k])
    BY <1>4, Pairs, Zenon
  <2>2. raw[k][1] = "uint" /\ raw[k][2] = l[k]
    BY <2>1, Zenon DEF Pair
  <2>3. Envelope!At(raw, k) = raw[k]
    BY <1>4, Zenon DEF Envelope!At
  <2>4. QED
    BY <2>2, <2>3, Zenon DEF Envelope!asUint64
<1>7. ASSUME NEW k \in Envelope!LimitKeys
      PROVE  (IF Envelope!asUint64(Envelope!At(raw, k)) = {} THEN 0
              ELSE Envelope!The(Envelope!asUint64(Envelope!At(raw, k)))) = l[k]
  BY <1>6 DEF Envelope!The
<1>8. [k \in Envelope!LimitKeys |->
         IF Envelope!asUint64(Envelope!At(raw, k)) = {} THEN 0
         ELSE Envelope!The(Envelope!asUint64(Envelope!At(raw, k)))] = l
  BY <1>7, Zenon
<1>9. QED
  BY <1>2, <1>5, <1>8, Zenon DEF Envelope!ParseHubLimits

\* A field of texts is read as it was written.
LEMMA TextAgain ==
  ASSUME NEW f, NEW k, NEW o \in Envelope!Maybe(Envelope!Valid), Holds(f, k, o)
  PROVE  Envelope!asString(Envelope!At([n \in DOMAIN f |-> Cbor(f[n])], k)) = o
<1>1. PICK raw : raw = [n \in DOMAIN f |-> Cbor(f[n])]
  BY ZenonT(60)
<1>2. DOMAIN raw = DOMAIN f /\ \A n \in DOMAIN f : raw[n] = Cbor(f[n])
  BY <1>1, Zenon
<1>3. CASE k \in DOMAIN f
  <2>1. o = {f[k]}
    BY <1>3, Zenon DEF Holds
  <2>2. f[k] \in Envelope!Valid
    BY <2>1 DEF Envelope!Maybe
  <2>3. Cbor(f[k]) = f[k] /\ f[k][1] = "text"
    BY <2>2, ScalarsThrough, Zenon
  <2>4. Envelope!At(raw, k) = f[k]
    BY <1>2, <1>3, <2>3, Zenon DEF Envelope!At
  <2>5. Envelope!asString(f[k]) = o
    BY <2>1, <2>3, Zenon DEF Envelope!asString
  <2>6. QED
    BY <1>1, <2>4, <2>5, Zenon
<1>4. CASE k \notin DOMAIN f
  <2>1. o = {}
    BY <1>4, Zenon DEF Holds
  <2>2. Envelope!At(raw, k) = <<"nil">>
    BY <1>2, <1>4, Zenon DEF Envelope!At
  <2>3. <<"nil">>[1] # "text"
    BY Zenon
  <2>4. Envelope!asString(<<"nil">>) = {}
    BY <2>3, Zenon DEF Envelope!asString
  <2>5. QED
    BY <1>1, <2>1, <2>2, <2>4, Zenon
<1>5. QED
  BY <1>3, <1>4, Zenon

\* What is missing is read as missing.
LEMMA NothingAgain ==
  Envelope!coerceUintMap(<<"nil">>) = {} /\ Envelope!ParseHubLimits(<<"nil">>) = {}
<1>1. <<"nil">>[1] # "map" /\ <<"nil">>[1] # "anymap"
  BY Zenon
<1>2. Envelope!coerceUintMap(<<"nil">>) = {}
  BY <1>1, Zenon DEF Envelope!coerceUintMap
<1>3. QED
  BY <1>2 DEF Envelope!ParseHubLimits

LEMMA BodiesAgain == Envelope!BodiesSurvive
<1> SUFFICES ASSUME NEW w \in Envelope!Welcomes
             PROVE  /\ Envelope!ParseWelcomeBody(Cbor(Envelope!ToMap(w))) = {w}
                    /\ w.limits = {} => Envelope!ParseHelloBody(Cbor(Envelope!ToMap(w))) = {w}
  BY Zenon DEF Envelope!BodiesSurvive
<1>1. /\ w.name \in Envelope!Maybe(Envelope!Valid) /\ w.version \in Envelope!Maybe(Envelope!Valid)
      /\ w.caps \in Envelope!Maybe(Capabilities)
      /\ w.limits \in Envelope!Maybe([Envelope!LimitKeys -> Numbers])
      /\ w = [name |-> w.name, version |-> w.version, caps |-> w.caps, limits |-> w.limits]
  BY DEF Envelope!Welcomes
<1>2. PICK v : v = Envelope!ToMap(w)
  OBVIOUS
<1>3. v \in Values
  BY <1>2, InputAssumption, Zenon
<1>4. Envelope!ParseWelcomeBody(Cbor(v)) = {w}
  <2>1. CASE v = <<"nil">>
    <3>1. Cbor(v) = <<"nil">>
      BY <2>1, CodecAssumption, Zenon DEF Scalars
    <3>2. w.name = {} /\ w.version = {} /\ w.caps = {} /\ w.limits = {}
      <4>1. PICK K : K = {0 : x \in w.name} \cup {1 : x \in w.version}
                           \cup {2 : x \in w.caps} \cup {3 : x \in w.limits}
        BY ZenonT(60)
      <4>2. \A x : <<"map", x>> # <<"nil">>
        <5>1. <<"nil">>[1] = "nil"
          BY Zenon
        <5>2. \A x : <<"map", x>>[1] = "map"
          BY Zenon
        <5>3. QED
          BY <5>1, <5>2
      <4>3. K = {}
        BY <1>2, <2>1, <4>1, <4>2, Zenon DEF Envelope!ToMap
      <4>4. QED
        BY <4>1, <4>3
    <3>3. Envelope!ParseWelcomeBody(<<"nil">>) =
            {[name |-> {}, version |-> {}, caps |-> {}, limits |-> {}]}
      BY Zenon DEF Envelope!ParseWelcomeBody
    <3>4. w = [name |-> {}, version |-> {}, caps |-> {}, limits |-> {}]
      BY <1>1, <3>2, Zenon
    <3>5. QED
      BY <3>1, <3>3, <3>4, Zenon
  <2>2. CASE v # <<"nil">>
    <3>1. PICK f : /\ v = <<"map", f>>
                   /\ Holds(f, 0, w.name) /\ Holds(f, 1, w.version)
                   /\ 2 \in DOMAIN f <=> w.caps # {}
                   /\ 2 \in DOMAIN f => f[2] = <<"map", Envelope!The(w.caps)>>
                   /\ 3 \in DOMAIN f <=> w.limits # {}
                   /\ 3 \in DOMAIN f => f[3] = Envelope!LimitsToMap(Envelope!The(w.limits))
      BY <1>2, <2>2, ToMapIs, Zenon
    <3>2. PICK raw : raw = [n \in DOMAIN f |-> Cbor(f[n])]
      BY ZenonT(60)
    <3>3. /\ v \in Nested /\ v[2] = f /\ Cbor(v) # <<"nil">>
          /\ Envelope!coerceUintMap(Cbor(v)) = {raw}
      BY <1>3, <3>1, <3>2, MapIs
    <3>4. \A n \in DOMAIN f : f[n] \in Values
      BY <3>3, InputAssumption, Zenon
    <3>5. DOMAIN raw = DOMAIN f /\ \A n \in DOMAIN f : raw[n] = Cbor(f[n])
      BY <3>2, Zenon
    <3>6. /\ Envelope!asString(Envelope!At(raw, 0)) = w.name
          /\ Envelope!asString(Envelope!At(raw, 1)) = w.version
      BY <1>1, <3>1, <3>2, TextAgain, Zenon
    <3>7. Envelope!coerceUintMap(Envelope!At(raw, 2)) = w.caps
      <4>1. CASE 2 \in DOMAIN f
        <5>1. PICK c : c = Envelope!The(w.caps)
          OBVIOUS
        <5>2. c \in Capabilities /\ w.caps = {c}
          BY <1>1, <3>1, <4>1, <5>1, TheOne
        <5>3. \A n \in DOMAIN c : c[n] \in Scalars
          BY <5>2, InputAssumption, Zenon
        <5>4. c = [n \in DOMAIN c |-> c[n]]
          BY <5>2, InputAssumption, Zenon
        <5>5. [n \in DOMAIN c |-> Cbor(c[n])] = c
          BY <5>3, <5>4, CodecAssumption, Zenon
        <5>6. f[2] = <<"map", c>> /\ f[2] \in Values
          BY <3>1, <3>4, <4>1, <5>1, Zenon
        <5>7. Envelope!coerceUintMap(Cbor(f[2])) = {[n \in DOMAIN c |-> Cbor(c[n])]}
          BY <5>6, MapIs
        <5>8. Envelope!At(raw, 2) = Cbor(f[2])
          BY <3>5, <4>1, Zenon DEF Envelope!At
        <5>9. QED
          BY <5>2, <5>5, <5>7, <5>8, Zenon
      <4>2. CASE 2 \notin DOMAIN f
        BY <3>1, <3>5, <4>2, NothingAgain, Zenon DEF Envelope!At
      <4>3. QED
        BY <4>1, <4>2, Zenon
    <3>8. Envelope!ParseHubLimits(Envelope!At(raw, 3)) = w.limits
      <4>1. CASE 3 \in DOMAIN f
        <5>1. PICK l : l = Envelope!The(w.limits)
          OBVIOUS
        <5>2. l \in [Envelope!LimitKeys -> Numbers] /\ w.limits = {l}
          BY <1>1, <3>1, <4>1, <5>1, TheOne
        <5>3. f[3] = Envelope!LimitsToMap(l) /\ Envelope!LimitsToMap(l) \in Values
          BY <3>1, <3>4, <4>1, <5>1, Zenon
        <5>4. Envelope!At(raw, 3) = Cbor(f[3])
          BY <3>5, <4>1, Zenon DEF Envelope!At
        <5>5. QED
          BY <5>2, <5>3, <5>4, LimitsAgain, Zenon
      <4>2. CASE 3 \notin DOMAIN f
        BY <3>1, <3>5, <4>2, NothingAgain, Zenon DEF Envelope!At
      <4>3. QED
        BY <4>1, <4>2, Zenon
    <3>9. Envelope!ParseWelcomeBody(Cbor(v)) =
            {[name |-> Envelope!asString(Envelope!At(raw, 0)),
              version |-> Envelope!asString(Envelope!At(raw, 1)),
              caps |-> Envelope!coerceUintMap(Envelope!At(raw, 2)),
              limits |-> Envelope!ParseHubLimits(Envelope!At(raw, 3))]}
      BY <3>3, Zenon DEF Envelope!ParseWelcomeBody
    <3>10. QED
      BY <1>1, <3>6, <3>7, <3>8, <3>9, Zenon
  <2>3. QED
    BY <2>1, <2>2, Zenon
<1>5. w.limits = {} => [w EXCEPT !.limits = {}] = w
  BY DEF Envelope!Welcomes
<1>6. w.limits = {} => Envelope!ParseHelloBody(Cbor(v)) = {w}
  BY <1>4, <1>5, Zenon DEF Envelope!ParseHelloBody
<1>7. QED
  BY <1>2, <1>4, <1>6, Zenon

\* Whatever a session sends arrives as it was, or not at all exactly if a
\* string in it is not UTF-8; whatever the hub accepts from a member the others
\* can read; and HELLO and WELCOME are read as they were meant
\* (envelope.go:45-150, hub.go:444-463, bodies.go:17-189).
THEOREM EnvelopesSurvive == Spec => []EnvelopeSurvives
<1>1. EnvelopeSurvives
  BY EnvelopesArrive, ForwardedArrive, BodiesAgain, Zenon DEF EnvelopeSurvives
<1>2. QED
  BY <1>1, PTL

-----------------------------------------------------------------------------
(* Nicknames                                                                 *)

INSTANCE SequenceTheorems
INSTANCE WellFoundedInduction

\* A set of natural numbers has a least.
LEMMA Least ==
  ASSUME NEW T, T \subseteq Nat, T # {}
  PROVE  \E n \in T : \A m \in T : n <= m
<1>1. \E n \in T : \A m \in T : <<m, n>> \notin OpToRel(<, Nat)
  BY ZenonT(60), NatLessThanWellFounded, WFMin
<1>2. PICK n \in T : \A m \in T : <<m, n>> \notin OpToRel(<, Nat)
  BY ZenonT(60), <1>1
<1>3. \A m \in T : ~(m < n)
  BY ZenonT(60), <1>2 DEF OpToRel
<1>4. QED
  BY <1>3

\* One that is bounded has a greatest.
LEMMA Greatest ==
  ASSUME NEW L \in Nat, NEW T, T \subseteq 0 .. L, T # {}
  PROVE  \E n \in T : \A m \in T : m <= n
<1> DEFINE D == {L - m : m \in T}
<1>1. D \subseteq Nat /\ D # {}
  <2>1. \A m \in T : L - m \in Nat
    OBVIOUS
  <2>2. QED
    BY <2>1, Zenon
<1>2. PICK d \in D : \A e \in D : d <= e
  BY ZenonT(60), <1>1, Least
<1>3. PICK n \in T : d = L - n
  OBVIOUS
<1>4. \A m \in T : L - n <= L - m
  BY <1>2, <1>3
<1>5. QED
  BY <1>4

\* Induction up to L.
LEMMA Induct ==
  ASSUME NEW L \in Nat, NEW S, 0 \in S, \A n \in 0 .. L : n \in S /\ n + 1 <= L => n + 1 \in S
  PROVE  \A n \in 0 .. L : n \in S
<1> DEFINE T == {n \in 0 .. L : n \notin S}
<1> SUFFICES ASSUME T # {} PROVE FALSE
  OBVIOUS
<1>1. T \subseteq Nat
  OBVIOUS
<1>2. PICK m \in T : \A n \in T : m <= n
  BY ZenonT(60), <1>1, Least
<1>3. m \in 0 .. L /\ m \notin S /\ m # 0
  OBVIOUS
<1>4. m - 1 \in 0 .. L /\ m - 1 \notin T /\ (m - 1) + 1 = m
  BY <1>2, <1>3
<1>5. QED
  BY <1>3, <1>4

\* What the loop of SanitizeNick has written after every character.
Loop(b, s, out, L) ==
  b = [n \in 0 .. L |-> IF n = 0 THEN <<>>
                        ELSE IF s[n] \in out THEN b[n - 1] ELSE Append(b[n - 1], s[n])]

\* The loop has a result after every character.
LEMMA LoopRuns ==
  ASSUME NEW s, NEW out, NEW k, k = Nick!Stripped(s, out), NEW L \in Nat, L = Len(s)
  PROVE  \E b : Loop(b, s, out, L) /\ k = b[L]
<1> DEFINE Turn(b, n) == IF n = 0 THEN <<>>
                         ELSE IF s[n] \in out THEN b[n - 1] ELSE Append(b[n - 1], s[n])
           S == {m \in Nat : \E b : b = [n \in 0 .. m |-> Turn(b, n)]}
<1>1. 0 \in S
  <2> DEFINE b == [n \in 0 .. 0 |-> <<>>]
  <2>1. b = [n \in 0 .. 0 |-> Turn(b, n)]
    OBVIOUS
  <2>2. QED
    BY ZenonT(60), <2>1
<1>2. ASSUME NEW m \in Nat, m \in S
      PROVE  m + 1 \in S
  <2>1. PICK b : b = [n \in 0 .. m |-> Turn(b, n)]
    BY SMTT(60), <1>2
  <2> DEFINE g == [n \in 0 .. m + 1 |-> IF n <= m THEN b[n] ELSE Turn(b, m + 1)]
  <2>2. ASSUME NEW n \in 0 .. m + 1
        PROVE  g[n] = Turn(g, n)
    <3>1. CASE n = 0
      BY <2>1, <3>1
    <3>2. CASE n # 0 /\ n <= m
      <4>1. n \in 0 .. m /\ n - 1 \in 0 .. m + 1 /\ n - 1 <= m
        BY <3>2
      <4>2. b[n] = Turn(b, n)
        BY <2>1, <4>1, ZenonT(60)
      <4>3. g[n] = b[n] /\ g[n - 1] = b[n - 1]
        BY SMTT(60), <3>2, <4>1
      <4>4. QED
        BY <3>2, <4>2, <4>3, ZenonT(60)
    <3>3. CASE n = m + 1
      <4>1. g[n] = Turn(b, n) /\ g[n - 1] = b[n - 1] /\ n # 0
        BY <3>3
      <4>2. QED
        BY SMTT(60), <4>1
    <3>4. QED
      BY SMTT(60), <3>1, <3>2, <3>3
  <2>3. g = [n \in 0 .. m + 1 |-> Turn(g, n)]
    BY <2>2
  <2> HIDE DEF g
  <2>4. m + 1 \in Nat
    OBVIOUS
  <2>5. QED
    BY <2>3, <2>4, Zenon
<1>3. L \in S
  <2> HIDE DEF S
  <2>1. \A n \in 0 .. L : n \in S
    BY <1>1, <1>2, Induct
  <2>2. QED
    BY <2>1
<1> DEFINE E(b) == b = [n \in 0 .. L |-> Turn(b, n)]
<1>4. \E b : E(b)
  BY <1>3, Zenon
<1>5. k = (CHOOSE b : E(b))[L]
  BY DEF Nick!Stripped
<1> HIDE DEF E
<1>6. E(CHOOSE b : E(b))
  BY <1>4, Zenon
<1>7. \E b : E(b) /\ k = b[L]
  BY <1>5, <1>6, Zenon
<1>8. QED
  BY <1>7, Zenon DEF E, Loop

\* What the loop keeps: everything, nothing, or the first and the last that is
\* not to go at the ends.
Keeps(k, s, out) ==
  /\ (\A i \in 1 .. Len(s) : s[i] \notin out) => k = s
  /\ (\A i \in 1 .. Len(s) : s[i] \in out) => k = <<>>
  /\ \A i \in 1 .. Len(s) :
       s[i] \notin out /\ (\A j \in 1 .. i - 1 : s[j] \in out) => k # <<>> /\ k[1] = s[i]
  /\ \A i \in 1 .. Len(s) :
       s[i] \notin out /\ (\A j \in i + 1 .. Len(s) : s[j] \in out) => k # <<>> /\ k[Len(k)] = s[i]

\* That is what the loop keeps.
LEMMA StrippedIs ==
  ASSUME NEW C, NEW s \in Seq(C), NEW out, NEW k, k = Nick!Stripped(s, out)
  PROVE  k \in Seq(C \ out) /\ Len(k) <= Len(s) /\ Keeps(k, s, out)
<1>0. PICK L \in Nat : L = Len(s)
  BY LenProperties
<1>1. L \in Nat /\ DOMAIN s = 1 .. L /\ \A i \in 1 .. L : s[i] \in C
  BY SMTT(60), <1>0, LenProperties, ElementOfSeq
<1>2. PICK b : Loop(b, s, out, L) /\ k = b[L]
  BY SMTT(60), <1>0, LoopRuns
<1> DEFINE A(n) == b[n] \in Seq(C \ out) /\ Len(b[n]) <= n
           B(n) == (\A i \in 1 .. n : s[i] \notin out) => b[n] = SubSeq(s, 1, n)
           D(n) == (\A i \in 1 .. n : s[i] \in out) => b[n] = <<>>
           F(n) == \A i \in 1 .. n :
                     s[i] \notin out /\ (\A j \in 1 .. i - 1 : s[j] \in out) => b[n] # <<>> /\ b[n][1] = s[i]
           G(n) == \A i \in 1 .. n :
                     s[i] \notin out /\ (\A j \in i + 1 .. n : s[j] \in out)
                       => b[n] # <<>> /\ b[n][Len(b[n])] = s[i]
           S == {n \in Nat : A(n) /\ B(n) /\ D(n) /\ F(n) /\ G(n)}
<1>3. b[0] = <<>>
  BY <1>1, <1>2 DEF Loop
<1>4. ASSUME NEW n \in 0 .. L, n + 1 <= L
      PROVE  b[n + 1] = IF s[n + 1] \in out THEN b[n] ELSE Append(b[n], s[n + 1])
  <2>1. n + 1 \in 0 .. L /\ n + 1 # 0 /\ (n + 1) - 1 = n
    BY SMTT(60), <1>1, <1>4
  <2>2. QED
    BY <1>2, <2>1, ZenonT(60) DEF Loop
<1>5. 0 \in S
  <2>1. A(0) /\ D(0)
    BY <1>3
  <2>2. B(0)
    BY SMTT(60), <1>3, SubSeqEmpty
  <2>3. F(0) /\ G(0)
    OBVIOUS
  <2>4. QED
    BY SMTT(60), <2>1, <2>2, <2>3
<1>6. ASSUME NEW n \in 0 .. L, n \in S, n + 1 <= L
      PROVE  n + 1 \in S
  <2>1. n \in Nat /\ n + 1 \in Nat /\ n + 1 \in 1 .. n + 1 /\ n + 1 \in 1 .. L
    BY <1>1, <1>6
  <2>2. A(n) /\ B(n) /\ D(n) /\ F(n) /\ G(n)
    BY <1>6, Zenon
  <2> HIDE DEF S
  <2>3. \A i \in 1 .. n : i \in 1 .. n + 1
    BY <2>1
  <2>4. CASE s[n + 1] \in out
    <3>1. b[n + 1] = b[n]
      BY <1>4, <1>6, <2>4, ZenonT(60)
    <3>2. A(n + 1)
      BY <2>1, <2>2, <3>1
    <3>3. B(n + 1)
      BY <2>1, <2>4, Zenon
    <3>4. D(n + 1)
      BY <2>2, <2>3, <3>1, ZenonT(60)
    <3>5. F(n + 1)
      <4> SUFFICES ASSUME NEW i \in 1 .. n + 1, s[i] \notin out, \A j \in 1 .. i - 1 : s[j] \in out
                   PROVE  b[n + 1] # <<>> /\ b[n + 1][1] = s[i]
        BY Zenon
      <4>1. i \in 1 .. n
        BY <2>1, <2>4
      <4>2. QED
        BY <2>2, <3>1, <4>1, ZenonT(60)
    <3>6. G(n + 1)
      <4> SUFFICES ASSUME NEW i \in 1 .. n + 1, s[i] \notin out, \A j \in i + 1 .. n + 1 : s[j] \in out
                   PROVE  b[n + 1] # <<>> /\ b[n + 1][Len(b[n + 1])] = s[i]
        BY Zenon
      <4>1. i \in 1 .. n /\ \A j \in i + 1 .. n : j \in i + 1 .. n + 1
        BY SMTT(60), <2>1, <2>4
      <4>2. QED
        BY <2>2, <3>1, <4>1, ZenonT(60)
    <3>7. QED
      BY <2>1, <3>2, <3>3, <3>4, <3>5, <3>6, ZenonT(60) DEF S
  <2>5. CASE s[n + 1] \notin out
    <3> DEFINE x == s[n + 1]
    <3>1. b[n + 1] = Append(b[n], x)
      BY <1>4, <1>6, <2>5, ZenonT(60)
    <3>2. x \in C \ out /\ b[n] \in Seq(C \ out)
      BY <1>1, <2>1, <2>2, <2>5, ZenonT(60)
    <3>3. /\ b[n + 1] \in Seq(C \ out) /\ b[n + 1] # <<>>
          /\ Len(b[n + 1]) = Len(b[n]) + 1
          /\ \A i \in 1 .. Len(b[n]) : b[n + 1][i] = b[n][i]
          /\ b[n + 1][Len(b[n]) + 1] = x
      <4> HIDE DEF x
      <4>1. PICK S2, y : S2 = C \ out /\ y = b[n]
        BY ZenonT(60)
      <4>2. y \in Seq(S2) /\ x \in S2
        BY <3>2, <4>1
      <4>3. /\ Append(y, x) \in Seq(S2) /\ Append(y, x) # <<>>
            /\ Len(Append(y, x)) = Len(y) + 1
            /\ \A i \in 1 .. Len(y) : Append(y, x)[i] = y[i]
            /\ Append(y, x)[Len(y) + 1] = x
        BY <4>2, AppendProperties
      <4>4. QED
        BY <3>1, <4>1, <4>3, ZenonT(60)
    <3>4. Len(b[n]) \in Nat
      BY SMTT(60), <3>2, LenProperties
    <3>5. A(n + 1)
      BY <2>1, <2>2, <3>3, <3>4
    <3>6. B(n + 1)
      <4> SUFFICES ASSUME \A i \in 1 .. n + 1 : s[i] \notin out
                   PROVE  b[n + 1] = SubSeq(s, 1, n + 1)
        BY Zenon
      <4>1. b[n] = SubSeq(s, 1, n)
        BY <2>2, <2>3, ZenonT(60)
      <4>2. SubSeq(s, 1, n + 1) = Append(SubSeq(s, 1, n), s[n + 1])
        BY <1>1, <2>1
      <4>3. QED
        BY <3>1, <4>1, <4>2, ZenonT(60)
    <3>7. D(n + 1)
      BY <2>1, <2>5, ZenonT(60)
    <3>8. F(n + 1)
      <4> SUFFICES ASSUME NEW i \in 1 .. n + 1, s[i] \notin out, \A j \in 1 .. i - 1 : s[j] \in out
                   PROVE  b[n + 1][1] = s[i]
        BY <3>3, Zenon
      <4>1. CASE i = n + 1
        <5>1. \A j \in 1 .. n : j \in 1 .. i - 1
          BY <2>1, <4>1
        <5>2. b[n] = <<>>
          BY <2>2, <5>1, Zenon
        <5>3. Len(b[n]) + 1 = 1
          BY <5>2
        <5>4. QED
          BY <3>3, <4>1, <5>3, ZenonT(60)
      <4>2. CASE i \in 1 .. n
        <5>1. b[n] # <<>> /\ b[n][1] = s[i]
          BY <2>2, <4>2, ZenonT(60)
        <5>2. Len(b[n]) # 0
          BY SMTT(60), <3>2, <5>1, EmptySeq
        <5>3. 1 \in 1 .. Len(b[n])
          BY <3>4, <5>2
        <5>4. QED
          BY <3>3, <5>1, <5>3, Zenon
      <4>3. QED
        BY SMTT(60), <2>1, <4>1, <4>2
    <3>9. G(n + 1)
      <4> SUFFICES ASSUME NEW i \in 1 .. n + 1, s[i] \notin out, \A j \in i + 1 .. n + 1 : s[j] \in out
                   PROVE  b[n + 1][Len(b[n + 1])] = s[i]
        BY <3>3, Zenon
      <4>1. i = n + 1
        BY <2>1, <2>5
      <4>2. QED
        BY <3>3, <4>1, Zenon
    <3>10. QED
      BY <2>1, <3>5, <3>6, <3>7, <3>8, <3>9, Zenon DEF S
  <2>6. QED
    BY <2>4, <2>5
<1>7. L \in S
  <2> HIDE DEF S
  <2>1. \A n \in 0 .. L : n \in S
    BY <1>1, <1>5, <1>6, Induct
  <2>2. L \in 0 .. L
    BY <1>1
  <2>3. QED
    BY <2>1, <2>2, Zenon
<1>8. A(L) /\ B(L) /\ D(L) /\ F(L) /\ G(L)
  BY <1>7, Zenon
<1>9. SubSeq(s, 1, L) = s
  BY <1>0, SubSeqFull
<1>10. QED
  BY <1>0, <1>2, <1>8, <1>9, ZenonT(60) DEF Keeps

\* TrimSpace cuts at the first and behind the last character that is no space.
LEMMA TrimSpaceIs ==
  ASSUME NEW C, NEW s \in Seq(C), NEW t, t = Nick!TrimSpace(s)
  PROVE  \/ (\A i \in 1 .. Len(s) : s[i] \in Nick!Space) /\ t = <<>>
         \/ \E p, q \in 1 .. Len(s) :
              /\ p <= q /\ t = SubSeq(s, p, q)
              /\ s[p] \notin Nick!Space /\ s[q] \notin Nick!Space
              /\ \A i \in 1 .. Len(s) : s[i] \notin Nick!Space => p <= i /\ i <= q
<1> DEFINE ink == {i \in DOMAIN s : s[i] \notin Nick!Space}
           First(i) == \A j \in ink : i <= j
           Final(i) == \A j \in ink : j <= i
<1>1. Len(s) \in Nat /\ DOMAIN s = 1 .. Len(s)
  BY LenProperties
<1>2. t = IF ink = {} THEN <<>>
          ELSE SubSeq(s, CHOOSE i \in ink : First(i), CHOOSE i \in ink : Final(i))
  BY DEF Nick!TrimSpace
<1>3. CASE ink = {}
  BY <1>1, <1>2, <1>3, Zenon
<1>4. CASE ink # {}
  <2>1. ink \subseteq Nat /\ ink \subseteq 0 .. Len(s)
    BY <1>1
  <2>2. (\E i \in ink : First(i)) /\ (\E i \in ink : Final(i))
    <3> HIDE DEF ink
    <3>1. QED
      BY ZenonT(60), <1>1, <1>4, <2>1, Least, Greatest
  <2> HIDE DEF First, Final
  <2>3. PICK p, q \in ink : /\ p = (CHOOSE i \in ink : First(i)) /\ First(p)
                            /\ q = (CHOOSE i \in ink : Final(i)) /\ Final(q)
    BY <2>2, Zenon
  <2>4. t = SubSeq(s, p, q)
    BY <1>2, <1>4, <2>3, Zenon
  <2>5. p <= q
    BY <2>3, Zenon DEF First
  <2>6. p \in 1 .. Len(s) /\ q \in 1 .. Len(s) /\ s[p] \notin Nick!Space /\ s[q] \notin Nick!Space
    BY <1>1, Zenon
  <2>7. \A i \in 1 .. Len(s) : s[i] \notin Nick!Space => p <= i /\ i <= q
    BY <1>1, <2>3, Zenon DEF First, Final
  <2>8. QED
    BY <2>4, <2>5, <2>6, <2>7, Zenon
<1>5. QED
  BY ZenonT(60), <1>3, <1>4

\* The characters between two places.
LEMMA Between ==
  ASSUME NEW C, NEW s \in Seq(C), NEW p \in 1 .. Len(s), NEW q \in 1 .. Len(s), p <= q,
         NEW t, t = SubSeq(s, p, q)
  PROVE  /\ t \in Seq(C) /\ Len(t) = q - p + 1
         /\ \A i \in 1 .. Len(t) : t[i] = s[p + i - 1]
<1>1. Len(s) \in Nat /\ \A i \in 1 .. Len(s) : s[i] \in C
  BY LenProperties, ElementOfSeq
<1>2. \A i \in p .. q : s[i] \in C
  BY <1>1
<1>3. p \in Int /\ q \in Int
  BY SMTT(60), <1>1
<1>4. /\ SubSeq(s, p, q) \in Seq(C)
      /\ Len(SubSeq(s, p, q)) = IF p <= q THEN q - p + 1 ELSE 0
      /\ \A i \in 1 .. q - p + 1 : SubSeq(s, p, q)[i] = s[p + i - 1]
  BY <1>2, <1>3, SubSeqProperties
<1>5. QED
  BY <1>4, Zenon

\* TrimSpace keeps what has no space at its ends, and nothing else.
LEMMA TrimSpaceKeeps ==
  ASSUME NEW C, NEW s \in Seq(C), NEW t, t = Nick!TrimSpace(s)
  PROVE  /\ t \in Seq(C) /\ Len(t) <= Len(s)
         /\ \A i \in 1 .. Len(t) : \E j \in 1 .. Len(s) : t[i] = s[j]
         /\ t # <<>> => t[1] \notin Nick!Space /\ t[Len(t)] \notin Nick!Space
         /\ s = <<>> \/ (s[1] \notin Nick!Space /\ s[Len(s)] \notin Nick!Space) => t = s
<1>1. Len(s) \in Nat
  BY LenProperties
<1>2. CASE (\A i \in 1 .. Len(s) : s[i] \in Nick!Space) /\ t = <<>>
  <2>1. t \in Seq(C) /\ Len(t) = 0
    BY <1>2
  <2>2. s # <<>> => 1 \in 1 .. Len(s)
    BY <1>1, EmptySeq
  <2>3. QED
    BY SMTT(60), <1>1, <1>2, <2>1, <2>2
<1>3. CASE \E p, q \in 1 .. Len(s) :
              /\ p <= q /\ t = SubSeq(s, p, q)
              /\ s[p] \notin Nick!Space /\ s[q] \notin Nick!Space
              /\ \A i \in 1 .. Len(s) : s[i] \notin Nick!Space => p <= i /\ i <= q
  <2>1. PICK p, q \in 1 .. Len(s) :
              /\ p <= q /\ t = SubSeq(s, p, q)
              /\ s[p] \notin Nick!Space /\ s[q] \notin Nick!Space
              /\ \A i \in 1 .. Len(s) : s[i] \notin Nick!Space => p <= i /\ i <= q
    BY <1>3, ZenonT(60)
  <2>2. /\ t \in Seq(C) /\ Len(t) = q - p + 1
        /\ \A i \in 1 .. Len(t) : t[i] = s[p + i - 1]
    BY SMTT(60), <2>1, Between
  <2>3. Len(t) \in Nat /\ Len(t) <= Len(s) /\ 1 \in 1 .. Len(t) /\ Len(t) \in 1 .. Len(t)
    BY SMTT(60), <1>1, <2>1, <2>2
  <2>4. \A i \in 1 .. Len(t) : p + i - 1 \in 1 .. Len(s)
    BY SMTT(60), <1>1, <2>1, <2>2
  <2>5. p + 1 - 1 = p /\ p + Len(t) - 1 = q
    BY <1>1, <2>1, <2>2
  <2>6. t[1] = s[p] /\ t[Len(t)] = s[q]
    BY <2>2, <2>3, <2>5, ZenonT(60)
  <2>7. s # <<>>
    BY <1>1
  <2>8. ASSUME s[1] \notin Nick!Space, s[Len(s)] \notin Nick!Space
        PROVE  t = s
    <3>1. 1 \in 1 .. Len(s) /\ Len(s) \in 1 .. Len(s)
      BY <1>1, <2>1
    <3>2. p <= 1 /\ Len(s) <= q
      BY <2>1, <2>8, <3>1, ZenonT(60)
    <3>3. p = 1 /\ q = Len(s)
      BY <1>1, <3>2
    <3>4. QED
      BY <2>1, <3>3, SubSeqFull, ZenonT(60)
  <2>9. QED
    BY <2>1, <2>2, <2>3, <2>4, <2>6, <2>7, <2>8, ZenonT(60)
<1>4. QED
  BY <1>2, <1>3, TrimSpaceIs, ZenonT(60)

\* A blank at the beginning or the end.
BlankEnd(c) == c # <<>> /\ (c[1] = " " \/ c[Len(c)] = " ")

\* What SanitizeNick has made of a name it only trims the next time, and leaves
\* alone after that.
LEMMA SanitizedAgain ==
  ASSUME NEW C, NEW c \in Seq(C \ Nick!Control), NEW d, d = Nick!SanitizeNick(c)
  PROVE  /\ d \in Seq(C \ Nick!Control) /\ Len(d) <= Len(c)
         /\ d = Nick!TrimSpace(c)
         /\ d = c <=> ~BlankEnd(c)
         /\ Nick!SanitizeNick(d) = d
<1>1. PICK P, t : P = C \ Nick!Control /\ t = Nick!TrimSpace(c)
  OBVIOUS
<1>2. \A x \in P : x \notin Nick!Control /\ (x \notin Nick!Space <=> x # " ")
  BY ZenonT(60), <1>1 DEF Nick!Control, Nick!Space
<1>3. c \in Seq(P)
  BY <1>1
<1>4. /\ t \in Seq(P) /\ Len(t) <= Len(c)
      /\ t # <<>> => t[1] \notin Nick!Space /\ t[Len(t)] \notin Nick!Space
      /\ c = <<>> \/ (c[1] \notin Nick!Space /\ c[Len(c)] \notin Nick!Space) => t = c
  BY <1>1, <1>3, TrimSpaceKeeps
<1>5. ASSUME NEW x \in Seq(P)
      PROVE  Nick!Stripped(x, Nick!Control) = x
  <2>1. \A i \in 1 .. Len(x) : x[i] \in P
    BY ElementOfSeq
  <2>2. PICK k, out : k = Nick!Stripped(x, out) /\ out = Nick!Control
    OBVIOUS
  <2>3. Keeps(k, x, out)
    BY ZenonT(60), <2>2, StrippedIs
  <2>4. QED
    BY <1>2, <2>1, <2>2, <2>3, ZenonT(60) DEF Keeps
<1>6. d = t
  BY <1>1, <1>4, <1>5 DEF Nick!SanitizeNick
<1>7. ASSUME NEW x \in Seq(P), x # <<>>
      PROVE  /\ x[1] \notin Nick!Space <=> x[1] # " "
             /\ x[Len(x)] \notin Nick!Space <=> x[Len(x)] # " "
  <2>1. 1 \in 1 .. Len(x) /\ Len(x) \in 1 .. Len(x)
    BY <1>7, EmptySeq
  <2>2. x[1] \in P /\ x[Len(x)] \in P
    BY <2>1, ElementOfSeq
  <2>3. QED
    BY <1>2, <2>2, Zenon
<1>8. t # <<>> => t[1] # " " /\ t[Len(t)] # " "
  BY <1>4, <1>7, ZenonT(60)
<1>9. t = c <=> c = <<>> \/ (c[1] # " " /\ c[Len(c)] # " ")
  BY <1>3, <1>4, <1>7, ZenonT(60)
<1>10. Nick!TrimSpace(t) = t
  <2>1. PICK u : u = Nick!TrimSpace(t)
    OBVIOUS
  <2>2. t = <<>> \/ (t[1] \notin Nick!Space /\ t[Len(t)] \notin Nick!Space) => u = t
    BY <1>4, <2>1, TrimSpaceKeeps
  <2>3. QED
    BY <1>4, <2>1, <2>2, ZenonT(60)
<1>11. Nick!SanitizeNick(t) = t
  BY <1>4, <1>5, <1>10, ZenonT(60) DEF Nick!SanitizeNick
<1>12. QED
  BY <1>1, <1>4, <1>6, <1>8, <1>9, <1>11, ZenonT(60) DEF BlankEnd

\* A sanitized name has no control characters.
LEMMA Sanitized ==
  ASSUME NEW C, NEW n \in Seq(C)
  PROVE  Nick!SanitizeNick(n) \in Seq(C \ Nick!Control)
<1>1. PICK t, out : t = Nick!TrimSpace(n) /\ out = Nick!Control
  OBVIOUS
<1>2. t \in Seq(C)
  BY <1>1, TrimSpaceKeeps
<1>3. Nick!Stripped(t, out) \in Seq(C \ out)
  BY <1>2, StrippedIs
<1>4. QED
  BY <1>1, <1>3 DEF Nick!SanitizeNick

\* What a hub calls a client that it called `old`: as long as it may be, without
\* control characters and not to be trimmed again.
LEMMA HubNickIs ==
  ASSUME NEW C, NEW n \in Seq(C), NEW old \in Seq(C \ Nick!Control),
         Nick!SanitizeNick(old) = old, Len(old) <= MaxNickBytes,
         NEW hub, hub = Nick!HubNick(old, n)
  PROVE  /\ hub \in Seq(C \ Nick!Control)
         /\ Nick!SanitizeNick(hub) = hub
         /\ Len(hub) <= MaxNickBytes
<1>1. PICK c : c = Nick!SanitizeNick(n)
  OBVIOUS
<1>2. c \in Seq(C \ Nick!Control)
  BY <1>1, Sanitized
<1>3. PICK d : d = Nick!SanitizeNick(c)
  OBVIOUS
<1>4. d \in Seq(C \ Nick!Control) /\ Len(d) <= Len(c) /\ Nick!SanitizeNick(d) = d
  BY ZenonT(60), <1>2, <1>3, SanitizedAgain
<1>5. hub = old \/ (hub = d /\ ~(Len(c) > MaxNickBytes))
  BY <1>1, <1>3, ZenonT(60) DEF Nick!HubNick, Nick!applyInboundNick
<1>6. Len(c) \in Nat /\ Len(d) \in Nat /\ MaxNickBytes \in Nat
  BY <1>2, <1>4, LenProperties, InputAssumption
<1>7. ~(Len(c) > MaxNickBytes) => Len(d) <= MaxNickBytes
  BY <1>4, <1>6
<1>8. QED
  BY <1>4, <1>5, <1>7, ZenonT(60)

\* NickAgrees, of nicknames over any characters.
LEMMA NicksAgree == Nick!NickAgrees
<1> SUFFICES ASSUME NEW n \in Nicks, NEW earlier \in Nicks,
                    NEW c, c = Nick!SanitizeNick(n), NEW own, own = Nick!TrimSpace(c),
                    NEW old, old = Nick!HubNick(<<>>, earlier),
                    NEW hub, hub = Nick!HubNick(old, c)
             PROVE  /\ hub = IF own = <<>> \/ Len(own) > MaxNickBytes THEN old ELSE own
                    /\ Nick!SanitizeNick(hub) = hub
                    /\ \A i \in DOMAIN hub : hub[i] \notin Nick!Control
                    /\ Len(hub) <= MaxNickBytes
  BY DEF Nick!NickAgrees
<1>1. PICK C, P : C = Characters /\ P = C \ Nick!Control
  BY ZenonT(60)
<1>2. n \in Seq(C) /\ earlier \in Seq(C) /\ MaxNickBytes \in Nat
  BY <1>1, InputAssumption
<1>3. PICK e : e = <<>>
  OBVIOUS
<1>4. e \in Seq(P) /\ Len(e) <= MaxNickBytes
  BY <1>2, <1>3
<1>5. Nick!SanitizeNick(e) = e
  <2>1. PICK d : d = Nick!SanitizeNick(e)
    OBVIOUS
  <2>2. d = e <=> ~BlankEnd(e)
    BY ZenonT(60), <1>1, <1>4, <2>1, SanitizedAgain
  <2>3. QED
    BY <1>3, <2>1, <2>2, ZenonT(60) DEF BlankEnd
<1>6. old \in Seq(P) /\ Nick!SanitizeNick(old) = old /\ Len(old) <= MaxNickBytes
  <2>1. old = Nick!HubNick(e, earlier)
    BY <1>3
  <2>2. QED
    BY SMTT(60), <1>1, <1>2, <1>4, <1>5, <2>1, HubNickIs
<1>7. c \in Seq(P)
  BY ZenonT(60), <1>1, <1>2, Sanitized
<1>8. hub \in Seq(P) /\ Nick!SanitizeNick(hub) = hub /\ Len(hub) <= MaxNickBytes
  <2>1. c \in Seq(C)
    BY <1>1, <1>7, SeqMonotonic
  <2>2. QED
    BY <1>1, <1>6, <2>1, HubNickIs
<1>9. \A i \in DOMAIN hub : hub[i] \notin Nick!Control
  <2>1. DOMAIN hub = 1 .. Len(hub) /\ \A i \in 1 .. Len(hub) : hub[i] \in P
    BY <1>8, LenProperties, ElementOfSeq
  <2>2. QED
    BY <1>1, <2>1, Zenon
<1>10. PICK d, f : d = Nick!SanitizeNick(c) /\ f = Nick!SanitizeNick(d)
  OBVIOUS
<1>11. f = d /\ d = own /\ (d = c <=> ~BlankEnd(c))
  BY ZenonT(60), <1>1, <1>7, <1>10, SanitizedAgain
<1>12. hub = IF c = <<>> \/ d = <<>> \/ Len(d) > MaxNickBytes THEN old ELSE f
  BY <1>10, Zenon DEF Nick!HubNick, Nick!applyInboundNick
<1>13. c = <<>> => d = <<>>
  BY <1>11, ZenonT(60) DEF BlankEnd
<1>14. hub = IF own = <<>> \/ Len(own) > MaxNickBytes THEN old ELSE own
  BY <1>11, <1>12, <1>13, ZenonT(60)
<1>15. QED
  BY <1>8, <1>9, <1>14, ZenonT(60)

\* For nicknames of any length over any characters and any limit, the hub calls
\* its client what the client calls itself, trimmed, or what it called it
\* before, and never a name with control characters or above the limit
\* (room.go:14-32, hub.go:243-253, session.go:66-84).
THEOREM NicksAlwaysAgree == Spec => []NickAgrees
<1>1. NickAgrees
  BY NicksAgree DEF NickAgrees
<1>2. QED
  BY <1>1, PTL
=============================================================================
