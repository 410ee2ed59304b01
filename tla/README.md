# A TLA+ development for reticulum-go-mf

The repository implements two application protocols over Reticulum links: RRC, a
room relay (`pkg/rrc`: a hub, its clients, and the session between them), and LXMF,
a message format with store-and-forward delivery (`pkg/lxmf`: messages, stamps, a
messenger, a registry of propagation nodes, files). `pkg/mf` is a small message
format over single packets. This directory models what depends on the order in which
goroutines, packets, callbacks, system calls and crashes happen as state machines, and
the formats that two sides must agree on as operators. `PROJECT.json` maps every
definition to the lines it translates, and lists components, runs, mutants, hazards,
findings and theorems.

## 1. Survey: the system's parts

| Part | State | Operations | What makes it hard |
|---|---|---|---|
| RRC hub (`hub.go`) | `peers`, `rooms`, per peer `sess`, `peerHash`, `registerOnce`, `pendingHello`, `active`, `rooms` | accept a link, register an identity, HELLO, JOIN, PART, MSG/NOTICE, PING, drop a peer, Close | one goroutine per packet; `peerHash` and `sess` are read without a lock; an identity may open a second link |
| RRC rate limit (`hub.go`) | `msgTimes` | `allowRate` | the clock is read before the lock is taken |
| RRC session (`session.go`) | `closed`, nickname | send, receive, close | close runs a callback that takes the hub's lock |
| RRC client (`client.go`) | `state`, `rooms`, `welcomeCh`, `closed` | Dial, Join, Part, Message, Ping, Close, inbound dispatch, link closed | Dial runs while packets arrive and while the link closes; Link.mutex is held during the closed callback |
| RRC formats (`envelope.go`, `bodies.go`, `room.go`) | none | envelopes, bodies, nicknames | what one side encodes the other may refuse |
| LXMF cached links (`delivery_link.go`, `propagation_link.go`) | cached link, its peer, a mutex | ensure, clear, closed callback, retry over nodes | two kinds of mutex, callbacks under one that take the other |
| LXMF stamper (`stamper.go`) | workers, result channel, two contexts | `GenerateStamp`, target, score | first result wins, the others have to stop; boundary of the target |
| LXMF message (`message.go`) | payload, hash, signature, stamp, packed bytes | Pack, PackPropagated, Unpack, ValidateStamp, the choice of a delivery method | Pack is called several times on one message; map order of the encoder; size limits that meet |
| LXMF messenger (`messenger.go`, `propagation_send.go`, `propagation_stamp.go`) | the message, the send in progress | eight send functions, receive | the message changes between sends; a registry changes during one |
| LXMF propagation registry (`propagation.go`) | nodes with cost and hops | announce, reachable, attempt order | announces arrive while a retrying send walks over the nodes |
| LXMF announce data (`helpers.go`) | none | three encoders, seven readers | text or array is guessed from the first byte, and each reader decodes for itself |
| LXMF files (`container.go`, `config.go`) | a file and its temporary name | save, load | system calls fail, the process dies, two saves overlap |
| LXMF configuration text, paper messages, containers | none | write and read | comments, blanks and line limits; size limits in two places |
| MF (`mf.go`) | none | Validate, Pack, Unpack, send | a flag that is also a possible first byte of a text |
| Reticulum link (vendored) | status, mutex, callbacks | handshake, identify, packet, teardown, watchdog | its threading decides everything above |

Interactions: a hub and its clients exchange envelopes over a link, the hub hears of a
link only through its packet and identified callbacks, the client also through its
closed callback. A messenger asks the stamper for stamps, the registry for nodes and
the cached link for a way to them. Each module models the side of an interaction that
its component sees; the other side is an environment that may do anything that the
other component's code can do.

## 2. Modules

| Module | Models | A step is |
|---|---|---|
| `RRCHub` | `hub.go`, `session.go`, inbound side of a link | one critical section of `Hub.mu`, or one access to state it does not protect |
| `RRCRate` | `Hub.allowRate` for one peer | reading the clock; the critical section; a tick |
| `RRCClient` | `client.go` on `session.go` | one critical section, channel or link operation |
| `RRCEnvelope` | `envelope.go`, `bodies.go`, the hub's forwarding | (operators) |
| `RRCNick` | `SanitizeNick` and its two users in the hub and the session | (operators) |
| `RRCCodec` | the vendored CBOR library as the RRC formats see it | (operators) |
| `RRCMessages` | the client with its formats, and the contract of CBOR | |
| `LXMFLinkCache` | `propagation_link.go`, link part of `delivery_link.go`, the retry loop | taking or releasing a lock, one link operation |
| `LXMFStamper` | `GenerateStamp` and the target arithmetic | one channel, context or random-source operation |
| `LXMFMessage` | `message.go`: packing, signing, stamps | (operators on records) |
| `LXMFMessenger` | the send functions, the registry, the recipient | one phase of a send: pack, stamp, transmit, one attempt |
| `LXMFWire` | MessagePack values as the vendored decoder gives them back | (operators) |
| `LXMFFields` | the payload codec and the normalisation of `Fields` | (operators) |
| `LXMFAnnounce` | the encoders and readers of announce data, `helpers.go` | (operators) |
| `MFMessage` | `mf.go` | (operators) |
| `Messengers` | the messenger with the compact message | |
| `AtomicFile` | what the savers promise of a file | one whole save or load |
| `LXMFFiles` | `WriteToDirectory`, `ReadFromFile`, `SaveConfig`, `WriteDefaultConfigFile`, `LoadConfig` | one system call or one write inside `os.WriteFile`; a crash |
| `LXMFConfig` | the text of a configuration, its reader and writer | (operators) |
| `LXMFFormats` | size rules, paper URIs, containers | (operators) |
| `LXMFStored` | the files with these formats | |
| `MC*` | instances for TLC | |
| `RRCHubInvariant`, `*Proofs` | theorems and their proofs | |

### RRCHub
A goroutine is a record in `gr`: its label, its link, the packet it brought, the
envelope it handles and where it returns. `Accept(l)` is the goroutine that runs
`acceptLink`, `Ident(l)` the one that runs the identified callback, one more per packet,
and one calls `Hub.Close`. A `hubPeer` is identified with its link. `register` is split
at `Hub.mu` and inside `registerOnce.Do`, so that other goroutines wait for the one that
is inside (`Register`, `RegisterLock`, `CloseSession`, `DropPeerIf`, `EndRegister`).
`handlePeer` is split the same way: it reads `active`, unlocks, and acts
(`HandlePeer`, then `OnHello`, `OnJoin`, `OnPart`, `OnRoomContent`). The reads of
`peerHash` and `sess` that nothing protects are steps of their own. A method call on a
session that is still nil is the step `Panic`, after which the process is gone.
Two places of the vendored link are one step each: a packet that finds no callback is kept
(`link.go:993`), and the callback is installed and given the packet kept so far
(`link.go:806`). What can happen in between shows in the model in another way. A packet that
looked before the callback was set, and is kept after the replay, is never handled, like one
that does not arrive, and arrival is not assumed. A packet that comes between the
installation and the replay has a goroutine of its own, which may run before the replayed
one gets any further. `AllowRate` may answer either way; what it answers is in `RRCRate`. `outbox` records
what was sent over each link, with the goroutine that sent it; it is a history variable.

### RRCRate
A call reads the clock, and takes the lock at most `MaxDelay` later; meanwhile time and
other calls go on. `msgTimes` is the set of the calls whose times it holds: the code
never depends on their order. `when` (the time a call was judged) is history.

### RRCClient
`Dial` and the calls of the application are processes, as are the link's watchdog and
the goroutine that handles the hub's teardown. A request and its answer share one entry
of `pkt`, which says how far they got: not sent, on the way to the hub, on the way back,
in the handler, done. A lost packet is one that gets no further. A send is two steps,
since `Link.SendPacket` takes `Link.mutex` and looks at the status of the link after `sendEnvelope` has looked at
it and at `closed`: `Send` and `SendPacket`, `SendHello` and `SendHelloPacket`. `granted` and
`hubRooms` are what the hub has answered and now believes. `Link.Teardown` runs the
closed callback with `Link.mutex` held (`linkMu`).

### LXMFLinkCache
`mu` is the cache mutex, `linkMu[l]` the mutex of link `l`; a step that locks waits
until the lock is free, and no lock is reentrant. The peer's teardown of a link is two
steps, the packet that arrives under `Link.mutex` (`RemoteTeardown`) and the goroutine that
closes the link and calls the callback without it (`HandleTeardown`). A sender of kind
"ensure" is one `SendDirect` or `SendPropagated`; one of kind "retry" is `SendPropagatedWithRetry`.
`delivery_link.go` and `propagation_link.go` have the same code for two caches, so one
module stands for both.

### LXMFStamper
A digest is a sequence of `Bytes` bytes of `ByteBits` bits (32 of 8 in the code), and
the target, the comparison and the score work byte by byte as in the code. A candidate
is any digest. `panicked` is a send on the closed channel.

### LXMFMessage and LXMFMessenger
An encoded payload is the content and the order in which the encoder met the entries of
`Fields`; a hash and a signature are the payload they were computed from; a stamp is the
hash and the cost it was searched for. `Pack`'s two encodings choose their orders
independently. `LXMFMessenger` lets the application send one message again and again by
any of the eight functions and change its content between two sends, while announces
update the registry. `sends` is everything transmitted together with what was asked for;
`inbox` is what the recipient's handler got. The orders an encoder can choose from are a
function of the content (`Orders`), so that a message with one field and one with several
are in the same run. A call ends with an error at every place
where the code returns one.

### LXMFFiles and AtomicFile
All three writers of the package call `os.WriteFile` on the fixed name `full + ".tmp"`
and rename it. The file system is external and modelled by what these calls do: names
refer to inodes, opening truncates the inode that the name refers to, a write goes to the
inode that was opened at the writer's offset, a rename moves the name. Every call may
fail, the process may die between any two steps (a new process finds the files as they
were left), and saves and loads of one path may overlap. `AtomicFile` is the promise of
the comments ("atomically", `container.go:72`, `config.go:222`): a save takes effect as a
whole or not at all. `LXMFFiles` implements it, with the file being what the final name
refers to, until two saves overlap (`rivals`).

### The formats
`LXMFFields`, `LXMFAnnounce`, `MFMessage`, `RRCEnvelope`, `RRCNick`, `LXMFConfig` and
`LXMFFormats` have no state. A parser returns the set of its results, which is empty for an error, and
has several elements where the code depends on Go's map order. Byte strings, texts and
numbers are short sequences over the few symbols that the code tells apart (a blank, a
control character, the byte of a flag, a number in this or that wire format), the
sizes of `LXMFFormats` are the real numbers. Their properties compare two functions of
the code with each other (writer and reader, hub and client, chooser and sender), and say
*exactly* for which inputs they agree; TLC evaluates them in the initial states of the
runs of the components that use the formats. `RRCMessages`, `Messengers` and `LXMFStored`
put such a component and its formats together, with the inputs (nicknames, bodies,
payloads, sizes, ...) as constants: the `MC` modules give them small values, the proofs
none. The CBOR library is a pair of constants as well, `Cbor` and `Decodable`, with the
contract `CodecAssumption`; the runs take the recursive definitions of `RRCCodec`, and TLC
evaluates the contract on them.

## 3. Runs

`tlc -config <cfg> <module>`; times and numbers are for two workers.

| Run | Instance | Checks | Result |
|---|---|---|---|
| `hub_reconnect` (`MCHubReconnect`) | two links of one identity, one room, a JOIN on the old link, a HELLO and a JOIN, PING, bad HELLO or second HELLO on the new one, `Hub.Close` at any time | `AuthenticatedMembers`, `IdentificationNotLost`, `NilOnlyWhileAccepting`, `StaleCloseHarmless`, `LateHelloIgnored` | pass, 1 020 000 states, 130 s |
| `hub_relay` (`MCHubRelay`) | two welcomed peers, two rooms, room limit 1, five packets of kinds JOIN, PART, MSG, malformed ones included; one link may be lost | `RoomLimit`, `RelayAuthentic`, `RoomViewsAgree` | pass, 396 000 states |
| `hub_live` (`MCHubLive`) | as `hub_reconnect` with two packets, fair | `GoroutinesFinish`, `HelloAnswered` | pass, 25 000 states |
| `hub_stale_part` (`MCHubStalePart`) | as `hub_reconnect`, with a PART on the old link | `RoomMembersExact` | violated |
| `rate` (`MCRate`) | four calls, limit 2, window 3, delay 1 | `WindowBound` | pass, 16 000 states |
| `client` (`MCClient`) | Dial, JOIN, JOIN without a room, MSG, PART, Close, a link that may fail, fair; the RRC formats | `ActiveIsWelcomed`, `BeliefConfirmed`, `DisconnectedFinal`, `AllReturn`, `CloseNoticed`, `EnvelopeSurvives`, `NickAgrees` | pass, 109 000 states |
| `link_cache` (`MCLinkCache`) | a retrying send over two nodes next to a plain send, three links that may fail, interchangeable (symmetry) | `RightPeer`, `NoLockWhileWaiting`, `EvictsOwn` | pass, 1 744 000 states, 90 s |
| `link_cache_two_peers` (`MCLinkCacheTwoPeers`) | two plain sends to two peers, fair | `CallsReturn` | violated |
| `stamper` (`MCStamper`) | three workers, digests of two two-bit bytes, costs 0, 1, 3, 4 and 5, fair | `NoSendAfterClose`, `NotFoundOnlyIfStopped`, `ReturnedMeetsCost`, `WorkersEnd` | pass, 221 000 states |
| `messenger` (`MCMessenger`) | two sends of one message by any of the eight functions, one content with one field and one with two, two nodes, five announces; fields, announce data and compact messages | `TypeOK`, `SignatureCovers`, `StampAccepted`, `SentIsCurrent`, `UploadMeetsNode`, `AttemptOrderRight`, `NodesTriedOnce`, `FieldsSurvive`, `AnnounceSurvives`, `CompactRepacks` | pass, 1 190 000 states |
| `messenger_fields` (`MCMessengerFields`) | the same sends, with a stamp wherever one can be asked for | `NoneRejected` | violated |
| `files` (`MCFiles`) | three saves of two contents of one and two pieces, one load, failing calls and crashes; configuration text, sizes, paper and containers | `NeverMissing`, `Atomic`, `ConfigSurvives`, `SizesRight`, `StoredReadBack` | pass, 650 000 states |

What the properties of the races and of the sends say, beyond their names:

* `LateHelloIgnored`: once a session is active, a HELLO that has not yet been past the
  gate of `handlePeer` changes nothing and is not answered. That two HELLO packets are
  both welcomed (hazard `hub.go:255`) is thereby confined to those that were past it.
* `NilOnlyWhileAccepting`: a handler can meet a nil session only while `acceptLink` has
  not assigned it yet, never afterwards.
* `HelloAnswered`: a good HELLO leads to a WELCOME, unless the link or the session is
  gone: one that was buffered when the identity came and `register` had not begun, one
  that arrives once `peerHash` is set, one that `handlePeer` is given. What is left is the
  window in between (hazard `hub.go:185`).
* `DisconnectedFinal`: after `Dial` has returned, a client that is disconnected stays so.
* `SignatureCovers`: whatever goes out, after whatever calls and edits, has a signature of
  the content that goes out, and one that verifies if the message has no stamp or at most
  one field. `StampAccepted` says the same of stamps. What is left out, a stamped message
  with several fields, is `NoneRejected`, which is violated.
* `NodesTriedOnce`: a retrying send uploads to no node twice, although announces change
  the registry while it runs.
* `Atomic` is `AtomicFile!Spec` under the refinement mapping; `NeverMissing` holds for
  overlapping saves too: a file that exists is never missing again.

The type invariants (but the messenger's) and `ListBounded` of `RRCRate` are in no run:
they are proved for all constants (section 5).

Every property of a passing run has a mutant in `PROJECT.json`: a plausible slip in one
mapped definition that makes TLC report that property. The mutated forms are defined
right before the definitions they replace and are used by nothing else.

### What the format properties say
The properties are exact, so they also record where the two sides differ.

* `EnvelopeSurvives`: what a session sends arrives as it was exactly if all its strings
  are UTF-8; of the others the receiver drops the envelope and the sender sees no error.
  What the hub forwards of an accepted envelope, and the bodies of HELLO and WELCOME,
  always arrive.
* `NickAgrees`: after a message the hub calls its client what the client calls itself,
  trimmed, or keeps the name it had if that is empty or too long (`session.go:78`,
  `hub.go:245`); what it takes has no control characters, is within the limit and would
  not change if it were sanitised again.
* `FieldsSurvive`: fields arrive exactly if all keys of their maps are bytes and the maps
  nest no deeper than the receiver's limit, although `Pack` takes them all; bytes stay bytes
  in a field and in a map, and arrive as text in an array, since the receiver decodes
  loosely (`message.go:551`). A decoded map that writes one field in two number formats is
  read by Go's map order (`message.go:706`).
* `AnnounceSurvives`: every reader gets what the encoders wrote unless the data is too
  long, which no encoder checks; a legacy name that starts with a character of
  U+0700–U+077F is taken for an array (`helpers.go:253`). On any data the readers agree;
  what `PNAnnounceDataIsValid` accepts, an array that breaks off included, can be read, and
  nothing else has a cost or a name.
* `CompactRepacks` (`mf.go`): whatever `Unpack` accepts, `Pack` gives back byte by byte, with
  the length that `Len` announces, and a message to a group comes back whole.
* `ConfigSurvives`: saving a loaded configuration and loading it again keeps it, unless
  the blanks that `WriteConfig` adds take a line past the scanner's limit
  (`config.go:404`); a text that a program filled in comes back exactly if it has no blank
  at its ends, no `#` and no newline; numbers respect their floors, NaN excepted.
* `SizesRight`: a packet chosen by `ChooseDeliveryMethod` carries the message, but for the
  fallback from opportunistic delivery, which says packet for any size (`message.go:168`);
  what a direct send records differs from what was chosen for packed sizes 320 to 431;
  messages of 2128 to 2210 bytes are assigned to paper and have no URI.
* `StoredReadBack`: `DecodePaperURI` inverts `PaperURI` with any padding, and what else it
  accepts has the characters of the URI of what it returns, but for newlines, padding and
  bits beyond the last byte. A container gives back state, method and bytes of a message
  that can be unpacked, also of one whose signature is invalid, and nothing for one that
  cannot; a resource comes back as a packet and every message as incoming.

### Bounds and why they are enough
* Hub: the hazards are races between two sessions of one identity, or between two
  packets of one session; two links, and one packet for each role in the race, reach
  them. `hub_relay` has a room limit of one and two rooms so that the limit binds.
* Rate: the window is longer than the delay, and there are twice as many calls as the
  limit, so that the list fills, is pruned and fills again.
* Client: one call of each kind that depends on the rooms or the state; every pair of
  calls can interleave, and each can race with Dial, with the watchdog and with a teardown
  of the hub.
* Cached link: three links let one be replaced twice, so that the callback of a link can
  arrive after two successors. Links are only compared with each other, never ordered, and
  all begin the same, so the symmetry is sound; the run has no liveness property.
* Stamper: with three workers, one wins, one finds a second stamp and meets a full
  channel, one is still searching. The costs are below, at and above the digest's bits.
* Messenger: the second send sees everything that the first one left in the message.
  One content has one encoding order, as with at most one field, the other has two, as
  with two fields. `messenger_fields` asks for a stamp wherever it can, which is where two
  orders matter.
* Files: a save may find what a first one left and be followed by a third; contents of
  different lengths show a truncation that does not happen and bytes left behind a
  shorter content; a load holds its file open while two saves replace it.
* Formats: lengths reach one beyond each limit, and the limits are small (a nickname of
  three bytes, identities of two, maps of depth three, lines of eight tokens, compact
  messages of three bytes); the characters include those that end a line for one of the two
  sides only (a newline in a value of the configuration and inside base64); sizes that
  meet in `LXMFFormats` are tried at their real values,
  all from 1 to 2410.

Deadlock checking is off in every run: all of them are about finitely many packets or
calls, so a state without a successor is the normal end. That everybody gets there is
what `GoroutinesFinish`, `AllReturn` and `WorkersEnd` say. Of the sends of a messenger it is
not claimed: they use the cached link, which can block for good (finding 2).

### Fairness
In the runs of the hub's liveness, the client, the stamper and of two peers on the cached
link: weak fairness of each goroutine that has started and can take a step: the Go scheduler
is preemptive, and a mutex in starvation mode hands itself to its oldest waiter. Nothing
is assumed of the network, the peers, the application, the file system or the random
source: packets may be lost, links need not come up, no candidate has to meet a target.
Waits with a deadline (`Dial`, the wait for a link, a transfer) may end by their timeout.

## 4. Findings

1. **A late PART of a replaced session removes its successor from the room**
   (`hub_stale_part`, `hub.go:382`). `register` leaves the old session's rooms and its
   `active` flag set; `onPart` then deletes the key that both sessions share.
2. **A send to a second peer blocks forever** (`link_cache_two_peers`,
   `delivery_link.go:46`). The active link to the first peer is torn down with the cache
   mutex held, and the closed callback takes that mutex. The propagation cache has the
   same code.
3. **A stamped message with several fields may not verify** (`messenger_fields`,
   `message.go:312`). `Pack` encodes such a message twice, the encoder walks the map in
   Go's unspecified order, and what is sent need not be what was signed.

### Expectations that TLC refutes
These definitions state what a comment or a test says, or what a reader may expect. TLC
refutes each with a short trace; the first eight have a `.cfg` to reproduce it.

| Definition | Configuration | Expected by | What happens |
|---|---|---|---|
| `RRCHub!OneWelcome` | `MCHubTwoHellos` (`MCHub`) | `hub.go:280` "Exactly one HELLO per session" | two HELLO packets pass the gate of `handlePeer` before either sets `active`, and both are welcomed |
| `RRCClient!StateCurrent` | `MCClientState` (`MCClient`) | `client.go:257` "State returns the current client session state." | the link closes before `Dial`'s last assignment, which writes `Active` over `Disconnected` |
| `RRCClient!RoomsInSync` | `MCClientRooms` (`MCClient`) | `client.go:271` "a snapshot of joined room names" | PARTED is applied before JOINED, and the room stays listed |
| `NickIdempotent` | `MCNick` (`MCClient`) | `property_oracle_test.go:83`, `mutation_fuzz_test.go:65` | `SanitizeNick` trims before it drops control characters: a blank behind one survives the first call only |
| `CompactRoundTrip` | `MCCompactRoundTrip` (`MCMessenger`) | `mf.go:117` "Unpack parses Pack output." | a text without a group that begins with 0x01 is taken for one with a group |
| `CompactSendable` | `MCCompactSendable` (`MCMessenger`) | `constants.go:8` on `MaxMessageSize` | a text of 420 bytes, and in fact all above 383 bytes (366 with a group) are accepted and do not fit into a packet |
| `ConfigParseable` | `MCConfig` (`MCFiles`) | `config.go:235` "parseable by ParseConfig" | a display name with a newline is written as two lines |
| `PaperCanonical` | `MCPaper` (`MCFiles`) | `paper.go:28` "accepts canonical or padded base64" | a URI with newlines in it is accepted |
| `RRCHub!NoHelloStranded`, `DeadPeersLeave`, `NoNilSession` | | `hub.go` (quoted in the module) | hazards `hub.go:185`, `hub.go:200`, `session.go:29` |
| `RRCClient!NoWelcomeDropped`, `NoDoubleClose` | | `client.go` | hazards `client.go:135`, `client.go:99` |

What remains true beside the first three: `LateHelloIgnored`, `DisconnectedFinal` and
`CloseNoticed`, `BeliefConfirmed`. Overlapping saves share the temporary name
(`container.go:82`): `Atomic` without its exception is refuted the same way.

## 5. Proofs

`tlapm <module>`. The theorems hold for every value of the constants that satisfies the
named assumptions of the modules: any number of links, identities, rooms, packets,
calls, senders, nodes, workers, saves and loads, any limit, any digest width. Each module
has an inductive invariant or two, one step or lemma per action, and short corollaries.

* **`RRCHubInvariant`** (`HubInv`): `TypeCorrect`, `MembersAuthenticated`,
  `RelayIsAuthentic`. `AuthenticatedMembers` is not inductive: it says nothing of a
  goroutine that has passed a check and has not yet acted. `GrInv` adds what each goroutine
  knows at its label: one that is about to join belongs to a greeted session, one that is
  about to forward has a proven sender. It rests on facts that are never undone: a remote
  identity, `peerHash` and `active` are only ever set. `PeerInv` is the order in which they
  are set, `RoomInv` links `Hub.rooms` to the sessions' own rooms,
  `OutInv` the relayed content. The module ends with what the steps inside a callback have
  in common (`Onward`): they keep the link of their goroutine, never lead back to the labels
  of `acceptLink`, and return to where the callback was called.
* **`RRCHubProofs`** builds on it.
  * `StaleCloseIsHarmless` and `LateHelloIsIgnored` are action properties. With a session
    active and nobody past the gate, no step adds a goroutine that greets, and every step
    that could be one of the late HELLO leaves the session's state alone.
  * `IdentificationIsNotLost` and `NilIsWhileAccepting` follow from `AcceptInv`, which
    places the three goroutines of a link relative to each other: which goroutine can be at
    a label of `acceptLink` (`PlaceInv`), that whoever comes to a session through
    `Hub.peers`, a later packet or a list of sessions to close finds `sess` assigned or its
    `acceptLink` about to assign it (`SessInv`), and that an identity that is proven with
    nobody registered has either a callback to come or an `acceptLink` still to look
    (`IdentInv`). The last is the heart: neither the callback alone nor the second look
    alone would do.
  * `RoomViewsDoAgree` follows from `RegistersOnce` and `ViewsInv`. `RoomViewsAgree` speaks
    of registered sessions only, and a session that registers must have agreed before:
    `ViewsInv` says the same of every session that is in `Hub.peers` or has not passed the
    critical section of `register`. For that a session must pass it once: a goroutine
    inside `registerOnce` is the only one of its link (`OnceInv`), and a link in `Hub.peers`
    has been through it and belongs to that identity (`PeersInv`).
  * `RoomLimitHolds` adds that a session's rooms are a finite set (`LimitInv`): without that
    `Cardinality` would not count them.
* **`RRCRateProofs`** (`RateInv`): `WindowBoundHolds`, `ListBoundedHolds`. The window
  bound alone is not inductive: pruning with a late clock could forget a message that
  still counts. The invariant says that an admitted call which is no longer in `msgTimes`
  is at least a whole window old, and that a waiting call's clock is at most `MaxDelay`
  late. The bound is therefore on intervals of `Window - MaxDelay`.
* **`RRCClientProofs`** (`ClientInv`): `ClientTypes`, `WelcomedBeforeActive`,
  `BeliefIsConfirmed`, `DisconnectedIsFinal`. The strengthening follows the WELCOME and
  each JOINED on their way from the hub through the channel and the handlers. Then the
  formats.
  * `EnvelopesSurvive`: `MarshalIs` and `UnmarshalIs` say key by key what the two directions
    do, `Arrives` puts the codec between them. A forwarded envelope is one that was received
    (`ReceivedIs`: its fields have their types, and its body has been through CBOR, which
    leaves it alone the second time) with three fields replaced, so `Arrives` applies to it.
    For the bodies, `MapIs` says that `coerceUintMap` gets back the keys of a map that CBOR
    has turned into a `map[any]any`.
  * `NicksAlwaysAgree`: what the loop of `SanitizeNick` leaves is described by the strictly
    increasing places of the characters it keeps (`Keeps`, `StrippedIs`), and `TrimSpace` by
    its first and last place. A sanitised name has no control characters, so the second
    call only trims it, and a third leaves it alone (`SanitizedAgain`); `HubNickIs` carries
    that over to what a hub makes of one message after another.
* **`LXMFLinkCacheProofs`** (`CacheInv`): `CacheTypes`, `SendsToRightPeer`,
  `LockIsShort`, `EvictionIsOwn`. The strengthening says who is inside the critical
  section, that a sender's link leads to its node, that the cached link leads to the
  cached peer, and that a closed callback runs only for a closed link.
* **`LXMFStamperProofs`** (`SearchInv`): `StamperTypes`, `NeverSendsAfterClose`,
  `NotFoundMeansStopped`, `ReturnedIsFound`, `ReturnedAlwaysMeets`. The strengthening says
  where a stamp that was found can be (with its worker or in the channel) and why a worker
  stopped. The last theorem adds a fact about digests (`MeetsCost`): one that is not above
  the target has zeros up to the target's bit, or is the target. It needs powers of two,
  which the prover does not know; they are the recursive function `Shift`, and its
  properties are proved from a least counterexample (`Least`) instead of by induction.
* **`LXMFMessengerProofs`** (`SendInv`, `TypeInv`): `SignatureAlwaysCovers`,
  `StampAlwaysAccepted`, `SentAlwaysCurrent`, `UploadStampedForNode`, `TypeCorrect`,
  `UploadsMeetNode`, `OrderIsRight` and `NoNodeTwice`, for any orders an encoder may choose.
  The properties speak of what was sent; `SendInv` adds what the message holds between two
  steps of a call: after the first `Pack` the hash is one of the current content, after the
  second `Packed` has the stamp and the current content. Where the encoder has a choice,
  signature and stamp are of the content that goes out; where it has none, they are of the
  bytes. `TypeInv` adds what a call holds of the nodes: a retry is at a place among its
  candidates, also when an announce changed the registry between two attempts, and the
  candidates are different nodes, which gives `NoNodeTwice`. `OrderIsRight` needs that a
  finite set of nodes can be sorted (`Sortable`: the place of a node is the number of those
  before it, and a one-to-one map of a finite set into as many places leaves none empty).
  `CompactAlwaysRepacks` is about `pkg/mf`, for every length of the hashes but zero, every
  limit and every set of bytes: two encodings are compared byte by byte.
* **`LXMFFilesProofs`** (`Inv`): `TypeCorrect`, `NeverMissingHolds`, and `AtomicHolds`: the
  initial states of `LXMFFiles` map to those of `AtomicFile`, and every step maps to a
  step or a stutter. The invariant says that an inode that is open was created, and, as
  long as no two saves overlapped, that at most one save is writing (`OneWriter`), that the
  inode it writes to is not the one under the final name (`TmpApart`), and that the final
  name and every file that is being read hold a whole content (`ReadersWhole`).
  `SizesAreRight` is arithmetic on sizes of any magnitude. `StoredIsReadBack` rests on
  base64: each byte is computed from two sextets that were computed from it and its
  neighbours, in three cases by its place, and the other way round in four; what
  `PaperURI` wrote has no newlines and stays as it is when they are taken out
  (`UnbrokenSame`), and of any other text only what is left without them is read.

The assumptions are named in the modules (`RateAssumption`, `ClientAssumption`,
`CacheAssumption`, `StamperAssumption`, `FilesAssumption`, `NoneAssumption`,
`LengthsAssumption`, `FormatsAssumption`, `InputAssumption`, ...): types of the constants and
of the inputs, that there are finitely many propagation nodes, and that names of goroutines
and the null values are distinct (`ProcsAssumption`). `CodecAssumption` is what the code of
`pkg/rrc` relies on in the CBOR library: scalars come back as they were, a string that is not
UTF-8 is refused, a map comes back as a `map[any]any` with `uint64` keys, and what has been
decoded once is encoded and decoded to itself. TLC evaluates them all in the runs.

The library's induction theorems take an operator as parameter, which the installed provers
cannot instantiate. Where a fact needs induction over numbers or over the length of a
sequence it is proved about a set instead: a set of numbers that is not empty has a least
element (`Least`), so one that holds 0 and with each number the next holds them all
(`Induct`). That also gives the existence of the functions that a `LET f[n \in ...]`
introduces (`LoopRuns`).

### Only model-checked
* Liveness (`GoroutinesFinish`, `HelloAnswered`, `AllReturn`, `CloseNoticed`,
  `WorkersEnd`): fairness and ENABLED are out of the prover's reach.
* `FieldsSurvive`, `AnnounceSurvives` and `ConfigSurvives`: the MessagePack codec, the size of
  its values, the trimming and the splitting of lists are RECURSIVE operators, in modules
  with which the prover loses its SMT backend, and induction over nested values is not
  available as an induction over numbers is.
* The codec of `RRCCodec` keeps `CodecAssumption`: TLC evaluates that for the values of the
  run.

## 6. Not modelled, and limits

* The programs under `examples/` (outside the build), the interop bridges, logging, the
  test helpers: no state of their own, or none that the packages share.
* `proof.go` sends one packet that no code of the repository reads. The file names of
  `util.go` belong to a message store that no code of the repository writes.
* Of `config.go` the conversion of listed hashes from hexadecimal and `SectionNames`.
* The ticket branch of `ValidateStamp`, and `PickRandom`, `WaitFor` and `List` of the
  registry, which only read it.
* A power failure: the package does not call fsync, so what reaches the disk is up to the
  file system. The crash of `LXMFFiles` is the death of the process.
* Identifiers and time stamps of envelopes beyond their lengths and types; the contents of
  CBOR, MessagePack and base64 beyond what the readers tell apart.
* The Reticulum link is modelled as its users see it. Key exchange, resources, channels
  and the transport's routing are taken for granted.
* User callbacks (`HubHandlers`, `ClientHandlers`, message handlers) change no state of
  the packages and are left out.

## 7. What could come next

1. An abstract room service (members, relay) and `RRCHub` as an implementation of it
   while no identity has two links; then hub and client composed over one link. Finding 1
   is what stands between the two when an identity reconnects.
2. The announce data over an assumed MessagePack codec, as `RRCMessages` does for CBOR.
3. `PropagationRegistry.WaitFor`, which polls against a deadline.
