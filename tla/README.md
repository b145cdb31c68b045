# A TLA+ model of MahjongAI-socket

MahjongAI-socket is a mahjong bot that plays over Socket.IO. The repository
holds a C++11 Socket.IO client (`src/`) on top of two vendored libraries
(`lib/websocketpp`, `lib/rapidjson`) and of Boost.Asio, and the bot itself
(`examples/`). This directory holds the specification of that code in TLA+,
the configurations that check it with TLC, and the theorems about it that
TLAPS checks. Paths below are relative to the repository.

    cd tla
    tlc -workers 2 -config SioClient.cfg MCSioClient    # any run
    tlapm SioClientProofs.tla                           # any *Proofs module

`PROJECT.json` is the index: the components, every run with its properties,
the source lines each definition stands for, one mutant of the code per checked
property, the hazards and the findings.

## 1. The system

| component | source | state | operations | what makes it correct |
|---|---|---|---|---|
| client connection | `src/internal/sio_client_impl.*`, `src/sio_client.*` | `m_con_state`, `m_con`, `m_reconn_made`, `m_network_thread`, three timers | `connect`, `close`, `sync_close`; `on_open`, `on_fail`, `on_close`, `on_message`; `ping`, `timeout_pong`, `timeout_reconnect`; `connect_impl`, `close_impl`, `run_loop` | one transport at a time; reconnection within its budget; a close by the user is final and is reported; keep-alive timers belong to a session |
| namespace socket | `src/sio_socket.*` | `m_client`, `m_connected`, `m_packet_queue`, `m_acks`, `m_connection_timer` | `emit`, `close`, `send_packet`, `on_open`, `on_connected`, `on_disconnect`, `on_close`, `on_message_packet`, `timeout_connection` | nothing sent twice; CONNECT first in every session; an acknowledgement reaches its own emit; a close ends, once |
| namespaces | `m_sockets` of the client | the map, under `m_socket_mutex` | `socket`, `remove_socket`, `sockets_invoke_void`, `get_socket_locked` | no socket is forgotten when a session opens; packets reach their own namespace |
| packet codec | `src/internal/sio_packet.*` (`packet`) | one packet | `accept`, `parse`, `parse_buffer` | parsing undoes encoding |
| packet reassembly | `src/internal/sio_packet.*` (`packet_manager`) | `m_partial_packet` | `encode`, `put_payload`, `reset` | attachments reach the packet they were sent with |
| messages | `src/sio_message.h` | none (values) | constructors | data only |
| bot | `examples/main.cpp`, `Player.*` | `Hand`, `discards`, melds, `drawTile`, `onlyThrow`, the startup flags | one listener per game event, `main` | what the bot believes is what the game server knows; every answer is legal |
| tile sets | `examples/MJCards.*` | packed counters | `+=`, `-=`, `Count`, `at`, `Clear`, ... | a counter never carries into its neighbour |
| discard search | `examples/Irb00.*`, `irb01.*` | none | `StepToHu1617`, `Throw`, the offers' decisions | counts the distance to a winning hand; no decision costs a step of it |

How they interact: the user's thread calls the client and its sockets; the
network thread runs `run_loop`, that is, the handlers of one Asio
`io_service`: websocketpp's callbacks, timers, and whatever was dispatched to
it. Sockets call the client to send; the client calls the sockets from
`on_open`, `on_close` and `on_decode`; listeners run on the network thread and
call back into the sockets. The bot's listeners run there too; they change its hand
and answer at once. Three mutexes protect the map of sockets, a socket's
queue and its listeners; `m_con_state`, `m_connected`, `m_client`, the timers and
the id counter are shared between the two threads without any.

What is hard: handlers and API calls in every order; a timer that has expired
cannot be cancelled any more (its handler is queued with a success code, and
every `cancel()` in the code overlooks it); state tested on one thread and used
after the other has changed it; sessions lost and replaced underneath the
sockets; shutdown that waits for all of it. `PROJECT.json` lists the hazards
one by one with their lines.

## 2. Modules

| module | models | checked by | proved in |
|---|---|---|---|
| `Asio` | `io_service` and `deadline_timer`, external, as pure operators on one record | through the others | lemmas about each operator in `SioClientProofs`, `SioSocketProofs` |
| `SioConnection` | abstract: what the client promises its user | `SioClient` implements it | `SioClientProofs` |
| `SioClient` | the life cycle of `sio::client_impl` | `MCSioClient` | `SioClientProofs` |
| `SioSocket` | one namespace, `sio::socket::impl`, over the client's sessions | `MCSioSocket` | `SioSocketProofs` |
| `PacketChannel` | abstract: what a session promises, in whole packets | `PacketManager` implements it | `PacketManagerProofs` |
| `PacketManager` | packets, frames, and their way through two threads and any number of sessions | `MCPacketManager` | `PacketCodecProofs` (one packet), `PacketManagerProofs` |
| `AnySequences`, `DataLemmas` | no code: sequences of messages of several shapes, induction over the naturals | through the others | `DataLemmas` |
| `Tiles` | kinds of tiles and bags of them | through the others | |
| `TileBag` | abstract: two sets of tiles as bags | `MJCards` implements it | `MJCardsProofs` |
| `MJCards` | `struct MJCards`, two sets as packed words | `MCMJCards` | `MJCardsProofs` |
| `Irb00` | the search and the decisions of the player, over bags | through `Bot` | `Irb00Proofs` |
| `WinningHands` | reference: winning hands and the distance to them, by the rules of the game | through `Bot` | `Irb00Proofs` |
| `Bot` | `main.cpp` with its player, against a table that plays by the rules | `MCBot` | `BotProofs` |

The layers meet where the code does. `SioSocket` sees of the client what
`client_impl` shows a socket (its state, its map, `send`), `PacketManager` takes
over where `send` hands a packet to `encode`, and `Bot` sees of all of it a
channel that delivers events in order. `Irb00` decides over bags because
`MJCards` is shown to be one.

### Asio

A queue of ready handlers and a status per timer. The module fixes what the
rest turns on: `Expire` puts a handler with `"ok"` in the queue; `Cancel`,
`Destroy` and `Arm` abort only a wait that is still armed, by queueing a handler
with `"aborted"`; nothing ever takes a handler back.

### SioConnection

A connection is off, being tried or up. It is tried a limited number of times,
tried again when it is lost unless the user has closed it, and ends with one
report, `normal` if the user closed it. `SioClient` implements it
(`IsConnection`): the connection is up while `m_con` is set, tried while the
token of section 4 is on its way to a session, and off otherwise.

### SioClient

One variable per member (`m_con_state`, `m_con`, `m_reconn_made`, `m_base_url`,
`m_network_thread`; `asio` has the timers and the queue), the websocketpp
connection (`link`, `close_code`), a program counter per thread (`user`, `net`)
and `on_close`'s local `m_con_state_was`. `report` is the last terminal listener
called. The other variables are history for the properties and the bounds.

Each handler is one action where nothing shared is touched in its middle.
Otherwise it is cut at each access to state that the other thread also touches:
`connect()` is `ConnectCall` (the timer), `ConnectCheck` (thread and state),
`ConnectJoin`, `ConnectStart`; `close()` is `CloseCall`, `ClosePost`;
`sync_close()` adds `SyncJoin`; `on_close` is `OnClose` (read `m_con_state`),
`OnCloseWrite`, `OnCloseRest`; `on_fail` and `timeout_reconnect` are cut once.
`dispatch` runs its handler at once on the network thread and queues it from
the user's. Data is reduced to what control depends on: whether the address
parses, which kind of frame arrived, which class of close code is in force. The
vendored websocketpp refuses to send code 1006, starts every connection with
that code as its local one, takes over the server's code when it answers a
close, and hands no message to the client once a closing handshake has begun;
`CloseImpl`, `PeerCloses` and `OnMessageHandler` rely on that.

### SioSocket

The socket's members, the client's `m_con_state` and map entry as far as the
socket sees them, and a program counter for each of the two threads, because
both run `send_packet`. A step reads or writes shared state once, or is what
the code does while holding `m_packet_mutex` or `m_event_mutex`;
`m_socket_mutex`, which `socket()` holds while it builds a socket, is
`SocketMutexFree`. `m_connection_timer` is one timer used for two waits, so it
has two entries in `asio`, named after their handlers; `timeout_connection`
returns on an error and `on_close`, bound without its error code, does not
(`OnCloseRuns`). A null `m_client` used after its guard sets `crashed` and stops
the model. `wire` records what was written, with the starts of the sessions.

The socket's namespace is chosen at the start among `Namespaces`: `/`, which
the server connects unasked and whose socket `on_open` makes if the user has
not, or one of its own. `MaxCalls` bounds emits and closes together for each.

The client underneath is reduced to sessions that open and end (module
`SioClient` has the rest); the server answers CONNECTs, emits, acknowledges and
disconnects in any order, or stays silent.

### PacketManager

`accept` and `parse` as operators on packets and on text. Text is a sequence of
tokens, and the JSON of a message the sequence of its items in the order in
which `accept_message` meets them, so that the numbering of binary data, the
placeholders and the searches of `parse` for `-`, `,` and `[` are those of the
code. The packets are shapes (`Outward`, `Inward`: what the constructors make,
`IsShape`), whose items get data of their own when the packet is emitted
(`Numbered`).

`encode` hands frames over one by one: on the network thread each is
written at once (`NetEncodes`), from the user's each is posted (`UserPosts`), and a
frame is dropped if no session is open when its turn comes (`Write`). `put_payload`
collects the data of the announced packet in `m_partial_packet`, with pongs in
between. The server (`peer`) reads what is written frame by frame, by the same
`put_payload`. Both directions run over sessions that end anywhere.

`PacketChannel` says what remains of all that in whole packets, and
`PacketManager` implements it (`IsChannel`). To the client a session is a
reliable queue. To the server a packet of the network thread arrives at once;
the user's are under way for a while (`pending`: those with a frame still to be
written), arrive in their order, and one of them is lost only without a session
or when it was `broken`. That is the next one, half written while the server
keeps nothing for it; it has data, and a reconnection or a packet with data of
the network thread came in between.

What the model showed on the way, without being an error of the code:

* A session may end in the middle of a packet. `reset()` before the next one
  would not be needed: data is only read after a text that announces it, and
  that text replaces what was left.
* `parse` loses the id of a packet without a message (`sio_packet.cpp:316`),
  which neither side sends.
* A binary packet's frames can be written around another thread's. The server
  then loses a packet, and `LossNeedsOverlap` says exactly when; but it never
  joins data to the wrong packet (`GotIsEmitted`), because the network
  thread's packets are written in one piece: what it leaves half read is the
  user's, and a packet of its own in between replaces that and is complete at
  once, so that the user's remaining data find nothing kept.
* Posted frames can outlive their session, so that data is written which nothing
  in the session announces (`TornNeedsReconnect`).

### Tiles, TileBag, MJCards

A bag is a function from the kinds to counts; `TileBag` has two of them and an
action per operation. `MJCards` has the two sets as six words each. A word is a
natural number whose digits, to the base 8 (2 for flowers), are the counters, so
that `+=` and `-=` of whole sets, one machine addition per word, are additions
of numbers and would carry or borrow as the machine does. `IsTileBag` maps a
word to its digits. The `+=` of two sets has no guard in the code and no caller in
the repository; `AddSet` assumes of a caller that the sum fits its counters.

### Irb00, WinningHands

`StepToHu[bag]` is the search: the bag is split into groups in every way
(`FindGroups`, a recursive function of the bag whose values are functions of the
first group that may be taken), the steps are counted from each split
(`CountSteps`) and the fewest taken. `Winning` and `Distance`, in `WinningHands`, are
the reference: what hands win by the rules, and how many tiles a bag misses to the
nearest of them, by enumeration. The decisions (`Throw`,
`EatOrNot`, `PonOrNot`, ...) compare step counts as the code does. Where the code
would compute from borrowed digits (a chow whose tiles are not in the hand), the
answer is left open.

### Bot

One action per listener, which holds `_lock` from end to end, and the main thread's
startup (`main`, `connect_finish`). The server is the environment: it deals,
lets the bot draw or another player throw, offers what the rules allow, grants
the bot's claim or another's, and sends the events in the order in which the
listeners expect them. It keeps its own record (`held`, `door`, `visible`)
against which the bot's is compared. `missing` records the tiles that the bot
loses track of.

## 3. What is checked

All runs set `CHECK_DEADLOCK FALSE`: a program whose user has stopped calling,
or whose server stays silent, may well stop.

| run | asks | bounds | distinct states |
|---|---|---|---|
| `SioClient` | the inductive invariant; `ReconnectBudget`, `KeepAliveHasSession`, `UserCloseIsFinal`, `OneTransport`, `SessionsStartFresh`; `sync_close()` returns and reports the close as the user's (`SyncCloseReturns`); `IsConnection` | 1 reconnection, 3 calls, 2 frames of every kind | 541 560 |
| `SioSocket` | the inductive invariant; `WrittenOnce`, `ConnectFirst`, `NoSocketForgotten`, `AckIsOwn`, `StrandedAtMostOne`, `UserInLine`, `CloseListenerOnce` | 2 emits by either thread, 2 sessions, 1 close; all three calls in `/`, two of them in a namespace of its own | 1 207 331 |
| `SioSocketClose` | `CloseListenerOnce` and `CloseEnds` with every way to close | 2 sessions, 2 closes | 404 191 |
| `PacketManager` | the inductive invariant `IInv`; `DecodedIsSent`, `GotIsEmitted`, `GotInOrder`, `LossNeedsOverlap`, `TornNeedsReconnect`; `IsChannel` | 2 packets each way, 1 and 2 data, 1 pong, 2 sessions | 548 865 |
| `MJCards` | `IsTileBag`, `WordsArePacked`, `AtIsExhaustive` | the two highest kinds of a suit and a flower | 14 884 |
| `Bot` | the inductive invariant `Inv`; `HandAgrees`, `DiscardsAgree`, `MeldsAgree`, `AnswersAcceptable`, `ThrowKept`, `CrashNeedsLoss`, `NeverTooFar`, `NeverTooNear`, `NoStepWhenWon`, `AnswersPay`, `DecisionsPay` | 4 kinds, 10 tiles in the hand, 2 deals of 1 and 2 turns, 1 event under way | 421 083 |

Why the bounds are enough. `SioClient`: three calls give connect-close-connect
and every other triple, each in every overlap with the handlers; two
frames are what it takes to start the keep-alive and then answer, close or break
the handshake; one reconnection has both outcomes of the budget test, and the
proofs cover every other number. `SioSocket`: two sessions are what it takes for
state of one to leak into the next; two emits for one packet to overtake, strand
or repeat another; two closes for a timer to be armed twice; the proofs cover
the rest. `PacketManager`: two packets with data are what can overlap, and
one what can be torn; inwards, two data with a pong between them are what can be
interrupted; the proofs cover any packets, any number of them and
any number of sessions. `MJCards`: the highest digits of a suit are where a
carry would be lost and where one would arrive; the proof covers all kinds.
`Bot`: ten tiles let a hand hold two kongs, three melds and a pair; the kinds
are the end of a suit, where chows overlap and stop, and an honor, which has
none; the second deal starts from whatever the first left behind. Hands of seven
tiles with three turns in a deal, ten tiles with three turns in one deal or two in
both, and two events under way at once were run too, with the same result; the proofs cover
any kinds, hands, turns, deals and events under way for all but `NeverTooNear`, and
`DecisionsPay` wherever that one holds.

Fairness, in `SioClient` and `SioSocketClose`: each thread runs while it can, each
deadline passes, and in `SioClient` an opening or closing handshake ends one
way or the other, because websocketpp bounds both by timers of its own. Nothing
is assumed of the user or of the server. The liveness of `sync_close()` is
stated for a close that reached an open session in state con_closing, that of
`close()` for a socket it found connected: these are the cases the code
handles, and the findings below show the others.

### Weaknesses that the properties bound

No line of the repository denies these, so they are not findings; the models
reach them, and a property says how far each goes.

* **A kong loses a tile.** `main.cpp` keeps the tile just drawn in `drawTile`
  and puts it into `Hand` only when it throws (`main.cpp:218`). When it declares a
  kong of *another* tile (`main.cpp:332`, `:339`) it draws again, and the next
  draw overwrites `drawTile`: the bot never counts the first one again.
  `HandAgrees` says that nothing else is lost and nothing is gained. With the
  tile missing, hand and draw may split into groups without rest, and `Throw`
  reads the first element of an empty vector (`Irb00.cpp:105`); `CrashNeedsLoss`
  says that this takes such a loss, and `ThrowKept` why.
* **Emits overtake each other.** Two threads empty `m_packet_queue` and send what
  they took without a lock, so that a packet may be sent before one that was
  emitted earlier by the same thread. `UserInLine` says that this needs the
  network thread to take it out of the middle of the user's line: the queue, the
  user's hand and the posted packets stay sorted.
* **A packet is stranded.** `send_packet` tests `m_connected` before it takes the
  lock, so a packet may enter the queue after `on_connected` has emptied it and
  stay until the next emit (`StrandedAtMostOne`).
* **An answer that is late for one timeout and early for the next.** A wait for a
  pong that has expired is in the queue and cannot be taken back; `on_message`
  renews it all the same (`sio_client_impl.cpp:454`), and the session that did
  answer is closed for silence. `SessionsStartFresh` says that this ends with the
  session: of the one or more timeouts under way none is left when the next opens.
* **A null pointer.** `on_close` clears `m_client` while the user's thread is
  between its guard and its use; the models stop there (`crashed`).

### Findings

Six runs are expected to be violated. Each states what a comment or `API.md`
says and shows the code doing otherwise; the runs with the same variables above
check what does hold.

| run | what the text says | what the code does |
|---|---|---|
| `CloseIsOurs` | a close we initiated is a normal close whatever its status (`sio_client_impl.cpp:419`) | `close()` during the opening handshake is overwritten by `on_open`; if the link then breaks, the client reconnects |
| `CloseCloses` | `close()` closes the client (`API.md:139`) | during the opening handshake `close_impl` finds no session, and the session opens |
| `EndIsReported` | the close listener is called "when closed or drop" (`API.md:105`) | a pong timeout queued before `on_close` ran cancels the reconnection `on_close` has armed; the client stops silently |
| `JoinIsImmediate` | when closed, the join in `connect()` returns immediately (`sio_client_impl.cpp:79`) | the reconnection timeout may be queued already; the join then waits for a whole new connection |
| `DoesNothing` | `connect()` does nothing "if we are connected" (`sio_client_impl.cpp:85`) | after an address that does not parse the state stays con_opening and `connect()` does nothing for ever |
| `TimeoutIsSilence` | the timeout closes the socket "if no connected message arrive" (`sio_socket.cpp:487`) | a timeout that expired before the message was processed closes it too |

## 4. What is proved

`SioClientProofs` proves, for any number of reconnection attempts, API calls and
frames and any set of frame kinds (the named assumptions of `SioClient` say
only that the bounds are naturals and the frames are frames):

* `Invariance`: `Spec => []IInv`, and with it `TypeCorrect`;
* `BudgetKept`, `KeepAliveBounded`, `UserCloseStays`: the three state invariants
  of the run `SioClient`;
* `TransportsAreSerial`: the action property `OneTransport`;
* `NewSessionsAreFresh`: the action property `SessionsStartFresh`.

The safety properties are not inductive: nothing in `connect_impl`, say, tests
whether a transport exists. The argument is that there is a single *token*: at
any time at most one thing can lead to a transport or come from one, namely a
queued `connect_impl`, `on_open`, `on_fail`, `on_close` or successful
`timeout_reconnect` (`Starters`), one of those handlers half way (`net`), an
armed reconnection timer, or a link in progress. `QueuedToken` and `HeldToken`
say that the four exclude each other; `ThreadGone` says that a thread that has
ended leaves no token, so that `connect()`, which alone makes a new one, makes it
after the join. `SessionHandle` ties `m_con` and the keep-alive timers to the
link, `ReconnectCount` counts attempts against transports, and `ClosedByUser`
follows the token through a close by the user. TLC checks `IInv` as an
invariant before the proof does.

The proof has a lemma per operator of `Asio` (what it does to the types, to the
timers and to the starters), one that disposes of every step that moves no
token (`TokenStays`), one for the token's way from the link to the queue
(`LinkToQueue`), and one lemma per action.

`SessionsStartFresh` needs one more invariant, about the order of the queue:
behind an `on_open` there is no ping and no timeout (`Fresh`). A deadline of the
keep-alive timers passes only in a session, and then no `on_open` is queued;
whatever else is posted is neither; and taking the first handler keeps the order of
the others.

It also proves `ImplementsConnection`: `SioClient` implements
`SioConnection`, for the same constants. The mapping looks at the token: a step
that takes it off its way to a session ends or calls off the attempts, one that
moves it along is a try or an open, and one elsewhere is seen by nobody.

`SioSocketProofs` proves, for any number of emits, sessions, closes and calls, in
either namespace, `Invariance` (`IInv` of `SioSocket`) and from it
`NothingSentTwice` (`WrittenOnce`), `ClosesAtMostOnce` (`CloseListenerOnce`),
`StrandsAtMostOne` (`StrandedAtMostOne`) and, under the hypothesis that not both
threads ask for acknowledgements, `AnswersReachTheirEmit` (`AckIsOwn`); where
the network thread asks for none, `EmitsStayInLine` (`UserInLine`); and
about the namespace `NamespaceFirst` (`ConnectFirst`) and `SocketsRemembered`
(`NoSocketForgotten`). The invariant has a conjunct for each:

* `InOnePlace`: an emit's packet is written, posted, queued, about to be sent by a
  thread or just taken off the queue by one, and in one of these places only.
  Each step takes a packet from one place to one other or drops it (lemma
  `Moves`), whoever empties the queue; so nothing is written twice.
* `ClosesOnce`: `on_close` clears `m_client` in its first step, every way into
  `on_close` wants it set, and `socket()` does not make the same socket twice.
* `QueueDrained`: whoever is about to push a packet onto a queue that
  `on_connected` has emptied had tested `m_connected` before; that is the
  user's thread, once.
* `IdsOwned`: an id that is read is the counter's value until the callback is
  entered under it; from then on all that carries the id (packets in any
  place, the server's notes, its answers) carries the same emit. This needs one
  thread only to ask.
* `LineKept`: the line of the user's emits is four sequences (posted, just taken off
  the queue, queued, about to be sent), each sorted and each before the next. A step
  moves an emit at most to the sequence before, or takes it out; the network thread
  adds none of its own, which needs that it asks for no acknowledgement (an emit with
  an id is then the user's); and the user's thread sends past the queue only when
  none of its emits is in it.
* `ConnectAsked`: the namespace is asked for in the newest session before the server
  says anything of it and before the network thread sends on it (`AskedBefore`).
  Otherwise the CONNECT is the first packet posted, or `on_open` is about to write
  it, or there is no socket yet (`AskedSoon`). That these are all the cases rests on
  `m_socket_mutex`, on the socket having its client until `on_close` (`Alive`), on
  nothing being sent while there is no socket (`Unborn`), and on a session's
  handlers running between its `on_open` and its `on_disconnect` (`InLine`).

`MJCardsProofs` proves, for any set of kinds of the game, `AlwaysPacked`
(`WordsArePacked`: a word is the sum of its kinds' digits, and nothing else),
`ImplementsTileBag` (`IsTileBag`) and `FindsEachTile` (`AtIsExhaustive`). A digit can be read back from such a sum
(`Read`, over the nine digits of a word), so adding, taking away and
replacing digits that fit does to the counts what it says. `Count` and `at` count a set
of tiles one by one (`Tally`); `at(idx)` is a kind exactly while `idx` is between
what is counted before the kind and with it (`AtWhen`).

`PacketCodecProofs` and `PacketManagerProofs` prove, for any sets of packets that
the constructors can make and any number of emits, pongs and sessions,
`Invariance` (`IInv` of `PacketManager`) and all properties of its run.
`PacketCodecProofs` is about one packet:

* `JsonRoundTrip`: `from_json` puts back every datum where `accept_message`
  took it out, whatever the message holds;
* `ParseAccept`: `parse` finds in the text what `accept` put into it, because the
  first token of each kind that it searches is the one it means;
* `ReadsPacket`: a decoder that reads the frames of a packet has got the packet
  and keeps nothing of it, whatever it kept before.

What a decoder does with a sequence of frames, and the numbering of the data in a
message, are recursive functions. The library's induction theorem cannot be
instantiated by the provers, so `DataLemmas` proves it for a set instead of a
predicate (`NatSet`: a set of naturals that has 0 and with every n also n + 1 has
them all), and the lemmas instantiate it with `{i \in Nat : ...}`.

`PacketManagerProofs` is about the two directions, which share only the start and
the end of a session. *Inwards* the invariant says that if the client read all
that is under way, sent or still to be sent, it would have decoded what the server
has sent and keep nothing (`InwardKept`); sending a frame moves it from one queue to
the next, a pong changes nothing wherever it is put, and `OnMessage` is one step of
that reading. *Outwards* it says that the user's frames to come are in order and
complete (`RestKept`); that what the server keeps is the packet whose next frame is
the first of them (`PeerKept`), so that no other data can reach it; that what it has
got of the user's comes before what is to come (`GotBefore`); and, of the packet
the user's thread is in the middle of, that it is kept unless a packet with data of
the network thread came in between (`HalfKept`), and that its text is in the wire
unless it was emitted in an earlier session (`HalfTorn`). From these follow
`GetsWhatIsEmitted` (`GotIsEmitted`), `GetsInOrder` (`GotInOrder`),
`LosesByOverlap` (`LossNeedsOverlap`) and `TearsByReconnect`
(`TornNeedsReconnect`); from the inward part, `DecodesWhatIsSent`
(`DecodedIsSent`).

`ImplementsChannel` (`IsChannel`) is the refinement, for the same constants.
Encoding a packet on the user's thread is `UserEmits`, on the network thread
`NetEmits`. Posting its frames and writing all but the last is seen by nobody; with the
last frame (the channel's `Arrives` and `IsLost`) the packet is got if the server
keeps the rest of it (`HalfKept`, `PeerKept`), and lost otherwise. That a packet is
`broken` only while it is the next and has data, and from a reconnection or a packet
of the network thread on, is what the mapping of those two steps has to show.

`BotProofs` proves, for any kinds without flowers, any size of the hand and any number
of turns, deals and events under way, `Invariance` (`Inv`: `TypeOK` and `Support`), and
from it `KnowsHand` (`HandAgrees`), `KnowsDiscards` (`DiscardsAgree`), `KnowsMelds`
(`MeldsAgree`) and `AnswersAccepted` (`AnswersAcceptable`). These properties speak of a
bot that has nothing left to handle, while the server may be several events ahead of it,
so none of them is inductive. The invariant speaks of the bot *in the end*:
`InTheEnd` is what the listeners will have made of the bot's record once they have
handled all events under way (`Handled` is one event, `Handling` a fold over the queue).

* `AgreesInTheEnd`: this record has the server's open tiles, melds, drawn and thrown
  tile, and its hand but for what `missing` records. A listener does not change the
  record in the end, it only comes closer to it (`HandledFirst`, `ListenerKeeps`); a step
  of the server appends events, each of which changes the record in the end by one
  `Handled` (`HandledLast`, `ServerKeeps`), and a lemma per event says how (`HandlesDraw`,
  `HandlesOwnThrow`, `HandlesSuccess`, ...).
* `PlayerKept`: every record on the way to the end has its types. That `Put` does not
  cut a count off at four and `Take` finds a tile to take needs the next part.
* `TableKept`: the server's four tiles of each kind are in the hand, open, in a
  concealed kong or unseen, and a meld's tiles lie open.
* `TurnKept`: when a question is under way it is the last event and nothing is answered;
  when it has been answered nothing else is under way, and the answer is one that can
  be taken (`Throws`, `Claims`). That the bot answers so is what `ThrowIs`, `OwnAnswerIs`
  and `OtherAnswerIs` say of `Throw`, `WannaHuGon` and `WannaHGPE`, whatever the search
  computes: each names a tile that is held, or tiles that were offered.
* `LobbyKept`: what is under way before the first deal.

The kong that loses a tile is where the argument is delicate: the bot then holds less
in its record than the server says, so every subtraction from its hand needs that the
tiles of a claim are those it knows of (`KnownHand`, `OwnClaims`, `OtherClaimed`), and
`StillMissing` is what the server's record says of the tiles it lost count of after it had
to show some of them (`ClaimTakes`, `KongTakes`).

`Irb00Proofs` is about the search, for any kinds without flowers and any size of the
hand. `Throw` takes the first of a vector that is empty if no tile can be spared, that
is, if taking any tile away changes the count of `CountSteps`. Two theorems say when,
and two more that the count is never more than what a winning hand lacks:

* `SpareTile`: a hand with its drawn tile (3n + 2 tiles) that is not counted as won has a
  tile to spare. The best split of it has a single tile, a pair or a part of a group
  that the count does not use (`CountSteps` charges for what is superfluous); with a
  tile of that taken away a split remains that counts no more (`LessTilesFewerGroups`,
  `NoFurther`), and no hand counts less than with one tile more (`ThrowIsNoGain`).
* `NoStepIsWon`: where no step is counted the hand *is* one of `Winning`: the
  corrections for too many parts and for a missing pair leave only the splits that are
  n groups and one pair.
* `StepsSuffice`: the search counts no more steps than the tiles that any winning hand
  lacks (`Misses`), so never more than the `Distance`. The winning hand is taken apart
  meld by meld, by induction: what the bag has of a meld is a group, a part of one, a
  tile or nothing (`PartOfMeld`, with `LackOfTriplet` and `LackOfChow`), and what it does
  not give to this meld it has for the others (`MeldFirst`). So there is *some* order of
  taking groups that shows all of them. The code takes groups in the order of their
  numbers; `GroupIsFound` is that this loses nothing: whatever group is taken first, the
  search finds a split at least as good as the best that is left after it. At the end
  stand the pair and the corrections for parts beyond what the hand needs (`FindsPair`,
  `FindsMore`, `FindsNoMore`).
* `WonIsNoStep`: so a winning hand, of any number of groups, is at no step.

All rest on what a split is. `FindGroups` is recursive in the bag and in the first
group, so the induction is over the number of tiles (`NatSet` again), and the lemmas say
of every split that its groups and rest make up the bag (`SplitsAre`), that a search
which starts at an earlier group finds at least as good a split (`FromEarlier`), and what
becomes of the splits when a tile comes or goes.

With these, `BotProofs` proves `ThrowsKept` (`ThrowKept`) and `CrashTakesLoss`
(`CrashNeedsLoss`), each with `Inv`, in one induction. `CrashNeedsLoss` alone is not
inductive: that the hand can spare a tile when the bot is asked to throw is decided
several steps before. `ThrowKept` has a part for each thing that must have gone right:

* `SizeKept`: the hand has 3n + 1 tiles, and 3n + 2 while the bot has to throw or to
  answer for a draw, whatever was melded and claimed; `SpareTile` and `NoStepIsWon` hold for
  these sizes.
* `WinsKept`: the bot never throws from a winning hand. The server offers a win whenever
  the drawn or thrown tile completes one; `WannaHuGon` and `WannaHGPE` take it; and a chow
  or triplet is claimed only for a step less, so that by `NoStepIsWon` none of these
  hands is at no step when a throw is asked for.
* `WholeHand`: when the bot that has lost no tile comes to handle `throw`, it chooses from
  all it holds: `onlyThrow` says rightly whether the drawn tile is still apart.

The search and the game meet in four theorems of `BotProofs`:

* `StepsNotTooFar` (`NeverTooFar`) and `NoStepsWhenWon` (`NoStepWhenWon`) say of every
  hand of a deal what `StepsSuffice`, `WonIsNoStep` and `NoStepIsWon` say of bags: by
  `SizeKept` it has a size for which there are winning hands. `Distance` is the least of a
  set that must not be empty, so `WinningHands` assumes `SomeHandWins`: with the kinds in
  play a hand can be won at all.
* `AnswersAlwaysPay` (`AnswersPay`): while no tile is lost the answer under way costs no
  step on the hand the *server* knows, and a claim is one step less. The bot decides by
  its own record, which lacks the drawn tile; by `Agrees` and `WholeHand` what it searches
  is the server's hand (`ThrowPays`, `OwnPays`, `ClaimPays`). `EatOrNot` would compute
  from borrowed digits if a tile were not there; the server offers a chow only if
  one of its places is held, and at the end of a suit there is only one (`ClaimHelps`).
* `DecisionsPayOff` (`DecisionsPay`): what the server makes of these answers follows, if
  `NeverTooNear` holds at the table.

Only model-checked:

* the liveness properties `SyncCloseReturns` and `CloseEnds` (fairness and
  ENABLED are outside what the prover handles);
* `NeverTooNear` of `Bot`, and with it the hypothesis of `DecisionsPayOff`. That no hand
  is further from winning than its steps is not true for every set of kinds and every
  size: a part of a group counts as one step short of a group, and the tile it wants may
  not be among the kinds, or the hand may hold all four of them itself. So four of a kind
  may hide a step (`Hides`); in a hand of sixteen tiles four such kinds hide two. It is a
  fact about the run's kinds and its hand of ten tiles, and TLC compares the two counts
  for every hand that a deal reaches.

## 5. What is not modelled, and why

* Calls of the client's API from inside a listener, the destructors, and object
  lifetime (a socket destroyed while a handler holds its pointer).
* Data races as such: an unsynchronised access is one step, so torn reads and
  double deletes of the timers' `unique_ptr`s are not shown.
* A server that deals before it has acknowledged `ready`: the bot's `id` would still
  be zero (`main.cpp:138`), perhaps another player's seat.
* Two threads both asking for acknowledgements. They race on
  `s_global_event_id`, and `AckIsOwn` does not survive that race; the runs let
  one thread ask, as the bot does (its user thread in `join`, and only after
  the server's answer its listeners).
* Several namespaces in one client: `on_decode`'s routing by name and the map's
  other entries. Two sockets share the mutex, which is modelled, and the id
  counter, which the runs leave to one thread; a second entry would multiply the
  states and add no interaction of its own.
* The vendored libraries (`lib/websocketpp`, `lib/rapidjson`, 94 % of the
  lines in the repository): they appear as the environment that the client's code
  relies on. The map covers the repository's own 4 300 lines only.
* Malformed payloads, namespaces that contain `,` or a character of JSON (`parse`
  would cut them at the wrong place), and the messages' data.
* A socket's event bindings (`on`, `off`: one map under a mutex) and its error
  listener.
* Of the bot: flowers (their listeners are empty), the score, the kong of
  another's tile (it never asks for one), `on_close` and `on_fail`, which end
  the process, and `irb01`, which `main.cpp` does not create. Of `MJCards`: the
  operations that the bot does not call.
* The delay of a reconnection, the session id and the query string; TLS; the
  random identifiers.

## 6. Plan

Done, in order: `Asio`, `SioClient`, `SioSocket`, their proofs; `SioConnection` and
the refinement; `PacketManager` and its proofs; `Tiles`, `TileBag`, `MJCards` and
their proofs; `PacketChannel` and the refinement; `Irb00`, `Bot` and their proofs. What
is left, in order of weight:

1. A second socket in `SioSocket` with its own counter of emits, for the routing
   of `on_decode` and for `client::close()`, which closes one socket after
   another while the network thread may remove them.
2. Calls of the API from inside a listener: `close()` and `socket()` on the network
   thread, where `dispatch` runs at once.
