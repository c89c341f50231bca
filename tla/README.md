# TLA+ models of TCP-MMO-SERVER

The server is one thread. `wmain` alternates `NetworkManage`, which accepts,
reads packets and sends, with `Update`, which runs the world 25 times a second.
A handler runs to its end before the next one starts, so nothing here is about
threads. What is hard is that every handler is a *broadcast over shared lists of
raw pointers*, that a broadcast may disconnect one of its own recipients, and
that what a client knows is the sum of hundreds of small messages that nobody
ever compares with the world.

## 1. Inventory

| Part | State | Operations | Correct when |
|---|---|---|---|
| `GameManager` (GameManager.cpp/h) | `players` (id to `Character*`), `sector[y][x]` lists of `Character*` | `OnCharacterConnect`, `OnCharacterDisconnect`, `PacketProc_*`, `SendAround`, `SectorUpdate`, `SendDamage`, `Update` | lists, player map and cached sectors agree; every client is told of exactly the characters around it; attacks find their targets; the dead and the silent are removed |
| `Character` (Character.h/cpp) | coordinates (WORD), `hp` (signed char), `action`, `moveDir`, `dir`, `curSector`, `lastRecvTime` | setters, `Move`, `HitByAttacker` | coordinates in the world, `hp` never comes back from below zero |
| Bridge and main loop (TcpFighterMMO.cpp) | `curTime`, `ownTime`, `ShutDown` | `CreateNewCharacter`, `PacketProc`, `OnCharacterDisconnect`, `wmain` | session map and player map agree |
| `NetworkManager` | `sessions` (id to `Session*`), `dw_sessionId`, listening socket | `AcceptProc`, `RecvPacket`, `SendPacket`, `SendUniCast`, `Disconnect`, `NetworkManage` | once the handler that closed a session has ended, the session gets nothing more, and it is erased; packets come out as they were sent |
| `Session` | socket, `RecvQ`, `SendQ`, `isDelete` | constructor, destructor | |
| `RingBuffer` | array, `front`, `rear` | `Enqueue`, `Dequeue`, `Peek`, `DirectEnqueue`, `DirectDequeue`, `MoveFront`, `MoveRear` | a bounded FIFO of bytes |
| `PacketCreator`, Protocol.h | none | one function per message | lengths; what a message means to a client |
| `SerialBuffer` | array, positions, length | `<<`, `>>`, `Read`, `Write`, `Clear` | no read past the data, no write past the array |
| `MemoryPool` (MemoryPool.h) | free list, blocks | `Allocate`, `Free`, `ExpandPool` | a block is given to one owner at a time |
| memoryPool.cpp | | an older pool with its own `main`, unused | |
| Timer (Timer.cpp/h) | sampling table | profiling macros | |
| Defines.h | constants | | |

How they interact. `NetworkManage` calls `AcceptProc`, `RecvPacket` and
`SendPacket`. `AcceptProc` and `RecvPacket` call into the game through the bridge
functions; the game sends through `NetworkManager::SendUniCast`, which only
copies into the recipient's `SendQ`. If the copy does not fit, `SendUniCast` calls
`Disconnect`, which calls back into the game, which broadcasts a deletion and
erases the character from the list that the outer broadcast may be walking.
`Update` uses the same broadcasts and disconnects the dead and the silent.
A session that was disconnected keeps its place in the map, marked `isDelete`,
until the next `NetworkManage` erases it.

What is hard to test: the difference of two neighbourhoods for several
characters that cross borders one after another; overflow inside a broadcast;
`Disconnect` in the middle of a packet loop; two iterators over a map that the
callees change; the wraps of `hp`, of the ring's indices and of the clock; and
the liveness of the removal of silent clients. PROJECT.json lists each hazard at
its line with the properties that cover it.

## 2. Modules

| Module | Models | Abstract or used by |
|---|---|---|
| `GameManager` | the game layer and the callers in `NetworkManager` | `MCGameManager`, `GameManagerProofs` |
| `NetworkManage` | one round over the session map: batches for `select`, two iterators, erasures, accepts | `MCNetworkManage`, `NetworkManageProofs` |
| `DisconnectCalls` | the call stack behind one handler when a `SendQ` is full | shows that `GameManager`'s summary of such a call is right; `DisconnectCallsProofs` |
| `MainLoop` | `wmain`: the frame clock on a DWORD, catching up, the 30 s limit, the console, the monitor | `MCMainLoop`, `MainLoopProofs` |
| `RingBuffer` | the operations of RingBuffer.cpp | extended by `SendQueue` and `RecvQueue` |
| `SendQueue` | one session's `SendQ`: `SendUniCast` and `SendPacket` | implements `ByteQueue`; `SendQueueProofs` |
| `ByteQueue` | abstract: a bounded queue of bytes that takes a message whole or not at all | |
| `RecvQueue` | one session's `RecvQ`: `RecvPacket` | implements `PacketStream`; `RecvQueueProofs` |
| `PacketStream` | abstract: the packets of a client, handled in order and in the end | |
| `SerialBuffer` | SerialBuffer.cpp as functions of a buffer | extended by `Messages` |
| `Messages` | every message and packet, byte by byte, and the calls each handler makes on the shared buffers | `MCMessages`, `MessagesProofs` |
| `MemoryPool` | MemoryPool.h: free list, expansion, counters, destructor | implements `Allocator`; `MemoryPoolProofs` |
| `Allocator` | abstract: a block has one owner at a time | |
| `MC*` | instances for TLC | |

How they meet. `GameManager` takes a handler as one step and a message as a
number of bytes and a change of belief. `Messages` opens up what a message is,
`DisconnectCalls` what a handler does when a queue is full, `SendQueue` and
`RecvQueue` what the queues do with the bytes, `NetworkManage` in which order
sessions get their turn (arbitrary in `GameManager`), and `MainLoop` when `Update`
runs and what "silent" means on a wrapping clock (both arbitrary in
`GameManager`).

### GameManager

A step is one iteration of one loop of the thread: an accept, one packet of
`RecvPacket`'s loop, one `send`, one character of `Update`'s loop. `phase` says
which loop runs (`net`, `recv`, `update`); `cur` is the session whose packets are
being handled; `todo` are the characters `Update` has not yet visited.

| Variable | In the code |
|---|---|
| `sessions` | `NetworkManager::sessions` and `isDelete`; ids come from `dw_sessionId` and are used once (its wrap at 2^32 is left out) |
| `players` | `GameManager::players`, a function whose domain is the set of keys |
| `sector` | the lists, as sets: their order only matters for who is told first |
| `sendQ` | how many bytes each `SendQ` holds |
| `client` | `client[r][k]`: what r's client will believe of character k once it has read its `SendQ` |
| `silent` | whose `lastRecvTime` is 30 s old |
| `fault` | what ended the process, if anything did |

Messages are not kept. Each handler queues all its messages before it returns,
and TCP delivers a `SendQ` in order; so queueing a message is the same as changing
what its reader will believe, plus its bytes in the queue. A creation message for
a character that is known, or any message about one that is not, makes the
belief `garbled`, and no message mends it: `ViewExact` therefore also says that
no client is ever told twice of an arrival. A belief holds the hit points and
the movement, not the coordinates, which clients extrapolate themselves.

`fault`. Where the C++ has no defined continuation the module stops: a null
`Character*` after a disconnect in the middle of a packet loop (`null_player`), an
uncaught exception on a short payload (`no_data_in_buf`), a coordinate outside the
sector array (`sector_range`), and `sendq_overflow`. The last one needs its
argument. `SendUniCast` to a full `SendQ` disconnects the recipient x at once.
`OnCharacterDisconnect` first sends x's deletion to everybody around, x included;
x's queue has no room for it either unless the message that failed was longer
than a deletion and a deletion still fits. If it does not fit, `SendUniCast`
disconnects x again before anything was erased, and so on without end. If it
does fit, x is erased from the very list that the interrupted loop of
`SendAround`, `SendSectorCreateMsg` or `SendSectorDeleteMsg` is walking, or
`MoveStart` and `OnCharacterConnect` go on to use the deleted character. One path
remains: in `Update`, the mover itself fails on the *last* creation message it is
due, nothing uses it afterwards, and it is gone. `Carry` models that path step
by step (`HeardBeforeLeaving`, `OverflowsOnlyOn`) and makes all others a fault.
`DisconnectCalls` checks this summary against the calls themselves.

Left out: the direction a character faces; the kind of attack that is shown (it
is in `Messages`); the order within a list; what a payload longer than its
`SerialBuffer` does (`Messages` and `RecvQueue` end there); the clock, except that
30 s may pass at any time outside `Update`; the order in which `NetworkManage`
visits sessions.

A leaver is told of its own deletion like everybody else: `Disconnect` closes the
socket first and then broadcasts with `sendMe`. `QuietOnceClosed` therefore speaks
of the steps after the one that closed the session.

### SendQueue, RecvQueue

`RingBuffer` has one operator per member function, over the array and its two
indices. `SendQueue` is the one producer and the one consumer of a `SendQ`:
whole messages in, contiguous pieces of any size out. It implements `ByteQueue`
with `queue <- Read(GetUseSize)`: what two `memcpy`s would read is the queue. Both keep the
message last handed over in `in`, so that what is queued must be that message.

`SendUniCast` does not look at `isDelete`, so a session that is waiting to be erased
may still be queued messages; only `SendPacket` passes over it.

`RecvQueue` adds the client and TCP: a client sends chunks of bytes, as many as it
likes (`MaxWire` is TLC's bound on what TCP holds), and `recv` takes any number of
them straight into the array behind `rear`. `RecvPacket`'s loop is one step per
packet. `PacketProc` may close the session in the middle of it (an unknown type,
no room for a reply in its `SendQ`), and so may the rest of the server between
two reads (`DisconnectElsewhere`: `Update`, `SendPacket`, the broadcast of another
handler); the loop goes on with the packets of the same read all the same. A
packet whose handler has no character any more, one too short for its handler
and one longer than its block end the process (`stopped`).

It implements `PacketStream`: packets are cut where their own headers say, handled
whole, in order, once and in the end; the session is given up for one of four
reasons; and bytes are lost in one way, the first `Size` of those unhandled, all at
once (`Lose`). That is the ring read full from its first place (section 5), and
the run `ring_full` shows it; the refinement says that nothing else is ever lost.

### NetworkManage

The map is the sequence of its ids in the order of iteration, an iterator a
position, `Len(order) + 1` is `end()` and 0 an iterator whose element was erased.
The do loop is cut into its steps: `BatchBegin`, `EraseDeleted` and `AddToSets` for
the first inner loop, `Select`, `AcceptProc`, then `ServeNext` for the second.
`AcceptProc` may put the new element anywhere, and if the insertion makes the table
grow (`InsertAndGrow`) the rest comes in any order: the standard invalidates the
iterators, the library the server is built with keeps its elements in a list
whose order changes. `Astray` is the dereference of an iterator that is no longer
on an element. `SelectFails` is a `select` that returns SOCKET_ERROR, which nobody
looks at: the sets keep the whole batch, `AcceptProc` runs, and `selectRet` is
below 0, so that every session of the batch is read and written. Variables that
are local to the function or to a turn of its loop are reset where they end.
`grown` is a history variable. Sockets become readable only just
before `select`, the first to notice; whose `SendQ` holds something is chosen
when the session is added.

### DisconnectCalls

A walk of `SendAround` or `SendSector*Msg` is a frame on `stack` with its own
iterator over `std::list`; `SendUniCast` and `Disconnect` push, and `Return` of a
disconnect erases and frees. The run starts from every placement, every fill of
the queues and every kind of call. `SummaryExact` compares the end with what
`GameManager` assumes (`Carry`): everybody told, or only the caller gone on
its last message, or the process ended. All sectors of the module are within
sight of one another, so that every walk is over the same lists. In the code a
leaver other than the caller is told to its own neighbourhood, which may reach
further; it is in the walk of the caller all the same, and its erasure or its
recursion ends the process in the same way.

### MainLoop

`clock` is the true time, `timeGetTime` its remainder; `curTime`, `ownTime`,
`startTime` and `lastRecv` are DWORDs. `Tick` may happen anywhere, up to `MaxPass`
milliseconds in a turn. `lost` are the characters a frame disconnects for another
reason than silence, those without hit points and a mover without room for its
last creation message: which ones is up to `GameManager`, so any may be. The
histories `stampedAt`, `heardAt` and `frames` are read
by properties only.

### Messages and SerialBuffer

A handler is the sequence of its calls on buffers (`todo`), one step each. A byte
is the name of its value, its owner and its index in the value, so that any two
bytes that could differ do. `Wire` is the layout a client reads by Protocol.h,
`Put` what PacketCreator.cpp writes. A payload may have any length a byte can say;
one that is longer than the block takes the positions past its end, and the
process ends there (`block_overrun`). A packet of unknown type closes the session,
and the loop goes on: a second one closes nothing, one of a known type finds no
character (`null_player`). Exceptions end the process too.

### MemoryPool

`new` may return any address not in use, freed ones included. `peak` and `block`
(what `Allocate` returned last) serve the properties. Callers give back what they
hold, once: every `Allocate` in src/ has one `Free` at the end of its function.

## 3. Runs

| Run | Question | Bounds |
|---|---|---|
| `aoi` | do crossings by several characters keep lists and beliefs exact? | 3 clients, 4 x 2 sectors of one unit; every neighbourhood but the edge ones overlaps another, so a crossing loses some, keeps some and gains some; `ErrorRange` 1 gives both outcomes of the position check, and coordinate 4 is outside the sector array; no attacks, no bytes |
| `world` | two dimensions, corners, coordinates past the range of movement; scan, damage, death, wrap of `hp` | 2 clients, 3 x 3 sectors of two units, a range up to 4 and steps of 2: coordinate 5 is past the range and in the last sector; reach 2, `hp` from 1 in a type of 4 values, so one hit kills and three revive |
| `queue` | overflow, the life of sessions, closed sessions left alone, removal of silent clients (`FairSpec`) | 2 clients, 3 x 2 sectors, queues of 5 bytes, a creation of 2: the fifth message does not fit, and the last creation of a mover can be the one |
| `dead` | violation: are the dead removed? | as `queue`, without bytes |
| `network` | iterators, batches, erasures, accepts and growth; does everyone get a turn? | 4 sessions in batches of 2, so that a table can grow between two batches of a round that has both; every id is used once; any `select` may fail |
| `disconnect` | is the summary of a call whose recipients overflow right, and does every call come to an end? | 3 characters in 2 lists, a deletion of 1 byte and messages of 2, up to 4 bytes of room: a queue takes from none of the messages of a call to all of them; stack of 5 calls, two more than there are characters |
| `loop` | frames and time-outs across the wrap of the clock | counter modulo 32 that starts at 14 and wraps at 18 of 20 ms; frames of 3 ms, turns of up to 3, time-out 4, at most 8 frames |
| `send_queue` | the ring as a queue | 4 places, bytes 0 and 1, messages of 1 to 4 bytes: every position of both indices, with and without wrap, and messages that can never fit |
| `recv_queue` | framing, closing and liveness | 6 places, up to 7 bytes on the wire; packets of 3 and 4 bytes of two known types, one too short for its type, one of an unknown type, one longer than the block, one with another code: headers and payloads wrap at every offset, the ring is read full, and packets of every sort follow a closing |
| `ring_full` | violation: does a read ever lose bytes? | as `recv_queue` |
| `messages` | what leaves the shared buffers | 2 other characters, 2 packets or handlers one after the other (the second finds the buffer of the first), payloads of 3, 5, 32 and 33 bytes: too short, right, as long as the block, longer |
| `pool` | the free list | 6 addresses in expansions of 2: two expansions and addresses to spare |

In `aoi`, `world` and `dead` all lengths are 0 so that no queue fills; `queue` is
the run about bytes. The message lengths of `queue` are not those of
PacketCreator.cpp; what matters is that a creation is longer than a deletion,
which is what makes the surviving overflow path possible, and the theorems hold
for all lengths. Deadlock is not checked: the models stop when every id was used
and every session is gone, when a bound is reached, or when the process ended.

### Fairness

`wmain` runs for ever, and `NetworkManage` returns: it walks the map once, and
`RecvPacket` handles what one `recv` brought. Hence `WF` of `RecvEnd` (a `RecvQ` holds
finitely many packets), `SF` of `UpdateBegin` (the loop comes back to it between any
two rounds of the network, although the model may be in the middle of one
when it looks), `WF` of each character's visit and of `UpdateEnd`, and `SF` of
`Reap`, since every `NetworkManage` looks at every session before it reads from
any. Nothing is assumed of clients: no fairness of packets, accepts or sends,
and `FallSilent` may never happen. In `RecvQueue`, `select` reports a socket with
waiting bytes as readable, hence `WF(RecvPacket)` and `WF(Loop)`. In
`NetworkManage`, `WF(Thread)`: no socket blocks, `select` has a time-out of 0, and
`wmain` calls the function for ever; `Reaped` and `Heard` need nothing else. In
`DisconnectCalls`, `WF(Next)`: a function that can take its next step takes it.
`MainLoop` states bounds on time, not liveness.

## 4. Proofs

`GameManagerProofs` proves for every world, sector size, number of clients,
attack, length of message and size of queue that satisfies the assumptions:

* `Invariance`: `IInv = TypeOK /\ SessionOwnsPlayer /\ SectorListsExact /\
  ViewExact` is inductive. No part is so alone. A broadcast is computed from the
  lists, so that it reaches the right clients only if the lists are those of
  the player map (`AudienceExact`, `LostExact`), which needs the cached sectors to
  be inside the grid (`TypeOK`), which needs coordinates and cache to agree.
  `ViewExact` says who should know whom by the distance of two sectors (`Near`),
  not by the code's own neighbourhoods; `NearExact` shows, from the border cuts of
  `GetSectorAround`, that the two agree. A
  deletion is understood only by a client that knew the character, which is
  `ViewExact` before the step together with the symmetry of neighbourhoods
  (`AroundSymmetric`). `SectorUpdateViewExact` is the heart of it: after
  `SectorUpdate`, everybody believes what they should, except that those who keep
  seeing the mover still believe its old movement, which the closing broadcast
  of `MoveStart` and `MoveStop` corrects and `Update` never changes.
* its parts: `TypeCorrect`, `SessionsOwnPlayers`, `ListsExact`, `ViewsExact`.
* `ScansComplete`, from the lists and the monotonicity of division.
* `ClosedStayQuiet`: no step from a state that satisfies `IInv` queues a byte for
  a session closed before it. Every recipient of a broadcast is in a list or is
  the caller, both are characters (`ListsExact`), and a character has an open
  session (`SessionsOwnPlayers`).
* `UpdatesReap`, with the invariant `Passed`: halfway through `Update`'s loop all
  characters no longer in `todo` are alive and heard from.

`SendQueueProofs` proves `TypeInv` and `RingIsByteQueue`: every `SendQueue` is a
`ByteQueue`, by the position of the j-th byte behind `front` (`Place`), which every
split copy and every wrapped index agrees with (`CopyPlaces`; the receive side
proves the same of its ring).

`RecvQueueProofs` proves `RecvQueueImplements`, the safety half of
`ImplementsPacketStream`, for every ring longer than a packet (258 bytes against
4096 in the code) and every client, with no bound on what it sends. A read puts
its bytes behind those in the ring (`RecvAppends`) or fills the ring from its first
place and loses them all, and `MoveFront` drops the packet just handled
(`MoveFrontDrops`). The invariant says that between two reads the ring of an open
session holds less than its size allows, so that the next read is offered room
(`RoomToReceive`): `recv` is never called with length 0, whose result would look
like the client's leaving.

`NetworkManageProofs` proves the six safety properties of `network` for any number
of sessions and any size of batch. The core of the invariant is a count: in the
second loop `selectRet` is the number of ready flags of the sessions ahead, or below 0
since `select` failed (`Counted`), because everything `select` counted is still between the two iterators
(`Covered`), growth excepted. Growth can put a session that was counted behind
`selectIt`; then `selectRet` does not reach 0 and no one is skipped, but the loop
goes past `end()` when `it` is not `end()` itself.

`MainLoopProofs`: DWORD subtraction measures the time since a stamp as long as it
is shorter than the modulus (`NobodyKickedEarly`, with no condition on the wrap;
it is about those who are not in `lost`);
before the wrap, frames are neither ahead of the clock nor lost, and a silent
client is gone in time (`FramesNeverAhead`, `FramesKeepUp`, `SilentKickedInTime`).

`MemoryPoolProofs`: the free list is exact, by an explicit list as the witness
(`Chain`), the counters, the bound on growth, and that the pool implements
`Allocator`.

`DisconnectCallsProofs` proves the three invariants of `disconnect` for any number
of sessions and sectors, every placement, every fill and every length of message.

* `TypesHold`, `TypeCorrect`: with the types goes what a frame on the stack may be
  (`Sound`): a deletion is of a closed session, and only the walk the handler
  asked for, at the bottom, is no deletion.
* `StackNeedsFullQueue`, for `MaxDepth > Cardinality(Session)`: `TwiceIsFull` is
  inductive, which says that two deletions of one session are under way only
  where its queue has no room for one. A stack deeper than the number of sessions
  then holds one of them twice, by counting.
* `SummaryIsExact`, for `MaxDepth >= 2` (an answer that overflows takes two calls, and
  a stack of 1 MB has room for them): `Going` lists the ways a call can go, and a
  step leads from one to another. `Walking`: everything fitted so far, and `room`
  is what is left after the elements passed (`Progress`, `Told`).
  `PartingUnicast`, `PartingExchange`: c overflowed and everyone is being told.
  `GoingOn`: c is gone and the exchange goes on. `Finished` and `Parted` are the two
  good ends. `Doomed`: a walk is on an element that is erased or is being
  deleted, and there is no way back from that (`DoomedStep`): the process will
  end, and `Bad` says that it was bound to, from the lengths and rooms the call was made
  with alone. The point is that `Bad` is known when the walk becomes doomed, long
  before the process ends. The sums of answers are folds over sets, about
  which the library proves nothing; `SumStep` and its neighbours take them
  apart by least counterexample, and `LastAhead` finds the last character an
  exchange will meet.

`MessagesProofs` proves `WellFramed`, `FieldsRead` and `RoomForAll` for any number of
characters, met in any order, and payloads of any length up to 255.

* `WireIs`: for each type, the bytes `PacketCreator` puts are those of the layout in
  Protocol.h, the size byte counts them, and there are at most 13.
* A handler is a finite sequence of calls that only the encounter fixes, so the
  invariant has to say what each of the calls to come will find. `Holding` gives every
  buffer the list of messages the handler takes it to hold, or `Raw`, the payload
  of the packet. `Does(a, c, b)` says that call `c` finds in `a` what it should (a
  message is put after one other at most, what is sent is what is held, only a
  payload is read) and leaves `b`; `Leads(S, s, T)` that the calls `s` all do so from
  any holding in `S` and end in `T`. `LeadsThen` and `LeadsEach` put sequences and loops
  together, and each handler is followed line by line: `LeadsSectorDelete` and
  `LeadsSectorCreate` find the invariants of the two broadcast loops (a buffer that
  keeps what is sent to everybody, one that is empty again after every turn),
  `LeadsPacketProc` that every value is read before the first `Clear` of the buffer the
  packet came in.
* `IInv`, the invariant: the holding describes the bytes (`Holds`: read and write
  positions, length, contents) and the remaining calls lead on from it (`Ahead`).
  Without the calls to come it is not inductive: nothing would forbid to put a
  message into a buffer that still has an old one. `WriteSound` is where the write
  position, which `<<` never compares with anything, meets the length; `HeldGet`
  follows the read position through the payload; after a payload that is too
  short (`no_data_in_buf`) the process has ended. `IInv` quantifies over all holdings,
  which TLC cannot enumerate: the run checks the three properties.

Assumptions: those named in the modules (`CallAssumption`, `WorldAssumption`, `CombatAssumption`,
`WireAssumption`, `PacketAssumption`, `PayloadAssumption`, `SizeAssumption`, `MessageAssumption`,
`BatchAssumption`, `TimeAssumption`, `PoolAssumption`, `ChunkAssumption`), all of them
satisfied by the constants of src/.

Only model-checked: `SilentRemoved`, `Reaped`, `Heard`, `Returns` and the liveness
half of `ImplementsPacketStream`, since the prover does not do fairness or
`ENABLED`. Every invariant of the runs that pass is a theorem too.

## 5. Where the code and its comments disagree

With a run:

* `dead`: `hp` is a signed char that `HitByAttacker` lowers without a floor, and only
  `Update` looks at it. Enough hits between two frames take it round to a
  positive number; Protocol.h:62 says a character that dies is deleted.
* `ring_full`: RingBuffer.cpp:97, with `front` at 0, offers `size - rear` places, one
  more than `GetFreeSize`. A `recv` that fills them sets `rear` to 0 as well and the
  full ring looks empty. RingBuffer.h:4 says that `size` bytes are usable and the
  memory is one larger; the constructor allocates `size`.

Without a run of their own:

* GameManager.cpp:329: `PacketProc_Attack` compares the packet's type with the types of
  the server's messages; every attack is announced as the third kind, against
  Protocol.h:166. `Shown` in `Messages` is that comparison.
* GameManager.cpp:278: `MoveStart` and `MoveStop` take the coordinates of a packet as
  long as they lie within `dfERROR_RANGE` of the old ones; only `Update` calls
  `CheckCharacterMove`. A character can leave the range of movement of
  Defines.h:15, as it does in `world`; beyond the sector array the process ends.
* TcpFighterMMO.cpp:150: in the last frame before `timeGetTime` wraps, `ownTime + 40`
  has wrapped and `curTime` has not, and `Update` runs in every turn of the loop,
  against the 25 frames a second of Defines.h:45. `NeverAhead`, `NoFrameLost` and
  `SilenceBounded` say `BeforeWrap`.
* NetworkManager.cpp:119: `bySize` is one byte, so the comparison with 1024 never
  holds, and a payload may be longer than the 32 bytes of its block, against the
  comments NetworkManager.cpp:118 and Defines.h:58. `Messages` and `RecvQueue` have
  such payloads and end there.
* NetworkManager.cpp:56: a full `SendQ` ends the process except on one path
  (section 2), where README.md:24 speaks of stable sessions.
* TcpFighterMMO.cpp:93: after a packet of unknown type the loop of `RecvPacket` goes
  on with a session that has no character; a packet of a known type then ends the
  process. No comment says otherwise; three modules end there.
* NetworkManager.cpp:70: an accept that makes the table grow in the middle of a round
  with more than one batch can take the second loop past `end()`. `network`
  shows that this is the only way (`AstrayOnlyInBatches`).

## 6. Not modelled

* memoryPool.cpp: an older pool; no file of the server includes it.
* Timer: profiling macros that nothing uses.
* `NetStart` and `NetClean`: one sequence of socket calls each, before and after the
  loop. What is written to the console and to the log: no state of the server.
* `ClearBuffer` and the default constructor of `RingBuffer`, `Initialize` and the string
  operators of `SerialBuffer`: never called.
* The direction a character faces, and the coordinates in a client's belief:
  no handler decides anything by what it told.
* The order within a sector list in `GameManager` (`DisconnectCalls` has it), the wrap
  of `dw_sessionId` after 2^32 accepts, and failures of `new`.
* The composition of all parts in one specification: each part's environment is
  arbitrary in the models of the others (section 2), which is more than the other
  parts do; one product of all states would be beyond TLC and show no more.
