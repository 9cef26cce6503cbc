# fernq in TLA+

fernq is a message hub. Clients connect over TCP to the server `fernqd`, show the
id, name and password of a *room*, and from then on send frames to each other by
name within the room. An operator adds, lists and removes rooms with `fernqctl`,
over a Unix socket. This directory specifies the server and the protocol it shares
with its clients, checks them with TLC on small instances and proves their safety
with TLAPS for instances of any size.

## The system

| part | code | state | operations |
|---|---|---|---|
| Connection | `fernqd/src/server/conn.rs` | writer mutex, `closed` flag, cancel token, pending-heartbeat counter | `write`, `close`, `is_closed`, the counters |
| Room | `fernqd/src/server/room.rs` | `DashMap` from names to connections, one bounded channel per worker, a `JoinSet` of tasks, `is_closed`, cancel token | `add_conn`, `close`, and the tasks `listener`, `worker`, `heartbeat` |
| Node: the rooms | `fernqd/src/server/node.rs` | `DashMap` of rooms, cancel token | `start`, `add_room`, `remove_room`, `list_rooms`, `close` |
| Node: the clients | `fernqd/src/server/node.rs` | the `JoinSet` `worker_set` behind a mutex | `listen`, `add_connection`, `close` |
| Storage | `fernqd/src/storage/` | a fjall keyspace `rooms` on disk | create, save, get, list, find by name, delete, exists |
| Control server | `fernqd/src/main.rs` | none | one task per request; ctrl-c runs `close` and exits |
| Control client | `fernqctl/src/main.rs` | none | sends one request, waits 5 s for the answer |
| Protocol codec | `fernq-core/src/protocol/{encoder,decoder,frame,message}.rs` | none | frames to and from bytes, fragmentation, choice of a worker |
| Room URL | `fernq-core/src/protocol/validate.rs` | none | parse and print `fernq://` addresses |

How they interact: the accept loop of the node spawns a task for each client;
that task reads one frame, checks it against the *storage*, answers, and hands
the connection to the *room* it finds in the node's map. The room spawns a
listener, which puts the connection into the map of the room, superseding one of
the same name, and sends each frame it reads into the channel of a worker. The
worker looks the target up in the map and calls `write` on its *connection*; so
do the heartbeat and listeners, concurrently. Control requests change storage and
node map while clients come and go. Cancel tokens (of the node, a room, a
connection) tell tasks to end; the `JoinSet`s of node and room are how `close`
waits until they have.

What is hard here, and what each part must guarantee:

- *Connection*: many writers and closers, a peer that may never read, 30 s
  timeouts on everything. Frames must not mix, nothing may follow a cut frame or
  the shutdown, every call must return, and a close must take effect although a
  stuck writer holds the mutex.
- *Room*: one connection can be ended by its peer, a newcomer of its name, the
  heartbeat and the close of the room, in any order. Map and tasks must stay in
  agreement, and a closed room must have nothing running.
- *Node: the rooms*: every request is a sequence of steps over disk and memory, any
  of which may fail or be cut off by a crash, and requests run concurrently.
  What was answered must hold.
- *Node: the clients*: the room a client was promised may be removed before the
  hand-over; `close` must wait for whoever is in the middle of it.
- *Frames in a room*: listeners, channels and workers run side by side, targets come
  and go in the middle of a message, and a full channel stops a listener. A channel's
  frames must not overtake each other, and no worker may stop for what becomes of one.
- *Heartbeat*: it counts a ping after it was written, so an answer may overtake the
  count. Only silent peers may be closed, and silent peers must be.
- *Codec and URL*: a reader finds the borders of frames by lengths alone, in bytes
  that arrive in any pieces; what client and server make of a URL or an object must
  agree.

`PROJECT.json` lists every hazard at its line, with the properties that cover it.

## Modules

| module | what it is |
|---|---|
| `FrameSink` | abstract: what a connection promises its users |
| `Conn` | `TcpConn::write` and `close`: mutex, timeouts, socket; implements `FrameSink` |
| `ConnProofs` | theorems about `Conn`, the refinement among them |
| `Hall` | abstract: what a room is to the node: entered once, while it is open; closed when empty |
| `Room` | the tasks of one room; uses of a connection as `Conn` promises them; implements `Hall` |
| `RoomThreads` | `Room` on a runtime with a bounded number of threads |
| `RoomProofs` | theorems about `Room`, the refinement and `RoomThreads` among them |
| `Registry` | rooms on disk and in memory: requests, `close`, crash and restart |
| `RegistryProofs` | theorems about `Registry` |
| `Admission` | accept loop, examination, hand-over, `close`, `add_room`, `remove_room`; each room a `Hall` |
| `AdmissionProofs` | theorems about `Admission`, that its rooms are halls among them |
| `Frames` | what the server reads of a frame; what each connection sends |
| `Link` | abstract: each channel of a room is a queue that may lose, never reorder |
| `Dispatch` | the way of frames from listeners through channels and workers; implements `Link` |
| `DispatchProofs` | theorems about `Dispatch`, the refinement among them |
| `Heartbeat` | pings, pongs and the pending counters |
| `HeartbeatProofs` | theorems about `Heartbeat` |
| `Stream` | `encoder.rs`, the byte stream, and the three readers of frames |
| `StreamProofs` | theorems about `Stream` |
| `Url` | `create_validate` and `parse_validate`, operators on URLs |
| `Message` | requests and responses of `message.rs`, operators on objects |
| `Session` | one connection: `Url` and `Message` over `Stream` |
| `SessionProofs` | `Session` implements `Stream`; URLs and objects mean what they were made from |
| `MCRoom`, `MCRoomThreads`, `MCRegistry`, `MCAdmission`, `MCDispatch`, `MCSession` | values of the function constants, symmetry |

One action stands for one stretch of code between two points where another task
can intervene: an `await`, a lock, a disk access, a look at shared memory. A
variable that is a program counter (`pc`, `lis`, `add`, `task`, ...) says where a
task is; the other variables are the shared state, named as in the code.
Definitions marked *variant* are not part of a specification: each is a
plausible slip in the definition after it, and the project's mutants put it in
that one's place to see a property fail.

**Conn.** `Writes` and `Closes` are calls, made at any time. The mutex is tokio's:
first come, first served (`waiters`), and a call that has been handed the lock does
not time out any more. A frame goes out in `Chunks` parts; the socket takes a part,
fails, or does nothing until the timeout. `wire` is what the socket has been given.
`cancelled` is the token, `closed` the once-flag of `close`. `FrameSink` knows only
calls, answers and deliveries; the refinement takes a frame as delivered when its
last part went out.

**Room.** `add` is the task in `add_conn`, `lis` the listener, `wk` and `hb` workers
and heartbeat, `closer` the task in `close`. `conns` is the map. An entry of the
`DashMap` that is held across an `await` keeps its shard locked; that happens in the
listener that supersedes a connection (`HoldsShard`), and the steps of others that
need the shard wait for it. Messages are abstracted to the worker they go to and
the names it will look up; the heartbeat may find any connection dead. A listener
of a `Malformed` connection may panic: the decoder slices a frame at lengths the
frame states. `close` of a connection is `FirstClose`/`ConnCancels`: the flag at
once, the token some time later, which is what `Conn` shows of it.

**RoomThreads** adds what `Room` leaves out: a task that waits for a shard does not
await, it blocks its thread.

**Registry.** `stored` is the keyspace as the process sees it, `durable` what the
last persist made safe. Each `add_room` and `remove_room` goes through its steps,
each of which may fail where the code has a `?`. `Down` is a crash or the exit: what
was written but not persisted may be on disk or not. `Start` reads the disk, or
fails to and goes on. A room is named by the request that adds it (ids are fresh).
A removal ends in `"ok"`, in `"none"` when it found no record to delete (`delete_room`
returns false, which `remove_room` answers like success), in `"unsaved"` when it
unlinked the record and the persist failed or never came, or in `"failed"`.

**Admission.** `loop` is the accept loop, `task` the examination of each client,
`link` its connection as the server sees it. The lock of `worker_set` is held by
`close` from `close = "joining"` on. `rooms.get` keeps the shard locked during
`add_conn`, so a removal waits (`Unpinned`). A room is `open`, `closing` or `closed`,
and its members come and go as the guests of a `Hall`: what happens inside is `Room`'s
affair, which implements `Hall` too. That members do leave a closing room is what
`Room` shows in `CloseCompletes`. `add_room` looks at the token first and puts the room
into the map last: by then `close` may have come by, or have cleared the map. Such rooms
are remembered in `behind`, which no action looks at. `add_conn` is two steps, the first
look at the room (`HandOver`) and the second with the lock of its tasks (`JoinRoom`);
while `Room::close` joins those tasks, a client waits for the lock. What a client's task
does by itself (`Examine`, its timeouts included) is kept apart from what it does when the
peer sends or reads (`FrameComes`, `WelcomeTaken`, `RefusalTaken`).

**Hall** is where the two meet. In `Room` a guest is inside from the spawning of its
listener to the end of it, and the hall is closing while `close` is anywhere between its
flag and its last line. In `Admission` a guest is inside while it is a member, and the
hall is closing as soon as a removal or `close` has it in hand.

**Dispatch.** Each connection has a `Script`, the frames it will send; a frame is a
`Task`, the connection and its number there. `lis` is the listener (in `"sending"` it
holds a frame and waits for space, and looks at no token meanwhile), `chan` the
channels, `wk`, `hand` and `target` what each worker is doing, with what, for whom.
`WorkerFor` is `assign_target_fast`; its error is out of reach, since a room has 32
workers. A write is what `Conn` promises of it: refused by a cancelled
connection, and else delivered whole or not at all, some time later; that it may
give up waiting for the lock is among the "not". `log` is what was written, by
channel. How connections supersede each other is one step here (`Join`, `Cancel`):
the steps in between, and the closing of the room, are in `Room`. `Link` is what
a room promises: a lossy queue for each channel, in which only the end of a request
is answered 404. The refinement takes the queue of a channel to be what its worker
has in hand, followed by what waits for it.

**Heartbeat.** `pending` is the counter of `TcpConn`, `unanswered` what it should say;
`hb`, `todo` and `cur` are the heartbeat with the snapshot it walks through, in any order
(a `DashMap` has none). A pong resets the counter at once, a message when its channel has
taken it. Ticks have no time: after a long round tokio makes up for missed ticks in a
burst, so they may follow each other at once.

**Stream.** The encoder cuts the messages it is handed (`Start`, `Cut`), pings and
pongs go between two frames (`Beat`: the server sends pings only, a client either), any
number of bytes arrives (`Arrive`). A
frame is where it lies and what its fields say; bytes have no content, but a
reader that looks for a frame where none begins finds no magic number and fails.
`stage` says who reads: the node its first frame, the listener the others (header,
then as much as it says), or a client with `decode_basic` (when there is enough). The
listener knows pongs; in any other frame it looks for a channel id, and a ping is too
short to have one, which ends the connection (`Unreadable`, stage `"ended"`).
`HandOver` is `into_inner()`, which drops what the `BufReader` holds. Messages of several
senders to one client interleave by whole frames (`Conn`), each channel in order
(`Dispatch`); `Stream` has one.

**Url, Message, Session.** A URL is a sequence of tokens (the marks the code looks for, each
slash of `fernq://` among them, texts of UUIDs and ports, words), an object is what its fields hold. `Session` sends them over
`Stream`: the client is given a `url` for a `room`, validates itself, is welcomed or
refused, and sends objects; or a client receives the server's 404 responses. `Complete`
and `Seen` are the client that uses the library, which the repository does not have.

How they fit: `Room` relies on `Conn` (a closed connection's token is cancelled in
the end; calls return), `Admission` on `Room` (`add_conn` is answered, `close` ends,
a closed room is empty), `Registry` on `Room` (`close` is one step). `Dispatch` and
`Heartbeat` see a room from inside while it is open: they rely on `Conn` (a write is
whole or not at all, calls return, a close takes effect) and on `Room` for how
connections enter and leave. The composition is by these properties; by
`INSTANCE` are `Conn` => `FrameSink`, `Room` => `Hall`, `Admission` => `Hall` for each of
its rooms, and `Dispatch` => `Link`, all of them proved; `Session` extends `Stream` and
is proved to implement it. What `Room` builds on (whoever waits for the first `close`
of a connection finds its token cancelled) is proved of `Conn` as `ClosedIsCancelled`.

## Runs

| run | instance | distinct states | what it shows |
|---|---|---|---|
| `conn` | 3 writes, 2 closes, frames of 2 parts | 26 thousand | frames stay whole, FIN last, `Conn` implements `FrameSink`, every call returns, a close takes effect |
| `room` | 2 connections of one name, 1 worker, capacity 1, one may panic | 155 thousand | map and tasks agree; a closed room is quiet; `Room` implements `Hall`; `close` ends, a cancelled connection is cleaned up, an offered one is answered |
| `registry` | 2 rooms of one name, 2 removals, 3 starts, symmetry | 274 thousand | acknowledged requests hold across crashes; disk, memory and running rooms agree; one closer per room |
| `admission` | 3 clients of one room that is added and removed, one without the password | 131 thousand | one keeper per connection, only genuine members, rooms are halls; what `close` leaves open; examinations end, `close` ends or is stuck |
| `dispatch` | 3 connections of 2 names, 4 frames in 2 channels, 2 workers, capacity 1 | 84 thousand | a room is a lossy queue per channel; frames in order; every frame is dealt with |
| `heartbeat` | 2 connections, limit 2 | 158 thousand | counters at most one off; only the silent are closed, and they are |
| `session` | a room and a URL in 965 cases, 2 messages of up to 3 bytes in frames of up to 2, 3 frames | 1.6 million | frames are found again; URLs and objects mean what they were made from |
| `room_panic` | 2 connections, one may panic | violation | the map is not empty when `close` clears it |
| `room_threads` | 2 threads, 2 connections, 2 workers | violation | every thread blocked on a locked shard |
| `registry_titles` | 2 additions of one name | violation | both succeed |
| `registry_removed` | an addition, a removal | violation | a removed room stays open |
| `admission_hang` | 1 client | violation | `close` never returns |

Why the bounds are enough. Three writes and two closes are one writer that is stuck, one
that waits, one that comes late, and a first and a second close; two parts are
the least that can be cut. Two connections of one name are one superseded by the other, with its
clean-up still to run; they must share a name (and with it a shard) to interfere
at all, and that a third changes nothing is proved. Capacity 1 with several
listeners makes the channel full. Two rooms under one title with two removals make
concurrent additions, double removals, and a removal against the sweep of
`close` with another room left to sweep; three starts are two crashes, with
requests before, between and after them. Three clients are one in the accept loop's hands, one under
examination and one in the room, which `add_room` makes before, while or after `close`
comes by. In `dispatch` a request of two frames is answered, while its target is superseded by a
connection that answers in a channel of the other worker: frames of one channel
from both sides, a 404 for the second frame after the first was delivered, and
channels full while their worker is busy. A limit of 2 lets one count be
overtaken and still be told from one that was not. In `session` every room has
a name and a password of up to two tokens, among them each mark in each place, and
addresses, UUIDs and orders that are wrong, and UUIDs right behind the prefix; a message of 3 bytes in payloads of 2 has a
full and a short frame; the lengths of header (2), checksum (1) and names (1)
are none of them zero, so that a wrong sum shows. Numbers for a state
are the ends of its range, and the same plus 65536. Most safety properties
do not rest on these bounds: they are proved below for any.

Deadlock is checked in `conn`, `room`, `registry` and `heartbeat`. In `admission` the
accept loop really can end up waiting for ever (`admission_hang`); in `dispatch`
and `session` everything comes to rest when the scripts and messages are at their end.

Fairness. A tokio task that can go on is polled again, and timers fire: weak
fairness of the steps a task takes by itself. In `Conn` nothing is assumed of the
socket: all progress comes from the timeouts. In `Room`, `ConnCancels` is fair because
`Conn` shows `CloseTakesEffect`; `Send` is strongly fair because a tokio channel
serves waiting senders in order. In `Admission` the task of a client takes its own steps
and its timeouts of 5 s fire, while the peer need neither send nor read; it gets the lock
of a room's tasks unless the room's `close` holds it, and that ends with the members
leaving (`Room`'s `CloseCompletes`); `add_room` need not go on. In `Dispatch` workers take their steps (their writes
return: `CallsReturn`), and `Send` is strongly fair as in `Room`. In `Heartbeat` the
heartbeat takes its steps, and a connection that was closed is cancelled in the
end (`CloseTakesEffect`); listeners need do nothing. `Session` has safety
properties only. Nothing is assumed of clients, peers, the operator, or
of errors happening or not.

## What the violations say

Each quotes a comment of the code that the code does not keep (`findings` in
`PROJECT.json`).

- `room.rs:206-210`: the comment says the shard is released before the old
  connection is closed; `OccupiedEntry::insert` borrows, so it is held for up to
  60 s, and with as many tasks in need of the shard as there are threads nothing
  runs any more.
- `room.rs:163,171`: a listener that panics leaves its connection in the map.
- `node.rs:125-140`: looking for the name, storing, and inserting are not one step;
  two rooms of a name, and a removed room that stays, are the results.
- `node.rs:231` and `:107`: the accept loop and `close` wait for each other. By
  `CloseEndsOrStuck` this is the only way `close` does not end as long as every task is
  scheduled. That takes enough threads: `close` keeps a shard of the map of rooms
  locked while it awaits a room's `close` (`node.rs:96-101`), and an `add_room`,
  `remove_room` or `add_connection` that needs the shard blocks its thread meanwhile, as
  tasks of a room do in `room_threads`. For the node this effect is not modelled, nor
  for a room in the liveness properties of `room`.

## Proofs

All theorems are proved from `Init`, `Next` and the constants' assumptions alone
(`ConnAssumption`, `RoomAssumption`, ...: typing, distinct null values, a positive
capacity). Each module proves an inductive invariant, one lemma per part or per
action, and reads the properties off it.

- `ConnProofs`: `ConnInv`. `WellFramed` is not inductive: it must be known that a
  cut frame's writer holds the mutex, or that the token is cancelled or the socket
  broken so that nobody goes on after it (`TailInv`, `WritingInv`), that one task
  is inside the mutex (`LockInv`), that one `close` gets past the flag (`CloseInv`), and
  that nobody can write or shut down after the FIN (`FinInv`). `Refinement` maps
  every step to a step of `FrameSink` or to none.
- `RoomProofs`: `RoomInv`. `ServedIsRegistered` needs to know what a listener that
  holds a shard is doing (`ShardInv`); `ClosedRoomIsQuiet` needs how far the closing has
  got (`CloserInv`): the flag is set before the join, and `add_conn` looks at it
  with the lock in hand. The same makes each step one of `Hall` (`Refinement`). Two
  theorems bound what the violations say: without a panic the map is empty when it is
  cleared (`NoPanicNoLeftovers`), and without a name used twice no thread is ever
  blocked (`DistinctNamesKeepThreads`). `ThreadsTakeAway`: all the rest holds on any
  runtime.
- `RegistryProofs`: `RegInv`. `DiskInv` says what each request knows of the disk at
  each of its steps, and that a record is durable but unlinked only while the removal that
  unlinked it has not persisted (`HalfErased`); `MemoryInv` speaks of the map and the
  running rooms. Together they carry `AckedIsKept` and `RemovedIsErased` over a crash,
  the latter for any number of removals of one room.
- `AdmissionProofs`: `AdmissionInv`. It falls in what concerns one client
  (`ClientInv`: a step of another client is a bystander's) and what concerns rooms
  (`SweepInv`: a room slips past both `close` and the removals only by being put in
  behind; `AddInv`: nobody knows of a room before that), from which
  `ClosedNodeIsQuiet` follows without an induction of its own. `Refinement`, that every
  room is a `Hall`, needs that nobody closes a room who has not told it and that no two
  do at once (`RemovalInv`).
- `DispatchProofs`: `DispatchInv`. `ChannelOrder` is about what was written; it is
  inductive only with the order of what is still on its way: what waits in a channel
  (`ChanInv`) comes after what its worker has in hand (`HandInv`), and that after what
  was written (`LogInv`), and all of it is past its listener. `Refinement` takes each
  step to one of `Link`. The queue it maps to is no filtered sequence, which would be
  recursive: its n-th frame is the one at the n-th position of the channel's frames
  (`Nth`), a position being counted by how many are before it; that there is just one such
  position for each n is a count of a finite set, and what `Append` and `Tail` do
  to it moves every position by none or by one.
- `HeartbeatProofs`: `HeartbeatInv`. The bound on unanswered pings needs the exact
  relation of the two counters in each step of the heartbeat (`Counts`, `Bounded`);
  `ClosedWasSilent` is then a property of one step.
- `StreamProofs`: `StreamInv`. `NothingIsLost` needs where frames lie (`Layout`), what
  they carry (`Tiling`, `Ends`), that the reader is at a border of two frames or
  behind a header (`AtFrame`), and that a client waits for its answer (`Patient`), without
  which the node's `into_inner()` may drop a part of a frame; `PingEnds` says what ends
  the reading. No length is fixed: the
  assumptions say that a header and a checksum fit into a frame, and names too, and
  that they are shorter than a message can be.
- `SessionProofs`: every step of `Session` is one of `Stream` or leaves it alone
  (`ImplementsStream`), so the theorems on streams hold of sessions.
  `UrlsRoundTrip` is about sequences of tokens of any length. The parser finds marks
  with `First`, the least place of a mark; that there is one is the well-foundedness of
  the numbers, the only induction needed. A printed URL is an address, a UUID and
  a name with a password, and a first mark of the text is the first mark of its
  first part that has one (`FindParted`); so the parser gets the parts back
  (`ParsePrinted`) if the name holds no `?` and the password no `&`, and if it got
  anything from a URL, the parts can be said in one (`ParsedIsSayable`). `EntryInv` keeps
  what was found with the URL it was found in. `MessagesRoundTrip` rests on
  `DecodedAgain`, about the operators alone; on `ObjectsInv`, what an object on its
  way may look like; and on `ReceivedInv`: the objects received are those whose last
  frame was read, in order, because the frames read are the first of those written
  (`StreamInv`). Assumed are that tokens are what the code makes of text
  (`UrlAssumption`, `SessionAssumption`: the marks are tokens, no text of a UUID is a
  mark or holds one, URLs, names and passwords are sequences of tokens).

Only model-checked: the liveness properties (`CallsReturn`, `CloseTakesEffect`,
`CloseCompletes`, `ClosedConnEnds`, `OfferAnswered`, `ExaminedInTime`,
`CloseEndsOrStuck`, `FramesDealtWith`, `SilentIsClosed`), since liveness under
fairness is beyond the prover. Every invariant and every safety property that the
passing runs check is proved for all values of the constants.

## What a reader should know of the code

No property is broken by these, or none can say it, but a user may be surprised:

- A message may be torn: frames find their target one by one, so a connection that
  joins or supersedes in the middle of one gets its tail, and a 404 may follow frames
  that were delivered (`room.rs:434`).
- A frame whose write gives up, or is refused, is lost without a word; those after it in
  the channel go out. A receiver must look at the offsets (`Link` may `Lose`).
- A listener that waits at a full channel resets no counter: its peer is
  taken for silent (`room.rs:312`). A pong between the look at the counter and the close
  does not help any more (`room.rs:388-395`).
- The server never looks at the checksum of a frame; only `decode_basic` does. What
  arrives is relayed as it is.
- `add_connection` takes an I/O error within the timeout for a success
  (`node.rs:272,311,485`: only the outer `Result` of `timeout` is matched).
- A name with `?` or a password with `&` cannot be said in a URL; such a room can be
  added, and nobody gets in with the URL printed for it. The other marks do no harm.
- `create_validate` returns an address without a port as it is (`validate.rs:202-205`), while its
  comment (`:16-17`) shows 9147 added.
- A response with state 65736 is read as 200 (`message.rs:300`).
- A room that is added while the node closes may be put into the map behind `close`: it
  is dropped or left open, and a client that is handed to it is still connected when
  `close` returns (`node.rs:118-143`; the process exits next).
- A removal that finds the record unlinked by another one is answered ok although nothing
  is persisted yet; should that persist fail, the room is back after a crash
  (`db.rs:80-85`).
- The listener knows no `Ping`: a client that sends one loses its connection
  (`room.rs:273-291`).
- The node takes the UUID from behind the last slash, which may be one of `fernq://`
  (`validate.rs:270`): a URL without a path is let in.
- A control request is what one `read` of 4096 bytes returns (`main.rs:155`): in two
  pieces, or longer, it is refused as invalid JSON.

## Not modelled

- *The layout of a frame's fields, checksum, UTF-8, JSON text*: pure functions on bytes
  with no state; `Stream` has their lengths, `Message` what the fields mean.
  `validate.rs:218` slices one byte behind a bracket, which panics within a longer
  character; URLs here are tokens.
- *A client that does not wait for its answer* loses what the node has read beyond
  its first frame (`node.rs:336`); `StreamIntact` is about one that does.
- *Time*: every timeout may fire at any moment, every tick may come at once. That a
  peer has six intervals of 60 s to answer cannot be said.
- *Control client*: a sequential program of one request; a removal it gave up on, and one
  it asked for again, are in `Registry`. *Configuration, logging,
  installation*: no behaviour to check.
- *The closing of a room* as seen by frames: `Dispatch` and `Heartbeat` are about an open
  room; that their tasks end with it is in `Room`.
- *The database's internals, memory growth.*

Left to do: an abstract specification of `Registry` (what an answer promises over
crashes); `FrameSink` as the connection of a room by `INSTANCE`.
