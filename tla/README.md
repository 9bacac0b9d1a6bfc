# A TLA+ model of sharding-p2p-poc

The program is a node of a sharded peer-to-peer network, written in Go on top of
libp2p. A host process (a beacon or shard client) drives the node by gRPC, and
the node calls back to the host to have messages judged. Each shard is one
pubsub topic; a node joins the topics of its shards, tells everybody on a global
topic which shards it is in, and finds peers of a shard in the table it builds
from these announcements.

Paths below are relative to `src/`. Modules, configurations and `PROJECT.json`
(map of definitions to lines, runs, hazards, theorems) are in this directory.

## 1. Inventory

| Component | State | Operations | Talks to |
|---|---|---|---|
| Bit vector `ListeningShards` (`shardpreftable.go`) | a slice of `numShards/8+1` bytes | `setShard`, `unsetShard`, `isShardSet`, `getShards`, `fromSlice`, `toBytes`, `fromBytes` | used by the preference table and on the wire |
| Preference table `ShardPrefTable` (`shardpreftable.go`) | peer -> pointer to a bit vector, behind an RWMutex | add, remove, set, look up | written by `Advertise` and by the handler of announcements |
| Discovery `GlobalTable` (`discovery.go`) | none of its own | `Advertise`, `FindPeers` | table, pubsub |
| `ShardManager` (`shardmanager.go`) | `subs`: topic -> subscription, behind a mutex | `ListenShard`, `UnlistenShard`, subscribing, validators, broadcasting, `connectShardNodes` | table, pubsub, event notifier, libp2p host |
| Event notifier (`eventrpc.go`) | a gRPC client connection | `Receive` | the host process |
| Requests (`requests.go`) | streams | `requestShardPeer`, `generalRequest` and their handlers | table, event notifier |
| Bootstrapping (`node.go`, `bootstrap.go`) | `doBootstrapping`, `cancelBootstrapping`, no lock | start, stop, `bootstrapConnect` | libp2p host, DHT |
| RPC server (`rpcserver.go`) | the gRPC server | one handler per RPC, each call in its own goroutine | everything above |
| Process (`main.go`, `runRPCServer`) | start-up, signal goroutine | `runServer`, `makeNode`, `StopServer` | |
| Command line client (`cli.go`, `main.go`) | one process per command | `runClient`, the `do*` and `call*` functions; exit status 0 or 1 | the RPC server |
| `utils.go`, `pb/`, tracing, deployment and test scripts | none | | not modelled, see section 7 |

What is hard in it, and what makes a component correct:

* **Concurrent calls.** gRPC runs every call in a goroutine of its own. A
  `ListenShard` changes the table, `subs` and pubsub one after the other with no
  lock across them, and parts of the table are read and written outside its own
  lock. Correct means: the three places agree about a shard whenever no call is
  working on it; no pointer or handle is nil when it is used; calls return.
* **The node hears itself.** Its own announcements come back some time later and
  are stored over its own entry. They must not undo later changes.
* **Announcements** are sent once, when something changes, without a sequence
  number; links come and go; pubsub may lose and reorder. Correct means: the
  table says only what was once true, and is right about a peer that is heard.
* **Validators** outlive the call that made them, are registered once per topic
  and never removed, and depend on a host process that can be away. Correct
  means: only judged messages pass, and valid ones do pass.
* **Unguarded fields** in bootstrapping, and a WaitGroup with a channel that must
  be exactly large enough.
* **Unchecked input**: bytes from the wire, negative shard ids and addresses reach code
  that panics, and a panic ends the whole process. Correct means: the rest notices.
* **Streams** that break at any point, with one side that never closes.
* **Start and stop**: a stop can come before the server serves, and stops overlap.
* **Scripts of clients** go by exit status and by what is printed, while other
  clients change the node and the server may be starting, stopping, killed or
  panicking. Correct means: what they are told is true, and they are told
  something, although no call has a deadline.

The list of hazards, each at its line and with the properties aimed at it, is
`hazards` in `PROJECT.json`. Nothing is persisted, so there is no crash recovery:
a node that restarts is a new node.

## 2. Modules

| Module | Models | Extends / uses |
|---|---|---|
| `ShardSet` | abstract: sets of shards that several values may share | |
| `ListeningShards` | the bytes, the slices that hold them, Go's division, byte conversion and shifts | implements `ShardSet` (`INSTANCE ... WITH`) |
| `Membership` | abstract: what the callers of `SubscribeShard` and `UnsubscribeShard` can see | |
| `ShardNode` | one node: table entry, `subs`, pubsub handles, concurrent RPC calls | a slice is the set of its shards and is shared by reference, which `ListeningShards` justifies for ids that are not negative; implements `Membership` where calls keep apart |
| `PrefGossip` | several nodes: announcements, tables, `FindPeers`, `DiscoverShard` | |
| `Collation` | one shard's topic on several nodes: subscribing, validating, broadcasting | |
| `ShardConnect` | `connectShardNodes` in a changing network | |
| `Bootstrap` | `StartBootstrapping`, `StopBootstrapping`, `bootstrapConnect` | |
| `Requests` | both request protocols, both sides of the stream | |
| `Lifecycle` | start-up, life of an RPC, signals, `StopServer`, exit | |
| `Session` | command line clients and the handlers they reach | extends `Lifecycle`; the node is `Membership` (`INSTANCE ... WITH`) |
| `MC*` | definitions TLC needs to run a module | extend it |
| `*_proofs` | theorems about a module | extend it and `TLAPS` |

Definitions whose comment starts with `(mutant)` are faulty versions of the
definition that follows. No specification uses them; they show that a property
notices the fault.

### How the models correspond to the code

**ListeningShards.** A byte is the set of its 1 bits. `Quo`, `Rem`, `ToByte` and
`Mask` are Go's `/`, `%`, `byte()` and `1 <<` on a byte. `Rejected` stands for the
two error returns of `setShard` and `unsetShard`. A value `o` refers to the slice
`ref[o]`, whose bytes are `mem[ref[o]]`: `fromBytes(toBytes())` inside a process
(`FromBytes`) makes two values share a slice, as when a node hears itself, and only
what comes over the network is a copy (`Receive`). Bytes of other programs
(`ReceiveForeign`) are taken as they are, as in the code, and `foreign` remembers which
slices hold them. `isShardSet` indexes without a check: `Lookup` is the lookup that
panics.

**ShardNode.** `pc[c]` is the next step of RPC goroutine `c`. A step is what
happens between two points at which another goroutine can be seen: a critical
section that is held briefly is one step, a memory access outside every lock is
one step, and the `|=` on a byte is a read (`SetRead`, `UnsetRead`) and a write
(`SetWrite`, `UnsetWrite`). `Check`, `Fetch`, ..., `GetPref`, `Publish` are the
lines of `ListenShard`/`UnlistenShard`, `Advertise`, `AddPeerListeningShard` and
`RemovePeerListeningShard` in their order; `Subscribe` to `DeleteSub` are
`SubscribeTopic` and `UnsubscribeTopic`. `heap` holds the slices, `table` and `ptr`
point into it, because announcements carry the slice itself (`toBytes` does not
copy): `Echo` stores the *shared* slice when the node hears itself. `Locked` is
the table's write lock, held from `UnsetRead` to `UnsetWrite`. `EchoDropped` and
the failing variants are pubsub's. `connectShardNodes`, which `ListenShard` calls
between `Advertise` and subscribing, touches none of this state and is in
`ShardConnect`.

**Membership.** A call handles each shard of its request once: it passes over one
that is already as wanted or does not exist (`PassOver`), else the list changes
(`List`) and the subscription follows (`Follow`), or pubsub fails and it does not
(`Abandon`). `ImplementsMembership` maps a
node to it: `listed` is the node's own table entry, `subscribed` the keys of `subs`,
`todo` the request with the shard whose place in the list has not changed yet,
`late` the one whose subscription has still to follow.

**PrefGossip.** `pending` counts announcements handed to pubsub but not
serialised; `Serialise` reads the preference at that moment, since the slice is
shared. `Handle` replaces the author's entry, in any order, because pubsub runs
the validators of a topic concurrently. `Lose`, `AddPeer`, `RemovePeer` are the
network. A node in `Steady` waits with a change until the last one was heard and
its publishing does not fail; a link in `Fixed` stays; `Sure(n, m)` is both. The
run and the theorems put no such condition on the other nodes and links. A node in
`Foreign` runs another program and announces any set of shards (`PublishForeign`):
`fromBytes` does not check. To the receivers an RPC `Send` to the topic `listeningShard`
looks the same; that it also replaces the sender's own entry is left out, and so are
bytes of the wrong length, which are in `ListeningShards`.

**Collation.** `validator[n]` is the state of the context captured by the first
validator of the topic: `Return` cancels it, as gRPC does, except on nodes in
`LongContext`, which stand for callers that keep the context (the repository's
tests). `Receive` is `rpcEventNotifier.Receive`; on `Flaky` nodes it, and
`Subscribe`, can fail, and so can a publish (`PublishFails`). `CheckSubscribed` and
`PublishCollation` are the two halves of `broadcastCollationMessage`, in the loop of a
`BroadcastCollation` call; `Calls` are the calls that gRPC runs concurrently, `At(c)` the
node of each. Each message is published at most once. The history variable `joined`
records that a subscription has once been completed, `racing` the calls that were past
their check when their node left, and `late` how many collations each has sent since.

**ShardConnect.** `mapConnectedPIDs`, `pinfos` and `difCount` are the code's
variables; `DropPeer` is one round of the loop around `rand.Intn`; `Launch` and the
`Dial*` actions are the goroutines. With `Changing`, peers move, links break and
dials fail while the call runs.

**Bootstrap.** One step per access to `doBootstrapping` or `cancelBootstrapping`;
`errs` is the number of errors in the channel, which has `Room`, a place for each peer.
`ConvertPeersFails` is what the RPC does before with addresses that are not a peer's:
an error, or the panic of `ma.StringCast`. After a panic, here or of a nil function
in `Cancel`, nothing more happens (`Dead`).

**Requests.** One stream per request; `up` and `down` are messages on their way.
`FullClose`, `AwaitEOF` and `EOFTimeout` are libp2p's `FullClose` as the handlers
use it. `SendRequest` includes the dropped error of `Flush`. A handler in `ask` waits
for its host side, which may answer, refuse or stay silent. `ReadRequestPanics` is the
lookup of an id below -7 (the requests in `Wild`) at a node whose table is not empty:
the answering process ends, and with it every handler and stream.

**Lifecycle.** `main` walks through `runServer`; `Signal` offers a signal to the
unbuffered channel and drops it unless the goroutine receives at that moment.
`call[c]` is the state of a caller's RPC; `Stop` cuts every call under way.

**Session.** A command line is a sequence of strings; `Number` says which strings are
numbers (`strconv.Atoi`), `PeerIDs` which are peer ids. `runClient` is true of the
lines whose command is known and whose arguments the `do*` functions accept; any
other ends the process with status 1 before a call (`Launch`), except `version`.
`Call`, `NoServer`, `Receive` and `Disconnected` are the shape all `call*` functions
share; the map names the first half of these functions at `Call` and the second at
`Receive`. Of the handlers, `SubscribeShard` (also for unsubscribing) takes the steps of
`Membership`, the failures it swallows included (`HandleShard`; `halfway` holds the shards
that pubsub has let down), `GetSubscribedShard` reads one bit per step under the table's read lock
(which keeps out `unsetShard` but not `setShard`), and `BroadcastCollation` publishes
one collation per step if the shard is subscribed at that moment and pubsub takes it.
`MayPanic` lists what makes a handler panic: a negative collation size, an id below -7
to look up, an address that does not parse, overlapping stops of bootstrapping. `Look` stands for
the handlers that only read, `Connect` for those whose effect is in `PrefGossip` and
`Bootstrap`. `ever` and `always` record what a call asks about at some moment and at
every moment of the call.

## 3. Runs

`tlc -config X.cfg M` for the configuration and module of each run.

| Run | Asks | Distinct states |
|---|---|---|
| `bits_boundary` | Do the bytes behave as sets of shards, shared where slices are, keep the spare bits clear and survive `getShards`/`fromSlice`, and when does a lookup panic? | 5,440 |
| `node_contended` | Two calls race for one shard on a fresh node, pubsub may fail: are pointers and handles still sound? | 494 k |
| `node_isolated` | Two calls with shards in different bytes: do table, `subs` and pubsub agree, are echoes harmless, do calls return, and do they look like those of `Membership` from outside? | 36 k |
| `boot_serial` | One call after the other, three bootnodes: are the fields right, has the channel room, is it safe to close, is failure counted right, do calls return? | 210 |
| `gossip_mixed` | Steady, unsteady and foreign nodes, a link that stays and one that does not: is discovery right about the steady one, and no table ever wrong about the past of a node of this program? | 431 k |
| `collation_mixed` | A node with a lasting context and one that subscribes by RPC and whose host fails: do only judged messages pass, do valid ones arrive, and do two concurrent batches stop when their node leaves? | 734 k |
| `connect_changing` | Does `connectShardNodes` aim at the right number, never panic and return, whatever changes meanwhile? | 481 k |
| `requests_unreliable` | Both protocols over streams that break, to a node that can panic: does success mean an answer, are streams released, and does everything end that does not wait for a silent host? | 2,488 |
| `session_scripts` | Two scripts of commands against one server that starts, is signalled, stopped or panics and whose pubsub fails: do exit status and output tell the truth, does every client end, do `StopServer` and a received signal end the process? | 130 k |

Three runs expect a violation; each shows that what the repository says of the
program is not what the code does (`findings` in `PROJECT.json` quotes the lines):

* `node_same_shard` (only `SubscribeShard` is called): two `ListenShard` calls for one
  shard both pass the check,
  and `Advertise` *toggles*, so the second removes what the first added; both
  subscribe, and one handle is lost. `ShardAgreement` fails.
* `boot_two_starts`: a second `StartBootstrapping` passes the check of the flag before
  the first has set it. The first is done and is stopped; between the stop's call of
  the cancel function and its two assignments the second starts another DHT routine
  and sets the flag. The stop takes the flag down again, the second start stores its
  cancel function last, and no later stop gets past the flag: `StopStops` fails.
* `collation_rpc`: the validator made by the RPC `SubscribeShard` keeps that call's
  context, which is cancelled when the call returns; from then on valid messages
  are rejected. `ValidPasses` fails. The repository's test passes because its
  context lives as long as the test.

### Bounds, and why they are enough

* `bits_boundary`: 9 shards, so two bytes of which the second is partly spare. Ids 7, 8
  and the refused 9 are at the boundaries; -1 sets nothing, -8 falls into byte 255 and
  -2048, past the width of a byte, into byte 0. Two values are the fewest that share a
  slice. Foreign bytes are too short, or too long with a spare bit raised.
* `ShardNode`: two clients are the smallest race; 10 shards give two bytes.
  `MaxInflight` = 1 announcement per slice leaves it arbitrarily late, which is
  what matters for echoes. The handles in `SubIDs` bound how many subscriptions
  are alive: `SubscribeShard` starts only while every call under way can get one,
  so that the bound never blocks a call in its middle. Handles are symmetric in
  the run without liveness. Requests in `node_contended` include a batch and a
  refused id.
* `Bootstrap`: three peers allow none, some and all to fail; two contexts are one
  more than a serial caller can have.
* `PrefGossip`: two shards; two changes of the steady node (on and off again) and
  two of the unsteady one, so that announcements overtake each other; the third node, of
  another program, announces anything once over the link that comes and goes.
* `Collation`: one valid and one invalid message, two calls at one node with batches of
  up to two: the fewest that can be late together.
* `ShardConnect`: three peers, two wanted, one unreachable: too many, just enough
  and too few candidates all occur, in every initial state of links and table.
* `Requests`: one request of each protocol; streams interact only by the panic that ends all.
* `Session`: two scripts whose shards are in different bytes. One subscribes (naming an
  id that is none too) and leaves; the other subscribes, reads, broadcasts batches of
  one (of negative size) and two into the shard of the first, looks up -8, starts
  bootstrapping with an address that does not parse and may stop the server. Each
  runs its lines in any order and for ever, and publishing may fail. The smallest
  script for every interleaving of a scan or a batch with a change of the shard it is
  at. One signal; at most `MaxStops` = 2 calls of `StopServer` wait, so that one can cut off
  the other's answer; nobody starts a client at a server that is stopping, which only
  `NoServer` would see. Every check of an argument has a line that fails it. Callers
  that share a byte, or subscribe to negative ids, are excluded (`LinesAssumption`): with
  them the toggling that `node_same_shard` shows would make status 0 meaningless. That
  the node is `Membership` then is `SeparateMembership` (section 4), which asks moreover
  that the node's own entry is in the table before two callers subscribe at once.

### Fairness

* `ShardNode`: goroutines that can run do run (weak fairness). Go's RWMutex starves
  nobody and blocked channel senders are served in turn, so lock steps, `Publish`
  and the consumer of the topic get strong fairness. Nobody has to make a call.
* `Bootstrap`, `ShardConnect`: goroutines run, and a dial ends, because `Connect`
  has a timeout.
* `PrefGossip`: a call under way goes on, and pubsub serialises and then handles or
  loses what it was given. Changes and links need not happen.
* `Collation`: pubsub validates what it has received.
* `Requests`: both sides run and `FullClose` times out. Nothing is assumed of the
  host: the call to it has no deadline, so `CallsReturn` and `HandlersEnd` except a
  handler that waits for it, and `BrokenReturns` says that a broken stream frees the
  caller even then.
* `Session`: processes and goroutines run and the sleep in `StopServer` ends. Handlers
  get strong fairness, because one may wait for the table's lock while another reads,
  and the RWMutex starves nobody. Nobody has to call, and no signal has to come.

`CHECK_DEADLOCK FALSE` is set for `Requests` (all requests made) and `Session` (the
server has ended), where stopping is the normal end, and for `ListeningShards` and
`boot_serial`, where a panic ends the process.

## 4. What is proved

All theorems hold for every value of the constants that satisfies the named
assumptions of the module, and are checked by `tlapm`.

* **ListeningShards_proofs.** For up to 2048 shards, the most a byte can index, any ids,
  any foreign bytes and any sharing of slices: `TypeCorrect`, `LookupsStayInside` (the
  panics are those of `PanicsExplained`) and the refinement `BitsImplementShardSet`, in which
  an operation on a value changes the set of its slice, for all values that share
  it. `SpareBitsStayClear` needs `NoSpareByte`: `numShards` is not a multiple of 8, as the
  code's 100 is not, or no id is below -7; else such an id can be wrapped around
  into the byte without shards. The invariants are inductive as they stand. The
  lemmas say that different shards have different (byte, bit) pairs, so that a step
  on one bit adds or removes exactly one shard. Under `NoSpareByte` too, `ListCarriesAll` states
  `RoundTrip`: `fromSlice` of `getShards` is the value it came from. `fromSlice` is a fold
  over a set; `FoldIsUnique` is proved by taking a smallest counterexample among the
  subsets of a finite set (`WFMin` with the strict-subset ordering of
  `FiniteSetTheorems`), which needs no induction theorem with an operator parameter.
* **ShardNode_proofs**, for any number of shards, clients, requests and handles, by
  the conditions they need:
  - *None; any race, any failure.* `TypeCorrect`, `PointersAreSound` (inductive
    together, `TypeInv`) and `NoDanglingHandles`. The last needs `HandleInv`: a handle
    that is not stored yet is known only to its subscriber, is stored for one shard,
    and whoever cancels it works on that shard.
  - *`OneEntry`: the node has a table entry, or there is one client; any race, any
    failure.* `OneEntryEcho`, and `OneEntryOwner`: a shard that is alone in its byte
    (`Lone`: one client at most asks for shards kept there) enters or leaves the list
    by a write of the client working on it. Both from `MemInv`: clients work on their
    own shards, all pointers and announcements lead to one slice, what is about to be
    written back is one byte, and that byte is still current if it belongs to a lone
    shard. `Keeps` says what a step leaves to the other clients and lone shards.
  - *`OneEntry`, and announcements get published.* `LocalAgreement` and `LocalListen`,
    about lone shards, while the other bytes are raced for and subscribing may fail.
    From `LocalInv`: the shard of a client is where its `pc` says (`Phase`), and one
    nobody works on is settled; `Agree` alone is not inductive, as it says nothing of a
    shard in the middle of a call. `LocalInv` needs `HandleInv` as well: a client that
    has lost a race elsewhere must not cancel a handle of this shard.
    `"publish"` is excluded for a reason, see section 5.
  - *`OneEntry`; any failure.* `LocalMembership`: restricted to the ids that are one
    client's own (`OwnIDs`: lone shards and refused ids) the node refines `Membership`,
    and a client working on a shared byte is not seen to do anything (`AwayMaps`). A
    failed publish or subscribe is `Abandon`. The mapping needs `Once` too: the shard
    being handled is off the list of the ones to come.
  - *`Separate`: `OneEntry`, and no two clients share a byte; any failure.* Then every
    shard is lone, and `SeparateMembership`, which states the refinement the run
    `node_isolated` checks and on which `Session` rests, follows.
  - *`Isolated`: moreover nothing fails.* `IsolatedAgreement` and `IsolatedListen`, the other
    properties of that run, follow from `LocalAgreement` and `LocalListen`.
* **Bootstrap_proofs.** For any number of overlapping callers, and with panics:
  `TypeCorrect`, `ChannelHasRoom`, `ChannelIsSafe`, `CountIsRight`, from `ConnectInv`: the errors in
  the channel are exactly those of goroutines that failed and are done, so that a
  goroutine about to send is not among them and finds a place.
  For one caller (`Serial`): `SerialFields` and `SerialStopStops` (what `boot_two_starts` shows
  to fail when starts overlap), from `FieldInv`, which says at each step of a call how far
  the fields have got.
* **PrefGossip_proofs.** `TypeCorrect` with its bound on what is under way, from
  `SentInv`, which counts the change about to be announced too. `NoRumoursEver`, from
  the fact that everything on the wire of a node that is not in `Foreign` has been a
  preference of its author. `SteadyDiscovery`, for any other nodes and links, from
  `SteadyInv`: a steady node changes only when it is drained, so what is on the wire
  is the preference in force, and settled entries are exact.
* **Collation_proofs.** `TypeCorrect`. `ListenersJudge`, from `JudgeInv`: whoever
  listens, or has completed a subscription once, has a validator. `LeaversStop`, for any
  number of concurrent calls, from `SendInv`: a call at a node in `subs` has sent nothing
  late, one about to publish at a node that has left was past its check when it left
  (`racing`), and one that has sent a collation late has to check before the next.
* **ShardConnect_proofs.** For any peers and any number wanted: `TypeCorrect`,
  `NeverPanicsEver` and `AimIsRight`, from `ConnectInv` with `ListInv`: the list holds
  candidates only, `difCount` of them too many, and none was dropped unless there were
  enough. It needs that the set of peers is finite.
* **Requests_proofs.** `TypeCorrect`, `AnswersAreReal`, `StreamsAreReleased`, from
  `StreamInv`, which says how far the two sides of a stream can be apart, also when the
  answering process panics.
* **Session_proofs.** For any callers, lines, shards and signals: `TypeCorrect`;
  `RepliesAreTrue`, from `ReplyInv` (the history brackets what the node says now; what
  a scan has passed over was not there all along; a batch that is no longer whole
  has met the shard subscribed); `ExitZeroIsDone`, with failures and
  several subscribing callers, from `ExitInv` (list and subscriptions differ only in the
  middle of a call's shard and in `halfway` while the server is up, what a call has
  dealt with is in place, callers' shards are their own, and calls that are cut are
  only cut by `Stop`). Both steps rest on `StepCases`, which reduces `Next` to what it can do to
  the calls under way.

**Only model-checked:** all liveness (`CallsReturn`, `CallReturns`, `Converges`,
`ReachesSubscribers`, `HandlersEnd`, `BrokenReturns`, `CliExits`, `StopServerStops`,
`CaughtStops`), which is out of the prover's reach. Every invariant and every action
property of a passing run, and both refinements, are theorems. The types of
`ListeningShards`, `Bootstrap`, `Collation`, `ShardConnect` and `Requests` are
theorems only.

## 5. Limits of the code met while modelling

The properties above are stated where the code keeps them. Outside, by the
models' own actions:

* Ids below zero pass `shardIDToBitIndex` (`shardpreftable.go:23`). From -1 to -7 `setShard`
  returns no error and sets nothing, so `ListenShard` announces nothing new and still
  subscribes. An id below -7 is wrapped around into a byte index: mostly past the end,
  where `setShard` refuses it but `isShardSet` panics (`shardpreftable.go:68`) and takes
  the process down, from `DiscoverShard` as from a peer's `requestShardPeer`
  (`PanicsExplained`); but some, the first of them -1952, come back onto a legal shard,
  which is then set or unset under the wrong id.
* `fromBytes` checks nothing (`shardpreftable.go:89`). What another program announces of
  itself is believed, and after an announcement that is too short the next
  `getShards` or `isShardSet` on the entry panics.
* `ma.StringCast` panics on a bootnode address of the RPC `Bootstrap` that is no
  multiaddress (`bootstrap.go:17`).
* Concurrent first calls on a node without a table entry each make a slice, and
  concurrent calls for shards of one byte overwrite each other's bit: a subscribed
  shard is then not listed (`shardpreftable.go:134-136`).
* After a failed publish or subscribe the shard stays in the table, and a retry
  returns success without subscribing (`shardmanager.go:174`). This is why
  `LocalAgreement` promises a subscription of a listed shard only where subscribing
  cannot fail.
* After an unlisten whose publish failed, the shard is off the list and its
  subscription is still there; the next listen subscribes once more and overwrites the
  handle in `subs`, which nobody can cancel any more (`shardmanager.go:265`).
* Two overlapping `StopBootstrapping`, or a stop between the two assignments of a
  start, call a nil function (`node.go:86`).
* Announcements of a node that changes faster than it is heard can be handled in
  the wrong order, and a peer that connects later is told nothing; the entry stays
  stale until the next change (`shardmanager.go:314`, `discovery.go:51`).
* Between joining a topic and registering its validator, messages pass unjudged
  (`shardmanager.go:268`). That happens only before a node's first subscription is
  complete, since validators are never removed: `OnlyJudged` speaks of the time
  after.
* A collation can be published after the node left the shard, since the check and
  the publish are two steps (`shardmanager.go:466`): one for each call that is between
  them at that moment (`LateOncePerCall`), and gRPC runs any number of calls at once.
* Errors of single shards are swallowed by `SubscribeShard` and `UnsubscribeShard`
  (`rpcserver.go:185`). When pubsub fails, the client's status is 0 all the same, and
  so is that of a retry, which passes over the shard because it is listed. The list
  does what was asked even then; `ExitZeroHolds` excepts these shards (`halfway`) from
  what it says of the subscriptions.
* A negative collation size makes the server panic (`rpcserver.go:279`), whatever the
  shard (`HandlerPanics`).
* `connectShardNodes` does not replace an unreachable candidate by one it had
  dropped (`shardmanager.go:128`).
* A signal between `signal.Notify` and the goroutine's receive is dropped
  (`rpcserver.go:544`).
* Requests wait for the host without a deadline (`requests.go:173`): while it is
  silent only a broken stream frees the caller.

## 6. Order of work

The modules were written in this order, the most important behaviour first:
`ListeningShards`, `ShardNode`, `Bootstrap`, `PrefGossip`, `Collation`, `ShardConnect`,
`Requests`, `Lifecycle`, then `Membership` with its refinement and `Session` on top
of it, each with its runs and proofs.

What could follow:

1. Composition of `ShardNode`'s calls with `Collation`: the same call that changes
   table and `subs` registers the validator, so that `OnlyJudged` and
   `ShardAgreement` speak of one run of the node.
2. The peer-information request (`requestShardPeer`) joined with `PrefGossip`: what
   an answer says about the answering node's table.
3. The RPC `Send` to the topic `listeningShard`, with which a host replaces its own
   node's entry: joined with `ShardNode`, whose `Echo` it would make harmful.

## 7. Not modelled

* `utils.go`: peer ids to strings and back, topic names, a hash nobody calls. They are
  pure string conversions; the topic of a shard is modelled by the shard, a peer id
  by whether it decodes.
* Generated `pb/`, tracing, logging, deployment and test scripts: no state or control
  of their own.
* The wording of what the client prints, and its flags apart from `-client`.
* The inside of libp2p, gossipsub, the DHT and gRPC. What the code relies on is
  modelled where it is used and marked external in the map. Gossip is one hop
  between linked nodes; relaying over several hops is left out.
