# A verification project for the OmniPaxos key-value store

The repository is a replicated key-value store in Rust (`src/src/`): three servers
that order commands with the `omnipaxos` crate and keep a map in memory, and one
client process per server that offers `POST /put` and `GET /get/:key` over HTTP.
A Jepsen harness kills servers, partitions them and restarts them. This directory
holds TLA+ models of that code, TLC runs of them, and proofs checked by TLAPS.

## 1. The system

### Components

| Component | Source | State | Operations |
|---|---|---|---|
| OmniPaxosServer | `server/server.rs` | `current_decided_idx`, `snapshot_decided_idx`, `entries_since_snapshot`, config | `new` (recover), `run`, `establish_initial_leader`, `handle_decided_entries`, `handle_client_messages`, `handle_cluster_messages`, `append_to_log`, start signals |
| Database | `server/database.rs` | the map; the snapshot file | `handle_command`, `save_snapshot`, `recover` |
| Replicated log | `omnipaxos` crate (not in the repository) | log, ballots, decided index (RocksDB) | `append`, `handle_incoming`, `get_decided_idx`, `read_decided_suffix`, `tick`, `try_become_leader` |
| Server network | `server/network.rs` | peer connections, client connections, `max_client_id` | `initialize_connections`, `apply_connection`, listener, peer connectors, `send_to_cluster`, `send_to_client` |
| HTTP shim | `client/shim.rs`, `client/main.rs` | one handler per request; an mpsc channel of 100 | `http_put`, `http_get` |
| Client task | `client/test_client.rs` | `next_request_id`, `pending_puts`, `pending_gets` | `run` (a `select!` of three branches), `wait_for_start_signal`, `fail_all_pending`, `reconnect_loop` |
| Client network | `client/network.rs` | the slot of the server connection, its reader and writer tasks | `initialize_connections`, `reconnect`, `send`, `is_connected` |
| Client statistics | `client/data_collection.rs` | `request_data` | `new_request`, `new_response` |
| Messages and log snapshots | `common.rs` | -- | message types, `KVSnapshot::create` and `merge`, framing |
| Configuration | `*/configs.rs` | -- | read once at start |
| Unused client | `client/client.rs`, `client/api.rs` | -- | not compiled into a binary |
| Jepsen harness, scripts | `jepsen-test-client/`, `build_scripts/` | -- | fault injection, deployment |

### How they interact

An HTTP handler puts its request with a `oneshot` sender into the mpsc channel. The
client task numbers it (`next_request_id`), sends `Append(id, cmd)` over TCP and keeps
the sender under that number. The server's reader task passes it, tagged with the
client id of the connection, to the server's main loop, which proposes a `Command`
(client id, coordinator, request id, command). OmniPaxos messages travel between the
servers; when one raises the decided index, `handle_decided_entries` applies the new
entries in order. The coordinator of an entry sends the reply to the entry's client
id; the client task looks the request id up and completes the `oneshot`. Each batch
ends with a snapshot of the map, labelled with the log index, when
`SNAPSHOT_INTERVAL` entries have been applied. A restarted server loads the snapshot,
replays the decided log from index 0 and skips what the snapshot covers.

Clients wait for a start signal, which the leader sends to all servers and every
server passes on to the client ids `1..num_clients`.

### What is hard

- A server can be killed between the reply to a command and its snapshot, so
  entries are applied and replied to again, and the snapshot, the in-memory indices
  and the log index on disk disagree after a restart.
- Client ids are unique within one server process and request ids within one client
  process, while commands that carry both outlive either in the log.
- Connections die without the sender's knowledge; what was queued is lost.
- The client task, the HTTP timeout, the connection and the server race.
- Startup is a protocol of its own: election, start signals, late connections. A
  restarted server goes through it again, against a cluster that works.
- Peer connections are made by connector and listener tasks, used by reader and writer
  tasks and replaced by the main loop; each end learns of a loss at its own time, and
  an end that sends nothing never does.

### What makes each component correct

- *Server and database*: the map and the file are replays of a log prefix; replies
  are those the log determines, none is swallowed, none out of order; recovery is
  bounded; all servers together are one linearizable map.
- *Client*: a reply reaches the caller of its own command; errors mean what callers
  take them to mean; requests run at most once; lost connections are replaced.
- *KVSnapshot*: snapshots and merges equal replay.
- *Startup*: every server gets into its main loop, every client that was there in time
  is started, and no start signal misses a server.
- *Server network*: within one connection messages are neither reordered nor skipped; a
  connection that is up loses nothing; a lost one is made again, once; both ends agree
  on it.

Every hazard is listed with its line in `PROJECT.json`.

## 2. The modules

| Module | What it is |
|---|---|
| `KVCommands` | commands, the map, `handle_command` and replies, used by the modules below |
| `OmniPaxosLog` | external: the log interface the server uses |
| `KVServer` | servers, databases and snapshot files over that log |
| `AtomicKV` | abstract: one map on which each command takes effect once |
| `KVSnapshot` | `KVSnapshot::create` and `merge` against replay |
| `ShimClient` | a client process, its connection and the server it sees |
| `CallerContract` | abstract: what a caller of the HTTP interface may conclude |
| `PeerLink` | the tasks behind the peer connections of two servers |
| `ClusterLinks` | abstract: what those connections promise to the servers' loops |
| `OmniPaxosLeader` | external: ballots and leaders as the server sees them |
| `Startup` | Network::new, `establish_initial_leader` and `run` up to the start of the clients, composed of `ClusterLinks` and `OmniPaxosLeader` |
| `MCKVServer`, `MCShimClient` | instances for TLC |
| `KVServerProofs`, `KVSnapshotProofs`, `ShimClientProofs`, `PeerLinkProofs`, `ClusterLinksProofs`, `StartupProofs` | theorems about the module of that name, with the refinement of the abstract module it implements |
| `ProofBasics` | lemmas about queues and induction that these share |

Operators whose comment says *mutant* are deliberately wrong versions of the
definition that follows them. They appear in no specification; `PROJECT.json`
says which property catches which.

### KVServer and the code

`pc[s]` says where the server's task is: `"select"` is the `select!` of `run`,
`"apply"` the loop of `handle_decided_entries`, `"down"` a killed process. The loop
is one action per entry (`SkipEntry`, `ApplyEntry`) with the snapshot at its end
(`NoSave`, `SaveSnapshot`, `SaveSnapshotFails`), because a kill (`Crash`) can fall
between any two of them. `HandleClusterMessage` is `handle_incoming` together with
the head of `handle_decided_entries`. `Recover` and `StartFresh` are `new()` for the
results of `Database::recover`; `StartFresh` also covers a snapshot that cannot be
read (`DiskErrors`). `rename` makes the file change atomic, so a half-written
snapshot is never the file; the temporary file is not modelled. `responses`,
`answered`, `state_after` and `replies` are history: `responses` is every reply ever
passed to `send_to_client`, `answered` those that a client's connection took.
`send_to_client` drops a reply whose client has no connection or one whose writer has
ended (`network.rs:291`), as it does for all that a restarted coordinator replays before
its clients are back. Which connections there are is not modelled here, so it may drop
any. What is said of replies is therefore said of `responses`; that a reply reaches a
client that is connected is a property of `ShimClient`.

Left out: the start protocol (see `Startup`), and election ticks (the log module
chooses freely).

`OmniPaxosLog` assumes of the crate that servers agree on one log, that each durably
knows a prefix as decided, and that an appended command may be lost or be chosen at
any later time, once. A message may raise the decided index by any amount. No entry
is trimmed: the server never asks for it.

`AtomicKV` promises linearizability with answers that may be lost. The refinement
maps the map to the replay of the whole chosen log, so a command takes effect when
it is chosen, not when some server applies it.

### ShimClient and the code

The server is KVServer reduced to what one client sees: proposals, the chosen log,
`current_decided_idx`, the index of the snapshot, `max_client_id`. A batch is one
action, and a batch whose snapshot is not written (`save = FALSE`) stands for an I/O
error and for a kill before the rename.

`task` is where the client task is: `"connect"` and `"register"` are the two waits of
`get_server_connection` (in `Client::new`, or in `reconnect`), `"start"` is
`wait_for_start_signal`, `"run"` the `select!`. `conn` is the slot with what is behind
it: `"dead"` is a connection whose other end is gone while the slot is full, `"closed"`
one whose writer task has ended, so that the next send fails and empties the slot. When
a connection dies, requests on their way are lost and any prefix of the messages
survives. `PeriodicCheck` is enabled only with both queues empty: the sleep starts anew
in every turn of the `select!`. It may then fire at once, where the code takes two idle
seconds, and it need not fire if something keeps coming (see Fairness). Capacities other
than the shim's channel are not modelled. Each element of `Caller` is one HTTP request,
which its caller makes again, any number of times, after an error that says it was not
sent (`Refused`); so requests can keep coming while the server is away. After any other
error it is not made again, which bounds the log. `MessagesAfter` drops the replies to
clients that are not in `client_connections` when the loop comes to the entry.

`CallerContract` knows requests, executions and outcomes only. The refinement reads
`executed` off the log and an outcome off a handler's response: a reply is `"replied"`
with the execution it reports, "server disconnected" and a closed channel are
`"failed"`, a timeout, a lost connection and a dropped sender are `"unknown"`. A request
whose caller gave up may be executed at any later time, one that has failed never, unless
its caller makes it again.
The refinement, like the routing of replies, holds until both processes were
restarted; then replies can be misrouted (finding 2).

### PeerLink and the code

Two servers suffice, as connections between different pairs share nothing but the order
of `connection_source`. A TCP connection is named by its number. `stage[e][c]` says
where end `e` has it: in the listener's handshake task, on its way to the main loop, in
`peer_connections`, there with a writer task that has ended, or nowhere. The channel to
the main loop is FIFO, the handshake tasks that fill it are not. `connector` is the
task of `spawn_peer_connectors` at the server with the higher id; while it waits, the
sender of its signal sits in the connection it made, and it is woken when
`send_to_cluster` fails and empties the slot (`SendFails`).

`broken` is the TCP connection, `reading` the reader tasks not aborted; a failed send
drops the handle of the reader task without aborting it. Of what was written to a
broken connection any prefix can still be read, so loss needs no action: a reader that
stops. The writer takes up to `BATCH` messages at once, and `Fed` finds the first that
exceeds the largest frame, at which the rest of the batch is lost. Only messages the
properties look at are queued; heartbeats show in `WriterFails`, which needs no queued
message.

`ClusterLinks` keeps, of each end, whether its slot is empty, holds a connection that is
up or holds one that is broken, whether a live connection waits to be applied, and how many broken
ones do. The mapping computes these from `stage`, `broken` and `registered`. A broken
connection that waits is kept apart because applying it replaces, and closes, a live one.

### Startup and the code

`pc[s]` is the loop the server's task is in: `"connect"` (`Network::new`, until the
first peer), `"establish"` (`establish_initial_leader`), `"run"`, or `"down"`. `signal`
has the start signals on their way, `client[s]` the client process of `s`. The
connections are those of `ClusterLinks`, whose actions the actions of `Startup` extend
with what the loops do: `ApplyPeer` is `apply_connection` with the start signals that
follow it in the recovery branches, `NoticeLoss` a failed send, `Kill` a process with
all its ends. `EstablishStale` (a connection that breaks during its handshake) counts as
a break. When a connection ends, any of the start signals on it may be lost: in a break, a
kill, or when `ApplyPeer` replaces a connection that still works.

`OmniPaxosLeader` keeps the highest ballot each server has promised and what it does
with one of its own. `get_current_leader` names the server of the ballot, whatever that
does, and its second component is the Accept phase. `try_become_leader`, called every
second, outbids what is known in one step. A leader needs a majority that it reaches
(`GetPromoted`); `Elect` is the election timeout at a server in `run` that reaches a
majority but no working leader.

There are three initial states: `Init` starts all processes, `InitRunning` is the
cluster that this leads to, and `StartOrRunningSpec` has both. `EarlyKills = FALSE`
keeps kills back until every server is in `run` and no connection is being made
(`Settled`).

### KVSnapshot and the code

The loop of `create` (`AddCommands`) and the replay (`Replays`) are recursive functions of
the number of commands done. `Decide` extends a log, `Compact` merges the delta of the entries so far into the
snapshot, as the crate would. The properties range over every base snapshot.

## 3. The runs

| Run | Shows | Bounds |
|---|---|---|
| `server_safety` | prefix, reply and snapshot invariants; refinement of `AtomicKV` | 2 servers, put + get + delete on one key, interval 1, disk errors, 2 kills |
| `server_liveness` | the same recovery with an interval of 2, the bound on replay; the replies to chosen commands are given to `send_to_client`, servers converge | put + get + delete, a disk that works, 2 kills |
| `snapshot_create_merge` | create is replay; merge is, but for put-then-delete keys | 2 keys, 2 values, deltas of up to 3 commands |
| `snapshot_merge_bug` | **violation**: merge keeps a deleted key | same |
| `client_safety` | replies reach their own callers unless both sides restarted; errors keep their meaning, at most once; refinement of `CallerContract` | 3 requests, channel of 1, client ids 1 and 2, 1 kill, 1 dropped connection, 1 client restart |
| `client_liveness` | after a failed send, unless requests keep coming: reconnect and fail what is pending; a connected caller is answered | 2 requests, channel of 1, client ids 1 and 2, 1 kill, 1 drop, 1 client restart |
| `client_misroute` | **violation**: a replayed reply reaches the wrong caller | 2 requests, 1 kill, 1 client restart |
| `peer_messages` | order and loss of messages within connections | 3 messages, batches of 2, 3 connections, 1 break, 1 kill |
| `peer_liveness` | the connector's signal comes, the link is restored; refinement of `ClusterLinks` | 7 connections, 2 breaks, 1 kill |
| `startup` | no start signal misses a server, all get into `run`, early clients start | 3 servers, 1 client, 1 kill, 1 election if the cluster worked before |
| `startup_faults` | the same signals, and the ends of a connection, under faults at any point | 2 servers, 2 clients, 2 kills, 2 breaks, 1 client restart |
| `startup_killed_leader` | **violation**: an early kill of the initial leader blocks the start | 2 servers, 1 kill |

Why the bounds suffice: two servers are a coordinator and a server that only follows;
the log interface hides quorums. Three commands are the least with a write, a read
that depends on it and a delete, and give batches that straddle a snapshot. Two kills
allow a kill during the replay that followed a kill. Three client requests are the
least that reach a reconnection with work outstanding: one proposed, one swallowed by
the dead connection, one that fails. The shim's channel holds 100 in the code; a
channel of 1 fills with few requests. A restarted client is given the next client id,
and a server sends start signals to ids up to `num_clients` only; with the shipped value
of 1, a client restarted alone never starts, and the half of `OneRestarts` in which only
the client was restarted would not happen. `NUM_CLIENTS = 2` lets it start, so that old
and new requests meet in both halves. The theorems of section 4 need no bounds.

Three messages are two in a batch and one behind or before it. Every break or kill ends
one connection, and may take a handshake and an early replacement with it: seven
connections are enough for two breaks and a kill, so that `LinkIsRestored` does not fail at
the bound (four, for one break and one kill, are too few). Three servers are the least whose
majority can do without one; of two, each needs the other, which allows more faults in
the same number of states. `startup_faults` starts with the higher id as the leader, which
is the end that connects; with the other leader it passes as well. `startup` allows one kill, of a settled cluster, and no
election while a cold start goes on: with more, `EstablishEnds` fails as
`StartupLeaderChange.cfg` and `startup_killed_leader` show.

Fairness. `KVServer!Fairness`: a running server finishes its handler (a Tokio task is
scheduled), a killed one is started again (the kill and recovery tests do so), and
OmniPaxos messages keep arriving (the leader's heartbeats and retries). Nothing is
assumed about proposals being chosen or about kills, which a bound limits.
`ShimClient!Fairness`: each branch of a `select!` that stays ready is taken (Tokio
picks at random), servers are restarted, and handshakes go on. No start signal is
assumed, no request and no choice. `TimedSpec` adds that handlers time out; the hang
is shown with it. The periodic check has only weak fairness and is not enabled while a
request waits in the channel: a client that is called more often than every two seconds
starves it. The code does that, and with callers who repeat refused requests so does the
model (`ShimClientStarved.cfg`). `ReconnectsWhenQuiet` and `LostRequestsFailWhenQuiet`
claim no more than the code gives: the promise is kept or requests fail for ever.

`PeerLink!Fairness`: tasks run, killed servers are started again, and the writer of an
end in `Ticking` writes, as it does in `run`, where election ticks send heartbeats; the
liveness run assumes it of the connector's end only, the listener's end may be silent. Faults are
bounded, so they end. `Startup!Fairness`: connections are made and applied, signals and the
crate's messages arrive while their connection is up, leadership that can be had is
had. `NoticeLoss` is fair only where something is surely sent: in `run`, and at the
initial leader, which tries to lead; not at a follower in `establish_initial_leader`.
`CrashSpec` leaves out the restart.

Deadlock checking is off: when every request is answered and no fault is left, the
models may stop, as the system idles.

### Findings

1. `KVSnapshot::create` drops a Delete that follows a Put in the same delta
   (`common.rs:86`). Latent: no binary uses log snapshots.
2. After a client and its server were both restarted, a reply can answer another
   request (`server/network.rs:80`): both id counters start again, the log does not.
   With request ids that the new process has not given out, the client panics
   instead.
3. If the initial leader is killed before its start signal has arrived, the cluster
   never starts (`server.rs:161`): the others send nothing, do not notice, do not connect
   again, and the restarted leader waits for them in `Network::new`.

### Disagreements

These configurations are not among the runs of `PROJECT.json`; each ends in a
counterexample within about a minute (`tlc -config <cfg> <module>`) and shows that a comment or
the report promises more than the code does.

| Configuration | What it shows |
|---|---|
| `ShimClientIdle.cfg`, `ShimClient` | An idle client does not notice a lost connection (`test_client.rs:107`), whatever the two-second check is said to do. |
| `ShimClientStarved.cfg`, `ShimClient` | Requests less than two seconds apart restart the sleep (`test_client.rs:106`) each time: the client never reconnects, each of them fails, and what was pending on the lost connection waits for its own timeout (`report.md:147` says that the polling fails all pending requests immediately, `test_client.rs:118` that it prevents hanging). |
| `ShimClientPanic.cfg`, `ShimClient` | `reconnect_loop` can panic (`client/network.rs:89`) instead of trying again, when the server is killed between accept and registration. |
| `ShimClientHang.cfg`, `ShimClient` | A client whose server is killed before the start signal hangs (`test_client.rs:153`), and so do handlers once the channel is full (`shim.rs:30`). So does a client that gets an id above `num_clients`: `SendStartSignal` is not enabled for it. |
| `StartupLateClient.cfg`, `Startup` | A client that is connected after its server got its start signal is not started (`network.rs:59` says that startup waits for clients). `EarlyClientStarts` is what remains. |
| `StartupUnpromoted.cfg`, `Startup` | The recovery branch signals the start when `get_current_leader` names the server, though it may still be in the Prepare phase (`server.rs:149` says otherwise). |
| `StartupBrokenRejoin.cfg`, `Startup` | A connection of a rejoining server that breaks before its start signal is not made again, as long as no client of that server sends anything. |
| `StartupLeaderChange.cfg`, `Startup` | A leader elected while a server rejoins has its connection already and never signals it: the server stays in `establish_initial_leader`, without election ticks, until a connection is made anew (`report.md:172` says that it participates normally). |
| `StartupTakeover.cfg`, `Startup` | The restarted initial leader outbids the leader elected meanwhile (`report.md:176` says that it steps down). |

## 4. The proofs

`KVServerProofs` proves, for any set of servers, commands, keys and values, any
`SNAPSHOT_INTERVAL`, any number of kills, with or without disk errors:

| Theorem | States |
|---|---|
| `TypeCorrect` | `Spec => [](TypeOK /\ IndexInv)` |
| `ReplayBounded` | `Spec => []ReplayIsBounded` |
| `StateIsLogPrefix` | `Spec => [](DatabaseIsLogPrefix /\ SnapshotIsLogPrefix)` |
| `RepliesCorrect` | `Spec => [](RepliesMatchLog /\ NoReplySwallowed /\ RepliesInLogOrder)` |
| `SnapshotMonotone` | `Spec => SnapshotNeverRegresses` |
| `Linearizable` | `Spec => ImplementsAtomicKV` |

Assumptions: `ServerAssumption` (the interval and bound are naturals, commands name a
server and a command), `NoSnapshotAssumption` and `NoValueAssumption` (the sentinels
are no values). What the model assumes of the crate is in `OmniPaxosLog`.

The argument goes in four layers. `IndexInv` orders the counters: entries passed by the
loop, `current_decided_idx`, the decided index on disk, the length of the log, with a
killed server's memory at its initial values. `CountersInv` says that on a disk that
works `entries_since_snapshot + new_entries_applied` is exactly what the loop has passed
and the snapshot lacks, and that inside what the snapshot holds both are 0;
`ReplayIsBounded` is not inductive without it, as the counters restart at 0. `StateInv`
says what data the counters stand for; the properties alone are not inductive, because a
restarted server's map is ahead of its loop: `Applied(s)`, the greater of the two, is
what the map equals the replay of, and a snapshot written at the end of a batch is right
only because the loop has then reached `current_decided_idx`. `SnapshotNeverRegresses`
follows from the same fact, as a server that skips entries writes only after passing its
snapshot. `ReplyInv` adds that the reply to every passed entry of a coordinator was given
to `send_to_client`, that snapshots cover only such entries, and that those since the start are below
`entry_idx` and increase. The refinement maps `Choose` to `Execute`,
`HandleClientMessage` to `Issue`, `ApplyEntry` at the coordinator to `Answer`, or to a
stutter when the reply is dropped, and the rest to stuttering; a second answer after a restart maps to `Answer` of the same
element, by `RepliesMatchLog`.

`ShimClientProofs` proves, for any set of callers, any capacity of the channel, any number
of kills, drops and client restarts (`ShimAssumption`: the capacity is positive):

| Theorem | States |
|---|---|
| `TypeCorrect` | `Spec => []TypeOK` |
| `DisconnectedIsDefinite` | `Spec => []DisconnectedMeansNotDone` |
| `ExecutedAtMostOnce` | `Spec => []AtMostOnce` |
| `RepliesReachTheirCallers` | `Spec => []AnswerIsOwnIfOneRestarts` |
| `RoutesAreUnique` | `Spec => []UniqueRoute` |
| `RepliesNeverPanic` | `Spec => []NoPanicOnReply` |
| `KeepsCallerContract` | `Spec => ImplementsCallerContract` |

Two layers. `SafeInv` holds whatever is restarted: a request is queued, on its way or
proposed, in one of these places and once; one that failed is in none; the log holds
proposed commands, each once. None of its parts is inductive alone: that a request is
not numbered twice needs that the queue does not hold what is on its way. `RestartInv`
is about ids and holds while only one of the two processes was restarted. If the client
was not, its request ids never repeat; if the server was not, a restarted client has a
higher client id than every command of the process before it. Either way (`RouteInv`) an
id of the running client process names one caller, and a reply not yet received
(`MessageInv`) finds no request pending but that of its log entry. For the contract,
each action is a step of `CallerContract` or stutters; that an answer is reported with
an execution of the caller's own request is where `RestartInv` is needed.

`PeerLinkProofs` proves, for any batch size and any number of connections, messages,
breaks and kills between the two ends:

| Theorem | States |
|---|---|
| `TypeCorrect` | `Spec => []TypeOK` |
| `CloseSignalIsNeverLost` | `Spec => []CloseSignalWillCome` |
| `SessionsAreOrdered` | `Spec => []SessionOrder` |
| `OnlyBrokenConnectionsLose` | `Spec => []LossEndsSession` |
| `LinksImplemented` | `Spec => ImplementsClusterLinks` |

`ConnInv` says where a connection can be: on the way to the main loop or in its one
slot, once; the connector waits exactly as long as its main loop has or will get the
connection it made; an unbroken connection has its listener's task or is with the
listener's main loop. `CloseSignalWillCome` needs the middle part. `MessageInv` follows
each message from its sender's queue to the wire to the other end: what the writer has
taken is a prefix of what was sent (`OutgoingInv`), what is on the wire was taken and is
in order, before it is only what has arrived (`WireInv`, `AcceptedInv`), and of a
connection still in its slot no message is in none of these places unless it is behind
one that is too big (`NoLossInv`, `NoGapInv`). The refinement reads, end by end, the
entry of the slot and the connections that wait; `SendHandshake` maps to `Establish` or
`EstablishStale`, by whether the connection has broken by then, `IdentifyFails` to
`Forget`, a broken connection that is applied to `ApplyStale`, and steps of the readers
and writers to stuttering.

Of the connections as `Startup` uses them, and of the start signals, for any finite set
of positive node ids (`StartupAssumption`; finite, as the highest ballot must exist) and
any number of kills, breaks and client restarts:

| Theorem | States |
|---|---|
| `ClusterLinksProofs!LinksAgree` | `LinkSpec => [](LinkTypeOK /\ LinkConsistent)` |
| `StartupProofs!StartupLinksAgree` | `Spec \/ StartOrRunningSpec \/ CrashSpec => []LinkConsistent` |
| `StartupProofs!StartupTypeCorrect` | `Spec \/ StartOrRunningSpec \/ CrashSpec => []TypeOK` |
| `StartupProofs!StartupLeavesNoneBehind` | `Spec \/ (MaxElections = 0 /\ (StartOrRunningSpec \/ CrashSpec)) => []NoFollowerLeftBehind` |

`LinkConsistent` is inductive once the types are known; its third conjunct (nobody has a
live connection and is offered another) is what `Establish` needs, whose guard looks at
one end only. That `Startup` keeps it takes no more, as its actions are built from those
of `ClusterLinks`. `NoFollowerLeftBehind` needs to know who leads: `FollowerInv` adds
that every ballot is the initial leader's, that this server is in `run` only as the
accepted leader, that all start signals are from it to others, and that no server has a
connection to itself. Without elections by ticks this is inductive. With them the
property is false in general (`StartupLeaderChange.cfg` is such a behaviour: a leader
elected later signals nobody); that it survives one kill and one election of a cluster
that works is checked by TLC only, in `startup`.

`KVSnapshotProofs` proves, for any keys, values and lengths of a delta:

| Theorem | States |
|---|---|
| `TypeCorrect` | `Spec => []TypeOK` |
| `CreateReplays` | `Spec => []CreateIsReplay` |
| `MergeReplaysOthers` | `Spec => []MergeIsReplayForOthers` |
| `NoWriteLost` | `Spec => []NoWriteIsLost` |

The loop of `create` and the replay are followed key by key, command by command: what
the loop has done to a key is related to what the replay has (`CreateKey`, `KeptKey`,
`FollowedKey`), and `merge` is then a case analysis. For `MergeReplaysOthers` the first
and last write of the key, which `PutThenDeleted` compares, divide the loop in three.
The induction theorems of the library take an operator and cannot be instantiated here,
so `ProofBasics` states induction over a set of numbers (`SetInduction`,
`IntervalInduction`), derived from the well-foundedness of `<`, and `LoopExists` shows
that a recursive function that a loop defines exists.

Only model-checked: all liveness properties (`WF_` is beyond the prover);
`NoFollowerLeftBehind` once ticks elect; that the properties named as violations fail.
The reduction of the server inside `ShimClient`, and the external modules, are
assumptions of the models.

## 5. Plan

Done: all modules of section 2; every invariant and action property of the passing runs
is a theorem, and so are the refinements of `AtomicKV`, `CallerContract` and
`ClusterLinks`. To do, in this order:

1. `KVServer` and `ShimClient` are composed only through the reduced server of the
   latter; a module with the full server behind several clients would show that the reduction
   is right.
2. `NoFollowerLeftBehind` with elections: the weakest condition on who may be elected
   under which the start signals still reach every server.

Not modelled and why: configuration (read once), the benchmark client (not compiled),
CSV output and framing (pure I/O), the harness and scripts (tests and deployment).
