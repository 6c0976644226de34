------------------------------ MODULE ShimClient ------------------------------
(***************************************************************************)
(* A client process: the HTTP shim (shim.rs), the client task behind it    *)
(* (test_client.rs) and its connection (client/network.rs) to the one      *)
(* server it is configured with (server/network.rs, server.rs).  Both      *)
(* processes can be killed and started again, and the connection can break.*)
(*                                                                         *)
(* The server is reduced to what its client sees of KVServer: it proposes  *)
(* what it receives, answers decided entries in log order to the client id *)
(* they carry, and after a kill goes on from its last snapshot.            *)
(***************************************************************************)
EXTENDS Naturals, Sequences, FiniteSets

CONSTANTS Caller,        \* the HTTP requests
          Putters,       \* those that are a POST /put; the others GET a key
          CHANNEL,       \* capacity of the mpsc channel from shim to client task
          NUM_CLIENTS,   \* local.num_clients of the server's configuration
          MaxCrashes,    \* bound: kills of the server
          MaxDrops,      \* bound: connections that break by themselves
          MaxRestarts    \* bound: restarts of the client process

ASSUME ShimAssumption == /\ Putters \subseteq Caller
                         /\ CHANNEL \in Nat \ {0}
                         /\ {NUM_CLIENTS, MaxCrashes, MaxDrops, MaxRestarts} \subseteq Nat

VARIABLES
    \* shim.rs: the HTTP handlers
    http,             \* http[k]: "idle", "sending" (into the channel), "waiting", "answered"
    response,         \* response[k]: what the handler returned
    http_rx,          \* the channel to the client task
    \* test_client.rs: the client task
    task,             \* "connect", "register", "start", "run", "panicked"
    started,          \* wait_for_start_signal has returned
    next_request_id,
    pending_puts, pending_gets,  \* sets of [id, caller]
    \* client/network.rs: the connection to the server
    conn,             \* see ConnState
    to_server,        \* requests on their way
    server_messages,  \* messages on their way or received
    \* server/network.rs, server.rs
    server_up,
    max_client_id,
    client_id,        \* the id this connection got
    applied_conn,     \* apply_connection was called for this connection
    proposed, log,    \* the commands given to append, the chosen ones
    current_decided_idx,
    saved,            \* decided_idx of the snapshot file
    crashes, drops, restarts

shimVars == <<http, response>>
taskVars == <<task, started, next_request_id, pending_puts, pending_gets>>
connVars == <<conn, to_server, server_messages, client_id, applied_conn>>
serverVars == <<server_up, max_client_id, current_decided_idx, saved>>
logVars == <<proposed, log>>
bounds == <<crashes, drops, restarts>>
vars == <<shimVars, http_rx, taskVars, connVars, serverVars, logVars, bounds>>

\* The slot of server_connections, and what is behind it: None; a TCP connection
\* that is not registered yet; a registered one; one whose other end is gone,
\* which the client cannot see; one whose writer task has ended.
ConnState == {"none", "tcp", "up", "dead", "closed"}

\* A reply names the log entry it answers, for the properties only.
Error == {"timeout", "disconnected", "lost", "unavailable", "dropped", "reset"}
Response == [type : {"none", "reply"} \cup Error, entry : Nat]
NoResponse == [type |-> "none", entry |-> 0]
ErrorResponse(e) == [type |-> e, entry |-> 0]

Request == [id : Nat, caller : Caller]
LogCommand == [client_id : Nat, id : Nat, caller : Caller]
ServerMessage == [type : {"Write", "Read"}, id : Nat, entry : Nat]
                 \cup [type : {"StartSignal"}]

TypeOK == /\ http \in [Caller -> {"idle", "sending", "waiting", "answered"}]
          /\ response \in [Caller -> Response]
          /\ http_rx \in Seq(Caller) /\ Len(http_rx) <= CHANNEL
          /\ task \in {"connect", "register", "start", "run", "panicked"}
          /\ started \in BOOLEAN
          /\ next_request_id \in Nat
          /\ pending_puts \subseteq Request /\ pending_gets \subseteq Request
          /\ conn \in ConnState
          /\ to_server \in Seq(Request)
          /\ server_messages \in Seq(ServerMessage)
          /\ server_up \in BOOLEAN /\ applied_conn \in BOOLEAN
          /\ {max_client_id, client_id, current_decided_idx, saved} \subseteq Nat
          /\ proposed \subseteq LogCommand /\ log \in Seq(LogCommand)
          /\ {crashes, drops, restarts} \subseteq Nat

Init == /\ http = [k \in Caller |-> "idle"]
        /\ response = [k \in Caller |-> NoResponse]
        /\ http_rx = <<>>
        /\ task = "connect" /\ started = FALSE
        /\ next_request_id = 0
        /\ pending_puts = {} /\ pending_gets = {}
        /\ conn = "none" /\ to_server = <<>> /\ server_messages = <<>>
        /\ server_up = TRUE /\ max_client_id = 0
        /\ client_id = 0 /\ applied_conn = FALSE
        /\ proposed = {} /\ log = <<>>
        /\ current_decided_idx = 0 /\ saved = 0
        /\ crashes = 0 /\ drops = 0 /\ restarts = 0

-------------------------------------------------------------------------------
(* The HTTP handlers *)

\* axum serves once Client::new has connected.
Serving == started \/ task = "start"

\* A request that certainly never reached a server leaves nothing behind, and its caller
\* makes it again, any number of times.  (Bound: the others are not made again.)
Refused(k) == http[k] = "answered" /\ response[k].type \in {"disconnected", "unavailable"}

HttpRequest(k) ==
    /\ Serving
    /\ http[k] = "idle" \/ Refused(k)
    /\ http' = [http EXCEPT ![k] = "sending"]
    /\ response' = [response EXCEPT ![k] = NoResponse]
    /\ UNCHANGED <<http_rx, taskVars, connVars, serverVars, logVars, bounds>>

\* Mutant of HasRoom: an unbounded channel.
HasRoomAlways == TRUE
HasRoom == Len(http_rx) < CHANNEL

\* tx.send(..).await: it waits while the channel is full.
HttpSend(k) ==
    /\ http[k] = "sending"
    /\ task # "panicked"
    /\ HasRoom
    /\ http' = [http EXCEPT ![k] = "waiting"]
    /\ http_rx' = Append(http_rx, k)
    /\ UNCHANGED <<response, taskVars, connVars, serverVars, logVars, bounds>>

HttpUnavailable(k) ==
    /\ http[k] = "sending"
    /\ task = "panicked"
    /\ http' = [http EXCEPT ![k] = "answered"]
    /\ response' = [response EXCEPT ![k] = ErrorResponse("unavailable")]
    /\ UNCHANGED <<http_rx, taskVars, connVars, serverVars, logVars, bounds>>

\* REQUEST_TIMEOUT: the request stays where it is, in the channel or pending.
HttpTimeout(k) ==
    /\ http[k] = "waiting"
    /\ http' = [http EXCEPT ![k] = "answered"]
    /\ response' = [response EXCEPT ![k] = ErrorResponse("timeout")]
    /\ UNCHANGED <<http_rx, taskVars, connVars, serverVars, logVars, bounds>>

\* The callers in ks get the response r, unless they timed out.
Respond(ks, r) ==
    /\ http' = [k \in Caller |-> IF k \in ks /\ http[k] = "waiting"
                                 THEN "answered" ELSE http[k]]
    /\ response' = [k \in Caller |-> IF k \in ks /\ http[k] = "waiting"
                                     THEN r ELSE response[k]]

-------------------------------------------------------------------------------
(* The client task *)

pending == pending_puts \cup pending_gets
CallersOf(requests) == { r.caller : r \in requests }

\* HashMap::insert replaces the request of the same id.
Insert(requests, r) == { q \in requests : q.id # r.id } \cup {r}

AddPending(r) ==
    IF r.caller \in Putters
    THEN pending_puts' = Insert(pending_puts, r) /\ UNCHANGED pending_gets
    ELSE pending_gets' = Insert(pending_gets, r) /\ UNCHANGED pending_puts

\* network.send fails only when the slot is empty or the writer task has ended.
\* What is written to a dead connection is lost, and may end the writer task.
SendOk == conn \in {"up", "dead"}

Send(r) == \/ /\ conn = "up"
              /\ to_server' = Append(to_server, r)
              /\ UNCHANGED conn
           \/ /\ conn = "dead"
              /\ conn' \in {"dead", "closed"}
              /\ UNCHANGED to_server

\* The number of the next request, and the key of this one in the pending map: it
\* is read before the send.  Mutants: the number stays; the key is read after.
NextRequestIdStays == next_request_id
NextRequestId == next_request_id + 1
PendingKeyAfterSend == next_request_id + 1
PendingKey == next_request_id

\* The first select branch of run, when send_request_manual succeeds ...
HandleHttp ==
    /\ task = "run"
    /\ http_rx # <<>>
    /\ SendOk
    /\ http_rx' = Tail(http_rx)
    /\ Send([id |-> next_request_id, caller |-> Head(http_rx)])
    /\ AddPending([id |-> PendingKey, caller |-> Head(http_rx)])
    /\ next_request_id' = NextRequestId
    /\ UNCHANGED <<shimVars, task, started, server_messages, client_id,
                   applied_conn, serverVars, logVars, bounds>>

\* ... and when it fails: the slot is emptied and the caller told at once.
HandleHttpFails ==
    /\ task = "run"
    /\ http_rx # <<>>
    /\ conn \in {"closed", "none"}
    /\ http_rx' = Tail(http_rx)
    /\ Respond({Head(http_rx)}, ErrorResponse("disconnected"))
    /\ conn' = "none"
    /\ UNCHANGED <<taskVars, to_server, server_messages, client_id, applied_conn,
                   serverVars, logVars, bounds>>

\* The second branch: StartSignals are ignored ...
IgnoreStartSignal ==
    /\ task = "run"
    /\ server_messages # <<>>
    /\ Head(server_messages).type = "StartSignal"
    /\ server_messages' = Tail(server_messages)
    /\ UNCHANGED <<shimVars, http_rx, taskVars, conn, to_server, client_id,
                   applied_conn, serverVars, logVars, bounds>>

\* ... a Write answers a pending put, a Read a pending get, if there is one of
\* its id.  new_response then indexes request_data with the id.
HandleReply ==
    /\ task = "run"
    /\ server_messages # <<>>
    /\ LET m == Head(server_messages)
           Answered(requests, type) ==
               IF m.type = type THEN { r \in requests : r.id = m.id } ELSE {}
           puts == Answered(pending_puts, "Write")
           gets == Answered(pending_gets, "Read")
       IN /\ m.type # "StartSignal"
          /\ m.id < next_request_id
          /\ pending_puts' = pending_puts \ puts
          /\ pending_gets' = pending_gets \ gets
          /\ Respond(CallersOf(puts \cup gets),
                     [type |-> "reply", entry |-> m.entry])
    /\ server_messages' = Tail(server_messages)
    /\ UNCHANGED <<http_rx, task, started, next_request_id, conn, to_server,
                   client_id, applied_conn, serverVars, logVars, bounds>>

\* The index is out of bounds: the task panics, and with it go the receiver of
\* the channel and every oneshot sender.  (No pending request has such an id; the
\* tasks of the connection drain what they hold.)
HandleReplyPanics ==
    /\ task = "run"
    /\ server_messages # <<>>
    /\ Head(server_messages).type # "StartSignal"
    /\ Head(server_messages).id >= next_request_id
    /\ task' = "panicked"
    /\ server_messages' = Tail(server_messages)
    /\ Respond(Caller, ErrorResponse("dropped"))
    /\ http_rx' = <<>>
    /\ pending_puts' = {} /\ pending_gets' = {}
    /\ UNCHANGED <<started, next_request_id, conn, to_server, client_id,
                   applied_conn, serverVars, logVars, bounds>>

\* Mutants of fail_all_pending: it forgets the gets; it reports the error of a
\* request that was never sent; it retries the requests instead.
fail_all_pendingPuts == /\ Respond(CallersOf(pending_puts), ErrorResponse("lost"))
                        /\ pending_puts' = {} /\ UNCHANGED <<pending_gets, http_rx>>
fail_all_pendingDisconnected ==
    /\ Respond(CallersOf(pending), ErrorResponse("disconnected"))
    /\ pending_puts' = {} /\ pending_gets' = {}
    /\ UNCHANGED http_rx
fail_all_pendingRetries ==
    /\ \E q \in [1..Cardinality(pending) -> CallersOf(pending)] :
          {q[i] : i \in DOMAIN q} = CallersOf(pending) /\ http_rx' = q
    /\ pending_puts' = {} /\ pending_gets' = {}
    /\ UNCHANGED shimVars

fail_all_pending == /\ Respond(CallersOf(pending), ErrorResponse("lost"))
                    /\ pending_puts' = {} /\ pending_gets' = {}
                    /\ UNCHANGED http_rx

\* Mutants of reconnect_loop: it returns at once; it numbers requests from 0 again.
reconnect_loopReturns == UNCHANGED <<task, next_request_id>>
reconnect_loopNewIds == task' = "connect" /\ next_request_id' = 0

\* The task is in reconnect_loop until Connect and Register have succeeded.
reconnect_loop == task' = "connect" /\ UNCHANGED next_request_id

\* The third branch.  Its sleep begins anew in every turn of the loop, so it fires only
\* when no other branch was taken for two seconds.  Time is not modelled: it may fire
\* when both queues are empty, and must only if they stay so (see Fairness).
PeriodicCheck ==
    /\ task = "run"
    /\ http_rx = <<>> /\ server_messages = <<>>
    /\ conn = "none"
    /\ fail_all_pending
    /\ reconnect_loop
    /\ UNCHANGED <<started, connVars, serverVars, logVars, bounds>>

\* wait_for_start_signal discards everything else.
WaitForStartSignal ==
    /\ task = "start"
    /\ server_messages # <<>>
    /\ server_messages' = Tail(server_messages)
    /\ IF Head(server_messages).type = "StartSignal"
       THEN task' = "run" /\ started' = TRUE
       ELSE UNCHANGED <<task, started>>
    /\ UNCHANGED <<shimVars, http_rx, next_request_id, pending_puts, pending_gets,
                   conn, to_server, client_id, applied_conn, serverVars, logVars,
                   bounds>>

-------------------------------------------------------------------------------
(* The connection *)

\* get_server_connection, called by Client::new and by reconnect.
Connect ==
    /\ task = "connect"
    /\ server_up
    /\ task' = "register"
    /\ conn' = "tcp"
    /\ UNCHANGED <<shimVars, http_rx, started, next_request_id, pending_puts,
                   pending_gets, to_server, server_messages, client_id,
                   applied_conn, serverVars, logVars, bounds>>

Connected == IF started THEN "run" ELSE "start"

\* The registration arrives and the server's listener hands out a client id.
Register ==
    /\ task = "register"
    /\ conn = "tcp"
    /\ task' = Connected
    /\ conn' = "up"
    /\ max_client_id' = max_client_id + 1
    /\ client_id' = max_client_id + 1
    /\ applied_conn' = FALSE
    /\ UNCHANGED <<shimVars, http_rx, started, next_request_id, pending_puts,
                   pending_gets, to_server, server_messages, server_up,
                   current_decided_idx, saved, logVars, bounds>>

\* The other end is gone already: the write still succeeds ...
RegisterUnheard ==
    /\ task = "register"
    /\ conn = "dead"
    /\ task' = Connected
    /\ UNCHANGED <<shimVars, http_rx, started, next_request_id, pending_puts,
                   pending_gets, connVars, serverVars, logVars, bounds>>

\* ... or fails, and expect("Couldn't send registration to server") panics: in
\* Client::new the process ends, in reconnect only the client task.
RegisterPanics ==
    /\ task = "register"
    /\ conn = "dead"
    /\ task' = "panicked"
    /\ conn' = "none"
    /\ Respond(Caller, ErrorResponse("dropped"))
    /\ http_rx' = <<>>
    /\ pending_puts' = {} /\ pending_gets' = {}
    /\ UNCHANGED <<started, next_request_id, to_server, server_messages,
                   client_id, applied_conn, serverVars, logVars, bounds>>

\* The connection is gone: requests on their way are lost, and the messages the
\* reader task had not received yet.
Die == /\ conn' = IF conn \in {"tcp", "up"} THEN "dead" ELSE conn
       /\ to_server' = <<>>
       /\ applied_conn' = FALSE
       /\ UNCHANGED client_id
       /\ IF conn = "up"
          THEN \E n \in 0..Len(server_messages) :
                  server_messages' = SubSeq(server_messages, 1, n)
          ELSE UNCHANGED server_messages

ConnectionDrop ==
    /\ drops < MaxDrops
    /\ conn \in {"tcp", "up"}
    /\ drops' = drops + 1
    /\ Die
    /\ UNCHANGED <<shimVars, http_rx, taskVars, serverVars, logVars, crashes, restarts>>

\* The client process is killed and started again.
ClientRestart ==
    /\ restarts < MaxRestarts
    /\ restarts' = restarts + 1
    /\ http' = [k \in Caller |-> IF http[k] = "idle" THEN "idle" ELSE "answered"]
    /\ response' = [k \in Caller |-> IF http[k] \in {"sending", "waiting"}
                                     THEN ErrorResponse("reset") ELSE response[k]]
    /\ http_rx' = <<>>
    /\ task' = "connect" /\ started' = FALSE
    /\ next_request_id' = 0
    /\ pending_puts' = {} /\ pending_gets' = {}
    /\ conn' = "none" /\ to_server' = <<>> /\ server_messages' = <<>>
    /\ applied_conn' = FALSE
    /\ UNCHANGED <<client_id, serverVars, logVars, crashes, drops>>

-------------------------------------------------------------------------------
(* The server *)

\* The main loop takes the new connection off recovery_receiver.  Its reader task
\* has been passing requests on since Register.
ApplyConnection ==
    /\ conn = "up"
    /\ ~ applied_conn
    /\ applied_conn' = TRUE
    /\ UNCHANGED <<shimVars, http_rx, taskVars, conn, to_server, server_messages,
                   client_id, serverVars, logVars, bounds>>

\* send_client_start_signals, on a LeaderStartSignal or as the leader.  It may be
\* called at any time and reaches ids 1..NUM_CLIENTS.  Bound: one signal in the queue.
SendStartSignal ==
    /\ conn = "up" /\ applied_conn
    /\ client_id \in 1..NUM_CLIENTS
    /\ \A i \in 1..Len(server_messages) : server_messages[i].type # "StartSignal"
    /\ server_messages' = Append(server_messages, [type |-> "StartSignal"])
    /\ UNCHANGED <<shimVars, http_rx, taskVars, conn, to_server, client_id,
                   applied_conn, serverVars, logVars, bounds>>

\* handle_client_messages: the command carries the id of its connection.
append_to_log ==
    /\ conn = "up"
    /\ to_server # <<>>
    /\ to_server' = Tail(to_server)
    /\ proposed' = proposed \cup
          {[client_id |-> client_id, id |-> Head(to_server).id,
            caller |-> Head(to_server).caller]}
    /\ UNCHANGED <<shimVars, http_rx, taskVars, conn, server_messages, client_id,
                   applied_conn, serverVars, log, bounds>>

\* The cluster chooses a command, even one whose proposer was killed since.
Choose(c) ==
    /\ c \in proposed
    /\ \A i \in 1..Len(log) : log[i] # c
    /\ log' = Append(log, c)
    /\ UNCHANGED <<shimVars, http_rx, taskVars, connVars, serverVars, proposed, bounds>>

\* The message that answers entry e; its client matches it by the request id alone.
ReplyTo(e) == [type |-> IF log[e].caller \in Putters THEN "Write" ELSE "Read",
               id |-> log[e].id,
               entry |-> e]

\* Mutant of MessagesAfter: the loop stops one entry short.
MessagesAfterShort(d) ==
    LET sent[e \in current_decided_idx..d] ==
            IF e = current_decided_idx THEN server_messages
            ELSE IF log[e].client_id = client_id /\ e < d THEN Append(sent[e-1], ReplyTo(e))
            ELSE sent[e-1]
    IN sent[d]

\* The loop over the entries up to d, with send_to_client: a reply goes out if the
\* client id of its entry is that of a connection the server has applied, else it is
\* lost.
MessagesAfter(d) ==
    LET sent[e \in current_decided_idx..d] ==
            IF e = current_decided_idx THEN server_messages
            ELSE IF log[e].client_id = client_id THEN Append(sent[e-1], ReplyTo(e))
            ELSE sent[e-1]
    IN sent[d]

\* handle_decided_entries; save is FALSE when the snapshot cannot be written or
\* a kill comes first.
HandleDecidedEntries(d, save) ==
    /\ server_up
    /\ d \in current_decided_idx+1..Len(log)
    /\ current_decided_idx' = d
    /\ saved' = IF save THEN d ELSE saved
    /\ server_messages' = IF conn = "up" /\ applied_conn
                          THEN MessagesAfter(d)
                          ELSE server_messages
    /\ UNCHANGED <<shimVars, http_rx, taskVars, conn, to_server, client_id,
                   applied_conn, server_up, max_client_id, logVars, bounds>>

ServerCrash ==
    /\ server_up
    /\ crashes < MaxCrashes
    /\ crashes' = crashes + 1
    /\ server_up' = FALSE
    /\ Die
    /\ UNCHANGED <<shimVars, http_rx, taskVars, max_client_id, current_decided_idx,
                   saved, logVars, drops, restarts>>

\* new(): client ids are handed out from 1 again, and the entries after the
\* snapshot are applied, and answered, once more.
ServerStart ==
    /\ ~ server_up
    /\ server_up' = TRUE
    /\ max_client_id' = 0
    /\ current_decided_idx' = saved
    /\ UNCHANGED <<shimVars, http_rx, taskVars, connVars, saved, logVars, bounds>>

-------------------------------------------------------------------------------
HttpBranch == HandleHttp \/ HandleHttpFails

MessageBranch == \/ IgnoreStartSignal \/ HandleReply \/ HandleReplyPanics
                 \/ WaitForStartSignal

Handshake == Connect \/ Register \/ RegisterUnheard \/ RegisterPanics

ServerStep == ApplyConnection \/ SendStartSignal \/ append_to_log

Decided == \E d \in 1..Len(log) : \E save \in BOOLEAN : HandleDecidedEntries(d, save)

Next == \/ \E k \in Caller : \/ HttpRequest(k) \/ HttpSend(k)
                             \/ HttpUnavailable(k) \/ HttpTimeout(k)
        \/ HttpBranch \/ MessageBranch \/ PeriodicCheck \/ Handshake
        \/ ServerStep \/ Decided
        \/ \E c \in proposed : Choose(c)
        \/ ConnectionDrop \/ ClientRestart \/ ServerCrash \/ ServerStart

Spec == Init /\ [][Next]_vars

\* Both processes make progress (select! picks a ready branch at random) and a
\* killed server is started again.  The periodic check has only weak fairness, and is
\* not enabled while a request is in the channel: requests that keep coming may keep it
\* from firing for ever, as the sleep that each of them restarts does.  Nothing is
\* assumed of the requests, of Choose (a proposal may be lost), of faults, or of start
\* signals (who sends them is another server's affair).
Fairness == /\ \A k \in Caller : WF_vars(HttpSend(k)) /\ WF_vars(HttpUnavailable(k))
            /\ WF_vars(HttpBranch) /\ WF_vars(MessageBranch)
            /\ WF_vars(PeriodicCheck)
            /\ WF_vars(Handshake)
            /\ WF_vars(append_to_log) /\ WF_vars(ApplyConnection)
            /\ WF_vars(Decided)
            /\ WF_vars(ServerStart)

FairSpec == Spec /\ Fairness

\* The same, and a handler that waits for its answer gives up in the end.
TimedSpec == FairSpec /\ \A k \in Caller : WF_vars(HttpTimeout(k))

-------------------------------------------------------------------------------
\* A caller that gets a reply gets the one to its own command, though request
\* ids only say who asks within one client process, client ids only within one
\* server process, and a restarted server answers old entries again.
AnswerIsOwn ==
    \A k \in Caller : response[k].type = "reply" =>
        /\ response[k].entry \in 1..Len(log)
        /\ log[response[k].entry].caller = k

\* That is so for as long as only one of the two processes was restarted, however often.
OneRestarts == crashes = 0 \/ restarts = 0
AnswerIsOwnIfOneRestarts == OneRestarts => AnswerIsOwn

\* Until then, no two decided commands have the same route (client id and request id)
\* back: a new client process has a new client id, a new server process new numbers.
UniqueRoute ==
    OneRestarts => \A i, j \in 1..Len(log) :
        log[i].client_id = log[j].client_id /\ log[i].id = log[j].id => i = j

\* "Error: server disconnected" is definite: the command was not executed, and
\* will not be (no other error says so).
DisconnectedMeansNotDone ==
    \A k \in Caller : response[k].type = "disconnected" =>
        k \notin CallersOf(proposed)

\* A request is executed at most once, whatever is restarted: nobody but its caller
\* retries it, and that after an error which says that it was not sent.
AtMostOnce ==
    \A i, j \in 1..Len(log) : log[i].caller = log[j].caller => i = j

\* What callers may conclude (see CallerContract): a request that was never sent has
\* failed, every other error leaves it open.
OutcomeOf(h, r) ==
    CASE h = "idle" -> [type |-> "idle", entry |-> 0]
      [] h \in {"sending", "waiting"} -> [type |-> "open", entry |-> 0]
      [] OTHER -> [type |-> CASE r.type = "reply" -> "replied"
                              [] r.type \in {"disconnected", "unavailable"} -> "failed"
                              [] OTHER -> "unknown",
                   entry |-> r.entry]
outcome == [k \in Caller |-> OutcomeOf(http[k], response[k])]
executed == [i \in 1..Len(log) |-> log[i].caller]
Contract == INSTANCE CallerContract
ImplementsCallerContract ==
    Contract!ContractInit
        /\ [][~ OneRestarts \/ Contract!ContractNext]_(Contract!contractVars)

\* No reply reaches a client with an id it never gave out, at which new_response
\* would panic, not even one to an entry replayed after a restart of the server.
NoPanicOnReply ==
    OneRestarts => \A i \in 1..Len(server_messages) :
        server_messages[i].type # "StartSignal" => server_messages[i].id < next_request_id

\* Requests come for ever and find no connection.
RequestsKeepFailing == []<><<HandleHttpFails>>_vars

\* Once a send has failed and emptied the slot, the client gets a new connection (dead
\* again, perhaps) unless the reconnection itself panics.
Reconnects ==
    task = "run" /\ conn = "none" ~> conn \in {"up", "dead"} \/ task = "panicked"

\* That is so unless requests keep coming and the periodic check is starved.
ReconnectsWhenQuiet == Reconnects \/ RequestsKeepFailing

\* No caller waits on the old connection for its timeout: once the slot is empty, each
\* pending request gets its answer or an error.
LostRequestsAnswered ==
    \A k \in Caller :
        /\ task = "run" /\ conn = "none"
        /\ k \in CallersOf(pending) /\ http[k] = "waiting"
        ~> http[k] = "answered"

\* With the same exception: requests that keep coming make the pending ones wait.
LostRequestsFailWhenQuiet == LostRequestsAnswered \/ RequestsKeepFailing

\* A caller whose command is chosen, and whose client is in client_connections before
\* its server's loop comes to the entry, is answered while the connection lasts; only a
\* reply to a client that is not there yet, or no more, is dropped by send_to_client.
ConnectedCallerIsAnswered ==
    \A k \in Caller :
        /\ http[k] = "waiting" /\ conn = "up" /\ applied_conn
        /\ \E e \in current_decided_idx+1..Len(log) :
              log[e].caller = k /\ log[e].client_id = client_id
        ~> http[k] = "answered" \/ conn # "up"

\* What comments and the report say, and the code does not do, are Reconnects and
\* LostRequestsAnswered (the 2-second polling fails the pending requests at once and
\* reconnects) and the next three.
\* A lost connection is noticed and replaced (the periodic check).
LostConnectionIsDetected == task = "run" /\ conn = "dead" ~> conn # "dead"

\* Reconnecting goes on until it succeeds (reconnect_loop).
ReconnectNeverPanics == started => task # "panicked"

\* No HTTP request hangs for ever when the server is down (fail_all_pending).
NoRequestHangs == \A k \in Caller : http[k] = "sending" ~> http[k] # "sending"
===============================================================================
