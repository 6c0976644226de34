-------------------------------- MODULE Startup --------------------------------
(***************************************************************************)
(* How a server gets into its main loop: Network::new waits for a peer,    *)
(* establish_initial_leader for a start signal or, at the initial leader,  *)
(* for its promotion, and run then ticks the election; the recovery branch *)
(* of both loops applies new connections and sends start signals again     *)
(* (server/server.rs, server/network.rs).  Clients wait for a start signal *)
(* of their server.  Servers are killed and restarted, connections break.  *)
(***************************************************************************)
EXTENDS ClusterLinks, FiniteSets

CONSTANTS InitialLeader,       \* initial_leader of cluster-config.toml
          Clients,             \* the servers that have a client
          Killable,            \* the servers that may be killed
          EarlyKills,          \* ... even before all are in their main loop
          MaxKills,            \* bound: kills of servers
          MaxClientRestarts,   \* bound: clients killed and started again
          MaxBreaks,           \* bound: connections that break by themselves
          MaxElections         \* bound: leaders that ticks elect

ASSUME StartupAssumption ==
    /\ Server \subseteq Nat \ {0} /\ IsFiniteSet(Server)
    /\ InitialLeader \in Server /\ Clients \subseteq Server
    /\ Killable \subseteq Server /\ EarlyKills \in BOOLEAN
    /\ {MaxKills, MaxClientRestarts, MaxBreaks, MaxElections} \subseteq Nat

num_clients == 1   \* server-1-config.toml

VARIABLES
    ballot, phase,   \* of OmniPaxosLeader
    pc,        \* where the server's main task is: "down", "connect" (Network::new),
               \* "establish" (establish_initial_leader), "run"
    signal,    \* the pairs <<s, t>> with a LeaderStartSignal on its way from s to t
    client,    \* client[s]: the client of s: "absent", "offered" (registered), "connected"
               \* (applied), "started", "hung" (its server is gone and it will wait for ever)
    max_client_id,
    kills, clientRestarts, breaks, elections

INSTANCE OmniPaxosLeader

leaderVars == <<ballot, phase>>

bounds == <<kills, clientRestarts, breaks, elections>>
clientVars == <<client, max_client_id>>
vars == <<linkVars, leaderVars, pc, signal, clientVars, bounds>>

TypeOK == /\ LinkTypeOK
          /\ LeaderTypeOK
          /\ pc \in [Server -> {"down", "connect", "establish", "run"}]
          /\ signal \subseteq Pair
          /\ client \in [Server -> {"absent", "offered", "connected", "started", "hung"}]
          /\ max_client_id \in [Server -> Nat]
          /\ bounds \in Nat \X Nat \X Nat \X Nat

NoFaultsYet == kills = 0 /\ clientRestarts = 0 /\ breaks = 0

\* All processes have just been started for the first time (the bound leaves no
\* elections to this start) ...
Init == /\ LinkInit
        /\ LeaderInit
        /\ pc = [s \in Server |-> "connect"]
        /\ signal = {}
        /\ client = [s \in Server |-> "absent"]
        /\ max_client_id = [s \in Server |-> 0]
        /\ NoFaultsYet /\ elections = MaxElections

\* ... or that has succeeded: the state of a cluster that works.
InitRunning == /\ slot = [p \in Pair |-> IF p[1] = p[2] THEN "none" ELSE "live"]
               /\ offered = [p \in Pair |-> FALSE]
               /\ stale = [p \in Pair |-> 0]
               /\ ballot = [s \in Server |-> [n |-> 1, pid |-> InitialLeader]]
               /\ phase = [s \in Server |->
                              IF s = InitialLeader THEN "accept" ELSE "follower"]
               /\ pc = [s \in Server |-> "run"]
               /\ signal = {}
               /\ client = [s \in Server |-> IF s \in Clients THEN "started" ELSE "absent"]
               /\ max_client_id = [s \in Server |-> IF s \in Clients THEN 1 ELSE 0]
               /\ NoFaultsYet /\ elections = 0

-------------------------------------------------------------------------------
(* Start signals *)

\* send_cluster_start_signals: one to each peer with a connection.  Of those on their
\* way, lost are lost in this step.  Mutant: they are sent before a new connection is
\* applied.
SendClusterStartSignalsBefore(s, lost) ==
    signal' = (signal \ lost) \cup { <<s, t>> : t \in { u \in Server : slot[s, u] = "live" } }

SendClusterStartSignals(s, lost) ==
    signal' = (signal \ lost) \cup { <<s, t>> : t \in { u \in Server : slot'[<<s, u>>] = "live" } }

\* send_client_start_signals: to the client ids up to num_clients; who is what client
\* becomes otherwise.
Started(s, who) ==
    [who EXCEPT ![s] =
        IF @ = "connected" /\ max_client_id[s] <= num_clients THEN "started" ELSE @]

\* The recovery branch after apply_connection.  Mutant: only the clients are signalled.
ResendStartSignalsLocally(s, lost, who) ==
    /\ signal' = signal \ lost
    /\ client' = IF Leads(s) THEN Started(s, who) ELSE who

ResendStartSignals(s, lost, who) ==
    IF Leads(s)
    THEN SendClusterStartSignals(s, lost) /\ client' = Started(s, who)
    ELSE signal' = signal \ lost /\ client' = who

-------------------------------------------------------------------------------
(* Connections between servers *)

Handshake(s, t) ==
    /\ pc[s] # "down" /\ pc[t] # "down"
    /\ Establish(s, t)
    /\ UNCHANGED <<leaderVars, pc, signal, clientVars, bounds>>

HandshakeCut(s, t) ==
    /\ pc[s] # "down" /\ pc[t] # "down"
    /\ breaks < MaxBreaks
    /\ EstablishStale(s, t)
    /\ breaks' = breaks + 1
    /\ UNCHANGED <<leaderVars, pc, signal, clientVars, kills, clientRestarts, elections>>

HandshakeForgotten(s, t) ==
    /\ Forget(s, t)
    /\ UNCHANGED <<leaderVars, pc, signal, clientVars, bounds>>

\* apply_connection for a peer.  A connection that is replaced takes with it what is on
\* its way if it still worked (what one that broke has lost, it lost then).  In
\* initialize_connections the first one ends the wait; in the recovery branches start
\* signals follow.
ApplyPeer(s, t) ==
    /\ pc[s] # "down"
    /\ \E lost \in SUBSET Ends(s, t) :
          /\ \/ Apply(s, t) /\ lost = {}
             \/ ApplyStale(s, t) /\ (slot[s, t] = "live" \/ lost = {})
          /\ IF pc[s] = "connect"
             THEN /\ pc' = [pc EXCEPT ![s] = "establish"]
                  /\ signal' = signal \ lost
                  /\ UNCHANGED client
             ELSE /\ ResendStartSignals(s, lost, client)
                  /\ UNCHANGED pc
    /\ UNCHANGED <<leaderVars, max_client_id, bounds>>

\* A send fails.  Any message will do; that one is sent is certain only where the
\* election ticks or leadership is tried for.
NoticeLoss(s, t) ==
    /\ pc[s] \in {"establish", "run"}
    /\ Notice(s, t)
    /\ UNCHANGED <<leaderVars, pc, signal, clientVars, bounds>>

Ticks(s) == pc[s] = "run" \/ (pc[s] = "establish" /\ s = InitialLeader)

BreakLink(s, t) ==
    /\ breaks < MaxBreaks
    /\ Break(s, t)
    /\ \E lost \in SUBSET Ends(s, t) : signal' = signal \ lost
    /\ breaks' = breaks + 1
    /\ UNCHANGED <<leaderVars, pc, clientVars, kills, clientRestarts, elections>>

-------------------------------------------------------------------------------
(* The loops of establish_initial_leader and run *)

\* leader_takeover_interval ticks, at the initial leader.  Mutant: the followers are not
\* told.
LeaderTickAlone(s) ==
    /\ s = InitialLeader /\ pc[s] = "establish"
    /\ \/ /\ Accepted(s)
          /\ client' = Started(s, client)
          /\ pc' = [pc EXCEPT ![s] = "run"]
          /\ UNCHANGED <<linkVars, leaderVars, signal>>
       \/ /\ ~ Accepted(s)
          /\ try_become_leader(s)
          /\ UNCHANGED <<linkVars, pc, signal, client>>
    /\ UNCHANGED <<max_client_id, bounds>>

LeaderTick(s) ==
    /\ s = InitialLeader /\ pc[s] = "establish"
    /\ \/ /\ Accepted(s)
          /\ UNCHANGED linkVars   \* determines slot' for the signals
          /\ SendClusterStartSignals(s, {})
          /\ client' = Started(s, client)
          /\ pc' = [pc EXCEPT ![s] = "run"]
          /\ UNCHANGED leaderVars
       \/ /\ ~ Accepted(s)
          /\ try_become_leader(s)
          /\ UNCHANGED <<linkVars, pc, signal, client>>
    /\ UNCHANGED <<max_client_id, bounds>>

\* handle_cluster_messages with a LeaderStartSignal from s, in either loop.  Mutant: it
\* is not passed on to the clients.
ReceiveStartKept(s, t) ==
    /\ <<s, t>> \in signal
    /\ pc[t] \in {"establish", "run"}
    /\ signal' = signal \ {<<s, t>>}
    /\ pc' = [pc EXCEPT ![t] = "run"]
    /\ UNCHANGED <<linkVars, leaderVars, clientVars, bounds>>

ReceiveStart(s, t) ==
    /\ <<s, t>> \in signal
    /\ pc[t] \in {"establish", "run"}
    /\ signal' = signal \ {<<s, t>>}
    /\ client' = Started(t, client)
    /\ pc' = [pc EXCEPT ![t] = "run"]
    /\ UNCHANGED <<linkVars, leaderVars, max_client_id, bounds>>

\* Messages of the crate pass between servers that are in one of the loops.
Answers(t) == pc[t] \in {"establish", "run"}
Reach(s, t) == s = t \/ (Linked(s, t) /\ Answers(t))

\* Leadership is sought by ticks, or by LeaderTick.
GetPromoted(s) ==
    /\ Ticks(s)
    /\ \E Q \in SUBSET { t \in Server : Reach(s, t) } : Promote(s, Q)
    /\ UNCHANGED <<linkVars, pc, signal, clientVars, bounds>>

LearnLeader(s, t) ==
    /\ s # t /\ Answers(s) /\ Reach(s, t)
    /\ Follow(s, t)
    /\ UNCHANGED <<linkVars, pc, signal, clientVars, bounds>>

\* The election timeout: s reaches a majority, but not a leader that works.
Elect(s) ==
    /\ elections < MaxElections
    /\ pc[s] = "run"
    /\ ~ \E l \in Server : ballot[s].pid = l /\ Reach(s, l) /\ phase[l] # "follower"
    /\ 2 * Cardinality({ t \in Server : Reach(s, t) }) > Cardinality(Server)
    /\ try_become_leader(s)
    /\ elections' = elections + 1
    /\ UNCHANGED <<linkVars, pc, signal, clientVars, kills, clientRestarts, breaks>>

-------------------------------------------------------------------------------
(* Clients *)

\* handle_incoming_connection: ClientRegister.
ClientRegister(s) ==
    /\ s \in Clients
    /\ pc[s] # "down"
    /\ client[s] = "absent"
    /\ client' = [client EXCEPT ![s] = "offered"]
    /\ max_client_id' = [max_client_id EXCEPT ![s] = @ + 1]
    /\ UNCHANGED <<linkVars, leaderVars, pc, signal, bounds>>

\* apply_connection for a client.
ApplyClient(s) ==
    /\ pc[s] # "down"
    /\ client[s] = "offered"
    /\ UNCHANGED linkVars
    /\ LET applied == [client EXCEPT ![s] = "connected"]
       IN  IF pc[s] = "connect"
           THEN client' = applied /\ UNCHANGED signal
           ELSE ResendStartSignals(s, {}, applied)
    /\ UNCHANGED <<leaderVars, pc, max_client_id, bounds>>

RestartClient(s) ==
    /\ clientRestarts < MaxClientRestarts
    /\ client[s] # "absent"
    /\ client' = [client EXCEPT ![s] = "absent"]
    /\ clientRestarts' = clientRestarts + 1
    /\ UNCHANGED <<linkVars, leaderVars, pc, signal, max_client_id, kills, breaks, elections>>

-------------------------------------------------------------------------------
(* Kills *)

Settled == /\ \A s \in Server : pc[s] = "run"
           /\ \A p \in Pair : ~ offered[p] /\ stale[p] = 0

\* A client that waits for its start signal does not notice that its server is gone.
Kill(s) ==
    /\ kills < MaxKills /\ s \in Killable
    /\ EarlyKills \/ Settled
    /\ pc[s] # "down"
    /\ pc' = [pc EXCEPT ![s] = "down"]
    /\ KillLinks(s)
    /\ KillLeader(s)
    /\ \E lost \in SUBSET { p \in signal : p[1] = s } :
          signal' = { p \in signal \ lost : p[2] # s }
    /\ client' = [client EXCEPT ![s] = IF @ \in {"offered", "connected"} THEN "hung" ELSE @]
    /\ max_client_id' = [max_client_id EXCEPT ![s] = 0]
    /\ kills' = kills + 1
    /\ UNCHANGED <<clientRestarts, breaks, elections>>

Restart(s) ==
    /\ pc[s] = "down"
    /\ pc' = [pc EXCEPT ![s] = "connect"]
    /\ UNCHANGED <<linkVars, leaderVars, signal, clientVars, bounds>>

-------------------------------------------------------------------------------
LinkStep(s, t) == \/ Handshake(s, t) \/ HandshakeCut(s, t) \/ HandshakeForgotten(s, t)
                  \/ ApplyPeer(s, t) \/ NoticeLoss(s, t) \/ BreakLink(s, t)

ServerStep(s) == \/ LeaderTick(s) \/ GetPromoted(s) \/ Elect(s)
                 \/ ClientRegister(s) \/ ApplyClient(s) \/ RestartClient(s)
                 \/ Kill(s) \/ Restart(s)

Next == \/ \E s, t \in Server : \/ s # t /\ LinkStep(s, t)
                                \/ ReceiveStart(s, t) \/ LearnLeader(s, t)
        \/ \E s \in Server : ServerStep(s)

\* Tasks run, messages over a connection that is up arrive, leaders are elected if the
\* reason for it lasts, leadership that can be had is had, and killed servers are
\* restarted.  A failed send is certain only where something is sent for certain.
\* Clients, kills and breaks owe nothing.
TaskFairness ==
    /\ \A s, t \in Server :
          /\ WF_vars(s # t /\ Handshake(s, t))
          /\ WF_vars(s # t /\ ApplyPeer(s, t))
          /\ WF_vars(Ticks(s) /\ NoticeLoss(s, t))
          /\ WF_vars(ReceiveStart(s, t))
    /\ \A s \in Server : WF_vars(LeaderTick(s)) /\ WF_vars(GetPromoted(s))
                         /\ WF_vars(Elect(s)) /\ WF_vars(ApplyClient(s))

Fairness == TaskFairness /\ \A s \in Server : WF_vars(Restart(s))

Spec == Init /\ [][Next]_vars /\ Fairness

RunningSpec == InitRunning /\ [][Next]_vars /\ Fairness

StartOrRunningSpec == (Init \/ InitRunning) /\ [][Next]_vars /\ Fairness

\* As RunningSpec, but a killed server may stay down.
CrashSpec == InitRunning /\ [][Next]_vars /\ TaskFairness

-------------------------------------------------------------------------------
(* Properties *)

\* A server that is not in its main loop, and that the leader has a connection to, has
\* a start signal on its way: none was sent to an empty slot, over the connection
\* before, or not at all (establish_initial_leader, the recovery branch of run,
\* apply_connection).  The initial leader needs none.
NoFollowerLeftBehind ==
    \A s \in Server : \A t \in Server \ {InitialLeader} :
        pc[s] = "run" /\ Accepted(s) /\ slot[s, t] = "live" /\ pc[t] # "run"
            => <<s, t>> \in signal

\* Every server that enters establish_initial_leader leaves it for the main loop, where
\* elections tick, or is killed (server.rs, run).
EstablishEnds == \A s \in Server : pc[s] = "establish" ~> pc[s] \in {"run", "down"}

\* "The server reconnects to peers" (report.md, of a restarted server): while it rejoins,
\* each connection is made, and made again.
RestartedServerReconnects ==
    \A s, t \in Server : s # t =>
        (pc[s] = "establish" /\ pc[t] = "run"
            ~> Linked(s, t) \/ pc[s] = "down" \/ pc[t] = "down")

\* "... and participates in leader election normally" (the same): one that has a connection with a working leader
\* does not stay in establish_initial_leader, where no election ticks.
RestartedServerParticipates ==
    \A s, l \in Server :
        LET waits == pc[s] = "establish" /\ pc[l] = "run" /\ Accepted(l) /\ Linked(s, l)
        IN  waits ~> ~ waits

\* A client whose connection was applied before its server left
\* establish_initial_leader is started (send_client_start_signals, on a signal and at
\* the initial leader), but for one whose server was killed or that is itself a second
\* process.
EarlyClientStarts ==
    \A s \in Server :
        client[s] = "connected" /\ pc[s] # "run" /\ max_client_id[s] = 1
            ~> client[s] # "connected" \/ max_client_id[s] > 1

\* "Waits until connections to all servers and clients are established before
\* resolving" (network.rs): so that a client may connect when it likes, and starts.
EveryClientStarts == \A s \in Server : client[s] = "connected" ~> client[s] = "started"

\* "Ensures cluster is connected and initial leader is promoted before returning"
\* (server.rs, establish_initial_leader).
LeaderPromotedBeforeStart ==
    [][\A s \in Server : pc[s] = "establish" /\ pc'[s] = "run"
            => \E l \in Server : Accepted(l)]_vars

\* "When it restarts, it discovers a higher ballot via peer messages and steps down"
\* (report.md, of a killed leader): if another was elected while it was down, it does
\* not lead again before it is in its main loop, where elections tick.
RestartedLeaderStepsDown ==
    \A s \in Server :
        [](pc[s] = "down" /\ (\E l \in Server : Accepted(l))
              => [](pc[s] = "run" \/ phase[s] # "accept"))
===============================================================================
