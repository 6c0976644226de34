------------------------------- MODULE PeerLink -------------------------------
(***************************************************************************)
(* The peer connections between two servers (server/network.rs): the       *)
(* connector task of the one with the higher id, the listener of the       *)
(* other, the reader and writer tasks of each connection, and what the two *)
(* main loops do with them (apply_connection, send_to_cluster).            *)
(*                                                                         *)
(* Heartbeats and other messages that no property looks at are not queued: *)
(* all they do here is to make the writer of a broken connection fail.     *)
(***************************************************************************)
EXTENDS Naturals, FiniteSetsExt, SequencesExt

CONSTANTS BATCH,      \* batch_size of the writer
          TooBig,     \* {FALSE}, or BOOLEAN: messages may exceed the largest frame
          Ticking,    \* the ends that keep sending (those in the loop of run)
          MaxConns,   \* bound: connections attempted
          MaxMsgs,    \* bound: messages both ends send
          MaxBreaks,  \* bound: connections that break by themselves
          MaxKills    \* bound: kills of the servers

lo == 1
hi == 2
End == {lo, hi}
Other(e) == (lo + hi) - e
Conn == 1..MaxConns

ASSUME PeerLinkAssumption == /\ BATCH \in Nat \ {0}
                             /\ TooBig \subseteq BOOLEAN /\ Ticking \subseteq End
                             /\ {MaxConns, MaxMsgs, MaxBreaks, MaxKills} \subseteq Nat

VARIABLES
    up,          \* the server processes that run
    connector,   \* the task at hi: "connect", "handshake", or "wait" (for close_rx)
    conns,       \* TCP connections so far; each is named by its number
    registered,  \* those on which hi has sent NodeRegister
    broken,      \* those whose TCP connection is gone
    stage,       \* stage[e][c]: see Stage
    connection_source,   \* connection_source[e]: the connections on their way to the main loop
    reading,     \* reading[e]: the connections whose reader task was not aborted
    outgoing,    \* outgoing[e]: the queue to the writer task of e's connection
    wire,        \* wire[e][c]: what e wrote and the reader at the other end did not read;
                 \* of a broken connection any prefix may still be read, or nothing
    sent,        \* history: sent[e][i] is message i of e: its connection and its size
    accepted,    \* history: accepted[e]: what the readers at e put into cluster_messages
    breaks, kills

procVars == <<up, connector>>
tcpVars == <<conns, registered, broken>>
endVars == <<stage, connection_source, reading>>
msgVars == <<outgoing, wire, sent, accepted>>
bounds == <<breaks, kills>>
vars == <<procVars, tcpVars, endVars, msgVars, bounds>>

\* Where an end has a connection: in the listener's task, on its way to the main
\* loop, in peer_connections, there with its writer task ended, nowhere.
Stage == {"none", "handshake", "offered", "slot", "ended", "gone"}

Message == [conn : Conn, big : BOOLEAN]

\* peer_connections[idx] of e: the connection, as a set of at most one.
Slot(e) == { c \in Conn : stage[e][c] \in {"slot", "ended"} }

TypeOK == /\ up \subseteq End
          /\ connector \in {"connect", "handshake", "wait"}
          /\ conns \in 0..MaxConns
          /\ registered \subseteq 1..conns /\ broken \subseteq 1..conns
          /\ stage \in [End -> [Conn -> Stage]]
          /\ \A e \in End : Cardinality(Slot(e)) <= 1
          /\ connection_source \in [End -> Seq(1..conns)]
          /\ reading \in [End -> SUBSET (1..conns)]
          /\ outgoing \in [End -> Seq(Nat)]
          /\ wire \in [End -> [Conn -> Seq(Nat)]]
          /\ sent \in [End -> Seq(Message)]
          /\ accepted \in [End -> Seq(Nat)]
          /\ breaks \in Nat /\ kills \in Nat

Init == /\ up = End
        /\ connector = "connect"
        /\ conns = 0 /\ registered = {} /\ broken = {}
        /\ stage = [e \in End |-> [c \in Conn |-> "none"]]
        /\ connection_source = [e \in End |-> <<>>]
        /\ reading = [e \in End |-> {}]
        /\ outgoing = [e \in End |-> <<>>]
        /\ wire = [e \in End |-> [c \in Conn |-> <<>>]]
        /\ sent = [e \in End |-> <<>>]
        /\ accepted = [e \in End |-> <<>>]
        /\ breaks = 0 /\ kills = 0

-------------------------------------------------------------------------------
(* The connector task of hi and the listener of lo *)

\* TcpStream::connect succeeds; the listener starts handle_incoming_connection.
Connect ==
    /\ up = End
    /\ connector = "connect"
    /\ conns < MaxConns
    /\ conns' = conns + 1
    /\ stage' = [stage EXCEPT ![lo][conns + 1] = "handshake"]
    /\ connector' = "handshake"
    /\ UNCHANGED <<up, registered, broken, connection_source, reading, msgVars, bounds>>

\* Mutant of AfterHandshake: the close signal's sender is not kept, so that
\* close_rx returns at once.
AfterHandshakeGoesOn == "connect"
AfterHandshake == "wait"

\* The handshake is written (which says nothing of the other end), the connection
\* and its tasks are made and given to the main loop.
SendHandshake ==
    /\ hi \in up
    /\ connector = "handshake"
    /\ registered' = registered \cup {conns}
    /\ stage' = [stage EXCEPT ![hi][conns] = "offered"]
    /\ connection_source' = [connection_source EXCEPT ![hi] = Append(@, conns)]
    /\ reading' = [reading EXCEPT ![hi] = @ \cup {conns}]
    /\ connector' = AfterHandshake
    /\ UNCHANGED <<up, conns, broken, msgVars, bounds>>

\* "Error sending handshake": on to the next attempt.  Mutant: it waits as after a
\* success.
HandshakeFailsWaits ==
    /\ hi \in up
    /\ connector = "handshake"
    /\ conns \in broken
    /\ connector' = AfterHandshake
    /\ UNCHANGED <<up, tcpVars, endVars, msgVars, bounds>>

HandshakeFails ==
    /\ hi \in up
    /\ connector = "handshake"
    /\ conns \in broken
    /\ connector' = "connect"
    /\ UNCHANGED <<up, tcpVars, endVars, msgVars, bounds>>

\* handle_incoming_connection reads NodeRegister.  One task per connection: they
\* may finish in any order.
Identify(c) ==
    /\ lo \in up
    /\ stage[lo][c] = "handshake"
    /\ c \in registered
    /\ stage' = [stage EXCEPT ![lo][c] = "offered"]
    /\ connection_source' = [connection_source EXCEPT ![lo] = Append(@, c)]
    /\ reading' = [reading EXCEPT ![lo] = @ \cup {c}]
    /\ UNCHANGED <<procVars, tcpVars, msgVars, bounds>>

\* It gets an error or the end of the stream instead.
IdentifyFails(c) ==
    /\ lo \in up
    /\ stage[lo][c] = "handshake"
    /\ c \in broken
    /\ stage' = [stage EXCEPT ![lo][c] = "gone"]
    /\ UNCHANGED <<procVars, tcpVars, connection_source, reading, msgVars, bounds>>

-------------------------------------------------------------------------------
(* The main loops *)

\* apply_connection, in initialize_connections or for recovery_receiver.  What is in
\* the slot is closed: both tasks are aborted, which drops both halves of the stream
\* and what was queued.
\* Mutants: the new connection is put beside the old one; it is dropped if there is an
\* old one; the old one is kept open.
ApplyConnectionAdds(e, c) ==
    /\ e \in up
    /\ connection_source[e] # <<>> /\ c = Head(connection_source[e])
    /\ connection_source' = [connection_source EXCEPT ![e] = Tail(@)]
    /\ stage' = [stage EXCEPT ![e][c] = "slot"]
    /\ UNCHANGED <<procVars, tcpVars, reading, msgVars, bounds>>
ApplyConnectionKeepsOld(e, c) ==
    /\ e \in up
    /\ connection_source[e] # <<>> /\ c = Head(connection_source[e])
    /\ connection_source' = [connection_source EXCEPT ![e] = Tail(@)]
    /\ stage' = [stage EXCEPT ![e][c] = IF Slot(e) = {} THEN "slot" ELSE "gone"]
    /\ UNCHANGED <<procVars, tcpVars, reading, msgVars, bounds>>
ApplyConnectionNoClose(e, c) ==
    /\ e \in up
    /\ connection_source[e] # <<>> /\ c = Head(connection_source[e])
    /\ connection_source' = [connection_source EXCEPT ![e] = Tail(@)]
    /\ stage' = [stage EXCEPT ![e] = [d \in Conn |->
          IF d = c THEN "slot" ELSE IF d \in Slot(e) THEN "gone" ELSE stage[e][d]]]
    /\ outgoing' = [outgoing EXCEPT ![e] = <<>>]
    /\ UNCHANGED <<procVars, tcpVars, reading, wire, sent, accepted, bounds>>

ApplyConnection(e, c) ==
    /\ e \in up
    /\ connection_source[e] # <<>> /\ c = Head(connection_source[e])
    /\ connection_source' = [connection_source EXCEPT ![e] = Tail(@)]
    /\ stage' = [stage EXCEPT ![e] = [d \in Conn |->
          IF d = c THEN "slot" ELSE IF d \in Slot(e) THEN "gone" ELSE stage[e][d]]]
    /\ broken' = broken \cup Slot(e)
    /\ reading' = [reading EXCEPT ![e] = @ \ Slot(e)]
    /\ outgoing' = [outgoing EXCEPT ![e] = <<>>]
    /\ UNCHANGED <<procVars, conns, registered, wire, sent, accepted, bounds>>

\* send_to_cluster, with a connection whose writer task runs ...
SendToCluster(e, big) ==
    /\ e \in up
    /\ Len(sent[lo]) + Len(sent[hi]) < MaxMsgs
    /\ \E c \in Slot(e) : /\ stage[e][c] = "slot"
                          /\ sent' = [sent EXCEPT ![e] = Append(@, [conn |-> c, big |-> big])]
    /\ outgoing' = [outgoing EXCEPT ![e] = Append(@, Len(sent[e]) + 1)]
    /\ UNCHANGED <<procVars, tcpVars, endVars, wire, accepted, bounds>>

\* ... and with one whose writer task has ended: the slot is emptied, which drops the
\* sender of the close signal.  The reader task goes on, detached.
SendFails(e) ==
    /\ e \in up
    /\ \E c \in Conn : /\ stage[e][c] = "ended"
                       /\ stage' = [stage EXCEPT ![e][c] = "gone"]
    /\ connector' = IF e = hi THEN "connect" ELSE connector
    /\ UNCHANGED <<up, tcpVars, connection_source, reading, msgVars, bounds>>

-------------------------------------------------------------------------------
(* The writer and reader tasks *)

Batch(e) == SubSeq(outgoing[e], 1, Min({Len(outgoing[e]), BATCH}))

\* A batch as far as its messages can be encoded: the first one that exceeds the
\* largest frame ends the loop, and the rest of the batch is dropped with it.
Fed(e) == SelectInSeq(Batch(e), LAMBDA i : sent[e][i].big)

\* recv_many, feed and flush.  Mutant: the first message of a batch is skipped.
WriterWritesRest(e) ==
    /\ e \in up
    /\ outgoing[e] # <<>>
    /\ \E c \in Slot(e) \ broken :
          wire' = [wire EXCEPT ![e][c] = @ \o Tail(Batch(e))]
    /\ outgoing' = [outgoing EXCEPT ![e] = SubSeq(@, Len(Batch(e)) + 1, Len(@))]
    /\ UNCHANGED <<procVars, tcpVars, endVars, sent, accepted, bounds>>

WriterWrites(e) ==
    /\ e \in up
    /\ outgoing[e] # <<>>
    /\ \E c \in Slot(e) \ broken :
          wire' = [wire EXCEPT ![e][c] =
              @ \o IF Fed(e) = 0 THEN Batch(e) ELSE SubSeq(Batch(e), 1, Fed(e) - 1)]
    /\ outgoing' = [outgoing EXCEPT ![e] = SubSeq(@, Len(Batch(e)) + 1, Len(@))]
    /\ UNCHANGED <<procVars, tcpVars, endVars, sent, accepted, bounds>>

\* The connection is broken and something, a heartbeat say, is written: flush fails and
\* the task ends.  Nobody is told.
WriterFails(e) ==
    /\ e \in up
    /\ \E c \in broken : /\ stage[e][c] = "slot"
                         /\ stage' = [stage EXCEPT ![e][c] = "ended"]
    /\ outgoing' = [outgoing EXCEPT ![e] = <<>>]
    /\ UNCHANGED <<procVars, tcpVars, connection_source, reading, wire, sent, accepted, bounds>>

\* The reader task of connection c at e.  It starts before the main loop has applied the
\* connection.
Deliver(e, c) ==
    /\ e \in up
    /\ c \in reading[e]
    /\ wire[Other(e)][c] # <<>>
    /\ accepted' = [accepted EXCEPT ![e] = Append(@, Head(wire[Other(e)][c]))]
    /\ wire' = [wire EXCEPT ![Other(e)][c] = Tail(@)]
    /\ UNCHANGED <<procVars, tcpVars, endVars, outgoing, sent, bounds>>

-------------------------------------------------------------------------------
(* Faults *)

Break(c) ==
    /\ breaks < MaxBreaks
    /\ c \in (1..conns) \ broken
    /\ broken' = broken \cup {c}
    /\ breaks' = breaks + 1
    /\ UNCHANGED <<procVars, conns, registered, endVars, msgVars, kills>>

Kill(e) ==
    /\ kills < MaxKills
    /\ e \in up
    /\ up' = up \ {e}
    /\ connection_source' = [connection_source EXCEPT ![e] = <<>>]
    /\ connector' = IF e = hi THEN "connect" ELSE connector
    /\ broken' = 1..conns
    /\ stage' = [stage EXCEPT ![e] = [c \in Conn |-> IF c \in 1..conns THEN "gone" ELSE "none"]]
    /\ reading' = [reading EXCEPT ![e] = {}]
    /\ outgoing' = [outgoing EXCEPT ![e] = <<>>]
    /\ kills' = kills + 1
    /\ UNCHANGED <<conns, registered, wire, sent, accepted, breaks>>

Restart(e) ==
    /\ e \notin up
    /\ up' = up \cup {e}
    /\ UNCHANGED <<connector, tcpVars, endVars, msgVars, bounds>>

-------------------------------------------------------------------------------
ConnStep(c) == \/ Identify(c) \/ IdentifyFails(c)
               \/ \E e \in End : ApplyConnection(e, c)

Next == \/ Connect \/ SendHandshake \/ HandshakeFails
        \/ \E c \in Conn : \/ ConnStep(c) \/ Break(c)
                           \/ \E e \in End : Deliver(e, c)
        \/ \E e \in End : \/ \E big \in TooBig : SendToCluster(e, big)
                          \/ SendFails(e) \/ WriterWrites(e) \/ WriterFails(e)
                          \/ Kill(e) \/ Restart(e)

\* Tasks run, killed servers are restarted, and the ends in Ticking keep sending, so
\* that their writers fail on a broken connection and then their sends do.
Fairness == /\ WF_vars(Connect) /\ WF_vars(SendHandshake \/ HandshakeFails)
            /\ \A c \in Conn : /\ WF_vars(Identify(c) \/ IdentifyFails(c))
                               /\ \A e \in End : WF_vars(ApplyConnection(e, c))
            /\ \A e \in End : WF_vars(Restart(e))
            /\ \A e \in Ticking : WF_vars(WriterFails(e)) /\ WF_vars(SendFails(e))

Spec == Init /\ [][Next]_vars /\ Fairness

-------------------------------------------------------------------------------
(* Properties *)

\* Message i of e had a message before it in its batch, or was one itself, that
\* exceeds the largest frame.
AfterTooBig(e, i) == \E b \in 1..i : /\ sent[e][b].big
                                     /\ sent[e][b].conn = sent[e][i].conn
                                     /\ i - b < BATCH

\* What one connection delivers is in the order it was sent in and has no gap but the
\* rest of a batch after a message too big to send, whatever is replaced, detached or
\* broken meanwhile (writer and reader tasks, apply_connection).
SessionOrder ==
    \A e \in End : \A k \in 1..Len(accepted[e]) :
        LET i == accepted[e][k]
            before(j) == \E l \in 1..(k - 1) : accepted[e][l] = j
        IN  /\ ~ before(i)
            /\ \A j \in 1..(i - 1) :
                  sent[Other(e)][j].conn = sent[Other(e)][i].conn =>
                      before(j) \/ AfterTooBig(Other(e), j)

\* A message that is lost was too big or behind one that was, or its connection is
\* broken: while a connection is up, no replacement and no failed send elsewhere drops
\* what it was given (send_to_cluster, apply_connection, the writer task).
LossEndsSession ==
    \A e \in End : \A i \in 1..Len(sent[e]) :
        LET c == sent[e][i].conn
        IN  c \notin broken =>
                \/ AfterTooBig(e, i)
                \/ i \in Range(outgoing[e]) \cup Range(wire[e][c])
                         \cup Range(accepted[Other(e)])

\* The connector task, which waits for close_rx before it connects again, waits for a
\* connection that its main loop still has or will get: the sender of the signal was
\* not lost with a replaced connection, and no second connection is made meanwhile
\* (spawn_peer_connectors, apply_connection).
CloseSignalWillCome ==
    Cardinality({ c \in Conn : stage[hi][c] \in {"offered", "slot", "ended"} })
        = IF connector = "wait" THEN 1 ELSE 0

\* Some connection that is up is in both slots.
LinkUp == \E c \in (1..conns) \ broken : \A e \in End : stage[e][c] = "slot"

\* When faults end, the servers are connected again and stay so, if the connector's
\* server keeps sending: the listener's end need not notice anything
\* (spawn_peer_connectors, handle_incoming_connection, send_to_cluster).
LinkIsRestored == <>[]LinkUp

\* What Startup assumes of a connection is what these tasks do (see ClusterLinks).
Waiting(e) == { c \in registered : stage[e][c] \in {"handshake", "offered"} }
slot == [p \in End \X End |->
            IF p[1] = p[2] \/ Slot(p[1]) = {} THEN "none"
            ELSE IF Slot(p[1]) \cap broken # {} THEN "dead" ELSE "live"]
offered == [p \in End \X End |-> p[1] # p[2] /\ Waiting(p[1]) \ broken # {}]
stale == [p \in End \X End |->
             IF p[1] = p[2] THEN 0 ELSE Cardinality(Waiting(p[1]) \cap broken)]
Links == INSTANCE ClusterLinks WITH Server <- End
ImplementsClusterLinks == Links!LinkSpec
===============================================================================
