---------------------------- MODULE PeerLinkProofs ----------------------------
(***************************************************************************)
(* Theorems about PeerLink for any batch size and any number of            *)
(* connections, messages, breaks and kills.  ConnInv says where each       *)
(* connection is at its two ends, MessageInv where each message is.        *)
(***************************************************************************)
EXTENDS PeerLink, ProofBasics, FiniteSetTheorems

\* The connections that the main loop of e still has or will get.
Held(e) == { c \in Conn : stage[e][c] \in {"offered", "slot", "ended"} }

Offered(e) == { c \in Conn : stage[e][c] = "offered" }

\* TypeOK but for the size of the slots.
Types == /\ up \subseteq End
         /\ connector \in {"connect", "handshake", "wait"}
         /\ conns \in 0..MaxConns
         /\ registered \subseteq 1..conns /\ broken \subseteq 1..conns
         /\ stage \in [End -> [Conn -> Stage]]
         /\ connection_source \in [End -> Seq(1..conns)]
         /\ reading \in [End -> SUBSET (1..conns)]
         /\ outgoing \in [End -> Seq(Nat)]
         /\ wire \in [End -> [Conn -> Seq(Nat)]]
         /\ sent \in [End -> Seq(Message)]
         /\ accepted \in [End -> Seq(Nat)]
         /\ breaks \in Nat /\ kills \in Nat

\* What is on its way to a main loop is there once, and is what was offered to it;
\* at most one connection is in peer_connections.
SourceInv == \A e \in End :
    /\ IsInjective(connection_source[e])
    /\ ToSet(connection_source[e]) = Offered(e)

\* Where the connections can be: in one slot at most; with a stage only once they are
\* made; with none of the tasks any more only when they are broken.
StageInv == \A e \in End :
    /\ \A c, d \in Slot(e) : c = d
    /\ \A c \in Conn : /\ stage[e][c] # "none" => c \in 1..conns
                       /\ stage[e][c] \in {"ended", "gone"} => c \in broken

\* The connector waits for the one connection it made and its main loop has or gets.
ConnectorInv ==
    /\ \A c \in Conn : stage[hi][c] # "handshake"
    /\ connector = "wait" => \E c \in Conn : Held(hi) = {c}
    /\ connector # "wait" => Held(hi) = {}
    /\ connector = "handshake" => /\ conns \in Conn \ registered
                                  /\ stage[hi][conns] = "none"

\* NodeRegister was sent on what the connector gave away, before the listener did.
RegisteredInv == \A c \in Conn :
    /\ c \in registered => stage[hi][c] # "none"
    /\ \A e \in End : c \in Held(e) => c \in registered
    /\ c \in (1..conns) \ broken => stage[lo][c] \in {"handshake", "offered", "slot"}

LinkInv == SourceInv /\ StageInv /\ ConnectorInv /\ RegisteredInv

ConnInv == Types /\ LinkInv

\* What was sent before what the writer of e has not got yet.
Taken(e) == Len(sent[e]) - Len(outgoing[e])

\* The queue to a writer holds the last messages its end sent, all of them given to the
\* connection in the slot.
OutgoingInv(e) ==
    /\ Taken(e) \in Nat
    /\ \A k \in 1..Len(outgoing[e]) : /\ outgoing[e][k] = Taken(e) + k
                                      /\ sent[e][Taken(e) + k].conn \in Slot(e)
    /\ \A i \in 1..Len(sent[e]) : stage[e][sent[e][i].conn] \in {"slot", "ended", "gone"}
    /\ \A c \in Conn : stage[e][c] = "ended" => outgoing[e] = <<>>

\* What a writer has taken is on the wire of its connection in the order sent, after
\* what the reader has got.
WireInv(e) == \A c \in Conn : \A k \in 1..Len(wire[e][c]) :
    /\ wire[e][c][k] \in 1..Taken(e)
    /\ sent[e][wire[e][c][k]].conn = c
    /\ \A l \in 1..k-1 : wire[e][c][l] < wire[e][c][k]

AcceptedInv(e) == \A i \in Range(accepted[Other(e)]) :
    /\ i \in 1..Taken(e)
    /\ \A w \in Range(wire[e][sent[e][i].conn]) : i < w

\* Message i of e, sent on c, is on the wire of c or got there, or never will.
Passed(e, c, i) == \/ AfterTooBig(e, i)
                   \/ i \in Range(wire[e][c]) \cup Range(accepted[Other(e)])

\* A connection that is not replaced loses no message ...
NoLossInv(e) == \A i \in 1..Len(sent[e]) : \A c \in Conn :
    sent[e][i].conn = c /\ stage[e][c] = "slot" => Passed(e, c, i) \/ i \in Range(outgoing[e])

\* ... and none overtakes another, on the wire or at its end.
NoGapInv(e) == \A c \in Conn : \A i \in Range(wire[e][c]) :
    \A j \in 1..i-1 : sent[e][j].conn = c => Passed(e, c, j)

OrderInv(e) == \A k \in 1..Len(accepted[Other(e)]) :
    LET i == accepted[Other(e)][k]
        before(j) == \E l \in 1..(k - 1) : accepted[Other(e)][l] = j
    IN  /\ ~ before(i)
        /\ \A j \in 1..(i - 1) :
              sent[e][j].conn = sent[e][i].conn => before(j) \/ AfterTooBig(e, j)

MessageInv == \A e \in End :
    /\ OutgoingInv(e) /\ WireInv(e) /\ AcceptedInv(e)
    /\ NoLossInv(e) /\ NoGapInv(e) /\ OrderInv(e)

-------------------------------------------------------------------------------
(* Types *)

LEMMA TwoEnds == End = {1, 2} /\ hi \in End /\ lo \in End /\ hi # lo
              /\ Other(lo) = hi /\ Other(hi) = lo
              /\ \A e \in End : Other(e) \in End /\ Other(e) # e /\ Other(Other(e)) = e
BY DEF End, hi, lo, Other

LEMMA SeqOfMore == ASSUME NEW S, NEW T, S \subseteq T PROVE Seq(S) \subseteq Seq(T)
OBVIOUS

LEMMA ConnType == Types => /\ 1..conns \subseteq Conn /\ conns \in Nat
                           /\ MaxConns \in Nat
                           /\ \A c \in 1..conns : c \in Nat
BY PeerLinkAssumption DEF Types, Conn

LEMMA TypesInit == Init => Types
<1> SUFFICES ASSUME Init PROVE Types
  OBVIOUS
<1>1. MaxConns \in Nat /\ 0 \in 0..MaxConns
  BY PeerLinkAssumption
<1>2. stage \in [End -> [Conn -> Stage]]
  BY DEF Init, Stage
<1>3. /\ connection_source \in [End -> Seq(1..conns)]
      /\ outgoing \in [End -> Seq(Nat)]
      /\ wire \in [End -> [Conn -> Seq(Nat)]]
      /\ sent \in [End -> Seq(Message)]
      /\ accepted \in [End -> Seq(Nat)]
  BY DEF Init
<1>4. reading \in [End -> SUBSET (1..conns)]
  BY DEF Init
<1>5. up \subseteq End /\ connector = "connect" /\ conns = 0 /\ registered = {}
      /\ broken = {} /\ breaks \in Nat /\ kills \in Nat
  BY DEF Init
<1> QED BY <1>1, <1>2, <1>3, <1>4, <1>5 DEF Types

LEMMA TypesConnect == Types /\ Connect => Types'
<1> SUFFICES ASSUME Types, Connect PROVE Types'
  OBVIOUS
<1>1. conns \in Nat /\ MaxConns \in Nat /\ conns' = conns + 1 /\ conns' \in 0..MaxConns
      /\ conns + 1 \in Conn /\ 1..conns \subseteq 1..conns'
  BY PeerLinkAssumption DEF Types, Connect, Conn
<1>2. stage' \in [End -> [Conn -> Stage]]
  BY TwoEnds DEF Types, Connect, Stage
<1>3. connection_source' \in [End -> Seq(1..conns')]
  <2>1. Seq(1..conns) \subseteq Seq(1..conns')
    BY <1>1, SeqOfMore
  <2> QED BY <2>1 DEF Types, Connect
<1>4. reading' \in [End -> SUBSET (1..conns')]
  BY <1>1 DEF Types, Connect
<1>5. /\ up' \subseteq End /\ connector' = "handshake"
      /\ registered' \subseteq 1..conns' /\ broken' \subseteq 1..conns'
      /\ outgoing' \in [End -> Seq(Nat)] /\ accepted' \in [End -> Seq(Nat)]
      /\ breaks' \in Nat /\ kills' \in Nat
  BY <1>1 DEF Types, Connect, msgVars, bounds
<1>6. wire' \in [End -> [Conn -> Seq(Nat)]] /\ sent' \in [End -> Seq(Message)]
  BY DEF Types, Connect, msgVars
<1> QED BY <1>1, <1>2, <1>3, <1>4, <1>5, <1>6 DEF Types

\* The steps that give a connection to the main loop of e.
LEMMA TypesOffer ==
    ASSUME Types, NEW e \in End, NEW c \in 1..conns,
           connection_source' = [connection_source EXCEPT ![e] = Append(@, c)],
           reading' = [reading EXCEPT ![e] = @ \cup {c}],
           stage' = [stage EXCEPT ![e][c] = "offered"]
    PROVE  /\ connection_source' \in [End -> Seq(1..conns)]
           /\ reading' \in [End -> SUBSET (1..conns)]
           /\ stage' \in [End -> [Conn -> Stage]]
<1>1. connection_source' \in [End -> Seq(1..conns)]
  BY DEF Types
<1>2. reading' \in [End -> SUBSET (1..conns)]
  BY DEF Types
<1>3. stage' \in [End -> [Conn -> Stage]]
  BY ConnType DEF Types, Stage
<1> QED BY <1>1, <1>2, <1>3

LEMMA TypesSendHandshake == Types /\ ConnectorInv /\ SendHandshake => Types'
<1> SUFFICES ASSUME Types, ConnectorInv, SendHandshake PROVE Types'
  OBVIOUS
<1>1. conns \in 1..conns /\ conns' = conns
  BY ConnType DEF SendHandshake, ConnectorInv, Conn
<1>2. /\ connection_source' \in [End -> Seq(1..conns)]
      /\ reading' \in [End -> SUBSET (1..conns)]
      /\ stage' \in [End -> [Conn -> Stage]]
  BY <1>1, TwoEnds, TypesOffer DEF SendHandshake
<1>3. /\ up' \subseteq End /\ connector' = "wait"
      /\ registered' \subseteq 1..conns /\ broken' \subseteq 1..conns
      /\ breaks' \in Nat /\ kills' \in Nat
  BY <1>1 DEF Types, SendHandshake, AfterHandshake, bounds
<1>4. UNCHANGED <<outgoing, wire, sent, accepted>>
  BY DEF SendHandshake, msgVars
<1> QED BY <1>1, <1>2, <1>3, <1>4 DEF Types

LEMMA TypesIdentify == ASSUME NEW c \in Conn, Types, Identify(c) PROVE Types'
<1>1. c \in 1..conns /\ conns' = conns
  BY DEF Types, Identify, tcpVars
<1>2. /\ connection_source' \in [End -> Seq(1..conns)]
      /\ reading' \in [End -> SUBSET (1..conns)]
      /\ stage' \in [End -> [Conn -> Stage]]
  BY <1>1, TwoEnds, TypesOffer DEF Identify
<1> QED BY <1>1, <1>2 DEF Types, Identify, procVars, tcpVars, msgVars, bounds

LEMMA TypesApplyConnection ==
    ASSUME NEW e \in End, NEW c \in Conn, Types, SourceInv, StageInv, ApplyConnection(e, c)
    PROVE  Types'
<1>1. connection_source' \in [End -> Seq(1..conns)]
  BY DEF Types, ApplyConnection
<1>2. reading' \in [End -> SUBSET (1..conns)]
  BY DEF Types, ApplyConnection
<1>3. stage' \in [End -> [Conn -> Stage]]
  BY DEF Types, ApplyConnection, Stage
<1>4. broken' \subseteq 1..conns
  BY DEF Types, StageInv, ApplyConnection, Slot
<1>5. outgoing' \in [End -> Seq(Nat)]
  BY DEF Types, ApplyConnection
<1> QED BY <1>1, <1>2, <1>3, <1>4, <1>5 DEF Types, ApplyConnection, procVars, bounds

LEMMA TypesSendToCluster ==
    ASSUME NEW e \in End, NEW big \in TooBig, Types, SendToCluster(e, big)
    PROVE  Types'
<1>1. Len(sent[e]) + 1 \in Nat /\ big \in BOOLEAN
  BY PeerLinkAssumption DEF Types
<1>2. outgoing' \in [End -> Seq(Nat)]
  BY <1>1 DEF Types, SendToCluster
<1>3. PICK c \in Conn : sent' = [sent EXCEPT ![e] = Append(@, [conn |-> c, big |-> big])]
  BY DEF SendToCluster, Slot
<1>4. [conn |-> c, big |-> big] \in Message
  BY <1>1 DEF Message
<1>5. sent' \in [End -> Seq(Message)]
  BY <1>3, <1>4 DEF Types
<1> QED BY <1>2, <1>5 DEF Types, SendToCluster, procVars, tcpVars, endVars, bounds

\* What a step of the writer of e takes off its queue, and the part of it that it
\* writes: all of it, or what comes before a message too big.
Written(e) == IF Fed(e) = 0 THEN Batch(e) ELSE SubSeq(Batch(e), 1, Fed(e) - 1)

LEMMA BatchEffect ==
    ASSUME Types, NEW e \in End
    PROVE  \E n \in 0..Len(outgoing[e]) :
              /\ n <= BATCH
              /\ n = 0 <=> outgoing[e] = <<>>
              /\ Batch(e) = SubSeq(outgoing[e], 1, n)
              /\ Len(Batch(e)) = n
              /\ Batch(e) \in Seq(Nat)
              /\ \A k \in 1..n : Batch(e)[k] = outgoing[e][k]
<1> DEFINE q == outgoing[e]
           n == Min({Len(q), BATCH})
<1>1. q \in Seq(Nat) /\ Len(q) \in Nat /\ BATCH \in Nat \ {0}
  BY PeerLinkAssumption DEF Types
<1>2. \E x \in {Len(q), BATCH} : \A y \in {Len(q), BATCH} : x <= y
  BY <1>1
<1>3. n \in {Len(q), BATCH} /\ n <= Len(q) /\ n <= BATCH
  BY <1>2 DEF Min
<1>4. n \in 0..Len(q) /\ (n = 0 <=> q = <<>>)
  BY <1>1, <1>3
<1>5. Batch(e) = SubSeq(q, 1, n)
  BY DEF Batch
<1> HIDE DEF n
<1>6. /\ SubSeq(q, 1, n) \in Seq(Nat) /\ Len(SubSeq(q, 1, n)) = n
      /\ \A k \in 1..n : SubSeq(q, 1, n)[k] = q[k]
  BY <1>1, <1>4, QueuePrefix
<1> QED BY <1>3, <1>4, <1>5, <1>6

LEMMA FedEffect ==
    ASSUME Types, NEW e \in End
    PROVE  \/ /\ Fed(e) = 0
              /\ \A k \in 1..Len(Batch(e)) : ~ sent[e][Batch(e)[k]].big
           \/ /\ Fed(e) \in 1..Len(Batch(e))
              /\ sent[e][Batch(e)[Fed(e)]].big
<1> DEFINE I == { k \in 1..Len(Batch(e)) : sent[e][Batch(e)[k]].big }
<1>1. Fed(e) = IF I # {} THEN Min(I) ELSE 0
  BY DEF Fed, SelectInSeq
<1>2. Len(Batch(e)) \in Nat
  BY BatchEffect
<1>3. CASE I = {}
  BY <1>1, <1>3
<1>4. CASE I # {}
  <2>1. I \subseteq Nat
    BY <1>2
  <2>2. \E x \in I : \A y \in I : x <= y
    <3> HIDE DEF I
    <3> QED BY <1>4, <2>1, Smallest
  <2>3. Min(I) \in I
    BY <2>2 DEF Min
  <2> QED BY <1>1, <1>4, <2>3
<1> QED BY <1>3, <1>4

\* What is written has no big message and is a beginning of the batch; what is left
\* of the batch starts with a big one.
LEMMA WrittenEffect ==
    ASSUME Types, NEW e \in End
    PROVE  \E m \in 0..Len(Batch(e)) :
              /\ Written(e) \in Seq(Nat) /\ Len(Written(e)) = m
              /\ \A k \in 1..m : Written(e)[k] = Batch(e)[k]
              /\ m < Len(Batch(e)) => sent[e][Batch(e)[m + 1]].big
<1> DEFINE b == Batch(e)
<1>1. b \in Seq(Nat) /\ Len(b) \in Nat
  BY BatchEffect
<1>2. CASE Fed(e) = 0
  BY <1>1, <1>2 DEF Written
<1>3. CASE Fed(e) # 0
  <2> DEFINE m == Fed(e) - 1
  <2>1. Fed(e) \in 1..Len(b) /\ sent[e][b[Fed(e)]].big
    BY <1>3, FedEffect
  <2>2. m \in 0..Len(b) /\ m + 1 = Fed(e) /\ m < Len(b)
    BY <1>1, <2>1
  <2>3. Written(e) = SubSeq(b, 1, m)
    BY <1>3 DEF Written
  <2> HIDE DEF m, b
  <2>4. /\ SubSeq(b, 1, m) \in Seq(Nat) /\ Len(SubSeq(b, 1, m)) = m
        /\ \A k \in 1..m : SubSeq(b, 1, m)[k] = b[k]
    BY <1>1, <2>2, QueuePrefix
  <2> QED BY <2>1, <2>2, <2>3, <2>4 DEF b
<1> QED BY <1>2, <1>3

\* What is left on the queue.
LEMMA RestEffect ==
    ASSUME Types, NEW e \in End, NEW n \in 0..Len(outgoing[e]), n = Len(Batch(e))
    PROVE  LET rest == SubSeq(outgoing[e], Len(Batch(e)) + 1, Len(outgoing[e]))
           IN  /\ rest \in Seq(Nat)
               /\ Len(rest) = Len(outgoing[e]) - n
               /\ \A k \in 1..Len(rest) : rest[k] = outgoing[e][n + k]
<1> DEFINE q == outgoing[e]
           rest == SubSeq(q, n + 1, Len(q))
<1>1. q \in Seq(Nat) /\ Len(q) \in Nat /\ n \in 0..Len(q)
  BY DEF Types
<1> HIDE DEF q
<1>2. rest \in Seq(Nat) /\ Len(rest) = Len(q) - n
  BY <1>1
<1>3. \A k \in 1..Len(rest) : rest[k] = q[n + k]
  BY <1>1
<1> QED BY <1>2, <1>3 DEF q

LEMMA TypesWriterWrites ==
    ASSUME NEW e \in End, Types, WriterWrites(e)
    PROVE  Types'
<1>1. PICK c \in Slot(e) \ broken : wire' = [wire EXCEPT ![e][c] = @ \o Written(e)]
  BY DEF WriterWrites, Written
<1>2. c \in Conn /\ Written(e) \in Seq(Nat) /\ wire[e] \in [Conn -> Seq(Nat)]
  BY WrittenEffect DEF Slot, Types
<1>3. wire[e][c] \o Written(e) \in Seq(Nat)
  BY <1>2
<1>4. [wire[e] EXCEPT ![c] = @ \o Written(e)] \in [Conn -> Seq(Nat)]
  BY <1>2, <1>3
<1>5. wire' \in [End -> [Conn -> Seq(Nat)]]
  BY <1>1, <1>4 DEF Types
<1>6. outgoing' \in [End -> Seq(Nat)]
  <2>1. PICK n \in 0..Len(outgoing[e]) : n = Len(Batch(e))
    BY BatchEffect
  <2>2. SubSeq(outgoing[e], Len(Batch(e)) + 1, Len(outgoing[e])) \in Seq(Nat)
    BY <2>1, RestEffect
  <2>3. outgoing' = [outgoing EXCEPT ![e] = SubSeq(@, Len(Batch(e)) + 1, Len(@))]
    BY DEF WriterWrites
  <2> QED BY <2>2, <2>3 DEF Types
<1> QED BY <1>5, <1>6 DEF Types, WriterWrites, procVars, tcpVars, endVars, bounds

LEMMA TypesDeliver ==
    ASSUME NEW e \in End, NEW c \in Conn, Types, Deliver(e, c)
    PROVE  Types'
<1>1. Other(e) \in End
  BY TwoEnds
<1>2. /\ wire[Other(e)][c] \in Seq(Nat) /\ wire[Other(e)][c] # <<>>
      /\ wire[Other(e)] \in [Conn -> Seq(Nat)]
  BY <1>1 DEF Types, Deliver
<1>3. Head(wire[Other(e)][c]) \in Nat /\ Tail(wire[Other(e)][c]) \in Seq(Nat)
  BY <1>2
<1>4. accepted' \in [End -> Seq(Nat)]
  BY <1>3 DEF Types, Deliver
<1>5. [wire[Other(e)] EXCEPT ![c] = Tail(@)] \in [Conn -> Seq(Nat)]
  BY <1>2, <1>3
<1>6. wire' \in [End -> [Conn -> Seq(Nat)]]
  BY <1>1, <1>5 DEF Types, Deliver
<1> QED BY <1>4, <1>6 DEF Types, Deliver, procVars, tcpVars, endVars, bounds

LEMMA TypesKill ==
    ASSUME NEW e \in End, Types, Kill(e)
    PROVE  Types'
<1>1. stage' \in [End -> [Conn -> Stage]]
  BY DEF Types, Kill, Stage
<1>2. connection_source' \in [End -> Seq(1..conns)] /\ outgoing' \in [End -> Seq(Nat)]
  BY DEF Types, Kill
<1>3. reading' \in [End -> SUBSET (1..conns)]
  BY DEF Types, Kill
<1>4. kills' \in Nat /\ up' \subseteq End /\ connector' \in {"connect", "handshake", "wait"}
  BY DEF Types, Kill
<1>5. UNCHANGED <<conns, registered, wire, sent, accepted, breaks>> /\ broken' = 1..conns
  BY DEF Kill
<1> QED BY <1>1, <1>2, <1>3, <1>4, <1>5 DEF Types

\* The steps of the connections' tasks and of the faults that change little.
LEMMA TypesRest ==
    ASSUME Types,
           \/ HandshakeFails
           \/ \E c \in Conn : IdentifyFails(c) \/ Break(c)
           \/ \E e \in End : SendFails(e) \/ WriterFails(e) \/ Restart(e)
           \/ UNCHANGED vars
    PROVE  Types'
<1> USE DEF Types
<1>1. CASE HandshakeFails
  BY <1>1 DEF HandshakeFails, tcpVars, endVars, msgVars, bounds
<1>2. ASSUME NEW c \in Conn, IdentifyFails(c) PROVE Types'
  <2>1. stage' \in [End -> [Conn -> Stage]]
    BY <1>2 DEF IdentifyFails, Stage
  <2> QED BY <1>2, <2>1 DEF IdentifyFails, procVars, tcpVars, msgVars, bounds
<1>3. ASSUME NEW c \in Conn, Break(c) PROVE Types'
  <2>1. breaks' \in Nat /\ broken' \subseteq 1..conns
    BY <1>3 DEF Break
  <2> QED BY <1>3, <2>1 DEF Break, procVars, endVars, msgVars
<1>4. ASSUME NEW e \in End, SendFails(e) PROVE Types'
  <2>1. stage' \in [End -> [Conn -> Stage]] /\ connector' \in {"connect", "handshake", "wait"}
    BY <1>4 DEF SendFails, Stage
  <2> QED BY <1>4, <2>1 DEF SendFails, tcpVars, msgVars, bounds
<1>5. ASSUME NEW e \in End, WriterFails(e) PROVE Types'
  <2>1. PICK c \in broken : stage' = [stage EXCEPT ![e][c] = "ended"]
    BY <1>5 DEF WriterFails
  <2>2. c \in Conn
    BY ConnType
  <2>3. stage' \in [End -> [Conn -> Stage]]
    BY <2>1, <2>2 DEF Stage
  <2>4. outgoing' \in [End -> Seq(Nat)]
    BY <1>5 DEF WriterFails
  <2> QED BY <1>5, <2>3, <2>4 DEF WriterFails, procVars, tcpVars, bounds
<1>6. ASSUME NEW e \in End, Restart(e) PROVE Types'
  BY <1>6 DEF Restart, tcpVars, endVars, msgVars, bounds
<1>7. CASE UNCHANGED vars
  BY <1>7 DEF vars, procVars, tcpVars, endVars, msgVars, bounds
<1> QED BY <1>1, <1>2, <1>3, <1>4, <1>5, <1>6, <1>7

-------------------------------------------------------------------------------
(* Where the connections are *)

LEMMA LinkInit == Init => LinkInv
<1> SUFFICES ASSUME Init PROVE LinkInv
  OBVIOUS
<1>1. /\ conns = 0 /\ connector = "connect" /\ registered = {} /\ broken = {}
      /\ \A e \in End : connection_source[e] = <<>>
      /\ \A e \in End : \A c \in Conn : stage[e][c] = "none"
  BY DEF Init
<1>2. \A e \in End : Slot(e) = {} /\ Held(e) = {} /\ Offered(e) = {}
  BY <1>1 DEF Slot, Held, Offered
<1>3. IsInjective(<<>>) /\ ToSet(<<>>) = {}
  BY DEF IsInjective, ToSet
<1>4. SourceInv
  BY <1>1, <1>2, <1>3 DEF SourceInv
<1>5. StageInv /\ ConnectorInv
  BY <1>1, <1>2, TwoEnds DEF StageInv, ConnectorInv
<1>6. RegisteredInv
  BY <1>1, <1>2 DEF RegisteredInv
<1> QED BY <1>4, <1>5, <1>6 DEF LinkInv

LEMMA LinkFrame ==
    ASSUME LinkInv,
           UNCHANGED <<connector, conns, registered, broken, stage, connection_source>>
    PROVE  LinkInv'
BY DEF LinkInv, SourceInv, StageInv, ConnectorInv, RegisteredInv, Slot, Held, Offered

\* The places of the connections stay as consistent as they were.
LEMMA StageKept ==
    ASSUME StageInv, UNCHANGED <<conns, broken>>, \A f \in End : Slot(f)' = Slot(f),
           NEW e \in End, NEW c \in 1..conns,
           stage'[e][c] = "gone" => c \in broken, stage'[e][c] # "ended",
           \A f \in End : \A d \in Conn : (f = e /\ d = c) \/ stage'[f][d] = stage[f][d]
    PROVE  StageInv'
<1>1. \A f \in End : \A x, y \in Slot(f)' : x = y
  BY DEF StageInv
<1>2. \A f \in End : \A d \in Conn : stage'[f][d] # "none" => d \in 1..conns
  BY DEF StageInv
<1>3. \A f \in End : \A d \in Conn : stage'[f][d] \in {"ended", "gone"} => d \in broken
  BY DEF StageInv
<1> QED BY <1>1, <1>2, <1>3 DEF StageInv

LEMMA SourceFrame ==
    ASSUME SourceInv, UNCHANGED connection_source,
           \A e \in End : \A c \in Conn : stage'[e][c] = "offered" <=> stage[e][c] = "offered"
    PROVE  SourceInv'
<1>1. \A e \in End : Offered(e)' = Offered(e)
  BY DEF Offered
<1> QED BY <1>1 DEF SourceInv

LEMMA SourceOffer ==
    ASSUME Types, SourceInv, NEW e \in End, NEW c \in 1..conns,
           stage[e][c] # "offered",
           stage' = [stage EXCEPT ![e][c] = "offered"],
           connection_source' = [connection_source EXCEPT ![e] = Append(@, c)]
    PROVE  SourceInv'
<1>0. c \in Conn
  BY ConnType
<1>1. \A f \in End : Offered(f)' = IF f = e THEN Offered(f) \cup {c} ELSE Offered(f)
  <2>1. \A f \in End : \A d \in Conn :
           stage'[f][d] = IF f = e /\ d = c THEN "offered" ELSE stage[f][d]
    BY <1>0 DEF Types
  <2> QED BY <1>0, <2>1 DEF Offered
<1>2. /\ connection_source[e] \in Seq(1..conns)
      /\ IsInjective(connection_source[e]) /\ ToSet(connection_source[e]) = Offered(e)
      /\ c \notin Offered(e)
  BY DEF Types, SourceInv, Offered
<1>3. /\ IsInjective(Append(connection_source[e], c))
      /\ ToSet(Append(connection_source[e], c)) = Offered(e) \cup {c}
  <2> DEFINE q == connection_source[e]
  <2>1. q \in Seq(1..conns) /\ c \in 1..conns /\ IsInjective(q) /\ ToSet(q) = Offered(e)
        /\ c \notin ToSet(q)
    BY <1>2
  <2> HIDE DEF q
  <2>2. /\ ToSet(Append(q, c)) = ToSet(q) \cup {c}
        /\ IsInjective(q) /\ c \notin ToSet(q) => IsInjective(Append(q, c))
    BY <2>1, QueueAppend
  <2> QED BY <2>1, <2>2 DEF q
<1>4. \A f \in End : connection_source'[f] = IF f = e THEN Append(connection_source[e], c)
                                             ELSE connection_source[f]
  BY DEF Types
<1> QED BY <1>1, <1>3, <1>4 DEF SourceInv

LEMMA LinkConnect == ConnInv /\ Connect => LinkInv'
<1> SUFFICES ASSUME Types, LinkInv, Connect PROVE LinkInv'
  BY DEF ConnInv
<1> USE DEF LinkInv
<1>0. /\ conns \in Nat /\ MaxConns \in Nat /\ conns' = conns + 1 /\ conns' \in Conn
      /\ conns' \notin 1..conns /\ 1..conns' = 1..conns \cup {conns'}
  BY PeerLinkAssumption DEF Types, Connect, Conn
<1>1. \A f \in End : \A d \in Conn :
         stage'[f][d] = IF f = lo /\ d = conns' THEN "handshake" ELSE stage[f][d]
  <2>1. stage' = [stage EXCEPT ![lo][conns'] = "handshake"]
    BY <1>0 DEF Connect
  <2>2. stage'[lo] = [stage[lo] EXCEPT ![conns'] = "handshake"] /\ stage'[hi] = stage[hi]
    BY <2>1, TwoEnds DEF Types
  <2>3. stage[lo] \in [Conn -> Stage] /\ \A f \in End : f = lo \/ f = hi
    BY TwoEnds DEF Types, lo, hi
  <2> QED BY <1>0, <2>2, <2>3, TwoEnds
<1>2. /\ UNCHANGED <<registered, broken, connection_source>>
      /\ connector = "connect" /\ connector' = "handshake"
  BY DEF Connect
<1>3. /\ \A f \in End : stage[f][conns'] = "none"
      /\ registered \subseteq 1..conns
  BY <1>0 DEF StageInv, Types
<1>4. SourceInv'
  BY <1>1, <1>2, <1>3, SourceFrame
<1>5. \A f \in End : Slot(f)' = Slot(f) /\ Held(f)' = Held(f)
  <2>1. \A f \in End : Slot(f)' = Slot(f)
    BY <1>1, <1>3 DEF Slot
  <2>2. \A f \in End : Held(f)' = Held(f)
    BY <1>1, <1>3 DEF Held
  <2> QED BY <2>1, <2>2
<1>6. StageInv'
  <2>1. \A f \in End : \A x, y \in Slot(f)' : x = y
    BY <1>5 DEF StageInv
  <2>2. \A f \in End : \A d \in Conn : stage'[f][d] # "none" => d \in 1..conns'
    BY <1>0, <1>1 DEF StageInv
  <2>3. \A f \in End : \A d \in Conn : stage'[f][d] \in {"ended", "gone"} => d \in broken'
    BY <1>1, <1>2 DEF StageInv
  <2> QED BY <2>1, <2>2, <2>3 DEF StageInv
<1>7. ConnectorInv'
  BY <1>0, <1>1, <1>2, <1>3, <1>5, TwoEnds DEF ConnectorInv
<1>8. RegisteredInv'
  BY <1>0, <1>1, <1>2, <1>5, TwoEnds DEF RegisteredInv
<1> QED BY <1>4, <1>6, <1>7, <1>8

LEMMA LinkSendHandshake == ConnInv /\ SendHandshake => LinkInv'
<1> SUFFICES ASSUME Types, LinkInv, SendHandshake PROVE LinkInv'
  BY DEF ConnInv
<1> USE DEF LinkInv
<1>0. conns \in Conn /\ conns \in 1..conns /\ stage[hi][conns] = "none" /\ Held(hi) = {}
  BY ConnType DEF SendHandshake, ConnectorInv, Conn
<1>1. \A f \in End : \A d \in Conn :
         stage'[f][d] = IF f = hi /\ d = conns THEN "offered" ELSE stage[f][d]
  <2>1. stage' = [stage EXCEPT ![hi][conns] = "offered"]
    BY DEF SendHandshake
  <2>2. stage'[hi] = [stage[hi] EXCEPT ![conns] = "offered"] /\ stage'[lo] = stage[lo]
    BY <2>1, TwoEnds DEF Types
  <2>3. stage[hi] \in [Conn -> Stage] /\ \A f \in End : f = lo \/ f = hi
    BY TwoEnds DEF Types, lo, hi
  <2> QED BY <1>0, <2>2, <2>3, TwoEnds
<1>2. /\ UNCHANGED <<conns, broken>> /\ registered' = registered \cup {conns}
      /\ connector' = "wait"
  BY DEF SendHandshake, AfterHandshake
<1>4. SourceInv'
  BY <1>0, TwoEnds, SourceOffer DEF SendHandshake
<1>5. /\ \A f \in End : Slot(f)' = Slot(f)
      /\ Held(hi)' = {conns} /\ Held(lo)' = Held(lo)
  BY <1>0, <1>1, TwoEnds DEF Slot, Held
<1>6. StageInv'
  BY <1>0, <1>1, <1>2, <1>5, StageKept, TwoEnds
<1>7. ConnectorInv'
  BY <1>0, <1>1, <1>2, <1>5, TwoEnds DEF ConnectorInv
<1>8. RegisteredInv'
  BY <1>0, <1>1, <1>2, <1>5, TwoEnds DEF RegisteredInv
<1> QED BY <1>4, <1>6, <1>7, <1>8

LEMMA LinkHandshakeFails == ConnInv /\ HandshakeFails => LinkInv'
<1> SUFFICES ASSUME Types, LinkInv, HandshakeFails PROVE LinkInv'
  BY DEF ConnInv
<1> USE DEF LinkInv
<1>1. UNCHANGED <<conns, registered, broken, stage, connection_source>>
      /\ connector = "handshake" /\ connector' = "connect"
  BY DEF HandshakeFails, tcpVars, endVars
<1>2. \A f \in End : Slot(f)' = Slot(f) /\ Held(f)' = Held(f)
  BY <1>1 DEF Slot, Held
<1>3. SourceInv' /\ StageInv'
  BY <1>1, <1>2, SourceFrame DEF StageInv
<1>4. ConnectorInv'
  BY <1>1, <1>2, TwoEnds DEF ConnectorInv
<1>5. RegisteredInv'
  BY <1>1, <1>2 DEF RegisteredInv
<1> QED BY <1>3, <1>4, <1>5

LEMMA LinkIdentify == ASSUME NEW c \in Conn, ConnInv, Identify(c) PROVE LinkInv'
<1> USE DEF LinkInv, ConnInv
<1>0. c \in 1..conns /\ stage[lo][c] = "handshake" /\ c \in registered
  BY DEF Types, Identify
<1>1. \A f \in End : \A d \in Conn :
         stage'[f][d] = IF f = lo /\ d = c THEN "offered" ELSE stage[f][d]
  <2>1. stage' = [stage EXCEPT ![lo][c] = "offered"]
    BY DEF Identify
  <2>2. stage'[lo] = [stage[lo] EXCEPT ![c] = "offered"] /\ stage'[hi] = stage[hi]
    BY <2>1, TwoEnds DEF Types
  <2>3. stage[lo] \in [Conn -> Stage] /\ \A f \in End : f = lo \/ f = hi
    BY TwoEnds DEF Types, lo, hi
  <2> QED BY <1>0, <2>2, <2>3, TwoEnds
<1>2. UNCHANGED <<conns, broken, registered, connector>>
  BY DEF Identify, procVars, tcpVars
<1>4. SourceInv'
  BY <1>0, TwoEnds, SourceOffer DEF Identify
<1>5. /\ \A f \in End : Slot(f)' = Slot(f)
      /\ Held(lo)' = Held(lo) \cup {c} /\ Held(hi)' = Held(hi)
  <2>1. \A f \in End : Slot(f)' = Slot(f)
    BY <1>0, <1>1 DEF Slot
  <2>2. \A d \in Conn : /\ stage'[lo][d] = IF d = c THEN "offered" ELSE stage[lo][d]
                        /\ stage'[hi][d] = stage[hi][d]
    BY <1>1, TwoEnds
  <2>3. Held(lo)' = Held(lo) \cup {c}
    BY <1>0, <2>2 DEF Held
  <2>4. Held(hi)' = Held(hi)
    BY <2>2 DEF Held
  <2> QED BY <2>1, <2>3, <2>4
<1>6. StageInv'
  BY <1>0, <1>1, <1>2, <1>5, StageKept, TwoEnds
<1>7. ConnectorInv'
  BY <1>1, <1>2, <1>5, TwoEnds DEF ConnectorInv
<1>8. RegisteredInv'
  BY <1>0, <1>1, <1>2, <1>5, TwoEnds DEF RegisteredInv
<1> QED BY <1>4, <1>6, <1>7, <1>8

LEMMA LinkIdentifyFails == ASSUME NEW c \in Conn, ConnInv, IdentifyFails(c) PROVE LinkInv'
<1> USE DEF LinkInv, ConnInv
<1>0. c \in broken /\ c \in 1..conns /\ stage[lo][c] = "handshake"
  BY DEF Types, IdentifyFails
<1>1. \A f \in End : \A d \in Conn :
         stage'[f][d] = IF f = lo /\ d = c THEN "gone" ELSE stage[f][d]
  <2>1. stage' = [stage EXCEPT ![lo][c] = "gone"]
    BY DEF IdentifyFails
  <2>2. stage'[lo] = [stage[lo] EXCEPT ![c] = "gone"] /\ stage'[hi] = stage[hi]
    BY <2>1, TwoEnds DEF Types
  <2>3. stage[lo] \in [Conn -> Stage] /\ \A f \in End : f = lo \/ f = hi
    BY TwoEnds DEF Types, lo, hi
  <2> QED BY <1>0, <2>2, <2>3, TwoEnds
<1>2. UNCHANGED <<conns, broken, registered, connector, connection_source>>
  BY DEF IdentifyFails, procVars, tcpVars
<1>4. SourceInv'
  BY <1>0, <1>1, <1>2, SourceFrame
<1>5. \A f \in End : Slot(f)' = Slot(f) /\ Held(f)' = Held(f)
  <2>1. \A f \in End : Slot(f)' = Slot(f)
    BY <1>0, <1>1 DEF Slot
  <2>2. \A f \in End : Held(f)' = Held(f)
    BY <1>0, <1>1 DEF Held
  <2> QED BY <2>1, <2>2
<1>6. StageInv'
  BY <1>0, <1>1, <1>2, <1>5, StageKept, TwoEnds
<1>7. ConnectorInv'
  BY <1>1, <1>2, <1>5, TwoEnds DEF ConnectorInv
<1>8. RegisteredInv'
  BY <1>0, <1>1, <1>2, <1>5, TwoEnds DEF RegisteredInv
<1> QED BY <1>4, <1>6, <1>7, <1>8

\* What the main loop takes is a connection that was offered to it.
LEMMA SourceHead ==
    ASSUME NEW e \in End, NEW c, Types, SourceInv,
           connection_source[e] # <<>>, c = Head(connection_source[e])
    PROVE  LET rest == Tail(connection_source[e])
           IN  /\ c \in Offered(e)
               /\ IsInjective(rest) /\ ToSet(rest) = Offered(e) \ {c}
<1> DEFINE q == connection_source[e]
<1>1. q \in Seq(1..conns) /\ IsInjective(q) /\ ToSet(q) = Offered(e) /\ q # <<>> /\ c = Head(q)
  BY DEF SourceInv, Types
<1> HIDE DEF q
<1>2. /\ IsInjective(Tail(q)) /\ ToSet(Tail(q)) = Offered(e) \ {c} /\ c \in Offered(e)
  BY <1>1, QueueTail
<1> QED BY <1>2 DEF q

LEMMA LinkApplyConnection ==
    ASSUME NEW e \in End, NEW c \in Conn, ConnInv, ApplyConnection(e, c)
    PROVE  LinkInv'
<1> USE DEF LinkInv, ConnInv
<1> DEFINE q == connection_source[e]
<1>1. /\ IsInjective(Tail(q)) /\ ToSet(Tail(q)) = Offered(e) \ {c} /\ c \in Offered(e)
  BY SourceHead DEF ApplyConnection
<1>2. stage[e][c] = "offered" /\ c \in Held(e) /\ c \notin Slot(e)
  BY <1>1 DEF Offered, Held, Slot
<1>3. \A f \in End : \A d \in Conn :
         stage'[f][d] = IF f = e /\ d = c THEN "slot"
                        ELSE IF f = e /\ d \in Slot(e) THEN "gone" ELSE stage[f][d]
  <2>1. stage' = [stage EXCEPT ![e] = [d \in Conn |->
           IF d = c THEN "slot" ELSE IF d \in Slot(e) THEN "gone" ELSE stage[e][d]]]
    BY DEF ApplyConnection
  <2> QED BY <2>1 DEF Types
<1>4. UNCHANGED <<conns, registered, connector>> /\ broken' = broken \cup Slot(e)
  BY DEF ApplyConnection, procVars
<1>5. \A f \in End : Offered(f)' = IF f = e THEN Offered(f) \ {c} ELSE Offered(f)
  BY <1>2, <1>3 DEF Offered, Slot
<1>6. \A f \in End : Slot(f)' = IF f = e THEN {c} ELSE Slot(f)
  BY <1>2, <1>3 DEF Slot
<1>7. \A f \in End : Held(f)' = IF f = e THEN (Held(f) \ Slot(f)) \cup {c} ELSE Held(f)
  <2>1. \A d \in Conn : stage[e][d] \in {"slot", "ended"} <=> d \in Slot(e)
    BY DEF Slot
  <2> QED BY <1>2, <1>3, <2>1 DEF Held
<1>8. SourceInv'
  <2>1. \A f \in End : connection_source'[f] = IF f = e THEN Tail(q) ELSE connection_source[f]
    BY DEF ApplyConnection, Types
  <2> QED BY <1>1, <1>5, <2>1 DEF SourceInv
<1>9. StageInv'
  <2>1. \A f \in End : \A x, y \in Slot(f)' : x = y
    BY <1>6 DEF StageInv
  <2>2. \A f \in End : \A d \in Conn : stage'[f][d] # "none" => stage[f][d] # "none"
    BY <1>2, <1>3 DEF Slot
  <2>3. \A f \in End : \A d \in Conn : stage'[f][d] \in {"ended", "gone"} => d \in broken'
    BY <1>3, <1>4 DEF StageInv
  <2> QED BY <1>4, <2>1, <2>2, <2>3 DEF StageInv
<1>10. ConnectorInv'
  <2>1. connector = "wait" => \E d \in Conn : Held(hi)' = {d}
    <3>1. ASSUME e = hi, NEW d \in Conn, Held(hi) = {d} PROVE Held(hi)' = {d}
      <4>1. c = d /\ Slot(hi) \subseteq Held(hi)
        BY <1>2, <3>1 DEF Slot, Held
      <4> QED BY <1>2, <1>7, <3>1, <4>1
    <3> QED BY <1>7, <3>1, TwoEnds DEF ConnectorInv
  <2>2. connector # "wait" => Held(hi)' = {}
    BY <1>2, <1>7, TwoEnds DEF ConnectorInv
  <2>3. \A d \in Conn : stage'[hi][d] # "handshake"
    BY <1>3, TwoEnds DEF ConnectorInv
  <2>4. connector = "handshake" => conns \in Conn \ registered /\ stage'[hi][conns] = "none"
    BY <1>2, <1>3, TwoEnds DEF ConnectorInv, Slot
  <2> QED BY <1>4, <2>1, <2>2, <2>3, <2>4 DEF ConnectorInv
<1>11. RegisteredInv'
  <2>1. \A d \in Conn : d \in registered => stage'[hi][d] # "none"
    BY <1>3, TwoEnds DEF RegisteredInv
  <2>2. \A f \in End : \A d \in Conn : d \in Held(f)' => d \in registered
    BY <1>2, <1>7 DEF RegisteredInv
  <2>3. \A d \in Conn : d \in (1..conns) \ broken' =>
           stage'[lo][d] \in {"handshake", "offered", "slot"}
    BY <1>3, <1>4, TwoEnds DEF RegisteredInv
  <2> QED BY <1>4, <2>1, <2>2, <2>3 DEF RegisteredInv
<1> QED BY <1>8, <1>9, <1>10, <1>11

LEMMA LinkSendFails == ASSUME NEW e \in End, ConnInv, SendFails(e) PROVE LinkInv'
<1> USE DEF LinkInv, ConnInv
<1>0. PICK c \in Conn : /\ stage[e][c] = "ended"
                        /\ stage' = [stage EXCEPT ![e][c] = "gone"]
  BY DEF SendFails
<1>1. \A f \in End : \A d \in Conn :
         stage'[f][d] = IF f = e /\ d = c THEN "gone" ELSE stage[f][d]
  BY <1>0 DEF Types
<1>2. UNCHANGED <<conns, broken, registered, connection_source>>
      /\ connector' = IF e = hi THEN "connect" ELSE connector
  BY DEF SendFails, tcpVars
<1>3. c \in broken
  BY <1>0 DEF StageInv
<1>4. SourceInv'
  BY <1>0, <1>1, <1>2, SourceFrame
<1>5. \A f \in End : Slot(f)' = IF f = e THEN Slot(f) \ {c} ELSE Slot(f)
  BY <1>0, <1>1 DEF Slot
<1>6. \A f \in End : Held(f)' = IF f = e THEN Held(f) \ {c} ELSE Held(f)
  BY <1>0, <1>1 DEF Held
<1>7. StageInv'
  BY <1>0, <1>1, <1>2, <1>3, <1>5 DEF StageInv
<1>8. e = hi => Held(hi)' = {}
  BY <1>0, <1>6, TwoEnds DEF ConnectorInv, Held
<1>9. ConnectorInv'
  BY <1>1, <1>2, <1>6, <1>8, TwoEnds DEF ConnectorInv
<1>10. RegisteredInv'
  BY <1>0, <1>1, <1>2, <1>3, <1>6, TwoEnds DEF RegisteredInv
<1> QED BY <1>4, <1>7, <1>9, <1>10

LEMMA LinkWriterFails == ASSUME NEW e \in End, ConnInv, WriterFails(e) PROVE LinkInv'
<1> USE DEF LinkInv, ConnInv
<1>0. PICK c \in broken : /\ stage[e][c] = "slot"
                          /\ stage' = [stage EXCEPT ![e][c] = "ended"]
  BY DEF WriterFails
<1>1. c \in Conn /\ c \in 1..conns
  BY ConnType DEF Types
<1>2. \A f \in End : \A d \in Conn :
         stage'[f][d] = IF f = e /\ d = c THEN "ended" ELSE stage[f][d]
  BY <1>0, <1>1 DEF Types
<1>3. UNCHANGED <<conns, broken, registered, connection_source, connector>>
  BY DEF WriterFails, tcpVars, procVars
<1>4. SourceInv'
  BY <1>0, <1>2, <1>3, SourceFrame
<1>5. \A f \in End : Slot(f)' = Slot(f)
  BY <1>0, <1>2 DEF Slot
<1>6. \A f \in End : Held(f)' = Held(f)
  BY <1>0, <1>2 DEF Held
<1>7. StageInv'
  BY <1>0, <1>1, <1>2, <1>3, <1>5 DEF StageInv
<1>8. ConnectorInv'
  BY <1>0, <1>2, <1>3, <1>6, TwoEnds DEF ConnectorInv
<1>9. RegisteredInv'
  BY <1>0, <1>2, <1>3, <1>6, TwoEnds DEF RegisteredInv
<1> QED BY <1>4, <1>7, <1>8, <1>9

LEMMA LinkBreak == ASSUME NEW c \in Conn, ConnInv, Break(c) PROVE LinkInv'
<1> USE DEF LinkInv, ConnInv
<1>1. /\ UNCHANGED <<stage, conns, registered, connection_source, connector>>
      /\ broken' = broken \cup {c}
  BY DEF Break, procVars, endVars
<1>2. \A f \in End : Slot(f)' = Slot(f) /\ Held(f)' = Held(f)
  BY <1>1 DEF Slot, Held
<1>3. SourceInv'
  BY <1>1, SourceFrame
<1>4. StageInv'
  BY <1>1, <1>2 DEF StageInv
<1>5. ConnectorInv'
  BY <1>1, <1>2, TwoEnds DEF ConnectorInv
<1>6. RegisteredInv'
  BY <1>1, <1>2 DEF RegisteredInv
<1> QED BY <1>3, <1>4, <1>5, <1>6

LEMMA LinkKill == ASSUME NEW e \in End, ConnInv, Kill(e) PROVE LinkInv'
<1> USE DEF LinkInv, ConnInv
<1>1. \A f \in End : \A d \in Conn :
         stage'[f][d] = IF f = e THEN IF d \in 1..conns THEN "gone" ELSE "none"
                        ELSE stage[f][d]
  BY DEF Types, Kill
<1>2. /\ UNCHANGED <<conns, registered>> /\ broken' = 1..conns
      /\ connector' = IF e = hi THEN "connect" ELSE connector
  BY DEF Kill
<1>3. \A f \in End : connection_source'[f] = IF f = e THEN <<>> ELSE connection_source[f]
  BY DEF Kill, Types
<1>4. \A f \in End : Slot(f)' = IF f = e THEN {} ELSE Slot(f)
  BY <1>1 DEF Slot
<1>5. \A f \in End : Held(f)' = IF f = e THEN {} ELSE Held(f)
  BY <1>1 DEF Held
<1>6. \A f \in End : Offered(f)' = IF f = e THEN {} ELSE Offered(f)
  BY <1>1 DEF Offered
<1>7. SourceInv'
  <2>1. IsInjective(<<>>) /\ ToSet(<<>>) = {}
    BY DEF IsInjective, ToSet
  <2> QED BY <1>3, <1>6, <2>1 DEF SourceInv
<1>0. registered \subseteq 1..conns /\ broken \subseteq 1..conns
  BY DEF Types
<1>8. StageInv'
  <2>1. \A f \in End : \A x, y \in Slot(f)' : x = y
    BY <1>4 DEF StageInv
  <2>2. \A f \in End : \A d \in Conn : stage'[f][d] # "none" => d \in 1..conns
    BY <1>1 DEF StageInv
  <2> QED BY <1>2, <2>1, <2>2 DEF StageInv
<1>9. ConnectorInv'
  BY <1>1, <1>2, <1>5, TwoEnds DEF ConnectorInv
<1>10. RegisteredInv'
  <2>1. \A d \in registered : d \in 1..conns
    BY <1>0
  <2>2. \A d \in Conn : d \in registered => stage'[hi][d] # "none"
    BY <1>1, <2>1, TwoEnds DEF RegisteredInv
  <2>3. \A f \in End : \A d \in Conn : d \in Held(f)' => d \in registered
    BY <1>5 DEF RegisteredInv
  <2>4. (1..conns') \ broken' = {}
    BY <1>2
  <2> QED BY <1>2, <2>2, <2>3, <2>4 DEF RegisteredInv
<1> QED BY <1>7, <1>8, <1>9, <1>10

LEMMA ConnStepInv == ConnInv /\ [Next]_vars => ConnInv'
<1> SUFFICES ASSUME ConnInv, [Next]_vars PROVE ConnInv'
  OBVIOUS
<1>1. Types /\ LinkInv
  BY DEF ConnInv
<1>2. SourceInv /\ StageInv /\ ConnectorInv
  BY <1>1 DEF LinkInv
<1>3. CASE Connect
  BY <1>1, <1>3, TypesConnect, LinkConnect DEF ConnInv
<1>4. CASE SendHandshake
  BY <1>1, <1>2, <1>4, TypesSendHandshake, LinkSendHandshake DEF ConnInv
<1>5. CASE HandshakeFails
  BY <1>1, <1>5, TypesRest, LinkHandshakeFails DEF ConnInv
<1>6. ASSUME NEW c \in Conn, Identify(c) PROVE ConnInv'
  BY <1>1, <1>6, TypesIdentify, LinkIdentify DEF ConnInv
<1>7. ASSUME NEW c \in Conn, IdentifyFails(c) PROVE ConnInv'
  BY <1>1, <1>7, TypesRest, LinkIdentifyFails DEF ConnInv
<1>8. ASSUME NEW c \in Conn, NEW e \in End, ApplyConnection(e, c) PROVE ConnInv'
  BY <1>1, <1>2, <1>8, TypesApplyConnection, LinkApplyConnection DEF ConnInv
<1>9. ASSUME NEW c \in Conn, Break(c) PROVE ConnInv'
  BY <1>1, <1>9, TypesRest, LinkBreak DEF ConnInv
<1>10. ASSUME NEW c \in Conn, NEW e \in End, Deliver(e, c) PROVE ConnInv'
  <2>1. LinkInv'
    BY <1>1, <1>10, LinkFrame DEF Deliver, procVars, tcpVars, endVars
  <2> QED BY <1>1, <1>10, <2>1, TypesDeliver DEF ConnInv
<1>11. ASSUME NEW e \in End, NEW big \in TooBig, SendToCluster(e, big) PROVE ConnInv'
  <2>1. LinkInv'
    BY <1>1, <1>11, LinkFrame DEF SendToCluster, procVars, tcpVars, endVars
  <2> QED BY <1>1, <1>11, <2>1, TypesSendToCluster DEF ConnInv
<1>12. ASSUME NEW e \in End, SendFails(e) PROVE ConnInv'
  BY <1>1, <1>12, TypesRest, LinkSendFails DEF ConnInv
<1>13. ASSUME NEW e \in End, WriterWrites(e) PROVE ConnInv'
  <2>1. LinkInv'
    BY <1>1, <1>13, LinkFrame DEF WriterWrites, procVars, tcpVars, endVars
  <2> QED BY <1>1, <1>13, <2>1, TypesWriterWrites DEF ConnInv
<1>14. ASSUME NEW e \in End, WriterFails(e) PROVE ConnInv'
  BY <1>1, <1>14, TypesRest, LinkWriterFails DEF ConnInv
<1>15. ASSUME NEW e \in End, Kill(e) PROVE ConnInv'
  BY <1>1, <1>15, TypesKill, LinkKill DEF ConnInv
<1>16. ASSUME NEW e \in End, Restart(e) PROVE ConnInv'
  <2>1. LinkInv'
    BY <1>1, <1>16, LinkFrame DEF Restart, tcpVars, endVars
  <2> QED BY <1>1, <1>16, <2>1, TypesRest DEF ConnInv
<1>17. CASE UNCHANGED vars
  <2>1. LinkInv'
    BY <1>1, <1>17, LinkFrame DEF vars, procVars, tcpVars, endVars
  <2> QED BY <1>1, <1>17, <2>1, TypesRest DEF ConnInv
<1> QED BY <1>3, <1>4, <1>5, <1>6, <1>7, <1>8, <1>9, <1>10, <1>11, <1>12, <1>13, <1>14,
           <1>15, <1>16, <1>17 DEF Next, ConnStep

LEMMA ConnAlways == Spec => []ConnInv
<1>1. Init => ConnInv
  BY TypesInit, LinkInit DEF ConnInv
<1> QED BY <1>1, ConnStepInv, PTL DEF Spec

-------------------------------------------------------------------------------
LEMMA AtMostOne == ASSUME NEW S, \A x, y \in S : x = y PROVE Cardinality(S) <= 1
<1>1. CASE S = {}
  BY <1>1, FS_EmptySet
<1>2. CASE S # {}
  <2>1. PICK x \in S : S = {x}
    BY <1>2
  <2> QED BY <2>1, FS_Singleton
<1> QED BY <1>1, <1>2

\* Every reachable state is well typed, and peer_connections has one connection at
\* most at each end, for any number of connections, breaks and kills
\* (apply_connection, send_to_cluster, the connector and listener tasks).
THEOREM TypeCorrect == Spec => []TypeOK
<1>1. ConnInv => TypeOK
  <2>1. ASSUME ConnInv, NEW e \in End PROVE Cardinality(Slot(e)) <= 1
    BY <2>1, AtMostOne DEF ConnInv, LinkInv, StageInv
  <2>2. ConnInv => Types
    BY DEF ConnInv
  <2> QED BY <2>1, <2>2 DEF TypeOK, Types
<1> QED BY <1>1, ConnAlways, PTL

\* Whatever breaks and whoever is killed, the connector that waits for close_rx waits
\* for one connection that its main loop still has or will get
\* (spawn_peer_connectors, apply_connection).
THEOREM CloseSignalIsNeverLost == Spec => []CloseSignalWillCome
<1>1. ConnInv => CloseSignalWillCome
  <2> SUFFICES ASSUME ConnectorInv PROVE CloseSignalWillCome
    BY DEF ConnInv, LinkInv
  <2>1. CASE connector = "wait"
    <3>1. PICK c \in Conn : Held(hi) = {c}
      BY <2>1 DEF ConnectorInv
    <3> QED BY <2>1, <3>1, FS_Singleton DEF CloseSignalWillCome, Held
  <2>2. CASE connector # "wait"
    <3>1. Held(hi) = {}
      BY <2>2 DEF ConnectorInv
    <3> QED BY <2>2, <3>1, FS_EmptySet DEF CloseSignalWillCome, Held
  <2> QED BY <2>1, <2>2
<1> QED BY <1>1, ConnAlways, PTL

-------------------------------------------------------------------------------
(* Where the messages are *)

\* The types that the lemmas about messages use.
LEMMA MessageTypes ==
    ASSUME Types, NEW e \in End
    PROVE  /\ Other(e) \in End
           /\ sent[e] \in Seq(Message) /\ Len(sent[e]) \in Nat
           /\ \A i \in 1..Len(sent[e]) : sent[e][i].conn \in Conn
           /\ outgoing[e] \in Seq(Nat) /\ Len(outgoing[e]) \in Nat
           /\ accepted[Other(e)] \in Seq(Nat) /\ Len(accepted[Other(e)]) \in Nat
           /\ \A c \in Conn : wire[e][c] \in Seq(Nat) /\ Len(wire[e][c]) \in Nat
<1>1. Other(e) \in End
  BY TwoEnds
<1>2. sent[e] \in Seq(Message) /\ Len(sent[e]) \in Nat
  BY DEF Types
<1>3. ASSUME NEW i \in 1..Len(sent[e]) PROVE sent[e][i].conn \in Conn
  <2>1. sent[e][i] \in Message
    BY <1>2
  <2> QED BY <2>1 DEF Message
<1>4. outgoing[e] \in Seq(Nat) /\ Len(outgoing[e]) \in Nat
  BY DEF Types
<1>5. accepted[Other(e)] \in Seq(Nat) /\ Len(accepted[Other(e)]) \in Nat
  BY <1>1 DEF Types
<1>6. \A c \in Conn : wire[e][c] \in Seq(Nat) /\ Len(wire[e][c]) \in Nat
  BY DEF Types
<1> QED BY <1>1, <1>2, <1>3, <1>4, <1>5, <1>6

LEMMA TakenBound ==
    ASSUME Types, NEW e \in End, OutgoingInv(e)
    PROVE  Taken(e) \in Nat /\ Len(sent[e]) \in Nat /\ Taken(e) <= Len(sent[e])
<1>1. Taken(e) \in Nat /\ Len(sent[e]) \in Nat /\ Len(outgoing[e]) \in Nat
  BY MessageTypes DEF OutgoingInv
<1>2. \A n, q \in Nat : n - q <= n
  OBVIOUS
<1>3. Taken(e) <= Len(sent[e])
  BY <1>1, <1>2 DEF Taken
<1> QED BY <1>1, <1>3

\* An element of a queue has a place in it.
LEMMA RangePlace == ASSUME NEW S, NEW q \in Seq(S), NEW x \in Range(q)
                    PROVE  \E k \in 1..Len(q) : q[k] = x
BY RangeEquality

LEMMA WireRange ==
    ASSUME Types, NEW e \in End, WireInv(e), NEW c \in Conn, NEW i \in Range(wire[e][c])
    PROVE  i \in 1..Taken(e) /\ sent[e][i].conn = c
<1>1. wire[e][c] \in Seq(Nat)
  BY MessageTypes
<1>2. PICK k \in 1..Len(wire[e][c]) : wire[e][c][k] = i
  BY <1>1, RangePlace
<1> QED BY <1>2 DEF WireInv

\* The steps that neither send, write nor deliver: connections change place, and with
\* that a queue to a writer may be lost.
LEMMA MessageFrame ==
    ASSUME Types, MessageInv, NEW e \in End,
           UNCHANGED <<sent[e], wire[e], accepted[Other(e)]>>,
           outgoing'[e] \in {outgoing[e], <<>>},
           outgoing'[e] # <<>> => Slot(e) \subseteq Slot(e)',
           \A c \in Conn :
              /\ stage'[e][c] = "ended" => outgoing'[e] = <<>>
              /\ stage[e][c] \in {"slot", "ended", "gone"} =>
                    /\ stage'[e][c] \in {"slot", "ended", "gone"}
                    /\ stage'[e][c] = "slot" =>
                          stage[e][c] = "slot" /\ outgoing'[e] = outgoing[e]
    PROVE  /\ OutgoingInv(e)' /\ WireInv(e)' /\ AcceptedInv(e)'
           /\ NoLossInv(e)' /\ NoGapInv(e)' /\ OrderInv(e)'
<1>1. /\ OutgoingInv(e) /\ WireInv(e) /\ AcceptedInv(e)
      /\ NoLossInv(e) /\ NoGapInv(e) /\ OrderInv(e)
  BY DEF MessageInv
<1>2. /\ sent'[e] = sent[e] /\ wire'[e] = wire[e] /\ accepted'[Other(e)] = accepted[Other(e)]
  OBVIOUS
<1>3. Len(sent[e]) \in Nat /\ Len(outgoing[e]) \in Nat /\ Len(outgoing'[e]) \in Nat
      /\ Taken(e) \in Nat /\ Taken(e)' \in Nat /\ Taken(e) <= Taken(e)'
      /\ (outgoing'[e] = outgoing[e] => Taken(e)' = Taken(e))
  <2>1. Len(sent[e]) \in Nat /\ Len(outgoing[e]) \in Nat /\ Taken(e) \in Nat
    BY <1>1, MessageTypes DEF OutgoingInv
  <2>2. Taken(e) = Len(sent[e]) - Len(outgoing[e])
        /\ Taken(e)' = Len(sent[e]) - Len(outgoing'[e])
    BY <1>2 DEF Taken
  <2>3. CASE outgoing'[e] = outgoing[e]
    BY <2>1, <2>2, <2>3
  <2>4. CASE outgoing'[e] = <<>>
    <3>1. Len(outgoing'[e]) = 0
      BY <2>4
    <3>2. Taken(e)' = Len(sent[e]) /\ Len(outgoing'[e]) \in Nat
      BY <2>1, <2>2, <3>1
    <3>3. Taken(e) <= Taken(e)' /\ Taken(e)' \in Nat
      BY <2>1, <2>2, <3>2
    <3>4. outgoing'[e] = outgoing[e] => Taken(e)' = Taken(e)
      BY <2>2
    <3> QED BY <2>1, <3>2, <3>3, <3>4
  <2> QED BY <2>3, <2>4
<1>4. OutgoingInv(e)'
  <2>1. \A k \in 1..Len(outgoing'[e]) :
           /\ outgoing'[e] = outgoing[e] /\ Slot(e) \subseteq Slot(e)'
           /\ k \in 1..Len(outgoing[e])
    OBVIOUS
  <2>2. \A k \in 1..Len(outgoing'[e]) : /\ outgoing'[e][k] = Taken(e)' + k
                                        /\ sent'[e][Taken(e)' + k].conn \in Slot(e)'
    BY <1>1, <1>2, <1>3, <2>1 DEF OutgoingInv
  <2>3. \A i \in 1..Len(sent[e]) : stage'[e][sent[e][i].conn] \in {"slot", "ended", "gone"}
    BY <1>1, MessageTypes DEF OutgoingInv
  <2> QED BY <1>2, <1>3, <2>2, <2>3 DEF OutgoingInv
<1>5. \A i \in 1..Taken(e) : i \in 1..Taken(e)'
  BY <1>3
<1>6. WireInv(e)' /\ AcceptedInv(e)'
  BY <1>1, <1>2, <1>5 DEF WireInv, AcceptedInv
<1>7. \A i : AfterTooBig(e, i)' <=> AfterTooBig(e, i)
  BY <1>2 DEF AfterTooBig
<1>8. \A i : \A c \in Conn : Passed(e, c, i)' <=> Passed(e, c, i)
  BY <1>2, <1>7 DEF Passed
<1>9. NoLossInv(e)'
  BY <1>1, <1>2, <1>8 DEF NoLossInv, OutgoingInv
<1>10. NoGapInv(e)'
  BY <1>1, <1>2, <1>8 DEF NoGapInv
<1>11. OrderInv(e)'
  BY <1>1, <1>2, <1>7 DEF OrderInv
<1> QED BY <1>4, <1>6, <1>9, <1>10, <1>11

\* Messages that were too big, or behind one, stay so.
LEMMA AfterTooBigStays ==
    ASSUME NEW e \in End, sent[e] \in Seq(Message),
           Len(sent'[e]) \in Nat, Len(sent[e]) <= Len(sent'[e]),
           \A i \in 1..Len(sent[e]) : sent'[e][i] = sent[e][i],
           NEW i \in 1..Len(sent[e]), AfterTooBig(e, i)
    PROVE  AfterTooBig(e, i)'
<1>1. PICK b \in 1..i : /\ sent[e][b].big
                        /\ sent[e][b].conn = sent[e][i].conn
                        /\ i - b < BATCH
  BY DEF AfterTooBig
<1>2. b \in 1..Len(sent[e])
  OBVIOUS
<1>3. sent'[e][b] = sent[e][b] /\ sent'[e][i] = sent[e][i]
  BY <1>2
<1> QED BY <1>1, <1>3 DEF AfterTooBig

LEMMA MessagesSend ==
    ASSUME ConnInv, MessageInv, NEW e \in End, NEW big \in TooBig, SendToCluster(e, big)
    PROVE  /\ OutgoingInv(e)' /\ WireInv(e)' /\ AcceptedInv(e)'
           /\ NoLossInv(e)' /\ NoGapInv(e)' /\ OrderInv(e)'
<1> DEFINE q == outgoing[e]
           s == sent[e]
           n == Len(s)
<1>1. /\ OutgoingInv(e) /\ WireInv(e) /\ AcceptedInv(e)
      /\ NoLossInv(e) /\ NoGapInv(e) /\ OrderInv(e)
  BY DEF MessageInv
<1>2. /\ s \in Seq(Message) /\ n \in Nat /\ q \in Seq(Nat) /\ Len(q) \in Nat
      /\ n - Len(q) = Taken(e) /\ Taken(e) \in Nat
      /\ \A k \in 1..n : s[k].conn \in Conn
  BY <1>1, MessageTypes DEF ConnInv, OutgoingInv, Taken
<1>3. PICK c \in Slot(e) : /\ stage[e][c] = "slot"
                           /\ sent' = [sent EXCEPT ![e] = Append(@, [conn |-> c, big |-> big])]
  BY DEF SendToCluster
<1> DEFINE m == [conn |-> c, big |-> big]
<1>4. m \in Message /\ m.conn = c /\ c \in Conn
  BY PeerLinkAssumption DEF Message, Slot
<1>5. sent'[e] = Append(s, m) /\ outgoing'[e] = Append(q, n + 1)
  BY <1>3 DEF ConnInv, Types, SendToCluster
<1>6. UNCHANGED <<stage, wire, accepted>>
  BY DEF SendToCluster, endVars
<1> HIDE DEF m, q, s
<1>7. /\ Len(sent'[e]) = n + 1 /\ sent'[e][n + 1] = m
      /\ \A i \in 1..n : sent'[e][i] = s[i]
  BY <1>2, <1>4, <1>5
<1>8. /\ Len(outgoing'[e]) = Len(q) + 1 /\ outgoing'[e][Len(q) + 1] = n + 1
      /\ \A k \in 1..Len(q) : outgoing'[e][k] = q[k]
  BY <1>2, <1>5
<1> HIDE DEF n
<1>9. Taken(e)' = Taken(e)
  <2>1. Taken(e)' = Len(sent'[e]) - Len(outgoing'[e])
    BY DEF Taken
  <2> QED BY <1>2, <1>7, <1>8, <2>1
<1>10. Slot(e)' = Slot(e)
  BY <1>6 DEF Slot
<1>11. OutgoingInv(e)'
  <2>1. \A k \in 1..Len(q) : Taken(e) + k \in 1..n
    BY <1>2
  <2>2. ASSUME NEW k \in 1..Len(outgoing'[e])
        PROVE  /\ outgoing'[e][k] = Taken(e) + k
               /\ sent'[e][Taken(e) + k].conn \in Slot(e)
    <3>1. CASE k \in 1..Len(q)
      BY <1>1, <1>7, <1>8, <2>1, <3>1 DEF OutgoingInv, q, s
    <3>2. CASE k = Len(q) + 1
      <4>1. Taken(e) + k = n + 1
        BY <1>2, <3>2
      <4> QED BY <1>3, <1>4, <1>7, <1>8, <3>2, <4>1
    <3> QED BY <1>2, <1>8, <3>1, <3>2
  <2>3. ASSUME NEW i \in 1..Len(sent'[e])
        PROVE  stage[e][sent'[e][i].conn] \in {"slot", "ended", "gone"}
    <3>1. CASE i \in 1..n
      BY <1>1, <1>7, <3>1 DEF OutgoingInv, n, s
    <3>2. CASE i = n + 1
      BY <1>3, <1>4, <1>7, <3>2
    <3> QED BY <1>2, <1>7, <3>1, <3>2
  <2>4. \A d \in Conn : stage[e][d] # "ended"
    BY <1>3 DEF ConnInv, LinkInv, StageInv, Slot
  <2> QED BY <1>2, <1>6, <1>9, <1>10, <2>2, <2>3, <2>4 DEF OutgoingInv
<1>12. \A i \in 1..Taken(e) : i \in 1..n
  BY <1>2
<1>13. WireInv(e)'
  BY <1>1, <1>6, <1>7, <1>9, <1>12 DEF WireInv, s
<1>14. AcceptedInv(e)'
  BY <1>1, <1>6, <1>7, <1>9, <1>12 DEF AcceptedInv, s
<1>15. \A i \in 1..n : AfterTooBig(e, i) => AfterTooBig(e, i)'
  <2>1. /\ sent[e] \in Seq(Message)
        /\ Len(sent'[e]) \in Nat /\ Len(sent[e]) <= Len(sent'[e])
        /\ \A i \in 1..Len(sent[e]) : sent'[e][i] = sent[e][i]
    BY <1>2, <1>7 DEF n, s
  <2>2. \A i \in 1..Len(sent[e]) : AfterTooBig(e, i) => AfterTooBig(e, i)'
    BY <2>1, AfterTooBigStays
  <2> QED BY <2>2 DEF n, s
<1>16. \A i \in 1..n : \A d \in Conn : Passed(e, d, i) => Passed(e, d, i)'
  BY <1>6, <1>15 DEF Passed
<1>17. Range(q) \cup {n + 1} \subseteq Range(outgoing'[e])
  <2>1. outgoing'[e] \in Seq(Nat)
    BY <1>2, <1>5
  <2>2. \A k \in 1..Len(q) : k \in 1..Len(outgoing'[e])
    BY <1>2, <1>8
  <2>3. Len(q) + 1 \in 1..Len(outgoing'[e])
    BY <1>2, <1>8
  <2>4. Range(q) = { q[k] : k \in 1..Len(q) }
    BY <1>2, RangeEquality
  <2>5. Range(outgoing'[e]) = { outgoing'[e][k] : k \in 1..Len(outgoing'[e]) }
    BY <2>1, RangeEquality
  <2> QED BY <1>8, <2>2, <2>3, <2>4, <2>5
<1>18. NoLossInv(e)'
  <2>1. ASSUME NEW i \in 1..Len(sent'[e]), NEW d \in Conn, sent'[e][i].conn = d,
               stage[e][d] = "slot"
        PROVE  Passed(e, d, i)' \/ i \in Range(outgoing'[e])
    <3>1. CASE i \in 1..n
      BY <1>1, <1>7, <1>16, <1>17, <2>1, <3>1 DEF NoLossInv, n, s, q
    <3>2. CASE i = n + 1
      BY <1>17, <3>2
    <3> QED BY <1>2, <1>7, <3>1, <3>2
  <2> QED BY <1>6, <2>1 DEF NoLossInv
<1>19. NoGapInv(e)'
  <2>1. ASSUME NEW d \in Conn, NEW i \in Range(wire[e][d]), NEW j \in 1..i-1,
               sent'[e][j].conn = d
        PROVE  Passed(e, d, j)'
    <3>1. i \in 1..Taken(e)
      BY <1>1, WireRange DEF ConnInv
    <3>2. j \in 1..n
      BY <1>2, <3>1
    <3> QED BY <1>1, <1>7, <1>16, <2>1, <3>2 DEF NoGapInv, s
  <2> QED BY <1>6, <2>1 DEF NoGapInv
<1>20. OrderInv(e)'
  <2> DEFINE a == accepted[Other(e)]
             before(k, j) == \E l \in 1..(k - 1) : a[l] = j
  <2>1. ASSUME NEW k \in 1..Len(a)
        PROVE  /\ ~ before(k, a[k])
               /\ \A j \in 1..(a[k] - 1) :
                     sent'[e][j].conn = sent'[e][a[k]].conn => before(k, j) \/ AfterTooBig(e, j)'
    <3>1. a[k] \in 1..Taken(e)
      <4>1. a \in Seq(Nat)
        BY MessageTypes DEF ConnInv
      <4>2. a[k] \in Range(a)
        BY <4>1, RangeEquality
      <4> QED BY <1>1, <4>2 DEF AcceptedInv
    <3>2. a[k] \in 1..n /\ \A j \in 1..(a[k] - 1) : j \in 1..n
      BY <1>2, <3>1
    <3>3. /\ ~ before(k, a[k])
          /\ \A j \in 1..(a[k] - 1) :
                s[j].conn = s[a[k]].conn => before(k, j) \/ AfterTooBig(e, j)
      BY <1>1 DEF OrderInv, s
    <3> HIDE DEF before
    <3> QED BY <1>7, <1>15, <3>2, <3>3
  <2> QED BY <1>6, <2>1 DEF OrderInv
<1> QED BY <1>11, <1>13, <1>14, <1>18, <1>19, <1>20

\* What one step of the writer takes off the queue are the next messages; the first m
\* of them are written, and the rest has a message too big before it in the batch.
LEMMA WriterEffect ==
    ASSUME ConnInv, MessageInv, NEW e \in End, WriterWrites(e)
    PROVE  \E c \in Slot(e), n \in 1..Len(outgoing[e]), m \in 0..Len(outgoing[e]) :
              /\ m <= n /\ c \in Conn /\ stage[e][c] = "slot"
              /\ Len(outgoing'[e]) = Len(outgoing[e]) - n
              /\ \A k \in 1..Len(outgoing'[e]) : outgoing'[e][k] = outgoing[e][n + k]
              /\ Written(e) \in Seq(Nat) /\ Len(Written(e)) = m
              /\ \A k \in 1..m : Written(e)[k] = Taken(e) + k
              /\ wire' = [wire EXCEPT ![e][c] = @ \o Written(e)]
              /\ \A k \in m+1..n : AfterTooBig(e, Taken(e) + k)
<1> DEFINE q == outgoing[e]
<1>1. OutgoingInv(e) /\ Types
  BY DEF MessageInv, ConnInv
<1>2. PICK c \in Slot(e) \ broken : wire' = [wire EXCEPT ![e][c] = @ \o Written(e)]
  BY DEF WriterWrites, Written
<1>3. q # <<>> /\ q \in Seq(Nat) /\ Len(q) \in Nat
  BY <1>1, MessageTypes DEF WriterWrites
<1>4. c \in Conn /\ stage[e][c] = "slot"
  BY <1>1, <1>3 DEF Slot, OutgoingInv
<1>5. PICK n \in 0..Len(q) : /\ n <= BATCH
                             /\ n = 0 <=> q = <<>>
                             /\ Len(Batch(e)) = n
                             /\ \A k \in 1..n : Batch(e)[k] = q[k]
  BY <1>1, BatchEffect
<1>6. n \in Nat /\ n \in 1..Len(q) /\ \A k \in 1..n : k \in 1..Len(q)
  BY <1>3, <1>5
<1>7. PICK m \in 0..n : /\ Written(e) \in Seq(Nat) /\ Len(Written(e)) = m
                        /\ \A k \in 1..m : Written(e)[k] = Batch(e)[k]
                        /\ m < n => sent[e][Batch(e)[m + 1]].big
  BY <1>1, <1>5, WrittenEffect
<1>8. \A k \in 1..Len(q) : q[k] = Taken(e) + k /\ sent[e][Taken(e) + k].conn = c
  BY <1>1, <1>2 DEF OutgoingInv, ConnInv, LinkInv, StageInv
<1>9. /\ Len(outgoing'[e]) = Len(q) - n
      /\ \A k \in 1..Len(outgoing'[e]) : outgoing'[e][k] = q[n + k]
  <2>1. outgoing'[e] = SubSeq(q, Len(Batch(e)) + 1, Len(q))
    BY <1>1 DEF WriterWrites, Types
  <2> QED BY <1>1, <1>5, <2>1, RestEffect
<1>10. \A k \in 1..m : Written(e)[k] = Taken(e) + k
  <2>1. \A k \in 1..m : k \in 1..n /\ k \in 1..Len(q)
    BY <1>6
  <2> QED BY <1>5, <1>7, <1>8, <2>1
<1>11. ASSUME NEW k \in m+1..n PROVE AfterTooBig(e, Taken(e) + k)
  <2> DEFINE t == Taken(e)
  <2>1. t \in Nat /\ BATCH \in Nat
    BY <1>1, PeerLinkAssumption DEF OutgoingInv
  <2>2. k \in Nat /\ m + 1 \in 1..n /\ k \in 1..n /\ m < n /\ m \in Nat
    BY <1>6
  <2>3. Batch(e)[m + 1] = t + (m + 1) /\ sent[e][t + (m + 1)].big
    BY <1>5, <1>6, <1>7, <1>8, <2>2
  <2>4. sent[e][t + (m + 1)].conn = c /\ sent[e][t + k].conn = c
    BY <1>6, <1>8, <2>2
  <2> HIDE DEF t
  <2>5. t + (m + 1) \in 1..(t + k) /\ (t + k) - (t + (m + 1)) < BATCH
    BY <1>5, <2>1, <2>2
  <2> QED BY <2>3, <2>4, <2>5 DEF AfterTooBig, t
<1>12. m \in 0..Len(q) /\ m <= n
  BY <1>6
<1> QED BY <1>2, <1>4, <1>6, <1>7, <1>9, <1>10, <1>11, <1>12

LEMMA MessagesWrite ==
    ASSUME ConnInv, MessageInv, NEW e \in End, WriterWrites(e)
    PROVE  /\ OutgoingInv(e)' /\ WireInv(e)' /\ AcceptedInv(e)'
           /\ NoLossInv(e)' /\ NoGapInv(e)' /\ OrderInv(e)'
<1> DEFINE q == outgoing[e]
           t == Taken(e)
<1>1. /\ OutgoingInv(e) /\ WireInv(e) /\ AcceptedInv(e)
      /\ NoLossInv(e) /\ NoGapInv(e) /\ OrderInv(e) /\ Types
  BY DEF MessageInv, ConnInv
<1>2. PICK c \in Slot(e), n \in 1..Len(q), m \in 0..Len(q) :
              /\ m <= n /\ c \in Conn /\ stage[e][c] = "slot"
              /\ Len(outgoing'[e]) = Len(q) - n
              /\ \A k \in 1..Len(outgoing'[e]) : outgoing'[e][k] = q[n + k]
              /\ Written(e) \in Seq(Nat) /\ Len(Written(e)) = m
              /\ \A k \in 1..m : Written(e)[k] = t + k
              /\ wire' = [wire EXCEPT ![e][c] = @ \o Written(e)]
              /\ \A k \in m+1..n : AfterTooBig(e, t + k)
  BY WriterEffect
<1> DEFINE w == wire[e][c]
<1>3. /\ q \in Seq(Nat) /\ Len(q) \in Nat /\ n \in Nat /\ m \in Nat /\ t \in Nat
      /\ Len(sent[e]) \in Nat /\ t = Len(sent[e]) - Len(q)
      /\ w \in Seq(Nat) /\ Len(w) \in Nat
  BY <1>1, <1>2, MessageTypes DEF OutgoingInv, Taken
<1>num. m <= n /\ n <= Len(q) /\ n \in Nat /\ m \in Nat /\ t \in Nat /\ Len(q) \in Nat
        /\ Len(outgoing'[e]) = Len(q) - n
  BY <1>2, <1>3
<1>4. UNCHANGED <<stage, sent, accepted>>
  BY DEF WriterWrites, endVars
<1>5. \A d \in Conn : wire'[e][d] = IF d = c THEN w \o Written(e) ELSE wire[e][d]
  BY <1>1, <1>2 DEF Types
<1>6. Taken(e)' = t + n
  <2>1. Taken(e)' = Len(sent[e]) - Len(outgoing'[e])
    BY <1>4 DEF Taken
  <2> HIDE DEF t, q
  <2> QED BY <1>num, <1>3, <2>1
<1>7. \A k \in 1..Len(q) : q[k] = t + k /\ sent[e][t + k].conn = c
  BY <1>1, <1>2 DEF OutgoingInv, ConnInv, LinkInv, StageInv
<1>8. Slot(e)' = Slot(e)
  BY <1>4 DEF Slot
<1> HIDE DEF t, q, w
<1>9. OutgoingInv(e)'
  <2>1. ASSUME NEW k \in 1..Len(outgoing'[e])
        PROVE  outgoing'[e][k] = (t + n) + k /\ sent[e][(t + n) + k].conn = c
    <3>1. n + k \in 1..Len(q) /\ t + (n + k) = (t + n) + k
      BY <1>num
    <3>2. outgoing'[e][k] = q[n + k]
      BY <1>2
    <3> QED BY <1>7, <3>1, <3>2
  <2>2. \A d \in Conn : stage[e][d] = "ended" => d \in Slot(e) /\ d # c
    BY <1>2 DEF Slot
  <2>3. \A d \in Conn : stage[e][d] # "ended"
    BY <2>2 DEF ConnInv, LinkInv, StageInv
  <2>4. t + n \in Nat
    BY <1>3
  <2> QED BY <1>1, <1>2, <1>4, <1>6, <1>8, <2>1, <2>3, <2>4 DEF OutgoingInv
<1>10. /\ Len(w \o Written(e)) = Len(w) + m /\ w \o Written(e) \in Seq(Nat)
       /\ \A k \in 1..Len(w) : (w \o Written(e))[k] = w[k]
       /\ \A k \in 1..m : (w \o Written(e))[Len(w) + k] = t + k
  <2>1. /\ Written(e) \in Seq(Nat) /\ Len(Written(e)) = m
        /\ \A k \in 1..m : Written(e)[k] = t + k
    BY <1>2
  <2>2. w \in Seq(Nat)
    BY <1>3
  <2>3. /\ w \o Written(e) \in Seq(Nat)
        /\ Len(w \o Written(e)) = Len(w) + Len(Written(e))
        /\ \A k \in 1..Len(w) : (w \o Written(e))[k] = w[k]
        /\ \A k \in 1..Len(Written(e)) : (w \o Written(e))[Len(w) + k] = Written(e)[k]
    <3>1. Written(e) \in Seq(Nat)
      BY <2>1
    <3> QED BY <2>2, <3>1, QueueConcat
  <2> QED BY <2>1, <2>3
<1>11. /\ \A i \in 1..t : i \in 1..(t + n)
       /\ \A k \in 1..m : t + k \in 1..(t + n) /\ k \in 1..Len(q)
  BY <1>num
<1>12. WireInv(e)'
  <2>1. ASSUME NEW d \in Conn, d # c, NEW k \in 1..Len(wire[e][d])
        PROVE  /\ wire[e][d][k] \in 1..(t + n)
               /\ sent[e][wire[e][d][k]].conn = d
               /\ \A l \in 1..k-1 : wire[e][d][l] < wire[e][d][k]
    BY <1>1, <1>11 DEF WireInv, t
  <2> DEFINE v == w \o Written(e)
  <2>2. ASSUME NEW k \in 1..Len(v)
        PROVE  /\ v[k] \in 1..(t + n)
               /\ sent[e][v[k]].conn = c
               /\ \A l \in 1..k-1 : v[l] < v[k]
    <3>1. CASE k \in 1..Len(w)
      <4>1. /\ w[k] \in 1..t /\ sent[e][w[k]].conn = c
            /\ \A l \in 1..k-1 : w[l] < w[k]
        BY <1>1, <1>2, <3>1 DEF WireInv, t, w
      <4>2. \A l \in 1..k-1 : l \in 1..Len(w)
        BY <1>3, <3>1
      <4>3. v[k] = w[k] /\ \A l \in 1..k-1 : v[l] = w[l]
        BY <1>10, <3>1, <4>2
      <4> HIDE DEF v
      <4> QED BY <1>11, <4>1, <4>3
    <3>2. CASE k \notin 1..Len(w)
      <4>1. k - Len(w) \in 1..m /\ Len(w) + (k - Len(w)) = k
        <5>1. Len(w) \in Nat /\ m \in Nat /\ Len(v) = Len(w) + m
          BY <1>3, <1>10
        <5> HIDE DEF v, w
        <5> QED BY <3>2, <5>1
      <4>2. v[k] = t + (k - Len(w))
        BY <1>10, <4>1
      <4>3. ASSUME NEW l \in 1..k-1 PROVE v[l] < v[k]
        <5>1. CASE l \in 1..Len(w)
          <6>1. w[l] \in 1..t
            BY <1>1, <1>2, <5>1 DEF WireInv, t, w
          <6>2. v[l] = w[l]
            BY <1>10, <5>1
          <6>3. t + (k - Len(w)) > t
            BY <1>num, <4>1
          <6> HIDE DEF v
          <6> QED BY <1>num, <4>2, <6>1, <6>2, <6>3
        <5>2. CASE l \notin 1..Len(w)
          <6>1. l - Len(w) \in 1..m /\ Len(w) + (l - Len(w)) = l
            BY <1>3, <4>1, <5>2
          <6>2. v[l] = t + (l - Len(w))
            BY <1>10, <6>1
          <6> QED BY <1>3, <4>1, <4>2, <6>1, <6>2
        <5> QED BY <5>1, <5>2
      <4> QED BY <1>7, <1>11, <4>1, <4>2, <4>3
    <3> QED BY <3>1, <3>2
  <2> HIDE DEF v
  <2>3. \A d \in Conn : wire'[e][d] = IF d = c THEN v ELSE wire[e][d]
    BY <1>5 DEF v
  <2> QED BY <1>4, <1>6, <2>1, <2>2, <2>3 DEF WireInv
<1>13. Range(w \o Written(e)) = Range(w) \cup { t + k : k \in 1..m }
  <2>1. Range(w \o Written(e)) = Range(w) \cup Range(Written(e))
    BY <1>2, <1>3, RangeConcatenation
  <2>2. Range(Written(e)) = { Written(e)[k] : k \in 1..m }
    BY <1>2, RangeEquality
  <2> QED BY <1>2, <2>1, <2>2
<1>14. AcceptedInv(e)'
  <2>1. ASSUME NEW i \in Range(accepted[Other(e)]),
               NEW x \in Range(wire'[e][sent[e][i].conn])
        PROVE  i \in 1..(t + n) /\ i < x
    <3>1. i \in 1..t /\ i \in 1..(t + n) /\ i \in 1..Len(sent[e])
      BY <1>1, <1>3, <1>11 DEF AcceptedInv, t
    <3>2. sent[e][i].conn \in Conn
      BY <1>1, <3>1, MessageTypes
    <3>3. CASE x \in Range(wire[e][sent[e][i].conn])
      BY <1>1, <3>1, <3>3 DEF AcceptedInv
    <3>4. CASE \E k \in 1..m : x = t + k
      BY <1>3, <3>1, <3>4
    <3> QED BY <1>5, <1>13, <2>1, <3>1, <3>2, <3>3, <3>4 DEF w
  <2>2. \A i \in Range(accepted[Other(e)]) : i \in 1..(t + n)
    BY <1>1, <1>11 DEF AcceptedInv, t
  <2> QED BY <1>4, <1>6, <2>1, <2>2 DEF AcceptedInv
<1>15. \A i : AfterTooBig(e, i)' <=> AfterTooBig(e, i)
  BY <1>4 DEF AfterTooBig
<1> DEFINE passed(d, i) == \/ AfterTooBig(e, i)
                           \/ i \in Range(wire'[e][d]) \cup Range(accepted[Other(e)])
<1>16. \A i : \A d \in Conn : Passed(e, d, i) => passed(d, i)
  <2>1. \A d \in Conn : Range(wire[e][d]) \subseteq Range(wire'[e][d])
    BY <1>5, <1>13 DEF w
  <2> QED BY <2>1 DEF Passed
\* What was on the queue has passed now, or is still there.
<1>17. ASSUME NEW k \in 1..Len(q)
       PROVE  \/ k \in 1..m
              \/ passed(c, t + k)
              \/ k > n /\ t + k \in Range(outgoing'[e])
  <2>1. CASE k \in m+1..n
    <3>1. AfterTooBig(e, t + k)
      BY <1>2, <2>1
    <3> QED BY <3>1
  <2>2. CASE k > n
    <3>1. k - n \in 1..Len(outgoing'[e]) /\ n + (k - n) = k
      BY <1>num, <2>2
    <3>2. outgoing'[e][k - n] = q[k]
      BY <1>2, <3>1
    <3>3. outgoing'[e][k - n] = t + k
      BY <1>7, <3>2
    <3>4. outgoing'[e] \in Seq(Nat)
      BY <1>1, TypesWriterWrites DEF Types
    <3>5. t + k \in Range(outgoing'[e])
      BY <3>1, <3>3, <3>4, RangeEquality
    <3> QED BY <2>2, <3>5
  <2>3. k \in 1..m \/ k \in m+1..n \/ k > n
    BY <1>2, <1>3
  <2> QED BY <2>1, <2>2, <2>3
<1>18. ASSUME NEW k \in 1..m PROVE passed(c, t + k)
  <2>1. c \in Conn
    BY <1>2
  <2>2. wire'[e][c] = w \o Written(e)
    BY <1>5, <2>1
  <2>3. t + k \in Range(wire'[e][c])
    BY <1>13, <2>2
  <2> QED BY <2>3
<1>19. ASSUME NEW i \in Range(q) PROVE \E k \in 1..Len(q) : i = t + k
  <2>1. PICK k \in 1..Len(q) : q[k] = i
    BY <1>3, RangePlace
  <2> QED BY <1>7, <2>1
<1>20. NoLossInv(e)'
  <2>1. ASSUME NEW i \in 1..Len(sent[e]), NEW d \in Conn, sent[e][i].conn = d,
               stage[e][d] = "slot"
        PROVE  passed(d, i) \/ i \in Range(outgoing'[e])
    <3>1. d = c
      BY <1>2, <2>1 DEF ConnInv, LinkInv, StageInv, Slot
    <3>2. CASE Passed(e, c, i)
      BY <1>16, <3>1, <3>2
    <3>3. CASE i \in Range(q)
      <4>1. PICK k \in 1..Len(q) : i = t + k
        BY <1>19, <3>3
      <4> QED BY <1>17, <1>18, <3>1, <4>1
    <3> QED BY <1>1, <2>1, <3>1, <3>2, <3>3 DEF NoLossInv, q
  <2> QED BY <1>4, <1>15, <2>1 DEF NoLossInv, Passed
<1>21. NoGapInv(e)'
  <2>1. ASSUME NEW d \in Conn, NEW i \in Range(wire'[e][d]), NEW j \in 1..i-1,
               sent[e][j].conn = d
        PROVE  passed(d, j)
    <3>1. CASE i \in Range(wire[e][d])
      BY <1>1, <1>16, <2>1, <3>1 DEF NoGapInv
    <3>2. CASE i \notin Range(wire[e][d])
      <4>1. d = c /\ \E k \in 1..m : i = t + k
        BY <1>5, <1>13, <3>2 DEF w
      <4>2. PICK k \in 1..m : i = t + k
        BY <4>1
      <4>3. j \in 1..Len(sent[e]) /\ j < t + k
        <5>1. t + k \in Nat /\ t + k <= Len(sent[e])
          BY <1>3, <1>num
        <5> QED BY <4>2, <5>1
      <4>4. CASE Passed(e, c, j)
        BY <1>16, <4>1, <4>4
      <4>5. CASE j \in Range(q)
        <5>1. PICK l \in 1..Len(q) : j = t + l
          BY <1>19, <4>5
        <5>2. l \in 1..m
          BY <1>num, <4>3, <5>1
        <5>3. passed(c, t + l)
          BY <1>18, <5>2
        <5> QED BY <4>1, <5>1, <5>3
      <4> QED BY <1>1, <1>2, <2>1, <4>1, <4>3, <4>4, <4>5 DEF NoLossInv, q
    <3> QED BY <3>1, <3>2
  <2> QED BY <1>4, <1>15, <2>1 DEF NoGapInv, Passed
<1>22. OrderInv(e)'
  BY <1>1, <1>4, <1>15 DEF OrderInv
<1> QED BY <1>9, <1>12, <1>14, <1>20, <1>21, <1>22

\* The message at the head of a wire, the first of all on it, goes to the other end.
LEMMA DeliverEffect ==
    ASSUME Types, NEW e \in End, NEW c \in Conn, WireInv(e), AcceptedInv(e),
           Deliver(Other(e), c)
    PROVE  \E x \in 1..Taken(e) :
              /\ sent[e][x].conn = c
              /\ wire[e][c] # <<>>
              /\ wire' = [wire EXCEPT ![e][c] = Tail(@)]
              /\ accepted'[Other(e)] = Append(accepted[Other(e)], x)
              /\ x \notin Range(accepted[Other(e)])
              /\ Range(wire[e][c]) = Range(Tail(wire[e][c])) \cup {x}
              /\ \A y \in Range(Tail(wire[e][c])) : y \in Nat /\ x < y
<1> DEFINE w == wire[e][c]
           x == Head(w)
<1>1. w \in Seq(Nat) /\ Other(e) \in End /\ Other(Other(e)) = e
  BY MessageTypes, TwoEnds
<1>2. /\ w # <<>>
      /\ wire' = [wire EXCEPT ![e][c] = Tail(@)]
      /\ accepted'[Other(e)] = Append(accepted[Other(e)], x)
  BY <1>1 DEF Deliver, Types
<1>3. /\ Tail(w) \in Seq(Nat) /\ Len(w) \in Nat /\ 1 \in 1..Len(w) /\ x = w[1]
      /\ \A i \in 1..Len(Tail(w)) : i + 1 \in 1..Len(w) /\ Tail(w)[i] = w[i + 1]
      /\ Len(Tail(w)) \in Nat
  BY <1>1, <1>2, QueueRest
<1>4. Range(w) = Range(Tail(w)) \cup {x}
  BY <1>1, <1>2, QueueSplit
<1>5. \A i \in 1..Len(w) : /\ w[i] \in 1..Taken(e) /\ sent[e][w[i]].conn = c
                           /\ \A l \in 1..i-1 : w[l] < w[i]
  BY DEF WireInv
<1>6. x \in 1..Taken(e) /\ sent[e][x].conn = c
  BY <1>3, <1>5
<1>7. ASSUME NEW y \in Range(Tail(w)) PROVE y \in Nat /\ x < y
  <2>1. PICK i \in 1..Len(Tail(w)) : Tail(w)[i] = y
    BY <1>3, RangePlace
  <2>2. w[i + 1] = y /\ i + 1 \in 1..Len(w) /\ 1 \in 1..(i + 1) - 1
    BY <1>3, <2>1
  <2>3. y \in 1..Taken(e) /\ w[1] < y
    BY <1>5, <2>2
  <2> QED BY <1>3, <2>3
<1>8. x \notin Range(accepted[Other(e)])
  <2>1. SUFFICES ASSUME x \in Range(accepted[Other(e)]) PROVE FALSE
    OBVIOUS
  <2>2. x < x
    BY <1>4, <1>6, <2>1 DEF AcceptedInv
  <2> QED BY <1>6, <2>2
<1> QED BY <1>2, <1>4, <1>6, <1>7, <1>8

LEMMA MessagesDeliver ==
    ASSUME ConnInv, MessageInv, NEW e \in End, NEW c \in Conn, Deliver(Other(e), c)
    PROVE  /\ OutgoingInv(e)' /\ WireInv(e)' /\ AcceptedInv(e)'
           /\ NoLossInv(e)' /\ NoGapInv(e)' /\ OrderInv(e)'
<1> DEFINE w == wire[e][c]
           a == accepted[Other(e)]
<1>1. /\ OutgoingInv(e) /\ WireInv(e) /\ AcceptedInv(e)
      /\ NoLossInv(e) /\ NoGapInv(e) /\ OrderInv(e) /\ Types
  BY DEF MessageInv, ConnInv
<1>2. PICK x \in 1..Taken(e) :
              /\ sent[e][x].conn = c
              /\ w # <<>>
              /\ wire' = [wire EXCEPT ![e][c] = Tail(@)]
              /\ accepted'[Other(e)] = Append(a, x)
              /\ x \notin Range(a)
              /\ Range(w) = Range(Tail(w)) \cup {x}
              /\ \A y \in Range(Tail(w)) : y \in Nat /\ x < y
  BY <1>1, DeliverEffect
<1>3. UNCHANGED <<stage, outgoing, sent>>
  BY DEF Deliver, endVars
<1>4. \A d \in Conn : wire'[e][d] = IF d = c THEN Tail(w) ELSE wire[e][d]
  BY <1>1, <1>2 DEF Types
<1>5. /\ w \in Seq(Nat) /\ a \in Seq(Nat) /\ Taken(e) \in Nat /\ x \in Nat
      /\ Len(sent[e]) \in Nat /\ Taken(e) <= Len(sent[e])
      /\ Len(a) \in Nat
  <2>1. Taken(e) \in Nat /\ Len(sent[e]) \in Nat /\ Taken(e) <= Len(sent[e])
    BY <1>1, TakenBound
  <2>2. w \in Seq(Nat) /\ a \in Seq(Nat) /\ Len(a) \in Nat
    BY <1>1, MessageTypes
  <2>3. x \in Nat
    OBVIOUS
  <2> HIDE DEF w, a
  <2> QED BY <2>1, <2>2, <2>3
<1>6. Taken(e)' = Taken(e)
  BY <1>3 DEF Taken
<1>7. OutgoingInv(e)'
  BY <1>1, <1>3, <1>6 DEF OutgoingInv, Slot
<1> HIDE DEF w, a
<1>8. \A d \in Conn : Range(wire'[e][d]) \subseteq Range(wire[e][d])
  BY <1>2, <1>4 DEF w
<1>9. /\ Tail(w) \in Seq(Nat) /\ Len(w) \in Nat /\ Len(Tail(w)) \in Nat
      /\ \A i \in 1..Len(Tail(w)) : i + 1 \in 1..Len(w) /\ Tail(w)[i] = w[i + 1]
  BY <1>2, <1>5, QueueRest
<1>10. WireInv(e)'
  <2>1. ASSUME NEW d \in Conn, d # c, NEW k \in 1..Len(wire[e][d])
        PROVE  /\ wire[e][d][k] \in 1..Taken(e)
               /\ sent[e][wire[e][d][k]].conn = d
               /\ \A l \in 1..k-1 : wire[e][d][l] < wire[e][d][k]
    BY <1>1 DEF WireInv
  <2> DEFINE v == Tail(w)
  <2>2. ASSUME NEW k \in 1..Len(v)
        PROVE  /\ v[k] \in 1..Taken(e)
               /\ sent[e][v[k]].conn = c
               /\ \A l \in 1..k-1 : v[l] < v[k]
    <3>1. /\ w[k + 1] \in 1..Taken(e) /\ sent[e][w[k + 1]].conn = c
          /\ \A l \in 1..(k+1)-1 : w[l] < w[k + 1]
      BY <1>1, <1>9 DEF WireInv, w
    <3>2. \A l \in 1..k-1 : l \in 1..Len(v) /\ l + 1 \in 1..(k+1)-1
      BY <1>9
    <3> QED BY <1>9, <3>1, <3>2
  <2> HIDE DEF v
  <2>3. \A d \in Conn : wire'[e][d] = IF d = c THEN v ELSE wire[e][d]
    BY <1>4 DEF v
  <2> QED BY <1>3, <1>6, <2>1, <2>2, <2>3 DEF WireInv
<1>11. /\ accepted'[Other(e)] \in Seq(Nat)
       /\ Len(accepted'[Other(e)]) = Len(a) + 1
       /\ accepted'[Other(e)][Len(a) + 1] = x
       /\ \A k \in 1..Len(a) : accepted'[Other(e)][k] = a[k]
  <2>1. accepted'[Other(e)] = Append(a, x)
    BY <1>2
  <2> QED BY <1>5, <2>1
<1>12. Range(accepted'[Other(e)]) = Range(a) \cup {x}
  <2>1. Range(a) = { a[k] : k \in 1..Len(a) }
    BY <1>5, RangeEquality
  <2>2. Range(accepted'[Other(e)]) = { accepted'[Other(e)][k] : k \in 1..Len(a) + 1 }
    BY <1>11, RangeEquality
  <2>3. \A k \in 1..Len(a) + 1 : k \in 1..Len(a) \/ k = Len(a) + 1
    BY <1>5
  <2>4. \A k \in 1..Len(a) : k \in 1..Len(a) + 1
    BY <1>5
  <2>5. Len(a) + 1 \in 1..Len(a) + 1
    BY <1>5
  <2> QED BY <1>11, <2>1, <2>2, <2>3, <2>4, <2>5
<1>13. AcceptedInv(e)'
  <2>1. ASSUME NEW i \in Range(accepted'[Other(e)])
        PROVE  /\ i \in 1..Taken(e)
               /\ \A y \in Range(wire'[e][sent[e][i].conn]) : i < y
    <3>1. CASE i \in Range(a)
      <4>1. /\ i \in 1..Taken(e)
            /\ \A y \in Range(wire[e][sent[e][i].conn]) : i < y
        BY <1>1, <3>1 DEF AcceptedInv, a
      <4>2. i \in 1..Len(sent[e])
        BY <1>5, <4>1
      <4>3. sent[e][i].conn \in Conn
        BY <1>1, <4>2, MessageTypes
      <4> QED BY <1>8, <4>1, <4>3
    <3>2. CASE i = x
      <4>1. wire'[e][c] = Tail(w)
        BY <1>4
      <4> QED BY <1>2, <3>2, <4>1
    <3> QED BY <1>12, <3>1, <3>2
  <2> QED BY <1>3, <1>6, <2>1 DEF AcceptedInv
<1>14. \A i : AfterTooBig(e, i)' <=> AfterTooBig(e, i)
  BY <1>3 DEF AfterTooBig
\* What has passed stays so: the message at the head is accepted now.
<1> DEFINE passed(d, i) == \/ AfterTooBig(e, i)
                           \/ i \in Range(wire'[e][d]) \cup Range(accepted'[Other(e)])
<1>15. ASSUME NEW i, NEW d \in Conn, Passed(e, d, i) PROVE passed(d, i)
  <2>1. CASE i \in Range(wire[e][d])
    <3>1. i \in Range(wire'[e][d]) \/ i = x
      BY <1>2, <1>4, <2>1 DEF w
    <3> QED BY <1>12, <3>1
  <2> QED BY <1>12, <1>15, <2>1 DEF Passed, a
<1>16. NoLossInv(e)'
  <2>1. ASSUME NEW i \in 1..Len(sent[e]), NEW d \in Conn, sent[e][i].conn = d,
               stage[e][d] = "slot"
        PROVE  passed(d, i) \/ i \in Range(outgoing[e])
    BY <1>1, <1>15, <2>1 DEF NoLossInv
  <2> QED BY <1>3, <1>14, <2>1 DEF NoLossInv, Passed
<1>17. NoGapInv(e)'
  <2>1. ASSUME NEW d \in Conn, NEW i \in Range(wire'[e][d]), NEW j \in 1..i-1,
               sent[e][j].conn = d
        PROVE  passed(d, j)
    BY <1>1, <1>8, <1>15, <2>1 DEF NoGapInv
  <2> QED BY <1>3, <1>14, <2>1 DEF NoGapInv, Passed
<1>18. OrderInv(e)'
  <2> DEFINE b == accepted'[Other(e)]
             before(k, j) == \E l \in 1..(k - 1) : b[l] = j
  <2>1. ASSUME NEW k \in 1..Len(a)
        PROVE  /\ b[k] = a[k] /\ ~ before(k, a[k])
               /\ \A j \in 1..(a[k] - 1) :
                     sent[e][j].conn = sent[e][a[k]].conn => before(k, j) \/ AfterTooBig(e, j)
    <3>1. \A l \in 1..(k - 1) : l \in 1..Len(a) /\ b[l] = a[l]
      <4>1. \A l \in 1..(k - 1) : l \in 1..Len(a)
        BY <1>5
      <4> QED BY <1>11, <4>1
    <3>2. /\ ~ \E l \in 1..(k - 1) : a[l] = a[k]
          /\ \A j \in 1..(a[k] - 1) :
                sent[e][j].conn = sent[e][a[k]].conn =>
                   (\E l \in 1..(k - 1) : a[l] = j) \/ AfterTooBig(e, j)
      BY <1>1 DEF OrderInv, a
    <3>3. b[k] = a[k] /\ \A j : before(k, j) <=> \E l \in 1..(k - 1) : a[l] = j
      BY <1>11, <3>1
    <3> HIDE DEF before
    <3> QED BY <3>2, <3>3
  <2>2. \A j \in Range(a) : before(Len(a) + 1, j)
    <3>1. ASSUME NEW j \in Range(a) PROVE \E l \in 1..Len(a) : b[l] = j
      <4>1. PICK l \in 1..Len(a) : a[l] = j
        BY <1>5, RangePlace
      <4> QED BY <1>11, <4>1
    <3>2. (Len(a) + 1) - 1 = Len(a)
      BY <1>5
    <3> QED BY <3>1, <3>2
  <2>3. ~ before(Len(a) + 1, x)
    <3>1. Range(a) = { a[k] : k \in 1..Len(a) }
      BY <1>5, RangeEquality
    <3>2. \A l \in 1..((Len(a) + 1) - 1) : l \in 1..Len(a)
      BY <1>5
    <3> QED BY <1>2, <1>11, <3>1, <3>2
  <2>4. ASSUME NEW j \in 1..(x - 1), sent[e][j].conn = c
        PROVE  before(Len(a) + 1, j) \/ AfterTooBig(e, j)
    <3>1. x \in Range(w)
      BY <1>2
    <3>2. Passed(e, c, j)
      BY <1>1, <2>4, <3>1 DEF NoGapInv, w
    <3>3. j \notin Range(w)
      <4>1. \A y \in Range(w) : y \in Nat /\ x <= y
        BY <1>2, <1>5
      <4> QED BY <1>5, <4>1
    <3>4. AfterTooBig(e, j) \/ j \in Range(a)
      BY <3>2, <3>3 DEF Passed, w, a
    <3> QED BY <2>2, <3>4
  <2> HIDE DEF before
  <2>5. ASSUME NEW k \in 1..Len(b)
        PROVE  /\ ~ before(k, b[k])
               /\ \A j \in 1..(b[k] - 1) :
                     sent[e][j].conn = sent[e][b[k]].conn => before(k, j) \/ AfterTooBig(e, j)
    <3>1. CASE k \in 1..Len(a)
      BY <2>1, <3>1
    <3>2. CASE k = Len(a) + 1
      BY <1>2, <1>11, <2>3, <2>4, <3>2
    <3> QED BY <1>5, <1>11, <3>1, <3>2
  <2> QED BY <1>3, <1>14, <2>5 DEF OrderInv, before
<1> QED BY <1>7, <1>10, <1>13, <1>16, <1>17, <1>18

\* A step changes the messages of at most one end; to the other only its connections
\* matter.
LEMMA MessagesKept ==
    ASSUME Types, MessageInv, NEW e \in End,
           UNCHANGED <<sent[e], wire[e], accepted[Other(e)], outgoing[e], stage[e]>>
    PROVE  /\ OutgoingInv(e)' /\ WireInv(e)' /\ AcceptedInv(e)'
           /\ NoLossInv(e)' /\ NoGapInv(e)' /\ OrderInv(e)'
<1>1. Slot(e)' = Slot(e)
  BY DEF Slot
<1>2. \A c \in Conn : stage[e][c] = "ended" => outgoing[e] = <<>>
  BY DEF MessageInv, OutgoingInv
<1> QED BY <1>1, <1>2, MessageFrame

LEMMA MessageStep == ConnInv /\ MessageInv /\ [Next]_vars => MessageInv'
<1> SUFFICES ASSUME ConnInv, MessageInv, [Next]_vars, NEW f \in End
             PROVE  /\ OutgoingInv(f)' /\ WireInv(f)' /\ AcceptedInv(f)'
                    /\ NoLossInv(f)' /\ NoGapInv(f)' /\ OrderInv(f)'
  BY DEF MessageInv
<1> DEFINE Goal == /\ OutgoingInv(f)' /\ WireInv(f)' /\ AcceptedInv(f)'
                   /\ NoLossInv(f)' /\ NoGapInv(f)' /\ OrderInv(f)'
<1> SUFFICES Goal
  OBVIOUS
<1>1. Types /\ SourceInv /\ StageInv /\ ConnectorInv /\ OutgoingInv(f)
  BY DEF ConnInv, LinkInv, MessageInv
<1>2. /\ Other(f) \in End /\ Other(f) # f /\ Other(Other(f)) = f
      /\ \A e \in End : e # f => Other(e) = f /\ Other(f) = e
  BY DEF End, lo, hi, Other
\* The steps that give some connection another place.
<1>3. ASSUME UNCHANGED msgVars,
             \A c \in Conn : /\ stage'[f][c] = "ended" => stage[f][c] = "ended"
                             /\ stage[f][c] \in {"slot", "ended", "gone"} =>
                                   \/ stage'[f][c] = stage[f][c]
                                   \/ stage[f][c] = "ended" /\ stage'[f][c] = "gone"
      PROVE  Goal
  <2>1. UNCHANGED <<sent[f], wire[f], accepted[Other(f)]>> /\ outgoing'[f] = outgoing[f]
    BY <1>3 DEF msgVars
  <2>2. \A c \in Conn : stage[f][c] = "ended" => outgoing[f] = <<>>
    BY <1>1 DEF OutgoingInv
  <2>3. outgoing'[f] # <<>> => Slot(f) \subseteq Slot(f)'
    BY <1>3, <2>1, <2>2 DEF Slot
  <2> HIDE DEF Goal
  <2> QED BY <1>1, <1>3, <2>1, <2>2, <2>3, MessageFrame DEF Goal
<1> HIDE DEF Goal
<1>4. CASE Connect
  <2>1. conns + 1 \in Conn /\ stage[lo][conns + 1] = "none"
    <3>1. conns \in Nat /\ MaxConns \in Nat /\ conns < MaxConns
      BY <1>1, <1>4, ConnType DEF Connect
    <3>2. conns + 1 \in Conn /\ conns + 1 \notin 1..conns
      BY <3>1 DEF Conn
    <3> QED BY <1>1, <3>2, TwoEnds DEF StageInv
  <2>2. \A c \in Conn : stage'[f][c] = IF f = lo /\ c = conns + 1 THEN "handshake"
                                       ELSE stage[f][c]
    BY <1>1, <1>4, TwoEnds DEF Connect, Types
  <2> QED BY <1>3, <1>4, <2>1, <2>2 DEF Connect
<1>5. CASE SendHandshake
  <2>1. conns \in Conn /\ stage[hi][conns] = "none"
    BY <1>1, <1>5 DEF SendHandshake, ConnectorInv
  <2>2. \A c \in Conn : stage'[f][c] = IF f = hi /\ c = conns THEN "offered"
                                       ELSE stage[f][c]
    BY <1>1, <1>5, TwoEnds DEF SendHandshake, Types
  <2> QED BY <1>3, <1>5, <2>1, <2>2 DEF SendHandshake
<1>6. CASE HandshakeFails
  BY <1>3, <1>6 DEF HandshakeFails, endVars
<1>7. ASSUME NEW c \in Conn, Identify(c) PROVE Goal
  <2>1. \A d \in Conn : stage'[f][d] = IF f = lo /\ d = c THEN "offered" ELSE stage[f][d]
    BY <1>1, <1>7, TwoEnds DEF Identify, Types
  <2> QED BY <1>3, <1>7, <2>1 DEF Identify
<1>8. ASSUME NEW c \in Conn, IdentifyFails(c) PROVE Goal
  <2>1. \A d \in Conn : stage'[f][d] = IF f = lo /\ d = c THEN "gone" ELSE stage[f][d]
    BY <1>1, <1>8, TwoEnds DEF IdentifyFails, Types
  <2> QED BY <1>3, <1>8, <2>1 DEF IdentifyFails
<1>9. ASSUME NEW c \in Conn, NEW e \in End, ApplyConnection(e, c) PROVE Goal
  <2>1. UNCHANGED <<wire, sent, accepted>>
    BY <1>9 DEF ApplyConnection
  <2>2. CASE e # f
    <3>1. stage'[f] = stage[f] /\ outgoing'[f] = outgoing[f]
      BY <1>1, <1>9, <2>2 DEF ApplyConnection, Types
    <3> QED BY <1>1, <2>1, <3>1, MessagesKept DEF Goal
  <2>3. CASE e = f
    <3>1. stage[f][c] = "offered"
      BY <1>1, <1>9, <2>3, SourceHead DEF ApplyConnection, Offered
    <3>2. outgoing'[f] = <<>>
      BY <1>1, <1>9, <2>3 DEF ApplyConnection, Types
    <3>3. \A d \in Conn : stage'[f][d] = IF d = c THEN "slot"
                                         ELSE IF d \in Slot(f) THEN "gone" ELSE stage[f][d]
      BY <1>1, <1>9, <2>3 DEF ApplyConnection, Types
    <3>4. \A d \in Conn : stage[f][d] \in {"slot", "ended", "gone"} => stage'[f][d] = "gone"
      BY <3>1, <3>3 DEF Slot
    <3> QED BY <1>1, <2>1, <3>2, <3>4, MessageFrame DEF Goal
  <2> QED BY <2>2, <2>3
<1>10. ASSUME NEW c \in Conn, Break(c) PROVE Goal
  BY <1>3, <1>10 DEF Break, endVars
<1>11. ASSUME NEW c \in Conn, NEW e \in End, Deliver(e, c) PROVE Goal
  <2>1. CASE e = Other(f)
    BY <1>11, <2>1, MessagesDeliver DEF Goal
  <2>2. CASE e = f
    <3>1. UNCHANGED <<sent[f], wire[f], accepted[Other(f)], outgoing[f], stage[f]>>
      BY <1>1, <1>2, <1>11, <2>2 DEF Deliver, Types, endVars
    <3> QED BY <1>1, <3>1, MessagesKept DEF Goal
  <2> QED BY <1>2, <2>1, <2>2
<1>12. ASSUME NEW e \in End, NEW big \in TooBig, SendToCluster(e, big) PROVE Goal
  <2>1. CASE e = f
    BY <1>12, <2>1, MessagesSend DEF Goal
  <2>2. CASE e # f
    <3>1. UNCHANGED <<sent[f], wire[f], accepted[Other(f)], outgoing[f], stage[f]>>
      BY <1>1, <1>12, <2>2 DEF SendToCluster, Types, endVars
    <3> QED BY <1>1, <3>1, MessagesKept DEF Goal
  <2> QED BY <2>1, <2>2
<1>13. ASSUME NEW e \in End, SendFails(e) PROVE Goal
  <2>1. PICK c \in Conn : stage[e][c] = "ended" /\ stage' = [stage EXCEPT ![e][c] = "gone"]
    BY <1>13 DEF SendFails
  <2>2. \A d \in Conn : stage'[f][d] = IF f = e /\ d = c THEN "gone" ELSE stage[f][d]
    BY <1>1, <2>1 DEF Types
  <2> QED BY <1>3, <1>13, <2>1, <2>2 DEF SendFails
<1>14. ASSUME NEW e \in End, WriterWrites(e) PROVE Goal
  <2>1. CASE e = f
    BY <1>14, <2>1, MessagesWrite DEF Goal
  <2>2. CASE e # f
    <3>1. UNCHANGED <<sent[f], wire[f], accepted[Other(f)], outgoing[f], stage[f]>>
      BY <1>1, <1>14, <2>2 DEF WriterWrites, Types, endVars
    <3> QED BY <1>1, <3>1, MessagesKept DEF Goal
  <2> QED BY <2>1, <2>2
<1>15. ASSUME NEW e \in End, WriterFails(e) PROVE Goal
  <2>1. PICK c \in broken : stage[e][c] = "slot" /\ stage' = [stage EXCEPT ![e][c] = "ended"]
    BY <1>15 DEF WriterFails
  <2>2. UNCHANGED <<wire, sent, accepted>> /\ c \in Conn
    BY <1>1, <1>15, ConnType DEF WriterFails, Types
  <2>3. CASE e # f
    <3>1. stage'[f] = stage[f] /\ outgoing'[f] = outgoing[f]
      BY <1>1, <1>15, <2>1, <2>3 DEF WriterFails, Types
    <3> QED BY <1>1, <2>2, <3>1, MessagesKept DEF Goal
  <2>4. CASE e = f
    <3>1. outgoing'[f] = <<>>
      BY <1>1, <1>15, <2>4 DEF WriterFails, Types
    <3>2. \A d \in Conn : stage'[f][d] = IF d = c THEN "ended" ELSE stage[f][d]
      BY <1>1, <2>1, <2>2, <2>4 DEF Types
    <3>3. \A d \in Conn : stage[f][d] = "slot" => d = c
      BY <1>1, <2>1, <2>2, <2>4 DEF StageInv, Slot
    <3> QED BY <1>1, <2>1, <2>2, <3>1, <3>2, <3>3, MessageFrame DEF Goal
  <2> QED BY <2>3, <2>4
<1>16. ASSUME NEW e \in End, Kill(e) PROVE Goal
  <2>1. UNCHANGED <<wire, sent, accepted>>
    BY <1>16 DEF Kill
  <2>2. CASE e # f
    <3>1. stage'[f] = stage[f] /\ outgoing'[f] = outgoing[f]
      BY <1>1, <1>16, <2>2 DEF Kill, Types
    <3> QED BY <1>1, <2>1, <3>1, MessagesKept DEF Goal
  <2>3. CASE e = f
    <3>1. outgoing'[f] = <<>>
      BY <1>1, <1>16, <2>3 DEF Kill, Types
    <3>2. \A d \in Conn : stage'[f][d] = IF d \in 1..conns THEN "gone" ELSE "none"
      BY <1>1, <1>16, <2>3 DEF Kill, Types
    <3>3. \A d \in Conn : stage[f][d] \in {"slot", "ended", "gone"} => stage'[f][d] = "gone"
      BY <1>1, <3>2 DEF StageInv
    <3>4. \A d \in Conn : stage'[f][d] \in {"gone", "none"}
      BY <3>2
    <3> QED BY <1>1, <2>1, <3>1, <3>3, <3>4, MessageFrame DEF Goal
  <2> QED BY <2>2, <2>3
<1>17. ASSUME NEW e \in End, Restart(e) PROVE Goal
  BY <1>3, <1>17 DEF Restart, endVars
<1>18. CASE UNCHANGED vars
  BY <1>3, <1>18 DEF vars, endVars
<1> QED BY <1>4, <1>5, <1>6, <1>7, <1>8, <1>9, <1>10, <1>11, <1>12, <1>13, <1>14, <1>15,
           <1>16, <1>17, <1>18 DEF Next, ConnStep

LEMMA MessageInit == Init => MessageInv
<1> SUFFICES ASSUME Init, NEW e \in End
             PROVE  /\ OutgoingInv(e) /\ WireInv(e) /\ AcceptedInv(e)
                    /\ NoLossInv(e) /\ NoGapInv(e) /\ OrderInv(e)
  BY DEF MessageInv
<1>1. /\ sent[e] = <<>> /\ outgoing[e] = <<>> /\ accepted[Other(e)] = <<>>
      /\ \A c \in Conn : wire[e][c] = <<>>
  BY TwoEnds DEF Init
<1>2. Taken(e) = 0 /\ Len(sent[e]) = 0 /\ Len(accepted[Other(e)]) = 0
      /\ Len(outgoing[e]) = 0
  BY <1>1 DEF Taken
<1>3. Range(<<>>) = {}
  BY DEF Range
<1>4. OutgoingInv(e) /\ WireInv(e) /\ NoLossInv(e) /\ OrderInv(e)
  BY <1>1, <1>2 DEF OutgoingInv, WireInv, NoLossInv, OrderInv
<1>5. AcceptedInv(e) /\ NoGapInv(e)
  BY <1>1, <1>3 DEF AcceptedInv, NoGapInv
<1> QED BY <1>4, <1>5

LEMMA MessageAlways == Spec => [](ConnInv /\ MessageInv)
<1>1. Init => ConnInv
  BY TypesInit, LinkInit DEF ConnInv
<1> QED BY <1>1, MessageInit, ConnStepInv, MessageStep, PTL DEF Spec

\* However connections are replaced, detached and broken, what one of them delivers is
\* in order, without duplicates, and without a gap that a message too big did not make.
THEOREM SessionsAreOrdered == Spec => []SessionOrder
<1>1. MessageInv => SessionOrder
  <2>1. SUFFICES ASSUME MessageInv, NEW e \in End
                 PROVE  \A k \in 1..Len(accepted[e]) :
                           LET i == accepted[e][k]
                               before(j) == \E l \in 1..(k - 1) : accepted[e][l] = j
                           IN  /\ ~ before(i)
                               /\ \A j \in 1..(i - 1) :
                                     sent[Other(e)][j].conn = sent[Other(e)][i].conn =>
                                         before(j) \/ AfterTooBig(Other(e), j)
    BY DEF SessionOrder
  <2>2. OrderInv(Other(e)) /\ Other(Other(e)) = e
    BY <2>1, TwoEnds DEF MessageInv
  <2> DEFINE x == accepted[e]
             s == sent[Other(e)]
  <2>3. ASSUME NEW k \in 1..Len(x)
        PROVE  /\ ~ \E l \in 1..(k - 1) : x[l] = x[k]
               /\ \A j \in 1..(x[k] - 1) : s[j].conn = s[x[k]].conn =>
                     (\E l \in 1..(k - 1) : x[l] = j) \/ AfterTooBig(Other(e), j)
    BY <2>2 DEF OrderInv
  <2> QED BY <2>3
<1> QED BY <1>1, MessageAlways, PTL

\* While a connection is not broken, none of its messages is lost but those that were
\* too big and the rest of their batch.
THEOREM OnlyBrokenConnectionsLose == Spec => []LossEndsSession
<1>1. ConnInv /\ MessageInv => LossEndsSession
  <2>1. SUFFICES ASSUME ConnInv, MessageInv, NEW e \in End, NEW i \in 1..Len(sent[e]),
                        sent[e][i].conn \notin broken
                 PROVE  \/ AfterTooBig(e, i)
                        \/ i \in Range(outgoing[e]) \cup Range(wire[e][sent[e][i].conn])
                                 \cup Range(accepted[Other(e)])
    BY DEF LossEndsSession
  <2>2. OutgoingInv(e) /\ NoLossInv(e) /\ Types /\ StageInv
    BY <2>1 DEF ConnInv, LinkInv, MessageInv
  <2>3. sent[e][i].conn \in Conn
    BY <2>2, MessageTypes
  <2>4. stage[e][sent[e][i].conn] = "slot"
    BY <2>1, <2>2, <2>3 DEF OutgoingInv, StageInv
  <2> QED BY <2>2, <2>3, <2>4 DEF NoLossInv, Passed
<1> QED BY <1>1, MessageAlways, PTL

-------------------------------------------------------------------------------
(* PeerLink implements ClusterLinks *)

Ready(e) == Waiting(e) \ broken
Broke(e) == Waiting(e) \cap broken
Dead(e) == Slot(e) \cap broken

\* The state of ClusterLinks, end by end.
Entry(e) == IF Slot(e) = {} THEN "none" ELSE IF Dead(e) # {} THEN "dead" ELSE "live"

LEMMA EndPairs ==
    /\ Links!Pair = End \X End
    /\ \A e \in End : <<e, e>> \in Links!Pair /\ <<e, Other(e)>> \in Links!Pair
    /\ \A p \in Links!Pair : \E e \in End : p = <<e, e>> \/ p = <<e, Other(e)>>
    /\ \A e \in End : <<e, e>> # <<e, Other(e)>>
<1>1. Links!Pair = End \X End
  BY DEF Links!Pair
<1>2. \A e, f \in End : f = e \/ f = Other(e)
  BY TwoEnds
<1>3. \A e \in End : Other(e) \in End /\ Other(e) # e
  BY TwoEnds
<1> QED BY <1>1, <1>2, <1>3

LEMMA View == \A e \in End :
    /\ slot[<<e, Other(e)>>] = Entry(e) /\ slot[<<e, e>>] = "none"
    /\ offered[<<e, Other(e)>>] = (Ready(e) # {}) /\ offered[<<e, e>>] = FALSE
    /\ stale[<<e, Other(e)>>] = Cardinality(Broke(e)) /\ stale[<<e, e>>] = 0
BY TwoEnds DEF slot, offered, stale, Entry, Dead, Ready, Broke

LEMMA ViewNext == \A e \in End :
    /\ slot'[<<e, Other(e)>>] = Entry(e)' /\ slot'[<<e, e>>] = "none"
    /\ offered'[<<e, Other(e)>>] = (Ready(e)' # {}) /\ offered'[<<e, e>>] = FALSE
    /\ stale'[<<e, Other(e)>>] = Cardinality(Broke(e)') /\ stale'[<<e, e>>] = 0
BY TwoEnds DEF slot, offered, stale, Entry, Dead, Ready, Broke

LEMMA ViewFunctions ==
    /\ slot = [p \in Links!Pair |-> slot[p]] /\ slot' = [p \in Links!Pair |-> slot'[p]]
    /\ offered = [p \in Links!Pair |-> offered[p]]
    /\ offered' = [p \in Links!Pair |-> offered'[p]]
    /\ stale = [p \in Links!Pair |-> stale[p]] /\ stale' = [p \in Links!Pair |-> stale'[p]]
BY EndPairs DEF slot, offered, stale

\* What holds of both pairs of each end holds of all pairs.
LEMMA AllPairs ==
    ASSUME NEW S, \A e \in End : <<e, e>> \in S /\ <<e, Other(e)>> \in S
    PROVE  Links!Pair \subseteq S
<1>1. ASSUME NEW p \in Links!Pair PROVE p \in S
  <2>1. PICK e \in End : p = <<e, e>> \/ p = <<e, Other(e)>>
    BY EndPairs
  <2> QED BY <2>1
<1> QED BY <1>1

LEMMA SlotKept ==
    ASSUME \A e \in End : Entry(e)' = Entry(e)
    PROVE  slot' = slot
<1> DEFINE S == { p \in Links!Pair : slot'[p] = slot[p] }
<1>1. ASSUME NEW e \in End PROVE <<e, e>> \in S /\ <<e, Other(e)>> \in S
  BY EndPairs, View, ViewNext
<1> HIDE DEF S
<1>2. \A p \in Links!Pair : p \in S
  BY <1>1, AllPairs
<1>3. \A p \in Links!Pair : slot'[p] = slot[p]
  BY <1>2 DEF S
<1> QED BY <1>3, ViewFunctions

LEMMA OfferedKept ==
    ASSUME \A e \in End : Ready(e)' # {} <=> Ready(e) # {}
    PROVE  offered' = offered
<1> DEFINE S == { p \in Links!Pair : offered'[p] = offered[p] }
<1>1. ASSUME NEW e \in End PROVE <<e, e>> \in S /\ <<e, Other(e)>> \in S
  BY EndPairs, View, ViewNext
<1> HIDE DEF S
<1>2. \A p \in Links!Pair : p \in S
  BY <1>1, AllPairs
<1>3. \A p \in Links!Pair : offered'[p] = offered[p]
  BY <1>2 DEF S
<1> QED BY <1>3, ViewFunctions

LEMMA StaleKept ==
    ASSUME \A e \in End : Cardinality(Broke(e)') = Cardinality(Broke(e))
    PROVE  stale' = stale
<1> DEFINE S == { p \in Links!Pair : stale'[p] = stale[p] }
<1>1. ASSUME NEW e \in End PROVE <<e, e>> \in S /\ <<e, Other(e)>> \in S
  BY EndPairs, View, ViewNext
<1> HIDE DEF S
<1>2. \A p \in Links!Pair : p \in S
  BY <1>1, AllPairs
<1>3. \A p \in Links!Pair : stale'[p] = stale[p]
  BY <1>2 DEF S
<1> QED BY <1>3, ViewFunctions

\* A connection that was registered and is not broken is the only one, hi waits for it
\* to be applied or has it, and lo has not lost it.
LEMMA OneUp ==
    ASSUME ConnInv, NEW c \in registered \ broken
    PROVE  /\ c \in Conn /\ c \in 1..conns
           /\ stage[hi][c] \in {"offered", "slot"}
           /\ stage[lo][c] \in {"handshake", "offered", "slot"}
           /\ \A d \in registered \ broken : c = d
<1>1. Types /\ StageInv /\ ConnectorInv /\ RegisteredInv
  BY DEF ConnInv, LinkInv
<1>2. \A d \in registered : d \in 1..conns /\ d \in Conn
  BY <1>1, ConnType DEF Types
<1>3. ASSUME NEW d \in registered \ broken
      PROVE  stage[hi][d] \in {"offered", "slot"} /\ d \in Held(hi)
  <2>1. stage[hi][d] \in Stage
    <3>1. stage \in [End -> [Conn -> Stage]] /\ hi \in End /\ d \in Conn
      BY <1>1, <1>2, TwoEnds DEF Types
    <3> QED BY <3>1
  <2>2. stage[hi][d] \notin {"none", "handshake", "ended", "gone"}
    BY <1>1, <1>2, TwoEnds DEF StageInv, ConnectorInv, RegisteredInv
  <2> QED BY <1>2, <2>1, <2>2 DEF Stage, Held
<1>4. \A d, f \in Held(hi) : d = f
  BY <1>1 DEF ConnectorInv
<1>5. stage[lo][c] \in {"handshake", "offered", "slot"}
  BY <1>1, <1>2 DEF RegisteredInv
<1> QED BY <1>2, <1>3, <1>4, <1>5

\* What an entry of peer_connections and a waiting connection are.
LEMMA Places ==
    ASSUME ConnInv, NEW e \in End
    PROVE  /\ Slot(e) \subseteq registered /\ Slot(e) \subseteq Conn
           /\ \A c, d \in Slot(e) : c = d
           /\ Waiting(e) \subseteq registered /\ registered \subseteq Conn
           /\ registered \subseteq 1..conns
           /\ Slot(e) \cap Waiting(e) = {}
           /\ Entry(e) \in {"none", "live", "dead"}
           /\ Entry(e) = "none" <=> Slot(e) = {}
           /\ Entry(e) = "dead" <=> Slot(e) \cap broken # {}
           /\ Entry(e) = "live" <=> Slot(e) \ broken # {}
<1>1. Types /\ StageInv /\ RegisteredInv
  BY DEF ConnInv, LinkInv
<1>2. registered \subseteq Conn /\ registered \subseteq 1..conns
  BY <1>1, ConnType DEF Types
<1>3. /\ Slot(e) \subseteq registered /\ Slot(e) \subseteq Conn
      /\ \A c, d \in Slot(e) : c = d
      /\ Slot(e) \cap Waiting(e) = {} /\ Waiting(e) \subseteq registered
  BY <1>1 DEF Slot, Held, RegisteredInv, StageInv, Waiting
<1>4. /\ Entry(e) \in {"none", "live", "dead"}
      /\ Entry(e) = "none" <=> Slot(e) = {}
      /\ Entry(e) = "dead" <=> Slot(e) \cap broken # {}
      /\ Entry(e) = "live" <=> Slot(e) \ broken # {}
  BY <1>3 DEF Entry, Dead
<1> QED BY <1>2, <1>3, <1>4

LEMMA BrokeCount ==
    ASSUME ConnInv, NEW e \in End
    PROVE  IsFiniteSet(Broke(e)) /\ Cardinality(Broke(e)) \in Nat
           /\ (Cardinality(Broke(e)) = 0 <=> Broke(e) = {})
<1>1. Broke(e) \subseteq 1..conns /\ conns \in Nat
  BY Places, ConnType DEF ConnInv, Broke
<1>2. IsFiniteSet(1..conns)
  BY <1>1, FS_Interval
<1>3. IsFiniteSet(Broke(e))
  BY <1>1, <1>2, FS_Subset
<1> QED BY <1>3, FS_CardinalityType, FS_EmptySet

\* The steps that ClusterLinks does not see.
LEMMA LinkStutter ==
    ASSUME ConnInv, UNCHANGED <<registered, broken>>,
           \A e \in End : \A c \in Conn :
              /\ stage'[e][c] \in {"slot", "ended"} <=> stage[e][c] \in {"slot", "ended"}
              /\ c \in registered =>
                   (stage'[e][c] \in {"handshake", "offered"}
                      <=> stage[e][c] \in {"handshake", "offered"})
    PROVE  UNCHANGED <<slot, offered, stale>>
<1>1. registered \subseteq Conn
  BY Places, TwoEnds
<1>2. ASSUME NEW e \in End PROVE Slot(e)' = Slot(e) /\ Waiting(e)' = Waiting(e)
  <2>1. Slot(e)' = Slot(e)
    BY DEF Slot
  <2>2. Waiting(e)' = Waiting(e)
    BY <1>1 DEF Waiting
  <2> QED BY <2>1, <2>2
<1>3. \A e \in End : Entry(e)' = Entry(e) /\ Ready(e)' = Ready(e) /\ Broke(e)' = Broke(e)
  BY <1>2 DEF Entry, Dead, Ready, Broke
<1>4. \A e \in End : /\ Ready(e)' # {} <=> Ready(e) # {}
                     /\ Cardinality(Broke(e)') = Cardinality(Broke(e))
  BY <1>3
<1> QED BY <1>3, <1>4, SlotKept, OfferedKept, StaleKept

\* The pairs of both ends.
LEMMA LinkEnds ==
    /\ \A e \in End : <<e, Other(e)>> \in Links!Ends(hi, lo) /\ <<e, e>> \notin Links!Ends(hi, lo)
    /\ <<hi, lo>> = <<hi, Other(hi)>> /\ <<lo, hi>> = <<lo, Other(lo)>>
<1>1. Links!Ends(hi, lo) = {<<hi, lo>>, <<lo, hi>>}
  BY DEF Links!Ends
<1> QED BY <1>1, TwoEnds DEF lo, hi

\* Both ends have or get the connection if it is up when the handshake is written.
LEMMA LinksSendHandshake ==
    ASSUME ConnInv, SendHandshake
    PROVE  Links!Establish(hi, lo) \/ Links!EstablishStale(hi, lo)
<1> DEFINE c == conns
<1>0. Types /\ ConnectorInv /\ RegisteredInv
  BY DEF ConnInv, LinkInv
<1>1. /\ c \in Conn /\ c \in 1..conns /\ c \notin registered /\ stage[hi][c] = "none"
      /\ Held(hi) = {}
  BY <1>0, ConnType DEF SendHandshake, ConnectorInv, Conn
<1>2. registered' = registered \cup {c} /\ broken' = broken
      /\ stage' = [stage EXCEPT ![hi][c] = "offered"]
  BY DEF SendHandshake
<1> HIDE DEF c
<1>3. \A d \in Conn : /\ stage'[hi][d] = IF d = c THEN "offered" ELSE stage[hi][d]
                      /\ stage'[lo][d] = stage[lo][d]
  BY <1>0, <1>2, TwoEnds DEF Types
<1>4. registered \subseteq Conn
  BY Places, TwoEnds
<1>5. Slot(hi) = {} /\ Waiting(hi) = {}
  BY <1>0, <1>1, <1>4 DEF Slot, Waiting, Held, ConnectorInv
<1>6. Slot(hi)' = Slot(hi) /\ Slot(lo)' = Slot(lo)
  BY <1>1, <1>3 DEF Slot
<1>7. Waiting(hi)' = {c}
  BY <1>1, <1>2, <1>3, <1>4, <1>5 DEF Waiting
<1>8. Waiting(lo)' = IF stage[lo][c] = "handshake" THEN Waiting(lo) \cup {c} ELSE Waiting(lo)
  <2>1. stage[lo][c] # "offered"
    BY <1>0, <1>1, TwoEnds DEF RegisteredInv, Held
  <2> QED BY <1>1, <1>2, <1>3, <1>4, <2>1 DEF Waiting
<1>9. \A e \in End : e = hi \/ e = lo
  BY TwoEnds DEF lo, hi
<1>10. slot' = slot
  <2>1. \A e \in End : Entry(e)' = Entry(e)
    BY <1>2, <1>6, <1>9 DEF Entry, Dead
  <2> QED BY <2>1, SlotKept
<1>11. Ready(hi) = {} /\ Broke(hi) = {} /\ Entry(hi) = "none"
  BY <1>5 DEF Ready, Broke, Entry
<1>12. Links!Free(hi, lo)
  <2>1. slot[<<hi, lo>>] = "none" /\ ~ offered[<<hi, lo>>] /\ stale[<<hi, lo>>] = 0
    <3>1. /\ slot[<<hi, lo>>] = Entry(hi) /\ offered[<<hi, lo>>] = (Ready(hi) # {})
          /\ stale[<<hi, lo>>] = Cardinality(Broke(hi))
      BY View, LinkEnds, TwoEnds
    <3> QED BY <1>11, <3>1, FS_EmptySet
  <2> QED BY <2>1 DEF Links!Free
<1>13. lo < hi
  BY DEF lo, hi
<1>14. CASE c \notin broken
  <2>1. stage[lo][c] = "handshake"
    <3>1. stage[lo][c] \in {"handshake", "offered", "slot"}
      BY <1>0, <1>1, <1>14 DEF RegisteredInv, c
    <3>2. c \notin Held(lo)
      BY <1>0, <1>1, TwoEnds DEF RegisteredInv
    <3> QED BY <1>1, <3>1, <3>2 DEF Held
  <2>2. c \in Ready(hi)' /\ c \in Ready(lo)'
    BY <1>2, <1>7, <1>8, <1>14, <2>1 DEF Ready
  <2>3. Broke(hi)' = Broke(hi) /\ Broke(lo)' = Broke(lo)
    BY <1>2, <1>5, <1>7, <1>8, <1>14 DEF Broke
  <2>4. stale' = stale
    <3>1. \A e \in End : Cardinality(Broke(e)') = Cardinality(Broke(e))
      BY <1>9, <2>3
    <3> QED BY <3>1, StaleKept
  <2> DEFINE S == { p \in Links!Pair : offered'[p] = (offered[p] \/ p \in Links!Ends(hi, lo)) }
  <2>5. ASSUME NEW e \in End PROVE <<e, e>> \in S /\ <<e, Other(e)>> \in S
    <3>1. offered'[<<e, Other(e)>>] = TRUE
      BY <1>9, <2>2, ViewNext
    <3>2. offered[<<e, e>>] = FALSE /\ offered'[<<e, e>>] = FALSE
      BY View, ViewNext
    <3> QED BY <3>1, <3>2, EndPairs, LinkEnds
  <2> HIDE DEF S
  <2>6. \A p \in Links!Pair : p \in S
    BY <2>5, AllPairs
  <2>7. offered' = [p \in Links!Pair |-> offered[p] \/ p \in Links!Ends(hi, lo)]
    BY <2>6, ViewFunctions DEF S
  <2> QED BY <1>10, <1>12, <1>13, <2>4, <2>7 DEF Links!Establish
<1>15. CASE c \in broken
  <2>1. offered' = offered
    <3>1. Ready(hi)' = Ready(hi) /\ Ready(lo)' = Ready(lo)
      BY <1>2, <1>5, <1>7, <1>8, <1>15 DEF Ready
    <3>2. \A e \in End : Ready(e)' # {} <=> Ready(e) # {}
      BY <1>9, <3>1
    <3> QED BY <3>2, OfferedKept
  <2>2. Cardinality(Broke(hi)') = 1
    <3>1. Broke(hi)' = {c}
      BY <1>2, <1>7, <1>15 DEF Broke
    <3> QED BY <3>1, FS_Singleton
  <2> DEFINE n == Cardinality(Broke(lo))
  <2>3. Cardinality(Broke(lo)') \in {n, n + 1}
    <3>1. c \notin Broke(lo) /\ IsFiniteSet(Broke(lo))
      BY <1>1, Places, BrokeCount, TwoEnds DEF Broke
    <3>2. Broke(lo)' \in {Broke(lo), Broke(lo) \cup {c}}
      BY <1>2, <1>8, <1>15 DEF Broke
    <3>3. Cardinality(Broke(lo) \cup {c}) = n + 1
      BY <3>1, FS_AddElement
    <3> QED BY <3>2, <3>3
  <2>4. /\ stale'[<<hi, lo>>] = 1 /\ stale[<<lo, hi>>] = n
        /\ stale'[<<lo, hi>>] \in {n, n + 1}
        /\ \A e \in End : stale'[<<e, e>>] = stale[<<e, e>>]
    <3>1. stale'[<<hi, Other(hi)>>] = 1 /\ stale'[<<lo, Other(lo)>>] \in {n, n + 1}
      BY <2>2, <2>3, ViewNext, TwoEnds
    <3>2. stale[<<lo, Other(lo)>>] = n /\ \A e \in End : stale'[<<e, e>>] = stale[<<e, e>>]
      BY View, ViewNext, TwoEnds
    <3> QED BY <3>1, <3>2, LinkEnds
  <2> HIDE DEF n
  <2>5. stale' \in { [stale EXCEPT ![<<hi, lo>>] = 1],
                     [stale EXCEPT ![<<hi, lo>>] = 1, ![<<lo, hi>>] = @ + 1] }
    <3> DEFINE g(m) == [p \in Links!Pair |-> IF p = <<hi, lo>> THEN 1
                                             ELSE IF p = <<lo, hi>> THEN m ELSE stale[p]]
               m == stale'[<<lo, hi>>]
               S == { p \in Links!Pair : stale'[p] = g(m)[p] }
    <3>1. ASSUME NEW e \in End PROVE <<e, e>> \in S /\ <<e, Other(e)>> \in S
      <4>1. <<e, e>> # <<hi, lo>> /\ <<e, e>> # <<lo, hi>>
        BY TwoEnds
      <4>2. <<hi, lo>> # <<lo, hi>> /\ <<e, Other(e)>> \in {<<hi, lo>>, <<lo, hi>>}
        BY <1>9, TwoEnds
      <4> QED BY <2>4, <4>1, <4>2, EndPairs
    <3> HIDE DEF S
    <3>2. \A p \in Links!Pair : p \in S
      BY <3>1, AllPairs
    <3>3. stale' = g(m)
      BY <3>2, ViewFunctions DEF S
    <3>4. stale = [p \in Links!Pair |-> stale[p]] /\ stale[<<lo, hi>>] = n /\ <<hi, lo>> # <<lo, hi>>
      BY <2>4, ViewFunctions, TwoEnds
    <3>5. g(n) = [stale EXCEPT ![<<hi, lo>>] = 1]
      BY <3>4
    <3>6. g(n + 1) = [stale EXCEPT ![<<hi, lo>>] = 1, ![<<lo, hi>>] = @ + 1]
      BY <3>4
    <3>7. m \in {n, n + 1}
      BY <2>4
    <3> HIDE DEF g, m
    <3> QED BY <3>3, <3>5, <3>6, <3>7
  <2> QED BY <1>10, <1>12, <1>13, <2>1, <2>5 DEF Links!EstablishStale
<1> QED BY <1>14, <1>15

\* A step that changes what one end sees.
LEMMA SlotBecomes ==
    ASSUME NEW e \in End, NEW v, Entry(e)' = v, Entry(Other(e))' = Entry(Other(e))
    PROVE  slot' = [slot EXCEPT ![<<e, Other(e)>>] = v]
<1> DEFINE S == { p \in Links!Pair : slot'[p] = IF p = <<e, Other(e)>> THEN v ELSE slot[p] }
<1>1. ASSUME NEW f \in End PROVE <<f, f>> \in S /\ <<f, Other(f)>> \in S
  <2>1. f = e \/ (f = Other(e) /\ Other(e) # e)
    BY TwoEnds
  <2>2. slot'[<<f, Other(f)>>] = IF f = e THEN v ELSE slot[<<f, Other(f)>>]
    BY <2>1, View, ViewNext
  <2>3. slot'[<<f, f>>] = slot[<<f, f>>] /\ <<f, f>> # <<e, Other(e)>>
    BY <2>1, View, ViewNext, TwoEnds
  <2>4. <<f, Other(f)>> = <<e, Other(e)>> <=> f = e
    OBVIOUS
  <2> QED BY <2>2, <2>3, <2>4, EndPairs
<1> HIDE DEF S
<1>2. \A p \in Links!Pair : p \in S
  BY <1>1, AllPairs
<1>3. \A p \in Links!Pair : slot'[p] = IF p = <<e, Other(e)>> THEN v ELSE slot[p]
  BY <1>2 DEF S
<1> QED BY <1>3, ViewFunctions

LEMMA NothingOffered ==
    ASSUME NEW e \in End, Ready(e)' = {}, Ready(Other(e))' # {} <=> Ready(Other(e)) # {}
    PROVE  offered' = [offered EXCEPT ![<<e, Other(e)>>] = FALSE]
<1> DEFINE S == { p \in Links!Pair :
                    offered'[p] = IF p = <<e, Other(e)>> THEN FALSE ELSE offered[p] }
<1>1. ASSUME NEW f \in End PROVE <<f, f>> \in S /\ <<f, Other(f)>> \in S
  <2>1. f = e \/ (f = Other(e) /\ Other(e) # e)
    BY TwoEnds
  <2>2. offered'[<<f, Other(f)>>] = IF f = e THEN FALSE ELSE offered[<<f, Other(f)>>]
    BY <2>1, View, ViewNext
  <2>3. offered'[<<f, f>>] = offered[<<f, f>>] /\ <<f, f>> # <<e, Other(e)>>
    BY <2>1, View, ViewNext, TwoEnds
  <2>4. <<f, Other(f)>> = <<e, Other(e)>> <=> f = e
    OBVIOUS
  <2> QED BY <2>2, <2>3, <2>4, EndPairs
<1> HIDE DEF S
<1>2. \A p \in Links!Pair : p \in S
  BY <1>1, AllPairs
<1>3. \A p \in Links!Pair : offered'[p] = IF p = <<e, Other(e)>> THEN FALSE ELSE offered[p]
  BY <1>2 DEF S
<1> QED BY <1>3, ViewFunctions

LEMMA StaleLess ==
    ASSUME ConnInv, NEW e \in End, NEW c \in Broke(e),
           Broke(e)' = Broke(e) \ {c}, Broke(Other(e))' = Broke(Other(e))
    PROVE  /\ stale[<<e, Other(e)>>] > 0
           /\ stale' = [stale EXCEPT ![<<e, Other(e)>>] = @ - 1]
<1> DEFINE n == stale[<<e, Other(e)>>]
           S == { p \in Links!Pair : stale'[p] = IF p = <<e, Other(e)>> THEN n - 1 ELSE stale[p] }
<1>1. n = Cardinality(Broke(e)) /\ stale'[<<e, Other(e)>>] = Cardinality(Broke(e) \ {c})
  BY View, ViewNext
<1>2. /\ IsFiniteSet(Broke(e)) /\ Cardinality(Broke(e)) \in Nat
      /\ Cardinality(Broke(e)) = 0 <=> Broke(e) = {}
  BY BrokeCount
<1>3. n > 0
  BY <1>1, <1>2
<1>4. stale'[<<e, Other(e)>>] = n - 1
  BY <1>1, <1>2, FS_RemoveElement
<1> HIDE DEF n
<1>5. ASSUME NEW f \in End PROVE <<f, f>> \in S /\ <<f, Other(f)>> \in S
  <2>1. f = e \/ (f = Other(e) /\ Other(e) # e)
    BY TwoEnds
  <2>2. f # e => stale'[<<f, Other(f)>>] = stale[<<f, Other(f)>>]
    <3> DEFINE o == Other(e)
    <3>1. o \in End /\ Broke(o)' = Broke(o)
      BY TwoEnds
    <3>2. stale'[<<o, Other(o)>>] = Cardinality(Broke(o)')
      BY <3>1, ViewNext
    <3>3. stale[<<o, Other(o)>>] = Cardinality(Broke(o))
      BY <3>1, View
    <3> QED BY <2>1, <3>1, <3>2, <3>3
  <2>3. stale'[<<f, f>>] = stale[<<f, f>>] /\ <<f, f>> # <<e, Other(e)>>
    BY <2>1, View, ViewNext, TwoEnds
  <2>4. <<f, Other(f)>> = <<e, Other(e)>> <=> f = e
    OBVIOUS
  <2> QED BY <1>4, <2>2, <2>3, <2>4, EndPairs
<1> HIDE DEF S
<1>6. \A p \in Links!Pair : p \in S
  BY <1>5, AllPairs
<1>7. \A p \in Links!Pair : stale'[p] = IF p = <<e, Other(e)>> THEN n - 1 ELSE stale[p]
  BY <1>6 DEF S
<1>8. stale' = [stale EXCEPT ![<<e, Other(e)>>] = n - 1]
  BY <1>7, ViewFunctions
<1> QED BY <1>3, <1>8 DEF n

LEMMA LinksIdentifyFails ==
    ASSUME ConnInv, NEW c \in Conn, IdentifyFails(c)
    PROVE  Links!Forget(lo, hi) \/ UNCHANGED <<slot, offered, stale>>
<1>1. /\ c \in broken /\ stage[lo][c] = "handshake"
      /\ UNCHANGED <<registered, broken>>
      /\ stage' = [stage EXCEPT ![lo][c] = "gone"]
  BY DEF IdentifyFails, tcpVars, procVars
<1>2. \A f \in End : \A d \in Conn :
         stage'[f][d] = IF f = lo /\ d = c THEN "gone" ELSE stage[f][d]
  <2>1. stage'[lo] = [stage[lo] EXCEPT ![c] = "gone"] /\ stage'[hi] = stage[hi]
    BY <1>1, TwoEnds DEF Types, ConnInv
  <2>2. stage[lo] \in [Conn -> Stage] /\ \A f \in End : f = lo \/ f = hi
    BY TwoEnds DEF Types, ConnInv, lo, hi
  <2> QED BY <2>1, <2>2, TwoEnds
<1>3. CASE c \notin registered
  BY <1>1, <1>2, <1>3, LinkStutter
<1>4. CASE c \in registered
  <2>1. \A f \in End : Slot(f)' = Slot(f)
    BY <1>1, <1>2 DEF Slot
  <2>2. registered \subseteq Conn
    BY Places, TwoEnds
  <2>3. Waiting(lo)' = Waiting(lo) \ {c} /\ Waiting(hi)' = Waiting(hi) /\ c \in Waiting(lo)
    <3>1. Waiting(lo)' = Waiting(lo) \ {c} /\ c \in Waiting(lo)
      BY <1>1, <1>2, <1>4, <2>2, TwoEnds DEF Waiting
    <3>2. Waiting(hi)' = Waiting(hi)
      BY <1>1, <1>2, <2>2, TwoEnds DEF Waiting
    <3> QED BY <3>1, <3>2
  <2>4. Ready(lo)' = Ready(lo) /\ Ready(hi)' = Ready(hi)
    BY <1>1, <2>3 DEF Ready
  <2>5. Broke(lo)' = Broke(lo) \ {c} /\ Broke(hi)' = Broke(hi) /\ c \in Broke(lo)
    BY <1>1, <2>3 DEF Broke
  <2>6. slot' = slot
    <3>1. \A f \in End : Entry(f)' = Entry(f)
      BY <1>1, <2>1 DEF Entry, Dead
    <3> QED BY <3>1, SlotKept
  <2>7. offered' = offered
    <3>1. \A f \in End : Ready(f)' # {} <=> Ready(f) # {}
      BY <2>4, TwoEnds DEF lo, hi
    <3> QED BY <3>1, OfferedKept
  <2>8. stale[<<lo, hi>>] > 0 /\ stale' = [stale EXCEPT ![<<lo, hi>>] = @ - 1]
    BY <2>5, TwoEnds, StaleLess
  <2>9. lo < hi
    BY DEF lo, hi
  <2> QED BY <2>6, <2>7, <2>8, <2>9 DEF Links!Forget
<1> QED BY <1>3, <1>4

LEMMA LinksSendFails ==
    ASSUME ConnInv, NEW e \in End, SendFails(e)
    PROVE  Links!Notice(e, Other(e))
<1>0. Types /\ StageInv
  BY DEF ConnInv, LinkInv
<1>1. PICK c \in Conn : stage[e][c] = "ended" /\ stage' = [stage EXCEPT ![e][c] = "gone"]
  BY DEF SendFails
<1>2. UNCHANGED <<registered, broken>> /\ c \in broken
  BY <1>0, <1>1 DEF SendFails, tcpVars, StageInv
<1>3. \A f \in End : \A d \in Conn :
         stage'[f][d] = IF f = e /\ d = c THEN "gone" ELSE stage[f][d]
  BY <1>0, <1>1 DEF Types
<1>4. Slot(e) = {c}
  BY <1>0, <1>1 DEF StageInv, Slot
<1>5. registered \subseteq Conn
  BY Places
<1>6. \A f \in End : Waiting(f)' = Waiting(f)
  BY <1>1, <1>2, <1>3, <1>5 DEF Waiting
<1>7. Slot(e)' = {} /\ Slot(Other(e))' = Slot(Other(e))
  BY <1>3, <1>4, TwoEnds DEF Slot
<1>8. Entry(e) = "dead" /\ Entry(e)' = "none" /\ Entry(Other(e))' = Entry(Other(e))
  BY <1>2, <1>4, <1>7 DEF Entry, Dead
<1>9. \A f \in End : Ready(f)' = Ready(f) /\ Broke(f)' = Broke(f)
  BY <1>2, <1>6 DEF Ready, Broke
<1>10. UNCHANGED <<offered, stale>>
  <2>1. \A f \in End : Ready(f)' # {} <=> Ready(f) # {}
    BY <1>9
  <2>2. \A f \in End : Cardinality(Broke(f)') = Cardinality(Broke(f))
    BY <1>9
  <2> QED BY <2>1, <2>2, OfferedKept, StaleKept
<1>11. slot[<<e, Other(e)>>] = "dead"
  BY <1>8, View
<1>12. slot' = [slot EXCEPT ![<<e, Other(e)>>] = "none"]
  BY <1>8, SlotBecomes
<1> QED BY <1>10, <1>11, <1>12 DEF Links!Notice

\* When all that is registered is broken, an end that keeps its connections has lost the
\* live one, wherever it was.
LEMMA AllBreak ==
    ASSUME ConnInv, NEW e \in End, Slot(e)' = Slot(e), Waiting(e)' = Waiting(e),
           registered \subseteq broken', broken \subseteq broken'
    PROVE  /\ Entry(e)' = IF Entry(e) = "live" THEN "dead" ELSE Entry(e)
           /\ Ready(e)' = {}
           /\ Cardinality(Broke(e)') = IF Ready(e) # {} THEN Cardinality(Broke(e)) + 1
                                       ELSE Cardinality(Broke(e))
<1>1. Slot(e) \subseteq registered /\ Waiting(e) \subseteq registered
  BY Places
<1>2. Entry(e)' = IF Entry(e) = "live" THEN "dead" ELSE Entry(e)
  BY <1>1 DEF Entry, Dead
<1>3. Ready(e)' = {} /\ Broke(e)' = Broke(e) \cup Ready(e)
  BY <1>1 DEF Ready, Broke
<1>4. CASE Ready(e) = {}
  <2>1. Broke(e)' = Broke(e)
    BY <1>3, <1>4
  <2> QED BY <1>2, <1>3, <1>4, <2>1
<1>5. CASE Ready(e) # {}
  <2>1. PICK c \in Ready(e) : TRUE
    BY <1>5
  <2>2. Ready(e) \subseteq registered \ broken /\ c \notin Broke(e)
    BY <1>1, <2>1 DEF Ready, Broke
  <2>3. \A d \in registered \ broken : c = d
    BY <2>1, <2>2, OneUp
  <2>4. Broke(e)' = Broke(e) \cup {c}
    BY <1>3, <2>1, <2>2, <2>3
  <2>5. IsFiniteSet(Broke(e))
    BY BrokeCount
  <2>6. Cardinality(Broke(e)') = Cardinality(Broke(e)) + 1
    BY <2>2, <2>4, <2>5, FS_AddElement
  <2> QED BY <1>2, <1>3, <1>5, <2>6
<1> QED BY <1>4, <1>5

LEMMA LinksBreak ==
    ASSUME ConnInv, NEW c \in Conn, Break(c)
    PROVE  Links!Break(hi, lo) \/ UNCHANGED <<slot, offered, stale>>
<1>1. c \notin broken /\ broken' = broken \cup {c} /\ UNCHANGED <<registered, stage>>
  BY DEF Break, endVars
<1>2. \A e \in End : Slot(e)' = Slot(e) /\ Waiting(e)' = Waiting(e)
  BY <1>1 DEF Slot, Waiting
<1>3. CASE c \notin registered
  <2>1. ASSUME NEW e \in End
        PROVE Entry(e)' = Entry(e) /\ Ready(e)' = Ready(e) /\ Broke(e)' = Broke(e)
    <3>1. c \notin Slot(e) /\ c \notin Waiting(e)
      BY <1>3, Places
    <3> QED BY <1>1, <1>2, <3>1 DEF Entry, Dead, Ready, Broke
  <2>2. \A e \in End : /\ Ready(e)' # {} <=> Ready(e) # {}
                       /\ Cardinality(Broke(e)') = Cardinality(Broke(e))
    BY <2>1
  <2> QED BY <2>1, <2>2, SlotKept, OfferedKept, StaleKept
<1>4. CASE c \in registered
  <2>1. c \in registered \ broken
    BY <1>1, <1>4
  <2>2. registered \subseteq broken'
    BY <1>1, <2>1, OneUp
  <2>3. ASSUME NEW e \in End
        PROVE  /\ Entry(e)' = IF Entry(e) = "live" THEN "dead" ELSE Entry(e)
               /\ Ready(e)' = {}
               /\ Cardinality(Broke(e)') = IF Ready(e) # {} THEN Cardinality(Broke(e)) + 1
                                           ELSE Cardinality(Broke(e))
    BY <1>1, <1>2, <2>2, AllBreak
  <2>4. slot[<<hi, lo>>] = "live" \/ offered[<<hi, lo>>]
    <3>1. stage[hi][c] \in {"offered", "slot"}
      BY <2>1, OneUp
    <3>2. c \in Slot(hi) \ broken \/ c \in Ready(hi)
      BY <1>1, <1>4, <3>1 DEF Slot, Ready, Waiting
    <3>3. Entry(hi) = "live" \/ Ready(hi) # {}
      BY <3>2, Places, TwoEnds
    <3>4. slot[<<hi, lo>>] = Entry(hi) /\ offered[<<hi, lo>>] = (Ready(hi) # {})
      BY View, LinkEnds, TwoEnds
    <3> QED BY <3>3, <3>4
  <2> DEFINE P == Links!Ends(hi, lo)
             S == { p \in Links!Pair :
                /\ slot'[p] = IF p \in P /\ slot[p] = "live" THEN "dead" ELSE slot[p]
                /\ offered'[p] = (offered[p] /\ p \notin P)
                /\ stale'[p] = IF p \in P /\ offered[p] THEN stale[p] + 1 ELSE stale[p] }
  <2>5. ASSUME NEW e \in End PROVE <<e, e>> \in S /\ <<e, Other(e)>> \in S
    <3>1. <<e, Other(e)>> \in P /\ <<e, e>> \notin P
      BY LinkEnds
    <3>2. <<e, e>> \in S
      BY <3>1, EndPairs, View, ViewNext
    <3>3. slot'[<<e, Other(e)>>] = IF slot[<<e, Other(e)>>] = "live" THEN "dead"
                                   ELSE slot[<<e, Other(e)>>]
      BY <2>3, View, ViewNext
    <3>4. offered'[<<e, Other(e)>>] = FALSE
      BY <2>3, ViewNext
    <3>5. stale'[<<e, Other(e)>>] = IF offered[<<e, Other(e)>>] THEN stale[<<e, Other(e)>>] + 1
                                    ELSE stale[<<e, Other(e)>>]
      BY <2>3, View, ViewNext
    <3> QED BY <3>1, <3>2, <3>3, <3>4, <3>5, EndPairs
  <2> HIDE DEF S
  <2>6. \A p \in Links!Pair : p \in S
    BY <2>5, AllPairs
  <2>7. slot' = [p \in Links!Pair |-> IF p \in P /\ slot[p] = "live" THEN "dead" ELSE slot[p]]
    BY <2>6, ViewFunctions DEF S
  <2>8. offered' = [p \in Links!Pair |-> offered[p] /\ p \notin P]
    BY <2>6, ViewFunctions DEF S
  <2>9. stale' = [p \in Links!Pair |-> IF p \in P /\ offered[p] THEN stale[p] + 1 ELSE stale[p]]
    BY <2>6, ViewFunctions DEF S
  <2> QED BY <2>4, <2>7, <2>8, <2>9 DEF Links!Break, Links!Lose
<1> QED BY <1>3, <1>4

LEMMA LinksKill ==
    ASSUME ConnInv, NEW e \in End, Kill(e)
    PROVE  Links!KillLinks(e)
<1> DEFINE o == Other(e)
<1>0. Types
  BY DEF ConnInv
<1>1. o \in End /\ o # e /\ Other(o) = e /\ \A f \in End : f = e \/ f = o
  BY TwoEnds
<1>2. /\ broken' = 1..conns /\ registered' = registered
      /\ \A d \in Conn : /\ stage'[e][d] \in {"gone", "none"}
                         /\ stage'[o][d] = stage[o][d]
  BY <1>0, <1>1 DEF Kill, Types
<1>3. registered \subseteq Conn /\ registered \subseteq broken' /\ broken \subseteq broken'
  BY <1>0, <1>2, Places DEF Types
<1>4. Slot(e)' = {} /\ Waiting(e)' = {}
  BY <1>2, <1>3 DEF Slot, Waiting
<1>5. Slot(o)' = Slot(o) /\ Waiting(o)' = Waiting(o)
  BY <1>2, <1>3 DEF Slot, Waiting
<1> HIDE DEF o
<1>6. Entry(e)' = "none" /\ Ready(e)' = {} /\ Cardinality(Broke(e)') = 0
  <2>1. Broke(e)' = {} /\ Ready(e)' = {} /\ Entry(e)' = "none"
    BY <1>4 DEF Broke, Ready, Entry
  <2> QED BY <2>1, FS_EmptySet
<1>7. /\ Entry(o)' = IF Entry(o) = "live" THEN "dead" ELSE Entry(o)
      /\ Ready(o)' = {}
      /\ Cardinality(Broke(o)') = IF Ready(o) # {} THEN Cardinality(Broke(o)) + 1
                                  ELSE Cardinality(Broke(o))
  BY <1>1, <1>3, <1>5, AllBreak
<1> DEFINE S == { p \in Links!Pair :
              /\ slot'[p] = IF p[1] = e THEN "none"
                            ELSE IF p[2] = e /\ slot[p] = "live" THEN "dead" ELSE slot[p]
              /\ offered'[p] = (offered[p] /\ e \notin {p[1], p[2]})
              /\ stale'[p] = IF p[1] = e THEN 0
                             ELSE IF p[2] = e /\ offered[p] THEN stale[p] + 1 ELSE stale[p] }
<1>8. <<e, e>> \in S /\ <<e, o>> \in S
  <2>1. slot'[<<e, e>>] = "none" /\ offered'[<<e, e>>] = FALSE /\ stale'[<<e, e>>] = 0
    BY ViewNext
  <2>2. slot'[<<e, o>>] = "none" /\ offered'[<<e, o>>] = FALSE /\ stale'[<<e, o>>] = 0
    BY <1>6, ViewNext DEF o
  <2> QED BY <2>1, <2>2, EndPairs DEF o
<1>9. <<o, o>> \in S /\ <<o, e>> \in S
  <2>1. /\ slot'[<<o, o>>] = "none" /\ offered'[<<o, o>>] = FALSE /\ stale'[<<o, o>>] = 0
        /\ slot[<<o, o>>] = "none" /\ offered[<<o, o>>] = FALSE /\ stale[<<o, o>>] = 0
    BY <1>1, View, ViewNext
  <2>2. slot'[<<o, e>>] = IF slot[<<o, e>>] = "live" THEN "dead" ELSE slot[<<o, e>>]
    BY <1>1, <1>7, View, ViewNext
  <2>3. offered'[<<o, e>>] = FALSE
    BY <1>1, <1>7, ViewNext
  <2>4. stale'[<<o, e>>] = IF offered[<<o, e>>] THEN stale[<<o, e>>] + 1 ELSE stale[<<o, e>>]
    BY <1>1, <1>7, View, ViewNext
  <2>5. <<o, o>> \in Links!Pair /\ <<o, e>> \in Links!Pair
    BY <1>1, EndPairs
  <2> QED BY <1>1, <2>1, <2>2, <2>3, <2>4, <2>5
<1> HIDE DEF S
<1>10. \A p \in Links!Pair : p \in S
  BY <1>1, <1>8, <1>9, AllPairs DEF o
<1>11. slot' = [p \in Links!Pair |-> IF p[1] = e THEN "none"
                                     ELSE IF p[2] = e /\ slot[p] = "live" THEN "dead"
                                     ELSE slot[p]]
  BY <1>10, ViewFunctions DEF S
<1>12. offered' = [p \in Links!Pair |-> offered[p] /\ e \notin {p[1], p[2]}]
  BY <1>10, ViewFunctions DEF S
<1>13. stale' = [p \in Links!Pair |-> IF p[1] = e THEN 0
                                      ELSE IF p[2] = e /\ offered[p] THEN stale[p] + 1
                                      ELSE stale[p]]
  BY <1>10, ViewFunctions DEF S
<1> QED BY <1>11, <1>12, <1>13 DEF Links!KillLinks

\* A broken connection is applied at one end, with or without a live one there.
LEMMA StaleApplied ==
    ASSUME NEW e \in End, NEW o \in End, o = Other(e),
           stale[<<e, o>>] > 0,
           Entry(e)' = "dead",
           Entry(o)' = IF Entry(e) = "live" /\ Entry(o) = "live" THEN "dead" ELSE Entry(o),
           (Ready(e)' # {}) = (Ready(e) # {}),
           (Ready(o)' # {}) = (Ready(o) # {} /\ Entry(e) # "live"),
           Cardinality(Broke(e)') = Cardinality(Broke(e)) - 1,
           Cardinality(Broke(o)') = IF Ready(o) # {} /\ Entry(e) = "live"
                                    THEN Cardinality(Broke(o)) + 1 ELSE Cardinality(Broke(o))
    PROVE  Links!ApplyStale(e, o)
<1>1. o # e /\ Other(o) = e /\ \A f \in End : f = e \/ f = o
  BY TwoEnds
<1>2. /\ slot[<<e, o>>] = Entry(e) /\ slot[<<o, e>>] = Entry(o)
      /\ offered[<<e, o>>] = (Ready(e) # {}) /\ offered[<<o, e>>] = (Ready(o) # {})
      /\ stale[<<e, o>>] = Cardinality(Broke(e)) /\ stale[<<o, e>>] = Cardinality(Broke(o))
  BY <1>1, View
<1>3. /\ slot'[<<e, o>>] = Entry(e)' /\ slot'[<<o, e>>] = Entry(o)'
      /\ offered'[<<e, o>>] = (Ready(e)' # {}) /\ offered'[<<o, e>>] = (Ready(o)' # {})
      /\ stale'[<<e, o>>] = Cardinality(Broke(e)') /\ stale'[<<o, e>>] = Cardinality(Broke(o)')
  BY <1>1, ViewNext
<1> DEFINE newSlot(p) == IF p = <<e, o>> THEN "dead"
                         ELSE IF p = <<o, e>> /\ Links!Linked(e, o) THEN "dead"
                         ELSE slot[p]
           newOffered(p) == offered[p] /\ ~ (p = <<o, e>> /\ slot[<<e, o>>] = "live")
           newStale(p) == IF p = <<e, o>> THEN stale[p] - 1
                          ELSE IF p = <<o, e>> /\ offered[p] /\ slot[<<e, o>>] = "live"
                               THEN stale[p] + 1
                          ELSE stale[p]
           S == { p \in Links!Pair : /\ slot'[p] = newSlot(p)
                                     /\ offered'[p] = newOffered(p)
                                     /\ stale'[p] = newStale(p) }
<1>4. Links!Linked(e, o) <=> Entry(e) = "live" /\ Entry(o) = "live"
  BY <1>2 DEF Links!Linked
<1>5. <<e, o>> # <<o, e>>
  BY <1>1
<1>6. <<e, o>> \in S
  <2>1. slot'[<<e, o>>] = newSlot(<<e, o>>)
    BY <1>3
  <2>2. offered'[<<e, o>>] = newOffered(<<e, o>>)
    BY <1>2, <1>3, <1>5
  <2>3. stale'[<<e, o>>] = newStale(<<e, o>>)
    BY <1>2, <1>3
  <2> QED BY <2>1, <2>2, <2>3, EndPairs
<1>7. <<o, e>> \in S
  <2>1. slot'[<<o, e>>] = newSlot(<<o, e>>)
    BY <1>2, <1>3, <1>4, <1>5
  <2>2. offered'[<<o, e>>] = newOffered(<<o, e>>)
    BY <1>2, <1>3
  <2>3. stale'[<<o, e>>] = newStale(<<o, e>>)
    BY <1>2, <1>3, <1>5
  <2>4. <<o, e>> \in Links!Pair
    BY <1>1, EndPairs
  <2> QED BY <2>1, <2>2, <2>3, <2>4
<1>8. ASSUME NEW f \in End PROVE <<f, f>> \in S
  <2>1. <<f, f>> # <<e, o>> /\ <<f, f>> # <<o, e>>
    BY <1>1
  <2>2. /\ slot'[<<f, f>>] = "none" /\ offered'[<<f, f>>] = FALSE /\ stale'[<<f, f>>] = 0
        /\ slot[<<f, f>>] = "none" /\ offered[<<f, f>>] = FALSE /\ stale[<<f, f>>] = 0
    BY View, ViewNext
  <2> QED BY <2>1, <2>2, EndPairs
<1> HIDE DEF S
<1>9. \A p \in Links!Pair : p \in S
  <2>1. \A f \in End : <<f, f>> \in S /\ <<f, Other(f)>> \in S
    BY <1>1, <1>6, <1>7, <1>8
  <2> QED BY <2>1, AllPairs
<1>10. slot' = [p \in Links!Pair |-> newSlot(p)]
  BY <1>9, ViewFunctions DEF S
<1>11. offered' = [p \in Links!Pair |-> newOffered(p)]
  BY <1>9, ViewFunctions DEF S
<1>12. stale' = [p \in Links!Pair |-> newStale(p)]
  BY <1>9, ViewFunctions DEF S
<1> QED BY <1>10, <1>11, <1>12 DEF Links!ApplyStale

LEMMA LinksApplyConnection ==
    ASSUME ConnInv, NEW e \in End, NEW c \in Conn, ApplyConnection(e, c)
    PROVE  Links!Apply(e, Other(e)) \/ Links!ApplyStale(e, Other(e))
<1> DEFINE o == Other(e)
<1>0. Types /\ SourceInv /\ StageInv /\ RegisteredInv
  BY DEF ConnInv, LinkInv
<1>1. c \in Offered(e)
  BY <1>0, SourceHead DEF ApplyConnection
<1>2. /\ o \in End /\ o # e /\ Other(o) = e
      /\ registered' = registered /\ broken' = broken \cup Slot(e)
      /\ registered \subseteq Conn
  BY TwoEnds, Places DEF ApplyConnection
<1>3. \A f \in End : \A d \in Conn :
         stage'[f][d] = IF f = e /\ d = c THEN "slot"
                        ELSE IF f = e /\ d \in Slot(e) THEN "gone" ELSE stage[f][d]
  <2>1. stage' = [stage EXCEPT ![e] = [d \in Conn |->
           IF d = c THEN "slot" ELSE IF d \in Slot(e) THEN "gone" ELSE stage[e][d]]]
    BY DEF ApplyConnection
  <2> QED BY <1>0, <2>1 DEF Types
<1> HIDE DEF o
<1>4. stage[e][c] = "offered" /\ c \in registered /\ c \in Waiting(e) /\ c \notin Slot(e)
  BY <1>0, <1>1 DEF Offered, Held, RegisteredInv, Waiting, Slot
<1>5. Slot(e)' = {c} /\ Waiting(e)' = Waiting(e) \ {c}
  <2>1. Slot(e)' = {c}
    BY <1>3, <1>4 DEF Slot
  <2>2. Waiting(e)' = Waiting(e) \ {c}
    BY <1>2, <1>3, <1>4 DEF Waiting, Slot
  <2> QED BY <2>1, <2>2
<1>6. Slot(o)' = Slot(o) /\ Waiting(o)' = Waiting(o)
  BY <1>2, <1>3 DEF Slot, Waiting
<1>7. /\ slot[<<e, o>>] = Entry(e) /\ offered[<<e, o>>] = (Ready(e) # {})
      /\ stale[<<e, o>>] = Cardinality(Broke(e))
  BY View DEF o
<1>8. /\ Slot(e) \subseteq registered /\ Waiting(e) \subseteq registered
      /\ Slot(e) \cap Waiting(e) = {} /\ \A d, f \in Slot(e) : d = f
      /\ (Entry(e) = "live" <=> Slot(e) \ broken # {})
  BY Places
<1>9. CASE c \notin broken
  <2>1. \A d \in registered \ broken : c = d
    BY <1>4, <1>9, OneUp
  <2>2. broken' = broken
    BY <1>2, <1>4, <1>8, <2>1
  <2>3. Entry(e)' = "live" /\ Entry(o)' = Entry(o)
    BY <1>5, <1>6, <1>9, <2>2 DEF Entry, Dead
  <2>4. c \in Ready(e) /\ Ready(e)' = {} /\ Ready(o)' = Ready(o)
    BY <1>4, <1>5, <1>6, <1>8, <1>9, <2>1, <2>2 DEF Ready
  <2>5. Broke(e)' = Broke(e) /\ Broke(o)' = Broke(o)
    BY <1>5, <1>6, <1>9, <2>2 DEF Broke
  <2>6. slot' = [slot EXCEPT ![<<e, Other(e)>>] = "live"]
    BY <2>3, SlotBecomes DEF o
  <2>7. offered' = [offered EXCEPT ![<<e, Other(e)>>] = FALSE]
    <3>1. Ready(Other(e))' # {} <=> Ready(Other(e)) # {}
      BY <2>4 DEF o
    <3> QED BY <2>4, <3>1, NothingOffered
  <2>8. stale' = stale
    <3>1. \A f \in End : f = e \/ f = o
      BY <1>2, TwoEnds
    <3>2. \A f \in End : Cardinality(Broke(f)') = Cardinality(Broke(f))
      BY <2>5, <3>1
    <3> QED BY <3>2, StaleKept
  <2> QED BY <1>7, <2>4, <2>6, <2>7, <2>8 DEF Links!Apply, o
<1>10. CASE c \in broken
  <2>1. c \in Broke(e) /\ Broke(e)' = Broke(e) \ {c}
    BY <1>2, <1>4, <1>5, <1>8, <1>10 DEF Broke
  <2>2. stale[<<e, o>>] > 0 /\ Cardinality(Broke(e)') = Cardinality(Broke(e)) - 1
    <3>1. /\ IsFiniteSet(Broke(e)) /\ Cardinality(Broke(e)) \in Nat
          /\ (Cardinality(Broke(e)) = 0 <=> Broke(e) = {})
      BY BrokeCount
    <3>2. Cardinality(Broke(e) \ {c}) = Cardinality(Broke(e)) - 1
      BY <2>1, <3>1, FS_RemoveElement
    <3> QED BY <1>7, <2>1, <3>1, <3>2
  <2>3. Entry(e)' = "dead"
    BY <1>2, <1>5, <1>10 DEF Entry, Dead
  <2>4. CASE Entry(e) # "live"
    <3>1. broken' = broken
      BY <1>2, <1>8, <2>4
    <3>2. Entry(o)' = Entry(o) /\ Ready(o)' = Ready(o) /\ Broke(o)' = Broke(o)
      BY <1>6, <3>1 DEF Entry, Dead, Ready, Broke
    <3>3. Ready(e)' = Ready(e)
      BY <1>5, <1>10, <3>1 DEF Ready
    <3>4. Links!ApplyStale(e, o)
      BY <1>2, <2>2, <2>3, <2>4, <3>2, <3>3, StaleApplied DEF o
    <3> QED BY <3>4 DEF o
  <2>5. CASE Entry(e) = "live"
    <3>1. PICK d \in Slot(e) : d \in registered \ broken
      BY <1>8, <2>5
    <3>2. \A f \in registered \ broken : d = f
      BY <3>1, OneUp
    <3>3. registered \subseteq broken' /\ broken \subseteq broken'
      BY <1>2, <3>1, <3>2
    <3>4. /\ Entry(o)' = IF Entry(o) = "live" THEN "dead" ELSE Entry(o)
          /\ Ready(o)' = {}
          /\ Cardinality(Broke(o)') = IF Ready(o) # {} THEN Cardinality(Broke(o)) + 1
                                      ELSE Cardinality(Broke(o))
      BY <1>2, <1>6, <3>3, AllBreak
    <3>5. Ready(e) = {} /\ Ready(e)' = {}
      BY <1>2, <1>5, <1>8, <3>1, <3>2, <3>3 DEF Ready
    <3>6. Links!ApplyStale(e, o)
      BY <1>2, <2>2, <2>3, <2>5, <3>4, <3>5, StaleApplied DEF o
    <3> QED BY <3>6 DEF o
  <2> QED BY <2>4, <2>5
<1> QED BY <1>9, <1>10

LEMMA LinksInit == ASSUME Init PROVE Links!LinkInit
<1>1. \A e \in End : Slot(e) = {} /\ Waiting(e) = {}
  BY DEF Init, Slot, Waiting
<1>2. \A e \in End : Entry(e) = "none" /\ Ready(e) = {} /\ Cardinality(Broke(e)) = 0
  BY <1>1, FS_EmptySet DEF Entry, Ready, Broke
<1> DEFINE S == { p \in Links!Pair : slot[p] = "none" /\ offered[p] = FALSE /\ stale[p] = 0 }
<1>3. ASSUME NEW e \in End PROVE <<e, e>> \in S /\ <<e, Other(e)>> \in S
  <2>1. slot[<<e, Other(e)>>] = "none" /\ slot[<<e, e>>] = "none"
    BY <1>2, View
  <2>2. offered[<<e, Other(e)>>] = FALSE /\ offered[<<e, e>>] = FALSE
    BY <1>2, View
  <2>3. stale[<<e, Other(e)>>] = 0 /\ stale[<<e, e>>] = 0
    BY <1>2, View
  <2> QED BY <2>1, <2>2, <2>3, EndPairs
<1> HIDE DEF S
<1>4. \A p \in Links!Pair : p \in S
  BY <1>3, AllPairs
<1>5. /\ slot = [p \in Links!Pair |-> "none"]
      /\ offered = [p \in Links!Pair |-> FALSE]
      /\ stale = [p \in Links!Pair |-> 0]
  BY <1>4, ViewFunctions DEF S
<1> QED BY <1>5 DEF Links!LinkInit

\* Nobody has registered the connection that is being made.
LEMMA LinksConnect == ASSUME ConnInv, Connect PROVE UNCHANGED <<slot, offered, stale>>
<1> DEFINE n == conns + 1
<1>0. Types /\ StageInv
  BY DEF ConnInv, LinkInv
<1>1. UNCHANGED <<registered, broken>> /\ stage' = [stage EXCEPT ![lo][n] = "handshake"]
  BY DEF Connect
<1>2. n \in Conn /\ n \notin 1..conns
  BY <1>0, ConnType DEF Connect, Conn
<1> HIDE DEF n
<1>3. n \notin registered
  BY <1>0, <1>2 DEF Types
<1>4. \A e \in End : stage[e][n] = "none"
  <2>1. \A e \in End : \A c \in Conn : stage[e][c] # "none" => c \in 1..conns
    BY <1>0 DEF StageInv
  <2> QED BY <1>2, <2>1
<1>5. \A e \in End : \A c \in Conn : stage'[e][c] = IF e = lo /\ c = n THEN "handshake"
                                                    ELSE stage[e][c]
  BY <1>0, <1>1, <1>2, TwoEnds DEF Types
<1> QED BY <1>1, <1>3, <1>4, <1>5, LinkStutter

LEMMA LinksIdentify ==
    ASSUME ConnInv, NEW c \in Conn, Identify(c)
    PROVE  UNCHANGED <<slot, offered, stale>>
<1>1. UNCHANGED <<registered, broken>> /\ stage[lo][c] = "handshake"
      /\ stage' = [stage EXCEPT ![lo][c] = "offered"]
  BY DEF Identify, tcpVars
<1>2. \A e \in End : \A d \in Conn : stage'[e][d] = IF e = lo /\ d = c THEN "offered"
                                                    ELSE stage[e][d]
  BY <1>1, TwoEnds DEF ConnInv, Types
<1> QED BY <1>1, <1>2, LinkStutter

LEMMA LinksWriterFails ==
    ASSUME ConnInv, NEW e \in End, WriterFails(e)
    PROVE  UNCHANGED <<slot, offered, stale>>
<1>1. PICK c \in broken : stage[e][c] = "slot" /\ stage' = [stage EXCEPT ![e][c] = "ended"]
  BY DEF WriterFails
<1>2. UNCHANGED <<registered, broken>> /\ c \in Conn
  BY <1>1, ConnType DEF WriterFails, tcpVars, ConnInv, Types
<1>3. \A f \in End : \A d \in Conn : stage'[f][d] = IF f = e /\ d = c THEN "ended"
                                                    ELSE stage[f][d]
  BY <1>1, <1>2 DEF ConnInv, Types
<1> QED BY <1>1, <1>2, <1>3, LinkStutter

\* The steps that leave the connections where they are.
LEMMA LinksUnmoved ==
    ASSUME ConnInv, UNCHANGED <<registered, broken, stage>>
    PROVE  UNCHANGED <<slot, offered, stale>>
BY LinkStutter

LEMMA LinksStep == ConnInv /\ [Next]_vars => [Links!LinkNext]_(Links!linkVars)
<1> DEFINE Same == UNCHANGED <<slot, offered, stale>>
           Goal == Links!LinkNext \/ Same
<1> SUFFICES ASSUME ConnInv, [Next]_vars PROVE Goal
  BY DEF Links!linkVars
<1>1. ASSUME NEW s \in End, NEW t \in End, s # t,
             \/ Links!Establish(s, t) \/ Links!EstablishStale(s, t)
             \/ Links!Apply(s, t) \/ Links!ApplyStale(s, t) \/ Links!Forget(s, t)
             \/ Links!Notice(s, t) \/ Links!Break(s, t)
      PROVE  Goal
  BY <1>1 DEF Links!LinkNext
<1>2. ASSUME NEW s \in End, Links!KillLinks(s) PROVE Goal
  BY <1>2 DEF Links!LinkNext
<1>3. ASSUME Same PROVE Goal
  BY <1>3
<1>4. hi \in End /\ lo \in End /\ hi # lo /\ \A e \in End : Other(e) \in End /\ e # Other(e)
  BY TwoEnds
<1> HIDE DEF Goal, Same
<1> SUFFICES Goal
  OBVIOUS
<1>5. CASE Connect
  BY <1>3, <1>5, LinksConnect DEF Same
<1>6. CASE SendHandshake
  BY <1>1, <1>4, <1>6, LinksSendHandshake
<1>7. CASE HandshakeFails
  BY <1>3, <1>7, LinksUnmoved DEF Same, HandshakeFails, tcpVars, endVars
<1>8. ASSUME NEW c \in Conn, Identify(c) PROVE Goal
  BY <1>3, <1>8, LinksIdentify DEF Same
<1>9. ASSUME NEW c \in Conn, IdentifyFails(c) PROVE Goal
  BY <1>1, <1>3, <1>4, <1>9, LinksIdentifyFails DEF Same
<1>10. ASSUME NEW e \in End, NEW c \in Conn, ApplyConnection(e, c) PROVE Goal
  BY <1>1, <1>4, <1>10, LinksApplyConnection
<1>11. ASSUME NEW c \in Conn, Break(c) PROVE Goal
  BY <1>1, <1>3, <1>4, <1>11, LinksBreak DEF Same
<1>12. ASSUME NEW e \in End, NEW c \in Conn, Deliver(e, c) PROVE Goal
  BY <1>3, <1>12, LinksUnmoved DEF Same, Deliver, tcpVars, endVars
<1>13. ASSUME NEW e \in End, NEW big \in TooBig, SendToCluster(e, big) PROVE Goal
  BY <1>3, <1>13, LinksUnmoved DEF Same, SendToCluster, tcpVars, endVars
<1>14. ASSUME NEW e \in End, SendFails(e) PROVE Goal
  BY <1>1, <1>4, <1>14, LinksSendFails
<1>15. ASSUME NEW e \in End, WriterWrites(e) PROVE Goal
  BY <1>3, <1>15, LinksUnmoved DEF Same, WriterWrites, tcpVars, endVars
<1>16. ASSUME NEW e \in End, WriterFails(e) PROVE Goal
  BY <1>3, <1>16, LinksWriterFails DEF Same
<1>17. ASSUME NEW e \in End, Kill(e) PROVE Goal
  BY <1>2, <1>17, LinksKill
<1>18. ASSUME NEW e \in End, Restart(e) PROVE Goal
  BY <1>3, <1>18, LinksUnmoved DEF Same, Restart, tcpVars, endVars
<1>19. CASE UNCHANGED vars
  BY <1>3, <1>19, LinksUnmoved DEF Same, vars, tcpVars, endVars
<1> QED BY <1>5, <1>6, <1>7, <1>8, <1>9, <1>10, <1>11, <1>12, <1>13, <1>14, <1>15, <1>16,
           <1>17, <1>18, <1>19 DEF Next, ConnStep

\* Of all the tasks behind the peer connections of two servers the rest of the server sees
\* what ClusterLinks says and no more: one connection at a time, made by the higher id once
\* it has noticed that the last one broke, and none that is replaced while it works
\* (server/network.rs).
THEOREM LinksImplemented == Spec => ImplementsClusterLinks
<1>1. Init => Links!LinkInit
  BY LinksInit
<1>2. Spec => [][Links!LinkNext]_(Links!linkVars)
  BY LinksStep, ConnAlways, PTL DEF Spec
<1> QED BY <1>1, <1>2, PTL DEF Spec, ImplementsClusterLinks, Links!LinkSpec
===============================================================================
