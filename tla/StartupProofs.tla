----------------------------- MODULE StartupProofs -----------------------------
(***************************************************************************)
(* Startup uses its connections as ClusterLinks says and in no other way,  *)
(* so that what is proved of them holds in every behaviour of Startup; its *)
(* types; and, as long as the elections of the main loops choose nobody,   *)
(* the leader leaves no follower behind.                                   *)
(***************************************************************************)
EXTENDS Startup, ClusterLinksProofs, ProofBasics, FiniteSetTheorems

LEMMA LinkStepLinks ==
  ASSUME NEW s \in Server, NEW t \in Server, s # t, LinkStep(s, t)
  PROVE  LinkNext
<1>1. CASE Handshake(s, t)
  BY <1>1 DEF Handshake, LinkNext
<1>2. CASE HandshakeCut(s, t)
  BY <1>2 DEF HandshakeCut, LinkNext
<1>3. CASE HandshakeForgotten(s, t)
  BY <1>3 DEF HandshakeForgotten, LinkNext
<1>4. CASE ApplyPeer(s, t)
  <2>1. Apply(s, t) \/ ApplyStale(s, t)
    BY <1>4 DEF ApplyPeer
  <2> QED BY <2>1 DEF LinkNext
<1>5. CASE NoticeLoss(s, t)
  BY <1>5 DEF NoticeLoss, LinkNext
<1>6. CASE BreakLink(s, t)
  BY <1>6 DEF BreakLink, LinkNext
<1> QED BY <1>1, <1>2, <1>3, <1>4, <1>5, <1>6 DEF LinkStep

LEMMA ServerStepLinks ==
  ASSUME NEW s \in Server, ServerStep(s)
  PROVE  [LinkNext]_linkVars
<1>1. CASE LeaderTick(s)
  BY <1>1 DEF LeaderTick
<1>2. CASE GetPromoted(s)
  BY <1>2 DEF GetPromoted
<1>3. CASE Elect(s)
  BY <1>3 DEF Elect
<1>4. CASE ClientRegister(s)
  BY <1>4 DEF ClientRegister
<1>5. CASE ApplyClient(s)
  BY <1>5 DEF ApplyClient
<1>6. CASE RestartClient(s)
  BY <1>6 DEF RestartClient
<1>7. CASE Kill(s)
  BY <1>7 DEF Kill, LinkNext
<1>8. CASE Restart(s)
  BY <1>8 DEF Restart
<1> QED BY <1>1, <1>2, <1>3, <1>4, <1>5, <1>6, <1>7, <1>8 DEF ServerStep

LEMMA StepLinks == [Next]_vars => [LinkNext]_linkVars
<1> SUFFICES ASSUME [Next]_vars
             PROVE  [LinkNext]_linkVars
  OBVIOUS
<1>1. CASE UNCHANGED vars
  BY <1>1 DEF vars
<1>2. ASSUME NEW s \in Server, NEW t \in Server, s # t, LinkStep(s, t)
      PROVE  [LinkNext]_linkVars
  BY <1>2, LinkStepLinks
<1>3. ASSUME NEW s \in Server, NEW t \in Server, ReceiveStart(s, t) \/ LearnLeader(s, t)
      PROVE  [LinkNext]_linkVars
  BY <1>3 DEF ReceiveStart, LearnLeader
<1>4. ASSUME NEW s \in Server, ServerStep(s)
      PROVE  [LinkNext]_linkVars
  BY <1>4, ServerStepLinks
<1> QED BY <1>1, <1>2, <1>3, <1>4 DEF Next

LEMMA InitRunningLinks == InitRunning => LinkInv
<1> SUFFICES ASSUME InitRunning PROVE LinkInv
  OBVIOUS
<1>1. LinkTypeOK
  BY DEF InitRunning, LinkTypeOK
<1>2. LinkConsistent
  BY PairIn DEF InitRunning, LinkConsistent, Pair
<1> QED BY <1>1, <1>2 DEF LinkInv

\* Whatever is killed, broken or elected, during a start or later, the two ends of each
\* peer connection agree on it, for any number of servers.
THEOREM StartupLinksAgree ==
  Spec \/ StartOrRunningSpec \/ CrashSpec => []LinkConsistent
<1>1. Init => LinkInv
  BY LinkInitInv DEF Init
<1>2. LinkInv /\ [Next]_vars => LinkInv'
  BY StepLinks, LinkNextInv
<1>3. LinkInv => LinkConsistent
  BY DEF LinkInv
<1> QED BY <1>1, <1>2, <1>3, InitRunningLinks, PTL DEF Spec, StartOrRunningSpec, CrashSpec

-------------------------------------------------------------------------------
(* Types.  That the highest ballot is one is the only fact that is not      *)
(* immediate: it is why the servers must be finitely many.                  *)

LEMMA Largest ==
    ASSUME NEW S, IsFiniteSet(S), S # {}, NEW f \in [S -> Nat]
    PROVE  \E x \in S : \A y \in S : f[x] >= f[y]
<1> DEFINE Has(Q) == \E x \in Q : \A y \in Q : f[x] >= f[y]
           T == { n \in Nat : \A Q \in SUBSET S : Cardinality(Q) = n + 1 => Has(Q) }
<1>1. \A Q \in SUBSET S : IsFiniteSet(Q) /\ Cardinality(Q) \in Nat
  BY FS_Subset, FS_CardinalityType
<1>2. 0 \in T
  <2>1. SUFFICES ASSUME NEW Q \in SUBSET S, Cardinality(Q) = 0 + 1
                 PROVE  Has(Q)
    OBVIOUS
  <2>2. IsFiniteSet(Q) /\ Cardinality(Q) = 1
    BY <1>1, <2>1
  <2>3. PICK x : Q = {x}
    BY <2>2, FS_Singleton
  <2> QED BY <2>3
<1>3. \A n \in Nat : n \in T => n + 1 \in T
  <2>1. SUFFICES ASSUME NEW n \in Nat, n \in T,
                        NEW Q \in SUBSET S, Cardinality(Q) = (n + 1) + 1
                 PROVE  Has(Q)
    OBVIOUS
  <2>2. PICK x : x \in Q
    <3>1. Cardinality(Q) # 0 /\ IsFiniteSet(Q)
      BY <1>1, <2>1
    <3>2. Q # {}
      BY <3>1, FS_EmptySet
    <3> QED BY <3>2
  <2>3. Cardinality(Q \ {x}) = Cardinality(Q) - 1
    BY <1>1, <2>2, FS_RemoveElement
  <2>4. Cardinality(Q \ {x}) = n + 1
    BY <2>1, <2>3
  <2>5. Has(Q \ {x})
    BY <2>1, <2>4
  <2>6. PICK y \in Q \ {x} : \A z \in Q \ {x} : f[y] >= f[z]
    BY <2>5
  <2>7. f[x] \in Nat /\ f[y] \in Nat /\ \A z \in Q : f[z] \in Nat
    BY <2>2
  <2>8. CASE f[y] >= f[x]
    <3>1. \A z \in Q : f[y] >= f[z]
      BY <2>6, <2>8
    <3> QED BY <3>1
  <2>9. CASE ~ (f[y] >= f[x])
    <3>1. \A z \in Q : f[x] >= f[z]
      BY <2>6, <2>7, <2>9
    <3> QED BY <2>2, <3>1
  <2> QED BY <2>8, <2>9
<1>4. Nat \subseteq T
  <2> HIDE DEF T
  <2> QED BY <1>2, <1>3, SetInduction
<1>5. Cardinality(S) \in Nat /\ Cardinality(S) # 0
  BY FS_CardinalityType, FS_EmptySet
<1>6. PICK n \in Nat : Cardinality(S) = n + 1
  <2>1. Cardinality(S) - 1 \in Nat /\ Cardinality(S) = (Cardinality(S) - 1) + 1
    BY <1>5
  <2> QED BY <2>1
<1>7. n \in T
  BY <1>4
<1>8. Has(S)
  BY <1>6, <1>7
<1> QED BY <1>8

LEMMA HighestIsABallot == LeaderTypeOK => Highest \in Nat
<1> SUFFICES ASSUME LeaderTypeOK PROVE Highest \in Nat
  OBVIOUS
<1> DEFINE f == [t \in Server |-> ballot[t].n]
           B == { ballot[t].n : t \in Server }
<1>1. f \in [Server -> Nat]
  BY DEF LeaderTypeOK
<1>2. IsFiniteSet(Server) /\ Server # {}
  BY StartupAssumption
<1>3. \E x \in Server : \A y \in Server : f[x] >= f[y]
  <2> HIDE DEF f
  <2> QED BY <1>1, <1>2, Largest
<1>4. \E m \in B : \A y \in B : m >= y
  BY <1>3
<1>5. Max(B) \in B
  <2> HIDE DEF B
  <2> QED BY <1>4 DEF Max
<1>6. B \subseteq Nat
  BY DEF LeaderTypeOK
<1> QED BY <1>5, <1>6 DEF Highest

\* What is left of TypeOK when the links are settled.
TaskTypes == /\ LeaderTypeOK
             /\ pc \in [Server -> {"down", "connect", "establish", "run"}]
             /\ signal \subseteq Pair
             /\ client \in [Server -> {"absent", "offered", "connected", "started", "hung"}]
             /\ max_client_id \in [Server -> Nat]
             /\ kills \in Nat /\ clientRestarts \in Nat /\ breaks \in Nat /\ elections \in Nat

LEMMA TypesSplit == TypeOK <=> LinkTypeOK /\ TaskTypes
BY DEF TypeOK, TaskTypes, bounds

LEMMA TryTypes ==
    ASSUME LeaderTypeOK, NEW s \in Server, try_become_leader(s)
    PROVE  LeaderTypeOK'
<1>1. Highest \in Nat
  BY HighestIsABallot
<1>2. CASE UNCHANGED <<ballot, phase>>
  BY <1>2 DEF LeaderTypeOK
<1>3. CASE /\ ballot' = [ballot EXCEPT ![s] = [n |-> Highest + 1, pid |-> s]]
           /\ phase' = [phase EXCEPT ![s] = "prepare"]
  <2>1. [n |-> Highest + 1, pid |-> s] \in [n : Nat, pid : Server \cup {0}]
    BY <1>1
  <2> QED BY <1>3, <2>1 DEF LeaderTypeOK
<1> QED BY <1>2, <1>3 DEF try_become_leader

LEMMA StartedType ==
    ASSUME NEW s \in Server,
           NEW who \in [Server -> {"absent", "offered", "connected", "started", "hung"}]
    PROVE  Started(s, who) \in [Server -> {"absent", "offered", "connected", "started", "hung"}]
BY DEF Started

LEMMA SignalsType ==
    ASSUME TaskTypes, NEW s \in Server, NEW lost, SendClusterStartSignals(s, lost)
    PROVE  signal' \subseteq Pair
<1>1. \A t \in Server : <<s, t>> \in Pair
  BY PairIn
<1>2. { <<s, t>> : t \in { u \in Server : slot'[<<s, u>>] = "live" } } \subseteq Pair
  BY <1>1
<1>3. signal' \subseteq signal \cup
            { <<s, t>> : t \in { u \in Server : slot'[<<s, u>>] = "live" } }
  BY DEF SendClusterStartSignals
<1> QED BY <1>2, <1>3 DEF TaskTypes

LEMMA ResendTypes ==
    ASSUME TaskTypes, NEW s \in Server, NEW lost,
           NEW who \in [Server -> {"absent", "offered", "connected", "started", "hung"}],
           ResendStartSignals(s, lost, who)
    PROVE  /\ signal' \subseteq Pair
           /\ client' \in [Server -> {"absent", "offered", "connected", "started", "hung"}]
<1>1. signal' \subseteq Pair
  <2>1. CASE SendClusterStartSignals(s, lost)
    BY <2>1, SignalsType
  <2>2. CASE signal' = signal \ lost
    BY <2>2 DEF TaskTypes
  <2> QED BY <2>1, <2>2 DEF ResendStartSignals
<1>2. client' = Started(s, who) \/ client' = who
  BY DEF ResendStartSignals
<1> QED BY <1>1, <1>2, StartedType

LEMMA LinkStepTypes ==
    ASSUME TaskTypes, NEW s \in Server, NEW t \in Server, s # t, LinkStep(s, t)
    PROVE  TaskTypes'
<1>1. CASE Handshake(s, t) \/ HandshakeForgotten(s, t) \/ NoticeLoss(s, t)
  <2>1. UNCHANGED <<leaderVars, pc, signal, clientVars, bounds>>
    BY <1>1 DEF Handshake, HandshakeForgotten, NoticeLoss
  <2> QED BY <2>1 DEF TaskTypes, LeaderTypeOK, leaderVars, clientVars, bounds
<1>2. CASE HandshakeCut(s, t)
  BY <1>2 DEF HandshakeCut, TaskTypes, LeaderTypeOK, leaderVars, clientVars
<1>3. CASE ApplyPeer(s, t)
  <2>1. UNCHANGED <<leaderVars, max_client_id, bounds>>
    BY <1>3 DEF ApplyPeer
  <2>2. PICK lost \in SUBSET Ends(s, t) :
           IF pc[s] = "connect"
           THEN /\ pc' = [pc EXCEPT ![s] = "establish"]
                /\ signal' = signal \ lost
                /\ UNCHANGED client
           ELSE ResendStartSignals(s, lost, client) /\ UNCHANGED pc
    BY <1>3 DEF ApplyPeer
  <2>3. CASE pc[s] = "connect"
    BY <2>1, <2>2, <2>3 DEF TaskTypes, LeaderTypeOK, leaderVars, bounds
  <2>4. CASE pc[s] # "connect"
    <3>1. ResendStartSignals(s, lost, client) /\ UNCHANGED pc
      BY <2>2, <2>4
    <3>2. client \in [Server -> {"absent", "offered", "connected", "started", "hung"}]
      BY DEF TaskTypes
    <3>3. /\ signal' \subseteq Pair
          /\ client' \in [Server -> {"absent", "offered", "connected", "started", "hung"}]
      BY <3>1, <3>2, ResendTypes
    <3> QED BY <2>1, <3>1, <3>3 DEF TaskTypes, LeaderTypeOK, leaderVars, bounds
  <2> QED BY <2>3, <2>4
<1>4. CASE BreakLink(s, t)
  <2>1. signal' \subseteq signal /\ breaks' = breaks + 1
    BY <1>4 DEF BreakLink
  <2>2. UNCHANGED <<leaderVars, pc, clientVars, kills, clientRestarts, elections>>
    BY <1>4 DEF BreakLink
  <2> QED BY <2>1, <2>2 DEF TaskTypes, LeaderTypeOK, leaderVars, clientVars
<1> QED BY <1>1, <1>2, <1>3, <1>4 DEF LinkStep

LEMMA PairStepTypes ==
    ASSUME TaskTypes, NEW s \in Server, NEW t \in Server,
           ReceiveStart(s, t) \/ LearnLeader(s, t)
    PROVE  TaskTypes'
<1>1. CASE ReceiveStart(s, t)
  <2>1. client' = Started(t, client) /\ signal' \subseteq signal
        /\ pc' = [pc EXCEPT ![t] = "run"]
        /\ UNCHANGED <<leaderVars, max_client_id, bounds>>
    BY <1>1 DEF ReceiveStart
  <2>2. client' \in [Server -> {"absent", "offered", "connected", "started", "hung"}]
    BY <2>1, StartedType DEF TaskTypes
  <2> QED BY <2>1, <2>2 DEF TaskTypes, LeaderTypeOK, leaderVars, bounds
<1>2. CASE LearnLeader(s, t)
  <2>1. Follow(s, t) /\ UNCHANGED <<pc, signal, clientVars, bounds>>
    BY <1>2 DEF LearnLeader
  <2>2. LeaderTypeOK'
    BY <2>1 DEF TaskTypes, LeaderTypeOK, Follow
  <2> QED BY <2>1, <2>2 DEF TaskTypes, clientVars, bounds
<1> QED BY <1>1, <1>2

LEMMA ServerStepTypes ==
    ASSUME TaskTypes, NEW s \in Server, ServerStep(s)
    PROVE  TaskTypes'
<1>0. client \in [Server -> {"absent", "offered", "connected", "started", "hung"}]
  BY DEF TaskTypes
<1>1. CASE LeaderTick(s)
  <2>1. UNCHANGED <<max_client_id, bounds>>
    BY <1>1 DEF LeaderTick
  <2>2. CASE Accepted(s)
    <3>1. /\ SendClusterStartSignals(s, {}) /\ client' = Started(s, client)
          /\ pc' = [pc EXCEPT ![s] = "run"] /\ UNCHANGED leaderVars
      BY <1>1, <2>2 DEF LeaderTick
    <3>2. signal' \subseteq Pair
      BY <3>1, SignalsType
    <3>3. client' \in [Server -> {"absent", "offered", "connected", "started", "hung"}]
      BY <1>0, <3>1, StartedType
    <3> QED BY <2>1, <3>1, <3>2, <3>3 DEF TaskTypes, LeaderTypeOK, leaderVars, bounds
  <2>3. CASE ~ Accepted(s)
    <3>1. try_become_leader(s) /\ UNCHANGED <<pc, signal, client>>
      BY <1>1, <2>3 DEF LeaderTick
    <3>2. LeaderTypeOK'
      BY <3>1, TryTypes DEF TaskTypes
    <3> QED BY <2>1, <3>1, <3>2 DEF TaskTypes, bounds
  <2> QED BY <2>2, <2>3
<1>2. CASE GetPromoted(s)
  <2>1. PICK Q \in SUBSET Server : Promote(s, Q)
    BY <1>2 DEF GetPromoted
  <2>2. LeaderTypeOK'
    BY <2>1 DEF TaskTypes, LeaderTypeOK, Promote
  <2>3. UNCHANGED <<pc, signal, clientVars, bounds>>
    BY <1>2 DEF GetPromoted
  <2> QED BY <2>2, <2>3 DEF TaskTypes, clientVars, bounds
<1>3. CASE Elect(s)
  <2>1. try_become_leader(s) /\ elections' = elections + 1
        /\ UNCHANGED <<pc, signal, clientVars, kills, clientRestarts, breaks>>
    BY <1>3 DEF Elect
  <2>2. LeaderTypeOK'
    BY <2>1, TryTypes DEF TaskTypes
  <2> QED BY <2>1, <2>2 DEF TaskTypes, clientVars
<1>4. CASE ClientRegister(s)
  <2>1. /\ client' = [client EXCEPT ![s] = "offered"]
        /\ max_client_id' = [max_client_id EXCEPT ![s] = @ + 1]
        /\ UNCHANGED <<leaderVars, pc, signal, bounds>>
    BY <1>4 DEF ClientRegister
  <2>2. max_client_id' \in [Server -> Nat]
    BY <2>1 DEF TaskTypes
  <2>3. client' \in [Server -> {"absent", "offered", "connected", "started", "hung"}]
    BY <1>0, <2>1
  <2> QED BY <2>1, <2>2, <2>3 DEF TaskTypes, LeaderTypeOK, leaderVars, bounds
<1>5. CASE ApplyClient(s)
  <2> DEFINE applied == [client EXCEPT ![s] = "connected"]
  <2>1. applied \in [Server -> {"absent", "offered", "connected", "started", "hung"}]
    BY <1>0
  <2>2. UNCHANGED <<leaderVars, pc, max_client_id, bounds>>
    BY <1>5 DEF ApplyClient
  <2>3. \/ client' = applied /\ UNCHANGED signal
        \/ ResendStartSignals(s, {}, applied)
    BY <1>5 DEF ApplyClient
  <2>4. /\ signal' \subseteq Pair
        /\ client' \in [Server -> {"absent", "offered", "connected", "started", "hung"}]
    <3> HIDE DEF applied
    <3>1. CASE client' = applied /\ UNCHANGED signal
      BY <2>1, <3>1 DEF TaskTypes
    <3>2. CASE ResendStartSignals(s, {}, applied)
      BY <2>1, <3>2, ResendTypes
    <3> QED BY <2>3, <3>1, <3>2
  <2> QED BY <2>2, <2>4 DEF TaskTypes, LeaderTypeOK, leaderVars, bounds
<1>6. CASE RestartClient(s)
  BY <1>6 DEF RestartClient, TaskTypes, LeaderTypeOK, leaderVars
<1>7. CASE Kill(s)
  <2>1. /\ pc' = [pc EXCEPT ![s] = "down"]
        /\ client' = [client EXCEPT ![s] =
                         IF @ \in {"offered", "connected"} THEN "hung" ELSE @]
        /\ max_client_id' = [max_client_id EXCEPT ![s] = 0]
        /\ kills' = kills + 1
        /\ UNCHANGED <<clientRestarts, breaks, elections>>
    BY <1>7 DEF Kill
  <2>2. signal' \subseteq signal
    BY <1>7 DEF Kill
  <2>3. LeaderTypeOK'
    BY <1>7 DEF Kill, KillLeader, TaskTypes, LeaderTypeOK
  <2>4. client' \in [Server -> {"absent", "offered", "connected", "started", "hung"}]
    BY <1>0, <2>1
  <2>5. pc' \in [Server -> {"down", "connect", "establish", "run"}]
        /\ max_client_id' \in [Server -> Nat] /\ signal' \subseteq Pair
    BY <2>1, <2>2 DEF TaskTypes
  <2> QED BY <2>1, <2>3, <2>4, <2>5 DEF TaskTypes
<1>8. CASE Restart(s)
  BY <1>8 DEF Restart, TaskTypes, LeaderTypeOK, leaderVars, clientVars, bounds
<1> QED BY <1>1, <1>2, <1>3, <1>4, <1>5, <1>6, <1>7, <1>8 DEF ServerStep

LEMMA StepTypes == TaskTypes /\ [Next]_vars => TaskTypes'
<1> SUFFICES ASSUME TaskTypes, [Next]_vars PROVE TaskTypes'
  OBVIOUS
<1>1. CASE UNCHANGED vars
  BY <1>1 DEF vars, TaskTypes, LeaderTypeOK, leaderVars, clientVars, bounds
<1>2. ASSUME NEW s \in Server, NEW t \in Server, s # t, LinkStep(s, t)
      PROVE  TaskTypes'
  BY <1>2, LinkStepTypes
<1>3. ASSUME NEW s \in Server, NEW t \in Server, ReceiveStart(s, t) \/ LearnLeader(s, t)
      PROVE  TaskTypes'
  BY <1>3, PairStepTypes
<1>4. ASSUME NEW s \in Server, ServerStep(s)
      PROVE  TaskTypes'
  BY <1>4, ServerStepTypes
<1> QED BY <1>1, <1>2, <1>3, <1>4 DEF Next

LEMMA InitTypes == Init \/ InitRunning => TaskTypes
<1>1. /\ 0 \in Server \cup {0} /\ InitialLeader \in Server \cup {0}
      /\ MaxElections \in Nat
  BY StartupAssumption
<1>2. Init => TaskTypes
  BY <1>1 DEF Init, NoFaultsYet, TaskTypes, LeaderInit, LeaderTypeOK
<1>3. InitRunning => TaskTypes
  BY <1>1 DEF InitRunning, NoFaultsYet, TaskTypes, LeaderTypeOK
<1> QED BY <1>2, <1>3

\* Ballots, phases, ids and counters keep their types through starts, elections, kills
\* and restarts, for any finite number of servers (server.rs, network.rs).
THEOREM StartupTypeCorrect ==
  Spec \/ StartOrRunningSpec \/ CrashSpec => []TypeOK
<1>1. Init => LinkInv
  BY LinkInitInv DEF Init
<1>2. LinkInv /\ [Next]_vars => LinkInv'
  BY StepLinks, LinkNextInv
<1>3. LinkInv => LinkTypeOK
  BY DEF LinkInv
<1>4. LinkInv /\ TaskTypes => TypeOK
  BY <1>3, TypesSplit
<1> QED BY <1>1, <1>2, <1>4, InitRunningLinks, InitTypes, StepTypes, PTL
        DEF Spec, StartOrRunningSpec, CrashSpec

-------------------------------------------------------------------------------
(* NoFollowerLeftBehind.  As long as ticks elect nobody, only the initial   *)
(* leader leads, it is in the main loop only as the accepted leader, and    *)
(* all start signals are from it to others.  Then each step that makes a    *)
(* live entry of its main loop (ApplyPeer) or brings it there (LeaderTick)  *)
(* sends the signal, and each that may lose one leaves the entry dead.      *)

NoSelfLink == \A s \in Server : slot[<<s, s>>] # "live" /\ ~ offered[<<s, s>>]

OneLeader == /\ elections >= MaxElections
             /\ \A s \in Server : ballot[s].pid \in {0, InitialLeader}
             /\ pc[InitialLeader] = "run" => Accepted(InitialLeader)

SignalsAreLeaders == \A p \in signal : p[1] = InitialLeader /\ p[2] # InitialLeader

\* NoFollowerLeftBehind for the one leader.
Told == pc[InitialLeader] = "run" =>
           \A t \in Server \ {InitialLeader} :
              slot[<<InitialLeader, t>>] = "live" /\ pc[t] # "run"
                 => <<InitialLeader, t>> \in signal

FollowerInv == NoSelfLink /\ OneLeader /\ SignalsAreLeaders /\ Told

LEMMA LeaderIsInitial ==
    ASSUME OneLeader
    PROVE  \A s \in Server : Leads(s) => s = InitialLeader
<1>1. \A s \in Server : s # 0
  BY StartupAssumption
<1> QED BY <1>1 DEF OneLeader, Leads

LEMMA FollowerInvSuffices == FollowerInv => NoFollowerLeftBehind
<1> SUFFICES ASSUME FollowerInv,
                    NEW s \in Server, NEW t \in Server \ {InitialLeader},
                    pc[s] = "run", Accepted(s), slot[s, t] = "live", pc[t] # "run"
             PROVE  <<s, t>> \in signal
  BY DEF NoFollowerLeftBehind
<1>1. s = InitialLeader
  BY LeaderIsInitial DEF FollowerInv, Accepted
<1> QED BY <1>1 DEF FollowerInv, Told

LEMMA NoSelfLinkNext ==
    ASSUME LinkInv, NoSelfLink, [Next]_vars
    PROVE  NoSelfLink'
<1>1. CASE UNCHANGED vars
  BY <1>1 DEF vars, linkVars, NoSelfLink
<1>2. ASSUME NEW s \in Server, NEW t \in Server, s # t, LinkStep(s, t)
      PROVE  NoSelfLink'
  <2>1. /\ \A u \in Server : slot'[<<u, u>>] = "live" => slot[<<u, u>>] = "live"
        /\ \A u \in Server : offered'[<<u, u>>] => offered[<<u, u>>]
    <3>0. <<s, t>> \in Pair /\ \A u \in Server : /\ <<u, u>> \in Pair
                                                 /\ <<u, u>> # <<s, t>>
                                                 /\ <<u, u>> # <<t, s>>
      BY <1>2, PairIn
    <3>1. slot \in [Pair -> {"none", "live", "dead"}] /\ offered \in [Pair -> BOOLEAN]
      BY DEF LinkInv, LinkTypeOK
    <3>2. CASE Establish(s, t)
      BY <3>0, <3>1, <3>2 DEF Establish, Ends
    <3>3. CASE EstablishStale(s, t) \/ Forget(s, t)
      BY <3>3 DEF EstablishStale, Forget
    <3>4. CASE Apply(s, t)
      BY <3>0, <3>1, <3>4 DEF Apply
    <3>5. CASE ApplyStale(s, t)
      BY <3>0, <3>1, <3>5 DEF ApplyStale
    <3>6. CASE Notice(s, t)
      BY <3>0, <3>1, <3>6 DEF Notice
    <3>7. CASE Break(s, t)
      BY <3>0, <3>1, <3>7 DEF Break, Lose
    <3> QED BY <1>2, <3>2, <3>3, <3>4, <3>5, <3>6, <3>7
            DEF LinkStep, Handshake, HandshakeCut, HandshakeForgotten, ApplyPeer,
                NoticeLoss, BreakLink
  <2> QED BY <2>1 DEF NoSelfLink
<1>3. ASSUME NEW s \in Server, NEW t \in Server, ReceiveStart(s, t) \/ LearnLeader(s, t)
      PROVE  NoSelfLink'
  BY <1>3 DEF ReceiveStart, LearnLeader, linkVars, NoSelfLink
<1>4. ASSUME NEW s \in Server, ServerStep(s)
      PROVE  NoSelfLink'
  <2>1. CASE Kill(s)
    <3>1. \A u \in Server : <<u, u>> \in Pair
      BY PairIn
    <3>2. KillLinks(s)
      BY <2>1 DEF Kill
    <3>3. \A u \in Server : /\ slot'[<<u, u>>] = "live" => slot[<<u, u>>] = "live"
                            /\ offered'[<<u, u>>] => offered[<<u, u>>]
      BY <3>1, <3>2 DEF KillLinks
    <3> QED BY <3>3 DEF NoSelfLink
  <2>2. CASE UNCHANGED linkVars
    BY <2>2 DEF linkVars, NoSelfLink
  <2> QED BY <1>4, <2>1, <2>2 DEF ServerStep, LeaderTick, GetPromoted, Elect,
             ClientRegister, ApplyClient, RestartClient, Restart
<1> QED BY <1>1, <1>2, <1>3, <1>4 DEF Next

\* What becomes of the clients plays no role for what follows.
LEMMA ResendSignals ==
    ASSUME NEW s \in Server, NEW lost, NEW who, ResendStartSignals(s, lost, who)
    PROVE  IF Leads(s) THEN SendClusterStartSignals(s, lost) ELSE signal' = signal \ lost
BY DEF ResendStartSignals

LEMMA ApplyPeerSignals ==
    ASSUME NEW s \in Server, NEW t \in Server, ApplyPeer(s, t)
    PROVE  \E lost \in SUBSET Ends(s, t) :
              /\ \/ Apply(s, t) /\ lost = {}
                 \/ ApplyStale(s, t) /\ (slot[<<s, t>>] = "live" \/ lost = {})
              /\ \/ /\ pc[s] = "connect" /\ pc' = [pc EXCEPT ![s] = "establish"]
                    /\ signal' = signal \ lost
                 \/ /\ UNCHANGED pc
                    /\ Leads(s) => SendClusterStartSignals(s, lost)
                    /\ ~ Leads(s) => signal' = signal \ lost
BY ResendSignals DEF ApplyPeer

LEMMA OneLeaderNext ==
    ASSUME TaskTypes, OneLeader, SignalsAreLeaders, [Next]_vars
    PROVE  OneLeader'
<1>0. /\ elections \in Nat /\ MaxElections \in Nat /\ elections >= MaxElections
      /\ InitialLeader \in Server /\ 0 \notin Server
      /\ pc \in [Server -> {"down", "connect", "establish", "run"}]
      /\ ballot \in [Server -> [n : Nat, pid : Server \cup {0}]]
      /\ phase \in [Server -> {"follower", "prepare", "accept"}]
      /\ \A s \in Server : ballot[s].pid \in {0, InitialLeader}
      /\ pc[InitialLeader] = "run" => Accepted(InitialLeader)
  BY StartupAssumption DEF TaskTypes, LeaderTypeOK, OneLeader
<1>1. CASE UNCHANGED <<elections, leaderVars>> /\ (pc'[InitialLeader] = "run" => pc[InitialLeader] = "run")
  BY <1>1 DEF OneLeader, leaderVars, Accepted, Leads
<1>2. CASE UNCHANGED vars
  BY <1>1, <1>2 DEF vars, bounds
<1>3. ASSUME NEW s \in Server, NEW t \in Server, s # t, LinkStep(s, t)
      PROVE  OneLeader'
  <2>1. UNCHANGED <<elections, leaderVars>>
    BY <1>3 DEF LinkStep, Handshake, HandshakeCut, HandshakeForgotten, ApplyPeer,
                NoticeLoss, BreakLink, bounds
  <2>2. CASE ApplyPeer(s, t)
    <3>1. \/ pc' = [pc EXCEPT ![s] = "establish"]
          \/ UNCHANGED pc
      BY <2>2, ApplyPeerSignals
    <3>2. pc'[InitialLeader] = "run" => pc[InitialLeader] = "run"
      BY <1>0, <3>1
    <3> QED BY <1>1, <2>1, <3>2
  <2>3. CASE UNCHANGED pc
    BY <1>1, <2>1, <2>3
  <2> QED BY <1>3, <2>2, <2>3 DEF LinkStep, Handshake, HandshakeCut, HandshakeForgotten,
                                  NoticeLoss, BreakLink
<1>4. ASSUME NEW s \in Server, NEW t \in Server, ReceiveStart(s, t)
      PROVE  OneLeader'
  <2>1. t # InitialLeader
    <3>1. <<s, t>> \in signal
      BY <1>4 DEF ReceiveStart
    <3> QED BY <3>1 DEF SignalsAreLeaders
  <2>2. pc' = [pc EXCEPT ![t] = "run"] /\ UNCHANGED <<elections, leaderVars>>
    BY <1>4 DEF ReceiveStart, bounds
  <2>3. pc'[InitialLeader] = pc[InitialLeader]
    BY <1>0, <2>1, <2>2
  <2> QED BY <1>1, <2>2, <2>3
<1>5. ASSUME NEW s \in Server, NEW t \in Server, LearnLeader(s, t)
      PROVE  OneLeader'
  <2>1. s # t /\ Follow(s, t) /\ UNCHANGED <<pc, elections>>
    BY <1>5 DEF LearnLeader, bounds
  <2>2. s = InitialLeader
    BY <2>1, LeaderIsInitial DEF Follow, Accepted
  <2>3. ballot' = [ballot EXCEPT ![t] = ballot[s]] /\ phase' = [phase EXCEPT ![t] = "follower"]
    BY <2>1 DEF Follow
  <2>4. /\ \A u \in Server : ballot'[u].pid \in {0, InitialLeader}
        /\ ballot'[InitialLeader] = ballot[InitialLeader]
        /\ phase'[InitialLeader] = phase[InitialLeader]
    BY <1>0, <2>1, <2>2, <2>3
  <2> QED BY <1>0, <2>1, <2>4 DEF OneLeader, Accepted, Leads
<1>6. ASSUME NEW s \in Server, LeaderTick(s)
      PROVE  OneLeader'
  <2>1. s = InitialLeader /\ pc[s] = "establish" /\ UNCHANGED elections
    BY <1>6 DEF LeaderTick, bounds
  <2>2. CASE Accepted(s) /\ UNCHANGED leaderVars
    BY <1>0, <2>1, <2>2 DEF OneLeader, leaderVars, Accepted, Leads
  <2>3. CASE try_become_leader(s) /\ UNCHANGED pc
    <3>1. \A u \in Server : ballot'[u].pid \in {0, InitialLeader}
      <4>1. CASE UNCHANGED <<ballot, phase>>
        BY <1>0, <4>1
      <4>2. CASE ballot' = [ballot EXCEPT ![s] = [n |-> Highest + 1, pid |-> s]]
        BY <1>0, <2>1, <4>2
      <4> QED BY <2>3, <4>1, <4>2 DEF try_become_leader
    <3>2. pc'[InitialLeader] # "run"
      BY <2>1, <2>3
    <3> QED BY <1>0, <2>1, <3>1, <3>2 DEF OneLeader
  <2> QED BY <1>6, <2>2, <2>3 DEF LeaderTick
<1>7. ASSUME NEW s \in Server, GetPromoted(s)
      PROVE  OneLeader'
  <2>1. PICK Q \in SUBSET Server : Promote(s, Q)
    BY <1>7 DEF GetPromoted
  <2>2. UNCHANGED <<pc, elections>>
    BY <1>7 DEF GetPromoted, bounds
  <2>3. s = InitialLeader
    BY <2>1, LeaderIsInitial DEF Promote
  <2>4. pc[InitialLeader] # "run"
    <3>1. phase[s] = "prepare"
      BY <2>1 DEF Promote
    <3> QED BY <1>0, <2>3, <3>1 DEF Accepted
  <2>5. ballot' = [t \in Server |-> IF t \in Q THEN ballot[s] ELSE ballot[t]]
    BY <2>1 DEF Promote
  <2>6. \A u \in Server : ballot'[u].pid \in {0, InitialLeader}
    BY <1>0, <2>5
  <2> QED BY <1>0, <2>2, <2>4, <2>6 DEF OneLeader
<1>8. ASSUME NEW s \in Server, Elect(s)
      PROVE  OneLeader'
  BY <1>0, <1>8 DEF Elect
<1>9. ASSUME NEW s \in Server, Kill(s)
      PROVE  OneLeader'
  <2>1. /\ pc' = [pc EXCEPT ![s] = "down"] /\ UNCHANGED <<ballot, elections>>
        /\ phase' = [phase EXCEPT ![s] = "follower"]
    BY <1>9 DEF Kill, KillLeader
  <2>2. CASE s = InitialLeader
    <3>1. pc'[InitialLeader] # "run"
      BY <1>0, <2>1, <2>2
    <3> QED BY <1>0, <2>1, <3>1 DEF OneLeader
  <2>3. CASE s # InitialLeader
    <3>1. pc'[InitialLeader] = pc[InitialLeader] /\ phase'[InitialLeader] = phase[InitialLeader]
      BY <1>0, <2>1, <2>3
    <3> QED BY <1>0, <2>1, <3>1 DEF OneLeader, Accepted, Leads
  <2> QED BY <2>2, <2>3
<1>10. ASSUME NEW s \in Server, Restart(s)
       PROVE  OneLeader'
  <2>1. pc' = [pc EXCEPT ![s] = "connect"] /\ UNCHANGED <<elections, leaderVars>>
    BY <1>10 DEF Restart, bounds
  <2>2. pc'[InitialLeader] = "run" => pc[InitialLeader] = "run"
    BY <1>0, <2>1
  <2> QED BY <1>1, <2>1, <2>2
<1>11. ASSUME NEW s \in Server, ClientRegister(s) \/ ApplyClient(s) \/ RestartClient(s)
       PROVE  OneLeader'
  <2>1. UNCHANGED <<elections, leaderVars, pc>>
    BY <1>11 DEF ClientRegister, ApplyClient, RestartClient, bounds
  <2> QED BY <1>1, <2>1
<1> QED BY <1>2, <1>3, <1>4, <1>5, <1>6, <1>7, <1>8, <1>9, <1>10, <1>11
        DEF Next, ServerStep

\* All that steps at the leader may add to signal.
LEMMA SignalsFromLeader ==
    ASSUME OneLeader, SignalsAreLeaders, NEW s \in Server, NEW lost,
           Leads(s), SendClusterStartSignals(s, lost), slot'[<<s, s>>] # "live"
    PROVE  SignalsAreLeaders'
<1>1. s = InitialLeader
  BY LeaderIsInitial
<1>2. signal' = (signal \ lost) \cup
                { <<s, t>> : t \in { u \in Server : slot'[<<s, u>>] = "live" } }
  BY DEF SendClusterStartSignals
<1>3. \A t \in Server : slot'[<<s, t>>] = "live" => t # InitialLeader
  BY <1>1
<1>4. \A p \in { <<s, t>> : t \in { u \in Server : slot'[<<s, u>>] = "live" } } :
         p[1] = InitialLeader /\ p[2] # InitialLeader
  <2>1. \A t \in { u \in Server : slot'[<<s, u>>] = "live" } :
           <<s, t>>[1] = InitialLeader /\ <<s, t>>[2] # InitialLeader
    BY <1>1, <1>3
  <2> QED BY <2>1
<1> QED BY <1>2, <1>4 DEF SignalsAreLeaders

LEMMA SignalsNext ==
    ASSUME LinkInv, NoSelfLink, OneLeader, SignalsAreLeaders, [Next]_vars
    PROVE  SignalsAreLeaders'
<1>0. \A s \in Server : slot'[<<s, s>>] # "live"
  BY NoSelfLinkNext DEF NoSelfLink
<1>1. CASE signal' \subseteq signal
  BY <1>1 DEF SignalsAreLeaders
<1>2. ASSUME NEW s \in Server, Leads(s), NEW lost, SendClusterStartSignals(s, lost)
      PROVE  SignalsAreLeaders'
  BY <1>0, <1>2, SignalsFromLeader
<1>3. ASSUME NEW s \in Server, NEW lost, NEW who, ResendStartSignals(s, lost, who)
      PROVE  SignalsAreLeaders'
  <2>1. CASE Leads(s)
    BY <1>2, <1>3, <2>1, ResendSignals
  <2>2. CASE ~ Leads(s)
    <3>1. signal' = signal \ lost
      BY <1>3, <2>2, ResendSignals
    <3> QED BY <1>1, <3>1
  <2> QED BY <2>1, <2>2
<1>4. ASSUME NEW s \in Server, NEW t \in Server, s # t, LinkStep(s, t)
      PROVE  SignalsAreLeaders'
  <2>1. CASE ApplyPeer(s, t)
    <3>1. PICK lost \in SUBSET Ends(s, t) :
             \/ signal' = signal \ lost
             \/ Leads(s) /\ SendClusterStartSignals(s, lost)
      BY <2>1, ApplyPeerSignals
    <3>2. CASE signal' = signal \ lost
      BY <1>1, <3>2
    <3>3. CASE Leads(s) /\ SendClusterStartSignals(s, lost)
      BY <1>2, <3>3
    <3> QED BY <3>1, <3>2, <3>3
  <2>2. CASE BreakLink(s, t)
    <3>1. signal' \subseteq signal
      BY <2>2 DEF BreakLink
    <3> QED BY <1>1, <3>1
  <2>3. CASE UNCHANGED signal
    BY <1>1, <2>3
  <2> QED BY <1>4, <2>1, <2>2, <2>3
          DEF LinkStep, Handshake, HandshakeCut, HandshakeForgotten, NoticeLoss
<1>5. ASSUME NEW s \in Server, ServerStep(s)
      PROVE  SignalsAreLeaders'
  <2>1. CASE LeaderTick(s)
    <3>1. \/ Leads(s) /\ SendClusterStartSignals(s, {})
          \/ UNCHANGED signal
      BY <2>1 DEF LeaderTick, Accepted
    <3> QED BY <1>1, <1>2, <3>1
  <2>2. CASE ApplyClient(s)
    <3>1. \/ UNCHANGED signal
          \/ \E who : ResendStartSignals(s, {}, who)
      BY <2>2 DEF ApplyClient
    <3> QED BY <1>1, <1>3, <3>1
  <2>3. CASE Kill(s)
    <3>1. signal' \subseteq signal
      BY <2>3 DEF Kill
    <3> QED BY <1>1, <3>1
  <2>4. CASE UNCHANGED signal
    BY <1>1, <2>4
  <2> QED BY <1>5, <2>1, <2>2, <2>3, <2>4
          DEF ServerStep, GetPromoted, Elect, ClientRegister, RestartClient, Restart
<1>6. ASSUME NEW s \in Server, NEW t \in Server, ReceiveStart(s, t) \/ LearnLeader(s, t)
      PROVE  SignalsAreLeaders'
  <2>1. signal' \subseteq signal
    BY <1>6 DEF ReceiveStart, LearnLeader
  <2> QED BY <1>1, <2>1
<1>7. CASE UNCHANGED vars
  BY <1>1, <1>7 DEF vars
<1> QED BY <1>4, <1>5, <1>6, <1>7 DEF Next

(* Told, step by step. *)

\* Where the leader signals every live entry, all are told.
LEMMA SignalsTell ==
    ASSUME NEW lost, SendClusterStartSignals(InitialLeader, lost)
    PROVE  Told'
<1>1. \A t \in Server : slot'[<<InitialLeader, t>>] = "live" => <<InitialLeader, t>> \in signal'
  BY DEF SendClusterStartSignals
<1> QED BY <1>1 DEF Told

\* Where nothing new is to be told, and what is lost need not be told, nothing changes.
LEMMA NothingToTell ==
    ASSUME Told, pc'[InitialLeader] = "run" => pc[InitialLeader] = "run",
           \A t \in Server \ {InitialLeader} :
              slot'[<<InitialLeader, t>>] = "live" /\ pc'[t] # "run"
                 => /\ slot[<<InitialLeader, t>>] = "live" /\ pc[t] # "run"
                    /\ <<InitialLeader, t>> \in signal => <<InitialLeader, t>> \in signal'
    PROVE  Told'
BY DEF Told

LEMMA ToldNext ==
    ASSUME LinkInv, TaskTypes, FollowerInv, [Next]_vars
    PROVE  Told'
<1>0. /\ Told /\ OneLeader /\ SignalsAreLeaders
      /\ InitialLeader \in Server
      /\ pc \in [Server -> {"down", "connect", "establish", "run"}]
      /\ slot \in [Pair -> {"none", "live", "dead"}]
      /\ offered \in [Pair -> BOOLEAN]
  BY StartupAssumption DEF FollowerInv, LinkInv, LinkTypeOK, TaskTypes
<1>1. CASE UNCHANGED <<slot, pc, signal>>
  BY <1>0, <1>1 DEF Told
<1>2. ASSUME NEW s \in Server, NEW t \in Server, s # t, LinkStep(s, t)
      PROVE  Told'
  <2>1. CASE Handshake(s, t) \/ HandshakeCut(s, t) \/ HandshakeForgotten(s, t)
    <3>1. UNCHANGED <<slot, pc, signal>>
      BY <2>1 DEF Handshake, HandshakeCut, HandshakeForgotten,
                  Establish, EstablishStale, Forget
    <3> QED BY <1>1, <3>1
  <2>2. CASE ApplyPeer(s, t)
    <3>1. PICK lost \in SUBSET Ends(s, t) :
             /\ \/ Apply(s, t) /\ lost = {}
                \/ ApplyStale(s, t) /\ (slot[<<s, t>>] = "live" \/ lost = {})
             /\ \/ /\ pc[s] = "connect" /\ pc' = [pc EXCEPT ![s] = "establish"]
                   /\ signal' = signal \ lost
                \/ /\ UNCHANGED pc
                   /\ Leads(s) => SendClusterStartSignals(s, lost)
                   /\ ~ Leads(s) => signal' = signal \ lost
      BY <2>2, ApplyPeerSignals
    <3>2. CASE s = InitialLeader /\ pc'[s] = "run"
      <4>1. UNCHANGED pc
        BY <1>0, <3>1, <3>2
      <4>2. Leads(s)
        BY <1>0, <3>2, <4>1 DEF OneLeader, Accepted
      <4> QED BY <3>1, <3>2, <4>1, <4>2, SignalsTell
    <3>3. CASE s = InitialLeader /\ pc'[s] # "run"
      BY <3>3 DEF Told
    <3>4. CASE s # InitialLeader
      <4>1. ~ Leads(s)
        BY <1>0, <3>4, LeaderIsInitial
      <4>2. signal' = signal \ lost
        BY <3>1, <4>1
      <4>3. \A u \in Server : pc'[u] = "run" <=> pc[u] = "run"
        BY <1>0, <3>1
      <4>4. \A u \in Server : /\ <<InitialLeader, u>> \in Pair
                              /\ <<InitialLeader, u>> # <<s, t>>
                              /\ <<InitialLeader, u>> = <<t, s>> \/ <<InitialLeader, u>> \notin Ends(s, t)
        BY <1>0, <3>4, PairIn DEF Ends
      <4>5. \A u \in Server : slot'[<<InitialLeader, u>>] = "live"
               => /\ slot[<<InitialLeader, u>>] = "live"
                  /\ <<InitialLeader, u>> \notin lost
        <5>1. CASE Apply(s, t) /\ lost = {}
          BY <1>0, <4>4, <5>1 DEF Apply
        <5>2. CASE ApplyStale(s, t) /\ (slot[<<s, t>>] = "live" \/ lost = {})
          <6>1. SUFFICES ASSUME NEW u \in Server, slot'[<<InitialLeader, u>>] = "live"
                         PROVE  /\ slot[<<InitialLeader, u>>] = "live"
                                /\ <<InitialLeader, u>> \notin lost
            OBVIOUS
          <6>2. slot' = [p \in Pair |->
                           IF p = <<s, t>> THEN "dead"
                           ELSE IF p = <<t, s>> /\ Linked(s, t) THEN "dead"
                           ELSE slot[p]]
            BY <5>2 DEF ApplyStale
          <6>3. slot[<<InitialLeader, u>>] = "live"
                /\ ~ (<<InitialLeader, u>> = <<t, s>> /\ Linked(s, t))
            BY <4>4, <6>1, <6>2
          <6>4. CASE <<InitialLeader, u>> = <<t, s>>
            <7>1. slot[<<t, s>>] = "live" /\ ~ Linked(s, t)
              BY <6>3, <6>4
            <7>2. lost = {}
              BY <5>2, <7>1 DEF Linked
            <7> QED BY <6>3, <7>2
          <6>5. CASE <<InitialLeader, u>> \notin Ends(s, t)
            BY <6>3, <6>5
          <6> QED BY <4>4, <6>4, <6>5
        <5> QED BY <3>1, <5>1, <5>2
      <4> QED BY <1>0, <4>2, <4>3, <4>5, NothingToTell
    <3> QED BY <3>2, <3>3, <3>4
  <2>3. CASE NoticeLoss(s, t)
    <3>1. slot' = [slot EXCEPT ![<<s, t>>] = "none"] /\ UNCHANGED <<pc, signal>>
      BY <2>3 DEF NoticeLoss, Notice
    <3>2. \A u \in Server : slot'[<<InitialLeader, u>>] = "live" => slot[<<InitialLeader, u>>] = "live"
      BY <1>0, <3>1, PairIn
    <3> QED BY <1>0, <3>1, <3>2, NothingToTell
  <2>4. CASE BreakLink(s, t)
    <3>1. PICK lost \in SUBSET Ends(s, t) : signal' = signal \ lost
      BY <2>4 DEF BreakLink
    <3>2. /\ slot' = [p \in Pair |-> IF p \in Ends(s, t) /\ slot[p] = "live"
                                     THEN "dead" ELSE slot[p]]
          /\ UNCHANGED pc
      BY <2>4 DEF BreakLink, Break, Lose
    <3>3. \A u \in Server : slot'[<<InitialLeader, u>>] = "live"
             => slot[<<InitialLeader, u>>] = "live" /\ <<InitialLeader, u>> \notin lost
      BY <1>0, <3>2, PairIn
    <3> QED BY <1>0, <3>1, <3>2, <3>3, NothingToTell
  <2> QED BY <1>2, <2>1, <2>2, <2>3, <2>4 DEF LinkStep
<1>3. ASSUME NEW s \in Server, NEW t \in Server, ReceiveStart(s, t)
      PROVE  Told'
  <2>1. /\ signal' = signal \ {<<s, t>>} /\ pc' = [pc EXCEPT ![t] = "run"]
        /\ UNCHANGED slot /\ <<s, t>> \in signal
    BY <1>3 DEF ReceiveStart, linkVars
  <2>2. t # InitialLeader
    BY <1>0, <2>1 DEF SignalsAreLeaders
  <2>3. pc'[InitialLeader] = pc[InitialLeader]
    BY <1>0, <2>1, <2>2
  <2>4. \A u \in Server : pc'[u] # "run" => u # t /\ pc[u] # "run"
    BY <1>0, <2>1
  <2> QED BY <1>0, <2>1, <2>3, <2>4, NothingToTell
<1>4. ASSUME NEW s \in Server, NEW t \in Server, LearnLeader(s, t)
      PROVE  Told'
  BY <1>1, <1>4 DEF LearnLeader, linkVars
<1>5. ASSUME NEW s \in Server, LeaderTick(s)
      PROVE  Told'
  <2>1. CASE Accepted(s)
    <3>1. s = InitialLeader /\ SendClusterStartSignals(s, {})
      BY <1>5, <2>1 DEF LeaderTick
    <3> QED BY <3>1, SignalsTell
  <2>2. CASE ~ Accepted(s)
    <3>1. UNCHANGED <<slot, pc, signal>>
      BY <1>5, <2>2 DEF LeaderTick, linkVars
    <3> QED BY <1>1, <3>1
  <2> QED BY <2>1, <2>2
<1>6. ASSUME NEW s \in Server, ApplyClient(s)
      PROVE  Told'
  <2>1. UNCHANGED <<slot, pc>>
    BY <1>6 DEF ApplyClient, linkVars
  <2>2. CASE UNCHANGED signal
    BY <1>1, <2>1, <2>2
  <2>3. ASSUME NEW who, ResendStartSignals(s, {}, who)
        PROVE  Told'
    <3>1. CASE Leads(s)
      <4>1. s = InitialLeader
        BY <1>0, <3>1, LeaderIsInitial
      <4> QED BY <2>3, <3>1, <4>1, ResendSignals, SignalsTell
    <3>2. CASE ~ Leads(s)
      <4>1. UNCHANGED signal
        BY <2>3, <3>2, ResendSignals
      <4> QED BY <1>1, <2>1, <4>1
    <3> QED BY <3>1, <3>2
  <2> QED BY <1>6, <2>2, <2>3 DEF ApplyClient
<1>7. ASSUME NEW s \in Server, Kill(s)
      PROVE  Told'
  <2>1. pc' = [pc EXCEPT ![s] = "down"] /\ KillLinks(s)
    BY <1>7 DEF Kill
  <2>2. PICK lost \in SUBSET { p \in signal : p[1] = s } :
           signal' = { p \in signal \ lost : p[2] # s }
    BY <1>7 DEF Kill
  <2>3. CASE s = InitialLeader
    <3>1. pc'[InitialLeader] # "run"
      BY <1>0, <2>1, <2>3
    <3> QED BY <3>1 DEF Told
  <2>4. CASE s # InitialLeader
    <3>1. pc'[InitialLeader] = pc[InitialLeader]
      BY <1>0, <2>1, <2>4
    <3>2. \A u \in Server : slot'[<<InitialLeader, u>>] = "live"
             => u # s /\ slot[<<InitialLeader, u>>] = "live"
      BY <1>0, <2>1, <2>4, PairIn DEF KillLinks
    <3>3. \A u \in Server : u # s => /\ pc'[u] = pc[u]
                                     /\ <<InitialLeader, u>> \in signal => <<InitialLeader, u>> \in signal'
      BY <1>0, <2>1, <2>2, <2>4
    <3> QED BY <1>0, <3>1, <3>2, <3>3, NothingToTell
  <2> QED BY <2>3, <2>4
<1>8. ASSUME NEW s \in Server, Restart(s)
      PROVE  Told'
  <2>1. pc[s] = "down" /\ pc' = [pc EXCEPT ![s] = "connect"] /\ UNCHANGED <<slot, signal>>
    BY <1>8 DEF Restart, linkVars
  <2>2. \A u \in Server : pc'[u] = "run" <=> pc[u] = "run"
    BY <1>0, <2>1
  <2> QED BY <1>0, <2>1, <2>2, NothingToTell
<1>9. ASSUME NEW s \in Server,
             GetPromoted(s) \/ Elect(s) \/ ClientRegister(s) \/ RestartClient(s)
      PROVE  Told'
  <2>1. UNCHANGED <<slot, pc, signal>>
    BY <1>9 DEF GetPromoted, Elect, ClientRegister, RestartClient, linkVars
  <2> QED BY <1>1, <2>1
<1>10. CASE UNCHANGED vars
  BY <1>1, <1>10 DEF vars, linkVars
<1> QED BY <1>2, <1>3, <1>4, <1>5, <1>6, <1>7, <1>8, <1>9, <1>10 DEF Next, ServerStep

LEMMA FollowerNext == LinkInv /\ TaskTypes /\ FollowerInv /\ [Next]_vars => FollowerInv'
BY NoSelfLinkNext, OneLeaderNext, SignalsNext, ToldNext DEF FollowerInv

LEMMA InitFollower == Init \/ (InitRunning /\ MaxElections = 0) => FollowerInv
<1>0. MaxElections \in Nat /\ InitialLeader \in Server
  BY StartupAssumption
<1>1. Init => NoSelfLink /\ SignalsAreLeaders
  BY PairIn DEF Init, LinkInit, NoSelfLink, SignalsAreLeaders
<1>2. Init => OneLeader /\ Told
  BY <1>0 DEF Init, LeaderInit, OneLeader, Told
<1>3. InitRunning => NoSelfLink /\ SignalsAreLeaders
  BY PairIn DEF InitRunning, NoSelfLink, SignalsAreLeaders
<1>4. InitRunning /\ MaxElections = 0 => OneLeader
  BY <1>0 DEF InitRunning, OneLeader, Accepted, Leads
<1>5. InitRunning => Told
  BY DEF InitRunning, Told
<1> QED BY <1>1, <1>2, <1>3, <1>4, <1>5 DEF FollowerInv

\* The leader leaves no follower behind: whatever is killed, restarted or broken, during
\* a cold start or, without elections by ticks, of a cluster that works
\* (establish_initial_leader, the recovery branches of both loops).
THEOREM StartupLeavesNoneBehind ==
  Spec \/ (MaxElections = 0 /\ (StartOrRunningSpec \/ CrashSpec)) => []NoFollowerLeftBehind
<1>1. Init => LinkInv
  BY LinkInitInv DEF Init
<1>2. LinkInv /\ [Next]_vars => LinkInv'
  BY StepLinks, LinkNextInv
<1> QED BY <1>1, <1>2, InitRunningLinks, InitTypes, StepTypes, InitFollower, FollowerNext,
           FollowerInvSuffices, PTL DEF Spec, StartOrRunningSpec, CrashSpec
===============================================================================
