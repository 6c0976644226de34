----------------------------- MODULE ClusterLinks -----------------------------
(***************************************************************************)
(* What the servers may rely on of their peer connections                  *)
(* (server/network.rs): between two servers there is one live connection   *)
(* at most; each end uses it once its main loop has applied it; when it    *)
(* breaks, an end that sends nothing does not notice.  Of two servers the  *)
(* one with the higher id connects, and only after it has noticed.         *)
(*                                                                         *)
(* PeerLink models the tasks behind this and implements it; Startup is     *)
(* built on it.                                                            *)
(***************************************************************************)
EXTENDS Naturals

CONSTANT Server     \* the node ids

ASSUME ServerIds == Server \subseteq Nat

VARIABLES
    slot,     \* slot[s, t]: the entry for t in peer_connections of s: None, a live
              \* connection, or one that has broken
    offered,  \* offered[s, t]: a live connection to t waits for s to apply it
    stale     \* stale[s, t]: as many wait that have broken

linkVars == <<slot, offered, stale>>

Pair == Server \X Server

LinkTypeOK == /\ slot \in [Pair -> {"none", "live", "dead"}]
              /\ offered \in [Pair -> BOOLEAN]
              /\ stale \in [Pair -> Nat]

LinkInit == /\ slot = [p \in Pair |-> "none"]
            /\ offered = [p \in Pair |-> FALSE]
            /\ stale = [p \in Pair |-> 0]

Ends(s, t) == {<<s, t>>, <<t, s>>}

\* Both ends of a connection that is up use it.
Linked(s, t) == slot[s, t] = "live" /\ slot[t, s] = "live"

\* The live connections at the ends in P, if any, break.
Lose(P) ==
    /\ slot' = [p \in Pair |-> IF p \in P /\ slot[p] = "live" THEN "dead" ELSE slot[p]]
    /\ offered' = [p \in Pair |-> offered[p] /\ p \notin P]
    /\ stale' = [p \in Pair |-> IF p \in P /\ offered[p] THEN stale[p] + 1 ELSE stale[p]]

-------------------------------------------------------------------------------
\* The connector of s waits for the close signal of its connection to t; without
\* one (it was sent, or none was needed yet) it connects.
Free(s, t) == slot[s, t] = "none" /\ ~ offered[s, t] /\ stale[s, t] = 0

Establish(s, t) ==
    /\ t < s
    /\ Free(s, t)
    /\ offered' = [p \in Pair |-> offered[p] \/ p \in Ends(s, t)]
    /\ UNCHANGED <<slot, stale>>

\* The connection breaks before either end has applied it; the listener may never
\* see the registration.
EstablishStale(s, t) ==
    /\ t < s
    /\ Free(s, t)
    /\ stale' \in { [stale EXCEPT ![<<s, t>>] = 1],
                    [stale EXCEPT ![<<s, t>>] = 1, ![<<t, s>>] = @ + 1] }
    /\ UNCHANGED <<slot, offered>>

\* apply_connection, for the live connection ...
Apply(s, t) ==
    /\ offered[s, t]
    /\ slot' = [slot EXCEPT ![<<s, t>>] = "live"]
    /\ offered' = [offered EXCEPT ![<<s, t>>] = FALSE]
    /\ UNCHANGED stale

\* ... and for one that broke while it waited: if it replaces the live one, that
\* one is closed and breaks at the other end.  Mutant: it is not closed.
ApplyStaleQuietly(s, t) ==
    /\ stale[s, t] > 0
    /\ slot' = [slot EXCEPT ![<<s, t>>] = "dead"]
    /\ stale' = [stale EXCEPT ![<<s, t>>] = @ - 1]
    /\ UNCHANGED offered

ApplyStale(s, t) ==
    /\ stale[s, t] > 0
    /\ slot' = [p \in Pair |->
          IF p = <<s, t>> THEN "dead"
          ELSE IF p = <<t, s>> /\ Linked(s, t) THEN "dead"
          ELSE slot[p]]
    /\ offered' = [p \in Pair |->
          offered[p] /\ ~ (p = <<t, s>> /\ slot[s, t] = "live")]
    /\ stale' = [p \in Pair |->
          IF p = <<s, t>> THEN stale[p] - 1
          ELSE IF p = <<t, s>> /\ offered[p] /\ slot[s, t] = "live" THEN stale[p] + 1
          ELSE stale[p]]

\* The listener learns that a connection it accepted will not be registered.
\* Mutant: one that was is forgotten too.
ForgetAny(s, t) ==
    /\ s < t
    /\ stale[s, t] > 0 \/ slot[s, t] = "dead"
    /\ stale' = [stale EXCEPT ![<<s, t>>] = @ - 1]
    /\ UNCHANGED <<slot, offered>>

Forget(s, t) ==
    /\ s < t
    /\ stale[s, t] > 0
    /\ stale' = [stale EXCEPT ![<<s, t>>] = @ - 1]
    /\ UNCHANGED <<slot, offered>>

\* send_to_cluster fails, which empties the entry.
Notice(s, t) ==
    /\ slot[s, t] = "dead"
    /\ slot' = [slot EXCEPT ![<<s, t>>] = "none"]
    /\ UNCHANGED <<offered, stale>>

Break(s, t) ==
    /\ slot[s, t] = "live" \/ offered[s, t]
    /\ Lose(Ends(s, t))

\* The process of s is killed: it loses everything, its peers the live connections.
KillLinks(s) ==
    /\ slot' = [p \in Pair |-> IF p[1] = s THEN "none"
                               ELSE IF p[2] = s /\ slot[p] = "live" THEN "dead"
                               ELSE slot[p]]
    /\ offered' = [p \in Pair |-> offered[p] /\ s \notin {p[1], p[2]}]
    /\ stale' = [p \in Pair |-> IF p[1] = s THEN 0
                                ELSE IF p[2] = s /\ offered[p] THEN stale[p] + 1
                                ELSE stale[p]]

-------------------------------------------------------------------------------
LinkNext == \E s, t \in Server :
               \/ s # t /\ \/ Establish(s, t) \/ EstablishStale(s, t)
                           \/ Apply(s, t) \/ ApplyStale(s, t) \/ Forget(s, t)
                           \/ Notice(s, t) \/ Break(s, t)
               \/ KillLinks(s)

LinkSpec == LinkInit /\ [][LinkNext]_linkVars

\* No end holds a live connection that the other end does not hold or is about to
\* apply, and nobody has two of them: after any faults, what one server sends the
\* other gets, or the connection counts as broken.
LinkConsistent ==
    \A s, t \in Server : s # t =>
        /\ slot[s, t] = "live" => slot[t, s] = "live" \/ offered[t, s]
        /\ offered[s, t] => slot[t, s] = "live" \/ offered[t, s]
        /\ ~ (slot[s, t] = "live" /\ offered[s, t])
===============================================================================
