-------------------------- MODULE ClusterLinksProofs --------------------------
(***************************************************************************)
(* LinkConsistent is inductive once the types are known: for any number of *)
(* servers, breaks and kills the two ends of a connection agree on it.     *)
(***************************************************************************)
EXTENDS ClusterLinks, TLAPS

LinkInv == LinkTypeOK /\ LinkConsistent

LEMMA PairIn == \A s, t \in Server : <<s, t>> \in Pair
  BY DEF Pair

LEMMA LinkInitInv == LinkInit => LinkInv
<1> SUFFICES ASSUME LinkInit PROVE LinkInv
  OBVIOUS
<1>1. LinkTypeOK
  BY DEF LinkInit, LinkTypeOK
<1>2. LinkConsistent
  BY PairIn DEF LinkInit, LinkConsistent
<1> QED BY <1>1, <1>2 DEF LinkInv

(* One lemma per step. *)

LEMMA EstablishInv ==
  ASSUME LinkInv, NEW s \in Server, NEW t \in Server, s # t, Establish(s, t)
  PROVE  LinkInv'
<1>1. LinkTypeOK'
  BY DEF LinkInv, LinkTypeOK, Establish
<1>2. LinkConsistent'
  BY DEF LinkInv, LinkTypeOK, LinkConsistent, Establish, Free, Ends, Pair
<1> QED BY <1>1, <1>2 DEF LinkInv

LEMMA EstablishStaleInv ==
  ASSUME LinkInv, NEW s \in Server, NEW t \in Server, s # t, EstablishStale(s, t)
  PROVE  LinkInv'
<1>1. LinkTypeOK'
  <2>1. <<s, t>> \in Pair /\ <<t, s>> \in Pair
    BY PairIn
  <2>2. stale \in [Pair -> Nat] /\ stale[<<t, s>>] + 1 \in Nat
    BY <2>1 DEF LinkInv, LinkTypeOK
  <2>3. stale' \in [Pair -> Nat]
    <3>1. CASE stale' = [stale EXCEPT ![<<s, t>>] = 1]
      BY <2>1, <2>2, <3>1
    <3>2. CASE stale' = [stale EXCEPT ![<<s, t>>] = 1, ![<<t, s>>] = @ + 1]
      BY <2>1, <2>2, <3>2
    <3> QED BY <3>1, <3>2 DEF EstablishStale
  <2> QED BY <2>3 DEF LinkInv, LinkTypeOK, EstablishStale
<1>2. LinkConsistent'
  BY DEF LinkInv, LinkConsistent, EstablishStale
<1> QED BY <1>1, <1>2 DEF LinkInv

LEMMA ApplyInv ==
  ASSUME LinkInv, NEW s \in Server, NEW t \in Server, s # t, Apply(s, t)
  PROVE  LinkInv'
<1>1. LinkTypeOK'
  BY DEF LinkInv, LinkTypeOK, Apply
<1>2. LinkConsistent'
  BY DEF LinkInv, LinkTypeOK, LinkConsistent, Apply, Pair
<1> QED BY <1>1, <1>2 DEF LinkInv

LEMMA ApplyStaleInv ==
  ASSUME LinkInv, NEW s \in Server, NEW t \in Server, s # t, ApplyStale(s, t)
  PROVE  LinkInv'
<1>1. LinkTypeOK'
  <2>1. \A p \in Pair : stale[p] \in Nat /\ stale[p] + 1 \in Nat
    BY DEF LinkInv, LinkTypeOK
  <2>2. stale[<<s, t>>] > 0 => stale[<<s, t>>] - 1 \in Nat
    BY <2>1, PairIn
  <2>3. stale' \in [Pair -> Nat]
    BY <2>1, <2>2, PairIn DEF ApplyStale
  <2> QED BY <2>3 DEF LinkInv, LinkTypeOK, ApplyStale
<1>2. LinkConsistent'
  BY DEF LinkInv, LinkTypeOK, LinkConsistent, ApplyStale, Linked, Pair
<1> QED BY <1>1, <1>2 DEF LinkInv

LEMMA ForgetInv ==
  ASSUME LinkInv, NEW s \in Server, NEW t \in Server, s # t, Forget(s, t)
  PROVE  LinkInv'
<1>1. LinkTypeOK'
  <2>1. <<s, t>> \in Pair /\ stale[<<s, t>>] \in Nat
    BY PairIn DEF LinkInv, LinkTypeOK
  <2>2. stale[<<s, t>>] > 0
    BY DEF Forget
  <2>3. stale[<<s, t>>] - 1 \in Nat
    BY <2>1, <2>2
  <2> QED BY <2>1, <2>3 DEF LinkInv, LinkTypeOK, Forget
<1>2. LinkConsistent'
  BY DEF LinkInv, LinkConsistent, Forget
<1> QED BY <1>1, <1>2 DEF LinkInv

LEMMA NoticeInv ==
  ASSUME LinkInv, NEW s \in Server, NEW t \in Server, s # t, Notice(s, t)
  PROVE  LinkInv'
<1>1. LinkTypeOK'
  BY DEF LinkInv, LinkTypeOK, Notice
<1>2. LinkConsistent'
  BY DEF LinkInv, LinkTypeOK, LinkConsistent, Notice, Pair
<1> QED BY <1>1, <1>2 DEF LinkInv

LEMMA BreakInv ==
  ASSUME LinkInv, NEW s \in Server, NEW t \in Server, s # t, Break(s, t)
  PROVE  LinkInv'
<1>1. LinkTypeOK'
  <2>1. \A p \in Pair : stale[p] \in Nat /\ stale[p] + 1 \in Nat
    BY DEF LinkInv, LinkTypeOK
  <2> QED BY <2>1 DEF LinkInv, LinkTypeOK, Break, Lose
<1>2. LinkConsistent'
  BY DEF LinkInv, LinkTypeOK, LinkConsistent, Break, Lose, Ends, Pair
<1> QED BY <1>1, <1>2 DEF LinkInv

LEMMA KillLinksInv ==
  ASSUME LinkInv, NEW s \in Server, KillLinks(s)
  PROVE  LinkInv'
<1>1. LinkTypeOK'
  <2>1. \A p \in Pair : stale[p] \in Nat /\ stale[p] + 1 \in Nat
    BY DEF LinkInv, LinkTypeOK
  <2> QED BY <2>1 DEF LinkInv, LinkTypeOK, KillLinks
<1>2. LinkConsistent'
  BY DEF LinkInv, LinkTypeOK, LinkConsistent, KillLinks, Pair
<1> QED BY <1>1, <1>2 DEF LinkInv

LEMMA LinkNextInv == LinkInv /\ [LinkNext]_linkVars => LinkInv'
<1> SUFFICES ASSUME LinkInv, [LinkNext]_linkVars
             PROVE  LinkInv'
  OBVIOUS
<1>1. CASE UNCHANGED linkVars
  BY <1>1 DEF LinkInv, LinkTypeOK, LinkConsistent, linkVars
<1>2. CASE LinkNext
  <2>1. PICK s \in Server, t \in Server :
            \/ s # t /\ \/ Establish(s, t) \/ EstablishStale(s, t)
                        \/ Apply(s, t) \/ ApplyStale(s, t) \/ Forget(s, t)
                        \/ Notice(s, t) \/ Break(s, t)
            \/ KillLinks(s)
    BY <1>2 DEF LinkNext
  <2> QED BY <2>1, EstablishInv, EstablishStaleInv, ApplyInv, ApplyStaleInv, ForgetInv,
             NoticeInv, BreakInv, KillLinksInv
<1> QED BY <1>1, <1>2

\* For any servers, breaks and kills, the two ends of a peer connection agree on it: no
\* end keeps as live what the other does not hold or is about to apply
\* (apply_connection, send_to_cluster, the connector and listener tasks).
THEOREM LinksAgree == LinkSpec => [](LinkTypeOK /\ LinkConsistent)
<1>1. LinkSpec => []LinkInv
  BY LinkInitInv, LinkNextInv, PTL DEF LinkSpec
<1> QED BY <1>1, PTL DEF LinkInv
===============================================================================
