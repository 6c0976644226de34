--------------------------- MODULE OmniPaxosLeader ---------------------------
(***************************************************************************)
(* Leader election of the omnipaxos crate as the server uses it: tick,     *)
(* try_become_leader, get_current_leader.  The crate's source is not part  *)
(* of this repository.                                                     *)
(*                                                                         *)
(* A server knows the highest ballot it has promised, which is on disk;    *)
(* get_current_leader names the server of that ballot, whatever that       *)
(* server is doing.  A leader prepares with a ballot of its own, then a    *)
(* majority promises and it is in the Accept phase.  Which messages that   *)
(* takes is left out; Startup says who can exchange them.                  *)
(***************************************************************************)
EXTENDS Naturals, FiniteSetsExt

CONSTANT Server

VARIABLES ballot,   \* ballot[s]: the promised ballot: a number and its server, 0 if none
          phase     \* phase[s]: what s does with a ballot of its own

LeaderTypeOK == /\ ballot \in [Server -> [n : Nat, pid : Server \cup {0}]]
                /\ phase \in [Server -> {"follower", "prepare", "accept"}]

LeaderInit == /\ ballot = [s \in Server |-> [n |-> 0, pid |-> 0]]
              /\ phase = [s \in Server |-> "follower"]

\* get_current_leader of s names s; and with is_accept_phase.
Leads(s) == ballot[s].pid = s
Accepted(s) == Leads(s) /\ phase[s] = "accept"

Highest == Max({ ballot[t].n : t \in Server })

\* The code tries again until it leads, each time with a higher ballot.  Only the
\* attempts that matter are kept: s outbids what is known once, and again when it was
\* outbid itself.
try_become_leader(s) ==
    IF Leads(s) /\ phase[s] # "follower" /\ ballot[s].n = Highest
    THEN UNCHANGED <<ballot, phase>>
    ELSE /\ ballot' = [ballot EXCEPT ![s] = [n |-> Highest + 1, pid |-> s]]
         /\ phase' = [phase EXCEPT ![s] = "prepare"]

\* The majority Q promises the ballot of s.
Promote(s, Q) ==
    /\ Leads(s) /\ phase[s] = "prepare"
    /\ s \in Q /\ 2 * Cardinality(Q) > Cardinality(Server)
    /\ \A t \in Q \ {s} : ballot[t].n < ballot[s].n
    /\ ballot' = [t \in Server |-> IF t \in Q THEN ballot[s] ELSE ballot[t]]
    /\ phase' = [t \in Server |-> IF t = s THEN "accept"
                                  ELSE IF t \in Q THEN "follower" ELSE phase[t]]

\* t learns of the leader s.
Follow(s, t) ==
    /\ Accepted(s)
    /\ ballot[t].n < ballot[s].n
    /\ ballot' = [ballot EXCEPT ![t] = ballot[s]]
    /\ phase' = [phase EXCEPT ![t] = "follower"]

\* A killed process finds its promise again, and nothing else.
KillLeader(s) == /\ phase' = [phase EXCEPT ![s] = "follower"]
                 /\ UNCHANGED ballot
==============================================================================
