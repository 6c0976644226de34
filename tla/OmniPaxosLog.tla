----------------------------- MODULE OmniPaxosLog -----------------------------
(***************************************************************************)
(* The omnipaxos crate as the server uses it: one replicated log.  Its     *)
(* source is not part of this repository; what is modelled is the          *)
(* interface OmniPaxosServer calls: append, handle_incoming,               *)
(* get_decided_idx and read_decided_suffix, over PersistentStorage.        *)
(*                                                                         *)
(* A command handed to append may be lost (a forwarded or buffered         *)
(* proposal is volatile), or be chosen at any later time, even after its   *)
(* proposer crashed, and is chosen at most once.  Servers agree on the     *)
(* chosen log; each has learned a prefix of it, and the length of that     *)
(* prefix is on disk (RocksDB), so a killed process finds it again.        *)
(***************************************************************************)
EXTENDS Naturals, Sequences

CONSTANTS Server,   \* the node ids of the cluster
          Command   \* common.rs, kv::Command

VARIABLES log,          \* the chosen commands, in log order
          proposed,     \* the commands ever given to append
          decided_idx   \* decided_idx[s]: get_decided_idx() at server s

logVars == <<log, proposed, decided_idx>>

LogTypeOK == /\ log \in Seq(Command)
             /\ proposed \subseteq Command
             /\ decided_idx \in [Server -> Nat]

LogInit == /\ log = <<>>
           /\ proposed = {}
           /\ decided_idx = [s \in Server |-> 0]

Chosen(c) == \E i \in 1..Len(log) : log[i] = c

append(c) == /\ proposed' = proposed \cup {c}
             /\ UNCHANGED <<log, decided_idx>>

\* A majority has accepted c at the next log position.
ChooseNext(c) == /\ c \in proposed
                 /\ ~ Chosen(c)
                 /\ log' = Append(log, c)
                 /\ UNCHANGED <<proposed, decided_idx>>

\* A message lets server s learn that the log is decided up to d.  Most
\* messages teach it nothing: then d is what it knew already.
handle_incoming(s, d) == /\ d \in decided_idx[s]..Len(log)
                         /\ decided_idx' = [decided_idx EXCEPT ![s] = d]
                         /\ UNCHANGED <<log, proposed>>
===============================================================================
