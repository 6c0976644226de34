------------------------------- MODULE AtomicKV -------------------------------
(***************************************************************************)
(* What the replicated store promises its callers: it behaves as one map   *)
(* on which every command takes effect once, at one instant between the    *)
(* moment it is issued and the moment it is answered, and every answer is  *)
(* the one that instant determined.  A command may never take effect, and  *)
(* one that did may never be answered (the answer is dropped or lost).     *)
(***************************************************************************)
EXTENDS KVCommands

CONSTANT Command    \* records with a field kv_cmd in KVCommand

VARIABLES store,    \* the map
          issued,   \* the commands handed to the store
          executed, \* [command, reply]: the commands that took effect
          answered  \* the elements of executed whose caller has the reply

vars == <<store, issued, executed, answered>>

Init == /\ store = EmptyDatabase
        /\ issued = {}
        /\ executed = {}
        /\ answered = {}

Issue(c) == /\ c \notin issued
            /\ issued' = issued \cup {c}
            /\ UNCHANGED <<store, executed, answered>>

Execute(c) == /\ c \in issued
              /\ \A e \in executed : e.command # c
              /\ executed' = executed \cup
                    {[command |-> c, reply |-> ReplyTo(store, c.kv_cmd)]}
              /\ store' = handle_command(store, c.kv_cmd)
              /\ UNCHANGED <<issued, answered>>

Answer(e) == /\ e \in executed
             /\ answered' = answered \cup {e}
             /\ UNCHANGED <<store, issued, executed>>

Next == \/ \E c \in Command : Issue(c) \/ Execute(c)
        \/ \E e \in executed : Answer(e)

Spec == Init /\ [][Next]_vars
===============================================================================
