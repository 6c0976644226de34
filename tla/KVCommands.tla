------------------------------ MODULE KVCommands ------------------------------
(***************************************************************************)
(* The commands of the key-value store and the deterministic state machine *)
(* that every server runs over the decided log (database.rs, common.rs).   *)
(* An absent key of the HashMap is a key that maps to NoValue.             *)
(***************************************************************************)
CONSTANTS Key,      \* the keys in use
          Value,    \* the values a Put may carry
          NoValue   \* "this key is not in the map"

ASSUME NoValueAssumption == NoValue \notin Value

KVCommand == [op : {"Put"}, key : Key, value : Value]
             \cup [op : {"Delete", "Get"}, key : Key]

Database == [Key -> Value \cup {NoValue}]

EmptyDatabase == [k \in Key |-> NoValue]

\* Mutant of handle_command: a Delete makes the map forget that it has the key.
handle_commandDrops(db, cmd) ==
    CASE cmd.op = "Put"    -> [db EXCEPT ![cmd.key] = cmd.value]
      [] cmd.op = "Delete" -> [k \in Key \ {cmd.key} |-> db[k]]
      [] cmd.op = "Get"    -> db

\* The map after Database::handle_command.
handle_command(db, cmd) ==
    CASE cmd.op = "Put"    -> [db EXCEPT ![cmd.key] = cmd.value]
      [] cmd.op = "Delete" -> [db EXCEPT ![cmd.key] = NoValue]
      [] cmd.op = "Get"    -> db

Reply == [type : {"Write"}] \cup [type : {"Read"}, value : Value \cup {NoValue}]

\* What handle_command returns, as the ServerMessage the coordinator makes of
\* it: a Get reads the map as it stands, a Put or Delete is just confirmed.
ReplyTo(db, cmd) ==
    IF cmd.op = "Get" THEN [type |-> "Read", value |-> db[cmd.key]]
                      ELSE [type |-> "Write"]
===============================================================================
