------------------------------ MODULE KVSnapshot ------------------------------
(***************************************************************************)
(* KVSnapshot (common.rs): the snapshot that the log library may keep in   *)
(* place of a decided prefix of the log.  The library creates a snapshot   *)
(* of the entries decided since the last one and merges it into that one.  *)
(* Command derives Entry without naming it, so no binary uses it yet.      *)
(***************************************************************************)
EXTENDS KVCommands, Sequences, Naturals

CONSTANT MaxEntries     \* bound: entries decided between two compactions

ASSUME MaxEntriesAssumption == MaxEntries \in Nat

VARIABLES snap,         \* the merged snapshot
          entries,      \* the commands decided since
          db            \* the state machine: what a server's map holds

vars == <<snap, entries, db>>

\* A map from a subset of the keys, and the keys to delete from what it is
\* merged into (the Vec of deleted_keys is only asked for its members).
Snapshot == [snapshotted : Database, deleted_keys : SUBSET Key]

EmptySnapshot == [snapshotted |-> EmptyDatabase, deleted_keys |-> {}]

\* Mutant of AddCommand: a Delete records its key and leaves it in the map.
AddCommandKeepsKey(s, cmd) ==
    CASE cmd.op = "Put" -> [s EXCEPT !.snapshotted[cmd.key] = cmd.value]
      [] cmd.op = "Delete" -> [s EXCEPT !.deleted_keys = @ \cup {cmd.key}]
      [] cmd.op = "Get" -> s

\* The loop body of create.  A Delete is remembered only if it finds no key.
AddCommand(s, cmd) ==
    CASE cmd.op = "Put" -> [s EXCEPT !.snapshotted[cmd.key] = cmd.value]
      [] cmd.op = "Delete" /\ s.snapshotted[cmd.key] # NoValue ->
            [s EXCEPT !.snapshotted[cmd.key] = NoValue]
      [] cmd.op = "Delete" /\ s.snapshotted[cmd.key] = NoValue ->
            [s EXCEPT !.deleted_keys = @ \cup {cmd.key}]
      [] cmd.op = "Get" -> s

\* The loop of create: what it has before each command and at its end.
AddCommands(cmds) ==
    LET s[i \in 0..Len(cmds)] ==
            IF i = 0 THEN EmptySnapshot ELSE AddCommand(s[i - 1], cmds[i])
    IN s

\* Mutant of create: the keys that were put back are not taken out again.
createNoRetain(cmds) == AddCommands(cmds)[Len(cmds)]

create(cmds) ==
    LET s == AddCommands(cmds)[Len(cmds)]
    IN [s EXCEPT !.deleted_keys = { k \in @ : s.snapshotted[k] = NoValue }]

\* Mutant of merge: the older snapshot wins over the delta.
mergeKeepsOld(s, delta) ==
    [snapshotted |-> [k \in Key |->
        CASE k \in delta.deleted_keys -> NoValue
          [] k \notin delta.deleted_keys /\ s.snapshotted[k] # NoValue -> s.snapshotted[k]
          [] k \notin delta.deleted_keys /\ s.snapshotted[k] = NoValue -> delta.snapshotted[k]],
     deleted_keys |-> {}]

merge(s, delta) ==
    [snapshotted |-> [k \in Key |->
        CASE k \in delta.deleted_keys -> NoValue
          [] k \notin delta.deleted_keys /\ delta.snapshotted[k] # NoValue ->
                delta.snapshotted[k]
          [] k \notin delta.deleted_keys /\ delta.snapshotted[k] = NoValue ->
                s.snapshotted[k]],
     deleted_keys |-> {}]

TypeOK == /\ snap \in Snapshot
          /\ entries \in Seq(KVCommand) /\ Len(entries) <= MaxEntries
          /\ db \in Database

Init == /\ snap = EmptySnapshot
        /\ entries = <<>>
        /\ db = EmptyDatabase

Decide(cmd) == /\ Len(entries) < MaxEntries
               /\ entries' = Append(entries, cmd)
               /\ db' = handle_command(db, cmd)
               /\ UNCHANGED snap

Compact == /\ entries # <<>>
           /\ snap' = merge(snap, create(entries))
           /\ entries' = <<>>
           /\ UNCHANGED db

Next == Compact \/ \E cmd \in KVCommand : Decide(cmd)

Spec == Init /\ [][Next]_vars

-------------------------------------------------------------------------------
\* The reference: the state machine run over the commands.
Replays(base, cmds) ==
    LET r[i \in 0..Len(cmds)] ==
            IF i = 0 THEN base ELSE handle_command(r[i - 1], cmds[i])
    IN r

Replay(base, cmds) == Replays(base, cmds)[Len(cmds)]

Merged(base, cmds) ==
    merge([snapshotted |-> base, deleted_keys |-> {}], create(cmds)).snapshotted

\* The commands that write key k.
Writes(k, cmds) == { i \in 1..Len(cmds) : cmds[i].key = k /\ cmds[i].op # "Get" }

\* The keys that cmds puts before it deletes them, and that stay deleted.
PutThenDeleted(cmds) ==
    { k \in Key : \E i, j \in Writes(k, cmds) :
                     /\ cmds[i].op = "Put" /\ cmds[j].op = "Delete"
                     /\ \A w \in Writes(k, cmds) : i <= w /\ w <= j }

\* A snapshot of a whole log (create, never merged) is the replay of that log.
CreateIsReplay == create(entries).snapshotted = Replay(EmptyDatabase, entries)

\* Merged into any snapshot, the delta of any run of commands gives the replay of
\* those commands for every key but those in PutThenDeleted.
MergeIsReplayForOthers ==
    \A base \in Database : \A k \in Key \ PutThenDeleted(entries) :
        Merged(base, entries)[k] = Replay(base, entries)[k]

\* However often the log is compacted, the snapshot and the entries after it give
\* every key of the map with its value: what is wrong is only a key too many.
NoWriteIsLost ==
    \A k \in Key : db[k] # NoValue => Replay(snap.snapshotted, entries)[k] = db[k]

\* Merging the delta of any run of commands is replaying them.
MergeIsReplay == \A base \in Database : Merged(base, entries) = Replay(base, entries)
===============================================================================
