---------------------------- MODULE KVServerProofs ----------------------------
(***************************************************************************)
(* Theorems about KVServer for every set of servers and commands, every    *)
(* SNAPSHOT_INTERVAL, any number of kills and any pattern of disk errors.  *)
(* The inductive invariant is TypeOK /\ IndexInv, then StateInv over it,   *)
(* then ReplyInv over both: each layer is preserved given those before it. *)
(***************************************************************************)
EXTENDS KVServer, TLAPS

\* How the indices of one server stand to each other: the cursor of the loop,
\* the entries it was told of, the log, and the snapshot in memory and on disk.
ServerIndices(s) ==
    /\ decided_idx[s] <= Len(log)
    /\ current_decided_idx[s] <= decided_idx[s]
    /\ 1 <= entry_idx[s] /\ entry_idx[s] <= current_decided_idx[s] + 1
    /\ pc[s] # "apply" => entry_idx[s] = current_decided_idx[s] + 1
    /\ pc[s] = "down" => current_decided_idx[s] = 0 /\ snapshot_decided_idx[s] = 0
    /\ snapshot_decided_idx[s] <= decided_idx[s]
    /\ snapshot[s] # NoSnapshot =>
          /\ snapshot[s].decided_idx <= decided_idx[s]
          /\ pc[s] = "apply" => snapshot[s].decided_idx <= current_decided_idx[s]
    /\ snapshot_decided_idx[s] > 0 =>
          /\ snapshot[s] # NoSnapshot
          /\ snapshot_decided_idx[s] <= snapshot[s].decided_idx

IndexInv == \A s \in Server : ServerIndices(s)

\* state_after is the replay of the log, entry by entry.
HistoryIsReplay ==
    /\ state_after[0] = EmptyDatabase
    /\ \A i \in 1..Len(log) :
          state_after[i] = handle_command(state_after[i-1], log[i].kv_cmd)

StateInv == HistoryIsReplay /\ DatabaseIsLogPrefix /\ SnapshotIsLogPrefix

\* A server has replied neither to the entry it is at nor to a later one.
RepliesBehindCursor ==
    \A s \in Server : \A i \in 1..Len(replies[s]) :
        replies[s][i].entry < entry_idx[s]

ReplyInv == /\ RepliesMatchLog /\ NoReplySwallowed
            /\ RepliesInLogOrder /\ RepliesBehindCursor

-------------------------------------------------------------------------------
\* A command turns a map into a map and is answered with a reply.
LEMMA CommandTypes ==
    ASSUME NEW db \in Database, NEW cmd \in KVCommand
    PROVE  /\ handle_command(db, cmd) \in Database
           /\ ReplyTo(db, cmd) \in Reply
<1>1. CASE cmd.op = "Put"
  <2>1. cmd.key \in Key /\ cmd.value \in Value
    BY <1>1 DEF KVCommand
  <2> QED BY <1>1, <2>1 DEF handle_command, ReplyTo, Reply, Database
<1>2. CASE cmd.op = "Delete"
  <2>1. cmd.key \in Key
    BY <1>2 DEF KVCommand
  <2> QED BY <1>2, <2>1 DEF handle_command, ReplyTo, Reply, Database
<1>3. CASE cmd.op = "Get"
  <2>1. cmd.key \in Key
    BY <1>3 DEF KVCommand
  <2>2. db[cmd.key] \in Value \cup {NoValue}
    BY <2>1 DEF Database
  <2> QED BY <1>3, <2>2 DEF handle_command, ReplyTo, Reply
<1> QED BY <1>1, <1>2, <1>3 DEF KVCommand

LEMMA EmptyIsDatabase == EmptyDatabase \in Database
BY DEF EmptyDatabase, Database

\* What the choice of a command does to the log and to the replayed history.
LEMMA ChooseEffect ==
    ASSUME TypeOK, NEW c \in Command, Choose(c)
    PROVE  /\ log' \in Seq(Command)
           /\ Len(log') = Len(log) + 1
           /\ \A i \in 1..Len(log) : log'[i] = log[i]
           /\ log'[Len(log) + 1] = c
           /\ state_after' \in [0..Len(log') -> Database]
           /\ \A i \in 0..Len(log) : state_after'[i] = state_after[i]
           /\ state_after'[Len(log) + 1] =
                 handle_command(state_after[Len(log)], c.kv_cmd)
<1>1. log \in Seq(Command) /\ log' = Append(log, c)
  BY DEF TypeOK, LogTypeOK, Choose, ChooseNext
<1>2. Len(log) \in Nat /\ Len(log') = Len(log) + 1
  BY <1>1
<1>3. state_after \in [0..Len(log) -> Database]
  BY DEF TypeOK
<1>4. state_after[Len(log)] \in Database /\ c.kv_cmd \in KVCommand
  BY <1>2, <1>3, ServerAssumption
<1>5. handle_command(state_after[Len(log)], c.kv_cmd) \in Database
  BY <1>4, CommandTypes
<1>6. state_after' = [i \in 0..Len(log)+1 |->
          IF i <= Len(log) THEN state_after[i]
                           ELSE handle_command(state_after[Len(log)], c.kv_cmd)]
  BY DEF Choose
<1>7. state_after' \in [0..Len(log)+1 -> Database]
  BY <1>2, <1>3, <1>5, <1>6
<1> QED BY <1>1, <1>2, <1>6, <1>7

\* The entry the loop is at is in the log, and the types of what it computes.
LEMMA EntryTypes ==
    ASSUME TypeOK, IndexInv, NEW s \in Server, AtEntry(s)
    PROVE  /\ entry_idx[s] \in 1..Len(log)
           /\ log[entry_idx[s]] \in Command
           /\ log[entry_idx[s]].kv_cmd \in KVCommand
           /\ handle_command(database[s], log[entry_idx[s]].kv_cmd) \in Database
           /\ ReplyTo(database[s], log[entry_idx[s]].kv_cmd) \in Reply
<1>1. entry_idx[s] \in 1..Len(log)
  BY DEF TypeOK, LogTypeOK, IndexInv, ServerIndices, AtEntry
<1>2. log[entry_idx[s]] \in Command
  BY <1>1 DEF TypeOK, LogTypeOK
<1>3. database[s] \in Database /\ log[entry_idx[s]].kv_cmd \in KVCommand
  BY <1>2, ServerAssumption DEF TypeOK
<1> QED BY <1>1, <1>2, <1>3, CommandTypes

-------------------------------------------------------------------------------
LEMMA TypeInit == Init => TypeOK
<1> SUFFICES ASSUME Init PROVE TypeOK
  OBVIOUS
<1>1. LogTypeOK /\ Len(log) = 0
  BY DEF Init, LogInit, LogTypeOK
<1>2. replies \in [Server -> Seq(SentReply)]
  BY DEF Init
<1>3. database \in [Server -> Database] /\ state_after \in [0..Len(log) -> Database]
  BY <1>1, EmptyIsDatabase DEF Init
<1> QED BY <1>1, <1>2, <1>3 DEF Init, TypeOK

LEMMA TypeStep == TypeOK /\ IndexInv /\ [Next]_vars => TypeOK'
<1> SUFFICES ASSUME TypeOK, IndexInv, [Next]_vars PROVE TypeOK'
  OBVIOUS
<1> USE DEF TypeOK, LogTypeOK, logVars, serverVars, replyVars
<1>1. ASSUME NEW s \in Server, NEW c \in Command, HandleClientMessage(s, c)
      PROVE TypeOK'
  BY <1>1 DEF HandleClientMessage, append_to_log, append
<1>2. ASSUME NEW c \in Command, Choose(c)
      PROVE TypeOK'
  BY <1>2, ChooseEffect DEF Choose, ChooseNext
<1>3. ASSUME NEW s \in Server, NEW d \in decided_idx[s]..Len(log),
             HandleClusterMessage(s, d)
      PROVE TypeOK'
  <2>1. d \in Nat
    OBVIOUS
  <2>2. /\ decided_idx' \in [Server -> Nat]
        /\ current_decided_idx' \in [Server -> Nat]
        /\ entry_idx' \in [Server -> Nat]
        /\ pc' \in [Server -> {"down", "select", "apply"}]
    BY <1>3, <2>1 DEF HandleClusterMessage, BeginBatch, handle_incoming
  <2> QED BY <1>3, <2>2 DEF HandleClusterMessage, BeginBatch, handle_incoming
<1>4. ASSUME NEW s \in Server, SkipEntry(s)
      PROVE TypeOK'
  <2>1. entry_idx' \in [Server -> Nat]
    BY <1>4 DEF SkipEntry
  <2> QED BY <1>4, <2>1 DEF SkipEntry
<1>5. ASSUME NEW s \in Server, ApplyEntry(s)
      PROVE TypeOK'
  <2> DEFINE command == log[entry_idx[s]]
             response == [entry |-> entry_idx[s],
                          reply |-> ReplyTo(database[s], command.kv_cmd)]
  <2>1. AtEntry(s)
    BY <1>5 DEF ApplyEntry
  <2>2. /\ handle_command(database[s], command.kv_cmd) \in Database
        /\ response \in SentReply
    BY <2>1, EntryTypes DEF SentReply
  <2>3. database' \in [Server -> Database]
    BY <1>5, <2>2 DEF ApplyEntry
  <2>4. /\ replies' \in [Server -> Seq(SentReply)]
        /\ responses' \subseteq SentReply /\ answered' \subseteq responses'
    <3>1. CASE command.coordinator_id = s
      <4>1. /\ replies' = [replies EXCEPT ![s] = Append(@, response)]
            /\ responses' = responses \cup {response}
            /\ answered' \in {answered, answered \cup {response}}
        BY <1>5, <3>1 DEF ApplyEntry, send_to_client
      <4>2. Append(replies[s], response) \in Seq(SentReply)
        BY <2>2
      <4> HIDE DEF response
      <4> QED BY <2>2, <4>1, <4>2
    <3>2. CASE command.coordinator_id # s
      BY <1>5, <3>2 DEF ApplyEntry
    <3> QED BY <3>1, <3>2
  <2>5. UNCHANGED <<logVars, pc, current_decided_idx, snapshot_decided_idx,
                    entries_since_snapshot, snapshot, crashes, state_after>>
    BY <1>5 DEF ApplyEntry
  <2>6. /\ new_entries_applied' \in [Server -> Nat]
        /\ entry_idx' \in [Server -> Nat]
    <3>1. /\ new_entries_applied' = [new_entries_applied EXCEPT ![s] = @ + 1]
          /\ entry_idx' = [entry_idx EXCEPT ![s] = @ + 1]
      BY <1>5 DEF ApplyEntry
    <3>2. new_entries_applied \in [Server -> Nat] /\ entry_idx \in [Server -> Nat]
      OBVIOUS
    <3> HIDE DEF TypeOK
    <3> QED BY <3>1, <3>2
  <2> HIDE DEF command, response
  <2> QED BY <2>3, <2>4, <2>5, <2>6
<1>6. ASSUME NEW s \in Server, NoSave(s)
      PROVE TypeOK'
  <2>1. Unsaved(s) \in Nat
    BY DEF Unsaved
  <2> QED BY <1>6, <2>1 DEF NoSave, EndBatch
<1>7. ASSUME NEW s \in Server, SaveSnapshot(s)
      PROVE TypeOK'
  BY <1>7 DEF SaveSnapshot, EndBatch, DatabaseSnapshot
<1>8. ASSUME NEW s \in Server, SaveSnapshotFails(s)
      PROVE TypeOK'
  BY <1>8 DEF SaveSnapshotFails, EndBatch
<1>9. ASSUME NEW s \in Server, Crash(s)
      PROVE TypeOK'
  <2>1. replies' \in [Server -> Seq(SentReply)]
    <3>1. <<>> \in Seq(SentReply)
      OBVIOUS
    <3> QED BY <1>9, <3>1 DEF Crash
  <2>2. database' \in [Server -> Database]
    BY <1>9, EmptyIsDatabase DEF Crash
  <2>3. /\ pc' \in [Server -> {"select", "apply", "down"}]
        /\ current_decided_idx' \in [Server -> Nat]
        /\ snapshot_decided_idx' \in [Server -> Nat]
        /\ entries_since_snapshot' \in [Server -> Nat]
    BY <1>9 DEF Crash
  <2>4. entry_idx' \in [Server -> Nat] /\ new_entries_applied' \in [Server -> Nat]
    BY <1>9 DEF Crash
  <2>5. crashes' \in Nat
    BY <1>9 DEF Crash
  <2> QED BY <1>9, <2>1, <2>2, <2>3, <2>4, <2>5 DEF Crash
<1>10. ASSUME NEW s \in Server, Recover(s)
       PROVE TypeOK'
  <2>1. snapshot[s].db \in Database /\ snapshot[s].decided_idx \in Nat
    BY <1>10 DEF Recover, DatabaseSnapshot
  <2> QED BY <1>10, <2>1 DEF Recover, Start
<1>11. ASSUME NEW s \in Server, StartFresh(s)
       PROVE TypeOK'
  BY <1>11, EmptyIsDatabase DEF StartFresh, Start
<1>12. CASE UNCHANGED vars
  BY <1>12 DEF vars
<1> QED BY <1>1, <1>2, <1>3, <1>4, <1>5, <1>6, <1>7, <1>8, <1>9, <1>10, <1>11,
           <1>12 DEF Next, HandleDecidedEntries

-------------------------------------------------------------------------------
LEMMA IndexInit == Init => IndexInv
<1> SUFFICES ASSUME Init, NEW s \in Server PROVE ServerIndices(s)
  BY DEF IndexInv
<1>1. /\ Len(log) = 0 /\ decided_idx[s] = 0 /\ current_decided_idx[s] = 0
      /\ entry_idx[s] = 1 /\ snapshot_decided_idx[s] = 0
      /\ pc[s] = "select" /\ snapshot[s] = NoSnapshot
  BY DEF Init, LogInit
<1> QED BY <1>1 DEF ServerIndices

LEMMA IndexStep == TypeOK /\ TypeOK' /\ IndexInv /\ [Next]_vars => IndexInv'
<1> SUFFICES ASSUME TypeOK, TypeOK', IndexInv, [Next]_vars,
                    NEW t \in Server
             PROVE  ServerIndices(t)'
  BY DEF IndexInv
<1>a. ServerIndices(t)
  BY DEF IndexInv
<1>b. /\ Len(log) \in Nat /\ decided_idx[t] \in Nat /\ current_decided_idx[t] \in Nat
      /\ entry_idx[t] \in Nat /\ snapshot_decided_idx[t] \in Nat
      /\ snapshot[t] # NoSnapshot => snapshot[t].decided_idx \in Nat
  <2>1. log \in Seq(Command) /\ decided_idx \in [Server -> Nat]
    BY DEF TypeOK, LogTypeOK
  <2>2. snapshot[t] \in DatabaseSnapshot \cup {NoSnapshot}
    BY DEF TypeOK
  <2>3. snapshot[t] # NoSnapshot => snapshot[t].decided_idx \in Nat
    BY <2>2 DEF DatabaseSnapshot
  <2>4. current_decided_idx[t] \in Nat /\ entry_idx[t] \in Nat
        /\ snapshot_decided_idx[t] \in Nat
    BY DEF TypeOK
  <2> QED BY <2>1, <2>3, <2>4
<1> USE DEF TypeOK, LogTypeOK, ServerIndices, logVars, serverVars
<1>1. ASSUME NEW s \in Server, NEW c \in Command, HandleClientMessage(s, c)
      PROVE ServerIndices(t)'
  BY <1>a, <1>1 DEF HandleClientMessage, append_to_log, append
<1>2. ASSUME NEW c \in Command, Choose(c)
      PROVE ServerIndices(t)'
  <2>1. Len(log') = Len(log) + 1
    BY <1>2, ChooseEffect
  <2>2. UNCHANGED <<decided_idx, pc, current_decided_idx, entry_idx, snapshot,
                    snapshot_decided_idx>>
    BY <1>2 DEF Choose, ChooseNext
  <2> HIDE DEF TypeOK
  <2> QED BY <1>a, <1>b, <2>1, <2>2
<1>3. ASSUME NEW s \in Server, NEW d \in decided_idx[s]..Len(log),
             HandleClusterMessage(s, d)
      PROVE ServerIndices(t)'
  <2>1. d \in Nat /\ decided_idx[s] <= d /\ d <= Len(log)
    <3>1. decided_idx[s] \in Nat
      OBVIOUS
    <3> QED BY <1>b, <3>1
  <2>2. CASE s = t
    <3>1. /\ decided_idx'[t] = d
          /\ current_decided_idx'[t] = d
          /\ entry_idx'[t] = current_decided_idx[t] + 1
          /\ pc'[t] = "apply"
          /\ current_decided_idx[t] < d
          /\ UNCHANGED <<log, snapshot, snapshot_decided_idx>>
      BY <1>3, <2>2 DEF HandleClusterMessage, BeginBatch, handle_incoming
    <3> HIDE DEF TypeOK
    <3> QED BY <1>a, <1>b, <2>1, <2>2, <3>1
  <2>3. CASE s # t
    <3>1. /\ decided_idx'[t] = decided_idx[t]
          /\ current_decided_idx'[t] = current_decided_idx[t]
          /\ entry_idx'[t] = entry_idx[t]
          /\ pc'[t] = pc[t]
          /\ UNCHANGED <<log, snapshot, snapshot_decided_idx>>
      BY <1>3, <2>3 DEF HandleClusterMessage, BeginBatch, handle_incoming
    <3> QED BY <1>a, <3>1
  <2> QED BY <2>2, <2>3
<1>4. ASSUME NEW s \in Server, AtEntry(s),
             entry_idx' = [entry_idx EXCEPT ![s] = @ + 1],
             UNCHANGED <<logVars, pc, current_decided_idx, snapshot_decided_idx,
                         snapshot>>
      PROVE ServerIndices(t)'
  <2>1. CASE s = t
    <3>1. entry_idx'[t] = entry_idx[t] + 1
      BY <1>4, <2>1
    <3>2. pc[t] = "apply" /\ entry_idx[t] <= current_decided_idx[t]
      BY <1>4, <2>1 DEF AtEntry
    <3>3. /\ pc'[t] = pc[t] /\ decided_idx'[t] = decided_idx[t]
          /\ current_decided_idx'[t] = current_decided_idx[t]
          /\ snapshot_decided_idx'[t] = snapshot_decided_idx[t]
          /\ snapshot'[t] = snapshot[t] /\ Len(log') = Len(log)
      BY <1>4
    <3> HIDE DEF TypeOK
    <3> QED BY <1>a, <1>b, <3>1, <3>2, <3>3
  <2>2. CASE s # t
    <3>1. entry_idx'[t] = entry_idx[t]
      BY <1>4, <2>2
    <3> QED BY <1>a, <1>4, <3>1
  <2> QED BY <2>1, <2>2
<1>5. ASSUME NEW s \in Server, NEW n, AtLoopEnd(s), EndBatch(s, n)
      PROVE /\ pc'[t] = IF s = t THEN "select" ELSE pc[t]
            /\ s = t => entry_idx[t] = current_decided_idx[t] + 1
            /\ UNCHANGED <<log, decided_idx, current_decided_idx, entry_idx,
                           snapshot_decided_idx>>
  <2>1. pc'[t] = IF s = t THEN "select" ELSE pc[t]
    BY <1>5 DEF EndBatch
  <2>2. s = t => entry_idx[t] = current_decided_idx[t] + 1
    <3> HIDE DEF TypeOK
    <3>1. entry_idx[s] > current_decided_idx[s]
      BY <1>5 DEF AtLoopEnd
    <3> QED BY <3>1, <1>a, <1>b
  <2> QED BY <1>5, <2>1, <2>2 DEF EndBatch
<1>6. ASSUME NEW s \in Server, NEW n, AtLoopEnd(s), EndBatch(s, n), UNCHANGED snapshot
      PROVE ServerIndices(t)'
  <2> HIDE DEF TypeOK
  <2> QED BY <1>a, <1>b, <1>5, <1>6
<1>7. ASSUME NEW s \in Server, SaveSnapshot(s)
      PROVE ServerIndices(t)'
  <2>1. AtLoopEnd(s) /\ EndBatch(s, 0)
    BY <1>7 DEF SaveSnapshot, EndBatch
  <2>2. IF s = t THEN /\ snapshot'[t] # NoSnapshot
                      /\ snapshot'[t].decided_idx = current_decided_idx[t]
                 ELSE snapshot'[t] = snapshot[t]
    <3>1. snapshot \in [Server -> DatabaseSnapshot \cup {NoSnapshot}]
      OBVIOUS
    <3>2. database[s] \in Database /\ current_decided_idx[s] \in Nat
      OBVIOUS
    <3>3. snapshot' = [snapshot EXCEPT ![s] = [db |-> database[s],
                                              decided_idx |-> current_decided_idx[s]]]
      BY <1>7 DEF SaveSnapshot
    <3>4. [db |-> database[s], decided_idx |-> current_decided_idx[s]] # NoSnapshot
      BY <3>2, NoSnapshotAssumption
    <3> HIDE DEF TypeOK, ServerIndices
    <3> QED BY <3>1, <3>3, <3>4
  <2> HIDE DEF TypeOK
  <2>3. CASE s = t
    <3>1. pc'[t] = "select" /\ entry_idx[t] = current_decided_idx[t] + 1
      BY <1>5, <2>1, <2>3
    <3>2. snapshot_decided_idx[t] <= current_decided_idx[t]
      BY <1>a, <1>b, <1>7, <2>3 DEF SaveSnapshot, EndBatch, AtLoopEnd
    <3> QED BY <1>a, <1>b, <1>5, <2>1, <2>2, <2>3, <3>1, <3>2
  <2>4. CASE s # t
    BY <1>a, <1>5, <2>1, <2>2, <2>4
  <2> QED BY <2>3, <2>4
<1>8. ASSUME NEW s \in Server, Crash(s)
      PROVE ServerIndices(t)'
  <2>1. UNCHANGED <<log, decided_idx, snapshot>>
    BY <1>8 DEF Crash
  <2>2. IF s = t THEN /\ pc'[t] = "down" /\ current_decided_idx'[t] = 0
                      /\ snapshot_decided_idx'[t] = 0 /\ entry_idx'[t] = 1
        ELSE /\ pc'[t] = pc[t] /\ current_decided_idx'[t] = current_decided_idx[t]
             /\ snapshot_decided_idx'[t] = snapshot_decided_idx[t]
             /\ entry_idx'[t] = entry_idx[t]
    <3>1. /\ pc' = [pc EXCEPT ![s] = "down"]
          /\ current_decided_idx' = [current_decided_idx EXCEPT ![s] = 0]
          /\ snapshot_decided_idx' = [snapshot_decided_idx EXCEPT ![s] = 0]
          /\ entry_idx' = [entry_idx EXCEPT ![s] = 1]
      BY <1>8 DEF Crash
    <3> HIDE DEF ServerIndices
    <3> QED BY <3>1
  <2> HIDE DEF TypeOK
  <2> QED BY <1>a, <1>b, <2>1, <2>2
\* new(), with or without the snapshot.
<1>9. ASSUME NEW s \in Server, NEW db, NEW idx \in Nat, Start(s, db, idx),
             idx > 0 => snapshot[s] # NoSnapshot /\ idx <= snapshot[s].decided_idx
      PROVE ServerIndices(t)'
  <2>1. UNCHANGED <<log, decided_idx, current_decided_idx, entry_idx, snapshot>>
    BY <1>9 DEF Start
  <2>2. IF s = t THEN /\ pc[t] = "down" /\ pc'[t] = "select"
                      /\ snapshot_decided_idx'[t] = idx
        ELSE pc'[t] = pc[t] /\ snapshot_decided_idx'[t] = snapshot_decided_idx[t]
    BY <1>9 DEF Start
  <2> HIDE DEF TypeOK
  <2>3. CASE s = t
    BY <1>a, <1>b, <1>9, <2>1, <2>2, <2>3
  <2>4. CASE s # t
    BY <1>a, <2>1, <2>2, <2>4
  <2> QED BY <2>3, <2>4
<1>10. ASSUME NEW s \in Server, Recover(s) \/ StartFresh(s)
       PROVE ServerIndices(t)'
  <2>1. snapshot[s] # NoSnapshot => snapshot[s].decided_idx \in Nat
    BY DEF DatabaseSnapshot
  <2> HIDE DEF TypeOK, ServerIndices
  <2>2. CASE Recover(s)
    <3>1. /\ snapshot[s] # NoSnapshot
          /\ Start(s, snapshot[s].db, snapshot[s].decided_idx)
      BY <2>2 DEF Recover
    <3>2. snapshot[s].decided_idx \in Nat /\ snapshot[s].decided_idx <= snapshot[s].decided_idx
      BY <2>1, <3>1
    <3> QED BY <1>9, <3>1, <3>2
  <2>3. CASE StartFresh(s)
    BY <1>9, <2>3 DEF StartFresh
  <2> QED BY <1>10, <2>2, <2>3
<1>11. CASE UNCHANGED vars
  BY <1>a, <1>11 DEF vars
<1>12. ASSUME NEW s \in Server, HandleDecidedEntries(s)
       PROVE ServerIndices(t)'
  BY <1>4, <1>6, <1>7, <1>12
     DEF HandleDecidedEntries, SkipEntry, ApplyEntry, NoSave, SaveSnapshotFails, EndBatch
<1> QED BY <1>1, <1>2, <1>3, <1>8, <1>10, <1>11, <1>12 DEF Next

\* Every reachable state is well typed: OmniPaxosServer's fields, the snapshot
\* files and the replies never leave their domains.
THEOREM TypeCorrect == Spec => [](TypeOK /\ IndexInv)
<1>1. Init => TypeOK /\ IndexInv
  BY TypeInit, IndexInit
<1>2. TypeOK /\ IndexInv /\ [Next]_vars => (TypeOK /\ IndexInv)'
  BY TypeStep, IndexStep
<1> QED BY <1>1, <1>2, PTL DEF Spec

-------------------------------------------------------------------------------
\* On a disk that works, the two counters make up exactly what the loop has passed
\* and the snapshot lacks; while the loop is inside what the snapshot holds, they
\* are 0 and the snapshot is the one the server started from.
CountersAreUnsaved(s) ==
    /\ entries_since_snapshot[s] = 0 \/ entries_since_snapshot[s] < SNAPSHOT_INTERVAL
    /\ pc[s] # "apply" => new_entries_applied[s] = 0
    /\ pc[s] = "down" => entries_since_snapshot[s] = 0
    /\ pc[s] # "down" =>
          IF Saved(s) < entry_idx[s]
          THEN entry_idx[s] - 1 = Saved(s) + Unsaved(s)
          ELSE Unsaved(s) = 0 /\ snapshot_decided_idx[s] = Saved(s)

CountersInv == ~ DiskErrors => \A s \in Server : CountersAreUnsaved(s)

LEMMA CountersInit == Init => CountersInv
<1> SUFFICES ASSUME Init, NEW s \in Server PROVE CountersAreUnsaved(s)
  BY DEF CountersInv
<1>1. /\ entries_since_snapshot[s] = 0 /\ new_entries_applied[s] = 0
      /\ entry_idx[s] = 1 /\ pc[s] = "select" /\ snapshot[s] = NoSnapshot
  BY DEF Init
<1> QED BY <1>1 DEF CountersAreUnsaved, Saved, Unsaved

LEMMA CountersStep ==
    TypeOK /\ IndexInv /\ CountersInv /\ [Next]_vars => CountersInv'
<1> SUFFICES ASSUME TypeOK, IndexInv, CountersInv, [Next]_vars, ~ DiskErrors,
                    NEW t \in Server
             PROVE  CountersAreUnsaved(t)'
  BY DEF CountersInv
<1>a. CountersAreUnsaved(t) /\ ServerIndices(t)
  BY DEF CountersInv, IndexInv
<1>b. /\ current_decided_idx[t] \in Nat /\ snapshot_decided_idx[t] \in Nat
      /\ entries_since_snapshot[t] \in Nat /\ new_entries_applied[t] \in Nat
      /\ entry_idx[t] \in Nat /\ SNAPSHOT_INTERVAL \in Nat
      /\ snapshot[t] # NoSnapshot => snapshot[t].decided_idx \in Nat
      /\ Saved(t) \in Nat
  BY ServerAssumption DEF TypeOK, DatabaseSnapshot, Saved
<1>c. ASSUME UNCHANGED <<pc[t], entries_since_snapshot[t], new_entries_applied[t],
                         entry_idx[t], snapshot_decided_idx[t], snapshot[t]>>
      PROVE CountersAreUnsaved(t)'
  BY <1>a, <1>c DEF CountersAreUnsaved, Saved, Unsaved
<1>t. /\ pc \in [Server -> {"down", "select", "apply"}]
      /\ entry_idx \in [Server -> Nat] /\ new_entries_applied \in [Server -> Nat]
      /\ current_decided_idx \in [Server -> Nat]
      /\ snapshot_decided_idx \in [Server -> Nat]
      /\ entries_since_snapshot \in [Server -> Nat]
      /\ snapshot \in [Server -> DatabaseSnapshot \cup {NoSnapshot}]
      /\ database \in [Server -> Database]
  BY DEF TypeOK
<1> HIDE DEF TypeOK
<1>1. ASSUME NEW s \in Server, NEW c \in Command, HandleClientMessage(s, c)
      PROVE CountersAreUnsaved(t)'
  BY <1>c, <1>1 DEF HandleClientMessage, serverVars
<1>2. ASSUME NEW c \in Command, Choose(c)
      PROVE CountersAreUnsaved(t)'
  BY <1>c, <1>2 DEF Choose, serverVars
<1>3. ASSUME NEW s \in Server, NEW d \in decided_idx[s]..Len(log),
             HandleClusterMessage(s, d)
      PROVE CountersAreUnsaved(t)'
  <2>1. CASE s = t
    <3>1. /\ pc[t] = "select" /\ pc'[t] = "apply"
          /\ entry_idx'[t] = current_decided_idx[t] + 1
          /\ UNCHANGED <<entries_since_snapshot, new_entries_applied,
                         snapshot_decided_idx, snapshot>>
      BY <1>t, <1>3, <2>1 DEF HandleClusterMessage, BeginBatch
    <3>2. entry_idx'[t] = entry_idx[t]
      BY <1>a, <3>1 DEF ServerIndices
    <3> QED BY <1>a, <3>1, <3>2 DEF CountersAreUnsaved, Saved, Unsaved
  <2>2. CASE s # t
    BY <1>c, <1>t, <1>3, <2>2 DEF HandleClusterMessage, BeginBatch
  <2> QED BY <2>1, <2>2
<1>4. ASSUME NEW s \in Server, SkipEntry(s)
      PROVE CountersAreUnsaved(t)'
  <2>1. CASE s = t
    <3>1. /\ pc[t] = "apply" /\ pc'[t] = pc[t]
          /\ entry_idx'[t] = entry_idx[t] + 1
          /\ entry_idx[t] <= snapshot_decided_idx[t]
          /\ UNCHANGED <<entries_since_snapshot, new_entries_applied,
                         snapshot_decided_idx, snapshot>>
      BY <1>t, <1>4, <2>1 DEF SkipEntry, AtEntry, InSnapshot
    <3>2. 1 <= entry_idx[t] /\ snapshot_decided_idx[t] <= Saved(t)
      BY <1>a, <1>b, <3>1 DEF ServerIndices, Saved
    <3>3. Saved(t)' = Saved(t) /\ Unsaved(t)' = Unsaved(t)
      BY <3>1 DEF Saved, Unsaved
    <3>4. Unsaved(t) = 0 /\ entry_idx[t] <= Saved(t)
      <4>1. CASE entry_idx[t] = Saved(t) + 1
        BY <1>b, <3>1, <3>2, <4>1
      <4>2. CASE entry_idx[t] <= Saved(t)
        BY <1>a, <1>b, <3>1, <4>2 DEF CountersAreUnsaved
      <4> QED BY <1>b, <3>1, <3>2, <4>1, <4>2
    <3>5. CASE entry_idx[t] = Saved(t)
      BY <1>a, <1>b, <3>1, <3>3, <3>4, <3>5 DEF CountersAreUnsaved
    <3>6. CASE entry_idx[t] < Saved(t)
      BY <1>a, <1>b, <3>1, <3>3, <3>4, <3>6 DEF CountersAreUnsaved
    <3> QED BY <1>b, <3>4, <3>5, <3>6
  <2>2. CASE s # t
    BY <1>c, <1>t, <1>4, <2>2 DEF SkipEntry
  <2> QED BY <2>1, <2>2
<1>5. ASSUME NEW s \in Server, ApplyEntry(s)
      PROVE CountersAreUnsaved(t)'
  <2>1. CASE s = t
    <3>1. /\ pc[t] = "apply" /\ pc'[t] = pc[t]
          /\ entry_idx'[t] = entry_idx[t] + 1
          /\ new_entries_applied'[t] = new_entries_applied[t] + 1
          /\ snapshot_decided_idx[t] < entry_idx[t]
          /\ UNCHANGED <<entries_since_snapshot, snapshot_decided_idx, snapshot>>
      BY <1>t, <1>5, <1>b, <2>1 DEF ApplyEntry, AtEntry, InSnapshot
    <3>2. Saved(t)' = Saved(t) /\ Unsaved(t)' = Unsaved(t) + 1
      BY <1>b, <3>1 DEF Saved, Unsaved
    <3>3. Unsaved(t) \in Nat /\ Saved(t) < entry_idx[t]
      BY <1>a, <1>b, <3>1 DEF CountersAreUnsaved, Unsaved
    <3>4. entry_idx[t] - 1 = Saved(t) + Unsaved(t)
      BY <1>a, <3>1, <3>3 DEF CountersAreUnsaved
    <3>5. /\ Saved(t)' < entry_idx'[t]
          /\ entry_idx'[t] - 1 = Saved(t)' + Unsaved(t)'
      BY <1>b, <3>1, <3>2, <3>3, <3>4
    <3> QED BY <1>a, <3>1, <3>5 DEF CountersAreUnsaved
  <2>2. CASE s # t
    BY <1>c, <1>t, <1>5, <2>2 DEF ApplyEntry
  <2> QED BY <2>1, <2>2
<1>6. ASSUME NEW s \in Server, NoSave(s)
      PROVE CountersAreUnsaved(t)'
  <2>1. CASE s = t
    <3>1. /\ pc[t] = "apply" /\ pc'[t] = "select"
          /\ entries_since_snapshot'[t] = entries_since_snapshot[t] + new_entries_applied[t]
          /\ new_entries_applied'[t] = 0
          /\ UNCHANGED <<entry_idx, snapshot_decided_idx, snapshot>>
      BY <1>t, <1>6, <2>1 DEF NoSave, EndBatch, AtLoopEnd, Unsaved
    <3>2. \/ new_entries_applied[t] = 0
          \/ entries_since_snapshot[t] + new_entries_applied[t] < SNAPSHOT_INTERVAL
      BY <1>t, <1>6, <1>b, <2>1 DEF NoSave, SaveDue, Unsaved
    <3> QED BY <1>a, <1>b, <3>1, <3>2 DEF CountersAreUnsaved, Saved, Unsaved
  <2>2. CASE s # t
    BY <1>c, <1>t, <1>6, <2>2 DEF NoSave, EndBatch
  <2> QED BY <2>1, <2>2
<1>7. ASSUME NEW s \in Server, SaveSnapshot(s)
      PROVE CountersAreUnsaved(t)'
  <2>1. CASE s = t
    <3>1. /\ pc'[t] = "select" /\ current_decided_idx[t] < entry_idx[t]
          /\ entries_since_snapshot'[t] = 0 /\ new_entries_applied'[t] = 0
          /\ entry_idx'[t] = entry_idx[t]
          /\ snapshot'[t] = [db |-> database[t],
                             decided_idx |-> current_decided_idx[t]]
      BY <1>t, <1>7, <1>b, <2>1 DEF SaveSnapshot, EndBatch, AtLoopEnd
    <3>2. entry_idx[t] - 1 = current_decided_idx[t]
      BY <1>a, <1>b, <3>1 DEF ServerIndices
    <3>3. snapshot'[t] # NoSnapshot
      BY <3>1, <1>b, <1>t, NoSnapshotAssumption
    <3>4. Saved(t)' = current_decided_idx[t]
      BY <3>1, <3>3 DEF Saved
    <3> QED BY <1>b, <3>1, <3>2, <3>4 DEF CountersAreUnsaved, Unsaved
  <2>2. CASE s # t
    BY <1>c, <1>t, <1>7, <2>2 DEF SaveSnapshot, EndBatch
  <2> QED BY <2>1, <2>2
<1>8. ASSUME NEW s \in Server, Crash(s)
      PROVE CountersAreUnsaved(t)'
  <2>1. CASE s = t
    <3>1. /\ pc'[t] = "down" /\ entries_since_snapshot'[t] = 0
          /\ new_entries_applied'[t] = 0
      BY <1>t, <1>8, <2>1 DEF Crash
    <3> QED BY <3>1 DEF CountersAreUnsaved
  <2>2. CASE s # t
    BY <1>c, <1>t, <1>8, <2>2 DEF Crash
  <2> QED BY <2>1, <2>2
<1>9. ASSUME NEW s \in Server, NEW db, NEW idx, Start(s, db, idx),
             idx = Saved(s)
      PROVE CountersAreUnsaved(t)'
  <2>1. CASE s = t
    <3>1. /\ pc[t] = "down" /\ pc'[t] = "select"
          /\ snapshot_decided_idx'[t] = Saved(t)
          /\ UNCHANGED <<entries_since_snapshot, new_entries_applied, entry_idx,
                         snapshot>>
      BY <1>t, <1>9, <2>1 DEF Start
    <3>2. entry_idx[t] = 1
      BY <1>a, <3>1 DEF ServerIndices
    <3>3. entries_since_snapshot[t] = 0 /\ new_entries_applied[t] = 0
      BY <1>a, <3>1 DEF CountersAreUnsaved
    <3>4. Saved(t)' = Saved(t)
      BY <3>1 DEF Saved
    <3> QED BY <1>b, <3>1, <3>2, <3>3, <3>4 DEF CountersAreUnsaved, Unsaved
  <2>2. CASE s # t
    BY <1>c, <1>t, <1>9, <2>2 DEF Start
  <2> QED BY <2>1, <2>2
<1>10. ASSUME NEW s \in Server, Recover(s) \/ StartFresh(s)
       PROVE CountersAreUnsaved(t)'
  BY <1>9, <1>10 DEF Recover, StartFresh, Saved
<1>11. ASSUME NEW s \in Server, HandleDecidedEntries(s)
       PROVE CountersAreUnsaved(t)'
  BY <1>4, <1>5, <1>6, <1>7, <1>11 DEF HandleDecidedEntries, SaveSnapshotFails
<1>12. CASE UNCHANGED vars
  BY <1>c, <1>12 DEF vars, serverVars
<1> QED BY <1>1, <1>2, <1>3, <1>8, <1>10, <1>11, <1>12 DEF Next

\* On a disk that works, a server that waits for messages has fewer than
\* SNAPSHOT_INTERVAL entries to replay after a kill (the counting at the end of
\* handle_decided_entries, across restarts and batches of any size).
THEOREM ReplayBounded == Spec => []ReplayIsBounded
<1>1. Init => CountersInv
  BY CountersInit
<1>2. TypeOK /\ IndexInv /\ CountersInv /\ [Next]_vars => CountersInv'
  BY CountersStep
<1>3. TypeOK /\ IndexInv /\ CountersInv => ReplayIsBounded
  <2> SUFFICES ASSUME TypeOK, IndexInv, CountersInv, ~ DiskErrors,
                      NEW s \in Server, pc[s] = "select",
                      current_decided_idx[s] > Saved(s)
               PROVE  current_decided_idx[s] - Saved(s) < SNAPSHOT_INTERVAL
    BY DEF ReplayIsBounded
  <2>1. CountersAreUnsaved(s) /\ ServerIndices(s)
    BY DEF CountersInv, IndexInv
  <2>2. /\ current_decided_idx[s] \in Nat /\ entries_since_snapshot[s] \in Nat
        /\ Saved(s) \in Nat /\ SNAPSHOT_INTERVAL \in Nat
    BY ServerAssumption DEF TypeOK, DatabaseSnapshot, Saved
  <2>3. entry_idx[s] = current_decided_idx[s] + 1 /\ new_entries_applied[s] = 0
    BY <2>1 DEF ServerIndices, CountersAreUnsaved
  <2>4. current_decided_idx[s] = Saved(s) + entries_since_snapshot[s]
    BY <2>1, <2>2, <2>3 DEF CountersAreUnsaved, Unsaved
  <2> QED BY <2>1, <2>2, <2>4 DEF CountersAreUnsaved
<1> QED BY <1>1, <1>2, <1>3, TypeCorrect, PTL DEF Spec

-------------------------------------------------------------------------------
LEMMA HistoryInit == Init => HistoryIsReplay
BY DEF Init, LogInit, HistoryIsReplay

LEMMA HistoryStep == TypeOK /\ HistoryIsReplay /\ [Next]_vars => HistoryIsReplay'
<1> SUFFICES ASSUME TypeOK, HistoryIsReplay, [Next]_vars PROVE HistoryIsReplay'
  OBVIOUS
<1>1. CASE \E c \in Command : Choose(c)
  <2>1. PICK c \in Command : Choose(c)
    BY <1>1
  <2>2. Len(log) \in Nat
    BY DEF TypeOK, LogTypeOK
  <2>3. ASSUME NEW i \in 1..Len(log')
        PROVE  state_after'[i] = handle_command(state_after'[i-1], log'[i].kv_cmd)
    <3>1. CASE i \in 1..Len(log)
      <4>1. i \in 0..Len(log) /\ i - 1 \in 0..Len(log)
        BY <2>2, <3>1
      <4> QED BY <2>1, <3>1, <4>1, ChooseEffect DEF HistoryIsReplay
    <3>2. CASE i = Len(log) + 1
      <4>1. i - 1 = Len(log) /\ Len(log) \in 0..Len(log)
        BY <2>2, <3>2
      <4> QED BY <2>1, <3>2, <4>1, ChooseEffect
    <3> QED BY <2>1, <2>2, <3>1, <3>2, ChooseEffect
  <2>4. state_after'[0] = state_after[0]
    BY <2>1, <2>2, ChooseEffect
  <2> QED BY <2>3, <2>4 DEF HistoryIsReplay
<1>2. CASE UNCHANGED <<log, state_after>>
  BY <1>2 DEF HistoryIsReplay
<1>3. UNCHANGED <<log, state_after>> \/ \E c \in Command : Choose(c)
  <2>1. CASE UNCHANGED vars
    BY <2>1 DEF vars, logVars
  <2>2. ASSUME NEW s \in Server, NEW c \in Command, HandleClientMessage(s, c)
        PROVE  UNCHANGED <<log, state_after>>
    BY <2>2 DEF HandleClientMessage, append_to_log, append
  <2>3. ASSUME NEW s \in Server, NEW d \in decided_idx[s]..Len(log),
               HandleClusterMessage(s, d)
        PROVE  UNCHANGED <<log, state_after>>
    BY <2>3 DEF HandleClusterMessage, BeginBatch, handle_incoming
  <2>4. ASSUME NEW s \in Server,
               HandleDecidedEntries(s) \/ Crash(s) \/ Recover(s) \/ StartFresh(s)
        PROVE  UNCHANGED <<log, state_after>>
    BY <2>4 DEF HandleDecidedEntries, SkipEntry, ApplyEntry, NoSave, SaveSnapshot,
                SaveSnapshotFails, EndBatch, Crash, Recover, StartFresh, Start, logVars
  <2> QED BY <2>1, <2>2, <2>3, <2>4 DEF Next
<1> QED BY <1>1, <1>2, <1>3

-------------------------------------------------------------------------------
\* StateInv of one server.
ServerState(s) ==
    /\ pc[s] # "down" => /\ Applied(s) <= decided_idx[s]
                         /\ database[s] = state_after[Applied(s)]
    /\ snapshot[s] # NoSnapshot =>
          /\ snapshot[s].decided_idx <= decided_idx[s]
          /\ snapshot[s].db = state_after[snapshot[s].decided_idx]

LEMMA ServerStateIsStateInv ==
    (DatabaseIsLogPrefix /\ SnapshotIsLogPrefix) <=> \A s \in Server : ServerState(s)
BY DEF DatabaseIsLogPrefix, SnapshotIsLogPrefix, ServerState

LEMMA StateInit == Init => StateInv
<1> SUFFICES ASSUME Init PROVE StateInv
  OBVIOUS
<1>1. ASSUME NEW s \in Server PROVE ServerState(s)
  <2>1. /\ database[s] = EmptyDatabase /\ decided_idx[s] = 0 /\ entry_idx[s] = 1
        /\ snapshot_decided_idx[s] = 0 /\ snapshot[s] = NoSnapshot
        /\ state_after[0] = EmptyDatabase
    BY DEF Init, LogInit
  <2> QED BY <2>1 DEF ServerState, Applied
<1> QED BY <1>1, HistoryInit, ServerStateIsStateInv DEF StateInv

LEMMA StateStep ==
    TypeOK /\ IndexInv /\ IndexInv' /\ StateInv /\ [Next]_vars => StateInv'
<1> SUFFICES ASSUME TypeOK, IndexInv, IndexInv', StateInv, [Next]_vars PROVE StateInv'
  OBVIOUS
<1>h. HistoryIsReplay'
  BY HistoryStep DEF StateInv
<1>s. (\A t \in Server : ServerState(t)') => (DatabaseIsLogPrefix /\ SnapshotIsLogPrefix)'
  BY DEF DatabaseIsLogPrefix, SnapshotIsLogPrefix, ServerState
<1> SUFFICES ASSUME NEW t \in Server PROVE ServerState(t)'
  BY <1>h, <1>s DEF StateInv
<1>a. ServerState(t) /\ ServerIndices(t) /\ ServerIndices(t)'
  BY ServerStateIsStateInv DEF IndexInv, StateInv
<1>b. /\ Len(log) \in Nat /\ decided_idx[t] \in Nat /\ current_decided_idx[t] \in Nat
      /\ entry_idx[t] \in Nat /\ snapshot_decided_idx[t] \in Nat
      /\ snapshot[t] # NoSnapshot => snapshot[t].decided_idx \in Nat
  BY DEF TypeOK, LogTypeOK, DatabaseSnapshot
<1>c. Applied(t) \in Nat
  BY <1>a, <1>b DEF ServerIndices, Applied
<1>d. ASSUME UNCHANGED <<decided_idx, state_after>>, pc'[t] # "down" => pc[t] # "down",
             database'[t] = database[t], Applied(t)' = Applied(t),
             snapshot'[t] = snapshot[t]
      PROVE  ServerState(t)'
  BY <1>a, <1>d DEF ServerState
<1>1. ASSUME NEW s \in Server, NEW c \in Command, HandleClientMessage(s, c)
      PROVE ServerState(t)'
  BY <1>d, <1>1 DEF HandleClientMessage, append_to_log, append, serverVars, Applied
<1>2. ASSUME NEW c \in Command, Choose(c)
      PROVE ServerState(t)'
  <2>1. UNCHANGED <<decided_idx, pc, database, snapshot>> /\ Applied(t)' = Applied(t)
    BY <1>2 DEF Choose, ChooseNext, serverVars, Applied
  <2>2. \A i \in 0..Len(log) : state_after'[i] = state_after[i]
    BY <1>2, ChooseEffect
  <2>3. pc[t] # "down" => Applied(t) \in 0..Len(log)
    BY <1>a, <1>b, <1>c DEF ServerState, ServerIndices
  <2>4. snapshot[t] # NoSnapshot => snapshot[t].decided_idx \in 0..Len(log)
    BY <1>a, <1>b DEF ServerState, ServerIndices
  <2> QED BY <1>a, <2>1, <2>2, <2>3, <2>4 DEF ServerState
<1>3. ASSUME NEW s \in Server, NEW d \in decided_idx[s]..Len(log),
             HandleClusterMessage(s, d)
      PROVE ServerState(t)'
  <2>1. UNCHANGED <<database, snapshot, snapshot_decided_idx, state_after>>
    BY <1>3 DEF HandleClusterMessage, BeginBatch
  <2>2. pc'[t] # "down" => pc[t] # "down"
    BY <1>3 DEF HandleClusterMessage, BeginBatch, TypeOK
  <2>3. entry_idx'[t] = entry_idx[t]
    <3>1. /\ entry_idx \in [Server -> Nat]
          /\ \/ entry_idx' = entry_idx
             \/ /\ pc[s] = "select"
                /\ entry_idx' = [entry_idx EXCEPT ![s] = current_decided_idx[s] + 1]
      BY <1>3 DEF HandleClusterMessage, BeginBatch, TypeOK
    <3>2. s = t /\ pc[s] = "select" => entry_idx[s] = current_decided_idx[s] + 1
      BY <1>a DEF ServerIndices
    <3> QED BY <3>1, <3>2
  <2>4. decided_idx'[t] \in Nat /\ decided_idx'[t] >= decided_idx[t]
    <3>1. decided_idx[s] \in Nat /\ d \in Nat /\ d >= decided_idx[s]
      <4>1. decided_idx[s] \in Nat
        BY DEF TypeOK, LogTypeOK
      <4> QED BY <1>b, <4>1
    <3>2. decided_idx'[t] = IF s = t THEN d ELSE decided_idx[t]
      BY <1>3 DEF HandleClusterMessage, BeginBatch, handle_incoming, TypeOK, LogTypeOK
    <3> QED BY <1>b, <3>1, <3>2
  <2> QED BY <1>a, <1>b, <1>c, <2>1, <2>2, <2>3, <2>4 DEF ServerState, Applied
<1>4. ASSUME NEW s \in Server, SkipEntry(s)
      PROVE ServerState(t)'
  <2>1. UNCHANGED <<decided_idx, pc, database, snapshot_decided_idx, snapshot, state_after>>
    BY <1>4 DEF SkipEntry, logVars
  <2>2. Applied(t)' = Applied(t)
    <3>1. CASE s = t
      <4>1. entry_idx'[t] = entry_idx[t] + 1 /\ entry_idx[t] <= snapshot_decided_idx[t]
        BY <1>4, <3>1 DEF SkipEntry, InSnapshot, TypeOK
      <4> QED BY <1>b, <2>1, <4>1 DEF Applied
    <3>2. CASE s # t
      <4>1. entry_idx'[t] = entry_idx[t]
        BY <1>4, <3>2 DEF SkipEntry, TypeOK
      <4> QED BY <2>1, <4>1 DEF Applied
    <3> QED BY <3>1, <3>2
  <2> QED BY <1>d, <2>1, <2>2
<1>5. ASSUME NEW s \in Server, ApplyEntry(s)
      PROVE ServerState(t)'
  <2>1. UNCHANGED <<decided_idx, pc, snapshot_decided_idx, snapshot, state_after>>
    BY <1>5 DEF ApplyEntry, logVars
  <2>2. CASE s = t
    <3>1. /\ entry_idx'[t] = entry_idx[t] + 1
          /\ database'[t] = handle_command(database[t], log[entry_idx[t]].kv_cmd)
          /\ AtEntry(t) /\ ~ InSnapshot(t)
      BY <1>5, <2>2 DEF ApplyEntry, TypeOK
    <3>2. Applied(t) = entry_idx[t] - 1 /\ Applied(t)' = entry_idx[t]
      BY <1>b, <2>1, <3>1 DEF Applied, InSnapshot
    <3>3. entry_idx[t] \in 1..Len(log) /\ entry_idx[t] <= decided_idx[t]
      BY <1>a, <1>b, <3>1 DEF AtEntry, ServerIndices
    <3>4. database[t] = state_after[entry_idx[t] - 1]
      BY <1>a, <3>1, <3>2 DEF ServerState, AtEntry
    <3>5. database'[t] = state_after[entry_idx[t]]
      BY <3>1, <3>3, <3>4 DEF StateInv, HistoryIsReplay
    <3> QED BY <1>a, <2>1, <3>2, <3>3, <3>5 DEF ServerState
  <2>3. CASE s # t
    <3>1. entry_idx'[t] = entry_idx[t] /\ database'[t] = database[t]
      BY <1>5, <2>3 DEF ApplyEntry, TypeOK
    <3> QED BY <1>d, <2>1, <3>1 DEF Applied
  <2> QED BY <2>2, <2>3
<1>6. ASSUME NEW s \in Server, NEW n, AtLoopEnd(s), EndBatch(s, n), UNCHANGED snapshot
      PROVE ServerState(t)'
  <2>1. pc'[t] # "down" => pc[t] # "down"
    BY <1>6 DEF EndBatch, AtLoopEnd, TypeOK
  <2> QED BY <1>d, <1>6, <2>1 DEF EndBatch, Applied, logVars
<1>7. ASSUME NEW s \in Server, SaveSnapshot(s)
      PROVE ServerState(t)'
  <2>1. /\ UNCHANGED <<decided_idx, database, entry_idx, snapshot_decided_idx, state_after>>
        /\ AtLoopEnd(s)
    BY <1>7 DEF SaveSnapshot, EndBatch, logVars
  <2>2. Applied(t)' = Applied(t)
    BY <2>1 DEF Applied
  <2>3. pc'[t] # "down" => pc[t] # "down"
    BY <1>7 DEF SaveSnapshot, EndBatch, AtLoopEnd, TypeOK
  <2>4. CASE s = t
    <3>1. snapshot'[t] = [db |-> database[t], decided_idx |-> current_decided_idx[t]]
      BY <1>7, <2>4 DEF SaveSnapshot, TypeOK
    <3>2. Applied(t) = current_decided_idx[t]
      BY <1>a, <1>b, <2>1, <2>4 DEF Applied, AtLoopEnd, ServerIndices
    <3>3. current_decided_idx[t] <= decided_idx[t] /\ pc[t] # "down"
      BY <1>a, <2>1, <2>4 DEF AtLoopEnd, ServerIndices
    <3> QED BY <1>a, <2>1, <2>2, <3>1, <3>2, <3>3 DEF ServerState
  <2>5. CASE s # t
    <3>1. snapshot'[t] = snapshot[t]
      BY <1>7, <2>5 DEF SaveSnapshot, TypeOK
    <3> QED BY <1>d, <2>1, <2>2, <2>3, <3>1
  <2> QED BY <2>4, <2>5
<1>8. ASSUME NEW s \in Server, Crash(s)
      PROVE ServerState(t)'
  <2>1. UNCHANGED <<decided_idx, snapshot, state_after>>
    BY <1>8 DEF Crash, logVars
  <2>2. CASE s = t
    BY <1>8, <1>a, <2>1, <2>2 DEF Crash, ServerState, TypeOK
  <2>3. CASE s # t
    BY <1>8, <1>d, <2>1, <2>3 DEF Crash, Applied, TypeOK
  <2> QED BY <2>2, <2>3
<1>9. ASSUME NEW s \in Server, NEW db, NEW idx \in Nat, Start(s, db, idx),
             idx <= decided_idx[s], db = state_after[idx]
      PROVE ServerState(t)'
  <2>1. UNCHANGED <<decided_idx, snapshot, state_after, entry_idx>> /\ pc[s] = "down"
    BY <1>9 DEF Start, logVars
  <2>2. CASE s = t
    <3>1. database'[t] = db /\ snapshot_decided_idx'[t] = idx
      BY <1>9, <2>2 DEF Start, TypeOK
    <3>2. entry_idx[t] = 1
      BY <1>a, <2>1, <2>2 DEF ServerIndices
    <3>3. Applied(t)' = idx
      BY <1>9, <2>1, <3>1, <3>2 DEF Applied
    <3> QED BY <1>9, <1>a, <2>1, <2>2, <3>1, <3>3 DEF ServerState
  <2>3. CASE s # t
    BY <1>9, <1>d, <2>1, <2>3 DEF Start, Applied, TypeOK
  <2> QED BY <2>2, <2>3
<1>10. ASSUME NEW s \in Server, Recover(s)
       PROVE ServerState(t)'
  <2>1. /\ snapshot[s].decided_idx \in Nat
        /\ snapshot[s].decided_idx <= decided_idx[s]
        /\ snapshot[s].db = state_after[snapshot[s].decided_idx]
    BY <1>10 DEF Recover, TypeOK, DatabaseSnapshot, StateInv, SnapshotIsLogPrefix
  <2> QED BY <1>9, <1>10, <2>1 DEF Recover
<1>11. ASSUME NEW s \in Server, StartFresh(s)
       PROVE ServerState(t)'
  <2>1. 0 <= decided_idx[s]
    BY DEF TypeOK, LogTypeOK
  <2> QED BY <1>9, <1>11, <2>1 DEF StartFresh, StateInv, HistoryIsReplay
<1>12. CASE UNCHANGED vars
  BY <1>d, <1>12 DEF vars, logVars, serverVars, Applied
<1>13. ASSUME NEW s \in Server, HandleDecidedEntries(s)
       PROVE ServerState(t)'
  BY <1>4, <1>5, <1>6, <1>7, <1>13
     DEF HandleDecidedEntries, NoSave, SaveSnapshotFails, EndBatch
<1> QED BY <1>1, <1>2, <1>3, <1>8, <1>10, <1>11, <1>12, <1>13 DEF Next

\* Every running server's map, and every snapshot file, is the replay of a prefix
\* of the decided log: kills, recoveries, skipped entries and failed saves never
\* make handle_decided_entries apply an entry twice or lose one.
THEOREM StateIsLogPrefix == Spec => [](DatabaseIsLogPrefix /\ SnapshotIsLogPrefix)
<1>1. Init => StateInv
  BY StateInit
<1>2. TypeOK /\ IndexInv /\ IndexInv' /\ StateInv /\ [Next]_vars => StateInv'
  BY StateStep
<1>3. StateInv => DatabaseIsLogPrefix /\ SnapshotIsLogPrefix
  BY DEF StateInv
<1> QED BY <1>1, <1>2, <1>3, TypeCorrect, PTL DEF Spec

-------------------------------------------------------------------------------
\* What no step undoes: chosen entries, decided prefixes and replies sent.
LEMMA Monotone ==
    ASSUME TypeOK, [Next]_vars
    PROVE  /\ Len(log') \in Nat /\ Len(log) \in Nat /\ Len(log) <= Len(log')
           /\ \A i \in 1..Len(log) : log'[i] = log[i]
           /\ \A i \in 0..Len(log) : state_after'[i] = state_after[i]
           /\ \A s \in Server : decided_idx[s] <= decided_idx'[s]
           /\ responses \subseteq responses'
<1>a. Len(log) \in Nat /\ \A s \in Server : decided_idx[s] \in Nat
  BY DEF TypeOK, LogTypeOK
<1>1. CASE \E c \in Command : Choose(c)
  <2>1. PICK c \in Command : Choose(c)
    BY <1>1
  <2>2. UNCHANGED <<decided_idx, responses>>
    BY <2>1 DEF Choose, ChooseNext
  <2> QED BY <1>a, <2>1, <2>2, ChooseEffect
<1>2. CASE \E s \in Server : \E d \in decided_idx[s]..Len(log) : HandleClusterMessage(s, d)
  <2>0. PICK s \in Server : \E d \in decided_idx[s]..Len(log) : HandleClusterMessage(s, d)
    BY <1>2
  <2>1. PICK d \in decided_idx[s]..Len(log) : HandleClusterMessage(s, d)
    BY <2>0
  <2>2. decided_idx[s] <= d
    BY <1>a
  <2>3. /\ UNCHANGED <<log, state_after, responses>>
        /\ decided_idx' = [decided_idx EXCEPT ![s] = d]
    BY <2>1 DEF replyVars, HandleClusterMessage, BeginBatch, handle_incoming
  <2>4. \A t \in Server : decided_idx'[t] >= decided_idx[t]
    <3>1. decided_idx \in [Server -> Nat]
      BY DEF TypeOK, LogTypeOK
    <3> QED BY <2>2, <2>3, <3>1
  <2> QED BY <1>a, <2>3, <2>4
<1>3. CASE UNCHANGED <<log, state_after, decided_idx>> /\ responses \subseteq responses'
  BY <1>a, <1>3
<1>4. \/ \E c \in Command : Choose(c)
      \/ \E s \in Server : \E d \in decided_idx[s]..Len(log) : HandleClusterMessage(s, d)
      \/ UNCHANGED <<log, state_after, decided_idx>> /\ responses \subseteq responses'
  <2>1. ASSUME NEW s \in Server, ApplyEntry(s)
        PROVE UNCHANGED <<log, state_after, decided_idx>> /\ responses \subseteq responses'
    BY <2>1 DEF replyVars, ApplyEntry, logVars
  <2> QED BY <2>1
     DEF Next, vars, logVars, replyVars, HandleClientMessage, append_to_log, append,
         HandleDecidedEntries, SkipEntry, NoSave, SaveSnapshot, SaveSnapshotFails, EndBatch, Crash,
         Recover, StartFresh, Start
<1> QED BY <1>1, <1>2, <1>3, <1>4

\* The one step that replies: the record it adds is what the log determines.
LEMMA ReplyIsDetermined ==
    ASSUME TypeOK, IndexInv, StateInv, NEW s \in Server, ApplyEntry(s)
    PROVE  /\ entry_idx[s] \in 1..Len(log)
           /\ entry_idx[s] <= decided_idx[s]
           /\ database[s] = state_after[entry_idx[s] - 1]
<1>1. AtEntry(s) /\ ~ InSnapshot(s)
  BY DEF ApplyEntry
<1>2. ServerIndices(s) /\ entry_idx[s] \in Nat /\ snapshot_decided_idx[s] \in Nat
  BY DEF IndexInv, TypeOK
<1>3. Applied(s) = entry_idx[s] - 1
  BY <1>1, <1>2 DEF Applied, InSnapshot
<1>4. database[s] = state_after[Applied(s)]
  BY <1>1 DEF StateInv, DatabaseIsLogPrefix, AtEntry
<1>5. current_decided_idx[s] \in Nat /\ decided_idx[s] \in Nat /\ Len(log) \in Nat
  BY DEF TypeOK, LogTypeOK
<1> QED BY <1>1, <1>2, <1>3, <1>4, <1>5 DEF AtEntry, ServerIndices

LEMMA RespondedStep ==
    ASSUME NEW r \in responses', [Next]_vars, TypeOK
    PROVE  \/ r \in responses
           \/ \E s \in Server :
                 /\ ApplyEntry(s)
                 /\ log[entry_idx[s]].coordinator_id = s
                 /\ r = [entry |-> entry_idx[s],
                         reply |-> ReplyTo(database[s], log[entry_idx[s]].kv_cmd)]
<1>1. ASSUME NEW s \in Server, ApplyEntry(s), r \notin responses
      PROVE /\ log[entry_idx[s]].coordinator_id = s
            /\ r = [entry |-> entry_idx[s],
                    reply |-> ReplyTo(database[s], log[entry_idx[s]].kv_cmd)]
  BY <1>1 DEF replyVars, ApplyEntry
<1>2. (\E s \in Server : ApplyEntry(s)) \/ UNCHANGED responses
  BY DEF Next, vars, logVars, replyVars, HandleClientMessage, HandleDecidedEntries, Choose,
         HandleClusterMessage, BeginBatch, SkipEntry, NoSave, SaveSnapshot, SaveSnapshotFails,
         EndBatch, Crash, Recover, StartFresh, Start
<1> QED BY <1>1, <1>2

LEMMA RepliesMatchStep ==
    TypeOK /\ IndexInv /\ StateInv /\ RepliesMatchLog /\ [Next]_vars => RepliesMatchLog'
<1> SUFFICES ASSUME TypeOK, IndexInv, StateInv, RepliesMatchLog, [Next]_vars,
                    NEW r \in responses'
             PROVE  /\ r.entry \in 1..Len(log')
                    /\ r.entry <= decided_idx'[log'[r.entry].coordinator_id]
                    /\ r.reply = ReplyTo(state_after'[r.entry - 1], log'[r.entry].kv_cmd)
  BY DEF RepliesMatchLog, ReplyTo
<1>1. ASSUME r.entry \in 1..Len(log),
             r.entry <= decided_idx[log[r.entry].coordinator_id],
             r.reply = ReplyTo(state_after[r.entry - 1], log[r.entry].kv_cmd)
      PROVE  /\ r.entry \in 1..Len(log')
             /\ r.entry <= decided_idx'[log'[r.entry].coordinator_id]
             /\ r.reply = ReplyTo(state_after'[r.entry - 1], log'[r.entry].kv_cmd)
  <2>1. r.entry \in 1..Len(log') /\ r.entry - 1 \in 0..Len(log)
    BY <1>1, Monotone
  <2>2. log'[r.entry] = log[r.entry] /\ state_after'[r.entry - 1] = state_after[r.entry - 1]
    BY <1>1, <2>1, Monotone
  <2>3. log[r.entry].coordinator_id \in Server
    BY <1>1, ServerAssumption DEF TypeOK, LogTypeOK
  <2>4. r.entry <= decided_idx'[log[r.entry].coordinator_id]
    <3> DEFINE s == log[r.entry].coordinator_id
    <3>1. decided_idx[s] <= decided_idx'[s] /\ decided_idx[s] \in Nat
      BY <2>3, Monotone DEF TypeOK, LogTypeOK
    <3>2. decided_idx'[s] \in Nat
      BY <2>3, TypeStep DEF TypeOK, LogTypeOK
    <3>3. r.entry \in Nat /\ r.entry <= decided_idx[s]
      BY <1>1
    <3> HIDE DEF s
    <3>4. r.entry <= decided_idx'[s]
      BY <3>1, <3>2, <3>3
    <3> QED BY <3>4 DEF s
  <2> QED BY <1>1, <2>1, <2>2, <2>4
<1>2. CASE r \in responses
  BY <1>1, <1>2 DEF RepliesMatchLog
<1>3. ASSUME NEW s \in Server, ApplyEntry(s), log[entry_idx[s]].coordinator_id = s,
             r = [entry |-> entry_idx[s],
                  reply |-> ReplyTo(database[s], log[entry_idx[s]].kv_cmd)]
      PROVE  /\ r.entry \in 1..Len(log)
             /\ r.entry <= decided_idx[log[r.entry].coordinator_id]
             /\ r.reply = ReplyTo(state_after[r.entry - 1], log[r.entry].kv_cmd)
  BY <1>3, ReplyIsDetermined
<1> QED BY <1>1, <1>2, <1>3, RespondedStep

\* The entries server s must have replied to, and NoReplySwallowed of one of them.
Passed(s, i) ==
    \/ i < entry_idx[s]
    \/ snapshot[s] # NoSnapshot /\ i <= snapshot[s].decided_idx

RespondedAt(i) == \E r \in responses : r.entry = i

LEMMA NoReplySwallowedStep ==
    TypeOK /\ IndexInv /\ StateInv /\ NoReplySwallowed /\ [Next]_vars => NoReplySwallowed'
<1> SUFFICES ASSUME TypeOK, IndexInv, StateInv, NoReplySwallowed, [Next]_vars,
                    NEW t \in Server, NEW i \in 1..Len(log'),
                    log'[i].coordinator_id = t, Passed(t, i)'
             PROVE  RespondedAt(i)'
  BY DEF NoReplySwallowed, Passed, RespondedAt
<1>a. /\ Len(log) \in Nat /\ decided_idx[t] \in Nat /\ current_decided_idx[t] \in Nat
      /\ entry_idx[t] \in Nat /\ snapshot_decided_idx[t] \in Nat
      /\ snapshot[t] # NoSnapshot => snapshot[t].decided_idx \in Nat
      /\ ServerIndices(t) /\ Len(log') \in Nat /\ i \in Nat /\ i >= 1
  BY Monotone DEF TypeOK, LogTypeOK, DatabaseSnapshot, IndexInv
<1>b. ASSUME Passed(t, i) PROVE RespondedAt(i)'
  <2>1. i \in 1..Len(log)
    BY <1>a, <1>b DEF Passed, ServerIndices
  <2>2. log[i].coordinator_id = t
    BY <2>1, Monotone
  <2>3. RespondedAt(i)
    BY <1>b, <2>1, <2>2 DEF NoReplySwallowed, Passed, RespondedAt
  <2> QED BY <2>3, Monotone DEF RespondedAt
<1>c. ASSUME entry_idx'[t] = entry_idx[t], snapshot'[t] = snapshot[t]
      PROVE  RespondedAt(i)'
  BY <1>b, <1>c DEF Passed
<1>1. ASSUME NEW s \in Server, NEW c \in Command, HandleClientMessage(s, c)
      PROVE RespondedAt(i)'
  BY <1>c, <1>1 DEF HandleClientMessage, serverVars
<1>2. ASSUME NEW c \in Command, Choose(c)
      PROVE RespondedAt(i)'
  BY <1>c, <1>2 DEF Choose, serverVars
<1>3. ASSUME NEW s \in Server, NEW d \in decided_idx[s]..Len(log),
             HandleClusterMessage(s, d)
      PROVE RespondedAt(i)'
  <2>1. entry_idx'[t] = entry_idx[t] /\ snapshot' = snapshot
    BY <1>3, <1>a DEF HandleClusterMessage, BeginBatch, ServerIndices, TypeOK
  <2> QED BY <1>c, <2>1
<1>4. ASSUME NEW s \in Server, SkipEntry(s)
      PROVE RespondedAt(i)'
  <2>1. UNCHANGED snapshot
    BY <1>4 DEF SkipEntry
  <2>2. CASE s = t
    <3>1. /\ entry_idx'[t] = entry_idx[t] + 1
          /\ entry_idx[t] <= snapshot_decided_idx[t] /\ AtEntry(t)
      BY <1>4, <2>2 DEF SkipEntry, InSnapshot, TypeOK
    <3>2. /\ snapshot[t] # NoSnapshot
          /\ entry_idx[t] <= snapshot[t].decided_idx
      BY <1>a, <3>1 DEF ServerIndices
    <3> QED BY <1>a, <1>b, <2>1, <3>1, <3>2 DEF Passed
  <2>3. CASE s # t
    BY <1>c, <1>4, <2>1, <2>3 DEF SkipEntry, TypeOK
  <2> QED BY <2>2, <2>3
<1>5. ASSUME NEW s \in Server, ApplyEntry(s)
      PROVE RespondedAt(i)'
  <2>1. UNCHANGED <<snapshot, log>>
    BY <1>5 DEF ApplyEntry, logVars
  <2>2. CASE s = t /\ i = entry_idx[t]
    <3>1. [entry |-> entry_idx[s],
           reply |-> ReplyTo(database[s], log[entry_idx[s]].kv_cmd)] \in responses'
      BY <1>5, <2>1, <2>2 DEF ApplyEntry
    <3> QED BY <2>2, <3>1 DEF RespondedAt
  <2>3. CASE s = t /\ i # entry_idx[t]
    <3>1. entry_idx'[t] = entry_idx[t] + 1
      BY <1>5, <2>3 DEF ApplyEntry, TypeOK
    <3> QED BY <1>a, <1>b, <2>1, <2>3, <3>1 DEF Passed
  <2>4. CASE s # t
    BY <1>c, <1>5, <2>1, <2>4 DEF ApplyEntry, TypeOK
  <2> QED BY <2>2, <2>3, <2>4
<1>6. ASSUME NEW s \in Server, NEW n, EndBatch(s, n), UNCHANGED snapshot
      PROVE RespondedAt(i)'
  BY <1>c, <1>6 DEF EndBatch
<1>7. ASSUME NEW s \in Server, SaveSnapshot(s)
      PROVE RespondedAt(i)'
  <2>1. UNCHANGED entry_idx
    BY <1>7 DEF SaveSnapshot, EndBatch
  <2>2. CASE s = t
    <3>1. /\ snapshot'[t] = [db |-> database[t], decided_idx |-> current_decided_idx[t]]
          /\ entry_idx[t] > current_decided_idx[t]
      BY <1>7, <2>2 DEF SaveSnapshot, EndBatch, AtLoopEnd, TypeOK
    <3> QED BY <1>a, <1>b, <2>1, <3>1 DEF Passed
  <2>3. CASE s # t
    BY <1>c, <1>7, <2>1, <2>3 DEF SaveSnapshot, TypeOK
  <2> QED BY <2>2, <2>3
<1>8. ASSUME NEW s \in Server, Crash(s)
      PROVE RespondedAt(i)'
  <2>1. UNCHANGED snapshot
    BY <1>8 DEF Crash
  <2>2. entry_idx'[t] = entry_idx[t] \/ entry_idx'[t] = 1
    BY <1>8 DEF Crash, TypeOK
  <2> QED BY <1>a, <1>b, <2>1, <2>2 DEF Passed
<1>9. ASSUME NEW s \in Server, NEW db, NEW idx, Start(s, db, idx)
      PROVE RespondedAt(i)'
  BY <1>c, <1>9 DEF Start
<1>10. CASE UNCHANGED vars
  BY <1>c, <1>10 DEF vars, serverVars
<1>11. ASSUME NEW s \in Server, HandleDecidedEntries(s)
       PROVE RespondedAt(i)'
  BY <1>4, <1>5, <1>6, <1>7, <1>11
     DEF HandleDecidedEntries, NoSave, SaveSnapshotFails
<1> QED BY <1>1, <1>2, <1>3, <1>8, <1>9, <1>10, <1>11 DEF Next, Recover, StartFresh

LEMMA ReplyOrderStep ==
    /\ TypeOK /\ IndexInv /\ RepliesInLogOrder /\ RepliesBehindCursor /\ [Next]_vars
    => RepliesInLogOrder' /\ RepliesBehindCursor'
<1> DEFINE Ordered(t) == /\ \A i, j \in 1..Len(replies[t]) :
                               i < j => replies[t][i].entry < replies[t][j].entry
                         /\ \A i \in 1..Len(replies[t]) :
                               replies[t][i].entry < entry_idx[t]
<1> SUFFICES ASSUME TypeOK, IndexInv, RepliesInLogOrder, RepliesBehindCursor, [Next]_vars,
                    NEW t \in Server
             PROVE  Ordered(t)'
  BY DEF RepliesInLogOrder, RepliesBehindCursor
<1>a. Ordered(t) /\ replies[t] \in Seq(SentReply) /\ Len(replies[t]) \in Nat
      /\ entry_idx[t] \in Nat
  BY DEF RepliesInLogOrder, RepliesBehindCursor, TypeOK
<1>b. ASSUME NEW i \in 1..Len(replies[t]) PROVE replies[t][i].entry \in Nat
  <2>1. replies[t][i] \in SentReply
    BY <1>a
  <2> QED BY <2>1 DEF SentReply
<1>c. ASSUME replies'[t] = replies[t], entry_idx'[t] \in Nat, entry_idx[t] <= entry_idx'[t]
      PROVE  Ordered(t)'
  BY <1>a, <1>b, <1>c
<1>d. ASSUME UNCHANGED <<replies, entry_idx>> PROVE Ordered(t)'
  BY <1>a, <1>d
<1>1. ASSUME NEW s \in Server, NEW d \in decided_idx[s]..Len(log),
             HandleClusterMessage(s, d)
      PROVE Ordered(t)'
  <2>1. entry_idx'[t] = entry_idx[t] /\ replies' = replies
    BY <1>1 DEF replyVars, HandleClusterMessage, BeginBatch, IndexInv, ServerIndices, TypeOK
  <2> QED BY <1>a, <1>c, <2>1
<1>2. ASSUME NEW s \in Server, SkipEntry(s)
      PROVE Ordered(t)'
  <2>1. replies' = replies /\ (entry_idx'[t] = entry_idx[t] \/ entry_idx'[t] = entry_idx[t] + 1)
    BY <1>2 DEF replyVars, SkipEntry, TypeOK
  <2> QED BY <1>a, <1>c, <2>1
<1>3. ASSUME NEW s \in Server, ApplyEntry(s)
      PROVE Ordered(t)'
  <2>1. CASE replies'[t] = replies[t]
    <3>1. entry_idx'[t] = entry_idx[t] \/ entry_idx'[t] = entry_idx[t] + 1
      BY <1>3 DEF ApplyEntry, TypeOK
    <3> QED BY <1>a, <1>c, <2>1, <3>1
  <2>2. CASE replies'[t] # replies[t]
    <3> DEFINE e == [entry |-> entry_idx[s],
                     reply |-> ReplyTo(database[s], log[entry_idx[s]].kv_cmd)]
    <3>1. s = t /\ replies'[t] = Append(replies[t], e) /\ entry_idx'[t] = entry_idx[t] + 1
      BY <1>3, <2>2 DEF replyVars, ApplyEntry, TypeOK
    <3>2. e.entry = entry_idx[t]
      BY <3>1
    <3> HIDE DEF e
    <3>3. /\ Len(replies'[t]) = Len(replies[t]) + 1
          /\ \A i \in 1..Len(replies[t]) : replies'[t][i] = replies[t][i]
          /\ replies'[t][Len(replies[t]) + 1] = e
      BY <1>a, <3>1
    <3>4. \A i \in 1..Len(replies'[t]) : i \in 1..Len(replies[t]) \/ i = Len(replies[t]) + 1
      BY <1>a, <3>3
    <3>5. ASSUME NEW i \in 1..Len(replies'[t])
          PROVE  /\ replies'[t][i].entry \in Nat
                 /\ replies'[t][i].entry <= entry_idx[t]
      <4>1. CASE i \in 1..Len(replies[t])
        <5>1. replies[t][i].entry < entry_idx[t]
          BY <1>a, <4>1
        <5>2. replies[t][i].entry \in Nat
          BY <1>b, <4>1
        <5> QED BY <1>a, <3>3, <4>1, <5>1, <5>2
      <4>2. CASE i = Len(replies[t]) + 1
        <5>1. replies'[t][i].entry = entry_idx[t]
          BY <3>2, <3>3, <4>2
        <5> QED BY <1>a, <5>1
      <4> QED BY <3>4, <4>1, <4>2
    <3>6. ASSUME NEW i \in 1..Len(replies'[t]), NEW j \in 1..Len(replies'[t]), i < j
          PROVE  replies'[t][i].entry < replies'[t][j].entry
      <4>0. Len(replies[t]) \in Nat
        BY <1>a
      <4>1. i \in 1..Len(replies[t])
        BY <3>3, <3>4, <3>6, <4>0
      <4>2. replies'[t][i].entry < entry_idx[t]
        BY <1>a, <3>3, <4>1
      <4>3. CASE j \in 1..Len(replies[t])
        BY <1>a, <3>3, <3>6, <4>1, <4>3
      <4>4. CASE j = Len(replies[t]) + 1
        <5>1. replies'[t][j].entry = entry_idx[t]
          BY <3>2, <3>3, <4>4
        <5> QED BY <4>2, <5>1
      <4>5. j \in 1..Len(replies[t]) \/ j = Len(replies[t]) + 1
        BY <3>4, <3>6
      <4> QED BY <4>3, <4>4, <4>5
    <3>7. ASSUME NEW i \in 1..Len(replies'[t]) PROVE replies'[t][i].entry < entry_idx'[t]
      <4>1. entry_idx'[t] = entry_idx[t] + 1 /\ entry_idx[t] \in Nat
        BY <1>a, <3>1
      <4>2. replies'[t][i].entry \in Nat /\ replies'[t][i].entry <= entry_idx[t]
        BY <3>5
      <4> QED BY <4>1, <4>2
    <3> QED BY <3>6, <3>7
  <2> QED BY <2>1, <2>2
<1>4. ASSUME NEW s \in Server, Crash(s)
      PROVE Ordered(t)'
  <2>1. CASE s = t
    <3>1. replies'[t] = <<>>
      BY <1>4, <2>1 DEF Crash, TypeOK
    <3> QED BY <3>1
  <2>2. CASE s # t
    BY <1>a, <1>c, <1>4, <2>2 DEF Crash, TypeOK
  <2> QED BY <2>1, <2>2
<1>5. \/ \E s \in Server : \/ \E d \in decided_idx[s]..Len(log) : HandleClusterMessage(s, d)
                           \/ SkipEntry(s) \/ ApplyEntry(s) \/ Crash(s)
      \/ UNCHANGED <<replies, entry_idx>>
  BY DEF Next, vars, serverVars, replyVars, HandleClientMessage, HandleDecidedEntries, Choose,
         NoSave, SaveSnapshot, SaveSnapshotFails, EndBatch, Recover, StartFresh, Start
<1> QED BY <1>d, <1>1, <1>2, <1>3, <1>4, <1>5

LEMMA ReplyInit == Init => ReplyInv
<1> SUFFICES ASSUME Init PROVE ReplyInv
  OBVIOUS
<1>1. responses = {} /\ Len(log) = 0 /\ \A s \in Server : Len(replies[s]) = 0
  BY DEF Init, LogInit
<1> QED BY <1>1 DEF ReplyInv, RepliesMatchLog, NoReplySwallowed, RepliesInLogOrder,
                    RepliesBehindCursor

\* What a server gives to send_to_client, over all its lives, are the replies that the
\* agreed log determines for durably decided entries; none is lost to a skipped entry;
\* and one life gives them in log order, each once.
THEOREM RepliesCorrect ==
    Spec => [](RepliesMatchLog /\ NoReplySwallowed /\ RepliesInLogOrder)
<1>1. Init => StateInv /\ ReplyInv
  BY StateInit, ReplyInit
<1>2. TypeOK /\ IndexInv /\ (TypeOK /\ IndexInv)' /\ StateInv /\ ReplyInv /\ [Next]_vars
      => (StateInv /\ ReplyInv)'
  BY StateStep, RepliesMatchStep, NoReplySwallowedStep, ReplyOrderStep DEF ReplyInv
<1>3. ReplyInv => RepliesMatchLog /\ NoReplySwallowed /\ RepliesInLogOrder
  BY DEF ReplyInv
<1> QED BY <1>1, <1>2, <1>3, TypeCorrect, PTL DEF Spec

\* A snapshot file holds the replay of the entries it names and of no others, so that
\* new() may go on from it, whichever save was the last before the kill.
THEOREM SnapshotFileIsLogPrefix == Spec => []SnapshotIsLogPrefix
BY StateIsLogPrefix, PTL

\* The skip of entries that the snapshot holds leaves no command without the reply that
\* its coordinator owes: send_to_client had it before the entry went into a snapshot.
THEOREM SkipSwallowsNoReply == Spec => []NoReplySwallowed
BY RepliesCorrect, PTL

\* The loop of handle_decided_entries replies in log order between two starts.
THEOREM AnswersInLogOrder == Spec => []RepliesInLogOrder
BY RepliesCorrect, PTL

\* save_snapshot never replaces a snapshot by an older one, whatever was read or
\* could not be read when the server started.
THEOREM SnapshotMonotone == Spec => SnapshotNeverRegresses
<1>1. ASSUME TypeOK, IndexInv, [Next]_vars, NEW t \in Server, snapshot[t] # NoSnapshot
      PROVE  snapshot'[t] # NoSnapshot /\ snapshot'[t].decided_idx >= snapshot[t].decided_idx
  <2>a. snapshot[t].decided_idx \in Nat /\ current_decided_idx[t] \in Nat
    BY <1>1 DEF TypeOK, DatabaseSnapshot
  <2>1. ASSUME NEW s \in Server, SaveSnapshot(s)
        PROVE  snapshot'[t] # NoSnapshot /\ snapshot'[t].decided_idx >= snapshot[t].decided_idx
    <3>1. CASE s = t
      <4>1. /\ snapshot'[t] = [db |-> database[t], decided_idx |-> current_decided_idx[t]]
            /\ pc[t] = "apply"
        BY <1>1, <2>1, <3>1 DEF SaveSnapshot, EndBatch, AtLoopEnd, TypeOK
      <4>2. snapshot[t].decided_idx <= current_decided_idx[t]
        BY <1>1, <4>1 DEF IndexInv, ServerIndices
      <4>3. database[t] \in Database
        BY <1>1 DEF TypeOK
      <4>4. snapshot'[t] \in DatabaseSnapshot
        BY <2>a, <4>1, <4>3 DEF DatabaseSnapshot
      <4>5. snapshot'[t] # NoSnapshot
        BY <4>4, NoSnapshotAssumption DEF DatabaseSnapshot
      <4> QED BY <2>a, <4>1, <4>2, <4>5
    <3>2. CASE s # t
      <4>1. snapshot'[t] = snapshot[t]
        BY <1>1, <2>1, <3>2 DEF SaveSnapshot, TypeOK
      <4> QED BY <1>1, <2>a, <4>1
    <3> QED BY <3>1, <3>2
  <2>2. CASE UNCHANGED snapshot
    BY <1>1, <2>a, <2>2
  <2>3. (\E s \in Server : SaveSnapshot(s)) \/ UNCHANGED snapshot
    BY <1>1 DEF Next, vars, HandleClientMessage, HandleDecidedEntries, Choose,
           HandleClusterMessage, BeginBatch, SkipEntry, ApplyEntry, NoSave, SaveSnapshotFails,
           Crash, Recover, StartFresh, Start
  <2> QED BY <2>1, <2>2, <2>3
<1>2. TypeOK /\ IndexInv /\ [Next]_vars =>
         [\A s \in Server : snapshot[s] # NoSnapshot =>
             /\ snapshot'[s] # NoSnapshot
             /\ snapshot'[s].decided_idx >= snapshot[s].decided_idx]_vars
  BY <1>1
<1> QED BY <1>2, TypeCorrect, PTL DEF Spec, SnapshotNeverRegresses

-------------------------------------------------------------------------------
\* The abstract state KV sees, by name.
Executed == { [command |-> log[i], reply |-> ReplyTo(state_after[i-1], log[i].kv_cmd)]
              : i \in 1..Len(log) }
Answered == { [command |-> log[r.entry], reply |-> r.reply] : r \in answered }

\* AtomicKV's copy of KVCommands is ours.
LEMMA SameCommands ==
    /\ KV!EmptyDatabase = EmptyDatabase
    /\ \A db, cmd : /\ KV!handle_command(db, cmd) = handle_command(db, cmd)
                    /\ KV!ReplyTo(db, cmd) = ReplyTo(db, cmd)
BY DEF KV!EmptyDatabase, EmptyDatabase, KV!handle_command, handle_command,
       KV!ReplyTo, ReplyTo

\* A reply to entry i, seen by AtomicKV.
LEMMA ReplyIsExecuted ==
    ASSUME NEW i \in 1..Len(log)
    PROVE  [command |-> log[i], reply |-> ReplyTo(state_after[i-1], log[i].kv_cmd)] \in Executed
BY DEF Executed

LEMMA ChooseIsExecute ==
    ASSUME TypeOK, RepliesMatchLog, NEW c \in Command, Choose(c)
    PROVE  KV!Execute(c)
<1>a. Len(log) \in Nat
  BY DEF TypeOK, LogTypeOK
<1>1. /\ c \in proposed /\ ~ Chosen(c) /\ UNCHANGED <<proposed, answered>>
  BY DEF replyVars, Choose, ChooseNext
<1>2. /\ Len(log') = Len(log) + 1 /\ log'[Len(log) + 1] = c
      /\ \A i \in 1..Len(log) : log'[i] = log[i]
      /\ \A i \in 0..Len(log) : state_after'[i] = state_after[i]
      /\ state_after'[Len(log) + 1] = handle_command(state_after[Len(log)], c.kv_cmd)
  BY ChooseEffect
<1>3. \A e \in Executed : e.command # c
  BY <1>1 DEF Executed, Chosen
<1>4. Executed' = Executed \cup
         {[command |-> c, reply |-> ReplyTo(state_after[Len(log)], c.kv_cmd)]}
  <2> DEFINE E(i) == [command |-> log[i],
                      reply |-> ReplyTo(state_after[i-1], log[i].kv_cmd)]
             F(i) == [command |-> log'[i],
                      reply |-> ReplyTo(state_after'[i-1], log'[i].kv_cmd)]
  <2>1. Executed = { E(i) : i \in 1..Len(log) }
    BY DEF Executed
  <2>2. Executed' = { F(i) : i \in 1..Len(log') }
    BY DEF Executed, ReplyTo
  <2>3. ASSUME NEW i \in 1..Len(log) PROVE F(i) = E(i)
    <3>1. i - 1 \in 0..Len(log)
      BY <1>a
    <3> QED BY <1>2, <3>1
  <2>4. F(Len(log) + 1) = [command |-> c, reply |-> ReplyTo(state_after[Len(log)], c.kv_cmd)]
    <3>1. (Len(log) + 1) - 1 = Len(log) /\ Len(log) \in 0..Len(log)
      BY <1>a
    <3> QED BY <1>2, <3>1
  <2>5. 1..Len(log') = 1..Len(log) \cup {Len(log) + 1}
    BY <1>a, <1>2
  <2> HIDE DEF E, F
  <2> QED BY <2>1, <2>2, <2>3, <2>4, <2>5
<1>5. Answered' = Answered
  <2>1. \A r \in answered : log'[r.entry] = log[r.entry]
    BY <1>2 DEF RepliesMatchLog, TypeOK
  <2> QED BY <1>1, <2>1 DEF Answered
<1>6. state_after'[Len(log')] = handle_command(state_after[Len(log)], c.kv_cmd)
  BY <1>2
<1> QED BY <1>1, <1>3, <1>4, <1>5, <1>6, SameCommands DEF KV!Execute, Executed, Answered

LEMMA ApplyIsAnswer ==
    ASSUME TypeOK, IndexInv, StateInv, NEW s \in Server, ApplyEntry(s)
    PROVE  (\E e \in Executed : KV!Answer(e)) \/ UNCHANGED KV!vars
<1> DEFINE i == entry_idx[s]
           r == [entry |-> i, reply |-> ReplyTo(database[s], log[i].kv_cmd)]
           e == [command |-> log[i], reply |-> ReplyTo(state_after[i-1], log[i].kv_cmd)]
<1>1. UNCHANGED <<log, proposed, state_after>>
  BY DEF ApplyEntry, logVars
<1>2. UNCHANGED Executed
  BY <1>1 DEF Executed, ReplyTo
<1>3. CASE UNCHANGED answered
  <2>1. UNCHANGED Answered
    BY <1>1, <1>3 DEF Answered
  <2> QED BY <1>1, <1>2, <2>1 DEF KV!vars, Executed, Answered
<1>4. CASE answered' = answered \cup {r}
  <2>1. i \in 1..Len(log) /\ database[s] = state_after[i-1]
    BY ReplyIsDetermined
  <2>2. e \in Executed
    BY <2>1, ReplyIsExecuted
  <2>3. e = [command |-> log[r.entry], reply |-> r.reply]
    BY <2>1
  <2>4. Answered' = Answered \cup {e}
    <3> HIDE DEF e, r
    <3> QED BY <1>1, <1>4, <2>3 DEF Answered
  <2>5. ASSUME NEW x \in Executed, x = e PROVE KV!Answer(x)
    <3>1. Answered' = Answered \cup {x}
      BY <2>4, <2>5
    <3> QED BY <1>1, <1>2, <3>1 DEF KV!Answer, Executed, Answered
  <2> QED BY <2>2, <2>5
<1> QED BY <1>3, <1>4 DEF ApplyEntry, send_to_client, replyVars

LEMMA MessageIsIssue ==
    ASSUME NEW s \in Server, NEW c \in Command, HandleClientMessage(s, c)
    PROVE  KV!Issue(c)
<1>1. /\ UNCHANGED <<log, state_after, answered>> /\ c \notin proposed
      /\ proposed' = proposed \cup {c}
  BY DEF replyVars, HandleClientMessage, append_to_log, append
<1>2. UNCHANGED <<Executed, Answered>>
  BY <1>1 DEF Executed, Answered, ReplyTo
<1> QED BY <1>1, <1>2 DEF KV!Issue, Executed, Answered

LEMMA KVInit == Init => KV!Init
<1> SUFFICES ASSUME Init PROVE KV!Init
  OBVIOUS
<1>1. state_after[Len(log)] = EmptyDatabase /\ Len(log) = 0 /\ proposed = {} /\ answered = {}
  BY DEF Init, LogInit
<1>2. Executed = {} /\ Answered = {}
  BY <1>1 DEF Executed, Answered
<1> QED BY <1>1, <1>2, SameCommands DEF KV!Init, Executed, Answered

LEMMA KVStep ==
    TypeOK /\ IndexInv /\ StateInv /\ RepliesMatchLog /\ [Next]_vars => [KV!Next]_(KV!vars)
<1> SUFFICES ASSUME TypeOK, IndexInv, StateInv, RepliesMatchLog, [Next]_vars
             PROVE  KV!Next \/ UNCHANGED KV!vars
  OBVIOUS
<1>1. ASSUME NEW s \in Server, NEW c \in Command, HandleClientMessage(s, c)
      PROVE  KV!Next
  BY <1>1, MessageIsIssue DEF KV!Next
<1>2. ASSUME NEW c \in Command, Choose(c)
      PROVE  KV!Next
  BY <1>2, ChooseIsExecute DEF KV!Next
<1>3. ASSUME NEW s \in Server, ApplyEntry(s)
      PROVE  KV!Next \/ UNCHANGED KV!vars
  BY <1>3, ApplyIsAnswer DEF KV!Next, Executed
<1>4. CASE UNCHANGED <<log, proposed, state_after, answered>>
  <2>1. UNCHANGED <<Executed, Answered>>
    BY <1>4 DEF Executed, Answered, ReplyTo
  <2> QED BY <1>4, <2>1 DEF KV!vars, Executed, Answered
<1> QED BY <1>1, <1>2, <1>3, <1>4
        DEF Next, vars, logVars, replyVars, HandleDecidedEntries,
            HandleClusterMessage, BeginBatch, handle_incoming, SkipEntry, NoSave,
            SaveSnapshot, SaveSnapshotFails,
            EndBatch, Crash, Recover, StartFresh, Start

\* The cluster, with its kills, snapshots and replays, implements the atomic map:
\* each command takes effect once, when it is chosen, and every reply that a client's
\* connection takes is the one that instant determined.
THEOREM Linearizable == Spec => ImplementsAtomicKV
<1>1. Init => StateInv /\ ReplyInv
  BY StateInit, ReplyInit
<1>2. TypeOK /\ IndexInv /\ (TypeOK /\ IndexInv)' /\ StateInv /\ ReplyInv /\ [Next]_vars
      => (StateInv /\ ReplyInv)'
  BY StateStep, RepliesMatchStep, NoReplySwallowedStep, ReplyOrderStep DEF ReplyInv
<1>3. TypeOK /\ IndexInv /\ StateInv /\ ReplyInv /\ [Next]_vars => [KV!Next]_(KV!vars)
  BY KVStep DEF ReplyInv
<1> QED BY <1>1, <1>2, <1>3, KVInit, TypeCorrect, PTL DEF Spec, ImplementsAtomicKV, KV!Spec
===============================================================================
