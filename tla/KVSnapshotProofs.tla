--------------------------- MODULE KVSnapshotProofs ---------------------------
(***************************************************************************)
(* What KVSnapshot::create and merge compute, for any keys, values and     *)
(* commands: the loop of create is compared with the replay of the same    *)
(* commands, key by key and command by command.                            *)
(***************************************************************************)
EXTENDS KVSnapshot, ProofBasics

\* What a command does to key k.
Puts(cmd, k) == cmd.op = "Put" /\ cmd.key = k
Deletes(cmd, k) == cmd.op = "Delete" /\ cmd.key = k
Spares(cmd, k) == cmd.op = "Get" \/ cmd.key # k

LEMMA CommandType ==
    ASSUME NEW cmd \in KVCommand
    PROVE  /\ cmd.op \in {"Put", "Delete", "Get"} /\ cmd.key \in Key
           /\ cmd.op = "Put" => cmd.value \in Value /\ cmd.value # NoValue
           /\ \A k \in Key : Puts(cmd, k) \/ Deletes(cmd, k) \/ Spares(cmd, k)
<1>1. cmd.op \in {"Put", "Delete", "Get"} /\ cmd.key \in Key
  BY DEF KVCommand
<1>2. cmd.op = "Put" => cmd.value \in Value /\ cmd.value # NoValue
  BY NoValueAssumption DEF KVCommand
<1> QED BY <1>1, <1>2 DEF Puts, Deletes, Spares

LEMMA HandleEffect ==
    ASSUME NEW d \in Database, NEW cmd \in KVCommand
    PROVE  /\ handle_command(d, cmd) \in Database
           /\ \A k \in Key :
                 /\ Puts(cmd, k) => handle_command(d, cmd)[k] = cmd.value
                 /\ Deletes(cmd, k) => handle_command(d, cmd)[k] = NoValue
                 /\ Spares(cmd, k) => handle_command(d, cmd)[k] = d[k]
<1>1. CASE cmd.op = "Put"
  <2>1. cmd.key \in Key /\ cmd.value \in Value
    BY <1>1, CommandType
  <2>2. handle_command(d, cmd) = [d EXCEPT ![cmd.key] = cmd.value]
    BY <1>1 DEF handle_command
  <2> QED BY <1>1, <2>1, <2>2 DEF Database, Puts, Deletes, Spares
<1>2. CASE cmd.op = "Delete"
  <2>1. cmd.key \in Key
    BY CommandType
  <2>2. handle_command(d, cmd) = [d EXCEPT ![cmd.key] = NoValue]
    BY <1>2 DEF handle_command
  <2> QED BY <1>2, <2>1, <2>2 DEF Database, Puts, Deletes, Spares
<1>3. CASE cmd.op = "Get"
  <2>1. handle_command(d, cmd) = d
    BY <1>3 DEF handle_command
  <2> QED BY <1>3, <2>1 DEF Puts, Deletes, Spares
<1> QED BY <1>1, <1>2, <1>3, CommandType

LEMMA AddEffect ==
    ASSUME NEW s \in Snapshot, NEW cmd \in KVCommand
    PROVE  /\ AddCommand(s, cmd) \in Snapshot
           /\ \A k \in Key :
                 /\ Puts(cmd, k) =>
                       /\ AddCommand(s, cmd).snapshotted[k] = cmd.value
                       /\ k \in AddCommand(s, cmd).deleted_keys <=> k \in s.deleted_keys
                 /\ Deletes(cmd, k) =>
                       /\ AddCommand(s, cmd).snapshotted[k] = NoValue
                       /\ k \in AddCommand(s, cmd).deleted_keys <=>
                             k \in s.deleted_keys \/ s.snapshotted[k] = NoValue
                 /\ Spares(cmd, k) =>
                       /\ AddCommand(s, cmd).snapshotted[k] = s.snapshotted[k]
                       /\ k \in AddCommand(s, cmd).deleted_keys <=> k \in s.deleted_keys
<1>0. s.snapshotted \in Database /\ s.deleted_keys \subseteq Key
  BY DEF Snapshot
<1>1. CASE cmd.op = "Put"
  <2>1. cmd.key \in Key /\ cmd.value \in Value
    BY <1>1, CommandType
  <2>2. AddCommand(s, cmd) = [s EXCEPT !.snapshotted[cmd.key] = cmd.value]
    BY <1>1 DEF AddCommand
  <2> QED BY <1>0, <1>1, <2>1, <2>2 DEF Snapshot, Database, Puts, Deletes, Spares
<1>2. CASE cmd.op = "Delete" /\ s.snapshotted[cmd.key] # NoValue
  <2>1. cmd.key \in Key
    BY CommandType
  <2>2. AddCommand(s, cmd) = [s EXCEPT !.snapshotted[cmd.key] = NoValue]
    BY <1>2 DEF AddCommand
  <2> QED BY <1>0, <1>2, <2>1, <2>2 DEF Snapshot, Database, Puts, Deletes, Spares
<1>3. CASE cmd.op = "Delete" /\ s.snapshotted[cmd.key] = NoValue
  <2>1. cmd.key \in Key
    BY CommandType
  <2>2. AddCommand(s, cmd) = [s EXCEPT !.deleted_keys = @ \cup {cmd.key}]
    BY <1>3 DEF AddCommand
  <2> QED BY <1>0, <1>3, <2>1, <2>2 DEF Snapshot, Database, Puts, Deletes, Spares
<1>4. CASE cmd.op = "Get"
  <2>1. AddCommand(s, cmd) = s
    BY <1>4 DEF AddCommand
  <2> QED BY <1>4, <2>1 DEF Puts, Deletes, Spares
<1> QED BY <1>1, <1>2, <1>3, <1>4, CommandType

-------------------------------------------------------------------------------
(* The two loops *)

LEMMA EmptyTypes == EmptyDatabase \in Database /\ EmptySnapshot \in Snapshot
BY DEF EmptyDatabase, Database, EmptySnapshot, Snapshot

\* A function that a loop over cmds defines, and what it then is.
LEMMA AddCommandsEffect ==
    ASSUME NEW cmds \in Seq(KVCommand)
    PROVE  /\ AddCommands(cmds) \in [0..Len(cmds) -> Snapshot]
           /\ AddCommands(cmds)[0] = EmptySnapshot
           /\ \A i \in 1..Len(cmds) :
                 AddCommands(cmds)[i] = AddCommand(AddCommands(cmds)[i - 1], cmds[i])
<1> DEFINE n == Len(cmds)
           next(i, s) == AddCommand(s, cmds[i])
           step == [i \in 0+1..n |-> [s \in Snapshot |-> next(i, s)]]
           Loop(g) == [i \in 0..n |-> IF i = 0 THEN EmptySnapshot ELSE next(i, g[i - 1])]
           f == CHOOSE g : g = Loop(g)
<1>1. n \in Nat /\ \A i \in 1..n : cmds[i] \in KVCommand
  OBVIOUS
<1>2. \A i \in 1..n : \A s \in Snapshot : next(i, s) \in Snapshot
  BY <1>1, AddEffect
<1>3. step \in [0+1..n -> [Snapshot -> Snapshot]]
  <2> HIDE DEF next
  <2> QED BY <1>1, <1>2
<1>4. Runs(Snapshot, EmptySnapshot, 0, n, step) # {}
  <2> HIDE DEF step, n
  <2> QED BY <1>1, <1>3, EmptyTypes, LoopExists
<1>5. PICK g \in [0..n -> Snapshot] :
         g[0] = EmptySnapshot /\ \A i \in 0+1..n : g[i] = step[i][g[i-1]]
  BY <1>4 DEF Runs
<1>6. g = Loop(g)
  <2>1. ASSUME NEW i \in 0..n, i # 0 PROVE g[i] = next(i, g[i-1])
    <3>1. i \in 0+1..n /\ i-1 \in 0..n
      BY <1>1, <2>1
    <3>2. g[i-1] \in Snapshot /\ g[i] = step[i][g[i-1]]
      BY <1>5, <3>1
    <3> HIDE DEF next
    <3> QED BY <3>1, <3>2
  <2> HIDE DEF next, step
  <2> QED BY <1>5, <2>1
<1>7. f = Loop(f)
  <2> HIDE DEF Loop
  <2> QED BY <1>6
<1>8. f[0] = EmptySnapshot /\ \A i \in 1..n : f[i] = next(i, f[i-1])
  <2> HIDE DEF f, next
  <2> QED BY <1>1, <1>7
<1>9. 0..n \subseteq { i \in 0..n : f[i] \in Snapshot }
  <2> DEFINE T == { i \in 0..n : f[i] \in Snapshot }
  <2>1. 0 \in T
    <3> HIDE DEF f
    <3> QED BY <1>1, <1>8, EmptyTypes
  <2>2. ASSUME NEW i \in 0..n, i \in T /\ i < n PROVE i + 1 \in T
    <3>1. i + 1 \in 1..n /\ i + 1 \in 0..n /\ (i + 1) - 1 = i
      BY <1>1, <2>2
    <3> HIDE DEF f, next
    <3> QED BY <1>2, <1>8, <2>2, <3>1
  <2>3. 0..n \subseteq T
    <3> HIDE DEF T
    <3> QED BY <1>1, <2>1, <2>2, IntervalInduction
  <2> QED BY <2>3
<1>10. f \in [0..n -> Snapshot]
  <2>1. \A i \in 0..n : f[i] \in Snapshot
    BY <1>9
  <2> HIDE DEF f, next
  <2> QED BY <1>7, <2>1
<1>11. AddCommands(cmds) = f
  BY DEF AddCommands
<1> HIDE DEF f
<1> QED BY <1>8, <1>10, <1>11

LEMMA ReplaysEffect ==
    ASSUME NEW base \in Database, NEW cmds \in Seq(KVCommand)
    PROVE  /\ Replays(base, cmds) \in [0..Len(cmds) -> Database]
           /\ Replays(base, cmds)[0] = base
           /\ \A i \in 1..Len(cmds) :
                 Replays(base, cmds)[i] = handle_command(Replays(base, cmds)[i - 1], cmds[i])
<1> DEFINE n == Len(cmds)
           next(i, d) == handle_command(d, cmds[i])
           step == [i \in 0+1..n |-> [d \in Database |-> next(i, d)]]
           Loop(g) == [i \in 0..n |-> IF i = 0 THEN base ELSE next(i, g[i - 1])]
           f == CHOOSE g : g = Loop(g)
<1>1. n \in Nat /\ \A i \in 1..n : cmds[i] \in KVCommand
  OBVIOUS
<1>2. \A i \in 1..n : \A d \in Database : next(i, d) \in Database
  BY <1>1, HandleEffect
<1>3. step \in [0+1..n -> [Database -> Database]]
  <2> HIDE DEF next
  <2> QED BY <1>1, <1>2
<1>4. Runs(Database, base, 0, n, step) # {}
  <2> HIDE DEF step, n
  <2> QED BY <1>1, <1>3, LoopExists
<1>5. PICK g \in [0..n -> Database] :
         g[0] = base /\ \A i \in 0+1..n : g[i] = step[i][g[i-1]]
  BY <1>4 DEF Runs
<1>6. g = Loop(g)
  <2>1. ASSUME NEW i \in 0..n, i # 0 PROVE g[i] = next(i, g[i-1])
    <3>1. i \in 0+1..n /\ i-1 \in 0..n
      BY <1>1, <2>1
    <3>2. g[i-1] \in Database /\ g[i] = step[i][g[i-1]]
      BY <1>5, <3>1
    <3> HIDE DEF next
    <3> QED BY <3>1, <3>2
  <2> HIDE DEF next, step
  <2> QED BY <1>5, <2>1
<1>7. f = Loop(f)
  <2> HIDE DEF Loop
  <2> QED BY <1>6
<1>8. f[0] = base /\ \A i \in 1..n : f[i] = next(i, f[i-1])
  <2> HIDE DEF f, next
  <2> QED BY <1>1, <1>7
<1>9. 0..n \subseteq { i \in 0..n : f[i] \in Database }
  <2> DEFINE T == { i \in 0..n : f[i] \in Database }
  <2>1. 0 \in T
    <3> HIDE DEF f
    <3> QED BY <1>1, <1>8
  <2>2. ASSUME NEW i \in 0..n, i \in T /\ i < n PROVE i + 1 \in T
    <3>1. i + 1 \in 1..n /\ i + 1 \in 0..n /\ (i + 1) - 1 = i
      BY <1>1, <2>2
    <3> HIDE DEF f, next
    <3> QED BY <1>2, <1>8, <2>2, <3>1
  <2>3. 0..n \subseteq T
    <3> HIDE DEF T
    <3> QED BY <1>1, <2>1, <2>2, IntervalInduction
  <2> QED BY <2>3
<1>10. f \in [0..n -> Database]
  <2>1. \A i \in 0..n : f[i] \in Database
    BY <1>9
  <2> HIDE DEF f, next
  <2> QED BY <1>7, <2>1
<1>11. Replays(base, cmds) = f
  BY DEF Replays
<1> HIDE DEF f
<1> QED BY <1>8, <1>10, <1>11

LEMMA ReplayType ==
    ASSUME NEW base \in Database, NEW cmds \in Seq(KVCommand)
    PROVE  Replay(base, cmds) \in Database
<1>1. Len(cmds) \in 0..Len(cmds)
  OBVIOUS
<1> QED BY <1>1, ReplaysEffect DEF Replay

\* One more command.
LEMMA ReplayAppend ==
    ASSUME NEW base \in Database, NEW cmds \in Seq(KVCommand), NEW cmd \in KVCommand
    PROVE  Replay(base, Append(cmds, cmd)) = handle_command(Replay(base, cmds), cmd)
<1> DEFINE n == Len(cmds)
           more == Append(cmds, cmd)
           r == Replays(base, cmds)
           q == Replays(base, more)
           T == { i \in 0..n : q[i] = r[i] }
<1>1. n \in Nat /\ more \in Seq(KVCommand) /\ Len(more) = n + 1
  OBVIOUS
<1>2. more[n + 1] = cmd /\ \A i \in 1..n : more[i] = cmds[i]
  OBVIOUS
<1>3. /\ r[0] = base /\ \A i \in 1..n : r[i] = handle_command(r[i - 1], cmds[i])
  BY ReplaysEffect
<1>4. /\ q[0] = base /\ \A i \in 1..(n + 1) : q[i] = handle_command(q[i - 1], more[i])
  <2> HIDE DEF more
  <2>1. 1..Len(more) = 1..(n + 1)
    BY <1>1
  <2> QED BY <1>1, <2>1, ReplaysEffect
<1> HIDE DEF n, more, r, q
<1>5. 0 \in T
  BY <1>1, <1>3, <1>4
<1>6. ASSUME NEW i \in 0..n, i \in T /\ i < n PROVE i + 1 \in T
  <2>1. i + 1 \in 1..n /\ i + 1 \in 1..(n + 1) /\ i + 1 \in 0..n /\ (i + 1) - 1 = i
    BY <1>1, <1>6
  <2> QED BY <1>2, <1>3, <1>4, <1>6, <2>1
<1>7. 0..n \subseteq T
  <2> HIDE DEF T
  <2> QED BY <1>1, <1>5, <1>6, IntervalInduction
<1>8. q[n] = r[n]
  <2>1. n \in 0..n
    BY <1>1
  <2> QED BY <1>7, <2>1
<1>9. q[n + 1] = handle_command(r[n], cmd)
  <2>1. n + 1 \in 1..(n + 1) /\ (n + 1) - 1 = n
    BY <1>1
  <2> QED BY <1>2, <1>4, <1>8, <2>1
<1>10. Replay(base, more) = q[n + 1] /\ Replay(base, cmds) = r[n]
  BY <1>1 DEF Replay, q, r, n
<1> QED BY <1>9, <1>10 DEF more

LEMMA ReplayNothing ==
    ASSUME NEW base \in Database
    PROVE  Replay(base, <<>>) = base
<1>1. <<>> \in Seq(KVCommand) /\ Len(<<>>) = 0
  OBVIOUS
<1> QED BY <1>1, ReplaysEffect DEF Replay

-------------------------------------------------------------------------------
(* create and merge *)

\* What the loop of create has after all commands, and what create and merge make of it.
LEMMA CreateEffect ==
    ASSUME NEW cmds \in Seq(KVCommand)
    PROVE  LET s == AddCommands(cmds)[Len(cmds)]
           IN  /\ s \in Snapshot /\ create(cmds) \in Snapshot
               /\ create(cmds).snapshotted = s.snapshotted
               /\ create(cmds).deleted_keys =
                     { k \in s.deleted_keys : s.snapshotted[k] = NoValue }
<1> DEFINE s == AddCommands(cmds)[Len(cmds)]
<1>1. Len(cmds) \in 0..Len(cmds)
  OBVIOUS
<1>2. s \in Snapshot
  BY <1>1, AddCommandsEffect
<1>3. create(cmds) = [s EXCEPT !.deleted_keys = { k \in @ : s.snapshotted[k] = NoValue }]
  BY DEF create
<1> HIDE DEF s
<1>4. /\ create(cmds) \in Snapshot /\ create(cmds).snapshotted = s.snapshotted
      /\ create(cmds).deleted_keys = { k \in s.deleted_keys : s.snapshotted[k] = NoValue }
  BY <1>2, <1>3 DEF Snapshot
<1> QED BY <1>2, <1>4 DEF s

LEMMA MergeEffect ==
    ASSUME NEW old \in Snapshot, NEW delta \in Snapshot
    PROVE  /\ merge(old, delta) \in Snapshot
           /\ \A k \in Key : merge(old, delta).snapshotted[k] =
                 IF k \in delta.deleted_keys THEN NoValue
                 ELSE IF delta.snapshotted[k] # NoValue THEN delta.snapshotted[k]
                 ELSE old.snapshotted[k]
<1> DEFINE m(k) == IF k \in delta.deleted_keys THEN NoValue
                   ELSE IF delta.snapshotted[k] # NoValue THEN delta.snapshotted[k]
                   ELSE old.snapshotted[k]
<1>1. old.snapshotted \in Database /\ delta.snapshotted \in Database
  BY DEF Snapshot
<1>2. \A k \in Key : m(k) \in Value \cup {NoValue}
  BY <1>1 DEF Database
<1>3. merge(old, delta).snapshotted = [k \in Key |-> m(k)]
  BY DEF merge
<1>4. merge(old, delta).deleted_keys = {} /\ merge(old, delta) =
         [snapshotted |-> [k \in Key |-> m(k)], deleted_keys |-> {}]
  BY DEF merge
<1> HIDE DEF m
<1>5. merge(old, delta) \in Snapshot
  BY <1>2, <1>4 DEF Snapshot, Database
<1>6. \A k \in Key : merge(old, delta).snapshotted[k] = m(k)
  BY <1>3
<1> QED BY <1>5, <1>6 DEF m

\* A fact about the loop of create and the replay of the same commands that holds at
\* the start and after each command holds at the end.
LEMMA LoopInduction ==
    ASSUME NEW cmds \in Seq(KVCommand), NEW T, 0 \in T,
           \A i \in 0..Len(cmds) : i \in T /\ i < Len(cmds) => i + 1 \in T
    PROVE  Len(cmds) \in T
<1> DEFINE n == Len(cmds)
<1>1. n \in Nat /\ n \in 0..n
  OBVIOUS
<1>2. 0..n \subseteq T
  <2> HIDE DEF n
  <2>1. 0 \in Nat
    OBVIOUS
  <2> QED BY <1>1, <2>1, IntervalInduction DEF n
<1> QED BY <1>1, <1>2

\* One turn of both loops.
LEMMA BothStep ==
    ASSUME NEW base \in Database, NEW cmds \in Seq(KVCommand),
           NEW i \in 0..Len(cmds), i < Len(cmds), NEW k \in Key
    PROVE  LET s == AddCommands(cmds)
               r == Replays(base, cmds)
               cmd == cmds[i + 1]
           IN  /\ i + 1 \in 0..Len(cmds) /\ i + 1 \in 1..Len(cmds) /\ cmd \in KVCommand
               /\ Puts(cmd, k) \/ Deletes(cmd, k) \/ Spares(cmd, k)
               /\ Puts(cmd, k) =>
                     /\ r[i + 1][k] = cmd.value /\ s[i + 1].snapshotted[k] = cmd.value
                     /\ cmd.value # NoValue
                     /\ k \in s[i + 1].deleted_keys <=> k \in s[i].deleted_keys
               /\ Deletes(cmd, k) =>
                     /\ r[i + 1][k] = NoValue /\ s[i + 1].snapshotted[k] = NoValue
                     /\ k \in s[i + 1].deleted_keys <=>
                           k \in s[i].deleted_keys \/ s[i].snapshotted[k] = NoValue
               /\ Spares(cmd, k) =>
                     /\ r[i + 1][k] = r[i][k]
                     /\ s[i + 1].snapshotted[k] = s[i].snapshotted[k]
                     /\ k \in s[i + 1].deleted_keys <=> k \in s[i].deleted_keys
<1> DEFINE s == AddCommands(cmds)
           r == Replays(base, cmds)
           cmd == cmds[i + 1]
<1>1. /\ i + 1 \in 0..Len(cmds) /\ i + 1 \in 1..Len(cmds) /\ (i + 1) - 1 = i
      /\ cmd \in KVCommand
  OBVIOUS
<1>2. s[i + 1] = AddCommand(s[i], cmd) /\ s[i] \in Snapshot
  BY <1>1, AddCommandsEffect
<1>3. r[i + 1] = handle_command(r[i], cmd) /\ r[i] \in Database
  BY <1>1, ReplaysEffect
<1>4. /\ Puts(cmd, k) \/ Deletes(cmd, k) \/ Spares(cmd, k)
      /\ Puts(cmd, k) => cmd.value # NoValue
  BY <1>1, CommandType DEF Puts
<1> HIDE DEF s, r, cmd
<1>5. /\ Puts(cmd, k) => r[i + 1][k] = cmd.value
      /\ Deletes(cmd, k) => r[i + 1][k] = NoValue
      /\ Spares(cmd, k) => r[i + 1][k] = r[i][k]
  BY <1>1, <1>3, HandleEffect
<1>6. /\ Puts(cmd, k) => /\ s[i + 1].snapshotted[k] = cmd.value
                         /\ k \in s[i + 1].deleted_keys <=> k \in s[i].deleted_keys
      /\ Deletes(cmd, k) => /\ s[i + 1].snapshotted[k] = NoValue
                            /\ k \in s[i + 1].deleted_keys <=>
                                  k \in s[i].deleted_keys \/ s[i].snapshotted[k] = NoValue
      /\ Spares(cmd, k) => /\ s[i + 1].snapshotted[k] = s[i].snapshotted[k]
                           /\ k \in s[i + 1].deleted_keys <=> k \in s[i].deleted_keys
  BY <1>1, <1>2, AddEffect
<1> QED BY <1>1, <1>4, <1>5, <1>6 DEF s, r, cmd

-------------------------------------------------------------------------------
(* The loop of create against the replay *)

LEMMA LoopStart ==
    ASSUME NEW base \in Database, NEW cmds \in Seq(KVCommand), NEW k \in Key
    PROVE  /\ AddCommands(cmds)[0].snapshotted[k] = NoValue
           /\ k \notin AddCommands(cmds)[0].deleted_keys
           /\ Replays(base, cmds)[0][k] = base[k]
           /\ 0 \in 0..Len(cmds)
<1>1. Len(cmds) \in Nat
  OBVIOUS
<1> QED BY <1>1, AddCommandsEffect, ReplaysEffect DEF EmptySnapshot, EmptyDatabase

\* Into an empty map.
LEMMA CreateKey ==
    ASSUME NEW cmds \in Seq(KVCommand), NEW k \in Key
    PROVE  create(cmds).snapshotted[k] = Replay(EmptyDatabase, cmds)[k]
<1> DEFINE s == AddCommands(cmds)
           r == Replays(EmptyDatabase, cmds)
           T == { i \in 0..Len(cmds) : s[i].snapshotted[k] = r[i][k] }
<1>1. 0 \in T
  BY LoopStart, EmptyTypes DEF EmptyDatabase
<1>2. ASSUME NEW i \in 0..Len(cmds), i \in T /\ i < Len(cmds) PROVE i + 1 \in T
  BY <1>2, BothStep, EmptyTypes
<1>3. Len(cmds) \in T
  <2> HIDE DEF T
  <2> QED BY <1>1, <1>2, LoopInduction
<1> QED BY <1>3, CreateEffect DEF Replay

\* A key that the replay leaves in the map is put by create, or is untouched by it.
LEMMA KeptKey ==
    ASSUME NEW base \in Database, NEW cmds \in Seq(KVCommand), NEW k \in Key,
           Replay(base, cmds)[k] # NoValue
    PROVE  \/ create(cmds).snapshotted[k] = Replay(base, cmds)[k]
           \/ /\ create(cmds).snapshotted[k] = NoValue /\ k \notin create(cmds).deleted_keys
              /\ Replay(base, cmds)[k] = base[k]
<1> DEFINE s == AddCommands(cmds)
           r == Replays(base, cmds)
           T == { i \in 0..Len(cmds) : \/ r[i][k] = NoValue
                                       \/ s[i].snapshotted[k] = r[i][k]
                                       \/ /\ s[i].snapshotted[k] = NoValue
                                          /\ k \notin s[i].deleted_keys
                                          /\ r[i][k] = base[k] }
<1>1. 0 \in T
  BY LoopStart
<1>2. ASSUME NEW i \in 0..Len(cmds), i \in T /\ i < Len(cmds) PROVE i + 1 \in T
  BY <1>2, BothStep
<1>3. Len(cmds) \in T
  <2> HIDE DEF T
  <2> QED BY <1>1, <1>2, LoopInduction
<1> QED BY <1>3, CreateEffect DEF Replay

\* A key that is not put before it is deleted for good is as the replay leaves it, or is
\* among those to delete if the replay has deleted it, or is untouched.
LEMMA FollowedKey ==
    ASSUME NEW base \in Database, NEW cmds \in Seq(KVCommand), NEW k \in Key,
           k \notin PutThenDeleted(cmds)
    PROVE  \/ /\ create(cmds).snapshotted[k] = Replay(base, cmds)[k]
              /\ Replay(base, cmds)[k] = NoValue => k \in create(cmds).deleted_keys
           \/ /\ create(cmds).snapshotted[k] = NoValue /\ k \notin create(cmds).deleted_keys
              /\ Replay(base, cmds)[k] = base[k]
<1> DEFINE n == Len(cmds)
           s == AddCommands(cmds)
           r == Replays(base, cmds)
           W == Writes(k, cmds)
           Untouched(i) == /\ \A w \in W : w > i
                           /\ s[i].snapshotted[k] = NoValue /\ k \notin s[i].deleted_keys
                           /\ r[i][k] = base[k]
           FirstWrite(i) == \E f \in W : /\ f <= i /\ \A w \in W : f <= w
                                         /\ k \in s[i].deleted_keys \/ cmds[f].op = "Put"
           LastWrite(i) == \E l \in W : /\ l <= i /\ \A w \in W : w <= l \/ w > i
                                       /\ cmds[l].op = "Delete"
           Written(i) == /\ s[i].snapshotted[k] = r[i][k]
                         /\ FirstWrite(i)
                         /\ r[i][k] = NoValue => LastWrite(i)
           T == { i \in 0..n : Untouched(i) \/ Written(i) }
<1>0. n \in Nat /\ W \subseteq 1..n
  BY DEF Writes
<1>1. 0 \in T
  <2>1. \A w \in W : w > 0
    BY <1>0
  <2> QED BY <2>1, LoopStart
<1>2. ASSUME NEW i \in 0..n, i \in T /\ i < n PROVE i + 1 \in T
  <2> DEFINE cmd == cmds[i + 1]
  <2>0. i \in Nat /\ i + 1 \in 0..n /\ i + 1 \in 1..n /\ \A w \in W : w \in Nat
    BY <1>0, <1>2
  <2>1. Puts(cmd, k) \/ Deletes(cmd, k) \/ Spares(cmd, k)
    BY <1>2, BothStep
  <2>2. CASE Spares(cmd, k)
    <3>1. i + 1 \notin W
      BY <2>2 DEF Writes, Spares
    <3>2. \A w \in W : (w > i <=> w > i + 1)
      BY <2>0, <3>1
    <3>3. r[i + 1][k] = r[i][k] /\ s[i + 1].snapshotted[k] = s[i].snapshotted[k]
          /\ (k \in s[i + 1].deleted_keys <=> k \in s[i].deleted_keys)
      BY <1>2, <2>2, BothStep
    <3>4. \A w \in W : w <= i => w <= i + 1
      BY <2>0
    <3> HIDE DEF s, r, W, n
    <3>5. Untouched(i) => Untouched(i + 1)
      BY <3>2, <3>3
    <3>6. FirstWrite(i) => FirstWrite(i + 1)
      BY <3>3, <3>4
    <3>7. LastWrite(i) => LastWrite(i + 1)
      BY <3>2, <3>4
    <3>8. Written(i) => Written(i + 1)
      <4> HIDE DEF FirstWrite, LastWrite
      <4> QED BY <3>3, <3>6, <3>7
    <3> HIDE DEF Untouched, Written
    <3> QED BY <1>2, <2>0, <3>5, <3>8
  <2>3. CASE Puts(cmd, k)
    <3>1. /\ r[i + 1][k] = s[i + 1].snapshotted[k] /\ r[i + 1][k] # NoValue
          /\ k \in s[i + 1].deleted_keys <=> k \in s[i].deleted_keys
      BY <1>2, <2>3, BothStep
    <3>2. i + 1 \in W /\ cmd.op = "Put"
      BY <2>0, <2>3 DEF Writes, Puts
    <3>3. FirstWrite(i + 1)
      <4> HIDE DEF s, r, W, n
      <4>1. CASE FirstWrite(i)
        <5>1. \A w \in W : w <= i => w <= i + 1
          BY <2>0
        <5> QED BY <3>1, <4>1, <5>1
      <4>2. CASE Untouched(i)
        <5>1. \A w \in W : w > i => i + 1 <= w
          BY <2>0
        <5>2. i + 1 <= i + 1
          BY <2>0
        <5> QED BY <3>2, <4>2, <5>1, <5>2
      <4> QED BY <1>2, <4>1, <4>2
    <3>4. Written(i + 1)
      <4> HIDE DEF FirstWrite, LastWrite, s, r
      <4> QED BY <3>1, <3>3
    <3> HIDE DEF Untouched, Written
    <3> QED BY <2>0, <3>4
  <2>4. CASE Deletes(cmd, k)
    <3>1. /\ r[i + 1][k] = NoValue /\ s[i + 1].snapshotted[k] = NoValue
          /\ k \in s[i + 1].deleted_keys <=>
                k \in s[i].deleted_keys \/ s[i].snapshotted[k] = NoValue
      BY <1>2, <2>4, BothStep
    <3>2. i + 1 \in W /\ cmd.op = "Delete"
      BY <2>0, <2>4 DEF Writes, Deletes
    <3>3. FirstWrite(i + 1)
      <4> HIDE DEF s, r, W, n
      <4>1. CASE FirstWrite(i)
        <5>1. \A w \in W : w <= i => w <= i + 1
          BY <2>0
        <5> QED BY <3>1, <4>1, <5>1
      <4>2. CASE Untouched(i)
        <5>1. \A w \in W : w > i => i + 1 <= w
          BY <2>0
        <5>2. i + 1 <= i + 1
          BY <2>0
        <5> QED BY <3>1, <3>2, <4>2, <5>1, <5>2
      <4> QED BY <1>2, <4>1, <4>2
    <3>4. LastWrite(i + 1)
      <4>1. i + 1 <= i + 1 /\ \A w \in W : w <= i + 1 \/ w > i + 1
        BY <2>0
      <4> HIDE DEF W
      <4> QED BY <3>2, <4>1
    <3>5. Written(i + 1)
      <4> HIDE DEF FirstWrite, LastWrite, s, r
      <4> QED BY <3>1, <3>3, <3>4
    <3> HIDE DEF Untouched, Written
    <3> QED BY <2>0, <3>5
  <2> QED BY <2>1, <2>2, <2>3, <2>4
<1>3. n \in T
  <2> HIDE DEF T
  <2> QED BY <1>1, <1>2, LoopInduction
<1>4. /\ create(cmds).snapshotted[k] = s[n].snapshotted[k]
      /\ k \in create(cmds).deleted_keys <=>
            k \in s[n].deleted_keys /\ s[n].snapshotted[k] = NoValue
      /\ Replay(base, cmds)[k] = r[n][k]
  BY CreateEffect DEF Replay
<1>5. FirstWrite(n) /\ LastWrite(n) => k \in s[n].deleted_keys
  <2>1. SUFFICES ASSUME FirstWrite(n), LastWrite(n), k \notin s[n].deleted_keys
                 PROVE  k \in PutThenDeleted(cmds)
    OBVIOUS
  <2>2. PICK f \in W : (\A w \in W : f <= w) /\ cmds[f].op = "Put"
    BY <2>1
  <2>3. PICK l \in W : (\A w \in W : w <= l \/ w > n) /\ cmds[l].op = "Delete"
    BY <2>1
  <2>4. \A w \in W : w <= l
    BY <1>0, <2>3
  <2> QED BY <2>2, <2>3, <2>4 DEF PutThenDeleted
<1> HIDE DEF s, r, W, n, FirstWrite, LastWrite
<1> QED BY <1>3, <1>4, <1>5

LEMMA MergedEffect ==
    ASSUME NEW base \in Database, NEW cmds \in Seq(KVCommand), NEW k \in Key
    PROVE  Merged(base, cmds)[k] =
              IF k \in create(cmds).deleted_keys THEN NoValue
              ELSE IF create(cmds).snapshotted[k] # NoValue THEN create(cmds).snapshotted[k]
              ELSE base[k]
<1> DEFINE old == [snapshotted |-> base, deleted_keys |-> {}]
<1>1. old \in Snapshot /\ old.snapshotted = base
  BY DEF Snapshot
<1>2. create(cmds) \in Snapshot
  BY CreateEffect
<1>3. Merged(base, cmds) = merge(old, create(cmds)).snapshotted
  BY DEF Merged
<1> HIDE DEF old
<1>4. merge(old, create(cmds)).snapshotted[k] =
         IF k \in create(cmds).deleted_keys THEN NoValue
         ELSE IF create(cmds).snapshotted[k] # NoValue THEN create(cmds).snapshotted[k]
         ELSE old.snapshotted[k]
  BY <1>1, <1>2, MergeEffect
<1> QED BY <1>1, <1>3, <1>4

-------------------------------------------------------------------------------
(* Theorems *)

\* Snapshots, entries and maps have their types through any number of compactions, and
\* no compaction is overdue.
THEOREM TypeCorrect == Spec => []TypeOK
<1>1. Init => TypeOK
  BY EmptyTypes, MaxEntriesAssumption DEF Init, TypeOK
<1>2. TypeOK /\ [Next]_vars => TypeOK'
  <2> SUFFICES ASSUME TypeOK, [Next]_vars PROVE TypeOK'
    OBVIOUS
  <2>1. ASSUME NEW cmd \in KVCommand, Decide(cmd) PROVE TypeOK'
    <3>1. entries' \in Seq(KVCommand) /\ Len(entries') <= MaxEntries
      BY <2>1, MaxEntriesAssumption DEF TypeOK, Decide
    <3>2. db' \in Database
      BY <2>1, HandleEffect DEF TypeOK, Decide
    <3> QED BY <2>1, <3>1, <3>2 DEF TypeOK, Decide
  <2>2. CASE Compact
    <3>1. snap' \in Snapshot
      BY <2>2, CreateEffect, MergeEffect DEF TypeOK, Compact
    <3>2. entries' \in Seq(KVCommand) /\ Len(entries') <= MaxEntries
      BY <2>2, MaxEntriesAssumption DEF Compact
    <3> QED BY <2>2, <3>1, <3>2 DEF TypeOK, Compact
  <2>3. CASE UNCHANGED vars
    BY <2>3 DEF TypeOK, vars
  <2> QED BY <2>1, <2>2, <2>3 DEF Next
<1> QED BY <1>1, <1>2, PTL DEF Spec

\* A snapshot created of a whole log is the replay of that log, whatever is put, deleted
\* and put back in it (KVSnapshot::create).
THEOREM CreateReplays == Spec => []CreateIsReplay
<1>1. TypeOK => CreateIsReplay
  <2>1. SUFFICES ASSUME TypeOK PROVE CreateIsReplay
    OBVIOUS
  <2>2. entries \in Seq(KVCommand)
    BY <2>1 DEF TypeOK
  <2>3. /\ create(entries).snapshotted \in Database
        /\ Replay(EmptyDatabase, entries) \in Database
    BY <2>2, CreateEffect, ReplayType, EmptyTypes DEF Snapshot
  <2>4. \A k \in Key : create(entries).snapshotted[k] = Replay(EmptyDatabase, entries)[k]
    BY <2>2, CreateKey
  <2> QED BY <2>3, <2>4 DEF CreateIsReplay, Database
<1> QED BY <1>1, TypeCorrect, PTL

\* Merging the delta of any commands is replaying them, for every key that they do not put
\* and later delete for good (KVSnapshot::merge).
THEOREM MergeReplaysOthers == Spec => []MergeIsReplayForOthers
<1>1. TypeOK => MergeIsReplayForOthers
  <2>1. SUFFICES ASSUME TypeOK, NEW base \in Database,
                        NEW k \in Key \ PutThenDeleted(entries)
                 PROVE  Merged(base, entries)[k] = Replay(base, entries)[k]
    BY DEF MergeIsReplayForOthers
  <2>2. entries \in Seq(KVCommand)
    BY <2>1 DEF TypeOK
  <2>3. /\ create(entries).snapshotted[k] # NoValue => k \notin create(entries).deleted_keys
    BY <2>2, CreateEffect
  <2> QED BY <2>2, <2>3, FollowedKey, MergedEffect
<1> QED BY <1>1, TypeCorrect, PTL

\* However often the log is compacted, every key of the map is in the snapshot or in the
\* entries after it, with its value: what create and merge get wrong is only a key too
\* many.
THEOREM NoWriteLost == Spec => []NoWriteIsLost
<1>1. Init => NoWriteIsLost
  BY DEF Init, NoWriteIsLost, EmptyDatabase
<1>2. TypeOK /\ NoWriteIsLost /\ [Next]_vars => NoWriteIsLost'
  <2> SUFFICES ASSUME TypeOK, NoWriteIsLost, [Next]_vars, NEW k \in Key, db'[k] # NoValue
               PROVE  Replay(snap.snapshotted, entries)'[k] = db'[k]
    BY DEF NoWriteIsLost
  <2>0. /\ entries \in Seq(KVCommand) /\ snap \in Snapshot /\ db \in Database
        /\ snap.snapshotted \in Database
        /\ db[k] # NoValue => Replay(snap.snapshotted, entries)[k] = db[k]
    BY DEF TypeOK, NoWriteIsLost, Snapshot
  <2>1. ASSUME NEW cmd \in KVCommand, Decide(cmd)
        PROVE  Replay(snap.snapshotted, entries)'[k] = db'[k]
    <3> DEFINE r == Replay(snap.snapshotted, entries)
    <3>1. Replay(snap'.snapshotted, entries') = handle_command(r, cmd)
      BY <2>0, <2>1, ReplayAppend DEF Decide
    <3>2. r \in Database
      BY <2>0, ReplayType
    <3>3. db' = handle_command(db, cmd)
      BY <2>1 DEF Decide
    <3>4. Puts(cmd, k) \/ Deletes(cmd, k) \/ Spares(cmd, k)
      BY CommandType
    <3> HIDE DEF r
    <3>5. handle_command(r, cmd)[k] = db'[k]
      BY <2>0, <3>2, <3>3, <3>4, HandleEffect DEF r
    <3> QED BY <3>1, <3>5
  <2>2. CASE Compact
    <3>1. /\ snap' = merge(snap, create(entries)) /\ entries' = <<>> /\ db' = db
      BY <2>2 DEF Compact
    <3>2. create(entries) \in Snapshot /\ snap' \in Snapshot
      BY <2>0, <3>1, CreateEffect, MergeEffect
    <3>3. Replay(snap'.snapshotted, entries') = snap'.snapshotted
      BY <3>1, <3>2, ReplayNothing DEF Snapshot
    <3>4. \/ create(entries).snapshotted[k] = db[k]
          \/ /\ create(entries).snapshotted[k] = NoValue
             /\ k \notin create(entries).deleted_keys
             /\ db[k] = snap.snapshotted[k]
      BY <2>0, <3>1, KeptKey
    <3>5. create(entries).snapshotted[k] # NoValue => k \notin create(entries).deleted_keys
      BY <2>0, CreateEffect
    <3>6. snap'.snapshotted[k] = IF k \in create(entries).deleted_keys THEN NoValue
                                 ELSE IF create(entries).snapshotted[k] # NoValue
                                      THEN create(entries).snapshotted[k]
                                 ELSE snap.snapshotted[k]
      BY <2>0, <3>1, <3>2, MergeEffect
    <3>7. snap'.snapshotted[k] = db'[k]
      BY <3>1, <3>4, <3>5, <3>6
    <3>8. Replay(snap.snapshotted, entries)' = Replay(snap'.snapshotted, entries')
      OBVIOUS
    <3> QED BY <3>3, <3>7, <3>8
  <2>3. CASE UNCHANGED vars
    BY <2>0, <2>3 DEF vars
  <2> QED BY <2>1, <2>2, <2>3 DEF Next
<1> QED BY <1>1, <1>2, TypeCorrect, PTL DEF Spec
===============================================================================
