------------------------------- MODULE KVServer -------------------------------
(***************************************************************************)
(* OmniPaxosServer (server.rs) and its Database (database.rs): servers     *)
(* propose the commands of their clients, apply the decided log to an      *)
(* in-memory map, answer the commands they coordinate and write the map    *)
(* to a snapshot file, from which they recover after being killed.         *)
(*                                                                         *)
(* A server is one task: it handles one message at a time.  The only       *)
(* handler that is cut into several steps is handle_decided_entries,       *)
(* because a kill can fall between its replies and its snapshot.           *)
(*                                                                         *)
(* send_to_client (network.rs) may drop a reply.  Which connections a      *)
(* server has, and when, is the subject of ShimClient; here it is open.    *)
(***************************************************************************)
EXTENDS OmniPaxosLog, KVCommands

CONSTANTS SNAPSHOT_INTERVAL, \* newly applied entries between two snapshots
          NoSnapshot,        \* the snapshot file does not exist
          DiskErrors,        \* TRUE: reading or writing a snapshot may fail
          MaxCrashes         \* bound: how often servers are killed in all

ASSUME ServerAssumption ==
    /\ SNAPSHOT_INTERVAL \in Nat
    /\ DiskErrors \in BOOLEAN
    /\ MaxCrashes \in Nat
    /\ \A c \in Command : c.coordinator_id \in Server /\ c.kv_cmd \in KVCommand

ASSUME NoSnapshotAssumption ==
    NoSnapshot \notin [db : Database, decided_idx : Nat]

VARIABLES
    pc,                     \* "down", "select" (waiting for a message), "apply"
    \* fields of OmniPaxosServer
    database,
    current_decided_idx,
    snapshot_decided_idx,
    entries_since_snapshot,
    \* locals of handle_decided_entries
    entry_idx,              \* the log position the loop is at
    new_entries_applied,
    \* the rest of the world
    snapshot,               \* the snapshot files
    replies,                \* [entry, reply]: passed to send_to_client since the start
    crashes,
    \* history
    responses,              \* [entry, reply]: every reply ever passed to send_to_client
    answered,               \* those of them that a client's connection took
    state_after             \* state_after[i]: what replaying i entries yields

serverVars == <<pc, database, current_decided_idx, snapshot_decided_idx,
                entries_since_snapshot, entry_idx, new_entries_applied>>
replyVars == <<replies, responses, answered>>
vars == <<logVars, serverVars, snapshot, replyVars, crashes, state_after>>

DatabaseSnapshot == [db : Database, decided_idx : Nat]
SentReply == [entry : Nat, reply : Reply]

TypeOK == /\ LogTypeOK
          /\ pc \in [Server -> {"down", "select", "apply"}]
          /\ database \in [Server -> Database]
          /\ current_decided_idx \in [Server -> Nat]
          /\ snapshot_decided_idx \in [Server -> Nat]
          /\ entries_since_snapshot \in [Server -> Nat]
          /\ entry_idx \in [Server -> Nat]
          /\ new_entries_applied \in [Server -> Nat]
          /\ snapshot \in [Server -> DatabaseSnapshot \cup {NoSnapshot}]
          /\ replies \in [Server -> Seq(SentReply)]
          /\ crashes \in Nat
          /\ responses \subseteq SentReply /\ answered \subseteq responses
          /\ state_after \in [0..Len(log) -> Database]

Init == /\ LogInit
        /\ pc = [s \in Server |-> "select"]
        /\ database = [s \in Server |-> EmptyDatabase]
        /\ current_decided_idx = [s \in Server |-> 0]
        /\ snapshot_decided_idx = [s \in Server |-> 0]
        /\ entries_since_snapshot = [s \in Server |-> 0]
        /\ entry_idx = [s \in Server |-> 1]
        /\ new_entries_applied = [s \in Server |-> 0]
        /\ snapshot = [s \in Server |-> NoSnapshot]
        /\ replies = [s \in Server |-> <<>>]
        /\ crashes = 0
        /\ responses = {} /\ answered = {}
        /\ state_after = [i \in {0} |-> EmptyDatabase]

-------------------------------------------------------------------------------
\* A fresh command; its coordinator is the server the client sent it to.
append_to_log(s, c) == /\ c.coordinator_id = s
                       /\ c \notin proposed
                       /\ append(c)

HandleClientMessage(s, c) ==
    /\ pc[s] = "select"
    /\ append_to_log(s, c)
    /\ UNCHANGED <<serverVars, snapshot, replyVars, crashes, state_after>>

\* The cluster chooses a command; state_after follows the log.
Choose(c) ==
    /\ ChooseNext(c)
    /\ state_after' = [i \in 0..Len(log)+1 |->
          IF i <= Len(log) THEN state_after[i]
                           ELSE handle_command(state_after[Len(log)], c.kv_cmd)]
    /\ UNCHANGED <<serverVars, snapshot, replyVars, crashes>>

\* Mutant of BeginBatch: it reads the decided suffix from the start every time.
BeginBatchFromStart(s, d) ==
    /\ current_decided_idx[s] < d
    /\ pc' = [pc EXCEPT ![s] = "apply"]
    /\ entry_idx' = [entry_idx EXCEPT ![s] = 1]
    /\ current_decided_idx' = [current_decided_idx EXCEPT ![s] = d]
    /\ UNCHANGED <<database, snapshot_decided_idx, entries_since_snapshot,
                   new_entries_applied>>

\* handle_decided_entries up to its loop, when d entries are decided.
BeginBatch(s, d) ==
    /\ current_decided_idx[s] < d
    /\ pc' = [pc EXCEPT ![s] = "apply"]
    /\ entry_idx' = [entry_idx EXCEPT ![s] = current_decided_idx[s] + 1]
    /\ current_decided_idx' = [current_decided_idx EXCEPT ![s] = d]
    /\ UNCHANGED <<database, snapshot_decided_idx, entries_since_snapshot,
                   new_entries_applied>>

\* handle_cluster_messages, for an OmniPaxosMessage.  A message that decides
\* nothing new leaves the server where it is.
HandleClusterMessage(s, d) ==
    /\ pc[s] = "select"
    /\ handle_incoming(s, d)
    /\ BeginBatch(s, d)
    /\ UNCHANGED <<snapshot, replyVars, crashes, state_after>>

\* The loop's test, its `continue`, its body and its end.
AtEntry(s) == pc[s] = "apply" /\ entry_idx[s] <= current_decided_idx[s]
AtLoopEnd(s) == pc[s] = "apply" /\ entry_idx[s] > current_decided_idx[s]
\* Mutants of InSnapshot: no skip at all, and one that takes entries for 0-based.
InSnapshotNever(s) == FALSE
InSnapshotOffByOne(s) == entry_idx[s] <= snapshot_decided_idx[s] + 1
InSnapshot(s) == entry_idx[s] <= snapshot_decided_idx[s]

\* send_to_client drops the reply r when it has no connection under the client's id (after
\* a kill, say, or before apply_connection), or one whose writer task has ended.
send_to_client(r) == answered' = answered \cup {r} \/ UNCHANGED answered

\* Mutant of SkipEntry: it answers again, from the map as the snapshot left it.
SkipEntryAnswers(s) ==
    /\ AtEntry(s)
    /\ InSnapshot(s)
    /\ entry_idx' = [entry_idx EXCEPT ![s] = @ + 1]
    /\ LET response == [entry |-> entry_idx[s],
                        reply |-> ReplyTo(database[s], log[entry_idx[s]].kv_cmd)]
       IN responses' = responses \cup {response} /\ send_to_client(response)
    /\ UNCHANGED <<logVars, pc, database, current_decided_idx,
                   snapshot_decided_idx, entries_since_snapshot,
                   new_entries_applied, snapshot, replies, crashes, state_after>>

SkipEntry(s) ==
    /\ AtEntry(s)
    /\ InSnapshot(s)
    /\ entry_idx' = [entry_idx EXCEPT ![s] = @ + 1]
    /\ UNCHANGED <<logVars, pc, database, current_decided_idx,
                   snapshot_decided_idx, entries_since_snapshot,
                   new_entries_applied, snapshot, replyVars, crashes, state_after>>

\* handle_command on the decided command, and send_to_client if it is ours.
ApplyEntry(s) ==
    /\ AtEntry(s)
    /\ ~ InSnapshot(s)
    /\ LET command == log[entry_idx[s]]
           response == [entry |-> entry_idx[s],
                        reply |-> ReplyTo(database[s], command.kv_cmd)]
       IN /\ database' = [database EXCEPT ![s] = handle_command(@, command.kv_cmd)]
          /\ IF command.coordinator_id = s
             THEN /\ replies' = [replies EXCEPT ![s] = Append(@, response)]
                  /\ responses' = responses \cup {response}
                  /\ send_to_client(response)
             ELSE UNCHANGED replyVars
    /\ new_entries_applied' = [new_entries_applied EXCEPT ![s] = @ + 1]
    /\ entry_idx' = [entry_idx EXCEPT ![s] = @ + 1]
    /\ UNCHANGED <<logVars, pc, current_decided_idx, snapshot_decided_idx,
                   entries_since_snapshot, snapshot, crashes, state_after>>

\* The end of handle_decided_entries: count, and save when it is time.
Unsaved(s) == entries_since_snapshot[s] + new_entries_applied[s]
\* Mutant of SaveDue: one entry too late.
SaveDueLate(s) == new_entries_applied[s] > 0 /\ Unsaved(s) > SNAPSHOT_INTERVAL
SaveDue(s) == new_entries_applied[s] > 0 /\ Unsaved(s) >= SNAPSHOT_INTERVAL

EndBatch(s, since) ==
    /\ AtLoopEnd(s)
    /\ pc' = [pc EXCEPT ![s] = "select"]
    /\ entries_since_snapshot' = [entries_since_snapshot EXCEPT ![s] = since]
    /\ new_entries_applied' = [new_entries_applied EXCEPT ![s] = 0]
    /\ UNCHANGED <<logVars, database, current_decided_idx, snapshot_decided_idx,
                   entry_idx, replyVars, crashes, state_after>>

\* Mutant of NoSave: it subtracts an interval that was not reached (usize underflow).
NoSaveUnderflow(s) == /\ ~ SaveDue(s)
                      /\ EndBatch(s, Unsaved(s) - SNAPSHOT_INTERVAL)
                      /\ UNCHANGED snapshot

NoSave(s) == ~ SaveDue(s) /\ EndBatch(s, Unsaved(s)) /\ UNCHANGED snapshot

\* Mutants of SaveSnapshot: the file names the entries of this batch, not the log
\* position; the file names the position the batch began at.
SaveSnapshotCount(s) ==
    /\ SaveDue(s)
    /\ EndBatch(s, 0)
    /\ snapshot' = [snapshot EXCEPT
          ![s] = [db |-> database[s], decided_idx |-> new_entries_applied[s]]]
SaveSnapshotOldIndex(s) ==
    /\ SaveDue(s)
    /\ EndBatch(s, 0)
    /\ snapshot' = [snapshot EXCEPT
          ![s] = [db |-> database[s],
                  decided_idx |-> current_decided_idx[s] - new_entries_applied[s]]]

\* save_snapshot: the rename replaces the file in one step.
SaveSnapshot(s) ==
    /\ SaveDue(s)
    /\ EndBatch(s, 0)
    /\ snapshot' = [snapshot EXCEPT
          ![s] = [db |-> database[s], decided_idx |-> current_decided_idx[s]]]

\* save_snapshot returns early on an I/O error; its caller cannot tell.
SaveSnapshotFails(s) == /\ DiskErrors
                        /\ SaveDue(s)
                        /\ EndBatch(s, 0)
                        /\ UNCHANGED snapshot

-------------------------------------------------------------------------------
\* The process is killed: memory and unsent replies go, the files stay.  The
\* memory of a dead process is given the values new() starts from.
Crash(s) ==
    /\ pc[s] # "down"
    /\ crashes < MaxCrashes
    /\ crashes' = crashes + 1
    /\ pc' = [pc EXCEPT ![s] = "down"]
    /\ database' = [database EXCEPT ![s] = EmptyDatabase]
    /\ current_decided_idx' = [current_decided_idx EXCEPT ![s] = 0]
    /\ snapshot_decided_idx' = [snapshot_decided_idx EXCEPT ![s] = 0]
    /\ entries_since_snapshot' = [entries_since_snapshot EXCEPT ![s] = 0]
    /\ entry_idx' = [entry_idx EXCEPT ![s] = 1]
    /\ new_entries_applied' = [new_entries_applied EXCEPT ![s] = 0]
    /\ replies' = [replies EXCEPT ![s] = <<>>]
    /\ UNCHANGED <<logVars, snapshot, responses, answered, state_after>>

\* Mutant of Start: it takes the entries the log already knows as applied.
StartAtDecided(s, db, idx) ==
    /\ pc[s] = "down"
    /\ pc' = [pc EXCEPT ![s] = "select"]
    /\ database' = [database EXCEPT ![s] = db]
    /\ snapshot_decided_idx' = [snapshot_decided_idx EXCEPT ![s] = idx]
    /\ current_decided_idx' = [current_decided_idx EXCEPT ![s] = decided_idx[s]]
    /\ entry_idx' = [entry_idx EXCEPT ![s] = decided_idx[s] + 1]
    /\ UNCHANGED <<logVars, entries_since_snapshot, new_entries_applied, snapshot,
                   replyVars, crashes, state_after>>

Start(s, db, idx) ==
    /\ pc[s] = "down"
    /\ pc' = [pc EXCEPT ![s] = "select"]
    /\ database' = [database EXCEPT ![s] = db]
    /\ snapshot_decided_idx' = [snapshot_decided_idx EXCEPT ![s] = idx]
    /\ UNCHANGED <<logVars, current_decided_idx, entries_since_snapshot,
                   entry_idx, new_entries_applied, snapshot, replyVars, crashes,
                   state_after>>

\* new() when Database::recover finds a snapshot ...
Recover(s) == /\ snapshot[s] # NoSnapshot
              /\ Start(s, snapshot[s].db, snapshot[s].decided_idx)

\* Mutant of StartFresh: the map is lost and its index is not.
StartFreshKeepsIndex(s) ==
    /\ snapshot[s] = NoSnapshot \/ DiskErrors
    /\ Start(s, EmptyDatabase, IF snapshot[s] = NoSnapshot THEN 0
                               ELSE snapshot[s].decided_idx)

\* ... and when it returns None: there is no file, or it cannot be read.
StartFresh(s) == /\ snapshot[s] = NoSnapshot \/ DiskErrors
                 /\ Start(s, EmptyDatabase, 0)

-------------------------------------------------------------------------------
HandleDecidedEntries(s) == \/ SkipEntry(s) \/ ApplyEntry(s)
                           \/ NoSave(s) \/ SaveSnapshot(s) \/ SaveSnapshotFails(s)

Next == \/ \E c \in Command : Choose(c)
        \/ \E s \in Server :
              \/ \E c \in Command : HandleClientMessage(s, c)
              \/ \E d \in decided_idx[s]..Len(log) : HandleClusterMessage(s, d)
              \/ HandleDecidedEntries(s)
              \/ Crash(s) \/ Recover(s) \/ StartFresh(s)

Spec == Init /\ [][Next]_vars

\* A running server finishes the handler it is in, a killed one is started again
\* (as the recovery test does), and the messages of the leader keep coming.
Fairness == \A s \in Server :
    /\ WF_vars(HandleDecidedEntries(s))
    /\ WF_vars(Recover(s) \/ StartFresh(s))
    /\ WF_vars(\E d \in decided_idx[s]..Len(log) : HandleClusterMessage(s, d))

FairSpec == Spec /\ Fairness

-------------------------------------------------------------------------------
\* What the loop has brought the database of a running server to.
Applied(s) == IF entry_idx[s] - 1 < snapshot_decided_idx[s]
              THEN snapshot_decided_idx[s]
              ELSE entry_idx[s] - 1

\* The log position the snapshot file names.
Saved(s) == IF snapshot[s] = NoSnapshot THEN 0 ELSE snapshot[s].decided_idx

\* A running server's map is the replay of a prefix of the decided log, with no
\* entry applied twice or left out, whatever kills, snapshots and re-deliveries
\* brought it there (the skip in handle_decided_entries).
DatabaseIsLogPrefix ==
    \A s \in Server : pc[s] # "down" =>
        /\ Applied(s) <= decided_idx[s]
        /\ database[s] = state_after[Applied(s)]

\* A snapshot file holds the replay of exactly the decided_idx entries it names,
\* and never of more than the server durably knows to be decided.
SnapshotIsLogPrefix ==
    \A s \in Server : snapshot[s] # NoSnapshot =>
        /\ snapshot[s].decided_idx <= decided_idx[s]
        /\ snapshot[s].db = state_after[snapshot[s].decided_idx]

\* Every reply passed to send_to_client is the one the agreed log determines, even
\* one that is sent again after a restart, and its command was durably decided before.
RepliesMatchLog ==
    \A r \in responses :
        /\ r.entry \in 1..Len(log)
        /\ r.entry <= decided_idx[log[r.entry].coordinator_id]
        /\ r.reply = ReplyTo(state_after[r.entry - 1], log[r.entry].kv_cmd)

\* Skipping what the snapshot holds swallows no reply: before an entry goes into a
\* snapshot, or the loop passes it, its coordinator has given its reply to
\* send_to_client (which may still drop it).
NoReplySwallowed ==
    \A s \in Server : \A i \in 1..Len(log) :
        /\ log[i].coordinator_id = s
        /\ \/ i < entry_idx[s]
           \/ snapshot[s] # NoSnapshot /\ i <= snapshot[s].decided_idx
        => \E r \in responses : r.entry = i

\* Between two starts a server gives its replies to send_to_client in log order, and for
\* no entry twice.
RepliesInLogOrder ==
    \A s \in Server : \A i, j \in 1..Len(replies[s]) :
        i < j => replies[s][i].entry < replies[s][j].entry

\* On a disk that works, a server that waits for messages has fewer than
\* SNAPSHOT_INTERVAL applied entries that its snapshot lacks.
ReplayIsBounded ==
    ~ DiskErrors => \A s \in Server :
        pc[s] = "select" /\ current_decided_idx[s] > Saved(s) =>
            current_decided_idx[s] - Saved(s) < SNAPSHOT_INTERVAL

\* A snapshot is never replaced by an older one, even by a server that could not
\* read its snapshot and replays the log from the start.
SnapshotNeverRegresses ==
    [][\A s \in Server : snapshot[s] # NoSnapshot =>
          /\ snapshot'[s] # NoSnapshot
          /\ snapshot'[s].decided_idx >= snapshot[s].decided_idx]_vars

\* The servers together are one atomic map: the instant a command takes effect
\* is the one in which the cluster chooses it.
KV == INSTANCE AtomicKV WITH
         store <- state_after[Len(log)],
         issued <- proposed,
         executed <- { [command |-> log[i],
                        reply |-> ReplyTo(state_after[i-1], log[i].kv_cmd)]
                       : i \in 1..Len(log) },
         answered <- { [command |-> log[r.entry], reply |-> r.reply] : r \in answered }
ImplementsAtomicKV == KV!Spec

\* Every command the cluster chose is executed by its coordinator and its reply given
\* to send_to_client, even when the coordinator is killed before or after it learned of
\* it.  That is not to say that the client gets it: the connection of a killed
\* coordinator's client is gone (see ShimClient, ConnectedCallerIsAnswered).
ChosenIsReplied ==
    \A c \in Command :
        Chosen(c) ~> \E r \in responses : log[r.entry] = c

\* Every server ends with the state of the whole log.
ServersConverge ==
    <>[](\A s \in Server : /\ pc[s] = "select"
                           /\ database[s] = state_after[Len(log)])
===============================================================================
