--------------------------- MODULE ShimClientProofs ---------------------------
(***************************************************************************)
(* Theorems about ShimClient for any callers, any channel capacity and any *)
(* number of kills, restarts and broken connections.  SafeInv says where   *)
(* each request is, whatever is restarted; RestartInv, over it, what the   *)
(* request and client ids say as long as only one process is restarted.    *)
(* Both together make every step one that CallerContract allows.           *)
(***************************************************************************)
EXTENDS ShimClient, ProofBasics

\* The requests on their way to the server.
OnTheWay == ToSet(to_server)

\* A caller's request is queued, on the way or proposed: in one place, and once.
PlaceInv ==
    /\ IsInjective(http_rx) /\ IsInjective(to_server)
    /\ \A r, q \in OnTheWay : r.caller = q.caller => r = q
    /\ \A c, d \in proposed : c.caller = d.caller => c = d
    /\ ToSet(http_rx) \cap CallersOf(OnTheWay) = {}
    /\ ToSet(http_rx) \cap CallersOf(proposed) = {}
    /\ CallersOf(OnTheWay) \cap CallersOf(proposed) = {}
    /\ conn # "up" => OnTheWay = {}
    /\ task = "connect" => conn = "none"

Placed == ToSet(http_rx) \cup CallersOf(OnTheWay) \cup CallersOf(proposed)

\* A handler that has not handed over its request yet, or reports that it was
\* not sent.
NotSent(k) == \/ http[k] \in {"idle", "sending"}
              \/ response[k].type \in {"disconnected", "unavailable"}

ResponseInv == \A k \in Caller :
    /\ http[k] # "answered" <=> response[k].type = "none"
    /\ response[k].type # "reply" => response[k].entry = 0
    /\ NotSent(k) => k \notin Placed

\* The log holds proposed commands, each once.
LogInv == /\ \A i \in 1..Len(log) : log[i] \in proposed
          /\ \A i, j \in 1..Len(log) : log[i] = log[j] => i = j

\* The commands proposed under the ids that this client process gave out.
OfThisProcess ==
    { c \in proposed : restarts = 0 \/ (conn = "up" /\ c.client_id = client_id) }

\* Everything that goes by an id of this client process.
Current == pending \cup OnTheWay \cup OfThisProcess

\* Client ids as long as the server was never killed.
NumberInv == crashes = 0 =>
    /\ server_up
    /\ \A c \in proposed : c.client_id <= max_client_id
    /\ conn = "up" => client_id <= max_client_id

\* As long as only one of the processes is restarted, the ids of this client process
\* name one caller each, and so do the routes of all proposed commands.
RouteInv == OneRestarts =>
    /\ \A r \in Current : r.id < next_request_id
    /\ \A r, q \in Current : r.id = q.id => r.caller = q.caller
    /\ \A c, d \in proposed :
          c.client_id = d.client_id /\ c.id = d.id => c.caller = d.caller

\* A reply that has not been received yet is to an entry of the log; while only one
\* process is restarted, it finds no other request pending than that entry's.
MessageInv == \A i \in 1..Len(server_messages) :
    LET m == server_messages[i] IN
    m.type # "StartSignal" =>
        /\ m.entry \in 1..Len(log)
        /\ OneRestarts => /\ m.id < next_request_id
                          /\ \A r \in pending :
                                r.id = m.id => r.caller = log[m.entry].caller

-------------------------------------------------------------------------------
LEMMA ReplyType ==
    ASSUME TypeOK, NEW e \in 1..Len(log)
    PROVE  /\ ReplyTo(e) \in ServerMessage
           /\ ReplyTo(e).type # "StartSignal"
           /\ ReplyTo(e).entry = e
           /\ ReplyTo(e).id = log[e].id
<1>1. log[e] \in LogCommand
  BY DEF TypeOK
<1>2. log[e].id \in Nat /\ e \in Nat
  BY <1>1 DEF LogCommand
<1> QED BY <1>2 DEF ReplyTo, ServerMessage

\* The messages after handle_decided_entries are those before it and replies to the
\* entries it handles that carry the id of the connection.
LEMMA MessagesAfterEffect ==
    ASSUME TypeOK, NEW d \in current_decided_idx+1..Len(log)
    PROVE  /\ MessagesAfter(d) \in Seq(ServerMessage)
           /\ \A i \in 1..Len(MessagesAfter(d)) :
                 \/ \E j \in 1..Len(server_messages) :
                       MessagesAfter(d)[i] = server_messages[j]
                 \/ \E e \in 1..Len(log) :
                       log[e].client_id = client_id /\ MessagesAfter(d)[i] = ReplyTo(e)
<1> DEFINE a == current_decided_idx
           IsReply(m) == \E e \in 1..Len(log) :
                            log[e].client_id = client_id /\ m = ReplyTo(e)
           Good == { q \in Seq(ServerMessage) : \A i \in 1..Len(q) :
                        \/ \E j \in 1..Len(server_messages) : q[i] = server_messages[j]
                        \/ IsReply(q[i]) }
           next(e, q) == IF log[e].client_id = client_id THEN Append(q, ReplyTo(e)) ELSE q
           step == [e \in a+1..d |-> [q \in Good |-> next(e, q)]]
           Loop(f) == [e \in a..d |-> IF e = a THEN server_messages
                                      ELSE IF log[e].client_id = client_id
                                           THEN Append(f[e-1], ReplyTo(e))
                                           ELSE f[e-1]]
           sent == CHOOSE f : f = Loop(f)
<1>1. a \in Nat /\ d \in Nat /\ a <= d
  BY DEF TypeOK
<1>2. server_messages \in Good
  BY DEF TypeOK
<1>3. ASSUME NEW e \in a+1..d, NEW q \in Good
      PROVE  next(e, q) \in Good
  <2>1. e \in 1..Len(log)
    BY <1>1
  <2>2. ReplyTo(e) \in ServerMessage
    BY <2>1, ReplyType
  <2>3. CASE log[e].client_id = client_id
    <3>1. IsReply(ReplyTo(e))
      BY <2>1, <2>3
    <3>2. /\ Append(q, ReplyTo(e)) \in Seq(ServerMessage)
          /\ Len(Append(q, ReplyTo(e))) = Len(q) + 1
          /\ \A i \in 1..Len(q) : Append(q, ReplyTo(e))[i] = q[i]
          /\ Append(q, ReplyTo(e))[Len(q) + 1] = ReplyTo(e)
      BY <2>2
    <3> HIDE DEF IsReply
    <3>3. \A i \in 1..Len(q) : \/ \E j \in 1..Len(server_messages) : q[i] = server_messages[j]
                               \/ IsReply(q[i])
      OBVIOUS
    <3>4. Len(q) \in Nat
      OBVIOUS
    <3>5. ASSUME NEW i \in 1..Len(q)+1
          PROVE  \/ \E j \in 1..Len(server_messages) : Append(q, ReplyTo(e))[i] = server_messages[j]
                 \/ IsReply(Append(q, ReplyTo(e))[i])
      <4>1. CASE i = Len(q) + 1
        BY <4>1, <3>1, <3>2
      <4>2. CASE i # Len(q) + 1
        <5>1. i \in 1..Len(q)
          BY <4>2, <3>4
        <5> QED BY <5>1, <3>2, <3>3
      <4> QED BY <4>1, <4>2
    <3> QED BY <2>3, <3>2, <3>5
  <2>4. CASE log[e].client_id # client_id
    BY <2>4
  <2> QED BY <2>3, <2>4
<1>4. step \in [a+1..d -> [Good -> Good]]
  <2> HIDE DEF Good, next
  <2> QED BY <1>3
<1>5. Runs(Good, server_messages, a, d, step) # {}
  <2> HIDE DEF Good, step, a
  <2> QED BY <1>1, <1>2, <1>4, LoopExists
<1>6. PICK f \in [a..d -> Good] :
         f[a] = server_messages /\ \A e \in a+1..d : f[e] = step[e][f[e-1]]
  BY <1>5 DEF Runs
<1>7. f = Loop(f)
  <2>1. ASSUME NEW e \in a..d, e # a
        PROVE  step[e][f[e-1]] = next(e, f[e-1])
    <3>1. e \in a+1..d /\ e-1 \in a..d
      BY <1>1, <2>1
    <3>2. f[e-1] \in Good
      BY <3>1
    <3> HIDE DEF Good, next
    <3> QED BY <3>1, <3>2
  <2>2. \A e \in a..d : f[e] = IF e = a THEN server_messages ELSE next(e, f[e-1])
    <3>1. \A e \in a..d : e # a => e \in a+1..d
      BY <1>1
    <3> HIDE DEF Good, next, step
    <3> QED BY <1>6, <2>1, <3>1
  <2> HIDE DEF Good, step
  <2> QED BY <2>2
<1>8. sent = Loop(sent)
  <2> HIDE DEF Loop
  <2> QED BY <1>7
<1>9. a..d \subseteq { e \in a..d : sent[e] \in Good }
  <2> DEFINE T == { e \in a..d : sent[e] \in Good }
  <2>1. sent[a] = server_messages
    <3>1. a \in a..d
      BY <1>1
    <3> HIDE DEF sent
    <3> QED BY <1>8, <3>1
  <2>2. a \in T
    <3> HIDE DEF sent, Good
    <3> QED BY <1>1, <1>2, <2>1
  <2>3. ASSUME NEW n \in a..d, n \in T /\ n < d
        PROVE  n + 1 \in T
    <3>1. n + 1 \in a+1..d /\ n + 1 \in a..d /\ n + 1 # a /\ (n + 1) - 1 = n
      BY <1>1, <2>3
    <3>2. sent[n+1] = next(n+1, sent[n])
      <4> HIDE DEF sent
      <4> QED BY <1>8, <3>1
    <3>3. sent[n] \in Good
      BY <2>3
    <3> HIDE DEF sent, next, Good
    <3> QED BY <1>3, <3>1, <3>2, <3>3
  <2>4. a..d \subseteq T
    <3> HIDE DEF T, a
    <3> QED BY <1>1, <2>2, <2>3, IntervalInduction
  <2> QED BY <2>4
<1>10. sent[d] \in Good
  <2>1. d \in a..d
    BY <1>1
  <2> HIDE DEF sent, Good
  <2> QED BY <1>9, <2>1
<1>11. MessagesAfter(d) = sent[d]
  BY DEF MessagesAfter
<1> HIDE DEF sent
<1> QED BY <1>10, <1>11

-------------------------------------------------------------------------------
(* Type correctness *)

LEMMA ErrorResponseType == \A e \in Error : ErrorResponse(e) \in Response
BY DEF ErrorResponse, Response

LEMMA RespondType ==
    ASSUME TypeOK, NEW ks, NEW r \in Response, Respond(ks, r)
    PROVE  /\ http' \in [Caller -> {"idle", "sending", "waiting", "answered"}]
           /\ response' \in [Caller -> Response]
BY DEF TypeOK, Respond

LEMMA TypeInit == Init => TypeOK
<1> SUFFICES ASSUME Init PROVE TypeOK
  OBVIOUS
<1>1. NoResponse \in Response
  BY DEF NoResponse, Response
<1>2. CHANNEL \in Nat /\ Len(http_rx) = 0
  BY ShimAssumption DEF Init
<1>3. /\ http \in [Caller -> {"idle", "sending", "waiting", "answered"}]
      /\ response \in [Caller -> Response]
  BY <1>1 DEF Init
<1>4. /\ http_rx \in Seq(Caller) /\ Len(http_rx) <= CHANNEL
      /\ to_server \in Seq(Request) /\ server_messages \in Seq(ServerMessage)
      /\ log \in Seq(LogCommand)
  BY <1>2 DEF Init
<1>5. conn \in ConnState
  BY DEF Init, ConnState
<1>6. /\ {max_client_id, client_id, current_decided_idx, saved} \subseteq Nat
      /\ {crashes, drops, restarts} \subseteq Nat
      /\ next_request_id \in Nat
  BY DEF Init
<1>7. /\ pending_puts \subseteq Request /\ pending_gets \subseteq Request
      /\ proposed \subseteq LogCommand
      /\ task \in {"connect", "register", "start", "run", "panicked"}
      /\ started \in BOOLEAN /\ server_up \in BOOLEAN /\ applied_conn \in BOOLEAN
  BY DEF Init
<1> QED BY <1>3, <1>4, <1>5, <1>6, <1>7 DEF TypeOK

\* What is common to the messages the client task takes off its queue.
LEMMA HeadMessage ==
    ASSUME TypeOK, server_messages # <<>>
    PROVE  /\ 1 \in 1..Len(server_messages)
           /\ Head(server_messages) = server_messages[1]
           /\ Head(server_messages) \in ServerMessage
           /\ Tail(server_messages) \in Seq(ServerMessage)
           /\ Len(Tail(server_messages)) = Len(server_messages) - 1
           /\ \A i \in 1..Len(Tail(server_messages)) :
                 /\ i + 1 \in 1..Len(server_messages)
                 /\ Tail(server_messages)[i] = server_messages[i+1]
BY DEF TypeOK

LEMMA TypeStep == TypeOK /\ [Next]_vars => TypeOK'
<1> SUFFICES ASSUME TypeOK, [Next]_vars PROVE TypeOK'
  OBVIOUS
<1> USE DEF TypeOK, shimVars, taskVars, connVars, serverVars, logVars, bounds
<1>1. ASSUME NEW k \in Caller, HttpRequest(k) PROVE TypeOK'
  <2>1. NoResponse \in Response
    BY DEF NoResponse, Response
  <2> QED BY <1>1, <2>1 DEF HttpRequest
<1>2. ASSUME NEW k \in Caller, HttpSend(k) PROVE TypeOK'
  <2>1. CHANNEL \in Nat /\ Len(http_rx) \in Nat
    BY ShimAssumption
  <2>2. http_rx' \in Seq(Caller) /\ Len(http_rx') = Len(http_rx) + 1
    BY <1>2 DEF HttpSend
  <2>3. Len(http_rx') <= CHANNEL
    BY <1>2, <2>1, <2>2 DEF HttpSend, HasRoom
  <2> QED BY <1>2, <2>2, <2>3 DEF HttpSend
<1>3. ASSUME NEW k \in Caller, HttpUnavailable(k) \/ HttpTimeout(k) PROVE TypeOK'
  <2>1. ErrorResponse("unavailable") \in Response /\ ErrorResponse("timeout") \in Response
    BY ErrorResponseType DEF Error
  <2>2. PICK r \in Response : /\ http' = [http EXCEPT ![k] = "answered"]
                              /\ response' = [response EXCEPT ![k] = r]
    BY <1>3, <2>1 DEF HttpUnavailable, HttpTimeout
  <2>3. /\ http' \in [Caller -> {"idle", "sending", "waiting", "answered"}]
        /\ response' \in [Caller -> Response]
    BY <2>2
  <2> QED BY <1>3, <2>3 DEF HttpUnavailable, HttpTimeout
<1>4. CASE HandleHttp
  <2>1. /\ http_rx' \in Seq(Caller) /\ Len(http_rx') <= CHANNEL
        /\ Head(http_rx) \in Caller
    <3>1. http_rx # <<>> /\ http_rx' = Tail(http_rx)
      BY <1>4 DEF HandleHttp
    <3>2. http_rx \in Seq(Caller) /\ Len(http_rx) <= CHANNEL /\ CHANNEL \in Nat
      BY ShimAssumption
    <3> HIDE DEF TypeOK
    <3> QED BY <3>1, <3>2
  <2>2. /\ [id |-> next_request_id, caller |-> Head(http_rx)] \in Request
        /\ [id |-> PendingKey, caller |-> Head(http_rx)] \in Request
    BY <2>1 DEF Request, PendingKey
  <2>3. pending_puts' \subseteq Request /\ pending_gets' \subseteq Request
    BY <1>4, <2>2 DEF HandleHttp, AddPending, Insert
  <2>4. conn' \in ConnState /\ to_server' \in Seq(Request)
    <3> DEFINE r == [id |-> next_request_id, caller |-> Head(http_rx)]
    <3>1. Send(r)
      BY <1>4 DEF HandleHttp
    <3>2. Append(to_server, r) \in Seq(Request)
      BY <2>2
    <3> HIDE DEF r
    <3> QED BY <3>1, <3>2 DEF Send, ConnState
  <2>5. next_request_id' \in Nat
    BY <1>4 DEF HandleHttp, NextRequestId
  <2> QED BY <1>4, <2>1, <2>3, <2>4, <2>5 DEF HandleHttp
<1>5. CASE HandleHttpFails
  <2>1. http_rx' \in Seq(Caller) /\ Len(http_rx') <= CHANNEL
    BY <1>5, ShimAssumption DEF HandleHttpFails
  <2>2. ErrorResponse("disconnected") \in Response
    BY ErrorResponseType DEF Error
  <2>3. /\ http' \in [Caller -> {"idle", "sending", "waiting", "answered"}]
        /\ response' \in [Caller -> Response]
    BY <1>5, <2>2, RespondType DEF HandleHttpFails
  <2> QED BY <1>5, <2>1, <2>3 DEF HandleHttpFails, ConnState
<1>6. CASE IgnoreStartSignal
  BY <1>6, HeadMessage DEF IgnoreStartSignal
<1>7. CASE HandleReply
  <2>1. /\ Head(server_messages).type # "StartSignal"
        /\ Head(server_messages) \in ServerMessage
        /\ server_messages' \in Seq(ServerMessage)
    BY <1>7, HeadMessage DEF HandleReply
  <2>2. Head(server_messages).entry \in Nat
    BY <2>1 DEF ServerMessage
  <2>3. [type |-> "reply", entry |-> Head(server_messages).entry] \in Response
    BY <2>2 DEF Response
  <2>4. PICK ks : Respond(ks, [type |-> "reply", entry |-> Head(server_messages).entry])
    BY <1>7 DEF HandleReply
  <2>5. /\ http' \in [Caller -> {"idle", "sending", "waiting", "answered"}]
        /\ response' \in [Caller -> Response]
    BY <2>3, <2>4, RespondType
  <2>6. pending_puts' \subseteq Request /\ pending_gets' \subseteq Request
    BY <1>7 DEF HandleReply
  <2> QED BY <1>7, <2>1, <2>5, <2>6 DEF HandleReply
<1>8. ErrorResponse("dropped") \in Response /\ ErrorResponse("lost") \in Response
  BY ErrorResponseType DEF Error
<1>9. CASE HandleReplyPanics
  <2>1. /\ http' \in [Caller -> {"idle", "sending", "waiting", "answered"}]
        /\ response' \in [Caller -> Response]
    BY <1>8, <1>9, RespondType DEF HandleReplyPanics
  <2>2. http_rx' \in Seq(Caller) /\ Len(http_rx') <= CHANNEL
    BY <1>9, ShimAssumption DEF HandleReplyPanics
  <2> QED BY <1>9, <2>1, <2>2, HeadMessage DEF HandleReplyPanics
<1>10. CASE WaitForStartSignal
  BY <1>10, HeadMessage DEF WaitForStartSignal
<1>11. CASE PeriodicCheck
  <2>1. /\ http' \in [Caller -> {"idle", "sending", "waiting", "answered"}]
        /\ response' \in [Caller -> Response]
    BY <1>8, <1>11, RespondType DEF PeriodicCheck, fail_all_pending
  <2> QED BY <1>11, <2>1 DEF PeriodicCheck, fail_all_pending, reconnect_loop
<1>12. CASE Connect
  BY <1>12 DEF Connect, ConnState
<1>13. CASE Register
  <2>1. max_client_id + 1 \in Nat
    OBVIOUS
  <2>2. /\ client_id' = max_client_id + 1 /\ max_client_id' = max_client_id + 1
        /\ conn' \in ConnState
        /\ task' \in {"connect", "register", "start", "run", "panicked"}
    BY <1>13 DEF Register, ConnState, Connected
  <2>3. {max_client_id', client_id', current_decided_idx', saved'} \subseteq Nat
    BY <1>13, <2>1, <2>2 DEF Register
  <2> QED BY <1>13, <2>2, <2>3 DEF Register
<1>14. CASE RegisterUnheard
  BY <1>14 DEF RegisterUnheard, Connected
<1>15. CASE RegisterPanics
  <2>1. /\ http' \in [Caller -> {"idle", "sending", "waiting", "answered"}]
        /\ response' \in [Caller -> Response]
    BY <1>8, <1>15, RespondType DEF RegisterPanics
  <2>2. http_rx' \in Seq(Caller) /\ Len(http_rx') <= CHANNEL
    BY <1>15, ShimAssumption DEF RegisterPanics
  <2> QED BY <1>15, <2>1, <2>2 DEF RegisterPanics, ConnState
<1>16. CASE ApplyConnection
  BY <1>16 DEF ApplyConnection
<1>17. CASE SendStartSignal
  <2>1. [type |-> "StartSignal"] \in ServerMessage
    BY DEF ServerMessage
  <2> QED BY <1>17, <2>1 DEF SendStartSignal
<1>18. CASE append_to_log
  <2>1. Head(to_server) \in Request /\ to_server' \in Seq(Request)
    BY <1>18 DEF append_to_log
  <2>2. [client_id |-> client_id, id |-> Head(to_server).id,
         caller |-> Head(to_server).caller] \in LogCommand
    BY <2>1 DEF Request, LogCommand
  <2> QED BY <1>18, <2>1, <2>2 DEF append_to_log
<1>19. ASSUME NEW d \in 1..Len(log), NEW save \in BOOLEAN, HandleDecidedEntries(d, save)
       PROVE  TypeOK'
  <2>1. d \in current_decided_idx+1..Len(log) /\ d \in Nat
    BY <1>19 DEF HandleDecidedEntries
  <2>2. server_messages' \in Seq(ServerMessage)
    BY <1>19, <2>1, MessagesAfterEffect DEF HandleDecidedEntries
  <2> QED BY <1>19, <2>1, <2>2 DEF HandleDecidedEntries
<1>20. ASSUME NEW c \in proposed, Choose(c) PROVE TypeOK'
  BY <1>20 DEF Choose
<1>21. ASSUME Die
       PROVE  /\ conn' \in ConnState /\ to_server' \in Seq(Request)
              /\ applied_conn' \in BOOLEAN /\ client_id' \in Nat
              /\ server_messages' \in Seq(ServerMessage)
  <2>1. conn' \in ConnState /\ to_server' \in Seq(Request)
    BY <1>21 DEF Die, ConnState
  <2>2. \A n \in 0..Len(server_messages) :
           SubSeq(server_messages, 1, n) \in Seq(ServerMessage)
    OBVIOUS
  <2>3. server_messages' \in Seq(ServerMessage)
    BY <1>21, <2>2 DEF Die
  <2>4. applied_conn' = FALSE /\ client_id' \in Nat
    BY <1>21 DEF Die
  <2>5. applied_conn' \in BOOLEAN
    BY <2>4
  <2> HIDE DEF TypeOK
  <2> QED BY <2>1, <2>3, <2>4, <2>5
<1>22. CASE ConnectionDrop
  <2>1. Die /\ {crashes', drops', restarts'} \subseteq Nat
    BY <1>22 DEF ConnectionDrop
  <2> QED BY <1>21, <1>22, <2>1 DEF ConnectionDrop
<1>23. CASE ClientRestart
  <2>1. ErrorResponse("reset") \in Response
    BY ErrorResponseType DEF Error
  <2>2. response' \in [Caller -> Response]
    BY <1>23, <2>1 DEF ClientRestart
  <2>3. http_rx' \in Seq(Caller) /\ Len(http_rx') <= CHANNEL
    BY <1>23, ShimAssumption DEF ClientRestart
  <2>4. http' \in [Caller -> {"idle", "sending", "waiting", "answered"}]
    BY <1>23 DEF ClientRestart
  <2>5. /\ conn' \in ConnState /\ to_server' \in Seq(Request)
        /\ server_messages' \in Seq(ServerMessage)
    BY <1>23 DEF ClientRestart, ConnState
  <2>6. {crashes', drops', restarts'} \subseteq Nat
    BY <1>23 DEF ClientRestart
  <2> QED BY <1>23, <2>2, <2>3, <2>4, <2>5, <2>6 DEF ClientRestart
<1>24. CASE ServerCrash
  <2>1. Die /\ {crashes', drops', restarts'} \subseteq Nat
    BY <1>24 DEF ServerCrash
  <2> QED BY <1>21, <1>24, <2>1 DEF ServerCrash
<1>25. CASE ServerStart
  BY <1>25 DEF ServerStart
<1>26. CASE UNCHANGED vars
  BY <1>26 DEF vars
<1> QED
  BY <1>1, <1>2, <1>3, <1>4, <1>5, <1>6, <1>7, <1>9, <1>10, <1>11, <1>12, <1>13,
     <1>14, <1>15, <1>16, <1>17, <1>18, <1>19, <1>20, <1>22, <1>23, <1>24, <1>25, <1>26
  DEF Next, HttpBranch, MessageBranch, Handshake, ServerStep, Decided

-------------------------------------------------------------------------------
(* Where a request is *)

\* An answer r to the callers ks takes the place of no other answer.
LEMMA RespondEffect ==
    ASSUME TypeOK, ResponseInv, NEW ks, NEW r \in Response, Respond(ks, r),
           r.type # "none", r.type # "reply" => r.entry = 0
    PROVE  \A k \in Caller :
              /\ http'[k] # "answered" <=> response'[k].type = "none"
              /\ response'[k].type # "reply" => response'[k].entry = 0
              /\ NotSent(k)' => \/ NotSent(k)
                                \/ k \in ks /\ r.type \in {"disconnected", "unavailable"}
<1> SUFFICES ASSUME NEW k \in Caller
             PROVE  /\ http'[k] # "answered" <=> response'[k].type = "none"
                    /\ response'[k].type # "reply" => response'[k].entry = 0
                    /\ NotSent(k)' => \/ NotSent(k)
                                      \/ k \in ks /\ r.type \in {"disconnected", "unavailable"}
  OBVIOUS
<1>1. /\ http[k] # "answered" <=> response[k].type = "none"
      /\ response[k].type # "reply" => response[k].entry = 0
  BY DEF ResponseInv
<1>2. CASE k \in ks /\ http[k] = "waiting"
  <2>1. http'[k] = "answered" /\ response'[k] = r
    BY <1>2 DEF Respond
  <2> QED BY <1>2, <2>1 DEF NotSent
<1>3. CASE ~ (k \in ks /\ http[k] = "waiting")
  <2>1. http'[k] = http[k] /\ response'[k] = response[k]
    BY <1>3 DEF Respond
  <2> QED BY <1>1, <2>1 DEF NotSent
<1> QED BY <1>2, <1>3

LEMMA ErrorResponseFields ==
    \A e \in Error : /\ ErrorResponse(e).type = e /\ ErrorResponse(e).entry = 0
                     /\ e # "none" /\ e # "reply"
BY DEF ErrorResponse, Error

\* When queues are emptied or left alone, requests are in no new place.
LEMMA PlacesShrink ==
    ASSUME PlaceInv, proposed' = proposed,
           http_rx' \in {http_rx, <<>>}, to_server' \in {to_server, <<>>},
           to_server' = <<>> \/ (conn' # "up" => conn # "up"),
           task' = "connect" => conn' = "none"
    PROVE  PlaceInv' /\ Placed' \subseteq Placed
<1>1. ToSet(<<>>) = {} /\ IsInjective(<<>>)
  BY DEF ToSet, IsInjective
<1>2. ToSet(http_rx') \subseteq ToSet(http_rx) /\ IsInjective(http_rx')
  BY <1>1 DEF PlaceInv
<1>3. OnTheWay' \subseteq OnTheWay /\ IsInjective(to_server')
  BY <1>1 DEF PlaceInv, OnTheWay
<1>4. conn' # "up" => OnTheWay' = {}
  BY <1>1 DEF PlaceInv, OnTheWay
<1>5. CallersOf(OnTheWay)' \subseteq CallersOf(OnTheWay)
  BY <1>3 DEF CallersOf
<1>6. CallersOf(proposed)' = CallersOf(proposed)
  BY DEF CallersOf
<1> QED BY <1>2, <1>3, <1>4, <1>5, <1>6 DEF PlaceInv, Placed

\* The part of the invariant about a handler whose response does not change.
LEMMA ResponsesStay ==
    ASSUME ResponseInv, UNCHANGED <<http, response>>, Placed' \subseteq Placed
    PROVE  ResponseInv'
BY DEF ResponseInv, NotSent

\* ... and about all of them when an answer that leaves the request open is given.
LEMMA ResponsesGiven ==
    ASSUME TypeOK, ResponseInv, NEW ks, NEW r \in Response, Respond(ks, r),
           r.type \notin {"none", "disconnected", "unavailable"},
           r.type # "reply" => r.entry = 0, Placed' \subseteq Placed
    PROVE  ResponseInv'
<1>1. \A k \in Caller : NotSent(k)' => NotSent(k)
  BY RespondEffect
<1>2. \A k \in Caller : /\ http'[k] # "answered" <=> response'[k].type = "none"
                        /\ response'[k].type # "reply" => response'[k].entry = 0
  BY RespondEffect
<1> QED BY <1>1, <1>2 DEF ResponseInv

LEMMA PlaceInit == Init => PlaceInv /\ ResponseInv /\ LogInv
<1> SUFFICES ASSUME Init PROVE PlaceInv /\ ResponseInv /\ LogInv
  OBVIOUS
<1>1. ToSet(<<>>) = {} /\ IsInjective(<<>>)
  BY DEF ToSet, IsInjective
<1>2. Placed = {} /\ OnTheWay = {} /\ CallersOf(OnTheWay) = {} /\ CallersOf(proposed) = {}
  BY <1>1 DEF Init, Placed, OnTheWay, CallersOf
<1>3. PlaceInv
  BY <1>1, <1>2 DEF Init, PlaceInv
<1>4. ResponseInv
  BY <1>2 DEF Init, ResponseInv, NoResponse
<1>5. LogInv
  BY DEF Init, LogInv
<1> QED BY <1>3, <1>4, <1>5

LEMMA PlaceStep ==
    TypeOK /\ PlaceInv /\ ResponseInv /\ [Next]_vars => PlaceInv' /\ ResponseInv'
<1> SUFFICES ASSUME TypeOK, PlaceInv, ResponseInv, [Next]_vars
             PROVE  PlaceInv' /\ ResponseInv'
  OBVIOUS
<1> USE DEF shimVars, taskVars, connVars, serverVars, logVars, bounds
<1>1. ASSUME NEW k \in Caller, HttpRequest(k) PROVE PlaceInv' /\ ResponseInv'
  <2>1. PlaceInv' /\ Placed' \subseteq Placed
    BY <1>1, PlacesShrink DEF HttpRequest, PlaceInv
  <2>2. /\ \A j \in Caller : http'[j] = IF j = k THEN "sending" ELSE http[j]
        /\ \A j \in Caller : response'[j] = IF j = k THEN NoResponse ELSE response[j]
    BY <1>1 DEF HttpRequest, TypeOK
  <2>3. k \notin Placed
    BY <1>1 DEF HttpRequest, Refused, ResponseInv, NotSent
  <2>4. NoResponse.type = "none" /\ NoResponse.entry = 0
    BY DEF NoResponse
  <2> QED BY <2>1, <2>2, <2>3, <2>4 DEF ResponseInv, NotSent
<1>2. ASSUME NEW k \in Caller, HttpSend(k) PROVE PlaceInv' /\ ResponseInv'
  <2>1. /\ \A j \in Caller : http'[j] = IF j = k THEN "waiting" ELSE http[j]
        /\ http[k] = "sending" /\ response' = response
    BY <1>2 DEF HttpSend, TypeOK
  <2>2. k \notin Placed /\ response[k].type = "none"
    BY <2>1 DEF ResponseInv, NotSent
  <2>3. ToSet(http_rx') = ToSet(http_rx) \cup {k} /\ IsInjective(http_rx')
    BY <1>2, <2>2, QueueAppend DEF HttpSend, Placed, PlaceInv, TypeOK
  <2>4. /\ UNCHANGED <<conn, proposed, to_server>>
        /\ OnTheWay' = OnTheWay
        /\ CallersOf(OnTheWay)' = CallersOf(OnTheWay)
        /\ CallersOf(proposed)' = CallersOf(proposed)
    BY <1>2 DEF HttpSend, OnTheWay, CallersOf
  <2>5. PlaceInv'
    BY <1>2, <2>2, <2>3, <2>4 DEF PlaceInv, Placed, HttpSend
  <2>6. Placed' = Placed \cup {k}
    BY <2>3, <2>4 DEF Placed
  <2>7. ResponseInv'
    BY <2>1, <2>2, <2>6 DEF ResponseInv, NotSent
  <2> QED BY <2>5, <2>7
<1>3. ASSUME NEW k \in Caller, HttpUnavailable(k) PROVE PlaceInv' /\ ResponseInv'
  <2>1. PlaceInv' /\ Placed' \subseteq Placed
    BY <1>3, PlacesShrink DEF HttpUnavailable, PlaceInv
  <2>2. /\ \A j \in Caller : http'[j] = IF j = k THEN "answered" ELSE http[j]
        /\ \A j \in Caller : response'[j] = IF j = k THEN ErrorResponse("unavailable")
                                                     ELSE response[j]
        /\ http[k] = "sending"
    BY <1>3 DEF HttpUnavailable, TypeOK
  <2>3. ErrorResponse("unavailable").type = "unavailable" /\ ErrorResponse("unavailable").entry = 0
    BY ErrorResponseFields DEF Error
  <2> QED BY <2>1, <2>2, <2>3 DEF ResponseInv, NotSent
<1>4. ASSUME NEW k \in Caller, HttpTimeout(k) PROVE PlaceInv' /\ ResponseInv'
  <2>1. PlaceInv' /\ Placed' \subseteq Placed
    BY <1>4, PlacesShrink DEF HttpTimeout, PlaceInv
  <2>2. /\ \A j \in Caller : http'[j] = IF j = k THEN "answered" ELSE http[j]
        /\ \A j \in Caller : response'[j] = IF j = k THEN ErrorResponse("timeout")
                                                     ELSE response[j]
        /\ http[k] = "waiting"
    BY <1>4 DEF HttpTimeout, TypeOK
  <2>3. ErrorResponse("timeout").type = "timeout" /\ ErrorResponse("timeout").entry = 0
    BY ErrorResponseFields DEF Error
  <2> QED BY <2>1, <2>2, <2>3 DEF ResponseInv, NotSent
<1>5. CASE HandleHttp
  <2> DEFINE h == Head(http_rx)
             r == [id |-> next_request_id, caller |-> h]
  <2>1. /\ h \in ToSet(http_rx) /\ h \in Caller
        /\ ToSet(http_rx') = ToSet(http_rx) \ {h} /\ IsInjective(http_rx')
    BY <1>5, QueueTail, QueueElements DEF HandleHttp, TypeOK, PlaceInv
  <2>2. r \in Request /\ r.caller = h
    BY <2>1 DEF Request, TypeOK
  <2>3. h \notin CallersOf(OnTheWay) /\ h \notin CallersOf(proposed) /\ r \notin OnTheWay
    BY <2>1, <2>2 DEF PlaceInv, CallersOf
  <2>4. /\ OnTheWay' \in {OnTheWay, OnTheWay \cup {r}} /\ IsInjective(to_server')
        /\ conn' # "up" => OnTheWay' = {}
    <3>1. Send(r)
      BY <1>5 DEF HandleHttp
    <3>2. CASE conn = "up"
      <4>1. to_server' = Append(to_server, r) /\ conn' = "up"
        BY <3>1, <3>2 DEF Send
      <4>2. to_server \in Seq(Request)
        BY DEF TypeOK
      <4> HIDE DEF r
      <4> QED BY <2>2, <2>3, <4>1, <4>2, QueueAppend DEF OnTheWay, PlaceInv
    <3>3. CASE conn = "dead"
      <4>1. to_server' = to_server
        BY <3>1, <3>3 DEF Send
      <4> QED BY <3>3, <4>1 DEF OnTheWay, PlaceInv
    <3> QED BY <3>1, <3>2, <3>3 DEF Send
  <2>5. CallersOf(OnTheWay)' \subseteq CallersOf(OnTheWay) \cup {h}
    BY <2>2, <2>4 DEF CallersOf
  <2>6. UNCHANGED <<proposed, http, response>> /\ CallersOf(proposed)' = CallersOf(proposed)
    BY <1>5 DEF HandleHttp, CallersOf
  <2>7. \A x, y \in OnTheWay' : x.caller = y.caller => x = y
    BY <2>2, <2>3, <2>4 DEF PlaceInv, CallersOf
  <2>8. PlaceInv'
    BY <1>5, <2>1, <2>3, <2>4, <2>5, <2>6, <2>7 DEF PlaceInv, HandleHttp
  <2>9. Placed' \subseteq Placed
    BY <2>1, <2>5, <2>6 DEF Placed
  <2> QED BY <2>6, <2>8, <2>9, ResponsesStay
<1>6. CASE HandleHttpFails
  <2> DEFINE h == Head(http_rx)
  <2>1. /\ h \in ToSet(http_rx) /\ h \in Caller
        /\ ToSet(http_rx') = ToSet(http_rx) \ {h} /\ IsInjective(http_rx')
    BY <1>6, QueueTail, QueueElements DEF HandleHttpFails, TypeOK, PlaceInv
  <2>2. /\ UNCHANGED <<proposed, to_server>> /\ OnTheWay' = OnTheWay
        /\ CallersOf(OnTheWay)' = CallersOf(OnTheWay)
        /\ CallersOf(proposed)' = CallersOf(proposed)
        /\ conn # "up"
    BY <1>6 DEF HandleHttpFails, CallersOf, OnTheWay
  <2>3. PlaceInv'
    BY <1>6, <2>1, <2>2 DEF PlaceInv, HandleHttpFails
  <2>4. Placed' \subseteq Placed /\ h \notin Placed'
    BY <2>1, <2>2 DEF Placed, PlaceInv
  <2>5. ErrorResponse("disconnected").type = "disconnected" /\ ErrorResponse("disconnected").entry = 0
    BY ErrorResponseFields DEF Error
  <2>6. /\ Respond({h}, ErrorResponse("disconnected"))
        /\ ErrorResponse("disconnected") \in Response
    BY <1>6, ErrorResponseType DEF HandleHttpFails, Error
  <2>7. \A k \in Caller :
           /\ http'[k] # "answered" <=> response'[k].type = "none"
           /\ response'[k].type # "reply" => response'[k].entry = 0
           /\ NotSent(k)' => NotSent(k) \/ k = h
    BY <2>5, <2>6, RespondEffect
  <2>8. ResponseInv'
    BY <2>4, <2>7 DEF ResponseInv
  <2> QED BY <2>3, <2>8
<1>7. CASE IgnoreStartSignal
  BY <1>7, PlacesShrink, ResponsesStay DEF IgnoreStartSignal, PlaceInv
<1>8. CASE HandleReply
  <2>1. PlaceInv' /\ Placed' \subseteq Placed
    BY <1>8, PlacesShrink DEF HandleReply, PlaceInv
  <2> DEFINE r == [type |-> "reply", entry |-> Head(server_messages).entry]
  <2>2. PICK ks : Respond(ks, r)
    BY <1>8 DEF HandleReply
  <2>3. r \in Response
    <3>1. /\ Head(server_messages).type # "StartSignal"
          /\ Head(server_messages) \in ServerMessage
      BY <1>8, HeadMessage DEF HandleReply
    <3> QED BY <3>1 DEF ServerMessage, Response
  <2>4. r.type = "reply"
    OBVIOUS
  <2> HIDE DEF r
  <2> QED BY <2>1, <2>2, <2>3, <2>4, ResponsesGiven
<1>9. /\ ErrorResponse("dropped") \in Response /\ ErrorResponse("dropped").type = "dropped"
      /\ ErrorResponse("lost") \in Response /\ ErrorResponse("lost").type = "lost"
      /\ ErrorResponse("dropped").entry = 0 /\ ErrorResponse("lost").entry = 0
  BY ErrorResponseType, ErrorResponseFields DEF Error
<1>10. CASE HandleReplyPanics
  <2>1. PlaceInv' /\ Placed' \subseteq Placed
    BY <1>10, PlacesShrink DEF HandleReplyPanics, PlaceInv
  <2> QED BY <1>9, <1>10, <2>1, ResponsesGiven DEF HandleReplyPanics
<1>11. CASE WaitForStartSignal
  BY <1>11, PlacesShrink, ResponsesStay DEF WaitForStartSignal, PlaceInv
<1>12. CASE PeriodicCheck
  <2>1. PlaceInv' /\ Placed' \subseteq Placed
    BY <1>12, PlacesShrink DEF PeriodicCheck, fail_all_pending, reconnect_loop
  <2> QED BY <1>9, <1>12, <2>1, ResponsesGiven DEF PeriodicCheck, fail_all_pending
<1>13. CASE Connect
  BY <1>13, PlacesShrink, ResponsesStay DEF Connect, PlaceInv
<1>14. CASE Register
  BY <1>14, PlacesShrink, ResponsesStay DEF Register, Connected
<1>15. CASE RegisterUnheard
  BY <1>15, PlacesShrink, ResponsesStay DEF RegisterUnheard, Connected
<1>16. CASE RegisterPanics
  <2>1. PlaceInv' /\ Placed' \subseteq Placed
    BY <1>16, PlacesShrink DEF RegisterPanics
  <2> QED BY <1>9, <1>16, <2>1, ResponsesGiven DEF RegisterPanics
<1>17. CASE ApplyConnection
  BY <1>17, PlacesShrink, ResponsesStay DEF ApplyConnection, PlaceInv
<1>18. CASE SendStartSignal
  BY <1>18, PlacesShrink, ResponsesStay DEF SendStartSignal, PlaceInv
<1>19. CASE append_to_log
  <2> DEFINE r == Head(to_server)
             c == [client_id |-> client_id, id |-> r.id, caller |-> r.caller]
  <2>1. /\ r \in OnTheWay /\ OnTheWay' = OnTheWay \ {r} /\ IsInjective(to_server')
    BY <1>19, QueueTail DEF append_to_log, TypeOK, PlaceInv, OnTheWay
  <2>2. proposed' = proposed \cup {c} /\ c.caller = r.caller
    BY <1>19 DEF append_to_log
  <2>3. UNCHANGED <<http, response, http_rx, conn, task>> /\ conn = "up"
    BY <1>19 DEF append_to_log
  <2> HIDE DEF r, c
  <2>4. CallersOf(OnTheWay)' = CallersOf(OnTheWay) \ {r.caller}
    BY <2>1 DEF CallersOf, PlaceInv
  <2>5. CallersOf(proposed)' = CallersOf(proposed) \cup {r.caller}
    BY <2>2 DEF CallersOf
  <2>6. r.caller \in CallersOf(OnTheWay)
    BY <2>1 DEF CallersOf
  <2>7. \A x, y \in proposed' : x.caller = y.caller => x = y
    BY <2>2, <2>6 DEF PlaceInv, CallersOf
  <2>8. PlaceInv'
    <3>1. /\ ToSet(http_rx)' \cap CallersOf(OnTheWay)' = {}
          /\ ToSet(http_rx)' \cap CallersOf(proposed)' = {}
          /\ CallersOf(OnTheWay)' \cap CallersOf(proposed)' = {}
      BY <2>3, <2>4, <2>5, <2>6 DEF PlaceInv
    <3>2. \A x, q \in OnTheWay' : x.caller = q.caller => x = q
      BY <2>1 DEF PlaceInv
    <3> QED BY <2>1, <2>3, <2>7, <3>1, <3>2 DEF PlaceInv
  <2>9. Placed' = Placed
    BY <2>3, <2>4, <2>5, <2>6 DEF Placed
  <2> QED BY <2>3, <2>8, <2>9, ResponsesStay
<1>20. ASSUME NEW d \in 1..Len(log), NEW save \in BOOLEAN, HandleDecidedEntries(d, save)
       PROVE  PlaceInv' /\ ResponseInv'
  BY <1>20, PlacesShrink, ResponsesStay DEF HandleDecidedEntries, PlaceInv
<1>21. ASSUME NEW c \in proposed, Choose(c) PROVE PlaceInv' /\ ResponseInv'
  BY <1>21, PlacesShrink, ResponsesStay DEF Choose, PlaceInv
<1>22. CASE ConnectionDrop
  <2>1. PlaceInv' /\ Placed' \subseteq Placed
    BY <1>22, PlacesShrink DEF ConnectionDrop, Die, PlaceInv
  <2> QED BY <1>22, <2>1, ResponsesStay DEF ConnectionDrop
<1>23. CASE ClientRestart
  <2>1. PlaceInv' /\ Placed' \subseteq Placed
    BY <1>23, PlacesShrink DEF ClientRestart
  <2>2. ErrorResponse("reset").type = "reset" /\ ErrorResponse("reset").entry = 0
    BY ErrorResponseFields DEF Error
  <2>3. ASSUME NEW k \in Caller
        PROVE  /\ http'[k] # "answered" <=> response'[k].type = "none"
               /\ response'[k].type # "reply" => response'[k].entry = 0
               /\ NotSent(k)' => NotSent(k)
    <3>1. /\ http'[k] = IF http[k] = "idle" THEN "idle" ELSE "answered"
          /\ response'[k] = IF http[k] \in {"sending", "waiting"}
                            THEN ErrorResponse("reset") ELSE response[k]
          /\ http[k] \in {"idle", "sending", "waiting", "answered"}
      BY <1>23 DEF ClientRestart, TypeOK
    <3>2. /\ http[k] # "answered" <=> response[k].type = "none"
          /\ response[k].type # "reply" => response[k].entry = 0
      BY DEF ResponseInv
    <3> QED BY <2>2, <3>1, <3>2 DEF NotSent
  <2> QED BY <2>1, <2>3 DEF ResponseInv
<1>24. CASE ServerCrash
  <2>1. conn' # "up" /\ (task = "connect" => conn' = "none")
    BY <1>24 DEF ServerCrash, Die, PlaceInv
  <2>2. to_server' = <<>> /\ UNCHANGED <<task, proposed, http_rx, http, response>>
    BY <1>24 DEF ServerCrash, Die
  <2>3. PlaceInv' /\ Placed' \subseteq Placed
    BY <2>1, <2>2, PlacesShrink
  <2> QED BY <2>2, <2>3, ResponsesStay
<1>25. CASE ServerStart
  BY <1>25, PlacesShrink, ResponsesStay DEF ServerStart, PlaceInv
<1>26. CASE UNCHANGED vars
  BY <1>26, PlacesShrink, ResponsesStay DEF vars, PlaceInv
<1> QED
  BY <1>1, <1>2, <1>3, <1>4, <1>5, <1>6, <1>7, <1>8, <1>10, <1>11, <1>12, <1>13,
     <1>14, <1>15, <1>16, <1>17, <1>18, <1>19, <1>20, <1>21, <1>22, <1>23, <1>24,
     <1>25, <1>26
  DEF Next, HttpBranch, MessageBranch, Handshake, ServerStep, Decided

\* The log only grows, by proposed commands it does not hold.
LEMMA LogStep == TypeOK /\ LogInv /\ [Next]_vars => LogInv'
<1> SUFFICES ASSUME TypeOK, LogInv, [Next]_vars PROVE LogInv'
  OBVIOUS
<1>1. CASE log' = log /\ proposed \subseteq proposed'
  BY <1>1 DEF LogInv
<1>2. ASSUME NEW c \in proposed, Choose(c)
      PROVE  LogInv'
  <2>1. /\ log \in Seq(LogCommand) /\ log' = Append(log, c) /\ c \in LogCommand
        /\ proposed' = proposed
        /\ \A i \in 1..Len(log) : log[i] # c
    BY <1>2 DEF Choose, TypeOK
  <2>2. /\ Len(log) \in Nat /\ Len(log') = Len(log) + 1
        /\ \A i \in 1..Len(log) : log'[i] = log[i]
        /\ log'[Len(log) + 1] = c
    BY <2>1
  <2>3. 1..Len(log') = 1..Len(log) \cup {Len(log) + 1}
    BY <2>2
  <2> QED BY <2>1, <2>2, <2>3 DEF LogInv
<1>3. CASE \E d \in 1..Len(log), save \in BOOLEAN : HandleDecidedEntries(d, save)
  BY <1>1, <1>3 DEF HandleDecidedEntries, logVars
<1>4. CASE append_to_log
  BY <1>1, <1>4 DEF append_to_log
<1>5. CASE \E k \in Caller : \/ HttpRequest(k) \/ HttpSend(k)
                             \/ HttpUnavailable(k) \/ HttpTimeout(k)
  BY <1>1, <1>5 DEF HttpRequest, HttpSend, HttpUnavailable, HttpTimeout, logVars
<1>6. CASE HttpBranch \/ MessageBranch \/ PeriodicCheck
  BY <1>1, <1>6
  DEF HttpBranch, HandleHttp, HandleHttpFails, MessageBranch, IgnoreStartSignal,
      HandleReply, HandleReplyPanics, WaitForStartSignal, PeriodicCheck, logVars
<1>7. CASE Handshake \/ ApplyConnection \/ SendStartSignal
  BY <1>1, <1>7
  DEF Handshake, Connect, Register, RegisterUnheard, RegisterPanics,
      ApplyConnection, SendStartSignal, logVars
<1>8. CASE ConnectionDrop \/ ClientRestart \/ ServerCrash \/ ServerStart
  BY <1>1, <1>8 DEF ConnectionDrop, ClientRestart, ServerCrash, ServerStart, logVars
<1>9. CASE UNCHANGED vars
  BY <1>1, <1>9 DEF vars, logVars
<1> QED BY <1>2, <1>3, <1>4, <1>5, <1>6, <1>7, <1>8, <1>9
        DEF Next, ServerStep, Decided

-------------------------------------------------------------------------------
(* What holds whatever is restarted *)

SafeInv == TypeOK /\ PlaceInv /\ ResponseInv /\ LogInv

\* Every request is in one place at most, as SafeInv says, from the start and after
\* every step of the client, the server or the environment.
THEOREM SafeInvariant == Spec => []SafeInv
<1>1. Init => SafeInv
  BY TypeInit, PlaceInit DEF SafeInv
<1>2. SafeInv /\ [Next]_vars => SafeInv'
  BY TypeStep, PlaceStep, LogStep DEF SafeInv
<1> QED BY <1>1, <1>2, PTL DEF Spec

\* Every variable keeps its type; the channel of the shim never exceeds its capacity.
THEOREM TypeCorrect == Spec => []TypeOK
BY SafeInvariant, PTL DEF SafeInv

\* A caller told that the server is disconnected has its request nowhere, so it can
\* never be proposed.
THEOREM DisconnectedIsDefinite == Spec => []DisconnectedMeansNotDone
<1>1. SafeInv => DisconnectedMeansNotDone
  BY DEF SafeInv, ResponseInv, NotSent, Placed, DisconnectedMeansNotDone
<1> QED BY <1>1, SafeInvariant, PTL

\* Two entries of one caller are one proposed command, and the log holds it once.
THEOREM ExecutedAtMostOnce == Spec => []AtMostOnce
<1>1. SafeInv => AtMostOnce
  BY DEF SafeInv, PlaceInv, LogInv, AtMostOnce
<1> QED BY <1>1, SafeInvariant, PTL
-------------------------------------------------------------------------------
(* While only one process is restarted *)

LEMMA NumberStep == TypeOK /\ NumberInv /\ [Next]_vars => NumberInv'
<1> SUFFICES ASSUME TypeOK, NumberInv, [Next]_vars PROVE NumberInv'
  OBVIOUS
<1>1. ASSUME UNCHANGED <<crashes, server_up, proposed, max_client_id>>,
             conn' = "up" => conn = "up" /\ client_id' = client_id
      PROVE  NumberInv'
  BY <1>1 DEF NumberInv
<1>2. CASE Register
  <2>1. /\ max_client_id' = max_client_id + 1 /\ client_id' = max_client_id + 1
        /\ UNCHANGED <<crashes, server_up, proposed>>
    BY <1>2 DEF Register, logVars, bounds
  <2>2. max_client_id \in Nat /\ \A c \in proposed : c.client_id \in Nat
    BY DEF TypeOK, LogCommand
  <2> QED BY <2>1, <2>2 DEF NumberInv
<1>3. CASE append_to_log
  <2>1. PICK c : c.client_id = client_id /\ proposed' = proposed \cup {c}
    BY <1>3 DEF append_to_log
  <2>2. conn = "up" /\ UNCHANGED <<crashes, server_up, max_client_id, conn, client_id>>
    BY <1>3 DEF append_to_log, serverVars, bounds
  <2> QED BY <2>1, <2>2 DEF NumberInv
<1>4. CASE ServerCrash
  <2>1. crashes' = crashes + 1 /\ crashes \in Nat
    BY <1>4 DEF ServerCrash, TypeOK
  <2> QED BY <2>1 DEF NumberInv
<1>5. CASE ServerStart
  <2>1. ~ server_up /\ crashes' = crashes
    BY <1>5 DEF ServerStart, bounds
  <2> QED BY <2>1 DEF NumberInv
<1>6. CASE \E k \in Caller : \/ HttpRequest(k) \/ HttpSend(k)
                             \/ HttpUnavailable(k) \/ HttpTimeout(k)
  BY <1>1, <1>6 DEF HttpRequest, HttpSend, HttpUnavailable, HttpTimeout,
                    connVars, serverVars, logVars, bounds
<1>7. CASE HandleHttp
  <2>1. conn' = "up" => conn = "up"
    BY <1>7 DEF HandleHttp, Send
  <2> QED BY <1>1, <1>7, <2>1 DEF HandleHttp, serverVars, logVars, bounds
<1>8. CASE HandleHttpFails \/ MessageBranch \/ PeriodicCheck
  BY <1>1, <1>8
  DEF HandleHttpFails, MessageBranch, IgnoreStartSignal, HandleReply,
      HandleReplyPanics, WaitForStartSignal, PeriodicCheck,
      connVars, serverVars, logVars, bounds
<1>9. CASE Connect \/ RegisterUnheard \/ RegisterPanics
  BY <1>1, <1>9 DEF Connect, RegisterUnheard, RegisterPanics, connVars, serverVars,
                    logVars, bounds
<1>10. CASE ApplyConnection \/ SendStartSignal
  BY <1>1, <1>10 DEF ApplyConnection, SendStartSignal, serverVars, logVars, bounds
<1>11. CASE Decided
  BY <1>1, <1>11 DEF Decided, HandleDecidedEntries, logVars, bounds
<1>12. ASSUME NEW c \in proposed, Choose(c) PROVE NumberInv'
  BY <1>1, <1>12 DEF Choose, connVars, serverVars, bounds
<1>13. CASE ConnectionDrop
  BY <1>1, <1>13 DEF ConnectionDrop, Die, serverVars, logVars
<1>14. CASE ClientRestart
  BY <1>1, <1>14 DEF ClientRestart, serverVars, logVars
<1>15. CASE UNCHANGED vars
  BY <1>1, <1>15 DEF vars, connVars, serverVars, logVars, bounds
<1> QED
  BY <1>2, <1>3, <1>4, <1>5, <1>6, <1>7, <1>8, <1>9, <1>10, <1>11, <1>12, <1>13, <1>14,
     <1>15
  DEF Next, HttpBranch, Handshake, ServerStep

LEMMA RouteStep ==
    TypeOK /\ PlaceInv /\ NumberInv /\ RouteInv /\ [Next]_vars => RouteInv'
<1> SUFFICES ASSUME TypeOK, PlaceInv, NumberInv, RouteInv, OneRestarts', [Next]_vars
             PROVE  RouteInv'
  BY DEF RouteInv
<1>1. crashes \in Nat /\ restarts \in Nat /\ next_request_id \in Nat
  BY DEF TypeOK
<1>2. \A r \in Current : r.id \in Nat
  <2>1. OnTheWay \subseteq Request
    BY QueueElements DEF TypeOK, OnTheWay
  <2>2. pending \subseteq Request /\ OfThisProcess \subseteq LogCommand
    BY DEF TypeOK, pending, OfThisProcess
  <2> QED BY <2>1, <2>2 DEF Current, Request, LogCommand
<1>3. ASSUME OneRestarts, Current' \subseteq Current,
             UNCHANGED <<next_request_id, proposed>>
      PROVE  RouteInv'
  BY <1>3 DEF RouteInv
<1>4. ASSUME UNCHANGED <<crashes, restarts, to_server, conn, client_id,
                         next_request_id, proposed>>,
             pending' \subseteq pending
      PROVE  RouteInv'
  <2>1. OneRestarts
    BY <1>4 DEF OneRestarts
  <2>2. OnTheWay' = OnTheWay /\ OfThisProcess' = OfThisProcess
    BY <1>4 DEF OnTheWay, OfThisProcess
  <2>3. Current' \subseteq Current
    BY <1>4, <2>2 DEF Current
  <2> QED BY <1>3, <1>4, <2>1, <2>3
<1>5. ASSUME UNCHANGED <<crashes, restarts, next_request_id, proposed>>,
             to_server' \in {to_server, <<>>}, pending' \subseteq pending,
             conn' = "up" => conn = "up" /\ client_id' = client_id
      PROVE  RouteInv'
  <2>1. OneRestarts
    BY <1>5 DEF OneRestarts
  <2>2. OnTheWay' \subseteq OnTheWay /\ OfThisProcess' \subseteq OfThisProcess
    BY <1>5 DEF OnTheWay, OfThisProcess, ToSet
  <2>3. Current' \subseteq Current
    BY <1>5, <2>2 DEF Current
  <2> QED BY <1>3, <1>5, <2>1, <2>3
<1>6. CASE HandleHttp
  <2> DEFINE r == [id |-> next_request_id, caller |-> Head(http_rx)]
  <2>1. OneRestarts /\ UNCHANGED <<restarts, client_id, proposed>>
    BY <1>6 DEF HandleHttp, OneRestarts, bounds, logVars
  <2>2. Send(r) /\ AddPending(r) /\ next_request_id' = next_request_id + 1
    BY <1>6 DEF HandleHttp, PendingKey, NextRequestId
  <2>3. r \in Request /\ r.id = next_request_id
    <3>1. Head(http_rx) \in Caller
      BY <1>6 DEF HandleHttp, TypeOK
    <3> QED BY <1>1, <3>1 DEF Request
  <2> HIDE DEF r
  <2>4. pending' \subseteq pending \cup {r}
    BY <2>2 DEF AddPending, Insert, pending
  <2>5. OnTheWay' \subseteq OnTheWay \cup {r} /\ (conn' = "up" => conn = "up")
    <3>1. to_server \in Seq(Request)
      BY DEF TypeOK
    <3>2. ToSet(Append(to_server, r)) = ToSet(to_server) \cup {r}
      BY <2>3, <3>1, QueueAppend
    <3> QED BY <2>2, <3>2 DEF Send, OnTheWay
  <2>6. OfThisProcess' \subseteq OfThisProcess
    BY <2>1, <2>5 DEF OfThisProcess
  <2>7. Current' \subseteq Current \cup {r}
    BY <2>4, <2>5, <2>6 DEF Current
  <2>8. \A q \in Current : q.id < next_request_id
    BY <2>1 DEF RouteInv
  <2>9. \A q \in Current : q.id # r.id /\ q.id < next_request_id'
    BY <1>1, <1>2, <2>2, <2>3, <2>8
  <2>10. r.id < next_request_id'
    BY <1>1, <2>2, <2>3
  <2> QED BY <2>1, <2>7, <2>9, <2>10 DEF RouteInv
<1>7. CASE append_to_log
  <2> DEFINE r == Head(to_server)
             c == [client_id |-> client_id, id |-> r.id, caller |-> r.caller]
  <2>1. /\ OneRestarts /\ conn = "up"
        /\ UNCHANGED <<restarts, client_id, conn, next_request_id, pending_puts,
                       pending_gets>>
    BY <1>7 DEF append_to_log, OneRestarts, bounds, taskVars
  <2>2. proposed' = proposed \cup {c}
    BY <1>7 DEF append_to_log
  <2>3. c.id = r.id /\ c.caller = r.caller /\ c.client_id = client_id
    OBVIOUS
  <2>4. r \in OnTheWay /\ OnTheWay' \subseteq OnTheWay
    BY <1>7, QueueTail DEF append_to_log, TypeOK, OnTheWay
  <2> HIDE DEF r, c
  <2>5. OfThisProcess' \subseteq OfThisProcess \cup {c}
    BY <2>1, <2>2 DEF OfThisProcess
  <2>6. pending' = pending
    BY <2>1 DEF pending
  <2>7. Current' \subseteq Current \cup {c} /\ r \in Current
    BY <2>4, <2>5, <2>6 DEF Current
  <2>8. /\ \A q \in Current : q.id < next_request_id
        /\ \A q, p \in Current : q.id = p.id => q.caller = p.caller
        /\ \A p, q \in proposed :
              p.client_id = q.client_id /\ p.id = q.id => p.caller = q.caller
    BY <2>1 DEF RouteInv
  <2>9. \A p \in proposed : p.client_id = c.client_id => p \in Current
    BY <2>1, <2>3 DEF Current, OfThisProcess
  <2>10. \A p \in proposed :
            p.client_id = c.client_id /\ p.id = c.id => p.caller = c.caller
    BY <2>3, <2>7, <2>8, <2>9
  <2>11. \A p, q \in proposed' :
            p.client_id = q.client_id /\ p.id = q.id => p.caller = q.caller
    BY <2>2, <2>8, <2>10
  <2>12. /\ \A q \in Current' : q.id < next_request_id
         /\ \A q, p \in Current' : q.id = p.id => q.caller = p.caller
    BY <2>3, <2>7, <2>8
  <2> QED BY <2>1, <2>11, <2>12 DEF RouteInv
<1>8. CASE Register
  <2>1. /\ OneRestarts /\ client_id' = max_client_id + 1
        /\ UNCHANGED <<restarts, crashes, to_server, next_request_id, pending_puts,
                       pending_gets, proposed>>
    BY <1>8 DEF Register, OneRestarts, bounds, logVars
  <2>2. OnTheWay' = OnTheWay /\ pending' = pending
    BY <2>1 DEF OnTheWay, pending
  <2>3. OfThisProcess' \subseteq OfThisProcess
    <3>1. CASE restarts = 0
      BY <2>1, <3>1 DEF OfThisProcess
    <3>2. CASE restarts # 0
      <4>1. crashes = 0
        BY <2>1, <3>2 DEF OneRestarts
      <4>2. /\ max_client_id \in Nat
            /\ \A c \in proposed : c.client_id \in Nat /\ c.client_id <= max_client_id
        BY <4>1 DEF NumberInv, TypeOK, LogCommand
      <4>3. \A c \in proposed : c.client_id # client_id'
        BY <2>1, <4>2
      <4> QED BY <2>1, <3>2, <4>3 DEF OfThisProcess
    <3> QED BY <3>1, <3>2
  <2>4. Current' \subseteq Current
    BY <2>2, <2>3 DEF Current
  <2> QED BY <1>3, <2>1, <2>4
<1>9. CASE ClientRestart
  <2>1. /\ restarts' = restarts + 1 /\ crashes' = crashes
        /\ pending_puts' = {} /\ pending_gets' = {} /\ to_server' = <<>>
        /\ conn' = "none" /\ proposed' = proposed
    BY <1>9 DEF ClientRestart, logVars
  <2>2. restarts' # 0 /\ OneRestarts
    BY <1>1, <2>1 DEF OneRestarts
  <2>3. Current' = {}
    BY <2>1, <2>2 DEF Current, pending, OnTheWay, OfThisProcess, ToSet
  <2> QED BY <2>1, <2>2, <2>3 DEF RouteInv
<1>10. CASE ServerCrash
  <2>1. /\ crashes' = crashes + 1 /\ restarts' = restarts
        /\ to_server' = <<>> /\ conn' # "up"
        /\ UNCHANGED <<next_request_id, pending_puts, pending_gets, proposed>>
    BY <1>10 DEF ServerCrash, Die, taskVars, logVars
  <2>2. OneRestarts
    BY <1>1, <2>1 DEF OneRestarts
  <2>3. Current' \subseteq Current
    BY <2>1 DEF Current, pending, OnTheWay, OfThisProcess, ToSet
  <2> QED BY <1>3, <2>1, <2>2, <2>3
<1>11. CASE \E k \in Caller : \/ HttpRequest(k) \/ HttpSend(k)
                              \/ HttpUnavailable(k) \/ HttpTimeout(k)
  BY <1>4, <1>11 DEF HttpRequest, HttpSend, HttpUnavailable, HttpTimeout, taskVars,
                     connVars, logVars, bounds, pending
<1>12. CASE HandleHttpFails \/ MessageBranch \/ PeriodicCheck
  <2>1. /\ UNCHANGED <<crashes, restarts, to_server, client_id, next_request_id, proposed>>
        /\ conn' = conn \/ conn' = "none"
    BY <1>12 DEF HandleHttpFails, MessageBranch, IgnoreStartSignal, HandleReply,
                 HandleReplyPanics, WaitForStartSignal, PeriodicCheck, reconnect_loop,
                 taskVars, connVars, logVars, bounds
  <2>2. pending_puts' \subseteq pending_puts /\ pending_gets' \subseteq pending_gets
    BY <1>12 DEF HandleHttpFails, MessageBranch, IgnoreStartSignal, HandleReply,
                 HandleReplyPanics, WaitForStartSignal, PeriodicCheck, fail_all_pending,
                 taskVars
  <2> QED BY <1>5, <2>1, <2>2 DEF pending
<1>13. CASE Connect \/ RegisterUnheard \/ RegisterPanics
  BY <1>5, <1>13 DEF Connect, RegisterUnheard, RegisterPanics, connVars, logVars,
                     bounds, pending
<1>14. CASE ApplyConnection \/ SendStartSignal
  BY <1>4, <1>14 DEF ApplyConnection, SendStartSignal, taskVars, logVars, bounds, pending
<1>15. CASE Decided
  BY <1>4, <1>15 DEF Decided, HandleDecidedEntries, taskVars, logVars, bounds, pending
<1>16. ASSUME NEW c \in proposed, Choose(c) PROVE RouteInv'
  BY <1>4, <1>16 DEF Choose, taskVars, connVars, bounds, pending
<1>17. CASE ConnectionDrop
  BY <1>5, <1>17 DEF ConnectionDrop, Die, taskVars, logVars, pending
<1>18. CASE ServerStart
  BY <1>4, <1>18 DEF ServerStart, taskVars, connVars, logVars, bounds, pending
<1>19. CASE UNCHANGED vars
  BY <1>4, <1>19 DEF vars, taskVars, connVars, logVars, bounds, pending
<1> QED
  BY <1>6, <1>7, <1>8, <1>9, <1>10, <1>11, <1>12, <1>13, <1>14, <1>15, <1>16, <1>17,
     <1>18, <1>19
  DEF Next, HttpBranch, Handshake, ServerStep

LEMMA MessageStep ==
    TypeOK /\ LogInv /\ RouteInv /\ MessageInv /\ [Next]_vars => MessageInv'
<1> SUFFICES ASSUME TypeOK, LogInv, RouteInv, MessageInv, [Next]_vars
             PROVE  MessageInv'
  OBVIOUS
<1>1. crashes \in Nat /\ restarts \in Nat /\ next_request_id \in Nat /\ Len(log) \in Nat
  BY DEF TypeOK
\* Nothing but what may be pending changes, and messages are only taken away.
<1>2. ASSUME OneRestarts' => OneRestarts, UNCHANGED <<next_request_id, log>>,
             pending' \subseteq pending,
             \A i \in 1..Len(server_messages)' :
                \E j \in 1..Len(server_messages) : server_messages'[i] = server_messages[j]
      PROVE  MessageInv'
  BY <1>2 DEF MessageInv
<1>3. ASSUME UNCHANGED <<crashes, restarts, next_request_id, log, server_messages>>,
             pending' \subseteq pending
      PROVE  MessageInv'
  BY <1>2, <1>3 DEF OneRestarts
<1>4. ASSUME UNCHANGED <<crashes, restarts, next_request_id, log>>,
             pending' \subseteq pending,
             server_messages # <<>>, server_messages' = Tail(server_messages)
      PROVE  MessageInv'
  BY <1>2, <1>4, HeadMessage DEF OneRestarts
<1>5. CASE HandleHttp
  <2>1. /\ UNCHANGED <<crashes, restarts, log, server_messages>>
        /\ next_request_id' = next_request_id + 1
    BY <1>5 DEF HandleHttp, NextRequestId, bounds, logVars
  <2>2. PICK r : r.id = next_request_id /\ pending' \subseteq pending \cup {r}
    <3> DEFINE r == [id |-> PendingKey, caller |-> Head(http_rx)]
    <3>1. r.id = next_request_id /\ AddPending(r)
      BY <1>5 DEF HandleHttp, PendingKey
    <3> HIDE DEF r
    <3>2. pending' \subseteq pending \cup {r}
      BY <3>1 DEF AddPending, Insert, pending
    <3> QED BY <3>1, <3>2
  <2>3. SUFFICES ASSUME NEW i \in 1..Len(server_messages),
                        server_messages[i].type # "StartSignal"
                 PROVE  /\ server_messages[i].entry \in 1..Len(log)
                        /\ OneRestarts =>
                              /\ server_messages[i].id < next_request_id'
                              /\ \A q \in pending' : q.id = server_messages[i].id =>
                                    q.caller = log[server_messages[i].entry].caller
    BY <2>1 DEF MessageInv, OneRestarts
  <2>4. server_messages[i].id \in Nat
    BY <2>3 DEF TypeOK, ServerMessage
  <2>5. /\ server_messages[i].entry \in 1..Len(log)
        /\ OneRestarts =>
              /\ server_messages[i].id < next_request_id
              /\ \A q \in pending : q.id = server_messages[i].id =>
                    q.caller = log[server_messages[i].entry].caller
    BY <2>3 DEF MessageInv
  <2>6. OneRestarts => server_messages[i].id # next_request_id
    BY <1>1, <2>4, <2>5
  <2>7. OneRestarts => server_messages[i].id < next_request_id'
    BY <1>1, <2>1, <2>4, <2>5
  <2>8. OneRestarts => \A q \in pending' : q.id = server_messages[i].id =>
                          q.caller = log[server_messages[i].entry].caller
    BY <2>2, <2>5, <2>6
  <2> QED BY <2>5, <2>7, <2>8
<1>6. ASSUME NEW d \in 1..Len(log), NEW save \in BOOLEAN, HandleDecidedEntries(d, save)
      PROVE  MessageInv'
  <2>1. /\ UNCHANGED <<crashes, restarts, next_request_id, log, pending_puts, pending_gets>>
        /\ d \in current_decided_idx+1..Len(log)
    BY <1>6 DEF HandleDecidedEntries, bounds, taskVars, logVars
  <2>2. CASE ~ (conn = "up" /\ applied_conn)
    BY <1>3, <1>6, <2>1, <2>2 DEF HandleDecidedEntries, pending
  <2>3. CASE conn = "up" /\ applied_conn
    <3>1. server_messages' = MessagesAfter(d)
      BY <1>6, <2>3 DEF HandleDecidedEntries
    <3>2. SUFFICES ASSUME NEW i \in 1..Len(MessagesAfter(d)),
                          MessagesAfter(d)[i].type # "StartSignal"
                   PROVE  /\ MessagesAfter(d)[i].entry \in 1..Len(log)
                          /\ OneRestarts =>
                                /\ MessagesAfter(d)[i].id < next_request_id
                                /\ \A q \in pending : q.id = MessagesAfter(d)[i].id =>
                                      q.caller = log[MessagesAfter(d)[i].entry].caller
      BY <2>1, <3>1 DEF MessageInv, OneRestarts, pending
    <3>3. CASE \E j \in 1..Len(server_messages) : MessagesAfter(d)[i] = server_messages[j]
      BY <3>2, <3>3 DEF MessageInv
    <3>4. ASSUME NEW e \in 1..Len(log), log[e].client_id = client_id,
                 MessagesAfter(d)[i] = ReplyTo(e)
          PROVE  /\ MessagesAfter(d)[i].entry \in 1..Len(log)
                 /\ OneRestarts =>
                       /\ MessagesAfter(d)[i].id < next_request_id
                       /\ \A q \in pending : q.id = MessagesAfter(d)[i].id =>
                             q.caller = log[MessagesAfter(d)[i].entry].caller
      <4>1. ReplyTo(e).entry = e /\ ReplyTo(e).id = log[e].id
        BY ReplyType
      <4>2. log[e] \in proposed
        BY DEF LogInv
      <4>3. log[e] \in Current /\ pending \subseteq Current
        BY <2>3, <3>4, <4>2 DEF Current, OfThisProcess
      <4>4. OneRestarts => /\ log[e].id < next_request_id
                           /\ \A q \in pending : q.id = log[e].id => q.caller = log[e].caller
        BY <4>3 DEF RouteInv
      <4> QED BY <3>4, <4>1, <4>4
    <3> QED BY <2>1, <3>3, <3>4, MessagesAfterEffect
  <2> QED BY <2>2, <2>3
<1>7. ASSUME NEW c \in proposed, Choose(c) PROVE MessageInv'
  <2>1. /\ UNCHANGED <<crashes, restarts, next_request_id, pending_puts, pending_gets,
                       server_messages>>
        /\ log \in Seq(LogCommand) /\ c \in LogCommand /\ log' = Append(log, c)
    BY <1>7 DEF Choose, TypeOK, bounds, taskVars, connVars
  <2>2. Len(log)' = Len(log) + 1 /\ \A i \in 1..Len(log) : log'[i] = log[i]
    BY <2>1
  <2>3. 1..Len(log) \subseteq 1..Len(log)'
    BY <1>1, <2>2
  <2>4. pending' = pending
    BY <2>1 DEF pending
  <2> QED BY <2>1, <2>2, <2>3, <2>4 DEF MessageInv, OneRestarts
<1>8. CASE ClientRestart
  <2>1. server_messages' = <<>>
    BY <1>8 DEF ClientRestart
  <2> QED BY <2>1 DEF MessageInv
<1>9. ASSUME Die, OneRestarts' => OneRestarts,
             UNCHANGED <<next_request_id, log, pending_puts, pending_gets>>
      PROVE  MessageInv'
  <2>1. \A i \in 1..Len(server_messages)' :
           \E j \in 1..Len(server_messages) : server_messages'[i] = server_messages[j]
    <3>1. CASE server_messages' = server_messages
      BY <3>1
    <3>2. ASSUME NEW n \in 0..Len(server_messages),
                 server_messages' = SubSeq(server_messages, 1, n)
          PROVE  \A i \in 1..Len(server_messages)' :
                    \E j \in 1..Len(server_messages) : server_messages'[i] = server_messages[j]
      BY <3>2, QueuePrefix DEF TypeOK
    <3> QED BY <1>9, <3>1, <3>2 DEF Die
  <2> QED BY <1>2, <1>9, <2>1 DEF pending
<1>10. CASE ServerCrash
  <2>1. OneRestarts' => OneRestarts
    BY <1>1, <1>10 DEF ServerCrash, OneRestarts
  <2> QED BY <1>9, <1>10, <2>1 DEF ServerCrash, taskVars, logVars
<1>11. CASE ConnectionDrop
  BY <1>9, <1>11 DEF ConnectionDrop, OneRestarts, taskVars, logVars
<1>12. CASE SendStartSignal
  <2>1. /\ UNCHANGED <<crashes, restarts, next_request_id, log, pending_puts, pending_gets>>
        /\ server_messages' = Append(server_messages, [type |-> "StartSignal"])
        /\ server_messages \in Seq(ServerMessage) /\ [type |-> "StartSignal"] \in ServerMessage
    BY <1>12 DEF SendStartSignal, TypeOK, ServerMessage, bounds, taskVars, logVars
  <2>2. /\ Len(server_messages) \in Nat
        /\ Len(server_messages)' = Len(server_messages) + 1
        /\ \A i \in 1..Len(server_messages) : server_messages'[i] = server_messages[i]
        /\ server_messages'[Len(server_messages) + 1].type = "StartSignal"
    BY <2>1
  <2>3. \A i \in 1..Len(server_messages)' :
           i \in 1..Len(server_messages) \/ server_messages'[i].type = "StartSignal"
    BY <2>2
  <2> QED BY <2>1, <2>2, <2>3 DEF MessageInv, OneRestarts, pending
<1>13. CASE \E k \in Caller : \/ HttpRequest(k) \/ HttpSend(k)
                              \/ HttpUnavailable(k) \/ HttpTimeout(k)
  BY <1>3, <1>13 DEF HttpRequest, HttpSend, HttpUnavailable, HttpTimeout, taskVars,
                     connVars, logVars, bounds, pending
<1>14. CASE HandleHttpFails
  BY <1>3, <1>14 DEF HandleHttpFails, taskVars, logVars, bounds, pending
<1>15. CASE IgnoreStartSignal \/ WaitForStartSignal
  BY <1>4, <1>15 DEF IgnoreStartSignal, WaitForStartSignal, taskVars, logVars, bounds,
                     pending
<1>16. CASE HandleReply \/ HandleReplyPanics
  <2>1. pending_puts' \subseteq pending_puts /\ pending_gets' \subseteq pending_gets
    BY <1>16 DEF HandleReply, HandleReplyPanics
  <2> QED BY <1>4, <1>16, <2>1 DEF HandleReply, HandleReplyPanics, logVars, bounds, pending
<1>17. CASE PeriodicCheck
  BY <1>3, <1>17 DEF PeriodicCheck, fail_all_pending, reconnect_loop, connVars, logVars,
                     bounds, pending
<1>18. CASE Handshake
  BY <1>3, <1>18 DEF Handshake, Connect, Register, RegisterUnheard, RegisterPanics,
                     connVars, logVars, bounds, pending
<1>19. CASE ApplyConnection \/ append_to_log
  BY <1>3, <1>19 DEF ApplyConnection, append_to_log, taskVars, logVars, bounds, pending
<1>20. CASE ServerStart
  BY <1>3, <1>20 DEF ServerStart, taskVars, connVars, logVars, bounds, pending
<1>21. CASE UNCHANGED vars
  BY <1>3, <1>21 DEF vars, taskVars, connVars, logVars, bounds, pending
<1> QED
  BY <1>5, <1>6, <1>7, <1>8, <1>10, <1>11, <1>12, <1>13, <1>14, <1>15, <1>16, <1>17,
     <1>18, <1>19, <1>20, <1>21
  DEF Next, HttpBranch, MessageBranch, ServerStep, Decided

\* A response that becomes a reply only does so in HandleReply.
LEMMA AnswerStep ==
    TypeOK /\ RouteInv /\ MessageInv /\ AnswerIsOwnIfOneRestarts /\ [Next]_vars
        => AnswerIsOwnIfOneRestarts'
<1> SUFFICES ASSUME TypeOK, RouteInv, MessageInv, AnswerIsOwnIfOneRestarts, OneRestarts',
                    [Next]_vars
             PROVE  AnswerIsOwn'
  BY DEF AnswerIsOwnIfOneRestarts
<1>1. crashes \in Nat /\ restarts \in Nat /\ Len(log) \in Nat
  BY DEF TypeOK
<1>2. ASSUME OneRestarts, log' = log,
             \A k \in Caller : response'[k].type = "reply" => response'[k] = response[k]
      PROVE  AnswerIsOwn'
  BY <1>2 DEF AnswerIsOwn, AnswerIsOwnIfOneRestarts
<1>3. ASSUME UNCHANGED <<crashes, restarts, log, response>>
      PROVE  AnswerIsOwn'
  BY <1>2, <1>3 DEF OneRestarts
<1>4. ASSUME UNCHANGED <<crashes, restarts, log>>,
             NEW ks, NEW e \in Error, Respond(ks, ErrorResponse(e))
      PROVE  AnswerIsOwn'
  <2>1. ErrorResponse(e).type # "reply"
    BY ErrorResponseFields
  <2>2. \A k \in Caller : response'[k] \in {response[k], ErrorResponse(e)}
    BY <1>4 DEF Respond
  <2> QED BY <1>2, <1>4, <2>1, <2>2 DEF OneRestarts
<1>5. CASE HandleReply
  <2> DEFINE m == Head(server_messages)
             r == [type |-> "reply", entry |-> m.entry]
             answered == { q \in pending : q.id = m.id }
  <2>1. /\ OneRestarts /\ log' = log
        /\ m.type # "StartSignal" /\ server_messages # <<>>
    BY <1>5 DEF HandleReply, OneRestarts, bounds, logVars
  <2>2. PICK ks : ks \subseteq CallersOf(answered) /\ Respond(ks, r)
    BY <1>5 DEF HandleReply, CallersOf, pending
  <2>3. /\ m.entry \in 1..Len(log)
        /\ \A q \in pending : q.id = m.id => q.caller = log[m.entry].caller
    BY <2>1, HeadMessage DEF MessageInv
  <2>4. \A k \in ks : k = log[m.entry].caller
    BY <2>2, <2>3 DEF CallersOf
  <2>5. \A k \in Caller : \/ response'[k] = response[k]
                          \/ k \in ks /\ response'[k] = r
    BY <2>2 DEF Respond
  <2>6. r.entry = m.entry
    OBVIOUS
  <2> HIDE DEF m, r
  <2>7. AnswerIsOwn
    BY <2>1 DEF AnswerIsOwnIfOneRestarts
  <2> QED BY <2>1, <2>3, <2>4, <2>5, <2>6, <2>7 DEF AnswerIsOwn
<1>6. ASSUME NEW c \in proposed, Choose(c) PROVE AnswerIsOwn'
  <2>1. /\ OneRestarts /\ response' = response
        /\ log \in Seq(LogCommand) /\ c \in LogCommand /\ log' = Append(log, c)
    BY <1>6 DEF Choose, TypeOK, OneRestarts, bounds, shimVars
  <2>2. Len(log)' = Len(log) + 1 /\ \A i \in 1..Len(log) : log'[i] = log[i]
    BY <2>1
  <2>3. 1..Len(log) \subseteq 1..Len(log)'
    BY <1>1, <2>2
  <2> QED BY <2>1, <2>2, <2>3 DEF AnswerIsOwn, AnswerIsOwnIfOneRestarts
<1>7. CASE ClientRestart
  <2>1. /\ OneRestarts /\ log' = log
        /\ \A k \in Caller : response'[k] \in {response[k], ErrorResponse("reset")}
    BY <1>1, <1>7 DEF ClientRestart, OneRestarts, logVars
  <2>2. ErrorResponse("reset").type # "reply"
    BY ErrorResponseFields DEF Error
  <2> QED BY <1>2, <2>1, <2>2
<1>8. CASE ServerCrash
  <2>1. OneRestarts /\ log' = log /\ response' = response
    BY <1>1, <1>8 DEF ServerCrash, OneRestarts, logVars, shimVars
  <2> QED BY <1>2, <2>1
<1>9. ASSUME NEW k \in Caller, HttpUnavailable(k) \/ HttpTimeout(k)
      PROVE  AnswerIsOwn'
  <2>1. PICK e \in Error : response' = [response EXCEPT ![k] = ErrorResponse(e)]
    BY <1>9 DEF HttpUnavailable, HttpTimeout, Error
  <2>2. \A j \in Caller : response'[j] \in {response[j], ErrorResponse(e)}
    BY <2>1 DEF TypeOK
  <2>3. OneRestarts /\ log' = log
    BY <1>9 DEF HttpUnavailable, HttpTimeout, OneRestarts, bounds, logVars
  <2> QED BY <1>2, <2>2, <2>3, ErrorResponseFields
<1>10. "disconnected" \in Error /\ "dropped" \in Error /\ "lost" \in Error
  BY DEF Error
<1>11. CASE HandleHttpFails
  BY <1>4, <1>10, <1>11 DEF HandleHttpFails, logVars, bounds
<1>12. CASE HandleReplyPanics \/ RegisterPanics
  BY <1>4, <1>10, <1>12 DEF HandleReplyPanics, RegisterPanics, logVars, bounds
<1>13. CASE PeriodicCheck
  BY <1>4, <1>10, <1>13 DEF PeriodicCheck, fail_all_pending, logVars, bounds
<1>14. ASSUME NEW k \in Caller, HttpRequest(k) \/ HttpSend(k) PROVE AnswerIsOwn'
  <2>1. /\ \A j \in Caller : response'[j] \in {response[j], NoResponse}
        /\ OneRestarts /\ log' = log
    BY <1>14 DEF HttpRequest, HttpSend, TypeOK, OneRestarts, logVars, bounds
  <2>2. NoResponse.type # "reply"
    BY DEF NoResponse
  <2> QED BY <1>2, <2>1, <2>2
<1>15. CASE HandleHttp \/ IgnoreStartSignal \/ WaitForStartSignal
  BY <1>3, <1>15 DEF HandleHttp, IgnoreStartSignal, WaitForStartSignal, shimVars,
                     logVars, bounds
<1>16. CASE Connect \/ Register \/ RegisterUnheard
  BY <1>3, <1>16 DEF Connect, Register, RegisterUnheard, shimVars, logVars, bounds
<1>17. CASE ServerStep
  BY <1>3, <1>17 DEF ServerStep, ApplyConnection, SendStartSignal, append_to_log,
                     shimVars, logVars, bounds
<1>18. CASE Decided \/ ServerStart
  BY <1>3, <1>18 DEF Decided, HandleDecidedEntries, ServerStart, shimVars, logVars, bounds
<1>19. CASE ConnectionDrop
  BY <1>3, <1>19 DEF ConnectionDrop, shimVars, logVars
<1>20. CASE UNCHANGED vars
  BY <1>3, <1>20 DEF vars, shimVars, logVars, bounds
<1> QED
  BY <1>5, <1>6, <1>7, <1>8, <1>9, <1>11, <1>12, <1>13, <1>14, <1>15, <1>16, <1>17,
     <1>18, <1>19, <1>20
  DEF Next, HttpBranch, MessageBranch, Handshake

RestartInv == NumberInv /\ RouteInv /\ MessageInv /\ AnswerIsOwnIfOneRestarts

\* Ids name one caller each, and messages on their way go to no other, as RestartInv
\* says, as long as only one of the two processes was restarted.
THEOREM RestartInvariant == Spec => [](SafeInv /\ RestartInv)
<1>1. Init => SafeInv /\ RestartInv
  <2> SUFFICES ASSUME Init PROVE SafeInv /\ RestartInv
    OBVIOUS
  <2>1. SafeInv
    BY TypeInit, PlaceInit DEF SafeInv
  <2>2. NumberInv
    BY DEF Init, NumberInv
  <2>3. RouteInv
    BY DEF Init, RouteInv, Current, pending, OnTheWay, OfThisProcess, ToSet
  <2>4. MessageInv
    BY DEF Init, MessageInv
  <2>5. AnswerIsOwnIfOneRestarts
    BY DEF Init, AnswerIsOwnIfOneRestarts, AnswerIsOwn, NoResponse
  <2> QED BY <2>1, <2>2, <2>3, <2>4, <2>5 DEF RestartInv
<1>2. SafeInv /\ RestartInv /\ [Next]_vars => SafeInv' /\ RestartInv'
  BY TypeStep, PlaceStep, LogStep, NumberStep, RouteStep, MessageStep, AnswerStep
  DEF SafeInv, RestartInv
<1> QED BY <1>1, <1>2, PTL DEF Spec

\* Every reply reaches the caller whose command its entry holds, as long as only one of
\* the two processes was restarted.
THEOREM RepliesReachTheirCallers == Spec => []AnswerIsOwnIfOneRestarts
BY RestartInvariant, PTL DEF RestartInv

\* Until then the client id and request id of an entry tell it from all others.
THEOREM RoutesAreUnique == Spec => []UniqueRoute
<1>1. SafeInv /\ RestartInv => UniqueRoute
  BY DEF SafeInv, RestartInv, RouteInv, LogInv, PlaceInv, UniqueRoute
<1> QED BY <1>1, RestartInvariant, PTL

\* ... and the client task never indexes request_data out of bounds.
THEOREM RepliesNeverPanic == Spec => []NoPanicOnReply
<1>1. SafeInv /\ RestartInv => NoPanicOnReply
  BY DEF RestartInv, MessageInv, NoPanicOnReply
<1> QED BY <1>1, RestartInvariant, PTL
-------------------------------------------------------------------------------
(* The client process keeps the contract with its callers *)

LEMMA Outcomes ==
    ASSUME NEW r \in Response
    PROVE  /\ OutcomeOf("idle", r) = Contract!State("idle")
           /\ OutcomeOf("sending", r) = Contract!State("open")
           /\ OutcomeOf("waiting", r) = Contract!State("open")
           /\ r.type = "reply" =>
                 OutcomeOf("answered", r) = Contract!Replied(r.entry)
           /\ r.type \in {"disconnected", "unavailable"} /\ r.entry = 0 =>
                 OutcomeOf("answered", r) = Contract!State("failed")
           /\ r.type \in {"timeout", "lost", "dropped", "reset"} /\ r.entry = 0 =>
                 OutcomeOf("answered", r) = Contract!State("unknown")
<1>1. r.type = "reply" => OutcomeOf("answered", r) = Contract!Replied(r.entry)
  BY DEF OutcomeOf, Contract!Replied
<1>2. r.type \in {"disconnected", "unavailable"} /\ r.entry = 0 =>
         OutcomeOf("answered", r) = Contract!State("failed")
  BY DEF OutcomeOf, Contract!State
<1>3. r.type \in {"timeout", "lost", "dropped", "reset"} /\ r.entry = 0 =>
         OutcomeOf("answered", r) = Contract!State("unknown")
  BY DEF OutcomeOf, Contract!State
<1> QED BY <1>1, <1>2, <1>3 DEF OutcomeOf, Contract!State

\* A step that leaves callers without an answer, or none.
LEMMA GiveUpStep ==
    ASSUME TypeOK, log' = log,
           NEW e \in {"timeout", "lost", "dropped", "reset"}, NEW K \in SUBSET Caller,
           \A k \in K : /\ http[k] \in {"sending", "waiting"}
                        /\ http'[k] = "answered" /\ response'[k] = ErrorResponse(e),
           \A k \in Caller \ K :
              OutcomeOf(http'[k], response'[k]) = OutcomeOf(http[k], response[k])
    PROVE  Contract!ContractNext
<1>1. e \in Error /\ ErrorResponse(e) \in Response /\ ErrorResponse(e).type = e
      /\ ErrorResponse(e).entry = 0
  BY ErrorResponseType, ErrorResponseFields DEF Error
<1>2. OutcomeOf("answered", ErrorResponse(e)) = Contract!State("unknown")
  BY <1>1, Outcomes
<1>3. \A k \in K : outcome[k] = Contract!State("open")
  <2> TAKE k \in K
  <2>1. response[k] \in Response /\ k \in Caller
    BY DEF TypeOK
  <2>2. OutcomeOf(http[k], response[k]) = Contract!State("open")
    BY <2>1, Outcomes
  <2> QED BY <2>1, <2>2 DEF outcome
<1>4. outcome' = [k \in Caller |-> IF k \in K THEN Contract!State("unknown") ELSE outcome[k]]
  <2>1. \A k \in Caller : OutcomeOf(http'[k], response'[k]) =
                             IF k \in K THEN Contract!State("unknown") ELSE outcome[k]
    BY <1>2 DEF outcome
  <2> QED BY <2>1 DEF outcome
<1>5. executed' = executed
  BY DEF executed
<1>6. Contract!GiveUp(K)
  BY <1>3, <1>4, <1>5 DEF Contract!GiveUp
<1> QED BY <1>6 DEF Contract!ContractNext

\* A step in which only one caller sees anything.
LEMMA OneOutcome ==
    ASSUME NEW k \in Caller, NEW new,
           OutcomeOf(http'[k], response'[k]) = new,
           \A j \in Caller \ {k} :
              OutcomeOf(http'[j], response'[j]) = OutcomeOf(http[j], response[j])
    PROVE  outcome' = [outcome EXCEPT ![k] = new]
BY DEF outcome

LEMMA NoOutcome ==
    ASSUME log' = log,
           \A j \in Caller :
              OutcomeOf(http'[j], response'[j]) = OutcomeOf(http[j], response[j])
    PROVE  UNCHANGED Contract!contractVars
BY DEF outcome, executed, Contract!contractVars

LEMMA ContractInitially == Init => Contract!ContractInit
<1> SUFFICES ASSUME Init PROVE Contract!ContractInit
  OBVIOUS
<1>1. \A k \in Caller : outcome[k] = Contract!State("idle")
  BY DEF Init, outcome, OutcomeOf, Contract!State
<1>2. outcome = [k \in Caller |-> Contract!State("idle")]
  BY <1>1 DEF outcome
<1>3. executed = <<>>
  BY DEF Init, executed
<1> QED BY <1>2, <1>3 DEF Contract!ContractInit

\* Every caller that Respond answers with an error was open.
LEMMA RespondGivesUp ==
    ASSUME TypeOK, log' = log, NEW ks, NEW e \in {"timeout", "lost", "dropped", "reset"},
           Respond(ks, ErrorResponse(e))
    PROVE  Contract!ContractNext
<1> DEFINE K == { k \in Caller : k \in ks /\ http[k] = "waiting" }
<1>1. \A k \in K : http'[k] = "answered" /\ response'[k] = ErrorResponse(e)
  BY DEF Respond
<1>2. \A k \in Caller \ K : http'[k] = http[k] /\ response'[k] = response[k]
  BY DEF Respond
<1>3. \A k \in Caller \ K :
         OutcomeOf(http'[k], response'[k]) = OutcomeOf(http[k], response[k])
  BY <1>2
<1>4. \A k \in K : http[k] \in {"sending", "waiting"}
  OBVIOUS
<1>5. K \in SUBSET Caller
  OBVIOUS
<1> HIDE DEF K
<1> QED BY <1>1, <1>3, <1>4, <1>5, GiveUpStep

LEMMA ContractStep ==
    SafeInv /\ RestartInv /\ [Next]_vars =>
        [~ OneRestarts \/ Contract!ContractNext]_(Contract!contractVars)
<1> DEFINE Allowed == Contract!ContractNext \/ UNCHANGED Contract!contractVars
<1> SUFFICES ASSUME TypeOK, PlaceInv, ResponseInv, LogInv, RouteInv, MessageInv,
                    OneRestarts, AnswerIsOwn, [Next]_vars
             PROVE  Allowed
  BY DEF SafeInv, RestartInv, AnswerIsOwnIfOneRestarts
<1>1. ASSUME UNCHANGED <<http, response, log>> PROVE Allowed
  BY <1>1, NoOutcome
<1>2. ASSUME NEW k \in Caller, HttpRequest(k) PROVE Allowed
  <2>1. /\ http'[k] = "sending" /\ response'[k] = NoResponse /\ log' = log
        /\ \A j \in Caller \ {k} : http'[j] = http[j] /\ response'[j] = response[j]
        /\ response[k] \in Response
    BY <1>2 DEF HttpRequest, TypeOK, logVars
  <2>2. outcome[k] \in {Contract!State("idle"), Contract!State("failed")}
    <3>1. CASE http[k] = "idle"
      BY <2>1, <3>1, Outcomes DEF outcome
    <3>2. CASE Refused(k)
      <4>1. response[k].entry = 0
        BY <3>2 DEF Refused, ResponseInv
      <4> QED BY <2>1, <3>2, <4>1, Outcomes DEF outcome, Refused
    <3> QED BY <1>2, <3>1, <3>2 DEF HttpRequest
  <2>3. NoResponse \in Response
    BY DEF NoResponse, Response
  <2>4. OutcomeOf(http'[k], response'[k]) = Contract!State("open")
    BY <2>1, <2>3, Outcomes
  <2>5. outcome' = [outcome EXCEPT ![k] = Contract!State("open")]
    BY <2>1, <2>4, OneOutcome
  <2>6. Contract!Call(k)
    BY <2>1, <2>2, <2>5 DEF Contract!Call, executed
  <2> QED BY <2>6 DEF Contract!ContractNext
<1>3. ASSUME NEW k \in Caller, HttpSend(k) PROVE Allowed
  <2>1. /\ http[k] = "sending" /\ http'[k] = "waiting" /\ response' = response /\ log' = log
        /\ \A j \in Caller \ {k} : http'[j] = http[j]
        /\ response[k] \in Response
    BY <1>3 DEF HttpSend, TypeOK, logVars
  <2>2. \A j \in Caller : OutcomeOf(http'[j], response'[j]) = OutcomeOf(http[j], response[j])
    BY <2>1, Outcomes
  <2> QED BY <2>1, <2>2, NoOutcome
\* A caller whose request is in no place has it in no entry.
<1>4. \A k \in Caller : k \notin CallersOf(proposed) =>
         \A i \in 1..Len(executed) : executed[i] # k
  <2>1. /\ Len(log) \in Nat /\ Len(executed) = Len(log)
        /\ \A i \in 1..Len(log) : executed[i] = log[i].caller
    BY DEF TypeOK, executed
  <2>2. \A i \in 1..Len(log) : log[i].caller \in CallersOf(proposed)
    BY DEF LogInv, CallersOf
  <2> QED BY <2>1, <2>2
<1>5. ASSUME NEW k \in Caller, HttpUnavailable(k) PROVE Allowed
  <2>1. /\ http[k] = "sending" /\ http'[k] = "answered" /\ log' = log
        /\ response'[k] = ErrorResponse("unavailable")
        /\ \A j \in Caller \ {k} : http'[j] = http[j] /\ response'[j] = response[j]
        /\ response[k] \in Response
    BY <1>5 DEF HttpUnavailable, TypeOK, logVars
  <2>2. OutcomeOf(http'[k], response'[k]) = Contract!State("failed")
    BY <2>1, Outcomes, ErrorResponseType, ErrorResponseFields DEF Error
  <2>3. outcome[k] = Contract!State("open")
    BY <2>1, Outcomes DEF outcome
  <2>4. outcome' = [outcome EXCEPT ![k] = Contract!State("failed")]
    BY <2>1, <2>2, OneOutcome
  <2>5. k \notin CallersOf(proposed)
    BY <2>1 DEF ResponseInv, NotSent, Placed
  <2>6. Contract!Fail(k)
    BY <1>4, <2>1, <2>3, <2>4, <2>5 DEF Contract!Fail, executed
  <2> QED BY <2>6 DEF Contract!ContractNext
<1>6. ASSUME NEW k \in Caller, HttpTimeout(k) PROVE Allowed
  <2>1. /\ http[k] = "waiting" /\ http'[k] = "answered" /\ log' = log
        /\ response'[k] = ErrorResponse("timeout")
        /\ \A j \in Caller \ {k} : http'[j] = http[j] /\ response'[j] = response[j]
    BY <1>6 DEF HttpTimeout, TypeOK, logVars
  <2>2. \A j \in Caller \ {k} :
           OutcomeOf(http'[j], response'[j]) = OutcomeOf(http[j], response[j])
    BY <2>1
  <2> QED BY <2>1, <2>2, GiveUpStep
<1>7. CASE HandleHttpFails
  <2> DEFINE k == Head(http_rx)
  <2>1. /\ k \in ToSet(http_rx) /\ k \in Caller
        /\ log' = log /\ Respond({k}, ErrorResponse("disconnected"))
    BY <1>7, QueueTail, QueueElements DEF HandleHttpFails, TypeOK, logVars
  <2>2. k \notin CallersOf(proposed) /\ response[k] \in Response
    BY <2>1 DEF PlaceInv, TypeOK
  <2>3. \A j \in Caller \ {k} : http'[j] = http[j] /\ response'[j] = response[j]
    BY <2>1 DEF Respond
  <2> HIDE DEF k
  <2>4. CASE http[k] = "waiting"
    <3>1. http'[k] = "answered" /\ response'[k] = ErrorResponse("disconnected")
      BY <2>1, <2>4 DEF Respond
    <3>2. OutcomeOf(http'[k], response'[k]) = Contract!State("failed")
      BY <3>1, Outcomes, ErrorResponseType, ErrorResponseFields DEF Error
    <3>3. outcome[k] = Contract!State("open")
      BY <2>1, <2>2, <2>4, Outcomes DEF outcome
    <3>4. outcome' = [outcome EXCEPT ![k] = Contract!State("failed")]
      BY <2>1, <2>3, <3>2, OneOutcome
    <3>5. Contract!Fail(k)
      BY <1>4, <2>1, <2>2, <3>3, <3>4 DEF Contract!Fail, executed
    <3> QED BY <2>1, <3>5 DEF Contract!ContractNext
  <2>5. CASE http[k] # "waiting"
    <3>1. \A j \in Caller : http'[j] = http[j] /\ response'[j] = response[j]
      BY <2>1, <2>5 DEF Respond
    <3> QED BY <2>1, <3>1, NoOutcome
  <2> QED BY <2>4, <2>5
<1>8. CASE HandleReply
  <2> DEFINE m == Head(server_messages)
             r == [type |-> "reply", entry |-> m.entry]
             answered == { q \in pending : q.id = m.id }
             k == log[m.entry].caller
  <2>1. m.type # "StartSignal" /\ server_messages # <<>> /\ log' = log
    BY <1>8 DEF HandleReply, logVars
  <2>2. PICK ks : ks \subseteq CallersOf(answered) /\ Respond(ks, r)
    BY <1>8 DEF HandleReply, CallersOf, pending
  <2>3. /\ m.entry \in 1..Len(log)
        /\ \A q \in pending : q.id = m.id => q.caller = k
    BY <2>1, HeadMessage DEF MessageInv
  <2>4. \A j \in ks : j = k
    BY <2>2, <2>3 DEF CallersOf
  <2>5. /\ r \in Response /\ r.type = "reply" /\ r.entry = m.entry
        /\ k \in Caller /\ response[k] \in Response
    <3>1. log[m.entry] \in LogCommand /\ m.entry \in Nat
      BY <2>3 DEF TypeOK
    <3>2. k \in Caller
      BY <3>1 DEF LogCommand
    <3>3. response[k] \in Response
      BY <3>2 DEF TypeOK
    <3>4. r \in Response
      BY <3>1 DEF Response
    <3> HIDE DEF k
    <3> QED BY <3>2, <3>3, <3>4
  <2>6. m.entry \in 1..Len(executed) /\ executed[m.entry] = k
    BY <2>3 DEF executed, TypeOK
  <2> HIDE DEF m, r, k
  <2>7. \A j \in Caller \ {k} : http'[j] = http[j] /\ response'[j] = response[j]
    BY <2>2, <2>4 DEF Respond
  <2>8. CASE k \in ks /\ http[k] = "waiting"
    <3>1. http'[k] = "answered" /\ response'[k] = r
      BY <2>2, <2>5, <2>8 DEF Respond
    <3>2. OutcomeOf(http'[k], response'[k]) = Contract!Replied(m.entry)
      BY <2>5, <3>1, Outcomes
    <3>3. outcome[k] = Contract!State("open")
      BY <2>5, <2>8, Outcomes DEF outcome
    <3>4. outcome' = [outcome EXCEPT ![k] = Contract!Replied(m.entry)]
      BY <2>5, <2>7, <3>2, OneOutcome
    <3>5. executed' = executed
      BY <2>1 DEF executed
    <3>6. Contract!Reply(k)
      BY <2>6, <3>3, <3>4, <3>5 DEF Contract!Reply
    <3> QED BY <2>5, <3>6 DEF Contract!ContractNext
  <2>9. CASE ~ (k \in ks /\ http[k] = "waiting")
    <3>1. \A j \in Caller : http'[j] = http[j] /\ response'[j] = response[j]
      BY <2>2, <2>7, <2>9 DEF Respond
    <3> QED BY <2>1, <3>1, NoOutcome
  <2> QED BY <2>8, <2>9
<1>9. CASE HandleReplyPanics \/ RegisterPanics
  <2>1. Respond(Caller, ErrorResponse("dropped")) /\ log' = log
    BY <1>9 DEF HandleReplyPanics, RegisterPanics, logVars
  <2> QED BY <2>1, RespondGivesUp
<1>10. CASE PeriodicCheck
  <2>1. Respond(CallersOf(pending), ErrorResponse("lost")) /\ log' = log
    BY <1>10 DEF PeriodicCheck, fail_all_pending, logVars
  <2> QED BY <2>1, RespondGivesUp
<1>11. CASE ClientRestart
  <2> DEFINE K == { k \in Caller : http[k] \in {"sending", "waiting"} }
  <2>1. /\ log' = log
        /\ \A k \in K : http'[k] = "answered" /\ response'[k] = ErrorResponse("reset")
    BY <1>11 DEF ClientRestart, logVars
  <2>2. \A k \in Caller \ K : http'[k] = http[k] /\ response'[k] = response[k]
    BY <1>11 DEF ClientRestart, TypeOK
  <2>3. \A k \in Caller \ K :
           OutcomeOf(http'[k], response'[k]) = OutcomeOf(http[k], response[k])
    BY <2>2
  <2>4. K \in SUBSET Caller /\ \A k \in K : http[k] \in {"sending", "waiting"}
    OBVIOUS
  <2> HIDE DEF K
  <2> QED BY <2>1, <2>3, <2>4, GiveUpStep
<1>12. ASSUME NEW c \in proposed, Choose(c) PROVE Allowed
  <2> DEFINE k == c.caller
  <2>1. /\ log \in Seq(LogCommand) /\ c \in LogCommand /\ log' = Append(log, c)
        /\ \A i \in 1..Len(log) : log[i] # c
        /\ UNCHANGED <<http, response>>
    BY <1>12 DEF Choose, TypeOK, shimVars
  <2>2. k \in Caller /\ response[k] \in Response /\ k \in CallersOf(proposed)
    BY <2>1 DEF LogCommand, TypeOK, CallersOf
  <2>3. \A i \in 1..Len(log) : log[i].caller # k
    BY <2>1 DEF LogInv, PlaceInv
  <2>4. outcome[k] \in {Contract!State("open"), Contract!State("unknown")}
    <3>1. http[k] \in {"waiting", "answered"} /\ k \notin {j \in Caller : NotSent(j)}
      BY <2>2 DEF ResponseInv, NotSent, Placed, TypeOK
    <3>2. response[k].type # "reply"
      BY <2>2, <2>3 DEF AnswerIsOwn
    <3>3. response[k].type \notin {"disconnected", "unavailable"} /\ response[k].entry = 0
      BY <2>2, <3>1, <3>2 DEF NotSent, ResponseInv
    <3>4. http[k] = "answered" => response[k].type # "none"
      BY <2>2 DEF ResponseInv
    <3>5. http[k] = "answered" => response[k].type \in {"timeout", "lost", "dropped", "reset"}
      BY <2>2, <3>2, <3>3, <3>4 DEF Response, Error
    <3>6. OutcomeOf(http[k], response[k]) \in {Contract!State("open"), Contract!State("unknown")}
      BY <2>2, <3>1, <3>3, <3>5, Outcomes
    <3> QED BY <2>2, <3>6 DEF outcome
  <2>5. outcome' = outcome
    BY <2>1 DEF outcome
  <2>6. executed' = Append(executed, k)
    <3>1. /\ Len(log) \in Nat /\ Len(log)' = Len(log) + 1
          /\ \A i \in 1..Len(log) : log'[i] = log[i]
          /\ log'[Len(log) + 1] = c
      BY <2>1
    <3>2. executed \in Seq(Caller) /\ Len(executed) = Len(log)
          /\ \A i \in 1..Len(log) : executed[i] = log[i].caller
      <4>1. \A i \in 1..Len(log) : log[i].caller \in Caller
        <5>1. \A i \in 1..Len(log) : log[i] \in LogCommand
          BY <2>1
        <5> QED BY <5>1 DEF LogCommand
      <4>2. executed = [i \in 1..Len(log) |-> log[i].caller]
        BY DEF executed
      <4>3. executed \in [1..Len(log) -> Caller]
        BY <4>1, <4>2
      <4>4. executed \in Seq(Caller)
        BY <3>1, <4>3, SeqDef
      <4> QED BY <3>1, <4>2, <4>3, <4>4, LenProperties
    <3>3. executed' \in Seq(Caller) /\ Len(executed)' = Len(log) + 1
          /\ \A i \in 1..Len(log) + 1 : executed'[i] = log'[i].caller
      BY <2>1, <2>2, <3>1, <3>2 DEF executed, LogCommand
    <3>4. \A i \in 1..Len(log) + 1 : executed'[i] = Append(executed, k)[i]
      BY <2>2, <3>1, <3>2, <3>3
    <3> QED BY <2>2, <3>1, <3>2, <3>3, <3>4, SeqEqual
  <2>7. \A i \in 1..Len(executed) : executed[i] # k
    BY <2>1, <2>3 DEF executed
  <2>8. Contract!Execute(k)
    BY <2>4, <2>5, <2>6, <2>7 DEF Contract!Execute
  <2> QED BY <2>2, <2>8 DEF Contract!ContractNext
<1>13. CASE HandleHttp \/ IgnoreStartSignal \/ WaitForStartSignal
  BY <1>1, <1>13 DEF HandleHttp, IgnoreStartSignal, WaitForStartSignal, shimVars, logVars
<1>14. CASE Connect \/ Register \/ RegisterUnheard
  BY <1>1, <1>14 DEF Connect, Register, RegisterUnheard, shimVars, logVars
<1>15. CASE ServerStep
  BY <1>1, <1>15 DEF ServerStep, ApplyConnection, SendStartSignal, append_to_log,
                     shimVars, logVars
<1>16. CASE Decided \/ ServerStart
  BY <1>1, <1>16 DEF Decided, HandleDecidedEntries, ServerStart, shimVars, logVars
<1>17. CASE ConnectionDrop \/ ServerCrash
  BY <1>1, <1>17 DEF ConnectionDrop, ServerCrash, shimVars, logVars
<1>18. CASE UNCHANGED vars
  BY <1>1, <1>18 DEF vars, shimVars, logVars
<1> HIDE DEF Allowed
<1> QED
  BY <1>2, <1>3, <1>5, <1>6, <1>7, <1>8, <1>9, <1>10, <1>11, <1>12, <1>13, <1>14, <1>15,
     <1>16, <1>17, <1>18
  DEF Next, HttpBranch, MessageBranch, Handshake

\* As long as only one of the processes was restarted, what callers are told is what
\* CallerContract allows: every step is a step of it or changes nothing callers see.
THEOREM KeepsCallerContract == Spec => ImplementsCallerContract
<1>1. Init => Contract!ContractInit
  BY ContractInitially
<1>2. SafeInv /\ RestartInv /\ [Next]_vars =>
         [~ OneRestarts \/ Contract!ContractNext]_(Contract!contractVars)
  BY ContractStep
<1> QED BY <1>1, <1>2, RestartInvariant, PTL DEF Spec, ImplementsCallerContract
===============================================================================
