---------------------------- MODULE CallerContract ----------------------------
(***************************************************************************)
(* What a caller of the HTTP interface may conclude.  A request is         *)
(* executed once at most, in an order all callers share, and not before it *)
(* was made.  A reply is about the caller's own request, which has been    *)
(* executed.  A definite error says that it never will be, unless its      *)
(* caller makes it again, which is safe: it is still executed once at      *)
(* most.  Any other error says nothing: the request may have been          *)
(* executed, or may be executed long after its caller gave up.             *)
(***************************************************************************)
EXTENDS Naturals, Sequences

CONSTANT Caller

VARIABLES outcome,   \* outcome[k]: what the caller k knows
          executed   \* the requests executed so far, in order

contractVars == <<outcome, executed>>

State(type) == [type |-> type, entry |-> 0]

\* A reply stands for the execution it reports.
Replied(i) == [type |-> "replied", entry |-> i]

ContractInit == /\ outcome = [k \in Caller |-> State("idle")]
                /\ executed = <<>>

\* For the first time, or again after a definite error.
Call(k) == /\ outcome[k] \in {State("idle"), State("failed")}
           /\ outcome' = [outcome EXCEPT ![k] = State("open")]
           /\ UNCHANGED executed

Execute(k) == /\ outcome[k] \in {State("open"), State("unknown")}
              /\ \A i \in 1..Len(executed) : executed[i] # k
              /\ executed' = Append(executed, k)
              /\ UNCHANGED outcome

Reply(k) == /\ outcome[k] = State("open")
            /\ \E i \in 1..Len(executed) :
                  /\ executed[i] = k
                  /\ outcome' = [outcome EXCEPT ![k] = Replied(i)]
            /\ UNCHANGED executed

Fail(k) == /\ outcome[k] = State("open")
           /\ \A i \in 1..Len(executed) : executed[i] # k
           /\ outcome' = [outcome EXCEPT ![k] = State("failed")]
           /\ UNCHANGED executed

\* Callers are left without an answer, several at once when a connection is lost.
GiveUp(K) == /\ \A k \in K : outcome[k] = State("open")
             /\ outcome' = [k \in Caller |-> IF k \in K THEN State("unknown") ELSE outcome[k]]
             /\ UNCHANGED executed

ContractNext == \/ \E K \in SUBSET Caller : GiveUp(K)
                \/ \E k \in Caller : Call(k) \/ Execute(k) \/ Reply(k) \/ Fail(k)

ContractSpec == ContractInit /\ [][ContractNext]_contractVars
===============================================================================
