------------------------------ MODULE MCKVServer ------------------------------
(* A small cluster for KVServer: one key, and a write, a read and a delete.  *)
EXTENDS KVServer

CONSTANTS n1, n2, k1, v1

MCCommand ==
    { [id |-> 1, coordinator_id |-> n1,
       kv_cmd |-> [op |-> "Put", key |-> k1, value |-> v1]],
      [id |-> 2, coordinator_id |-> n2, kv_cmd |-> [op |-> "Get", key |-> k1]],
      [id |-> 3, coordinator_id |-> n1, kv_cmd |-> [op |-> "Delete", key |-> k1]] }
===============================================================================
