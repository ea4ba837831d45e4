----------------------------- MODULE MCSnowflake ----------------------------
(* Instances of Snowflake for TLC. *)
EXTENDS Snowflake, TLC

CONSTANTS p1, t1, t2

\* Two threads of one process.
OneHome == (t1 :> p1) @@ (t2 :> p1)

\* snowflake.py 82: id_generator = SnowflakeID(datacenter_id=1, worker_id=1).
SameTag == [p \in Processes |-> 1]
=============================================================================
