----------------------------- MODULE IdAllocator ----------------------------
(***************************************************************************)
(* What callers of id_generator.generate() may rely on: within a process   *)
(* every id is greater than all those before it, so none comes twice.      *)
(* Snowflake implements this.                                              *)
(***************************************************************************)
EXTENDS Naturals, Sequences

CONSTANTS Processes, Ids

VARIABLE issued   \* the ids each process has handed out, in order

Init == issued = [p \in Processes |-> <<>>]

Issue(p, id) ==
  /\ \A k \in 1..Len(issued[p]) : issued[p][k] < id
  /\ issued' = [issued EXCEPT ![p] = Append(@, id)]

Next == \E p \in Processes, id \in Ids : Issue(p, id)

Spec == Init /\ [][Next]_issued
=============================================================================
