-------------------------- MODULE DocumentLifecycle -------------------------
(***************************************************************************)
(* What a client of GET /documents/{id}/status may rely on: a document is  *)
(* submitted once, worked on once, and its status moves forward only, and  *)
(* only while something works on it.  DocumentPipeline implements this.    *)
(***************************************************************************)
CONSTANT Docs

VARIABLES
  status,   \* what the status endpoint shows
  working   \* whether a task for the document is queued or running

Init ==
  /\ status = [d \in Docs |-> "absent"]
  /\ working = [d \in Docs |-> FALSE]

Become(d, s, busy) ==
  /\ status' = [status EXCEPT ![d] = s]
  /\ working' = [working EXCEPT ![d] = busy]

Submit(d)  == status[d] = "absent" /\ ~working[d] /\ Become(d, "pending", FALSE)

\* The task may start after the document was deleted, and finds nothing then.
Start(d)   == /\ status[d] \in {"pending", "deleted"}
              /\ ~working[d]
              /\ Become(d, status[d], TRUE)

Extract(d) == status[d] = "pending" /\ working[d] /\ Become(d, "completed", TRUE)

Fail(d)    == /\ status[d] \in {"pending", "completed"}
              /\ working[d]
              /\ \E busy \in BOOLEAN : Become(d, "failed", busy)

Stop(d)    == working[d] /\ Become(d, status[d], FALSE)

Delete(d)  == /\ status[d] \in {"pending", "completed", "failed"}
              /\ Become(d, "deleted", working[d])

Next == \E d \in Docs : \/ Submit(d)
                        \/ Start(d)
                        \/ Extract(d)
                        \/ Fail(d)
                        \/ Stop(d)
                        \/ Delete(d)

Spec == Init /\ [][Next]_<<status, working>>
=============================================================================
