------------------------------- MODULE MCRings -------------------------------
(* Small instances of the two ring buffers, each with what goes on around it: *)
(* the event queue of the collector, and the link that keeps the latest       *)
(* packets of one connection.  A behaviour exercises one of them.             *)
EXTENDS Collector, MCBredrLink

CONSTANTS p1, p2

VARIABLE part

TwoWorkers == {p1, p2}
Either == BOOLEAN

PartsInit == part \in {"queue", "link"} /\ CollectorInit /\ Init

PartsNext ==
  \/ part = "queue" /\ CollectorNext /\ UNCHANGED <<part, vars>>
  \/ part = "link" /\ Next /\ UNCHANGED <<part, collectorVars>>

\* Fairness of Collector, for the behaviours that exercise the queue.
PartsSpec ==
  /\ PartsInit /\ [][PartsNext]_<<part, vars, collectorVars>>
  /\ \A p \in Producers :
       /\ WF_collectorVars(part = "queue" /\ CollectorSubmit(p))
       /\ WF_collectorVars(part = "queue" /\ Timeout(p))
  /\ WF_collectorVars(part = "queue" /\ Consumer)
  /\ WF_collectorVars(part = "queue" /\ Wake)
=============================================================================
