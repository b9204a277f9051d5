---------------------------- MODULE MCDeployment ----------------------------
(* Two revisions of two statements, the last of which can be repeated; a      *)
(* service and the script may start over them at once.                        *)
EXTENDS Deployment
MCEndOf == <<2, 4>>
MCRepeatable == {4}

\* Bounds.  Databases of every kind and starts that overlap or are cut short are
\* explored while nothing is stored; data is stored, backed up and restored over
\* a schema whose starts went well, with the frontend and the script as the first
\* part leaves them.  A state in which someone meddled is checked, not continued.
\* A bundle travels while the services stand still, beside no more than the start
\* of a backup, with nothing in the volumes.
Untouched ==
    /\ data = [d \in Domains |-> 0] /\ job = "none" /\ copies = << >>
    /\ repository = {Earlier} /\ transfer = << >>
Calm ==
    /\ known /\ ~disturbed /\ ~meddled
    /\ pc[bootstrap] \in {"down", "ready"} /\ service["frontend"] = "stopped"
    /\ repository # {Earlier} \/ transfer # << >> =>
         /\ service = [s \in Services |-> "stopped"] /\ pc[bootstrap] = "down"
         /\ \A v \in Volumes : data[v] = 0
         /\ data["mysql"] # Damaged
    /\ transfer # << >> => job \in {"none", "runtime", "destination", "revision"}
    /\ copies # << >> => Cardinality({d \in Domains : copies[d] = Damaged}) <= 1
StartsOrRecovery == Calm \/ Untouched
=============================================================================
