--------------------------- MODULE MCDurableState ---------------------------
(* Small instances of the three things that are kept for good: courses,    *)
(* the documents of one course, and the identity of one environment.  None *)
(* of them reads what another one writes, so that a behaviour is of one of *)
(* them, while the others stay as they begin.                              *)
EXTENDS Courses, Documents, Provisioner, TLC

VARIABLE kept

MCInit ==
    /\ Init /\ CourseInit /\ ProvisionerInit
    /\ \/ kept = "environment"
       \/ kept \in {"documents", "courses"} /\ used = {}

MCNext ==
    /\ \/ kept = "documents" /\ Next /\ UNCHANGED <<courseVars, provisionerVars>>
       \/ kept = "courses" /\ CourseNext /\ UNCHANGED <<vars, provisionerVars>>
       \/ kept = "environment" /\ ProvisionerNext /\ UNCHANGED <<vars, courseVars>>
    /\ UNCHANGED kept

MCSpec == MCInit /\ [][MCNext]_<<vars, courseVars, provisionerVars, kept>>

\* Nothing tells two clients, keys, slots or instances apart, and files are
\* readable or not.  Clients and instances never meet: one exchange is of both.
Same(S) == [x \in S |-> x]
Exchange(S) == [x \in S |-> CHOOSE y \in S : y # x]
Symmetry ==
    {Same(Clients) @@ Same(Instances), Exchange(Clients) @@ Exchange(Instances)}
        \cup Permutations(Keys) \cup Permutations(Slots)
=============================================================================
