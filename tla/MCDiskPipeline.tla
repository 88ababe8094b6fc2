--------------------------- MODULE MCDiskPipeline ---------------------------
(* Small instances of DiskPipeline for TLC.                                *)
EXTENDS DiskPipeline

\* Every setting of the internal pipeline; virt-v2v before it with neither or
\* both of flatten and to_output, after it with both, each with a pool for
\* virt-v2v when there is one for the disks.
AllChoices ==
    {s \in Settings :
        \/ s.v2v = "no" /\ s.post = "no"
        \/ s.post = "no" /\ s.flatten = s.toOutput
           /\ s.v2v = (IF s.parallel THEN "many" ELSE "one")
        \/ s.v2v = "no" /\ s.flatten /\ s.toOutput
           /\ s.post = (IF s.parallel THEN "many" ELSE "one")}

\* A pool that flattens.
Pools == {s \in Settings : s.parallel /\ s.flatten /\ s.v2v = "no" /\ s.post = "no"}
=============================================================================
