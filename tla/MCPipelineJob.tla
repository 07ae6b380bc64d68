---------------------------- MODULE MCPipelineJob ----------------------------
(***************************************************************************)
(* PipelineJob with request threads and jobs that may be exchanged for one   *)
(* another.  A job that follows another one is created and not followed any  *)
(* further: its own life is that of the first.                              *)
(***************************************************************************)
EXTENDS PipelineJob, TLC

Symmetry == Permutations(Threads) \cup Permutations(Jobs)

SecondOnlyStarts ==
  \A i, j \in Jobs :
    i # j /\ job[i].status # "none" /\ job[j].status # "none" =>
      \E k \in {i, j} : job[k].status = "QUEUED" /\ run[k]["initial"].status = "absent"

=============================================================================
