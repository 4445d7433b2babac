-------------------------- MODULE MCPipelineUpdate --------------------------
(***************************************************************************)
(* Two repositories; the first has two services, so that a failed build    *)
(* concerns several jobs and a restart can fail or get lost beside one     *)
(* that succeeds; one service is restarted without a container.            *)
(***************************************************************************)
EXTENDS PipelineUpdate

CONSTANTS s1, s2, s3, r1, r2

MCJobs == {s1, s2, s3}
MCRepos == {r1, r2}
MCRepoOf == [s \in MCJobs |-> IF s = s3 THEN r2 ELSE r1]
=============================================================================
