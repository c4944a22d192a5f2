------------------------------- MODULE MCTasks -------------------------------
(* Instances of TaskScheduler for TLC: the cfgs give hosts, jobs, the limits    *)
(* and the bounds.                                                              *)
EXTENDS TaskScheduler, TLC

\* Every step may fail.
AllFail == {"call", "prepare", "release", "truncate", "fill", "record", "reap", "wait", "readback",
            "end"}
NoneFail == {}

\* Every call; those that spawn jobs and wait for them; and those that do so with
\* one job.
AllCalls == Op
WaitCalls == {"spawn", "poll", "batch"}
SpawnCalls == {"spawn", "poll"}

\* Hosts are interchangeable, and so are jobs.
Symmetry == Permutations(Host) \cup Permutations(Job)
=============================================================================
