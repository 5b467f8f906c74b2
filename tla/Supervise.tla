----------------------------- MODULE Supervise -----------------------------
(***************************************************************************)
(* The native supervisor of a check's command (crates/process,             *)
(* supervise.rs).                                                          *)
(*                                                                         *)
(* The coordinator starts it with a duplicate of the check's lock, and it  *)
(* hands one on to the command, so that the lock stays taken while any of  *)
(* them lives, whatever becomes of the coordinator.  The command leads a   *)
(* process group of its own, whose members may outlive it.                 *)
(***************************************************************************)

CONSTANTS Candidate, None

VARIABLE
    run       \* the supervised command of each candidate's check, or None

\* members are the descendants of the command that stayed in its group.
Command(leaf) ==
    [leaf |-> leaf, supervisor |-> "monitor", leader |-> "alive",
     members |-> FALSE, over |-> FALSE, outcome |-> None]

Living(k) ==
    /\ run[k] # None
    /\ run[k].supervisor \in {"monitor", "terminate"} \/ run[k].leader = "alive" \/ run[k].members

\* The command forks, exits, and its descendants exit, whenever they like.
ForkMember(k) ==
    /\ run[k] # None /\ run[k].leader = "alive" /\ ~run[k].members
    /\ run' = [run EXCEPT ![k].members = TRUE]
LeaderExits(k) ==
    /\ run[k] # None /\ run[k].leader = "alive"
    /\ run' = [run EXCEPT ![k].leader = "exited"]
MembersExit(k) ==
    /\ run[k] # None /\ run[k].members
    /\ run' = [run EXCEPT ![k].members = FALSE]

\* The deadline passes, or the log outgrows its limit.
LimitPasses(k) ==
    /\ run[k] # None /\ run[k].supervisor = "monitor" /\ ~run[k].over
    /\ run' = [run EXCEPT ![k].over = TRUE]

\* One poll that ends the loop.  The leader is not reaped, so that its group
\* keeps its number until it is signalled.
monitor(k) ==
    /\ run[k] # None /\ run[k].supervisor = "monitor"
    /\ run[k].leader = "exited" \/ run[k].over
    /\ run' = [run EXCEPT ![k].supervisor = "terminate",
                          ![k].outcome = IF run[k].leader = "exited" THEN "exited" ELSE "cut"]

\* Mutant: only a command that is still there is signalled.
TerminateLeader(k) ==
    /\ run[k] # None /\ run[k].supervisor = "terminate"
    /\ run' = [run EXCEPT ![k].supervisor = "done", ![k].leader = "exited",
                          ![k].members = @ /\ run[k].outcome = "exited"]

\* The whole group is killed, also when its leader exited by itself.
terminate(k) ==
    /\ run[k] # None /\ run[k].supervisor = "terminate"
    /\ run' = [run EXCEPT ![k].supervisor = "done", ![k].leader = "exited", ![k].members = FALSE]

\* Somebody kills the supervisor: the group goes on without it.
SupervisorDies(k) ==
    /\ Living(k) /\ run[k].supervisor \in {"monitor", "terminate"}
    /\ run' = [run EXCEPT ![k].supervisor = "killed"]

\* The exit code is the command's own only when it ended within its limits.
Succeeded(k) == run[k].supervisor = "done" /\ run[k].outcome = "exited"

Supervised(k) ==
    ForkMember(k) \/ LeaderExits(k) \/ MembersExit(k) \/ LimitPasses(k) \/ monitor(k) \/ terminate(k)

\* Time passes, and a process that lives is scheduled.
SuperviseFairness(k) == WF_run(LimitPasses(k)) /\ WF_run(monitor(k) \/ terminate(k))
=============================================================================
