--------------------------------- MODULE CI ---------------------------------
(***************************************************************************)
(* Continuous integration as a whole: a developer edits, stages, checks    *)
(* and pushes; runners execute the jobs of the pushed commit, and the job  *)
(* "workflows" runs the generated-file check of ci/cli.ts on its clone.    *)
(***************************************************************************)
EXTENDS Generated, Workflows

CONSTANT Schedules  \* bound: the sets of jobs that run at the same time

ASSUME SchedulesAssumption == Schedules \subseteq SUBSET Job

VARIABLES head,      \* the pushed commit
          scheduled  \* the jobs of this behaviour

vars == <<genVars, jobVars, head, scheduled>>

\* A clean clone of a commit whose outputs are those of its sources.  The
\* developer edits where the run checks generated files; no other job reads them.
Init ==
    /\ scheduled \in Schedules
    /\ \E s \in Source \ Malformed :
        /\ head = [src |-> s, out |-> Render[s]]
        /\ disk = [m \in Machine |-> head]
        /\ index = [m \in Machine |-> head]
    /\ command = [m \in Machine |-> "generate"]
    /\ todo = [m \in Machine |-> <<>>]
    /\ verdict = [m \in Machine |-> "none"]
    /\ edits = IF "workflows" \in scheduled THEN MaxEdits ELSE 0
    /\ JobsInit

Pushed == \E j \in scheduled : result[j] # "none"

\* A push to main or a pull request starts the jobs on its commit.
Push ==
    /\ ~Pushed /\ verdict["local"] # "running"
    /\ head' = index["local"]
    /\ result' = [j \in Job |-> IF j \in scheduled THEN "running" ELSE "none"]
    /\ UNCHANGED <<genVars, log, busy, scheduled>>

\* The step "Check typed workflows and generated files".
Gate(j) == j = "workflows" /\ Len(log[j]) + 1 = Len(StepsOf(j))

Start(j) ==
    /\ StartStep(j)
    /\ IF Gate(j) THEN main("runner", "check") ELSE UNCHANGED genVars
    /\ UNCHANGED <<head, scheduled>>

Skip(j) == SkipStep(j) /\ UNCHANGED <<genVars, head, scheduled>>

Succeed(j) ==
    /\ SucceedStep(j)
    /\ Gate(j) => verdict["runner"] = "accepted"
    /\ IF j = "workflows" /\ Current(j) = checkout
       THEN /\ disk' = [disk EXCEPT !["runner"] = head]
            /\ index' = [index EXCEPT !["runner"] = head]
            /\ UNCHANGED <<command, todo, verdict, edits>>
       ELSE UNCHANGED genVars
    /\ UNCHANGED <<head, scheduled>>

\* The command fails, or the runner does; what it was running is gone.
StopCheck(j) ==
    IF Gate(j) /\ verdict["runner"] = "running"
    THEN /\ todo' = [todo EXCEPT !["runner"] = <<>>]
         /\ verdict' = [verdict EXCEPT !["runner"] = "rejected"]
         /\ UNCHANGED <<disk, index, command, edits>>
    ELSE UNCHANGED genVars

Fail(j)   == FailStep(j) /\ StopCheck(j) /\ UNCHANGED <<head, scheduled>>
End(j)    == Conclude(j) /\ UNCHANGED <<genVars, head, scheduled>>

Cut(j)    == TimeOut(j) /\ StopCheck(j) /\ UNCHANGED <<head, scheduled>>

Check(m) == (RunCommand(m) \/ FailCommand(m)) /\ UNCHANGED <<jobVars, head, scheduled>>

Develop ==
    /\ "workflows" \in scheduled /\ ~Pushed
    /\ \/ \E s \in Source : EditSource(s)
       \/ \E p \in Path, c \in Source \cup {None} : EditOutput(p, c)
       \/ StageSource
       \/ \E p \in Path : StageOutput(p)
       \/ \E which \in {"generate", "check"} : main("local", which)
    /\ UNCHANGED <<jobVars, head, scheduled>>

Next ==
    \/ Develop
    \/ Push
    \/ \E m \in Machine : Check(m)
    \/ \E j \in scheduled : Start(j) \/ Skip(j) \/ Succeed(j) \/ Fail(j) \/ End(j) \/ Cut(j)

Spec == Init /\ [][Next]_vars

\* The service enforces time limits; no step is promised to end by itself.
FairSpec == Spec /\ \A j \in Job : WF_vars(j \in scheduled /\ Cut(j))

-----------------------------------------------------------------------------
\* A check that ends well has seen the index hold exactly the outputs of the
\* sources in the worktree, whatever earlier failed checks, interrupted
\* generations and edits by hand left there (ci/cli.ts, "check").
AcceptedIsGenerated ==
    \A m \in Machine : command[m] = "check" /\ verdict[m] = "accepted"
                           => index[m].out = Render[disk[m].src]

\* A commit whose "Generated workflows" job is green holds exactly the outputs
\* of its own sources, even when the local check accepted something else: one
\* with the outputs staged and the sources not.
GreenCommitIsGenerated ==
    result["workflows"] = "success" => head.out = Render[head.src]

\* No step runs on a runner that lacks what the steps before it had to give:
\* the toolchain with the components it asks for, the packages, executables
\* and sources, also after one of them failed.
StepsHaveTheirInputs ==
    \A j \in busy : Current(j).always \/ Current(j).needs \subseteq Facts(j)

\* If the models were checked, even with a failure, and the job was not cut,
\* an attempt to save their evidence was made.
EvidenceIsSaved ==
    LET l == log["specification"]
    IN  result["specification"] \in {"success", "failure"} /\ l[4] # "skipped"
            => l[5] # "skipped"

\* Every job that starts ends with a verdict of its own: its steps', or its
\* time limit's, however its steps hang and whatever the other jobs do.
EveryJobReports ==
    \A j \in Job : result[j] = "running" ~> result[j] \in {"success", "failure", "timed out"}
=============================================================================
