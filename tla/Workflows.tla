----------------------------- MODULE Workflows ------------------------------
(***************************************************************************)
(* The jobs of the CI and SQLite metadata workflows (ci/ci.ts,             *)
(* ci/metadata.ts, ci/native.ts, ci/steps.ts) and how a runner executes    *)
(* them: step by step, skipping the rest after a failure except the steps  *)
(* marked always(), cut at the job's time limit.                           *)
(*                                                                         *)
(* A step is what it needs on the runner, what it gives when it succeeds,  *)
(* and what it leaves there however it ends.                               *)
(***************************************************************************)
EXTENDS Naturals, Sequences

Fact(name)  == <<name, "">>
Rust(v)     == <<"rust", v>>
Rustfmt(v)  == <<"rustfmt", v>>
Clippy(v)   == <<"clippy", v>>
Repository == Fact("repository")

Step(needs, gives) == [needs |-> needs, gives |-> gives, leaves |-> {}, always |-> FALSE]

checkout  == Step({}, {Repository})
setupNode == Step({}, {Fact("node")})
\* rustup toolchain install --profile minimal: neither rustfmt nor clippy.
rust(v)   == Step({}, {Rust(v)})
cargo(v, gives) == Step({Repository, Rust(v)}, gives)

\* The exec calls of the privileged action; the first that throws ends it.
checkFilesystems ==
    << Step({Repository}, {Fact("package lists")}),
       Step({Fact("package lists")}, {Fact("btrfs and xfs")}),
       rust("1.97.1"),
       cargo("1.97.1", {Fact("metadata executable")}),
       Step({Rust("1.97.1")}, {Fact("cargo path")}),
       Step({Fact("btrfs and xfs"), Fact("metadata executable"), Fact("cargo path")}, {}) >>

\* Mutant: the evidence is saved like any other step.
SavePlain == [Step({Fact("evidence")}, {}) EXCEPT !.always = FALSE]

\* Save checker evidence: if: always(), if-no-files-found: error.
SaveEvidence == [Step({Fact("evidence")}, {}) EXCEPT !.always = TRUE]

\* Safety, witnesses and the fencing mutation: its logs stay when it fails.
CheckModels ==
    [cargo("1.97.1", {}) EXCEPT !.needs = @ \cup {Fact("java")}, !.leaves = {Fact("evidence")}]

ci ==
    [workflows |-> << checkout, setupNode,
                      Step({Repository, Fact("node")}, {Fact("modules")}),
                      Step({Repository, Fact("modules")}, {}) >>,
     schema |-> << checkout,
                   Step({}, {Fact("atlas source")}),
                   Step({}, {Fact("go")}),
                   Step({Fact("atlas source"), Fact("go")}, {Fact("atlas")}),
                   rust("1.97.1"),
                   [cargo("1.97.1", {}) EXCEPT !.needs = @ \cup {Fact("atlas")}],
                   [cargo("1.97.1", {}) EXCEPT !.needs = @ \cup {Fact("atlas")}] >>,
     build |-> << checkout, rust("1.97.1"), cargo("1.97.1", {}) >>,
     filesystems |-> << checkout >> \o checkFilesystems,
     windows |-> << checkout, rust("1.97.1"), cargo("1.97.1", {}) >>,
     windows_arm |-> << checkout, rust("1.97.1-arm"), cargo("1.97.1-arm", {}) >>,
     specification |-> << checkout, rust("1.97.1"), Step({}, {Fact("java")}),
                          CheckModels, SaveEvidence >>]

\* One job of the matrix per platform.
metadataSteps ==
    << checkout,
       Step({}, {Rust("1.97.1"), Rustfmt("1.97.1"), Clippy("1.97.1")}),
       Step({Repository, Rust("1.97.1"), Rustfmt("1.97.1")}, {}),
       Step({Repository, Rust("1.97.1"), Clippy("1.97.1")}, {}),
       cargo("1.97.1", {}), cargo("1.97.1", {}), cargo("1.97.1", {}),
       cargo("1.97.1", {}), cargo("1.97.1", {}) >>

metadata == [ubuntu |-> metadataSteps, macos |-> metadataSteps,
             minimum_rust |-> << checkout, rust("1.85.0"), cargo("1.85.0", {}) >>]

Job == DOMAIN ci \cup DOMAIN metadata
StepsOf(j) == IF j \in DOMAIN ci THEN ci[j] ELSE metadata[j]

-----------------------------------------------------------------------------
VARIABLES log,    \* how each job's steps ended so far
          busy,   \* jobs whose current step is executing
          result  \* how each job ended

jobVars == <<log, busy, result>>

JobsInit == log = [j \in Job |-> <<>>] /\ busy = {} /\ result = [j \in Job |-> "none"]

Current(j) == StepsOf(j)[Len(log[j]) + 1]
Failed(j)  == \E i \in DOMAIN log[j] : log[j][i] = "failure"

\* What the steps before the current one left on the runner.
Facts(j) == (UNION {StepsOf(j)[i].leaves : i \in {k \in DOMAIN log[j] : log[j][k] # "skipped"}})
            \cup (UNION {StepsOf(j)[i].gives : i \in {k \in DOMAIN log[j] : log[j][k] = "success"}})

\* Mutant: a failed step does not keep the next from running.
RunnableAnyway(j) == TRUE

Runnable(j) == Failed(j) => Current(j).always

StartStep(j) ==
    /\ result[j] = "running" /\ j \notin busy
    /\ Len(log[j]) < Len(StepsOf(j))
    /\ Runnable(j)
    /\ busy' = busy \cup {j}
    /\ UNCHANGED <<log, result>>

SkipStep(j) ==
    /\ result[j] = "running" /\ j \notin busy
    /\ Len(log[j]) < Len(StepsOf(j))
    /\ ~Runnable(j)
    /\ log' = [log EXCEPT ![j] = Append(@, "skipped")]
    /\ UNCHANGED <<busy, result>>

SucceedStep(j) ==
    /\ j \in busy
    /\ Current(j).needs \subseteq Facts(j)
    /\ log' = [log EXCEPT ![j] = Append(@, "success")]
    /\ busy' = busy \ {j}
    /\ UNCHANGED result

\* Mutant: a failing platform cancels the other one.
FailStepFast(j) ==
    /\ j \in busy
    /\ log' = [log EXCEPT ![j] = Append(@, "failure")]
    /\ busy' = busy \ {j}
    /\ result' = [k \in Job |-> IF {j, k} = {"ubuntu", "macos"} /\ result[k] = "running"
                                THEN "cancelled" ELSE result[k]]

FailStep(j) ==
    /\ j \in busy
    /\ log' = [log EXCEPT ![j] = Append(@, "failure")]
    /\ busy' = busy \ {j}
    /\ UNCHANGED result

Conclude(j) ==
    /\ result[j] = "running" /\ Len(log[j]) = Len(StepsOf(j))
    /\ result' = [result EXCEPT ![j] = IF Failed(j) THEN "failure" ELSE "success"]
    /\ UNCHANGED <<log, busy>>

\* timeout-minutes, or the service's own limit for the jobs that state none.
TimeOut(j) ==
    /\ result[j] = "running"
    /\ result' = [result EXCEPT ![j] = "timed out"]
    /\ busy' = busy \ {j}
    /\ UNCHANGED log
=============================================================================
