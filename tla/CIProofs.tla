------------------------------ MODULE CIProofs ------------------------------
(***************************************************************************)
(* Continuous integration: what an accepted check and a green commit prove *)
(* about generated files, for all sources, outputs and edits, and that the *)
(* steps of every job have what they need.                                 *)
(***************************************************************************)
EXTENDS CI, SequenceTheorems, TLAPS
-----------------------------------------------------------------------------
(* The jobs *)

LEMMA Jobs ==
    /\ Job = {"workflows", "schema", "build", "filesystems", "windows", "windows_arm",
              "specification", "ubuntu", "macos", "minimum_rust"}
    /\ StepsOf("workflows") = << checkout, setupNode,
                                 Step({Repository, Fact("node")}, {Fact("modules")}),
                                 Step({Repository, Fact("modules")}, {}) >>
    /\ StepsOf("schema") = ci.schema
    /\ StepsOf("build") = ci.build
    /\ StepsOf("filesystems") = << checkout >> \o checkFilesystems
    /\ StepsOf("windows") = ci.windows
    /\ StepsOf("windows_arm") = ci.windows_arm
    /\ StepsOf("specification") = ci.specification
    /\ StepsOf("ubuntu") = metadataSteps
    /\ StepsOf("macos") = metadataSteps
    /\ StepsOf("minimum_rust") = metadata.minimum_rust
BY DEF Job, StepsOf, ci, metadata

\* Each step's needs are among what the steps before it give when they succeed.
Supplied(steps) ==
    /\ Len(steps) \in Nat
    /\ \A n \in 1..Len(steps) :
        steps[n].always \/ \A x \in steps[n].needs : \E i \in 1..(n - 1) : x \in steps[i].gives

\* The jobs that only compile and test.
LEMMA CargoSupplied ==
    ASSUME NEW v, NEW gives
    PROVE  Supplied(<< checkout, rust(v), cargo(v, gives) >>)
<1> DEFINE steps == << checkout, rust(v), cargo(v, gives) >>
<1>1. Len(steps) = 3
  OBVIOUS
<1>2. /\ steps[1].needs = {} /\ steps[1].gives = {Repository}
      /\ steps[2].needs = {} /\ steps[2].gives = {Rust(v)}
      /\ steps[3].needs = {Repository, Rust(v)}
  BY DEF checkout, rust, cargo, Step
<1> HIDE DEF steps
<1>3. ASSUME NEW n \in 1..3, NEW x \in steps[n].needs
      PROVE  \E i \in 1..(n - 1) : x \in steps[i].gives
  BY <1>2, <1>3
<1>4. Supplied(steps)
  BY <1>1, <1>2, <1>3 DEF Supplied
<1> QED
  BY <1>4 DEF steps

\* The job that checks generated files.
LEMMA WorkflowsSupplied == Supplied(StepsOf("workflows"))
<1> DEFINE steps == StepsOf("workflows")
<1>1. Len(steps) = 4
  BY Jobs
<1>2. /\ steps[1].needs = {} /\ steps[1].gives = {Repository}
      /\ steps[2].needs = {} /\ steps[2].gives = {Fact("node")}
      /\ steps[3].needs = {Repository, Fact("node")} /\ steps[3].gives = {Fact("modules")}
      /\ steps[4].needs = {Repository, Fact("modules")}
  BY Jobs DEF checkout, setupNode, Step
<1> HIDE DEF steps
<1>3. ASSUME NEW n \in 1..4, NEW x \in steps[n].needs
      PROVE  \E i \in 1..(n - 1) : x \in steps[i].gives
  BY <1>2, <1>3
<1>4. Supplied(steps)
  BY <1>1, <1>2, <1>3 DEF Supplied
<1> QED
  BY <1>4 DEF steps

\* The job that checks migrations.
LEMMA SchemaSupplied == Supplied(StepsOf("schema"))
<1> DEFINE steps == StepsOf("schema")
           tests == [cargo("1.97.1", {}) EXCEPT !.needs = @ \cup {Fact("atlas")}]
<1>0. steps = << checkout, Step({}, {Fact("atlas source")}), Step({}, {Fact("go")}),
                 Step({Fact("atlas source"), Fact("go")}, {Fact("atlas")}), rust("1.97.1"),
                 tests, tests >>
  BY Jobs, Zenon DEF ci
<1>t. tests.needs = {Repository, Rust("1.97.1")} \cup {Fact("atlas")}
  BY DEF cargo, Step
<1> HIDE DEF tests
<1> HIDE DEF steps
<1>1. Len(steps) = 7
  BY <1>0
<1>2. /\ steps[1].needs = {} /\ steps[1].gives = {Repository}
      /\ steps[2].needs = {} /\ steps[2].gives = {Fact("atlas source")}
      /\ steps[3].needs = {} /\ steps[3].gives = {Fact("go")}
      /\ steps[4].needs = {Fact("atlas source"), Fact("go")} /\ steps[4].gives = {Fact("atlas")}
      /\ steps[5].needs = {} /\ steps[5].gives = {Rust("1.97.1")}
      /\ steps[6].needs = {Repository, Rust("1.97.1")} \cup {Fact("atlas")}
      /\ steps[7].needs = {Repository, Rust("1.97.1")} \cup {Fact("atlas")}
  BY <1>0, <1>t DEF checkout, rust, Step
<1>3. /\ \A x \in steps[4].needs : x \in steps[2].gives \/ x \in steps[3].gives
      /\ \A x \in steps[6].needs : x \in steps[1].gives \/ x \in steps[5].gives \/ x \in steps[4].gives
      /\ \A x \in steps[7].needs : x \in steps[1].gives \/ x \in steps[5].gives \/ x \in steps[4].gives
  BY <1>2
<1>4. Supplied(steps)
  <2> SUFFICES ASSUME NEW n \in 1..7, NEW x \in steps[n].needs
               PROVE  \E i \in 1..(n - 1) : x \in steps[i].gives
    BY <1>1 DEF Supplied
  <2>0. n = 1 \/ n = 2 \/ n = 3 \/ n = 4 \/ n = 5 \/ n = 6 \/ n = 7
    OBVIOUS
  <2>1. n # 1 /\ n # 2 /\ n # 3 /\ n # 5
    BY <1>2
  <2> QED
    BY <2>0, <2>1, <1>3
<1> QED
  BY <1>4 DEF steps

\* The SQLite metadata job of each platform.
LEMMA MetadataSupplied == Supplied(metadataSteps)
<1> DEFINE steps == metadataSteps
<1>1. Len(steps) = 9
  BY DEF metadataSteps
<1>2. /\ steps[1].needs = {} /\ steps[1].gives = {Repository}
      /\ steps[2].needs = {} /\ steps[2].gives = {Rust("1.97.1"), Rustfmt("1.97.1"), Clippy("1.97.1")}
      /\ steps[3].needs = {Repository, Rust("1.97.1"), Rustfmt("1.97.1")}
      /\ steps[4].needs = {Repository, Rust("1.97.1"), Clippy("1.97.1")}
      /\ \A n \in 5..9 : steps[n].needs = {Repository, Rust("1.97.1")}
  BY DEF metadataSteps, checkout, cargo, Step
<1> HIDE DEF steps
<1>3. ASSUME NEW n \in 1..9, NEW x \in steps[n].needs
      PROVE  \E i \in 1..(n - 1) : x \in steps[i].gives
  BY <1>2, <1>3
<1>4. Supplied(steps)
  BY <1>1, <1>2, <1>3 DEF Supplied
<1> QED
  BY <1>4 DEF steps

\* The models: the evidence is saved whatever came before.
LEMMA SpecificationSupplied == Supplied(StepsOf("specification"))
<1> DEFINE steps == StepsOf("specification")
<1>0. steps = << checkout, rust("1.97.1"), Step({}, {Fact("java")}), CheckModels, SaveEvidence >>
  <2>1. ci.specification = << checkout, rust("1.97.1"), Step({}, {Fact("java")}),
                              CheckModels, SaveEvidence >>
    BY Zenon DEF ci
  <2> QED
    BY <2>1, Jobs
<1> HIDE DEF steps
<1>1. Len(steps) = 5
  BY <1>0
<1>2. /\ steps[1].needs = {} /\ steps[1].gives = {Repository}
      /\ steps[2].needs = {} /\ steps[2].gives = {Rust("1.97.1")}
      /\ steps[3].needs = {} /\ steps[3].gives = {Fact("java")}
      /\ steps[4].needs = {Repository, Rust("1.97.1"), Fact("java")}
      /\ steps[5].always
  BY <1>0 DEF checkout, rust, cargo, CheckModels, SaveEvidence, Step
<1>3. ASSUME NEW n \in 1..5, n # 5, NEW x \in steps[n].needs
      PROVE  \E i \in 1..(n - 1) : x \in steps[i].gives
  BY <1>2, <1>3
<1>4. Supplied(steps)
  BY <1>1, <1>2, <1>3 DEF Supplied
<1> QED
  BY <1>4 DEF steps

\* The privileged filesystem action.
LEMMA FilesystemsSupplied == Supplied(StepsOf("filesystems"))
<1> DEFINE steps == StepsOf("filesystems")
<1>0. steps = << checkout, Step({Repository}, {Fact("package lists")}),
                 Step({Fact("package lists")}, {Fact("btrfs and xfs")}), rust("1.97.1"),
                 cargo("1.97.1", {Fact("metadata executable")}),
                 Step({Rust("1.97.1")}, {Fact("cargo path")}),
                 Step({Fact("btrfs and xfs"), Fact("metadata executable"), Fact("cargo path")}, {}) >>
  <2> DEFINE p2 == Step({Repository}, {Fact("package lists")})
             p3 == Step({Fact("package lists")}, {Fact("btrfs and xfs")})
             p4 == rust("1.97.1")
             p5 == cargo("1.97.1", {Fact("metadata executable")})
             p6 == Step({Rust("1.97.1")}, {Fact("cargo path")})
             p7 == Step({Fact("btrfs and xfs"), Fact("metadata executable"), Fact("cargo path")}, {})
  <2>1. StepsOf("filesystems") = << checkout >> \o << p2, p3, p4, p5, p6, p7 >>
    BY Jobs, Zenon DEF checkFilesystems
  <2> HIDE DEF steps, p2, p3, p4, p5, p6, p7
  <2>2. << checkout >> \o << p2, p3, p4, p5, p6, p7 >> = << checkout, p2, p3, p4, p5, p6, p7 >>
    <3> DEFINE s == << checkout >>
               u == << p2, p3, p4, p5, p6, p7 >>
               w == << checkout, p2, p3, p4, p5, p6, p7 >>
               S == {checkout, p2, p3, p4, p5, p6, p7}
    <3>1. s \in Seq(S) /\ u \in Seq(S) /\ w \in Seq(S) /\ Len(s) = 1 /\ Len(u) = 6 /\ Len(w) = 7
      OBVIOUS
    <3>2. \A i \in 1..7 : w[i] = IF i = 1 THEN s[1] ELSE u[i - 1]
      OBVIOUS
    <3> HIDE DEF s, u, w, S
    <3>0. /\ s \o u \in Seq(S) /\ Len(s \o u) = Len(s) + Len(u)
          /\ \A i \in 1..Len(s) + Len(u) :
                (s \o u)[i] = IF i <= Len(s) THEN s[i] ELSE u[i - Len(s)]
      BY <3>1, ConcatProperties, Zenon
    <3> DEFINE v == s \o u
    <3> HIDE DEF v
    <3>3. v \in Seq(S) /\ Len(v) = 7
      BY <3>0, <3>1 DEF v
    <3>4. \A i \in 1..7 : v[i] = IF i = 1 THEN s[1] ELSE u[i - 1]
      <4>1. \A i \in 1..Len(s) + Len(u) : v[i] = IF i <= Len(s) THEN s[i] ELSE u[i - Len(s)]
        BY <3>0, Zenon DEF v
      <4> QED
        BY <4>1, <3>1
    <3>5. \A i \in 1..7 : v[i] = w[i]
      BY <3>2, <3>4
    <3>6. v = w
      BY <3>1, <3>3, <3>5, SeqEqual
    <3> QED
      BY <3>6 DEF s, u, v, w
  <2>3. steps = << checkout, p2, p3, p4, p5, p6, p7 >>
    BY <2>1, <2>2, Zenon DEF steps
  <2> QED
    BY <2>3, Zenon DEF p2, p3, p4, p5, p6, p7
<1> HIDE DEF steps
<1>1. Len(steps) = 7
  BY <1>0
<1>2. /\ steps[1].needs = {} /\ steps[1].gives = {Repository}
      /\ steps[2].needs = {Repository} /\ steps[2].gives = {Fact("package lists")}
      /\ steps[3].needs = {Fact("package lists")} /\ steps[3].gives = {Fact("btrfs and xfs")}
      /\ steps[4].needs = {} /\ steps[4].gives = {Rust("1.97.1")}
      /\ steps[5].needs = {Repository, Rust("1.97.1")} /\ steps[5].gives = {Fact("metadata executable")}
      /\ steps[6].needs = {Rust("1.97.1")} /\ steps[6].gives = {Fact("cargo path")}
      /\ steps[7].needs = {Fact("btrfs and xfs"), Fact("metadata executable"), Fact("cargo path")}
  BY <1>0 DEF checkout, rust, cargo, Step
<1>3. /\ \A x \in steps[2].needs : x \in steps[1].gives
      /\ \A x \in steps[3].needs : x \in steps[2].gives
      /\ \A x \in steps[5].needs : x \in steps[1].gives \/ x \in steps[4].gives
      /\ \A x \in steps[6].needs : x \in steps[4].gives
      /\ \A x \in steps[7].needs : x \in steps[3].gives \/ x \in steps[5].gives \/ x \in steps[6].gives
  BY <1>2
<1>4. Supplied(steps)
  <2> SUFFICES ASSUME NEW n \in 1..7, NEW x \in steps[n].needs
               PROVE  \E i \in 1..(n - 1) : x \in steps[i].gives
    BY <1>1 DEF Supplied
  <2>0. n = 1 \/ n = 2 \/ n = 3 \/ n = 4 \/ n = 5 \/ n = 6 \/ n = 7
    OBVIOUS
  <2>1. n # 1 /\ n # 4
    BY <1>2
  <2> QED
    BY <2>0, <2>1, <1>3
<1> QED
  BY <1>4 DEF steps

LEMMA AllSupplied == \A j \in Job : Supplied(StepsOf(j))
BY Jobs, CargoSupplied, WorkflowsSupplied, SchemaSupplied, MetadataSupplied, SpecificationSupplied,
   FilesystemsSupplied DEF ci, metadata
-----------------------------------------------------------------------------
(* The invariant *)

Ending  == {"success", "failure", "skipped"}
Outcome == {"none", "running", "success", "failure", "timed out"}
Verdict == {"none", "running", "accepted", "rejected"}

Command == {"tsc", "test", "generate", "bundle", "diff", "untracked"}

FilesTyped ==
    /\ disk \in [Machine -> Tree] /\ index \in [Machine -> Tree] /\ head \in Tree
    /\ command \in [Machine -> {"generate", "check"}]
    /\ verdict \in [Machine -> Verdict]
    /\ todo \in [Machine -> Seq(Command)]

JobsTyped ==
    /\ log \in [Job -> Seq(Ending)]
    /\ result \in [Job -> Outcome]
    /\ busy \subseteq Job /\ scheduled \subseteq Job

\* What is left of "check" after each of its commands.
AfterTsc       == <<"test", "generate", "bundle", "diff", "untracked">>
AfterTest      == <<"generate", "bundle", "diff", "untracked">>
AfterGenerate  == <<"bundle", "diff", "untracked">>
AfterBundle    == <<"diff", "untracked">>
AfterDiff      == <<"untracked">>

\* What a check still to run its last commands knows of the files.
CheckOK(m) ==
    /\ verdict[m] # "running" => todo[m] = <<>>
    /\ verdict[m] = "running" /\ command[m] = "generate" => todo[m] \in {generate, <<"bundle">>}
    /\ verdict[m] = "running" /\ command[m] = "check" =>
           todo[m] \in {check, AfterTsc, AfterTest, AfterGenerate, AfterBundle, AfterDiff}
    /\ command[m] = "check" =>
        /\ todo[m] \in {AfterTest, AfterGenerate} => TestsPass(m)
        /\ todo[m] \in {AfterBundle, AfterDiff} => disk[m].out = Render[disk[m].src]
        /\ todo[m] = AfterDiff => Unchanged(m)
        /\ verdict[m] = "accepted" => index[m].out = Render[disk[m].src]

\* A job's log never passes its steps, its step that runs may run, and only a
\* failure skips a step, which then is not marked always().
JobOK(j) ==
    /\ Len(log[j]) <= Len(StepsOf(j))
    /\ \A i \in 1..Len(log[j]) : log[j][i] = "skipped" => ~StepsOf(j)[i].always /\ Failed(j)
    /\ j \in busy => result[j] = "running" /\ Len(log[j]) < Len(StepsOf(j)) /\ Runnable(j)
    /\ result[j] \in {"success", "failure"} => Len(log[j]) = Len(StepsOf(j))
    /\ result[j] = "success" => ~Failed(j)
    /\ j \notin scheduled => result[j] = "none"
    /\ result[j] = "none" => log[j] = <<>>

\* The runner checks only as the last step of its job, on a clone of the commit.
RunnerOK ==
    LET l == log["workflows"]
    IN  /\ verdict["runner"] # "none" => Len(l) >= 3 /\ command["runner"] = "check"
        /\ Len(l) >= 1 /\ l[1] = "success" =>
               index["runner"] = head /\ disk["runner"].src = head.src
        /\ Len(l) = 4 /\ l[4] = "success" => head.out = Render[head.src]

IInv ==
    /\ FilesTyped /\ JobsTyped
    /\ \A m \in Machine : CheckOK(m)
    /\ \A j \in Job : JobOK(j)
    /\ RunnerOK

-----------------------------------------------------------------------------
(* The jobs *)

\* A job whose state a step leaves alone.
LEMMA UntouchedJob ==
    ASSUME NEW k \in Job, JobOK(k), log'[k] = log[k], k \in busy' <=> k \in busy,
           result'[k] = result[k], scheduled' = scheduled
    PROVE  JobOK(k)'
BY DEF JobOK, Failed, Runnable, Current

\* A step that ends is logged: its job runs on, and a skip follows a failure.
LEMMA EndedStep ==
    ASSUME JobsTyped, NEW k \in Job, JobOK(k), NEW e \in Ending,
           result[k] = "running", Len(log[k]) < Len(StepsOf(k)),
           log' = [log EXCEPT ![k] = Append(@, e)],
           k \notin busy', result' = result, scheduled' = scheduled,
           e = "skipped" => ~Runnable(k)
    PROVE  JobOK(k)' /\ log' \in [Job -> Seq(Ending)]
<1> DEFINE l == log[k]
<1>1. /\ l \in Seq(Ending) /\ log'[k] = Append(l, e) /\ log' \in [Job -> Seq(Ending)]
      /\ Len(l) \in Nat
  BY DEF JobsTyped
<1>2. /\ Append(l, e) \in Seq(Ending) /\ Len(Append(l, e)) = Len(l) + 1
      /\ \A i \in 1..Len(l) : Append(l, e)[i] = l[i]
      /\ Append(l, e)[Len(l) + 1] = e
  BY <1>1
<1>3. Failed(k) => Failed(k)'
  BY <1>1, <1>2 DEF Failed
<1>4. Len(StepsOf(k)) \in Nat /\ Len(l) + 1 <= Len(StepsOf(k))
  BY <1>1, AllSupplied DEF Supplied
<1>5. \A i \in 1..Len(log'[k]) : log'[k][i] = "skipped" => ~StepsOf(k)[i].always /\ Failed(k)'
  <2> SUFFICES ASSUME NEW i \in 1..Len(l) + 1, Append(l, e)[i] = "skipped"
               PROVE  ~StepsOf(k)[i].always /\ Failed(k)'
    BY <1>1, <1>2
  <2>1. CASE i = Len(l) + 1
    BY <2>1, <1>2, <1>3 DEF Runnable, Current
  <2>2. CASE i # Len(l) + 1
    <3>1. i \in 1..Len(l) /\ l[i] = "skipped"
      BY <2>2, <1>1, <1>2
    <3> QED
      BY <3>1, <1>3 DEF JobOK
  <2> QED
    BY <2>1, <2>2
<1>6. k \in scheduled
  BY DEF JobOK
<1> QED
  BY <1>1, <1>2, <1>4, <1>5, <1>6 DEF JobOK

\* The bookkeeping of the jobs, kept by every step of theirs.
LEMMA JobSteps ==
    ASSUME JobsTyped, \A k \in Job : JobOK(k), NEW j \in scheduled,
           Start(j) \/ Skip(j) \/ Succeed(j) \/ Fail(j) \/ End(j) \/ Cut(j)
    PROVE  JobsTyped' /\ \A k \in Job : JobOK(k)'
<1>0. j \in Job /\ scheduled' = scheduled /\ JobOK(j)
  BY DEF JobsTyped, Start, Skip, Succeed, Fail, End, Cut
<1>1. CASE Start(j)
  <2>1. /\ busy' = busy \cup {j} /\ log' = log /\ result' = result
        /\ result[j] = "running" /\ Len(log[j]) < Len(StepsOf(j)) /\ Runnable(j)
    BY <1>1 DEF Start, StartStep
  <2>2. JobOK(j)'
    BY <1>0, <2>1 DEF JobOK, Failed, Runnable, Current
  <2>3. ASSUME NEW k \in Job, k # j PROVE JobOK(k)'
    BY <1>0, <2>1, <2>3, UntouchedJob
  <2> QED
    BY <1>0, <2>1, <2>2, <2>3 DEF JobsTyped
<1>2. CASE Skip(j)
  <2>1. /\ log' = [log EXCEPT ![j] = Append(@, "skipped")] /\ busy' = busy /\ result' = result
        /\ result[j] = "running" /\ Len(log[j]) < Len(StepsOf(j)) /\ ~Runnable(j) /\ j \notin busy
    BY <1>2 DEF Skip, SkipStep
  <2>2. JobOK(j)' /\ log' \in [Job -> Seq(Ending)]
    BY <1>0, <2>1, EndedStep DEF Ending
  <2>3. ASSUME NEW k \in Job, k # j PROVE JobOK(k)'
    BY <1>0, <2>1, <2>3, UntouchedJob DEF JobsTyped
  <2> QED
    BY <1>0, <2>1, <2>2, <2>3 DEF JobsTyped
<1>3. CASE Succeed(j)
  <2>1. /\ log' = [log EXCEPT ![j] = Append(@, "success")] /\ busy' = busy \ {j} /\ result' = result
        /\ result[j] = "running" /\ Len(log[j]) < Len(StepsOf(j)) /\ j \in busy
    BY <1>0, <1>3 DEF Succeed, SucceedStep, JobOK
  <2>2. JobOK(j)' /\ log' \in [Job -> Seq(Ending)]
    BY <1>0, <2>1, EndedStep DEF Ending
  <2>3. ASSUME NEW k \in Job, k # j PROVE JobOK(k)'
    BY <1>0, <2>1, <2>3, UntouchedJob DEF JobsTyped
  <2> QED
    BY <1>0, <2>1, <2>2, <2>3 DEF JobsTyped
<1>4. CASE Fail(j)
  <2>1. /\ log' = [log EXCEPT ![j] = Append(@, "failure")] /\ busy' = busy \ {j} /\ result' = result
        /\ result[j] = "running" /\ Len(log[j]) < Len(StepsOf(j)) /\ j \in busy
    BY <1>0, <1>4 DEF Fail, FailStep, JobOK
  <2>2. JobOK(j)' /\ log' \in [Job -> Seq(Ending)]
    BY <1>0, <2>1, EndedStep DEF Ending
  <2>3. ASSUME NEW k \in Job, k # j PROVE JobOK(k)'
    BY <1>0, <2>1, <2>3, UntouchedJob DEF JobsTyped
  <2> QED
    BY <1>0, <2>1, <2>2, <2>3 DEF JobsTyped
<1>5. CASE End(j)
  <2>1. /\ result[j] = "running" /\ Len(log[j]) = Len(StepsOf(j)) /\ log' = log /\ busy' = busy
        /\ result' = [result EXCEPT ![j] = IF Failed(j) THEN "failure" ELSE "success"]
    BY <1>5 DEF End, Conclude
  <2>2. j \notin busy
    BY <1>0, <2>1, AllSupplied DEF JobOK, Supplied
  <2>3. /\ result' \in [Job -> Outcome]
        /\ result'[j] = IF Failed(j) THEN "failure" ELSE "success"
        /\ \A k \in Job : k # j => result'[k] = result[k]
    BY <1>0, <2>1 DEF JobsTyped, Outcome
  <2>4. JobOK(j)'
    BY <1>0, <2>1, <2>2, <2>3 DEF JobOK, Failed, Runnable, Current
  <2>5. ASSUME NEW k \in Job, k # j PROVE JobOK(k)'
    BY <1>0, <2>1, <2>3, <2>5, UntouchedJob
  <2> QED
    BY <1>0, <2>1, <2>3, <2>4, <2>5 DEF JobsTyped
<1>6. CASE Cut(j)
  <2>1. /\ result[j] = "running" /\ log' = log /\ busy' = busy \ {j}
        /\ result' = [result EXCEPT ![j] = "timed out"]
    BY <1>6 DEF Cut, TimeOut
  <2>2. /\ result' \in [Job -> Outcome] /\ result'[j] = "timed out"
        /\ \A k \in Job : k # j => result'[k] = result[k]
    BY <1>0, <2>1 DEF JobsTyped, Outcome
  <2>3. JobOK(j)'
    BY <1>0, <2>1, <2>2 DEF JobOK, Failed
  <2>4. ASSUME NEW k \in Job, k # j PROVE JobOK(k)'
    BY <1>0, <2>1, <2>2, <2>4, UntouchedJob
  <2> QED
    BY <1>0, <2>1, <2>2, <2>3, <2>4 DEF JobsTyped
<1> QED
  BY <1>1, <1>2, <1>3, <1>4, <1>5, <1>6

\* A push starts jobs that have no log yet.
LEMMA PushSteps ==
    ASSUME JobsTyped, \A k \in Job : JobOK(k), Push
    PROVE  JobsTyped' /\ \A k \in Job : JobOK(k)'
<1>1. /\ log' = log /\ busy' = busy /\ scheduled' = scheduled
      /\ result' = [j \in Job |-> IF j \in scheduled THEN "running" ELSE "none"]
      /\ \A j \in scheduled : result[j] = "none"
  BY DEF Push, Pushed
<1>2. ASSUME NEW k \in Job PROVE JobOK(k)'
  <2>1. JobOK(k) /\ result[k] = "none"
    BY <1>1 DEF JobOK
  <2>2. log[k] = <<>> /\ k \notin busy
    BY <2>1 DEF JobOK
  <2>3. log'[k] = <<>> /\ k \notin busy' /\ result'[k] = IF k \in scheduled THEN "running" ELSE "none"
    BY <1>1, <2>2
  <2>4. Len(StepsOf(k)) \in Nat
    BY AllSupplied DEF Supplied
  <2> QED
    BY <1>1, <2>3, <2>4 DEF JobOK
<1> QED
  BY <1>1, <1>2 DEF JobsTyped, Outcome

-----------------------------------------------------------------------------
(* The files *)

\* The commands of the two lists, one after the other.
LEMMA Commands ==
    /\ Head(generate) = "generate" /\ Tail(generate) = <<"bundle">>
    /\ Head(<<"bundle">>) = "bundle" /\ Tail(<<"bundle">>) = <<>>
    /\ Head(check) = "tsc" /\ Tail(check) = AfterTsc /\ Len(check) = 6
    /\ Head(AfterTsc) = "test" /\ Tail(AfterTsc) = AfterTest /\ Len(AfterTsc) = 5
    /\ Head(AfterTest) = "generate" /\ Tail(AfterTest) = AfterGenerate /\ Len(AfterTest) = 4
    /\ Head(AfterGenerate) = "bundle" /\ Tail(AfterGenerate) = AfterBundle /\ Len(AfterGenerate) = 3
    /\ Head(AfterBundle) = "diff" /\ Tail(AfterBundle) = AfterDiff /\ Len(AfterBundle) = 2
    /\ Head(AfterDiff) = "untracked" /\ Tail(AfterDiff) = <<>> /\ Len(AfterDiff) = 1
BY DEF generate, check, AfterTsc, AfterTest, AfterGenerate, AfterBundle, AfterDiff

\* All of them are lists of commands, no two the same.
LEMMA Lists ==
    /\ {generate, check, <<"bundle">>, AfterTsc, AfterTest, AfterGenerate, AfterBundle, AfterDiff}
           \subseteq Seq(Command)
    /\ <<>> \notin {generate, check, <<"bundle">>, AfterTsc, AfterTest, AfterGenerate,
                    AfterBundle, AfterDiff}
    /\ generate \notin {AfterTest, AfterGenerate, AfterBundle, AfterDiff}
    /\ check \notin {AfterTest, AfterGenerate, AfterBundle, AfterDiff}
    /\ AfterTsc \notin {AfterTest, AfterGenerate, AfterBundle, AfterDiff}
    /\ AfterTest \notin {AfterGenerate, AfterBundle, AfterDiff}
    /\ AfterGenerate \notin {AfterBundle, AfterDiff}
    /\ AfterBundle # AfterDiff
<1>2. /\ generate \in Seq(Command) /\ check \in Seq(Command) /\ <<"bundle">> \in Seq(Command)
      /\ AfterTsc \in Seq(Command) /\ AfterTest \in Seq(Command) /\ AfterGenerate \in Seq(Command)
      /\ AfterBundle \in Seq(Command) /\ AfterDiff \in Seq(Command)
  BY DEF generate, check, AfterTsc, AfterTest, AfterGenerate, AfterBundle, AfterDiff, Command
<1>3. <<>> \notin {generate, check, <<"bundle">>, AfterTsc, AfterTest, AfterGenerate,
                   AfterBundle, AfterDiff}
  BY DEF generate, check, AfterTsc, AfterTest, AfterGenerate, AfterBundle, AfterDiff
<1>4. generate \notin {AfterTest, AfterGenerate, AfterBundle, AfterDiff}
  BY DEF generate, AfterTest, AfterGenerate, AfterBundle, AfterDiff
<1>5. check \notin {AfterTest, AfterGenerate, AfterBundle, AfterDiff}
  BY Commands
<1>6. AfterTsc \notin {AfterTest, AfterGenerate, AfterBundle, AfterDiff}
  BY Commands
<1>7. /\ AfterTest \notin {AfterGenerate, AfterBundle, AfterDiff}
      /\ AfterGenerate \notin {AfterBundle, AfterDiff} /\ AfterBundle # AfterDiff
  BY Commands
<1> QED
  BY <1>2, <1>3, <1>4, <1>5, <1>6, <1>7

\* Rewriting outputs leaves a worktree with outputs.
LEMMA RewrittenFiles ==
    ASSUME FilesTyped, NEW m \in Machine, NEW paths
    PROVE  Rewritten(m, paths) \in Files
<1>1. disk[m] \in Tree
  BY DEF FilesTyped
<1>2. disk[m].out \in Files /\ Render[disk[m].src] \in Files
  BY <1>1, RenderAssumption DEF Tree
<1> QED
  BY <1>2 DEF Rewritten, Files

\* A machine whose files and commands a step leaves alone.
Untouched(m) ==
    /\ disk'[m] = disk[m] /\ index'[m] = index[m] /\ command'[m] = command[m]
    /\ todo'[m] = todo[m] /\ verdict'[m] = verdict[m]

\* Nothing changes for it.
LEMMA UntouchedMachine ==
    ASSUME NEW m \in Machine, CheckOK(m), Untouched(m)
    PROVE  CheckOK(m)'
BY DEF CheckOK, Untouched, TestsPass, Unchanged

\* A machine that runs nothing and has accepted nothing owes nothing.
LEMMA IdleMachine ==
    ASSUME NEW m \in Machine, todo'[m] = <<>>, verdict'[m] \in {"none", "rejected"}
    PROVE  CheckOK(m)'
BY Lists DEF CheckOK

\* A command that succeeds: the tests find the worktree as the sources render
\* it, regenerating it then changes nothing, and the index is compared with that.
LEMMA RunCommandIsKept ==
    ASSUME FilesTyped, NEW m \in Machine, CheckOK(m), RunCommand(m)
    PROVE  /\ disk' \in [Machine -> Tree] /\ todo' \in [Machine -> Seq(Command)]
           /\ verdict' \in [Machine -> Verdict]
           /\ CheckOK(m)' /\ \A k \in Machine : k # m => Untouched(k)
           /\ disk'[m].src = disk[m].src /\ index' = index /\ command' = command
           /\ verdict[m] = "running"
<1> DEFINE c == Head(todo[m])
           out == Rewritten(m, Written(c))
<1>1. /\ todo[m] # <<>> /\ CanSucceed(m, c)
      /\ disk' = [disk EXCEPT ![m].out = out]
      /\ todo' = [todo EXCEPT ![m] = Tail(@)]
      /\ verdict' = [verdict EXCEPT ![m] = IF Len(todo[m]) = 1 THEN "accepted" ELSE @]
      /\ index' = index /\ command' = command
  BY DEF RunCommand
<1>2. verdict[m] = "running"
  BY <1>1 DEF CheckOK
<1>3. out \in Files
  BY RewrittenFiles
<1>4. disk[m] \in Tree /\ index[m] \in Tree /\ disk[m].out \in Files /\ index[m].out \in Files
      /\ Render[disk[m].src] \in Files
  BY RenderAssumption DEF FilesTyped, Tree
<1> HIDE DEF out
<1>5. /\ disk' \in [Machine -> Tree] /\ disk'[m].src = disk[m].src /\ disk'[m].out = out
      /\ \A k \in Machine : k # m => disk'[k] = disk[k]
  BY <1>1, <1>3, <1>4 DEF FilesTyped, Tree
<1>6. /\ todo' \in [Machine -> Seq(Command)] /\ todo'[m] = Tail(todo[m])
      /\ \A k \in Machine : k # m => todo'[k] = todo[k]
  BY <1>1 DEF FilesTyped
<1>7. /\ verdict' \in [Machine -> Verdict]
      /\ verdict'[m] = IF Len(todo[m]) = 1 THEN "accepted" ELSE "running"
      /\ \A k \in Machine : k # m => verdict'[k] = verdict[k]
  BY <1>1, <1>2 DEF FilesTyped, Verdict
<1>8. \A k \in Machine : k # m => Untouched(k)
  BY <1>1, <1>5, <1>6, <1>7 DEF Untouched
<1>9. CheckOK(m)'
  <2>1. CASE command[m] = "generate"
    <3>1. todo[m] \in {generate, <<"bundle">>}
      BY <1>2, <2>1 DEF CheckOK
    <3>2. CASE todo[m] = generate
      <4>1. todo'[m] = <<"bundle">> /\ verdict'[m] = "running" /\ command'[m] = "generate"
        BY <3>2, <2>1, <1>1, <1>6, <1>7, Commands DEF generate
      <4> QED
        BY <4>1 DEF CheckOK
    <3>3. CASE todo[m] = <<"bundle">>
      <4>1. todo'[m] = <<>> /\ verdict'[m] = "accepted" /\ command'[m] = "generate"
        BY <3>3, <2>1, <1>1, <1>6, <1>7, Commands
      <4> QED
        BY <4>1 DEF CheckOK
    <3> QED
      BY <3>1, <3>2, <3>3
  <2>2. CASE command[m] = "check"
    <3>0. todo[m] \in {check, AfterTsc, AfterTest, AfterGenerate, AfterBundle, AfterDiff}
      BY <1>2, <2>2 DEF CheckOK
    <3>c. command'[m] = "check"
      BY <2>2, <1>1
    <3>s. Written(c) = {} => out = disk[m].out
      <4> SUFFICES ASSUME Written(c) = {} PROVE out = disk[m].out
        OBVIOUS
      <4>1. \A p \in Path : out[p] = disk[m].out[p]
        BY DEF out, Rewritten
      <4> QED
        BY <4>1, <1>3, <1>4 DEF Files
    <3>1. CASE todo[m] = check
      <4>1. todo'[m] = AfterTsc /\ verdict'[m] = "running"
        BY <3>1, <1>6, <1>7, Commands
      <4> QED
        BY <4>1, <3>c, Lists DEF CheckOK
    <3>2. CASE todo[m] = AfterTsc
      <4>1. todo'[m] = AfterTest /\ verdict'[m] = "running" /\ c = "test"
        BY <3>2, <1>6, <1>7, Commands
      <4>2. TestsPass(m) /\ out = disk[m].out
        BY <4>1, <3>s, <1>1 DEF CanSucceed, Written
      <4>3. TestsPass(m)'
        BY <4>2, <1>5 DEF TestsPass
      <4> QED
        BY <4>1, <4>3, <3>c, Lists DEF CheckOK
    <3>3. CASE todo[m] = AfterTest
      <4>1. todo'[m] = AfterGenerate /\ verdict'[m] = "running" /\ c = "generate"
        BY <3>3, <1>6, <1>7, Commands
      <4>2. TestsPass(m)
        BY <3>3, <2>2 DEF CheckOK
      <4>3. \A p \in Path : out[p] = disk[m].out[p]
        BY <4>1, <4>2 DEF out, Rewritten, Written, TestsPass
      <4>4. TestsPass(m)'
        BY <4>2, <4>3, <1>5 DEF TestsPass, Path
      <4> QED
        BY <4>1, <4>4, <3>c, Lists DEF CheckOK
    <3>4. CASE todo[m] = AfterGenerate
      <4>1. todo'[m] = AfterBundle /\ verdict'[m] = "running" /\ c = "bundle"
        BY <3>4, <1>6, <1>7, Commands
      <4>2. TestsPass(m)
        BY <3>4, <2>2 DEF CheckOK
      <4>3. \A p \in Path : out[p] = Render[disk[m].src][p]
        BY <4>1, <4>2 DEF out, Rewritten, Written, TestsPass, Path
      <4>4. out = Render[disk[m].src]
        BY <4>3, <1>3, <1>4 DEF Files
      <4> QED
        BY <4>1, <4>4, <1>5, <3>c, Lists DEF CheckOK
    <3>5. CASE todo[m] = AfterBundle
      <4>1. todo'[m] = AfterDiff /\ verdict'[m] = "running" /\ c = "diff"
        BY <3>5, <1>6, <1>7, Commands
      <4>2. Unchanged(m) /\ out = disk[m].out /\ disk[m].out = Render[disk[m].src]
        BY <4>1, <3>5, <3>s, <2>2, <1>1 DEF CanSucceed, Written, CheckOK
      <4>3. Unchanged(m)'
        BY <4>2, <1>1, <1>5 DEF Unchanged
      <4> QED
        BY <4>1, <4>2, <4>3, <1>5, <3>c, Lists DEF CheckOK
    <3>6. CASE todo[m] = AfterDiff
      <4>1. todo'[m] = <<>> /\ verdict'[m] = "accepted" /\ c = "untracked"
        BY <3>6, <1>6, <1>7, Commands
      <4>2. NoUntracked(m) /\ Unchanged(m) /\ out = disk[m].out /\ disk[m].out = Render[disk[m].src]
        BY <4>1, <3>6, <3>s, <2>2, <1>1 DEF CanSucceed, Written, CheckOK
      <4>3. \A p \in Path : index[m].out[p] = disk[m].out[p]
        BY <4>2 DEF NoUntracked, Unchanged
      <4>4. index[m].out = disk[m].out
        BY <4>3, <1>4 DEF Files
      <4> QED
        BY <4>1, <4>2, <4>4, <1>1, <1>5, Lists DEF CheckOK
    <3> QED
      BY <3>0, <3>1, <3>2, <3>3, <3>4, <3>5, <3>6
  <2> QED
    BY <2>1, <2>2 DEF FilesTyped
<1> QED
  BY <1>1, <1>2, <1>5, <1>6, <1>7, <1>8, <1>9

\* A command that fails leaves nothing to run and no verdict to keep.
LEMMA FailCommandIsKept ==
    ASSUME FilesTyped, NEW m \in Machine, CheckOK(m), FailCommand(m)
    PROVE  /\ disk' \in [Machine -> Tree] /\ todo' \in [Machine -> Seq(Command)]
           /\ verdict' \in [Machine -> Verdict]
           /\ CheckOK(m)' /\ \A k \in Machine : k # m => Untouched(k)
           /\ disk'[m].src = disk[m].src /\ index' = index /\ command' = command
           /\ verdict[m] = "running"
<1>0. PICK paths : disk' = [disk EXCEPT ![m].out = Rewritten(m, paths)]
  BY DEF FailCommand
<1>1. /\ todo[m] # <<>> /\ todo' = [todo EXCEPT ![m] = <<>>]
      /\ verdict' = [verdict EXCEPT ![m] = "rejected"] /\ index' = index /\ command' = command
  BY DEF FailCommand
<1>2. verdict[m] = "running"
  BY <1>1 DEF CheckOK
<1>3. Rewritten(m, paths) \in Files /\ disk[m] \in Tree
  BY RewrittenFiles DEF FilesTyped
<1>4. /\ disk' \in [Machine -> Tree] /\ disk'[m].src = disk[m].src
      /\ \A k \in Machine : k # m => disk'[k] = disk[k]
  BY <1>0, <1>3 DEF FilesTyped, Tree
<1>5. /\ todo' \in [Machine -> Seq(Command)] /\ todo'[m] = <<>>
      /\ \A k \in Machine : k # m => todo'[k] = todo[k]
  BY <1>1 DEF FilesTyped
<1>6. /\ verdict' \in [Machine -> Verdict] /\ verdict'[m] = "rejected"
      /\ \A k \in Machine : k # m => verdict'[k] = verdict[k]
  BY <1>1 DEF FilesTyped, Verdict
<1>7. CheckOK(m)'
  BY <1>5, <1>6, IdleMachine
<1> QED
  BY <1>1, <1>2, <1>4, <1>5, <1>6, <1>7 DEF Untouched

\* Starting a list of commands forgets the last verdict.
LEMMA MainIsKept ==
    ASSUME FilesTyped, NEW m \in Machine, NEW which \in {"generate", "check"}, main(m, which)
    PROVE  /\ todo' \in [Machine -> Seq(Command)] /\ verdict' \in [Machine -> Verdict]
           /\ command' \in [Machine -> {"generate", "check"}]
           /\ CheckOK(m)' /\ \A k \in Machine : k # m => Untouched(k)
           /\ disk' = disk /\ index' = index
           /\ command'[m] = which
<1>1. /\ command' = [command EXCEPT ![m] = which]
      /\ todo' = [todo EXCEPT ![m] = IF which = "check" THEN check ELSE generate]
      /\ verdict' = [verdict EXCEPT ![m] = "running"]
      /\ disk' = disk /\ index' = index
  BY DEF main
<1>2. /\ todo' \in [Machine -> Seq(Command)]
      /\ todo'[m] = IF which = "check" THEN check ELSE generate
      /\ \A k \in Machine : k # m => todo'[k] = todo[k]
  BY <1>1, Lists DEF FilesTyped
<1>3. /\ verdict' \in [Machine -> Verdict] /\ verdict'[m] = "running"
      /\ \A k \in Machine : k # m => verdict'[k] = verdict[k]
  BY <1>1 DEF FilesTyped, Verdict
<1>4. /\ command' \in [Machine -> {"generate", "check"}] /\ command'[m] = which
      /\ \A k \in Machine : k # m => command'[k] = command[k]
  BY <1>1 DEF FilesTyped
<1>5. CheckOK(m)'
  BY <1>2, <1>3, <1>4, Lists DEF CheckOK
<1> QED
  BY <1>1, <1>2, <1>3, <1>4, <1>5 DEF Untouched

\* What the developer does leaves the runner alone and no verdict standing.
LEMMA DeveloperSteps ==
    ASSUME FilesTyped, \A m \in Machine : CheckOK(m), Develop
    PROVE  FilesTyped' /\ (\A m \in Machine : CheckOK(m)') /\ Untouched("runner")
<1>0. head' = head /\ Machine = {"local", "runner"} /\ "local" # "runner"
  BY DEF Develop, Machine
<1>1. CASE \E which \in {"generate", "check"} : main("local", which)
  <2>1. PICK which \in {"generate", "check"} : main("local", which)
    BY <1>1
  <2>2. /\ todo' \in [Machine -> Seq(Command)] /\ verdict' \in [Machine -> Verdict]
        /\ command' \in [Machine -> {"generate", "check"}] /\ disk' = disk /\ index' = index
        /\ CheckOK("local")' /\ Untouched("runner")
    BY <1>0, <2>1, MainIsKept
  <2>3. CheckOK("runner")'
    BY <1>0, <2>2, UntouchedMachine
  <2> QED
    BY <1>0, <2>2, <2>3 DEF FilesTyped
<1>2. ASSUME Developer, todo' = todo, command' = command,
             disk' \in [Machine -> Tree], index' \in [Machine -> Tree],
             disk'["runner"] = disk["runner"], index'["runner"] = index["runner"]
      PROVE  FilesTyped' /\ (\A m \in Machine : CheckOK(m)') /\ Untouched("runner")
  <2>1. /\ verdict["local"] # "running" /\ verdict' = [verdict EXCEPT !["local"] = "none"]
    BY <1>2 DEF Developer
  <2>2. /\ verdict' \in [Machine -> Verdict] /\ verdict'["local"] = "none"
        /\ verdict'["runner"] = verdict["runner"]
    BY <1>0, <2>1 DEF FilesTyped, Verdict
  <2>3. Untouched("runner")
    BY <1>2, <2>2 DEF Untouched
  <2>4. todo'["local"] = <<>>
    BY <1>0, <1>2, <2>1 DEF CheckOK
  <2>5. CheckOK("local")'
    BY <1>0, <2>2, <2>4, IdleMachine
  <2>6. CheckOK("runner")'
    BY <1>0, <2>3, UntouchedMachine
  <2> QED
    BY <1>0, <1>2, <2>2, <2>3, <2>5, <2>6 DEF FilesTyped
<1>t. /\ disk \in [Machine -> Tree] /\ index \in [Machine -> Tree]
      /\ disk["local"] \in Tree /\ index["local"] \in Tree
  BY <1>0 DEF FilesTyped
<1>3. CASE \E s \in Source : EditSource(s)
  <2>1. PICK s \in Source : EditSource(s)
    BY <1>3
  <2>2. Developer /\ todo' = todo /\ command' = command /\ index' = index
        /\ disk' = [disk EXCEPT !["local"].src = s]
    BY <2>1 DEF EditSource
  <2>3. disk' \in [Machine -> Tree] /\ disk'["runner"] = disk["runner"]
    BY <1>0, <1>t, <2>2 DEF Tree
  <2> QED
    BY <1>t, <1>2, <2>2, <2>3
<1>4. CASE \E p \in Path, c \in Source \cup {None} : EditOutput(p, c)
  <2>1. PICK p \in Path, c \in Source \cup {None} : EditOutput(p, c)
    BY <1>4
  <2>2. Developer /\ todo' = todo /\ command' = command /\ index' = index
        /\ disk' = [disk EXCEPT !["local"].out[p] = c]
    BY <2>1 DEF EditOutput
  <2>3. [disk["local"].out EXCEPT ![p] = c] \in Files
    BY <1>t DEF Tree, Files
  <2>4. disk' \in [Machine -> Tree] /\ disk'["runner"] = disk["runner"]
    BY <1>0, <1>t, <2>2, <2>3 DEF Tree
  <2> QED
    BY <1>t, <1>2, <2>2, <2>4
<1>5. CASE StageSource
  <2>1. Developer /\ todo' = todo /\ command' = command /\ disk' = disk
        /\ index' = [index EXCEPT !["local"].src = disk["local"].src]
    BY <1>5 DEF StageSource
  <2>2. index' \in [Machine -> Tree] /\ index'["runner"] = index["runner"]
    BY <1>0, <1>t, <2>1 DEF Tree
  <2> QED
    BY <1>t, <1>2, <2>1, <2>2
<1>6. CASE \E p \in Path : StageOutput(p)
  <2>1. PICK p \in Path : StageOutput(p)
    BY <1>6
  <2>2. Developer /\ todo' = todo /\ command' = command /\ disk' = disk
        /\ index' = [index EXCEPT !["local"].out[p] = disk["local"].out[p]]
    BY <2>1 DEF StageOutput
  <2>3. [index["local"].out EXCEPT ![p] = disk["local"].out[p]] \in Files
    BY <1>t DEF Tree, Files
  <2>4. index' \in [Machine -> Tree] /\ index'["runner"] = index["runner"]
    BY <1>0, <1>t, <2>2, <2>3 DEF Tree
  <2> QED
    BY <1>t, <1>2, <2>2, <2>4
<1> QED
  BY <1>1, <1>3, <1>4, <1>5, <1>6 DEF Develop

\* What the runner knows survives every step that leaves its sources, its index,
\* the commit and the log of its job alone and does not start its check.
LEMMA RunnerIsLeft ==
    ASSUME RunnerOK, head' = head, log'["workflows"] = log["workflows"],
           index'["runner"] = index["runner"], disk'["runner"].src = disk["runner"].src,
           command'["runner"] = command["runner"],
           verdict["runner"] = "none" => verdict'["runner"] = "none"
    PROVE  RunnerOK'
BY DEF RunnerOK

\* A command of either machine.
LEMMA CheckSteps ==
    ASSUME FilesTyped, \A k \in Machine : CheckOK(k), RunnerOK, NEW m \in Machine, Check(m)
    PROVE  FilesTyped' /\ (\A k \in Machine : CheckOK(k)') /\ RunnerOK'
<1>1. head' = head /\ log' = log /\ (RunCommand(m) \/ FailCommand(m))
  BY DEF Check, jobVars
<1>2. /\ disk' \in [Machine -> Tree] /\ todo' \in [Machine -> Seq(Command)]
      /\ verdict' \in [Machine -> Verdict]
      /\ CheckOK(m)' /\ \A k \in Machine : k # m => Untouched(k)
      /\ disk'[m].src = disk[m].src /\ index' = index /\ command' = command
      /\ verdict[m] = "running"
  BY <1>1, RunCommandIsKept, FailCommandIsKept
<1>3. FilesTyped'
  BY <1>1, <1>2 DEF FilesTyped
<1>4. \A k \in Machine : CheckOK(k)'
  BY <1>2, UntouchedMachine
<1>5. CASE m = "runner"
  <2>1. /\ disk'["runner"].src = disk["runner"].src /\ verdict["runner"] = "running"
        /\ index'["runner"] = index["runner"] /\ command'["runner"] = command["runner"]
    BY <1>2, <1>5
  <2> QED
    BY <1>1, <1>3, <1>4, <2>1, RunnerIsLeft
<1>6. CASE m # "runner"
  <2>1. "runner" \in Machine
    BY DEF Machine
  <2>2. Untouched("runner")
    BY <1>2, <1>6, <2>1
  <2> QED
    BY <1>1, <1>3, <1>4, <2>2, RunnerIsLeft DEF Untouched
<1> QED
  BY <1>3, <1>4, <1>5, <1>6

\* The steps of the job that checks generated files, and what they are.
LEMMA TheCheckingJob ==
    /\ "workflows" \in Job /\ Len(StepsOf("workflows")) = 4
    /\ StepsOf("workflows")[1] = checkout /\ StepsOf("workflows")[4] # checkout
    /\ \A n \in 1..4 : ~StepsOf("workflows")[n].always
<1> DEFINE steps == StepsOf("workflows")
<1>1. /\ Len(steps) = 4 /\ steps[1] = checkout
      /\ steps[4] = Step({Repository, Fact("modules")}, {})
  BY Jobs
<1>2. steps[4].gives = {} /\ checkout.gives = {Repository}
  BY <1>1 DEF checkout, Step
<1>3. /\ ~steps[1].always /\ ~steps[2].always /\ ~steps[3].always /\ ~steps[4].always
  BY Jobs DEF checkout, setupNode, Step
<1> HIDE DEF steps
<1>4. steps[4] # checkout
  BY <1>2
<1>5. \A n \in 1..4 : ~steps[n].always
  BY <1>3
<1> QED
  BY <1>1, <1>4, <1>5, Jobs DEF steps

\* The job steps of the runner, seen from the files: the clone, the check as
\* the last step, and the end of a check whose step or job ends first.
LEMMA RunnerSteps ==
    ASSUME FilesTyped, JobsTyped, \A m \in Machine : CheckOK(m), \A k \in Job : JobOK(k),
           RunnerOK, NEW j \in scheduled,
           Start(j) \/ Skip(j) \/ Succeed(j) \/ Fail(j) \/ End(j) \/ Cut(j)
    PROVE  FilesTyped' /\ (\A m \in Machine : CheckOK(m)') /\ RunnerOK'
<1> DEFINE w == "workflows"
           l == log[w]
<1>r. /\ verdict["runner"] # "none" => Len(l) >= 3 /\ command["runner"] = "check"
      /\ Len(l) >= 1 /\ l[1] = "success" => index["runner"] = head /\ disk["runner"].src = head.src
      /\ Len(l) = 4 /\ l[4] = "success" => head.out = Render[head.src]
  BY DEF RunnerOK
<1>0. /\ j \in Job /\ head' = head /\ w \in Job /\ "runner" \in Machine /\ JobOK(w)
      /\ l \in Seq(Ending) /\ Len(l) \in Nat
  BY TheCheckingJob DEF JobsTyped, Start, Skip, Succeed, Fail, End, Cut, Machine
<1>n. ASSUME NEW n, n = Len(l)
      PROVE  /\ n + 1 = 4 => n = 3
             /\ n < 4 /\ n # 3 => ~(n >= 3)
             /\ n # 3 => n + 1 # 4
  <2>1. n \in Nat
    BY <1>0, <1>n
  <2> QED
    BY <2>1
<1>a. ASSUME UNCHANGED genVars, log'[w] = log[w]
      PROVE  FilesTyped' /\ (\A m \in Machine : CheckOK(m)') /\ RunnerOK'
  <2>1. \A m \in Machine : Untouched(m)
    BY <1>a DEF genVars, Untouched
  <2> QED
    BY <1>0, <1>a, <2>1, UntouchedMachine, RunnerIsLeft DEF genVars, FilesTyped, Untouched
<1>b. ASSUME NEW e \in Ending, j = w, j \in busy \/ e = "skipped",
             Len(l) < Len(StepsOf(w)), log' = [log EXCEPT ![j] = Append(@, e)],
             UNCHANGED genVars, e # "success" \/ (Len(l) # 0 /\ Len(l) # 3)
      PROVE  FilesTyped' /\ (\A m \in Machine : CheckOK(m)') /\ RunnerOK'
  <2>1. \A m \in Machine : Untouched(m)
    BY <1>b DEF genVars, Untouched
  <2>2. /\ log'[w] = Append(l, e) /\ Len(log'[w]) = Len(l) + 1 /\ log'[w][Len(l) + 1] = e
        /\ \A i \in 1..Len(l) : log'[w][i] = l[i]
    BY <1>0, <1>b DEF JobsTyped
  <2>3. Len(l) < 4
    BY <1>b, TheCheckingJob
  <2>4. /\ index' = index /\ disk' = disk /\ command' = command /\ verdict' = verdict
    BY <1>b DEF genVars
  <2>5. Len(log'[w]) >= 1 /\ log'[w][1] = "success" => Len(l) >= 1 /\ l[1] = "success"
    BY <1>0, <1>b, <2>2
  <2>6. Len(log'[w]) = 4 /\ log'[w][4] = "success" => Len(l) = 3 /\ e = "success"
    BY <1>n, <2>2
  <2>7. Len(l) >= 3 => Len(log'[w]) >= 3
    BY <1>0, <2>2
  <2>8. RunnerOK'
    BY <1>r, <1>0, <1>b, <2>4, <2>5, <2>6, <2>7 DEF RunnerOK
  <2> QED
    BY <1>0, <1>b, <2>1, <2>8, UntouchedMachine DEF genVars, FilesTyped
<1>c. ASSUME todo' = [todo EXCEPT !["runner"] = <<>>],
             verdict' = [verdict EXCEPT !["runner"] = "rejected"],
             UNCHANGED <<disk, index, command, edits>>
      PROVE  /\ FilesTyped' /\ (\A m \in Machine : CheckOK(m)')
  <2>1. /\ todo' \in [Machine -> Seq(Command)] /\ todo'["runner"] = <<>>
        /\ verdict' \in [Machine -> Verdict] /\ verdict'["runner"] = "rejected"
        /\ \A m \in Machine : m # "runner" => todo'[m] = todo[m] /\ verdict'[m] = verdict[m]
    BY <1>0, <1>c DEF FilesTyped, Verdict
  <2>2. CheckOK("runner")'
    BY <1>0, <2>1, IdleMachine
  <2>3. ASSUME NEW m \in Machine, m # "runner" PROVE CheckOK(m)'
    BY <1>c, <2>1, <2>3, UntouchedMachine DEF Untouched
  <2> QED
    BY <1>0, <1>c, <2>1, <2>2, <2>3 DEF FilesTyped
<1>1. CASE Start(j)
  <2>1. CASE ~Gate(j)
    BY <1>1, <2>1, <1>a DEF Start, StartStep
  <2>2. CASE Gate(j)
    <3>1. main("runner", "check") /\ log' = log /\ Len(l) + 1 = 4
      BY <1>1, <2>2, TheCheckingJob DEF Start, StartStep, Gate
    <3>2. /\ todo' \in [Machine -> Seq(Command)] /\ verdict' \in [Machine -> Verdict]
          /\ command' \in [Machine -> {"generate", "check"}]
          /\ CheckOK("runner")' /\ \A k \in Machine : k # "runner" => Untouched(k)
          /\ disk' = disk /\ index' = index /\ command'["runner"] = "check"
      BY <1>0, <3>1, MainIsKept
    <3>3. RunnerOK'
      BY <1>0, <3>1, <3>2 DEF RunnerOK
    <3> QED
      BY <1>0, <3>2, <3>3, UntouchedMachine DEF FilesTyped
  <2> QED
    BY <2>1, <2>2
<1>2. CASE Skip(j)
  <2>1. /\ log' = [log EXCEPT ![j] = Append(@, "skipped")] /\ UNCHANGED genVars
        /\ Len(log[j]) < Len(StepsOf(j))
    BY <1>2 DEF Skip, SkipStep
  <2>2. CASE j = w
    BY <2>1, <2>2, <1>b DEF Ending
  <2>3. CASE j # w
    BY <1>0, <2>1, <2>3, <1>a DEF JobsTyped
  <2> QED
    BY <2>2, <2>3
<1>3. CASE Succeed(j)
  <2>1. /\ log' = [log EXCEPT ![j] = Append(@, "success")] /\ j \in busy
        /\ Len(log[j]) < Len(StepsOf(j)) /\ Runnable(j)
    BY <1>0, <1>3 DEF Succeed, SucceedStep, JobOK
  <2>2. CASE j # w
    <3>1. UNCHANGED genVars
      BY <1>3, <2>2 DEF Succeed
    <3> QED
      BY <1>0, <2>1, <2>2, <3>1, <1>a DEF JobsTyped
  <2>3. CASE j = w
    <3>1. Len(l) < 4 /\ Current(j) = StepsOf(w)[Len(l) + 1]
      BY <2>1, <2>3, TheCheckingJob DEF Current
    <3>2. /\ log'[w] = Append(l, "success") /\ Len(log'[w]) = Len(l) + 1
          /\ log'[w][Len(l) + 1] = "success" /\ \A i \in 1..Len(l) : log'[w][i] = l[i]
      BY <1>0, <2>1, <2>3 DEF JobsTyped, Ending
    <3>3. CASE Current(j) = checkout
      <4>1. Len(l) # 3
        <5> SUFFICES ASSUME Len(l) = 3 PROVE FALSE
          OBVIOUS
        <5>1. Len(l) + 1 = 4
          OBVIOUS
        <5> QED
          BY <5>1, <3>1, <3>3, TheCheckingJob
      <4>2. verdict["runner"] = "none"
        BY <1>n, <1>r, <3>1, <4>1
      <4>3. /\ disk' = [disk EXCEPT !["runner"] = head] /\ index' = [index EXCEPT !["runner"] = head]
            /\ command' = command /\ todo' = todo /\ verdict' = verdict
        BY <1>3, <2>3, <3>3 DEF Succeed
      <4>4. /\ disk' \in [Machine -> Tree] /\ index' \in [Machine -> Tree]
            /\ disk'["runner"] = head /\ index'["runner"] = head
            /\ \A m \in Machine : m # "runner" => disk'[m] = disk[m] /\ index'[m] = index[m]
        BY <1>0, <4>3 DEF FilesTyped
      <4>5. todo["runner"] = <<>>
        BY <1>0, <4>2 DEF CheckOK
      <4>6. CheckOK("runner")'
        BY <1>0, <4>2, <4>3, <4>5, IdleMachine
      <4>7. ASSUME NEW m \in Machine, m # "runner" PROVE CheckOK(m)'
        BY <4>3, <4>4, <4>7, UntouchedMachine DEF Untouched
      <4>8. RunnerOK'
        <5>1. Len(log'[w]) # 4
          BY <1>n, <3>2, <4>1
        <5>2. head' = head /\ verdict'["runner"] = "none"
          BY <1>0, <4>2, <4>3
        <5> QED
          BY <4>4, <5>1, <5>2 DEF RunnerOK
      <4> QED
        BY <1>0, <4>3, <4>4, <4>6, <4>7, <4>8 DEF FilesTyped
    <3>4. CASE Current(j) # checkout
      <4>1. UNCHANGED genVars /\ Len(l) # 0
        BY <1>0, <1>3, <2>3, <3>1, <3>4, TheCheckingJob DEF Succeed
      <4>2. CASE Len(l) # 3
        BY <2>1, <2>3, <4>1, <4>2, <1>b DEF Ending
      <4>3. CASE Len(l) = 3
        <5>1. Gate(j)
          BY <2>3, <4>3, TheCheckingJob DEF Gate
        <5>2. verdict["runner"] = "accepted"
          BY <1>3, <5>1 DEF Succeed
        <5>3. index["runner"].out = Render[disk["runner"].src]
          BY <1>0, <5>2 DEF CheckOK, RunnerOK
        <5>4. ~Failed(w)
          BY <2>1, <2>3, <3>1, <4>3, TheCheckingJob DEF Runnable
        <5>5. l[1] = "success"
          <6>1. 1 \in DOMAIN l /\ 1 \in 1..Len(l)
            BY <1>0, <4>3
          <6>2. l[1] \in Ending
            BY <1>0, <6>1
          <6>3. l[1] # "failure" /\ l[1] # "skipped"
            BY <1>0, <5>4, <6>1 DEF Failed, JobOK
          <6> QED
            BY <6>2, <6>3 DEF Ending
        <5>6. head.out = Render[head.src]
          BY <4>3, <5>3, <5>5 DEF RunnerOK
        <5>7. \A m \in Machine : Untouched(m)
          BY <4>1 DEF genVars, Untouched
        <5>8. RunnerOK'
          BY <1>0, <3>2, <4>1, <4>3, <5>6 DEF RunnerOK, genVars
        <5> QED
          BY <1>0, <4>1, <5>7, <5>8, UntouchedMachine DEF genVars, FilesTyped
      <4> QED
        BY <4>2, <4>3
    <3> QED
      BY <3>3, <3>4
  <2> QED
    BY <2>2, <2>3
<1>4. CASE Fail(j)
  <2>1. /\ log' = [log EXCEPT ![j] = Append(@, "failure")] /\ j \in busy
        /\ Len(log[j]) < Len(StepsOf(j)) /\ StopCheck(j)
    BY <1>0, <1>4 DEF Fail, FailStep, JobOK
  <2>2. CASE UNCHANGED genVars
    <3>1. CASE j = w
      BY <2>1, <2>2, <3>1, <1>b DEF Ending
    <3>2. CASE j # w
      BY <1>0, <2>1, <2>2, <3>2, <1>a DEF JobsTyped
    <3> QED
      BY <3>1, <3>2
  <2>3. CASE ~UNCHANGED genVars
    <3>1. /\ Gate(j) /\ verdict["runner"] = "running"
          /\ todo' = [todo EXCEPT !["runner"] = <<>>]
          /\ verdict' = [verdict EXCEPT !["runner"] = "rejected"]
          /\ UNCHANGED <<disk, index, command, edits>>
      BY <2>1, <2>3 DEF StopCheck
    <3>2. j = w /\ Len(l) = 3
      <4>1. j = w /\ Len(l) + 1 = 4
        BY <3>1, TheCheckingJob DEF Gate
      <4> QED
        BY <1>n, <4>1
    <3>3. /\ Len(log'[w]) = 4 /\ log'[w][4] = "failure" /\ log'[w][1] = l[1]
      BY <1>0, <2>1, <3>2 DEF JobsTyped, Ending
    <3>4. RunnerOK'
      BY <1>0, <3>1, <3>2, <3>3 DEF RunnerOK
    <3> QED
      BY <3>1, <3>4, <1>c
  <2> QED
    BY <2>2, <2>3
<1>5. CASE End(j)
  BY <1>5, <1>a DEF End, Conclude
<1>6. CASE Cut(j)
  <2>1. log' = log /\ StopCheck(j)
    BY <1>6 DEF Cut, TimeOut
  <2>2. CASE UNCHANGED genVars
    BY <2>1, <2>2, <1>a
  <2>3. CASE ~UNCHANGED genVars
    <3>1. /\ Gate(j) /\ verdict["runner"] = "running"
          /\ todo' = [todo EXCEPT !["runner"] = <<>>]
          /\ verdict' = [verdict EXCEPT !["runner"] = "rejected"]
          /\ UNCHANGED <<disk, index, command, edits>>
      BY <2>1, <2>3 DEF StopCheck
    <3>2. RunnerOK'
      BY <1>0, <2>1, <3>1 DEF RunnerOK
    <3> QED
      BY <3>1, <3>2, <1>c
  <2> QED
    BY <2>2, <2>3
<1> QED
  BY <1>1, <1>2, <1>3, <1>4, <1>5, <1>6

-----------------------------------------------------------------------------
(* The theorems *)

\* A behaviour starts in the invariant: a clean clone, and no job running.
LEMMA InvInit == Init => IInv
<1> SUFFICES ASSUME Init PROVE IInv
  OBVIOUS
<1>1. scheduled \subseteq Job
  BY SchedulesAssumption DEF Init
<1>2. PICK s \in Source \ Malformed :
          /\ head = [src |-> s, out |-> Render[s]]
          /\ disk = [m \in Machine |-> head] /\ index = [m \in Machine |-> head]
  BY DEF Init
<1>3. head \in Tree
  BY <1>2, RenderAssumption DEF Tree
<1>4. /\ command = [m \in Machine |-> "generate"] /\ todo = [m \in Machine |-> <<>>]
      /\ verdict = [m \in Machine |-> "none"]
      /\ log = [j \in Job |-> <<>>] /\ busy = {} /\ result = [j \in Job |-> "none"]
  BY DEF Init, JobsInit
<1>5. FilesTyped
  BY <1>2, <1>3, <1>4 DEF FilesTyped, Verdict
<1>6. JobsTyped
  BY <1>1, <1>4 DEF JobsTyped, Outcome
<1>7. ASSUME NEW m \in Machine PROVE CheckOK(m)
  BY <1>4, Lists DEF CheckOK
<1>8. ASSUME NEW j \in Job PROVE JobOK(j)
  <2>1. log[j] = <<>> /\ j \notin busy /\ result[j] = "none" /\ Len(StepsOf(j)) \in Nat
    BY <1>4, AllSupplied DEF Supplied
  <2> QED
    BY <2>1 DEF JobOK
<1>9. RunnerOK
  <2>1. log["workflows"] = <<>> /\ verdict["runner"] = "none"
    BY <1>4, TheCheckingJob DEF Machine
  <2> QED
    BY <2>1 DEF RunnerOK
<1> QED
  BY <1>5, <1>6, <1>7, <1>8, <1>9 DEF IInv

\* Every step keeps it.
LEMMA InvNext == IInv /\ [Next]_vars => IInv'
<1> SUFFICES ASSUME IInv, [Next]_vars PROVE IInv'
  OBVIOUS
<1>0. /\ FilesTyped /\ JobsTyped /\ (\A m \in Machine : CheckOK(m)) /\ (\A j \in Job : JobOK(j))
      /\ RunnerOK
  BY DEF IInv
<1>j. ASSUME UNCHANGED <<jobVars, scheduled>> PROVE JobsTyped' /\ \A j \in Job : JobOK(j)'
  BY <1>0, <1>j, UntouchedJob DEF jobVars, JobsTyped
<1>f. ASSUME UNCHANGED genVars
      PROVE  \A m \in Machine : CheckOK(m)' /\ Untouched(m)
  BY <1>0, <1>f, UntouchedMachine DEF genVars, Untouched
<1>1. CASE Develop
  <2>1. FilesTyped' /\ (\A m \in Machine : CheckOK(m)') /\ Untouched("runner")
    BY <1>0, <1>1, DeveloperSteps
  <2>2. UNCHANGED <<jobVars, scheduled>> /\ head' = head /\ log' = log
    BY <1>1 DEF Develop, jobVars
  <2>3. RunnerOK'
    BY <1>0, <2>1, <2>2, RunnerIsLeft DEF Untouched
  <2> QED
    BY <1>j, <2>1, <2>2, <2>3 DEF IInv
<1>2. CASE Push
  <2>1. JobsTyped' /\ \A k \in Job : JobOK(k)'
    BY <1>0, <1>2, PushSteps
  <2>2. UNCHANGED genVars /\ log' = log /\ head' = index["local"]
        /\ \A j \in scheduled : result[j] = "none"
    BY <1>2 DEF Push, Pushed
  <2>3. \A m \in Machine : CheckOK(m)' /\ Untouched(m)
    BY <1>f, <2>2
  <2>4. FilesTyped'
    BY <1>0, <2>2 DEF FilesTyped, genVars, Machine
  <2>5. log["workflows"] = <<>>
    BY <1>0, <2>2, TheCheckingJob DEF JobOK
  <2>6. RunnerOK'
    <3>1. Len(log["workflows"]) = 0 /\ log'["workflows"] = log["workflows"]
      BY <2>2, <2>5
    <3>2. verdict'["runner"] = "none"
      BY <1>0, <2>2, <3>1 DEF RunnerOK, genVars
    <3> QED
      BY <3>1, <3>2 DEF RunnerOK
  <2> QED
    BY <2>1, <2>3, <2>4, <2>6 DEF IInv
<1>3. CASE \E m \in Machine : Check(m)
  <2>1. PICK m \in Machine : Check(m)
    BY <1>3
  <2>2. FilesTyped' /\ (\A k \in Machine : CheckOK(k)') /\ RunnerOK'
    BY <1>0, <2>1, CheckSteps
  <2>3. UNCHANGED <<jobVars, scheduled>>
    BY <2>1 DEF Check
  <2> QED
    BY <1>j, <2>2, <2>3 DEF IInv
<1>4. CASE \E j \in scheduled : Start(j) \/ Skip(j) \/ Succeed(j) \/ Fail(j) \/ End(j) \/ Cut(j)
  <2>1. PICK j \in scheduled : Start(j) \/ Skip(j) \/ Succeed(j) \/ Fail(j) \/ End(j) \/ Cut(j)
    BY <1>4
  <2>2. JobsTyped' /\ \A k \in Job : JobOK(k)'
    BY <1>0, <2>1, JobSteps
  <2>3. FilesTyped' /\ (\A m \in Machine : CheckOK(m)') /\ RunnerOK'
    BY <1>0, <2>1, RunnerSteps
  <2> QED
    BY <2>2, <2>3 DEF IInv
<1>5. CASE UNCHANGED vars
  <2>1. UNCHANGED genVars /\ UNCHANGED <<jobVars, scheduled>> /\ head' = head /\ log' = log
    BY <1>5 DEF vars, jobVars
  <2>2. \A m \in Machine : CheckOK(m)' /\ Untouched(m)
    BY <1>f, <2>1
  <2>3. FilesTyped' /\ RunnerOK'
    BY <1>0, <2>1, <2>2, RunnerIsLeft DEF FilesTyped, genVars, Untouched, Machine
  <2> QED
    BY <1>j, <2>1, <2>2, <2>3 DEF IInv
<1> QED
  BY <1>1, <1>2, <1>3, <1>4, <1>5 DEF Next

\* The invariant holds throughout.
LEMMA Invariance == Spec => []IInv
BY InvInit, InvNext, PTL DEF Spec

\* A check that accepts has seen an index of exactly what the sources in the
\* worktree render, whatever edits and failed commands came before (ci/cli.ts).
THEOREM AcceptedChecksAreGenerated == Spec => []AcceptedIsGenerated
<1>1. IInv => AcceptedIsGenerated
  BY DEF IInv, CheckOK, AcceptedIsGenerated
<1> QED
  BY <1>1, Invariance, PTL

\* A green "workflows" job vouches for the pushed commit, not for what its
\* author's worktree held (ci/ci.ts, "workflows").
THEOREM GreenCommitsAreGenerated == Spec => []GreenCommitIsGenerated
<1>1. IInv => GreenCommitIsGenerated
  <2> SUFFICES ASSUME IInv, result["workflows"] = "success" PROVE head.out = Render[head.src]
    BY DEF GreenCommitIsGenerated
  <2> DEFINE l == log["workflows"]
  <2>1. Len(l) = 4 /\ ~Failed("workflows") /\ JobOK("workflows") /\ l \in Seq(Ending)
    BY TheCheckingJob DEF IInv, JobOK, JobsTyped
  <2>2. 4 \in 1..Len(l) /\ 4 \in DOMAIN l
    BY <2>1
  <2>3. l[4] \in Ending
    BY <2>1, <2>2
  <2>4. l[4] # "failure" /\ l[4] # "skipped"
    BY <2>1, <2>2 DEF Failed, JobOK
  <2> QED
    BY <2>1, <2>3, <2>4 DEF IInv, RunnerOK, Ending
<1> QED
  BY <1>1, Invariance, PTL

\* Every step of every job finds what it needs, since what the steps before it
\* give covers it and a failure stops all but the steps marked always()
\* (ci/ci.ts, ci/metadata.ts, ci/native.ts).
THEOREM StepsAlwaysHaveInputs == Spec => []StepsHaveTheirInputs
<1>1. IInv => StepsHaveTheirInputs
  <2> SUFFICES ASSUME IInv, NEW j \in busy, ~Current(j).always,
                      NEW x \in Current(j).needs
               PROVE  x \in Facts(j)
    BY DEF StepsHaveTheirInputs
  <2> DEFINE l == log[j]
             n == Len(l) + 1
             steps == StepsOf(j)
  <2>1. /\ j \in Job /\ l \in Seq(Ending) /\ Len(l) \in Nat /\ JobOK(j) /\ Supplied(steps)
    BY AllSupplied DEF IInv, JobsTyped
  <2>2. ~Failed(j) /\ Len(l) < Len(steps)
    BY <2>1 DEF JobOK, Runnable
  <2>3. n \in 1..Len(steps) /\ n - 1 = Len(l)
    BY <2>1, <2>2 DEF Supplied
  <2>4. ~steps[n].always /\ x \in steps[n].needs
    BY DEF Current
  <2>5. PICK i \in 1..(n - 1) : x \in steps[i].gives
    BY <2>1, <2>3, <2>4 DEF Supplied
  <2>6. i \in 1..Len(l) /\ i \in DOMAIN l
    BY <2>1, <2>3
  <2>7. l[i] \in Ending
    BY <2>1, <2>6
  <2>8. l[i] # "failure" /\ l[i] # "skipped"
    BY <2>1, <2>2, <2>6 DEF Failed, JobOK
  <2>9. l[i] = "success"
    BY <2>7, <2>8 DEF Ending
  <2> QED
    BY <2>5, <2>6, <2>9 DEF Facts
<1> QED
  BY <1>1, Invariance, PTL

\* The step that saves the checkers' evidence is never skipped, also when the
\* models failed (ci/ci.ts, "specification").
THEOREM EvidenceIsAlwaysSaved == Spec => []EvidenceIsSaved
<1>1. Len(StepsOf("specification")) = 5 /\ StepsOf("specification")[5].always
      /\ "specification" \in Job
  <2>1. ci.specification = << checkout, rust("1.97.1"), Step({}, {Fact("java")}),
                              CheckModels, SaveEvidence >>
    BY Zenon DEF ci
  <2>2. SaveEvidence.always
    BY DEF SaveEvidence, Step
  <2> HIDE DEF SaveEvidence
  <2> QED
    BY <2>1, <2>2, Jobs
<1>2. IInv => EvidenceIsSaved
  <2> SUFFICES ASSUME IInv, result["specification"] \in {"success", "failure"}
               PROVE  log["specification"][5] # "skipped"
    BY DEF EvidenceIsSaved
  <2>1. JobOK("specification") /\ Len(log["specification"]) = 5
    BY <1>1 DEF IInv, JobOK
  <2>2. 5 \in 1..Len(log["specification"])
    BY <2>1
  <2> QED
    BY <1>1, <2>1, <2>2 DEF JobOK
<1> QED
  BY <1>2, Invariance, PTL
=============================================================================
