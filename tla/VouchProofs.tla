----------------------------- MODULE VouchProofs -----------------------------
(***************************************************************************)
(* Contributor access: what a green check proves, and the order in which   *)
(* comments take effect, for every set of contributors, requests and       *)
(* comments and any number of overlapping runs.                            *)
(***************************************************************************)
EXTENDS Vouch, SequenceTheorems, TLAPS

Run == [event : {"pull_request_target", "workflow_dispatch"}, number : PR \cup {None},
        sha : Commit, since : Nat, read : [Author -> Standing] \cup {None},
        status : Standing \cup {"skipped", None},
        stage : {"queued", "trusted", "resolved", "judged", "success", "failure"}]
ManageRun == [comment : Comments, base : Nat,
              stage : InProgress \cup {"waiting", "cancelled", "skipped", "idle", "recorded", "failed"}]

\* Every run, request and policy has its shape.
Typed ==
    /\ policy \in Seq([Author -> Standing])
    /\ Len(policy) > 0
    /\ prs \in [PR -> [state : {"new", "open", "closed"}, head : Commit]]
    /\ checks \in Seq(Run)
    /\ manages \in Seq(ManageRun)

\* A request's head is on its own branch.
HeadsOK == \A p \in PR : OwnerOf[prs[p].head] = p

\* What a check knows at each of its steps: the policy it read is one of the
\* default branch since it began, the commit it runs on is its request's.
CheckOK(c) ==
    /\ c.since \in 1..Len(policy)
    /\ c.event = "pull_request_target" => c.number \in PR /\ OwnerOf[c.sha] = c.number
    /\ c.stage \in {"trusted", "resolved"} => \E k \in c.since..Len(policy) : c.read = policy[k]
    /\ c.stage \in {"resolved", "judged", "success"} => c.number \in PR /\ OwnerOf[c.sha] = c.number
    /\ c.stage \in {"judged", "success"} /\ c.status \in {"vouched", "skipped"} =>
           MayContribute(AuthorOf[c.number], c.since)
    /\ c.stage = "success" => c.status \in {"vouched", "skipped"}

ChecksOK == \A i \in DOMAIN checks : CheckOK(checks[i])

Stage(i) == manages[i].stage

\* The concurrency group: one run in progress, at most one waiting, behind it,
\* and every recorded command before both.
GroupOK ==
    \A i, j \in DOMAIN manages :
        /\ Stage(i) \in InProgress /\ Stage(j) \in InProgress => i = j
        /\ Stage(i) = "waiting" /\ Stage(j) = "waiting" => i = j
        /\ Stage(i) = "waiting" => GroupBusy
        /\ Stage(i) \in InProgress /\ Stage(j) = "waiting" => i < j
        /\ Stage(i) = "recorded" /\ Stage(j) \in InProgress \cup {"waiting"} => i < j

IInv == Typed /\ HeadsOK /\ ChecksOK /\ GroupOK /\ CommandsInOrder
-----------------------------------------------------------------------------
(* Policies are only added *)

\* The policy at each earlier commit of the default branch stays.
PolicyGrows ==
    /\ Len(policy) <= Len(policy')
    /\ \A k \in 1..Len(policy) : policy'[k] = policy[k]

\* A push adds one commit with its own policy.
LEMMA PushGrows ==
    ASSUME Typed, NEW new, policy' = Append(policy, new)
    PROVE  PolicyGrows /\ Len(policy') = Len(policy) + 1 /\ Last(policy') = new
BY DEF Typed, PolicyGrows, Last

\* No step rewrites the policy of an earlier commit.
LEMMA PolicyStep ==
    ASSUME Typed, [Next]_vars
    PROVE  PolicyGrows
<1>1. UNCHANGED policy => PolicyGrows
  BY DEF Typed, PolicyGrows
<1>2. \A i \in DOMAIN manages : ManageByIssue(i) => PolicyGrows
  BY <1>1, PushGrows DEF ManageByIssue
<1>3. PushMain => PolicyGrows
  BY PushGrows DEF PushMain
<1>4. CASE Next /\ ~PushMain /\ ~\E i \in DOMAIN manages : ManageByIssue(i)
  <2>1. UNCHANGED policy
    BY <1>4 DEF Next, OpenPR, ClosePR, Synchronize, Dispatch, ReadTrustedPolicy, resolveRequest,
                CheckPr, requireEligibility, FailCheck, Comment, CheckOut, FailManage, Advance
  <2> QED
    BY <1>1, <2>1
<1> QED
  BY <1>1, <1>2, <1>3, <1>4 DEF vars

\* Whoever was vouched for since some commit still is counted as such.
LEMMA StillMayContribute ==
    ASSUME Typed, PolicyGrows, NEW a, NEW since \in Nat, since >= 1, MayContribute(a, since)
    PROVE  MayContribute(a, since)'
BY DEF Typed, PolicyGrows, MayContribute
-----------------------------------------------------------------------------
(* Shapes *)

\* A step of one check replaces its run.
LEMMA RunUpdate ==
    ASSUME Typed, NEW i \in DOMAIN checks, NEW run \in Run, checks' = [checks EXCEPT ![i] = run]
    PROVE  /\ checks' \in Seq(Run)
           /\ DOMAIN checks' = DOMAIN checks
           /\ checks'[i] = run
           /\ \A k \in DOMAIN checks : k # i => checks'[k] = checks[k]
BY DEF Typed

\* The elements of an appended sequence, in terms of the old ones.
LEMMA AppendElements ==
    ASSUME NEW S, NEW s \in Seq(S), NEW x \in S, NEW t, t = Append(s, x)
    PROVE  /\ t \in Seq(S)
           /\ DOMAIN s = 1..Len(s) /\ Len(s) \in Nat
           /\ DOMAIN t = 1..Len(s) + 1
           /\ t[Len(s) + 1] = x
           /\ \A k \in DOMAIN t : \/ k = Len(s) + 1 /\ t[k] = x
                                  \/ k \in DOMAIN s /\ k # Len(s) + 1 /\ t[k] = s[k]
<1>1. Len(s) \in Nat /\ DOMAIN s = 1..Len(s) /\ t \in Seq(S)
  OBVIOUS
<1>2. DOMAIN t = 1..Len(s) + 1 /\ t[Len(s) + 1] = x /\ \A k \in 1..Len(s) : t[k] = s[k]
  BY AppendProperties
<1>3. ASSUME NEW k \in DOMAIN t
      PROVE  \/ k = Len(s) + 1 /\ t[k] = x
             \/ k \in DOMAIN s /\ k # Len(s) + 1 /\ t[k] = s[k]
  <2>1. k \in 1..Len(s) + 1
    BY ONLY <1>2, <1>3
  <2>2. CASE k = Len(s) + 1
    BY ONLY <1>2, <2>2
  <2>3. CASE k # Len(s) + 1
    <3>1. k \in 1..Len(s)
      BY ONLY <1>1, <2>1, <2>3
    <3> QED
      BY ONLY <1>1, <1>2, <2>3, <3>1
  <2> QED
    BY ONLY <2>2, <2>3
<1> QED
  BY <1>1, <1>2, <1>3

\* A new check is appended.
LEMMA RunAppend ==
    ASSUME Typed, NEW run \in Run, checks' = Append(checks, run)
    PROVE  /\ checks' \in Seq(Run)
           /\ \A k \in DOMAIN checks' : checks'[k] = run \/ (k \in DOMAIN checks /\ checks'[k] = checks[k])
<1>1. checks \in Seq(Run)
  BY DEF Typed
<1>2. PICK t : t = checks'
  OBVIOUS
<1>3. t = Append(checks, run)
  BY <1>2
<1>4. t \in Seq(Run) /\ \A k \in DOMAIN t : t[k] = run \/ (k \in DOMAIN checks /\ t[k] = checks[k])
  BY <1>1, <1>3, AppendElements
<1> QED
  BY <1>2, <1>4

\* A step of one check rewrites some of its fields.
LEMMA CheckUpdates ==
    ASSUME Typed, NEW i \in DOMAIN checks,
           NEW stage \in {"queued", "trusted", "resolved", "judged", "success", "failure"},
           NEW read \in [Author -> Standing] \cup {None},
           NEW status \in Standing \cup {"skipped", None}
    PROVE  /\ checks[i] \in Run
           /\ [checks[i] EXCEPT !.stage = stage] \in Run
           /\ [checks[i] EXCEPT !.stage = stage, !.read = read] \in Run
           /\ [checks[i] EXCEPT !.stage = stage, !.status = status] \in Run
<1>1. checks[i] \in Run
  BY DEF Typed
<1> QED
  BY <1>1 DEF Run

\* What the steps write into the list of checks.
CheckStep(i, run) ==
    \/ ReadTrustedPolicy(i) /\ run = [checks[i] EXCEPT !.stage = "trusted", !.read = Last(policy)]
    \/ resolveRequest(i) /\ run = [checks[i] EXCEPT !.stage = "resolved"]
    \/ CheckPr(i) /\ \E read \in {checks[i].read, Last(policy)} :
          LET a == AuthorOf[checks[i].number]
          IN  run = [checks[i] EXCEPT !.stage = "judged",
                                      !.status = IF a \in Collaborator THEN "skipped" ELSE read[a]]
    \/ requireEligibility(i) /\ run = [checks[i] EXCEPT !.stage = "success"]
    \/ FailCheck(i) /\ run = [checks[i] EXCEPT !.stage = "failure"]

\* A run that was just created, for a request or by hand.
NewRun(run) ==
    \E event \in {"pull_request_target", "workflow_dispatch"}, number \in PR \cup {None} :
        /\ run = [event |-> event, number |-> number, sha |-> run.sha, since |-> Len(policy),
                  read |-> None, status |-> None, stage |-> "queued"]
        /\ run.sha \in Commit
        /\ event = "pull_request_target" => number \in PR /\ OwnerOf[run.sha] = number

\* Every step starts a check, takes one a step further, or touches none.
LEMMA CheckSteps ==
    ASSUME Typed, HeadsOK, [Next]_vars
    PROVE  \/ UNCHANGED checks
           \/ \E run : NewRun(run) /\ checks' = Append(checks, run)
           \/ \E i \in DOMAIN checks : \E run :
                CheckStep(i, run) /\ checks' = [checks EXCEPT ![i] = run]
<1>1. ASSUME NEW event \in {"pull_request_target", "workflow_dispatch"}, NEW number \in PR \cup {None},
             NEW sha \in Commit, NewCheck(event, number, sha),
             event = "pull_request_target" => number \in PR /\ OwnerOf[sha] = number
      PROVE  \E run : NewRun(run) /\ checks' = Append(checks, run)
  <2> DEFINE run == [event |-> event, number |-> number, sha |-> sha, since |-> Len(policy),
                     read |-> None, status |-> None, stage |-> "queued"]
  <2>1. checks' = Append(checks, run)
    BY <1>1 DEF NewCheck
  <2>2. NewRun(run)
    BY <1>1 DEF NewRun
  <2> QED
    BY <2>1, <2>2
<1>2. \A p \in PR : prs[p].head \in Commit /\ OwnerOf[prs[p].head] = p
  BY DEF Typed, HeadsOK
<1>3. ASSUME NEW p \in PR, OpenPR(p)
      PROVE  \E run : NewRun(run) /\ checks' = Append(checks, run)
  BY <1>1, <1>2, <1>3 DEF OpenPR
<1>4. ASSUME NEW p \in PR, NEW c \in Commit, Synchronize(p, c), ~UNCHANGED checks
      PROVE  \E run : NewRun(run) /\ checks' = Append(checks, run)
  BY <1>1, <1>4 DEF Synchronize
<1>5. ASSUME NEW p \in PR, NEW number \in PR \cup {None}, Dispatch(p, number)
      PROVE  \E run : NewRun(run) /\ checks' = Append(checks, run)
  BY <1>1, <1>2, <1>5 DEF Dispatch
<1>6. ASSUME NEW i \in DOMAIN checks, ReadTrustedPolicy(i)
      PROVE  \E run : CheckStep(i, run) /\ checks' = [checks EXCEPT ![i] = run]
  BY <1>6 DEF ReadTrustedPolicy, CheckStep
<1>7. ASSUME NEW i \in DOMAIN checks, resolveRequest(i)
      PROVE  \E run : CheckStep(i, run) /\ checks' = [checks EXCEPT ![i] = run]
  BY <1>7 DEF resolveRequest, CheckStep
<1>8. ASSUME NEW i \in DOMAIN checks, CheckPr(i)
      PROVE  \E run : CheckStep(i, run) /\ checks' = [checks EXCEPT ![i] = run]
  <2> DEFINE Result(read) ==
        [checks[i] EXCEPT !.stage = "judged",
                          !.status = IF AuthorOf[checks[i].number] \in Collaborator THEN "skipped"
                                     ELSE read[AuthorOf[checks[i].number]]]
  <2>1. PICK read \in {checks[i].read, Last(policy)} :
             checks' = [checks EXCEPT ![i] = Result(read)]
    BY <1>8 DEF CheckPr
  <2>2. CheckStep(i, Result(read))
    BY <1>8 DEF CheckStep
  <2> QED
    BY <2>1, <2>2
<1>9. ASSUME NEW i \in DOMAIN checks, requireEligibility(i)
      PROVE  \E run : CheckStep(i, run) /\ checks' = [checks EXCEPT ![i] = run]
  BY <1>9 DEF requireEligibility, CheckStep
<1>10. ASSUME NEW i \in DOMAIN checks, FailCheck(i)
       PROVE  \E run : CheckStep(i, run) /\ checks' = [checks EXCEPT ![i] = run]
  BY <1>10 DEF FailCheck, CheckStep
<1>11. ASSUME \/ \E p \in PR : ClosePR(p)
              \/ \E c \in Comments : Comment(c)
              \/ \E i \in DOMAIN manages : CheckOut(i) \/ ManageByIssue(i) \/ FailManage(i)
              \/ PushMain
       PROVE  UNCHANGED checks
  BY <1>11 DEF ClosePR, Comment, CheckOut, ManageByIssue, FailManage, PushMain
<1> QED
  BY <1>3, <1>4, <1>5, <1>6, <1>7, <1>8, <1>9, <1>10, <1>11 DEF Next, vars
-----------------------------------------------------------------------------
(* Checks *)

\* What a check knows stays true while the default branch moves on.
LEMMA CheckOKStays ==
    ASSUME Typed, PolicyGrows, NEW c \in Run, CheckOK(c)
    PROVE  CheckOK(c)'
<1>1. c.since \in Nat /\ c.since >= 1 /\ c.since \in 1..Len(policy)' /\ Len(policy) \in Nat
  BY DEF Typed, PolicyGrows, CheckOK, Run
<1>2. \A k \in c.since..Len(policy) : k \in c.since..Len(policy)' /\ policy'[k] = policy[k]
  BY <1>1 DEF Typed, PolicyGrows
<1>3. MayContribute(AuthorOf[c.number], c.since) => MayContribute(AuthorOf[c.number], c.since)'
  BY <1>1, StillMayContribute
<1> QED
  BY <1>1, <1>2, <1>3 DEF CheckOK

\* Each step of a check learns what the next one relies on.
LEMMA CheckStepOK ==
    ASSUME Typed, HeadsOK, NEW i \in DOMAIN checks, CheckOK(checks[i]), NEW run, CheckStep(i, run)
    PROVE  run \in Run /\ CheckOK(run)
<1> DEFINE c == checks[i]
<1>1. /\ c \in Run /\ c.since \in 1..Len(policy) /\ Len(policy) \in 1..Len(policy)
      /\ Len(policy) \in c.since..Len(policy)
      /\ Last(policy) \in [Author -> Standing] /\ Last(policy) = policy[Len(policy)]
      /\ \A k \in c.since..Len(policy) : policy[k] \in [Author -> Standing]
  BY DEF Typed, CheckOK, Last
<1>2. CASE ReadTrustedPolicy(i) /\ run = [c EXCEPT !.stage = "trusted", !.read = Last(policy)]
  BY <1>1, <1>2 DEF Run, CheckOK
<1>3. CASE resolveRequest(i) /\ run = [c EXCEPT !.stage = "resolved"]
  <2>1. c.stage = "trusted" /\ c.number \in PR
    BY <1>3 DEF resolveRequest, Advance
  <2>2. OwnerOf[c.sha] = c.number
    BY <1>1, <1>3, <2>1 DEF resolveRequest, validateDispatchedPR, HeadsOK, CheckOK, Run
  <2> QED
    BY <1>1, <1>3, <2>1, <2>2 DEF Run, CheckOK
<1>4. ASSUME NEW read \in {c.read, Last(policy)}, CheckPr(i),
             run = [c EXCEPT !.stage = "judged",
                             !.status = IF AuthorOf[c.number] \in Collaborator THEN "skipped"
                                        ELSE read[AuthorOf[c.number]]]
      PROVE  run \in Run /\ CheckOK(run)
  <2>1. c.stage = "resolved" /\ c.number \in PR /\ OwnerOf[c.sha] = c.number
    BY <1>4 DEF CheckPr, Advance, CheckOK
  <2>2. PICK k \in c.since..Len(policy) : read = policy[k]
    BY <1>1, <2>1 DEF CheckOK
  <2>3. AuthorOf[c.number] \in Author
    BY <2>1, VouchAssumption
  <2> DEFINE status == IF AuthorOf[c.number] \in Collaborator THEN "skipped"
                       ELSE read[AuthorOf[c.number]]
  <2>4. status \in Standing \cup {"skipped"}
    BY <1>1, <2>2, <2>3
  <2>5. status \in {"vouched", "skipped"} => MayContribute(AuthorOf[c.number], c.since)
    BY <1>1, <2>2, <2>3 DEF MayContribute, Standing
  <2>6. run = [c EXCEPT !.stage = "judged", !.status = status]
    BY <1>4
  <2> HIDE DEF status
  <2>7. run \in Run
    BY <1>1, <2>4, <2>6, CheckUpdates
  <2>8. /\ run.since = c.since /\ run.event = c.event /\ run.number = c.number /\ run.sha = c.sha
        /\ run.stage = "judged" /\ run.status = status
    BY <1>1, <2>6 DEF Run
  <2> QED
    BY <1>1, <2>1, <2>5, <2>7, <2>8 DEF CheckOK
<1>5. CASE requireEligibility(i) /\ run = [c EXCEPT !.stage = "success"]
  <2>1. c.stage = "judged" /\ c.status \in {"vouched", "skipped"}
    BY <1>5 DEF requireEligibility, Advance
  <2>2. /\ run \in Run
        /\ run.since = c.since /\ run.event = c.event /\ run.number = c.number /\ run.sha = c.sha
        /\ run.stage = "success" /\ run.status = c.status
    BY <1>1, <1>5 DEF Run
  <2> QED
    BY <2>1, <2>2 DEF CheckOK
<1>6. CASE FailCheck(i) /\ run = [c EXCEPT !.stage = "failure"]
  <2>1. /\ run \in Run
        /\ run.since = c.since /\ run.event = c.event /\ run.number = c.number /\ run.sha = c.sha
        /\ run.stage = "failure"
    BY <1>1, <1>6 DEF Run
  <2> QED
    BY <2>1 DEF CheckOK
<1> QED
  BY <1>2, <1>3, <1>4, <1>5, <1>6 DEF CheckStep

\* So every check always knows what its stage says.
LEMMA ChecksStep ==
    ASSUME Typed, HeadsOK, ChecksOK, [Next]_vars
    PROVE  checks' \in Seq(Run) /\ ChecksOK'
<1>1. PolicyGrows
  BY PolicyStep
<1>2. \A k \in DOMAIN checks : checks[k] \in Run /\ CheckOK(checks[k])
  BY DEF Typed, ChecksOK
<1>3. \A c \in Run : CheckOK(c) => CheckOK(c)'
  BY <1>1, CheckOKStays
<1>4. CASE UNCHANGED checks
  <2>1. \A k \in DOMAIN checks' : \E c \in Run : checks'[k] = c /\ CheckOK(c)
    BY <1>2, <1>4
  <2> QED
    BY <1>4, <1>3, <2>1 DEF ChecksOK, Typed
<1>5. ASSUME NEW run, NewRun(run), checks' = Append(checks, run)
      PROVE  checks' \in Seq(Run) /\ ChecksOK'
  <2>1. run \in Run
    BY <1>5 DEF NewRun, Run, Typed
  <2>2. CheckOK(run)
    BY <1>5 DEF NewRun, CheckOK, Typed
  <2>4. \A k \in DOMAIN checks' : \E c \in Run : checks'[k] = c /\ CheckOK(c)
    BY <1>2, <1>5, <2>1, <2>2, RunAppend
  <2> QED
    BY <1>5, <1>3, <2>1, <2>4, RunAppend DEF ChecksOK
<1>6. ASSUME NEW i \in DOMAIN checks, NEW run, CheckStep(i, run), checks' = [checks EXCEPT ![i] = run]
      PROVE  checks' \in Seq(Run) /\ ChecksOK'
  <2>1. run \in Run /\ CheckOK(run)
    BY <1>2, <1>6, CheckStepOK
  <2>4. \A k \in DOMAIN checks' : \E c \in Run : checks'[k] = c /\ CheckOK(c)
    BY <1>2, <1>6, <2>1, RunUpdate
  <2> QED
    BY <1>6, <1>3, <2>1, <2>4, RunUpdate DEF ChecksOK
<1> QED
  BY <1>4, <1>5, <1>6, CheckSteps
-----------------------------------------------------------------------------
(* Comments *)

Stages == InProgress \cup {"waiting", "cancelled", "skipped", "idle", "recorded", "failed"}

\* A run's comment never changes.
Restaged(stages) ==
    /\ manages' \in Seq(ManageRun)
    /\ DOMAIN manages' = DOMAIN manages
    /\ \A k \in DOMAIN manages : /\ manages'[k].comment = manages[k].comment
                                  /\ manages'[k].stage = stages[k]

\* A function over the runs whose values are runs is a list of runs.
LEMMA FunctionIsRuns ==
    ASSUME Typed, NEW t, t = [k \in DOMAIN manages |-> t[k]],
           \A k \in DOMAIN manages : t[k] \in ManageRun
    PROVE  t \in Seq(ManageRun) /\ Len(t) = Len(manages)
<1>1. Len(manages) \in Nat /\ DOMAIN manages = 1..Len(manages)
  BY DEF Typed
<1>2. t \in [1..Len(manages) -> ManageRun]
  BY <1>1
<1>3. t \in Seq(ManageRun)
  BY <1>1, <1>2, SeqDef
<1> QED
  BY <1>1, <1>2, <1>3

\* The end of a run writes the stages of that run and the waiting one.
LEMMA EndRestages ==
    ASSUME Typed, NEW i \in DOMAIN manages, Stage(i) \in InProgress,
           NEW stage \in {"skipped", "idle", "recorded", "failed"}, EndManage(i, stage)
    PROVE  Restaged([k \in DOMAIN manages |->
                       IF k = i THEN stage ELSE IF Stage(k) = "waiting" THEN "started" ELSE Stage(k)])
<1>1. \A k \in DOMAIN manages : manages[k] \in ManageRun
  BY DEF Typed
<1>2. ASSUME NEW k \in DOMAIN manages
      PROVE  manages'[k] = IF k = i THEN [manages[k] EXCEPT !.stage = stage]
                           ELSE IF Stage(k) = "waiting" THEN [manages[k] EXCEPT !.stage = "started"]
                           ELSE manages[k]
  BY DEF EndManage, InProgress, Stage
<1>3. \A k \in DOMAIN manages : \A s \in Stages :
        /\ [manages[k] EXCEPT !.stage = s] \in ManageRun
        /\ [manages[k] EXCEPT !.stage = s].stage = s
        /\ [manages[k] EXCEPT !.stage = s].comment = manages[k].comment
  BY <1>1 DEF ManageRun, Stages
<1>4. ASSUME NEW k \in DOMAIN manages
      PROVE  /\ manages'[k] \in ManageRun
             /\ manages'[k].comment = manages[k].comment
             /\ manages'[k].stage = IF k = i THEN stage ELSE IF Stage(k) = "waiting" THEN "started" ELSE Stage(k)
  <2>1. CASE k = i
    <3>1. manages'[k] = [manages[k] EXCEPT !.stage = stage] /\ stage \in Stages
      BY <1>2, <2>1 DEF Stages
    <3> QED
      BY <1>3, <2>1, <3>1
  <2>2. CASE k # i /\ Stage(k) = "waiting"
    <3>1. manages'[k] = [manages[k] EXCEPT !.stage = "started"] /\ "started" \in Stages
      BY <1>2, <2>2 DEF Stages, InProgress
    <3> QED
      BY <1>3, <2>2, <3>1
  <2>3. CASE k # i /\ Stage(k) # "waiting"
    BY <1>1, <1>2, <2>3 DEF Stage
  <2> QED
    BY <2>1, <2>2, <2>3
<1>5. \A k \in DOMAIN manages : manages'[k] \in ManageRun
  BY <1>4
<1>6. manages' = [k \in DOMAIN manages |-> manages'[k]]
  BY DEF EndManage
<1>7. manages' \in Seq(ManageRun) /\ DOMAIN manages' = DOMAIN manages
  BY <1>5, <1>6, FunctionIsRuns
<1>8. \A k \in DOMAIN manages :
        /\ manages'[k].comment = manages[k].comment
        /\ manages'[k].stage = IF k = i THEN stage ELSE IF Stage(k) = "waiting" THEN "started" ELSE Stage(k)
  BY <1>4
<1> QED
  BY <1>7, <1>8 DEF Restaged

\* A run that ends hands the group to the one that waits.
LEMMA EndKeepsGroup ==
    ASSUME Typed, GroupOK, NEW i \in DOMAIN manages, Stage(i) \in InProgress,
           NEW stage \in {"skipped", "idle", "recorded", "failed"},
           Restaged([k \in DOMAIN manages |->
                       IF k = i THEN stage ELSE IF Stage(k) = "waiting" THEN "started" ELSE Stage(k)])
    PROVE  GroupOK'
<1> DEFINE after(k) == IF k = i THEN stage ELSE IF Stage(k) = "waiting" THEN "started" ELSE Stage(k)
<1>1. DOMAIN manages' = DOMAIN manages /\ \A k \in DOMAIN manages : Stage(k)' = after(k)
  BY DEF Restaged, Stage
<1>2. ASSUME NEW k \in DOMAIN manages
      PROVE  /\ after(k) # "waiting"
             /\ after(k) \in InProgress => Stage(k) = "waiting"
             /\ after(k) = "recorded" => k = i \/ Stage(k) = "recorded"
  BY DEF GroupOK, InProgress
<1> HIDE DEF after
<1>3. ASSUME NEW j \in DOMAIN manages, NEW k \in DOMAIN manages
      PROVE  /\ after(j) \in InProgress /\ after(k) \in InProgress => j = k
             /\ after(j) = "recorded" /\ after(k) \in InProgress => j < k
  BY <1>2 DEF GroupOK
<1> QED
  BY <1>1, <1>2, <1>3 DEF GroupOK

\* Checking out moves a run from one step of being in progress to the other.
LEMMA ReadyKeepsGroup ==
    ASSUME Typed, GroupOK, NEW i \in DOMAIN manages, Stage(i) = "started",
           manages' = [manages EXCEPT ![i].stage = "ready", ![i].base = Len(policy)]
    PROVE  /\ Restaged([k \in DOMAIN manages |-> IF k = i THEN "ready" ELSE Stage(k)])
           /\ GroupOK'
<1>1. manages[i] \in ManageRun /\ Len(policy) \in Nat /\ manages \in Seq(ManageRun)
  BY DEF Typed
<1> DEFINE run == [manages[i] EXCEPT !.stage = "ready", !.base = Len(policy)]
<1>2. run \in ManageRun /\ run.stage = "ready" /\ run.comment = manages[i].comment
  BY <1>1 DEF ManageRun, InProgress
<1>3. manages' = [manages EXCEPT ![i] = run]
  BY <1>1
<1> HIDE DEF run
<1>4. Restaged([k \in DOMAIN manages |-> IF k = i THEN "ready" ELSE Stage(k)])
  <2>1. manages' \in Seq(ManageRun) /\ DOMAIN manages' = DOMAIN manages
    BY ONLY <1>1, <1>2, <1>3
  <2>2. \A k \in DOMAIN manages : manages'[k] = IF k = i THEN run ELSE manages[k]
    BY <1>1, <1>3
  <2>3. \A k \in DOMAIN manages :
          /\ manages'[k].comment = manages[k].comment
          /\ manages'[k].stage = IF k = i THEN "ready" ELSE Stage(k)
    BY <1>2, <2>2 DEF Stage
  <2> QED
    BY <2>1, <2>3 DEF Restaged
<1>5. /\ DOMAIN manages' = DOMAIN manages
      /\ \A k \in DOMAIN manages : Stage(k)' = IF k = i THEN "ready" ELSE Stage(k)
  BY <1>4 DEF Restaged, Stage
<1>6. GroupBusy <=> \E k \in DOMAIN manages : Stage(k) \in InProgress
  BY DEF GroupBusy, Stage
<1>7. GroupBusy' <=> \E k \in DOMAIN manages' : Stage(k)' \in InProgress
  BY DEF GroupBusy, Stage
<1>8. \A k \in DOMAIN manages : /\ Stage(k)' \in InProgress <=> Stage(k) \in InProgress
                                /\ Stage(k)' = "waiting" <=> Stage(k) = "waiting"
                                /\ Stage(k)' = "recorded" <=> Stage(k) = "recorded"
  BY <1>5 DEF InProgress
<1> QED
  BY <1>4, <1>5, <1>6, <1>7, <1>8 DEF GroupOK

\* A new comment's run starts if the group is free, and otherwise waits in the
\* place of the one that waited.
LEMMA CommentKeepsGroup ==
    ASSUME Typed, GroupOK, NEW c \in Comments, Comment(c)
    PROVE  /\ manages' \in Seq(ManageRun)
           /\ DOMAIN manages \subseteq DOMAIN manages'
           /\ \A k \in DOMAIN manages : manages'[k].comment = manages[k].comment
           /\ \A k \in DOMAIN manages' :
                manages'[k].stage = "recorded" <=> k \in DOMAIN manages /\ Stage(k) = "recorded"
           /\ GroupOK'
<1> DEFINE old == [k \in DOMAIN manages |->
                     IF Stage(k) = "waiting" THEN [manages[k] EXCEPT !.stage = "cancelled"]
                     ELSE manages[k]]
           run == [comment |-> c, base |-> 0, stage |-> IF GroupBusy THEN "waiting" ELSE "started"]
           last == Len(manages) + 1
<1>1. manages' = Append(old, run)
  <2>1. old = [k \in DOMAIN manages |->
                 IF k \in {i \in DOMAIN manages : manages[i].stage = "waiting"}
                 THEN [manages[k] EXCEPT !.stage = "cancelled"] ELSE manages[k]]
    BY DEF Stage
  <2> QED
    BY <2>1 DEF Comment
<1>2. run \in ManageRun
  BY DEF ManageRun, InProgress
<1>3. ASSUME NEW k \in DOMAIN manages
      PROVE  /\ old[k] \in ManageRun
             /\ old[k].comment = manages[k].comment
             /\ old[k].stage = IF Stage(k) = "waiting" THEN "cancelled" ELSE Stage(k)
  <2>1. manages[k] \in ManageRun
    BY DEF Typed
  <2> QED
    BY <2>1 DEF ManageRun, Stage
<1>4. old \in Seq(ManageRun) /\ Len(old) = Len(manages) /\ DOMAIN old = DOMAIN manages
  <2>1. old = [k \in DOMAIN manages |-> old[k]]
    OBVIOUS
  <2> HIDE DEF old
  <2> QED
    BY <1>3, <2>1, FunctionIsRuns
<1> HIDE DEF old
<1>5. PICK t : t = manages' /\ t = Append(old, run)
  BY <1>1
<1>6. /\ t \in Seq(ManageRun) /\ DOMAIN manages = 1..Len(manages) /\ Len(manages) \in Nat
      /\ DOMAIN t = 1..last
      /\ t[last] = run
      /\ \A k \in DOMAIN t : \/ k = last /\ t[k] = run
                             \/ k \in DOMAIN manages /\ k # last /\ t[k] = old[k]
  BY <1>2, <1>4, <1>5, AppendElements
<1>7. DOMAIN manages \subseteq DOMAIN t /\ last \notin DOMAIN manages /\ last \in DOMAIN t
  BY <1>6
<1>8. \A k \in DOMAIN t : t[k].stage = IF k = last THEN IF GroupBusy THEN "waiting" ELSE "started"
                                        ELSE IF Stage(k) = "waiting" THEN "cancelled" ELSE Stage(k)
  BY <1>3, <1>6, <1>7
<1>9. \A k \in DOMAIN t : \A m \in DOMAIN manages : k \in DOMAIN manages \/ (k = last /\ m < k)
  BY <1>6
<1>10. GroupBusy <=> \E k \in DOMAIN manages : Stage(k) \in InProgress
  BY DEF GroupBusy, Stage
<1>11. GroupBusy' <=> \E k \in DOMAIN t : t[k].stage \in InProgress
  BY <1>5 DEF GroupBusy
<1>12. GroupBusy => GroupBusy'
  <2>1. \A k \in DOMAIN manages : Stage(k) \in InProgress => t[k].stage \in InProgress
    BY <1>7, <1>8 DEF InProgress
  <2> QED
    BY <1>7, <1>10, <1>11, <2>1
<1>13. ASSUME NEW i \in DOMAIN t, NEW j \in DOMAIN t
       PROVE  /\ t[i].stage \in InProgress /\ t[j].stage \in InProgress => i = j
              /\ t[i].stage = "waiting" /\ t[j].stage = "waiting" => i = j
              /\ t[i].stage = "waiting" => GroupBusy'
              /\ t[i].stage \in InProgress /\ t[j].stage = "waiting" => i < j
              /\ t[i].stage = "recorded" /\ t[j].stage \in InProgress \cup {"waiting"} => i < j
  <2>1. CASE i \in DOMAIN manages /\ j \in DOMAIN manages
    BY <1>7, <1>8, <2>1 DEF GroupOK, InProgress
  <2>2. CASE i \in DOMAIN manages /\ j = last
    BY <1>7, <1>8, <1>9, <1>10, <2>2 DEF InProgress
  <2>3. CASE i = last /\ j \in DOMAIN manages
    BY <1>7, <1>8, <1>10, <1>12, <2>3 DEF InProgress
  <2>4. CASE i = last /\ j = last
    BY <1>8, <1>12, <2>4 DEF InProgress
  <2> QED
    BY <1>6, <2>1, <2>2, <2>3, <2>4
<1>14. GroupOK'
  BY <1>5, <1>13 DEF GroupOK, Stage
<1>15. \A k \in DOMAIN manages : t[k].comment = manages[k].comment
  BY <1>3, <1>6, <1>7
<1>16. \A k \in DOMAIN t : t[k].stage = "recorded" <=> k \in DOMAIN manages /\ Stage(k) = "recorded"
  BY <1>6, <1>7, <1>8
<1> QED
  BY <1>5, <1>6, <1>7, <1>14, <1>15, <1>16
-----------------------------------------------------------------------------
(* The policy *)

\* The recorded commands about a.
About(a) == {i \in DOMAIN manages : Stage(i) = "recorded" /\ manages[i].comment.target = a}

\* The policy says of a what the last of them does.
Follows(a) ==
    IF About(a) = {} THEN Last(policy)[a] = policy[1][a]
    ELSE \E i \in About(a) : /\ \A k \in About(a) : k <= i
                             /\ Last(policy)[a] = Granted(manages[i].comment.verb)

\* CommandsInOrder, in these terms.
LEMMA InOrder == CommandsInOrder <=> \A a \in Author : Follows(a)
BY DEF CommandsInOrder, Follows, About, Stage

\* Which runs the steps write, and whether they write the policy.
LEMMA ManageSteps ==
    ASSUME [Next]_vars
    PROVE  \/ UNCHANGED manages /\ (UNCHANGED policy \/ PushMain)
           \/ \E c \in Comments : Comment(c)
           \/ \E i \in DOMAIN manages :
                \/ FailManage(i) \/ ManageByIssue(i) \/ CheckOut(i)
BY DEF Next, vars, OpenPR, ClosePR, Synchronize, Dispatch, ReadTrustedPolicy, resolveRequest,
       CheckPr, requireEligibility, FailCheck, PushMain, Advance

\* Steps that record nothing leave what the policy says, and why.
LEMMA SameCommands ==
    ASSUME Typed, CommandsInOrder, Last(policy)' = Last(policy), policy'[1] = policy[1],
           DOMAIN manages \subseteq DOMAIN manages',
           \A k \in DOMAIN manages : manages'[k].comment = manages[k].comment,
           \A k \in DOMAIN manages' :
               manages'[k].stage = "recorded" <=> k \in DOMAIN manages /\ Stage(k) = "recorded"
    PROVE  CommandsInOrder'
<1>1. ASSUME NEW a \in Author
      PROVE  About(a)' = About(a) /\ \A i \in About(a) : manages'[i].comment = manages[i].comment
  BY DEF About, Stage
<1>2. ASSUME NEW a \in Author
      PROVE  Follows(a)'
  <2>1. Follows(a)
    BY InOrder
  <2> QED
    BY <1>1, <2>1 DEF Follows
<1> QED
  BY <1>2 DEF CommandsInOrder, Follows, About, Stage

\* A recorded command is later than every recorded one, and the policy follows it.
LEMMA RecordFollows ==
    ASSUME Typed, GroupOK, CommandsInOrder, NEW i \in DOMAIN manages, Stage(i) = "ready",
           manages[i].comment.verb # None,
           policy' = Append(policy, [Last(policy) EXCEPT ![manages[i].comment.target] =
                                                       Granted(manages[i].comment.verb)]),
           Restaged([k \in DOMAIN manages |->
                       IF k = i THEN "recorded" ELSE IF Stage(k) = "waiting" THEN "started" ELSE Stage(k)])
    PROVE  CommandsInOrder'
<1> DEFINE target == manages[i].comment.target
           verb == manages[i].comment.verb
<1>1. Last(policy) \in [Author -> Standing] /\ policy'[1] = policy[1]
      /\ Last(policy)' = [Last(policy) EXCEPT ![target] = Granted(verb)]
  BY DEF Typed, Last
<1>2. /\ DOMAIN manages' = DOMAIN manages
      /\ \A k \in DOMAIN manages :
           /\ manages'[k].comment = manages[k].comment
           /\ Stage(k)' = "recorded" <=> k = i \/ Stage(k) = "recorded"
  BY DEF Restaged, Stage
<1>3. \A k \in DOMAIN manages : Stage(k) = "recorded" => k < i
  BY DEF GroupOK, InProgress
<1>4. i \in Nat
  BY DEF Typed
<1>5. ASSUME NEW a \in Author
      PROVE  Follows(a)'
  <2>1. CASE a = target
    <3>1. About(a)' = About(a) \cup {i}
      BY <1>2, <2>1 DEF About, Stage
    <3>2. \A k \in About(a)' : k <= i
      BY <1>3, <1>4, <3>1 DEF About, Typed
    <3>3. Last(policy)'[a] = Granted(manages'[i].comment.verb)
      BY <1>1, <1>2, <2>1
    <3> QED
      BY <3>1, <3>2, <3>3 DEF Follows
  <2>2. CASE a # target
    <3>1. About(a)' = About(a) /\ \A k \in About(a) : manages'[k].comment = manages[k].comment
      BY <1>2, <2>2 DEF About, Stage
    <3>2. Last(policy)'[a] = Last(policy)[a]
      BY <1>1, <2>2
    <3>3. Follows(a)
      BY InOrder
    <3> QED
      BY <1>1, <3>1, <3>2, <3>3 DEF Follows
  <2> QED
    BY <2>1, <2>2
<1> QED
  BY <1>5 DEF CommandsInOrder, Follows, About, Stage

\* Every step keeps the runs typed, the group sound and the policy in order.
LEMMA CommandsStep ==
    ASSUME Typed, GroupOK, CommandsInOrder, [Next]_vars
    PROVE  manages' \in Seq(ManageRun) /\ GroupOK' /\ CommandsInOrder'
<1>1. CASE UNCHANGED manages /\ (UNCHANGED policy \/ PushMain)
  <2>1. Last(policy)' = Last(policy) /\ policy'[1] = policy[1]
    BY <1>1, PushGrows DEF PushMain, Typed, PolicyGrows
  <2>2. CommandsInOrder'
    BY <1>1, <2>1, SameCommands DEF Stage
  <2> QED
    BY <1>1, <2>2 DEF Typed, GroupOK, GroupBusy, Stage
<1>2. ASSUME NEW c \in Comments, Comment(c)
      PROVE  manages' \in Seq(ManageRun) /\ GroupOK' /\ CommandsInOrder'
  <2>1. UNCHANGED policy
    BY <1>2 DEF Comment
  <2>2. CommandsInOrder'
    BY <1>2, <2>1, CommentKeepsGroup, SameCommands
  <2> QED
    BY <1>2, <2>2, CommentKeepsGroup
<1>3. ASSUME NEW i \in DOMAIN manages, NEW stage \in {"skipped", "idle", "failed"},
             Stage(i) \in InProgress, EndManage(i, stage), UNCHANGED policy
      PROVE  manages' \in Seq(ManageRun) /\ GroupOK' /\ CommandsInOrder'
  <2>1. Restaged([k \in DOMAIN manages |->
                    IF k = i THEN stage ELSE IF Stage(k) = "waiting" THEN "started" ELSE Stage(k)])
    BY <1>3, EndRestages
  <2>2. GroupOK'
    BY <1>3, <2>1, EndKeepsGroup
  <2>3. \A k \in DOMAIN manages : manages'[k].stage = "recorded" <=> Stage(k) = "recorded"
    BY <1>3, <2>1 DEF Restaged, InProgress
  <2>4. CommandsInOrder'
    BY <1>3, <2>1, <2>3, SameCommands DEF Restaged
  <2> QED
    BY <2>1, <2>2, <2>4 DEF Restaged
<1>4. ASSUME NEW i \in DOMAIN manages, FailManage(i)
      PROVE  manages' \in Seq(ManageRun) /\ GroupOK' /\ CommandsInOrder'
  BY <1>3, <1>4 DEF FailManage, Stage
<1>5. ASSUME NEW i \in DOMAIN manages, CheckOut(i)
      PROVE  manages' \in Seq(ManageRun) /\ GroupOK' /\ CommandsInOrder'
  <2>1. Stage(i) = "started" /\ UNCHANGED policy
    BY <1>5 DEF CheckOut, Stage
  <2>2. CASE EndManage(i, "skipped")
    BY <1>3, <2>1, <2>2 DEF InProgress
  <2>3. CASE manages' = [manages EXCEPT ![i].stage = "ready", ![i].base = Len(policy)]
    <3>1. /\ Restaged([k \in DOMAIN manages |-> IF k = i THEN "ready" ELSE Stage(k)])
          /\ GroupOK'
      BY <2>1, <2>3, ReadyKeepsGroup
    <3>2. \A k \in DOMAIN manages : manages'[k].stage = "recorded" <=> Stage(k) = "recorded"
      BY <2>1, <3>1 DEF Restaged
    <3>3. CommandsInOrder'
      BY <2>1, <3>1, <3>2, SameCommands DEF Restaged
    <3> QED
      BY <3>1, <3>3 DEF Restaged
  <2> QED
    BY <1>5, <2>2, <2>3 DEF CheckOut
<1>6. ASSUME NEW i \in DOMAIN manages, ManageByIssue(i)
      PROVE  manages' \in Seq(ManageRun) /\ GroupOK' /\ CommandsInOrder'
  <2>1. Stage(i) = "ready" /\ Stage(i) \in InProgress
    BY <1>6 DEF ManageByIssue, Stage, InProgress
  <2>2. CASE EndManage(i, "idle") /\ UNCHANGED policy
    BY <1>3, <2>1, <2>2
  <2>3. CASE /\ manages[i].comment.verb # None
             /\ policy' = Append(policy, [Last(policy) EXCEPT ![manages[i].comment.target] =
                                                             Granted(manages[i].comment.verb)])
             /\ EndManage(i, "recorded")
    <3>1. Restaged([k \in DOMAIN manages |->
                      IF k = i THEN "recorded" ELSE IF Stage(k) = "waiting" THEN "started" ELSE Stage(k)])
      BY <2>1, <2>3, EndRestages
    <3>2. GroupOK'
      BY <2>1, <3>1, EndKeepsGroup
    <3>3. CommandsInOrder'
      BY <2>1, <2>3, <3>1, RecordFollows
    <3> QED
      BY <3>1, <3>2, <3>3 DEF Restaged
  <2> QED
    BY <1>6, <2>2, <2>3 DEF ManageByIssue
<1> QED
  BY <1>1, <1>2, <1>4, <1>5, <1>6, ManageSteps
-----------------------------------------------------------------------------
(* The whole *)

\* Requests keep their shape, and their heads their branches.
LEMMA RequestsStep ==
    ASSUME Typed, HeadsOK, [Next]_vars
    PROVE  prs' \in [PR -> [state : {"new", "open", "closed"}, head : Commit]] /\ HeadsOK'
<1>1. \A p \in PR : prs[p] \in [state : {"new", "open", "closed"}, head : Commit]
  BY DEF Typed
<1>2. ASSUME NEW p \in PR, NEW state \in {"new", "open", "closed"},
             prs' = [prs EXCEPT ![p].state = state]
      PROVE  prs' \in [PR -> [state : {"new", "open", "closed"}, head : Commit]] /\ HeadsOK'
  BY <1>1, <1>2 DEF Typed, HeadsOK
<1>3. ASSUME NEW p \in PR, NEW c \in Commit, Synchronize(p, c)
      PROVE  prs' \in [PR -> [state : {"new", "open", "closed"}, head : Commit]] /\ HeadsOK'
  BY <1>1, <1>3 DEF Synchronize, Typed, HeadsOK
<1>4. ASSUME NEW i \in DOMAIN checks, CheckPr(i), ~UNCHANGED prs
      PROVE  \E p \in PR : prs' = [prs EXCEPT ![p].state = "closed"]
  <2>1. prs' = [prs EXCEPT ![checks[i].number].state = "closed"]
    BY <1>4 DEF CheckPr
  <2>2. checks[i].number \in PR
    BY <1>4, <2>1 DEF Typed
  <2> QED
    BY <2>1, <2>2
<1>5. UNCHANGED prs => prs' \in [PR -> [state : {"new", "open", "closed"}, head : Commit]] /\ HeadsOK'
  BY DEF Typed, HeadsOK
<1> QED
  BY <1>2, <1>3, <1>4, <1>5
  DEF Next, vars, OpenPR, ClosePR, Dispatch, ReadTrustedPolicy, resolveRequest, requireEligibility,
      FailCheck, Comment, CheckOut, ManageByIssue, FailManage, PushMain

\* The policy says something of everybody, whoever wrote it.
LEMMA PolicyTypes ==
    ASSUME Typed, [Next]_vars
    PROVE  policy' \in Seq([Author -> Standing]) /\ Len(policy') > 0
<1>1. policy \in Seq([Author -> Standing]) /\ Len(policy) > 0 /\ Last(policy) \in [Author -> Standing]
  BY DEF Typed, Last
<1>2. ASSUME NEW new \in [Author -> Standing], policy' = Append(policy, new)
      PROVE  policy' \in Seq([Author -> Standing]) /\ Len(policy') > 0
  BY <1>1, <1>2
<1>3. PushMain => policy' \in Seq([Author -> Standing]) /\ Len(policy') > 0
  BY <1>1, <1>2 DEF PushMain
<1>4. ASSUME NEW i \in DOMAIN manages, ManageByIssue(i), ~UNCHANGED policy
      PROVE  policy' \in Seq([Author -> Standing]) /\ Len(policy') > 0
  <2> DEFINE c == manages[i].comment
  <2>1. /\ c.verb # None
        /\ policy' = Append(policy, [Last(policy) EXCEPT ![c.target] = Granted(c.verb)])
    BY <1>4 DEF ManageByIssue
  <2>2. c \in Comments
    <3>1. manages[i] \in ManageRun
      BY DEF Typed
    <3> QED
      BY <3>1 DEF ManageRun
  <2>3. c.verb \in {"vouch", "unvouch", "denounce"}
    BY <2>1, <2>2, VouchAssumption DEF CommentOK
  <2>4. Granted(c.verb) \in Standing
    BY <2>3 DEF Granted, Standing
  <2>5. [Last(policy) EXCEPT ![c.target] = Granted(c.verb)] \in [Author -> Standing]
    BY <1>1, <2>4
  <2> QED
    BY <1>2, <2>1, <2>5
<1>5. UNCHANGED policy => policy' \in Seq([Author -> Standing]) /\ Len(policy') > 0
  BY <1>1
<1>6. \/ UNCHANGED policy \/ PushMain
      \/ \E i \in DOMAIN manages : ManageByIssue(i)
  BY ManageSteps DEF Comment, FailManage, CheckOut
<1> QED
  BY <1>3, <1>4, <1>5, <1>6

\* The invariant is inductive ...
LEMMA IInvStep == IInv /\ [Next]_vars => IInv'
BY PolicyTypes, RequestsStep, ChecksStep, CommandsStep DEF IInv, Typed

\* ... and holds at first.
LEMMA IInvInit == Init => IInv
<1> SUFFICES ASSUME Init
             PROVE  IInv
  OBVIOUS
<1>1. /\ policy = << [a \in Author |-> "unlisted"] >>
      /\ checks = <<>> /\ manages = <<>>
      /\ prs = [p \in PR |-> [state |-> "new", head |-> CHOOSE c \in Commit : OwnerOf[c] = p]]
  BY DEF Init
<1>2. \A p \in PR : /\ (CHOOSE c \in Commit : OwnerOf[c] = p) \in Commit
                    /\ OwnerOf[CHOOSE c \in Commit : OwnerOf[c] = p] = p
  BY VouchAssumption
<1>3. Typed
  <2>1. policy \in Seq([Author -> Standing]) /\ Len(policy) > 0
    BY <1>1 DEF Standing
  <2>2. checks \in Seq(Run) /\ manages \in Seq(ManageRun)
    BY <1>1
  <2>3. prs \in [PR -> [state : {"new", "open", "closed"}, head : Commit]]
    BY <1>1, <1>2
  <2> QED
    BY <2>1, <2>2, <2>3 DEF Typed
<1>4. HeadsOK
  BY <1>1, <1>2 DEF HeadsOK
<1>5. ChecksOK /\ GroupOK
  BY <1>1 DEF ChecksOK, GroupOK
<1>6. CommandsInOrder
  BY <1>1 DEF CommandsInOrder, Last
<1> QED
  BY <1>3, <1>4, <1>5, <1>6 DEF IInv

LEMMA AlwaysIInv == Spec => []IInv
BY IInvInit, IInvStep, PTL DEF Spec

\* What a check knows when it is green.
LEMMA GreenChecks == IInv => GreenCheckIsEligible /\ GreenCommitIsEligible
BY DEF IInv, ChecksOK, CheckOK, GreenCheckIsEligible, GreenCommitIsEligible

\* A check succeeds only for an author whom the default branch vouched for at
\* some time since the run started, however pushes, commands and other runs
\* overlap it (vouch-actions.ts requireEligibility).
THEOREM GreenChecksAreEligible == Spec => []GreenCheckIsEligible
BY AlwaysIInv, GreenChecks, PTL

\* The commit a green check marks is of an eligible author's request, also when
\* the run was started by hand with any request's number (validateDispatchedPR).
THEOREM GreenCommitsAreEligible == Spec => []GreenCommitIsEligible
BY AlwaysIInv, GreenChecks, PTL

\* The policy says of everybody what the last recorded command says: the
\* concurrency group keeps runs in the order of their comments (manageVouch).
THEOREM CommandsTakeEffectInOrder == Spec => []CommandsInOrder
<1>1. IInv => CommandsInOrder
  BY DEF IInv
<1> QED
  BY <1>1, AlwaysIInv, PTL
=============================================================================
