------------------------------- MODULE Vouch --------------------------------
(***************************************************************************)
(* Contributor access (ci/vouch.ts, ci/vouch-actions.ts).                  *)
(*                                                                         *)
(* "Vouch: Check PR" decides whether the author of a pull request may      *)
(* contribute; "Vouch: Manage" turns comments into the policy file         *)
(* VOUCHED.td of the default branch.  Runs of the two overlap freely, with *)
(* new pushes, closed and reopened requests, and failures of any step.     *)
(* What check-pr and manage-by-issue do, and how the service queues runs   *)
(* of one concurrency group, is taken from how these workflows use them.   *)
(***************************************************************************)
EXTENDS Naturals, Sequences, SequencesExt

CONSTANTS Author, Collaborator,  \* contributors, and those with a role
          PR, AuthorOf, Fork,    \* pull requests, their authors, those from forks
          Commit, OwnerOf,       \* commits and the request whose branch they are on
          Carries,               \* the VOUCHED.td each commit carries
          None,
          Comments,              \* the comments people write
          Budgets                \* bounds: runs of each workflow, other pushes

\* A comment that is no command, or whose author has no role, has the verb None.
CommentOK(c) == c.verb \in {"vouch", "unvouch", "denounce", None} /\ c.target \in Author
                /\ c.onPR \in BOOLEAN

Standing == {"vouched", "denounced", "unlisted"}

ASSUME VouchAssumption ==
    /\ Collaborator \subseteq Author /\ Fork \subseteq PR
    /\ AuthorOf \in [PR -> Author] /\ OwnerOf \in [Commit -> PR]
    /\ \A p \in PR : \E c \in Commit : OwnerOf[c] = p  \* its branch has a head
    /\ Carries \in [Commit -> [Author -> Standing]]
    /\ \A c \in Comments : CommentOK(c)

VARIABLES policy,   \* VOUCHED.td in every commit of the default branch so far
          pushes,   \* other pushes to the default branch left
          prs,      \* state and head of every pull request
          checks,   \* runs of checkVouch
          manages,  \* runs of manageVouch, in the order of their comments
          budget

vars == <<policy, pushes, prs, checks, manages, budget>>

Init ==
    /\ policy = << [a \in Author |-> "unlisted"] >>
    /\ prs = [p \in PR |-> [state |-> "new", head |-> CHOOSE c \in Commit : OwnerOf[c] = p]]
    /\ checks = <<>> /\ manages = <<>>
    /\ budget \in Budgets
    /\ pushes = budget.pushes

NewCheck(event, number, sha) ==
    /\ Len(checks) < budget.checks
    /\ checks' = Append(checks, [event |-> event, number |-> number, sha |-> sha,
                                 since |-> Len(policy), read |-> None,
                                 status |-> None, stage |-> "queued"])

\* pull_request_target: opened, reopened, synchronize.
OpenPR(p) ==
    /\ prs[p].state # "open"
    /\ prs' = [prs EXCEPT ![p].state = "open"]
    /\ NewCheck("pull_request_target", p, prs[p].head)
    /\ UNCHANGED <<policy, pushes, manages, budget>>

Synchronize(p, c) ==
    /\ OwnerOf[c] = p /\ c # prs[p].head
    /\ prs' = [prs EXCEPT ![p].head = c]
    /\ IF prs[p].state = "open" THEN NewCheck("pull_request_target", p, c) ELSE UNCHANGED checks
    /\ UNCHANGED <<policy, pushes, manages, budget>>

ClosePR(p) ==
    /\ prs[p].state = "open"
    /\ prs' = [prs EXCEPT ![p].state = "closed"]
    /\ UNCHANGED <<policy, pushes, checks, manages, budget>>

\* workflow_dispatch on a branch of this repository, with any input.
Dispatch(p, number) ==
    /\ p \notin Fork
    /\ NewCheck("workflow_dispatch", number, prs[p].head)
    /\ UNCHANGED <<policy, pushes, prs, manages, budget>>

-----------------------------------------------------------------------------
\* The steps of one check.
Advance(i, stage) == checks[i].stage = stage /\ UNCHANGED <<policy, pushes, manages, budget>>

\* Mutant: the policy is read from the contributor's checkout.
ReadHeadPolicy(i) ==
    /\ Advance(i, "queued")
    /\ checks' = [checks EXCEPT ![i].stage = "trusted", ![i].read = Carries[checks[i].sha]]
    /\ UNCHANGED prs

\* checkout of the default branch.
ReadTrustedPolicy(i) ==
    /\ Advance(i, "queued")
    /\ checks' = [checks EXCEPT ![i].stage = "trusted", ![i].read = Last(policy)]
    /\ UNCHANGED prs

\* Mutant: any open request of the repository will do.
ValidateOpen(number, sha) == prs[number].state = "open" /\ number \notin Fork

\* The request named must be open, from this repository, and at this commit now.
validateDispatchedPR(number, sha) ==
    prs[number].state = "open" /\ prs[number].head = sha /\ number \notin Fork

resolveRequest(i) ==
    /\ Advance(i, "trusted")
    /\ checks[i].number \in PR  \* requestedNumber: a positive integer
    /\ checks[i].event = "workflow_dispatch" =>
           validateDispatchedPR(checks[i].number, checks[i].sha)
    /\ checks' = [checks EXCEPT ![i].stage = "resolved"]
    /\ UNCHANGED prs

\* check-pr reads the policy checked out, or the default branch's once more,
\* and closes the request of an author who may not contribute.
CheckPr(i) ==
    /\ Advance(i, "resolved")
    /\ \E read \in {checks[i].read, Last(policy)} :
        LET a == AuthorOf[checks[i].number]
            status == IF a \in Collaborator THEN "skipped" ELSE read[a]
        IN  /\ checks' = [checks EXCEPT ![i].stage = "judged", ![i].status = status]
            /\ prs' = IF status \in {"skipped", "vouched"} \/ prs[checks[i].number].state # "open"
                      THEN prs ELSE [prs EXCEPT ![checks[i].number].state = "closed"]

\* Any step may fail; resolveRequest and requireEligibility do by throwing.
FailCheck(i) ==
    /\ checks[i].stage \notin {"success", "failure"}
    /\ checks' = [checks EXCEPT ![i].stage = "failure"]
    /\ UNCHANGED <<policy, pushes, prs, manages, budget>>

\* Mutant: only a denounced author is refused.
requireNotDenounced(i) ==
    /\ Advance(i, "judged")
    /\ checks[i].status # "denounced"
    /\ checks' = [checks EXCEPT ![i].stage = "success"]
    /\ UNCHANGED prs

requireEligibility(i) ==
    /\ Advance(i, "judged")
    /\ checks[i].status \in {"vouched", "skipped"}
    /\ checks' = [checks EXCEPT ![i].stage = "success"]
    /\ UNCHANGED prs

-----------------------------------------------------------------------------
InProgress == {"started", "ready"}

\* Mutant: the workflow names no concurrency group.
NoGroup == FALSE

\* Concurrency group vouch-manage, cancel-in-progress: false.
GroupBusy == \E i \in DOMAIN manages : manages[i].stage \in InProgress

\* A comment is created.  While a run is in progress the new one waits, and
\* takes the place of the one that waited before it.
Comment(c) ==
    /\ Len(manages) < budget.comments
    /\ LET waiting == {i \in DOMAIN manages : manages[i].stage = "waiting"}
           run == [comment |-> c, base |-> 0, stage |-> IF GroupBusy THEN "waiting" ELSE "started"]
       IN  manages' = Append([i \in DOMAIN manages |->
                                 IF i \in waiting THEN [manages[i] EXCEPT !.stage = "cancelled"]
                                                  ELSE manages[i]], run)
    /\ UNCHANGED <<policy, pushes, prs, checks, budget>>

\* A run ends and the one that waits, if any, starts.
EndManage(i, stage) ==
    manages' = [k \in DOMAIN manages |->
                  CASE k = i -> [manages[k] EXCEPT !.stage = stage]
                    [] manages[k].stage = "waiting" -> [manages[k] EXCEPT !.stage = "started"]
                    [] OTHER -> manages[k]]

\* The job is skipped on pull requests; elsewhere it checks out the default branch.
CheckOut(i) ==
    /\ manages[i].stage = "started"
    /\ IF manages[i].comment.onPR THEN EndManage(i, "skipped")
       ELSE manages' = [manages EXCEPT ![i].stage = "ready", ![i].base = Len(policy)]
    /\ UNCHANGED <<policy, pushes, prs, checks, budget>>

Granted(verb) == CASE verb = "vouch" -> "vouched"
                   [] verb = "denounce" -> "denounced"
                   [] verb = "unvouch" -> "unlisted"

\* manage-by-issue: a command becomes a commit on top of the checkout; its
\* push is refused when the branch moved meanwhile.
ManageByIssue(i) ==
    LET c == manages[i].comment IN
    /\ manages[i].stage = "ready"
    /\ \/ c.verb = None /\ EndManage(i, "idle") /\ UNCHANGED policy
       \/ /\ c.verb # None /\ manages[i].base = Len(policy)
          /\ policy' = Append(policy, [Last(policy) EXCEPT ![c.target] = Granted(c.verb)])
          /\ EndManage(i, "recorded")
    /\ UNCHANGED <<pushes, prs, checks, budget>>

FailManage(i) ==
    /\ manages[i].stage \in InProgress
    /\ EndManage(i, "failed")
    /\ UNCHANGED <<policy, pushes, prs, checks, budget>>

\* Another push to the default branch leaves the policy file alone.
PushMain ==
    /\ pushes > 0
    /\ pushes' = pushes - 1
    /\ policy' = Append(policy, Last(policy))
    /\ UNCHANGED <<prs, checks, manages, budget>>

-----------------------------------------------------------------------------
Next ==
    \/ \E p \in PR : OpenPR(p) \/ ClosePR(p)
    \/ \E p \in PR, c \in Commit : Synchronize(p, c)
    \/ \E p \in PR, number \in PR \cup {None} : Dispatch(p, number)
    \/ \E i \in DOMAIN checks :
          ReadTrustedPolicy(i) \/ resolveRequest(i) \/ CheckPr(i)
          \/ requireEligibility(i) \/ FailCheck(i)
    \/ \E c \in Comments : Comment(c)
    \/ \E i \in DOMAIN manages : CheckOut(i) \/ ManageByIssue(i) \/ FailManage(i)
    \/ PushMain

Spec == Init /\ [][Next]_vars

MayContribute(a, since) ==
    a \in Collaborator \/ \E k \in since..Len(policy) : policy[k][a] = "vouched"

\* A check succeeds only for an author whom the default branch vouched for at
\* some time since the run started: not by the policy the request carries, nor
\* by an older one (ci/README, "Trusted Vouch code").
GreenCheckIsEligible ==
    \A i \in DOMAIN checks :
        checks[i].stage = "success" => MayContribute(AuthorOf[checks[i].number], checks[i].since)

\* The commit that carries a green check belongs to a request whose author was
\* eligible: a manual run cannot mark one branch with another request's number
\* (CONTRIBUTING, "The check rejects a different branch or commit").
GreenCommitIsEligible ==
    \A i \in DOMAIN checks :
        checks[i].stage = "success" => MayContribute(AuthorOf[OwnerOf[checks[i].sha]], checks[i].since)

\* Commands take effect in the order of their comments: what the policy says of
\* an author is the last recorded command about it, whatever was cancelled,
\* failed or refused and however the runs and other pushes overlapped.
CommandsInOrder ==
    \A a \in Author :
        LET about == {i \in DOMAIN manages :
                        manages[i].stage = "recorded" /\ manages[i].comment.target = a}
        IN  IF about = {} THEN Last(policy)[a] = policy[1][a]
            ELSE \E i \in about : /\ \A k \in about : k <= i
                                  /\ Last(policy)[a] = Granted(manages[i].comment.verb)
=============================================================================
