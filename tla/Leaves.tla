------------------------------- MODULE Leaves -------------------------------
(***************************************************************************)
(* Leaves of a workspace: how they come to be and how they end (leaves.rs, *)
(* lifecycle.rs, checks.rs, collection.rs).                                *)
(*                                                                         *)
(* A leaf is an identity at the authority, a directory, and a record.  A   *)
(* fork journals the three and fills the directory outside the session;    *)
(* its own lock tells recovery that it is alive.  A check works in a leaf  *)
(* of its own, which nobody may drop while the check's lock is taken.  A   *)
(* process may die anywhere; the next session finishes or undoes its work. *)
(***************************************************************************)
EXTENDS Supervise, Naturals

CONSTANTS
    Proc,                   \* coordinators
    MaxForks, MaxFailures   \* bounds: forks begun; kills and failures

VARIABLES
    active, next,  \* the authority's leaves, and its next identity
    leaves,        \* leaf records: directory and candidate to check, or None
    dirs,          \* checkouts that exist, named for the fork that made them
    forks, begun,  \* fork journals; forks begun
    drops,         \* drop journals: the record of the leaf to retire
    worker,        \* what each coordinator does next
    locks,         \* the coordinators that hold each check's lock
    session,       \* the holder of the workspace's lock and its step, or None
    failures

durable == <<active, next, leaves, dirs, forks, begun, drops>>
vars == <<durable, worker, locks, session, run, failures>>

\* The step that the holder of the workspace's lock takes next, what is left
\* of the loop it is in, and where a drop goes on when it is over.
ForkSteps == {"forks", "fork.path", "fork.leaf", "fork.forget"}
DropSteps == {"drop.authority", "drop.path", "drop.record", "drop.forget"}
MakeSteps == {"allocate", "allocated", "publish"}
Session == [proc : Proc, item : Nat \cup {None}, rest : SUBSET Nat,
            step : ForkSteps \cup DropSteps \cup MakeSteps \cup {"drops", "ready", "collect", "forked"},
            mode : {"forks", "drops", "collect", "end"}]

ASSUME NoneAssumption == None \notin Session \cup Candidate \cup Proc \cup Nat

Nothing == [x \in {} |-> None]
With(f, x, v) == [y \in DOMAIN f \cup {x} |-> IF y = x THEN v ELSE f[y]]
Without(f, x) == [y \in DOMAIN f \ {x} |-> f[y]]
Idle == [phase |-> "idle", fork |-> None, leaf |-> None, check |-> None]

Init ==
    /\ active = {} /\ next = 1 /\ leaves = Nothing /\ dirs = {}
    /\ forks = Nothing /\ begun = 0 /\ drops = Nothing
    /\ worker = [p \in Proc |-> Idle] /\ locks = [k \in Candidate |-> {}]
    /\ session = None /\ run = [k \in Candidate |-> None] /\ failures = 0

-----------------------------------------------------------------------------
\* Coordinators outside the session.

Begin(p, phase, leaf, check) ==
    /\ worker[p] = Idle
    /\ worker' = [worker EXCEPT ![p] = [phase |-> phase, fork |-> None, leaf |-> leaf, check |-> check]]
    /\ UNCHANGED <<durable, locks, session, run, failures>>

fork(p) == begun < MaxForks /\ Begin(p, "fork", None, None)
check(p, k) == begun < MaxForks /\ Begin(p, "read", None, k)
drop_leaf(p, l) == l \in DOMAIN leaves /\ Begin(p, "drop", l, None)
collect(p) == Begin(p, "collect", None, None)

Phase(p, phase) == worker' = [worker EXCEPT ![p].phase = phase]

\* A process ends: the kernel releases what it held.
Ends(p) ==
    /\ worker' = [worker EXCEPT ![p] = Idle]
    /\ locks' = [k \in Candidate |-> locks[k] \ {p}]
    /\ session' = IF session # None /\ session.proc = p THEN None ELSE session

\* It is killed, or a system call, Git, a full disk or a changed candidate fails it.
Fails(p) ==
    /\ worker[p] # Idle /\ failures < MaxFailures
    /\ Ends(p) /\ failures' = failures + 1
    /\ UNCHANGED <<durable, run>>

Free(k) == locks[k] = {} /\ ~Living(k)

\* The check's lock is tried once, without the session.
TakeLock(p) ==
    /\ worker[p].phase = "lock"
    /\ IF Free(worker[p].check)
       THEN /\ locks' = [locks EXCEPT ![worker[p].check] = {p}]
            /\ Phase(p, "fork") /\ UNCHANGED session
       ELSE Ends(p)  \* ValidationBusy
    /\ UNCHANGED <<durable, run, failures>>

Populate(p) ==
    /\ worker[p].phase = "populate"
    /\ Phase(p, "finish")
    /\ UNCHANGED <<durable, locks, session, run, failures>>

run_check(p) ==
    /\ worker[p].phase = "run"
    /\ run' = [run EXCEPT ![worker[p].check] = Command(worker[p].leaf)]
    /\ Phase(p, "wait")
    /\ UNCHANGED <<durable, locks, session, failures>>

\* The supervisor has ended, with the command's success or not.
Checked(p) ==
    LET k == worker[p].check
    IN  /\ worker[p].phase = "wait" /\ run[k].supervisor \in {"done", "killed"}
        /\ \/ Succeeded(k) /\ Phase(p, "seal") /\ UNCHANGED <<locks, session>>
           \/ Ends(p)
        /\ UNCHANGED <<durable, run, failures>>

-----------------------------------------------------------------------------
\* The session: first forks and drops are recovered, then the work begins.

At(step) == session # None /\ session.step = step
Holder == session.proc
item == session.item
Goes(step, rest, i, mode) ==
    session' = [proc |-> Holder, item |-> i, rest |-> rest, step |-> step, mode |-> mode]
Step(step) == Goes(step, session.rest, item, session.mode)

Lock(p) ==
    /\ session = None
    /\ worker[p].phase \in {"read", "fork", "finish", "install", "seal", "retire", "drop", "collect"}
    /\ session' = [proc |-> p, step |-> "forks", rest |-> DOMAIN forks, item |-> None, mode |-> "forks"]
    /\ UNCHANGED <<durable, worker, locks, run, failures>>

Leave(phase) == session' = None /\ Phase(Holder, phase)

\* A fork is alive while its coordinator holds the lock in its directory.
Alive(f) == \E p \in Proc : worker[p].fork = f

\* Mutant: a leaf is retired only when the journal names it.
AllocatedNamed(f) == IF forks[f].leaf # None THEN {forks[f].leaf} ELSE {}

\* The leaf of a journal that may have missed the authority's answer.
Allocated(f) ==
    IF forks[f].leaf # None THEN {forks[f].leaf} ELSE active \ forks[f].before

recover_fork(f) ==
    /\ At("forks") /\ f \in session.rest
    /\ Goes(IF Alive(f) THEN "forks"
            ELSE IF Allocated(f) \cap DOMAIN leaves # {} THEN "fork.forget"
            ELSE "fork.path", session.rest \ {f}, f, session.mode)
    /\ UNCHANGED <<durable, worker, locks, run, failures>>

\* abort_fork: the checkout goes, then the identity, then the journal.
RemoveFork ==
    /\ At("fork.path")
    /\ dirs' = dirs \ {item} /\ Step("fork.leaf")
    /\ UNCHANGED <<active, next, leaves, forks, begun, drops, worker, locks, run, failures>>

ReleaseFork ==
    /\ At("fork.leaf")
    /\ active' = active \ Allocated(item) /\ Step("fork.forget")
    /\ UNCHANGED <<next, leaves, dirs, forks, begun, drops, worker, locks, run, failures>>

ForgetFork ==
    /\ At("fork.forget")
    /\ forks' = Without(forks, item) /\ Step("forks")
    /\ UNCHANGED <<active, next, leaves, dirs, begun, drops, worker, locks, run, failures>>

ForksRecovered ==
    /\ At("forks") /\ session.rest = {}
    /\ Goes("drops", DOMAIN drops, item, "drops")
    /\ UNCHANGED <<durable, worker, locks, run, failures>>

\* Mutant: a check's leaf is dropped whoever holds the check's lock.
UnguardedCheck(leaf) == TRUE

\* check_guard: no process of the leaf's check lives; the lock is then held.
check_guard(leaf) == IF leaf.check = None THEN TRUE ELSE Free(leaf.check)

Guard(leaf) ==
    locks' = IF leaf.check = None THEN locks ELSE [locks EXCEPT ![leaf.check] = @ \cup {Holder}]

\* A recorded drop is finished, or the whole session fails.
recover_drop(l) ==
    /\ At("drops") /\ l \in session.rest
    /\ IF check_guard(drops[l])
       THEN /\ Guard(drops[l])
            /\ Goes("drop.authority", session.rest \ {l}, l, session.mode)
            /\ UNCHANGED worker
       ELSE Ends(Holder)
    /\ UNCHANGED <<durable, run, failures>>

DropsRecovered ==
    /\ At("drops") /\ session.rest = {}
    /\ Step("ready")
    /\ UNCHANGED <<durable, worker, locks, run, failures>>

\* finish_drop: the identity goes, then the checkout, the record, the journal.
DropAuthority ==
    /\ At("drop.authority")
    /\ active' = active \ {item} /\ Step("drop.path")
    /\ UNCHANGED <<next, leaves, dirs, forks, begun, drops, worker, locks, run, failures>>

DropPath ==
    /\ At("drop.path")
    /\ dirs' = dirs \ {drops[item].dir} /\ Step("drop.record")
    /\ UNCHANGED <<active, next, leaves, forks, begun, drops, worker, locks, run, failures>>

DropRecord ==
    /\ At("drop.record")
    /\ leaves' = Without(leaves, item) /\ Step("drop.forget")
    /\ UNCHANGED <<active, next, dirs, forks, begun, drops, worker, locks, run, failures>>

\* The guard ends with the drop.
DropForget ==
    LET k == drops[item].check
    IN  /\ At("drop.forget")
        /\ drops' = Without(drops, item)
        /\ IF session.mode = "end" THEN Ends(Holder)
           ELSE /\ Step(session.mode) /\ UNCHANGED worker
                /\ locks' = IF k = None THEN locks ELSE [locks EXCEPT ![k] = @ \ {Holder}]
        /\ UNCHANGED <<active, next, leaves, dirs, forks, begun, run, failures>>

-----------------------------------------------------------------------------
\* What coordinators do in a reconciled session.

Ready(phase) == At("ready") /\ worker[Holder].phase = phase

\* The guard is taken before the journal is written.
begin_drop(l, mode) ==
    /\ Guard(leaves[l])
    /\ drops' = With(drops, l, leaves[l])
    /\ Goes("drop.authority", session.rest \ {l}, l, mode)
    /\ UNCHANGED <<active, next, leaves, dirs, forks, begun, worker>>

\* Retires one leaf for drop_leaf, or retire_check unless it is gone already.
Retire ==
    LET l == worker[Holder].leaf
    IN  /\ Ready("drop") \/ Ready("retire")
        /\ IF l \in DOMAIN leaves /\ check_guard(leaves[l])
           THEN begin_drop(l, "end")
           ELSE Ends(Holder) /\ UNCHANGED durable
        /\ UNCHANGED <<run, failures>>

\* collect retires the leaves of checks, but not of those that live.
CollectChecks ==
    /\ Ready("collect")
    /\ Goes("collect", {l \in DOMAIN leaves : leaves[l].check # None}, item, "collect")
    /\ UNCHANGED <<durable, worker, locks, run, failures>>

CollectCheck(l) ==
    /\ At("collect") /\ l \in session.rest
    /\ IF check_guard(leaves[l])
       THEN begin_drop(l, "collect")
       ELSE /\ Goes("collect", session.rest \ {l}, item, "collect")
            /\ UNCHANGED <<durable, worker, locks>>
    /\ UNCHANGED <<run, failures>>

Collected ==
    /\ At("collect") /\ session.rest = {}
    /\ Ends(Holder)
    /\ UNCHANGED <<durable, run, failures>>

ReadPending ==
    /\ Ready("read")
    /\ Leave("lock")
    /\ UNCHANGED <<durable, locks, run, failures>>

\* prepare_fork: the journal, the identity, its name in the journal, the
\* checkout; then the session is released and the checkout filled.
BeginFork ==
    /\ Ready("fork") /\ begun < MaxForks
    /\ begun' = begun + 1
    /\ forks' = With(forks, begun', [before |-> active, leaf |-> None])
    /\ worker' = [worker EXCEPT ![Holder].fork = begun']
    /\ Goes("allocate", session.rest, begun', session.mode)
    /\ UNCHANGED <<active, next, leaves, dirs, drops, locks, run, failures>>

CreateLeaf ==
    /\ At("allocate")
    /\ active' = active \cup {next} /\ next' = next + 1 /\ Step("allocated")
    /\ UNCHANGED <<leaves, dirs, forks, begun, drops, worker, locks, run, failures>>

NameLeaf ==
    /\ At("allocated")
    /\ forks' = [forks EXCEPT ![item].leaf = next - 1]
    /\ worker' = [worker EXCEPT ![Holder].leaf = next - 1]
    /\ Step("publish")
    /\ UNCHANGED <<active, next, leaves, dirs, begun, drops, locks, run, failures>>

PublishDirectory ==
    /\ At("publish")
    /\ dirs' = dirs \cup {item} /\ Leave("populate")
    /\ UNCHANGED <<active, next, leaves, forks, begun, drops, locks, run, failures>>

\* finish_fork: the leaf is recorded if all of it is still there.
finish_fork ==
    LET w == worker[Holder]
    IN  /\ Ready("finish")
        /\ IF w.fork \in dirs /\ w.leaf \in active
           THEN /\ leaves' = With(leaves, w.leaf, [dir |-> w.fork, check |-> w.check])
                /\ Step("forked") /\ UNCHANGED <<worker, locks>>
           ELSE Ends(Holder) /\ UNCHANGED leaves
        /\ UNCHANGED <<active, next, dirs, forks, begun, drops, run, failures>>

Forked ==
    LET w == worker[Holder]
    IN  /\ At("forked")
        /\ forks' = Without(forks, w.fork)
        /\ session' = None
        /\ worker' = [worker EXCEPT ![Holder] =
                        IF w.check = None THEN Idle
                        ELSE [phase |-> "install", fork |-> None, leaf |-> w.leaf, check |-> w.check]]
        /\ UNCHANGED <<active, next, leaves, dirs, begun, drops, locks, run, failures>>

\* materialize_check writes the candidate into the checkout and the record.
\* The directory is named in the worker's leaf record, which it saves again.
materialize_check ==
    LET w == worker[Holder]
    IN  /\ Ready("install")
        /\ IF w.leaf \in DOMAIN leaves THEN Leave("run") /\ UNCHANGED locks
           ELSE Ends(Holder)
        /\ UNCHANGED <<durable, run, failures>>

\* The verdict is sealed, the check's lock released and its leaf retired.
seal_check ==
    LET w == worker[Holder]
    IN  /\ Ready("seal")
        /\ locks' = [locks EXCEPT ![w.check] = @ \ {Holder}]
        /\ Leave("retire")
        /\ UNCHANGED <<durable, run, failures>>

Sessions ==
    \/ RemoveFork \/ ReleaseFork \/ ForgetFork \/ ForksRecovered
    \/ DropsRecovered \/ DropAuthority \/ DropPath \/ DropRecord \/ DropForget
    \/ Retire \/ CollectChecks \/ Collected \/ ReadPending
    \/ BeginFork \/ CreateLeaf \/ NameLeaf \/ PublishDirectory
    \/ finish_fork \/ Forked \/ materialize_check \/ seal_check
    \/ \E f \in 1..MaxForks : recover_fork(f) \/ recover_drop(f) \/ CollectCheck(f)

Commands(k) ==
    \/ Supervised(k) /\ UNCHANGED <<durable, worker, locks, session, failures>>
    \/ /\ SupervisorDies(k) /\ failures < MaxFailures /\ failures' = failures + 1
       /\ UNCHANGED <<durable, worker, locks, session>>

Next ==
    \/ Sessions
    \/ \E p \in Proc :
          \/ fork(p) \/ collect(p) \/ Fails(p) \/ TakeLock(p) \/ Populate(p) \/ run_check(p)
          \/ Checked(p) \/ Lock(p)
          \/ \E k \in Candidate : check(p, k)
          \/ \E l \in 1..MaxForks : drop_leaf(p, l)
    \/ \E k \in Candidate : Commands(k)

Spec == Init /\ [][Next]_vars /\ \A k \in Candidate : SuperviseFairness(k)

-----------------------------------------------------------------------------
\* Once a session has reconciled, nothing is lost or left over of any fork or
\* drop that was cut short: every identity and every checkout belongs to a
\* recorded leaf or to a journaled fork (leaves.rs recover_forks, lifecycle.rs
\* recover_drops).
LeavesAgree ==
    At("ready") =>
        /\ \A f \in DOMAIN forks : forks[f].leaf # None
        /\ active = DOMAIN leaves \cup {forks[f].leaf : f \in DOMAIN forks}
        /\ dirs = {leaves[l].dir : l \in DOMAIN leaves} \cup DOMAIN forks

\* While the command of a check or a descendant of it lives, its leaf is
\* whole and nobody has begun to retire it, whichever of the coordinator and
\* the supervisor died (lifecycle.rs check_guard).
RunningCheckKeepsLeaf ==
    \A k \in Candidate :
        Living(k) => LET l == run[k].leaf
                     IN  /\ l \in active /\ l \in DOMAIN leaves /\ l \notin DOMAIN drops
                         /\ leaves[l].dir \in dirs

\* The timeout ends every command, with all its descendants, unless somebody
\* kills the supervisor: its coordinator may be long gone (supervise.rs run).
CommandsEnd ==
    \A k \in Candidate : Living(k) ~> (~Living(k) \/ run[k].supervisor = "killed")
=============================================================================
