---------------------------- MODULE LeavesProofs ----------------------------
(***************************************************************************)
(* What Leaves promises, proved for any coordinators and candidates, any   *)
(* number of forks and failures.                                           *)
(*                                                                         *)
(* The difficulty is in what a process that died left behind.  The         *)
(* invariant says, for every journaled fork, who will still finish or undo *)
(* it, and, for every identity and every checkout, what accounts for it.   *)
(* The second theorem adds who holds a check's lock and why its leaf is    *)
(* out of the reach of every drop.                                         *)
(***************************************************************************)
EXTENDS Leaves, TLAPS

\* The phases of a coordinator, and the shapes of records, journals and runs.
SessionPhases == {"read", "fork", "finish", "install", "seal", "retire", "drop", "collect"}
Phases == SessionPhases \cup {"idle", "lock", "populate", "run", "wait"}
LeafRecord == [dir : Nat, check : Candidate \cup {None}]
ForkRecord == [before : SUBSET Nat, leaf : Nat \cup {None}]
Worker == [phase : Phases, fork : Nat \cup {None}, leaf : Nat \cup {None}, check : Candidate \cup {None}]
Run == [leaf : Nat \cup {None}, supervisor : {"monitor", "terminate", "done", "killed"},
        leader : {"alive", "exited"}, members : BOOLEAN, over : BOOLEAN,
        outcome : {None, "exited", "cut"}]

\* The session is at one of these steps.
In(steps) == session # None /\ session.step \in steps

\* Types.  A session's holder is a coordinator that works in one.
TypedData ==
    /\ next \in Nat \ {0} /\ begun \in Nat
    /\ active \subseteq Nat /\ dirs \subseteq 1..begun
    /\ DOMAIN leaves \subseteq Nat /\ (\A l \in DOMAIN leaves : leaves[l] \in LeafRecord)
    /\ DOMAIN drops \subseteq Nat /\ (\A l \in DOMAIN drops : drops[l] \in LeafRecord)
    /\ DOMAIN forks \subseteq 1..begun /\ (\A f \in DOMAIN forks : forks[f] \in ForkRecord)
TypedRun == run \in [Candidate -> Run \cup {None}]
TypedLocks == locks \in [Candidate -> SUBSET Proc]
TypedWorkers == worker \in [Proc -> Worker]
TypedSession == session # None => session \in Session
Holders == session # None => worker[Holder].phase \in SessionPhases
Typed == TypedData /\ TypedRun /\ TypedLocks /\ TypedWorkers /\ TypedSession /\ Holders

\* An identity is given out once.
Fresh ==
    /\ \A l \in active \cup DOMAIN leaves \cup DOMAIN drops : l < next
    /\ \A f \in DOMAIN forks : forks[f].leaf # None => forks[f].leaf < next

\* No two journals and no two records share an identity or a directory, and
\* a journaled fork's directory belongs to its own leaf only.
Distinct ==
    /\ \A f, g \in DOMAIN forks : forks[f].leaf = forks[g].leaf /\ forks[f].leaf # None => f = g
    /\ \A l, m \in DOMAIN leaves : leaves[l].dir = leaves[m].dir => l = m
    /\ \A l \in DOMAIN leaves :
          /\ leaves[l].dir \in 1..begun
          /\ leaves[l].dir \in DOMAIN forks => forks[leaves[l].dir].leaf = l
          /\ \A f \in DOMAIN forks : forks[f].leaf = l => leaves[l].dir = f

\* A leaf that is being dropped has no fork any more, and its record, while
\* it is there, is the journaled one.
DropsDistinct ==
    \A l \in DOMAIN drops :
          /\ drops[l].dir \in 1..begun \ DOMAIN forks
          /\ \A f \in DOMAIN forks : forks[f].leaf # l
          /\ l \in DOMAIN leaves => leaves[l] = drops[l]
          /\ \A m \in DOMAIN leaves : leaves[m].dir = drops[l].dir => l = m

\* What the authority gave out after a nameless journal began is known to
\* nobody else: an aborted fork may release all of it.
Nameless ==
    \A f \in DOMAIN forks : forks[f].leaf = None =>
        \A l \in active \ forks[f].before :
            /\ l \notin DOMAIN leaves /\ l \notin DOMAIN drops
            /\ \A g \in DOMAIN forks : forks[g].leaf # l

\* A fork's checkout and identity exist and its leaf is not recorded yet.
Whole(f) == f \in dirs /\ forks[f].leaf \in active /\ forks[f].leaf \notin DOMAIN leaves

\* The session's holder is preparing or finishing this fork.
Making(f) == In(MakeSteps \cup {"forked"}) /\ worker[Holder].fork = f

\* This session, if any, will still recover the fork.
Unrecovered(f) ==
    session # None => /\ session.step \in ForkSteps
                      /\ f \in session.rest \/ (f = item /\ session.step # "forks")

\* Every journaled fork is whole, in the making, or dead and to be recovered.
ForksOK == \A f \in DOMAIN forks : Whole(f) \/ Making(f) \/ (~Alive(f) /\ Unrecovered(f))

\* A live fork has one coordinator, which knows the leaf its journal names.
WorkersOK ==
    \A p \in Proc :
        /\ worker[p].fork # None =>
            /\ worker[p].fork \in DOMAIN forks
            /\ \A q \in Proc : worker[q].fork = worker[p].fork => p = q
            /\ \/ /\ worker[p].phase \in {"populate", "finish"}
                  /\ worker[p].leaf = forks[worker[p].fork].leaf /\ worker[p].leaf # None
               \/ In(MakeSteps) /\ Holder = p
        /\ worker[p].phase \in {"populate", "finish"} => worker[p].fork # None
        /\ worker[p].phase \in {"read", "lock", "install", "run", "wait", "seal", "retire"} => worker[p].check # None

\* The fork in the making: what its holder has done of it.
MakingOK ==
    In(MakeSteps) =>
        /\ worker[Holder].phase = "fork" /\ worker[Holder].fork = item /\ item = begun
        /\ item \in DOMAIN forks
        /\ session.step \in {"allocate", "allocated"} => forks[item].leaf = None
        /\ session.step = "allocate" => active \subseteq forks[item].before /\ forks[item].before \subseteq active
        /\ session.step = "allocated" =>
            /\ next - 1 \in active \ forks[item].before
            /\ \A l \in active : l \in forks[item].before \/ l = next - 1
            /\ next - 1 \notin DOMAIN leaves /\ next - 1 \notin DOMAIN drops
            /\ \A f \in DOMAIN forks : forks[f].leaf # next - 1
        /\ session.step = "publish" =>
            /\ forks[item].leaf = worker[Holder].leaf
            /\ forks[item].leaf \in active \ DOMAIN leaves

\* The fork being finished has its record.
ForkedOK ==
    At("forked") => LET w == worker[Holder] IN
        /\ w.phase = "finish" /\ w.fork \in dirs /\ w.leaf \in active
        /\ w.leaf \in DOMAIN leaves /\ leaves[w.leaf] = [dir |-> w.fork, check |-> w.check]

\* The fork being aborted or forgotten is dead, and what is removed for it is
\* no recorded leaf's.
RecoveringOK ==
    /\ In(ForkSteps) => session.rest \subseteq DOMAIN forks
    /\ In(ForkSteps \ {"forks"}) =>
        /\ item \in DOMAIN forks /\ item \notin session.rest /\ ~Alive(item)
    /\ In({"fork.path", "fork.leaf"}) => \A l \in Allocated(item) : l \notin DOMAIN leaves
    /\ At("fork.leaf") => item \notin dirs
    /\ At("fork.forget") =>
            /\ \A l \in Allocated(item) : l \in active => l \in DOMAIN leaves
            /\ item \in dirs => \E l \in DOMAIN leaves : leaves[l].dir = item

\* The drop under way, and what it has removed.  Without one, no drop is
\* journaled once the session is reconciled.
DropsOK ==
    /\ At("drops") => session.mode = "drops" /\ session.rest \subseteq DOMAIN drops /\ DOMAIN drops \subseteq session.rest
    /\ In(DropSteps) =>
        /\ item \in DOMAIN drops
        /\ session.mode # "forks"
        /\ session.mode = "drops" =>
            /\ session.rest \subseteq DOMAIN drops \ {item}
            /\ \A l \in DOMAIN drops : l \in session.rest \/ l = item
        /\ session.mode # "drops" => \A l \in DOMAIN drops : l = item
        /\ session.mode = "end" => worker[Holder].phase \in {"drop", "retire"}
        /\ session.mode = "collect" =>
            worker[Holder].phase = "collect" /\ session.rest \subseteq DOMAIN leaves \ {item}
    /\ In(DropSteps \ {"drop.authority"}) => item \notin active
    /\ In({"drop.record", "drop.forget"}) => drops[item].dir \notin dirs
    /\ At("drop.forget") => item \notin DOMAIN leaves
    /\ In({"ready", "collect", "forked"} \cup MakeSteps) => \A l \in DOMAIN drops : FALSE
    /\ At("collect") => session.mode = "collect" /\ worker[Holder].phase = "collect"
                        /\ session.rest \subseteq DOMAIN leaves

\* Identities and checkouts are accounted for by records and journals, and a
\* record that is not being dropped has both.
Accounted ==
    /\ \A l \in active : l \in DOMAIN leaves \/ \E f \in DOMAIN forks : l \in Allocated(f)
    /\ \A l \in DOMAIN leaves : l \in active \/ l \in DOMAIN drops
    /\ \A d \in dirs : d \in DOMAIN forks \/ \E l \in DOMAIN leaves : leaves[l].dir = d
    /\ \A l \in DOMAIN leaves : l \in DOMAIN drops \/ leaves[l].dir \in dirs

\* A coordinator that works in a check's leaf holds the check's lock, and the
\* guard of a drop is not such a hold.
Holding == {"fork", "populate", "finish", "install", "run", "wait", "seal"}
Holds(p, k) == worker[p].phase \in Holding /\ worker[p].check = k
LocksOK ==
    /\ \A p \in Proc : worker[p].phase \in Holding /\ worker[p].check # None => p \in locks[worker[p].check]
    /\ In(DropSteps) /\ drops[item].check # None => ~Holds(Holder, drops[item].check)

\* A leaf of the check, recorded, with its identity, and not being dropped.
Works(l, k) ==
    l \in active /\ l \in DOMAIN leaves /\ l \notin DOMAIN drops /\ leaves[l].check = k

\* A coordinator about to run the check has its leaf.
WorksOK ==
    \A p \in Proc : worker[p].phase \in {"install", "run"} => Works(worker[p].leaf, worker[p].check)

\* So has a living command; a supervisor that is done left none behind.
RunOK ==
    \A k \in Candidate :
        /\ Living(k) => Works(run[k].leaf, k)
        /\ run[k] # None /\ run[k].supervisor = "done" => run[k].leader # "alive" /\ ~run[k].members

IInv ==
    /\ Typed /\ Fresh /\ Distinct /\ DropsDistinct /\ Nameless /\ ForksOK /\ WorkersOK
    /\ MakingOK /\ ForkedOK /\ RecoveringOK /\ DropsOK /\ Accounted /\ LocksOK /\ WorksOK /\ RunOK

-----------------------------------------------------------------------------
\* What a step may do to what is stored.
LEMMA DurableSteps ==
    ASSUME [Next]_vars
    PROVE  \/ UNCHANGED durable
           \/ RemoveFork \/ ReleaseFork \/ ForgetFork
           \/ DropAuthority \/ DropPath \/ DropRecord \/ DropForget
           \/ Retire \/ \E f \in 1..MaxForks : CollectCheck(f)
           \/ BeginFork \/ CreateLeaf \/ NameLeaf \/ PublishDirectory
           \/ finish_fork \/ Forked
<1>1. ASSUME NEW p \in Proc,
             \/ fork(p) \/ collect(p) \/ (\E k \in Candidate : check(p, k))
             \/ (\E l \in 1..MaxForks : drop_leaf(p, l))
      PROVE  UNCHANGED durable
  BY <1>1 DEF fork, collect, check, drop_leaf, Begin
<1>2. ASSUME NEW p \in Proc,
             Fails(p) \/ TakeLock(p) \/ Populate(p) \/ run_check(p) \/ Checked(p) \/ Lock(p)
      PROVE  UNCHANGED durable
  BY <1>2 DEF Fails, TakeLock, Populate, run_check, Checked, Lock
<1>3. ASSUME NEW f \in 1..MaxForks, recover_fork(f) \/ recover_drop(f)
      PROVE  UNCHANGED durable
  BY <1>3 DEF recover_fork, recover_drop
<1>4. CASE \/ ForksRecovered \/ DropsRecovered \/ CollectChecks \/ Collected
           \/ ReadPending \/ materialize_check \/ seal_check
  BY <1>4 DEF ForksRecovered, DropsRecovered, CollectChecks, Collected, ReadPending,
              materialize_check, seal_check
<1>5. ASSUME NEW k \in Candidate, Commands(k)
      PROVE  UNCHANGED durable
  BY <1>5 DEF Commands
<1> QED
  BY <1>1, <1>2, <1>3, <1>4, <1>5 DEF Next, Sessions, vars

\* Records and journals keep their shapes.
LEMMA DataStep ==
    ASSUME TypedData, TypedWorkers, TypedSession, WorkersOK, MakingOK,
           RecoveringOK, DropsOK, [Next]_vars
    PROVE  TypedData'
<1> USE NoneAssumption DEF vars, durable, Session, ForkSteps, DropSteps,
       MakeSteps, SessionPhases, Phases, LeafRecord, ForkRecord, Worker, Run,
       In, At, Holder, item, Step, Goes, Phase, Leave, Ends, With, Without,
       Idle, TypedData, TypedWorkers, TypedSession, WorkersOK, MakingOK,
       RecoveringOK, DropsOK
<1>1. CASE UNCHANGED durable
  BY <1>1
<1>2. CASE RemoveFork
  BY <1>2 DEF RemoveFork
<1>3. CASE ReleaseFork
  BY <1>3 DEF ReleaseFork
<1>4. CASE ForgetFork
  BY <1>4 DEF ForgetFork
<1>5. CASE DropAuthority
  BY <1>5 DEF DropAuthority
<1>6. CASE DropPath
  BY <1>6 DEF DropPath
<1>7. CASE DropRecord
  BY <1>7 DEF DropRecord
<1>8. CASE DropForget
  BY <1>8 DEF DropForget
<1>9. CASE Retire
  BY <1>9, SMTT(30) DEF Retire, begin_drop, check_guard, Guard, Free, Ready
<1>10. ASSUME NEW f \in 1..MaxForks, CollectCheck(f)
      PROVE  TypedData'
  BY <1>10 DEF CollectCheck, begin_drop, check_guard, Guard, Free
<1>11. CASE BeginFork
  BY <1>11 DEF BeginFork, Ready
<1>12. CASE CreateLeaf
  BY <1>12 DEF CreateLeaf
<1>13. CASE NameLeaf
  BY <1>13 DEF NameLeaf
<1>14. CASE PublishDirectory
  BY <1>14 DEF PublishDirectory
<1>15. CASE finish_fork
  BY <1>15 DEF finish_fork, Ready
<1>16. CASE Forked
  BY <1>16 DEF Forked
<1> QED
  BY DurableSteps, <1>1, <1>2, <1>3, <1>4, <1>5, <1>6, <1>7, <1>8, <1>9, <1>10,
     <1>11, <1>12, <1>13, <1>14, <1>15, <1>16

\* So do the coordinators.
LEMMA WorkersTypes ==
    ASSUME TypedData, TypedWorkers, TypedSession, WorkersOK, [Next]_vars
    PROVE  TypedWorkers'
<1> USE NoneAssumption DEF vars, durable, Session, ForkSteps, DropSteps,
       MakeSteps, SessionPhases, Phases, LeafRecord, ForkRecord, Worker, Run,
       In, At, Holder, item, Step, Goes, Phase, Leave, Ends, With, Without,
       Idle, TypedData, TypedWorkers, TypedSession, WorkersOK
<1>1. CASE UNCHANGED vars
  BY <1>1
<1>2. ASSUME NEW p \in Proc,
        fork(p) \/ collect(p) \/ (\E k \in Candidate : check(p, k)) \/ (\E l \in 1..MaxForks : drop_leaf(p, l))
      PROVE  TypedWorkers'
  BY <1>2 DEF fork, collect, check, drop_leaf, Begin
<1>3. ASSUME NEW p \in Proc, Fails(p)
      PROVE  TypedWorkers'
  BY <1>3 DEF Fails
<1>4. ASSUME NEW p \in Proc, TakeLock(p)
      PROVE  TypedWorkers'
  BY <1>4 DEF TakeLock, Free
<1>5. ASSUME NEW p \in Proc, Populate(p)
      PROVE  TypedWorkers'
  BY <1>5 DEF Populate
<1>6. ASSUME NEW p \in Proc, run_check(p)
      PROVE  TypedWorkers'
  BY <1>6 DEF run_check, Command
<1>7. ASSUME NEW p \in Proc, Checked(p)
      PROVE  TypedWorkers'
  BY <1>7 DEF Checked, Succeeded
<1>8. ASSUME NEW p \in Proc, Lock(p)
      PROVE  TypedWorkers'
  BY <1>8 DEF Lock
<1>9. ASSUME NEW f \in 1..MaxForks, recover_fork(f)
      PROVE  TypedWorkers'
  BY <1>9 DEF recover_fork
<1>10. CASE RemoveFork
  BY <1>10 DEF RemoveFork
<1>11. CASE ReleaseFork
  BY <1>11 DEF ReleaseFork
<1>12. CASE ForgetFork
  BY <1>12 DEF ForgetFork
<1>13. CASE ForksRecovered
  BY <1>13 DEF ForksRecovered
<1>14. ASSUME NEW f \in 1..MaxForks, recover_drop(f)
      PROVE  TypedWorkers'
  BY <1>14 DEF recover_drop, check_guard, Guard, Free
<1>15. CASE DropsRecovered
  BY <1>15 DEF DropsRecovered
<1>16. CASE DropAuthority
  BY <1>16 DEF DropAuthority
<1>17. CASE DropPath
  BY <1>17 DEF DropPath
<1>18. CASE DropRecord
  BY <1>18 DEF DropRecord
<1>19. CASE DropForget
  BY <1>19 DEF DropForget
<1>20. CASE Retire
  BY <1>20, SMTT(30) DEF Retire, begin_drop, check_guard, Guard, Free, Ready
<1>21. CASE CollectChecks
  BY <1>21 DEF CollectChecks, Ready
<1>22. ASSUME NEW f \in 1..MaxForks, CollectCheck(f)
      PROVE  TypedWorkers'
  BY <1>22 DEF CollectCheck, begin_drop, check_guard, Guard, Free
<1>23. CASE Collected
  BY <1>23 DEF Collected, Ready
<1>24. CASE ReadPending
  BY <1>24 DEF ReadPending, Ready
<1>25. CASE BeginFork
  BY <1>25 DEF BeginFork, Ready
<1>26. CASE CreateLeaf
  BY <1>26 DEF CreateLeaf
<1>27. CASE NameLeaf
  BY <1>27 DEF NameLeaf
<1>28. CASE PublishDirectory
  BY <1>28 DEF PublishDirectory
<1>29. CASE finish_fork
  BY <1>29 DEF finish_fork, Ready
<1>30. CASE Forked
  BY <1>30 DEF Forked
<1>31. CASE materialize_check
  BY <1>31 DEF materialize_check, Ready
<1>32. CASE seal_check
  BY <1>32 DEF seal_check, Ready
<1>33. ASSUME NEW k \in Candidate, Commands(k)
      PROVE  TypedWorkers'
  BY <1>33 DEF Commands, Supervised, SupervisorDies, ForkMember, LeaderExits,
     MembersExit, LimitPasses, monitor, terminate
<1> QED
  BY <1>1, <1>2, <1>3, <1>4, <1>5, <1>6, <1>7, <1>8, <1>9, <1>10, <1>11, <1>12,
     <1>13, <1>14, <1>15, <1>16, <1>17, <1>18, <1>19, <1>20, <1>21, <1>22,
     <1>23, <1>24, <1>25, <1>26, <1>27, <1>28, <1>29, <1>30, <1>31, <1>32,
     <1>33 DEF Next, Sessions

\* So does the session.
LEMMA SessionTypes ==
    ASSUME TypedData, TypedSession, DropsOK, [Next]_vars
    PROVE  TypedSession'
<1> USE NoneAssumption DEF vars, durable, Session, ForkSteps, DropSteps,
       MakeSteps, SessionPhases, Phases, LeafRecord, ForkRecord, Worker, Run,
       In, At, Holder, item, Step, Goes, Phase, Leave, Ends, With, Without,
       Idle, TypedData, TypedSession, DropsOK
<1>1. CASE UNCHANGED vars
  BY <1>1
<1>2. ASSUME NEW p \in Proc,
        fork(p) \/ collect(p) \/ (\E k \in Candidate : check(p, k)) \/ (\E l \in 1..MaxForks : drop_leaf(p, l))
      PROVE  TypedSession'
  BY <1>2 DEF fork, collect, check, drop_leaf, Begin
<1>3. ASSUME NEW p \in Proc, Fails(p)
      PROVE  TypedSession'
  BY <1>3 DEF Fails
<1>4. ASSUME NEW p \in Proc, TakeLock(p)
      PROVE  TypedSession'
  BY <1>4 DEF TakeLock, Free
<1>5. ASSUME NEW p \in Proc, Populate(p)
      PROVE  TypedSession'
  BY <1>5 DEF Populate
<1>6. ASSUME NEW p \in Proc, run_check(p)
      PROVE  TypedSession'
  BY <1>6 DEF run_check, Command
<1>7. ASSUME NEW p \in Proc, Checked(p)
      PROVE  TypedSession'
  BY <1>7 DEF Checked, Succeeded
<1>8. ASSUME NEW p \in Proc, Lock(p)
      PROVE  TypedSession'
  BY <1>8 DEF Lock
<1>9. ASSUME NEW f \in 1..MaxForks, recover_fork(f)
      PROVE  TypedSession'
  BY <1>9 DEF recover_fork
<1>10. CASE RemoveFork
  BY <1>10 DEF RemoveFork
<1>11. CASE ReleaseFork
  BY <1>11 DEF ReleaseFork
<1>12. CASE ForgetFork
  BY <1>12 DEF ForgetFork
<1>13. CASE ForksRecovered
  BY <1>13 DEF ForksRecovered
<1>14. ASSUME NEW f \in 1..MaxForks, recover_drop(f)
      PROVE  TypedSession'
  BY <1>14 DEF recover_drop, check_guard, Guard, Free
<1>15. CASE DropsRecovered
  BY <1>15 DEF DropsRecovered
<1>16. CASE DropAuthority
  BY <1>16 DEF DropAuthority
<1>17. CASE DropPath
  BY <1>17 DEF DropPath
<1>18. CASE DropRecord
  BY <1>18 DEF DropRecord
<1>19. CASE DropForget
  BY <1>19 DEF DropForget
<1>20. CASE Retire
  BY <1>20 DEF Retire, begin_drop, check_guard, Guard, Free, Ready
<1>21. CASE CollectChecks
  BY <1>21 DEF CollectChecks, Ready
<1>22. ASSUME NEW f \in 1..MaxForks, CollectCheck(f)
      PROVE  TypedSession'
  BY <1>22 DEF CollectCheck, begin_drop, check_guard, Guard, Free
<1>23. CASE Collected
  BY <1>23 DEF Collected, Ready
<1>24. CASE ReadPending
  BY <1>24 DEF ReadPending, Ready
<1>25. CASE BeginFork
  BY <1>25 DEF BeginFork, Ready
<1>26. CASE CreateLeaf
  BY <1>26 DEF CreateLeaf
<1>27. CASE NameLeaf
  BY <1>27 DEF NameLeaf
<1>28. CASE PublishDirectory
  BY <1>28 DEF PublishDirectory
<1>29. CASE finish_fork
  BY <1>29 DEF finish_fork, Ready
<1>30. CASE Forked
  BY <1>30 DEF Forked
<1>31. CASE materialize_check
  BY <1>31 DEF materialize_check, Ready
<1>32. CASE seal_check
  BY <1>32 DEF seal_check, Ready
<1>33. ASSUME NEW k \in Candidate, Commands(k)
      PROVE  TypedSession'
  BY <1>33 DEF Commands, Supervised, SupervisorDies, ForkMember, LeaderExits,
     MembersExit, LimitPasses, monitor, terminate
<1> QED
  BY <1>1, <1>2, <1>3, <1>4, <1>5, <1>6, <1>7, <1>8, <1>9, <1>10, <1>11, <1>12,
     <1>13, <1>14, <1>15, <1>16, <1>17, <1>18, <1>19, <1>20, <1>21, <1>22,
     <1>23, <1>24, <1>25, <1>26, <1>27, <1>28, <1>29, <1>30, <1>31, <1>32,
     <1>33 DEF Next, Sessions

\* Its holder stays where the session put it.
LEMMA HoldersStep ==
    ASSUME TypedWorkers, TypedSession, Holders, [Next]_vars
    PROVE  Holders'
<1> USE NoneAssumption DEF vars, durable, Session, ForkSteps, DropSteps,
       MakeSteps, SessionPhases, Phases, LeafRecord, ForkRecord, Worker, Run,
       In, At, Holder, item, Step, Goes, Phase, Leave, Ends, With, Without,
       Idle, TypedWorkers, TypedSession, Holders
<1>1. CASE UNCHANGED vars
  BY <1>1
<1>2. ASSUME NEW p \in Proc,
        fork(p) \/ collect(p) \/ (\E k \in Candidate : check(p, k)) \/ (\E l \in 1..MaxForks : drop_leaf(p, l))
      PROVE  Holders'
  BY <1>2 DEF fork, collect, check, drop_leaf, Begin
<1>3. ASSUME NEW p \in Proc, Fails(p)
      PROVE  Holders'
  BY <1>3 DEF Fails
<1>4. ASSUME NEW p \in Proc, TakeLock(p)
      PROVE  Holders'
  BY <1>4 DEF TakeLock, Free
<1>5. ASSUME NEW p \in Proc, Populate(p)
      PROVE  Holders'
  BY <1>5 DEF Populate
<1>6. ASSUME NEW p \in Proc, run_check(p)
      PROVE  Holders'
  BY <1>6 DEF run_check, Command
<1>7. ASSUME NEW p \in Proc, Checked(p)
      PROVE  Holders'
  BY <1>7 DEF Checked, Succeeded
<1>8. ASSUME NEW p \in Proc, Lock(p)
      PROVE  Holders'
  BY <1>8 DEF Lock
<1>9. ASSUME NEW f \in 1..MaxForks, recover_fork(f)
      PROVE  Holders'
  BY <1>9 DEF recover_fork
<1>10. CASE RemoveFork
  BY <1>10 DEF RemoveFork
<1>11. CASE ReleaseFork
  BY <1>11 DEF ReleaseFork
<1>12. CASE ForgetFork
  BY <1>12 DEF ForgetFork
<1>13. CASE ForksRecovered
  BY <1>13 DEF ForksRecovered
<1>14. ASSUME NEW f \in 1..MaxForks, recover_drop(f)
      PROVE  Holders'
  BY <1>14 DEF recover_drop, check_guard, Guard, Free
<1>15. CASE DropsRecovered
  BY <1>15 DEF DropsRecovered
<1>16. CASE DropAuthority
  BY <1>16 DEF DropAuthority
<1>17. CASE DropPath
  BY <1>17 DEF DropPath
<1>18. CASE DropRecord
  BY <1>18 DEF DropRecord
<1>19. CASE DropForget
  BY <1>19 DEF DropForget
<1>20. CASE Retire
  BY <1>20 DEF Retire, begin_drop, check_guard, Guard, Free, Ready
<1>21. CASE CollectChecks
  BY <1>21 DEF CollectChecks, Ready
<1>22. ASSUME NEW f \in 1..MaxForks, CollectCheck(f)
      PROVE  Holders'
  BY <1>22 DEF CollectCheck, begin_drop, check_guard, Guard, Free
<1>23. CASE Collected
  BY <1>23 DEF Collected, Ready
<1>24. CASE ReadPending
  BY <1>24 DEF ReadPending, Ready
<1>25. CASE BeginFork
  BY <1>25 DEF BeginFork, Ready
<1>26. CASE CreateLeaf
  BY <1>26 DEF CreateLeaf
<1>27. CASE NameLeaf
  BY <1>27 DEF NameLeaf
<1>28. CASE PublishDirectory
  BY <1>28 DEF PublishDirectory
<1>29. CASE finish_fork
  BY <1>29 DEF finish_fork, Ready
<1>30. CASE Forked
  BY <1>30 DEF Forked
<1>31. CASE materialize_check
  BY <1>31 DEF materialize_check, Ready
<1>32. CASE seal_check
  BY <1>32 DEF seal_check, Ready
<1>33. ASSUME NEW k \in Candidate, Commands(k)
      PROVE  Holders'
  BY <1>33 DEF Commands, Supervised, SupervisorDies, ForkMember, LeaderExits,
     MembersExit, LimitPasses, monitor, terminate
<1> QED
  BY <1>1, <1>2, <1>3, <1>4, <1>5, <1>6, <1>7, <1>8, <1>9, <1>10, <1>11, <1>12,
     <1>13, <1>14, <1>15, <1>16, <1>17, <1>18, <1>19, <1>20, <1>21, <1>22,
     <1>23, <1>24, <1>25, <1>26, <1>27, <1>28, <1>29, <1>30, <1>31, <1>32,
     <1>33 DEF Next, Sessions

\* The supervisor's own steps.
LEMMA RunsStep ==
    ASSUME TypedRun, NEW k \in Candidate, Commands(k)
    PROVE  TypedRun'
<1> USE DEF TypedRun, Run
<1>1. CASE ForkMember(k)
  BY <1>1 DEF ForkMember
<1>2. CASE LeaderExits(k)
  BY <1>2 DEF LeaderExits
<1>3. CASE MembersExit(k)
  BY <1>3 DEF MembersExit
<1>4. CASE LimitPasses(k)
  BY <1>4 DEF LimitPasses
<1>5. CASE monitor(k)
  <2> DEFINE r == [run[k] EXCEPT !.supervisor = "terminate"]
             s == [r EXCEPT !.outcome = IF run[k].leader = "exited" THEN "exited" ELSE "cut"]
  <2>1. run[k] \in Run
    BY <1>5 DEF monitor
  <2>2. r \in Run
    BY <2>1
  <2>3. s \in Run
    BY <2>2
  <2>4. run' = [run EXCEPT ![k] = s]
    BY <1>5 DEF monitor
  <2> HIDE DEF s
  <2> QED
    BY <2>3, <2>4
<1>6. CASE terminate(k)
  <2> DEFINE r == [run[k] EXCEPT !.supervisor = "done"]
             s == [r EXCEPT !.leader = "exited"]
             t == [s EXCEPT !.members = FALSE]
  <2>1. run[k] \in Run
    BY <1>6 DEF terminate
  <2>2. r \in Run
    BY <2>1
  <2>3. s \in Run
    BY <2>2
  <2>4. t \in Run
    BY <2>3
  <2>5. run' = [run EXCEPT ![k] = t]
    BY <1>6 DEF terminate
  <2> HIDE DEF t
  <2> QED
    BY <2>4, <2>5
<1>7. CASE SupervisorDies(k)
  BY <1>7 DEF SupervisorDies, Living
<1> QED
  BY <1>1, <1>2, <1>3, <1>4, <1>5, <1>6, <1>7 DEF Commands, Supervised

\* A run is started by its check and goes on by itself.
LEMMA RunTypes ==
    ASSUME TypedRun, TypedWorkers, [Next]_vars
    PROVE  TypedRun'
<1> USE NoneAssumption DEF vars, durable, Session, ForkSteps, DropSteps,
       MakeSteps, SessionPhases, Phases, LeafRecord, ForkRecord, Worker, Run,
       In, At, Holder, item, Step, Goes, Phase, Leave, Ends, With, Without,
       Idle, TypedRun, TypedWorkers
<1>1. CASE UNCHANGED vars
  BY <1>1
<1>2. ASSUME NEW p \in Proc,
        fork(p) \/ collect(p) \/ (\E k \in Candidate : check(p, k)) \/ (\E l \in 1..MaxForks : drop_leaf(p, l))
      PROVE  TypedRun'
  BY <1>2 DEF fork, collect, check, drop_leaf, Begin
<1>3. ASSUME NEW p \in Proc, Fails(p)
      PROVE  TypedRun'
  BY <1>3 DEF Fails
<1>4. ASSUME NEW p \in Proc, TakeLock(p)
      PROVE  TypedRun'
  BY <1>4 DEF TakeLock, Free
<1>5. ASSUME NEW p \in Proc, Populate(p)
      PROVE  TypedRun'
  BY <1>5 DEF Populate
<1>6. ASSUME NEW p \in Proc, run_check(p)
      PROVE  TypedRun'
  <2>1. worker[p].leaf \in Nat \cup {None}
    BY DEF TypedWorkers, Worker
  <2>2. Command(worker[p].leaf) \in Run
    BY <2>1 DEF Command, Run
  <2> QED
    BY <1>6, <2>2 DEF run_check
<1>7. ASSUME NEW p \in Proc, Checked(p)
      PROVE  TypedRun'
  BY <1>7 DEF Checked, Succeeded
<1>8. ASSUME NEW p \in Proc, Lock(p)
      PROVE  TypedRun'
  BY <1>8 DEF Lock
<1>9. ASSUME NEW f \in 1..MaxForks, recover_fork(f)
      PROVE  TypedRun'
  BY <1>9 DEF recover_fork
<1>10. CASE RemoveFork
  BY <1>10 DEF RemoveFork
<1>11. CASE ReleaseFork
  BY <1>11 DEF ReleaseFork
<1>12. CASE ForgetFork
  BY <1>12 DEF ForgetFork
<1>13. CASE ForksRecovered
  BY <1>13 DEF ForksRecovered
<1>14. ASSUME NEW f \in 1..MaxForks, recover_drop(f)
      PROVE  TypedRun'
  BY <1>14 DEF recover_drop, check_guard, Guard, Free
<1>15. CASE DropsRecovered
  BY <1>15 DEF DropsRecovered
<1>16. CASE DropAuthority
  BY <1>16 DEF DropAuthority
<1>17. CASE DropPath
  BY <1>17 DEF DropPath
<1>18. CASE DropRecord
  BY <1>18 DEF DropRecord
<1>19. CASE DropForget
  BY <1>19 DEF DropForget
<1>20. CASE Retire
  BY <1>20 DEF Retire, begin_drop, check_guard, Guard, Free, Ready
<1>21. CASE CollectChecks
  BY <1>21 DEF CollectChecks, Ready
<1>22. ASSUME NEW f \in 1..MaxForks, CollectCheck(f)
      PROVE  TypedRun'
  BY <1>22 DEF CollectCheck, begin_drop, check_guard, Guard, Free
<1>23. CASE Collected
  BY <1>23 DEF Collected, Ready
<1>24. CASE ReadPending
  BY <1>24 DEF ReadPending, Ready
<1>25. CASE BeginFork
  BY <1>25 DEF BeginFork, Ready
<1>26. CASE CreateLeaf
  BY <1>26 DEF CreateLeaf
<1>27. CASE NameLeaf
  BY <1>27 DEF NameLeaf
<1>28. CASE PublishDirectory
  BY <1>28 DEF PublishDirectory
<1>29. CASE finish_fork
  BY <1>29 DEF finish_fork, Ready
<1>30. CASE Forked
  BY <1>30 DEF Forked
<1>31. CASE materialize_check
  BY <1>31 DEF materialize_check, Ready
<1>32. CASE seal_check
  BY <1>32 DEF seal_check, Ready
<1>33. ASSUME NEW k \in Candidate, Commands(k)
      PROVE  TypedRun'
  BY <1>33, RunsStep
<1> QED
  BY <1>1, <1>2, <1>3, <1>4, <1>5, <1>6, <1>7, <1>8, <1>9, <1>10, <1>11, <1>12,
     <1>13, <1>14, <1>15, <1>16, <1>17, <1>18, <1>19, <1>20, <1>21, <1>22,
     <1>23, <1>24, <1>25, <1>26, <1>27, <1>28, <1>29, <1>30, <1>31, <1>32,
     <1>33 DEF Next, Sessions

\* Coordinators hold the locks.
LEMMA LocksTypes ==
    ASSUME TypedLocks, TypedWorkers, TypedSession, [Next]_vars
    PROVE  TypedLocks'
<1> USE NoneAssumption DEF vars, durable, Session, ForkSteps, DropSteps,
       MakeSteps, SessionPhases, Phases, LeafRecord, ForkRecord, Worker, Run,
       In, At, Holder, item, Step, Goes, Phase, Leave, Ends, With, Without,
       Idle, TypedLocks, TypedWorkers, TypedSession
<1>1. CASE UNCHANGED vars
  BY <1>1
<1>2. ASSUME NEW p \in Proc,
        fork(p) \/ collect(p) \/ (\E k \in Candidate : check(p, k)) \/ (\E l \in 1..MaxForks : drop_leaf(p, l))
      PROVE  TypedLocks'
  BY <1>2 DEF fork, collect, check, drop_leaf, Begin
<1>3. ASSUME NEW p \in Proc, Fails(p)
      PROVE  TypedLocks'
  BY <1>3 DEF Fails
<1>4. ASSUME NEW p \in Proc, TakeLock(p)
      PROVE  TypedLocks'
  BY <1>4 DEF TakeLock, Free
<1>5. ASSUME NEW p \in Proc, Populate(p)
      PROVE  TypedLocks'
  BY <1>5 DEF Populate
<1>6. ASSUME NEW p \in Proc, run_check(p)
      PROVE  TypedLocks'
  BY <1>6 DEF run_check, Command
<1>7. ASSUME NEW p \in Proc, Checked(p)
      PROVE  TypedLocks'
  BY <1>7 DEF Checked, Succeeded
<1>8. ASSUME NEW p \in Proc, Lock(p)
      PROVE  TypedLocks'
  BY <1>8 DEF Lock
<1>9. ASSUME NEW f \in 1..MaxForks, recover_fork(f)
      PROVE  TypedLocks'
  BY <1>9 DEF recover_fork
<1>10. CASE RemoveFork
  BY <1>10 DEF RemoveFork
<1>11. CASE ReleaseFork
  BY <1>11 DEF ReleaseFork
<1>12. CASE ForgetFork
  BY <1>12 DEF ForgetFork
<1>13. CASE ForksRecovered
  BY <1>13 DEF ForksRecovered
<1>14. ASSUME NEW f \in 1..MaxForks, recover_drop(f)
      PROVE  TypedLocks'
  BY <1>14 DEF recover_drop, check_guard, Guard, Free
<1>15. CASE DropsRecovered
  BY <1>15 DEF DropsRecovered
<1>16. CASE DropAuthority
  BY <1>16 DEF DropAuthority
<1>17. CASE DropPath
  BY <1>17 DEF DropPath
<1>18. CASE DropRecord
  BY <1>18 DEF DropRecord
<1>19. CASE DropForget
  BY <1>19 DEF DropForget
<1>20. CASE Retire
  BY <1>20 DEF Retire, begin_drop, check_guard, Guard, Free, Ready
<1>21. CASE CollectChecks
  BY <1>21 DEF CollectChecks, Ready
<1>22. ASSUME NEW f \in 1..MaxForks, CollectCheck(f)
      PROVE  TypedLocks'
  BY <1>22 DEF CollectCheck, begin_drop, check_guard, Guard, Free
<1>23. CASE Collected
  BY <1>23 DEF Collected, Ready
<1>24. CASE ReadPending
  BY <1>24 DEF ReadPending, Ready
<1>25. CASE BeginFork
  BY <1>25 DEF BeginFork, Ready
<1>26. CASE CreateLeaf
  BY <1>26 DEF CreateLeaf
<1>27. CASE NameLeaf
  BY <1>27 DEF NameLeaf
<1>28. CASE PublishDirectory
  BY <1>28 DEF PublishDirectory
<1>29. CASE finish_fork
  BY <1>29 DEF finish_fork, Ready
<1>30. CASE Forked
  BY <1>30 DEF Forked
<1>31. CASE materialize_check
  BY <1>31 DEF materialize_check, Ready
<1>32. CASE seal_check
  BY <1>32 DEF seal_check
<1>33. ASSUME NEW k \in Candidate, Commands(k)
      PROVE  TypedLocks'
  BY <1>33 DEF Commands, Supervised, SupervisorDies, ForkMember, LeaderExits,
     MembersExit, LimitPasses, monitor, terminate
<1> QED
  BY <1>1, <1>2, <1>3, <1>4, <1>5, <1>6, <1>7, <1>8, <1>9, <1>10, <1>11, <1>12,
     <1>13, <1>14, <1>15, <1>16, <1>17, <1>18, <1>19, <1>20, <1>21, <1>22,
     <1>23, <1>24, <1>25, <1>26, <1>27, <1>28, <1>29, <1>30, <1>31, <1>32,
     <1>33 DEF Next, Sessions

\* Only create_leaf draws an identity, and it counts it.
LEMMA FreshStep ==
    ASSUME Typed, Fresh, WorkersOK, MakingOK, DropsOK, [Next]_vars
    PROVE  Fresh'
<1> USE NoneAssumption DEF vars, durable, Session, ForkSteps, DropSteps,
       MakeSteps, SessionPhases, Phases, LeafRecord, ForkRecord, Worker, Run,
       In, At, Holder, item, Step, Goes, Phase, Leave, Ends, With, Without,
       Idle, Fresh, WorkersOK, MakingOK, DropsOK, Typed, TypedData, TypedRun,
       TypedLocks, TypedWorkers, TypedSession, Holders
<1>1. CASE UNCHANGED durable
  BY <1>1
<1>2. CASE RemoveFork
  BY <1>2 DEF RemoveFork
<1>3. CASE ReleaseFork
  BY <1>3 DEF ReleaseFork
<1>4. CASE ForgetFork
  BY <1>4 DEF ForgetFork
<1>5. CASE DropAuthority
  BY <1>5 DEF DropAuthority
<1>6. CASE DropPath
  BY <1>6 DEF DropPath
<1>7. CASE DropRecord
  BY <1>7 DEF DropRecord
<1>8. CASE DropForget
  BY <1>8 DEF DropForget
<1>9. CASE Retire
  BY <1>9 DEF Retire, begin_drop, check_guard, Guard, Free, Ready
<1>10. ASSUME NEW f \in 1..MaxForks, CollectCheck(f)
      PROVE  Fresh'
  BY <1>10 DEF CollectCheck, begin_drop, check_guard, Guard, Free
<1>11. CASE BeginFork
  BY <1>11 DEF BeginFork, Ready
<1>12. CASE CreateLeaf
  BY <1>12 DEF CreateLeaf
<1>13. CASE NameLeaf
  BY <1>13 DEF NameLeaf
<1>14. CASE PublishDirectory
  BY <1>14 DEF PublishDirectory
<1>15. CASE finish_fork
  BY <1>15 DEF finish_fork, Ready
<1>16. CASE Forked
  BY <1>16 DEF Forked
<1> QED
  BY DurableSteps, <1>1, <1>2, <1>3, <1>4, <1>5, <1>6, <1>7, <1>8, <1>9, <1>10,
     <1>11, <1>12, <1>13, <1>14, <1>15, <1>16

\* A fork draws a new directory, and a record its fork's.
LEMMA DistinctStep ==
    ASSUME Typed, Fresh, Distinct, DropsDistinct, ForksOK, WorkersOK, MakingOK,
           RecoveringOK, DropsOK, [Next]_vars
    PROVE  Distinct'
<1> USE NoneAssumption DEF vars, durable, Session, ForkSteps, DropSteps,
       MakeSteps, SessionPhases, Phases, LeafRecord, ForkRecord, Worker, Run,
       In, At, Holder, item, Step, Goes, Phase, Leave, Ends, With, Without,
       Idle, Allocated, Making, Whole, Unrecovered, Alive, Fresh, Distinct,
       DropsDistinct, ForksOK, WorkersOK, MakingOK, RecoveringOK, DropsOK,
       Typed, TypedData, TypedRun, TypedLocks, TypedWorkers, TypedSession,
       Holders
<1>1. CASE UNCHANGED durable
  BY <1>1
<1>2. CASE RemoveFork
  BY <1>2 DEF RemoveFork
<1>3. CASE ReleaseFork
  BY <1>3 DEF ReleaseFork
<1>4. CASE ForgetFork
  BY <1>4 DEF ForgetFork
<1>5. CASE DropAuthority
  BY <1>5 DEF DropAuthority
<1>6. CASE DropPath
  BY <1>6 DEF DropPath
<1>7. CASE DropRecord
  BY <1>7 DEF DropRecord
<1>8. CASE DropForget
  BY <1>8 DEF DropForget
<1>9. CASE Retire
  BY <1>9 DEF Retire, begin_drop, check_guard, Guard, Free, Ready
<1>10. ASSUME NEW f \in 1..MaxForks, CollectCheck(f)
      PROVE  Distinct'
  BY <1>10 DEF CollectCheck, begin_drop, check_guard, Guard, Free
<1>11. CASE BeginFork
  BY <1>11 DEF BeginFork, Ready
<1>12. CASE CreateLeaf
  BY <1>12 DEF CreateLeaf
<1>13. CASE NameLeaf
  BY <1>13 DEF NameLeaf
<1>14. CASE PublishDirectory
  BY <1>14 DEF PublishDirectory
<1>15. CASE finish_fork
  BY <1>15 DEF finish_fork, Ready
<1>16. CASE Forked
  BY <1>16 DEF Forked
<1> QED
  BY DurableSteps, <1>1, <1>2, <1>3, <1>4, <1>5, <1>6, <1>7, <1>8, <1>9, <1>10,
     <1>11, <1>12, <1>13, <1>14, <1>15, <1>16

\* A drop begins with the record; a fork never takes over its directory.
LEMMA DropsDistinctStep ==
    ASSUME Typed, Fresh, Distinct, DropsDistinct, ForksOK, WorkersOK, MakingOK,
           DropsOK, [Next]_vars
    PROVE  DropsDistinct'
<1> USE NoneAssumption DEF vars, durable, Session, ForkSteps, DropSteps,
       MakeSteps, SessionPhases, Phases, LeafRecord, ForkRecord, Worker, Run,
       In, At, Holder, item, Step, Goes, Phase, Leave, Ends, With, Without,
       Idle, Whole, Making, Unrecovered, Alive, Fresh, Distinct, DropsDistinct,
       ForksOK, WorkersOK, MakingOK, DropsOK, Typed, TypedData, TypedRun,
       TypedLocks, TypedWorkers, TypedSession, Holders
<1>1. CASE UNCHANGED durable
  BY <1>1
<1>2. CASE RemoveFork
  BY <1>2 DEF RemoveFork
<1>3. CASE ReleaseFork
  BY <1>3 DEF ReleaseFork
<1>4. CASE ForgetFork
  BY <1>4 DEF ForgetFork
<1>5. CASE DropAuthority
  BY <1>5 DEF DropAuthority
<1>6. CASE DropPath
  BY <1>6 DEF DropPath
<1>7. CASE DropRecord
  BY <1>7 DEF DropRecord
<1>8. CASE DropForget
  BY <1>8 DEF DropForget
<1>9. CASE Retire
  BY <1>9 DEF Retire, begin_drop, check_guard, Guard, Free, Ready
<1>10. ASSUME NEW f \in 1..MaxForks, CollectCheck(f)
      PROVE  DropsDistinct'
  BY <1>10 DEF CollectCheck, begin_drop, check_guard, Guard, Free
<1>11. CASE BeginFork
  BY <1>11 DEF BeginFork, Ready
<1>12. CASE CreateLeaf
  BY <1>12 DEF CreateLeaf
<1>13. CASE NameLeaf
  BY <1>13 DEF NameLeaf
<1>14. CASE PublishDirectory
  BY <1>14 DEF PublishDirectory
<1>15. CASE finish_fork
  BY <1>15 DEF finish_fork, Ready
<1>16. CASE Forked
  BY <1>16 DEF Forked
<1> QED
  BY DurableSteps, <1>1, <1>2, <1>3, <1>4, <1>5, <1>6, <1>7, <1>8, <1>9, <1>10,
     <1>11, <1>12, <1>13, <1>14, <1>15, <1>16

\* A journal lacks a name only until the next step, and nobody else
\* draws an identity meanwhile unless its fork is dead.
LEMMA NamelessStep ==
    ASSUME Typed, Fresh, Distinct, Nameless, ForksOK, WorkersOK, MakingOK,
           RecoveringOK, DropsOK, [Next]_vars
    PROVE  Nameless'
<1> USE NoneAssumption DEF vars, durable, Session, ForkSteps, DropSteps,
       MakeSteps, SessionPhases, Phases, LeafRecord, ForkRecord, Worker, Run,
       In, At, Holder, item, Step, Goes, Phase, Leave, Ends, With, Without,
       Idle, Allocated, Making, Unrecovered, Whole, Alive, Fresh, Distinct,
       Nameless, ForksOK, WorkersOK, MakingOK, RecoveringOK, DropsOK, Typed,
       TypedData, TypedRun, TypedLocks, TypedWorkers, TypedSession, Holders
<1>1. CASE UNCHANGED durable
  BY <1>1
<1>2. CASE RemoveFork
  BY <1>2 DEF RemoveFork
<1>3. CASE ReleaseFork
  BY <1>3 DEF ReleaseFork
<1>4. CASE ForgetFork
  BY <1>4 DEF ForgetFork
<1>5. CASE DropAuthority
  BY <1>5 DEF DropAuthority
<1>6. CASE DropPath
  BY <1>6 DEF DropPath
<1>7. CASE DropRecord
  BY <1>7 DEF DropRecord
<1>8. CASE DropForget
  BY <1>8 DEF DropForget
<1>9. CASE Retire
  BY <1>9 DEF Retire, begin_drop, check_guard, Guard, Free, Ready
<1>10. ASSUME NEW f \in 1..MaxForks, CollectCheck(f)
      PROVE  Nameless'
  BY <1>10 DEF CollectCheck, begin_drop, check_guard, Guard, Free
<1>11. CASE BeginFork
  BY <1>11 DEF BeginFork, Ready
<1>12. CASE CreateLeaf
  BY <1>12 DEF CreateLeaf
<1>13. CASE NameLeaf
  BY <1>13 DEF NameLeaf
<1>14. CASE PublishDirectory
  BY <1>14 DEF PublishDirectory
<1>15. CASE finish_fork
  BY <1>15 DEF finish_fork, Ready
<1>16. CASE Forked
  BY <1>16 DEF Forked
<1> QED
  BY DurableSteps, <1>1, <1>2, <1>3, <1>4, <1>5, <1>6, <1>7, <1>8, <1>9, <1>10,
     <1>11, <1>12, <1>13, <1>14, <1>15, <1>16

\* Recovery removes what no record accounts for, a drop what its own does.
LEMMA AccountedStep ==
    ASSUME Typed, Fresh, Distinct, DropsDistinct, Nameless, WorkersOK,
           MakingOK, ForkedOK, RecoveringOK, DropsOK, Accounted, [Next]_vars
    PROVE  Accounted'
<1> USE NoneAssumption DEF vars, durable, Session, ForkSteps, DropSteps,
       MakeSteps, SessionPhases, Phases, LeafRecord, ForkRecord, Worker, Run,
       In, At, Holder, item, Step, Goes, Phase, Leave, Ends, With, Without,
       Idle, Allocated, Fresh, Distinct, DropsDistinct, Nameless, WorkersOK,
       MakingOK, ForkedOK, RecoveringOK, DropsOK, Accounted, Typed, TypedData,
       TypedRun, TypedLocks, TypedWorkers, TypedSession, Holders
<1>1. CASE UNCHANGED durable
  BY <1>1
<1>2. CASE RemoveFork
  BY <1>2 DEF RemoveFork
<1>3. CASE ReleaseFork
  BY <1>3 DEF ReleaseFork
<1>4. CASE ForgetFork
  BY <1>4 DEF ForgetFork
<1>5. CASE DropAuthority
  BY <1>5 DEF DropAuthority
<1>6. CASE DropPath
  BY <1>6 DEF DropPath
<1>7. CASE DropRecord
  BY <1>7 DEF DropRecord
<1>8. CASE DropForget
  BY <1>8 DEF DropForget
<1>9. CASE Retire
  BY <1>9 DEF Retire, begin_drop, check_guard, Guard, Free, Ready
<1>10. ASSUME NEW f \in 1..MaxForks, CollectCheck(f)
      PROVE  Accounted'
  BY <1>10 DEF CollectCheck, begin_drop, check_guard, Guard, Free
<1>11. CASE BeginFork
  BY <1>11 DEF BeginFork, Ready
<1>12. CASE CreateLeaf
  BY <1>12 DEF CreateLeaf
<1>13. CASE NameLeaf
  BY <1>13 DEF NameLeaf
<1>14. CASE PublishDirectory
  BY <1>14 DEF PublishDirectory
<1>15. CASE finish_fork
  BY <1>15 DEF finish_fork, Ready
<1>16. CASE Forked
  BY <1>16, SMTT(30) DEF Forked
<1> QED
  BY DurableSteps, <1>1, <1>2, <1>3, <1>4, <1>5, <1>6, <1>7, <1>8, <1>9, <1>10,
     <1>11, <1>12, <1>13, <1>14, <1>15, <1>16

\* A fork belongs to the coordinator that began it until it ends.
LEMMA WorkersStep ==
    ASSUME TypedData, TypedWorkers, TypedSession, Holders, WorkersOK, MakingOK,
           RecoveringOK, [Next]_vars
    PROVE  WorkersOK'
<1> USE NoneAssumption DEF vars, durable, Session, ForkSteps, DropSteps,
       MakeSteps, SessionPhases, Phases, LeafRecord, ForkRecord, Worker, Run,
       In, At, Holder, item, Step, Goes, Phase, Leave, Ends, With, Without,
       Idle, Alive, TypedData, TypedWorkers, TypedSession, Holders, WorkersOK,
       MakingOK, RecoveringOK
<1>1. CASE UNCHANGED vars
  BY <1>1
<1>2. ASSUME NEW p \in Proc,
        fork(p) \/ collect(p) \/ (\E k \in Candidate : check(p, k)) \/ (\E l \in 1..MaxForks : drop_leaf(p, l))
      PROVE  WorkersOK'
  BY <1>2 DEF fork, collect, check, drop_leaf, Begin
<1>3. ASSUME NEW p \in Proc, Fails(p)
      PROVE  WorkersOK'
  BY <1>3 DEF Fails
<1>4. ASSUME NEW p \in Proc, TakeLock(p)
      PROVE  WorkersOK'
  BY <1>4 DEF TakeLock, Free
<1>5. ASSUME NEW p \in Proc, Populate(p)
      PROVE  WorkersOK'
  BY <1>5 DEF Populate
<1>6. ASSUME NEW p \in Proc, run_check(p)
      PROVE  WorkersOK'
  BY <1>6 DEF run_check, Command
<1>7. ASSUME NEW p \in Proc, Checked(p)
      PROVE  WorkersOK'
  BY <1>7, SMTT(30) DEF Checked, Succeeded
<1>8. ASSUME NEW p \in Proc, Lock(p)
      PROVE  WorkersOK'
  BY <1>8 DEF Lock
<1>9. ASSUME NEW f \in 1..MaxForks, recover_fork(f)
      PROVE  WorkersOK'
  BY <1>9 DEF recover_fork
<1>10. CASE RemoveFork
  BY <1>10 DEF RemoveFork
<1>11. CASE ReleaseFork
  BY <1>11 DEF ReleaseFork
<1>12. CASE ForgetFork
  BY <1>12 DEF ForgetFork
<1>13. CASE ForksRecovered
  BY <1>13 DEF ForksRecovered
<1>14. ASSUME NEW f \in 1..MaxForks, recover_drop(f)
      PROVE  WorkersOK'
  BY <1>14, SMTT(30) DEF recover_drop, check_guard, Guard, Free
<1>15. CASE DropsRecovered
  BY <1>15 DEF DropsRecovered
<1>16. CASE DropAuthority
  BY <1>16 DEF DropAuthority
<1>17. CASE DropPath
  BY <1>17 DEF DropPath
<1>18. CASE DropRecord
  BY <1>18 DEF DropRecord
<1>19. CASE DropForget
  BY <1>19, SMTT(30) DEF DropForget
<1>20. CASE Retire
  BY <1>20, SMTT(30) DEF Retire, begin_drop, check_guard, Guard, Free, Ready
<1>21. CASE CollectChecks
  BY <1>21 DEF CollectChecks, Ready
<1>22. ASSUME NEW f \in 1..MaxForks, CollectCheck(f)
      PROVE  WorkersOK'
  BY <1>22 DEF CollectCheck, begin_drop, check_guard, Guard, Free
<1>23. CASE Collected
  BY <1>23 DEF Collected, Ready
<1>24. CASE ReadPending
  BY <1>24 DEF ReadPending, Ready
<1>25. CASE BeginFork
  BY <1>25 DEF BeginFork, Ready
<1>26. CASE CreateLeaf
  BY <1>26 DEF CreateLeaf
<1>27. CASE NameLeaf
  BY <1>27 DEF NameLeaf
<1>28. CASE PublishDirectory
  BY <1>28 DEF PublishDirectory
<1>29. CASE finish_fork
  BY <1>29 DEF finish_fork, Ready
<1>30. CASE Forked
  BY <1>30 DEF Forked
<1>31. CASE materialize_check
  BY <1>31 DEF materialize_check, Ready
<1>32. CASE seal_check
  BY <1>32 DEF seal_check, Ready
<1>33. ASSUME NEW k \in Candidate, Commands(k)
      PROVE  WorkersOK'
  BY <1>33 DEF Commands, Supervised, SupervisorDies, ForkMember, LeaderExits,
     MembersExit, LimitPasses, monitor, terminate
<1> QED
  BY <1>1, <1>2, <1>3, <1>4, <1>5, <1>6, <1>7, <1>8, <1>9, <1>10, <1>11, <1>12,
     <1>13, <1>14, <1>15, <1>16, <1>17, <1>18, <1>19, <1>20, <1>21, <1>22,
     <1>23, <1>24, <1>25, <1>26, <1>27, <1>28, <1>29, <1>30, <1>31, <1>32,
     <1>33 DEF Next, Sessions

\* The four steps of prepare_fork.
LEMMA MakingStep ==
    ASSUME Typed, Fresh, WorkersOK, MakingOK, [Next]_vars
    PROVE  MakingOK'
<1> USE NoneAssumption DEF vars, durable, Session, ForkSteps, DropSteps,
       MakeSteps, SessionPhases, Phases, LeafRecord, ForkRecord, Worker, Run,
       In, At, Holder, item, Step, Goes, Phase, Leave, Ends, With, Without,
       Idle, Fresh, WorkersOK, MakingOK, Typed, TypedData, TypedRun,
       TypedLocks, TypedWorkers, TypedSession, Holders
<1>1. CASE UNCHANGED vars
  BY <1>1
<1>2. ASSUME NEW p \in Proc,
        fork(p) \/ collect(p) \/ (\E k \in Candidate : check(p, k)) \/ (\E l \in 1..MaxForks : drop_leaf(p, l))
      PROVE  MakingOK'
  BY <1>2 DEF fork, collect, check, drop_leaf, Begin
<1>3. ASSUME NEW p \in Proc, Fails(p)
      PROVE  MakingOK'
  BY <1>3 DEF Fails
<1>4. ASSUME NEW p \in Proc, TakeLock(p)
      PROVE  MakingOK'
  BY <1>4 DEF TakeLock, Free
<1>5. ASSUME NEW p \in Proc, Populate(p)
      PROVE  MakingOK'
  BY <1>5 DEF Populate
<1>6. ASSUME NEW p \in Proc, run_check(p)
      PROVE  MakingOK'
  BY <1>6 DEF run_check, Command
<1>7. ASSUME NEW p \in Proc, Checked(p)
      PROVE  MakingOK'
  BY <1>7 DEF Checked, Succeeded
<1>8. ASSUME NEW p \in Proc, Lock(p)
      PROVE  MakingOK'
  BY <1>8 DEF Lock
<1>9. ASSUME NEW f \in 1..MaxForks, recover_fork(f)
      PROVE  MakingOK'
  BY <1>9 DEF recover_fork
<1>10. CASE RemoveFork
  BY <1>10 DEF RemoveFork
<1>11. CASE ReleaseFork
  BY <1>11 DEF ReleaseFork
<1>12. CASE ForgetFork
  BY <1>12 DEF ForgetFork
<1>13. CASE ForksRecovered
  BY <1>13 DEF ForksRecovered
<1>14. ASSUME NEW f \in 1..MaxForks, recover_drop(f)
      PROVE  MakingOK'
  BY <1>14 DEF recover_drop, check_guard, Guard, Free
<1>15. CASE DropsRecovered
  BY <1>15 DEF DropsRecovered
<1>16. CASE DropAuthority
  BY <1>16 DEF DropAuthority
<1>17. CASE DropPath
  BY <1>17 DEF DropPath
<1>18. CASE DropRecord
  BY <1>18 DEF DropRecord
<1>19. CASE DropForget
  BY <1>19 DEF DropForget
<1>20. CASE Retire
  BY <1>20 DEF Retire, begin_drop, check_guard, Guard, Free, Ready
<1>21. CASE CollectChecks
  BY <1>21 DEF CollectChecks, Ready
<1>22. ASSUME NEW f \in 1..MaxForks, CollectCheck(f)
      PROVE  MakingOK'
  BY <1>22 DEF CollectCheck, begin_drop, check_guard, Guard, Free
<1>23. CASE Collected
  BY <1>23 DEF Collected, Ready
<1>24. CASE ReadPending
  BY <1>24 DEF ReadPending, Ready
<1>25. CASE BeginFork
  BY <1>25 DEF BeginFork, Ready
<1>26. CASE CreateLeaf
  <2>1. next \in Nat \ {0} /\ next' = next + 1 /\ next' - 1 = next
    BY <1>26 DEF CreateLeaf
  <2>2. /\ At("allocate") /\ session' # None /\ session'.step = "allocated"
        /\ session'.proc = Holder /\ session'.item = item
    BY <1>26 DEF CreateLeaf
  <2>3. /\ next \notin active /\ next \notin DOMAIN leaves /\ next \notin DOMAIN drops
        /\ \A f \in DOMAIN forks : forks[f].leaf # next
    BY <2>1
  <2>4. next \notin forks[item].before
    BY <2>2, <2>3
  <2> QED
    BY <1>26, <2>1, <2>2, <2>3, <2>4 DEF CreateLeaf
<1>27. CASE NameLeaf
  BY <1>27 DEF NameLeaf
<1>28. CASE PublishDirectory
  BY <1>28 DEF PublishDirectory
<1>29. CASE finish_fork
  BY <1>29 DEF finish_fork, Ready
<1>30. CASE Forked
  BY <1>30 DEF Forked
<1>31. CASE materialize_check
  BY <1>31 DEF materialize_check, Ready
<1>32. CASE seal_check
  BY <1>32 DEF seal_check, Ready
<1>33. ASSUME NEW k \in Candidate, Commands(k)
      PROVE  MakingOK'
  BY <1>33 DEF Commands, Supervised, SupervisorDies, ForkMember, LeaderExits,
     MembersExit, LimitPasses, monitor, terminate
<1> QED
  BY <1>1, <1>2, <1>3, <1>4, <1>5, <1>6, <1>7, <1>8, <1>9, <1>10, <1>11, <1>12,
     <1>13, <1>14, <1>15, <1>16, <1>17, <1>18, <1>19, <1>20, <1>21, <1>22,
     <1>23, <1>24, <1>25, <1>26, <1>27, <1>28, <1>29, <1>30, <1>31, <1>32,
     <1>33 DEF Next, Sessions

\* finish_fork records the leaf and then forgets the journal.
LEMMA ForkedStep ==
    ASSUME Typed, WorkersOK, ForkedOK, [Next]_vars
    PROVE  ForkedOK'
<1> USE NoneAssumption DEF vars, durable, Session, ForkSteps, DropSteps,
       MakeSteps, SessionPhases, Phases, LeafRecord, ForkRecord, Worker, Run,
       In, At, Holder, item, Step, Goes, Phase, Leave, Ends, With, Without,
       Idle, WorkersOK, ForkedOK, Typed, TypedData, TypedRun, TypedLocks,
       TypedWorkers, TypedSession, Holders
<1>1. CASE UNCHANGED vars
  BY <1>1
<1>2. ASSUME NEW p \in Proc,
        fork(p) \/ collect(p) \/ (\E k \in Candidate : check(p, k)) \/ (\E l \in 1..MaxForks : drop_leaf(p, l))
      PROVE  ForkedOK'
  BY <1>2 DEF fork, collect, check, drop_leaf, Begin
<1>3. ASSUME NEW p \in Proc, Fails(p)
      PROVE  ForkedOK'
  BY <1>3 DEF Fails
<1>4. ASSUME NEW p \in Proc, TakeLock(p)
      PROVE  ForkedOK'
  BY <1>4 DEF TakeLock, Free
<1>5. ASSUME NEW p \in Proc, Populate(p)
      PROVE  ForkedOK'
  BY <1>5 DEF Populate
<1>6. ASSUME NEW p \in Proc, run_check(p)
      PROVE  ForkedOK'
  BY <1>6 DEF run_check, Command
<1>7. ASSUME NEW p \in Proc, Checked(p)
      PROVE  ForkedOK'
  BY <1>7 DEF Checked, Succeeded
<1>8. ASSUME NEW p \in Proc, Lock(p)
      PROVE  ForkedOK'
  BY <1>8 DEF Lock
<1>9. ASSUME NEW f \in 1..MaxForks, recover_fork(f)
      PROVE  ForkedOK'
  BY <1>9 DEF recover_fork
<1>10. CASE RemoveFork
  BY <1>10 DEF RemoveFork
<1>11. CASE ReleaseFork
  BY <1>11 DEF ReleaseFork
<1>12. CASE ForgetFork
  BY <1>12 DEF ForgetFork
<1>13. CASE ForksRecovered
  BY <1>13 DEF ForksRecovered
<1>14. ASSUME NEW f \in 1..MaxForks, recover_drop(f)
      PROVE  ForkedOK'
  BY <1>14 DEF recover_drop, check_guard, Guard, Free
<1>15. CASE DropsRecovered
  BY <1>15 DEF DropsRecovered
<1>16. CASE DropAuthority
  BY <1>16 DEF DropAuthority
<1>17. CASE DropPath
  BY <1>17 DEF DropPath
<1>18. CASE DropRecord
  BY <1>18 DEF DropRecord
<1>19. CASE DropForget
  BY <1>19 DEF DropForget
<1>20. CASE Retire
  BY <1>20 DEF Retire, begin_drop, check_guard, Guard, Free, Ready
<1>21. CASE CollectChecks
  BY <1>21 DEF CollectChecks, Ready
<1>22. ASSUME NEW f \in 1..MaxForks, CollectCheck(f)
      PROVE  ForkedOK'
  BY <1>22 DEF CollectCheck, begin_drop, check_guard, Guard, Free
<1>23. CASE Collected
  BY <1>23 DEF Collected, Ready
<1>24. CASE ReadPending
  BY <1>24 DEF ReadPending, Ready
<1>25. CASE BeginFork
  BY <1>25 DEF BeginFork, Ready
<1>26. CASE CreateLeaf
  BY <1>26 DEF CreateLeaf
<1>27. CASE NameLeaf
  BY <1>27 DEF NameLeaf
<1>28. CASE PublishDirectory
  BY <1>28 DEF PublishDirectory
<1>29. CASE finish_fork
  BY <1>29 DEF finish_fork, Ready
<1>30. CASE Forked
  BY <1>30 DEF Forked
<1>31. CASE materialize_check
  BY <1>31 DEF materialize_check, Ready
<1>32. CASE seal_check
  BY <1>32 DEF seal_check, Ready
<1>33. ASSUME NEW k \in Candidate, Commands(k)
      PROVE  ForkedOK'
  BY <1>33 DEF Commands, Supervised, SupervisorDies, ForkMember, LeaderExits,
     MembersExit, LimitPasses, monitor, terminate
<1> QED
  BY <1>1, <1>2, <1>3, <1>4, <1>5, <1>6, <1>7, <1>8, <1>9, <1>10, <1>11, <1>12,
     <1>13, <1>14, <1>15, <1>16, <1>17, <1>18, <1>19, <1>20, <1>21, <1>22,
     <1>23, <1>24, <1>25, <1>26, <1>27, <1>28, <1>29, <1>30, <1>31, <1>32,
     <1>33 DEF Next, Sessions

\* The steps of recover_forks and abort_fork.
LEMMA RecoveringStep ==
    ASSUME Typed, Fresh, Distinct, Nameless, ForksOK, WorkersOK, MakingOK,
           RecoveringOK, DropsOK, Accounted, [Next]_vars
    PROVE  RecoveringOK'
<1> USE NoneAssumption DEF vars, durable, Session, ForkSteps, DropSteps,
       MakeSteps, SessionPhases, Phases, LeafRecord, ForkRecord, Worker, Run,
       In, At, Holder, item, Step, Goes, Phase, Leave, Ends, With, Without,
       Idle, Allocated, Alive, Whole, Making, Unrecovered, Fresh, Distinct,
       Nameless, ForksOK, WorkersOK, MakingOK, RecoveringOK, DropsOK,
       Accounted, Typed, TypedData, TypedRun, TypedLocks, TypedWorkers,
       TypedSession, Holders
<1>1. CASE UNCHANGED vars
  BY <1>1
<1>2. ASSUME NEW p \in Proc,
        fork(p) \/ collect(p) \/ (\E k \in Candidate : check(p, k)) \/ (\E l \in 1..MaxForks : drop_leaf(p, l))
      PROVE  RecoveringOK'
  BY <1>2, SMTT(30) DEF fork, collect, check, drop_leaf, Begin
<1>3. ASSUME NEW p \in Proc, Fails(p)
      PROVE  RecoveringOK'
  BY <1>3 DEF Fails
<1>4. ASSUME NEW p \in Proc, TakeLock(p)
      PROVE  RecoveringOK'
  BY <1>4 DEF TakeLock, Free
<1>5. ASSUME NEW p \in Proc, Populate(p)
      PROVE  RecoveringOK'
  BY <1>5 DEF Populate
<1>6. ASSUME NEW p \in Proc, run_check(p)
      PROVE  RecoveringOK'
  BY <1>6 DEF run_check, Command
<1>7. ASSUME NEW p \in Proc, Checked(p)
      PROVE  RecoveringOK'
  BY <1>7 DEF Checked, Succeeded
<1>8. ASSUME NEW p \in Proc, Lock(p)
      PROVE  RecoveringOK'
  BY <1>8 DEF Lock
<1>9. ASSUME NEW f \in 1..MaxForks, recover_fork(f)
      PROVE  RecoveringOK'
  BY <1>9 DEF recover_fork
<1>10. CASE RemoveFork
  BY <1>10 DEF RemoveFork
<1>11. CASE ReleaseFork
  BY <1>11 DEF ReleaseFork
<1>12. CASE ForgetFork
  BY <1>12 DEF ForgetFork
<1>13. CASE ForksRecovered
  BY <1>13 DEF ForksRecovered
<1>14. ASSUME NEW f \in 1..MaxForks, recover_drop(f)
      PROVE  RecoveringOK'
  BY <1>14 DEF recover_drop, check_guard, Guard, Free
<1>15. CASE DropsRecovered
  BY <1>15 DEF DropsRecovered
<1>16. CASE DropAuthority
  BY <1>16 DEF DropAuthority
<1>17. CASE DropPath
  BY <1>17 DEF DropPath
<1>18. CASE DropRecord
  BY <1>18 DEF DropRecord
<1>19. CASE DropForget
  BY <1>19 DEF DropForget
<1>20. CASE Retire
  BY <1>20 DEF Retire, begin_drop, check_guard, Guard, Free, Ready
<1>21. CASE CollectChecks
  BY <1>21 DEF CollectChecks, Ready
<1>22. ASSUME NEW f \in 1..MaxForks, CollectCheck(f)
      PROVE  RecoveringOK'
  BY <1>22 DEF CollectCheck, begin_drop, check_guard, Guard, Free
<1>23. CASE Collected
  BY <1>23 DEF Collected, Ready
<1>24. CASE ReadPending
  BY <1>24 DEF ReadPending, Ready
<1>25. CASE BeginFork
  BY <1>25 DEF BeginFork, Ready
<1>26. CASE CreateLeaf
  BY <1>26 DEF CreateLeaf
<1>27. CASE NameLeaf
  BY <1>27 DEF NameLeaf
<1>28. CASE PublishDirectory
  BY <1>28 DEF PublishDirectory
<1>29. CASE finish_fork
  BY <1>29 DEF finish_fork, Ready
<1>30. CASE Forked
  BY <1>30 DEF Forked
<1>31. CASE materialize_check
  BY <1>31 DEF materialize_check, Ready
<1>32. CASE seal_check
  BY <1>32 DEF seal_check, Ready
<1>33. ASSUME NEW k \in Candidate, Commands(k)
      PROVE  RecoveringOK'
  BY <1>33 DEF Commands, Supervised, SupervisorDies, ForkMember, LeaderExits,
     MembersExit, LimitPasses, monitor, terminate
<1> QED
  BY <1>1, <1>2, <1>3, <1>4, <1>5, <1>6, <1>7, <1>8, <1>9, <1>10, <1>11, <1>12,
     <1>13, <1>14, <1>15, <1>16, <1>17, <1>18, <1>19, <1>20, <1>21, <1>22,
     <1>23, <1>24, <1>25, <1>26, <1>27, <1>28, <1>29, <1>30, <1>31, <1>32,
     <1>33 DEF Next, Sessions

\* A fork that dies is left to the next session, whatever it had done.
LEMMA ForksStep ==
    ASSUME Typed, Fresh, Distinct, DropsDistinct, Nameless, ForksOK, WorkersOK,
           MakingOK, ForkedOK, RecoveringOK, DropsOK, [Next]_vars
    PROVE  ForksOK'
<1> USE NoneAssumption DEF vars, durable, Session, ForkSteps, DropSteps,
       MakeSteps, SessionPhases, Phases, LeafRecord, ForkRecord, Worker, Run,
       In, At, Holder, item, Step, Goes, Phase, Leave, Ends, With, Without,
       Idle, Allocated, Making, Whole, Unrecovered, Alive, Fresh, Distinct,
       DropsDistinct, Nameless, ForksOK, WorkersOK, MakingOK, ForkedOK,
       RecoveringOK, DropsOK, Typed, TypedData, TypedRun, TypedLocks,
       TypedWorkers, TypedSession, Holders
<1>1. CASE UNCHANGED vars
  BY <1>1
<1>2. ASSUME NEW p \in Proc,
        fork(p) \/ collect(p) \/ (\E k \in Candidate : check(p, k)) \/ (\E l \in 1..MaxForks : drop_leaf(p, l))
      PROVE  ForksOK'
  BY <1>2 DEF fork, collect, check, drop_leaf, Begin
<1>3. ASSUME NEW p \in Proc, Fails(p)
      PROVE  ForksOK'
  BY <1>3 DEF Fails
<1>4. ASSUME NEW p \in Proc, TakeLock(p)
      PROVE  ForksOK'
  BY <1>4, SMTT(30) DEF TakeLock, Free
<1>5. ASSUME NEW p \in Proc, Populate(p)
      PROVE  ForksOK'
  BY <1>5 DEF Populate
<1>6. ASSUME NEW p \in Proc, run_check(p)
      PROVE  ForksOK'
  BY <1>6 DEF run_check, Command
<1>7. ASSUME NEW p \in Proc, Checked(p)
      PROVE  ForksOK'
  BY <1>7 DEF Checked, Succeeded
<1>8. ASSUME NEW p \in Proc, Lock(p)
      PROVE  ForksOK'
  BY <1>8 DEF Lock
<1>9. ASSUME NEW f \in 1..MaxForks, recover_fork(f)
      PROVE  ForksOK'
  BY <1>9 DEF recover_fork
<1>10. CASE RemoveFork
  BY <1>10 DEF RemoveFork
<1>11. CASE ReleaseFork
  BY <1>11 DEF ReleaseFork
<1>12. CASE ForgetFork
  BY <1>12 DEF ForgetFork
<1>13. CASE ForksRecovered
  BY <1>13 DEF ForksRecovered
<1>14. ASSUME NEW f \in 1..MaxForks, recover_drop(f)
      PROVE  ForksOK'
  BY <1>14 DEF recover_drop, check_guard, Guard, Free
<1>15. CASE DropsRecovered
  BY <1>15 DEF DropsRecovered
<1>16. CASE DropAuthority
  BY <1>16 DEF DropAuthority
<1>17. CASE DropPath
  BY <1>17 DEF DropPath
<1>18. CASE DropRecord
  BY <1>18 DEF DropRecord
<1>19. CASE DropForget
  BY <1>19 DEF DropForget
<1>20. CASE Retire
  BY <1>20 DEF Retire, begin_drop, check_guard, Guard, Free, Ready
<1>21. CASE CollectChecks
  BY <1>21 DEF CollectChecks, Ready
<1>22. ASSUME NEW f \in 1..MaxForks, CollectCheck(f)
      PROVE  ForksOK'
  BY <1>22 DEF CollectCheck, begin_drop, check_guard, Guard, Free
<1>23. CASE Collected
  BY <1>23 DEF Collected, Ready
<1>24. CASE ReadPending
  BY <1>24 DEF ReadPending, Ready
<1>25. CASE BeginFork
  BY <1>25 DEF BeginFork, Ready
<1>26. CASE CreateLeaf
  BY <1>26 DEF CreateLeaf
<1>27. CASE NameLeaf
  BY <1>27 DEF NameLeaf
<1>28. CASE PublishDirectory
  BY <1>28 DEF PublishDirectory
<1>29. CASE finish_fork
  BY <1>29 DEF finish_fork, Ready
<1>30. CASE Forked
  BY <1>30 DEF Forked
<1>31. CASE materialize_check
  BY <1>31 DEF materialize_check, Ready
<1>32. CASE seal_check
  BY <1>32 DEF seal_check, Ready
<1>33. ASSUME NEW k \in Candidate, Commands(k)
      PROVE  ForksOK'
  BY <1>33 DEF Commands, Supervised, SupervisorDies, ForkMember, LeaderExits,
     MembersExit, LimitPasses, monitor, terminate
<1> QED
  BY <1>1, <1>2, <1>3, <1>4, <1>5, <1>6, <1>7, <1>8, <1>9, <1>10, <1>11, <1>12,
     <1>13, <1>14, <1>15, <1>16, <1>17, <1>18, <1>19, <1>20, <1>21, <1>22,
     <1>23, <1>24, <1>25, <1>26, <1>27, <1>28, <1>29, <1>30, <1>31, <1>32,
     <1>33 DEF Next, Sessions

\* The steps of recover_drops and finish_drop.
LEMMA DropsStep ==
    ASSUME Typed, DropsDistinct, WorkersOK, ForkedOK, DropsOK, [Next]_vars
    PROVE  DropsOK'
<1> USE NoneAssumption DEF vars, durable, Session, ForkSteps, DropSteps,
       MakeSteps, SessionPhases, Phases, LeafRecord, ForkRecord, Worker, Run,
       In, At, Holder, item, Step, Goes, Phase, Leave, Ends, With, Without,
       Idle, DropsDistinct, WorkersOK, ForkedOK, DropsOK, Typed, TypedData,
       TypedRun, TypedLocks, TypedWorkers, TypedSession, Holders
<1>1. CASE UNCHANGED vars
  BY <1>1
<1>2. ASSUME NEW p \in Proc,
        fork(p) \/ collect(p) \/ (\E k \in Candidate : check(p, k)) \/ (\E l \in 1..MaxForks : drop_leaf(p, l))
      PROVE  DropsOK'
  BY <1>2 DEF fork, collect, check, drop_leaf, Begin
<1>3. ASSUME NEW p \in Proc, Fails(p)
      PROVE  DropsOK'
  BY <1>3 DEF Fails
<1>4. ASSUME NEW p \in Proc, TakeLock(p)
      PROVE  DropsOK'
  BY <1>4 DEF TakeLock, Free
<1>5. ASSUME NEW p \in Proc, Populate(p)
      PROVE  DropsOK'
  BY <1>5 DEF Populate
<1>6. ASSUME NEW p \in Proc, run_check(p)
      PROVE  DropsOK'
  BY <1>6 DEF run_check, Command
<1>7. ASSUME NEW p \in Proc, Checked(p)
      PROVE  DropsOK'
  BY <1>7 DEF Checked, Succeeded
<1>8. ASSUME NEW p \in Proc, Lock(p)
      PROVE  DropsOK'
  BY <1>8 DEF Lock
<1>9. ASSUME NEW f \in 1..MaxForks, recover_fork(f)
      PROVE  DropsOK'
  BY <1>9 DEF recover_fork
<1>10. CASE RemoveFork
  BY <1>10 DEF RemoveFork
<1>11. CASE ReleaseFork
  BY <1>11 DEF ReleaseFork
<1>12. CASE ForgetFork
  BY <1>12 DEF ForgetFork
<1>13. CASE ForksRecovered
  BY <1>13 DEF ForksRecovered
<1>14. ASSUME NEW f \in 1..MaxForks, recover_drop(f)
      PROVE  DropsOK'
  <2>1. CASE check_guard(drops[f])
    <3>1. /\ session'.step = "drop.authority" /\ session'.mode = session.mode
          /\ session'.item = f /\ session'.rest = session.rest \ {f}
          /\ session'.proc = session.proc
          /\ session.step = "drops" /\ f \in session.rest /\ session # None
      BY <1>14, <2>1 DEF recover_drop
    <3> QED
      BY <1>14, <2>1, <3>1 DEF recover_drop
  <2>2. CASE ~check_guard(drops[f])
    BY <1>14, <2>2 DEF recover_drop
  <2> QED
    BY <2>1, <2>2
<1>15. CASE DropsRecovered
  BY <1>15 DEF DropsRecovered
<1>16. CASE DropAuthority
  BY <1>16 DEF DropAuthority
<1>17. CASE DropPath
  BY <1>17 DEF DropPath
<1>18. CASE DropRecord
  BY <1>18 DEF DropRecord
<1>19. CASE DropForget
  BY <1>19 DEF DropForget
<1>20. CASE Retire
  BY <1>20 DEF Retire, begin_drop, check_guard, Guard, Free, Ready
<1>21. CASE CollectChecks
  BY <1>21 DEF CollectChecks, Ready
<1>22. ASSUME NEW f \in 1..MaxForks, CollectCheck(f)
      PROVE  DropsOK'
  BY <1>22 DEF CollectCheck, begin_drop, check_guard, Guard, Free
<1>23. CASE Collected
  BY <1>23 DEF Collected, Ready
<1>24. CASE ReadPending
  BY <1>24 DEF ReadPending, Ready
<1>25. CASE BeginFork
  BY <1>25 DEF BeginFork, Ready
<1>26. CASE CreateLeaf
  BY <1>26 DEF CreateLeaf
<1>27. CASE NameLeaf
  BY <1>27 DEF NameLeaf
<1>28. CASE PublishDirectory
  BY <1>28 DEF PublishDirectory
<1>29. CASE finish_fork
  BY <1>29 DEF finish_fork, Ready
<1>30. CASE Forked
  BY <1>30 DEF Forked
<1>31. CASE materialize_check
  BY <1>31 DEF materialize_check, Ready
<1>32. CASE seal_check
  BY <1>32 DEF seal_check, Ready
<1>33. ASSUME NEW k \in Candidate, Commands(k)
      PROVE  DropsOK'
  BY <1>33 DEF Commands, Supervised, SupervisorDies, ForkMember, LeaderExits,
     MembersExit, LimitPasses, monitor, terminate
<1> QED
  BY <1>1, <1>2, <1>3, <1>4, <1>5, <1>6, <1>7, <1>8, <1>9, <1>10, <1>11, <1>12,
     <1>13, <1>14, <1>15, <1>16, <1>17, <1>18, <1>19, <1>20, <1>21, <1>22,
     <1>23, <1>24, <1>25, <1>26, <1>27, <1>28, <1>29, <1>30, <1>31, <1>32,
     <1>33 DEF Next, Sessions

\* A guard takes a lock from nobody.
LEMMA GuardAdds ==
    ASSUME TypedLocks, NEW leaf, Guard(leaf)
    PROVE  \A k \in Candidate : locks[k] \subseteq locks'[k]
  BY DEF TypedLocks, Guard

\* A drop takes the check's lock only from nobody.
LEMMA LocksStep ==
    ASSUME TypedLocks, TypedWorkers, TypedSession, Holders, MakingOK, ForkedOK,
           DropsOK, LocksOK, [Next]_vars
    PROVE  LocksOK'
<1> USE NoneAssumption DEF vars, durable, Session, ForkSteps, DropSteps,
       MakeSteps, SessionPhases, Phases, LeafRecord, ForkRecord, Worker, Run,
       In, At, Holder, item, Step, Goes, Phase, Leave, Ends, With, Without,
       Idle, Holding, Holds, Living, TypedLocks, TypedWorkers, TypedSession,
       Holders, MakingOK, ForkedOK, DropsOK, LocksOK
<1>1. CASE UNCHANGED vars
  BY <1>1
<1>2. ASSUME NEW p \in Proc,
        fork(p) \/ collect(p) \/ (\E k \in Candidate : check(p, k)) \/ (\E l \in 1..MaxForks : drop_leaf(p, l))
      PROVE  LocksOK'
  BY <1>2 DEF fork, collect, check, drop_leaf, Begin
<1>3. ASSUME NEW p \in Proc, Fails(p)
      PROVE  LocksOK'
  BY <1>3 DEF Fails
<1>4. ASSUME NEW p \in Proc, TakeLock(p)
      PROVE  LocksOK'
  BY <1>4, SMTT(30) DEF TakeLock, Free
<1>5. ASSUME NEW p \in Proc, Populate(p)
      PROVE  LocksOK'
  BY <1>5 DEF Populate
<1>6. ASSUME NEW p \in Proc, run_check(p)
      PROVE  LocksOK'
  BY <1>6 DEF run_check, Command
<1>7. ASSUME NEW p \in Proc, Checked(p)
      PROVE  LocksOK'
  BY <1>7, SMTT(30) DEF Checked, Succeeded
<1>8. ASSUME NEW p \in Proc, Lock(p)
      PROVE  LocksOK'
  BY <1>8 DEF Lock
<1>9. ASSUME NEW f \in 1..MaxForks, recover_fork(f)
      PROVE  LocksOK'
  BY <1>9 DEF recover_fork
<1>10. CASE RemoveFork
  BY <1>10 DEF RemoveFork
<1>11. CASE ReleaseFork
  BY <1>11 DEF ReleaseFork
<1>12. CASE ForgetFork
  BY <1>12 DEF ForgetFork
<1>13. CASE ForksRecovered
  BY <1>13 DEF ForksRecovered
<1>14. ASSUME NEW f \in 1..MaxForks, recover_drop(f)
      PROVE  LocksOK'
  BY <1>14, SMTT(30) DEF recover_drop, check_guard, Guard, Free
<1>15. CASE DropsRecovered
  BY <1>15 DEF DropsRecovered
<1>16. CASE DropAuthority
  BY <1>16 DEF DropAuthority
<1>17. CASE DropPath
  BY <1>17 DEF DropPath
<1>18. CASE DropRecord
  BY <1>18 DEF DropRecord
<1>19. CASE DropForget
  BY <1>19 DEF DropForget
<1>20. CASE Retire
  <2> DEFINE l == worker[Holder].leaf
  <2>1. session # None /\ UNCHANGED run
    BY <1>20 DEF Retire, Ready
  <2>2. CASE l \in DOMAIN leaves /\ check_guard(leaves[l])
    <3>1. begin_drop(l, "end")
      BY <1>20, <2>2 DEF Retire
    <3>2. /\ DOMAIN drops' = DOMAIN drops \cup {l} /\ drops'[l] = leaves[l]
          /\ session'.item = l /\ session'.proc = session.proc /\ UNCHANGED worker
      BY <2>2, <3>1 DEF begin_drop
    <3>3. \A p \in Proc : Holds(p, drops'[l].check) => drops'[l].check = None
      BY <2>2, <3>1, <3>2 DEF check_guard, Free
    <3>4. \A k \in Candidate : locks[k] \subseteq locks'[k]
      BY <3>1, GuardAdds DEF begin_drop
    <3>5. drops'[l].check # None => ~Holds(Holder, drops'[l].check)
      BY <2>1, <3>3
    <3> QED
      BY <3>2, <3>4, <3>5
  <2>3. CASE ~(l \in DOMAIN leaves /\ check_guard(leaves[l]))
    <3>1. Ends(Holder) /\ UNCHANGED durable
      BY <1>20, <2>3 DEF Retire
    <3> QED
      BY <2>1, <3>1
  <2> QED
    BY <2>2, <2>3
<1>21. CASE CollectChecks
  BY <1>21 DEF CollectChecks, Ready
<1>22. ASSUME NEW f \in 1..MaxForks, CollectCheck(f)
      PROVE  LocksOK'
  BY <1>22 DEF CollectCheck, begin_drop, check_guard, Guard, Free
<1>23. CASE Collected
  BY <1>23 DEF Collected, Ready
<1>24. CASE ReadPending
  BY <1>24 DEF ReadPending, Ready
<1>25. CASE BeginFork
  BY <1>25 DEF BeginFork, Ready
<1>26. CASE CreateLeaf
  BY <1>26 DEF CreateLeaf
<1>27. CASE NameLeaf
  BY <1>27 DEF NameLeaf
<1>28. CASE PublishDirectory
  BY <1>28 DEF PublishDirectory
<1>29. CASE finish_fork
  BY <1>29 DEF finish_fork, Ready
<1>30. CASE Forked
  BY <1>30 DEF Forked
<1>31. CASE materialize_check
  BY <1>31 DEF materialize_check, Ready
<1>32. CASE seal_check
  BY <1>32 DEF seal_check, Ready
<1>33. ASSUME NEW k \in Candidate, Commands(k)
      PROVE  LocksOK'
  BY <1>33 DEF Commands, Supervised, SupervisorDies, ForkMember, LeaderExits,
     MembersExit, LimitPasses, monitor, terminate
<1> QED
  BY <1>1, <1>2, <1>3, <1>4, <1>5, <1>6, <1>7, <1>8, <1>9, <1>10, <1>11, <1>12,
     <1>13, <1>14, <1>15, <1>16, <1>17, <1>18, <1>19, <1>20, <1>21, <1>22,
     <1>23, <1>24, <1>25, <1>26, <1>27, <1>28, <1>29, <1>30, <1>31, <1>32,
     <1>33 DEF Next, Sessions

\* Nothing that ends a leaf reaches the leaf of a held check.
LEMMA WorksStep ==
    ASSUME TypedData, TypedWorkers, TypedSession, Holders, Fresh, ForksOK,
           WorkersOK, MakingOK, ForkedOK, RecoveringOK, DropsOK, LocksOK,
           WorksOK, [Next]_vars
    PROVE  WorksOK'
<1> USE NoneAssumption DEF vars, durable, Session, ForkSteps, DropSteps,
       MakeSteps, SessionPhases, Phases, LeafRecord, ForkRecord, Worker, Run,
       In, At, Holder, item, Step, Goes, Phase, Leave, Ends, With, Without,
       Idle, Works, Holding, Allocated, Holds, Living, Whole, Making,
       Unrecovered, TypedData, TypedWorkers, TypedSession, Holders, Fresh,
       ForksOK, WorkersOK, MakingOK, ForkedOK, RecoveringOK, DropsOK, LocksOK,
       WorksOK
<1>1. CASE UNCHANGED vars
  BY <1>1
<1>2. ASSUME NEW p \in Proc,
        fork(p) \/ collect(p) \/ (\E k \in Candidate : check(p, k)) \/ (\E l \in 1..MaxForks : drop_leaf(p, l))
      PROVE  WorksOK'
  BY <1>2 DEF fork, collect, check, drop_leaf, Begin
<1>3. ASSUME NEW p \in Proc, Fails(p)
      PROVE  WorksOK'
  BY <1>3 DEF Fails
<1>4. ASSUME NEW p \in Proc, TakeLock(p)
      PROVE  WorksOK'
  BY <1>4 DEF TakeLock, Free
<1>5. ASSUME NEW p \in Proc, Populate(p)
      PROVE  WorksOK'
  BY <1>5 DEF Populate
<1>6. ASSUME NEW p \in Proc, run_check(p)
      PROVE  WorksOK'
  BY <1>6 DEF run_check, Command
<1>7. ASSUME NEW p \in Proc, Checked(p)
      PROVE  WorksOK'
  BY <1>7 DEF Checked, Succeeded
<1>8. ASSUME NEW p \in Proc, Lock(p)
      PROVE  WorksOK'
  BY <1>8 DEF Lock
<1>9. ASSUME NEW f \in 1..MaxForks, recover_fork(f)
      PROVE  WorksOK'
  BY <1>9 DEF recover_fork
<1>10. CASE RemoveFork
  BY <1>10 DEF RemoveFork
<1>11. CASE ReleaseFork
  BY <1>11 DEF ReleaseFork
<1>12. CASE ForgetFork
  BY <1>12 DEF ForgetFork
<1>13. CASE ForksRecovered
  BY <1>13 DEF ForksRecovered
<1>14. ASSUME NEW f \in 1..MaxForks, recover_drop(f)
      PROVE  WorksOK'
  BY <1>14 DEF recover_drop, check_guard, Guard, Free
<1>15. CASE DropsRecovered
  BY <1>15 DEF DropsRecovered
<1>16. CASE DropAuthority
  BY <1>16 DEF DropAuthority
<1>17. CASE DropPath
  BY <1>17 DEF DropPath
<1>18. CASE DropRecord
  BY <1>18 DEF DropRecord
<1>19. CASE DropForget
  BY <1>19 DEF DropForget
<1>20. CASE Retire
  <2> DEFINE l == worker[Holder].leaf
  <2>1. session # None /\ UNCHANGED run
    BY <1>20 DEF Retire, Ready
  <2>2. CASE l \in DOMAIN leaves /\ check_guard(leaves[l])
    <3>1. begin_drop(l, "end")
      BY <1>20, <2>2 DEF Retire
    <3>2. \A p \in Proc : Holds(p, leaves[l].check) => leaves[l].check = None
      BY <2>2, <3>1 DEF check_guard, Free
    <3> QED
      BY <2>1, <2>2, <3>1, <3>2 DEF begin_drop
  <2>3. CASE ~(l \in DOMAIN leaves /\ check_guard(leaves[l]))
    <3>1. Ends(Holder) /\ UNCHANGED durable
      BY <1>20, <2>3 DEF Retire
    <3> QED
      BY <2>1, <3>1
  <2> QED
    BY <2>2, <2>3
<1>21. CASE CollectChecks
  BY <1>21 DEF CollectChecks, Ready
<1>22. ASSUME NEW f \in 1..MaxForks, CollectCheck(f)
      PROVE  WorksOK'
  BY <1>22 DEF CollectCheck, begin_drop, check_guard, Guard, Free
<1>23. CASE Collected
  BY <1>23 DEF Collected, Ready
<1>24. CASE ReadPending
  BY <1>24 DEF ReadPending, Ready
<1>25. CASE BeginFork
  BY <1>25 DEF BeginFork, Ready
<1>26. CASE CreateLeaf
  BY <1>26 DEF CreateLeaf
<1>27. CASE NameLeaf
  BY <1>27 DEF NameLeaf
<1>28. CASE PublishDirectory
  BY <1>28 DEF PublishDirectory
<1>29. CASE finish_fork
  BY <1>29 DEF finish_fork, Ready
<1>30. CASE Forked
  BY <1>30 DEF Forked
<1>31. CASE materialize_check
  BY <1>31 DEF materialize_check, Ready
<1>32. CASE seal_check
  BY <1>32 DEF seal_check, Ready
<1>33. ASSUME NEW k \in Candidate, Commands(k)
      PROVE  WorksOK'
  BY <1>33 DEF Commands, Supervised, SupervisorDies, ForkMember, LeaderExits,
     MembersExit, LimitPasses, monitor, terminate
<1> QED
  BY <1>1, <1>2, <1>3, <1>4, <1>5, <1>6, <1>7, <1>8, <1>9, <1>10, <1>11, <1>12,
     <1>13, <1>14, <1>15, <1>16, <1>17, <1>18, <1>19, <1>20, <1>21, <1>22,
     <1>23, <1>24, <1>25, <1>26, <1>27, <1>28, <1>29, <1>30, <1>31, <1>32,
     <1>33 DEF Next, Sessions

\* Nor the leaf of a living command, which keeps the lock taken.
LEMMA RunStep ==
    ASSUME TypedData, TypedRun, TypedWorkers, TypedSession, Fresh, ForksOK,
           WorkersOK, RecoveringOK, DropsOK, LocksOK, WorksOK, RunOK,
           [Next]_vars
    PROVE  RunOK'
<1> USE NoneAssumption DEF vars, durable, Session, ForkSteps, DropSteps,
       MakeSteps, SessionPhases, Phases, LeafRecord, ForkRecord, Worker, Run,
       In, At, Holder, item, Step, Goes, Phase, Leave, Ends, With, Without,
       Idle, Works, Holding, Living, Allocated, Whole, Making, Unrecovered,
       TypedData, TypedRun, TypedWorkers, TypedSession, Fresh, ForksOK,
       WorkersOK, RecoveringOK, DropsOK, LocksOK, WorksOK, RunOK
<1>1. CASE UNCHANGED vars
  BY <1>1
<1>2. ASSUME NEW p \in Proc,
        fork(p) \/ collect(p) \/ (\E k \in Candidate : check(p, k)) \/ (\E l \in 1..MaxForks : drop_leaf(p, l))
      PROVE  RunOK'
  BY <1>2 DEF fork, collect, check, drop_leaf, Begin
<1>3. ASSUME NEW p \in Proc, Fails(p)
      PROVE  RunOK'
  BY <1>3 DEF Fails
<1>4. ASSUME NEW p \in Proc, TakeLock(p)
      PROVE  RunOK'
  BY <1>4 DEF TakeLock, Free
<1>5. ASSUME NEW p \in Proc, Populate(p)
      PROVE  RunOK'
  BY <1>5 DEF Populate
<1>6. ASSUME NEW p \in Proc, run_check(p)
      PROVE  RunOK'
  BY <1>6 DEF run_check, Command
<1>7. ASSUME NEW p \in Proc, Checked(p)
      PROVE  RunOK'
  BY <1>7 DEF Checked, Succeeded
<1>8. ASSUME NEW p \in Proc, Lock(p)
      PROVE  RunOK'
  BY <1>8 DEF Lock
<1>9. ASSUME NEW f \in 1..MaxForks, recover_fork(f)
      PROVE  RunOK'
  BY <1>9 DEF recover_fork
<1>10. CASE RemoveFork
  BY <1>10 DEF RemoveFork
<1>11. CASE ReleaseFork
  BY <1>11 DEF ReleaseFork
<1>12. CASE ForgetFork
  BY <1>12 DEF ForgetFork
<1>13. CASE ForksRecovered
  BY <1>13 DEF ForksRecovered
<1>14. ASSUME NEW f \in 1..MaxForks, recover_drop(f)
      PROVE  RunOK'
  BY <1>14 DEF recover_drop, check_guard, Guard, Free
<1>15. CASE DropsRecovered
  BY <1>15 DEF DropsRecovered
<1>16. CASE DropAuthority
  BY <1>16 DEF DropAuthority
<1>17. CASE DropPath
  BY <1>17 DEF DropPath
<1>18. CASE DropRecord
  BY <1>18 DEF DropRecord
<1>19. CASE DropForget
  BY <1>19 DEF DropForget
<1>20. CASE Retire
  <2> DEFINE l == worker[Holder].leaf
  <2>1. session # None /\ UNCHANGED run
    BY <1>20 DEF Retire, Ready
  <2>2. CASE l \in DOMAIN leaves /\ check_guard(leaves[l])
    <3>1. begin_drop(l, "end")
      BY <1>20, <2>2 DEF Retire
    <3>2. \A k \in Candidate : Living(k) => run[k].leaf # l
      BY <2>2, <3>1 DEF check_guard, Free
    <3> QED
      BY <2>1, <2>2, <3>1, <3>2 DEF begin_drop
  <2>3. CASE ~(l \in DOMAIN leaves /\ check_guard(leaves[l]))
    <3>1. Ends(Holder) /\ UNCHANGED durable
      BY <1>20, <2>3 DEF Retire
    <3> QED
      BY <2>1, <3>1
  <2> QED
    BY <2>2, <2>3
<1>21. CASE CollectChecks
  BY <1>21 DEF CollectChecks, Ready
<1>22. ASSUME NEW f \in 1..MaxForks, CollectCheck(f)
      PROVE  RunOK'
  BY <1>22 DEF CollectCheck, begin_drop, check_guard, Guard, Free
<1>23. CASE Collected
  BY <1>23 DEF Collected, Ready
<1>24. CASE ReadPending
  BY <1>24 DEF ReadPending, Ready
<1>25. CASE BeginFork
  BY <1>25 DEF BeginFork, Ready
<1>26. CASE CreateLeaf
  BY <1>26 DEF CreateLeaf
<1>27. CASE NameLeaf
  BY <1>27 DEF NameLeaf
<1>28. CASE PublishDirectory
  BY <1>28 DEF PublishDirectory
<1>29. CASE finish_fork
  BY <1>29 DEF finish_fork, Ready
<1>30. CASE Forked
  BY <1>30 DEF Forked
<1>31. CASE materialize_check
  BY <1>31 DEF materialize_check, Ready
<1>32. CASE seal_check
  BY <1>32 DEF seal_check, Ready
<1>33. ASSUME NEW k \in Candidate, Commands(k)
      PROVE  RunOK'
  BY <1>33 DEF Commands, Supervised, SupervisorDies, ForkMember, LeaderExits,
     MembersExit, LimitPasses, monitor, terminate
<1> QED
  BY <1>1, <1>2, <1>3, <1>4, <1>5, <1>6, <1>7, <1>8, <1>9, <1>10, <1>11, <1>12,
     <1>13, <1>14, <1>15, <1>16, <1>17, <1>18, <1>19, <1>20, <1>21, <1>22,
     <1>23, <1>24, <1>25, <1>26, <1>27, <1>28, <1>29, <1>30, <1>31, <1>32,
     <1>33 DEF Next, Sessions

\* An empty workspace.
LEMMA InvInit == Init => IInv
<1> SUFFICES ASSUME Init PROVE IInv
  OBVIOUS
<1> USE NoneAssumption DEF Init, Nothing, Idle
<1>1. TypedData /\ TypedRun /\ TypedLocks /\ TypedSession /\ Holders
  BY DEF TypedData, TypedRun, TypedLocks, TypedSession, Holders
<1>2. TypedWorkers
  BY DEF TypedWorkers, Worker, Phases
<1>3. Fresh /\ Distinct /\ DropsDistinct /\ Nameless /\ ForksOK /\ Accounted
  BY DEF Fresh, Distinct, DropsDistinct, Nameless, ForksOK, Accounted
<1>4. WorkersOK /\ MakingOK /\ ForkedOK /\ RecoveringOK /\ DropsOK
  BY DEF WorkersOK, MakingOK, ForkedOK, RecoveringOK, DropsOK, In, At
<1>5. LocksOK /\ WorksOK /\ RunOK
  BY DEF LocksOK, WorksOK, RunOK, Holding, In, Living
<1> QED
  BY <1>1, <1>2, <1>3, <1>4, <1>5 DEF IInv, Typed

LEMMA InvStep == IInv /\ [Next]_vars => IInv'
<1> SUFFICES ASSUME IInv, [Next]_vars PROVE IInv'
  OBVIOUS
<1> USE DEF IInv
<1>1. TypedData' /\ TypedWorkers' /\ TypedSession' /\ Holders' /\ TypedRun' /\ TypedLocks'
  BY DataStep, WorkersTypes, SessionTypes, HoldersStep, RunTypes, LocksTypes DEF Typed
<1>2. Typed'
  BY <1>1 DEF Typed
<1>3. Fresh' /\ Distinct' /\ DropsDistinct' /\ Nameless' /\ Accounted'
  BY FreshStep, DistinctStep, DropsDistinctStep, NamelessStep, AccountedStep
<1>4. WorkersOK' /\ MakingOK' /\ ForkedOK' /\ RecoveringOK' /\ ForksOK' /\ DropsOK'
  BY WorkersStep, MakingStep, ForkedStep, RecoveringStep, ForksStep, DropsStep DEF Typed
<1>5. LocksOK' /\ WorksOK' /\ RunOK'
  BY LocksStep, WorksStep, RunStep DEF Typed
<1> QED
  BY <1>2, <1>3, <1>4, <1>5

LEMMA Invariance == Spec => []IInv
  BY InvInit, InvStep, PTL DEF Spec
-----------------------------------------------------------------------------
\* Once a session has reconciled, every identity and every checkout belongs to
\* a recorded leaf or to a journaled fork, whatever was killed before and
\* wherever (leaves.rs recover_forks, lifecycle.rs recover_drops).
THEOREM NothingIsLeftOver == Spec => []LeavesAgree
<1>1. IInv => LeavesAgree
  <2> SUFFICES ASSUME IInv, At("ready")
               PROVE  /\ \A f \in DOMAIN forks : forks[f].leaf # None
                      /\ active = DOMAIN leaves \cup {forks[f].leaf : f \in DOMAIN forks}
                      /\ dirs = {leaves[l].dir : l \in DOMAIN leaves} \cup DOMAIN forks
    BY DEF LeavesAgree
  <2>1. DOMAIN drops = {}
    BY DEF IInv, DropsOK, In, At
  <2>2. \A f \in DOMAIN forks : Whole(f)
    BY DEF IInv, ForksOK, Making, Unrecovered, In, At, ForkSteps, MakeSteps
  <2>3. \A f \in DOMAIN forks : forks[f].leaf \in active /\ forks[f].leaf # None /\ f \in dirs
    BY <2>2, NoneAssumption DEF Whole, IInv, Typed, TypedData
  <2>4. \A f \in DOMAIN forks : Allocated(f) = {forks[f].leaf}
    BY <2>3 DEF Allocated
  <2> QED
    BY <2>1, <2>3, <2>4 DEF IInv, Accounted
<1> QED
  BY <1>1, Invariance, PTL

\* While a check's command or a descendant of it lives, its leaf has its
\* identity, its record and its checkout and nobody retires it, whichever of
\* the coordinator and the supervisor died (lifecycle.rs check_guard).
THEOREM LivingChecksKeepTheirLeaf == Spec => []RunningCheckKeepsLeaf
<1>1. IInv => RunningCheckKeepsLeaf
  BY DEF IInv, RunOK, Works, Accounted, RunningCheckKeepsLeaf
<1> QED
  BY <1>1, Invariance, PTL

=============================================================================
