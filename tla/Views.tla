-------------------------------- MODULE Views -------------------------------
(***************************************************************************)
(* Journaled views of one leaf (views.rs, resolution.rs, session.rs).      *)
(*                                                                         *)
(* acquire, sync, discard and resolve change three things that no          *)
(* transaction spans: the leaf's files, its record, and the reservations   *)
(* held by the metadata authority.  Each writes a journal first; whoever   *)
(* takes the session lock next completes or aborts what it finds there.    *)
(*                                                                         *)
(* A process may die between any two steps, also of a recovery, and also   *)
(* half way through cloning a file or removing the journal.  The user      *)
(* edits files whenever no session runs, an administrator may revoke a     *)
(* reservation at any time, and other leaves reserve, publish and release. *)
(***************************************************************************)
EXTENDS Installation

CONSTANTS
    Other,     \* stands for every other holder of a reservation
    Tree,      \* file trees the leaf may have been forked from
    Pending,   \* captures it may have outstanding: paths to captured values
    Requests,  \* sets of paths a caller acquires or discards
    Choices,   \* paths to "local" or "published": what a caller resolves
    Torn,      \* what a kill can leave half done: "clone", "cleanup"
    Budgets    \* bounds: how often each thing happens

ASSUME TornAssumption == Torn \subseteq {"clone", "cleanup"}

\* Functions on some of the paths.
Partial(set) == UNION {[paths -> set] : paths \in SUBSET Path}

\* Callers and captures name paths of the tree and images of files.
ASSUME ArgumentsAssumption ==
    /\ Tree \subseteq Files /\ Pending \subseteq Partial(Image)
    /\ Requests \subseteq SUBSET Path /\ Choices \subseteq Partial({"local", "published"})

\* What the files on disk say: a reservation, the leaf record, the journal of
\* a view operation.
Grant == [token : Nat, origin : Image, activated : BOOLEAN]
LeafRecord ==
    [origins : [Path -> Image], head : Nat, grants : Partial(Grant), pending : Partial(Image)]
Journal ==
    [kind : {"acquire", "sync", "discard"}, before : LeafRecord, after : LeafRecord \cup {None},
     paths : SUBSET Path, tokens : SUBSET Nat, grants : Partial(Grant),
     install : Changes \cup {None}, images : BOOLEAN, torn : SUBSET ({"apply", "rollback"} \X Path),
     gives : SUBSET Path, takes : SUBSET Path]

ASSUME NoneAssumption == None \notin LeafRecord \cup Journal \cup Changes

VARIABLES
    disk, head,   \* the leaf's files and the version its Git worktree is at
    rec,          \* the leaf record: origins, head, grants, pending
    lease, next,  \* the authority's reservations and next token
    tip, version, \* the published tree and its version
    journal,      \* the view operation on disk, or None
    call,         \* the session that holds the lock, or None
    failure,      \* how the last session ended, None if well
    kept, mine,   \* ghosts: files as the user last had them, paths he wrote
    budget        \* what the bounds leave

authority == <<lease, next, tip, version>>
files == <<disk, head>>
ghosts == <<kept, mine>>
vars == <<files, rec, authority, journal, call, failure, ghosts, budget>>

Nothing == [p \in {} |-> None]
Ours(l) == l \notin {None, Other}

\* A captured path is reserved, and the file still holds the captured value.
Init ==
    \E tree \in Tree, pending \in Pending, b \in Budgets :
        LET grants == [p \in DOMAIN pending |->
                         [token |-> 1, origin |-> tree[p], activated |-> TRUE]]
        IN  /\ disk = [p \in Path |-> IF p \in DOMAIN pending THEN pending[p] ELSE tree[p]]
            /\ disk \in Files /\ \A p \in DOMAIN pending : pending[p] # tree[p]
            /\ rec = [origins |-> tree, head |-> 1, grants |-> grants, pending |-> pending]
            /\ lease = [p \in Path |-> IF p \in DOMAIN pending THEN grants[p] ELSE None]
            /\ head = 1 /\ version = 1 /\ tip = tree /\ next = 2
            /\ journal = None /\ call = None /\ failure = None
            /\ kept = disk /\ mine = {} /\ budget = b

Spend(what) == budget[what] > 0 /\ budget' = [budget EXCEPT ![what] = @ - 1]

-----------------------------------------------------------------------------
\* The world around sessions.

\* The caller excludes writers while a session runs.
Edit(p, v) ==
    /\ call = None /\ v # disk[p] /\ Spend("edits")
    /\ [disk EXCEPT ![p] = v] \in Files
    /\ disk' = [disk EXCEPT ![p] = v]
    /\ kept' = [kept EXCEPT ![p] = v]
    /\ mine' = mine \cup {p}
    /\ UNCHANGED <<head, rec, authority, journal, call, failure>>

Overlaps(p, q) == p = q \/ Inside(p, q) \/ Inside(q, p)

\* Other leaves need the session lock, which reconciles the journal first.
OtherReserves(p) ==
    /\ call = None /\ journal = None /\ Spend("others")
    /\ \A q \in Path : Overlaps(p, q) => lease[q] = None
    /\ lease' = [lease EXCEPT ![p] = Other]
    /\ UNCHANGED <<files, rec, next, tip, version, journal, call, failure, ghosts>>

OtherPublishes(p, v) ==
    /\ call = None /\ journal = None /\ lease[p] = Other /\ v # tip[p]
    /\ [tip EXCEPT ![p] = v] \in Files
    /\ tip' = [tip EXCEPT ![p] = v]
    /\ version' = version + 1
    /\ lease' = [lease EXCEPT ![p] = None]
    /\ UNCHANGED <<files, rec, next, journal, call, failure, ghosts, budget>>

\* An administrator takes the leaf's reservation away.
Revoke(p) ==
    /\ Ours(lease[p]) /\ Spend("revokes")
    /\ lease' = [lease EXCEPT ![p] = None]
    /\ UNCHANGED <<files, rec, next, tip, version, journal, call, failure, ghosts>>

-----------------------------------------------------------------------------
\* Sessions.  step is what the session does next, plan what it computed for
\* that step, finished the paths this pass has dealt with.

Session(step, recovering) ==
    [step |-> step, recovering |-> recovering, choices |-> Nothing,
     plan |-> Nothing, finished |-> {}]

Go(step, plan) ==
    call' = [call EXCEPT !.step = step, !.plan = plan, !.finished = {}]
Finish(p) == call' = [call EXCEPT !.finished = @ \cup {p}]
At(step) == call # None /\ call.step = step

\* The call returns an error and releases the lock; the journal stays.
Fail ==
    /\ failure' = IF call.recovering THEN "blocked" ELSE "refused"
    /\ call' = None
    /\ UNCHANGED <<files, rec, authority, journal, ghosts, budget>>

Crash ==
    /\ call # None /\ Spend("crashes")
    /\ call' = None /\ failure' = "crash"
    /\ UNCHANGED <<files, rec, authority, journal, ghosts>>

\* lock: whatever was interrupted is recovered before anything else.
Lock ==
    /\ call = None /\ Spend("sessions")
    /\ call' = Session(IF journal = None THEN "ready" ELSE "recover", journal # None)
    /\ failure' = None
    /\ UNCHANGED <<files, rec, authority, journal, ghosts>>

\* A session that only recovers, or whose arguments are refused.
Return ==
    /\ At("ready") /\ call' = None
    /\ UNCHANGED <<files, rec, authority, journal, failure, ghosts, budget>>

Captured(p) == p \in DOMAIN rec.pending
Baseline(r, p) == IF p \in DOMAIN r.pending THEN r.pending[p] ELSE r.origins[p]

\* validate_leaf: the worktree is at the commit its record names.
validate_leaf == head = rec.head

\* gives and takes are ghosts: what the caller says of private values.
begin_view(kind, paths, after, gives, takes) ==
    journal' = [kind |-> kind, before |-> rec, paths |-> paths, after |-> after,
                tokens |-> {lease[p].token : p \in {q \in Path : Ours(lease[q])}},
                grants |-> Nothing, install |-> None, images |-> TRUE,
                torn |-> {}, gives |-> gives, takes |-> takes]

\* Directories are acquired with every file in the leaf or the published tree.
acquire(requested) ==
    LET selected == requested \cup
            {p \in Path : (disk[p] # None \/ tip[p] # None) /\ Above(p) \cap requested # {}}
    IN  /\ At("ready") /\ validate_leaf
        /\ begin_view("acquire", selected, None, {}, {})
        /\ Go("reserve", Nothing)
        /\ UNCHANGED <<files, rec, authority, failure, ghosts, budget>>

\* The caller says which private values to give up.
resolve(choices) ==
    /\ At("ready") /\ validate_leaf /\ rec.pending = Nothing
    /\ begin_view("acquire", DOMAIN choices, None,
                  {p \in DOMAIN choices : choices[p] = "published"},
                  {p \in DOMAIN choices : choices[p] = "local"})
    /\ call' = [call EXCEPT !.step = "reserve", !.choices = choices]
    /\ UNCHANGED <<files, rec, authority, failure, ghosts, budget>>

Replacing(changed, wanted) ==
    [p \in changed |-> [before |-> disk[p], after |-> wanted[p]]]

\* Paths neither edited nor captured move to the published tree.
sync ==
    LET selected == {p \in Path : disk[p] = rec.origins[p] /\ ~Captured(p)}
        after == [rec EXCEPT !.head = version,
                             !.origins = [p \in Path |-> IF p \in selected THEN tip[p] ELSE @[p]]]
        changes == Replacing({p \in selected : disk[p] # tip[p]}, tip)
    IN  /\ At("ready") /\ validate_leaf /\ preflight(disk, changes)
        /\ begin_view("sync", selected, after, {}, {})
        /\ Go("prepare", changes)
        /\ UNCHANGED <<files, rec, authority, failure, ghosts, budget>>

\* Edits since the last capture, or since the origin, are given up.
discard(selected) ==
    LET baseline == [p \in Path |-> Baseline(rec, p)]
        changes == Replacing({p \in selected : disk[p] # baseline[p]}, baseline)
    IN  /\ At("ready") /\ validate_leaf /\ preflight(disk, changes)
        /\ begin_view("discard", selected, rec, selected, {})
        /\ Go("prepare", changes)
        /\ UNCHANGED <<files, rec, authority, failure, ghosts, budget>>

-----------------------------------------------------------------------------
\* The steps of acquire and resolve between the journal and the installation.

\* Nobody else holds an overlapping path, and a path without a reservation
\* has no captured value waiting.
Reservable(paths) ==
    \A p \in paths :
        /\ \A q \in Path : Overlaps(p, q) => lease[q] # Other
        /\ lease[p] = None => ~Captured(p)

\* All requested paths in one transaction of the authority, or none.  The
\* grants of one transaction share a token here; paths tell them apart.
Reserve ==
    LET fresh == {p \in journal.paths : lease[p] = None}
        granted == [p \in Path |->
                      IF p \notin fresh THEN lease[p]
                      ELSE [token |-> next, origin |-> tip[p], activated |-> FALSE]]
    IN  /\ At("reserve")
        /\ IF Reservable(journal.paths)
           THEN /\ lease' = granted
                /\ next' = next + 1
                /\ Go("record", [p \in journal.paths |-> granted[p]])
                /\ UNCHANGED <<files, rec, tip, version, journal, failure, ghosts, budget>>
           ELSE Fail

Private(p) == disk[p] # rec.origins[p]

\* acquire keeps a private value if the value it was made from is current.
acquisition(p, origin) ==
    IF Private(p) /\ rec.origins[p] = origin THEN disk[p] ELSE origin

Conflicting(p, origin) == Private(p) /\ rec.origins[p] # origin /\ disk[p] # origin

Chosen(p, origin) == IF call.choices[p] = "local" THEN disk[p] ELSE origin

\* The journal learns the grants and the leaf record as it will be.
Record ==
    LET grants == call.plan
        resolving == call.choices # Nothing
        origins == [p \in Path |-> IF p \in journal.paths THEN grants[p].origin ELSE rec.origins[p]]
        wanted == [p \in journal.paths |->
                     IF resolving THEN Chosen(p, origins[p]) ELSE acquisition(p, origins[p])]
        changed == {p \in journal.paths :
                      resolving \/ wanted[p] # disk[p] \/ origins[p] # rec.origins[p]}
        held == [p \in journal.paths \cup DOMAIN rec.grants |->
                   IF p \in journal.paths THEN [grants[p] EXCEPT !.activated = TRUE] ELSE rec.grants[p]]
        after == [rec EXCEPT !.origins = origins, !.grants = held]
    IN  /\ At("record")
        /\ IF ~resolving /\ \E p \in journal.paths : Conflicting(p, origins[p])
           THEN Fail
           ELSE /\ journal' = [journal EXCEPT !.grants = grants, !.after = after]
                /\ Go("prepare", Replacing(changed, wanted))
                /\ UNCHANGED <<files, rec, authority, failure, ghosts, budget>>

-----------------------------------------------------------------------------
\* Installation, acknowledgement and the end of the journal.

\* The images are retained, then the installation record appears.
prepare_installation ==
    /\ At("prepare")
    /\ IF preflight(disk, call.plan)
       THEN /\ journal' = [journal EXCEPT !.install = call.plan]
            /\ Go("complete", Nothing)
            /\ UNCHANGED <<files, rec, authority, failure, ghosts, budget>>
       ELSE Fail

\* discard leaves the record as it was; elsewhere it is written last.
Unfinished == journal.kind = "discard" \/ rec # journal.after

complete_view ==
    /\ At("complete")
    /\ Go(IF Unfinished THEN "apply" ELSE "clean", Nothing)
    /\ UNCHANGED <<files, rec, authority, journal, failure, ghosts, budget>>

\* A copy is made under a temporary name and renamed; one that is there
\* already is used if it is whole.
Stuck(p, direction) ==
    LET c == journal.install[p]
    IN  /\ disk[p] # Desired(c, direction)
        /\ \/ ~SourceMatches(disk, c, p, direction)
           \/ ~Room(disk, c, p, direction)
           \/ Desired(c, direction) # None /\ (~journal.images \/ <<direction, p>> \in journal.torn)

Replaceable(direction) ==
    IF At(direction) THEN Upcoming(journal.install, direction, call.finished) ELSE {}

replace(p, direction) ==
    /\ p \in Replaceable(direction)
    /\ IF Stuck(p, direction)
       THEN Fail
       ELSE /\ disk' = [disk EXCEPT ![p] = Desired(journal.install[p], direction)]
            /\ Finish(p)
            /\ UNCHANGED <<head, rec, authority, journal, failure, ghosts, budget>>

\* Killed after the file was created and before it was filled.
TearClone(p, direction) ==
    /\ "clone" \in Torn /\ Spend("crashes")
    /\ p \in Replaceable(direction)
    /\ disk[p] # Desired(journal.install[p], direction) /\ ~Stuck(p, direction)
    /\ Desired(journal.install[p], direction) # None
    /\ journal' = [journal EXCEPT !.torn = @ \cup {<<direction, p>>}]
    /\ call' = None /\ failure' = "crash"
    /\ UNCHANGED <<files, rec, authority, ghosts>>

Applied(direction) ==
    /\ At(direction) /\ DOMAIN journal.install \subseteq call.finished
    /\ Go(IF direction = "apply" THEN "activate" ELSE "release", Nothing)
    /\ UNCHANGED <<files, rec, authority, journal, failure, ghosts, budget>>

Stale(p) == ~Ours(lease[p]) \/ lease[p].token # journal.grants[p].token

\* A grant that is gone fails the call, and makes a recovery turn back.
activate(p) ==
    /\ At("activate") /\ p \in DOMAIN journal.grants \ call.finished
    /\ IF Stale(p)
       THEN IF call.recovering
            THEN /\ Go("abort", Nothing)
                 /\ UNCHANGED <<files, rec, authority, journal, failure, ghosts, budget>>
            ELSE Fail
       ELSE /\ lease' = [lease EXCEPT ![p].activated = TRUE]
            /\ Finish(p)
            /\ UNCHANGED <<files, rec, next, tip, version, journal, failure, ghosts, budget>>

\* The worktree may be at the old or the new commit.
ResetHead ==
    /\ At("activate") /\ DOMAIN journal.grants \subseteq call.finished
    /\ head \in {journal.before.head, journal.after.head}
    /\ head' = journal.after.head
    /\ Go("save", Nothing)
    /\ UNCHANGED <<disk, rec, authority, journal, failure, ghosts, budget>>

\* The call succeeds from here: what was to be given up is given up.
save_leaf ==
    /\ At("save")
    /\ rec' = journal.after
    /\ Go("clean", Nothing)
    /\ kept' = disk
    /\ mine' = (mine \ (journal.gives \cap DOMAIN journal.install)) \cup journal.takes
    /\ UNCHANGED <<files, authority, journal, failure, budget>>

\* Mutant: an aborted acquisition keeps what it reserved.
ReleaseNothing == {}

\* Reservations this operation made, its own earlier ones excepted.
Acquired ==
    IF journal.kind # "acquire" THEN {}
    ELSE {p \in journal.paths : Ours(lease[p]) /\ lease[p].token \notin journal.tokens}

release(p) ==
    /\ At("release") /\ p \in Acquired
    /\ lease' = [lease EXCEPT ![p] = None]
    /\ UNCHANGED <<files, rec, next, tip, version, journal, call, failure, ghosts, budget>>

Released ==
    /\ At("release") /\ Acquired = {}
    /\ Go("clean", Nothing)
    /\ kept' = disk
    /\ UNCHANGED <<files, rec, authority, journal, failure, mine, budget>>

\* recover_views: without a complete plan and its images there is only one
\* way, back.
recover ==
    /\ At("recover")
    /\ Go(IF journal.after = None \/ journal.install = None THEN "abort" ELSE "complete", Nothing)
    /\ UNCHANGED <<files, rec, authority, journal, failure, ghosts, budget>>

\* Mutant: reservations are given back and files left as they are.
ForgetFiles ==
    /\ At("abort")
    /\ Go("release", Nothing)
    /\ UNCHANGED <<files, rec, authority, journal, failure, ghosts, budget>>

abort_view ==
    /\ At("abort")
    /\ Go(IF journal.install = None THEN "release" ELSE "rollback", Nothing)
    /\ UNCHANGED <<files, rec, authority, journal, failure, ghosts, budget>>

\* A session that recovered goes on to what it was called for.
remove_directory ==
    /\ At("clean")
    /\ journal' = None
    /\ call' = IF call.recovering THEN Session("ready", FALSE) ELSE None
    /\ UNCHANGED <<files, rec, authority, failure, ghosts, budget>>

\* Killed while the entries of the journal are removed one by one: the
\* installation record may be gone, or some of the images.
TearCleanup ==
    /\ "cleanup" \in Torn /\ At("clean") /\ Spend("crashes")
    /\ journal.install # None
    /\ \/ journal' = [journal EXCEPT !.install = None]
       \/ journal' = [journal EXCEPT !.images = FALSE]
    /\ call' = None /\ failure' = "crash"
    /\ UNCHANGED <<files, rec, authority, ghosts>>

World ==
    \/ \E p \in Path : \/ OtherReserves(p) \/ Revoke(p)
                       \/ \E v \in Image : Edit(p, v) \/ OtherPublishes(p, v)
    \/ Crash

Operation ==
    \/ Lock \/ Return \/ sync
    \/ \E paths \in Requests : acquire(paths) \/ discard(paths)
    \/ \E choices \in Choices : resolve(choices)
    \/ Reserve \/ Record \/ prepare_installation \/ complete_view
    \/ \E p \in Path : activate(p) \/ release(p)
    \/ ResetHead \/ save_leaf \/ Released \/ recover \/ abort_view \/ remove_directory
    \/ \E direction \in {"apply", "rollback"} :
          Applied(direction) \/ \E p \in Path : replace(p, direction) \/ TearClone(p, direction)
    \/ TearCleanup

Next == World \/ Operation

Spec == Init /\ [][Next]_vars

-----------------------------------------------------------------------------
Token == 0 .. next
Lease == [token : Token, origin : Image, activated : BOOLEAN]

\* Every variable holds a value of the kind the code gives it.
TypeOK ==
    /\ disk \in Files /\ tip \in Files /\ kept \in [Path -> Image] /\ mine \subseteq Path
    /\ rec.origins \in [Path -> Image] /\ DOMAIN rec.grants \subseteq Path
    /\ rec.head <= version /\ head <= version
    /\ \A p \in Path : lease[p] \in {None, Other} \cup Lease
    /\ failure \in {None, "crash", "refused", "blocked"}

\* Session code never overwrites what the user wrote: a file that differs
\* from it is a file of the running installation, which found there either
\* the value the caller gave up or an unedited origin, or else the user wrote
\* what the installation had put there (installation.rs replace).
EditsSurvive ==
    \A p \in Path : disk[p] # kept[p] =>
        /\ journal # None /\ journal.install # None /\ p \in DOMAIN journal.install
        /\ {disk[p], kept[p]} \subseteq {journal.install[p].before, journal.install[p].after}
        /\ kept[p] = journal.install[p].before =>
              p \in journal.gives \/ kept[p] = Baseline(journal.before, p)

\* Between operations a path the user has no private value at holds exactly
\* what the leaf's record says, and the worktree is at the record's commit:
\* no interrupted installation is half visible (views.rs complete_view).
CleanIsOrigin ==
    journal = None =>
        /\ head = rec.head
        /\ \A p \in Path \ mine : disk[p] = Baseline(rec, p)

\* Between operations the authority holds no reservation for the leaf that
\* the leaf does not know of and has not acknowledged: an acquisition that
\* died is completed or given back (views.rs abort_view).
NoLeakedReservation ==
    journal = None =>
        \A p \in Path : Ours(lease[p]) =>
            /\ lease[p].activated
            /\ p \in DOMAIN rec.grants /\ rec.grants[p].token = lease[p].token

\* A recovery is refused only if some file of the installation holds bytes
\* it neither found nor wrote, or files it does not know stand in its way.
RecoveryBlocksOnlyOnEdits ==
    failure = "blocked" =>
        \E p \in DOMAIN journal.install :
            \/ disk[p] \notin {journal.install[p].before, journal.install[p].after}
            \/ \E q \in (Above(p) \cup Below(p)) \ DOMAIN journal.install : disk[q] # None
=============================================================================
