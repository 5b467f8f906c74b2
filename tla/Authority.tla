------------------------------ MODULE Authority -----------------------------
(***************************************************************************)
(* The metadata authority as a whole: every operation of the store, from   *)
(* any number of connections, with what it promises its clients.           *)
(***************************************************************************)
EXTENDS Maintenance

Next ==
    \/ UploadNext
    \/ LeaseNext
    \/ PublicationNext
    \/ BatchNext
    \/ ResolutionNext
    \/ MaintenanceNext

Spec == Init /\ [][Next]_vars
-----------------------------------------------------------------------------
(* Every table holds rows of its declared shape, and every call in flight  *)
(* carries values the code could have given it.                            *)
TypeOK ==
    /\ leaves \in [LeafId -> Sequence \cup {None}]
    /\ nextLeaf \in LeafId
    /\ nextToken \in Token
    /\ leases \in [Path -> Lease \cup {None}]
    /\ views \in [LeafId \X Path -> View \cup {None}]
    /\ uploads \in [LeafId \X Object -> Upload \cup {None}]
    /\ tip \in Version
    /\ epochs \in [Version -> Snapshot \cup {None}]
    /\ retained \subseteq Version
    /\ proposals \in [Request -> Proposal \cup {None}]
    /\ pins \subseteq Object
    /\ objects \subseteq Object
    /\ manifests \subseteq Snapshot
    /\ stages \subseteq StageCall
    /\ prepares \subseteq PrepareCall
    /\ commits \subseteq CommitCall
    /\ batchPrepares \subseteq BatchPrepareCall
    /\ batchCommits \subseteq BatchCommitCall
    /\ sweeps \in Nat
    /\ history \in [Version -> [root : Snapshot, members : SUBSET Request] \cup {None}]
    /\ captured \in [Request -> [at : Version, changes : Changes] \cup {None}]
-----------------------------------------------------------------------------
(* Reservations *)

\* Two leaves never hold overlapping paths at once, whatever mix of acquire,
\* release, revoke and drop led here (leases.rs acquire).
ExclusiveAuthority ==
    \A p, q \in Path :
        /\ leases[p] # None
        /\ leases[q] # None
        /\ Overlaps(p, q)
        => leases[p].leaf = leases[q].leaf

\* A reservation, however old, is based on what the tip holds at its path: no
\* publication by anybody leaves a live lease with a stale origin.
LeaseOriginIsTip ==
    \A p \in Path : leases[p] # None => leases[p].origin = Tip[p]

\* An activated grant always has its view, based on the same origin: the
\* Schema error in edit is unreachable, and a capture never mixes the lease's
\* token with a view of another generation.
ActivatedLeaseHasView ==
    \A p \in Path : leases[p] # None /\ leases[p].activated =>
        /\ Active(leases[p].leaf)
        /\ views[<<leases[p].leaf, p>>] # None
        /\ views[<<leases[p].leaf, p>>].origin = leases[p].origin

\* Nothing an import bound to a read-only scope ever changes, and no path
\* inside or above such a scope is ever reserved (leases.rs writable_paths).
ReadOnlyIsImmutable ==
    \A v \in Version : history[v] # None /\ v >= Imported =>
        \A s \in Scopes(InitialTree), p \in Path :
            Overlaps(s, p) =>
                /\ history[v].root[p] = InitialTree[p]
                /\ leases[p] = None

\* Reservations and retained views together stay within max_paths, though
\* acquire, activate, release and discard each count only what they see.
RetainedPathsBounded ==
    Cardinality({k \in LeafId \X Path :
        \/ views[k] # None
        \/ leases[k[2]] # None /\ leases[k[2]].leaf = k[1]}) <= MaxPaths
-----------------------------------------------------------------------------
(* Publication *)

\* The requests of a version that captured a change of path p.
Authors(v, p) == {r \in history[v].members : captured[r].changes[p] # None}

\* The requests among members that captured a change of p.
CapturedBy(members, p) == {r \in members : captured[r].changes[p] # None}

\* root is base with exactly the members' captured changes, one author a path.
Applies(members, base, root) ==
    \A p \in Path :
        \/ CapturedBy(members, p) = {} /\ root[p] = base[p]
        \/ \E r \in CapturedBy(members, p) :
            /\ CapturedBy(members, p) = {r}
            /\ root[p] = captured[r].changes[p].value

AllCaptured(members) == \A r \in members : r \in Request /\ captured[r] # None

Built(members, parent, root) ==
    /\ AllCaptured(members)
    /\ parent \in Version
    /\ parent <= tip
    /\ Applies(members, history[parent].root, root)

\* The requests a candidate or receipt of r belongs to.
Members(r) == IF proposals[r].batch = {} THEN {r} ELSE proposals[r].batch

\* A stored candidate is the very parent version it names with exactly the
\* changes its requests captured: no superseded preparation, alone or in a
\* batch, ever leaves its tree in a newer attempt (publication.rs
\* pin_candidate, batch.rs update_batch).
CandidatesOK ==
    \A r \in Request : Pending(r) /\ proposals[r].root # None =>
        Built(Members(r), proposals[r].parent, proposals[r].root)

\* Every version is its predecessor with exactly the captured changes of its
\* members: a path has at most one author, the author's value is what the
\* version holds, the value it replaced is the one it was captured against,
\* and a path nobody captured is untouched (publication.rs commit, batch.rs).
NoLostUpdate ==
    \A v \in Version : v > Imported /\ history[v] # None =>
        \A p \in Path :
            LET old == history[v - 1].root[p]
                new == history[v].root[p]
            IN  \/ Authors(v, p) = {} /\ new = old
                \/ \E r \in Authors(v, p) :
                    /\ Authors(v, p) = {r}
                    /\ captured[r].changes[p].origin = old
                    /\ captured[r].changes[p].value = new

\* Between the capture of a published change and its publication nobody but
\* its own leaf published that path, even if the value came back to what it
\* was: the captured token proves continuous possession (ABA).
CaptureIsFenced ==
    \A v \in Version : v > Imported /\ history[v] # None =>
        \A p \in Path : \A r \in Authors(v, p) :
            \A u \in captured[r].at + 1 .. v - 1 :
                \A s \in Authors(u, p) : s[1] = r[1]

\* A request is published at most once; while its receipt is kept, the
\* receipt names the version and root it was published in.  A request that was
\* aborted, superseded, dropped or pruned is never published again.
PublishedOnce ==
    \A r \in Request :
        LET published == {v \in Version : history[v] # None /\ r \in history[v].members}
        IN  /\ Cardinality(published) <= 1
            /\ proposals[r] # None =>
                /\ proposals[r].state = "committed" <=> published # {}
                /\ proposals[r].state = "committed" =>
                    /\ published = {proposals[r].committed}
                    /\ history[proposals[r].committed].root = proposals[r].root

\* A retained receipt of a batch proves that all of the batch, and nothing
\* else, was published with it; a single receipt proves a single publication.
BatchIsAtomic ==
    \A r \in Request : proposals[r] # None /\ proposals[r].state = "committed" =>
        history[proposals[r].committed].members = Members(r)

\* A committed tree is always one a filesystem can hold: no file is inside
\* another, and import's bound is kept, whatever candidates were prepared,
\* composed and resolved concurrently.
EpochsAreNamespaces ==
    \A v \in Version : history[v] # None =>
        /\ Cardinality(Present(history[v].root)) <= MaxPaths
        /\ \A p, q \in Present(history[v].root) : Overlaps(p, q) => p = q
-----------------------------------------------------------------------------
(* Retention *)

\* Collection never takes bytes somebody can still reach: retained epochs,
\* ready candidates, views, reservation origins, pending captures, ready
\* uploads and client pins.  A stage, prepare or commit that maintenance ran
\* through either fails or finds its bytes.
PinnedBytesPresent ==
    /\ \A v \in StoredEpochs : Readable(epochs[v])
    /\ \A r \in PendingRequests : proposals[r].ready => Readable(proposals[r].root)
    /\ \A value \in PinnedValues \ {None} : value.object \in objects
    /\ \A k \in LeafId \X Object :
        uploads[k] # None /\ uploads[k].ready => k[2] \in objects
    /\ pins \subseteq objects

\* The tip, what a pending capture was taken at, and what a candidate is built
\* on are always retained, so preparation and commit never lose their base.
BasesAreRetained ==
    /\ Tip # None
    /\ \A r \in PendingRequests :
        /\ epochs[proposals[r].capturedAt] # None
        /\ proposals[r].parent # None => epochs[proposals[r].parent] # None

\* Metadata stays bounded between two maintenance passes: admission counts
\* every row a pending request may still turn into.  resolve does not count
\* pending requests and relies on retiring at least one for the one it adds.
HistoryBounded ==
    /\ Cardinality(PendingRequests) <= MaxPending
    /\ Cardinality(StoredRequests) <= RequestBudget
    /\ Cardinality(StoredEpochs) + Cardinality(PendingRequests) <= EpochBudget

\* Pruning always makes room: after it, only max_pending itself can refuse a
\* proposal (publication.rs admit_proposal, maintenance.rs prune_epochs).
PruningRestoresAdmission ==
    [][sweeps' = sweeps + 1 /\ Cardinality(PendingRequests) < MaxPending
        => AdmitProposal']_vars
-----------------------------------------------------------------------------
(* The promise the tables, attempts, candidates and pins keep.  A request   *)
(* whose row was pruned, or whose leaf was dropped, is told from one not     *)
(* yet made by its leaf's sequence high-water mark.                          *)
IsPublished(r) == \E v \in Imported..tip : r \in history[v].members

OutcomeOf(r) ==
    IF IsPublished(r) THEN "published"
    ELSE IF Pending(r) THEN "pending"
    ELSE IF r[1] >= nextLeaf THEN "new"
    ELSE IF Active(r[1]) /\ r[2] >= leaves[r[1]] THEN "new"
    ELSE "retired"

Owners   == [p \in Path |-> IF leases[p] = None THEN None ELSE leases[p].leaf]
Outcomes == [r \in Request |-> OutcomeOf(r)]
Roots    == [v \in 0..tip |-> history[v].root]

Promise == INSTANCE ReservedTree WITH
    owner <- Owners, outcome <- Outcomes, roots <- Roots, top <- tip

\* The authority implements the reserved tree: every transaction is one step of
\* it or changes nothing clients were promised.
KeepsPromise == Promise!Spec
=============================================================================
