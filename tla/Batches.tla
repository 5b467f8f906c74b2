------------------------------- MODULE Batches ------------------------------
(***************************************************************************)
(* Atomic publication of several captured proposals                        *)
(* (metadata/src/batch.rs).  A batch's identity is the digest of its       *)
(* canonical request list: here, the set of requests itself.  Preparing a  *)
(* member again, alone or in another batch, takes it out of this one.      *)
(***************************************************************************)
EXTENDS Publication

BatchPrepareCall == [members : SUBSET Request, attempts : [Request -> Attempt],
                     parent : Version, root : Snapshot, step : {"pin", "put", "ready"}]
BatchCommitCall  == [members : SUBSET Request, attempts : [Request -> Attempt],
                     parent : Version, root : Snapshot, base : Snapshot, verified : BOOLEAN]

\* Mutant: members may change the same paths.
BatchMembers(members, tree) == \A r \in members : Pending(r) /\ Validate(r, tree)

\* batch_proposals: every member is pending and valid, and no path of one
\* member overlaps a path of another.
BatchProposals(members, tree) ==
    /\ \A r \in members : Pending(r) /\ Validate(r, tree)
    /\ \A r, s \in members : r # s =>
        \A p \in Touched(proposals[r].body), q \in Touched(proposals[s].body) : ~Overlaps(p, q)

\* compose: overlay every member's changes on the snapshot.
Compose(tree, members) ==
    [p \in Path |-> IF Writers(members, p) = {} THEN tree[p] ELSE Published(members, p)]

AttemptsOf(members) ==
    [r \in Request |-> IF r \in members THEN proposals[r].attempt ELSE 0]

\* First transaction: supersede every member's earlier attempt and bind all of
\* them to this batch and parent.
BeginPrepareBatch(members) ==
    /\ "prepare_batch" \in Calls
    /\ CallSlot
    /\ members # {}
    /\ Cardinality(members) <= MaxPending
    /\ TipReadable
    /\ BatchProposals(members, Tip)
    /\ \A r \in members : proposals[r].attempt < MaxAttempt
    /\ proposals' = [r \in Request |->
         IF r \in members
         THEN [proposals[r] EXCEPT !.attempt = @ + 1, !.parent = tip, !.root = None,
                                   !.ready = FALSE, !.batch = members]
         ELSE proposals[r]]
    /\ batchPrepares' =
         IF ~ValidNamespace(Compose(Tip, members)) THEN batchPrepares
         ELSE batchPrepares \cup
           {[members |-> members, parent |-> tip, root |-> Compose(Tip, members),
             attempts |-> [r \in Request |-> IF r \in members THEN proposals[r].attempt + 1 ELSE 0],
             step |-> "pin"]}
    /\ UNCHANGED <<leafVars, nextToken, leaseVars, uploadVars, versionVars, captured,
                   storeVars, prepares, commits, batchCommits, maintenanceVars>>

\* update_batch's check: every member still belongs to this preparation.
InBatch(b) ==
    \A r \in b.members :
        /\ Pending(r)
        /\ proposals[r].batch = b.members
        /\ proposals[r].attempt = b.attempts[r]
        /\ proposals[r].parent = b.parent

SetCandidate(b, ready) ==
    proposals' = [r \in Request |->
        IF r \in b.members THEN [proposals[r] EXCEPT !.root = b.root, !.ready = ready]
        ELSE proposals[r]]

PinBatch(b) ==
    /\ b.step = "pin"
    /\ InBatch(b)
    /\ SetCandidate(b, FALSE)
    /\ batchPrepares' = (batchPrepares \ {b}) \cup {[b EXCEPT !.step = "put"]}
    /\ UNCHANGED <<leafVars, nextToken, leaseVars, uploadVars, versionVars, captured,
                   storeVars, prepares, commits, batchCommits, maintenanceVars>>

StoreBatch(b) ==
    /\ b.step = "put"
    /\ manifests' = manifests \cup {b.root}
    /\ batchPrepares' = (batchPrepares \ {b}) \cup {[b EXCEPT !.step = "ready"]}
    /\ UNCHANGED <<leafVars, nextToken, leaseVars, uploadVars, versionVars, proposalVars,
                   objects, prepares, commits, batchCommits, maintenanceVars>>

ReadyBatch(b) ==
    /\ b.step = "ready"
    /\ InBatch(b)
    /\ \A r \in b.members : proposals[r].root = b.root
    /\ SetCandidate(b, TRUE)
    /\ batchPrepares' = batchPrepares \ {b}
    /\ UNCHANGED <<leafVars, nextToken, leaseVars, uploadVars, versionVars, captured,
                   storeVars, prepares, commits, batchCommits, maintenanceVars>>

FailPrepareBatch(b) ==
    /\ batchPrepares' = batchPrepares \ {b}
    /\ UNCHANGED <<leafVars, nextToken, leaseVars, uploadVars, versionVars, proposalVars,
                   storeVars, prepares, commits, batchCommits, maintenanceVars>>

\* batch_receipts, when no member is committed yet.
BatchCommittable(b) ==
    /\ InBatch(b)
    /\ \A r \in b.members : proposals[r].root = b.root /\ proposals[r].ready

\* A batch candidate that prepare_batch returned names exactly one batch.
CheckCommitBatch(members) ==
    LET r == CHOOSE m \in members : TRUE
        b == [members |-> members, attempts |-> AttemptsOf(members),
              parent |-> proposals[r].parent, root |-> proposals[r].root,
              base |-> Tip, verified |-> FALSE]
    IN  /\ "commit_batch" \in Calls
        /\ CallSlot
        /\ members # {}
        /\ \A m \in members : Pending(m)
        /\ BatchCommittable(b)
        /\ b.parent = tip
        /\ batchCommits' = batchCommits \cup {b}
        /\ UNCHANGED <<leafVars, nextToken, leaseVars, uploadVars, versionVars, proposalVars,
                       storeVars, prepares, commits, batchPrepares, maintenanceVars>>

VerifyCommitBatch(b) ==
    /\ ~b.verified
    /\ b.base \in manifests
    /\ Readable(b.root)
    /\ batchCommits' = (batchCommits \ {b}) \cup {[b EXCEPT !.verified = TRUE]}
    /\ UNCHANGED <<leafVars, nextToken, leaseVars, uploadVars, versionVars, proposalVars,
                   storeVars, prepares, commits, batchPrepares, maintenanceVars>>

\* One transaction publishes every member, or none.
CommitBatch(b) ==
    /\ b.verified
    /\ BatchCommittable(b)
    /\ b.parent = tip
    /\ BatchProposals(b.members, b.base)
    /\ Publish(b.members, b.root)
    /\ batchCommits' = batchCommits \ {b}
    /\ UNCHANGED <<leafVars, nextToken, uploadVars, captured, storeVars, prepares,
                   commits, batchPrepares, maintenanceVars>>

FailCommitBatch(b) ==
    /\ batchCommits' = batchCommits \ {b}
    /\ UNCHANGED <<leafVars, nextToken, leaseVars, uploadVars, versionVars, proposalVars,
                   storeVars, prepares, commits, batchPrepares, maintenanceVars>>

BatchNext ==
    \/ \E members \in SUBSET PendingRequests :
        BeginPrepareBatch(members) \/ CheckCommitBatch(members)
    \/ \E b \in batchPrepares :
        PinBatch(b) \/ StoreBatch(b) \/ ReadyBatch(b) \/ FailPrepareBatch(b)
    \/ \E b \in batchCommits : VerifyCommitBatch(b) \/ CommitBatch(b) \/ FailCommitBatch(b)
=============================================================================
