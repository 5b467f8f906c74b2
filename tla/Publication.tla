----------------------------- MODULE Publication ----------------------------
(***************************************************************************)
(* Capture, preparation and publication of one proposal                    *)
(* (metadata/src/publication.rs).                                          *)
(*                                                                         *)
(* prepare runs transaction, transaction, file write, transaction; commit  *)
(* runs check, file reads, transaction.  Every other call may run between  *)
(* these steps, and each step may be the last one its process takes.       *)
(* A candidate other than the one stored is refused without effect, so     *)
(* CheckCommit ranges over requests rather than over presented candidates. *)
(***************************************************************************)
EXTENDS Leases

PrepareCall == [request : Request, attempt : Attempt, parent : Version,
                root : Snapshot, step : {"pin", "put", "ready"}]
CommitCall  == [request : Request, attempt : Attempt, parent : Version,
                root : Snapshot, base : Snapshot, verified : BOOLEAN]

\* capture: the leaf's own activated lease joined with a dirty view.
Capturable(l, p) ==
    /\ leases[p] # None
    /\ leases[p].leaf = l
    /\ leases[p].activated
    /\ Dirty(l, p)

NewProposal(changes) ==
    [state |-> "pending", body |-> changes, capturedAt |-> tip, attempt |-> 0,
     parent |-> None, root |-> None, ready |-> FALSE, committed |-> None, batch |-> {}]

\* Freeze the selected dirty values under the leaf's next request sequence.
Propose(l, paths) ==
    LET r == <<l, leaves[l]>>
        changes == [p \in Path |->
            IF p \in paths
            THEN [token |-> leases[p].token, origin |-> views[<<l, p>>].origin,
                  value |-> views[<<l, p>>].value]
            ELSE None]
    IN  /\ "propose" \in Calls
        /\ Active(l)
        /\ paths # {}
        /\ Cardinality(PendingRequests) < MaxPending
        /\ AdmitProposal
        /\ \A p \in paths : Capturable(l, p)
        /\ leaves[l] < MaxSequence
        /\ proposals[r] = None
        /\ proposals' = [proposals EXCEPT ![r] = NewProposal(changes)]
        /\ captured' = [captured EXCEPT ![r] = [at |-> tip, changes |-> changes]]
        /\ leaves' = [leaves EXCEPT ![l] = leaves[l] + 1]
        /\ UNCHANGED <<nextLeaf, nextToken, leaseVars, uploadVars, versionVars, storeVars,
                       candidateVars, maintenanceVars>>
-----------------------------------------------------------------------------
(* prepare *)

\* First transaction: supersede any earlier attempt, pin the parent.  The
\* overlay is computed after it; an invalid namespace ends the call there.
BeginPrepare(r) ==
    LET attempt == proposals[r].attempt + 1
        root == Overlay(Tip, proposals[r].body)
    IN  /\ "prepare" \in Calls
        /\ CallSlot
        /\ Pending(r)
        /\ TipReadable
        /\ Validate(r, Tip)
        /\ attempt <= MaxAttempt
        /\ proposals' = [proposals EXCEPT ![r] =
             [@ EXCEPT !.attempt = attempt, !.parent = tip, !.root = None,
                       !.ready = FALSE, !.batch = {}]]
        /\ prepares' = IF ~ValidNamespace(root) THEN prepares
                       ELSE prepares \cup
                         {[request |-> r, attempt |-> attempt, parent |-> tip,
                           root |-> root, step |-> "pin"]}
        /\ UNCHANGED <<leafVars, nextToken, leaseVars, uploadVars, versionVars, captured,
                       storeVars, commits, batchPrepares, batchCommits, maintenanceVars>>

\* Mutant: a superseded attempt may still name its manifest.
PinLateCandidate(c) ==
    /\ c.step = "pin"
    /\ Pending(c.request)
    /\ proposals' = [proposals EXCEPT ![c.request].root = c.root]
    /\ prepares' = (prepares \ {c}) \cup {[c EXCEPT !.step = "put"]}
    /\ UNCHANGED <<leafVars, nextToken, leaseVars, uploadVars, versionVars, captured,
                   storeVars, commits, batchPrepares, batchCommits, maintenanceVars>>

\* pin_candidate: only the current attempt may name its manifest.
PinCandidate(c) ==
    /\ c.step = "pin"
    /\ Pending(c.request)
    /\ proposals[c.request].attempt = c.attempt
    /\ proposals' = [proposals EXCEPT ![c.request].root = c.root]
    /\ prepares' = (prepares \ {c}) \cup {[c EXCEPT !.step = "put"]}
    /\ UNCHANGED <<leafVars, nextToken, leaseVars, uploadVars, versionVars, captured,
                   storeVars, commits, batchPrepares, batchCommits, maintenanceVars>>

\* objects.put of the manifest, outside any transaction.
StoreCandidate(c) ==
    /\ c.step = "put"
    /\ manifests' = manifests \cup {c.root}
    /\ prepares' = (prepares \ {c}) \cup {[c EXCEPT !.step = "ready"]}
    /\ UNCHANGED <<leafVars, nextToken, leaseVars, uploadVars, versionVars, proposalVars,
                   objects, commits, batchPrepares, batchCommits, maintenanceVars>>

\* StoredProposal::matches
Matches(r, c) ==
    /\ proposals[r].attempt = c.attempt
    /\ proposals[r].parent = c.parent
    /\ proposals[r].root = c.root

\* ready_candidate
ReadyCandidate(c) ==
    /\ c.step = "ready"
    /\ Pending(c.request)
    /\ Matches(c.request, c)
    /\ proposals' = [proposals EXCEPT ![c.request].ready = TRUE]
    /\ prepares' = prepares \ {c}
    /\ UNCHANGED <<leafVars, nextToken, leaseVars, uploadVars, versionVars, captured,
                   storeVars, commits, batchPrepares, batchCommits, maintenanceVars>>

\* An error or a crash ends the call; what it committed stays.
FailPrepare(c) ==
    /\ prepares' = prepares \ {c}
    /\ UNCHANGED <<leafVars, nextToken, leaseVars, uploadVars, versionVars, proposalVars,
                   storeVars, commits, batchPrepares, batchCommits, maintenanceVars>>
-----------------------------------------------------------------------------
(* commit *)

\* Mutant: a member of a prepared batch may be committed alone.
CommittableMember(c) ==
    /\ Pending(c.request)
    /\ Matches(c.request, c)
    /\ proposals[c.request].ready

\* single_candidate, for a proposal that is not committed yet.
Committable(c) ==
    /\ Pending(c.request)
    /\ proposals[c.request].batch = {}
    /\ Matches(c.request, c)
    /\ proposals[c.request].ready

\* check_commit's transaction; it remembers the parent's tree to verify against.
CheckCommit(r) ==
    LET c == [request |-> r, attempt |-> proposals[r].attempt,
              parent |-> proposals[r].parent, root |-> proposals[r].root,
              base |-> Tip, verified |-> FALSE]
    IN  /\ "commit" \in Calls
        /\ CallSlot
        /\ Pending(r)
        /\ Committable(c)
        /\ c.parent = tip
        /\ commits' = commits \cup {c}
        /\ UNCHANGED <<leafVars, nextToken, leaseVars, uploadVars, versionVars, proposalVars,
                       storeVars, prepares, batchPrepares, batchCommits, maintenanceVars>>

\* verify_contents reads both manifests and every payload, outside any transaction.
VerifyCommit(c) ==
    /\ ~c.verified
    /\ c.base \in manifests
    /\ Readable(c.root)
    /\ commits' = (commits \ {c}) \cup {[c EXCEPT !.verified = TRUE]}
    /\ UNCHANGED <<leafVars, nextToken, leaseVars, uploadVars, versionVars, proposalVars,
                   storeVars, prepares, batchPrepares, batchCommits, maintenanceVars>>

\* What publishing a set of requests does to a path's lease and views.  Paths
\* of one publication are distinct, so each has at most one writer.
Writers(members, p) == {r \in members : proposals[r].body[p] # None}
PublishedOrigin(members, p) ==   \* mutant: origins do not move to the new value
    proposals[CHOOSE r \in Writers(members, p) : TRUE].body[p].origin
Published(members, p) == proposals[CHOOSE r \in Writers(members, p) : TRUE].body[p].value

Publish(members, root) ==
    LET version == tip + 1
        written == {p \in Path : Writers(members, p) # {}}
    IN  /\ version <= MaxVersion
        /\ tip' = version
        /\ epochs' = [epochs EXCEPT ![version] = root]
        /\ history' = [history EXCEPT ![version] = [root |-> root, members |-> members]]
        /\ leases' = [p \in Path |->
             IF p \in written /\ leases[p] # None
             THEN [leases[p] EXCEPT !.origin = Published(members, p)]
             ELSE leases[p]]
        /\ views' = [k \in LeafId \X Path |->
             IF views[k] # None /\ \E r \in Writers(members, k[2]) : r[1] = k[1]
             THEN [views[k] EXCEPT !.origin = Published(members, k[2])]
             ELSE views[k]]
        /\ proposals' = [r \in Request |->
             IF r \in members
             THEN [proposals[r] EXCEPT !.state = "committed", !.committed = version]
             ELSE proposals[r]]

\* Mutant: the final transaction trusts check_commit about the tip.
CommitStale(c) ==
    /\ c.verified
    /\ Committable(c)
    /\ Validate(c.request, c.base)
    /\ Publish({c.request}, c.root)
    /\ commits' = commits \ {c}
    /\ UNCHANGED <<leafVars, nextToken, uploadVars, captured, storeVars, prepares,
                   batchPrepares, batchCommits, maintenanceVars>>

\* The final transaction rechecks candidate, tip, tokens and origins, then
\* publishes the epoch, the new origins and the receipt together.
Commit(c) ==
    /\ c.verified
    /\ Committable(c)
    /\ c.parent = tip
    /\ Validate(c.request, c.base)
    /\ Publish({c.request}, c.root)
    /\ commits' = commits \ {c}
    /\ UNCHANGED <<leafVars, nextToken, uploadVars, captured, storeVars, prepares,
                   batchPrepares, batchCommits, maintenanceVars>>

FailCommit(c) ==
    /\ commits' = commits \ {c}
    /\ UNCHANGED <<leafVars, nextToken, leaseVars, uploadVars, versionVars, proposalVars,
                   storeVars, prepares, batchPrepares, batchCommits, maintenanceVars>>
-----------------------------------------------------------------------------
(* abort *)

\* Mutant: the row is retired whatever state it is in.
AbortStored(r) ==
    /\ "abort" \in Calls
    /\ proposals[r] # None
    /\ proposals' = [proposals EXCEPT ![r] = Retired(@)]
    /\ UNCHANGED <<leafVars, nextToken, leaseVars, uploadVars, versionVars, captured,
                   storeVars, candidateVars, maintenanceVars>>

Abort(r) ==
    /\ "abort" \in Calls
    /\ Pending(r)
    /\ proposals' = [proposals EXCEPT ![r] = Retired(@)]
    /\ UNCHANGED <<leafVars, nextToken, leaseVars, uploadVars, versionVars, captured,
                   storeVars, candidateVars, maintenanceVars>>

\* Aborting the next identity before its proposal arrives spends the sequence,
\* so that a delayed propose of the same request is refused.
AbortUnsubmitted(l) ==
    LET r == <<l, leaves[l]>> IN
    /\ "abort" \in Calls
    /\ Active(l)
    /\ proposals[r] = None
    /\ AdmitProposal
    /\ leaves[l] < MaxSequence
    /\ proposals' = [proposals EXCEPT ![r] = Retired(NewProposal(None))]
    /\ leaves' = [leaves EXCEPT ![l] = leaves[l] + 1]
    /\ UNCHANGED <<nextLeaf, nextToken, leaseVars, uploadVars, versionVars, captured,
                   storeVars, candidateVars, maintenanceVars>>

PublicationNext ==
    \/ \E l \in LeafId :
        AbortUnsubmitted(l) \/ \E paths \in SUBSET Path : Propose(l, paths)
    \/ \E r \in Request : BeginPrepare(r) \/ CheckCommit(r) \/ Abort(r)
    \/ \E c \in prepares :
        PinCandidate(c) \/ StoreCandidate(c) \/ ReadyCandidate(c) \/ FailPrepare(c)
    \/ \E c \in commits : VerifyCommit(c) \/ Commit(c) \/ FailCommit(c)
=============================================================================
