--------------------------- MODULE AuthorityProofs --------------------------
(***************************************************************************)
(* What holds of the metadata authority for every value of the constants:  *)
(* its types, and its publication history.                                 *)
(***************************************************************************)
EXTENDS Authority, FiniteSetTheorems, TLAPS

USE DEF leafVars, leaseVars, uploadVars, versionVars, proposalVars, storeVars, candidateVars,
        maintenanceVars

\* A proposal keeps its captured changes until it is retired, and is marked
\* ready only with the manifest and parent it was prepared for.
RowsOK ==
    \A r \in Request : proposals[r] # None =>
        /\ proposals[r].state # "aborted" => proposals[r].body \in Changes
        /\ proposals[r].ready => proposals[r].root \in Snapshot /\ proposals[r].parent \in Version

\* The tip is the newest stored epoch.
TipStored ==
    /\ epochs[tip] \in Snapshot
    /\ \A v \in Version : epochs[v] # None => v <= tip

Typed == TypeOK /\ RowsOK /\ TipStored
-----------------------------------------------------------------------------
\* A retired row is still a row, and it has nothing left to publish.
LEMMA RetiredType ==
    ASSUME NEW row \in Proposal
    PROVE  /\ Retired(row) \in Proposal
           /\ Retired(row).state = "aborted"
           /\ ~Retired(row).ready
BY DEF Retired, Proposal

LEMMA UploadTypes ==
    ASSUME Typed, UploadNext
    PROVE  Typed'
<1> USE CountersAssumption DEF Typed, TypeOK, RowsOK, TipStored
<1>1. CASE CreateLeaf
  <2>1. 1 \in Sequence /\ nextLeaf' \in LeafId
    <3>1. nextLeaf < MaxLeafId /\ nextLeaf' = nextLeaf + 1
      BY <1>1 DEF CreateLeaf
    <3> QED
      BY <3>1 DEF LeafId, Sequence
  <2>2. leaves' = [leaves EXCEPT ![nextLeaf] = 1]
    BY <1>1 DEF CreateLeaf
  <2>3. leaves' \in [LeafId -> Sequence \cup {None}]
    BY <2>1, <2>2
  <2>4. UNCHANGED <<nextToken, leaseVars, uploadVars, versionVars, proposalVars,
                   storeVars, candidateVars, maintenanceVars>>
    BY <1>1 DEF CreateLeaf
  <2> QED
    BY <2>1, <2>3, <2>4
<1>2. ASSUME NEW l \in LeafId, NEW o \in Object, BeginStage(l, o)
      PROVE  Typed'
  <2>1. nextToken \in Token /\ nextToken' \in Token
    BY <1>2 DEF BeginStage, Token
  <2>2. uploads' \in [LeafId \X Object -> Upload \cup {None}]
    BY <1>2, <2>1 DEF BeginStage, Upload
  <2>3. stages' \subseteq StageCall
    <3>1. [leaf |-> l, object |-> o, generation |-> nextToken, stored |-> FALSE] \in StageCall
      BY <2>1 DEF StageCall
    <3>2. stages' = stages \cup {[leaf |-> l, object |-> o, generation |-> nextToken, stored |-> FALSE]}
      BY <1>2 DEF BeginStage
    <3> QED
      BY <3>1, <3>2
  <2>4. UNCHANGED <<leafVars, leaseVars, versionVars, proposalVars, storeVars, candidateVars,
                    maintenanceVars>>
    BY <1>2 DEF BeginStage
  <2> QED
    BY <2>1, <2>2, <2>3, <2>4 DEF leafVars
<1>3. ASSUME NEW l \in LeafId, NEW o \in Object, DiscardUpload(l, o)
      PROVE  Typed'
  BY <1>3 DEF DiscardUpload
<1>4. ASSUME NEW s \in stages, StorePayload(s)
      PROVE  Typed'
  BY <1>4 DEF StorePayload, StageCall
<1>5. ASSUME NEW s \in stages, FinishStage(s)
      PROVE  Typed'
  <2> DEFINE k == <<s.leaf, s.object>>
  <2>1. k \in LeafId \X Object
    BY DEF StageCall
  <2>2. /\ uploads[k] # None
        /\ uploads' = [uploads EXCEPT ![k].ready = TRUE]
        /\ stages' \subseteq stages
        /\ UNCHANGED <<leafVars, nextToken, leaseVars, versionVars, proposalVars, storeVars,
                       candidateVars, maintenanceVars>>
    BY <1>5 DEF FinishStage
  <2>3. [uploads[k] EXCEPT !.ready = TRUE] \in Upload
    <3>1. uploads[k] \in Upload
      BY <2>1, <2>2
    <3> QED
      BY <3>1 DEF Upload
  <2>4. uploads' \in [LeafId \X Object -> Upload \cup {None}]
    <3>1. uploads' = [uploads EXCEPT ![k] = [uploads[k] EXCEPT !.ready = TRUE]]
      BY <2>2
    <3> HIDE DEF k
    <3> QED
      BY <2>1, <2>3, <3>1
  <2> QED
    BY <2>2, <2>4
<1>6. ASSUME NEW s \in stages, FailStage(s)
      PROVE  Typed'
  BY <1>6 DEF FailStage
<1> QED
  BY <1>1, <1>2, <1>3, <1>4, <1>5, <1>6 DEF UploadNext
LEMMA LeaseTypes ==
    ASSUME Typed, LeaseNext
    PROVE  Typed'
<1> USE CountersAssumption DEF Typed, TypeOK, RowsOK, TipStored
<1>1. ASSUME NEW l \in LeafId, NEW paths \in SUBSET Path, Acquire(l, paths)
      PROVE  Typed'
  <2> DEFINE fresh == {p \in paths : leases[p] = None}
             last == nextToken + Cardinality(fresh) - 1
  <2>1. Cardinality(fresh) \in Nat
    <3>1. IsFiniteSet(Path)
      BY PathAssumption
    <3>2. IsFiniteSet(fresh)
      BY <3>1, FS_Subset
    <3> QED
      BY <3>2, FS_CardinalityType
  <2>2. last < MaxToken /\ nextToken' = last + 1
    BY <1>1 DEF Acquire
  <2>3. nextToken' \in Token
    BY <2>1, <2>2 DEF Token
  <2>4. leases' \in [Path -> Lease \cup {None}]
    <3>1. PICK token \in [fresh -> nextToken..last] :
             leases' = [p \in Path |->
                 IF p \in fresh
                 THEN [leaf |-> l, token |-> token[p], origin |-> Tip[p], activated |-> FALSE]
                 ELSE leases[p]]
      BY <1>1 DEF Acquire
    <3>2. ASSUME NEW p \in fresh
          PROVE  [leaf |-> l, token |-> token[p], origin |-> Tip[p], activated |-> FALSE] \in Lease
      <4>1. token[p] \in Token
        BY <2>1, <2>2 DEF Token
      <4>2. Tip[p] \in Value
        BY DEF Tip, Snapshot
      <4> QED
        BY <4>1, <4>2 DEF Lease
    <3> QED
      BY <3>1, <3>2
  <2>5. UNCHANGED <<leafVars, views, uploadVars, versionVars, proposalVars, storeVars,
                    candidateVars, maintenanceVars>>
    BY <1>1 DEF Acquire
  <2> QED
    BY <2>3, <2>4, <2>5
<1>2. ASSUME NEW p \in Path, Activate(p)
      PROVE  Typed'
  <2>1. leases[p] \in Lease /\ leases[p].origin \in Value /\ leases[p].leaf \in LeafId
    BY <1>2 DEF Activate, Lease
  <2>2. leases' \in [Path -> Lease \cup {None}]
    BY <1>2, <2>1 DEF Activate, Lease
  <2>3. views' \in [LeafId \X Path -> View \cup {None}]
    BY <1>2, <2>1 DEF Activate, View
  <2>4. UNCHANGED <<leafVars, nextToken, uploadVars, versionVars, proposalVars, storeVars,
                    candidateVars, maintenanceVars>>
    BY <1>2 DEF Activate
  <2> QED
    BY <2>2, <2>3, <2>4
<1>3. ASSUME NEW p \in Path, NEW value \in EditedValues, Edit(p, value)
      PROVE  Typed'
  <2>1. value \in Value
    BY DEF EditedValues, Value, Entry
  <2>2. views' \in [LeafId \X Path -> View \cup {None}]
    <3> DEFINE k == <<leases[p].leaf, p>>
    <3>1. k \in LeafId \X Path /\ views[k] \in View
      BY <1>3 DEF Edit, Lease
    <3>2. [views[k] EXCEPT !.value = value] \in View
      BY <2>1, <3>1 DEF View
    <3>3. views' = [views EXCEPT ![k] = [views[k] EXCEPT !.value = value]]
      BY <1>3 DEF Edit
    <3> QED
      BY <3>1, <3>2, <3>3
  <2>3. uploads' \in [LeafId \X Object -> Upload \cup {None}]
    BY <1>3 DEF Edit
  <2>4. UNCHANGED <<leafVars, nextToken, leases, stages, versionVars, proposalVars, storeVars,
                    candidateVars, maintenanceVars>>
    BY <1>3 DEF Edit
  <2> QED
    BY <2>2, <2>3, <2>4
<1>4. ASSUME NEW p \in Path, Withdraw(p)
      PROVE  Typed'
  BY <1>4 DEF Withdraw
<1>5. ASSUME NEW l \in LeafId, NEW p \in Path, Discard(l, p)
      PROVE  Typed'
  <2>1. views' \in [LeafId \X Path -> View \cup {None}]
    <3> DEFINE k == <<l, p>>
    <3>1. k \in LeafId \X Path /\ views[k] \in View
      BY <1>5 DEF Discard
    <3>2. [views[k] EXCEPT !.value = views[k].origin] \in View
      BY <3>1 DEF View
    <3>3. \/ views' = [views EXCEPT ![k] = [views[k] EXCEPT !.value = views[k].origin]]
          \/ views' = [views EXCEPT ![k] = None]
      BY <1>5 DEF Discard
    <3> QED
      BY <3>1, <3>2, <3>3
  <2>2. UNCHANGED <<leafVars, nextToken, leases, uploadVars, versionVars, proposalVars, storeVars,
                    candidateVars, maintenanceVars>>
    BY <1>5 DEF Discard
  <2> QED
    BY <2>1, <2>2
<1>6. ASSUME NEW l \in LeafId, DropLeaf(l)
      PROVE  Typed'
  <2>1. leaves' \in [LeafId -> Sequence \cup {None}]
    BY <1>6 DEF DropLeaf
  <2>2. leases' \in [Path -> Lease \cup {None}]
    BY <1>6 DEF DropLeaf
  <2>3. views' \in [LeafId \X Path -> View \cup {None}]
    BY <1>6 DEF DropLeaf
  <2>4. uploads' \in [LeafId \X Object -> Upload \cup {None}]
    BY <1>6 DEF DropLeaf
  <2>5. proposals' \in [Request -> Proposal \cup {None}] /\ RowsOK'
    <3>1. proposals' = [r \in Request |->
             IF r[1] = l /\ Pending(r) THEN Retired(proposals[r]) ELSE proposals[r]]
      BY <1>6 DEF DropLeaf
    <3> QED
      BY <3>1, RetiredType DEF Pending
  <2>6. UNCHANGED <<nextLeaf, nextToken, stages, versionVars, captured, storeVars,
                    candidateVars, maintenanceVars>>
    BY <1>6 DEF DropLeaf
  <2> QED
    BY <2>1, <2>2, <2>3, <2>4, <2>5, <2>6
<1> QED
  BY <1>1, <1>2, <1>3, <1>4, <1>5, <1>6 DEF LeaseNext, Release, Revoke

\* Overlaying captured changes on a tree gives a tree.
LEMMA OverlayType ==
    ASSUME NEW tree \in Snapshot, NEW changes \in Changes
    PROVE  Overlay(tree, changes) \in Snapshot
BY NoneAssumption DEF Overlay, Snapshot, Changes, Change

\* A pending request's row and captured changes are well formed.
LEMMA PendingType ==
    ASSUME Typed, NEW r \in Request, Pending(r)
    PROVE  proposals[r] \in Proposal /\ proposals[r].body \in Changes
BY DEF Typed, TypeOK, RowsOK, Pending

\* Replacing one pending request's row by a well-formed one keeps the table so.
LEMMA RowUpdate ==
    ASSUME Typed, NEW r \in Request, NEW row \in Proposal,
           row.state # "aborted" => row.body \in Changes,
           row.ready => row.root \in Snapshot /\ row.parent \in Version,
           proposals' = [proposals EXCEPT ![r] = row]
    PROVE  proposals' \in [Request -> Proposal \cup {None}] /\ RowsOK'
BY DEF Typed, TypeOK, RowsOK

\* A new proposal is a well-formed row, whatever it captured.
LEMMA NewProposalType ==
    ASSUME Typed, NEW changes \in Changes \cup {None}
    PROVE  /\ NewProposal(changes) \in Proposal
           /\ NewProposal(changes).body = changes
           /\ ~NewProposal(changes).ready
           /\ Retired(NewProposal(changes)) \in Proposal
<1>1. NewProposal(changes) \in Proposal
  <2>1. tip \in Version /\ 0 \in Attempt /\ {} \in SUBSET Request
    BY CountersAssumption DEF Typed, TypeOK, Attempt
  <2> QED
    BY <2>1 DEF NewProposal, Proposal
<1> QED
  BY <1>1, RetiredType DEF NewProposal

\* What a pending request publishes at a path is a value.
LEMMA PublishedType ==
    ASSUME Typed, NEW members \in SUBSET PendingRequests, NEW p \in Path,
           Writers(members, p) # {}
    PROVE  Published(members, p) \in Value
<1>1. PICK r \in Request : r \in members /\ r = CHOOSE s \in Writers(members, p) : TRUE
  BY DEF Writers, PendingRequests
<1>2. r \in Writers(members, p) /\ Published(members, p) = proposals[r].body[p].value
  BY <1>1 DEF Published
<1>3. proposals[r].body \in Changes /\ proposals[r].body[p] # None
  BY <1>1, <1>2, PendingType DEF PendingRequests, Writers
<1>4. proposals[r].body[p] \in Change
  BY <1>3 DEF Changes
<1> QED
  BY <1>2, <1>4 DEF Change

\* What a publication writes is well typed, and the new tip is stored.
LEMMA PublishTypes ==
    ASSUME Typed, NEW members \in SUBSET PendingRequests, NEW root \in Snapshot,
           Publish(members, root)
    PROVE  /\ tip' \in Version
           /\ epochs' \in [Version -> Snapshot \cup {None}]
           /\ history' \in [Version -> [root : Snapshot, members : SUBSET Request] \cup {None}]
           /\ leases' \in [Path -> Lease \cup {None}]
           /\ views' \in [LeafId \X Path -> View \cup {None}]
           /\ proposals' \in [Request -> Proposal \cup {None}]
           /\ RowsOK'
           /\ TipStored'
<1> DEFINE version == tip + 1
<1>1. version \in Version /\ tip' = version
  <2>1. tip' = version /\ version <= MaxVersion
    BY DEF Publish
  <2>2. tip \in Version
    BY DEF Typed, TypeOK
  <2> QED
    BY <2>1, <2>2, CountersAssumption DEF Version
<1>2. members \in SUBSET Request
  BY DEF PendingRequests
<1>3. ASSUME NEW p \in Path, Writers(members, p) # {}
      PROVE  Published(members, p) \in Value
  BY <1>3, PublishedType
<1>4. epochs' \in [Version -> Snapshot \cup {None}]
  BY <1>1 DEF Publish, Typed, TypeOK
<1>5. history' \in [Version -> [root : Snapshot, members : SUBSET Request] \cup {None}]
  <2>1. [root |-> root, members |-> members] \in [root : Snapshot, members : SUBSET Request]
    BY <1>2
  <2>2. history' = [history EXCEPT ![version] = [root |-> root, members |-> members]]
    BY DEF Publish
  <2> QED
    BY <2>1, <2>2 DEF Typed, TypeOK
<1>6. leases' \in [Path -> Lease \cup {None}]
  <2>1. ASSUME NEW p \in Path, Writers(members, p) # {}, leases[p] # None
        PROVE  [leases[p] EXCEPT !.origin = Published(members, p)] \in Lease
    BY <1>3, <2>1 DEF Typed, TypeOK, Lease
  <2> QED
    BY <2>1 DEF Publish, Typed, TypeOK
<1>7. views' \in [LeafId \X Path -> View \cup {None}]
  <2>1. ASSUME NEW k \in LeafId \X Path, views[k] # None,
               \E r \in Writers(members, k[2]) : r[1] = k[1]
        PROVE  [views[k] EXCEPT !.origin = Published(members, k[2])] \in View
    BY <1>3, <2>1 DEF Typed, TypeOK, View
  <2>2. views' = [k \in LeafId \X Path |->
             IF views[k] # None /\ \E r \in Writers(members, k[2]) : r[1] = k[1]
             THEN [views[k] EXCEPT !.origin = Published(members, k[2])]
             ELSE views[k]]
    BY DEF Publish
  <2> QED
    BY <2>1, <2>2 DEF Typed, TypeOK
<1>8. proposals' \in [Request -> Proposal \cup {None}] /\ RowsOK'
  <2>1. ASSUME NEW r \in members
        PROVE  /\ [proposals[r] EXCEPT !.state = "committed", !.committed = version] \in Proposal
               /\ proposals[r].body \in Changes
    <3>1. proposals[r] \in Proposal /\ proposals[r].body \in Changes
      BY <1>2, PendingType DEF PendingRequests
    <3> QED
      BY <1>1, <3>1 DEF Proposal
  <2>2. proposals' = [r \in Request |->
             IF r \in members
             THEN [proposals[r] EXCEPT !.state = "committed", !.committed = version]
             ELSE proposals[r]]
    BY DEF Publish
  <2>3. ASSUME NEW r \in members
        PROVE  /\ [proposals[r] EXCEPT !.state = "committed", !.committed = version].body = proposals[r].body
               /\ [proposals[r] EXCEPT !.state = "committed", !.committed = version].ready = proposals[r].ready
               /\ [proposals[r] EXCEPT !.state = "committed", !.committed = version].root = proposals[r].root
               /\ [proposals[r] EXCEPT !.state = "committed", !.committed = version].parent = proposals[r].parent
    BY <1>2, PendingType DEF PendingRequests, Proposal
  <2>4. \A r \in members : r \in Request /\ proposals[r] # None
    BY <1>2 DEF PendingRequests, Pending
  <2> QED
    BY <1>2, <2>1, <2>2, <2>3, <2>4 DEF Typed, TypeOK, RowsOK
<1>9. TipStored'
  <2>1. epochs' = [epochs EXCEPT ![version] = root]
    BY DEF Publish
  <2> QED
    BY <1>1, <2>1 DEF Typed, TypeOK, TipStored, Version
<1> QED
  BY <1>1, <1>4, <1>5, <1>6, <1>7, <1>8, <1>9

\* What propose captures is a set of well-formed changes.
LEMMA ProposedType ==
    ASSUME Typed, NEW l \in LeafId, NEW paths \in SUBSET Path,
           \A p \in paths : Capturable(l, p)
    PROVE  [p \in Path |->
               IF p \in paths
               THEN [token |-> leases[p].token, origin |-> views[<<l, p>>].origin,
                     value |-> views[<<l, p>>].value]
               ELSE None] \in Changes
<1>1. ASSUME NEW p \in paths
      PROVE  [token |-> leases[p].token, origin |-> views[<<l, p>>].origin,
              value |-> views[<<l, p>>].value] \in Change
  <2>1. leases[p] \in Lease /\ views[<<l, p>>] \in View
    BY DEF Typed, TypeOK, Capturable, Dirty
  <2> QED
    BY <2>1 DEF Lease, View, Change
<1> QED
  BY <1>1 DEF Changes

LEMMA PublicationTypes ==
    ASSUME Typed, PublicationNext
    PROVE  Typed'
<1> USE DEF Typed, TypeOK, TipStored
<1>1. ASSUME NEW l \in LeafId, AbortUnsubmitted(l)
      PROVE  Typed'
  <2> DEFINE r == <<l, leaves[l]>>
             row == Retired(NewProposal(None))
  <2>1. leaves[l] \in Sequence /\ leaves' = [leaves EXCEPT ![l] = leaves[l] + 1]
             /\ leaves[l] < MaxSequence
    BY <1>1 DEF AbortUnsubmitted, Active
  <2>2. leaves' \in [LeafId -> Sequence \cup {None}]
    BY <2>1, CountersAssumption DEF Sequence
  <2>3. r \in Request
    BY <2>1 DEF Request
  <2>4. row \in Proposal /\ row.state = "aborted" /\ ~row.ready
    BY NewProposalType, RetiredType
  <2>5. proposals' = [proposals EXCEPT ![r] = row]
    BY <1>1 DEF AbortUnsubmitted
  <2>6. proposals' \in [Request -> Proposal \cup {None}] /\ RowsOK'
    BY <2>3, <2>4, <2>5, RowUpdate
  <2>7. UNCHANGED <<nextLeaf, nextToken, leaseVars, uploadVars, versionVars, captured,
                    storeVars, candidateVars, maintenanceVars>>
    BY <1>1 DEF AbortUnsubmitted
  <2> QED
    BY <2>2, <2>6, <2>7
<1>2. ASSUME NEW l \in LeafId, NEW paths \in SUBSET Path, Propose(l, paths)
      PROVE  Typed'
  <2> DEFINE r == <<l, leaves[l]>>
             changes == [p \in Path |->
                 IF p \in paths
                 THEN [token |-> leases[p].token, origin |-> views[<<l, p>>].origin,
                       value |-> views[<<l, p>>].value]
                 ELSE None]
             capture == [at |-> tip, changes |-> changes]
  <2>1. leaves[l] \in Sequence /\ leaves' = [leaves EXCEPT ![l] = leaves[l] + 1]
             /\ leaves[l] < MaxSequence
    BY <1>2 DEF Propose, Active
  <2>2. leaves' \in [LeafId -> Sequence \cup {None}]
    BY <2>1, CountersAssumption DEF Sequence
  <2>3. r \in Request
    BY <2>1 DEF Request
  <2>4. changes \in Changes
    BY <1>2, ProposedType DEF Propose
  <2>5. proposals' = [proposals EXCEPT ![r] = NewProposal(changes)]
    BY <1>2 DEF Propose
  <2>6. proposals' \in [Request -> Proposal \cup {None}] /\ RowsOK'
    <3> HIDE DEF changes, r
    <3>1. /\ NewProposal(changes) \in Proposal
          /\ NewProposal(changes).body = changes
          /\ ~NewProposal(changes).ready
      BY <2>4, NewProposalType
    <3> QED
      BY <2>3, <2>4, <2>5, <3>1, RowUpdate
  <2>7. captured' = [captured EXCEPT ![r] = capture]
    BY <1>2 DEF Propose
  <2>8. captured' \in [Request -> [at : Version, changes : Changes] \cup {None}]
    BY <2>4, <2>7
  <2>9. UNCHANGED <<nextLeaf, nextToken, leaseVars, uploadVars, versionVars, storeVars,
                    candidateVars, maintenanceVars>>
    BY <1>2 DEF Propose
  <2> QED
    BY <2>2, <2>6, <2>8, <2>9
<1>3. ASSUME NEW r \in Request, BeginPrepare(r)
      PROVE  Typed'
  <2> DEFINE attempt == proposals[r].attempt + 1
             root == Overlay(Tip, proposals[r].body)
             row == [proposals[r] EXCEPT !.attempt = attempt, !.parent = tip, !.root = None,
                                         !.ready = FALSE, !.batch = {}]
             call == [request |-> r, attempt |-> attempt, parent |-> tip, root |-> root,
                      step |-> "pin"]
  <2>1. proposals[r] \in Proposal /\ proposals[r].body \in Changes
    BY <1>3, PendingType DEF BeginPrepare
  <2>2. attempt \in Attempt
    <3>1. attempt <= MaxAttempt
      BY <1>3 DEF BeginPrepare
    <3>2. proposals[r].attempt \in Attempt
      BY <2>1 DEF Proposal
    <3> QED
      BY <3>1, <3>2, CountersAssumption DEF Attempt
  <2>3. row \in Proposal /\ row.body = proposals[r].body /\ ~row.ready
    BY <2>1, <2>2 DEF Proposal
  <2>4. proposals' = [proposals EXCEPT ![r] = row]
    BY <1>3 DEF BeginPrepare
  <2>5. proposals' \in [Request -> Proposal \cup {None}] /\ RowsOK'
    BY <2>1, <2>3, <2>4, RowUpdate
  <2>6. root \in Snapshot
    BY <2>1, OverlayType DEF Tip
  <2>7. call \in PrepareCall
    BY <2>2, <2>6 DEF PrepareCall
  <2>8. prepares' = prepares \/ prepares' = prepares \cup {call}
    BY <1>3 DEF BeginPrepare
  <2>9. UNCHANGED <<leafVars, nextToken, leaseVars, uploadVars, versionVars, captured, storeVars,
                    commits, batchPrepares, batchCommits, maintenanceVars>>
    BY <1>3 DEF BeginPrepare
  <2> QED
    BY <2>5, <2>7, <2>8, <2>9
<1>4. ASSUME NEW r \in Request, CheckCommit(r)
      PROVE  Typed'
  <2> DEFINE call == [request |-> r, attempt |-> proposals[r].attempt,
                      parent |-> proposals[r].parent, root |-> proposals[r].root,
                      base |-> Tip, verified |-> FALSE]
  <2>1. proposals[r] \in Proposal /\ proposals[r].ready
    BY <1>4, PendingType DEF CheckCommit, Committable
  <2>2. proposals[r].root \in Snapshot /\ proposals[r].parent \in Version
    BY <1>4, <2>1 DEF RowsOK, CheckCommit, Pending
  <2>3. call \in CommitCall
    BY <2>1, <2>2 DEF CommitCall, Proposal, Tip
  <2>4. commits' = commits \cup {call}
    BY <1>4 DEF CheckCommit
  <2>5. UNCHANGED <<leafVars, nextToken, leaseVars, uploadVars, versionVars, proposalVars, storeVars,
                    prepares, batchPrepares, batchCommits, maintenanceVars>>
    BY <1>4 DEF CheckCommit
  <2> QED
    BY <2>3, <2>4, <2>5 DEF RowsOK
<1>5. ASSUME NEW r \in Request, Abort(r)
      PROVE  Typed'
  <2>1. proposals' = [proposals EXCEPT ![r] = Retired(proposals[r])]
    BY <1>5 DEF Abort
  <2>2. proposals' \in [Request -> Proposal \cup {None}] /\ RowsOK'
    BY <1>5, <2>1, PendingType, RetiredType, RowUpdate DEF Abort
  <2>3. UNCHANGED <<leafVars, nextToken, leaseVars, uploadVars, versionVars, captured, storeVars,
                    candidateVars, maintenanceVars>>
    BY <1>5 DEF Abort
  <2> QED
    BY <2>2, <2>3
<1>6. ASSUME NEW c \in prepares, PinCandidate(c)
      PROVE  Typed'
  <2> DEFINE row == [proposals[c.request] EXCEPT !.root = c.root]
  <2>1. c.request \in Request /\ c.root \in Snapshot
    BY DEF PrepareCall
  <2>2. proposals[c.request] \in Proposal /\ proposals[c.request].body \in Changes
    BY <1>6, <2>1, PendingType DEF PinCandidate
  <2>3. /\ row \in Proposal
        /\ row.body = proposals[c.request].body
        /\ row.ready = proposals[c.request].ready
        /\ row.parent = proposals[c.request].parent
        /\ row.root \in Snapshot
    BY <2>1, <2>2 DEF Proposal
  <2>4. row.ready => row.parent \in Version
    BY <1>6, <2>1, <2>3 DEF RowsOK, PinCandidate, Pending
  <2>5. proposals' = [proposals EXCEPT ![c.request] = row]
    BY <1>6 DEF PinCandidate
  <2>6. proposals' \in [Request -> Proposal \cup {None}] /\ RowsOK'
    BY <2>1, <2>2, <2>3, <2>4, <2>5, RowUpdate
  <2>7. prepares' \subseteq PrepareCall
    BY <1>6 DEF PinCandidate, PrepareCall
  <2>8. UNCHANGED <<leafVars, nextToken, leaseVars, uploadVars, versionVars, captured, storeVars,
                    commits, batchPrepares, batchCommits, maintenanceVars>>
    BY <1>6 DEF PinCandidate
  <2> QED
    BY <2>6, <2>7, <2>8
<1>7. ASSUME NEW c \in prepares, StoreCandidate(c)
      PROVE  Typed'
  <2>1. manifests' \subseteq Snapshot /\ prepares' \subseteq PrepareCall
    BY <1>7 DEF StoreCandidate, PrepareCall
  <2>2. UNCHANGED <<leafVars, nextToken, leaseVars, uploadVars, versionVars, proposalVars, objects,
                    commits, batchPrepares, batchCommits, maintenanceVars>>
    BY <1>7 DEF StoreCandidate
  <2> QED
    BY <2>1, <2>2 DEF RowsOK
<1>8. ASSUME NEW c \in prepares, ReadyCandidate(c)
      PROVE  Typed'
  <2> DEFINE row == [proposals[c.request] EXCEPT !.ready = TRUE]
  <2>1. c.request \in Request /\ c.root \in Snapshot /\ c.parent \in Version
    BY DEF PrepareCall
  <2>2. proposals[c.request] \in Proposal /\ proposals[c.request].body \in Changes
    BY <1>8, <2>1, PendingType DEF ReadyCandidate
  <2>3. /\ row \in Proposal
        /\ row.body = proposals[c.request].body
        /\ row.parent = proposals[c.request].parent
        /\ row.root = proposals[c.request].root
    BY <2>1, <2>2 DEF Proposal
  <2>4. row.root = c.root /\ row.parent = c.parent
    BY <1>8, <2>3 DEF ReadyCandidate, Matches
  <2>5. proposals' = [proposals EXCEPT ![c.request] = row]
    BY <1>8 DEF ReadyCandidate
  <2>6. proposals' \in [Request -> Proposal \cup {None}] /\ RowsOK'
    BY <2>1, <2>2, <2>3, <2>4, <2>5, RowUpdate
  <2>7. prepares' \subseteq PrepareCall
    BY <1>8 DEF ReadyCandidate
  <2>8. UNCHANGED <<leafVars, nextToken, leaseVars, uploadVars, versionVars, captured, storeVars,
                    commits, batchPrepares, batchCommits, maintenanceVars>>
    BY <1>8 DEF ReadyCandidate
  <2> QED
    BY <2>6, <2>7, <2>8
<1>9. ASSUME NEW c \in prepares, FailPrepare(c)
      PROVE  Typed'
  BY <1>9 DEF FailPrepare, RowsOK
<1>10. ASSUME NEW c \in commits, VerifyCommit(c)
       PROVE  Typed'
  <2>1. commits' \subseteq CommitCall
    BY <1>10 DEF VerifyCommit, CommitCall
  <2>2. UNCHANGED <<leafVars, nextToken, leaseVars, uploadVars, versionVars, proposalVars, storeVars,
                    prepares, batchPrepares, batchCommits, maintenanceVars>>
    BY <1>10 DEF VerifyCommit
  <2> QED
    BY <2>1, <2>2 DEF RowsOK
<1>11. ASSUME NEW c \in commits, Commit(c)
       PROVE  Typed'
  <2>1. c.request \in PendingRequests /\ c.root \in Snapshot
    BY <1>11 DEF CommitCall, Commit, Committable, PendingRequests
  <2>2. Publish({c.request}, c.root)
    BY <1>11 DEF Commit
  <2>3. commits' \subseteq CommitCall
    BY <1>11 DEF Commit
  <2>4. UNCHANGED <<leafVars, nextToken, uploadVars, captured, storeVars, prepares,
                    batchPrepares, batchCommits, maintenanceVars>>
    BY <1>11 DEF Commit
  <2> QED
    BY <2>1, <2>2, <2>3, <2>4, PublishTypes
<1>12. ASSUME NEW c \in commits, FailCommit(c)
       PROVE  Typed'
  BY <1>12 DEF FailCommit, RowsOK
<1> QED
  BY <1>1, <1>2, <1>3, <1>4, <1>5, <1>6, <1>7, <1>8, <1>9, <1>10, <1>11, <1>12 DEF PublicationNext

\* A batch that still owns its members may give them its candidate.
LEMMA CandidateTypes ==
    ASSUME Typed, NEW b \in BatchPrepareCall, NEW ready \in BOOLEAN,
           InBatch(b), SetCandidate(b, ready)
    PROVE  proposals' \in [Request -> Proposal \cup {None}] /\ RowsOK'
<1> DEFINE row(r) == [proposals[r] EXCEPT !.root = b.root, !.ready = ready]
<1>1. b.members \in SUBSET Request /\ b.root \in Snapshot /\ b.parent \in Version
  BY DEF BatchPrepareCall
<1>2. ASSUME NEW r \in b.members
      PROVE  /\ proposals[r] \in Proposal
             /\ proposals[r].body \in Changes
             /\ proposals[r].parent = b.parent
  BY <1>1, PendingType DEF InBatch
<1>3. ASSUME NEW r \in b.members
      PROVE  /\ row(r) \in Proposal
             /\ row(r).body \in Changes
             /\ row(r).root \in Snapshot
             /\ row(r).parent \in Version
  BY <1>1, <1>2 DEF Proposal
<1>4. proposals' = [r \in Request |-> IF r \in b.members THEN row(r) ELSE proposals[r]]
  BY DEF SetCandidate
<1> QED
  BY <1>1, <1>3, <1>4 DEF Typed, TypeOK, RowsOK

\* Composing pending proposals onto a tree gives a tree.
LEMMA ComposeType ==
    ASSUME Typed, NEW tree \in Snapshot, NEW members \in SUBSET PendingRequests
    PROVE  Compose(tree, members) \in Snapshot
<1>1. ASSUME NEW p \in Path, Writers(members, p) # {}
      PROVE  Published(members, p) \in Value
  BY <1>1, PublishedType
<1> QED
  BY <1>1 DEF Compose, Snapshot

LEMMA BatchTypes ==
    ASSUME Typed, BatchNext
    PROVE  Typed'
<1> USE DEF Typed, TypeOK, TipStored
<1>1. ASSUME NEW members \in SUBSET PendingRequests, BeginPrepareBatch(members)
      PROVE  Typed'
  <2> DEFINE row(r) == [proposals[r] EXCEPT !.attempt = proposals[r].attempt + 1, !.parent = tip,
                                            !.root = None, !.ready = FALSE, !.batch = members]
             attempts == [r \in Request |-> IF r \in members THEN proposals[r].attempt + 1 ELSE 0]
             call == [members |-> members, parent |-> tip, root |-> Compose(Tip, members),
                      attempts |-> attempts, step |-> "pin"]
  <2>1. members \subseteq Request
    BY DEF PendingRequests
  <2>2. ASSUME NEW r \in members
        PROVE  proposals[r] \in Proposal /\ proposals[r].body \in Changes
    BY <2>1, PendingType DEF PendingRequests
  <2>3. ASSUME NEW r \in members
        PROVE  proposals[r].attempt + 1 \in Attempt
    <3>1. proposals[r].attempt < MaxAttempt
      BY <1>1 DEF BeginPrepareBatch
    <3>2. proposals[r].attempt \in Attempt
      BY <2>2 DEF Proposal
    <3> QED
      BY <3>1, <3>2, CountersAssumption DEF Attempt
  <2>4. ASSUME NEW r \in members
        PROVE  row(r) \in Proposal /\ row(r).body \in Changes /\ ~row(r).ready
    <3>1. /\ proposals[r].attempt + 1 \in Attempt
          /\ tip \in Version \cup {None}
          /\ None \in Snapshot \cup {None}
          /\ members \in SUBSET Request
      BY <2>1, <2>3
    <3>2. proposals[r] \in Proposal /\ proposals[r].body \in Changes
      BY <2>2
    <3> QED
      BY ONLY <3>1, <3>2 DEF Proposal
  <2>5. proposals' = [r \in Request |-> IF r \in members THEN row(r) ELSE proposals[r]]
    BY <1>1 DEF BeginPrepareBatch
  <2>6. proposals' \in [Request -> Proposal \cup {None}] /\ RowsOK'
    BY <2>1, <2>4, <2>5 DEF RowsOK
  <2>7. Compose(Tip, members) \in Snapshot
    BY ComposeType DEF Tip
  <2>8. attempts \in [Request -> Attempt]
    BY <2>3, CountersAssumption DEF Attempt
  <2>9. call \in BatchPrepareCall
    BY <2>1, <2>7, <2>8 DEF BatchPrepareCall
  <2>10. batchPrepares' = batchPrepares \/ batchPrepares' = batchPrepares \cup {call}
    BY <1>1 DEF BeginPrepareBatch
  <2>11. UNCHANGED <<leafVars, nextToken, leaseVars, uploadVars, versionVars, captured, storeVars,
                     prepares, commits, batchCommits, maintenanceVars>>
    BY <1>1 DEF BeginPrepareBatch
  <2> QED
    BY <2>6, <2>9, <2>10, <2>11
<1>2. ASSUME NEW members \in SUBSET PendingRequests, CheckCommitBatch(members)
      PROVE  Typed'
  <2> DEFINE r == CHOOSE m \in members : TRUE
             call == [members |-> members, attempts |-> AttemptsOf(members),
                      parent |-> proposals[r].parent, root |-> proposals[r].root,
                      base |-> Tip, verified |-> FALSE]
  <2>1. members \subseteq Request /\ r \in members
    BY <1>2 DEF PendingRequests, CheckCommitBatch
  <2>2. BatchCommittable(call)
    BY <1>2 DEF CheckCommitBatch
  <2>3. proposals[r] \in Proposal /\ proposals[r].ready
    BY <2>1, <2>2, PendingType DEF PendingRequests, BatchCommittable
  <2>4. proposals[r].root \in Snapshot /\ proposals[r].parent \in Version
    BY <2>1, <2>3 DEF RowsOK, PendingRequests, Pending
  <2>5. AttemptsOf(members) \in [Request -> Attempt]
    <3>1. \A m \in members : proposals[m] \in Proposal
      BY <2>1, PendingType DEF PendingRequests
    <3> QED
      BY <3>1, CountersAssumption DEF AttemptsOf, Attempt, Proposal
  <2>6. call \in BatchCommitCall
    BY <2>1, <2>4, <2>5 DEF BatchCommitCall, Tip
  <2>7. batchCommits' = batchCommits \cup {call}
    BY <1>2 DEF CheckCommitBatch
  <2>8. UNCHANGED <<leafVars, nextToken, leaseVars, uploadVars, versionVars, proposalVars, storeVars,
                    prepares, commits, batchPrepares, maintenanceVars>>
    BY <1>2 DEF CheckCommitBatch
  <2> QED
    BY <2>6, <2>7, <2>8 DEF RowsOK
<1>3. ASSUME NEW b \in batchPrepares, PinBatch(b)
      PROVE  Typed'
  <2>1. proposals' \in [Request -> Proposal \cup {None}] /\ RowsOK'
    BY <1>3, CandidateTypes DEF PinBatch
  <2>2. batchPrepares' \subseteq BatchPrepareCall
    BY <1>3 DEF PinBatch, BatchPrepareCall
  <2>3. UNCHANGED <<leafVars, nextToken, leaseVars, uploadVars, versionVars, captured, storeVars,
                    prepares, commits, batchCommits, maintenanceVars>>
    BY <1>3 DEF PinBatch
  <2> QED
    BY <2>1, <2>2, <2>3
<1>4. ASSUME NEW b \in batchPrepares, StoreBatch(b)
      PROVE  Typed'
  <2>1. manifests' \subseteq Snapshot /\ batchPrepares' \subseteq BatchPrepareCall
    BY <1>4 DEF StoreBatch, BatchPrepareCall
  <2>2. UNCHANGED <<leafVars, nextToken, leaseVars, uploadVars, versionVars, proposalVars, objects,
                    prepares, commits, batchCommits, maintenanceVars>>
    BY <1>4 DEF StoreBatch
  <2> QED
    BY <2>1, <2>2 DEF RowsOK
<1>5. ASSUME NEW b \in batchPrepares, ReadyBatch(b)
      PROVE  Typed'
  <2>1. proposals' \in [Request -> Proposal \cup {None}] /\ RowsOK'
    BY <1>5, CandidateTypes DEF ReadyBatch
  <2>2. batchPrepares' \subseteq BatchPrepareCall
    BY <1>5 DEF ReadyBatch
  <2>3. UNCHANGED <<leafVars, nextToken, leaseVars, uploadVars, versionVars, captured, storeVars,
                    prepares, commits, batchCommits, maintenanceVars>>
    BY <1>5 DEF ReadyBatch
  <2> QED
    BY <2>1, <2>2, <2>3
<1>6. ASSUME NEW b \in batchPrepares, FailPrepareBatch(b)
      PROVE  Typed'
  BY <1>6 DEF FailPrepareBatch, RowsOK
<1>7. ASSUME NEW b \in batchCommits, VerifyCommitBatch(b)
      PROVE  Typed'
  <2>1. batchCommits' \subseteq BatchCommitCall
    BY <1>7 DEF VerifyCommitBatch, BatchCommitCall
  <2>2. UNCHANGED <<leafVars, nextToken, leaseVars, uploadVars, versionVars, proposalVars, storeVars,
                    prepares, commits, batchPrepares, maintenanceVars>>
    BY <1>7 DEF VerifyCommitBatch
  <2> QED
    BY <2>1, <2>2 DEF RowsOK
<1>8. ASSUME NEW b \in batchCommits, CommitBatch(b)
      PROVE  Typed'
  <2>1. b.members \in SUBSET PendingRequests /\ b.root \in Snapshot
    BY <1>8 DEF BatchCommitCall, CommitBatch, BatchCommittable, InBatch, PendingRequests
  <2>2. Publish(b.members, b.root)
    BY <1>8 DEF CommitBatch
  <2>3. batchCommits' \subseteq BatchCommitCall
    BY <1>8 DEF CommitBatch
  <2>4. UNCHANGED <<leafVars, nextToken, uploadVars, captured, storeVars, prepares, commits,
                    batchPrepares, maintenanceVars>>
    BY <1>8 DEF CommitBatch
  <2> QED
    BY <2>1, <2>2, <2>3, <2>4, PublishTypes
<1>9. ASSUME NEW b \in batchCommits, FailCommitBatch(b)
      PROVE  Typed'
  BY <1>9 DEF FailCommitBatch, RowsOK
<1> QED
  BY <1>1, <1>2, <1>3, <1>4, <1>5, <1>6, <1>7, <1>8, <1>9 DEF BatchNext

\* What resolve captures is a set of well-formed changes.
LEMMA ResolvedType ==
    ASSUME Typed, NEW l \in LeafId, NEW sources \in SUBSET PendingRequests,
           NEW choices \in [SourcePaths(sources) -> sources], Resolve(l, sources, choices)
    PROVE  SelectedChanges(l, choices) \in Changes
<1>1. ASSUME NEW p \in Path, p \in DOMAIN choices
      PROVE  [token |-> leases[p].token, origin |-> views[<<l, p>>].origin,
              value |-> proposals[choices[p]].body[p].value] \in Change
  <2>1. Authorized(l, p) /\ proposals[choices[p]].body[p] # None
    BY <1>1 DEF Resolve
  <2>2. leases[p] \in Lease /\ views[<<l, p>>] \in View
    BY <2>1 DEF Typed, TypeOK, Authorized
  <2>3. proposals[choices[p]].body \in Changes
    BY <1>1, PendingType DEF PendingRequests
  <2>4. proposals[choices[p]].body[p] \in Change
    BY <2>1, <2>3 DEF Changes
  <2> QED
    BY <2>2, <2>4 DEF Lease, View, Change
<1> QED
  BY <1>1 DEF SelectedChanges, Changes

LEMMA ResolutionTypes ==
    ASSUME Typed, ResolutionNext
    PROVE  Typed'
<1> USE DEF Typed, TypeOK, TipStored
<1>0. PICK l \in LeafId : \E sources \in SUBSET {r \in PendingRequests : r[1] = l} :
         \E choices \in [SourcePaths(sources) -> sources] : Resolve(l, sources, choices)
  BY DEF ResolutionNext
<1>1. PICK sources \in SUBSET {r \in PendingRequests : r[1] = l} :
         \E choices \in [SourcePaths(sources) -> sources] : Resolve(l, sources, choices)
  BY <1>0
<1>2. PICK choices \in [SourcePaths(sources) -> sources] : Resolve(l, sources, choices)
  BY <1>1
<1> DEFINE r == <<l, leaves[l]>>
           changes == SelectedChanges(l, choices)
           capture == [at |-> tip, changes |-> changes]
<1>3. leaves[l] \in Sequence /\ leaves' = [leaves EXCEPT ![l] = leaves[l] + 1]
           /\ leaves[l] < MaxSequence
  BY <1>2 DEF Resolve, Active
<1>4. leaves' \in [LeafId -> Sequence \cup {None}]
  BY <1>3, CountersAssumption DEF Sequence
<1>5. r \in Request
  BY <1>3 DEF Request
<1>6. \A s \in sources : s \in Request /\ Pending(s) /\ proposals[s] \in Proposal
                                       /\ proposals[s].body \in Changes
  BY PendingType DEF PendingRequests
<1>7. changes \in Changes
  BY <1>2, ResolvedType
<1>8. proposals' = [s \in Request |-> IF s = r THEN NewProposal(changes)
                                      ELSE IF s \in sources THEN Retired(proposals[s])
                                      ELSE proposals[s]]
  BY <1>2 DEF Resolve
<1>9. proposals' \in [Request -> Proposal \cup {None}] /\ RowsOK'
  <2> HIDE DEF changes, r
  <2>1. /\ NewProposal(changes) \in Proposal
        /\ NewProposal(changes).body = changes
        /\ ~NewProposal(changes).ready
    BY <1>7, NewProposalType
  <2> QED
    BY <1>5, <1>6, <1>7, <1>8, <2>1, RetiredType DEF RowsOK
<1>10. captured' = [captured EXCEPT ![r] = capture]
  BY <1>2 DEF Resolve
<1>11. captured' \in [Request -> [at : Version, changes : Changes] \cup {None}]
  BY <1>7, <1>10
<1>12. UNCHANGED <<nextLeaf, nextToken, leaseVars, uploadVars, versionVars, storeVars,
                   candidateVars, maintenanceVars>>
  BY <1>2 DEF Resolve
<1> QED
  BY <1>4, <1>9, <1>11, <1>12

\* Pruning keeps the newest epoch, so the tip survives it.
LEMMA TipIsKept ==
    ASSUME Typed
    PROVE  tip \in KeptEpochs
<1>1. tip \in StoredEpochs
  BY NoneAssumption DEF Typed, TypeOK, TipStored, StoredEpochs
<1>2. {u \in StoredEpochs : u > tip} = {}
  BY DEF Typed, TypeOK, TipStored, StoredEpochs, Version
<1>3. Cardinality({u \in StoredEpochs : u > tip}) = 0
  BY <1>2, FS_EmptySet
<1>4. 0 < RetainedEpochs
  BY CountersAssumption
<1> QED
  BY <1>1, <1>3, <1>4 DEF KeptEpochs

LEMMA MaintenanceTypes ==
    ASSUME Typed, MaintenanceNext
    PROVE  Typed'
<1> USE DEF Typed, TypeOK, TipStored
<1>1. ASSUME NEW v \in Version, Retain(v) \/ ReleaseRetention(v)
      PROVE  Typed'
  BY <1>1 DEF Retain, ReleaseRetention, RowsOK
<1>2. ASSUME NEW new \in SUBSET Object, ReplaceClientPins(new)
      PROVE  Typed'
  BY <1>2 DEF ReplaceClientPins, RowsOK
<1>3. ASSUME PruneHistory
      PROVE  Typed'
  <2>1. epochs' = [v \in Version |-> IF v \in KeptEpochs THEN epochs[v] ELSE None]
    BY <1>3 DEF PruneHistory
  <2>2. epochs' \in [Version -> Snapshot \cup {None}]
    BY <2>1
  <2>3. PICK kept \in SUBSET CommittedRequests :
           proposals' = [r \in Request |->
               IF r \in kept \cup PendingRequests THEN proposals[r] ELSE None]
    BY <1>3 DEF PruneHistory
  <2>4. proposals' \in [Request -> Proposal \cup {None}] /\ RowsOK'
    BY <2>3 DEF RowsOK
  <2>5. sweeps' = sweeps + 1
    BY <1>3 DEF PruneHistory
  <2>6. UNCHANGED <<leafVars, nextToken, leaseVars, uploadVars, tip, history, captured,
                    storeVars, candidateVars, retained, pins>>
    BY <1>3 DEF PruneHistory
  <2>7. TipStored'
    BY <2>1, <2>6, TipIsKept
  <2> QED
    BY <2>2, <2>4, <2>5, <2>6, <2>7
<1>4. ASSUME Collect \/ InterruptedCollect
      PROVE  Typed'
  <2>1. objects' \subseteq Object /\ manifests' \subseteq Snapshot
    BY <1>4 DEF Collect, InterruptedCollect
  <2>2. sweeps' \in Nat
    BY <1>4 DEF Collect, InterruptedCollect
  <2>3. UNCHANGED <<leafVars, nextToken, leaseVars, uploadVars, versionVars, proposalVars,
                    candidateVars, retained, pins>>
    BY <1>4 DEF Collect, InterruptedCollect
  <2> QED
    BY <2>1, <2>2, <2>3 DEF RowsOK
<1> QED
  BY <1>1, <1>2, <1>3, <1>4 DEF MaintenanceNext

\* The leaves, uploads and holds an instance starts with are in its tables.
LEMMA InitialFacts ==
    /\ MaxLeafId \in Nat /\ MaxToken \in Nat /\ MaxVersion \in Nat /\ MaxVersion >= 1
    /\ InitialLeaves \in Nat /\ InitialLeaves < MaxLeafId
    /\ Len(InitialUploads) \in Nat /\ DOMAIN InitialUploads = 1..Len(InitialUploads)
    /\ Len(InitialHolds) \in Nat /\ DOMAIN InitialHolds = 1..Len(InitialHolds)
    /\ Len(InitialUploads) + Len(InitialHolds) < MaxToken
    /\ \A i \in DOMAIN InitialUploads : InitialUploads[i] \in LeafId \X Object
    /\ \A i \in DOMAIN InitialHolds : InitialHolds[i] \in LeafId \X Path
    /\ \A p \in Path : InitialTree[p] \in Value
<1>1. /\ MaxLeafId \in Nat /\ MaxToken \in Nat /\ MaxVersion \in Nat /\ MaxVersion >= 1
  BY CountersAssumption
<1>2. InitialLeaves \in Nat /\ InitialLeaves < MaxLeafId
  BY <1>1, InitialAssumption
<1>3. /\ InitialUploads \in Seq((1..InitialLeaves) \X Object)
      /\ InitialHolds \in Seq((1..InitialLeaves) \X Path)
      /\ Len(InitialUploads) + Len(InitialHolds) < MaxToken
  BY InitialAssumption
<1>4. (1..InitialLeaves) \subseteq LeafId
  BY <1>1, <1>2 DEF LeafId
<1>5. /\ \A i \in DOMAIN InitialUploads : InitialUploads[i] \in LeafId \X Object
      /\ \A i \in DOMAIN InitialHolds : InitialHolds[i] \in LeafId \X Path
  BY <1>3, <1>4
<1>6. \A p \in Path : InitialTree[p] \in Value
  BY InitialAssumption DEF Snapshot
<1> QED
  BY <1>1, <1>2, <1>3, <1>5, <1>6

LEMMA InitTypes ==
    ASSUME Init
    PROVE  Typed
<1>1. leaves \in [LeafId -> Sequence \cup {None}]
  <2>1. 1 \in Sequence
    BY CountersAssumption DEF Sequence
  <2>2. leaves = [l \in LeafId |-> IF l <= InitialLeaves THEN 1 ELSE None]
    BY DEF Init
  <2> QED
    BY <2>1, <2>2
<1>2. nextLeaf \in LeafId
  BY InitialFacts DEF Init, LeafId
<1>3. nextToken \in Token
  BY InitialFacts DEF Init, Token
<1>4. leases \in [Path -> Lease \cup {None}]
  <2>1. ASSUME NEW p \in Path, \E i \in DOMAIN InitialHolds : InitialHolds[i][2] = p
        PROVE  leases[p] \in Lease
    <3> DEFINE i == CHOOSE j \in DOMAIN InitialHolds : InitialHolds[j][2] = p
    <3>1. i \in DOMAIN InitialHolds
      BY <2>1
    <3>2. leases[p] = [leaf |-> InitialHolds[i][1], token |-> Len(InitialUploads) + i,
                       origin |-> InitialTree[p], activated |-> TRUE]
      BY <2>1 DEF Init
    <3> HIDE DEF i
    <3>3. Len(InitialUploads) + i \in Token
      BY <3>1, InitialFacts DEF Token
    <3>4. InitialHolds[i][1] \in LeafId /\ InitialTree[p] \in Value
      BY <3>1, InitialFacts
    <3> QED
      BY <3>2, <3>3, <3>4 DEF Lease
  <2> QED
    BY <2>1 DEF Init
<1>5. views \in [LeafId \X Path -> View \cup {None}]
  BY InitialFacts DEF Init, View
<1>6. uploads \in [LeafId \X Object -> Upload \cup {None}]
  <2>1. ASSUME NEW k \in LeafId \X Object, \E i \in DOMAIN InitialUploads : InitialUploads[i] = k
        PROVE  uploads[k] \in Upload
    <3> DEFINE i == CHOOSE j \in DOMAIN InitialUploads : InitialUploads[j] = k
    <3>1. i \in DOMAIN InitialUploads
      BY <2>1
    <3>2. uploads[k] = [ready |-> TRUE, generation |-> i]
      BY <2>1 DEF Init
    <3> HIDE DEF i
    <3>3. i \in Token
      BY <3>1, InitialFacts DEF Token
    <3> QED
      BY <3>2, <3>3 DEF Upload
  <2> QED
    BY <2>1 DEF Init
<1>7. EmptyTree \in Snapshot /\ InitialTree \in Snapshot
  BY InitialAssumption DEF EmptyTree, Snapshot, Value
<1>8. 1 \in Version /\ 0 \in Version
  BY InitialFacts DEF Version
<1>9. tip \in Version /\ epochs \in [Version -> Snapshot \cup {None}]
  BY <1>7, <1>8 DEF Init, Imported
<1>10. TipStored
  <2>1. tip = 1 /\ epochs[1] = InitialTree
    BY <1>8 DEF Init, Imported
  <2>2. ASSUME NEW v \in Version, epochs[v] # None
        PROVE  v <= 1
    BY <2>2 DEF Init, Imported, Version
  <2> QED
    BY <1>7, <2>1, <2>2 DEF TipStored
<1>11. history \in [Version -> [root : Snapshot, members : SUBSET Request] \cup {None}]
  BY <1>9 DEF Init
<1>12. objects \subseteq Object
  <2>1. ObjectsOf(InitialTree) \subseteq Object
    BY InitialFacts DEF ObjectsOf, Present, Value, Entry
  <2>2. {InitialUploads[i][2] : i \in DOMAIN InitialUploads} \subseteq Object
    BY InitialFacts
  <2> QED
    BY <2>1, <2>2 DEF Init
<1>13. RowsOK
  BY DEF Init, RowsOK
<1>14. TypeOK
  BY <1>1, <1>2, <1>3, <1>4, <1>5, <1>6, <1>7, <1>9, <1>11, <1>12 DEF Init, TypeOK
<1> QED
  BY <1>10, <1>13, <1>14 DEF Typed

LEMMA TypedStep ==
    ASSUME Typed, [Next]_vars
    PROVE  Typed'
<1>1. CASE Next
  BY <1>1, UploadTypes, LeaseTypes, PublicationTypes, BatchTypes, ResolutionTypes,
     MaintenanceTypes DEF Next
<1>2. CASE UNCHANGED vars
  BY <1>2 DEF vars, Typed, TypeOK, RowsOK, TipStored
<1> QED
  BY <1>1, <1>2

LEMMA AlwaysTyped == Spec => []Typed
BY InitTypes, TypedStep, PTL DEF Spec

\* Every table holds rows of its declared shape, and every call in flight
\* carries values the code could have given it.
THEOREM TypeCorrect == Spec => []TypeOK
<1>1. Typed => TypeOK
  BY DEF Typed
<1> QED
  BY <1>1, AlwaysTyped, PTL
-----------------------------------------------------------------------------
(* Reservations *)

\* The transactions that write the reservation table, and what a publication
\* writes there.
LEMMA LeaseSteps ==
    ASSUME Next
    PROVE  \/ UNCHANGED leases
           \/ \E l \in LeafId : DropLeaf(l) \/ \E paths \in SUBSET Path : Acquire(l, paths)
           \/ \E p \in Path : Activate(p) \/ Withdraw(p)
           \/ \E c \in commits : Commit(c)
           \/ \E b \in batchCommits : CommitBatch(b)
<1>1. CASE UploadNext
  BY <1>1 DEF UploadNext, CreateLeaf, BeginStage, DiscardUpload, StorePayload, FinishStage, FailStage
<1>2. CASE LeaseNext
  BY <1>2 DEF LeaseNext, Release, Revoke, Edit, Discard
<1>3. CASE PublicationNext
  BY <1>3 DEF PublicationNext, AbortUnsubmitted, Propose, BeginPrepare, CheckCommit, Abort,
     PinCandidate, StoreCandidate, ReadyCandidate, FailPrepare, VerifyCommit, FailCommit
<1>4. CASE BatchNext
  BY <1>4 DEF BatchNext, BeginPrepareBatch, CheckCommitBatch, PinBatch, StoreBatch, ReadyBatch,
     FailPrepareBatch, VerifyCommitBatch, FailCommitBatch
<1>5. CASE ResolutionNext
  BY <1>5 DEF ResolutionNext, Resolve
<1>6. CASE MaintenanceNext
  BY <1>6 DEF MaintenanceNext, Retain, ReleaseRetention, ReplaceClientPins, PruneHistory, Collect,
     InterruptedCollect
<1> QED
  BY <1>1, <1>2, <1>3, <1>4, <1>5, <1>6 DEF Next

\* A publication moves origins, never holders or tokens.
LEMMA PublishKeepsHolders ==
    ASSUME Typed, NEW members \in SUBSET PendingRequests, NEW root, Publish(members, root)
    PROVE  \A p \in Path : /\ leases'[p] = None <=> leases[p] = None
                           /\ leases[p] # None => /\ leases'[p].leaf = leases[p].leaf
                                                  /\ leases'[p].token = leases[p].token
<1>1. ASSUME NEW p \in Path, leases[p] # None, NEW value \in Value
      PROVE  /\ [leases[p] EXCEPT !.origin = value] # None
             /\ [leases[p] EXCEPT !.origin = value].leaf = leases[p].leaf
             /\ [leases[p] EXCEPT !.origin = value].token = leases[p].token
  <2>1. leases[p] \in Lease
    BY <1>1 DEF Typed, TypeOK
  <2>2. [leases[p] EXCEPT !.origin = value] \in Lease
    BY <2>1 DEF Lease
  <2> QED
    BY <2>1, <2>2, NoneAssumption DEF Lease
<1>2. ASSUME NEW p \in Path, Writers(members, p) # {}
      PROVE  Published(members, p) \in Value
  BY <1>2, PublishedType
<1> QED
  BY <1>1, <1>2 DEF Publish

LEMMA PublishExclusive ==
    ASSUME Typed, ExclusiveAuthority, NEW members \in SUBSET PendingRequests, NEW root,
           Publish(members, root)
    PROVE  ExclusiveAuthority'
BY PublishKeepsHolders DEF ExclusiveAuthority

LEMMA ExclusiveStep ==
    ASSUME Typed, ExclusiveAuthority, [Next]_vars
    PROVE  ExclusiveAuthority'
<1>1. CASE UNCHANGED leases
  BY <1>1 DEF ExclusiveAuthority
<1>2. ASSUME NEW l \in LeafId, DropLeaf(l)
      PROVE  ExclusiveAuthority'
  BY <1>2 DEF DropLeaf, ExclusiveAuthority
<1>3. ASSUME NEW l \in LeafId, NEW paths \in SUBSET Path, Acquire(l, paths)
      PROVE  ExclusiveAuthority'
  <2>1. \A p \in Path : leases'[p] # None =>
            \/ leases'[p] = leases[p]
            \/ p \in paths /\ leases'[p].leaf = l
    BY <1>3 DEF Acquire
  <2>2. \A p \in paths, q \in Path :
            leases[q] # None /\ leases[q].leaf # l => ~Overlaps(p, q) /\ ~Overlaps(q, p)
    BY <1>3 DEF Acquire, Unreserved, Overlaps
  <2> QED
    BY <2>1, <2>2 DEF ExclusiveAuthority
<1>4. ASSUME NEW p \in Path, Activate(p)
      PROVE  ExclusiveAuthority'
  <2>1. leases[p] \in Lease /\ leases' = [leases EXCEPT ![p] = [leases[p] EXCEPT !.activated = TRUE]]
    BY <1>4 DEF Activate, Typed, TypeOK
  <2>2. \A q \in Path : /\ leases'[q] # None => leases[q] # None
                        /\ leases'[q] # None => leases'[q].leaf = leases[q].leaf
    BY <1>4, <2>1 DEF Typed, TypeOK, Lease, Activate
  <2> QED
    BY <2>2 DEF ExclusiveAuthority
<1>5. ASSUME NEW p \in Path, Withdraw(p)
      PROVE  ExclusiveAuthority'
  BY <1>5 DEF Withdraw, ExclusiveAuthority, Typed, TypeOK
<1>6. ASSUME NEW c \in commits, Commit(c)
      PROVE  ExclusiveAuthority'
  <2>1. c.request \in PendingRequests
    BY <1>6 DEF Typed, TypeOK, CommitCall, Commit, Committable, PendingRequests
  <2> QED
    BY <1>6, <2>1, PublishExclusive DEF Commit
<1>7. ASSUME NEW b \in batchCommits, CommitBatch(b)
      PROVE  ExclusiveAuthority'
  <2>1. b.members \in SUBSET PendingRequests
    BY <1>7 DEF Typed, TypeOK, BatchCommitCall, CommitBatch, BatchCommittable, InBatch, PendingRequests
  <2> QED
    BY <1>7, <2>1, PublishExclusive DEF CommitBatch
<1> QED
  BY <1>1, <1>2, <1>3, <1>4, <1>5, <1>6, <1>7, LeaseSteps DEF vars

LEMMA InitExclusive ==
    ASSUME Init
    PROVE  ExclusiveAuthority
<1>1. ASSUME NEW p \in Path, leases[p] # None
      PROVE  \E i \in DOMAIN InitialHolds : InitialHolds[i][2] = p /\ leases[p].leaf = InitialHolds[i][1]
  <2> DEFINE i == CHOOSE j \in DOMAIN InitialHolds : InitialHolds[j][2] = p
  <2>1. \E j \in DOMAIN InitialHolds : InitialHolds[j][2] = p
    BY <1>1 DEF Init
  <2>2. i \in DOMAIN InitialHolds /\ InitialHolds[i][2] = p
    BY <2>1
  <2>3. leases[p].leaf = InitialHolds[i][1]
    BY <2>1 DEF Init
  <2> QED
    BY <2>2, <2>3
<1>2. \A i, j \in DOMAIN InitialHolds :
         Overlaps(InitialHolds[i][2], InitialHolds[j][2]) => InitialHolds[i][1] = InitialHolds[j][1]
  BY InitialAssumption
<1> QED
  BY <1>1, <1>2 DEF ExclusiveAuthority

\* Two leaves never hold overlapping paths at once, however acquire, activate,
\* release, revoke, drop and publication interleave (leases.rs).
THEOREM AuthorityIsExclusive == Spec => []ExclusiveAuthority
BY InitExclusive, ExclusiveStep, AlwaysTyped, PTL DEF Spec
-----------------------------------------------------------------------------
(***************************************************************************)
(* Publication history, for every value of the constants: no update is     *)
(* lost, every live lease is based on the tip, and a receipt tells what    *)
(* was published, once.                                                    *)
(*                                                                         *)
(* A candidate is prepared, stored, verified and committed in separate     *)
(* steps, so the argument needs an invariant about each of those stages:   *)
(* whatever attempt it belongs to, and however stale, a candidate tree is  *)
(* its parent version with exactly the changes its requests captured.      *)
(* The parent's tree and the captured changes never change, so this stays  *)
(* true of a candidate until the final transaction compares the tip.       *)
(***************************************************************************)

\* A request's identity is spent once it is captured, and a pending row still
\* holds what was captured.
RequestsOK ==
    /\ \A l \in LeafId : Active(l) => l < nextLeaf
    /\ \A r \in Request : captured[r] # None =>
        /\ r[1] < nextLeaf
        /\ Active(r[1]) => r[2] < leaves[r[1]]
    /\ \A r \in Request : Pending(r) =>
        /\ captured[r] # None
        /\ captured[r].changes = proposals[r].body
        /\ AllCaptured(proposals[r].batch)

\* Versions are consecutive, and a stored epoch is the version published under
\* its number.
VersionsOK ==
    /\ \A v \in Version : history[v] # None <=> v <= tip
    /\ \A v \in Version : epochs[v] # None => epochs[v] = history[v].root
    /\ \A v \in Version : history[v] # None => AllCaptured(history[v].members)

\* Every candidate in flight is its parent with its requests' changes, and
\* every commit in flight remembers its parent's tree.
CallsOK ==
    /\ \A c \in prepares : Built({c.request}, c.parent, c.root)
    /\ \A b \in batchPrepares : Built(b.members, b.parent, b.root)
    /\ \A c \in commits \cup batchCommits : c.parent <= tip /\ c.base = history[c.parent].root
    /\ \A b \in batchCommits : b.members # {}

\* The stored attempt is the newest, and its parent is that attempt's parent.
AttemptsOK ==
    \A c \in prepares : Pending(c.request) =>
        /\ c.attempt <= proposals[c.request].attempt
        /\ c.attempt = proposals[c.request].attempt =>
            /\ proposals[c.request].parent = c.parent
            /\ proposals[c.request].batch = {}

IInv == RequestsOK /\ VersionsOK /\ CallsOK /\ AttemptsOK /\ CandidatesOK
-----------------------------------------------------------------------------
(* What the steps change *)

\* Reservations and views leave publication alone, but for the end of a leaf.
LEMMA LeaseFrame ==
    ASSUME LeaseNext
    PROVE  /\ UNCHANGED <<nextLeaf, versionVars, captured, candidateVars>>
           /\ \/ UNCHANGED <<leaves, proposals>>
              \/ \E l \in LeafId : DropLeaf(l)
<1>1. ASSUME NEW l \in LeafId, DropLeaf(l)
      PROVE  UNCHANGED <<nextLeaf, versionVars, captured, candidateVars>>
  BY <1>1 DEF DropLeaf
<1>2. ASSUME NEW l \in LeafId, NEW paths \in SUBSET Path, Acquire(l, paths)
      PROVE  UNCHANGED <<leaves, nextLeaf, versionVars, proposals, captured, candidateVars>>
  BY <1>2 DEF Acquire
<1>3. ASSUME NEW p \in Path, Activate(p)
      PROVE  UNCHANGED <<leaves, nextLeaf, versionVars, proposals, captured, candidateVars>>
  BY <1>3 DEF Activate
<1>4. ASSUME NEW p \in Path, Release(p) \/ Revoke(p)
      PROVE  UNCHANGED <<leaves, nextLeaf, versionVars, proposals, captured, candidateVars>>
  BY <1>4 DEF Release, Revoke, Withdraw
<1>5. ASSUME NEW p \in Path, NEW value \in EditedValues, Edit(p, value)
      PROVE  UNCHANGED <<leaves, nextLeaf, versionVars, proposals, captured, candidateVars>>
  BY <1>5 DEF Edit
<1>6. ASSUME NEW p \in Path, NEW l \in LeafId, Discard(l, p)
      PROVE  UNCHANGED <<leaves, nextLeaf, versionVars, proposals, captured, candidateVars>>
  BY <1>6 DEF Discard
<1>7. CASE \E l \in LeafId : DropLeaf(l)
  BY <1>1, <1>7
<1>8. CASE ~\E l \in LeafId : DropLeaf(l)
  <2>1. UNCHANGED <<leaves, nextLeaf, versionVars, proposals, captured, candidateVars>>
    BY ONLY LeaseNext, <1>8, <1>2, <1>3, <1>4, <1>5, <1>6 DEF LeaseNext
  <2> QED
    BY <2>1
<1> QED
  BY <1>7, <1>8

\* The steps that write requests or leaves.
LEMMA RequestSteps ==
    ASSUME Next
    PROVE  \/ UNCHANGED <<leaves, nextLeaf, proposals, captured>>
           \/ CreateLeaf \/ ResolutionNext \/ PruneHistory
           \/ \E l \in LeafId : DropLeaf(l) \/ AbortUnsubmitted(l)
                                \/ \E paths \in SUBSET Path : Propose(l, paths)
           \/ \E r \in Request : BeginPrepare(r) \/ Abort(r)
           \/ \E c \in prepares : PinCandidate(c) \/ ReadyCandidate(c)
           \/ \E c \in commits : Commit(c)
           \/ \E members \in SUBSET PendingRequests : BeginPrepareBatch(members)
           \/ \E b \in batchPrepares : PinBatch(b) \/ ReadyBatch(b)
           \/ \E b \in batchCommits : CommitBatch(b)
<1>1. CASE UploadNext
  BY <1>1 DEF UploadNext, BeginStage, DiscardUpload, StorePayload, FinishStage, FailStage
<1>2. CASE LeaseNext
  BY <1>2, LeaseFrame
<1>3. CASE PublicationNext
  BY <1>3 DEF PublicationNext, CheckCommit, StoreCandidate, FailPrepare, VerifyCommit, FailCommit
<1>4. CASE BatchNext
  BY <1>4 DEF BatchNext, CheckCommitBatch, StoreBatch, FailPrepareBatch, VerifyCommitBatch,
     FailCommitBatch
<1>5. CASE MaintenanceNext
  BY <1>5 DEF MaintenanceNext, Retain, ReleaseRetention, ReplaceClientPins, Collect,
     InterruptedCollect
<1> QED
  BY <1>1, <1>2, <1>3, <1>4, <1>5 DEF Next

\* The steps that write versions.
LEMMA VersionSteps ==
    ASSUME Next
    PROVE  \/ UNCHANGED <<tip, epochs, history>>
           \/ PruneHistory
           \/ \E c \in commits : Commit(c)
           \/ \E b \in batchCommits : CommitBatch(b)
<1>1. CASE UploadNext
  BY <1>1 DEF UploadNext, CreateLeaf, BeginStage, DiscardUpload, StorePayload, FinishStage, FailStage
<1>2. CASE LeaseNext
  BY <1>2, LeaseFrame
<1>3. CASE PublicationNext
  <2>1. ASSUME NEW l \in LeafId, AbortUnsubmitted(l) \/ \E paths \in SUBSET Path : Propose(l, paths)
        PROVE  UNCHANGED <<tip, epochs, history>>
    BY <2>1 DEF AbortUnsubmitted, Propose
  <2>2. ASSUME NEW r \in Request, BeginPrepare(r) \/ CheckCommit(r) \/ Abort(r)
        PROVE  UNCHANGED <<tip, epochs, history>>
    BY <2>2 DEF BeginPrepare, CheckCommit, Abort
  <2>3. ASSUME NEW c \in prepares,
               PinCandidate(c) \/ StoreCandidate(c) \/ ReadyCandidate(c) \/ FailPrepare(c)
        PROVE  UNCHANGED <<tip, epochs, history>>
    BY <2>3 DEF PinCandidate, StoreCandidate, ReadyCandidate, FailPrepare
  <2>4. ASSUME NEW c \in commits, VerifyCommit(c) \/ FailCommit(c)
        PROVE  UNCHANGED <<tip, epochs, history>>
    BY <2>4 DEF VerifyCommit, FailCommit
  <2> QED
    BY ONLY <1>3, <2>1, <2>2, <2>3, <2>4 DEF PublicationNext
<1>4. CASE BatchNext
  BY <1>4 DEF BatchNext, BeginPrepareBatch, CheckCommitBatch, PinBatch, StoreBatch, ReadyBatch,
     FailPrepareBatch, VerifyCommitBatch, FailCommitBatch
<1>5. CASE ResolutionNext
  BY <1>5 DEF ResolutionNext, Resolve
<1>6. CASE MaintenanceNext
  BY <1>6 DEF MaintenanceNext, Retain, ReleaseRetention, ReplaceClientPins, Collect,
     InterruptedCollect
<1> QED
  BY <1>1, <1>2, <1>3, <1>4, <1>5, <1>6 DEF Next

\* Only a capture writes the ghost of what was captured.
LEMMA CaptureSteps ==
    ASSUME Next
    PROVE  \/ UNCHANGED captured
           \/ ResolutionNext
           \/ \E l \in LeafId : \E paths \in SUBSET Path : Propose(l, paths)
BY RequestSteps DEF CreateLeaf, PruneHistory, DropLeaf, AbortUnsubmitted, BeginPrepare, Abort,
   PinCandidate, ReadyCandidate, Commit, BeginPrepareBatch, PinBatch, ReadyBatch, CommitBatch

\* Both kinds of commit publish requests that are pending.
LEMMA PublishSteps ==
    ASSUME Typed
    PROVE  /\ \A c \in commits : Commit(c) => c.request \in PendingRequests /\ c.root \in Snapshot
           /\ \A b \in batchCommits : CommitBatch(b) =>
                b.members \in SUBSET PendingRequests /\ b.root \in Snapshot
<1>1. ASSUME NEW c \in commits, Commit(c)
      PROVE  c.request \in PendingRequests /\ c.root \in Snapshot
  BY <1>1 DEF Typed, TypeOK, CommitCall, Commit, Committable, PendingRequests
<1>2. ASSUME NEW b \in batchCommits, CommitBatch(b)
      PROVE  b.members \in SUBSET PendingRequests /\ b.root \in Snapshot
  BY <1>2 DEF Typed, TypeOK, BatchCommitCall, CommitBatch, BatchCommittable, InBatch, PendingRequests
<1> QED
  BY <1>1, <1>2
-----------------------------------------------------------------------------
(* What never changes *)

\* What a request captured is fixed once it is captured.
LEMMA CapturedIsStable ==
    ASSUME Typed, RequestsOK, [Next]_vars
    PROVE  \A r \in Request : captured[r] # None => captured'[r] = captured[r]
<1>1. ASSUME NEW l \in LeafId, NEW capture, Active(l),
             captured' = [captured EXCEPT ![<<l, leaves[l]>>] = capture]
      PROVE  \A r \in Request : captured[r] # None => captured'[r] = captured[r]
  <2> SUFFICES ASSUME NEW r \in Request, captured[r] # None
               PROVE  captured'[r] = captured[r]
    OBVIOUS
  <2>1. leaves[l] \in Sequence
    BY <1>1 DEF Typed, TypeOK, Active
  <2>2. r # <<l, leaves[l]>>
    BY <1>1, <2>1 DEF RequestsOK, Sequence
  <2> QED
    BY <1>1, <2>2 DEF Typed, TypeOK
<1>2. ASSUME NEW l \in LeafId, NEW paths \in SUBSET Path, Propose(l, paths)
      PROVE  \A r \in Request : captured[r] # None => captured'[r] = captured[r]
  BY <1>1, <1>2 DEF Propose
<1>3. CASE ResolutionNext
  <2>1. PICK l \in LeafId, sources \in SUBSET PendingRequests :
             \E choices \in [SourcePaths(sources) -> sources] : Resolve(l, sources, choices)
    BY <1>3 DEF ResolutionNext
  <2> QED
    BY <1>1, <2>1 DEF Resolve
<1> QED
  BY <1>2, <1>3, CaptureSteps DEF vars

\* A published version is fixed, and versions only get newer.
LEMMA VersionsAreStable ==
    ASSUME Typed, VersionsOK, [Next]_vars
    PROVE  /\ tip <= tip'
           /\ \A v \in Version : v <= tip => history'[v] = history[v]
<1>1. ASSUME NEW members, NEW root, Publish(members, root)
      PROVE  /\ tip <= tip'
             /\ \A v \in Version : v <= tip => history'[v] = history[v]
  <2>1. /\ tip' = tip + 1
        /\ history' = [history EXCEPT ![tip + 1] = [root |-> root, members |-> members]]
    BY <1>1 DEF Publish
  <2> QED
    BY <2>1 DEF Typed, TypeOK, Version
<1>2. CASE UNCHANGED <<tip, history>>
  BY <1>2 DEF Typed, TypeOK, Version
<1> QED
  BY <1>1, <1>2, VersionSteps DEF vars, PruneHistory, Commit, CommitBatch

LEMMA BuiltIsStable ==
    ASSUME Typed, RequestsOK, VersionsOK, [Next]_vars,
           NEW members, NEW parent, NEW root, Built(members, parent, root)
    PROVE  Built(members, parent, root)'
<1>1. \A r \in members : r \in Request /\ captured[r] # None /\ captured'[r] = captured[r]
  BY CapturedIsStable DEF Built, AllCaptured
<1>2. history'[parent] = history[parent] /\ parent <= tip'
  BY VersionsAreStable, TypedStep DEF Built, Typed, TypeOK, Version
<1>3. \A p \in Path : CapturedBy(members, p)' = CapturedBy(members, p)
  BY <1>1 DEF CapturedBy
<1>4. AllCaptured(members)'
  BY <1>1 DEF AllCaptured
<1>5. Applies(members, history[parent].root, root)'
  <2>1. \A p \in Path : CapturedBy(members, p) \subseteq members
    BY DEF CapturedBy
  <2> QED
    BY <1>1, <1>2, <1>3, <2>1 DEF Built, Applies
<1> QED
  BY <1>2, <1>4, <1>5 DEF Built
-----------------------------------------------------------------------------
(* Requests *)

\* A step that captures nothing and creates no leaf leaves the identities
\* spent, if every pending request was pending with the same changes.
LEMMA RequestsKept ==
    ASSUME Typed, RequestsOK, UNCHANGED <<nextLeaf, captured>>,
           \A l \in LeafId : leaves'[l] \in {leaves[l], None},
           \A r \in Request : Pending(r)' =>
               /\ Pending(r)
               /\ proposals'[r].body = proposals[r].body
               /\ AllCaptured(proposals'[r].batch)
    PROVE  RequestsOK'
<1>1. \A l \in LeafId : Active(l)' => Active(l) /\ leaves'[l] = leaves[l]
  BY DEF Active
<1>2. \A r \in Request : r[1] \in LeafId
  BY DEF Request
<1>3. \A members : AllCaptured(members)' <=> AllCaptured(members)
  BY DEF AllCaptured
<1> QED
  BY <1>1, <1>2, <1>3 DEF RequestsOK

\* The same, when the step rewrites one pending request.
LEMMA RequestKept ==
    ASSUME Typed, RequestsOK, NEW r \in Request, Pending(r), NEW row \in Proposal,
           row.state = "pending" => row.body = proposals[r].body /\ AllCaptured(row.batch),
           proposals' = [proposals EXCEPT ![r] = row],
           UNCHANGED <<leaves, nextLeaf, captured>>
    PROVE  RequestsOK'
<1>1. ASSUME NEW s \in Request, Pending(s)'
      PROVE  /\ Pending(s)
             /\ proposals'[s].body = proposals[s].body
             /\ AllCaptured(proposals'[s].batch)
  BY <1>1 DEF Pending, RequestsOK, Typed, TypeOK
<1> QED
  BY <1>1, RequestsKept

\* The same, when it rewrites several.
LEMMA SeveralRequestsKept ==
    ASSUME Typed, RequestsOK, NEW members \in SUBSET PendingRequests,
           \A s \in Request \ members : proposals'[s] = proposals[s],
           \A s \in members : /\ proposals'[s].body = proposals[s].body
                              /\ \/ proposals'[s].batch = proposals[s].batch
                                 \/ proposals'[s].batch \subseteq members,
           UNCHANGED <<leaves, nextLeaf, captured>>
    PROVE  RequestsOK'
<1>1. \A s \in members : Pending(s) /\ s \in Request
  BY DEF PendingRequests
<1>2. ASSUME NEW s \in Request, Pending(s)'
      PROVE  /\ Pending(s)
             /\ proposals'[s].body = proposals[s].body
             /\ AllCaptured(proposals'[s].batch)
  <2>1. CASE s \in members
    <3>1. AllCaptured(proposals[s].batch) /\ AllCaptured(members)
      BY <1>1, <2>1 DEF RequestsOK, AllCaptured
    <3> QED
      BY <1>1, <2>1, <3>1 DEF AllCaptured
  <2>2. CASE s \notin members
    BY <1>2, <2>2 DEF Pending, RequestsOK
  <2> QED
    BY <2>1, <2>2
<1> QED
  BY <1>2, RequestsKept

\* A capture spends its identity.
LEMMA CaptureSpends ==
    ASSUME Typed, RequestsOK, NEW l \in LeafId, Active(l), NEW changes \in Changes,
           leaves' = [leaves EXCEPT ![l] = leaves[l] + 1], UNCHANGED nextLeaf,
           captured' = [captured EXCEPT ![<<l, leaves[l]>>] = [at |-> tip, changes |-> changes]],
           proposals'[<<l, leaves[l]>>] = NewProposal(changes),
           \A s \in Request : s # <<l, leaves[l]>> =>
               \/ proposals'[s] = proposals[s]
               \/ Pending(s) /\ proposals'[s] = Retired(proposals[s])
    PROVE  RequestsOK'
<1> DEFINE r == <<l, leaves[l]>>
<1>1. leaves[l] \in Sequence /\ r \in Request
  BY DEF Typed, TypeOK, Active, Request
<1>2. captured'[r] = [at |-> tip, changes |-> changes]
  BY <1>1 DEF Typed, TypeOK
<1>3. captured'[r] # None
  BY <1>2, NoneAssumption DEF Typed, TypeOK
<1>4. \A s \in Request : s # r => captured'[s] = captured[s]
  BY DEF Typed, TypeOK
<1>5. \A m \in LeafId : Active(m)' <=> Active(m)
  <2>1. leaves[l] + 1 # None
    BY <1>1, NoneAssumption DEF Sequence
  <2> QED
    BY <2>1 DEF Typed, TypeOK, Active
<1>6. leaves'[l] = leaves[l] + 1 /\ \A m \in LeafId : m # l => leaves'[m] = leaves[m]
  BY DEF Typed, TypeOK
<1>7. \A m \in LeafId : Active(m)' => m < nextLeaf'
  BY <1>5 DEF RequestsOK
<1>8. \A s \in Request : captured'[s] # None =>
          s[1] < nextLeaf' /\ (Active(s[1])' => s[2] < leaves'[s[1]])
  <2> SUFFICES ASSUME NEW s \in Request, captured'[s] # None
               PROVE  s[1] < nextLeaf' /\ (Active(s[1])' => s[2] < leaves'[s[1]])
    OBVIOUS
  <2>1. s[1] \in LeafId /\ s[2] \in Sequence
    BY DEF Request
  <2>2. CASE s = r
    BY <1>1, <1>6, <2>2 DEF RequestsOK, Sequence
  <2>3. CASE s # r /\ s[1] = l
    BY <1>1, <1>4, <1>5, <1>6, <2>1, <2>3 DEF RequestsOK, Sequence
  <2>4. CASE s[1] # l
    BY <1>4, <1>5, <1>6, <2>1, <2>4 DEF RequestsOK
  <2> QED
    BY <2>2, <2>3, <2>4
<1>9. ASSUME NEW s \in Request, Pending(s)'
      PROVE  /\ captured'[s] # None
             /\ captured'[s].changes = proposals'[s].body
             /\ AllCaptured(proposals[s].batch)'
  <2>1. CASE s = r
    BY <1>2, <1>3, <2>1 DEF NewProposal, AllCaptured
  <2>2. CASE s # r
    <3>1. proposals'[s] = proposals[s]
      BY <1>9, <2>2, PendingType, RetiredType DEF Pending
    <3>2. Pending(s)
      BY <1>9, <3>1 DEF Pending
    <3> QED
      BY <1>3, <1>4, <2>2, <3>1, <3>2 DEF RequestsOK, AllCaptured
  <2> QED
    BY <2>1, <2>2
<1> QED
  BY <1>7, <1>8, <1>9 DEF RequestsOK

LEMMA RequestsStep ==
    ASSUME Typed, RequestsOK, [Next]_vars
    PROVE  RequestsOK'
<1> USE DEF Typed, TypeOK
<1>1. CASE UNCHANGED <<leaves, nextLeaf, proposals, captured>>
  BY <1>1 DEF RequestsOK, Active, Pending, AllCaptured
<1>2. CASE CreateLeaf
  <2>1. /\ leaves' = [leaves EXCEPT ![nextLeaf] = 1]
        /\ nextLeaf' = nextLeaf + 1
        /\ UNCHANGED <<proposals, captured>>
    BY <1>2 DEF CreateLeaf
  <2>2. \A l \in LeafId : l # nextLeaf => leaves'[l] = leaves[l]
    BY <2>1
  <2>3. \A r \in Request : Pending(r)' <=> Pending(r)
    BY <2>1 DEF Pending
  <2>4. \A members : AllCaptured(members)' <=> AllCaptured(members)
    BY <2>1 DEF AllCaptured
  <2>5. \A l \in LeafId : Active(l)' => l < nextLeaf'
    BY <2>1, <2>2 DEF RequestsOK, Active, LeafId
  <2>6. ASSUME NEW r \in Request, captured'[r] # None
        PROVE  r[1] < nextLeaf' /\ (Active(r[1])' => r[2] < leaves'[r[1]])
    <3>1. r[1] \in LeafId /\ r[1] < nextLeaf
      BY <2>1, <2>6 DEF RequestsOK, Request
    <3> QED
      BY <2>1, <2>2, <2>6, <3>1 DEF RequestsOK, Active, LeafId
  <2> QED
    BY <2>1, <2>3, <2>4, <2>5, <2>6 DEF RequestsOK
<1>3. ASSUME NEW l \in LeafId, DropLeaf(l)
      PROVE  RequestsOK'
  <2>1. /\ leaves' = [leaves EXCEPT ![l] = None]
        /\ proposals' = [r \in Request |->
             IF r[1] = l /\ Pending(r) THEN Retired(proposals[r]) ELSE proposals[r]]
        /\ UNCHANGED <<nextLeaf, captured>>
    BY <1>3 DEF DropLeaf
  <2>2. ASSUME NEW r \in Request, Pending(r)'
        PROVE  proposals'[r] = proposals[r] /\ Pending(r)
    BY <2>1, <2>2, PendingType, RetiredType DEF Pending
  <2> QED
    BY <2>1, <2>2, RequestsKept DEF RequestsOK
<1>4. ASSUME NEW l \in LeafId, AbortUnsubmitted(l)
      PROVE  RequestsOK'
  <2> DEFINE row == Retired(NewProposal(None))
  <2>1. /\ leaves' = [leaves EXCEPT ![l] = leaves[l] + 1]
        /\ proposals' = [proposals EXCEPT ![<<l, leaves[l]>>] = row]
        /\ UNCHANGED <<nextLeaf, captured>>
    BY <1>4 DEF AbortUnsubmitted
  <2>2. Active(l) /\ leaves[l] \in Sequence
    BY <1>4 DEF AbortUnsubmitted, Active
  <2>3. row.state = "aborted"
    BY NewProposalType, RetiredType
  <2>4. ASSUME NEW r \in Request, Pending(r)'
        PROVE  proposals'[r] = proposals[r] /\ Pending(r)
    <3> HIDE DEF row
    <3> QED
      BY <2>1, <2>3, <2>4 DEF Pending
  <2>5. \A m \in LeafId : Active(m)' => Active(m)
    BY <2>1, <2>2 DEF Active
  <2>6. leaves'[l] = leaves[l] + 1 /\ \A m \in LeafId : m # l => leaves'[m] = leaves[m]
    BY <2>1
  <2>7. \A members : AllCaptured(members)' <=> AllCaptured(members)
    BY <2>1 DEF AllCaptured
  <2>8. ASSUME NEW r \in Request, captured[r] # None
        PROVE  r[1] < nextLeaf /\ (Active(r[1])' => r[2] < leaves'[r[1]])
    <3>1. r[1] \in LeafId /\ r[2] \in Sequence
      BY DEF Request
    <3> QED
      BY <2>2, <2>5, <2>6, <2>8, <3>1 DEF RequestsOK, Sequence
  <2>9. \A m \in LeafId : Active(m)' => m < nextLeaf'
    BY <2>1, <2>5 DEF RequestsOK
  <2> QED
    BY <2>1, <2>4, <2>7, <2>8, <2>9 DEF RequestsOK
<1>5. ASSUME NEW l \in LeafId, NEW paths \in SUBSET Path, Propose(l, paths)
      PROVE  RequestsOK'
  <2> DEFINE r == <<l, leaves[l]>>
             changes == [p \in Path |->
                 IF p \in paths
                 THEN [token |-> leases[p].token, origin |-> views[<<l, p>>].origin,
                       value |-> views[<<l, p>>].value]
                 ELSE None]
  <2>1. /\ Active(l)
        /\ leaves' = [leaves EXCEPT ![l] = leaves[l] + 1]
        /\ proposals' = [proposals EXCEPT ![r] = NewProposal(changes)]
        /\ captured' = [captured EXCEPT ![r] = [at |-> tip, changes |-> changes]]
        /\ UNCHANGED nextLeaf
    BY <1>5 DEF Propose
  <2>2. r \in Request
    BY <2>1 DEF Active, Request
  <2>3. changes \in Changes
    BY <1>5, ProposedType DEF Propose
  <2> HIDE DEF changes
  <2> QED
    BY <2>1, <2>2, <2>3, CaptureSpends
<1>6. CASE ResolutionNext
  <2>1. PICK l \in LeafId : \E sources \in SUBSET {r \in PendingRequests : r[1] = l} :
           \E choices \in [SourcePaths(sources) -> sources] : Resolve(l, sources, choices)
    BY <1>6 DEF ResolutionNext
  <2>2. PICK sources \in SUBSET {r \in PendingRequests : r[1] = l} :
           \E choices \in [SourcePaths(sources) -> sources] : Resolve(l, sources, choices)
    BY <2>1
  <2>3. PICK choices \in [SourcePaths(sources) -> sources] : Resolve(l, sources, choices)
    BY <2>2
  <2> DEFINE r == <<l, leaves[l]>>
             changes == SelectedChanges(l, choices)
  <2>4. /\ Active(l)
        /\ leaves' = [leaves EXCEPT ![l] = leaves[l] + 1]
        /\ proposals' = [s \in Request |-> IF s = r THEN NewProposal(changes)
                                           ELSE IF s \in sources THEN Retired(proposals[s])
                                           ELSE proposals[s]]
        /\ captured' = [captured EXCEPT ![r] = [at |-> tip, changes |-> changes]]
        /\ UNCHANGED nextLeaf
    BY <2>3 DEF Resolve
  <2>5. r \in Request /\ changes \in Changes
    BY <2>3, <2>4, ResolvedType DEF Active, Request
  <2>6. \A s \in sources : Pending(s)
    BY DEF PendingRequests
  <2> HIDE DEF changes
  <2> QED
    BY <2>4, <2>5, <2>6, CaptureSpends
<1>7. CASE PruneHistory
  <2>1. PICK kept \in SUBSET CommittedRequests :
           proposals' = [r \in Request |->
               IF r \in kept \cup PendingRequests THEN proposals[r] ELSE None]
    BY <1>7 DEF PruneHistory
  <2>2. UNCHANGED <<leaves, nextLeaf, captured>>
    BY <1>7 DEF PruneHistory
  <2>3. ASSUME NEW r \in Request, Pending(r)'
        PROVE  proposals'[r] = proposals[r] /\ Pending(r)
    BY <2>1, <2>3 DEF Pending
  <2> QED
    BY <2>2, <2>3, RequestsKept DEF RequestsOK
<1>8. ASSUME NEW r \in Request, BeginPrepare(r)
      PROVE  RequestsOK'
  <2> DEFINE row == [proposals[r] EXCEPT !.attempt = proposals[r].attempt + 1, !.parent = tip,
                                         !.root = None, !.ready = FALSE, !.batch = {}]
  <2>1. Pending(r) /\ UNCHANGED <<leaves, nextLeaf, captured>>
    BY <1>8 DEF BeginPrepare
  <2>2. proposals' = [proposals EXCEPT ![r] = row]
    BY <1>8 DEF BeginPrepare
  <2>3. \A s \in Request \ {r} : proposals'[s] = proposals[s]
    BY <2>2
  <2>4. proposals'[r].body = proposals[r].body /\ proposals'[r].batch = {}
    BY <2>1, <2>2, PendingType DEF Proposal
  <2> QED
    <3> DEFINE members == {r}
    <3>1. members \in SUBSET PendingRequests
      BY <2>1 DEF PendingRequests
    <3>2. \A s \in members : /\ proposals'[s].body = proposals[s].body
                            /\ proposals'[s].batch \subseteq members
      BY <2>4
    <3>3. \A s \in Request \ members : proposals'[s] = proposals[s]
      BY <2>3
    <3> HIDE DEF members
    <3> QED
      BY <2>1, <3>1, <3>2, <3>3, SeveralRequestsKept
<1>9. ASSUME NEW r \in Request, Abort(r)
      PROVE  RequestsOK'
  <2>1. /\ Pending(r)
        /\ UNCHANGED <<leaves, nextLeaf, captured>>
        /\ proposals' = [proposals EXCEPT ![r] = Retired(proposals[r])]
    BY <1>9 DEF Abort
  <2>2. ASSUME NEW s \in Request, Pending(s)'
        PROVE  proposals'[s] = proposals[s] /\ Pending(s)
    BY <2>1, <2>2, PendingType, RetiredType DEF Pending
  <2> QED
    BY <2>1, <2>2, RequestsKept DEF RequestsOK
<1>10. ASSUME NEW c \in prepares, PinCandidate(c) \/ ReadyCandidate(c)
       PROVE  RequestsOK'
  <2>1. /\ c.request \in Request
        /\ Pending(c.request)
        /\ UNCHANGED <<leaves, nextLeaf, captured>>
        /\ \/ proposals' = [proposals EXCEPT ![c.request].root = c.root]
           \/ proposals' = [proposals EXCEPT ![c.request].ready = TRUE]
    BY <1>10 DEF PinCandidate, ReadyCandidate, PrepareCall
  <2>2. \A s \in Request \ {c.request} : proposals'[s] = proposals[s]
    BY <2>1
  <2>3. /\ proposals'[c.request].body = proposals[c.request].body
        /\ proposals'[c.request].batch = proposals[c.request].batch
    BY <2>1, PendingType DEF Proposal
  <2> QED
    <3> DEFINE members == {c.request}
    <3>1. members \in SUBSET PendingRequests
      BY <2>1 DEF PendingRequests
    <3>2. \A s \in Request \ members : proposals'[s] = proposals[s]
      BY <2>2
    <3>3. \A s \in members : /\ proposals'[s].body = proposals[s].body
                            /\ \/ proposals'[s].batch = proposals[s].batch
                               \/ proposals'[s].batch \subseteq members
      BY <2>3
    <3> HIDE DEF members
    <3> QED
      BY <2>1, <3>1, <3>2, <3>3, SeveralRequestsKept
<1>11. ASSUME NEW members \in SUBSET PendingRequests, NEW root, Publish(members, root),
              UNCHANGED <<leaves, nextLeaf, captured>>
       PROVE  RequestsOK'
  <2>1. proposals' = [r \in Request |->
             IF r \in members
             THEN [proposals[r] EXCEPT !.state = "committed", !.committed = tip + 1]
             ELSE proposals[r]]
    BY <1>11 DEF Publish
  <2>2. ASSUME NEW r \in members
        PROVE  /\ proposals'[r].body = proposals[r].body
               /\ \/ proposals'[r].batch = proposals[r].batch
                  \/ proposals'[r].batch \subseteq members
    BY <2>1, PendingType DEF Proposal, PendingRequests
  <2>3. \A r \in Request \ members : proposals'[r] = proposals[r]
    BY <2>1
  <2>4. UNCHANGED <<leaves, nextLeaf, captured>>
    BY <1>11
  <2> QED
    BY ONLY Typed, RequestsOK, members \in SUBSET PendingRequests, <2>2, <2>3, <2>4,
       SeveralRequestsKept
<1>12. ASSUME NEW c \in commits, Commit(c)
       PROVE  RequestsOK'
  BY <1>11, <1>12, PublishSteps DEF Commit, Publish
<1>13. ASSUME NEW members \in SUBSET PendingRequests, BeginPrepareBatch(members)
       PROVE  RequestsOK'
  <2>1. proposals' = [r \in Request |->
         IF r \in members
         THEN [proposals[r] EXCEPT !.attempt = proposals[r].attempt + 1, !.parent = tip,
                                   !.root = None, !.ready = FALSE, !.batch = members]
         ELSE proposals[r]]
    BY <1>13 DEF BeginPrepareBatch
  <2>2. ASSUME NEW r \in members
        PROVE  /\ proposals'[r].body = proposals[r].body
               /\ \/ proposals'[r].batch = proposals[r].batch
                  \/ proposals'[r].batch \subseteq members
    <3>1. proposals'[r].body = proposals[r].body /\ proposals'[r].batch = members
      BY <2>1, PendingType DEF Proposal, PendingRequests
    <3> QED
      BY <3>1
  <2>3. UNCHANGED <<leaves, nextLeaf, captured>>
    BY <1>13 DEF BeginPrepareBatch
  <2>4. \A r \in Request \ members : proposals'[r] = proposals[r]
    BY <2>1
  <2> QED
    BY ONLY Typed, RequestsOK, members \in SUBSET PendingRequests, <2>2, <2>3, <2>4,
       SeveralRequestsKept
<1>14. ASSUME NEW b \in batchPrepares, PinBatch(b) \/ ReadyBatch(b)
       PROVE  RequestsOK'
  <2>1. /\ UNCHANGED <<leaves, nextLeaf, captured>>
        /\ SetCandidate(b, TRUE) \/ SetCandidate(b, FALSE)
        /\ b.members \in SUBSET PendingRequests
    BY <1>14 DEF PinBatch, ReadyBatch, InBatch, BatchPrepareCall, PendingRequests
  <2>2. \A r \in Request \ b.members : proposals'[r] = proposals[r]
    BY <2>1 DEF SetCandidate
  <2>3. ASSUME NEW r \in b.members
        PROVE  /\ proposals'[r].body = proposals[r].body
               /\ \/ proposals'[r].batch = proposals[r].batch
                  \/ proposals'[r].batch \subseteq b.members
    <3>1. r \in Request /\ proposals[r] \in Proposal
      BY <2>1, PendingType DEF PendingRequests
    <3>2. PICK ready \in BOOLEAN :
             proposals'[r] = [proposals[r] EXCEPT !.root = b.root, !.ready = ready]
      BY <2>1, <3>1 DEF SetCandidate
    <3>3. proposals'[r].body = proposals[r].body /\ proposals'[r].batch = proposals[r].batch
      BY ONLY <3>1, <3>2 DEF Proposal
    <3> QED
      BY <3>3
  <2> QED
    BY ONLY Typed, RequestsOK, <2>1, <2>2, <2>3, SeveralRequestsKept
<1>15. ASSUME NEW b \in batchCommits, CommitBatch(b)
       PROVE  RequestsOK'
  BY <1>11, <1>15, PublishSteps DEF CommitBatch, Publish
<1> QED
  BY <1>1, <1>2, <1>3, <1>4, <1>5, <1>6, <1>7, <1>8, <1>9, <1>10, <1>12, <1>13, <1>14, <1>15,
     RequestSteps DEF vars
-----------------------------------------------------------------------------
(* Versions *)

LEMMA AllCapturedIsStable ==
    ASSUME Typed, RequestsOK, [Next]_vars, NEW members, AllCaptured(members)
    PROVE  AllCaptured(members)'
BY CapturedIsStable DEF AllCaptured

LEMMA PublishVersions ==
    ASSUME Typed, RequestsOK, VersionsOK, [Next]_vars,
           NEW members \in SUBSET PendingRequests, NEW root \in Snapshot, Publish(members, root)
    PROVE  VersionsOK'
<1> DEFINE version == tip + 1
           published == [root |-> root, members |-> members]
<1>1. /\ tip' = version
      /\ epochs' = [epochs EXCEPT ![version] = root]
      /\ history' = [history EXCEPT ![version] = published]
  BY DEF Publish
<1>2. published # None /\ published.root = root /\ published.members = members
  <2>1. members \in SUBSET Request
    BY DEF PendingRequests
  <2> QED
    BY <2>1, NoneAssumption
<1>3. version \in Version /\ tip \in Version
  BY PublishTypes, <1>1 DEF Typed, TypeOK
<1>4. AllCaptured(members)'
  <2>1. AllCaptured(members)
    BY DEF AllCaptured, PendingRequests, RequestsOK
  <2> QED
    BY <2>1, AllCapturedIsStable
<1>5. \A v \in Version : v # version => history'[v] = history[v] /\ epochs'[v] = epochs[v]
  BY <1>1 DEF Typed, TypeOK
<1>6. history'[version] = published /\ epochs'[version] = root
  BY <1>1, <1>3 DEF Typed, TypeOK
<1> HIDE DEF published
<1>7. \A v \in Version : history'[v] # None <=> v <= tip'
  <2> SUFFICES ASSUME NEW v \in Version
               PROVE  history'[v] # None <=> v <= tip'
    OBVIOUS
  <2>1. CASE v = version
    BY <1>1, <1>2, <1>6, <2>1, <1>3 DEF Version
  <2>2. CASE v # version
    <3>1. history[v] # None <=> v <= tip
      BY DEF VersionsOK
    <3> QED
      BY <1>1, <1>3, <1>5, <2>2, <3>1 DEF Version
  <2> QED
    BY <2>1, <2>2
<1>8. \A v \in Version : epochs'[v] # None => epochs'[v] = history'[v].root
  BY <1>2, <1>5, <1>6 DEF VersionsOK
<1>9. ASSUME NEW v \in Version, history'[v] # None
      PROVE  AllCaptured(history[v].members)'
  <2>1. CASE v = version
    BY <1>2, <1>4, <1>6, <2>1 DEF AllCaptured
  <2>2. CASE v # version
    <3>1. AllCaptured(history[v].members) /\ history'[v] = history[v]
      BY <1>5, <1>9, <2>2 DEF VersionsOK
    <3>2. \A r \in history[v].members : r \in Request /\ captured'[r] # None
      BY <3>1, CapturedIsStable DEF AllCaptured
    <3> QED
      BY <3>1, <3>2 DEF AllCaptured
  <2> QED
    BY <2>1, <2>2
<1> QED
  BY <1>7, <1>8, <1>9 DEF VersionsOK

LEMMA VersionsStep ==
    ASSUME Typed, RequestsOK, VersionsOK, [Next]_vars
    PROVE  VersionsOK'
<1>1. ASSUME UNCHANGED <<tip, history>>,
             \A v \in Version : epochs'[v] # None => epochs'[v] = epochs[v]
      PROVE  VersionsOK'
  <2>1. ASSUME NEW v \in Version, history'[v] # None
        PROVE  AllCaptured(history[v].members)'
    <3>1. AllCaptured(history[v].members) /\ history'[v] = history[v]
      BY <1>1, <2>1 DEF VersionsOK
    <3>2. \A r \in history[v].members : r \in Request /\ captured'[r] # None
      BY <3>1, CapturedIsStable DEF AllCaptured
    <3> QED
      BY <3>1, <3>2 DEF AllCaptured
  <2> QED
    BY <1>1, <2>1 DEF VersionsOK
<1>2. CASE PruneHistory
  <2>1. /\ UNCHANGED <<tip, history>>
        /\ epochs' = [v \in Version |-> IF v \in KeptEpochs THEN epochs[v] ELSE None]
    BY <1>2 DEF PruneHistory
  <2> QED
    BY <1>1, <2>1
<1>3. ASSUME NEW c \in commits, Commit(c)
      PROVE  VersionsOK'
  <2> DEFINE members == {c.request}
  <2>1. members \in SUBSET PendingRequests /\ c.root \in Snapshot /\ Publish(members, c.root)
    BY <1>3, PublishSteps DEF Commit
  <2> HIDE DEF members
  <2> QED
    BY <2>1, PublishVersions
<1>4. ASSUME NEW b \in batchCommits, CommitBatch(b)
      PROVE  VersionsOK'
  BY <1>4, PublishSteps, PublishVersions DEF CommitBatch
<1>5. CASE UNCHANGED <<tip, epochs, history>>
  BY <1>1, <1>5
<1> QED
  BY <1>2, <1>3, <1>4, <1>5, VersionSteps DEF vars
-----------------------------------------------------------------------------
(* Candidates in flight *)

\* The tip's tree is the one published under its number.
LEMMA TipTree ==
    ASSUME Typed, VersionsOK
    PROVE  /\ Tip = history[tip].root
           /\ Tip \in Snapshot
           /\ tip \in Version
           /\ tip <= tip
BY NoneAssumption DEF Typed, TypeOK, TipStored, VersionsOK, Tip, Version

\* What one pending request captured, overlaid on the tip.
LEMMA OverlayIsBuilt ==
    ASSUME Typed, RequestsOK, VersionsOK, NEW r \in Request, Pending(r)
    PROVE  Built({r}, tip, Overlay(Tip, proposals[r].body))
<1>1. captured[r] # None /\ captured[r].changes = proposals[r].body
  BY DEF RequestsOK
<1>2. \A p \in Path : CapturedBy({r}, p) = IF proposals[r].body[p] = None THEN {} ELSE {r}
  BY <1>1 DEF CapturedBy
<1>3. Applies({r}, history[tip].root, Overlay(Tip, proposals[r].body))
  BY <1>1, <1>2, TipTree DEF Applies, Overlay
<1> QED
  BY <1>1, <1>3, TipTree DEF Built, AllCaptured

\* Every path overlaps itself.
LEMMA OverlapsItself ==
    ASSUME NEW p \in Path
    PROVE  Overlaps(p, p)
<1>1. p \in Seq(STRING)
  BY PathAssumption
<1>2. Len(p) \in Nat /\ SubSeq(p, 1, Len(p)) = p
  BY <1>1
<1> QED
  BY <1>2 DEF Overlaps, Contains

\* Pending requests hold what they captured, so writers are capturers.
LEMMA WritersCaptured ==
    ASSUME RequestsOK, NEW members \in SUBSET PendingRequests, NEW p \in Path
    PROVE  Writers(members, p) = CapturedBy(members, p)
BY DEF RequestsOK, PendingRequests, Writers, CapturedBy

\* Members of a publication that do not overlap write each path at most once.
LEMMA OneWriter ==
    ASSUME RequestsOK, NEW members \in SUBSET PendingRequests, NEW tree,
           BatchProposals(members, tree), NEW p \in Path, NEW r \in Writers(members, p)
    PROVE  /\ Writers(members, p) = {r}
           /\ Published(members, p) = captured[r].changes[p].value
<1>1. r \in Request /\ captured[r].changes = proposals[r].body
  BY DEF RequestsOK, PendingRequests, Writers
<1>2. ASSUME NEW s \in Writers(members, p)
      PROVE  s = r
  BY <1>2, OverlapsItself DEF BatchProposals, Writers, Touched
<1>3. Writers(members, p) = {r}
  BY <1>2
<1>4. (CHOOSE s \in Writers(members, p) : TRUE) = r
  BY <1>3
<1> QED
  BY <1>1, <1>3, <1>4 DEF Published

LEMMA ComposeIsBuilt ==
    ASSUME Typed, RequestsOK, VersionsOK, NEW members \in SUBSET PendingRequests, NEW tree,
           BatchProposals(members, tree)
    PROVE  Built(members, tip, Compose(Tip, members))
<1>1. AllCaptured(members)
  BY DEF AllCaptured, PendingRequests, RequestsOK
<1>2. ASSUME NEW p \in Path
      PROVE  \/ CapturedBy(members, p) = {} /\ Compose(Tip, members)[p] = Tip[p]
             \/ \E r \in CapturedBy(members, p) :
                 /\ CapturedBy(members, p) = {r}
                 /\ Compose(Tip, members)[p] = captured[r].changes[p].value
  <2>1. Writers(members, p) = CapturedBy(members, p)
    BY WritersCaptured
  <2>2. CASE Writers(members, p) = {}
    BY <2>1, <2>2 DEF Compose
  <2>3. CASE Writers(members, p) # {}
    <3>1. PICK r \in Writers(members, p) : TRUE
      BY <2>3
    <3> QED
      BY <2>1, <2>3, <3>1, OneWriter DEF Compose
  <2> QED
    BY <2>2, <2>3
<1>3. Applies(members, history[tip].root, Compose(Tip, members))
  BY <1>2, TipTree DEF Applies
<1> QED
  BY <1>1, <1>3, TipTree DEF Built

\* A prepare call in flight is an earlier one further on, or a new one.
LEMMA PrepareSteps ==
    ASSUME Typed, [Next]_vars, NEW c \in prepares'
    PROVE  \/ \E d \in prepares : /\ c.request = d.request /\ c.attempt = d.attempt
                                  /\ c.parent = d.parent /\ c.root = d.root
           \/ \E r \in Request :
                /\ BeginPrepare(r)
                /\ c = [request |-> r, attempt |-> proposals[r].attempt + 1, parent |-> tip,
                        root |-> Overlay(Tip, proposals[r].body), step |-> "pin"]
                /\ ValidNamespace(c.root)
<1>1. CASE c \in prepares
  BY <1>1
<1>2. ASSUME NEW r \in Request, BeginPrepare(r), c \notin prepares
      PROVE  /\ c = [request |-> r, attempt |-> proposals[r].attempt + 1, parent |-> tip,
                     root |-> Overlay(Tip, proposals[r].body), step |-> "pin"]
             /\ ValidNamespace(c.root)
  BY <1>2 DEF BeginPrepare
<1>3. ASSUME NEW d \in prepares, PinCandidate(d) \/ StoreCandidate(d), c \notin prepares
      PROVE  /\ c.request = d.request /\ c.attempt = d.attempt
             /\ c.parent = d.parent /\ c.root = d.root
  <2>1. d \in PrepareCall
    BY DEF Typed, TypeOK
  <2>2. c = [d EXCEPT !.step = "put"] \/ c = [d EXCEPT !.step = "ready"]
    BY <1>3 DEF PinCandidate, StoreCandidate
  <2> QED
    BY <2>1, <2>2 DEF PrepareCall
<1>4. ASSUME PublicationNext, c \notin prepares
      PROVE  \/ \E r \in Request : BeginPrepare(r)
             \/ \E d \in prepares : PinCandidate(d) \/ StoreCandidate(d)
  BY <1>4 DEF PublicationNext, AbortUnsubmitted, Propose, CheckCommit, Abort, ReadyCandidate,
     FailPrepare, VerifyCommit, Commit, FailCommit
<1>5. CASE UNCHANGED prepares
  BY <1>1, <1>5
<1>6. ASSUME Next
      PROVE  PublicationNext \/ UNCHANGED prepares
  <2>1. UploadNext => UNCHANGED prepares
    BY DEF UploadNext, CreateLeaf, BeginStage, DiscardUpload, StorePayload, FinishStage, FailStage
  <2>2. LeaseNext => UNCHANGED prepares
    BY DEF LeaseNext, Acquire, Activate, Release, Revoke, Withdraw, Edit, Discard, DropLeaf
  <2>3. BatchNext => UNCHANGED prepares
    BY DEF BatchNext, BeginPrepareBatch, CheckCommitBatch, PinBatch, StoreBatch, ReadyBatch,
       FailPrepareBatch, VerifyCommitBatch, CommitBatch, FailCommitBatch
  <2>4. ResolutionNext => UNCHANGED prepares
    BY DEF ResolutionNext, Resolve
  <2>5. MaintenanceNext => UNCHANGED prepares
    BY DEF MaintenanceNext, Retain, ReleaseRetention, ReplaceClientPins, PruneHistory, Collect,
       InterruptedCollect
  <2> QED
    BY <1>6, <2>1, <2>2, <2>3, <2>4, <2>5 DEF Next
<1> QED
  BY <1>1, <1>2, <1>3, <1>4, <1>5, <1>6 DEF vars

\* The same of a commit call.
LEMMA CommitSteps ==
    ASSUME Typed, [Next]_vars, NEW c \in commits'
    PROVE  \/ \E d \in commits : c.parent = d.parent /\ c.base = d.base
           \/ c.parent = tip /\ c.base = Tip
<1>1. CASE c \in commits
  BY <1>1
<1>2. ASSUME NEW r \in Request, CheckCommit(r), c \notin commits
      PROVE  c.parent = tip /\ c.base = Tip
  BY <1>2 DEF CheckCommit
<1>3. ASSUME NEW d \in commits, VerifyCommit(d), c \notin commits
      PROVE  c.parent = d.parent /\ c.base = d.base
  <2>1. d \in CommitCall
    BY DEF Typed, TypeOK
  <2>2. c = [d EXCEPT !.verified = TRUE]
    BY <1>3 DEF VerifyCommit
  <2> QED
    BY <2>1, <2>2 DEF CommitCall
<1>4. ASSUME PublicationNext, c \notin commits
      PROVE  \/ \E r \in Request : CheckCommit(r)
             \/ \E d \in commits : VerifyCommit(d)
  BY <1>4 DEF PublicationNext, AbortUnsubmitted, Propose, BeginPrepare, Abort, PinCandidate,
     StoreCandidate, ReadyCandidate, FailPrepare, Commit, FailCommit
<1>5. CASE UNCHANGED commits
  BY <1>1, <1>5
<1>6. ASSUME Next
      PROVE  PublicationNext \/ UNCHANGED commits
  <2>1. UploadNext => UNCHANGED commits
    BY DEF UploadNext, CreateLeaf, BeginStage, DiscardUpload, StorePayload, FinishStage, FailStage
  <2>2. LeaseNext => UNCHANGED commits
    BY LeaseFrame
  <2>3. BatchNext => UNCHANGED commits
    BY DEF BatchNext, BeginPrepareBatch, CheckCommitBatch, PinBatch, StoreBatch, ReadyBatch,
       FailPrepareBatch, VerifyCommitBatch, CommitBatch, FailCommitBatch
  <2>4. ResolutionNext => UNCHANGED commits
    BY DEF ResolutionNext, Resolve
  <2>5. MaintenanceNext => UNCHANGED commits
    BY DEF MaintenanceNext, Retain, ReleaseRetention, ReplaceClientPins, PruneHistory, Collect,
       InterruptedCollect
  <2> QED
    BY <1>6, <2>1, <2>2, <2>3, <2>4, <2>5 DEF Next
<1> QED
  BY <1>1, <1>2, <1>3, <1>4, <1>5, <1>6 DEF vars

\* Only batch steps touch the batch calls.
LEMMA BatchSteps ==
    ASSUME [Next]_vars
    PROVE  BatchNext \/ UNCHANGED <<batchPrepares, batchCommits>>
<1>1. UploadNext => UNCHANGED <<batchPrepares, batchCommits>>
  BY DEF UploadNext, CreateLeaf, BeginStage, DiscardUpload, StorePayload, FinishStage, FailStage
<1>2. LeaseNext => UNCHANGED <<batchPrepares, batchCommits>>
  BY LeaseFrame
<1>3. PublicationNext => UNCHANGED <<batchPrepares, batchCommits>>
  BY DEF PublicationNext, AbortUnsubmitted, Propose, BeginPrepare, CheckCommit, Abort,
     PinCandidate, StoreCandidate, ReadyCandidate, FailPrepare, VerifyCommit, Commit, FailCommit
<1>4. ResolutionNext => UNCHANGED <<batchPrepares, batchCommits>>
  BY DEF ResolutionNext, Resolve
<1>5. MaintenanceNext => UNCHANGED <<batchPrepares, batchCommits>>
  BY DEF MaintenanceNext, Retain, ReleaseRetention, ReplaceClientPins, PruneHistory, Collect,
     InterruptedCollect
<1> QED
  BY <1>1, <1>2, <1>3, <1>4, <1>5 DEF Next, vars

\* A batch preparation in flight is an earlier one further on, or a new one.
LEMMA BatchPrepareSteps ==
    ASSUME Typed, [Next]_vars, NEW b \in batchPrepares'
    PROVE  \/ \E d \in batchPrepares : b.members = d.members /\ b.parent = d.parent /\ b.root = d.root
           \/ /\ b.members \in SUBSET PendingRequests
              /\ BatchProposals(b.members, Tip)
              /\ b.parent = tip
              /\ b.root = Compose(Tip, b.members)
              /\ ValidNamespace(b.root)
<1>1. CASE b \in batchPrepares
  BY <1>1
<1>2. ASSUME NEW members \in SUBSET PendingRequests, BeginPrepareBatch(members), b \notin batchPrepares
      PROVE  /\ b.members = members
             /\ BatchProposals(members, Tip)
             /\ b.parent = tip
             /\ b.root = Compose(Tip, members)
             /\ ValidNamespace(Compose(Tip, members))
  <2> DEFINE call == [members |-> members, parent |-> tip, root |-> Compose(Tip, members),
                      attempts |-> [r \in Request |->
                                       IF r \in members THEN proposals[r].attempt + 1 ELSE 0],
                      step |-> "pin"]
  <2>1. b = call /\ BatchProposals(members, Tip) /\ ValidNamespace(Compose(Tip, members))
    BY <1>2 DEF BeginPrepareBatch
  <2> QED
    BY <2>1
<1>3. ASSUME NEW d \in batchPrepares, PinBatch(d) \/ StoreBatch(d), b \notin batchPrepares
      PROVE  b.members = d.members /\ b.parent = d.parent /\ b.root = d.root
  <2>1. d \in BatchPrepareCall
    BY DEF Typed, TypeOK
  <2>2. b = [d EXCEPT !.step = "put"] \/ b = [d EXCEPT !.step = "ready"]
    BY <1>3 DEF PinBatch, StoreBatch
  <2> QED
    BY <2>1, <2>2 DEF BatchPrepareCall
<1>4. ASSUME BatchNext, b \notin batchPrepares
      PROVE  \/ \E members \in SUBSET PendingRequests : BeginPrepareBatch(members)
             \/ \E d \in batchPrepares : PinBatch(d) \/ StoreBatch(d)
  BY <1>4 DEF BatchNext, CheckCommitBatch, ReadyBatch, FailPrepareBatch, VerifyCommitBatch,
     CommitBatch, FailCommitBatch
<1> QED
  BY <1>1, <1>2, <1>3, <1>4, BatchSteps

\* The same of a batch commit.
LEMMA BatchCommitSteps ==
    ASSUME Typed, [Next]_vars, NEW b \in batchCommits'
    PROVE  \/ \E d \in batchCommits : b.members = d.members /\ b.parent = d.parent /\ b.base = d.base
           \/ b.members # {} /\ b.parent = tip /\ b.base = Tip
<1>1. CASE b \in batchCommits
  BY <1>1
<1>2. ASSUME NEW members \in SUBSET PendingRequests, CheckCommitBatch(members), b \notin batchCommits
      PROVE  b.members # {} /\ b.parent = tip /\ b.base = Tip
  BY <1>2 DEF CheckCommitBatch
<1>3. ASSUME NEW d \in batchCommits, VerifyCommitBatch(d), b \notin batchCommits
      PROVE  b.members = d.members /\ b.parent = d.parent /\ b.base = d.base
  <2>1. d \in BatchCommitCall
    BY DEF Typed, TypeOK
  <2>2. b = [d EXCEPT !.verified = TRUE]
    BY <1>3 DEF VerifyCommitBatch
  <2> QED
    BY <2>1, <2>2 DEF BatchCommitCall
<1>4. ASSUME BatchNext, b \notin batchCommits
      PROVE  \/ \E members \in SUBSET PendingRequests : CheckCommitBatch(members)
             \/ \E d \in batchCommits : VerifyCommitBatch(d)
  BY <1>4 DEF BatchNext, BeginPrepareBatch, PinBatch, StoreBatch, ReadyBatch, FailPrepareBatch,
     CommitBatch, FailCommitBatch
<1> QED
  BY <1>1, <1>2, <1>3, <1>4, BatchSteps

\* A remembered parent tree stays the parent's tree.
LEMMA BaseIsStable ==
    ASSUME Typed, RequestsOK, VersionsOK, [Next]_vars, NEW parent \in Version, NEW base,
           parent <= tip, base = history[parent].root
    PROVE  parent <= tip' /\ base = history'[parent].root
<1>1. tip \in Version /\ tip' \in Version /\ tip <= tip' /\ history'[parent] = history[parent]
  BY TypedStep, VersionsAreStable DEF Typed, TypeOK
<1> QED
  BY <1>1 DEF Version

LEMMA CallsStep ==
    ASSUME Typed, RequestsOK, VersionsOK, CallsOK, [Next]_vars
    PROVE  CallsOK'
<1>1. ASSUME NEW c \in prepares'
      PROVE  Built({c.request}, c.parent, c.root)'
  <2>1. CASE \E d \in prepares : c.request = d.request /\ c.parent = d.parent /\ c.root = d.root
    <3>1. Built({c.request}, c.parent, c.root)
      BY <2>1 DEF CallsOK
    <3> QED
      BY <3>1, BuiltIsStable
  <2>2. ASSUME NEW r \in Request, BeginPrepare(r),
               c = [request |-> r, attempt |-> proposals[r].attempt + 1, parent |-> tip,
                    root |-> Overlay(Tip, proposals[r].body), step |-> "pin"]
        PROVE  Built({c.request}, c.parent, c.root)'
    <3>1. Built({r}, tip, Overlay(Tip, proposals[r].body))
      BY <2>2, OverlayIsBuilt DEF BeginPrepare
    <3>2. Built({c.request}, c.parent, c.root)
      BY <2>2, <3>1
    <3> QED
      BY <3>2, BuiltIsStable
  <2> QED
    BY <2>1, <2>2, PrepareSteps
<1>2. ASSUME NEW b \in batchPrepares'
      PROVE  Built(b.members, b.parent, b.root)'
  <2>1. Built(b.members, b.parent, b.root)
    BY BatchPrepareSteps, ComposeIsBuilt DEF CallsOK
  <2> QED
    BY <2>1, BuiltIsStable
<1>3. ASSUME NEW c \in (commits \cup batchCommits)'
      PROVE  c.parent <= tip' /\ c.base = history'[c.parent].root
  <2>1. c.parent <= tip /\ c.base = history[c.parent].root
    BY CommitSteps, BatchCommitSteps, TipTree DEF CallsOK
  <2>2. c.parent \in Version
    BY TypedStep DEF Typed, TypeOK, CommitCall, BatchCommitCall
  <2> QED
    BY <2>1, <2>2, BaseIsStable
<1>4. \A b \in batchCommits' : b.members # {}
  BY BatchCommitSteps DEF CallsOK
<1> QED
  BY <1>1, <1>2, <1>3, <1>4 DEF CallsOK
-----------------------------------------------------------------------------
(* Stored candidates *)

SameCapture(r) ==
    /\ proposals'[r].body = proposals[r].body
    /\ proposals'[r].capturedAt = proposals[r].capturedAt

SameAttempt(r) ==
    /\ SameCapture(r)
    /\ proposals'[r].attempt = proposals[r].attempt
    /\ proposals'[r].parent = proposals[r].parent
    /\ proposals'[r].batch = proposals[r].batch

\* What a step can do to a request that is pending after it: capture it, keep
\* its attempt, give its attempt a manifest, or start its next attempt.
RowStep(r) ==
    \/ /\ captured[r] = None
       /\ proposals'[r].capturedAt = tip
       /\ proposals'[r].parent = None
       /\ proposals'[r].root = None
       /\ ~proposals'[r].ready
    \/ /\ Pending(r) /\ SameAttempt(r)
       /\ proposals'[r].root = proposals[r].root
       /\ proposals'[r].ready = proposals[r].ready
    \/ /\ Pending(r) /\ SameAttempt(r)
       /\ \E c \in prepares : /\ c.request = r /\ c.attempt = proposals[r].attempt
                              /\ proposals'[r].root = c.root
                              /\ \/ PinCandidate(c) /\ proposals'[r].ready = proposals[r].ready
                                 \/ ReadyCandidate(c)
    \/ /\ Pending(r) /\ SameAttempt(r)
       /\ \E b \in batchPrepares : /\ InBatch(b) /\ r \in b.members /\ proposals'[r].root = b.root
                                   /\ proposals'[r].ready => ReadyBatch(b)
    \/ /\ Pending(r) /\ SameCapture(r)
       /\ proposals'[r].attempt = proposals[r].attempt + 1
       /\ proposals'[r].parent = tip
       /\ proposals'[r].root = None
       /\ ~proposals'[r].ready

LEMMA RowSteps ==
    ASSUME Typed, RequestsOK, [Next]_vars, NEW r \in Request, Pending(r)'
    PROVE  RowStep(r)
<1> USE DEF Typed, TypeOK
<1>1. ASSUME proposals'[r] = proposals[r]
      PROVE  RowStep(r)
  BY <1>1 DEF RowStep, SameAttempt, SameCapture, Pending
<1>2. CASE UNCHANGED proposals
  BY <1>1, <1>2
<1>3. ASSUME NEW l \in LeafId, DropLeaf(l)
      PROVE  RowStep(r)
  <2>1. proposals' = [s \in Request |->
             IF s[1] = l /\ Pending(s) THEN Retired(proposals[s]) ELSE proposals[s]]
    BY <1>3 DEF DropLeaf
  <2> QED
    BY <1>1, <2>1, PendingType, RetiredType DEF Pending
<1>4. ASSUME NEW l \in LeafId, Active(l)
      PROVE  captured[<<l, leaves[l]>>] = None
  <2>1. <<l, leaves[l]>> \in Request /\ leaves[l] \in Sequence
    BY <1>4 DEF Request, Active
  <2> QED
    BY <1>4, <2>1 DEF RequestsOK, Sequence
<1>5. ASSUME NEW l \in LeafId, AbortUnsubmitted(l)
      PROVE  RowStep(r)
  <2>1. /\ Active(l)
        /\ proposals' = [proposals EXCEPT ![<<l, leaves[l]>>] = Retired(NewProposal(None))]
    BY <1>5 DEF AbortUnsubmitted
  <2>2. <<l, leaves[l]>> \in Request
    BY <2>1 DEF Active, Request
  <2>3. r # <<l, leaves[l]>>
    BY <2>1, <2>2, NewProposalType, RetiredType DEF Pending
  <2> QED
    BY <1>1, <2>1, <2>3
<1>6. ASSUME NEW l \in LeafId, NEW paths \in SUBSET Path, Propose(l, paths)
      PROVE  RowStep(r)
  <2>1. Active(l) /\ \A s \in Request : s # <<l, leaves[l]>> => proposals'[s] = proposals[s]
    BY <1>6 DEF Propose
  <2>2. r = <<l, leaves[l]>> => /\ proposals'[r].capturedAt = tip /\ proposals'[r].parent = None
                                /\ proposals'[r].root = None /\ ~proposals'[r].ready
    BY <1>6 DEF Propose, NewProposal
  <2> QED
    BY <1>1, <1>4, <2>1, <2>2 DEF RowStep
<1>7. CASE ResolutionNext
  <2>1. PICK l \in LeafId : \E sources \in SUBSET {s \in PendingRequests : s[1] = l} :
           \E choices \in [SourcePaths(sources) -> sources] : Resolve(l, sources, choices)
    BY <1>7 DEF ResolutionNext
  <2>2. PICK sources \in SUBSET {s \in PendingRequests : s[1] = l} :
           \E choices \in [SourcePaths(sources) -> sources] : Resolve(l, sources, choices)
    BY <2>1
  <2>3. Active(l) /\ \A s \in Request : s # <<l, leaves[l]>> =>
            proposals'[s] = IF s \in sources THEN Retired(proposals[s]) ELSE proposals[s]
    BY <2>2 DEF Resolve
  <2>4. \A s \in sources : s \in Request /\ Pending(s)
    BY DEF PendingRequests
  <2>5. r \notin sources \/ r = <<l, leaves[l]>>
    BY <2>3, <2>4, PendingType, RetiredType DEF Pending
  <2>6. r = <<l, leaves[l]>> => /\ proposals'[r].capturedAt = tip /\ proposals'[r].parent = None
                                /\ proposals'[r].root = None /\ ~proposals'[r].ready
    BY <2>2 DEF Resolve, NewProposal
  <2> QED
    BY <1>1, <1>4, <2>3, <2>5, <2>6 DEF RowStep
<1>8. CASE PruneHistory
  <2>1. PICK kept \in SUBSET CommittedRequests :
           proposals' = [s \in Request |->
               IF s \in kept \cup PendingRequests THEN proposals[s] ELSE None]
    BY <1>8 DEF PruneHistory
  <2> QED
    BY <1>1, <2>1 DEF Pending
<1>9. ASSUME NEW s \in Request, BeginPrepare(s)
      PROVE  RowStep(r)
  <2>1. /\ Pending(s)
        /\ proposals' = [proposals EXCEPT ![s] =
             [proposals[s] EXCEPT !.attempt = proposals[s].attempt + 1, !.parent = tip,
                                  !.root = None, !.ready = FALSE, !.batch = {}]]
    BY <1>9 DEF BeginPrepare
  <2>2. proposals[s] \in Proposal
    BY <2>1, PendingType
  <2>3. CASE r = s
    BY <2>1, <2>2, <2>3 DEF RowStep, SameCapture, Proposal
  <2>4. CASE r # s
    BY <1>1, <2>1, <2>4
  <2> QED
    BY <2>3, <2>4
<1>10. ASSUME NEW s \in Request, Abort(s)
       PROVE  RowStep(r)
  <2>1. Pending(s) /\ proposals' = [proposals EXCEPT ![s] = Retired(proposals[s])]
    BY <1>10 DEF Abort
  <2> QED
    BY <1>1, <2>1, PendingType, RetiredType DEF Pending
<1>11. ASSUME NEW c \in prepares, PinCandidate(c) \/ ReadyCandidate(c)
       PROVE  RowStep(r)
  <2>1. c.request \in Request /\ Pending(c.request) /\ c.attempt = proposals[c.request].attempt
    BY <1>11 DEF PinCandidate, ReadyCandidate, Matches, PrepareCall
  <2>2. proposals[c.request] \in Proposal
    BY <2>1, PendingType
  <2>3. \/ proposals' = [proposals EXCEPT ![c.request].root = c.root]
        \/ proposals' = [proposals EXCEPT ![c.request].ready = TRUE]
    BY <1>11 DEF PinCandidate, ReadyCandidate
  <2>4. CASE r = c.request
    <3>1. CASE PinCandidate(c)
      <4>1. proposals'[r] = [proposals[r] EXCEPT !.root = c.root]
        BY <2>1, <2>4, <3>1 DEF PinCandidate
      <4>2. /\ SameAttempt(r)
            /\ proposals'[r].root = c.root
            /\ proposals'[r].ready = proposals[r].ready
        BY <2>2, <2>4, <4>1 DEF SameAttempt, SameCapture, Proposal
      <4> QED
        BY <2>1, <2>4, <3>1, <4>2 DEF RowStep
    <3>2. CASE ReadyCandidate(c)
      <4>1. proposals'[r] = [proposals[r] EXCEPT !.ready = TRUE] /\ proposals[r].root = c.root
        BY <2>1, <2>4, <3>2 DEF ReadyCandidate, Matches
      <4>2. SameAttempt(r) /\ proposals'[r].root = c.root
        BY <2>2, <2>4, <4>1 DEF SameAttempt, SameCapture, Proposal
      <4> QED
        BY <2>1, <2>4, <3>2, <4>2 DEF RowStep
    <3> QED
      BY <1>11, <3>1, <3>2
  <2>5. CASE r # c.request
    BY <1>1, <2>3, <2>5
  <2> QED
    BY <2>4, <2>5
<1>12. ASSUME NEW members \in SUBSET PendingRequests, NEW root, Publish(members, root)
       PROVE  RowStep(r)
  <2>1. proposals' = [s \in Request |->
             IF s \in members
             THEN [proposals[s] EXCEPT !.state = "committed", !.committed = tip + 1]
             ELSE proposals[s]]
    BY <1>12 DEF Publish
  <2>2. r \notin members
    <3>1. ASSUME r \in members
          PROVE  FALSE
      <4>1. proposals[r] \in Proposal
        BY <3>1, PendingType DEF PendingRequests
      <4>2. proposals'[r].state = "committed"
        BY <2>1, <3>1, <4>1 DEF Proposal
      <4> QED
        BY <4>2 DEF Pending
    <3> QED
      BY <3>1
  <2> QED
    BY <1>1, <2>1, <2>2
<1>13. ASSUME NEW c \in commits, Commit(c)
       PROVE  RowStep(r)
  <2> DEFINE members == {c.request}
  <2>1. members \in SUBSET PendingRequests /\ Publish(members, c.root)
    BY <1>13, PublishSteps DEF Commit
  <2> HIDE DEF members
  <2> QED
    BY <1>12, <2>1
<1>14. ASSUME NEW members \in SUBSET PendingRequests, BeginPrepareBatch(members)
       PROVE  RowStep(r)
  <2>1. proposals' = [s \in Request |->
         IF s \in members
         THEN [proposals[s] EXCEPT !.attempt = proposals[s].attempt + 1, !.parent = tip,
                                   !.root = None, !.ready = FALSE, !.batch = members]
         ELSE proposals[s]]
    BY <1>14 DEF BeginPrepareBatch
  <2>2. CASE r \in members
    <3>1. proposals[r] \in Proposal /\ Pending(r)
      BY <2>2, PendingType DEF PendingRequests
    <3>2. proposals'[r] = [proposals[r] EXCEPT !.attempt = proposals[r].attempt + 1, !.parent = tip,
                                               !.root = None, !.ready = FALSE, !.batch = members]
      BY <2>1, <2>2
    <3> QED
      BY <3>1, <3>2 DEF RowStep, SameCapture, Proposal
  <2>3. CASE r \notin members
    BY <1>1, <2>1, <2>3
  <2> QED
    BY <2>2, <2>3
<1>15. ASSUME NEW b \in batchPrepares, PinBatch(b) \/ ReadyBatch(b)
       PROVE  RowStep(r)
  <2>1. /\ InBatch(b)
        /\ (ReadyBatch(b) /\ SetCandidate(b, TRUE)) \/ SetCandidate(b, FALSE)
    BY <1>15 DEF PinBatch, ReadyBatch
  <2>2. CASE r \in b.members
    <3>1. Pending(r) /\ proposals[r] \in Proposal
      BY <2>1, <2>2, PendingType DEF InBatch
    <3>2. \/ /\ ReadyBatch(b)
             /\ proposals'[r] = [proposals[r] EXCEPT !.root = b.root, !.ready = TRUE]
          \/ proposals'[r] = [proposals[r] EXCEPT !.root = b.root, !.ready = FALSE]
      BY <2>1, <2>2 DEF SetCandidate
    <3>3. SameAttempt(r) /\ proposals'[r].root = b.root /\ (proposals'[r].ready => ReadyBatch(b))
      BY <3>1, <3>2 DEF SameAttempt, SameCapture, Proposal
    <3> QED
      BY <2>1, <2>2, <3>1, <3>3 DEF RowStep
  <2>3. CASE r \notin b.members
    BY <1>1, <2>1, <2>3 DEF SetCandidate
  <2> QED
    BY <2>2, <2>3
<1>16. ASSUME NEW b \in batchCommits, CommitBatch(b)
       PROVE  RowStep(r)
  BY <1>12, <1>16, PublishSteps DEF CommitBatch
<1>17. CreateLeaf => UNCHANGED proposals
  BY DEF CreateLeaf
<1> QED
  BY <1>2, <1>3, <1>5, <1>6, <1>7, <1>8, <1>9, <1>10, <1>11, <1>13, <1>14, <1>15, <1>16, <1>17,
     RequestSteps DEF vars

LEMMA AttemptsStep ==
    ASSUME Typed, RequestsOK, CallsOK, AttemptsOK, [Next]_vars
    PROVE  AttemptsOK'
<1> SUFFICES ASSUME NEW c \in prepares', Pending(c.request)'
             PROVE  /\ c.attempt <= proposals'[c.request].attempt
                    /\ c.attempt = proposals'[c.request].attempt =>
                        /\ proposals'[c.request].parent = c.parent
                        /\ proposals'[c.request].batch = {}
  BY DEF AttemptsOK
<1>1. ASSUME NEW d \in prepares, c.request = d.request, c.attempt = d.attempt, c.parent = d.parent
      PROVE  /\ c.attempt <= proposals'[c.request].attempt
             /\ c.attempt = proposals'[c.request].attempt =>
                 /\ proposals'[c.request].parent = c.parent
                 /\ proposals'[c.request].batch = {}
  <2>1. d.request \in Request /\ d.attempt \in Attempt /\ captured[d.request] # None
    BY DEF Typed, TypeOK, PrepareCall, CallsOK, Built, AllCaptured
  <2>2. RowStep(d.request)
    BY <1>1, <2>1, RowSteps
  <2>3. Pending(d.request)
    BY <2>1, <2>2 DEF RowStep
  <2>4. proposals[d.request].attempt \in Attempt
    BY <2>1, <2>3, PendingType DEF Proposal
  <2>5. /\ d.attempt <= proposals[d.request].attempt
        /\ d.attempt = proposals[d.request].attempt =>
            proposals[d.request].parent = d.parent /\ proposals[d.request].batch = {}
    BY <2>3 DEF AttemptsOK
  <2>6. SameAttempt(d.request) \/ proposals'[d.request].attempt = proposals[d.request].attempt + 1
    BY <2>1, <2>2 DEF RowStep
  <2> QED
    BY <1>1, <2>1, <2>4, <2>5, <2>6, CountersAssumption DEF SameAttempt, Attempt
<1>2. ASSUME NEW r \in Request, BeginPrepare(r), c.request = r,
             c.attempt = proposals[r].attempt + 1, c.parent = tip
      PROVE  /\ c.attempt <= proposals'[c.request].attempt
             /\ proposals'[c.request].parent = c.parent
             /\ proposals'[c.request].batch = {}
  <2>1. /\ Pending(r)
        /\ proposals' = [proposals EXCEPT ![r] =
             [proposals[r] EXCEPT !.attempt = proposals[r].attempt + 1, !.parent = tip,
                                  !.root = None, !.ready = FALSE, !.batch = {}]]
    BY <1>2 DEF BeginPrepare
  <2>2. proposals[r] \in Proposal /\ proposals[r].attempt \in Attempt
    BY <2>1, PendingType DEF Proposal
  <2>3. /\ proposals'[r].attempt = proposals[r].attempt + 1
        /\ proposals'[r].parent = tip
        /\ proposals'[r].batch = {}
    BY <2>1, <2>2 DEF Typed, TypeOK, Proposal
  <2> QED
    BY <1>2, <2>2, <2>3, CountersAssumption DEF Attempt
<1> QED
  BY <1>1, <1>2, PrepareSteps

LEMMA CandidatesStep ==
    ASSUME Typed, RequestsOK, VersionsOK, CallsOK, AttemptsOK, CandidatesOK, [Next]_vars
    PROVE  CandidatesOK'
<1> SUFFICES ASSUME NEW r \in Request, Pending(r)', proposals'[r].root # None
             PROVE  Built(Members(r), proposals[r].parent, proposals[r].root)'
  BY DEF CandidatesOK
<1> DEFINE members == Members(r)'
           parent == proposals'[r].parent
           root == proposals'[r].root
<1>1. Built(members, parent, root)
  <2>2. CASE Pending(r) /\ SameAttempt(r) /\ root = proposals[r].root
    BY <2>2 DEF SameAttempt, Members, CandidatesOK
  <2>3. ASSUME Pending(r), SameAttempt(r), NEW c \in prepares, c.request = r,
               c.attempt = proposals[r].attempt, root = c.root
        PROVE  Built(members, parent, root)
    <3>1. proposals[r].parent = c.parent /\ proposals[r].batch = {}
      BY <2>3 DEF AttemptsOK
    <3>2. members = {c.request} /\ parent = c.parent
      BY <2>3, <3>1 DEF SameAttempt, Members
    <3> QED
      BY <2>3, <3>2 DEF CallsOK
  <2>4. ASSUME Pending(r), SameAttempt(r), NEW b \in batchPrepares, InBatch(b), r \in b.members,
               root = b.root
        PROVE  Built(members, parent, root)
    <3>1. members = b.members /\ parent = b.parent
      BY <2>4 DEF SameAttempt, Members, InBatch
    <3> QED
      BY <2>4, <3>1 DEF CallsOK
  <2> QED
    BY <2>2, <2>3, <2>4, RowSteps DEF RowStep
<1>2. PICK m, v, tree : m = members /\ v = parent /\ tree = root
  OBVIOUS
<1>3. Built(m, v, tree)'
  BY <1>1, <1>2, BuiltIsStable
<1> QED
  BY <1>2, <1>3 DEF Built, Applies, AllCaptured, CapturedBy
-----------------------------------------------------------------------------
(* The inductive invariant *)

LEMMA IInvInit ==
    ASSUME Init
    PROVE  IInv
<1> USE DEF Init
<1>1. Typed
  BY InitTypes
<1>2. RequestsOK
  <2>1. ASSUME NEW l \in LeafId, Active(l)
        PROVE  l < nextLeaf
    BY <2>1, InitialFacts DEF Active, LeafId
  <2> QED
    BY <2>1 DEF RequestsOK, Pending
<1>3. VersionsOK
  <2>1. tip = 1 /\ 1 \in Version /\ 0 \in Version
    BY InitialFacts DEF Imported, Version
  <2>2. EmptyTree # None /\ InitialTree # None
    <3>1. EmptyTree \in Snapshot /\ InitialTree \in Snapshot
      BY InitialAssumption DEF EmptyTree, Snapshot, Value
    <3> QED
      BY <3>1, NoneAssumption
  <2>3. \A v \in Version : epochs[v] # None <=> v <= 1
    BY <2>2, InitialFacts DEF Imported, Version
  <2>4. \A v \in Version : epochs[v] # None => [root |-> epochs[v], members |-> {}] # None
    <3>1. \A v \in Version : epochs[v] # None =>
              [root |-> epochs[v], members |-> {}] \in [root : Snapshot, members : SUBSET Request]
      BY <1>1 DEF Typed, TypeOK
    <3> QED
      BY <3>1, NoneAssumption
  <2>5. \A v \in Version : history[v] = IF epochs[v] = None THEN None
                                        ELSE [root |-> epochs[v], members |-> {}]
    OBVIOUS
  <2> QED
    BY <2>1, <2>3, <2>4, <2>5 DEF VersionsOK, AllCaptured
<1>4. CallsOK /\ AttemptsOK
  BY DEF CallsOK, AttemptsOK
<1>5. CandidatesOK
  BY DEF CandidatesOK, Pending
<1> QED
  BY <1>2, <1>3, <1>4, <1>5 DEF IInv

LEMMA IInvStep ==
    ASSUME Typed, IInv, [Next]_vars
    PROVE  IInv'
BY RequestsStep, VersionsStep, CallsStep, AttemptsStep, CandidatesStep DEF IInv

LEMMA AlwaysIInv == Spec => [](Typed /\ IInv)
<1>1. Init => Typed /\ IInv
  BY InitTypes, IInvInit
<1>2. (Typed /\ IInv) /\ [Next]_vars => (Typed /\ IInv)'
  BY TypedStep, IInvStep
<1> QED
  BY <1>1, <1>2, PTL DEF Spec

\* Every stored candidate, whichever of the overlapping attempts stored it, is
\* its parent version with exactly the changes its requests captured
\* (publication.rs pin_candidate, batch.rs update_batch).
THEOREM CandidatesAreBuilt == Spec => []CandidatesOK
<1>1. IInv => CandidatesOK
  BY DEF IInv
<1> QED
  BY <1>1, AlwaysIInv, PTL
-----------------------------------------------------------------------------
(* What a commit publishes *)

\* The members are pending, the tree is the tip with their captured changes, and
\* every captured origin is what the tip holds.
Publishes(members, root) ==
    /\ members \in SUBSET PendingRequests
    /\ members # {}
    /\ root \in Snapshot
    /\ Publish(members, root)
    /\ Built(members, tip, root)
    /\ \A r \in members, p \in Path : captured[r].changes[p] # None =>
           /\ captured[r].changes[p].origin = Tip[p]
           /\ leases[p] # None
           /\ leases[p].leaf = r[1]
           /\ leases[p].token = captured[r].changes[p].token
    /\ \A r \in members : Members(r) = members /\ proposals[r].root = root

LEMMA CommitPublishes ==
    ASSUME Typed, IInv, NEW c \in commits, Commit(c)
    PROVE  Publishes({c.request}, c.root)
<1> DEFINE r == c.request
<1>1. /\ r \in Request /\ Pending(r) /\ c.root \in Snapshot
      /\ {r} \in SUBSET PendingRequests
      /\ Publish({r}, c.root)
  BY PublishSteps DEF Commit, PendingRequests
<1>2. Members(r) = {r} /\ proposals[r].root = c.root /\ proposals[r].parent = tip
  BY DEF Commit, Committable, Matches, Members
<1>3. Built({r}, tip, c.root)
  <2>1. proposals[r].root # None
    BY <1>1, <1>2, NoneAssumption
  <2> QED
    BY <1>1, <1>2, <2>1 DEF IInv, CandidatesOK
<1>4. c.base = Tip
  BY TipTree DEF IInv, CallsOK, Commit
<1>5. captured[r].changes = proposals[r].body
  BY <1>1 DEF IInv, RequestsOK
<1>6. Validate(r, Tip)
  BY <1>4 DEF Commit
<1> QED
  BY <1>1, <1>2, <1>3, <1>5, <1>6 DEF Publishes, Validate, Touched

LEMMA CommitBatchPublishes ==
    ASSUME Typed, IInv, NEW b \in batchCommits, CommitBatch(b)
    PROVE  Publishes(b.members, b.root)
<1>1. /\ b.members \in SUBSET PendingRequests
      /\ b.members # {}
      /\ b.root \in Snapshot
      /\ Publish(b.members, b.root)
  BY PublishSteps DEF CommitBatch, IInv, CallsOK
<1>2. \A r \in b.members : /\ Members(r) = b.members
                           /\ proposals[r].root = b.root
                           /\ proposals[r].parent = tip
  BY DEF CommitBatch, BatchCommittable, InBatch, Members
<1>3. Built(b.members, tip, b.root)
  <2>1. PICK r \in b.members : r \in Request /\ Pending(r)
    BY <1>1 DEF PendingRequests
  <2>2. proposals[r].root # None
    BY <1>1, <1>2, NoneAssumption
  <2> QED
    BY <1>2, <2>1, <2>2 DEF IInv, CandidatesOK
<1>4. b.base = Tip
  BY TipTree DEF IInv, CallsOK, CommitBatch
<1>5. \A r \in b.members : captured[r].changes = proposals[r].body /\ Validate(r, Tip)
  BY <1>1, <1>4 DEF IInv, RequestsOK, PendingRequests, CommitBatch, BatchProposals
<1> QED
  BY <1>1, <1>2, <1>3, <1>5 DEF Publishes, Validate, Touched

\* Every other step leaves the tip, its tree and the published versions alone.
LEMMA PublishingSteps ==
    ASSUME Typed, IInv, [Next]_vars
    PROVE  \/ Tip' = Tip /\ UNCHANGED <<tip, history>>
           \/ \E members \in SUBSET Request, root \in Snapshot : Publishes(members, root)
<1>1. PruneHistory => Tip' = Tip /\ UNCHANGED <<tip, history>>
  BY TipIsKept DEF PruneHistory, Tip, Typed, TypeOK
<1>2. UNCHANGED <<tip, epochs, history>> => Tip' = Tip
  BY DEF Tip
<1>3. \A members, root : Publishes(members, root) => members \in SUBSET Request /\ root \in Snapshot
  BY DEF Publishes, PendingRequests
<1> QED
  BY <1>1, <1>2, <1>3, VersionSteps, CommitPublishes, CommitBatchPublishes DEF vars

\* The captured value of the one writer is what the new tip holds at its path.
LEMMA PublishedValue ==
    ASSUME Typed, IInv, NEW members \in SUBSET Request, NEW root \in Snapshot,
           Publishes(members, root), NEW p \in Path
    PROVE  root[p] = IF Writers(members, p) = {} THEN Tip[p] ELSE Published(members, p)
<1>1. Writers(members, p) = CapturedBy(members, p)
  BY WritersCaptured DEF IInv, Publishes
<1>2. CASE Writers(members, p) = {}
  BY <1>1, <1>2, TipTree DEF Publishes, Built, Applies, IInv
<1>3. CASE Writers(members, p) # {}
  <2>1. PICK r \in Writers(members, p) : /\ Writers(members, p) = {r}
                                         /\ root[p] = captured[r].changes[p].value
    BY <1>1, <1>3 DEF Publishes, Built, Applies
  <2>2. captured[r].changes = proposals[r].body
    BY <2>1 DEF Publishes, IInv, RequestsOK, PendingRequests, Writers
  <2>3. (CHOOSE s \in Writers(members, p) : TRUE) = r
    BY <2>1
  <2> QED
    BY <1>3, <2>1, <2>2, <2>3 DEF Published
<1> QED
  BY <1>2, <1>3
-----------------------------------------------------------------------------
(* Live leases are based on the tip *)

LEMMA OriginStep ==
    ASSUME Typed, IInv, LeaseOriginIsTip, [Next]_vars
    PROVE  LeaseOriginIsTip'
<1> USE DEF Typed, TypeOK
<1>1. ASSUME NEW members \in SUBSET Request, NEW root \in Snapshot, Publishes(members, root)
      PROVE  LeaseOriginIsTip'
  <2> SUFFICES ASSUME NEW p \in Path, leases'[p] # None
               PROVE  leases'[p].origin = Tip'[p]
    BY DEF LeaseOriginIsTip
  <2>1. Tip' = root
    BY <1>1, PublishTypes DEF Publishes, Publish, Tip
  <2>2. leases[p] \in Lease /\ leases[p].origin = Tip[p]
    BY <1>1, PublishKeepsHolders DEF Publishes, LeaseOriginIsTip
  <2>3. CASE Writers(members, p) = {}
    <3>1. leases'[p] = leases[p]
      BY <1>1, <2>3 DEF Publishes, Publish
    <3>2. root[p] = Tip[p]
      BY <1>1, <2>3, PublishedValue DEF Publishes
    <3> QED
      BY <2>1, <2>2, <3>1, <3>2
  <2>4. CASE Writers(members, p) # {}
    <3>1. leases'[p] = [leases[p] EXCEPT !.origin = Published(members, p)]
      BY <1>1, <2>2, <2>4, NoneAssumption DEF Publishes, Publish
    <3>2. leases'[p].origin = Published(members, p)
      BY <2>2, <3>1 DEF Lease
    <3> QED
      BY <1>1, <2>1, <2>4, <3>2, PublishedValue
  <2> QED
    BY <2>3, <2>4
<1>2. ASSUME Tip' = Tip,
             \A p \in Path : leases'[p] # None =>
                 \/ leases[p] # None /\ leases'[p].origin = leases[p].origin
                 \/ leases'[p].origin = Tip[p]
      PROVE  LeaseOriginIsTip'
  BY <1>2 DEF LeaseOriginIsTip
<1>3. ASSUME Tip' = Tip, UNCHANGED leases
      PROVE  LeaseOriginIsTip'
  BY <1>2, <1>3
<1>4. ASSUME Tip' = Tip, NEW l \in LeafId, DropLeaf(l)
      PROVE  LeaseOriginIsTip'
  BY <1>2, <1>4 DEF DropLeaf
<1>5. ASSUME Tip' = Tip, NEW l \in LeafId, NEW paths \in SUBSET Path, Acquire(l, paths)
      PROVE  LeaseOriginIsTip'
  BY <1>2, <1>5 DEF Acquire
<1>6. ASSUME Tip' = Tip, NEW p \in Path, Activate(p)
      PROVE  LeaseOriginIsTip'
  <2>1. leases[p] \in Lease /\ leases' = [leases EXCEPT ![p] = [leases[p] EXCEPT !.activated = TRUE]]
    BY <1>6 DEF Activate
  <2>2. \A q \in Path : leases'[q] # None =>
            leases[q] # None /\ leases'[q].origin = leases[q].origin
    BY <1>6, <2>1 DEF Lease, Activate
  <2> QED
    BY <1>2, <1>6, <2>2
<1>7. ASSUME Tip' = Tip, NEW p \in Path, Withdraw(p)
      PROVE  LeaseOriginIsTip'
  BY <1>2, <1>7 DEF Withdraw
<1>8. ASSUME NEW members, NEW root, Publish(members, root)
      PROVE  tip' # tip
  <2>1. tip \in Version /\ tip' = tip + 1
    BY <1>8 DEF Publish
  <2>2. tip \in Nat
    BY <2>1, CountersAssumption DEF Version
  <2> QED
    BY ONLY <2>1, <2>2
<1> QED
  BY <1>1, <1>3, <1>4, <1>5, <1>6, <1>7, <1>8, LeaseSteps, PublishingSteps DEF vars, Commit, CommitBatch

\* However old a reservation is, it is based on what the tip holds: no
\* publication leaves a live lease with a stale origin (publication.rs commit,
\* leases.rs acquire).
THEOREM OriginsAreCurrent == Spec => []LeaseOriginIsTip
<1>1. Init => LeaseOriginIsTip
  <2> SUFFICES ASSUME Init, NEW p \in Path, leases[p] # None
               PROVE  leases[p].origin = Tip[p]
    BY DEF LeaseOriginIsTip
  <2>1. leases[p].origin = InitialTree[p]
    BY DEF Init
  <2>2. Tip = InitialTree
    BY InitialFacts DEF Init, Tip, Imported, Version
  <2> QED
    BY <2>1, <2>2
<1> QED
  BY <1>1, OriginStep, AlwaysIInv, PTL DEF Spec
-----------------------------------------------------------------------------
(* No update is lost *)

LEMMA NoLostUpdateStep ==
    ASSUME Typed, IInv, NoLostUpdate, [Next]_vars
    PROVE  NoLostUpdate'
<1> DEFINE Follows(v) ==
        \A p \in Path :
            \/ Authors(v, p) = {} /\ history[v].root[p] = history[v - 1].root[p]
            \/ \E r \in Authors(v, p) :
                /\ Authors(v, p) = {r}
                /\ captured[r].changes[p].origin = history[v - 1].root[p]
                /\ captured[r].changes[p].value = history[v].root[p]
<1>1. tip \in Version /\ tip' \in Version
  BY TypedStep DEF Typed, TypeOK
<1>2. ASSUME NEW v \in Version, v > Imported, v <= tip
      PROVE  Follows(v)'
  <2>1. v - 1 \in Version /\ v - 1 <= tip
    BY <1>1, <1>2, CountersAssumption DEF Version, Imported
  <2>2. history'[v] = history[v] /\ history'[v - 1] = history[v - 1]
    BY <1>2, <2>1, VersionsAreStable DEF IInv
  <2>3. history[v] # None /\ AllCaptured(history[v].members)
    BY <1>2 DEF IInv, VersionsOK
  <2>4. \A r \in history[v].members : captured'[r] = captured[r]
    BY <2>3, CapturedIsStable DEF IInv, AllCaptured
  <2>5. \A p \in Path : Authors(v, p)' = Authors(v, p)
    BY <2>2, <2>4 DEF Authors
  <2>6. Follows(v)
    BY <1>2, <2>3 DEF NoLostUpdate
  <2>7. \A p \in Path : Authors(v, p) \subseteq history[v].members
    BY DEF Authors
  <2> QED
    BY <2>2, <2>4, <2>5, <2>6, <2>7
<1>3. ASSUME NEW members \in SUBSET Request, NEW root \in Snapshot, Publishes(members, root),
             NEW v \in Version, v > tip, v <= tip'
      PROVE  Follows(v)'
  <2>1. tip' = tip + 1 /\ history' = [history EXCEPT ![tip + 1] = [root |-> root, members |-> members]]
    BY <1>3 DEF Publishes, Publish
  <2>2. v = tip + 1 /\ v - 1 = tip
    BY <1>1, <1>3, <2>1, CountersAssumption DEF Version
  <2>3. history'[v] = [root |-> root, members |-> members]
    BY <2>1, <2>2 DEF Typed, TypeOK
  <2>4. history'[v - 1].root = Tip
    BY <1>1, <2>2, TipTree, VersionsAreStable DEF IInv
  <2>5. \A r \in members : captured'[r] = captured[r]
    BY <1>3, CapturedIsStable DEF IInv, Publishes, Built, AllCaptured
  <2>6. \A p \in Path : Authors(v, p)' = CapturedBy(members, p)
    BY <2>3, <2>5 DEF Authors, CapturedBy
  <2>7. ASSUME NEW p \in Path
        PROVE  \/ CapturedBy(members, p) = {} /\ root[p] = Tip[p]
               \/ \E r \in CapturedBy(members, p) :
                   /\ CapturedBy(members, p) = {r}
                   /\ captured[r].changes[p].origin = Tip[p]
                   /\ captured[r].changes[p].value = root[p]
    BY <1>3, TipTree DEF Publishes, Built, Applies, CapturedBy, IInv
  <2>8. \A p \in Path : CapturedBy(members, p) \subseteq members
    BY DEF CapturedBy
  <2> QED
    BY <2>3, <2>4, <2>5, <2>6, <2>7, <2>8
<1>4. ASSUME NEW v \in Version, history'[v] # None
      PROVE  v <= tip'
  BY <1>4, VersionsStep DEF IInv, VersionsOK
<1>5. ASSUME NEW v \in Version, v > Imported, history'[v] # None
      PROVE  Follows(v)'
  <2>1. CASE v <= tip
    BY <1>2, <1>5, <2>1
  <2>2. CASE v > tip
    <3>1. v <= tip' /\ tip' # tip
      BY <1>1, <1>4, <1>5, <2>2 DEF Version
    <3> HIDE DEF Follows
    <3> QED
      BY <1>3, <2>2, <3>1, PublishingSteps
  <2> QED
    BY <1>1, <2>1, <2>2 DEF Version
<1> QED
  BY <1>5 DEF NoLostUpdate

\* Every version is its predecessor with exactly the captured changes of its
\* members, each made against the value the predecessor held, whatever
\* preparations, commits and maintenance ran in between.
THEOREM NoUpdateIsLost == Spec => []NoLostUpdate
<1>1. Init => NoLostUpdate
  <2> SUFFICES ASSUME Init, NEW v \in Version, v > Imported, history[v] # None
               PROVE  FALSE
    BY DEF NoLostUpdate
  <2>1. v <= tip
    BY IInvInit DEF IInv, VersionsOK
  <2> QED
    BY <2>1 DEF Init, Imported, Version
<1> QED
  BY <1>1, NoLostUpdateStep, AlwaysIInv, PTL DEF Spec
-----------------------------------------------------------------------------
(* Receipts.  Identities are spent for good: a request that was captured can *)
(* only be pending, retired, published or pruned, and only a pending one is  *)
(* ever published.                                                           *)

\* A receipt describes the version it names, a published request has no other
\* row than its receipt, and no request is published twice.
ReceiptsOK ==
    /\ \A r \in Request : proposals[r] # None /\ proposals[r].state = "committed" =>
        /\ proposals[r].committed \in Version
        /\ proposals[r].committed <= tip
        /\ history[proposals[r].committed].members = Members(r)
        /\ r \in Members(r)
        /\ history[proposals[r].committed].root = proposals[r].root
    /\ \A v \in Version : \A r \in Request :
        v <= tip /\ r \in history[v].members /\ proposals[r] # None =>
            proposals[r].state = "committed" /\ proposals[r].committed = v
    /\ \A v, u \in Version : \A r \in Request :
        v <= tip /\ u <= tip /\ r \in history[v].members /\ r \in history[u].members => v = u

\* How a step ends a request: by a publication, by retiring a pending row, or
\* by refusing an identity that captured nothing.
LEMMA EndSteps ==
    ASSUME Typed, RequestsOK, [Next]_vars, NEW r \in Request,
           proposals'[r] # None, ~Pending(r)', proposals'[r] # proposals[r]
    PROVE  \/ (captured[r] = None \/ Pending(r)) /\ proposals'[r].state = "aborted"
           \/ \E c \in commits : Commit(c) /\ r = c.request
           \/ \E b \in batchCommits : CommitBatch(b) /\ r \in b.members
<1> DEFINE Goal == (captured[r] = None \/ Pending(r)) /\ proposals'[r].state = "aborted"
<1> USE DEF Typed, TypeOK
<1>1. ASSUME Pending(r), proposals'[r] = Retired(proposals[r])
      PROVE  Goal
  BY <1>1, PendingType, RetiredType
<1>2. ASSUME Pending(r), proposals'[r].state = proposals[r].state
      PROVE  FALSE
  BY <1>2 DEF Pending
<1>3. ASSUME NEW l \in LeafId, DropLeaf(l)
      PROVE  Goal
  <2>1. proposals'[r] = IF r[1] = l /\ Pending(r) THEN Retired(proposals[r]) ELSE proposals[r]
    BY <1>3 DEF DropLeaf
  <2> QED
    BY <1>1, <2>1
<1>4. ASSUME NEW l \in LeafId, AbortUnsubmitted(l)
      PROVE  Goal
  <2>1. Active(l) /\ proposals' = [proposals EXCEPT ![<<l, leaves[l]>>] = Retired(NewProposal(None))]
    BY <1>4 DEF AbortUnsubmitted
  <2>2. leaves[l] \in Sequence /\ r = <<l, leaves[l]>>
    BY <2>1 DEF Active
  <2>3. captured[r] = None
    BY <2>1, <2>2 DEF RequestsOK, Sequence
  <2> QED
    BY <2>1, <2>2, <2>3, NewProposalType, RetiredType
<1>5. ASSUME NEW l \in LeafId, NEW paths \in SUBSET Path, Propose(l, paths)
      PROVE  FALSE
  BY <1>5 DEF Propose, NewProposal, Pending
<1>6. CASE ResolutionNext
  <2>1. PICK l \in LeafId : \E sources \in SUBSET {s \in PendingRequests : s[1] = l} :
           \E choices \in [SourcePaths(sources) -> sources] : Resolve(l, sources, choices)
    BY <1>6 DEF ResolutionNext
  <2>2. PICK sources \in SUBSET {s \in PendingRequests : s[1] = l} :
           \E choices \in [SourcePaths(sources) -> sources] : Resolve(l, sources, choices)
    BY <2>1
  <2>3. PICK choices \in [SourcePaths(sources) -> sources] : Resolve(l, sources, choices)
    BY <2>2
  <2>4. proposals'[r] = IF r = <<l, leaves[l]>> THEN NewProposal(SelectedChanges(l, choices))
                        ELSE IF r \in sources THEN Retired(proposals[r]) ELSE proposals[r]
    BY <2>3 DEF Resolve
  <2>5. r # <<l, leaves[l]>>
    BY <2>4 DEF NewProposal, Pending
  <2>6. \A s \in sources : Pending(s)
    BY DEF PendingRequests
  <2> QED
    BY <1>1, <2>4, <2>5, <2>6
<1>7. CASE PruneHistory
  <2>1. PICK kept \in SUBSET CommittedRequests :
           proposals' = [s \in Request |->
               IF s \in kept \cup PendingRequests THEN proposals[s] ELSE None]
    BY <1>7 DEF PruneHistory
  <2> QED
    BY <2>1
<1>8. ASSUME NEW s \in Request, BeginPrepare(s)
      PROVE  FALSE
  <2>1. /\ Pending(s)
        /\ proposals' = [proposals EXCEPT ![s] =
             [proposals[s] EXCEPT !.attempt = proposals[s].attempt + 1, !.parent = tip,
                                  !.root = None, !.ready = FALSE, !.batch = {}]]
    BY <1>8 DEF BeginPrepare
  <2>2. proposals[s] \in Proposal
    BY <2>1, PendingType
  <2> QED
    BY <1>2, <2>1, <2>2 DEF Proposal
<1>9. ASSUME NEW s \in Request, Abort(s)
      PROVE  Goal
  BY <1>1, <1>9 DEF Abort
<1>10. ASSUME NEW c \in prepares, PinCandidate(c) \/ ReadyCandidate(c)
       PROVE  FALSE
  <2>1. /\ c.request \in Request
        /\ Pending(c.request)
        /\ \/ proposals' = [proposals EXCEPT ![c.request].root = c.root]
           \/ proposals' = [proposals EXCEPT ![c.request].ready = TRUE]
    BY <1>10 DEF PinCandidate, ReadyCandidate, PrepareCall
  <2>2. proposals[c.request] \in Proposal
    BY <2>1, PendingType
  <2> QED
    BY <1>2, <2>1, <2>2 DEF Proposal
<1>11. ASSUME NEW members \in SUBSET PendingRequests, BeginPrepareBatch(members)
       PROVE  FALSE
  <2>1. proposals' = [s \in Request |->
         IF s \in members
         THEN [proposals[s] EXCEPT !.attempt = proposals[s].attempt + 1, !.parent = tip,
                                   !.root = None, !.ready = FALSE, !.batch = members]
         ELSE proposals[s]]
    BY <1>11 DEF BeginPrepareBatch
  <2>2. Pending(r) /\ proposals[r] \in Proposal /\ r \in members
    BY <2>1, PendingType DEF PendingRequests
  <2> QED
    BY <1>2, <2>1, <2>2 DEF Proposal
<1>12. ASSUME NEW b \in batchPrepares, PinBatch(b) \/ ReadyBatch(b)
       PROVE  FALSE
  <2>1. InBatch(b) /\ (SetCandidate(b, TRUE) \/ SetCandidate(b, FALSE))
    BY <1>12 DEF PinBatch, ReadyBatch
  <2>2. r \in b.members /\ Pending(r) /\ proposals[r] \in Proposal
    BY <2>1, PendingType DEF InBatch, SetCandidate
  <2>3. \/ proposals'[r] = [proposals[r] EXCEPT !.root = b.root, !.ready = TRUE]
        \/ proposals'[r] = [proposals[r] EXCEPT !.root = b.root, !.ready = FALSE]
    BY <2>1, <2>2 DEF SetCandidate
  <2>4. proposals'[r].state = proposals[r].state
    BY <2>2, <2>3 DEF Proposal
  <2> QED
    BY <1>2, <2>2, <2>4
<1>13. ASSUME NEW c \in commits, Commit(c)
       PROVE  r = c.request
  BY <1>13 DEF Commit, Publish
<1>14. ASSUME NEW b \in batchCommits, CommitBatch(b)
       PROVE  r \in b.members
  BY <1>14 DEF CommitBatch, Publish
<1>15. CreateLeaf => UNCHANGED proposals
  BY DEF CreateLeaf
<1> QED
  BY <1>3, <1>4, <1>5, <1>6, <1>7, <1>8, <1>9, <1>10, <1>11, <1>12, <1>13, <1>14, <1>15,
     RequestSteps DEF vars

\* How the row of a request can differ after a step.
LEMMA OutcomeSteps ==
    ASSUME Typed, IInv, [Next]_vars, NEW r \in Request, proposals'[r] # None
    PROVE  \/ proposals'[r] = proposals[r]
           \/ (captured[r] = None \/ Pending(r)) /\ proposals'[r].state # "committed"
           \/ \E members \in SUBSET Request, root \in Snapshot :
                Publishes(members, root) /\ r \in members
<1>1. ASSUME Pending(r)'
      PROVE  (captured[r] = None \/ Pending(r)) /\ proposals'[r].state # "committed"
  BY <1>1, RowSteps DEF RowStep, Pending, IInv
<1>2. \A members, root : Publishes(members, root) => members \in SUBSET Request /\ root \in Snapshot
  BY DEF Publishes, PendingRequests
<1> QED
  BY <1>1, <1>2, EndSteps, CommitPublishes, CommitBatchPublishes DEF IInv
-----------------------------------------------------------------------------
\* What a publication does to its members and to the history.
LEMMA PublishedRows ==
    ASSUME Typed, NEW members \in SUBSET Request, NEW root \in Snapshot, Publishes(members, root)
    PROVE  /\ tip' = tip + 1
           /\ tip + 1 \in Version
           /\ history'[tip + 1].root = root
           /\ history'[tip + 1].members = members
           /\ \A r \in members :
                /\ Pending(r)
                /\ proposals'[r].state = "committed"
                /\ proposals'[r].committed = tip + 1
                /\ proposals'[r].root = root
                /\ Members(r)' = members
<1> USE DEF Typed, TypeOK
<1>1. /\ tip' = tip + 1
      /\ tip + 1 \in Version
      /\ history' = [history EXCEPT ![tip + 1] = [root |-> root, members |-> members]]
      /\ \A r \in members :
           proposals'[r] = [proposals[r] EXCEPT !.state = "committed", !.committed = tip + 1]
  <2>1. Publish(members, root)
    BY DEF Publishes
  <2>2. tip \in Version /\ tip + 1 <= MaxVersion /\ tip' = tip + 1
    BY <2>1 DEF Publish
  <2>3. tip + 1 \in Version
    <3>1. tip \in Nat /\ MaxVersion \in Nat
      BY <2>2, CountersAssumption DEF Version
    <3> QED
      BY ONLY <2>2, <3>1 DEF Version
  <2>4. history' = [history EXCEPT ![tip + 1] = [root |-> root, members |-> members]]
    BY <2>1 DEF Publish
  <2>5. proposals' = [r \in Request |->
             IF r \in members
             THEN [proposals[r] EXCEPT !.state = "committed", !.committed = tip + 1]
             ELSE proposals[r]]
    BY <2>1 DEF Publish
  <2> QED
    BY <2>2, <2>3, <2>4, <2>5
<1>2. \A r \in members : Pending(r) /\ proposals[r] \in Proposal
  BY PendingType DEF Publishes, PendingRequests
<1>3. \A r \in members : Members(r) = members /\ proposals[r].root = root
  BY DEF Publishes
<1>4. ASSUME NEW r \in members
      PROVE  /\ proposals'[r].state = "committed"
             /\ proposals'[r].committed = tip + 1
             /\ proposals'[r].root = root
             /\ proposals'[r].batch = proposals[r].batch
  <2>1. proposals[r] \in Proposal /\ proposals[r].root = root
    BY <1>2, <1>3
  <2>2. proposals'[r] = [proposals[r] EXCEPT !.state = "committed", !.committed = tip + 1]
    BY <1>1
  <2> QED
    BY <2>1, <2>2 DEF Proposal
<1>5. history'[tip + 1] = [root |-> root, members |-> members]
  BY <1>1
<1>6. history'[tip + 1].root = root /\ history'[tip + 1].members = members
  BY <1>5
<1>7. \A r \in members : Members(r)' = members
  BY <1>3, <1>4 DEF Members
<1> QED
  BY <1>1, <1>2, <1>4, <1>6, <1>7

\* A version no older than the tip was there before; a newer one is what this
\* step published.
LEMMA NewestVersion ==
    ASSUME Typed, IInv, [Next]_vars, NEW v \in Version, v <= tip'
    PROVE  \/ v <= tip /\ history'[v] = history[v]
           \/ \E members \in SUBSET Request, root \in Snapshot :
                Publishes(members, root) /\ v = tip + 1
<1>1. tip \in Nat /\ v \in Nat
  BY CountersAssumption DEF Typed, TypeOK, Version
<1>2. v <= tip => history'[v] = history[v]
  BY VersionsAreStable DEF IInv
<1>3. ASSUME NEW members \in SUBSET Request, NEW root \in Snapshot, Publishes(members, root)
      PROVE  tip' = tip + 1
  BY <1>3, PublishedRows
<1> QED
  BY <1>1, <1>2, <1>3, PublishingSteps

LEMMA ReceiptsStep ==
    ASSUME Typed, IInv, ReceiptsOK, [Next]_vars
    PROVE  ReceiptsOK'
<1>1. /\ tip \in Version /\ tip' \in Version
      /\ tip <= tip'
      /\ \A v \in Version : v <= tip => history'[v] = history[v]
  BY TypedStep, VersionsAreStable DEF IInv, Typed, TypeOK
<1>2. \A v \in Version : v <= tip => AllCaptured(history[v].members)
  BY DEF IInv, VersionsOK
<1>3. ASSUME NEW r \in Request, NEW v \in Version, Pending(r) \/ captured[r] = None,
             v <= tip, r \in history[v].members
      PROVE  FALSE
  BY <1>2, <1>3 DEF AllCaptured, ReceiptsOK, Pending
<1>4. ASSUME NEW r \in Request, proposals'[r] # None, proposals'[r].state = "committed"
      PROVE  /\ proposals'[r].committed \in Version
             /\ proposals'[r].committed <= tip'
             /\ history'[proposals'[r].committed].members = Members(r)'
             /\ r \in Members(r)'
             /\ history'[proposals'[r].committed].root = proposals'[r].root
  <2>1. CASE proposals'[r] = proposals[r]
    <3>1. /\ proposals[r].committed \in Version
          /\ proposals[r].committed <= tip
          /\ history[proposals[r].committed].members = Members(r)
          /\ r \in Members(r)
          /\ history[proposals[r].committed].root = proposals[r].root
      BY <1>4, <2>1 DEF ReceiptsOK
    <3>2. Members(r)' = Members(r)
      BY <2>1 DEF Members
    <3>3. history'[proposals[r].committed] = history[proposals[r].committed]
      BY <1>1, <3>1
    <3>4. proposals[r].committed <= tip'
      BY <1>1, <3>1 DEF Version
    <3> QED
      BY <2>1, <3>1, <3>2, <3>3, <3>4
  <2>2. ASSUME NEW members \in SUBSET Request, NEW root \in Snapshot,
               Publishes(members, root), r \in members
        PROVE  /\ proposals'[r].committed \in Version
               /\ proposals'[r].committed <= tip'
               /\ history'[proposals'[r].committed].members = Members(r)'
               /\ r \in Members(r)'
               /\ history'[proposals'[r].committed].root = proposals'[r].root
    BY <1>1, <2>2, PublishedRows DEF Version
  <2> QED
    BY <1>4, <2>1, <2>2, OutcomeSteps
<1>5. ASSUME NEW v \in Version, NEW r \in Request,
             v <= tip', r \in history'[v].members, proposals'[r] # None
      PROVE  proposals'[r].state = "committed" /\ proposals'[r].committed = v
  <2>1. CASE v <= tip
    <3>1. r \in history[v].members
      BY <1>1, <1>5, <2>1
    <3>2. captured[r] # None /\ ~Pending(r)
      BY <1>3, <2>1, <3>1
    <3>3. \A members, root : Publishes(members, root) => \A s \in members : Pending(s)
      BY DEF Publishes, PendingRequests
    <3>4. proposals'[r] = proposals[r]
      BY <1>5, <3>2, <3>3, OutcomeSteps
    <3> QED
      BY <1>5, <2>1, <3>1, <3>4 DEF ReceiptsOK
  <2>2. ASSUME NEW members \in SUBSET Request, NEW root \in Snapshot,
               Publishes(members, root), v = tip + 1
        PROVE  proposals'[r].state = "committed" /\ proposals'[r].committed = v
    BY <1>5, <2>2, PublishedRows
  <2> QED
    BY <1>5, <2>1, <2>2, NewestVersion
<1>6. ASSUME NEW v \in Version, NEW u \in Version, NEW r \in Request,
             v <= tip', u <= tip', r \in history'[v].members, r \in history'[u].members
      PROVE  v = u
  <2>1. ASSUME NEW w \in Version, w <= tip', r \in history'[w].members
        PROVE  \/ w <= tip /\ r \in history[w].members
               \/ w = tip + 1 /\ Pending(r)
    <3>1. ASSUME NEW members \in SUBSET Request, NEW root \in Snapshot,
                 Publishes(members, root), w = tip + 1
          PROVE  Pending(r)
      BY <2>1, <3>1, PublishedRows
    <3> QED
      BY <2>1, <3>1, NewestVersion
  <2>2. \/ v <= tip /\ r \in history[v].members
        \/ v = tip + 1 /\ Pending(r)
    BY <1>6, <2>1
  <2>3. \/ u <= tip /\ r \in history[u].members
        \/ u = tip + 1 /\ Pending(r)
    BY <1>6, <2>1
  <2> QED
    BY <1>3, <2>2, <2>3 DEF ReceiptsOK
<1>7. (/\ \A r \in Request : proposals[r] # None /\ proposals[r].state = "committed" =>
            /\ proposals[r].committed \in Version
            /\ proposals[r].committed <= tip
            /\ history[proposals[r].committed].members = Members(r)
            /\ r \in Members(r)
            /\ history[proposals[r].committed].root = proposals[r].root)'
  BY <1>4
<1>8. (\A v \in Version : \A r \in Request :
        v <= tip /\ r \in history[v].members /\ proposals[r] # None =>
            proposals[r].state = "committed" /\ proposals[r].committed = v)'
  BY <1>5
<1>9. (\A v, u \in Version : \A r \in Request :
        v <= tip /\ u <= tip /\ r \in history[v].members /\ r \in history[u].members => v = u)'
  BY <1>6
<1> QED
  BY <1>7, <1>8, <1>9 DEF ReceiptsOK

LEMMA ReceiptsInit ==
    ASSUME Init
    PROVE  ReceiptsOK
<1>1. \A r \in Request : proposals[r] = None
  BY DEF Init
<1>2. \A v \in Version : v <= tip => history[v].members = {}
  <2> SUFFICES ASSUME NEW v \in Version, v <= tip
               PROVE  history[v].members = {}
    OBVIOUS
  <2>1. history[v] # None
    BY IInvInit DEF IInv, VersionsOK
  <2> QED
    BY <2>1 DEF Init
<1> QED
  BY <1>1, <1>2 DEF ReceiptsOK

LEMMA AlwaysReceipts == Spec => [](Typed /\ IInv /\ ReceiptsOK)
<1>1. Init => Typed /\ IInv /\ ReceiptsOK
  BY InitTypes, IInvInit, ReceiptsInit
<1>2. (Typed /\ IInv /\ ReceiptsOK) /\ [Next]_vars => (Typed /\ IInv /\ ReceiptsOK)'
  BY TypedStep, IInvStep, ReceiptsStep
<1> QED
  BY <1>1, <1>2, PTL DEF Spec

\* A receipt that is kept proves that all of its batch, and nothing else, was
\* published in the version it names (batch.rs commit_batch, batch_receipts).
THEOREM BatchesAreAtomic == Spec => []BatchIsAtomic
<1>1. ReceiptsOK => BatchIsAtomic
  BY DEF ReceiptsOK, BatchIsAtomic, Members
<1> QED
  BY <1>1, AlwaysReceipts, PTL

\* No request is ever published twice, and a receipt that is kept names the
\* version and tree of its publication: a retried commit, an abort racing it, a
\* re-prepared batch member or a pruned receipt changes nothing about that.
THEOREM RequestsPublishOnce == Spec => []PublishedOnce
<1>1. ASSUME Typed, IInv, ReceiptsOK
      PROVE  PublishedOnce
  <2> SUFFICES ASSUME NEW r \in Request
               PROVE  LET published == {v \in Version : history[v] # None /\ r \in history[v].members}
                      IN  /\ Cardinality(published) <= 1
                          /\ proposals[r] # None =>
                              /\ proposals[r].state = "committed" <=> published # {}
                              /\ proposals[r].state = "committed" =>
                                  /\ published = {proposals[r].committed}
                                  /\ history[proposals[r].committed].root = proposals[r].root
    BY DEF PublishedOnce
  <2> DEFINE published == {v \in Version : history[v] # None /\ r \in history[v].members}
  <2>1. \A v \in Version : history[v] # None <=> v <= tip
    BY <1>1 DEF IInv, VersionsOK
  <2>2. \A v, u \in published : v = u
    BY <1>1, <2>1 DEF ReceiptsOK
  <2>3. ASSUME proposals[r] # None, proposals[r].state = "committed"
        PROVE  proposals[r].committed \in published
    BY <1>1, <2>1, <2>3 DEF ReceiptsOK
  <2>4. ASSUME proposals[r] # None, NEW v \in published
        PROVE  proposals[r].state = "committed"
    BY <1>1, <2>1, <2>4 DEF ReceiptsOK
  <2>5. ASSUME proposals[r] # None, proposals[r].state = "committed"
        PROVE  history[proposals[r].committed].root = proposals[r].root
    BY <1>1, <2>5 DEF ReceiptsOK
  <2> HIDE DEF published
  <2>6. Cardinality(published) <= 1
    <3>1. CASE published = {}
      BY <3>1, FS_EmptySet
    <3>2. ASSUME NEW v \in published
          PROVE  Cardinality(published) <= 1
      <4>1. published = {v}
        BY <2>2, <3>2
      <4> QED
        BY <4>1, FS_Singleton
    <3> QED
      BY <3>1, <3>2
  <2>7. proposals[r] # None => (proposals[r].state = "committed" <=> published # {})
    BY <2>3, <2>4
  <2>8. proposals[r] # None /\ proposals[r].state = "committed" => published = {proposals[r].committed}
    BY <2>2, <2>3
  <2> QED
    BY <2>5, <2>6, <2>7, <2>8 DEF published
<1> QED
  BY <1>1, AlwaysReceipts, PTL
=============================================================================
