---------------------------- MODULE RetentionProofs --------------------------
(***************************************************************************)
(* Retention, for every value of the constants: maintenance takes nothing  *)
(* anybody can still reach, metadata stays within its budgets, and pruning *)
(* always makes room.                                                      *)
(*                                                                         *)
(* Collection reads the tables and unlinks files while other calls are     *)
(* between the file they wrote and the row that will name it.  The         *)
(* argument is an invariant about those calls: what a stage call of the    *)
(* current generation, or a preparation of the current attempt, has        *)
(* already stored is protected by the row it pinned first; and whatever a  *)
(* superseded call lost, no later step of it counts.                       *)
(***************************************************************************)
EXTENDS PossessionProofs

USE DEF leafVars, leaseVars, uploadVars, versionVars, proposalVars, storeVars, candidateVars,
        maintenanceVars
-----------------------------------------------------------------------------
(* Bases *)

\* The epochs a pending request stands on are stored.
LEMMA BasesStep ==
    ASSUME Typed, IInv, BasesAreRetained, [Next]_vars
    PROVE  BasesAreRetained'
<1>0. Typed' /\ \A v \in Version : v <= tip \/ epochs[v] = None
  BY TypedStep DEF Typed, TypeOK, TipStored
<1>1. Tip' # None
  BY <1>0, NoneAssumption DEF Typed, TipStored, Tip
<1>2. epochs[tip] # None /\ tip \in Version
  BY NoneAssumption DEF Typed, TypeOK, TipStored
<1>3. ASSUME NEW v \in Version, epochs[v] # None,
             v = tip \/ \E r \in PendingRequests : v \in {proposals[r].capturedAt, proposals[r].parent}
      PROVE  epochs'[v] # None
  <2>1. CASE PruneHistory
    <3>1. v \in KeptEpochs
      BY <1>3, TipIsKept DEF KeptEpochs, StoredEpochs
    <3> QED
      BY <1>3, <2>1, <3>1 DEF PruneHistory
  <2>2. ASSUME NEW members, NEW root \in Snapshot, Publish(members, root)
        PROVE  epochs'[v] # None
    BY <1>3, <2>2, NoneAssumption DEF Publish, Typed, TypeOK
  <2>3. \A c \in commits \cup batchCommits : c.root \in Snapshot
    BY DEF Typed, TypeOK, CommitCall, BatchCommitCall
  <2> QED
    BY <1>3, <2>1, <2>2, <2>3, VersionSteps DEF vars, Commit, CommitBatch
<1>4. ASSUME NEW r \in PendingRequests'
      PROVE  /\ epochs'[proposals'[r].capturedAt] # None
             /\ proposals'[r].parent # None => epochs'[proposals'[r].parent] # None
  <2>1. r \in Request /\ Pending(r)' /\ RowStep(r)
    BY <1>4, RowSteps DEF PendingRequests, IInv
  <2>2. ASSUME Pending(r)
        PROVE  /\ proposals[r].capturedAt \in Version
               /\ epochs'[proposals[r].capturedAt] # None
               /\ proposals[r].parent # None => epochs'[proposals[r].parent] # None
    <3>1. r \in PendingRequests /\ proposals[r] \in Proposal
      BY <2>1, <2>2, PendingType DEF PendingRequests
    <3>2. proposals[r].capturedAt \in Version /\ proposals[r].parent \in Version \cup {None}
      BY <3>1 DEF Proposal
    <3> QED
      BY <1>3, <3>1, <3>2 DEF BasesAreRetained
  <2>3. epochs'[tip] # None
    BY <1>2, <1>3
  <2> QED
    BY <2>1, <2>2, <2>3 DEF RowStep, SameAttempt, SameCapture
<1> QED
  BY <1>1, <1>4 DEF BasesAreRetained

\* The bases hold with the invariant of candidates and versions.
LEMMA AlwaysBases == Spec => [](Typed /\ IInv /\ BasesAreRetained)
<1>1. Init => BasesAreRetained
  <2> SUFFICES ASSUME Init PROVE BasesAreRetained
    OBVIOUS
  <2>1. Tip # None
    BY InitTypes, NoneAssumption DEF Typed, TipStored, Tip
  <2>2. PendingRequests = {}
    BY DEF Init, PendingRequests, Pending
  <2> QED
    BY <2>1, <2>2 DEF BasesAreRetained
<1>2. Typed /\ IInv /\ BasesAreRetained /\ [Next]_vars => BasesAreRetained'
  BY BasesStep
<1> QED
  BY <1>1, <1>2, AlwaysIInv, PTL DEF Spec

\* What a pending request was captured at, and what its candidate is built on,
\* is never pruned, and neither is the tip: preparation, commit and recovery
\* always find their base (maintenance.rs prune_epochs).
THEOREM BasesStayRetained == Spec => []BasesAreRetained
BY AlwaysBases, PTL
-----------------------------------------------------------------------------
(* Counting *)

\* Every counted set is finite.
LEMMA TablesFinite ==
    /\ IsFiniteSet(Request) /\ IsFiniteSet(Version)
    /\ IsFiniteSet(PendingRequests) /\ IsFiniteSet(StoredRequests) /\ IsFiniteSet(StoredEpochs)
<1>1. IsFiniteSet(LeafId) /\ IsFiniteSet(Sequence) /\ IsFiniteSet(Version)
  BY FS_Interval, CountersAssumption DEF LeafId, Sequence, Version
<1>2. IsFiniteSet(Request)
  BY <1>1, FS_Product DEF Request
<1>3. PendingRequests \subseteq Request /\ StoredRequests \subseteq Request /\ StoredEpochs \subseteq Version
  BY DEF PendingRequests, StoredRequests, StoredEpochs
<1> QED
  BY <1>1, <1>2, <1>3, FS_Subset

\* One more element, at most.
LEMMA GrowsByOne ==
    ASSUME NEW S, IsFiniteSet(S), NEW T, NEW x, T \subseteq S \cup {x}
    PROVE  /\ IsFiniteSet(T)
           /\ Cardinality(T) \in Nat /\ Cardinality(S) \in Nat
           /\ Cardinality(T) <= Cardinality(S) + 1
<1>1. IsFiniteSet(S \cup {x}) /\ Cardinality(S \cup {x}) \in {Cardinality(S), Cardinality(S) + 1}
  BY FS_AddElement
<1>2. IsFiniteSet(T) /\ Cardinality(T) <= Cardinality(S \cup {x})
  BY <1>1, FS_Subset
<1>3. Cardinality(T) \in Nat /\ Cardinality(S) \in Nat
  BY <1>2, FS_CardinalityType
<1> QED
  BY <1>1, <1>2, <1>3

\* A proper part is smaller.
LEMMA ShrinksByOne ==
    ASSUME NEW S, IsFiniteSet(S), NEW T, NEW x \in S, T \subseteq S \ {x}
    PROVE  /\ IsFiniteSet(T)
           /\ Cardinality(T) \in Nat /\ Cardinality(S) \in Nat
           /\ Cardinality(T) + 1 <= Cardinality(S)
<1>1. IsFiniteSet(S \ {x}) /\ Cardinality(S \ {x}) = Cardinality(S) - 1
  BY FS_RemoveElement
<1>2. IsFiniteSet(T) /\ Cardinality(T) <= Cardinality(S \ {x})
  BY <1>1, FS_Subset
<1>3. Cardinality(T) \in Nat /\ Cardinality(S) \in Nat
  BY <1>2, FS_CardinalityType
<1> QED
  BY <1>1, <1>2, <1>3
-----------------------------------------------------------------------------
(* Budgets *)

\* The calls that may add a row; no other makes a request pending.
LEMMA StoredSteps ==
    ASSUME Typed, IInv, [Next]_vars
    PROVE  \/ StoredRequests' \subseteq StoredRequests /\ PendingRequests' \subseteq PendingRequests
           \/ ResolutionNext
           \/ \E l \in LeafId : AbortUnsubmitted(l) \/ \E paths \in SUBSET Path : Propose(l, paths)
<1> DEFINE Kept == \A r \in Request : proposals'[r] # None => proposals[r] # None
<1>1. ASSUME Kept, UNCHANGED captured
      PROVE  StoredRequests' \subseteq StoredRequests /\ PendingRequests' \subseteq PendingRequests
  <2>1. StoredRequests' \subseteq StoredRequests
    BY <1>1 DEF StoredRequests
  <2>2. ASSUME NEW r \in Request, Pending(r)'
        PROVE  Pending(r)
    <3>1. RowStep(r)
      BY <2>2, RowSteps DEF IInv
    <3>2. captured'[r] # None
      BY <2>2, IInvStep DEF IInv, RequestsOK
    <3> QED
      BY <1>1, <3>1, <3>2 DEF RowStep
  <2> QED
    BY <2>1, <2>2 DEF PendingRequests
<1>2. CASE UNCHANGED <<proposals, captured>>
  BY <1>1, <1>2
<1>3. CASE CreateLeaf
  BY <1>2, <1>3 DEF CreateLeaf
<1>4. CASE PruneHistory
  BY <1>1, <1>4 DEF PruneHistory
<1>5. ASSUME NEW l \in LeafId, DropLeaf(l)
      PROVE  Kept /\ UNCHANGED captured
  BY <1>5 DEF DropLeaf, Pending
<1>6. ASSUME NEW r \in Request, BeginPrepare(r) \/ Abort(r)
      PROVE  Kept /\ UNCHANGED captured
  BY <1>6 DEF BeginPrepare, Abort, Pending, Typed, TypeOK
<1>7. ASSUME NEW c \in prepares, PinCandidate(c) \/ ReadyCandidate(c)
      PROVE  Kept /\ UNCHANGED captured
  BY <1>7 DEF PinCandidate, ReadyCandidate, Pending, Typed, TypeOK
<1>8. ASSUME NEW members \in SUBSET PendingRequests, BeginPrepareBatch(members)
      PROVE  Kept /\ UNCHANGED captured
  BY <1>8 DEF BeginPrepareBatch, PendingRequests, Pending
<1>9. ASSUME NEW b \in batchPrepares, PinBatch(b) \/ ReadyBatch(b)
      PROVE  Kept /\ UNCHANGED captured
  BY <1>9 DEF PinBatch, ReadyBatch, SetCandidate, InBatch, Pending
<1>10. ASSUME NEW members \in SUBSET PendingRequests, NEW root, Publish(members, root)
       PROVE  Kept
  BY <1>10 DEF Publish, PendingRequests, Pending
<1>11. ASSUME NEW c \in commits, Commit(c)
       PROVE  Kept /\ UNCHANGED captured
  <2>1. Publishes({c.request}, c.root)
    BY <1>11, CommitPublishes
  <2> QED
    BY <1>10, <1>11, <2>1 DEF Commit, Publishes
<1>12. ASSUME NEW b \in batchCommits, CommitBatch(b)
       PROVE  Kept /\ UNCHANGED captured
  BY <1>10, <1>12, CommitBatchPublishes DEF CommitBatch, Publishes
<1> HIDE DEF Kept
<1> QED
  BY <1>1, <1>2, <1>3, <1>4, <1>5, <1>6, <1>7, <1>8, <1>9, <1>11, <1>12, RequestSteps DEF vars

\* The rows that may stay after a step.
LEMMA BoundsKept ==
    ASSUME HistoryBounded, StoredRequests' \subseteq StoredRequests,
           PendingRequests' \subseteq PendingRequests, StoredEpochs' \subseteq StoredEpochs
    PROVE  HistoryBounded'
<1>1. /\ Cardinality(StoredRequests') <= Cardinality(StoredRequests)
      /\ Cardinality(PendingRequests') <= Cardinality(PendingRequests)
      /\ Cardinality(StoredEpochs') <= Cardinality(StoredEpochs)
      /\ {Cardinality(StoredRequests'), Cardinality(StoredRequests), Cardinality(PendingRequests'),
          Cardinality(PendingRequests), Cardinality(StoredEpochs'), Cardinality(StoredEpochs)} \subseteq Nat
  BY TablesFinite, FS_Subset, FS_CardinalityType
<1>2. MaxPending \in Nat /\ RequestBudget \in Nat /\ EpochBudget \in Nat
  BY CountersAssumption DEF RequestBudget, EpochBudget
<1> QED
  BY <1>1, <1>2 DEF HistoryBounded, RequestBudget, EpochBudget

\* Admission leaves room for the one row it admits.
LEMMA AdmittedFits ==
    ASSUME HistoryBounded, AdmitProposal, NEW r, StoredEpochs' = StoredEpochs,
           StoredRequests' \subseteq StoredRequests \cup {r},
           \/ PendingRequests' \subseteq PendingRequests
           \/ PendingRequests' \subseteq PendingRequests \cup {r} /\ Cardinality(PendingRequests) < MaxPending
           \/ \E s \in PendingRequests : PendingRequests' \subseteq (PendingRequests \ {s}) \cup {r}
    PROVE  HistoryBounded'
<1> DEFINE P == Cardinality(PendingRequests)
           Q == Cardinality(PendingRequests')
<1>1. /\ Cardinality(StoredRequests') \in Nat
      /\ Cardinality(StoredRequests) \in Nat
      /\ Cardinality(StoredRequests') <= Cardinality(StoredRequests) + 1
  BY TablesFinite, GrowsByOne
<1>2. /\ P \in Nat /\ Q \in Nat
      /\ Q <= P \/ (Q <= P + 1 /\ P < MaxPending)
  <2>1. CASE PendingRequests' \subseteq PendingRequests
    BY <2>1, TablesFinite, FS_Subset, FS_CardinalityType
  <2>2. CASE PendingRequests' \subseteq PendingRequests \cup {r} /\ P < MaxPending
    BY <2>2, TablesFinite, GrowsByOne
  <2>3. ASSUME NEW s \in PendingRequests, PendingRequests' \subseteq (PendingRequests \ {s}) \cup {r}
        PROVE  P \in Nat /\ Q \in Nat /\ Q <= P
    <3> DEFINE rest == PendingRequests \ {s}
    <3>1. /\ IsFiniteSet(rest) /\ Cardinality(rest) \in Nat /\ P \in Nat
          /\ Cardinality(rest) + 1 <= P
      BY TablesFinite, ShrinksByOne
    <3>2. PendingRequests' \subseteq rest \cup {r}
      BY <2>3
    <3> HIDE DEF rest
    <3>3. Q \in Nat /\ Q <= Cardinality(rest) + 1
      BY <3>1, <3>2, GrowsByOne
    <3> QED
      BY <3>1, <3>3
  <2> QED
    BY <2>1, <2>2, <2>3
<1>3. Cardinality(StoredEpochs) \in Nat
  BY TablesFinite, FS_CardinalityType
<1>4. MaxPending \in Nat /\ RequestBudget \in Nat /\ EpochBudget \in Nat
  BY CountersAssumption DEF RequestBudget, EpochBudget
<1>5. /\ P <= MaxPending
      /\ Cardinality(StoredRequests) < RequestBudget
      /\ Cardinality(StoredEpochs) + P < EpochBudget
  BY DEF HistoryBounded, AdmitProposal
<1> HIDE DEF P, Q
<1>6. /\ Q <= MaxPending
      /\ Cardinality(StoredRequests') <= RequestBudget
      /\ Cardinality(StoredEpochs) + Q <= EpochBudget
  BY <1>1, <1>2, <1>3, <1>4, <1>5
<1> QED
  BY <1>6 DEF HistoryBounded, Q, RequestBudget, EpochBudget

\* A published request gives its place to its epoch.
LEMMA PublishedFits ==
    ASSUME Typed, IInv, [Next]_vars, HistoryBounded,
           NEW members \in SUBSET Request, NEW root \in Snapshot, Publishes(members, root)
    PROVE  HistoryBounded'
<1>1. PICK r \in members : r \in PendingRequests
  BY DEF Publishes
<1>2. ~ResolutionNext /\ \A l \in LeafId, paths \in SUBSET Path : ~AbortUnsubmitted(l) /\ ~Propose(l, paths)
  <2>1. tip' = tip + 1 /\ tip \in Version
    BY PublishedRows DEF Typed, TypeOK
  <2>2. tip' # tip
    BY <2>1 DEF Version
  <2> QED
    BY <2>2 DEF ResolutionNext, Resolve, AbortUnsubmitted, Propose
<1>3. StoredRequests' \subseteq StoredRequests /\ PendingRequests' \subseteq PendingRequests
  BY <1>2, StoredSteps
<1>4. r \notin PendingRequests'
  BY <1>1, PublishedRows DEF PendingRequests, Pending
<1>5. StoredEpochs' \subseteq StoredEpochs \cup {tip + 1}
  BY DEF Publishes, Publish, StoredEpochs, Typed, TypeOK
<1>6. /\ Cardinality(StoredRequests') <= Cardinality(StoredRequests)
      /\ Cardinality(StoredRequests') \in Nat /\ Cardinality(StoredRequests) \in Nat
  BY <1>3, TablesFinite, FS_Subset, FS_CardinalityType
<1>7. /\ Cardinality(PendingRequests') + 1 <= Cardinality(PendingRequests)
      /\ Cardinality(PendingRequests') \in Nat /\ Cardinality(PendingRequests) \in Nat
  <2>1. PendingRequests' \subseteq PendingRequests \ {r}
    BY <1>3, <1>4
  <2> QED
    BY <1>1, <2>1, TablesFinite, ShrinksByOne
<1>8. /\ Cardinality(StoredEpochs') <= Cardinality(StoredEpochs) + 1
      /\ Cardinality(StoredEpochs') \in Nat /\ Cardinality(StoredEpochs) \in Nat
  BY <1>5, TablesFinite, GrowsByOne
<1>9. MaxPending \in Nat /\ RequestBudget \in Nat /\ EpochBudget \in Nat
  BY CountersAssumption DEF RequestBudget, EpochBudget
<1> QED
  BY <1>6, <1>7, <1>8, <1>9 DEF HistoryBounded, RequestBudget, EpochBudget

\* Each operation keeps the tables within their budgets.
LEMMA HistoryStep ==
    ASSUME Typed, IInv, HistoryBounded, [Next]_vars
    PROVE  HistoryBounded'
<1>1. ASSUME NEW members \in SUBSET Request, NEW root \in Snapshot, Publishes(members, root)
      PROVE  HistoryBounded'
  BY <1>1, PublishedFits
<1>2. CASE StoredEpochs' \subseteq StoredEpochs /\ StoredRequests' \subseteq StoredRequests
              /\ PendingRequests' \subseteq PendingRequests
  BY <1>2, BoundsKept
<1>3. ASSUME NEW r \in Request, AdmitProposal, UNCHANGED epochs,
             \A s \in Request : s # r /\ proposals'[s] # None =>
                proposals[s] # None /\ proposals'[s].state \in {proposals[s].state, "aborted"},
             \/ ~Pending(r)'
             \/ Cardinality(PendingRequests) < MaxPending
             \/ \E s \in PendingRequests : ~Pending(s)'
      PROVE  HistoryBounded'
  <2>2. StoredEpochs' = StoredEpochs
    BY <1>3 DEF StoredEpochs
  <2>3. StoredRequests' \subseteq StoredRequests \cup {r}
    BY <1>3 DEF StoredRequests
  <2>4. PendingRequests' \subseteq PendingRequests \cup {r}
    BY <1>3 DEF PendingRequests, Pending
  <2>5. ~Pending(r)' => PendingRequests' \subseteq PendingRequests
    BY <2>4 DEF PendingRequests
  <2>6. ASSUME NEW s \in PendingRequests, ~Pending(s)'
        PROVE  PendingRequests' \subseteq (PendingRequests \ {s}) \cup {r}
    BY <2>4, <2>6 DEF PendingRequests
  <2> QED
    BY <1>3, <2>2, <2>3, <2>4, <2>5, <2>6, AdmittedFits
<1>4. ASSUME NEW l \in LeafId, AbortUnsubmitted(l)
      PROVE  HistoryBounded'
  <2>1. Active(l) /\ AdmitProposal /\ UNCHANGED epochs
    BY <1>4 DEF AbortUnsubmitted
  <2>2. PICK r \in Request : r = <<l, leaves[l]>>
    BY <2>1 DEF Active, Typed, TypeOK, Request
  <2>5. proposals' = [proposals EXCEPT ![r] = Retired(NewProposal(None))]
    BY <1>4, <2>2 DEF AbortUnsubmitted
  <2>3. proposals'[r].state = "aborted" /\ \A s \in Request : s # r => proposals'[s] = proposals[s]
    BY <2>5, NewProposalType, RetiredType DEF Typed, TypeOK
  <2>4. ~Pending(r)'
    BY <2>3 DEF Pending
  <2> QED
    BY <1>3, <2>1, <2>3, <2>4
<1>5. ASSUME NEW l \in LeafId, NEW paths \in SUBSET Path, Propose(l, paths)
      PROVE  HistoryBounded'
  <2>1. PICK r \in Request : r = <<l, leaves[l]>>
    BY <1>5 DEF Propose, Active, Typed, TypeOK, Request
  <2>2. \A s \in Request : s # r => proposals'[s] = proposals[s]
    BY <1>5, <2>1 DEF Propose, Typed, TypeOK
  <2> QED
    BY <1>3, <1>5, <2>2 DEF Propose
<1>6. CASE ResolutionNext
  <2>1. PICK l \in LeafId : \E sources \in SUBSET {s \in PendingRequests : s[1] = l} :
           \E choices \in [SourcePaths(sources) -> sources] : Resolve(l, sources, choices)
    BY <1>6 DEF ResolutionNext
  <2>2. PICK sources \in SUBSET {s \in PendingRequests : s[1] = l} :
           \E choices \in [SourcePaths(sources) -> sources] : Resolve(l, sources, choices)
    BY <2>1
  <2>8. PICK r \in Request : r = <<l, leaves[l]>>
    BY <2>2 DEF Resolve, Active, Typed, TypeOK, Request
  <2>3. /\ AdmitProposal /\ UNCHANGED epochs /\ sources # {}
        /\ proposals[r] = None
        /\ \A s \in Request : s # r =>
            proposals'[s] = IF s \in sources THEN Retired(proposals[s]) ELSE proposals[s]
    BY <2>2, <2>8 DEF Resolve
  <2>4. \A s \in sources : s \in Request /\ Pending(s) /\ s \in PendingRequests /\ s # r
    BY <2>3 DEF PendingRequests, Pending
  <2>5. \A s \in sources : proposals'[s].state = "aborted" /\ proposals[s] # None
    BY <2>3, <2>4, PendingType, RetiredType DEF Pending
  <2>6. \A s \in sources : ~Pending(s)'
    BY <2>5 DEF Pending
  <2>7. \A s \in Request : s # r /\ proposals'[s] # None =>
            proposals[s] # None /\ proposals'[s].state \in {proposals[s].state, "aborted"}
    BY <2>3, <2>5
  <2> QED
    BY <1>3, <2>3, <2>4, <2>6, <2>7
<1>7. CASE UNCHANGED epochs \/ PruneHistory
  <2>1. StoredEpochs' \subseteq StoredEpochs
    BY <1>7 DEF PruneHistory, KeptEpochs, StoredEpochs
  <2> QED
    BY <1>2, <1>4, <1>5, <1>6, <2>1, StoredSteps
<1>8. ASSUME NEW c \in commits, Commit(c)
      PROVE  HistoryBounded'
  <2>1. Publishes({c.request}, c.root)
    BY <1>8, CommitPublishes
  <2>2. {c.request} \in SUBSET Request /\ c.root \in Snapshot
    BY <2>1 DEF Publishes, PendingRequests
  <2> QED
    BY <1>1, <2>1, <2>2
<1>9. ASSUME NEW b \in batchCommits, CommitBatch(b)
      PROVE  HistoryBounded'
  <2>1. Publishes(b.members, b.root)
    BY <1>9, CommitBatchPublishes
  <2>2. b.members \in SUBSET Request /\ b.root \in Snapshot
    BY <2>1 DEF Publishes, PendingRequests
  <2> QED
    BY <1>1, <2>1, <2>2
<1> QED
  BY <1>7, <1>8, <1>9, VersionSteps DEF vars

\* Between two maintenance passes no table outgrows its budget, whatever mix of
\* proposals, resolutions and commits arrives: admission counts a pending
\* request as the epoch it may become (publication.rs admit_proposal).
THEOREM HistoryIsBounded == Spec => []HistoryBounded
<1>1. Init => HistoryBounded
  <2> SUFFICES ASSUME Init PROVE HistoryBounded
    OBVIOUS
  <2>1. PendingRequests = {} /\ StoredRequests = {}
    BY DEF Init, PendingRequests, StoredRequests, Pending
  <2>2. StoredEpochs \subseteq {0} \cup {1}
    BY DEF Init, StoredEpochs, Imported
  <2>3. IsFiniteSet({0}) /\ Cardinality({0}) = 1
    BY FS_Singleton
  <2>4. Cardinality(StoredEpochs) \in Nat /\ Cardinality(StoredEpochs) <= 2
    <3> DEFINE zero == {0}
    <3>1. IsFiniteSet(zero) /\ Cardinality(zero) = 1 /\ StoredEpochs \subseteq zero \cup {1}
      BY <2>2, <2>3
    <3> HIDE DEF zero
    <3>2. Cardinality(StoredEpochs) \in Nat /\ Cardinality(StoredEpochs) <= Cardinality(zero) + 1
      BY <3>1, GrowsByOne
    <3> QED
      BY <3>1, <3>2
  <2>5. Cardinality(PendingRequests) = 0 /\ Cardinality(StoredRequests) = 0
    BY <2>1, FS_EmptySet
  <2>6. {MaxPending, RetainedEpochs, RetainedReceipts} \subseteq Nat \ {0}
    BY CountersAssumption
  <2>7. 2 <= EpochBudget /\ 0 <= RequestBudget
    BY <2>6 DEF EpochBudget, RequestBudget
  <2>8. EpochBudget \in Nat
    BY <2>6 DEF EpochBudget
  <2> HIDE DEF EpochBudget
  <2> QED
    BY <2>4, <2>5, <2>6, <2>7, <2>8 DEF HistoryBounded
<1>2. Typed /\ IInv /\ HistoryBounded /\ [Next]_vars => HistoryBounded'
  BY HistoryStep
<1> QED
  BY <1>1, <1>2, AlwaysIInv, PTL DEF Spec
-----------------------------------------------------------------------------
(* Pruning *)

\* Ranked from the newest, the k newest members of a set of versions have
\* different ranks below k.
LEMMA NewestAreFew ==
    ASSUME NEW S \in SUBSET Version, NEW k \in Nat
    PROVE  Cardinality({v \in S : Cardinality({u \in S : u > v}) < k}) <= k
<1> DEFINE Above(v) == {u \in S : u > v}
           Newest == {v \in S : Cardinality(Above(v)) < k}
           rank == [v \in Newest |-> Cardinality(Above(v))]
<1>1. IsFiniteSet(S) /\ \A v \in S : v \in Int
  <2>1. IsFiniteSet(S)
    BY TablesFinite, FS_Subset
  <2>2. \A v \in Version : v \in Int
    BY DEF Version
  <2> QED
    BY <2>1, <2>2
<1>2. \A v \in S : IsFiniteSet(Above(v)) /\ Cardinality(Above(v)) \in Nat
  BY <1>1, FS_Subset, FS_CardinalityType
<1>3. ASSUME NEW v \in S, NEW w \in S, v < w
      PROVE  Cardinality(Above(w)) < Cardinality(Above(v))
  <2>1. Above(w) \subseteq Above(v) \ {w} /\ w \in Above(v)
    BY <1>1, <1>3
  <2>2. IsFiniteSet(Above(v))
    BY <1>2
  <2> HIDE DEF Above
  <2> QED
    BY <2>1, <2>2, ShrinksByOne
<1>4. k - 1 \in Int /\ 0 \in Int
  OBVIOUS
<1>5. IsFiniteSet(0..k - 1) /\ Cardinality(0..k - 1) = IF 0 > k - 1 THEN 0 ELSE k - 1 - 0 + 1
  BY <1>4, FS_Interval
<1>6. rank \in Injection(Newest, 0..k - 1)
  <2>1. rank \in [Newest -> 0..k - 1]
    BY <1>2
  <2>2. ASSUME NEW v \in Newest, NEW w \in Newest, rank[v] = rank[w]
        PROVE  v = w
    <3>1. v \in S /\ w \in S /\ v \in Int /\ w \in Int
      BY <1>1
    <3>2. Cardinality(Above(v)) = Cardinality(Above(w))
      BY <2>2
    <3>3. Cardinality(Above(v)) \in Nat /\ Cardinality(Above(w)) \in Nat
      BY <1>2, <3>1
    <3>4. ~(v < w) /\ ~(w < v)
      BY <1>3, <3>1, <3>2, <3>3
    <3> QED
      BY <3>1, <3>4
  <2> HIDE DEF rank, Newest
  <2> QED
    BY <2>1, <2>2 DEF Injection, IsInjective
<1>7. Cardinality(Newest) <= Cardinality(0..k - 1)
  <2> HIDE DEF rank, Newest
  <2> QED
    BY <1>5, <1>6, FS_Injection
<1>8. Cardinality(Newest) <= k
  <2> HIDE DEF Newest
  <2> QED
    BY <1>5, <1>7
<1> QED
  BY <1>8

\* The manual pins stay within their table.
PinsBounded == Cardinality(retained) <= MaxPending

\* retain counts before it inserts; nothing else adds a pin.
LEMMA PinsStep ==
    ASSUME Typed, PinsBounded, [Next]_vars
    PROVE  PinsBounded'
<1>0. IsFiniteSet(retained) /\ Cardinality(retained) \in Nat /\ MaxPending \in Nat
  BY TablesFinite, FS_Subset, FS_CardinalityType, CountersAssumption DEF Typed, TypeOK
<1>1. ASSUME NEW v \in Version, Retain(v)
      PROVE  PinsBounded'
  <2>1. CASE v \in retained
    <3>1. retained' = retained
      BY <1>1, <2>1 DEF Retain
    <3> QED
      BY <3>1 DEF PinsBounded
  <2>2. CASE Cardinality(retained) < MaxPending
    <3>1. Cardinality(retained') <= Cardinality(retained) + 1 /\ Cardinality(retained') \in Nat
      BY <1>0, <1>1, GrowsByOne DEF Retain
    <3> QED
      BY <1>0, <2>2, <3>1 DEF PinsBounded
  <2> QED
    BY <1>1, <2>1, <2>2 DEF Retain
<1>2. ASSUME NEW v \in Version, ReleaseRetention(v)
      PROVE  PinsBounded'
  <2>1. Cardinality(retained') <= Cardinality(retained) /\ Cardinality(retained') \in Nat
    BY <1>0, <1>2, FS_Subset, FS_CardinalityType DEF ReleaseRetention
  <2> QED
    BY <1>0, <2>1 DEF PinsBounded
<1>3. CASE UNCHANGED retained
  BY <1>3 DEF PinsBounded
<1>4. UploadNext => UNCHANGED retained
  BY DEF UploadNext, CreateLeaf, BeginStage, DiscardUpload, StorePayload, FinishStage, FailStage
<1>5. LeaseNext => UNCHANGED retained
  BY DEF LeaseNext, DropLeaf, Acquire, Activate, Release, Revoke, Withdraw, Edit, Discard
<1>6. PublicationNext => UNCHANGED retained
  BY DEF PublicationNext, AbortUnsubmitted, Propose, BeginPrepare, CheckCommit, Abort,
     PinCandidate, StoreCandidate, ReadyCandidate, FailPrepare, VerifyCommit, Commit, FailCommit
<1>7. BatchNext => UNCHANGED retained
  BY DEF BatchNext, BeginPrepareBatch, CheckCommitBatch, PinBatch, StoreBatch, ReadyBatch,
     FailPrepareBatch, VerifyCommitBatch, CommitBatch, FailCommitBatch
<1>8. ResolutionNext => UNCHANGED retained
  BY DEF ResolutionNext, Resolve
<1>9. PruneHistory \/ Collect \/ InterruptedCollect \/ (\E new \in SUBSET Object : ReplaceClientPins(new))
        => UNCHANGED retained
  BY DEF PruneHistory, Collect, InterruptedCollect, ReplaceClientPins
<1> QED
  BY <1>1, <1>2, <1>3, <1>4, <1>5, <1>6, <1>7, <1>8, <1>9 DEF Next, MaintenanceNext, vars

\* What pruning keeps fits the budgets, with room for one more request.
LEMMA PrunedFits ==
    ASSUME Typed, IInv, HistoryBounded, PinsBounded, PruneHistory,
           Cardinality(PendingRequests) < MaxPending
    PROVE  AdmitProposal'
<1> DEFINE P == Cardinality(PendingRequests)
           Newest == {v \in StoredEpochs : Cardinality({u \in StoredEpochs : u > v}) < RetainedEpochs}
           Bases == {proposals[r].capturedAt : r \in PendingRequests}
           Parents == {proposals[r].parent : r \in PendingRequests}
           base == [r \in PendingRequests |-> proposals[r].capturedAt]
           parent == [r \in PendingRequests |-> proposals[r].parent]
<1>1. PICK kept \in SUBSET CommittedRequests :
         /\ KeepsNewestReceipts(kept)
         /\ proposals' = [r \in Request |-> IF r \in kept \cup PendingRequests THEN proposals[r] ELSE None]
  BY DEF PruneHistory
<1>2. \A n \in {MaxPending, RetainedEpochs, RetainedReceipts} : n \in Nat /\ n > 0
  BY CountersAssumption
<1>3. IsFiniteSet(kept) /\ Cardinality(kept) \in Nat /\ Cardinality(kept) <= RetainedReceipts
  <2>1. IsFiniteSet(CommittedRequests)
    BY TablesFinite, FS_Subset DEF CommittedRequests
  <2>2. Cardinality(CommittedRequests) \in Nat /\ IsFiniteSet(kept) /\ Cardinality(kept) \in Nat
    BY <2>1, FS_Subset, FS_CardinalityType
  <2> QED
    BY <1>1, <1>2, <2>2 DEF KeepsNewestReceipts
<1>4. P \in Nat /\ IsFiniteSet(PendingRequests) /\ P < MaxPending
  BY TablesFinite, FS_CardinalityType
<1>5. Cardinality(StoredRequests') \in Nat /\ Cardinality(StoredRequests') <= RetainedReceipts + P
  <2>1. StoredRequests' \subseteq kept \cup PendingRequests
    BY <1>1 DEF StoredRequests
  <2>2. /\ IsFiniteSet(kept \cup PendingRequests)
        /\ Cardinality(kept \cup PendingRequests) =
              Cardinality(kept) + P - Cardinality(kept \cap PendingRequests)
    BY <1>3, <1>4, FS_Union
  <2>3. Cardinality(kept \cap PendingRequests) \in Nat
    BY <1>3, FS_Intersection, FS_CardinalityType
  <2>4. /\ Cardinality(StoredRequests') <= Cardinality(kept \cup PendingRequests)
        /\ Cardinality(StoredRequests') \in Nat
        /\ Cardinality(kept \cup PendingRequests) \in Nat
    BY <2>1, <2>2, FS_Subset, FS_CardinalityType
  <2> HIDE DEF P
  <2> QED
    BY <1>2, <1>3, <1>4, <2>2, <2>3, <2>4
<1>6. PendingRequests' = PendingRequests
  <2>1. \A r \in Request : Pending(r) => proposals'[r] = proposals[r]
    BY <1>1 DEF PendingRequests
  <2>2. \A r \in Request : proposals'[r] \in {proposals[r], None}
    BY <1>1
  <2> QED
    BY <2>1, <2>2 DEF PendingRequests, Pending
<1>7. StoredEpochs' \subseteq (Newest \cup retained) \cup (Bases \cup Parents)
  BY DEF PruneHistory, KeptEpochs, StoredEpochs
<1>8. IsFiniteSet(Newest) /\ Cardinality(Newest) \in Nat /\ Cardinality(Newest) <= RetainedEpochs
  <2>1. StoredEpochs \in SUBSET Version /\ RetainedEpochs \in Nat
    BY <1>2 DEF StoredEpochs
  <2>2. IsFiniteSet(Newest) /\ Cardinality(Newest) \in Nat
    BY TablesFinite, FS_Subset, FS_CardinalityType
  <2> QED
    BY <2>1, <2>2, NewestAreFew
<1>9. IsFiniteSet(retained) /\ Cardinality(retained) \in Nat /\ Cardinality(retained) <= MaxPending
  BY TablesFinite, FS_Subset, FS_CardinalityType DEF Typed, TypeOK, PinsBounded
<1>10. IsFiniteSet(Bases) /\ Cardinality(Bases) \in Nat /\ Cardinality(Bases) <= P
  <2>1. base \in Surjection(PendingRequests, Bases)
    BY DEF Surjection
  <2> HIDE DEF base, Bases
  <2> QED
    BY <1>4, <2>1, FS_Surjection, FS_CardinalityType
<1>11. IsFiniteSet(Parents) /\ Cardinality(Parents) \in Nat /\ Cardinality(Parents) <= P
  <2>1. parent \in Surjection(PendingRequests, Parents)
    BY DEF Surjection
  <2> HIDE DEF parent, Parents
  <2> QED
    BY <1>4, <2>1, FS_Surjection, FS_CardinalityType
<1> HIDE DEF Newest, Bases, Parents, base, parent
<1>12. ASSUME NEW S, NEW T, IsFiniteSet(S), IsFiniteSet(T)
       PROVE  /\ IsFiniteSet(S \cup T) /\ Cardinality(S \cup T) \in Nat
              /\ Cardinality(S \cup T) <= Cardinality(S) + Cardinality(T)
  <2>1. /\ IsFiniteSet(S \cup T)
        /\ Cardinality(S \cup T) = Cardinality(S) + Cardinality(T) - Cardinality(S \cap T)
    BY <1>12, FS_Union
  <2>2. Cardinality(S \cap T) \in Nat /\ Cardinality(S) \in Nat /\ Cardinality(T) \in Nat
    BY <1>12, FS_Intersection, FS_CardinalityType
  <2>3. Cardinality(S \cup T) \in Nat
    BY <2>1, FS_CardinalityType
  <2> QED
    BY <2>1, <2>2, <2>3
<1>13. /\ IsFiniteSet(Newest \cup retained) /\ Cardinality(Newest \cup retained) \in Nat
       /\ Cardinality(Newest \cup retained) <= Cardinality(Newest) + Cardinality(retained)
  BY <1>8, <1>9, <1>12
<1>14. /\ IsFiniteSet(Bases \cup Parents) /\ Cardinality(Bases \cup Parents) \in Nat
       /\ Cardinality(Bases \cup Parents) <= Cardinality(Bases) + Cardinality(Parents)
  BY <1>10, <1>11, <1>12
<1>15. LET all == (Newest \cup retained) \cup (Bases \cup Parents)
       IN  /\ IsFiniteSet(all) /\ Cardinality(all) \in Nat
           /\ Cardinality(all) <= Cardinality(Newest \cup retained) + Cardinality(Bases \cup Parents)
  BY <1>12, <1>13, <1>14
<1>16. /\ Cardinality(StoredEpochs') \in Nat
       /\ Cardinality(StoredEpochs') <= Cardinality((Newest \cup retained) \cup (Bases \cup Parents))
  BY <1>7, <1>15, FS_Subset, FS_CardinalityType
<1>17. Cardinality(StoredEpochs') <= RetainedEpochs + MaxPending + P + P
  <2> HIDE DEF P
  <2> QED
    BY <1>2, <1>4, <1>8, <1>9, <1>10, <1>11, <1>13, <1>14, <1>15, <1>16
<1>18. /\ RetainedReceipts + P < 2 * RetainedReceipts + MaxPending
       /\ RetainedEpochs + MaxPending + P + P + P < RetainedEpochs + 4 * MaxPending + 2 * RetainedReceipts
  <2> HIDE DEF P
  <2> QED
    BY <1>2, <1>4
<1>19. Cardinality(PendingRequests') = P
  BY <1>6
<1> HIDE DEF P
<1>20. Cardinality(StoredRequests') < 2 * RetainedReceipts + MaxPending
  BY <1>2, <1>4, <1>5, <1>18
<1>21. Cardinality(StoredEpochs') + P < RetainedEpochs + 4 * MaxPending + 2 * RetainedReceipts
  BY <1>2, <1>4, <1>16, <1>17, <1>18
<1> QED
  BY <1>19, <1>20, <1>21 DEF AdmitProposal, RequestBudget, EpochBudget

\* The only step that begins a sweep is pruning.
LEMMA SweepsGrow ==
    ASSUME Typed, [Next]_vars, sweeps' = sweeps + 1
    PROVE  PruneHistory
<1>1. sweeps \in Nat
  BY DEF Typed, TypeOK
<1>2. sweeps' # sweeps /\ sweeps' # sweeps - 1
  BY <1>1
<1>3. ~UploadNext
  BY <1>2 DEF UploadNext, CreateLeaf, BeginStage, DiscardUpload, StorePayload, FinishStage, FailStage
<1>4. ~LeaseNext
  BY <1>2 DEF LeaseNext, DropLeaf, Acquire, Activate, Release, Revoke, Withdraw, Edit, Discard
<1>5. ~PublicationNext
  BY <1>2 DEF PublicationNext, AbortUnsubmitted, Propose, BeginPrepare, CheckCommit, Abort,
     PinCandidate, StoreCandidate, ReadyCandidate, FailPrepare, VerifyCommit, Commit, FailCommit
<1>6. ~BatchNext
  BY <1>2 DEF BatchNext, BeginPrepareBatch, CheckCommitBatch, PinBatch, StoreBatch, ReadyBatch,
     FailPrepareBatch, VerifyCommitBatch, CommitBatch, FailCommitBatch
<1>7. ~ResolutionNext
  BY <1>2 DEF ResolutionNext, Resolve
<1>8. MaintenanceNext => PruneHistory
  BY <1>2 DEF MaintenanceNext, Retain, ReleaseRetention, ReplaceClientPins, Collect, InterruptedCollect
<1> QED
  BY <1>2, <1>3, <1>4, <1>5, <1>6, <1>7, <1>8 DEF Next, vars

\* The budgets hold together with the bound on manual pins, which pruning needs.
LEMMA AlwaysBounded == Spec => [](Typed /\ IInv /\ HistoryBounded /\ PinsBounded)
<1>1. Init => PinsBounded
  <2> SUFFICES ASSUME Init PROVE PinsBounded
    OBVIOUS
  <2>1. Cardinality(retained) = 0 /\ MaxPending \in Nat
    BY FS_EmptySet, CountersAssumption DEF Init
  <2> QED
    BY <2>1 DEF PinsBounded
<1>2. Typed /\ IInv /\ PinsBounded /\ [Next]_vars => PinsBounded'
  BY PinsStep
<1> QED
  BY <1>1, <1>2, AlwaysIInv, HistoryIsBounded, PTL DEF Spec

\* The step that prunes leaves room for one more request, unless max_pending
\* requests are pending already (maintenance.rs prune_epochs, prune_receipts).
THEOREM PruningMakesRoom == Spec => PruningRestoresAdmission
<1>1. ASSUME Typed, IInv, HistoryBounded, PinsBounded, [Next]_vars
      PROVE  [sweeps' = sweeps + 1 /\ Cardinality(PendingRequests) < MaxPending
                => AdmitProposal']_vars
  BY <1>1, SweepsGrow, PrunedFits
<1> QED
  BY <1>1, AlwaysBounded, PTL DEF Spec, PruningRestoresAdmission
-----------------------------------------------------------------------------
(* Files *)

\* The payload a value names is in the store.
In(store, value) == value # None => value.object \in store

EpochsKept == \A v \in Version : epochs[v] # None => Readable(epochs[v])
CandidatesKept == \A r \in Request : Pending(r) /\ proposals[r].ready => Readable(proposals[r].root)
ViewsKept ==
    \A k \in LeafId \X Path : views[k] # None => In(objects, views[k].origin) /\ In(objects, views[k].value)
LeasesKept == \A p \in Path : leases[p] # None => In(objects, leases[p].origin)
BodiesKept ==
    \A r \in Request, p \in Path : Pending(r) /\ proposals[r].body[p] # None =>
        In(objects, proposals[r].body[p].origin) /\ In(objects, proposals[r].body[p].value)
UploadsKept == \A k \in LeafId \X Object : uploads[k] # None /\ uploads[k].ready => k[2] \in objects
PinsKept == pins \subseteq objects

\* What the retention promise says, table by table.
FilesOK ==
    EpochsKept /\ CandidatesKept /\ ViewsKept /\ LeasesKept /\ BodiesKept /\ UploadsKept /\ PinsKept

\* A generation is drawn once, so the stage call that still owns its row found
\* the row pinned all along: what it stored is still there.
StagesOK ==
    /\ \A k \in LeafId \X Object : uploads[k] # None => uploads[k].generation < nextToken
    /\ \A s \in stages :
        /\ s.generation < nextToken
        /\ /\ s.stored
           /\ uploads[<<s.leaf, s.object>>] # None
           /\ uploads[<<s.leaf, s.object>>].generation = s.generation
           => s.object \in objects

\* A call of the current attempt that named its manifest finds it named, and
\* one that stored its manifest finds it stored.
StepsOK ==
    /\ \A c \in prepares : Pending(c.request) /\ c.attempt = proposals[c.request].attempt =>
        /\ c.step # "pin" => proposals[c.request].root = c.root
        /\ c.step = "ready" => c.root \in manifests
    /\ \A b \in batchPrepares : \A r \in b.members :
        Pending(r) => b.attempts[r] <= proposals[r].attempt
    /\ \A b \in batchPrepares : InBatch(b) /\ b.members # {} =>
        /\ b.step # "pin" => \A r \in b.members : proposals[r].root = b.root
        /\ b.step = "ready" => b.root \in manifests

Stored == FilesOK /\ StagesOK /\ StepsOK

\* The values collection takes for reachable, one by one.
LEMMA PinnedMembers ==
    ASSUME NEW value
    PROVE  value \in PinnedValues <=>
             \/ \E k \in LeafId \X Path : views[k] # None /\ value \in {views[k].origin, views[k].value}
             \/ \E p \in Path : leases[p] # None /\ value = leases[p].origin
             \/ \E r \in Request, p \in Path : /\ Pending(r) /\ proposals[r].body[p] # None
                    /\ value \in {proposals[r].body[p].origin, proposals[r].body[p].value}
<1> DEFINE OfView(k) == {views[k].origin, views[k].value}
           OfChange(r, p) == {proposals[r].body[p].origin, proposals[r].body[p].value}
           OfRow(r) == UNION {OfChange(r, p) : p \in Touched(proposals[r].body)}
           V == UNION {OfView(k) : k \in {j \in LeafId \X Path : views[j] # None}}
           L == {leases[p].origin : p \in {q \in Path : leases[q] # None}}
           B == UNION {OfRow(r) : r \in PendingRequests}
<1>1. PinnedValues = (V \cup L) \cup B
  BY DEF PinnedValues
<1>2. value \in V <=> \E k \in LeafId \X Path : views[k] # None /\ value \in OfView(k)
  <2> HIDE DEF OfView
  <2> QED
    OBVIOUS
<1>3. value \in L <=> \E p \in Path : leases[p] # None /\ value = leases[p].origin
  OBVIOUS
<1>4. value \in B <=> \E r \in Request : Pending(r) /\ value \in OfRow(r)
  <2> HIDE DEF OfRow
  <2> QED
    BY DEF PendingRequests
<1>5. \A r : value \in OfRow(r) <=> \E p \in Path : proposals[r].body[p] # None /\ value \in OfChange(r, p)
  <2> HIDE DEF OfChange
  <2> QED
    BY DEF Touched
<1> HIDE DEF V, L, B, OfRow
<1> QED
  BY <1>1, <1>2, <1>3, <1>4, <1>5

\* What collection leaves alone, one by one.
LEMMA ProtectedMembers ==
    /\ \A root \in ProtectedManifests \cap manifests : ObjectsOf(root) \subseteq ProtectedObjects
    /\ \A value \in PinnedValues : value # None => value.object \in ProtectedObjects
    /\ \A k \in LeafId \X Object : uploads[k] # None => k[2] \in ProtectedObjects
    /\ pins \subseteq ProtectedObjects
<1> DEFINE R == UNION {ObjectsOf(root) : root \in ProtectedManifests \cap manifests}
           V == {value.object : value \in PinnedValues \ {None}}
           U == {k[2] : k \in {j \in LeafId \X Object : uploads[j] # None}}
<1>1. ProtectedObjects = ((R \cup V) \cup U) \cup pins
  BY DEF ProtectedObjects
<1>2. \A root \in ProtectedManifests \cap manifests : ObjectsOf(root) \subseteq R
  OBVIOUS
<1>3. \A value \in PinnedValues : value # None => value.object \in V
  OBVIOUS
<1>4. \A k \in LeafId \X Object : uploads[k] # None => k[2] \in U
  OBVIOUS
<1> HIDE DEF R, V, U
<1> QED
  BY <1>1, <1>2, <1>3, <1>4

\* The promise, table by table, is the promise as stated.
LEMMA FilesArePinned ==
    ASSUME FilesOK
    PROVE  PinnedBytesPresent
<1>1. \A v \in StoredEpochs : Readable(epochs[v])
  BY DEF StoredEpochs, FilesOK, EpochsKept
<1>2. \A r \in PendingRequests : proposals[r].ready => Readable(proposals[r].root)
  BY DEF PendingRequests, FilesOK, CandidatesKept
<1>3. ASSUME NEW value \in PinnedValues, value # None
      PROVE  value.object \in objects
  <2>1. CASE \E k \in LeafId \X Path : views[k] # None /\ value \in {views[k].origin, views[k].value}
    BY <1>3, <2>1 DEF FilesOK, ViewsKept, In
  <2>2. CASE \E p \in Path : leases[p] # None /\ value = leases[p].origin
    BY <1>3, <2>2 DEF FilesOK, LeasesKept, In
  <2>3. CASE \E r \in Request, p \in Path : /\ Pending(r) /\ proposals[r].body[p] # None
                /\ value \in {proposals[r].body[p].origin, proposals[r].body[p].value}
    BY <1>3, <2>3 DEF FilesOK, BodiesKept, In
  <2> QED
    BY <1>3, <2>1, <2>2, <2>3, PinnedMembers
<1> QED
  BY <1>1, <1>2, <1>3 DEF PinnedBytesPresent, FilesOK, UploadsKept, PinsKept

\* A tree is decided by the version it is built on and what it applies.
LEMMA BuiltIsUnique ==
    ASSUME NEW members, NEW parent, NEW root \in Snapshot, NEW other \in Snapshot,
           Built(members, parent, root), Built(members, parent, other)
    PROVE  root = other
<1>1. ASSUME NEW p \in Path
      PROVE  root[p] = other[p]
  BY DEF Built, Applies
<1> QED
  BY <1>1 DEF Snapshot

\* The payloads of a candidate are its parent's and those its requests captured.
LEMMA BuiltIsPresent ==
    ASSUME Typed, IInv, FilesOK, NEW members \in SUBSET PendingRequests, NEW parent \in Version,
           NEW root \in Snapshot, Built(members, parent, root), epochs[parent] # None
    PROVE  ObjectsOf(root) \subseteq objects
<1>1. epochs[parent] \in Snapshot /\ epochs[parent] = history[parent].root /\ Readable(epochs[parent])
  BY DEF Typed, TypeOK, IInv, VersionsOK, FilesOK, EpochsKept
<1>2. ASSUME NEW p \in Path, root[p] # None
      PROVE  root[p].object \in objects
  <2>1. CASE root[p] = history[parent].root[p]
    <3>1. epochs[parent][p] # None
      BY <1>1, <1>2, <2>1
    <3> QED
      BY <1>1, <2>1, <3>1 DEF Readable, ObjectsOf, Present
  <2>2. ASSUME NEW r \in members, captured[r].changes[p] # None, root[p] = captured[r].changes[p].value
        PROVE  root[p].object \in objects
    <3>1. r \in Request /\ Pending(r) /\ captured[r].changes = proposals[r].body
      BY DEF PendingRequests, IInv, RequestsOK
    <3> QED
      BY <1>2, <2>2, <3>1 DEF FilesOK, BodiesKept, In
  <2> QED
    BY <2>1, <2>2 DEF Built, Applies, CapturedBy
<1> QED
  BY <1>2 DEF ObjectsOf, Present
-----------------------------------------------------------------------------
(* The unlinking itself *)

\* What a sweep leaves alone, and what it may take.
Sweeps ==
    /\ UNCHANGED <<leafVars, nextToken, leaseVars, uploadVars, versionVars, proposalVars, candidateVars,
                   retained, pins>>
    /\ objects \cap ProtectedObjects \subseteq objects'
    /\ manifests \cap ProtectedManifests \subseteq manifests'

\* Only collection unlinks.
LEMMA SweepSteps ==
    ASSUME [Next]_vars
    PROVE  Sweeps \/ (objects \subseteq objects' /\ manifests \subseteq manifests')
<1>1. Collect => Sweeps
  BY DEF Collect, Sweeps
<1>2. InterruptedCollect => Sweeps
  BY DEF InterruptedCollect, Sweeps
<1>3. UploadNext => objects \subseteq objects' /\ UNCHANGED manifests
  BY DEF UploadNext, CreateLeaf, BeginStage, DiscardUpload, StorePayload, FinishStage, FailStage
<1>4. LeaseNext => UNCHANGED <<objects, manifests>>
  BY DEF LeaseNext, DropLeaf, Acquire, Activate, Release, Revoke, Withdraw, Edit, Discard
<1>5. PublicationNext => UNCHANGED objects /\ manifests \subseteq manifests'
  BY DEF PublicationNext, AbortUnsubmitted, Propose, BeginPrepare, CheckCommit, Abort,
     PinCandidate, StoreCandidate, ReadyCandidate, FailPrepare, VerifyCommit, Commit, FailCommit
<1>6. BatchNext => UNCHANGED objects /\ manifests \subseteq manifests'
  BY DEF BatchNext, BeginPrepareBatch, CheckCommitBatch, PinBatch, StoreBatch, ReadyBatch,
     FailPrepareBatch, VerifyCommitBatch, CommitBatch, FailCommitBatch
<1>7. ResolutionNext => UNCHANGED <<objects, manifests>>
  BY DEF ResolutionNext, Resolve
<1>8. PruneHistory \/ (\E v \in Version : Retain(v) \/ ReleaseRetention(v))
        \/ (\E new \in SUBSET Object : ReplaceClientPins(new))
        => UNCHANGED <<objects, manifests>>
  BY DEF PruneHistory, Retain, ReleaseRetention, ReplaceClientPins
<1> QED
  BY <1>1, <1>2, <1>3, <1>4, <1>5, <1>6, <1>7, <1>8 DEF Next, MaintenanceNext, vars

\* A sweep takes nothing that is still reached.
LEMMA SweepStep ==
    ASSUME Typed, Stored, Sweeps
    PROVE  Stored'
<1> USE DEF Sweeps
<1>1. ASSUME NEW root \in manifests, root \in ProtectedManifests
      PROVE  root \in manifests' /\ (ObjectsOf(root) \subseteq objects => ObjectsOf(root) \subseteq objects')
  <2>1. ObjectsOf(root) \subseteq ProtectedObjects
    BY <1>1, ProtectedMembers
  <2> QED
    BY <1>1, <2>1
<1>2. ASSUME NEW value \in PinnedValues, In(objects, value)
      PROVE  In(objects', value)
  <2>1. value # None => value.object \in ProtectedObjects
    BY ProtectedMembers
  <2> QED
    BY <1>2, <2>1 DEF In
<1>3. ASSUME NEW k \in LeafId \X Object, uploads[k] # None, k[2] \in objects
      PROVE  k[2] \in objects'
  <2>1. k[2] \in ProtectedObjects
    BY <1>3, ProtectedMembers
  <2> QED
    BY <1>3, <2>1
<1>4. \A r \in Request : Pending(r)' <=> Pending(r)
  BY DEF Pending
<1>5. ASSUME NEW r \in Request, Pending(r), proposals[r].root # None
      PROVE  proposals[r].root \in ProtectedManifests
  <2>1. proposals[r].ready \in BOOLEAN
    BY <1>5, PendingType DEF Proposal
  <2>2. proposals[r].root \in CandidateRoots(proposals[r].ready)
    BY <1>5 DEF CandidateRoots, PendingRequests
  <2> QED
    BY <2>1, <2>2 DEF ProtectedManifests
<1>6. EpochsKept'
  <2> SUFFICES ASSUME NEW v \in Version, epochs[v] # None
               PROVE  epochs[v] \in manifests' /\ ObjectsOf(epochs[v]) \subseteq objects'
    BY DEF EpochsKept, Readable
  <2>1. epochs[v] \in manifests /\ ObjectsOf(epochs[v]) \subseteq objects
    BY DEF Stored, FilesOK, EpochsKept, Readable
  <2>2. epochs[v] \in ProtectedManifests
    BY DEF ProtectedManifests, EpochRoots, StoredEpochs
  <2> QED
    BY <1>1, <2>1, <2>2
<1>7. CandidatesKept'
  <2> SUFFICES ASSUME NEW r \in Request, Pending(r), proposals[r].ready
               PROVE  proposals[r].root \in manifests' /\ ObjectsOf(proposals[r].root) \subseteq objects'
    BY <1>4 DEF CandidatesKept, Readable
  <2>1. proposals[r].root \in manifests /\ ObjectsOf(proposals[r].root) \subseteq objects
    BY DEF Stored, FilesOK, CandidatesKept, Readable
  <2>2. proposals[r].root # None
    BY <2>1, NoneAssumption DEF Typed, TypeOK
  <2> QED
    BY <1>1, <1>5, <2>1, <2>2
<1>8. ViewsKept'
  <2> SUFFICES ASSUME NEW k \in LeafId \X Path, views[k] # None
               PROVE  In(objects', views[k].origin) /\ In(objects', views[k].value)
    BY DEF ViewsKept
  <2>1. views[k].origin \in PinnedValues /\ views[k].value \in PinnedValues
    BY PinnedMembers
  <2> QED
    BY <1>2, <2>1 DEF Stored, FilesOK, ViewsKept
<1>9. LeasesKept'
  <2> SUFFICES ASSUME NEW p \in Path, leases[p] # None
               PROVE  In(objects', leases[p].origin)
    BY DEF LeasesKept
  <2>1. leases[p].origin \in PinnedValues
    BY PinnedMembers
  <2> QED
    BY <1>2, <2>1 DEF Stored, FilesOK, LeasesKept
<1>10. BodiesKept'
  <2> SUFFICES ASSUME NEW r \in Request, NEW p \in Path, Pending(r), proposals[r].body[p] # None
               PROVE  In(objects', proposals[r].body[p].origin) /\ In(objects', proposals[r].body[p].value)
    BY <1>4 DEF BodiesKept
  <2>1. proposals[r].body[p].origin \in PinnedValues /\ proposals[r].body[p].value \in PinnedValues
    BY PinnedMembers
  <2> QED
    BY <1>2, <2>1 DEF Stored, FilesOK, BodiesKept
<1>11. UploadsKept' /\ PinsKept'
  <2>1. UploadsKept'
    BY <1>3 DEF Stored, FilesOK, UploadsKept
  <2>2. pins \subseteq ProtectedObjects
    BY ProtectedMembers
  <2> QED
    BY <2>1, <2>2 DEF Stored, FilesOK, PinsKept
<1>12. StagesOK'
  <2>1. ASSUME NEW s \in stages, s.object \in objects, uploads[<<s.leaf, s.object>>] # None
        PROVE  s.object \in objects'
    <3>1. <<s.leaf, s.object>> \in LeafId \X Object
      BY DEF Typed, TypeOK, StageCall
    <3> QED
      BY <1>3, <2>1, <3>1
  <2> QED
    BY <2>1 DEF Stored, StagesOK
<1>13. StepsOK'
  <2>1. ASSUME NEW c \in prepares, Pending(c.request), c.attempt = proposals[c.request].attempt,
               c.step = "ready"
        PROVE  c.root \in manifests'
    <3>1. c.request \in Request /\ c.root \in Snapshot /\ c.root \in manifests
          /\ proposals[c.request].root = c.root
      BY <2>1 DEF Typed, TypeOK, PrepareCall, Stored, StepsOK
    <3> QED
      BY <1>1, <1>5, <2>1, <3>1, NoneAssumption
  <2>2. \A b \in batchPrepares : InBatch(b)' <=> InBatch(b)
    BY DEF InBatch, Pending
  <2>3. ASSUME NEW b \in batchPrepares, InBatch(b), b.members # {}, b.step = "ready"
        PROVE  b.root \in manifests'
    <3>1. PICK r \in b.members : r \in Request
      BY <2>3 DEF Typed, TypeOK, BatchPrepareCall
    <3>2. b.root \in Snapshot /\ b.root \in manifests /\ proposals[r].root = b.root /\ Pending(r)
      BY <2>3, <3>1 DEF Typed, TypeOK, BatchPrepareCall, Stored, StepsOK, InBatch
    <3> QED
      BY <1>1, <1>5, <3>1, <3>2, NoneAssumption
  <2>4. \A r : Pending(r)' <=> Pending(r)
    BY DEF Pending
  <2> QED
    BY <2>1, <2>2, <2>3, <2>4 DEF Stored, StepsOK
<1> QED
  BY <1>6, <1>7, <1>8, <1>9, <1>10, <1>11, <1>12, <1>13 DEF Stored, FilesOK
-----------------------------------------------------------------------------
(* Calls and their manifests *)

\* How a prepare call comes to be in flight.
LEMMA PrepareMoves ==
    ASSUME [Next]_vars, NEW c \in prepares'
    PROVE  \/ c \in prepares \/ c.step = "pin"
           \/ \E d \in prepares : PinCandidate(d) /\ c = [d EXCEPT !.step = "put"]
           \/ \E d \in prepares : StoreCandidate(d) /\ c = [d EXCEPT !.step = "ready"]
<1>1. ASSUME NEW r \in Request, BeginPrepare(r), c \notin prepares
      PROVE  c.step = "pin"
  BY <1>1 DEF BeginPrepare
<1>2. ASSUME NEW d \in prepares, PinCandidate(d), c \notin prepares
      PROVE  c = [d EXCEPT !.step = "put"]
  BY <1>2 DEF PinCandidate
<1>3. ASSUME NEW d \in prepares, StoreCandidate(d), c \notin prepares
      PROVE  c = [d EXCEPT !.step = "ready"]
  BY <1>3 DEF StoreCandidate
<1>4. ASSUME PublicationNext, c \notin prepares
      PROVE  \/ \E r \in Request : BeginPrepare(r)
             \/ \E d \in prepares : PinCandidate(d) \/ StoreCandidate(d)
  BY <1>4 DEF PublicationNext, AbortUnsubmitted, Propose, CheckCommit, Abort, ReadyCandidate,
     FailPrepare, VerifyCommit, Commit, FailCommit
<1>5. UploadNext => UNCHANGED prepares
  BY DEF UploadNext, CreateLeaf, BeginStage, DiscardUpload, StorePayload, FinishStage, FailStage
<1>6. LeaseNext => UNCHANGED prepares
  BY DEF LeaseNext, Acquire, Activate, Release, Revoke, Withdraw, Edit, Discard, DropLeaf
<1>7. BatchNext => UNCHANGED prepares
  BY DEF BatchNext, BeginPrepareBatch, CheckCommitBatch, PinBatch, StoreBatch, ReadyBatch,
     FailPrepareBatch, VerifyCommitBatch, CommitBatch, FailCommitBatch
<1>8. ResolutionNext => UNCHANGED prepares
  BY DEF ResolutionNext, Resolve
<1>9. MaintenanceNext => UNCHANGED prepares
  BY DEF MaintenanceNext, Retain, ReleaseRetention, ReplaceClientPins, PruneHistory, Collect,
     InterruptedCollect
<1> QED
  BY <1>1, <1>2, <1>3, <1>4, <1>5, <1>6, <1>7, <1>8, <1>9 DEF Next, vars

\* The same of a batch preparation.
LEMMA BatchMoves ==
    ASSUME Typed, [Next]_vars, NEW b \in batchPrepares'
    PROVE  \/ b \in batchPrepares
           \/ b.step = "pin" /\ \A r \in b.members : r \in Request /\ b.attempts[r] = proposals'[r].attempt
           \/ \E d \in batchPrepares : PinBatch(d) /\ b = [d EXCEPT !.step = "put"]
           \/ \E d \in batchPrepares : StoreBatch(d) /\ b = [d EXCEPT !.step = "ready"]
<1>1. ASSUME NEW members \in SUBSET PendingRequests, BeginPrepareBatch(members), b \notin batchPrepares
      PROVE  b.step = "pin" /\ \A r \in b.members : r \in Request /\ b.attempts[r] = proposals'[r].attempt
  <2> DEFINE attempts == [r \in Request |-> IF r \in members THEN proposals[r].attempt + 1 ELSE 0]
             root == Compose(Tip, members)
             call == [members |-> members, parent |-> tip, root |-> root, attempts |-> attempts,
                      step |-> "pin"]
  <2>1. b = call
    BY <1>1 DEF BeginPrepareBatch
  <2>2. b.step = "pin" /\ b.members = members /\ b.attempts = attempts
    <3> HIDE DEF attempts, root
    <3> QED
      BY <2>1
  <2>3. ASSUME NEW r \in members
        PROVE  r \in Request /\ proposals'[r].attempt = proposals[r].attempt + 1
    <3>1. r \in Request /\ proposals[r] \in Proposal
      BY PendingType DEF PendingRequests
    <3>2. proposals'[r] = [proposals[r] EXCEPT !.attempt = proposals[r].attempt + 1, !.parent = tip,
                              !.root = None, !.ready = FALSE, !.batch = members]
      BY <1>1, <3>1 DEF BeginPrepareBatch
    <3> QED
      BY <3>1, <3>2 DEF Proposal
  <2> QED
    BY <2>2, <2>3
<1>2. ASSUME NEW d \in batchPrepares, PinBatch(d), b \notin batchPrepares
      PROVE  b = [d EXCEPT !.step = "put"]
  BY <1>2 DEF PinBatch
<1>3. ASSUME NEW d \in batchPrepares, StoreBatch(d), b \notin batchPrepares
      PROVE  b = [d EXCEPT !.step = "ready"]
  BY <1>3 DEF StoreBatch
<1>4. ASSUME BatchNext, b \notin batchPrepares
      PROVE  \/ \E members \in SUBSET PendingRequests : BeginPrepareBatch(members)
             \/ \E d \in batchPrepares : PinBatch(d) \/ StoreBatch(d)
  BY <1>4 DEF BatchNext, CheckCommitBatch, ReadyBatch, FailPrepareBatch, VerifyCommitBatch,
     CommitBatch, FailCommitBatch
<1> QED
  BY <1>1, <1>2, <1>3, <1>4, BatchSteps

\* The tree of a current call is the only one its requests can have.
LEMMA CallsAgree ==
    ASSUME Typed, IInv
    PROVE  /\ \A c, d \in prepares : /\ Pending(c.request)
                                     /\ c.request = d.request
                                     /\ c.attempt = proposals[c.request].attempt
                                     /\ d.attempt = proposals[c.request].attempt
                                     => c.root = d.root
           /\ \A b, d \in batchPrepares : \A r \in Request :
                InBatch(b) /\ InBatch(d) /\ r \in b.members /\ r \in d.members => b.root = d.root
           /\ \A c \in prepares : \A d \in batchPrepares :
                ~(/\ Pending(c.request) /\ c.attempt = proposals[c.request].attempt
                  /\ InBatch(d) /\ c.request \in d.members)
           /\ \A c \in prepares : c.request \in Request /\ c.root \in Snapshot /\ c.parent \in Version
           /\ \A d \in batchPrepares : d.members \in SUBSET Request /\ d.root \in Snapshot /\ d.parent \in Version
<1>1. \A c \in prepares : c.request \in Request /\ c.root \in Snapshot /\ c.parent \in Version
  BY DEF Typed, TypeOK, PrepareCall
<1>2. \A d \in batchPrepares : d.members \in SUBSET Request /\ d.root \in Snapshot /\ d.parent \in Version
  BY DEF Typed, TypeOK, BatchPrepareCall
<1>3. ASSUME NEW c \in prepares, NEW d \in prepares, Pending(c.request), c.request = d.request,
             c.attempt = proposals[c.request].attempt, d.attempt = proposals[c.request].attempt
      PROVE  c.root = d.root
  <2>1. c.parent = d.parent
    BY <1>3 DEF IInv, AttemptsOK
  <2>2. Built({c.request}, c.parent, c.root) /\ Built({c.request}, c.parent, d.root)
    BY <1>3, <2>1 DEF IInv, CallsOK
  <2> QED
    BY <1>1, <2>2, BuiltIsUnique
<1>4. ASSUME NEW b \in batchPrepares, NEW d \in batchPrepares, NEW r \in Request,
             InBatch(b), InBatch(d), r \in b.members, r \in d.members
      PROVE  b.root = d.root
  <2>1. b.parent = d.parent /\ b.members = d.members
    BY <1>4 DEF InBatch
  <2>2. Built(b.members, b.parent, b.root) /\ Built(b.members, b.parent, d.root)
    BY <2>1 DEF IInv, CallsOK
  <2> QED
    BY <1>2, <2>2, BuiltIsUnique
<1>5. ASSUME NEW c \in prepares, NEW d \in batchPrepares, Pending(c.request),
             c.attempt = proposals[c.request].attempt, InBatch(d), c.request \in d.members
      PROVE  FALSE
  BY <1>5 DEF IInv, AttemptsOK, InBatch
<1> QED
  BY <1>1, <1>2, <1>3, <1>4, <1>5

\* A request already in a call's hands was captured, so it was pending before.
LEMMA OldRequest ==
    ASSUME Typed, IInv, [Next]_vars, NEW r \in Request, captured[r] # None, Pending(r)'
    PROVE  /\ Pending(r) /\ RowStep(r) /\ SameCapture(r)
           /\ proposals[r].attempt \in Nat
           /\ \/ SameAttempt(r)
              \/ /\ proposals'[r].attempt = proposals[r].attempt + 1
                 /\ proposals'[r].parent = tip
                 /\ proposals'[r].root = None
                 /\ ~proposals'[r].ready
<1>1. RowStep(r)
  BY RowSteps DEF IInv
<1>2. Pending(r)
  BY <1>1 DEF RowStep
<1>3. proposals[r].attempt \in Nat
  BY <1>2, PendingType DEF Proposal, Attempt
<1> QED
  BY <1>1, <1>2, <1>3 DEF RowStep, SameAttempt

\* The calls a request belongs to are about what it captured.
LEMMA CalledRequests ==
    ASSUME Typed, IInv
    PROVE  /\ \A c \in prepares : c.request \in Request /\ captured[c.request] # None
           /\ \A b \in batchPrepares : \A r \in b.members : r \in Request /\ captured[r] # None
BY DEF IInv, CallsOK, Built, AllCaptured

\* What the row of a current call may become.
LEMMA CurrentCalls ==
    ASSUME Typed, IInv, [Next]_vars
    PROVE  \A c \in prepares : Pending(c.request)' /\ c.attempt = proposals'[c.request].attempt =>
             /\ Pending(c.request) /\ c.attempt = proposals[c.request].attempt
             /\ proposals'[c.request].root \in {proposals[c.request].root, c.root}
<1> SUFFICES ASSUME NEW c \in prepares, NEW r \in Request, r = c.request,
                    Pending(r)', c.attempt = proposals'[r].attempt
             PROVE  /\ Pending(r) /\ c.attempt = proposals[r].attempt
                    /\ proposals'[r].root \in {proposals[r].root, c.root}
  BY CallsAgree
<1>1. /\ Pending(r) /\ RowStep(r) /\ proposals[r].attempt \in Nat /\ captured[r] # None
      /\ SameAttempt(r) \/ proposals'[r].attempt = proposals[r].attempt + 1
  BY CalledRequests, OldRequest
<1>2. c.attempt <= proposals[r].attempt /\ c.attempt \in Nat
  BY <1>1 DEF IInv, AttemptsOK, Typed, TypeOK, PrepareCall, Attempt
<1>3. SameAttempt(r) /\ c.attempt = proposals[r].attempt
  BY <1>1, <1>2 DEF SameAttempt
<1>4. ASSUME NEW d \in prepares, d.request = r, d.attempt = proposals[r].attempt, proposals'[r].root = d.root
      PROVE  proposals'[r].root = c.root
  BY <1>1, <1>3, <1>4, CallsAgree
<1>5. ASSUME NEW b \in batchPrepares, InBatch(b), r \in b.members
      PROVE  FALSE
  BY <1>1, <1>3, <1>5, CallsAgree
<1>6. proposals[r].attempt # proposals[r].attempt + 1
  BY <1>1
<1> QED
  BY <1>1, <1>3, <1>4, <1>5, <1>6 DEF RowStep, SameAttempt

\* The same of the rows of a current batch.
LEMMA CurrentBatches ==
    ASSUME Typed, IInv, Stored, [Next]_vars
    PROVE  \A b \in batchPrepares :
             /\ \A r \in b.members : Pending(r)' =>
                  Pending(r) /\ b.attempts[r] <= proposals[r].attempt
                  /\ proposals'[r].attempt \in {proposals[r].attempt, proposals[r].attempt + 1}
             /\ InBatch(b)' =>
                  /\ InBatch(b)
                  /\ \A r \in b.members : proposals'[r].root \in {proposals[r].root, b.root}
<1> SUFFICES ASSUME NEW b \in batchPrepares
             PROVE  /\ \A r \in b.members : Pending(r)' =>
                         Pending(r) /\ b.attempts[r] <= proposals[r].attempt
                         /\ proposals'[r].attempt \in {proposals[r].attempt, proposals[r].attempt + 1}
                    /\ InBatch(b)' =>
                         /\ InBatch(b)
                         /\ \A r \in b.members : proposals'[r].root \in {proposals[r].root, b.root}
  OBVIOUS
<1>1. ASSUME NEW r \in b.members, Pending(r)'
      PROVE  /\ r \in Request /\ Pending(r) /\ RowStep(r) /\ proposals[r].attempt \in Nat /\ captured[r] # None
             /\ SameAttempt(r) \/ proposals'[r].attempt = proposals[r].attempt + 1
             /\ b.attempts[r] <= proposals[r].attempt /\ b.attempts[r] \in Nat
  <2>1. r \in Request /\ captured[r] # None
    BY CalledRequests
  <2>2. b.attempts[r] \in Nat
    BY <2>1 DEF Typed, TypeOK, BatchPrepareCall, Attempt
  <2> QED
    BY <1>1, <2>1, <2>2, OldRequest DEF Stored, StepsOK
<1>2. ASSUME InBatch(b)', NEW r \in b.members
      PROVE  Pending(r)' /\ proposals'[r].batch = b.members /\ proposals'[r].attempt = b.attempts[r]
             /\ proposals'[r].parent = b.parent
  BY <1>2 DEF InBatch
<1>3. ASSUME InBatch(b)', NEW r \in b.members
      PROVE  SameAttempt(r)
  BY <1>1, <1>2, <1>3
<1>4. InBatch(b)' => InBatch(b)
  BY <1>1, <1>2, <1>3 DEF InBatch, SameAttempt
<1>5. ASSUME InBatch(b)', NEW r \in b.members
      PROVE  proposals'[r].root \in {proposals[r].root, b.root}
  <2>1. r \in Request /\ Pending(r) /\ RowStep(r) /\ SameAttempt(r) /\ InBatch(b) /\ captured[r] # None
        /\ proposals[r].attempt # proposals[r].attempt + 1
    BY <1>1, <1>2, <1>3, <1>4, <1>5
  <2>2. ASSUME NEW c \in prepares, c.request = r, c.attempt = proposals[r].attempt
        PROVE  FALSE
    BY <2>1, <2>2, CallsAgree
  <2>3. ASSUME NEW d \in batchPrepares, InBatch(d), r \in d.members
        PROVE  d.root = b.root
    BY <2>1, <2>3, CallsAgree
  <2> QED
    BY <2>1, <2>2, <2>3 DEF RowStep, SameAttempt
<1> QED
  BY <1>1, <1>4, <1>5 DEF SameAttempt

\* A current call keeps finding what it named and stored.
LEMMA StepsStep ==
    ASSUME Typed, IInv, Stored, [Next]_vars, manifests \subseteq manifests'
    PROVE  StepsOK'
<1>1. ASSUME NEW c \in prepares', Pending(c.request)', c.attempt = proposals'[c.request].attempt
      PROVE  /\ c.step # "pin" => proposals'[c.request].root = c.root
             /\ c.step = "ready" => c.root \in manifests'
  <2>1. CASE c \in prepares
    BY <1>1, <2>1, CurrentCalls DEF Stored, StepsOK
  <2>2. ASSUME NEW d \in prepares, PinCandidate(d), c = [d EXCEPT !.step = "put"]
        PROVE  c.step = "put" /\ proposals'[c.request].root = c.root
    <3>1. d \in PrepareCall /\ d.request \in Request /\ proposals[d.request] \in Proposal
      BY <2>2, PendingType DEF PinCandidate, Typed, TypeOK, PrepareCall
    <3>2. c.request = d.request /\ c.root = d.root /\ c.step = "put"
      BY <2>2, <3>1 DEF PrepareCall
    <3>3. proposals'[d.request] = [proposals[d.request] EXCEPT !.root = d.root]
      BY <2>2, <3>1 DEF PinCandidate, Typed, TypeOK
    <3> QED
      BY <3>1, <3>2, <3>3 DEF Proposal
  <2>3. ASSUME NEW d \in prepares, StoreCandidate(d), c = [d EXCEPT !.step = "ready"]
        PROVE  proposals'[c.request].root = c.root /\ c.root \in manifests'
    <3>1. d \in PrepareCall
      BY DEF Typed, TypeOK
    <3>2. c.request = d.request /\ c.root = d.root /\ c.attempt = d.attempt /\ d.step = "put"
      BY <2>3, <3>1 DEF PrepareCall, StoreCandidate
    <3>3. UNCHANGED proposals /\ d.root \in manifests'
      BY <2>3 DEF StoreCandidate
    <3> QED
      BY <1>1, <3>2, <3>3 DEF Pending, Stored, StepsOK
  <2> QED
    BY <2>1, <2>2, <2>3, PrepareMoves
<1>2. ASSUME NEW b \in batchPrepares', NEW r \in b.members, Pending(r)'
      PROVE  b.attempts[r] <= proposals'[r].attempt
  <2>1. ASSUME NEW d \in batchPrepares, b.members = d.members, b.attempts = d.attempts
        PROVE  b.attempts[r] <= proposals'[r].attempt
    <3>1. r \in Request /\ Pending(r) /\ b.attempts[r] <= proposals[r].attempt
          /\ proposals'[r].attempt \in {proposals[r].attempt, proposals[r].attempt + 1}
      BY <1>2, <2>1, CurrentBatches, CalledRequests
    <3>2. proposals[r].attempt \in Nat /\ b.attempts[r] \in Nat
      BY <2>1, <3>1, PendingType DEF Proposal, Typed, TypeOK, BatchPrepareCall, Attempt
    <3> QED
      BY <3>1, <3>2
  <2>2. ASSUME NEW d \in batchPrepares, b = [d EXCEPT !.step = "put"] \/ b = [d EXCEPT !.step = "ready"]
        PROVE  b.members = d.members /\ b.attempts = d.attempts
    BY <2>2 DEF Typed, TypeOK, BatchPrepareCall
  <2>3. CASE r \in Request /\ b.attempts[r] = proposals'[r].attempt
    <3>1. proposals'[r].attempt \in Nat
      BY <1>2, <2>3, TypedStep DEF Typed, TypeOK, Pending, Proposal, Attempt
    <3> QED
      BY <2>3, <3>1
  <2> QED
    BY <2>1, <2>2, <2>3, BatchMoves
<1>3. ASSUME NEW b \in batchPrepares', InBatch(b)', b.members # {}
      PROVE  /\ b.step # "pin" => \A r \in b.members : proposals'[r].root = b.root
             /\ b.step = "ready" => b.root \in manifests'
  <2>1. CASE b \in batchPrepares
    BY <1>3, <2>1, CurrentBatches DEF Stored, StepsOK
  <2>2. ASSUME NEW d \in batchPrepares, PinBatch(d), b = [d EXCEPT !.step = "put"]
        PROVE  b.step = "put" /\ \A r \in b.members : proposals'[r].root = b.root
    <3>1. d \in BatchPrepareCall
      BY DEF Typed, TypeOK
    <3>2. b.members = d.members /\ b.root = d.root /\ b.step = "put"
      BY <2>2, <3>1 DEF BatchPrepareCall
    <3>3. ASSUME NEW r \in d.members
          PROVE  proposals'[r].root = d.root
      <4>1. r \in Request /\ proposals[r] \in Proposal
        BY <2>2, <3>1, PendingType DEF PinBatch, InBatch, BatchPrepareCall
      <4>2. proposals'[r] = [proposals[r] EXCEPT !.root = d.root, !.ready = FALSE]
        BY <2>2, <4>1 DEF PinBatch, SetCandidate
      <4> QED
        BY <4>1, <4>2 DEF Proposal
    <3> QED
      BY <3>2, <3>3
  <2>3. ASSUME NEW d \in batchPrepares, StoreBatch(d), b = [d EXCEPT !.step = "ready"]
        PROVE  /\ \A r \in b.members : proposals'[r].root = b.root
               /\ b.root \in manifests'
    <3>1. d \in BatchPrepareCall
      BY DEF Typed, TypeOK
    <3>2. b.members = d.members /\ b.root = d.root /\ b.attempts = d.attempts /\ b.parent = d.parent
          /\ d.step = "put"
      BY <2>3, <3>1 DEF BatchPrepareCall, StoreBatch
    <3>3. UNCHANGED proposals /\ d.root \in manifests'
      BY <2>3 DEF StoreBatch
    <3>4. InBatch(d)
      BY <1>3, <3>2, <3>3 DEF InBatch, Pending
    <3> QED
      BY <1>3, <3>2, <3>3, <3>4 DEF Stored, StepsOK
  <2> QED
    BY <2>1, <2>2, <2>3, BatchMoves
<1> QED
  BY <1>1, <1>2, <1>3 DEF StepsOK
-----------------------------------------------------------------------------
(* Uploads *)

\* What a step does to an upload row: nothing, remove it, mark it ready when its
\* own stage call finishes, or pin it again under a fresh generation.
LEMMA UploadSteps ==
    ASSUME Typed, [Next]_vars
    PROVE  /\ nextToken <= nextToken'
           /\ \/ /\ \A k \in LeafId \X Object : uploads'[k] \in {uploads[k], None}
                 /\ stages' \subseteq stages
              \/ \E l \in LeafId, o \in Object : BeginStage(l, o)
              \/ \E s \in stages : StorePayload(s) \/ FinishStage(s)
<1> DEFINE Less == /\ \A k \in LeafId \X Object : uploads'[k] \in {uploads[k], None}
                   /\ stages' \subseteq stages
<1> USE DEF Typed, TypeOK
<1>1. nextToken <= nextToken'
  <2>1. nextToken \in Nat
    BY DEF Token
  <2>2. \A l \in LeafId, o \in Object : BeginStage(l, o) => nextToken' = nextToken + 1
    BY DEF BeginStage
  <2> QED
    BY <2>1, <2>2, TokenSteps, AcquiredTokens DEF vars
<1>2. UNCHANGED <<uploads, stages>> => Less
  OBVIOUS
<1>3. CreateLeaf => Less
  BY DEF CreateLeaf
<1>4. \A l \in LeafId, o \in Object : DiscardUpload(l, o) => Less
  BY DEF DiscardUpload
<1>5. \A s \in stages : FailStage(s) => Less
  BY DEF FailStage
<1>6. \A l \in LeafId : DropLeaf(l) => Less
  BY DEF DropLeaf
<1>7. ASSUME NEW p \in Path, NEW value \in EditedValues, Edit(p, value)
      PROVE  Less
  BY <1>7 DEF Edit
<1>8. LeaseNext => Less
  BY <1>2, <1>6, <1>7 DEF LeaseNext, Acquire, Activate, Release, Revoke, Withdraw, Discard
<1>9. PublicationNext => Less
  BY <1>2 DEF PublicationNext, AbortUnsubmitted, Propose, BeginPrepare, CheckCommit, Abort,
     PinCandidate, StoreCandidate, ReadyCandidate, FailPrepare, VerifyCommit, Commit, FailCommit
<1>10. BatchNext => Less
  BY <1>2 DEF BatchNext, BeginPrepareBatch, CheckCommitBatch, PinBatch, StoreBatch, ReadyBatch,
     FailPrepareBatch, VerifyCommitBatch, CommitBatch, FailCommitBatch
<1>11. ResolutionNext => Less
  BY <1>2 DEF ResolutionNext, Resolve
<1>12. MaintenanceNext => Less
  BY <1>2 DEF MaintenanceNext, Retain, ReleaseRetention, ReplaceClientPins, PruneHistory, Collect,
     InterruptedCollect
<1> QED
  BY <1>1, <1>2, <1>3, <1>4, <1>5, <1>8, <1>9, <1>10, <1>11, <1>12 DEF Next, UploadNext, vars

\* What the current stage call stored stays until its row is ready.
LEMMA StagesStep ==
    ASSUME Typed, Stored, [Next]_vars, objects \subseteq objects'
    PROVE  StagesOK' /\ UploadsKept'
<1>0. /\ nextToken \in Nat /\ nextToken' \in Nat /\ nextToken <= nextToken'
      /\ \A k \in LeafId \X Object : uploads[k] # None => uploads[k] \in Upload /\ uploads[k].generation \in Nat
      /\ \A s \in stages : s \in StageCall /\ s.generation \in Nat /\ <<s.leaf, s.object>> \in LeafId \X Object
  BY UploadSteps, TypedStep DEF Typed, TypeOK, Token, Upload, StageCall
<1>1. CASE /\ \A k \in LeafId \X Object : uploads'[k] \in {uploads[k], None}
           /\ stages' \subseteq stages
  <2>1. ASSUME NEW k \in LeafId \X Object, uploads'[k] # None
        PROVE  uploads'[k] = uploads[k] /\ uploads[k] # None
    BY <1>1, <2>1
  <2>2. UploadsKept'
    BY <2>1 DEF Stored, FilesOK, UploadsKept
  <2>3. \A k \in LeafId \X Object : uploads'[k] # None => uploads'[k].generation < nextToken'
    BY <1>0, <2>1 DEF Stored, StagesOK
  <2>4. ASSUME NEW s \in stages'
        PROVE  /\ s.generation < nextToken'
               /\ /\ s.stored
                  /\ uploads'[<<s.leaf, s.object>>] # None
                  /\ uploads'[<<s.leaf, s.object>>].generation = s.generation
                  => s.object \in objects'
    BY <1>0, <1>1, <2>1 DEF Stored, StagesOK
  <2> QED
    BY <2>2, <2>3, <2>4 DEF StagesOK
<1>2. ASSUME NEW l \in LeafId, NEW o \in Object, BeginStage(l, o)
      PROVE  StagesOK' /\ UploadsKept'
  <2> DEFINE new == [leaf |-> l, object |-> o, generation |-> nextToken, stored |-> FALSE]
  <2>1. /\ nextToken' = nextToken + 1
        /\ uploads' = [uploads EXCEPT ![<<l, o>>] = [ready |-> FALSE, generation |-> nextToken]]
        /\ stages' = stages \cup {new}
    BY <1>2 DEF BeginStage
  <2>2. /\ uploads'[<<l, o>>] = [ready |-> FALSE, generation |-> nextToken]
        /\ \A k \in LeafId \X Object : k # <<l, o>> => uploads'[k] = uploads[k]
    BY <2>1 DEF Typed, TypeOK
  <2>3. ~uploads'[<<l, o>>].ready /\ uploads'[<<l, o>>].generation = nextToken
    BY <2>2
  <2>4. UploadsKept'
    BY <2>2, <2>3 DEF Stored, FilesOK, UploadsKept
  <2>5. \A k \in LeafId \X Object : uploads'[k] # None => uploads'[k].generation < nextToken'
    BY <1>0, <2>1, <2>2, <2>3 DEF Stored, StagesOK
  <2>6. new.generation < nextToken' /\ ~new.stored
    BY <1>0, <2>1
  <2>7. ASSUME NEW s \in stages
        PROVE  /\ s.generation < nextToken' /\ s.generation # nextToken
               /\ /\ s.stored
                  /\ uploads'[<<s.leaf, s.object>>] # None
                  /\ uploads'[<<s.leaf, s.object>>].generation = s.generation
                  => s.object \in objects'
    BY <1>0, <2>1, <2>2, <2>3 DEF Stored, StagesOK
  <2> QED
    BY <2>1, <2>4, <2>5, <2>6, <2>7 DEF StagesOK
<1>3. ASSUME NEW s \in stages, StorePayload(s)
      PROVE  StagesOK' /\ UploadsKept'
  <2>1. /\ objects' = objects \cup {s.object} /\ UNCHANGED <<uploads, nextToken>>
        /\ stages' = (stages \ {s}) \cup {[s EXCEPT !.stored = TRUE]}
    BY <1>3 DEF StorePayload
  <2>2. PICK t : t = [s EXCEPT !.stored = TRUE]
    OBVIOUS
  <2>3. t.generation = s.generation /\ t.object = s.object /\ t.leaf = s.leaf
    BY <1>0, <2>2 DEF StageCall
  <2> QED
    BY <1>0, <2>1, <2>2, <2>3 DEF Stored, StagesOK, FilesOK, UploadsKept
<1>4. ASSUME NEW s \in stages, FinishStage(s)
      PROVE  StagesOK' /\ UploadsKept'
  <2> DEFINE k == <<s.leaf, s.object>>
  <2>1. /\ s.stored /\ uploads[k] # None /\ uploads[k].generation = s.generation
        /\ uploads' = [uploads EXCEPT ![k].ready = TRUE]
        /\ UNCHANGED nextToken /\ stages' \subseteq stages
    BY <1>4 DEF FinishStage
  <2>2. s.object \in objects'
    BY <2>1 DEF Stored, StagesOK
  <2>3. k \in LeafId \X Object /\ uploads[k] \in Upload /\ k[2] = s.object
    BY <1>0, <2>1
  <2>4. uploads'[k] = [uploads[k] EXCEPT !.ready = TRUE]
        /\ \A j \in LeafId \X Object : j # k => uploads'[j] = uploads[j]
    BY <2>1, <2>3 DEF Typed, TypeOK
  <2>5. uploads'[k].generation = uploads[k].generation
    BY <2>3, <2>4 DEF Upload
  <2>6. UploadsKept'
    BY <2>2, <2>3, <2>4 DEF Stored, FilesOK, UploadsKept
  <2>7. \A j \in LeafId \X Object : uploads'[j] # None => uploads[j] # None /\ uploads'[j].generation = uploads[j].generation
    BY <2>1, <2>4, <2>5
  <2>8. \A j \in LeafId \X Object : uploads'[j] # None => uploads'[j].generation < nextToken'
    BY <2>1, <2>7 DEF Stored, StagesOK
  <2>9. ASSUME NEW t \in stages'
        PROVE  /\ t.generation < nextToken'
               /\ /\ t.stored
                  /\ uploads'[<<t.leaf, t.object>>] # None
                  /\ uploads'[<<t.leaf, t.object>>].generation = t.generation
                  => t.object \in objects'
    <3>1. t \in stages /\ <<t.leaf, t.object>> \in LeafId \X Object
      BY <1>0, <2>1
    <3> QED
      BY <2>1, <2>7, <3>1 DEF Stored, StagesOK
  <2> QED
    BY <2>6, <2>8, <2>9 DEF StagesOK
<1> QED
  BY <1>1, <1>2, <1>3, <1>4, UploadSteps
-----------------------------------------------------------------------------
(* Values, candidates and epochs *)

\* Views and leases only take values from each other, the tip, published
\* captures, and payloads that an edit found in the store.
LEMMA ValuesStep ==
    ASSUME Typed, IInv, BasesAreRetained, Stored, [Next]_vars, objects \subseteq objects'
    PROVE  ViewsKept' /\ LeasesKept'
<1> DEFINE Has(value) == In(objects, value)
           Had(value) == In(objects', value)
           Goal == ViewsKept' /\ LeasesKept'
<1>0. /\ \A value : Has(value) => Had(value)
      /\ Had(None)
      /\ \A k \in LeafId \X Path : views[k] # None => views[k] \in View /\ Had(views[k].origin) /\ Had(views[k].value)
      /\ \A p \in Path : leases[p] # None => leases[p] \in Lease /\ Had(leases[p].origin)
  BY DEF In, Stored, FilesOK, ViewsKept, LeasesKept, Typed, TypeOK
<1>9. ASSUME \A k \in LeafId \X Path : views'[k] # None => Had(views'[k].origin) /\ Had(views'[k].value),
             \A p \in Path : leases'[p] # None => Had(leases'[p].origin)
      PROVE  Goal
  BY <1>9 DEF ViewsKept, LeasesKept
<1> HIDE DEF Has, Had, Goal
<1>1. ASSUME UNCHANGED <<leases, views>>
      PROVE  Goal
  <2>1. \A k \in LeafId \X Path : views'[k] # None => Had(views'[k].origin) /\ Had(views'[k].value)
    BY <1>0, <1>1
  <2>2. \A p \in Path : leases'[p] # None => Had(leases'[p].origin)
    BY <1>0, <1>1
  <2> QED
    BY <1>9, <2>1, <2>2
<1>2. ASSUME NEW l \in LeafId, DropLeaf(l)
      PROVE  Goal
  BY <1>0, <1>2, <1>9 DEF DropLeaf
<1>3. ASSUME NEW l \in LeafId, NEW paths \in SUBSET Path, Acquire(l, paths)
      PROVE  Goal
  <2>1. UNCHANGED views /\ \A p \in Path : leases'[p] = leases[p] \/ leases'[p].origin = Tip[p]
    BY <1>3 DEF Acquire
  <2>2. \A p \in Path : Had(Tip[p])
    <3>1. tip \in Version /\ epochs[tip] # None
      BY NoneAssumption DEF Typed, TypeOK, TipStored
    <3>2. ObjectsOf(Tip) \subseteq objects
      BY <3>1 DEF Stored, FilesOK, EpochsKept, Readable, Tip
    <3>3. ASSUME NEW p \in Path PROVE In(objects', Tip[p])
      BY <3>2 DEF In, ObjectsOf, Present
    <3> QED
      BY <3>3 DEF Had
  <2> QED
    BY <1>0, <1>9, <2>1, <2>2
<1>4. ASSUME NEW p \in Path, Activate(p)
      PROVE  Goal
  <2> DEFINE l == leases[p].leaf
  <2>1. leases[p] \in Lease /\ l \in LeafId /\ leases' = [leases EXCEPT ![p] = [leases[p] EXCEPT !.activated = TRUE]]
    BY <1>0, <1>4 DEF Activate, Lease
  <2>2. /\ leases'[p].origin = leases[p].origin
        /\ \A q \in Path \ {p} : leases'[q] = leases[q]
    BY <2>1 DEF Lease, Typed, TypeOK
  <2>3. /\ views'[<<l, p>>] = [origin |-> leases[p].origin, value |-> leases[p].origin]
        /\ \A k \in LeafId \X Path : k # <<l, p>> => views'[k] = views[k]
    BY <1>4, <2>1 DEF Activate, Typed, TypeOK
  <2>4. views'[<<l, p>>].origin = leases[p].origin /\ views'[<<l, p>>].value = leases[p].origin
    BY <2>3
  <2>5. leases[p] # None
    BY <1>4 DEF Activate
  <2> QED
    BY <1>0, <1>9, <2>2, <2>3, <2>4, <2>5
<1>5. ASSUME NEW p \in Path, Withdraw(p)
      PROVE  Goal
  BY <1>0, <1>5, <1>9 DEF Withdraw, Typed, TypeOK
<1>6. ASSUME NEW p \in Path, NEW value \in EditedValues, Edit(p, value)
      PROVE  Goal
  <2> DEFINE l == leases[p].leaf
  <2>1. l \in LeafId /\ leases[p] # None
    BY <1>0, <1>6 DEF Edit, Lease
  <2>2. views[<<l, p>>] # None /\ views[<<l, p>>] \in View /\ <<l, p>> \in LeafId \X Path
    BY <1>0, <1>6, <2>1 DEF Edit
  <2>3. views' = [views EXCEPT ![<<l, p>>].value = value] /\ UNCHANGED leases
    BY <1>6 DEF Edit
  <2>4. views'[<<l, p>>].origin = views[<<l, p>>].origin /\ views'[<<l, p>>].value = value
        /\ \A k \in LeafId \X Path : k # <<l, p>> => views'[k] = views[k]
    BY <2>2, <2>3 DEF View, Typed, TypeOK
  <2>5. Had(value)
    BY <1>6 DEF Edit, Had, In
  <2> QED
    BY <1>0, <1>9, <2>2, <2>3, <2>4, <2>5
<1>7. ASSUME NEW l \in LeafId, NEW p \in Path, Discard(l, p)
      PROVE  Goal
  <2>1. views[<<l, p>>] # None /\ views[<<l, p>>] \in View /\ <<l, p>> \in LeafId \X Path /\ UNCHANGED leases
    BY <1>0, <1>7 DEF Discard
  <2>2. /\ \A k \in LeafId \X Path : k # <<l, p>> => views'[k] = views[k]
        /\ views'[<<l, p>>] = None \/ views'[<<l, p>>] = [views[<<l, p>>] EXCEPT !.value = views[<<l, p>>].origin]
    BY <1>7, <2>1 DEF Discard, Typed, TypeOK
  <2>3. views'[<<l, p>>] # None => views'[<<l, p>>].origin = views[<<l, p>>].origin
                                   /\ views'[<<l, p>>].value = views[<<l, p>>].origin
    BY <2>1, <2>2 DEF View
  <2> QED
    BY <1>0, <1>9, <2>1, <2>2, <2>3
<1>8. ASSUME NEW members \in SUBSET Request, NEW root \in Snapshot, Publishes(members, root)
      PROVE  Goal
  <2>1. ASSUME NEW p \in Path, Writers(members, p) # {}
        PROVE  Had(Published(members, p))
    <3>1. PICK r \in Request : /\ Pending(r) /\ proposals[r].body[p] # None
                               /\ Published(members, p) = proposals[r].body[p].value
      BY <1>8, <2>1 DEF Published, Writers, Publishes, PendingRequests
    <3>2. Has(Published(members, p))
      BY <3>1 DEF Stored, FilesOK, BodiesKept, Has
    <3> QED
      BY <1>0, <3>2
  <2>2. ASSUME NEW p \in Path, leases'[p] # None
        PROVE  Had(leases'[p].origin)
    <3>1. leases'[p] = leases[p]
          \/ /\ Writers(members, p) # {} /\ leases[p] # None
             /\ leases'[p] = [leases[p] EXCEPT !.origin = Published(members, p)]
      BY <1>8 DEF Publishes, Publish
    <3>2. leases'[p] = leases[p] \/ (Writers(members, p) # {} /\ leases'[p].origin = Published(members, p))
      BY <1>0, <3>1 DEF Lease
    <3> QED
      BY <1>0, <2>1, <2>2, <3>2
  <2>3. ASSUME NEW k \in LeafId \X Path, views'[k] # None
        PROVE  Had(views'[k].origin) /\ Had(views'[k].value)
    <3>1. views'[k] = views[k]
          \/ /\ Writers(members, k[2]) # {} /\ views[k] # None
             /\ views'[k] = [views[k] EXCEPT !.origin = Published(members, k[2])]
      BY <1>8 DEF Publishes, Publish
    <3>2. views'[k] = views[k]
          \/ /\ Writers(members, k[2]) # {} /\ views[k] # None /\ k[2] \in Path
             /\ views'[k].origin = Published(members, k[2])
             /\ views'[k].value = views[k].value
      BY <1>0, <3>1 DEF View
    <3> QED
      BY <1>0, <2>1, <2>3, <3>2
  <2> QED
    BY <1>9, <2>2, <2>3
<1> QED
  BY <1>1, <1>2, <1>3, <1>4, <1>5, <1>6, <1>7, <1>8, ViewSteps DEF Goal

\* A capture freezes values of a view, or of an earlier capture.
LEMMA BodiesStep ==
    ASSUME Typed, IInv, Stored, [Next]_vars, objects \subseteq objects'
    PROVE  BodiesKept'
<1>1. ASSUME NEW r \in Request, NEW p \in Path, Pending(r)', proposals'[r].body[p] # None
      PROVE  In(objects', proposals'[r].body[p].origin) /\ In(objects', proposals'[r].body[p].value)
  <2>1. \A value : In(objects, value) => In(objects', value)
    BY DEF In
  <2>2. CASE captured[r] # None
    <3>1. Pending(r) /\ proposals'[r].body = proposals[r].body
      BY <1>1, <2>2, OldRequest DEF SameCapture
    <3> QED
      BY <1>1, <2>1, <3>1 DEF Stored, FilesOK, BodiesKept
  <2>3. CASE captured[r] = None
    <3>1. captured'[r] # None /\ captured'[r].changes = proposals'[r].body
      BY <1>1, IInvStep DEF IInv, RequestsOK
    <3>2. /\ views[<<r[1], p>>] # None
          /\ proposals'[r].body[p].origin = views[<<r[1], p>>].origin
          /\ Captures(proposals'[r].body[p].value, r[1], p)
      BY <1>1, <2>3, <3>1, NewCapture DEF IInv
    <3>3. <<r[1], p>> \in LeafId \X Path
      BY DEF Request
    <3>4. In(objects, views[<<r[1], p>>].origin) /\ In(objects, views[<<r[1], p>>].value)
      BY <3>2, <3>3 DEF Stored, FilesOK, ViewsKept
    <3>5. In(objects, proposals'[r].body[p].value)
      BY <3>2, <3>4 DEF Captures, Stored, FilesOK, BodiesKept, PendingRequests
    <3> QED
      BY <2>1, <3>2, <3>4, <3>5
  <2> QED
    BY <2>2, <2>3
<1> QED
  BY <1>1 DEF BodiesKept

\* A tree that is in the store stays readable while nothing is unlinked.
LEMMA ReadableStays ==
    ASSUME objects \subseteq objects', manifests \subseteq manifests', NEW root, Readable(root)
    PROVE  root \in manifests' /\ ObjectsOf(root) \subseteq objects'
BY DEF Readable

\* A row becomes ready only under a tree that was stored and never unlinked.
LEMMA CandidatesKeptStep ==
    ASSUME Typed, IInv, BasesAreRetained, Stored, [Next]_vars,
           objects \subseteq objects', manifests \subseteq manifests'
    PROVE  CandidatesKept'
<1> SUFFICES ASSUME NEW r \in Request, Pending(r)', proposals'[r].ready, NEW root, root = proposals'[r].root
             PROVE  root \in manifests' /\ ObjectsOf(root) \subseteq objects'
  BY DEF CandidatesKept, Readable
<1>1. RowStep(r)
  BY RowSteps DEF IInv
<1>2. Pending(r) /\ SameAttempt(r) /\ r \in PendingRequests /\ proposals[r] \in Proposal
  BY <1>1, PendingType DEF RowStep, PendingRequests
<1>3. proposals[r].ready => Readable(proposals[r].root) /\ proposals[r].root # None
  <2>1. proposals[r].ready => Readable(proposals[r].root)
    BY <1>2 DEF Stored, FilesOK, CandidatesKept
  <2> QED
    BY <2>1, NoneAssumption DEF Readable, Typed, TypeOK
<1>4. ASSUME NEW members \in SUBSET PendingRequests, r \in members, Built(members, proposals[r].parent, root),
             proposals[r].parent \in Version, root \in Snapshot
      PROVE  ObjectsOf(root) \subseteq objects'
  <2>1. epochs[proposals[r].parent] # None
    BY <1>2, <1>4, NoneAssumption DEF BasesAreRetained, Version
  <2> QED
    BY <1>4, <2>1, BuiltIsPresent DEF Stored
<1>5. CASE proposals'[r].root = proposals[r].root /\ proposals'[r].ready = proposals[r].ready
  BY <1>3, <1>5, ReadableStays
<1>6. ASSUME NEW c \in prepares, c.request = r, c.attempt = proposals[r].attempt, proposals'[r].root = c.root
      PROVE  /\ proposals[r].parent = c.parent /\ proposals[r].batch = {}
             /\ Built({r}, proposals[r].parent, root)
             /\ root \in Snapshot /\ proposals[r].parent \in Version
  BY <1>2, <1>6, CallsAgree DEF IInv, AttemptsOK, CallsOK
<1>7. ASSUME NEW c \in prepares, c.request = r, c.attempt = proposals[r].attempt, proposals'[r].root = c.root,
             proposals'[r].ready = proposals[r].ready
      PROVE  proposals'[r].root = proposals[r].root
  <2>1. Built(Members(r), proposals[r].parent, proposals[r].root)
    BY <1>2, <1>3, <1>7 DEF IInv, CandidatesOK
  <2>2. Members(r) = {r}
    BY <1>6, <1>7 DEF Members
  <2>3. proposals[r].root \in Snapshot
    BY <1>2, <1>3, <1>7 DEF Proposal
  <2> QED
    BY <1>6, <1>7, <2>1, <2>2, <2>3, BuiltIsUnique
<1>8. ASSUME NEW c \in prepares, c.request = r, c.attempt = proposals[r].attempt, proposals'[r].root = c.root,
             ReadyCandidate(c)
      PROVE  root \in manifests' /\ ObjectsOf(root) \subseteq objects'
  <2>1. root \in manifests
    BY <1>2, <1>8 DEF ReadyCandidate, Stored, StepsOK
  <2> QED
    BY <1>2, <1>4, <1>6, <1>8, <2>1
<1>9. ASSUME NEW b \in batchPrepares, InBatch(b), r \in b.members, proposals'[r].root = b.root, ReadyBatch(b)
      PROVE  root \in manifests' /\ ObjectsOf(root) \subseteq objects'
  <2>1. root \in manifests /\ Built(b.members, b.parent, root) /\ root \in Snapshot /\ b.parent \in Version
    BY <1>9, CallsAgree DEF ReadyBatch, Stored, StepsOK, IInv, CallsOK
  <2>2. b.members \in SUBSET PendingRequests /\ proposals[r].parent = b.parent
    BY <1>9, CallsAgree DEF InBatch, PendingRequests
  <2> QED
    BY <1>4, <1>9, <2>1, <2>2
<1>10. CASE ~proposals'[r].ready
  BY <1>10
<1> QED
  BY <1>1, <1>5, <1>7, <1>8, <1>9, <1>10 DEF RowStep

\* A new epoch is a ready candidate.
LEMMA EpochsStep ==
    ASSUME Typed, IInv, Stored, [Next]_vars, objects \subseteq objects', manifests \subseteq manifests'
    PROVE  EpochsKept'
<1>1. ASSUME NEW root \in Snapshot, Readable(root),
             \A v \in Version : epochs'[v] \in {epochs[v], None, root}
      PROVE  EpochsKept'
  <2> SUFFICES ASSUME NEW v \in Version, epochs'[v] # None, NEW tree, tree = epochs'[v]
               PROVE  tree \in manifests' /\ ObjectsOf(tree) \subseteq objects'
    BY DEF EpochsKept, Readable
  <2>1. Readable(tree)
    BY <1>1 DEF Stored, FilesOK, EpochsKept
  <2> QED
    BY <2>1, ReadableStays
<1>2. Tip \in Snapshot /\ Readable(Tip)
  BY NoneAssumption DEF Typed, TypeOK, TipStored, Tip, Stored, FilesOK, EpochsKept
<1>3. ASSUME NEW c \in commits, Commit(c)
      PROVE  EpochsKept'
  <2>1. c.root \in Snapshot /\ c.request \in Request
    BY DEF Typed, TypeOK, CommitCall
  <2>2. Readable(c.root)
    BY <1>3, <2>1 DEF Commit, Committable, Matches, Stored, FilesOK, CandidatesKept
  <2>3. epochs' = [epochs EXCEPT ![tip + 1] = c.root]
    BY <1>3 DEF Commit, Publish
  <2> QED
    BY <1>1, <2>1, <2>2, <2>3 DEF Typed, TypeOK
<1>4. ASSUME NEW b \in batchCommits, CommitBatch(b)
      PROVE  EpochsKept'
  <2>1. b.root \in Snapshot /\ b.members \in SUBSET Request /\ b.members # {}
    BY DEF Typed, TypeOK, BatchCommitCall, IInv, CallsOK
  <2>2. Readable(b.root)
    BY <1>4, <2>1 DEF CommitBatch, BatchCommittable, InBatch, Stored, FilesOK, CandidatesKept
  <2>3. epochs' = [epochs EXCEPT ![tip + 1] = b.root]
    BY <1>4 DEF CommitBatch, Publish
  <2> QED
    BY <1>1, <2>1, <2>2, <2>3 DEF Typed, TypeOK
<1>5. CASE PruneHistory
  <2>1. \A v \in Version : epochs'[v] \in {epochs[v], None}
    BY <1>5 DEF PruneHistory
  <2> QED
    BY <1>1, <1>2, <2>1
<1>6. CASE UNCHANGED epochs
  BY <1>1, <1>2, <1>6
<1> QED
  BY <1>3, <1>4, <1>5, <1>6, VersionSteps DEF vars

\* A client pins only what it can read.
LEMMA PinsKeptStep ==
    ASSUME Stored, [Next]_vars, objects \subseteq objects'
    PROVE  PinsKept'
<1>1. UploadNext => UNCHANGED pins
  BY DEF UploadNext, CreateLeaf, BeginStage, DiscardUpload, StorePayload, FinishStage, FailStage
<1>2. LeaseNext => UNCHANGED pins
  BY DEF LeaseNext, DropLeaf, Acquire, Activate, Release, Revoke, Withdraw, Edit, Discard
<1>3. PublicationNext => UNCHANGED pins
  BY DEF PublicationNext, AbortUnsubmitted, Propose, BeginPrepare, CheckCommit, Abort,
     PinCandidate, StoreCandidate, ReadyCandidate, FailPrepare, VerifyCommit, Commit, FailCommit
<1>4. BatchNext => UNCHANGED pins
  BY DEF BatchNext, BeginPrepareBatch, CheckCommitBatch, PinBatch, StoreBatch, ReadyBatch,
     FailPrepareBatch, VerifyCommitBatch, CommitBatch, FailCommitBatch
<1>5. ResolutionNext => UNCHANGED pins
  BY DEF ResolutionNext, Resolve
<1>6. ASSUME NEW new, ReplaceClientPins(new)
      PROVE  PinsKept'
  BY <1>6 DEF ReplaceClientPins, Stored, FilesOK, PinsKept
<1>7. PruneHistory \/ Collect \/ InterruptedCollect \/ (\E v \in Version : Retain(v) \/ ReleaseRetention(v))
        => UNCHANGED pins
  BY DEF PruneHistory, Collect, InterruptedCollect, Retain, ReleaseRetention
<1>8. UNCHANGED pins => PinsKept'
  BY DEF Stored, FilesOK, PinsKept
<1> QED
  BY <1>1, <1>2, <1>3, <1>4, <1>5, <1>6, <1>7, <1>8 DEF Next, MaintenanceNext, vars

\* A step unlinks or it does not.
LEMMA StoredStep ==
    ASSUME Typed, IInv, BasesAreRetained, Stored, [Next]_vars
    PROVE  Stored'
<1>1. CASE objects \subseteq objects' /\ manifests \subseteq manifests'
  BY <1>1, StepsStep, StagesStep, ValuesStep, BodiesStep, CandidatesKeptStep, EpochsStep, PinsKeptStep
     DEF Stored, FilesOK
<1> QED
  BY <1>1, SweepSteps, SweepStep

\* Import stored what the first version, its uploads and its holds name.
LEMMA StoredInit == Init => Stored
<1> SUFFICES ASSUME Init PROVE Stored
  OBVIOUS
<1>1. /\ objects = ObjectsOf(InitialTree) \cup {InitialUploads[i][2] : i \in DOMAIN InitialUploads}
      /\ manifests = {EmptyTree, InitialTree}
      /\ stages = {} /\ prepares = {} /\ batchPrepares = {} /\ pins = {}
      /\ \A r \in Request : ~Pending(r)
  BY DEF Init, Pending
<1>2. \A p \in Path : In(objects, InitialTree[p])
  BY <1>1 DEF In, ObjectsOf, Present
<1>3. EpochsKept
  <2>1. ObjectsOf(EmptyTree) = {}
    BY DEF ObjectsOf, Present, EmptyTree
  <2>2. \A v \in Version : epochs[v] \in {EmptyTree, InitialTree, None}
    BY DEF Init
  <2> QED
    BY <1>1, <2>1, <2>2 DEF EpochsKept, Readable
<1>4. ViewsKept
  <2> SUFFICES ASSUME NEW k \in LeafId \X Path, views[k] # None
               PROVE  In(objects, views[k].origin) /\ In(objects, views[k].value)
    BY DEF ViewsKept
  <2>1. views[k] = [origin |-> InitialTree[k[2]], value |-> InitialTree[k[2]]]
    BY DEF Init
  <2> QED
    BY <1>2, <2>1
<1>5. LeasesKept
  <2> SUFFICES ASSUME NEW p \in Path, leases[p] # None
               PROVE  In(objects, leases[p].origin)
    BY DEF LeasesKept
  <2>1. leases[p].origin = InitialTree[p]
    BY DEF Init
  <2> QED
    BY <1>2, <2>1
<1>6. ASSUME NEW k \in LeafId \X Object, uploads[k] # None
      PROVE  k[2] \in objects /\ uploads[k].generation < nextToken
  <2>1. /\ \E i \in DOMAIN InitialUploads : InitialUploads[i] = k
        /\ uploads[k] = [ready |-> TRUE,
                         generation |-> CHOOSE i \in DOMAIN InitialUploads : InitialUploads[i] = k]
    BY <1>6 DEF Init
  <2>2. PICK i \in DOMAIN InitialUploads : InitialUploads[i] = k /\ uploads[k].generation = i
    BY <2>1
  <2>3. i \in 1..Len(InitialUploads) /\ Len(InitialUploads) \in Nat /\ Len(InitialHolds) \in Nat
    BY <2>2, InitialAssumption
  <2>4. nextToken = Len(InitialUploads) + Len(InitialHolds) + 1
    BY DEF Init
  <2> QED
    BY <1>1, <2>2, <2>3, <2>4
<1> QED
  BY <1>1, <1>3, <1>4, <1>5, <1>6
     DEF Stored, FilesOK, StagesOK, StepsOK, CandidatesKept, BodiesKept, UploadsKept, PinsKept

\* Every payload and manifest that an epoch, a ready candidate, a view, a lease,
\* a pending capture, a ready upload or a client pin names is in the store,
\* wherever maintenance cuts into the calls that store and name files
\* (maintenance.rs protected_objects, database.rs stage, publication.rs prepare).
THEOREM ReachableBytesStay == Spec => []PinnedBytesPresent
<1>1. Typed /\ IInv /\ BasesAreRetained /\ Stored /\ [Next]_vars => Stored'
  BY StoredStep
<1>2. Stored => PinnedBytesPresent
  BY FilesArePinned DEF Stored
<1> QED
  BY <1>1, <1>2, StoredInit, AlwaysBases, PTL DEF Spec
=============================================================================
