------------------------------- MODULE Tables -------------------------------
(***************************************************************************)
(* The durable state of the metadata authority (crates/metadata): its      *)
(* SQLite tables, the content-addressed object store beside them, and the  *)
(* calls that are between two of their transactions.                       *)
(*                                                                         *)
(* A table is a function from its primary key to a row, or to None.  A     *)
(* snapshot manifest is identified with the tree it encodes, because its   *)
(* ObjectId is a digest of that tree.  Edit revisions, input digests and   *)
(* byte limits are left out: no guard that changes state reads them.       *)
(***************************************************************************)
EXTENDS Integers, FiniteSets, Sequences

CONSTANTS
    Path,             \* resource paths, each the sequence of its components
    Rank,             \* the byte order of paths in a BTreeSet
    Object,           \* content identities of payloads
    None,             \* SQL NULL, an absent row, an absent file
    Calls,            \* the operations this instance's clients use
    InitialTree,      \* the tree import published as version 1
    InitialLeaves,    \* leaves created before the behaviour starts
    InitialUploads,   \* <<leaf, object>> pairs staged before it starts
    InitialHolds,     \* <<leaf, path>> pairs then acquired and activated
    MaxLeaves, MaxPaths, MaxPending, RetainedEpochs, RetainedReceipts,
                      \* Limits, fixed when the authority is created
    MaxLeafId, MaxToken, MaxVersion, MaxSequence, MaxAttempt,
                      \* the last value of each checked counter
    MaxCalls          \* bound on calls in flight at once

LeafId   == 1..MaxLeafId
Token    == 1..MaxToken
Version  == 0..MaxVersion
Sequence == 1..MaxSequence
Attempt  == 0..MaxAttempt
Request  == LeafId \X Sequence
Imported == 1         \* the version finish_import publishes

Entry    == [object : Object, scope : Path \cup {None}]
Value    == Entry \cup {None}
Snapshot == [Path -> Value]
Change   == [token : Token, origin : Value, value : Value]
Changes  == [Path -> Change \cup {None}]

Lease    == [leaf : LeafId, token : Token, origin : Value, activated : BOOLEAN]
View     == [origin : Value, value : Value]
Upload   == [ready : BOOLEAN, generation : Token]
Proposal == [state : {"pending", "committed", "aborted"},
             body : Changes \cup {None}, capturedAt : Version,
             attempt : Attempt, parent : Version \cup {None},
             root : Snapshot \cup {None}, ready : BOOLEAN,
             committed : Version \cup {None},
             batch : SUBSET Request]    \* {}: batch_id is NULL

-----------------------------------------------------------------------------
(* Paths and trees *)

\* ResourcePath::contains: the path itself or an ancestor of it.
Contains(p, q) == Len(p) <= Len(q) /\ SubSeq(q, 1, Len(p)) = p
Overlaps(p, q) == Contains(p, q) \/ Contains(q, p)

EmptyTree == [p \in Path |-> None]
Present(tree) == {p \in Path : tree[p] # None}
ObjectsOf(tree) == {tree[p].object : p \in Present(tree)}
Scopes(tree) == {tree[p].scope : p \in Present(tree)} \ {None}

Touched(changes) == {p \in Path : changes[p] # None}
Overlay(tree, changes) ==
    [p \in Path |-> IF changes[p] = None THEN tree[p] ELSE changes[p].value]

\* Mutant: entries are counted, files inside files are not noticed.
OnlyCounted(tree) == Cardinality(Present(tree)) <= MaxPaths

\* validate_namespace: bounded, scoped entries inside their scope, and no
\* file at an ancestor of another file.
ValidNamespace(tree) ==
    /\ Cardinality(Present(tree)) <= MaxPaths
    /\ \A p \in Present(tree) :
        /\ tree[p].scope # None => Contains(tree[p].scope, p)
        /\ \A q \in Present(tree) : Contains(q, p) => q = p
-----------------------------------------------------------------------------
ASSUME CountersAssumption ==
    /\ {MaxLeaves, MaxPaths, MaxPending, RetainedEpochs, RetainedReceipts} \subseteq Nat \ {0}
    /\ {MaxLeafId, MaxToken, MaxVersion, MaxSequence} \subseteq Nat \ {0}
    /\ {MaxAttempt, MaxCalls} \subseteq Nat

ASSUME PathAssumption ==
    /\ Path \subseteq Seq(STRING) \ {<<>>}
    /\ IsFiniteSet(Path)
    /\ Rank \in [Path -> Nat]
    /\ \A p, q \in Path : Rank[p] = Rank[q] => p = q

ASSUME NoneAssumption ==
    /\ None \notin Path \cup Entry \cup Change \cup Lease \cup View \cup Upload
    /\ None \notin Proposal \cup Snapshot \cup Changes \cup Nat
    /\ None \notin [root : Snapshot, members : SUBSET Request]
    /\ None \notin [at : Version, changes : Changes]

ASSUME InitialAssumption ==
    /\ InitialTree \in Snapshot
    /\ InitialLeaves \in 0..MaxLeafId - 1
    /\ InitialLeaves <= MaxLeaves
    /\ InitialUploads \in Seq((1..InitialLeaves) \X Object)
    /\ InitialHolds \in Seq((1..InitialLeaves) \X Path)
    /\ \A i, j \in DOMAIN InitialHolds :
        /\ Overlaps(InitialHolds[i][2], InitialHolds[j][2]) => InitialHolds[i][1] = InitialHolds[j][1]
        /\ InitialHolds[i][2] = InitialHolds[j][2] => i = j
        /\ \A s \in Scopes(InitialTree) : ~Overlaps(s, InitialHolds[i][2])
    /\ Len(InitialHolds) <= MaxPaths
    /\ Len(InitialUploads) <= MaxPending
    /\ Len(InitialUploads) + Len(InitialHolds) < MaxToken
    /\ ValidNamespace(InitialTree)

VARIABLES
    leaves,           \* leaves:  [LeafId -> next_sequence or None]
    nextLeaf,         \* settings.next_leaf
    nextToken,        \* settings.next_token, shared by leases and uploads
    leases,           \* leases:  [Path -> Lease or None]
    views,            \* views:   [LeafId \X Path -> View or None]
    uploads,          \* uploads: [LeafId \X Object -> Upload or None]
    tip,              \* settings.tip
    epochs,           \* epochs:  [Version -> Snapshot or None]
    retained,         \* manual snapshot pins
    proposals,        \* proposals: [Request -> Proposal or None]
    pins,             \* client_pins
    objects,          \* payload files in the object directory
    manifests,        \* manifest files in the object directory
    stages,           \* stage calls between their two transactions
    prepares,         \* prepare calls after their first transaction
    commits,          \* commit calls between check and final transaction
    batchPrepares,    \* the same for prepare_batch
    batchCommits,     \* the same for commit_batch
    sweeps,           \* maintain calls between pruning and collection
    history,          \* ghost: every version ever published, never pruned
    captured          \* ghost: what each request captured, never erased

leafVars        == <<leaves, nextLeaf>>
leaseVars       == <<leases, views>>
uploadVars      == <<uploads, stages>>
versionVars     == <<tip, epochs, history>>
proposalVars    == <<proposals, captured>>
storeVars       == <<objects, manifests>>
candidateVars   == <<prepares, commits, batchPrepares, batchCommits>>
maintenanceVars == <<retained, pins, sweeps>>

vars == <<leaves, nextLeaf, nextToken, leases, views, uploads, tip, epochs, retained,
          proposals, pins, objects, manifests, stages, prepares, commits, batchPrepares,
          batchCommits, sweeps, history, captured>>
-----------------------------------------------------------------------------
(* Queries the operations share *)

Active(l) == leaves[l] # None
Tip == epochs[tip]
TipReadable == Tip \in manifests
Readable(tree) == tree \in manifests /\ ObjectsOf(tree) \subseteq objects

Pending(r) == proposals[r] # None /\ proposals[r].state = "pending"
PendingRequests == {r \in Request : Pending(r)}
StoredRequests  == {r \in Request : proposals[r] # None}
StoredEpochs    == {v \in Version : epochs[v] # None}

\* Mutants: validation that forgets who holds the path, the token, or the origin.
ValidateOrigin(r, tree) ==
    /\ Active(r[1])
    /\ \A p \in Touched(proposals[r].body) : tree[p] = proposals[r].body[p].origin
ValidateHolder(r, tree) ==
    /\ Active(r[1])
    /\ \A p \in Touched(proposals[r].body) :
        /\ leases[p] # None
        /\ leases[p].leaf = r[1]
        /\ leases[p].activated
        /\ tree[p] = proposals[r].body[p].origin
ValidateToken(r, tree) ==
    /\ Active(r[1])
    /\ \A p \in Touched(proposals[r].body) :
        /\ leases[p] # None
        /\ leases[p].leaf = r[1]
        /\ leases[p].token = proposals[r].body[p].token

\* publication::validate: the captured tokens still hold every changed path
\* and the captured origins still are what the snapshot holds there.
Validate(r, tree) ==
    /\ Active(r[1])
    /\ \A p \in Touched(proposals[r].body) :
        /\ leases[p] # None
        /\ leases[p].leaf = r[1]
        /\ leases[p].token = proposals[r].body[p].token
        /\ leases[p].activated
        /\ tree[p] = proposals[r].body[p].origin

\* publication::admit_proposal: room for one more request and one more epoch.
RequestBudget == 2 * RetainedReceipts + MaxPending
EpochBudget == RetainedEpochs + 4 * MaxPending + 2 * RetainedReceipts

\* Mutant: one request too many.
AdmitOneMore ==
    /\ Cardinality(StoredRequests) <= RequestBudget
    /\ Cardinality(StoredEpochs) + Cardinality(PendingRequests) <= EpochBudget

AdmitProposal ==
    /\ Cardinality(StoredRequests) < RequestBudget
    /\ Cardinality(StoredEpochs) + Cardinality(PendingRequests) < EpochBudget

\* Mutant: the candidate columns are cleared, the state is not.
RetiredCandidate(row) == [row EXCEPT !.parent = None, !.root = None, !.ready = FALSE]

\* Every statement that retires a proposal clears the same columns.
Retired(row) ==
    [row EXCEPT !.state = "aborted", !.body = None, !.parent = None,
                !.root = None, !.ready = FALSE]

CallSlot ==
    Cardinality(stages) + Cardinality(prepares) + Cardinality(commits)
        + Cardinality(batchPrepares) + Cardinality(batchCommits) + sweeps < MaxCalls
-----------------------------------------------------------------------------
(* The authority just after import, once InitialLeaves leaves were created *)
(* and InitialUploads and InitialHolds were acknowledged: the state those  *)
(* calls leave behind.                                                     *)
Init ==
    /\ leaves = [l \in LeafId |-> IF l <= InitialLeaves THEN 1 ELSE None]
    /\ nextLeaf = InitialLeaves + 1
    /\ nextToken = Len(InitialUploads) + Len(InitialHolds) + 1
    /\ leases = [p \in Path |->
         IF \E i \in DOMAIN InitialHolds : InitialHolds[i][2] = p
         THEN LET i == CHOOSE j \in DOMAIN InitialHolds : InitialHolds[j][2] = p
              IN  [leaf |-> InitialHolds[i][1], token |-> Len(InitialUploads) + i,
                   origin |-> InitialTree[p], activated |-> TRUE]
         ELSE None]
    /\ views = [k \in LeafId \X Path |->
         IF \E i \in DOMAIN InitialHolds : InitialHolds[i] = k
         THEN [origin |-> InitialTree[k[2]], value |-> InitialTree[k[2]]]
         ELSE None]
    /\ uploads = [k \in LeafId \X Object |->
                    IF \E i \in DOMAIN InitialUploads : InitialUploads[i] = k
                    THEN [ready |-> TRUE,
                          generation |-> CHOOSE i \in DOMAIN InitialUploads : InitialUploads[i] = k]
                    ELSE None]
    /\ tip = Imported
    /\ epochs = [v \in Version |-> IF v = 0 THEN EmptyTree
                                   ELSE IF v = Imported THEN InitialTree ELSE None]
    /\ retained = {}
    /\ proposals = [r \in Request |-> None]
    /\ pins = {}
    /\ objects = ObjectsOf(InitialTree)
                    \cup {InitialUploads[i][2] : i \in DOMAIN InitialUploads}
    /\ manifests = {EmptyTree, InitialTree}
    /\ stages = {} /\ prepares = {} /\ commits = {}
    /\ batchPrepares = {} /\ batchCommits = {} /\ sweeps = 0
    /\ history = [v \in Version |->
                    IF epochs[v] = None THEN None
                    ELSE [root |-> epochs[v], members |-> {}]]
    /\ captured = [r \in Request |-> None]
=============================================================================
