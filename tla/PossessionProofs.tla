--------------------------- MODULE PossessionProofs -------------------------
(***************************************************************************)
(* What holding a path means, for every value of the constants.            *)
(*                                                                         *)
(* Fencing: between the capture of a published change and its publication, *)
(* nobody but the capturing leaf published the path, although its lease    *)
(* may have been withdrawn, given to another leaf and taken back, and the  *)
(* value may be the same again.  Tokens are never reused, so a path whose  *)
(* lease still carries a captured token was held by the same leaf ever     *)
(* since, and a publication needs every written path's lease.              *)
(*                                                                         *)
(* Also: an activated lease has its view, leases and views stay within     *)
(* max_paths, nothing touches a read-only scope, and every version is a    *)
(* tree a filesystem can hold.  Last, the whole authority implements what  *)
(* ReservedTree promises to clients.                                       *)
(***************************************************************************)
EXTENDS AuthorityProofs

USE DEF leafVars, leaseVars, uploadVars, versionVars, proposalVars, storeVars, candidateVars,
        maintenanceVars

\* Only r's own leaf published p in the versions from..to.
OnlyOwnLeaf(r, p, from, to) ==
    \A u \in Version : from <= u /\ u <= to => \A s \in Authors(u, p) : s[1] = r[1]

\* A captured token is older than any token still to be drawn; if the path's
\* lease still carries it, r's leaf held the path since r was captured.
TokensOK ==
    /\ \A p \in Path : leases[p] # None => leases[p].token < nextToken
    /\ \A r \in Request : captured[r] # None =>
        \A p \in Path : captured[r].changes[p] # None =>
            captured[r].changes[p].token < nextToken
    /\ \A r \in Request : \A p \in Path :
        /\ Pending(r)
        /\ captured[r].changes[p] # None
        /\ leases[p] # None
        /\ leases[p].token = captured[r].changes[p].token
        => /\ leases[p].leaf = r[1]
           /\ OnlyOwnLeaf(r, p, captured[r].at + 1, tip)
-----------------------------------------------------------------------------
(* Tokens only grow *)

\* The operations that draw a token.
LEMMA TokenSteps ==
    ASSUME Next
    PROVE  \/ UNCHANGED nextToken
           \/ \E l \in LeafId, o \in Object : BeginStage(l, o)
           \/ \E l \in LeafId, paths \in SUBSET Path : Acquire(l, paths)
<1>1. CASE UploadNext
  BY <1>1 DEF UploadNext, CreateLeaf, DiscardUpload, StorePayload, FinishStage, FailStage
<1>2. CASE LeaseNext
  BY <1>2 DEF LeaseNext, Release, Revoke, Withdraw, Activate, DropLeaf, Edit, Discard
<1>3. CASE PublicationNext
  BY <1>3 DEF PublicationNext, AbortUnsubmitted, Propose, BeginPrepare, CheckCommit, Abort, Commit,
     PinCandidate, StoreCandidate, ReadyCandidate, FailPrepare, VerifyCommit, FailCommit
<1>4. CASE BatchNext
  BY <1>4 DEF BatchNext, BeginPrepareBatch, CheckCommitBatch, PinBatch, StoreBatch, ReadyBatch,
     FailPrepareBatch, VerifyCommitBatch, FailCommitBatch, CommitBatch
<1>5. CASE ResolutionNext
  BY <1>5 DEF ResolutionNext, Resolve
<1>6. CASE MaintenanceNext
  BY <1>6 DEF MaintenanceNext, Retain, ReleaseRetention, ReplaceClientPins, PruneHistory, Collect,
     InterruptedCollect
<1> QED
  BY <1>1, <1>2, <1>3, <1>4, <1>5, <1>6 DEF Next

\* acquire draws one token for each path it reserves.
LEMMA AcquiredTokens ==
    ASSUME Typed, NEW l \in LeafId, NEW paths \in SUBSET Path, Acquire(l, paths)
    PROVE  /\ nextToken <= nextToken'
           /\ \A p \in Path : leases'[p] # None =>
                \/ leases'[p] = leases[p]
                \/ nextToken <= leases'[p].token /\ leases'[p].token < nextToken'
<1> DEFINE fresh == {p \in paths : leases[p] = None}
           last == nextToken + Cardinality(fresh) - 1
<1>1. Cardinality(fresh) \in Nat
  <2>1. IsFiniteSet(Path)
    BY PathAssumption
  <2>2. IsFiniteSet(fresh)
    BY <2>1, FS_Subset
  <2> QED
    BY <2>2, FS_CardinalityType
<1>2. nextToken \in Nat /\ nextToken' = last + 1
  BY DEF Acquire, Typed, TypeOK, Token
<1>3. PICK token \in [fresh -> nextToken..last] :
         leases' = [p \in Path |->
             IF p \in fresh
             THEN [leaf |-> l, token |-> token[p], origin |-> Tip[p], activated |-> FALSE]
             ELSE leases[p]]
  BY DEF Acquire
<1>4. ASSUME NEW p \in Path, leases'[p] # leases[p]
      PROVE  leases'[p].token \in nextToken..last
  <2>1. p \in fresh /\ leases'[p].token = token[p]
    BY <1>3, <1>4
  <2> QED
    BY <1>3, <2>1
<1> HIDE DEF fresh
<1> QED
  BY <1>1, <1>2, <1>4

\* A lease after a step is one from before it, with the same holder and token,
\* or carries a token that nobody had before.
LEMMA LeaseTokens ==
    ASSUME Typed, [Next]_vars
    PROVE  /\ nextToken <= nextToken'
           /\ \A p \in Path : leases'[p] # None =>
                \/ /\ leases[p] # None
                   /\ leases'[p].leaf = leases[p].leaf
                   /\ leases'[p].token = leases[p].token
                \/ nextToken <= leases'[p].token /\ leases'[p].token < nextToken'
<1> DEFINE Kept(p) == /\ leases[p] # None
                      /\ leases'[p].leaf = leases[p].leaf
                      /\ leases'[p].token = leases[p].token
           Goal == \A p \in Path : leases'[p] # None =>
                \/ Kept(p)
                \/ nextToken <= leases'[p].token /\ leases'[p].token < nextToken'
<1> USE DEF Typed, TypeOK
<1>1. nextToken <= nextToken'
  <2>1. nextToken \in Nat
    BY DEF Token
  <2>2. UNCHANGED nextToken \/ nextToken' = nextToken + 1 => nextToken <= nextToken'
    BY <2>1
  <2>3. \A l \in LeafId, o \in Object : BeginStage(l, o) => nextToken' = nextToken + 1
    BY DEF BeginStage
  <2> QED
    BY <2>2, <2>3, TokenSteps, AcquiredTokens DEF vars
<1>2. UNCHANGED leases => Goal
  OBVIOUS
<1>3. ASSUME NEW l \in LeafId, DropLeaf(l)
      PROVE  Goal
  BY <1>3 DEF DropLeaf
<1>4. ASSUME NEW l \in LeafId, NEW paths \in SUBSET Path, Acquire(l, paths)
      PROVE  Goal
  BY <1>4, AcquiredTokens
<1>5. ASSUME NEW p \in Path, Activate(p)
      PROVE  Goal
  <2>1. /\ leases[p] \in Lease
        /\ leases' = [leases EXCEPT ![p] = [leases[p] EXCEPT !.activated = TRUE]]
    BY <1>5 DEF Activate
  <2>2. Kept(p)
    BY <1>5, <2>1 DEF Activate, Lease
  <2> QED
    BY <2>1, <2>2
<1>6. ASSUME NEW p \in Path, Withdraw(p)
      PROVE  Goal
  BY <1>6 DEF Withdraw
<1>7. ASSUME NEW members \in SUBSET PendingRequests, NEW root, Publish(members, root)
      PROVE  Goal
  BY <1>7, PublishKeepsHolders
<1>8. ASSUME NEW c \in commits, Commit(c)
      PROVE  Goal
  <2>1. {c.request} \in SUBSET PendingRequests /\ Publish({c.request}, c.root)
    BY <1>8, PublishSteps DEF Commit
  <2> QED
    BY <1>7, <2>1
<1>9. ASSUME NEW b \in batchCommits, CommitBatch(b)
      PROVE  Goal
  <2>1. b.members \in SUBSET PendingRequests /\ Publish(b.members, b.root)
    BY <1>9, PublishSteps DEF CommitBatch
  <2> QED
    BY <1>7, <2>1
<1>10. Goal
  BY <1>2, <1>3, <1>4, <1>5, <1>6, <1>8, <1>9, LeaseSteps DEF vars
<1> QED
  BY <1>1, <1>10
-----------------------------------------------------------------------------
(* Captures *)

\* What a capture may freeze: the leaf's value, or a value somebody already captured.
Captures(value, l, p) ==
    \/ value = views[<<l, p>>].value
    \/ \E s \in PendingRequests : proposals[s].body[p] # None /\ value = proposals[s].body[p].value

\* A new capture is taken at the tip, on paths its leaf holds, under the tokens
\* they are held by, against the origin of the leaf's view.
LEMMA NewCapture ==
    ASSUME Typed, RequestsOK, [Next]_vars, NEW r \in Request,
           captured[r] = None, captured'[r] # None
    PROVE  /\ captured'[r].at = tip
           /\ \A p \in Path : captured'[r].changes[p] # None =>
                /\ leases[p] # None
                /\ leases[p].leaf = r[1]
                /\ leases[p].token = captured'[r].changes[p].token
                /\ views[<<r[1], p>>] # None
                /\ captured'[r].changes[p].origin = views[<<r[1], p>>].origin
                /\ Captures(captured'[r].changes[p].value, r[1], p)
           /\ UNCHANGED <<leases, tip, history, nextToken>>
<1> DEFINE Goal == /\ captured'[r].at = tip
                   /\ \A p \in Path : captured'[r].changes[p] # None =>
                        /\ leases[p] # None
                        /\ leases[p].leaf = r[1]
                        /\ leases[p].token = captured'[r].changes[p].token
                        /\ views[<<r[1], p>>] # None
                        /\ captured'[r].changes[p].origin = views[<<r[1], p>>].origin
                        /\ Captures(captured'[r].changes[p].value, r[1], p)
                   /\ UNCHANGED <<leases, tip, history, nextToken>>
<1> USE DEF Typed, TypeOK
<1>1. ASSUME NEW l \in LeafId, NEW changes,
             captured' = [captured EXCEPT ![<<l, leaves[l]>>] = [at |-> tip, changes |-> changes]],
             \A p \in Path : changes[p] # None =>
                /\ leases[p] # None
                /\ leases[p].leaf = l
                /\ leases[p].token = changes[p].token
                /\ views[<<l, p>>] # None
                /\ changes[p].origin = views[<<l, p>>].origin
                /\ Captures(changes[p].value, l, p),
             UNCHANGED <<leases, tip, history, nextToken>>
      PROVE  Goal
  <2>1. r = <<l, leaves[l]>>
    BY <1>1
  <2>2. captured'[r] = [at |-> tip, changes |-> changes] /\ r[1] = l
    BY <1>1, <2>1
  <2> QED
    BY <1>1, <2>2
<1>2. ASSUME NEW l \in LeafId, NEW paths \in SUBSET Path, Propose(l, paths)
      PROVE  Goal
  <2> DEFINE changes == [p \in Path |->
            IF p \in paths
            THEN [token |-> leases[p].token, origin |-> views[<<l, p>>].origin,
                  value |-> views[<<l, p>>].value]
            ELSE None]
  <2>1. /\ captured' = [captured EXCEPT ![<<l, leaves[l]>>] = [at |-> tip, changes |-> changes]]
        /\ UNCHANGED <<leases, tip, history, nextToken>>
    BY <1>2 DEF Propose
  <2>2. \A p \in Path : changes[p] # None =>
            /\ leases[p] # None
            /\ leases[p].leaf = l
            /\ leases[p].token = changes[p].token
            /\ views[<<l, p>>] # None
            /\ changes[p].origin = views[<<l, p>>].origin
            /\ Captures(changes[p].value, l, p)
    BY <1>2 DEF Propose, Capturable, Dirty, Captures
  <2> HIDE DEF changes
  <2> QED
    BY <1>1, <2>1, <2>2
<1>3. CASE ResolutionNext
  <2>1. PICK l \in LeafId : \E sources \in SUBSET {s \in PendingRequests : s[1] = l} :
           \E choices \in [SourcePaths(sources) -> sources] : Resolve(l, sources, choices)
    BY <1>3 DEF ResolutionNext
  <2>2. PICK sources \in SUBSET {s \in PendingRequests : s[1] = l} :
           \E choices \in [SourcePaths(sources) -> sources] : Resolve(l, sources, choices)
    BY <2>1
  <2>3. PICK choices \in [SourcePaths(sources) -> sources] : Resolve(l, sources, choices)
    BY <2>2
  <2> DEFINE changes == SelectedChanges(l, choices)
  <2>4. /\ captured' = [captured EXCEPT ![<<l, leaves[l]>>] = [at |-> tip, changes |-> changes]]
        /\ UNCHANGED <<leases, tip, history, nextToken>>
    BY <2>3 DEF Resolve
  <2>5. \A p \in Path : changes[p] # None =>
            /\ leases[p] # None
            /\ leases[p].leaf = l
            /\ leases[p].token = changes[p].token
            /\ views[<<l, p>>] # None
            /\ changes[p].origin = views[<<l, p>>].origin
            /\ Captures(changes[p].value, l, p)
    <3>1. \A p \in Path : changes[p] # None => p \in DOMAIN choices
      BY DEF SelectedChanges
    <3>2. \A p \in DOMAIN choices : choices[p] \in PendingRequests /\ proposals[choices[p]].body[p] # None
      BY <2>3 DEF Resolve
    <3> QED
      BY <2>3, <3>1, <3>2 DEF Resolve, Authorized, SelectedChanges, Captures
  <2> HIDE DEF changes
  <2> QED
    BY <1>1, <2>4, <2>5
<1> QED
  BY <1>2, <1>3, CaptureSteps DEF vars

\* The authors of a version that is there do not change.
LEMMA AuthorsAreStable ==
    ASSUME Typed, IInv, [Next]_vars, NEW v \in Version, v <= tip, NEW p \in Path
    PROVE  Authors(v, p)' = Authors(v, p)
<1>1. history'[v] = history[v] /\ history[v] # None
  BY VersionsAreStable DEF IInv, VersionsOK
<1>2. \A r \in history[v].members : captured'[r] = captured[r]
  BY <1>1, CapturedIsStable DEF IInv, VersionsOK, AllCaptured
<1> QED
  BY <1>1, <1>2 DEF Authors

\* Whoever a step lets publish a path holds the path's lease.
LEMMA NewAuthors ==
    ASSUME Typed, IInv, [Next]_vars, NEW v \in Version, tip < v, v <= tip',
           NEW p \in Path, NEW s \in Authors(v, p)'
    PROVE  /\ v = tip + 1
           /\ Pending(s) /\ s \in Request
           /\ captured[s] # None
           /\ captured'[s] = captured[s]
           /\ captured[s].changes[p] # None
           /\ leases[p] # None
           /\ leases[p].leaf = s[1]
           /\ leases[p].token = captured[s].changes[p].token
<1>1. tip \in Nat /\ tip' \in Nat /\ v \in Nat
  <2>1. tip \in Version /\ tip' \in Version
    BY TypedStep DEF Typed, TypeOK
  <2> QED
    BY <2>1, CountersAssumption DEF Version
<1>2. PICK members \in SUBSET Request, root \in Snapshot : Publishes(members, root)
  BY <1>1, PublishingSteps
<1>3. /\ tip' = tip + 1
      /\ history' = [history EXCEPT ![tip + 1] = [root |-> root, members |-> members]]
  BY <1>2 DEF Publishes, Publish
<1>4. v = tip + 1
  BY <1>1, <1>3
<1>5. history'[v] = [root |-> root, members |-> members]
  BY <1>3, <1>4 DEF Typed, TypeOK
<1>6. s \in members /\ captured'[s].changes[p] # None
  BY <1>5 DEF Authors
<1>7. s \in Request /\ Pending(s) /\ captured[s] # None
  BY <1>2, <1>6 DEF Publishes, PendingRequests, IInv, RequestsOK
<1>8. captured'[s] = captured[s]
  BY <1>7, CapturedIsStable DEF IInv
<1> QED
  BY <1>2, <1>4, <1>6, <1>7, <1>8 DEF Publishes
-----------------------------------------------------------------------------
LEMMA TokensStep ==
    ASSUME Typed, IInv, TokensOK, [Next]_vars
    PROVE  TokensOK'
<1>1. /\ nextToken \in Nat /\ nextToken' \in Nat
      /\ tip \in Nat /\ tip' \in Nat
      /\ nextToken <= nextToken'
  <2>1. tip \in Version /\ tip' \in Version /\ nextToken \in Token /\ nextToken' \in Token
    BY TypedStep DEF Typed, TypeOK
  <2> QED
    BY <2>1, LeaseTokens, CountersAssumption DEF Version, Token
<1>2. \A p \in Path : leases[p] # None => leases[p].token \in Nat
  BY DEF Typed, TypeOK, Lease, Token
<1>3. \A r \in Request : captured[r] # None => captured'[r] = captured[r]
  BY CapturedIsStable DEF IInv
<1>4. ASSUME NEW p \in Path, leases'[p] # None
      PROVE  leases'[p].token < nextToken'
  BY <1>1, <1>2, <1>4, LeaseTokens DEF TokensOK
<1>5. ASSUME NEW r \in Request, captured[r] # None, NEW p \in Path, captured[r].changes[p] # None
      PROVE  captured[r].changes[p].token \in Nat
  <2>1. captured[r].changes \in Changes
    BY <1>5 DEF Typed, TypeOK
  <2> QED
    BY <1>5, <2>1 DEF Changes, Change, Token
<1>6. ASSUME NEW r \in Request, captured'[r] # None, NEW p \in Path, captured'[r].changes[p] # None
      PROVE  captured'[r].changes[p].token < nextToken'
  <2>1. CASE captured[r] # None
    BY <1>1, <1>3, <1>5, <1>6, <2>1 DEF TokensOK
  <2>2. CASE captured[r] = None
    BY <1>6, <2>2, NewCapture DEF TokensOK, IInv
  <2> QED
    BY <2>1, <2>2
<1>7. ASSUME NEW r \in Request, NEW p \in Path,
             Pending(r)', captured'[r].changes[p] # None, leases'[p] # None,
             leases'[p].token = captured'[r].changes[p].token
      PROVE  /\ leases'[p].leaf = r[1]
             /\ OnlyOwnLeaf(r, p, captured[r].at + 1, tip)'
  <2>1. captured'[r] # None
    BY <1>7, IInvStep DEF IInv, RequestsOK
  <2>2. CASE captured[r] = None
    <3>1. captured'[r].at = tip /\ tip' = tip /\ leases'[p].leaf = r[1]
      BY <1>7, <2>1, <2>2, NewCapture DEF IInv
    <3>2. OnlyOwnLeaf(r, p, captured[r].at + 1, tip)'
      BY <1>1, <3>1 DEF OnlyOwnLeaf, Version
    <3> QED
      BY <3>1, <3>2
  <2>3. CASE captured[r] # None
    <3>1. Pending(r) /\ captured'[r] = captured[r]
      BY <1>3, <1>7, <2>3, RowSteps DEF RowStep, IInv
    <3>2. ~(nextToken <= leases'[p].token)
      BY <1>1, <1>5, <1>7, <2>3, <3>1 DEF TokensOK
    <3>3. /\ leases[p] # None
          /\ leases'[p].leaf = leases[p].leaf
          /\ leases'[p].token = leases[p].token
      BY <1>7, <3>2, LeaseTokens
    <3>4. leases[p].leaf = r[1] /\ OnlyOwnLeaf(r, p, captured[r].at + 1, tip)
      BY <1>7, <3>1, <3>3 DEF TokensOK
    <3>5. ASSUME NEW u \in Version, captured[r].at + 1 <= u, u <= tip', NEW s \in Authors(u, p)'
          PROVE  s[1] = r[1]
      <4>1. CASE u <= tip
        BY <3>4, <3>5, <4>1, AuthorsAreStable DEF OnlyOwnLeaf
      <4>2. CASE tip < u
        BY <3>4, <3>5, <4>2, NewAuthors
      <4> QED
        BY <1>1, <4>1, <4>2 DEF Version
    <3>6. OnlyOwnLeaf(r, p, captured[r].at + 1, tip)'
      BY <3>1, <3>5 DEF OnlyOwnLeaf
    <3> QED
      BY <3>3, <3>4, <3>6
  <2> QED
    BY <2>2, <2>3
<1> QED
  BY <1>4, <1>6, <1>7 DEF TokensOK

LEMMA FencedStep ==
    ASSUME Typed, IInv, TokensOK, CaptureIsFenced, [Next]_vars
    PROVE  CaptureIsFenced'
<1>1. tip \in Nat /\ tip' \in Nat /\ Version \subseteq Nat
  <2>1. tip \in Version /\ tip' \in Version
    BY TypedStep DEF Typed, TypeOK
  <2>2. Version \subseteq Nat
    BY CountersAssumption DEF Version
  <2> QED
    BY <2>1, <2>2
<1>2. ASSUME NEW v \in Version, v > Imported, v <= tip', NEW p \in Path, NEW r \in Authors(v, p)',
             NEW u \in captured'[r].at + 1 .. v - 1, NEW s \in Authors(u, p)'
      PROVE  s[1] = r[1]
  <2>1. CASE v <= tip
    <3>1. r \in Authors(v, p) /\ history[v] # None
      BY <1>2, <2>1, AuthorsAreStable DEF IInv, VersionsOK
    <3>2. r \in Request /\ captured[r] # None
      BY <1>2, <2>1, <3>1 DEF IInv, VersionsOK, AllCaptured, Authors
    <3>3. captured'[r] = captured[r] /\ captured[r].at \in Nat
      BY <1>1, <3>2, CapturedIsStable DEF IInv, Typed, TypeOK
    <3>4. u \in Version /\ u <= tip
      BY <1>1, <1>2, <2>1, <3>3, CountersAssumption DEF Version
    <3>5. s \in Authors(u, p)
      BY <1>2, <3>4, AuthorsAreStable
    <3> QED
      BY <1>2, <3>1, <3>3, <3>5 DEF CaptureIsFenced
  <2>2. CASE tip < v
    <3>1. /\ v = tip + 1
          /\ Pending(r) /\ r \in Request
          /\ captured[r] # None
          /\ captured'[r] = captured[r]
          /\ captured[r].changes[p] # None
          /\ leases[p] # None
          /\ leases[p].token = captured[r].changes[p].token
      BY <1>2, <2>2, NewAuthors
    <3>2. OnlyOwnLeaf(r, p, captured[r].at + 1, tip)
      BY <3>1 DEF TokensOK
    <3>3. captured[r].at \in Nat
      BY <1>1, <3>1 DEF Typed, TypeOK
    <3>4. u \in Version /\ captured[r].at + 1 <= u /\ u <= tip
      BY <1>1, <1>2, <3>1, <3>3, CountersAssumption DEF Version
    <3>5. s \in Authors(u, p)
      BY <1>2, <3>4, AuthorsAreStable
    <3> QED
      BY <3>2, <3>4, <3>5 DEF OnlyOwnLeaf
  <2> QED
    BY <1>1, <2>1, <2>2
<1>3. \A v \in Version : history'[v] # None => v <= tip'
  BY IInvStep DEF IInv, VersionsOK
<1> QED
  BY <1>2, <1>3 DEF CaptureIsFenced

LEMMA TokensInit ==
    ASSUME Init
    PROVE  TokensOK /\ CaptureIsFenced
<1>1. \A p \in Path : leases[p] # None => leases[p].token < nextToken
  <2> SUFFICES ASSUME NEW p \in Path, leases[p] # None
               PROVE  leases[p].token < nextToken
    OBVIOUS
  <2> DEFINE i == CHOOSE j \in DOMAIN InitialHolds : InitialHolds[j][2] = p
  <2>1. \E j \in DOMAIN InitialHolds : InitialHolds[j][2] = p
    BY DEF Init
  <2>2. i \in DOMAIN InitialHolds
    BY <2>1
  <2>3. leases[p].token = Len(InitialUploads) + i
    BY <2>1 DEF Init
  <2>4. i \in 1..Len(InitialHolds) /\ Len(InitialHolds) \in Nat /\ Len(InitialUploads) \in Nat
    BY <2>2, InitialAssumption
  <2> HIDE DEF i
  <2> QED
    BY <2>3, <2>4 DEF Init
<1>2. TokensOK
  BY <1>1 DEF TokensOK, Init, Pending
<1>3. \A v \in Version : history[v] # None => v <= Imported
  BY IInvInit DEF IInv, VersionsOK, Init
<1>4. CaptureIsFenced
  BY <1>3 DEF CaptureIsFenced, Imported, Version
<1> QED
  BY <1>2, <1>4

\* Between the capture of a published change and its publication only its own
\* leaf published that path: a captured token proves continuous possession,
\* whatever revocations, drops and reacquisitions happened (publication.rs
\* validate, database.rs next_token).
THEOREM CapturesAreFenced == Spec => []CaptureIsFenced
<1>1. Init => Typed /\ IInv /\ TokensOK /\ CaptureIsFenced
  BY InitTypes, IInvInit, TokensInit
<1>2. (Typed /\ IInv /\ TokensOK /\ CaptureIsFenced) /\ [Next]_vars
        => (Typed /\ IInv /\ TokensOK /\ CaptureIsFenced)'
  BY TypedStep, IInvStep, TokensStep, FencedStep
<1> QED
  BY <1>1, <1>2, PTL DEF Spec
-----------------------------------------------------------------------------
(* Leases and views *)

\* A lease's holder is active, and once activated it has its view.
HoldersOK == \A p \in Path : leases[p] # None => Active(leases[p].leaf)
LeasesOK == HoldersOK /\ ActivatedLeaseHasView

\* The steps that write leases or views, and what the others leave alone.
LEMMA ViewSteps ==
    ASSUME Typed, IInv, [Next]_vars
    PROVE  \/ UNCHANGED <<leases, views>> /\ \A l \in LeafId : Active(l) => Active(l)'
           \/ \E l \in LeafId : DropLeaf(l) \/ \E paths \in SUBSET Path : Acquire(l, paths)
           \/ \E p \in Path : \/ Activate(p) \/ Withdraw(p)
                              \/ \E value \in EditedValues : Edit(p, value)
                              \/ \E l \in LeafId : Discard(l, p)
           \/ /\ UNCHANGED leaves
              /\ \E members \in SUBSET Request, root \in Snapshot : Publishes(members, root)
<1> DEFINE Same == UNCHANGED <<leases, views>> /\ \A l \in LeafId : Active(l) => Active(l)'
<1> USE DEF Active
<1>1. ASSUME NEW l \in LeafId, leaves' = [leaves EXCEPT ![l] = leaves[l] + 1] \/ leaves' = [leaves EXCEPT ![l] = 1],
             UNCHANGED <<leases, views>>
      PROVE  Same
  <2>1. \A m \in LeafId : leaves[m] # None => leaves[m] \in Nat
    BY DEF Typed, TypeOK, Sequence
  <2>2. \A n \in Nat : n + 1 # None
    BY NoneAssumption
  <2> QED
    BY <1>1, <2>1, <2>2, NoneAssumption DEF Typed, TypeOK
<1>2. UNCHANGED <<leases, views, leaves>> => Same
  OBVIOUS
<1>3. CASE UploadNext
  <2>1. nextLeaf \in LeafId
    BY DEF Typed, TypeOK
  <2> QED
    BY <1>1, <1>2, <1>3, <2>1 DEF UploadNext, CreateLeaf, BeginStage, DiscardUpload, StorePayload, FinishStage,
       FailStage
<1>4. CASE LeaseNext
  BY <1>4 DEF LeaseNext, Release, Revoke
<1>5. CASE PublicationNext
  <2>1. ASSUME NEW l \in LeafId, AbortUnsubmitted(l) PROVE Same
    BY <1>1, <2>1 DEF AbortUnsubmitted
  <2>2. ASSUME NEW l \in LeafId, NEW paths \in SUBSET Path, Propose(l, paths) PROVE Same
    BY <1>1, <2>2 DEF Propose
  <2>3. ASSUME NEW r \in Request, BeginPrepare(r) \/ CheckCommit(r) \/ Abort(r) PROVE Same
    BY <1>2, <2>3 DEF BeginPrepare, CheckCommit, Abort
  <2>4. ASSUME NEW c \in prepares,
               PinCandidate(c) \/ StoreCandidate(c) \/ ReadyCandidate(c) \/ FailPrepare(c)
        PROVE  Same
    BY <1>2, <2>4 DEF PinCandidate, StoreCandidate, ReadyCandidate, FailPrepare
  <2>5. ASSUME NEW c \in commits, VerifyCommit(c) \/ FailCommit(c) PROVE Same
    BY <1>2, <2>5 DEF VerifyCommit, FailCommit
  <2>6. ASSUME NEW c \in commits, Commit(c)
        PROVE  /\ UNCHANGED leaves
               /\ \E members \in SUBSET Request, root \in Snapshot : Publishes(members, root)
    <3>1. Publishes({c.request}, c.root)
      BY <2>6, CommitPublishes
    <3>2. {c.request} \in SUBSET Request /\ c.root \in Snapshot
      BY <3>1 DEF Publishes, PendingRequests
    <3> QED
      BY <2>6, <3>1, <3>2 DEF Commit
  <2> QED
    BY <1>5, <2>1, <2>2, <2>3, <2>4, <2>5, <2>6 DEF PublicationNext
<1>6. CASE BatchNext
  <2>1. ASSUME NEW b \in batchCommits, CommitBatch(b)
        PROVE  /\ UNCHANGED leaves
               /\ \E members \in SUBSET Request, root \in Snapshot : Publishes(members, root)
    <3>1. Publishes(b.members, b.root)
      BY <2>1, CommitBatchPublishes
    <3>2. b.members \in SUBSET Request /\ b.root \in Snapshot
      BY <3>1 DEF Publishes, PendingRequests
    <3> QED
      BY <2>1, <3>1, <3>2 DEF CommitBatch
  <2> QED
    BY <1>2, <1>6, <2>1 DEF BatchNext, BeginPrepareBatch, CheckCommitBatch, PinBatch, StoreBatch, ReadyBatch,
       FailPrepareBatch, VerifyCommitBatch, FailCommitBatch
<1>7. CASE ResolutionNext
  BY <1>1, <1>7 DEF ResolutionNext, Resolve
<1>8. CASE MaintenanceNext
  BY <1>2, <1>8 DEF MaintenanceNext, Retain, ReleaseRetention, ReplaceClientPins, PruneHistory, Collect,
     InterruptedCollect
<1> QED
  BY <1>2, <1>3, <1>4, <1>5, <1>6, <1>7, <1>8 DEF Next, vars

LEMMA EditedType == EditedValues \subseteq Value
BY NoneAssumption DEF EditedValues, Value, Entry

LEMMA LeasesStep ==
    ASSUME Typed, IInv, LeasesOK, [Next]_vars
    PROVE  LeasesOK'
<1> USE NoneAssumption DEF LeasesOK, HoldersOK, ActivatedLeaseHasView
<1>0. /\ leases \in [Path -> Lease \cup {None}] /\ views \in [LeafId \X Path -> View \cup {None}]
      /\ \A p \in Path : leases[p] # None => leases[p] \in Lease /\ leases[p].leaf \in LeafId /\ leases[p].origin \in Value
      /\ \A l \in LeafId, p \in Path : views[<<l, p>>] # None => views[<<l, p>>] \in View /\ views[<<l, p>>].origin \in Value
  BY DEF Typed, TypeOK, Lease, View
<1>1. CASE UNCHANGED <<leases, views>> /\ \A l \in LeafId : Active(l) => Active(l)'
  BY <1>0, <1>1
<1>2. ASSUME NEW l \in LeafId, DropLeaf(l)
      PROVE  LeasesOK'
  <2>1. \A p \in Path : leases'[p] # None => leases'[p] = leases[p] /\ leases[p] # None /\ leases[p].leaf # l
    BY <1>2 DEF DropLeaf
  <2>2. \A m \in LeafId \ {l} : leaves'[m] = leaves[m]
    BY <1>2 DEF DropLeaf, Typed, TypeOK
  <2>3. \A m \in LeafId \ {l}, p \in Path : views'[<<m, p>>] = views[<<m, p>>]
    BY <1>2 DEF DropLeaf
  <2> QED
    BY <1>0, <2>1, <2>2, <2>3 DEF Active
<1>3. ASSUME NEW l \in LeafId, NEW paths \in SUBSET Path, Acquire(l, paths)
      PROVE  LeasesOK'
  <2>1. UNCHANGED <<leaves, views>> /\ Active(l)
    BY <1>3 DEF Acquire
  <2>2. \A p \in Path : leases'[p] = leases[p] \/ (leases'[p].leaf = l /\ ~leases'[p].activated)
    BY <1>3 DEF Acquire
  <2> QED
    BY <1>0, <2>1, <2>2 DEF Active
<1>4. ASSUME NEW p \in Path, Activate(p)
      PROVE  LeasesOK'
  <2> DEFINE l == leases[p].leaf
  <2>1. leases[p] \in Lease /\ l \in LeafId /\ leases' = [leases EXCEPT ![p] = [leases[p] EXCEPT !.activated = TRUE]]
    BY <1>0, <1>4 DEF Activate
  <2>2. /\ leases'[p].leaf = l /\ leases'[p].origin = leases[p].origin
        /\ \A q \in Path \ {p} : leases'[q] = leases[q]
    BY <1>0, <2>1 DEF Lease
  <2>3. /\ views'[<<l, p>>] = [origin |-> leases[p].origin, value |-> leases[p].origin]
        /\ \A m \in LeafId, q \in Path \ {p} : views'[<<m, q>>] = views[<<m, q>>]
    BY <1>0, <1>4, <2>1 DEF Activate
  <2>4. [origin |-> leases[p].origin, value |-> leases[p].origin] \in View
    BY <2>1 DEF Lease, View
  <2>5. UNCHANGED leaves /\ Active(l)
    BY <1>4 DEF Activate
  <2> QED
    BY <1>0, <2>1, <2>2, <2>3, <2>4, <2>5 DEF Active
<1>5. ASSUME NEW p \in Path, Withdraw(p)
      PROVE  LeasesOK'
  <2>1. \A q \in Path : leases'[q] # None => leases'[q] = leases[q]
    BY <1>0, <1>5 DEF Withdraw
  <2> QED
    BY <1>0, <1>5, <2>1 DEF Withdraw, Active
<1>6. ASSUME NEW p \in Path, NEW value \in EditedValues, Edit(p, value)
      PROVE  LeasesOK'
  <2>1. UNCHANGED <<leases, leaves>>
    BY <1>6 DEF Edit
  <2>2. \A m \in LeafId, q \in Path : views[<<m, q>>] # None =>
            views'[<<m, q>>] # None /\ views'[<<m, q>>].origin = views[<<m, q>>].origin
    <3> DEFINE k == <<leases[p].leaf, p>>
               view == views[k]
    <3>1. k \in LeafId \X Path /\ view \in View /\ value \in Value
      BY <1>0, <1>6, EditedType DEF Edit
    <3>2. views' = [views EXCEPT ![k] = [view EXCEPT !.value = value]]
      BY <1>6 DEF Edit
    <3>3. views'[k] = [view EXCEPT !.value = value]
      BY <1>0, <3>1, <3>2
    <3>4. \A j \in LeafId \X Path : j # k => views'[j] = views[j]
      BY <1>0, <3>2
    <3> HIDE DEF view
    <3>5. views'[k] # None /\ views'[k].origin = view.origin
      BY <3>1, <3>3, NoneAssumption DEF View
    <3> QED
      BY <3>4, <3>5 DEF view
  <2> QED
    BY <1>0, <2>1, <2>2 DEF Active
<1>7. ASSUME NEW p \in Path, NEW l \in LeafId, Discard(l, p)
      PROVE  LeasesOK'
  <2>1. UNCHANGED <<leases, leaves>>
    BY <1>7 DEF Discard
  <2>2. ASSUME NEW q \in Path, leases[q] # None, leases[q].activated
        PROVE  LET k == <<leases[q].leaf, q>> IN views'[k] # None /\ views'[k].origin = views[k].origin
    <3> DEFINE k == <<leases[q].leaf, q>>
    <3>1. k \in LeafId \X Path /\ views[k] # None
      BY <1>0, <2>2
    <3>2. CASE k = <<l, p>>
      <4>1. views' = [views EXCEPT ![k] = [views[k] EXCEPT !.value = views[k].origin]]
        BY <1>0, <1>7, <2>2, <3>2 DEF Discard
      <4> DEFINE view == views[k]
      <4>2. view \in View /\ view.origin \in Value /\ views'[k] = [view EXCEPT !.value = view.origin]
        BY <1>0, <3>1, <4>1
      <4> HIDE DEF view
      <4>3. views'[k] # None /\ views'[k].origin = view.origin
        BY <4>2, NoneAssumption DEF View
      <4> QED
        BY <4>3 DEF view
    <3>3. CASE k # <<l, p>>
      BY <1>0, <1>7, <3>1, <3>3 DEF Discard
    <3> QED
      BY <3>2, <3>3
  <2> QED
    BY <1>0, <2>1, <2>2 DEF Active
<1>8. ASSUME UNCHANGED leaves, NEW members \in SUBSET Request, NEW root \in Snapshot, Publishes(members, root)
      PROVE  LeasesOK'
  <2> SUFFICES ASSUME NEW p \in Path, leases'[p] # None
               PROVE  /\ Active(leases[p].leaf)'
                      /\ leases'[p].activated =>
                           /\ views'[<<leases'[p].leaf, p>>] # None
                           /\ views'[<<leases'[p].leaf, p>>].origin = leases'[p].origin
    OBVIOUS
  <2> DEFINE l == leases[p].leaf
             k == <<l, p>>
  <2>1. leases[p] \in Lease /\ leases'[p].leaf = l /\ l \in LeafId /\ k \in LeafId \X Path /\ Active(l)
    BY <1>0, <1>8, PublishKeepsHolders DEF Publishes
  <2>2. CASE Writers(members, p) = {}
    <3>1. leases'[p] = leases[p] /\ views'[k] = views[k]
      BY <1>8, <2>1, <2>2 DEF Publishes, Publish
    <3> QED
      BY <1>0, <1>8, <2>1, <3>1 DEF Active
  <2>3. CASE Writers(members, p) # {}
    <3>1. Published(members, p) \in Value
      BY <1>8, <2>3, PublishedType DEF Publishes
    <3>2. leases'[p] = [leases[p] EXCEPT !.origin = Published(members, p)]
      BY <1>8, <2>1, <2>3, NoneAssumption DEF Publishes, Publish
    <3>3. leases'[p].origin = Published(members, p) /\ leases'[p].activated = leases[p].activated
      BY <2>1, <3>2 DEF Lease
    <3>4. \E r \in Writers(members, p) : r[1] = l
      <4>1. PICK r \in Writers(members, p) : TRUE
        BY <2>3
      <4>2. r \in members /\ captured[r].changes[p] # None
        BY <1>8, <4>1, WritersCaptured DEF IInv, Publishes, CapturedBy
      <4> QED
        BY <1>8, <4>1, <4>2 DEF Publishes
    <3>5. views[k] # None => views'[k] = [views[k] EXCEPT !.origin = Published(members, p)]
      BY <1>8, <2>1, <3>4 DEF Publishes, Publish
    <3>6. ASSUME views[k] # None
          PROVE  views'[k] # None /\ views'[k].origin = Published(members, p)
      <4> DEFINE view == views[k]
      <4>1. view \in View
        BY <1>0, <2>1, <3>6
      <4>2. views'[k] = [view EXCEPT !.origin = Published(members, p)]
        BY <3>5, <3>6
      <4> HIDE DEF view
      <4> QED
        BY <3>1, <4>1, <4>2, NoneAssumption DEF View
    <3> QED
      BY <1>8, <2>1, <3>3, <3>6 DEF Active
  <2> QED
    BY <2>2, <2>3
<1> QED
  BY <1>1, <1>2, <1>3, <1>4, <1>5, <1>6, <1>7, <1>8, ViewSteps

LEMMA LeasesInit == Init => LeasesOK
<1> SUFFICES ASSUME Init, NEW p \in Path, leases[p] # None
             PROVE  /\ Active(leases[p].leaf)
                    /\ views[<<leases[p].leaf, p>>] # None
                    /\ views[<<leases[p].leaf, p>>].origin = leases[p].origin
  BY DEF LeasesOK, HoldersOK, ActivatedLeaseHasView
<1> DEFINE i == CHOOSE j \in DOMAIN InitialHolds : InitialHolds[j][2] = p
<1>1. \E j \in DOMAIN InitialHolds : InitialHolds[j][2] = p
  BY DEF Init
<1>2. i \in DOMAIN InitialHolds /\ InitialHolds[i][2] = p
  BY <1>1
<1>3. leases[p].leaf = InitialHolds[i][1] /\ leases[p].origin = InitialTree[p]
  BY <1>1 DEF Init
<1>4. InitialHolds[i] \in (1..InitialLeaves) \X Path /\ InitialHolds[i] = <<leases[p].leaf, p>>
  BY <1>2, <1>3, InitialAssumption
<1>5. leases[p].leaf \in LeafId /\ leases[p].leaf <= InitialLeaves
  <2>1. InitialHolds[i][1] \in 1..InitialLeaves
    BY <1>4
  <2>2. leases[p].leaf \in 1..InitialLeaves
    BY <1>3, <2>1
  <2>3. MaxLeafId \in Nat /\ InitialLeaves \in Nat /\ InitialLeaves < MaxLeafId
    BY InitialFacts
  <2> QED
    BY <2>2, <2>3 DEF LeafId
<1>6. views[<<leases[p].leaf, p>>] = [origin |-> InitialTree[p], value |-> InitialTree[p]]
  BY <1>2, <1>4, <1>5 DEF Init
<1>7. [origin |-> InitialTree[p], value |-> InitialTree[p]] \in View
  BY InitialAssumption DEF Snapshot, View
<1>8. Active(leases[p].leaf)
  BY <1>5, NoneAssumption DEF Init, Active
<1> QED
  BY <1>3, <1>6, <1>7, <1>8, NoneAssumption

LEMMA AlwaysLeases == Spec => [](Typed /\ IInv /\ LeasesOK)
<1>1. Init => LeasesOK
  BY LeasesInit
<1>2. Typed /\ IInv /\ LeasesOK /\ [Next]_vars => LeasesOK'
  BY LeasesStep
<1> QED
  BY <1>1, <1>2, AlwaysIInv, PTL DEF Spec

\* An activated lease always has its leaf's view, on the same origin, whatever
\* was edited, discarded, published or dropped in between: edit never finds the
\* view missing, and a capture never mixes a token with another generation's
\* view (leases.rs activate, edit; publication.rs capture, commit).
THEOREM ActivatedLeasesHaveViews == Spec => []ActivatedLeaseHasView
<1>1. LeasesOK => ActivatedLeaseHasView
  BY DEF LeasesOK
<1> QED
  BY <1>1, AlwaysLeases, PTL
-----------------------------------------------------------------------------
(* Capacity *)

\* The pairs max_paths bounds.
Holds(k) == leases[k[2]] # None /\ leases[k[2]].leaf = k[1]
Seen == {k \in LeafId \X Path : views[k] # None}
Counted == {k \in LeafId \X Path : views[k] # None \/ Holds(k)}

LEMMA PairsFinite ==
    /\ IsFiniteSet(LeafId \X Path)
    /\ IsFiniteSet(Path)
    /\ IsFiniteSet(Seen)
    /\ IsFiniteSet(Counted)
<1>1. IsFiniteSet(LeafId)
  BY FS_Interval, CountersAssumption DEF LeafId
<1>2. IsFiniteSet(Path)
  BY PathAssumption
<1>3. IsFiniteSet(LeafId \X Path)
  BY <1>1, <1>2, FS_Product
<1>4. Seen \subseteq LeafId \X Path /\ Counted \subseteq LeafId \X Path
  BY DEF Seen, Counted
<1> QED
  BY <1>2, <1>3, <1>4, FS_Subset

\* Counting views, and reservations that have none yet, counts the pairs.
LEMMA RetainedPathsCounts ==
    ASSUME Typed
    PROVE  RetainedPaths = Cardinality(Counted)
<1> DEFINE Bare == {p \in Path : leases[p] # None /\ views[<<leases[p].leaf, p>>] = None}
           pair == [p \in Bare |-> <<leases[p].leaf, p>>]
           Pairs == {k \in Counted : views[k] = None}
<1>1. IsFiniteSet(Bare) /\ IsFiniteSet(Pairs)
  BY PairsFinite, FS_Subset
<1>2. \A p \in Bare : leases[p].leaf \in LeafId
  BY DEF Typed, TypeOK, Lease
<1>3. pair \in Bijection(Bare, Pairs)
  <2>1. pair \in [Bare -> Pairs]
    BY <1>2 DEF Counted, Holds
  <2>2. \A p, q \in Bare : pair[p] = pair[q] => p = q
    OBVIOUS
  <2>3. \A k \in Pairs : \E p \in Bare : pair[p] = k
    <3> SUFFICES ASSUME NEW k \in Pairs PROVE \E p \in Bare : pair[p] = k
      OBVIOUS
    <3>1. k \in LeafId \X Path /\ views[k] = None /\ Holds(k)
      BY DEF Counted
    <3>2. k[2] \in Path /\ k = <<leases[k[2]].leaf, k[2]>>
      BY <3>1 DEF Holds
    <3>3. k[2] \in Bare
      BY <3>1, <3>2 DEF Holds
    <3> QED
      BY <3>2, <3>3
  <2> QED
    BY <2>1, <2>2, <2>3 DEF Bijection, Injection, Surjection, IsInjective
<1>4. Cardinality(Pairs) = Cardinality(Bare)
  BY <1>1, <1>3, FS_Bijection DEF ExistsBijection
<1>5. Counted = Seen \cup Pairs /\ Seen \cap Pairs = {}
  BY DEF Counted, Seen
<1>6. Cardinality(Counted) = Cardinality(Seen) + Cardinality(Pairs) - Cardinality({})
  BY <1>1, <1>5, PairsFinite, FS_Union
<1>7. Cardinality(Seen) \in Nat /\ Cardinality(Pairs) \in Nat /\ Cardinality({}) = 0
  BY <1>1, PairsFinite, FS_CardinalityType, FS_EmptySet
<1>8. RetainedPaths = Cardinality(Seen) + Cardinality(Bare)
  BY DEF RetainedPaths, Seen
<1> HIDE DEF Bare, pair, Pairs
<1> QED
  BY <1>4, <1>6, <1>7, <1>8

LEMMA CountedShrinks ==
    ASSUME RetainedPathsBounded, Counted' \subseteq Counted
    PROVE  RetainedPathsBounded'
<1>1. Cardinality(Counted') <= Cardinality(Counted)
  BY PairsFinite, FS_Subset
<1>2. Cardinality(Counted') \in Nat /\ Cardinality(Counted) \in Nat
  BY PairsFinite, FS_Subset, FS_CardinalityType
<1>3. Cardinality(Counted) <= MaxPaths
  BY DEF RetainedPathsBounded, Counted, Holds
<1>4. Cardinality(Counted') <= MaxPaths
  BY <1>1, <1>2, <1>3, CountersAssumption
<1> QED
  BY <1>4 DEF RetainedPathsBounded, Counted, Holds

\* A reservation adds the pairs it counted as unseen, and no others.
LEMMA AcquireCounts ==
    ASSUME Typed, RetainedPathsBounded, NEW l \in LeafId, NEW paths \in SUBSET Path, Acquire(l, paths)
    PROVE  RetainedPathsBounded'
<1> DEFINE unseen == {p \in paths : leases[p] = None /\ views[<<l, p>>] = None}
           added == {k \in LeafId \X Path : k[1] = l /\ k[2] \in unseen}
           pair == [p \in unseen |-> <<l, p>>]
<1>1. /\ UNCHANGED views
      /\ \A p \in Path : leases'[p] # leases[p] => p \in paths /\ leases[p] = None /\ leases'[p].leaf = l
      /\ unseen # {} => RetainedPaths + Cardinality(unseen) <= MaxPaths
  <2>1. UNCHANGED views
    BY DEF Acquire
  <2>2. \A p \in Path : leases'[p] # leases[p] => p \in paths /\ leases[p] = None /\ leases'[p].leaf = l
    BY DEF Acquire
  <2>3. {p \in {q \in paths : leases[q] = None} : views[<<l, p>>] = None} = unseen
    OBVIOUS
  <2>4. unseen # {} => RetainedPaths + Cardinality(unseen) <= MaxPaths
    BY <2>3, Zenon DEF Acquire
  <2> QED
    BY <2>1, <2>2, <2>4
<1>2. Counted' \subseteq Counted \cup added
  BY <1>1 DEF Counted, Holds
<1>3. IsFiniteSet(unseen) /\ IsFiniteSet(added)
  BY PairsFinite, FS_Subset
<1>4. pair \in Surjection(unseen, added)
  <2>1. pair \in [unseen -> added]
    OBVIOUS
  <2>2. \A k \in added : k[2] \in unseen /\ pair[k[2]] = k
    OBVIOUS
  <2> QED
    BY <2>1, <2>2 DEF Surjection
<1>5. Cardinality(added) <= Cardinality(unseen)
  BY <1>3, <1>4, FS_Surjection
<1>6. CASE unseen = {}
  <2>1. Counted' \subseteq Counted
    BY <1>2, <1>6
  <2> QED
    BY <2>1, CountedShrinks
<1>7. CASE unseen # {}
  <2>1. Cardinality(Counted') <= Cardinality(Counted \cup added)
    BY <1>2, <1>3, PairsFinite, FS_Union, FS_Subset
  <2>2. Cardinality(Counted \cup added) = Cardinality(Counted) + Cardinality(added) - Cardinality(Counted \cap added)
    BY <1>3, PairsFinite, FS_Union
  <2>3. /\ Cardinality(Counted \cup added) \in Nat /\ Cardinality(Counted') \in Nat /\ Cardinality(Counted) \in Nat
        /\ Cardinality(added) \in Nat /\ Cardinality(unseen) \in Nat /\ Cardinality(Counted \cap added) \in Nat
    <3>1. IsFiniteSet(Counted \cup added) /\ IsFiniteSet(Counted \cap added)
      BY <1>3, PairsFinite, FS_Union, FS_Intersection
    <3>2. IsFiniteSet(Counted')
      BY <1>2, <3>1, FS_Subset
    <3> QED
      BY <1>3, <3>1, <3>2, PairsFinite, FS_CardinalityType
  <2>4. Cardinality(Counted) + Cardinality(unseen) <= MaxPaths
    BY <1>1, <1>7, RetainedPathsCounts
  <2> HIDE DEF unseen, added
  <2>5. Cardinality(Counted') <= MaxPaths
    BY <1>5, <2>1, <2>2, <2>3, <2>4, CountersAssumption
  <2> QED
    BY <2>5 DEF RetainedPathsBounded, Counted, Holds
<1> QED
  BY <1>6, <1>7

LEMMA BoundedStep ==
    ASSUME Typed, IInv, LeasesOK, RetainedPathsBounded, [Next]_vars
    PROVE  RetainedPathsBounded'
<1>0. /\ leases \in [Path -> Lease \cup {None}] /\ views \in [LeafId \X Path -> View \cup {None}]
      /\ \A p \in Path : leases[p] # None => leases[p] \in Lease /\ leases[p].leaf \in LeafId /\ leases[p].origin \in Value
  BY DEF Typed, TypeOK, Lease, View
<1>1. ASSUME \A k \in LeafId \X Path : views'[k] # None => k \in Counted,
             \A p \in Path : leases'[p] # None => leases[p] # None /\ leases'[p].leaf = leases[p].leaf
      PROVE  RetainedPathsBounded'
  <2>1. Counted' \subseteq Counted
    BY <1>1 DEF Counted, Holds
  <2> QED
    BY <2>1, CountedShrinks
<1>2. CASE UNCHANGED <<leases, views>>
  BY <1>1, <1>2 DEF Counted
<1>3. ASSUME NEW l \in LeafId, DropLeaf(l)
      PROVE  RetainedPathsBounded'
  BY <1>1, <1>3 DEF DropLeaf, Counted
<1>4. ASSUME NEW l \in LeafId, NEW paths \in SUBSET Path, Acquire(l, paths)
      PROVE  RetainedPathsBounded'
  BY <1>4, AcquireCounts
<1>5. ASSUME NEW p \in Path, Activate(p)
      PROVE  RetainedPathsBounded'
  <2>1. leases[p] \in Lease /\ leases' = [leases EXCEPT ![p] = [leases[p] EXCEPT !.activated = TRUE]]
    BY <1>0, <1>5 DEF Activate
  <2>2. \A q \in Path : leases'[q] # None => leases[q] # None /\ leases'[q].leaf = leases[q].leaf
    BY <1>0, <1>5, <2>1 DEF Lease, Activate
  <2>3. \A k \in LeafId \X Path : views'[k] # None => k \in Counted
    BY <1>0, <1>5 DEF Activate, Counted, Holds
  <2> QED
    BY <1>1, <2>2, <2>3
<1>6. ASSUME NEW p \in Path, Withdraw(p)
      PROVE  RetainedPathsBounded'
  <2>1. UNCHANGED views /\ \A q \in Path : leases'[q] # None => leases'[q] = leases[q]
    BY <1>0, <1>6 DEF Withdraw
  <2> QED
    BY <1>1, <2>1 DEF Counted
<1>7. ASSUME NEW p \in Path, NEW value \in EditedValues, Edit(p, value)
      PROVE  RetainedPathsBounded'
  <2>1. UNCHANGED leases /\ \A k \in LeafId \X Path : views'[k] # None => views[k] # None
    BY <1>0, <1>7 DEF Edit
  <2> QED
    BY <1>1, <2>1 DEF Counted
<1>8. ASSUME NEW p \in Path, NEW l \in LeafId, Discard(l, p)
      PROVE  RetainedPathsBounded'
  <2>1. UNCHANGED leases /\ \A k \in LeafId \X Path : views'[k] # None => views[k] # None
    BY <1>0, <1>8 DEF Discard
  <2> QED
    BY <1>1, <2>1 DEF Counted
<1>9. ASSUME NEW members \in SUBSET Request, NEW root \in Snapshot, Publishes(members, root)
      PROVE  RetainedPathsBounded'
  <2>1. \A p \in Path : leases'[p] # None => leases[p] # None /\ leases'[p].leaf = leases[p].leaf
    BY <1>9, PublishKeepsHolders DEF Publishes
  <2>2. \A k \in LeafId \X Path : views'[k] # None => views[k] # None
    BY <1>9 DEF Publishes, Publish
  <2> QED
    BY <1>1, <2>1, <2>2 DEF Counted
<1> QED
  BY <1>2, <1>3, <1>4, <1>5, <1>6, <1>7, <1>8, <1>9, ViewSteps

LEMMA BoundedInit == Init => RetainedPathsBounded
<1> SUFFICES ASSUME Init PROVE RetainedPathsBounded
  OBVIOUS
<1> DEFINE n == Len(InitialHolds)
           Held == {InitialHolds[i] : i \in 1..n}
           hold == [i \in 1..n |-> InitialHolds[i]]
<1>1. n \in Nat /\ DOMAIN InitialHolds = 1..n /\ n <= MaxPaths
  BY InitialAssumption
<1>2. Counted \subseteq Held
  <2> SUFFICES ASSUME NEW k \in Counted PROVE \E i \in 1..n : InitialHolds[i] = k
    OBVIOUS
  <2>1. CASE views[k] # None
    BY <1>1, <2>1 DEF Init, Counted
  <2>2. CASE Holds(k)
    <3> DEFINE i == CHOOSE j \in DOMAIN InitialHolds : InitialHolds[j][2] = k[2]
    <3>1. k \in LeafId \X Path /\ leases[k[2]] # None /\ leases[k[2]].leaf = k[1]
      BY <2>2 DEF Counted, Holds
    <3>2. \E j \in DOMAIN InitialHolds : InitialHolds[j][2] = k[2]
      BY <3>1 DEF Init
    <3>3. i \in DOMAIN InitialHolds /\ InitialHolds[i][2] = k[2]
      BY <3>2
    <3>4. leases[k[2]].leaf = InitialHolds[i][1]
      BY <3>1, <3>2 DEF Init
    <3>5. InitialHolds[i] \in (1..InitialLeaves) \X Path
      BY <3>3, InitialAssumption
    <3>6. \A h \in (1..InitialLeaves) \X Path, j \in LeafId \X Path : h[1] = j[1] /\ h[2] = j[2] => h = j
      OBVIOUS
    <3>7. InitialHolds[i] = k /\ i \in 1..n
      <4>1. InitialHolds[i][1] = k[1] /\ InitialHolds[i][2] = k[2] /\ i \in 1..n /\ k \in LeafId \X Path
        BY <1>1, <3>1, <3>3, <3>4
      <4> HIDE DEF i
      <4> QED
        BY <3>5, <3>6, <4>1
    <3> QED
      BY <3>7
  <2> QED
    BY <2>1, <2>2 DEF Counted
<1>3. hold \in Surjection(1..n, Held)
  BY DEF Surjection
<1>4. IsFiniteSet(1..n) /\ Cardinality(1..n) = n
  <2>1. /\ 1 \in Int /\ n \in Int
        /\ IF 1 > n THEN 1..n = {} ELSE n - 1 + 1 = n
    BY <1>1
  <2> HIDE DEF n
  <2>2. IsFiniteSet(1..n) /\ Cardinality(1..n) = (IF 1 > n THEN 0 ELSE n - 1 + 1)
    BY <2>1, FS_Interval
  <2> QED
    BY <1>1, <2>1, <2>2 DEF n
<1>5. IsFiniteSet(Held) /\ Cardinality(Held) <= n
  BY <1>3, <1>4, FS_Surjection
<1>6. Cardinality(Counted) <= Cardinality(Held) /\ Cardinality(Counted) \in Nat /\ Cardinality(Held) \in Nat
  BY <1>2, <1>5, FS_Subset, FS_CardinalityType
<1> HIDE DEF Held
<1>7. Cardinality(Counted) <= MaxPaths
  BY <1>1, <1>5, <1>6, CountersAssumption
<1> QED
  BY <1>7 DEF RetainedPathsBounded, Counted, Holds

\* Reservations and retained views together stay within max_paths, although
\* acquire is the only call that counts them (leases.rs reserve_capacity).
THEOREM PathsAreBounded == Spec => []RetainedPathsBounded
<1>1. Typed /\ IInv /\ LeasesOK /\ RetainedPathsBounded /\ [Next]_vars => RetainedPathsBounded'
  BY BoundedStep
<1> QED
  BY <1>1, BoundedInit, AlwaysLeases, PTL DEF Spec
-----------------------------------------------------------------------------
(* Read-only scopes *)

\* The paths a read-only scope of the import covers, or lies below.
Fixed == {p \in Path : \E s \in Scopes(InitialTree) : Overlaps(s, p)}

\* Nothing reserves them, so nothing publishes them; they are the same in
\* every version since the import, in the tip among them.
FixedOK ==
    /\ Imported <= tip
    /\ \A p \in Fixed : leases[p] = None
    /\ \A v \in Version, p \in Fixed :
        Imported <= v /\ v <= tip => history[v].root[p] = InitialTree[p]

\* The tip keeps every read-only scope of the import.
LEMMA ScopesAreKept ==
    ASSUME Typed, IInv, FixedOK
    PROVE  Scopes(InitialTree) \subseteq Scopes(Tip)
<1> SUFFICES ASSUME NEW s \in Scopes(InitialTree)
             PROVE  s \in Scopes(Tip)
  OBVIOUS
<1>1. PICK p \in Present(InitialTree) : s = InitialTree[p].scope /\ s # None
  BY DEF Scopes
<1>2. p \in Path /\ Contains(s, p)
  BY <1>1, InitialAssumption DEF ValidNamespace, Present
<1>3. p \in Fixed
  BY <1>2 DEF Fixed, Overlaps
<1>4. Tip[p] = InitialTree[p]
  BY <1>3, TipTree DEF FixedOK, IInv
<1> QED
  BY <1>1, <1>2, <1>4 DEF Scopes, Present

LEMMA FixedStep ==
    ASSUME Typed, IInv, FixedOK, [Next]_vars
    PROVE  FixedOK'
<1>1. ASSUME \A p \in Fixed : leases'[p] # None => leases[p] # None,
             UNCHANGED <<tip, history>>
      PROVE  FixedOK'
  BY <1>1 DEF FixedOK
<1>2. ASSUME NEW members \in SUBSET Request, NEW root \in Snapshot, Publishes(members, root)
      PROVE  FixedOK'
  <2>1. \A p \in Fixed : p \in Path /\ leases[p] = None
    BY DEF FixedOK, Fixed
  <2>2. \A p \in Fixed : leases'[p] = None
    BY <1>2, <2>1, PublishKeepsHolders DEF Publishes
  <2>3. \A p \in Fixed : root[p] = InitialTree[p]
    <3> SUFFICES ASSUME NEW p \in Fixed PROVE root[p] = InitialTree[p]
      OBVIOUS
    <3>1. CapturedBy(members, p) = {}
      BY <1>2, <2>1 DEF Publishes, CapturedBy
    <3>2. Writers(members, p) = {}
      BY <1>2, <2>1, <3>1, WritersCaptured DEF IInv, Publishes
    <3>3. root[p] = Tip[p]
      BY <1>2, <2>1, <3>2, PublishedValue
    <3> QED
      BY <3>3, TipTree DEF FixedOK, IInv
  <2>4. tip' = tip + 1 /\ tip + 1 \in Version /\ history'[tip + 1].root = root
    BY <1>2, PublishedRows
  <2>5. \A v \in Version : v <= tip => history'[v] = history[v]
    BY VersionsAreStable DEF IInv
  <2>6. \A v \in Version : v <= tip + 1 => v <= tip \/ v = tip + 1
    BY TipTree DEF Version, IInv
  <2>7. Imported <= tip'
    BY <2>4, TipTree DEF FixedOK, IInv, Version, Imported
  <2> QED
    BY <2>2, <2>3, <2>4, <2>5, <2>6, <2>7 DEF FixedOK
<1>3. ASSUME NEW l \in LeafId, NEW paths \in SUBSET Path, Acquire(l, paths)
      PROVE  \A p \in Fixed : leases'[p] # None => leases[p] # None
  <2> SUFFICES ASSUME NEW p \in Fixed, leases'[p] # None, leases[p] = None
               PROVE  FALSE
    OBVIOUS
  <2>1. p \in paths /\ Writable(paths)
    BY <1>3 DEF Acquire, Fixed
  <2>2. PICK s \in Scopes(InitialTree) : Overlaps(s, p)
    BY DEF Fixed
  <2> QED
    BY <2>1, <2>2, ScopesAreKept DEF Writable
<1>4. ASSUME NEW p \in Path, Activate(p) \/ Withdraw(p)
      PROVE  \A q \in Fixed : leases'[q] # None => leases[q] # None
  BY <1>4 DEF Activate, Withdraw, Fixed, Typed, TypeOK
<1>5. ASSUME NEW l \in LeafId, DropLeaf(l)
      PROVE  \A p \in Fixed : leases'[p] # None => leases[p] # None
  BY <1>5 DEF DropLeaf, Fixed
<1>6. ASSUME UNCHANGED <<tip, history>>, NEW members, NEW root, Publish(members, root)
      PROVE  FALSE
  <2>1. tip' = tip + 1 /\ tip' = tip /\ tip \in Nat
    <3>1. tip \in Version
      BY DEF Typed, TypeOK
    <3>2. tip' = tip + 1 /\ tip' = tip
      BY <1>6 DEF Publish
    <3> QED
      BY <3>1, <3>2 DEF Version
  <2> QED
    BY ONLY <2>1
<1> QED
  BY <1>1, <1>2, <1>3, <1>4, <1>5, <1>6, LeaseSteps, PublishingSteps DEF vars, Commit, CommitBatch

LEMMA FixedInit == Init => FixedOK
<1> SUFFICES ASSUME Init PROVE FixedOK
  OBVIOUS
<1>1. tip = Imported /\ Imported \in Version /\ Imported <= tip
  BY InitialFacts DEF Init, Imported, Version
<1>2. \A p \in Fixed : leases[p] = None
  BY InitialAssumption DEF Init, Fixed
<1>3. history[Imported].root = InitialTree
  <2>1. epochs[Imported] = InitialTree /\ InitialTree # None
    BY <1>1, InitialAssumption, NoneAssumption DEF Init, Imported
  <2> QED
    BY <1>1, <2>1 DEF Init
<1>4. \A v \in Version : Imported <= v /\ v <= tip => v = Imported
  BY <1>1 DEF Version, Imported
<1> QED
  BY <1>1, <1>2, <1>3, <1>4 DEF FixedOK

\* Nothing the import bound to a read-only scope ever changes, and no path in
\* or above such a scope is ever reserved: the tip always still shows acquire
\* the scope it must refuse (leases.rs writable_paths).
THEOREM ReadOnlyNeverChanges == Spec => []ReadOnlyIsImmutable
<1>1. Typed /\ IInv /\ FixedOK => ReadOnlyIsImmutable
  BY DEF IInv, VersionsOK, FixedOK, Fixed, ReadOnlyIsImmutable
<1>2. Typed /\ IInv /\ FixedOK /\ [Next]_vars => FixedOK'
  BY FixedStep
<1> QED
  BY <1>1, <1>2, FixedInit, AlwaysIInv, PTL DEF Spec
-----------------------------------------------------------------------------
(* Namespaces *)

\* Every tree on its way to publication was validated, and stays what it was.
NamespacesOK ==
    /\ \A c \in prepares : ValidNamespace(c.root)
    /\ \A b \in batchPrepares : ValidNamespace(b.root)
    /\ \A r \in Request : Pending(r) /\ proposals[r].root # None => ValidNamespace(proposals[r].root)
    /\ \A v \in Version : v <= tip => ValidNamespace(history[v].root)

LEMMA NamespacesStep ==
    ASSUME Typed, IInv, NamespacesOK, [Next]_vars
    PROVE  NamespacesOK'
<1>1. ASSUME NEW c \in prepares'
      PROVE  ValidNamespace(c.root)
  BY PrepareSteps DEF NamespacesOK
<1>2. ASSUME NEW b \in batchPrepares'
      PROVE  ValidNamespace(b.root)
  BY BatchPrepareSteps DEF NamespacesOK
<1>3. ASSUME NEW r \in Request, Pending(r)', proposals'[r].root # None
      PROVE  ValidNamespace(proposals'[r].root)
  BY <1>3, RowSteps DEF RowStep, NamespacesOK, IInv
<1>4. ASSUME NEW v \in Version, v <= tip'
      PROVE  ValidNamespace(history'[v].root)
  <2>1. CASE UNCHANGED <<tip, history>>
    BY <1>4, <2>1 DEF NamespacesOK
  <2>2. ASSUME NEW members \in SUBSET Request, NEW root \in Snapshot, Publishes(members, root)
        PROVE  ValidNamespace(history'[v].root)
    <3>1. PICK r \in members : r \in Request /\ Pending(r) /\ proposals[r].root = root
      BY <2>2 DEF Publishes, PendingRequests
    <3>2. ValidNamespace(root)
      BY <3>1, NoneAssumption DEF NamespacesOK
    <3>3. tip' = tip + 1 /\ history'[tip + 1].root = root
      BY <2>2, PublishedRows
    <3>4. v <= tip => history'[v] = history[v]
      BY VersionsAreStable DEF IInv
    <3>5. v <= tip \/ v = tip + 1
      BY <1>4, <3>3, TipTree DEF Version, IInv
    <3> QED
      BY <3>2, <3>3, <3>4, <3>5 DEF NamespacesOK
  <2> QED
    BY <2>1, <2>2, PublishingSteps
<1> QED
  BY <1>1, <1>2, <1>3, <1>4 DEF NamespacesOK

LEMMA NamespacesInit == Init => NamespacesOK
<1> SUFFICES ASSUME Init PROVE NamespacesOK
  OBVIOUS
<1>1. \A r \in Request : ~Pending(r)
  BY DEF Init, Pending
<1>2. ValidNamespace(EmptyTree)
  <2>1. Present(EmptyTree) = {}
    BY DEF EmptyTree, Present
  <2>2. Cardinality(Present(EmptyTree)) <= MaxPaths
    BY <2>1, FS_EmptySet, CountersAssumption
  <2> QED
    BY <2>1, <2>2 DEF ValidNamespace
<1>3. \A v \in Version : v <= tip => history[v].root \in {EmptyTree, InitialTree}
  <2> SUFFICES ASSUME NEW v \in Version, v <= tip PROVE history[v].root \in {EmptyTree, InitialTree}
    OBVIOUS
  <2>1. history[v] # None
    BY IInvInit DEF IInv, VersionsOK
  <2> QED
    BY <2>1 DEF Init
<1>4. \A v \in Version : v <= tip => ValidNamespace(history[v].root)
  BY <1>2, <1>3, InitialAssumption
<1> QED
  BY <1>1, <1>4 DEF NamespacesOK, Init

\* Every version, composed from whatever candidates were prepared at once, is
\* a tree of at most max_paths files with no file inside another
\* (publication.rs validate_namespace, batch.rs compose).
THEOREM VersionsAreNamespaces == Spec => []EpochsAreNamespaces
<1>1. ASSUME IInv, NamespacesOK
      PROVE  EpochsAreNamespaces
  <2> SUFFICES ASSUME NEW v \in Version, history[v] # None
               PROVE  /\ Cardinality(Present(history[v].root)) <= MaxPaths
                      /\ \A p, q \in Present(history[v].root) : Overlaps(p, q) => p = q
    BY DEF EpochsAreNamespaces
  <2>1. ValidNamespace(history[v].root)
    BY <1>1 DEF IInv, VersionsOK, NamespacesOK
  <2> QED
    BY <2>1 DEF ValidNamespace, Overlaps
<1>2. Typed /\ IInv /\ NamespacesOK /\ [Next]_vars => NamespacesOK'
  BY NamespacesStep
<1> QED
  BY <1>1, <1>2, NamespacesInit, AlwaysIInv, PTL DEF Spec
-----------------------------------------------------------------------------
(* The promise to clients.                                                 *)
(*                                                                         *)
(* The metadata authority implements the reserved tree: its tables,        *)
(* attempts, candidates, pins and maintenance keep the promise that        *)
(* ReservedTree states to its clients.  A step of the authority is one of  *)
(* four things for them: paths are reserved (acquire), a request is        *)
(* captured (propose, resolve), a version is published (commit,            *)
(* commit_batch), or nothing but the end of reservations and requests is   *)
(* visible.                                                                *)
-----------------------------------------------------------------------------
(* Where a request stands *)

\* The identity was used, or can never be: its leaf is past it, or is gone.
Spent(r) == r[1] < nextLeaf /\ (Active(r[1]) => r[2] < leaves[r[1]])

\* The parts of a request's identity, and the counters they are compared with.
LEMMA RequestParts ==
    ASSUME Typed, NEW r \in Request
    PROVE  /\ r[1] \in LeafId /\ r[1] \in Int /\ r[2] \in Sequence /\ r[2] \in Int
           /\ r = <<r[1], r[2]>>
           /\ nextLeaf \in Int
           /\ Active(r[1]) => leaves[r[1]] \in Sequence /\ leaves[r[1]] \in Int
BY DEF Typed, TypeOK, Request, LeafId, Sequence, Active

\* A pending or published request is spent, and never both.
StandingOK ==
    \A r \in Request :
        /\ Pending(r) => Spent(r) /\ ~IsPublished(r)
        /\ IsPublished(r) => Spent(r)
        /\ OutcomeOf(r) = IF IsPublished(r) THEN "published"
                          ELSE IF Pending(r) THEN "pending"
                          ELSE IF Spent(r) THEN "retired" ELSE "new"

\* The three tables a request's outcome is read from never disagree.
LEMMA Standing == Typed /\ IInv /\ ReceiptsOK => StandingOK
<1> SUFFICES ASSUME Typed, IInv, ReceiptsOK, NEW r \in Request
             PROVE  /\ Pending(r) => Spent(r) /\ ~IsPublished(r)
                    /\ IsPublished(r) => Spent(r)
                    /\ OutcomeOf(r) = IF IsPublished(r) THEN "published"
                                      ELSE IF Pending(r) THEN "pending"
                                      ELSE IF Spent(r) THEN "retired" ELSE "new"
  BY DEF StandingOK
<1>1. captured[r] # None => Spent(r)
  BY DEF IInv, RequestsOK, Spent
<1>2. Pending(r) => captured[r] # None
  BY DEF IInv, RequestsOK
<1>3. ASSUME NEW v \in Imported..tip, r \in history[v].members
      PROVE  captured[r] # None /\ ~Pending(r)
  <2>1. v \in Version /\ v <= tip /\ history[v] # None
    BY CountersAssumption DEF Imported, Version, Typed, TypeOK, IInv, VersionsOK
  <2>2. captured[r] # None
    BY <1>3, <2>1 DEF IInv, VersionsOK, AllCaptured
  <2>3. proposals[r] # None => proposals[r].state = "committed"
    BY <1>3, <2>1 DEF ReceiptsOK
  <2> QED
    BY <2>2, <2>3 DEF Pending
<1>4. OutcomeOf(r) = IF IsPublished(r) THEN "published"
                     ELSE IF Pending(r) THEN "pending"
                     ELSE IF Spent(r) THEN "retired" ELSE "new"
  BY RequestParts DEF OutcomeOf, Spent
<1> QED
  BY <1>1, <1>2, <1>3, <1>4 DEF IsPublished

\* A spent identity stays spent; only the next identity of a living leaf, or
\* those of a dropped one, become spent.
LEMMA SpentIsStable ==
    ASSUME Typed, [Next]_vars, NEW r \in Request, Spent(r)
    PROVE  Spent(r)'
<1> USE RequestParts DEF Spent, Active
<1>1. CASE UNCHANGED <<leaves, nextLeaf>>
  BY <1>1
<1>2. CASE CreateLeaf
  <2>1. nextLeaf' = nextLeaf + 1 /\ leaves'[r[1]] = leaves[r[1]]
    BY <1>2 DEF CreateLeaf, Typed, TypeOK
  <2> QED
    BY <2>1
<1>3. ASSUME NEW l \in LeafId, Active(l), UNCHANGED nextLeaf,
             leaves' = [leaves EXCEPT ![l] = leaves[l] + 1]
      PROVE  Spent(r)'
  <2>1. leaves[l] \in Int
    BY <1>3 DEF Typed, TypeOK, Sequence
  <2>2. leaves'[r[1]] = IF r[1] = l THEN leaves[l] + 1 ELSE leaves[r[1]]
    BY <1>3 DEF Typed, TypeOK
  <2> QED
    BY <1>3, <2>1, <2>2
<1>4. ASSUME NEW l \in LeafId, DropLeaf(l)
      PROVE  Spent(r)'
  <2>1. UNCHANGED nextLeaf /\ leaves'[r[1]] \in {leaves[r[1]], None}
    BY <1>4 DEF DropLeaf, Typed, TypeOK
  <2> QED
    BY <2>1
<1>5. ASSUME NEW l \in LeafId, AbortUnsubmitted(l)
      PROVE  Spent(r)'
  BY <1>3, <1>5 DEF AbortUnsubmitted
<1>6. ASSUME NEW l \in LeafId, NEW paths \in SUBSET Path, Propose(l, paths)
      PROVE  Spent(r)'
  BY <1>3, <1>6 DEF Propose
<1>7. CASE ResolutionNext
  <2>1. PICK l \in LeafId, sources \in SUBSET PendingRequests :
             \E choices \in [SourcePaths(sources) -> sources] : Resolve(l, sources, choices)
    BY <1>7 DEF ResolutionNext
  <2> QED
    BY <1>3, <2>1 DEF Resolve
<1>8. CASE \/ PruneHistory
           \/ \E s \in Request : BeginPrepare(s) \/ Abort(s)
           \/ \E c \in prepares : PinCandidate(c) \/ ReadyCandidate(c)
           \/ \E c \in commits : Commit(c)
           \/ \E members \in SUBSET PendingRequests : BeginPrepareBatch(members)
           \/ \E b \in batchPrepares : PinBatch(b) \/ ReadyBatch(b)
           \/ \E b \in batchCommits : CommitBatch(b)
  BY <1>1, <1>8 DEF PruneHistory, BeginPrepare, Abort, PinCandidate, ReadyCandidate, Commit,
                    BeginPrepareBatch, PinBatch, ReadyBatch, CommitBatch
<1> QED
  BY <1>1, <1>2, <1>4, <1>5, <1>6, <1>7, <1>8, RequestSteps DEF vars
-----------------------------------------------------------------------------
(* Withdrawals: paths become free and requests end *)

\* What such a step may change, in the promise's terms.
LEMMA WithdrawIsKept ==
    ASSUME \A p \in Path : Owners'[p] \in {Owners[p], None},
           \A r \in Request : \/ Outcomes'[r] = Outcomes[r]
                              \/ Outcomes'[r] = "retired" /\ Outcomes[r] \in {"new", "pending"},
           UNCHANGED <<Roots, tip>>
    PROVE  Promise!Next
<1>1. Owners' = [p \in Path |-> IF p \in Promise!Freed THEN None ELSE Owners[p]]
  <2>1. \A p \in Path : Owners'[p] = IF p \in Promise!Freed THEN None ELSE Owners[p]
    BY DEF Promise!Freed
  <2>2. Owners' = [p \in Path |-> Owners'[p]]
    BY DEF Owners
  <2> QED
    BY <2>1, <2>2
<1>2. Promise!Retire(Promise!Ended("retired"))
  <2>1. \A r \in Request : Outcomes'[r] = IF r \in Promise!Ended("retired") THEN "retired" ELSE Outcomes[r]
    BY DEF Promise!Ended
  <2>2. Outcomes' = [r \in Request |-> Outcomes'[r]]
    BY DEF Outcomes
  <2>3. \A r \in Promise!Ended("retired") : Outcomes[r] \in {"new", "pending"}
    BY DEF Promise!Ended
  <2> QED
    BY <2>1, <2>2, <2>3 DEF Promise!Retire
<1> QED
  BY <1>1, <1>2 DEF Promise!Next, Promise!Withdraw

\* A step that publishes nothing keeps every published version and request.
LEMMA NothingPublished ==
    ASSUME UNCHANGED <<tip, history>>
    PROVE  UNCHANGED Roots /\ \A r \in Request : IsPublished(r)' = IsPublished(r)
BY DEF Roots, IsPublished

\* A step that captures, publishes and reserves nothing.
LEMMA QuietIsKept ==
    ASSUME Typed, StandingOK, StandingOK', [Next]_vars, UNCHANGED <<tip, history>>,
           \A r \in Request : Pending(r)' => Pending(r),
           \A p \in Path : Owners'[p] \in {Owners[p], None}
    PROVE  Promise!Next
<1>1. ASSUME NEW r \in Request
      PROVE  \/ Outcomes'[r] = Outcomes[r]
             \/ Outcomes'[r] = "retired" /\ Outcomes[r] \in {"new", "pending"}
  <2>1. /\ Outcomes[r] = OutcomeOf(r) /\ Outcomes'[r] = OutcomeOf(r)'
        /\ IsPublished(r)' = IsPublished(r)
        /\ Spent(r) => Spent(r)'
        /\ Pending(r)' => Pending(r)
    BY NothingPublished, SpentIsStable DEF Outcomes
  <2>2. /\ Pending(r) => Spent(r) /\ ~IsPublished(r)
        /\ OutcomeOf(r) = IF IsPublished(r) THEN "published"
                          ELSE IF Pending(r) THEN "pending"
                          ELSE IF Spent(r) THEN "retired" ELSE "new"
    BY DEF StandingOK
  <2>3. OutcomeOf(r)' = IF IsPublished(r)' THEN "published"
                        ELSE IF Pending(r)' THEN "pending"
                        ELSE IF Spent(r)' THEN "retired" ELSE "new"
    BY DEF StandingOK
  <2> QED
    BY <2>1, <2>2, <2>3
<1> QED
  BY <1>1, NothingPublished, WithdrawIsKept
-----------------------------------------------------------------------------
(* Reservations *)

\* Acquire reserves its fresh paths, which overlap no other leaf's.
LEMMA AcquireIsKept ==
    ASSUME Typed, NEW l \in LeafId, NEW paths \in SUBSET Path, Acquire(l, paths)
    PROVE  Promise!Next
<1>1. ASSUME NEW p \in Path
      PROVE  /\ Owners[p] = IF leases[p] = None THEN None ELSE leases[p].leaf
             /\ leases[p] # None => leases[p].leaf \in LeafId /\ leases[p].leaf # None
  BY NoneAssumption DEF Owners, Typed, TypeOK, Lease, LeafId
<1>2. \A p \in Path : Owners'[p] = IF p \in paths /\ leases[p] = None THEN l ELSE Owners[p]
  <2> DEFINE fresh == {p \in paths : leases[p] = None}
             last == nextToken + Cardinality(fresh) - 1
  <2>1. PICK token \in [fresh -> nextToken..last] : leases' = [p \in Path |->
               IF p \in fresh
               THEN [leaf |-> l, token |-> token[p], origin |-> Tip[p], activated |-> FALSE]
               ELSE leases[p]]
    BY DEF Acquire
  <2>2. Cardinality(fresh) \in Nat
    <3>1. IsFiniteSet(Path)
      BY PathAssumption
    <3>2. IsFiniteSet(fresh)
      BY <3>1, FS_Subset
    <3> QED
      BY <3>2, FS_CardinalityType
  <2>3. ASSUME NEW p \in fresh
        PROVE  [leaf |-> l, token |-> token[p], origin |-> Tip[p], activated |-> FALSE] \in Lease
    <3>1. last < MaxToken
      BY DEF Acquire
    <3>2. token[p] \in Token
      BY <2>2, <3>1, CountersAssumption DEF Token, Typed, TypeOK
    <3>3. Tip[p] \in Value
      BY DEF Tip, Snapshot, Typed, TypeOK, TipStored
    <3> QED
      BY <3>2, <3>3 DEF Lease
  <2>4. \A p \in fresh : leases'[p] # None /\ leases'[p].leaf = l
    BY <2>1, <2>3, NoneAssumption
  <2>5. \A p \in Path \ fresh : leases'[p] = leases[p]
    BY <2>1
  <2> QED
    BY <2>4, <2>5 DEF Owners
<1>3. Promise!Taken(l) = {p \in paths : leases[p] = None}
  BY <1>1, <1>2, NoneAssumption DEF Promise!Taken, LeafId
<1>4. {p \in paths : leases[p] = None} # {}
  BY DEF Acquire
<1>5. ASSUME NEW p \in Promise!Taken(l), NEW q \in Path, Owners[q] \notin {None, l}
      PROVE  ~Overlaps(p, q)
  BY <1>1, <1>3, <1>5 DEF Acquire, Unreserved
<1>6. Owners' = [p \in Path |-> IF p \in Promise!Taken(l) THEN l ELSE Owners[p]]
  <2>1. \A p \in Path : Owners'[p] = IF p \in Promise!Taken(l) THEN l ELSE Owners[p]
    BY <1>2, <1>3
  <2>2. Owners' = [p \in Path |-> Owners'[p]]
    BY DEF Owners
  <2> QED
    BY <2>1, <2>2
<1>7. UNCHANGED <<Outcomes, Roots, tip>>
  BY DEF Acquire, Outcomes, OutcomeOf, IsPublished, Pending, Active, Roots
<1>8. Promise!Reserve(l, Promise!Taken(l))
  BY <1>1, <1>3, <1>5, <1>6, <1>7 DEF Promise!Reserve
<1> QED
  BY <1>3, <1>4, <1>8 DEF Promise!Next
-----------------------------------------------------------------------------
(* Captures *)

\* One new request becomes pending, perhaps in place of others of its leaf.
LEMMA CaptureIsKept ==
    ASSUME Typed, StandingOK, StandingOK', UNCHANGED <<tip, history, Owners>>,
           NEW r \in Request, ~Spent(r), Pending(r)',
           \A s \in Request : s # r =>
               /\ Spent(s)' <=> Spent(s)
               /\ Pending(s)' => Pending(s)
               /\ Pending(s) /\ ~Pending(s)' => s[1] = r[1]
    PROVE  Promise!Next
<1>1. ASSUME NEW s \in Request
      PROVE  /\ Outcomes[s] = IF IsPublished(s) THEN "published"
                              ELSE IF Pending(s) THEN "pending"
                              ELSE IF Spent(s) THEN "retired" ELSE "new"
             /\ Outcomes'[s] = IF IsPublished(s) THEN "published"
                               ELSE IF Pending(s)' THEN "pending"
                               ELSE IF Spent(s)' THEN "retired" ELSE "new"
             /\ Pending(s) => Spent(s) /\ ~IsPublished(s)
             /\ IsPublished(s) => Spent(s)
             /\ Pending(s)' => Spent(s)'
  BY NothingPublished DEF StandingOK, Outcomes
<1>2. Outcomes[r] = "new" /\ Outcomes'[r] = "pending"
  BY <1>1
<1>3. ASSUME NEW s \in Request, s # r
      PROVE  \/ Outcomes'[s] = Outcomes[s]
             \/ Outcomes[s] = "pending" /\ Outcomes'[s] = "retired" /\ s[1] = r[1]
  BY <1>1, <1>3
<1>4. \A s \in Promise!Ended("retired") : s \in Request /\ Outcomes[s] = "pending" /\ s[1] = r[1]
  BY <1>2, <1>3 DEF Promise!Ended
<1>5. Outcomes' = [s \in Request |-> IF s = r THEN "pending"
                                      ELSE IF s \in Promise!Ended("retired") THEN "retired"
                                      ELSE Outcomes[s]]
  <2>1. \A s \in Request : Outcomes'[s] = IF s = r THEN "pending"
                                           ELSE IF s \in Promise!Ended("retired") THEN "retired"
                                           ELSE Outcomes[s]
    BY <1>2, <1>3 DEF Promise!Ended
  <2>2. Outcomes' = [s \in Request |-> Outcomes'[s]]
    BY DEF Outcomes
  <2> QED
    BY <2>1, <2>2
<1>6. Promise!Capture(r, Promise!Ended("retired"))
  BY <1>2, <1>4, <1>5, NothingPublished DEF Promise!Capture
<1> QED
  BY <1>6 DEF Promise!Next

\* Propose and resolve spend exactly the next identity of their leaf.
LEMMA NextIdentity ==
    ASSUME Typed, NEW l \in LeafId, l < nextLeaf, Active(l), UNCHANGED nextLeaf,
           leaves' = [leaves EXCEPT ![l] = leaves[l] + 1],
           NEW r \in Request, r = <<l, leaves[l]>>
    PROVE  /\ ~Spent(r)
           /\ \A s \in Request : s # r => Spent(s)' <=> Spent(s)
<1>1. leaves[l] \in Sequence /\ leaves[l] \in Int /\ r[1] = l /\ r[2] = leaves[l]
  BY DEF Typed, TypeOK, Active, Sequence
<1>2. ~Spent(r)
  BY <1>1 DEF Spent
<1>3. ASSUME NEW s \in Request, s # r
      PROVE  Spent(s)' <=> Spent(s)
  <2>1. CASE s[1] # l
    <3>1. leaves'[s[1]] = leaves[s[1]]
      BY <2>1, RequestParts DEF Typed, TypeOK
    <3> QED
      BY <3>1 DEF Spent, Active
  <2>2. CASE s[1] = l
    <3>1. s[2] # leaves[l]
      BY <1>3, <2>2, RequestParts
    <3>2. leaves'[l] = leaves[l] + 1 /\ leaves'[l] # None /\ leaves[l] + 1 \in Nat
      BY <1>1, NoneAssumption DEF Typed, TypeOK, Sequence
    <3>3. Spent(s) <=> s[1] < nextLeaf /\ s[2] < leaves[l]
      BY <2>2 DEF Spent, Active
    <3>4. Spent(s)' <=> s[1] < nextLeaf /\ s[2] < leaves[l] + 1
      BY <2>2, <3>2 DEF Spent, Active
    <3>5. s[2] < leaves[l] + 1 <=> s[2] < leaves[l]
      BY <1>1, <3>1, RequestParts
    <3> QED
      BY <3>3, <3>4, <3>5
  <2> QED
    BY <2>1, <2>2
<1> QED
  BY <1>2, <1>3

\* propose makes the leaf's next identity pending and touches no other request.
LEMMA ProposeIsKept ==
    ASSUME Typed, IInv, IInv', StandingOK, StandingOK',
           NEW l \in LeafId, NEW paths \in SUBSET Path, Propose(l, paths)
    PROVE  Promise!Next
<1>1. PICK r : r = <<l, leaves[l]>>
  OBVIOUS
<1>2. /\ UNCHANGED <<tip, history, leases, nextLeaf>>
      /\ Active(l)
      /\ leaves' = [leaves EXCEPT ![l] = leaves[l] + 1]
      /\ \E changes \in Changes : proposals' = [proposals EXCEPT ![r] = NewProposal(changes)]
  BY <1>1, ProposedType DEF Propose
<1>3. r \in Request /\ l < nextLeaf
  BY <1>1, <1>2 DEF Request, Typed, TypeOK, Active, IInv, RequestsOK
<1>4. ~Spent(r) /\ \A s \in Request : s # r => (Spent(s)' <=> Spent(s))
  BY <1>1, <1>2, <1>3, NextIdentity
<1>5. Pending(r)'
  <2>1. PICK changes \in Changes : proposals' = [proposals EXCEPT ![r] = NewProposal(changes)]
    BY <1>2
  <2>2. NewProposal(changes) # None /\ NewProposal(changes).state = "pending"
    BY NewProposalType, NoneAssumption DEF NewProposal
  <2> QED
    BY <1>3, <2>1, <2>2 DEF Pending, Typed, TypeOK
<1>6. \A s \in Request : s # r => (Pending(s)' <=> Pending(s))
  BY <1>2, <1>3 DEF Pending, Typed, TypeOK
<1>7. UNCHANGED Owners
  BY <1>2 DEF Owners
<1> QED
  BY <1>2, <1>3, <1>4, <1>5, <1>6, <1>7, CaptureIsKept

\* resolve also retires pending requests of the same leaf, its sources.
LEMMA ResolveIsKept ==
    ASSUME Typed, IInv, StandingOK, StandingOK', ResolutionNext
    PROVE  Promise!Next
<1>1. PICK l \in LeafId, sources \in SUBSET PendingRequests :
         /\ \A s \in sources : s[1] = l
         /\ \E choices \in [SourcePaths(sources) -> sources] : Resolve(l, sources, choices)
  BY DEF ResolutionNext
<1>2. PICK choices \in [SourcePaths(sources) -> sources] : Resolve(l, sources, choices)
  BY <1>1
<1>3. PICK r : r = <<l, leaves[l]>>
  OBVIOUS
<1>4. PICK changes : /\ changes = SelectedChanges(l, choices)
                     /\ proposals' = [s \in Request |->
                           IF s = r THEN NewProposal(changes)
                           ELSE IF s \in sources THEN Retired(proposals[s]) ELSE proposals[s]]
  BY <1>2, <1>3 DEF Resolve
<1>5. /\ UNCHANGED <<tip, history, leases, nextLeaf>>
      /\ Active(l)
      /\ leaves' = [leaves EXCEPT ![l] = leaves[l] + 1]
  BY <1>2 DEF Resolve
<1>6. r \in Request /\ l < nextLeaf
  BY <1>3, <1>5 DEF Request, Typed, TypeOK, Active, IInv, RequestsOK
<1>7. ~Spent(r) /\ \A s \in Request : s # r => (Spent(s)' <=> Spent(s))
  BY <1>3, <1>5, <1>6, NextIdentity
<1>8. Pending(r)'
  <2>1. changes \in Changes
    BY <1>2, <1>4, ResolvedType DEF PendingRequests
  <2>2. NewProposal(changes) # None /\ NewProposal(changes).state = "pending"
    BY <2>1, NewProposalType, NoneAssumption DEF NewProposal
  <2> QED
    BY <1>4, <1>6, <2>2 DEF Pending
<1>9. ASSUME NEW s \in Request, s # r
      PROVE  /\ Pending(s)' => Pending(s)
             /\ Pending(s) /\ ~Pending(s)' => s[1] = r[1]
  <2>1. CASE s \in sources
    <3>1. s[1] = r[1] /\ Pending(s)
      BY <1>1, <1>3, <2>1 DEF PendingRequests
    <3> QED
      BY <3>1
  <2>2. CASE s \notin sources
    BY <1>4, <1>9, <2>2 DEF Pending
  <2> QED
    BY <2>1, <2>2
<1>10. UNCHANGED Owners
  BY <1>5 DEF Owners
<1> QED
  BY <1>5, <1>6, <1>7, <1>8, <1>9, <1>10, CaptureIsKept
-----------------------------------------------------------------------------
(* Publication *)

\* A commit publishes its members together, on paths their leaves hold.
LEMMA PublishIsKept ==
    ASSUME Typed, Typed', IInv, IInv', StandingOK, StandingOK', [Next]_vars,
           NEW members \in SUBSET Request, NEW root \in Snapshot, Publishes(members, root),
           UNCHANGED <<leaves, nextLeaf>>
    PROVE  Promise!Next
<1>1. /\ tip' = tip + 1 /\ tip + 1 \in Version
      /\ history'[tip + 1].root = root
      /\ history'[tip + 1].members = members
      /\ \A r \in members : Pending(r) /\ proposals'[r].state = "committed"
  BY PublishedRows
<1>2. tip \in Nat /\ tip \in Version /\ Imported <= tip + 1
  BY CountersAssumption DEF Typed, TypeOK, Version, Imported
<1>3. \A v \in Version : v <= tip => history'[v] = history[v]
  BY VersionsAreStable DEF IInv
<1>4. \A r \in Request : IsPublished(r)' <=> IsPublished(r) \/ r \in members
  <2>1. tip' = tip + 1 /\ (Imported..tip + 1) = (Imported..tip) \cup {tip + 1}
    BY <1>1, <1>2 DEF Imported
  <2>2. \A v \in Imported..tip : history'[v] = history[v]
    BY <1>2, <1>3, CountersAssumption DEF Imported, Version
  <2> QED
    BY <1>1, <2>1, <2>2 DEF IsPublished
<1>5. \A r \in Request \ members : Pending(r)' <=> Pending(r)
  BY DEF Publishes, Publish, Pending
<1>6. \A r \in Request : Spent(r)' <=> Spent(r)
  BY DEF Spent, Active
<1>7. ASSUME NEW r \in Request
      PROVE  /\ r \in members => Outcomes[r] = "pending" /\ Outcomes'[r] = "published"
             /\ r \notin members => Outcomes'[r] = Outcomes[r]
  <2>1. /\ Outcomes[r] = IF IsPublished(r) THEN "published"
                         ELSE IF Pending(r) THEN "pending"
                         ELSE IF Spent(r) THEN "retired" ELSE "new"
        /\ Outcomes'[r] = IF IsPublished(r)' THEN "published"
                          ELSE IF Pending(r)' THEN "pending"
                          ELSE IF Spent(r)' THEN "retired" ELSE "new"
        /\ Pending(r) => ~IsPublished(r)
    BY DEF StandingOK, Outcomes
  <2> QED
    BY <1>1, <1>4, <1>5, <1>6, <2>1
<1>8. Promise!Ended("published") = members /\ members # {}
  BY <1>7 DEF Promise!Ended, Publishes
<1>9. Outcomes' = [r \in Request |-> IF r \in members THEN "published" ELSE Outcomes[r]]
  <2>1. Outcomes' = [r \in Request |-> Outcomes'[r]]
    BY DEF Outcomes
  <2> QED
    BY <1>7, <2>1
<1>10. UNCHANGED Owners
  <2>1. members \in SUBSET PendingRequests /\ Publish(members, root)
    BY DEF Publishes
  <2> QED
    BY <2>1, PublishKeepsHolders DEF Owners
<1>11. Roots'[tip'] = root
  BY <1>1, <1>2 DEF Roots
<1>12. ASSUME NEW p \in Path, root[p] # Roots[tip][p]
       PROVE  \E r \in members : Owners[p] = r[1]
  <2>1. Roots[tip] = history[tip].root
    BY <1>2 DEF Roots
  <2>2. PICK r \in members : captured[r].changes[p] # None
    BY <1>12, <2>1 DEF Publishes, Built, Applies, CapturedBy
  <2> QED
    BY <2>2 DEF Publishes, Owners
<1>13. Roots' = [v \in {u \in Version : u <= tip + 1} |-> IF v <= tip THEN Roots[v] ELSE root]
  <2>1. 0..tip + 1 = {u \in Version : u <= tip + 1}
    BY <1>1, <1>2, CountersAssumption DEF Version
  <2>2. Roots' = [v \in 0..tip + 1 |-> history'[v].root]
    BY <1>1 DEF Roots
  <2>3. ASSUME NEW v \in 0..tip + 1
        PROVE  history'[v].root = IF v <= tip THEN Roots[v] ELSE root
    <3>1. CASE v <= tip
      <4>1. v \in Version /\ v \in 0..tip
        BY <1>2, <2>1, <2>3, <3>1
      <4> QED
        BY <1>3, <3>1, <4>1 DEF Roots
    <3>2. CASE ~(v <= tip)
      <4>1. v = tip + 1
        BY <1>2, <3>2
      <4> QED
        BY <1>1, <3>2, <4>1
    <3> QED
      BY <3>1, <3>2
  <2> QED
    BY <2>1, <2>2, <2>3
<1>14. Promise!Publish(members, root)
  BY <1>1, <1>7, <1>8, <1>9, <1>10, <1>12, <1>13 DEF Promise!Publish
<1> QED
  BY <1>1, <1>8, <1>11, <1>14 DEF Promise!Next
-----------------------------------------------------------------------------
(* Every step *)

\* Only acquire makes a path somebody's that was not.
LEMMA OwnerSteps ==
    ASSUME Typed, IInv, Next
    PROVE  \/ \A p \in Path : Owners'[p] \in {Owners[p], None}
           \/ \E l \in LeafId, paths \in SUBSET Path : Acquire(l, paths)
           \/ \E members \in SUBSET Request, root \in Snapshot : Publishes(members, root)
<1>1. CASE UNCHANGED leases
  BY <1>1 DEF Owners
<1>2. ASSUME NEW l \in LeafId, DropLeaf(l)
      PROVE  \A p \in Path : Owners'[p] \in {Owners[p], None}
  BY <1>2 DEF DropLeaf, Owners
<1>3. ASSUME NEW p \in Path, Activate(p)
      PROVE  \A q \in Path : Owners'[q] \in {Owners[q], None}
  <2>1. leases[p] \in Lease /\ leases' = [leases EXCEPT ![p] = [leases[p] EXCEPT !.activated = TRUE]]
    BY <1>3 DEF Activate, Typed, TypeOK
  <2>2. \A q \in Path : /\ leases'[q] # None => leases[q] # None
                        /\ leases'[q] # None => leases'[q].leaf = leases[q].leaf
    BY <1>3, <2>1 DEF Typed, TypeOK, Lease, Activate
  <2> QED
    BY <2>2 DEF Owners
<1>4. ASSUME NEW p \in Path, Withdraw(p)
      PROVE  \A q \in Path : Owners'[q] \in {Owners[q], None}
  BY <1>4 DEF Withdraw, Owners, Typed, TypeOK
<1>5. \A members, root : Publishes(members, root) => members \in SUBSET Request /\ root \in Snapshot
  BY DEF Publishes, PendingRequests
<1> QED
  BY <1>1, <1>2, <1>3, <1>4, <1>5, LeaseSteps, CommitPublishes, CommitBatchPublishes

\* A step that captures nothing makes no request pending.
LEMMA NothingCaptured ==
    ASSUME Typed, IInv, IInv', [Next]_vars, UNCHANGED captured
    PROVE  \A r \in Request : Pending(r)' => Pending(r)
<1> SUFFICES ASSUME NEW r \in Request, Pending(r)'
             PROVE  Pending(r)
  OBVIOUS
<1>1. captured[r] # None
  BY DEF IInv, RequestsOK
<1>2. RowStep(r)
  BY RowSteps DEF IInv
<1> QED
  BY <1>1, <1>2 DEF RowStep

\* A commit neither creates nor drops a leaf, nor spends an identity.
LEMMA PublishesKeepsLeaves ==
    ASSUME Typed, IInv, [Next]_vars,
           NEW members \in SUBSET Request, NEW root \in Snapshot, Publishes(members, root)
    PROVE  UNCHANGED <<leaves, nextLeaf>>
<1>1. tip' # tip
  <2>1. tip' = tip + 1
    BY PublishedRows
  <2>2. tip \in Nat
    BY CountersAssumption DEF Typed, TypeOK, Version
  <2> QED
    BY <2>1, <2>2
<1> QED
  BY <1>1, VersionSteps DEF vars, PruneHistory, Commit, CommitBatch

\* Every transaction is one step of the promise.
LEMMA StepIsKept ==
    ASSUME Typed, IInv, StandingOK, (Typed /\ IInv /\ StandingOK)', Next
    PROVE  Promise!Next
<1>1. CASE ResolutionNext
  BY <1>1, ResolveIsKept
<1>2. CASE \E l \in LeafId : \E paths \in SUBSET Path : Propose(l, paths)
  BY <1>2, ProposeIsKept
<1>3. CASE \E l \in LeafId, paths \in SUBSET Path : Acquire(l, paths)
  BY <1>3, AcquireIsKept
<1>4. ASSUME NEW members \in SUBSET Request, NEW root \in Snapshot, Publishes(members, root)
      PROVE  Promise!Next
  <2>1. UNCHANGED <<leaves, nextLeaf>>
    BY <1>4, PublishesKeepsLeaves
  <2> QED
    BY <1>4, <2>1, PublishIsKept
<1>5. CASE /\ UNCHANGED <<captured, tip, history>>
           /\ \A p \in Path : Owners'[p] \in {Owners[p], None}
  BY <1>5, NothingCaptured, QuietIsKept
<1> QED
  BY <1>1, <1>2, <1>3, <1>4, <1>5, CaptureSteps, PublishingSteps, OwnerSteps

\* Nothing the promise speaks of changes by itself.
LEMMA StutterIsKept ==
    ASSUME UNCHANGED vars
    PROVE  UNCHANGED Promise!vars
BY DEF vars, Promise!vars, Owners, Outcomes, OutcomeOf, IsPublished, Pending, Active, Roots

\* After import: every version is the imported tree or the empty one, the initial
\* reservations do not conflict, and no request was made.
LEMMA PromiseInit ==
    ASSUME Init
    PROVE  Promise!Init
<1>1. Typed /\ IInv /\ ReceiptsOK
  BY InitTypes, IInvInit, ReceiptsInit
<1>2. Owners \in [Path -> LeafId \cup {None}]
  BY <1>1 DEF Owners, Typed, TypeOK, Lease
<1>3. \A p, q \in Path :
        Owners[p] # None /\ Owners[q] # None /\ Overlaps(p, q) => Owners[p] = Owners[q]
  BY InitExclusive DEF ExclusiveAuthority, Owners
<1>4. Outcomes = [r \in Request |-> "new"]
  <2>1. ASSUME NEW r \in Request
        PROVE  OutcomeOf(r) = "new"
    <3>1. ~IsPublished(r) /\ ~Pending(r)
      <4>1. /\ tip = 1 /\ proposals = [s \in Request |-> None]
            /\ history = [v \in Version |-> IF epochs[v] = None THEN None
                                            ELSE [root |-> epochs[v], members |-> {}]]
        BY DEF Init, Imported
      <4>2. history[1] # None /\ 1 \in Version
        BY <1>1, <4>1, CountersAssumption DEF IInv, VersionsOK, Version
      <4>3. history[1].members = {}
        BY <4>1, <4>2
      <4> QED
        BY <4>1, <4>3 DEF IsPublished, Pending, Imported
    <3>2. ~Spent(r)
      BY InitialFacts, NoneAssumption DEF Init, Spent, Active, Request, LeafId, Sequence
    <3> QED
      BY <1>1, <3>1, <3>2, Standing DEF StandingOK
  <2> QED
    BY <2>1 DEF Outcomes
<1>5. tip \in Version
  BY <1>1 DEF Typed, TypeOK
<1>6. Roots \in [{v \in Version : v <= tip} -> [Path -> Value]]
  <2>1. 0..tip = {v \in Version : v <= tip}
    BY <1>5, CountersAssumption DEF Version
  <2>2. \A v \in 0..tip : history[v].root \in Snapshot
    BY <1>1, <2>1 DEF IInv, VersionsOK, Typed, TypeOK
  <2> QED
    BY <2>1, <2>2 DEF Roots, Snapshot
<1> QED
  BY <1>2, <1>3, <1>4, <1>5, <1>6 DEF Promise!Init, Promise!Tree

\* Whatever connections do, in whatever order their calls interleave, die or are
\* repeated, clients see one versioned tree that changes only where the leaf of a
\* published request holds the path, paths of at most one leaf, and requests that
\* end at most one way (leases.rs, publication.rs, batch.rs, resolution.rs).
THEOREM AuthorityKeepsItsPromise == Spec => KeepsPromise
<1>1. Init => Promise!Init
  BY PromiseInit
<1>2. Typed /\ IInv /\ StandingOK /\ (Typed /\ IInv /\ StandingOK)' /\ [Next]_vars
        => [Promise!Next]_(Promise!vars)
  BY StepIsKept, StutterIsKept
<1>3. Spec => [](Typed /\ IInv /\ StandingOK)
  BY AlwaysReceipts, Standing, PTL
<1> QED
  BY <1>1, <1>2, <1>3, PTL DEF Spec, KeepsPromise, Promise!Spec
=============================================================================
