------------------------------ MODULE Captures ------------------------------
(***************************************************************************)
(* Captures and publications of a workspace (captures.rs, publications.rs, *)
(* batches.rs, checks.rs, recovery.rs).                                    *)
(*                                                                         *)
(* A leaf's record and the authority's request are written by different    *)
(* stores.  The record keeps the intent, the request keeps the outcome,    *)
(* and every session first brings the two together, leaf by leaf, so that  *)
(* a process may die between any two writes.  After a publication the Git  *)
(* reference, the receipt file, the workspace's tip and the leaf record    *)
(* follow, in that order, for every member of a batch.                     *)
(*                                                                         *)
(* Each leaf edits one path of its own, which bears the leaf's name.       *)
(***************************************************************************)
EXTENDS Naturals, Sequences, FiniteSets

CONSTANTS
    Leaf, Value, Initial, None,
    MaxRequests, MaxAttempts,  \* bounds: requests, preparations of requests
    MaxCrashes, MaxRevokes     \* bounds: kills, revocations

ASSUME InitialAssumption == Initial \in Value

\* Published trees, a prepared candidate for one, a leaf's pending capture.
Tree == [Leaf -> Value]
Checkpoint == [version : Nat, source : Tree]
Candidate == [leaf : Leaf, seq : Nat, attempt : Nat, parent : Nat, root : Tree]
Validation == [candidate : Candidate, check : Candidate]
PendingCapture ==
    [seq : Nat, value : Value, submitted : BOOLEAN, aborting : BOOLEAN,
     candidate : Candidate \cup {None}, batch : SUBSET Candidate,
     parent : Checkpoint \cup {None}, validation : Validation \cup {None}]

ASSUME NoneAssumption == None \notin Candidate \cup Validation \cup PendingCapture

VARIABLES
    rows,     \* the authority's requests of each leaf, by sequence
    lease,    \* its reservation of the leaf's path: a token, 0 for none
    next,     \* its next token
    log,      \* its epochs: published trees, by version
    staged,   \* the value of each leaf's logical view
    rec,      \* leaf records: origin, sequence, token, pending, last
    tipNode, ref,  \* the workspace's tip node and the Git reference to it
    receipts, \* receipt files, by version
    checking, \* the candidates whose checks are running
    call,     \* the session that holds the lock, or None
    passed,   \* ghost: what passed a check since the newest epoch
    crashes, revokes

authority == <<rows, lease, next, log, staged>>
workspace == <<tipNode, ref, receipts>>
outside == <<checking, passed>>
vars == <<authority, rec, workspace, outside, call, crashes, revokes>>

version == Len(log) - 1
tip == log[Len(log)]

\* A checkpoint published as the tip: its version and source.
Node(number, tree) == [version |-> number, source |-> tree]
Capture(seq, value) ==
    [seq |-> seq, value |-> value, submitted |-> FALSE, aborting |-> FALSE,
     candidate |-> None, batch |-> {}, parent |-> None, validation |-> None]

Init ==
    LET tree == [l \in Leaf |-> Initial]
    IN  /\ rows = [l \in Leaf |-> <<>>] /\ lease = [l \in Leaf |-> 0] /\ next = 1
        /\ log = <<tree>> /\ staged = tree
        /\ rec = [l \in Leaf |-> [origin |-> Initial, sequence |-> 1, token |-> 0,
                                  pending |-> None, last |-> None]]
        /\ tipNode = Node(0, tree) /\ ref = tipNode /\ receipts = <<>>
        /\ checking = {} /\ passed = {}
        /\ call = None /\ crashes = 0 /\ revokes = 0

-----------------------------------------------------------------------------
\* Requests of the authority, each one transaction.

Known(l, seq) == seq <= Len(rows[l])
Row(l, seq) == rows[l][seq]
Request(c) == <<c.leaf, c.seq>>
Pending(l, seq) == Known(l, seq) /\ Row(l, seq).state = "pending"
Committed(l, seq) == Known(l, seq) /\ Row(l, seq).state = "committed"

NewRow(value, token, state) ==
    [value |-> value, token |-> token, state |-> state, attempt |-> 0,
     candidate |-> None, batch |-> {}, version |-> 0]

Requested == UNION {{<<l, seq>> : seq \in DOMAIN rows[l]} : l \in Leaf}
Attempts == UNION {{r} \X (1..Row(r[1], r[2]).attempt) : r \in Requested}
MayPrepare == Cardinality(Attempts) < MaxAttempts

\* validate: the request's reservation is still the one it was made under.
Valid(l, seq) == lease[l] # 0 /\ lease[l] = Row(l, seq).token

\* The tree with the captured values of requests on top.
Composed(requests) ==
    [l \in Leaf |-> IF \E r \in requests : r[1] = l
                    THEN LET r == CHOOSE r \in requests : r[1] = l IN Row(l, r[2]).value
                    ELSE tip[l]]

Candidates(requests) ==
    {[leaf |-> r[1], seq |-> r[2], attempt |-> Row(r[1], r[2]).attempt + 1,
      parent |-> version, root |-> Composed(requests)] : r \in requests}

Preparable(requests) ==
    \A r \in requests : Pending(r[1], r[2]) /\ Valid(r[1], r[2])

Prepared(requests, batch) ==
    rows' = [l \in Leaf |-> [seq \in DOMAIN rows[l] |->
        IF <<l, seq>> \notin requests THEN Row(l, seq)
        ELSE LET c == CHOOSE c \in Candidates(requests) : Request(c) = <<l, seq>>
             IN  [Row(l, seq) EXCEPT !.attempt = c.attempt, !.candidate = c, !.batch = batch]]]

\* The exact prepared candidates, nothing published since, reservations held.
Committable(candidates, batch) ==
    \A c \in candidates :
        /\ Pending(c.leaf, c.seq) /\ Valid(c.leaf, c.seq)
        /\ Row(c.leaf, c.seq).candidate = c /\ Row(c.leaf, c.seq).batch = batch
        /\ c.parent = version

Publish(candidates) ==
    LET requests == {Request(c) : c \in candidates}
    IN  /\ passed' = {}
        /\ rows' = [l \in Leaf |-> [seq \in DOMAIN rows[l] |->
                      IF <<l, seq>> \in requests
                      THEN [Row(l, seq) EXCEPT !.state = "committed", !.version = version + 1]
                      ELSE Row(l, seq)]]
        /\ log' = Append(log, (CHOOSE c \in candidates : TRUE).root)

Receipt(c) == [leaf |-> c.leaf, seq |-> c.seq, version |-> Row(c.leaf, c.seq).version, root |-> c.root]

\* An administrator, or a deadline, takes a reservation away.
Revoke(l) ==
    /\ lease[l] # 0 /\ revokes < MaxRevokes
    /\ lease' = [lease EXCEPT ![l] = 0]
    /\ revokes' = revokes + 1
    /\ UNCHANGED <<rows, next, log, staged, rec, workspace, outside, call, crashes>>

-----------------------------------------------------------------------------
\* Sessions.  step is what comes next, leaf whom it concerns, rest the leaves
\* still to be visited, mode what the session is doing.

Do(mode, rest) == [step |-> "visit", mode |-> mode, rest |-> rest, leaf |-> None, value |-> None]
Step(step) == call' = [call EXCEPT !.step = step]
At(step) == call # None /\ call.step = step
Visiting(mode) == At("visit") /\ call.mode = mode
l0 == call.leaf
pending == rec[l0].pending

Rest == <<workspace, outside, crashes, revokes>>

\* The call ends, with its result or an error, and the lock is free.
End == call' = None
Refuse == End /\ UNCHANGED <<authority, rec, workspace, outside, crashes, revokes>>

\* Also what a call is that is refused before its first write.
Return == Visiting("ready") /\ Refuse

\* So is a kill before it.
Crash ==
    /\ call # None /\ ~Visiting("ready")
    /\ crashes < MaxCrashes /\ End /\ crashes' = crashes + 1
    /\ UNCHANGED <<authority, rec, workspace, outside, revokes>>

\* The leaves a session must first submit or cancel a capture of ...
recover_captures ==
    {l \in Leaf : rec[l].pending # None /\ (rec[l].pending.aborting \/ ~rec[l].pending.submitted)}

\* Mutant: members of a batch are left to the caller's retry.
RecoverSingles ==
    {l \in Leaf : LET p == rec[l].pending
                  IN  p # None /\ p.submitted /\ ~p.aborting /\ p.batch = {} /\ Committed(l, p.seq)}

\* ... and those whose publication it must then acknowledge.
recover_publications ==
    {l \in Leaf : LET p == rec[l].pending
                  IN  p # None /\ p.submitted /\ ~p.aborting /\ Committed(l, p.seq)}

\* reconcile: captures of all leaves first, then publications.
Reconcile(captures) ==
    IF captures # {} THEN Do("captures", captures)
    ELSE IF recover_publications # {} THEN Do("publications", recover_publications)
    ELSE Do("ready", {})

Lock ==
    /\ call = None /\ call' = Reconcile(recover_captures)
    /\ UNCHANGED <<authority, rec, Rest>>

Visit(l, step) == call' = [call EXCEPT !.rest = @ \ {l}, !.leaf = l, !.step = step]
Done(l) == call' = [call EXCEPT !.rest = @ \ {l}]

RecoverCapture(l) ==
    /\ Visiting("captures") /\ l \in call.rest
    /\ Visit(l, IF rec[l].pending.aborting THEN "cancel" ELSE "stage")
    /\ UNCHANGED <<authority, rec, Rest>>

FinishMember(l) ==
    /\ Visiting("publications") \/ Visiting("finish")
    /\ l \in call.rest
    /\ Visit(l, "reference")
    /\ UNCHANGED <<authority, rec, Rest>>

\* A pass over the leaves ends.
Visited ==
    /\ At("visit") /\ call.rest = {}
    /\ CASE call.mode = "captures" -> call' = Reconcile({})
         [] call.mode = "publications" -> call' = Do("ready", {})
         [] OTHER -> call.mode \in {"finish", "assign", "validate"} /\ End
    /\ UNCHANGED <<authority, rec, Rest>>

\* What follows when one leaf is done: the next of the pass, or the end.
Proceed ==
    call' = IF call.mode \in {"captures", "publications", "finish"}
            THEN [call EXCEPT !.step = "visit", !.leaf = None] ELSE None

Ready == Visiting("ready")

-----------------------------------------------------------------------------
\* Captures.

\* The path is reserved (module Views has the steps) and the intent saved.
capture(l, v) ==
    /\ Ready /\ rec[l].pending = None /\ Cardinality(Requested) < MaxRequests
    /\ v # rec[l].origin
    /\ lease[l] # 0 \/ staged[l] = tip[l]  \* else DirtyPath
    /\ lease' = [lease EXCEPT ![l] = IF @ = 0 THEN next ELSE @]
    /\ next' = IF lease[l] = 0 THEN next + 1 ELSE next
    /\ rec' = [rec EXCEPT ![l].token = lease'[l], ![l].origin = tip[l]]
    /\ call' = [call EXCEPT !.step = "intent", !.mode = "capture", !.leaf = l, !.value = v]
    /\ UNCHANGED <<rows, log, staged, Rest>>

SaveIntent ==
    /\ At("intent")
    /\ rec' = [rec EXCEPT ![l0].pending = Capture(rec[l0].sequence, call.value)]
    /\ Step("stage")
    /\ UNCHANGED <<authority, Rest>>

\* submit_capture: the value is staged under the reservation ...
StageEdit ==
    /\ At("stage")
    /\ IF rec[l0].token = 0 \/ lease[l0] # rec[l0].token
       THEN Refuse  \* StaleToken
       ELSE /\ staged' = [staged EXCEPT ![l0] = pending.value]
            /\ Step("propose")
            /\ UNCHANGED <<rows, lease, next, log, rec, Rest>>

\* ... proposed, where a request the authority already has is the same one ...
Propose ==
    /\ At("propose")
    /\ IF Known(l0, pending.seq)
       THEN IF Row(l0, pending.seq).state # "aborted" /\ Row(l0, pending.seq).value = pending.value
            THEN Step("submitted") /\ UNCHANGED <<authority, rec, Rest>>
            ELSE Refuse
       ELSE IF pending.seq = Len(rows[l0]) + 1 /\ lease[l0] # 0
            THEN /\ rows' = [rows EXCEPT ![l0] =
                                Append(@, NewRow(staged[l0], lease[l0], "pending"))]
                 /\ Step("submitted")
                 /\ UNCHANGED <<lease, next, log, staged, rec, Rest>>
            ELSE Refuse

\* ... and acknowledged in the leaf's record.
SaveSubmitted ==
    /\ At("submitted")
    /\ rec' = [rec EXCEPT ![l0].pending.submitted = TRUE]
    /\ Proceed
    /\ UNCHANGED <<authority, Rest>>

\* abort takes the lock without reconciling captures and publications.  A
\* published request is not aborted; an unsubmitted one need not be known.
abort(l) ==
    LET p == rec[l].pending
    IN  /\ call = None /\ p # None
        /\ p.aborting \/ (IF Known(l, p.seq) THEN ~Committed(l, p.seq) ELSE ~p.submitted)
        /\ rec' = [rec EXCEPT ![l].pending.aborting = TRUE]
        /\ call' = [Do("abort", {}) EXCEPT !.step = "cancel", !.leaf = l]
        /\ UNCHANGED <<authority, Rest>>

\* Mutant: a capture that was not submitted needs no cancellation.
CancelSubmitted ==
    /\ At("cancel")
    /\ rows' = IF Pending(l0, pending.seq) /\ pending.submitted
               THEN [rows EXCEPT ![l0][pending.seq].state = "aborted",
                                 ![l0][pending.seq].candidate = None] ELSE rows
    /\ Step("cancelled")
    /\ UNCHANGED <<lease, next, log, staged, rec, Rest>>

\* The request is retired; one that never arrived is spent instead.
cancel_capture ==
    /\ At("cancel")
    /\ IF Committed(l0, pending.seq)
       THEN Refuse
       ELSE /\ rows' = [rows EXCEPT ![l0] =
                  IF Known(l0, pending.seq)
                  THEN [@ EXCEPT ![pending.seq].state = "aborted", ![pending.seq].candidate = None]
                  ELSE Append(@, NewRow(None, 0, "aborted"))]
            /\ Step("cancelled")
            /\ UNCHANGED <<lease, next, log, staged, rec, Rest>>

SaveCancelled ==
    /\ At("cancelled")
    /\ rec' = [rec EXCEPT ![l0].sequence = pending.seq + 1, ![l0].pending = None]
    /\ Proceed
    /\ UNCHANGED <<authority, Rest>>

-----------------------------------------------------------------------------
\* Candidates and their checks.

Submitted(l) == rec[l].pending # None /\ rec[l].pending.submitted /\ ~rec[l].pending.aborting
Requests(leaves) == {<<l, rec[l].pending.seq>> : l \in leaves}

Assigned(l, c, batch) ==
    rec' = [rec EXCEPT ![l].pending = [@ EXCEPT !.candidate = c, !.batch = batch,
                                                !.parent = tipNode, !.validation = None]]

prepare(l) ==
    /\ Ready /\ Submitted(l) /\ MayPrepare
    /\ Preparable(Requests({l}))
    /\ Prepared(Requests({l}), {})
    /\ call' = [call EXCEPT !.step = "prepared", !.mode = "prepare", !.leaf = l]
    /\ UNCHANGED <<lease, next, log, staged, rec, Rest>>

SavePrepared ==
    /\ At("prepared")
    /\ IF tipNode.source = tip
       THEN Assigned(l0, Row(l0, pending.seq).candidate, {}) /\ End /\ UNCHANGED <<authority, Rest>>
       ELSE Refuse

\* All members are prepared at once, their records follow one by one.
prepare_batch(leaves) ==
    /\ Ready /\ \A l \in leaves : Submitted(l)
    /\ MayPrepare /\ tipNode.source = tip
    /\ Preparable(Requests(leaves))
    /\ Prepared(Requests(leaves), Requests(leaves))
    /\ call' = [Do("assign", leaves) EXCEPT !.value = Candidates(Requests(leaves))]
    /\ UNCHANGED <<lease, next, log, staged, rec, Rest>>

Member(batch, l) == CHOOSE c \in batch : c.leaf = l

SaveMember(l) ==
    /\ Visiting("assign") /\ l \in call.rest
    /\ Assigned(l, Member(call.value, l), call.value)
    /\ Done(l)
    /\ UNCHANGED <<authority, Rest>>

\* One check at a time for a request; its command runs without the session.
BeginCheck(l) ==
    /\ Ready /\ rec[l].pending # None /\ rec[l].pending.candidate # None
    /\ \A c \in checking : Request(c) # Request(rec[l].pending.candidate)
    /\ checking' = checking \cup {rec[l].pending.candidate}
    /\ End
    /\ UNCHANGED <<authority, rec, workspace, passed, crashes, revokes>>

\* A check's process dies or its command fails.
FailCheck(c) ==
    /\ checking' = checking \ {c}
    /\ UNCHANGED <<authority, rec, workspace, passed, call, crashes, revokes>>

\* What a candidate publishes: a tree, on top of an epoch.
Content(c) == <<c.parent, c.root>>

\* Mutant: the verdict goes to whatever capture is pending.
SealAnything(c) ==
    LET p == rec[c.leaf].pending
    IN  /\ Ready
        /\ passed' = passed \cup {Content(c)} /\ checking' = checking \ {c}
        /\ rec' = IF p # None /\ p.candidate # None
                  THEN [rec EXCEPT ![c.leaf].pending.validation =
                          [candidate |-> p.candidate, check |-> c]]
                  ELSE rec
        /\ End
        /\ UNCHANGED <<authority, workspace, crashes, revokes>>

\* The verdict counts only for the very candidate it was reached on.
seal_check(c) ==
    LET p == rec[c.leaf].pending
    IN  /\ Ready
        /\ passed' = passed \cup {Content(c)} /\ checking' = checking \ {c}
        /\ rec' = IF p # None /\ ~p.aborting /\ p.candidate = c
                  THEN [rec EXCEPT ![c.leaf].pending.validation = [candidate |-> c, check |-> c]]
                  ELSE rec
        /\ End
        /\ UNCHANGED <<authority, workspace, crashes, revokes>>

batch_members(batch) ==
    \A c \in batch :
        LET p == rec[c.leaf].pending
        IN  p # None /\ ~p.aborting /\ p.candidate = c /\ p.batch = batch

\* The verdict on the first member's candidate is copied to all, one by one.
check_batch(batch, first) ==
    /\ Ready
    /\ batch_members(batch)
    /\ rec[first.leaf].pending.validation = [candidate |-> first, check |-> first]
    /\ call' = [Do("validate", {c.leaf : c \in batch}) EXCEPT
                  !.value = [batch |-> batch, check |-> first]]
    /\ UNCHANGED <<authority, rec, Rest>>

SaveValidation(l) ==
    /\ Visiting("validate") /\ l \in call.rest
    /\ rec' = [rec EXCEPT ![l].pending.validation =
                 [candidate |-> Member(call.value.batch, l), check |-> call.value.check]]
    /\ Done(l)
    /\ UNCHANGED <<authority, Rest>>

-----------------------------------------------------------------------------
\* Publication and its acknowledgement.

\* What callers may hold: candidates and batches of the records, and of the
\* authority when the record never got them.  Older ones are only refused.
Capturing == {l \in Leaf : rec[l].pending # None}
Held == ({rec[l].pending.candidate : l \in Capturing}
          \cup (UNION {{Row(l, seq).candidate : seq \in DOMAIN rows[l]} : l \in Leaf})) \ {None}
HeldBatches == {rec[l].pending.batch : l \in Capturing} \ {{}}

\* A retry of an acknowledged commit only reads the receipt.
commit(c) ==
    LET p == rec[c.leaf].pending
    IN  /\ Ready
        /\ p # None /\ ~p.aborting /\ p.candidate = c
        /\ p.validation # None /\ p.validation.candidate = c
        /\ Committable({c}, {})
        /\ Publish({c})
        /\ call' = [Do("finish", {}) EXCEPT !.step = "reference", !.leaf = c.leaf]
        /\ UNCHANGED <<lease, next, staged, rec, workspace, checking, crashes, revokes>>

commit_batch(batch) ==
    /\ Ready
    /\ batch_members(batch)
    /\ \E check \in batch : \A c \in batch :
          rec[c.leaf].pending.validation = [candidate |-> c, check |-> check]
    /\ Committable(batch, {Request(c) : c \in batch})
    /\ Publish(batch)
    /\ call' = Do("finish", {c.leaf : c \in batch})
    /\ UNCHANGED <<lease, next, staged, rec, workspace, checking, crashes, revokes>>

checked == Node(pending.candidate.parent + 1, pending.candidate.root)

\* finish_publication: the receipt must be of the newest epoch; the Git
\* reference moves from the candidate's parent, or has moved already.
SetRef ==
    /\ At("reference")
    /\ IF /\ pending.validation # None /\ pending.candidate # None
          /\ Row(l0, pending.seq).candidate.root = pending.candidate.root
          /\ Row(l0, pending.seq).version = version
          /\ checked.source = tip
          /\ ref \in {checked, pending.parent}
       THEN /\ ref' = checked
            /\ Step("receipt")
            /\ UNCHANGED <<authority, rec, tipNode, receipts, outside, crashes, revokes>>
       ELSE Refuse

Members == IF pending.batch = {} THEN {pending.candidate} ELSE pending.batch

WriteReceipt ==
    /\ At("receipt")
    /\ IF \A c \in Members : Committed(c.leaf, c.seq) /\ Row(c.leaf, c.seq).version = version
       THEN /\ receipts' = [v \in DOMAIN receipts \cup {version} |->
                              IF v = version THEN {Receipt(c) : c \in Members} ELSE receipts[v]]
            /\ Step("tip")
            /\ UNCHANGED <<authority, rec, tipNode, ref, outside, crashes, revokes>>
       ELSE Refuse

WriteTip ==
    /\ At("tip")
    /\ tipNode' = checked
    /\ Step("acknowledge")
    /\ UNCHANGED <<authority, rec, ref, receipts, outside, crashes, revokes>>

Acknowledge ==
    /\ At("acknowledge")
    /\ rec' = [rec EXCEPT ![l0] =
                 [origin |-> pending.value, sequence |-> pending.seq + 1, token |-> lease[l0],
                  pending |-> None, last |-> Receipt(pending.candidate)]]
    /\ Proceed
    /\ UNCHANGED <<authority, Rest>>

Next ==
    \/ Lock \/ Return \/ Crash \/ Visited
    \/ SaveIntent \/ StageEdit \/ Propose \/ SaveSubmitted \/ cancel_capture \/ SaveCancelled
    \/ SavePrepared \/ SetRef \/ WriteReceipt \/ WriteTip \/ Acknowledge
    \/ \E l \in Leaf :
          \/ Revoke(l) \/ RecoverCapture(l) \/ abort(l) \/ prepare(l)
          \/ SaveMember(l) \/ BeginCheck(l) \/ SaveValidation(l) \/ FinishMember(l)
          \/ \E v \in Value : capture(l, v)
    \/ \E leaves \in SUBSET Leaf : Cardinality(leaves) > 1 /\ prepare_batch(leaves)
    \/ \E c \in checking : FailCheck(c) \/ seal_check(c)
    \/ \E c \in Held : commit(c)
    \/ \E batch \in HeldBatches : commit_batch(batch) \/ \E c \in batch : check_batch(batch, c)

Spec == Init /\ [][Next]_vars

-----------------------------------------------------------------------------
\* Once a session has reconciled, a leaf's record and the authority agree: a
\* leaf without a capture has no open request and counts on from the last
\* one, a leaf with one has it pending there with the captured value
\* (captures.rs, in particular submit_capture and cancel_capture cut short).
ReconciledRecords ==
    Ready => \A l \in Leaf :
        LET p == rec[l].pending
            last == Len(rows[l])
        IN  IF p = None
            THEN rec[l].sequence = last + 1 /\ \A seq \in 1..last : ~Pending(l, seq)
            ELSE /\ p.submitted /\ ~p.aborting /\ p.seq = last /\ rec[l].sequence = last
                 /\ Pending(l, last) /\ Row(l, last).value = p.value
                 /\ \A seq \in 1..(last - 1) : ~Pending(l, seq)

\* Every published tree is one that a check succeeded on, on top of the very
\* tree it replaced, whatever was aborted, prepared again, batched or
\* published between the check and the commit (publications.rs commit).
PublishedWasChecked ==
    [][log' # log => <<version, log'[Len(log')]>> \in passed]_vars

\* Once a session has reconciled, every publication is acknowledged in full:
\* the tip node and the Git reference stand at the newest epoch, each epoch's
\* receipt file names all requests published with it, and every leaf has the
\* receipt and the origin of its newest one (publications.rs
\* finish_publication, cut short anywhere, also between members).
AcksFollowPublication ==
    Ready =>
        /\ tipNode = Node(version, tip) /\ ref = tipNode
        /\ DOMAIN receipts = 1..version
        /\ \A v \in 1..version :
              {<<r.leaf, r.seq>> : r \in receipts[v]} =
                {q \in Requested : Committed(q[1], q[2]) /\ Row(q[1], q[2]).version = v}
        /\ \A l \in Leaf :
              LET published == {seq \in 1..Len(rows[l]) : Committed(l, seq)}
              IN  IF published = {} THEN rec[l].last = None
                  ELSE /\ rec[l].last.seq \in published
                       /\ \A seq \in published : seq <= rec[l].last.seq
                       /\ rec[l].last.version = Row(l, rec[l].last.seq).version
                       /\ rec[l].origin = tip[l]
=============================================================================
