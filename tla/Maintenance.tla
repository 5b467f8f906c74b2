----------------------------- MODULE Maintenance ----------------------------
(***************************************************************************)
(* Retention and collection (metadata/src/maintenance.rs and               *)
(* client_pins.rs).  maintain commits the pruning of history before it     *)
(* collects: the second transaction derives every pin that is left and     *)
(* unlinks the other files while it holds the metadata writer lock.        *)
(***************************************************************************)
EXTENDS Resolution

Retain(v) ==
    /\ "retain" \in Calls
    /\ epochs[v] # None
    /\ v \in retained \/ Cardinality(retained) < MaxPending
    /\ retained' = retained \cup {v}
    /\ UNCHANGED <<leafVars, nextToken, leaseVars, uploadVars, versionVars, proposalVars,
                   storeVars, candidateVars, pins, sweeps>>

ReleaseRetention(v) ==
    /\ "retain" \in Calls
    /\ retained' = retained \ {v}
    /\ UNCHANGED <<leafVars, nextToken, leaseVars, uploadVars, versionVars, proposalVars,
                   storeVars, candidateVars, pins, sweeps>>

\* replace_client_pins: newly pinned payloads must be readable.
ReplaceClientPins(new) ==
    /\ "replace_client_pins" \in Calls
    /\ new \ pins \subseteq objects
    /\ pins' = new
    /\ UNCHANGED <<leafVars, nextToken, leaseVars, uploadVars, versionVars, proposalVars,
                   storeVars, candidateVars, retained, sweeps>>
-----------------------------------------------------------------------------
(* maintain, first transaction *)

\* Mutant: only the newest epochs and manual pins are kept.
KeptNewest ==
    {v \in StoredEpochs : \/ Cardinality({u \in StoredEpochs : u > v}) < RetainedEpochs
                          \/ v \in retained}

\* The newest RetainedEpochs rows, manual pins, and what pending requests
\* were captured at or are being prepared against.
KeptEpochs ==
    {v \in StoredEpochs :
        \/ Cardinality({u \in StoredEpochs : u > v}) < RetainedEpochs
        \/ v \in retained
        \/ \E r \in PendingRequests : v \in {proposals[r].capturedAt, proposals[r].parent}}

CommittedRequests == {r \in StoredRequests : proposals[r].state = "committed"}

\* Mutant: receipts are never pruned.
KeepsReceipts(kept) == kept = CommittedRequests

\* ORDER BY committed_version DESC LIMIT RetainedReceipts: members of one batch
\* share a version, and SQLite may keep any of those that tie at the limit.
KeepsNewestReceipts(kept) ==
    /\ kept \subseteq CommittedRequests
    /\ Cardinality(kept) = IF Cardinality(CommittedRequests) < RetainedReceipts
                           THEN Cardinality(CommittedRequests) ELSE RetainedReceipts
    /\ \A r \in kept, s \in CommittedRequests \ kept :
        proposals[r].committed >= proposals[s].committed

PruneHistory ==
    /\ "maintain" \in Calls
    /\ CallSlot
    /\ epochs' = [v \in Version |-> IF v \in KeptEpochs THEN epochs[v] ELSE None]
    /\ \E kept \in SUBSET CommittedRequests :
        /\ KeepsNewestReceipts(kept)
        /\ proposals' = [r \in Request |->
             IF r \in kept \cup PendingRequests THEN proposals[r] ELSE None]
    /\ sweeps' = sweeps + 1
    /\ UNCHANGED <<leafVars, nextToken, leaseVars, uploadVars, tip, history, captured,
                   storeVars, candidateVars, retained, pins>>
-----------------------------------------------------------------------------
(* maintain, second transaction *)

CandidateRoots(ready) ==
    {proposals[r].root : r \in {s \in PendingRequests :
        proposals[s].root # None /\ proposals[s].ready = ready}}
EpochRoots == {epochs[v] : v \in StoredEpochs}

ProtectedManifests == EpochRoots \cup CandidateRoots(TRUE) \cup CandidateRoots(FALSE)

PinnedValues ==
    (UNION {{views[k].origin, views[k].value} : k \in {j \in LeafId \X Path : views[j] # None}})
        \cup {leases[p].origin : p \in {q \in Path : leases[q] # None}}
        \cup (UNION {UNION {{proposals[r].body[p].origin, proposals[r].body[p].value} :
                            p \in Touched(proposals[r].body)} : r \in PendingRequests})

ProtectedObjects ==
    (UNION {ObjectsOf(root) : root \in ProtectedManifests \cap manifests})
        \cup {value.object : value \in PinnedValues \ {None}}
        \cup {k[2] : k \in {j \in LeafId \X Object : uploads[j] # None}}
        \cup pins

\* A manifest that an epoch or a ready candidate names must be there.
RootsReadable == EpochRoots \cup CandidateRoots(TRUE) \subseteq manifests

\* Unlink every unprotected file.
Collect ==
    /\ sweeps > 0
    /\ RootsReadable
    /\ manifests' = manifests \cap ProtectedManifests
    /\ objects' = objects \cap ProtectedObjects
    /\ sweeps' = sweeps - 1
    /\ UNCHANGED <<leafVars, nextToken, leaseVars, uploadVars, versionVars, proposalVars,
                   candidateVars, retained, pins>>

\* The call dies, or fails on some file, after any part of the unlinking.
InterruptedCollect ==
    /\ sweeps > 0
    /\ \/ UNCHANGED storeVars
       \/ /\ RootsReadable
          /\ \E gone \in SUBSET (objects \ ProtectedObjects) : objects' = objects \ gone
          /\ \E gone \in SUBSET (manifests \ ProtectedManifests) : manifests' = manifests \ gone
    /\ sweeps' = sweeps - 1
    /\ UNCHANGED <<leafVars, nextToken, leaseVars, uploadVars, versionVars, proposalVars,
                   candidateVars, retained, pins>>

MaintenanceNext ==
    \/ \E v \in Version : Retain(v) \/ ReleaseRetention(v)
    \/ \E new \in SUBSET Object : ReplaceClientPins(new)
    \/ PruneHistory \/ Collect \/ InterruptedCollect
=============================================================================
