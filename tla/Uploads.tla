------------------------------ MODULE Uploads -------------------------------
(***************************************************************************)
(* Leaf allocation and payload staging (metadata/src/database.rs).         *)
(*                                                                         *)
(* stage spans two transactions around a file write: it pins the upload    *)
(* under a fresh generation, stores the payload, and marks the row ready   *)
(* only if that generation is still the one pinned.  Anything may happen   *)
(* in between: the leaf is dropped, the upload is discarded or staged      *)
(* again, the process dies, maintenance collects.                          *)
(***************************************************************************)
EXTENDS Tables

StageCall == [leaf : LeafId, object : Object, generation : Token, stored : BOOLEAN]

\* Mutant: the identity counter is not checked.
CreateLeafUnchecked ==
    /\ "create_leaf" \in Calls
    /\ Cardinality({l \in LeafId : Active(l)}) < MaxLeaves
    /\ nextLeaf' = nextLeaf + 1
    /\ leaves' = [leaves EXCEPT ![nextLeaf] = 1]
    /\ UNCHANGED <<nextToken, leaseVars, uploadVars, versionVars, proposalVars,
                   storeVars, candidateVars, maintenanceVars>>

CreateLeaf ==
    /\ "create_leaf" \in Calls
    /\ Cardinality({l \in LeafId : Active(l)}) < MaxLeaves
    /\ nextLeaf < MaxLeafId
    /\ nextLeaf' = nextLeaf + 1
    /\ leaves' = [leaves EXCEPT ![nextLeaf] = 1]
    /\ UNCHANGED <<nextToken, leaseVars, uploadVars, versionVars, proposalVars,
                   storeVars, candidateVars, maintenanceVars>>

\* First transaction of stage: (re)pin the upload under a new generation.
BeginStage(l, o) ==
    /\ "stage" \in Calls
    /\ CallSlot
    /\ Active(l)
    /\ \/ uploads[<<l, o>>] # None
       \/ Cardinality({k \in LeafId \X Object : uploads[k] # None}) < MaxPending
    /\ nextToken < MaxToken
    /\ nextToken' = nextToken + 1
    /\ uploads' = [uploads EXCEPT ![<<l, o>>] = [ready |-> FALSE, generation |-> nextToken]]
    /\ stages' = stages \cup
         {[leaf |-> l, object |-> o, generation |-> nextToken, stored |-> FALSE]}
    /\ UNCHANGED <<leafVars, leaseVars, versionVars, proposalVars, storeVars,
                   candidateVars, maintenanceVars>>

\* objects.put, outside any transaction.
StorePayload(s) ==
    /\ ~s.stored
    /\ objects' = objects \cup {s.object}
    /\ stages' = (stages \ {s}) \cup {[s EXCEPT !.stored = TRUE]}
    /\ UNCHANGED <<leafVars, nextToken, leaseVars, uploads, versionVars, proposalVars,
                   manifests, candidateVars, maintenanceVars>>

\* Mutant: whatever generation is pinned now becomes ready.
FinishAnyStage(s) ==
    /\ s.stored
    /\ Active(s.leaf)
    /\ uploads[<<s.leaf, s.object>>] # None
    /\ uploads' = [uploads EXCEPT ![<<s.leaf, s.object>>].ready = TRUE]
    /\ stages' = stages \ {s}
    /\ UNCHANGED <<leafVars, nextToken, leaseVars, versionVars, proposalVars, storeVars,
                   candidateVars, maintenanceVars>>

\* Second transaction: only the generation that is still pinned becomes ready.
FinishStage(s) ==
    /\ s.stored
    /\ Active(s.leaf)
    /\ LET k == <<s.leaf, s.object>> IN
        /\ uploads[k] # None
        /\ uploads[k].generation = s.generation
        /\ uploads' = [uploads EXCEPT ![k].ready = TRUE]
    /\ stages' = stages \ {s}
    /\ UNCHANGED <<leafVars, nextToken, leaseVars, versionVars, proposalVars, storeVars,
                   candidateVars, maintenanceVars>>

\* The call ends without its second transaction: an error, or the process died.
FailStage(s) ==
    /\ stages' = stages \ {s}
    /\ UNCHANGED <<leafVars, nextToken, leaseVars, uploads, versionVars, proposalVars,
                   storeVars, candidateVars, maintenanceVars>>

DiscardUpload(l, o) ==
    /\ "discard_upload" \in Calls
    /\ Active(l)
    /\ uploads[<<l, o>>] # None
    /\ uploads' = [uploads EXCEPT ![<<l, o>>] = None]
    /\ UNCHANGED <<leafVars, nextToken, leaseVars, stages, versionVars, proposalVars,
                   storeVars, candidateVars, maintenanceVars>>

UploadNext ==
    \/ CreateLeaf
    \/ \E l \in LeafId, o \in Object : BeginStage(l, o) \/ DiscardUpload(l, o)
    \/ \E s \in stages : StorePayload(s) \/ FinishStage(s) \/ FailStage(s)
=============================================================================
