----------------------------- MODULE Resolution -----------------------------
(***************************************************************************)
(* Explicit conflict resolution by one owner (metadata/src/resolution.rs): *)
(* one transaction replaces several of a leaf's pending captures by a new  *)
(* one, under the leases and origins that are current now.                 *)
(***************************************************************************)
EXTENDS Batches

SourcePaths(sources) == UNION {Touched(proposals[s].body) : s \in sources}

\* selected_change: the chosen source's value, on today's token and origin.
SelectedChanges(l, choices) ==
    [p \in Path |->
        IF p \in DOMAIN choices
        THEN [token |-> leases[p].token, origin |-> views[<<l, p>>].origin,
              value |-> proposals[choices[p]].body[p].value]
        ELSE None]

\* The lease joined with its view: authority to change p now.
Authorized(l, p) ==
    /\ leases[p] # None
    /\ leases[p].leaf = l
    /\ leases[p].activated
    /\ views[<<l, p>>] # None

Resolve(l, sources, choices) ==
    LET r == <<l, leaves[l]>>
        changes == SelectedChanges(l, choices)
    IN  /\ "resolve" \in Calls
        /\ Active(l)
        /\ sources # {}
        /\ Cardinality(sources) <= MaxPending
        /\ AdmitProposal
        /\ \A p \in DOMAIN choices : proposals[choices[p]].body[p] # None
        /\ TipReadable
        /\ \A p \in DOMAIN choices : Authorized(l, p) /\ Tip[p] = changes[p].origin
        /\ \E p \in DOMAIN choices : changes[p].origin # changes[p].value
        /\ ValidNamespace(Overlay(Tip, changes))
        /\ leaves[l] < MaxSequence
        /\ proposals[r] = None
        /\ proposals' = [s \in Request |->
             IF s = r THEN NewProposal(changes)
             ELSE IF s \in sources THEN Retired(proposals[s]) ELSE proposals[s]]
        /\ captured' = [captured EXCEPT ![r] = [at |-> tip, changes |-> changes]]
        /\ leaves' = [leaves EXCEPT ![l] = leaves[l] + 1]
        /\ UNCHANGED <<nextLeaf, nextToken, leaseVars, uploadVars, versionVars, storeVars,
                       candidateVars, maintenanceVars>>

\* Sources are this owner's pending captures; the choices cover their paths exactly.
ResolutionNext ==
    \E l \in LeafId : \E sources \in SUBSET {r \in PendingRequests : r[1] = l} :
        \E choices \in [SourcePaths(sources) -> sources] : Resolve(l, sources, choices)
=============================================================================
