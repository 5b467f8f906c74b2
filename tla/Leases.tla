------------------------------- MODULE Leases -------------------------------
(***************************************************************************)
(* Path reservations and retained logical views (metadata/src/leases.rs).  *)
(* Each operation is one immediate transaction.  A client may present any  *)
(* grant it ever received; a grant that no longer equals the stored row is *)
(* refused without effect, so the actions range over the stored rows.      *)
(***************************************************************************)
EXTENDS Uploads

Dirty(l, p) ==
    /\ views[<<l, p>>] # None
    /\ views[<<l, p>>].origin # views[<<l, p>>].value

\* Mutant: only existing read-only files are off limits, not their scope.
WritableFiles(paths) == \A p \in paths : Tip[p] # None => Tip[p].scope = None

\* acquire: the tip's read-only scopes are off limits to everybody.
Writable(paths) == \A p \in paths : \A s \in Scopes(Tip) : ~Overlaps(s, p)

\* Mutant: only the path itself is compared, not its ancestors and descendants.
UnreservedName(l, p) ==
    \A q \in Path : leases[q] # None /\ leases[q].leaf # l => p # q

\* exclude_other_holders: no other leaf reserves an overlapping path.
Unreserved(l, p) ==
    \A q \in Path : leases[q] # None /\ leases[q].leaf # l => ~Overlaps(p, q)

\* Mutant: reservations whose view is not installed yet are forgotten.
ViewedPaths == Cardinality({k \in LeafId \X Path : views[k] # None})

\* reserve_capacity counts views, and reservations that have none yet.
RetainedPaths ==
    Cardinality({k \in LeafId \X Path : views[k] # None})
        + Cardinality({p \in Path : leases[p] # None /\ views[<<leases[p].leaf, p>>] = None})

\* All requested paths are reserved or none is; paths this leaf already holds
\* keep their grant, the others get consecutive tokens in path order.
Acquire(l, paths) ==
    LET fresh == {p \in paths : leases[p] = None}
        unseen == {p \in fresh : views[<<l, p>>] = None}
        last == nextToken + Cardinality(fresh) - 1
    IN  /\ "acquire" \in Calls
        /\ Active(l)
        /\ TipReadable
        /\ fresh # {}
        /\ Writable(paths)
        /\ \A p \in paths : Unreserved(l, p)
        /\ \A p \in fresh : ~Dirty(l, p)
        /\ unseen # {} => RetainedPaths + Cardinality(unseen) <= MaxPaths
        /\ last < MaxToken
        /\ nextToken' = last + 1
        /\ \E token \in [fresh -> nextToken..last] :
            /\ \A p, q \in fresh : Rank[p] < Rank[q] => token[p] < token[q]
            /\ leases' = [p \in Path |->
                 IF p \in fresh
                 THEN [leaf |-> l, token |-> token[p], origin |-> Tip[p], activated |-> FALSE]
                 ELSE leases[p]]
        /\ UNCHANGED <<leafVars, views, uploadVars, versionVars, proposalVars, storeVars,
                       candidateVars, maintenanceVars>>

\* Install the origin in the leaf's view, once; a dirty view must be resolved first.
Activate(p) ==
    /\ "acquire" \in Calls
    /\ leases[p] # None
    /\ Active(leases[p].leaf)
    /\ ~leases[p].activated
    /\ ~Dirty(leases[p].leaf, p)
    /\ views' = [views EXCEPT ![<<leases[p].leaf, p>>] =
                    [origin |-> leases[p].origin, value |-> leases[p].origin]]
    /\ leases' = [leases EXCEPT ![p].activated = TRUE]
    /\ UNCHANGED <<leafVars, nextToken, uploadVars, versionVars, proposalVars, storeVars,
                   candidateVars, maintenanceVars>>

\* validate_edit_object: the leaf's own value or origin, or a ready upload.
Owns(l, p, o) ==
    \/ \E entry \in {views[<<l, p>>].value, views[<<l, p>>].origin} :
            entry # None /\ entry.object = o
    \/ uploads[<<l, o>>] # None /\ uploads[<<l, o>>].ready

EditedValues == {[object |-> o, scope |-> None] : o \in Object} \cup {None}

\* A view edit under a live, activated grant consumes the upload pin it used.
Edit(p, value) ==
    LET l == leases[p].leaf IN
    /\ "edit" \in Calls
    /\ leases[p] # None
    /\ Active(l)
    /\ leases[p].activated
    /\ views[<<l, p>>] # None
    /\ value # None => Owns(l, p, value.object) /\ value.object \in objects
    /\ views' = [views EXCEPT ![<<l, p>>].value = value]
    /\ uploads' = IF value = None THEN uploads
                  ELSE [uploads EXCEPT ![<<l, value.object>>] = None]
    /\ UNCHANGED <<leafVars, nextToken, leases, stages, versionVars, proposalVars,
                   storeVars, candidateVars, maintenanceVars>>

\* release (by the holder) and revoke (by the administrator) leave the view.
Withdraw(p) ==
    /\ leases[p] # None
    /\ leases' = [leases EXCEPT ![p] = None]
    /\ UNCHANGED <<leafVars, nextToken, views, uploadVars, versionVars, proposalVars,
                   storeVars, candidateVars, maintenanceVars>>

Release(p) == "release" \in Calls /\ leases[p] # None /\ Active(leases[p].leaf) /\ Withdraw(p)
Revoke(p)  == "revoke" \in Calls /\ Withdraw(p)

\* Mutant: the view is forgotten even under the leaf's own lease.
DiscardView(l, p) ==
    /\ "discard" \in Calls
    /\ Active(l)
    /\ views[<<l, p>>] # None
    /\ views' = [views EXCEPT ![<<l, p>>] = None]
    /\ UNCHANGED <<leafVars, nextToken, leases, uploadVars, versionVars, proposalVars,
                   storeVars, candidateVars, maintenanceVars>>

\* Undo a local edit: back to the origin under the leaf's own lease, forgotten otherwise.
Discard(l, p) ==
    LET k == <<l, p>> IN
    /\ "discard" \in Calls
    /\ Active(l)
    /\ views[k] # None
    /\ views' = IF leases[p] # None /\ leases[p].leaf = l
                THEN [views EXCEPT ![k].value = views[k].origin]
                ELSE [views EXCEPT ![k] = None]
    /\ UNCHANGED <<leafVars, nextToken, leases, uploadVars, versionVars, proposalVars,
                   storeVars, candidateVars, maintenanceVars>>

\* Everything the leaf held goes at once; its committed receipts stay.
DropLeaf(l) ==
    /\ "drop_leaf" \in Calls
    /\ Active(l)
    /\ leaves' = [leaves EXCEPT ![l] = None]
    /\ leases' = [p \in Path |->
         IF leases[p] # None /\ leases[p].leaf = l THEN None ELSE leases[p]]
    /\ views' = [k \in LeafId \X Path |-> IF k[1] = l THEN None ELSE views[k]]
    /\ uploads' = [k \in LeafId \X Object |-> IF k[1] = l THEN None ELSE uploads[k]]
    /\ proposals' = [r \in Request |->
         IF r[1] = l /\ Pending(r) THEN Retired(proposals[r]) ELSE proposals[r]]
    /\ UNCHANGED <<nextLeaf, nextToken, stages, versionVars, captured, storeVars,
                   candidateVars, maintenanceVars>>

LeaseNext ==
    \/ \E l \in LeafId : DropLeaf(l) \/ \E paths \in SUBSET Path : Acquire(l, paths)
    \/ \E p \in Path :
        \/ Activate(p) \/ Release(p) \/ Revoke(p)
        \/ \E value \in EditedValues : Edit(p, value)
        \/ \E l \in LeafId : Discard(l, p)
=============================================================================
