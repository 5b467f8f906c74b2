----------------------------- MODULE ReservedTree ---------------------------
(***************************************************************************)
(* What the metadata authority promises its clients, without its tables,   *)
(* attempts, candidates and pins: one versioned tree, paths reserved by at *)
(* most one leaf each, and requests that end at most one way.              *)
(*                                                                         *)
(* A version never changes once published.  The tree changes only where a  *)
(* published request's leaf holds the path at that very moment, and all of *)
(* a publication's requests take effect together.                          *)
(***************************************************************************)
EXTENDS Integers

CONSTANTS Path, LeafId, Request, Version, Value, None, Overlaps(_, _)

VARIABLES
    owner,       \* the leaf holding each path
    outcome,     \* where each request stands
    roots,       \* the tree of each published version
    top          \* the newest version

vars == <<owner, outcome, roots, top>>

Outcome == {"new", "pending", "published", "retired"}
Tree == [Path -> Value]

Init ==
    /\ owner \in [Path -> LeafId \cup {None}]
    /\ \A p, q \in Path :
        owner[p] # None /\ owner[q] # None /\ Overlaps(p, q) => owner[p] = owner[q]
    /\ outcome = [r \in Request |-> "new"]
    /\ top \in Version
    /\ roots \in [{v \in Version : v <= top} -> Tree]

\* Reserve free paths that overlap no path of another leaf.
Reserve(l, paths) ==
    /\ \A p \in paths : owner[p] = None
    /\ \A p \in paths, q \in Path : owner[q] \notin {None, l} => ~Overlaps(p, q)
    /\ owner' = [p \in Path |-> IF p \in paths THEN l ELSE owner[p]]
    /\ UNCHANGED <<outcome, roots, top>>

\* Requests end without being published.
Retire(requests) ==
    /\ \A r \in requests : outcome[r] \in {"new", "pending"}
    /\ outcome' = [r \in Request |-> IF r \in requests THEN "retired" ELSE outcome[r]]

\* Reservations end; those of a dropped leaf end together with its requests.
Withdraw(paths, requests) ==
    /\ owner' = [p \in Path |-> IF p \in paths THEN None ELSE owner[p]]
    /\ Retire(requests)
    /\ UNCHANGED <<roots, top>>

\* A request is captured, perhaps in place of earlier captures of its leaf.
Capture(r, replaced) ==
    /\ outcome[r] = "new"
    /\ \A s \in replaced : outcome[s] = "pending" /\ s[1] = r[1]
    /\ outcome' = [s \in Request |-> IF s = r THEN "pending"
                                     ELSE IF s \in replaced THEN "retired" ELSE outcome[s]]
    /\ UNCHANGED <<owner, roots, top>>

\* One version publishes all its members' changes on paths their leaves hold.
Publish(members, tree) ==
    /\ members # {}
    /\ \A r \in members : outcome[r] = "pending"
    /\ \A p \in Path : tree[p] # roots[top][p] => \E r \in members : owner[p] = r[1]
    /\ top' = top + 1
    /\ roots' = [v \in {u \in Version : u <= top + 1} |-> IF v <= top THEN roots[v] ELSE tree]
    /\ outcome' = [r \in Request |-> IF r \in members THEN "published" ELSE outcome[r]]
    /\ UNCHANGED owner

\* The requests a step ends; a member of a publication is one it publishes.
Ended(how) == {r \in Request : outcome[r] # how /\ outcome'[r] = how}
Freed == {p \in Path : owner[p] # None /\ owner'[p] = None}
Taken(l) == {p \in Path : owner[p] = None /\ owner'[p] = l}

Next ==
    \/ \E l \in LeafId : Taken(l) # {} /\ Reserve(l, Taken(l))
    \/ Withdraw(Freed, Ended("retired"))
    \/ \E r \in Request : Capture(r, Ended("retired"))
    \/ /\ Ended("published") # {}
       /\ top' \in Version
       /\ Publish(Ended("published"), roots'[top'])

Spec == Init /\ [][Next]_vars
=============================================================================
