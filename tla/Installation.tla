---------------------------- MODULE Installation ----------------------------
(***************************************************************************)
(* Installation of file images in a leaf (installation.rs): which change   *)
(* sets are admitted, in which order they are applied or rolled back, and  *)
(* what one replacement needs of the leaf's files.                         *)
(*                                                                         *)
(* A change set is a function from paths to their images before and after. *)
(* A file of a leaf is a value; directories exist where files need them.   *)
(***************************************************************************)
EXTENDS Naturals, FiniteSets

CONSTANTS
    Path, Value, None,
    Under  \* pairs <<p, q>>: p lies below a directory named q

\* No path lies below itself.
ASSUME UnderAssumption ==
    Under \subseteq Path \X Path /\ \A p \in Path : <<p, p>> \notin Under

Inside(p, q) == <<p, q>> \in Under

Image == Value \cup {None}

\* One replacement, and the change set of an installation.
Change == [before : Image, after : Image]
Changes == UNION {[paths -> Change] : paths \in SUBSET Path}

\* No file lies below a file.
Files == {f \in [Path -> Image] :
            \A p, q \in Path : Inside(p, q) /\ f[q] # None => f[p] = None}

Depth(p) == Cardinality({q \in Path : Inside(p, q)})

Above(p) == {q \in Path : Inside(p, q)}
Below(p) == {q \in Path : Inside(q, p)}

Deleted(changes) == {p \in DOMAIN changes : changes[p].before # None /\ changes[p].after = None}

\* Sources are as recorded; a created file finds directories above it, and
\* below it nothing that the same change set does not delete.
preflight(files, changes) ==
    \A p \in DOMAIN changes :
        /\ files[p] = changes[p].before
        /\ changes[p].after # None =>
             /\ \A q \in Above(p) : IF q \in DOMAIN changes THEN changes[q].after = None
                                    ELSE files[q] = None
             /\ \A q \in Below(p) : files[q] # None => q \in Deleted(changes)

Expected(c, direction) == IF direction = "apply" THEN c.before ELSE c.after
Desired(c, direction)  == IF direction = "apply" THEN c.after ELSE c.before

\* Deletions first and the deepest of them first, then creations from above.
Precedes(changes, direction, p, q) ==
    LET gone(x) == Desired(changes[x], direction) = None
    IN  \/ gone(p) /\ ~gone(q)
        \/ gone(p) /\ gone(q) /\ Depth(p) > Depth(q)
        \/ ~gone(p) /\ ~gone(q) /\ Depth(p) < Depth(q)

\* The changes that may be made next, the paths in done being finished.
Upcoming(changes, direction, done) ==
    {p \in DOMAIN changes \ done :
        ~\E q \in DOMAIN changes \ done : Precedes(changes, direction, q, p)}

\* Mutant: the image before is not compared again.
AnySource(files, c, p, direction) == TRUE

\* Different bytes are a conflict.
SourceMatches(files, c, p, direction) == files[p] = Expected(c, direction)

\* Mutant: whatever lies above or below is not looked at.
RoomAnywhere(files, c, p, direction) == TRUE

\* Directories can be made above the file and only empty ones lie below it.
Room(files, c, p, direction) ==
    Desired(c, direction) # None => \A q \in Above(p) \cup Below(p) : files[q] = None
=============================================================================
