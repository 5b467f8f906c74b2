------------------------------ MODULE MCViews ------------------------------
(***************************************************************************)
(* Instances of Views: a directory d with two files, where d itself may    *)
(* also be a file.                                                         *)
(***************************************************************************)
EXTENDS Views, TLC

MCUnder == {<<"d/f", "d">>, <<"d/g", "d">>}

Leaf(d, f, g) == [p \in Path |-> CASE p = "d" -> d [] p = "d/f" -> f [] p = "d/g" -> g]

MCTree == {Leaf(None, "x", "x"), Leaf("x", None, None)}

MCPending == {Nothing, "d/f" :> "y"}

MCRequests == {{"d"}, {"d/f"}}
MCChoices == {[p \in {"d/f", "d/g"} |-> IF p = "d/f" THEN "published" ELSE "local"],
              "d" :> "published"}

Bound(edits, others, revokes, crashes, sessions) ==
    [edits |-> edits, others |-> others, revokes |-> revokes,
     crashes |-> crashes, sessions |-> sessions]

MCBudgets == {Bound(2, 1, 0, 1, 2), Bound(1, 1, 1, 2, 3)}
TornBudgets == {Bound(0, 0, 0, 1, 2), Bound(0, 1, 0, 1, 2)}
=============================================================================
