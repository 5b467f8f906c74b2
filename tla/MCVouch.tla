------------------------------ MODULE MCVouch -------------------------------
(***************************************************************************)
(* A fork's request by an unlisted contributor, and two requests on        *)
(* branches of the repository, one of them by a collaborator.  The         *)
(* contributors' commits list themselves as vouched.                       *)
(***************************************************************************)
EXTENDS Vouch, TLC

Authors  == {"guest", "owner"}
Requests == {1, 2, 3}
Authored == <<"guest", "owner", "guest">>
Commits  == {1, 2, 3, 4}
Owners   == <<1, 2, 3, 3>>
Carried  == [c \in Commits |-> [a \in Authors |-> "vouched"]]
Talk     == {[verb |-> v, target |-> "guest", onPR |-> FALSE] : v \in {"vouch", "unvouch", "denounce", None}}
            \cup {[verb |-> "vouch", target |-> "guest", onPR |-> TRUE]}
Sizes    == {[checks |-> 2, comments |-> 1, pushes |-> 0],
             [checks |-> 0, comments |-> 3, pushes |-> 1],
             [checks |-> 1, comments |-> 2, pushes |-> 1]}
=============================================================================
