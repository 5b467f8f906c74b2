----------------------------- MODULE MCAuthority ----------------------------
(***************************************************************************)
(* Finite instances of the authority.  A run gives clients one group of    *)
(* calls and the smallest tables in which those calls can interfere.       *)
(***************************************************************************)
EXTENDS Authority, TLC

CONSTANTS o0, o1

Dir   == <<"d">>
File  == <<"d", "f">>
Other == <<"g">>
Scope == <<"m">>
Lib   == <<"m", "x">>

Plain(o) == [object |-> o, scope |-> None]
Order == (Dir :> 1) @@ (File :> 2) @@ (Other :> 3) @@ (Scope :> 4) @@ (Lib :> 5)
Nothing == <<>>

\* Reservations: nested paths and a file under a read-only scope.
ReservePaths == {Dir, File, Scope, Lib}
ReserveRank  == [p \in ReservePaths |-> Order[p]]
ReserveTree  == [p \in ReservePaths |->
                    CASE p = File -> Plain(o0)
                      [] p = Lib  -> [object |-> o0, scope |-> Scope]
                      [] OTHER    -> None]
ReserveCalls == {"create_leaf", "acquire", "edit", "release", "revoke", "discard", "drop_leaf",
                 "propose", "prepare", "commit"}

\* Contention: two leaves take turns on one path while captures are outstanding.
TurnPaths   == {Other}
TurnRank    == [p \in TurnPaths |-> Order[p]]
TurnTree    == Other :> Plain(o0)
TurnUploads == << <<2, o0>> >>
TurnHolds   == << <<1, Other>> >>
TurnCalls   == {"acquire", "edit", "revoke", "discard", "propose", "resolve", "prepare", "commit"}

\* Races: two leaves publish disjoint paths, alone and together, with several
\* preparations and commits of the same requests in flight.
RacePaths == {File, Other}
RaceRank  == [p \in RacePaths |-> Order[p]]
RaceTree  == [p \in RacePaths |-> Plain(o0)]
RaceHolds == << <<1, File>>, <<2, Other>> >>
RaceCalls == {"edit", "propose", "prepare", "commit", "prepare_batch", "commit_batch", "abort"}

\* Resolution: one leaf captured both names of a nested pair and must choose.
MergePaths == {Dir, File}
MergeRank  == [p \in MergePaths |-> Order[p]]
MergeTree  == [p \in MergePaths |-> IF p = File THEN Plain(o0) ELSE None]
MergeUploads == << <<1, o1>> >>
MergeHolds == << <<1, Dir>>, <<1, File>> >>
MergeCalls == {"edit", "propose", "resolve", "prepare", "commit", "prepare_batch", "commit_batch"}

\* Collection: maintenance runs through every other multi-step call.
SweepCalls == {"stage", "discard_upload", "edit", "propose", "prepare", "commit", "maintain",
               "replace_client_pins", "abort", "prepare_batch", "commit_batch"}
SweepHolds == << <<1, Other>> >>

\* History: one writer goes on until admission refuses it, then maintains.
LongCalls == {"edit", "propose", "prepare", "commit", "maintain", "retain"}
LongUploads == << <<1, o0>> >>
=============================================================================
