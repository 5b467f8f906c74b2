-------------------------------- MODULE MCCI --------------------------------
(***************************************************************************)
(* A workflow file and an action bundle; sources 1 render both, sources 2  *)
(* render only the workflow, sources 3 cannot be imported.                 *)
(***************************************************************************)
EXTENDS CI, TLC

Sources  == 1..3
Outputs  == [s \in Sources |->
               CASE s = 1 -> ("ci.yml" :> 1) @@ ("index.js" :> 1)
                 [] s = 2 -> ("ci.yml" :> 2) @@ ("index.js" :> None)
                 [] s = 3 -> ("ci.yml" :> None) @@ ("index.js" :> None)]
Groups   == {{"workflows"}, {"ubuntu", "macos"}, {"build", "minimum_rust"},
             {"schema", "windows"}, {"specification", "windows_arm"}, {"filesystems"}}
=============================================================================
