----------------------------- MODULE Generated ------------------------------
(***************************************************************************)
(* Generated workflow files (ci/cli.ts).                                   *)
(*                                                                         *)
(* The files under .github are outputs of the TypeScript sources.  A       *)
(* machine has a worktree and a git index; "generate" rewrites outputs in  *)
(* the worktree, "check" rejects a machine whose index is not what the     *)
(* sources render.  Both are lists of commands that stop at the first      *)
(* failure, so a failed check leaves a half regenerated worktree behind.   *)
(***************************************************************************)
EXTENDS Naturals, Sequences

CONSTANTS Source,     \* versions of the TypeScript sources
          Malformed,  \* those whose import throws (a bad atlas revision)
          Workflow,   \* output paths written by "generate"
          Artifact,   \* output paths written by the action bundler
          Render,     \* what each version of the sources renders, path by path
          None,       \* no such file
          MaxEdits    \* bound: edits by hand

Path    == Workflow \cup Artifact
Machine == {"local", "runner"}
Files   == [Path -> Source \cup {None}]
Tree    == [src : Source, out : Files]

ASSUME RenderAssumption == Render \in [Source -> Files] /\ Malformed \subseteq Source

VARIABLES disk,     \* each machine's worktree
          index,    \* each machine's git index
          command,  \* what each machine runs or ran last
          todo,     \* the commands it has left to run
          verdict,  \* how the last one ended
          edits     \* edits left

genVars == <<disk, index, command, todo, verdict, edits>>

generate == <<"generate", "bundle">>

\* Mutant: the worktree is not tested before it is regenerated.
checkUntested == <<"tsc", "generate", "bundle", "diff", "untracked">>

check == <<"tsc", "test", "generate", "bundle", "diff", "untracked">>

\* The files a command of the list writes.
Written(c) == CASE c = "generate" -> Workflow
                [] c = "bundle"   -> Artifact
                [] OTHER          -> {}

\* npm run ci <generate|check>
main(m, which) ==
    /\ verdict[m] # "running"
    /\ command' = [command EXCEPT ![m] = which]
    /\ todo' = [todo EXCEPT ![m] = IF which = "check" THEN check ELSE generate]
    /\ verdict' = [verdict EXCEPT ![m] = "running"]
    /\ UNCHANGED <<disk, index, edits>>

-----------------------------------------------------------------------------
\* The workflow files are compared byte for byte, of the actions only the
\* listing; both read the worktree before anything is generated again.
TestsPass(m) ==
    LET out == disk[m].out
        want == Render[disk[m].src]
    IN  /\ disk[m].src \notin Malformed
        /\ \A p \in Workflow : out[p] = want[p]
        /\ \A p \in Artifact : out[p] = None <=> want[p] = None

\* git diff --exit-code: tracked files against the index.
Unchanged(m) == \A p \in Path : index[m].out[p] # None => disk[m].out[p] = index[m].out[p]

\* git ls-files --others: files the index does not have.
NoUntracked(m) == \A p \in Path : disk[m].out[p] # None => index[m].out[p] # None

\* Mutant: outputs nobody added to the index are overlooked.
CanSucceedUntracked(m, c) ==
    CASE c = "test" -> TestsPass(m)
      [] c \in {"generate", "bundle"} -> disk[m].src \notin Malformed
      [] c = "diff" -> Unchanged(m)
      [] OTHER -> TRUE

\* What a command needs in order to exit with 0.
CanSucceed(m, c) ==
    CASE c = "test" -> TestsPass(m)
      [] c \in {"generate", "bundle"} -> disk[m].src \notin Malformed
      [] c = "diff" -> Unchanged(m)
      [] c = "untracked" -> NoUntracked(m)
      [] OTHER -> TRUE

\* Rendering replaces the outputs of the sources and removes nothing.
Rewritten(m, paths) ==
    LET want == Render[disk[m].src]
    IN  [p \in Path |-> IF p \in paths /\ want[p] # None THEN want[p] ELSE disk[m].out[p]]

RunCommand(m) ==
    /\ todo[m] # <<>>
    /\ CanSucceed(m, Head(todo[m]))
    /\ disk' = [disk EXCEPT ![m].out = Rewritten(m, Written(Head(todo[m])))]
    /\ todo' = [todo EXCEPT ![m] = Tail(@)]
    /\ verdict' = [verdict EXCEPT ![m] = IF Len(todo[m]) = 1 THEN "accepted" ELSE @]
    /\ UNCHANGED <<index, command, edits>>

\* A command exits with an error, having written some of its files or none.
FailCommand(m) ==
    /\ todo[m] # <<>>
    /\ \E paths \in SUBSET Written(Head(todo[m])) :
        /\ paths # {} => disk[m].src \notin Malformed
        /\ disk' = [disk EXCEPT ![m].out = Rewritten(m, paths)]
    /\ todo' = [todo EXCEPT ![m] = <<>>]
    /\ verdict' = [verdict EXCEPT ![m] = "rejected"]
    /\ UNCHANGED <<index, command, edits>>

-----------------------------------------------------------------------------
\* The developer edits and stages files while no command runs; a verdict is
\* about the files it saw.
Developer == verdict["local"] # "running" /\ verdict' = [verdict EXCEPT !["local"] = "none"]

EditSource(s) ==
    /\ Developer /\ edits > 0 /\ s # disk["local"].src
    /\ disk' = [disk EXCEPT !["local"].src = s]
    /\ edits' = edits - 1
    /\ UNCHANGED <<index, command, todo>>

EditOutput(p, c) ==
    /\ Developer /\ edits > 0 /\ c # disk["local"].out[p]
    /\ disk' = [disk EXCEPT !["local"].out[p] = c]
    /\ edits' = edits - 1
    /\ UNCHANGED <<index, command, todo>>

StageSource ==
    /\ Developer
    /\ index' = [index EXCEPT !["local"].src = disk["local"].src]
    /\ UNCHANGED <<disk, command, todo, edits>>

StageOutput(p) ==
    /\ Developer
    /\ index' = [index EXCEPT !["local"].out[p] = disk["local"].out[p]]
    /\ UNCHANGED <<disk, command, todo, edits>>
=============================================================================
