------------------------------ MODULE SelfMod ------------------------------
(***************************************************************************)
(* selfmod/harness.py: a change of the agent's own code, between a         *)
(* snapshot in git and a test run that decides whether it stays.  Git is   *)
(* external: the working tree, the index, and commits that are trees.      *)
(* The user edits the same tree between changes, and the process may die   *)
(* in the middle of one.                                                   *)
(***************************************************************************)
EXTENDS Integers, Sequences, FiniteSets

CONSTANTS
    File,       \* paths git does not ignore
    MaxChanges, \* bound: changes applied
    MaxEdits    \* bound: versions written

Gone == 0    \* the content of a file that is not there

VARIABLES
    tree,     \* each file's content, a version number
    index,    \* files git tracks
    commits,  \* each a tree and its parent; a tag keeps it from being forgotten
    head,     \* HEAD
    change,   \* apply_change: where it is, and the snapshot's ref
    changes, edits,
    (* history *)
    owned,    \* versions in the tree when a change began
    uncommitted, \* git refused a snapshot's commit
    outcome   \* of the last change, and the tree it began with

vars == <<tree, index, commits, head, change, changes, edits, owned, uncommitted, outcome>>

Empty == [f \in File |-> Gone]
NoChange == [pc |-> "none", ref |-> 0]

Init ==
    /\ tree = Empty /\ index = {}
    /\ commits = <<[tree |-> Empty, parent |-> 1]>> /\ head = 1
    /\ change = NoChange /\ changes = 0 /\ edits = 0
    /\ owned = {} /\ uncommitted = FALSE
    /\ outcome = [kept |-> FALSE, over |-> FALSE, before |-> Empty]

Write(f) ==
    /\ edits < MaxEdits
    /\ edits' = edits + 1
    /\ \E version \in {Gone, edits + 1} : tree' = [tree EXCEPT ![f] = version]

\* The user works on the same files.
UserEdits(f) ==
    /\ change.pc = "none"
    /\ Write(f)
    /\ outcome' = [outcome EXCEPT !.over = FALSE]
    /\ UNCHANGED <<index, commits, head, change, changes, owned, uncommitted>>
-----------------------------------------------------------------------------
Versions(t) == {t[f] : f \in File} \ {Gone}

\* A change begins; git makes a commit of the tree it is given, or none.
Begins(committed) ==
    /\ changes < MaxChanges /\ change.pc = "none"
    /\ changes' = changes + 1
    /\ \/ /\ commits' = Append(commits, [tree |-> committed, parent |-> head])
          /\ head' = Len(commits) + 1
          /\ UNCHANGED uncommitted
       \/ uncommitted' = TRUE /\ UNCHANGED <<commits, head>>
    /\ change' = [pc |-> "mutate", ref |-> head']
    /\ owned' = owned \union Versions(tree)
    /\ outcome' = [kept |-> FALSE, over |-> FALSE, before |-> tree]
    /\ UNCHANGED <<tree, edits>>

\* Mutant: the snapshot takes only what is tracked already.
SnapshotTracked ==
    /\ Begins([f \in File |-> IF f \in index THEN tree[f] ELSE Gone])
    /\ UNCHANGED index

\* snapshot: add -A, commit, and whatever HEAD is then.  The commit's failure, for
\* want of an identity or a lock, is not looked at.
Snapshot ==
    /\ Begins(tree)
    /\ index' = {f \in File : tree[f] # Gone}

\* mutate() writes files one after the other.
Mutate(f) ==
    /\ change.pc = "mutate"
    /\ Write(f)
    /\ UNCHANGED <<index, commits, head, change, changes, owned, uncommitted, outcome>>

Mutated ==
    /\ change.pc = "mutate"
    /\ change' = [change EXCEPT !.pc = "gate"]
    /\ UNCHANGED <<tree, index, commits, head, changes, edits, owned, uncommitted, outcome>>

\* rollback: reset --hard, by which what git tracks is as in the commit; files it
\* does not know stay.
ResetTo(ref) ==
    LET old == commits[ref].tree
    IN  /\ tree' = [f \in File |-> IF old[f] # Gone \/ f \in index THEN old[f] ELSE tree[f]]
        /\ index' = {f \in File : old[f] # Gone}
        /\ head' = ref

\* mutate() raised, or the tests are red.
Rollback ==
    /\ change.pc \in {"mutate", "gate"}
    /\ ResetTo(change.ref)
    /\ change' = NoChange
    /\ outcome' = [outcome EXCEPT !.over = TRUE]
    /\ UNCHANGED <<commits, changes, edits, owned, uncommitted>>

\* The tests are green; what the doctor says does not count.
Keep ==
    /\ change.pc = "gate"
    /\ change' = NoChange
    /\ outcome' = [outcome EXCEPT !.kept = TRUE, !.over = TRUE]
    /\ UNCHANGED <<tree, index, commits, head, changes, edits, owned, uncommitted>>

\* The process dies: the tree stays as it is.
Die ==
    /\ change.pc # "none"
    /\ change' = NoChange
    /\ UNCHANGED <<tree, index, commits, head, changes, edits, owned, uncommitted, outcome>>

\* `milyonus selfmod rollback`, to HEAD~1, which the user asks for.
UserRollsBack ==
    /\ change.pc = "none" /\ head # 1
    /\ ResetTo(commits[head].parent)
    /\ outcome' = [outcome EXCEPT !.over = FALSE]
    /\ UNCHANGED <<commits, change, changes, edits, owned, uncommitted>>

Next == \/ Snapshot \/ UserRollsBack \/ Mutated \/ Rollback \/ Keep \/ Die
        \/ \E f \in File : UserEdits(f) \/ Mutate(f)

Spec == Init /\ [][Next]_vars
-----------------------------------------------------------------------------
Committed == UNION {Versions(commits[k].tree) : k \in 1..Len(commits)}

\* If git took the commits, whatever was in the tree when a change began is in one of
\* them: failed changes, accepted ones, deaths and rollbacks lose no work.  After a
\* change that was rolled back every file it began with is as it was: the restore
\* point is that of this change and not an older one.
WorkSurvives ==
    ~uncommitted =>
        /\ owned \subseteq Committed
        /\ outcome.over /\ ~outcome.kept =>
              \A f \in File : outcome.before[f] # Gone => tree[f] = outcome.before[f]
=============================================================================
