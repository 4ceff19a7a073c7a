------------------------------- MODULE Skills -------------------------------
(***************************************************************************)
(* skills/manage.py, scanner.py and engine.py: the agents of several       *)
(* processes write skills, each a directory with a text, through a staging *)
(* directory, a scan and a gate into the live one, from where the engine   *)
(* discloses them.  File operations of different processes interleave.     *)
(***************************************************************************)
EXTENDS Integers, Sequences, FiniteSets

CONSTANTS
    Writer,    \* activations of create, patch or delete
    Name,      \* directories, and the names in the texts
    Text,      \* what a SKILL.md may be: its frontmatter, whether that has a
               \* description, its name, the platforms, and the scanner's findings
    Bundled,   \* the skills shipped with the package: a text or none, by directory
    Platform   \* of this machine

Nothing == {}    \* a directory that is not there; otherwise {text}

VARIABLES
    staging, live,   \* each directory's content
    writer,
    (* history *)
    lawful,          \* texts that were scanned with success
    gated,           \* texts whose gate said yes
    mixed            \* names that two writers were at the same time

vars == <<staging, live, writer, lawful, gated, mixed>>

Off == [pc |-> "off", dir |-> {}, text |-> {}]

Init ==
    /\ staging = [n \in Name |-> Nothing] /\ live = [n \in Name |-> Nothing]
    /\ writer = [w \in Writer |-> Off]
    /\ lawful = {} /\ gated = {} /\ mixed = {}
-----------------------------------------------------------------------------
(* scanner.py *)

Worst(findings) == IF "danger" \in findings THEN "danger"
                   ELSE IF "caution" \in findings THEN "caution" ELSE "clean"

MayInstall(findings, force) == \/ Worst(findings) = "clean"
                               \/ Worst(findings) = "caution" /\ force
-----------------------------------------------------------------------------
\* parse_skill_md; the name is one of the frontmatter's as well.
Parses(text) == text.front = "mapping" /\ text.described
-----------------------------------------------------------------------------
(* SkillManager *)

Goes(w, pc) == writer' = [writer EXCEPT ![w].pc = pc]
Busy(w) == writer[w].pc \in {"stage", "gate", "move"}

\* create: a text that does not pass the scan is refused.
Create(w, text, force) ==
    /\ writer[w].pc = "off"
    /\ MayInstall(text.findings, force)
    /\ writer' = [writer EXCEPT ![w] = [pc |-> "stage", dir |-> {text.name}, text |-> {text}]]
    /\ lawful' = IF "danger" \in text.findings THEN lawful ELSE lawful \union {text}
    /\ mixed' = mixed \union {n \in {text.name} : \E x \in Writer : Busy(x) /\ writer[x].dir = {n}}
    /\ UNCHANGED <<staging, live, gated>>

\* patch: the new text bears the name in the old one, whatever the directory's.
Patch(w, n, text, force) ==
    /\ \E old \in live[n] : Parses(old) /\ text.name = old.name
    /\ Create(w, text, force)

\* Mutant: a text that is staged already is left there.
StageKeeping(w) ==
    /\ writer[w].pc = "stage"
    /\ \E n \in writer[w].dir : staging' = [staging EXCEPT ![n] = IF @ = Nothing THEN writer[w].text ELSE @]
    /\ Goes(w, "gate")
    /\ UNCHANGED <<live, lawful, gated, mixed>>

\* The text takes the place of what a writer that died may have left.
Stage(w) ==
    /\ writer[w].pc = "stage"
    /\ \E n \in writer[w].dir : staging' = [staging EXCEPT ![n] = writer[w].text]
    /\ Goes(w, "gate")
    /\ UNCHANGED <<live, lawful, gated, mixed>>

\* The gate says no: the staged directory goes, whoever's text it holds.
GateFails(w) ==
    /\ writer[w].pc = "gate"
    /\ \E n \in writer[w].dir : staging' = [staging EXCEPT ![n] = Nothing]
    /\ Goes(w, "over")
    /\ UNCHANGED <<live, lawful, gated, mixed>>

\* It says yes: the live directory of this name goes first, with its references.
GatePasses(w) ==
    /\ writer[w].pc = "gate"
    /\ \E n \in writer[w].dir : live' = [live EXCEPT ![n] = Nothing]
    /\ Goes(w, "move")
    /\ gated' = gated \union writer[w].text
    /\ UNCHANGED <<staging, lawful, mixed>>

\* What is staged under the name moves into its place.  If another writer has moved
\* it already this raises; if there is a live one again, it goes inside that.
Promote(w) ==
    /\ writer[w].pc = "move"
    /\ \E n \in writer[w].dir :
          /\ live' = IF live[n] = Nothing THEN [live EXCEPT ![n] = staging[n]] ELSE live
          /\ staging' = [staging EXCEPT ![n] = Nothing]
    /\ Goes(w, "over")
    /\ UNCHANGED <<lawful, gated, mixed>>

Delete(w, n) ==
    /\ writer[w].pc = "off"
    /\ live[n] # Nothing
    /\ live' = [live EXCEPT ![n] = Nothing]
    /\ Goes(w, "over")
    /\ UNCHANGED <<staging, lawful, gated, mixed>>

\* The process dies; the directories stay.
Die(w) ==
    /\ Busy(w)
    /\ Goes(w, "over")
    /\ UNCHANGED <<staging, live, lawful, gated, mixed>>

\* The tool skill_manage, and `milyonus skills`.
SkillManage(w) ==
    \/ \E n \in Name : Delete(w, n)
    \/ \E text \in Text, force \in BOOLEAN :
          \/ Create(w, text, force)
          \/ \E n \in Name : Patch(w, n, text, force)

Next ==
    \E w \in Writer :
        SkillManage(w) \/ Stage(w) \/ GateFails(w) \/ GatePasses(w) \/ Promote(w) \/ Die(w)

Spec == Init /\ [][Next]_vars
-----------------------------------------------------------------------------
(* SkillEngine *)

\* The user's directory hides the bundled one of the same name, read or not.
Dir(n) == IF live[n] # Nothing THEN live[n] ELSE Bundled[n]

\* load_all: what parses and suits the machine.
Loaded == {text \in UNION {Dir(n) : n \in Name} :
              Parses(text) /\ (text.platforms = {} \/ Platform \in text.platforms)}

\* view: of a name, what is loaded under it; the references are the directory's.
View(n) == {text \in Loaded : text.name = n}

\* What the model is shown: the list, and each it asks for.
Shown == Loaded \union UNION {View(n) : n \in Name}
-----------------------------------------------------------------------------
\* Every skill the model is shown is a bundled one, or passed the scan and, unless
\* two writers of its name overlapped, a gate that was asked about this very text:
\* no order of writers, gates, deaths and removals brings another text live.
ShownIsVetted ==
    /\ Shown \subseteq lawful \union UNION {Bundled[n] : n \in Name}
    /\ \A n \in Name \ mixed : live[n] \subseteq gated
=============================================================================
