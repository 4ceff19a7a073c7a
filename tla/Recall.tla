------------------------------- MODULE Recall -------------------------------
(***************************************************************************)
(* memory/render.py, semantic.py, vector.py and usermodel.py: what a turn  *)
(* sees of the active memories.  The prompt gets the newest of them,       *)
(* packed by trust into a budget; a query gets the user's own, ranked by   *)
(* likeness and trust over vectors that were stored when an item became    *)
(* active, or not, by the embedder of that time.  Memories come and go by  *)
(* VerifiedMemory, of which only the outcome is kept here.                 *)
(***************************************************************************)
EXTENDS Integers, Sequences, FiniteSets, FiniteSetsExt

CONSTANTS
    Actor,      \* users
    Memory,     \* what a memory may be: its tier, actor, whether it is the
                \* profile's, the length of its line, its likeness to the query,
                \* whether its text contains it
    Setting,    \* values of config.memory.embedder
    Limit,      \* of rows a listing returns: 200
    Budget,     \* characters of a prompt section
    ShowBudget, \* those of `milyonus user show`: 4000
    K,          \* vector_recall_k
    ToolHits,   \* memories the tool tells of: 20
    MaxItems    \* bound: memories

NoVector == "none"    \* no vector; no embedder

VARIABLES
    items,      \* the memories by created_at, each with its state and its vector's model
    embedder    \* the one configured, or none

vars == <<items, embedder>>

\* build_embedder: what is not known is taken for hashing.
BuildEmbedder(setting) == IF setting \in {"none", "openai"} THEN setting ELSE "hashing"
Embedder == {BuildEmbedder(setting) : setting \in Setting}

Init == items = <<>> /\ embedder \in Embedder

\* index_item after a promotion: no vector if there is no embedder or it fails, or
\* if the process dies in between.
Indexed(before) == {before, IF embedder = NoVector THEN before ELSE embedder}

Learn(memory) ==
    /\ Len(items) < MaxItems
    /\ \E vector \in Indexed(NoVector) :
          items' = Append(items, [memory |-> memory, active |-> TRUE, vector |-> vector])
    /\ UNCHANGED embedder

\* Demoted, rejected or expired; the vector stays.
Forget(i) ==
    /\ items[i].active
    /\ items' = [items EXCEPT ![i].active = FALSE]
    /\ UNCHANGED embedder

Restore(i) ==
    /\ ~items[i].active
    /\ \E vector \in Indexed(items[i].vector) :
          items' = [items EXCEPT ![i].active = TRUE, ![i].vector = vector]
    /\ UNCHANGED embedder

SwitchEmbedder ==
    /\ embedder' \in Embedder \ {embedder}
    /\ UNCHANGED items
-----------------------------------------------------------------------------
(* store.py: listings end after the newest *)

NewestOf(n, S) == {i \in S : Cardinality({j \in S : j > i}) < n}
Latest(S) == NewestOf(Limit, S)

Active == {i \in 1..Len(items) : items[i].active}
ActiveByActor(u) == {i \in Active : items[i].memory.actor = u}

\* reindex(), as far as it comes: none if the embedder fails, else the newest first.
Reindexed(n) ==
    [i \in 1..Len(items) |-> IF i \in NewestOf(n, Latest(Active))
                             THEN [items[i] EXCEPT !.vector = embedder] ELSE items[i]]

\* `milyonus memory reindex`, which may die after any of them.
MemoryReindex ==
    /\ embedder # NoVector
    /\ \E n \in 0..Limit : items' = Reindexed(n)
    /\ UNCHANGED embedder

Next == \/ SwitchEmbedder \/ MemoryReindex
        \/ \E memory \in Memory : Learn(memory)
        \/ \E i \in 1..Len(items) : Forget(i) \/ Restore(i)

Spec == Init /\ [][Next]_vars
-----------------------------------------------------------------------------
(* render.py and usermodel.py: sections of the prompt *)

Tier(i) == items[i].memory.tier
Length(S) == MapThenSumSet(LAMBDA i : items[i].memory.length, S)

\* Mutant: the newest first.
BeforeByAge(i, j) == i > j

\* The most trusted first, and of these the newest.
Before(i, j) == Tier(i) < Tier(j) \/ (Tier(i) = Tier(j) /\ i > j)

UpTo(S, i) == {j \in S : Before(j, i)} \union {i}

\* Each that has room besides those before it that had.
Packs(P, S) == \A i \in S : i \in P <=> Length(UpTo(P, i)) <= Budget

\* _pack passes over what has no room ...
Pack(S) == CHOOSE P \in SUBSET S : Packs(P, S)

\* ... UserModel.profile ends where one has none.
Digest(S, budget) == {i \in S : \A j \in UpTo(S, i) : Length(UpTo(S, j)) <= budget}

Profile(i) == items[i].memory.profile

\* build_snapshot: the notes are everybody's.
Notes == {i \in Latest(Active) : ~Profile(i)}
ProfileOf(u) == {i \in Latest(ActiveByActor(u)) : Profile(i)}
-----------------------------------------------------------------------------
(* vector.py and semantic.py: recall *)

\* The first n in an order.  An answer tells of a set: its order is layout.
First(n, S, Precedes(_, _)) == {i \in S : Cardinality({j \in S : Precedes(j, i)}) < n}

Likeness(i) == items[i].memory.likeness
Liker(i, j) == Likeness(i) > Likeness(j) \/ (Likeness(i) = Likeness(j) /\ i < j)

\* Mutant: any vector there is.
SearchAnywhere(allowed, n) == First(n, {i \in 1..Len(items) : items[i].vector = embedder}, Liker)

\* The vectors of this embedder that are allowed, the likest first.
Search(allowed, n) == First(n, {i \in allowed : items[i].vector = embedder}, Liker)

\* current_trust, of memories of one age: T0 does not decay, the others by half
\* lives that are the longer the lower the tier, T3's and T4's being the same.
Trust(i) == IF Tier(i) >= 3 THEN 1 ELSE 4 - Tier(i)

Better(i, j) == LET Score(x) == Likeness(x) * Trust(x)
                IN  Score(i) > Score(j) \/ (Score(i) = Score(j) /\ i < j)

\* recall(): of the memories listed 3 * K hits, ranked again by likeness * trust.
Recalled(listed) == First(K, {i \in Search(listed, 3 * K) : Likeness(i) > 0}, Better)

Contain(listed) == {i \in listed : items[i].memory.contains}

\* What may be told: what was recalled or else, and if the query cannot be embedded,
\* what contains it.
Told(listed, containing) ==
    IF embedder # NoVector /\ Recalled(listed) # {} THEN {Recalled(listed), containing}
                                                    ELSE {containing}

\* UserModel.ask
Ask(u) ==
    LET facts == Latest(ActiveByActor(u)) IN Told(facts, First(K, Contain(facts), Before))

\* The tool user_recall: of whoever the session is of, and nothing without a question.
UserRecall(u) == {{}} \union Ask(u)

\* `milyonus memory search`: everybody's.
CommandSearch == Told(Latest(Active), Contain(Latest(Active)))

\* `milyonus memory list` and `memory diff` of any time.
MemoryList == Latest(Active)
MemoryDiff(since) == {i \in MemoryList : i > since}

\* `milyonus user show` and `user ask`, of any user.
UserShow(u) == Digest(Latest(ActiveByActor(u)), ShowBudget)
UserAsk(u) == Ask(u)

\* The tool memory_search: recall() runs in a thread that may not use the store's
\* connection, so that it is an error unless the query cannot be embedded.
ToolSearch ==
    LET containing == NewestOf(ToolHits, Contain(Latest(Active)))
    IN  IF embedder = NoVector THEN {containing} ELSE {{}, containing}
-----------------------------------------------------------------------------
\* What the prompt holds of one level of trust is what it would hold if there were
\* nothing less trusted: no number of third-party claims, however long or recent,
\* takes the room of an operator's or a user's words, among the newest Limit.
NoCrowdingOut ==
    \A tier \in 0..4 :
        LET Trusted(S) == {i \in S : Tier(i) <= tier}
        IN  /\ Trusted(Pack(Notes)) = Pack(Trusted(Notes))
            /\ \A u \in Actor :
                  LET facts == Latest(ActiveByActor(u))
                  IN  /\ Trusted(Pack(ProfileOf(u))) = Pack(Trusted(ProfileOf(u)))
                      /\ \A budget \in {Budget, ShowBudget} :
                         Trusted(Digest(facts, budget)) = Digest(Trusted(facts), budget)

\* Whatever answers a query tells only of active memories, and a question about a user
\* only of that user's, though the vectors of all others, of what was forgotten and of
\* earlier embedders are still stored.
AnswersAreOwn ==
    /\ \A answer \in ToolSearch \union CommandSearch \union {MemoryDiff(since) : since \in 0..MaxItems} :
          answer \subseteq Active
    /\ \A u \in Actor : \A answer \in UserRecall(u) \union UserAsk(u) \union {UserShow(u)} :
          answer \subseteq ActiveByActor(u)
=============================================================================
