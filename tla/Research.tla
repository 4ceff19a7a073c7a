------------------------------ MODULE Research ------------------------------
(***************************************************************************)
(* research/*.py, tools/web/tools.py and security/ssrf.py: the tools       *)
(* web_fetch, web_search and deep_research.  The last plans queries with   *)
(* the model, searches for each, reads the sources one after the other     *)
(* and has the model write an answer whose [n] is the n-th of them.  The   *)
(* model, the search services and the pages are external: each may answer  *)
(* anything, or fail.                                                      *)
(***************************************************************************)
EXTENDS Integers, Sequences, SequencesExt

CONSTANTS
    Url,        \* each with its scheme, host and what the host resolves to
    Query,
    Listing,    \* what a search service may list: sequences of Url
    Sources,    \* max_sources, of the call
    Subqueries, \* max_subqueries, of the call
    Results,    \* the results asked for per query: 5, or k
    Hops        \* requests of one web_fetch: 5

VARIABLES
    tool,       \* "none", "web_fetch", "web_search" or "deep_research"
    stage,      \* of it: "plan", "search", "read", "write", "get", "over"
    keys,       \* search services with a key in the environment
    queries,    \* the planned ones that were not searched yet
    sources,    \* results
    blocks,     \* what was read, each with its source
    at,         \* web_fetch: where it is
    requested,  \* history: the URLs of which a page was asked for, in order
    found,      \* history: the URLs the services listed, in order
    looked      \* at of these, one result after the other

vars == <<tool, stage, keys, queries, sources, blocks, at, requested, found, looked>>

Init ==
    /\ tool = "none" /\ stage = "over"
    /\ keys \in SUBSET {"tavily", "brave"}
    /\ queries = <<>> /\ sources = <<>> /\ blocks = <<>> /\ at = {}
    /\ requested = <<>> /\ found = <<>> /\ looked = 0
-----------------------------------------------------------------------------
(* security/ssrf.py *)

IsHttp(url) == url.scheme \in {"http", "https"}

\* No address is a DNS failure; each of several has to be one of the Internet's.
CheckUrl(url) ==
    /\ IsHttp(url)
    /\ url.host \notin {"none", "metadata"}
    /\ url.addresses # {} /\ url.addresses \subseteq {"public"}

(* research/search.py *)

ActiveProvider == IF "tavily" \in keys THEN "tavily"
                  ELSE IF "brave" \in keys THEN "brave" ELSE "duckduckgo"

First(seq, n) == SubSeq(seq, 1, IF Len(seq) < n THEN Len(seq) ELSE n)

\* A keyed service is told how many are wanted, and its list taken as it is;
\* DuckDuckGo's page is cut, and then what is no web address left out.
Keyed(listing) == listing
ParseDdg(page) == SelectSeq(First(page, Results), IsHttp)

SearchWeb(listing) ==
    IF ActiveProvider = "duckduckgo" THEN ParseDdg(listing) ELSE Keyed(listing)

Uses(name) == tool = name /\ UNCHANGED <<tool, keys>>
Step(from, to) == stage = from /\ stage' = to
-----------------------------------------------------------------------------
(* Calls of the three tools; one has nothing of an earlier one. *)

Call(name, first) ==
    /\ stage = "over" /\ stage' = first
    /\ tool' = name
    /\ queries' = <<>> /\ sources' = <<>> /\ blocks' = <<>> /\ at' = {}
    /\ requested' = <<>> /\ found' = <<>> /\ looked' = 0
    /\ UNCHANGED keys

\* A service or the provider fails, or a URL cannot be taken apart: the tool ends
\* with an error.
Fail ==
    /\ stage # "over" /\ stage' = "over"
    /\ looked = Len(found)
    /\ UNCHANGED <<tool, keys, queries, sources, blocks, at, requested, found, looked>>

\* web_search lists what the service does.
WebSearch ==
    /\ Uses("web_search") /\ Step("search", "over")
    /\ \E listing \in Listing :
          /\ sources' = SearchWeb(listing)
          /\ found' = SearchWeb(listing)
    /\ UNCHANGED <<queries, blocks, at, requested, looked>>
-----------------------------------------------------------------------------
(* research/deep.py *)

\* _plan: the model's queries, as many as were asked for at most, or the question
\* itself if there is none or the list cannot be read.
Plan ==
    /\ Uses("deep_research") /\ Step("plan", "search")
    /\ \E question \in Query, list \in SeqOf(Query, Subqueries + 1) :
          queries' = IF First(list, Subqueries) = <<>> THEN <<question>> ELSE First(list, Subqueries)
    /\ UNCHANGED <<sources, blocks, at, requested, found, looked>>

Search ==
    /\ Uses("deep_research") /\ stage = "search" /\ queries # <<>> /\ looked = Len(found)
    /\ \E listing \in Listing : found' = found \o SearchWeb(listing)
    /\ queries' = Tail(queries)
    /\ UNCHANGED <<stage, sources, blocks, at, requested, looked>>

\* The next result is looked at.
Looks(list) ==
    /\ Uses("deep_research") /\ stage = "search" /\ looked < Len(found)
    /\ sources' = list
    /\ looked' = looked + 1
    /\ UNCHANGED <<stage, queries, blocks, at, requested, found>>

\* Mutant: what was seen is not looked at.
MergeAll ==
    LET url == found[looked + 1]
    IN  Looks(IF url.host = "none" THEN sources ELSE Append(sources, url))

\* A result without a URL, or seen for this or an earlier query, is left out.
Merge ==
    LET url == found[looked + 1]
    IN  Looks(IF url.host = "none" \/ Contains(sources, url) THEN sources ELSE Append(sources, url))

\* With no result it ends here.
Cut ==
    /\ Uses("deep_research") /\ queries = <<>> /\ looked = Len(found)
    /\ sources' = First(sources, Sources)
    /\ IF sources' = <<>> THEN Step("search", "over") ELSE Step("search", "read")
    /\ UNCHANGED <<queries, blocks, at, requested, found, looked>>

Block(url, text) == [url |-> url, text |-> text]

\* _default_fetch: a redirect is not followed, and what cannot be had is a text too.
Read ==
    LET url == sources[Len(blocks) + 1]
    IN  /\ Uses("deep_research") /\ stage = "read" /\ Len(blocks) < Len(sources)
        /\ IF CheckUrl(url)
           THEN /\ requested' = Append(requested, url)
                /\ \E text \in {"page", "error"} : blocks' = Append(blocks, Block(url, text))
           ELSE blocks' = Append(blocks, Block(url, "blocked")) /\ UNCHANGED requested
        /\ UNCHANGED <<stage, queries, sources, at, found, looked>>

Synthesize ==
    /\ Uses("deep_research") /\ Len(blocks) = Len(sources)
    /\ Step("read", "write")
    /\ UNCHANGED <<queries, sources, blocks, at, requested, found, looked>>

Report ==
    /\ Uses("deep_research") /\ Step("write", "over")
    /\ UNCHANGED <<queries, sources, blocks, at, requested, found, looked>>
-----------------------------------------------------------------------------
(* tools/web/tools.py *)

\* web_fetch of a URL, and of each it is redirected to: checked before it is asked.
Visit(url) ==
    /\ tool = "web_fetch"
    /\ IF CheckUrl(url) THEN stage' = "get" /\ at' = {url}
                        ELSE stage' = "over" /\ at' = {}
    /\ UNCHANGED <<tool, keys, queries, sources, blocks, requested, found, looked>>

\* The page, or an error of the network.
Get ==
    /\ Uses("web_fetch") /\ Step("get", "over")
    /\ Len(requested) < Hops
    /\ \E from \in at : requested' = Append(requested, from)
    /\ UNCHANGED <<queries, sources, blocks, at, found, looked>>

\* A redirect; after the last request it is not followed any more.
Redirect(url) ==
    /\ tool = "web_fetch" /\ stage = "get" /\ Len(requested) < Hops
    /\ \E from \in at : requested' = Append(requested, from)
    /\ IF CheckUrl(url) /\ Len(requested') < Hops
       THEN stage' = "get" /\ at' = {url}
       ELSE stage' = "over" /\ at' = {}
    /\ UNCHANGED <<tool, keys, queries, sources, blocks, found, looked>>

Next ==
    \/ Call("web_search", "search") \/ Call("deep_research", "plan") \/ Call("web_fetch", "visit")
    \/ Fail \/ WebSearch
    \/ Plan \/ Search \/ Merge \/ Cut \/ Read \/ Synthesize \/ Report
    \/ \E url \in Url : stage = "visit" /\ Visit(url)
    \/ Get \/ \E url \in Url : Redirect(url)

Spec == Init /\ [][Next]_vars
-----------------------------------------------------------------------------
\* Result i is of no use, or one of the first n sources.
Told(i, n) == found[i].host = "none" \/ \E m \in 1..n : sources[m] = found[i]

\* Source n is the first result that none of the sources before it tells of.
Source(n) ==
    \E i \in 1..Len(found) : /\ found[i] = sources[n] /\ ~Told(i, n - 1)
                            /\ \A j \in 1..(i - 1) : Told(j, n - 1)

\* What the model is told is source n was read from what the reader is told is [n],
\* which are the first of all that was found, each once, whatever sources fail or
\* are blocked and however the queries overlap; and no page is asked for that the
\* check refuses, or after as many as there may be.
ReportsAreSourced ==
    /\ tool = "deep_research" /\ stage \in {"read", "write"} =>
          /\ Len(sources) <= Sources
          /\ \A n \in 1..Len(sources) : Source(n)
          /\ Len(sources) < Sources => \A i \in 1..Len(found) : Told(i, Len(sources))
          /\ \A n \in 1..Len(blocks) : blocks[n].url = sources[n]
    /\ stage = "write" => Len(blocks) = Len(sources)
    /\ \A n \in 1..Len(requested) : CheckUrl(requested[n])
    /\ tool = "web_fetch" => Len(requested) <= Hops
=============================================================================
