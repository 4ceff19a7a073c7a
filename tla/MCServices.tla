----------------------------- MODULE MCServices -----------------------------
(***************************************************************************)
(* The instance of Services for TLC: schedules, skills, calls, memories.   *)
(***************************************************************************)
EXTENDS Services

\* A calendar of two minutes, one hour, weeks of two days and a year of two dates.
Every(start, end, step) == {[start |-> start, end |-> end, step |-> step]}
Fields(minute, dates) == [minute |-> minute, hour |-> Every(0, 0, 1), dates |-> dates, weekday |-> Every(0, 1, 1)]
Written(form) == [form |-> form, cron |-> {}, n |-> 0, unit |-> "m", every |-> "", weekday |-> 0,
                hour |-> 0, minute |-> 0]

TwoMinutes == [Written("amount") EXCEPT !.n = 2]
EvenMinutes == [Written("cron") EXCEPT !.cron = Fields(Every(0, 1, 2), {})]
LeapDay == [Written("cron") EXCEPT !.cron = Fields(Every(0, 0, 1), {1})]
SecondDay == [Written("words") EXCEPT !.every = "week", !.weekday = 1, !.minute = 1]
Nonsense == Written("none")

SomeRequests == {[spec |-> TwoMinutes, authorized |-> FALSE], [spec |-> EvenMinutes, authorized |-> TRUE],
                 [spec |-> LeapDay, authorized |-> FALSE], [spec |-> SecondDay, authorized |-> FALSE],
                 [spec |-> Nonsense, authorized |-> TRUE]}
Units == [m |-> 1, h |-> 2, d |-> 2]

\* Both servers have "x", and the second a name of the agent's.
SomeOffers == <<<<"x">>, <<"read_file", "x", "y">>>>

\* Skills: of two names, clean, with a caution, with a danger as well.
SkillText(name, findings) == 
    [name |-> name, findings |-> findings, front |-> "mapping", described |-> TRUE, platforms |-> {}]
SomeTexts == {SkillText(n, f) : n \in Name, f \in {{}, {"caution"}, {"caution", "danger"}}}
Shipped == [n \in Name |-> IF n = "a" THEN {[SkillText("a", {}) EXCEPT !.platforms = {"linux"}]} ELSE {}]

readFile == [tool |-> "read_file", risk |-> "safe", irreversible |-> FALSE, blocked |-> FALSE]
runShell == [readFile EXCEPT !.tool = "run_shell", !.risk = "danger"]
remove == [runShell EXCEPT !.irreversible = TRUE]
curl == [runShell EXCEPT !.blocked = TRUE]

Answers == {<<>>, <<readFile, runShell>>, <<remove>>, <<curl>>}

Remembers(tier, actor, profile, length, likeness, contains) ==
    [tier |-> tier, actor |-> actor, profile |-> profile, length |-> length,
     likeness |-> likeness, contains |-> contains]

SomeMemories == {
    Remembers(1, "u", TRUE, 2, 1, TRUE), Remembers(1, "u", TRUE, 1, 2, FALSE),
    Remembers(3, "u", TRUE, 1, 2, FALSE), Remembers(3, "v", FALSE, 2, 3, TRUE),
    Remembers(0, "v", TRUE, 2, 1, TRUE), Remembers(2, "u", FALSE, 2, 0, TRUE)}

\* Lines: two that are one fact but for case.
LineOf(words, same) == [words |-> words, same |-> same, fact |-> TRUE, long |-> TRUE, recurring |-> FALSE]
SomeLines == {LineOf(1, 1), LineOf(2, 1)}
AlikeLines == SomeLines \X SomeLines

\* URLs: two that may be read, one with an inner address, one of another scheme, none.
Address(scheme, host, addresses, path) ==
    [scheme |-> scheme, host |-> host, addresses |-> addresses, path |-> path]
page == Address("https", "site", {"public"}, 1)
other == Address("http", "site", {"public"}, 2)
inner == Address("http", "inner", {"public", "private"}, 1)
files == Address("ftp", "site", {"public"}, 1)
noUrl == Address("", "none", {}, 0)
SomeUrls == {page, other, inner, files, noUrl}
SomeListings == {<<>>, <<page>>, <<noUrl, page, inner>>, <<files, inner, other>>, <<other, page>>}
=============================================================================
