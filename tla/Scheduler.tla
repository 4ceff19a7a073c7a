----------------------------- MODULE Scheduler -----------------------------
(***************************************************************************)
(* proactive/scheduler.py over cron/store.py and cron/schedule.py: the     *)
(* process that polls the table of scheduled tasks, runs those that are    *)
(* due one after the other and sets the next run of each.  The table is    *)
(* shared with the processes that add and remove tasks; the run itself is  *)
(* one step that ends in an answer or an exception.                        *)
(***************************************************************************)
EXTENDS Integers, Sequences

CONSTANTS
    Task,        \* ids: each is added at most once
    Requests,    \* tasks: when they are to run, and whether they are authorized
    Minutes, Hours, WeekDays, YearMinutes,   \* the calendar: 60, 24, 7, 366 * 24 * 60
    Unit,        \* of an interval: how many minutes "m", "h" and "d" are
    MaxNow,      \* bound: the clock
    MaxFailures  \* bound: exceptions and deaths of the process

VARIABLES
    now,
    table,     \* cron_tasks: of each task its row, or NoRow
    order,     \* the tasks that were added, by created_at
    loop,      \* the scheduler: where it is, the task it runs, the tasks of the tick it has left
    failures,
    (* history *)
    removed,   \* tasks that were removed
    late,      \* how often each ran after that
    runs,      \* how often each ran since its row was last set
    blamed,    \* how often one of those runs was cut off before it was marked
    early,     \* tasks that ran before their time
    unasked    \* tasks that did, without authority, what wants a yes

vars == <<now, table, order, loop, failures, removed, late, runs, blamed, early, unasked>>

NoRow == [spec |-> {}, authorized |-> FALSE, next |-> 0, last |-> 0]
Idle == [pc |-> "idle", running |-> {}, left |-> {}]
Down == [Idle EXCEPT !.pc = "down"]

Init ==
    /\ now = 1
    /\ table = [t \in Task |-> NoRow] /\ order = <<>>
    /\ loop = Down /\ failures = 0
    /\ removed = {} /\ late = [t \in Task |-> 0]
    /\ runs = [t \in Task |-> 0] /\ blamed = [t \in Task |-> 0] /\ early = {} /\ unasked = {}

Present(t) == table[t] # NoRow
-----------------------------------------------------------------------------
(* cron/schedule.py.  A schedule is an interval or a cron expression of five *)
(* fields, of which the day and the month are one here, the dates.  A field  *)
(* is a set of parts, each a range and a step.                               *)

FieldMatches(field, value) ==
    \E part \in field : /\ part.start <= value /\ value <= part.end
                        /\ (value - part.start) % part.step = 0

Field(start, end) == {[start |-> start, end |-> end, step |-> 1]}

\* Sunday is 0 or 7.
CronMatches(cron, time) ==
    LET day == time \div (Minutes * Hours)
        weekday == day % WeekDays
    IN  /\ FieldMatches(cron.minute, time % Minutes)
        /\ FieldMatches(cron.hour, (time \div Minutes) % Hours)
        /\ cron.dates = {} \/ day \in cron.dates
        /\ \/ FieldMatches(cron.weekday, weekday)
           \/ FieldMatches(cron.weekday, IF weekday = 0 THEN WeekDays ELSE weekday)

\* The times of the year after `time` that match: none makes _cron_next raise.
CronTimes(cron, time) ==
    {later \in (time + 1)..(time + YearMinutes) : CronMatches(cron, later)}

\* Schedule.next_after, of which an exception gives no time.
NextAfter(schedule, time) ==
    IF schedule.kind = "interval" THEN {time + schedule.interval}
    ELSE LET times == CronTimes(schedule.cron, time)
         IN  {first \in times : \A other \in times : first <= other}

Interval(minutes) == [kind |-> "interval", interval |-> minutes, cron |-> {}]
Cron(cron) == [kind |-> "cron", interval |-> 0, cron |-> cron]

\* _nl_to_cron: "hourly", or "every day", "every weekday" or a day of the week, at a
\* time, or at the one that is meant without one.
NlToCron(words) ==
    LET AnyHour == Field(0, Hours - 1)
        AnyDay == Field(0, WeekDays - 1)
        At(days) == [minute |-> Field(words.minute, words.minute), hour |-> Field(words.hour, words.hour),
                     dates |-> {}, weekday |-> days]
    IN  CASE words.every = "hour" -> [At(AnyDay) EXCEPT !.minute = Field(0, 0), !.hour = AnyHour]
          [] words.every = "day" -> At(AnyDay)
          [] words.every = "weekdays" -> At(Field(1, WeekDays - 2))
          [] words.every = "week" -> At(Field(words.weekday, words.weekday))

\* parse_schedule: what a specification means, if anything.
ParseSchedule(spec) ==
    CASE spec.form = "cron" -> {Cron(spec.cron)}
      [] spec.form = "amount" -> {Interval(spec.n * Unit[spec.unit])}
      [] spec.form = "words" -> {Cron(NlToCron(spec))}
      [] OTHER -> {}

Times(spec, time) == UNION {NextAfter(schedule, time) : schedule \in ParseSchedule(spec)}
-----------------------------------------------------------------------------
(* cron/store.py, from the command line and the schedule_task tool *)

\* A task is stored with its first run; a specification that means nothing, or has no
\* time in a year, is refused.
AddTask(t, request) ==
    /\ t \notin removed /\ ~Present(t)
    /\ \E first \in Times(request.spec, now) :
          table' = [table EXCEPT ![t] = [spec |-> {request.spec}, authorized |-> request.authorized,
                                         next |-> first, last |-> 0]]
    /\ order' = Append(order, t)
    /\ UNCHANGED <<now, loop, failures, removed, late, runs, blamed, early, unasked>>

\* `milyonus cron add`
CronAdd(t, request) == ParseSchedule(request.spec) # {} /\ AddTask(t, request)

\* The tool schedule_task, once its call was approved: the request is the model's.
ScheduleTask(t, request) == ParseSchedule(request.spec) # {} /\ AddTask(t, request)

RemoveTask(t) ==
    /\ Present(t)
    /\ table' = [table EXCEPT ![t] = NoRow]
    /\ removed' = removed \union {t}
    /\ UNCHANGED <<now, order, loop, failures, late, runs, blamed, early, unasked>>

\* `milyonus cron remove`
CronRemove(t) == RemoveTask(t)

Due(t) == Present(t) /\ table[t].next <= now

DueTasks == {t \in Task : Due(t)}

\* list: the newest first.
Newer(t, u) == \E j, k \in 1..Len(order) : j > k /\ order[j] = t /\ order[k] = u
-----------------------------------------------------------------------------
(* Scheduler.run and tick *)

\* `milyonus proactive start`, or whatever keeps that process running.
ProactiveStart ==
    /\ loop = Down /\ loop' = Idle
    /\ UNCHANGED <<now, table, order, failures, removed, late, runs, blamed, early, unasked>>

Tick ==
    /\ loop.pc = "idle" /\ DueTasks # {}
    /\ loop' = [pc |-> "run", running |-> {}, left |-> DueTasks]
    /\ UNCHANGED <<now, table, order, failures, removed, late, runs, blamed, early, unasked>>

\* _policy_approver: what would be confirmed is done only by an authorized task; list
\* reads no autonomy, so that none is.
ListedAutonomy(task) == "safe-only"
Approves(autonomy, decision) == \/ decision = "auto"
                                \/ decision = "confirm" /\ autonomy = "authorized"

\* The next task is run, makes some call, and its result is delivered, whether it is
\* still there or not.  A ProviderError is an answer as well.
RunTask(t) ==
    /\ loop.pc = "run"
    /\ \A other \in loop.left \ {t} : Newer(t, other)
    /\ loop' = [pc |-> "mark", running |-> {t}, left |-> loop.left \ {t}]
    /\ runs' = [runs EXCEPT ![t] = @ + 1]
    /\ late' = [late EXCEPT ![t] = @ + (IF t \in removed THEN 1 ELSE 0)]
    /\ early' = IF /\ table[t].last > 0
                   /\ \E spec \in table[t].spec : \A time \in Times(spec, table[t].last) : now < time
                THEN early \union {t} ELSE early
    /\ \E decision \in {"auto", "confirm", "block"} :
          unasked' = IF /\ decision # "auto" /\ ~table[t].authorized
                        /\ Approves(ListedAutonomy(t), decision)
                     THEN unasked \union {t} ELSE unasked
    /\ UNCHANGED <<now, table, order, failures, removed, blamed>>

Run == \E t \in loop.left : RunTask(t)

Rest == IF loop.left = {} THEN Idle ELSE [loop EXCEPT !.pc = "run", !.running = {}]

\* The next run of t is set to what follows a time.
Reschedule(t, last) ==
    /\ \E spec \in table[t].spec : \E time \in Times(spec, last) :
          table' = [table EXCEPT ![t].next = time, ![t].last = now]
    /\ runs' = [runs EXCEPT ![t] = 0] /\ blamed' = [blamed EXCEPT ![t] = 0]

\* Mutant: the next run follows the last due time.
MarkFromDue(t) ==
    /\ IF Present(t) THEN Reschedule(t, table[t].next) ELSE UNCHANGED <<table, runs, blamed>>
    /\ loop' = Rest
    /\ UNCHANGED <<now, order, failures, removed, late, early, unasked>>

\* Mutant: a task that has run stays due.
MarkNothing(t) ==
    /\ runs' = [runs EXCEPT ![t] = 0] /\ blamed' = [blamed EXCEPT ![t] = 0]
    /\ loop' = Rest
    /\ UNCHANGED <<now, table, order, failures, removed, late, early, unasked>>

\* mark_ran: the next run follows the moment the run ended; a removed task stays so.
Mark(t) ==
    /\ IF Present(t) THEN Reschedule(t, now) ELSE UNCHANGED <<table, runs, blamed>>
    /\ loop' = Rest
    /\ UNCHANGED <<now, order, failures, removed, late, early, unasked>>

MarkRan == \E t \in loop.running : Mark(t)

\* The rest of the tick is dropped; a run that began was for nothing.
DropTick ==
    /\ blamed' = [t \in Task |-> blamed[t] + (IF t \in loop.running THEN 1 ELSE 0)]
    /\ UNCHANGED <<now, table, order, removed, late, runs, early, unasked>>

\* A schedule without another time this year makes mark_ran raise, every time.
MarkRaises ==
    /\ \E t \in loop.running : \E spec \in table[t].spec : Times(spec, now) = {}
    /\ failures < MaxFailures
    /\ failures' = failures + 1
    /\ loop' = Idle /\ DropTick

\* An exception in the run or the delivery is logged by run().
Fail ==
    /\ loop.pc \in {"run", "mark"}
    /\ failures < MaxFailures
    /\ failures' = failures + 1
    /\ loop' = Idle /\ DropTick

\* Ctrl-C, or the process dies: nothing is left but the table.
Stop ==
    /\ loop # Down
    /\ failures < MaxFailures
    /\ failures' = failures + 1
    /\ loop' = Down /\ DropTick

\* Time passes, between the steps of a tick as well.
Pass ==
    /\ now < MaxNow
    /\ now' = now + 1
    /\ UNCHANGED <<table, order, loop, failures, removed, late, runs, blamed, early, unasked>>

Step == Tick \/ Run \/ MarkRan

Next ==
    \/ Step \/ MarkRaises \/ Fail \/ ProactiveStart \/ Stop \/ Pass
    \/ \E t \in Task : CronRemove(t) \/ \E request \in Requests : CronAdd(t, request) \/ ScheduleTask(t, request)

\* run() polls for ever, and a run ends: its budget is finite, its requests time out.
Fairness == WF_vars(Step)

Spec == Init /\ [][Next]_vars /\ Fairness
-----------------------------------------------------------------------------
\* A task is not run before the time its schedule gives after its last run, however
\* long that took, and not run again for one time unless a run was cut off before it
\* was marked; a removed one runs at most once more, in the tick that had read it
\* before, and marking it does not bring it back.  With nobody there to say yes, no
\* task does what wants one unless it was authorized when it was added.
RunsAreSpaced ==
    /\ early = {} /\ unasked = {}
    /\ \A t \in Task : Present(t) => runs[t] <= blamed[t] + 1
    /\ \A t \in removed : ~Present(t) /\ late[t] <= 1

\* A schedule of some task has run out: mark_ran raises for it at every tick.
Stuck == \E t \in Task : \E spec \in table[t].spec : Times(spec, now) = {}

\* A task that is due is run and marked, or removed, sometime: the failures of
\* others delay it, but do not starve it once they stop, and nothing that fell due
\* while the scheduler was down is forgotten, unless it is never started again.
DueTasksRun == (\A t \in Task : Due(t) ~> (~Due(t) \/ Stuck)) \/ <>[](loop = Down)
=============================================================================
