# Milyonus Agent: a TLA+ verification project

Milyonus is a personal agent in Python (`src/src/milyonus`): a terminal assistant, a gateway for
messaging channels and scheduled tasks over one agent loop, with a *verified memory*. What the
agent remembers is kept in quarantine until the rules of its trust tier are met, trust decays,
every source can be revoked, and a hash-chained ledger records each transition. Memory is the
program's own idea and the part that several processes share, so the project starts there.

This file is the inventory, the plan, and the guide to the modules, runs and proofs.
Paths below are relative to `src/src/milyonus`, unless they start with `src/`.

## 1. Inventory

Components, the state each keeps, and who calls whom.

| Component (files) | State | Operations | Talks to |
|---|---|---|---|
| **Verified memory** (`memory/pipeline.py`, `store.py`, `consolidate.py`, `trust.py`, `t0.py`, `negative.py`, `verifier.py`, `model.py`) | SQLite tables `memory`, `negative_memory`; no process-local state | `propose`, `process_one` (awaits a model verdict), `approve_pending`, `reaffirm`, `revoke_by_source`, `stage_t0`, `activate_t0`, the five passes of `consolidate` | called by the agent's memory tools, the CLI and the consolidation command; awaits a provider |
| **Ledger and transactions** (`memory/store.py`) | table `memory_ledger`, one connection per process with implicit transactions | `_set_state` and its callers, `_ledger_append`, `commit`, `verify_ledger` | SQLite in WAL mode, shared by every process of the user |
| Memory tools, user model (`memory/tool.py`, `usermodel.py`) | none of their own | the tools `memory_propose`, `memory_search`, `user_recall`; `facts`, `profile`, `ask`, `candidate_observations`, `reflect`, `observe` | verified memory, recall |
| Recall and prompt snapshot (`memory/semantic.py`, `vector.py`, `render.py`) | a vector and the name of its embedder beside each item | `index_item`, `recall`, `reindex`, `build_snapshot`, `_pack` under a character budget | memory store, prompt builder |
| **Agent loop** (`core/loop.py`, `budget.py`) | a `history` and a `Budget`, which the surface keeps and may share between turns | `run_turn`: stream, approve, run tools, repeat | provider, tools, approval callback |
| **Risk engine** (`security/risk.py`, `preexec.py`) | `session_grants` | `classify`, `grant_session` | called from approval callbacks |
| **Gateway** (`gateway/server.py`, `adapters/*.py`) | one session (history, budget) per channel and user, approval waiters, update offset | `handle`, `_handle_pair`, `ask_approval`, receive loops, `bind` with backoff | agent loop, pairing, messaging services |
| Inbound side of the adapters (`gateway/webhook.py`, `adapters/*.py`) | connections, the events seen | parsing of requests, signatures, what counts as a message | messaging services |
| **Pairing** (`gateway/pairing.py`) | a JSON file, of which every process keeps a whole copy | `new_code`, `redeem`, `mark_request`, `unpair`, `is_paired` | gateway, CLI in another process |
| **Cron and scheduler** (`cron/*.py`, `proactive/*.py`) | SQLite table of tasks with `next_run` | `add`, `due`, `mark_ran`, `tick`, `run_scheduled_task`, `suggest` | agent loop, delivery callbacks |
| MCP client (`tools/mcp/*.py`) | a subprocess and a request id per server | `_request`, `start`, `register_into`, `close` | external servers over pipes |
| Self-modification (`selfmod/harness.py`) | a git working tree | `snapshot`, `apply_change`, `test_gate`, `rollback` | git, the test suite |
| Skills (`skills/*.py`) | a directory per skill, live and staged | `create`, `patch`, `delete`, promotion | file system |
| Terminal (`cli/tui.py`, `core/session.py`) | a session, its log, its grants | the prompt loop, approval, interruption, reflection at the end | agent loop, risk engine, user model |
| ACP server (`acp/server.py`) | sessions, one running prompt | `serve` and the methods it dispatches | an editor over stdio, agent loop |
| Providers (`providers/*.py`) | none | `stream`: assembles text and tool calls from chunks; payloads | HTTP |
| Operator keys (`security/operator.py`, `cli/admin_cmd.py`) | key files | `keygen`, `sign`, `verify`, `t0 add`, `t0 activate` | T0 writes |
| Research (`research/*.py`, `tools/web/*.py`, `security/ssrf.py`) | none beyond a call | `web_fetch`, `web_search`, `deep_research` | search services, pages, the model |
| Delegation (`delegation/subagent.py`) | a history and a budget of its own per subagent | `run_subagent`, called only by tests | agent loop |
| Scanning, redaction (`security/*.py`) | none | text classification | pipeline, tools |
| Other tools, observability, evaluation, CLI parsing, configuration | none shared, or passive | wrappers, reports, parsing | the above |

What is hard, and what makes each correct:

* **Verified memory.** A verification reads an item, *awaits*, and writes by id; consolidation
  works from lists it read earlier; a human may revoke, approve or reaffirm in between; any process
  may die at an await. Correct when no order of these lets a claim be believed on less than its
  tier demands, when refusals and revocations are remembered, when trust only decays, and when an
  operator's word is displaced by nothing less.
* **Ledger.** Several connections read a chain head and append to it; a method is many statements;
  `commit()` commits what an earlier, failed method left. Correct when the chain never forks,
  entries stay, and table and ledger agree after any crash.
* **Agent loop.** Tool calls and results must match in the history even when a tool raises or the
  task is cancelled; nothing dangerous runs unapproved; the budget bounds the model calls of a session,
  whichever turns share it.
* **Gateway.** The approval of a tool is awaited by the handler of a message, itself awaited by the
  loop that would deliver the answer. Correct when an answer reaches the question it was given to,
  no update is lost when a handler raises, every handler ends, and an unpaired user is never served.
* **Inbound.** A service repeats what it saw no 200 for, connections break anywhere, the agent's own
  posts come back, others send requests too. Correct when what was acknowledged is handed on, and once, and
  nothing else is where a secret is set.
* **Pairing.** Two processes overwrite one file. Correct when a code pairs one user once, within its
  hour, and a pairing survives what other processes save.
* **Scheduler.** A crash between running a task and `mark_ran`, an exception in one of several due
  tasks. Correct when every due task eventually runs and the repetitions are bounded.
* **MCP, self-modification, skills.** A late answer must not be taken for the next one's, a server that
  hangs must not take the others with it; a change that fails its gate leaves no trace and others' work
  stands; no text goes live that its gate was not asked about.
* **Terminal and editor.** A turn may fail or be interrupted anywhere. Correct when no grant widens, the
  log keeps what was said, and an editor gets its responses, in order.
* **Providers, recall, research.** Fragments of several calls interleave and stop anywhere; listings, vectors
  and rankings are of different ages; sources are found, dropped and numbered at different times.
* **Operator keys.** A key may be replaced between any two steps of a command that signs with it.

## 2. Plan

The order is by importance: first what the agent believes, then what it does, then the rest.

| # | Module | Content | Status |
|---|---|---|---|
| 1 | `TrustGate` | abstract specification: what verified memory promises | done |
| 2 | `VerifiedMemory`, `MCVerifiedMemory` | pipeline, store, consolidation, T0; refines `TrustGate` | done |
| 3 | `VerifiedMemory_proofs` | its invariants and action properties, the refinement | done (see 9) |
| 4 | `Ledger`, `MCLedger`, `Ledger_proofs` | statements of store methods over SQLite; all of its properties proved | done |
| 5 | `Pairing`, `MCPairing`, `Pairing_proofs` | gateways, operator commands and one file; all of its properties proved | done |
| 6 | `AgentLoop` | `run_turn` with its approvals and budget, on any surface's terms | done |
| 7 | `Gateway`, `MCGateway`, `Gateway_proofs` | adapters' receive loops and approvals around a turn; extends 6; its safety proved | done |
| 8 | `Scheduler` | `tick`, `mark_ran`, crashes; schedules over a small calendar | done |
| 9 | `McpClient`, `SelfMod`, `Skills` | request matching; gate and rollback; staging | done |
| 10 | `Terminal`, `Editor` | the two other surfaces of 6 | done |
| 11 | `Streams`, `Recall`, `Inbound`, `Research`, `Operator` | assembling, ranking, receiving, numbering, signing | done |
| 12 | `Services`, `MCServices` | instances of 8 to 11 in one specification, for one run | done |
| 13 | `Trust_proofs`, `Changes_proofs`, `Peers_proofs`, `Unasked_proofs` | the safety of the parts of 12, by theme; all of it proved | done |

Abstract specifications: `TrustGate`, which `VerifiedMemory` implements. The other components state
their promise as properties over history variables, which no action reads.

Every safety and action property the runs check is a theorem by now; section 9 says which and how, and what
stays with TLC.

## 3. VerifiedMemory

One SQLite file is shared by all processes. A method of `MemoryStore` is one transaction and is
one action; what the code does across several transactions, or across an `await`, is several.

| State | In the code |
|---|---|
| `row` | the columns of table `memory` that change: state, confirmations, expiry, reaffirmed_at, trust ceiling, count, created_at |
| `lastEntry` | the action of the newest `memory_ledger` entry that moved the item |
| `negatives` | table `negative_memory` |
| `job[a]` | the locals of a running `process_one`: the item read, its confirmations then, and how far it got |
| `sweep` | the pass `consolidate` is in and the list it iterates over |
| `now` | the clock |
| `evidence`, `consent`, `signatures`, `resubmitted` | history, read by no action: approving verdicts, user approvals, verified signatures, items proposed after a similar text was refused |

| Actions | In the code |
|---|---|
| `Propose` | `MemoryPipeline.propose`, `insert_candidate` |
| `ProcessOne`, then `Refuse`, or `Reject` and `Remember`, or `Promote`, `Confirm`, `Hold` | `process_one`: read, check negative memory, await the verdict, write by id |
| `Crash` | the process dies or the await is cancelled, at any point between commits |
| `Approve` | `approve_pending` |
| `Revoke` | `revoke_by_source` with its cascade over `derived_from` |
| `Reaffirm` | `store.reaffirm`, weak and strong |
| `StageT0`, `ActivateT0` | `memory/t0.py`, the signature check having succeeded |
| `SweepStart` ... `SweepMerged` | `consolidate`: process the quarantine, expire, score, demote, dedupe |
| `Tick` | time |

`TrustGate` is the promise: a claim is in `believed` only on grounds its tier accepts (T1 and T2 one
approving verdict, T3 `Needed` of them, anything but T0 a user's approval, T0 two operator
signatures). `VerifiedMemory` maps `believed` to the active items (`Gate == INSTANCE TrustGate
WITH believed <- InState("active")`), and `GatePromise` says it implements `TrustGate`, however
often an item is demoted and promoted again and although workers count confirmations from stale
reads.

What is abstracted: texts are model values with `Similar` (the rephrase relation) and `RuleRejects`
(what the rule verifier and the injection scanner refuse for a kind); the model verifier answers
anything the rules do not refuse; the comparison `ceiling * 0.5^(age/half-life) < floor` is done in
integers, exactly (`Decayed`).

What is coarser than the code, and why it does not matter to the properties: `Confirm` joins
`add_confirmation` and `set_expiry`, which commit one after the other (the expiry date is read only by
`expire_due`, which never selects a pending row); `reaffirm`, `activate_t0` and `revoke_by_source`
read and write in one step (the statements of a revocation are apart in `Ledger`);
`by_state(limit=200)` is taken as all items. `Reaffirm` allows strong reaffirmation as the store does,
although the CLI's `--sign` never reaches it.

## 4. Ledger

`VerifiedMemory` takes a store method as a transaction. `Ledger` looks at what that rests on.
Each connection has its implicit transaction (`conn`: open, with a snapshot, holding the write lock,
stale), a method in progress (`op`), and there is what is committed (`db`). The steps are the
statements: `Update`, `LedgerAppend` (or `LedgerAppendRaises`), `Commit`; `Busy` is "database is
locked", by timeout or because the snapshot is stale; `Close` is a crash at any statement. `Note`,
`RevokeNothing`, `Score` and `Select` are the methods that move no item, among them
`update_trust_score`, which does not commit. There is no rollback because nothing in the store calls
one. SHA-256 is taken as injective: `Digest` is what it digests.

The model starts on a file in which the items are active, with the ledger written so far as
`Genesis`. Which items a method moves is free (`Start`), which includes all of its callers.

## 5. Pairing

Who may talk to the agent is one JSON file. Every process reads it once, in `PairingManager.__init__`,
and from then on works on its copy and overwrites the whole file after each change.

| State | In the code |
|---|---|
| `file` | `pairing.json`; `Torn` while `write_text` has truncated and not yet filled it |
| `mem[p]` | the `PairingState` of process `p`: paired accounts, pending codes, failures and locks |
| `pc[p]`, `asked[g]` | where a process is; the `/pair` message a gateway is handling |
| `issued`, `admitted`, `guesses`, `base`, `clobbered` | history: codes the operator was given, accounts admitted by a fresh code, wrong codes tried, what each process last saw in the file, and whether a process has overwritten what another wrote or read a torn file |

| Actions | In the code |
|---|---|
| `Load` | a process starts: `_load`, which takes an unreadable file for an empty one |
| `NewCode`, `WriteAndExit` | `gateway pair`: `new_code`, and the code is printed |
| `Mark`, then `RedeemLocked`, `RedeemInvalid` or `RedeemValid` | `_handle_pair`: `can_request`, `mark_request`, `redeem` |
| `Change`, `Write`, `WriteFails` | the two halves of `_save`, or the exception out of it |
| `Exit` | a process ends or is killed, also halfway through a save |
| `Tick` | time |

`/pair` is handled without an `await`, so a gateway handles one at a time; the processes interleave at every
half of a save. Codes are drawn at random from 31^8 and taken as unguessable: a user types one that
was given out, or a wrong one. What two processes do to each other is in the model, not assumed
away: `CodesPairOnce` and `GuessingIsSlow` hold *until* a process has overwritten another's
save (`clobbered`), and the run `pairing_newcode` shows the ordinary way to get there.
`OnlyCodesAdmit` holds whatever happens. `unpair` has no caller in the source tree and is not modelled.

## 6. AgentLoop and Gateway

`AgentLoop` is `run_turn` with what it shares: a session's history and budget. It has no specification
of its own; a surface extends it and decides when a turn starts and what `approve()` answers.
`Gateway` is the surface with the most to go wrong.

| State | In the code |
|---|---|
| `turn[t]`, `history[s]`, `used[s]` | a running `run_turn`; the messages, kept as the last one and whether all are in an order a provider accepts; `Budget` |
| `kind` | the adapter: telegram, discord, slack or whatsapp |
| `sent`, `queue`, `next`, `batch` | what users wrote; what the service holds or the adapter has queued; `_offset` and the updates a `getUpdates` returned |
| `server`, `rcv[r]`, `waiter[u]` | `bind` and `start`; the tasks that take messages and await handlers; `_approval_waiters` |
| `paired`, `seen` | what `PairingManager` says; `_seen_events` |
| `taken`, `tasks`, `allowed`, `disturbed` | history: messages taken, given to the agent, calls approved by which answer, sessions with a raised or a doubled turn |

| Actions | In the code |
|---|---|
| `Begin`, `Request`, `Answer`, `RunSafe`, `SeekApproval`, `Result`, `Denied`, `SpendNothing`, `Raises` | the steps of `run_turn` between awaits |
| `Send`, `Resend`, `Poll` | the service |
| `Start`, `Fails`, `Disconnect`, `Crash` | `bind`, `start`, exceptions out of it, the process |
| `TakeAnswer`, `TakeAside`, `TakeTask` | the adapter gives a message to a waiter, or `handle` answers it itself (unpaired, `/pair`), or runs a turn |
| `Block`, `Ask`, `Wait`, `Approve`, `Refuse` | `approve` and `ask_approval` |
| `SendReply`, `ProviderError`, `HandlerRaises` | how a handler ends |

The adapters differ in who waits for whom. Telegram's and Discord's loops await the handler; Slack's and
WhatsApp's webhooks fill a queue that a task empties, and a start that fails after it made its task
leaves that task behind, so two receivers can serve one queue. A blocked call, a timed-out
question and an unpaired user are each a path of their own. Whose question an answer reaches when
two are open is decided by the code's one waiter per user. `OneYesOneCall` says that a yes approves at most
one call, and one of its own user; not which: a yes that comes after its question timed out approves the
user's next question, if one is open by then.

## 7. The other parts, and Services

Each module is a specification of its own. `Services` instantiates them all and lets `part` choose whose
behaviour is looked at, while the variables of the others rest; they share no state, so their
behaviours together would be no other behaviours. The terminal and the editor use `AgentLoop`, and
are the two parts with variables in common.

| Module | State and actions | What it takes from outside |
|---|---|---|
| `Scheduler` | `table` (`cron_tasks`), the tasks a tick has left, of which the newest is next; `CronAdd`, `ScheduleTask`, `CronRemove`, `ProactiveStart`, `Stop`, `Tick`, `Run`, `MarkRan`, `MarkRaises`, `Fail`. `ParseSchedule` and `Times` are `parse_schedule` and `next_after` | the clock; which call a task wants to make; failures of a run or of its delivery, crashes |
| `McpClient` | each server's pipe and each client's `_next_id` and lock; `Spawn`, `ListTools`, `Connect`, `GiveUp`, `TimeOut`, `RegisterInto`, `Acquire`, `Read`, `Closed`, `CloseAll` | servers that answer in any order, send notices, hang or exit |
| `SelfMod` | files, git's index and commits, `HEAD`; `Snapshot`, `Mutated`, `Rollback`, `Keep`, `UserRollsBack`, `Die` | git; the mutation, the tests' verdict, a user who edits at the same time |
| `Skills` | the staging and live directories; `Create`, `Patch`, `Delete`, `Stage`, `GatePasses`, `GateFails`, `Promote`, `Die`; `Shown` is what the engine lists and shows | the scan's findings on a text, the gate's answer |
| `Terminal` | the session log, grants, messages; `NewSession`, `UserWrites`, `HandleCommand`, `Clear`, `Exit`, `Granted`, `Yes`, `YesForSession`, `No`, `Interrupt`, `ProviderFails`, `Reflect`; `Suggested` is `proactive/suggest.py` over the log, as the sets its loops make: `Beginnings` the rows that begin a group, `Cluster` a group | what is typed, and Ctrl-C |
| `Editor` | lines written and read, responses; one action for each method `acp/server.py` dispatches, and `Skip`, `Stumble`, `Fail`, `HangUp` | the editor |
| `Streams` | the assembly of `stream()` in both dialects (`out`: whether there was text, the calls handed on, the events of the end), the payload of the next request; `Parses` is `json.loads` of a call's arguments, `Kept` what of a stream that raised is not lost | the provider's events, which may stop anywhere, with a stop reason or without |
| `Recall` | items, each with its vector's embedder; `Learn`, `Forget`, `Restore`, `SwitchEmbedder`, `MemoryReindex`; `Pack`, `Digest`, `Search`, `Ask`, `UserRecall`, `ToolSearch` and the listings of the commands are what is computed from them, as sets: the order in an answer is layout, and `Pack` is the set its loop ends with (`Packs`) | likeness of a query, as a number of each memory |
| `Inbound` | connections and what their requests tell; `SlackOnRequest`, `WhatsAppVerification`, `WhatsAppOnRequest`, `Respond`, `Break`, `Pull`, `Restart`; `forged` is a history variable | the service's deliveries and repetitions; strays: unsigned copies of events, and events nobody posted, with the id of a post or without |
| `Research` | a call of `web_fetch`, `web_search` or `deep_research`: queries, what they found and how much of it was looked at, sources, what was read; `Plan`, `Search`, `Merge`, `Cut`, `Read`, `Synthesize`, `Visit`, `Get`, `Redirect`, `Fail` | listings, pages, redirections, the model |
| `Operator` | key files, commands as processes, claims; `GenerateKeypair`, `Install`, `Carry`, `Stage`, `Activate`, `Die` | Ed25519: a signature is the key that made it |

## 8. Runs

| Run | Instance | What it shows |
|---|---|---|
| `memory_flow` | a web page, a note derived from it, a page repeating the note, which its rules refuse; one session and the consolidation pass | in every order of their processing, with crashes, approvals and revocation: `LedgerTellsState`, `RulesAreAFloor`, `RefusalIsRemembered`, `RevocationIsClosed`, `DismissedStays`, and the refinement `GatePromise` |
| `memory_trust` | an operator's rule, a user saying the same, a subagent's summary; two ticks of the clock | decay at two speeds, four reaffirmations, demotion, staging and activation, dedupe: `TypeOK` (with the range of the ceiling), `WeakNeverRaises`, `OperatorStands` |
| `ledger` | two processes, two items, three entries | `TypeOK`, `ChainVerifies`, `AppendOnly`, `StateIsLedgered`, `AllOrNothing`, `CleanBetweenMethods`, with lock timeouts, stale snapshots, raising appends and crashes at every statement |
| `pairing` | one gateway and the operator's command, two users, one code for one of two channels | every order of loads, saves, crashes and messages: `TypeOK` (a failure count never reaches its limit, a copy is never half read), `OnlyCodesAdmit`, `CodesPairOnce`, `GuessingIsSlow` |
| `gateway` | a chat over each of the four channels, two receivers, two messages, one fault | `RequestsWellFormed`, `OneYesOneCall`, `BudgetHolds`, `TypeOK` (who waits is who is asked), and in the end `UpdatesArrive` and `HandlersEnd` |
| `services` | each part of section 7, by itself | the properties of the table below |

| Property of `services` | Says, in short |
|---|---|
| `RunsAreSpaced`, `DueTasksRun` | no run early, twice, or after a removal but by the tick that had read it; what is due runs in the end, also after the scheduler was down, unless it is never started again |
| `RepliesMatch`, `HealthyServersAnswer` | a request returns its own reply, after time-outs too; one bad server keeps nobody else waiting |
| `WorkSurvives` | what was in the tree when a change began is in a commit; a rolled-back change leaves its files as they were |
| `ShownIsVetted` | no order of writers, gates and crashes shows the model a text that was not scanned and gated |
| `NothingIrreversibleUnasked`, `SessionIsKept` | grants never widen to what cannot be undone; log, history, proposals and suggestions agree |
| `RequestsAnswered` | the editor gets a response to each request, in order |
| `CallsAreWhole` | a call is handed on with all of its arguments or, if the response stopped before the first fragment of them, with none; the results are told back one each and adjacent; after an exception no call is told at all |
| `NoCrowdingOut`, `AnswersAreOwn` | less trusted memories take no room from more trusted ones; an answer is of active memories of that user |
| `MessagesAreHeard` | what was acknowledged was handed on, once in a life of the process except on WhatsApp. With a secret, or on Telegram and Discord, nothing else is; without one a made-up event is handed on too, and on Slack may use up the id of a post, the one way to miss an acknowledged message |
| `ReportsAreSourced` | source *n* that the model reads is [n] of the list; no page is fetched that the check refuses |
| `OperatorSigns` | an active claim was signed twice by installed keys, a review gap apart |

Six runs end in a counterexample on purpose: the repository says something the code does not do.

| Run | Says | Does |
|---|---|---|
| `memory_repromotion` | README: a decayed memory is out "until a human re-earns it" | consolidation returns it to quarantine and verifies it again on its next pass; a T1 or T2 item is active with full trust, no human involved |
| `memory_cascade` | PLAN: revocation reaches "everything derived from those" | the cascade follows only live items and stops at a derived item that was rejected or expired |
| `memory_expiry` | config: "Unconfirmed T3 claims expire" | the date is set on pending rows, `expire_due` selects active ones |
| `ledger_gap` | store: an "audit of every state transition" | an append that raises leaves its UPDATE in the open transaction, which the next commit makes durable |
| `pairing_newcode` | `gateway pair` prints: "Have the user send `/pair` ... Code valid for 1 hour" | a gateway that is running does not have the new code in its copy; it answers "invalid or expired code", and its save drops the code from the file |
| `gateway_approval` | `telegram.py`: approval is "waiting for the next message from that user to be yes/no" | the poll loop awaits the handler that waits, so the answer is not fetched; after 300 s the call is denied, and the answer becomes a new task |

**Bounds.** `Needed = 2` is the least at which counting differs from one verdict. Three items
are one of each role that a property relates (a source, what is derived from it, a rephrasing). `MaxEvidence = 2`
verifications per item let each be promoted, demoted and promoted again, or confirmed twice.
The clock: `memory_flow` stands still (nothing it checks depends on time), `memory_trust` has two
ticks, enough to stage, wait, activate and decay, with half lives of one and two ticks. `MaxCount`
is 4, because the first three weak reaffirmations have one ceiling and the fourth a lower one; with
`WeakFloor = 95` the floor is met at the fourth. `MinInterval` is 0: it only removes behaviours.
In `ledger`, two connections are enough for every conflict over one lock, two items for a
revocation that fails halfway, three entries for one method after another's.
In `pairing`, a second gateway would write the same file as the command does; one code is enough
because codes meet only in `users` and `paired`, which two users share. `MaxFailures = 2` and
`Lockout = 2` leave a lock that outlasts a tick; three messages (`MaxAsks`) are a full lock and one
attempt more; three starts (`MaxStarts`) are a gateway, a command and a restart; `MaxTime = 3` lets
a code (`TTL = 2`) expire and a lock end.

In `gateway`, two receivers are what a restarted webhook leaves, and all that can meet in one waiter; sessions
do not meet, so one user is enough. Two messages (`MaxSent`) are a task and its answer, or two tasks at
once; the batch that a raising handler interrupts has two updates. `MaxFaults = 1` is one repetition or one
crash; exceptions and reconnections are not bounded. `MaxIterations = 2` lets a turn call tools, ask again and be cut
off; `Spend = {0}` because the iterations end a turn before its tokens do.

In `services`, the calendar has two minutes, one hour, a week of two days and a year of four minutes, one of its
dates in no year (the leap day); two tasks, of which one fails while the other is due, five ways to write a
schedule, five minutes (`MaxNow`), two failures. Two MCP servers that offer one common name and one of the
agent's, two callers, one notice. Two files, two changes, four edits of the user. Three writers over two names: the third
is the one that finds what two left. Two sessions of two turns, two lines alike but for case, `MinCount = 2`. Three lines of
the editor. Two calls of two fragments. Three memories of six kinds (the tiers, two users, lengths around the budget),
`Limit = 2` so that one is cut off, `Budget = 3` and `ShowBudget = 4`, `K = 1`. Two connections, two posts, two requests, one restart: the least at which
a repetition overlaps its original. Two subqueries of two results each over five kinds of URL, two sources, two hops.
Two commands, two paths, two keys, one claim.

`CHECK_DEADLOCK FALSE` is in `ledger` and `ledger_gap`, which stop when the log is full, in `pairing` and
`pairing_newcode`, which stop when the clock, the messages and the starts are used up, in
`gateway` and `gateway_approval`, where nobody writes any more, and in `services`, where a session,
a command or a tool call is over.

**Fairness.** `Gateway`: weak fairness of `Poll`, of `Start` and of each receiver's `Receive` and `Proceed`. The
event loop runs whatever can run; requests and questions have time-outs, so that what awaits them goes on; `bind`
starts an adapter again after any exception. No fairness is assumed of users, of the service's repetitions or of
failures. `Scheduler`: weak fairness of `Step`, the three steps of `tick`, because `run` polls for ever; nothing starts the process again, so
`DueTasksRun` excepts a scheduler that stays down.
`McpClient`: of the manager's step, of each caller's next step, and of the replies of each server that
answers (`ServerAnswers`; one that hangs or exits has no such step). `Editor`: of `Serves`, since `serve` reads until end of file. In `Services` the
same formulas are guarded by `part`. Liveness of these is claimed where the loop justifies it: `UpdatesArrive`,
`HandlersEnd`, `DueTasksRun`, `HealthyServersAnswer`, `RequestsAnswered`. Two of them have exceptions that are the
code's own: a turn whose answers report no usage is never charged and may go on for ever (`Uncounted`),
and a schedule without a next time fails at every tick (`Stuck`). The other specifications state none: consolidation
runs when somebody calls the command, and whether a claim is ever verified depends on the model and on people.

**Mutants.** Each property is shown to depend on the code by a mutated definition, kept next to the
original and marked `Mutant` in its comment: a dropped negative-memory check, an off-by-one in the
confirmations, a promotion without its entry, an autocommitting connection, a denied call without a
result, a waiter that stays, a read that takes any message, a batch counted as seen, and so on.

## 9. Proofs

Every theorem is about the whole specification (`Spec => []P`, or `Spec => P` for action properties and
the refinement) and holds for every value of the constants that satisfies the assumptions named in the modules;
the bounds on counters do not matter to any. A run checks the same property on its instance, and each invariant below
was tried with TLC before it was proved.

| Module | Theorem | States | Assumes |
|---|---|---|---|
| `VerifiedMemory_proofs` | `TypeCorrect` | `TypeOK` | `MemoryAssumption` |
| | `Invariance` | `Inv`, the inductive invariant | |
| | `LedgerIsFaithful`, `RulesHold` | `LedgerTellsState`, `RulesAreAFloor` | |
| | `WeakReaffirmation` | `WeakNeverRaises` | |
| | `ImplementsGate` | `GatePromise`: `VerifiedMemory` implements `TrustGate` | |
| | `DismissalStands`, `RevocationCloses` | `DismissedStays`, `RevocationIsClosed` | |
| | `RefusalsAreRemembered`, `OperatorAuthority` | `RefusalIsRemembered`, `OperatorStands` | |
| `Ledger_proofs` | `TypeCorrect`, `ChainHolds`, `LedgerOnlyGrows` | `TypeOK`, `ChainVerifies`, `AppendOnly` | none |
| | `TableMatchesLedger`, `RevocationsAreWhole`, `MethodsEndClean` | `StateIsLedgered`, `AllOrNothing`, `CleanBetweenMethods` | |
| `Pairing_proofs` | `TypeCorrect`, `DefaultDeny` | `TypeOK`, `OnlyCodesAdmit` | `PairingAssumption` |
| | `CodesAreSpent`, `GuessesAreSlow` | `CodesPairOnce`, `GuessingIsSlow` | and `TornAssumption` |
| `Gateway_proofs` | `TypeCorrect`, `HistoriesAreSound` | `TypeOK`, `RequestsWellFormed` | `LoopAssumption` |
| | `BudgetIsShared` | `BudgetHolds` | and `GatewayAssumption` |
| | `YesIsSpent` | `OneYesOneCall` | |
| `Trust_proofs` | `ClaimsAreSigned` | `OperatorSigns` | `OperatorAssumption` |
| | `TrustComesFirst`, `AnswersStayOwn` | `NoCrowdingOut`, `AnswersAreOwn` | `RecallAssumption` |
| `Changes_proofs` | `SkillsAreVetted`, `NoWorkIsLost` | `ShownIsVetted`, `WorkSurvives` | none |
| `Peers_proofs` | `MessagesGetThrough` | `MessagesAreHeard` | `ChannelAssumption` |
| | `RepliesAreOwn` | `RepliesMatch` | none |
| | `SourcesAreNumbered` | `ReportsAreSourced` | `ResearchAssumption` |
| | `CallsStayWhole` | `CallsAreWhole` | none |
| `Unasked_proofs` | `ConsentIsHis`, `SessionsAreKept` | `NothingIrreversibleUnasked`, `SessionIsKept` | none |
| | `SchedulerKeepsPace` | `RunsAreSpaced` | `ScheduleAssumption` |

The assumptions say what the code's constants and the outside are: numbers are numbers, the torn file is no state, no key
is the absence of one, a channel is one there is an adapter for, an amount of time is a number of minutes, there are five
tiers, and the tasks that can serve one queue are finitely many. `MemoryAssumption` says besides that an operator's
item has neither source nor parent, because `stage_t0` is given neither.

None of the properties is inductive. What had to be added, and why:

* **VerifiedMemory.** That an active T3 item has `Needed` verdicts is false one step after a worker has promoted on a
  count it read earlier, unless that count was itself backed. `Inv` says of every item (`Sound`) that its confirmations do
  not exceed its verdicts, its ledger entry names its state, an active one has sufficient grounds, one the rules refuse is
  active by consent only, and its ceiling is no lower than its reaffirmations explain; of every running verification
  (`JobBacked`) that what it read is backed, which stays so because verdicts are never taken back; and that the demotion
  list holds no T0 item, or a stale demotion would make an operator's rule promotable by a verdict.
  The later theorems go over one lemma, `StepEffects`: how the state, the deadline and the job of an item can move in any
  step, and who moves it. `RemembersRefusals` adds that no job on a resubmitted text is past the check of negative memory;
  `LeavesOperatorBe` that no job is on a T0 item, none expires, and each duplicate on the merge list has a
  survivor that is not on it. `RevocationCloses` says of the cascade, which the code computes by a loop, that it is
  the least set closed under derivation, circular derivations included.
* **Ledger.** A committed chain says nothing of what will be committed next: every snapshot verifies and, *unless it is
  stale*, extends what is committed. `TableInv` adds, for every connection, that what it sees agrees with its ledger and
  has each batch whole, up to what its method has in flight (`InFlight`) or still owes (`Owed`), and that it holds the
  write lock while it owes. `AllOrNothing` was found wrong in the attempt: with three items, of which the second append
  raised, a later commit makes the first durable and the third never comes. It now excepts batches with a raised
  append, as `StateIsLedgered` excepts their items (`ledger_gap` is what the code says otherwise).
* **Pairing.** A gateway judges a code by its copy, however old: a pending code is one the operator was given, and a
  command's own code is secret until its save is complete. `Orderly` is what holds until a process overwrites another's
  save or reads a torn file: one writer at a time (`OneWriter`), a copy that is current knows every pairing,
  no redeemed code and enough of the wrong ones (`Redeemed`, `Tallied`), and requests of one account are marked apart.
* **Gateway.** `Held` is `TypeOK` with the agreement of receivers, turns and waiters. `Calms` describes each user whose
  turns neither raised nor overlapped: an assistant message that asks is the last of the history exactly while a
  turn of the user is amid its calls, and asked for as many. `Budgeted` counts the requests that are on their way with
  those recorded; the overrun is below the number of receivers since each has at most one. `Own`, `Fresh` and
  `Single` follow a message from the queue to an answer: untaken, then an answer or a task, of one question.
* **Operator** (`Safe`). A command may be between any two steps when a key is replaced: what was verified was signed
  with a key that was installed then, nobody else is about a claim between its check and its row (`Alone`), and some file
  keeps the key that is being installed or is installed, unless a keygen died or overlapped (`Keeps`).
* **Recall.** `NoCrowdingOut` is about one state, and true of every one. What `_pack` ends with is characterised, not
  computed: that there is one such packing and only one (`PackedSomehow`, `PackedOneWay`) goes by a last and a first
  counterexample in the order of the prompt, and that the packing of the trusted alone is the restriction of the whole
  follows from its being one. The rest are sets of active memories of the user, whatever was ranked.
* **Skills** (`Vetted`), **self-modification** (`Recorded`). As long as writers of a name do not overlap, what is staged
  is the text of the one writer past staging, and what moves was gated. A change under way has a commit of the
  tree it began with; what git took stays committed.
* **Inbound** (`Faithful`), **MCP** (`Matched`, `Registered`). A person's text that was acknowledged, that Slack's adapter
  knows the id of, or that is about to be answered with 200, was heard or its id is used up by a made-up event
  (`AllTold`); nothing is used up where a secret is set (`Forged`), since a signed request is about a post (`Sound`). Who waits for an id asked for it, and every reply under it is the waiter's, because ids never come again.
* **Research** (`Sourced`). The sources so far are the first distinct results of those looked at, and each text
  read is of its source's number.
* **Providers** (`Whole`). What is kept of a call is what was sent of it: of the open block in one dialect (`OneBlock`), of every
  index in the other (`ManySlots`). So arguments that parse are the first fragments of one call, all of them or none. The payload is then followed entry by entry (`PayloadOf`, `PairedNext`).
* **Scheduler** (`Paced`). A task the tick has left is due still unless it was removed, and each run that was not marked
  is one that was cut off or is this tick's.
* **Terminal** (`Kept`). Nothing is logged between a question and its answer; the history is as many of the latest
  lines of the session, counted from the back, as it has; and the n-th proposal is the n-th candidate, since none is made
  before the session is over. That a suggestion's count is right follows from the groups being sets of rows.
  `NothingIrreversibleUnasked` alone needs no more than itself.

Proving changed the models, besides `AllOrNothing`, in a few places: `Research` merges one result at a time, as the
loop of `deep_research` does, and not all at once; a branch of `Streams` that two cases covered says which
comes first; and in `McpClient`, `Scheduler`, `Recall` and `Terminal` what was folded over a sequence is the set, or the step,
that the code's loop makes of it, because of the prover's limits below. Their runs and mutants are as before.

Not proved, and only model-checked: liveness under fairness (`UpdatesArrive`, `HandlersEnd`, `DueTasksRun`,
`HealthyServersAnswer`, `RequestsAnswered`), which needs `ENABLED`. What a recursive definition computes is
out of the prover's reach in general (its induction theorems take an operator); `Cascade`'s fixpoint is
reached through least sets instead, and that the groups of `suggest.py` are well defined (`Beginnings`), which
the theorem does not need, TLC shows by computing them. There are no `RECURSIVE` operators. The runs that end
in a counterexample state what does not hold.

## 10. Not modelled, and what was noticed

Not modelled, and why:

* Delegation: `run_subagent` is a `run_turn` over a history and a budget of its own with every call
  allowed, and nothing outside the tests calls it.
* Observability, evaluation and `evals/poisonbench`: they record, replay and report; no other part reads
  their state.
* Configuration: read once at start-up; its values are constants here.
* The tools for email, vision, browser, files and shell: wrappers over one system call or request, with no state
  between calls.
* Regular-expression classifiers (injection, redaction, the hints of the risk engine), the embedders'
  arithmetic, the layout of prompts and headers, cryptography: they are functions of text; a verdict, a
  likeness or a signature is a value here.
* In modelled parts: `unpair` (no caller), chunks of a long reply, several adapters at once, Discord's
  heartbeat, days of the month and months apart, the delivery of a task's result, what MCP tools return.

Seen while reading, without a run of their own.

Memory:

* `approve_pending` has no caller in the source tree, so `Approve` is an operation of the API only.
* An independent confirmation of a T3 claim is in effect one more processing of the same row: nothing
  checks that the second verdict has another source.
* A verification in flight while its item is revoked may make it active again, since it writes by
  id; `DismissedStays` names exactly this exception and the two lists of consolidation.
* A refusal as a rephrasing or as a duplicate is not added to negative memory, although `pipeline.py` says every
  rejection is.
* `update_trust_score` is not committed by itself: what `memory why` shows may be older than the
  score that decay computed.
* After a lock timeout, a connection can keep an old snapshot; once another process commits, every
  later write of that session fails until it is closed. `CleanBetweenMethods` confines this to
  connections that met an error.
* `milyonus memory reaffirm --sign` passes a path and a text to `operator.sign` where it takes other types,
  so that a signed reaffirmation always fails. `memory review` lists as demoted only pending items with
  `last_reaffirmed_at`, and the false-positive rate of `memory stats` counts all reaffirmations.
* `gateway/server.py:96-97` says that proposals from a group are T3, but the `source_kind` the tool declares
  comes first.
* The tool `memory_search` runs `recall` in `asyncio.to_thread` with a connection of the main thread, which
  SQLite refuses; with an embedder configured it answers with an error (`ToolSearch` says so).
  It and the notes of the prompt are not restricted to the user.
* Listings end after the 200 newest rows, before anything is ranked, so `NoCrowdingOut` holds among those only;
  `semantic.py` ranks by likeness times trust, which does not keep a claim from outranking a trusted one.
* `HashingEmbedder` uses `hash()`, which differs between processes, under a constant signature: vectors of
  an earlier process are compared as if they were of this one.

Agent loop and surfaces:

* Tools classed safe never reach `classify`: a blocker in their arguments is not looked for.
* The gateway's budget of a chat is never reset: after 50 calls that chat gets no more answers until a restart.
* An answer whose stream reports no usage is not counted by the budget; in the OpenAI dialect a usage chunk after
  the `finish_reason` comes too late, and its tokens are counted as 0.
* Ctrl-C in the terminal during a tool can leave calls without results in the history of that session.
* The ACP server has no approval callback: it runs `run_turn` with every call allowed, where
  `src/README.md:98` promises a question. A line of JSON that is no object ends `serve`; a cancel is
  not read before the prompt it should cancel is over.
* `run_subagent`'s list of denied tools does not hold `email_send`, although its docstring says it cannot send.

Gateway and pairing:

* Discord awaits its handler in the socket's loop and so has Telegram's difficulty with approvals. A socket that
  closes normally ends `bind` for good, although `server.py:192-194` says that it starts again.
* The Slack and WhatsApp adapters dispatch messages from a task nobody awaits: an exception in a
  handler ends it silently, and each restart of the adapter adds another.
* Without a secret, which is optional, the Slack and WhatsApp adapters take any event for the service's. Slack's
  also notes its `event_id`, so that the service's own event of that id is answered "dup" and its message missed.
* On Discord and Slack `user_id` is the channel's id, so everybody in a channel shares one pairing.
* `src/README.md:113-121` pairs a user before the gateway is started, and for Discord after; only the
  first order works while no gateway runs (`pairing_newcode`).

Other parts:

* `CronStore.list` does not return `autonomy`, so a task runs safe-only even when it was added with
  `--authorized` (`ListedAutonomy`). A step of 0 in a cron expression raises `ZeroDivisionError`; "0m" is
  always due; a schedule without a next time makes `mark_ran` raise at every tick.
* The subprocess of an MCP server that failed to start is not ended; `call_tool` has no time-out; a request from
  the server with an equal id is taken for the reply.
* The harness ignores a commit git refuses and the doctor's result, and new files survive its rollback.
* Two writers of one skill's name can promote a text the gate did not see, which `ShownIsVetted` excepts. A patch
  loses the reference files; a user's skill that does not parse hides the bundled one.
* A response that stops, at the limit of its length for one, before the first fragment of a call's arguments has that
  call handed on, and run, with `{}`, where `base.py:76` says "fully-assembled"; if it stops within the arguments,
  `stream()` raises `JSONDecodeError`, which is no `ProviderError`, after text and earlier calls were shown.
* A time-out of `run_shell` ends the shell and not what it started.
