# Formal model of the workshop agent

TLA+ modules, TLC configurations and TLAPS proofs for `workshop-agent`, a Telegram and
web assistant for small workshops: people with roles, shared tasks that are moved by
buttons, production that takes materials out of stock, forms and conversations, data of
marketplaces, daily jobs over them, and a queue in front of two language models. All
definitions are translated from the Go code under `src/`; `PROJECT.json` gives the lines
of each one.

1. [The system](#1-the-system)
2. [Modules](#2-modules)
3. [Modelling decisions](#3-modelling-decisions)
4. [Runs](#4-runs)
5. [Proofs](#5-proofs)
6. [What is not modelled](#6-what-is-not-modelled)
7. [Plan](#7-plan)

Paths below are relative to `src/internal` unless they begin with `src/`.

## 1. The system

One process serves everybody. Telegram updates and web requests pass the admission of
`stability`, run one at a time under an application lock that is released while a model
is being asked, and change one SQLite database, which has a single connection
(`storage/sqlite.go:34`), so its transactions are serial. Besides the requests there are
the ticker of the background jobs, their heartbeats, the goroutines of synchronisations
and refreshes, the handlers of the web server, and the goroutines that watch the contexts
of requests.

| Component | State | Operations | Interacts with |
|---|---|---|---|
| Membership (`auth`, `workshops`) | workshops, role and status of each member, selected workshop, invitations | found a workshop, invite, accept, revoke, change a role, disable, remove, leave, transfer ownership, select a workshop | every transaction re-reads role and selection before it acts; selecting another workshop retires previews and sessions |
| Task machine (`memory/task_fsm.go`, `transitions.go`, `shared_tasks.go`, `task_legacy.go`, `assembly.go`) | `working_memory`: owner, executor, status, step, quantities, verdict, version | 14 requests of the machine, creation in three ways, reassignment, the writes of the older generation | buttons carry a version; membership decides who may act; start looks at the stock; completion closes |
| Completion (`memory/completion.go`, `products/production.go`) | previews under a token, production records | prepare, cancel, expire, post | task, stock, composition and session, all of which move between preview and posting |
| Inventory, compositions (`inventory`, `products`) | stock, movements, units, `bom_items` | correct, deliver, edit a composition, change a unit | completion and start read and write them; forms and conversations propose changes |
| Forms (`telegram`) | the form of a chat, the screens behind it, its buttons | open, type, press, step back, leave, save | inventory and products, which others change meanwhile |
| Sessions, memory (`memory/service.go`, `agent/memory.go`) | the open dialogue of a person in a chat, its messages, lasting records, proposals | open, end, append and trim, propose, confirm, cancel, expire | previews and proposals belong to a session |
| Conversation (`telegram/hybrid.go`, `semantic.go`, `llm`) | the list last shown, what waits for consent or confirmation, mode | route, understand, answer, offer the cloud, propose a change of stock, confirm | application lock, sessions, units |
| Background jobs (`background`) | one job a workshop, its runs with leases, published data, notification state | create, change, pause, resume, cancel, tick, run now, heartbeat, publish, finish, notify | connection revision, membership, process death |
| Admission (`stability`, `llm/admission.go`) | queue of requests, running users and dialogues, two gates with queues, limits | submit, start, cancel, finish, acquire, release, change limits | goroutines of all requests |
| Web chat (`webchat`) | login codes, sessions, stored requests | show and confirm a code, log in and out, send, cancel, recover | admission, application lock, membership |
| Wildberries (`marketplace`, `marketplace/wildberries`) | connection with revision, sync rows, catalogue, mappings, stocks, orders, deadlines | attach, disable, check, synchronise, map, read; wait, send, retry | membership, background jobs, process death |
| Ozon (`marketplace/ozon`, `integrations`) | connection, flights, clients with deadlines, rows of a run | attach, disable, refresh, query | membership, concurrent members, process death |
| Texts: prompts, rules (`invariants`), speech, audit, command line | journal, migrations | | the material rule is asked for by start |

What is hard here, and what each part has to get right:

* **Stale screens.** A button acts minutes after the screen was drawn. It must act on what
  the person was shown, or not at all: `VersionIdentifiesRow`, `ConfirmedAsShown`,
  `PostedAsPreviewed`, `SavedAsShown`, `StockAsProposed`, `SavedAsProposed`.
* **Many writers of one row.** The machine, reassignment, the assistant's older updates
  (which write what they read before a model was asked) and the migrations write the same
  table; the row must still agree with the step it stands at, stay closed when it is
  closed, and leave an executor with one task in the foreground: `StageFacts`,
  `OneForeground`, `ExecutorAllowed`.
* **Two transactions with a person between them.** Preparing and posting a completion
  enclose edits of stock, composition, roles, sessions and of the task itself; stock,
  record, task and preview have to move together and once: `BooksAgree`, `PreviewsAgree`,
  `KeepsLedger`. An invitation, a transfer or a switch is confirmed late: `InvitesAgree`,
  `MembersView`, `MovedOnlyByChoice`.
* **Leases.** A worker that lost its lease wakes up later; a process dies between two
  statements; two goroutines claim the same date: `PublishedInForce`,
  `LastResultIsLatest`, `ToldOnce`, `ExpiredEnds`, `NeverStuckDue`.
* **A lock released in the middle.** Everybody else acts while a model is asked:
  `ContextKept`, `SentAsWritten`, `ReferencesAgree`.
* **Wakeups and fairness.** A wait for a gate that ends together with its grant, a limit
  that changes under the waiters, one person who asks much: `HoldersAgree`, `Exclusive`,
  `HeadPassedOnce`, `EveryRequestEnds`.
* **Requests to somebody else's service.** Minutes pass between a question and its answer,
  in which the connection, the member or the process changes; deadlines are set by the
  other side and kept in memory and on disk: `SavedInScope`, `OneCabinet`, `RowsAgree`,
  `SendsInTime`, `SavedOfOneAccount`, `ConfirmedOfOneRun`, `RefreshAnswered`,
  `KeepsOwnDeadline`.
* **Repetition.** A code is guessed, a request is posted again, a reply is lost:
  `CodeOpensOnce`, `KeyRunsOnce`, `RequestsAgree`.

`PROJECT.json` lists these hazards with the line where each bites.

## 2. Modules

```
Access ─┬─ Members ─┬─ TaskFSM ── Completion ──(implements)── PostingLedger
        │           │     │            ├─ MCCompletion
        │           │     │            └─ Completion_proofs (of TaskFSM too)
        │           │     └─ MCTaskFSM
        │           ├─ Forms ───────┐
        │           ├─ Conversation ┼─ Dialogs ─┬─ MCDialogs
        │           ├─ Memory ──────┘           └─ Dialogs_proofs
        │           ├─ Marketplace ─┬─ MCMarketplace
        │           │     RateLimit ┴─ Marketplace_proofs
        │           └─ Ozon ────────┬─ MCOzon
        │                 OzonLimit ┴─ Ozon_proofs
        └─ Identity ── WebLogin ── WebChat ─┬─ MCWebChat
              │                             └─ WebChat_proofs
              └──(every workshop implements)── Members
BackgroundJobs ┬─ BackgroundJobs_proofs
               └─ MCBackgroundJobs
Admission ─────┬─ Admission_proofs
               └─ MCAdmission
Collections ─── Completion_proofs, Admission_proofs, Dialogs_proofs
```

**Access** is the role table of `auth/service.go`: roles, permissions, which roles can be
assigned. It has no state.

**Members** is one workshop's membership as the other components see it: `role[u]` (`NONE`
for a membership that is not active) and `here[u]` (the selected workshop is this one).
`Can` is `auth.Require`, `Authorized` the head of every transaction of `memory.Service`.

**Identity** has what Members leaves out: the rows `member[w][u]` of all workshops, the
selection `active[u]`, invitations, and `asked[u]`, the confirmation each person was shown
last, which is pressed when roles, selection or invitation may be different.
`AllowedChange` instantiates Members for each workshop, so the steps of Identity are shown
to be steps Members allows: what the tasks, forms and marketplaces assume of membership
rests on that.

**TaskFSM** is the table `working_memory`. `task[t]` is the row, `card` the last row some
person was shown, `materialCheck` the one rule a workshop can switch. Each request of
`Apply` is an action: `Applicable` is the common guard (authorisation, role, version,
executor, transition table), then the request's own conditions, then `Save`, which is
`saveTransition`. `Create`, `ConfirmAssemblyDraft` and `CreateWorkingMemory` insert rows;
`AssignTask`, `LegacyUpdate` and `LegacyClose` are the writers that go around `Apply`.
`FinishPosting` is the task's side of a posting. `Definitions` is the transition table.

**Completion** adds sessions, previews (`intent`), stock, compositions, production records
and the two checksums `goods` and `corrected`, and composes them with all of TaskFSM:
`PostCompletion` is the whole transaction (compare with the preview, recalculate, move the
stock, write the record, close the task, consume the preview). **PostingLedger** is what
the workshop is promised: a task is opened, then dropped or posted once, and a posting
takes out exactly what its record says. `Ledger` instantiates it with `outcome` computed
from the rows.

**Forms** is the setup session of a chat with its navigation: `form` is the step, `nav`
the steps "Back" returns to, `live` the buttons that still act, `seen` the last screen
that said what would be saved, `store` the rows of the workshop. Texts, buttons, commands
and the changes other members make are actions; `EditButton` and its neighbours save.

**Conversation** is a message from its routing to its end: `call` is the model call it
waits for, with what it was written under, `pending` the payload a button would send to
the cloud, `list` what "the first" and "it" mean, `confirms` the proposed changes of stock
that still have a button. `Undisturbed` is the check after the application lock is taken
again.

**Memory** is the history of the sessions (`rows`, with `said` as what was really said),
the proposals (`pending`) and the lasting records (`kept`).

**Dialogs** puts these three side by side, a scene each, over one membership: they read
nothing else of one another. `SceneSpec` is what the run bounds and what the proofs are
about.

**WebLogin** and **WebChat** extend Identity. `login`, `session` and `cookie` are the
login; `request` is the stored request and `job` the goroutine of an accepted one, with
its place between `Store`, `Start`, `Yield`, `Resume`, `Deliver` and `Return`; `lock` is
`Bot.applicationMu`, `up` the process, `entered` records what began to work.

**BackgroundJobs** is the daily job. `job` and `runs` are the rows, `worker[w]` the
goroutine of the ticker or of a "run now", with its program counter between two database
steps: `Tick` (reclaim), `Claim`/`Refuse` (the transaction of `execute`), `Start`, `Read`,
`Build`, `Save` (the pipeline), `Abort`, `Finish`, `Notify`, `Send`, `Mark`, and
`Heartbeat` beside all of them. `current` is the published run, `revision` the marketplace
connection, `Crash` loses the goroutines and keeps the rows.

**Admission** is `stability.Runtime` with its two gates. `job[j]` is a request with its
goroutine: `pending`, `working` (its handler), `waiting` at a gate, `holding` a slot, or
its outcome. `Submit`, `Abandon` and `Finish` are the critical sections of `Runtime.mu`;
`Acquire`, `GiveUp`, `Release` those of a gate; `Change`, `WakeGate`, `WakeRuntime` the
change of a limit and the three steps of `OnChange`. `Starts` and `Granted` are the two
dispatch loops; they repeat `StartOne` and `GrantOne`, a round of a loop each, until a
round changes nothing.

**Marketplace** is the Wildberries connection: `work` is `Service.job` with its goroutine,
which goes from the identity of the cabinet through each kind of data, one transaction or
one request a step, to `Finish`; `sync`, `variants`, `mapping`, `stock` and `orders` are
the rows, and `origin` remembers from which cabinets anything was ever saved.
**RateLimit** is the limiter of its client for one group of endpoints: `gate`, the
deadlines `held` in memory and `stored` on disk, and `call`, the requests with their waits
and attempts. An answer is taken in two steps, as in `requestQueryLocked`: its headers,
which may name a wait and may record a spent quota, and then its status and body, which
end the request, save a second deadline or put it to sleep for another attempt. `promised`
is history: the ends of the waits the limiter has undertaken to keep and of the slots
taken.

**Ozon** is the other marketplace: `refresh[u]` is what a member waits for, `flight` the
shared refresh of `singleflight`, `query` the query tool that reads the saved rows page by
page. **OzonLimit** has its clients, one for each revision of the connection, with
a deadline of their own and one row for all.

**Collections** has no code behind it: the lemmas about loops, queues and sums over finite
sets that several of the proofs need.

Each module has variants of some of its definitions, marked "Variant TLC must refute":
plausible mistakes. Put in the place of the definition they vary, each violates the
property it is listed with in `PROJECT.json`; they are used nowhere else.

## 3. Modelling decisions

*Common.* A transaction is one action: all transactions of `memory.Service` take the write
lock before they read, and there is one connection. Texts, names and audit rows are left
out. A constant named `Max...` bounds the instance and nothing else; it appears in the
guard of the step that would exceed it.

*Membership.* In Members `role` is the effective role: role and membership status are one
value. In Identity they are the columns of the row, because a confirmation that was shown
for one status may meet another. A press runs under the application lock and is one
action. Contacts and user names are left out.

*Tasks.* One screen is remembered; what matters of a screen is the version it carries, and
any earlier view is a reachable `card`. A request without its confirmation only leaves an
audit row and is no action. A confirmed draft of `ConfirmAssemblyDraft` may have any
product and quantity, which covers all conversations that fill it in. `StartProduction`
gets `enough` as an input in TaskFSM and the computed answer in Completion. Closed rows
imported by migrations never move and are left out of the stored rows; `StoredRow` may be
any set of rows that agree with their step, so the bot may start on what an earlier run of
it left.

*Completion.* A composition is given expanded to materials per piece. The comparison of
`PostProductionTx` is by materials, so a composition that is changed and changed back is
accepted, as in the code. The previews' fifteen minutes are a step that may come at any
time. The screens do not offer posting when the preview shows a shortage, but
`PostCompletion` does not depend on that and neither does the model.

*Forms.* One material, one product with one edited field and one line of its composition;
a kilogram is two grams, which is enough to tell the units apart. Numbers are typed as
`Typed` and `How`. The form's fifteen minutes and the end of its session are facts that
may become true at any time (`lapsed`). Saving the same value again is a step without
effect. With one object of each kind, a form that names the wrong one of two materials or
products cannot be told here; the ids of rows are passed on unchanged by the code.

*Conversation.* In the modes `AUTO` and `CLOUD_ONLY` a cloud is configured. What a model
answers is any of the outcomes its parser accepts. `changed` is a parity: it tells that a
change was made and of which material. The person's own requests come one at a time, which
is what Admission's `Exclusive` gives.

*Memory.* A message is its number of tokens. A failed append is one that does not happen.
A confirmation takes the proposal and then saves in a second transaction, which may be
refused; nothing else of this process comes between them under the application lock.

*Web chat.* The handler is a loop of "work" and "yield"; what it works on is the workshop
it read (`shows`) and the role it had. A repeated key finds its row; a refused submission
deletes or ends it, as in the code. `Crash` keeps the rows, `Restart` runs the recovery.

*Background jobs.* One workshop, one job: others share only the ticker, which they can
delay. The clock is coarse (a day is 2, a lease 1): what matters is the order of the due
time, the date line and the end of the lease, and every order of these occurs. Reading the
three sources is one step whose outcome is success, partial success or failure. The four
minutes of an execution are `Abort`, possible at any time. A run's `until` is `lease_until`;
that the token in `lease_owner` also matches is implied, for a run has one owner. Rights of
the person who presses "run now" are not modelled; they only restrict. The early return of
`Scheduler.Tick` when `Maintenance` fails is left out: it is an error of the storage, which
only delays the tick. With a lease of one no heartbeat of an instance crosses a date line;
the theorems have any lease.

*Admission.* The steps of a goroutine between two critical sections that nobody else can
observe are merged with a neighbour: the state `working` stands for the handler before,
between and after its calls. `QUEUED` and `RUNNING` are read off `at`. The rate limit, the
token budget and other early refusals are not actions: a request, or a call, may always
fail to come. `OnChange` dispatches local, cloud and requests in this order; the model
takes them in any order. When a slot was granted and the context is done, `select` takes
either branch: `Proceed` and `GiveUp` are both enabled.

*Marketplaces.* An answer is complete, partial, failed or cancelled; of its rows only the
keys remain. That `finish` fails twice in a row is not modelled. Several workshops compete
for the one connection of the process only by being refused; the model has the workshop
that holds it. Time in the limiters is counted in ticks, and a wait is any of a few
numbers on both sides of `LocalWait`. A wait of at most `LocalWait` in a 5xx is slept by
the request that received it, inside the gate, and ends with it when it is cancelled; the one
in a 5xx to the third attempt is dropped, however long (`client.go:299`). Both are nobody's
deadline, in the code as in `SendsInTime`. Other writers of a stored deadline than this process
do not exist. Of the pages of a query one product is a page, whose count and rows are read
in one step; the code reads them by two statements.

## 4. Runs

All of them finish within five minutes with two workers. Where components that do not
share state are checked in one run, a variable `scene` says which of them a behaviour is
about; it never changes, each scene has initial states of its own, and action constraints
named `Within` or constraints named `InScene` keep a behaviour inside its bounds. The run
jobs has no such variable: its `Within` lets a behaviour go wherever one of its two bounds,
`Leases` and `Changes`, is met.

| Run | Instance | Question |
|---|---|---|
| task_lifecycle | 1 task, 2 people, roles employee, viewer and owner, quantities whole, fractional, zero; 7 versions | do rows, versions, confirmations and executors' rights stay right in every order of requests, role changes and stale screens? |
| completion | scenes *race* (1 verified task, 2 people with previews), *rework* (sent back and recorded again with another count), *edited* (stock and composition edited between preview and posting), *tasks* (2 tasks of one person), *given* (2 tasks and 2 people, who resume them and give them to one another) | do stock, records, previews and tasks tell one story, is what is posted what was previewed, is there one task in the foreground, and does Completion implement PostingLedger? |
| jobs | `Leases` (ticker and one "run now", two dates, one crash) and `Changes` (two zones, threshold, two connections) | results, publication and announcements when leases are lost and settings change under the run |
| job_liveness | ticker, one crash, fairness | are expired runs ended and does a due job move on? |
| job_skipped_day | ticker and one "run now" | expected violation, below |
| admission_requests | 3 requests, 3 people in 3 dialogues, 2 gates, queue 1 or 2 | slots, exclusiveness, room and turns |
| admission_liveness | 2 requests, 2 people, limits 1 and 2, fairness | does every admitted request end? |
| web | scenes *people* (2 people, 2 workshops, an invitation for 1 or 2), *logins* (2 browsers, 2 codes, 2 sessions), *asking* (2 requests of one person), *moving* (1 request of a person with 2 workshops) | invitations and memberships under late presses; codes; keys, crashes and the released lock |
| dialogs | scenes *forms*, *talk* and *memory*: one person, administrator or viewer, in one or two chats, 2 values, and other members | is everything saved, sent and changed what was shown or written? |
| market_sync | scenes *sync* (2 members, 3 tokens of 2 cabinets, 3 revisions) and *rate* (2 callers, 8 ticks) | rows, mappings and cabinets of synchronisations; deadlines of the client |
| ozon | scenes *flights* (2 members, 2 accounts, 3 revisions), *query* (2 SKUs, 2 runs) and *limit* (2 clients, 4 ticks), fairness | accounts, queries during a refresh, answers to everybody who waits; deadlines |
| ozon_deadline | 2 clients, 4 ticks | expected violation, below |

Some properties of the runs are conjunctions, named for the story their parts tell:
`BooksAgree` (`PostingTypeOK`, `RecordIffCompleted`, `StockLedger`), `PreviewsAgree`
(`OnePreview`, `PreviewVersionIdentifiesRow`), `HoldersAgree` (`TypeOK`,
`SlotsMatchHolders`, `NoWakeupLost`, `AdmittedFits`), `RequestsAgree` (`ChatTypeOK`,
`UnfinishedIsWorkedOn`), `InvitesAgree` (`IdentityTypeOK`, `InviteLedger`),
`ReferencesAgree` (`FormTypeOK` in the scene *forms*, `ConversationTypeOK` and
`ReferencesHold` in the scene *talk*), `HistoriesAgree` (`MemoryTypeOK`,
`HistoryIsRecent`), `RowsAgree` (`MarketTypeOK`, `RunningIsWorkedOn`), `SavedOfOneAccount`
(`OzonTypeOK`, `OneAccount`).

Why these bounds suffice for the questions.

* *Tasks and completion.* Every property relates at most two rows or a row and a screen;
  seven versions let a task run from creation through sending back to its end with a
  reassignment between (with a viewer among the members, four: `ViewersEarly`). Two previews are enough for one to outlive the other. In the run of
  Completion a stale screen is looked at again at once (`LookAgain`), the rule is off and
  the stored task exists, because task_lifecycle explores those in full. In *race* the owner
  does not turn to another workshop, which the scenes of one person follow. In *given* the
  tasks begin paused, planned or verified, and versions up to three let each be resumed
  and given away; there is no stock to post from, and the two people stay in the workshop.
* *Jobs.* Two dates and two goroutines give an executor that outlives its lease while the
  next date is claimed. Connection, zone and threshold stay in `Leases` and one of them
  changes in `Changes`; after the crash of `Leases` the job is not paused and its creator
  keeps the right, because withdrawing either is explored without a crash, and in `Changes`
  the right is not withdrawn beside a change of the connection or the threshold.
* *Admission.* Three requests can run, so a gate has a holder and two waiters, the least
  that shows a turn being lost; limits begin at one and two, one change is made (the queue
  made longer, or a gate made narrower than what it has granted), `OnChange` runs at once,
  and at most one context ends. admission_liveness has any start, any change of the limits
  and any delay of `OnChange`.
* *Web.* A property about a code relates two sessions, one about a key two requests. The
  workshops of *logins* and *asking* keep their roles (members may be disabled and
  enabled), because what changes them is followed in *people*, where the first workshop is
  founded before the second, by the first person: both are only names. The other scenes
  begin where people have arrived already: the second person is in the first workshop by an
  invitation that is used up, and logged in by a code that is cleaned away.
* *Dialogs.* `Relevant` keeps the rows still that the open form neither reads nor writes,
  and lets a form be opened only over rows at rest: leaving a form leads to a state like
  an initial one, and every amount is initial. One thing at a time changes under an open
  form (`OneChange`), a preview is sent back to its prompt while at most two steps are
  behind it (`Shallow`), histories are followed in the first chat while nothing is
  proposed (`Apart`), and the chats are used in one order (`FirstChatFirst`). The view
  `Seen` leaves out how often a stock changed, and the last proposal once no button leads
  to it.
* *Market.* Three revisions let a job outlive a switch-off and switch-on. The owner stays
  (`OwnerStays`), the second member comes and goes unless the job is the owner's
  (`AwayFromOwnJob`), stocks and orders are saved in different behaviours
  (`StocksOrOrders`), and the view leaves out how a run ended, which no step reads. Eight
  ticks cover a wait of five, the interval of two and a restart in between.
* *Ozon.* Two members and three revisions give a flight led by one and joined by the
  other across a switch. The other bounds (`InScene`) leave the second SKU and the
  partial runs to *query*, and the changes of the connection to *flights*.

Symmetry is used only over values the modules treat alike, and in no run with a liveness
property. `CHECK_DEADLOCK FALSE` stands where the system may really stop or the instance
ends: requests submitted at most once each, a clock that has run out, ids used up.

**Fairness.** `job_liveness`: the ticker fires every 15 seconds whatever happened in the
last tick, and the executor's goroutine goes on because its context ends after four
minutes; the heartbeat, people, time and the end of a crash get none. `admission_liveness`:
a goroutine that was granted or holds a slot goes on (weak; the providers have timeouts),
`OnChange` runs, and a handler returns (strong: a handler alternates between working and
calling, and makes finitely many calls). Deadlines and cancellations get no fairness, so
the property does not rest on a timeout clearing the way. `ozon`: a member who asked for a
refresh is served (weak), because every request ends after 30 seconds at the latest; that
is the step of the caller's goroutine or of the flight it waits for. Nobody has to give
up, no connection has to change.

**Two disagreements.** `job_skipped_day` refutes `DueDayHasRun`, which states what
`docs/day18-background-jobs.md:98-99` says: a schedule that is overdue gets one catch-up
run, after which it moves to the next day. `background/scheduler.go:137` inserts the run
with `ON CONFLICT DO NOTHING`; the conflict may also be with the index
`background_one_running`, when the run of the day before is still marked running, and line
142 moves the schedule to the next day all the same. The day has then no run.

`ozon_deadline` refutes `PersistentDeadlineMonotonic`, which is the comment at
`marketplace/ozon/service.go:317`: "This client serializes requests; persistent deadline
is also monotonic." One client does. But each revision of the connection has a client of
its own, a request of the former one may still be under way, and `SaveCooldown` reads and
writes the row in two statements: the earlier deadline may be written last. What the
clients do keep is `KeepsOwnDeadline`.

## 5. Proofs

Every invariant and every action property of the passing runs is also a theorem, for every
value of the constants that satisfies the named assumptions, which TLC evaluates in the
runs; the one difference is a property that a run restricts to a scene (at the end of this
section). Each proof rests on an inductive invariant of its own. A theorem about `SceneSpec` or `WebSpec` is about the unbounded
behaviours, without the constraints of the run.

### Tasks and completion

`Completion_proofs` proves of TaskFSM, for any sets of people, tasks, products and
quantities, any handed-out roles and any stored rows that agree with their step:

| Theorem | States |
|---|---|
| `Invariance` | `Spec => []IInv` |
| `ForegroundCorrect`, `StagesCorrect`, `VersionsCorrect` | the invariants the runs check |
| `ConfirmationsAreShown`, `ExecutorsAllowed` | the action properties of task_lifecycle |
| `TypeCorrect`, `OwnerUnique`, `ClosedForever` | `TypeOK`, `OneOwner`, `ClosedFrozen` |
| `MigratedRowsFit` | rows of both older generations satisfy the assumption on `StoredRow` |

`IInv` is `TypeOK /\ StageFacts /\ OneForeground /\ VersionIdentifiesRow`. None of its
parts is inductive alone: that a step keeps `StageFacts` needs the types; that a resumed or
reassigned task is alone in the foreground needs `OneForeground` of the state before and
that `Adopted` changes neither status nor executor; and that `Shown`, an equality of
versions, makes a request act on the row of the screen is `VersionIdentifiesRow`, which in
turn needs every writer of the table to count the version. The proof has a lemma for each
shape of write (`SaveKeeps`, `InsertKeeps`), one for each group of requests (planning,
progress, status, posting, the other writers), and then one step for each action. Assumed
are the named assumptions of `TaskFSM`, `Members` and `Access`, which TLC evaluates in
every run that extends them.

It proves of Completion, for any people, chats, tasks, products, materials, compositions
and number of previews:

| Theorem | States |
|---|---|
| `CompletionInvariance` | `CompletionSpec => []CInv` |
| `PreviewsCorrect`, `ForegroundKept` | invariants of completion |
| `BooksCorrect` | `BooksAgree`: types, records and the ledger of the stock |
| `PostingTypesCorrect`, `RecordsCorrect` | `PostingTypeOK` and `RecordIffCompleted`, parts of `BooksAgree` |
| `PostingsArePreviewed` | the action property of completion |
| `LedgerKept` | Completion implements PostingLedger (`KeepsLedger`) |

`CInv` is the `IInv` of TaskFSM with `PostingTypeOK`, `RecordIffCompleted`, the two parts of
`PreviewsAgree`, and `ConsumedPosted` (a consumed preview's task has its record). That a
consumed preview, which `PostCompletion` does not look for, is not posted again follows
from `ConsumedPosted` and the guards on the task and its record; that the row posted is the
row shown follows from `PreviewVersionIdentifiesRow`, an equality of versions once more. The proof divides the
steps in two: a `Quiet` step opens or moves one task at most, completes none of the state
machine and leaves the records alone; `Posts(k)` is everything the posting of preview `k`
does. The lemmas from `Targets` to `IndependentMoves` show which steps of TaskFSM are
quiet (only `production_posted` and the end of an unshared note complete a task), and
`LedgerKept` maps an opened task to `Open`, one that reaches an end without a record to
`Drop`, `Posts(k)` to `Post` and any other quiet step to `Correct` or a stutter. Assumed
besides the assumptions of TaskFSM are that compositions are compositions, that the
markers of a missing preview and a missing record are values of their own, and that the
bounds are numbers.

`StockLedger` is about sums over all records, and `BooksInv` is `CInv /\ StockLedger`
with what is needed to follow a sum: the records are finite, though tasks need not be. A
posting adds one record, whose product and materials are those of the movements, so a sum
over the records grows by what the stock lost (`OneMore`, `Made`, `Consumed`); that a sum
over a set with one more element is the sum before and the element is the induction of
`Collections` (`FoldAdds`, `SumGrows`). Every other step leaves the records alone and
writes its correction of the stock into `goods` or `corrected` in the same transaction.

### Background jobs

`BackgroundJobs_proofs` proves, for any length of day and lease, any zones and local times,
any number of people who start a run by hand and any bounds:

| Theorem | States |
|---|---|
| `Invariance` | `Spec => []IInv` |
| `LastResultCorrect`, `ToldAtMostOnce` | the invariants of jobs |
| `PublicationsInForce` | the action property of jobs |
| `TypeCorrect`, `RunsAreFinal`, `CancelsAreFinal` | `TypeOK`, `RunFinal`, `CancelFinal` |
| `StartedWithRevision` | an executor in its pipeline knows the revision it started from |

Here `IInv` is `TypeOK /\ Owned /\ InOrder /\ LastResultIsLatest /\ ToldOnce`. `ToldOnce`
alone is not inductive: that nothing was announced before `Send` is known only because the
goroutine is the one owner of its run and remembers by where it stands what it has done
(`Owned`), and this ownership survives a lost lease because a run number is never handed
out twice. That `Finish` records the *latest* result, and that what is published is later
than what it replaces, follow from `InOrder`: while a run is running, no later one exists,
which is what the index `background_one_running` gives. Most steps of a goroutine, of the
owner and of the world only leave runs and goroutines on the same side of publication,
result and announcement (`Keeps`); the four that cross, `Claim`, `Save`, `Finish` and
`Send`, have a lemma each. Assumed are the named assumptions of the module: positive
lengths of day and lease, times within a day, zones counted from the westernmost one in
use, and that the markers of a missing job, a missing run and the ticker are values of
their own.

### Admission

`Admission_proofs` proves, for any requests, people, dialogues, gates, limits and changes
of them:

| Theorem | States |
|---|---|
| `AdmissionInvariance` | `Spec => []AdmissionInv` |
| `HoldersCorrect` | `HoldersAgree`: slots, wakeups and room |
| `RunsExclusive`, `HeadsPassedOnce` | `Exclusive`, `HeadPassedOnce` |

`AdmissionInv` is `TypeOK` with four parts. `FineRows`: a request has a gate exactly while
it waits there or uses it, running requests share nobody, and among any requests in the
system there is one that was admitted when all of them had room, from which `AdmittedFits`
follows; that property alone is not inductive, because the last to come may end first.
`Queued`: the pending requests are those in the queue, once each. `GateFits`: who queues
asks for this gate, and everybody else who asks has a slot, so the count of slots is that
of holders whichever way a wait ended; and nobody queues at a gate nobody uses. `Woken`:
but for the moment `OnChange` needs, nobody waits for what is free.

What a dispatch loop does is not one step but as many as the queue is long. Its rounds are
operators (`StartOne`, `GrantOne`) that either change nothing or make the queue shorter;
`LoopComesToRest` of `Collections` says of any such loop that what the first state has and
each round keeps, the last state has, and that in the last state no round changes anything
any more. The lemmas about the two loops give it their invariant, so the result holds for
queues of every length. `HeadPassedOnce` needs the round itself: the head is skipped only
for its user, and then the next in the queue with another user is served.

### People, logins and the web chat

`WebChat_proofs` proves, for any people, workshops, invitations and uses, and for any
browsers, codes, sessions, requests and keys:

| Theorem | States |
|---|---|
| `PeopleInvariance` | `IdentitySpec => []IdentityInv` |
| `LedgerCorrect`, `MembersAllowed`, `MovedOnlyAsked` | `InvitesAgree`, `MembersView`, `MovedByChoice` of Identity alone |
| `WebInvariance` | `WebSpec => []WebInv` |
| `CodesOpenOnce`, `KeysRunOnce` | `CodeOpensOnce`, `KeyRunsOnce` |
| `RequestsCorrect`, `ContextsKept` | `RequestsAgree`, `ContextKept` |
| `InvitesCorrect`, `MembersKept` | `InvitesAgree` and `MembersView` under every step of the web chat |

`IdentityInv` has the books of the invitations (`InvitesInv`), one active owner in every
workshop (`OwnersInv`), and what stays true of a confirmation however long it is not
pressed (`AskedInv`: the member it is about still has a row, the invitation is still one of
that workshop). `MembersView` is a refinement, proved step by step: for each workshop every
step of Identity is one of Members or leaves it alone; that `Members` sees one owner is
`OwnersInv`, and that a late press is a step of somebody who may take it comes from the
rights the press reads again.

`LoginInv`: a session and the code that opened it point at each other while both exist, a
code that has opened one is `confirmed` or `consumed` and stays so, and no two sessions
come of one code. `ChatInv` says where each goroutine can be: `JobFits` (its row is of its
session; what `Yield` kept is what it had read), `EnteredFits` (what began to work has a
row, or its session is gone; this is what `KeyRunsOnce` rests on, with `KeysInv`, the
unique index on session and key), and `HolderFits` (whoever holds the lock has the
workshop and role it read). That `HolderFits` survives is the point of the lock: whatever
changes a role or a selection is done under it, and `Resume` compares what it kept with
what it finds. Assumed are the assumptions of the four modules: markers of missing rows
are no rows, ids are no markers, bounds are numbers.

### Forms, conversation and memory

`Dialogs_proofs` proves, for any people, drafts, typed numbers, amounts, materials, chats,
values, sizes and limits:

| Theorem | States |
|---|---|
| `SceneInvariance` | `SceneSpec => []SceneInv` |
| `TalkInvariance`, `MemoryInvariance` | the same for Conversation and Memory on their own |
| `SavedAsShownHolds` | `SavedAsShown` of the forms |
| `SentAsWrittenHolds`, `StockAsProposedHolds`, `ReferencesCorrect` | the conversation's `SentAsWritten`, `StockAsProposed`, `ReferencesAgree` |
| `HistoriesCorrect`, `SavedAsProposedHolds` | the memory's `HistoriesAgree`, `SavedAsProposed` |

`FormInv` ties every button to its screen. `ChoiceFits` says it for one button and the
screen it stands on: what the button will write is what the screen says. It has to hold
for the screens left behind too, since "Back" brings them out again with their buttons,
and `LeftFits` says so of each. `SeenFits` relates the screen to `seen`, the last thing
the person read of what would be saved: a prompt says nothing, so the last proposal may be
older than the screen. The hard case is the amount of a stock, whose question names the
unit: the prompt and the preview alternate on the way forward and back, and the step that
"Back" leads to asks in the unit that was shown last (`StockFits`). With `FormInv` each
save is compared with `seen` directly; that the row still has the value the screen started
from is the guard of the code.

`TalkInv` says that a request under way belongs to the session and role it was written in
and has nothing waiting beside it, that a payload waits for the role of its message, and
that the only button that changes a stock is that of the last proposal. `Undisturbed`, the
check after the lock is taken again, is what keeps the first, and `ReferencesHold` follows
the list through it.

`MemoryInv` says of each chat that the rows kept are the longest run of the last things
said within both limits (`Recent`). That trimming after every message gives the same as
trimming all that was ever said is a property of sums over suffixes, which the lemmas on
`Total` give by the induction of `Collections`. At most one proposal exists, the last one
offered.

Assumed are `FormAssumption` (a number can be set; the person is one of the people; the
markers are no drafts) and `DialogsAssumption` (markers again, and limits of the memory
that are not zero).

### Marketplaces

`Marketplace_proofs` proves of RateLimit `DeadlinesKept`, `RateSpec => SendsInTime`, for any
number of callers and any positive waits: what is kept are the waits of 429, of a spent
quota, of 409 and the long ones of a 5xx to the first or second attempt, not that of the
third, which the client drops. Its invariant `RateInv` has four parts. `Inside`: whoever
is past the gate is the one inside it. `Remembered`: what was promised (`server` and `slot`) is no later than the latest deadline
in memory or on disk, and what reached the disk no later than the one on disk. `Current`: a request that has read the deadlines still knows the latest. The last
is inductive only by the first, because nobody else can save a deadline between a
request's look and its slot; and a restart keeps the second because the promise is then
that of the disk. `SaveKeeps` is the lemma about `saveCooldown`, `AnswerKeeps` about every
step that records a deadline, whether the request then leaves or reads on.

Of Marketplace, for any tokens, cabinets, members and number of switches:

| Theorem | States |
|---|---|
| `CabinetsNeverMixed` | `OneCabinet` |
| `MappingsCorrect` | `MappingsFollowCatalog` |
| `RowsCorrect` | `RowsAgree` |
| `ScopeKept` | `SavedInScope` |

`CabinetInv` adds to `OneCabinet` what
the code relies on without saying so: the row names the cabinet of the token it was checked
for (`Checked`), and a job that can still save something works under a token of the cabinet
the row names (`Working`), because it began with a row checked for this token or has asked
whose token it is. The second is what a restart with another token could break, and does
not, since no job outlives the process. `MappingsCorrect` needs the types of the mappings
only: every writer of the catalogue rewrites the mappings with it. `RowsInv` adds that a
job on its way has a kind left to do (`Queue`), so that a row that says "running" is that of
the kind it works on; a refusal, a cancelled context and a failed save end that row in the
transaction that ends the work, and a restart ends the rows of a process that is gone.
`SavedInScope` follows from the guard
before each save, with the types of the job: the revision compared is the one it started
with.

`Ozon_proofs` proves of OzonLimit `OwnDeadlineKept`, `OzonLimitSpec => KeepsOwnDeadline`, for any
number of revisions and any waits: a client's deadline moves only in the request inside its
gate, after it was sent (`Due`). The stored row is not needed, which is why this holds
although `PersistentDeadlineMonotonic` does not.

Of Ozon it proves `AccountsNeverMixed`, `OzonSpec => []OneAccount`, `SavedRowsAgree`,
`OzonSpec => []SavedOfOneAccount`, and `QueriesOfOneRun`, `OzonSpec => []ConfirmedOfOneRun`,
for any accounts, members, SKUs and number of runs. `OzonInv` adds `Bound` (whoever has
passed the check of Execute, and every flight, works for the account of the row; it says
nothing of revisions or rights, so the guards before a save are not what keeps accounts
apart) and `Paged` (what a query has collected is of the run its last page was of, and
nothing before its first page). Assumed are a finite set of SKUs, and that the marker of a
missing row is no row.

### Lemmas about collections, and what is only model-checked

`Collections` proves by induction what the others cite: the library's induction theorems
take an operator, which the provers cannot instantiate, so an induction is done here on a
set. `LeastOfNaturals` comes from the well-founded order of the numbers, `SetInduction`
from the least counterexample, and from these the existence of iterations and sums
(`IterationExists`, `AdderExists`), `LoopComesToRest`, `FoldAdds` and `SumGrows`;
`RemoveAtFields`, `RemoveAtMembers` and `QueueLength` are about removing one element of a
queue.

Model-checked only: all liveness (`ExpiredEnds`, `NeverStuckDue`, `EveryRequestEnds`,
`RefreshAnswered`), which is out of the prover's reach; the two refutations, of
`DueDayHasRun` and of `PersistentDeadlineMonotonic`; and `MovedOnlyByChoice` as the run
states it, which is `MovedByChoice` limited to one scene, while `MovedOnlyAsked` proves
`MovedByChoice` of Identity without the limit. (The steps of WebChat press a button without
the screen it was on, so whether it was asked for cannot be said there.)

## 6. What is not modelled

Prompts, parsing, token counts, speech, rendering, cookies and HTTP, the discovery of MCP
tools and the conversion of marketplace data are input and output. Editing of names,
notes, contacts and profiles writes one row of one owner after a permission check. The
audit is written and never read, except for the events of invitations, which Identity
keeps. The contents of snapshots and summaries are left out of BackgroundJobs, the cycle
check of compositions out of Completion, the classification of texts (rules of a workshop,
router of memories) out of TaskFSM and Memory, the intent parser and the rendering of
marketplace queries out of Ozon. The daily report, the experiments and the command line
have no interaction of their own.

Three behaviours were seen and are not stated as properties because no text of the
repository clearly says otherwise: a notification whose process died before the message was sent
is never sent (documented as such); a refused save after `/memory confirm` loses the
proposal; and the wait in a 5xx to a third attempt is dropped
(`marketplace/wildberries/client.go:299`), so that the next request of the group may be
sent before it is over, although the same wait in the answer to an earlier attempt becomes
a deadline of the group. `docs/marketplace/API-CONTRACTS.md:70` says that 5xx take
Retry-After into account within three attempts, and not what becomes of the last one.

## 7. Plan

In order of importance; what is done is marked.

1. Tasks: Access, Members, TaskFSM, its runs and its proofs (done).
2. Completion with PostingLedger, its run and its proofs (done).
3. BackgroundJobs, its runs and its proofs (done).
4. Admission, its runs and its proofs (done).
5. Identity, WebLogin and WebChat with the application lock, their run and their proofs
   (done).
6. Forms, Conversation and Memory, composed by Dialogs, their run and their proofs (done).
7. Marketplace, RateLimit, Ozon and OzonLimit, their runs and their proofs (done).
8. The cycle check of compositions as an operator against a reference definition, and the
   synchronisation of the manual sync with the pipeline of the jobs
   (`storage/stock_sources.go`).
9. Proofs: the guards liveness rests on, such as that a job that is due, or a request that
   waits, always has somebody who can act for it, as invariants.
