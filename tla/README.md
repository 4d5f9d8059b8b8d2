# Ninox in TLA+

Ninox runs a fleet of coding agents. Each agent is a process in a terminal pane,
most of them in a git checkout of their own, and a desktop app, a terminal UI, a
server and short-lived `ninox` commands act on them at the same time through one
SQLite store. This directory holds TLA+ modules of the parts of that system
where an order of steps decides correctness, the TLC instances that check them,
and TLAPS proofs of the invariants that matter most.

    tlc -config WorkerOps_all.cfg MCWorkerOps.tla      # one run
    tlapm WorkerOps_proofs.tla                          # one proof module

`PROJECT.json` lists runs, the lines of code each definition stands for, the
mutations that show that each property can fail, the findings, the hazards and
the theorems.

1. [The system](#1-the-system)
2. [What is modelled](#2-what-is-modelled)
3. [The runs](#3-the-runs)
4. [Where the code departs from its documents](#4-findings)
5. [What is proved](#5-what-is-proved)
6. [What is not modelled](#6-what-is-not-modelled)
7. [Plan](#7-plan)

## 1. The system

Four crates: `ninox-core` (store, lifecycle, worktrees, messaging), `ninox-ptyd`
(the host of terminal panes), `ninox-server` (HTTP) and `ninox-app` (the CLI, the
desktop app, the TUI).

| Component | State | Operations | What makes it correct |
|---|---|---|---|
| **Worker store** `core/store.rs` | tables `sessions`, `worker_incarnations`, `pooled_checkouts`, `worker_runtime_claims`, `worker_finalizations`; a lock file per allocation and per claim | insert/update/terminalize/delete a row; prepare, bind, complete an incarnation; claim, reserve, finalize, release, quarantine a checkout; claim/complete/abort a start, a cleanup, a release; recovery in `Store::open` | a checkout is reserved for one incarnation; a runtime claim keeps every other use of the incarnation out; only the dead are reclaimed; the cap holds |
| **Worker commands** `app/main.rs`, `app/spawn_util.rs`, `app/app.rs`, `app/restart.rs`, `core/events.rs`, `core/workers.rs` | one process or app task each; what it has read so far; the agents in tmux or ptyd | `spawn`, re-file, resume, `restart`/`fleet restore`, `finalize`, `release`, remove, merge cleanup | the checkout of a running agent is never freed, re-leased or quarantined; agents can be found and stopped; commands end and what crashes leave is recovered |
| **Poller** `core/lifecycle/poller.rs` | the snapshot of the rows a tick works on; rate-limit pause; caches | metadata and pid tick, usage, GitHub and merge detection, retention sweep, start-up reconciliation, completions, work requests | no stale snapshot undoes what others wrote; a merge is announced once and never contradicted; what it leaves is reclaimed |
| **Completion outbox** `core/workers.rs`, `store.rs` | completion rows with attempts and receipts | record, claim for delivery, finish attempt, receive; deletion with the worker | a completion reaches its orchestrator however many others wait, and is handed over once |
| **Messaging, inbox** `core/messaging.rs`, `inbox.rs`, `tmux.rs`, `worker_status.rs`, `app/main.rs` | a file per message, the agent's input line, the activity column | send by socket, inbox file or keystrokes, with fall-backs and nudges; drain at a Stop or a prompt; report activity | a message sent is not lost, is read once and in order; a session at rest is not shown working |
| **Orchestrators** `core/events.rs`, `orchestrator_*.rs` | orchestrator rows, tokens | remove, keep-live detach, reap, authorize | workers follow or are detached, not half of each; nothing of a removed worker is retried |
| **Fleet restore** `core/fleet/*`, `store_fleet.rs`, `app/fleet.rs`, `app/restart.rs` | restore lease, interruption record per session, recovery rows, work requests | reconcile at start, plan, relaunch, brief, acknowledge; restart and resume by hand | one restore at a time; no interrupted session forgotten; briefings and requests reach the orchestrator |
| **ptyd host** `ptyd/host.rs`, `handoff.rs`, `pane.rs` | panes, reader threads, emulator screens, flock, socket files | spawn, kill, write, subscribe, hand off to a new binary | one reader per PTY, no output or terminal lost by an upgrade, a host always answers |
| **ptyd panes and clients** `ptyd/pane.rs`, `host.rs`, `checkpoint.rs`, `attach.rs`, `client.rs` | emulator, subscriber queues, screen sequence, checkpoint files | ingest, subscribe raw or in frames, repaint, checkpoint, report the exit, shut down | a gap in a stream is marked and repaired; nobody rests on an old screen; the exit comes after the last output |
| **Brain sync** `core/brain_sync/*` | per machine the markdown files, the state of the last agreement and the index; in a bucket immutable objects and a manifest | `sync`, `index`, the pull before every lookup | nothing somebody wrote is dropped, the manifest names only what is there, all copies become the same |
| **Brain** `core/brain*.rs`, `embeddings.rs` | markdown files, full-text index, embeddings | write, search, harvest | mostly data processing |
| **GitHub, updates, config, hooks, GUI, TUI, server** | caches and files | see `PROJECT.json` | mostly I/O and presentation |

**How they interact.** Every process opens the store itself: SQLite transactions
(`BEGIN IMMEDIATE`) are atomic, but a command is a sequence of them with git, tmux
and ptyd calls between, and nothing but the rows keeps two commands apart. The
commands of the app run as tasks of one process, those of the CLI as processes of
their own. An agent is known to later commands by its session name and by the
`NINOX_WORKER_INCARNATION` in its environment. ptyd is reached over a Unix socket
and outlives the app; when its binary changes, the new process takes the PTY file
descriptors over from the old one.

**What is hard.** Commands that overlap on one session; checks made before an
await and used after it; a process that dies with a lease, a claim or a lock in
its hand while another starts and tries to recover it; git and tmux failing in
the middle; two pane backends behind one name; an upgrade whose two processes each
may die, time out, be signalled or be started twice at any step.

## 2. What is modelled

| Module | Models | State and steps |
|---|---|---|
| `WorkerStore` | the tables and transactions of `store.rs` | one variable per table (`session`, `worker`, `checkout`, `claim`, `fin`), `lock` for the lock files held, `next` for fresh identifiers and times. One action per transaction; `CanX` is the condition under which the code commits rather than returns `false` or an error. `StoreNext` is *any* client calling *any* transaction with any argument it could hold. |
| `WorkerOps` | the commands, over `WorkerStore` | `op[p]` is what command `p` knows (`s` session, `i` incarnation, `k` claim, `l` lease, `c` checkout, `row` the session row as read) and its `pc`; `run[s]` is the agent. One action per step between which another process may run: a transaction, a tmux call, a git call. |
| `MCWorkerOps` | instances | sets of sessions, commands, kinds and faults; symmetry of the commands |
| `WorkerOps_proofs` | proofs about `WorkerStore` and `WorkerOps` | |
| `CompletionHandoff` | what a completion promises | `result` recorded once; `held` taken once; `told` read at most once, as recorded; `withdrawn` only when worker or orchestrator leaves or the reader drops it |
| `CompletionOutbox` | `ninox complete`, the delivery loop of every app, `ninox receive-completion`, and what deletes workers and orchestrators under them | `row[c]` joins the completion and its outbox row, `worker[w]` the session and its incarnation, `poller[p]` an app's delivery between reading the clock, the claim and the end of the send, `removal[o]` a removal between its steps, `receiving` and `shown` the receiving command before and after it prints. One action per transaction, send, print |
| `MCCompletionOutbox`, `CompletionOutbox_proofs` | instances, proofs | |
| `PtydOwnership` | what an upgrade of ptyd promises | `owner[p]`; an upgrade moves all panes of a host in one step, but for `failed[h]`, those the successor could not adopt |
| `PtydHandoff` | the upgrade protocol | per host a program counter, the handoff thread, `released`/`handing_off`/shutdown flags, readers and screens of each pane, who listens at `<socket>` and `<socket>.next`; one action per blocking step of either side, the reader threads, `serve`, `run` |
| `MCPtydHandoff`, `PtydHandoff_proofs` | instances, proofs | |
| `Mailbox` | `deliver_message` by each mechanism, the nudge, the drain hooks, the activity hooks, of one agent | `call[m]` is the send of message `m`, `inbox` the files not marked, `prompt` the agent's input line as what was typed at it, `queue` what it has accepted, `turn` its turn, `drain` and `report` the two hooks, `activity` the column, `read` what it was given. One action per tmux or ptyd call, file operation, hook step |
| `FleetRestore` | start-up reconciliation, `fleet restore`, relaunch, restart, Resume, reap, briefings, work requests, around reboots and crashes | `pane`, `status`, `rec` and `cand` are what the store and the host know of a session, `lease` the store lease, `run[p]` a restore, `act[a]` the relaunch somebody is in, `recovery` the row of its recovery, `req[r]` a request with its file, its row and who is at work on it, `app` the poller's reconciliation; `slips` notes what failed or came too late |
| `SessionPoller` | the poller's ticks over one worker and its pull request, against reap, terminate, finalize, release, relaunch and a restart of the app | `poll` is the tick's step and its snapshot of `row`; `worker` the incarnation, `hand` a reap or terminate between kill and row, `told` the notices the orchestrator got |
| `PtydPane` | the threads around one pane's mutex | `pane` is the locked state, `reader`, `waiter`, `task` the threads, `conn[c]` a connection with its queue, `frames` the watch channels, `tmp` and `disk` the checkpoint's two files, `final` the shutdown's checkpoint and the three steps of `Pane::kill`. One action per section under the mutex, channel operation or file operation |
| `BrainSync` | `sync`, `index` and `pull_if_stale` of any number of processes on any number of machines, against the bucket, and people who write | `run[q]` is the call a process is in, with the manifest it read and what is left of its plan; `remote` and `objects` the bucket, `disk`, `state` and `stale` of each machine its files, `.sync-state.json` and whether the index lags. One action per request, file operation or save |
| `Mailbox_proofs`, `FleetRestore_proofs`, `SessionPoller_proofs`, `PtydPane_proofs`, `BrainSync_proofs` | proofs about these modules | |
| `MCMailbox`, `MCFleetRestore`, `MCSessionPoller`, `MCPtydPane`, `MCBrainSync` | instances; the fairness of all but the first and the last | |

**Correspondence.** The names of actions follow the functions: `ClaimStart` is
`claim_worker_runtime_start`, `RemoveStop` the call of `stop_exact_runtime` in
`remove_session`. Identifiers (UUIDs), lease ids and times come from one counter:
`Tick` and the actions that create rows hand out a new number, and code that
compares times for equality compares numbers here. An incarnation and its lease
get the same number, as the code derives one capability per incarnation. A
session's workspace is a pool checkout or `NoCheckout`; of `pid` and
`claude_session_id` only presence counts. The outcomes of git (clean, dirty,
missing, cannot create) are choices, enabled by `Faults`. The directory of a
checkout is there iff its record is not `absent`. Of a command that crashed only
its kind is remembered (`Dead`).

Lock files: `lock` holds pairs of process and number. A process that exits or
crashes drops its locks (`DropLocks`). The app is one process, so its commands
share its locks, and end without dropping them.

In `Mailbox` a message is its own text and the input line a sequence of what was
typed, so a line that two senders share shows as one of two elements. Claude Code
itself is external: it runs the hooks of an event side by side, waits for them,
and swallows an Enter, or what is typed where it shows no input line, when `Faults` says
so; a respawn is one step. In `FleetRestore` times are kept as
the order they are compared for; a reboot takes panes, processes and the app and
leaves rows and files. A request is a file that its writer puts in place and a row
that the writer inserts next, each a step; the poller nudges, renames the file and
mirrors the outcome, request by request; a store error ends a restore at any `?`
of `restore()` (`RestoreFails`). In `SessionPoller` the live statuses are one, and the
retention window is an age. In `PtydPane` output is a run of numbered chunks and a
screen is the number of the last chunk it shows; a sequence number of a screen
stands for the chunk it showed when it was taken. In `BrainSync` a content is the
number of the edit that made it, a hash is its content, and the manifest's
generation stands for its ETag; files agree when their contents are equal.

Time is counted in `CompletionOutbox` only: it is counted in poll intervals, and a row
keeps the time until its next attempt (`wait`) instead of the time of it. `Tick`
is a poll interval; it passes when every app that is up and idle has polled. The
same loop also does the app's GitHub work, so an interval may last longer than the
5 s of its timer, and after that a few polls may follow at once; bounds are
therefore in polls, not in seconds. A completion is named by its incarnation.
What a worker's rows go through besides is `WorkerStore`'s subject and is
reduced here to whether it exists, whether it is retained, and whether something
has claimed it.

The store contract: `WorkerOps` keeps the tables in the same variables as
`WorkerStore`, and the property `StoreContract == StoreSpec` (run `ops_serial`)
checks that every step of every command changes the tables by a transaction that
an arbitrary client may make; `CommandsKeepContract` (section 5) proves it, which
carries what holds of the store over to the commands.

## 3. The runs

### Worker store and commands

| Run | Question | Answer |
|---|---|---|
| `ops_serial` | One command after another, any four, with crashes and failures between any two steps: is the checkout of a running agent ever taken from it? is an agent ever lost? does a Working row ever stand for nothing? does `Store::open` recover? are all commands clients of the store? | `RuntimeOwnsCheckout`, `RowsMatchAgents`, `RecoveredByOpen`, `StoreContract`, `OpsTypeOK` hold |
| `ops_all` | Any three commands that overlap in any way on two sessions and one checkout, with crashes, failures of git, reports and merges: is a claim ever shared, leaked, or taken from a launch that succeeded? Does a step of the commands that ask for claims ever take a checkout from under an agent? | `ClaimExclusive`, `ClaimSettles`, `ClaimsProtectCheckout` hold |

`RowsMatchAgents` joins `LiveAgentKnown` and `WorkingHasWorker`, `ClaimSettles` joins
`ClaimNeverLeaks` and `LaunchCompletes`. `WorkerOps_live.cfg` checks, beside the runs,
that every command and every allocation ends without re-file (`WorkEnds`).

**Bounds.** `Commands` has three elements (four in `ops_serial`); each is any
command of `Kinds` once, so a behaviour has any sequence or overlap of that many.
Three suffice for the races: one to create the worker, two to race, or one to
start it, one to crash and `Store::open` to recover. Four, one at a time, add
the sequences (spawn, release, re-file, remove). `Width` bounds how many run at the
same time: 1 in `ops_serial` and in the counterexamples that need no overlap, 9
(no bound) elsewhere. One session and one checkout force every conflict onto the
same rows; two checkouts (`ops_serial`) let a re-file move to a second one, two
sessions (`ops_all`, `WorkerOps_openrace.cfg`) compete for a checkout or for the
cap: one looks for a checkout while the other's is provisioning. `Cap` is 1 where
the cap matters. `ops_all` leaves agents' exits and `poll_pids` to
`ops_serial`, and launches that fail for another reason than a directory that is gone
or a name in use. `MaxGen`, the numbers that may be handed out, is
above what the commands of an instance can use, so no guard `Fresh` ever blocks a
command.

The restrictions of a passing run are where the code fails without them, and a
configuration of [section 4](#4-findings) shows it: `ClaimsProtectCheckout` speaks of
the commands that ask for claims, which re-file, resume and relaunch do not do
throughout, and leaves out merged and terminated sessions; `ops_serial` leaves out relaunch,
`WorkerOps_live.cfg` re-file (a bind refused during a finalization leaves the incarnation
allocating until the app ends; see the hazards), and all have `Backend = "tmux"`.

**Fairness** (`WorkerOps_live.cfg`): weak fairness of `Step(p)` for each command. A command
is a thread or a task of a multi-threaded runtime that is never blocked for
good: transactions wait at most for the busy timeout, tmux and git calls return.
Nothing is assumed of starts, crashes, agents or the poller.

### Completions

| Run | Question | Answer |
|---|---|---|
| `completions` | Whatever fails and whoever is removed: is a completion recorded once, taken once, read at most once and as recorded, and when does it go unread? Do two apps nudge at once? Is anything of a deleted worker retried? | `ImplementsHandoff` (refinement of `CompletionHandoff`), `OneNudgeAtATime`, `PendingHasSession`, `TypeOK` hold |
| `completions_live` | An orchestrator never answers: do the completions of others still arrive, and is every attempt made in time? | `DeliveredOnTime` (`Delivered`, `Punctual`) holds |

**Bounds.** `completions`: two incarnations of one worker (`MaxInc`), so that a
re-file meets the completion of its predecessor; two apps; two texts, so that a
replaced result shows; `Retry = 3 > MaxLag + MaxSend`, as in the code, where the
retry is 30 s, a claim waits at most for the busy timeout of 5 s after the clock
was read, and a send is expected to end in seconds. What happens when it does not
is in section 4. `wait` need not run below
`-MaxLag`: such a row is due to every poller, however old its reading of the clock,
so `MaxOverdue = MaxLag = 1` loses nothing there. `Isolated` says that no worker is
spawned for an orchestrator that is being removed; nothing in the code ensures it
(section 4). `completions_live`: two workers with an
orchestrator each, one deaf, three completions, one app; sends may fail and
prompts get lost, workers may be removed. `Punctual` bounds the delay by
`MaxInc * (MaxLag + MaxSend)` = 3 polls, and `MaxOverdue = 4` is above that bound,
so that a longer delay would show.

**Fairness** (`FairSpec`, in `completions_live`): weak fairness of `Tick` and of
each app's delivery loop, which is one task of a runtime and awaits nothing that
does not end. Strong fairness of a send to a *reachable* orchestrator and of its
receiving, without which "delivered" cannot be promised: an orchestrator that is
reached again and again is one whose send succeeds again and again, and an agent
that is told again and again runs the command again and again. They are
assumptions about the agent, not about the code; nothing of the kind is assumed of
the deaf one. An app that dies between claim and send is left to `completions`:
for the row it is a send that failed.

### ptyd upgrade

| Run | Question | Answer |
|---|---|---|
| `handoff_upgrade` | Two upgrades one after the other, each may fail and be retried, and a pane may fail to be prepared, started or read again: what else is lost, is the socket ever dead, does a takeover end, is frozen output read? | `TypeOK`, `ScreenComplete`, `UpgradeSafe` (`NoOrphan`, `AlwaysReachable`, `IdleHostWhole`), `ImplementsOwnership` (refinement of `PtydOwnership`), `UpgradeSettles` (`UpgradeEnds`, `OutputRead`) hold |
| `handoff_faults` | With crashes, timeouts, SIGTERM, failures (of the rename after the commit too, and of single panes) and fresh starts: who reads, who accepts spawns, when can a terminal be lost at all? | `OneReader`, `FaultsContained` (`OneHost`, `OrphanOnlyAfterCommit`) hold |

**Bounds.** Three hosts make a chain of two upgrades, or an upgrade and its retry,
or a crash and a fresh start; a host is started at most once, and the two later ones
are alike (symmetry, in `handoff_faults`, which checks no liveness). One pane shows the
reader and screen races; that several move together, and some fail, takes two, which
`PtydHandoff_transfer.cfg` has beside the runs (one upgrade, 208,907 states; `NoOrphan` and
`ImplementsOwnership` hold), and any number the theorem `UpgradeImplementsOwnership`. What a pane may lack is an event: `"prepare"` (`prepare_pane`
fails, handoff.rs:286), `"start"` (a thread of `PendingPane::start` does not start,
handoff.rs:310), `"restart"` (`restart_reader` fails in `thaw`, handoff.rs:146). The code
logs each and goes on. `unadopted[h]` are the panes lost that way at `h`, `home[p]` the
host `p` was spawned in or released to last; both are history, and a terminal may be
lost only by what befell that host (`Cost`), without an excuse from any other.
A reader that could not be restarted is `"stuck"` (the dup failed: it counts as frozen
for ever) or `"lost"` (no thread: the next upgrade waits for it in vain, 2 s, and fails).
`OutputRead` excepts those panes, no others.
`MaxOut` chunks of output: two allow one before and one after the freeze.
`Overlap` says which takeovers may coexist: `"none"` (an operator who waits, in
every run), `"retry"` (one starts while the last still thaws), `"any"`. `ScreenComplete`
is asked of `handoff_upgrade` only: with a crash, or a rename that fails after the
start, it does not hold (section 4).

**Fairness** (`FairSpec`, in `handoff_upgrade`): the handoff thread, the successor,
the serve loop and the reader threads are scheduled. Every wait of theirs is a
bounded wait or a read on a stream whose other end ends too. Clients, signals,
faults, operators and agents owe nothing.

### Messages

| Run | Question | Answer |
|---|---|---|
| `mailbox` | Two messages by any mechanism while turns begin and end, a person types between any two calls of a sender, keystrokes and Enters are swallowed, files, the store and hooks fail and the agent dies: is one lost in any other way, read twice, overtaken? Is a session at rest shown working after its last report came through? | `NothingVanishes`, `ReadInOrder` (`ReadOnce`, `SendOrderKept`), `IdleIsShown`, `TypeOK` hold |

**Bounds.** Two messages, one of which fills a payload, so that a batch is cut and
the rest stays pending; one retry of Enter (`Attempts`; the code has a few more of
the same), two turns, so that a message may be drained at a Stop or at the prompt
of the next turn, and one person who begins to type once. The fault `mark`, which
inbox.rs:203 accepts as a message read twice, is left out of the runs.

**What a send promises.** The success of a send by keystrokes says only that the
message was not *seen* unsubmitted: a pane without an input line (the TUI boots, a
dialog or an alternate screen is up) swallows text and Enter, and the verification, which
finds no prompt, counts that as delivered (tmux.rs:913-931, 1015-1021;
ptyd_backend.rs:282-291; prompt.rs:27-40). The fault `screen` is such a pane at any step, and a
question always hides the line. An agent that dies (`die`, `Respawned`) takes with it what
was typed or sent to its socket (session_socket.rs:244-247). `gone` holds those messages,
`lost` the files of a hook killed between mark and print; `NothingVanishes` says that
there is no third way, that a file never goes the first way and a keystroke never the second.
A report of the agent's activity may fail as well (`ReportFails`: the store does not open or
write, the payload is of no known shape, the hook is killed; main.rs:2805-2863 prints and
returns). Nobody repeats it, so an idle agent may be shown working until its next report;
`missed` says that this is so, and `IdleIsShown` that it is the only reason and that the
next report that comes through ends it.
`Mailbox_live.cfg` checks under `FairSpec` that a message which waits while a turn runs is read
(`DrainedAtStop`); there a turn that could end again and again does end (strong
fairness of `TurnEnds`, an assumption about the agent), hooks and senders are
scheduled.

### Fleet restore

| Run | Question | Answer |
|---|---|---|
| `fleet` | Reboots, reconciliation, two restores, restart, Resume, reap, a work request, failing launches, sends and store calls, a crash: do restores overlap, is a session forgotten, is a briefing or a request lost, is a request ticked off unsaid? | `OneRestorer`, `NoneForgotten`, `BriefingKept`, `RequestsReach` (`RequestKept`, `DeliveredWasTold`), `TypeOK` hold |

**Bounds.** An orchestrator that can be resumed and a worker that cannot; two
processes that restore (`fleet restore` and the automatic one; they are alike, hence the
symmetry); two reboots, either of which may fall into a restore, and one crash or action by
hand (`MaxUpsets`). A behaviour in which work is requested, once, has one
reboot and no crash or hand (the constraint `RequestAlone`; it only cuts behaviours short,
which takes nothing from invariants). `FleetRestore_requests.cfg` lifts half of that beside
the runs: with one restorer a request lives through two reboots, so that a restore may fail
with it and a later one come to it again (4.4 million states; `RequestsReach` holds). Section
5 has neither bound.
`RequestKept` has two exceptions, and fails without either: a request whose row
neither its writer nor the poller could insert (`slips.writer`, `slips.poller`), and
one whose row came between the snapshot of a briefing and its mark (`slips.late`).
Told means that a send succeeded; what a pane without an input line swallows all the
same is in `Mailbox`.
`SlowRestore = FALSE`: a restore ends before its lease is old, which nothing
enforces.
`NoneForgotten` says that what a reboot took is offered for restore (`LostOnRecord`)
and that a reboot takes only what is on record (`RunningOnRecord`). `Unrecorded` is
its exception: a poller that dies between writing a Terminated row and
`mark_reconciled_terminal` (poller.rs:126-133) leaves a row that no restore offers.
`RunningOnRecord` speaks of behaviours without crash and hand (`Calm`): a restore that
dies between pane and row, or a Resume that races the pid tick, leaves an agent
whose row has ended. `BriefingKept` speaks of behaviours without crash and hand, and
excepts a restore that an error of the snapshot or of `begin_recovery` (fleet.rs:390-394)
ended after it brought the orchestrator back (`slips.begin`): there is no recovery
row then, and no later restore writes one. `FleetRestore_live.cfg`, without requests,
checks under fairness that what a reboot took is restored or reaped (`FleetComesBack`)
and the orchestrator briefed (`OrchestratorBriefed`, with the same exception), if
`fleet restore` is run again and again and a relaunch, a store access or a send that
is tried again and again succeeds some time; the restore itself does
not loop, so that is an assumption about its users.

### Poller

| Run | Question | Answer |
|---|---|---|
| `poller` | Any two of reap, terminate, finalize, release, relaunch, a restart of the app, stamps that fail and removals that fail, at any point of any tick: what is the orchestrator told, does a stale snapshot bring back an ended row, is a merge announced and what it leaves reclaimed? | `NoticesRight`, `NotContradicted`, `TerminalStays`, `MergeSettles`, `TypeOK` hold |

**Bounds.** One worker, one PR, two hands (with three, with automatic reaping or with
the batched PR watch the safety properties hold too); the two failures may come again
and again, notices and failures are counted to three. `NoticesRight` and
`NotContradicted` name what they leave out
(`Undisturbed`): a release ends in `SessionPoller_spam.cfg`, a relaunch starts over, an app
that crashes between notice and stamp repeats itself, and a cleanup that failed after
its claim leaves a worker (`claimed`) that no removal finds again. A stamp that
failed means another merge notice on the next tick, as poller.rs:2095 says, or, if the
agent ends meanwhile, a retirement notice that contradicts it; a failed removal means another
retirement notice on the next sweep. So the notices are counted against the failures (`told.nostamp`,
`told.noremove`): one more of them than failures, never two. `noremove` stands for
everything that keeps `remove_session` from deleting the row of its incarnation: a
refused claim (a pending finalization, a runtime claim), a stop that fails and gives
the claim back, a store error.

**Fairness** (`FairSpec` in `MCSessionPoller`): the poller is one task whose ticks
come round; time passes. Strong fairness of the lookup on GitHub, of the GitHub and of
the pid tick: a request that is tried again and again is answered some time, and a
tick that other ticks and hands interrupt is due again. Strong fairness of the
removal: one that is tried on every sweep does not fail for ever. Nothing is assumed of the
stamp or of the write that follows a reap.

### ptyd pane

| Run | Question | Answer |
|---|---|---|
| `pane` | Reader, waiter, pane task, a raw and a frames client, checkpoints and failing writes of them, kill and shutdown in any order: does a stream have a gap nobody marks, does anybody rest on an old screen, does the exit overtake the output? | `StreamWhole`, `NothingStale` (`FramesCurrent`, `CheckpointCurrent`), `ExitAfterOutput`, `TypeOK` hold |

**Bounds.** Three chunks of output and a queue of two: the third finds it full, and
a repaint may follow. `Scenarios` (`EachEvent`) names which events happen together
in a behaviour; all of them at once are beyond TLC's reach. Each of synchronized
updates, leaving clients, a lingering child, kill and shutdown meets each kind of
client it concerns; a checkpoint write fails (`"disk"`) at its file or at its rename.
`NothingStale` promises the checkpoint after a write that succeeded only: a failed one
counts as written (pane.rs:825) and is not repeated before the screen changes. The exit
comes last for a pane nobody kills; a kill drops the raw subscribers (pane.rs:408)
before it tells the connections, and one that sees the exit in between sends it after a
queue that lacks the end. `PtydPane_live.cfg` checks `EveryoneHears` under fairness of the
host's threads and of clients that read: when process and terminal are gone, every
client is told or its connection ends.

### Brain sync

| Run | Question | Answer |
|---|---|---|
| `brain` | Two machines sync, index and look up while people write and delete, requests fail or their answers get lost, processes are killed, also while they write their state: is something dropped that nobody replaced or deleted? Can the manifest name an object that is missing? Do the copies become the same? | `NothingDropped` (`NothingLost`, `EntriesBacked`), `Converges` hold |
| `brain_loss` | see [findings](#4-findings) | violated |

**Bounds.** Two machines with a process each, one that only indexes and one that
syncs and looks up; one entry, which may or may not exist at first, and the
conflict copies that come of it. `MaxEvents = 3` edits, deletions and faults
together: two edits make a conflict, the third meets its copy or its retry.
`Attempts = 2` (five in the code): every attempt after the first starts alike, and
an exhausted loop shows sooner. `SameSecond = FALSE`: a retry falls into another
second than the attempt before, without which `brain_loss` shows what happens.
`Races = FALSE`: nobody writes a file between a sync's decision to replace it and
the replacement; section 4 shows what happens otherwise, and with two processes on
a machine. A torn state file makes every later call of its machine fail, and
`Converges` says nothing of what follows.

**Fairness** (`FairSpec`): a call that runs goes on (weak fairness), and a process
that may sync does so again and again, however many lookups it runs in between
(strong fairness); that is the user who runs `ninox brain sync`, not the code.
People and faults owe nothing, and are bounded: `Converges` is about what happens
once they stop.

Deadlock is not checked (`CHECK_DEADLOCK FALSE`) in any run: a behaviour rightly
ends when every command has run, no host is left to start or every bound is used up; that none stops
earlier is what `WorkEnds`, `UpgradeSettles`, `MergeSettles` and `Converges` check.

## 4. Findings

One run is expected to fail; `PROJECT.json` quotes the sentence it contradicts.

| Run | What the code does |
|---|---|
| `brain_loss` | A conflict copy is named by user and second (manifest.rs:176). A sync that has set the user's version of an entry aside and then loses the swap tries again 50 ms later; if another machine has pushed the entry meanwhile, the version it has just downloaded conflicts once more (the base is the old one) and is renamed over the copy (mod.rs:192). The user's version is then nowhere, against "no data loss ... nothing is silently dropped" (mod.rs:151-155). |

Further configurations give the shortest behaviours of other weaknesses met while
modelling. They bound the passing runs, and the hazards of `PROJECT.json` refer to
them. Where no file is named, the instance is the file in the first column with the
constants given replaced and the property checked alone.

| Configuration | Violates | What the code does |
|---|---|---|
| `WorkerOps_openrace.cfg` | `AgentsApart` | `Store::open` reads which allocations to reclaim, tries their locks and reclaims without looking again (store.rs:912): a spawn that binds in between loses its checkout to the next spawn. |
| `WorkerOps_ptyd.cfg` | `RuntimeOwnsCheckout` | Stopping an exact incarnation asks tmux only (workers.rs:367); with ptyd, the default, a live pane counts as absent and its checkout is freed. |
| `WorkerOps_refile.cfg` | `RuntimeOwnsCheckout` | Re-file launches without a runtime claim (app.rs:2912); a removal between its bind and its launch frees the checkout. |
| `WorkerOps_ghost.cfg` | `WorkingHasWorker` | A session removed during its spawn comes back as a Working row without a worker (main.rs:1542, against main.rs:1264). |
| `WorkerOps_openrace.cfg`, `SpawnFinalize` | `RuntimeOwnsCheckout` | A finalization that completes between a spawn's bind and its claim does not stop it: `claim_worker_runtime_start` refuses a pending finalization only (store.rs:2986), the agent runs in a terminated session, a second finalization answers "already finalized" without stopping it (workers.rs:329), and another spawn that saw the reservation quarantines its checkout (spawn_util.rs:662). |
| `WorkerOps_leak.cfg` | `LeasedHasOwner` | A removal that claims the incarnation between the lease and its bind skips the lease the row does not name yet (events.rs:820) and deletes the worker; the spawn may not give it back any more. |
| `WorkerOps_serial.cfg`, one checkout, `SpawnRelaunchRelease`, `Reports`, no faults | `RuntimeOwnsCheckout` | `restart` and `fleet restore` relaunch without claim or incarnation (spawn_util.rs:260); `release` then frees the checkout under the agent. |
| the same, `SpawnFinalizeRelease`, no events | `HuskCanBeRefiled` | A released worker's row still names its lease (store.rs:2164), and re-file of the session is refused for good. |
| the same, `SpawnResumeRemove`, no events | `RemoveRemoves` | Resume changes the row's start time but not the incarnation's; removing the session is then a silent no-op, against events.rs:610. |
| `WorkerOps_openrace.cfg`, `TwoCheckouts`, `Cap = 1`, `SpawnResume` | `AgentsWithinCap` | A spawn whose launch failed rolls back the incarnation that a resume has launched since: the cap no longer counts the agent. With `NoResume` it holds. |
| `CompletionOutbox_lost.cfg` | `AcknowledgedIsRead` | The acknowledgement is committed before the summary is printed (main.rs:948-955, against "Atomically receive and acknowledge", main.rs:138). |
| `CompletionOutbox_all.cfg`, `NoFaults`, `Events <- Sweeps` | `SweptWasReceived` | A re-file or resume ends the retention of a worker whose result is still undelivered; the sweep may then delete it (poller.rs:2168). |
| the same, `Events <- OrchRemovals`, `Isolated = FALSE` | `PendingHasSession` | `delete_orchestrator` leaves the completions of the sessions it deletes (store.rs:1897); a worker spawned during the removal leaves a row that is retried for ever. |
| the same, `NoEvents`, `Retry = 2` | `OneNudgeAtATime` | With a send as long as the retry, a second app sends the same nudge meanwhile. |
| `PtydHandoff_prepare.cfg` | `FailureKeepsOld` | A successor that cannot prepare a pane (no descriptors left for the dups of its master) logs it, closes the master and acks `owned: true` all the same (handoff.rs:286-294); old releases everything, and the agent loses its terminal in an upgrade that counts as complete, against "Before the commit point, any failure leaves old owning everything" (handoff.rs:30). A pane that does not start after the release (handoff.rs:310) is lost likewise; if a later thread failed, its reader goes on in a pane no client can reach. |
| `PtydHandoff_prepare.cfg`, `OnePane`, `Events = {"term"}` | `TermSparesReleased` | `serve` reads `released` once before `kill_all` (host.rs:524, against host.rs:132); the handoff thread may commit after. |
| the same, `Events = {"kill"}` | `ReleasedNeverTouched` | Between the release and its stop, old still serves `Kill`, `Write` and `Resize` on panes it gave away, against handoff.rs:21-22. |
| `PtydHandoff_retry.cfg` | `ScreenComplete` | Nothing orders the thaw of a failed takeover before the next takeover (handoff.rs:142). |
| `PtydHandoff_faults.cfg` | `ScreenComplete` | A successor that started its readers and then dies, or fails the rename, has read output that old's emulator lacks. Until old's serve loop ends it accepts another `Takeover` (`serve_handoff` does not ask whether the panes were released, handoff.rs:108), and that successor starts from the older screens. |
| `PtydHandoff_retry.cfg`, `Overlap = "any"`, `NoFaults`, `MaxOut = 0` | `FailedStartedNothing` | Two takeovers share `<socket>.next`; the second fails after it started the panes, against handoff.rs:252. |
| `PtydHandoff_faults.cfg`, `TwoHosts`, `Events = {"term"}` | `UnlinksOwnSocket` | The inode of the socket is compared and the file removed in two steps (host.rs:532). |
| `Mailbox_nudge.cfg` | `NudgeNeverWedges` | Two sends to an idle session type their nudges at the same prompt; the line is then nobody's nudge and no later send submits it. |
| `Mailbox_nudge.cfg`, `OnlyKeys`, `Swallows` | `ErrorMeansUnread` | A send by keystrokes whose Enter was taken late reports that the message was not submitted, although the agent reads it. |
| `Mailbox_nudge.cfg`, `People = 1` | `NudgeSparesHuman` | Between the last look at the prompt and the Enter of a nudge a person may begin to type; the Enter submits it. |
| `Mailbox_all.cfg`, with `~missed` struck from `IdleIsShown` | `IdleIsShown` | A report hook that fails leaves the activity as it was, and nothing repeats it: an idle agent is shown working (main.rs:2861). |
| the same, with `gone` struck from `NothingVanishes` | `NothingVanishes` | Keystrokes at a pane without an input line are swallowed while the send succeeds; an agent that dies drops what it accepted. |
| `Mailbox_nudge.cfg` | `WorkIsShown` | The Stop hooks race: the one that reports sees an empty inbox, the other drains a message that came since; the agent works and is shown idle. |
| `FleetRestore_all.cfg` | `UnbriefedIsPending` | A restore that dies between the relaunch of the orchestrator and `begin_recovery` (fleet.rs:394) leaves no recovery row, so no later one briefs it. |
| `FleetRestore_all.cfg`, with `~slips.begin` struck from `BriefingKept` | `BriefingKept` | So does one that is ended there by an error of `snapshot` or `begin_recovery` (fleet.rs:390-394). |
| `FleetRestore_late.cfg` | `MarkedHaveReached` | `request-work` files a request with its time (main.rs:2690) and inserts its row afterwards (main.rs:2695). A briefing whose snapshot falls between does not list it, and its mark ticks off every row stamped up to the snapshot, this one too: the orchestrator may never hear of it if the poller's nudge fails as well, against "the undelivered ones created at or before `up_to` ... have now reached it" (store_fleet.rs:326-328). |
| `FleetRestore_requests.cfg`, with either exception struck from `RequestKept` | `RequestKept` | A request whose row both its writer and the poller failed to insert (each only warns, or does not even that: poller.rs:160) leaves the pending files and is nowhere; one whose row came late is ticked off. |
| `FleetRestore_all.cfg` | `LeaseMeansRunning` | A restore that is killed leaves its lease, and `ninox restart` says for the lease's time that a restore is running. |
| `FleetRestore_all.cfg`, one restorer | `ReapedStaysDown` | A restore works on a plan made before a reap and relaunches the reaped worker. |
| `FleetRestore_all.cfg`, `SlowRestore = TRUE` | `OneRestorer` | The lease is taken over by age, while its holder may still wait for prompts. |
| `SessionPoller_spam.cfg`, `Hands = {"relaunch"}` | `SweepSparesLive` | The sweep lists expired sessions and removes them after awaits; one that was resumed in between is removed with its agent (poller.rs:2232). |
| the same | `RetiredToldOnce` | A relaunched worker gets a start time under which its removal finds nothing: its retirement is announced, and the row stays to be announced again. |
| `SessionPoller_spam.cfg` | `MergeToldOnce` | The merge of a worker whose row has ended is announced first, and the transition to `Done` that stops it being announced again is left to `retain_worker_after_merge`, which for a released incarnation writes nothing (store.rs:3675): the orchestrator is told again on every GitHub tick until retention removes the row, against "a session can never fire this reaction twice" (poller.rs:2027). |
| `SessionPoller_leak.cfg` | `MergedReclaimedAlways` | A removal that claimed the incarnation and then cannot delete the row (events.rs:640), undo the claim after a failed stop (events.rs:356), or go on because the app ended leaves the incarnation `cleanup_claimed`. Claims are made of allocating, active and retained incarnations only (store.rs:3244), nothing takes this one back, and every later `remove_session` returns Ok without doing anything: the merged worker's row stays, against "this fallback stops a merged worker leaking its row/tmux/worktree forever" (poller.rs:2160). One that was terminated without a merge is announced as retired on every sweep. |
| `SessionPoller_spam.cfg`, all hands | `TerminalStaysAlways` | The usage tick writes the whole row it listed (poller.rs:820), over an end that came in between. |
| `PtydPane_live.cfg` | `LagEnds` | A lagged client is repainted at the next output; when no more comes it keeps the screen with the gap. |
| `PtydPane_all.cfg`, `Depth = 1` | `StreamWholeAlways` | A repaint during a synchronized update lacks what the emulator holds back, and the bytes sent after it do not bring it. |
| `PtydPane_all.cfg` | `CheckpointAlways` | A checkpoint that cannot be written counts as written: the pane rests with an old one on disk, or none, after the process's end for good. |
| `PtydPane_all.cfg` | `FramesCurrentAlways` | A frames client that subscribes while the pane task works, which read before that nobody watches, waits for the next output. |
| `PtydPane_all.cfg` | `ShutdownKeepsLast` | `kill_all` and the pane task write one temporary file (checkpoint.rs:66); the older checkpoint may end in place, or (`CheckpointWhole`) bytes of both. |
| `BrainSync_loss.cfg`, `SameSecond = FALSE`, `Procs = {q1, q2, q3}`, `At <- TwoOnAOneOnB`, `Calls <- LookupBeside` | `NothingLost` | A sync fetches the manifest before it loads its state (mod.rs:162-167): a lookup of the same machine that saves a newer state in between makes what it does not know look like deleted or edited there. |
| `BrainSync_all.cfg`, `Races = TRUE` | `NothingLost` | A file written between the scan and the download or the deletion is overwritten (mod.rs:142, against "never overwrites local divergence", mod.rs:68). |
| `BrainSync_all.cfg` | `NothingReturns` | A sync that is killed after it pulled a file, and before it saved its state, takes the file for the user's own: when it is deleted there, the next sync brings it back. |
| the same | `IndexFollows` | A call that fails after a pull does not rebuild the index (main.rs:3286), and later ones see no change. |

## 5. What is proved

For every set of sessions, checkouts, processes, hosts, panes, clients and
requests, and every value of the bounds, by TLAPS:

| Theorem | States |
|---|---|
| `WorkerOps_proofs!TypeCorrect` | `StoreSpec => []TypeOK` |
| `WorkerOps_proofs!ClaimExcludes` | `StoreSpec => []ClaimExclusive` |
| `WorkerOps_proofs!CommandsKeepContract` | `Spec => StoreContract`: the commands implement `StoreSpec` |
| `WorkerOps_proofs!CommandsTypeCorrect` | `Spec => []OpsTypeOK` |
| `WorkerOps_proofs!CommandsExclude` | `Spec => []ClaimExclusive`, of `WorkerOps` |
| `WorkerOps_proofs!ClaimsSettle` | `Spec => []ClaimSettles` |
| `WorkerOps_proofs!OpenRecoversAll` | `Width = 1`: `Spec => []RecoveredByOpen` |
| `WorkerOps_proofs!SerialKeepsCheckout` | `Width = 1`, tmux, no relaunch: `Spec => []RuntimeOwnsCheckout` |
| `WorkerOps_proofs!SerialKeepsRows` | `Width = 1`, tmux, no relaunch: `Spec => []RowsMatchAgents` |
| `CompletionOutbox_proofs!TypeCorrect` | `Spec => []TypeOK` |
| `CompletionOutbox_proofs!Implements` | `Spec => ImplementsHandoff`: the outbox implements `CompletionHandoff` |
| `CompletionOutbox_proofs!SingleNudge` | `Retry > MaxLag + MaxSend`: `Spec => []OneNudgeAtATime` |
| `CompletionOutbox_proofs!NoOrphans` | `Isolated`: `Spec => []PendingHasSession` |
| `PtydHandoff_proofs!TypeCorrect` | `Spec => []TypeOK` |
| `PtydHandoff_proofs!SingleReader` | `Overlap = "none"`: `Spec => []OneReaderInv`, hence `OneReader` |
| `PtydHandoff_proofs!FaultsAreContained` | `Overlap = "none"`, every fault: `Spec => []FaultsContained` |
| `PtydHandoff_proofs!IdleIsWhole` | `Spec => []IdleHostWhole`, without assumption |
| `PtydHandoff_proofs!UpgradeIsSafe` | `Overlap = "none"`, no event but failures before the release and shortages (`"kill"`, `"fail"`, `"prepare"`, `"start"`, `"restart"`): `Spec => []UpgradeSafe` |
| `PtydHandoff_proofs!ScreensAreComplete` | `Overlap = "none"`, neither `"rename"` nor `"crash"` in `Events`: `Spec => []ScreenComplete` |
| `PtydHandoff_proofs!UpgradeImplementsOwnership` | `Overlap = "none"`, no event but failures before the release and shortages (`"kill"`, `"fail"`, `"prepare"`, `"start"`, `"restart"`): `Spec => ImplementsOwnership` |
| `Mailbox_proofs!TypeCorrect` | `Spec => []TypeOK` |
| `Mailbox_proofs!NothingIsDropped` | `Spec => []NothingVanishes` |
| `Mailbox_proofs!IdleIsSeen` | `Spec => []IdleIsShown` |
| `Mailbox_proofs!ReadsAreInOrder` | `"mark" \notin Faults`: `Spec => []ReadInOrder` |
| `Mailbox_proofs!BlockedIsKept` | `Spec => BlockedStays` |
| `FleetRestore_proofs!TypeCorrect` | `Spec => []TypeOK` |
| `FleetRestore_proofs!LostStaysOnRecord` | `Spec => []LostOnRecord`: the first half of `NoneForgotten`, without assumption |
| `FleetRestore_proofs!RequestsReachOrchestrator` | `Spec => []RequestsReach`, without assumption |
| `FleetRestore_proofs!OneRestorerHolds` | `~SlowRestore`: `Spec => []OneRestorer` |
| `FleetRestore_proofs!NothingForgotten` | `~SlowRestore`: `Spec => []NoneForgotten` |
| `FleetRestore_proofs!BriefingIsKept` | `~SlowRestore`: `Spec => []BriefingKept` |
| `SessionPoller_proofs!TypeCorrect` | `Spec => []TypeOK` |
| `SessionPoller_proofs!NoticesAreRight` | `Spec => []NoticesRight` |
| `SessionPoller_proofs!MergeIsNotContradicted` | `Spec => NotContradicted` |
| `SessionPoller_proofs!EndedStaysEnded` | `Spec => TerminalStays` |
| `PtydPane_proofs!TypeCorrect` | `Spec => []TypeOK` |
| `PtydPane_proofs!StreamsAreWhole` | `Spec => []StreamWhole` |
| `PtydPane_proofs!ExitComesLast` | `Spec => []ExitAfterOutput` |
| `PtydPane_proofs!NothingIsStale` | `Spec => []NothingStale` |
| `BrainSync_proofs!ManifestBacked` | `Spec => []EntriesBacked` |
| `BrainSync_proofs!NothingIsLost` | `Alone`, `~SameSecond`, `~Races`, every fault and call: `Spec => []NothingDropped` |
| `BrainSync_proofs!EditsAreKept` | a file that differs from base and manifest is pushed or set aside, never replaced or deleted, by the plan of a sync |
| `BrainSync_proofs!LookupSparesEdits` | what a lookup replaces or deletes is as it was last agreed |

**`ClaimExcludes`.** `ClaimExclusive` is inductive together with `TypeOK`. The
argument: a transaction that moves an incarnation on, replaces it or begins its
finalization has "no runtime claim of it" in its condition, and a claim is
inserted only for the current, unfinalized incarnation in a launchable state; the
proof has one lemma per group of transactions and one step per transaction. The
assumption is that transactions are atomic and that the clients pass arguments of
the right shape; nothing is assumed about the clients' order, so the theorem is
about `store.rs` alone.

**The commands.** `WorkerOps` keeps the store's variables, so the refinement needs no
mapping; what it needs is that a command calls a transaction with arguments that
`StoreNext` allows: numbers that have been handed out, a row of the right shape, a prior
state that a claim may have. `OpsInv` says so: `HandedOut` of the tables, `Fits` of what a
command has in hand at each `pc` (`CommandsKeepContract`, `CommandsTypeCorrect`). The one
assumption beyond those of `WorkerStore` is `AnyColumns`: the columns a session's row may be
given are all there are, which `ops_all` and `ops_serial` give. `CommandsExclude` then
is `ClaimExcludes` of the commands. No kind of command, fault, event or backend is
excluded, nor any overlap.

**`ClaimsSettle`.** `LaunchInv` relates a runtime claim to the command that took it: of
the commands that `Holds` says may hold one, each has its own claim and its lock
(`HoldsClaim`), a claim whose lock is held is held by one, and no `Store::open` has on its
list of the dead what is locked. The claim and the lock are taken in one transaction;
a lock is dropped only by the command's end, by its process's death or with the claim,
and `Store::open` deletes only claims whose lock it found free after it had read them:
a number is never handed out twice, so a claim seen dead is dead for good
(`CommandTidy`, `TakenPreserves`, `EndedPreserves`, `DroppedPreserves`). With `ClaimExclusive` the
incarnation is in the state the launch found it in, so `complete_start` commits.

**`OpenRecoversAll`.** Between the scan of an open, its tries of the locks and its
transactions agents go on reporting, and a report drops the lock of the incarnation it
completes. `Recovering` says, for each step of an open, that what is to be reclaimed and
is not locked is still on its list, and behind its transactions that nothing such is left.
A report keeps this because it unlocks nobody else's number: `Apart` (the incarnations,
leases and commands of two sessions share no number, `KeepsTo` for each transaction) holds
with any overlap, `OwnNumber` says the same of claims. `Width = 1` is what the property
needs, not the proof: a command that dies while an open runs leaves what the open has
already looked for, and the next open finds it.

**`SerialKeepsCheckout`, `SerialKeepsRows`.** Both follow from one invariant, `Serving`,
which is inductive together with `OpsInv`, `LaunchInv` and `OneRuns`. `Serves`, of each
session and at every moment: an agent that runs is of its session's row and current
incarnation, which is neither allocating nor released, in a checkout leased to the
session; a Working row has an incarnation. `Relies`, of the command in progress: from
the stop of the old agent to the launch of the new one, and on the way back, no agent
of the session runs (`WayThere`, `WayBack`); what is about to be launched may be
(`CanBeRun`), and its checkout is the session's (`Housed`); what a scan of the pool or of
the allocations has seen is still so; a claim that is given back restores a state in
which the agent may run (`MayGiveBack`). Agents report and exit, sessions merge and
`poll_pids` ticks at any time (`EventServes`), and any step may fail or be the last. The assumptions are the ones without which section 4 has counterexamples: a second
command at the same time (`WorkerOps_refile.cfg`, `WorkerOps_ghost.cfg`,
`WorkerOps_openrace.cfg`), panes in ptyd (`WorkerOps_ptyd.cfg`), a relaunch without
incarnation. `ops_serial` is such an instance.

**`Implements`.** The mapping reads the abstract state off the tables: `Present`,
`ResultOf`, `Held`, `Withdrawn`. The steps map as one expects (`Complete` records,
`Acknowledge` takes, `PrintSummary` reads, `ReceiverDies` drops), deletions and
the end of a removal let their sessions leave, all else stutters. The delicate
steps are deletions: a removal lists its workers first and deletes them later, so
it may delete a session that is gone already, which must not withdraw anything
then. That needs `HandoffInv`, above all `ResultHasWorker`: a completion that is
not deleted, of an orchestrator that is there, has a worker, and that worker is
the orchestrator's or was detached; and that what is pending has not been taken
and what is taken has a reader. No fault, event or bound is excluded.

**`SingleNudge`.** `SendHasTime`: while an app sends a nudge, the time left of the
row plus the age of the send is at least `Retry - MaxLag`, because a claim sets
the next attempt `Retry` after a clock reading that is at most `MaxLag` old. So no
other app, whose own reading is no older than its claim, finds the row due before
the send has lasted longer than `MaxSend`.

**`NoOrphans`.** `RemovalKnowsAll`: the workers an orchestrator has are among those
its removal has still to delete. At the end none is left, so `delete_orchestrator`
deletes no session of which completions would stay.

**`SingleReader`.** `OneReader` is not inductive: that a successor may start its
readers depends on old having frozen its own and on nobody else having the
panes. `OneReaderInv` adds nine parts: takeovers exclude each other (`IBusy`), the
peer of a takeover never is a successor again (`IPeer`), `<socket>.next` belongs
to the takeover (`INext`), the order of release and start (`IRel`), nothing exists
of what was never spawned (`IUnspawned`), the socket has not moved on before the
commit (`ISock`), nobody but old reads before the commit (`IOld`), nobody at
all between the replay and the start (`ISent`), and only the successor after it
(`IStarted`, `IHome`). It holds for all faults, including crashes at any step. The
assumption `Overlap = "none"` is needed: with `"retry"` old's late restart of its readers, after
the second manifest, leaves two readers of one PTY (and what it reads is missing
from the screens, `PtydHandoff_retry.cfg`).

**The rest of the upgrade.** Four theorems stand on `ControlInv`, which adds to
`OneReaderInv` how far the two sides of a takeover can be apart: what is released was
acked, what was acked was sent (`IAck`); old refuses spawns from the first step to
the last (`IRefuse`); until the commit old alone may accept any, from then on nobody
does before the successor serves (`IAlone`); whoever accepts is behind the socket
(`IAccepts`, `IMoved`); what is handed over is what old has (`IPend`).

- `FaultsAreContained`: a live pane that nobody has killed has a host that answers
  for it (`ICover`, step by step in `AnswersOn`), unless the host it was released to
  last could not adopt it, was shut down, crashed or gave up, or released it to one
  that gave up (`Cost`). That such a cost, once final, stays is `CostStays`; that only
  old's panes get a new home is `HomeMoves`, what the release does `ReleaseMoves`.
- `IdleIsWhole`: each flag of old (`handing_off`, `released`, `freeze`, a frozen reader)
  accounts for a handoff thread that is between the step that sets it and the step
  that clears it (`Accounted`). That holds for any overlap of takeovers, since `thaw`
  clears all of them.
- `UpgradeIsSafe`: without those faults no successor gives up once released, and old
  stops only after its successor took the socket over (`ISmooth`); of what `Cost`
  lists only the panes that could not be adopted are left (`SmoothCost`).
- `ScreensAreComplete`: of the hosts that have a pane one keeps it (`Keeps`): the last
  that started it, whose own successor did not. Nobody else reads (`IKeeperReads`),
  the keeper's emulator has seen all that was read (`IScreen`), and so has the replay
  from the moment it is taken (`IReplay`). A successor that started its readers and
  then dies, or fails the rename, is the one case in which the keeper is gone and
  old, with the older screen, may be asked again: the attempt to prove the property
  for all faults ended in that behaviour, which section 4 lists.
- `UpgradeImplementsOwnership`: at most one host answers for a pane (`OneAnswer`). A
  `Spawn` is `Start`, a `KillPane` is `Drop`; `OldRelease` is `Transfer`, since all panes of
  old but those the successor failed to prepare are pending there (`IPend`), and it has
  none of its own; `NewStart` is `Fail` for what does not start; every other step leaves
  each owner as it is.

**Messages.** A message is stamped at most once (`StampInv`), so that `Before` is an
order and a batch is never empty: the first of what is pending is in it or is all of
it (`FirstOfStamped`, a least-element argument; `BatchGoesOn`). `DrainInv` says that what
was marked is about to be printed, printed or lost. With it every step leaves a
message somewhere (`AroundStays`), lost and gone included; what has not been handed over is
nowhere (`FreshInv`), and what was stamped never was on the input line or the queue
(`ApartInv`), so that each of the two ends befalls its own kind. That is
`NothingIsDropped`. What a Stop found pending keeps the turn from resting, and a report that
did not fail has written it (`MoreToCome`, `IdleInv`), which is `IdleIsSeen`.
`ReadsAreInOrder` adds that
input line, queue, inbox and what was read have no message in common (`LinesInv`,
`HandedInv`), and that nothing is drained before what was sent earlier (`OrderInv`). Its
assumption is needed: a file that cannot be marked is surfaced again
(inbox.rs:203 accepts that).

**Fleet restore.** `OneRestorerHolds` needs that the lease names whoever restores and
is not old (`LeaseInv`, where `~SlowRestore` is used); that a restorer relaunches only
within its run (`ActInRun`) is what the two theorems after it add. `LostStaysOnRecord`
follows what a reboot took (`LostInv`): its pane is down, the poller has it on a list
while its row says working (`Watched`), and every relaunch and plan that has it in
hand knows its row as it is (`RelaunchedAsIs`, `PlannedAsIs`), so that one that gives up
gives back what it found. `NothingForgotten` is about the running ones (`CalmInv`): the
poller's lists hold working rows, are apart, and the dead one has no pane
(`ListsApart`); a pane is of a working row or of a relaunch that is about to write it
(`PanesKnown`); a restorer relaunches what its plan holds and has not been begun, and
that still awaits a restore (`RelaunchDue`, `AheadDue`). The
attempt to prove it showed that an earlier form of the property held in TLC's
instance only because that had a single reboot: a second one between the write of a
Terminated row and its mark loses the session. `Unrecorded` states that exception
since. `BriefingIsKept`: an orchestrator that is owed a briefing is up, and the
recovery row is pending or the restore that brought it back has still to write it,
unless an error ended that restore (`Briefed`). `RequestsReachOrchestrator`
follows the requests (`RequestsInv`): who should have inserted a row, and is done
without one, has failed to; what was nudged was told; and a briefing's list has
every open request that its mark will tick off, but for a row that came too late.

**Poller.** `IInv` ties the tick's snapshot, which is written back whole, to the row: a
Done in either comes after the notice (`DoneAfterNotice`), neither moves to another
incarnation but by a relaunch (`OneIncarnation`), and what the sweep is about to
remove is there (`SnapHere`). While nobody interferes the merge notice is followed by
its stamp, or by the failure of it that is counted, and no snapshot taken before the
stamp outlives it (`StampFollows`); the
retirement notice is for a row whose merge was not handled (`RetireDue`) and is
followed by the removal or its counted failure (`RemovalFollows`). `NoticesAreRight` is a part of it; the two
action properties follow from it step by step.

**ptyd pane.** `Base` orders what was written, fed, shown and settled, and says how a
process ends. `ConnInv` adds of each raw client that its queue is a continuation of
its screen (`Taken`) and that the exit is announced after the reader's end (`Told`):
lemmas about sequences (`AppendWhole`, `SentWhole`, `StartedWhole`) carry it over
`ingest`, a send and a subscription. The proof did not need the exception for a pane in
a synchronized update that `StreamWhole` used to make, so it makes none any more.
`NothingIsStale` rests on `TaskInv`: a pane task that neither a poke nor a timer is
about to wake has left a settled screen, published it to whoever it saw, and its
last checkpoint, on disk, on the way there, or failed (`DiskInv`), is of that screen. The
delicate step is `Work` that decides on no timer (`WorkIs`): it may do so only when
nothing is dirty and the checkpoint is due no more.

**`ManifestBacked`.** The invariant adds that the manifest each process has in hand
names only objects in the bucket (`InHand`): it is a copy of the remote manifest,
gains an entry only after the upload (`UploadKeeps`), and no object is ever deleted.
The swap then puts into the bucket what is backed already. It holds for any number
of processes on a machine, with `Races` and `SameSecond`, and for every fault.
`PlanCovers` says that the merge leaves no path without an action, `EditsAreKept` and
`LookupSparesEdits` that no action of it drops an edit: the losses of section 4 are
those of acting on a plan late, not of the plan.

**`NothingIsLost`.** What is owed is followed through everything a call has in hand
(`LossInv`, where `Follows(owed, f, g)` says that what is owed of `f` is in `g` at the
same path). At rest, what a machine agreed on last is still current in the manifest and
in its files (`MachineInv`); so the merge never takes what is owed for deleted or for
edited elsewhere (`PlanInv`), and its plan downloads over and deletes nothing owed
(`DownInv`), and neither replaces nor drops an owed entry (`PushInv`). A call may save a
base only when its manifest is in the files (`ApplyInv`), a swap succeeds only with all
of the current manifest in hand (`CurrentInv`), and the name of a conflict copy is free
(`CopyInv`): all names in use are of seconds gone by. One lemma per action shows that
the step keeps this of its own call; `OthersGo` that no step of another call, and
`PersonLoses` that no edit, takes it away. A kill or a failed call at any point, a torn
state file and a lost answer are included. The three assumptions say what section 4
shows to be needed: one call at a time on each machine (`Alone`), a retry in another
second, no edit of a file that a running sync is about to replace.

`brain` checks both as `NothingDropped`, `handoff_upgrade` and `handoff_faults` the properties of
the theorems about the upgrade, `ops_all` and `ops_serial` those of the theorems about the commands, and
`completions` the properties of the theorems about it, on their instances.

**Only model-checked.** Liveness under fairness, and with it everything that
needs ENABLED (`WorkEnds`, `UpgradeSettles`, `Delivered`, `MergeSettles`, `Converges`), and
`Punctual`, which counts rows; `ClaimsProtectCheckout` of `WorkerOps`, which is about
commands that overlap: of one at a time, `SerialKeepsCheckout` says more.

## 6. What is not modelled

In the modelled components:

- worker store and commands: rows written by older versions (their leases are
  adopted by `AdoptLeases`, the rest of the backfill is left out), machine ids,
  legacy tmux session names, contents of standalone worktrees, what
  `remove_orchestrator` and keep-live detachment do to checkouts, the repetition of a
  finalization that failed;
- completions: the log of delivery attempts, which nothing reads back, and the
  authorization of `complete` and `receive-completion` beyond ownership;
- messages: wording, sender labels, quoting, agents other than Claude Code, whose
  sends use the keystrokes only; a tmux or ptyd call that fails, with which a send ends in
  an error; how stamps are made (wall-clock milliseconds, and of two files of one
  millisecond the one whose id is the smaller string, inbox.rs:47-62, 104): the model takes
  the order of the stamps for the order of the sends, which a clock set back, or two
  processes in one millisecond, may break;
- fleet restore: the cause of an interruption, anomalies but the missing
  orchestrator, wording, the helper that restarts the session it runs in; the kill of
  a pane whose runtime could not be registered is taken to work (spawn_util.rs:163-174); a
  snapshot and its time are one step, and the poller takes its requests one by
  one where the code nudges all, then renames all, then records all;
- poller: enrichment with CI and review state and the reactions to it, which send
  messages and change the live status only; standalone PR watches, brain harvest,
  update checks, the rate-limit pause; an error while `update_live_session_row` reads
  the row again (it then writes the snapshot back), and other writes of the ticks that
  fail: the tick has then not come;
- ptyd: the wire format, the batches of file descriptors and the size limit of
  replays, a spawn that fails (nothing is registered then), the 4 MiB writer queue towards the process, resizing, terminal emulation;
- brain sync: the remote's configuration and removal, the validation of paths and
  format, the TTL of lookups (they may come at any time).

Of the rest, the GitHub backoff and the binary update have logic worth a module
and are planned. What is left is mostly presentation (desktop GUI,
TUI, rendering: about a third of the code), parsing, HTTP, generated files and
installation, where the order of steps decides little. The mapped lines are a small
share of the code for that reason; `PROJECT.json` lists each part with the reason it
is left out.

## 7. Plan

Done: `PtydHandoff` over `PtydOwnership`, `WorkerStore`, `WorkerOps`,
`CompletionOutbox` over `CompletionHandoff`, `Mailbox`, `FleetRestore`,
`SessionPoller`, `PtydPane`, `BrainSync`.

In the order of importance:

1. `ClaimsProtectCheckout` as a theorem about commands that overlap.
2. `WorkerOps`, extended by the checkouts of `remove_orchestrator` and keep-live and
   by the retry of a finalization.
3. The GitHub backoff and the binary update, each a small module.

The set of runs is kept small enough to be repeated on every change: each module
has one run with all its questions, and counterexamples are listed in section 4.
