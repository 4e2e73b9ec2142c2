# Dive browser: TLA+ models

This directory models the parts of Dive whose correctness depends on the order in which
threads, tasks, callbacks and timers take their steps, checks them with TLC and proves the
central ones with TLAPS. `PROJECT.json` is the index: which definition stands for which lines,
which run checks which property, which mutation of the model breaks it.

Paths below are relative to the repository; `S/` is `apps/desktop/src-tauri/src/`.

## 1. The system

Dive is a desktop browser: a Rust core that embeds Chromium (CEF) under Tauri, with a React
chrome. Each tab is a CEF webview. Its DevTools protocol channel is bridged into a
`CdpSession`, and nearly everything the core does to a page (network rules, recording, the
agent, filling a credential) is a call or a subscription on that session.

Who runs at once:

* the **main thread**: every native callback, every closure of `on_main`, and the commands that
  open, show and close tabs;
* one **ingress worker** per session, which reads what the browser sends, in order;
* **tokio tasks**: feeds, the request-rule listeners and one task per paused request, the
  housekeeping sweep, the agent's loop, the MCP server's handlers;
* **export threads**, one worker per recording being encoded;
* the **browser**, the **page** and the **person**, whom nothing obliges to do anything.

They meet in a few shared tables under a mutex each, a few atomics beside them, bounded queues,
and the session's oneshot channels. The hazards are between a look and the step that relies on
it, and in what happens to a call when its session, its view, its tab or its document goes.

### Inventory

| component | source | state | operations | hard part |
|---|---|---|---|---|
| **Protocol session** | `crates/dive-cdp/src/session.rs` | pending table, id counter, closed flag, navigation epoch, event bus | call, incoming result or event, release of an unreadable pause, close | the flag is outside the table's mutex; answers, deadlines, cancellations and close race |
| **Ingress** | `crates/dive-cdp/src/queue.rs`, `S/engine.rs` `attach_cdp` | queue, byte budget, overload watch | admit, take, parse, overload, end | two budgets; every way of ending must be noticed by whoever waits |
| **Tab leases** | `crates/dive-mcp/src/lease.rs`, `server.rs`, `S/agent.rs` | leases by tab | claim, release, check an action | the gate and the tool resolve the tab separately; lapse and renewal |
| **Paused requests** | `S/rules.rs` | listener, permits, a task per request, the recovery flag | decide, answer, fall back, recover, reset | timeouts that come before the answer, navigation, a lagging bus |
| **Tab discard** | `S/housekeeping.rs`, `S/activity.rs` | activity entries with revisions, unanswered counts, the tab's row, native views and labels | pick, ask, request, receipt, finish | seven steps on three threads while the person uses the tab |
| **Export jobs** | `S/screen_export_jobs.rs`, `S/screen.rs`, `S/lib.rs` | registry, phase per job, `active`, `exit` | begin, append, claim, encode, publish, clean up, cancel, drain at Quit | admission and Quit meet in two atomics; partial failure of cleanup |
| **Quit and restart** | `S/quit.rs`, `S/lib.rs`, `S/updater.rs`, `S/screencast.rs` | confirmation, restart wish, recordings and their word on the exit, the exports' gate | ask, answer, save, give up, drain, leave | three guards hold one exit, each with a task that asks for it again |
| **Crash recovery** | `S/crash.rs`, `S/commands.rs` | budget and last crash per tab, owed reloads | report, fold, reload, defer, show | two reports of one crash around a reload |
| **Recovery marker** | `S/recovery.rs` | marker file, streak, what is held back | launch, settle, clean end, kill | the file is read, emptied and written in steps |
| **Database at launch** | `S/db_recovery.rs`, `crates/dive-core/src/store.rs` | the database file, its copies, what was set aside | copy, migrate, check, set aside, ask, restore | every step may fail or be killed, and the next launch acts on what it left |
| **History and scope** | `crates/dive-core/src/store.rs` | visit log, address table, cached profile | record, title, import, remove, prune, clear | one table derived from the other by eight operations |
| **Permissions** | `S/permission_requests.rs`, `permissions.rs` | native requests, page-lifetime answers, remembered ones | ask, receive, answer, revoke, replace a view | answers for a page that has gone |
| **Main-frame loading** | `S/loading.rs` | the document request that is followed | request, redirect, fail, lag | a failure of a superseded request; lost events |
| **Downloads** | `S/downloads.rs`, `S/engine.rs` | ids, cancellations, placeholders, the list | begin, progress, cancel, resume, end | an end names a path or an address, not a download |
| **Agent run** | `S/agent.rs`, `crates/dive-agent` | the round, its calls, the question asked, the stop | send, stream, ask, run a tool, stop | a stop at any await; an answer that comes late |
| **Agent presence** | `S/agent_presence.rs`, `S/mcp.rs` | actions in flight per tab, the light | begin, end, linger, forget | what follows an await of a dropped future |
| **Recorder** | `S/screencast.rs` | the tab's recording, its processes and frames | start, pause, stop, retry, discard | three parties stop one recording while its start waits |
| **Subtitles** | `S/subtitles.rs` | the tab's session, the tap in the page | start, stop, finish, clean up | a session stopped while it starts |
| Prompts owned by a page | `S/js_dialog.rs`, `http_auth.rs`, `cert_error.rs`, `https_only.rs` | one card per tab | raise, answer, drop | the page under the card changes |
| Feeds and worlds | `S/cdp_feed.rs`, `crates/dive-cdp/src/worlds.rs` | ring buffers; context ids | ingest, lag, reset | a reset that is lost with the lag |

The other components (`PROJECT.json` lists all of them with the reason) are sequential over one
lock or one transaction (preferences, backups, the rest of the store), pure functions over text (risk, guards,
rule matching), layout, measurement, or drawing.

## 2. Modules

| module | models | with |
|---|---|---|
| `CallPromise` | what a session promises its callers, without its tables | the abstract specification |
| `CdpSession` | the call half of a session | implements `CallPromise` |
| `TabLease` | the registry, the MCP gate, the agent's own lease | |
| `PausedRequests` | request rules over one session | |
| `TabDiscard` | putting a hidden tab to sleep | |
| `ExitGate` | what the exports promise a quit | an abstract specification |
| `ExportJobs` | exports, their cancellation, Quit's drain | implements `ExitGate` |
| `Quit` | every guard of an exit, the recordings, the tasks that ask again | composed with `ExitGate` |
| `Crash` | a renderer that dies, its two reports and its reload | |
| `Ingress` | from the engine's callback to the session | |
| `History` | visits, the table of addresses, the scope | |
| `Recovery` | the marker file over launches, crashes and kills | |
| `DbRecovery` | the database file, its copies and what a launch does with them | |
| `Permissions` | what the pages of a tab ask for and are told | |
| `Loading` | which failure a tab shows | |
| `Downloads` | names, placeholders and ends of downloads | |
| `AgentRun` | one run of Dive's agent, from its first wait to its end | |
| `Presence` | the light on a tab somebody drives | |
| `Recorder` | a tab's recordings until they are saved or thrown away | |
| `Subtitles` | a tab's subtitle sessions and the tap in its page | |
| `Session_proofs` | theorems about `CdpSession` and `Ingress` | TLAPS |
| `TabLease_proofs` | theorems about `TabLease` | TLAPS |
| `Pages_proofs` | theorems about `PausedRequests` and `TabDiscard` | TLAPS |
| `Files_proofs` | theorems about `ExportJobs` and `Downloads` | TLAPS |
| `Quit_proofs` | theorems about `Quit` | TLAPS |
| `Startup_proofs` | theorems about `DbRecovery` and `Recovery` | TLAPS |
| `Tasks_proofs` | theorems about `AgentRun` and `Crash` | TLAPS |
| `Parts_proofs` | theorems about `History`, `Permissions`, `Loading`, `Recorder`, `Subtitles` and `Presence` | TLAPS |
| `MC*` | the small instances TLC checks | |

The modules fit together at four seams. `Ingress` delivers messages in order and without a gap
or stops the session; this is what `CdpSession`'s worker and `PausedRequests`' `wire` assume.
`CdpSession` shows that an answer reaches the call it belongs to and that a close ends every
call; `PausedRequests` uses a session that way, so a call of a task is one place in that task.
`TabDiscard` closes sessions as a whole; what that does to calls under way is `CdpSession`'s
`SetClosed` and `ClearPending`. `ExportJobs`, with its jobs, workers, leases and cancels, is shown to
implement `ExitGate` (three variables), and `Quit` takes its steps from `ExitGate` (`Gate!Claim`,
`Gate!Drained`, ...), so that what is checked of a quit holds with the real exports behind it.

### CdpSession

A call goes `idle -> register -> insert -> send -> wait -> unwind -> done` through
`call_with_timeout`. Each region under the mutex of `pending` is a step. The one region that
reads the closed flag while it holds the lock is two steps (`RegisterCheck`, `RegisterInsert`),
because the flag is written without the lock: this is where the second look matters. `Unwind`
is `PendingGuard::drop`, which runs on every exit, cancellation included. `close` is
`SetClosed`, then `ClearPending`. A dropped sender is a channel that reads `dropped`. The worker
takes a reply, removes the sender under the lock (`Lookup`) and sends outside it (`Answer`), so
the caller may give up in between. `wire` is what the browser has been asked; it ignores an id
it is already answering, and the host runtime sends ids of its own on the same channel. The
epoch and the event bus of the session are `PausedRequests`'.

`FirstId` is the code's constant, ids are unbounded naturals (the code's `u64` from ten million
does not wrap in a session's life).

### TabLease

`now` is the registry's clock in units of its lifetimes; every operation drops lapsed leases
first (`Kept`), except `Release`, which compares names only, as the code does. An MCP call is
two steps, `Gate` and then the tool. **The tool resolves the tab again**; a call that names no
tab can find another active tab the second time. `Dive` is the agent: `Starts` claims for
`MAX_TTL`, `RunActs`/`RunActed` never ask the registry, `Finishes` releases what it claimed,
`Panics` does not. Opening, switching and closing by the person are separate actions.
`work` and `touched` are histories; no guard reads them.

### PausedRequests

`out` and `wire` are the two directions of the channel, first in, first out. `Carry` is the
browser taking a command: it obeys, answers that the request is gone, or refuses. `Incoming` is
the session's worker: a `loading` event raises the epoch, a pause is published on a bus that
forgets its oldest event when it is full (`lagged`), an answer moves the task that waits for
it. A timeout (`TaskTimeout`, `ListenerTimeout`) leaves the command where it is and renames it
so that its answer moves nobody: it may still be carried out, which is the race of an answer
with its fallback. The listener holds a decided pause until one of `MaxInFlight` permits is
free. `Close` ends every call, as `CdpSession` shows, and lets the browser's requests go. A rule
is its effect (`block`, `rewrite`, `continue`), chosen freely per request.

### TabDiscard

One tab with views numbered as they are opened. A sweep goes `look -> asked -> answered ->
request -> granted/refused -> receipt -> finish`, or `unconfirmed` when no receipt comes. The
registry's revision is not a number here: a change of the entry makes every sweep's ticket stale
(`TicketsLapse`), a change of the row makes every sweep's copy of it stale (`RowsLapse`); the
code compares for equality only, so nothing is lost. `main` says whose closure the main thread
is in, because the 400 ms of a sweep may run out while it is; then the closure ends `Unheard`.
`queue` is what the page said and the session's worker has not processed. A page hangs for
good, perhaps before it has loaded (`page.does = "load"`): then the engine calls the view loading and
every close is refused (`MayClose`). Sound, typing and downloads are one thing, a tool that holds the
entry; what else may protect a tab (a recording, a run, the inspector, developer tools, an exempt site)
is a refusal that may come at the look or at the close whenever it likes (`Look`, `RequestDiscard`,
named `Spares`); `showing` includes popouts and splits.

### Ingress

The callback looks at the closed flag (`Arrive`) and then admits (`Admit`); the host may close
the session in between, from other threads as well as before the callback ran. The worker's
`select!` is biased: it asks for an overload, then for a message, and an overload that comes
between the two waits a round (`NoOverload`, `Take`). `Ends` is the guard `CloseSessionOnDrop`
together with the queue being dropped, and stands in every way out, a panic too.

### ExportJobs and ExitGate

`begin` holds the registry's mutex through admission: look at `exit`, count the lease, look
again, insert. A job's phase is under its own mutex; `Cleanup` runs outside it, by the one who
moved the job to `running`. Quit (`QuitClaims`, `QuitCounts`, `DrainLists`, `DrainEnds`) uses
the same cancel as the chrome (`Cancel`). `MessageCloses` is the person closing the message box
that says Dive stays open; only then does `exit` allow another try. In `ExitGate` all exports are
one flag `busy`: one is on, or a lease is counted that may yet become one.

### Quit

`posted` counts requests to exit that the event loop has still to hand over. `Requested` is the
whole `ExitRequested` handler: `may_exit` (`LooksFirst` holds it and starts a look, `MayExit`
passes), the recordings (`SaveFirst` holds it and starts `save_for_exit`, `LetGo` passes), the
exports (`ExportsNext`). The claim of the exports' gate and its count (`ExportsCounted`) are two
steps of one handler; no other request is handled between them (`drain # "claimed"`).
Tasks that look, ask, list and poll are counted, not named, for they keep nothing but their
place; several may be at it, because a confirmation lapses and a recording that starts sets the
registry's word back to idle (`Begun`, a step after the insertion, as in the code). `rec` is a
recording: live, saving (`finishing`), failed (kept, with its error). `Exits` throws away what is
still there. `held`, `agreed` (what was open when the person answered the question about a recording
that could not be saved) and `lost` (what of it had failed) are histories. What is at stake, and whether a save succeeds, is
chosen freely.

### Crash

A death makes one or two reports. The engine's is handled where it comes, the watcher's after
400 ms; a reload (`BeginReload`) makes every report observed before it stale. `newest` remembers
the crash the last report was about, and stands for `seen` and its one-second window `SAME_EVENT`:
reports of one crash are within it, those of different crashes may or may not be (`New`, `Fold`).
The budget is `count` with `age`, the time since the last crash in halves of the quiet spell.
`deferred` is the view that is owed a reload. A recovery is `Decide`, then a backoff and
`ReloadNow`, or `Defer` and `LooksAgain`: the second look is for the person who shows the tab in
between. Each way it ends early is there: the view was replaced, or the DevTools session is closed
or was never got (`Returns`, `SessionCloses`), the notice is not delivered (`NoticeFails`), there is
no session when the reload is due (`ReloadThrough`), the reload itself fails (`ReloadFor`). `place`
tells the main window from a window of the tab's own. `charged`, `reloaded`, `spell`, `silence`,
`ended`, `promised` and `letgo` are histories; `promised` is a dead page whose crash was granted a
reload, `letgo` one whose notice or reload then failed.

### History

`log` is the visits, `urls` the table of addresses, both per profile. Time is in minutes, the
span in which a repeated visit is one. Each operation is one transaction, so one step; what is
hard is that eight of them must leave the table as if it were counted anew from the log.
`Recount` is the loop of `prune_history` and `clear_history_since` over what was taken. A row
whose count is 0 is no row. `pruned` is a history: names that retention took from the log and a
row keeps.

### Recovery

`marker` is the file: absent, emptied, or a number. A write is two steps, since it empties the
file first, and the process may be killed between any two (`Killed`). `EndsRun` removes the file
and leaves tasks running until `Exits`: `settle` may still be between its look and its write.
`owed` and `cut` are histories.

### DbRecovery

A file is its schema version, whether the person's data is in it, and its state: whole, damaged
where the first query may or may not look (`DeepDamage`), or cut off, which the first query meets.
A launch goes `begin -> copy -> older -> open -> migrate -> up`, with `damaged -> moved -> ask ->
restore` and another round behind the first four. `backup_before_migrating` is `SkipsCopy` or
`StartsCopy`, whose file exists, empty, before it is filled (`Copying`, `Copied`, `CopyFails`), and
`RemovesOlder` as far as it gets. `Passes` and `FailsCheck` are the quick check and the seeds.
`quarantine` renames the database first (`SetsAside`) and then what lies beside it. `Restored` and
`RestoreFails` end a copy to the database's own path. `Launches` may be of any build, older or
newer. `unclean` is what `Recovery`'s marker says. `without` is a history, `unsaid` one of a single
launch: it set the file aside and has no answer to go on by.

### Permissions

A request goes from `sent` (a task on the way to the registry) to `asked` (on screen). `label` is
the view the host has, `bridged` the views there are, `session` the registry's one. `Navigating`
is `on_before_browse`: what the frame asked for and was told ends. `Received` and `Answers` run
under the host's lock and compare the view and the profile. One origin, one tab. `said` is a
history of the person's words to the page that is shown, kept from the person's side.

### Loading

`news` is the listener's channel, which drops its oldest event when it is full. `Requests`,
`Redirects`, `Finishes` and `Commits` are what Chromium reports: a redirect keeps the request's
id, a later request of the main frame supersedes the one before, which is not redirected any
more. The listener follows at most one request. `failures` is a history.

### Downloads

`items` is the engine's list by id. `Requested` makes the empty file that holds the name.
`Finished` is the engine's last update: progress first, then the end with path and address only.
An interruption is an end, too, after which the engine may be told to resume. `Removes` is the
task that deletes an empty file. `seen` is what the list says.

### AgentRun

`run` is the place of the loop in `agent_send`, `drive`, `start_stream` and `run_calls`. `rows` are
the calls the chrome was told of, `next` the one dealt with; a row's `answers` counts its
`ToolDone`s. `Halts` is the `halted` arm of every `select!` before the calls, `Hears` and
`ToolHalts` those within them; a `select!` polls its arms in no order, so a stop and what it races
may each win, and the tool may begin once more after it (`late`). `asking` is the sender in the
approval table, which `Approve` takes out: an answer that comes after the question is gone finds
none. `listening` is the chrome's end of the channel. The provider and the tools are free: a reply
announces any number of calls, ends in any of its ways, or never.

### Presence

`Begin` and `End` are the registry's two operations around the await of `tracked`; `Dropped` is a
stop in the middle, after which the code behind the await never runs. `lingers` are the sleeping
tasks, by the generation each was started in. `lit` changes under the registry's lock; what the
chrome and the page are told of it (`Light`) is sent after the lock is released, by whoever changed it,
and the glow is painted by a task of its own, so `Announced` takes any of what is under way. `glows` is
what arrived last; `crossed` (one overtook an older) and `closed` are histories.

### Recorder

`recording` is the registry's entry for the tab, `rec` each recording ever made: the flags of
`Recording`, its capture process, whether frames or stretches are `kept`, and its directory. A
start goes `begins`, `settles` (the wait for a process that is refused access dies in), `asks`,
`pictured` or `blank`, `over`; a refused one gives up at the place where it finds itself stopped.
Two parties may be stopping, each through `StopLooks`, `StopBegins`, `Encodes`, `Encoded` and
`SaveEnds`; `tossing` are the discards still in the blocking pool. `Drops` is the last `Arc`.

### Subtitles

A session goes `load`, `install`, `installed`, `work`, `over`. `entry` is the registry's session,
`TakeOut` sets its flag and starts its clean-up, which may fail (`PageCleaned`). `TapUnheard` is a
page that did as it was told and whose answer is lost. `unwanted`, `unheard` and `uncleaned` are
histories.

## 3. Runs

Every run's properties have a mutant in `PROJECT.json`: one mapped definition changed the way a
plausible bug would change it, under which TLC finds the property violated.

| run | bounds | shows |
|---|---|---|
| `waits`: `CdpSession` | 2 calls, 1 closer, 1 unreadable pause, 1 foreign id | `OwnAnswer`, `TableExact`, `NoStrandedWaiter`; `ImplementsPromise` with its liveness |
| `waits`: `Ingress` | 5 messages of 2 sizes, 2 slots, 3 bytes | `BudgetKept`, `InOrder`, `OverloadReported` |
| `waits`: `ExportJobs` | 2 jobs, 1 failure | `ExitClean`, `CancelHonest`, `JobSettles`; `ImplementsGate` with its liveness |
| `waits`: `AgentRun` | 4 calls, 3 steps allowed, 2 attempts | `ToolsAllowed`, `RowsAnswered`, `StopEnds` |
| `guards`: `TabLease` | 2 clients, 1 agent run, 1 tab, clock to 4, lifetimes 0, 1 and too long | `NeverShutOut`, `OneDriver`, `AbandonedLapses`, `NamedRefused`, `HolderKeeps` |
| `tab_lease_resolve` | 2 clients, 2 tabs, clock to 2 | violation, finding 1 |
| `guards`: `PausedRequests` | 2 requests, 2 documents, 2 permits, bus of 1, 2 refusals | `Protected` |
| `paused_requests_live` | 1 permit, no refusals | `NoOrphan`, `Unstuck`, `StaysOn` |
| `tab_discard` | 2 sweeps, 1 tool, 2 views, 2 unanswered questions force | `ViewIsLive`, `GentleClose`, `HungSleeps` |
| `quit` | 1 tab recorded twice, 1 look at a time, 1 request posted by the person at a time | `RecordingsHeld`, `QuitComes`, `InsistenceWins` |
| `quit_lost` | the same | violation, finding 6 |
| `crash_torn_off` | 3 crashes, 2 views, budget of 1 | violation, finding 2 |
| `parts`: `History` | 2 profiles, 1 address, 2 names, 3 minutes, 3 visits at a time | `HistoryExact` |
| `parts`: `Recovery` | 4 crashes in a row | `CountsCrashes` |
| `parts`: `DbRecovery` | 2 builds, damage anywhere, any number of launches | `DataKept` |
| `parts`: `Permissions` | 2 requests, 2 frames, 2 kinds, 2 profiles, 2 views, 1 change of settings | `GrantJustified` |
| `parts`: `Loading` | 3 document requests, 2 addresses, 1 commit, channel of 2 | `ErrorHonest` |
| `parts`: `Downloads` | 2 downloads from 2 addresses | `OwnOutcome` |
| `parts`: `Recorder` | a window's recording and then a page's, 2 parties that stop | `FramesKept` |
| `parts`: `Subtitles` | 3 sessions | `TapAccounted` |
| `parts`: `Presence` | the agent and a client, 4 actions | `LitWhileDriven` |
| `parts`: `Crash` | budget of 1; 3 crashes of one view, or 2 over two views (`CrashBound`) | `Budget`, `Answered` |
| `download_names` | 2 downloads from 1 address | violation, finding 3 |
| `presence_light` | the agent and a client, 4 actions | violation, finding 4 |
| `database_copy` | 2 builds, damage the first query meets | violation, finding 5 |

A property is a conjunction of named parts where they belong together: `BudgetKept` has
`EndsClosed` in it, `RecordingsHeld` `GateKept`, `ExitClean` `LeasesCounted`, `CancelHonest` `OneCleaner`, `ViewIsLive` `Asleep`,
`Protected` `OneRecovery`, `Budget` `NotOwedInMain`, `TapAccounted` `EntryExact`, and the first
invariant of each module its type invariant.

The largest instances, `guards` and `parts`, have 4.9 (up to the symmetry of requests and clients)
and 2.8 million distinct states, `tab_discard` 1.0, `quit` 0.6, `waits`
0.4 million. No run has a state constraint; `CrashBound` in `MCParts` is a conjunct of a step that
keeps three crashes and two views from coming together. The runs with liveness use no symmetry.
`MCGuards` puts two, `MCWaits` puts four components, `MCParts` ten that share nothing beside one
another: a behaviour picks one of them at the start and the others stay where they are, so that the
states are the sum of theirs and every component is explored as if alone. Liveness is in `MCWaits`:
what is fair of a component is not enabled before it has begun.
**Why the bounds are enough.** Every race of `CdpSession` is between one call and one other
party, or between two calls over one id; a second closer finds the flag set and the table
empty, and the proofs hold for any number. `TabLease` needs two clients and the agent to
compete, and a clock that lets a lease lapse, be taken and lapse again; its safety is proved for
any. In `PausedRequests` two requests fill the bus, the permits of the live run and the recovery
flag, and two documents are a late answer's old and new one. In `TabDiscard` two views are a
closed one and the one reopened behind it; two sweeps are all the code can have at once beyond
repetition, and the limit of unanswered questions is 2 instead of 3, so that one is too few and
two are enough. Two jobs let one be admitted while the other is drained. In `Quit` the second
recording of one tab is where a word given for the first would do harm, and each guard can be
passed, held and passed again. In `Crash` a budget of one is exhausted by the second crash and
whole again for the third; a second view needs no third crash, for what comes late is of the first. Either budget of the ingress binds first, depending on the
sizes. An agent's round of two calls may be followed by one that is over the limit or by none, and
one attempt fails where another is left. In `parts` of three visits one is in the middle; a streak of four is past the two that change a
launch; one request is pending while another is answered; three document requests are one of a
child frame and two of the main frame, and a channel of two lags on the third event; two downloads
are enough to be taken for one another; a second recording is the one that the late end of a first
might take out, and a third subtitle session may start while the thread of one and the clean-up of
another have yet to end; of four actions two overlap and two follow with lingers about.
In `DbRecovery` two builds are one that
migrates and one that does not; three rounds are the code's.
`FramesKept` speaks of recordings whose start came through.

Deadlock is not checked where the instance ends by itself (every call made, every message
sent, the clock at its horizon, the program gone); "nobody is left waiting" is a property there
(`NoStrandedWaiter`, `Unstuck`, `ImplementsGate`, `JobSettles`, `QuitComes`, `StopEnds`).

**What stays open in the properties.** `NoOrphan`, `Unstuck` and `StaysOn` are checked with a
browser that refuses nothing. When it refuses `Fetch.disable`, the lost requests stay paused;
when it refuses `Fetch.enable`, interception stays off: the code tries each once and logs
(`S/rules.rs:494`). `Protected` speaks of answers: a reset lets every paused request go, the
blocked ones too, for the lag has lost which they were. `OneDriver` speaks of clients: the agent
runs on when its claim was refused and after its lease lapsed (`S/agent.rs:833`). A worker that panics before it
can report an overload reports none (`OverloadReported`). `NamedRefused` is checked with one tab,
which is closed and opened under the call, and proved for any. `QuitComes` assumes that looks and
saves end; `InsistenceWins` does not, and has the person quit again instead. `Budget` speaks of a
kill or an eviction the engine reports within the 400 ms of grace. `OwnOutcome` speaks of
downloads that never had to share a name (finding 3). `HungSleeps` speaks of a page that hangs once it
has loaded, and of a tab that sweeps stop finding protected or coming too late for. `RecordingsHeld`
lets past a recording that was open when the person gave up another (finding 6) and one whose start has
yet to reset the registry's word. `Answered` excepts a page whose DevTools session is gone, whose notice
was not delivered or whose reload was refused: the code gives such a page up. `CountsCrashes` allows one
run too many, for a marker that settling put back after a clean end, and any number too few after a
marker that was cut off. `DataKept` speaks of the launch that set the database aside; what a later one
does that finds none is not claimed. `TapAccounted` excepts a tap whose clean-up failed and one whose
answer was lost after its clean-up. `LitWhileDriven` says of the registry that a driven tab is lit, and
of the chrome and the page only when no announcement overtook another. Where the code or a comment
promises what these leave out, section 5 says so.

### Fairness

* `CdpSession`: a call made takes its next step, the worker finishes the message it holds, a
  closer that set the flag clears the table. The browser, deadlines, callers and pages owe
  nothing: `ImplementsPromise` shows that a close alone ends every call.
* `PausedRequests`: the browser carries commands out, the worker delivers, the listener and the
  tasks run. Timeouts, navigations and closes may never come.
* `TabDiscard`: the periodic sweep comes round, each sweep moves on because each of its waits
  has a timer, and the worker and the main thread run. The main thread may miss a sweep's 400 ms
  any number of times, but a sweep that asks again and again is answered in time infinitely
  often (`SF_vars(RequestDiscard(s))`). The page and the person owe nothing.
* `Ingress`: the runtime runs the worker, and the callback returns. The parts of `MCParts`
  promise nothing that needs fairness.
* `AgentRun`: what the run does of itself goes on (`Own`), and once it is stopped the arm that
  hears it is taken (`Hurry`): `halted` is ready for good, and a `select!` that polls in random
  order takes it. Nothing is assumed of the provider, a tool, a page or the person.
* `Quit`: the event loop hands requests over, tasks that wait for nothing run, and a drain has a
  deadline of 15 s. Looks, saves and answers are left to the properties' own hypotheses.
* `ExportJobs`: threads run, a child ends at its deadline at the latest, a cancel's wait runs
  out. Uploads, cancels from the chrome, quits and the closing of the message owe nothing.
* `TabLease` and `Crash` have no fairness: all their properties are safety.

### Findings

1. **A call without `tab_id` is checked for one tab and acts in another**
   (`tab_lease_resolve`). `dispatch` checks the lease of the tab `resolve` finds, and the tool
   resolves again. `crates/dive-mcp/src/lease.rs:10` says an action from anyone else is refused.
   Calls that name their tab are safe (`NamedRefused`, checked and proved).
2. **A tab that crashed in the background is not reloaded when it is torn off**
   (`crash_torn_off`). The reload it is owed is made when the tab is activated or shown in a split
   (`S/commands.rs:2483`, `:5127`); `detach_tab` (`S/commands.rs:5148`) shows it in a window of its own and asks for
   nothing. `S/crash.rs:103` says it reloads when it is next shown.
3. **An interrupted download gives its name away** (`download_names`). The interruption is reported
   as an end, which deletes the empty file that holds the name (`S/engine.rs:311`); the next
   download of that name takes it, and when the first is resumed both go to one file, which
   `S/engine.rs:233` says the function exists to prevent.
4. **The light of a stopped run stays on** (`presence_light`). A stop drops the tool's future at
   the await of `tracked` (`S/mcp.rs:641`), so that `end` never follows `begin`: the tab's count is
   never 0 again and the tab looks driven until its view is closed. `S/agent_presence.rs:28` says
   a finished run stops looking live; `S/agent.rs:1294` that nothing the call holds outlives the
   await.
5. **A launch may copy an empty file over the last good copy** (`database_copy`).
   `backup_before_migrating` copies whatever lies at the database's path to `dive.db.before-v<N>` if
   its version is low, and an empty file has version 0. A restore whose copy fails at the first
   write leaves such a file (where `fs::copy` makes the file before it fills it), and so does the
   first start after Quit, or one cut short, whose migrations fail; the next launch empties the copy
   the person was to go back to. The dialog of that failure says "Nothing has been deleted"
   (`S/db_recovery.rs:227`). A full disk is enough for either, with no kill. The damaged file itself
   is still aside (`DataKept`).
6. **Giving up one recording gives up another** (`quit_lost`). While the person is asked about a
   recording that could not be saved, another one starts. Quit Anyway sets the registry's word on the
   exit to released (`S/screencast.rs:1216`), the request that follows passes, and the new recording, for
   which no exit was held and of which the question said nothing, is thrown away. `S/screencast.rs:1140`
   says the first request with recordings open holds the exit while they are saved.

Met while reading, with no sentence of the repository that they contradict:
a second recovery is dropped while one runs, although the stop of the first may already be over
(`RecoverClaim`); after a drain that failed, exports are refused until a quit goes through,
though the message says Dive is still open (`BeginEnters` needs `exit = 0`); `Leases::forget` has no caller; the overload report
is not gated on the view being current as the report of a failed creation is (`Report`).

## 4. Proofs

Every safety invariant and every safety action property that a passing run checks is stated by a
theorem, for every value of the constants that the modules' named assumptions admit. Each rests on
an inductive invariant, named `...Inductive` (`IInv` in `CdpSession` and `TabLease`), and on one
lemma or step per action. Most are about a module's `Safety` (`ExportSafety`, `PausedSafety`, ...),
which is `Init` and `Next` without the fairness of `Spec`.

**Session_proofs, `CdpSession`**, for any sets of calls, closers, unreadable pauses and foreign ids below
`FirstId` (`IdsAssumption`, which also keeps the names of calls apart from the outcomes):

* `Invariance`: `Safety => []IInv`, one lemma per conjunct of the invariant, one step per action.
  The properties are not inductive alone. An answer is the call's own because ids are never
  shared (`IdsInv`), because every message on the wire, and the one the worker holds, carries
  the id of the party it names (`MessagesInv`), and because the table holds a call's sender under
  its own id (`NoLeak`). The table stays empty after a close because a call that inserts holds
  the lock it took while the flag was clear (`LockInv`), and a close that has cleared the table
  had that lock (`CloseInv`). Nobody is stranded because an open channel's sender is in the
  table or in the worker's hands (`ChannelsInv`).
* `TypeCorrect`, `AnswersCorrect` (`OwnAnswer`, `ClosedMeansClosed`), `TableCorrect` (`TableExact`,
  which is `TypeOK`, `NoLeak`, `NothingLost` and `DrainedStaysEmpty`), `WaitersCorrect`
  (`NoStrandedWaiter`) follow.
* `Refinement`: `Safety => Promise!Safety`. A step that changes no `result` and does not begin a
  call stutters (`Invisible`); one that leaves settles its call with an allowed outcome
  (`Leaving`, which needs `ChannelsInv` for the answer and `ClosedMeansClosed` for "Closed").

**TabLease_proofs**, for any tabs, clients, runs, lifetimes with `DefaultTtl <= MaxTtl`
(`TtlAssumption`) and distinct names (`NameAssumption`):

* `Invariance`: `Spec => []IInv`. `NeverShutOut` needs that the lease outlasts the work
  (`WorkHolds`: a renewal never shortens); `AbandonedLapses` that it never outlasts the last
  touch by more than `MAX_TTL` (`TouchBounds`: a renewal is at most the later of two bounded
  times); `NamedRefused` that a call once let through for a tab finds it free, its own, or
  touched since (`NamedClear`).
* `TypeCorrect`, `WorkCorrect`, `LapseCorrect`, and the action properties `DriverCorrect`
  (`OneDriver`) and `NamedCorrect` (`NamedRefused`).
* `HolderCorrect` (`HolderKeeps`): no claim, renewal or sweep of the lapsed disturbs a live lease
  (`Undisturbed`), and a release changes only the tab of the one who asks. It rests on one more
  invariant, `FreeIsFree`, proved with it: a lease nobody holds is never live.

**Session_proofs, `Ingress`**, for any budgets above zero, any message sizes above zero and any
number of messages (`IngressAssumption`): `IngressInvariance`, `BudgetIsExact` (`BudgetKept`),
`OrderIsKept` (`InOrder`).

* The order is not inductive as stated, for it compares what was handled with what arrived and says
  nothing of what lies between. `OrderIs` does: what arrived is what the session was given, followed,
  as long as it is open, by what is on its way (the message being parsed, the queue, the one in the
  callback's hands). `BudgetIs` accounts for the bytes in the same places.
* `Weight` and `Readable` are recursive functions over a queue. That they respect concatenation is
  induction over data, which is done without an induction theorem: of the lengths at which two
  functions differ there would be a least one (`LeastNumber`), and there is none (`AgreeThroughout`).

**Pages_proofs, `PausedRequests`**, for any requests, documents, permits, bus and number of refusals
(`PausedAssumption`): `BlocksAreKept` (`Protected`) and, with `MaxErrors = 0`, `NobodyIsLost`
(`NoOrphan`).

* A pause is in one place only, the wire, the bus, the listener's hand or a task (`PausesOnce`), so a
  request is not ruled on twice; no command under way lets a blocked request through (`BlocksHeld`);
  the recovery flag is set exactly while one task recovers (`RecoveryCounted`). The session's epoch
  is behind the document by the navigations it has not read of at most (`EpochBehind`), and tasks
  never outnumber the permits (`PermitsKept`).
* `NoOrphan` needs that a paused request is with somebody (`FoundInductive`). The assumption that the
  browser refuses nothing is essential and not one of the proof's: after a refused `Fetch.disable` a
  lost request stays paused, as section 3 says.

**Pages_proofs, `TabDiscard`**, for any sweeps and views and any finite set of tools
(`BoundsAssumption`): `DiscardInvariance`, `ViewsAreLive` (`ViewIsLive`), `ClosesAreGentle`
(`GentleClose`).

* What the registry's entry holds is the number of tools that work on its view (`EntryInv`), and word
  of a change follows every answer in the queue that no longer holds (`QueueInv`). Then a sweep that
  holds a current ticket and an idle answer has a page that is still idle, or word on its way
  (`FoundIdle`), and one that told a view to close is not about the view the tab has now
  (`NotItsView`), which is why a late receipt harms nobody.

**Files_proofs, `ExportJobs`**, for any finite set of jobs and any number of failures
(`ExportAssumption`): `ExportInvariance`, `ExitIsClean` (`ExitClean`), `CancelIsHonest`
(`CancelHonest`) and `GateRefined`, the safety part of `ImplementsGate`.

* A job's lease goes last, and stays only with the error that kept it (`LeaseInv`); `active` counts
  the leases and the one to come of an attempt past its count (`CountInv`); so a quit that counts
  none and has the gate claimed finds nobody who could still begin (`GateInv`). A job that runs is in
  the hands of its worker or of one canceller, never of two (`PhaseInv`), and who was told of an end
  was told of the last one (`ToldInv`).

**Files_proofs, `Downloads`**, for any addresses and any number of downloads: `OutcomesAreOwn`
(`OwnOutcome`). An end names an address and a path. That it is taken for no other download rests on
every taken name being some download's (`NamesTaken`) and on progress tracking the download's own
path (`TrackedIs`); `OutcomeIs` says it of the downloads that share their name with none, the others
being finding 3.

**Quit_proofs**, for any tabs and bounds above zero (`BoundsAssumption`): `QuitInvariance` and
`NothingLetPast` (`RecordingsHeld` with `GateKept`). A recording is passed only if an exit was held for
it, if it was open when the person gave up one that had failed, or if it is still starting (`HeldInv`); the gate's part is `GateInv`. That there are
never more requests to exit than the model's type allows is proved by counting who may still ask for
one: looks, saves and a drain (`LookInv`, `SaveInv`, `PostInv`).

**Startup_proofs**: `DbInvariance` and `DataIsKept` (`DataKept`), for any number of schemas
(`DbAssumption`), by what there must be at each place of a launch (`DbPlaces`): once the database has
been moved the person's data is aside, before that it is in place or there is a reason why not.
`RecoveryInvariance` and `CrashesAreCounted` (`CountsCrashes`), for any `MaxStreak`
(`RecoveryAssumption`), by what the file holds at each place of a run (`MarkerPlaces`) and what the
next launch will make of it (`FileCounts`, `RunCounts`).

**Tasks_proofs**:

* `AgentRun`, for any numbers of attempts, steps and calls (`AgentAssumption`): `ToolsAreAllowed`
  (`ToolsAllowed`) and `RowsAreAnswered` (`RowsAnswered`). The calls before the one whose turn it is
  have one answer each, those after it none, until the run ends and has answered all it announced
  (`AnsweredInv`); a question, its answer and a launch are all about the call whose turn it is
  (`TurnInv`, `AskedInv`), so an allow that comes late is nobody else's.
* `Crash`, for any numbers of crashes, views and reloads above zero (`CrashAssumption`):
  `CrashInvariance`, `BudgetIsKept` (`Budget`) and `PromisesAreKept` (`Answered`). Two reports of one crash are told apart by time
  alone. `NativeFirst`, `Unheard` and `HeardOnce` say which of them may still count; `ChargedOnce`
  that a crash has one task or one owed reload or has been reloaded; `StoppedStays` that of an ended
  renderer nothing is left but the decision; `Paced` that the registry's clock agrees with the page's. A promise is kept, given the invariant, step by
  step (`PromiseStep`): a recovery that goes on stays one that reloads, and each that ends leaves the
  reload owed, made, or refused for one of the reasons `Answered` names.

**Parts_proofs**:

* `History` (`HistoryAssumption`): `HistoryIsExact`. A row is the recount of its visits at every
  moment (`RowIs`), with one visit per address and minute (`LogInv`), so what an operation takes
  away from the table is what it takes from the log.
* `Permissions` (`PermissionsAssumption`): `GrantsAreJustified`. What the session of the tab's view
  has of a page is what the person said to it (`SessionInv`).
* `Loading` (`LoadingAssumption`): `FailuresAreHonest`. The events on their way tell of failures that
  happened (`HonestNews`), and a listener that has not lagged follows the request they follow on from
  (`HonestFollow`).
* `Recorder`, for any sequence of recordings (`RecorderAssumption`): `FramesAreKept`. A recording is
  registered until it is stopped, and one that started until it is settled (`RecordedInv`); who stops
  one has stopped that one (`StopInv`).
* `Subtitles` (`SessionsAssumption`): `TapIsAccounted`. A tap is the entry's, an installing
  session's, about to be cleaned up, or one whose clean-up failed or came before the lost answer
  (`TapHeld`).
* `Presence` (`AgentAssumption`, `ActsAssumption`): `DrivenIsLit`. The entry counts at least those who
  act, unless the view went under them (`DrivenInv`); what was announced last is how the light is, and
  is what arrives last if nothing overtakes (`LooksInv`); changes of presence are begins and ends of
  actions (`BegunInv`).

The assumptions say that bounds of the model are numbers, that names are distinct and that sets which
are counted are finite. None restricts what the code may be given, except that `DefaultTtl <= MaxTtl`
and that foreign ids lie below `FirstId`, which are so in the code, and `MaxErrors = 0` where it is
stated.

**Only model-checked**: all liveness (`ImplementsPromise`'s and `ImplementsGate`'s fair parts,
`Unstuck`, `StaysOn`, `HungSleeps`, `OverloadReported`, `JobSettles`, `QuitComes`, `InsistenceWins`,
`StopEnds`), which is out of the prover's reach, and the violations of section 3, which are
counterexamples.

## 5. Divergences, and what is not modelled

**Met while reading; no run reports them.** Each contradicts the sentence named. Where a module is
named the behaviour is one of it, and the property that comes near names it as an exception in the
comment above it.

* A recovery's `Page.stopLoading` can hit the next document (`PausedRequests`, `RecoverClaim` and
  then `Navigate` before `Carry`): the epoch is compared before the call is sent
  (`S/rules.rs:615`), while `S/rules.rs:568` says it must not stop the new document's load.
* The count of unanswered questions survives the view it was about (`TabDiscard`): a forced close
  that is overtaken by the person, answered late or never confirmed leaves the count at its limit
  (`S/housekeeping.rs:442`), and the reopened view is closed after a single slow answer, against
  `S/housekeeping.rs:31` and `:92`. A close that is answered after the sweep's 400 ms also leaves
  the view's label with the window manager.
* A hidden page that hangs while it loads is refused by every close (`S/housekeeping.rs:526`,
  `MayClose`), forced or not, and so kept alive, hung, for good, which `S/housekeeping.rs:31` to `:34`
  says is over. `HungSleeps` excepts it.
* A run of the agent that unwinds does not release its lease, for the release is a statement after the
  loop and not a guard (`TabLease`, `Panics`); the tab is refused to others until `MAX_TTL`. `S/agent.rs:807`
  says "a run that panics still releases on the way out".
* What the chrome and the page are told of a tab's light is sent outside the lock (`S/agent_presence.rs:71`,
  `:109`) and painted by tasks of their own (`:136`): a darkening's word may come after that of the next
  action, and a driven tab looks dark, against `S/agent_presence.rs:47`, "Whether the chrome and the page
  currently believe it is driven" (`Presence`, `Announced`). `LitWhileDriven` excepts announcements that
  crossed.
* The wish to restart after an update survives a drain that failed and a Stay for a recording
  (`Quit`: only `Cancels` clears it), so that a later quit restarts, against `S/quit.rs:210`.
* A Cancel that answers the question of an earlier quit, while a later one already saves, leaves
  the saves going and the exit coming (`Quit`, `Cancels`), against `S/lib.rs:563`.
* After a drain that is done the gate stays shut (`exit = 3`), also if the exit does not happen.
* `settle` looks for the marker and then writes it: a clean end in between finds its marker again
  at the next launch, which counts one run too many (`Recovery`, `EndsRun` between
  `SettleLooks` and `SettleEmpties`), against `S/recovery.rs:152`, "a quit that already removed it must
  not bring it back". `CountsCrashes` allows that one.
* Quit at the question about a damaged database has already had the database moved aside: the next
  launch makes a new one and never asks again, nor offers the copy (`DbRecovery`, `ChoosesQuit`),
  against `S/db_recovery.rs:142`, "with the person's say"; the same after a kill while the question is
  on screen. `DataKept` claims nothing of that later launch.
* A copy that is cut off by a kill, or whose removal fails, is offered for a restore later
  (`DbRecovery`, `Copying`, `Offered`), against `crates/dive-core/src/store.rs:329`. Damage that the
  first query does not meet is copied over good copies, since the quick check comes after the copy.
* Of two requests that were pending together, an allow for this page outlives a later remembered
  deny (`Permissions`); and an answer given between `on_before_browse` and the commit speaks for
  the next document, while the chrome says "Until this page navigates or closes".
* A lagging listener can lose a commit, and then the card of the old document stays, against
  `S/loading.rs:158`; one that is late drops the card of a challenge of the new page, whose request
  stays paused, against `S/http_auth.rs:15`.
* A download's row in the Library is settled by a task of its own, which may run before the row is
  written or after the profile has changed: then one download is two rows, against
  `crates/dive-core/src/store.rs:2628`. Removing a profile leaves its `downloads` rows.
* Ids of calls are taken to be unique in a run (`AgentRun`). `S/agent.rs:157` says they are unique
  within one reply only, and a server that sends none has its calls numbered from `call_0` in
  every reply (`crates/dive-agent/src/openai.rs:485`): the row of a later round then has the key of
  an earlier one.
* A resume that passed `done` before a stop may start a capture after `encode` has ended the
  stretches (`Recorder`, `Pauses`, then `Encodes`, then `PauseActs`); it runs to its budget or to
  the recording's last owner, against `S/screencast.rs:431`.
* A discard between a stop's look and its claim of the recording throws away what is then being
  saved (`Recorder`, `StopLooks`, `Discards`, `StopBegins`), against `S/screencast.rs:991`;
  `FramesKept` counts it as thrown away by the person.
* A tap whose answer was lost after a stop has cleaned up stays in the page (`Subtitles`, `unheard`),
  and so does one whose clean-up fails (`uncleaned`), as on a DevTools session that was closed for
  flooding Dive while the page lives on: nobody tries again (`S/subtitles.rs:839`).
* A page whose renderer crashed stays dead if its DevTools session is closed or missing, or the notice
  of the reload is not delivered (`Crash`, `Returns`, `NoticeFails`); the chrome is told nothing
  then, against `S/crash.rs:3` to `:5`, "nothing says why.
  Reloading is almost always the right move, so Dive does it". `Answered` excepts these.
* A download of a subtitle model that is asked for again clears the cancellation of the one that
  still runs, which then goes on (`S/subtitles.rs:271`).
* A download cancelled by the person whose interruption is reported first says "failed" at its
  second end.

**Not modelled within the modelled parts**: which rule matches a request, sign-in cards
(`http_auth`), scroll restore and the choice of candidates by tier, offsets and size limits of an
upload, the sweep of stale export directories, the limits of 16 and 80 jobs (a refusal is a
refusal), events other than pauses and navigations. Every job has one child at a time. A party of
`Cancellers` cancels one job at a time. Of crashes: pages that hang and the chrome's own renderer.
Of history: search, suggestions and favicons. Of permissions: other origins, which are separate
keys of the same tables. Of downloads: pausing, the 50 entries kept of each list. Of the marker:
errors of the disk. Of an update: its download and installation.
Of the agent: what is said, the conversations kept, which tools are risky. Of a recording: pacing,
the pointer's track and the encoder. Of subtitles: what is heard and written, and the models.

**Not modelled at all**: feeds and ring buffers, isolated worlds and the page's
prompts. Feeds are for display; a stale panel decides nothing. `worlds.rs` is written by the
session's own worker in the order of the events and cannot lag.
A prompt is one entry per tab that a commit, a close or an answer removes. The larger part of the
repository by lines (the MCP tools, the agent's tools, prompts and providers' streams, preferences, import,
inspection panels, the encoder, the chrome) is sequential conversion of data or a page operation
over one session call; it has no state that two actors meet in, beyond what is modelled here.

External actors are modelled by what the code relies on: the browser (`Carry`, `Request`,
`Navigate`, `RuntimeSends`, `Post`, `Requests`, `Redirects`, `Settles`), the renderer (`Dies`), the
page and the native view (`PageActs`, `PageHangs`, `NativeDies`, `ViewCloses`), the process
(`Killed`), the person.

## 6. Plan

Done: the session and its promise, leases, paused requests, discard, ingress, exports and their
gate, quit, crashes, the marker, the database at launch, history, permissions, loading, downloads,
the agent's run and its light, recordings, subtitles; proofs of every safety property the passing
runs check, and of the safety part of both refinements.

Next:

1. What the invariants already carry and no property says: in `PausedRequests` that a pause gets at
   most one command that ends it unless a call timed out, in `AgentRun` that the calls run in the order
   they were announced, in `ExportJobs` that a worker's child never outlives its lease.
2. The findings under the assumption that avoids them: `NamesApart` for addresses that differ,
   `ShownIsReloaded` for tabs that are not torn off, as theorems, so that the assumption is exact.
3. The seam of `Ingress` and `CdpSession`: the messages handed over, as an abstract channel both
   modules are shown to keep.
4. Shorter proofs: the lemmas on sequences and on counting that several modules have a version of.
