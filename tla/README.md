# A verification project for run-kit

This directory models, in TLA+, the parts of run-kit that keep state over time: the Go
program under `src/app/backend` (the `rk` daemon and command line tool, which watches
tmux servers, streams them to browsers, delivers text into panes and runs scheduled
work) and the TypeScript of `src/app/frontend` that holds what a browser tab shows of
them. Every module is read off the source; `PROJECT.json` says for every definition
which lines it models. `tlc -workers 2 -config X.cfg M` repeats a run, `tlapm M.tla` a
proof.

## 1. The system

### 1.1 Inventory

| component | state it keeps | operations | what is hard |
|---|---|---|---|
| SSE hub (`api/sse.go`) | clients per server, fetch cache, event flags, generations, in-flight poll units, poll results, wake channels | subscribe, unsubscribe, poll loop, fold, dispatch, poll unit, wait, wake | a loop, its units, bumps from the control clients, clients that come and go; wake-ups that must not be lost |
| Operator queue (`api/operator_queue.go`) | FIFO per server, in-flight request, last send | enqueue, advance, expire, retain, finishDelivery | deliveries outlive their server; deferrals return to the front |
| Injection engine (`internal/inject`) | per-pane lock, shared paste buffer lock | Send, SendRaw, PressEnter, AwaitReady, DeliverWhenReady | a terminal that swallows text or the Enter key, a retry that must not submit twice |
| Cron (`internal/cron`) | entries file, log file, wake cursor file, tick lock | Tick, Add, Remove, Update, Edit, Mute, Pin, evaluate, deliver | a death between delivery and log, read-modify-write of one file by many processes, held fires |
| Terminal sockets: browser (`terminals/relay-mux.ts`, `terminal-client.tsx`) | one socket, the streams on it, suspended streams, owed echoes, heartbeat, wake probe | open, close, hide, show, wake, reconnect | sockets that close late, a close that crosses an open, a silent cut |
| Terminal sockets: daemon (`api/terminals_ws.go`) | stream table of a connection, attach goroutines, pumps, two queues of frames | open, attach, publish, pump, close, teardown | an id whose old pump still runs, an attach that outlives its stream |
| State socket (`lib/state-socket.ts`, `api/state_ws.go`) | reference counts, backoff timer, heartbeat, probe; the daemon's subscriptions | subscribe, hello, ping, reconnect, gone | a `gone` that crosses a subscription, a frame of an older socket |
| Session provider (`contexts/session-context.tsx`) | a slice per server, attach set, acks, dot, first boot id | fetch list, navigate, effects, snapshot, ack, gone, reload | effects run after the state they depend on; list and socket disagree |
| Layout tree and verbs (`lib/layout-tree.ts`, `layout-drop.ts`, `surface-layout.ts`) | none (pure); a window option holds the tree | add, close, toggle, promote, swap, templates, drops, borrow, prune, degrade | paths that shift while a tree is cut and collapsed, once or several times in a row |
| Shared layouts (`app.tsx`, `api/windows.go`, `api/layout_borrow.go`) | the layout option of each window, a tab's overlay, the write lock | plain write, borrow, return, rejection, navigation | a check that is stale when its write runs; half a move |
| Optimistic rows (`store/window-store.ts`, `optimistic-context.tsx`, hooks, sidebar) | entries, ghosts, marks on sessions, one "last call" per hook | kill, rename, create, move, snapshots, answers | an answer handled with the target of a later call |
| PR review listener (`api/pr_review_listener.go`) | per window: queue, in-flight thread, send history, failures, latch | advance, refresh, expire, reserve, finishDelivery | re-arm during a delivery, a breaker latch |
| Waiting push (`api/waiting_push.go`) | waiting episodes | decide, retain | one push per episode |
| tmux control clients (`internal/tmuxctl`) | client per socket, generation, pending commands | Create, Close, bump, reconnect | close against dial |
| Snapshots, home migration, riff, daemon lifecycle | files, processes, tmux sessions | restore; move; launch; start, upgrade | failure of a middle step |
| Desktop shell (`src/app/desktop`) | windows and web views | start, navigate, quit | events of Electron |

`PROJECT.json` lists the remaining parts, modelled or not.

### 1.2 How they interact

HTTP handlers, the hub and the two kinds of WebSocket run in one process. The hub's poll
loop dispatches at most one poll unit per server; each unit fetches the sessions of its
server and calls `advance` of the operator queue, the review listener, the waiting push
and the auto-namer with that snapshot. Those trackers start detached goroutines that
deliver through the injection engine and report back through `finishDelivery`. The
control clients bump a generation, which ends the hub's wait. Cron runs in the daemon's
ticker and in any `rk cron tick` process; they share files and a lock.

A tab holds two sockets. Over the *state socket* it subscribes to servers and receives
the hub's snapshots, acks and `gone` frames, which the session provider folds into one
slice per server; layouts and rows are drawn from there. Over the *terminal socket* it
multiplexes the streams of its panes, each an attach process in the daemon. What the user
does goes out by HTTP requests and comes back in a later snapshot: until then the tab
draws what it asked for (an overlay on a layout, marks on rows). Layouts live in tmux
window options, so tabs write over each other's and the daemon arbitrates.

### 1.3 What makes each component correct

- *SSE hub*: one unit per server at a time; no announced change stays unseen; a client
  never goes back to an older snapshot; a dead server is reported.
- *Operator queue*: bound, distinct intents, order, exactly-once settlement, no double
  paste, no starvation.
- *Injection engine*: own pane, one submission per call, no blind Enter, honest errors.
- *Cron*: bounded duplicates after a crash, rate bound, a wake has a cause, an expiry has
  grounds, edits take effect; the file keeps its cap; the backoff ladder counts what
  happened.
- *Terminals*: what a hidden page gave up is released at the daemon, no attach process
  without an owner, a terminal that is shown is served, a cut is noticed and repaired.
- *State link*: both ends agree what is subscribed; a tab at rest shows what the daemon
  last showed; a reload has a restart; a wanted server comes to be shown.
- *Layouts*: a verb neither loses nor doubles a surface; a drop puts it where it was
  dropped, a close leaves the rest arranged as it was; a lent surface is live in one window; an overlay ends.
- *Rows*: a request is drawn until answered; a ghost stands for something; in the end the
  rows are tmux's windows; a failure puts back what it hid.
- *PR review listener*: at most one delivery per window, breaker latched until re-armed.
  *Waiting push*: one push per episode. *Control clients*: a generation per change seen.
  *Snapshots, riff, home migration*: a failure half-way leaves the old or the new state.

## 2. The modules

| module | models | state and actions |
|---|---|---|
| `SeqFilter` | the in-place filter idiom `kept := queue[:0]`, a stream's frames taken off a queue | `KeepAt(s, I)` |
| `OperatorQueue` (EXTENDS `SeqFilter`) | `api/operator_queue.go`, the delivery goroutine of `api/router.go` | `queue`, `inFlight`, `gap` are the tracker's maps; `view` is the snapshot a poll unit holds between its fetch and `advance`; `worker` is the delivery goroutine. One action per method: `Enqueue`, `Advance` (with `expireLocked`), `Retain`, `FinishDelivery` (with `requeueFront`); `PollFetch`, `DeliverFetch`, `DeliverInject` are the reads and the paste between them |
| `PollHub` | the poll loop, units and wake-ups of `api/sse.go` | `clients`, `cache`, `inFlight`, `wakes`, `results`, ... are the hub's fields; `loop`, `servers`, `todo`, `dead`, `seenGen`, `flags` the poll goroutine's locals; `unit` its goroutines. `TickTop`, `Fold`, `Reap`, `Start`/`Skip`, `BeginWait`, `EndWait`, `EndDebounce` are the loop's steps, `CheckCache` .. `SignalResultsWake` a unit's |
| `CronTick` | `internal/cron`: tick, evaluate, wake, orphan, deliver, the anchor line of edit | `log`, `cursor`, `present`, `edits` are files, `lock` the flock, `tick` and `edit` the processes. A sweep is evaluated, fired line by line, appended and closed in separate steps, and dies between any two |
| `CronStore`, `EntryStore` | `internal/cron/store.go`, `edit.go` | `CronStore`: `file` and the read, change, write steps of each mutation; `EntryStore`: the abstract store, in which each mutation is one step |
| `CronBackoff` | `internal/cron/backoff.go` | the ladder as recursive functions (`gapAfter`, `ladderSum`), `JoinAnchor` the join of log and state epoch, with `PairRung` as its walk; actions `Ping`, `Answer` (of the target to a ping) and `Activity` |
| `InjectEngine`, `Delivery` | `internal/inject/inject.go` | `Delivery` is what a caller is promised: calls that wait, run and are answered, and how often a text was submitted. `InjectEngine` is the code: `paneLock`, `setPaste`, `buffer` are the engine; `call` is where each Send, SendRaw or PressEnter stands; `keys`, `composer`, `submitted`, `popup` are the pane. One action per tmux command with what the code does on its answer |
| `LayoutTree`, `LayoutVerbs` | `lib/layout-tree.ts`, `lib/layout-drop.ts`, `lib/surface-layout.ts` | a tree is a leaf or a split with exact fractions; `IsCanonicalTree`, `Normalise`, `RemoveNodeAt`, `InsertBeside`, `Template`, `Boxes` and the verbs are operators, one per function |
| `LayoutEdits` | the edits of one window (`app.tsx`, `surface-layout.tsx`) | `tree`; one action per verb, with drops from every handle to every zone |
| `SharedLayout` | `app.tsx` (overlay), `api/windows.go`, `api/layout_borrow.go` | `stored` are the window options, `seen` what reached each tab, `overlay` is `pendingLayout`, `posts` the requests with their stage, `lock` is `layoutWriteMu`. `Verb`, `Navigate`, `Deliver`, `ClearSettled` are a tab's; `HandleSet`, `HandleBorrow`, `HandleReturn`, `WriteNext` the daemon's, check and writes apart |
| `OptimisticRows` | window store, optimistic context, `use-optimistic-action.ts` and the sidebar's hooks | `tmux` is what is, `wire` the snapshot on its way, `tab` entries, ghosts, marks and the ref of each hook, `calls` the requests. `Push`, `Sync` bring snapshots; `KillRow`, `RenameRow`, `DropOnSession`, ... are the user; `Serve`, `Fail`, `Answer`, `Expire` the rest |
| `StateSocket` | `lib/state-socket.ts`, the daemon's end (`api/state_ws.go`, external) | `socket`, `wire` (both directions of the one connection), `daemon`, `host`; helpers return the socket and what it sends |
| `StateLink` (EXTENDS `StateSocket`) | `contexts/session-context.tsx` | `tab` is the provider's state and refs, `fetch` the list requests. `Effects` is the pass of its effects, `Receive` a frame with all its listeners, `SocketOpens`/`SocketCloses`/`DebounceFires` the socket's |
| `TerminalsWire` (EXTENDS `SeqFilter`) | the sockets between `RelayMux` and `TerminalsConn` | `sock`: every socket ever dialled, each end with its own state |
| `RelayMux` | `terminals/relay-mux.ts`, the stream's life in `terminal-client.tsx` | `mux`, `page`, `pane`; one action per method, timer or event |
| `TerminalsConn` | `api/terminals_ws.go` | `conn` is the table of streams and the queue of frames of a connection, `object` every stream ever made with its goroutine (`attaching`, `forked`, `pumping`, ...) and process |
| `TerminalMux` (EXTENDS both) | the composition | |
| `MC*` | | values of the constants for TLC |
| `*Proofs` | | theorems, section 5; `CronProofs` has those of `CronTick`, `CronStore` and `CronBackoff` |

Several modules have a variable `setup` or `left` that is chosen once, from a constant
set of setups or budgets: one run then covers several surroundings, each made for one
hazard. A budget bounds how often the surroundings act, never how often the code does.

### Abstractions

- A snapshot in `PollHub` or `StateLink` is a number of changes; a request in `OperatorQueue` is a
  number; a text in `InjectEngine` is a model value and a frame the list of texts on
  the screen. Formatting, logging and the payloads of frames are left out.
- Times are saturating ages (`OperatorQueue`), a bounded clock (`CronTick`,
  `CronBackoff`), beats of a heartbeat since a ping (`StateSocket`, `RelayMux`) or absent.
- `OperatorQueue` replaces the contents of a snapshot by what is read from it. A
  failing read, a dead server and a busy operator are separate outcomes.
- `PollHub` leaves out previews, session order and the host-global broadcasts, which
  only send; a frame put into a connection's channel counts as received.
- `CronTick`: all entries of a server aim at one pane, so the rate cap is exercised;
  schedules are intervals; the log is not trimmed; an append or a cursor write does not
  fail except by the death of its process.
- `InjectEngine`: one engine. A pane left in copy mode is one whose program ignores its
  keys. The program shows everything it was given, up to placeholders for long texts,
  and the tail of a capture is never too short; the code's comparison rests on that too.
  A person may have left a draft, but types nothing during the calls. Raw texts hold no
  line end.
- `LayoutTree`: sizes are exact fractions, where the code rounds to three places; the
  string form of a tree is left out.
- `SharedLayout`: a layout is the set of its leaves; arrangement is `LayoutEdits`' subject. `Add` refuses
  an unknown kind and a bare leaf that is there already (`layoutspec.go:875-882`), and a return calls it for a known
  kind that is not there, so the refusal at `layout_borrow.go:241-245` is no step. A request is lost on its way up only: an answer that is lost after
  the daemon applied the write is left out.
- `OptimisticRows`: one server; row order (the drag that reorders), the overrides of a web
  address and ghosts of sessions are left out; one snapshot at a time is on its way, and
  what it shows is newer than all before it.
- `StateSocket`, `StateLink`: the daemon's two critical sections of a subscription (add
  the client, enqueue the ack) are one step, and so are the dedup and the fan-out of a poll (`PollHub` has those
  apart); a frame put into the connection's channel is not dropped. An ack that is read under an earlier
  lock than it is sent (`sse.go:1145-1158`) would therefore not show here. Data and preview frames beside sessions are left out.
- `TerminalsWire`: close codes are "normal" (1000), "failed" (4001) and "missing" (4004);
  bytes, sizes and flow control are left out.

## 3. The runs

| run | module, cfg | properties | bounds |
|---|---|---|---|
| `operator_queue` | `MCOperatorQueue`, `OperatorQueue.cfg` | `ArrivalOrder`, `InjectedOnce`, `ReservesFresh`, `Settles` | 1 server, 2 keys, 2 requests, cap 2 |
| `poll_hub` | `MCPollHub`, `PollHub.cfg` | `SingleFlight`, `ViewAdvances`, `CatchesUp`, `GoneIsReported` | 3 setups, 2 units at a time, 2 slots, 1 change |
| `cron_tick` | `MCCronTick`, `CronTick.cfg` | `RestartWorstCase`, `RateBound`, `WakePerEdge`, `HeldRecomputes`, `ExpiryHasGrounds`, `EditVisible` | 7 installations, clock up to 6, up to 2 deaths |
| `cron_store` | `MCCronStore`, `CronStore.cfg` | `CapHolds`, `LockedChangesAreAtomic` | 2 processes, 3 ids, cap 2 |
| `cron_backoff` | `MCCronBackoff`, `CronBackoff.cfg` | `JoinCountsPings`, `Spaced` | 4 schedules, up to 190 ticks of the clock |
| `inject_engine` | `MCInjectEngine`, `InjectEngine.cfg` | `OwnText`, `SubmittedOnce`, `WithheldMeansUnsubmitted`, `NeverBlind`, `Delivers` | 3 calls, 2 panes, 2 faults, 2 attempts each |
| `layout_edits` | `MCLayoutEdits`, `LayoutEdits.cfg` | `VerbsKeepLeaves`, `DropTakesItsPlace`, `CloseKeepsTheRest`, `CycleComesBack` | trees of up to 4 leaves, an own terminal and editor and a borrowed editor, two uneven divisions |
| `shared_layout` | `MCSharedLayout`, `SharedLayout.cfg` | `LiveInOnePlace`, `OverlayHasReason` | 3 windows, 2 tabs, 3 requests, deaths and navigations together |
| `optimistic_rows` | `MCOptimisticRows`, `OptimisticRows.cfg` | `AskedIsDrawn`, `GhostStandsForSomething`, `RowsSettle` | 2-3 sessions, 5 windows, 11 setups of up to 2 calls |
| `optimistic_rows_dialog` | `MCOptimisticRows`, `OptimisticRowsDialog.cfg` | `FailureRestores` is violated | the kill dialog, one failure |
| `state_link` | `MCStateLink`, `StateLink.cfg` | `EndsAgree`, `QuietTabAgrees`, `ReloadsFollowRestarts`, `AttachedIsShown` | 2 servers, 2 fetches under way, 5 budgets |
| `terminal_mux` | `MCTerminalMux`, `TerminalMux.cfg` | `SuspendedIsReleased`, `NoStrayProcess`, `LiveIsServed`, `Redials` | 1 pane, 2 stream ids, 3 sockets, 4 budgets |

The type invariants are stated in the modules; the ones that are proved (section 5) are
not run again, and the others were checked once with the runs of their modules.

**Why the bounds are enough.** *Operator queue*: servers share nothing but the
tracker's mutex, so one server shows all orders of one queue; two requests with a cap
of two give a full queue and a deferral that goes back before a younger request. The
safety properties are proved for every number of them. *Hub*: a second server adds the
contention for the semaphore only, which the slots stand for; two slots allow a unit of
the old loop and one of the new. The setups are a server that stays, one whose clients
leave and return, and one that dies. *Cron tick*: the clock covers at least two periods, one
rate window and one orphan lifetime; two deaths lose a line twice. *Store*: a cap of two
with three ids lets two Adds compete for the last place. *Backoff*: 190 ticks take the
operator's 3 m / 24 m three rungs past its cap. *Injection*: one call's whole retry meets a
second call on the same pane and a third that wants the buffer; two attempts of each loop
give the first, the middle and the last pass; two faults fail a call and the one that
follows it. *Layout edits*: four leaves reach every template, a split in a split in a
split, and collapses at the root and inside; the runs start at every legacy preset, and
the reachable trees are all explored. *Shared layouts*: one window lends, two may hold, and
three moves are two writers and one event between them, or a chain met by a third write.
*Rows*: two calls of one hook are what its one ref can mix up, and the setups of two kills, two
renames, two session kills and two creates under way have a failure or a birth with which it does; three
windows and two births let a ghost be claimed by the wrong window. *State link*: each budget is one fault with
one event it can race; two servers separate the route's from an expanded group's.
*Terminals*: one pane that is remounted uses two streams; three sockets are a stale one,
the current one and its successor; the budgets are remount and attach failures under a
hidden page, a cut in each of those, and a terminal that ends by itself.

**Deadlock** is checked where the system does not stop by itself. `CHECK_DEADLOCK FALSE` is
set where it may rest: the clock of `CronBackoff` ends, and in `OptimisticRows`,
`SharedLayout`, `StateLink` and `TerminalMux` nothing need happen once the budget of
events is spent and every message is handled. `InjectEngine` ends in `Rest`, so a lock that is
never released is found as a deadlock.

**Symmetry** is used in runs without liveness only.

**Mutants.** Each property has a definition of the code and a `Slip` form of it - a
dropped guard, a missing reset, a wrong comparison - under which TLC finds the property
violated; `PROJECT.json` pairs them.

### Fairness

- `OperatorQueue`: time passes, a subscribed client keeps the hub polling each server and
  reaping dead ones, and a delivery goroutine runs to its end, because every command it
  runs has a deadline. Nothing is assumed of the operator, who may be busy at
  every look: the request then expires. Nothing is assumed of the tmux server either: a unit
  whose fetch fails without the socket being gone never comes to `advance`, so `Settles` says
  of a server whose fetches fail from some time on for ever that it may keep its queue
  (`operator_queue.go:187`), and of every other one that it settles each request.
- `PollHub`: goroutines run, fetches end by their deadline, announcements that were
  caused arrive, the cache lifetime passes. `Start` is strongly fair because the loop
  ranges over a Go map, whose random order gives each server its turn at the semaphore.
  Only in setups with `timer` does the safety timer fire and does a fetch from a gone
  socket eventually say so; `CatchesUp` is about the setups without it.
- `StateLink`: React runs its effects, frames are read, timers fire, a fetch ends, the
  daemon reads what it was sent, comes back after a stop and polls each server. A cut, a
  wake, a death or birth of a server is never owed.
- `TerminalMux`: timers fire (the reconnect backoff, the heartbeat, the probe, the grace of
  a hidden page), a dialled socket opens or fails, a closing one closes. Nobody need
  notice a silent cut: only the heartbeat finds it, which is what `Redials` is about.
- `OptimisticRows`: the daemon answers or fails each request and pushes snapshots, and the
  tab handles what arrives. The user and other clients owe nothing.
- `SharedLayout` states fairness for `OverlaySettles` only (section 4).

## 4. Findings and observed divergences

### 4.1 With a run

- `optimistic_rows_dialog`: the kill dialog closes and clears its target when it is confirmed, before the
  answer; a failure then finds no target (`sidebar/index.tsx:588`) and the row stays hidden,
  against docs/memory dialogs-and-state.md:352, which promises the roll-back.

### 4.2 Stated in a module and found violated

TLC refutes these when the named definition is put in the run's configuration. They are
not kept as runs.

- `PollHub!SingleFlight` without `\ setup.mortal`: a tmux server that dies and comes back while its dead
  result waits to be folded loses the in-flight mark of the unit started meanwhile, and is
  dispatched a second time next to it (`sse.go:1985`), against `sse.go:2074` "one in-flight
  unit per server, always" and `sse.go:1960` "no in-flight unit touches these maps for it".
  `ViewAdvances` without it fails for the same two units: the older may be the last to fan out.
- `CronTick!HeldRecomputes` over `held` in place of `held \ setup.wakes`, with the installation
  `HeldWake`, a wake entry on a busy pane: the wake does not become due again,
  because the same tick writes the cursor past it (`evaluate.go:173`), against `tick.go:32`
  "Skipping the append makes re-evaluation the retry mechanism — the fire recomputes as due
  on the next tick".
- `InjectEngine!SubmittedOnce`, `WithheldMeansUnsubmitted` and `NeverBlind` without `Paired`: of
  three sends of texts that look the same to one pane, the third may take for its own echo, or for
  its clear, what the program still does for the first (`inject.go:558-570`), against
  `inject.go:267-269`, which counts occurrences so that only the current paste satisfies the probe.
- `CronStore!OneChangeAtATime` (as a PROPERTY) with the mutations of `LockFree`: two mutations without a lock lose an entry (`store.go:137`), against
  `store.go:73` "a mutation must never silently drop existing intent".
- `CronBackoff!GapCapped` with the ladder of `Interruption`: activity that makes a gap of the new ladder look like one of the old
  makes the next gap longer than `max` (`backoff.go:126`), against `backoff.go:8` "with each gap capped at
  max". Of ladders that nothing interrupts it is proved (`NoDriftAlways`).
- `CronBackoff!LadderStaysAtCap` with the ladder of `TenMinutes`: where the last rung below the cap is within two
  minutes of it (1 m / 10 m: 8 m), the walk takes it for capped (`backoff.go:140`), finds the next gap too
  small for the rung below and stops; the three rungs of five that are left are overdue, and the floor
  starts the ladder again. Undisturbed and on time it climbs to 10 m and falls back to 2 m, again and again,
  against docs/memory cron.md:142: the walk counts capped gaps "so a streak parked at `max` keeps its
  full rung count and keeps firing every `max`". `Telling` excludes these schedules from
  `JoinCountsPings`, which is proved of those it admits.
- `TerminalMux!HeartbeatRuns` with `StaleBudgetSet`: the late close of an abandoned socket
  stops the heartbeat of its successor (`relay-mux.ts:426` "running iff the socket is OPEN and
  ≥1 live stream exists"). With a second silent cut (`Allow(2, 0, 0, 0, 2)`) `Redials` fails too.
- `TerminalMux!NoOrphanAttach`: a close that meets the placeholder of an attach produces two
  `closed` frames; the second retires a stream resumed under the id meanwhile
  (`relay-mux.ts:70-78`, `612-620`). With `Allow(1, 2, 0, 1, 1)` a cut that swallows the echo makes
  the real end of a resumed stream pass for it (`76-78`).
- `TerminalMux!LiveIsServed` with `Allow(0, 4, 1, 0, 1)` and one pane: a suspension that meets a failed attach
  gets no answer, since the close finds nothing registered (`terminals_ws.go:1045` closeStream). Its
  echo is still awaited when the stream has been resumed, suspended and resumed again, and the late
  answer of that suspension, or a real end, passes for it: the terminal is shown and nobody serves it.
  Without failed attaches, and without both a cut and an end, it is proved (`LiveIsServedCalm`).
- `LayoutEdits!NeighboursAbsorb`: the app closes a tile on the stored tree, which has no shares,
  and writes none; the new structure is drawn with those of its own template, or equal ones. In
  `h[a, v[b, c]]` closing `c` takes `a`, which is not beside it, from 58 % to 50 %, against
  `app.tsx:2164` "the neighbours absorb its share", `surface-layout.ts:495` and
  docs/specs/surface-layout.md:194. That the *structure* is kept, which the same lines say, is checked.
- `LayoutEdits!PromoteReachesSlotA`: slot A is looked up by its kind, so with two leaves of that
  kind (an own editor and a borrowed one) the promoted leaf changes places with the first in
  reading order, which need not be slot A (`surface-layout.ts:535`, docs/specs/surface-layout.md:191).
- `SharedLayout!OverlaySettles`: two verbs of a tab that are written in the other order leave
  its overlay on, since no snapshot ever equals it (`app.tsx:1136-1146`).
- `SharedLayout!LiveInOnePlace` without its exception for a raced write: the plain write checks
  the holders without `layoutWriteMu` (`windows.go:742-762`), so a surface can be live in two
  windows, against docs/specs/surface-layout.md:131 "A surface is **live in exactly one place**".
- `StateLink!AttachedIsShown` with `LostBudgetSet`: a server that dies and comes back while
  the list fetch fails is not shown again until another event fetches
  (`session-context.tsx:1108-1116`).
- `StateLink!ReceivedIsReal`: an ack without a snapshot empties a slice and leaves
  `sessionsReceived` set.

### 4.3 Read off the code while modelling

- *Rows*: a killed session's name stays in `killed` after success too, so a session made or
  renamed to it is hidden until a reload (dialogs-and-state.md:321 describes a cleanup in
  `onAlwaysSettled`). Two calls under way share one ref: of two kills the first failure
  restores the second's row (until a snapshot without it) and its own stays hidden when the
  second's success has emptied the ref; of two session kills the success of a second answer
  clears the rows of the session that the ref names, which may be alive because its kill failed
  (`sidebar/index.tsx:530-534`): it has no rows until the next snapshot. A rename answered for another one, or whose component unmounted
  (`use-window-rename.ts:15-19`), keeps its pending name and hides what others call the window later. `RowsSettle`
  names exactly these with its history variable `stays`, and holds of every other row.
  A window moved away and back before a snapshot stays hidden: only setups without moves by others
  have moves. A ghost is claimed by the oldest new window, whoever made it; when a create or a move fails after that, the
  other request's ghost is left to its timer. A dialog's success handler acts on the target of a
  dialog opened meanwhile. `AskedIsDrawn` is stated of one call of a hook at a time, since of two the answer of the first shows the row of the second.
- *Layouts*: applying or cycling a template rebuilds the tree from its kinds, so a borrowed
  leaf loses its home and, next to the own leaf of that kind, gives a tree the server refuses
  (`app.tsx:4633-4640`, `top-bar.tsx:705-712`, `palette/layout.ts:517-530`). The re-add of a
  return can overwrite a plain write accepted meanwhile; a chain whose target window dies
  leaves the surface in neither window; an overlay survives a navigation.
- *State link*: an ack lost after the cached `sessions` leaves the dot green while disconnected
  (`session-context.tsx:856-858`). An initial fetch that fails with a reconnect within three
  seconds leaves the list empty. A late ack of an unsubscribed server stays in the acks, and
  fetch answers are applied in the order they arrive.
- *Hub*: `sse.go:2161`: a unit that queues its result and clears its mark after the loop's fold
  lets the same tick dispatch the server again with the result still unfolded, which
  the comment at 2151 excludes. `sse.go:2116`: the wait allocates the wake channel of a server the reap
  at 1989 just removed. `sse.go:1896`: a wake during a reconnect finds the client list empty
  and is dropped, against the comment at 2480; the safety timer repairs it.
- *Cron*: `internal/cron/orphan.go:34`: an entry without any line dates its streak from its
  creation, so the first missed tick may expire it (orphan.go:13 says "continuously").
  `tick.go:293`: a line that cannot be appended leaves its fire due. `cmd/rk/cron_tick.go:28`: the
  command has no deliverer and logs `no-deliverer`, against docs/specs/cron.md:76, which
  calls all invokers equivalent. `tick.go:435`: a pin that lands during the sweep does not
  save its entry (docs/specs/cron.md:119). `edit.go:37`: an edit dates its line before it
  waits for the lock, so the line may be older than the one before it.
- *Injection*: `internal/inject/inject.go:353`: `StagedSendFailure` says that Enter was not sent, also when
  the deadline cut a `send-keys` that had its effect, or when the Enter meant for a popup
  submitted the text because the popup was gone. inject.go:267 says that "only the CURRENT
  paste" satisfies the probe; an earlier paste that shows late does too, when it has
  the same text or both show as placeholders. `NeverBlind` is stated accordingly, and for panes
  that two calls at most are for.

## 5. What is proved

The theorems hold for every value of the constants that satisfies the assumptions of the
module and of those it extends (`ConstantsOK`, `StoreConstantsOK`, `BackoffConstantsOK`, `SharedBounds`, `FetchBound`,
`BudgetsOK`, `ServersOK`, `WireBounds`, `RowBounds`); TLC evaluates them in each run. They ask no more than
that bounds are numbers, that sets of setups have their type, that what is counted is finite,
that there is a name, and that a reserved value is not one.

- `SeqFilterProofs!KeepAtProperties`: the in-place filter returns the kept elements in
  order and no others; used by the queue for expiry, reservation and requeueing, by
  `TabProofs` and by `TerminalMuxProofs` for the frames of a stream.
- `OperatorQueueProofs`: `TypeOK`, `PendingBound`, `NoDuplicateIntent`, `ArrivalOrder`,
  `HeldIsPending`, `QueuedIsIdle`, `InjectedOnce` and `ReservesFresh`, for every set of
  servers and keys, every cap, lifetime, gap and number of requests. The inductive
  invariant `Inv` adds to the checked invariants *Ownership* (the held requests of a server
  are its accepted and unsettled ones, and unborn numbers own nothing) and *Ledger* (an
  injected request has a goroutine past the paste, or none and an outcome). Neither
  `ArrivalOrder` nor `InjectedOnce` is inductive without them: a completion puts a request
  back at the front, which keeps the order only because the request in flight is older than
  all that wait and is still owned; a paste is the first only because a goroutine before
  the paste belongs to no ledger entry. One lemma per action; `QuietKeeps` covers those that
  move none of the queue's state, `WorkerMoves` the steps of a goroutine. `TypeOK`,
  `PendingBound`, `NoDuplicateIntent`, `HeldIsPending` and `QueuedIsIdle` are proved and
  no longer run.
- `CronProofs`, the clock: `TypeOK`, `RestartWorstCase`, `RateBound`, `WakePerEdge`,
  `HeldRecomputes`, `ExpiryHasGrounds` and `EditVisible` - every property of the run - and
  `WakeSpacing`, which no run checks. A sweep evaluates once and delivers, appends and expires
  over many steps, so what it evaluated must last. *SweepStands* says what does: until an
  entry is fired its due time or its rest is as it was evaluated, because only the holder of the
  lock appends (*OneAtWork*) and an entry fires once in a sweep. The counting properties rest
  on accounts that are exact up to a process between two of its writes: a delivery without a line was
  lost to a death or is in flight (*DeathsAccount*); the wakes, the one to come and the turn that
  the cursor has not recorded are paid for by edges and deaths (*WakesCaused*); the resets of an entry
  are behind its edits by the editors that died or are about to append (*EditsRecorded*).
  `RestartWorstCase` then follows from *RepeatsUnlogged*: a payload that comes twice within
  a period comes after one without a line. `WakeSpacing` is of entries that were not edited: an edit dates
  its line before it waits for the lock, and may so move the anchor back.
- `CronProofs`, the entry file: `StoreTypeOK`, `CapHolds` and `LockedChangesAreAtomic`. `CapHolds`
  is carried by *Room*: a copy that was read has at most the cap, and an Add that will write found a
  place in its own copy. It holds although Adds overlap, because each saves what it read.
  `LockedChangesAreAtomic` says that the mutations under the lock implement
  `EntryStore!OneChange`; its invariant *Exclusive* says that while only such mutations run, the holder's
  copy is the file.
- `CronProofs`, the ladder: `BackoffTypeOK`, `JoinCountsPings`, `Spaced`, `FlatIsPeriodic` and
  `NoDrift`, for every schedule, tolerance and lateness. The gap, the sum and the walk are recursive functions.
  That they satisfy their recursions is shown from their definition by CHOOSE: a start and a step define a
  function (*Iteration*), and what fails of a natural number fails first of a least one
  (*EveryNatural*, the induction of this module). *BackoffInv* is inductive. It says
  whether the join starts anew exactly when nothing was fired since the last genuine activity
  (*AnswersTold*), and that in an uninterrupted ladder every delivery lies between its due time on the
  ladder of the first one and `late` after it (*OnTime*). Late ticks thus do not add up. `WholeStreak` goes
  down the log from there: each pair of deliveries shows the gap of its rung up to `late`, the seed and
  each step of the walk give it a rung that *Fits* - never a lower one, except that the first capped
  rung stands for all - so the walk ends at the first delivery. `Telling` is what this needs:
  `late` is at most the skew and the first gap, and the last rung below the cap either is told from it with both
  tolerances or is so short that the walk's tolerance outweighs it. `Spaced` and `FlatIsPeriodic` need none of
  this and hold with activity at any time: they follow from the floor.
- `InjectEngineProofs`: `TypeOK` (with the locks), `OwnText`, `Unmerged`, `SubmittedOnce`,
  `WithheldMeansUnsubmitted`, `NeverBlind` and `Delivers` - every property of the run. paste-buffer delivers what the
  buffer holds, not what its caller meant; *BufferHeld* says that the buffer is the one of
  the holder of `setPasteMu`, and the holder is the call about to paste. *PassLeft* (a
  composer is cleared only for a pass that is left) bounds the retries. `CallMoves` treats
  the locks once for all steps of a call; the lemmas of the actions say which step it is.
  `Unmerged` follows from the locks and `OwnText`: whose text stands in a submission is meant for the pane,
  and of the calls for it only the holder of its lock is running; `Delivers` says so much of the locks itself, so the
  run has that in its place. `SubmittedOnce`, `WithheldMeansUnsubmitted` and `NeverBlind` rest on *Careful*, which says of
  a call at each of its steps what of it is still queued in the pane and what it means there that its text is seen more
  often than in the baseline: a growing count is its own paste (or a look-alike's, whence `Paired`), a
  composer back at its baseline is one whose paste is gone and not submitted. An occurrence is a position in a
  frame, so the counts are compared by injections of finite sets (`CountCut`) and not by a fold. The
  parts of *Careful* speak of values, so one lemma (`TurnCareful`) covers every step of a call and one
  every key that the program takes.

  `Delivers` is the refinement of `Delivery` (`DeliversAlways`): a call that is neither idle nor done is *running*, a
  call that is done is its result, `copies` counts the places where its text was submitted, and `own` holds the sends
  whose own Enter did it. A step of a call is a `Start`, an `Answer` or nothing to its caller (`StepPromised`);
  a key that submits is a `Land` of the texts whose first submission it is (`TakesPromised`). The mapping counts
  what `Paired` admits: of a pane of three or more calls it says only that they take turns and are answered once.
- `PollHubProofs`: `TypeOK`, `SingleFlight`, `FlightHasUnit` (a server marked in flight has a unit that
  will clear the mark, which no run checks) and the action property `ViewAdvances`, for any number
  of servers, connections and changes. `SingleFlight` needs that the mark is of exactly one unit,
  also on the way to its clearing (*Alone*), and that no unit reports a server dead whose socket
  stays (*Stays*), since the reap of a dead server drops the mark. `ViewAdvances` needs the order along the
  whole path of a snapshot (*Newer*): connections, what was shown, the cache, what a unit carries, tmux.
- `TabProofs`, the shared layouts: `TypeOK`, `LiveInOnePlace`, `OverlayHasReason` and *MovesExclude* (two
  moves never both have writes left). That a surface is in one window is not inductive
  between the two writes of a move; *OnePlace* speaks of the chain that is still to write:
  what it will write is held by its own windows only, for as long as nothing was written
  since its check. A chain of two never names one window twice (*WellPlanned*).
- `TabProofs`, the optimistic rows: `AskedIsDrawn` where `Apart` holds (`AskedIsDrawnApart`): a hook has
  one call at a time, the dialog has no other hook beside it that hides rows, no window can come back to a
  session that it left, and no session is renamed. Five of the run's eleven setups are such; of the
  others the run shows it for the rest, two calls of one hook excepted (4.3). Snapshots, failures,
  windows that others make or kill, misrouted creates and components that go away are as in the model,
  in any number. A snapshot replaces the entries that carry the marks, so *RowInv* follows a window through
  the three places where it may be known: to the tab, on the wire and in tmux. *Onward* says that it is made
  once and ends once, *Agree* that it moves on only from where the tab hides it and that no snapshot holds
  two moves, *MarkedBy* that its row is hidden in its session until it has left that for good, and
  *Asked* that the ref of a hook names its one call - which is why its handlers take no other call's marks.
- `StateLinkProofs`: `EndsAgree`, `QuietTabAgrees` and `ReloadsFollowRestarts`, with the types in the
  invariant. The first two are about a link at rest and say nothing while frames are under way; *EndsMeet*
  and *ShowsMeet* say of the last request about a server on its way up, and of the last frame about it on its
  way down, what each end will believe once they have arrived. A reload consumes a boot that
  no other reload had (*Boots*).
- `TerminalMuxProofs`: `TypeOK`, `SuspendedIsReleased` and `NoStrayProcess`, for every number of panes,
  streams, sockets and faults. *GaveUp* follows a stream that was given up through the messages on their
  way: behind each `open` of it comes a `close`, and while it is registered there is a `close` to come;
  *Dialling* says that a socket that was not accepted carries nothing.

  `LiveIsServed` is proved where `Calm` holds (`LiveIsServedCalm`); without that it is false (4.2). It needs to know that no end
  is taken for an echo that another end owes. *Serves* follows a live stream through the messages on
  their way up: behind each of its closes comes an `open`, and the ends on their way down and those
  the closes will produce are one more than the awaited echoes would eat. *Haunted*
  says when a stream may be closed without a message, *Steady* that one socket lasts as long as attach
  clients may end, *Owned* and *Retired* that an object which ended is in no table; *Kept* joins
  them. A failed attach breaks the count (its close has no answer), a cut takes
  an answer away, and only a real end is then left to be mistaken: `Calm` excludes just these.

Only model-checked: `LayoutEdits`, whose trees are recursive operators, with which the SMT
solver is not available; `GhostStandsForSomething` of `OptimisticRows`: which window a ghost is taken for is
a fold over the ghosts, over which the prover has no induction, and the property is of budgets as narrow as its
setups (a window that is made and killed between two snapshots leaves its ghost to the timer); and `AskedIsDrawn` outside
`Apart`. Out of the prover's reach are the liveness properties (`Settles`, `CatchesUp`,
`GoneIsReported`, `Redials`, `AttachedIsShown`, `RowsSettle`), which need fairness and ENABLED. The
violated property of 4.1 is a counterexample of TLC.

## 6. What could come next

1. `PRReviewListener` and `WaitingPush`, over the schedule of poll units that `OperatorQueue` uses.
2. `ControlClients` (Supervisor, Client, hubSink) as producer of `PollHub`'s generation.
3. `Ready` (AwaitReady, DeliverWhenReady) before `InjectEngine`, and `OperatorQueue` and `CronTick` over
   `Delivery` in place of their own outcome of a paste.
4. In `OptimisticRows` the order of the rows and components that mount again; in
   `SharedLayout` the tree in place of the set of leaves.
5. `Snapshot` and restore, `Riff` roll-back, `HomeMigration`.
6. `CronExpr` against a reference definition, over abstract calendars.

## 7. Not modelled

`PROJECT.json` lists every component with the reason. In short: parsing and quoting, readers
of git, ports, metrics and transcripts, and the stateless handlers have no behaviour over
time; tmux, ssh, X servers, browsers and editors are outside programs that appear as steps
that succeed, fail, or do either late.

Of the TypeScript (some hundred thousand lines without its tests) the modules cover only a few
thousand. The remainder of `src/app/frontend` is almost all rendering: components, forms,
tables of commands, themes, canvases and the wiring of one handler to one request, with
no state that two actors share and no order of events that matters. The large files -
`app.tsx`, `surface-layout.tsx`, `sidebar/index.tsx`, `top-bar.tsx` - are modelled where they
keep such state (the overlay, the drop, the optimistic hooks, the verbs) and not
elsewhere. The desktop shell reacts to events of Electron with one handler each. A
model of that code would be the code again, with nothing for a property to say.
