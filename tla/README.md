# TLA+ models of the Civ VI / VII advisor

The advisor is a second screen: it watches the log files of a running game,
recomputes advice after every change and serves it to a browser, with optional
prose from a local model, optional live figures from the game's debug socket and
a small record of the player's own notes. The analysis is a pure function of the
logs. What is hard to test is what happens around it: worker threads, a thread
pool of request handlers, an event loop that switches games, a single slow text
generator and a file on disk.

This directory models those parts, checks them with TLC and proves the main
results with TLAPS. Run `tlc -config <run>.cfg <module>.tla` for a run of the
table in section 5, `tlapm <module>.tla` for the proofs.

What the advisor says is modelled as well: how log files, the running game's
replies and the installed rules become figures, figures become cards, cards
become changes, and which generated prose may be shown beside them.

## 1. Inventory

| Component | State | Operations | Talks to |
|---|---|---|---|
| Snapshot store (`store.py`) | profile, logs directory, archive root, generation; published snapshot; revision, epoch, session and its reason; observed seeds | `rebuild` (worker threads), `switch_to` (event loop), readers take `snapshot` | ingestion, archive, commentary worker, event queues |
| Application (`api/app.py`) | selection, watcher task, the current record, history, report store | `activate`, `apply_selection`, `supervise`, start and restart of the watcher, request handlers | everything |
| Game selection (`games/selection.py`, `detect.py`) | pin, directories | `resolve`, `pin` | application |
| Poller (`ingest/poller.py`) | last and pending stat of the files | one poll per second | application |
| Ingestion and state (`ingest/`, `state/`, `games/civ6`) | none | parse, assemble, classify players | store |
| Advisors (`advisors/`) | none | insights from a state | store, serializer |
| Player record (`context_store.py`) | entries, pending, foreign, sitting, the JSON file | `load`, `adopt`, `record`, `associate`, `discard`, `forget`, save | request handlers |
| Report store (`decisions/context.py`) | the player's typed-in previews, revision | `adopt`, `submit`, `invalidate` | request handlers, identity of commentary |
| Decision engine (`decisions/`) | none | evidence, candidates, yields, cards | request handlers |
| Turn history (`decisions/changes.py`) | one entry per turn | `record`, `previous`, `forget`, compare | request handlers, switch |
| Commentary worker (`llm/worker.py`) | results, active, pending, newest ready, two thread pools | `schedule`, `result`, generation, hand-over, `answer`, `close` | store, handlers, local model |
| Copilot worker (`copilot/worker.py`) and conversation | done, resolved, gates, futures; transcript | `ask`, selection, composition, `close` | handlers, local model |
| Tuner client (`tuner/`) | socket, buffer, last reading | handshake, queries | store (one capture per rebuild) |
| Ruleset (`ruleset/`) | cache of open databases | open, query, `clear_cache` | decisions, switch |
| Archive (`archive.py`) | mirrored directories | copy what changed | store |
| Web page (`web/`) | last response per panel, timers | refresh on event, polling while waiting | HTTP, server-sent events |

How they interact. The poller calls `on_change` in a worker thread; that calls
`Store.rebuild`, which reads without a lock, publishes one immutable `Snapshot`
under the lock, mirrors the logs and hands the snapshot to the commentary worker.
`on_change` then queues an event for every connected page, and the page asks for
`/api/briefing`. A handler takes the published snapshot once, points the report
store and the player's record at the snapshot's sitting, and answers from that
snapshot. Meanwhile `supervise`, or a player's pin, may switch games: `activate`
replaces record and history and calls `switch_to`; the watcher is restarted.

What makes each component correct:

* **Store.** What is on screen was read from the active game after the last
  switch; a session (the name the player's notes are filed under) is one line of
  play in one sitting; logs are archived under their own game and session.
* **Record.** No note is lost silently; a note applies only in the sitting it was
  made in or was associated with; a file the advisor cannot read is left for the
  player.
* **Commentary.** One generation at a time, none repeated; what the player is told
  to wait for arrives; prose stands only beside the advice it was written about.
* **Copilot.** One selection and one composition per question; a finished answer
  does not change.
* **Reports and history.** They belong to one sitting, and late requests of another
  sitting do not disturb them.
* **Selection and watcher.** Somebody watches the game that is shown; a change of
  its files is followed by a rebuild.
* **Tuner.** A figure is dated by the turn its own reply names.

* **Logs and state.** The turn advised on is over, and no row is filed under a
  player who does not play that civilization.
* **Plans, decisions, changes.** An objective ages and is never dropped by silence;
  each gap is told once; what a card cites can be served; a change is called new or
  resolved only when it was.
* **Ruleset.** A figure is cited to bytes it can be found in.
* **Answers.** Prose shown to the player says no number nobody vouched for.

The hazards behind these are in `PROJECT.json`, each at its line.

## 2. Modules

| Module | Models |
|---|---|
| `SnapshotStore` | `Store.rebuild`, `switch_to`, the session rules, archive and commentary hand-over, and the order in which `activate` moves the archive root |
| `SnapshotFeed` | abstract: what the readers of the store may rely on |
| `SnapshotStoreProofs` | theorems about `SnapshotStore` |
| `PlayerRecord` | `PersistentContextStore`, its file, and the handlers that call it |
| `PlayerRecordProofs` | theorems about `PlayerRecord` |
| `CommentaryWorker` | the scheduling half of `llm/worker.py` with the rebuild threads and dashboards that drive it |
| `CommentaryWorkerProofs` | theorems about `CommentaryWorker` |
| `CopilotWorker` | `copilot/worker.py`, the handler of `/api/copilot/ask` and the pages that poll it |
| `CopilotWorkerProofs` | theorems about `CopilotWorker` |
| `GameWatch` | the supervisor, the player's pin, `apply_selection`, the watcher and its rebuild threads |
| `GameWatchProofs` | theorems about `GameWatch` |
| `SittingRequests` | `ContextStore` and `History`, with the concurrent requests that call them and the switch that clears |
| `SittingRequestsProofs` | theorems about `SittingRequests` and `Page` |
| `Page` | one open page: its event stream, its fetches, and which reply may paint |
| `Absence` | the one constant `None`, which the modules that an MC module extends together share |
| `Levels` | the levels of severity and the thresholds of the advisors and decisions |
| `Tuner` | `tuner/`: the flag file, one capture's connection, queries and replies |
| `LogFiles` | rows of several games in one file, and what the readers and `build_state` make of them |
| `Frontier` | `advisors/tactical.py` and `decisions/defense.py`: the AI's plans |
| `Decisions` | extends `Frontier`: ledger, settlement views, candidates, yield cards, folding; `BriefSpec` lets plans, facts and turns come in any order |
| `Ruleset` | `ruleset/civ6.py`: the shared provider and a database that is rewritten under it |
| `RulesetProofs` | theorems about `Ruleset` |
| `TurnChanges` | `decisions/changes.py`: signals, comparison, and what is served of it |
| `AdviceProofs` | theorems about `Tuner`, `LogFiles`, `TurnChanges`, `Answers`, `Frontier` and `Decisions` |
| `Answers` | `copilot/conversation.py`, `catalog.py`, `grounding.py`: from a selection to what is shown |
| `MCApplication` | composes `GameWatch`, `SittingRequests` and `Page`, each in a scene of one run |
| `MCAdvice` | composes the seven modules of the advice, in the scenes of one run |
| other `MC...` | the bounded instance of each, with its symmetry |

A scene is a first choice that decides which component takes the steps of a
behaviour, while the others rest in one initial state. Components of a run with
scenes do not interact with each other there; where they do interact in the code
(a handler adopting a sitting, a switch clearing the history, cards resting on
plans), the interaction is inside one module.

### SnapshotStore

A rebuild thread has a control point and a job record for its local variables.
`ReadProfile`, `ReadLogsDir` and `ReadGeneration` are three actions because line
355 is three unlocked reads. `ReadLogs` chooses what the directory held: any turn
(or no rows) and any seeds (or none), since the game writes and wipes its
directory at will. `Publish` is the critical section: the recheck, the session
rule, the snapshot, the captured archive root. `Archive` and `Schedule` run
unlocked. On the event loop `Activate` assigns the archive root and, when the game
differs, is followed by `SwitchTo` after file I/O. The session id, the epoch and
the session counter move together in the code, so `epoch` stands for all three.
Directories and profiles are named by their game.

### PlayerRecord

The file is an abstract set of entries with a kind (absent, current schema, newer
schema, damaged). The store's dictionaries are sets of entries with a unique id;
the id, as in the code, names the subject and the sitting the entry was first
recorded in, and does not change when the entry is associated with another
sitting. A request is captured, adopted and finished in separate steps, because
`current()`, `adopt` and `record` are separate critical sections. A save replaces
the file whole or fails and leaves it (`os.replace` after `fsync`); a process can
stop between any two steps. The file is the shared one of `--context-file`. `owed` and
`warned` are history variables: the notes the player was told are saved, and those of
them that were offered for association or whose file was reported left unread.

### CommentaryWorker

`results`, `active`, `pending` and `ready` are the worker's fields; `job` is the
single executor thread: submitted, running, and stored, the moment between
`_generate` writing its result and the done callback. `Result` may be called for
any snapshot published so far, because a request computes its prompt outside the
lock. `Publish` and `Schedule` are separate steps of a rebuild thread.
`_current` is only read to choose a log level and is left out.

### CopilotWorker

A poll is a record with a control point: it looks for a finished answer, looks for
a resolution or takes a gate (the lock of its request), selects, submits, responds.
`NewGate` stands for `setdefault(key, Lock())`: a lock object is a number nobody
who works on that request uses, so that a poll can go on holding or awaiting a
lock the dictionary has forgotten. A request's identity is the question, the
snapshot and the length of the transcript; the other parts of `cache_key` (session,
epoch, mode, context revision) change it in the same way a snapshot does. A
resolution is one of two values, so that prose written around another resolution
than the one on screen can be told apart. `selections` and `compositions` are
history variables that count to two.

### GameWatch

Code between two awaits of the event loop is one action: `Look` and `Follow` are
the two halves of a supervisor tick (resolve in a thread, apply), `Choose` is
`POST /api/game`, both under `selection_lock`, whose holder is a variable. A
switch cancels the watcher, calls `switch_to` and looks at the files, and awaits
the first rebuild (`Read`, then `PublishFirst`, `FirstFails`). `Tick` is one turn
of the poll loop with its settling rule. A rebuild thread outlives the watcher
that was cancelled and publishes, or discards, by itself. A game's logs are the
number of bursts written, which is what a `stat` sweep tells apart. `missed`
remembers that the newest change was consumed by a rebuild that raised or was
overtaken by an older one; `told` that an event followed the last change.

### SittingRequests

A request captures a snapshot, adopts its sitting in the report store, and then
submits a report, compares and records the turn, or only answers. The history's
scan (`Compare`) and its insertion (`Add`) are two steps, because nothing locks
them; a game switch forgets the history (`Forget`) some time before the store
leaves the game (`SwitchTo`). Whether something a form depended on has changed is
a free choice.

### Page

Every event, toggle of Oracle, and choice of a game starts a fetch and aborts the
one before; a reply that was already on its way (`late`) may still arrive, and
`acceptResponse` decides by sequence number, session and revision. `FetchFails` is a
handler that raises, or a connection that breaks: `refresh` returns (`app.js:159`,
`161-166`) and nothing makes it try again. `gap` says that an event was published while
the stream was down and nothing has made the page look since; `Overlooked`, that this is
so or that the page's own last fetch failed.

### Tuner, LogFiles, Ruleset

`Tuner` keeps what is on its way back on the stream as a sequence of replies whose
end markers name nobody, so that the reply to a query that gave up is read by the
next one. `LogFiles` writes rows that know which game wrote them (a history field
no reader looks at) and computes segments, identities, owners and the complete turn
from them; `broken` is the set of files that cannot be read. In `Ruleset` the file
has versions that may look alike to `stat` and are half written in between; a
lookup identifies the file, reads its tables, identifies it again and tries again
if it differs, while another request does the same with the same provider, reopens it or
closes it. Nothing locks the provider, so identifying the file and writing down the
answer are two steps, each time (`Identify` and `Refresh`, `Verify` and `Settle`), and
`putBack` remembers that one lookup has written an older identity over a newer.

### Frontier, Decisions

The logs of the AI's plans grow row by row (five kinds); plans, frontiers, exposed
units, alerts, urgency and the defence card are derived, each by the code's own
path, so that they can be compared. `Decisions` adds the yields against the rival
median, each city's logged queue, live readings, the player's reports, and derives
the ledger, each yield's target, candidates and card, the folding of yields that
share a settlement, and the citations; a defence card cites the settlement's queue, the
coverage and the plans (`EvidenceFor`, `DefenseCard`). The figures of the installed
ruleset are one constant: should the file be rewritten while one brief is built, two
readings of one figure would meet in the ledger, and `EvidenceLedger.add` refuses the
second (`evidence.py:46`). No shipped game has both a reviewed guide catalog, without
which no figure is looked up for a card, and an installed ruleset. Ranking among equal candidates and wording
are left out. `BriefSpec` is both together: plans are logged, facts learnt and turns
completed in any order, and with a turn's statistics the yields are compared afresh.

### TurnChanges, Answers

`TurnChanges` plays turns whose truth (ratios, treasury, a plan) is known, hides
parts of it from the files that cannot be read, replaces the guide catalog between
requests, and lets requests in either mode record and compare. Each signal carries the
logs it rests on, as the code has it: a gap its statistics, the evidence that one is
closed the build queues as well (`YIELD_DOMAINS`, `changes.py:53`, `206`), so that a yield
that becomes level in a turn in which the queue log appears or disappears is called not
comparable. `Answers` lets a model select any two questions of the
catalogue, valid or not, and write any two sentences with numerals, a report or a
claim; the number rule (`Check`) and the validation decide whether that or the
deterministic answer is shown. Catalogue questions of one shape share a resolver. A log
that has nothing is answered for by the tuner only in a game whose profile has one behind
the figure (`NotLogged`); the run has both kinds of game.

## 3. Abstract specification

`SnapshotFeed` has no threads and no locks: one active game, one sitting, one
snapshot shown, that either continues the session of the snapshot before it or
opens a session nobody has used. `SnapshotStore` implements it under the mapping
at its end (session <- epoch, sitting <- generation, played <-
`_session_has_data`), which the run checks as the property `ImplementsFeed` and
`StoreImplementsFeed` proves for any games, threads and bounds.

## 4. Fairness

Safety runs use no fairness. `CommentaryWorker!FairSpec` assumes weak fairness of
the executor's steps (`Generate`, `Store`, `Finished`: the HTTP client has a
timeout, so a generation ends), of `Schedule` (the rebuild thread's next
statement) and of a dashboard asking about the snapshot on screen in each mode
(the page asks again every two seconds while the status is a waiting one,
`app.js:2103`). Nothing is assumed about new snapshots or about closing.
`CopilotWorker!FairSpec` assumes weak fairness of each page's poll (the server runs
its threads, a model call ends by its timeout, the page asks again after 2.5 s,
`app.js:1849`) and of the executor. Outcomes are never assumed to be good ones.
`GameWatch` assumes weak fairness of the supervisor's and the poller's loops, and
of a started rebuild, which ends by publishing, being discarded or raising; never
of the game or the player. `Page` assumes it of the server answering a fetch, of a
message or reply that has arrived being handled, of an event being sent, and of
`EventSource` reconnecting, and of the first snapshot after a switch. A thread pool with an idle thread is part of the
poller's guard (`asyncio.to_thread` queues otherwise, which is the same).

## 5. Runs

| Run | Shows | Result |
|---|---|---|
| `SnapshotStore_sessions` | turns advance, seeds stay and a wipe ends a session, over four snapshots with two saves | holds |
| `SnapshotStore_switching` | two rebuilds against two game switches: the snapshot shown, the sessions and the archive stay with their game; refinement of `SnapshotFeed` | holds |
| `SnapshotStore_archive_root` | `ArchivedUnderOwnRoot` | violated |
| `PlayerRecord_restarts` | `NoNoteLost` over three processes, failing saves, a legacy file | holds |
| `PlayerRecord_sittings` | two interleaved requests, two sittings, two games, a current, damaged, unreadable or newer file: what applies was recorded there or accepted, and a note is lost only after a warning | holds |
| `PlayerRecord_pending_lost` | `NoNoteLost` when one process sees two sittings | violated |
| `CommentaryWorker_asked` | generated once, history never goes back, waiting is true and ends, also while closing | holds |
| `CopilotWorker_answers` | composed once and around the answer on screen, one selection at a time until answered, everyone is answered | holds |
| `CopilotWorker_selects` | `SelectedOnce` | violated |
| `Application_scenes` | the pin wins and the watcher watches the active game; figures follow the game and pages hear of it; reports and history stay with their sitting; the page follows and never goes back | holds |
| `Advice_scenes` | figures come from their own reply, game, player and file; plans age but are not dropped; cards tell each gap once and cite what is there; changes are true; prose is vouched for | holds |
| `Advice_fair` | `FairSeesNoPlans` | violated |

Bounds. `MaxRevision` and `MaxGeneration` bound snapshots and switches: a session
rule relates at most three snapshots of a session and four let one of them be an
empty read between rows, with a different save before or after; two switches are what A -> B -> A needs. `SittingsPerProcess` and
`MaxSitting` bound the sittings of the record: three processes let an entry be
held, associated and held again. Three snapshots in `CommentaryWorker` let
a prompt be queued, dropped and wanted again, and two modes on two turns give
the four keys that A -> B -> C -> B with one running needs. In `CopilotWorker` two
pages asking the same thing are the two polls of a race, and two answers and two
snapshots change a request's identity while it is under way.
In `Application_scenes` two bursts per game let one arrive during a rebuild, two
choices let a pin meet a change of detection, two rebuild threads let an old one
overtake a new one; a history of two turns is trimmed by the third of two sittings
of two turns. In `Advice_scenes` four queries and two turns let a late reply of an
earlier turn reach each kind of reader; three rows of two games and two turns give
every order of a border, a reload and a capture; four turns see a plan fresh, old
and out of its window, counted from the first that has a row, since nothing but
a row's age matters (`SoonPlanned`); a brief is looked at with up to four facts in one turn, and
with one fact or row besides the first ones while the next turn's yields come in; three versions of the database, of which two look alike, are
what it takes to be fooled twice, the third written only while one of the requests has
yet to look the file up (`SecondCommit`; the theorem of `RulesetProofs` has no such
limit), and two requests with a lookup each share one provider (they are alike, hence
the symmetry); the first sitting of the changes starts from one world, the second from
any; two recorded turns and a rewrite give every pair
of readings in which one log more or less is there, and a second catalog a pair of
catalogs.
The runs that hold for the record restrict one thing each: `_restarts` has one
sitting per process (with two, `_pending_lost` shows the loss) and a file that can
always be read.

## 6. What the violations show

1. `activate` moves `archive_root` before `switch_to` and without the lock; a
   rebuild of the old game that publishes in between archives under the new
   game's root, which the comment at `store.py:400-404` rules out.
2. `adopt` forgets what it had held for association: `pending` is not among the
   candidates of the next `adopt` (`context_store.py:182`), and the next save
   writes the file without those entries.
3. A copilot poll looks for a finished answer before it comes to the gate, not
   behind it, and `_selection_failed` and `_run` forget the gate. A poll that looked
   in time therefore selects again, after a failure (the trace) or after an answer;
   if that selection fails, `:98` puts a rejection in the place of the answer. Prose
   is still composed once (`ComposedOnce`).
4. The turn history serves both evidence modes and the signal of a card carries no
   provenance (`changes.py:190`). A defence card recorded while a page in oracle
   mode was served is told to the next turn's page in fair mode as no longer observed, although
   `app.py:360-362` and the repository's README (370-372) say that mode hides it.

Others, seen while modelling and without a run of their own. About what happens
around the analysis:

* `adopt` and `record` are separate critical sections, so a slow write can file a
  note under the sitting another request has just adopted (`context_store.py:261`).
* `schedule` with nothing to narrate drops a waiting request without its
  placeholder (`llm/worker.py:85`). With rebuilds in order the next schedule repairs
  that (`CommentaryWorker_asked`; the run has one rebuild thread). When two rebuilds
  overlap, a poller thread that outlives its cancelled watcher and the rebuild that
  starts the new one, the newer prompt stays "queued" until the files change again.
* A first rebuild that raises after a switch leaves no watcher (`app.py:228`), and a
  poll's rebuild that raises is not repeated until the files change
  (`poller.py:57`): the two exceptions in `GameFollowed`. The third is a newest
  rebuild overtaken by an older one in the same sitting.
* An event published while the page's stream is down is lost, and the page does not
  look when the stream is back (`app.js:2153`); and a fetch that fails, a handler that
  raised included, is not repeated (`app.js:159`, `161-166`). The page then stays as it
  is until the next event, toggle or choice: the exceptions in `PageFollows`.
* Two requests inside `History.record` at once may both insert the same turn, which
  is why `HistoryIsNewestTurns` holds only as long as that has not happened.
* A file of a newer schema, reported as "left alone" (`context_store.py:132`), is
  overwritten by the first save; so is a damaged file that could not be moved aside
  (`:149`). Both are in the model (`Load`, `Quarantine`, `Save`).
* A commentary is cached by its prompt, but its identity has more fields; after a
  rebuild with the same prompt the worker answers `ready` with prose whose identity
  does not match what was asked, against `llm/models.py:9`. The page notices and
  hides the explanation; it is not generated again.

About the advice itself:

* Which cards are recorded depends on the mode of the request, so toggling Oracle
  produces changes between turns that did not happen; the docstring of `signals_from`
  (`changes.py:174-178`) says the record does not depend on it.
* A defence card has no family (`defense.py:50-67` gives none), so
  `DECISION_DOMAINS.get(card.family, YIELD_DOMAINS)` (`changes.py:189`) finds the domains
  of a yield for it and never those of `"defense"` (`changes.py:51`): when the tactical
  log comes or goes the card is compared all the same, and when the queue log does it is
  not. `Cards` has it so.
* A late tuner reply that another query reads is taken for an empty one:
  `build_options` then reports that nothing is offered (`tuner/client.py:134`). The
  figures themselves are safe (`FiguresOfOwnReply`).
* A game that begins at a turn no earlier than the last logged one shows no border
  to `latest_game_segment` (`csvfile.py:34-51`), so rows of the game before are kept
  until its own statistics start; a new identity block over old statistics files
  them by the new seating. `FinishedTurnsOnly` and `FiledUnderOwnPlayer` say from
  when on that cannot show.
* A fresh objective with two logged settlements and no exposed unit defers the yields
  but gives no defence card.
* `Civ6Ruleset` shares one `_identity` between lookups. The handlers are plain
  functions on a thread pool and the connection is open to every thread
  (`civ6.py:854`), so two lookups can be under way at once: one takes the identity of
  the file, the other takes a newer one and reads its row, and the first, in
  `_refresh_if_changed`, puts the older one back. The second lookup then finds the
  file as it was before its figures and cites them to a digest that is not of their
  bytes, the window the docstring at `civ6.py:375-385` says is closed. The run reaches
  this: it is the exception (`putBack`) in `ServedWasInstalled`, and only to what a figure
  is cited to; that it is what one version of the file says has no exception. And a
  provider closed during a lookup raises `sqlite3.ProgrammingError`, a file that vanishes
  raises `OSError`, and a locked database reads as a row that is not there.
* A card whose severity falls is told as improving even when its ratio fell, and a
  coverage that is partial on both turns counts as equal whichever files are missing.
* The number rule accepts any numeral of the player's message, a turn included,
  beside a phrase that calls it a claim (`grounding.py:334-342`), and is not applied
  to the `unknowns` of an answer (`conversation.py:312`), which the page shows. The
  transcript given to the model is not filtered by mode (`app.py:520`).

## 7. Proofs

`SnapshotStoreProofs` proves, for any constants that satisfy the assumptions of
`SnapshotStore` (the bounds are arbitrary naturals):

* `TypeCorrect`: `TypeOK`, from an invariant that also relates the control points
  to the jobs (a thread past `ReadGeneration` holds a game and a directory).
* `DiscardRule`: the snapshot shown belongs to the active game and generation.
  Inductive with: a job's generation is never ahead of the store's, while the
  generations agree no switch has happened in between so profile and directory
  agree too, and `logsDir = profile`.
* `SessionsStayInTheirSitting`: adds that a published snapshot of the current
  epoch carries the current generation unless a switch is pending, and that
  epochs of published snapshots never exceed `epoch`.
* `TurnsNeverGoBack`, `SessionsHoldOneSave`, `WipesCloseSessions`: the session rules.
  They are inductive only together (`EpochInv`): `SessionInv` relates the snapshots of
  the current epoch to `snapshot`, `observedKey`, `sessionHasData` and `pendingReason`.
  The newest snapshot bounds the turns of the session while it has rows, and once rows
  were followed by an empty read the pending reason is set and no rows can continue
  the session.
* `ArchivesAreOfOneGame`: a rebuild that still has to archive carries the session and
  the directory of a snapshot it published (`ArchiveInv`), and a session's snapshots
  are of one game, so it does not matter that `activate` moves the root early.
* `StoreImplementsFeed`: the refinement of `SnapshotFeed`. A step of `Publish` is the
  abstract continuation or the abstract opening of a session, a step of `SwitchTo` the
  abstract switch, all others a stutter. `FeedInv` is what makes the first one true:
  rows the session has shown are still on the snapshot unless the reason that will
  close the session is pending.

Each step lemma has one case per action; all actions but `Publish` and `SwitchTo`
leave the relevant state alone and share one lemma.

`GameWatchProofs` proves, for any games, threads and bounds that satisfy the
assumptions of `GameWatch` (`None` is no game and no number, "start" no worker):

* `PinWins` (`PinnedIsActive`): while the supervisor has an answer to apply it holds
  the lock, and the answer is the pin if there is one (`AnswerIsOfThisPin`); while a
  start awaits its rebuild nothing is waiting to be applied (`StartHoldsTheLock`).
* `WatcherOfActiveGame` (`WatchesActive`), from the same invariant.
* `TypesHold`: `TypeOK`, which includes that what is shown was read from the active
  game since the last switch. It needs that a rebuild in flight of the present
  generation has read the active game (`JobsAreOfTheirTime`).

`SittingRequestsProofs` proves, for any requests, forms, sittings and bounds,
`ReportsStayInTheirSitting` (`ReportsOfThisSitting`) and `RevisionIdentifiesReports`
(the action property `RevisionTellsReports`): one lemma for each method of the
report store, and one that a request only holds snapshots of opened sittings. For any
`HISTORY_LIMIT` (a natural number, the only assumption),

* `HistoryHolds` (`HistoryIsNewestTurns`), from `NewestInv`: while nobody has overlapped
  in `record()`, the history is in order, what is seen but no longer there is earlier
  than all that is and there is no room for it, and the one request inside `record()`
  brings a turn that is still not there. `InsertKeeps` and `ReplaceKeeps` say so of the
  two ways a turn gets in; a turn that was trimmed and comes back, perhaps in an older
  reading, is the first of the list and goes again. That as many turns seen are later
  than an entry as entries are (`LaterCounted`) is a bijection.

and, for any number of snapshots and clicks,

* `ScreenAdvances` (`ScreenNeverGoesBack`), from `ScreenInv`: a reply under way, the
  aborted one included, is of a snapshot there was, and the page remembers what it
  painted last while it is blank too, so only a reply no older than that may paint
  (`PaintKeeps`). `PageTypesHold` is from the same invariant.

`PlayerRecordProofs` proves, for any subjects, sittings, games and bounds:

* `PlansAreNotInherited` (`AppliedWasRecordedOrAccepted`), from `ProvenanceInv`: in
  every set the store or the file holds, an entry that no longer carries the sitting it
  was made in was accepted for the one it carries.
* `NotesLostOnlyAfterWarning` (`NoteLostOnlyAfterWarning`), for any file found, games,
  crashes and failing saves, from `WarnedInv`: while a process runs, what the player is
  owed is in memory, moved aside or warned of, what a crash leaves is on disk, moved aside
  or warned of, and all that is offered is warned of, so that an `adopt` that forgets it
  forgets nothing else.
* `NotesSurviveRestarts` (`NoNoteLost`), from `NoteInv`: whatever is owed to the player
  is in the file and, while a process runs, in one of the store's sets. Its hypothesis
  `OneSittingEach` (one sitting for each process, a file of this schema that can be
  read) is the setting of `PlayerRecord_restarts`; without the first part
  `PlayerRecord_pending_lost` is the counterexample.

`CommentaryWorkerProofs` proves, for any dashboards, rebuild threads and bounds:

* `PromptsOnce` (`GeneratedOnce`), from `QueueInv`: the executor works on the active
  key, what waits is another key without a result, and a prompt that was given to the
  model has its result or is with the model now.
* `HistoryAdvances` (the action property `HistoryNeverGoesBack`).
* `WaitingHasCause` (`WaitingIsTrue`), from `WaitInv`, for one rebuild thread
  (`OneRebuilder`). That hypothesis is needed: of two overlapping rebuilds the older may
  drop the newer one's request (section 6).

`CopilotWorkerProofs` proves, for any pages, questions and bounds, `ComposesOnce`,
`NarratesWhatIsShown` and `OneSelectsAtATime`, all from one invariant: `SoughtInv` (while
a request has no answer, the polls that hold a gate hold the one gate of the request,
and every resolution a poll holds is the one stored), `ComposedInv` (what is composed or
queued is composed around that resolution) and `TaskInv` (a task waits or runs once, with
its future). `TypesHold` needs `PollInv`: every question asked is an exchange or still
polled for, which bounds the transcript's length by counting; that a fresh gate is to be
had is the pigeonhole principle.

`AdviceProofs` proves

* `FiguresHold` (`FiguresOfOwnReply`), for any list of queries. `StreamInv` says the
  stream holds whole replies but for the first, and that what has been read of that one
  is all of it; the parsers tell replies by their number of fields (`WidthTells`), so a
  late reply of another query yields no figure.
* `ChangesHold` (`ChangesAreTrue`), for any yields, turns, catalogs and readings of the
  logs: what is compared is two turns of one sitting, the earlier first (`ComparedInv`),
  and then the cases of `Compare`. `ResolvedIsServed` is the other half of the
  equivalence: a gap that is closed is told so when both turns can be compared.
* `FinishedTurns` (`FinishedTurnsOnly`) and `FiledUnderTheirPlayer`
  (`FiledUnderOwnPlayer`), for any games, seatings and bounds, from `StatsInv`: the last
  row of the statistics is the latest of its segment, the rows of this game name the
  player who plays them, and what the engine logged last of the players is this game's.
  What a reader sees of the rows before the last drop of the turn is left behind
  (`SegmentRows`), and `AppendStarts` says what a new row does to the segment: it
  continues it or starts one. The only assumption is `SeatingsAssumption`: a game has
  players, and finitely many.
* `AnswersAreVouchedFor` (`AnswerIsVouchedFor`), for any snapshots, messages, selections
  and texts, from `VouchInv`: what is resolved may be shown in the mode of the request
  (`AskedMayBeShown`, by the questions of the catalogue), and prose that is shown passed
  `Check` against what it cites. `CandidateStates` and `StatedIsCandidate` say that the
  candidates the rule looks among are what the cited facts state, no more and no less,
  at any rounding.
* `SilenceIsNotSafety` (the action property `SilenceOnlyAges`) and `PlansAgree`
  (`FrontierAgrees`), for any rivals, units and finite map of plots (`PlansAssumption`).
  `PlansInv` says rows are of turns, `MapInv` that targets are plots. `PlanInsightIs`:
  the goals of a rival are dated by the newest, so its alert is critical exactly when
  one of them is fresh; `UrgentIs`: so is the context. For the map, `DistanceIs` shows
  that only a plot itself is at no distance from it, `StepsAre` that the frontiers can
  be grown for any number of cities and `StepsReach` that a city stays on the one grown
  from it, so that it is drawn on a frontier it lies on (`NearestIs`).
* `CitedIsInLedger` (`CitationsResolve`), `YieldsStepBack` (`DefenceLeads`) and
  `GapsAreFolded` (`EachGapOnce`), for `BriefSpec` with any yields, cities and plans and
  finitely many items (`CardsAssumption`). `CardsInv` types what is known of the yields,
  queues, offers and figures. From it: the settlement and the item that are chosen exist
  (`TargetIs`, `BestIs`, `WinnerIs`), every candidate rests on facts of the ledger that
  are not intercepted (`RankedIs`), and so does a card (`CardSays`); what a defensive
  candidate rests on is there too (`DefenceEvidenceIs`), and objectives that share an id
  are one (`GoalsApart`: the planned are of one turn, the ordered of another, and no
  attack is both); the gaps nothing
  addresses are one set (`GroupIs`) with a worst member (`WorstIs`).

`RulesetProofs` proves, for any database, subjects and versions:

* `FiguresOfOneVersion` (`FiguresAreWhole`): what a lookup has read since it identified
  the file is of one version as long as the file is still that one, and `Settle` hands out
  nothing otherwise (`WholeInv`).
* `FiguresInstalled` (`ServedWasInstalled`), from `CiteInv`, which relates the figures
  under way and the provider's cached ones to `_identity`, and holds until an older
  identity is put back over a newer.

Both are for any number of lookups at once, on any number of shared providers.

The definitions that stand in the theorems as hypotheses are met by the constants of the
runs that check the same property.

Every safety invariant and action property of a passing run is a theorem. Only
model-checked is what has liveness in it (`GameFollowed`, `PagesTold`, `PageFollows`, the
waiting and answering of the two workers), which the prover cannot do. The modules that keep
records state their types as `TypeOK`; only `SnapshotStore`'s is a property of a run
(those of `GameWatch`, `PlayerRecord`, `CommentaryWorker` and `CopilotWorker` are proved,
as `TypesHold`; every property here that reads a field would fail with the others).

## 8. Not modelled, and what is left

* `activate` replacing the player's record before `switch_to` (`app.py:165`):
  `PlayerRecord` has one file.
* The question pool of `llm/worker.py` (`answer`, `questions.py`): one bounded
  executor whose callers wait; its number rule is the one of `Answers`.
* `ContextStore.invalidate`, which nothing calls.
* Game detection (`games/detect.py`): any answer is possible in `GameWatch`.
* The advisors that map one state to insights without memory (checklist, production,
  victory), and the readers of single log files: their text is parsing and wording.
* Which files the archive copies; the guide catalogue; serializers, prompts and HTTP;
  rendering of the page; the command line.

Worth doing next: the record that `activate` replaces before `switch_to`, as a second
file of `PlayerRecord`; and the question pool, whose identity of an answer leaves out the
snapshot's revision (`llm/worker.py:220`).
