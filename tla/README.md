# Draftside in TLA+

Draftside (`fdsouvenir/espn-fantasy-draft-bot`) watches an ESPN fantasy draft from a laptop, delivers
the picks to a Cloudflare Worker, and shows advice on a private dashboard. This directory models the
parts of it whose correctness depends on the order in which things happen: who may write a board, how
the picks travel to it over a network and a browser that fail, and what the board may then be used
for. Paths below are relative to the repository.

## 1. Inventory

| Component | State | Operations | Hard behaviour | What makes it correct |
|---|---|---|---|---|
| Draft session, a Durable Object per draft (`src/draft-session.ts`, bodies checked by `src/validation.ts`) | SQLite: `draft_meta`, `draft_context`, `catalog_players`, `picks`, `seen_nonces`; hibernating sockets | `initializeDraft`, `ingestBatch`, `getSnapshot`, `getHealth`, `fetch` (socket) | several ingestors, late and repeated calls, gaps, conflicts, nonce pruning, thresholds | the board is legal, write-once and never misleads: advice only from a complete, fresh, undisputed board |
| Device access (`src/index.ts`, `src/companion-registry.ts`, `src/security.ts`) | `companion_devices`, `registration_windows` | register, list, revoke, enable, authorize; the ingest routes | each ingest call is three steps with awaits between; requests are repeated and delayed | a request is applied once; a revoked device's never; registration is bounded |
| Laptop companion (`companion/src/draft_companion/runtime.py`, `worker.py`, `cdp.py`) | in-memory picks, frame queue, tracked sockets, checkpoint and health files | enroll, attach, read frames, heartbeat, ingest in parts, checkpoint, reconnect, stop | lost answers, late requests, crashes, page reloads, frames without pick numbers | only true picks at their true slots reach the board, all of them do, retries are harmless |
| Frame decoding (`frames.py`) | none | INIT and SELECTED frames | binary layout, int32 | contiguous board or an error |
| Live ingestor (`scripts/run_live_ingestor.py`, `scripts/espn_ingestor.py`) | collector state, checkpoint | poll, reduce, split, deliver, recover gaps | retries, partial delivery, corrections, resets | like the companion's, from whole-board polls |
| Draft-room ingestor (`scripts/run_draft_room_ingestor.py`) | local picks, debugger connection, checkpoint | read frames, `commit_snapshot` | frames of sockets it did not see created, a debugger that goes silent, restarts by hand | the companion's, without its reconnects |
| Ranking (`src/ranking.ts`) | none | `rankAvailable` and its parts | floating point, seeded simulation | deterministic; only available players |
| Dashboard (`web/app.js`) | last snapshot, socket, reconnect timer, pill, recommendations on the page | fetch, render, reconnect, local staleness timer | answers out of order, four writers of the pill | one channel, no false "Live", settles on the final board, withdraws advice |
| Device identity and credentials (`credentials.py`) | two and three keyring entries | load or create, store with rollback | failure or death between two writes, two creators | one whole identity |
| Command line, status window, service (`cli.py`, `ui.py`, `packaging/debian`) | pid file, configuration, initializer, health file | run, start, stop, configure, buttons, service restarts | two starters, dead and reused pids, a refused configuration | one companion at a time; setup is all or nothing |
| Catalog and draft preparation (`scripts/build_catalog.py`, `compile_sheet_release.py`, `build_draft_init.py`, the Worker's `validateInit`) | HTTP cache, catalog, release and initializer files, the pinned catalog | four commands in any order | a cache that outlives builds, inputs at the boundaries of four separately written contracts | current data, usable scores, true slot order, an initializer the Worker accepts |
| Configuration, safety check (`config.py`, `scripts/check_repository_safety.py`) | none | parse, scan | none | input validation |

How they interact: the companion enrolls with the registry, reads ESPN's frames through Chrome's
debugger, and posts signed envelopes to the Worker; the Worker asks the registry, verifies the
signature, stamps `receivedAt` and calls the session; the session commits and tells the dashboard's
sockets a new revision; the dashboard fetches a snapshot and can revoke the device. Before the draft, the catalog is
built from ESPN, overlaid with a reviewed Sheet, joined with the league's pick slots and pinned by the
Worker.

## 2. Modules

| Module | Models |
|---|---|
| `DraftBoard` | abstract: a write-once, injective board of slots with a cursor, poisoned by the first dispute |
| `DraftSession` | the Durable Object; one action per RPC outcome; `getSnapshot` and `getHealth` as state functions; refines `DraftBoard` |
| `DraftSessionProofs` | theorems about `DraftSession` |
| `Companion` | ESPN's room and page, the companion, the network between, and the session (its checks and updates are those of `DraftSession`, instantiated over this module's variables) |
| `CompanionProofs` | theorems about `Companion` |
| `LiveIngestor` | ESPN's draft detail, the polling ingestor with its reducer and gap recovery, the network between, and a session that may be reset (again `DraftSession`'s operators) |
| `DraftRoomIngestor` | extends `LiveIngestor` with its second source: the draft room's frames through the debugger, which share `commit_snapshot` and everything after it |
| `DraftRoomIngestorProofs` | theorems about `LiveRunner` with either source |
| `Keyring` | the keyring's entries and the calls that write them, one entry a step |
| `Laptop` | extends `Keyring` with the processes, the pid file, the service manager, the window's buttons and `configure` |
| `LaptopProofs` | theorems about `Laptop` and the keyring in it |
| `Dashboard` | one page, its socket, its fetches in flight and its timers, against a session that moves |
| `DashboardProofs` | theorems about `Dashboard` |
| `CatalogFetch` | the loads of a catalog build: `JsonFetcher` with its cache, retries and ETags |
| `CatalogFetchProofs` | theorems about `CatalogFetch` |
| `DraftPreparation` | extends `CatalogFetch` with the four programs that turn sources into a pinned catalog, as operators and one action per command |
| `DraftPreparationProofs` | theorems about `DraftPreparation` |
| `WorkerAccess` | registry, signed requests, overlapping Worker calls, the session's nonce table (again `DraftSession`'s operators) |
| `WorkerAccessProofs` | theorems about `WorkerAccess` |
| `MC*` | instances for TLC |

### DraftSession

The variables are the tables: `context` (the initializer, or `NoDraft`), `status`, `revision`,
`last_ingest_at`, `source_cursor`, `conflict_count`, `picks`, `seen_nonces`, plus `announced`, the
revision of the last broadcast, and the wall clock `now`. A Durable Object call is atomic between
awaits and `ingestBatch` has none, so a call is one step: `IngestCommit`, `IngestConflict` (which
counts the conflict before and outside the transaction) or `IngestRefused`; `InitializeCreate`,
`InitializeAgain` or `InitializeRefused`. The Worker stamps `receivedAt` before the call reaches the
object; the model lets it be any of the last `MaxDelay` ticks. `Envelopes` is what `validateIngest`
accepts; `EnvelopeFits` is `validateEnvelopeAgainstDraft`. Rounds and round picks are functions of the
overall number; a batch, strictly ordered by overall number, is a set; a fingerprint is the
initializer it digests.

### Companion

`pc` is the place in `Companion.run`: `down` (no process), `attach`, `greet` (the heartbeat after
attaching), `read`, `beat`, `post` (one part of the board per request), `checkpoint`, `sleep` (after a
failure), `stopped` and `done`. `FailKeeping` is the common `except`/`finally`, with what the
checkpoint file holds then: a failed write leaves the old file, a failure after the write (of the
evidence log or the health file) the new one (`CheckpointFails`). An exception of another class than
those of `runtime.py:282`, as `cdp.py:64` and `:86` raise, ends the process as a crash does and the
service starts it again: `Uncaught`, any number of times. A request ends in one of four
ways: the session commits and the answer arrives (`HeartbeatAcked`, `PartAcked`), commits and the
answer is lost or unacceptable (`AckLost`), refuses (`Refused`), or nothing comes back (`Unanswered`,
after which the request may still arrive: `LateArrives`). A post carries a fresh UUID and timestamp
each time, so nonces never refuse one and are left to `WorkerAccess`. The age of the last ingest is
one bit, `fresh`.

External and assumed: picks are made in slot order; the page's socket sends INIT when it opens and a
SELECTED frame per pick; frames of one socket arrive in order. INIT boards have no holes: a keeper
league whose INIT lists pre-assigned later picks is not modelled (see the plan).

### LiveIngestor

`pc` is the place in `LiveRunner.run`: `down`, `initialize`, `poll`, `deliver`, `checkpoint`, `done`.
`Poll` is a whole poll: `normalize_draft_detail`, `CollectorState.apply` against the checkpoint, and
`build_batch`; a corrected pick ends the run (`PollCorrected`). `parts` is what is left of the loop in
`_deliver` and of the recursion of `post_one` in it: its head is the request in flight, an
acknowledgement with recoverable picks puts the parts of the recovery before the rest (`Backfill`).
The picks of `self.state` are those of the checkpoint file whenever a poll reads them, because only
this process writes the file, so one variable, `saved`, stands for both. A retry (`Unanswered`, which
may leave the runner where it is) posts the same part. ESPN fills slots with at most `MaxHoles` empty
ones before, declares the end, and takes picks back; an operator may reset the session.

### WorkerAccess

A companion-ingest call is `Authorize`, `Verify`, `Ingest`, or `CallEnds` at any point. `sent` holds
every request ever signed; any of them may start a call at any time, any number of times. Client
clocks are off by up to `MaxSkew`. `barred` is a history bit: the device was revoked when the request
was signed, and was not enabled since.

### DraftRoomIngestor

The mode is fixed at start: `poll`, or the room with or without `--reload`. In the room,
`LiveIngestor`'s variable `espn` is `main`'s local board, which dies with the process while the
checkpoint does not. `RunnerSteps` are `LiveIngestor`'s own actions, so that delivery, gap recovery
and checkpoints are those of `commit_snapshot`. `DebuggerAfter` is the connection that ends with the
process. The room's picks are made in order; a new socket's first frame is INIT.

### Keyring and Laptop

An entry holds the number of the creation or configuration its value is from, 0 for none. A
`load_or_create_device` call is its two reads, two writes and the rollback, each a step; writes may
raise (`Fault`), rollbacks too, and a process may die between any two (`Crash`). `proc` holds the
place of every living process: waiting for Chrome, loading credentials, initializing, running,
stopping, or, for a `start` command, about to spawn. A process number is reused only as
`Recycle` says, because the pid file's meaning depends on it. A `start` looks for Chrome only after
it has enrolled, and may end there (`ChromeMissing`).

Five variables are history, read by no action, and let the properties say what is left behind by whom:
`overlapped` holds the pairs of creations that were under way at once, `torn` the creations that left
their first entry behind, `finished` those that stored both, `raced` says that some living process was
started in a race, and `loose` that a configuration left secrets behind and none was completed since.
The properties hold in every state, with their history as the only excuse, and each excuse names the
entries or processes it is about: two first starts within the same moments can create two devices and mix
their entries, but the keyring never mixes creations that follow each other, and the Worker is told of
such a mixture only if the first of them was cut short while a slow reader had read its id; two `start` commands within Chrome's launch
give two companions, but the lock works again when they are gone; a failed configuration can leave new
secrets, but never new routing with old ones.

### Dashboard

A fetch is two steps, `Served` (the session answers) and `Render` (the page gets the answer), and any
number of others may come between. The pill is what `setConnection` wrote last; `cards` says whether
recommendations are on the page. The session is a revision, the time of its last ingest, and the end
of the draft at the last revision; session and page share a clock. Every event handler of the socket is
an action; an error leaves the socket `closing` until its close event comes.

### CatalogFetch and DraftPreparation

ESPN may publish a source anew, or go back to an earlier version, between any two steps; a cache file
may be damaged at any time. A build loads its sources one after the other; the result is written by
`BuildCatalog`, which applies the normalization (`NormalizePlayers`, `ExtractDepth`, scores in exact
fractions) as operators. `CompileRelease` takes a Sheet from `RoleSheets` and `FlagSheets`,
`ReadLeague` an answer from `Leagues`; `BuildDraftInit` or `DraftInitRefused` follow, and `Initialize`
is the Worker's `validateInit`. A text is missing, short, `long` (too long for `build_draft_init`), or
`wide`: within its limit in Python's code points and beyond it in the UTF-16 units the Worker counts.
The three numbers of a player that the Worker bounds more tightly than its writer (`adp`,
`projectedPoints`, `auctionValue`) are kept; of his eligible slots the model keeps how many they are.

## 3. Runs

| Run | Question | Instance | Result |
|---|---|---|---|
| `board` | board integrity | 4 slots in snake order, 2 teams, 8 offers (honest, a rival, a reused event id, a wrong team, a player outside the catalog), batches of 2, 4 nonces, a still clock | holds |
| `time` | freshness, nonces, refinement | 3 offers, clock 0..5, stale 2, dead 3, retention 2, calls up to 1 late | holds |
| `safety` | truth of the delivered board | 4 slots, parts of 3, frames 2, one crash, one late request, any number of uncaught exceptions, both values of `reload_on_attach`, stop and revocation | holds |
| `live` | every pick arrives | 2 slots, parts of 1, one crash | holds |
| `access` | replay, revocation, rate limit | 3 devices, one of which signs next to the live ingestor; 2 requests, 2 calls, clock 0..4 | holds |
| `ingestor` | truth of the board delivered from polls and from room frames | 3 slots in one round of which the first two belong to one team, 2 frames, parts of 1, one hole, one pick taken back and given to a rival, one death, one reset, one late request | holds |
| `laptop` | what identities, companions and setups can be left behind | 2 process numbers, 2 creations, 2 configurations, 2 faults, 1 `start` | holds |
| `prep` | from sources to the pin | 3 players, 1 depth chart, 13 fixtures, 40 combinations of sheets, leagues of 2 and 3 teams with every single field of two slots changed, 4 commands | holds |
| `dashboard` | what the page shows | 2 revisions, 2 fetches in flight, 1 failing fetch, 1 reconnect, clock 0..2 past stale and dead | holds |
| `gap` | the live ingestor closes every gap | 4 slots, parts of 2, one hole, one death | violated (section 6) |
| `format` | an unknown format stops advice | as `safety`, nothing fails | violated (section 6) |
| `editorial` | the Sheet's flags reach the advice | as `prep` | violated (section 6) |

Why the bounds suffice: in a snake of two rounds slots 2 and 3 belong to one team, the smallest
instance where a misnumbered SELECTED passes the draft-order check; parts of 3 split a board of 4 in
two unequal parts; two frames let a pick arrive between an INIT and its delivery; one late request and
one crash are enough to set an old view against a newer one; four nonces let every slot be filled
without reuse; 0..5 passes stale, dead and retention with one tick of delay on each side. The clock of
`board` stands still because `time` moves it; `time` has few offers because `board` has many. In
`access`, tolerance 1, delay 1 and retention 3 are the smallest durations that satisfy
`2 * Tolerance + MaxDelay <= NonceTtl`; the code has 60 seconds, the duration of a call, and 24 hours.

In `ingestor` three parts of one pick are the smallest split in which a part is neither first nor
last, and one each of hole, correction, death, reset and late request meet in every order. Its second
slot is a traded one, so that a shifted frame passes the draft-order check. In `laptop` two numbers
are enough for a companion next to a start, for two creators, and for a dead number in the pid file;
two creations are the fewest that overlap or follow each other; two faults let a write and its rollback
both fail; the second configuration can repair what the first left. In `prep` a constraint cuts combinations that cannot matter: builds
over the network are followed to the file they write, and beside no file that only fixtures could have
given; what comes after is followed from fixtures,
whose data are the same; the pick slots are varied under one base catalog, which they do not depend on;
and a stale release is kept only beside a base with the same numbers. The fixtures, sheets and leagues sit at the boundaries of the checks (shares of 100,
ranks 1, 361 and 400, ordinals 0, 20 and 21, adjustments of 6 and -6, 21 starters, draft positions and
auction values of -1, 1000 and 1001, projections of -101, -100, 1000 and 1001, 32 and 33 eligible slots). In
`dashboard` two fetches are the smallest number that can overtake each other, and two revisions let an
old board come after the final one.

The deadlock check is disabled where the system ends by itself: in the runs of `LiveIngestor` and
`DraftRoomIngestor` with the draft, in those of `DraftPreparation` with the pin, and in `laptop`, where
the bounds on commands and faults stop everything. The other systems can always take a step. Symmetry is used
over nonces, calls and passive devices, only where no liveness property is checked.

Each property of a passing run has a mutant in `PROJECT.json`: a plausible bug in one definition that
makes TLC find the property violated.

## 4. Fairness

`FairSpec` of `Companion` assumes weak fairness of the steps the process takes by itself (`Start`,
which the service manager retries every two seconds; `Wake`, `Deliver`, `BeatDue`, and the end of a
request by its timeout). It assumes strong fairness of steps that a failure can pre-empt: attaching,
reading a waiting frame, an acknowledged heartbeat, each acknowledged part, the checkpoint, and the
page's socket opening while the debugger is attached. That is: page, network and disk may fail
infinitely often, but not every single time, and exceptions that the loop does not catch may end
the process infinitely often too. The room's picks, the page's failures, `Uncaught`, crashes, stops
and revocations have no fairness. In `format`, which ends in a temporal violation, nothing
fails at all (`MayFail = FALSE`), so its counterexample owes nothing to it.

`FairSpec` of `LiveIngestor` assumes that somebody starts the ingestor again whenever it has died
(the repository has no supervisor for it, so this is generous), and that no poll, checkpoint write or
request with a given pick fails every single time. The counterexample of `gap` needs one death only,
and then shows the ingestor refused for ever although everything else works.

`FairSpec` of `Dashboard` assumes that the polling interval keeps firing and that every fetch is
answered or fails in the end; fetches fail a bounded number of times. Nothing is assumed of the socket,
which may stay closed for ever: the poll alone must do.

## 5. Proofs

TLAPS proves, for all values of the constants the assumptions allow:

- `DraftSession`: `TypeOK`, `BoardLegal`, `CursorCoversBoard`, `AdviceKnowsEveryPriorPick`,
  `FreshAdviceHasEvidence`, `BoardWriteOnce`, `ClockNeverRewinds`, `NoncesOutliveTtl`,
  `RevisionTracksBoard`, and `ImplementsBoard`.
  The inductive invariant `IInv` adds two facts to the first three. `Pristine`: an uninitialized object
  is empty. `Witnessed`: the last ingest either has its nonce row or is more than `NonceTtl` old;
  without it freshness cannot be related to the nonce table. With `CursorCoversBoard` the last overall
  pick is the cursor (`LastIsCursor`), from which the clock's monotonicity follows.
  Assumptions: initializers are well formed, offers are pick events, `StaleAfter <= DeadAfter` and
  `StaleAfter <= NonceTtl`.
- `WorkerAccess`: `TypeOK`, `AppliedOnce`, `RevokedNeverApplied`, `RegistrationBounded`.
  `AppliedOnce` is an argument about time: a committed request's nonce row is pruned only after
  `stamp - Tolerance + NonceTtl`, and no call can carry the request beyond
  `stamp + Tolerance + MaxDelay`. `IInv` says that every applied request is still remembered or has
  expired in this sense; it is inductive because calls in flight are recent (`CallsRecent`) and
  verified ones timely (`CallsTimely`). The assumption is `2 * Tolerance + MaxDelay <= NonceTtl`.
  `RegistrationBounded` needs that the counter of a window is at least the number of devices
  registered in it for as long as a call stamped in that window can come, from
  `MaxDelay <= Minute`.

- `CatalogFetch`: `FetchTypeOK` and `ResultIsCurrent`, for every set of sources and contents. A 304
  lets the build use the data it has cached, so the invariant `FetchInv` says that a tag, in the cache or
  in the load that read it there, belongs to the data next to it. It rests on ETags that name contents
  (`CatalogFetch` uses the content as its tag) and on a damaged file not passing for a copy.

- `Dashboard`: `OneChannel` and `LiveMeansLive`. `ChannelInv` says where the channel is: all sockets but
  the last are closed, and the timer is set exactly while the last one is closed too. `AnswersInv` says
  that an answer of a completed draft is not stale, which `PillAfterRender` relies on when it ignores
  staleness there.

- `Companion`: all seven safety invariants, and `EverythingCommits`: the session refuses nothing that the
  companion posts. Every view of the room is a prefix of it (`ViewsArePrefixes`), requests on their way
  included (`LateIsTrue`), so that no two of them can disagree. SELECTED frames carry no pick number;
  that they are counted from the right start is `FramesContinue`: the frames to be read carry on from
  the companion's own count, and those of a tracked socket catch up with the room. `AckedIsStored`
  with `PartInRange` says what the place in the loop promises of the session. Assumptions: no two slots
  have the same player, parts hold at least one pick.
- `DraftRoomIngestor`: `CheckpointIsAcked`, `OnlyCorrectionsConflict`, `CursorIsTrue`,
  `DoneMeansAccounted`, `RoomBoardIsTrue` and `CommitMeansStored`, of the runner with either source.
  `IInv` joins three arguments. Until a pick is taken back, snapshot, checkpoint, parts, late requests and
  session agree with what ESPN shows (`Agrees`, `TrueRow`). Until the session is reset, a pick of the
  snapshot is stored or in a part still to be sent (`AckedInv`). And the last part of a batch always
  has the cursor of the whole snapshot (`RunnerInv`), so that its acknowledgement names whatever the
  session misses, and splitting or recovering never moves that duty elsewhere. For the room,
  `Continues(c)` counts the picks known after each frame. The largest slot of a set exists because set
  inclusion on finite sets is well-founded (`LastExists`), which replaces an induction.
- `Laptop` (with `Keyring`): `DeviceIsWhole`, `IdentityIsOne`, `PidFileLocks` and `SetupAllOrNothing`, for any
  number of processes, creations, configurations and faults. The keyring's part of `IInv` rests on two
  facts. `Related`: a creation begins only while none was completed, so that all which are under way or completed
  overlapped one another. `TokenKept` and `IdKept`: every token that was read or enrolled is of a
  completed creation, and the id beside it is its own, or of one that overlapped it, or was deleted by the
  rollback of one. `LockInv`: while no living process was started in a race at
  most one companion or start lives, and past its wait for Chrome the file names it. `SetupOrder` and
  `SetupClean` say for every place of `configure` which generation each secret, the initializer and the
  routing may be from, the copies kept for the rollback included.
- `DraftPreparation`: `DepthIsBest`, `ReleaseIsUsable`, `SlotOrderIsTrue` and `InitIsAccepted`, for any number of
  players, charts, rows, teams, rounds and starters, any fixtures and any Sheet. The commands run in any
  order and files outlive them, so the inductive invariant `FilesInv` says of each file what its writer
  gave it: the base catalog is the normalization of well-formed data (`IsBase`), a release is a catalog
  of at most four explanations of a kind with scores in range (`IsCatalog`), an initializer is that of
  an accepted league and a validated catalog (`IsInit`). The rest is about the operators.
  `NormalizedRows` and `DepthHoldsBest` say what the two loops of `build_catalog.py` have computed after
  any number of rows and listings. `BaseRecord` and `CompiledRecord` bound the scores: the build's is at
  most 78 * 9000 + 12 * 10000 and the compiler's at most 85 * 9000 + 15 * 10000 + 60000, 975000 of the
  1000000 that the contract allows, so the clamp at 120 never lets anything through; the shares enter
  through `OpportunityBounded`, because no position's weights exceed one. `PassedIsLegal` and
  `LegalIsPassed` count pick slots by surjections between sets of the same size.
  Assumptions: what the readers' conversions let through (`IsRows`, `IsChart`, `SheetAssumption`,
  `LeagueAssumption`): ranks are integers or missing, slot numbers and counts are naturals, midpoints
  whole percentages.

The theorem modules' induction rules take an operator as parameter, which the provers cannot instantiate.
Where an argument runs over data, the proofs look at a smallest counterexample instead: set inclusion on
finite sets is well-founded, so a set of numbers has a least one (`Least`) and what passes from each number
to the next holds of all (`Upwards`). A recursion over numbers and a fold over a finite set therefore have
a solution (`RecursionExists`, `FoldExists`), which is what the folds of the community modules choose
(`ListFoldExists`).

Only model-checked: `PicksReachBoard`, `PageSettles` and `AdviceWithdrawn`, which are liveness
properties under fairness (their proofs need ENABLED, which TLAPS does not support here), and the three
statements that runs violate. Every safety invariant and action property of a passing run is also a
theorem.

## 6. Where code and documentation differ

Shown by a run:

1. `docs/laptop-companion.md:56` says an unexpected format marks guidance stale. The reconnect loop
   heartbeats on every attach, so the session stays fresh (`format`).
2. `scripts/run_live_ingestor.py:455` builds a recovery from the part that revealed the gap, with that
   part's cursor. When the part is an early one of a split batch and the gap lies beyond it, the
   Worker answers `invalid_cursor`, the ingestor dies, and every restart repeats it (`gap`). It takes a
   hole in ESPN's board that is filled later, a death before the checkpoint, and more than 100 picks
   that are not checkpointed. The next part would have filled the hole by itself.
3. `tests/ranking.test.ts:73` and `:93` expect the ranking to use the Sheet's flags and guardrails, and
   `ranking.ts:484-497` reads them from the stored catalog. `validateInit` (`validation.ts:146-168`)
   copies named fields only, and these are not among them (`editorial`). The release's own scores
   contain the numeric adjustment; the floor of an "avoid" flag and the guardrails are lost.

Met while modelling, without a run of their own:

4. `docs/architecture.md:89` calls different data at a stored pick number a conflict. If the player
   reported is already stored at another slot, `validateEnvelopeAgainstDraft` refuses the batch
   first (`draft-session.ts:605`), and no conflict is recorded.
5. The status window explains `complete` as "The complete board has been delivered" (`ui.py:120`). A
   companion stopped with a full board in memory and nothing acknowledged writes `complete`
   (`runtime.py:300`).
6. `companion/README.md:28` says a revoked laptop's window shows "Access revoked". A companion that is
   revoked while running shows `reconnecting` until it is restarted (`runtime.py:282`).
7. `scripts/run_live_ingestor.py:200` splits a completed board into parts that all say `drafted`, of
   which only the last has the completion cursor. Until it is acknowledged the session is complete,
   healthy and without a gap, with a part of the board.
8. If ESPN replaces a pick that was never checkpointed, and the session is then reset, a request from
   before can still arrive and store the old player; the ingestor's heartbeats compare slot numbers
   only and do not notice. `CommitMeansStored` is worded accordingly.
9. `web/app.js:256` says "Recommendations are paused" of a source that stopped, but the local timer
   that writes it (`app.js:550`) leaves the recommendations on the page; the next successful poll
   removes them (`AdviceWithdrawn`). An answer that was overtaken shows an older board until the next
   poll (`PageSettles`).
10. `build_catalog.py:5` says its players match the Worker's contract. `InitIsAccepted` names what
    the Worker alone refuses, and `BeyondBuilders` collects it: an `adp` or `auctionValue` above 1000
    and a `projectedPoints` outside -100..1000 (`validation.ts:118-127`; the build has lower bounds only,
    and none for the projection, which comes from the league's own scoring), a depth ordinal above 20
    (`:143`), and a text whose limit holds in code points and not in UTF-16 units (`:15`). More than 20
    starters of one kind, which `build_draft_init` allows up to the roster's 40, are refused too (`:184`).
    Before that, `build_draft_init` refuses what neither the build nor the compiler limits
    (`ReleaseIsUsable`, `Oversized`): a name of more than 160 characters, a reviewed text of more than 240,
    more than 32 eligible slots, more than 5000 players.
11. A depth slot whose name ends in 0 makes `depth_score` divide by zero (`Divisible`); the build dies.
12. An editorial row also changes the formula of a player's score (`build_catalog.py:397` against
    `compile_sheet_release.py:344`), so a row with the flag "avoid" and no adjustment can raise it.
13. The Sheet's expiry dates are checked when the release is compiled, and never again, although
    "Expired data [...] contributes zero" (`docs/ranking-data-design.md:126`).
14. `stop` (`cli.py:316`) signals the number in the pid file as long as some process has it, also when the
    companion died without removing the file and the number was given to another program (`Recycle`).

## 7. Not modelled

Signatures (a request carries a valid signature of its token) and the rotation of the service secret;
request size limits (2 MB for an initializer) and header checks; `percentOwned`, `byeWeek` and
`injuryStatus`, whose bounds in the build imply the Worker's; names, statistics and explanations of catalog entries, and the
floating-point scores of `ranking.ts`; device names and times of last contact; the byte layout of
frames; the evidence log; the parsing of configuration files; packaging apart from the service unit;
the dashboard's device list, filters and pick clock; the repository safety check.

## 8. Plan

Done: `DraftBoard`, `DraftSession`, `Companion`, `WorkerAccess`, `LiveIngestor`, `DraftRoomIngestor`,
`Keyring`, `Laptop`, `Dashboard`, `CatalogFetch`, `DraftPreparation`, and the proofs of every safety
invariant and action property that the runs check. Left, in this order:

1. What the companion's and the ingestor's deliveries are to the abstract `DraftBoard`: the session within
   them refines it, by the argument of `SessionImplementsBoard`.
2. Keepers: INIT boards with holes, for `Companion` and its heartbeat cursor.
3. Operators against reference definitions: roster needs with the flex slot, next own pick, frame
   decoding.
