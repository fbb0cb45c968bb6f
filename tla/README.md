# Formal model of Memora: summaries, memories, restores and updates

Memora is a long-term memory plugin for a chat bot. Messages of a session are
stored, cut into windows, summarised by a language model, and the facts found
become canonical memories that later prompts recall. Losing a window, doing one
twice, or forgetting a source that is still needed are the failures that no unit
test shows and no operator notices; the same holds for an edit that loses the
memory it edits, an approval that overwrites a later text, a backup that is
restored by halves and an update that leaves no plugin behind. This project
models the parts of the program that must prevent this, checks them with TLC and
proves their central invariants with TLAPS.

## 1. Inventory of the system

`PROJECT.json` lists every part with its sources and its status. The parts that
carry durable state and their own control logic:

| Part | State | Operations | Talks to | What is hard | What makes it correct |
|---|---|---|---|---|---|
| Conversation store (`features/conversation`) | messages with a sequence number per session, epochs and cursors, window rows, candidate slots, all in one SQLite file | append, edit, delete, clear, expire, trim, plan windows, claim, renew, commit, fail, requeue, recover, reconcile, abandon | called by the scheduler, the message hooks and the operator commands; looks owners up in the memory store | planners with stale context; leases; clears while workers run | windows disjoint and gap free; the cursor is exactly the closed prefix; sources of open work survive |
| Summary scheduler (`features/reflection`) | worker tasks, fetched claims, life-cycle flags | start, claim loop, register, heartbeat, pause, resume, close | conversation store, worker | stale workers occupy slots; claim, reject, requeue cycles; cancellation at any await | parallelism limits; every window settles |
| Summary worker and candidate writer (`features/reflection`) | none that survives | read source, extract, record intents, look owners up, mark writing, gate, merge or write, build the outcome | conversation store, memory engine, quality gate | two databases without a common transaction | what the ledger says exists; nothing is settled twice |
| Memory engine (`features/memory`) | canonical rows with a source state, merged keys, write journal, indexes, graph, atoms | staged write, accept, reject, merge, edit by replacement, edit by compare-and-set, delete, repair | worker, recall, evolution, reconsolidation | late writers; crash between the steps of one write; failures of the journal itself | a verdict on a row is final for other claims; an edit never loses the memory or shows it twice; derived data converge |
| Quality gate and quarantine (`features/quality`) | quarantined candidates, reviews | route, stage, approve, reject | worker, trimming | approval after the source changed | the source of a pending candidate is kept |
| Evolution and reconsolidation | proposals, reviews, applied operations with revisions | propose, review, apply, roll back, recover | memory engine | compare-and-set over a later edit; crash between apply and close | an applied proposal is applied once, to the revision it was made for |
| Backup (`features/backup`) | restore plan and files | stage, apply, mark, roll back | composition at startup | crash between two renames | all files old or all files new |
| Updates (`features/updates`) | the plugin directory and those moved away, the state file | download, switch, reload, roll back, reconcile | the host, which loads the new code in the middle of the operation | crash between two renames; two instances of the installer at once | a version always exists; the state file is true |
| Configuration and composition | revisions, runtime components | save, reload, roll back, start, stop | everything | overlapping saves and reloads | a published revision is the stored one |

Recall, retrieval, injection, cognition, decay arithmetic, identity resolution,
the web API and the dashboard are ranking, formatting, numeric or read-only
code; they are listed as not modelled with the reason.

The hazards of the code, each at its line, are in `PROJECT.json` under
`hazards`, with the properties that would show them going wrong.

## 2. Modules

| Module | Contents |
|---|---|
| `SummaryWindows` | messages, epochs, cursors, window rows, claims and leases, scheduler life cycle, workers, trimming, quarantine staging |
| `SummaryProgress` | abstract specification: how the messages of a session are planned and summarised, implemented by `SummaryWindows` |
| `MCSummaryWindows` | instance for TLC |
| `SummaryLedger` | one window in detail: its candidate slots, the canonical rows, merged keys and quarantine evidence in the other databases, workers that overlap, crashes, startup reconcile, abandon |
| `MCSummaryLedger` | instance for TLC |
| `RestoreTransaction` | the restore of a backup: the plan, the live, previous and payload files, apply, rollback, legacy migration, hot reload, confirmation by the runtime |
| `MCRestoreTransaction` | instance for TLC |
| `ContentReplacement` | one memory whose text is edited by staging a new row, switching visibility and deleting the old row, with the ledger entry, the compensation and the repair at startup, among other writers |
| `MCContentReplacement` | instance for TLC |
| `MemoryReview` | abstract specification: what a review of reconsolidation candidates promises |
| `Reconsolidation` | candidates of one memory: proposal, approval, rejection, rollback with their intents, other writers, both recovery passes; implements `MemoryReview` |
| `MCReconsolidation` | instance for TLC |
| `UpdateInstall` | self-update operations: directories, state file, lock, loads by the host, rollback |
| `MCUpdateInstall` | instance for TLC |
| `SummaryWindowsProofs` | lemmas about window arithmetic and about steps that change rows, the inductive invariant |
| `SummaryWindowsSafety` | one lemma per action, the theorems about windows and cursors, and the refinement of `SummaryProgress` |
| `SummaryWindowsLeases` | the second inductive invariant, about claims, capacity and sources, and its theorems |
| `SummaryLedgerProofs` | inductive invariant of the ledger, one lemma per action, and the theorems |
| `RestoreTransactionProofs` | the two inductive invariants of a restore, one lemma per group of actions, and the theorems |
| `ContentReplacementProofs` | inductive invariant of the edits and the repair, and the theorems |
| `ReconsolidationProofs` | inductive invariant of the review, the refinement of `MemoryReview`, and the theorems |
| `UpdateInstallProofs` | inductive invariant of the self-update, one lemma per action, and the theorems |

### SummaryWindows

One SQLite transaction of the code is one step. Everything between two awaits of
a caller is interleaved: a planning request reads its context (`ReadContext`)
and plans later (`Plan`); claims are fetched (`ClaimReady`) and registered or
given back later (`Register`, `RequeueRejected`); a worker takes one step per
store call. `jobs` is the table `summary_jobs`, `epoch` and `cursor` the table
`session_epochs`, `rr` the persisted round-robin position, `fetched` and
`workers` the tasks in memory, `quar` the rows with a pending quarantined
candidate. Time is relative: `lease` and `wait` are remaining ticks and `Tick`
counts them down; a heartbeat is `Renew`.

Abstractions:

* Messages are sequence numbers. An edit or a deletion inside a window sets
  `intact` to false, which is what the source digest would show.
* A claim token is fresh when no task holds it for this row; it subsumes
  `worker_generation`, which changes together with it.
* The slots of a window are abstracted to `led`: none, planned, open or closed.
  `SummaryLedger` keeps them.
* The loops of `_validated_frontier` and `_advance_cursor` are stated by what
  they stop at (`FrontierAt`, `StopsAt`); with disjoint windows the value is
  unique, which `WindowSafety` proves.
* Rejecting malformed rows, the scope snapshot, counters, the projection
  `pending_summary_json`, the legacy migration and `reset_session_epoch` are left
  out.

`SummaryProgress` knows neither windows nor claims, workers or starts. It keeps, for
the current epoch of a session, the messages planned and those done, and lets a step
plan messages that follow without gap, settle planned ones and move the cursors to
where the done ones stop, or start an epoch over. The refinement maps a message to
planned when a row of the epoch contains it, and to done when that row is completed
or abandoned; `epoch` and `cursor` are themselves. It says more than the invariants
together: a step that settles never plans, a planner never moves a cursor, and a
window never changes what it covers.

### SummaryLedger

`job` and `slots` are rows of the conversation database, `mem`, `merged` and
`evid` are in the memory and quality databases. A worker's step is one call
that reads or writes one database, so a crash, a lost lease or a store error can
fall between any two. `StoreAllowed`, `AcceptSource`, `ActivateSource`,
`FinalizeSource` and `LeaveFence` are the parts of one fenced write: enter the source
lock and check the claim, stage a row (or merge), check the claim in the memory
engine, flip the row, read it back for the derived work, check the claim again. A
failed read-back has the code's own outcome: `get_memory` answers None, and the row
that was just accepted becomes an orphan, without a look at the fence or its state.

Abstractions:

* A key stands for a candidate; two attempts that find the same candidates
  produce the same keys, and an attempt that finds others is the outcome
  "mismatch". The gate's verdict is free in every attempt, because it depends on
  text the language model writes anew.
* `canonical` stands for canonical, mark_write and skipped_idempotent, which all
  name an owner no other slot may name. Merges go to one older memory `Pre`.
* The lookups of all keys at one moment are one read. Errors of the lookups at
  startup are left out; in the worker they are a failure of the window.
* Recovery of expired leases and the reconcile of `start()` are one step: no
  worker runs before both are done.
* A generation number per claim stands for generation, token and fence string.

### RestoreTransaction

`disk` is `restore_plan.json` and `ram` the plan object in the thread that applies
it; `live`, `prev` and `pay` are the data directory and the two directories of the
plan. Each rename, each write of the plan and each unlink is a step, so a crash
falls between any two; an error of the file system is an alternative of the step
it hits and takes the path of the `except` clause the code has for it. `pc` is the
place in `apply_pending_restores` and in the startup around it. `before` is a
history variable: the live files when the plan began to apply.

Abstractions:

* The content of a file is the generation of the payload it came from. A runtime
  that finds a database missing may create it (`Created`). Later writes of the
  runtime are not distinguished from the content they change.
* There is one plan: `stage_restore` refuses a second one while the first is
  blocking, and a plan that has ended is not read for its files again. A plan is
  written last, so a crash while staging leaves no trace but an unused directory.
* The flags `moved_to_previous` and `validated` of the progress are written and
  never read; they are left out. So are the symbolic-link checks, the checks of
  the manifest before staging and the contents of the pre-restore backup, which
  can only fail (`PrepareApply`).
* The validation of the installed files is an arbitrary verdict, except that a
  missing file is refused. The publish gate is an arbitrary verdict too.
* The removal of the directories of a confirmed or cancelled plan is one step with
  the status, because nothing reads them afterwards.
* `reload` stays "failed" after `ReloadFails` until the next restore is staged; in
  the code that is the reason code of the plan.
* The host is external. It may stop or start the plugin at any time. The apply begins
  in the constructor (`main.py:156`), inside a reload, so the answer that this reload
  failed (`ReloadFails`) comes to a task of the old instance at any step of the apply
  or after it. `mark_reload_scheduled`, which reads the plan and writes it back while
  the apply may write it in its thread, is one step.

### ContentReplacement

`row` are the rows of `documents` that belong to one memory, `op` the entries of
type `replace_content` in `memory_write_ops`, `task` the edit under
`_replacement_write_lock` or the repair of `recover_persisted_operations`,
whichever runs. Each call that writes one database is a step: staging the hidden
row, recording its number, switching visibility, deleting the old row, reading the
new one back (`ReadBack`, of the row in `reading`), and the two steps of the
compensation. A row whose read-back fails becomes an "orphan": it is not deleted, but
recall leaves it out (`is_memory_recallable`), and later edits of it inherit the mark.
`waiting` is an edit that has looked at its row and waits for the lock. Users forget rows (`Forget`) and other components overwrite
texts by compare-and-set (`CasUpdate`) between any two steps. A failure of
`advance_op` is only logged in the code, so every closing of an entry has the
alternative that the entry stays as it was.

Abstractions:

* The digest of a text is the text; a row is its state, text and `previous_id`.
  Indexes, graph and atoms of the rows are left out, and so are the journal entries
  of additions, deletions and graph updates.
* One waiting edit at a time. Further waiting edits would be refused or served by
  the same check under the lock.
* The repair selects and visits entries by age, as the code does, and at most
  `RepairBatch` of them (25 in the code). The limit counts entries of all operation
  types; those of the other types are not in the model and take any number of the
  places, so a start selects any run of the oldest entries (`Batch`). An empty one is
  also what happens when `write_reliability.repair_enabled` is off. The verdict
  `replacement_ambiguous` has no action: `CandidateIsUnique` shows it unreachable.
* `forgotten`, `chained`, `since` and `picked` are history variables used by the
  properties.

### Reconsolidation and MemoryReview

`cand`, `aop` and `rop` are the tables of the reconsolidation store, `row` the
memory in the other database. A request is a task with one step per database
call; `asked` are rollbacks that have checked the memory and have not recorded
their intent yet. `phase` is the start-up: first the open approvals, then the open
rollbacks, one at a time and before any request.

Abstractions:

* Metadata keep what the comparisons tell apart: the recall count, the stamp of an
  approval, the summary and one semantic field. They are merged key by key
  (`Merged`), which is what makes a rollback fail its verification.
* A revision is a counter; the code uses the time of the last update. Recalls do not
  change it (`Recall`), edits do.
* The prompt, the confidence, the action log and the expiry of candidates are left
  out, and the refresh of derived data either succeeds or raises (`Abort`).
* Reading the memory and closing the intent are one action, because the store does
  not look at the memory: a write between the two is one after both.

`MemoryReview` knows neither intents nor requests nor starts: a candidate is
applied at most once and only to its base version, undone at most once and only
while its text is there, and the verdict follows the effect. The refinement maps
the candidate's status to the verdict and keeps `effect`, the history of what was
written, as it is. `Conclude(c, "failed")` is free of the effect: a candidate whose
write happened and was overwritten before it could be verified is failed by the
next start.

### UpdateInstall

`root` is the version in the plugin directory, `backup` and `failed` the
directories an operation renamed it to, `file` is `install-state.json`, `mem` the
dictionary the operation carries, and `task` its next step: in `apply_latest` under
`_apply_lock`, then in the reload task, which belongs to the old instance and goes
on while the new one runs. `HostLoad` constructs a new instance at any moment,
which resets the lock (it belongs to the instance) and reconciles the state file.

Abstractions:

* A directory is its version; renaming onto an existing directory fails. The retries
  of a rename on Windows are one rename.
* The archive is good or bad (`Prepare`, `PrepareFails`): the checks of its members,
  the network, the checksum and the dependency installation are not told apart. A
  release is newer than the version the manager was loaded with.
* Removing a tree that fails half way leaves it: nobody reads it again.
* A second cancellation while a cancelled call waits for the switch thread is left
  out.
* The host is external: a load fails before the constructor, succeeds, or is judged a
  failure after it. A request is possible whenever an instance is loaded, also inside
  a reload; this allows more than the host may.

## 3. Runs

Bounds are named constants of the modules and are set in the cfg files.

| Run | Question | Bounds |
|---|---|---|
| `planning` | Do stale planning requests, manual short windows, the startup planner and workers ever cut overlapping or gapped windows, leave the cursor before a closed one or lock the planner out? | one session, windows of three, five messages: a full window, a short tail and a second window fit; no fault |
| `epochs` | Do clears, expiry, trimming, abandon and quarantine staging respect each other, and is every step one of `SummaryProgress`, with one crash, pause, store error or source edit anywhere? | two epochs, three messages, one fault |
| `leases` | Does the cursor pass an open window when windows finish out of order, is a row ever held by two workers that pass the fence, can stale workers push the parallelism over its limits, and does every window settle with back-off and rejected claims? | two windows, two slots, one per session, lease of two ticks, two attempts |
| `sessions_live` | Does every window of two sessions that share one slot settle? | two sessions of one window, one fault |
| `ledger` | Is a completed window backed by what its slots claim, and is the verdict on a row changed by any claim but its own, for every crash, lease loss and failed write or read-back? | two candidates (the fewest that can disagree), two attempts, one fault |
| `restore` | Do crashes, file system errors and failed hot reloads anywhere in an apply, up to its confirmation, lose an original, pass a mixture off as installed, or leave the apply unfinished? | two files (the fewest of which one can be done and one not), one staged restore and one of legacy files, two faults: a fault and one during the recovery from it |
| `replacement` | Do edits, compensation and repair, with forgetting and other writers at any step, delete the memory, show it twice, leave a hidden row behind or a selected entry open? | two edits (the second may meet the open entry of the first), two faults, retry limit three, batches of at most two: none, the older or both of two open entries are selected |
| `reconsolidation` | Do approvals, rejections, rollbacks and both recoveries write without an intent, lie about what was written, leave an intent open, or do anything `MemoryReview` does not allow? | two candidates of one memory, two texts, three revisions by other writers, rows with and without a summary, two faults |
| `update` | Do updates that overlap, loads at any moment and faults anywhere lose the plugin, drop the old version too early, make the state file lie or lock updates out? | two operations, three versions, two faults |
| `ledger_staged`, `restore_retry`, `reconsolidation_undo` | Three statements of section 5 | one or two candidates or files, at most one fault |

Deadlock checking is off in all of them: with its bounded counters used up, and
in the program when all messages are summarised, the system rests.

`planning` and `leases` have no fault, so that they can go through more messages and
attempts; `epochs` has one, and `SummaryProgress` asks of it that nothing is planned
with a gap and that the cursor is exactly where closed windows stop. That windows of
three stay disjoint across a restart is proved and not in a run. One fault is enough
for what the properties relate: every recovery path starts from the state one fault
leaves, and a second fault during recovery meets a store that has committed a prefix
of the same transactions. Lease expiry is
not counted as a fault and happens at any time. Two tokens are enough because a
token only has to differ from those still held for a row. `replacement`,
`reconsolidation` and `update` have two faults, one and one during the recovery from
it; two edits, candidates or operations are the fewest that can disturb each other,
and the proofs have no such bound. The program's limit of
three attempts is a constant; two attempts show a first, a last and a refused
one.

### Fairness

`FairSpec` assumes what asyncio and the code give: the claim loop makes rounds
(a bounded wait in `_wait_for_wake`), each round recovers before it claims;
strong fairness on recovery and on building an outcome says that a step which is
possible again and again, while other tasks interleave, is taken in the end; a
worker task runs to its end because provider calls have timeouts and a window
has finitely many candidates; the clock advances; a stopped scheduler that is
started gets through its startup steps. Nothing is assumed of the heartbeat, of
users or of operators. `EventuallySettled` also has the hypothesis that the
scheduler stays up from some point on.

`FairSpec` of `RestoreTransaction` assumes that a plugin that is down is started,
that not every start is stopped before its startup has run (strong fairness on the
steps of the apply), and that an operator restarts a plugin whose startup failed.
Crashes and errors are bounded, so they end.

## 4. Proofs

`SummaryWindowsSafety` proves for every number of sessions, every window size of
at least two, all lease, retry and parallelism constants, any number of
messages, epochs, requests and faults:

* `TypeCorrect`: `Spec => []TypeOK`;
* `WindowSafety`: windows of an epoch are disjoint, the cursor is covered by
  closed windows, no closed window starts at the cursor, and the frontier of the
  planner is defined; `CursorSafety`, `CursorNeverLags` and `PlannerFrontier` state
  the parts one by one;
* `ProgressSafety`: no step within an epoch moves the cursor back or reopens a
  closed window;
* `ProgressRefinement`: `Spec` implements `SummaryProgress`.

The assumptions are `ConstantsAssumption` and `TokensAssumption`, which TLC
evaluates in every run. The inductive invariant `WindowInv` adds to the
properties that every row is a non-empty interval of a known epoch
(`RowsSound`). Disjointness is not inductive without the frontier: a planner
appends windows from its frontier, so the proof needs that every row above the
cursor lies below the frontier, and that holds because rows tile the range
without gap, which in turn needs that the cursor itself is covered. The argument
has three kinds of step. A *quiet* step changes no interval and lets statuses
change only as `_advance_cursor` allows (`QuietPreserves`); nearly all actions
are quiet and have a lemma that says so. An *enqueue* step adds consecutive
windows from the frontier (`EnqueuePreserves`, which rests on the arithmetic
lemmas `WindowsOrdered` and `WindowsCover`). A *new epoch* starts with no rows
(`NewEpochPreserves`).

The refinement follows the same three kinds: a quiet step is `Settle`
(`QuietSettles`), an enqueue `Plan` (`EnqueuePlans`) and a new epoch `Clear`
(`NewEpochClears`). `WindowInv` implies what the abstract steps ask of a state
(`WindowsReach`): rows tile the planned range, and since no closed row starts at the
cursor and none straddles it, the closed rows reach exactly as far as the cursor.
That a planner leaves the cursors alone is not visible in `Enqueue`, which runs
`_advance_cursor` too; it follows because new rows are not closed and the place where
closed messages stop is unique.

`SummaryWindowsLeases` proves from the same assumptions that of all tasks that ever
claimed a row at most one passes the fence (`SingleHolder`), that leases and tasks
respect both limits of parallelism (`CapsRespected`), that a row with a live lease
leaves "running" only with its task or by a clear (`LeaseExclusion`), and that no
trim, deletion, expiry or clear takes a message from an open window or a quarantined
candidate (`OpenSourcesKept`, `QuarantineChecked`). The invariant `LeaseInv` has three
parts. `Holders`: two tasks that claimed the same row never hold the same token, and
fetched claims and tasks together stay within the limit (a fetched claim already
counts, since `Register` turns it into a task). `Capacity` bounds the live leases;
neither bound follows from the other, because a task may outlive its lease and a lease
its task. `Sources`
adds to the two properties that a cancelled row is of an earlier epoch (so trimming
need not respect it) and that a worker inside the fence still has its source (so
staging a quarantined candidate there is safe). Most steps are *ordinary*: they give no
lease, no token and no message away and rows only move between statuses that need
their source, and one lemma (`OrdinaryKeeps`) covers them. Claiming, registering,
entering and leaving the fence, trimming, deleting, planning and new epochs have their
own.

`SummaryLedgerProofs` proves for every set of candidates, every limit of attempts
and any number of claims and faults, from `LedgerAssumption` and
`NamesAssumption`:

* `LedgerTypes`: `Spec => []TypeOK`;
* `OwnersAlwaysExist` and `CompletedAlwaysBacked`: `Spec => []OwnersExist`,
  `Spec => []CompletedIsBacked`;
* `SettledForever` and `VerdictForever`: the action properties `SettledIsFinal`
  and `AcceptanceIsFinal`. The second has one exception, which the code makes: the
  claim that accepted a row takes the verdict back, still inside its fence, when its
  read-back fails (`TakenBack`).

None of these is inductive: a slot is written from what a worker noted some steps
earlier, in another database. The inductive invariant `LedgerInv` therefore says
the same of workers as of slots: what a worker has noted is there (`Backed`), and
its program counter says which candidates are still undecided (`Shape`). It is
kept because evidence only grows (`Grows`: no step removes a row, a merged key or a
quarantined candidate, or changes a verdict other than by `TakenBack`), which is proved
together with it, action by action, as `Step`. `OwnRow` adds that a worker between
acceptance and read-back works on the row its own claim has staged, so that no other
claim's row can be taken back. `Shut` says that a settled window has no slot the
startup reconcile would scan; with the fence of `Matches` this gives finality.

`RestoreTransactionProofs` proves for any number of files, restores, crashes and
errors, from `RestoreAssumption`:

* `RestoreTypes`: `Spec => []TypeOK`;
* `OriginalsAlwaysKept`: `Spec => []OriginalsKept`, which is about the statuses
  applying and validating: while a restore is applied, resumed and awaits its
  confirmation. It says nothing of a rollback, where the corresponding statement is
  false (`restore_retry`), and nothing across a second staging, whose apply takes its
  own snapshot of what was there;
* `ValidatedAlwaysInstalled` and `FailedApplyAlwaysRestores`: the invariant
  `ValidatedIsInstalled` and the action property `FailedApplyRestores`. Both except
  a plan that a failed reload has staged a second time. The exception is needed:
  `mark_reload_scheduled` resets the status whatever it is and keeps the installed
  flags, so a plan that was rolled back before the host reports the failure is
  taken up again with files it believes installed, and confirmed.

`OriginalsKept` is not inductive: the second of two renames onto the previous
directory would overwrite the original. `Holding` adds that a file whose original
is in the previous directory is not live or has no payload left, so that
`_install_restore_file` cannot move it again; and `Control` that a runtime never
runs over an open plan with a file missing, so that it cannot create one there.
`Holding` covers a running apply (`Installing`) also while the status on disk is not
"applying", since a late `ReloadFails` overwrites it until the next record.
`RecoverInv` adds what a start reads after a crash (`Resumes`) and what the running
apply or rollback knows beyond it (`Progress`), until a reload is reported as failed: a recorded file is the payload, and
a file whose original is not in the previous directory has not been touched.

`ContentReplacementProofs` proves for any number of edits, texts, retries and
faults, from `ReplacementAssumption`: `ReplacementTypes`, `ReplacementNeverLoses`,
`HiddenRowsAreLedgered`, `ReplacementIsExclusive`, `RepairIdentifiesRow` and
`RepairConverges`, one for each invariant of the run. The invariant `IInv` has four
parts besides the types. `Ledger` ties rows to entries: a closed entry has lost one
of its two rows, of two entries for one old row only the open one has its new row,
and without chained edits there is one open entry whose rows are the only ones.
`TaskOK` says that the running task works on an open entry and its rows; `StepOK`
what its earlier steps have established, which is why a deletion cannot hit the last
visible row; `Selected` that during a start without faults a selected entry is open
only until its visit, and the entries that were not selected are newer.

Two of these theorems have limits a reader should know. `ReplacementNeverLoses` says
that the memory has a row that is not deleted; that row is recallable except after a
failed read-back, and chained edits are excepted altogether. `RepairConverges` says that a
start closes what it has selected and that nothing older is left behind; it does not
say that one start closes everything, because one batch need not be enough.

`ReconsolidationProofs` proves for any number of candidates, other writers, recalls
and faults, from `ReviewAssumption`: `ReviewTypes`, `WritesAlwaysIntended`,
`VerdictsAlwaysTrue`, `RecoveryAlwaysSettles`, and `ReviewRefinement`, that `Spec`
implements `MemoryReview`: the initial states map to initial states and every
step, given the invariant, to a step of the abstract specification or to none. The
hard part of the refinement is a rollback at startup, which must not take a later
edit for its own write. `History` excludes it: revisions only grow and what a
candidate remembers of a revision is true of it (`Revs`), two candidates never
overwrite the same revision (`OneWriter`), and the stamp found in the memory belongs
to the last candidate whose write still stands (`Marks`). `Local` relates step,
status, intent and effect of one candidate, `Pass` says that the recovery is alone
with the memory, `Settled` what it has left to do.

`UpdateInstallProofs` proves for any number of operations, versions and faults, from
`UpdateAssumption`: `TypeCorrect`, `NeverLost`, `BackupAwaits`, `StatusTrue` and
`ActiveOwned`. `Kept` strengthens `RuntimeNeverLost`: a directory that is missing is
in the hands of an operation that will not delete it, since a clean-up of one
operation may run while another one is between its renames. `Alone` and `Solo` say
where the versions are and what the file says while an operation runs without
another; `Owner` that only the clean-up ends without a write.

Only model-checked: the liveness properties `EventuallySettled` and
`InterruptedApplyResumes`, because fairness is outside the prover. Every other
property of a passing run is a theorem. No operator of the modules is recursive.

## 5. What the runs found

Three statements of the repository's own text are violated by its code; each run
named here finds the shortest such behaviour, and `PROJECT.json` quotes the lines.

* `ledger_staged`: a crash after a canonical row is staged and before it is
  accepted. The startup reconcile finds the row under its key, does not ask
  whether it was accepted, commits the slot and completes the window: the cursor
  passes a memory that is never recalled.
* `restore_retry`: an error in the middle of a rollback. The retry at the next start
  takes the files that are already back for restored ones and deletes them.
* `reconsolidation_undo`: the first approval of a memory is rolled back with nothing
  else going on. The stamp of the approval survives, the verification fails and the
  intent is blocked for good although the text is restored.

Behaviours the models contain and a maintainer may want to know of, although no run
is about them:

* *Retry of a half-written window* (`summary_store_reconcile.py:584`): one candidate is
  written, another fails; the retry sees a closed ledger with a failure and the
  window becomes unknown without another write.
* *Abandon despite a memory* (`summary_store_abandon.py:37`): the lease is lost after
  the canonical write of the last attempt, the ledger has no owner, and
  confirm-abandon takes the window.
* *Failed slots and startup* (`summary_store_claim.py:485`): the slot of a failed
  candidate stays failed during its retry, so a crash after the new row is staged
  leaves a row no startup looks for; a row staged by a lost claim
  (`memory_engine_idempotency.py:145`) refuses later attempts until the window is
  blocked; a blocked window stays blocked when startup resolves its slots
  (`summary_store_startup.py:608`), and a pause followed by a resume turns writing
  slots without evidence into unknown (`summary_store_startup.py:553`).
* *A failed read hides a memory* (`memory_engine_idempotency.py:260`): after a row was
  accepted, or after an edit has deleted the old row and closed its entry
  (`memory_engine_crud.py:1289`), one failed read marks the row as an orphan. The edit
  reports success, and no repair looks at such a row. In a summary the candidate is
  failed and retries of it are refused by the orphan row; and if the claim had expired,
  a second claim that found the row accepted in the meantime completes the window on a
  row that is no longer recalled.
* *Repair in batches* (`write_op_repair.py:97`): a start repairs at most 25 entries of
  all types, and none when `write_reliability.repair_enabled` is off
  (`memory_engine_lifecycle.py:532`). The others stay open until a later start; their
  rows stay hidden and refuse edits.
* *Rollback never resumed* (`restore_transaction.py:521`): a crash during a rollback
  leaves rolling_back, which no start continues and which blocks further restores. A
  file without a predecessor that was installed and not recorded stays live after a
  rollback (`integrity.py:308`), and a crash while legacy files are gathered leaves
  them in a directory no plan names (`restore_transaction.py:259`).
* *Chained edits* (`write_op_repair.py:904`): an edit whose entry stayed open has
  published its row, which is edited again. The repair of the first entry makes its
  row visible beside the newer one until the second entry is repaired; `OneRecallable`
  and `NeverLost` name the exception, the documents
  (`website/docs/concepts/memory-lifecycle.md:14`) do not.
* *Forgetting during an edit* (`memory_engine_crud.py:1253`): the old row is deleted by
  its user while the new one is staged, and the new text is published afterwards.
* *Edits over an open entry*: a compare-and-set edit of a published row whose entry is
  open is undone by the repair, which no longer recognises the text
  (`write_op_repair.py:764`); an entry whose retries are used up refuses every later
  edit of its row (`write_op_repair.py:71`).
* *Approvals that are never verified*: on rows with `canonical_summary`
  (`memory_engine_crud.py:957`), or when a recall is counted between the write and the
  verification (`reconsolidation.py:337`); a failed read at startup counts as a missing
  memory and fails the intent (`memory_engine_crud.py:828`).
* *Updates* (`installer.py`): a crash between the two renames leaves no plugin
  directory and no code to restore it; a crash while preparing, or in a rollback before
  its first rename, leaves an active status that refuses all further updates, because
  the next instance reconciles only the two statuses whose version it finds; a new
  instance reports success from inside the reload, so a second update can begin before
  the first is judged, and then reports success over the version the first one
  restored; a backup is not removed if the process ends before the verdict. An instance
  that cannot read the state file or its own `metadata.yaml` (`installer.py:607`) is
  loaded and leaves the status as it was.

## 6. Not modelled

The models cover the protocols that change durable state in several steps. Most of
the rest of the repository, which is large, has none: ranking, scoring and fusion of
search results, prompts, injection layout and token budgets, decay and learning
arithmetic, cognition, identity resolution, the page API, commands, diagnostics and
evaluation read, compute, format or do one transaction. Modelling them would restate
assignments, so the mapped share of the source stays small.

Parts with a protocol of their own that are not modelled yet are in the plan below,
and `PROJECT.json` lists every part with the reason. In the configuration manager the
source is read again after a save because the framework may have written it meanwhile
(`platform/config/manager.py:522`); this is the main hazard of `ConfigCas`. A fact can be
stored twice if one attempt merges a candidate and a later one inserts it
(`memory_engine_idempotency.py:103`), which takes a failed lookup; no property covers it.

## 7. Plan

In this order, each as a module with an MC module, mutants and the theorem named:

1. `SummaryLedger` shown to implement the ledger abstraction of
   `SummaryWindows` for one window.
2. `CanonicalWrite`: the journal of an addition, a deletion and a graph update, and
   their repair at startup. Abstract specification: a derived object follows its
   canonical row.
3. `Quarantine`: approval and rejection of staged candidates against their
   source, composed with trimming.
4. `EvolutionReview`: proposals, review and derived projections.
5. `ConfigCas` and `PluginLifecycle`: saves, reloads, shutdown.
6. Topic catalog and learning decisions, as far as time allows.
