# supabase-lab: a verification project in TLA+

supabase-lab measures how a hosted platform behaves: a harness runs test modules
against real projects and records evidence, and some experiments contain programs
of their own. This directory models the parts whose correctness does not depend on
the platform but on their own control flow, checks the models with TLC on small
instances and proves the main results with TLAPS for every value of the constants.

Paths below are relative to the repository root.

## 1. Inventory

### 1.1 Sampler (`harness/src/sampler.ts`, `host-pause.ts`) - modelled, proved

`sampleDuring` probes several connection paths while an operation (a restart, an
upgrade) runs, and reports for each path when it went down and when it came back.

* State: per path a `PathState` (counters, `firstFailMs`, `pendingRecoveryMs`,
  `recoveredMs`, `healthyAtStart`); the shared `stop` flag; the watchdog's last
  wake-up; the recorded host pauses.
* Operations: one asynchronous loop per path (probe against a deadline, record,
  sleep), the watchdog (early stop, pause detection), the main function (await the
  operation, the watchdog, the loops; `finalise`).
* Hard: the loops, the watchdog and the main function interleave; probes answer
  late or never; the machine may sleep or the event loop may block; one pass over
  the samples has to find the first *sustained* recovery.
* Correct if: the windows are what a reader of all samples would report; a run
  that ends early has earned it; results are final; a pause is not silently lost.

### 1.2 Runner (`harness/src/run.ts`, `settle.ts`, `plan.ts`) - modelled, proved

`main()` plans the modules, runs them one after the other, records how each ended,
writes the artifact and picks the exit code. `settleModule` races a module's promise
with its optional timeout and with the *drain* of the event loop, by which a promise
that nothing can settle is found.

* State: the plan; the index of the current module; the armed race, its timer and
  the wake-ups under way; results, unsettled modules; artifact files; exit code.
* Hard: a wake-up, a timeout and a settlement may come in any order, some of them
  for a module that was abandoned; abandoned modules keep handles; the harness's own
  calls may hang or throw between the two artifact files.
* Correct if: every planned module has one outcome, its own; destructive modules come
  last; the exit code agrees with the artifact; a hung module is found.

### 1.3 Client-keyed objects (`experiments/client-keyed-objects`) - modelled, proved

A client that encrypts files before it stores them, with keys from a key service and
a catalogue in Postgres.

* Uploads (`client/src/upload.ts`, `catalogue.ts`): S3 multipart and TUS over the same
  ciphertext. State: the asset row, the chunk hashes, multipart uploads and their parts,
  TUS uploads, the object; per process, what it has read of them. Hard: a process may
  stop between any two writes, another one resumes with "only the catalogue row and the
  server's state", several may do so at once, requests are repeated after a lost answer,
  the TUS URL is saved by a callback nobody awaits. Correct if: every stored byte has its
  hash, a complete asset is readable and stays what it is, an upload can be finished.
* Reads (`client/src/read.ts`, `envelope.ts`, `keys.ts`), the key service
  (`keysvc/server.ts`) and the policies (`supabase/migrations`). State: the process's
  caches of rows and keys, the two halves of a window that arrive in parallel. Hard: short
  last chunks and range ends, ranges the server ignores, short answers, damaged objects, a
  membership lost in between, a CDN that answers without asking the policy. Correct if: a
  read returns the plaintext of its range or fails, fails only for a reason, and after the
  membership is lost returns at most what the CDN still has.
* Sessions (`client/src/ctx.ts`): sign-in and token refresh, shared by concurrent
  callers. State: access token, refresh token, the request in flight; Auth's current
  refresh token. Hard: single flight, refresh tokens that can be used once, lost
  answers, retries, two clocks. Correct if: a token that is handed out has its margin or is
  fresh, the code itself never wastes a refresh token, every call settles.

### 1.4 Governed starter kit (`experiments/governed-starter-kit`) - modelled, proved

* Purchase requests and decision webhook (`sql/10-app.sql`, `sql/30-integrations.sql`,
  `supabase/functions/webhook-sink`): rows under row-level policies, a trigger that queues
  an event with `pg_net`, a sink that counts deliveries and forwards the first to Slack.
  Hard: two managers at once, rollbacks, repeated deliveries, a sink cut off halfway.
* Agent (`supabase/functions/agent`, `app/src/app/assistant`): a tool loop around a model
  whose writes wait for a confirmation, and the page that shows the card. State: the
  transcript on the page, the card, the jobs under way, the audit table. Hard: answers
  lost after the write, a job that goes on when nobody waits for it, limits reached in
  the middle of a turn, a page that is no longer busy while its card is not back yet.
* Fan-out API (`supabase/functions/fanout-api`, `sql/50-fanout.sql`): parallel upstream
  calls under deadlines with a per-user cache. Hard: upstreams that hang after their
  headers, overlapping screens of several users, a cache that fails.
* MCP server and mock upstream: request-scoped adapters, no state of their own.

### 1.5 Edge failover worker (`experiments/edge-resilience/worker`) - modelled, proved

A cache in front of a primary with an optional standby, a failure marker and a hold
window. State: the marker and the cached entry at the edge, the writes behind
`waitUntil`; per request, what it has read. Hard: the marker is read before and written
after the origin's answer, by requests that overlap, and its write may land late or never.
Correct if: the standby is used only when the primary failed recently, and an error is
shown only if everything that could have served the request failed.

### 1.6 Restart runbook and change gate (`experiments/lifecycle-ops/lib`) - modelled, proved

`supervise` probes a project, detects a lasting failure of its data path, restarts the
project when every guard rail allows it and verifies the recovery; the change gate reads the
status page for it. State: the history of restarts, shared by all episodes; per episode the
runs of good and bad rounds and the cached status and gate. Hard: decisions on cached
readings and on the time of an observation that lies awaited calls back, an operator who
restarts too, an unanswered restart, a fault that flaps. Correct if: restarts keep their
distance, are sent for a lasting fault only and never against advice, a recovery is one, and
an episode ends at its cap.

### 1.7 The rest

`mgmt-api-faults/lib` and `client-retries/lib` inject faults between clients and the
platform. The other runbooks (`tenant-promotion`, `key-rotation` and others)
are procedures against the platform. The remaining experiments, by far most of the
repository's lines, are probes and recorded outputs and have no control logic of their own
beyond the contract of a module, which Runner models. `PROJECT.json` lists each of these
with its reason.

### 1.8 How the parts interact

Runner calls a module's `run()`; modules that measure downtime call `sampleDuring` with
probes from `real-probes.ts`; the restart runbook is called by one of them, with the same
probes. Uploads and reads take tokens from the session of their
region and keys from the key service; they meet only in the catalogue and the object
store. The agent's tools write the purchase requests whose decisions send the webhook.

In the models, `Agent` extends `Decisions` and takes its write steps from it, so that a
confirmed write, another manager's decision, the trigger and the sink run together.
`Upload` implements `Asset`, the life of an asset as its readers see it; `Read` starts from
what `Asset` promises and adds damage. The other interfaces are kept open: Runner lets a
module do anything a promise can do, Sampler lets a probe and the operation do so, and
in Upload and Read a failed token or key request is one more failed call.

## 2. Modules

| Module | Models | Run by | Proofs |
|---|---|---|---|
| `Sampler` | `sampleDuring`, `finalise`, the clock | `MCSampler` | `SamplerProofs` |
| `Runner` | `main`, `settleModule`, `createDrainWatch`, `planRun` | `MCRunner` | `RunnerProofs` |
| `Upload` | `upload`, `resume`, `runParts`, `runTus`, `CipherSource`, `finish` | `MCUpload` | `UploadProofs` |
| `Asset` | what an upload promises (abstract) | through `Upload` | through `UploadProofs` |
| `Read` | `readRange`, `readAll`, the envelope's arithmetic, caches, `unwrap`, read policies | `MCRead` | `AccessProofs` |
| `Session` | `Ck.session`, `Session.token`, `Session.grant` | `MCSession` | `AccessProofs` |
| `Decisions` | purchase requests, trigger, `pg_net`, `webhook-sink` | through `Agent` | `AgentProofs` |
| `Agent` | assistant page, agent function (chat and confirm), tools, audit | `MCAgent` | `AgentProofs` |
| `Fanout` | `fanOut`, `callOne`, the cache and its functions | `MCFanout` | `FanoutProofs` |
| `Failover` | the worker's cacheable reads, marker, hold, `waitUntil` | `MCFailover` | `FailoverProofs` |
| `Runbook` | `supervise`, `Detector`, `RecoveryTracker`, both `decide`s, `gateView`, `regionStatus` | `MCRunbook` | `RunbookProofs` |

In all of them an action is the code between two awaits. JavaScript runs one callback at
a time, so nothing else can interleave; in Postgres a statement or a commit is one step.

**Sampler.** `pc`, `at` and `due` are the loop of each path: where it is, the instant of its
latest sample and when its timer fires. `ProbeAnswers` and `ProbeDeadline` are the two ways
a sample ends, `PathWakes` the loop's condition. `WatchdogWakes` is one turn of the
watchdog. `OperationSucceeds` ... `Rethrows` are the main function. Time is the wall clock
since `t0`; a timer fires before time passes it, except in a host pause, which is either a
suspended machine (`HostSleeps`: the monotonic clock stops, timers keep what they had left)
or a blocked event loop (`LoopBlocked`: timers become overdue). `oks`, `fails` and
`suspended` are history, read by properties only. The texts of failures, the `down` flag
that guards a log line and the log are left out.

**Runner.** `plan`, `skipped` and `chosen` are computed in `Init` by `planRun`. A module's
`work` is pending (something keeps the loop alive), hung (nothing can settle it), settled or
thrown. `Drained` is `beforeExit`; `DrainWakes` is its listener when a race is armed (a timer
is set, delivered later by `WakeFires`), `DrainExits` when none is. Timeout timers are
unreferenced and do not keep the loop alive. `handles` are the modules that are over and
left a socket or a server open (`Leaves`), which keeps the loop alive until it is closed
(`HandleCloses`). A module that settles with null makes `main` reject at the first use of its
result (`ModuleSettlesNull`). `Holding` are the modules that may keep what they hold for ever;
`Shadowed` says that the handle of another module keeps the loop from draining while the
awaited one, without `timeoutMs`, can never settle. An outcome is counted per module; the rows a
module returns are not looked at, and a module that returns no row has an outcome here and
none in the artifact. The offline modes (`--merge`, `--diff`, `--facts`, `--list`) are left
out: they return before the plan.

**Upload.** `row`, `hashes`, `mpu`, `parts`, `tus` and `object` are the catalogue and the
server; `loc` is what a process has in memory. A ciphertext chunk is the triple of what
determines it (key, content, index), a byte names the chunk it is of, an ETag is the content
of its part. `Stop` ends a process before its next step, which covers a kill, a failed call
and an answer lost after the call took effect; a process that is over may call `resume()`.
For TUS, lost answers are in `TusPost` and `TusPatch`, of which any part may have been
stored; `patching` holds the saves of `tus_url` that nobody awaits. `TusHash` is
`CipherSource.chunk`: hash, then keep this chunk and the one before. `torn` remembers that a
process stopped between two writes that belong together (`Tears`). S3, Postgres, the TUS
server and tus-js-client are external: a row's id is unique, an upsert replaces,
CompleteMultipartUpload takes only an open upload and matching ETags, a PATCH must be at the
server's offset, the server refuses to replace an object, tus-js-client repeats a request
after a HEAD and does not await `onUploadUrlAvailable`.

**Asset.** Absent, uploading, complete; readers get one content from then on. The mapping is
`state <- row.state` and `readable <- Promised`, what decrypting the object with the row's
key and comparing it with the catalogue gives, computed from the whole of the server's state.

**Read.** One read is followed step by step; the other reads of the process meet it only in
the caches and are `OtherReadCaches`. Lengths are in units. A unit of ciphertext says of which
asset, chunk and chunk count it is, which is what the tag check binds. `Objects` are what may
be in storage (swapped, foreign, longer, shorter by a unit or a chunk, one unit changed), with
hashes of the intact asset or of the damaged object. `FetchCipher` may be given the range,
the whole object or either cut short. External: the catalogue's policy, and storage's on the S3
and the signed paths, look up the membership at every request. On the `authenticated` path a
CDN stands before storage: `edge` says that it has the object as it was once given to this
caller, and then it answers without asking the policy (`EdgeHit`), as
`experiments/residency-facts/RUNLOG.md` records under R05c, until `EdgeEvicts`, which nothing
bounds. `read.path` is the path a read was asked to take.

**Session.** One region's session. `request` is the one grant in flight, `pc` what each caller
awaits. `AuthGrants`, `AuthSeesUsed` and `AuthRefuses` are the external token endpoint: it
rotates the refresh token on every grant; a token used before is refused or, within
Auth's reuse interval, answered again. There are two clocks: `now` is the client's, and Auth dates
a token (`Issues`) by its own, which is behind by any of `Lags` (ahead if negative), another
one each time; `given` is what was left of a token when it was handed out, by the client's
clock, and its age. Time is counted in units of 30 s: a margin of two
units, a request limit of one, back-offs of 1 to 3 s that pass within a unit or reach into
the next. A request the client has given up on is handled by Auth before that or never.

**Decisions.** `request` holds the committed rows, `txn` the update a session has made and not
committed; a second update of the row waits for it (`Unlocked`) and then sees what was
committed. `Commit` makes row and event visible together, `Rollback` neither. `sink` holds
the runs of the function, `deliveries` the receipts. A delivery that never comes, a refused
secret and a failing trigger are all the same thing here: nothing makes `Deliver` happen.

**Agent.** Of the transcript only its end matters: `open`, the tool calls of the last assistant
turn that have no result. A job is one run of the function; `waiting` is the one the page
waits for. `Fails` is every way in which the page gets no answer; a write that is under way
goes on. `PutCardBack` is a step of its own because the page awaits the error's body after
it has stopped being busy. `ModelCalls`, `ModelAnswers`, `ModelTruncated` and `ModelFails`
are the external model: it may call any tools, and takes only a transcript in which every
call is answered. `Create`, `DecideUpdate` and `DecideCommit` are steps of `Decisions`.

**Fanout.** A body is its owner and the time it was made. `Begin`, `CacheRead` and `Gather` are
`fanOut`, `HeadersArrive` ... `Deadline` are `callOne`; one timer covers headers and body.
Cache rows expire `Ttl` after they were *written*. `PutDelay` bounds how long the write takes
(external: one upsert of the database).

**Failover.** `req` is a request of the worker with the deployment (`env`) it runs under;
`writes` are the cache writes behind `waitUntil`, which `Land` in any order or never. Statuses
are abstracted to classes: ok, other client errors, 403 (which is also how an unroutable
origin looks) and 5xx or an exception. `failures` is history. Entries are not evicted during a
run, an assumption about the edge cache that only `FailsOnlyIfAllFail` needs.

**Runbook.** `ep` holds the locals of `supervise`, `pc` the call it awaits, each of which takes
up to `Slow`. `Observe` is the whole of a round up to its first await; if the caches are fresh
it goes on to the decision and the restart in the same step (`ReadStatus`, `ReadGate`,
`Decide`), otherwise `StatusAnswers` and `GateAnswers` do. `okSince` is `cleared` before the
restart and `rec` after it: a detection needs a failing round, so the former is empty then.
Each gate reading comes from a status page out of `Pages`: any statuses of the region's
components and any two incidents, each with what the patterns find in its texts. `Against` is
not from the code: it is what a reader would take for a warning. `PostLost` is a restart that
is made although the call fails. Of the episode the logged parts (`modes`, `decisions`,
`statusTransitions`, `failedSamples`) are left out. `statusRead`, `gateRead`, `against`,
`lastOk`, `lastBad` and `unrecorded` are history.

## 3. Runs

Each passing run has, for each of its properties, a mutant in `PROJECT.json`: a plausible
bug in the modelled code under which TLC finds the property violated.

| Run | Instance | Shows |
|---|---|---|
| `sampler` | 1 path, about six samples, one pause of 3 units of either kind | the one-pass window equals the window of the full history; counters agree; `maxWaitMs` stops sampling; `pausedMs` reports all of a pause and only pauses; an early return follows a recovery; returned windows never change; the sampler ends |
| `sampler_early_stop` | 2 paths, `maxWait` 9 | *violated*: see section 6 |
| `runner` | 4 modules (one destructive and first by id, one needing a capability, both with a timeout and handles they may hold for ever; one of another experiment; one for another vantage), all 32 combinations of flags | order, one outcome per module and its own, truthful exit codes; hung modules are found and the run ends unless shadowed by another's handle |
| `upload` | 2 processes, either transport, 3 chunks of 3 units, parts of 2 chunks, TUS slices of 2 units, 2 faults (S3) or 1 (TUS), 4 TUS uploads | stored bytes have their hash, a complete asset is readable, `Asset` is implemented, an upload is completed unless torn |
| `upload_stranded` | the same | *violated*: see section 6 |
| `read` | sizes 0 to 5, chunks of 2, a tag of 1, windows of 1 and 2 chunks, every range, 7 objects with either hashes | exactly the plaintext or an error; no false alarm; after revocation only what the CDN has, without hash check and log |
| `session` | 2 callers, a token lifetime of 3 units, Auth's clock 1 ahead, right or 2 behind, 1 retry, two losses, three tokens | a token has its margin or is fresh, no used token without a loss, every call settles |
| `governed` | 3 jobs of one user, another manager, 2 requests, 2 sink runs, 2 tool calls, 2 turns, 1 message | writes confirmed, a page that can go on, decisions final, the receiver told the truth, Slack at most once |
| `governed_retry` | the same, no sink | *violated*: see section 6 |
| `fanout` | 2 screens of 2 users, 2 endpoints (max-age 1 and none), deadline 1, write delay 1, time to 4 | cached data is young enough and the user's own; every screen is answered |
| `failover` | 3 requests, 4 deployments (standby or not, outage or not), hold 1, time to 2 | the standby is earned; an error means that all failed |
| `runbook` | 2 paths, 1 trigger, interval, detection and settling 1, cooldown 3, 2 restarts in 6, polls 2, cap 4, calls up to 1, time to 8, 1 restart by the operator | restarts spaced and earned; recoveries real; episodes end at the cap |

**Why the bounds are enough.**

* The window needs five samples to show failure, lucky sample, failure, candidate, settled;
  `sampler` has room for six, and two pauses are no different from one for a watchdog
  that compares only with its last wake-up. Paths share only the clock, the stop flag and the
  early break: the proofs are for any number of them, and `sampler_early_stop` runs the early
  break with two: one fails and recovers, the other has a probe in flight. What
  `NullIsEarned` says of a path left without recovery needs two paths as well, more than the
  full history allows in one run: with one path TLC decides its first part, the rest is proved.
* Races in the runner need a module, its successor and a late callback of an earlier one:
  three modules run together.
* In uploads a last part shorter than the others (3 = 2 + 1), slices that straddle chunks
  (2 against 3) and two processes make every overlap. Every TUS upload beyond the first costs
  a fault or the other process's start, so that four URLs are never used up.
* Reads of 0 to 5 units with chunks of 2 contain the empty asset, whole and short last
  chunks, ranges that begin, end or both inside a chunk and windows of several chunks.
* In session two callers make the shared refresh, and one lost answer the repeated use of a
  token. A lifetime of 3 against a margin of 2 and a lag of 2 gives a token that looks as if
  it were expiring when it arrives, so that the sign-in itself leads to a shared refresh.
* A repeated confirmation and a message in between take three jobs; an overlapping delivery
  two sink runs; a turn with a read and a write, two calls; a limit reached with a call
  outstanding, two turns.
* Fan-out needs two overlapping screens, the second reading what the first wrote at the last
  moment: 4 units of time hold the deadline, the delay, the life of a row and its end.
* In failover a third request reads the marker of an older failure that lands after a newer
  one; the proofs cover every other number.
* In the runbook, 8 units hold three restarts at the closest distance, so that the cap per
  window both refuses and, once it has moved on, allows one, and one episode held beyond its
  cap; a poll of 2 is longer than an interval, so that decisions use cached readings.

`MaxTime`, `MaxSuspends`, `MaxFaults`, `LastCall`, `MaxTokens`, `MaxLosses`, `MaxChats`, `MaxNow` and the
sizes of `Jobs`, `Sinks`, `CallIds` and `Urls` exist only for TLC. Symmetry is declared among
requests of the worker, jobs and sink runs, in runs that check safety only.

**Fairness.** Sampler: timers fire, awaited promises continue and time passes; a probe may
hang and the operation may never return. Runner: the event loop runs what is due; a module
outside `Holding` ends or loses what it waits for, and what it left open is closed; one inside
may hold its handle for ever.
Upload: awaited calls answer and somebody resumes a stopped upload; faults are bounded; the
un-awaited save of the URL owes nothing.
Session: time passes, timers fire, answers that arrived are read; neither Auth nor the
network need ever answer. Fan-out: timers fire and the database answers or refuses; upstreams
owe nothing. Bun's, Node's and Deno's event loops give exactly this: no due timer and
no ready continuation is passed over for ever. Agent, Failover, Read and Runbook are checked for
safety only and assume no fairness.

Deadlock checking is on where the program has an end (`Ended`, `Exited`, `Quiet`, `Over` and
`done` stutter only then) and off in `failover`, `governed`, `governed_retry`, `fanout` and
`runbook`, where servers simply have nothing left to do when the bounded requests or the bounded time
are used up.

## 4. Proofs

`SamplerProofs` (for any finite set of paths and any interval, deadline, settle and wait time,
slack and pauses):

* `TypeCorrect`: `Spec => []TypeOK`.
* `WindowsCorrect`: `Spec => []WindowMatchesHistory`. The property is not inductive: from
  the window alone one cannot tell that the next good sample does not complete a sustained
  recovery that began earlier. The invariant `Windows` adds that all samples are dated at
  or before the one in progress (so that a new one is the latest), that the
  pending candidate is the *first* good sample since the last failure, and that no run since
  it is long enough yet. The heart is `WindowSuccess` and `WindowFailure`: a new latest
  sample moves each part of the window as the history requires.
* `CountsCorrect`: `CountInv` adds that the histories are finite; `Windows` supplies that the
  sample in progress is later than all recorded ones, so each recorded instant is new and
  each counter grows with its set.
* `EarlyReturnIsEarned`: `EndInv` ties the end of the watchdog to either the hard stop or a
  recovered path, and recoveries are never undone. `EarlyInv` dates the outages that are still
  open: when the watchdog breaks there are none (`AllSettled`), so one that is recorded
  later comes from a probe that was on its way at the break, and such a probe is at most a
  deadline old (`Young`, `OpenIsLate`), the pauses of `PauseInv` aside.
* `ReturnedIsFinal`: once returned, loops and watchdog are done, so no step writes.
* `SamplingStops` (`HardStop`) and `PausesReported` (`PausedReported`), both from `PauseInv`.
  Host pauses aside, the timer of a running loop, and the clock while it runs, are bounded by
  the last time it tested `stop` and the wait; every long pause that began before the
  watchdog's last wake-up lies inside a recorded one; and what the watchdog believes was
  paused is paid for by real pauses and one interval each. The last is about a sum over a
  changing set: the lemmas `IsSum` to `TotalAtLeast` say that the sum of a finite set does not
  depend on the order and grows with the set.

`RunnerProofs` (for any finite set of modules, any flags):

* `SortedLists`, `PlanInit`: the sorted plan lists the runnable modules, each once,
  read-only ones first.
* `TypeCorrect`; `OutcomesInOrder` and `OutcomesCorrect` from `OrderInv` and `RaceInv`: the
  armed race is the one awaited, and a wake-up under way belongs to a module that can never
  settle and is the one awaited or an earlier one of the plan, so a late wake-up finds
  another module current and changes nothing.
* `DestructiveModulesLast` from the order of the plan and `OutcomesInOrder`.
* `ExitCodesHonest` from `ExitInv` (what each place in `main` says about the artifact) and
  `UnsettledInv` (`unsettled` is non-empty exactly when an outcome is a drain or a timeout).

`FailoverProofs` (for any set of requests and deployments, any hold, any bound on time):

* `TypeCorrect`, `StandbyOnlyWhenEarned`, `ErrorOnlyWhenAllFail`, all from one inductive
  invariant `IInv`. The properties speak of a request that has been answered; what makes them
  true is spread over its way there. `MarksReal`: the marker, and every marker write that has
  not landed, is the time of a real failure (so that it does not matter which lands, when, or
  whether). `RequestOK`: what a request read is such a time; if it is trying the standby
  first, some failure is within the hold of its choice; which origins have failed it at each
  place; and if it arrived at a warm cache, the cache is still warm. `Kept` shows that
  another request's steps disturb none of this, since failures and warmth only grow; then
  there is one lemma per action.

`AccessProofs`, sessions (for any callers, lifetime, margin, timeout and clock of Auth's):

* `Usable`, `MarginKept`, `RefusedAfterLoss`, `Served`. The invariant adds to the properties
  `InTime` (a grant in flight is not older than the timeout, and neither is the token it
  brings), `WaitersServed` (what each caller awaits has a request behind it) and `Agreed`
  (without a loss, the refresh token in memory or in the answer under way is the one Auth
  will take). `Usable` needs nothing of the clocks. `MarginKept`, that a token has its margin
  always, has the hypothesis `SkewSmall`: margin, timeout and what Auth's clock is behind fit
  together into a lifetime. Section 5 says when they do not.

`AccessProofs`, reads (for any asset size, chunk size, tag length, window and object in storage):

* `Closed`, `Justified`, `Revoked`. `PlaceOK` and `AnswersOK` say of the read at each place
  that it has returned exactly a prefix of its range, in whole windows, and that each half of
  the window that has arrived is what storage or the catalogue holds. What a window's
  decryption then gives is arithmetic: `Stretch` (the units of a part of the ciphertext), the
  lemmas on where a chunk lies, and on gluing stretches. `DoubtOK` (an error is explained) and
  `LateOK` (a read that began without the membership has got past `FetchCipher` only by a hit of
  the CDN, and past the hash check and the log only with both off) carry the other two theorems.

`UploadProofs` (for any processes, transports, file size, chunk length, part sizes and faults), in
three layers, each an invariant that rests on the one before:

* `TypeCorrect`, from `Types`: what each place of a process knows and what the server can hold.
* `BytesHashed` (`StoredBytesHashed`), from `Hashed`: every byte in the object, in a part, in a
  TUS upload *and* in the memory of a process that is about to send it has its row in
  `asset_chunks`. The property is not inductive without the memory: the bytes are read, then
  hashed, then sent, and the process may stop in between.
* `Implements`: `Spec => AssetSpec`, the refinement of Asset, under the hypothesis `OneLayout` (all
  processes cut parts of one size). `InPlace` says that every part, every TUS upload and the
  object are the stretch of the one ciphertext they stand for, so that what
  CompleteMultipartUpload assembles, or the last PATCH completes, is the whole of it, and
  `FirstUnit`, `ReadableIs` and `RowMoves` turn that into Asset's steps. Without `OneLayout` the
  theorem is false: `resume` takes the parts it finds for parts of its own size
  (`upload.ts:239`).

The lemmas below them are about the arithmetic of chunks, parts and slices (`PartPlace`,
`SlicePlace`, `CutPlace`) and about gluing stretches (`StretchGlue`, `StretchFlatten`, by induction
over the number of pieces). `AccessProofs` has its own, since a read cuts the ciphertext
by windows and not by parts.

`AgentProofs` (for any sessions, jobs, requests, sink runs and calls):

* `Final`, `Truthful`, `ForwardedOnce` about Decisions, from `DInv`: the row an open
  transaction has changed is held by it alone, deciders are not the submitters, of the runs
  of the sink for one event at most one forwards, and the receipts count the deliveries.
* `Confirmed`, `Unstuck`, `TypeCorrect` about Agent, from `AInv`: what each place of a job says
  about its call, what the page's card and transcript have to do with the job it waits for,
  audits come from confirmations, and, for each call, executions plus confirmations still owed
  are at most the confirmations given. Agent's steps that are Decisions' steps keep `DInv` by
  the same lemmas.

`FanoutProofs` (for any screens, users, endpoints, lifetimes and deadlines):

* `Honest`. The property looks at a screen that has used a cache row; the invariant follows
  the data from the upstream's answer (`Since`: not older than the call) through the write
  under way (`Pending`: not older than the delay) into the row and back to a screen.

`RunbookProofs` (for any paths, guard rails, polls and slowness):

* `Spaced`, `Recovered`, `Bounded`, `EarnedAlways`. `HistoryOK` says which restarts the history
  holds in relation to the time and to the episode's own, `EpisodeOK` what each place of
  `supervise` knows: how old the observation, the status and the gate reading in use are, and
  how long the trigger has been failing. A restart is dated by the moment it is sent,
  with no await after the decision and not before the observation from which the decision
  counts: this is what makes `RestartsSpaced` true.

The assumptions are the `ASSUME`s of the modules, evaluated by TLC in every run; they
say that times and counts are natural numbers (or integers) and non-zero where the code needs
it, sets are finite, module ranks are distinct, jobs are sessions and call ids start at 1,
the agent's target is a request, a TUS request is no longer than a chunk, deployments are the records they are meant to be, and `None`
is none of the values it stands beside. Two theorems have a hypothesis besides: `Implements` has
`OneLayout` and `MarginKept` has `SkewSmall`.

Induction over data is done where it is needed (the length of a sequence, the size of a set)
with the claim as a *set* of numbers or of sets, since the provers cannot instantiate the
library's induction rules over operators.

Only model-checked: liveness (`Terminates`, `HungRecorded`, `RunEnds`, `Resumed`,
`CallsSettle`, `ScreensAnswered`), which is out of the prover's reach. Every invariant and every
action property of the passing runs is the subject of a theorem.

## 5. What is not claimed

* `PausedReported` speaks of pauses longer than an interval plus the slack (shorter ones may
  hide in the normal sleep, as in the code) that began before the watchdog's last wake-up: the watchdog is their only observer, and after its early
  end a pause leaves no trace, although `sampler.ts:41-45` describes `pausedMs` up to the end
  of sampling.
* A settled recovery may contain a host pause in which nothing was sampled; the code
  believes the two good samples around it, and so does the model.
* `HungRecorded` and `RunEnds` except the runs that stay `Shadowed`, and assume that a module which
  may hold its own handle for ever while it is awaited declares `timeoutMs`, as
  `types.ts:118-120` asks. The exception is a disagreement with the same comment: it says that
  a module whose promise never settles with nothing pending is caught without a `timeoutMs`,
  but the handle an earlier module left open, or still holds after it was abandoned, keeps the
  loop from draining (`settle.ts:51`), so that the hung module is not found and the run never
  ends. The instance of `runner` contains these runs.
* `RevokedReadsOnlyEdge` does not say that revocation is immediate: what the CDN answered to the
  caller before, it may answer again on the `authenticated` path, and the process still has
  the key. A read with the hash check or the access log asks the catalogue and fails.
* `TokensUsable` does not promise the margin of a token that was just issued. `token()` compares
  Auth's `expires_at` with the client's clock and does not look again after a refresh
  (`ctx.ts:102-116`), so that it hands out less than "a token with at least 60 s left"
  (`ctx.ts:95`) by its own comparison when Auth's clock is far behind:
  `experiments/client-keyed-objects/RUNLOG.md:161-165` records 260 s, and `scripts/ck.ts:45`
  sets tokens of 300 s. `MarginLeft` is that promise, `MarginKept` proves when it holds. Whether
  the services take a token depends on their clocks.
* What an abandoned module does to the project under test is outside Runner.
* Upload's properties are for processes that were given one file and one `partChunks`. Neither
  is in the row: `resume` checks only the size, and parts cut with another `partChunks` are
  taken for other chunks. The callers have to ensure both.
* An answer of the model that is cut at `max_tokens` inside a tool call leaves a page that can
  only be reloaded; it is the exception in `NeverStuck`.
* A Slack message is sent at most once; it may be lost, because a failed forward is never
  repeated.
* The runbook's distances are to restarts in its history. A restart whose call times out or
  fails after the platform has accepted it ends the episode as `restart-refused` and does not
  enter the history (`runbook.ts:369`), so that the next episode may restart again without
  the cooldown; `runbook.ts:53` promises it for "ours or recorded". The project itself is not modelled: any probe, status or
  page may follow any other, whether a restart was made or not.
* Sign-in with wrong credentials and Auth failing are one action, `AuthRefuses`, bounded like
  the losses.

## 6. Findings

* `sampler_early_stop`: the watchdog breaks when the paths that have failed *so far* have
  recovered. In the trace that is at 4 units, while the operation is running and the second
  path has a probe in flight; its failure is recorded after the break, so nothing waits for
  that path, and when the operation returns sampling ends with the path reported as not
  recovered, before `maxWaitMs` (`sampler.ts:196`, `225`).
* `upload_stranded`: a process that stops between CompleteMultipartUpload and the row's
  `upload_state`, or before the row has its upload id, leaves an asset no `resume` can finish
  (`upload.ts:197`, `221`); over TUS so does one whose last PATCH made the object before the
  row named that upload.
* `governed_retry`: the page puts the card of a confirmed write back when the call fails,
  because "a failed confirm ran nothing"; but the write is made before the model is asked
  again, so that a lost answer or a failing follow-up comes after it, and a second
  confirmation makes a second request (`agent/index.ts:206`).

## 7. Not modelled, and the plan

Not modelled, each listed in `PROJECT.json`:

* **Experiment modules and evidence.** Almost all of the repository's lines are about seventy
  experiments: scripts that call a hosted platform, time or count what it answers and write
  the numbers down, fixtures and generated data, demo pages, and recorded outputs. They keep no
  state between steps other than the platform's, which the repository does not contain, so
  there is no behaviour of the program to check beyond the contract of a module, and this is
  in Runner. The share of lines the models cover is therefore small and stays so.
* **Real-client probes, management API and context, command line and browser drivers.** Wiring
  around external clients; the models let such a call answer, fail or hang at any time.
* **Pure harness modules** (`matrix`, `diff`, `facts`, `report`, `doc-numbers`, `sbperf`). Functions
  from artifacts to text or tables, well within the reach of unit tests.
* **MCP server and mock upstream.** Adapters without state of their own.
* **Fault proxies and reconciliation** (`mgmt-api-faults`, `client-retries`). Counters of injected
  faults, and a classification of what a listing shows after an unanswered create.
* **Other runbooks** (`tenant-promotion`, `tenant-consolidation`, `key-rotation`, `session-carry`,
  `restore-paths`). Sequential procedures whose outcome is decided by the platform.

What comes next: the order of copies and cut-over in `tenant-promotion`, if its steps are given a way to resume.
