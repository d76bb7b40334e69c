# TLA+ models of the Key Transparency epoch sequencer

This directory holds TLA+ models of `src/core/sequencer/sequencer.go`, the
component that turns queued key updates into map revisions, anchors each
map root in an append-only log, and streams per-epoch summaries to
front-end subscribers. The models are checked with TLC.

## 1. Inventory

### Components and their state

| Component | Code | State it keeps | Operations |
|---|---|---|---|
| Initializer | `Initialize` (l.102-129) | none (reads the log and map roots) | queue the revision-0 SMR when the log tree size is 0 and the map revision is 0 |
| Driver loop | `StartSigning` (l.131-173) | `last` (timestamp of the last forced tick) | Initialize; read the map root (if that fails, run `CreateEpoch(force=true)` and drop its result); then for each tick call `CreateEpoch(f)` and **always** `disseminateMutations(result)` |
| Tick generator | `genEpochTicks` (l.175-199) | `last`, the ticker channel | first tick `true` if `now-last+min >= max`; then on each ticker firing send `true` (and set `last`) or `false` |
| Epoch builder | `CreateEpoch`, `newMutations`, `applyMutations`, `logProofs`, `queueLogLeaf` (l.201-447) | only call-local values; the watermark `HighestFullyCompletedSeq` lives in the map root | GetSignedMapRoot → read mutations after the watermark in one transaction → (nil if none and not forced) → GetLeaves → applyMutations → SetLeaves(watermark = max seq) → QueueLeaf(SMR, identity hash) → log root and inclusion proof of leaf `revision-1` → response |
| Dispatcher | `RegisterMutationsChannel`, `disseminateMutations` (l.449-465) | `mChannels` under `mMux` | append a channel; send a response to each channel in order, blocking, under the mutex |
| Metrics | l.41-67, 361-364 | prometheus counters | observation only |
| Wire types | `keytransparency_v1_types.proto` | — | data definitions (`SignedKV`, `Mutation`, `GetMutationsResponse`) |
| Service API | `keytransparency_v1_service.proto` | — | RPC declarations only; no implementation in the repository |

External collaborators, which appear in the model as environment state:
the mutation table (`mutations.ReadAll` in a transaction), the mutator
(`Mutate(old, update)`), the Trillian map (revisions, `GetLeaves`,
`SetLeaves`), and the Trillian log. The log has a queue of leaves that are
deduplicated by identity hash and integrated later by the log's own
sequencer. The subscribers are the service handlers that read the
registered channels.

### Interactions

Everything the sequencer knows across epochs lives in the map server:
the revision and the `HighestFullyCompletedSeq` watermark. The sequencer is
otherwise stateless, which is why a crash and restart is safe as long as
only one sequencer runs. It calls the map, the log and the mutation table
by RPC; each RPC has a deadline of `minInterval`. It talks to subscribers
through Go channels. The tick generator is a goroutine that feeds an
unbuffered channel.

### What is hard

- **Concurrency.** Front-ends append mutations while an epoch runs. The
  log integrates queued leaves on its own schedule, so an inclusion proof
  can be asked for before its leaf is integrated. Subscribers register and
  read concurrently with dissemination. The ticker drops ticks while the
  loop is busy.
- **Failure.** Any RPC can fail. SetLeaves and QueueLeaf can take effect
  even though the caller sees a deadline error. The process can crash
  between SetLeaves and QueueLeaf. No step is retried, and recovery relies
  on the next tick and on `Initialize`.
- **Ordering.** The mutations of one batch are applied in sequence order,
  and several of them can target one index. Summaries must reach
  subscribers in revision order.

### What makes each component correct

- Epoch builder: each mutation is accounted for exactly once by the
  watermark. Every change of a leaf continues that index's hash chain.
  Every revision's SMR reaches the log, once and in order. Every stored
  mutation is eventually applied.
- Initializer: the log holds one SMR per map revision, at the index the
  proofs use.
- Driver and dispatcher: subscribers receive every revision, in order,
  and only real summaries. A summary describes the revision it names.
- Tick generator: a revision is published within `maxInterval +
  minInterval` when nothing fails and each iteration ends within its
  deadline (the spec compares `last`, read from the map root, with the
  local clock).

## 2. Modules and plan

| Module | What it is |
|---|---|
| `Sequencer` | the epoch builder, Initializer, driver loop control and dispatcher, with the map, log, mutation table and subscribers as environment |
| `MCSequencer` | model values and the candidate updates for `Sequencer` |
| `SequencerAbstract` | what the sequencer promises, without RPCs, failures or subscribers |
| `SequencerRefinement` | `Sequencer` (through `MCSequencer`) with an `INSTANCE SequencerAbstract WITH` refinement mapping |
| `ApplyMutationsCheck` | `applyMutations` as a pure function over every bounded batch |
| `EpochTicks` | the timing of the driver loop: ticker, `genEpochTicks`, per-epoch deadline, dissemination time |
| `MCEpochTicks` | the time bound for `EpochTicks` |

Still open:
1. **Subscribers that stop reading.** The spec accepts that a sink
   back-pressures the loop forever (§4.4, no unregister), so this is not
   checked as a run; `EpochLoopProgresses` checks the loop under the
   spec's assumption that sinks keep reading.
2. **Out-of-order commits** of the mutation table, a variant environment
   outside the spec's contract for `ReadAll`.

## 3. Module `Sequencer` and how it maps to the code

**State.**
- Environment:
  - `source` is the mutation table.
  - `maps` holds the map revisions. Each revision records its leaves, the
    watermark `hwm`, and a ghost `batch` of the sequence numbers applied in
    it.
  - `logLeaves` and `logQueue` are the log's integrated leaves and its
    queue.
- Sequencer:
  - `pc` is the control point of the goroutine.
  - `ce` holds the locals of `CreateEpoch`, with fields named after the
    code's variables.
  - `sendIdx` is the position of the `range` loop in
    `disseminateMutations`.
  - `mChannels` is the list of registered channels, and `chans` holds the
    buffered messages.
- Subscribers: `rcvd` is the last summary read, and `gotNil` records a nil
  that was read.
- History: `unsent` holds the `(epoch, channel)` pairs of the summaries
  `CreateEpoch` returned while the channel was registered, minus those
  already sent. It is used only by `EverySummaryDispatched`.
- Bounds: `forced`, `failures` and `crashes` count forced ticks, RPC
  failures and crashes.

**Actions.** There is one action per suspension point of the code. Each
action models the whole code between two RPCs.

| Action | Code |
|---|---|
| `Initialize` | `Initialize`; a failure of any of its RPCs is logged and ignored |
| `StartRoot` | the root read of `StartSigning`; on failure, the bootstrap `CreateEpoch(true)`, whose result `Return` drops |
| `Tick` | receive from `genEpochTicks` and call `CreateEpoch(f)` |
| `GetRoot`, `ReadMutations`, `GetLeaves`, `SetLeaves`, `QueueLeaf`, `LogProofs` | the steps of `CreateEpoch`. Every error path leads to `Return(Nil)`. `SetLeaves` and `QueueLeaf` also have an "applied but error" outcome, for a deadline that races the answer |
| `Dispatch` | one blocking send per registered channel under `mMux`, then unlock |
| `RegisterMutationsChannel(ch)` | append under `mMux`; disabled while `Dispatch` holds the mutex |
| `ApplyMutations` | `applyMutations` as a `FoldLeft` over the batch. It looks old values up in the fetched leaves, as the code's `leafMap` does |
| `QueueSMR` | `queueLogLeaf`, together with the log's deduplication by identity hash |
| `Enqueue`, `Integrate`, `Receive`, `Crash` | environment: a front-end stores a mutation; the log integrates its oldest queued leaf; a subscriber reads; the process dies, taking its channel registrations with it |

Small helpers carry the single code decisions that mutants alter:
`ApplyStep` and `Put` (one iteration of `applyMutations`), `NothingToDo`
(the early return at l.295-300), `Revised` (the revision set after
`SetLeaves`, l.352), and `NextSendIdx` and `SentToAll` (the `range` loop in
`disseminateMutations`).

`ReadAll` and `Mutate` belong to this repository but are not under
`src/`, so they are modelled from the spec. `ReadAll` returns the next page
of at most `PageLimit` mutations and the highest sequence number returned,
or the start when the page is empty. `Mutate` accepts an update whose
"previous" value is the current entry.

Data is abstracted as follows. An entry is a model value in `Vals` or
`None`, and its object hash is the value itself. A `SignedKV` is
`(key, prev, val)`. A summary is `(epoch, proven log index, mutation
sequence numbers)`. Signatures, proofs, serialisation and metrics are left
out.

## 3a. Module `SequencerAbstract` and the refinement

`SequencerAbstract` has three variables: the mutation table `source`, the
map `revs` (leaves and watermark per revision) and `log`, the revisions
the log anchors. Its actions are `Enqueue`, `Publish` (a new revision
that applies mutations `hwm+1 .. hi` of the table to the newest one, for
any `hi` from the watermark to the table's end) and `Anchor` (the log
takes an existing revision newer than all it holds). `Applied` states the
per-index rule declaratively: the last mutation of the block that names
the previous revision's entry wins; none leaves the entry alone.

`SequencerRefinement` maps `maps` to `revs` by dropping the ghost
`batch`, and maps `log` to the integrated leaves followed by the queued
ones. Under this mapping, `SetLeaves` (also the applied-but-error outcome)
is `Publish`, `Initialize` and `QueueLeaf` are `Anchor`, `Integrate` and
every other step stutter. The property `AbsSpec` is the abstract `Spec`.

## 3b. Module `EpochTicks` and how it maps to the code

Time is a natural number `now`. `time.NewTicker(minInterval)` fires at
`StartTime + k * MinInterval` into the one-slot channel `tc`, and drops the
tick when the slot is full (`Advance`). The goroutine of `genEpochTicks`
is `gen`: `GenFirst` is the check before the loop (l.183-186), `GenRecv`
takes a tick and decides from the tick's own time (l.188-194), and
`Deliver` is the send on the unbuffered `enforce`, after which `last`
moves on a true value (`LastAfterSend`, with `NewLast`: `t.Now()` after
the send for the first check, the tick time in the loop). The loop of
`StartSigning` is `drv`: the three disjuncts of `EpochReturns` are the
outcomes of `CreateEpoch(ctxTime, f)` (a revision, nil, an error), which
must return within its deadline of `minInterval`; `Disseminated` ends the iteration, at most `MaxBusy` after
it started. `Init` takes `last` from the newest map root's timestamp
(l.140-162). The root may be one the bootstrap `CreateEpoch(true)` just
wrote. Its `timestamp_nanos` comes from the map server's clock, which may
be up to `MaxSkew` off the local one (`ServerStamp`). If the re-read after
the bootstrap also fails, `rootResp` is nil and `last` is Unix 0.
`Restart` is a crash at any point, an epoch in flight included. After it,
`StartSigning` runs this prologue again with a new ticker. `last` is kept
only in memory, so the crash loses it, and the prologue reads it back from
the map root. Epoch contents are abstracted to whether mutations are
pending.

A goroutine step that is enabled is taken before the clock moves
(`Urgent`). Go schedules a ready goroutine within far less than a tick,
and without this the model would let the generator sleep past any bound.
The ghost `missed` counts forced epochs since the newest revision that
failed or that a restart cut short.

## 4. Runs

| Run | cfg | Expect | What it shows |
|---|---|---|---|
| `sequencer_safety` | `SequencerRefinement.cfg` | pass (3.2M states, ~100 s) | `MutationsAppliedOnce`: the watermark accounts for each mutation exactly once, across failures, half-applied RPCs and a crash. `MapHashChain`: each changed leaf was changed by a mutation of that revision that names the previous entry. `LogRevisionsIncrease`: the log never holds an SMR twice or out of order, including a restart before integration. `SummaryMatchesRevision`: a streamed summary carries exactly the batch of the revision it names. `AbsSpec`: `Sequencer` implements `SequencerAbstract` (section 3a). |
| `sequencer_liveness` | `MCSequencerLive.cfg` | pass | `MutationsEventuallyApplied`: every stored mutation is eventually below the watermark. `EpochLoopProgresses`: `disseminateMutations`, which blocks under `mMux` on full channels, always returns to the next tick |
| `apply_all_batches` | `ApplyMutationsCheck.cfg` | pass (204k states) | `ApplyIsLastValidWins`: for every batch of up to 4 updates over 2 keys and 2 values and every fetched leaf map, the code's fold plus the SetLeaves merge equals the abstract rule `Applied` (the last update naming the fetched entry wins) |
| `subscriber_fanout` | `MCSequencerFanout.cfg` | pass (760k states) | `EverySummaryDispatched`: with two subscribers that register at any point, a crash, and no RPC failure, every summary `CreateEpoch` returns reaches every channel registered when it returned, before the loop takes the next tick |
| `bootstrap_summary` | `MCSequencerBoot.cfg` | violation | `EverySummaryDispatched`: the summary of the bootstrap `CreateEpoch(true)` is dropped (finding 7) |
| `ticks_bound` | `MCEpochTicks.cfg` | pass | `RevisionWithinMissedIntervals`: when every iteration ends within its deadline, and across a restart, the newest revision is younger than `(missed + 1) * maxInterval + minInterval + MaxSkew`. A map server clock ahead of the local one postpones the first forced epoch by its offset. The bound is tight: it fails without the `MaxSkew` term, and with one unit less. A restart that took `last` from the local clock instead of the map root breaks it |
| `ticks_failed_forced` | `MCEpochTicksGap.cfg` | violation | `RevisionWithinMaxInterval`: one failed forced epoch leaves the map without a revision for longer than `maxInterval + minInterval` (finding 6) |
| `nil_dispatch` | `MCSequencerNil.cfg` | violation | subscribers receive nil responses (finding 1) |
| `inclusion_index` | `MCSequencerInclusion.cfg` | violation | the inclusion proof is for the previous SMR (finding 2) |
| `chained_apply` | `MCSequencerChained.cfg` | violation | updates of one index in one batch are not chained (finding 3) |
| `subscriber_gap` | `MCSequencerGap.cfg` | violation | a written revision is never streamed, even with no RPC failing (finding 4) |
| `revision_unlogged` | `MCSequencerLogged.cfg` | violation | a revision whose SMR was not queued never reaches the log (finding 5) |

Every property of a passing run has a mutant in `PROJECT.json`: an
operator in `Sequencer.tla` or `EpochTicks.tla` that changes a mapped definition the way a
plausible bug would, and that TLC then catches.

### Findings

1. `StartSigning` (l.170) disseminates `CreateEpoch`'s nil result on
   empty ticks and on errors. The spec (§4.5, §8.5) dispatches only real
   summaries.
2. `CreateEpoch` (l.370) requests the inclusion proof of log index
   `revision-1`, but `Initialize` put revision 0 at index 0. The proof is
   therefore for the previous SMR. The proto comment says index =
   MapRevision, and spec §3 contradicts spec §4.1.
3. `applyMutations` (l.246) validates every mutation against the fetched
   leaf, whereas spec §4.3 step 6 chains them. Of a client's two successive
   updates in one epoch, the second is rejected. A remark: the chained
   version would write a value whose predecessor never appears in any
   revision, which breaks `MapHashChain` at the revision level. The code's
   choice keeps that chain intact.
4. Suppose revision r has been written and then QueueLeaf or `logProofs`
   fails. The revision is then never streamed. `logProofs` fails on its own
   whenever the log has not yet integrated leaf r-1, so this happens with
   no RPC failing.
5. No path re-queues a missing SMR. The causes are a failed QueueLeaf, a
   lost SetLeaves reply, or a failed first `Initialize`. Spec S6 and §7
   require the restart path to re-queue it.
6. `genEpochTicks` (l.191) sets `last` when it sends `true`, before the
   forced epoch has run. If that epoch fails, the next `true` comes a
   full period later, so the map goes close to `2 * maxInterval` without a
   revision. Spec §2 says the value is true iff `maxInterval` has passed
   since the last *epoch*, and §4.2 that the bound guarantees the log's
   liveness.
7. When the first root read in `StartSigning` fails, the bootstrap
   `CreateEpoch(ctxTime, true)` (l.145) writes and anchors a revision, and
   its summary is discarded. A subscriber registered during start-up never
   receives that revision. Spec §4.5 step 2 only says that the bootstrap
   runs synchronously, while §8.9 says each registered subscriber receives
   the summaries of all successful epochs.

Slow dissemination is explored but not a run. Spec §4.4 accepts
back-pressure, so it is not a finding. When `disseminateMutations`
(l.170) takes longer than `minInterval`, the tick that turns true waits
behind it, and the ticker drops ticks. The forced revision then comes
later than `maxInterval + minInterval`, by the overrun times the number of
ticks in one `maxInterval`. For example, with min 2 and max 7, the largest
staleness is 8, 11 and 14 for iterations of 2, 3 and 4.

## 5. Bounds and why they are enough

`SequencerRefinement.cfg` (the `sequencer_safety` run) uses:
- 2 keys and 2 values;
- candidate updates: k1 from none to v1, and k1 from v1 to v2. Each of
  them is valid or stale depending on when it is read, and both can share a
  batch;
- up to 3 mutations, with page limit 2, so one catch-up needs two pages
  and one batch can hold two updates of one index;
- 1 forced tick, 1 RPC failure (any RPC, including the applied-but-error
  outcomes), 1 crash;
- 1 subscriber with a channel capacity of 1.

These bounds reach every action and every outcome. The bugs the mutants
plant show up within 100 to 35,000 states. Two subscribers multiply the
state space by about 10 (27.9M states, 6 minutes) and add nothing to these
properties. Fan-out, where two subscribers do matter, is checked in
`subscriber_fanout`: 2 subscribers, 2 mutations, 1 crash and no RPC
failure, since failures only produce nil results, which
`EverySummaryDispatched` does not track. The liveness run uses 2
mutations. Each violation run uses the smallest bounds that still show its
trace. `subscriber_gap` turns failures and crashes off to show that the
gap needs neither.

`MCEpochTicks.cfg` uses min 2, max 5, a map server clock up to 2 off
(`MaxSkew`; the gap run sets it to 0 so that its trace needs no skew), a start at time 5, and the clock
explored up to 24: three periods of `maxInterval`, with the initial root
timestamp anywhere from 0 (no root) to the start. It allows 2 failed
epochs, so a forced epoch can fail twice in a row, and 1 restart. The
bound also holds with 2 restarts (260k states). With `MaxBusy = 2 =
MinInterval` the bound is tight: the largest staleness is exactly
`maxInterval + minInterval + MaxSkew - 1` with no failure. This was checked by
lowering the bound, and it also holds for min 2 with max 7 and for min 3
with max 7. The timing module has no liveness: the clock bound cuts every
behaviour, and the bound on staleness is the progress property.

## 6. Fairness

`FairSpec` assumes weak fairness on:
- the sequencer goroutine's steps: every RPC returns by its deadline, and
  the ticker keeps firing;
- the log's integration: the Trillian log sequencer runs periodically;
- each subscriber's reads.

Front-ends, failures and crashes get no fairness: they may stop at any
time. Failures and crashes are bounded, so each run eventually reaches a
suffix without them. Subscriber reads are an assumption about the service
handler, which is outside `src/`; the spec makes the same assumption
(sinks are never unregistered and back-pressure is accepted).

## 7. Not modelled

- Metrics: observation only.
- Wire formats and serialisation: the SMR is identified by its revision,
  and JSON marshalling is assumed stable.
- Signatures and proofs.
- The service API: it has no implementation in the repository.
- The composition of timing and epoch contents. `EpochTicks` abstracts
  an epoch to publish / nothing / fail, and `Sequencer` abstracts ticks to
  a bounded nondeterministic boolean. The interface between them is only
  the boolean `f` and the epoch's outcome, so each property needs only
  one side.
- Two concurrent sequencers: the spec excludes them.
