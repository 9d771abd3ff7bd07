# Warden Connect: a TLA+ model of the control plane and the mediator

Warden Connect decides which parties (agents, tools, services) may talk to each
other.  A control plane keeps a register of parties, evaluates connection
requests against a policy, collects consents and mints signed *contracts*.
Mediators in the data path hold the contracts addressed to them and let a
connection through only as far as its contract says.  Containment works in the
opposite direction: a party is quarantined or a contract revoked, and every
mediator must stop honouring it.

This directory models that system in TLA+, checks the models with TLC on small
instances and proves the central results with TLAPS for every value of the
constants.  `PROJECT.json` is the index: the components, the runs, the mutants
that show that each property can fail, the source lines of every definition, the
hazards and the theorems.

## 1. Inventory

### The parts and how they interact

```
 people, pipelines            wc-control                            wc-mediator
 ----------------   request  ----------------------------          -----------------------
  agents' owners  ---------> issuance -- register                  refresh thread
  approvers         approve     |           |        contract set     |  pulls set, feed, keys
  need apply        merge       v           v        ------------->   v
  operators       ---------> evidence    state log   revocation feed cache (set, deny-list)
                  quarantine chain       (1 writer)  ------------->   ^
                  revoke        |           |        <------------- acknowledgements
                                v           v                         | asks before every method
                             artifacts   acknowledgement ledger    gate ---> upstream (MCP server)
                                                                     ^
                                                                   agent
```

The control plane is one process per tenant: whoever holds the writer lock of
the state directory.  Its HTTP handlers run on several threads and take the
store, the evidence chain and the feed under a mutex each, one after the other.
The command line opens the same directory.  Mediators are separate processes
which only pull; nothing is pushed at them.  Inside a mediator the refresh
thread writes the cache and the serving loop reads it.

### Component by component

| Component (source) | State | Operations | What is hard | Correct when |
|---|---|---|---|---|
| register (`registry.rs`, `model.rs`) | parties with lifecycle, posture, pinned surface, owner; contracts with status | put, transition, set_posture, repin, suspend, revoke, quarantine, clear | orders meet requests and mints in flight | a quarantined party has no live contract |
| issuance (`issuance.rs`), policy (`cpolicy.rs`), `need apply` (`main.rs`, `need.rs`, `offer.rs`) | requests, approvals, contracts, artifacts, evidence; a pipeline's plan | request, approve, approve_by_merge, deny, expire_lapsed, breakglass, mint_with_identity | a mint is several writes; plans are made on one state and used on another; sliding windows | no authority without evidence, consent, budget; decisions are final |
| state log (`store.rs`), writer lock (`lock.rs`) | segments, sync point, snapshot, lock; each process's projection and numbering | open, stand by, append, sync, rotate, snapshot, rebuild, read-only refresh | crashes, power loss, torn writes, take-over | one durable linear history |
| HTTP API (`api.rs`, `http.rs`) | three mutexes, idempotency cache | a handler per route | handlers interleave between the locks, and die there | a retry applies once; a cut is stored *and* published |
| revocation feed, containment (`contain.rs`) | the signed feed file; the ledger of orders | append, since, push, confirm | torn lines, lost orders | what is cut is listed |
| keys (`keys.rs`, `signer.rs`, `custody.rs`) | the key ring | rotate_to, retire, sign | entries are permanent, keys are not | nothing that must verify is orphaned |
| distribution (`dist.rs`) | latest acknowledgement per mediator | record, lag, save | late, lost, reordered acknowledgements | an acknowledged cut is cut |
| mediator client, cache, key set (`client.rs`, `cache.rs`, `jwks.rs`) | contract set, deny-list, trust, cursor, keys | refresh, apply_revocations, install, distrust, resolve | partial verification, key lag, restarts | never un-revokes; distrust ends |
| gate (`gate.rs`, `filter.rs`, `mcp.rs`) | the connection's State, the admitted artifact, the pin | initialize, catalogues, tools/call, other methods, notifications, revalidate | the cache moves under a request; methods in any order | a cut stops traffic; a call waits for its pin |
| upstream (`upstream.rs`) | the child process and its pipes | request, notify, restart | timeouts against late answers, restarts that fail | answers are not mixed up; every request ends |
| evidence (`evidence.rs`, `chain.rs`, `sink.rs`, `backup.rs`) | hash chain, checkpoints, tombstone, sinks, copies | record, verify, retire, back up, restore | crash between sink and chain; retirement and backup beside use | what verifies is what was attested |
| files (`contain.rs`, `dist.rs`) | the feed file, the order ledger, the acknowledgement ledger | append, open, record, save, the deploy gate | torn lines, failed syncs, overwritten files | no promised cut missing from a served feed; the gate passes on real installations |
| views (`export.rs`, `broker.rs`, `obs.rs`, `portal.rs`) | registers, gauges | export as of a day, discover, blast radius, scrape | taken while the estate moves | a past day never changes; nobody learns of whom it may not reach |
| bundles, tenants (`bundle.rs`, `tenant.rs`) | a tenant registry, a carried bundle | export, seal, read, import | a courier who is late, repeats or alters | a site takes only what its tenant stands by |
| admission (`admission.rs`, `attest.rs`, `screen.rs`), assurance (`assurance.rs`) | entries, findings; queue of checks | register, activate; push, tick | judged without a lock, written later; budgets and rates with tasks held back | attested means proven of the pinned surface; no check is starved |
| HTTP plane (`http.rs`, `api.rs`), commands (`main.rs`), settings (`config.rs`, `args.rs`) | threads, tokens, idempotency cache; processes and their locks; file and environment | authenticate, route, handle, file the answer; every writing verb; load | retries that overlap; a verb that dies between two of its steps | an answer holds; a refusal leaves no trace; a command runs as written |
| consent, proposals, discovery (`authority.rs`, `scm.rs`, `proposal.rs`, `inventory.rs`) | commits and manifests; pull requests and plans; a cursor | assert a merge, promote, apply, sweep | the file says who may change it; plans outlive locks; pushes during a sweep | no one entitles himself; every line consented; nothing missed |
| policy, offers (`cpolicy.rs`, `zone.rs`, `offer.rs`, `need.rs`) | rules, zone bars, crossings; offers with withdrawal dates | evaluate, lint, dry run; publish, match, derive, impact | many sources of strictness; what is announced on one day happens on another | nothing is widened; lint and impact foretell |
| federation, signals (`federate.rs`, `caep.rs`) | anchors, statements; remembered tokens | resolve; ingest | chains assembled from several authorities; replay past a bounded memory | no impersonation; effects within authority |
| keys, custody, transparency log (`keys.rs`, `jwks.rs`, `custody.rs`, `signer.rs`, `rekor.rs`) | key ring, cached key sets; keys behind roles; a log's checkpoints | rotate, retire, load, verify; sign; verify inclusion | a key server that is down; a helper that fails; paths for other trees | a withdrawn key is refused in time; two approvals are two keys |
| gateway adapter, Kong plugin, ext_proc (`wc-gateway`, `wc-kong`, `wc-extproc`) | contract set, revocations, pins, streams, the decision trail | open, judge, relay, refresh, reload routes | a stream outlives what it was admitted under | what is forwarded is governed and recorded |
| mediator process (`connect-mediate.rs`) | threads, cache, health, metrics file | start, serve, refresh, flush, stop | threads share a cache and a shutdown flag | serves whole or not at all |
| drain, receipts, `pipeline.rs`, benchmark, SDK, deployment | -- | -- | -- | not modelled, section 7 |

## 2. Plan

The order follows the path of authority: how it is granted, where it is kept,
how it is taken away, where it is enforced; then what surrounds it.

1. **Done.** `Registry`, `Issuance`: granting.
2. **Done.** `StateLog` and the abstract `DurableLog` it implements: keeping.
3. **Done.** `Containment`: taking away, from the register to a mediator's cache.
4. **Done.** `Upstream`, `Gate`: enforcing, one connection through one mediator.
5. **Done.** What is written down: `EvidenceChain`, `FeedFiles`, `Views`,
   `Bundles`.
6. **Done.** Keys and the edge: `Custody`, `KeyLife`, `Artifact`, `Gateway`,
   `Federation`, `Signals`, `Rekor`, `Scheduler`, `Process`.
7. **Done.** How the estate is governed: `Screening`, `Admission`, `Plane`,
   `Commands`, `Discovery`, `Consent`, `Proposals`, `Offers`, `Policy`,
   `Settings`.
8. **Done.** Theorems on every safety property of issuance, the state log,
   containment and the gate; on what is written down (evidence, the feed as a
   file, views, bundles); on keys, custody, federation, shared signals, the
   mediator's process and the gateway; on admission, discovery, consent, proposals,
   offers, policy, settings, the answers of the plane and the verbs of the command
   line.
9. What is left to TLC, and why, is at the end of section 5.

`Issuance` extends `Registry` and `Gate` extends `Upstream`: in both the second
component's steps are steps of the first.  `Gate` takes what `Containment` says
of a mediator's cache as its environment: any contract set may be installed, the
deny-list only grows (`DenyListGrows`, proved of `Containment`), trust in it may
come and go.

## 3. The modules and the code

### Registry, Issuance

`entities` and `contracts` are the projection's tables.  A checked write of
`registry.rs` validates, appends and applies under the store's mutex and is one
step.  Identities are numbers because the code sorts them.

`requests`, `evidence`, `artifacts`, `plans` are the request table, the Mint
records of the chain, the signed files and what a `need apply` keeps in memory
after closing the store.  An issuer holds the store for a whole operation, so an
operation is one step, but it is several writes: `stop` says after which of them
it ended (0 nothing, 1 evidence, 2 ContractMint, 3 ContractIssued, 4 artifacts).
The policy is abstracted to the answers its rules and zone bars can give
(`Rule`); which request meets which rule is a choice.  Connection ids are request
ids, or the pair for `need apply`, whose ids are derived from it.

### StateLog, DurableLog

`lines` are the records that parse, `tail` what an interrupted write left after
them, `broken` where a malformed line cuts a segment, `synced` the records on
stable storage.  A process is off, standing by, overdue, active or a reader;
`proj[p]` is the sequence of records it has applied, `acked` the durable commits
that returned Ok.  `SegLines` counts records where the code counts bytes.

`DurableLog` is what the store promises: one history, one writer who sees all of
it, readers who see a part, failures that take back only the end that was not
made durable.  `Implements` is the refinement.

### Containment

The control plane's request threads store a cut in one step and publish it in
another (`call[t]` holds what is stored and not published); a request may die in
between.  A mediator fetches the set, then the feed past its `cursor`, then
acknowledges; each is a step that may fail.  A signature is the key that made it:
an entry verifies at a mediator that holds that key.  `revokedAt` is the log
sequence of a revocation, which acknowledgements are compared with.

### Upstream, Gate

`Upstream` is the stdio child: `inbox` its stdin, `pipe` its stdout, each frame
and line with whether it belongs to the request now being waited for.  A write into
a stdin that is full waits, without a timeout, until the child reads or dies.
`restart` replaces child and pipes.  The server is the environment: it answers in order,
with a result or an error, may change its catalogue, die, or write one line per
child that nobody asked for.

`Gate` handles one request at a time; `pc` says where it is.  Between two of its
steps the refresh thread may replace the contract set or extend the deny-list,
as it may in the code, where `resolve` reads the two under different locks and
the upstream takes seconds.

| Code | Model |
|---|---|
| `Upstream::request` / `notify` entry, `revalidate` (set half, deny-list half) | `Arrive`, `Revalidate` |
| the match on the method and `State` | `Dispatch`, `OnCatalog`, `OnToolCall`, `OnOther`, `OnNotify` |
| `on_initialize`: forward, look up, deny-list and `admit_context` | `Forward`, `LookUp`, `Admit` |
| `on_catalog`: forward, `verify_pin`, `filter_catalog` | `Forward`, `Listed`, `VerifyListed` |
| `verify_pin_lazily`, then the call | `Forward`, `Probed`, `VerifyProbed`, `Judge` |
| `Cache::install`, `set_revocations`; the clock passing exp | `Install`, `SetRevocations`, `Expire` |
| `StdioUpstream::request` | `Send`, then `ReceiveLine`, `Eof` or `Timeout` |

A catalogue is a set of (tool, version) pairs; `check_pin` compares the
contracted items in their contracted versions.  The authenticated peers and the
token's connection are constants.  `mark_used`, telemetry and the log of findings
are left out: nothing reads them back.

### What is written down: EvidenceChain, FeedFiles, Views, Bundles

`EvidenceChain` records an event through the configured sinks and then in the
hash-linked file, signs checkpoints, retires the beginning of the file, copies
the directory while it is in use and restores it.  A hash is what it was taken
over, so two rows have one hash exactly when they and everything before them
agree.  A crash may leave part of a row or of a checkpoint behind.  `Edit` is
something that is none of these programs.

`FeedFiles` is the level below `Containment`: the feed as lines of a file whose
writes stop inside a line or in front of its end and whose syncs fail, numbered
by the holder of the writer lock from what it has in memory; the order ledger, in
which a cut given on the command line says which mediators have to confirm it;
the ledger of acknowledgements, overwritten whole; the deploy gate that takes the
acknowledgements for proof.

`Views` computes registers as of a day, mediated discovery, the blast radius of
a cut and the gauges from a log that goes on growing.  A register is a replay of
the frames up to its day, and is filed when the day has passed; a command's frame
has the day it was started, up to `MaxWait` days before it gets the lock.  A blast radius is a traversal by levels to a depth
the asker gives.  `Bundles` carries
contracts by hand: exporting reads register and feed one after the other, the
courier may keep, repeat or change a bundle, the site reads it and imports.

### Keys and the edge: Custody, KeyLife, Artifact, Gateway, Federation, Signals, Rekor, Scheduler, Process

`Custody` resolves the key of each role from flags, files and helpers and follows
a signing command through helpers that fail, hang or lie.  A file holds a key in
some encoding, and a fingerprint is of the encoding.  `KeyLife` is the ring
with rotation, rotation back and retirement, the published set, and the copy a
mediator loads, serves past its TTL and finally gives up.

`Artifact` holds the operators about one signed artifact (key selection, minting
checks, the verification gates in their order, pins over canonical text, who the
peer is); `Gateway` extends it with the streams of a proxy: opening, judging,
relaying a response, refreshing in two halves (the second with the cursor, the
verification of each entry under the keys of the moment and the rule for a hole, as
in `Containment`), reloading routes, and a decision trail that may block.  Its configurations are those of the Kong worker and of the
external processor.

`Federation` resolves a handed-over chain of statements; `Signals` verifies a
token and applies its events with a bounded memory of seen ones; `Rekor` verifies
an audit path over a free algebra of hashes.  `Scheduler` is the
queue of checks of `assurance.rs`, a library no binary drives; `Process` is `connect-mediate` with its threads.

### How the estate is governed: Screening, Admission, Plane, Commands, Discovery, Consent, Proposals, Offers, Policy, Settings

`Admission` extends `Registry` with `register` and `activate`, from the reading
of the names to the record, with the verifiers of
attestations and the detectors of `Screening`.  `Plane` follows each connection's thread from transport
to answer, one step per lock.  `Commands` gives every writing verb of the command
line, the three that go through a list (`need apply`, `proposals apply`, `inventory
promote`) included, as the sequences of steps its handler can take (lock, read, key,
judge, commit, record, feed, file); a process remembers every version of the state
it has read and goes by; several processes run them, any step may be refused
and any process may die; what a commit contains is the other modules' matter.

`Discovery` sweeps repositories that are pushed to meanwhile, several in one second.  `Consent` decides
whether a merge consents to what a pipeline presents, with the list of approvers
in the file that changes.  `Proposals` is promote and apply with the store given
up in between; the directory apply reads is any checkout and not the merge's tree.  `Offers` is offer, need, withdrawal and impact over days;
`Policy` the fold of everything that narrows a contract, over zones with
ancestors, and the dry run of a new file over the register; `Settings` what a
command runs with, what it asks the environment for a second time included.  The page a consumer reads (`portal.rs`) is an operator of
`Offers`, and the reading routes of the API are routes of `Plane` that change
nothing.

### Modules that put them together for TLC

`MCRecords`, `MCEdge` and `MCEstate` hold one component of a group at a time:
`part`, chosen at the start, says which, and the others do not move.  Components
with theorems are extended and stay in their initial states, so that the run's
property is the one the theorem states; the variables of the others are `Idle`
and their properties have the form `part = "x" => M!Property`.  Nothing
is lost, since those components meet in the modules of section 3's first half or
not at all.  `MCIssuance`, `MCStateLog` and `MCContainment` similarly choose
between two or three instances of one specification with different constants.

## 4. The runs

| Run | Checks | Distinct states (about) |
|---|---|---|
| `issuance` | `QuarantineCuts`, `AuthorityTraced`, `BudgetsKept`, `SettledIsFinal`, `ConsentComplete`, `MintsOnCurrentState`, in three estates: mints cut at every point beside a pipeline; owners, surfaces and policy changing; both windows at their limit | 521,000 |
| `state_log` | `DurableSurvives`, `ProjectionsTrue`, the refinement `Implements`, `StandbyTakesOver`: three processes on a short log, one process through several segments | 349,000 |
| `containment_live` | `ConfirmedCut`, `CutArrives`, `ServiceRecovers`: rotated and retired keys on a failing network; a quarantine lifted and the party re-admitted | 171,000 |
| `gate` | `CutStopsTraffic`, `ContractBounds`, `AnswersOwn`, `RequestAnswered` | 390,000 |
| `records` | `EvidenceSound`, `FilesSound`, `ViewsSound`, `BundleBounded`, `SeqsIncrease`, `FeedHolds` | 1,103,000 |
| `edge` | `ForwardedIsGoverned`, `NoImpersonation`, `SignalsInScope`, `CustodySeparates`, `WithdrawnInTime`, `TurnsAreFair`, `ServesWhole`, `InclusionProven` | 562,000 |
| `estate` | `AdmissionSound`, `AnswersHold`, `CommandsSound`, `CursorMissesNothing`, `NoSelfEntitlement`, `WholeTreeConsented`, `OffersSound`, `PolicySound`, `RunsAsWritten` | 1,134,000 |
| `torn_tail_lost` | *violation*: a durable commit after a torn write is lost | -- |
| `gap_loses_cut` | *violation*: a delta with a hole loses its verified prefix and trust returns without it | -- |
| `upstream_poisoned` | *violation*: after a stray line every answer is the previous request's | -- |
| `gateway_expired` | *violation*: a worker without a control plane forwards on an expired contract | -- |
| `rekor_index` | *violation*: an audit path verifies for an index the entry does not have | -- |

What the properties say is written above each of them.  For every property of a
passing run `PROJECT.json` names a mutant: a definition with a plausible bug under
which TLC finds the property violated.

### Bounds

- Issuance: two parties (every guard is about a pair), two humans (dual control
  and one person too few), one request beside a pipeline, or two requests for
  the budgets; `SteadyParties` keeps one party admitted, since what the registry
  does to one of the pair it can do to the other.  `MaxTime`, `MaxPolicy`,
  `MaxPin` and `MaxOffer` bound the counters; a window of 1 with a clock of 0..1
  has an issue inside, at the edge of and outside a window.
- State log: three processes are a writer, a standby and a reader at once; three
  records reach a batch of two; one process with five records in segments of two
  reaches a second rotation and a snapshot between.  `MaxLog` bounds sequence
  numbers.
- Containment: one contract and one mediator.  Mediators meet only at the control
  plane, which keeps a ledger entry for each and nothing between them, so one
  shows what any would; the proofs are for any number.  Two keys rotate forth and
  back and retire.  `MaxSeq` bounds the log.  Two request threads between the
  locks are in `records` (`part = "cuts"`).
- Gate: an artifact, its replacement under the same connection with other terms,
  and another connection of the same pair; a surface that matches the pin and one
  that does not; one cut.  `PipeRoom` is
  1, so that a notification the server has not read makes the next write wait.  The constraint
  `StrayWithinRequest` follows a child that wrote a stray line to the end of that
  request: `upstream_poisoned`, without it, shows what comes after.
- The three union runs: two of whatever may race (processes, threads, streams,
  mediators, repositories, tenants) and the fewest values with which each guard
  goes both ways.  Their constraint `Bounded` cuts combinations of disturbances
  that meet nowhere; the comment above it says which and why.  What the exceptions
  of the properties speak of (section 6) all happens within the bounds: keys rotated
  between three cuts at a gateway, a denial in the middle of `need apply`, a push in
  the second of a watermark, a checkout that is not the merge, a rule whose oversight
  is stricter than the request's, a contract signed after its item's date.
- `CHECK_DEADLOCK FALSE` where counters are used up and nothing is left to do.

Symmetry is used, in some of the runs that check only invariants and action
properties, over model values that no definition tells apart.

### Fairness

- `StandbyTakesOver`: weak fairness of a standby's poll and of its timeout; the
  loop of `acquire_waiting` sleeps and comes round.
- `containment_live`: strong fairness of fetching the set, the feed and the keys
  (the loop retries for ever and a connection that is tried for ever gets through
  again and again), weak fairness of the mediator's local steps and of a request
  thread's publishing; crashes and failures stay possible.  `ServiceRecovers` is
  conditional: trust in the deny-list returns unless the key that signed one of
  its entries was retired (`Orphaned`), and a standing contract is resolved when
  neither it nor its parties are listed.
- `RequestAnswered`: weak fairness of the steps of the request being handled, and
  of the upstream's wait returning.  The second is `recv_timeout`; the server is
  under no obligation, so a write may wait for ever, and the property excepts a
  behaviour that ends in such a wait (`WriteHeld`).  It holds of every other.

## 5. The proofs

All are for every value of the constants, under the named assumptions of the
modules (`RegistryAssumption`, `IssuanceAssumption`, `StateLogAssumption`,
`UpstreamAssumption`, `GateAssumption`, those of `Containment`, `Bundles`,
`Process`, `Signals`, `Offers`, `Policy`, `EvidenceChain`, `Views`, `Gateway` and
`Admission`);
TLC evaluates each on the runs.

Where a proof needs induction over data (the rows of a file, the dates of an
offer, the entries of a policy) it takes the least number for which the claim
fails: that a set of naturals that is not empty has a least element is
well-foundedness, which the library states without an operator parameter
(`LeastNumber`, `NatsHaveMin`).

**Issuance** (`IssuanceProofs`): `TypeCorrect`, `QuarantineHolds`,
`GrantsAccounted`.  None of the properties is inductive alone: `IInv` adds
types, and that contracts, requests and pipelines' plans name parties the
register knows (`ContractsKnown`, `KnownIn`, `PlansKnown`), without which
nothing is known of the posture of a contract's parties.  Each write of a mint
keeps it, in the order the code makes them, so a mint cut at any point leaves it
true.

**Steps of issuance** (`IssuanceProofs`): `DecisionsAreFinal`,
`MintsAreCurrent`, `ConsentIsComplete` say what one step may do, given `IInv`.
Every operation ends in `mint_unchecked` or in no mint, so each is described by
the request map and the record it hands over: `Settled` (no decision changes),
`Sound` (the request was pending, and unless glass was broken the parties are
connectable on the present surface, `OnCurrentState`, and the consents complete,
`Consented`).  `MintUncheckedSafe` and `NoMintSafe` carry those over to the
step, wherever the mint is cut, and one lemma per operation establishes them
from the guards the handler checks before it mints.

**Budgets** (`IssuanceProofs`): `BudgetsAreKept`, from `BudgetInv`: the register
is finite, no contract is dated after now, and every window, wherever it ends, is
within both budgets.  The last is what makes it inductive: the code looks at the
window that ends now, a later mint is in that window too, and a window that ends
earlier never grows, because nothing is dated back.

**State log** (`StateLogProofs`): `NumbersOrdered` on any disk, from `OrderInv`:
whoever may append holds the lock, and its counter has caught up with every
number on disk, a record left without its newline excepted, which its next write
destroys.  On a reliable disk (no torn write, no failing sync, and no snapshots)
`StoreTypes`, `DurableKept`, `NothingButTheLog` and the refinement
`StoreImplements`, from `RInv`, which adds types, that the disk is clean, that
the writer knows the whole log, that readers are behind, that nothing is applied
twice, and that what is acknowledged is behind the sync point (`Anchored`).
With torn writes `DurableKept` is false: `torn_tail_lost`.

**Containment** (`ContainmentProofs`): `EstateTypes`, `LedgerForward` and
`DenyListGrows` from types alone; `ConfirmedIsCut` from `CutInv`: a set a
mediator holds was built at its sequence number or later (`SetsFresh`), and an
acknowledgement on the wire or in the ledger never exceeds what its sender
installed (`AcksTrue`); `FeedBacksRegister` without outages, from: a request is
one call, and the register is backed by the feed or a call in flight;
`CursorIsCovered` without rotations, from: there is one key, and everything
behind the cursor is listed.  With rotations it is false: `gap_loses_cut`.
`FeedIsHeld` is both together, the property the `records` run checks.

**Gate** (`GateProofs`): `GateTypes`; `CutStops` and the first half of
`BoundsKept` (`PinComesFirst`) from `SessionInv`: the deny-list has only grown
since the request arrived, only a live connection has an artifact or a pin, a
request past revalidation was not cut on arrival, a verified pin was verified
against something, there is one artifact, and pin, artifact and lookup are of
one connection (the set has one artifact per connection, an assumption on
`Snapshots`, as `by_cid` is a map).  `AnswersAreOwn` from `PipeInv`: a request
is out only while its sender waits, and until the server writes of itself the
request is the last frame or its answer the only line.  The second half of
`BoundsKept` (`ShownIsContracted`) from both and `ShownInv`: what is passed on
unfiltered by an enforcing mediator brings no catalogue back.

**Life of a key** (`KeyProofs`): `WithdrawnGoes`, for a staleness bound that
is a number, from `KeyInv`: what is published is out now and nothing was out
later (`HistoryTrue`), and a cached key was in the published set when the copy
was made (`CopyTrue`).  `RingHasOneSigner`: rotation swaps the signer and
retirement refuses it, so a ring that has a key has one signer.

**Custody** (`KeyProofs`): `KeysAreApart`, from `CustodyInv`: what the running
command has signed with and is still going to sign with satisfies the rule of
its role (`Kept`) and is pairwise of different keys where two people approve
(`Apart`), one key in two encodings apart (`Reencoded`), so that no helper that fails, hangs or answers late can separate the
check from the use.  The hypothesis `HelpersApart` says that a key behind a
helper is in no file and behind no other helper: the code compares fingerprints
where it has them and a helper's command where it has not, and nothing on the
host could tell more.

**The feed as a file** (`FeedFilesProofs`): `FilesAreSound`, without
assumptions, in two halves.  `FeedInv`: a file that opens at all has every
promised cut (`FileComplete`), through every way to damage it, and so has the
memory of a plane (`PlaneComplete`).  `AckInv`: no acknowledgement on the wire,
repeated or late, says more than its sender installed (`WireTrue`), and neither
does the memory of a plane or the file (`LedgerTrue`), which is all the deploy
gate looks at.

**Evidence** (`EvidenceProofs`): `EvidenceIsSound`, four properties in one.
That an altered file which verifies has every attested row (`TamperEvident`)
needs no history: a hash determines its row and the hash before it, so two linked
files that meet in one row agree from there back (the least number where they
differ is none), and a checkpoint is a row in which they meet.  The other three
speak of what the programs write.  `Attested`: whatever audit verify passed was a
stretch ending in a checkpoint, and the tombstone has only moved on since.
`Recording`: a record under way has been shipped to the blocking sinks before it
is appended.  `HonestTruth`: without alterations, and unless a write was reported
as failed and numbered again, or a retirement overlapped something or was cut short
after its tombstone, every file is a
stretch of one history (`Copies`): the chain what follows the tombstone, the
archives what the names say and together all of what is retired, a retirement
under way the two parts of the chain, the anchors hashes of it, a backup a stretch
that covers the state copied before it.  The constraint of the `records` run
leaves out a backup beside an alteration and a second retirement beside either;
the theorem has them.

**Bundles** (`FeedFilesProofs`): `BundlesAreBounded`, from `BundlesInv`: an
export under way has only contracts that were in force when it began
(`ExportTrue`), what a bundle's signature covers is such a stretch of the register
whatever the courier did to the rest (`SignedTrue`), and what a site took was in
force at most `MaxTtl` before (`TakenTrue`).  `TenantAssumption` says what the
constants are; tenants may share a key, as `validate` lets them.

**Views** (`FeedFilesProofs`): `ViewsAreSound`, from `ViewsInv`: every register on
file says what a replay, up to its day, of the frames there were when it was filed
says (`FiledTrue`).  Two of one day then agree unless a frame stamped with that day
or before came between them (`LaterFramesPass`).  Discovery is compared with the same answer
over an estate without the members the asker may not reach.  A traversal from
whose last level nothing leads on has met exactly what is reachable
(`LevelsWithin`, `LevelsClosed`): the least level, and the least frame, at which a
recursive function could differ is none.  `ViewsAssumption` says what the
constants are.

**The mediator's process** (`KeyProofs`): `ProcessServesWhole`, from
`ProcessInv`: a use is in one place, recorded, taken by the refresher, taken by
the exit, reported or failed (`UsesApart`); what the checks of the start
established stays (`StartTrue`); an orderly end waits for the workers before it
flushes (`EndTrue`).

**Shared signals** (`KeyProofs`): `SignalsAreInScope`, for a memory of at least
one token, from `SignalsInv`: the memory is the identifiers of the last tokens
acted on, without repetition, all of them until it is full (`MemoryTrue`), so
that a token that acts twice has that many others between (`FarApart`), and
every effect was within what its transmitter may name.

**Discovery and consent** (`EstateProofs`).  `CursorSkipsNothing`, but for
the repositories last pushed in the second of a watermark taken before (`tied`;
section 6), from `DiscoveryInv`: no watermark is ahead of the clock (`MarksPast`), a sweep reads
nothing twice (`SweepOrderly`), and every repository it is going to pass it has
still to read, has read since the last push, or left out because an earlier
sweep had read it (`SweepKnows`).  The watermark is the maximum of a set of
seconds; that it exists follows from well-foundedness on the bounded naturals.
`NobodyEntitlesHimself`, for finitely many people and lists that ask for at
least one approval (with a minimum of 0 anyone passes, section 6), from
`ConsentInv`: a usable offer's commit was approved (`Approved`) by somebody on
the list as it was before the change (`EntitledBefore`), and by two people.

**The plane** (`EstateProofs`): `AnswersAreKept`, for a time to live that is a
number, from two invariants.  `PlaneInv`: a cut with one step left is in the
trail, one with none is also on the feed, and the same holds of a cut whose
success is told to anybody or kept on file to be told again (`Sound`,
`FiledTrue`).  `RetryInv`: a success is
past its time, or on file with its body, or of a key that two handlers ran under
(`OnFile`); and a handler runs alone under its key and later than every success
there was (`RunsAlone`).  The exception for overlapping handlers is the code's
own gap (section 6), not one of the proof.

**The command line** (`EstateProofs`): `VerbsAreSound`, with `Nobody` not a
process, in two parts.  The handlers: `Bad` says what may not come after what (a
key after a commit, a verdict after authority was given, a lock after the state was
read), by the `Rules` the verb keeps; `NeedsLock` that a commit waits for a lock
nobody took and `Sealed` that a dropped lock is taken again before the next commit;
every way through every verb keeps to them (`ProgramsFit`).  The processes:
`CommandsInv` says of the steps a process has left that they are in order, and of
what it has done that they still may follow it (`StepsSound`); while they need the
lock the process has it and has read the last commit, and nothing older where its
rules say so.  A death at any point gives the
lock back.

**Settings** (`EstateProofs`): `CommandsRunAsWritten`, flag by flag: what a
command runs with is its argument, else a value some accepted spelling of the file
says, else the environment's, and a switch that is on was switched on; the flags
the command asks the environment for itself (`Switches`, `Rereads`) are excepted as
the property says.

**Federation** (`KeyProofs`): `NobodyIsImpersonated`, from `FederationInv`: what an
honest organisation signs names its subject's own key, and an answer of this hour
rests on a chain of statements that were handed over, each signed with the key the
one above it names.  What is believed about a subject is the least set closed under
vouching; every such set holds the whole chain, for the statement nearest to the
anchor that it lacked would be vouched for by the one above (`ClosedHasChain`).

**The gateway** (`KeyProofs`): `CallsAreGoverned`, from `GatewayInv`.  Of the
worker: everything in its set was signed by the issuer for it (`Good`); a cut it
could have seen when its set was last fresh is known to it, unless it is older
than the worker or its cursor went past the cut (`FreshTrue`, `CursorTrue`); a pin in the ledger is one the surface that its
contract was last judged against matched (`PinsTrue`).  Of a stream: what it holds
is admitted in its own context, was in hand no longer after a cut than the
staleness bound allows (`Timely`), and its delivery is that of its contracts
(`ConnSound`); the ledger moves on while a call is out, so the call keeps what was
judged when it left (`CallSound`).  A refresh counts as fresh from when it began
and reads the feed after that, which is what keeps `FreshTrue`; a mismatch forgets
the pins of all contracts of the stream, which is what keeps `PinsTrue`.
`GatewayAssumption` is about the world around the worker: the issuer's keys are
those the operator installs and it names every contract once, a certificate that
the terminator verified names its holder, and a mesh that is trusted writes its
peer's name last.

**Proposals** (`EstateProofs`): `MintsOnlyConsented`, from `ProposalsInv`: every
plan and every grant names a directory, all of whose files were readable, and a merge
that has their owners, as they were when the plan was made, among its approvers, one
of them not the author.  The registry changes its owners and the branch goes on while a plan
waits for the store; consent to a commit is not taken back by later ones.

**Offers** (`EstateProofs`): `OffersAreSound`, from `OffersInv`: a plan, a
waiting request, a signed contract and a derived one keep, item by item, to the
terms they were matched against (`Within`): somebody admitted the consumer, the
lifetime fits the ceiling of the first of the strictest terms and, counted from the
day of the match, ends before the item goes.  From it: a grant is within the offer,
a contract of which the impact says nothing is granted again, where the offer was
consented to (`ImpactForetells`), published terms with a clean lint are granted as
they say (`LintForetells`) and the page shows what a consumer may have
(`PageTells`).

**Policy** (`EstateProofs`): `PolicyIsSound`.  The strictest of a set of bars is
as strict as each of them (`StrictestIsStrict`); the bar of a pair is the
strictest of those of all zones around either end and of their trust levels
(`ChainBarsMet`); what `Evaluate` returns is within that bar, within the request and
within the rule, the rule's oversight threshold apart (`EvaluateNarrows`).
`PolicyInv` says of every request and contract that it keeps to the policy it was
decided under, with as many humans as every bar and the rule ask for, or the standing
limits where nobody was asked, whatever is in force now.  Of a contract decided under the policy in
force the dry run does not say that it would be denied (`GivenDryRun`).  That a rule lint calls unreachable decides nothing
(`CleanedDecides`) compares the policy with the one without it.

**Admission** (`EstateProofs`): `AdmissionIsSound`, from `AdmissionInv`: a command
that is about to write has judged, in all stages, exactly what it is about to write
(`CommandsTrue`); an entity is what some admission judged, but for a lifecycle and
a posture that changed since and that never change to Attested (`EntitiesTrue`);
and whoever authenticated a party had a token in its name (`HoldersTrue`).  That a
name belongs to one workload rests on how it is spelled: a label has no colon, so
that label and subject can be read back from a derived name, and no SPIFFE id
starts like one (`NamesApart`, `OneWorkload`).  The screener looks under a subject of its own
rather than the party's, and finds no less for that (`HitsAnyway`).
`AdmissionAssumption` says that nobody registers under that subject, that names and
labels are strings, that a SPIFFE id is no `urn:wc:oidc:`, and of the issuers of tokens
that the name they certify, under one label, is one workload's.

The hypotheses named in this section stand in the theorems and not as ASSUMEs,
since the model is also meaningful without them.

Each invariant was also checked with TLC on the instance of its run.

**Only model-checked**: the liveness properties (`StandbyTakesOver`,
`CutArrives`, `ServiceRecovers`, `RequestAnswered`), which need fairness and
ENABLED; and two properties of components that are recursive or fold over data:
`TurnsAreFair` (a sorted list of tasks, folded into what a tick starts) and
`InclusionProven` (a Merkle tree and its audit paths).  What those operators
compute for every input is out of this prover's reach.

## 6. What the models show against the code

Five runs end in a violation; `PROJECT.json` quotes the lines.

- `torn_tail_lost` (`store.rs`): the newest segment is opened for appending
  without ending an unfinished line, so the next durable record shares it and is
  dropped at the next rebuild.
- `gap_loses_cut` (`client.rs`, `connect-mediate.rs`): a non-contiguous delta is
  not installed but the cursor moves past its verified prefix.  The two gateways call
  the same `refresh` and keep the same cursor (`wc-kong/src/config.rs:366-386`,
  `wc-extproc/src/main.rs:991-995`) and have the same fault: `Gateway` models it, and
  `ForwardedIsGoverned` excepts the cuts a worker's cursor went past (`passed`).
- `upstream_poisoned` (`upstream.rs`): the first line is the answer, whatever it
  says, and the child is not restarted.
- `gateway_expired` (`wc-gateway/contracts.rs`): a contract's lifetime is checked
  when it is loaded and never again, so without a refresh an expired contract
  goes on being forwarded on.
- `rekor_index` (`rekor.rs`): a path too short for the claimed tree is accepted
  when its index has reached 0 and the subtree's hash is the signed root, so that an
  entry verifies at an index it does not have.

Seen while reading or exploring, without a run of their own.  Where one of these is
an exception to a property, the models do what the code does, the formula has the
exception and the property's comment, or that of the conjunct it concerns, says so.

*Granting.*
- `need apply` mints on entity copies taken before it closed the store
  (`issuance.rs:1477`), though `issuance.rs:1459` says preconditions are
  re-asserted at mint time; quarantine is caught by the policy evaluation, a
  changed posture or surface is not.
- A request may be recorded as minted without a contract when the mint fails
  after the approval was committed; the standing rate counts active contracts
  only, so revoking makes room.
- A merge policy with a minimum of 0 lets anyone pass.  `proposals apply` asks
  for the owner of every file before it looks whether anything is new; an
  unrelated merge consents to all files of its owner; a run on an old commit mints
  again; a denial in the middle leaves the mints before it.
- `need apply` commits `NeedDeclared` (`main.rs:4414`) before the issuer's key is
  resolved (`main.rs:4582`), ends with POLICY_DENIED (`main.rs:4588`) when earlier
  needs of the manifest are minted, and mints on copies read before the lock was given
  up (`main.rs:4606`).  `proposals apply` ends in a denial after earlier mints too,
  though `main.rs:2665-2667` says "a directory with one bad file mints none of them, so
  a half-applied merge cannot leave an estate in a state nobody proposed"; `inventory
  promote` stops between its registrations.  `register` screens against names read
  before it takes the lock, and `approve --merge-repo` falls back on an owner read
  before.  `CommandsSound` names these verbs as its exceptions.
- `proposals apply` reads whatever `.toml` files lie in `--dir` (`main.rs:2695-2727`)
  and never compares them with the merge it had vouched for, the third thing
  `authority.rs:20-24` demands ("Without the third, a pipeline could have a reviewed
  merge and then submit different content").  `WholeTreeConsented` is about the
  directory and the asserted merge, and says that nothing ties the two.
- A request's oversight threshold is kept however lax it is beside the rule's
  (`contract.rs:254-257`), against `contract.rs:218-226` ("a request can never raise
  either", "commutative").  `PolicySound` excepts it.
- Screening assumes tier 4 because "A tier-driven block is re-checked once the tier is
  known" (`screen.rs:1676-1679`, also `screen.rs:812-814`); `admit`
  (`admission.rs:904-939`) never looks again, so the score that should block a party
  of tier 1 or 2 does not.  `AdmissionSound` claims the four blocking detectors only.
- An offer's `permits` takes the first of equally strict terms' lifetimes, so that the
  answer does depend on the order of the terms (`offer.rs:278` against
  `offer.rs:291-294`).  "A lint that passes means a publish will too" (`offer.rs:673`)
  is false: lint misses a lifetime above the ceiling and a withdrawal of an item no
  term offers.  The impact of a change does not look at consent, though the next build
  of everybody is refused without one (`offer.rs:626-628` says "what would happen on
  the consumer's next build").  "A contract must never outlive the item it names"
  (`need.rs:276`) is counted from the day of the match; the mint or the owner's
  signature may be later, and the contract then outlives its item.  `OffersSound` has
  these limits in its parts.  A gated need is compared with its narrowed lifetime; a
  dead contract is answered "current".
- `lint`'s "it can never match" is false for crossings inside a level (the rule is
  then harmless), and its warning about undeclared zones ignores ancestors' bars;
  the dry run counts expired contracts, takes the requester for the owner and asks
  for the contract as it was narrowed, so that a rule on depth or lifetime may
  answer otherwise than it did.
- The page lists an item past its withdrawal date as available now, or on ask
  where it is gated, though the next build is refused.
- `estate_names` takes an error on opening the store for an empty estate; the
  first valid envelope decides; a read-only hint never lowers a class.

*Keeping.*
- A failed sync returns an error for a record that stays in the log, so a retry
  may write it twice.  A snapshot newer than what survived of the log hides the
  records that reuse its sequence numbers.
- A feed append whose sync failed leaves its line and the next entry reuses its
  number; two lines glued together are refused at the next open.  A read-only
  plane never reads the feed again, and two planes overwrite each other's ledger.
- "A crash after the tombstone leaves survivors that still verify against it"
  (`chain.rs:859-862`) is not so: the retired rows are still in front of them, and
  `chain.rs:593-611` refuses the file.  A line of `anchor.jsonl` cut short
  (`chain.rs:270`) makes `verify_anchors` (`chain.rs:364`) refuse for good; nothing
  repairs that file.  `EvidenceSound` claims that a chain verifies where neither
  happened.
- A row of evidence retired while another retirement runs may be in neither file;
  a backup's manifest takes the chain's head after the copies.
- Commands take the time before they wait for the lock (`main.rs:1874`,
  `main.rs:1950`), so stamps may go backwards in the log and a register of a past day
  may change when a frame of that day is committed after it was filed
  (`store.rs:286-289`).  `ViewsSound` says exactly that much.
- An export's header carries the present head of the chain; its counts include
  dead contracts; the portal calls every contract live; a gauge whose label
  disappears keeps its last value; the metrics file shares one temporary name.
- Nothing calls `AckLedger::record` or `retire_confirmed`, so an order once filed
  stays outstanding.  A ledger of orders whose write was cut short (`contain.rs:667`)
  does not parse and shows nobody anything; `FilesSound` is about what it was given.
- A bundle's import applies no revocations of its own and checks no order; two
  tenants with one issuer key validate; `suspended` is never enforced.
- The anchor's posture is refused only after the commit; `--mediators` is read
  and the signer may fail after the cut; the verbs on the key ring take no lock;
  an approval is durable before its artifacts may fail to be written.
- Two overlapping requests with one idempotency key both run (`AnswersHold`
  excepts them), a key may be reused on another route with an equal body, and the
  cache is lost at a restart.

*Taking away.*
- A party that was quarantined, cleared and re-admitted stays on every deny-list
  (`api.rs` `clear_quarantine` against `docs/07-hld.md:100`).
- A retired key leaves permanent feed entries that a new mediator cannot verify.
- A cut whose request dies before publishing is not on the feed; it still arrives
  by omission from the set (`CutArrives`).
- A signal's connection identifier is not compared with the parties it may speak
  for; identifiers are remembered per token and not per issuer, and forgotten
  oldest first.

*Enforcing.*
- `gate.rs` calls `Denied` and `Contained` terminal; a second `initialize` leaves
  either.  Expiry is looked at on `tools/call` only.  In `New` an unrecognised
  method is forwarded.  `verify_pin` resolves by connection and not by artifact,
  so a pin may be verified against a replacement installed during the probe: this
  is why `ContractBounds` speaks of a contract of the connection.
- The per-call timeout (`upstream.rs:27`, against "a hung upstream turning into a hung
  agent") bounds the wait for an answer only: the write and the flush in front of it
  (`upstream.rs:234-236`, `upstream.rs:304`) wait for ever on a child that no longer
  reads.  `RequestAnswered` excepts that wait.
- A gateway starts on its last good set with no revocations; a delayed older
  catalogue records a forgotten pin again; `prompts/list` is always refused;
  observing still refuses tools outside the contract; a torn write makes the
  decision trail unverifiable.
- A mediator whose start is refused after its first refresh has acknowledged; its
  `--contract` files are replaced by the first refresh; a line that is not UTF-8
  ends it; its last acknowledgement carries sequence 0.

*Keys and outside parties.*
- A key behind a helper that also lies in a file is not seen by the separation
  check, which looks at issuer and anchor only; a key in two encodings passes for two,
  as `custody.rs:213-217` says; `child.wait()` has no timeout.
- `card_key` (`main.rs:5505-5519`) reads its key from a file without asking custody,
  under a comment that says "through the custody rules like every other role", so
  `attest surface` signs from disk under `--require-external-signing`.
  `CustodySeparates` excepts the card key.
- `keys retire` believes the expiry it was told; a key's last contract may be
  later (`keys.rs`).
- The intersection of federation metadata may widen a ceiling that one statement
  leaves open; any leaf that is vouched for may act as a superior.
- `attest_verify_cmd` does not compare the log entry's body with the envelope.
- "Benign drift auto-updates the pin under standing policy. Material drift suspends
  every dependent contract" (`docs/08-lld.md:737-738`) is done by no code: only tests
  call `classify_drift`, `auto_repin`, `contracts_to_suspend` and `Scheduler`, and the
  posture score is printed and never written.
- A push in the very second of a watermark, after the listing, is skipped until the
  repository is pushed to again: times are whole seconds (`scm.rs:503`, `scm.rs:534`)
  and `changed_since` is strict (`scm.rs:624-630`), against "skipping is the one
  direction a discovery cursor must never be wrong in" (`inventory.rs:222-224`).
  `CursorMissesNothing` excepts those repositories (`tied`).

*Settings.*
- The environment turns `require-external-signing` on whatever flag and file say, even
  by an empty variable (`main.rs:8313-8316`).  An empty `WARDEN_CONNECT_ROOT` makes the
  working directory the root and an empty tenant refuses the command
  (`main.rs:851-873`), against the test `an_empty_environment_variable_does_not_override`
  (`config.rs:624`).
- `[sink]`, `[assurance]`, `[breakglass]` and `[retention]` are listed as another
  loader's and no loader reads them, against "There is no fourth case"
  (`config.rs:18-19`); a default file that cannot be read counts as none, against "A
  file that exists but is broken **is** an error" (`config.rs:261-262`); of two
  spellings of a key the last wins.  `RunsAsWritten` names these exceptions.

## 7. Not modelled

Cryptography and canonical encoding (a signature is its key, a digest or hash its
content); parsing of HTTP, TOML and certificates; the layout of files, pages and
archives; the HTTP upstream, which compares ids and keeps no pipe; verification of
SVIDs.  `drain.rs` and `pipeline.rs` are constructed by no binary, and the
confirmation of containment orders is called by nothing.  Receipts, usage reports,
rendering, benchmarks, the SDK, fuzzing, packaging and tests have no state a
property is about.
