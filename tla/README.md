# ThreatGraph in TLA+

A verification development kept beside the ThreatGraph sources: TLA+ modules that
model the investigation pipeline, TLC configurations that model-check them on small
instances, and theorems that TLAPS checks for every size. Paths below are relative to
the repository.

## The system

An investigation starts as a `POST /investigations`, passes three stages and ends as
`complete`, `failed` or `cancelled`. Every process talks only to PostgreSQL, which holds
the investigations, and to Redis, which holds one stream of tasks per stage.

| Component | State it keeps | Operations | Talks to |
| --- | --- | --- | --- |
| Submission API, `api/routes/investigations.py` | none | `submit` (insert, then publish), `cancel`, `get_investigation` | rows, `tasks:enrich` |
| Life cycle, `core/lifecycle.py` | `investigations.status`, `updated_at` | `advance`, `advance_or_resume`, `mark_failed`, `is_cancelled` | called by the workers |
| Task streams, `core/streams.py` | Redis streams, consumer groups, pending entries with delivery counts and idle timers, dead letters | `publish`, `consume`, `ack`, `reclaim`, `send_to_dlq` | all workers, API, sweeper |
| Worker loop, `workers/base.py` | the tasks of the current reclaim | `run`, `_process` | streams, life cycle, the stage's `handle` |
| Enrichment, `workers/enrichment.py`, `enrichment/` | none | DNS and HTTP collection, observations, entities, `enrichment_status` | store |
| Analyst, `workers/analyst.py`, `analyst/` | messages and result counter of one agent loop | turns, five tools, `verify`, `persist` | store, model |
| Correlation, `workers/correlation.py` | none | edges derived from the observations | store |
| Sweeper, `workers/sweeper.py` | the rows of the current sweep | `sweep_once` | rows, all streams |
| Store and schema, `core/store.py` | observations, entities, relationships, results, citations | upserts on uniqueness constraints | |
| Collectors, `enrichment/dns.py`, `http.py`, `guards.py` | one lookup, one redirect chain | `collect` of both, `resolve_and_validate` | the network, enrichment |
| Model clients, `analyst/anthropic_client.py`, `stub_client.py` | the turn of a script | `create_message` | agent loop |
| Migrations, `migrations/run.py` | `schema_migrations` | `main` | PostgreSQL; gates all services |
| Rate limiter, `api/ratelimit.py` | a counter per client and minute | `enforce_rate_limit` | Redis |
| Metrics, `core/metrics.py` | a histogram per stage | `observe_stage_duration`, `render` | Redis, rows |
| Read routes, `api/routes/evidence.py`, `search.py`, `ops.py` | none | queries | rows |
| Indicators, infrastructure | settings, pools | parsing, logging, wiring | |

What is hard here: delivery is at least once and nothing is transactional across
PostgreSQL and Redis, so a process may die between any two of its writes; a task that
outlives its reclaim threshold is worked on twice at the same time; the sweeper acts on a
snapshot; cancellation may arrive at any moment; attempts are counted by Redis and acted
on by workers, from a listing that other workers have outdated; Redis may come back empty.

What each component must get right:

- **life cycle** – only the transitions of `VALID_TRANSITIONS`, whoever races; terminal
  means final;
- **streams and worker loop** – a task is never lost before its successor exists, is given
  up after `MAX_ATTEMPTS`, and is given up together with its investigation;
- **enrichment** – both sources leave a row, successful or failed, before the analyst may
  look; the summary and the entities agree with the rows;
- **analyst** – at most one verdict, grounded in evidence of the same investigation, stored
  together with its citations, and every loop ends;
- **correlation** – complete means every edge the evidence shows is in the graph, and
  nothing else is;
- **sweeper** – whatever stalls is published again, once;
- **submission** – a row whose publish failed is not lost; cancellation is final;
- **collectors** – nothing is connected to that was not checked, one source's failure leaves the
  other's evidence, and each ends with an outcome;
- **model clients** – each script that is shown evidence ends in a grounded verdict, and no client
  holds a worker for ever;
- **migrations** – a file takes effect once and in order, and services find their schema;
- **rate limiter** – no minute admits more than the limit, and no counter stays for ever;
- **metrics** – a scrape at rest is exact, and close to it while durations are added.

## Modules

Each module names in its header the file it models; `PROJECT.json` maps every definition
to its lines.

| Module | Models | Correspondence |
| --- | --- | --- |
| `InvestigationStatus` | `core/lifecycle.py` | the statuses and `VALID_TRANSITIONS` |
| `Lifecycle` | the same, as a promise | abstract specification: investigations are created and move by legal transitions |
| `Verdict` | `analyst/grounding.py`, as a promise | abstract specification: evidence is added, one final verdict on an investigation's own evidence |
| `TaskStream` | `core/streams.py` | `log`, `cursor`, `pending`, `dlq`; one operator a Redis command |
| `InvestigationStore` | `core/lifecycle.py`, `core/store.py`, `persist` | one record of each investigation; one operator a statement or transaction |
| `StageWorker` | `workers/base.py` and its three subclasses | `pc`, `task`, `batch` of every worker process; one action a statement or command |
| `Sweeper` | `workers/sweeper.py` | `backlog` is the batch fetched, `touched` the row between UPDATE and publish |
| `SubmitApi` | `api/routes/investigations.py` | how far the request that submits each investigation got |
| `Pipeline` | all of the above together | adds crashes, aborted sweeps, timers; states the properties |
| `ConsumerGroup` | `core/streams.py` and the loop of `workers/base.py` once more, finer | one stage's stream; XPENDING, each XCLAIM, XREADGROUP and XACK are actions of their own; `listed` is what XPENDING returned, `batch` what has been claimed; commands fail or lose their reply, Redis loses its data |
| `AnalystAgent` | `analyst/agent.py`, `tools.py`, `grounding.py`, `schema.py` | several agent loops with an arbitrary model; the result tool's counter, `verify`, `persist` |
| `ScriptedAnalyst` | `analyst/stub_client.py`, `anthropic_client.py`, `factory.py` | the scripts by their turn and by what the tools have shown, over `AnalystAgent`; the live client stays arbitrary |
| `EvidenceStore` | `core/store.py` with contents | observations with outcome, addresses and redirects; entities and edges shared by all |
| `EnrichmentPass` | `workers/enrichment.py` | one pass, statement by statement, interrupted and repeated |
| `EvidenceGraph` | `workers/correlation.py`, composed with the two above | one read of the observations, then entities and edges one at a time |
| `EvidenceViews` | `get_entities` of `api/routes/evidence.py` | operators on the state of `EvidenceGraph` |
| `Collectors` | `enrichment/http.py`, `dns.py`, `guards.py`, their `gather` | the redirect loop and the record queries side by side; `answered` and `connected` are histories |
| `SchemaMigration` | `migrations/run.py`, the service conditions of `docker-compose.yml` | `ledger` is `schema_migrations`, `pending` what a run has still to apply, `serving` the image the services run |
| `RateLimit` | `api/ratelimit.py` | clock, counters and their expiry; a replica reads the clock and counts later |
| `StageMetrics` | `core/metrics.py` | the fields of one stage's hash, incremented command by command; `adding` is what each worker's pipeline has still to send |
| `Deployment` | the three above together | the API and the workers run once the migration has succeeded |
| `MCPipeline`, `MCConsumerGroup`, `MCAnalystAgent`, `MCScriptedAnalyst`, `MCEvidenceGraph`, `MCCollectors`, `MCDeployment` | – | model values, symmetry and instances of the runs |
| `PipelineProofs`, `RecoveryProofs`, `ConsumerGroupProofs`, `AnalystProofs`, `ScriptProofs`, `CollectorsProofs`, `EvidenceProofs`, `DeploymentProofs` | – | theorems; `RecoveryProofs` builds on `PipelineProofs` and `ScriptProofs` on `AnalystProofs` |

Every component takes `rows`, `streamVars` and so on as one tuple, says what it leaves
unchanged of the modules it uses, and is closed by `Pipeline`, which adds the variables of
the other processes. `Pipeline` takes an analysis, an enrichment result, a correlation and a
reclaim as coarse steps. Other modules open these up, each with the rest abstracted:

- `ConsumerGroup` the reclaim; a job is settled there when its next task is published or its
  investigation has ended, and may still be tried again until the next stage has begun;
- `AnalystAgent` the analysis; both it and `Pipeline` are shown to implement `Verdict`,
  which ties the coarse step to the detailed one. `ScriptedAnalyst` puts the clients behind it;
- `EvidenceGraph` enrichment and correlation. What an enrichment pass of it may record is any
  member of `Answers`; `Collectors` shows that what the two collectors hand over has that
  form (`OutcomesAreEvidence` instantiates `EvidenceStore` with its own hosts and addresses).

### What is abstracted

- A database statement or transaction and a Redis command are atomic; anything may happen
  between two of them. `reclaim()` is a single step in `Pipeline` and is not in `ConsumerGroup`.
- `updated_at` is the flag `stale`, older than the sweeper's threshold or not; the idle
  timer of a pending entry is the flag `idle`. `StalledRowAges` and `AbandonedEntryIdles`
  set them when nobody works on the row or entry, `BusyRowAges` and `HeldEntryIdles` when
  somebody does – the second kind is bounded, because the thresholds are chosen for it not
  to happen.
- Message identifiers are positions in the log. A task is the investigation it names.
- In the pipeline an observation is the source it came from and a result the set of sources
  it cites. In `AnalystAgent` observations and entities are identifiers; confidence,
  explanation and classification are left out, since nothing branches on them. In
  `EvidenceStore` a payload is its addresses and the hosts of its redirect chain.
- What the live model answers is arbitrary: refuse, fall silent, read, propose anything that has
  the shape of a result, cite what it invented, call the result tool again.
- In `ScriptedAnalyst` all investigations are of one indicator, the case in which the evidence of
  one may hide behind that of another; the tools show identifiers, newest first by `collected_at`, which a pass that
  records an observation again renews (`RecordAgain`).
- In `Collectors` a name resolves to any set of addresses each time it is asked, or to nothing,
  while a host written as an address (`LiteralAddress`) is that address. aiohttp does not ask the validating resolver about
  such a host, so `Connect` checks names only, and a literal is kept out by the check before the request alone.
  A response redirects anywhere, ends the chain or fails. An address is blocked or it is not; status,
  headers, bodies and record types without addresses are left out.
- In `RateLimit` time is counted in ticks, of which a window has `WindowLength`; in `StageMetrics`
  durations are integers on both sides of the bounds.
- A stop request is a death at a moment the worker chose: it is covered by `Crash`.

## Runs

| Run | Instance | Shows |
| --- | --- | --- |
| `recovery` | 1 investigation, 1 worker a stage, 2 attempts, 1 crash, fairness | wherever a process dies: `TypeOK`, `NoTaskAhead`, `NoStranding`, `DeadLetterIsFinal`, `NoNeedlessDuplicates`, refinement of `Lifecycle`; every investigation ends and every stream drains: `EventuallySettled`, `StreamsDrain` |
| `overlap` | 1 investigation, 2 analysts, 1 overrun or early sweep, 1 attempt | two workers on one task at once: `EvidencePrecedesAnalysis`, `ClaimsAreExclusive` until then, `NoStranding`, `ConclusionIsGrounded`, refinement of `Verdict` |
| `claims` | 2 jobs, 2 workers, 2 attempts, listings of 2, 1 fault, 1 overrun, fairness | listing and claims interleaved: `OnlyOneWins`, `NoneLeftBehind`, `GivenUpAfterTrying`, `TriesAreBounded`, `GroupSettlesJobs` |
| `verdicts` | 2 loops, 2 investigations, 2 sources, 2 turns, 1 database error | `TypeOK`, `ResultsAreWhole`, `RecordedIsStored`, refinement of `Verdict` |
| `clients` | any client, 3 investigations of one indicator, 5 turns, 1 database error, fairness | `DefaultIsGrounded`, `EvidenceLeadsToVerdict`, `ClientsEnd` |
| `graph` | 1 URL, 2 hosts, 2 workers a stage, 1 redelivery | `SummaryMatchesEvidence`, `AddressesAreEntities`, `CompleteIsLinked`, `GraphIsObserved`, `CompleteIsVisible` |
| `collectors` | 2 names and 2 literal addresses as hosts, 3 addresses, one of them blocked, 3 redirects, fairness | `OnlyAllowedTargets`, `OutcomesAreEvidence`, `AddressesAreOfFinalHost`, `CollectionEnds` |
| `deployment` | 2 migrations, 2 replicas with a limit of 1, 2 workers with 2 durations | `AppliedOnceInOrder`, `ServicesFindSchema`, `WindowsAreLimited`, `KeysExpire`, `ScrapeIsExact`, `ScrapeIsClose` |
| `guarded`, `regroup`, `counted`, `cited` | the smallest that shows it | each violates one documented statement, see Findings: `TransitionsAreGuarded`, `LostWorkIsRecovered`, `CountedMeansRecorded`, `CitedEvidenceStays` |

**Bounds.** `MaxCrashes`, `MaxOverruns`, `MaxFaults`, `MaxErrors` and
`MaxRedeliveries` count faults, and one of each is enough to reach each interrupted state:
what a fault leaves behind is in the database, in Redis or in another worker, so that a
second one meets states of the same kind. `MaxOverruns` counts overruns and early sweeps of the
pipeline together; `MaxFaults` of `ConsumerGroup` counts failed commands, deaths and losses of data
together. `MaxAttempts` is 1 or 2 instead of 3, which makes the
limit bind within few states; `guarded` uses 3, so that what it shows does not come from a small
limit. Ordinary exceptions in `handle()`, failed analyses, refused results, interrupted
passes before the one that publishes, and cancellations are not bounded. The runs of a single
investigation lose nothing but interference through a shared stream or sweep: `claims` has two
jobs in one stream, one listing that holds both and two workers that list the same; `MaxEntries`
is one entry each, three in `regroup` so that the task can be published, lost and published again. The theorems are for
any number.

`MaxIterations` and `MaxCalls` keep a loop short, but long enough for a rejected result, an error
and another attempt; five turns are what the longest script takes. `RowLimit` is 2 instead of the 50
rows `get_enrichment` returns, with three investigations of one source, so that the limit hides
rows. `MaxHops` is 2, a chain with one redirect, and there is one address; `LinksOf` treats hops and addresses
independently of each other. `MaxRedirects` is 3 instead of 5, enough for a chain that returns to
its origin and for one that reaches the limit.

`deployment` has one migration run at a time, which may die and be started again; two at once exceed what the run can
enumerate in minutes. That they may overlap is therefore shown by the theorems of `DeploymentProofs`, for any number at once, and not by TLC. `MaxTime` gives four
windows of one tick, which is a key's whole life and its expiry. `MaxLag` is the delay
between reading the clock and counting that `KeyLife - WindowLength` allows, one minute in the
code: this is an assumption on the deployment, and beyond it a window could be counted afresh.

Deadlock is checked in the runs of the pipeline, the consumer group and the agents, where workers always
have something to do. It is not in `graph` and `cited`: when every investigation is complete
and every task settled, nothing is left, and the workers' polling is not part of them. Nor in
`collectors`, one pass that ends, and `deployment`, where clock and durations are bounded.

The symmetry sets permute investigations, sources and workers that no definition tells
apart; the runs with a liveness property use none.

**Fairness.** `FairSpec` of the pipeline assumes weak fairness of each worker's next step and
of the sweeper (processes that are restarted, `docker-compose.yml`), of a request that has
begun, and of time for rows and entries nobody works on. Nothing is assumed of crashes,
overruns, early sweeps, submissions or cancellations. An exception in `handle()` needs no
fairness against it: the attempt limit turns endless failure into a dead letter. `FairSpec` of
`ConsumerGroup` assumes the same of its workers, of time and of the sweeper's republishing, and
`GroupSettlesJobs` rests on the group's existence, as finding 4 says it must. `ScriptSpec` assumes that the
event loop keeps running what has begun; the API call has a timeout. `FairSpec` of `Collectors` assumes that
each collector goes on – connections, reads and DNS queries have timeouts, and the `getaddrinfo` before a request ends
when the system's resolver gives up, which aiohttp's timeout does not cover – and that `gather` returns
when both have ended. A scripted or live client is never assumed to be sensible: that loops
end comes from the cap on turns.

## Proofs

All theorems hold for every value of the constants: any number of investigations, workers,
attempts, entries, crashes, overruns, turns, database errors, hosts, redirects, redeliveries, migrations,
runs at once, replicas, windows and durations. They use the named assumptions only: stages are staffed by disjoint
sets of workers, limits are positive, what the model invents is not in the database, the workers of a
stage are finitely many and `NoTask` is not a task (`ConsumerGroup`), an indicator has a host and addresses are
finitely many (`EvidenceStore`: IPv4 and IPv6 addresses are), a host written as an address is one of the
addresses (`Collectors`), migration files have
distinct names, a request is counted within `MaxLag` of reading the clock, bucket bounds ascend and the workers that
measure are finitely many (`StageMetrics`).

Every safety property that a passing run checks is proved, from an inductive invariant that strengthens it.

**The pipeline** (`PipelineProofs`, `RecoveryProofs`).

- `TypeCorrect` – `TypeOK`. One lemma for each group of store
  and stream operators, then one step for each action.
- `TasksNeverAhead` (`NoTaskAhead`), `AnalysisFollowsEvidence` (`EvidencePrecedesAnalysis`), `ConclusionsAreGrounded`
  (`ConclusionIsGrounded`), `PipelineImplementsLifecycle`, `PipelineImplementsVerdict`. None of these is inductive by
  itself: that a stage may trust what earlier stages wrote depends on where its task came from. `GroundingInv`
  says so: every task, in a log, in a worker's hands, or about to be published by the sweeper
  or a worker, is *ready*, which means its investigation has reached the stage and the rows of the
  stages before it exist. Two facts make this survive all interleavings: every step moves statuses
  along legal transitions only (`LegalStep`), and evidence, summary, result and edges only grow
  (`RowsGrow`); hence what was ready stays ready (`ReadyStays`), and only the steps that
  create a copy of a task need an argument of their own. The two refinements follow
  from `LegalStep`, `RowsGrow` and what `Conclude` checks.
- `NoWorkIsStranded` (`NoStranding`), `DeadLettersAreFinal` (`DeadLetterIsFinal`). An active investigation has an
  unacknowledged task because nobody acknowledges one too early. `RecoveryInv` adds to `GroundingInv` what that takes:
  what a worker holds is what the log says (`HeldInLogs`); an entry that was acknowledged has settled its work, which is to say that its
  investigation has ended or moved past the stage, or is where the stage leaves it with a task of the next stage outstanding (`DoneAreSettled`), and so has one in front of XACK, while one
  in front of the dead letters has failed its investigation (`EndsReady`); an active investigation is in the log the sweeper would publish it to,
  or its first publish is to come or was lost (`RowsHaveTasks`); and what is in the dead letters has ended. `NoStranding` follows for each status
  from the task that carries it.
- `ClaimsStayExclusive` (`ClaimsAreExclusive`). Without overruns, an entry that a worker holds is
  pending with the attempt of the task and not idle, so that XCLAIM cannot reach it, and two tasks of one entry are one task in one
  worker's hands (`HeldExclusively`).
- `TasksArePublishedOnce` (`NoNeedlessDuplicates`). In a run without crash, overrun or early sweep (`OnceInv`),
  a stream names only what the one before it named, and an entry whose investigation is handed over is acknowledged or about to
  be (`HandedOver`); a row is stale, fetched or touched only if its first publish was lost and no sweep has made up for it, and
  one that was touched is fresh again (`SweptOnce`). A retry therefore never publishes, and a sweep only once.

**The consumer group** (`ConsumerGroupProofs`).

- `OneWorkerWins` (`OnlyOneWins`), `NothingIsLeftBehind`
  (`NoneLeftBehind`) and the types they rest on (`GroupTypeCorrect`). The invariant `GroupInv` adds
  to the types that a group which does not exist has delivered nothing that is not lost, that every
  task a worker holds was delivered, and that a worker in front of XACK has settled the job. For the number of holders it
  counts idleness as a right to one more: an entry that is not idle has at most `1 + overruns` holders,
  an idle one at most `overruns`, so that XCLAIM, which makes a holder, spends what the threshold gave. The
  counting uses the library's theorems on finite sets.
- `AttemptsAreLimited` (`TriesAreBounded`), `DeadLettersWereTried` (`GivenUpAfterTrying`). The attempt a worker acts on
  comes from a listing of any age, so neither bound is inductive by itself. From above, a listed count is behind Redis' own by no
  more than the overruns (`ListingsAreFresh`), and so is the attempt of a task in hand; the times an entry was begun, together with the workers
  that may still begin it, stay within that attempt (`StartsAreFew`). From below, each delivery but the last came to a
  try, or a fault or overrun explains it (`DeliveriesAreTried`), and the last one has a worker that still keeps it.

**The agent and its clients** (`AnalystProofs`, `ScriptProofs`).

- `AgentTypeCorrect`, `ResultsStayWhole`, `SuccessMeansVerdict`,
  `AgentsImplementVerdict`. The strengthening `AgentInv` adds that a proposal in
  front of `persist` is verified, and stays so while other loops and enrichment write, because
  observations and entities are never removed.
- `ScriptsAreModels` – `AgentInv` holds with any mix of clients. `ScriptedAnalyst` has one step the arbitrary model
  lacks, a read tool that raises; it is shown to keep the invariant as well. `DefaultStaysGrounded` (`DefaultIsGrounded`) adds
  that what a loop was shown belongs to its own investigation, and that the default script's proposal is exactly
  what it was shown.

**Evidence and graph** (`CollectorsProofs`, `EvidenceProofs`).

- `TargetsAreAllowed` (`OnlyAllowedTargets`), `OutcomesAreAsAssumed` (`OutcomesAreEvidence`), `AddressesFollowRedirects`
  (`AddressesAreOfFinalHost`). `CollectorsInv` relates the hop counter to the length of the chain, says
  that what is resolved was answered for the chain's last host and is allowed, which is what protects a literal, and what was handed over for which end of each collector.
  `OutcomesAreAsAssumed` is what `EvidenceGraph` assumes of an answer.
- `EvidenceTypeCorrect`, `SummariesAreTrue` (`SummaryMatchesEvidence`), `AddressesBecomeEntities` (`AddressesAreEntities`),
  `EdgesAreObserved` (`GraphIsObserved`), `CompletedAreLinked` (`CompleteIsLinked`), `CompletedAreVisible`
  (`CompleteIsVisible`). While evidence is collected once, one pass at a time is at work on an investigation, and what it has written
  so far agrees with its position (`OnePassAtATime`, `WrittenSoFar`, `Summarised`, `Recorded`); from the verdict on, the
  observations are those it was reached on (`CitedIsStored`). For correlation, every link of that evidence is an edge
  already or is still on the list of each worker that may complete it (`LinksRemain`, `Linked`), which is why it does not matter which of
  two workers completes it, or that both skip a hop that stays on its host.

**Deployment** (`DeploymentProofs`).

- `MigrationsApplyOnceInOrder` (`AppliedOnceInOrder`),
  `ServicesStartOnTheirSchema` (`ServicesFindSchema`), with runs that overlap: the ledger and what was applied are the same prefix of the
  files, and what a run has still to apply is a suffix of its image that starts no later than
  the prefix ends, so that the primary key stops whoever comes second. `AdmissionsStayLimited` (`WindowsAreLimited`) and
  `CountersExpire` (`KeysExpire`): a key lives until the last request of its window has
  been counted, and as long as it lives its counter is at least what the window admitted.
- `ScrapesAreExact` (`ScrapeIsExact`), `ScrapesAreClose` (`ScrapeIsClose`). `MetricsInv` bounds each field of the hash: it is behind
  the durations that belong in it by the workers that have still to increment it, and by at most one more for each pipeline that broke. What
  a scrape renders carries the previous bucket over an empty field; `Rendered` is recursive, and what it renders – the last field at
  or below that holds a count – is shown by the least bucket for which it would be false, with the library's theorem on minimal elements
  of a well-founded order in place of an induction.

Left to TLC, because they are out of this prover's reach: everything under fairness
(`EventuallySettled`, `StreamsDrain`, `GroupSettlesJobs`, `EvidenceLeadsToVerdict`, `ClientsEnd`,
`CollectionEnds`), and with it ENABLED. The modules have no RECURSIVE operators. The properties of the runs that
expect a violation are false and have no theorem.

## Findings

1. **Giving up looks at the message, not at the investigation** (`workers/base.py:108`, run
   `guarded`). A worker publishes the next task and dies before acknowledging. If its
   message had used its attempts, the reclaim fails an investigation that the next
   stage is working on, against `core/lifecycle.py:4-6`, "every transition is expressed as an UPDATE guarded by the
   status the worker expects to find".
2. **An exception inside the result tool uses up its only call** (`analyst/tools.py:280`, run
   `counted`), although "a rejected attempt does not count" (`tools.py:291`): the model is told
   it has already called the tool, and the loop can only end as a permanent failure.
3. **The second pass is not a no-op** (`core/store.py:71`, run `cited`), as `core/store.py:5-6`,
   `README.md:265` and the design document say: observations are overwritten, also after a
   verdict cited them. During such a pass the summary, written last, contradicts the observations,
   and the analyst reads both.
4. **Running workers never create the consumer group again** (`workers/base.py:91`, run `regroup`). When
   Redis comes back empty, a task that was published is lost, and the sweeper publishes it again, which is what it
   is for (`sweeper.py:1`). But the group is lost too, and the commands of a worker that runs on fail with NOGROUP,
   which the loop takes for a passing failure: it polls in vain until some process is restarted and calls `ensure_groups()`.
5. **No worker acknowledges before it publishes** (`workers/base.py:162`, run `recovery`). The docstring of
   `sweeper.py` (lines 3 to 7), `README.md:379`, the design document (742 to 746) and `TestResume` in
   `tests/integration/test_reliability.py` (112 to 116) explain the sweeper by a worker that acknowledged and died before
   publishing, which leaves nothing in Redis. `_process` publishes first, as its own comment (155 to 160) says it must, and
   the state they describe cannot be reached: it would violate `NoStranding`, which holds wherever workers die,
   and which is violated once the order is turned round (`SummariseAndAcknowledge`). What the
   sweeper is needed for is a first publish that failed, and data that Redis lost.

The properties of `EvidenceGraph` that finding 3 would break are stated for
evidence that was `CollectedOnce`: passes may fail and be interrupted any number of times, but none follows
the one that published. `graph` still runs with one redelivery, so that the steps
are there and the condition, not their absence, is what the properties rest on.

Met while modelling, and without a run of their own:

- `get_enrichment` carries the note "Includes everything collected for the current investigation" (`analyst/tools.py:232`),
  but returns the 50 rows collected last of the investigation and its indicator together (`tools.py:217`): rows of
  other investigations may take the place of its own, and if none of its own is left the default script gives up
  (`stub_client.py:164-169`), a permanent failure. `clients` has the limit bind, but its properties speak of what was
  shown: `EvidenceLeadsToVerdict` says nothing of a script that saw no evidence of its own, nor of a loop in which the
  database failed, which is finding 2.
- `enrichment/dns.py:43` says a lookup "Raises on timeout or resolver failure"; a failure of all
  nameservers is recorded as an empty answer (`dns.py:35`).
- The entity view shows edges whose other end is not among the entities shown (`ViewRelationships`), where the
  route speaks of one hop.
- A scrape between two increments may show a bucket above a larger one; `ScrapeIsClose` bounds by how much.

## Not modelled

- Malformed messages, which `consume` and `reclaim` acknowledge unseen.
- The read routes other than the entity view, which are single queries; the gauges of the metrics, which are
  queries too; parsing of indicators; classification of addresses; text of prompts; wiring, logging,
  configuration, containers and demo data. None of them keeps state.
- In `EvidenceGraph`: cancellation and failure, which only end a sequence of passes early, the
  attempt limit, metadata and timestamps of entities, which no worker reads, and two
  investigations at work on one graph.
- In `Pipeline`: loss of Redis data and commands of a reclaim that fail halfway, which `ConsumerGroup` has.

## Plan

Done: life cycle, streams, workers, sweeper, API and their composition; reclaim command by
command; agent loop and its clients; collectors, evidence, graph and its view; migrations,
rate limit and histogram; theorems for the type invariant and every safety property of each passing run. Left are
theorems that tie the models closer together:

1. Each step of `EvidenceGraph`, seen through statuses and observations, as a step of `Verdict` or a stutter, while
   evidence is collected once; so far only `Pipeline` and `AnalystAgent` are shown to implement it.
2. The reclaim of `Pipeline` as what a reclaim of `ConsumerGroup` amounts to when nothing interferes.
3. What scripts cannot do: the hallucinating script's first result is always rejected.
