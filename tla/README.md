# A model of ancientt

ancientt automates network tests: it reads a test definition, selects hosts,
plans which host runs a server and which run clients against it, lets a
*runner* (Kubernetes, Ansible or a mock) execute the plan, parses what the
clients print and hands the tables to *outputs* (files, charts, databases).
This directory models its control in TLA+, checks the models with TLC and
proves with TLAPS all their safety properties, and of the liveness properties what
does not depend on fairness.

Paths are relative to the repository. `PROJECT.json` lists components, runs,
mutants, hazards and theorems, and maps each definition to the lines it models.

## 1. Inventory

| component | state | operations | interacts with | what makes it correct |
|---|---|---|---|---|
| Test loop, `cmd/ancientt/ancientt.go` `run`, `prepare` | the test, its outputs, what was read from stdin | load, prepare, plan, ask, execute, check errors, clean up | all | a test is skipped, aborted or done as `continueOnError` says, and none runs without consent |
| Pipeline, `run`, `doOutputs`, `parsers/*` | four goroutines, channels inCh, dataCh, errCh, doneCh | send, parse, emit, write, report, close | runner, outputs | no result lost, repeated or reordered without a report; no send on a closed channel; the test ends |
| Kubernetes runner, `runners/kubernetes`, `pkg/k8sutil`, `pkg/util/names.go` | namespace and pods in the cluster, the variable `pod`, the Status of a task | prepare, recreate, wait, read logs, delete, clean up | Kubernetes API, parser | logs belong to the client, every client gets a verdict, no pod is left |
| Ansible runner, `runners/ansible` `Execute` | server command with its context, `mainTaskStopped`, Status | start, check, run clients, cancel, wait | executor, parser | a cancelled server is no failure; nothing of a task reaches the next |
| Ansible host facts, `GetHostsForTest`, `pkg/ansible` | inventory, worker pool, channels inCh, retCh, map of hosts | look up groups, feed, fetch, report, close, collect | executor | no host of the groups is lost; the pool answers |
| Mock runner, `runners/mock` | none | hosts; the rest does nothing | parser | as the test loop |
| Host selection, `pkg/hostsfilter` | none | filter, anti-affinity, random | runners | only hosts that were asked for |
| Testers, `testers/*` | the plan and its Status | Plan, Add... | runners | each server and client pair once per round |
| File outputs, `outputs/csv`, `dump`, `excelize`, `gochart` | maps of open files, row counters | Do | pipeline, disk | tables are complete, no result overwrites another |
| SQL outputs, `outputs/sqlite`, `outputs/mysql` | map of connections | Do | pipeline, database | a result is in its table or reported |
| Table transformation, `outputs/data.go` | headers, rows and shared cells | Transform | tests only | headers and rows stay aligned |
| Configuration, `pkg/config` | nested pointers | defaults, validate | all | no nil pointer is followed in a complete configuration |
| Kubernetes client, command templates, models, helpers, docgen | none | | | not modelled |

What is hard about it: the stages of the pipeline block each other through
unbuffered channels, and each may give up; the collector takes one error only;
client goroutines share the variable `pod`, a pod name and the maps of the
Status; a server is stopped on purpose and must not count as failed; workers of
the host pool give up one by one; outputs keep state over results and tests
while the disk and the database keep more; each question to the user takes a
reader of its own; and most pointers of the configuration are followed without
a look.

## 2. Modules

```
Configuration <-- TestLoop <-- MCTestLoop, TestLoopProofs
Delivery        <--refines--  Pipeline          <-- MCPipeline, PipelineProofs
RunnerContract  <--refines--  Pipeline (its runner part)
                <--refines--  KubernetesRunner  <-- MCKubernetes, KubernetesRunnerProofs
                <--refines--  AnsibleRunner     <-- MCAnsible, AnsibleRunnerProofs
AnsibleHosts  <-- MCAnsibleHosts, AnsibleRunnerProofs
Planning      <-- MCPlanning, PlanningProofs
FileOutputs   <-- MCFileOutputs, FileOutputsProofs
SqlOutputs    <-- MCSqlOutputs, SqlOutputsProofs
Transformations <-- MCTransformations, TransformationsProofs
```

**Delivery** is what a test promises about results, whatever runner and outputs
are configured: results are accepted one by one, every output takes the accepted
ones in that order and is never more than `Capacity` behind, and in a test that
ends without a report every output has taken everything.

**RunnerContract** is what `run()` relies on when it calls `Execute`: main
tasks one after the other, each result of a client of the current task at most
once, in sequential mode in plan order, and no task is left before each of its
clients is accounted for by a result or a failure in the Status.

**Configuration** reduces the file to the pointers that are not nil, and says
which of them `Load` fills in, what it rejects, and which ones `New` of a runner,
`GetHostsForTest`, `Plan`, `Prepare`, `Execute` and `Do` follow without a check.

**TestLoop** is `run()` from the flags to its return, over the list of tests. The
execution of a test is one step with four outcomes: clean, failed hosts, a crash
of the program, or a hang. Pipeline and the runner modules show where these
come from. `stdin` is what the user types, `done` what has happened to each test.

**Pipeline** is one iteration of the loop in `run()` from `Execute` on. The
variables `main`, `client`, `parser`, `outputs` and `collector` say where each
goroutine is; `closed` holds the closed channels; `accepted` and `written` are
the results the parser received and those the `Do` of each output took without
an error. A send
on an unbuffered channel is one step together with its receive (`SendInput`,
`EmitData`, `ParserReports`, `OutputsReport`). The parser actions stand for the
`Parse` of both parsers, which agree in their control. The runner is the one of
Kubernetes, reduced to what it does on inCh: `ServerUp` to `EndTask`. A result
is the pair of main task and client it came from. The RunOptions and the flag
`--no-cleanup` are the variable `options`, chosen in `Init`.

**KubernetesRunner** is `Prepare` with its namespace, `createPodsForTasks`,
`pushLogsToParser` and `Cleanup` with one step per API call of `k8sutil` and per
access to the shared variable `pod`. All client pods of a test have the same name, as the code builds the
name from role, command and start time; so a pod is identified by its role, and
its record says for whom it was created. `Kubelet` is the cluster. `faulty`
says whether calls may return errors and waits may give up. When two goroutines
write a map of the Status at once (`Racing`), a write may be lost (`Record`,
`lostFails`, `lostOks`), or the Go runtime ends the program (`MapRace`). A
send on inCh needs a parser that receives: `ParserStops` lets it stop for good
after any result, as it does after an error in the pipeline (`ParserReports`,
`DoFails`), and `Stuck` is what becomes of the runner then. The Pipeline's
runner is the coarse view of this module. MCKubernetes bounds where writes are
lost (`LateLosses`), as two tasks with everything that may go wrong at once are
too many.

**AnsibleRunner** is `Execute` and `runTasks`: the main goroutine, the
goroutine of the server command and those of the clients. `mainTaskStopped` is
read without synchronisation; a server that failed by itself may see the old or
the new value (`ServerErrorIgnored`, `ServerErrorCounts`), one that was killed
sees what was written before the kill. Lost writes and a parser that stops are
as above. `trouble` is a history variable: the
tasks whose server failed by itself or was not found up.

**AnsibleHosts** looks up the hosts of two groups in an inventory of nested
groups (`HostsForGroup`), and is the worker pool that fetches their addresses.

**Planning** goes from nodes and selections to the plan: `FilterHostsList`
with its anti-affinity loop, one step per node and the values seen so far in
`used`, the random picks, and `Plan` with its rounds, tasks and sleeps. The order
in which Go ranges over a map is a choice. The label keys of `antiAffinity` are
a set: a key that is listed twice would make every host with it clash with itself.

**FileOutputs** and **SqlOutputs** are the `Do` of the outputs over several
tests. Of a name pattern it counts which fields of the result it mentions, as
that decides which results share a file or table. Start times count in seconds,
as they do in file names. Each table of mysql has a connection of its own, as the
name of the table is appended to the DSN (`Connection`). The disk may be full from
some time on; the database may refuse any statement.

**Transformations** is `Transform` with one step per header change and per row.
A table holds pointers to cells, as in the code, because the rows that
pingparsing makes of one result share some. An action is any string, as the
configuration is not checked for it: one that is none of the three does nothing
(`PassOver`, which is also where a row that is too short is passed over). The
reference works on whole columns. So far only a unit test calls `Transform`.

Operators marked *Faulty* are no part of any specification. Each is a plausible
mistake in the code (a missing wait, a dropped report, a reset left out) by
which a definition can be replaced; `PROJECT.json` pairs each property with
one that TLC must catch.

## 3. Runs

| run | instance | states | checks |
|---|---|---|---|
| TestLoop | 9 runner sections, lists of up to 3 tests of 15 kinds, all flags, 5 inputs by terminal or pipe | 300,000 | TestsAccountedFor, NothingUnasked, PanicsExplained, Finishes |
| Pipeline | 2 tasks, 2 clients, 2 outputs; sequential/abort/clean up and parallel/continue/keep; any failure | 186,000 | TypeOK, PlanOrder, EveryRunAccountedFor, NoSendOnClosed, DoneAfterDrain, OutputsInStep, QuietMeansEverything, KeepsPromise, EndsOrHangs |
| PipelineHang | 1 task, 2 clients, parse errors | violated | ContinuesOnError |
| Kubernetes | 2 tasks, 2 clients, both modes, with and without faults, a parser that may stop | 718,000 | TypeOK, LogsMatchInSequence, ServerServesClients, Verdicts, NothingLeftWhenAllWell, CleanupDeletes, KeepsContract, EndsOrSticks |
| KubernetesPodNames | 1 task, 2 clients | violated | LogsMatchClient |
| Ansible | 2 tasks, 2 clients, both modes, any failure, a parser that may stop | 31,000 | TypeOK, StopIsNoFailure, NoStraggler, Verdicts, KeepsContract, EndsOrSticks |
| AnsiblePanic | 2 tasks, 1 client, server checks fail | violated | ErrorsHandled |
| AnsibleHosts | 4 inventories of up to 4 hosts, 3 workers, 4 failures | 34,000 | CompleteOrError, ClosedInTime, WholeInventory, AnswersOrStarves |
| Files | 2 tests, 2 rounds, 2 pairs, 2 rows, 2 lists of outputs, full disk | 137,000 | TablesComplete, EveryResultKept, OldFilesUntouched |
| Sql | 2 tests, 2 rounds, 2 pairs, 2 rows, 5 configurations, any refusal | 100,000 | TypeOK, RowsInOrder, MissingTableExplained |
| Planning | 3 nodes, any values of 2 labels, a selection of servers and 2 of clients, 2 rounds | 716,000 | PlanComplete, SelectionsRespected |
| Transformations | 2 results with 3 rows, every list of up to 3 transformations, an unknown action among them | 67,000 | MatchesReference |

Why the bounds are enough. Two clients are two writers of every shared
variable, pod and map; two main tasks are a task and its successor, which is
where stale pods, stragglers and late results would show. Two outputs are an
output that is ahead of another. In the pool, three workers and four failures
leave a worker or none; the inventories have neither group, flat groups, a chain of
two below a group, and groups that share their children. Two rounds, pairs and
tests make each combination of results that do and do not share a file, and
two rows make a result that is half inserted. Three nodes with two label values
force a clash of anti-affinity and a host that clashes with one not next to it;
with two labels a host that was rejected for one rules out a further one by the
other.
In the test loop, a skipped test between two good ones is what may end the loop
too early, and each kind of test leaves out one thing; three lines of input are
an answer, one that is lost in the buffer of a reader, and one after it. Three
transformations can add a column, rename it and delete it, in any order and with
an unknown source between them.

Named bounds: `NTasks`, `NClients`, `Retries` (commandRetries), `MaxFailures`
(fact calls that fail; as many as there are hosts, so that it cuts off nothing),
`NTests`, `NRounds`, `NRows`. None cuts off a counter of the code: each is a size
of the plan or configuration. `LateLosses` of MCKubernetes is a bound on failures: in
runs where API calls may fail, writes to the Status are lost in the last task only;
in the others, and in the proofs, anywhere.

Deadlock is checked in all runs but those of the Pipeline and the host pool,
where a test may hang: `EndsOrHangs` and `AnswersOrStarves` say there in which
ways only.

### Fairness

In TestLoop it is weak fairness of `Program`, the one goroutine of `run()`; the
user types the lines of `stdin` and then ends the input. In the other modules
`FairSpec` has weak fairness for each goroutine as a whole: the Go scheduler
runs what is not blocked, and what a goroutine waits for from outside is
bounded by a timeout of the configuration or, in behaviours without faults, by a
cluster that runs and removes pods (`Kubelet`). Failures are never forced, as the failing
alternatives share an action with the successful ones or have no fairness of
their own. That the parser receives is not assumed of the runners, as it may have
given up (PipelineHang): `EndsOrSticks` says that Execute ends or gets as far as
waiting for a parser that has stopped. No strong fairness is used. Which send meets a receive when several
goroutines are ready is left open.

## 4. Where the code and what is said of it part

Each of these is a run that TLC ends with a counterexample:

* **PipelineHang.** "Continue on error during test runs" (`config.go`): after a
  parse error nobody receives from inCh, and `Execute` blocks in its next send.
* **KubernetesPodNames.** `names.go` speaks of checksums of the used names and
  `docs/demos.md` shows a pod name per client; the name holds neither host nor
  checksum. In parallel mode clients replace each other's pod and report its
  logs as their own. In sequential mode this does no harm
  (`LogsMatchInSequence`).
* **AnsiblePanic.** `Execute` means to return or to go on after an error, but
  dereferences a RunOptions of the plan that no tester sets.

Others are visible in the models without a run of their own:

* Runners. Once as many fact calls have failed as there are workers, with hosts
  left, the host pool never answers (`Starved`). The maps of the Status have no lock:
  a verdict may be lost, or the program may end (`Record`, `MapRace`). A server whose command fails after it was found is marked failed,
  and successful too when its clients are through (`MarkStopped`).
  "Cleanup remove all (left behind) Kubernetes resources" (`kubernetes.go:396`), but
  `PodDeleteByLabels` returns nil at the first pod that is already gone
  (`k8sutil.go:111`), so that `Cleanup` reports success and leaves the server pod
  when the client pod, which it comes to first, has disappeared. `CleanupDeletes`
  says that this is all it misses.
* Test loop. Without `continueOnError` a failed host makes `run()` return before
  `Cleanup` (`CheckForErrors`); with it, which is the default, the program exits
  with 0 although hosts failed. Errors of `GetHostsForTest`, `Prepare` and
  `Cleanup` end the program in any case. `--only-print-plan` returns after the
  plan of the first test (`Plan`). `--yes` is documented as "Ask for user
  confirmation" and `--no-cleanup` as "If runners should run cleanup routines"
  (`ancientt.go:57-58`), and each does the opposite. Answers that come through a
  pipe in one piece are lost after the first question (`Fetch`). A section
  `kubernetes` without timeouts or hosts ends in a nil pointer
  (`ExecuteFollows`), as does a null in the list of tests or of the graphs of gochart, and a negative number of
  rounds in a panic of `make` (`Plan`).
* Outputs. The documentation gives the format of a DSN (`config.go:199`), but mysql
  connects to the DSN with "-" and the name of the table appended (`Connection`), which
  is another database or an option that is garbled. The sqlite output, which "will always create the tables when they
  don't exist", creates the first table of a file only (`MissingTableExplained`).
  Two tests that start in the same second share their files, and the second
  truncates them. The csv output drops the error of its `Flush`
  (`CSVFlushFails`). A graph without the optional `leftY` makes gochart panic
  (`GoChartPanics`), and the chart of a round replaces that of the one before,
  which the default pattern does not tell apart (`GoChartDo`).
* Planning. AntiAffinity is "not implemented yet" (`config.go:55`,
  `docs/config-structure.md:158`), but `checkAntiAffinity` is there and
  `FilterHostsList` calls it (`hostsfilter.go:39`). It also notes the labels of hosts
  it rejects, so that a host may be left out that clashes with none of the chosen
  ones (`CheckAntiAffinity`). The models follow the code, and SelectionsRespected
  says what it does. `Plan` adds the sleep "after each round" after each server
  (`PlanServer`). Random selection draws with replacement and may select fewer
  than `count` hosts (`PickRandom`).
* Transformations. They are "to be applied to Output data" (`config.go:315`), and
  `design/flow.mmd:41` has each output apply them; but nothing calls `Transform`
  except its unit test, so the program applies none. What the module says of
  `Transform` holds of the function, and of the program once it is called. A replace with a modifier changes a cell that rows share once
  for each of them (`ReplaceCell`). A source that is not found drops the
  transformations after it (`UnknownSource`).

## 5. Proofs

Each proof holds for every value of the constants that satisfies the named
assumption of the module, which says no more than what types the configuration
gives them, unless another one is named here. A proof has the same shape each
time: an inductive invariant `IInv`, or invariants that build on each other, one
step per action and conjunct, and the property as a consequence. Nothing is proved
from fairness.

**PipelineProofs** (`PipelineAssumption`):

1. `Typing`: TypeOK with `Holding`, what a stage holds in each of its states.
2. `PhasesInvariant`: what the main goroutine has waited for in each phase, as
   every client back when it is not in a task. `NeverSendsOnClosed` follows;
   NoSendOnClosed alone is not inductive, as it says nothing of clients before
   inCh is closed.
3. `FlowInvariant`: output number k has exactly the accepted results but for
   the one the parser holds and, if its turn is still to come, the one
   `doOutputs` holds. `StaysInStep` and `DrainsBeforeDone` follow.
4. `PositionInvariant`: which clients are started, and that accepted results
   belong to earlier tasks or to clients that have sent. `KeepsPlanOrder`
   follows.
5. `AccountsForEveryRun`: every run Execute is through with was accepted or is
   recorded as failed. With 3 and 4 this gives `QuietEnd`: a quiet end means
   that every result reached every output once.
6. `ImplementsDelivery`: each step is one of Delivery or a stutter, which needs
   3 for what an output is handed and 4 for each result being new.
7. `ImplementsContract`: with `accepted` as the delivered results, the runner in
   this module implements RunnerContract as well, so that what is proved here
   of the pipeline supposes nothing of a runner that the two runners do not
   keep. It needs 4, 5, and that a failed client has returned (`Recorded`).

Step 3, the half of 5 about outputs, and 6 suppose `DistinctNames`: `prepare()`
keeps one output per name, and a name that is configured twice gets each result
twice.

**KubernetesRunnerProofs** (`KubernetesAssumption`):

1. `ServesClients`. The server pod is known by its name only, and the pod of an
   earlier task has the same. `ServerPod` follows it from the delete to the
   clients: nothing of that name is left when it is created, so what runs is the
   pod of this task; `OwnersKnown` says whose pod each goroutine is about to
   create.
2. `SequenceMatchesLogs`. Client goroutines share the variable `pod` and one pod
   name. `Started` says that in sequential mode only the client started last is
   under way; from this `OwnPods` says that what it finds under the name is its
   own: its assignment is the last one, and an older pod is gone before it
   creates its own. In parallel mode both fail, and so does the property.
3. `KeepsVerdicts`: `Recorded` ties the Status, with the writes that were lost, to
   where each goroutine is. A failure is lost only while another goroutine is about to
   write the same map, so that the last of them is recorded (`Losses`).
4. `LeavesNothing`: `Leftovers`, that a pod that exists has a goroutine that
   will delete it, or somebody has failed. `CleanupMisses`, about what `Cleanup` has
   deleted, does without it: `Cleaning` follows the list.
5. `ImplementsContract`, from `Started` for the order of the plan and `Recorded`
   for the end of a task.

**AnsibleRunnerProofs** (`AnsibleAssumption`): `Phases` says what the main
goroutine has waited for, and that `mainTaskStopped` is set before the server is
killed; `NoStragglers` and `StopsAreNoFailures` follow from it, the latter with
the order of the kill and the read of the flag. `Started`, `Recorded` and
`Losses` are as above, and give `KeepsVerdicts` and `ImplementsContract`.

In the same module the proofs of AnsibleHosts: every host is waiting, found, failed or in the hands of a
worker (`Pool`), from which `NoHostMissing` and `ClosesInTime` follow.
`ReturnsInventory` is about the recursion of `GetHostsForGroup` and does without
induction: the hosts of all groups below a group solve the equation of the
recursion (`ReachableUnfolds`), and among groups without loops the equation has
one solution (`HostsAreReachable`), as the set of groups on which two solutions
differ has no member without a child in it. `InventoriesAssumption` says that
there are no loops; on a loop the code would not return, and Ansible itself
refuses such an inventory. `FiniteAssumption` says that inventories and pools are
finite, which only the termination of the pool needs.

**PlanningProofs** (`PlanningAssumption`): the property says which nodes pass by
comparing each with all candidates before it, the code by a loop with `usedLabels`.
`Passed` relates the two: after each node, `usedLabels` has the values of all
candidates so far and the hosts kept are those that pass (`OneMore`), which are apart
(`PassingApart`). `Chosen` carries this over several selections and random picks, of
which the first makes the selection honoured, to `RespectsSelections`. `LaidOut` says that
each round has one task for every server it no longer lacks; as `Plan` ranges over
two Go maps, the order is left open, and `Permutation` is all that is known of it.
`CompletesPlan` follows.

**FileOutputsProofs** (`FilesAssumption`):

1. `Shape` and `Sheets`: results of a test are distinct, and the sheet excelize
   keeps in memory has the rows of the file, with the row counter behind the last,
   as long as no output of the test has failed.
2. `KeepsOldFiles`: the file of a result has the second of its test in its name
   (`NamedToday`), and only that file is touched, by failing writes too.
3. `KeepsEveryResult`, from `AllStored`, which says the same in the middle of a
   result: for each output that had it, the result is on the disk, or the csv file
   is broken and has lost it as its last.
4. `CompletesTables`, from `Tables`: a file is the table of the results that share
   it, up to where its output got. It supposes `Distinct`, that no output is
   listed twice in a test: otherwise each result is written twice.

**SqlOutputsProofs** (`SqlAssumption`):

1. `ExplainsMissingTables`: where the database refuses nothing, every file of
   sqlite was opened for a result whose table exists (`OpenedForTable`).
2. `KeepsRowsInOrder`. RowsInOrder says by index what the rows of a test are: each
   line that is due is there, each that is there is due, and the order is that of
   the calls, by row within a result. It is inductive with `Shape`, that results
   are distinct and that no row is of a later test.

**TestLoopProofs** (`TestLoopAssumption`):

1. `AccountsForTests`. TestsAccountedFor is not inductive, as it says little of
   the test at hand: `AtHand` adds what is done of it at each stage, `OnlyPrinted`
   that a plan that is only printed leads nowhere, `Shape` that the list keeps its
   length when the defaults are set (`DefaultsKeepShape`).
2. `AsksFirst`. `Consent` counts: each confirmation adds one test to `Confirmed`
   and at least one line to `YesRead` (`YesConfirms`), nothing else reads or
   confirms, and what is executed without `--yes` was confirmed before.
3. `ExplainsPanics`. `Filled` says that from `Load` on everything the defaults
   set is there, which takes that a default adds nothing that has defaults of
   its own (`OnePassCloses`), and what each stage has checked of runner and
   type. Where no such pointer is missing, no stage follows a nil one.

**TransformationsProofs** (`TransformationsAssumption`): `TransformMatchesReference`.
The code walks over the table by transformation and row, the reference over whole
columns, and both keep state in cells that rows share. `IInv` relates them at each
step of the loop: the table is the one the reference has after the transformations
that are through (`Table`), with the rows behind the loop transformed and the
others not (`Width`, `Gone`), and each cell has been modified once for each row
behind the loop that shares it (`Rounds`, `CellValue`). The headers are one
transformation ahead of the rows (`Heads`). It takes two facts about data:

1. `PointersMeet`: as parsed, two places of the table point to one cell if and only
   if they are the same, or in the same shared column and in rows of the same
   result. So a deletion or an added column never changes who shares what.
2. `ReferenceUnfolds`: the recursive function `Reference` satisfies its equation
   for lists of any length. Instead of the induction theorems, whose operator
   parameters the provers cannot instantiate, the proof takes the least number up
   to which there is no solution (`LeastNumber`, `SolutionExists`), or on which two
   of them differ (`SolutionUnique`).

### Why programs end

A liveness property says that something happens. What TLAPS cannot prove of it is
that a process which can take a step does take it; the rest is safety, and proved
for every plan, in the same way in each module:

* Nothing goes on for ever (`TakesFinitelyManySteps`). What is left to do is a few
  sets, as the clients that have not sent yet or the hosts not yet fed. They are
  finite (`FinitelyMuchLeft`), and every step removes a member from one and adds to
  none (`OnlyStrikesOff`). In the Kubernetes runner this is a lexicographic order:
  a goroutine that creates a pod gives the cluster a life to run, but strikes off
  something of its own for it. In TestLoop what is left is stages of tests and lines
  of input; in the pool hosts, calls and exits (`PoolTakesFinitelyManySteps`).
* Nothing is blocked without a reason. `CanStep` names, program place by program
  place, when some process can go on, and the theorems show that it holds unless
  the program has ended, a runner waits for a parser that has stopped
  (`BlocksOnlyIfStuck` of both runners), the test hangs in one of the three known ways (`BlocksOnlyIfHung`), or the pool has lost its workers
  (`BlocksOnlyIfStarved`). The Kubernetes runner needs `Marked`: a pod that somebody
  waits for is being deleted, or will be by the client that created it again. The
  pipeline needs `Closes`, which says when a channel is closed. In TestLoop there is
  one goroutine, which waits only for the user; TLC checks that it has no deadlock.
* What hangs stays so (`HangsForEver`, `StarvesForEver`), so that the "or hangs" of
  the properties is final.

With weak fairness of the processes, `EndsOrSticks`, `EndsOrHangs`, `AnswersOrStarves` and
`Finishes` follow from these. That `CanStep` is ENABLED of the next-state relation
is not proved; the runs check the liveness properties themselves on the small
instances.

Model-checked only:

* the five liveness properties as temporal formulas: the two `EndsOrSticks`, `EndsOrHangs`,
  `AnswersOrStarves` and `Finishes`. Proofs under fairness and about ENABLED are out
  of the prover's reach.
* the three runs that end with a counterexample, of course.

## 6. What is left out

* The Kubernetes client (a kubeconfig file and I/O), the command templates and
  result models (data without state; that a template may fail is in the runner
  modules), docgen (no part of the program), logging and printing.
* Of the configuration the YAML decoding and the defaults of plain values other
  than the rounds, as no property of the control depends on them.
* The doneCh branches of `Parse` and `doOutputs`: run() closes doneCh after both
  have returned (`DoneAfterDrain`). The branch of `Parse` for an empty Input: no
  runner sends one. The branch of `run()` for an error of `Execute`: the
  Kubernetes and mock runners return none, and the Ansible runner panics first.
* A log stream is read whole once it is open; a stream that breaks is a parse error.
* `Close` of the outputs, which nobody calls; a write of dump, excelize or gochart
  that fails half way; the dialect of SQL statements.
* What `modifyValue` computes: a value is the list of the modifiers applied to it.
  Tables in which rows are shorter than headers: no parser makes them.
* Two outputs of one name in a test (`prepare()` keeps the last, and each result
  is written twice): no document says what should happen.
* The Ansible executor as a process with pipes: a command ends, with or without
  an error, within its timeout, or when it is cancelled.

## 7. Plan

Done: every component with control of its own as a checked module, proofs of all
safety properties the runs check, and the safety part of the liveness properties.
What could follow:

1. `Consent` and `Filled` in TestLoop as a refinement of an abstract life of a
   test: skipped, or prepared, confirmed, executed, cleaned up.
2. The liveness properties themselves, once the prover knows ENABLED.
3. Two outputs of one name in a test, when it is decided what they should do.
