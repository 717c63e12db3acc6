------------------------------ MODULE TestLoop ------------------------------
(***************************************************************************)
(* run() of cmd/ancientt: load the configuration, create the runner, then  *)
(* for each test prepare tester, parser and outputs, select the hosts,     *)
(* make and print the plan, ask the user, execute, check and clean up.     *)
(*                                                                         *)
(* The execution of one test is a single step here, with the outcomes that *)
(* Pipeline, KubernetesRunner and AnsibleRunner show step by step: clean,  *)
(* failed hosts, a crash of the program, or a test that hangs.             *)
(***************************************************************************)
EXTENDS Configuration, SequencesExt, FiniteSets

CONSTANTS
  Runners,    \* runner sections that the file may have
  TestLists,  \* and lists of tests
  Inputs      \* what the user types: sequences of "yes", "no", "other"

ASSUME TestLoopAssumption ==
  /\ Runners \subseteq RunnerSections
  /\ \A tests \in TestLists : tests \in Seq(TestSections)
  /\ Inputs \subseteq Seq({"yes", "no", "other"})

Flags == [{"version", "onlyPrintPlan", "noCleanup", "yes"} -> BOOLEAN]

VARIABLES
  config,  \* cfg
  flags,   \* the flags of the command line
  stdin,   \* the lines typed, and whether they come through a pipe
  read,    \* how many of the lines have been read
  pc,      \* where run() stands, or how the program ended
  n,       \* the test at hand
  hosts,   \* which of "servers" and "clients" the test has
  result,  \* outcome of the execution of the test
  done     \* what has been done, by test

userVars == <<flags, stdin>>
vars == <<config, userVars, read, pc, n, hosts, result, done>>

Marks == {"skipped", "confirmed", "prepared", "executed", "failed", "cleaned"}
Exits == {"ok", "error", "panic"}
Test  == config.tests[n]

Init ==
  /\ \E r \in Runners, ts \in TestLists : config = [runner |-> r, tests |-> ts]
  /\ flags \in Flags
  /\ stdin \in [lines : Inputs, pipe : BOOLEAN]
  /\ read = 0 /\ pc = "start" /\ n = 1 /\ hosts = {} /\ result = "none"
  /\ done = [t \in DOMAIN config.tests |-> {}]

Mark(m) == done' = [done EXCEPT ![n] = @ \union {m}]

\* Following a nil pointer ends the program.
Follows(ptrs, needed, next) == pc' = IF needed \subseteq ptrs THEN next ELSE "panic"

-----------------------------------------------------------------------------
(* Before the tests                                                        *)

Start ==
  /\ pc = "start"
  /\ pc' = IF flags.version THEN "ok" ELSE "load"
  /\ UNCHANGED <<config, userVars, read, n, hosts, result, done>>

\* The file may be missing or no YAML.
Load ==
  /\ pc = "load"
  /\ \/ pc' = "error" /\ UNCHANGED config
     \/ config' = SetDefaults(config) /\ pc' = IF Valid(config) THEN "runner" ELSE "error"
  /\ UNCHANGED <<userVars, read, n, hosts, result, done>>

NewRunner ==
  /\ pc = "runner"
  /\ LET name == config.runner.name IN
     \/ name \notin RunnerNames /\ pc' = "error"
     \/ name \in RunnerNames /\ Follows(config.runner.ptrs, NewRunnerFollows[name], "test")
     \/ name = "kubernetes" /\ NewRunnerFollows[name] \subseteq config.runner.ptrs /\ pc' = "error"
  /\ UNCHANGED <<config, userVars, read, n, hosts, result, done>>

-----------------------------------------------------------------------------
(* One test                                                                *)

AllTestsDone ==
  /\ pc = "test" /\ n > Len(config.tests)
  /\ pc' = "ok"
  /\ UNCHANGED <<config, userVars, read, n, hosts, result, done>>

\* What is wrong with an output: the first one that is not created decides.
Wrong(o) ==
  IF o.name \notin OutputNames THEN "error"
  ELSE IF <<"Output", Section[o.name]>> \notin o.ptrs THEN "panic"
  ELSE IF o.name = "mysql" /\ ~o.dsn THEN "error"
  ELSE "fine"

FirstWrong(what) ==
  \E k \in DOMAIN Test.outputs :
    /\ Wrong(Test.outputs[k]) = what
    /\ \A j \in 1 .. k - 1 : Wrong(Test.outputs[j]) = "fine"

OutputsResult ==
  CASE FirstWrong("error") -> "error"
    [] FirstWrong("panic") -> "panic"
    [] OTHER -> "fine"

PrepareResult ==
  IF <<"Tests", "Test">> \notin Test.ptrs THEN "panic"
  ELSE IF Test.type \notin TesterNames THEN "error"
  ELSE OutputsResult

Prepare ==
  /\ pc = "test" /\ n <= Len(config.tests)
  /\ PrepareResult # "error"
  /\ pc' = IF PrepareResult = "fine" THEN "hosts" ELSE "panic"
  /\ UNCHANGED <<config, userVars, read, n, hosts, result, done>>

\* Faulty: the loop ends at a test that is skipped.
PrepareFailsForAll ==
  /\ pc = "test" /\ n <= Len(config.tests)
  /\ PrepareResult = "error"
  /\ IF Test.continueOnError
     THEN Mark("skipped") /\ n' = Len(config.tests) + 1 /\ UNCHANGED pc
     ELSE pc' = "error" /\ UNCHANGED <<n, done>>
  /\ UNCHANGED <<config, userVars, read, hosts, result>>

PrepareFails ==
  /\ pc = "test" /\ n <= Len(config.tests)
  /\ PrepareResult = "error"
  /\ IF Test.continueOnError
     THEN Mark("skipped") /\ n' = n + 1 /\ UNCHANGED pc
     ELSE pc' = "error" /\ UNCHANGED <<n, done>>
  /\ UNCHANGED <<config, userVars, read, hosts, result>>

\* GetHostsForTest of the mock runner cannot fail; the pool of the ansible
\* runner can starve.
GetHosts ==
  /\ pc = "hosts"
  /\ \/ hosts' \in SUBSET {"servers", "clients"}
        /\ Follows(config.runner.ptrs, GetHostsFollows(config.runner), "plan")
     \/ config.runner.name # "mock" /\ pc' = "error" /\ UNCHANGED hosts
     \/ config.runner.name = "ansible" /\ pc' = "hung" /\ UNCHANGED hosts
  /\ UNCHANGED <<config, userVars, read, n, result, done>>

\* make() panics for a negative number of rounds.
Plan ==
  /\ pc = "plan"
  /\ IF Test.rounds < 0 THEN pc' = "panic"
     ELSE Follows(Test.ptrs, PlanFollows(Test, hosts),
                  IF flags.onlyPrintPlan THEN "ok"
                  ELSE IF flags.yes THEN "prepare" ELSE "ask")
  /\ UNCHANGED <<config, userVars, read, n, hosts, result, done>>

-----------------------------------------------------------------------------
(* The question.  Each attempt makes a new reader of stdin; what a reader  *)
(* has fetched beyond its line is lost with it.  From a terminal it        *)
(* fetches one line at a time.                                             *)

Line == stdin.lines[read + 1]

Fetch ==
  /\ read < Len(stdin.lines)
  /\ \E k \in read + 1 .. Len(stdin.lines) :
       /\ ~stdin.pipe => k = read + 1
       /\ read' = k

\* Faulty: any line is a confirmation.
AnswerAnything ==
  /\ pc = "ask" /\ Fetch
  /\ Mark("confirmed") /\ pc' = "prepare"
  /\ UNCHANGED <<config, userVars, n, hosts, result>>

AnswerYes ==
  /\ pc = "ask" /\ Fetch /\ Line = "yes"
  /\ Mark("confirmed") /\ pc' = "prepare"
  /\ UNCHANGED <<config, userVars, n, hosts, result>>

AnswerNo ==
  /\ pc = "ask" /\ Fetch /\ Line = "no"
  /\ pc' = "error"
  /\ UNCHANGED <<config, userVars, n, hosts, result, done>>

AskAgain ==
  /\ pc = "ask" /\ Fetch /\ Line = "other"
  /\ UNCHANGED <<config, userVars, pc, n, hosts, result, done>>

\* Faulty: at the end of the input the question is repeated.
IgnoreEndOfInput ==
  /\ pc = "ask" /\ read = Len(stdin.lines)
  /\ UNCHANGED <<config, userVars, read, pc, n, hosts, result, done>>

EndOfInput ==
  /\ pc = "ask" /\ read = Len(stdin.lines)
  /\ pc' = "error"
  /\ UNCHANGED <<config, userVars, read, n, hosts, result, done>>

-----------------------------------------------------------------------------
(* Prepare, Execute and Cleanup of the runner                              *)

PrepareRunner ==
  /\ pc = "prepare"
  /\ \/ Follows(config.runner.ptrs, PrepareFollows[config.runner.name], "execute")
        /\ Mark("prepared")
     \/ config.runner.name # "mock" /\ pc' = "error" /\ UNCHANGED done
  /\ UNCHANGED <<config, userVars, read, n, hosts, result>>

HasTasks == "servers" \in hosts /\ config.runner.name # "mock"

\* The pointers that the runner and the outputs follow for a task.
CanExecute ==
  HasTasks =>
    /\ ExecuteFollows[config.runner.name] \subseteq config.runner.ptrs
    /\ \A k \in DOMAIN Test.outputs : DoFollows(Test.outputs[k]) \subseteq Test.outputs[k].ptrs

\* Apart from nil pointers of the configuration a task can crash the program
\* in ways that the other modules show.
ExecuteTest ==
  /\ pc = "execute" /\ Mark("executed")
  /\ \/ CanExecute /\ pc' = "check" /\ result' = "clean"
     \/ ~CanExecute /\ pc' = "panic" /\ UNCHANGED result
     \/ HasTasks /\ pc' = "check" /\ result' = "failed"
     \/ HasTasks /\ pc' = "panic" /\ result' = "crash"
     \/ HasTasks /\ pc' = "hung" /\ UNCHANGED result
  /\ UNCHANGED <<config, userVars, read, n, hosts>>

CheckForErrors ==
  /\ pc = "check"
  /\ IF result = "failed" THEN Mark("failed") ELSE UNCHANGED done
  /\ pc' = IF result = "failed" /\ ~Test.continueOnError THEN "error" ELSE "cleanup"
  /\ UNCHANGED <<config, userVars, read, n, hosts, result>>

\* Only Cleanup of the kubernetes runner can fail.
Cleanup ==
  /\ pc = "cleanup" /\ ~flags.noCleanup
  /\ \/ Mark("cleaned") /\ n' = n + 1 /\ pc' = "test"
     \/ config.runner.name = "kubernetes" /\ pc' = "error" /\ UNCHANGED <<n, done>>
  /\ hosts' = {} /\ result' = "none"
  /\ UNCHANGED <<config, userVars, read>>

NoCleanup ==
  /\ pc = "cleanup" /\ flags.noCleanup
  /\ n' = n + 1 /\ pc' = "test"
  /\ hosts' = {} /\ result' = "none"
  /\ UNCHANGED <<config, userVars, read, done>>

Terminated == pc \in Exits \union {"hung"} /\ UNCHANGED vars

Program ==
  \/ Start \/ Load \/ NewRunner \/ AllTestsDone
  \/ Prepare \/ PrepareFails \/ GetHosts \/ Plan
  \/ AnswerYes \/ AnswerNo \/ AskAgain \/ EndOfInput
  \/ PrepareRunner \/ ExecuteTest \/ CheckForErrors \/ Cleanup \/ NoCleanup

Next == Program \/ Terminated

Spec == Init /\ [][Next]_vars

FairSpec == Spec /\ WF_vars(Program)

-----------------------------------------------------------------------------
(* Properties                                                              *)

(***************************************************************************)
(* Every test before the one at hand was either skipped, because it could  *)
(* not be prepared and continues on errors, or it was executed, continues  *)
(* on errors if hosts have failed, and was cleaned up unless the user did  *)
(* not want that.  Later tests were not touched, and the program reports   *)
(* success only after the last test, or without having executed anything   *)
(* because the user asked for the version or a plan.                       *)
(***************************************************************************)
Skipped(t) == done[t] = {"skipped"} /\ config.tests[t].continueOnError

Completed(t) ==
  /\ {"prepared", "executed"} \subseteq done[t] /\ "skipped" \notin done[t]
  /\ "failed" \in done[t] => config.tests[t].continueOnError
  /\ "cleaned" \in done[t] <=> ~flags.noCleanup

TestsAccountedFor ==
  /\ \A t \in DOMAIN done :
       /\ t < n => Skipped(t) \/ Completed(t)
       /\ t > n => done[t] = {}
  /\ pc = "ok" =>
       \/ n > Len(config.tests)
       \/ /\ flags.version \/ flags.onlyPrintPlan
          /\ \A t \in DOMAIN done : done[t] \subseteq {"skipped"}

(***************************************************************************)
(* Hosts are only touched with consent: not when only the plan is to be    *)
(* printed, and without --yes not for more tests than a "yes" was read     *)
(* for, whatever a reader of stdin has taken away with its line; at a      *)
(* terminal a "no" ends the program.                                       *)
(***************************************************************************)
NothingUnasked ==
  LET acted == {t \in DOMAIN done : done[t] \intersect {"prepared", "executed"} # {}}
      lines == SubSeq(stdin.lines, 1, read)
      said(l) == {k \in DOMAIN lines : lines[k] = l}
  IN  /\ acted # {} => ~flags.onlyPrintPlan /\ ~flags.version
      /\ flags.yes \/ Cardinality(acted) <= Cardinality(said("yes"))
      /\ ~stdin.pipe /\ said("no") # {} => pc = "error"

(***************************************************************************)
(* A configuration in which nothing is left out that the defaults do not   *)
(* fill in never makes the program follow a nil pointer: the runner has    *)
(* its section, that of the kubernetes runner its timeouts and hosts, each *)
(* test and output the section of its type, no graph of a gochart output   *)
(* is null, and no number of rounds is negative.                           *)
(***************************************************************************)
Given(parent, child, part) == <<parent, child>> \in part.ptrs

CompleteRunner(r) ==
  /\ r.name = "kubernetes" => /\ Given("Runner", "Kubernetes", r)
                              /\ Given("Kubernetes", "Timeouts", r)
                              /\ Given("Kubernetes", "Hosts", r)
  /\ r.name = "ansible" => Given("Runner", "Ansible", r)

CompleteTest(t) ==
  /\ Given("Tests", "Test", t) /\ t.rounds >= 0
  /\ t.type \in TesterNames => Given("Test", Section[t.type], t)
  /\ \A k \in DOMAIN t.outputs :
       LET o == t.outputs[k]
       IN  /\ o.name \in OutputNames => Given("Output", Section[o.name], o)
           /\ o.name = "gochart" => Given("GoChart", "GoChartGraph", o)

CompleteConfig ==
  CompleteRunner(config.runner) /\ \A t \in ToSet(config.tests) : CompleteTest(t)

PanicsExplained == pc = "panic" => result = "crash" \/ ~CompleteConfig

(***************************************************************************)
(* The program ends, or it hangs in the execution of a test or in the      *)
(* search for its hosts: questions, skipped tests and failures never keep  *)
(* it from its end.                                                        *)
(***************************************************************************)
Finishes == <>[](pc \in Exits \union {"hung"})
=============================================================================
