---------------------------- MODULE Configuration ----------------------------
(***************************************************************************)
(* The configuration file: pkg/config, and the places where the program    *)
(* follows the pointers of the configuration without looking.              *)
(*                                                                         *)
(* The runner, each test and each output are records.  Of their nested     *)
(* structures only the pointers count: `ptrs' is the set of the pointers   *)
(* that are not nil, each named by its structure and its field; that from  *)
(* GoChart to GoChartGraph stands for all its Graphs.  A null in the list  *)
(* of tests is a test without pointers.                                    *)
(***************************************************************************)
EXTENDS Integers, Sequences

Pointers == STRING \X STRING

RunnerSections == [name : STRING, ptrs : SUBSET Pointers, longNamespace : BOOLEAN]
OutputSections == [name : STRING, ptrs : SUBSET Pointers, dsn : BOOLEAN]
TestSections ==
  [type : STRING, ptrs : SUBSET Pointers, outputs : Seq(OutputSections),
   continueOnError : BOOLEAN, rounds : Int]

Structures(ptrs) == {p[2] : p \in ptrs}

\* The pointers that the SetDefaults of a structure fills.
Defaults ==
  [Ansible      |-> {"Timeouts", "CommandRetries", "ParallelHostFactCalls", "Groups"},
   Hosts        |-> {"IgnoreSchedulingDisabled"},
   RunOptions   |-> {"ContinueOnError"},
   IPerf3       |-> {"Duration", "Interval", "UDP"},
   PingParsing  |-> {"Count", "Deadline", "Timeout"},
   CSV          |-> {"Separator"},
   MySQL        |-> {"AutoCreateTables"},
   GoChartGraph |-> {"WithLinearRegression", "WithSimpleMovingAverage"}]

\* defaults.Set visits the structures that exist and creates none itself.
SetPointers(ptrs) ==
  ptrs \union UNION {{<<s, f>> : f \in Defaults[s]} :
                       s \in Structures(ptrs) \intersect DOMAIN Defaults}

SetOutput(o) == [o EXCEPT !.ptrs = SetPointers(@)]

SetTest(t) ==
  [t EXCEPT
    !.continueOnError = IF <<"RunOptions", "ContinueOnError">> \in t.ptrs THEN @ ELSE TRUE,
    !.rounds = IF @ = 0 THEN 1 ELSE @,
    !.ptrs = SetPointers(@),
    !.outputs = [k \in DOMAIN t.outputs |-> SetOutput(t.outputs[k])]]

\* Faulty: SetDefaults of the ansible runner leaves Groups alone.
SetDefaultsButGroups(c) ==
  [c EXCEPT !.runner.ptrs = SetPointers(@) \ {<<"Ansible", "Groups">>},
            !.tests = [k \in DOMAIN c.tests |-> SetTest(c.tests[k])]]

SetDefaults(c) ==
  [c EXCEPT !.runner.ptrs = SetPointers(@),
            !.tests = [k \in DOMAIN c.tests |-> SetTest(c.tests[k])]]

\* validate.Struct looks at the list of tests, not into its elements.
Valid(c) == c.tests # <<>> /\ ~c.runner.longNamespace

-----------------------------------------------------------------------------
(* Pointers that are followed without a check                              *)

Section == [iperf3 |-> "IPerf3", pingparsing |-> "PingParsing",
            csv |-> "CSV", gochart |-> "GoChart", dump |-> "Dump",
            excelize |-> "Excelize", sqlite |-> "SQLite", mysql |-> "MySQL"]

RunnerNames == {"kubernetes", "ansible", "mock"}
TesterNames == {"iperf3", "pingparsing"}
OutputNames == DOMAIN Section \ TesterNames

NewRunnerFollows ==
  [kubernetes |-> {<<"Runner", "Kubernetes">>},
   ansible    |-> {<<"Runner", "Ansible">>},
   mock       |-> {}]

GetHostsFollows(runner) ==
  CASE runner.name = "ansible" ->
         {"Ansible"} \X {"Timeouts", "Groups", "ParallelHostFactCalls"}
    [] runner.name = "kubernetes" /\ <<"Kubernetes", "Hosts">> \in runner.ptrs ->
         {<<"Hosts", "IgnoreSchedulingDisabled">>}
    [] OTHER -> {}

\* Plan builds the commands of servers and clients.
PlanFollows(test, hosts) ==
  CASE test.type = "iperf3" ->
         {<<"Test", "IPerf3">>} \union
         IF hosts = {"servers", "clients"} THEN {"IPerf3"} \X {"Duration", "Interval"} ELSE {}
    [] test.type = "pingparsing" /\ hosts = {"servers", "clients"} ->
         {<<"Test", "PingParsing">>} \union {"PingParsing"} \X {"Count", "Deadline", "Timeout"}
    [] OTHER -> {}

PrepareFollows ==
  [kubernetes |-> {}, ansible |-> {<<"Ansible", "Timeouts">>}, mock |-> {}]

ExecuteFollows ==
  [kubernetes |-> {"Kubernetes"} \X {"Timeouts", "Hosts"},
   ansible    |-> {"Ansible"} \X {"Timeouts", "CommandRetries"},
   mock       |-> {}]

\* gochart draws each of its graphs; a null among them is a missing pointer.
DoFollows(output) ==
  CASE output.name = "csv"     -> {<<"CSV", "Separator">>}
    [] output.name = "gochart" -> {<<"GoChart", "GoChartGraph">>}
    [] OTHER -> {}
=============================================================================
