----------------------------- MODULE MCTestLoop -----------------------------
EXTENDS TestLoop

Runner(name, ptrs) == [name |-> name, ptrs |-> ptrs, longNamespace |-> FALSE]

Bare  == {<<"Runner", "Kubernetes">>}
Timed == Bare \union {<<"Kubernetes", "Timeouts">>}
Full  == Timed \union {<<"Kubernetes", "Hosts">>}

SomeRunners ==
  {Runner("unknown", {}), Runner("mock", {}),
   Runner("ansible", {}), Runner("ansible", {<<"Runner", "Ansible">>}),
   Runner("kubernetes", {}), Runner("kubernetes", Bare), Runner("kubernetes", Timed),
   Runner("kubernetes", Full), [Runner("kubernetes", Full) EXCEPT !.longNamespace = TRUE]}

Output(name, ptrs) == [name |-> name, ptrs |-> ptrs, dsn |-> FALSE]

CSVOutput   == Output("csv", {<<"Output", "CSV">>})
MySQLOutput == Output("mysql", {<<"Output", "MySQL">>})

TestPtrs == {<<"Tests", "Test">>, <<"Test", "RunOptions">>}

Good == [type |-> "iperf3", ptrs |-> TestPtrs \union {<<"Test", "IPerf3">>},
         outputs |-> <<CSVOutput>>, continueOnError |-> FALSE, rounds |-> 0]

Strict(t) == [t EXCEPT !.ptrs = @ \union {<<"RunOptions", "ContinueOnError">>}]

Ping    == [Good EXCEPT !.type = "pingparsing", !.rounds = 2, !.outputs = <<>>,
                        !.ptrs = TestPtrs \union {<<"Test", "PingParsing">>}]
NoPing  == [Ping EXCEPT !.ptrs = TestPtrs]
NoIPerf == [Good EXCEPT !.ptrs = TestPtrs]
Unknown == [Good EXCEPT !.type = "unknown"]
NoDSN   == [Good EXCEPT !.outputs = <<CSVOutput, MySQLOutput>>]
WithDSN == [Good EXCEPT !.outputs = <<[MySQLOutput EXCEPT !.dsn = TRUE]>>]
NoCSV   == [Good EXCEPT !.outputs = <<Output("csv", {})>>]
NoGraph == [Good EXCEPT !.outputs = <<Output("gochart", {<<"Output", "GoChart">>})>>]
Graph   == [Good EXCEPT !.outputs = <<Output("gochart", {<<"Output", "GoChart">>, <<"GoChart", "GoChartGraph">>})>>]
NoSuch  == [Good EXCEPT !.outputs = <<Output("none", {}), Output("csv", {})>>]
Negative == [Good EXCEPT !.rounds = -1]
Null    == [Good EXCEPT !.type = "", !.ptrs = {}, !.outputs = <<>>]

Tests == {Good, Strict(Good), Ping, NoPing, NoIPerf, Unknown, Strict(Unknown),
          NoDSN, WithDSN, NoCSV, NoGraph, Graph, NoSuch, Negative, Null}

SomeTestLists ==
  {<<>>, <<Good, Unknown, Strict(Good)>>} \union {<<t>> : t \in Tests}
  \union {<<s, t>> : s \in {Ping, Strict(Good), NoDSN}, t \in {Good, Strict(Unknown), Null}}

SomeInputs == {<<>>, <<"yes">>, <<"yes", "yes">>, <<"no", "yes">>, <<"other", "yes", "no">>}
=============================================================================
