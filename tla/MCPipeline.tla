----------------------------- MODULE MCPipeline -----------------------------
EXTENDS Pipeline

TwoOutputs  == <<"csv", "sqlite">>
TwoNames    == {"csv", "sqlite"}
Careful     == [mode |-> "sequential", continueOnError |-> FALSE, noCleanup |-> FALSE]
Bold        == [mode |-> "parallel", continueOnError |-> TRUE, noCleanup |-> TRUE]
BothOptions == {Careful, Bold}
OnlyErrors  == {[Careful EXCEPT !.continueOnError = TRUE]}
AllFaults   == {"server", "client", "parse", "output", "cleanup"}
ParseFaults == {"parse"}
=============================================================================
