------------------------------ MODULE Pipeline ------------------------------
(***************************************************************************)
(* One iteration of the test loop of run() in cmd/ancientt/ancientt.go:    *)
(* the goroutines it starts and the four unbuffered channels between them. *)
(*                                                                         *)
(*   clients --inCh--> parser --dataCh--> outputs                          *)
(*                        \------errCh------/------> collector             *)
(*                                                                         *)
(* The main goroutine runs Execute of the runner, closes inCh, looks at    *)
(* the Status of the tasks, waits for parser and outputs, closes doneCh    *)
(* and cleans up.  The runner is the Kubernetes one, seen from inCh: the   *)
(* main tasks one after the other, and for each a server and its clients.  *)
(* A send on an unbuffered channel is one step together with its receive.  *)
(*                                                                         *)
(* parser.Parse and doOutputs also select on doneCh; run() closes doneCh   *)
(* only after both have returned (DoneAfterDrain), so these branches have  *)
(* no action here.                                                         *)
(***************************************************************************)
EXTENDS Integers, Sequences, FiniteSets

CONSTANTS
  NTasks,          \* main tasks of the plan: rounds times servers
  NClients,        \* sub tasks of each main task
  OutputNames,
  TestOutputs,     \* test.Outputs: the names in configuration order
  Options,         \* the RunOptions and the flag --no-cleanup a test may have
  Faults           \* what may fail in this run

ASSUME PipelineAssumption ==
  /\ NTasks \in Nat \ {0}
  /\ NClients \in Nat
  /\ TestOutputs \in Seq(OutputNames) /\ TestOutputs # <<>>
  /\ \A n \in OutputNames : \E k \in DOMAIN TestOutputs : TestOutputs[k] = n
  /\ Options \subseteq [mode : {"sequential", "parallel"},
                      continueOnError : BOOLEAN, noCleanup : BOOLEAN]
  /\ Faults \subseteq {"server", "client", "parse", "output", "cleanup"}

Tasks   == 1..NTasks
Clients == 1..NClients

\* A parsers.Input stands for the main task and the client it came from.
Inputs  == Tasks \X Clients

VARIABLES
  options,       \* those of this test; no step changes them
  main,          \* where the main goroutine is
  task,          \* the main task Execute is at
  spawned,       \* client goroutines started for it
  client,        \* where each client goroutine is
  failedServers, \* Status.FailedHosts.Servers of each task
  failedClients, \* Status.FailedHosts.Clients of each task
  parser,        \* where the parser goroutine is
  parsing,       \* the input it holds
  outputs,       \* where the outputs goroutine is
  writing,       \* the data it holds
  position,      \* the entry of TestOutputs whose Do comes next
  collector,     \* where the error collector is
  logged,        \* the collector has logged an error
  closed,        \* the closed channels
  accepted,      \* the inputs the parser received, in order
  written,       \* the data the Do of each output has taken without an error, in order
  cleaned        \* runner.Cleanup has run

mainVars    == <<options, main, task, spawned, cleaned>>
runnerVars  == <<client, failedServers, failedClients>>
parserVars  == <<parser, parsing, accepted>>
outputVars  == <<outputs, writing, position, written>>
errorVars   == <<collector, logged>>
vars == <<mainVars, runnerVars, parserVars, outputVars, errorVars, closed>>

NoInput == <<0, 0>>

Init ==
  /\ options \in Options
  /\ main = "server" /\ task = 1 /\ spawned = 0
  /\ client = [c \in Clients |-> "idle"]
  /\ failedServers = {} /\ failedClients = {}
  /\ parser = "receive" /\ parsing = NoInput
  /\ outputs = "receive" /\ writing = NoInput /\ position = 1
  /\ collector = "select" /\ logged = FALSE
  /\ closed = {}
  /\ accepted = <<>>
  /\ written = [n \in OutputNames |-> <<>>]
  /\ cleaned = FALSE

\* Returning an error from run() ends the process and all its goroutines.
Alive == main # "aborted"

-----------------------------------------------------------------------------
(* The main goroutine in runner.Execute                                    *)

\* wg.Wait() of createPodsForTasks: every client goroutine started returned.
ClientsReturned == \A c \in Clients : client[c] # "idle" => client[c] = "returned"

AfterTask ==
  /\ main' = IF task < NTasks THEN "server" ELSE "close"
  /\ task' = IF task < NTasks THEN task + 1 ELSE task

ServerUp ==
  /\ main = "server"
  /\ main' = "clients" /\ spawned' = 0
  /\ client' = [c \in Clients |-> "idle"]
  /\ UNCHANGED <<options, task, cleaned, failedServers, failedClients>>
  /\ UNCHANGED <<parserVars, outputVars, errorVars, closed>>

\* Faulty: the failure is not recorded.
ServerFailsSilently ==
  /\ main = "server" /\ "server" \in Faults
  /\ AfterTask
  /\ UNCHANGED <<options, spawned, cleaned, client, failedServers, failedClients>>
  /\ UNCHANGED <<parserVars, outputVars, errorVars, closed>>

\* Any failure before the first client is recorded and ends the main task.
ServerFails ==
  /\ main = "server" /\ "server" \in Faults
  /\ failedServers' = failedServers \union {task}
  /\ AfterTask
  /\ UNCHANGED <<options, spawned, cleaned, client, failedClients>>
  /\ UNCHANGED <<parserVars, outputVars, errorVars, closed>>

\* Faulty: one client too many.
StartOneMore ==
  /\ main = "clients" /\ spawned <= NClients
  /\ options.mode = "parallel" \/ ClientsReturned
  /\ spawned' = spawned + 1
  /\ client' = [client EXCEPT ![spawned + 1] = "running"]
  /\ UNCHANGED <<options, main, task, cleaned, failedServers, failedClients>>
  /\ UNCHANGED <<parserVars, outputVars, errorVars, closed>>

\* Faulty: the wait between the clients is missing in sequential mode.
StartWithoutWait ==
  /\ main = "clients" /\ spawned < NClients
  /\ spawned' = spawned + 1
  /\ client' = [client EXCEPT ![spawned + 1] = "running"]
  /\ UNCHANGED <<options, main, task, cleaned, failedServers, failedClients>>
  /\ UNCHANGED <<parserVars, outputVars, errorVars, closed>>

StartClient ==
  /\ main = "clients" /\ spawned < NClients
  /\ options.mode = "parallel" \/ ClientsReturned
  /\ spawned' = spawned + 1
  /\ client' = [client EXCEPT ![spawned + 1] = "running"]
  /\ UNCHANGED <<options, main, task, cleaned, failedServers, failedClients>>
  /\ UNCHANGED <<parserVars, outputVars, errorVars, closed>>

\* Faulty: the wait for the clients is missing in parallel mode.
EndTaskEarly ==
  /\ main = "clients" /\ spawned = NClients
  /\ AfterTask
  /\ UNCHANGED <<options, spawned, cleaned, client, failedServers, failedClients>>
  /\ UNCHANGED <<parserVars, outputVars, errorVars, closed>>

\* The server pod is deleted after the last client; that may fail as well.
EndTask ==
  /\ main = "clients" /\ spawned = NClients /\ ClientsReturned
  /\ \/ UNCHANGED failedServers
     \/ "server" \in Faults /\ failedServers' = failedServers \union {task}
  /\ AfterTask
  /\ UNCHANGED <<options, spawned, cleaned, client, failedClients>>
  /\ UNCHANGED <<parserVars, outputVars, errorVars, closed>>

(* The main goroutine after runner.Execute                                 *)

CloseIn ==
  /\ main = "close"
  /\ closed' = closed \union {"inCh"}
  /\ main' = "check"
  /\ UNCHANGED <<options, task, spawned, cleaned, runnerVars, parserVars, outputVars, errorVars>>

AnyFailed == failedServers # {} \/ failedClients # {}

CheckForErrors ==
  /\ main = "check"
  /\ main' = IF AnyFailed /\ ~options.continueOnError THEN "aborted" ELSE "wait"
  /\ UNCHANGED <<options, task, spawned, cleaned, runnerVars, parserVars, outputVars, errorVars, closed>>

\* Faulty: wg.Add(1) is missing for the outputs.
WaitForParser ==
  /\ main = "wait"
  /\ parser = "returned"
  /\ closed' = closed \union {"doneCh"}
  /\ main' = "cleanup"
  /\ UNCHANGED <<options, task, spawned, cleaned, runnerVars, parserVars, outputVars, errorVars>>

WaitForStages ==
  /\ main = "wait"
  /\ parser = "returned" /\ outputs = "returned"
  /\ closed' = closed \union {"doneCh"}
  /\ main' = "cleanup"
  /\ UNCHANGED <<options, task, spawned, cleaned, runnerVars, parserVars, outputVars, errorVars>>

Cleanup ==
  /\ main = "cleanup"
  /\ \/ options.noCleanup /\ main' = "finished" /\ cleaned' = cleaned
     \/ ~options.noCleanup /\ main' = "finished" /\ cleaned' = TRUE
     \/ ~options.noCleanup /\ "cleanup" \in Faults /\ main' = "cleanupFailed" /\ cleaned' = TRUE
  /\ UNCHANGED <<options, task, spawned, runnerVars, parserVars, outputVars, errorVars, closed>>

Main ==
  \/ ServerUp \/ ServerFails \/ StartClient \/ EndTask
  \/ CloseIn \/ CheckForErrors \/ WaitForStages \/ Cleanup

-----------------------------------------------------------------------------
(* A client goroutine of createPodsForTasks                                *)

\* The pod of the client succeeded and its log stream is open.
ClientHasLogs(c) ==
  /\ Alive /\ client[c] = "running"
  /\ client' = [client EXCEPT ![c] = "sending"]
  /\ UNCHANGED <<failedServers, failedClients>>
  /\ UNCHANGED <<mainVars, parserVars, outputVars, errorVars, closed>>

\* parserInput <- parsers.Input{...} meets the receive of parser.Parse.
SendInput(c) ==
  /\ Alive /\ client[c] = "sending" /\ parser = "receive"
  /\ client' = [client EXCEPT ![c] = "sent"]
  /\ parser' = "parse" /\ parsing' = <<task, c>>
  /\ accepted' = Append(accepted, <<task, c>>)
  /\ UNCHANGED <<failedServers, failedClients>>
  /\ UNCHANGED <<mainVars, outputVars, errorVars, closed>>

\* Before the send: create, wait or open the logs.  After it: PodDelete.
ClientFails(c) ==
  /\ Alive /\ client[c] \in {"running", "sent"} /\ "client" \in Faults
  /\ client' = [client EXCEPT ![c] = "returned"]
  /\ failedClients' = failedClients \union {<<task, c>>}
  /\ UNCHANGED failedServers
  /\ UNCHANGED <<mainVars, parserVars, outputVars, errorVars, closed>>

ClientSucceeds(c) ==
  /\ Alive /\ client[c] = "sent"
  /\ client' = [client EXCEPT ![c] = "returned"]
  /\ UNCHANGED <<failedServers, failedClients>>
  /\ UNCHANGED <<mainVars, parserVars, outputVars, errorVars, closed>>

Client(c) == ClientHasLogs(c) \/ SendInput(c) \/ ClientFails(c) \/ ClientSucceeds(c)

-----------------------------------------------------------------------------
(* The parser goroutine                                                    *)

ParseInput ==
  /\ Alive /\ parser = "parse"
  /\ \/ parser' = "emit"
     \/ "parse" \in Faults /\ parser' = "error"
  /\ UNCHANGED <<parsing, accepted>>
  /\ UNCHANGED <<mainVars, runnerVars, outputVars, errorVars, closed>>

\* Faulty: the data replaces what the outputs still work on.
EmitDataAtOnce ==
  /\ Alive /\ parser = "emit" /\ outputs \in {"receive", "write"}
  /\ parser' = "receive" /\ parsing' = NoInput
  /\ outputs' = "write" /\ writing' = parsing /\ position' = 1
  /\ UNCHANGED <<accepted, written>>
  /\ UNCHANGED <<mainVars, runnerVars, errorVars, closed>>

\* dataCh <- data meets the receive of doOutputs.
EmitData ==
  /\ Alive /\ parser = "emit" /\ outputs = "receive"
  /\ parser' = "receive" /\ parsing' = NoInput
  /\ outputs' = "write" /\ writing' = parsing /\ position' = 1
  /\ UNCHANGED <<accepted, written>>
  /\ UNCHANGED <<mainVars, runnerVars, errorVars, closed>>

ParserReturns ==
  /\ Alive /\ parser = "receive" /\ "inCh" \in closed
  /\ parser' = "returned"
  /\ closed' = closed \union {"dataCh"}
  /\ UNCHANGED <<parsing, accepted>>
  /\ UNCHANGED <<mainVars, runnerVars, outputVars, errorVars>>

\* Faulty: dataCh is not closed after an error.
ParserReportsOnly ==
  /\ Alive /\ parser = "error" /\ collector = "select"
  /\ collector' = "returned" /\ logged' = TRUE
  /\ parser' = "returned"
  /\ UNCHANGED <<parsing, accepted, closed>>
  /\ UNCHANGED <<mainVars, runnerVars, outputVars>>

\* Faulty: the error is dropped.
ParserGivesUp ==
  /\ Alive /\ parser = "error"
  /\ parser' = "returned"
  /\ closed' = closed \union {"dataCh"}
  /\ UNCHANGED <<parsing, accepted>>
  /\ UNCHANGED <<mainVars, runnerVars, outputVars, errorVars>>

\* errCh <- err meets the only receive of the collector; then the defers run.
ParserReports ==
  /\ Alive /\ parser = "error" /\ collector = "select"
  /\ collector' = "returned" /\ logged' = TRUE
  /\ parser' = "returned"
  /\ closed' = closed \union {"dataCh"}
  /\ UNCHANGED <<parsing, accepted>>
  /\ UNCHANGED <<mainVars, runnerVars, outputVars>>

Parser == ParseInput \/ EmitData \/ ParserReturns \/ ParserReports

-----------------------------------------------------------------------------
(* The outputs goroutine, doOutputs                                        *)

\* outputsAssembled[outputName].Do(data) for the next entry of test.Outputs.
Do ==
  /\ Alive /\ outputs = "write"
  /\ written' = [written EXCEPT ![TestOutputs[position]] = Append(@, writing)]
  /\ \/ /\ position < Len(TestOutputs)
        /\ position' = position + 1
        /\ UNCHANGED <<outputs, writing>>
     \/ /\ position = Len(TestOutputs)
        /\ outputs' = "receive" /\ writing' = NoInput /\ position' = 1
  /\ UNCHANGED <<mainVars, runnerVars, parserVars, errorVars, closed>>

DoFails ==
  /\ Alive /\ outputs = "write" /\ "output" \in Faults
  /\ outputs' = "error"
  /\ UNCHANGED <<writing, position, written>>
  /\ UNCHANGED <<mainVars, runnerVars, parserVars, errorVars, closed>>

OutputsReturn ==
  /\ Alive /\ outputs = "receive" /\ "dataCh" \in closed
  /\ outputs' = "returned"
  /\ UNCHANGED <<writing, position, written>>
  /\ UNCHANGED <<mainVars, runnerVars, parserVars, errorVars, closed>>

OutputsReport ==
  /\ Alive /\ outputs = "error" /\ collector = "select"
  /\ collector' = "returned" /\ logged' = TRUE
  /\ outputs' = "returned"
  /\ UNCHANGED <<writing, position, written>>
  /\ UNCHANGED <<mainVars, runnerVars, parserVars, closed>>

Outputs == Do \/ DoFails \/ OutputsReturn \/ OutputsReport

\* The collector selects once: an error (the Report actions) or doneCh.
CollectorReturns ==
  /\ Alive /\ collector = "select" /\ "doneCh" \in closed
  /\ collector' = "returned"
  /\ UNCHANGED <<logged, mainVars, runnerVars, parserVars, outputVars, closed>>

-----------------------------------------------------------------------------
Ended == main \in {"finished", "cleanupFailed", "aborted"}

Terminated ==
  /\ main = "aborted" \/ (Ended /\ collector = "returned")
  /\ UNCHANGED vars

Next ==
  \/ Main
  \/ \E c \in Clients : Client(c)
  \/ Parser
  \/ Outputs
  \/ CollectorReturns
  \/ Terminated

Spec == Init /\ [][Next]_vars

(***************************************************************************)
(* Every wait of a runner is bounded by a timeout and the Go scheduler     *)
(* runs every goroutine that is not blocked.                               *)
(***************************************************************************)
Fairness ==
  /\ WF_vars(Main)
  /\ \A c \in Clients : WF_vars(Client(c))
  /\ WF_vars(Parser) /\ WF_vars(Outputs) /\ WF_vars(CollectorReturns)

FairSpec == Spec /\ Fairness
-----------------------------------------------------------------------------
(* Properties                                                              *)

TypeOK ==
  /\ options \in Options
  /\ main \in {"server", "clients", "close", "check", "wait", "cleanup",
               "finished", "cleanupFailed", "aborted"}
  /\ task \in Tasks
  /\ spawned \in 0..NClients
  /\ client \in [Clients -> {"idle", "running", "sending", "sent", "returned"}]
  /\ failedServers \subseteq Tasks
  /\ failedClients \subseteq Inputs
  /\ parser \in {"receive", "parse", "emit", "error", "returned"}
  /\ parsing \in Inputs \union {NoInput}
  /\ outputs \in {"receive", "write", "error", "returned"}
  /\ writing \in Inputs \union {NoInput}
  /\ position \in 1..Len(TestOutputs)
  /\ collector \in {"select", "returned"}
  /\ logged \in BOOLEAN
  /\ closed \subseteq {"inCh", "dataCh", "doneCh"}
  /\ accepted \in Seq(Inputs)
  /\ written \in [OutputNames -> Seq(Inputs)]
  /\ cleaned \in BOOLEAN

(***************************************************************************)
(* No goroutine is left that could still send on a channel once it is      *)
(* closed, which would panic: run() closes inCh when Execute returns, so   *)
(* Execute must have waited for every client goroutine, in both modes.     *)
(***************************************************************************)
NoSendOnClosed ==
  /\ "inCh" \in closed => \A c \in Clients : client[c] \notin {"running", "sending"}
  /\ "dataCh" \in closed => parser \notin {"parse", "emit"}

(***************************************************************************)
(* run() may leave the doneCh branches of Parse and doOutputs unused: when *)
(* doneCh is closed nothing is in flight in any stage.                     *)
(***************************************************************************)
DoneAfterDrain ==
  "doneCh" \in closed =>
    /\ \A c \in Clients : client[c] \in {"idle", "returned"}
    /\ parser = "returned" /\ outputs = "returned"
    /\ ~logged => \A n \in OutputNames : written[n] = accepted

\* prepare() builds one output per name: an entry with the name of an earlier
\* one replaces it, and Do of the survivor is called once for each entry.
DistinctNames ==
  \A k, l \in DOMAIN TestOutputs : TestOutputs[k] = TestOutputs[l] => k = l

(***************************************************************************)
(* Each output sees the results in the order the parser accepted them, the *)
(* outputs in the order of test.Outputs: an output is never ahead of one   *)
(* configured before it, and at most two results behind the parser, also   *)
(* when run() aborts while results are in flight.                          *)
(***************************************************************************)
OutputsInStep ==
  /\ \A n \in OutputNames :
       /\ Len(written[n]) <= Len(accepted) /\ Len(accepted) <= Len(written[n]) + 2
       /\ \A j \in 1..Len(written[n]) : written[n][j] = accepted[j]
  /\ \A k, l \in DOMAIN TestOutputs : k < l =>
       /\ Len(written[TestOutputs[l]]) <= Len(written[TestOutputs[k]])
       /\ Len(written[TestOutputs[k]]) <= Len(written[TestOutputs[l]]) + 1

(***************************************************************************)
(* Once Execute has returned every planned client run is accounted for:    *)
(* its result was accepted, or its failure or that of its server is in the *)
(* Status that checkForErrors reads.                                       *)
(***************************************************************************)
ExecuteReturned == main \notin {"server", "clients"}

Accounted(i) ==
  \/ \E k \in DOMAIN accepted : accepted[k] = i
  \/ i \in failedClients
  \/ i[1] \in failedServers

EveryRunAccountedFor == ExecuteReturned => \A i \in Inputs : Accounted(i)

(***************************************************************************)
(* A test that ends without a failed host and without a logged error has   *)
(* given the result of every planned client run exactly once to every      *)
(* output.                                                                 *)
(***************************************************************************)
QuietMeansEverything ==
  main = "finished" /\ ~logged /\ ~AnyFailed =>
    \A n \in OutputNames :
      /\ \A i \in Inputs : \E k \in DOMAIN written[n] : written[n][k] = i
      /\ \A j, k \in DOMAIN written[n] : written[n][j] = written[n][k] => j = k

(***************************************************************************)
(* Results of a later main task never overtake those of an earlier one     *)
(* (Execute waits for the clients of a task in both modes), and in         *)
(* sequential mode the results come in the order of the plan.              *)
(***************************************************************************)
PlanOrder ==
  \A j, k \in DOMAIN accepted : j < k =>
    \/ accepted[j][1] < accepted[k][1]
    \/ /\ accepted[j][1] = accepted[k][1]
       /\ accepted[j][2] # accepted[k][2]
       /\ options.mode = "sequential" => accepted[j][2] < accepted[k][2]

(***************************************************************************)
(* A test implements Delivery with two results in flight: one held by the  *)
(* parser and one by doOutputs.                                            *)
(***************************************************************************)
outcome ==
  IF ~Ended THEN "running"
  ELSE IF main = "finished" /\ ~logged THEN "complete" ELSE "reported"

Promise == INSTANCE Delivery WITH
  Items <- Inputs, Names <- OutputNames, Capacity <- 2,
  accepted <- accepted, written <- written, outcome <- outcome

KeepsPromise == Promise!Spec

(***************************************************************************)
(* A test ends, in either mode and whatever hosts fail, unless it hangs    *)
(* for ever in one of these ways: a client sends to a parser that has      *)
(* given up, the parser sends to outputs that have given up, or an error   *)
(* is sent and the collector, which takes only one, has returned.  So a    *)
(* parse error on the last result, say, hangs nothing.                     *)
(***************************************************************************)
Hung ==
  \/ parser \in {"error", "returned"} /\ \E c \in Clients : client[c] = "sending"
  \/ parser = "emit" /\ outputs \in {"error", "returned"}
  \/ collector = "returned" /\ (parser = "error" \/ outputs = "error")

EndsOrHangs == <>[](Ended \/ Hung)

(***************************************************************************)
(* config.go says of continueOnError: "Continue on error during test       *)
(* runs".  The code goes on after failed hosts but hangs after most parser *)
(* and output errors.                                                      *)
(***************************************************************************)
ContinuesOnError == options.continueOnError => <>Ended
=============================================================================
