--------------------------- MODULE PipelineProofs ---------------------------
(***************************************************************************)
(* Proofs about Pipeline for every number of main tasks, clients and       *)
(* outputs, every mode and every set of faults.                            *)
(***************************************************************************)
EXTENDS Pipeline, FiniteSetTheorems, TLAPS

(***************************************************************************)
(* What the parser and the outputs goroutine hold in each of their states. *)
(* A stage that gave up keeps what it failed on.                           *)
(***************************************************************************)
Holding ==
  /\ parser = "receive" => parsing = NoInput
  /\ parser \in {"parse", "emit", "error"} => parsing # NoInput
  /\ parser = "returned" /\ parsing # NoInput => logged
  /\ outputs = "receive" => writing = NoInput
  /\ outputs \in {"write", "error"} => writing # NoInput
  /\ outputs = "returned" /\ writing # NoInput => logged

LEMMA Bounds == NTasks \in Nat \ {0} /\ NClients \in Nat /\ Len(TestOutputs) \in Nat \ {0}
BY PipelineAssumption

LEMMA EntryHasName == \A k \in 1..Len(TestOutputs) : TestOutputs[k] \in OutputNames
BY PipelineAssumption

LEMMA NoInputIsNone == NoInput \notin Inputs
BY PipelineAssumption DEF NoInput, Inputs, Tasks, Clients

(* A test keeps its options to the end.                                    *)
LEMMA OptionsKept == [Next]_vars => options' = options
<1>1. Main => options' = options
  BY DEF Main, ServerUp, ServerFails, StartClient, EndTask, CloseIn, CheckForErrors,
         WaitForStages, Cleanup
<1>2. ASSUME NEW c \in Clients, Client(c) PROVE options' = options
  BY <1>2 DEF Client, ClientHasLogs, SendInput, ClientFails, ClientSucceeds, mainVars
<1>3. Parser => options' = options
  BY DEF Parser, ParseInput, EmitData, ParserReturns, ParserReports, mainVars
<1>4. Outputs \/ CollectorReturns \/ UNCHANGED vars => options' = options
  BY DEF Outputs, Do, DoFails, OutputsReturn, OutputsReport, CollectorReturns, vars, mainVars
<1>5. QED
  BY <1>1, <1>2, <1>3, <1>4 DEF Next, Terminated

(* The variables have their types, and the stages hold what they should.   *)
THEOREM Typing == Spec => [](TypeOK /\ Holding)
<1> USE Bounds
<1>1. Init => TypeOK /\ Holding
  <2> SUFFICES ASSUME Init PROVE TypeOK /\ Holding
    OBVIOUS
  <2>1. Holding
    BY DEF Init, Holding
  <2>2. accepted \in Seq(Inputs) /\ written \in [OutputNames -> Seq(Inputs)]
    BY DEF Init
  <2>3. task \in Tasks /\ spawned \in 0..NClients /\ position \in 1..Len(TestOutputs)
    BY DEF Init, Tasks
  <2>4. QED
    BY <2>1, <2>2, <2>3 DEF Init, TypeOK
<1>2. TypeOK /\ Holding /\ [Next]_vars => TypeOK' /\ Holding'
  <2> SUFFICES ASSUME TypeOK, Holding, [Next]_vars PROVE TypeOK' /\ Holding'
    OBVIOUS
  <2> USE NoInputIsNone
  <2>1. CASE ServerUp
    BY <2>1 DEF ServerUp, TypeOK, Holding, parserVars, outputVars, errorVars
  <2>2. CASE ServerFails
    BY <2>2 DEF ServerFails, AfterTask, TypeOK, Holding, Tasks, parserVars, outputVars, errorVars
  <2>3. CASE StartClient
    BY <2>3 DEF StartClient, TypeOK, Holding, Clients, parserVars, outputVars, errorVars
  <2>4. CASE EndTask
    <3>1. task' \in Tasks /\ failedServers' \subseteq Tasks
      <4>1. task' \in Tasks
        BY <2>4 DEF EndTask, AfterTask, TypeOK, Tasks
      <4>2. failedServers' = failedServers \/ failedServers' = failedServers \union {task}
        BY <2>4 DEF EndTask
      <4>3. QED
        BY <4>1, <4>2 DEF TypeOK
    <3>2. UNCHANGED <<options, spawned, cleaned, client, failedClients>>
          /\ UNCHANGED <<parserVars, outputVars, errorVars, closed>>
      BY <2>4 DEF EndTask
    <3>3. main' \in {"server", "close"}
      BY <2>4 DEF EndTask, AfterTask
    <3>4. QED
      BY <3>1, <3>2, <3>3 DEF TypeOK, Holding, parserVars, outputVars, errorVars
  <2>5. CASE CloseIn \/ CheckForErrors \/ WaitForStages \/ Cleanup
    <3>1. CASE CloseIn
      BY <3>1 DEF CloseIn, TypeOK, Holding, runnerVars, parserVars, outputVars, errorVars
    <3>2. CASE CheckForErrors
      BY <3>2 DEF CheckForErrors, TypeOK, Holding, runnerVars, parserVars, outputVars, errorVars
    <3>3. CASE WaitForStages
      BY <3>3 DEF WaitForStages, TypeOK, Holding, runnerVars, parserVars, outputVars, errorVars
    <3>4. CASE Cleanup
      BY <3>4 DEF Cleanup, TypeOK, Holding, runnerVars, parserVars, outputVars, errorVars
    <3>5. QED
      BY <2>5, <3>1, <3>2, <3>3, <3>4
  <2>6. ASSUME NEW c \in Clients, Client(c) PROVE TypeOK' /\ Holding'
    <3>1. CASE SendInput(c)
      <4>1. <<task, c>> \in Inputs
        BY DEF TypeOK, Inputs
      <4>2. accepted' \in Seq(Inputs) /\ parsing' \in Inputs
        BY <3>1, <4>1 DEF SendInput, TypeOK
      <4>3. client' \in [Clients -> {"idle", "running", "sending", "sent", "returned"}]
        BY <3>1 DEF SendInput, TypeOK
      <4>4. UNCHANGED <<failedServers, failedClients, mainVars, outputVars, errorVars, closed>>
            /\ parser' = "parse"
        BY <3>1 DEF SendInput
      <4>5. QED
        BY <4>2, <4>3, <4>4 DEF TypeOK, Holding, mainVars, outputVars, errorVars
    <3>2. CASE ClientFails(c)
      BY <3>2 DEF ClientFails, TypeOK, Holding, Inputs, mainVars, parserVars, outputVars, errorVars
    <3>3. CASE ClientHasLogs(c)
      BY <3>3 DEF ClientHasLogs, TypeOK, Holding, mainVars, parserVars, outputVars, errorVars
    <3>4. CASE ClientSucceeds(c)
      BY <3>4 DEF ClientSucceeds, TypeOK, Holding, mainVars, parserVars, outputVars, errorVars
    <3>5. QED
      BY <2>6, <3>1, <3>2, <3>3, <3>4 DEF Client
  <2>7. CASE ParseInput
    BY <2>7 DEF ParseInput, TypeOK, Holding, mainVars, runnerVars, outputVars, errorVars
  <2>8. CASE EmitData
    BY <2>8 DEF EmitData, TypeOK, Holding, mainVars, runnerVars, errorVars
  <2>9. CASE ParserReturns \/ ParserReports
    <3>1. CASE ParserReturns
      BY <3>1 DEF ParserReturns, TypeOK, Holding, mainVars, runnerVars, outputVars, errorVars
    <3>2. CASE ParserReports
      BY <3>2 DEF ParserReports, TypeOK, Holding, mainVars, runnerVars, outputVars
    <3>3. QED
      BY <2>9, <3>1, <3>2
  <2>10. CASE Do
    <3>1. writing \in Inputs
      BY <2>10 DEF Do, TypeOK, Holding
    <3>2. TestOutputs[position] \in OutputNames
      BY EntryHasName DEF TypeOK
    <3>3. written' \in [OutputNames -> Seq(Inputs)]
      BY <2>10, <3>1, <3>2 DEF Do, TypeOK
    <3>4. QED
      BY <2>10, <3>3 DEF Do, TypeOK, Holding, mainVars, runnerVars, parserVars, errorVars
  <2>11. CASE DoFails \/ OutputsReturn \/ OutputsReport
    <3>1. CASE DoFails
      BY <3>1 DEF DoFails, TypeOK, Holding, mainVars, runnerVars, parserVars, errorVars
    <3>2. CASE OutputsReturn
      BY <3>2 DEF OutputsReturn, TypeOK, Holding, mainVars, runnerVars, parserVars, errorVars
    <3>3. CASE OutputsReport
      BY <3>3 DEF OutputsReport, TypeOK, Holding, mainVars, runnerVars, parserVars
    <3>4. QED
      BY <2>11, <3>1, <3>2, <3>3
  <2>12. CASE CollectorReturns
    BY <2>12 DEF CollectorReturns, TypeOK, Holding, mainVars, runnerVars, parserVars, outputVars
  <2>13. CASE UNCHANGED vars
    BY <2>13 DEF vars, TypeOK, Holding, mainVars, runnerVars, parserVars, outputVars, errorVars
  <2>14. QED
    BY <2>1, <2>2, <2>3, <2>4, <2>5, <2>6, <2>7, <2>8, <2>9, <2>10, <2>11, <2>12, <2>13
       DEF Next, Main, Parser, Outputs, Terminated
<1>3. QED
  BY <1>1, <1>2, PTL DEF Spec

-----------------------------------------------------------------------------
(***************************************************************************)
(* What the main goroutine has waited for in each of its phases.           *)
(***************************************************************************)
Drained == {"cleanup", "finished", "cleanupFailed"}

Idle(c) == client[c] \in {"idle", "returned"}

Phases ==
  /\ main # "clients" => \A c \in Clients : Idle(c)
  /\ "inCh" \in closed => main \notin {"server", "clients", "close"}
  /\ "dataCh" \in closed => parser = "returned"
  /\ "doneCh" \in closed => main \in Drained
  /\ main \in Drained => parser = "returned" /\ outputs = "returned"

LEMMA PhasesInductive == TypeOK /\ Phases /\ [Next]_vars => Phases'
<1> SUFFICES ASSUME TypeOK, Phases, [Next]_vars PROVE Phases'
  OBVIOUS
<1> USE DEF Drained
<1>1. CASE ServerUp
  BY <1>1 DEF ServerUp, TypeOK, Phases, Idle, parserVars, outputVars
<1>2. CASE ServerFails
  BY <1>2 DEF ServerFails, AfterTask, Phases, Idle, parserVars, outputVars
<1>3. CASE StartClient
  BY <1>3 DEF StartClient, Phases, parserVars, outputVars
<1>4. CASE EndTask
  <2>1. \A c \in Clients : Idle(c)'
    BY <1>4 DEF EndTask, ClientsReturned, Idle
  <2>2. main = "clients" /\ main' \in {"server", "close"}
        /\ UNCHANGED <<closed, parser, outputs>>
    BY <1>4 DEF EndTask, AfterTask, parserVars, outputVars
  <2>3. QED
    BY <2>1, <2>2 DEF Phases
<1>5. CASE CloseIn
  BY <1>5 DEF CloseIn, Phases, Idle, runnerVars, parserVars, outputVars
<1>6. CASE CheckForErrors
  BY <1>6 DEF CheckForErrors, Phases, Idle, runnerVars, parserVars, outputVars
<1>7. CASE WaitForStages
  BY <1>7 DEF WaitForStages, Phases, Idle, runnerVars, parserVars, outputVars
<1>8. CASE Cleanup
  BY <1>8 DEF Cleanup, Phases, Idle, runnerVars, parserVars, outputVars
<1>9. ASSUME NEW c \in Clients, Client(c) PROVE Phases'
  <2>1. ~Idle(c)
    BY <1>9 DEF Client, ClientHasLogs, SendInput, ClientFails, ClientSucceeds, Idle
  <2>2. main = "clients"
    BY <2>1 DEF Phases
  <2>4. parser = "returned" => parser' = parser
    BY <1>9 DEF Client, ClientHasLogs, SendInput, ClientFails, ClientSucceeds, parserVars
  <2>5. UNCHANGED <<main, closed>>
    BY <1>9 DEF Client, ClientHasLogs, SendInput, ClientFails, ClientSucceeds, mainVars
  <2>6. QED
    BY <2>2, <2>4, <2>5 DEF Phases
<1>10. CASE Parser
  <2>1. UNCHANGED <<main, client>> /\ parser # "returned"
    BY <1>10 DEF Parser, ParseInput, EmitData, ParserReturns, ParserReports, mainVars, runnerVars
  <2>2. closed' = closed \/ (closed' = closed \union {"dataCh"} /\ parser' = "returned")
    BY <1>10 DEF Parser, ParseInput, EmitData, ParserReturns, ParserReports
  <2>3. QED
    BY <2>1, <2>2 DEF Phases, Idle
<1>11. CASE Outputs
  <2>1. UNCHANGED <<main, client, parser, closed>> /\ outputs # "returned"
    BY <1>11 DEF Outputs, Do, DoFails, OutputsReturn, OutputsReport,
                 mainVars, runnerVars, parserVars
  <2>2. QED
    BY <2>1 DEF Phases, Idle
<1>12. CASE CollectorReturns \/ UNCHANGED vars
  <2>1. UNCHANGED <<main, client, parser, outputs, closed>>
    BY <1>12 DEF CollectorReturns, vars, mainVars, runnerVars, parserVars, outputVars
  <2>2. QED
    BY <2>1 DEF Phases, Idle
<1>13. QED
  BY <1>1, <1>2, <1>3, <1>4, <1>5, <1>6, <1>7, <1>8, <1>9, <1>10, <1>11, <1>12
     DEF Next, Main, Terminated

LEMMA PhasesInvariant == Spec => []Phases
<1>1. Init => Phases
  BY DEF Init, Phases, Idle, Drained
<1>2. QED
  BY <1>1, PhasesInductive, Typing, PTL DEF Spec

(***************************************************************************)
(* createPodsForTasks waits for its client goroutines in both modes, so no *)
(* client and no parser is left to send on a closed channel.               *)
(***************************************************************************)
THEOREM NeverSendsOnClosed == Spec => []NoSendOnClosed
<1>1. TypeOK /\ Phases => NoSendOnClosed
  BY DEF TypeOK, Phases, NoSendOnClosed, Idle
<1>2. QED
  BY <1>1, Typing, PhasesInvariant, PTL

-----------------------------------------------------------------------------
(***************************************************************************)
(* Where every accepted result is: handed to the outputs, except the one   *)
(* the parser holds; and written by an output, except the one doOutputs    *)
(* holds while it has not come to that output's entry.                     *)
(***************************************************************************)
Handed == IF parsing = NoInput THEN Len(accepted) ELSE Len(accepted) - 1

Owed(k) == IF writing # NoInput /\ position <= k THEN 1 ELSE 0

Flow ==
  /\ parsing # NoInput => Len(accepted) > 0 /\ parsing = accepted[Len(accepted)]
  /\ writing # NoInput => Handed > 0 /\ writing = accepted[Handed]
  /\ \A k \in 1..Len(TestOutputs) :
       /\ Len(written[TestOutputs[k]]) = Handed - Owed(k)
       /\ \A j \in 1..Len(written[TestOutputs[k]]) :
            written[TestOutputs[k]][j] = accepted[j]

flowVars == <<accepted, parsing, writing, position, written>>

LEMMA FlowUnchanged == Flow /\ UNCHANGED flowVars => Flow'
BY DEF Flow, Handed, Owed, flowVars

LEMMA FlowInductive ==
  ASSUME DistinctNames, TypeOK, Holding, Flow, [Next]_vars
  PROVE  Flow'
<1> USE Bounds, EntryHasName
<1>1. ASSUME NEW c \in Clients, SendInput(c) PROVE Flow'
  <2>1. /\ parsing = NoInput /\ parsing' = <<task, c>> /\ parsing' # NoInput
        /\ accepted' = Append(accepted, <<task, c>>)
        /\ UNCHANGED <<writing, position, written>>
    BY <1>1, NoInputIsNone DEF SendInput, Holding, TypeOK, Inputs, outputVars
  <2>2. /\ Len(accepted') = Len(accepted) + 1 /\ accepted'[Len(accepted')] = parsing'
        /\ \A j \in 1..Len(accepted) : accepted'[j] = accepted[j]
    BY <2>1 DEF TypeOK, Inputs
  <2>3. Handed' = Handed /\ Handed = Len(accepted)
    BY <2>1, <2>2 DEF Handed, TypeOK
  <2>4. \A k \in 1..Len(TestOutputs) : Owed(k)' = Owed(k) /\ Owed(k) \in {0, 1}
    BY <2>1 DEF Owed
  <2>5. \A k \in 1..Len(TestOutputs) : Len(written[TestOutputs[k]]) <= Len(accepted)
    <3>1. Len(accepted) \in Nat
      BY DEF TypeOK
    <3>2. QED
      BY <2>3, <2>4, <3>1 DEF Flow
  <2>6. writing' # NoInput => Handed' > 0 /\ writing' = accepted'[Handed']
    BY <2>1, <2>2, <2>3 DEF Flow, TypeOK
  <2>7. ASSUME NEW k \in 1..Len(TestOutputs), NEW j \in 1..Len(written[TestOutputs[k]])
        PROVE  written[TestOutputs[k]][j] = accepted'[j]
    BY <2>2, <2>5 DEF Flow, TypeOK
  <2>8. Len(accepted') > 0
    BY <2>2 DEF TypeOK
  <2>9. QED
    BY <2>1, <2>2, <2>3, <2>4, <2>6, <2>7, <2>8 DEF Flow
<1>2. CASE EmitData
  <2>1. /\ writing = NoInput /\ writing' = parsing /\ parsing # NoInput
        /\ parsing' = NoInput /\ position' = 1
        /\ UNCHANGED <<accepted, written>>
    BY <1>2 DEF EmitData, Holding
  <2>2. Handed' = Handed + 1 /\ Handed' = Len(accepted)
    BY <2>1 DEF Handed, TypeOK
  <2>3. \A k \in 1..Len(TestOutputs) : Owed(k) = 0 /\ Owed(k)' = 1
    BY <2>1 DEF Owed
  <2>4. ASSUME NEW k \in 1..Len(TestOutputs)
        PROVE  Len(written[TestOutputs[k]]) = Handed' - Owed(k)'
    <3>1. Len(accepted) \in Nat
      BY DEF TypeOK
    <3>2. Handed \in Int
      BY <3>1 DEF Handed
    <3>3. Len(written[TestOutputs[k]]) = Handed - Owed(k)
      BY DEF Flow
    <3>4. QED
      BY <2>2, <2>3, <3>2, <3>3
  <2>5. writing' = accepted'[Handed'] /\ Handed' > 0
    BY <2>1, <2>2 DEF Flow
  <2>6. QED
    BY <2>1, <2>4, <2>5 DEF Flow
<1>3. CASE Do
  <2> DEFINE n == TestOutputs[position]
  <2>1. /\ writing # NoInput /\ writing = accepted[Handed] /\ Handed > 0
        /\ Handed \in Nat /\ Handed <= Len(accepted) /\ n \in OutputNames
        /\ position \in 1..Len(TestOutputs)
    BY <1>3 DEF Do, Holding, Flow, TypeOK, Handed
  <2>2. /\ written' = [written EXCEPT ![n] = Append(written[n], writing)]
        /\ UNCHANGED <<accepted, parsing>>
    BY <1>3 DEF Do, parserVars
  <2>3. Handed' = Handed
    BY <2>2 DEF Handed
  <2>4. Owed(position) = 1 /\ Len(written[n]) = Handed - 1
    BY <2>1 DEF Owed, Flow
  <2>5. written'[n] = Append(written[n], writing) /\ written[n] \in Seq(Inputs \union {NoInput})
        /\ writing \in Inputs \union {NoInput}
    BY <2>1, <2>2 DEF TypeOK
  <2>6. Len(written'[n]) = Handed
        /\ \A j \in 1..Handed : written'[n][j] = accepted[j]
    <3>1. Len(written'[n]) = Handed /\ written'[n][Handed] = writing
      BY <2>1, <2>4, <2>5
    <3>2. \A j \in 1..(Handed - 1) : written'[n][j] = written[n][j]
      BY <2>1, <2>4, <2>5
    <3>3. \A j \in 1..(Handed - 1) : written[n][j] = accepted[j]
      BY <2>1, <2>4 DEF Flow
    <3>4. QED
      BY <2>1, <3>1, <3>2, <3>3
  <2>7. \A k \in 1..Len(TestOutputs) : k # position =>
          written'[TestOutputs[k]] = written[TestOutputs[k]]
    BY <2>1, <2>2 DEF DistinctNames, TypeOK
  <2>8. ASSUME NEW k \in 1..Len(TestOutputs)
        PROVE  Owed(k)' = IF k = position THEN 0 ELSE Owed(k)
    <3>1. CASE position < Len(TestOutputs)
      BY <1>3, <2>1, <3>1 DEF Do, Owed
    <3>2. CASE position = Len(TestOutputs)
      BY <1>3, <2>1, <3>2 DEF Do, Owed
    <3>3. QED
      BY <2>1, <3>1, <3>2
  <2>9. writing' # NoInput => writing' = writing
    BY <1>3 DEF Do
  <2>10. ASSUME NEW k \in 1..Len(TestOutputs)
         PROVE  /\ Len(written'[TestOutputs[k]]) = Handed - Owed(k)'
                /\ \A j \in 1..Len(written'[TestOutputs[k]]) :
                     written'[TestOutputs[k]][j] = accepted[j]
    <3>1. CASE k = position
      BY <2>1, <2>6, <2>8, <3>1
    <3>2. CASE k # position
      BY <2>7, <2>8, <3>2 DEF Flow
    <3>3. QED
      BY <3>1, <3>2
  <2>11. parsing' # NoInput => Len(accepted') > 0 /\ parsing' = accepted'[Len(accepted')]
    BY <2>2 DEF Flow
  <2>12. writing' # NoInput => Handed' > 0 /\ writing' = accepted'[Handed']
    BY <2>1, <2>2, <2>3, <2>9
  <2>13. \A k \in 1..Len(TestOutputs) :
           /\ Len(written'[TestOutputs[k]]) = Handed' - Owed(k)'
           /\ \A j \in 1..Len(written'[TestOutputs[k]]) :
                written'[TestOutputs[k]][j] = accepted'[j]
    BY <2>2, <2>3, <2>10
  <2>14. QED
    BY <2>11, <2>12, <2>13 DEF Flow
<1>4. CASE UNCHANGED flowVars
  BY <1>4, FlowUnchanged
<1>5. (\E c \in Clients : SendInput(c)) \/ EmitData \/ Do \/ UNCHANGED flowVars
  BY DEF Next, Main, ServerUp, ServerFails, StartClient, EndTask, CloseIn, CheckForErrors,
         WaitForStages, Cleanup, Client, ClientHasLogs, ClientFails, ClientSucceeds,
         Parser, ParseInput, ParserReturns, ParserReports, Outputs, DoFails, OutputsReturn,
         OutputsReport, CollectorReturns, Terminated, vars, parserVars, outputVars, flowVars
<1>6. QED
  BY <1>1, <1>2, <1>3, <1>4, <1>5

THEOREM FlowInvariant == ASSUME DistinctNames PROVE Spec => []Flow
<1>1. Init => Flow
  <2> SUFFICES ASSUME Init PROVE Flow
    OBVIOUS
  <2>1. /\ parsing = NoInput /\ writing = NoInput /\ Len(accepted) = 0
        /\ \A n \in OutputNames : Len(written[n]) = 0
    BY DEF Init
  <2>2. \A k \in 1..Len(TestOutputs) : Owed(k) = 0 /\ Len(written[TestOutputs[k]]) = 0
    BY <2>1, EntryHasName DEF Owed
  <2>3. QED
    BY <2>1, <2>2 DEF Flow, Handed
<1>2. TypeOK /\ Holding /\ Flow /\ [Next]_vars => Flow'
  BY FlowInductive
<1>3. QED
  BY <1>1, <1>2, Typing, PTL DEF Spec

LEMMA NameHasEntry == \A n \in OutputNames : \E k \in 1..Len(TestOutputs) : TestOutputs[k] = n
BY PipelineAssumption

(* Flow bounds how far an output is behind the parser and the others.      *)
LEMMA FlowBounds ==
  ASSUME TypeOK, Flow
  PROVE  /\ Len(accepted) \in Nat /\ Handed \in {Len(accepted), Len(accepted) - 1}
         /\ \A k \in 1..Len(TestOutputs) :
              /\ Len(written[TestOutputs[k]]) \in Nat
              /\ Len(written[TestOutputs[k]]) \in {Handed, Handed - 1}
<1>1. Len(accepted) \in Nat
  BY DEF TypeOK
<1>2. Handed \in {Len(accepted), Len(accepted) - 1}
  BY DEF Handed
<1>3. ASSUME NEW k \in 1..Len(TestOutputs)
      PROVE  Len(written[TestOutputs[k]]) \in Nat
             /\ Len(written[TestOutputs[k]]) \in {Handed, Handed - 1}
  <2>1. Len(written[TestOutputs[k]]) \in Nat
    BY EntryHasName DEF TypeOK
  <2>2. Owed(k) \in {0, 1} /\ Len(written[TestOutputs[k]]) = Handed - Owed(k)
    BY DEF Owed, Flow
  <2>3. QED
    BY <1>1, <1>2, <2>1, <2>2
<1>4. QED
  BY <1>1, <1>2, <1>3

(***************************************************************************)
(* Every output is handed the accepted results in order and is at most two *)
(* behind, provided that test.Outputs names no output twice.               *)
(***************************************************************************)
THEOREM StaysInStep == ASSUME DistinctNames PROVE Spec => []OutputsInStep
<1>1. ASSUME TypeOK, Flow PROVE OutputsInStep
  <2>1. ASSUME NEW n \in OutputNames
        PROVE  /\ Len(written[n]) <= Len(accepted) /\ Len(accepted) <= Len(written[n]) + 2
               /\ \A j \in 1..Len(written[n]) : written[n][j] = accepted[j]
    <3>1. PICK k \in 1..Len(TestOutputs) : TestOutputs[k] = n
      BY NameHasEntry
    <3>2. /\ Len(accepted) \in Nat /\ Handed \in {Len(accepted), Len(accepted) - 1}
          /\ Len(written[n]) \in Nat /\ Len(written[n]) \in {Handed, Handed - 1}
      BY <1>1, <3>1, FlowBounds
    <3>3. \A j \in 1..Len(written[n]) : written[n][j] = accepted[j]
      BY <1>1, <3>1 DEF Flow
    <3>4. Len(written[n]) <= Len(accepted) /\ Len(accepted) <= Len(written[n]) + 2
      BY <3>2
    <3>5. QED
      BY <3>3, <3>4
  <2>2. ASSUME NEW k \in 1..Len(TestOutputs), NEW l \in 1..Len(TestOutputs), k < l
        PROVE  /\ Len(written[TestOutputs[l]]) <= Len(written[TestOutputs[k]])
               /\ Len(written[TestOutputs[k]]) <= Len(written[TestOutputs[l]]) + 1
    <3>1. Owed(k) \in {0, 1} /\ Owed(l) \in {0, 1} /\ Owed(k) <= Owed(l)
      BY <1>1, <2>2, Bounds DEF Owed, TypeOK
    <3>2. Handed \in Int
      BY <1>1, FlowBounds
    <3>3. /\ Len(written[TestOutputs[k]]) = Handed - Owed(k)
          /\ Len(written[TestOutputs[l]]) = Handed - Owed(l)
      BY <1>1 DEF Flow
    <3>4. QED
      BY <3>1, <3>2, <3>3
  <2>3. DOMAIN TestOutputs = 1..Len(TestOutputs)
    BY PipelineAssumption
  <2>4. QED
    BY <2>1, <2>2, <2>3 DEF OutputsInStep
<1>2. QED
  BY <1>1, Typing, FlowInvariant, PTL

(***************************************************************************)
(* When run() closes doneCh nothing is in flight, and unless an error was  *)
(* logged every output has everything.                                     *)
(***************************************************************************)
LEMMA EqualSequences ==
  ASSUME NEW s \in Seq(Inputs), NEW t \in Seq(Inputs), Len(s) = Len(t),
         \A j \in 1..Len(s) : s[j] = t[j]
  PROVE  s = t
<1>1. /\ s = [j \in 1..Len(s) |-> s[j]]
      /\ t = [j \in 1..Len(t) |-> t[j]]
  OBVIOUS
<1>2. [j \in 1..Len(s) |-> s[j]] = [j \in 1..Len(t) |-> t[j]]
  OBVIOUS
<1>3. QED
  BY <1>1, <1>2

LEMMA AllHanded ==
  ASSUME TypeOK, Holding, Flow, ~logged, parser = "returned", outputs = "returned"
  PROVE  \A n \in OutputNames : written[n] = accepted
<1>1. parsing = NoInput /\ writing = NoInput
  BY DEF Holding
<1>2. ASSUME NEW n \in OutputNames PROVE written[n] = accepted
  <2>1. PICK k \in 1..Len(TestOutputs) : TestOutputs[k] = n
    BY NameHasEntry
  <2>2. Owed(k) = 0 /\ Handed = Len(accepted) /\ Len(accepted) \in Nat
    BY <1>1, FlowBounds DEF Owed, Handed
  <2>3. /\ Len(written[n]) = Handed - Owed(k)
        /\ \A j \in 1..Len(written[n]) : written[n][j] = accepted[j]
    BY <2>1 DEF Flow
  <2>4. Len(written[n]) = Len(accepted)
    BY <2>2, <2>3
  <2>5. QED
    BY <2>3, <2>4, EqualSequences DEF TypeOK
<1>3. QED
  BY <1>2

THEOREM DrainsBeforeDone == ASSUME DistinctNames PROVE Spec => []DoneAfterDrain
<1>1. ASSUME TypeOK, Holding, Phases, Flow PROVE DoneAfterDrain
  <2>1. SUFFICES ASSUME "doneCh" \in closed PROVE
           /\ \A c \in Clients : client[c] \in {"idle", "returned"}
           /\ parser = "returned" /\ outputs = "returned"
           /\ ~logged => \A n \in OutputNames : written[n] = accepted
    BY DEF DoneAfterDrain
  <2>2. main \in Drained
    BY <1>1, <2>1 DEF Phases
  <2>3. QED
    BY <1>1, <2>2, AllHanded DEF Phases, Drained, Idle
<1>2. QED
  BY <1>1, Typing, PhasesInvariant, FlowInvariant, PTL

-----------------------------------------------------------------------------
(***************************************************************************)
(* How far Execute has come in the plan, and what that says of the results *)
(* accepted so far: they are of earlier main tasks, or of the clients of   *)
(* this one that got past their send.                                      *)
(***************************************************************************)
Position ==
  /\ main = "clients" => \A c \in Clients : client[c] # "idle" <=> c <= spawned
  /\ options.mode = "sequential" => \A c \in Clients : ~Idle(c) => c = spawned
  /\ ExecuteReturned => task = NTasks
  /\ \A k \in 1..Len(accepted) :
       /\ accepted[k][1] <= task
       /\ main = "server" => accepted[k][1] < task
       /\ main = "clients" /\ accepted[k][1] = task =>
            client[accepted[k][2]] \in {"sent", "returned"}

positionVars == <<main, task, spawned, client, accepted>>

LEMMA PositionInductive ==
  ASSUME TypeOK, Phases, Position, [Next]_vars
  PROVE  Position'
<1> USE Bounds
<1>0. /\ Len(accepted) \in Nat /\ task \in Nat /\ spawned \in Nat
      /\ \A k \in 1..Len(accepted) : accepted[k][1] \in Nat /\ accepted[k][2] \in Clients
      /\ options' = options
  BY OptionsKept DEF TypeOK, Tasks, Inputs
<1>1. CASE ServerUp
  <2>1. /\ main = "server" /\ main' = "clients" /\ spawned' = 0 /\ UNCHANGED <<task, accepted>>
        /\ \A c \in Clients : client'[c] = "idle"
    BY <1>1 DEF ServerUp, parserVars
  <2>2. \A k \in 1..Len(accepted) : accepted[k][1] < task
    BY <2>1 DEF Position
  <2>3. QED
    BY <1>0, <2>1, <2>2 DEF Position, Idle, Clients, ExecuteReturned
<1>2. CASE ServerFails
  <2>1. /\ main = "server" /\ UNCHANGED <<spawned, client, accepted>>
        /\ \/ task < NTasks /\ main' = "server" /\ task' = task + 1
           \/ task = NTasks /\ main' = "close" /\ task' = task
    BY <1>2 DEF ServerFails, AfterTask, parserVars, TypeOK, Tasks
  <2>2. options'.mode = "sequential" => \A c \in Clients : ~Idle(c)' => c = spawned'
    BY <1>0, <2>1 DEF Position, Idle
  <2>3. \A k \in 1..Len(accepted) : accepted[k][1] < task
    BY <2>1 DEF Position
  <2>4. QED
    BY <1>0, <2>1, <2>2, <2>3 DEF Position, ExecuteReturned
<1>3. CASE StartClient
  <2>1. /\ main = "clients" /\ spawned < NClients /\ spawned' = spawned + 1
        /\ options.mode = "parallel" \/ ClientsReturned
        /\ client' = [client EXCEPT ![spawned + 1] = "running"]
        /\ UNCHANGED <<main, task, accepted>>
    BY <1>3 DEF StartClient, parserVars
  <2>2. spawned + 1 \in Clients /\ client[spawned + 1] = "idle"
    <3>1. spawned + 1 \in Clients /\ ~(spawned + 1 <= spawned)
      BY <1>0, <2>1 DEF Clients
    <3>2. QED
      BY <2>1, <3>1 DEF Position
  <2>3. \A c \in Clients : client'[c] = IF c = spawned + 1 THEN "running" ELSE client[c]
    BY <2>1, <2>2 DEF TypeOK
  <2>4. \A c \in Clients : client'[c] # "idle" <=> c <= spawned'
    BY <1>0, <2>1, <2>3 DEF Position, Clients
  <2>5. ASSUME options.mode = "sequential", NEW c \in Clients, ~Idle(c)' PROVE c = spawned'
    BY <2>1, <2>3, <2>5 DEF Idle, ClientsReturned
  <2>6. ASSUME NEW k \in 1..Len(accepted), accepted[k][1] = task
        PROVE  client'[accepted[k][2]] \in {"sent", "returned"}
    BY <1>0, <2>1, <2>2, <2>3, <2>6 DEF Position
  <2>7. QED
    BY <1>0, <2>1, <2>4, <2>5, <2>6 DEF Position, ExecuteReturned
<1>4. CASE EndTask
  <2>1. /\ main = "clients" /\ UNCHANGED <<spawned, client, accepted>>
        /\ \/ task < NTasks /\ main' = "server" /\ task' = task + 1
           \/ task = NTasks /\ main' = "close" /\ task' = task
    BY <1>4 DEF EndTask, AfterTask, parserVars, TypeOK, Tasks
  <2>2. QED
    BY <1>0, <2>1 DEF Position, Idle, ExecuteReturned
<1>5. CASE CloseIn \/ CheckForErrors \/ WaitForStages \/ Cleanup
  <2>1. /\ UNCHANGED <<task, spawned, client, accepted>>
        /\ main \notin {"server", "clients"} /\ main' \notin {"server", "clients"}
    BY <1>5 DEF CloseIn, CheckForErrors, WaitForStages, Cleanup, runnerVars, parserVars
  <2>2. QED
    BY <1>0, <2>1 DEF Position, Idle, ExecuteReturned
<1>6. ASSUME NEW c \in Clients, Client(c) PROVE Position'
  <2>1. /\ ~Idle(c) /\ UNCHANGED <<main, task, spawned>>
        /\ client' = [client EXCEPT ![c] = client'[c]]
        /\ client'[c] \in {"sending", "sent", "returned"}
        /\ client[c] = "sent" => client'[c] = "returned"
    BY <1>6 DEF Client, ClientHasLogs, SendInput, ClientFails, ClientSucceeds, Idle,
                mainVars, TypeOK
  <2>2. main = "clients"
    BY <2>1 DEF Phases
  <2>3. \/ accepted' = accepted
        \/ accepted' = Append(accepted, <<task, c>>) /\ client'[c] = "sent"
    BY <1>6 DEF Client, ClientHasLogs, SendInput, ClientFails, ClientSucceeds, parserVars, TypeOK
  <2>4. \A d \in Clients : d # c => client'[d] = client[d]
    BY <2>1 DEF TypeOK
  <2>5. /\ \A d \in Clients : client'[d] # "idle" <=> d <= spawned
        /\ options.mode = "sequential" => \A d \in Clients : ~Idle(d)' => d = spawned
    BY <1>0, <2>1, <2>2, <2>4 DEF Position, Idle
  <2>6. ASSUME NEW k \in 1..Len(accepted), accepted[k][1] = task
        PROVE  client'[accepted[k][2]] \in {"sent", "returned"}
    <3>1. client[accepted[k][2]] \in {"sent", "returned"}
      BY <2>2, <2>6 DEF Position
    <3>2. QED
      BY <1>0, <2>1, <2>4, <3>1 DEF Idle
  <2>7. ASSUME NEW k \in 1..Len(accepted')
        PROVE  /\ accepted'[k][1] <= task
               /\ accepted'[k][1] = task => client'[accepted'[k][2]] \in {"sent", "returned"}
    <3>1. CASE k \in 1..Len(accepted) /\ accepted'[k] = accepted[k]
      BY <2>6, <3>1 DEF Position
    <3>2. CASE accepted'[k] = <<task, c>> /\ client'[c] = "sent"
      BY <1>0, <3>2
    <3>3. CASE accepted' = accepted
      BY <3>1, <3>3
    <3>4. CASE accepted' = Append(accepted, <<task, c>>) /\ client'[c] = "sent"
      <4>1. /\ Len(accepted') = Len(accepted) + 1
            /\ accepted'[Len(accepted) + 1] = <<task, c>>
            /\ \A j \in 1..Len(accepted) : accepted'[j] = accepted[j]
        BY <3>4 DEF TypeOK, Inputs
      <4>2. k \in 1..Len(accepted) \/ k = Len(accepted) + 1
        BY <1>0, <4>1
      <4>3. QED
        BY <3>1, <3>2, <3>4, <4>1, <4>2
    <3>5. QED
      BY <2>3, <3>3, <3>4
  <2>8. QED
    BY <1>0, <2>1, <2>2, <2>5, <2>7 DEF Position, ExecuteReturned
<1>7. CASE UNCHANGED positionVars
  BY <1>0, <1>7 DEF positionVars, Position, Idle, ExecuteReturned
<1>8. Parser \/ Outputs \/ CollectorReturns \/ UNCHANGED vars => UNCHANGED positionVars
  BY DEF Parser, ParseInput, EmitData, ParserReturns, ParserReports, Outputs, Do, DoFails,
         OutputsReturn, OutputsReport, CollectorReturns, vars, mainVars, runnerVars,
         parserVars, positionVars
<1>9. QED
  BY <1>1, <1>2, <1>3, <1>4, <1>5, <1>6, <1>7, <1>8 DEF Next, Main, Terminated

LEMMA PositionInvariant == Spec => []Position
<1>1. Init => Position
  BY Bounds DEF Init, Position, Idle, ExecuteReturned
<1>2. TypeOK /\ Phases /\ Position /\ [Next]_vars => Position'
  BY PositionInductive
<1>3. QED
  BY <1>1, <1>2, Typing, PhasesInvariant, PTL DEF Spec

(***************************************************************************)
(* Results come in the order of the plan: a main task never overtakes an   *)
(* earlier one, and in sequential mode neither does a client.              *)
(***************************************************************************)
THEOREM KeepsPlanOrder == Spec => []PlanOrder
<1>1. Init => PlanOrder
  BY DEF Init, PlanOrder
<1>2. ASSUME TypeOK, Phases, Position, PlanOrder, [Next]_vars PROVE PlanOrder'
  <2>0. /\ Len(accepted) \in Nat /\ task \in Nat /\ DOMAIN accepted = 1..Len(accepted)
        /\ \A k \in 1..Len(accepted) : accepted[k][1] \in Nat /\ accepted[k][2] \in Clients
        /\ options' = options
    BY <1>2, OptionsKept DEF TypeOK, Tasks, Inputs
  <2>1. ASSUME NEW c \in Clients, SendInput(c) PROVE PlanOrder'
    <3>1. /\ accepted' = Append(accepted, <<task, c>>) /\ client[c] = "sending"
      BY <2>1 DEF SendInput
    <3>2. main = "clients"
      BY <1>2, <3>1 DEF Phases, Idle
    <3>3. /\ DOMAIN accepted' = 1..(Len(accepted) + 1)
          /\ accepted'[Len(accepted) + 1] = <<task, c>>
          /\ \A j \in 1..Len(accepted) : accepted'[j] = accepted[j]
      BY <1>2, <3>1 DEF TypeOK, Inputs
    <3>4. ASSUME NEW j \in 1..Len(accepted), ~(accepted[j][1] < task)
          PROVE  /\ accepted[j][1] = task /\ accepted[j][2] # c
                 /\ options.mode = "sequential" => accepted[j][2] < c
      <4>1. accepted[j][1] = task
        BY <1>2, <2>0, <3>4 DEF Position
      <4>2. client[accepted[j][2]] \in {"sent", "returned"}
        BY <1>2, <3>2, <4>1 DEF Position
      <4>3. options.mode = "sequential" => c = spawned /\ accepted[j][2] <= spawned
        BY <1>2, <2>0, <3>1, <3>2, <4>2 DEF Position, Idle
      <4>4. QED
        BY <2>0, <3>1, <4>1, <4>2, <4>3 DEF Clients
    <3>5. ASSUME NEW j \in DOMAIN accepted', NEW k \in DOMAIN accepted', j < k
          PROVE  \/ accepted'[j][1] < accepted'[k][1]
                 \/ /\ accepted'[j][1] = accepted'[k][1]
                    /\ accepted'[j][2] # accepted'[k][2]
                    /\ options.mode = "sequential" => accepted'[j][2] < accepted'[k][2]
      <4>1. j \in 1..Len(accepted)
        BY <2>0, <3>3, <3>5
      <4>2. CASE k \in 1..Len(accepted)
        BY <1>2, <2>0, <3>3, <3>5, <4>1, <4>2 DEF PlanOrder
      <4>3. CASE k = Len(accepted) + 1
        BY <3>3, <3>4, <4>1, <4>3
      <4>4. QED
        BY <2>0, <3>3, <4>2, <4>3
    <3>6. QED
      BY <2>0, <3>5 DEF PlanOrder
  <2>2. CASE UNCHANGED accepted
    BY <1>2, <2>0, <2>2 DEF PlanOrder
  <2>3. (\E c \in Clients : SendInput(c)) \/ UNCHANGED accepted
    BY <1>2 DEF Next, Main, ServerUp, ServerFails, StartClient, EndTask, CloseIn, CheckForErrors,
         WaitForStages, Cleanup, Client, ClientHasLogs, ClientFails, ClientSucceeds,
         Parser, ParseInput, EmitData, ParserReturns, ParserReports, Outputs, Do, DoFails,
         OutputsReturn, OutputsReport, CollectorReturns, Terminated, vars, parserVars
  <2>4. QED
    BY <2>1, <2>2, <2>3
<1>3. QED
  BY <1>1, <1>2, Typing, PhasesInvariant, PositionInvariant, PTL DEF Spec

-----------------------------------------------------------------------------
(***************************************************************************)
(* The planned client runs Execute is through with: those of earlier main  *)
(* tasks, and of this one those whose client goroutine has returned.       *)
(***************************************************************************)
Past(i) ==
  \/ i[1] < task
  \/ i[1] = task /\ ExecuteReturned
  \/ i[1] = task /\ main = "clients" /\ client[i[2]] = "returned"

Accounts ==
  /\ \A i \in Inputs : Past(i) => Accounted(i)
  /\ main = "clients" =>
       \A c \in Clients : client[c] = "sent" => \E k \in DOMAIN accepted : accepted[k] = <<task, c>>

LEMMA AccountsInductive ==
  ASSUME TypeOK, Phases, Position, Accounts, [Next]_vars
  PROVE  Accounts'
<1> USE Bounds
<1>0. /\ task \in Nat
      /\ \A i \in Inputs : i[1] \in Nat /\ i[2] \in Clients /\ i = <<i[1], i[2]>>
  BY DEF TypeOK, Tasks, Inputs
<1>1. ASSUME NEW i \in Inputs, Accounted(i) PROVE Accounted(i)'
  <2>1. /\ failedClients \subseteq failedClients' /\ failedServers \subseteq failedServers'
    BY DEF Next, Main, ServerUp, ServerFails, StartClient, EndTask, CloseIn, CheckForErrors,
         WaitForStages, Cleanup, Client, ClientHasLogs, SendInput, ClientFails, ClientSucceeds,
         Parser, ParseInput, EmitData, ParserReturns, ParserReports, Outputs, Do, DoFails,
         OutputsReturn, OutputsReport, CollectorReturns, Terminated, vars, runnerVars
  <2>2. accepted' = accepted \/ \E c \in Clients : accepted' = Append(accepted, <<task, c>>)
    BY DEF Next, Main, ServerUp, ServerFails, StartClient, EndTask, CloseIn, CheckForErrors,
         WaitForStages, Cleanup, Client, ClientHasLogs, SendInput, ClientFails, ClientSucceeds,
         Parser, ParseInput, EmitData, ParserReturns, ParserReports, Outputs, Do, DoFails,
         OutputsReturn, OutputsReport, CollectorReturns, Terminated, vars, parserVars
  <2>3. \A k \in DOMAIN accepted : k \in DOMAIN accepted' /\ accepted'[k] = accepted[k]
    <3>1. CASE accepted' = accepted
      BY <3>1
    <3>2. ASSUME NEW c \in Clients, accepted' = Append(accepted, <<task, c>>)
          PROVE  \A k \in DOMAIN accepted : k \in DOMAIN accepted' /\ accepted'[k] = accepted[k]
      <4>1. accepted \in Seq(Inputs) /\ <<task, c>> \in Inputs
        BY DEF TypeOK, Inputs
      <4>2. QED
        BY <3>2, <4>1
    <3>3. QED
      BY <2>2, <3>1, <3>2
  <2>4. QED
    BY <1>1, <2>1, <2>3 DEF Accounted
<1>2. CASE ServerUp
  <2>1. /\ main' = "clients" /\ task' = task
        /\ \A c \in Clients : client'[c] = "idle"
    BY <1>2 DEF ServerUp
  <2>2. \A i \in Inputs : Past(i)' => Past(i)
    BY <1>0, <2>1 DEF Past, ExecuteReturned
  <2>3. QED
    BY <1>1, <2>1, <2>2 DEF Accounts
<1>3. CASE ServerFails
  <2>1. /\ main = "server" /\ task \in failedServers'
        /\ \/ main' = "server" /\ task' = task + 1
           \/ main' = "close" /\ task' = task
    BY <1>3 DEF ServerFails, AfterTask
  <2>2. \A i \in Inputs : Past(i)' => Past(i) \/ i[1] = task
    BY <1>0, <2>1 DEF Past, ExecuteReturned
  <2>3. \A i \in Inputs : i[1] = task => Accounted(i)'
    BY <2>1 DEF Accounted
  <2>4. QED
    BY <1>1, <2>1, <2>2, <2>3 DEF Accounts
<1>4. CASE StartClient
  <2>1. /\ main = "clients" /\ UNCHANGED <<main, task, accepted>>
        /\ client' = [client EXCEPT ![spawned + 1] = "running"]
    BY <1>4 DEF StartClient, parserVars
  <2>2. \A c \in Clients : client'[c] \in {"running", client[c]}
    BY <2>1 DEF TypeOK
  <2>3. \A i \in Inputs : Past(i)' => Past(i)
    BY <1>0, <2>1, <2>2 DEF Past, ExecuteReturned
  <2>4. \A c \in Clients : client'[c] = "sent" => client[c] = "sent"
    BY <2>2
  <2>5. QED
    BY <1>1, <2>1, <2>3, <2>4 DEF Accounts
<1>5. CASE EndTask
  <2>1. /\ main = "clients" /\ spawned = NClients /\ ClientsReturned
        /\ \/ main' = "server" /\ task' = task + 1
           \/ main' = "close" /\ task' = task
    BY <1>5 DEF EndTask, AfterTask
  <2>2. \A c \in Clients : client[c] = "returned"
    BY <2>1 DEF Position, ClientsReturned, Clients
  <2>3. \A i \in Inputs : Past(i)' => Past(i)
    BY <1>0, <2>1, <2>2 DEF Past, ExecuteReturned
  <2>4. QED
    BY <1>1, <2>1, <2>3 DEF Accounts
<1>6. CASE CloseIn \/ CheckForErrors \/ WaitForStages \/ Cleanup
  <2>1. /\ UNCHANGED task
        /\ main \notin {"server", "clients"} /\ main' \notin {"server", "clients"}
    BY <1>6 DEF CloseIn, CheckForErrors, WaitForStages, Cleanup
  <2>2. \A i \in Inputs : Past(i)' => Past(i)
    BY <2>1 DEF Past, ExecuteReturned
  <2>3. QED
    BY <1>1, <2>1, <2>2 DEF Accounts
<1>7. ASSUME NEW c \in Clients, Client(c) PROVE Accounts'
  <2>1. /\ UNCHANGED <<main, task>> /\ main = "clients"
        /\ \A d \in Clients : d # c => client'[d] = client[d]
    BY <1>7 DEF Client, ClientHasLogs, SendInput, ClientFails, ClientSucceeds, mainVars,
                TypeOK, Phases, Idle
  <2>2. <<task, c>> \in Inputs
    BY DEF TypeOK, Inputs
  <2>3. client'[c] = "returned" => Accounted(<<task, c>>)'
    <3>1. CASE ClientFails(c)
      BY <2>1, <3>1 DEF ClientFails, Accounted
    <3>2. CASE ClientSucceeds(c)
      <4>1. Accounted(<<task, c>>)
        BY <2>1, <3>2 DEF ClientSucceeds, Accounts, Accounted
      <4>2. QED
        BY <1>1, <2>1, <2>2, <4>1
    <3>3. CASE ClientHasLogs(c) \/ SendInput(c)
      BY <3>3 DEF ClientHasLogs, SendInput, TypeOK
    <3>4. QED
      BY <1>7, <3>1, <3>2, <3>3 DEF Client
  <2>4. client'[c] = "sent" => \E k \in DOMAIN accepted' : accepted'[k] = <<task, c>>
    <3>1. CASE SendInput(c)
      <4>1. accepted' = Append(accepted, <<task, c>>)
        BY <3>1 DEF SendInput
      <4>2. Len(accepted) + 1 \in DOMAIN accepted' /\ accepted'[Len(accepted) + 1] = <<task, c>>
        BY <4>1 DEF TypeOK, Inputs
      <4>3. QED
        BY <4>2
    <3>2. CASE ClientHasLogs(c) \/ ClientFails(c) \/ ClientSucceeds(c)
      BY <3>2 DEF ClientHasLogs, ClientFails, ClientSucceeds, TypeOK
    <3>3. QED
      BY <1>7, <3>1, <3>2 DEF Client
  <2>5. ASSUME NEW d \in Clients, client'[d] = "sent"
        PROVE  \E k \in DOMAIN accepted' : accepted'[k] = <<task, d>>
    <3>1. CASE d = c
      BY <2>4, <2>5, <3>1
    <3>2. CASE d # c
      <4>1. PICK k \in DOMAIN accepted : accepted[k] = <<task, d>>
        BY <2>1, <2>5, <3>2 DEF Accounts
      <4>2. accepted' = accepted \/ accepted' = Append(accepted, <<task, c>>)
        BY <1>7 DEF Client, ClientHasLogs, SendInput, ClientFails, ClientSucceeds, parserVars
      <4>3. k \in DOMAIN accepted' /\ accepted'[k] = accepted[k]
        <5>1. accepted \in Seq(Inputs)
          BY DEF TypeOK
        <5>2. QED
          BY <2>2, <4>2, <5>1
      <4>4. QED
        BY <4>1, <4>3
    <3>3. QED
      BY <3>1, <3>2
  <2>6. ASSUME NEW i \in Inputs, Past(i)' PROVE Accounted(i)'
    <3>1. CASE i = <<task, c>> /\ client'[c] = "returned"
      BY <2>1, <2>3, <3>1
    <3>2. CASE Past(i)
      BY <1>1, <3>2 DEF Accounts
    <3>3. QED
      BY <1>0, <2>1, <2>6, <3>1, <3>2 DEF Past, ExecuteReturned
  <2>7. QED
    BY <2>1, <2>5, <2>6 DEF Accounts
<1>8. CASE UNCHANGED <<main, task, client, accepted>>
  BY <1>1, <1>8 DEF Accounts, Past, ExecuteReturned
<1>9. Parser \/ Outputs \/ CollectorReturns \/ UNCHANGED vars
        => UNCHANGED <<main, task, client, accepted>>
  BY DEF Parser, ParseInput, EmitData, ParserReturns, ParserReports, Outputs, Do, DoFails,
         OutputsReturn, OutputsReport, CollectorReturns, vars, mainVars, runnerVars, parserVars
<1>10. QED
  BY <1>2, <1>3, <1>4, <1>5, <1>6, <1>7, <1>8, <1>9 DEF Next, Main, Terminated

(***************************************************************************)
(* Every planned client run is accepted or has a recorded failure when     *)
(* Execute returns.                                                        *)
(***************************************************************************)
THEOREM AccountsForEveryRun == Spec => [](EveryRunAccountedFor /\ Accounts)
<1>1. Init => Accounts
  BY DEF Init, Accounts, Past, ExecuteReturned, Inputs, Tasks
<1>2. TypeOK /\ Phases /\ Position /\ Accounts /\ [Next]_vars => Accounts'
  BY AccountsInductive
<1>3. TypeOK /\ Position /\ Accounts => EveryRunAccountedFor
  <2>1. ASSUME TypeOK, Position, Accounts, ExecuteReturned, NEW i \in Inputs
        PROVE  Accounted(i)
    BY <2>1, Bounds DEF Position, Accounts, Past, Inputs, Tasks
  <2>2. QED
    BY <2>1 DEF EveryRunAccountedFor
<1>4. QED
  BY <1>1, <1>2, <1>3, Typing, PhasesInvariant, PositionInvariant, PTL DEF Spec

(***************************************************************************)
(* A test that ends without a failed host and without a logged error has   *)
(* handed every planned result exactly once to every output.               *)
(***************************************************************************)
THEOREM QuietEnd == ASSUME DistinctNames PROVE Spec => []QuietMeansEverything
<1>1. ASSUME TypeOK, Holding, Phases, Flow, EveryRunAccountedFor, PlanOrder
      PROVE  QuietMeansEverything
  <2>1. SUFFICES ASSUME main = "finished", ~logged, ~AnyFailed, NEW n \in OutputNames
        PROVE /\ \A i \in Inputs : \E k \in DOMAIN written[n] : written[n][k] = i
              /\ \A j, k \in DOMAIN written[n] : written[n][j] = written[n][k] => j = k
    BY DEF QuietMeansEverything
  <2>2. written[n] = accepted
    BY <1>1, <2>1, AllHanded DEF Phases, Drained
  <2>3. \A i \in Inputs : \E k \in DOMAIN accepted : accepted[k] = i
    BY <1>1, <2>1 DEF EveryRunAccountedFor, ExecuteReturned, Accounted, AnyFailed
  <2>4. ASSUME NEW j \in DOMAIN accepted, NEW k \in DOMAIN accepted, accepted[j] = accepted[k]
        PROVE  j = k
    <3>1. /\ j \in Nat /\ k \in Nat
          /\ accepted[j][1] \in Nat
      BY <1>1 DEF TypeOK, Inputs, Tasks
    <3>2. ~(j < k)
      BY <1>1, <2>4, <3>1 DEF PlanOrder
    <3>3. ~(k < j)
      BY <1>1, <2>4, <3>1 DEF PlanOrder
    <3>4. QED
      BY <3>1, <3>2, <3>3
  <2>5. QED
    BY <2>2, <2>3, <2>4
<1>2. QED
  BY <1>1, Typing, PhasesInvariant, FlowInvariant, AccountsForEveryRun, KeepsPlanOrder, PTL

-----------------------------------------------------------------------------
(* A step of the pipeline is a step of Delivery, or changes nothing of it. *)
LEMMA DeliveryStep ==
  ASSUME DistinctNames, TypeOK, Holding, Phases, Flow, Position, [Next]_vars
  PROVE  [Promise!Next]_Promise!vars
<1> USE Bounds
<1>1. ASSUME NEW c \in Clients, SendInput(c) PROVE [Promise!Next]_Promise!vars
  <2>1. /\ accepted' = Append(accepted, <<task, c>>) /\ client[c] = "sending"
        /\ parsing = NoInput /\ UNCHANGED <<main, logged, written>>
    BY <1>1 DEF SendInput, Holding, mainVars, outputVars, errorVars
  <2>2. main = "clients" /\ outcome = "running" /\ outcome' = outcome
    BY <2>1 DEF Phases, Idle, outcome, Ended
  <2>3. <<task, c>> \in Inputs
    BY DEF TypeOK, Inputs
  <2>4. ASSUME NEW n \in OutputNames PROVE Promise!Lag(n) < 2
    <3>1. PICK k \in 1..Len(TestOutputs) : TestOutputs[k] = n
      BY NameHasEntry
    <3>2. Handed = Len(accepted)
      BY <2>1 DEF Handed
    <3>3. QED
      BY <3>1, <3>2, FlowBounds DEF Promise!Lag
  <2>5. \A k \in DOMAIN accepted : accepted[k] # <<task, c>>
    <3>1. DOMAIN accepted = 1..Len(accepted)
      BY DEF TypeOK
    <3>2. SUFFICES ASSUME NEW k \in 1..Len(accepted), accepted[k] = <<task, c>> PROVE FALSE
      BY <3>1
    <3>3. client[accepted[k][2]] \in {"sent", "returned"}
      BY <2>2, <3>2 DEF Position
    <3>4. QED
      BY <2>1, <3>2, <3>3
  <2>6. Promise!Accept(<<task, c>>)
    BY <2>1, <2>2, <2>4, <2>5 DEF Promise!Accept
  <2>7. QED
    BY <2>3, <2>6 DEF Promise!Next
<1>2. CASE Do
  <2> DEFINE n == TestOutputs[position]
  <2>1. /\ writing # NoInput /\ outputs = "write" /\ main # "aborted"
        /\ position \in 1..Len(TestOutputs) /\ n \in OutputNames
        /\ written' = [written EXCEPT ![n] = Append(written[n], writing)]
        /\ UNCHANGED <<main, logged, accepted>>
    BY <1>2, EntryHasName DEF Do, Alive, Holding, TypeOK, mainVars, parserVars, errorVars
  <2>2. outcome = "running" /\ outcome' = outcome
    BY <2>1 DEF Phases, Drained, outcome, Ended
  <2>3. Owed(position) = 1 /\ Len(written[n]) = Handed - 1 /\ writing = accepted[Handed]
    BY <2>1 DEF Owed, Flow
  <2>4. /\ Handed \in {Len(accepted), Len(accepted) - 1} /\ Len(accepted) \in Nat
        /\ Len(written[n]) \in Nat
    BY <2>1, FlowBounds
  <2>5. Promise!Lag(n) > 0 /\ writing = accepted[Len(written[n]) + 1]
    BY <2>3, <2>4 DEF Promise!Lag
  <2>6. Promise!Hand(n)
    BY <2>1, <2>2, <2>5 DEF Promise!Hand
  <2>7. QED
    BY <2>1, <2>6 DEF Promise!Next
<1>3. CASE CheckForErrors
  <2>1. /\ main = "check" /\ main' \in {"aborted", "wait"}
        /\ UNCHANGED <<accepted, written, logged>>
    BY <1>3 DEF CheckForErrors, parserVars, outputVars, errorVars
  <2>2. outcome = "running" /\ outcome' \in {"running", "reported"}
    BY <2>1 DEF outcome, Ended
  <2>3. QED
    BY <2>1, <2>2 DEF Promise!Next, Promise!Report, Promise!vars
<1>4. CASE Cleanup
  <2>1. /\ main = "cleanup" /\ main' \in {"finished", "cleanupFailed"}
        /\ UNCHANGED <<accepted, written, logged>>
    BY <1>4 DEF Cleanup, parserVars, outputVars, errorVars
  <2>2. outcome = "running" /\ outcome' = IF main' = "finished" /\ ~logged THEN "complete" ELSE "reported"
    BY <2>1 DEF outcome, Ended
  <2>3. CASE outcome' = "reported"
    BY <2>1, <2>2, <2>3 DEF Promise!Next, Promise!Report
  <2>4. CASE ~logged
    <3>1. \A n \in OutputNames : written[n] = accepted
      BY <2>1, <2>4, AllHanded DEF Phases, Drained
    <3>2. \A n \in OutputNames : Promise!Lag(n) = 0
      BY <3>1 DEF Promise!Lag, TypeOK
    <3>3. outcome' \in {"complete", "reported"}
      BY <2>2
    <3>4. QED
      BY <2>1, <2>2, <3>2, <3>3 DEF Promise!Next, Promise!Complete, Promise!Report
  <2>5. QED
    BY <2>2, <2>3, <2>4
<1>5. CASE /\ UNCHANGED <<accepted, written>>
           /\ ~Ended /\ ~Ended'
  BY <1>5 DEF outcome, Promise!vars
<1>6. CASE UNCHANGED <<accepted, written, main, logged>>
  BY <1>6 DEF outcome, Ended, Promise!vars
<1>7. CASE Main
  <2>1. UNCHANGED <<accepted, written>> /\ ((~Ended /\ ~Ended') \/ CheckForErrors \/ Cleanup)
    BY <1>7 DEF Main, ServerUp, ServerFails, StartClient, EndTask, AfterTask, CloseIn,
                CheckForErrors, WaitForStages, Cleanup, Ended, parserVars, outputVars
  <2>2. QED
    BY <1>3, <1>4, <1>5, <2>1
<1>8. CASE ParserReports \/ OutputsReport
  <2>1. UNCHANGED <<accepted, written, main>> /\ main \notin Drained /\ main # "aborted"
    BY <1>8 DEF ParserReports, OutputsReport, Alive, Phases, mainVars, parserVars, outputVars
  <2>2. QED
    BY <1>5, <2>1 DEF Ended, Drained
<1>9. \/ Main \/ (\E c \in Clients : SendInput(c)) \/ Do
      \/ ParserReports \/ OutputsReport
      \/ UNCHANGED <<accepted, written, main, logged>>
  BY DEF Next, Client, ClientHasLogs, ClientFails, ClientSucceeds, Parser, ParseInput, EmitData,
         ParserReturns, Outputs, DoFails, OutputsReturn, CollectorReturns, Terminated, vars,
         mainVars, parserVars, outputVars, errorVars
<1>10. QED
  BY <1>1, <1>2, <1>6, <1>7, <1>8, <1>9

(***************************************************************************)
(* One test implements Delivery with two results in flight.                *)
(***************************************************************************)
THEOREM ImplementsDelivery == ASSUME DistinctNames PROVE Spec => KeepsPromise
<1>1. Init => Promise!Init
  BY DEF Init, Promise!Init, outcome, Ended
<1>2. TypeOK /\ Holding /\ Phases /\ Flow /\ Position /\ [Next]_vars
        => [Promise!Next]_Promise!vars
  BY DeliveryStep
<1>3. QED
  BY <1>1, <1>2, Typing, PhasesInvariant, FlowInvariant, PositionInvariant, PTL
     DEF Spec, KeepsPromise, Promise!Spec
-----------------------------------------------------------------------------
(***************************************************************************)
(* The failure of a client is recorded as its goroutine returns.           *)
(***************************************************************************)
Recorded == \A i \in failedClients : Past(i)

LEMMA RecordedInductive ==
  ASSUME TypeOK, Phases, Position, Recorded, [Next]_vars
  PROVE  Recorded'
<1> USE Bounds
<1>0. /\ task \in Nat
      /\ \A i \in failedClients : i[1] \in Nat /\ i[2] \in Clients
  BY DEF TypeOK, Tasks, Inputs
<1>1. CASE ServerUp \/ ServerFails
  <2>1. \A i \in failedClients : i[1] < task
    BY <1>0, <1>1 DEF ServerUp, ServerFails, Recorded, Past, ExecuteReturned
  <2>2. UNCHANGED failedClients /\ task' \in {task, task + 1}
    BY <1>1 DEF ServerUp, ServerFails, AfterTask
  <2>3. QED
    BY <1>0, <2>1, <2>2 DEF Recorded, Past
<1>2. CASE StartClient
  <2>1. /\ main = "clients" /\ UNCHANGED <<main, task, failedClients>>
        /\ client' = [client EXCEPT ![spawned + 1] = "running"]
        /\ spawned + 1 \in Clients
    BY <1>2 DEF StartClient, TypeOK, Clients
  <2>2. client[spawned + 1] = "idle"
    BY <2>1 DEF Position, TypeOK
  <2>3. \A c \in Clients : client[c] = "returned" => client'[c] = "returned"
    BY <2>1, <2>2 DEF TypeOK
  <2>4. QED
    BY <1>0, <2>1, <2>3 DEF Recorded, Past, ExecuteReturned
<1>3. CASE EndTask
  <2>1. /\ main = "clients" /\ UNCHANGED failedClients
        /\ \/ main' = "server" /\ task' = task + 1
           \/ main' = "close" /\ task' = task
    BY <1>3 DEF EndTask, AfterTask
  <2>2. \A i \in failedClients : i[1] <= task
    BY <1>0 DEF Recorded, Past
  <2>3. QED
    BY <1>0, <2>1, <2>2 DEF Recorded, Past, ExecuteReturned
<1>4. CASE CloseIn \/ CheckForErrors \/ WaitForStages \/ Cleanup
  <2>1. /\ UNCHANGED <<task, failedClients>>
        /\ main \notin {"server", "clients"} /\ main' \notin {"server", "clients"}
    BY <1>4 DEF CloseIn, CheckForErrors, WaitForStages, Cleanup, runnerVars
  <2>2. QED
    BY <2>1 DEF Recorded, Past, ExecuteReturned
<1>5. ASSUME NEW c \in Clients, Client(c) PROVE Recorded'
  <2>1. /\ UNCHANGED <<main, task>> /\ main = "clients" /\ client[c] # "returned"
        /\ \A d \in Clients : d # c => client'[d] = client[d]
    BY <1>5 DEF Client, ClientHasLogs, SendInput, ClientFails, ClientSucceeds, mainVars,
                TypeOK, Phases, Idle
  <2>2. \A d \in Clients : client[d] = "returned" => client'[d] = "returned"
    BY <2>1
  <2>3. \A i \in failedClients : Past(i)'
    BY <1>0, <2>1, <2>2 DEF Recorded, Past, ExecuteReturned
  <2>4. \/ failedClients' = failedClients
        \/ failedClients' = failedClients \union {<<task, c>>} /\ client'[c] = "returned"
    BY <1>5 DEF Client, ClientHasLogs, SendInput, ClientFails, ClientSucceeds, TypeOK
  <2>5. ASSUME NEW i \in failedClients' PROVE Past(i)'
    <3>1. CASE i \in failedClients
      BY <2>3, <3>1
    <3>2. CASE i = <<task, c>> /\ client'[c] = "returned"
      BY <2>1, <3>2 DEF Past
    <3>3. QED
      BY <2>4, <2>5, <3>1, <3>2
  <2>6. QED
    BY <2>5 DEF Recorded
<1>6. CASE UNCHANGED <<main, task, client, failedClients>>
  BY <1>6 DEF Recorded, Past, ExecuteReturned
<1>7. Parser \/ Outputs \/ CollectorReturns \/ UNCHANGED vars
        => UNCHANGED <<main, task, client, failedClients>>
  BY DEF Parser, ParseInput, EmitData, ParserReturns, ParserReports, Outputs, Do, DoFails,
         OutputsReturn, OutputsReport, CollectorReturns, vars, mainVars, runnerVars, parserVars
<1>8. QED
  BY <1>1, <1>2, <1>3, <1>4, <1>5, <1>6, <1>7 DEF Next, Main, Terminated

(***************************************************************************)
(* The runner as the pipeline sees it is one that keeps RunnerContract,    *)
(* which KubernetesRunner and AnsibleRunner implement too.                 *)
(***************************************************************************)
Runner == INSTANCE RunnerContract WITH
  mode <- options.mode, returned <- ExecuteReturned,
  delivered <- {accepted[k] : k \in DOMAIN accepted}

KeepsContract == Runner!Spec

runnerView == <<options.mode, task, ExecuteReturned, accepted, failedServers, failedClients>>

LEMMA RunnerStep ==
  ASSUME TypeOK, Holding, Phases, Position, Accounts, Recorded, [Next]_vars
  PROVE  [Runner!Next]_Runner!vars
<1> DEFINE delivered == {accepted[k] : k \in DOMAIN accepted}
<1> USE Bounds
<1>0. /\ task \in Nat /\ options.mode' = options.mode
      /\ DOMAIN accepted = 1..Len(accepted)
      /\ \A i \in failedClients : i \in Inputs
  BY OptionsKept DEF TypeOK, Tasks
<1>1. CASE UNCHANGED runnerView
  BY <1>1 DEF runnerView, Runner!vars
<1>2. ASSUME main \in {"server", "clients"}, AfterTask,
             failedServers' \in {failedServers, failedServers \union {task}},
             UNCHANGED <<accepted, failedClients>>,
             \A c \in Clients : task \in failedServers' \/ Accounted(<<task, c>>)
      PROVE  Runner!EndTask
  <2>1. \A c \in Clients : Runner!Accounted(c, failedServers')
    BY <1>2 DEF Accounted, Runner!Accounted
  <2>2. \/ task < NTasks /\ task' = task + 1 /\ ~ExecuteReturned /\ ~ExecuteReturned'
        \/ task = NTasks /\ task' = task /\ ~ExecuteReturned /\ ExecuteReturned'
    BY <1>2 DEF AfterTask, ExecuteReturned, TypeOK, Tasks
  <2>3. options.mode' = options.mode /\ delivered' = delivered
    BY <1>0, <1>2
  <2>4. \/ task < NTasks /\ task' = task + 1 /\ UNCHANGED ExecuteReturned
        \/ task = NTasks /\ ExecuteReturned' = TRUE /\ UNCHANGED task
    BY <2>2 DEF ExecuteReturned
  <2>5. ~ExecuteReturned
    BY <2>2
  <2>6. QED
    BY <1>2, <2>1, <2>3, <2>4, <2>5 DEF Runner!EndTask, Runner!Clients, Clients
<1>3. CASE ServerFails
  <2>1. Runner!EndTask
    BY <1>2, <1>3 DEF ServerFails, parserVars
  <2>2. QED
    BY <2>1 DEF Runner!Next
<1>4. CASE EndTask
  <2>1. \A c \in Clients : client[c] = "returned"
    BY <1>4 DEF EndTask, Position, ClientsReturned, Clients, TypeOK
  <2>2. ASSUME NEW c \in Clients PROVE Accounted(<<task, c>>)
    BY <1>4, <2>1 DEF EndTask, Accounts, Past, TypeOK, Inputs
  <2>3. Runner!EndTask
    BY <1>2, <1>4, <2>2 DEF EndTask, parserVars
  <2>4. QED
    BY <2>3 DEF Runner!Next
<1>5. ASSUME NEW c \in Clients, SendInput(c) PROVE Runner!Deliver(c)
  <2>1. /\ client[c] = "sending" /\ accepted' = Append(accepted, <<task, c>>)
        /\ main = "clients" /\ ~ExecuteReturned
        /\ UNCHANGED <<main, task, failedServers, failedClients>>
    BY <1>5 DEF SendInput, mainVars, Phases, Idle, ExecuteReturned
  <2>2. \A d \in Clients : <<task, d>> \in delivered => client[d] \in {"sent", "returned"}
    BY <1>0, <2>1 DEF Position
  <2>3. \A d \in Clients : <<task, d>> \in failedClients => client[d] = "returned"
    BY <1>0, <2>1 DEF Recorded, Past
  <2>4. options.mode = "sequential" =>
          \A d \in Clients : d > c => client[d] = "idle"
    BY <2>1 DEF Position, Idle, Clients, TypeOK
  <2>5. delivered' = delivered \union {<<task, c>>}
    <3>1. /\ Len(accepted) \in Nat /\ DOMAIN accepted' = 1..(Len(accepted) + 1)
          /\ accepted'[Len(accepted) + 1] = <<task, c>>
          /\ \A k \in 1..Len(accepted) : accepted'[k] = accepted[k]
      BY <2>1 DEF TypeOK, Inputs
    <3>2. ASSUME NEW i PROVE i \in delivered' <=> i \in delivered \union {<<task, c>>}
      <4>1. i \in delivered' <=> \E k \in 1..(Len(accepted) + 1) : i = accepted'[k]
        BY <3>1
      <4>2. i \in delivered <=> \E k \in 1..Len(accepted) : i = accepted[k]
        BY <1>0
      <4>3. (\E k \in 1..(Len(accepted) + 1) : i = accepted'[k])
              <=> (\E k \in 1..Len(accepted) : i = accepted[k]) \/ i = <<task, c>>
        <5>1. \A k \in 1..(Len(accepted) + 1) : k \in 1..Len(accepted) \/ k = Len(accepted) + 1
          BY <3>1
        <5>2. Len(accepted) + 1 \in 1..(Len(accepted) + 1)
              /\ 1..Len(accepted) \subseteq 1..(Len(accepted) + 1)
          BY <3>1
        <5>3. QED
          BY <3>1, <5>1, <5>2
      <4>4. QED
        BY <4>1, <4>2, <4>3
    <3>3. QED
      BY <3>2
  <2>6. <<task, c>> \notin delivered
    BY <2>1, <2>2
  <2>7. options.mode = "sequential" =>
          \A d \in Clients : d > c => <<task, d>> \notin delivered \union failedClients
    BY <2>2, <2>3, <2>4
  <2>8. UNCHANGED ExecuteReturned
    BY <2>1 DEF ExecuteReturned
  <2>9. QED
    BY <1>0, <2>1, <2>5, <2>6, <2>7, <2>8 DEF Runner!Deliver, Runner!Clients, Clients
<1>6. ASSUME NEW c \in Clients, ClientFails(c) PROVE Runner!FailClient(c)
  <2>1. /\ main = "clients" /\ UNCHANGED <<main, task, accepted, failedServers>>
        /\ failedClients' = failedClients \union {<<task, c>>}
    BY <1>6 DEF ClientFails, Phases, Idle, mainVars, parserVars
  <2>2. QED
    BY <1>0, <2>1 DEF Runner!FailClient, ExecuteReturned
<1>7. \/ ServerFails \/ EndTask
      \/ \E c \in Clients : SendInput(c) \/ ClientFails(c)
      \/ UNCHANGED runnerView
  <2>1. ServerUp \/ StartClient => UNCHANGED runnerView
    BY <1>0 DEF ServerUp, StartClient, runnerView, ExecuteReturned, parserVars
  <2>2. CloseIn \/ CheckForErrors \/ WaitForStages \/ Cleanup => UNCHANGED runnerView
    BY <1>0 DEF CloseIn, CheckForErrors, WaitForStages, Cleanup, runnerView, ExecuteReturned,
                runnerVars, parserVars
  <2>3. ASSUME NEW c \in Clients, ClientHasLogs(c) \/ ClientSucceeds(c)
        PROVE  UNCHANGED runnerView
    BY <1>0, <2>3 DEF ClientHasLogs, ClientSucceeds, runnerView, ExecuteReturned, mainVars,
                      parserVars
  <2>4. Parser \/ Outputs \/ CollectorReturns \/ UNCHANGED vars => UNCHANGED runnerView
    BY <1>0 DEF Parser, ParseInput, EmitData, ParserReturns, ParserReports, Outputs, Do, DoFails,
                OutputsReturn, OutputsReport, CollectorReturns, vars, mainVars, runnerVars,
                parserVars, runnerView, ExecuteReturned
  <2>5. QED
    BY <2>1, <2>2, <2>3, <2>4 DEF Next, Main, Client, Terminated
<1>8. QED
  BY <1>1, <1>3, <1>4, <1>5, <1>6, <1>7 DEF Runner!Next, Runner!Clients, Clients

(***************************************************************************)
(* So what run() is proved to do with the runner of this module rests on   *)
(* nothing but steps the contract allows: one main task after the other,   *)
(* results at most once, and no task left before its clients are accounted *)
(* for.                                                                    *)
(***************************************************************************)
THEOREM ImplementsContract == Spec => KeepsContract
<1>1. Init => Runner!Init /\ Recorded
  <2>1. Init => options.mode \in {"sequential", "parallel"}
    BY PipelineAssumption DEF Init
  <2>2. Init => {accepted[k] : k \in DOMAIN accepted} = {} /\ ~ExecuteReturned
    BY DEF Init, ExecuteReturned
  <2>3. QED
    BY <2>1, <2>2 DEF Init, Runner!Init, Recorded
<1>2. TypeOK /\ Phases /\ Position /\ Recorded /\ [Next]_vars => Recorded'
  BY RecordedInductive
<1>3. TypeOK /\ Holding /\ Phases /\ Position /\ Accounts /\ Recorded /\ [Next]_vars
        => [Runner!Next]_Runner!vars
  BY RunnerStep
<1>4. QED
  BY <1>1, <1>2, <1>3, Typing, PhasesInvariant, PositionInvariant, AccountsForEveryRun, PTL
     DEF Spec, KeepsContract, Runner!Spec

-----------------------------------------------------------------------------
(***************************************************************************)
(* Why a test ends or hangs.  What is left to do is kept in finite sets:   *)
(* no step adds to one of them, and every step strikes something off.      *)
(***************************************************************************)

\* The input may still be sent to the parser.
Ahead(i) ==
  \/ i[1] > task
  \/ i[1] = task /\ main = "server"
  \/ i[1] = task /\ main = "clients" /\ client[i[2]] \in {"idle", "running", "sending"}

ServersLeft == {t \in Tasks : t > task \/ (t = task /\ main = "server")}
TasksLeft   == {t \in Tasks : t > task \/ (t = task /\ main \in {"server", "clients"})}

PhasesLeft ==
  {p \in {"close", "check", "wait", "cleanup"} :
     \/ main \in {"server", "clients", "close"}
     \/ main = "check" /\ p # "close"
     \/ main = "wait" /\ p \in {"wait", "cleanup"}
     \/ main = "cleanup" /\ p = "cleanup"}

\* The client of an input has this step before it.
Before(i, s) ==
  \/ i[1] > task
  \/ i[1] = task /\ main = "server"
  \/ /\ i[1] = task /\ main = "clients"
     /\ \/ client[i[2]] = "idle"
        \/ client[i[2]] = "running" /\ s # "start"
        \/ client[i[2]] = "sending" /\ s \in {"send", "return"}
        \/ client[i[2]] = "sent" /\ s = "return"

ClientSteps == {"start", "logs", "send", "return"}
ClientsLeft == {x \in Inputs \X ClientSteps : Before(x[1], x[2])}

ParsesLeft == {i \in Inputs : Ahead(i) \/ (i = parsing /\ parser = "parse")}
EmitsLeft  == {i \in Inputs : Ahead(i) \/ (i = parsing /\ parser \in {"parse", "emit"})}

\* The entry k of the outputs has still to be called with the input.
Undone(i, k) ==
  \/ Ahead(i)
  \/ i = parsing /\ parser \in {"parse", "emit"}
  \/ i = writing /\ outputs = "write" /\ position <= k

DosLeft == {x \in Inputs \X (1..Len(TestOutputs)) : Undone(x[1], x[2])}

\* Giving up, at most once each, and returning.
EndsLeft ==
  {e \in {"parse", "parser", "write", "outputs", "collector"} :
     \/ e = "parse" /\ parser \in {"receive", "parse", "emit"}
     \/ e = "parser" /\ parser # "returned"
     \/ e = "write" /\ outputs \in {"receive", "write"}
     \/ e = "outputs" /\ outputs # "returned"
     \/ e = "collector" /\ collector # "returned"}

AllLeft == <<ServersLeft, TasksLeft, PhasesLeft, ClientsLeft, ParsesLeft, EmitsLeft, DosLeft, EndsLeft>>

OnlyStrikesOff ==
  /\ ServersLeft' \subseteq ServersLeft /\ TasksLeft' \subseteq TasksLeft
  /\ PhasesLeft' \subseteq PhasesLeft /\ ClientsLeft' \subseteq ClientsLeft
  /\ ParsesLeft' \subseteq ParsesLeft /\ EmitsLeft' \subseteq EmitsLeft
  /\ DosLeft' \subseteq DosLeft /\ EndsLeft' \subseteq EndsLeft
  /\ AllLeft' # AllLeft

\* What a stage holds is no longer ahead, and the stages hold different inputs.
Behind ==
  /\ parser \in {"parse", "emit", "error"} => parsing \in Inputs /\ ~Ahead(parsing)
  /\ outputs \in {"write", "error"} => writing \in Inputs /\ ~Ahead(writing)
  /\ parser \in {"parse", "emit", "error"} /\ outputs \in {"write", "error"} => parsing # writing

\* The channel a stage ranges over is closed once its sender is through.
Closes ==
  /\ main \notin {"server", "clients", "close", "aborted"} => "inCh" \in closed
  /\ parser = "returned" => "dataCh" \in closed

LEMMA InputParts ==
  \A i \in Inputs : i[1] \in Nat /\ i[1] \in Tasks /\ i[2] \in Clients /\ i = <<i[1], i[2]>>
BY Bounds DEF Inputs, Tasks

FinitelyMuchLeft ==
  /\ IsFiniteSet(ServersLeft) /\ IsFiniteSet(TasksLeft) /\ IsFiniteSet(PhasesLeft)
  /\ IsFiniteSet(ClientsLeft) /\ IsFiniteSet(ParsesLeft) /\ IsFiniteSet(EmitsLeft)
  /\ IsFiniteSet(DosLeft) /\ IsFiniteSet(EndsLeft)

LEMMA AlwaysFinite == FinitelyMuchLeft
<1>1. \A n \in Nat : IsFiniteSet(1..n)
  BY FS_Interval
<1>2. IsFiniteSet(Tasks) /\ IsFiniteSet(Clients) /\ IsFiniteSet(1..Len(TestOutputs))
  BY <1>1, Bounds DEF Tasks, Clients
<1>3. IsFiniteSet(Inputs)
  BY <1>2, FS_Product DEF Inputs
<1>4. ASSUME NEW a, NEW b, NEW c, NEW d, NEW e PROVE IsFiniteSet({a, b, c, d, e})
  <2>1. IsFiniteSet({a} \union {b})
    BY FS_Singleton, FS_AddElement
  <2>2. IsFiniteSet(({a} \union {b}) \union {c})
    BY <2>1, FS_AddElement
  <2>3. IsFiniteSet((({a} \union {b}) \union {c}) \union {d})
    BY <2>2, FS_AddElement
  <2>4. IsFiniteSet(((({a} \union {b}) \union {c}) \union {d}) \union {e})
    BY <2>3, FS_AddElement
  <2>5. ((({a} \union {b}) \union {c}) \union {d}) \union {e} = {a, b, c, d, e}
    OBVIOUS
  <2>6. QED
    BY <2>4, <2>5
<1>5. IsFiniteSet(Inputs \X {"start", "logs", "send", "return", "return"})
  BY <1>3, <1>4, FS_Product
<1>6. IsFiniteSet(Inputs \X (1..Len(TestOutputs)))
  BY <1>2, <1>3, FS_Product
<1>7. IsFiniteSet(ServersLeft) /\ IsFiniteSet(TasksLeft)
  BY <1>2, FS_Subset DEF ServersLeft, TasksLeft
<1>8. IsFiniteSet(ParsesLeft) /\ IsFiniteSet(EmitsLeft)
  BY <1>3, FS_Subset DEF ParsesLeft, EmitsLeft
<1>9. IsFiniteSet(ClientsLeft) /\ IsFiniteSet(DosLeft)
  <2>1. Inputs \X ClientSteps = Inputs \X {"start", "logs", "send", "return", "return"}
    BY DEF ClientSteps
  <2>2. QED
    BY <1>5, <1>6, <2>1, FS_Subset DEF ClientsLeft, DosLeft
<1>10. IsFiniteSet(PhasesLeft)
  <2>1. IsFiniteSet({"close", "check", "wait", "cleanup", "cleanup"})
    BY <1>4
  <2>2. PhasesLeft \in SUBSET {"close", "check", "wait", "cleanup", "cleanup"}
    BY DEF PhasesLeft
  <2>3. QED
    BY <2>1, <2>2, FS_Subset
<1>11. IsFiniteSet(EndsLeft)
  <2>1. IsFiniteSet({"parse", "parser", "write", "outputs", "collector"})
    BY <1>4
  <2>2. QED
    BY <2>1, FS_Subset DEF EndsLeft
<1>12. QED
  BY <1>7, <1>8, <1>9, <1>10, <1>11 DEF FinitelyMuchLeft

(* As long as the stages of the pipeline stay where they are.              *)
LEMMA StagesStay ==
  ASSUME \A i \in Inputs : Ahead(i)' => Ahead(i),
         UNCHANGED <<parser, parsing, outputs, writing, position, collector>>
  PROVE  /\ ParsesLeft' \subseteq ParsesLeft /\ EmitsLeft' \subseteq EmitsLeft
         /\ DosLeft' \subseteq DosLeft /\ EndsLeft' \subseteq EndsLeft
<1>1. ParsesLeft' \subseteq ParsesLeft /\ EmitsLeft' \subseteq EmitsLeft
  BY DEF ParsesLeft, EmitsLeft
<1>2. DosLeft' \subseteq DosLeft
  <2>1. \A i \in Inputs, k \in 1..Len(TestOutputs) : Undone(i, k)' => Undone(i, k)
    BY DEF Undone
  <2>2. QED
    BY <2>1 DEF DosLeft
<1>3. EndsLeft' = EndsLeft
  BY DEF EndsLeft
<1>4. QED
  BY <1>1, <1>2, <1>3

(* As long as Execute and the main goroutine stay where they are.          *)
LEMMA RunnerStays ==
  ASSUME UNCHANGED <<main, task, client>>
  PROVE  /\ ServersLeft' = ServersLeft /\ TasksLeft' = TasksLeft
         /\ PhasesLeft' = PhasesLeft /\ ClientsLeft' = ClientsLeft
         /\ \A i \in Inputs : Ahead(i)' <=> Ahead(i)
<1>1. \A i \in Inputs, s \in ClientSteps : Before(i, s)' <=> Before(i, s)
  BY DEF Before
<1>2. ClientsLeft' = ClientsLeft
  BY <1>1 DEF ClientsLeft
<1>3. QED
  BY <1>2 DEF ServersLeft, TasksLeft, PhasesLeft, Ahead

(* A step of the main goroutine moves on in the plan or to a later phase.  *)
LEMMA MainStrikesOff ==
  ASSUME TypeOK, Phases, Position, Main
  PROVE  OnlyStrikesOff /\ \A i \in Inputs : Ahead(i)' => Ahead(i)
<1>0. task \in Nat /\ task \in Tasks
  BY Bounds DEF TypeOK, Tasks
<1>1. UNCHANGED <<parser, parsing, outputs, writing, position, collector>>
  BY DEF Main, ServerUp, ServerFails, StartClient, EndTask, CloseIn, CheckForErrors,
         WaitForStages, Cleanup, parserVars, outputVars, errorVars
<1>2. SUFFICES /\ ServersLeft' \subseteq ServersLeft /\ TasksLeft' \subseteq TasksLeft
               /\ PhasesLeft' \subseteq PhasesLeft
               /\ \A i \in Inputs : Ahead(i)' => Ahead(i)
               /\ \A i \in Inputs, s \in ClientSteps : Before(i, s)' => Before(i, s)
               /\ \/ ServersLeft' # ServersLeft \/ TasksLeft' # TasksLeft
                  \/ PhasesLeft' # PhasesLeft \/ ClientsLeft' # ClientsLeft
  <2>1. SUFFICES ASSUME \A i \in Inputs, s \in ClientSteps : Before(i, s)' => Before(i, s)
                 PROVE  ClientsLeft' \subseteq ClientsLeft
    BY <1>1, <1>2, StagesStay DEF OnlyStrikesOff, AllLeft
  <2>2. QED
    BY <2>1 DEF ClientsLeft
<1>3. CASE ServerUp
  <2>1. /\ main = "server" /\ main' = "clients" /\ task' = task
        /\ client' = [c \in Clients |-> "idle"]
    BY <1>3 DEF ServerUp
  <2>2. ServersLeft' \subseteq ServersLeft /\ TasksLeft' = TasksLeft /\ PhasesLeft' = PhasesLeft
    BY <2>1 DEF ServersLeft, TasksLeft, PhasesLeft
  <2>3. task \in ServersLeft /\ task \notin ServersLeft'
    BY <1>0, <2>1 DEF ServersLeft
  <2>4. QED
    BY <2>1, <2>2, <2>3 DEF Ahead, Before
<1>4. CASE ServerFails \/ EndTask
  <2>1. /\ main \in {"server", "clients"}
        /\ \/ task < NTasks /\ main' = "server" /\ task' = task + 1
           \/ task = NTasks /\ main' = "close" /\ task' = task
    <3>1. main \in {"server", "clients"} /\ AfterTask
      BY <1>4 DEF ServerFails, EndTask
    <3>2. task <= NTasks
      BY <1>0 DEF Tasks
    <3>3. QED
      BY <1>0, <3>1, <3>2, Bounds DEF AfterTask
  <2>2. \A t \in Tasks : t \in Nat
    BY Bounds DEF Tasks
  <2>3. /\ ServersLeft' \subseteq ServersLeft /\ TasksLeft' \subseteq TasksLeft
        /\ PhasesLeft' \subseteq PhasesLeft
    <3>1. ASSUME NEW t \in Tasks
          PROVE  /\ t > task' \/ (t = task' /\ main' = "server")
                      => t > task \/ (t = task /\ main = "server")
                 /\ t > task' \/ (t = task' /\ main' \in {"server", "clients"})
                      => t > task \/ (t = task /\ main \in {"server", "clients"})
      BY <1>0, <2>1, <2>2
    <3>2. PhasesLeft' \subseteq PhasesLeft
      BY <2>1 DEF PhasesLeft
    <3>3. QED
      BY <3>1, <3>2 DEF ServersLeft, TasksLeft
  <2>4. task \in TasksLeft /\ task \notin TasksLeft'
    BY <1>0, <2>1 DEF TasksLeft
  <2>5. /\ \A i \in Inputs : Ahead(i)' => Ahead(i)
        /\ \A i \in Inputs, s \in ClientSteps : Before(i, s)' => Before(i, s)
    BY <1>0, <2>1, InputParts DEF Ahead, Before
  <2>6. QED
    BY <2>3, <2>4, <2>5
<1>5. CASE StartClient
  <2>1. /\ main = "clients" /\ UNCHANGED <<main, task>> /\ spawned < NClients
        /\ client' = [client EXCEPT ![spawned + 1] = "running"]
    BY <1>5 DEF StartClient
  <2>2. PICK c \in Clients : c = spawned + 1
    BY <2>1, Bounds DEF TypeOK, Clients
  <2>3. client[c] = "idle" /\ client'[c] = "running" /\ \A d \in Clients : d # c => client'[d] = client[d]
    <3>1. ~(c <= spawned)
      BY <2>2 DEF TypeOK
    <3>2. QED
      BY <2>1, <2>2, <3>1 DEF Position, TypeOK
  <2>4. ServersLeft' = ServersLeft /\ TasksLeft' = TasksLeft /\ PhasesLeft' = PhasesLeft
    BY <2>1 DEF ServersLeft, TasksLeft, PhasesLeft
  <2>5. /\ \A i \in Inputs : Ahead(i)' => Ahead(i)
        /\ \A i \in Inputs, s \in ClientSteps : Before(i, s)' => Before(i, s)
    BY <2>1, <2>3, InputParts DEF Ahead, Before
  <2>6. <<<<task, c>>, "start">> \in ClientsLeft /\ <<<<task, c>>, "start">> \notin ClientsLeft'
    <3>1. <<task, c>> \in Inputs
      BY <1>0 DEF Inputs
    <3>2. Before(<<task, c>>, "start")
      BY <2>1, <2>3 DEF Before
    <3>3. ASSUME NEW i \in Inputs, i = <<task, c>> PROVE ~Before(i, "start")'
      BY <1>0, <2>1, <2>3, <3>3 DEF Before
    <3>4. QED
      BY <3>1, <3>2, <3>3 DEF ClientsLeft, ClientSteps
  <2>7. QED
    BY <2>4, <2>5, <2>6
<1>6. CASE CloseIn \/ CheckForErrors \/ WaitForStages \/ Cleanup
  <2>1. /\ UNCHANGED <<task, client>>
        /\ \/ main = "close" /\ main' = "check"
           \/ main = "check" /\ main' \in {"aborted", "wait"}
           \/ main = "wait" /\ main' = "cleanup"
           \/ main = "cleanup" /\ main' \in {"finished", "cleanupFailed"}
    BY <1>6 DEF CloseIn, CheckForErrors, WaitForStages, Cleanup, runnerVars
  <2>2. ServersLeft' = ServersLeft /\ TasksLeft' = TasksLeft
    BY <2>1 DEF ServersLeft, TasksLeft
  <2>3. PhasesLeft' \subseteq PhasesLeft /\ main \in PhasesLeft /\ main \notin PhasesLeft'
    BY <2>1 DEF PhasesLeft
  <2>4. QED
    BY <2>1, <2>2, <2>3 DEF Ahead, Before
<1>7. QED
  BY <1>3, <1>4, <1>5, <1>6 DEF Main

(* The goroutine of a client goes on.                                      *)
LEMMA ClientStrikesOff ==
  ASSUME TypeOK, Phases, Behind, NEW c \in Clients, Client(c)
  PROVE  OnlyStrikesOff /\ \A i \in Inputs : Ahead(i)' => Ahead(i)
<1>1. main = "clients"
  BY DEF Client, ClientHasLogs, SendInput, ClientFails, ClientSucceeds, Phases, Idle
<1>2. /\ UNCHANGED <<main, task, outputs, writing, position>> /\ collector' = collector
      /\ \/ client[c] = "running" /\ client'[c] \in {"sending", "returned"}
         \/ client[c] = "sending" /\ client'[c] = "sent"
         \/ client[c] = "sent" /\ client'[c] = "returned"
      /\ \A d \in Clients : d # c => client'[d] = client[d]
  BY DEF Client, ClientHasLogs, SendInput, ClientFails, ClientSucceeds, TypeOK, mainVars, outputVars,
         errorVars
<1>3. ServersLeft' = ServersLeft /\ TasksLeft' = TasksLeft /\ PhasesLeft' = PhasesLeft
  BY <1>2 DEF ServersLeft, TasksLeft, PhasesLeft
<1>4. /\ \A i \in Inputs : Ahead(i)' => Ahead(i)
      /\ \A i \in Inputs, s \in ClientSteps : Before(i, s)' => Before(i, s)
  BY <1>1, <1>2, InputParts DEF Ahead, Before
<1>5. ClientsLeft' \subseteq ClientsLeft /\ ClientsLeft' # ClientsLeft
  <2> DEFINE s == CASE client[c] = "running" -> "logs" [] client[c] = "sending" -> "send"
                    [] client[c] = "sent" -> "return"
  <2>1. <<task, c>> \in Inputs /\ s \in ClientSteps
    BY <1>2 DEF TypeOK, Inputs, ClientSteps
  <2>2. Before(<<task, c>>, s)
    BY <1>1, <1>2 DEF Before
  <2>3. ASSUME NEW i \in Inputs, i = <<task, c>>, NEW r, r = s PROVE ~Before(i, r)'
    BY <1>1, <1>2, <2>3, Bounds DEF Before, TypeOK, Tasks
  <2> HIDE DEF s
  <2>4. <<<<task, c>>, s>> \in ClientsLeft /\ <<<<task, c>>, s>> \notin ClientsLeft'
    BY <2>1, <2>2, <2>3 DEF ClientsLeft
  <2>5. QED
    BY <1>4, <2>4 DEF ClientsLeft
<1>6. CASE UNCHANGED <<parser, parsing>>
  BY <1>2, <1>3, <1>4, <1>5, <1>6, StagesStay DEF OnlyStrikesOff, AllLeft
<1>7. CASE SendInput(c)
  <2>1. /\ client[c] = "sending" /\ parser = "receive" /\ parser' = "parse" /\ parsing' = <<task, c>>
    BY <1>7 DEF SendInput
  <2>2. \A i \in Inputs : i = parsing' => Ahead(i)
    BY <1>1, <2>1 DEF Ahead
  <2>3. ParsesLeft' \subseteq ParsesLeft /\ EmitsLeft' \subseteq EmitsLeft
    BY <1>4, <2>2 DEF ParsesLeft, EmitsLeft
  <2>4. DosLeft' \subseteq DosLeft
    <3>1. \A i \in Inputs, k \in 1..Len(TestOutputs) : Undone(i, k)' => Undone(i, k)
      BY <1>2, <1>4, <2>2 DEF Undone
    <3>2. QED
      BY <3>1 DEF DosLeft
  <2>5. EndsLeft' = EndsLeft
    BY <1>2, <2>1 DEF EndsLeft
  <2>6. QED
    BY <1>3, <1>4, <1>5, <2>3, <2>4, <2>5 DEF OnlyStrikesOff, AllLeft
<1>8. QED
  BY <1>6, <1>7 DEF Client, ClientHasLogs, ClientFails, ClientSucceeds, parserVars

LEMMA ParserStrikesOff ==
  ASSUME TypeOK, Behind, Parser
  PROVE  OnlyStrikesOff /\ UNCHANGED <<main, task, client>>
<1>1. UNCHANGED <<main, task, client>>
  BY DEF Parser, ParseInput, EmitData, ParserReturns, ParserReports, mainVars, runnerVars
<1>2. /\ ServersLeft' = ServersLeft /\ TasksLeft' = TasksLeft
      /\ PhasesLeft' = PhasesLeft /\ ClientsLeft' = ClientsLeft
      /\ \A i \in Inputs : Ahead(i)' <=> Ahead(i)
  BY <1>1, RunnerStays
<1>3. SUFFICES /\ ParsesLeft' \subseteq ParsesLeft /\ EmitsLeft' \subseteq EmitsLeft
               /\ \A i \in Inputs, k \in 1..Len(TestOutputs) : Undone(i, k)' => Undone(i, k)
               /\ EndsLeft' \subseteq EndsLeft
               /\ ParsesLeft' # ParsesLeft \/ EmitsLeft' # EmitsLeft \/ EndsLeft' # EndsLeft
  <2>1. SUFFICES ASSUME \A i \in Inputs, k \in 1..Len(TestOutputs) : Undone(i, k)' => Undone(i, k)
                 PROVE  DosLeft' \subseteq DosLeft
    BY <1>1, <1>2, <1>3 DEF OnlyStrikesOff, AllLeft
  <2>2. QED
    BY <2>1 DEF DosLeft
<1>4. CASE ParseInput
  <2>1. /\ parser = "parse" /\ parser' \in {"emit", "error"}
        /\ UNCHANGED <<parsing, outputs, writing, position, collector>>
    BY <1>4 DEF ParseInput, outputVars, errorVars
  <2>2. /\ ParsesLeft' \subseteq ParsesLeft /\ EmitsLeft' \subseteq EmitsLeft /\ EndsLeft' \subseteq EndsLeft
        /\ \A i \in Inputs, k \in 1..Len(TestOutputs) : Undone(i, k)' => Undone(i, k)
    BY <1>2, <2>1 DEF ParsesLeft, EmitsLeft, EndsLeft, Undone
  <2>3. parsing \in ParsesLeft /\ parsing \notin ParsesLeft'
    BY <1>2, <2>1 DEF Behind, ParsesLeft
  <2>4. QED
    BY <2>2, <2>3
<1>5. CASE EmitData
  <2>1. /\ parser = "emit" /\ parser' = "receive" /\ outputs = "receive" /\ outputs' = "write"
        /\ writing' = parsing /\ position' = 1 /\ parsing' = NoInput /\ UNCHANGED collector
    BY <1>5 DEF EmitData, errorVars
  <2>2. ParsesLeft' \subseteq ParsesLeft /\ EmitsLeft' \subseteq EmitsLeft /\ EndsLeft' \subseteq EndsLeft
    BY <1>2, <2>1 DEF ParsesLeft, EmitsLeft, EndsLeft
  <2>3. \A i \in Inputs, k \in 1..Len(TestOutputs) : Undone(i, k)' => Undone(i, k)
    BY <1>2, <2>1 DEF Undone
  <2>4. parsing \in EmitsLeft /\ parsing \notin EmitsLeft'
    BY <1>2, <2>1 DEF Behind, EmitsLeft
  <2>5. QED
    BY <2>2, <2>3, <2>4
<1>6. CASE ParserReturns \/ ParserReports
  <2>1. /\ parser \in {"receive", "error"} /\ parser' = "returned"
        /\ UNCHANGED <<parsing, outputs, writing, position>>
        /\ collector' \in {collector, "returned"}
    BY <1>6 DEF ParserReturns, ParserReports, outputVars, errorVars
  <2>2. ParsesLeft' \subseteq ParsesLeft /\ EmitsLeft' \subseteq EmitsLeft /\ EndsLeft' \subseteq EndsLeft
    BY <1>2, <2>1 DEF ParsesLeft, EmitsLeft, EndsLeft
  <2>3. \A i \in Inputs, k \in 1..Len(TestOutputs) : Undone(i, k)' => Undone(i, k)
    BY <1>2, <2>1 DEF Undone
  <2>4. "parser" \in EndsLeft /\ "parser" \notin EndsLeft'
    BY <2>1 DEF EndsLeft
  <2>5. QED
    BY <2>2, <2>3, <2>4
<1>7. QED
  BY <1>4, <1>5, <1>6 DEF Parser

LEMMA OutputsStrikeOff ==
  ASSUME TypeOK, Behind, Outputs \/ CollectorReturns
  PROVE  OnlyStrikesOff /\ UNCHANGED <<main, task, client, parser, parsing>>
<1>1. UNCHANGED <<main, task, client, parser, parsing>>
  BY DEF Outputs, Do, DoFails, OutputsReturn, OutputsReport, CollectorReturns, mainVars, runnerVars,
         parserVars
<1>2. /\ ServersLeft' = ServersLeft /\ TasksLeft' = TasksLeft
      /\ PhasesLeft' = PhasesLeft /\ ClientsLeft' = ClientsLeft
      /\ \A i \in Inputs : Ahead(i)' <=> Ahead(i)
  BY <1>1, RunnerStays
<1>3. ParsesLeft' = ParsesLeft /\ EmitsLeft' = EmitsLeft
  BY <1>1, <1>2 DEF ParsesLeft, EmitsLeft
<1>4. SUFFICES /\ \A i \in Inputs, k \in 1..Len(TestOutputs) : Undone(i, k)' => Undone(i, k)
               /\ EndsLeft' \subseteq EndsLeft
               /\ DosLeft' # DosLeft \/ EndsLeft' # EndsLeft
  <2>1. SUFFICES ASSUME \A i \in Inputs, k \in 1..Len(TestOutputs) : Undone(i, k)' => Undone(i, k)
                 PROVE  DosLeft' \subseteq DosLeft
    BY <1>1, <1>2, <1>3, <1>4 DEF OnlyStrikesOff, AllLeft
  <2>2. QED
    BY <2>1 DEF DosLeft
<1>5. CASE Do
  <2>1. /\ outputs = "write" /\ UNCHANGED collector
        /\ \/ position' = position + 1 /\ UNCHANGED <<outputs, writing>>
           \/ outputs' = "receive"
    BY <1>5 DEF Do, errorVars
  <2>2. EndsLeft' = EndsLeft
    BY <1>1, <2>1 DEF EndsLeft
  <2>3. position \in Nat /\ position \in 1..Len(TestOutputs)
    BY Bounds DEF TypeOK
  <2>4. ASSUME NEW i \in Inputs, NEW k \in 1..Len(TestOutputs), Undone(i, k)' PROVE Undone(i, k)
    <3>1. k \in Nat
      BY Bounds
    <3>2. QED
      BY <1>1, <1>2, <2>1, <2>3, <2>4, <3>1 DEF Undone
  <2>5. writing \in Inputs /\ Undone(writing, position)
    BY <2>1, <2>3 DEF Behind, Undone
  <2>6. ASSUME NEW i \in Inputs, i = writing, NEW k \in 1..Len(TestOutputs), k = position
        PROVE  ~Undone(i, k)'
    <3>1. ~Ahead(i)' /\ ~(i = parsing /\ parser \in {"parse", "emit"})'
      BY <1>1, <1>2, <2>1, <2>6 DEF Behind
    <3>2. ~(i = writing /\ outputs = "write" /\ position <= k)'
      BY <2>1, <2>3, <2>6
    <3>3. QED
      BY <3>1, <3>2 DEF Undone
  <2>7. <<writing, position>> \in DosLeft /\ <<writing, position>> \notin DosLeft'
    BY <2>3, <2>5, <2>6 DEF DosLeft
  <2>8. QED
    BY <2>2, <2>4, <2>7
<1>6. CASE DoFails \/ OutputsReturn \/ OutputsReport
  <2>1. /\ UNCHANGED <<writing, position>> /\ collector' \in {collector, "returned"}
        /\ \/ outputs = "write" /\ outputs' = "error"
           \/ outputs \in {"receive", "error"} /\ outputs' = "returned"
    BY <1>6 DEF DoFails, OutputsReturn, OutputsReport, errorVars
  <2>2. \A i \in Inputs, k \in 1..Len(TestOutputs) : Undone(i, k)' => Undone(i, k)
    BY <1>1, <1>2, <2>1 DEF Undone
  <2>3. EndsLeft' \subseteq EndsLeft
    BY <1>1, <2>1 DEF EndsLeft
  <2>4. \/ "write" \in EndsLeft /\ "write" \notin EndsLeft'
        \/ "outputs" \in EndsLeft /\ "outputs" \notin EndsLeft'
    BY <2>1 DEF EndsLeft
  <2>5. QED
    BY <2>2, <2>3, <2>4
<1>7. CASE CollectorReturns
  <2>1. /\ UNCHANGED <<outputs, writing, position>> /\ collector = "select" /\ collector' = "returned"
    BY <1>7 DEF CollectorReturns, outputVars
  <2>2. \A i \in Inputs, k \in 1..Len(TestOutputs) : Undone(i, k)' => Undone(i, k)
    BY <1>1, <1>2, <2>1 DEF Undone
  <2>3. EndsLeft' \subseteq EndsLeft /\ "collector" \in EndsLeft /\ "collector" \notin EndsLeft'
    BY <1>1, <2>1 DEF EndsLeft
  <2>4. QED
    BY <2>2, <2>3
<1>8. QED
  BY <1>5, <1>6, <1>7 DEF Outputs

LEMMA BehindInductive ==
  ASSUME TypeOK, Phases, Position, Behind, [Next]_vars
  PROVE  Behind' /\ (OnlyStrikesOff \/ UNCHANGED vars)
<1>1. CASE Main
  <2>1. OnlyStrikesOff /\ \A i \in Inputs : Ahead(i)' => Ahead(i)
    BY <1>1, MainStrikesOff
  <2>2. UNCHANGED <<parser, parsing, outputs, writing>>
    BY <1>1 DEF Main, ServerUp, ServerFails, StartClient, EndTask, CloseIn, CheckForErrors,
           WaitForStages, Cleanup, parserVars, outputVars
  <2>3. QED
    BY <2>1, <2>2 DEF Behind
<1>2. ASSUME NEW c \in Clients, Client(c) PROVE Behind' /\ OnlyStrikesOff
  <2>1. OnlyStrikesOff /\ \A i \in Inputs : Ahead(i)' => Ahead(i)
    BY <1>2, ClientStrikesOff
  <2>2. UNCHANGED <<main, task, outputs, writing>>
    BY <1>2 DEF Client, ClientHasLogs, SendInput, ClientFails, ClientSucceeds, mainVars, outputVars
  <2>3. CASE UNCHANGED <<parser, parsing>>
    BY <2>1, <2>2, <2>3 DEF Behind
  <2>4. CASE SendInput(c)
    <3>1. client[c] = "sending" /\ client'[c] = "sent" /\ parser' = "parse" /\ parsing' = <<task, c>>
      BY <2>4 DEF SendInput, TypeOK
    <3>2. main = "clients"
      BY <3>1 DEF Phases, Idle
    <3>3. <<task, c>> \in Inputs /\ task \in Nat
      BY Bounds DEF TypeOK, Inputs, Tasks
    <3>4. Ahead(<<task, c>>)
      BY <3>1, <3>2 DEF Ahead
    <3>5. ASSUME NEW i \in Inputs, i = <<task, c>> PROVE ~Ahead(i)'
      BY <2>2, <3>1, <3>2, <3>3, <3>5 DEF Ahead
    <3>6. parsing' \in Inputs /\ ~Ahead(parsing)'
      <4>1. PICK i \in Inputs : i = <<task, c>>
        BY <3>3
      <4>2. ~Ahead(i)' /\ parsing' = i
        BY <3>1, <3>5, <4>1
      <4>3. QED
        BY <4>2 DEF Ahead
    <3>7. outputs' \in {"write", "error"} => writing' \in Inputs /\ ~Ahead(writing)' /\ writing' # parsing'
      BY <2>1, <2>2, <3>1, <3>4 DEF Behind
    <3>8. QED
      BY <2>1, <3>6, <3>7 DEF Behind
  <2>5. QED
    BY <1>2, <2>3, <2>4 DEF Client, ClientHasLogs, ClientFails, ClientSucceeds, parserVars
<1>3. CASE Parser
  <2>1. OnlyStrikesOff /\ UNCHANGED <<main, task, client>>
    BY <1>3, ParserStrikesOff
  <2>2. \A i \in Inputs : Ahead(i)' <=> Ahead(i)
    BY <2>1, RunnerStays
  <2>3. \/ parser \in {"parse", "error", "receive"} /\ parser' \in {"emit", "error", "returned"}
           /\ (parser' = "returned" \/ parser = "parse") /\ UNCHANGED <<parsing, outputs, writing>>
        \/ parser = "emit" /\ parser' = "receive" /\ writing' = parsing
    BY <1>3 DEF Parser, ParseInput, EmitData, ParserReturns, ParserReports, outputVars
  <2>4. QED
    BY <2>1, <2>2, <2>3 DEF Behind
<1>4. CASE Outputs \/ CollectorReturns
  <2>1. OnlyStrikesOff /\ UNCHANGED <<main, task, client, parser, parsing>>
    BY <1>4, OutputsStrikeOff
  <2>2. \A i \in Inputs : Ahead(i)' <=> Ahead(i)
    BY <2>1, RunnerStays
  <2>3. \/ outputs' \in {"receive", "returned"}
        \/ outputs \in {"write", "error"} /\ UNCHANGED writing
        \/ UNCHANGED <<outputs, writing>>
    BY <1>4 DEF Outputs, Do, DoFails, OutputsReturn, OutputsReport, CollectorReturns, outputVars
  <2>4. QED
    BY <2>1, <2>2, <2>3 DEF Behind
<1>5. CASE UNCHANGED vars
  <2>1. UNCHANGED <<main, task, client, parser, parsing, outputs, writing>>
    BY <1>5 DEF vars, mainVars, runnerVars, parserVars, outputVars
  <2>2. \A i \in Inputs : Ahead(i)' <=> Ahead(i)
    BY <2>1, RunnerStays
  <2>3. QED
    BY <1>5, <2>1, <2>2 DEF Behind
<1>6. QED
  BY <1>1, <1>2, <1>3, <1>4, <1>5 DEF Next, Terminated

(* Finitely much is left to do at the start, a step of any goroutine adds  *)
(* to none of it and strikes something off: whatever fails, whatever the   *)
(* order, a test takes finitely many steps.  There is no livelock.         *)
THEOREM TakesFinitelyManySteps == Spec => []FinitelyMuchLeft /\ [][OnlyStrikesOff]_vars
<1>1. Init => Behind
  BY DEF Init, Behind
<1>2. TypeOK /\ Phases /\ Position /\ Behind /\ [Next]_vars => Behind' /\ [OnlyStrikesOff]_vars
  BY BehindInductive
<1>3. QED
  BY <1>1, <1>2, AlwaysFinite, Typing, PhasesInvariant, PositionInvariant, PTL DEF Spec

(* A test that hangs in one of the known ways hangs for ever: no step of   *)
(* another goroutine, neither a late error nor the closing of a channel,   *)
(* gets it out again.                                                      *)
THEOREM HangsForEver == Spec => [][Hung => Hung']_vars
<1>1. ASSUME TypeOK, Phases, Position, Hung, Next PROVE Hung'
  <2>1. CASE Main
    <3>1. UNCHANGED <<parser, outputs, collector>>
      BY <2>1 DEF Main, ServerUp, ServerFails, StartClient, EndTask, CloseIn, CheckForErrors,
             WaitForStages, Cleanup, parserVars, outputVars, errorVars
    <3>2. ASSUME NEW c \in Clients, client[c] = "sending" PROVE client'[c] = "sending"
      <4>1. main = "clients"
        BY <1>1, <3>2 DEF Phases, Idle
      <4>2. \/ client' = client
            \/ spawned < NClients /\ client' = [client EXCEPT ![spawned + 1] = "running"]
        BY <2>1, <4>1 DEF Main, ServerUp, ServerFails, StartClient, EndTask, CloseIn, CheckForErrors,
               WaitForStages, Cleanup
      <4>3. QED
        <5>1. spawned < NClients => spawned + 1 \in Clients /\ ~(spawned + 1 <= spawned)
          BY <1>1, Bounds DEF TypeOK, Clients
        <5>2. spawned < NClients => client[spawned + 1] = "idle"
          BY <1>1, <4>1, <5>1 DEF Position
        <5>3. QED
          BY <1>1, <3>2, <4>2, <5>1, <5>2 DEF TypeOK
    <3>3. QED
      BY <1>1, <3>1, <3>2 DEF Hung
  <2>2. ASSUME NEW c \in Clients, Client(c) PROVE Hung'
    <3>1. /\ UNCHANGED <<outputs, collector>> /\ (parser' = parser \/ parser = "receive")
          /\ client[c] = "sending" => parser = "receive"
          /\ \A d \in Clients : d # c => client'[d] = client[d]
      BY <1>1, <2>2 DEF Client, ClientHasLogs, SendInput, ClientFails, ClientSucceeds, TypeOK, outputVars,
             errorVars, parserVars
    <3>2. QED
      BY <1>1, <3>1 DEF Hung
  <2>3. CASE Parser
    <3>1. /\ UNCHANGED client /\ collector' \in {collector, "returned"}
          /\ \/ parser = "parse" /\ parser' \in {"emit", "error"} /\ UNCHANGED <<outputs, collector>>
             \/ parser = "emit" /\ outputs = "receive"
             \/ parser = "receive" /\ parser' = "returned" /\ UNCHANGED <<outputs, collector>>
             \/ parser = "error" /\ parser' = "returned" /\ collector = "select" /\ UNCHANGED outputs
      BY <2>3 DEF Parser, ParseInput, EmitData, ParserReturns, ParserReports, runnerVars, outputVars,
             errorVars
    <3>2. QED
      BY <1>1, <3>1 DEF Hung
  <2>4. CASE Outputs \/ CollectorReturns
    <3>1. /\ UNCHANGED <<client, parser>> /\ collector' \in {collector, "returned"}
          /\ outputs \in {"error", "returned"} => outputs' \in {"error", "returned"}
          /\ outputs = "error" /\ collector = "returned" => outputs' = "error"
      <4>1. UNCHANGED <<client, parser>>
        BY <2>4 DEF Outputs, Do, DoFails, OutputsReturn, OutputsReport, CollectorReturns, runnerVars,
               parserVars
      <4>2. CASE Do \/ DoFails \/ OutputsReturn
        BY <4>1, <4>2 DEF Do, DoFails, OutputsReturn, errorVars
      <4>3. CASE OutputsReport \/ CollectorReturns
        BY <4>1, <4>3 DEF OutputsReport, CollectorReturns, outputVars
      <4>4. QED
        BY <2>4, <4>2, <4>3 DEF Outputs
    <3>2. QED
      BY <1>1, <3>1 DEF Hung
  <2>5. CASE UNCHANGED vars
    BY <1>1, <2>5 DEF vars, runnerVars, parserVars, outputVars, errorVars, Hung
  <2>6. QED
    BY <1>1, <2>1, <2>2, <2>3, <2>4, <2>5 DEF Next, Terminated
<1>2. QED
  BY <1>1, Typing, PhasesInvariant, PositionInvariant, PTL DEF Spec

\* The guards of the steps: some goroutine is not blocked.
CanStep ==
  \/ main \in {"server", "close", "check", "cleanup"}
  \/ main = "clients" /\ spawned = NClients /\ ClientsReturned
  \/ main = "clients" /\ spawned < NClients /\ (options.mode = "parallel" \/ ClientsReturned)
  \/ main = "wait" /\ parser = "returned" /\ outputs = "returned"
  \/ \E c \in Clients : client[c] \in {"running", "sent"} \/ (client[c] = "sending" /\ parser = "receive")
  \/ parser = "parse"
  \/ parser = "emit" /\ outputs = "receive"
  \/ parser = "receive" /\ "inCh" \in closed
  \/ outputs = "write"
  \/ outputs = "receive" /\ "dataCh" \in closed
  \/ (parser = "error" \/ outputs = "error") /\ collector = "select"

LEMMA ClosesInvariant == Spec => []Closes
<1>1. Init => Closes
  BY DEF Init, Closes
<1>2. ASSUME Closes, [Next]_vars PROVE Closes'
  <2>1. CASE Main
    BY <1>2, <2>1 DEF Main, ServerUp, ServerFails, StartClient, EndTask, AfterTask, CloseIn,
           CheckForErrors, WaitForStages, Cleanup, Closes, parserVars
  <2>2. ASSUME NEW c \in Clients, Client(c) PROVE Closes'
    BY <1>2, <2>2 DEF Client, ClientHasLogs, SendInput, ClientFails, ClientSucceeds, Closes, mainVars,
           parserVars
  <2>3. CASE Parser
    BY <1>2, <2>3 DEF Parser, ParseInput, EmitData, ParserReturns, ParserReports, Closes, mainVars
  <2>4. CASE Outputs \/ CollectorReturns \/ UNCHANGED vars
    BY <1>2, <2>4 DEF Outputs, Do, DoFails, OutputsReturn, OutputsReport, CollectorReturns, Closes, vars,
           mainVars, parserVars
  <2>5. QED
    BY <1>2, <2>1, <2>2, <2>3, <2>4 DEF Next, Terminated
<1>3. QED
  BY <1>1, <1>2, PTL DEF Spec

(* A test in which every goroutine is blocked has ended or hangs in one of *)
(* the three known ways: there is no other deadlock, for any plan, in any  *)
(* mode.  With the two theorems before, all that EndsOrHangs needs beyond  *)
(* is that a goroutine which is not blocked takes its step.                *)
THEOREM BlocksOnlyIfHung == Spec => [](Ended \/ Hung \/ CanStep)
<1>1. ASSUME TypeOK, Closes, ~Ended, ~Hung PROVE CanStep
  <2>1. parser = "emit" => CanStep
    BY <1>1 DEF TypeOK, Hung, CanStep
  <2>2. parser = "error" \/ outputs = "error" => CanStep
    BY <1>1 DEF TypeOK, Hung, CanStep
  <2>3. parser = "parse" \/ outputs = "write" => CanStep
    BY DEF CanStep
  <2>4. CASE main = "clients"
    <3>1. CASE ClientsReturned
      <4>1. spawned = NClients \/ spawned < NClients
        BY <1>1, Bounds DEF TypeOK
      <4>2. QED
        BY <2>4, <3>1, <4>1 DEF CanStep
    <3>2. CASE ~ClientsReturned
      <4>1. PICK c \in Clients : client[c] \in {"running", "sending", "sent"}
        BY <1>1, <3>2 DEF TypeOK, ClientsReturned
      <4>2. CASE client[c] = "sending"
        <5>1. parser \notin {"error", "returned"}
          BY <1>1, <4>2 DEF Hung
        <5>2. parser = "receive" => CanStep
          BY <4>2 DEF CanStep
        <5>3. QED
          BY <1>1, <2>1, <2>3, <5>1, <5>2 DEF TypeOK
      <4>3. CASE client[c] # "sending"
        BY <4>1, <4>3 DEF CanStep
      <4>4. QED
        BY <4>2, <4>3
    <3>3. QED
      BY <3>1, <3>2
  <2>5. CASE main = "wait"
    <3>1. "inCh" \in closed
      BY <1>1, <2>5 DEF Closes
    <3>2. parser = "receive" => CanStep
      BY <3>1 DEF CanStep
    <3>3. CASE parser = "returned"
      <4>1. "dataCh" \in closed
        BY <1>1, <3>3 DEF Closes
      <4>2. outputs \in {"receive", "returned"} => CanStep
        BY <2>5, <3>3, <4>1 DEF CanStep
      <4>3. QED
        BY <1>1, <2>2, <2>3, <4>2 DEF TypeOK
    <3>4. QED
      BY <1>1, <2>1, <2>2, <2>3, <3>2, <3>3 DEF TypeOK
  <2>6. CASE main \notin {"clients", "wait"}
    BY <1>1, <2>6 DEF TypeOK, Ended, CanStep
  <2>7. QED
    BY <2>4, <2>5, <2>6
<1>2. QED
  BY <1>1, Typing, ClosesInvariant, PTL
=============================================================================
