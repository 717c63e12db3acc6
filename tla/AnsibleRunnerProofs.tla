------------------------- MODULE AnsibleRunnerProofs -------------------------
(***************************************************************************)
(* Proofs about AnsibleRunner for every number of tasks, clients and       *)
(* retries, both modes and every set of faults: what was started for a     *)
(* main task has ended before the next one, a server that was stopped is   *)
(* no failure, and run() can rely on the verdicts of Execute.              *)
(***************************************************************************)
EXTENDS AnsibleRunner, AnsibleHosts, FiniteSetTheorems, TLAPS

\* A main task is under way, from the start of its server to the end of it.
Running == main \in {"check", "clients", "cancel", "wait"}

(***************************************************************************)
(* What the main goroutine has waited for, and that it sets mainTaskStopped *)
(* before it kills the server.                                             *)
(***************************************************************************)
Phases ==
  /\ main \in {"template", "returned"} => server = "returned"
  /\ main \in {"template", "check", "cancel", "wait", "returned"} => ClientsReturned
  /\ main \in {"cancel", "wait"} => stopped /\ spawned = NClients
  /\ main \in {"check", "clients"} => server # "killed"
  /\ main = "wait" => server # "running"
  /\ server = "killed" => stopped
  /\ server \in {"failed", "record"} => task \in trouble
  /\ main = "returned" => task = NTasks

(***************************************************************************)
(* The clients of a task are started in order, in sequential mode one      *)
(* after the other.                                                        *)
(***************************************************************************)
Started ==
  Running =>
    /\ \A c \in Clients : client[c] = "idle" <=> c > spawned
    /\ mode = "sequential" =>
         \A c \in Clients : client[c] \notin {"idle", "returned"} => c = spawned

(***************************************************************************)
(* The verdict on a client follows where its goroutine is, whether or not  *)
(* it was recorded.                                                        *)
(***************************************************************************)
Oks   == okClients \union lostOks
Fails == failedClients \union lostFails

VerdictSoFar(c) ==
  LET i == <<task, c>> IN
  /\ client[c] \in {"idle", "command", "ok", "fail"} => i \notin Oks \union Fails \union sent
  /\ client[c] = "send" => i \in Oks /\ i \notin Fails \union sent
  /\ client[c] = "returned" => i \in sent \union Fails

Recorded ==
  /\ Running => \A c \in Clients : VerdictSoFar(c)
  /\ \A i \in Oks \union Fails \union sent :
       i[1] <= task /\ (main = "template" => i[1] < task)
  /\ main \in {"cancel", "wait"} => task \in okServers

Done == IF ExecuteReturned THEN Tasks ELSE 1..(task - 1)

(***************************************************************************)
(* Nobody has failed and reached the parser, and the tasks that are done   *)
(* have all their verdicts.                                                *)
(***************************************************************************)
Decided ==
  /\ Oks \intersect Fails = {} /\ sent \subseteq Oks
  /\ \A t \in Done : t \in okServers
  /\ \A i \in Done \X Clients : i \in sent \union Fails

(***************************************************************************)
(* A write is only lost to that of another client.  Of the clients of a    *)
(* task that fail the last one is recorded.                                *)
(***************************************************************************)
Losses ==
  /\ mode = "sequential" => lostFails = {} /\ lostOks = {}
  /\ \A i \in lostFails :
       \/ \E f \in failedClients : f[1] = i[1]
       \/ /\ main \in {"clients", "crashed"} /\ i[1] = task
          /\ \E d \in Clients : client[d] = "fail"

IInv == TypeOK /\ Phases /\ Started /\ Recorded /\ StopIsNoFailure /\ Decided /\ Losses

LEMMA Sizes == NTasks \in Nat /\ NTasks >= 1 /\ NClients \in Nat /\ Retries \in Nat
BY AnsibleAssumption

LEMMA StartsTyped == Init => TypeOK
<1> SUFFICES ASSUME Init PROVE TypeOK
  OBVIOUS
<1>1. task \in Tasks /\ spawned \in 0..NClients /\ checks \in 0..(Retries + 1)
  BY Sizes DEF Init, Tasks
<1>2. QED
  BY <1>1 DEF Init, TypeOK

\* The types are inductive by themselves.
LEMMA TypingStep ==
  TypeOK /\ [Next]_vars => TypeOK'
<1> SUFFICES ASSUME TypeOK, [Next]_vars
             PROVE  TypeOK'
  OBVIOUS
<1> USE Sizes
    DEF TypeOK, Tasks, Clients, Inputs,
        vars, mainVars, clientVars, lostVars, statusVars
<1>1. CASE StartServer
  <2>1. spawned' \in 0..NClients /\ checks' \in 0..(Retries + 1)
    BY <1>1 DEF StartServer
  <2>2. client' \in [Clients -> {"idle", "command", "ok", "fail", "send", "returned"}]
    BY <1>1 DEF StartServer
  <2>3. QED
    BY <1>1, <2>1, <2>2 DEF StartServer
<1>2. CASE TemplateFails
  BY <1>2 DEF TemplateFails, GiveUpTask
<1>3. CASE ServerFound
  BY <1>3 DEF ServerFound
<1>4. CASE ServerNotFound
  BY <1>4 DEF ServerNotFound
<1>5. CASE NotReady
  BY <1>5 DEF NotReady, GiveUpTask
<1>6. CASE StartClient
  BY <1>6 DEF StartClient
<1>7. CASE MarkStopped
  BY <1>7 DEF MarkStopped
<1>8. CASE Cancel
  BY <1>8 DEF Cancel
<1>9. CASE EndTask
  BY <1>9 DEF EndTask
<1>10. CASE ServerEnds
  BY <1>10 DEF ServerEnds
<1>11. CASE ServerErrorIgnored
  BY <1>11 DEF ServerErrorIgnored
<1>12. CASE ServerErrorCounts
  BY <1>12 DEF ServerErrorCounts
<1>13. CASE RecordServer
  BY <1>13 DEF RecordServer
<1>14. ASSUME NEW c \in Clients, CommandEnds(c) PROVE TypeOK'
  BY <1>14 DEF CommandEnds, ClientGoes
<1>15. ASSUME NEW c \in Clients, RecordFailure(c) PROVE TypeOK'
  BY <1>15 DEF RecordFailure, ClientGoes
<1>16. ASSUME NEW c \in Clients, RecordSuccess(c) PROVE TypeOK'
  BY <1>16 DEF RecordSuccess, ClientGoes
<1>17. ASSUME NEW c \in Clients, SendOutput(c) PROVE TypeOK'
  BY <1>17 DEF SendOutput, ClientGoes
<1>18. CASE MapRace \/ ParserStops
  BY <1>18 DEF MapRace, ParserStops
<1>19. CASE UNCHANGED vars
  BY <1>19
<1>20. QED
  BY <1>1, <1>2, <1>3, <1>4, <1>5, <1>6, <1>7, <1>8, <1>9, <1>10,
     <1>11, <1>12, <1>13, <1>14, <1>15, <1>16, <1>17, <1>18, <1>19
     DEF Next, Main, Server, Client, Terminated

\* Every wait of the main goroutine is kept until its next step.
LEMMA PhasesStep ==
  TypeOK /\ Phases /\ [Next]_vars => Phases'
<1> SUFFICES ASSUME TypeOK /\ Phases, [Next]_vars
             PROVE  Phases'
  OBVIOUS
<1> USE Sizes
    DEF TypeOK, Tasks, Phases, ClientsReturned, Alive,
        vars, mainVars, clientVars, lostVars, statusVars
<1>1. CASE StartServer
  BY <1>1 DEF StartServer
<1>2. CASE TemplateFails
  BY <1>2 DEF TemplateFails, GiveUpTask
<1>3. CASE ServerFound
  BY <1>3 DEF ServerFound
<1>4. CASE ServerNotFound
  BY <1>4 DEF ServerNotFound
<1>5. CASE NotReady
  BY <1>5 DEF NotReady, GiveUpTask
<1>6. CASE StartClient
  BY <1>6 DEF StartClient
<1>7. CASE MarkStopped
  BY <1>7 DEF MarkStopped
<1>8. CASE Cancel
  BY <1>8 DEF Cancel
<1>9. CASE EndTask
  BY <1>9 DEF EndTask
<1>10. CASE ServerEnds
  BY <1>10 DEF ServerEnds
<1>11. CASE ServerErrorIgnored
  BY <1>11 DEF ServerErrorIgnored
<1>12. CASE ServerErrorCounts
  BY <1>12 DEF ServerErrorCounts
<1>13. CASE RecordServer
  BY <1>13 DEF RecordServer
<1>14. ASSUME NEW c \in Clients, CommandEnds(c) PROVE Phases'
  BY <1>14 DEF CommandEnds, ClientGoes
<1>15. ASSUME NEW c \in Clients, RecordFailure(c) PROVE Phases'
  BY <1>15 DEF RecordFailure, ClientGoes
<1>16. ASSUME NEW c \in Clients, RecordSuccess(c) PROVE Phases'
  BY <1>16 DEF RecordSuccess, ClientGoes
<1>17. ASSUME NEW c \in Clients, SendOutput(c) PROVE Phases'
  BY <1>17 DEF SendOutput, ClientGoes
<1>18. CASE MapRace \/ ParserStops
  BY <1>18 DEF MapRace, ParserStops
<1>19. CASE UNCHANGED vars
  BY <1>19
<1>20. QED
  BY <1>1, <1>2, <1>3, <1>4, <1>5, <1>6, <1>7, <1>8, <1>9, <1>10,
     <1>11, <1>12, <1>13, <1>14, <1>15, <1>16, <1>17, <1>18, <1>19
     DEF Next, Main, Server, Client, Terminated

\* A client is started after the one before it, which in sequential mode has returned.
LEMMA StartedStep ==
  TypeOK /\ Phases /\ Started /\ [Next]_vars => Started'
<1> SUFFICES ASSUME TypeOK /\ Phases /\ Started, [Next]_vars
             PROVE  Started'
  OBVIOUS
<1> USE Sizes
    DEF TypeOK, Clients, Phases, Started, Running, ClientsReturned, Alive,
        vars, mainVars, clientVars, lostVars, statusVars
<1>1. CASE StartServer
  BY <1>1 DEF StartServer
<1>2. CASE TemplateFails
  BY <1>2 DEF TemplateFails, GiveUpTask
<1>3. CASE ServerFound
  BY <1>3 DEF ServerFound
<1>4. CASE ServerNotFound
  BY <1>4 DEF ServerNotFound
<1>5. CASE NotReady
  BY <1>5 DEF NotReady, GiveUpTask
<1>6. CASE StartClient
  BY <1>6 DEF StartClient
<1>7. CASE MarkStopped
  BY <1>7 DEF MarkStopped
<1>8. CASE Cancel
  BY <1>8 DEF Cancel
<1>9. CASE EndTask
  BY <1>9 DEF EndTask
<1>10. CASE ServerEnds
  BY <1>10 DEF ServerEnds
<1>11. CASE ServerErrorIgnored
  BY <1>11 DEF ServerErrorIgnored
<1>12. CASE ServerErrorCounts
  BY <1>12 DEF ServerErrorCounts
<1>13. CASE RecordServer
  BY <1>13 DEF RecordServer
<1>14. ASSUME NEW c \in Clients, CommandEnds(c) PROVE Started'
  BY <1>14 DEF CommandEnds, ClientGoes
<1>15. ASSUME NEW c \in Clients, RecordFailure(c) PROVE Started'
  BY <1>15 DEF RecordFailure, ClientGoes
<1>16. ASSUME NEW c \in Clients, RecordSuccess(c) PROVE Started'
  BY <1>16 DEF RecordSuccess, ClientGoes
<1>17. ASSUME NEW c \in Clients, SendOutput(c) PROVE Started'
  BY <1>17 DEF SendOutput, ClientGoes
<1>18. CASE MapRace \/ ParserStops
  BY <1>18 DEF MapRace, ParserStops
<1>19. CASE UNCHANGED vars
  BY <1>19
<1>20. QED
  BY <1>1, <1>2, <1>3, <1>4, <1>5, <1>6, <1>7, <1>8, <1>9, <1>10,
     <1>11, <1>12, <1>13, <1>14, <1>15, <1>16, <1>17, <1>18, <1>19
     DEF Next, Main, Server, Client, Terminated

\* Only the goroutine of a client passes a verdict on it, and only once.
LEMMA RecordedStep ==
  TypeOK /\ Phases /\ Started /\ Recorded /\ [Next]_vars => Recorded'
<1> SUFFICES ASSUME TypeOK /\ Phases /\ Started /\ Recorded, [Next]_vars
             PROVE  Recorded'
  OBVIOUS
<1> USE Sizes
    DEF TypeOK, Tasks, Clients, Inputs, Phases, Started, Recorded, VerdictSoFar, Oks, Fails, Running,
        ClientsReturned, Alive,
        vars, mainVars, clientVars, lostVars, statusVars
<1>1. CASE StartServer
  BY <1>1 DEF StartServer
<1>2. CASE TemplateFails
  BY <1>2 DEF TemplateFails, GiveUpTask
<1>3. CASE ServerFound
  BY <1>3 DEF ServerFound
<1>4. CASE ServerNotFound
  BY <1>4 DEF ServerNotFound
<1>5. CASE NotReady
  BY <1>5 DEF NotReady, GiveUpTask
<1>6. CASE StartClient
  BY <1>6 DEF StartClient
<1>7. CASE MarkStopped
  BY <1>7 DEF MarkStopped
<1>8. CASE Cancel
  BY <1>8 DEF Cancel
<1>9. CASE EndTask
  BY <1>9 DEF EndTask
<1>10. CASE ServerEnds
  BY <1>10 DEF ServerEnds
<1>11. CASE ServerErrorIgnored
  BY <1>11 DEF ServerErrorIgnored
<1>12. CASE ServerErrorCounts
  BY <1>12 DEF ServerErrorCounts
<1>13. CASE RecordServer
  BY <1>13 DEF RecordServer
<1>14. ASSUME NEW c \in Clients, CommandEnds(c) PROVE Recorded'
  BY <1>14 DEF CommandEnds, ClientGoes
<1>15. ASSUME NEW c \in Clients, RecordFailure(c) PROVE Recorded'
  BY <1>15 DEF RecordFailure, ClientGoes
<1>16. ASSUME NEW c \in Clients, RecordSuccess(c) PROVE Recorded'
  BY <1>16 DEF RecordSuccess, ClientGoes
<1>17. ASSUME NEW c \in Clients, SendOutput(c) PROVE Recorded'
  BY <1>17 DEF SendOutput, ClientGoes
<1>18. CASE MapRace \/ ParserStops
  BY <1>18 DEF MapRace, ParserStops
<1>19. CASE UNCHANGED vars
  BY <1>19
<1>20. QED
  BY <1>1, <1>2, <1>3, <1>4, <1>5, <1>6, <1>7, <1>8, <1>9, <1>10,
     <1>11, <1>12, <1>13, <1>14, <1>15, <1>16, <1>17, <1>18, <1>19
     DEF Next, Main, Server, Client, Terminated

\* A server is counted only while it had trouble in the present task.
LEMMA StopStep ==
  TypeOK /\ Phases /\ StopIsNoFailure /\ [Next]_vars => StopIsNoFailure'
<1> SUFFICES ASSUME TypeOK /\ Phases /\ StopIsNoFailure, [Next]_vars
             PROVE  StopIsNoFailure'
  OBVIOUS
<1> USE Sizes
    DEF TypeOK, Phases, StopIsNoFailure, Alive,
        vars, mainVars, clientVars, lostVars, statusVars
<1>1. CASE StartServer
  BY <1>1 DEF StartServer
<1>2. CASE TemplateFails
  BY <1>2 DEF TemplateFails, GiveUpTask
<1>3. CASE ServerFound
  BY <1>3 DEF ServerFound
<1>4. CASE ServerNotFound
  BY <1>4 DEF ServerNotFound
<1>5. CASE NotReady
  BY <1>5 DEF NotReady, GiveUpTask
<1>6. CASE StartClient
  BY <1>6 DEF StartClient
<1>7. CASE MarkStopped
  BY <1>7 DEF MarkStopped
<1>8. CASE Cancel
  BY <1>8 DEF Cancel
<1>9. CASE EndTask
  BY <1>9 DEF EndTask
<1>10. CASE ServerEnds
  BY <1>10 DEF ServerEnds
<1>11. CASE ServerErrorIgnored
  BY <1>11 DEF ServerErrorIgnored
<1>12. CASE ServerErrorCounts
  BY <1>12 DEF ServerErrorCounts
<1>13. CASE RecordServer
  BY <1>13 DEF RecordServer
<1>14. ASSUME NEW c \in Clients, CommandEnds(c) PROVE StopIsNoFailure'
  BY <1>14 DEF CommandEnds, ClientGoes
<1>15. ASSUME NEW c \in Clients, RecordFailure(c) PROVE StopIsNoFailure'
  BY <1>15 DEF RecordFailure, ClientGoes
<1>16. ASSUME NEW c \in Clients, RecordSuccess(c) PROVE StopIsNoFailure'
  BY <1>16 DEF RecordSuccess, ClientGoes
<1>17. ASSUME NEW c \in Clients, SendOutput(c) PROVE StopIsNoFailure'
  BY <1>17 DEF SendOutput, ClientGoes
<1>18. CASE MapRace \/ ParserStops
  BY <1>18 DEF MapRace, ParserStops
<1>19. CASE UNCHANGED vars
  BY <1>19
<1>20. QED
  BY <1>1, <1>2, <1>3, <1>4, <1>5, <1>6, <1>7, <1>8, <1>9, <1>10,
     <1>11, <1>12, <1>13, <1>14, <1>15, <1>16, <1>17, <1>18, <1>19
     DEF Next, Main, Server, Client, Terminated

\* The main goroutine moves on when every client of the task has its verdict.
LEMMA DecidedStep ==
  TypeOK /\ Phases /\ Started /\ Recorded /\ Decided /\ [Next]_vars => Decided'
<1> SUFFICES ASSUME TypeOK /\ Phases /\ Started /\ Recorded /\ Decided, [Next]_vars
             PROVE  Decided'
  OBVIOUS
<1> USE Sizes DEF TypeOK, Tasks, Clients, Inputs, Phases, ClientsReturned, Alive
<1>1. ASSUME UNCHANGED <<okServers, sent, Oks, Fails>>, Done' = Done PROVE Decided'
  BY <1>1 DEF Decided
<1>2. CASE Main /\ ~EndTask /\ ~MarkStopped
  <2>1. UNCHANGED <<okServers, sent, Oks, Fails, task>> /\ main # "returned" /\ main' # "returned"
    BY <1>2 DEF Main, StartServer, TemplateFails, GiveUpTask, ServerFound, ServerNotFound, NotReady,
           StartClient, Cancel, Oks, Fails, clientVars, lostVars, statusVars
  <2>2. QED
    BY <1>1, <2>1 DEF Done, ExecuteReturned
<1>3. CASE MarkStopped
  <2>1. /\ UNCHANGED <<sent, Oks, Fails, task>> /\ main # "returned" /\ main' # "returned"
        /\ okServers \subseteq okServers'
    BY <1>3 DEF MarkStopped, Oks, Fails, clientVars, lostVars
  <2>2. QED
    BY <2>1 DEF Decided, Done, ExecuteReturned
<1>4. CASE EndTask
  <2>1. /\ main = "wait" /\ UNCHANGED <<okServers, sent, Oks, Fails, client>>
        /\ main' = (IF task < NTasks THEN "template" ELSE "returned")
        /\ task' = (IF task < NTasks THEN task + 1 ELSE task)
    BY <1>4 DEF EndTask, Oks, Fails, clientVars, lostVars, statusVars
  <2>2. Done' = Done \union {task} /\ Done = 1..(task - 1)
    BY <2>1 DEF Done, ExecuteReturned
  <2>3. \A c \in Clients : <<task, c>> \in sent \union Fails
    <3>1. \A c \in Clients : client[c] = "returned"
      BY <2>1 DEF Started, Running
    <3>2. QED
      BY <2>1, <3>1 DEF Recorded, Running, VerdictSoFar
  <2>4. task \in okServers
    BY <2>1 DEF Recorded
  <2>5. \A i \in Done' \X Clients : i \in sent \union Fails
    <3>1. \A i \in Done' \X Clients : i \in Done \X Clients \/ \E c \in Clients : i = <<task, c>>
      BY <2>2
    <3>2. QED
      BY <2>3, <3>1 DEF Decided
  <2>6. QED
    BY <2>1, <2>2, <2>4, <2>5 DEF Decided
<1>5. CASE Server \/ MapRace \/ ParserStops \/ UNCHANGED vars
  <2>1. /\ UNCHANGED <<okServers, sent, Oks, Fails, task>>
        /\ main' = main \/ (main # "returned" /\ main' # "returned")
    BY <1>5 DEF Server, ServerEnds, ServerErrorIgnored, ServerErrorCounts, RecordServer, MapRace, ParserStops,
           Oks, Fails, Racing, vars, mainVars, clientVars, lostVars, statusVars
  <2>2. QED
    BY <1>1, <2>1 DEF Done, ExecuteReturned
<1>6. ASSUME NEW c \in Clients, Client(c) PROVE Decided'
  <2>1. /\ UNCHANGED <<okServers, task, main>> /\ Alive
        /\ client[c] \in {"command", "ok", "fail", "send"}
    BY <1>6 DEF Client, CommandEnds, RecordFailure, RecordSuccess, SendOutput, ClientGoes, mainVars
  <2>2. Running /\ Done' = Done
    BY <2>1 DEF Running, Done, ExecuteReturned
  <2>3. PICK i : i = <<task, c>>
    OBVIOUS
  <2>4. VerdictSoFar(c)
    BY <2>2 DEF Recorded
  <2>5. \/ UNCHANGED <<sent, Oks, Fails>>
        \/ client[c] = "fail" /\ Fails' = Fails \union {i} /\ UNCHANGED <<sent, Oks>>
        \/ client[c] = "ok" /\ Oks' = Oks \union {i} /\ UNCHANGED <<sent, Fails>>
        \/ client[c] = "send" /\ sent' = sent \union {i} /\ UNCHANGED <<Oks, Fails>>
    BY <1>6, <2>3 DEF Client, CommandEnds, RecordFailure, RecordSuccess, SendOutput, ClientGoes,
           Oks, Fails, lostVars
  <2>6. QED
    BY <2>1, <2>2, <2>3, <2>4, <2>5 DEF Decided, VerdictSoFar
<1>7. QED
  BY <1>2, <1>3, <1>4, <1>5, <1>6 DEF Next, Terminated

\* In sequential mode no other goroutine is in a map.  Where a failure is lost another
\* goroutine is about to record one, and is not gone before it has.
LEMMA LossesStep ==
  TypeOK /\ Phases /\ Started /\ Losses /\ [Next]_vars => Losses'
<1> SUFFICES ASSUME TypeOK /\ Phases /\ Started /\ Losses, [Next]_vars
             PROVE  Losses'
  OBVIOUS
<1>1. ASSUME UNCHANGED <<mode, task, failedClients, lostFails, lostOks>>, main' = main \/ main' = "crashed",
             \A d \in Clients : client[d] = "fail" => client'[d] = "fail"
      PROVE  Losses'
  BY <1>1 DEF Losses
\* Once the goroutines have returned every failure of the task is known.
<1>2. ASSUME UNCHANGED <<mode, failedClients, lostFails, lostOks>>, main # "crashed", ClientsReturned
      PROVE  Losses'
  BY <1>2 DEF Losses, ClientsReturned
<1>3. CASE Main /\ ~StartClient
  <2>1. UNCHANGED <<mode, failedClients, lostFails, lostOks>>
    BY <1>3 DEF Main, StartServer, TemplateFails, GiveUpTask, ServerFound, ServerNotFound, NotReady,
           MarkStopped, Cancel, EndTask, lostVars, statusVars
  <2>2. main # "crashed" /\ ClientsReturned
    BY <1>3 DEF Main, StartServer, TemplateFails, GiveUpTask, ServerFound, ServerNotFound, NotReady,
           MarkStopped, Cancel, EndTask, Phases
  <2>3. QED
    BY <1>2, <2>1, <2>2
<1>4. CASE StartClient
  <2>1. /\ main = "clients" /\ client[spawned + 1] = "idle" /\ spawned + 1 \in Clients
        /\ client' = [client EXCEPT ![spawned + 1] = "command"]
        /\ UNCHANGED <<main, task, mode, failedClients, lostFails, lostOks>>
    BY <1>4, Sizes DEF StartClient, Started, Running, TypeOK, Clients, lostVars, statusVars
  <2>2. \A d \in Clients : client[d] = "fail" => client'[d] = "fail"
    BY <2>1 DEF TypeOK
  <2>3. QED
    BY <1>1, <2>1, <2>2
<1>5. ASSUME NEW c \in Clients, CommandEnds(c) \/ SendOutput(c) \/ RecordSuccess(c)
      PROVE  Losses'
  <2>1. /\ client[c] # "fail" /\ UNCHANGED <<mode, main, task, failedClients, lostFails>>
        /\ \A d \in Clients : d # c => client'[d] = client[d]
        /\ lostOks' = lostOks \/ (client[c] = "ok" /\ Racing(c))
    BY <1>5 DEF CommandEnds, SendOutput, RecordSuccess, ClientGoes, mainVars, lostVars, TypeOK
  <2>2. Running
    BY <1>5 DEF CommandEnds, SendOutput, RecordSuccess, ClientGoes, Alive, Phases, ClientsReturned, Running,
           TypeOK
  <2>3. client[c] = "ok" /\ Racing(c) => mode # "sequential"
    BY <2>2 DEF Racing, Started
  <2>4. QED
    BY <2>1, <2>3 DEF Losses
<1>6. ASSUME NEW c \in Clients, RecordFailure(c) PROVE Losses'
  <2>1. /\ client[c] = "fail" /\ UNCHANGED <<mode, main, task, lostOks>> /\ Alive
        /\ \A d \in Clients \ {c} : client'[d] = client[d]
    BY <1>6 DEF RecordFailure, ClientGoes, mainVars, TypeOK
  <2>2. main = "clients"
    BY <2>1 DEF Alive, Phases, ClientsReturned, TypeOK
  <2>3. Racing(c) => mode = "parallel"
    BY <2>1, <2>2 DEF Racing, Started, Running, TypeOK
  <2>4. CASE failedClients' = failedClients \union {<<task, c>>} /\ lostFails' = lostFails
    <3>1. <<task, c>> \in failedClients' /\ <<task, c>>[1] = task
      BY <2>4
    <3>2. \A i \in lostFails : \E f \in failedClients' : f[1] = i[1]
      BY <2>4, <3>1 DEF Losses
    <3>3. QED
      BY <2>1, <2>4, <3>2 DEF Losses
  <2>5. CASE Racing(c) /\ lostFails' = lostFails \union {<<task, c>>} /\ UNCHANGED failedClients
    <3>1. PICK d \in Clients \ {c} : client[d] = "fail"
      BY <2>1, <2>5 DEF Racing
    <3>2. client'[d] = "fail"
      BY <2>1, <3>1
    <3>3. ASSUME NEW i \in lostFails'
          PROVE  (\E f \in failedClients' : f[1] = i[1]) \/ i[1] = task
      BY <2>5 DEF Losses
    <3>4. QED
      BY <2>1, <2>2, <2>3, <2>5, <3>2, <3>3 DEF Losses
  <2>6. QED
    BY <1>6, <2>4, <2>5 DEF RecordFailure
<1>7. CASE Server \/ MapRace \/ ParserStops \/ UNCHANGED vars
  BY <1>1, <1>7 DEF Server, ServerEnds, ServerErrorIgnored, ServerErrorCounts, RecordServer, MapRace, ParserStops,
         vars, mainVars, clientVars, lostVars, statusVars
<1>8. QED
  BY <1>3, <1>4, <1>5, <1>6, <1>7 DEF Next, Terminated, Client

\* Nothing has been started or recorded.
LEMMA StartsSafe ==
  Init => Phases /\ Started /\ Recorded /\ StopIsNoFailure /\ Decided /\ Losses
BY Sizes DEF Init, Phases, ClientsReturned, Started, Running, Recorded, Oks, Fails, StopIsNoFailure,
             Decided, Done, Losses, ExecuteReturned, Tasks, Clients

(***************************************************************************)
(* Every variable keeps its type.                                          *)
(***************************************************************************)
THEOREM Typing == Spec => []TypeOK
BY StartsTyped, TypingStep, PTL DEF Spec

\* The inductive invariant of Execute.
LEMMA AlwaysIInv == Spec => []IInv
<1>1. Init => IInv
  BY StartsTyped, StartsSafe DEF IInv
<1>2. IInv /\ [Next]_vars => IInv'
  BY TypingStep, PhasesStep, StartedStep, RecordedStep, StopStep, DecidedStep, LossesStep DEF IInv
<1>3. QED
  BY <1>1, <1>2, PTL DEF Spec

(***************************************************************************)
(* When Execute goes on to another task, or returns, the server and the    *)
(* clients of the last one have ended: no goroutine is left to write the   *)
(* Status of a task that is not its own.                                   *)
(***************************************************************************)
THEOREM NoStragglers == Spec => []NoStraggler
<1>1. IInv => NoStraggler
  BY DEF IInv, Phases, NoStraggler
<1>2. QED
  BY <1>1, AlwaysIInv, PTL

(***************************************************************************)
(* The error of a server that was cancelled is never counted: the goroutine *)
(* of the server reads mainTaskStopped after the kill, which comes after   *)
(* the flag was set.                                                       *)
(***************************************************************************)
THEOREM StopsAreNoFailures == Spec => []StopIsNoFailure
<1>1. IInv => StopIsNoFailure
  BY DEF IInv
<1>2. QED
  BY <1>1, AlwaysIInv, PTL

(***************************************************************************)
(* When Execute moves on from a task, its server counts as successful and  *)
(* each of its clients has failed or reached the parser, never both.       *)
(* Concurrent writes may lose a verdict in parallel mode, but never the    *)
(* last failure of a task: checkForErrors notices it.                      *)
(***************************************************************************)
THEOREM KeepsVerdicts == Spec => []Verdicts
<1>1. IInv => Verdicts
  <2> SUFFICES ASSUME IInv PROVE Verdicts
    OBVIOUS
  <2>1. ASSUME NEW i \in lostFails, i[1] \in Done
        PROVE  \E f \in failedClients : f[1] = i[1]
    <3>1. (main # "clients" /\ main # "crashed") \/ i[1] # task
      BY <2>1, Sizes DEF Done, ExecuteReturned, IInv, TypeOK, Tasks
    <3>2. QED
      BY <3>1 DEF IInv, Losses
  <2>2. QED
    BY <2>1 DEF IInv, Decided, Done, Oks, Fails, Losses, Verdicts
<1>2. QED
  BY <1>1, AlwaysIInv, PTL

-----------------------------------------------------------------------------
(* Execute implements the contract of a runner                             *)

\* Sending is a Deliver: in sequential mode the clients after it are idle.
LEMMA SendDelivers ==
  ASSUME IInv, NEW c \in Clients, SendOutput(c)
  PROVE  Contract!Deliver(c)
<1>1. /\ Alive /\ client[c] = "send" /\ sent' = sent \union {<<task, c>>}
      /\ UNCHANGED <<mode, main, task, spawned, failedServers, Fails>>
  BY DEF SendOutput, ClientGoes, mainVars, lostVars, Fails
<1>2. main = "clients" /\ Running
  BY <1>1 DEF IInv, TypeOK, Phases, ClientsReturned, Alive, Running
<1>3. <<task, c>> \notin sent
  BY <1>1, <1>2 DEF IInv, Recorded, VerdictSoFar
<1>4. ASSUME mode = "sequential", NEW d \in Clients, d > c
      PROVE  <<task, d>> \notin sent \union Fails
  <2>1. c = spawned
    BY <1>1, <1>2, <1>4 DEF IInv, Started
  <2>2. client[d] = "idle"
    BY <1>2, <1>4, <2>1 DEF IInv, Started
  <2>3. QED
    BY <1>2, <2>2 DEF IInv, Recorded, VerdictSoFar
<1>5. QED
  BY <1>1, <1>2, <1>3, <1>4 DEF Contract!Deliver, Contract!Clients, Clients, Fails, ExecuteReturned

\* When the server has returned, every client of the task has its verdict.
LEMMA TaskIsAccounted ==
  ASSUME IInv, main = "wait", NEW c \in Clients
  PROVE  <<task, c>> \in sent \union Fails
<1>1. client[c] = "returned"
  <2>1. c \in 1..NClients /\ spawned = NClients /\ client[c] \in {"idle", "returned"}
    BY DEF IInv, Phases, ClientsReturned, Clients
  <2>2. QED
    BY <2>1, Sizes DEF IInv, Started, Running
<1>2. QED
  BY <1>1 DEF IInv, Recorded, VerdictSoFar, Running

LEMMA ContractStep ==
  ASSUME IInv, [Next]_vars
  PROVE  [Contract!Next]_Contract!vars
<1> USE DEF Contract!vars, Contract!Clients, Clients, ExecuteReturned, Contract!Next
<1>1. ASSUME NEW c \in Clients, SendOutput(c) PROVE Contract!Next
  BY <1>1, SendDelivers
<1>2. ASSUME NEW c \in Clients, RecordFailure(c) PROVE Contract!Next
  <2>1. /\ Alive /\ client[c] = "fail" /\ Fails' = Fails \union {<<task, c>>}
        /\ UNCHANGED <<mode, main, task, failedServers, sent>>
    BY <1>2 DEF RecordFailure, ClientGoes, mainVars, Fails
  <2>2. main # "returned"
    BY <2>1 DEF IInv, Phases, ClientsReturned
  <2>3. Contract!FailClient(c)
    BY <2>1, <2>2 DEF Contract!FailClient, Fails
  <2>4. QED
    BY <2>3
<1>3. CASE TemplateFails \/ NotReady \/ RecordServer
  <2>1. /\ main # "returned" /\ main' # "returned"
        /\ failedServers' = failedServers \union {task}
        /\ UNCHANGED <<mode, task, sent, failedClients, lostFails>>
    BY <1>3 DEF TemplateFails, NotReady, GiveUpTask, RecordServer, IInv, Phases, mainVars,
                clientVars, lostVars
  <2>2. Contract!FailServer
    BY <2>1 DEF Contract!FailServer
  <2>3. QED
    BY <2>2
<1>4. CASE EndTask
  <2>1. /\ main = "wait" /\ task \in Nat /\ task <= NTasks
        /\ main' = (IF task < NTasks THEN "template" ELSE "returned")
        /\ task' = (IF task < NTasks THEN task + 1 ELSE task)
        /\ UNCHANGED <<mode, sent, failedServers, failedClients, lostFails>>
    BY <1>4, Sizes DEF EndTask, clientVars, lostVars, statusVars, IInv, TypeOK, Tasks
  <2>2. \A c \in Clients : Contract!Accounted(c, failedServers')
    BY <2>1, TaskIsAccounted DEF Contract!Accounted, Fails
  <2>3. Contract!EndTask
    BY <2>1, <2>2, Sizes DEF Contract!EndTask
  <2>4. QED
    BY <2>3
<1>5. CASE StartServer \/ ServerFound \/ ServerNotFound \/ StartClient \/ MarkStopped \/ Cancel
  BY <1>5 DEF StartServer, ServerFound, ServerNotFound, StartClient, MarkStopped, Cancel,
              mainVars, clientVars, lostVars, statusVars
<1>6. CASE ServerEnds \/ ServerErrorIgnored \/ ServerErrorCounts
  BY <1>6 DEF ServerEnds, ServerErrorIgnored, ServerErrorCounts, mainVars, clientVars, lostVars, statusVars
<1>7. ASSUME NEW c \in Clients, CommandEnds(c) \/ RecordSuccess(c) PROVE UNCHANGED Contract!vars
  BY <1>7 DEF CommandEnds, RecordSuccess, ClientGoes, mainVars, lostVars
<1>8. CASE MapRace \/ ParserStops
  <2>1. main # "returned"
    BY <1>8 DEF MapRace, Racing, ParserStops, IInv, Phases, ClientsReturned
  <2>2. QED
    BY <1>8, <2>1 DEF MapRace, ParserStops, mainVars, clientVars, lostVars, statusVars
<1>9. CASE UNCHANGED vars
  BY <1>9 DEF vars, mainVars, clientVars, lostVars, statusVars
<1>10. QED
  BY <1>1, <1>2, <1>3, <1>4, <1>5, <1>6, <1>7, <1>8, <1>9
     DEF Next, Main, Server, Client, Terminated

(***************************************************************************)
(* Execute of runners/ansible keeps what run() relies on: task after task, *)
(* every result sent at most once, in sequential mode in the order of the  *)
(* plan, and no task left before all its clients are accounted for.        *)
(***************************************************************************)
THEOREM ImplementsContract == Spec => KeepsContract
<1>1. Init => Contract!Init
  BY DEF Init, Contract!Init, ExecuteReturned
<1>2. IInv /\ [Next]_vars => [Contract!Next]_Contract!vars
  BY ContractStep
<1>3. QED
  BY <1>1, <1>2, AlwaysIInv, PTL DEF Spec, KeepsContract, Contract!Spec

-----------------------------------------------------------------------------
(***************************************************************************)
(* Why Execute ends.  What is left to do is kept in finite sets: no step   *)
(* adds to one of them, and every step strikes something off.              *)
(***************************************************************************)

\* The main goroutine has still to go through this phase of this task.
PhaseBefore(t, p) ==
  \/ t > task
  \/ t = task /\ main = "template"
  \/ t = task /\ main = "check" /\ p # "template"
  \/ t = task /\ main = "clients" /\ p \in {"clients", "cancel", "wait"}
  \/ t = task /\ main = "cancel" /\ p \in {"cancel", "wait"}
  \/ t = task /\ main = "wait" /\ p = "wait"

\* The check number n may still fail.
CheckBefore(t, n) ==
  \/ t > task
  \/ t = task /\ main = "template"
  \/ t = task /\ main = "check" /\ n >= checks

\* The goroutine of the server has still to do this.
ServerBefore(t, s) ==
  \/ t > task
  \/ t = task /\ main = "template"
  \/ t = task /\ server = "running"
  \/ t = task /\ server \in {"failed", "killed"} /\ s # "run"
  \/ t = task /\ server = "record" /\ s = "record"

\* The goroutine of the client of an input has still to do this.
ClientBefore(i, s) ==
  \/ i[1] > task
  \/ i[1] = task /\ main = "template"
  \/ i[1] = task /\ client[i[2]] = "idle"
  \/ i[1] = task /\ client[i[2]] = "command" /\ s # "start"
  \/ i[1] = task /\ client[i[2]] = "ok" /\ s \in {"verdict", "send"}
  \/ i[1] = task /\ client[i[2]] = "fail" /\ s = "verdict"
  \/ i[1] = task /\ client[i[2]] = "send" /\ s = "send"

TaskPhases  == {"template", "check", "clients", "cancel", "wait"}
ServerSteps == {"run", "decide", "record"}
ClientSteps == {"start", "command", "verdict", "send"}

PhasesLeft  == {x \in Tasks \X TaskPhases : PhaseBefore(x[1], x[2])}
ChecksLeft  == {x \in Tasks \X (0..Retries) : CheckBefore(x[1], x[2])}
ServersLeft == {x \in Tasks \X ServerSteps : ServerBefore(x[1], x[2])}
ClientsLeft == {x \in Inputs \X ClientSteps : ClientBefore(x[1], x[2])}

\* The parser stops once.
ParserLeft  == {x \in {"parser"} : receiving}

AllLeft == <<PhasesLeft, ChecksLeft, ServersLeft, ClientsLeft, ParserLeft>>

FinitelyMuchLeft ==
  /\ IsFiniteSet(PhasesLeft) /\ IsFiniteSet(ChecksLeft)
  /\ IsFiniteSet(ServersLeft) /\ IsFiniteSet(ClientsLeft) /\ IsFiniteSet(ParserLeft)

OnlyStrikesOff ==
  /\ PhasesLeft' \subseteq PhasesLeft /\ ChecksLeft' \subseteq ChecksLeft
  /\ ServersLeft' \subseteq ServersLeft /\ ClientsLeft' \subseteq ClientsLeft
  /\ ParserLeft' \subseteq ParserLeft
  /\ AllLeft' # AllLeft

\* The guards of the steps that have fairness: the end of a server command that
\* nobody stopped is not among them.
CanStep ==
  \/ main \in {"template", "check", "cancel"}
  \/ main = "clients" /\ spawned < NClients /\ (mode = "parallel" \/ ClientsReturned)
  \/ main = "clients" /\ spawned = NClients /\ ClientsReturned
  \/ main = "wait" /\ server = "returned"
  \/ Alive /\ server \in {"failed", "killed", "record"}
  \/ Alive /\ \E c \in Clients :
       \/ client[c] \in {"command", "ok", "fail"}
       \/ client[c] = "send" /\ receiving

LEMMA InputParts ==
  /\ \A t \in Tasks : t \in Nat
  /\ \A i \in Inputs : i[1] \in Tasks /\ i[1] \in Nat /\ i[2] \in Clients /\ i = <<i[1], i[2]>>
BY Sizes DEF Inputs, Tasks

LEMMA AlwaysFinite == FinitelyMuchLeft
<1>1. \A n, m \in Int : IsFiniteSet(n..m)
  BY FS_Interval
<1>2. IsFiniteSet(Tasks) /\ IsFiniteSet(0..Retries) /\ IsFiniteSet(Inputs)
  <2>1. IsFiniteSet(Tasks) /\ IsFiniteSet(Clients)
    BY <1>1, Sizes DEF Tasks, Clients
  <2>2. IsFiniteSet(0..Retries)
    BY <1>1, Sizes
  <2>3. QED
    BY <2>1, <2>2, FS_Product DEF Inputs
<1>3. ASSUME NEW a, NEW b, NEW c, NEW d, NEW e PROVE IsFiniteSet({a, b, c, d, e})
  <2>1. IsFiniteSet({a} \union {b})
    BY FS_Singleton, FS_AddElement
  <2>2. IsFiniteSet(({a} \union {b}) \union {c})
    BY <2>1, FS_AddElement
  <2>3. IsFiniteSet((({a} \union {b}) \union {c}) \union {d})
    BY <2>2, FS_AddElement
  <2>4. IsFiniteSet(((({a} \union {b}) \union {c}) \union {d}) \union {e})
    BY <2>3, FS_AddElement
  <2>5. ((({a} \union {b}) \union {c}) \union {d}) \union {e} = {a, b, c, d, e}
    OBVIOUS
  <2>6. QED
    BY <2>4, <2>5
<1>4. IsFiniteSet(TaskPhases) /\ IsFiniteSet(ServerSteps) /\ IsFiniteSet(ClientSteps)
  <2>1. IsFiniteSet(TaskPhases)
    BY <1>3 DEF TaskPhases
  <2>2. IsFiniteSet({"run", "decide", "record", "record", "record"})
    BY <1>3
  <2>3. IsFiniteSet({"start", "command", "verdict", "send", "send"})
    BY <1>3
  <2>4. /\ ServerSteps = {"run", "decide", "record", "record", "record"}
        /\ ClientSteps = {"start", "command", "verdict", "send", "send"}
    BY DEF ServerSteps, ClientSteps
  <2>5. QED
    BY <2>1, <2>2, <2>3, <2>4
<1>5. /\ IsFiniteSet(Tasks \X TaskPhases) /\ IsFiniteSet(Tasks \X (0..Retries))
      /\ IsFiniteSet(Tasks \X ServerSteps) /\ IsFiniteSet(Inputs \X ClientSteps)
  BY <1>2, <1>4, FS_Product
<1>6. QED
  BY <1>5, FS_Subset, FS_Singleton
     DEF FinitelyMuchLeft, PhasesLeft, ChecksLeft, ServersLeft, ClientsLeft, ParserLeft

(* It is enough that nothing is added and that one thing goes.             *)
LEMMA StrikesOff ==
  ASSUME \A t \in Tasks, p \in TaskPhases : PhaseBefore(t, p)' => PhaseBefore(t, p),
         \A t \in Tasks, n \in 0..Retries : CheckBefore(t, n)' => CheckBefore(t, n),
         \A t \in Tasks, s \in ServerSteps : ServerBefore(t, s)' => ServerBefore(t, s),
         \A i \in Inputs, s \in ClientSteps : ClientBefore(i, s)' => ClientBefore(i, s),
         receiving' => receiving,
         \/ \E t \in Tasks, p \in TaskPhases : PhaseBefore(t, p) /\ ~PhaseBefore(t, p)'
         \/ \E t \in Tasks, n \in 0..Retries : CheckBefore(t, n) /\ ~CheckBefore(t, n)'
         \/ \E t \in Tasks, s \in ServerSteps : ServerBefore(t, s) /\ ~ServerBefore(t, s)'
         \/ \E i \in Inputs, s \in ClientSteps : ClientBefore(i, s) /\ ~ClientBefore(i, s)'
         \/ receiving /\ ~receiving'
  PROVE  OnlyStrikesOff
<1>1. /\ PhasesLeft' \subseteq PhasesLeft /\ ChecksLeft' \subseteq ChecksLeft
      /\ ServersLeft' \subseteq ServersLeft /\ ClientsLeft' \subseteq ClientsLeft
      /\ ParserLeft' \subseteq ParserLeft
  BY DEF PhasesLeft, ChecksLeft, ServersLeft, ClientsLeft, ParserLeft
<1>2. ASSUME NEW t \in Tasks, NEW p \in TaskPhases, PhaseBefore(t, p), ~PhaseBefore(t, p)'
      PROVE  PhasesLeft' # PhasesLeft
  <2>1. <<t, p>> \in PhasesLeft /\ <<t, p>> \notin PhasesLeft'
    BY <1>2 DEF PhasesLeft
  <2>2. QED
    BY <2>1
<1>3. ASSUME NEW t \in Tasks, NEW n \in 0..Retries, CheckBefore(t, n), ~CheckBefore(t, n)'
      PROVE  ChecksLeft' # ChecksLeft
  <2>1. <<t, n>> \in ChecksLeft /\ <<t, n>> \notin ChecksLeft'
    BY <1>3 DEF ChecksLeft
  <2>2. QED
    BY <2>1
<1>4. ASSUME NEW t \in Tasks, NEW s \in ServerSteps, ServerBefore(t, s), ~ServerBefore(t, s)'
      PROVE  ServersLeft' # ServersLeft
  <2>1. <<t, s>> \in ServersLeft /\ <<t, s>> \notin ServersLeft'
    BY <1>4 DEF ServersLeft
  <2>2. QED
    BY <2>1
<1>5. ASSUME NEW i \in Inputs, NEW s \in ClientSteps, ClientBefore(i, s), ~ClientBefore(i, s)'
      PROVE  ClientsLeft' # ClientsLeft
  <2>1. <<i, s>> \in ClientsLeft /\ <<i, s>> \notin ClientsLeft'
    BY <1>5 DEF ClientsLeft
  <2>2. QED
    BY <2>1
<1>6. ASSUME receiving, ~receiving'
      PROVE  ParserLeft' # ParserLeft
  BY <1>6 DEF ParserLeft
<1>7. QED
  BY <1>1, <1>2, <1>3, <1>4, <1>5, <1>6 DEF OnlyStrikesOff, AllLeft

(* A step of the main goroutine, or the end of the program, goes on to a   *)
(* later phase, starts a client or counts a failed check.                  *)
LEMMA MainStrikesOff ==
  ASSUME IInv, Main \/ MapRace
  PROVE  OnlyStrikesOff
<1>0. task \in Nat /\ task \in Tasks /\ \A t \in Tasks : t \in Nat
  BY Sizes DEF IInv, TypeOK, Tasks
<1> PICK now \in Tasks : now = task
  BY <1>0
<1>r. receiving' = receiving
  BY DEF Main, StartServer, TemplateFails, GiveUpTask, ServerFound, ServerNotFound, NotReady,
         StartClient, MarkStopped, Cancel, EndTask, MapRace, clientVars
<1> USE <1>0, <1>r, InputParts
<1>1. CASE StartServer
  <2>1. /\ main = "template" /\ main' = "check" /\ task' = task /\ checks' = 0
        /\ server' = "running" /\ client' = [c \in Clients |-> "idle"]
    BY <1>1 DEF StartServer
  <2>2. PhaseBefore(now, "template") /\ ~PhaseBefore(now, "template")'
    BY <2>1 DEF PhaseBefore
  <2>3. /\ \A t \in Tasks, p \in TaskPhases : PhaseBefore(t, p)' => PhaseBefore(t, p)
        /\ \A t \in Tasks, n \in 0..Retries : CheckBefore(t, n)' => CheckBefore(t, n)
        /\ \A t \in Tasks, s \in ServerSteps : ServerBefore(t, s)' => ServerBefore(t, s)
        /\ \A i \in Inputs, s \in ClientSteps : ClientBefore(i, s)' => ClientBefore(i, s)
    BY <2>1 DEF PhaseBefore, CheckBefore, ServerBefore, ClientBefore
  <2>4. QED
    BY <2>2, <2>3, StrikesOff DEF TaskPhases
<1>2. ASSUME \/ TemplateFails \/ ServerFound \/ NotReady \/ MarkStopped \/ Cancel \/ MapRace
      PROVE  OnlyStrikesOff
  <2>1. /\ UNCHANGED <<task, checks, client>>
        /\ \/ main \in {"template", "check"} /\ main' = "panicked" /\ server' = server
           \/ main = "check" /\ main' = "clients" /\ server' = server
           \/ main = "clients" /\ main' = "cancel" /\ server' = server
           \/ main = "cancel" /\ main' = "wait" /\ server' \in {server, "killed"}
                /\ (server' # server => server = "running")
           \/ main \in {"check", "clients", "cancel", "wait"} /\ main' = "crashed" /\ server' = server
    <3>1. CASE MapRace
      <4>1. Alive /\ (server # "returned" \/ ~ClientsReturned) /\ main' = "crashed"
        BY <3>1 DEF MapRace, Racing, ClientsReturned
      <4>2. main \in {"check", "clients", "cancel", "wait"}
        BY <4>1 DEF IInv, TypeOK, Phases, Alive
      <4>3. QED
        BY <3>1, <4>1, <4>2 DEF MapRace, clientVars
    <3>2. QED
      BY <1>2, <3>1 DEF TemplateFails, GiveUpTask, ServerFound, NotReady, MarkStopped, Cancel, clientVars
  <2>2. \A t \in Tasks, p \in TaskPhases : PhaseBefore(t, p)' => PhaseBefore(t, p)
    BY <2>1 DEF PhaseBefore
  <2>3. /\ \A t \in Tasks, n \in 0..Retries : CheckBefore(t, n)' => CheckBefore(t, n)
        /\ \A t \in Tasks, s \in ServerSteps : ServerBefore(t, s)' => ServerBefore(t, s)
        /\ \A i \in Inputs, s \in ClientSteps : ClientBefore(i, s)' => ClientBefore(i, s)
    BY <2>1 DEF CheckBefore, ServerBefore, ServerSteps, ClientBefore
  <2>4. main \in TaskPhases /\ PhaseBefore(now, main)
    BY <2>1 DEF TaskPhases, PhaseBefore
  <2>5. \A p : p = main => ~PhaseBefore(now, p)'
    BY <2>1 DEF PhaseBefore
  <2>6. \E p \in TaskPhases : PhaseBefore(now, p) /\ ~PhaseBefore(now, p)'
    <3>1. PICK p : p = main
      OBVIOUS
    <3>2. QED
      BY <2>4, <2>5, <3>1
  <2>7. QED
    BY <2>2, <2>3, <2>6, StrikesOff
<1>3. CASE ServerNotFound
  <2>1. /\ main = "check" /\ checks <= Retries /\ checks' = checks + 1 /\ checks \in Nat
        /\ UNCHANGED <<main, task, server, client>>
    BY <1>3, Sizes DEF ServerNotFound, clientVars, IInv, TypeOK
  <2>2. /\ \A t \in Tasks, p \in TaskPhases : PhaseBefore(t, p)' => PhaseBefore(t, p)
        /\ \A t \in Tasks, s \in ServerSteps : ServerBefore(t, s)' => ServerBefore(t, s)
        /\ \A i \in Inputs, s \in ClientSteps : ClientBefore(i, s)' => ClientBefore(i, s)
    BY <2>1 DEF PhaseBefore, ServerBefore, ClientBefore
  <2>3. \A t \in Tasks, n \in 0..Retries : CheckBefore(t, n)' => CheckBefore(t, n)
    BY <2>1, Sizes DEF CheckBefore
  <2>4. \E n \in 0..Retries : CheckBefore(now, n) /\ ~CheckBefore(now, n)'
    <3>1. PICK n \in 0..Retries : n = checks
      BY <2>1, Sizes
    <3>2. QED
      BY <2>1, <3>1 DEF CheckBefore
  <2>5. QED
    BY <2>2, <2>3, <2>4, StrikesOff
<1>4. CASE StartClient
  <2>1. /\ main = "clients" /\ UNCHANGED <<main, task, checks, server>> /\ spawned < NClients
        /\ client' = [client EXCEPT ![spawned + 1] = "command"]
    BY <1>4 DEF StartClient
  <2>2. PICK c \in Clients : c = spawned + 1
    BY <2>1, Sizes DEF IInv, TypeOK, Clients
  <2>3. client[c] = "idle" /\ client'[c] = "command" /\ \A d \in Clients : d # c => client'[d] = client[d]
    <3>1. c > spawned
      BY <2>2 DEF IInv, TypeOK
    <3>2. QED
      BY <2>1, <2>2, <3>1 DEF IInv, Started, Running, TypeOK
  <2>4. /\ \A t \in Tasks, p \in TaskPhases : PhaseBefore(t, p)' => PhaseBefore(t, p)
        /\ \A t \in Tasks, n \in 0..Retries : CheckBefore(t, n)' => CheckBefore(t, n)
        /\ \A t \in Tasks, s \in ServerSteps : ServerBefore(t, s)' => ServerBefore(t, s)
    BY <2>1 DEF PhaseBefore, CheckBefore, ServerBefore
  <2>5. \A i \in Inputs, s \in ClientSteps : ClientBefore(i, s)' => ClientBefore(i, s)
    BY <2>1, <2>3 DEF ClientBefore
  <2>6. PICK i \in Inputs : i = <<task, c>>
    BY DEF Inputs
  <2>7. ClientBefore(i, "start") /\ ~ClientBefore(i, "start")'
    BY <2>1, <2>3, <2>6 DEF ClientBefore
  <2>8. QED
    BY <2>4, <2>5, <2>7, StrikesOff DEF ClientSteps
<1>5. CASE EndTask
  <2>1. /\ main = "wait" /\ server = "returned" /\ UNCHANGED <<checks, server, client>>
        /\ \/ main' = "template" /\ task' = task + 1
           \/ main' = "returned" /\ task' = task
    BY <1>5 DEF EndTask, clientVars
  <2>2. /\ \A t \in Tasks, p \in TaskPhases : PhaseBefore(t, p)' => PhaseBefore(t, p)
        /\ \A t \in Tasks, n \in 0..Retries : CheckBefore(t, n)' => CheckBefore(t, n)
        /\ \A t \in Tasks, s \in ServerSteps : ServerBefore(t, s)' => ServerBefore(t, s)
        /\ \A i \in Inputs, s \in ClientSteps : ClientBefore(i, s)' => ClientBefore(i, s)
    BY <2>1 DEF PhaseBefore, CheckBefore, ServerBefore, ClientBefore
  <2>3. PhaseBefore(now, "wait") /\ ~PhaseBefore(now, "wait")'
    BY <2>1 DEF PhaseBefore
  <2>4. QED
    BY <2>2, <2>3, StrikesOff DEF TaskPhases
<1>6. QED
  BY <1>1, <1>2, <1>3, <1>4, <1>5 DEF Main

(* A step of the goroutine of the server.                                  *)
LEMMA ServerStrikesOff ==
  ASSUME IInv, Server
  PROVE  OnlyStrikesOff
<1>0. task \in Nat /\ task \in Tasks
  BY Sizes DEF IInv, TypeOK, Tasks
<1> PICK now \in Tasks : now = task
  BY <1>0
<1>1. /\ UNCHANGED <<main, task, checks, client, receiving>>
      /\ main # "template"
      /\ \/ server = "running" /\ server' \in {"returned", "failed"}
         \/ server \in {"failed", "killed"} /\ server' \in {"returned", "record"}
         \/ server = "record" /\ server' = "returned"
  BY DEF Server, ServerEnds, ServerErrorIgnored, ServerErrorCounts, RecordServer, mainVars, clientVars,
         IInv, Phases
<1>2. /\ \A t \in Tasks, p \in TaskPhases : PhaseBefore(t, p)' => PhaseBefore(t, p)
      /\ \A t \in Tasks, n \in 0..Retries : CheckBefore(t, n)' => CheckBefore(t, n)
      /\ \A i \in Inputs, s \in ClientSteps : ClientBefore(i, s)' => ClientBefore(i, s)
  BY <1>1 DEF PhaseBefore, CheckBefore, ClientBefore
<1>3. \A t \in Tasks, s \in ServerSteps : ServerBefore(t, s)' => ServerBefore(t, s)
  BY <1>1 DEF ServerBefore, ServerSteps
<1>4. \E s \in ServerSteps : ServerBefore(now, s) /\ ~ServerBefore(now, s)'
  <2>1. CASE server = "running"
    BY <1>0, <1>1, <2>1 DEF ServerBefore, ServerSteps
  <2>2. CASE server \in {"failed", "killed"}
    BY <1>0, <1>1, <2>2 DEF ServerBefore, ServerSteps
  <2>3. CASE server = "record"
    BY <1>0, <1>1, <2>3 DEF ServerBefore, ServerSteps
  <2>4. QED
    BY <1>1, <2>1, <2>2, <2>3
<1>5. QED
  BY <1>0, <1>1, <1>2, <1>3, <1>4, StrikesOff

(* A step of the goroutine of a client.                                    *)
LEMMA ClientStrikesOff ==
  ASSUME IInv, NEW c \in Clients, Client(c)
  PROVE  OnlyStrikesOff
<1>0. task \in Nat /\ task \in Tasks
  BY Sizes DEF IInv, TypeOK, Tasks
<1>1. /\ UNCHANGED <<main, task, checks, server, receiving>>
      /\ main # "template"
      /\ \/ client[c] = "command" /\ client'[c] \in {"ok", "fail"}
         \/ client[c] = "fail" /\ client'[c] = "returned"
         \/ client[c] = "ok" /\ client'[c] = "send"
         \/ client[c] = "send" /\ client'[c] = "returned"
      /\ \A d \in Clients : d # c => client'[d] = client[d]
  <2>1. main = "template" => client[c] \in {"idle", "returned"}
    BY DEF IInv, Phases, ClientsReturned
  <2>2. QED
    BY <2>1 DEF Client, CommandEnds, RecordFailure, RecordSuccess, SendOutput, ClientGoes, mainVars,
           IInv, TypeOK
<1>2. /\ \A t \in Tasks, p \in TaskPhases : PhaseBefore(t, p)' => PhaseBefore(t, p)
      /\ \A t \in Tasks, n \in 0..Retries : CheckBefore(t, n)' => CheckBefore(t, n)
      /\ \A t \in Tasks, s \in ServerSteps : ServerBefore(t, s)' => ServerBefore(t, s)
  BY <1>1 DEF PhaseBefore, CheckBefore, ServerBefore
<1>3. \A i \in Inputs, s \in ClientSteps : ClientBefore(i, s)' => ClientBefore(i, s)
  BY <1>1, InputParts DEF ClientBefore, ClientSteps
<1>4. PICK i \in Inputs : i = <<task, c>>
  BY <1>0 DEF Inputs
<1>5. \E s \in ClientSteps : ClientBefore(i, s) /\ ~ClientBefore(i, s)'
  <2>1. CASE client[c] = "command"
    BY <1>0, <1>1, <1>4, <2>1 DEF ClientBefore, ClientSteps
  <2>2. CASE client[c] \in {"ok", "fail"}
    BY <1>0, <1>1, <1>4, <2>2 DEF ClientBefore, ClientSteps
  <2>3. CASE client[c] = "send"
    BY <1>0, <1>1, <1>4, <2>3 DEF ClientBefore, ClientSteps
  <2>4. QED
    BY <1>1, <2>1, <2>2, <2>3
<1>6. QED
  BY <1>1, <1>2, <1>3, <1>5, StrikesOff

(* The parser stops once, and nobody else does anything then.              *)
LEMMA ParserStrikesOff ==
  ASSUME IInv, ParserStops
  PROVE  OnlyStrikesOff
<1>1. receiving /\ ~receiving' /\ UNCHANGED <<main, task, checks, server, client>>
  BY DEF ParserStops, mainVars
<1>2. /\ \A t \in Tasks, p \in TaskPhases : PhaseBefore(t, p)' => PhaseBefore(t, p)
      /\ \A t \in Tasks, n \in 0..Retries : CheckBefore(t, n)' => CheckBefore(t, n)
      /\ \A t \in Tasks, s \in ServerSteps : ServerBefore(t, s)' => ServerBefore(t, s)
      /\ \A i \in Inputs, s \in ClientSteps : ClientBefore(i, s)' => ClientBefore(i, s)
  BY <1>1 DEF PhaseBefore, CheckBefore, ServerBefore, ClientBefore
<1>3. QED
  BY <1>1, <1>2, StrikesOff

(***************************************************************************)
(* Finitely much is left to do, a step of any goroutine adds to none of it *)
(* and strikes something off: whatever fails, however often a check is     *)
(* retried, Execute takes finitely many steps.                             *)
(***************************************************************************)
THEOREM TakesFinitelyManySteps == Spec => []FinitelyMuchLeft /\ [][OnlyStrikesOff]_vars
<1>1. IInv /\ [Next]_vars => [OnlyStrikesOff]_vars
  BY MainStrikesOff, ServerStrikesOff, ClientStrikesOff, ParserStrikesOff DEF Next, Terminated
<1>2. QED
  BY <1>1, AlwaysFinite, AlwaysIInv, PTL DEF Spec

(***************************************************************************)
(* The goroutines of Execute never wait for each other in a circle, nor    *)
(* for a server command to end by itself: unless it has ended, the main    *)
(* goroutine, a client or a server that was stopped or failed can go on.   *)
(* The only other end is that all wait for a goroutine whose output the    *)
(* parser does not take.  With the theorem before, all that EndsOrSticks   *)
(* needs beyond is that what can go on does.                               *)
(***************************************************************************)
THEOREM BlocksOnlyIfStuck == Spec => [](Ended \/ Stuck \/ CanStep)
<1>1. IInv /\ ~Ended /\ ~Stuck => CanStep
  <2> SUFFICES ASSUME IInv, ~Ended, ~Stuck PROVE CanStep
    OBVIOUS
  <2>1. Alive
    BY DEF Ended, Alive
  <2>2. CASE main = "clients"
    <3>1. CASE ClientsReturned
      <4>1. spawned = NClients \/ spawned < NClients
        BY Sizes DEF IInv, TypeOK
      <4>2. QED
        BY <2>2, <3>1, <4>1 DEF CanStep
    <3>2. CASE ~ClientsReturned
      <4>1. CASE \E c \in Clients : client[c] \in {"command", "ok", "fail"}
        BY <2>1, <4>1 DEF CanStep
      <4>2. CASE \A c \in Clients : client[c] \notin {"command", "ok", "fail"}
        <5>1. \A c \in Clients : client[c] \in {"idle", "send", "returned"}
          BY <4>2 DEF IInv, TypeOK
        <5>2. PICK c \in Clients : client[c] = "send"
          BY <3>2, <5>1 DEF ClientsReturned
        <5>3. CASE receiving
          BY <2>1, <5>2, <5>3 DEF CanStep
        <5>4. CASE ~receiving
          <6>1. mode = "parallel" /\ spawned # NClients
            BY <2>2, <5>1, <5>2, <5>4 DEF Stuck
          <6>2. QED
            BY <2>2, <6>1, Sizes DEF IInv, TypeOK, CanStep
        <5>5. QED
          BY <5>3, <5>4
      <4>3. QED
        BY <4>1, <4>2
    <3>3. QED
      BY <3>1, <3>2
  <2>3. CASE main = "wait"
    BY <2>1, <2>3 DEF IInv, TypeOK, Phases, CanStep
  <2>4. CASE main \notin {"clients", "wait"}
    BY <2>4 DEF IInv, TypeOK, Ended, CanStep
  <2>5. QED
    BY <2>2, <2>3, <2>4
<1>2. QED
  BY <1>1, AlwaysIInv, PTL

-----------------------------------------------------------------------------
(***************************************************************************)
(* The other part of the package: the worker pool of GetHostsForTest loses *)
(* no host, for every inventory, every number of workers and every pattern *)
(* of failures.                                                            *)
(***************************************************************************)

\* A host a worker has taken on and not answered for.
InHand(h) == \E w \in Workers : host[w] = h /\ worker[w] \in {"fetch", "fail"}

(***************************************************************************)
(* Every host handed out has its addresses, its error was collected, or a  *)
(* worker has it in hand; failures are in errs or about to be reported.    *)
(***************************************************************************)
Pool ==
  /\ \A w \in Workers : worker[w] \in {"fetch", "fail"} => host[w] \in Hosts
  /\ \A h \in Hosts : h \in unfed \/ h \in found \/ h \in errs \/ InHand(h)
  /\ "inCh" \in closed => unfed = {}
  /\ "retCh" \in closed => "inCh" \in closed /\ \A w \in Workers : worker[w] = "exited"
  /\ errs # {} \/ (\E w \in Workers : worker[w] = "fail") <=> failures > 0
  /\ caller # "collect" => "retCh" \in closed

PoolIInv == PoolTypeOK /\ Pool /\ CompleteOrError

(* A worker that takes on a host leaves what the others have in hand.      *)
LEMMA StillInHand ==
  ASSUME NEW w \in Workers, NEW h \in Hosts, InHand(h), h # host[w] \/ worker[w] = "range",
         \A v \in Workers : v # w => host'[v] = host[v] /\ worker'[v] = worker[v]
  PROVE  InHand(h)'
BY DEF InHand

LEMMA PoolStep == PoolIInv /\ [PoolNext]_poolVars => PoolIInv'
<1> SUFFICES ASSUME PoolIInv, [PoolNext]_poolVars PROVE PoolIInv'
  OBVIOUS
<1>0. inventory' = inventory /\ Hosts' = Hosts
  BY DEF PoolNext, poolVars, Feed, Worker, FactsFound, FactsFail, NoMoreHosts, Report, ReportError,
         CloseIn, CloseRet, Return, PoolTerminated, Hosts
<1> USE HostsAssumption, <1>0
<1>1. ASSUME NEW w \in Workers, NEW h \in unfed, Feed(w, h) PROVE PoolIInv'
  <2>0. h \in Hosts
    BY DEF PoolIInv, PoolTypeOK
  <2>1. /\ h \in unfed /\ unfed' = unfed \ {h} /\ worker[w] = "range"
        /\ UNCHANGED <<closed, found, failures, errs, caller>>
        /\ worker'[w] = "fetch" /\ host'[w] = h
        /\ \A v \in Workers : v # w => host'[v] = host[v] /\ worker'[v] = worker[v]
    BY <1>1 DEF Feed, PoolIInv, PoolTypeOK
  <2>2. "inCh" \notin closed
    BY <2>1 DEF PoolIInv, Pool
  <2>3. PoolTypeOK'
    BY <1>1, <2>0 DEF Feed, PoolIInv, PoolTypeOK
  <2>4. \A g \in Hosts : InHand(g) => InHand(g)'
    BY <2>0, <2>1, StillInHand
  <2>5. InHand(h)'
    BY <2>1 DEF InHand
  <2>6. (\E v \in Workers : worker'[v] = "fail") <=> (\E v \in Workers : worker[v] = "fail")
    BY <2>1
  <2>7. Pool'
    BY <2>0, <2>1, <2>2, <2>4, <2>5, <2>6 DEF PoolIInv, Pool
  <2>8. QED
    BY <2>1, <2>3, <2>7 DEF PoolIInv, CompleteOrError
<1>2. ASSUME NEW w \in Workers, FactsFound(w) PROVE PoolIInv'
  <2>1. /\ worker[w] = "fetch" /\ worker'[w] = "report" /\ found' = found \union {host[w]}
        /\ UNCHANGED <<unfed, closed, host, failures, errs, caller>>
        /\ \A v \in Workers : v # w => worker'[v] = worker[v]
    BY <1>2 DEF FactsFound, PoolIInv, PoolTypeOK
  <2>2. PoolTypeOK'
    BY <1>2, <2>1 DEF FactsFound, PoolIInv, PoolTypeOK, Pool
  <2>3. \A h \in Hosts : InHand(h) => InHand(h)' \/ h \in found'
    BY <2>1 DEF InHand
  <2>4. (\E v \in Workers : worker'[v] = "fail") <=> (\E v \in Workers : worker[v] = "fail")
    BY <2>1
  <2>5. "retCh" \notin closed /\ caller = "collect"
    BY <2>1 DEF PoolIInv, Pool
  <2>6. Pool'
    BY <2>1, <2>3, <2>4, <2>5 DEF PoolIInv, Pool
  <2>7. QED
    BY <2>1, <2>2, <2>5, <2>6 DEF PoolIInv, CompleteOrError
<1>3. ASSUME NEW w \in Workers, FactsFail(w) PROVE PoolIInv'
  <2>1. /\ worker[w] = "fetch" /\ worker'[w] = "fail" /\ failures' = failures + 1
        /\ failures < MaxFailures
        /\ UNCHANGED <<unfed, closed, host, found, errs, caller>>
        /\ \A v \in Workers : v # w => worker'[v] = worker[v]
    BY <1>3 DEF FactsFail, PoolIInv, PoolTypeOK
  <2>2. PoolTypeOK'
    BY <1>3 DEF FactsFail, PoolIInv, PoolTypeOK
  <2>3. \A h \in Hosts : InHand(h) => InHand(h)'
    BY <2>1 DEF InHand
  <2>4. failures' > 0
    BY <2>1 DEF PoolIInv, PoolTypeOK
  <2>5. "retCh" \notin closed /\ caller = "collect"
    BY <2>1 DEF PoolIInv, Pool
  <2>6. Pool'
    BY <2>1, <2>3, <2>4, <2>5 DEF PoolIInv, Pool
  <2>7. QED
    BY <2>1, <2>2, <2>5, <2>6 DEF PoolIInv, CompleteOrError
<1>4. ASSUME NEW w \in Workers, NoMoreHosts(w) \/ Report(w) PROVE PoolIInv'
  <2>1. /\ worker[w] \in {"range", "report", "last"} /\ worker'[w] \in {"last", "range", "exited"}
        /\ UNCHANGED <<unfed, closed, host, found, failures, errs, caller>>
        /\ \A v \in Workers : v # w => worker'[v] = worker[v]
    BY <1>4 DEF NoMoreHosts, Report, PoolIInv, PoolTypeOK
  <2>2. PoolTypeOK'
    <3>1. worker' \in [Workers -> {"range", "fetch", "report", "fail", "last", "exited"}]
      BY <1>4 DEF NoMoreHosts, Report, PoolIInv, PoolTypeOK
    <3>2. QED
      BY <2>1, <3>1 DEF PoolIInv, PoolTypeOK
  <2>3. \A h \in Hosts : InHand(h) => InHand(h)'
    BY <2>1 DEF InHand
  <2>4. (\E v \in Workers : worker'[v] = "fail") <=> (\E v \in Workers : worker[v] = "fail")
    BY <2>1
  <2>5. "retCh" \notin closed
    BY <2>1 DEF PoolIInv, Pool
  <2>6. Pool'
    BY <2>1, <2>3, <2>4, <2>5 DEF PoolIInv, Pool
  <2>7. QED
    BY <2>1, <2>2, <2>6 DEF PoolIInv, CompleteOrError
<1>5. ASSUME NEW w \in Workers, ReportError(w) PROVE PoolIInv'
  <2>1. /\ worker[w] = "fail" /\ worker'[w] = "exited" /\ errs' = errs \union {host[w]}
        /\ UNCHANGED <<unfed, closed, host, found, failures, caller>>
        /\ \A v \in Workers : v # w => worker'[v] = worker[v]
    BY <1>5 DEF ReportError, PoolIInv, PoolTypeOK
  <2>2. PoolTypeOK'
    BY <1>5, <2>1 DEF ReportError, PoolIInv, PoolTypeOK, Pool
  <2>3. \A h \in Hosts : InHand(h) => InHand(h)' \/ h \in errs'
    BY <2>1 DEF InHand
  <2>4. failures > 0 /\ errs' # {}
    BY <2>1 DEF PoolIInv, Pool
  <2>5. "retCh" \notin closed /\ caller = "collect"
    BY <2>1 DEF PoolIInv, Pool
  <2>6. Pool'
    BY <2>1, <2>3, <2>4, <2>5 DEF PoolIInv, Pool
  <2>7. QED
    BY <2>1, <2>2, <2>5, <2>6 DEF PoolIInv, CompleteOrError
<1>6. CASE CloseIn \/ CloseRet
  <2>1. /\ UNCHANGED <<unfed, worker, host, found, failures, errs, caller>>
        /\ \/ unfed = {} /\ closed' = closed \union {"inCh"}
           \/ /\ closed' = closed \union {"retCh"} /\ "inCh" \in closed
              /\ \A w \in Workers : worker[w] = "exited"
    BY <1>6 DEF CloseIn, CloseRet, workerVars
  <2>2. \A h \in Hosts : InHand(h)' <=> InHand(h)
    BY <2>1 DEF InHand
  <2>3. QED
    BY <2>1, <2>2 DEF PoolIInv, PoolTypeOK, Pool, CompleteOrError
<1>7. CASE Return
  <2>1. /\ "retCh" \in closed /\ caller = "collect"
        /\ caller' = IF errs # {} THEN "errors" ELSE IF found = Hosts THEN "hosts" ELSE "missing"
        /\ UNCHANGED <<unfed, closed, worker, host, found, failures, errs>>
    BY <1>7 DEF Return, workerVars
  <2>2. /\ unfed = {} /\ \A w \in Workers : worker[w] = "exited"
    BY <2>1 DEF PoolIInv, Pool
  <2>3. errs = {} => found = Hosts /\ failures = 0
    BY <2>2 DEF PoolIInv, PoolTypeOK, Pool, InHand
  <2>4. errs # {} => failures > 0
    BY DEF PoolIInv, Pool
  <2>5. \A h \in Hosts : InHand(h)' <=> InHand(h)
    BY <2>1 DEF InHand
  <2>6. QED
    BY <2>1, <2>3, <2>4, <2>5 DEF PoolIInv, PoolTypeOK, Pool, CompleteOrError
<1>8. CASE UNCHANGED poolVars
  BY <1>8 DEF poolVars, workerVars, PoolIInv, PoolTypeOK, Pool, CompleteOrError, InHand
<1>9. QED
  BY <1>1, <1>2, <1>3, <1>4, <1>5, <1>6, <1>7, <1>8 DEF PoolNext, Worker, PoolTerminated

LEMMA PoolInvariant == PoolSpec => []PoolIInv
<1>1. PoolInit => PoolIInv
  BY HostsAssumption DEF PoolInit, PoolIInv, PoolTypeOK, Pool, CompleteOrError, InHand
<1>2. QED
  BY <1>1, PoolStep, PTL DEF PoolSpec

(* GetHostsForTest returns all hosts or errors, and never misses one.      *)
THEOREM NoHostMissing == PoolSpec => [](PoolTypeOK /\ CompleteOrError)
<1>1. PoolIInv => PoolTypeOK /\ CompleteOrError
  BY DEF PoolIInv
<1>2. QED
  BY <1>1, PoolInvariant, PTL

(* inCh and retCh are closed only when nothing is left to be sent on them. *)
THEOREM ClosesInTime == PoolSpec => []ClosedInTime
<1>1. PoolIInv => ClosedInTime
  BY DEF PoolIInv, Pool, ClosedInTime, InHand
<1>2. QED
  BY <1>1, PoolInvariant, PTL

-----------------------------------------------------------------------------
(* The recursion of GetHostsForGroup.  No induction is needed: the set of  *)
(* groups below a group satisfies the equation of the recursion, and in an *)
(* inventory without loops the equation has one solution.                  *)

Children(inv, g) == inv[g].children \intersect DOMAIN inv

ClosedUnder(inv, S) == \A g \in S : Children(inv, g) \subseteq S

LEMMA BelowMember ==
  ASSUME NEW inv, NEW g \in DOMAIN inv, NEW x
  PROVE  x \in Below(inv, g) <=>
           /\ x \in DOMAIN inv
           /\ \A S \in SUBSET DOMAIN inv : g \in S /\ ClosedUnder(inv, S) => x \in S
BY DEF Below, ClosedUnder, Children

(* The groups below a group are the group and those below its children.    *)
LEMMA BelowUnfolds ==
  ASSUME NEW inv, NEW g \in DOMAIN inv
  PROVE  Below(inv, g) = {g} \union UNION {Below(inv, c) : c \in Children(inv, g)}
<1> DEFINE T == {g} \union UNION {Below(inv, c) : c \in Children(inv, g)}
<1>0. \A c \in Children(inv, g) : c \in DOMAIN inv
  BY DEF Children
<1>1. \A c \in Children(inv, g) : c \in Below(inv, c)
  BY <1>0, BelowMember
<1>2. T \in SUBSET DOMAIN inv
  BY <1>0, BelowMember
<1>3. ASSUME NEW x \in T, NEW y \in Children(inv, x) PROVE y \in T
  <2>1. CASE x = g
    BY <1>1, <1>3, <2>1
  <2>2. CASE x # g
    <3>1. PICK c \in Children(inv, g) : x \in Below(inv, c)
      BY <2>2, <1>3
    <3>2. c \in DOMAIN inv /\ y \in DOMAIN inv
      BY <1>0, <1>3 DEF Children
    <3>3. \A S \in SUBSET DOMAIN inv : c \in S /\ ClosedUnder(inv, S) => y \in S
      BY <3>1, <3>2, <1>3, BelowMember DEF ClosedUnder
    <3>4. y \in Below(inv, c)
      BY <3>2, <3>3, BelowMember
    <3>5. QED
      BY <3>4
  <2>3. QED
    BY <2>1, <2>2
<1>4. ClosedUnder(inv, T)
  BY <1>3 DEF ClosedUnder
<1>5. Below(inv, g) \subseteq T
  BY <1>2, <1>4, BelowMember
<1>6. ASSUME NEW c \in Children(inv, g), NEW x \in Below(inv, c) PROVE x \in Below(inv, g)
  <2>1. \A S \in SUBSET DOMAIN inv : g \in S /\ ClosedUnder(inv, S) => c \in S
    BY <1>6 DEF ClosedUnder
  <2>2. QED
    BY <1>0, <1>6, <2>1, BelowMember
<1>7. g \in Below(inv, g)
  BY BelowMember
<1>8. QED
  BY <1>5, <1>6, <1>7

(* The hosts of the groups below a group solve the recursion.              *)
LEMMA ReachableUnfolds ==
  ASSUME NEW inv, NEW g \in DOMAIN inv
  PROVE  Reachable(inv, g) = inv[g].hosts \union UNION {Reachable(inv, c) : c \in Children(inv, g)}
<1>1. \A c \in Children(inv, g) : c \in DOMAIN inv
  BY DEF Children
<1>2. \A c \in DOMAIN inv : Reachable(inv, c) = UNION {inv[x].hosts : x \in Below(inv, c)}
  BY DEF Reachable
<1>3. \A x : x \in Below(inv, g) <=> x = g \/ \E c \in Children(inv, g) : x \in Below(inv, c)
  BY BelowUnfolds
<1>4. QED
  BY <1>1, <1>2, <1>3

(* In an inventory without loops nothing else does.                        *)
LEMMA HostsAreReachable ==
  ASSUME NEW inv \in Inventories, NEW group
  PROVE  HostsForGroup(inv, group) = Reachable(inv, group)
<1> DEFINE Solves(h) ==
      h = [g \in DOMAIN inv |->
             inv[g].hosts \union UNION {h[c] : c \in inv[g].children \intersect DOMAIN inv}]
           solution == CHOOSE h : Solves(h)
           reach == [g \in DOMAIN inv |-> Reachable(inv, g)]
<1>1. Solves(reach)
  <2>1. ASSUME NEW g \in DOMAIN inv
        PROVE  reach[g] = inv[g].hosts \union UNION {reach[c] : c \in inv[g].children \intersect DOMAIN inv}
    BY ReachableUnfolds DEF Children
  <2>2. QED
    BY <2>1
<1>2. Solves(solution)
  BY <1>1
<1>3. ASSUME NEW h, Solves(h), NEW g \in DOMAIN inv PROVE h[g] = reach[g]
  <2> DEFINE D == {x \in DOMAIN inv : h[x] # reach[x]}
  <2>1. SUFFICES ASSUME D # {} PROVE FALSE
    OBVIOUS
  <2>2. PICK x \in D : inv[x].children \intersect D = {}
    BY <2>1, InventoriesAssumption
  <2>3. \A c \in inv[x].children \intersect DOMAIN inv : h[c] = reach[c]
    BY <2>2
  <2>4. h[x] = inv[x].hosts \union UNION {h[c] : c \in inv[x].children \intersect DOMAIN inv}
    BY <1>3
  <2>5. reach[x] = inv[x].hosts \union UNION {reach[c] : c \in inv[x].children \intersect DOMAIN inv}
    BY <1>1
  <2>6. h[x] = reach[x]
    BY <2>3, <2>4, <2>5
  <2>7. QED
    BY <2>6
<1>4. HostsForGroup(inv, group) = IF group \in DOMAIN inv THEN solution[group] ELSE {}
  BY DEF HostsForGroup
<1>5. group \in DOMAIN inv => solution[group] = Reachable(inv, group)
  <2> HIDE DEF solution
  <2>1. group \in DOMAIN inv => solution[group] = reach[group]
    BY <1>2, <1>3
  <2>2. QED
    BY <2>1
<1>6. group \notin DOMAIN inv => Reachable(inv, group) = {}
  BY DEF Reachable
<1>7. QED
  BY <1>4, <1>5, <1>6

(***************************************************************************)
(* What getHosts returns are the hosts of all groups below those of the    *)
(* configuration, for every inventory without loops.                       *)
(***************************************************************************)
THEOREM ReturnsInventory == PoolSpec => []WholeInventory
<1>1. PoolIInv => WholeInventory
  <2> SUFFICES ASSUME PoolIInv, caller = "hosts"
               PROVE  found = UNION {Reachable(inventory, g) : g \in AnsibleGroups}
    BY DEF WholeInventory
  <2>1. \A g \in AnsibleGroups : HostsForGroup(inventory, g) = Reachable(inventory, g)
    BY HostsAreReachable DEF PoolIInv, PoolTypeOK
  <2>2. found = UNION {HostsForGroup(inventory, g) : g \in AnsibleGroups}
    BY DEF PoolIInv, CompleteOrError, Hosts
  <2>3. QED
    BY <2>1, <2>2
<1>2. QED
  BY <1>1, PoolInvariant, PTL
-----------------------------------------------------------------------------
(***************************************************************************)
(* Why the pool answers or starves, along the lines of Execute above.      *)
(***************************************************************************)

\* The facts of the host may still be fetched, or answered for, by this worker.
FetchBefore(w, h)  == h \in unfed \/ (host[w] = h /\ worker[w] = "fetch")
AnswerBefore(w, h) == h \in unfed \/ (host[w] = h /\ worker[w] \in {"fetch", "report", "fail"})

FetchesLeft == {x \in Workers \X Hosts : FetchBefore(x[1], x[2])}
AnswersLeft == {x \in Workers \X Hosts : AnswerBefore(x[1], x[2])}
LastsLeft   == {w \in Workers : worker[w] \notin {"last", "exited"}}
ExitsLeft   == {w \in Workers : worker[w] # "exited"}
ClosesLeft  == {"inCh", "retCh"} \ closed
ReturnsLeft == {caller} \intersect {"collect"}

AllPoolLeft == <<unfed, FetchesLeft, AnswersLeft, LastsLeft, ExitsLeft, ClosesLeft, ReturnsLeft>>

FinitelyMuchPoolLeft ==
  /\ IsFiniteSet(unfed) /\ IsFiniteSet(FetchesLeft) /\ IsFiniteSet(AnswersLeft)
  /\ IsFiniteSet(LastsLeft) /\ IsFiniteSet(ExitsLeft)
  /\ IsFiniteSet(ClosesLeft) /\ IsFiniteSet(ReturnsLeft)

PoolOnlyStrikesOff ==
  /\ unfed' \subseteq unfed
  /\ FetchesLeft' \subseteq FetchesLeft /\ AnswersLeft' \subseteq AnswersLeft
  /\ LastsLeft' \subseteq LastsLeft /\ ExitsLeft' \subseteq ExitsLeft
  /\ ClosesLeft' \subseteq ClosesLeft /\ ReturnsLeft' \subseteq ReturnsLeft
  /\ AllPoolLeft' # AllPoolLeft

\* The guards of the steps of the pool.
PoolCanStep ==
  \/ \E w \in Workers : worker[w] = "range" /\ (unfed # {} \/ "inCh" \in closed)
  \/ \E w \in Workers : worker[w] = "fetch"
  \/ caller = "collect" /\ \E w \in Workers : worker[w] \in {"report", "last", "fail"}
  \/ unfed = {} /\ "inCh" \notin closed
  \/ "inCh" \in closed /\ "retCh" \notin closed /\ \A w \in Workers : worker[w] = "exited"
  \/ caller = "collect" /\ "retCh" \in closed

\* While hosts are left only a failure takes a worker away; what a worker holds has been handed out.
Leaves == {w \in Workers : worker[w] \in {"fail", "exited"}}

Starving ==
  /\ unfed # {} => Cardinality(Leaves) <= failures /\ \A w \in Workers : worker[w] # "last"
  /\ \A w \in Workers : worker[w] \in {"fetch", "report", "fail"} => host[w] \in Hosts \ unfed

(* A union over a finite set of finite sets is finite.                     *)
LEMMA FiniteUnion ==
  ASSUME NEW S, IsFiniteSet(S), NEW f, \A x \in S : IsFiniteSet(f[x])
  PROVE  IsFiniteSet(UNION {f[x] : x \in S})
<1> DEFINE T == {f[x] : x \in S}
           g == [x \in S |-> f[x]]
<1>1. g \in Surjection(S, T)
  BY DEF Surjection
<1>2. IsFiniteSet(T)
  BY <1>1, FS_Surjection
<1>3. QED
  BY <1>2, FS_UNION

LEMMA FiniteHosts ==
  ASSUME PoolTypeOK
  PROVE  IsFiniteSet(Hosts)
<1>1. ASSUME NEW g \in AnsibleGroups PROVE IsFiniteSet(HostsForGroup(inventory, g))
  <2>1. HostsForGroup(inventory, g) = Reachable(inventory, g)
    BY HostsAreReachable DEF PoolTypeOK
  <2>2. CASE g \in DOMAIN inventory
    <3> DEFINE f == [x \in DOMAIN inventory |-> inventory[x].hosts]
               B == Below(inventory, g)
    <3>1. B \in SUBSET DOMAIN inventory
      BY <2>2, BelowMember
    <3>2. IsFiniteSet(B) /\ \A x \in B : IsFiniteSet(f[x])
      BY <3>1, FiniteAssumption, FS_Subset DEF PoolTypeOK
    <3>3. Reachable(inventory, g) = UNION {f[x] : x \in B}
      BY <2>2, <3>1 DEF Reachable
    <3> HIDE DEF f, B
    <3>4. QED
      BY <2>1, <3>2, <3>3, FiniteUnion
  <2>3. CASE g \notin DOMAIN inventory
    BY <2>3, FS_EmptySet DEF HostsForGroup
  <2>4. QED
    BY <2>2, <2>3
<1> DEFINE f == [g \in AnsibleGroups |-> HostsForGroup(inventory, g)]
<1>2. \A g \in AnsibleGroups : IsFiniteSet(f[g])
  BY <1>1
<1>3. Hosts = UNION {f[g] : g \in AnsibleGroups}
  BY DEF Hosts
<1> HIDE DEF f
<1>4. QED
  BY <1>2, <1>3, FiniteAssumption, FiniteUnion

LEMMA FinitelyMuchForThePool ==
  ASSUME PoolTypeOK
  PROVE  FinitelyMuchPoolLeft
<1>1. IsFiniteSet(Workers) /\ IsFiniteSet(Hosts)
  BY FiniteAssumption, FiniteHosts
<1>2. IsFiniteSet(Workers \X Hosts)
  BY <1>1, FS_Product
<1>3. IsFiniteSet({"inCh", "retCh"})
  <2>1. IsFiniteSet({"inCh"} \union {"retCh"})
    BY FS_Singleton, FS_AddElement
  <2>2. QED
    BY <2>1
<1>4. IsFiniteSet({"collect"})
  BY FS_Singleton
<1>5. /\ unfed \in SUBSET Hosts
      /\ FetchesLeft \in SUBSET (Workers \X Hosts) /\ AnswersLeft \in SUBSET (Workers \X Hosts)
      /\ LastsLeft \in SUBSET Workers /\ ExitsLeft \in SUBSET Workers
      /\ ClosesLeft \in SUBSET {"inCh", "retCh"} /\ ReturnsLeft \in SUBSET {"collect"}
  BY DEF PoolTypeOK, FetchesLeft, AnswersLeft, LastsLeft, ExitsLeft, ClosesLeft, ReturnsLeft
<1>6. QED
  BY <1>1, <1>2, <1>3, <1>4, <1>5, FS_Subset DEF FinitelyMuchPoolLeft

LEMMA HostsStay ==
  ASSUME [PoolNext]_poolVars
  PROVE  inventory' = inventory /\ Hosts' = Hosts
BY DEF PoolNext, poolVars, Feed, Worker, FactsFound, FactsFail, NoMoreHosts, Report, ReportError,
       CloseIn, CloseRet, Return, PoolTerminated, Hosts

(* Failures take workers away one by one, and what is in hand is no longer *)
(* to be handed out.                                                       *)
LEMMA AlwaysStarving == PoolSpec => []Starving
<1>1. PoolTypeOK /\ PoolInit => Starving
  <2>1. PoolInit => Leaves = {} /\ failures = 0
    BY DEF PoolInit, Leaves
  <2>2. PoolInit => Cardinality(Leaves) <= failures
    BY <2>1, FS_EmptySet
  <2>3. QED
    BY <2>2 DEF PoolInit, Starving
<1>2. ASSUME PoolIInv, Starving, [PoolNext]_poolVars PROVE Starving'
  <2>0. IsFiniteSet(Leaves) /\ failures \in Nat /\ Hosts' = Hosts /\ unfed \subseteq Hosts
    <3>1. Leaves \in SUBSET Workers
      BY DEF Leaves
    <3>2. QED
      BY <1>2, <3>1, HostsStay, FiniteAssumption, FS_Subset DEF PoolIInv, PoolTypeOK
  <2>1. ASSUME NEW w \in Workers, NEW h \in unfed, Feed(w, h) PROVE Starving'
    <3>1. /\ h \in unfed /\ unfed' = unfed \ {h} /\ worker[w] = "range"
          /\ failures' = failures /\ worker'[w] = "fetch" /\ host'[w] = h
          /\ \A v \in Workers : v # w => host'[v] = host[v] /\ worker'[v] = worker[v]
      BY <1>2, <2>1 DEF Feed, PoolIInv, PoolTypeOK
    <3>2. Leaves' = Leaves
      BY <3>1 DEF Leaves
    <3>3. QED
      BY <1>2, <2>0, <3>1, <3>2 DEF Starving
  <2>2. ASSUME NEW w \in Workers, FactsFound(w) PROVE Starving'
    <3>1. /\ worker[w] = "fetch" /\ worker'[w] = "report" /\ UNCHANGED <<unfed, host, failures>>
          /\ \A v \in Workers : v # w => worker'[v] = worker[v]
      BY <1>2, <2>2 DEF FactsFound, PoolIInv, PoolTypeOK
    <3>2. Leaves' = Leaves
      BY <3>1 DEF Leaves
    <3>3. QED
      BY <1>2, <2>0, <3>1, <3>2 DEF Starving
  <2>3. ASSUME NEW w \in Workers, FactsFail(w) PROVE Starving'
    <3>1. /\ worker[w] = "fetch" /\ worker'[w] = "fail" /\ UNCHANGED <<unfed, host>>
          /\ failures' = failures + 1 /\ \A v \in Workers : v # w => worker'[v] = worker[v]
      BY <1>2, <2>3 DEF FactsFail, PoolIInv, PoolTypeOK
    <3>2. Leaves' = Leaves \union {w} /\ w \notin Leaves
      BY <3>1 DEF Leaves
    <3>3. Cardinality(Leaves') = Cardinality(Leaves) + 1 /\ Cardinality(Leaves) \in Nat
      BY <2>0, <3>2, FS_AddElement, FS_CardinalityType
    <3>4. QED
      BY <1>2, <2>0, <3>1, <3>3 DEF Starving
  <2>4. ASSUME NEW w \in Workers, NoMoreHosts(w) PROVE Starving'
    <3>1. /\ unfed = {} /\ UNCHANGED <<unfed, host>> /\ worker'[w] = "last"
          /\ \A v \in Workers : v # w => worker'[v] = worker[v]
      BY <1>2, <2>4 DEF NoMoreHosts, PoolIInv, PoolTypeOK, Pool
    <3>2. QED
      BY <1>2, <2>0, <3>1 DEF Starving
  <2>5. ASSUME NEW w \in Workers, Report(w) PROVE Starving'
    <3>1. /\ \/ worker[w] = "report" /\ worker'[w] = "range"
             \/ worker[w] = "last" /\ worker'[w] = "exited"
          /\ UNCHANGED <<unfed, host, failures>> /\ \A v \in Workers : v # w => worker'[v] = worker[v]
      BY <1>2, <2>5 DEF Report, PoolIInv, PoolTypeOK
    <3>2. CASE unfed = {}
      BY <1>2, <2>0, <3>1, <3>2 DEF Starving
    <3>3. CASE unfed # {}
      <4>1. worker[w] = "report" /\ worker'[w] = "range"
        BY <1>2, <3>1, <3>3 DEF Starving
      <4>2. Leaves' = Leaves
        BY <3>1, <4>1 DEF Leaves
      <4>3. QED
        BY <1>2, <2>0, <3>1, <4>1, <4>2 DEF Starving
    <3>4. QED
      BY <3>2, <3>3
  <2>6. ASSUME NEW w \in Workers, ReportError(w) PROVE Starving'
    <3>1. /\ worker[w] = "fail" /\ worker'[w] = "exited" /\ UNCHANGED <<unfed, host, failures>>
          /\ \A v \in Workers : v # w => worker'[v] = worker[v]
      BY <1>2, <2>6 DEF ReportError, PoolIInv, PoolTypeOK
    <3>2. Leaves' = Leaves
      BY <3>1 DEF Leaves
    <3>3. QED
      BY <1>2, <2>0, <3>1, <3>2 DEF Starving
  <2>7. CASE UNCHANGED <<unfed, workerVars>>
    BY <1>2, <2>0, <2>7 DEF workerVars, Starving, Leaves
  <2>8. QED
    BY <1>2, <2>1, <2>2, <2>3, <2>4, <2>5, <2>6, <2>7
       DEF PoolNext, Worker, CloseIn, CloseRet, Return, PoolTerminated, poolVars, workerVars
<1>3. PoolIInv => PoolTypeOK
  BY DEF PoolIInv
<1>4. QED
  BY <1>1, <1>2, <1>3, PoolInvariant, PTL DEF PoolSpec

(* What a worker does: a host is handed to it, or it goes on with its own. *)
LEMMA WorkerStrikesOff ==
  ASSUME PoolIInv, Starving, NEW w \in Workers, (\E h \in unfed : Feed(w, h)) \/ Worker(w)
  PROVE  PoolOnlyStrikesOff
<1>0. Hosts' = Hosts
  BY HostsStay DEF PoolNext
<1>1. /\ UNCHANGED <<closed, caller>>
      /\ \A v \in Workers : v # w => host'[v] = host[v] /\ worker'[v] = worker[v]
      /\ \/ \E h \in unfed : unfed' = unfed \ {h} /\ worker[w] = "range" /\ worker'[w] = "fetch"
                             /\ host'[w] = h
         \/ /\ UNCHANGED <<unfed, host>>
            /\ \/ worker[w] = "fetch" /\ worker'[w] \in {"report", "fail"}
               \/ worker[w] = "range" /\ worker'[w] = "last"
               \/ worker[w] = "report" /\ worker'[w] = "range"
               \/ worker[w] \in {"fail", "last"} /\ worker'[w] = "exited"
  BY DEF Feed, Worker, FactsFound, FactsFail, NoMoreHosts, Report, ReportError, PoolIInv, PoolTypeOK
<1>2. /\ \A v \in Workers, h \in Hosts : FetchBefore(v, h)' => FetchBefore(v, h)
      /\ \A v \in Workers, h \in Hosts : AnswerBefore(v, h)' => AnswerBefore(v, h)
  BY <1>1 DEF FetchBefore, AnswerBefore
<1>3. /\ unfed' \subseteq unfed
      /\ FetchesLeft' \subseteq FetchesLeft /\ AnswersLeft' \subseteq AnswersLeft
  BY <1>0, <1>1, <1>2 DEF FetchesLeft, AnswersLeft
<1>4. /\ LastsLeft' \subseteq LastsLeft /\ ExitsLeft' \subseteq ExitsLeft
      /\ ClosesLeft' = ClosesLeft /\ ReturnsLeft' = ReturnsLeft
  BY <1>1 DEF LastsLeft, ExitsLeft, ClosesLeft, ReturnsLeft
<1>5. \/ unfed' # unfed \/ FetchesLeft' # FetchesLeft \/ AnswersLeft' # AnswersLeft
      \/ LastsLeft' # LastsLeft \/ ExitsLeft' # ExitsLeft
  <2>1. CASE worker[w] = "range"
    <3>1. unfed' # unfed \/ worker'[w] = "last"
      BY <1>1, <2>1
    <3>2. worker'[w] = "last" => w \in LastsLeft /\ w \notin LastsLeft'
      BY <2>1 DEF LastsLeft
    <3>3. QED
      BY <3>1, <3>2
  <2>2. CASE worker[w] \in {"fetch", "report"}
    <3>1. PICK h : h = host[w]
      OBVIOUS
    <3>2. h \in Hosts /\ h \notin unfed
      BY <2>2, <3>1 DEF Starving
    <3>3. CASE worker[w] = "fetch"
      <4>1. <<w, h>> \in FetchesLeft
        BY <3>1, <3>2, <3>3 DEF FetchesLeft, FetchBefore
      <4>2. ~FetchBefore(w, h)'
        BY <1>1, <3>2, <3>3 DEF FetchBefore
      <4>3. <<w, h>> \notin FetchesLeft'
        BY <4>2 DEF FetchesLeft
      <4>4. QED
        BY <4>1, <4>3
    <3>4. CASE worker[w] = "report"
      <4>1. <<w, h>> \in AnswersLeft
        BY <3>1, <3>2, <3>4 DEF AnswersLeft, AnswerBefore
      <4>2. ~AnswerBefore(w, h)'
        BY <1>1, <3>2, <3>4 DEF AnswerBefore
      <4>3. <<w, h>> \notin AnswersLeft'
        BY <4>2 DEF AnswersLeft
      <4>4. QED
        BY <4>1, <4>3
    <3>5. QED
      BY <2>2, <3>3, <3>4
  <2>3. CASE worker[w] \in {"fail", "last"}
    <3>1. w \in ExitsLeft /\ w \notin ExitsLeft'
      BY <1>1, <2>3 DEF ExitsLeft
    <3>2. QED
      BY <3>1
  <2>4. QED
    BY <1>1, <2>1, <2>2, <2>3
<1>6. QED
  BY <1>3, <1>4, <1>5 DEF PoolOnlyStrikesOff, AllPoolLeft

(***************************************************************************)
(* Finitely much is left for the pool, no step adds to it and every step   *)
(* strikes something off.                                                  *)
(***************************************************************************)
THEOREM PoolTakesFinitelyManySteps == PoolSpec => []FinitelyMuchPoolLeft /\ [][PoolOnlyStrikesOff]_poolVars
<1>1. ASSUME PoolIInv, Starving, PoolNext PROVE PoolOnlyStrikesOff \/ UNCHANGED poolVars
  <2>1. CASE CloseIn \/ CloseRet \/ Return
    <3>0. Hosts' = Hosts
      BY <2>1, HostsStay DEF PoolNext
    <3>1. UNCHANGED <<unfed, worker, host>>
      BY <2>1 DEF CloseIn, CloseRet, Return, workerVars
    <3>2. /\ FetchesLeft' = FetchesLeft /\ AnswersLeft' = AnswersLeft
          /\ LastsLeft' = LastsLeft /\ ExitsLeft' = ExitsLeft
      BY <3>0, <3>1 DEF FetchesLeft, FetchBefore, AnswersLeft, AnswerBefore, LastsLeft, ExitsLeft
    <3>3. \/ /\ caller' = caller
             /\ \E c \in {"inCh", "retCh"} : c \notin closed /\ closed' = closed \union {c}
          \/ closed' = closed /\ caller = "collect" /\ caller' # "collect"
      BY <2>1 DEF CloseIn, CloseRet, Return
    <3>4. /\ ClosesLeft' \subseteq ClosesLeft /\ ReturnsLeft' \subseteq ReturnsLeft
          /\ ClosesLeft' # ClosesLeft \/ ReturnsLeft' # ReturnsLeft
      BY <3>3 DEF ClosesLeft, ReturnsLeft
    <3>5. QED
      BY <3>1, <3>2, <3>4 DEF PoolOnlyStrikesOff, AllPoolLeft
  <2>2. QED
    BY <1>1, <2>1, WorkerStrikesOff DEF PoolNext, PoolTerminated
<1>2. PoolIInv => FinitelyMuchPoolLeft
  BY FinitelyMuchForThePool DEF PoolIInv
<1>3. PoolIInv /\ Starving /\ [PoolNext]_poolVars => [PoolOnlyStrikesOff]_poolVars
  BY <1>1
<1>4. QED
  BY <1>2, <1>3, PoolInvariant, AlwaysStarving, PTL DEF PoolSpec

(***************************************************************************)
(* Once as many calls have failed as there are workers while a host is     *)
(* left, GetHostsForTest never returns: no step of the pool changes that.  *)
(***************************************************************************)
THEOREM StarvesForEver == PoolSpec => [][Starved => Starved']_poolVars
<1>1. ASSUME PoolIInv, Starved, PoolNext PROVE Starved'
  <2>1. /\ \A w \in Workers : worker[w] = "exited"
        /\ unfed # {} /\ failures >= Cardinality(Workers)
    BY <1>1 DEF Starved
  <2>2. \A w \in Workers : ~Worker(w) /\ \A h \in unfed : ~Feed(w, h)
    BY <2>1 DEF Worker, FactsFound, FactsFail, NoMoreHosts, Report, ReportError, Feed
  <2>3. UNCHANGED <<unfed, worker, failures>>
    BY <1>1, <2>2 DEF PoolNext, CloseIn, CloseRet, Return, PoolTerminated, workerVars, poolVars
  <2>4. QED
    BY <2>1, <2>3 DEF Starved
<1>2. QED
  BY <1>1, PoolInvariant, PTL DEF PoolSpec

(***************************************************************************)
(* A pool in which everybody waits has starved: as long as one worker is   *)
(* left, or no host is, the feeder, a worker or the caller can go on.      *)
(***************************************************************************)
THEOREM BlocksOnlyIfStarved == PoolSpec => [](caller # "collect" \/ Starved \/ PoolCanStep)
<1>1. PoolIInv /\ Starving => caller # "collect" \/ Starved \/ PoolCanStep
  <2> SUFFICES ASSUME PoolIInv, Starving, caller = "collect", ~PoolCanStep PROVE Starved
    OBVIOUS
  <2>1. "retCh" \notin closed
    BY DEF PoolCanStep
  <2>2. \A w \in Workers : worker[w] = "exited"
    <3>1. SUFFICES ASSUME NEW w \in Workers, worker[w] = "range" PROVE FALSE
      BY DEF PoolIInv, PoolTypeOK, PoolCanStep
    <3>2. QED
      BY <3>1 DEF PoolCanStep
  <2>3. unfed # {}
    BY <2>1, <2>2 DEF PoolCanStep
  <2>4. Leaves = Workers
    BY <2>2 DEF Leaves
  <2>5. Cardinality(Workers) \in Nat /\ failures \in Nat
    BY FiniteAssumption, FS_CardinalityType DEF PoolIInv, PoolTypeOK
  <2>6. failures >= Cardinality(Workers)
    BY <2>3, <2>4, <2>5 DEF Starving
  <2>7. QED
    BY <2>2, <2>3, <2>6 DEF Starved
<1>2. QED
  BY <1>1, PoolInvariant, AlwaysStarving, PTL
=============================================================================
