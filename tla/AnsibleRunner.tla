--------------------------- MODULE AnsibleRunner ---------------------------
(***************************************************************************)
(* Execute of runners/ansible.  For each main task a goroutine runs the    *)
(* server command until the main goroutine cancels it, a few checks find   *)
(* out whether the server is up, and then a goroutine per client runs the  *)
(* client command and sends its output to the parser.                      *)
(*                                                                         *)
(* Execute looks at RunOptions of the plan when runTasks returns an error. *)
(* No tester sets them, so that ContinueOnError is nil and the look-up     *)
(* panics: the main goroutine is then at "panicked", whatever the          *)
(* configuration says.                                                     *)
(*                                                                         *)
(* The parser may stop receiving after any result, as module Pipeline has  *)
(* it.                                                                     *)
(***************************************************************************)
EXTENDS Integers, FiniteSets

CONSTANTS
  NTasks,    \* main tasks of the plan
  NClients,  \* sub tasks of each main task
  Retries,   \* commandRetries
  Faults     \* what may fail in this run

ASSUME AnsibleAssumption ==
  /\ NTasks \in Nat \ {0} /\ NClients \in Nat /\ Retries \in Nat
  /\ Faults \subseteq {"template", "server", "check", "client"}

Tasks   == 1..NTasks
Clients == 1..NClients
Inputs  == Tasks \X Clients

VARIABLES
  mode,          \* RunOptions.Mode; no step changes it
  main, task, spawned,
  checks,        \* failed checks of the server of this task
  stopped,       \* mainTaskStopped
  server,        \* the goroutine of the server command
  client,        \* the goroutine of each client command
  sent,          \* the client runs whose output the parser received
  receiving,     \* somebody still receives from inCh
  failedServers, failedClients, okServers, okClients,
  lostFails, lostOks,  \* the clients whose write to one of these maps was lost
  trouble        \* tasks whose server failed by itself or was not found up

mainVars   == <<main, task, spawned, checks, stopped>>
clientVars == <<client, sent, receiving>>
lostVars   == <<lostFails, lostOks>>
statusVars == <<failedServers, failedClients, okServers, okClients, lostVars>>
vars == <<mode, mainVars, server, clientVars, statusVars, trouble>>

Init ==
  /\ mode \in {"sequential", "parallel"}
  /\ main = "template" /\ task = 1 /\ spawned = 0 /\ checks = 0 /\ stopped = FALSE
  /\ server = "returned"
  /\ client = [c \in Clients |-> "idle"]
  /\ sent = {} /\ receiving = TRUE
  /\ failedServers = {} /\ failedClients = {} /\ okServers = {} /\ okClients = {}
  /\ lostFails = {} /\ lostOks = {}
  /\ trouble = {}

Alive == main \notin {"panicked", "crashed"}

-----------------------------------------------------------------------------
(* The main goroutine                                                      *)

StartServer ==
  /\ main = "template"
  /\ main' = "check" /\ checks' = 0 /\ stopped' = FALSE /\ spawned' = 0
  /\ server' = "running"
  /\ client' = [c \in Clients |-> "idle"]
  /\ UNCHANGED <<mode, task, sent, receiving, statusVars, trouble>>

\* AddFailedServer, and Execute panics on the error of runTasks.
GiveUpTask ==
  /\ failedServers' = failedServers \union {task}
  /\ trouble' = trouble \union {task}
  /\ main' = "panicked"
  /\ UNCHANGED <<mode, task, spawned, checks, stopped, server, clientVars>>
  /\ UNCHANGED <<failedClients, okServers, okClients, lostVars>>

TemplateFails == main = "template" /\ "template" \in Faults /\ GiveUpTask

\* pgrep on the host of the server
ServerFound ==
  /\ main = "check" /\ checks <= Retries
  /\ main' = "clients"
  /\ UNCHANGED <<mode, task, spawned, checks, stopped, server, clientVars, statusVars, trouble>>

\* Faulty: one check too many.
ServerNotFoundYet ==
  /\ main = "check" /\ "check" \in Faults /\ checks <= Retries + 1
  /\ checks' = checks + 1
  /\ UNCHANGED <<mode, main, task, spawned, stopped, server, clientVars, statusVars, trouble>>

ServerNotFound ==
  /\ main = "check" /\ "check" \in Faults /\ checks <= Retries
  /\ checks' = checks + 1
  /\ UNCHANGED <<mode, main, task, spawned, stopped, server, clientVars, statusVars, trouble>>

NotReady == main = "check" /\ checks > Retries /\ GiveUpTask

ClientsReturned == \A c \in Clients : client[c] \in {"idle", "returned"}

\* Faulty: the wait between the clients is missing in sequential mode.
StartWithoutWait ==
  /\ main = "clients" /\ spawned < NClients
  /\ spawned' = spawned + 1
  /\ client' = [client EXCEPT ![spawned + 1] = "command"]
  /\ UNCHANGED <<mode, main, task, checks, stopped, server, sent, receiving, statusVars, trouble>>

StartClient ==
  /\ main = "clients" /\ spawned < NClients
  /\ mode = "parallel" \/ ClientsReturned
  /\ spawned' = spawned + 1
  /\ client' = [client EXCEPT ![spawned + 1] = "command"]
  /\ UNCHANGED <<mode, main, task, checks, stopped, server, sent, receiving, statusVars, trouble>>

\* Faulty: mainTaskStopped is not set before the server is cancelled.
MarkSuccessOnly ==
  /\ main = "clients" /\ spawned = NClients /\ ClientsReturned
  /\ okServers' = okServers \union {task}
  /\ main' = "cancel"
  /\ UNCHANGED <<mode, task, spawned, checks, stopped, server, clientVars, trouble>>
  /\ UNCHANGED <<failedServers, failedClients, okClients, lostVars>>

MarkStopped ==
  /\ main = "clients" /\ spawned = NClients /\ ClientsReturned
  /\ okServers' = okServers \union {task}
  /\ stopped' = TRUE
  /\ main' = "cancel"
  /\ UNCHANGED <<mode, task, spawned, checks, server, clientVars, trouble>>
  /\ UNCHANGED <<failedServers, failedClients, okClients, lostVars>>

\* Faulty: mainCancel() comes after mainWG.Wait().
CancelLater ==
  /\ main = "cancel"
  /\ main' = "wait"
  /\ UNCHANGED <<mode, task, spawned, checks, stopped, server, clientVars, statusVars, trouble>>

\* mainCancel() kills the server command if it still runs.
Cancel ==
  /\ main = "cancel"
  /\ main' = "wait"
  /\ server' = IF server = "running" THEN "killed" ELSE server
  /\ UNCHANGED <<mode, task, spawned, checks, stopped, clientVars, statusVars, trouble>>

\* Faulty: mainWG.Wait() is missing.
EndTaskEarly ==
  /\ main = "wait"
  /\ main' = IF task < NTasks THEN "template" ELSE "returned"
  /\ task' = IF task < NTasks THEN task + 1 ELSE task
  /\ UNCHANGED <<mode, spawned, checks, stopped, server, clientVars, statusVars, trouble>>

\* mainWG.Wait(), then the next task.
EndTask ==
  /\ main = "wait" /\ server = "returned"
  /\ main' = IF task < NTasks THEN "template" ELSE "returned"
  /\ task' = IF task < NTasks THEN task + 1 ELSE task
  /\ UNCHANGED <<mode, spawned, checks, stopped, server, clientVars, statusVars, trouble>>

Main ==
  \/ StartServer \/ TemplateFails \/ ServerFound \/ ServerNotFound \/ NotReady
  \/ StartClient \/ MarkStopped \/ Cancel \/ EndTask

-----------------------------------------------------------------------------
(* The goroutine of the server command                                     *)

\* The command may end while the test runs, with or without an error.
ServerEnds ==
  /\ Alive /\ server = "running" /\ "server" \in Faults
  /\ \/ server' = "returned" /\ UNCHANGED trouble
     \/ server' = "failed" /\ trouble' = trouble \union {task}
  /\ UNCHANGED <<mode, mainVars, clientVars, statusVars>>

\* mainTaskStopped is read without synchronisation: only after the kill, which
\* follows the write, is the value read sure to be the latest.
ServerErrorIgnored ==
  /\ Alive /\ server \in {"failed", "killed"} /\ stopped
  /\ server' = "returned"
  /\ UNCHANGED <<mode, mainVars, clientVars, statusVars, trouble>>

ServerErrorCounts ==
  /\ Alive
  /\ \/ server = "failed"
     \/ server = "killed" /\ ~stopped
  /\ server' = "record"
  /\ UNCHANGED <<mode, mainVars, clientVars, statusVars, trouble>>

RecordServer ==
  /\ Alive /\ server = "record"
  /\ server' = "returned"
  /\ failedServers' = failedServers \union {task}
  /\ UNCHANGED <<mode, mainVars, clientVars, failedClients, okServers, okClients, lostVars>>
  /\ UNCHANGED trouble

Server == ServerEnds \/ ServerErrorIgnored \/ ServerErrorCounts \/ RecordServer

-----------------------------------------------------------------------------
(* The goroutine of a client command                                       *)

ClientGoes(c, from, to) ==
  /\ Alive /\ client[c] = from
  /\ client' = [client EXCEPT ![c] = to]
  /\ UNCHANGED <<mode, mainVars, server, failedServers, okServers, trouble>>

\* The maps of the Status have no lock: two goroutines may be in the same one.
Racing(c) == \E d \in Clients \ {c} : client[c] \in {"ok", "fail"} /\ client[d] = client[c]

CommandEnds(c) ==
  /\ \/ ClientGoes(c, "command", "ok")
     \/ "client" \in Faults /\ ClientGoes(c, "command", "fail")
  /\ UNCHANGED <<sent, receiving, failedClients, okClients, lostVars>>

\* Faulty: a failed client is only logged.
LogFailure(c) ==
  /\ ClientGoes(c, "fail", "returned")
  /\ UNCHANGED <<sent, receiving, failedClients, okClients, lostVars>>

\* What a goroutine writes may be overwritten by another one in the same map.
RecordFailure(c) ==
  /\ ClientGoes(c, "fail", "returned")
  /\ \/ failedClients' = failedClients \union {<<task, c>>} /\ UNCHANGED lostFails
     \/ Racing(c) /\ lostFails' = lostFails \union {<<task, c>>} /\ UNCHANGED failedClients
  /\ UNCHANGED <<sent, receiving, okClients, lostOks>>

\* The client counts as successful before its output is sent.
RecordSuccess(c) ==
  /\ ClientGoes(c, "ok", "send")
  /\ \/ okClients' = okClients \union {<<task, c>>} /\ UNCHANGED lostOks
     \/ Racing(c) /\ lostOks' = lostOks \union {<<task, c>>} /\ UNCHANGED okClients
  /\ UNCHANGED <<sent, receiving, failedClients, lostFails>>

\* inCh has no buffer: the send waits for the parser.
SendOutput(c) ==
  /\ receiving /\ ClientGoes(c, "send", "returned")
  /\ sent' = sent \union {<<task, c>>}
  /\ UNCHANGED <<receiving, failedClients, okClients, lostVars>>

Client(c) == CommandEnds(c) \/ RecordFailure(c) \/ RecordSuccess(c) \/ SendOutput(c)

\* The parser takes no further result: it has given up after an earlier one, or
\* waits for outputs that have.  It matters only to who wants to send.
ParserStops ==
  /\ Alive /\ receiving /\ sent # {}
  /\ \E c \in Clients : client[c] = "send"
  /\ receiving' = FALSE
  /\ UNCHANGED <<mode, mainVars, server, client, sent, statusVars, trouble>>

\* Or the Go runtime notices and ends the program ("concurrent map writes").
\* All the failures of a task, that of its server too, share the map Errors.
Failing == {c \in Clients : client[c] = "fail"}

MapRace ==
  /\ Alive
  /\ \/ \E c \in Clients : Racing(c)
     \/ server = "record" /\ Failing # {}
  /\ main' = "crashed"
  /\ UNCHANGED <<mode, task, spawned, checks, stopped, server, clientVars, statusVars, trouble>>

-----------------------------------------------------------------------------
\* A goroutine waits for a parser that does not receive any more, and runTasks for it.
Stuck ==
  /\ main = "clients" /\ ~receiving
  /\ \E c \in Clients : client[c] = "send"
  /\ \A c \in Clients : client[c] \in {"idle", "send", "returned"}
  /\ mode = "parallel" => spawned = NClients

Ended == main \in {"returned", "panicked", "crashed"}

Terminated == (Ended \/ Stuck) /\ UNCHANGED vars

Next ==
  \/ Main
  \/ Server
  \/ \E c \in Clients : Client(c)
  \/ MapRace \/ ParserStops
  \/ Terminated

Spec == Init /\ [][Next]_vars

(***************************************************************************)
(* Client commands and checks are bounded by taskCommandTimeout, the       *)
(* number of checks by commandRetries, and a cancelled server command is   *)
(* killed.                                                                 *)
(***************************************************************************)
FairSpec ==
  /\ Spec
  /\ WF_vars(Main) /\ WF_vars(ServerErrorIgnored \/ ServerErrorCounts \/ RecordServer)
  /\ \A c \in Clients : WF_vars(Client(c))

-----------------------------------------------------------------------------
(* Properties                                                              *)

ExecuteReturned == main = "returned"

TypeOK ==
  /\ mode \in {"sequential", "parallel"}
  /\ main \in {"template", "check", "clients", "cancel", "wait", "returned", "panicked", "crashed"}
  /\ task \in Tasks /\ spawned \in 0..NClients
  /\ checks \in 0..(Retries + 1) /\ stopped \in BOOLEAN
  /\ server \in {"running", "failed", "killed", "record", "returned"}
  /\ client \in [Clients -> {"idle", "command", "ok", "fail", "send", "returned"}]
  /\ sent \subseteq Inputs /\ receiving \in BOOLEAN
  /\ failedServers \subseteq Tasks /\ okServers \subseteq Tasks
  /\ failedClients \subseteq Inputs /\ okClients \subseteq Inputs
  /\ lostFails \subseteq Inputs /\ lostOks \subseteq Inputs
  /\ trouble \subseteq Tasks

(***************************************************************************)
(* "Ignore any error after the main task is stopped": the error every      *)
(* server command ends with when it is cancelled is never counted, so a    *)
(* failed server in the Status is one that had trouble of its own.         *)
(***************************************************************************)
StopIsNoFailure == failedServers \subseteq trouble

(***************************************************************************)
(* A goroutine never writes the Status of a task, or sends for it, after   *)
(* the main goroutine has gone on to another one: a late failure of a      *)
(* server is not counted against the next one.                             *)
(***************************************************************************)
NoStraggler ==
  main \in {"template", "returned"} => server = "returned" /\ ClientsReturned

(***************************************************************************)
(* When Execute moves on from a task the output of each of its clients has *)
(* reached the parser or the client has failed, and nobody has done both.  *)
(* In parallel mode a verdict may have been lost among concurrent writes,  *)
(* but no failure goes unnoticed for that: where one was lost another one  *)
(* of the task was recorded, and checkForErrors asks for no more.          *)
(***************************************************************************)
Verdicts ==
  LET done  == IF ExecuteReturned THEN Tasks ELSE 1..(task - 1)
      fails == failedClients \union lostFails IN
    /\ (okClients \union lostOks) \intersect fails = {}
    /\ sent \subseteq okClients \union lostOks
    /\ \A t \in done : t \in okServers
    /\ \A i \in done \X Clients : i \in sent \union fails
    /\ mode = "sequential" => lostFails = {} /\ lostOks = {}
    /\ \A i \in lostFails : i[1] \in done => \E f \in failedClients : f[1] = i[1]

(* The runner keeps what run() relies on.  A client has failed for the     *)
(* contract also when the write that says so was lost.                     *)
Contract == INSTANCE RunnerContract WITH
  returned <- ExecuteReturned, delivered <- sent,
  failedClients <- failedClients \union lostFails

KeepsContract == Contract!Spec

(***************************************************************************)
(* Execute returns or brings the program down, unless the parser has       *)
(* stopped receiving: then it gets as far as waiting for it.               *)
(***************************************************************************)
EndsOrSticks == <>(Ended \/ Stuck)

(***************************************************************************)
(* Execute warns "continuing after err" when ContinueOnError is set, and   *)
(* returns the error when it is not.  It does neither: it panics.          *)
(***************************************************************************)
ErrorsHandled == main # "panicked"
=============================================================================
