--------------------------- MODULE RunnerContract ---------------------------
(***************************************************************************)
(* What run() relies on when it calls Execute of a runner: the main tasks  *)
(* of the plan are run one after the other; while a main task is run the   *)
(* result of each of its clients is sent to the parser at most once, in    *)
(* sequential mode in the order of the plan; and the runner moves on only  *)
(* when every client of the task is accounted for, by its result or by     *)
(* having failed.                                                          *)
(***************************************************************************)
EXTENDS Integers, FiniteSets

CONSTANTS NTasks, NClients

Tasks   == 1..NTasks
Clients == 1..NClients
Inputs  == Tasks \X Clients

VARIABLES
  mode,           \* RunOptions.Mode, the same for the whole test
  task,           \* the main task being run
  returned,       \* Execute has returned
  delivered,      \* the client runs whose result was sent to the parser
  failedServers,
  failedClients   \* those that failed, recorded in the Status or not

vars == <<mode, task, returned, delivered, failedServers, failedClients>>

Init ==
  /\ mode \in {"sequential", "parallel"}
  /\ task = 1 /\ returned = FALSE
  /\ delivered = {} /\ failedServers = {} /\ failedClients = {}

Deliver(c) ==
  /\ ~returned
  /\ <<task, c>> \notin delivered
  /\ mode = "sequential" =>
       \A d \in Clients : d > c => <<task, d>> \notin delivered \union failedClients
  /\ delivered' = delivered \union {<<task, c>>}
  /\ UNCHANGED <<mode, task, returned, failedServers, failedClients>>

\* A client may also fail after its result was sent, a server at any time.
FailClient(c) ==
  /\ ~returned
  /\ failedClients' = failedClients \union {<<task, c>>}
  /\ UNCHANGED <<mode, task, returned, delivered, failedServers>>

FailServer ==
  /\ ~returned
  /\ failedServers' = failedServers \union {task}
  /\ UNCHANGED <<mode, task, returned, delivered, failedClients>>

Accounted(c, servers) ==
  task \in servers \/ <<task, c>> \in delivered \union failedClients

EndTask ==
  /\ ~returned
  /\ failedServers' \in {failedServers, failedServers \union {task}}
  /\ \A c \in Clients : Accounted(c, failedServers')
  /\ \/ task < NTasks /\ task' = task + 1 /\ UNCHANGED returned
     \/ task = NTasks /\ returned' = TRUE /\ UNCHANGED task
  /\ UNCHANGED <<mode, delivered, failedClients>>

Next ==
  \/ \E c \in Clients : Deliver(c) \/ FailClient(c)
  \/ FailServer
  \/ EndTask

Spec == Init /\ [][Next]_vars
=============================================================================
