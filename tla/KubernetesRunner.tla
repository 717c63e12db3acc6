-------------------------- MODULE KubernetesRunner --------------------------
(***************************************************************************)
(* Prepare, Execute and Cleanup of runners/kubernetes: Prepare sees to the *)
(* namespace; then, in Execute, the main goroutine brings a server pod up, *)
(* starts a goroutine per client and deletes the server pod again; a       *)
(* client goroutine creates its pod, waits for it to succeed, sends its    *)
(* logs to the parser and deletes it.                                      *)
(*                                                                         *)
(* One step is one call of the Kubernetes API or one access to the         *)
(* variable pod, which all the goroutines of a main task share.  A poll    *)
(* that finds nothing new is no step; giving up after the timeout is.      *)
(* GetPNameFromTask builds a pod name from role, command and start time,   *)
(* so all the server pods of a test have one name and all the client pods  *)
(* another: a pod is identified by its role.                               *)
(*                                                                         *)
(* Cleanup follows Execute, as in run() when continueOnError is set.  The  *)
(* parser may stop receiving after any result, as module Pipeline has it.  *)
(***************************************************************************)
EXTENDS Integers, FiniteSets

CONSTANTS
  NTasks,    \* main tasks of the plan
  NClients   \* sub tasks of each main task

ASSUME KubernetesAssumption ==
  NTasks \in Nat \ {0} /\ NClients \in Nat

Tasks   == 1..NTasks
Clients == 1..NClients
Inputs  == Tasks \X Clients
Roles   == {"server", "client"}

\* Whom a pod was created for: <<task, client>>, or <<task, 0>> for the server.
Owners == Tasks \X (0..NClients)
NoOwner == <<0, 0>>
NoPod  == [owner |-> NoOwner, phase |-> "None", deleting |-> FALSE]
NewPod(o) == [owner |-> o, phase |-> "Pending", deleting |-> FALSE]

VARIABLES
  mode,          \* RunOptions.Mode
  faulty,        \* calls may return errors, and waits give up after their timeouts
  namespace,     \* the namespace of the configuration exists
  pods,          \* the pods of this test in the cluster, by role
  main, task, spawned,
  client,        \* where each client goroutine is
  pod,           \* the variable pod of createPodsForTasks: for whom it is
  arg,           \* the value of pod each client passed to PodRecreate, until it returns
  logs,          \* whose log stream each client has opened, until it is sent
  sent,          \* <<i, o>>: sent to the parser for i, the logs of o's pod
  receiving,     \* somebody still receives from inCh
  failedServers, failedClients,
  okServers, okClients,
  lostFails, lostOks,  \* the clients whose write to one of these maps was lost
  listed         \* what Cleanup still has to delete

setup      == <<mode, faulty, namespace>>  \* only Prepare changes namespace
mainVars   == <<main, task, spawned>>
clientVars == <<client, arg, logs, sent, receiving>>
statusVars == <<failedServers, failedClients, okServers, okClients, lostFails, lostOks>>
vars == <<setup, pods, mainVars, pod, clientVars, statusVars, listed>>

Init ==
  /\ mode \in {"sequential", "parallel"} /\ faulty \in BOOLEAN
  /\ namespace \in BOOLEAN
  /\ pods = [r \in Roles |-> NoPod]
  /\ main = "prepare" /\ task = 1 /\ spawned = 0
  /\ client = [c \in Clients |-> "idle"]
  /\ pod = NoOwner
  /\ arg = [c \in Clients |-> NoOwner]
  /\ logs = [c \in Clients |-> NoOwner]
  /\ sent = {} /\ receiving = TRUE
  /\ failedServers = {} /\ failedClients = {} /\ okServers = {} /\ okClients = {}
  /\ lostFails = {} /\ lostOks = {}
  /\ listed = {}

-----------------------------------------------------------------------------
(* The calls of the Kubernetes API that k8sutil makes                      *)

Exists(r) == pods[r] # NoPod

\* Deleting marks the pod; the kubelet removes it later.  NotFound is success.
DeletePod(r) ==
  pods' = IF Exists(r) THEN [pods EXCEPT ![r].deleting = TRUE] ELSE pods

\* PodRecreate takes AlreadyExists for success.
CreatePod(r, o) ==
  pods' = IF Exists(r) THEN pods ELSE [pods EXCEPT ![r] = NewPod(o)]

\* Kubelet and scheduler, outside the program.
Kubelet(r) ==
  /\ Exists(r)
  /\ \/ pods[r].phase = "Pending" /\ pods' = [pods EXCEPT ![r].phase = "Running"]
     \/ /\ r = "client" /\ pods[r].phase = "Running"
        /\ pods' = [pods EXCEPT ![r].phase = "Succeeded"]
     \/ pods[r].deleting /\ pods' = [pods EXCEPT ![r] = NoPod]
  /\ UNCHANGED <<setup, mainVars, pod, clientVars, statusVars, listed>>

-----------------------------------------------------------------------------
(* The main goroutine                                                      *)

ClientsReturned == \A c \in Clients : client[c] \in {"idle", "returned"}

MainGoes(from, to) ==
  /\ main = from /\ main' = to
  /\ UNCHANGED <<setup, task, spawned, clientVars, statusVars, listed>>

\* Prepare: Get of the namespace.
GetNamespace ==
  /\ MainGoes("prepare", IF namespace THEN "assign" ELSE "namespace")
  /\ UNCHANGED <<pods, pod>>

CreateNamespace ==
  /\ main = "namespace" /\ main' = "assign"
  /\ namespace' = TRUE
  /\ UNCHANGED <<mode, faulty, pods, task, spawned, pod, clientVars, statusVars, listed>>

\* run() returns the error: there is no Execute.
PrepareFails ==
  /\ faulty /\ main \in {"prepare", "namespace"}
  /\ MainGoes(main, "prepareFailed") /\ UNCHANGED <<pods, pod>>

AfterTask ==
  /\ main' = IF task < NTasks THEN "assign" ELSE "returned"
  /\ task' = IF task < NTasks THEN task + 1 ELSE task

AssignServerPod ==
  /\ MainGoes("assign", "delete")
  /\ pod' = <<task, 0>> /\ UNCHANGED pods

\* Faulty: the old pod is not waited for.
DeleteOldServerOnly ==
  /\ MainGoes("delete", "create")
  /\ DeletePod("server") /\ UNCHANGED pod

DeleteOldServer ==
  /\ MainGoes("delete", IF Exists("server") THEN "gone" ELSE "create")
  /\ DeletePod("server") /\ UNCHANGED pod

OldServerGone ==
  /\ ~Exists("server") /\ MainGoes("gone", "create") /\ UNCHANGED <<pods, pod>>

CreateServer ==
  /\ MainGoes("create", "run")
  /\ CreatePod("server", pod) /\ UNCHANGED pod

ServerRuns ==
  /\ pods["server"].phase = "Running"
  /\ MainGoes("run", "address") /\ UNCHANGED <<pods, pod>>

\* Get of the server pod for its IP overwrites the variable pod.
ServerAddress ==
  /\ main = "address" /\ Exists("server")
  /\ main' = "clients" /\ spawned' = 0
  /\ pod' = pods["server"].owner
  /\ client' = [c \in Clients |-> "idle"]
  /\ UNCHANGED <<setup, pods, task, arg, logs, sent, receiving, statusVars, listed>>

\* Faulty: one client too many.
StartOneMore ==
  /\ main = "clients" /\ spawned <= NClients
  /\ mode = "parallel" \/ ClientsReturned
  /\ spawned' = spawned + 1
  /\ client' = [client EXCEPT ![spawned + 1] = "assign"]
  /\ UNCHANGED <<setup, pods, main, task, pod, arg, logs, sent, receiving, statusVars, listed>>

\* Faulty: the wait between the clients is missing in sequential mode.
StartWithoutWait ==
  /\ main = "clients" /\ spawned < NClients
  /\ spawned' = spawned + 1
  /\ client' = [client EXCEPT ![spawned + 1] = "assign"]
  /\ UNCHANGED <<setup, pods, main, task, pod, arg, logs, sent, receiving, statusVars, listed>>

StartClient ==
  /\ main = "clients" /\ spawned < NClients
  /\ mode = "parallel" \/ ClientsReturned
  /\ spawned' = spawned + 1
  /\ client' = [client EXCEPT ![spawned + 1] = "assign"]
  /\ UNCHANGED <<setup, pods, main, task, pod, arg, logs, sent, receiving, statusVars, listed>>

DeleteServer ==
  /\ spawned = NClients /\ ClientsReturned
  /\ MainGoes("clients", "deleted")
  /\ DeletePod("server") /\ UNCHANGED pod

ServerGone ==
  /\ main = "deleted" /\ ~Exists("server")
  /\ okServers' = okServers \union {task}
  /\ AfterTask
  /\ UNCHANGED <<setup, pods, spawned, pod, clientVars, failedServers, failedClients, okClients,
                 lostFails, lostOks, listed>>

\* Faulty: the failure of a server that does not come up is not recorded.
ServerFailsSilently ==
  /\ faulty /\ main \in {"gone", "run", "deleted"}
  /\ AfterTask
  /\ UNCHANGED <<setup, pods, spawned, pod, clientVars, statusVars, listed>>

\* Every failure of the server, also a deletion that is refused, ends the main task.
ServerFails ==
  /\ \/ faulty /\ main \in {"assign", "delete", "gone", "create", "run", "address", "deleted"}
     \/ faulty /\ main = "clients" /\ spawned = NClients /\ ClientsReturned
     \/ main \in {"run", "address"} /\ ~Exists("server")
  /\ failedServers' = failedServers \union {task}
  /\ AfterTask
  /\ UNCHANGED <<setup, pods, spawned, pod, clientVars, failedClients, okServers, okClients,
                 lostFails, lostOks, listed>>

\* Faulty: Cleanup asks for the pods of the clients only.
ListClientPods ==
  /\ main = "returned"
  /\ main' = "cleanup" /\ listed' = {r \in {"client"} : Exists(r)}
  /\ UNCHANGED <<setup, pods, task, spawned, pod, clientVars, statusVars>>

\* Cleanup: PodDeleteByLabels lists the pods and deletes them in name order.
ListPods ==
  /\ main = "returned"
  /\ main' = "cleanup" /\ listed' = {r \in Roles : Exists(r)}
  /\ UNCHANGED <<setup, pods, task, spawned, pod, clientVars, statusVars>>

\* On NotFound PodDeleteByLabels returns, whatever it still has to delete.
DeleteListed ==
  /\ main = "cleanup"
  /\ \E r \in listed :
       /\ r = "client" \/ "client" \notin listed
       /\ DeletePod(r)
       /\ listed' = IF Exists(r) THEN listed \ {r} ELSE {}
  /\ UNCHANGED <<setup, mainVars, pod, clientVars, statusVars>>

Cleaned ==
  /\ main = "cleanup" /\ listed = {}
  /\ main' = "cleaned"
  /\ UNCHANGED <<setup, pods, task, spawned, pod, clientVars, statusVars, listed>>

CleanupFails ==
  /\ faulty
  /\ main = "returned" \/ listed # {}
  /\ main' = "cleanupFailed" /\ listed' = {}
  /\ UNCHANGED <<setup, pods, task, spawned, pod, clientVars, statusVars>>

Main ==
  \/ GetNamespace \/ CreateNamespace \/ PrepareFails
  \/ AssignServerPod \/ DeleteOldServer \/ OldServerGone \/ CreateServer \/ ServerRuns
  \/ ServerAddress \/ StartClient \/ DeleteServer \/ ServerGone \/ ServerFails
  \/ ListPods \/ DeleteListed \/ Cleaned \/ CleanupFails

-----------------------------------------------------------------------------
(* A client goroutine                                                      *)

ClientGoes(c, from, to) ==
  /\ main = "clients" /\ client[c] = from
  /\ client' = [client EXCEPT ![c] = to]
  /\ UNCHANGED <<setup, mainVars, listed>>

AssignPod(c) ==
  /\ ClientGoes(c, "assign", "call")
  /\ pod' = <<task, c>>
  /\ UNCHANGED <<pods, arg, logs, sent, receiving, statusVars>>

\* The argument of PodRecreate is whatever pod holds by now.
CallRecreate(c) ==
  /\ ClientGoes(c, "call", "delete")
  /\ arg' = [arg EXCEPT ![c] = pod]
  /\ UNCHANGED <<pods, pod, logs, sent, receiving, statusVars>>

\* Faulty: the old pod is not waited for.
DeleteOldPodOnly(c) ==
  /\ ClientGoes(c, "delete", "create")
  /\ DeletePod("client")
  /\ UNCHANGED <<pod, arg, logs, sent, receiving, statusVars>>

DeleteOldPod(c) ==
  /\ ClientGoes(c, "delete", IF Exists("client") THEN "gone" ELSE "create")
  /\ DeletePod("client")
  /\ UNCHANGED <<pod, arg, logs, sent, receiving, statusVars>>

OldPodGone(c) ==
  /\ ~Exists("client") /\ ClientGoes(c, "gone", "create")
  /\ UNCHANGED <<pods, pod, arg, logs, sent, receiving, statusVars>>

CreateClientPod(c) ==
  /\ ClientGoes(c, "create", "run")
  /\ CreatePod("client", arg[c])
  /\ arg' = [arg EXCEPT ![c] = NoOwner]
  /\ UNCHANGED <<pod, logs, sent, receiving, statusVars>>

PodRunsOrSucceeded(c) ==
  /\ pods["client"].phase \in {"Running", "Succeeded"}
  /\ ClientGoes(c, "run", "succeed")
  /\ UNCHANGED <<pods, pod, arg, logs, sent, receiving, statusVars>>

PodSucceeded(c) ==
  /\ pods["client"].phase = "Succeeded"
  /\ ClientGoes(c, "succeed", "logs")
  /\ UNCHANGED <<pods, pod, arg, logs, sent, receiving, statusVars>>

OpenLogs(c) ==
  /\ Exists("client") /\ ClientGoes(c, "logs", "send")
  /\ logs' = [logs EXCEPT ![c] = pods["client"].owner]
  /\ UNCHANGED <<pods, pod, arg, sent, receiving, statusVars>>

\* inCh has no buffer: the send waits for the parser.
SendLogs(c) ==
  /\ receiving /\ ClientGoes(c, "send", "deletePod")
  /\ sent' = sent \union {<<<<task, c>>, logs[c]>>}
  /\ logs' = [logs EXCEPT ![c] = NoOwner]
  /\ UNCHANGED <<pods, pod, arg, receiving, statusVars>>

\* Faulty: the pod is deleted but not waited for.
DeleteClientPodOnly(c) ==
  /\ ClientGoes(c, "deletePod", "ok")
  /\ DeletePod("client")
  /\ UNCHANGED <<pod, arg, logs, sent, receiving, statusVars>>

\* Faulty: the pod is waited for but not deleted.
AwaitClientPodOnly(c) ==
  /\ ClientGoes(c, "deletePod", "deleted")
  /\ UNCHANGED <<pods, pod, arg, logs, sent, receiving, statusVars>>

DeleteClientPod(c) ==
  /\ ClientGoes(c, "deletePod", "deleted")
  /\ DeletePod("client")
  /\ UNCHANGED <<pod, arg, logs, sent, receiving, statusVars>>

ClientPodGone(c) ==
  /\ ~Exists("client") /\ ClientGoes(c, "deleted", "ok")
  /\ UNCHANGED <<pods, pod, arg, logs, sent, receiving, statusVars>>

\* The parser takes no further result: it has given up after an earlier one, or
\* waits for outputs that have.  It matters only to who wants to send.
ParserStops ==
  /\ receiving /\ sent # {}
  /\ main = "clients" /\ \E c \in Clients : client[c] = "send"
  /\ receiving' = FALSE
  /\ UNCHANGED <<setup, pods, mainVars, pod, client, arg, logs, sent, statusVars, listed>>

\* A goroutine waits for a parser that does not receive any more.
Blocked == ~receiving /\ \E c \in Clients : client[c] = "send"

\* Without faults a pod is gone in time, but for one that a blocked goroutine has
\* yet to delete: there too the wait gives up after its timeout.
ClientFails(c) ==
  /\ \/ faulty /\ client[c] \notin {"idle", "call", "send", "ok", "fail", "returned"}
     \/ Blocked /\ client[c] \in {"gone", "deleted"}
     \/ client[c] \in {"run", "succeed", "logs"} /\ ~Exists("client")
  /\ ClientGoes(c, client[c], "fail")
  /\ arg' = [arg EXCEPT ![c] = NoOwner]
  /\ UNCHANGED <<pods, pod, logs, sent, receiving, statusVars>>

\* Faulty: a failed client is only logged.
RecordSuccessOnly(c) ==
  /\ \/ /\ ClientGoes(c, "ok", "returned")
        /\ okClients' = okClients \union {<<task, c>>}
     \/ ClientGoes(c, "fail", "returned") /\ UNCHANGED okClients
  /\ UNCHANGED <<pods, pod, arg, logs, sent, receiving, failedClients, failedServers, okServers,
                 lostFails, lostOks>>

\* The maps have no lock: two goroutines may be in the same one.
Racing(c) == \E d \in Clients \ {c} : client[c] \in {"ok", "fail"} /\ client[d] = client[c]

\* AddSuccessfulClient and AddFailedClient write maps of the Status of the task.
\* What is written may be overwritten by another goroutine in the same map.
Record(c) ==
  /\ \/ /\ ClientGoes(c, "ok", "returned")
        /\ okClients' = okClients \union {<<task, c>>}
        /\ UNCHANGED <<failedClients, lostFails, lostOks>>
     \/ /\ ClientGoes(c, "fail", "returned")
        /\ failedClients' = failedClients \union {<<task, c>>}
        /\ UNCHANGED <<okClients, lostFails, lostOks>>
     \/ /\ Racing(c) /\ ClientGoes(c, "ok", "returned")
        /\ lostOks' = lostOks \union {<<task, c>>}
        /\ UNCHANGED <<failedClients, okClients, lostFails>>
     \/ /\ Racing(c) /\ ClientGoes(c, "fail", "returned")
        /\ lostFails' = lostFails \union {<<task, c>>}
        /\ UNCHANGED <<failedClients, okClients, lostOks>>
  /\ UNCHANGED <<pods, pod, arg, logs, sent, receiving, failedServers, okServers>>

\* Or the Go runtime notices and ends the program ("concurrent map writes").
MapRace ==
  /\ main = "clients"
  /\ \E c \in Clients : Racing(c)
  /\ main' = "crashed"
  /\ UNCHANGED <<setup, pods, task, spawned, pod, clientVars, statusVars, listed>>

Client(c) ==
  \/ AssignPod(c) \/ CallRecreate(c) \/ DeleteOldPod(c) \/ OldPodGone(c)
  \/ CreateClientPod(c) \/ PodRunsOrSucceeded(c) \/ PodSucceeded(c) \/ OpenLogs(c)
  \/ SendLogs(c) \/ DeleteClientPod(c) \/ ClientPodGone(c) \/ ClientFails(c)
  \/ Record(c)

-----------------------------------------------------------------------------
\* Nobody has anything left to do but to wait for a goroutine that is blocked.
Stuck ==
  /\ main = "clients" /\ Blocked
  /\ \A c \in Clients : client[c] \in {"idle", "send", "returned"}
  /\ mode = "parallel" => spawned = NClients

Ended == main \in {"cleaned", "cleanupFailed", "crashed", "prepareFailed"}

Terminated == (Ended \/ Stuck) /\ UNCHANGED vars

Next ==
  \/ Main
  \/ \E c \in Clients : Client(c)
  \/ MapRace \/ ParserStops
  \/ \E r \in Roles : Kubelet(r)
  \/ Terminated

Spec == Init /\ [][Next]_vars

(***************************************************************************)
(* Goroutines that can go on do; the cluster runs and removes pods.        *)
(***************************************************************************)
Fairness ==
  /\ WF_vars(Main)
  /\ \A c \in Clients : WF_vars(Client(c))
  /\ \A r \in Roles : WF_vars(Kubelet(r))

-----------------------------------------------------------------------------
(* Properties                                                              *)

ExecuteReturned == main \in {"returned", "cleanup", "cleaned", "cleanupFailed"}

Pods == [owner : Owners, phase : {"Pending", "Running", "Succeeded"}, deleting : BOOLEAN]
        \union {NoPod}

TypeOK ==
  /\ mode \in {"sequential", "parallel"} /\ faulty \in BOOLEAN /\ namespace \in BOOLEAN
  /\ pods \in [Roles -> Pods]
  /\ main \in {"assign", "delete", "gone", "create", "run", "address", "clients", "deleted",
               "returned", "cleanup", "cleaned", "cleanupFailed", "crashed",
               "prepare", "namespace", "prepareFailed"}
  /\ task \in Tasks /\ spawned \in 0..NClients
  /\ client \in [Clients -> {"idle", "assign", "call", "delete", "gone", "create", "run",
                             "succeed", "logs", "send", "deletePod", "deleted", "ok", "fail",
                             "returned"}]
  /\ pod \in Owners \union {NoOwner}
  /\ arg \in [Clients -> Owners \union {NoOwner}]
  /\ logs \in [Clients -> Owners \union {NoOwner}]
  /\ sent \subseteq Inputs \X Owners /\ receiving \in BOOLEAN
  /\ failedServers \subseteq Tasks /\ okServers \subseteq Tasks
  /\ failedClients \subseteq Inputs /\ okClients \subseteq Inputs
  /\ lostFails \subseteq Inputs /\ lostOks \subseteq Inputs
  /\ listed \subseteq Roles

(***************************************************************************)
(* Each client has a pod name of its own according to GetPNameFromTask     *)
(* ("calculating the checksums of the used names") and docs/demos.md, so   *)
(* that the logs sent to the parser as its result come from the pod        *)
(* created for it.  All the client pods have one name instead, and in      *)
(* parallel mode the property fails.                                       *)
(***************************************************************************)
LogsMatchClient == \A s \in sent : s[2] = s[1]

(***************************************************************************)
(* In sequential mode the one name does no harm, although failed clients   *)
(* leave their pods behind and all share the variable pod.                 *)
(***************************************************************************)
LogsMatchInSequence == mode = "sequential" => LogsMatchClient

(***************************************************************************)
(* As long as a client may run, the server pod its command was templated   *)
(* with exists, is running, belongs to this main task and not to a failed  *)
(* earlier one, and is not being deleted.                                  *)
(***************************************************************************)
ServerServesClients ==
  main = "clients" =>
    pods["server"] = [owner |-> <<task, 0>>, phase |-> "Running", deleting |-> FALSE]

(***************************************************************************)
(* When Execute returns every main task has one verdict, and every client  *)
(* of a task whose server was up to the end has exactly one, though in     *)
(* parallel mode it may have been lost among concurrent writes.  No        *)
(* failure goes unnoticed for that: where one was lost another one of the  *)
(* task was recorded, and checkForErrors asks for no more.  A client is    *)
(* only counted successful when its logs went to the parser.               *)
(***************************************************************************)
Verdicts ==
  ExecuteReturned =>
    /\ okServers \union failedServers = Tasks /\ okServers \intersect failedServers = {}
    /\ (okClients \union lostOks) \intersect (failedClients \union lostFails) = {}
    /\ \A i \in Inputs : i[1] \in okServers =>
         i \in okClients \union failedClients \union lostOks \union lostFails
    /\ okClients \union lostOks \subseteq {s[1] : s \in sent}
    /\ mode = "sequential" => lostFails = {} /\ lostOks = {}
    /\ \A i \in lostFails : \E f \in failedClients : f[1] = i[1]

(***************************************************************************)
(* A run without a failed host leaves no pod behind, with or without       *)
(* cleanup.                                                                *)
(***************************************************************************)
NothingLeftWhenAllWell ==
  ExecuteReturned /\ failedServers = {} /\ failedClients = {} => \A r \in Roles : ~Exists(r)

(***************************************************************************)
(* Cleanup leaves no pod that nobody has deleted, with one exception: when *)
(* the pod of the clients has disappeared since the pods were listed, that *)
(* of the server is not deleted.  The comment of Cleanup, "remove all      *)
(* (left behind) Kubernetes resources", knows of no exception.             *)
(***************************************************************************)
CleanupDeletes ==
  main = "cleaned" =>
    \A r \in Roles : Exists(r) => pods[r].deleting \/ (r = "server" /\ ~Exists("client"))

(* The runner keeps what run() relies on, in both modes.  A client has     *)
(* failed for the contract also when the write that says so was lost.      *)
Contract == INSTANCE RunnerContract WITH
  returned <- ExecuteReturned, delivered <- {s[1] : s \in sent},
  failedClients <- failedClients \union lostFails

KeepsContract == Contract!Spec

(***************************************************************************)
(* Prepare, Execute and Cleanup end, even when client goroutines recreate  *)
(* and delete pods under each other's feet, unless the parser has stopped  *)
(* receiving: then everybody gets as far as waiting for it.                *)
(***************************************************************************)
EndsOrSticks == <>(Ended \/ Stuck)
=============================================================================
