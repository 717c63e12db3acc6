----------------------- MODULE KubernetesRunnerProofs -----------------------
(***************************************************************************)
(* Proofs about KubernetesRunner for every number of tasks and clients, in *)
(* both modes, with and without faults of the cluster: the server pod      *)
(* serves the clients of its own task, in sequential mode the one name of  *)
(* the client pods does no harm, a run without failures leaves no pod, and *)
(* run() can rely on the verdicts of Execute.                              *)
(***************************************************************************)
EXTENDS KubernetesRunner, FiniteSetTheorems, TLAPS

(***************************************************************************)
(* A pod is only created for somebody, and logs are those of a pod.        *)
(***************************************************************************)
OwnersKnown ==
  /\ main \in {"delete", "gone", "create", "clients"} => pod \in Owners
  /\ \A c \in Clients : client[c] \in {"delete", "gone", "create"} => arg[c] \in Owners
  /\ \A c \in Clients : client[c] = "send" => logs[c] \in Owners

(***************************************************************************)
(* From its creation to the end of the clients the server pod is the one   *)
(* of this task, and nobody deletes it.                                    *)
(***************************************************************************)
ServerPod ==
  LET server == pods["server"] IN
  /\ main \in {"delete", "gone", "create"} => pod = <<task, 0>>
  /\ main = "create" => server = NoPod
  /\ main \in {"run", "address"} =>
       /\ server.owner = <<task, 0>> /\ ~server.deleting
       /\ server.phase \in {"Pending", "Running"}
  /\ main = "address" => server.phase = "Running"
  /\ main = "clients" => server = [owner |-> <<task, 0>>, phase |-> "Running", deleting |-> FALSE]

(***************************************************************************)
(* Goroutines run under "clients" only, Execute returns after the last     *)
(* task, and Cleanup alone has a list.                                     *)
(***************************************************************************)
Phases ==
  /\ main \notin {"clients", "crashed"} => ClientsReturned
  /\ ExecuteReturned => task = NTasks
  /\ listed # {} => main = "cleanup"

(***************************************************************************)
(* The clients of a task are started in order, in sequential mode one      *)
(* after the other.                                                        *)
(***************************************************************************)
Started ==
  main = "clients" =>
    /\ \A c \in Clients : client[c] = "idle" <=> c > spawned
    /\ mode = "sequential" =>
         \A c \in Clients : client[c] \notin {"idle", "returned"} => c = spawned

Delivered == {s[1] : s \in sent}

\* The clients that have succeeded and failed, whether or not it was recorded.
Oks   == okClients \union lostOks
Fails == failedClients \union lostFails

BeforeSend == {"idle", "assign", "call", "delete", "gone", "create", "run", "succeed", "logs",
               "send"}

(***************************************************************************)
(* The verdict on a client follows where its goroutine is.                 *)
(***************************************************************************)
VerdictSoFar(c) ==
  LET i == <<task, c>> IN
  /\ client[c] = "returned" <=> i \in Oks \union Fails
  /\ client[c] \in BeforeSend => i \notin Delivered
  /\ client[c] \in {"deletePod", "deleted", "ok"} => i \in Delivered

Done == IF ExecuteReturned THEN Tasks ELSE 1..(task - 1)

(***************************************************************************)
(* The verdicts on the tasks done, and those on the clients so far.        *)
(***************************************************************************)
Recorded ==
  /\ okServers \union failedServers = Done /\ okServers \intersect failedServers = {}
  /\ Oks \intersect Fails = {} /\ Oks \subseteq Delivered
  /\ \A i \in Inputs : i[1] \in okServers => i \in Oks \union Fails
  /\ \A i \in Oks \union Fails \union Delivered :
       /\ i[1] <= task
       /\ main \notin {"clients", "deleted", "crashed"} /\ ~ExecuteReturned => i[1] < task
  /\ main = "clients" => \A c \in Clients : VerdictSoFar(c)
  /\ main = "deleted" => \A c \in Clients : <<task, c>> \in Oks \union Fails

(***************************************************************************)
(* A write is only lost to that of another client.  Of the clients of a    *)
(* task that fail the last one is recorded.                                *)
(***************************************************************************)
Losses ==
  /\ mode = "sequential" => lostFails = {} /\ lostOks = {}
  /\ \A i \in lostFails :
       \/ \E f \in failedClients : f[1] = i[1]
       \/ /\ main \in {"clients", "crashed"} /\ i[1] = task
          /\ \E d \in Clients : client[d] = "fail"

(***************************************************************************)
(* In sequential mode only the client started last is under way, and what  *)
(* it finds under the one name is its own.                                 *)
(***************************************************************************)
OwnPod(c) ==
  /\ client[c] = "call" => pod = <<task, c>>
  /\ client[c] \in {"delete", "gone", "create"} => arg[c] = <<task, c>>
  /\ client[c] = "create" => ~Exists("client")
  /\ client[c] \in {"run", "succeed", "logs"} /\ Exists("client") =>
       pods["client"].owner = <<task, c>>
  /\ client[c] = "send" => logs[c] = <<task, c>>

OwnPods == main = "clients" /\ mode = "sequential" => \A c \in Clients : OwnPod(c)

(***************************************************************************)
(* A pod that is left over has somebody who will delete it, or is the      *)
(* result of a failure.                                                    *)
(***************************************************************************)
Leftovers ==
  /\ ExecuteReturned /\ Exists("server") => failedServers # {}
  /\ Exists("client") =>
       \/ failedClients # {}
       \/ \E c \in Clients :
            client[c] \in {"run", "succeed", "logs", "send", "deletePod", "deleted", "fail"}

IInv ==
  /\ TypeOK /\ OwnersKnown /\ ServerPod /\ Phases /\ Started /\ Recorded /\ Losses
  /\ OwnPods /\ LogsMatchInSequence /\ Leftovers

LEMMA Sizes == NTasks \in Nat /\ NTasks >= 1 /\ NClients \in Nat
BY KubernetesAssumption

-----------------------------------------------------------------------------
(* The calls of the Kubernetes API                                         *)

\* The pod of a cluster that is not NoPod has all its parts.
LEMMA PodParts ==
  ASSUME TypeOK, NEW r \in Roles, Exists(r)
  PROVE  pods[r] \in [owner : Owners, phase : {"Pending", "Running", "Succeeded"},
                      deleting : BOOLEAN]
BY DEF TypeOK, Exists, Pods

\* A pod of an owner is not NoPod, whatever its task: nobody owns task 0.
LEMMA OwnedExists ==
  ASSUME NEW p, p.owner \in Owners
  PROVE  p # NoPod
<1>1. p.owner # NoOwner
  BY DEF Owners, NoOwner, Tasks
<1>2. QED
  BY <1>1 DEF NoPod

\* Deleting marks the pod, if there is one, and touches no other.
LEMMA Deleting ==
  ASSUME TypeOK, NEW r \in Roles, DeletePod(r)
  PROVE  /\ pods' \in [Roles -> Pods]
         /\ \A q \in Roles : q # r => pods'[q] = pods[q]
         /\ (Exists(r))' <=> Exists(r)
         /\ pods'[r].owner = pods[r].owner
<1>1. CASE Exists(r)
  <2> DEFINE p == [pods[r] EXCEPT !.deleting = TRUE]
  <2>1. pods' = [pods EXCEPT ![r] = p]
    BY <1>1 DEF DeletePod
  <2>2. /\ p \in [owner : Owners, phase : {"Pending", "Running", "Succeeded"}, deleting : BOOLEAN]
        /\ p.owner = pods[r].owner
    BY <1>1, PodParts
  <2>3. p \in Pods /\ p # NoPod
    BY <2>2, OwnedExists DEF Pods
  <2> HIDE DEF p
  <2>4. pods \in [Roles -> Pods]
    BY DEF TypeOK
  <2>5. QED
    BY <1>1, <2>1, <2>2, <2>3, <2>4 DEF Exists
<1>2. CASE ~Exists(r)
  BY <1>2 DEF DeletePod, Exists, TypeOK
<1>3. QED
  BY <1>1, <1>2

\* Creating a pod of a name that is taken changes nothing.
LEMMA Creating ==
  ASSUME TypeOK, NEW r \in Roles, NEW o \in Owners, CreatePod(r, o)
  PROVE  /\ pods' \in [Roles -> Pods]
         /\ \A q \in Roles : q # r => pods'[q] = pods[q]
         /\ (Exists(r))'
         /\ pods'[r] = IF Exists(r) THEN pods[r] ELSE NewPod(o)
<1>1. CASE Exists(r)
  BY <1>1 DEF CreatePod, Exists, TypeOK
<1>2. CASE ~Exists(r)
  <2>1. pods' = [pods EXCEPT ![r] = NewPod(o)] /\ pods \in [Roles -> Pods]
    BY <1>2 DEF CreatePod, TypeOK
  <2>2. NewPod(o) \in [owner : Owners, phase : {"Pending", "Running", "Succeeded"},
                       deleting : BOOLEAN]
    BY DEF NewPod
  <2>3. NewPod(o) \in Pods /\ NewPod(o) # NoPod
    BY <2>2, OwnedExists DEF Pods
  <2>4. QED
    BY <1>2, <2>1, <2>3 DEF Exists
<1>3. QED
  BY <1>1, <1>2

\* The cluster runs pods, and removes them only when somebody deleted them.
LEMMA Running ==
  ASSUME TypeOK, NEW r \in Roles, Kubelet(r)
  PROVE  /\ pods' \in [Roles -> Pods]
         /\ \A q \in Roles : q # r => pods'[q] = pods[q]
         /\ \/ pods'[r] = NoPod /\ pods[r].deleting
            \/ /\ (Exists(r))'
               /\ pods'[r].owner = pods[r].owner /\ pods'[r].deleting = pods[r].deleting
               /\ \/ pods[r].phase = "Pending" /\ pods'[r].phase = "Running"
                  \/ r = "client" /\ pods'[r].phase = "Succeeded"
<1>1. Exists(r) /\ pods \in [Roles -> Pods]
  BY DEF Kubelet, TypeOK
<1>2. pods[r] \in [owner : Owners, phase : {"Pending", "Running", "Succeeded"}, deleting : BOOLEAN]
  BY <1>1, PodParts
<1>3. ASSUME NEW f \in {"Running", "Succeeded"}, pods' = [pods EXCEPT ![r].phase = f]
      PROVE  /\ pods' \in [Roles -> Pods] /\ (Exists(r))'
             /\ \A q \in Roles : q # r => pods'[q] = pods[q]
             /\ pods'[r].owner = pods[r].owner /\ pods'[r].deleting = pods[r].deleting
             /\ pods'[r].phase = f
  <2> DEFINE p == [pods[r] EXCEPT !.phase = f]
  <2>1. pods' = [pods EXCEPT ![r] = p]
    BY <1>3
  <2>2. /\ p \in [owner : Owners, phase : {"Pending", "Running", "Succeeded"}, deleting : BOOLEAN]
        /\ p.owner = pods[r].owner /\ p.deleting = pods[r].deleting /\ p.phase = f
    BY <1>2
  <2>3. p \in Pods /\ p # NoPod
    BY <2>2, OwnedExists DEF Pods
  <2> HIDE DEF p
  <2>4. QED
    BY <1>1, <2>1, <2>2, <2>3 DEF Exists
<1>4. ASSUME pods[r].deleting, pods' = [pods EXCEPT ![r] = NoPod]
      PROVE  pods' \in [Roles -> Pods] /\ pods'[r] = NoPod
             /\ \A q \in Roles : q # r => pods'[q] = pods[q]
  BY <1>1, <1>4 DEF Pods
<1>5. QED
  BY <1>3, <1>4 DEF Kubelet

-----------------------------------------------------------------------------
(* The inductive invariant                                                 *)

LEMMA StartsTyped == Init => TypeOK /\ OwnersKnown
<1> SUFFICES ASSUME Init PROVE TypeOK /\ OwnersKnown
  OBVIOUS
<1>1. task \in Tasks /\ spawned \in 0..NClients
  BY Sizes DEF Init, Tasks
<1>2. pods \in [Roles -> Pods]
  BY DEF Init, Pods
<1>3. QED
  BY <1>1, <1>2 DEF Init, TypeOK, OwnersKnown

\* For whom pods are created in this task.
LEMMA TaskOwners ==
  ASSUME TypeOK
  PROVE  /\ <<task, 0>> \in Owners
         /\ \A c \in Clients : <<task, c>> \in Owners /\ <<task, c>> \in Inputs
BY Sizes DEF TypeOK, Owners, Clients, Inputs

\* Pods are created for owners, and logs are read from pods.
LEMMA TypingStep ==
  TypeOK /\ OwnersKnown /\ [Next]_vars => TypeOK'
<1> SUFFICES ASSUME TypeOK /\ OwnersKnown, [Next]_vars
             PROVE  TypeOK'
  OBVIOUS
<1> USE Sizes, TaskOwners
    DEF TypeOK, OwnersKnown, Exists, Tasks, Clients, Roles,
        vars, setup, mainVars, clientVars, statusVars
<1>1. CASE GetNamespace
  BY <1>1 DEF GetNamespace, MainGoes
<1>2. CASE CreateNamespace
  BY <1>2 DEF CreateNamespace
<1>3. CASE PrepareFails
  BY <1>3 DEF PrepareFails, MainGoes
<1>4. CASE AssignServerPod
  BY <1>4 DEF AssignServerPod, MainGoes
<1>5. CASE DeleteOldServer
  BY <1>5, Deleting DEF DeleteOldServer, MainGoes
<1>6. CASE OldServerGone
  BY <1>6 DEF OldServerGone, MainGoes
<1>7. CASE CreateServer
  BY <1>7, Creating DEF CreateServer, MainGoes
<1>8. CASE ServerRuns
  BY <1>8 DEF ServerRuns, MainGoes
<1>9. CASE ServerAddress
  BY <1>9, PodParts DEF ServerAddress
<1>10. CASE StartClient
  BY <1>10 DEF StartClient
<1>11. CASE DeleteServer
  BY <1>11, Deleting DEF DeleteServer, MainGoes
<1>12. CASE ServerGone
  BY <1>12 DEF ServerGone, AfterTask
<1>13. CASE ServerFails
  BY <1>13 DEF ServerFails, AfterTask
<1>14. CASE ListPods
  BY <1>14 DEF ListPods
<1>15. CASE DeleteListed
  BY <1>15, Deleting DEF DeleteListed
<1>16. CASE Cleaned
  BY <1>16 DEF Cleaned
<1>17. CASE CleanupFails
  BY <1>17 DEF CleanupFails
<1>18. ASSUME NEW c \in Clients, AssignPod(c) PROVE TypeOK'
  BY <1>18 DEF AssignPod, ClientGoes
<1>19. ASSUME NEW c \in Clients, CallRecreate(c) PROVE TypeOK'
  BY <1>19 DEF CallRecreate, ClientGoes
<1>20. ASSUME NEW c \in Clients, DeleteOldPod(c) PROVE TypeOK'
  BY <1>20, Deleting DEF DeleteOldPod, ClientGoes
<1>21. ASSUME NEW c \in Clients, OldPodGone(c) PROVE TypeOK'
  BY <1>21 DEF OldPodGone, ClientGoes
<1>22. ASSUME NEW c \in Clients, CreateClientPod(c) PROVE TypeOK'
  BY <1>22, Creating DEF CreateClientPod, ClientGoes
<1>23. ASSUME NEW c \in Clients, PodRunsOrSucceeded(c) PROVE TypeOK'
  BY <1>23 DEF PodRunsOrSucceeded, ClientGoes
<1>24. ASSUME NEW c \in Clients, PodSucceeded(c) PROVE TypeOK'
  BY <1>24 DEF PodSucceeded, ClientGoes
<1>25. ASSUME NEW c \in Clients, OpenLogs(c) PROVE TypeOK'
  BY <1>25, PodParts DEF OpenLogs, ClientGoes
<1>26. ASSUME NEW c \in Clients, SendLogs(c) PROVE TypeOK'
  BY <1>26 DEF SendLogs, ClientGoes
<1>27. ASSUME NEW c \in Clients, DeleteClientPod(c) PROVE TypeOK'
  BY <1>27, Deleting DEF DeleteClientPod, ClientGoes
<1>28. ASSUME NEW c \in Clients, ClientPodGone(c) PROVE TypeOK'
  BY <1>28 DEF ClientPodGone, ClientGoes
<1>29. ASSUME NEW c \in Clients, ClientFails(c) PROVE TypeOK'
  BY <1>29 DEF ClientFails, ClientGoes
<1>30. ASSUME NEW c \in Clients, Record(c) PROVE TypeOK'
  BY <1>30 DEF Record, Racing, ClientGoes
<1>31. CASE MapRace \/ ParserStops
  BY <1>31 DEF MapRace, ParserStops
<1>32. ASSUME NEW r \in Roles, Kubelet(r) PROVE TypeOK'
  BY <1>32, Running DEF Kubelet
<1>33. CASE UNCHANGED vars
  BY <1>33
<1>34. QED
  BY <1>1, <1>2, <1>3, <1>4, <1>5, <1>6, <1>7, <1>8, <1>9, <1>10, <1>11, <1>12,
     <1>13, <1>14, <1>15, <1>16, <1>17, <1>18, <1>19, <1>20, <1>21, <1>22, <1>23, <1>24,
     <1>25, <1>26, <1>27, <1>28, <1>29, <1>30, <1>31, <1>32, <1>33
     DEF Next, Main, Client, Terminated

\* Whoever creates a pod has assigned the variable before.
LEMMA OwnersStep ==
  TypeOK /\ OwnersKnown /\ [Next]_vars => OwnersKnown'
<1> SUFFICES ASSUME TypeOK /\ OwnersKnown, [Next]_vars
             PROVE  OwnersKnown'
  OBVIOUS
<1> USE Sizes, TaskOwners
    DEF TypeOK, OwnersKnown, Exists, Clients, Roles,
        vars, setup, mainVars, clientVars, statusVars
<1>1. CASE GetNamespace
  BY <1>1 DEF GetNamespace, MainGoes
<1>2. CASE CreateNamespace
  BY <1>2 DEF CreateNamespace
<1>3. CASE PrepareFails
  BY <1>3 DEF PrepareFails, MainGoes
<1>4. CASE AssignServerPod
  BY <1>4 DEF AssignServerPod, MainGoes
<1>5. CASE DeleteOldServer
  BY <1>5, Deleting DEF DeleteOldServer, MainGoes
<1>6. CASE OldServerGone
  BY <1>6 DEF OldServerGone, MainGoes
<1>7. CASE CreateServer
  BY <1>7, Creating DEF CreateServer, MainGoes
<1>8. CASE ServerRuns
  BY <1>8 DEF ServerRuns, MainGoes
<1>9. CASE ServerAddress
  BY <1>9, PodParts DEF ServerAddress
<1>10. CASE StartClient
  BY <1>10 DEF StartClient
<1>11. CASE DeleteServer
  BY <1>11, Deleting DEF DeleteServer, MainGoes
<1>12. CASE ServerGone
  BY <1>12 DEF ServerGone, AfterTask
<1>13. CASE ServerFails
  BY <1>13 DEF ServerFails, AfterTask
<1>14. CASE ListPods
  BY <1>14 DEF ListPods
<1>15. CASE DeleteListed
  BY <1>15, Deleting DEF DeleteListed
<1>16. CASE Cleaned
  BY <1>16 DEF Cleaned
<1>17. CASE CleanupFails
  BY <1>17 DEF CleanupFails
<1>18. ASSUME NEW c \in Clients, AssignPod(c) PROVE OwnersKnown'
  BY <1>18 DEF AssignPod, ClientGoes
<1>19. ASSUME NEW c \in Clients, CallRecreate(c) PROVE OwnersKnown'
  BY <1>19 DEF CallRecreate, ClientGoes
<1>20. ASSUME NEW c \in Clients, DeleteOldPod(c) PROVE OwnersKnown'
  BY <1>20, Deleting DEF DeleteOldPod, ClientGoes
<1>21. ASSUME NEW c \in Clients, OldPodGone(c) PROVE OwnersKnown'
  BY <1>21 DEF OldPodGone, ClientGoes
<1>22. ASSUME NEW c \in Clients, CreateClientPod(c) PROVE OwnersKnown'
  BY <1>22, Creating DEF CreateClientPod, ClientGoes
<1>23. ASSUME NEW c \in Clients, PodRunsOrSucceeded(c) PROVE OwnersKnown'
  BY <1>23 DEF PodRunsOrSucceeded, ClientGoes
<1>24. ASSUME NEW c \in Clients, PodSucceeded(c) PROVE OwnersKnown'
  BY <1>24 DEF PodSucceeded, ClientGoes
<1>25. ASSUME NEW c \in Clients, OpenLogs(c) PROVE OwnersKnown'
  BY <1>25, PodParts DEF OpenLogs, ClientGoes
<1>26. ASSUME NEW c \in Clients, SendLogs(c) PROVE OwnersKnown'
  BY <1>26 DEF SendLogs, ClientGoes
<1>27. ASSUME NEW c \in Clients, DeleteClientPod(c) PROVE OwnersKnown'
  BY <1>27, Deleting DEF DeleteClientPod, ClientGoes
<1>28. ASSUME NEW c \in Clients, ClientPodGone(c) PROVE OwnersKnown'
  BY <1>28 DEF ClientPodGone, ClientGoes
<1>29. ASSUME NEW c \in Clients, ClientFails(c) PROVE OwnersKnown'
  BY <1>29 DEF ClientFails, ClientGoes
<1>30. ASSUME NEW c \in Clients, Record(c) PROVE OwnersKnown'
  BY <1>30 DEF Record, Racing, ClientGoes
<1>31. CASE MapRace \/ ParserStops
  BY <1>31 DEF MapRace, ParserStops
<1>32. ASSUME NEW r \in Roles, Kubelet(r) PROVE OwnersKnown'
  BY <1>32, Running DEF Kubelet
<1>33. CASE UNCHANGED vars
  BY <1>33
<1>34. QED
  BY <1>1, <1>2, <1>3, <1>4, <1>5, <1>6, <1>7, <1>8, <1>9, <1>10, <1>11, <1>12,
     <1>13, <1>14, <1>15, <1>16, <1>17, <1>18, <1>19, <1>20, <1>21, <1>22, <1>23, <1>24,
     <1>25, <1>26, <1>27, <1>28, <1>29, <1>30, <1>31, <1>32, <1>33
     DEF Next, Main, Client, Terminated

\* Nothing has been started, created or recorded.
LEMMA StartsSafe ==
  Init => /\ ServerPod /\ Phases /\ Started /\ Recorded /\ Losses
          /\ OwnPods /\ LogsMatchInSequence /\ Leftovers
<1> SUFFICES ASSUME Init
             PROVE  /\ ServerPod /\ Phases /\ Started /\ Recorded /\ Losses
                    /\ OwnPods /\ LogsMatchInSequence /\ Leftovers
  OBVIOUS
<1>1. ServerPod /\ Phases /\ Started
  BY DEF Init, ServerPod, Phases, ClientsReturned, ExecuteReturned, Started
<1>2. Recorded /\ Losses
  BY Sizes DEF Init, Losses, Recorded, Oks, Fails, Done, ExecuteReturned, Delivered
<1>3. OwnPods /\ LogsMatchInSequence /\ Leftovers
  BY DEF Init, OwnPods, LogsMatchInSequence, LogsMatchClient, Leftovers, ExecuteReturned, Exists,
         Roles
<1>4. QED
  BY <1>1, <1>2, <1>3

\* The main goroutine waits for the clients it has started.
LEMMA PhasesStep ==
  TypeOK /\ Phases /\ [Next]_vars => Phases'
<1> SUFFICES ASSUME TypeOK /\ Phases, [Next]_vars
             PROVE  Phases'
  OBVIOUS
<1> USE Sizes
    DEF TypeOK, Phases, ClientsReturned, ExecuteReturned, Tasks,
        vars, setup, mainVars, clientVars, statusVars
<1>1. CASE GetNamespace
  BY <1>1 DEF GetNamespace, MainGoes
<1>2. CASE CreateNamespace
  BY <1>2 DEF CreateNamespace
<1>3. CASE PrepareFails
  BY <1>3 DEF PrepareFails, MainGoes
<1>4. CASE AssignServerPod
  BY <1>4 DEF AssignServerPod, MainGoes
<1>5. CASE DeleteOldServer
  BY <1>5, Deleting DEF DeleteOldServer, MainGoes
<1>6. CASE OldServerGone
  BY <1>6 DEF OldServerGone, MainGoes
<1>7. CASE CreateServer
  BY <1>7, Creating DEF CreateServer, MainGoes
<1>8. CASE ServerRuns
  BY <1>8 DEF ServerRuns, MainGoes
<1>9. CASE ServerAddress
  BY <1>9, PodParts DEF ServerAddress
<1>10. CASE StartClient
  BY <1>10 DEF StartClient
<1>11. CASE DeleteServer
  BY <1>11, Deleting DEF DeleteServer, MainGoes
<1>12. CASE ServerGone
  BY <1>12 DEF ServerGone, AfterTask
<1>13. CASE ServerFails
  BY <1>13 DEF ServerFails, AfterTask
<1>14. CASE ListPods
  BY <1>14 DEF ListPods
<1>15. CASE DeleteListed
  BY <1>15, Deleting DEF DeleteListed
<1>16. CASE Cleaned
  BY <1>16 DEF Cleaned
<1>17. CASE CleanupFails
  BY <1>17 DEF CleanupFails
<1>18. ASSUME NEW c \in Clients, AssignPod(c) PROVE Phases'
  BY <1>18 DEF AssignPod, ClientGoes
<1>19. ASSUME NEW c \in Clients, CallRecreate(c) PROVE Phases'
  BY <1>19 DEF CallRecreate, ClientGoes
<1>20. ASSUME NEW c \in Clients, DeleteOldPod(c) PROVE Phases'
  BY <1>20, Deleting DEF DeleteOldPod, ClientGoes
<1>21. ASSUME NEW c \in Clients, OldPodGone(c) PROVE Phases'
  BY <1>21 DEF OldPodGone, ClientGoes
<1>22. ASSUME NEW c \in Clients, CreateClientPod(c) PROVE Phases'
  BY <1>22, Creating DEF CreateClientPod, ClientGoes
<1>23. ASSUME NEW c \in Clients, PodRunsOrSucceeded(c) PROVE Phases'
  BY <1>23 DEF PodRunsOrSucceeded, ClientGoes
<1>24. ASSUME NEW c \in Clients, PodSucceeded(c) PROVE Phases'
  BY <1>24 DEF PodSucceeded, ClientGoes
<1>25. ASSUME NEW c \in Clients, OpenLogs(c) PROVE Phases'
  BY <1>25, PodParts DEF OpenLogs, ClientGoes
<1>26. ASSUME NEW c \in Clients, SendLogs(c) PROVE Phases'
  BY <1>26 DEF SendLogs, ClientGoes
<1>27. ASSUME NEW c \in Clients, DeleteClientPod(c) PROVE Phases'
  BY <1>27, Deleting DEF DeleteClientPod, ClientGoes
<1>28. ASSUME NEW c \in Clients, ClientPodGone(c) PROVE Phases'
  BY <1>28 DEF ClientPodGone, ClientGoes
<1>29. ASSUME NEW c \in Clients, ClientFails(c) PROVE Phases'
  BY <1>29 DEF ClientFails, ClientGoes
<1>30. ASSUME NEW c \in Clients, Record(c) PROVE Phases'
  BY <1>30 DEF Record, Racing, ClientGoes
<1>31. CASE MapRace \/ ParserStops
  BY <1>31 DEF MapRace, ParserStops
<1>32. ASSUME NEW r \in Roles, Kubelet(r) PROVE Phases'
  BY <1>32, Running DEF Kubelet
<1>33. CASE UNCHANGED vars
  BY <1>33
<1>34. QED
  BY <1>1, <1>2, <1>3, <1>4, <1>5, <1>6, <1>7, <1>8, <1>9, <1>10, <1>11, <1>12,
     <1>13, <1>14, <1>15, <1>16, <1>17, <1>18, <1>19, <1>20, <1>21, <1>22, <1>23, <1>24,
     <1>25, <1>26, <1>27, <1>28, <1>29, <1>30, <1>31, <1>32, <1>33
     DEF Next, Main, Client, Terminated

\* The server pod is created in the place of the old one and lives until the clients have ended.
LEMMA ServerPodStep ==
  TypeOK /\ OwnersKnown /\ ServerPod /\ [Next]_vars => ServerPod'
<1> SUFFICES ASSUME TypeOK /\ OwnersKnown /\ ServerPod, [Next]_vars
             PROVE  ServerPod'
  OBVIOUS
<1> USE Sizes, TaskOwners
    DEF TypeOK, OwnersKnown, ServerPod, Exists, Roles, NewPod,
        vars, setup, mainVars, clientVars, statusVars
<1>1. CASE GetNamespace
  BY <1>1 DEF GetNamespace, MainGoes
<1>2. CASE CreateNamespace
  BY <1>2 DEF CreateNamespace
<1>3. CASE PrepareFails
  BY <1>3 DEF PrepareFails, MainGoes
<1>4. CASE AssignServerPod
  BY <1>4 DEF AssignServerPod, MainGoes
<1>5. CASE DeleteOldServer
  BY <1>5, Deleting DEF DeleteOldServer, MainGoes
<1>6. CASE OldServerGone
  BY <1>6 DEF OldServerGone, MainGoes
<1>7. CASE CreateServer
  <2>1. pods["server"] = NoPod /\ pod = <<task, 0>> /\ main' = "run" /\ task' = task
    BY <1>7 DEF CreateServer, MainGoes
  <2>2. pods'["server"] = NewPod(<<task, 0>>)
    BY <1>7, <2>1, Creating DEF CreateServer
  <2>3. QED
    BY <2>1, <2>2
<1>8. CASE ServerRuns
  BY <1>8 DEF ServerRuns, MainGoes
<1>9. CASE ServerAddress
  BY <1>9, PodParts DEF ServerAddress
<1>10. CASE StartClient
  BY <1>10 DEF StartClient
<1>11. CASE DeleteServer
  BY <1>11, Deleting DEF DeleteServer, MainGoes
<1>12. CASE ServerGone
  BY <1>12 DEF ServerGone, AfterTask
<1>13. CASE ServerFails
  BY <1>13 DEF ServerFails, AfterTask
<1>14. CASE ListPods
  BY <1>14 DEF ListPods
<1>15. CASE DeleteListed
  BY <1>15, Deleting DEF DeleteListed
<1>16. CASE Cleaned
  BY <1>16 DEF Cleaned
<1>17. CASE CleanupFails
  BY <1>17 DEF CleanupFails
<1>18. ASSUME NEW c \in Clients, AssignPod(c) PROVE ServerPod'
  BY <1>18 DEF AssignPod, ClientGoes
<1>19. ASSUME NEW c \in Clients, CallRecreate(c) PROVE ServerPod'
  BY <1>19 DEF CallRecreate, ClientGoes
<1>20. ASSUME NEW c \in Clients, DeleteOldPod(c) PROVE ServerPod'
  BY <1>20, Deleting DEF DeleteOldPod, ClientGoes
<1>21. ASSUME NEW c \in Clients, OldPodGone(c) PROVE ServerPod'
  BY <1>21 DEF OldPodGone, ClientGoes
<1>22. ASSUME NEW c \in Clients, CreateClientPod(c) PROVE ServerPod'
  BY <1>22, Creating DEF CreateClientPod, ClientGoes
<1>23. ASSUME NEW c \in Clients, PodRunsOrSucceeded(c) PROVE ServerPod'
  BY <1>23 DEF PodRunsOrSucceeded, ClientGoes
<1>24. ASSUME NEW c \in Clients, PodSucceeded(c) PROVE ServerPod'
  BY <1>24 DEF PodSucceeded, ClientGoes
<1>25. ASSUME NEW c \in Clients, OpenLogs(c) PROVE ServerPod'
  BY <1>25, PodParts DEF OpenLogs, ClientGoes
<1>26. ASSUME NEW c \in Clients, SendLogs(c) PROVE ServerPod'
  BY <1>26 DEF SendLogs, ClientGoes
<1>27. ASSUME NEW c \in Clients, DeleteClientPod(c) PROVE ServerPod'
  BY <1>27, Deleting DEF DeleteClientPod, ClientGoes
<1>28. ASSUME NEW c \in Clients, ClientPodGone(c) PROVE ServerPod'
  BY <1>28 DEF ClientPodGone, ClientGoes
<1>29. ASSUME NEW c \in Clients, ClientFails(c) PROVE ServerPod'
  BY <1>29 DEF ClientFails, ClientGoes
<1>30. ASSUME NEW c \in Clients, Record(c) PROVE ServerPod'
  BY <1>30 DEF Record, Racing, ClientGoes
<1>31. CASE MapRace \/ ParserStops
  BY <1>31 DEF MapRace, ParserStops
<1>32. ASSUME NEW r \in Roles, Kubelet(r) PROVE ServerPod'
  <2>1. CASE r = "server"
    <3>1. \/ pods'[r] = NoPod /\ pods[r].deleting
          \/ /\ pods'[r].owner = pods[r].owner /\ pods'[r].deleting = pods[r].deleting
             /\ pods[r].phase = "Pending" /\ pods'[r].phase = "Running"
      BY <1>32, <2>1, Running
    <3>2. UNCHANGED <<main, task, pod>>
      BY <1>32 DEF Kubelet
    <3>3. CASE main \notin {"create", "run", "address", "clients"}
      BY <3>2, <3>3
    <3>4. CASE main \in {"create", "address", "clients"}
      BY <2>1, <3>1, <3>2, <3>4 DEF NoPod
    <3>5. CASE main = "run"
      BY <2>1, <3>1, <3>2, <3>5
    <3>6. QED
      BY <3>3, <3>4, <3>5
  <2>2. CASE r # "server"
    BY <1>32, <2>2, Running DEF Kubelet
  <2>3. QED
    BY <2>1, <2>2
<1>33. CASE UNCHANGED vars
  BY <1>33
<1>34. QED
  BY <1>1, <1>2, <1>3, <1>4, <1>5, <1>6, <1>7, <1>8, <1>9, <1>10, <1>11, <1>12,
     <1>13, <1>14, <1>15, <1>16, <1>17, <1>18, <1>19, <1>20, <1>21, <1>22, <1>23, <1>24,
     <1>25, <1>26, <1>27, <1>28, <1>29, <1>30, <1>31, <1>32, <1>33
     DEF Next, Main, Client, Terminated

\* A client is started after the one before it, which in sequential mode has returned.
LEMMA StartedStep ==
  TypeOK /\ Phases /\ Started /\ [Next]_vars => Started'
<1> SUFFICES ASSUME TypeOK /\ Phases /\ Started, [Next]_vars
             PROVE  Started'
  OBVIOUS
<1> USE Sizes
    DEF TypeOK, Clients, Phases, Started, ClientsReturned,
        vars, setup, mainVars, clientVars, statusVars
<1>1. CASE GetNamespace
  BY <1>1 DEF GetNamespace, MainGoes
<1>2. CASE CreateNamespace
  BY <1>2 DEF CreateNamespace
<1>3. CASE PrepareFails
  BY <1>3 DEF PrepareFails, MainGoes
<1>4. CASE AssignServerPod
  BY <1>4 DEF AssignServerPod, MainGoes
<1>5. CASE DeleteOldServer
  BY <1>5, Deleting DEF DeleteOldServer, MainGoes
<1>6. CASE OldServerGone
  BY <1>6 DEF OldServerGone, MainGoes
<1>7. CASE CreateServer
  BY <1>7, Creating DEF CreateServer, MainGoes
<1>8. CASE ServerRuns
  BY <1>8 DEF ServerRuns, MainGoes
<1>9. CASE ServerAddress
  BY <1>9, PodParts DEF ServerAddress
<1>10. CASE StartClient
  BY <1>10 DEF StartClient
<1>11. CASE DeleteServer
  BY <1>11, Deleting DEF DeleteServer, MainGoes
<1>12. CASE ServerGone
  BY <1>12 DEF ServerGone, AfterTask
<1>13. CASE ServerFails
  BY <1>13 DEF ServerFails, AfterTask
<1>14. CASE ListPods
  BY <1>14 DEF ListPods
<1>15. CASE DeleteListed
  BY <1>15, Deleting DEF DeleteListed
<1>16. CASE Cleaned
  BY <1>16 DEF Cleaned
<1>17. CASE CleanupFails
  BY <1>17 DEF CleanupFails
<1>18. ASSUME NEW c \in Clients, AssignPod(c) PROVE Started'
  BY <1>18 DEF AssignPod, ClientGoes
<1>19. ASSUME NEW c \in Clients, CallRecreate(c) PROVE Started'
  BY <1>19 DEF CallRecreate, ClientGoes
<1>20. ASSUME NEW c \in Clients, DeleteOldPod(c) PROVE Started'
  BY <1>20, Deleting DEF DeleteOldPod, ClientGoes
<1>21. ASSUME NEW c \in Clients, OldPodGone(c) PROVE Started'
  BY <1>21 DEF OldPodGone, ClientGoes
<1>22. ASSUME NEW c \in Clients, CreateClientPod(c) PROVE Started'
  BY <1>22, Creating DEF CreateClientPod, ClientGoes
<1>23. ASSUME NEW c \in Clients, PodRunsOrSucceeded(c) PROVE Started'
  BY <1>23 DEF PodRunsOrSucceeded, ClientGoes
<1>24. ASSUME NEW c \in Clients, PodSucceeded(c) PROVE Started'
  BY <1>24 DEF PodSucceeded, ClientGoes
<1>25. ASSUME NEW c \in Clients, OpenLogs(c) PROVE Started'
  BY <1>25, PodParts DEF OpenLogs, ClientGoes
<1>26. ASSUME NEW c \in Clients, SendLogs(c) PROVE Started'
  BY <1>26 DEF SendLogs, ClientGoes
<1>27. ASSUME NEW c \in Clients, DeleteClientPod(c) PROVE Started'
  BY <1>27, Deleting DEF DeleteClientPod, ClientGoes
<1>28. ASSUME NEW c \in Clients, ClientPodGone(c) PROVE Started'
  BY <1>28 DEF ClientPodGone, ClientGoes
<1>29. ASSUME NEW c \in Clients, ClientFails(c) PROVE Started'
  BY <1>29 DEF ClientFails, ClientGoes
<1>30. ASSUME NEW c \in Clients, Record(c) PROVE Started'
  BY <1>30 DEF Record, Racing, ClientGoes
<1>31. CASE MapRace \/ ParserStops
  BY <1>31 DEF MapRace, ParserStops
<1>32. ASSUME NEW r \in Roles, Kubelet(r) PROVE Started'
  BY <1>32, Running DEF Kubelet
<1>33. CASE UNCHANGED vars
  BY <1>33
<1>34. QED
  BY <1>1, <1>2, <1>3, <1>4, <1>5, <1>6, <1>7, <1>8, <1>9, <1>10, <1>11, <1>12,
     <1>13, <1>14, <1>15, <1>16, <1>17, <1>18, <1>19, <1>20, <1>21, <1>22, <1>23, <1>24,
     <1>25, <1>26, <1>27, <1>28, <1>29, <1>30, <1>31, <1>32, <1>33
     DEF Next, Main, Client, Terminated

LEMMA InputParts ==
  /\ \A t \in Tasks : t \in Nat
  /\ \A i \in Inputs : i[1] \in Tasks /\ i[1] \in Nat /\ i[2] \in Clients /\ i = <<i[1], i[2]>>
BY Sizes DEF Inputs, Tasks

\* Only clients of the plan are delivered or get a verdict.
LEMMA InPlan ==
  ASSUME TypeOK
  PROVE  Oks \union Fails \union Delivered \subseteq Inputs
BY DEF TypeOK, Oks, Fails, Delivered

LEMMA Sending ==
  ASSUME NEW i, NEW o, sent' = sent \union {<<i, o>>}
  PROVE  Delivered' = Delivered \union {i}
<1>1. ASSUME NEW x \in Delivered' PROVE x \in Delivered \union {i}
  <2>1. PICK s \in sent' : x = s[1]
    BY DEF Delivered
  <2>2. CASE s \in sent
    BY <2>1, <2>2 DEF Delivered
  <2>3. CASE s = <<i, o>>
    BY <2>1, <2>3
  <2>4. QED
    BY <2>1, <2>2, <2>3
<1>2. ASSUME NEW x \in Delivered \union {i} PROVE x \in Delivered'
  <2>1. CASE x \in Delivered
    <3>1. PICK s \in sent : x = s[1]
      BY <2>1 DEF Delivered
    <3>2. s \in sent'
      OBVIOUS
    <3>3. QED
      BY <3>1, <3>2 DEF Delivered
  <2>2. CASE x = i
    <3>1. <<i, o>> \in sent' /\ <<i, o>>[1] = i
      OBVIOUS
    <3>2. QED
      BY <2>2, <3>1 DEF Delivered
  <2>3. QED
    BY <2>1, <2>2
<1>3. QED
  BY <1>1, <1>2

\* Nothing about the verdicts changes.
LEMMA Same ==
  ASSUME Recorded, UNCHANGED <<task, client, sent, statusVars>>,
         \/ main' = main
         \/ ExecuteReturned /\ ExecuteReturned' /\ main' \notin {"clients", "deleted"}
  PROVE  Recorded'
BY DEF Recorded, VerdictSoFar, Oks, Fails, Delivered, Done, ExecuteReturned, statusVars

\* The steps of the main goroutine before the clients of a task.
LEMMA Before ==
  ASSUME Recorded, UNCHANGED <<task, client, sent, statusVars>>,
         main \notin {"clients", "deleted", "crashed"}, ~ExecuteReturned,
         main' \notin {"clients", "deleted"}, ~ExecuteReturned'
  PROVE  Recorded'
BY DEF Recorded, Oks, Fails, Delivered, Done, statusVars

\* A step of a goroutine that neither sends nor passes a verdict.
LEMMA Quiet ==
  ASSUME TypeOK, Recorded, NEW c \in Clients, NEW to, main = "clients",
         client' = [client EXCEPT ![c] = to], UNCHANGED <<main, task, sent, statusVars>>,
         client[c] # "returned", to # "returned",
         to \in BeforeSend => client[c] \in BeforeSend,
         to \in {"deletePod", "deleted", "ok"} => client[c] \in {"deletePod", "deleted", "ok"}
  PROVE  Recorded'
<1>1. \A d \in Clients : VerdictSoFar(d)'
  BY DEF TypeOK, Recorded, VerdictSoFar, Oks, Fails, Delivered, statusVars
<1>2. QED
  BY <1>1 DEF Recorded, Oks, Fails, Delivered, Done, ExecuteReturned, statusVars

\* A task gets one verdict when it ends, a client one when its goroutine does.
LEMMA RecordedStep ==
  TypeOK /\ Phases /\ Started /\ Recorded /\ [Next]_vars => Recorded'
<1> SUFFICES ASSUME TypeOK /\ Phases /\ Started /\ Recorded, [Next]_vars
             PROVE  Recorded'
  OBVIOUS
<1> USE Sizes
    DEF TypeOK,
        vars, setup, mainVars, clientVars, statusVars
<1>1. CASE GetNamespace
  BY <1>1, Before DEF ExecuteReturned, GetNamespace, MainGoes
<1>2. CASE CreateNamespace
  BY <1>2, Before DEF ExecuteReturned, CreateNamespace
<1>3. CASE PrepareFails
  BY <1>3, Before DEF ExecuteReturned, PrepareFails, MainGoes
<1>4. CASE AssignServerPod
  BY <1>4, Before DEF ExecuteReturned, AssignServerPod, MainGoes
<1>5. CASE DeleteOldServer
  BY <1>5, Before DEF ExecuteReturned, DeleteOldServer, MainGoes
<1>6. CASE OldServerGone
  BY <1>6, Before DEF ExecuteReturned, OldServerGone, MainGoes
<1>7. CASE CreateServer
  BY <1>7, Before DEF ExecuteReturned, CreateServer, MainGoes
<1>8. CASE ServerRuns
  BY <1>8, Before DEF ExecuteReturned, ServerRuns, MainGoes
<1>9. CASE ServerAddress
  <2>1. /\ main = "address" /\ main' = "clients" /\ UNCHANGED <<task, sent, statusVars, Oks, Fails>>
        /\ \A c \in Clients : client'[c] = "idle"
    BY <1>9 DEF ServerAddress, Oks, Fails
  <2>2. \A c \in Clients : VerdictSoFar(c)'
    BY <2>1, Sizes DEF Recorded, VerdictSoFar, Delivered, BeforeSend, ExecuteReturned, TypeOK, Tasks
  <2>3. QED
    BY <2>1, <2>2 DEF Recorded, Delivered, Done, ExecuteReturned
<1>10. CASE StartClient
  <2>1. /\ main = "clients" /\ client[spawned + 1] = "idle" /\ spawned + 1 \in Clients
        /\ client' = [client EXCEPT ![spawned + 1] = "assign"]
        /\ UNCHANGED <<main, task, sent, statusVars>>
    BY <1>10 DEF StartClient, Started, TypeOK, Clients
  <2>2. QED
    BY <2>1, Quiet DEF BeforeSend
<1>11. CASE DeleteServer
  <2>1. /\ main = "clients" /\ main' = "deleted" /\ spawned = NClients /\ ClientsReturned
        /\ UNCHANGED <<task, client, sent, statusVars, Oks, Fails>>
    BY <1>11 DEF DeleteServer, MainGoes, Oks, Fails
  <2>2. ASSUME NEW c \in Clients PROVE client[c] = "returned"
    BY <2>1 DEF ClientsReturned, Started, Clients
  <2>3. \A c \in Clients : <<task, c>> \in Oks \union Fails
    BY <2>1, <2>2 DEF Recorded, VerdictSoFar
  <2>4. QED
    BY <2>1, <2>3 DEF Recorded, Delivered, Done, ExecuteReturned
<1>12. CASE ServerGone
  <2>1. /\ main = "deleted" /\ ~ExecuteReturned
        /\ okServers' = okServers \union {task} /\ failedServers' = failedServers
        /\ task' = (IF task < NTasks THEN task + 1 ELSE task)
        /\ main' = (IF task < NTasks THEN "assign" ELSE "returned")
        /\ UNCHANGED <<Oks, Fails, sent>>
    BY <1>12 DEF ServerGone, AfterTask, ExecuteReturned, Oks, Fails
  <2>2. okServers \union failedServers = 1..(task - 1) /\ task \in Nat /\ task <= NTasks
    BY <2>1 DEF Recorded, Done, Tasks
  <2>3. /\ okServers' \union failedServers' = Done'
        /\ okServers' \intersect failedServers' = {}
    BY <2>1, <2>2 DEF Recorded, Done, ExecuteReturned, Tasks
  <2>4. \A i \in Inputs : i[1] \in okServers' => i \in Oks \union Fails
    BY <2>1 DEF Recorded, Inputs
  <2>5. \A i \in Oks \union Fails \union Delivered :
          i[1] <= task' /\ (main' = "assign" => i[1] < task')
    <3>1. \A i \in Oks \union Fails \union Delivered : i[1] \in Nat
      BY InPlan, InputParts
    <3>2. QED
      BY <2>1, <2>2, <3>1 DEF Recorded
  <2>6. QED
    BY <2>1, <2>3, <2>4, <2>5 DEF Recorded, Delivered, ExecuteReturned
<1>13. CASE ServerFails
  <2>1. /\ main # "crashed" /\ ~ExecuteReturned
        /\ failedServers' = failedServers \union {task} /\ okServers' = okServers
        /\ task' = (IF task < NTasks THEN task + 1 ELSE task)
        /\ main' = (IF task < NTasks THEN "assign" ELSE "returned")
        /\ UNCHANGED <<Oks, Fails, sent>>
    BY <1>13 DEF ServerFails, AfterTask, ExecuteReturned, Oks, Fails
  <2>2. okServers \union failedServers = 1..(task - 1) /\ task \in Nat /\ task <= NTasks
    BY <2>1 DEF Recorded, Done, Tasks
  <2>3. /\ okServers' \union failedServers' = Done'
        /\ okServers' \intersect failedServers' = {}
    BY <2>1, <2>2 DEF Recorded, Done, ExecuteReturned, Tasks
  <2>4. \A i \in Inputs : i[1] \in okServers' => i \in Oks \union Fails
    BY <2>1 DEF Recorded, Inputs
  <2>5. \A i \in Oks \union Fails \union Delivered :
          i[1] <= task' /\ (main' = "assign" => i[1] < task')
    <3>1. \A i \in Oks \union Fails \union Delivered : i[1] \in Nat
      BY InPlan, InputParts
    <3>2. QED
      BY <2>1, <2>2, <3>1 DEF Recorded
  <2>6. QED
    BY <2>1, <2>3, <2>4, <2>5 DEF Recorded, Delivered, ExecuteReturned
<1>14. CASE ListPods
  BY <1>14, Same DEF ListPods, Phases, ExecuteReturned
<1>15. CASE DeleteListed
  BY <1>15, Same DEF DeleteListed, Phases, ExecuteReturned
<1>16. CASE Cleaned
  BY <1>16, Same DEF Cleaned, Phases, ExecuteReturned
<1>17. CASE CleanupFails
  BY <1>17, Same DEF CleanupFails, Phases, ExecuteReturned
<1>18. ASSUME NEW c \in Clients, AssignPod(c) PROVE Recorded'
  BY <1>18, Quiet DEF BeforeSend, AssignPod, ClientGoes
<1>19. ASSUME NEW c \in Clients, CallRecreate(c) PROVE Recorded'
  BY <1>19, Quiet DEF BeforeSend, CallRecreate, ClientGoes
<1>20. ASSUME NEW c \in Clients, DeleteOldPod(c) PROVE Recorded'
  BY <1>20, Quiet DEF BeforeSend, DeleteOldPod, ClientGoes
<1>21. ASSUME NEW c \in Clients, OldPodGone(c) PROVE Recorded'
  BY <1>21, Quiet DEF BeforeSend, OldPodGone, ClientGoes
<1>22. ASSUME NEW c \in Clients, CreateClientPod(c) PROVE Recorded'
  BY <1>22, Quiet DEF BeforeSend, CreateClientPod, ClientGoes
<1>23. ASSUME NEW c \in Clients, PodRunsOrSucceeded(c) PROVE Recorded'
  BY <1>23, Quiet DEF BeforeSend, PodRunsOrSucceeded, ClientGoes
<1>24. ASSUME NEW c \in Clients, PodSucceeded(c) PROVE Recorded'
  BY <1>24, Quiet DEF BeforeSend, PodSucceeded, ClientGoes
<1>25. ASSUME NEW c \in Clients, OpenLogs(c) PROVE Recorded'
  BY <1>25, Quiet DEF BeforeSend, OpenLogs, ClientGoes
<1>26. ASSUME NEW c \in Clients, SendLogs(c) PROVE Recorded'
  <2>1. /\ main = "clients" /\ client[c] = "send"
        /\ client' = [client EXCEPT ![c] = "deletePod"]
        /\ sent' = sent \union {<<<<task, c>>, logs[c]>>}
        /\ UNCHANGED <<main, task, okServers, failedServers, Oks, Fails>>
    BY <1>26 DEF SendLogs, ClientGoes, Oks, Fails
  <2>2. Delivered' = Delivered \union {<<task, c>>}
    BY <2>1, Sending
  <2>3. \A d \in Clients : VerdictSoFar(d)'
    BY <2>1, <2>2 DEF Recorded, VerdictSoFar, BeforeSend
  <2>4. task \in Nat
    BY Sizes DEF Tasks
  <2>5. QED
    BY <2>1, <2>2, <2>3, <2>4 DEF Recorded, Done, ExecuteReturned
<1>27. ASSUME NEW c \in Clients, DeleteClientPod(c) PROVE Recorded'
  BY <1>27, Quiet DEF BeforeSend, DeleteClientPod, ClientGoes
<1>28. ASSUME NEW c \in Clients, ClientPodGone(c) PROVE Recorded'
  BY <1>28, Quiet DEF BeforeSend, ClientPodGone, ClientGoes
<1>29. ASSUME NEW c \in Clients, ClientFails(c) PROVE Recorded'
  BY <1>29, Quiet DEF BeforeSend, ClientFails, ClientGoes
<1>30. ASSUME NEW c \in Clients, Record(c) PROVE Recorded'
  <2> DEFINE i == <<task, c>>
  <2>1. /\ main = "clients" /\ client[c] \in {"ok", "fail"}
        /\ client' = [client EXCEPT ![c] = "returned"]
        /\ IF client[c] = "ok"
             THEN Oks' = Oks \union {i} /\ Fails' = Fails
             ELSE Fails' = Fails \union {i} /\ Oks' = Oks
        /\ UNCHANGED <<main, task, sent, okServers, failedServers>>
    BY <1>30 DEF Record, ClientGoes, Oks, Fails
  <2>2. Delivered' = Delivered /\ task \in Nat
    BY <2>1, Sizes DEF Delivered, Tasks
  <2>3. i \notin Oks \union Fails /\ (client[c] = "ok" => i \in Delivered)
    BY <2>1 DEF Recorded, VerdictSoFar
  <2>4. ASSUME NEW d \in Clients PROVE VerdictSoFar(d)'
    BY <2>1, <2>2 DEF Recorded, VerdictSoFar, BeforeSend
  <2>5. Oks' \intersect Fails' = {} /\ Oks' \subseteq Delivered'
    BY <2>1, <2>2, <2>3 DEF Recorded
  <2>6. QED
    BY <2>1, <2>2, <2>4, <2>5 DEF Recorded, Done, ExecuteReturned
<1>31. CASE MapRace \/ ParserStops
  <2>1. CASE MapRace
    <3>1. /\ main = "clients" /\ main' = "crashed" /\ UNCHANGED <<task, okServers, failedServers>>
          /\ UNCHANGED <<Oks, Fails, Delivered>>
      BY <2>1 DEF MapRace, Oks, Fails, Delivered
    <3>2. QED
      BY <3>1 DEF Recorded, Done, ExecuteReturned
  <2>2. CASE ParserStops
    BY <2>2, Same DEF ParserStops
  <2>3. QED
    BY <1>31, <2>1, <2>2
<1>32. ASSUME NEW r \in Roles, Kubelet(r) PROVE Recorded'
  BY <1>32, Same DEF Kubelet
<1>33. CASE UNCHANGED vars
  BY <1>33, Same
<1>34. QED
  BY <1>1, <1>2, <1>3, <1>4, <1>5, <1>6, <1>7, <1>8, <1>9, <1>10, <1>11, <1>12,
     <1>13, <1>14, <1>15, <1>16, <1>17, <1>18, <1>19, <1>20, <1>21, <1>22, <1>23, <1>24,
     <1>25, <1>26, <1>27, <1>28, <1>29, <1>30, <1>31, <1>32, <1>33
     DEF Next, Main, Client, Terminated

\* In sequential mode no other goroutine is in a map.  Where a failure is lost another
\* goroutine is about to record one, and is not gone before it has.
LEMMA LossesStep ==
  TypeOK /\ Phases /\ Started /\ Losses /\ [Next]_vars => Losses'
<1> SUFFICES ASSUME TypeOK /\ Phases /\ Started /\ Losses, [Next]_vars
             PROVE  Losses'
  OBVIOUS
<1>1. ASSUME UNCHANGED <<mode, task, failedClients, lostFails, lostOks, client>>, main' = main \/ main' = "crashed"
      PROVE  Losses'
  BY <1>1 DEF Losses
\* Once the goroutines have returned every failure of the task is known.
<1>2. ASSUME UNCHANGED <<mode, failedClients, lostFails, lostOks>>, main # "crashed", ClientsReturned
      PROVE  Losses'
  BY <1>2 DEF Losses, ClientsReturned
<1>3. CASE Main /\ ~StartClient
  <2>1. UNCHANGED <<mode, failedClients, lostFails, lostOks>>
    BY <1>3 DEF Main, GetNamespace, CreateNamespace, PrepareFails, AssignServerPod, DeleteOldServer,
           OldServerGone, CreateServer, ServerRuns, ServerAddress, DeleteServer, ServerGone, ServerFails,
           ListPods, DeleteListed, Cleaned, CleanupFails, MainGoes, setup, statusVars
  <2>2. main # "crashed" /\ ClientsReturned
    <3>1. main \notin {"clients", "crashed"} \/ DeleteServer \/ ServerFails
      BY <1>3 DEF Main, GetNamespace, CreateNamespace, PrepareFails, AssignServerPod, DeleteOldServer,
             OldServerGone, CreateServer, ServerRuns, ServerAddress, ServerGone,
             ListPods, DeleteListed, Cleaned, CleanupFails, MainGoes, Phases
    <3>2. CASE DeleteServer
      BY <3>2 DEF DeleteServer, MainGoes
    <3>3. CASE ServerFails
      BY <3>3 DEF ServerFails, Phases
    <3>4. QED
      BY <3>1, <3>2, <3>3 DEF Phases
  <2>3. QED
    BY <1>2, <2>1, <2>2
<1>4. CASE StartClient
  <2>1. /\ main = "clients" /\ client[spawned + 1] = "idle" /\ spawned + 1 \in Clients
        /\ client' = [client EXCEPT ![spawned + 1] = "assign"]
        /\ UNCHANGED <<main, task, mode, failedClients, lostFails, lostOks>>
    BY <1>4, Sizes DEF StartClient, Started, TypeOK, Clients, setup, statusVars
  <2>2. \A d \in Clients : client[d] = "fail" => client'[d] = "fail"
    BY <2>1 DEF TypeOK
  <2>3. QED
    BY <2>1, <2>2 DEF Losses
<1>5. ASSUME NEW c \in Clients, Client(c), ~Record(c)
      PROVE  Losses'
  <2>1. PICK from, to : ClientGoes(c, from, to) /\ from # "fail" /\ statusVars' = statusVars
    BY <1>5 DEF Client, AssignPod, CallRecreate, DeleteOldPod, OldPodGone, CreateClientPod,
           PodRunsOrSucceeded, PodSucceeded, OpenLogs, SendLogs, DeleteClientPod, ClientPodGone, ClientFails
  <2>2. UNCHANGED <<mode, main, task, failedClients, lostFails, lostOks>>
    BY <2>1 DEF ClientGoes, setup, mainVars, statusVars
  <2>3. \A d \in Clients : client[d] = "fail" => client'[d] = "fail"
    BY <2>1 DEF ClientGoes, TypeOK
  <2>4. QED
    BY <2>2, <2>3 DEF Losses
<1>6. ASSUME NEW c \in Clients, Record(c) PROVE Losses'
  <2>1. /\ main = "clients" /\ UNCHANGED <<mode, main, task>>
        /\ client' = [client EXCEPT ![c] = "returned"]
    BY <1>6 DEF Record, ClientGoes, setup, mainVars
  <2>2. \A d \in Clients \ {c} : client'[d] = client[d]
    BY <2>1 DEF TypeOK
  <2>3. Racing(c) => mode = "parallel"
    BY <2>1 DEF Racing, Started, TypeOK
  <2>4. CASE client[c] = "ok"
    <3>1. failedClients' = failedClients /\ lostFails' = lostFails /\ (lostOks' = lostOks \/ Racing(c))
      BY <1>6, <2>4 DEF Record, ClientGoes
    <3>2. \A d \in Clients : client[d] = "fail" => client'[d] = "fail"
      BY <2>2, <2>4
    <3>3. QED
      BY <2>1, <2>3, <3>1, <3>2 DEF Losses
  <2>5. CASE client[c] = "fail" /\ failedClients' = failedClients \union {<<task, c>>} /\ lostFails' = lostFails
    <3>1. lostOks' = lostOks
      BY <1>6, <2>5 DEF Record, ClientGoes
    <3>2. <<task, c>> \in failedClients' /\ <<task, c>>[1] = task
      BY <2>5
    <3>3. \A i \in lostFails : \E f \in failedClients' : f[1] = i[1]
      BY <2>5, <3>2 DEF Losses
    <3>4. QED
      BY <2>1, <2>5, <3>1, <3>3 DEF Losses
  <2>6. CASE client[c] = "fail" /\ Racing(c) /\ lostFails' = lostFails \union {<<task, c>>}
             /\ UNCHANGED <<failedClients, lostOks>>
    <3>1. PICK d \in Clients \ {c} : client[d] = "fail"
      BY <2>6 DEF Racing
    <3>2. client'[d] = "fail"
      BY <2>2, <3>1
    <3>3. \A i \in lostFails' : i \in lostFails \/ i[1] = task
      BY <2>6
    <3>4. ASSUME NEW i \in lostFails'
          PROVE  (\E f \in failedClients' : f[1] = i[1]) \/ i[1] = task
      BY <2>6, <3>3 DEF Losses
    <3>5. QED
      BY <2>1, <2>3, <2>6, <3>2, <3>4 DEF Losses
  <2>7. QED
    BY <1>6, <2>4, <2>5, <2>6 DEF Record, ClientGoes
<1>7. CASE MapRace \/ ParserStops \/ (\E r \in Roles : Kubelet(r)) \/ UNCHANGED vars
  BY <1>1, <1>7 DEF MapRace, ParserStops, Kubelet, vars, setup, mainVars, clientVars, statusVars
<1>8. QED
  BY <1>3, <1>4, <1>5, <1>6, <1>7 DEF Next, Terminated

\* In sequential mode no other goroutine touches the pod of the client under way.
LEMMA OwnPodsStep ==
  TypeOK /\ OwnersKnown /\ Phases /\ Started /\ OwnPods /\ [Next]_vars => OwnPods'
<1> SUFFICES ASSUME TypeOK /\ OwnersKnown /\ Phases /\ Started /\ OwnPods, [Next]_vars
             PROVE  OwnPods'
  OBVIOUS
<1> USE Sizes, TaskOwners
    DEF TypeOK, OwnersKnown, Clients, Phases, Started, OwnPods, OwnPod, Exists, Roles,
        ClientsReturned, NewPod,
        vars, setup, mainVars, clientVars, statusVars
<1>1. CASE GetNamespace
  BY <1>1 DEF GetNamespace, MainGoes
<1>2. CASE CreateNamespace
  BY <1>2 DEF CreateNamespace
<1>3. CASE PrepareFails
  BY <1>3 DEF PrepareFails, MainGoes
<1>4. CASE AssignServerPod
  BY <1>4 DEF AssignServerPod, MainGoes
<1>5. CASE DeleteOldServer
  BY <1>5, Deleting DEF DeleteOldServer, MainGoes
<1>6. CASE OldServerGone
  BY <1>6 DEF OldServerGone, MainGoes
<1>7. CASE CreateServer
  BY <1>7, Creating DEF CreateServer, MainGoes
<1>8. CASE ServerRuns
  BY <1>8 DEF ServerRuns, MainGoes
<1>9. CASE ServerAddress
  BY <1>9, PodParts DEF ServerAddress
<1>10. CASE StartClient
  BY <1>10 DEF StartClient
<1>11. CASE DeleteServer
  BY <1>11, Deleting DEF DeleteServer, MainGoes
<1>12. CASE ServerGone
  BY <1>12 DEF ServerGone, AfterTask
<1>13. CASE ServerFails
  BY <1>13 DEF ServerFails, AfterTask
<1>14. CASE ListPods
  BY <1>14 DEF ListPods
<1>15. CASE DeleteListed
  BY <1>15, Deleting DEF DeleteListed
<1>16. CASE Cleaned
  BY <1>16 DEF Cleaned
<1>17. CASE CleanupFails
  BY <1>17 DEF CleanupFails
<1>18. ASSUME NEW c \in Clients, AssignPod(c) PROVE OwnPods'
  BY <1>18 DEF AssignPod, ClientGoes
<1>19. ASSUME NEW c \in Clients, CallRecreate(c) PROVE OwnPods'
  BY <1>19 DEF CallRecreate, ClientGoes
<1>20. ASSUME NEW c \in Clients, DeleteOldPod(c) PROVE OwnPods'
  BY <1>20, Deleting DEF DeleteOldPod, ClientGoes
<1>21. ASSUME NEW c \in Clients, OldPodGone(c) PROVE OwnPods'
  BY <1>21 DEF OldPodGone, ClientGoes
<1>22. ASSUME NEW c \in Clients, CreateClientPod(c) PROVE OwnPods'
  <2>1. /\ main = "clients" /\ client[c] = "create" /\ client' = [client EXCEPT ![c] = "run"]
        /\ CreatePod("client", arg[c]) /\ UNCHANGED <<mode, main, task, pod, logs>>
        /\ arg' = [arg EXCEPT ![c] = NoOwner]
    BY <1>22 DEF CreateClientPod, ClientGoes
  <2>2. SUFFICES ASSUME mode = "sequential", NEW d \in Clients PROVE OwnPod(d)'
    BY <2>1
  <2>3. CASE d = c
    <3>1. arg[c] = <<task, c>> /\ ~Exists("client") /\ arg[c] \in Owners
      BY <2>1, <2>2
    <3>2. pods'["client"] = NewPod(<<task, c>>)
      BY <2>1, <3>1, Creating
    <3>3. QED
      BY <2>1, <2>3, <3>2
  <2>4. CASE d # c
    <3>1. client[d] \in {"idle", "returned"}
      BY <2>1, <2>2, <2>4
    <3>2. QED
      BY <2>1, <2>4, <3>1
  <2>5. QED
    BY <2>3, <2>4
<1>23. ASSUME NEW c \in Clients, PodRunsOrSucceeded(c) PROVE OwnPods'
  BY <1>23 DEF PodRunsOrSucceeded, ClientGoes
<1>24. ASSUME NEW c \in Clients, PodSucceeded(c) PROVE OwnPods'
  BY <1>24 DEF PodSucceeded, ClientGoes
<1>25. ASSUME NEW c \in Clients, OpenLogs(c) PROVE OwnPods'
  BY <1>25, PodParts DEF OpenLogs, ClientGoes
<1>26. ASSUME NEW c \in Clients, SendLogs(c) PROVE OwnPods'
  BY <1>26 DEF SendLogs, ClientGoes
<1>27. ASSUME NEW c \in Clients, DeleteClientPod(c) PROVE OwnPods'
  BY <1>27, Deleting DEF DeleteClientPod, ClientGoes
<1>28. ASSUME NEW c \in Clients, ClientPodGone(c) PROVE OwnPods'
  BY <1>28 DEF ClientPodGone, ClientGoes
<1>29. ASSUME NEW c \in Clients, ClientFails(c) PROVE OwnPods'
  BY <1>29 DEF ClientFails, ClientGoes
<1>30. ASSUME NEW c \in Clients, Record(c) PROVE OwnPods'
  BY <1>30 DEF Record, Racing, ClientGoes
<1>31. CASE MapRace \/ ParserStops
  BY <1>31 DEF MapRace, ParserStops
<1>32. ASSUME NEW r \in Roles, Kubelet(r) PROVE OwnPods'
  BY <1>32, Running DEF Kubelet
<1>33. CASE UNCHANGED vars
  BY <1>33
<1>34. QED
  BY <1>1, <1>2, <1>3, <1>4, <1>5, <1>6, <1>7, <1>8, <1>9, <1>10, <1>11, <1>12,
     <1>13, <1>14, <1>15, <1>16, <1>17, <1>18, <1>19, <1>20, <1>21, <1>22, <1>23, <1>24,
     <1>25, <1>26, <1>27, <1>28, <1>29, <1>30, <1>31, <1>32, <1>33
     DEF Next, Main, Client, Terminated

\* A client sends the logs it has opened, and in sequential mode these are its own.
LEMMA LogsStep ==
  TypeOK /\ OwnersKnown /\ OwnPods /\ LogsMatchInSequence /\ [Next]_vars => LogsMatchInSequence'
<1> SUFFICES ASSUME TypeOK /\ OwnersKnown /\ OwnPods /\ LogsMatchInSequence, [Next]_vars
             PROVE  LogsMatchInSequence'
  OBVIOUS
<1> USE Sizes
    DEF TypeOK, OwnPods, OwnPod, LogsMatchInSequence, LogsMatchClient,
        vars, setup, mainVars, clientVars, statusVars
<1>1. CASE GetNamespace
  BY <1>1 DEF GetNamespace, MainGoes
<1>2. CASE CreateNamespace
  BY <1>2 DEF CreateNamespace
<1>3. CASE PrepareFails
  BY <1>3 DEF PrepareFails, MainGoes
<1>4. CASE AssignServerPod
  BY <1>4 DEF AssignServerPod, MainGoes
<1>5. CASE DeleteOldServer
  BY <1>5, Deleting DEF DeleteOldServer, MainGoes
<1>6. CASE OldServerGone
  BY <1>6 DEF OldServerGone, MainGoes
<1>7. CASE CreateServer
  BY <1>7, Creating DEF CreateServer, MainGoes
<1>8. CASE ServerRuns
  BY <1>8 DEF ServerRuns, MainGoes
<1>9. CASE ServerAddress
  BY <1>9, PodParts DEF ServerAddress
<1>10. CASE StartClient
  BY <1>10 DEF StartClient
<1>11. CASE DeleteServer
  BY <1>11, Deleting DEF DeleteServer, MainGoes
<1>12. CASE ServerGone
  BY <1>12 DEF ServerGone, AfterTask
<1>13. CASE ServerFails
  BY <1>13 DEF ServerFails, AfterTask
<1>14. CASE ListPods
  BY <1>14 DEF ListPods
<1>15. CASE DeleteListed
  BY <1>15, Deleting DEF DeleteListed
<1>16. CASE Cleaned
  BY <1>16 DEF Cleaned
<1>17. CASE CleanupFails
  BY <1>17 DEF CleanupFails
<1>18. ASSUME NEW c \in Clients, AssignPod(c) PROVE LogsMatchInSequence'
  BY <1>18 DEF AssignPod, ClientGoes
<1>19. ASSUME NEW c \in Clients, CallRecreate(c) PROVE LogsMatchInSequence'
  BY <1>19 DEF CallRecreate, ClientGoes
<1>20. ASSUME NEW c \in Clients, DeleteOldPod(c) PROVE LogsMatchInSequence'
  BY <1>20, Deleting DEF DeleteOldPod, ClientGoes
<1>21. ASSUME NEW c \in Clients, OldPodGone(c) PROVE LogsMatchInSequence'
  BY <1>21 DEF OldPodGone, ClientGoes
<1>22. ASSUME NEW c \in Clients, CreateClientPod(c) PROVE LogsMatchInSequence'
  BY <1>22, Creating DEF CreateClientPod, ClientGoes
<1>23. ASSUME NEW c \in Clients, PodRunsOrSucceeded(c) PROVE LogsMatchInSequence'
  BY <1>23 DEF PodRunsOrSucceeded, ClientGoes
<1>24. ASSUME NEW c \in Clients, PodSucceeded(c) PROVE LogsMatchInSequence'
  BY <1>24 DEF PodSucceeded, ClientGoes
<1>25. ASSUME NEW c \in Clients, OpenLogs(c) PROVE LogsMatchInSequence'
  BY <1>25, PodParts DEF OpenLogs, ClientGoes
<1>26. ASSUME NEW c \in Clients, SendLogs(c) PROVE LogsMatchInSequence'
  BY <1>26 DEF SendLogs, ClientGoes
<1>27. ASSUME NEW c \in Clients, DeleteClientPod(c) PROVE LogsMatchInSequence'
  BY <1>27, Deleting DEF DeleteClientPod, ClientGoes
<1>28. ASSUME NEW c \in Clients, ClientPodGone(c) PROVE LogsMatchInSequence'
  BY <1>28 DEF ClientPodGone, ClientGoes
<1>29. ASSUME NEW c \in Clients, ClientFails(c) PROVE LogsMatchInSequence'
  BY <1>29 DEF ClientFails, ClientGoes
<1>30. ASSUME NEW c \in Clients, Record(c) PROVE LogsMatchInSequence'
  BY <1>30 DEF Record, Racing, ClientGoes
<1>31. CASE MapRace \/ ParserStops
  BY <1>31 DEF MapRace, ParserStops
<1>32. ASSUME NEW r \in Roles, Kubelet(r) PROVE LogsMatchInSequence'
  BY <1>32, Running DEF Kubelet
<1>33. CASE UNCHANGED vars
  BY <1>33
<1>34. QED
  BY <1>1, <1>2, <1>3, <1>4, <1>5, <1>6, <1>7, <1>8, <1>9, <1>10, <1>11, <1>12,
     <1>13, <1>14, <1>15, <1>16, <1>17, <1>18, <1>19, <1>20, <1>21, <1>22, <1>23, <1>24,
     <1>25, <1>26, <1>27, <1>28, <1>29, <1>30, <1>31, <1>32, <1>33
     DEF Next, Main, Client, Terminated

\* Whoever creates a pod deletes it and waits for that, or fails.
LEMMA LeftoversStep ==
  TypeOK /\ OwnersKnown /\ Phases /\ Started /\ Leftovers /\ [Next]_vars => Leftovers'
<1> SUFFICES ASSUME TypeOK /\ OwnersKnown /\ Phases /\ Started /\ Leftovers, [Next]_vars
             PROVE  Leftovers'
  OBVIOUS
<1> USE Sizes, TaskOwners
    DEF TypeOK, OwnersKnown, Clients, Phases, Started, Leftovers, Exists, Roles, ExecuteReturned,
        ClientsReturned,
        vars, setup, mainVars, clientVars, statusVars
<1>1. CASE GetNamespace
  BY <1>1 DEF GetNamespace, MainGoes
<1>2. CASE CreateNamespace
  BY <1>2 DEF CreateNamespace
<1>3. CASE PrepareFails
  BY <1>3 DEF PrepareFails, MainGoes
<1>4. CASE AssignServerPod
  BY <1>4 DEF AssignServerPod, MainGoes
<1>5. CASE DeleteOldServer
  BY <1>5, Deleting DEF DeleteOldServer, MainGoes
<1>6. CASE OldServerGone
  BY <1>6 DEF OldServerGone, MainGoes
<1>7. CASE CreateServer
  BY <1>7, Creating DEF CreateServer, MainGoes
<1>8. CASE ServerRuns
  BY <1>8 DEF ServerRuns, MainGoes
<1>9. CASE ServerAddress
  BY <1>9, PodParts DEF ServerAddress
<1>10. CASE StartClient
  BY <1>10 DEF StartClient
<1>11. CASE DeleteServer
  BY <1>11, Deleting DEF DeleteServer, MainGoes
<1>12. CASE ServerGone
  BY <1>12 DEF ServerGone, AfterTask
<1>13. CASE ServerFails
  BY <1>13 DEF ServerFails, AfterTask
<1>14. CASE ListPods
  BY <1>14 DEF ListPods
<1>15. CASE DeleteListed
  BY <1>15, Deleting DEF DeleteListed
<1>16. CASE Cleaned
  BY <1>16 DEF Cleaned
<1>17. CASE CleanupFails
  BY <1>17 DEF CleanupFails
<1>18. ASSUME NEW c \in Clients, AssignPod(c) PROVE Leftovers'
  BY <1>18 DEF AssignPod, ClientGoes
<1>19. ASSUME NEW c \in Clients, CallRecreate(c) PROVE Leftovers'
  BY <1>19 DEF CallRecreate, ClientGoes
<1>20. ASSUME NEW c \in Clients, DeleteOldPod(c) PROVE Leftovers'
  BY <1>20, Deleting DEF DeleteOldPod, ClientGoes
<1>21. ASSUME NEW c \in Clients, OldPodGone(c) PROVE Leftovers'
  BY <1>21 DEF OldPodGone, ClientGoes
<1>22. ASSUME NEW c \in Clients, CreateClientPod(c) PROVE Leftovers'
  BY <1>22, Creating DEF CreateClientPod, ClientGoes
<1>23. ASSUME NEW c \in Clients, PodRunsOrSucceeded(c) PROVE Leftovers'
  BY <1>23 DEF PodRunsOrSucceeded, ClientGoes
<1>24. ASSUME NEW c \in Clients, PodSucceeded(c) PROVE Leftovers'
  BY <1>24 DEF PodSucceeded, ClientGoes
<1>25. ASSUME NEW c \in Clients, OpenLogs(c) PROVE Leftovers'
  BY <1>25, PodParts DEF OpenLogs, ClientGoes
<1>26. ASSUME NEW c \in Clients, SendLogs(c) PROVE Leftovers'
  BY <1>26 DEF SendLogs, ClientGoes
<1>27. ASSUME NEW c \in Clients, DeleteClientPod(c) PROVE Leftovers'
  BY <1>27, Deleting DEF DeleteClientPod, ClientGoes
<1>28. ASSUME NEW c \in Clients, ClientPodGone(c) PROVE Leftovers'
  BY <1>28 DEF ClientPodGone, ClientGoes
<1>29. ASSUME NEW c \in Clients, ClientFails(c) PROVE Leftovers'
  BY <1>29 DEF ClientFails, ClientGoes
<1>30. ASSUME NEW c \in Clients, Record(c) PROVE Leftovers'
  BY <1>30 DEF Record, Racing, ClientGoes
<1>31. CASE MapRace \/ ParserStops
  BY <1>31 DEF MapRace, ParserStops
<1>32. ASSUME NEW r \in Roles, Kubelet(r) PROVE Leftovers'
  BY <1>32, Running DEF Kubelet
<1>33. CASE UNCHANGED vars
  BY <1>33
<1>34. QED
  BY <1>1, <1>2, <1>3, <1>4, <1>5, <1>6, <1>7, <1>8, <1>9, <1>10, <1>11, <1>12,
     <1>13, <1>14, <1>15, <1>16, <1>17, <1>18, <1>19, <1>20, <1>21, <1>22, <1>23, <1>24,
     <1>25, <1>26, <1>27, <1>28, <1>29, <1>30, <1>31, <1>32, <1>33
     DEF Next, Main, Client, Terminated

\* The inductive invariant of Prepare, Execute and Cleanup.
LEMMA AlwaysIInv == Spec => []IInv
<1>1. Init => IInv
  BY StartsTyped, StartsSafe DEF IInv
<1>2. IInv /\ [Next]_vars => IInv'
  BY TypingStep, OwnersStep, PhasesStep, ServerPodStep, StartedStep, RecordedStep, LossesStep,
     OwnPodsStep, LogsStep, LeftoversStep DEF IInv
<1>3. QED
  BY <1>1, <1>2, PTL DEF Spec

-----------------------------------------------------------------------------
(* The theorems                                                            *)

(***************************************************************************)
(* Every variable keeps its type: pods are created for somebody, and logs  *)
(* sent to the parser are those of a pod.                                  *)
(***************************************************************************)
THEOREM Typing == Spec => []TypeOK
<1>1. IInv => TypeOK
  BY DEF IInv
<1>2. QED
  BY <1>1, AlwaysIInv, PTL

(***************************************************************************)
(* While clients may run, the server pod is up, belongs to this main task  *)
(* and is not being deleted: Execute waits until the server pod of an      *)
(* earlier task, which has the same name, is gone before it creates one.   *)
(***************************************************************************)
THEOREM ServesClients == Spec => []ServerServesClients
<1>1. IInv => ServerServesClients
  BY DEF IInv, ServerPod, ServerServesClients
<1>2. QED
  BY <1>1, AlwaysIInv, PTL

(***************************************************************************)
(* In sequential mode the logs sent for a client are those of the pod      *)
(* created for it, although all client pods have one name, all goroutines  *)
(* share the variable pod and failed clients leave their pods behind.      *)
(***************************************************************************)
THEOREM SequenceMatchesLogs == Spec => []LogsMatchInSequence
<1>1. IInv => LogsMatchInSequence
  BY DEF IInv
<1>2. QED
  BY <1>1, AlwaysIInv, PTL

(***************************************************************************)
(* When Execute returns every task has exactly one verdict, so has every   *)
(* client of a task whose server was up to the end, and the logs of a      *)
(* client that counts as successful went to the parser.  Concurrent writes *)
(* may lose a verdict in parallel mode, but never the last failure of a    *)
(* task: checkForErrors notices it.                                        *)
(***************************************************************************)
THEOREM KeepsVerdicts == Spec => []Verdicts
<1>1. IInv => Verdicts
  <2> SUFFICES ASSUME IInv, ExecuteReturned PROVE Verdicts
    BY DEF Verdicts
  <2>1. \A i \in lostFails : \E f \in failedClients : f[1] = i[1]
    BY DEF IInv, Losses, ExecuteReturned
  <2>2. QED
    BY <2>1 DEF IInv, Recorded, Oks, Fails, Losses, Done, Delivered, Verdicts
<1>2. QED
  BY <1>1, AlwaysIInv, PTL

(***************************************************************************)
(* When no host failed, every goroutine has deleted its pod and waited     *)
(* until it was gone: Execute returns with no pod left.                    *)
(***************************************************************************)
THEOREM LeavesNothing == Spec => []NothingLeftWhenAllWell
<1>1. IInv => NothingLeftWhenAllWell
  <2> SUFFICES ASSUME IInv, ExecuteReturned, failedServers = {}, failedClients = {}
               PROVE  \A r \in Roles : ~Exists(r)
    BY DEF NothingLeftWhenAllWell
  <2>1. \A c \in Clients : client[c] \in {"idle", "returned"}
    BY DEF IInv, Phases, ClientsReturned, ExecuteReturned
  <2>2. QED
    BY <2>1 DEF IInv, Leftovers, Roles
<1>2. QED
  BY <1>1, AlwaysIInv, PTL

(***************************************************************************)
(* While Cleanup works, a pod that nobody has deleted is still listed,     *)
(* unless the pod of the clients has disappeared under it.                 *)
(***************************************************************************)
Cleaning ==
  main \in {"cleanup", "cleaned"} =>
    \A r \in Roles : Exists(r) =>
      pods[r].deleting \/ r \in listed \/ (r = "server" /\ ~Exists("client"))

\* The pods are deleted in name order, that of the clients first.
LEMMA DeletingListed ==
  ASSUME TypeOK, Cleaning, DeleteListed
  PROVE  Cleaning'
<1>1. PICK r \in listed : /\ r = "client" \/ "client" \notin listed
                         /\ DeletePod(r)
                         /\ listed' = IF Exists(r) THEN listed \ {r} ELSE {}
  BY DEF DeleteListed
<1>2. main = "cleanup" /\ r \in Roles
  BY <1>1 DEF DeleteListed, TypeOK
<1>3. CASE Exists(r)
  <2>1. /\ \A q \in Roles : q # r => pods'[q] = pods[q]
        /\ (Exists(r))' /\ pods'[r].deleting
    <3>1. pods[r] \in [owner : Owners, phase : {"Pending", "Running", "Succeeded"}, deleting : BOOLEAN]
      BY <1>2, <1>3, PodParts
    <3>2. pods' = [pods EXCEPT ![r].deleting = TRUE]
      BY <1>1, <1>3 DEF DeletePod
    <3>3. pods'[r].deleting
      BY <1>2, <3>1, <3>2 DEF TypeOK
    <3>4. QED
      BY <1>1, <1>2, <1>3, <3>3, Deleting
  <2>2. QED
    BY <1>1, <1>2, <1>3, <2>1 DEF Cleaning, Exists, Roles
<1>4. CASE ~Exists(r)
  <2>1. pods' = pods /\ listed' = {}
    BY <1>1, <1>4 DEF DeletePod
  <2>2. QED
    BY <1>1, <1>2, <1>4, <2>1 DEF Cleaning, Exists, Roles
<1>5. QED
  BY <1>3, <1>4

(***************************************************************************)
(* Cleanup returns successfully with every pod deleted that was there when *)
(* it listed them, but for the server pod when that of the clients was     *)
(* gone by the time it was to be deleted.                                  *)
(***************************************************************************)
THEOREM CleanupMisses == Spec => []CleanupDeletes
<1>1. Init => Cleaning
  BY DEF Init, Cleaning
<1>2. ASSUME IInv, Cleaning, [Next]_vars PROVE Cleaning'
  <2>1. CASE DeleteListed
    BY <1>2, <2>1, DeletingListed DEF IInv
  <2>2. CASE ListPods
    BY <2>2 DEF ListPods, Cleaning, Exists
  <2>3. CASE Cleaned
    BY <1>2, <2>3 DEF Cleaned, Cleaning, Exists
  <2>4. ASSUME NEW r \in Roles, Kubelet(r) PROVE Cleaning'
    <3>1. UNCHANGED <<main, listed>>
      BY <2>4 DEF Kubelet, mainVars
    <3>2. \A q \in Roles : (Exists(q))' => Exists(q) /\ pods'[q].deleting = pods[q].deleting
      <4>1. /\ \A q \in Roles : q # r => pods'[q] = pods[q]
            /\ Exists(r) /\ (pods'[r] = NoPod \/ pods'[r].deleting = pods[r].deleting)
        BY <1>2, <2>4, Running DEF IInv, Kubelet
      <4>2. QED
        BY <4>1 DEF Exists
    <3>3. QED
      BY <1>2, <3>1, <3>2 DEF Cleaning, Roles
  <2>5. CASE UNCHANGED vars
    BY <1>2, <2>5 DEF vars, mainVars, Cleaning, Exists
  <2>6. CASE Main /\ ~DeleteListed /\ ~ListPods /\ ~Cleaned
    <3>1. main' \notin {"cleanup", "cleaned"}
      BY <2>6 DEF Main, GetNamespace, CreateNamespace, PrepareFails, AssignServerPod, DeleteOldServer,
             OldServerGone, CreateServer, ServerRuns, ServerAddress, StartClient, DeleteServer, ServerGone,
             ServerFails, CleanupFails, MainGoes, AfterTask
    <3>2. QED
      BY <3>1 DEF Cleaning
  <2>7. CASE MapRace \/ ParserStops
    BY <2>7 DEF MapRace, ParserStops, mainVars, Cleaning
  <2>8. ASSUME NEW c \in Clients, Client(c) PROVE Cleaning'
    <3>1. PICK from, to : ClientGoes(c, from, to)
      BY <2>8 DEF Client, AssignPod, CallRecreate, DeleteOldPod, OldPodGone, CreateClientPod,
             PodRunsOrSucceeded, PodSucceeded, OpenLogs, SendLogs, DeleteClientPod, ClientPodGone,
             ClientFails, Record
    <3>2. main' = "clients"
      BY <3>1 DEF ClientGoes, mainVars
    <3>3. QED
      BY <3>2 DEF Cleaning
  <2>9. QED
    BY <1>2, <2>1, <2>2, <2>3, <2>4, <2>5, <2>6, <2>7, <2>8 DEF Next, Terminated
<1>3. IInv /\ Cleaning => CleanupDeletes
  BY DEF IInv, Phases, Cleaning, CleanupDeletes
<1>4. QED
  BY <1>1, <1>2, <1>3, AlwaysIInv, PTL DEF Spec

-----------------------------------------------------------------------------
(* Execute implements the contract of a runner                             *)

\* Sending is a Deliver: in sequential mode the clients after it are idle.
LEMMA SendDelivers ==
  ASSUME IInv, NEW c \in Clients, SendLogs(c)
  PROVE  Contract!Deliver(c)
<1>1. /\ main = "clients" /\ client[c] = "send"
      /\ sent' = sent \union {<<<<task, c>>, logs[c]>>}
      /\ UNCHANGED <<mode, main, task, failedServers, Fails>>
  BY DEF SendLogs, ClientGoes, setup, mainVars, statusVars, Fails
<1>2. Delivered' = Delivered \union {<<task, c>>}
  BY <1>1, Sending
<1>3. <<task, c>> \notin Delivered
  BY <1>1 DEF IInv, Recorded, VerdictSoFar, BeforeSend
<1>4. ASSUME mode = "sequential", NEW d \in Clients, d > c
      PROVE  <<task, d>> \notin Delivered \union Fails
  <2>1. client[d] = "idle"
    BY <1>1, <1>4 DEF IInv, Started
  <2>2. QED
    BY <1>1, <2>1 DEF IInv, Recorded, VerdictSoFar, BeforeSend
<1>5. QED
  BY <1>1, <1>2, <1>3, <1>4
     DEF Contract!Deliver, Contract!Clients, Clients, ExecuteReturned, Delivered, Fails

\* A task ends with all its clients accounted for or a failed server.
LEMMA EndingTask ==
  ASSUME IInv, ServerGone \/ ServerFails
  PROVE  Contract!EndTask
<1>1. /\ ~ExecuteReturned /\ AfterTask /\ task \in Nat /\ task <= NTasks
      /\ UNCHANGED <<mode, sent, Fails>>
  BY Sizes DEF ServerGone, ServerFails, ExecuteReturned, setup, clientVars, Fails, IInv, TypeOK, Tasks
<1>2. /\ failedServers' \in {failedServers, failedServers \union {task}}
      /\ \A c \in Clients : Contract!Accounted(c, failedServers')
  <2>1. CASE ServerGone
    <3>1. /\ failedServers' = failedServers
          /\ \A c \in Clients : <<task, c>> \in Oks \union Fails
      BY <2>1 DEF ServerGone, IInv, Recorded
    <3>2. \A c \in Clients : <<task, c>> \in Delivered \union Fails
      BY <3>1 DEF IInv, Recorded
    <3>3. QED
      BY <3>1, <3>2 DEF Contract!Accounted, Delivered, Fails
  <2>2. CASE ServerFails
    BY <2>2 DEF ServerFails, Contract!Accounted
  <2>3. QED
    BY <2>1, <2>2
<1>3. \/ task < NTasks /\ task' = task + 1 /\ ~ExecuteReturned'
      \/ task = NTasks /\ task' = task /\ ExecuteReturned'
  BY <1>1, Sizes DEF AfterTask, ExecuteReturned
<1>4. QED
  BY <1>1, <1>2, <1>3
     DEF Contract!EndTask, Contract!Clients, Clients, Delivered, Fails, ExecuteReturned

LEMMA ContractStep ==
  ASSUME IInv, [Next]_vars
  PROVE  [Contract!Next]_Contract!vars
<1> USE DEF Contract!vars, Contract!Clients, Clients, ExecuteReturned,
            setup, mainVars, clientVars, statusVars
<1>1. ASSUME NEW c \in Clients, SendLogs(c) PROVE Contract!Next
  BY <1>1, SendDelivers DEF Contract!Next
<1>2. CASE ServerGone \/ ServerFails
  BY <1>2, EndingTask DEF Contract!Next
<1>3. ASSUME NEW c \in Clients, Record(c) PROVE [Contract!Next]_Contract!vars
  <2>1. main = "clients" /\ UNCHANGED <<mode, main, task, sent, failedServers>>
    BY <1>3 DEF Record, ClientGoes
  <2>2. CASE Fails' = Fails \union {<<task, c>>}
    <3>1. Contract!FailClient(c)
      BY <2>1, <2>2 DEF Contract!FailClient, Fails
    <3>2. QED
      BY <3>1 DEF Contract!Next
  <2>3. CASE Fails' = Fails
    BY <2>1, <2>3 DEF Fails
  <2>4. Fails' \in {Fails, Fails \union {<<task, c>>}}
    BY <1>3 DEF Record, Fails
  <2>5. QED
    BY <2>2, <2>3, <2>4
<1>4. CASE GetNamespace \/ CreateNamespace \/ PrepareFails \/ AssignServerPod \/ DeleteOldServer
           \/ OldServerGone \/ CreateServer \/ ServerRuns \/ ServerAddress \/ StartClient
           \/ DeleteServer
  BY <1>4 DEF GetNamespace, CreateNamespace, PrepareFails, AssignServerPod, DeleteOldServer,
              OldServerGone, CreateServer, ServerRuns, ServerAddress, StartClient, DeleteServer,
              MainGoes
<1>5. CASE ListPods \/ DeleteListed \/ Cleaned \/ CleanupFails
  BY <1>5 DEF ListPods, DeleteListed, Cleaned, CleanupFails, IInv, Phases
<1>6. ASSUME NEW c \in Clients,
             \/ AssignPod(c) \/ CallRecreate(c) \/ DeleteOldPod(c) \/ OldPodGone(c)
             \/ CreateClientPod(c) \/ PodRunsOrSucceeded(c) \/ PodSucceeded(c) \/ OpenLogs(c)
             \/ DeleteClientPod(c) \/ ClientPodGone(c) \/ ClientFails(c)
      PROVE  UNCHANGED Contract!vars
  BY <1>6 DEF AssignPod, CallRecreate, DeleteOldPod, OldPodGone, CreateClientPod,
              PodRunsOrSucceeded, PodSucceeded, OpenLogs, DeleteClientPod, ClientPodGone,
              ClientFails, ClientGoes
<1>7. ASSUME MapRace \/ ParserStops \/ UNCHANGED vars \/ \E r \in Roles : Kubelet(r)
      PROVE  UNCHANGED Contract!vars
  BY <1>7 DEF MapRace, ParserStops, vars, Kubelet
<1>8. QED
  BY <1>1, <1>2, <1>3, <1>4, <1>5, <1>6, <1>7 DEF Next, Main, Client, Terminated

(***************************************************************************)
(* Execute of runners/kubernetes keeps what run() relies on in both modes: *)
(* task after task, one result sent for a client at most, in sequential    *)
(* mode in the order of the plan, and no task left before its clients are  *)
(* accounted for or its server has failed.                                 *)
(***************************************************************************)
THEOREM ImplementsContract == Spec => KeepsContract
<1>1. Init => Contract!Init
  BY DEF Init, Contract!Init, ExecuteReturned
<1>2. IInv /\ [Next]_vars => [Contract!Next]_Contract!vars
  BY ContractStep
<1>3. QED
  BY <1>1, <1>2, AlwaysIInv, PTL DEF Spec, KeepsContract, Contract!Spec

-----------------------------------------------------------------------------
(***************************************************************************)
(* Why the runner ends.  What is left to do is kept in finite sets, those  *)
(* of the program and those of the pods in the cluster.  A step of the     *)
(* program adds to none of its sets and strikes something off; a step of   *)
(* the cluster leaves them alone and strikes something off its own.        *)
(***************************************************************************)

\* How far the main goroutine is in a task, and a client goroutine in its work.
PlaceInTask ==
  CASE main = "assign" -> 1 [] main = "delete" -> 2 [] main = "gone" -> 3
    [] main = "create" -> 4 [] main = "run" -> 5 [] main = "address" -> 6
    [] main = "clients" -> 7 [] main = "deleted" -> 8 [] OTHER -> 9

Place(c) ==
  CASE client[c] = "idle" -> 1 [] client[c] = "assign" -> 2 [] client[c] = "call" -> 3
    [] client[c] = "delete" -> 4 [] client[c] = "gone" -> 5 [] client[c] = "create" -> 6
    [] client[c] = "run" -> 7 [] client[c] = "succeed" -> 8 [] client[c] = "logs" -> 9
    [] client[c] = "send" -> 10 [] client[c] = "deletePod" -> 11 [] client[c] = "deleted" -> 12
    [] client[c] \in {"ok", "fail"} -> 13 [] OTHER -> 14

Preparing == main \in {"prepare", "namespace"}

\* The place in the task, or that of the client of the input, is still to be left.
PhaseBefore(t, k) == Preparing \/ t > task \/ (t = task /\ PlaceInTask <= k)
ClientBefore(i, k) ==
  \/ Preparing \/ i[1] > task
  \/ i[1] = task /\ PlaceInTask < 7
  \/ i[1] = task /\ main = "clients" /\ Place(i[2]) <= k

\* Prepare and Cleanup, around the tasks.
OuterBefore(p) ==
  \/ main = "prepare"
  \/ main = "namespace" /\ p # "prepare"
  \/ PlaceInTask < 9 /\ p \in {"returned", "cleanup"}
  \/ main = "returned" /\ p \in {"returned", "cleanup"}
  \/ main = "cleanup" /\ p = "cleanup"

ListedBefore(r) == ~Ended /\ (main = "cleanup" => r \in listed)

OuterPhases == {"prepare", "namespace", "returned", "cleanup"}

OuterLeft   == {p \in OuterPhases : OuterBefore(p)}
PhasesLeft  == {x \in Tasks \X (1..8) : PhaseBefore(x[1], x[2])}
ClientsLeft == {x \in Inputs \X (1..13) : ClientBefore(x[1], x[2])}
ListedLeft  == {r \in Roles : ListedBefore(r)}

\* The parser stops once.
ParserLeft  == {x \in {"parser"} : receiving}

AllLeft == <<OuterLeft, PhasesLeft, ClientsLeft, ListedLeft, ParserLeft>>

\* What may still happen to a pod.
LifeBefore(r, s) ==
  /\ Exists(r)
  /\ \/ pods[r].phase = "Pending"
     \/ pods[r].phase = "Running" /\ s # "run"
     \/ s = "remove"

LivesLeft == {x \in Roles \X {"run", "succeed", "remove"} : LifeBefore(x[1], x[2])}

FinitelyMuchLeft ==
  /\ IsFiniteSet(OuterLeft) /\ IsFiniteSet(PhasesLeft) /\ IsFiniteSet(ClientsLeft)
  /\ IsFiniteSet(ListedLeft) /\ IsFiniteSet(ParserLeft) /\ IsFiniteSet(LivesLeft)

ProgramStrikesOff ==
  /\ OuterLeft' \subseteq OuterLeft /\ PhasesLeft' \subseteq PhasesLeft
  /\ ClientsLeft' \subseteq ClientsLeft /\ ListedLeft' \subseteq ListedLeft
  /\ ParserLeft' \subseteq ParserLeft
  /\ AllLeft' # AllLeft

ClusterStrikesOff ==
  AllLeft' = AllLeft /\ LivesLeft' \subseteq LivesLeft /\ LivesLeft' # LivesLeft

OnlyStrikesOff == ProgramStrikesOff \/ ClusterStrikesOff

\* The guards of the steps.
ClientCanStep(c) ==
  \/ client[c] \in {"assign", "call", "delete", "create", "logs", "deletePod", "ok", "fail"}
  \/ client[c] \in {"gone", "deleted"} /\ (faulty \/ Blocked \/ ~Exists("client"))
  \/ client[c] = "send" /\ receiving
  \/ client[c] = "run" /\ (faulty \/ ~Exists("client") \/ pods["client"].phase # "Pending")
  \/ client[c] = "succeed" /\ (faulty \/ ~Exists("client") \/ pods["client"].phase = "Succeeded")

KubeletCanStep(r) ==
  /\ Exists(r)
  /\ \/ pods[r].phase = "Pending" \/ pods[r].deleting
     \/ r = "client" /\ pods[r].phase = "Running"

CanStep ==
  \/ main \in {"prepare", "namespace", "assign", "delete", "create", "address", "returned", "cleanup"}
  \/ main \in {"gone", "deleted"} /\ (faulty \/ ~Exists("server"))
  \/ main = "run" /\ (faulty \/ ~Exists("server") \/ pods["server"].phase = "Running")
  \/ main = "clients" /\ spawned < NClients /\ (mode = "parallel" \/ ClientsReturned)
  \/ main = "clients" /\ spawned = NClients /\ ClientsReturned
  \/ main = "clients" /\ \E c \in Clients : ClientCanStep(c)
  \/ \E r \in Roles : KubeletCanStep(r)

(***************************************************************************)
(* Who waits for the end of a pod has seen it marked, or, as long as no    *)
(* call fails, somebody is about to mark it: the goroutine that created    *)
(* it, whoever it created it for.                                          *)
(***************************************************************************)
Marked ==
  /\ main \in {"gone", "deleted"} /\ Exists("server") => pods["server"].deleting
  /\ ~faulty /\ Exists("client") /\ ~pods["client"].deleting =>
       \E c \in Clients : client[c] \in {"run", "succeed", "logs", "send", "deletePod"}

LEMMA Places ==
  ASSUME TypeOK
  PROVE  PlaceInTask \in 1..9 /\ \A c \in Clients : Place(c) \in 1..14
BY DEF TypeOK, PlaceInTask, Place

LEMMA AlwaysFinite == FinitelyMuchLeft
<1>1. \A n, m \in Int : IsFiniteSet(n..m)
  BY FS_Interval
<1>2. IsFiniteSet(Tasks) /\ IsFiniteSet(Inputs) /\ IsFiniteSet(1..8) /\ IsFiniteSet(1..13)
  <2>1. IsFiniteSet(Tasks) /\ IsFiniteSet(Clients)
    BY <1>1, Sizes DEF Tasks, Clients
  <2>2. IsFiniteSet(1..8) /\ IsFiniteSet(1..13)
    <3>1. ASSUME NEW m \in Nat PROVE IsFiniteSet(1..m)
      BY <1>1
    <3>2. 8 \in Nat /\ 13 \in Nat
      OBVIOUS
    <3>3. QED
      BY <3>1, <3>2, Zenon
  <2>3. QED
    BY <2>1, <2>2, FS_Product DEF Inputs
<1>3. ASSUME NEW a, NEW b, NEW c, NEW d PROVE IsFiniteSet({a, b, c, d})
  <2>1. IsFiniteSet({a} \union {b})
    BY FS_Singleton, FS_AddElement
  <2>2. IsFiniteSet(({a} \union {b}) \union {c})
    BY <2>1, FS_AddElement
  <2>3. IsFiniteSet((({a} \union {b}) \union {c}) \union {d})
    BY <2>2, FS_AddElement
  <2>4. (({a} \union {b}) \union {c}) \union {d} = {a, b, c, d}
    OBVIOUS
  <2>5. QED
    BY <2>3, <2>4
<1>4. IsFiniteSet(OuterPhases) /\ IsFiniteSet(Roles) /\ IsFiniteSet({"run", "succeed", "remove"})
  <2>1. IsFiniteSet(OuterPhases)
    BY <1>3 DEF OuterPhases
  <2>2. IsFiniteSet({"server", "client", "client", "client"})
    BY <1>3
  <2>3. IsFiniteSet({"run", "succeed", "remove", "remove"})
    BY <1>3
  <2>4. /\ Roles = {"server", "client", "client", "client"}
        /\ {"run", "succeed", "remove"} = {"run", "succeed", "remove", "remove"}
    BY DEF Roles
  <2>5. QED
    BY <2>1, <2>2, <2>3, <2>4
<1>5. /\ IsFiniteSet(Tasks \X (1..8)) /\ IsFiniteSet(Inputs \X (1..13))
      /\ IsFiniteSet(Roles \X {"run", "succeed", "remove"})
  BY <1>2, <1>4, FS_Product
<1>6. QED
  BY <1>4, <1>5, FS_Subset, FS_Singleton
     DEF FinitelyMuchLeft, OuterLeft, PhasesLeft, ClientsLeft, ListedLeft, ParserLeft, LivesLeft

(* It is enough that nothing is added and that one thing goes.             *)
LEMMA StrikesOff ==
  ASSUME \A p \in OuterPhases : OuterBefore(p)' => OuterBefore(p),
         \A t \in Tasks, k \in 1..8 : PhaseBefore(t, k)' => PhaseBefore(t, k),
         \A i \in Inputs, k \in 1..13 : ClientBefore(i, k)' => ClientBefore(i, k),
         \A r \in Roles : ListedBefore(r)' => ListedBefore(r),
         receiving' => receiving,
         \/ \E p \in OuterPhases : OuterBefore(p) /\ ~OuterBefore(p)'
         \/ \E t \in Tasks, k \in 1..8 : PhaseBefore(t, k) /\ ~PhaseBefore(t, k)'
         \/ \E i \in Inputs, k \in 1..13 : ClientBefore(i, k) /\ ~ClientBefore(i, k)'
         \/ \E r \in Roles : ListedBefore(r) /\ ~ListedBefore(r)'
         \/ receiving /\ ~receiving'
  PROVE  ProgramStrikesOff
<1>1. /\ OuterLeft' \subseteq OuterLeft /\ PhasesLeft' \subseteq PhasesLeft
      /\ ClientsLeft' \subseteq ClientsLeft /\ ListedLeft' \subseteq ListedLeft
      /\ ParserLeft' \subseteq ParserLeft
  BY DEF OuterLeft, PhasesLeft, ClientsLeft, ListedLeft, ParserLeft
<1>2. ASSUME NEW p \in OuterPhases, OuterBefore(p), ~OuterBefore(p)'
      PROVE  OuterLeft' # OuterLeft
  BY <1>2 DEF OuterLeft
<1>3. ASSUME NEW t \in Tasks, NEW k \in 1..8, PhaseBefore(t, k), ~PhaseBefore(t, k)'
      PROVE  PhasesLeft' # PhasesLeft
  <2>1. <<t, k>> \in PhasesLeft /\ <<t, k>> \notin PhasesLeft'
    BY <1>3 DEF PhasesLeft
  <2>2. QED
    BY <2>1
<1>4. ASSUME NEW i \in Inputs, NEW k \in 1..13, ClientBefore(i, k), ~ClientBefore(i, k)'
      PROVE  ClientsLeft' # ClientsLeft
  <2>1. <<i, k>> \in ClientsLeft /\ <<i, k>> \notin ClientsLeft'
    BY <1>4 DEF ClientsLeft
  <2>2. QED
    BY <2>1
<1>5. ASSUME NEW r \in Roles, ListedBefore(r), ~ListedBefore(r)'
      PROVE  ListedLeft' # ListedLeft
  BY <1>5 DEF ListedLeft
<1>6. ASSUME receiving, ~receiving'
      PROVE  ParserLeft' # ParserLeft
  BY <1>6 DEF ParserLeft
<1>7. QED
  BY <1>1, <1>2, <1>3, <1>4, <1>5, <1>6 DEF ProgramStrikesOff, AllLeft

InTask == main \in {"assign", "delete", "gone", "create", "run", "address", "clients", "deleted"}

(* The main goroutine goes on within a task, or the program ends.          *)
LEMMA GoingOnStrikesOff ==
  ASSUME IInv, InTask, task' = task, PlaceInTask' > PlaceInTask, ~Preparing',
         main' \notin {"returned", "cleanup"},
         main' = "clients" => PlaceInTask < 7,
         main = "clients" => main' # "clients",
         receiving' = receiving
  PROVE  ProgramStrikesOff
<1>0. task \in Nat /\ task \in Tasks /\ PlaceInTask \in 1..8
  BY Sizes DEF IInv, TypeOK, Tasks, InTask, PlaceInTask
<1> PICK now \in Tasks : now = task
  BY <1>0
<1> PICK k \in 1..8 : k = PlaceInTask
  BY <1>0
<1>1. PlaceInTask' \in 1..9
  BY DEF PlaceInTask
<1>2. \A p \in OuterPhases : OuterBefore(p)' => OuterBefore(p)
  BY <1>0 DEF OuterBefore, OuterPhases, Preparing
<1>3. \A t \in Tasks, j \in 1..8 : PhaseBefore(t, j)' => PhaseBefore(t, j)
  BY <1>0, <1>1 DEF PhaseBefore
<1>4. \A i \in Inputs, j \in 1..13 : ClientBefore(i, j)' => ClientBefore(i, j)
  <2>1. PlaceInTask' < 7 => PlaceInTask < 7
    BY <1>0, <1>1
  <2>2. QED
    BY <2>1 DEF ClientBefore
<1>5. \A r \in Roles : ListedBefore(r)' => ListedBefore(r)
  BY DEF ListedBefore, Ended, InTask
<1>6. PhaseBefore(now, k) /\ ~PhaseBefore(now, k)'
  BY <1>0, <1>1 DEF PhaseBefore
<1>7. QED
  BY <1>2, <1>3, <1>4, <1>5, <1>6, StrikesOff

(* A step of the main goroutine, or the end of the program.                *)
LEMMA MainStrikesOff ==
  ASSUME IInv, Main \/ MapRace
  PROVE  ProgramStrikesOff
<1>0. task \in Nat /\ task \in Tasks
  BY Sizes DEF IInv, TypeOK, Tasks
<1> PICK now \in Tasks : now = task
  BY <1>0
<1>r. receiving' = receiving
  BY DEF Main, MapRace, GetNamespace, CreateNamespace, PrepareFails, AssignServerPod, DeleteOldServer,
         OldServerGone, CreateServer, ServerRuns, ServerAddress, StartClient, DeleteServer, ServerGone,
         ServerFails, ListPods, DeleteListed, Cleaned, CleanupFails, MainGoes, clientVars
<1>1. CASE GetNamespace \/ CreateNamespace \/ PrepareFails
  <2>1. /\ main \in {"prepare", "namespace"} /\ task' = task
        /\ \/ main' \in {"assign", "prepareFailed"}
           \/ main = "prepare" /\ main' = "namespace"
    BY <1>1 DEF GetNamespace, CreateNamespace, PrepareFails, MainGoes
  <2>2. /\ \A t \in Tasks, k \in 1..8 : PhaseBefore(t, k)' => PhaseBefore(t, k)
        /\ \A i \in Inputs, k \in 1..13 : ClientBefore(i, k)' => ClientBefore(i, k)
        /\ \A r \in Roles : ListedBefore(r)' => ListedBefore(r)
    BY <2>1 DEF PhaseBefore, ClientBefore, ListedBefore, Preparing, Ended
  <2>3. \A p \in OuterPhases : OuterBefore(p)' => OuterBefore(p)
    BY <2>1 DEF OuterBefore, OuterPhases, PlaceInTask
  <2>4. \E p \in OuterPhases : OuterBefore(p) /\ ~OuterBefore(p)'
    <3>1. CASE main = "prepare"
      BY <2>1, <3>1 DEF OuterBefore, OuterPhases, PlaceInTask
    <3>2. CASE main = "namespace"
      BY <2>1, <3>2 DEF OuterBefore, OuterPhases, PlaceInTask
    <3>3. QED
      BY <2>1, <3>1, <3>2
  <2>5. QED
    BY <1>r, <2>2, <2>3, <2>4, StrikesOff
<1>2. CASE \/ AssignServerPod \/ DeleteOldServer \/ OldServerGone \/ CreateServer \/ ServerRuns
           \/ ServerAddress \/ DeleteServer \/ MapRace
  <2>1. /\ task' = task
        /\ \/ main = "assign" /\ main' = "delete"
           \/ main = "delete" /\ main' \in {"gone", "create"}
           \/ main = "gone" /\ main' = "create"
           \/ main = "create" /\ main' = "run"
           \/ main = "run" /\ main' = "address"
           \/ main = "address" /\ main' = "clients"
           \/ main = "clients" /\ main' \in {"deleted", "crashed"}
    BY <1>2 DEF AssignServerPod, DeleteOldServer, OldServerGone, CreateServer, ServerRuns,
           ServerAddress, DeleteServer, MapRace, MainGoes
  <2>2. /\ InTask /\ PlaceInTask' > PlaceInTask /\ ~Preparing'
        /\ main' = "clients" => PlaceInTask < 7
    BY <2>1 DEF InTask, PlaceInTask, Preparing
  <2>3. QED
    BY <1>r, <2>1, <2>2, GoingOnStrikesOff
<1>3. CASE ServerGone \/ ServerFails
  <2>1. /\ InTask
        /\ \/ main' = "assign" /\ task' = task + 1
           \/ main' = "returned" /\ task' = task
    BY <1>3 DEF ServerGone, ServerFails, AfterTask, InTask
  <2>2. PlaceInTask \in 1..8 /\ ~Preparing /\ main' # "clients" /\ ~Preparing'
    BY <2>1 DEF PlaceInTask, Preparing, InTask
  <2>3. main' = "returned" => PlaceInTask' = 9
    BY DEF PlaceInTask
  <2>4. \A p \in OuterPhases : OuterBefore(p)' => OuterBefore(p)
    BY <2>1, <2>2 DEF OuterBefore, OuterPhases
  <2>5. /\ \A t \in Tasks, k \in 1..8 : PhaseBefore(t, k)' => PhaseBefore(t, k)
        /\ \A i \in Inputs, k \in 1..13 : ClientBefore(i, k)' => ClientBefore(i, k)
    BY <1>0, <2>1, <2>2, <2>3, InputParts DEF PhaseBefore, ClientBefore
  <2>6. \A r \in Roles : ListedBefore(r)' => ListedBefore(r)
    BY <2>1 DEF ListedBefore, Ended, InTask
  <2>7. PhaseBefore(now, 8) /\ ~PhaseBefore(now, 8)'
    BY <1>0, <2>1, <2>2, <2>3 DEF PhaseBefore
  <2>8. QED
    BY <1>r, <2>4, <2>5, <2>6, <2>7, StrikesOff
<1>4. CASE StartClient
  <2>1. /\ main = "clients" /\ UNCHANGED <<main, task, listed>> /\ spawned < NClients
        /\ client' = [client EXCEPT ![spawned + 1] = "assign"]
    BY <1>4 DEF StartClient
  <2>2. PICK c \in Clients : c = spawned + 1
    BY <2>1, Sizes DEF IInv, TypeOK, Clients
  <2>3. client[c] = "idle" /\ client'[c] = "assign" /\ \A d \in Clients : d # c => client'[d] = client[d]
    <3>1. c > spawned
      BY <2>2 DEF IInv, TypeOK
    <3>2. QED
      BY <2>1, <2>2, <3>1 DEF IInv, Started, TypeOK
  <2>4. /\ Place(c) = 1 /\ Place(c)' = 2 /\ \A d \in Clients : d # c => Place(d)' = Place(d)
        /\ PlaceInTask' = PlaceInTask /\ PlaceInTask = 7
    BY <2>1, <2>3 DEF Place, PlaceInTask
  <2>5. /\ \A p \in OuterPhases : OuterBefore(p)' => OuterBefore(p)
        /\ \A t \in Tasks, k \in 1..8 : PhaseBefore(t, k)' => PhaseBefore(t, k)
        /\ \A r \in Roles : ListedBefore(r)' => ListedBefore(r)
    BY <2>1, <2>4 DEF OuterBefore, PhaseBefore, ListedBefore, Preparing, Ended
  <2>6. \A i \in Inputs, k \in 1..13 : ClientBefore(i, k)' => ClientBefore(i, k)
    BY <2>1, <2>4, InputParts DEF ClientBefore, Preparing
  <2>7. PICK i \in Inputs : i = <<task, c>>
    BY <1>0 DEF Inputs
  <2>8. ClientBefore(i, 1) /\ ~ClientBefore(i, 1)'
    BY <1>0, <2>1, <2>4, <2>7 DEF ClientBefore, Preparing
  <2>9. QED
    BY <1>r, <2>5, <2>6, <2>8, StrikesOff
<1>5. CASE ListPods \/ Cleaned \/ CleanupFails
  <2>1. /\ task' = task
        /\ \/ main = "returned" /\ main' \in {"cleanup", "cleanupFailed"}
           \/ main = "cleanup" /\ main' \in {"cleaned", "cleanupFailed"}
    BY <1>5 DEF ListPods, Cleaned, CleanupFails, IInv, Phases
  <2>2. PlaceInTask = 9 /\ PlaceInTask' = 9
    BY <2>1 DEF PlaceInTask
  <2>3. /\ \A t \in Tasks, k \in 1..8 : PhaseBefore(t, k)' => PhaseBefore(t, k)
        /\ \A i \in Inputs, k \in 1..13 : ClientBefore(i, k)' => ClientBefore(i, k)
    BY <2>1, <2>2 DEF PhaseBefore, ClientBefore, Preparing
  <2>4. \A r \in Roles : ListedBefore(r)' => ListedBefore(r)
    BY <2>1 DEF ListedBefore, Ended
  <2>5. \A p \in OuterPhases : OuterBefore(p)' => OuterBefore(p)
    BY <2>1, <2>2 DEF OuterBefore
  <2>6. \E p \in OuterPhases : OuterBefore(p) /\ ~OuterBefore(p)'
    <3>1. CASE main = "returned"
      BY <2>1, <2>2, <3>1 DEF OuterBefore, OuterPhases
    <3>2. CASE main = "cleanup"
      BY <2>1, <2>2, <3>2 DEF OuterBefore, OuterPhases
    <3>3. QED
      BY <2>1, <3>1, <3>2
  <2>7. QED
    BY <1>r, <2>3, <2>4, <2>5, <2>6, StrikesOff
<1>6. CASE DeleteListed
  <2>1. PICK r \in listed : r \notin listed'
    BY <1>6 DEF DeleteListed
  <2>2. /\ main = "cleanup" /\ UNCHANGED <<main, task, client>> /\ listed' \subseteq listed
        /\ r \in Roles
    BY <1>6 DEF DeleteListed, mainVars, clientVars, IInv, TypeOK
  <2>3. PlaceInTask' = PlaceInTask /\ \A c \in Clients : Place(c)' = Place(c)
    BY <2>2 DEF PlaceInTask, Place
  <2>4. /\ \A p \in OuterPhases : OuterBefore(p)' => OuterBefore(p)
        /\ \A t \in Tasks, k \in 1..8 : PhaseBefore(t, k)' => PhaseBefore(t, k)
        /\ \A i \in Inputs, k \in 1..13 : ClientBefore(i, k)' => ClientBefore(i, k)
        /\ \A q \in Roles : ListedBefore(q)' => ListedBefore(q)
    BY <2>2, <2>3, InputParts DEF OuterBefore, PhaseBefore, ClientBefore, ListedBefore, Preparing, Ended
  <2>5. ListedBefore(r) /\ ~ListedBefore(r)'
    BY <2>1, <2>2 DEF ListedBefore, Ended
  <2>6. QED
    BY <1>r, <2>2, <2>4, <2>5, StrikesOff
<1>7. QED
  BY <1>1, <1>2, <1>3, <1>4, <1>5, <1>6 DEF Main

(* Each step of a client goroutine takes it further.                       *)
LEMMA ClientGoesOn ==
  ASSUME IInv, NEW c \in Clients, Client(c)
  PROVE  /\ main = "clients" /\ UNCHANGED <<main, task, listed, receiving>>
         /\ Place(c) \in 1..13 /\ Place(c)' > Place(c)
         /\ \A d \in Clients : d # c => client'[d] = client[d]
<1>r. receiving' = receiving
  BY DEF Client, AssignPod, CallRecreate, DeleteOldPod, OldPodGone, CreateClientPod,
         PodRunsOrSucceeded, PodSucceeded, OpenLogs, SendLogs, DeleteClientPod, ClientPodGone,
         ClientFails, Record
<1>1. ASSUME NEW to, ClientGoes(c, client[c], to)
      PROVE  /\ main = "clients" /\ UNCHANGED <<main, task, listed>> /\ client'[c] = to
             /\ \A d \in Clients : d # c => client'[d] = client[d]
  BY <1>1 DEF ClientGoes, mainVars, IInv, TypeOK
<1>2. CASE \/ AssignPod(c) \/ CallRecreate(c) \/ DeleteOldPod(c) \/ OldPodGone(c)
           \/ CreateClientPod(c) \/ PodRunsOrSucceeded(c) \/ PodSucceeded(c) \/ OpenLogs(c)
           \/ SendLogs(c) \/ DeleteClientPod(c) \/ ClientPodGone(c)
  <2>1. PICK from, to :
          /\ ClientGoes(c, from, to)
          /\ \/ from = "assign" /\ to = "call"
             \/ from = "call" /\ to = "delete"
             \/ from = "delete" /\ to \in {"gone", "create"}
             \/ from = "gone" /\ to = "create"
             \/ from = "create" /\ to = "run"
             \/ from = "run" /\ to = "succeed"
             \/ from = "succeed" /\ to = "logs"
             \/ from = "logs" /\ to = "send"
             \/ from = "send" /\ to = "deletePod"
             \/ from = "deletePod" /\ to = "deleted"
             \/ from = "deleted" /\ to = "ok"
    BY <1>2 DEF AssignPod, CallRecreate, DeleteOldPod, OldPodGone, CreateClientPod,
           PodRunsOrSucceeded, PodSucceeded, OpenLogs, SendLogs, DeleteClientPod, ClientPodGone
  <2>2. from = client[c]
    BY <2>1 DEF ClientGoes
  <2>3. client'[c] = to
    BY <1>1, <2>1, <2>2
  <2>4. Place(c) \in 1..13 /\ Place(c)' > Place(c)
    BY <2>1, <2>2, <2>3 DEF Place
  <2>5. QED
    BY <1>r, <1>1, <2>1, <2>2, <2>4
<1>3. CASE ClientFails(c)
  <2>1. /\ ClientGoes(c, client[c], "fail")
        /\ client[c] \notin {"idle", "call", "send", "ok", "fail", "returned"}
    BY <1>3 DEF ClientFails
  <2>2. client'[c] = "fail"
    BY <1>1, <2>1
  <2>3. Place(c) \in 1..12 /\ Place(c)' = 13
    BY <2>1, <2>2 DEF Place, IInv, TypeOK
  <2>4. QED
    BY <1>r, <1>1, <2>1, <2>3
<1>4. CASE Record(c)
  <2>1. ClientGoes(c, client[c], "returned") /\ client[c] \in {"ok", "fail"}
    BY <1>4 DEF Record, ClientGoes
  <2>2. client'[c] = "returned"
    BY <1>1, <2>1
  <2>3. Place(c) = 13 /\ Place(c)' = 14
    BY <2>1, <2>2 DEF Place
  <2>4. QED
    BY <1>r, <1>1, <2>1, <2>3
<1>5. QED
  BY <1>2, <1>3, <1>4 DEF Client

LEMMA ClientStrikesOff ==
  ASSUME IInv, NEW c \in Clients, Client(c)
  PROVE  ProgramStrikesOff
<1>0. task \in Nat /\ task \in Tasks
  BY Sizes DEF IInv, TypeOK, Tasks
<1>1. /\ main = "clients" /\ UNCHANGED <<main, task, listed, receiving>>
      /\ Place(c) \in 1..13 /\ Place(c)' > Place(c)
      /\ \A d \in Clients : d # c => client'[d] = client[d]
  BY ClientGoesOn
<1>2. /\ PlaceInTask' = PlaceInTask /\ PlaceInTask = 7
      /\ \A d \in Clients : d # c => Place(d)' = Place(d)
      /\ \A d \in Clients : Place(d) \in Nat /\ Place(d)' \in Nat
  BY <1>1 DEF PlaceInTask, Place
<1>3. /\ \A p \in OuterPhases : OuterBefore(p)' => OuterBefore(p)
      /\ \A t \in Tasks, k \in 1..8 : PhaseBefore(t, k)' => PhaseBefore(t, k)
      /\ \A r \in Roles : ListedBefore(r)' => ListedBefore(r)
  BY <1>1, <1>2 DEF OuterBefore, PhaseBefore, ListedBefore, Preparing, Ended
<1>4. \A i \in Inputs, k \in 1..13 : ClientBefore(i, k)' => ClientBefore(i, k)
  <2>1. \A d \in Clients, k \in 1..13 : Place(d)' <= k => Place(d) <= k
    BY <1>1, <1>2
  <2>2. QED
    BY <1>1, <1>2, <2>1, InputParts DEF ClientBefore, Preparing
<1>5. PICK i \in Inputs : i = <<task, c>>
  BY <1>0 DEF Inputs
<1>6. PICK k \in 1..13 : k = Place(c)
  BY <1>1
<1>7. ClientBefore(i, k) /\ ~ClientBefore(i, k)'
  <2>1. ClientBefore(i, k)
    BY <1>1, <1>2, <1>5, <1>6 DEF ClientBefore
  <2>2. ~(Place(c)' <= k)
    BY <1>1, <1>2, <1>6
  <2>3. i[1] = task /\ i[2] = c
    BY <1>5
  <2>4. QED
    BY <1>0, <1>1, <1>2, <2>1, <2>2, <2>3 DEF ClientBefore, Preparing
<1>8. QED
  BY <1>1, <1>3, <1>4, <1>7, StrikesOff

(* The parser stops once, and nobody else does anything then.              *)
LEMMA ParserStrikesOff ==
  ASSUME IInv, ParserStops
  PROVE  ProgramStrikesOff
<1>1. receiving /\ ~receiving' /\ UNCHANGED <<main, task, client, listed>>
  BY DEF ParserStops, mainVars
<1>2. PlaceInTask' = PlaceInTask /\ \A c \in Clients : Place(c)' = Place(c)
  BY <1>1 DEF PlaceInTask, Place
<1>3. /\ \A p \in OuterPhases : OuterBefore(p)' => OuterBefore(p)
      /\ \A t \in Tasks, k \in 1..8 : PhaseBefore(t, k)' => PhaseBefore(t, k)
      /\ \A i \in Inputs, k \in 1..13 : ClientBefore(i, k)' => ClientBefore(i, k)
      /\ \A q \in Roles : ListedBefore(q)' => ListedBefore(q)
  BY <1>1, <1>2, InputParts DEF OuterBefore, PhaseBefore, ClientBefore, ListedBefore, Preparing, Ended
<1>4. QED
  BY <1>1, <1>3, StrikesOff

(* A pod runs, succeeds and is removed once each.                          *)
LEMMA KubeletStrikesOff ==
  ASSUME IInv, NEW r \in Roles, Kubelet(r)
  PROVE  ClusterStrikesOff
<1>1. UNCHANGED <<main, task, client, listed, receiving>>
  BY DEF Kubelet, mainVars, clientVars
<1>2. PlaceInTask' = PlaceInTask /\ \A c \in Clients : Place(c)' = Place(c)
  BY <1>1 DEF PlaceInTask, Place
<1>3. /\ \A p \in OuterPhases : OuterBefore(p)' <=> OuterBefore(p)
      /\ \A t \in Tasks, k \in 1..8 : PhaseBefore(t, k)' <=> PhaseBefore(t, k)
      /\ \A i \in Inputs, k \in 1..13 : ClientBefore(i, k)' <=> ClientBefore(i, k)
      /\ \A q \in Roles : ListedBefore(q)' <=> ListedBefore(q)
  BY <1>1, <1>2, InputParts DEF OuterBefore, PhaseBefore, ClientBefore, ListedBefore, Preparing, Ended
<1>4. AllLeft' = AllLeft
  BY <1>1, <1>3 DEF AllLeft, OuterLeft, PhasesLeft, ClientsLeft, ListedLeft, ParserLeft
<1>5. /\ Exists(r) /\ \A q \in Roles : q # r => pods'[q] = pods[q]
      /\ \/ pods[r].phase = "Pending" /\ pods'[r].phase = "Running"
         \/ pods[r].phase = "Running" /\ pods'[r].phase = "Succeeded"
         \/ pods'[r] = NoPod
  <2>1. pods \in [Roles -> Pods] /\ Exists(r)
    BY DEF IInv, TypeOK, Kubelet
  <2>2. pods[r] \in [owner : Owners, phase : {"Pending", "Running", "Succeeded"}, deleting : BOOLEAN]
    BY <2>1, PodParts DEF IInv
  <2>3. QED
    BY <2>1, <2>2 DEF Kubelet
<1>6. \A q \in Roles, s \in {"run", "succeed", "remove"} : LifeBefore(q, s)' => LifeBefore(q, s)
  BY <1>5 DEF LifeBefore, Exists, NoPod
<1>7. \E s \in {"run", "succeed", "remove"} : LifeBefore(r, s) /\ ~LifeBefore(r, s)'
  BY <1>5 DEF LifeBefore, Exists
<1>8. LivesLeft' \subseteq LivesLeft /\ LivesLeft' # LivesLeft
  <2>1. PICK s \in {"run", "succeed", "remove"} : LifeBefore(r, s) /\ ~LifeBefore(r, s)'
    BY <1>7
  <2>2. <<r, s>> \in LivesLeft /\ <<r, s>> \notin LivesLeft'
    BY <2>1 DEF LivesLeft
  <2>3. QED
    BY <1>6, <2>2 DEF LivesLeft
<1>9. QED
  BY <1>4, <1>8 DEF ClusterStrikesOff

(***************************************************************************)
(* Finitely much is left to do.  A step of a goroutine strikes something   *)
(* off and adds to nothing but the lives of the pods, which the cluster    *)
(* strikes off between two steps of the program: goroutines that recreate  *)
(* and delete the one pod of all clients do so a bounded number of times.  *)
(***************************************************************************)
THEOREM TakesFinitelyManySteps == Spec => []FinitelyMuchLeft /\ [][OnlyStrikesOff]_vars
<1>1. IInv /\ [Next]_vars => [OnlyStrikesOff]_vars
  BY MainStrikesOff, ClientStrikesOff, ParserStrikesOff, KubeletStrikesOff
     DEF Next, Terminated, OnlyStrikesOff
<1>2. QED
  BY <1>1, AlwaysFinite, AlwaysIInv, PTL DEF Spec

\* The calls of the program leave a marked pod marked, and mark what they delete.
LEMMA Marking ==
  ASSUME TypeOK, NEW r \in Roles, DeletePod(r)
  PROVE  /\ \A q \in Roles : (Exists(q))' <=> Exists(q)
         /\ Exists(r) => pods'[r].deleting
         /\ \A q \in Roles : q # r => pods'[q] = pods[q]
<1>1. \A q \in Roles : q # r => pods'[q] = pods[q]
  BY Deleting
<1>2. \A q \in Roles : (Exists(q))' <=> Exists(q)
  <2>1. (Exists(r))' <=> Exists(r)
    BY Deleting
  <2>2. \A q \in Roles : q # r => ((Exists(q))' <=> Exists(q))
    BY <1>1 DEF Exists
  <2>3. QED
    BY <2>1, <2>2
<1>3. Exists(r) => pods'[r].deleting
  <2>1. pods \in [Roles -> Pods]
    BY DEF TypeOK
  <2>2. Exists(r) => pods[r] \in [owner : Owners, phase : {"Pending", "Running", "Succeeded"},
                                  deleting : BOOLEAN]
    BY PodParts
  <2>3. QED
    BY <2>1, <2>2 DEF DeletePod
<1>4. QED
  BY <1>1, <1>2, <1>3

LEMMA AlwaysMarked == Spec => []Marked
<1>1. Init => Marked
  BY DEF Init, Marked, Exists, Roles
<1>2. ASSUME IInv, Marked, [Next]_vars PROVE Marked'
  <2>0. faulty' = faulty /\ TypeOK /\ "server" \in Roles /\ "client" \in Roles
    <3>1. faulty' = faulty
      BY <1>2 DEF Next, Main, GetNamespace, CreateNamespace, PrepareFails, AssignServerPod, DeleteOldServer,
             OldServerGone, CreateServer, ServerRuns, ServerAddress, StartClient, DeleteServer,
             ServerGone, ServerFails, ListPods, DeleteListed, Cleaned, CleanupFails, MainGoes, MapRace,
             ParserStops, Client, AssignPod, CallRecreate, DeleteOldPod, OldPodGone, CreateClientPod,
             PodRunsOrSucceeded, PodSucceeded, OpenLogs, SendLogs, DeleteClientPod, ClientPodGone,
             ClientFails, Record, ClientGoes, Kubelet, Terminated, vars, setup
    <3>2. QED
      BY <1>2, <3>1 DEF IInv, Roles
  <2>1. ASSUME main' \notin {"gone", "deleted"} \/ main' = main, pods' = pods, client' = client
        PROVE  Marked'
    BY <1>2, <2>0, <2>1 DEF Marked, Exists
  <2>2. ASSUME DeletePod("server"), UNCHANGED client
        PROVE  Marked'
    <3>1. /\ (Exists("server"))' <=> Exists("server")
          /\ Exists("server") => pods'["server"].deleting
          /\ pods'["client"] = pods["client"]
      BY <2>0, <2>2, Marking
    <3>2. QED
      BY <1>2, <2>0, <2>2, <3>1 DEF Marked, Exists
  <2>3. CASE GetNamespace \/ CreateNamespace \/ PrepareFails \/ AssignServerPod \/ OldServerGone \/ ServerRuns
    <3>1. main' \notin {"gone", "deleted"} /\ UNCHANGED <<pods, client>>
      BY <2>3 DEF GetNamespace, CreateNamespace, PrepareFails, AssignServerPod, OldServerGone, ServerRuns,
             MainGoes, clientVars
    <3>2. QED
      BY <2>1, <3>1
  <2>4. CASE DeleteOldServer \/ DeleteServer
    BY <2>2, <2>4 DEF DeleteOldServer, DeleteServer, MainGoes, clientVars
  <2>5. CASE CreateServer
    <3>1. /\ main' = "run" /\ client' = client /\ pods'["client"] = pods["client"]
      <4>1. pods \in [Roles -> Pods] /\ main' = "run" /\ client' = client
        BY <2>0, <2>5 DEF CreateServer, MainGoes, clientVars, TypeOK
      <4>2. QED
        BY <2>0, <2>5, <4>1 DEF CreateServer, CreatePod
    <3>2. QED
      BY <1>2, <2>0, <3>1 DEF Marked, Exists
  <2>6. CASE ServerAddress
    <3>1. main' = "clients" /\ UNCHANGED pods /\ ClientsReturned
      BY <1>2, <2>6 DEF ServerAddress, IInv, Phases
    <3>2. QED
      BY <1>2, <2>0, <3>1 DEF Marked, Exists, ClientsReturned
  <2>7. CASE StartClient
    <3>1. main' = main /\ main = "clients" /\ UNCHANGED pods
          /\ client' = [client EXCEPT ![spawned + 1] = "assign"] /\ spawned < NClients
      BY <2>7 DEF StartClient
    <3>2. \A c \in Clients : client[c] \in {"run", "succeed", "logs", "send", "deletePod"} => client'[c] = client[c]
      <4>1. PICK d \in Clients : d = spawned + 1
        BY <1>2, <3>1, Sizes DEF IInv, TypeOK, Clients
      <4>2. client[d] = "idle"
        <5>1. d > spawned
          BY <1>2, <4>1 DEF IInv, TypeOK
        <5>2. QED
          BY <1>2, <3>1, <5>1 DEF IInv, Started
      <4>3. QED
        BY <2>0, <3>1, <4>1, <4>2 DEF TypeOK
    <3>3. QED
      BY <1>2, <2>0, <3>1, <3>2 DEF Marked, Exists
  <2>8. CASE ServerGone \/ ServerFails \/ ListPods \/ Cleaned \/ CleanupFails \/ MapRace
           \/ ParserStops
    <3>1. main' \notin {"gone", "deleted"} /\ UNCHANGED <<pods, client>>
      BY <2>8 DEF ServerGone, ServerFails, ListPods, Cleaned, CleanupFails, MapRace, ParserStops,
             AfterTask, mainVars, clientVars
    <3>2. QED
      BY <2>1, <3>1
  <2>9. CASE DeleteListed
    <3>1. PICK r \in Roles : DeletePod(r)
      BY <1>2, <2>9 DEF DeleteListed, IInv, TypeOK
    <3>2. main' = main /\ UNCHANGED client
      BY <2>9 DEF DeleteListed, mainVars, clientVars
    <3>3. CASE r = "server"
      BY <2>2, <3>1, <3>2, <3>3
    <3>4. CASE r = "client"
      <4>1. /\ (Exists("client"))' <=> Exists("client")
            /\ Exists("client") => pods'["client"].deleting
            /\ pods'["server"] = pods["server"]
        BY <2>0, <3>1, <3>4, Marking
      <4>2. QED
        BY <1>2, <2>0, <3>2, <4>1 DEF Marked, Exists
    <3>5. QED
      BY <3>3, <3>4 DEF Roles
  <2>10. ASSUME NEW c \in Clients, Client(c) PROVE Marked'
    <3>0. /\ main = "clients" /\ main' = main
          /\ \A d \in Clients : d # c => client'[d] = client[d]
      BY <1>2, <2>10, ClientGoesOn
    <3>1. CASE \/ AssignPod(c) \/ CallRecreate(c) \/ OldPodGone(c)
               \/ PodRunsOrSucceeded(c) \/ PodSucceeded(c) \/ OpenLogs(c)
               \/ SendLogs(c) \/ ClientPodGone(c) \/ Record(c)
      <4>1. /\ UNCHANGED pods
            /\ client[c] \in {"run", "succeed", "logs", "send", "deletePod"} =>
                 client'[c] \in {"run", "succeed", "logs", "send", "deletePod"}
        BY <2>0, <3>1 DEF AssignPod, CallRecreate, OldPodGone, PodRunsOrSucceeded, PodSucceeded, OpenLogs,
               SendLogs, ClientPodGone, Record, ClientGoes, TypeOK
      <4>2. QED
        BY <1>2, <2>0, <3>0, <4>1 DEF Marked, Exists
    <3>2. CASE DeleteOldPod(c) \/ DeleteClientPod(c)
      <4>1. DeletePod("client")
        BY <3>2 DEF DeleteOldPod, DeleteClientPod
      <4>2. /\ (Exists("client"))' <=> Exists("client")
            /\ Exists("client") => pods'["client"].deleting
            /\ pods'["server"] = pods["server"]
        BY <2>0, <4>1, Marking
      <4>3. QED
        BY <1>2, <2>0, <3>0, <4>2 DEF Marked, Exists
    <3>3. CASE CreateClientPod(c)
      <4>1. client'[c] = "run" /\ CreatePod("client", arg[c])
        BY <2>0, <3>3 DEF CreateClientPod, ClientGoes, TypeOK
      <4>2. QED
        BY <1>2, <3>0, <4>1 DEF Marked
    <3>4. CASE ClientFails(c)
      <4>1. UNCHANGED pods /\ (faulty \/ ~Exists("client") \/ client[c] \in {"gone", "deleted"})
        BY <3>4 DEF ClientFails
      <4>2. QED
        BY <1>2, <2>0, <3>0, <4>1 DEF Marked, Exists
    <3>5. QED
      BY <2>10, <3>1, <3>2, <3>3, <3>4 DEF Client
  <2>11. ASSUME NEW r \in Roles, Kubelet(r) PROVE Marked'
    <3>1. /\ UNCHANGED <<main, client>> /\ \A q \in Roles : q # r => pods'[q] = pods[q]
          /\ pods \in [Roles -> Pods] /\ Exists(r)
      BY <2>0, <2>11 DEF Kubelet, mainVars, clientVars, TypeOK
    <3>2. pods[r] \in [owner : Owners, phase : {"Pending", "Running", "Succeeded"}, deleting : BOOLEAN]
      BY <2>0, <3>1, PodParts
    <3>3. pods'[r] = NoPod \/ pods'[r].deleting = pods[r].deleting
      BY <2>11, <3>1, <3>2 DEF Kubelet
    <3>4. \A q \in Roles : (Exists(q))' => Exists(q) /\ pods'[q].deleting = pods[q].deleting
      BY <3>1, <3>3 DEF Exists
    <3>5. QED
      BY <1>2, <2>0, <3>1, <3>4 DEF Marked
  <2>12. CASE UNCHANGED vars
    BY <2>1, <2>12 DEF vars, mainVars, clientVars
  <2>13. QED
    BY <1>2, <2>3, <2>4, <2>5, <2>6, <2>7, <2>8, <2>9, <2>10, <2>11, <2>12 DEF Next, Main, Terminated
<1>3. QED
  BY <1>1, <1>2, AlwaysIInv, PTL DEF Spec

(***************************************************************************)
(* The goroutines never wait for each other in a circle, although in       *)
(* parallel mode they wait for the end of a pod that another of them has   *)
(* created again: unless the runner has ended, one of them can go on, has  *)
(* waited until its timeout, or the cluster has something to do.  The only *)
(* other end is that all wait for a goroutine whose result the parser does *)
(* not take.  With the theorem before, all that EndsOrSticks needs beyond  *)
(* is that what can go on does.                                            *)
(***************************************************************************)
THEOREM BlocksOnlyIfStuck == Spec => [](Ended \/ Stuck \/ CanStep)
<1>1. IInv /\ Marked /\ ~Ended /\ ~Stuck => CanStep
  <2> SUFFICES ASSUME IInv, Marked, ~Ended, ~Stuck PROVE CanStep
    OBVIOUS
  <2>0. "server" \in Roles /\ "client" \in Roles
    BY DEF Roles
  <2>1. CASE main \in {"gone", "deleted"}
    <3>1. CASE Exists("server")
      <4>1. KubeletCanStep("server")
        BY <2>1, <3>1 DEF Marked, KubeletCanStep
      <4>2. QED
        BY <2>0, <4>1 DEF CanStep
    <3>2. CASE ~Exists("server")
      BY <2>1, <3>2 DEF CanStep
    <3>3. QED
      BY <3>1, <3>2
  <2>2. CASE main = "run"
    <3>1. CASE Exists("server") /\ pods["server"].phase = "Pending"
      <4>1. KubeletCanStep("server")
        BY <3>1 DEF KubeletCanStep
      <4>2. QED
        BY <2>0, <4>1 DEF CanStep
    <3>2. CASE ~(Exists("server") /\ pods["server"].phase = "Pending")
      BY <2>2, <3>2 DEF CanStep, IInv, ServerPod
    <3>3. QED
      BY <3>1, <3>2
  <2>3. CASE main = "clients" /\ ClientsReturned
    <3>1. spawned = NClients \/ spawned < NClients
      BY Sizes DEF IInv, TypeOK
    <3>2. QED
      BY <2>3, <3>1 DEF CanStep
  <2>4. CASE main = "clients" /\ ~ClientsReturned
    <3>1. SUFFICES \/ \E c \in Clients : ClientCanStep(c)
                   \/ KubeletCanStep("client")
                   \/ mode = "parallel" /\ spawned < NClients
      BY <2>0, <2>4 DEF CanStep
    <3> DEFINE WithPod == \E c \in Clients :
                            \/ client[c] \in {"run", "succeed", "logs", "deletePod"}
                            \/ client[c] = "send" /\ receiving
               Free    == \E c \in Clients :
                            client[c] \in {"assign", "call", "delete", "create", "ok", "fail"}
               Waiting == /\ \A c \in Clients : client[c] \in {"idle", "send", "gone", "deleted", "returned"}
                          /\ \A c \in Clients : client[c] = "send" => ~receiving
    <3>2. CASE WithPod
      <4>1. PICK c \in Clients :
                   \/ client[c] \in {"run", "succeed", "logs", "deletePod"}
                   \/ client[c] = "send" /\ receiving
        BY <3>2
      <4>2. Exists("client") => pods["client"].phase \in {"Pending", "Running", "Succeeded"}
        BY <2>0, PodParts DEF IInv
      <4>3. QED
        BY <4>1, <4>2 DEF ClientCanStep, KubeletCanStep
    <3>3. CASE Free
      BY <3>3 DEF ClientCanStep
    <3>4. CASE Waiting
      <4>1. CASE \E c \in Clients : client[c] \in {"gone", "deleted"}
        <5>1. PICK c \in Clients : client[c] \in {"gone", "deleted"}
          BY <4>1
        <5>2. CASE \E d \in Clients : client[d] = "send"
          <6>1. Blocked
            BY <3>4, <5>2 DEF Blocked
          <6>2. ClientCanStep(c)
            BY <5>1, <6>1 DEF ClientCanStep
          <6>3. QED
            BY <6>2
        <5>3. CASE \A d \in Clients : client[d] # "send"
          <6>1. faulty \/ ~Exists("client") \/ pods["client"].deleting
            BY <3>4, <5>3 DEF Marked
          <6>2. QED
            BY <5>1, <6>1 DEF ClientCanStep, KubeletCanStep
        <5>4. QED
          BY <5>2, <5>3
      <4>2. CASE \A c \in Clients : client[c] \in {"idle", "send", "returned"}
        <5>1. Blocked
          BY <2>4, <3>4, <4>2 DEF Blocked, ClientsReturned
        <5>2. mode = "parallel" /\ spawned # NClients
          BY <2>4, <4>2, <5>1 DEF Stuck
        <5>3. QED
          BY <5>2, Sizes DEF IInv, TypeOK
      <4>3. QED
        BY <3>4, <4>1, <4>2
    <3>5. \A c \in Clients :
            \/ client[c] \in {"assign", "call", "delete", "create", "ok", "fail"}
            \/ client[c] \in {"run", "succeed", "logs", "deletePod"}
            \/ client[c] \in {"idle", "send", "gone", "deleted", "returned"}
      BY DEF IInv, TypeOK
    <3>6. WithPod \/ Free \/ Waiting
      BY <3>5, Zenon
    <3> HIDE DEF WithPod, Free, Waiting
    <3>7. QED
      BY <3>2, <3>3, <3>4, <3>6
  <2>5. CASE main \notin {"gone", "deleted", "run", "clients"}
    BY <2>5 DEF IInv, TypeOK, Ended, CanStep
  <2>6. QED
    BY <2>1, <2>2, <2>3, <2>4, <2>5
<1>2. QED
  BY <1>1, AlwaysMarked, AlwaysIInv, PTL
=============================================================================
