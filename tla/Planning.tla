------------------------------ MODULE Planning ------------------------------
(***************************************************************************)
(* From the hosts of a runner to the plan of a test: GetHostsForTest of    *)
(* the Kubernetes and mock runners applies the selections of the test to   *)
(* the available hosts (pkg/hostsfilter), and Plan of the testers lays out *)
(* every round: a main task per server, with a sub task per client.        *)
(*                                                                         *)
(* Servers and clients are Go maps, which are ranged over in any order.    *)
(***************************************************************************)
EXTENDS Integers, SequencesExt, FiniteSetsExt

CONSTANTS
  Nodes,             \* the names of the nodes, in the order of the node list
  Labels,            \* the label keys a node may have
  Values,            \* and their values
  ServerSelections,  \* test.Hosts.Servers and test.Hosts.Clients:
  ClientSelections,  \*   sequences of config.Hosts
  Rounds, Interval   \* RunOptions

NoLabel  == "no label"
NoServer == "none"

ASSUME PlanningAssumption ==
  /\ Nodes \in Seq(STRING) /\ NoServer \notin Range(Nodes)
  /\ \A sels \in {ServerSelections, ClientSelections} :
       /\ sels \in Seq(Range(sels))
       /\ \A k \in DOMAIN sels :
            IsFiniteSet(sels[k].hosts) /\ NoServer \notin sels[k].hosts /\ sels[k].count \in Int
  /\ Rounds \in Nat \ {0} /\ Interval \in Nat /\ NoLabel \notin Values

NodeNames == Range(Nodes)

VARIABLES
  labels,     \* Node.Labels
  usable,     \* schedulable nodes whose taints are tolerated
  selected,   \* selections applied so far, the servers' first
  node,       \* in FilterHostsList: the node the loop looks at,
  used,       \*   usedLabels of checkAntiAffinity,
  kept,       \*   the hosts that passed,
  picks,      \*   and how often the random selection has picked
  servers, clients,
  commands,   \* plan.Commands
  waiting,    \* servers the round at hand still lacks
  affected    \* plan.AffectedServers

filterVars == <<node, used, kept, picks>>
hostVars == <<labels, usable, selected, filterVars, servers, clients>>
planVars == <<commands, waiting, affected>>
vars == <<hostVars, planVars>>

Init ==
  /\ labels \in [NodeNames -> [Labels -> Values \union {NoLabel}]]
  /\ usable \in SUBSET NodeNames
  /\ selected = 0 /\ node = 1 /\ used = {} /\ kept = {} /\ picks = 0
  /\ servers = {} /\ clients = {}
  /\ commands = <<>> /\ waiting = {} /\ affected = {}

-----------------------------------------------------------------------------
(* FilterHostsList                                                         *)

ForServers == selected < Len(ServerSelections)

Selection ==
  IF ForServers THEN ServerSelections[selected + 1]
  ELSE ClientSelections[selected + 1 - Len(ServerSelections)]

AllSelected == selected = Len(ServerSelections) + Len(ClientSelections)

\* Static hosts are taken as they are.
IsStatic == Selection.hosts # {}

Filtered == node > Len(Nodes)

\* Random selection needs hosts to pick from.
IsRandom == ~IsStatic /\ kept # {} /\ ~Selection.all /\ Selection.random

Matches(n, sel) == \A l \in DOMAIN sel.hostSelector : labels[n][l] = sel.hostSelector[l]

\* k8sNodesToHosts and filterHostsByLabels
Candidate(n, sel) == n \in usable /\ Matches(n, sel)

LabelsOf(n, keys) == {<<l, labels[n][l]>> : l \in {k \in keys : labels[n][k] # NoLabel}}

\* Faulty: a host is compared with the one before it only.
CompareNeighbours ==
  /\ ~AllSelected /\ ~IsStatic /\ ~Filtered
  /\ LET n == Nodes[node]  own == LabelsOf(n, Selection.antiAffinity) IN
     IF Candidate(n, Selection)
     THEN /\ kept' = IF own \intersect used = {} THEN kept \union {n} ELSE kept
          /\ used' = own
     ELSE UNCHANGED <<used, kept>>
  /\ node' = node + 1
  /\ UNCHANGED <<labels, usable, selected, picks, servers, clients, planVars>>

\* checkAntiAffinity goes through the hosts in order and notes the values of
\* each, those of rejected hosts too.
CheckAntiAffinity ==
  /\ ~AllSelected /\ ~IsStatic /\ ~Filtered
  /\ LET n == Nodes[node]  own == LabelsOf(n, Selection.antiAffinity) IN
     IF Candidate(n, Selection)
     THEN /\ kept' = IF own \intersect used = {} THEN kept \union {n} ELSE kept
          /\ used' = used \union own
     ELSE UNCHANGED <<used, kept>>
  /\ node' = node + 1
  /\ UNCHANGED <<labels, usable, selected, picks, servers, clients, planVars>>

AddHosts(names) ==
  IF ForServers
  THEN servers' = servers \union names /\ UNCHANGED clients
  ELSE clients' = clients \union names /\ UNCHANGED servers

NextSelection ==
  /\ selected' = selected + 1
  /\ node' = 1 /\ used' = {} /\ kept' = {} /\ picks' = 0

\* Without random selection all that passed are taken.
SelectHosts ==
  /\ ~AllSelected /\ (IsStatic \/ Filtered) /\ ~IsRandom
  /\ AddHosts(IF IsStatic THEN Selection.hosts ELSE kept)
  /\ NextSelection
  /\ UNCHANGED <<labels, usable, planVars>>

\* filteredHosts[r.Intn(len(filteredHosts))]; the map of the hosts keeps one
\* of each name, so that fewer than Count may be selected.
PickRandom ==
  /\ ~AllSelected /\ Filtered /\ IsRandom /\ picks < Selection.count
  /\ \E n \in kept : AddHosts({n})
  /\ picks' = picks + 1
  /\ UNCHANGED <<labels, usable, selected, node, used, kept, planVars>>

AllPicked ==
  /\ ~AllSelected /\ Filtered /\ IsRandom /\ picks >= Selection.count
  /\ NextSelection
  /\ UNCHANGED <<labels, usable, servers, clients, planVars>>

-----------------------------------------------------------------------------
(* Plan                                                                    *)

Sleep    == [server |-> NoServer, subTasks |-> <<>>]
IsRun(t) == t.server # NoServer
Round    == Len(commands)

NextRound ==
  /\ AllSelected /\ waiting = {} /\ Round < Rounds
  /\ commands' = Append(commands, <<>>)
  /\ waiting' = servers
  /\ UNCHANGED <<hostVars, affected>>

\* A sleep unless this is the last round: the comment in Plan speaks of one
\* per round, the code adds one per server.
WithSleep(tasks) ==
  IF Interval # 0 /\ Round # Rounds THEN Append(tasks, Sleep) ELSE tasks

AddMainTask(s, subTasks) ==
  commands' = [commands EXCEPT ![Round] =
                 WithSleep(Append(@, [server |-> s, subTasks |-> subTasks]))]

\* Faulty: a server is no client of itself.
PlanOtherClients(s) ==
  /\ s \in waiting
  /\ waiting' = waiting \ {s}
  /\ \E order \in SetToSeqs(clients \ {s}) : AddMainTask(s, order)
  /\ affected' = affected \union {s} \union clients
  /\ UNCHANGED hostVars

\* The main task of a server with a sub task for each client.
PlanServer(s) ==
  /\ s \in waiting
  /\ waiting' = waiting \ {s}
  /\ \E order \in SetToSeqs(clients) : AddMainTask(s, order)
  /\ affected' = affected \union {s} \union clients
  /\ UNCHANGED hostVars

Planned == AllSelected /\ waiting = {} /\ Round = Rounds

Terminated == Planned /\ UNCHANGED vars

Next ==
  \/ CheckAntiAffinity \/ SelectHosts \/ PickRandom \/ AllPicked
  \/ NextRound \/ (\E s \in servers : PlanServer(s))
  \/ Terminated

Spec == Init /\ [][Next]_vars

-----------------------------------------------------------------------------
(* Properties                                                              *)

(***************************************************************************)
(* The plan of a test has each pair of a server and a client exactly once  *)
(* per round, whatever the order of the maps, also for a host that is both *)
(* server and client; and names every host it uses as affected.            *)
(***************************************************************************)
Occurrences(k, s, c) ==
  {p \in (DOMAIN commands[k]) \X (1 .. Cardinality(clients)) :
     LET task == commands[k][p[1]] IN
     task.server = s /\ p[2] \in DOMAIN task.subTasks /\ task.subTasks[p[2]] = c}

PlanComplete ==
  Planned =>
    /\ \A k \in 1..Rounds : \A s \in servers, c \in clients :
         Cardinality(Occurrences(k, s, c)) = 1
    /\ \A k \in 1..Rounds : \A i \in DOMAIN commands[k] :
         IsRun(commands[k][i]) => commands[k][i].server \in servers
    /\ servers # {} => affected = servers \union clients

\* The first k nodes that pass a selection: candidates that share no label of
\* the anti-affinity with an earlier candidate, whether that one passed or not.
Passing(sel, k) ==
  {Nodes[i] : i \in {i \in 1 .. k :
     /\ Candidate(Nodes[i], sel)
     /\ \A j \in 1 .. i - 1 : Candidate(Nodes[j], sel) =>
          LabelsOf(Nodes[i], sel.antiAffinity) \intersect LabelsOf(Nodes[j], sel.antiAffinity) = {}}}

\* The hosts a selection may choose, and whether it chose what it has to.
Eligible(sel) == IF sel.hosts # {} THEN sel.hosts ELSE Passing(sel, Len(Nodes))

Honoured(sel, hosts) ==
  IF sel.hosts = {} /\ sel.random /\ ~sel.all
  THEN sel.count > 0 /\ Eligible(sel) # {} => Eligible(sel) \intersect hosts # {}
  ELSE Eligible(sel) \subseteq hosts

Respected(sels, hosts) ==
  /\ hosts \subseteq UNION {Eligible(sels[k]) : k \in DOMAIN sels}
  /\ \A k \in DOMAIN sels : Honoured(sels[k], hosts)

Apart(S, keys) ==
  \A m, n \in S : m # n => \A l \in keys :
    labels[m][l] # NoLabel => labels[m][l] # labels[n][l]

(***************************************************************************)
(* What FilterHostsList promises of a test with several selections.  Each  *)
(* static selection chooses its hosts, each other one all nodes that pass  *)
(* it, or at least one of them if it is random and its count is positive;  *)
(* no other host is a server or a client.  The nodes that pass one         *)
(* selection differ in every anti-affinity label they have; hosts of two   *)
(* selections need not.  A node is also kept out by the labels of an       *)
(* earlier node that was itself rejected (hostsfilter.go:114).             *)
(***************************************************************************)
SelectionsRespected ==
  /\ ~AllSelected => Apart(kept, Selection.antiAffinity)
  /\ AllSelected => /\ Respected(ServerSelections, servers)
                    /\ Respected(ClientSelections, clients)
=============================================================================
