--------------------------- MODULE PlanningProofs ---------------------------
(***************************************************************************)
(* From the hosts to the plan, for every list of nodes, all labels, every  *)
(* list of selections and any number of rounds: the selections are         *)
(* respected, and the plan has every pair once per round.                  *)
(***************************************************************************)
EXTENDS Planning, FiniteSetTheorems, TLAPS

HostNames ==
  NodeNames \union (UNION {ServerSelections[k].hosts : k \in DOMAIN ServerSelections})
            \union (UNION {ClientSelections[k].hosts : k \in DOMAIN ClientSelections})

Tasks == [server : HostNames \union {NoServer}, subTasks : Seq(HostNames)]

TypeOK ==
  /\ usable \subseteq NodeNames
  /\ selected \in 0 .. Len(ServerSelections) + Len(ClientSelections)
  /\ node \in 1 .. Len(Nodes) + 1 /\ picks \in Nat
  /\ kept \subseteq NodeNames /\ IsFiniteSet(kept)
  /\ servers \subseteq HostNames
  /\ clients \subseteq HostNames /\ IsFiniteSet(clients)
  /\ commands \in Seq(Seq(Tasks)) /\ Round <= Rounds
  /\ waiting \subseteq servers
  /\ affected \subseteq servers \union clients

-----------------------------------------------------------------------------
(* The selection                                                           *)

\* usedLabels after the first k nodes.
Seen(sel, k) ==
  UNION {LabelsOf(Nodes[j], sel.antiAffinity) : j \in {j \in 1 .. k : Candidate(Nodes[j], sel)}}

(***************************************************************************)
(* The loop has compared the nodes before the one at hand: kept are those  *)
(* that pass, usedLabels has the values of every candidate among them.     *)
(* Random selection begins after the loop, and what it picked is chosen.   *)
(***************************************************************************)
Passed ==
  /\ AllSelected => kept = {}
  /\ ~AllSelected => /\ kept = Passing(Selection, node - 1)
                     /\ used = Seen(Selection, node - 1)
  /\ picks > 0 => /\ ~AllSelected /\ Filtered
                  /\ IF ForServers THEN kept \intersect servers # {}
                                   ELSE kept \intersect clients # {}

(***************************************************************************)
(* The hosts that were chosen: no others than those that were eligible,    *)
(* and enough for every selection that is over.                            *)
(***************************************************************************)
Chosen ==
  /\ servers \subseteq UNION {Eligible(ServerSelections[k]) : k \in DOMAIN ServerSelections}
  /\ clients \subseteq UNION {Eligible(ClientSelections[k]) : k \in DOMAIN ClientSelections}
  /\ \A k \in DOMAIN ServerSelections :
       k <= selected => Honoured(ServerSelections[k], servers)
  /\ \A k \in DOMAIN ClientSelections :
       k + Len(ServerSelections) <= selected => Honoured(ClientSelections[k], clients)

-----------------------------------------------------------------------------
(* The plan                                                                *)

Once(tasks, s) ==
  \E i \in DOMAIN tasks :
    tasks[i].server = s /\ \A j \in DOMAIN tasks : tasks[j].server = s => j = i

Never(tasks, s) == \A i \in DOMAIN tasks : tasks[i].server # s

\* A task is a sleep or has a sub task for each client.
Fits(t) == t.server # NoServer => t.server \in servers /\ t.subTasks \in SetToSeqs(clients)

(***************************************************************************)
(* Every round has one task for every server, but for the servers that the *)
(* last round still lacks.                                                 *)
(***************************************************************************)
LaidOut ==
  /\ Round > 0 => AllSelected
  /\ Round = 0 => waiting = {} /\ affected = {}
  /\ \A k \in 1 .. Round : \A i \in DOMAIN commands[k] : Fits(commands[k][i])
  /\ \A k \in 1 .. Round : \A s \in servers :
       /\ k # Round \/ s \notin waiting => Once(commands[k], s)
       /\ k = Round /\ s \in waiting => Never(commands[k], s)
  /\ \A s \in servers : Round > 1 \/ (Round = 1 /\ s \notin waiting) =>
       s \in affected /\ clients \subseteq affected

IInv == TypeOK /\ Passed /\ Chosen /\ LaidOut

-----------------------------------------------------------------------------
(* Lemmas                                                                  *)

LEMMA Length == \A S : \A s \in Seq(S) : Len(s) \in Nat /\ DOMAIN s = 1 .. Len(s)
OBVIOUS

LEMMA Constants ==
  /\ Len(Nodes) \in Nat /\ DOMAIN Nodes = 1 .. Len(Nodes)
  /\ Len(ServerSelections) \in Nat /\ DOMAIN ServerSelections = 1 .. Len(ServerSelections)
  /\ Len(ClientSelections) \in Nat /\ DOMAIN ClientSelections = 1 .. Len(ClientSelections)
  /\ Rounds \in Nat \ {0} /\ NoServer \notin HostNames
  /\ \A k \in DOMAIN ServerSelections :
       IsFiniteSet(ServerSelections[k].hosts) /\ ServerSelections[k].count \in Int
  /\ \A k \in DOMAIN ClientSelections :
       IsFiniteSet(ClientSelections[k].hosts) /\ ClientSelections[k].count \in Int
<1>1. /\ ServerSelections \in Seq(Range(ServerSelections))
      /\ ClientSelections \in Seq(Range(ClientSelections))
      /\ \A k \in DOMAIN ServerSelections :
           /\ IsFiniteSet(ServerSelections[k].hosts) /\ NoServer \notin ServerSelections[k].hosts
           /\ ServerSelections[k].count \in Int
      /\ \A k \in DOMAIN ClientSelections :
           /\ IsFiniteSet(ClientSelections[k].hosts) /\ NoServer \notin ClientSelections[k].hosts
           /\ ClientSelections[k].count \in Int
      /\ NoServer \notin NodeNames
  BY PlanningAssumption DEF NodeNames
<1>2. NoServer \notin HostNames
  BY <1>1 DEF HostNames
<1>3. /\ Len(Nodes) \in Nat /\ DOMAIN Nodes = 1 .. Len(Nodes)
      /\ Len(ServerSelections) \in Nat /\ DOMAIN ServerSelections = 1 .. Len(ServerSelections)
      /\ Len(ClientSelections) \in Nat /\ DOMAIN ClientSelections = 1 .. Len(ClientSelections)
  BY <1>1, PlanningAssumption, Length
<1>4. Rounds \in Nat \ {0}
  BY PlanningAssumption
<1>5. /\ \A k \in DOMAIN ServerSelections :
           IsFiniteSet(ServerSelections[k].hosts) /\ ServerSelections[k].count \in Int
      /\ \A k \in DOMAIN ClientSelections :
           IsFiniteSet(ClientSelections[k].hosts) /\ ClientSelections[k].count \in Int
  BY <1>1
<1>6. QED
  BY ONLY <1>2, <1>3, <1>4, <1>5

(* The selection at hand is one of the servers' or of the clients'.        *)
LEMMA AtHand ==
  ASSUME TypeOK, ~AllSelected
  PROVE  /\ ForServers => selected + 1 \in DOMAIN ServerSelections
                          /\ Selection = ServerSelections[selected + 1]
         /\ ~ForServers => /\ selected + 1 - Len(ServerSelections) \in DOMAIN ClientSelections
                           /\ Selection = ClientSelections[selected + 1 - Len(ServerSelections)]
<1>1. /\ selected \in Nat /\ selected <= Len(ServerSelections) + Len(ClientSelections)
      /\ selected # Len(ServerSelections) + Len(ClientSelections)
      /\ Len(ServerSelections) \in Nat /\ Len(ClientSelections) \in Nat
  BY Constants DEF TypeOK, AllSelected
<1>2. ForServers => selected + 1 \in 1 .. Len(ServerSelections)
  BY <1>1 DEF ForServers
<1>3. ~ForServers => selected + 1 - Len(ServerSelections) \in 1 .. Len(ClientSelections)
  BY <1>1 DEF ForServers
<1>4. QED
  BY <1>2, <1>3, Constants DEF Selection

(* The order of a Go map has every key once.                               *)
LEMMA Permutation ==
  ASSUME NEW C, IsFiniteSet(C), NEW f \in SetToSeqs(C)
  PROVE  /\ f \in Seq(C) /\ DOMAIN f = 1 .. Cardinality(C)
         /\ \A c \in C : \E j \in DOMAIN f : f[j] = c /\ \A i \in DOMAIN f : f[i] = c => i = j
<1> DEFINE N == Cardinality(C)
<1>1. N \in Nat
  BY FS_CardinalityType
<1>2. f \in [1 .. N -> C] /\ \A i, j \in 1 .. N : i # j => f[i] # f[j]
  BY DEF SetToSeqs
<1>3. f \in Injection(1 .. N, C)
  BY <1>2 DEF Injection, IsInjective
<1>4. Cardinality(1 .. N) = N
  <2>1. 1 \in Int /\ N \in Int
    BY <1>1
  <2>2. Cardinality(1 .. N) = IF 1 > N THEN 0 ELSE N - 1 + 1
    BY <2>1, FS_Interval
  <2>3. QED
    BY <1>1, <2>2
<1>5. f \in Surjection(1 .. N, C)
  BY <1>3, <1>4, FS_Injection
<1>6. \A c \in C : \E j \in 1 .. N : f[j] = c
  BY <1>5 DEF Surjection
<1>7. f \in Seq(C)
  BY <1>1, <1>2
<1>8. QED
  BY <1>2, <1>6, <1>7

-----------------------------------------------------------------------------
(* The steps of the selection                                              *)

(* Nothing is planned before all hosts are selected.                       *)
LEMMA NothingPlanned ==
  ASSUME TypeOK, LaidOut, ~AllSelected, UNCHANGED planVars
  PROVE  LaidOut' /\ commands' = commands /\ waiting' = {} /\ affected' = {}
<1>1. Round = 0
  BY DEF TypeOK, LaidOut, Round
<1>2. Round' = Round /\ commands' = commands /\ waiting' = {} /\ affected' = {}
  BY <1>1 DEF planVars, Round, LaidOut
<1>3. 1 .. Round' = {}
  BY <1>1, <1>2
<1>4. QED
  BY <1>1, <1>2, <1>3 DEF LaidOut

(* What passes a selection with one more node, and the labels seen.        *)
LEMMA OneMore ==
  ASSUME NEW sel, NEW k \in Nat \ {0}, NEW n, n = Nodes[k],
         NEW own, own = LabelsOf(n, sel.antiAffinity)
  PROVE  /\ Candidate(n, sel) /\ own \intersect Seen(sel, k - 1) = {} =>
              Passing(sel, k) = Passing(sel, k - 1) \union {n}
         /\ ~(Candidate(n, sel) /\ own \intersect Seen(sel, k - 1) = {}) =>
              Passing(sel, k) = Passing(sel, k - 1)
         /\ Candidate(n, sel) => Seen(sel, k) = Seen(sel, k - 1) \union own
         /\ ~Candidate(n, sel) => Seen(sel, k) = Seen(sel, k - 1)
<1> DEFINE C(i) == Candidate(Nodes[i], sel)
           L(i) == LabelsOf(Nodes[i], sel.antiAffinity)
           P(i) == C(i) /\ \A j \in 1 .. i - 1 : C(j) => L(i) \intersect L(j) = {}
<1>1. 1 .. k = (1 .. k - 1) \union {k}
  OBVIOUS
<1>2. /\ Passing(sel, k) = {Nodes[i] : i \in {i \in 1 .. k : P(i)}}
      /\ Passing(sel, k - 1) = {Nodes[i] : i \in {i \in 1 .. k - 1 : P(i)}}
  BY DEF Passing
<1>3. /\ Seen(sel, k) = UNION {L(j) : j \in {j \in 1 .. k : C(j)}}
      /\ Seen(sel, k - 1) = UNION {L(j) : j \in {j \in 1 .. k - 1 : C(j)}}
  BY DEF Seen
<1>4. (C(k) <=> Candidate(n, sel)) /\ L(k) = own
  OBVIOUS
<1>5. P(k) <=> C(k) /\ \A j \in 1 .. k - 1 : C(j) => L(k) \intersect L(j) = {}
  OBVIOUS
<1> HIDE DEF C, L, P
<1>6. P(k) <=> C(k) /\ L(k) \intersect Seen(sel, k - 1) = {}
  BY <1>3, <1>5
<1>7. {i \in 1 .. k : P(i)} = IF P(k) THEN {i \in 1 .. k - 1 : P(i)} \union {k}
                                      ELSE {i \in 1 .. k - 1 : P(i)}
  BY <1>1
<1>8. {j \in 1 .. k : C(j)} = IF C(k) THEN {j \in 1 .. k - 1 : C(j)} \union {k}
                                      ELSE {j \in 1 .. k - 1 : C(j)}
  BY <1>1
<1>9. QED
  BY <1>2, <1>3, <1>4, <1>6, <1>7, <1>8

LEMMA NoneYet == \A sel : Passing(sel, 0) = {} /\ Seen(sel, 0) = {}
<1>1. 1 .. 0 = {}
  OBVIOUS
<1>2. QED
  BY <1>1 DEF Passing, Seen

(* Nodes that pass one selection clash in no label.                        *)
LEMMA PassingApart ==
  ASSUME NEW sel, NEW k \in Nat
  PROVE  Apart(Passing(sel, k), sel.antiAffinity)
<1> DEFINE keys == sel.antiAffinity
<1>1. ASSUME NEW i \in 1 .. k, NEW j \in 1 .. k, Nodes[i] # Nodes[j],
             Candidate(Nodes[i], sel), Candidate(Nodes[j], sel),
             \A h \in 1 .. i - 1 : Candidate(Nodes[h], sel) =>
               LabelsOf(Nodes[i], keys) \intersect LabelsOf(Nodes[h], keys) = {},
             \A h \in 1 .. j - 1 : Candidate(Nodes[h], sel) =>
               LabelsOf(Nodes[j], keys) \intersect LabelsOf(Nodes[h], keys) = {}
      PROVE  LabelsOf(Nodes[i], keys) \intersect LabelsOf(Nodes[j], keys) = {}
  <2>1. j \in 1 .. i - 1 \/ i \in 1 .. j - 1
    BY <1>1
  <2>2. QED
    BY <1>1, <2>1
<1>2. ASSUME NEW m \in Passing(sel, k), NEW n \in Passing(sel, k), m # n
      PROVE  LabelsOf(m, keys) \intersect LabelsOf(n, keys) = {}
  BY <1>1, <1>2 DEF Passing
<1>3. ASSUME NEW m \in Passing(sel, k), NEW n \in Passing(sel, k), m # n,
             NEW l \in keys, labels[m][l] # NoLabel, labels[m][l] = labels[n][l]
      PROVE  FALSE
  <2>1. <<l, labels[m][l]>> \in LabelsOf(m, keys) /\ <<l, labels[n][l]>> \in LabelsOf(n, keys)
    BY <1>3 DEF LabelsOf
  <2>2. QED
    BY <1>2, <1>3, <2>1
<1>4. QED
  BY <1>3 DEF Apart

LEMMA EligibleNames ==
  /\ \A sel : Passing(sel, Len(Nodes)) \subseteq NodeNames
  /\ \A k \in DOMAIN ServerSelections : Eligible(ServerSelections[k]) \subseteq HostNames
  /\ \A k \in DOMAIN ClientSelections : Eligible(ClientSelections[k]) \subseteq HostNames
<1>1. \A i \in 1 .. Len(Nodes) : Nodes[i] \in NodeNames
  BY Constants DEF NodeNames, Range
<1>2. \A sel : Passing(sel, Len(Nodes)) \subseteq NodeNames
  BY <1>1 DEF Passing
<1>3. QED
  BY <1>2 DEF Eligible, HostNames

(* What selections let pass depends on labels and usable nodes only.       *)
LEMMA SelectionStays ==
  ASSUME UNCHANGED <<labels, usable>>
  PROVE  /\ \A sel, k : Passing(sel, k)' = Passing(sel, k) /\ Seen(sel, k)' = Seen(sel, k)
         /\ \A sel : Eligible(sel)' = Eligible(sel)
         /\ \A sel, hosts : Honoured(sel, hosts)' <=> Honoured(sel, hosts)
         /\ selected' = selected =>
              Selection' = Selection /\ AllSelected' = AllSelected /\ ForServers' = ForServers
BY DEF Selection, AllSelected, ForServers, Candidate, Matches, LabelsOf,
       Passing, Seen, Eligible, Honoured

LEMMA PassedStays ==
  ASSUME Passed, ~AllSelected, UNCHANGED <<labels, usable, selected, node, used, kept>>
  PROVE  (kept = Passing(Selection, node - 1))' /\ (used = Seen(Selection, node - 1))'
<1>1. PICK sel, k : sel = Selection /\ k = node - 1
  OBVIOUS
<1>2. /\ sel = Selection' /\ k = node' - 1
      /\ Passing(sel, k)' = Passing(sel, k) /\ Seen(sel, k)' = Seen(sel, k)
  BY <1>1, SelectionStays
<1>3. kept' = Passing(sel, k)' /\ used' = Seen(sel, k)'
  BY <1>1, <1>2 DEF Passed
<1>4. QED
  BY <1>2, <1>3 DEF Passing, Seen

LEMMA HonouredByMore ==
  ASSUME NEW sel, NEW A, NEW B, A \subseteq B, Honoured(sel, A)
  PROVE  Honoured(sel, B)
BY DEF Honoured

(* With more hosts and no further selection, or with the one at hand       *)
(* honoured and over, what was chosen is as it should be.                  *)
LEMMA Adding ==
  ASSUME IInv, ~AllSelected, UNCHANGED <<labels, usable>>,
         NEW names, names \subseteq Eligible(Selection), IsFiniteSet(names), AddHosts(names),
         \/ selected' = selected
         \/ selected' = selected + 1 /\ Honoured(Selection, IF ForServers THEN servers' ELSE clients')
  PROVE  /\ servers' \subseteq HostNames
         /\ clients' \subseteq HostNames /\ IsFiniteSet(clients')
         /\ Chosen'
<1> DEFINE S == UNION {Eligible(ServerSelections[k]) : k \in DOMAIN ServerSelections}
           C == UNION {Eligible(ClientSelections[k]) : k \in DOMAIN ClientSelections}
<1>1. ForServers => names \subseteq S
  BY AtHand DEF IInv
<1>2. ~ForServers => names \subseteq C
  BY AtHand DEF IInv
<1>3. S \subseteq HostNames /\ C \subseteq HostNames
  BY EligibleNames
<1>4. \A sel : Eligible(sel)' = Eligible(sel)
  BY SelectionStays
<1>5. S' = S /\ C' = C
  BY <1>4
<1>6. (servers \subseteq S)' /\ (clients \subseteq C)'
  BY <1>1, <1>2, <1>5 DEF AddHosts, IInv, Chosen
<1>7. IsFiniteSet(clients')
  <2>1. IsFiniteSet(clients \union names)
    BY FS_Union DEF IInv, TypeOK
  <2>2. QED
    BY <2>1 DEF AddHosts, IInv, TypeOK
<1>8. servers \subseteq servers' /\ clients \subseteq clients'
  BY DEF AddHosts
<1>9. PICK s, c : s = servers' /\ c = clients'
  OBVIOUS
<1>10. /\ selected \in Nat /\ Len(ServerSelections) \in Nat
       /\ DOMAIN ServerSelections = 1 .. Len(ServerSelections)
       /\ DOMAIN ClientSelections = 1 .. Len(ClientSelections)
  BY Constants DEF IInv, TypeOK
<1>11. ASSUME NEW k \in DOMAIN ServerSelections, k <= selected'
       PROVE  Honoured(ServerSelections[k], s)
  <2>1. CASE k <= selected
    BY <1>8, <1>9, <2>1, HonouredByMore DEF IInv, Chosen
  <2>2. CASE ~(k <= selected)
    <3>1. k = selected + 1 /\ selected' = selected + 1
      BY <1>10, <1>11, <2>2
    <3>2. ForServers
      BY <1>10, <3>1 DEF ForServers
    <3>3. Selection = ServerSelections[k]
      BY <3>1, <3>2, AtHand DEF IInv
    <3>4. QED
      BY <1>9, <1>10, <3>1, <3>2, <3>3
  <2>3. QED
    BY <2>1, <2>2
<1>12. ASSUME NEW k \in DOMAIN ClientSelections, k + Len(ServerSelections) <= selected'
       PROVE  Honoured(ClientSelections[k], c)
  <2>1. CASE k + Len(ServerSelections) <= selected
    BY <1>8, <1>9, <2>1, HonouredByMore DEF IInv, Chosen
  <2>2. CASE ~(k + Len(ServerSelections) <= selected)
    <3>1. k + Len(ServerSelections) = selected + 1 /\ selected' = selected + 1
      BY <1>10, <1>12, <2>2
    <3>2. ~ForServers /\ k = selected + 1 - Len(ServerSelections)
      BY <1>10, <3>1 DEF ForServers
    <3>3. Selection = ClientSelections[k]
      BY <3>2, AtHand DEF IInv
    <3>4. QED
      BY <1>9, <1>10, <3>1, <3>2, <3>3
  <2>3. QED
    BY <2>1, <2>2
<1>13. \A sel, hosts : Honoured(sel, hosts)' <=> Honoured(sel, hosts)
  BY SelectionStays
<1>14. /\ \A k \in DOMAIN ServerSelections : k <= selected' => Honoured(ServerSelections[k], s)'
       /\ \A k \in DOMAIN ClientSelections :
            k + Len(ServerSelections) <= selected' => Honoured(ClientSelections[k], c)'
  BY <1>11, <1>12, <1>13
<1>15. (\A k \in DOMAIN ServerSelections : k <= selected => Honoured(ServerSelections[k], servers))'
  BY <1>9, <1>14 DEF Honoured
<1>16. (\A k \in DOMAIN ClientSelections :
          k + Len(ServerSelections) <= selected => Honoured(ClientSelections[k], clients))'
  BY <1>9, <1>14 DEF Honoured
<1>17. QED
  BY <1>3, <1>5, <1>6, <1>7, <1>15, <1>16 DEF Chosen

(* When the loop is over, the hosts kept are all that pass.                *)
LEMMA LoopOver ==
  ASSUME IInv, ~AllSelected, IsStatic \/ Filtered
  PROVE  Eligible(Selection) = IF IsStatic THEN Selection.hosts ELSE kept
<1>1. Filtered => node - 1 = Len(Nodes)
  BY Constants DEF IInv, TypeOK, Filtered
<1>2. QED
  BY <1>1 DEF IInv, Passed, Eligible, IsStatic

LEMMA CheckStep == ASSUME IInv, CheckAntiAffinity PROVE IInv'
<1> DEFINE n == Nodes[node]
           own == LabelsOf(n, Selection.antiAffinity)
<1>1. /\ ~AllSelected /\ ~IsStatic /\ ~Filtered
      /\ IF Candidate(n, Selection)
         THEN /\ kept' = IF own \intersect used = {} THEN kept \union {n} ELSE kept
              /\ used' = used \union own
         ELSE UNCHANGED <<used, kept>>
      /\ node' = node + 1
      /\ UNCHANGED <<labels, usable, selected, picks, servers, clients>>
      /\ UNCHANGED planVars
  BY DEF CheckAntiAffinity
<1>2. node \in DOMAIN Nodes /\ node \in Nat \ {0} /\ node' \in 1 .. Len(Nodes) + 1
  BY <1>1, Constants DEF IInv, TypeOK, Filtered
<1>3. n \in NodeNames
  BY <1>2 DEF NodeNames, Range
<1>4. IsFiniteSet(kept \union {n})
  BY FS_AddElement DEF IInv, TypeOK
<1>5. LaidOut' /\ commands' = commands /\ waiting' = {} /\ affected' = {}
  BY <1>1, NothingPlanned DEF IInv
<1>6. TypeOK'
  <2>1. Round' <= Rounds /\ commands' \in Seq(Seq(Tasks))
    BY <1>5 DEF IInv, TypeOK, Round
  <2>2. kept' \subseteq NodeNames /\ IsFiniteSet(kept')
    BY <1>1, <1>3, <1>4 DEF IInv, TypeOK
  <2>3. QED
    BY <1>1, <1>2, <1>5, <2>1, <2>2 DEF IInv, TypeOK
<1>7. picks = 0
  BY <1>1 DEF IInv, TypeOK, Passed
<1>8. kept' = Passing(Selection, node) /\ used' = Seen(Selection, node)
  <2>1. kept = Passing(Selection, node - 1) /\ used = Seen(Selection, node - 1)
    BY <1>1 DEF IInv, Passed
  <2>2. PICK m, o : m = n /\ o = own
    OBVIOUS
  <2> HIDE DEF n, own
  <2>3. /\ Candidate(m, Selection) /\ o \intersect Seen(Selection, node - 1) = {} =>
             Passing(Selection, node) = Passing(Selection, node - 1) \union {m}
        /\ ~(Candidate(m, Selection) /\ o \intersect Seen(Selection, node - 1) = {}) =>
             Passing(Selection, node) = Passing(Selection, node - 1)
        /\ Candidate(m, Selection) => Seen(Selection, node) = Seen(Selection, node - 1) \union o
        /\ ~Candidate(m, Selection) => Seen(Selection, node) = Seen(Selection, node - 1)
    BY <1>2, <2>2, OneMore DEF n, own
  <2>4. QED
    BY <1>1, <2>1, <2>2, <2>3
<1>9. Passed'
  <2>1. /\ Selection' = Selection /\ AllSelected' = AllSelected
        /\ \A sel, k : Passing(sel, k)' = Passing(sel, k) /\ Seen(sel, k)' = Seen(sel, k)
    BY <1>1, SelectionStays
  <2>2. PICK sel, k : sel = Selection /\ k = node
    OBVIOUS
  <2>3. /\ sel = Selection' /\ k = node' - 1 /\ ~(picks' > 0)
    BY <1>1, <1>2, <1>7, <2>1, <2>2
  <2>4. kept' = Passing(sel, k)' /\ used' = Seen(sel, k)'
    BY <1>8, <2>1, <2>2
  <2>5. (kept = Passing(Selection, node - 1))' /\ (used = Seen(Selection, node - 1))'
    BY <2>3, <2>4 DEF Passing, Seen
  <2>6. QED
    BY <1>1, <2>1, <2>3, <2>5 DEF Passed
<1>10. Chosen'
  <2>1. AddHosts({}) /\ IsFiniteSet({}) /\ {} \subseteq Eligible(Selection)
    BY <1>1, FS_EmptySet DEF AddHosts
  <2>2. QED
    BY <1>1, <2>1, Adding
<1>11. QED
  BY <1>5, <1>6, <1>9, <1>10 DEF IInv

(* The end of a selection, with all that was to be added.                  *)
LEMMA NextSelectionStep ==
  ASSUME IInv, ~AllSelected, IsStatic \/ Filtered, NextSelection, UNCHANGED <<labels, usable, planVars>>,
         NEW names, AddHosts(names), names \subseteq Eligible(Selection),
         Honoured(Selection, IF ForServers THEN servers' ELSE clients')
  PROVE  IInv'
<1>1. LaidOut' /\ commands' = commands /\ waiting' = {} /\ affected' = {}
  BY NothingPlanned DEF IInv
<1>2. IsFiniteSet(names)
  <2>1. IsFiniteSet(Selection.hosts)
    BY AtHand, Constants DEF IInv
  <2>2. IsFiniteSet(IF IsStatic THEN Selection.hosts ELSE kept)
    BY <2>1 DEF IInv, TypeOK
  <2>3. QED
    BY <2>2, LoopOver, FS_Subset
<1>3. /\ selected' = selected + 1 /\ node' = 1 /\ used' = {} /\ kept' = {} /\ picks' = 0
  BY DEF NextSelection
<1>4. /\ servers' \subseteq HostNames
      /\ clients' \subseteq HostNames /\ IsFiniteSet(clients')
      /\ Chosen'
  BY <1>2, <1>3, Adding
<1>5. selected' \in 0 .. Len(ServerSelections) + Len(ClientSelections) /\ node' \in 1 .. Len(Nodes) + 1
  <2>1. Len(ServerSelections) \in Nat /\ Len(ClientSelections) \in Nat /\ Len(Nodes) \in Nat
    BY Constants
  <2>2. /\ selected \in 0 .. Len(ServerSelections) + Len(ClientSelections)
        /\ selected # Len(ServerSelections) + Len(ClientSelections)
    BY DEF IInv, TypeOK, AllSelected
  <2>3. QED
    BY <1>3, <2>1, <2>2
<1>6. TypeOK'
  <2>1. Round' <= Rounds /\ commands' \in Seq(Seq(Tasks))
    BY <1>1 DEF IInv, TypeOK, Round
  <2>2. IsFiniteSet({})
    BY FS_EmptySet
  <2>3. QED
    BY <1>1, <1>3, <1>4, <1>5, <2>1, <2>2 DEF IInv, TypeOK
<1>7. Passed'
  <2>1. 1 .. node' - 1 = {}
    BY <1>3
  <2>2. (kept = Passing(Selection, node - 1))' /\ (used = Seen(Selection, node - 1))'
    BY <1>3, <2>1 DEF Passing, Seen
  <2>3. QED
    BY <1>3, <2>2 DEF Passed
<1>8. QED
  BY <1>1, <1>4, <1>6, <1>7 DEF IInv

LEMMA SelectStep == ASSUME IInv, SelectHosts PROVE IInv'
<1> DEFINE names == IF IsStatic THEN Selection.hosts ELSE kept
<1>1. /\ ~AllSelected /\ (IsStatic \/ Filtered) /\ ~IsRandom /\ AddHosts(names) /\ NextSelection
      /\ UNCHANGED <<labels, usable, planVars>>
  BY DEF SelectHosts
<1>2. names = Eligible(Selection)
  BY <1>1, LoopOver
<1>3. Eligible(Selection) \subseteq IF ForServers THEN servers' ELSE clients'
  BY <1>1, <1>2 DEF AddHosts
<1>4. Honoured(Selection, IF ForServers THEN servers' ELSE clients')
  BY <1>1, <1>2, <1>3 DEF Honoured, IsRandom, IsStatic
<1> QED
  BY <1>1, <1>2, <1>4, NextSelectionStep

LEMMA AllPickedStep == ASSUME IInv, AllPicked PROVE IInv'
<1>1. /\ ~AllSelected /\ Filtered /\ NextSelection /\ UNCHANGED <<labels, usable, planVars>>
      /\ UNCHANGED <<servers, clients>>
      /\ ~IsStatic /\ Selection.random /\ ~Selection.all /\ picks >= Selection.count
  BY DEF AllPicked, IsRandom
<1>2. AddHosts({})
  BY <1>1 DEF AddHosts
<1>3. Selection.count > 0 => picks > 0
  <2>1. Selection.count \in Int /\ picks \in Nat
    BY <1>1, AtHand, Constants DEF IInv, TypeOK
  <2>2. QED
    BY <1>1, <2>1
<1>4. Selection.count > 0 => kept \intersect (IF ForServers THEN servers' ELSE clients') # {}
  BY <1>1, <1>3 DEF IInv, Passed
<1>5. Honoured(Selection, IF ForServers THEN servers' ELSE clients')
  BY <1>1, <1>4, LoopOver DEF Honoured, IsStatic
<1> QED
  BY <1>1, <1>2, <1>5, NextSelectionStep

LEMMA PickStep == ASSUME IInv, PickRandom PROVE IInv'
<1>1. PICK n \in kept : AddHosts({n})
  BY DEF PickRandom
<1>2. /\ ~AllSelected /\ ~IsStatic /\ Filtered /\ picks' = picks + 1
      /\ UNCHANGED <<labels, usable, selected, node, used, kept>>
      /\ UNCHANGED planVars
  BY DEF PickRandom, IsRandom
<1>3. LaidOut' /\ commands' = commands /\ waiting' = {} /\ affected' = {}
  BY <1>2, NothingPlanned DEF IInv
<1>4. /\ servers' \subseteq HostNames
      /\ clients' \subseteq HostNames /\ IsFiniteSet(clients')
      /\ Chosen'
  <2>1. {n} \subseteq Eligible(Selection)
    BY <1>2, LoopOver
  <2>2. IsFiniteSet({n})
    BY FS_Singleton
  <2>3. QED
    BY <1>1, <1>2, <2>1, <2>2, Adding
<1>5. TypeOK'
  <2>1. Round' <= Rounds /\ commands' \in Seq(Seq(Tasks))
    BY <1>3 DEF IInv, TypeOK, Round
  <2>2. QED
    BY <1>2, <1>3, <1>4, <2>1 DEF IInv, TypeOK
<1>6. Passed'
  <2>1. (kept = Passing(Selection, node - 1))' /\ (used = Seen(Selection, node - 1))'
    BY <1>2, PassedStays DEF IInv
  <2>2. IF ForServers THEN kept \intersect servers' # {} ELSE kept \intersect clients' # {}
    BY <1>1 DEF AddHosts
  <2>3. AllSelected' = AllSelected /\ ForServers' = ForServers /\ Filtered' = Filtered
    BY <1>2 DEF AllSelected, ForServers, Filtered
  <2>4. QED
    BY <1>2, <2>1, <2>2, <2>3 DEF Passed
<1>7. QED
  BY <1>3, <1>4, <1>5, <1>6 DEF IInv

-----------------------------------------------------------------------------
(* The steps of the plan                                                   *)

LEMMA HostsStay == ASSUME Passed, Chosen, UNCHANGED hostVars PROVE Passed' /\ Chosen'
<1>1. UNCHANGED <<labels, usable, selected, node, used, kept, picks, servers, clients>>
  BY DEF hostVars, filterVars
<1>2. Passed'
  <2>1. AllSelected' = AllSelected /\ ForServers' = ForServers /\ Filtered' = Filtered
    BY <1>1 DEF AllSelected, ForServers, Filtered
  <2>2. ~AllSelected => (kept = Passing(Selection, node - 1))' /\ (used = Seen(Selection, node - 1))'
    BY <1>1, PassedStays
  <2>3. QED
    BY <1>1, <2>1, <2>2 DEF Passed
<1>3. /\ \A sel : Eligible(sel)' = Eligible(sel)
      /\ \A sel, hosts : Honoured(sel, hosts)' <=> Honoured(sel, hosts)
  BY <1>1, SelectionStays
<1>4. PICK s, c : s = servers /\ c = clients /\ s = servers' /\ c = clients'
  BY <1>1
<1>5. /\ \A k \in DOMAIN ServerSelections : k <= selected' => Honoured(ServerSelections[k], s)'
      /\ \A k \in DOMAIN ClientSelections :
           k + Len(ServerSelections) <= selected' => Honoured(ClientSelections[k], c)'
  BY <1>1, <1>3, <1>4 DEF Chosen
<1>6. /\ (\A k \in DOMAIN ServerSelections : k <= selected => Honoured(ServerSelections[k], servers))'
      /\ (\A k \in DOMAIN ClientSelections :
            k + Len(ServerSelections) <= selected => Honoured(ClientSelections[k], clients))'
  BY <1>4, <1>5 DEF Honoured
<1>7. Chosen'
  BY <1>1, <1>3, <1>6 DEF Chosen
<1>8. QED
  BY <1>2, <1>7

LEMMA NextRoundStep == ASSUME IInv, NextRound PROVE IInv'
<1>1. /\ AllSelected /\ waiting = {} /\ Round < Rounds /\ waiting' = servers
      /\ commands' = Append(commands, <<>>)
      /\ UNCHANGED hostVars /\ affected' = affected
      /\ UNCHANGED <<usable, selected, node, picks, kept, servers, clients>>
  BY DEF NextRound, hostVars, filterVars
<1>2. Passed' /\ Chosen'
  BY <1>1, HostsStay DEF IInv
<1>3. commands \in Seq(Seq(Tasks)) /\ <<>> \in Seq(Tasks) /\ Round \in Nat /\ DOMAIN commands = 1 .. Round
  BY DEF IInv, TypeOK, Round
<1>4. /\ commands' \in Seq(Seq(Tasks)) /\ Round' = Round + 1
      /\ commands'[Round + 1] = <<>>
      /\ \A k \in 1 .. Round : commands'[k] = commands[k]
  BY <1>1, <1>3 DEF Round
<1>5. TypeOK'
  <2>1. Round' <= Rounds
    BY <1>1, <1>3, <1>4, Constants
  <2>2. QED
    BY <1>1, <1>4, <2>1 DEF IInv, TypeOK
<1>6. LaidOut'
  <2>1. Round' > 0 /\ AllSelected'
    BY <1>1, <1>3, <1>4 DEF AllSelected
  <2>2. ASSUME NEW k \in 1 .. Round' PROVE k = Round' \/ (k \in 1 .. Round /\ k # Round')
    BY <1>3, <1>4
  <2>3. ASSUME NEW k \in 1 .. Round', NEW i \in DOMAIN commands'[k] PROVE Fits(commands[k][i])'
    <3>1. CASE k = Round'
      BY <1>4, <2>3, <3>1
    <3>2. CASE k \in 1 .. Round
      <4>1. PICK t : t = commands[k][i] /\ t = commands'[k][i]
        BY <1>4, <3>2
      <4>2. Fits(t)
        BY <1>4, <2>3, <3>2, <4>1 DEF IInv, LaidOut
      <4>3. Fits(t)'
        BY <1>1, <4>2 DEF Fits
      <4>4. QED
        BY <4>1, <4>3 DEF Fits
    <3>3. QED
      BY <2>2, <3>1, <3>2
  <2>4. ASSUME NEW k \in 1 .. Round', NEW s \in servers'
        PROVE  /\ k # Round' \/ s \notin waiting' => Once(commands'[k], s)
               /\ k = Round' /\ s \in waiting' => Never(commands'[k], s)
    <3>1. CASE k = Round'
      <4>1. commands'[k] = <<>> /\ s \in waiting'
        BY <1>1, <1>4, <2>4, <3>1
      <4>2. Never(<<>>, s)
        BY DEF Never
      <4>3. QED
        BY <3>1, <4>1, <4>2
    <3>2. CASE k \in 1 .. Round /\ k # Round'
      BY <1>1, <1>4, <2>4, <3>2 DEF IInv, LaidOut
    <3>3. QED
      BY <2>2, <3>1, <3>2
  <2>5. ASSUME NEW s \in servers', Round' > 1 \/ (Round' = 1 /\ s \notin waiting')
        PROVE  s \in affected' /\ clients' \subseteq affected'
    <3>1. Round > 1 \/ (Round = 1 /\ s \notin waiting)
      BY <1>1, <1>3, <1>4, <2>5
    <3>2. QED
      BY <1>1, <2>5, <3>1 DEF IInv, LaidOut
  <2>6. (\A k \in 1 .. Round : \A s \in servers :
           /\ k # Round \/ s \notin waiting => Once(commands[k], s)
           /\ k = Round /\ s \in waiting => Never(commands[k], s))'
    BY <2>4 DEF Once, Never
  <2>7. QED
    BY <2>1, <2>3, <2>5, <2>6 DEF LaidOut
<1>7. QED
  BY <1>2, <1>5, <1>6 DEF IInv

(* The tasks of a round with one more main task, and perhaps a sleep.      *)
Extends(w, r, t) ==
  /\ w \in Seq(Tasks) /\ Len(r) \in Nat
  /\ DOMAIN r = 1 .. Len(r) /\ 1 .. Len(r) + 1 \subseteq DOMAIN w
  /\ \A i \in 1 .. Len(r) : w[i] = r[i]
  /\ w[Len(r) + 1] = t
  /\ \A i \in DOMAIN w : i \in 1 .. Len(r) + 1 \/ w[i] = Sleep

LEMMA MoreTasks ==
  ASSUME NEW r \in Seq(Tasks), NEW t \in Tasks
  PROVE  Extends(WithSleep(Append(r, t)), r, t)
<1> DEFINE n == Len(r)
           a == Append(r, t)
<1>1. n \in Nat /\ DOMAIN r = 1 .. n
  OBVIOUS
<1>2. a \in Seq(Tasks) /\ Len(a) = n + 1 /\ a[n + 1] = t /\ \A i \in 1 .. n : a[i] = r[i]
  BY <1>1
<1>3. DOMAIN a = 1 .. n + 1
  BY <1>2
<1>4. Sleep \in Tasks
  <2>1. <<>> \in Seq(HostNames)
    OBVIOUS
  <2>2. QED
    BY <2>1 DEF Sleep, Tasks
<1>5. /\ Append(a, Sleep) \in Seq(Tasks) /\ Len(Append(a, Sleep)) = n + 2
      /\ Append(a, Sleep)[n + 2] = Sleep
      /\ \A i \in 1 .. n + 1 : Append(a, Sleep)[i] = a[i]
  BY <1>1, <1>2, <1>4
<1>6. DOMAIN Append(a, Sleep) = 1 .. n + 2
  BY <1>5
<1> HIDE DEF a
<1>7. CASE WithSleep(a) = a
  BY <1>1, <1>2, <1>3, <1>7 DEF Extends, a
<1>8. CASE WithSleep(a) = Append(a, Sleep)
  <2>1. /\ 1 .. n + 1 \subseteq 1 .. n + 2 /\ 1 .. n \subseteq 1 .. n + 1 /\ n + 1 \in 1 .. n + 1
        /\ \A i \in 1 .. n + 2 : i \in 1 .. n + 1 \/ i = n + 2
    BY <1>1
  <2>2. QED
    BY <1>1, <1>2, <1>5, <1>6, <1>8, <2>1 DEF Extends, a
<1>9. WithSleep(a) = a \/ WithSleep(a) = Append(a, Sleep)
  BY DEF WithSleep
<1>10. QED
  BY <1>7, <1>8, <1>9 DEF a

(* They serve the server of the main task, and the others as before.       *)
LEMMA Serves ==
  ASSUME NEW r \in Seq(Tasks), NEW t \in Tasks, NEW w, w = WithSleep(Append(r, t)),
         NEW s, s # NoServer
  PROVE  /\ s = t.server /\ Never(r, s) => Once(w, s)
         /\ s # t.server /\ Never(r, s) => Never(w, s)
         /\ s # t.server /\ Once(r, s) => Once(w, s)
<1> DEFINE n == Len(r)
<1>1. /\ n \in Nat /\ DOMAIN r = 1 .. n /\ 1 .. n + 1 \subseteq DOMAIN w
      /\ \A i \in 1 .. n : w[i] = r[i]
      /\ w[n + 1] = t
      /\ \A i \in DOMAIN w : i \in 1 .. n + 1 \/ w[i] = Sleep
  <2>1. Extends(w, r, t)
    BY MoreTasks
  <2>2. QED
    BY <2>1 DEF Extends
<1>2. /\ n + 1 \in DOMAIN w /\ \A i \in 1 .. n : i \in DOMAIN w
      /\ \A i \in DOMAIN w : i \in 1 .. n \/ i = n + 1 \/ w[i] = Sleep
  <2>1. /\ n + 1 \in 1 .. n + 1 /\ \A i \in 1 .. n : i \in 1 .. n + 1
        /\ \A i \in 1 .. n + 1 : i \in 1 .. n \/ i = n + 1
    BY <1>1
  <2>2. QED
    BY <1>1, <2>1
<1> HIDE DEF n
<1>3. Sleep.server # s
  BY DEF Sleep
<1>4. ASSUME s = t.server, Never(r, s) PROVE Once(w, s)
  <2>1. ASSUME NEW j \in DOMAIN w, w[j].server = s PROVE j = n + 1
    BY <1>1, <1>2, <1>3, <1>4, <2>1 DEF Never
  <2>2. QED
    BY <1>1, <1>2, <1>4, <2>1 DEF Once
<1>5. ASSUME s # t.server, Never(r, s) PROVE Never(w, s)
  BY <1>1, <1>2, <1>3, <1>5 DEF Never
<1>6. ASSUME s # t.server, Once(r, s) PROVE Once(w, s)
  <2>1. PICK i \in DOMAIN r : r[i].server = s /\ \A j \in DOMAIN r : r[j].server = s => j = i
    BY <1>6 DEF Once
  <2>2. i \in DOMAIN w /\ w[i].server = s
    BY <1>1, <1>2, <2>1
  <2>3. ASSUME NEW j \in DOMAIN w, w[j].server = s PROVE j = i
    BY <1>1, <1>2, <1>3, <1>6, <2>1, <2>3
  <2>4. QED
    BY <2>2, <2>3 DEF Once
<1>7. QED
  BY <1>4, <1>5, <1>6

LEMMA PlanStep == ASSUME IInv, NEW s \in servers, PlanServer(s) PROVE IInv'
<1>1. PICK order \in SetToSeqs(clients) : AddMainTask(s, order)
  BY DEF PlanServer
<1> DEFINE t == [server |-> s, subTasks |-> order]
           r == commands[Round]
           w == WithSleep(Append(r, t))
<1>2. /\ s \in waiting /\ waiting' = waiting \ {s}
      /\ affected' = affected \union {s} \union clients
      /\ UNCHANGED hostVars
      /\ UNCHANGED <<usable, selected, node, picks, kept, servers, clients>>
  BY DEF PlanServer, hostVars, filterVars
<1>3. commands' = [commands EXCEPT ![Round] = w]
  BY <1>1 DEF AddMainTask
<1>4. Passed' /\ Chosen'
  BY <1>2, HostsStay DEF IInv
<1>5. /\ Round \in 1 .. Round /\ Round \in Nat /\ DOMAIN commands = 1 .. Round
      /\ commands \in Seq(Seq(Tasks)) /\ Round > 0
  <2>1. /\ commands \in Seq(Seq(Tasks)) /\ waiting # {}
    BY <1>2 DEF IInv, TypeOK
  <2>2. Round \in Nat /\ DOMAIN commands = 1 .. Round
    BY <2>1, Length DEF Round
  <2>3. Round # 0
    BY <2>1 DEF IInv, LaidOut
  <2>4. QED
    BY <2>1, <2>2, <2>3
<1>6. r \in Seq(Tasks)
  BY <1>5
<1>7. t \in Tasks
  <2>1. IsFiniteSet(clients) /\ clients \subseteq HostNames /\ s \in HostNames
    BY DEF IInv, TypeOK
  <2>2. order \in Seq(clients)
    BY <2>1, Permutation
  <2>3. order \in Seq(HostNames)
    BY <2>1, <2>2
  <2>4. QED
    BY <2>1, <2>3 DEF Tasks
<1>8. /\ w \in Seq(Tasks) /\ Len(r) \in Nat /\ DOMAIN r = 1 .. Len(r)
      /\ \A i \in 1 .. Len(r) : w[i] = r[i]
      /\ w[Len(r) + 1] = t
      /\ \A i \in DOMAIN w : i \in 1 .. Len(r) + 1 \/ w[i] = Sleep
  <2>1. Extends(w, r, t)
    BY <1>6, <1>7, MoreTasks
  <2>2. QED
    BY <2>1 DEF Extends
<1> HIDE DEF r, t, w
<1>9. /\ commands' \in Seq(Seq(Tasks)) /\ Round' = Round
      /\ commands'[Round] = w
      /\ \A k \in 1 .. Round : k # Round => commands'[k] = commands[k]
  <2>1. /\ \A k \in 1 .. Round : k # Round => commands'[k] = commands[k]
        /\ commands'[Round] = w
    BY <1>3, <1>5
  <2>2. commands' \in Seq(Seq(Tasks)) /\ Len(commands') = Len(commands)
    BY <1>3, <1>5, <1>8
  <2>3. QED
    BY <2>1, <2>2 DEF Round
<1>10. TypeOK'
  BY <1>2, <1>9 DEF IInv, TypeOK
<1>11. s # NoServer /\ \A u \in servers : u # NoServer
  BY Constants DEF IInv, TypeOK
<1>12. Once(w, s) /\ \A u \in servers : u # s =>
          (Never(r, u) => Never(w, u)) /\ (Once(r, u) => Once(w, u))
  <2>1. t.server = s
    BY DEF t
  <2>2. Never(r, s)
    BY <1>2, <1>5 DEF IInv, LaidOut, r
  <2>3. Once(w, s)
    BY <1>6, <1>7, <1>11, <2>1, <2>2, Serves DEF w
  <2>4. ASSUME NEW u \in servers, u # s
        PROVE  (Never(r, u) => Never(w, u)) /\ (Once(r, u) => Once(w, u))
    BY <1>6, <1>7, <1>11, <2>1, <2>4, Serves DEF w
  <2>5. QED
    BY <2>3, <2>4
<1>13. \A i \in DOMAIN w : Fits(w[i])
  <2>1. Fits(t)
    BY DEF Fits, t
  <2>2. Fits(Sleep)
    BY DEF Fits, Sleep
  <2>3. \A i \in 1 .. Len(r) : Fits(r[i])
    BY <1>5, <1>8 DEF IInv, LaidOut, r
  <2>4. \A i \in 1 .. Len(r) + 1 : i \in 1 .. Len(r) \/ i = Len(r) + 1
    BY <1>8
  <2>5. QED
    BY <1>8, <2>1, <2>2, <2>3, <2>4
<1>14. (\A k \in 1 .. Round : \A i \in DOMAIN commands[k] : Fits(commands[k][i]))'
  <2>1. ASSUME NEW k \in 1 .. Round, NEW i \in DOMAIN commands'[k] PROVE Fits(commands[k][i])'
    <3>1. PICK u : u = commands'[k][i]
      OBVIOUS
    <3>2. Fits(u)
      <4>1. CASE k = Round
        BY <1>9, <1>13, <2>1, <3>1, <4>1
      <4>2. CASE k # Round
        BY <1>9, <2>1, <3>1, <4>2 DEF IInv, LaidOut
      <4>3. QED
        BY <4>1, <4>2
    <3>3. Fits(u)'
      BY <1>2, <3>2 DEF Fits
    <3>4. QED
      BY <3>1, <3>3 DEF Fits
  <2>2. QED
    BY <1>9, <2>1
<1>15. ASSUME NEW k \in 1 .. Round, NEW u \in servers
       PROVE  /\ k # Round \/ u \notin waiting' => Once(commands'[k], u)
              /\ k = Round /\ u \in waiting' => Never(commands'[k], u)
  <2>1. CASE k # Round
    BY <1>9, <2>1 DEF IInv, LaidOut
  <2>2. CASE k = Round /\ u = s
    BY <1>2, <1>9, <1>12, <2>2
  <2>3. CASE k = Round /\ u # s
    <3>1. /\ u \notin waiting => Once(r, u)
          /\ u \in waiting => Never(r, u)
      BY <1>5, <2>3 DEF IInv, LaidOut, r
    <3>2. QED
      BY <1>2, <1>9, <1>12, <2>3, <3>1
  <2>4. QED
    BY <2>1, <2>2, <2>3
<1>16. (\A k \in 1 .. Round : \A u \in servers :
          /\ k # Round \/ u \notin waiting => Once(commands[k], u)
          /\ k = Round /\ u \in waiting => Never(commands[k], u))'
  BY <1>2, <1>9, <1>15 DEF Once, Never
<1>17. ASSUME NEW u \in servers, Round > 1 \/ (Round = 1 /\ u \notin waiting')
       PROVE  u \in affected' /\ clients \subseteq affected'
  <2>1. CASE u = s
    BY <1>2, <2>1
  <2>2. CASE u # s
    BY <1>2, <1>17, <2>2 DEF IInv, LaidOut
  <2>3. QED
    BY <2>1, <2>2
<1>18. LaidOut'
  <2>1. AllSelected' /\ Round' # 0
    BY <1>2, <1>5, <1>9 DEF AllSelected, IInv, LaidOut
  <2>2. QED
    BY <1>2, <1>9, <1>14, <1>16, <1>17, <2>1 DEF LaidOut
<1>19. QED
  BY <1>4, <1>10, <1>18 DEF IInv

-----------------------------------------------------------------------------
(* The theorems                                                            *)

LEMMA InitInvariant == Init => IInv
<1> SUFFICES ASSUME Init PROVE IInv
  OBVIOUS
<1>1. commands \in Seq(Seq(Tasks)) /\ Round = 0
  BY DEF Init, Round
<1>2. IsFiniteSet({})
  BY FS_EmptySet
<1>3. 1 .. Round = {}
  BY <1>1
<1>4. TypeOK
  BY <1>1, <1>2, Constants DEF Init, TypeOK
<1>5. Passed /\ Chosen
  <2>1. /\ selected = 0 /\ node = 1 /\ kept = {} /\ used = {} /\ picks = 0
        /\ servers = {} /\ clients = {}
    BY DEF Init
  <2>2. Passed
    BY <2>1, NoneYet DEF Passed
  <2>3. Chosen
    BY <2>1, Constants DEF Chosen
  <2>4. QED
    BY <2>2, <2>3
<1>6. LaidOut
  BY <1>1, <1>3 DEF Init, LaidOut
<1>7. QED
  BY <1>4, <1>5, <1>6 DEF IInv

LEMMA Step == IInv /\ [Next]_vars => IInv'
<1> SUFFICES ASSUME IInv, [Next]_vars PROVE IInv'
  OBVIOUS
<1>1. CASE CheckAntiAffinity
  BY <1>1, CheckStep
<1>2. CASE SelectHosts
  BY <1>2, SelectStep
<1>3. CASE PickRandom
  BY <1>3, PickStep
<1>4. CASE AllPicked
  BY <1>4, AllPickedStep
<1>5. CASE NextRound
  BY <1>5, NextRoundStep
<1>6. ASSUME NEW s \in servers, PlanServer(s) PROVE IInv'
  BY <1>6, PlanStep
<1>7. CASE UNCHANGED vars
  <2>1. UNCHANGED hostVars /\ UNCHANGED <<labels, usable, selected, node, picks, kept, servers, clients>>
    BY <1>7 DEF vars, hostVars, filterVars
  <2>2. UNCHANGED <<commands, waiting, affected>>
    BY <1>7 DEF vars, planVars
  <2>3. Passed' /\ Chosen'
    BY <2>1, HostsStay DEF IInv
  <2>4. TypeOK'
    BY <2>1, <2>2 DEF IInv, TypeOK, Round
  <2>5. LaidOut'
    BY <2>1, <2>2 DEF IInv, LaidOut, Round, AllSelected, Fits, Once, Never
  <2>6. QED
    BY <2>3, <2>4, <2>5 DEF IInv
<1>8. QED
  BY <1>1, <1>2, <1>3, <1>4, <1>5, <1>6, <1>7 DEF Next, Terminated

LEMMA Invariant == Spec => []IInv
BY InitInvariant, Step, PTL DEF Spec

(***************************************************************************)
(* Every selection chooses all that it has to, and nothing else is chosen: *)
(* FilterHostsList keeps the nodes that pass and no others, and keeps      *)
(* those apart in the labels of the anti-affinity.                         *)
(***************************************************************************)
THEOREM RespectsSelections == Spec => []SelectionsRespected
<1>1. IInv => SelectionsRespected
  <2>1. ASSUME IInv, ~AllSelected PROVE Apart(kept, Selection.antiAffinity)
    <3>1. kept = Passing(Selection, node - 1) /\ node - 1 \in Nat
      BY <2>1, Constants DEF IInv, TypeOK, Passed
    <3>2. QED
      BY <3>1, PassingApart
  <2>2. ASSUME IInv, AllSelected
        PROVE  Respected(ServerSelections, servers) /\ Respected(ClientSelections, clients)
    <3>1. /\ \A k \in DOMAIN ServerSelections : k <= selected
          /\ \A k \in DOMAIN ClientSelections : k + Len(ServerSelections) <= selected
      BY <2>2, Constants DEF AllSelected
    <3>2. QED
      BY <2>2, <3>1 DEF IInv, Chosen, Respected
  <2>3. QED
    BY <2>1, <2>2 DEF SelectionsRespected
<1>2. QED
  BY <1>1, Invariant, PTL

(* A complete plan has every pair in every round exactly once.             *)
LEMMA EveryPair ==
  ASSUME IInv, Planned, NEW k \in 1 .. Rounds, NEW s \in servers, NEW c \in clients
  PROVE  Cardinality(Occurrences(k, s, c)) = 1
<1>1. Once(commands[k], s)
  BY DEF IInv, LaidOut, Planned
<1>2. PICK i \in DOMAIN commands[k] :
        /\ commands[k][i].server = s
        /\ \A j \in DOMAIN commands[k] : commands[k][j].server = s => j = i
  BY <1>1 DEF Once
<1> DEFINE subTasks == commands[k][i].subTasks
<1>3. subTasks \in SetToSeqs(clients)
  <2>1. s # NoServer
    BY Constants DEF IInv, TypeOK
  <2>2. Fits(commands[k][i])
    BY DEF IInv, LaidOut, Planned
  <2>3. QED
    BY <1>2, <2>1, <2>2 DEF Fits
<1> HIDE DEF subTasks
<1>4. /\ DOMAIN subTasks = 1 .. Cardinality(clients)
      /\ \E j \in DOMAIN subTasks : subTasks[j] = c /\ \A l \in DOMAIN subTasks : subTasks[l] = c => j = l
  BY <1>3, Permutation DEF IInv, TypeOK
<1>5. PICK j \in DOMAIN subTasks : subTasks[j] = c /\ \A l \in DOMAIN subTasks : subTasks[l] = c => j = l
  BY <1>4
<1>6. <<i, j>> \in Occurrences(k, s, c)
  BY <1>2, <1>4, <1>5 DEF Occurrences, subTasks
<1>7. ASSUME NEW p \in Occurrences(k, s, c) PROVE p = <<i, j>>
  <2>1. /\ p \in (DOMAIN commands[k]) \X (1 .. Cardinality(clients))
        /\ commands[k][p[1]].server = s
        /\ p[2] \in DOMAIN commands[k][p[1]].subTasks /\ commands[k][p[1]].subTasks[p[2]] = c
    BY DEF Occurrences
  <2>2. p = <<p[1], p[2]>> /\ p[1] \in DOMAIN commands[k]
    BY <2>1
  <2>3. p[1] = i
    BY <1>2, <2>1, <2>2
  <2>4. p[2] = j
    BY <1>5, <2>1, <2>3 DEF subTasks
  <2>5. QED
    BY <2>2, <2>3, <2>4
<1>8. Occurrences(k, s, c) = {<<i, j>>}
  BY <1>6, <1>7
<1>9. QED
  BY <1>8, FS_Singleton

(***************************************************************************)
(* The plan that Plan returns has each pair of a server and a client once  *)
(* per round, for any order of the maps, and names every host it uses.     *)
(***************************************************************************)
THEOREM CompletesPlan == Spec => []PlanComplete
<1>1. IInv => PlanComplete
  <2> SUFFICES ASSUME IInv, Planned
               PROVE  /\ \A k \in 1 .. Rounds : \A i \in DOMAIN commands[k] :
                           IsRun(commands[k][i]) => commands[k][i].server \in servers
                      /\ servers # {} => affected = servers \union clients
    BY EveryPair DEF PlanComplete
  <2>1. \A k \in 1 .. Rounds : \A i \in DOMAIN commands[k] :
          IsRun(commands[k][i]) => commands[k][i].server \in servers
    BY DEF IInv, LaidOut, Planned, Fits, IsRun
  <2>2. \A s \in servers : s \in affected /\ clients \subseteq affected
    <3>1. Round > 1 \/ Round = 1
      BY Constants DEF Planned
    <3>2. QED
      BY <3>1 DEF IInv, LaidOut, Planned
  <2>3. QED
    BY <2>1, <2>2 DEF IInv, TypeOK
<1>2. QED
  BY <1>1, Invariant, PTL
=============================================================================
