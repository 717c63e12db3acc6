---------------------------- MODULE AnsibleHosts ----------------------------
(***************************************************************************)
(* GetHostsForTest of runners/ansible: the hosts of the server and the     *)
(* client group are looked up in the inventory, and a pool of workers      *)
(* fetches their addresses.  A feeder goroutine hands the hosts out on     *)
(* inCh, the workers report on retCh, both unbuffered, and the caller      *)
(* collects the reports until the feeder closes retCh.                     *)
(*                                                                         *)
(* AnsibleRunner is of the same package: the names of this module say Pool *)
(* so that a module can extend both.                                       *)
(***************************************************************************)
EXTENDS Integers, FiniteSets

CONSTANTS
  Inventories, \* the inventories ansible-inventory may list
  AnsibleGroups, \* the groups of servers and of clients in the configuration
  Workers,     \* as many as parallelHostFactCalls says
  MaxFailures  \* bound on the fact calls that fail

NoHost == "none"

ASSUME HostsAssumption == MaxFailures \in Nat

ASSUME FiniteAssumption ==
  /\ IsFiniteSet(Workers) /\ IsFiniteSet(AnsibleGroups)
  /\ \A inv \in Inventories :
       IsFiniteSet(DOMAIN inv) /\ \A g \in DOMAIN inv : IsFiniteSet(inv[g].hosts)

(***************************************************************************)
(* An inventory is a function from its groups to HostGroups, records with  *)
(* the children and the hosts of a group.  ansible-inventory lists no      *)
(* group below itself: in any set of groups there is one without a child   *)
(* in the set.                                                             *)
(***************************************************************************)
ASSUME InventoriesAssumption ==
  \A inv \in Inventories : \A S \in SUBSET DOMAIN inv :
    S # {} => \E g \in S : inv[g].children \intersect S = {}

\* Faulty: the hosts of child groups are left out.
HostsOfGroupOnly(inv, group) == IF group \in DOMAIN inv THEN inv[group].hosts ELSE {}

\* GetHostsForGroup; a group that is not in the inventory has no hosts.
HostsForGroup(inv, group) ==
  LET hosts[g \in DOMAIN inv] ==
        inv[g].hosts \union UNION {hosts[c] : c \in inv[g].children \intersect DOMAIN inv}
  IN IF group \in DOMAIN inv THEN hosts[group] ELSE {}

VARIABLES
  inventory, \* the inventory of this call; no step changes it
  unfed,    \* hosts the feeder has not handed out
  closed,   \* the closed channels
  worker,   \* what each worker does
  host,     \* the host each worker got last
  found,    \* the map hosts: those with addresses
  failures, \* fact calls that failed so far
  errs,     \* the hosts whose errors the caller has collected
  caller    \* the caller of the pool: "collect", or what it returned

workerVars == <<worker, host, found, failures>>
poolVars == <<inventory, unfed, closed, workerVars, errs, caller>>

\* UniqueStringSlice of the servers and the clients: each host once.
Hosts == UNION {HostsForGroup(inventory, g) : g \in AnsibleGroups}

PoolInit ==
  /\ inventory \in Inventories
  /\ unfed = Hosts /\ closed = {}
  /\ worker = [w \in Workers |-> "range"]
  /\ host = [w \in Workers |-> NoHost]
  /\ found = {} /\ failures = 0
  /\ errs = {} /\ caller = "collect"

-----------------------------------------------------------------------------
(* The feeder                                                              *)

\* inCh <- h meets the range of a worker.
Feed(w, h) ==
  /\ h \in unfed /\ worker[w] = "range"
  /\ unfed' = unfed \ {h}
  /\ worker' = [worker EXCEPT ![w] = "fetch"]
  /\ host' = [host EXCEPT ![w] = h]
  /\ UNCHANGED <<inventory, closed, found, failures, errs, caller>>

CloseIn ==
  /\ unfed = {} /\ "inCh" \notin closed
  /\ closed' = closed \union {"inCh"}
  /\ UNCHANGED <<inventory, unfed, workerVars, errs, caller>>

\* Faulty: retCh is closed without waiting for the workers.
CloseRetEarly ==
  /\ "inCh" \in closed /\ "retCh" \notin closed
  /\ closed' = closed \union {"retCh"}
  /\ UNCHANGED <<inventory, unfed, workerVars, errs, caller>>

\* wg.Wait(), then close(retCh)
CloseRet ==
  /\ "inCh" \in closed /\ "retCh" \notin closed
  /\ \A w \in Workers : worker[w] = "exited"
  /\ closed' = closed \union {"retCh"}
  /\ UNCHANGED <<inventory, unfed, workerVars, errs, caller>>

-----------------------------------------------------------------------------
(* A worker                                                                *)

FactsFound(w) ==
  /\ worker[w] = "fetch"
  /\ found' = found \union {host[w]}
  /\ worker' = [worker EXCEPT ![w] = "report"]
  /\ UNCHANGED <<inventory, unfed, closed, host, failures, errs, caller>>

FactsFail(w) ==
  /\ worker[w] = "fetch" /\ failures < MaxFailures
  /\ failures' = failures + 1
  /\ worker' = [worker EXCEPT ![w] = "fail"]
  /\ UNCHANGED <<inventory, unfed, closed, host, found, errs, caller>>

NoMoreHosts(w) ==
  /\ worker[w] = "range" /\ "inCh" \in closed
  /\ worker' = [worker EXCEPT ![w] = "last"]
  /\ UNCHANGED <<inventory, unfed, closed, host, found, failures, errs, caller>>

\* Faulty: a worker ends after its first host.
ReportAndReturn(w) ==
  /\ worker[w] \in {"report", "last"} /\ caller = "collect"
  /\ worker' = [worker EXCEPT ![w] = "exited"]
  /\ UNCHANGED <<inventory, unfed, closed, host, found, failures, errs, caller>>

\* retCh <- nil after a host goes on, after the last host ends the worker.
Report(w) ==
  /\ worker[w] \in {"report", "last"} /\ caller = "collect"
  /\ worker' = [worker EXCEPT ![w] = IF worker[w] = "report" THEN "range" ELSE "exited"]
  /\ UNCHANGED <<inventory, unfed, closed, host, found, failures, errs, caller>>

\* Faulty: the worker returns without a report.
ReturnSilently(w) ==
  /\ worker[w] = "fail" /\ caller = "collect"
  /\ worker' = [worker EXCEPT ![w] = "exited"]
  /\ UNCHANGED <<inventory, unfed, closed, host, found, failures, errs, caller>>

\* retCh <- err ends the worker.
ReportError(w) ==
  /\ worker[w] = "fail" /\ caller = "collect"
  /\ errs' = errs \union {host[w]}
  /\ worker' = [worker EXCEPT ![w] = "exited"]
  /\ UNCHANGED <<inventory, unfed, closed, host, found, failures, caller>>

Worker(w) ==
  FactsFound(w) \/ FactsFail(w) \/ NoMoreHosts(w) \/ Report(w) \/ ReportError(w)

-----------------------------------------------------------------------------
\* The range over retCh ends; errors first, then every host must be there.
Return ==
  /\ caller = "collect" /\ "retCh" \in closed
  /\ caller' = IF errs # {} THEN "errors"
               ELSE IF found = Hosts THEN "hosts" ELSE "missing"
  /\ UNCHANGED <<inventory, unfed, closed, workerVars, errs>>

PoolTerminated == caller # "collect" /\ UNCHANGED poolVars

PoolNext ==
  \/ \E w \in Workers : (\E h \in unfed : Feed(w, h)) \/ Worker(w)
  \/ CloseIn \/ CloseRet \/ Return
  \/ PoolTerminated

PoolSpec == PoolInit /\ [][PoolNext]_poolVars

(* Every fact call is bounded by commandTimeout.                           *)
FairPoolSpec ==
  /\ PoolSpec
  /\ WF_poolVars(\E w \in Workers : \E h \in unfed : Feed(w, h))
  /\ \A w \in Workers : WF_poolVars(Worker(w))
  /\ WF_poolVars(CloseIn \/ CloseRet) /\ WF_poolVars(Return)

-----------------------------------------------------------------------------
(* Properties                                                              *)

PoolTypeOK ==
  /\ inventory \in Inventories
  /\ unfed \subseteq Hosts
  /\ closed \subseteq {"inCh", "retCh"}
  /\ worker \in [Workers -> {"range", "fetch", "report", "fail", "last", "exited"}]
  /\ host \in [Workers -> Hosts \union {NoHost}]
  /\ found \subseteq Hosts
  /\ failures \in 0..MaxFailures
  /\ errs \subseteq Hosts
  /\ caller \in {"collect", "hosts", "errors", "missing"}

(***************************************************************************)
(* getHosts never finds a host missing in the map ("this should not have   *)
(* happened"), and the caller returns the hosts only when every one has    *)
(* its addresses and none failed: no report is lost when workers give up   *)
(* at different times.                                                     *)
(***************************************************************************)
CompleteOrError ==
  /\ caller # "missing"
  /\ caller = "hosts" => found = Hosts /\ failures = 0
  /\ caller = "errors" => failures > 0

(***************************************************************************)
(* retCh is closed only when no worker can send on it any more, and inCh   *)
(* only when every host was handed to exactly one worker.                  *)
(***************************************************************************)
ClosedInTime ==
  /\ "retCh" \in closed => \A w \in Workers : worker[w] = "exited"
  /\ "inCh" \in closed =>
       \A h \in Hosts : h \in found \/ h \in errs \/ \E w \in Workers : host[w] = h

(***************************************************************************)
(* What getHosts returns are the hosts of every group below the two groups *)
(* of the configuration, however deep the groups are nested and whether or *)
(* not groups share children and hosts.                                    *)
(***************************************************************************)
Below(inv, group) ==
  LET ClosedUnder(S) == \A g \in S : inv[g].children \intersect DOMAIN inv \subseteq S
  IN {g \in DOMAIN inv : \A S \in SUBSET DOMAIN inv : group \in S /\ ClosedUnder(S) => g \in S}

Reachable(inv, group) ==
  IF group \in DOMAIN inv THEN UNION {inv[g].hosts : g \in Below(inv, group)} ELSE {}

WholeInventory ==
  caller = "hosts" => found = UNION {Reachable(inventory, g) : g \in AnsibleGroups}

(***************************************************************************)
(* "If we encountered errors return errors": the pool answers, or as many  *)
(* calls have failed as there are workers while hosts are left.  Each      *)
(* failure takes a worker away; when all are gone the feeder waits for     *)
(* ever to hand out the next host, and GetHostsForTest never returns.      *)
(***************************************************************************)
Starved == unfed # {} /\ failures >= Cardinality(Workers) /\ \A w \in Workers : worker[w] = "exited"

AnswersOrStarves == <>(caller # "collect" \/ Starved)
=============================================================================
