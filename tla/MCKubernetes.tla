---------------------------- MODULE MCKubernetes ----------------------------
EXTENDS KubernetesRunner

\* The bound on lost writes: where calls may fail too, writes to the Status are
\* lost in the last task only.
LateLosses == faulty /\ task < NTasks => UNCHANGED <<lostFails, lostOks>>

FairSpec == Init /\ [][Next /\ LateLosses]_vars /\ Fairness
=============================================================================
