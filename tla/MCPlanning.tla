----------------------------- MODULE MCPlanning -----------------------------
EXTENDS Planning

ThreeNodes == <<"n1", "n2", "n3">>
ZonesAndRacks == {"zone", "rack"}
TwoValues     == {"1", "2"}

\* A config.Hosts that selects every host.
AnyHost == [hosts |-> {}, all |-> FALSE, random |-> FALSE, count |-> 0,
            hostSelector |-> [l \in {} |-> ""], antiAffinity |-> {}]

\* Servers are apart in both labels; Random is without effect where All is set.
\* Clients are a static host and up to two that a selector lets pass.
ApartInBoth ==
  <<[AnyHost EXCEPT !.antiAffinity = {"zone", "rack"}, !.random = TRUE, !.all = TRUE]>>
StaticAndPicked ==
  <<[AnyHost EXCEPT !.hosts = {"n1"}],
    [AnyHost EXCEPT !.hostSelector = [l \in {"zone"} |-> "1"],
                    !.antiAffinity = {"rack"}, !.random = TRUE, !.count = 2]>>
=============================================================================
