--------------------------- MODULE MCAnsibleHosts ---------------------------
EXTENDS AnsibleHosts

CONSTANTS a, b, c, d

Group(hosts, children) == [hosts |-> hosts, children |-> children]

TwoGroups == {"server", "clients"}

\* No nesting, one host in both groups.
Flat   == [server |-> Group({a}, {}), clients |-> Group({a, b, c, d}, {})]
\* Both groups share a child, which has hosts of its own and a child again.
Nested == [server  |-> Group({}, {"rack"}), clients |-> Group({a}, {"rack", "zone"}),
           rack    |-> Group({b}, {"zone"}), zone |-> Group({c}, {})]
\* A chain of groups; hosts of another group are not asked for.
Chain  == [server  |-> Group({}, {"rack"}), rack |-> Group({}, {"zone"}), zone |-> Group({a, b}, {}),
           other   |-> Group({c}, {})]
\* Neither group is in the inventory.
Empty  == [other |-> Group({a}, {})]

SomeInventories == {Flat, Nested, Chain, Empty}
=============================================================================
