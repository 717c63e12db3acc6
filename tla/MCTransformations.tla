-------------------------- MODULE MCTransformations --------------------------
EXTENDS Transformations

Parsed(name, number, base) == [name |-> name, number |-> number, base |-> base]

\* As the pingparsing parser makes them: two replies of one target, one of another.
PingColumns == <<Parsed("rtt", TRUE, TRUE), Parsed("ttl", TRUE, FALSE), Parsed("host", FALSE, TRUE)>>
ThreeReplies == <<1, 1, 2>>

Transformation(source, action, destination, modifierAction, modifier) ==
  [source |-> source, action |-> action, destination |-> destination,
   modifierAction |-> modifierAction, modifier |-> modifier]

SomeTransformations ==
  {Transformation(s, a, d, "division", TRUE) :
     s \in {"rtt", "ttl", "new"}, a \in {"add", "replace"}, d \in {"", "new"}}
  \union {Transformation(s, "delete", "", "none", FALSE) : s \in {"rtt", "new"}}
  \union {Transformation("host", a, "rtt", "multiply", FALSE) : a \in {"add", "replace"}}
  \union {Transformation("ttl", "replace", "rtt", m, FALSE) : m \in {"none", "addition"}}
  \union {Transformation("ttl", "drop", "", "none", FALSE)}

UpToThree == BoundedSeq(SomeTransformations, 3)
=============================================================================
