---------------------------- MODULE MCFnRegistry ----------------------------
EXTENDS FnRegistry

CONSTANTS a, b, none, n1, n2, n3, null, u1, u2

NameSet == {a, b}
NodeSet == {n1, n2, n3}
UnitSet == {u1, u2}

\* Paths above, below and beside each other, with empty segments here and there.
PathSet == {<<a>>, <<a, b>>, <<b, none, a>>, <<none, a, b>>, <<none>>, <<b, a, a>>}

Node(path, node) == [what |-> "node", path |-> path, node |-> node]
Handle(path) == [what |-> "handler", path |-> path]

\* As in the usage of functions.hpp: a unit handles the nodes it defines.  Both
\* define a node for the same path.
DocumentedObjects ==
  [u \in UnitSet |->
     IF u = u1 THEN <<Node(<<a>>, n1), Handle(<<a>>)>>
     ELSE <<Node(<<a, b>>, n2), Handle(<<a, b>>), Node(<<a>>, n3), Handle(<<a>>)>>]

\* A handler in another unit than its node.
OtherUnitObjects ==
  [u \in UnitSet |-> IF u = u1 THEN <<Handle(<<a>>)>> ELSE <<Node(<<a>>, n1)>>]

DepthSet == {-1, 0, 1}
=============================================================================
