----------------------------- MODULE FnRegistry -----------------------------
(***************************************************************************)
(* ltz::proc_init: the registry of functions (src/include/ltz/proc_init/   *)
(* register.hpp and functions.hpp).  Global objects put nodes into it, and *)
(* run handlers on nodes, while the program starts; main then runs nodes   *)
(* by path or all of them.                                                 *)
(*                                                                         *)
(* The objects of a translation unit are constructed in their order, those *)
(* of different units in any order.  The functions that main runs, and the *)
(* ones for_each calls, may put more nodes while they run.                 *)
(*                                                                         *)
(* A name is atomic here.  (boost::property_tree takes a name with a dot   *)
(* in it for a path.)                                                      *)
(***************************************************************************)
EXTENDS Integers, SequencesExt

CONSTANTS
  Names,    \* the segments of a path
  Empty,    \* the segment "", as between two separators
  Nodes,    \* the objects derived from fn::node
  Null,     \* the null pointer
  Units,    \* the translation units
  Objects,  \* the global objects of each unit, in order
  Paths,    \* the paths main and the functions use
  Depths    \* the depths given to for_each_at; -1 has no limit

\* LTZ_PI_FN_NODE_CONSTRUCT and LTZ_PI_FN_NODE_HANDLE define an object each.
Object == [what : {"node"}, path : Paths, node : Nodes]
          \cup [what : {"handler"}, path : Paths]

ASSUME NamesAssumption == Empty \notin Names /\ Null \notin Nodes
ASSUME PathsAssumption == Paths \subseteq Seq(Names \cup {Empty})
ASSUME ObjectsAssumption == Objects \in [Units -> Seq(Object)]
ASSUME DepthsAssumption == Depths \subseteq Nat \cup {-1}

VARIABLES
  tree,      \* rt_: from the places that exist to their pointers
  order,     \* the places in the order they were made, which is the order of
             \* the children of each
  err,
  made,      \* how many objects of each unit are constructed
  life,      \* "init", "main", or "terminated" by an exception of an initializer
  call,      \* what main is in: "none", "run", "macro" or "walk"
  walk,      \* the traversal: run_all or for_each_at, where it began, how deep it goes
  cursor,    \* where it is
  visited,   \* history: the places it has called the function at
  due,       \* history: the places it had to visit when it began
  accepted,  \* history: the paths put without an error, with their nodes
  handled    \* history: the handlers' paths, with the nodes they were given

registry == <<tree, order, err, accepted>>
traversal == <<walk, cursor, visited, due>>
vars == <<registry, traversal, made, life, call, handled>>

-----------------------------------------------------------------------------
(* Places in the tree. *)

\* The segments of a path but for the empty ones, which are passed over.
Steps(path) ==
  LET upTo[i \in 0..Len(path)] ==
        IF i = 0 THEN << >>
        ELSE IF path[i] = Empty THEN upTo[i - 1]
        ELSE Append(upTo[i - 1], path[i])
  IN  upTo[Len(path)]

\* How far the tree has the place.
Reach(place) == Max({k \in 0..Len(place) : SubSeq(place, 1, k) \in DOMAIN tree})

\* Mutant: the last step is not taken.
get_tree_node_Short(path) ==
  LET place == Steps(path)
  IN  SubSeq(place, 1, IF Reach(place) = 0 THEN 0 ELSE Reach(place) - 1)

\* Where the descent along a path ends: at the path or where it goes on no more.
get_tree_node(path) == SubSeq(Steps(path), 1, Reach(Steps(path)))

get(path) == tree[get_tree_node(path)]

\* The places that put has to make, from the top.
Missing(place) ==
  [i \in 1..Len(place) - Reach(place) |-> SubSeq(place, 1, Reach(place) + i)]

Holds(place) == place \in DOMAIN tree /\ tree[place] # Null

\* What put does with a node for a place that has none.
put_impl(place, node) ==
  /\ tree' = [q \in DOMAIN tree \cup Prefixes(place) |->
                IF q = place THEN node
                ELSE IF q \in DOMAIN tree THEN tree[q] ELSE Null]
  /\ order' = order \o Missing(place)

\* Mutant: the places on the way are made anew.
put_Anew(path, node) ==
  LET place == Steps(path)
  IN  IF node = Null \/ Holds(place)
        THEN UNCHANGED registry
        ELSE /\ tree' = [q \in DOMAIN tree \cup Prefixes(place) |->
                           IF q = place THEN node
                           ELSE IF q \in DOMAIN tree /\ ~IsPrefix(q, place) THEN tree[q]
                           ELSE Null]
             /\ order' = order \o Missing(place)
             /\ err' = "ok"
             /\ accepted' = accepted \cup {<<path, node>>}

\* Mutant: the last put wins.
put_Replaces(path, node) ==
  IF node = Null
    THEN err' = "bad_access_node" /\ UNCHANGED <<tree, order, accepted>>
    ELSE /\ put_impl(Steps(path), node)
         /\ err' = "ok"
         /\ accepted' = accepted \cup {<<path, node>>}

\* put: the places on the way are made with a null pointer; a place that has
\* a node already keeps it.
put(path, node) ==
  IF node = Null
    THEN err' = "bad_access_node" /\ UNCHANGED <<tree, order, accepted>>
  ELSE IF Holds(Steps(path))
    THEN err' = "duplicate_path" /\ UNCHANGED <<tree, order, accepted>>
  ELSE /\ put_impl(Steps(path), node)
       /\ err' = "ok"
       /\ accepted' = accepted \cup {<<path, node>>}

-----------------------------------------------------------------------------
Init ==
  /\ tree = [q \in {<< >>} |-> Null]
  /\ order = << << >> >>
  /\ err = "ok"
  /\ made = [u \in Units |-> 0]
  /\ life = "init"
  /\ call = "none"
  /\ walk = [kind |-> "run_all", base |-> << >>, depth |-> -1]
  /\ cursor = << >>
  /\ visited = << >>
  /\ due = {}
  /\ accepted = {}
  /\ handled = {}

-----------------------------------------------------------------------------
(* Static initialisation. *)

Constructs(u, what) ==
  /\ life = "init"
  /\ made[u] < Len(Objects[u])
  /\ Objects[u][made[u] + 1].what = what
  /\ made' = [made EXCEPT ![u] = @ + 1]

\* The constructor of a node puts it; nobody looks at err.
ConstructNode(u) ==
  /\ Constructs(u, "node")
  /\ LET object == Objects[u][made[u] + 1] IN put(object.path, object.node)
  /\ UNCHANGED <<traversal, life, call, handled>>

\* The constructor of a handler gets its node, and throws if there is none.
ConstructHandler(u) ==
  /\ Constructs(u, "handler")
  /\ LET path == Objects[u][made[u] + 1].path
     IN  IF get(path) = Null
           THEN life' = "terminated" /\ UNCHANGED handled
           ELSE handled' = handled \cup {<<path, get(path)>>} /\ UNCHANGED life
  /\ err' = "ok"
  /\ UNCHANGED <<tree, order, accepted, traversal, call>>

EnterMain ==
  /\ life = "init"
  /\ \A u \in Units : made[u] = Len(Objects[u])
  /\ life' = "main"
  /\ UNCHANGED <<registry, traversal, made, call, handled>>

-----------------------------------------------------------------------------
(* main, and the functions it runs. *)

Put(path, node) ==
  /\ life = "main" /\ call = "none"
  /\ put(path, node)
  /\ UNCHANGED <<traversal, made, life, call, handled>>

\* run(path) runs the node the descent ends at, with the whole path as its
\* arguments: nobody looks at how far the descent came.
Run(path) ==
  /\ life = "main" /\ call = "none"
  /\ IF get(path) = Null
       THEN err' = "function_invalid" /\ UNCHANGED call
       ELSE err' = "ok" /\ call' = "run"
  /\ UNCHANGED <<tree, order, accepted, traversal, made, life, handled>>

\* LTZ_PI_FN_RUN, which only gets the node to call it; without one it is
\* LTZ_PI_FN_GET_NODE.  err says that get went well, also where it got nothing.
RunMacro(path) ==
  /\ life = "main" /\ call = "none"
  /\ err' = "ok"
  /\ call' = IF get(path) = Null THEN "none" ELSE "macro"
  /\ UNCHANGED <<tree, order, accepted, traversal, made, life, handled>>

\* Behind the macro err is what the function left there.
RunReturns ==
  /\ call \in {"run", "macro"}
  /\ call' = "none"
  /\ err' = IF call = "run" THEN "ok" ELSE err
  /\ UNCHANGED <<tree, order, accepted, traversal, made, life, handled>>

\* A function is called at every place for for_each, at those with a node for
\* run_all.
Visits(place) == walk.kind = "for_each" \/ tree[place] # Null

RunAll ==
  /\ life = "main" /\ call = "none"
  /\ call' = "walk"
  /\ walk' = [kind |-> "run_all", base |-> << >>, depth |-> -1]
  /\ cursor' = << >>
  /\ visited' = IF tree[<< >>] = Null THEN << >> ELSE << << >> >>
  /\ due' = {q \in DOMAIN tree : tree[q] # Null}
  /\ UNCHANGED <<registry, made, life, handled>>

\* for_each_at does not call the function at the place it begins at.
ForEachAt(path, depth) ==
  LET base == get_tree_node(path)
  IN  /\ life = "main" /\ call = "none"
      /\ \/ /\ base # Steps(path)
            /\ err' = "node_not_found"
            /\ UNCHANGED <<traversal, call>>
         \/ /\ base = Steps(path)
            /\ err' = "ok"
            /\ call' = "walk"
            /\ walk' = [kind |-> "for_each", base |-> base, depth |-> depth]
            /\ cursor' = base
            /\ visited' = << >>
            /\ due' = {q \in DOMAIN tree : IsStrictPrefix(base, q)
                         /\ (depth = -1 \/ Len(q) <= Len(base) + depth)}
      /\ UNCHANGED <<tree, order, accepted, made, life, handled>>

IsChild(q, place) == q # << >> /\ Front(q) = place

\* Mutant: one level too few.
Children_Shallow(place) ==
  IF walk.depth # -1 /\ Len(place) - Len(walk.base) >= walk.depth - 1
    THEN {}
    ELSE {i \in DOMAIN order : IsChild(order[i], place)}

\* Mutant: no depth is looked at.
Children_Unlimited(place) == {i \in DOMAIN order : IsChild(order[i], place)}

\* Where in the order the children are that the traversal descends to.
Children(place) ==
  IF Len(place) - Len(walk.base) = walk.depth
    THEN {}
    ELSE {i \in DOMAIN order : IsChild(order[i], place)}

\* Where in the order the siblings are that come after a place.
Later(place) ==
  {i \in DOMAIN order : IsChild(order[i], Front(place)) /\ \E j \in 1..i - 1 : order[j] = place}

\* The places between the traversal's base and the cursor with one after them.
Open == {q \in Prefixes(cursor) : IsStrictPrefix(walk.base, q) /\ Later(q) # {}}

\* To the first of the places that are there in the order.
MoveTo(where) ==
  LET place == order[Min(where)]
  IN  /\ cursor' = place
      /\ visited' = IF Visits(place) THEN Append(visited, place) ELSE visited
      /\ UNCHANGED <<walk, due, call, err>>

\* Down to the first child, or on to the next sibling, of an ancestor if need
\* be.  The iterators hold whatever is put meanwhile.
WalkOn ==
  /\ call = "walk"
  /\ \/ Children(cursor) # {} /\ MoveTo(Children(cursor))
     \/ /\ Children(cursor) = {}
        /\ \E q \in Open : (\A r \in Open : Len(r) <= Len(q)) /\ MoveTo(Later(q))
     \/ /\ Children(cursor) = {} /\ Open = {}
        /\ call' = "none"
        /\ err' = IF walk.kind = "for_each" THEN "ok" ELSE err
        /\ UNCHANGED traversal
  /\ UNCHANGED <<tree, order, accepted, made, life, handled>>

\* The function that main or the traversal runs puts a node.
FunctionPuts(path, node) ==
  /\ call \in {"run", "macro"} \/ (call = "walk" /\ visited # << >> /\ Last(visited) = cursor)
  /\ put(path, node)
  /\ UNCHANGED <<traversal, made, life, call, handled>>

\* (A terminated program takes no step.)
Next ==
  \/ \E u \in Units : ConstructNode(u) \/ ConstructHandler(u)
  \/ EnterMain
  \/ \E path \in Paths, node \in Nodes \cup {Null} :
       Put(path, node) \/ FunctionPuts(path, node)
  \/ \E path \in Paths : Run(path) \/ RunMacro(path)
  \/ \E path \in Paths, depth \in Depths : ForEachAt(path, depth)
  \/ RunReturns \/ RunAll \/ WalkOn

Spec == Init /\ [][Next]_vars

-----------------------------------------------------------------------------
(* Properties. *)

Errors == {"ok", "duplicate_path", "bad_access_node", "node_not_found", "function_invalid"}

\* Every variable has its type; a place exists with all places above it, and
\* has exactly one position among its siblings.
TypeOK ==
  /\ DOMAIN tree \subseteq Seq(Names)
  /\ \A q \in DOMAIN tree : tree[q] \in Nodes \cup {Null} /\ Prefixes(q) \subseteq DOMAIN tree
  /\ ToSet(order) = DOMAIN tree /\ IsInjective(order)
  /\ err \in Errors
  /\ made \in [Units -> Nat]
  /\ life \in {"init", "main", "terminated"}
  /\ call \in {"none", "run", "macro", "walk"}
  /\ walk.kind \in {"run_all", "for_each"} /\ walk.base \in DOMAIN tree
  /\ walk.depth \in Depths \cup {-1}
  /\ cursor \in DOMAIN tree
  /\ ToSet(visited) \subseteq DOMAIN tree /\ due \subseteq DOMAIN tree
  /\ accepted \subseteq Paths \X Nodes /\ handled \subseteq Paths \X Nodes

\* A node that was put without an error is what its path finds ever after,
\* whatever is put above it, below it or in its place.
PutIsFound == \A p \in accepted : get(p[1]) = p[2]

\* A place never changes or loses its node, and no place disappears, also not
\* under a traversal that has an iterator to it.
FirstPutWins ==
  [][/\ DOMAIN tree \subseteq DOMAIN tree'
     /\ \A q \in DOMAIN tree : tree[q] # Null => tree'[q] = tree[q]]_vars

\* A handler is given the node that was put at its own path, never that of a
\* shorter path, in whatever order the units are initialised ("Define
\* function body that handle node in register, which is specified by name").
HandlersGetTheirNode ==
  \A h \in handled : \E p \in accepted : Steps(p[1]) = Steps(h[1]) /\ p[2] = h[2]

\* No initializer throws, for get_node makes the node that is not there ("Get
\* node specify by iterator. If node is not exist, create it").
InitCompletes == life # "terminated"

\* A traversal that has ended has called its function at every place that it
\* had to when it began, whatever the function put on the way.
WalkIsComplete == call # "walk" => due \subseteq ToSet(visited)

\* A traversal is in preorder and calls its function once at a place, inside
\* its bounds.
WalkInPreorder ==
  /\ IsInjective(visited)
  /\ \A i, j \in DOMAIN visited : IsStrictPrefix(visited[i], visited[j]) => i < j
  /\ \A q \in ToSet(visited) :
       /\ IsPrefix(walk.base, q)
       /\ walk.depth # -1 => Len(q) <= Len(walk.base) + walk.depth
=============================================================================
