-------------------------- MODULE FnRegistryProofs --------------------------
(***************************************************************************)
(* Proofs about FnRegistry, for every set of paths, units and objects: a   *)
(* node that is put is found and stays; and when each unit handles only    *)
(* nodes that it has defined before, every handler gets the node of its    *)
(* path and no initializer throws, in whatever order the units go.         *)
(* Traversals, while nodes are put: a place is ahead of another if it is   *)
(* below it or below a later sibling of it or of a place above it; what is *)
(* due is visited or ahead, and each step goes to the first that is ahead. *)
(***************************************************************************)
EXTENDS FnRegistry, SequenceTheorems, WellFoundedInduction, TLAPS

\* What was put without an error is in its place, below places that exist.
AcceptedIsThere ==
  /\ accepted \subseteq Paths \X Nodes
  /\ \A p \in accepted :
       /\ Prefixes(Steps(p[1])) \subseteq DOMAIN tree
       /\ tree[Steps(p[1])] = p[2]

\* Every node in the tree was put there.
ThereIsAccepted ==
  \A q \in DOMAIN tree : tree[q] # Null =>
    \E p \in accepted : Steps(p[1]) = q /\ p[2] = tree[q]

IInv == AcceptedIsThere /\ ThereIsAccepted

-----------------------------------------------------------------------------
(* The steps of a path, one segment after the other. *)

Less == {ss \in Nat \X Nat : ss[1] < ss[2]}

LEMMA LessWellFounded == IsWellFoundedOn(Less, Nat)
BY NatLessThanWellFounded DEF OpToRel, Less

\* A set of numbers that has 0 and the next of each of its own has them all.
LEMMA Induction ==
  ASSUME NEW S \in SUBSET Nat, 0 \in S, \A k \in S : k + 1 \in S
  PROVE  S = Nat
<1> SUFFICES ASSUME Nat \ S # {} PROVE FALSE
  OBVIOUS
<1>1. PICK n \in Nat \ S : \A k \in Nat \ S : ~ (<<k, n>> \in Less)
  BY LessWellFounded, WFMin, Zenon
<1>2. n # 0 /\ n \in Nat
  OBVIOUS
<1>3. n - 1 \in Nat /\ n - 1 < n /\ (n - 1) + 1 = n
  BY <1>2
<1>4. <<n - 1, n>> \in Less
  BY <1>2, <1>3 DEF Less
<1>5. n - 1 \in S
  BY <1>1, <1>3, <1>4
<1> QED BY <1>3, <1>5

UpTo(path) ==
  CHOOSE f : f = [i \in 0..Len(path) |-> IF i = 0 THEN << >>
                                         ELSE IF path[i] = Empty THEN f[i - 1]
                                         ELSE Append(f[i - 1], path[i])]

\* The function that the recursion in Steps defines exists.
LEMMA UpToStep ==
  ASSUME NEW path, Len(path) \in Nat
  PROVE  /\ UpTo(path)[0] = << >>
         /\ \A i \in 1..Len(path) :
              UpTo(path)[i] = IF path[i] = Empty THEN UpTo(path)[i - 1]
                              ELSE Append(UpTo(path)[i - 1], path[i])
<1> DEFINE N == Len(path)
           Step(g) == [i \in 0..N |-> IF i = 0 THEN << >>
                                      ELSE IF path[i] = Empty THEN g[i - 1]
                                      ELSE Append(g[i - 1], path[i])]
           Right(g, k) == \A i \in 0..N : i < k => g[i] = Step(g)[i]
           S == {k \in Nat : \E g : Right(g, k)}
<1>0. N \in Nat
  OBVIOUS
<1> HIDE DEF N
<1>1. 0 \in S
  <2>1. Right(<< >>, 0)
    BY <1>0
  <2> QED BY <2>1
<1>2. ASSUME NEW k \in S PROVE k + 1 \in S
  <2>1. PICK g : Right(g, k)
    OBVIOUS
  <2>2. ASSUME NEW i \in 0..N, i < k + 1
        PROVE  Step(g)[i] = Step(Step(g))[i]
    <3>1. CASE i = 0
      BY <3>1
    <3>2. CASE i # 0
      <4>1. i - 1 \in 0..N /\ i - 1 < k
        BY <1>0, <2>2, <3>2
      <4>2. g[i - 1] = Step(g)[i - 1]
        BY <2>1, <4>1
      <4> QED BY <3>2, <4>2
    <3> QED BY <3>1, <3>2
  <2>3. Right(Step(g), k + 1)
    BY <2>2
  <2>4. k + 1 \in Nat
    OBVIOUS
  <2> HIDE DEF Right
  <2> QED BY <2>3, <2>4
<1>3. S = Nat
  <2> HIDE DEF S
  <2>1. S \subseteq Nat
    BY DEF S
  <2> QED BY <1>1, <1>2, <2>1, Induction
<1>4. PICK g : Right(g, N + 1)
  <2>1. N + 1 \in S
    <3> HIDE DEF S
    <3> QED BY <1>0, <1>3
  <2> QED BY <2>1
<1>5. \A i \in 0..N : g[i] = Step(g)[i]
  BY <1>0, <1>4
<1> DEFINE f == Step(g)
<1>6. \A i \in 0..N : f[i] = Step(f)[i]
  <2> TAKE i \in 0..N
  <2>1. CASE i = 0
    BY <2>1
  <2>2. CASE i # 0
    <3>1. i - 1 \in 0..N
      BY <1>0, <2>2
    <3>2. g[i - 1] = f[i - 1]
      BY <1>5, <3>1
    <3> QED BY <2>2, <3>2
  <2> QED BY <2>1, <2>2
<1>7. f = Step(f)
  BY <1>6
<1> HIDE DEF f
<1>8. UpTo(path) = Step(UpTo(path))
  BY <1>7 DEF UpTo, N
<1> DEFINE h == UpTo(path)
<1>9. h = Step(h)
  BY <1>8
<1> HIDE DEF h
<1>10. h[0] = << >>
  BY <1>0, <1>9
<1>11. \A i \in 1..N : h[i] = IF path[i] = Empty THEN h[i - 1] ELSE Append(h[i - 1], path[i])
  <2> TAKE i \in 1..N
  <2>1. i \in 0..N /\ i # 0
    BY <1>0
  <2>2. h[i] = Step(h)[i]
    BY <1>9, Zenon
  <2>3. Step(h)[i] = IF i = 0 THEN << >> ELSE IF path[i] = Empty THEN h[i - 1]
                     ELSE Append(h[i - 1], path[i])
    BY <2>1, Zenon
  <2> QED BY <2>1, <2>2, <2>3, Zenon
<1> QED
  BY <1>10, <1>11 DEF h, N

\* No empty name is left.
LEMMA StepsType == \A path \in Paths : Steps(path) \in Seq(Names)
<1> TAKE path \in Paths
<1>1. path \in Seq(Names \cup {Empty}) /\ Len(path) \in Nat
  BY PathsAssumption, LenProperties
<1> DEFINE h == UpTo(path)
           S == {k \in Nat : k <= Len(path) => h[k] \in Seq(Names)}
<1>2. Steps(path) = h[Len(path)]
  BY DEF Steps, UpTo
<1>3. /\ h[0] = << >>
      /\ \A i \in 1..Len(path) : h[i] = IF path[i] = Empty THEN h[i - 1] ELSE Append(h[i - 1], path[i])
  BY <1>1, UpToStep
<1> HIDE DEF h
<1>4. 0 \in S
  BY <1>3, EmptySeq
<1>5. ASSUME NEW k \in S PROVE k + 1 \in S
  <2> SUFFICES ASSUME k + 1 <= Len(path) PROVE h[k + 1] \in Seq(Names)
    OBVIOUS
  <2>1. k + 1 \in 1..Len(path) /\ h[k] \in Seq(Names) /\ (k + 1) - 1 = k
    BY <1>1
  <2>2. path[k + 1] \in Names \cup {Empty}
    BY <1>1, <2>1, ElementOfSeq
  <2>3. h[k + 1] = IF path[k + 1] = Empty THEN h[k] ELSE Append(h[k], path[k + 1])
    BY <1>3, <2>1
  <2>4. path[k + 1] # Empty => Append(h[k], path[k + 1]) \in Seq(Names)
    BY <2>1, <2>2, AppendProperties
  <2> QED BY <2>1, <2>3, <2>4
<1>6. S = Nat
  <2> HIDE DEF S
  <2>1. S \subseteq Nat
    BY DEF S
  <2> QED BY <1>4, <1>5, <2>1, Induction
<1>7. Len(path) \in S
  <2> HIDE DEF S
  <2> QED BY <1>1, <1>6
<1> QED BY <1>2, <1>7

-----------------------------------------------------------------------------
(* What is put, and what is found. *)

\* A path leads to its own place through all its prefixes.
LEMMA PrefixFacts ==
  ASSUME NEW path \in Paths
  PROVE  /\ Steps(path) \in Prefixes(Steps(path))
         /\ Len(Steps(path)) \in Nat
         /\ SubSeq(Steps(path), 1, Len(Steps(path))) = Steps(path)
<1>1. Steps(path) \in Seq(Names)
  BY StepsType
<1>2. Len(Steps(path)) \in Nat
  BY <1>1, LenProperties
<1>3. SubSeq(Steps(path), 1, Len(Steps(path))) = Steps(path)
  BY <1>1, SubSeqFull
<1>4. Len(Steps(path)) \in 0..Len(Steps(path))
  BY <1>2
<1> QED BY <1>2, <1>3, <1>4 DEF Prefixes

\* The descent along a path whose place exists ends there.
LEMMA DescentEnds ==
  ASSUME NEW path \in Paths, Steps(path) \in DOMAIN tree
  PROVE  get_tree_node(path) = Steps(path)
<1> DEFINE n == Len(Steps(path))
           S == {k \in 0..n : SubSeq(Steps(path), 1, k) \in DOMAIN tree}
<1>1. n \in Nat /\ SubSeq(Steps(path), 1, n) = Steps(path)
  BY PrefixFacts
<1>2. n \in S /\ \A k \in S : k \in 0..n
  <2>1. n \in 0..n
    BY <1>1
  <2>2. SubSeq(Steps(path), 1, n) \in DOMAIN tree
    BY <1>1
  <2> HIDE DEF n
  <2> QED BY <2>1, <2>2
<1>3. Max(S) = n
  <2> HIDE DEF S, n
  <2>1. \A k \in S : n >= k
    BY <1>1, <1>2
  <2>2. \A m \in S : (\A k \in S : m >= k) => m = n
    BY <1>1, <1>2
  <2> QED BY <1>2, <2>1, <2>2 DEF Max
<1>4. Reach(Steps(path)) = n
  BY <1>3 DEF Reach
<1> QED BY <1>1, <1>4 DEF get_tree_node

\* put keeps what is there, in particular the invariant, and leaves a node at
\* its place.
LEMMA PutKeeps ==
  ASSUME IInv, NEW path \in Paths, NEW node \in Nodes \cup {Null}, put(path, node)
  PROVE  /\ IInv'
         /\ DOMAIN tree \subseteq DOMAIN tree'
         /\ \A q \in DOMAIN tree : tree[q] # Null => tree'[q] = tree[q]
         /\ accepted \subseteq accepted'
         /\ node # Null => Holds(Steps(path))'
<1> DEFINE place == Steps(path)
<1>1. CASE node = Null \/ Holds(place)
  BY <1>1 DEF put, IInv, AcceptedIsThere, ThereIsAccepted, Holds
<1>2. CASE node # Null /\ ~Holds(place)
  <2>1. /\ tree' = [q \in DOMAIN tree \cup Prefixes(place) |->
                      IF q = place THEN node
                      ELSE IF q \in DOMAIN tree THEN tree[q] ELSE Null]
        /\ accepted' = accepted \cup {<<path, node>>}
    BY <1>2 DEF put, put_impl
  <2>2. place \in Prefixes(place)
    BY PrefixFacts
  <2>3. /\ DOMAIN tree' = DOMAIN tree \cup Prefixes(place)
        /\ tree'[place] = node
        /\ \A q \in DOMAIN tree : tree[q] # Null => tree'[q] = tree[q]
    <3> HIDE DEF place
    <3> QED BY <1>2, <2>1, <2>2 DEF Holds
  <2>4. AcceptedIsThere'
    <3>1. accepted' \subseteq Paths \X Nodes
      BY <1>2, <2>1 DEF IInv, AcceptedIsThere
    <3>2. ASSUME NEW p \in accepted
          PROVE  /\ Prefixes(Steps(p[1])) \subseteq DOMAIN tree'
                 /\ tree'[Steps(p[1])] = p[2]
      <4>1. p[1] \in Paths /\ p[2] # Null
        BY NamesAssumption DEF IInv, AcceptedIsThere
      <4>2. Steps(p[1]) \in DOMAIN tree /\ tree[Steps(p[1])] = p[2]
        BY <4>1, PrefixFacts DEF IInv, AcceptedIsThere
      <4> QED BY <2>3, <4>1, <4>2 DEF IInv, AcceptedIsThere
    <3>3. Prefixes(place) \subseteq DOMAIN tree' /\ tree'[place] = node
      BY <2>3
    <3> QED BY <2>1, <3>1, <3>2, <3>3 DEF AcceptedIsThere
  <2>5. ThereIsAccepted'
    <3> SUFFICES ASSUME NEW q \in DOMAIN tree', tree'[q] # Null
                 PROVE  \E p \in accepted' : Steps(p[1]) = q /\ p[2] = tree'[q]
      BY DEF ThereIsAccepted
    <3>1. CASE q = place
      <4>1. <<path, node>> \in accepted' /\ tree'[q] = node
        BY <2>1, <2>3, <3>1
      <4> QED BY <3>1, <4>1
    <3>2. CASE q # place
      <4>1. tree'[q] = IF q \in DOMAIN tree THEN tree[q] ELSE Null
        <5> HIDE DEF place
        <5> QED BY <2>1, <2>3, <3>2
      <4>2. q \in DOMAIN tree /\ tree'[q] = tree[q]
        BY <3>2, <4>1
      <4> QED BY <2>1, <4>2 DEF IInv, ThereIsAccepted
    <3> QED BY <3>1, <3>2
  <2>6. Holds(place)'
    BY <1>2, <2>2, <2>3 DEF Holds
  <2> QED BY <2>1, <2>3, <2>4, <2>5, <2>6 DEF IInv
<1> QED BY <1>1, <1>2

\* The units construct their objects one after the other, and no more than
\* they have.
Counted == made \in [Units -> Nat] /\ \A u \in Units : made[u] <= Len(Objects[u])

\* Every step keeps the count.
LEMMA Counting == Spec => []Counted
<1>1. Init => Counted
  <2>1. \A u \in Units : Len(Objects[u]) \in Nat
    BY ObjectsAssumption, LenProperties
  <2> QED BY <2>1 DEF Init, Counted
<1>2. ASSUME Counted, [Next]_vars PROVE Counted'
  <2>1. CASE UNCHANGED made
    BY <1>2, <2>1 DEF Counted
  <2>2. ASSUME NEW u \in Units, made[u] < Len(Objects[u]),
               made' = [made EXCEPT ![u] = @ + 1]
        PROVE  Counted'
    <3>1. Len(Objects[u]) \in Nat
      BY ObjectsAssumption, LenProperties
    <3> QED BY <1>2, <2>2, <3>1 DEF Counted
  <2> QED BY <1>2, <2>1, <2>2 DEF Next, ConstructNode, ConstructHandler, Constructs, EnterMain,
            Put, FunctionPuts, Run, RunMacro, ForEachAt, RunReturns, RunAll, WalkOn, vars
<1> QED BY <1>1, <1>2, PTL DEF Spec

\* The object a unit constructs next.
LEMMA ObjectFacts ==
  ASSUME NEW u \in Units, NEW i \in 1..Len(Objects[u])
  PROVE  /\ Objects[u][i].path \in Paths
         /\ Objects[u][i].what \in {"node", "handler"}
         /\ Objects[u][i].what = "node" => Objects[u][i].node \in Nodes
<1>1. Objects[u] \in Seq(Object)
  BY ObjectsAssumption
<1>2. Objects[u][i] \in Object
  BY <1>1, ElementOfSeq
<1> QED BY <1>2 DEF Object

\* It is one of the unit's.
LEMMA NextObject ==
  ASSUME Counted, NEW u \in Units, made[u] < Len(Objects[u])
  PROVE  made[u] + 1 \in 1..Len(Objects[u])
<1>1. Len(Objects[u]) \in Nat
  BY ObjectsAssumption, LenProperties
<1> QED BY <1>1 DEF Counted

\* Every step puts one node, or leaves the tree as it is.
LEMMA PutsOrNot ==
  ASSUME Counted, [Next]_vars
  PROVE  \/ \E path \in Paths, node \in Nodes \cup {Null} : put(path, node)
         \/ UNCHANGED <<tree, accepted>>
<1>1. ASSUME NEW u \in Units, ConstructNode(u)
      PROVE  \E path \in Paths, node \in Nodes \cup {Null} : put(path, node)
  <2> DEFINE object == Objects[u][made[u] + 1]
  <2>1. object.path \in Paths /\ object.node \in Nodes /\ put(object.path, object.node)
    BY <1>1, NextObject, ObjectFacts DEF ConstructNode, Constructs
  <2> QED BY <2>1
<1>2. ASSUME NEW path \in Paths, NEW node \in Nodes \cup {Null},
             Put(path, node) \/ FunctionPuts(path, node)
      PROVE  put(path, node)
  BY <1>2 DEF Put, FunctionPuts
<1>3. ASSUME \/ \E u \in Units : ConstructHandler(u)
             \/ EnterMain \/ (\E path \in Paths : Run(path) \/ RunMacro(path))
             \/ (\E path \in Paths, depth \in Depths : ForEachAt(path, depth))
             \/ RunReturns \/ RunAll \/ WalkOn \/ UNCHANGED vars
      PROVE  UNCHANGED <<tree, accepted>>
  BY <1>3 DEF ConstructHandler, EnterMain, Run, RunMacro, ForEachAt, RunReturns, RunAll, WalkOn,
       vars, registry
<1> QED BY <1>1, <1>2, <1>3 DEF Next

\* What is put is there, and nothing else is, in every state.
LEMMA Invariance == Spec => []IInv
<1>1. Init => IInv
  BY DEF Init, IInv, AcceptedIsThere, ThereIsAccepted
<1>2. ASSUME Counted, IInv, [Next]_vars PROVE IInv'
  <2>1. CASE \E path \in Paths, node \in Nodes \cup {Null} : put(path, node)
    BY <1>2, <2>1, PutKeeps
  <2>2. CASE UNCHANGED <<tree, accepted>>
    BY <1>2, <2>2 DEF IInv, AcceptedIsThere, ThereIsAccepted
  <2> QED BY <1>2, <2>1, <2>2, PutsOrNot
<1> QED BY <1>1, <1>2, Counting, PTL DEF Spec

\* A node that was put without an error is what register::get finds at its
\* path ever after.
THEOREM PutStays == Spec => []PutIsFound
<1>1. ASSUME IInv PROVE PutIsFound
  <2> SUFFICES ASSUME NEW p \in accepted PROVE get(p[1]) = p[2]
    BY DEF PutIsFound
  <2>1. p[1] \in Paths /\ tree[Steps(p[1])] = p[2]
    BY <1>1 DEF IInv, AcceptedIsThere
  <2>2. Steps(p[1]) \in DOMAIN tree
    BY <1>1, <2>1, PrefixFacts DEF IInv, AcceptedIsThere
  <2> QED BY <2>1, <2>2, DescentEnds DEF get
<1> QED BY <1>1, Invariance, PTL

\* A place of the register never changes or loses its node and never
\* disappears: put_impl takes the first and refuses the others.
THEOREM FirstWins == Spec => FirstPutWins
<1>1. ASSUME Counted, IInv, [Next]_vars
      PROVE  [/\ DOMAIN tree \subseteq DOMAIN tree'
              /\ \A q \in DOMAIN tree : tree[q] # Null => tree'[q] = tree[q]]_vars
  <2>1. CASE \E path \in Paths, node \in Nodes \cup {Null} : put(path, node)
    BY <1>1, <2>1, PutKeeps
  <2>2. CASE UNCHANGED <<tree, accepted>>
    BY <2>2
  <2> QED BY <1>1, <2>1, <2>2, PutsOrNot
<1> QED BY <1>1, Invariance, Counting, PTL DEF Spec, FirstPutWins

-----------------------------------------------------------------------------
(* Handlers: the usage that functions.hpp shows, where a unit defines a     *)
(* node and then its handlers.                                              *)

Documented ==
  \A u \in Units : \A i \in 1..Len(Objects[u]) :
    Objects[u][i].what = "handler" =>
      \E j \in 1..i-1 : /\ Objects[u][j].what = "node"
                        /\ Objects[u][j].path = Objects[u][i].path

\* A node that a unit has constructed, or another before it, is in its place.
ConstructedIsThere ==
  \A u \in Units : \A i \in 1..made[u] :
    Objects[u][i].what = "node" => Holds(Steps(Objects[u][i].path))

HInv == ConstructedIsThere /\ HandlersGetTheirNode /\ InitCompletes

\* What a handler gets when its unit has constructed a node for its path: the
\* node that was put there.
LEMMA HandlerFinds ==
  ASSUME Documented, Counted, IInv, ConstructedIsThere,
         NEW u \in Units, Constructs(u, "handler")
  PROVE  LET path == Objects[u][made[u] + 1].path
         IN  /\ get(path) # Null
             /\ \E p \in accepted : Steps(p[1]) = Steps(path) /\ p[2] = get(path)
<1> DEFINE path == Objects[u][made[u] + 1].path
<1>1. made[u] + 1 \in 1..Len(Objects[u]) /\ Objects[u][made[u] + 1].what = "handler"
  BY NextObject DEF Constructs
<1>2. PICK j \in 1..made[u] : Objects[u][j].what = "node" /\ Objects[u][j].path = path
  <2>1. PICK j \in 1..(made[u] + 1) - 1 :
          Objects[u][j].what = "node" /\ Objects[u][j].path = path
    BY <1>1 DEF Documented
  <2>2. (made[u] + 1) - 1 = made[u]
    BY DEF Counted
  <2> QED BY <2>1, <2>2
<1>3. path \in Paths
  BY <1>1, ObjectFacts
<1>4. Steps(path) \in DOMAIN tree /\ tree[Steps(path)] # Null
  BY <1>2 DEF ConstructedIsThere, Holds
<1>5. get(path) = tree[Steps(path)]
  BY <1>3, <1>4, DescentEnds DEF get
<1>6. \E p \in accepted : Steps(p[1]) = Steps(path) /\ p[2] = tree[Steps(path)]
  BY <1>4 DEF IInv, ThereIsAccepted
<1> QED BY <1>4, <1>5, <1>6

\* put leaves every constructed node in its place, and what is accepted.
LEMMA PutsKeepHandled ==
  ASSUME IInv, HInv, NEW path \in Paths, NEW node \in Nodes \cup {Null},
         put(path, node), handled' = handled, life' # "terminated"
  PROVE  /\ \A u \in Units : \A i \in 1..made[u] :
              Objects[u][i].what = "node" => Holds(Steps(Objects[u][i].path))'
         /\ HandlersGetTheirNode' /\ InitCompletes'
<1>1. /\ DOMAIN tree \subseteq DOMAIN tree'
      /\ \A q \in DOMAIN tree : tree[q] # Null => tree'[q] = tree[q]
      /\ accepted \subseteq accepted'
  BY PutKeeps
<1>2. ASSUME NEW q, Holds(q) PROVE Holds(q)'
  BY <1>1, <1>2 DEF Holds
<1>3. HandlersGetTheirNode' /\ InitCompletes'
  BY <1>1 DEF HInv, HandlersGetTheirNode, InitCompletes
<1> QED BY <1>2, <1>3 DEF HInv, ConstructedIsThere

\* Every constructed node is there and every handler has got its own.
LEMMA HandlersInvariance == Documented /\ Spec => []HInv
<1>1. Init => HInv
  BY DEF Init, HInv, ConstructedIsThere, HandlersGetTheirNode, InitCompletes
<1>2. ASSUME Documented, Counted, IInv, HInv, [Next]_vars PROVE HInv'
  <2>1. ASSUME NEW u \in Units, ConstructNode(u) PROVE HInv'
    <3>0. PICK n : n = made[u] + 1
      OBVIOUS
    <3> DEFINE object == Objects[u][n]
    <3>1. n \in 1..Len(Objects[u]) /\ object.what = "node"
      BY <1>2, <2>1, <3>0, NextObject DEF ConstructNode, Constructs
    <3>2. /\ object.path \in Paths /\ object.node \in Nodes /\ object.node # Null
          /\ put(object.path, object.node)
      BY <2>1, <3>0, <3>1, ObjectFacts, NamesAssumption DEF ConstructNode
    <3>3. handled' = handled /\ life' # "terminated"
      BY <2>1 DEF ConstructNode, Constructs
    <3>4. HandlersGetTheirNode' /\ InitCompletes'
      BY <1>2, <3>2, <3>3, PutsKeepHandled
    <3>5. ASSUME NEW v \in Units, NEW i \in 1..made[v], Objects[v][i].what = "node"
          PROVE  Holds(Steps(Objects[v][i].path))'
      BY <1>2, <3>2, <3>3, <3>5, PutsKeepHandled
    <3>6. Holds(Steps(object.path))'
      BY <1>2, <3>2, PutKeeps
    <3>7. ASSUME NEW v \in Units, NEW i \in 1..made'[v]
          PROVE  i \in 1..made[v] \/ (v = u /\ i = n)
      BY <1>2, <2>1, <3>0 DEF ConstructNode, Constructs, Counted
    <3>8. ConstructedIsThere'
      BY <3>5, <3>6, <3>7 DEF ConstructedIsThere
    <3> QED BY <3>4, <3>8 DEF HInv
  <2>2. ASSUME NEW u \in Units, ConstructHandler(u) PROVE HInv'
    <3> DEFINE path == Objects[u][made[u] + 1].path
    <3>1. made[u] + 1 \in 1..Len(Objects[u]) /\ Objects[u][made[u] + 1].what = "handler"
      BY <1>2, <2>2, NextObject DEF ConstructHandler, Constructs
    <3>2. /\ get(path) # Null
          /\ \E p \in accepted : Steps(p[1]) = Steps(path) /\ p[2] = get(path)
      BY <1>2, <2>2, HandlerFinds DEF HInv, ConstructHandler
    <3>3. /\ handled' = handled \cup {<<path, get(path)>>}
          /\ UNCHANGED <<tree, accepted, life>>
      BY <2>2, <3>2 DEF ConstructHandler
    <3>4. HandlersGetTheirNode' /\ InitCompletes'
      BY <1>2, <3>2, <3>3 DEF HInv, HandlersGetTheirNode, InitCompletes
    <3>5. ASSUME NEW v \in Units, NEW i \in 1..made'[v]
          PROVE  i \in 1..made[v] \/ (v = u /\ i = made[u] + 1)
      BY <1>2, <2>2 DEF ConstructHandler, Constructs, Counted
    <3>6. ConstructedIsThere'
      BY <1>2, <3>1, <3>3, <3>5 DEF HInv, ConstructedIsThere, Holds
    <3> QED BY <3>4, <3>6 DEF HInv
  <2>3. ASSUME NEW path \in Paths, NEW node \in Nodes \cup {Null},
               Put(path, node) \/ FunctionPuts(path, node)
        PROVE  HInv'
    <3>1. put(path, node) /\ UNCHANGED <<handled, made, life>>
      BY <2>3 DEF Put, FunctionPuts
    <3>2. life' # "terminated"
      BY <1>2, <3>1 DEF HInv, InitCompletes
    <3> QED BY <1>2, <3>1, <3>2, PutsKeepHandled DEF HInv, ConstructedIsThere
  <2>4. ASSUME \/ EnterMain \/ (\E path \in Paths : Run(path) \/ RunMacro(path))
               \/ (\E path \in Paths, depth \in Depths : ForEachAt(path, depth))
               \/ RunReturns \/ RunAll \/ WalkOn \/ UNCHANGED vars
        PROVE  HInv'
    <3>1. UNCHANGED <<tree, accepted, made, handled>> /\ (life' = life \/ life' = "main")
      BY <2>4 DEF EnterMain, Run, RunMacro, ForEachAt, RunReturns, RunAll, WalkOn, vars,
           registry
    <3> QED BY <1>2, <3>1 DEF HInv, ConstructedIsThere, Holds, HandlersGetTheirNode,
              InitCompletes
  <2> QED BY <1>2, <2>1, <2>2, <2>3, <2>4 DEF Next
<1>3. CASE Documented
  BY <1>1, <1>2, <1>3, Counting, Invariance, PTL DEF Spec
<1> QED BY <1>3

\* Where every unit defines a node before it handles it, a handler is given
\* the node that was put at its own path, in every order of the units.
THEOREM HandlersRight == Documented /\ Spec => []HandlersGetTheirNode
BY HandlersInvariance, PTL DEF HInv

\* There, fn::get_node never throws before main.  (Where a handler is in another
\* unit than its node it may: then the promise of its comment is broken.)
THEOREM InitRight == Documented /\ Spec => []InitCompletes
BY HandlersInvariance, PTL DEF HInv

-----------------------------------------------------------------------------
(* Places: which lie above which. *)

Places == Seq(Names)

\* The first k steps of a place.
LEMMA FirstSteps ==
  ASSUME NEW q \in Places, NEW k \in 0..Len(q)
  PROVE  /\ SubSeq(q, 1, k) \in Places /\ Len(SubSeq(q, 1, k)) = k
         /\ \A i \in 1..k : SubSeq(q, 1, k)[i] = q[i]
<1>1. Len(q) \in Nat /\ \A i \in 1..Len(q) : q[i] \in Names
  BY ElementOfSeq, LenProperties DEF Places
<1>2. \A i \in 1..k : q[i] \in Names
  BY <1>1
<1>3. /\ SubSeq(q, 1, k) \in Seq(Names)
      /\ Len(SubSeq(q, 1, k)) = IF 1 <= k THEN k - 1 + 1 ELSE 0
      /\ \A i \in 1..k - 1 + 1 : SubSeq(q, 1, k)[i] = q[1 + i - 1]
  BY <1>2, SubSeqProperties
<1> QED BY <1>1, <1>3 DEF Places

\* One place is another or above it, step by step.
Over(p, q) == Len(p) <= Len(q) /\ \A i \in 1..Len(p) : p[i] = q[i]

LEMMA OverIsPrefix ==
  ASSUME NEW p \in Places, NEW q \in Places
  PROVE  /\ IsPrefix(p, q) <=> Over(p, q)
         /\ p \in Prefixes(q) <=> Over(p, q)
<1>1. Len(p) \in Nat /\ Len(q) \in Nat
  BY LenProperties DEF Places
<1>2. SubSeq(p, 1, Len(p)) = p
  BY SubSeqFull DEF Places
<1>3. ASSUME Over(p, q) PROVE SubSeq(q, 1, Len(p)) = p /\ Len(p) \in 0..Len(q)
  <2>1. Len(p) \in 0..Len(q)
    BY <1>1, <1>3 DEF Over
  <2>2. /\ SubSeq(q, 1, Len(p)) \in Places /\ Len(SubSeq(q, 1, Len(p))) = Len(p)
        /\ \A i \in 1..Len(p) : SubSeq(q, 1, Len(p))[i] = p[i]
    BY <1>3, <2>1, FirstSteps DEF Over
  <2> QED BY <2>1, <2>2, SeqEqual DEF Places
<1>4. ASSUME NEW k \in 0..Len(q), p = SubSeq(q, 1, k) PROVE Over(p, q)
  BY <1>1, <1>4, FirstSteps DEF Over
<1>5. IsPrefix(p, q) => Over(p, q)
  <2>1. IsPrefix(p, q) => Len(p) \in 0..Len(q) /\ p = SubSeq(q, 1, Len(p))
    BY <1>1, <1>2 DEF IsPrefix
  <2> QED BY <2>1, <1>4
<1>6. Over(p, q) => IsPrefix(p, q)
  BY <1>2, <1>3 DEF IsPrefix, Over
<1> QED BY <1>3, <1>4, <1>5, <1>6 DEF Prefixes

LEMMA PrefixesArePlaces ==
  ASSUME NEW q \in Places
  PROVE  Prefixes(q) \subseteq Places
BY FirstSteps DEF Prefixes

\* The place above.
LEMMA FrontIsOver ==
  ASSUME NEW q \in Places, q # << >>
  PROVE  /\ Front(q) \in Places /\ Len(Front(q)) = Len(q) - 1 /\ Len(q) \in Nat \ {0}
         /\ Front(q) # q
         /\ \A i \in 1..Len(q) - 1 : Front(q)[i] = q[i]
<1>1. Len(q) \in Nat \ {0}
  BY EmptySeq DEF Places
<1>2. Len(q) - 1 \in 0..Len(q)
  BY <1>1
<1>3. /\ Front(q) \in Places /\ Len(Front(q)) = Len(q) - 1
      /\ \A i \in 1..Len(q) - 1 : Front(q)[i] = q[i]
  BY <1>2, FirstSteps DEF Front
<1>4. Len(Front(q)) # Len(q)
  BY <1>1, <1>3
<1> QED BY <1>1, <1>3, <1>4

\* Over is an order, ...
LEMMA OverOrder ==
  ASSUME NEW p \in Places, NEW q \in Places, NEW r \in Places
  PROVE  /\ Over(p, p)
         /\ Over(p, q) /\ Over(q, r) => Over(p, r)
         /\ Over(p, q) /\ Over(q, p) => p = q
         /\ Over(p, q) /\ Len(p) = Len(q) => p = q
<1>1. Len(p) \in Nat /\ Len(q) \in Nat /\ Len(r) \in Nat
  BY LenProperties DEF Places
<1>2. Over(p, q) /\ Len(p) = Len(q) => p = q
  BY <1>1, SeqEqual DEF Over, Places
<1> QED BY <1>1, <1>2 DEF Over

\* ... in which what is over a place is in one line, ...
LEMMA OverLine ==
  ASSUME NEW p \in Places, NEW q \in Places, NEW r \in Places, Over(p, r), Over(q, r)
  PROVE  Len(p) <= Len(q) => Over(p, q)
<1>1. Len(p) \in Nat /\ Len(q) \in Nat /\ Len(r) \in Nat
  BY LenProperties DEF Places
<1> QED BY <1>1 DEF Over

\* ... and what is over a place is over the one above it, or it is itself.
LEMMA OverFront ==
  ASSUME NEW p \in Places, NEW q \in Places, q # << >>
  PROVE  /\ Over(p, q) => p = q \/ Over(p, Front(q))
         /\ Over(p, Front(q)) => Over(p, q) /\ p # q
<1>1. Len(p) \in Nat /\ Len(q) \in Nat
  BY LenProperties DEF Places
<1>2. ASSUME Over(p, q), p # q PROVE Over(p, Front(q))
  <2>1. Len(p) # Len(q)
    BY <1>2, OverOrder
  <2> QED BY <1>1, <1>2, <2>1, FrontIsOver DEF Over
<1> QED BY <1>1, <1>2, FrontIsOver DEF Over

\* Towards a place below there is one step to take first.
LEMMA StepTowards ==
  ASSUME NEW p \in Places, NEW q \in Places, Over(p, q), p # q
  PROVE  \E r \in Places : r # << >> /\ Front(r) = p /\ Over(r, q)
<1> DEFINE k == Len(p) + 1
           r == SubSeq(q, 1, k)
<1>1. Len(p) \in Nat /\ Len(q) \in Nat
  BY LenProperties DEF Places
<1>2. Len(p) # Len(q)
  BY OverOrder
<1>3. k \in 0..Len(q) /\ k - 1 = Len(p) /\ k # 0
  BY <1>1, <1>2 DEF Over
<1>4. r \in Places /\ Len(r) = k /\ \A i \in 1..k : r[i] = q[i]
  <2> HIDE DEF k
  <2> QED BY <1>3, FirstSteps
<1>5. r # << >>
  BY <1>3, <1>4, EmptySeq DEF Places
<1>6. Front(r) \in Places /\ Len(Front(r)) = Len(p) /\ \A i \in 1..Len(p) : Front(r)[i] = r[i]
  <2> HIDE DEF k, r
  <2> QED BY <1>3, <1>4, <1>5, FrontIsOver
<1>7. \A i \in 1..Len(p) : r[i] = p[i]
  <2> HIDE DEF r
  <2> QED BY <1>1, <1>4 DEF Over
<1>8. Front(r) = p
  <2> HIDE DEF r, k
  <2> QED BY <1>6, <1>7, SeqEqual DEF Places
<1>9. Over(r, q)
  <2> HIDE DEF r
  <2> QED BY <1>3, <1>4 DEF Over
<1> HIDE DEF r
<1> QED BY <1>4, <1>5, <1>8, <1>9
-----------------------------------------------------------------------------
(* The order of the children. *)

\* The places that exist are in the order, each once, with those above them.
TreeOK ==
  /\ DOMAIN tree \subseteq Places /\ << >> \in DOMAIN tree
  /\ \A q \in DOMAIN tree : Prefixes(q) \subseteq DOMAIN tree
  /\ order \in Seq(Places) /\ ToSet(order) = DOMAIN tree /\ IsInjective(order)

\* A sibling that comes after another.
After(p, q) ==
  /\ p \in Places /\ q \in Places /\ p # << >> /\ q # << >> /\ Front(p) = Front(q)
  /\ \E i, j \in DOMAIN order : i < j /\ order[i] = p /\ order[j] = q

LEMMA OrderFacts ==
  ASSUME TreeOK
  PROVE  /\ Len(order) \in Nat /\ DOMAIN order = 1..Len(order)
         /\ \A i \in DOMAIN order : order[i] \in DOMAIN tree
         /\ \A q \in DOMAIN tree : \E i \in DOMAIN order : order[i] = q
         /\ \A i, j \in DOMAIN order : order[i] = order[j] => i = j
<1>1. Len(order) \in Nat /\ DOMAIN order = 1..Len(order)
  BY LenProperties DEF TreeOK
<1> QED BY <1>1 DEF TreeOK, ToSet, IsInjective

\* Places over one that exists exist.
LEMMA OverExists ==
  ASSUME TreeOK, NEW q \in DOMAIN tree, NEW p \in Places, Over(p, q)
  PROVE  p \in DOMAIN tree
<1>1. p \in Prefixes(q)
  BY OverIsPrefix DEF TreeOK
<1> QED BY <1>1 DEF TreeOK

\* Siblings are of one length, so that neither is over the other, ...
LEMMA AfterApart ==
  ASSUME TreeOK, NEW p, NEW q, After(p, q)
  PROVE  /\ p \in Places /\ q \in Places /\ p # q /\ Len(p) = Len(q)
         /\ p # << >> /\ q # << >> /\ Front(p) = Front(q)
         /\ ~ (\E r \in Places : Over(p, r) /\ Over(q, r))
<1>1. p \in Places /\ q \in Places /\ p # << >> /\ q # << >> /\ Front(p) = Front(q)
  BY DEF After
<1>2. p # q
  BY OrderFacts DEF After
<1>3. Len(p) = Len(q) /\ Len(p) \in Nat
  <2>1. Len(Front(p)) = Len(p) - 1 /\ Len(Front(q)) = Len(q) - 1
    BY <1>1, FrontIsOver
  <2>2. Len(p) \in Nat /\ Len(q) \in Nat
    BY <1>1, LenProperties DEF Places
  <2> QED BY <1>1, <2>1, <2>2
<1>4. ASSUME NEW r \in Places, Over(p, r), Over(q, r) PROVE FALSE
  <2>1. Over(p, q)
    BY <1>1, <1>3, <1>4, OverLine
  <2> QED BY <1>1, <1>2, <1>3, <2>1, OverOrder
<1> QED BY <1>1, <1>2, <1>3, <1>4

\* ... and they come one after the other.
LEMMA AfterAfter ==
  ASSUME TreeOK, NEW p, NEW q, NEW r, After(p, q), After(q, r)
  PROVE  After(p, r)
<1>1. PICK i \in DOMAIN order, j \in DOMAIN order : i < j /\ order[i] = p /\ order[j] = q
  BY DEF After
<1>2. PICK k \in DOMAIN order, m \in DOMAIN order : k < m /\ order[k] = q /\ order[m] = r
  BY DEF After
<1>3. j = k
  BY <1>1, <1>2, OrderFacts
<1>4. i < m
  BY <1>1, <1>2, <1>3, OrderFacts
<1> QED BY <1>1, <1>2, <1>4 DEF After

\* The first of some positions.
LEMMA FirstOf ==
  ASSUME NEW S \in SUBSET Nat, S # {}
  PROVE  Min(S) \in S /\ \A y \in S : Min(S) <= y
<1>1. PICK x \in S : \A y \in S : ~ (<<y, x>> \in Less)
  BY LessWellFounded, WFMin, Zenon
<1>2. \A y \in S : x <= y
  <2> TAKE y \in S
  <2>1. ~ (y < x)
    BY <1>1 DEF Less
  <2> QED BY <2>1
<1> QED BY <1>2 DEF Min

\* The first child of a place.
LEMMA FirstChild ==
  ASSUME TreeOK, NEW c, NEW C, C = {i \in DOMAIN order : IsChild(order[i], c)}, C # {},
         NEW n, n = order[Min(C)]
  PROVE  /\ n \in DOMAIN tree /\ n \in Places /\ n # << >> /\ Front(n) = c
         /\ \A q \in DOMAIN tree : q # << >> /\ Front(q) = c => q = n \/ After(n, q)
<1>1. C \in SUBSET Nat
  BY OrderFacts
<1>2. Min(C) \in C /\ \A y \in C : Min(C) <= y
  BY <1>1, FirstOf
<1>3. n \in DOMAIN tree /\ n \in Places /\ n # << >> /\ Front(n) = c
  BY <1>2, OrderFacts DEF IsChild, TreeOK
<1>4. ASSUME NEW q \in DOMAIN tree, q # << >>, Front(q) = c, q # n PROVE After(n, q)
  <2>1. PICK j \in DOMAIN order : order[j] = q
    BY OrderFacts
  <2>2. j \in C
    BY <1>4, <2>1 DEF IsChild
  <2>3. Min(C) \in DOMAIN order /\ Min(C) <= j /\ Min(C) # j
    BY <1>2, <1>4, <2>1, <2>2
  <2>4. Min(C) < j
    BY <2>3, OrderFacts
  <2> QED BY <1>3, <1>4, <2>1, <2>3, <2>4 DEF After, TreeOK
<1> QED BY <1>3, <1>4

\* The next sibling of a place.
LEMMA LaterIsAfter ==
  ASSUME TreeOK, NEW p \in DOMAIN tree, p # << >>
  PROVE  \A i \in DOMAIN order : i \in Later(p) <=> After(p, order[i])
<1> TAKE i \in DOMAIN order
<1>1. order[i] \in Places /\ p \in Places /\ DOMAIN order = 1..Len(order) /\ Len(order) \in Nat
  BY OrderFacts DEF TreeOK
<1>2. ASSUME i \in Later(p) PROVE After(p, order[i])
  <2>1. PICK j \in 1..i - 1 : order[j] = p
    BY <1>2 DEF Later
  <2>2. j \in DOMAIN order /\ j < i
    BY <1>1
  <2> QED BY <1>1, <1>2, <2>1, <2>2 DEF Later, IsChild, After
<1>3. ASSUME After(p, order[i]) PROVE i \in Later(p)
  <2>1. PICK k \in DOMAIN order, m \in DOMAIN order : k < m /\ order[k] = p /\ order[m] = order[i]
    BY <1>3 DEF After
  <2>2. m = i
    BY <2>1, OrderFacts
  <2>3. k \in 1..i - 1
    BY <1>1, <2>1, <2>2
  <2> QED BY <1>3, <2>1, <2>3 DEF Later, IsChild, After
<1> QED BY <1>2, <1>3

LEMMA NextSibling ==
  ASSUME TreeOK, NEW p \in DOMAIN tree, p # << >>, Later(p) # {}, NEW n, n = order[Min(Later(p))]
  PROVE  /\ n \in DOMAIN tree /\ After(p, n)
         /\ \A q : After(p, q) => q = n \/ After(n, q)
<1>1. Later(p) \in SUBSET Nat /\ Later(p) \subseteq DOMAIN order
  BY OrderFacts DEF Later
<1>2. Min(Later(p)) \in Later(p) /\ \A y \in Later(p) : Min(Later(p)) <= y
  BY <1>1, FirstOf
<1>3. n \in DOMAIN tree /\ After(p, n)
  BY <1>1, <1>2, OrderFacts, LaterIsAfter
<1>4. ASSUME NEW q, After(p, q), q # n PROVE After(n, q)
  <2>1. PICK j \in DOMAIN order : order[j] = q
    BY <1>4 DEF After
  <2>2. j \in Later(p)
    BY <1>4, <2>1, LaterIsAfter
  <2>3. Min(Later(p)) \in DOMAIN order /\ Min(Later(p)) <= j /\ Min(Later(p)) # j
    BY <1>1, <1>2, <1>4, <2>1, <2>2
  <2>4. Min(Later(p)) < j
    BY <2>3, OrderFacts
  <2> QED BY <1>3, <1>4, <2>1, <2>3, <2>4 DEF After
<1> QED BY <1>3, <1>4
-----------------------------------------------------------------------------
(* What a traversal has before it. *)

\* A place below the cursor, or below a later sibling of the cursor or of a
\* place above the cursor.
Ahead(c, q) ==
  \/ Over(c, q) /\ c # q
  \/ \E x, y \in Places : Over(x, c) /\ Over(y, q) /\ After(x, y)

LEMMA NotAheadOfItself ==
  ASSUME TreeOK, NEW q \in Places
  PROVE  ~ Ahead(q, q)
BY AfterApart DEF Ahead

\* What is below a place ahead is ahead.
LEMMA AheadBelow ==
  ASSUME NEW c \in Places, NEW p \in Places, NEW q \in Places, Ahead(c, p), Over(p, q)
  PROVE  Ahead(c, q)
<1>1. CASE Over(c, p) /\ c # p
  BY <1>1, OverOrder DEF Ahead
<1>2. ASSUME NEW x \in Places, NEW y \in Places, Over(x, c), Over(y, p), After(x, y)
      PROVE  Ahead(c, q)
  BY <1>2, OverOrder DEF Ahead
<1> QED BY <1>1, <1>2 DEF Ahead

\* From a place to its first child.
LEMMA AheadDown ==
  ASSUME TreeOK, NEW c \in DOMAIN tree, NEW C, C = {i \in DOMAIN order : IsChild(order[i], c)},
         C # {}, NEW n, n = order[Min(C)], NEW q \in DOMAIN tree
  PROVE  /\ Ahead(c, n)
         /\ Ahead(n, q) => Ahead(c, q)
         /\ Ahead(c, q) => q = n \/ Ahead(n, q)
<1>1. /\ n \in DOMAIN tree /\ n \in Places /\ n # << >> /\ Front(n) = c
      /\ \A r \in DOMAIN tree : r # << >> /\ Front(r) = c => r = n \/ After(n, r)
  BY FirstChild
<1>2. c \in Places /\ q \in Places
  BY DEF TreeOK
<1>3. Over(c, n) /\ c # n
  BY <1>1, <1>2, OverFront, OverOrder
<1>4. ASSUME Ahead(n, q) PROVE Ahead(c, q)
  <2>1. CASE Over(n, q) /\ n # q
    BY <1>1, <1>2, <1>3, <2>1, OverOrder DEF Ahead
  <2>2. ASSUME NEW x \in Places, NEW y \in Places, Over(x, n), Over(y, q), After(x, y)
        PROVE  Ahead(c, q)
    <3>1. CASE x = n
      <4>1. y # << >> /\ Front(y) = c
        BY <1>1, <2>2, <3>1, AfterApart
      <4>2. Over(c, y) /\ c # y
        BY <1>2, <4>1, OverFront, OverOrder
      <4> QED BY <1>2, <2>2, <4>2, OverOrder DEF Ahead
    <3>2. CASE x # n
      <4>1. Over(x, c)
        BY <1>1, <2>2, <3>2, OverFront
      <4> QED BY <2>2, <4>1 DEF Ahead
    <3> QED BY <3>1, <3>2
  <2> QED BY <1>4, <2>1, <2>2 DEF Ahead
<1>5. ASSUME Ahead(c, q), q # n PROVE Ahead(n, q)
  <2>1. CASE Over(c, q) /\ c # q
    <3>1. PICK r \in Places : r # << >> /\ Front(r) = c /\ Over(r, q)
      BY <1>2, <2>1, StepTowards
    <3>2. r = n \/ After(n, r)
      BY <1>1, <3>1, OverExists
    <3>3. Over(n, n)
      BY <1>1, OverOrder
    <3> QED BY <1>1, <1>5, <3>1, <3>2, <3>3 DEF Ahead
  <2>2. ASSUME NEW x \in Places, NEW y \in Places, Over(x, c), Over(y, q), After(x, y)
        PROVE  Ahead(n, q)
    <3>1. Over(x, n)
      BY <1>1, <1>2, <1>3, <2>2, OverOrder
    <3> QED BY <2>2, <3>1 DEF Ahead
  <2> QED BY <1>5, <2>1, <2>2 DEF Ahead
<1> QED BY <1>3, <1>4, <1>5 DEF Ahead

\* From a place to the next sibling of a place p over it.
LEMMA AheadOn ==
  ASSUME TreeOK, NEW c \in DOMAIN tree, NEW p \in DOMAIN tree, p # << >>, Over(p, c),
         Later(p) # {}, NEW n, n = order[Min(Later(p))], NEW q \in DOMAIN tree
  PROVE  /\ Ahead(c, n)
         /\ Ahead(n, q) => Ahead(c, q)
<1>1. n \in DOMAIN tree /\ After(p, n)
  BY NextSibling
<1>2. c \in Places /\ q \in Places /\ p \in Places /\ n \in Places
  BY <1>1 DEF TreeOK
<1>3. Over(n, n)
  BY <1>2, OverOrder
<1>4. ASSUME Ahead(n, q) PROVE Ahead(c, q)
  <2>1. CASE Over(n, q) /\ n # q
    BY <1>1, <1>2, <2>1 DEF Ahead
  <2>2. ASSUME NEW x \in Places, NEW y \in Places, Over(x, n), Over(y, q), After(x, y)
        PROVE  Ahead(c, q)
    <3>1. CASE x = n
      <4>1. After(p, y)
        BY <1>1, <2>2, <3>1, AfterAfter
      <4> QED BY <1>2, <2>2, <4>1 DEF Ahead
    <3>2. CASE x # n
      <4>1. n # << >> /\ Front(n) = Front(p)
        BY <1>1, AfterApart
      <4>2. Over(x, p)
        BY <1>2, <2>2, <3>2, <4>1, OverFront
      <4>3. Over(x, c)
        BY <1>2, <2>2, <4>2, OverOrder
      <4> QED BY <2>2, <4>3 DEF Ahead
    <3> QED BY <3>1, <3>2
  <2> QED BY <1>4, <2>1, <2>2 DEF Ahead
<1> QED BY <1>1, <1>2, <1>3, <1>4 DEF Ahead

\* Nothing is passed over when p is the lowest to have a later sibling over q.
LEMMA NothingBetween ==
  ASSUME TreeOK, NEW c \in DOMAIN tree, NEW p \in DOMAIN tree, p # << >>, Over(p, c),
         Later(p) # {}, NEW n, n = order[Min(Later(p))], NEW q \in DOMAIN tree,
         Ahead(c, q), ~ Over(c, q),
         \A x, y \in Places : Over(x, c) /\ Over(y, q) /\ After(x, y) => Over(x, p)
  PROVE  q = n \/ Ahead(n, q)
<1>1. n \in DOMAIN tree /\ After(p, n) /\ \A y : After(p, y) => y = n \/ After(n, y)
  BY NextSibling
<1>2. c \in Places /\ q \in Places /\ p \in Places /\ n \in Places
  BY <1>1 DEF TreeOK
<1>3. PICK x \in Places, y \in Places : Over(x, c) /\ Over(y, q) /\ After(x, y)
  BY DEF Ahead
<1>4. Over(x, p)
  BY <1>3
<1>5. CASE x = p
  <2>1. y = n \/ After(n, y)
    BY <1>1, <1>3, <1>5
  <2>2. Over(n, n)
    BY <1>2, OverOrder
  <2> QED BY <1>2, <1>3, <2>1, <2>2 DEF Ahead
<1>6. CASE x # p
  <2>1. n # << >> /\ Front(n) = Front(p) /\ p # << >>
    BY <1>1, AfterApart
  <2>2. Over(x, Front(n))
    BY <1>2, <1>4, <1>6, <2>1, OverFront
  <2>3. Over(x, n)
    BY <1>2, <2>1, <2>2, OverFront
  <2> QED BY <1>3, <2>3 DEF Ahead
<1> QED BY <1>5, <1>6
-----------------------------------------------------------------------------
(* A step of a traversal. *)

\* The places that a traversal goes to.
InBounds(q) ==
  /\ q \in DOMAIN tree /\ Over(walk.base, q)
  /\ walk.depth # -1 => Len(q) <= Len(walk.base) + walk.depth

WalkType ==
  /\ walk.base \in DOMAIN tree /\ walk.depth \in Nat \cup {-1} /\ InBounds(cursor)

\* To n there is nothing between, and nothing before it is met again.
IsNext(n) ==
  /\ InBounds(n) /\ Ahead(cursor, n)
  /\ \A q \in DOMAIN tree : Ahead(n, q) => Ahead(cursor, q)
  /\ \A q \in DOMAIN tree : InBounds(q) /\ Ahead(cursor, q) => q = n \/ Ahead(n, q)

LEMMA WalkPlaces ==
  ASSUME TreeOK, WalkType
  PROVE  /\ walk.base \in Places /\ cursor \in DOMAIN tree /\ cursor \in Places
         /\ Over(walk.base, cursor)
         /\ Len(walk.base) \in Nat /\ Len(cursor) \in Nat /\ Len(walk.base) <= Len(cursor)
         /\ walk.depth # -1 => walk.depth \in Nat /\ Len(cursor) <= Len(walk.base) + walk.depth
<1>1. /\ walk.base \in Places /\ cursor \in DOMAIN tree /\ cursor \in Places
      /\ Over(walk.base, cursor)
  BY DEF TreeOK, WalkType, InBounds
<1>2. Len(walk.base) \in Nat /\ Len(cursor) \in Nat
  BY <1>1, LenProperties DEF Places
<1> QED BY <1>1, <1>2 DEF WalkType, InBounds, Over

\* Down to the first child.
LEMMA DownIsNext ==
  ASSUME TreeOK, WalkType, Children(cursor) # {}
  PROVE  IsNext(order[Min(Children(cursor))])
<1> DEFINE C == {i \in DOMAIN order : IsChild(order[i], cursor)}
           n == order[Min(C)]
<1>1. Len(cursor) - Len(walk.base) # walk.depth /\ Children(cursor) = C
  BY DEF Children
<1>2. n \in DOMAIN tree /\ n \in Places /\ n # << >> /\ Front(n) = cursor
  <2> HIDE DEF C
  <2>1. C = {i \in DOMAIN order : IsChild(order[i], cursor)} /\ C # {}
    BY <1>1 DEF C
  <2> QED BY <2>1, FirstChild
<1>3. Len(n) = Len(cursor) + 1 /\ Over(walk.base, n)
  <2>1. Len(cursor) = Len(n) - 1 /\ Len(n) \in Nat
    BY <1>2, FrontIsOver
  <2>2. Over(cursor, n)
    BY <1>2, WalkPlaces, OverFront, OverOrder
  <2>3. Over(walk.base, n)
    BY <1>2, <2>2, WalkPlaces, OverOrder
  <2> QED BY <2>1, <2>3
<1>4. InBounds(n)
  <2>1. walk.depth # -1 => Len(n) <= Len(walk.base) + walk.depth
    <3> HIDE DEF n
    <3> QED BY <1>1, <1>3, WalkPlaces
  <2> QED BY <1>2, <1>3, <2>1 DEF InBounds
<1>5. ASSUME NEW q \in DOMAIN tree
      PROVE  /\ Ahead(cursor, n)
             /\ Ahead(n, q) => Ahead(cursor, q)
             /\ Ahead(cursor, q) => q = n \/ Ahead(n, q)
  <2>1. C = {i \in DOMAIN order : IsChild(order[i], cursor)} /\ C # {} /\ cursor \in DOMAIN tree
    BY <1>1, WalkPlaces
  <2>2. n = order[Min(C)]
    OBVIOUS
  <2> HIDE DEF C, n
  <2> QED BY <2>1, <2>2, AheadDown
<1> HIDE DEF n
<1>6. IsNext(n)
  BY <1>2, <1>4, <1>5 DEF IsNext
<1> QED BY <1>1, <1>6 DEF n

\* Where the traversal goes down no more, nothing is below the cursor.
LEMMA NothingBelow ==
  ASSUME TreeOK, WalkType, Children(cursor) = {}, NEW q, InBounds(q), Over(cursor, q)
  PROVE  q = cursor
<1>1. q \in DOMAIN tree /\ q \in Places /\ Len(q) \in Nat /\ Len(cursor) <= Len(q)
  BY LenProperties DEF InBounds, TreeOK, Places, Over
<1>2. CASE Len(cursor) - Len(walk.base) = walk.depth
  <2>1. Len(q) = Len(cursor)
    BY <1>1, <1>2, WalkPlaces DEF InBounds
  <2> QED BY <1>1, <2>1, WalkPlaces, OverOrder
<1>3. CASE Len(cursor) - Len(walk.base) # walk.depth
  <2> SUFFICES ASSUME q # cursor PROVE FALSE
    OBVIOUS
  <2>1. PICK r \in Places : r # << >> /\ Front(r) = cursor /\ Over(r, q)
    BY <1>1, WalkPlaces, StepTowards
  <2>2. PICK i \in DOMAIN order : order[i] = r
    BY <1>1, <2>1, OverExists, OrderFacts
  <2> QED BY <1>3, <2>1, <2>2 DEF Children, IsChild
<1> QED BY <1>2, <1>3

LEMMA OpenFacts ==
  ASSUME TreeOK, WalkType, NEW p
  PROVE  p \in Open <=> /\ p \in Places /\ Over(p, cursor) /\ Over(walk.base, p)
                        /\ p # walk.base /\ Later(p) # {}
<1>1. p \in Prefixes(cursor) => p \in Places
  BY WalkPlaces, PrefixesArePlaces
<1>2. p \in Places => /\ p \in Prefixes(cursor) <=> Over(p, cursor)
                      /\ IsPrefix(walk.base, p) <=> Over(walk.base, p)
  BY WalkPlaces, OverIsPrefix
<1> QED BY <1>1, <1>2 DEF Open, IsStrictPrefix

\* A place over the cursor with a later sibling over what is in bounds is open.
LEMMA IsOpen ==
  ASSUME TreeOK, WalkType, NEW q, InBounds(q), NEW x \in Places, NEW y \in Places,
         Over(x, cursor), Over(y, q), After(x, y)
  PROVE  x \in Open
<1>1. q \in DOMAIN tree /\ q \in Places /\ Over(walk.base, q) /\ Len(x) \in Nat
  BY LenProperties DEF InBounds, TreeOK, Places
<1>2. ~ Over(x, q)
  BY <1>1, AfterApart
<1>3. ~ Over(x, walk.base)
  BY <1>1, <1>2, WalkPlaces, OverOrder
<1>4. Over(walk.base, x) /\ walk.base # x
  <2>1. ~ (Len(x) <= Len(walk.base))
    BY <1>3, WalkPlaces, OverLine
  <2>2. Len(walk.base) <= Len(x)
    BY <1>1, <2>1, WalkPlaces
  <2> QED BY <2>1, <2>2, WalkPlaces, OverLine
<1>5. x \in DOMAIN tree /\ y \in DOMAIN tree /\ x # << >>
  BY <1>1, WalkPlaces, OverExists, AfterApart
<1>6. PICK i \in DOMAIN order : order[i] = y
  BY <1>5, OrderFacts
<1>7. i \in Later(x)
  BY <1>5, <1>6, LaterIsAfter
<1> QED BY <1>4, <1>7, OpenFacts

\* On to the next sibling of the lowest place that has one.
LEMMA OnIsNext ==
  ASSUME TreeOK, WalkType, Children(cursor) = {}, NEW p \in Open,
         \A r \in Open : Len(r) <= Len(p)
  PROVE  IsNext(order[Min(Later(p))])
<1>1. PICK n : n = order[Min(Later(p))]
  OBVIOUS
<1>2. /\ p \in Places /\ Over(p, cursor) /\ Over(walk.base, p) /\ p # walk.base /\ Later(p) # {}
      /\ p \in DOMAIN tree
  BY OpenFacts, WalkPlaces, OverExists
<1>3. p # << >>
  <2>1. Len(walk.base) # Len(p)
    BY <1>2, WalkPlaces, OverOrder
  <2>2. Len(walk.base) <= Len(p) /\ Len(p) \in Nat
    BY <1>2, LenProperties DEF Over, Places
  <2> QED BY <2>1, <2>2, WalkPlaces, EmptySeq
<1>4. n \in DOMAIN tree /\ n \in Places /\ After(p, n)
  BY <1>1, <1>2, <1>3, NextSibling DEF TreeOK
<1>5. InBounds(n)
  <2>1. n # << >> /\ Front(n) = Front(p) /\ Len(n) = Len(p)
    BY <1>4, AfterApart
  <2>2. Over(walk.base, n)
    BY <1>2, <1>3, <1>4, <2>1, WalkPlaces, OverFront
  <2>3. Len(p) <= Len(cursor) /\ Len(p) \in Nat
    BY <1>2, LenProperties DEF Over, Places
  <2>4. walk.depth # -1 => Len(n) <= Len(walk.base) + walk.depth
    BY <2>1, <2>3, WalkPlaces
  <2> QED BY <1>4, <2>2, <2>4 DEF InBounds
<1>6. ASSUME NEW q \in DOMAIN tree
      PROVE  Ahead(cursor, n) /\ (Ahead(n, q) => Ahead(cursor, q))
  BY <1>1, <1>2, <1>3, WalkPlaces, AheadOn
<1>7. ASSUME NEW q \in DOMAIN tree, InBounds(q), Ahead(cursor, q)
      PROVE  q = n \/ Ahead(n, q)
  <2>1. ~ Over(cursor, q)
    <3>1. ~ Ahead(cursor, cursor)
      BY WalkPlaces, NotAheadOfItself
    <3> QED BY <1>7, <3>1, NothingBelow
  <2>2. ASSUME NEW x \in Places, NEW y \in Places, Over(x, cursor), Over(y, q), After(x, y)
        PROVE  Over(x, p)
    <3>1. Len(x) <= Len(p)
      BY <1>7, <2>2, IsOpen
    <3> QED BY <1>2, <2>2, <3>1, WalkPlaces, OverLine
  <2> QED BY <1>1, <1>2, <1>3, <1>7, <2>1, <2>2, WalkPlaces, NothingBetween
<1>8. IsNext(n)
  BY <1>4, <1>5, <1>6, <1>7 DEF IsNext
<1> QED BY <1>1, <1>8

\* Where it ends nothing is ahead.
LEMMA EndIsEnd ==
  ASSUME TreeOK, WalkType, Children(cursor) = {}, Open = {}, NEW q, InBounds(q)
  PROVE  ~ Ahead(cursor, q)
<1>1. ~ (Over(cursor, q) /\ cursor # q)
  BY NothingBelow
<1>2. ~ (\E x, y \in Places : Over(x, cursor) /\ Over(y, q) /\ After(x, y))
  BY IsOpen
<1> QED BY <1>1, <1>2 DEF Ahead

-----------------------------------------------------------------------------
(* Traversals while nodes are put. *)

\* Each place is met once, those above it before it.
Preorder(s) ==
  /\ IsInjective(s)
  /\ \A i, j \in DOMAIN s : IsStrictPrefix(s[i], s[j]) => i < j

LEMMA VisitOneMore ==
  ASSUME NEW s \in Seq(Places), Preorder(s), NEW n \in Places,
         \A q \in ToSet(s) : ~ IsPrefix(n, q)
  PROVE  /\ Append(s, n) \in Seq(Places) /\ Preorder(Append(s, n))
         /\ ToSet(Append(s, n)) = ToSet(s) \cup {n}
<1> DEFINE t == Append(s, n)
<1>1. Len(s) \in Nat /\ DOMAIN s = 1..Len(s)
  BY LenProperties
<1>2. /\ t \in Seq(Places) /\ DOMAIN t = 1..Len(s) + 1 /\ t[Len(s) + 1] = n
      /\ \A i \in 1..Len(s) : t[i] = s[i]
  BY <1>1
<1> HIDE DEF t
<1>3. ToSet(t) = ToSet(s) \cup {n}
  BY <1>1, <1>2 DEF ToSet
<1>4. IsPrefix(n, n)
  BY OverIsPrefix, OverOrder
<1>5. ASSUME NEW i \in DOMAIN t, NEW j \in DOMAIN t
      PROVE  (t[i] = t[j] => i = j) /\ (IsStrictPrefix(t[i], t[j]) => i < j)
  <2>1. CASE i \in 1..Len(s) /\ j \in 1..Len(s)
    BY <1>1, <1>2, <2>1 DEF Preorder, IsInjective
  <2>2. CASE i \in 1..Len(s) /\ j = Len(s) + 1
    <3>1. t[i] # t[j]
      BY <1>1, <1>2, <1>4, <2>2 DEF ToSet
    <3> QED BY <1>1, <2>2, <3>1
  <2>3. CASE i = Len(s) + 1 /\ j \in 1..Len(s)
    <3>1. t[j] \in ToSet(s) /\ t[i] = n
      BY <1>1, <1>2, <2>3 DEF ToSet
    <3> QED BY <1>4, <3>1 DEF IsStrictPrefix
  <2>4. CASE i = Len(s) + 1 /\ j = Len(s) + 1
    BY <2>4 DEF IsStrictPrefix
  <2> QED BY <1>1, <1>2, <2>1, <2>2, <2>3, <2>4
<1>6. Preorder(t)
  BY <1>5 DEF Preorder, IsInjective
<1> QED BY <1>2, <1>3, <1>6 DEF t

\* How far the tree has a place, and what is missing of it.
LEMMA ReachFacts ==
  ASSUME TreeOK, NEW place \in Places
  PROVE  /\ Reach(place) \in 0..Len(place)
         /\ SubSeq(place, 1, Reach(place)) \in DOMAIN tree
         /\ \A k \in 0..Len(place) :
              SubSeq(place, 1, k) \in DOMAIN tree <=> k <= Reach(place)
<1> DEFINE S == {k \in 0..Len(place) : SubSeq(place, 1, k) \in DOMAIN tree}
           T == {m \in Nat : \E k \in S : m = Len(place) - k}
<1>1. Len(place) \in Nat
  BY LenProperties DEF Places
<1>2. 0 \in S
  <2>1. SubSeq(place, 1, 0) = << >> /\ 0 \in 0..Len(place)
    BY <1>1, SubSeqEmpty
  <2>2. SubSeq(place, 1, 0) \in DOMAIN tree
    BY <2>1 DEF TreeOK
  <2> QED BY <2>1, <2>2
<1>3. \E k \in S : \A m \in S : k >= m
  <2>1. T \in SUBSET Nat /\ T # {}
    <3>1. Len(place) - 0 \in T
      BY <1>1, <1>2
    <3> QED BY <3>1
  <2>2. Min(T) \in T /\ \A y \in T : Min(T) <= y
    <3> HIDE DEF T
    <3> QED BY <2>1, FirstOf
  <2>3. PICK k \in S : Min(T) = Len(place) - k
    BY <2>2
  <2>4. ASSUME NEW m \in S PROVE k >= m
    <3>1. Len(place) - m \in T
      BY <1>1
    <3>2. Len(place) - k <= Len(place) - m
      BY <2>2, <2>3, <3>1
    <3> QED BY <1>1, <3>2
  <2> QED BY <2>4
<1>4. Max(S) \in S /\ \A m \in S : Max(S) >= m
  <2> HIDE DEF S
  <2> QED BY <1>3 DEF Max
<1>5. Reach(place) = Max(S)
  BY DEF Reach
<1>6. ASSUME NEW k \in 0..Len(place), k <= Reach(place)
      PROVE  SubSeq(place, 1, k) \in DOMAIN tree
  <2> DEFINE r == SubSeq(place, 1, Reach(place))
             p == SubSeq(place, 1, k)
  <2>1. r \in DOMAIN tree /\ Reach(place) \in 0..Len(place)
    BY <1>4, <1>5
  <2>2. /\ r \in Places /\ Len(r) = Reach(place) /\ \A i \in 1..Reach(place) : r[i] = place[i]
        /\ p \in Places /\ Len(p) = k /\ \A i \in 1..k : p[i] = place[i]
    BY <2>1, FirstSteps
  <2>3. Over(p, r)
    <3> HIDE DEF p, r
    <3> QED BY <1>1, <1>6, <2>1, <2>2 DEF Over
  <2> HIDE DEF p, r
  <2>4. p \in DOMAIN tree
    BY <2>1, <2>2, <2>3, OverExists
  <2> QED BY <2>4 DEF p
<1>7. ASSUME NEW k \in 0..Len(place), SubSeq(place, 1, k) \in DOMAIN tree
      PROVE  k <= Reach(place)
  <2>1. k \in S
    BY <1>7
  <2>2. Max(S) >= k /\ Max(S) \in Nat
    BY <1>4, <2>1
  <2> QED BY <1>5, <2>2
<1>8. Reach(place) \in 0..Len(place) /\ SubSeq(place, 1, Reach(place)) \in DOMAIN tree
  BY <1>4, <1>5
<1> QED BY <1>6, <1>7, <1>8

LEMMA MissingFacts ==
  ASSUME TreeOK, NEW place \in Places
  PROVE  /\ Missing(place) \in Seq(Places)
         /\ Len(Missing(place)) = Len(place) - Reach(place)
         /\ \A i \in 1..Len(place) - Reach(place) :
              /\ Missing(place)[i] \in Prefixes(place) /\ Missing(place)[i] \notin DOMAIN tree
              /\ Len(Missing(place)[i]) = Reach(place) + i
         /\ \A q \in Prefixes(place) : q \notin DOMAIN tree =>
              \E i \in 1..Len(place) - Reach(place) : Missing(place)[i] = q
<1> DEFINE r == Reach(place)
           n == Len(place) - r
           step(i) == SubSeq(place, 1, r + i)
<1>1. Len(place) \in Nat
  BY LenProperties DEF Places
<1>2. r \in 0..Len(place) /\ \A k \in 0..Len(place) : SubSeq(place, 1, k) \in DOMAIN tree <=> k <= r
  BY ReachFacts
<1>3. n \in Nat
  BY <1>1, <1>2
<1>4. \A i \in 1..n : r + i \in 0..Len(place) /\ ~ (r + i <= r)
  BY <1>1, <1>2
<1>5. ASSUME NEW i \in 1..n
      PROVE  /\ step(i) \in Places /\ Len(step(i)) = r + i
             /\ step(i) \in Prefixes(place) /\ step(i) \notin DOMAIN tree
  <2>1. r + i \in 0..Len(place) /\ ~ (r + i <= r)
    BY <1>4
  <2> HIDE DEF r
  <2> QED BY <1>2, <2>1, FirstSteps DEF Prefixes
<1>6. Missing(place) = [i \in 1..n |-> step(i)]
  BY DEF Missing
<1>7. Missing(place) \in Seq(Places) /\ Len(Missing(place)) = n
  <2>1. Missing(place) \in [1..n -> Places]
    BY <1>5, <1>6
  <2> HIDE DEF n
  <2> QED BY <1>3, <2>1
<1>8. ASSUME NEW q \in Prefixes(place), q \notin DOMAIN tree
      PROVE  \E i \in 1..n : Missing(place)[i] = q
  <2>1. PICK k \in 0..Len(place) : q = SubSeq(place, 1, k)
    BY DEF Prefixes
  <2>2. ~ (k <= r)
    BY <1>2, <1>8, <2>1
  <2>3. k - r \in 1..n /\ r + (k - r) = k
    BY <1>1, <1>2, <2>2
  <2> QED BY <1>6, <2>1, <2>3
<1> QED BY <1>5, <1>6, <1>7, <1>8

\* put adds the missing places behind the others, and leaves the others where
\* they are.
LEMMA PutTree ==
  ASSUME TreeOK, NEW path \in Paths, NEW node \in Nodes \cup {Null},
         put(path, node)
  PROVE  /\ TreeOK' /\ DOMAIN tree \subseteq DOMAIN tree'
         /\ \A p, q \in DOMAIN tree : After(p, q)' <=> After(p, q)
         /\ \A c, q \in DOMAIN tree : Ahead(c, q)' <=> Ahead(c, q)
<1>1. CASE node = Null \/ Holds(Steps(path))
  BY <1>1 DEF put, TreeOK, After, Ahead
<1>2. CASE ~ (node = Null \/ Holds(Steps(path)))
  <2>0. PICK place \in Places : place = Steps(path)
    BY StepsType DEF Places
  <2> DEFINE m == Missing(place)
             n == Len(order)
             d == Len(place) - Reach(place)
  <2>1. order' = order \o m /\ DOMAIN tree' = DOMAIN tree \cup Prefixes(place)
    BY <1>2, <2>0 DEF put, put_impl
  <2>2. /\ m \in Seq(Places) /\ Len(m) = d
        /\ \A i \in 1..d : /\ m[i] \in Prefixes(place) /\ m[i] \notin DOMAIN tree
                           /\ Len(m[i]) = Reach(place) + i
        /\ \A q \in Prefixes(place) : q \notin DOMAIN tree => \E i \in 1..d : m[i] = q
    BY MissingFacts
  <2>3. /\ n \in Nat /\ DOMAIN order = 1..n /\ order \in Seq(Places)
        /\ \A i \in 1..n : order[i] \in DOMAIN tree
        /\ \A q \in DOMAIN tree : \E i \in 1..n : order[i] = q
        /\ \A i, j \in 1..n : order[i] = order[j] => i = j
    BY OrderFacts DEF TreeOK
  <2>4. Reach(place) \in Nat /\ d \in Nat
    <3>1. Len(place) \in Nat /\ Reach(place) \in 0..Len(place)
      BY ReachFacts, LenProperties DEF Places
    <3> QED BY <3>1
  <2>5. \A i, j \in 1..d : m[i] = m[j] => i = j
    <3> HIDE DEF d, m
    <3> QED BY <2>2, <2>4
  <2> HIDE DEF m, n, d
  <2>6. /\ order' \in Seq(Places) /\ DOMAIN order' = 1..n + d
        /\ \A i \in 1..n : order'[i] = order[i]
        /\ \A i \in 1..n + d : ~ (i <= n) => i - n \in 1..d /\ order'[i] = m[i - n]
    <3>0. Len(order) = n /\ Len(m) = d /\ order \in Seq(Places) /\ m \in Seq(Places)
      BY <2>2, <2>3 DEF n
    <3>1. order \o m \in Seq(Places) /\ Len(order \o m) = n + d
      <4>1. order \o m \in Seq(Places) /\ Len(order \o m) = Len(order) + Len(m)
        BY <3>0, ConcatProperties
      <4> QED BY <3>0, <4>1
    <3>2. \A i \in 1..n + d : (order \o m)[i] = IF i <= n THEN order[i] ELSE m[i - n]
      <4>1. \A i \in 1..Len(order) + Len(m) :
              (order \o m)[i] = IF i <= Len(order) THEN order[i] ELSE m[i - Len(order)]
        BY <3>0, ConcatProperties
      <4> QED BY <3>0, <4>1
    <3>3. DOMAIN (order \o m) = 1..n + d
      BY <3>1, LenProperties
    <3>4. \A i \in 1..n + d : ~ (i <= n) => i - n \in 1..d
      BY <2>3, <2>4
    <3>5. \A i \in 1..n : i \in 1..n + d /\ i <= n
      BY <2>3, <2>4
    <3> QED BY <2>1, <3>1, <3>2, <3>3, <3>4, <3>5
  <2>7. \A i \in 1..d : n + i \in 1..n + d /\ ~ (n + i <= n) /\ (n + i) - n = i
    BY <2>3, <2>4
  <2>8. \A i \in 1..n : i \in 1..n + d
    BY <2>3, <2>4
  <2>9. ASSUME NEW i \in 1..n + d
        PROVE  \/ i \in 1..n /\ order'[i] = order[i] /\ order'[i] \in DOMAIN tree
               \/ /\ i \notin 1..n /\ i - n \in 1..d /\ order'[i] = m[i - n]
                  /\ order'[i] \notin DOMAIN tree /\ order'[i] \in Prefixes(place)
    <3>1. CASE i <= n
      <4>1. i \in 1..n
        BY <2>3, <2>4, <3>1
      <4> QED BY <2>3, <2>6, <4>1
    <3>2. CASE ~ (i <= n)
      <4>1. i \notin 1..n
        BY <2>3, <2>4, <3>2
      <4> QED BY <2>2, <2>6, <3>2, <4>1
    <3> QED BY <3>1, <3>2
  <2>10. ASSUME NEW i \in 1..n + d, NEW j \in 1..n + d, order'[i] = order'[j]
         PROVE  i = j
    <3>1. CASE i \in 1..n
      BY <2>3, <2>9, <2>10, <3>1
    <3>2. CASE i \notin 1..n
      <4>1. i - n \in 1..d /\ j - n \in 1..d /\ m[i - n] = m[j - n]
        BY <2>9, <2>10, <3>2
      <4>2. i - n = j - n
        BY <2>5, <4>1
      <4> QED BY <2>3, <2>4, <4>2
    <3> QED BY <3>1, <3>2
  <2>11. ToSet(order') = DOMAIN tree'
    <3>1. ASSUME NEW q \in DOMAIN tree' PROVE \E i \in 1..n + d : order'[i] = q
      <4>1. CASE q \in DOMAIN tree
        BY <2>3, <2>6, <2>8, <4>1
      <4>2. CASE q \notin DOMAIN tree
        <5>1. PICK i \in 1..d : m[i] = q
          BY <2>1, <2>2, <3>1, <4>2
        <5> QED BY <2>6, <2>7, <5>1
      <4> QED BY <4>1, <4>2
    <3>2. \A i \in 1..n + d : order'[i] \in DOMAIN tree'
      BY <2>1, <2>9
    <3> QED BY <2>6, <3>1, <3>2 DEF ToSet
  <2>12. DOMAIN tree' \subseteq Places /\ \A q \in DOMAIN tree' : Prefixes(q) \subseteq DOMAIN tree'
    <3>1. DOMAIN tree' \subseteq Places
      BY <2>1, PrefixesArePlaces DEF TreeOK
    <3>2. ASSUME NEW q \in Prefixes(place) PROVE Prefixes(q) \subseteq Prefixes(place)
      <4>1. q \in Places /\ Over(q, place)
        BY PrefixesArePlaces, OverIsPrefix
      <4>2. ASSUME NEW r \in Prefixes(q) PROVE r \in Prefixes(place)
        <5>1. r \in Places /\ Over(r, q)
          BY <4>1, PrefixesArePlaces, OverIsPrefix
        <5> QED BY <4>1, <5>1, OverOrder, OverIsPrefix
      <4> QED BY <4>2
    <3> QED BY <2>1, <3>1, <3>2 DEF TreeOK
  <2>13. TreeOK'
    BY <2>1, <2>6, <2>10, <2>11, <2>12 DEF TreeOK, IsInjective
  <2>14. ASSUME NEW p \in DOMAIN tree, NEW q \in DOMAIN tree PROVE After(p, q)' <=> After(p, q)
    <3>1. ASSUME NEW i \in DOMAIN order', NEW j \in DOMAIN order',
                 i < j, order'[i] = p, order'[j] = q
          PROVE  i \in DOMAIN order /\ j \in DOMAIN order /\ order[i] = p /\ order[j] = q
      BY <2>3, <2>6, <2>9, <2>14, <3>1
    <3>2. ASSUME NEW i \in DOMAIN order, NEW j \in DOMAIN order,
                 i < j, order[i] = p, order[j] = q
          PROVE  i \in DOMAIN order' /\ j \in DOMAIN order' /\ order'[i] = p /\ order'[j] = q
      BY <2>3, <2>6, <2>8, <3>2
    <3> QED BY <3>1, <3>2 DEF After
  <2>15. ASSUME NEW c \in DOMAIN tree, NEW q \in DOMAIN tree PROVE Ahead(c, q)' <=> Ahead(c, q)
    <3>1. ASSUME NEW x \in Places, NEW y \in Places, Over(x, c), Over(y, q)
          PROVE  After(x, y)' <=> After(x, y)
      BY <2>14, <3>1, OverExists
    <3> QED BY <3>1 DEF Ahead
  <2> QED BY <2>1, <2>13, <2>14, <2>15
<1> QED BY <1>1, <1>2

\* Where a traversal is: what it has visited is in its bounds and not ahead,
\* what it has to visit is visited or ahead.
WalkOK ==
  /\ WalkType
  /\ visited \in Seq(Places) /\ Preorder(visited)
  /\ \A q \in ToSet(visited) : InBounds(q) /\ ~ Ahead(cursor, q)
  /\ \A q \in due : InBounds(q) /\ Visits(q)
  /\ call = "walk" => \A q \in due : q \in ToSet(visited) \/ Ahead(cursor, q)
  /\ WalkIsComplete

\* A step to the next place.
LEMMA MoveKeeps ==
  ASSUME TreeOK, WalkOK, call = "walk", NEW where, MoveTo(where), UNCHANGED <<tree, order>>,
         IsNext(order[Min(where)])
  PROVE  WalkOK'
<1>1. PICK n : n = order[Min(where)]
  OBVIOUS
<1>2. /\ cursor' = n /\ UNCHANGED <<walk, due, call>>
      /\ visited' = IF Visits(n) THEN Append(visited, n) ELSE visited
      /\ IsNext(n)
  BY <1>1 DEF MoveTo
<1>3. InBounds(n) /\ n \in DOMAIN tree /\ n \in Places /\ cursor \in Places
  BY <1>2, WalkPlaces DEF IsNext, InBounds, TreeOK, WalkOK
<1>4. \A q : /\ InBounds(q)' <=> InBounds(q)
             /\ Visits(q)' <=> Visits(q)
             /\ Ahead(cursor, q)' <=> Ahead(n, q)
  BY <1>2 DEF InBounds, Visits, Ahead, After
<1>5. WalkType'
  <2>1. InBounds(cursor)' <=> InBounds(n)
    BY <1>2 DEF InBounds
  <2> QED BY <1>2, <1>3, <2>1 DEF WalkType, WalkOK
<1>6. \A q \in ToSet(visited) : q \in Places /\ q \in DOMAIN tree /\ ~ IsPrefix(n, q)
  <2> TAKE q \in ToSet(visited)
  <2>1. q \in DOMAIN tree /\ q \in Places /\ ~ Ahead(cursor, q)
    BY DEF WalkOK, InBounds, TreeOK
  <2>2. ~ Over(n, q)
    BY <1>2, <1>3, <2>1, AheadBelow DEF IsNext
  <2> QED BY <1>3, <2>1, <2>2, OverIsPrefix
<1>7. /\ visited' \in Seq(Places) /\ Preorder(visited')
      /\ ToSet(visited') = IF Visits(n) THEN ToSet(visited) \cup {n} ELSE ToSet(visited)
  <2>1. visited \in Seq(Places) /\ Preorder(visited)
    BY DEF WalkOK
  <2>2. /\ Append(visited, n) \in Seq(Places) /\ Preorder(Append(visited, n))
        /\ ToSet(Append(visited, n)) = ToSet(visited) \cup {n}
    BY <1>3, <1>6, <2>1, VisitOneMore
  <2> QED BY <1>2, <2>1, <2>2
<1>8. \A q \in ToSet(visited') : InBounds(q) /\ ~ Ahead(n, q)
  <2>1. ~ Ahead(n, n)
    BY <1>3, NotAheadOfItself
  <2>2. \A q \in ToSet(visited) : InBounds(q) /\ ~ Ahead(n, q)
    BY <1>2, <1>6 DEF WalkOK, IsNext
  <2> QED BY <1>3, <1>7, <2>1, <2>2
<1>9. \A q \in due : q \in ToSet(visited') \/ Ahead(n, q)
  <2> TAKE q \in due
  <2>1. InBounds(q) /\ Visits(q) /\ q \in DOMAIN tree /\ (q \in ToSet(visited) \/ Ahead(cursor, q))
    BY DEF WalkOK, InBounds
  <2>2. Ahead(cursor, q) => q = n \/ Ahead(n, q)
    BY <1>2, <2>1 DEF IsNext
  <2> QED BY <1>7, <2>1, <2>2
<1>10. \A q \in due : InBounds(q) /\ Visits(q)
  BY DEF WalkOK
<1>11. WalkIsComplete'
  BY <1>2 DEF WalkIsComplete
<1> QED BY <1>2, <1>4, <1>5, <1>7, <1>8, <1>9, <1>10, <1>11 DEF WalkOK

\* Its end.
LEMMA WalkOnKeeps ==
  ASSUME TreeOK, WalkOK, WalkOn
  PROVE  TreeOK' /\ WalkOK'
<1>1. call = "walk" /\ UNCHANGED <<tree, order>>
  BY DEF WalkOn
<1>2. TreeOK'
  BY <1>1 DEF TreeOK
<1>3. CASE Children(cursor) # {} /\ MoveTo(Children(cursor))
  BY <1>1, <1>2, <1>3, DownIsNext, MoveKeeps DEF WalkOK
<1>4. ASSUME Children(cursor) = {}, NEW q \in Open, \A r \in Open : Len(r) <= Len(q),
             MoveTo(Later(q))
      PROVE  WalkOK'
  BY <1>1, <1>4, OnIsNext, MoveKeeps DEF WalkOK
<1>5. CASE /\ Children(cursor) = {} /\ Open = {} /\ call' = "none" /\ UNCHANGED traversal
  <2>1. UNCHANGED <<walk, cursor, visited, due>>
    BY <1>5 DEF traversal
  <2>2. due \subseteq ToSet(visited)
    BY <1>1, <1>5, EndIsEnd DEF WalkOK
  <2>3. WalkIsComplete'
    BY <2>1, <2>2 DEF WalkIsComplete
  <2>4. \A q : /\ InBounds(q)' <=> InBounds(q)
               /\ Visits(q)' <=> Visits(q)
               /\ Ahead(cursor, q)' <=> Ahead(cursor, q)
    BY <1>1, <2>1 DEF InBounds, Visits, Ahead, After
  <2>5. WalkType'
    BY <1>1, <2>1 DEF WalkOK, WalkType, InBounds
  <2> QED BY <1>2, <1>5, <2>1, <2>3, <2>4, <2>5 DEF WalkOK
<1>6. WalkOK'
  BY <1>3, <1>4, <1>5 DEF WalkOn
<1> QED BY <1>2, <1>6

\* put while a traversal is under way, or none.
LEMMA PutKeepsWalk ==
  ASSUME IInv, TreeOK, WalkOK, NEW path \in Paths, NEW node \in Nodes \cup {Null},
         put(path, node), UNCHANGED <<traversal, call>>
  PROVE  TreeOK' /\ WalkOK'
<1>1. /\ TreeOK' /\ DOMAIN tree \subseteq DOMAIN tree'
      /\ \A c, q \in DOMAIN tree : Ahead(c, q)' <=> Ahead(c, q)
  BY PutTree
<1>2. \A q \in DOMAIN tree : tree[q] # Null => tree'[q] = tree[q]
  BY PutKeeps
<1>3. UNCHANGED <<walk, cursor, visited, due, call>>
  BY DEF traversal
<1>4. \A q : InBounds(q) => InBounds(q)'
  BY <1>1, <1>3 DEF InBounds
<1>5. \A q \in DOMAIN tree : Visits(q) => Visits(q)'
  BY <1>2, <1>3 DEF Visits
<1>6. \A q \in DOMAIN tree : Ahead(cursor, q)' <=> Ahead(cursor, q)
  <2>1. PICK c : c = cursor
    OBVIOUS
  <2>2. c \in DOMAIN tree /\ cursor' = c
    BY <1>3, <2>1, WalkPlaces DEF WalkOK
  <2>3. \A q : (Ahead(cursor, q)' <=> Ahead(c, q)') /\ (Ahead(cursor, q) <=> Ahead(c, q))
    BY <2>1, <2>2 DEF Ahead
  <2> QED BY <1>1, <2>2, <2>3
<1>7. WalkType'
  <2>1. InBounds(cursor)'
    BY <1>1, <1>3 DEF WalkOK, WalkType, InBounds
  <2> QED BY <1>1, <1>3, <2>1 DEF WalkOK, WalkType
<1>8. \A q \in ToSet(visited) \cup due : q \in DOMAIN tree
  BY DEF WalkOK, InBounds
<1>9. WalkIsComplete'
  BY <1>3 DEF WalkOK, WalkIsComplete
<1> QED BY <1>1, <1>3, <1>4, <1>5, <1>6, <1>7, <1>8, <1>9 DEF WalkOK

\* run_all begins at the top.
LEMMA RunAllBegins ==
  ASSUME TreeOK, RunAll
  PROVE  TreeOK' /\ WalkOK'
<1>1. /\ walk' = [kind |-> "run_all", base |-> << >>, depth |-> -1] /\ cursor' = << >>
      /\ visited' = IF tree[<< >>] = Null THEN << >> ELSE << << >> >>
      /\ due' = {q \in DOMAIN tree : tree[q] # Null}
      /\ call' = "walk" /\ UNCHANGED <<tree, order>>
  BY DEF RunAll, registry
<1>2. << >> \in DOMAIN tree /\ << >> \in Places /\ DOMAIN tree \subseteq Places
  BY DEF TreeOK
<1>3. ASSUME NEW q \in Places PROVE Over(<< >>, q)
  <2>1. Len(q) \in Nat /\ Len(<< >>) = 0
    BY LenProperties, EmptySeq DEF Places
  <2> QED BY <2>1 DEF Over
<1>4. TreeOK'
  BY <1>1 DEF TreeOK
<1>5. \A q \in DOMAIN tree : InBounds(q)'
  BY <1>1, <1>2, <1>3 DEF InBounds
<1>6. WalkType'
  <2>1. InBounds(cursor)'
    BY <1>1, <1>2, <1>3 DEF InBounds
  <2> QED BY <1>1, <1>2, <2>1 DEF WalkType
<1>7. visited' \in Seq(Places) /\ Preorder(visited')
  <2>1. << >> \in Seq(Places) /\ Preorder(<< >>)
    BY EmptySeq DEF Preorder, IsInjective
  <2>2. << << >> >> \in Seq(Places) /\ Preorder(<< << >> >>)
    BY <1>2 DEF Preorder, IsInjective, IsStrictPrefix
  <2> QED BY <1>1, <2>1, <2>2
<1>8. ToSet(visited') = IF tree[<< >>] = Null THEN {} ELSE {<< >>}
  BY <1>1 DEF ToSet
<1>9. ~ Ahead(cursor, << >>)'
  <2>1. ~ Ahead(<< >>, << >>)
    BY <1>2, NotAheadOfItself
  <2> QED BY <1>1, <2>1 DEF Ahead, After
<1>10. \A q \in due' : q \in ToSet(visited') \/ Ahead(cursor, q)'
  BY <1>1, <1>2, <1>3, <1>8 DEF Ahead
<1>11. \A q \in due' : Visits(q)'
  BY <1>1 DEF Visits
<1>12. WalkIsComplete'
  BY <1>1 DEF WalkIsComplete
<1>13. \A q \in ToSet(visited') : q \in DOMAIN tree /\ q = << >>
  BY <1>2, <1>8
<1>14. \A q \in ToSet(visited') : InBounds(q)' /\ ~ Ahead(cursor, q)'
  BY <1>5, <1>9, <1>13
<1>15. \A q \in due' : InBounds(q)'
  BY <1>1, <1>5
<1> QED BY <1>4, <1>6, <1>7, <1>10, <1>11, <1>12, <1>14, <1>15 DEF WalkOK

\* for_each_at begins at its place, or not at all.
LEMMA ForEachBegins ==
  ASSUME TreeOK, WalkOK, NEW path \in Paths, NEW depth \in Depths, ForEachAt(path, depth)
  PROVE  TreeOK' /\ WalkOK'
<1>1. UNCHANGED <<tree, order>>
  BY DEF ForEachAt
<1>2. TreeOK'
  BY <1>1 DEF TreeOK
<1>3. CASE UNCHANGED <<traversal, call>>
  <2>1. UNCHANGED <<walk, cursor, visited, due, call>>
    BY <1>3 DEF traversal
  <2>2. \A q : /\ InBounds(q)' <=> InBounds(q)
               /\ Visits(q)' <=> Visits(q)
               /\ Ahead(cursor, q)' <=> Ahead(cursor, q)
    BY <1>1, <2>1 DEF InBounds, Visits, Ahead, After
  <2>3. WalkType' /\ WalkIsComplete'
    BY <1>1, <2>1 DEF WalkOK, WalkType, InBounds, WalkIsComplete
  <2> QED BY <1>2, <2>1, <2>2, <2>3 DEF WalkOK
<1>4. CASE ~ UNCHANGED <<traversal, call>>
  <2>1. PICK base : base = get_tree_node(path)
    OBVIOUS
  <2>2. /\ walk' = [kind |-> "for_each", base |-> base, depth |-> depth] /\ cursor' = base
        /\ visited' = << >> /\ call' = "walk"
        /\ due' = {q \in DOMAIN tree : IsStrictPrefix(base, q)
                     /\ (depth = -1 \/ Len(q) <= Len(base) + depth)}
    BY <1>4, <2>1 DEF ForEachAt
  <2>3. base \in DOMAIN tree /\ base \in Places
    <3>1. Steps(path) \in Places
      BY StepsType DEF Places
    <3> QED BY <2>1, <3>1, ReachFacts DEF get_tree_node, TreeOK
  <2>4. depth \in Nat \cup {-1} /\ Over(base, base) /\ Len(base) \in Nat
    BY <2>3, DepthsAssumption, OverOrder, LenProperties DEF Places
  <2>5. WalkType'
    <3>1. InBounds(cursor)'
      BY <1>1, <2>2, <2>3, <2>4 DEF InBounds
    <3> QED BY <1>1, <2>2, <2>3, <2>4, <3>1 DEF WalkType
  <2>6. visited' \in Seq(Places) /\ Preorder(visited') /\ ToSet(visited') = {}
    BY <2>2 DEF Preorder, IsInjective, ToSet
  <2>7. ASSUME NEW q \in due' PROVE InBounds(q)' /\ Visits(q)' /\ Ahead(cursor, q)'
    <3>1. /\ q \in DOMAIN tree /\ IsPrefix(base, q) /\ base # q
          /\ depth # -1 => Len(q) <= Len(base) + depth
      BY <2>2, <2>7 DEF IsStrictPrefix
    <3>2. Over(base, q)
      BY <2>3, <3>1, OverIsPrefix DEF TreeOK
    <3> QED BY <1>1, <2>2, <3>1, <3>2 DEF InBounds, Visits, Ahead
  <2>8. WalkIsComplete'
    BY <2>2 DEF WalkIsComplete
  <2> QED BY <1>2, <2>5, <2>6, <2>7, <2>8 DEF WalkOK
<1> QED BY <1>3, <1>4

\* The tree and the traversal are right in every state.
LEMMA WalkInvariance == Spec => [](TreeOK /\ WalkOK)
<1>1. Init => TreeOK /\ WalkOK
  <2> SUFFICES ASSUME Init PROVE TreeOK /\ WalkOK
    OBVIOUS
  <2>1. /\ DOMAIN tree = {<< >>} /\ order = << << >> >> /\ visited = << >> /\ due = {}
        /\ walk = [kind |-> "run_all", base |-> << >>, depth |-> -1] /\ cursor = << >>
        /\ call = "none"
    BY DEF Init
  <2>2. << >> \in Places /\ Len(<< >>) = 0
    BY EmptySeq DEF Places
  <2>3. Prefixes(<< >>) = {<< >>}
    <3>1. \A k \in 0..0 : SubSeq(<< >>, 1, k) = << >>
      BY SubSeqEmpty
    <3>2. Prefixes(<< >>) = {SubSeq(<< >>, 1, k) : k \in 0..0}
      BY <2>2 DEF Prefixes
    <3>3. 0 \in 0..0
      OBVIOUS
    <3> QED BY <3>1, <3>2, <3>3
  <2>4. TreeOK
    BY <2>1, <2>2, <2>3 DEF TreeOK, ToSet, IsInjective
  <2>5. Over(<< >>, << >>)
    BY <2>2, OverOrder
  <2>6. ToSet(<< >>) = {} /\ Preorder(<< >>) /\ << >> \in Seq(Places)
    BY DEF ToSet, Preorder, IsInjective
  <2> QED BY <2>1, <2>2, <2>4, <2>5, <2>6 DEF WalkOK, WalkType, InBounds, WalkIsComplete
<1>2. ASSUME Counted, IInv, TreeOK /\ WalkOK, [Next]_vars PROVE TreeOK' /\ WalkOK'
  <2>1. ASSUME NEW path \in Paths, NEW node \in Nodes \cup {Null}, put(path, node),
               UNCHANGED <<traversal, call>>
        PROVE  TreeOK' /\ WalkOK'
    BY <1>2, <2>1, PutKeepsWalk
  <2>2. ASSUME NEW u \in Units, ConstructNode(u) PROVE TreeOK' /\ WalkOK'
    <3> DEFINE object == Objects[u][made[u] + 1]
    <3>1. object.path \in Paths /\ object.node \in Nodes /\ put(object.path, object.node)
      BY <1>2, <2>2, NextObject, ObjectFacts DEF ConstructNode, Constructs
    <3>2. UNCHANGED <<traversal, call>>
      BY <2>2 DEF ConstructNode
    <3> HIDE DEF object
    <3> QED BY <2>1, <3>1, <3>2
  <2>3. ASSUME NEW path \in Paths, NEW node \in Nodes \cup {Null},
               Put(path, node) \/ FunctionPuts(path, node)
        PROVE  TreeOK' /\ WalkOK'
    BY <2>1, <2>3 DEF Put, FunctionPuts
  <2>4. ASSUME UNCHANGED <<tree, order, walk, cursor, visited, due>>,
               call' = call \/ (call # "walk" /\ call' # "walk")
        PROVE  TreeOK' /\ WalkOK'
    <3>1. \A q : /\ InBounds(q)' <=> InBounds(q)
                 /\ Visits(q)' <=> Visits(q)
                 /\ Ahead(cursor, q)' <=> Ahead(cursor, q)
      BY <2>4 DEF InBounds, Visits, Ahead, After
    <3>2. TreeOK' /\ WalkType' /\ WalkIsComplete'
      BY <1>2, <2>4 DEF TreeOK, WalkOK, WalkType, InBounds, WalkIsComplete
    <3> QED BY <1>2, <2>4, <3>1, <3>2 DEF WalkOK
  <2>5. ASSUME \/ \E u \in Units : ConstructHandler(u)
               \/ EnterMain \/ (\E path \in Paths : Run(path) \/ RunMacro(path))
               \/ RunReturns \/ UNCHANGED vars
        PROVE  TreeOK' /\ WalkOK'
    BY <2>4, <2>5 DEF ConstructHandler, EnterMain, Run, RunMacro, RunReturns, vars, registry,
         traversal
  <2> QED BY <1>2, <2>2, <2>3, <2>5, RunAllBegins, ForEachBegins, WalkOnKeeps DEF Next
<1> QED BY <1>1, <1>2, Counting, Invariance, PTL DEF Spec

\* When a traversal has ended, its function was called at every place that was
\* in its bounds when it began, whatever was put on the way.
THEOREM WalksComplete == Spec => []WalkIsComplete
<1>1. WalkOK => WalkIsComplete
  BY DEF WalkOK
<1> QED BY <1>1, WalkInvariance, PTL

\* A traversal meets a place before what is below it, once, and none outside
\* its bounds.
THEOREM WalksInPreorder == Spec => []WalkInPreorder
<1>1. ASSUME TreeOK, WalkOK PROVE WalkInPreorder
  <2>1. ASSUME NEW q \in ToSet(visited)
        PROVE  /\ IsPrefix(walk.base, q)
               /\ walk.depth # -1 => Len(q) <= Len(walk.base) + walk.depth
    <3>1. InBounds(q) /\ q \in Places /\ walk.base \in Places
      BY <1>1, <2>1, WalkPlaces DEF WalkOK, InBounds, TreeOK
    <3> QED BY <3>1, OverIsPrefix DEF InBounds
  <2> QED BY <1>1, <2>1 DEF WalkOK, Preorder, WalkInPreorder
<1> QED BY <1>1, WalkInvariance, PTL

-----------------------------------------------------------------------------
(* Types. *)

\* The types of what the parts above do not speak of.
SmallTypes ==
  /\ \A q \in DOMAIN tree : tree[q] \in Nodes \cup {Null}
  /\ err \in Errors
  /\ life \in {"init", "main", "terminated"}
  /\ call \in {"none", "run", "macro", "walk"}
  /\ walk.kind \in {"run_all", "for_each"} /\ walk.depth \in Depths \cup {-1}
  /\ handled \subseteq Paths \X Nodes

\* What get hands out.
LEMMA GetType ==
  ASSUME TreeOK, SmallTypes, NEW path \in Paths
  PROVE  get(path) \in Nodes \cup {Null}
<1>1. Steps(path) \in Places
  BY StepsType DEF Places
<1>2. get_tree_node(path) \in DOMAIN tree
  BY <1>1, ReachFacts DEF get_tree_node
<1> QED BY <1>2 DEF get, SmallTypes

LEMMA PutTypes ==
  ASSUME SmallTypes, NEW path \in Paths, NEW node \in Nodes \cup {Null}, put(path, node)
  PROVE  err' \in Errors /\ \A q \in DOMAIN tree' : tree'[q] \in Nodes \cup {Null}
<1>1. CASE node = Null \/ Holds(Steps(path))
  BY <1>1 DEF put, SmallTypes, Errors
<1>2. CASE ~ (node = Null \/ Holds(Steps(path)))
  <2>1. /\ err' = "ok"
        /\ tree' = [q \in DOMAIN tree \cup Prefixes(Steps(path)) |->
                      IF q = Steps(path) THEN node
                      ELSE IF q \in DOMAIN tree THEN tree[q] ELSE Null]
    BY <1>2 DEF put, put_impl
  <2>2. \A q \in DOMAIN tree' : \/ tree'[q] = node \/ tree'[q] = Null
                                \/ q \in DOMAIN tree /\ tree'[q] = tree[q]
    BY <2>1
  <2> QED BY <2>1, <2>2 DEF SmallTypes, Errors
<1> QED BY <1>1, <1>2

LEMMA SmallTypesNext ==
  ASSUME Counted, TreeOK, SmallTypes, [Next]_vars
  PROVE  SmallTypes'
<1>1. ASSUME NEW u \in Units, ConstructNode(u) PROVE SmallTypes'
  <2> DEFINE object == Objects[u][made[u] + 1]
  <2>1. object.path \in Paths /\ object.node \in Nodes /\ put(object.path, object.node)
    BY <1>1, NextObject, ObjectFacts DEF ConstructNode, Constructs
  <2>2. UNCHANGED <<walk, life, call, handled>>
    BY <1>1 DEF ConstructNode, traversal
  <2> HIDE DEF object
  <2>3. err' \in Errors /\ \A q \in DOMAIN tree' : tree'[q] \in Nodes \cup {Null}
    BY <2>1, PutTypes
  <2> QED BY <2>2, <2>3 DEF SmallTypes
<1>2. ASSUME NEW path \in Paths, NEW node \in Nodes \cup {Null},
             Put(path, node) \/ FunctionPuts(path, node)
      PROVE  SmallTypes'
  <2>1. put(path, node) /\ UNCHANGED <<walk, life, call, handled>>
    BY <1>2 DEF Put, FunctionPuts, traversal
  <2> QED BY <2>1, PutTypes DEF SmallTypes
<1>3. ASSUME NEW u \in Units, ConstructHandler(u) PROVE SmallTypes'
  <2>1. PICK path \in Paths : path = Objects[u][made[u] + 1].path
    BY <1>3, NextObject, ObjectFacts DEF ConstructHandler, Constructs
  <2>2. get(path) \in Nodes \cup {Null}
    BY GetType
  <2>3. UNCHANGED <<tree, walk, call>> /\ err' = "ok"
    BY <1>3 DEF ConstructHandler, traversal
  <2>4. \/ life' = "terminated" /\ UNCHANGED handled
        \/ get(path) # Null /\ handled' = handled \cup {<<path, get(path)>>} /\ UNCHANGED life
    BY <1>3, <2>1 DEF ConstructHandler
  <2> QED BY <2>2, <2>3, <2>4 DEF SmallTypes, Errors
<1>4. ASSUME \/ EnterMain \/ (\E path \in Paths : Run(path) \/ RunMacro(path))
             \/ (\E path \in Paths, depth \in Depths : ForEachAt(path, depth))
             \/ RunReturns \/ RunAll \/ UNCHANGED vars
      PROVE  SmallTypes'
  BY <1>4 DEF EnterMain, Run, RunMacro, RunReturns, RunAll, ForEachAt, vars, registry, traversal,
       SmallTypes, Errors
<1>5. ASSUME WalkOn PROVE SmallTypes'
  <2>1. UNCHANGED <<tree, life, handled, walk>>
    BY <1>5 DEF WalkOn, MoveTo, traversal
  <2>2. (call' = call \/ call' = "none") /\ (err' = err \/ err' = "ok")
    BY <1>5 DEF WalkOn, MoveTo
  <2> QED BY <2>1, <2>2 DEF SmallTypes, Errors
<1> QED BY <1>1, <1>2, <1>3, <1>4, <1>5 DEF Next

\* Every variable has its type in every state; the places that exist are closed
\* upwards, and each has one position among its siblings.
THEOREM TypeCorrect == Spec => []TypeOK
<1>1. Init => SmallTypes
  BY DEF Init, SmallTypes, Errors
<1>2. Counted /\ (TreeOK /\ WalkOK) /\ SmallTypes /\ [Next]_vars => SmallTypes'
  BY SmallTypesNext
<1>3. ASSUME Counted, IInv, TreeOK /\ WalkOK, SmallTypes PROVE TypeOK
  <2>1. ToSet(visited) \subseteq DOMAIN tree /\ due \subseteq DOMAIN tree
    BY <1>3 DEF WalkOK, InBounds
  <2>2. cursor \in DOMAIN tree /\ walk.base \in DOMAIN tree
    BY <1>3, WalkPlaces DEF WalkOK, WalkType
  <2>3. accepted \subseteq Paths \X Nodes
    BY <1>3 DEF IInv, AcceptedIsThere
  <2> QED BY <1>3, <2>1, <2>2, <2>3 DEF TypeOK, TreeOK, Places, SmallTypes, Counted
<1> QED BY <1>1, <1>2, <1>3, Counting, Invariance, WalkInvariance, PTL DEF Spec
=============================================================================
