------------------------- MODULE SingleChainProofs -------------------------
(***************************************************************************)
(* Proofs about SingleChain, for every depth of the chain and every set of *)
(* addresses.                                                              *)
(***************************************************************************)
EXTENDS SingleChain, WellFoundedInduction, TLAPS

\* The weak pointer of a lower leads back to the node that owns it.
Linked == \A x \in Addresses : lower[x] # Null => upper[lower[x]] = x

\* Who is alive is so by an owner.
AliveByOwner == \A x \in alive : Owned(x)

IInv == TypeOK /\ Linked /\ AliveByOwner

-----------------------------------------------------------------------------
(* Induction, and functions defined by recursion. *)

Less == {ss \in Nat \X Nat : ss[1] < ss[2]}

LEMMA LessWellFounded == IsWellFoundedOn(Less, Nat)
BY NatLessThanWellFounded DEF OpToRel, Less

\* A set of numbers that has 0 and the next of each of its own has them all.
LEMMA Induction ==
  ASSUME NEW S \in SUBSET Nat, 0 \in S, \A k \in S : k + 1 \in S
  PROVE  S = Nat
<1> SUFFICES ASSUME Nat \ S # {} PROVE FALSE
  OBVIOUS
<1>1. PICK n \in Nat \ S : \A k \in Nat \ S : ~ (<<k, n>> \in Less)
  BY LessWellFounded, WFMin, Zenon
<1>2. n # 0 /\ n \in Nat
  OBVIOUS
<1>3. n - 1 \in Nat /\ n - 1 < n /\ (n - 1) + 1 = n
  BY <1>2
<1>4. <<n - 1, n>> \in Less
  BY <1>2, <1>3 DEF Less
<1>5. n - 1 \in S
  BY <1>1, <1>3, <1>4
<1> QED BY <1>3, <1>5

Ends(A, ends, next, far) ==
  \A x \in A : x \notin ends => next[x] \in A /\ far[next[x]] < far[x]

Walk(A, ends, last, next) ==
  CHOOSE f : f = [x \in A |-> IF x \in ends THEN last[x] ELSE f[next[x]]]

\* A walk along next that comes nearer to 0 with every step has an end, so
\* that the function that a recursion along it defines exists.
LEMMA WalkEnds ==
  ASSUME NEW A, NEW ends, NEW last, NEW next, NEW most \in Nat, NEW far \in [A -> 0..most],
         Ends(A, ends, next, far)
  PROVE  Walk(A, ends, last, next) =
           [x \in A |-> IF x \in ends THEN last[x] ELSE Walk(A, ends, last, next)[next[x]]]
<1> USE DEF Ends
<1> DEFINE Step(g) == [x \in A |-> IF x \in ends THEN last[x] ELSE g[next[x]]]
           Right(g, k) == \A x \in A : far[x] < k => g[x] = Step(g)[x]
           S == {k \in Nat : \E g : Right(g, k)}
<1>1. 0 \in S
  <2>1. Right(<< >>, 0)
    OBVIOUS
  <2> QED BY <2>1
<1>2. ASSUME NEW k \in S PROVE k + 1 \in S
  <2>1. PICK g : Right(g, k)
    OBVIOUS
  <2>2. ASSUME NEW x \in A, far[x] < k + 1
        PROVE  Step(g)[x] = Step(Step(g))[x]
    <3>1. CASE x \in ends
      BY <3>1
    <3>2. CASE x \notin ends
      <4>1. next[x] \in A /\ far[next[x]] < k
        BY <2>2, <3>2
      <4>2. g[next[x]] = Step(g)[next[x]]
        BY <2>1, <4>1
      <4> QED BY <3>2, <4>2
    <3> QED BY <3>1, <3>2
  <2>3. Right(Step(g), k + 1)
    BY <2>2
  <2>4. k + 1 \in Nat
    OBVIOUS
  <2> HIDE DEF Right
  <2> QED BY <2>3, <2>4
<1>3. S = Nat
  <2> HIDE DEF S
  <2>1. S \subseteq Nat
    BY DEF S
  <2> QED BY <1>1, <1>2, <2>1, Induction
<1>4. PICK g : Right(g, most + 1)
  <2>1. most + 1 \in S
    <3> HIDE DEF S
    <3> QED BY <1>3
  <2> QED BY <2>1
<1>5. \A x \in A : g[x] = Step(g)[x]
  BY <1>4
<1> DEFINE f == Step(g)
<1>6. \A x \in A : f[x] = IF x \in ends THEN last[x] ELSE f[next[x]]
  <2> TAKE x \in A
  <2>1. CASE x \in ends
    BY <2>1
  <2>2. CASE x \notin ends
    <3>1. next[x] \in A
      BY <2>2
    <3>2. g[next[x]] = f[next[x]]
      BY <1>5, <3>1
    <3> QED BY <2>2, <3>2
  <2> QED BY <2>1, <2>2
<1>7. f = [x \in A |-> f[x]]
  OBVIOUS
<1>8. f = [x \in A |-> IF x \in ends THEN last[x] ELSE f[next[x]]]
  <2> HIDE DEF f
  <2> QED BY <1>6, <1>7
<1> QED BY <1>8 DEF Walk

-----------------------------------------------------------------------------
(* The walks. *)

\* What the walk down does at a node.
LEMMA GetLowerStep ==
  ASSUME TypeOK, NEW t, NEW x \in Addresses
  PROVE  get_lower(t)[x] = IF class[x] = t - 1 THEN lower[x]
                           ELSE IF lower[x] = Null THEN Null
                           ELSE get_lower(t)[lower[x]]
<1> DEFINE ends == {y \in Addresses : class[y] = t - 1 \/ lower[y] = Null}
           far == [y \in Addresses |-> Depth - class[y]]
           down(f) == [y \in Addresses |-> IF class[y] = t - 1 THEN lower[y]
                                           ELSE IF lower[y] = Null THEN Null
                                           ELSE f[lower[y]]]
<1>1. far \in [Addresses -> 0..Depth]
  BY DepthAssumption, AddressesAssumption
<1>2. Ends(Addresses, ends, lower, far)
  BY DepthAssumption, AddressesAssumption DEF TypeOK, Ends
<1> DEFINE f == Walk(Addresses, ends, lower, lower)
<1>3. f = [y \in Addresses |-> IF y \in ends THEN lower[y] ELSE f[lower[y]]]
  <2> HIDE DEF far, ends
  <2> QED BY <1>1, <1>2, DepthAssumption, WalkEnds
<1>4. \E g : g = down(g)
  <2>1. \A y \in Addresses : (IF y \in ends THEN lower[y] ELSE f[lower[y]]) = down(f)[y]
    OBVIOUS
  <2>2. f = down(f)
    BY <1>3, <2>1
  <2> QED BY <2>2
<1>5. get_lower(t) = down(get_lower(t))
  BY <1>4 DEF get_lower
<1> QED BY <1>5

\* What the walk up does at a node.
LEMMA GetUpperStep ==
  ASSUME TypeOK, NEW t, NEW x \in Addresses
  PROVE  get_upper(t)[x] = IF Lock(upper[x]) = Null THEN Null
                           ELSE IF class[x] = t + 1 THEN upper[x]
                           ELSE get_upper(t)[upper[x]]
<1> DEFINE ends == {y \in Addresses : Lock(upper[y]) = Null \/ class[y] = t + 1}
           last == [y \in Addresses |-> Lock(upper[y])]
           up(f) == [y \in Addresses |-> IF Lock(upper[y]) = Null THEN Null
                                         ELSE IF class[y] = t + 1 THEN upper[y]
                                         ELSE f[upper[y]]]
<1>1. class \in [Addresses -> 0..Depth]
  BY DepthAssumption, AddressesAssumption
<1>2. Ends(Addresses, ends, upper, class)
  BY DepthAssumption, AddressesAssumption DEF TypeOK, Ends, Lock
<1> DEFINE f == Walk(Addresses, ends, last, upper)
<1>3. f = [y \in Addresses |-> IF y \in ends THEN last[y] ELSE f[upper[y]]]
  <2> HIDE DEF last, ends
  <2> QED BY <1>1, <1>2, DepthAssumption, WalkEnds
<1>4. \E g : g = up(g)
  <2>1. \A y \in Addresses : (IF y \in ends THEN last[y] ELSE f[upper[y]]) = up(f)[y]
    BY DEF Lock
  <2>2. f = up(f)
    BY <1>3, <2>1
  <2> QED BY <2>2
<1>5. get_upper(t) = up(get_upper(t))
  BY <1>4 DEF get_upper
<1> QED BY <1>5
LEMMA ClassFacts == \A x \in Addresses : class[x] \in Nat /\ class[x] > 0 /\ class[x] <= Depth
BY DepthAssumption, AddressesAssumption

\* The walk down to a class finds a living node of that class or nothing, and
\* one class further down it finds the lower of that node.
Finds(x, t) ==
  LET y == get_lower(t)[x]
  IN  /\ y # Null => y \in alive /\ class[y] = t
      /\ get_lower(t + 1)[x] = IF y = Null THEN Null ELSE lower[y]

LEMMA WalkDown ==
  ASSUME TypeOK, NEW x \in Addresses, NEW t \in Nat, class[x] < t
  PROVE  Finds(x, t)
<1> DEFINE P(d) == \A n \in Addresses : class[n] + d + 1 = t => Finds(n, t)
           S == {d \in Nat : P(d)}
<1>1. P(0)
  <2> SUFFICES ASSUME NEW n \in Addresses, class[n] + 0 + 1 = t PROVE Finds(n, t)
    OBVIOUS
  <2>1. class[n] \in Nat /\ class[n] = t - 1 /\ class[n] # (t + 1) - 1
    BY ClassFacts
  <2>2. get_lower(t)[n] = lower[n]
    BY <2>1, GetLowerStep
  <2>3. get_lower(t + 1)[n] = IF lower[n] = Null THEN Null ELSE get_lower(t + 1)[lower[n]]
    BY <2>1, GetLowerStep
  <2>4. ASSUME lower[n] # Null
        PROVE  /\ lower[n] \in alive /\ class[lower[n]] = t
               /\ get_lower(t + 1)[lower[n]] = lower[lower[n]]
    <3>1. lower[n] \in alive /\ lower[n] \in Addresses /\ class[lower[n]] = t
      BY <2>1, <2>4 DEF TypeOK
    <3>2. class[lower[n]] = (t + 1) - 1
      BY <3>1
    <3> QED BY <3>1, <3>2, GetLowerStep
  <2> QED BY <2>2, <2>3, <2>4 DEF Finds
<1>2. ASSUME NEW d \in S PROVE P(d + 1)
  <2> SUFFICES ASSUME NEW n \in Addresses, class[n] + (d + 1) + 1 = t PROVE Finds(n, t)
    OBVIOUS
  <2>1. class[n] \in Nat /\ class[n] # t - 1 /\ class[n] # (t + 1) - 1
    BY ClassFacts
  <2>2. /\ get_lower(t)[n] = IF lower[n] = Null THEN Null ELSE get_lower(t)[lower[n]]
        /\ get_lower(t + 1)[n] = IF lower[n] = Null THEN Null ELSE get_lower(t + 1)[lower[n]]
    BY <2>1, GetLowerStep
  <2>3. ASSUME lower[n] # Null PROVE Finds(lower[n], t)
    <3>1. lower[n] \in Addresses /\ class[lower[n]] = class[n] + 1
      BY <2>3 DEF TypeOK
    <3>2. class[lower[n]] + d + 1 = t
      BY <2>1, <3>1
    <3> QED BY <3>1, <3>2
  <2> QED BY <2>2, <2>3 DEF Finds
<1>3. S = Nat
  <2>1. \A d \in S : d + 1 \in S
    BY <1>2
  <2>2. 0 \in S /\ S \subseteq Nat
    BY <1>1
  <2> HIDE DEF S
  <2> QED BY <2>1, <2>2, Induction
<1>4. PICK d \in Nat : class[x] + d + 1 = t
  <2>1. t - class[x] - 1 \in Nat
    BY ClassFacts
  <2>2. class[x] + (t - class[x] - 1) + 1 = t
    BY ClassFacts
  <2> QED BY <2>1, <2>2
<1>5. P(d)
  <2> HIDE DEF P
  <2> QED BY <1>3
<1> QED BY <1>4, <1>5

\* The walk up finds a living node or nothing.
LEMMA WalkUp ==
  ASSUME TypeOK, NEW x \in Addresses, NEW t
  PROVE  get_upper(t)[x] \in alive \cup {Null}
<1> DEFINE P(k) == \A n \in Addresses : class[n] = k => get_upper(t)[n] \in alive \cup {Null}
           S == {k \in Nat : P(k)}
<1>1. P(0)
  BY ClassFacts
<1>2. ASSUME NEW k \in S PROVE P(k + 1)
  <2> SUFFICES ASSUME NEW n \in Addresses, class[n] = k + 1
               PROVE  get_upper(t)[n] \in alive \cup {Null}
    OBVIOUS
  <2>1. CASE Lock(upper[n]) = Null \/ class[n] = t + 1
    BY <2>1, GetUpperStep DEF Lock
  <2>2. CASE Lock(upper[n]) # Null /\ class[n] # t + 1
    <3>1. upper[n] \in alive /\ upper[n] \in Addresses /\ upper[n] # Null
      BY <2>2, AddressesAssumption DEF Lock, TypeOK
    <3>2. class[upper[n]] = k
      BY <3>1, ClassFacts DEF TypeOK
    <3>3. get_upper(t)[upper[n]] \in alive \cup {Null}
      BY <3>1, <3>2
    <3> QED BY <2>2, <3>3, GetUpperStep
  <2> QED BY <2>1, <2>2
<1>3. S = Nat
  <2>1. \A k \in S : k + 1 \in S
    BY <1>2
  <2>2. 0 \in S /\ S \subseteq Nat
    BY <1>1
  <2> HIDE DEF S
  <2> QED BY <2>1, <2>2, Induction
<1>4. P(class[x])
  <2>1. class[x] \in S
    BY <1>3, ClassFacts
  <2> QED BY <2>1
<1> QED BY <1>4

\* The classes above a class, and below it.
LEMMA Classes ==
  ASSUME NEW x \in Addresses, NEW t
  PROVE  t \in ToSet(get_lowers(class[x])) => t \in Nat /\ class[x] < t
<1>1. get_lowers(class[x]) = [i \in 1..Depth - class[x] |-> class[x] + i]
  BY DEF get_lowers
<1>2. ASSUME t \in ToSet(get_lowers(class[x]))
      PROVE  \E i \in 1..Depth - class[x] : t = class[x] + i
  BY <1>1, <1>2 DEF ToSet
<1> QED BY <1>2, ClassFacts, DepthAssumption

-----------------------------------------------------------------------------
(* Every step keeps the invariant. *)

\* A node that is made.
LEMMA TopStep ==
  ASSUME IInv, NEW a \in Addresses, NEW u \in Addresses \cup {Null}, make_shared(a, u)
  PROVE  IInv'
<1>0. /\ upper' = [upper EXCEPT ![a] = u] /\ UNCHANGED <<lower, dying>>
      /\ u # Null => class[u] = class[a] - 1
      /\ a \notin alive /\ alive' = alive \cup {a}
  BY DEF make_shared, Free
<1>1. TypeOK'
  BY <1>0, AddressesAssumption DEF IInv, TypeOK, make_shared, Runs, Free
<1>2. Linked'
  BY <1>0 DEF IInv, Linked, TypeOK
<1>3. AliveByOwner'
  BY DEF IInv, AliveByOwner, Owned, make_shared
<1> QED BY <1>1, <1>2, <1>3 DEF IInv

\* A shared_ptr that is given up.
LEMMA ReleaseStep ==
  ASSUME IInv, NEW x \in Addresses, Release(x)
  PROVE  IInv'
<1>1. x \in alive /\ x # Null /\ dying = Null /\ held' = held \ {x} /\ UNCHANGED <<upper, lower, broken>>
  BY AddressesAssumption DEF IInv, TypeOK, Release, Runs
<1>2. \/ UNCHANGED alive /\ dying' = Null /\ Owned(x)'
      \/ alive' = alive \ {x} /\ dying' = x /\ ~ Owned(x)'
  BY <1>1 DEF Release, LetGo
<1>3. TypeOK'
  BY <1>1, <1>2, AddressesAssumption DEF IInv, TypeOK, Owned
<1>4. Linked'
  BY <1>1 DEF IInv, Linked
<1>5. AliveByOwner'
  BY <1>1, <1>2 DEF IInv, AliveByOwner, Owned
<1> QED BY <1>3, <1>4, <1>5 DEF IInv

\* A lower that is made, in the place of another perhaps.
LEMMA LowerStep ==
  ASSUME IInv, NEW n \in Addresses, NEW a \in Addresses, make_lower(n, a)
  PROVE  IInv'
<1>0. PICK y \in Addresses \cup {Null} :
        /\ y = lower[n]
        /\ \/ alive' = alive \cup {a} /\ dying' = Null /\ (y # Null => Owned(y)')
           \/ y # Null /\ alive' = (alive \cup {a}) \ {y} /\ dying' = y /\ ~ Owned(y)'
  BY DEF make_lower
<1>1. /\ dying = Null /\ n \in alive /\ a \notin alive /\ a # n /\ y # a
      /\ a # Null /\ n # Null /\ class[a] = class[n] + 1
      /\ upper[a] = Null /\ lower[a] = Null
      /\ \A x \in Addresses : upper[x] # a /\ lower[x] # a
      /\ class[n] \in Nat
      /\ y # Null => y \in alive /\ class[y] = class[n] + 1
  BY <1>0, AddressesAssumption, ClassFacts DEF IInv, TypeOK, make_lower, Runs, Free
<1>2. /\ held' = held \cup {a} /\ UNCHANGED broken
      /\ upper' = [upper EXCEPT ![a] = n] /\ lower' = [lower EXCEPT ![n] = a]
  BY DEF make_lower
<1>3. \/ alive' = alive \cup {a} /\ dying' = Null /\ (y # Null => Owned(y)')
      \/ y # Null /\ alive' = (alive \cup {a}) \ {y} /\ dying' = y /\ ~ Owned(y)'
  BY <1>0
<1>4. /\ upper' \in [Addresses -> Addresses \cup {Null}]
      /\ lower' \in [Addresses -> Addresses \cup {Null}]
      /\ upper'[a] = n /\ lower'[n] = a
      /\ \A x \in Addresses : /\ x # a => upper'[x] = upper[x]
                              /\ x # n => lower'[x] = lower[x]
  BY <1>2 DEF IInv, TypeOK
<1>5. held \subseteq alive /\ alive \subseteq Addresses /\ broken \in BOOLEAN
  BY DEF IInv, TypeOK
<1>6. alive' \subseteq Addresses /\ held' \subseteq alive' /\ dying' \in (Addresses \ alive') \cup {Null}
  BY <1>1, <1>2, <1>3, <1>5 DEF Owned
<1>7. ASSUME NEW x \in Addresses
      PROVE  /\ upper'[x] # Null => class[upper'[x]] = class[x] - 1
             /\ lower'[x] # Null => class[lower'[x]] = class[x] + 1 /\ lower'[x] \in alive'
             /\ x \notin alive' \cup {dying'} => upper'[x] = Null /\ lower'[x] = Null
  <2>1. upper'[x] # Null => class[upper'[x]] = class[x] - 1
    BY <1>1, <1>4 DEF IInv, TypeOK
  <2>2. lower'[x] # Null => class[lower'[x]] = class[x] + 1
    BY <1>1, <1>4 DEF IInv, TypeOK
  <2>3. lower'[x] # Null => lower'[x] \in alive'
    <3>1. lower'[x] # Null => lower'[x] \in alive \cup {a}
      BY <1>4 DEF IInv, TypeOK
    <3>2. CASE alive' = alive \cup {a}
      BY <3>1, <3>2
    <3>3. CASE y # Null /\ alive' = (alive \cup {a}) \ {y} /\ ~ Owned(y)'
      BY <3>1, <3>3 DEF Owned
    <3> QED BY <1>3, <3>2, <3>3
  <2>4. x \notin alive' \cup {dying'} => upper'[x] = Null /\ lower'[x] = Null
    <3>1. x \notin alive' \cup {dying'} => x \notin alive \cup {a}
      BY <1>3
    <3>2. x \notin alive \cup {a} => upper[x] = Null /\ lower[x] = Null
      BY <1>1, AddressesAssumption DEF IInv, TypeOK
    <3> QED BY <1>1, <1>4, <3>1, <3>2
  <2> QED BY <2>1, <2>2, <2>3, <2>4
<1>8. TypeOK'
  BY <1>2, <1>4, <1>5, <1>6, <1>7 DEF TypeOK
<1>9. Linked'
  <2> SUFFICES ASSUME NEW x \in Addresses, lower'[x] # Null PROVE upper'[lower'[x]] = x
    BY DEF Linked
  <2>1. CASE x = n
    BY <1>4, <2>1
  <2>2. CASE x # n
    BY <1>1, <1>4, <2>2 DEF IInv, Linked, TypeOK
  <2> QED BY <2>1, <2>2
<1>10. AliveByOwner'
  <2> SUFFICES ASSUME NEW x \in alive' PROVE Owned(x)'
    BY DEF AliveByOwner
  <2>1. CASE x = a
    BY <1>2, <2>1 DEF Owned
  <2>2. CASE x # a /\ x # y
    <3>1. x \in alive
      BY <1>3, <2>2
    <3>2. x \in held \/ \E m \in Addresses : lower[m] = x
      BY <3>1 DEF IInv, AliveByOwner, Owned
    <3> QED BY <1>0, <1>2, <1>4, <2>2, <3>2 DEF Owned
  <2>3. CASE x = y
    <3>1. x # Null
      BY <1>6, AddressesAssumption
    <3> QED BY <1>3, <2>3, <3>1
  <2> QED BY <2>1, <2>2, <2>3
<1> QED BY <1>8, <1>9, <1>10 DEF IInv

\* A node that goes.
LEMMA DestructStep ==
  ASSUME IInv, Destruct
  PROVE  IInv'
<1>0. PICK y \in Addresses \cup {Null} : y = lower[dying] /\ LetGo(y)
  BY DEF Destruct
<1>1. dying \in Addresses /\ dying \notin alive /\ dying # Null
  BY DEF IInv, TypeOK, Destruct
<1>2. /\ lower' = [lower EXCEPT ![dying] = Null] /\ upper' = [upper EXCEPT ![dying] = Null]
      /\ UNCHANGED <<held, broken>>
  BY DEF Destruct
<1>3. y # Null => y \in alive
  BY <1>0, <1>1 DEF IInv, TypeOK
<1>4. \/ UNCHANGED alive /\ dying' = Null /\ (y # Null => Owned(y)')
      \/ y # Null /\ alive' = alive \ {y} /\ dying' = y /\ ~ Owned(y)'
  BY <1>0 DEF LetGo
<1>5. /\ upper' \in [Addresses -> Addresses \cup {Null}]
      /\ lower' \in [Addresses -> Addresses \cup {Null}]
      /\ upper'[dying] = Null /\ lower'[dying] = Null
      /\ \A x \in Addresses : x # dying => upper'[x] = upper[x] /\ lower'[x] = lower[x]
  BY <1>1, <1>2 DEF IInv, TypeOK
<1>6. held \subseteq alive /\ alive \subseteq Addresses /\ broken \in BOOLEAN
  BY DEF IInv, TypeOK
<1>7. alive' \subseteq Addresses /\ held' \subseteq alive' /\ dying' \in (Addresses \ alive') \cup {Null}
  BY <1>2, <1>3, <1>4, <1>6 DEF Owned
<1>8. ASSUME NEW x \in Addresses
      PROVE  /\ upper'[x] # Null => class[upper'[x]] = class[x] - 1
             /\ lower'[x] # Null => class[lower'[x]] = class[x] + 1 /\ lower'[x] \in alive'
             /\ x \notin alive' \cup {dying'} => upper'[x] = Null /\ lower'[x] = Null
  <2>1. /\ upper'[x] # Null => class[upper'[x]] = class[x] - 1
        /\ lower'[x] # Null => class[lower'[x]] = class[x] + 1 /\ lower'[x] \in alive
    BY <1>5 DEF IInv, TypeOK
  <2>2. lower'[x] # Null => lower'[x] \in alive'
    BY <1>4, <2>1 DEF Owned
  <2>3. x \notin alive' \cup {dying'} => upper'[x] = Null /\ lower'[x] = Null
    BY <1>1, <1>4, <1>5 DEF IInv, TypeOK
  <2> QED BY <2>1, <2>2, <2>3
<1>9. TypeOK'
  BY <1>2, <1>5, <1>6, <1>7, <1>8 DEF TypeOK
<1>10. Linked'
  BY <1>1, <1>5 DEF IInv, Linked, TypeOK
<1>11. AliveByOwner'
  <2> SUFFICES ASSUME NEW x \in alive' PROVE Owned(x)'
    BY DEF AliveByOwner
  <2>0. CASE x = y
    <3>1. x # Null
      BY <1>7, AddressesAssumption
    <3> QED BY <1>4, <2>0, <3>1
  <2>1. x \in alive
    BY <1>4
  <2>2. x \in held \/ \E m \in Addresses : lower[m] = x
    BY <2>1 DEF IInv, AliveByOwner, Owned
  <2>3. CASE x # y
    BY <1>0, <1>2, <1>5, <2>2, <2>3 DEF Owned
  <2> QED BY <2>0, <2>3
<1> QED BY <1>9, <1>10, <1>11 DEF IInv

\* What get hands out is alive.
LEMMA GetStep ==
  ASSUME IInv, NEW x \in Addresses, NEW t \in 1..Depth, GetUpper(x, t) \/ GetLower(x, t)
  PROVE  IInv'
<1>1. UNCHANGED <<alive, upper, lower, dying>> /\ broken' \in BOOLEAN
  BY DEF GetUpper, GetLower, IInv, TypeOK
<1>2. held \subseteq held' /\ held' \subseteq alive
  <2>0. held \subseteq alive
    BY DEF IInv, TypeOK
  <2>1. CASE GetUpper(x, t)
    <3>1. get_upper(t)[x] \in alive \cup {Null}
      BY WalkUp DEF IInv
    <3> QED BY <2>0, <2>1, <3>1 DEF GetUpper
  <2>2. CASE GetLower(x, t)
    <3>1. t \in Nat /\ class[x] < t
      BY <2>2, Classes DEF GetLower, is_upper_of
    <3>2. get_lower(t)[x] \in alive \cup {Null}
      BY <3>1, WalkDown DEF IInv, Finds
    <3> QED BY <2>0, <2>2, <3>2 DEF GetLower
  <2> QED BY <2>1, <2>2
<1>3. TypeOK'
  BY <1>1, <1>2 DEF IInv, TypeOK
<1>4. Linked'
  BY <1>1 DEF IInv, Linked
<1>5. AliveByOwner'
  BY <1>1, <1>2 DEF IInv, AliveByOwner, Owned
<1> QED BY <1>3, <1>4, <1>5 DEF IInv

\* The neighbours fit and agree, and the living are owned, in every state.
LEMMA Invariance == Spec => []IInv
<1>1. Init => IInv
  BY AddressesAssumption DEF Init, IInv, TypeOK, Linked, AliveByOwner
<1>2. ASSUME IInv, [Next]_vars PROVE IInv'
  <2>1. CASE UNCHANGED vars
    BY <1>2, <2>1 DEF IInv, TypeOK, Linked, AliveByOwner, Owned, vars
  <2> QED BY <1>2, <2>1, TopStep, ReleaseStep, LowerStep, DestructStep, GetStep DEF Next, Stuck
<1> QED BY <1>1, <1>2, PTL DEF Spec

\* A node's neighbours are of the classes next to its own, its lower is alive,
\* and what has gone has none.
THEOREM TypeCorrect == Spec => []TypeOK
BY Invariance, PTL DEF IInv

-----------------------------------------------------------------------------
(* What get finds. *)

\* Up from what the walk down found leads back, one lower after the other.
LEMMA BackUp ==
  ASSUME IInv, NEW x \in alive, NEW t \in Nat, class[x] < t, get_lower(t)[x] # Null
  PROVE  get_upper(class[x])[get_lower(t)[x]] = x
<1> DEFINE c == class[x]
           P(d) == get_lower(c + 1 + d)[x] # Null => get_upper(c)[get_lower(c + 1 + d)[x]] = x
           S == {d \in Nat : P(d)}
<1>0. TypeOK /\ x \in Addresses /\ c \in Nat /\ x # Null
  BY ClassFacts, AddressesAssumption DEF IInv, TypeOK
<1>1. P(0)
  <2>1. get_lower(c + 1)[x] = lower[x]
    <3>1. c = (c + 1) - 1
      BY <1>0
    <3> QED BY <1>0, <3>1, GetLowerStep
  <2>2. ASSUME lower[x] # Null PROVE get_upper(c)[lower[x]] = x
    <3>1. lower[x] \in Addresses /\ class[lower[x]] = c + 1 /\ upper[lower[x]] = x
      BY <1>0, <2>2 DEF IInv, TypeOK, Linked
    <3>2. get_upper(c)[lower[x]] = upper[lower[x]]
      BY <1>0, <3>1, GetUpperStep DEF Lock
    <3> QED BY <3>1, <3>2
  <2>3. c + 1 + 0 = c + 1
    BY <1>0
  <2> HIDE DEF c
  <2> QED BY <2>1, <2>2, <2>3
<1>2. ASSUME NEW d \in S PROVE P(d + 1)
  <2>1. PICK y : y = get_lower(c + 1 + d)[x]
    OBVIOUS
  <2>2. c + 1 + d \in Nat /\ c < c + 1 + d /\ c + 1 + (d + 1) = (c + 1 + d) + 1
    BY <1>0
  <2>3. /\ y # Null => y \in alive /\ class[y] = c + 1 + d
        /\ get_lower(c + 1 + (d + 1))[x] = IF y = Null THEN Null ELSE lower[y]
    BY <1>0, <2>1, <2>2, WalkDown DEF Finds
  <2>4. ASSUME y # Null, lower[y] # Null PROVE get_upper(c)[lower[y]] = x
    <3>1. y \in Addresses /\ y \in alive /\ class[y] = c + 1 + d
      BY <1>0, <2>3, <2>4 DEF TypeOK
    <3>2. /\ lower[y] \in Addresses /\ class[lower[y]] = class[y] + 1
          /\ upper[lower[y]] = y
      BY <1>0, <2>4, <3>1 DEF IInv, TypeOK, Linked
    <3>3. class[lower[y]] # c + 1
      BY <1>0, <3>1, <3>2
    <3>4. get_upper(c)[lower[y]] = get_upper(c)[y]
      BY <1>0, <2>4, <3>1, <3>2, <3>3, GetUpperStep DEF Lock
    <3>5. get_upper(c)[y] = x
      BY <2>1, <2>4
    <3> QED BY <3>4, <3>5
  <2> HIDE DEF c
  <2> QED BY <2>3, <2>4
<1>3. S = Nat
  <2>1. \A d \in S : d + 1 \in S
    BY <1>2
  <2>2. 0 \in S /\ S \subseteq Nat
    BY <1>1
  <2> HIDE DEF S
  <2> QED BY <2>1, <2>2, Induction
<1>4. PICK d \in Nat : t = c + 1 + d
  <2>1. t - c - 1 \in Nat /\ t = c + 1 + (t - c - 1)
    BY <1>0
  <2> QED BY <2>1
<1>5. P(d)
  <2> HIDE DEF P
  <2> QED BY <1>3
<1> QED BY <1>4, <1>5

\* What get finds below a living node finds that node again as its upper of
\* that class: a get downwards never ends in a part of another chain.
THEOREM AndBack == Spec => []ThereAndBack
<1>1. ASSUME IInv PROVE ThereAndBack
  <2> SUFFICES ASSUME NEW x \in alive, NEW t \in ToSet(get_lowers(class[x])),
                      get_lower(t)[x] # Null
               PROVE  /\ class[get_lower(t)[x]] = t
                      /\ get_upper(class[x])[get_lower(t)[x]] = x
    BY DEF ThereAndBack
  <2>1. TypeOK /\ x \in Addresses
    BY <1>1 DEF IInv, TypeOK
  <2>2. t \in Nat /\ class[x] < t
    BY <2>1, Classes
  <2>3. class[get_lower(t)[x]] = t
    BY <2>1, <2>2, WalkDown DEF Finds
  <2>4. get_upper(class[x])[get_lower(t)[x]] = x
    BY <1>1, <2>2, BackUp
  <2> QED BY <2>3, <2>4
<1> QED BY <1>1, Invariance, PTL

\* Found from a node that the program holds.
Found(y) == \E x \in held : class[x] < class[y] /\ get_lower(class[y])[x] = y

\* A living node is held, or below one that is: the chain keeps alive only what
\* the program can come to.
THEOREM NothingLeaks == Spec => []NoLeak
<1>1. ASSUME IInv, dying = Null PROVE \A y \in alive : y \in held \/ Found(y)
  <2> DEFINE P(k) == \A y \in alive : class[y] = k => y \in held \/ Found(y)
             S == {k \in Nat : P(k)}
  <2>0. TypeOK /\ alive \subseteq Addresses /\ held \subseteq alive
    BY <1>1 DEF IInv, TypeOK
  <2>1. P(0)
    BY <2>0, ClassFacts
  <2>2. ASSUME NEW k \in S PROVE P(k + 1)
    <3> SUFFICES ASSUME NEW y \in alive, class[y] = k + 1, y \notin held PROVE Found(y)
      OBVIOUS
    <3>1. PICK n \in Addresses : lower[n] = y
      BY <1>1 DEF IInv, AliveByOwner, Owned
    <3>2. y # Null
      BY <2>0, AddressesAssumption
    <3>3. n \in alive /\ class[y] = class[n] + 1
      BY <1>1, <2>0, <3>1, <3>2, AddressesAssumption DEF TypeOK
    <3>4. class[n] = k
      BY <3>1, <3>3, ClassFacts
    <3>5. CASE n \in held
      <4>1. class[n] = (k + 1) - 1 /\ class[n] < k + 1
        BY <3>4
      <4>2. get_lower(k + 1)[n] = lower[n]
        BY <2>0, <4>1, GetLowerStep
      <4> QED BY <3>1, <3>5, <4>1, <4>2 DEF Found
    <3>6. CASE n \notin held
      <4>1. Found(n)
        BY <3>3, <3>4, <3>6
      <4>2. PICK x \in held : class[x] < k /\ get_lower(k)[x] = n
        BY <3>4, <4>1 DEF Found
      <4>3. x \in Addresses /\ n # Null /\ class[x] \in Nat
        BY <2>0, <3>1, AddressesAssumption, ClassFacts
      <4>4. get_lower(k + 1)[x] = lower[n]
        BY <2>0, <4>2, <4>3, WalkDown DEF Finds
      <4>5. class[x] < k + 1
        BY <4>2, <4>3
      <4> QED BY <3>1, <4>4, <4>5 DEF Found
    <3> QED BY <3>5, <3>6
  <2>3. S = Nat
    <3>1. \A k \in S : k + 1 \in S
      BY <2>2
    <3>2. 0 \in S /\ S \subseteq Nat
      BY <2>1
    <3> HIDE DEF S
    <3> QED BY <3>1, <3>2, Induction
  <2>4. \A k \in Nat : P(k)
    <3> HIDE DEF P
    <3> QED BY <2>3
  <2> QED BY <2>0, <2>4, ClassFacts
<1>2. IInv => NoLeak
  BY <1>1 DEF NoLeak, Found
<1> QED BY <1>2, Invariance, PTL
=============================================================================
