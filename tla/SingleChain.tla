---------------------------- MODULE SingleChain ----------------------------
(***************************************************************************)
(* ltz::layers::single_chain::node                                         *)
(* (src/include/ltz/layers/chain/single_chain.hpp): a chain of nodes of    *)
(* classes 1 (the top) to Depth.  Each owns the one below it and has a     *)
(* weak pointer to the one above it; get walks up or down to the node of a *)
(* class.                                                                  *)
(*                                                                         *)
(* One thread.  A node that is replaced as somebody's lower may live on in *)
(* the program's hands, with what is below it.                             *)
(***************************************************************************)
EXTENDS Integers, SequencesExt

CONSTANTS
  Depth,      \* how many classes the chain has
  Addresses,  \* of the nodes
  class,      \* which class an address is for
  Null

ASSUME DepthAssumption == Depth \in Nat
ASSUME AddressesAssumption == class \in [Addresses -> 1..Depth] /\ Null \notin Addresses

VARIABLES
  alive,   \* the nodes that have an owner
  held,    \* the nodes the program has a shared_ptr to
  upper,   \* of each node, weak
  lower,   \* of each node, shared
  dying,   \* the node in destruction, or Null
  broken   \* a null pointer was dereferenced

vars == <<alive, held, upper, lower, dying, broken>>

-----------------------------------------------------------------------------
(* What the compiler works out. *)

\* The classes above a class, and below it, the nearest first.
get_uppers(c) == [i \in 1..c - 1 |-> c - i]
get_lowers(c) == [i \in 1..Depth - c |-> c + i]

is_lower_of(c, t) == t \in ToSet(get_uppers(c))
is_upper_of(c, t) == t \in ToSet(get_lowers(c))

-----------------------------------------------------------------------------
(* The walks. *)

Lock(x) == IF x \in alive THEN x ELSE Null

\* get_upper<T>: Null as soon as a node on the way is gone.
get_upper(t) ==
  LET up[x \in Addresses] ==
        IF Lock(upper[x]) = Null THEN Null
        ELSE IF class[x] = t + 1 THEN upper[x]
        ELSE up[upper[x]]
  IN  up

\* get_lower<T>: nobody asks whether there is a node on the way (Breaks).
get_lower(t) ==
  LET down[x \in Addresses] ==
        IF class[x] = t - 1 THEN lower[x]
        ELSE IF lower[x] = Null THEN Null
        ELSE down[lower[x]]
  IN  down

\* The walk down meets a node whose lower is missing before the last.
Breaks(x, t) ==
  \E c \in class[x] + 1..t - 1 : get_lower(c)[x] = Null

-----------------------------------------------------------------------------
(* Owners. *)

\* Mutant: a node owns the one above it as well.
Owned_BothWays(x) == x \in held \/ \E n \in Addresses : lower[n] = x \/ upper[n] = x

Owned(x) == x \in held \/ \E n \in Addresses : lower[n] = x

\* After a shared_ptr to x is gone.
LetGo(x) ==
  IF x = Null \/ Owned(x)' THEN UNCHANGED alive /\ dying' = Null
                           ELSE alive' = alive \ {x} /\ dying' = x

\* A node in destruction lets its lower go, and is gone with it.
Destruct ==
  /\ dying # Null
  /\ \E y \in Addresses \cup {Null} :
       /\ y = lower[dying]
       /\ lower' = [lower EXCEPT ![dying] = Null]
       /\ upper' = [upper EXCEPT ![dying] = Null]
       /\ UNCHANGED <<held, broken>>
       /\ LetGo(y)

-----------------------------------------------------------------------------
(* The program. *)

Runs == dying = Null /\ ~broken

Free(a) == a \notin alive /\ \A n \in Addresses : upper[n] # a

Init ==
  /\ alive = {} /\ held = {}
  /\ upper = [a \in Addresses |-> Null]
  /\ lower = [a \in Addresses |-> Null]
  /\ dying = Null
  /\ broken = FALSE

\* A node of any class, made without an upper, or with one that does not come
\* to own it.  (An upper that has expired is as good as none.)
make_shared(a, u) ==
  /\ Runs /\ Free(a)
  /\ u = Null \/ (u \in held /\ class[u] = class[a] - 1)
  /\ alive' = alive \cup {a}
  /\ held' = held \cup {a}
  /\ upper' = [upper EXCEPT ![a] = u]
  /\ UNCHANGED <<lower, dying, broken>>

\* Mutant: the new lower is made without its upper.
make_lower_Orphan(n, a) ==
  /\ Runs /\ n \in held /\ Free(a) /\ class[a] = class[n] + 1
  /\ held' = held \cup {a}
  /\ lower' = [lower EXCEPT ![n] = a]
  /\ UNCHANGED <<upper, broken>>
  /\ \E y \in Addresses \cup {Null} :
       /\ y = lower[n]
       /\ IF y = Null \/ Owned(y)'
            THEN alive' = alive \cup {a} /\ dying' = Null
            ELSE alive' = (alive \cup {a}) \ {y} /\ dying' = y

\* The new node takes the place of the old lower, which is let go.
make_lower(n, a) ==
  /\ Runs /\ n \in held /\ Free(a) /\ class[a] = class[n] + 1
  /\ held' = held \cup {a}
  /\ upper' = [upper EXCEPT ![a] = n]
  /\ lower' = [lower EXCEPT ![n] = a]
  /\ UNCHANGED broken
  /\ \E y \in Addresses \cup {Null} :
       /\ y = lower[n]
       /\ IF y = Null \/ Owned(y)'
            THEN alive' = alive \cup {a} /\ dying' = Null
            ELSE alive' = (alive \cup {a}) \ {y} /\ dying' = y

\* get<T>(), up or down.  The program keeps what it gets.
GetUpper(x, t) ==
  /\ Runs /\ x \in held /\ is_lower_of(class[x], t)
  /\ held' = held \cup ({get_upper(t)[x]} \ {Null})
  /\ UNCHANGED <<alive, upper, lower, dying, broken>>

GetLower(x, t) ==
  /\ Runs /\ x \in held /\ is_upper_of(class[x], t)
  /\ IF Breaks(x, t) THEN broken' = TRUE /\ UNCHANGED held
                     ELSE held' = held \cup ({get_lower(t)[x]} \ {Null}) /\ UNCHANGED broken
  /\ UNCHANGED <<alive, upper, lower, dying>>

Release(x) ==
  /\ Runs /\ x \in held
  /\ held' = held \ {x}
  /\ UNCHANGED <<upper, lower, broken>>
  /\ LetGo(x)

\* Whatever comes of a null pointer is not of this model.
Stuck == broken /\ UNCHANGED vars

Next ==
  \/ \E a \in Addresses, u \in Addresses \cup {Null} : make_shared(a, u)
  \/ \E x \in Addresses : Release(x)
  \/ \E n, a \in Addresses : make_lower(n, a)
  \/ \E x \in Addresses, t \in 1..Depth : GetUpper(x, t) \/ GetLower(x, t)
  \/ Destruct \/ Stuck

Spec == Init /\ [][Next]_vars

-----------------------------------------------------------------------------
(* Properties. *)

\* Every variable has its type; a node's neighbours are of the classes next to
\* its own, its lower is alive, and what is not alive has none.
TypeOK ==
  /\ alive \subseteq Addresses /\ held \subseteq alive
  /\ upper \in [Addresses -> Addresses \cup {Null}]
  /\ lower \in [Addresses -> Addresses \cup {Null}]
  /\ dying \in (Addresses \ alive) \cup {Null}
  /\ broken \in BOOLEAN
  /\ \A x \in Addresses :
       /\ upper[x] # Null => class[upper[x]] = class[x] - 1
       /\ lower[x] # Null => class[lower[x]] = class[x] + 1 /\ lower[x] \in alive
       /\ x \notin alive \cup {dying} => upper[x] = Null /\ lower[x] = Null

\* What a node finds below itself finds it above itself, at any distance, also
\* after lowers have been replaced, nodes have died, addresses been used again,
\* and beside nodes that were given an upper which does not own them.
ThereAndBack ==
  dying = Null =>
    \A x \in alive : \A t \in ToSet(get_lowers(class[x])) :
      LET y == get_lower(t)[x]
      IN  y # Null => class[y] = t /\ get_upper(class[x])[y] = x

\* What the program cannot come to any more is gone: a living node is held, or
\* is below a node that is.
NoLeak ==
  dying = Null =>
    \A y \in alive :
      y \in held \/ \E x \in held : class[x] < class[y] /\ get_lower(class[y])[x] = y
=============================================================================
