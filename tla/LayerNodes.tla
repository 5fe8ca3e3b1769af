----------------------------- MODULE LayerNodes -----------------------------
(***************************************************************************)
(* ltz::layers::node (src/include/ltz/layers/layer/): nodes of a layered   *)
(* graph.  A node owns its lowers by shared pointers and knows its uppers  *)
(* by weak ones, each in sets by type; for_each and prune_expired drop the *)
(* uppers that are gone.                                                   *)
(*                                                                         *)
(* One thread.  The function that for_each calls may use every operation   *)
(* again, on any node it has in hand.  A node dies when its last owner     *)
(* lets it go, and lets its lowers go one by one.  An address is used      *)
(* again when nothing refers to it any more, weakly either; a set is in    *)
(* the order of its addresses.                                             *)
(*                                                                         *)
(* The caller of for_each keeps the node it calls it on until it returns;  *)
(* the code does not.                                                      *)
(***************************************************************************)
EXTENDS Integers, SequencesExt

CONSTANTS
  Addresses,  \* of the nodes: natural numbers
  Types,      \* the classes derived from node
  type,       \* which class an address is for
  Uppers,     \* UpperSets of each class
  Lowers,     \* LowerSets of each class
  Rank,       \* the layer of each class, counted from the top
  End,        \* the end of a set
  MaxWalks    \* bound: for_each calls within each other

ASSUME AddressesAssumption == Addresses \subseteq Nat /\ End \notin Addresses
ASSUME ClassesAssumption ==
  /\ type \in [Addresses -> Types]
  /\ Uppers \in [Types -> SUBSET Types] /\ Lowers \in [Types -> SUBSET Types]
\* What makes the classes layers.  (The code compiles without it.)
ASSUME RankAssumption ==
  Rank \in [Types -> Nat] /\ \A t \in Types : \A l \in Lowers[t] : Rank[t] < Rank[l]
ASSUME MaxWalksAssumption == MaxWalks \in Nat

VARIABLES
  alive,   \* the nodes that have an owner
  held,    \* the nodes the program has a shared_ptr to
  upper,   \* layer.upper of each node
  lower,   \* layer.lower of each node
  dying,   \* the nodes in destruction, each inside the one before
  walks,   \* the for_each calls in progress, each inside the one before
  maker    \* history: the node that made_lower a node, while it lives

vars == <<alive, held, upper, lower, dying, walks, maker>>

Walk == [node : Addresses, of : Types, at : Addresses \cup {End},
         phase : {"next", "func"}, due : SUBSET Addresses]

-----------------------------------------------------------------------------
(* Owners. *)

\* The shared_ptr that for_each has locked.
Locked(x) == \E i \in DOMAIN walks : walks[i].phase = "func" /\ walks[i].at = x

\* Mutant: the uppers are owned too.
Owned_UppersToo(x) ==
  x \in held \/ Locked(x) \/ \E n \in Addresses : x \in lower[n] \/ x \in upper[n]

\* Mutant: for_each gives its pointer away to the function.
Owned_NotByWalks(x) == x \in held \/ \E n \in Addresses : x \in lower[n]

\* Mutant: a lower belongs to one upper alone.
Owned_NotByLowers(x) == x \in held \/ Locked(x)

Owned(x) == x \in held \/ Locked(x) \/ \E n \in Addresses : x \in lower[n]

InHand(x) == x \in held \/ Locked(x)

\* After a shared_ptr to x is gone: without another owner x begins to die, and
\* is expired for everybody from now on.
LetGo(x) ==
  IF Owned(x)' \/ x \notin alive
    THEN UNCHANGED <<alive, dying, maker>>
    ELSE /\ alive' = alive \ {x}
         /\ dying' = Append(dying, x)
         /\ maker' = [m \in Addresses |-> IF m = x \/ maker[m] = x THEN End ELSE maker[m]]

\* The innermost node in destruction lets a lower go, or is gone itself.
Destruct ==
  /\ dying # << >>
  /\ \/ \E y \in lower[Last(dying)] :
          /\ lower' = [lower EXCEPT ![Last(dying)] = @ \ {y}]
          /\ UNCHANGED <<held, upper, walks>>
          /\ LetGo(y)
     \/ /\ lower[Last(dying)] = {}
        /\ upper' = [upper EXCEPT ![Last(dying)] = {}]
        /\ dying' = Front(dying)
        /\ UNCHANGED <<alive, held, lower, walks, maker>>

-----------------------------------------------------------------------------
(* What the program does, also from the function of a for_each. *)

Runs == dying = << >> /\ (walks # << >> => Last(walks).phase = "func")

Free(a) == a \notin alive /\ \A n \in Addresses : a \notin upper[n]

\* A new node at a free address is none that a for_each has to meet.
Construct(a) ==
  /\ Runs /\ Free(a)
  /\ alive' = alive \cup {a}
  /\ held' = held \cup {a}
  /\ walks' = [i \in DOMAIN walks |-> [walks[i] EXCEPT !.due = @ \ {a}]]

Init ==
  /\ alive = {} /\ held = {}
  /\ upper = [a \in Addresses |-> {}]
  /\ lower = [a \in Addresses |-> {}]
  /\ dying = << >> /\ walks = << >>
  /\ maker = [a \in Addresses |-> End]

make_shared(a) ==
  /\ Construct(a)
  /\ UNCHANGED <<upper, lower, dying, maker>>

\* Mutant: the constructor does not pass its upper on.
make_lower_Unknown(n, a) ==
  /\ InHand(n) /\ type[a] \in Lowers[type[n]]
  /\ Construct(a)
  /\ lower' = [lower EXCEPT ![n] = @ \cup {a}]
  /\ maker' = [maker EXCEPT ![a] = n]
  /\ UNCHANGED <<upper, dying>>

make_lower(n, a) ==
  /\ InHand(n) /\ type[a] \in Lowers[type[n]] /\ type[n] \in Uppers[type[a]]
  /\ Construct(a)
  /\ upper' = [upper EXCEPT ![a] = {n}]
  /\ lower' = [lower EXCEPT ![n] = @ \cup {a}]
  /\ maker' = [maker EXCEPT ![a] = n]
  /\ UNCHANGED dying

AddUpper(n, u) ==
  /\ Runs /\ InHand(n) /\ InHand(u) /\ type[u] \in Uppers[type[n]]
  /\ upper' = [upper EXCEPT ![n] = @ \cup {u}]
  /\ UNCHANGED <<alive, held, lower, dying, walks, maker>>

AddLower(n, m) ==
  /\ Runs /\ InHand(n) /\ InHand(m) /\ type[m] \in Lowers[type[n]]
  /\ lower' = [lower EXCEPT ![n] = @ \cup {m}]
  /\ UNCHANGED <<alive, held, upper, dying, walks, maker>>

\* Mutant: the pruning does not ask whether they are expired.
prune_expired_All(n, types) ==
  /\ Runs /\ InHand(n)
  /\ upper' = [upper EXCEPT ![n] = {u \in @ : type[u] \notin types}]
  /\ UNCHANGED <<alive, held, lower, dying, walks, maker>>

prune_expired(n, types) ==
  /\ Runs /\ InHand(n)
  /\ upper' = [upper EXCEPT ![n] = {u \in @ : u \in alive \/ type[u] \notin types}]
  /\ UNCHANGED <<alive, held, lower, dying, walks, maker>>

\* A copy of a pointer that get_set or for_each shows, locked if it is weak.
Take(n, m) ==
  /\ Runs /\ InHand(n)
  /\ m \in (lower[n] \cup upper[n] \cup {n}) \cap alive
  /\ held' = held \cup {m}
  /\ UNCHANGED <<alive, upper, lower, dying, walks, maker>>

Release(x) ==
  /\ Runs /\ x \in held
  /\ \A i \in DOMAIN walks : walks[i].node # x
  /\ held' = held \ {x}
  /\ UNCHANGED <<upper, lower, walks>>
  /\ LetGo(x)

-----------------------------------------------------------------------------
(* for_each *)

\* The first element of the set, or of what comes behind an element of it.
First(set) == IF set = {} THEN End ELSE Min(set)

Set(n, t) == {u \in upper[n] : type[u] = t}

Behind(w) == First({u \in Set(w.node, w.of) : u > w.at})

ForEach(n, t) ==
  /\ Runs /\ InHand(n) /\ t \in Uppers[type[n]] /\ Len(walks) < MaxWalks
  /\ walks' = Append(walks, [node |-> n, of |-> t, at |-> First(Set(n, t)), phase |-> "next",
                             due |-> Set(n, t) \cap alive])
  /\ UNCHANGED <<alive, held, upper, lower, dying, maker>>

SetTop(w) == walks' = [walks EXCEPT ![Len(walks)] = w]

\* Mutant: the iterator goes on once more after it has erased.
ForEachErases_Skips ==
  LET w == Last(walks)
  IN  /\ dying = << >> /\ walks # << >>
      /\ w.phase = "next" /\ w.at # End /\ w.at \notin alive
      /\ upper' = [upper EXCEPT ![w.node] = @ \ {w.at}]
      /\ SetTop([w EXCEPT !.at = IF Behind(w) = End THEN End
                                 ELSE First({u \in Set(w.node, w.of) : u > Behind(w)})])
      /\ UNCHANGED <<alive, held, lower, dying, maker>>

\* The upper at the iterator is gone.
ForEachErases ==
  LET w == Last(walks)
  IN  /\ dying = << >> /\ walks # << >>
      /\ w.phase = "next" /\ w.at # End /\ w.at \notin alive
      /\ upper' = [upper EXCEPT ![w.node] = @ \ {w.at}]
      /\ SetTop([w EXCEPT !.at = Behind(w)])
      /\ UNCHANGED <<alive, held, lower, dying, maker>>

\* It is there: it is locked and the function called.
ForEachCalls ==
  LET w == Last(walks)
  IN  /\ dying = << >> /\ walks # << >>
      /\ w.phase = "next" /\ w.at \in alive
      /\ SetTop([w EXCEPT !.phase = "func", !.due = @ \ {w.at}])
      /\ UNCHANGED <<alive, held, upper, lower, dying, maker>>

\* The function returns: the iterator goes on, then the pointer is let go.
FuncReturns ==
  LET w == Last(walks)
  IN  /\ dying = << >> /\ walks # << >> /\ w.phase = "func"
      /\ SetTop([w EXCEPT !.phase = "next", !.at = Behind(w)])
      /\ UNCHANGED <<held, upper, lower>>
      /\ \E x \in alive : x = w.at /\ LetGo(x)

ForEachReturns ==
  /\ dying = << >> /\ walks # << >>
  /\ Last(walks).phase = "next" /\ Last(walks).at = End
  /\ walks' = Front(walks)
  /\ UNCHANGED <<alive, held, upper, lower, dying, maker>>

Next ==
  \/ \E a \in Addresses : make_shared(a) \/ Release(a)
  \/ \E n, a \in Addresses :
       make_lower(n, a) \/ AddUpper(n, a) \/ AddLower(n, a) \/ Take(n, a)
  \/ \E n \in Addresses : \E t \in Uppers[type[n]] : prune_expired(n, {t}) \/ ForEach(n, t)
  \/ \E n \in Addresses : prune_expired(n, Uppers[type[n]])
  \/ ForEachErases \/ ForEachCalls \/ FuncReturns \/ ForEachReturns
  \/ Destruct

Spec == Init /\ [][Next]_vars

-----------------------------------------------------------------------------
(* Properties. *)

\* Every variable has its type; no node is alive and in destruction, and what
\* is neither has nothing.
TypeOK ==
  /\ alive \subseteq Addresses /\ held \subseteq alive
  /\ upper \in [Addresses -> SUBSET Addresses]
  /\ lower \in [Addresses -> SUBSET Addresses]
  /\ dying \in Seq(Addresses) /\ IsInjective(dying) /\ ToSet(dying) \cap alive = {}
  /\ walks \in Seq(Walk) /\ Len(walks) <= MaxWalks
  /\ maker \in [Addresses -> Addresses \cup {End}]
  /\ \A a \in Addresses \ (alive \cup ToSet(dying)) : upper[a] = {} /\ lower[a] = {}

\* No node has a pointer to a lower that is gone, not even while it dies.
LowersLive == \A n \in Addresses : lower[n] \subseteq alive

\* What the program cannot come to any more is gone: no set of nodes lives by
\* its own members alone.
NoLeak ==
  dying = << >> =>
    \A S \in (SUBSET alive) \ {{}} :
      \E x \in S : InHand(x) \/ \E n \in alive \ S : x \in lower[n]

\* The iterator of a for_each stays valid and its set is there, whatever the
\* function does, also when it goes over the same set again or prunes it.
WalkIsSafe ==
  \A i \in DOMAIN walks :
    /\ walks[i].node \in alive
    /\ walks[i].at # End => walks[i].at \in Set(walks[i].node, walks[i].of)
    /\ walks[i].phase = "func" => walks[i].at \in alive

\* A for_each that comes to its end has called its function with every upper
\* that was there from its beginning.
WalkMeetsAll ==
  \A i \in DOMAIN walks :
    walks[i].phase = "next" /\ walks[i].at = End => walks[i].due \cap alive = {}

\* A living node forgets an upper only when that is gone.
UppersKept ==
  [][\A n \in alive \cap alive' : \A u \in upper[n] \ upper'[n] : u \notin alive]_vars

\* As long as the maker of a node lives, it has the node as a lower, and the
\* node has it as an upper.
MakerIsKnown ==
  \A x \in alive : maker[x] # End => maker[x] \in upper[x] /\ x \in lower[maker[x]]
=============================================================================
