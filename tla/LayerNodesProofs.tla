-------------------------- MODULE LayerNodesProofs --------------------------
(***************************************************************************)
(* Proofs about LayerNodes, for every set of addresses and classes, every  *)
(* depth of for_each calls, and, where NoLeak needs them, layers.          *)
(***************************************************************************)
EXTENDS LayerNodes, SequenceTheorems, WellFoundedInduction, TLAPS

\* A lower is there, and of a class that its upper may have below it.
LowersFit ==
  \A n \in Addresses : \A y \in lower[n] : y \in alive /\ type[y] \in Lowers[type[n]]

\* Who is alive is so by an owner.
AliveByOwner == \A x \in alive : Owned(x)

\* A for_each inside another was called by its function, on a node in hand.
Nested ==
  \A i \in DOMAIN walks :
    /\ i < Len(walks) => walks[i].phase = "func"
    /\ walks[i].node \in held \/ \E j \in DOMAIN walks : j < i /\ walks[j].at = walks[i].node

\* What a for_each still has to meet is at the iterator or behind it.
DueAhead ==
  \A i \in DOMAIN walks : \A u \in walks[i].due \cap alive :
    /\ u \in Set(walks[i].node, walks[i].of)
    /\ walks[i].at # End /\ walks[i].at <= u
    /\ walks[i].phase = "func" => walks[i].at < u

\* History is kept for the living only, and of the living.
MakerLives == \A x \in Addresses : maker[x] # End => x \in alive /\ maker[x] \in alive

IInv == /\ TypeOK /\ LowersFit /\ AliveByOwner /\ Nested /\ WalkIsSafe /\ DueAhead
        /\ MakerLives /\ MakerIsKnown

-----------------------------------------------------------------------------
(* Sets and sequences. *)

Less == {ss \in Nat \X Nat : ss[1] < ss[2]}

LEMMA LessWellFounded == IsWellFoundedOn(Less, Nat)
BY NatLessThanWellFounded DEF OpToRel, Less

\* The first element of a set is one of it, and none is before it.
LEMMA FirstFacts ==
  ASSUME NEW S \in SUBSET Addresses, S # {}
  PROVE  First(S) \in S /\ \A y \in S : First(S) <= y
<1>1. S \subseteq Nat
  BY AddressesAssumption
<1>2. PICK x \in S : \A y \in S : ~ (<<y, x>> \in Less)
  BY <1>1, LessWellFounded, WFMin, Zenon
<1>3. \A y \in S : x <= y
  <2> TAKE y \in S
  <2>1. ~ (y < x)
    BY <1>1, <1>2 DEF Less
  <2> QED BY <2>1, <1>1
<1> QED BY <1>3 DEF First, Min

\* The last element of a sequence.
LEMMA LastFacts ==
  ASSUME NEW S, NEW s \in Seq(S), s # << >>
  PROVE  /\ Len(s) \in Nat /\ Len(s) > 0 /\ DOMAIN s = 1..Len(s)
         /\ Len(s) \in DOMAIN s /\ Last(s) = s[Len(s)] /\ Last(s) \in S
BY EmptySeq DEF Last

\* It is replaced, ...
LEMMA ReplaceLast ==
  ASSUME NEW S, NEW s \in Seq(S), s # << >>, NEW w \in S, NEW r, r = [s EXCEPT ![Len(s)] = w]
  PROVE  /\ r \in Seq(S) /\ Len(r) = Len(s) /\ DOMAIN r = DOMAIN s /\ r[Len(s)] = w
         /\ \A i \in DOMAIN s : i # Len(s) => r[i] = s[i]
<1>1. Len(s) \in Nat /\ Len(s) \in DOMAIN s /\ DOMAIN s = 1..Len(s)
  BY LastFacts
<1>2. r \in Seq(S) /\ Len(r) = Len(s)
  BY <1>1, ExceptSeq
<1> QED BY <1>1, <1>2

\* ... removed, ...
LEMMA RemoveLast ==
  ASSUME NEW S, NEW s \in Seq(S), s # << >>
  PROVE  /\ Front(s) \in Seq(S) /\ Len(Front(s)) = Len(s) - 1
         /\ DOMAIN Front(s) = 1..Len(s) - 1
         /\ \A i \in 1..Len(s) - 1 : Front(s)[i] = s[i]
<1>1. Len(s) \in Nat /\ Len(s) > 0 /\ DOMAIN s = 1..Len(s) /\ \A i \in 1..Len(s) : s[i] \in S
  BY LastFacts
<1> DEFINE n == Len(s) - 1
<1>2. 1 \in Int /\ n \in Int /\ \A i \in 1..n : s[i] \in S
  BY <1>1
<1>3. /\ SubSeq(s, 1, n) \in Seq(S)
      /\ Len(SubSeq(s, 1, n)) = IF 1 <= n THEN n - 1 + 1 ELSE 0
      /\ \A i \in 1..n - 1 + 1 : SubSeq(s, 1, n)[i] = s[1 + i - 1]
  <2> HIDE DEF n
  <2> QED BY <1>2, SubSeqProperties
<1>4. Len(SubSeq(s, 1, n)) = n
  BY <1>1, <1>3
<1>5. DOMAIN SubSeq(s, 1, n) = 1..n
  BY <1>3, <1>4, LenProperties
<1>6. \A i \in 1..n : SubSeq(s, 1, n)[i] = s[i]
  BY <1>1, <1>3
<1> QED BY <1>3, <1>4, <1>5, <1>6 DEF Front

\* ... or comes.
LEMMA AddLast ==
  ASSUME NEW S, NEW s \in Seq(S), NEW w \in S
  PROVE  /\ Append(s, w) \in Seq(S) /\ Len(Append(s, w)) = Len(s) + 1
         /\ DOMAIN Append(s, w) = 1..Len(s) + 1 /\ DOMAIN s = 1..Len(s) /\ Len(s) \in Nat
         /\ Append(s, w)[Len(s) + 1] = w
         /\ \A i \in DOMAIN s : Append(s, w)[i] = s[i]
OBVIOUS

-----------------------------------------------------------------------------
(* Owners. *)

\* Who can be called is alive.
LEMMA InHandAlive ==
  ASSUME TypeOK, WalkIsSafe, NEW x, InHand(x)
  PROVE  x \in alive
BY DEF TypeOK, WalkIsSafe, InHand, Locked

\* Letting go is nothing if there is another owner, and death if there is none.
LEMMA LetGoCases ==
  ASSUME NEW x, LetGo(x)
  PROVE  \/ UNCHANGED <<alive, dying, maker>> /\ (x \in alive => Owned(x)')
         \/ /\ x \in alive /\ ~ Owned(x)'
            /\ alive' = alive \ {x} /\ dying' = Append(dying, x)
            /\ maker' = [m \in Addresses |-> IF m = x \/ maker[m] = x THEN End ELSE maker[m]]
BY DEF LetGo

-----------------------------------------------------------------------------
(* TypeOK *)

\* The for_each that runs.
LEMMA LastWalk ==
  ASSUME walks \in Seq(Walk), walks # << >>
  PROVE  /\ Len(walks) \in Nat /\ Len(walks) \in DOMAIN walks /\ DOMAIN walks = 1..Len(walks)
         /\ Last(walks) = walks[Len(walks)] /\ Last(walks) \in Walk
         /\ Last(walks).node \in Addresses /\ Last(walks).at \in Addresses \cup {End}
<1>1. Last(walks) \in Walk
  BY LastFacts
<1> QED BY <1>1, LastFacts DEF Walk

LEMMA TypeOfSets ==
  ASSUME IInv, [Next]_vars
  PROVE  /\ alive' \subseteq Addresses /\ held' \subseteq alive'
         /\ upper' \in [Addresses -> SUBSET Addresses]
         /\ lower' \in [Addresses -> SUBSET Addresses]
         /\ maker' \in [Addresses -> Addresses \cup {End}]
<1> DEFINE Goal == /\ alive' \subseteq Addresses /\ held' \subseteq alive'
                   /\ upper' \in [Addresses -> SUBSET Addresses]
                   /\ lower' \in [Addresses -> SUBSET Addresses]
                   /\ maker' \in [Addresses -> Addresses \cup {End}]
<1> USE DEF IInv, TypeOK
<1>0. ASSUME NEW x \in Addresses, LetGo(x), held' \subseteq held
      PROVE  /\ alive' \subseteq Addresses /\ held' \subseteq alive'
             /\ maker' \in [Addresses -> Addresses \cup {End}]
  BY <1>0, LetGoCases DEF Owned
<1>1. ASSUME NEW a \in Addresses, make_shared(a) PROVE Goal
  BY <1>1 DEF make_shared, Construct
<1>2. ASSUME NEW x \in Addresses, Release(x) PROVE Goal
  BY <1>0, <1>2 DEF Release
<1>3. ASSUME NEW n \in Addresses, NEW a \in Addresses, make_lower(n, a) PROVE Goal
  BY <1>3 DEF make_lower, Construct
<1>4. ASSUME NEW n \in Addresses, NEW a \in Addresses,
             AddUpper(n, a) \/ AddLower(n, a) \/ Take(n, a)
      PROVE  Goal
  BY <1>4 DEF AddUpper, AddLower, Take
<1>5. ASSUME NEW n \in Addresses, NEW T, prune_expired(n, T) PROVE Goal
  BY <1>5 DEF prune_expired
<1>6. ASSUME NEW n \in Addresses, NEW t, ForEach(n, t) PROVE Goal
  BY <1>6 DEF ForEach
<1>7. CASE ForEachErases
  BY <1>7 DEF ForEachErases
<1>8. CASE ForEachCalls \/ ForEachReturns
  BY <1>8 DEF ForEachCalls, ForEachReturns
<1>9. CASE FuncReturns
  BY <1>0, <1>9 DEF FuncReturns
<1>10. CASE Destruct
  <2>1. ASSUME NEW y \in lower[Last(dying)], LetGo(y), UNCHANGED <<held, upper, walks>>,
               lower' = [lower EXCEPT ![Last(dying)] = @ \ {y}], dying # << >>
        PROVE  Goal
    <3>1. Last(dying) \in Addresses
      BY <2>1, LastFacts
    <3>2. y \in Addresses
      BY <2>1, <3>1
    <3> QED BY <1>0, <2>1, <3>1, <3>2
  <2> QED BY <1>10, <2>1 DEF Destruct
<1>11. CASE UNCHANGED vars
  BY <1>11 DEF vars
<1> QED BY <1>1, <1>2, <1>3, <1>4, <1>5, <1>6, <1>7, <1>8, <1>9, <1>10, <1>11 DEF Next

\* A node that begins to die is none that is dying already.
LEMMA AddDying ==
  ASSUME NEW x \in alive, dying \in Seq(Addresses), IsInjective(dying),
         ToSet(dying) \cap alive = {}, alive \subseteq Addresses,
         alive' = alive \ {x}, dying' = Append(dying, x)
  PROVE  /\ dying' \in Seq(Addresses) /\ IsInjective(dying')
         /\ ToSet(dying') = ToSet(dying) \cup {x} /\ ToSet(dying') \cap alive' = {}
<1>1. /\ Len(dying) \in Nat /\ DOMAIN dying = 1..Len(dying)
      /\ DOMAIN dying' = 1..Len(dying) + 1
      /\ dying' \in Seq(Addresses) /\ dying'[Len(dying) + 1] = x
      /\ \A i \in DOMAIN dying : dying'[i] = dying[i]
  BY AddLast
<1>2. \A i \in DOMAIN dying : dying[i] # x
  BY DEF ToSet
<1>3. DOMAIN dying' = DOMAIN dying \cup {Len(dying) + 1}
  BY <1>1
<1>4. IsInjective(dying')
  BY <1>1, <1>2, <1>3 DEF IsInjective
<1>5. ToSet(dying') = ToSet(dying) \cup {x}
  BY <1>1, <1>3 DEF ToSet
<1> QED BY <1>1, <1>4, <1>5

\* The innermost one that is gone was there once.
LEMMA DropDying ==
  ASSUME dying \in Seq(Addresses), dying # << >>, IsInjective(dying)
  PROVE  /\ Front(dying) \in Seq(Addresses) /\ IsInjective(Front(dying))
         /\ ToSet(Front(dying)) = ToSet(dying) \ {Last(dying)}
         /\ Last(dying) \in Addresses /\ Last(dying) \in ToSet(dying)
<1>1. /\ Len(dying) \in Nat /\ Len(dying) > 0 /\ DOMAIN dying = 1..Len(dying)
      /\ Last(dying) = dying[Len(dying)] /\ Last(dying) \in Addresses
  BY LastFacts
<1>2. /\ Front(dying) \in Seq(Addresses) /\ DOMAIN Front(dying) = 1..Len(dying) - 1
      /\ \A i \in 1..Len(dying) - 1 : Front(dying)[i] = dying[i]
  BY RemoveLast
<1>3. DOMAIN dying = DOMAIN Front(dying) \cup {Len(dying)} /\ Len(dying) \notin DOMAIN Front(dying)
  BY <1>1, <1>2
<1>4. \A i \in DOMAIN Front(dying) : Front(dying)[i] = dying[i]
  BY <1>2
<1>5. IsInjective(Front(dying))
  BY <1>3, <1>4 DEF IsInjective
<1>6. ToSet(Front(dying)) = ToSet(dying) \ {Last(dying)}
  <2>1. \A i \in DOMAIN Front(dying) : dying[i] # Last(dying)
    BY <1>1, <1>3 DEF IsInjective
  <2>2. ToSet(Front(dying)) \subseteq ToSet(dying) \ {Last(dying)}
    BY <2>1, <1>3, <1>4 DEF ToSet
  <2>3. ASSUME NEW i \in DOMAIN dying, dying[i] # Last(dying)
        PROVE  i \in DOMAIN Front(dying) /\ Front(dying)[i] = dying[i]
    BY <2>3, <1>1, <1>3, <1>4
  <2>4. ToSet(dying) \ {Last(dying)} \subseteq ToSet(Front(dying))
    BY <2>3 DEF ToSet
  <2> QED BY <2>2, <2>4
<1> QED BY <1>1, <1>2, <1>3, <1>5, <1>6 DEF ToSet

LEMMA TypeOfDying ==
  ASSUME IInv, [Next]_vars
  PROVE  /\ dying' \in Seq(Addresses) /\ IsInjective(dying') /\ ToSet(dying') \cap alive' = {}
         /\ \A a \in Addresses \ (alive' \cup ToSet(dying')) : upper'[a] = {} /\ lower'[a] = {}
<1> DEFINE Goal ==
      /\ dying' \in Seq(Addresses) /\ IsInjective(dying') /\ ToSet(dying') \cap alive' = {}
      /\ \A a \in Addresses \ (alive' \cup ToSet(dying')) : upper'[a] = {} /\ lower'[a] = {}
<1> USE DEF IInv, TypeOK
<1>0. ASSUME NEW x \in Addresses, LetGo(x),
             \A a \in Addresses \ (alive \cup ToSet(dying)) : upper'[a] = {} /\ lower'[a] = {}
      PROVE  Goal
  <2>1. CASE UNCHANGED <<alive, dying>>
    BY <1>0, <2>1
  <2>2. CASE x \in alive /\ alive' = alive \ {x} /\ dying' = Append(dying, x)
    BY <1>0, <2>2, AddDying
  <2> QED BY <1>0, <2>1, <2>2, LetGoCases
<1>1. ASSUME NEW a \in Addresses, make_shared(a) PROVE Goal
  BY <1>1 DEF make_shared, Construct, Runs, ToSet
<1>2. ASSUME NEW x \in Addresses, Release(x) PROVE Goal
  BY <1>0, <1>2 DEF Release
<1>3. ASSUME NEW n \in Addresses, NEW a \in Addresses, make_lower(n, a) PROVE Goal
  <2>1. n \in alive
    BY <1>3, InHandAlive DEF make_lower
  <2> QED BY <1>3, <2>1 DEF make_lower, Construct, Runs, ToSet
<1>4. ASSUME NEW n \in Addresses, NEW a \in Addresses,
             AddUpper(n, a) \/ AddLower(n, a) \/ Take(n, a)
      PROVE  Goal
  <2>1. n \in alive
    BY <1>4, InHandAlive DEF AddUpper, AddLower, Take
  <2> QED BY <1>4, <2>1 DEF AddUpper, AddLower, Take
<1>5. ASSUME NEW n \in Addresses, NEW T, prune_expired(n, T) PROVE Goal
  <2>1. n \in alive
    BY <1>5, InHandAlive DEF prune_expired
  <2> QED BY <1>5, <2>1 DEF prune_expired
<1>6. ASSUME NEW n \in Addresses, NEW t, ForEach(n, t) PROVE Goal
  BY <1>6 DEF ForEach
<1>7. CASE ForEachErases
  <2>1. Last(walks).node \in Addresses
    BY <1>7, LastWalk DEF ForEachErases
  <2> QED BY <1>7, <2>1 DEF ForEachErases
<1>8. CASE ForEachCalls \/ ForEachReturns
  BY <1>8 DEF ForEachCalls, ForEachReturns
<1>9. CASE FuncReturns
  BY <1>0, <1>9 DEF FuncReturns
<1>10. CASE Destruct
  <2>0. dying # << >> /\ Last(dying) \in Addresses
    BY <1>10, DropDying DEF Destruct
  <2>1. ASSUME NEW y \in lower[Last(dying)], LetGo(y), UNCHANGED <<held, upper, walks>>,
               lower' = [lower EXCEPT ![Last(dying)] = @ \ {y}]
        PROVE  Goal
    BY <1>0, <2>0, <2>1
  <2>2. ASSUME lower[Last(dying)] = {}, upper' = [upper EXCEPT ![Last(dying)] = {}],
               dying' = Front(dying), UNCHANGED <<alive, held, lower, walks, maker>>
        PROVE  Goal
    BY <2>0, <2>2, DropDying
  <2> QED BY <1>10, <2>1, <2>2 DEF Destruct
<1>11. CASE UNCHANGED vars
  BY <1>11 DEF vars
<1> QED BY <1>1, <1>2, <1>3, <1>4, <1>5, <1>6, <1>7, <1>8, <1>9, <1>10, <1>11 DEF Next

-----------------------------------------------------------------------------
(* What each step does to the walks. *)

\* The set of a walk, and what is behind an element of it.
LEMMA BehindFacts ==
  ASSUME TypeOK, NEW w \in Walk
  PROVE  /\ Behind(w) \in Addresses \cup {End}
         /\ Behind(w) # End =>
              Behind(w) \in Set(w.node, w.of) /\ Behind(w) > w.at
         /\ \A u \in Set(w.node, w.of) : u > w.at => Behind(w) # End /\ Behind(w) <= u
<1> DEFINE S == {u \in Set(w.node, w.of) : u > w.at}
<1>1. S \in SUBSET Addresses
  BY DEF Set, TypeOK, Walk
<1>2. Behind(w) = First(S)
  BY DEF Behind
<1>3. CASE S = {}
  <2>1. Behind(w) = End
    BY <1>2, <1>3 DEF First
  <2> QED BY <1>3, <2>1
<1>4. CASE S # {}
  <2>1. Behind(w) \in S /\ \A y \in S : Behind(w) <= y
    <3> HIDE DEF S
    <3> QED BY <1>1, <1>2, <1>4, FirstFacts
  <2>2. End \notin S
    BY <1>1, AddressesAssumption
  <2> QED BY <1>1, <2>1, <2>2
<1> QED BY <1>3, <1>4

LEMMA FirstOfSet ==
  ASSUME TypeOK, NEW n \in Addresses, NEW t
  PROVE  /\ First(Set(n, t)) \in Addresses \cup {End}
         /\ First(Set(n, t)) # End => First(Set(n, t)) \in Set(n, t)
         /\ \A u \in Set(n, t) : First(Set(n, t)) # End /\ First(Set(n, t)) <= u
<1>1. Set(n, t) \in SUBSET Addresses /\ End \notin Set(n, t)
  BY AddressesAssumption DEF Set, TypeOK
<1>2. CASE Set(n, t) = {}
  BY <1>2 DEF First
<1>3. CASE Set(n, t) # {}
  BY <1>1, <1>3, FirstFacts
<1> QED BY <1>2, <1>3

LEMMA WalksConstruct ==
  ASSUME TypeOK, NEW a, Construct(a)
  PROVE  /\ walks' \in Seq(Walk) /\ Len(walks') = Len(walks) /\ DOMAIN walks' = DOMAIN walks
         /\ \A i \in DOMAIN walks :
              /\ walks'[i].node = walks[i].node /\ walks'[i].of = walks[i].of
              /\ walks'[i].at = walks[i].at /\ walks'[i].phase = walks[i].phase
              /\ walks'[i].due = walks[i].due \ {a}
<1>1. Len(walks) \in Nat /\ DOMAIN walks = 1..Len(walks) /\ \A i \in DOMAIN walks : walks[i] \in Walk
  BY LenProperties DEF TypeOK
<1>2. walks' = [i \in 1..Len(walks) |-> [walks[i] EXCEPT !.due = @ \ {a}]]
  BY <1>1 DEF Construct
<1>3. \A i \in DOMAIN walks : [walks[i] EXCEPT !.due = @ \ {a}] \in Walk
  BY <1>1 DEF Walk
<1>4. walks' \in [1..Len(walks) -> Walk]
  BY <1>1, <1>2, <1>3
<1>5. walks' \in Seq(Walk) /\ Len(walks') = Len(walks)
  BY <1>1, <1>4
<1> QED BY <1>1, <1>2, <1>5 DEF Walk

LEMMA WalksForEach ==
  ASSUME TypeOK, NEW n \in Addresses, NEW t \in Types, ForEach(n, t)
  PROVE  /\ walks' \in Seq(Walk) /\ Len(walks) \in Nat /\ Len(walks') = Len(walks) + 1
         /\ DOMAIN walks = 1..Len(walks) /\ DOMAIN walks' = 1..Len(walks) + 1
         /\ \A i \in DOMAIN walks : walks'[i] = walks[i]
         /\ walks'[Len(walks) + 1] =
              [node |-> n, of |-> t, at |-> First(Set(n, t)), phase |-> "next",
               due |-> Set(n, t) \cap alive]
<1> DEFINE w == [node |-> n, of |-> t, at |-> First(Set(n, t)), phase |-> "next",
                 due |-> Set(n, t) \cap alive]
<1>1. w \in Walk
  BY FirstOfSet DEF Walk, TypeOK
<1>2. walks \in Seq(Walk) /\ walks' = Append(walks, w)
  BY DEF TypeOK, ForEach
<1> HIDE DEF w
<1>3. /\ walks' \in Seq(Walk) /\ Len(walks) \in Nat /\ Len(walks') = Len(walks) + 1
      /\ DOMAIN walks = 1..Len(walks) /\ DOMAIN walks' = 1..Len(walks) + 1
      /\ \A i \in DOMAIN walks : walks'[i] = walks[i]
      /\ walks'[Len(walks) + 1] = w
  BY <1>1, <1>2, AddLast
<1> QED BY <1>3 DEF w

LEMMA WalksTop ==
  ASSUME TypeOK, walks # << >>, NEW w \in Walk, SetTop(w)
  PROVE  /\ walks' \in Seq(Walk) /\ Len(walks') = Len(walks) /\ DOMAIN walks' = DOMAIN walks
         /\ walks'[Len(walks)] = w /\ \A i \in DOMAIN walks : i # Len(walks) => walks'[i] = walks[i]
<1>1. walks \in Seq(Walk) /\ walks' = [walks EXCEPT ![Len(walks)] = w]
  BY DEF TypeOK, SetTop
<1> QED BY <1>1, ReplaceLast

LEMMA WalksReturn ==
  ASSUME TypeOK, ForEachReturns
  PROVE  /\ walks' \in Seq(Walk) /\ Len(walks') = Len(walks) - 1 /\ Len(walks) \in Nat
         /\ DOMAIN walks = 1..Len(walks) /\ DOMAIN walks' = 1..Len(walks) - 1
         /\ \A i \in DOMAIN walks' : walks'[i] = walks[i]
BY RemoveLast, LastWalk DEF TypeOK, ForEachReturns

\* The step of a walk: the iterator goes on from an element that is gone or was
\* met, or it calls the function with one that is there.
LEMMA WalksStep ==
  ASSUME TypeOK, ForEachErases \/ ForEachCalls \/ FuncReturns
  PROVE  /\ walks \in Seq(Walk) /\ walks # << >>
         /\ \E w \in Walk :
              /\ SetTop(w) /\ w.node = Last(walks).node /\ w.of = Last(walks).of
              /\ \/ /\ ForEachCalls /\ w.at = Last(walks).at /\ w.phase = "func"
                    /\ w.due = Last(walks).due \ {w.at}
                 \/ /\ ForEachErases \/ FuncReturns
                    /\ w.at = Behind(Last(walks)) /\ w.phase = "next"
                    /\ w.due = Last(walks).due
<1>1. walks \in Seq(Walk) /\ walks # << >>
  BY DEF TypeOK, ForEachErases, ForEachCalls, FuncReturns
<1>2. Last(walks) \in Walk
  BY <1>1, LastWalk
<1>3. Behind(Last(walks)) \in Addresses \cup {End}
  BY <1>2, BehindFacts
<1> DEFINE l == Last(walks)
           b == Behind(l)
           f == [l EXCEPT !.phase = "func", !.due = @ \ {l.at}]
           e == [l EXCEPT !.at = b]
           r == [l EXCEPT !.phase = "next", !.at = b]
<1>4. CASE ForEachCalls
  <2>1. SetTop(f)
    BY <1>4 DEF ForEachCalls
  <2>2. f \in Walk /\ f.node = l.node /\ f.of = l.of /\ f.at = l.at /\ f.phase = "func"
        /\ f.due = l.due \ {f.at}
    BY <1>2 DEF Walk
  <2> QED BY <1>1, <1>4, <2>1, <2>2
<1>5. CASE ForEachErases
  <2>1. SetTop(e) /\ l.phase = "next"
    BY <1>5 DEF ForEachErases
  <2>2. e \in Walk /\ e.node = l.node /\ e.of = l.of /\ e.at = b /\ e.phase = "next"
        /\ e.due = l.due
    <3> HIDE DEF b
    <3> QED BY <1>2, <1>3, <2>1 DEF Walk, b
  <2> QED BY <1>1, <1>5, <2>1, <2>2
<1>6. CASE FuncReturns
  <2>1. SetTop(r)
    BY <1>6 DEF FuncReturns
  <2>2. r \in Walk /\ r.node = l.node /\ r.of = l.of /\ r.at = b /\ r.phase = "next"
        /\ r.due = l.due
    <3> HIDE DEF b
    <3> QED BY <1>2, <1>3 DEF Walk, b
  <2> QED BY <1>1, <1>6, <2>1, <2>2
<1> QED BY <1>4, <1>5, <1>6

\* The steps that leave the walks alone.
Idle ==
  \/ \E x \in Addresses : Release(x)
  \/ \E n, a \in Addresses : AddUpper(n, a) \/ AddLower(n, a) \/ Take(n, a)
  \/ \E n \in Addresses : \E T \in SUBSET Types : prune_expired(n, T)
  \/ Destruct
  \/ UNCHANGED vars

LEMMA IdleWalks == ASSUME Idle PROVE walks' = walks
BY DEF Idle, Release, AddUpper, AddLower, Take, prune_expired, Destruct, vars

\* The steps by what they do to the walks.
LEMMA NextCases ==
  ASSUME [Next]_vars
  PROVE  \/ \E a \in Addresses : make_shared(a)
         \/ \E n, a \in Addresses : make_lower(n, a)
         \/ \E n \in Addresses : \E t \in Types : ForEach(n, t)
         \/ ForEachErases \/ ForEachCalls \/ FuncReturns \/ ForEachReturns
         \/ Idle
<1>1. \A n \in Addresses : Uppers[type[n]] \in SUBSET Types
  BY ClassesAssumption
<1>2. ASSUME NEW n \in Addresses, prune_expired(n, Uppers[type[n]]) PROVE Idle
  BY <1>1, <1>2 DEF Idle
<1>3. ASSUME NEW n \in Addresses, NEW t \in Uppers[type[n]], prune_expired(n, {t}) PROVE Idle
  <2>1. {t} \in SUBSET Types
    BY <1>1, <1>3
  <2> QED BY <1>3, <2>1 DEF Idle
<1>4. ASSUME NEW n \in Addresses, NEW t \in Uppers[type[n]], ForEach(n, t)
      PROVE  \E m \in Addresses : \E u \in Types : ForEach(m, u)
  BY <1>1, <1>4
<1> QED BY <1>2, <1>3, <1>4 DEF Next, Idle

LEMMA TypeOfWalks ==
  ASSUME IInv, [Next]_vars
  PROVE  walks' \in Seq(Walk) /\ Len(walks') <= MaxWalks
<1> USE DEF IInv
<1>0. walks \in Seq(Walk) /\ Len(walks) \in Nat /\ Len(walks) <= MaxWalks
  BY DEF TypeOK
<1>1. ASSUME NEW a \in Addresses, make_shared(a) PROVE walks' \in Seq(Walk) /\ Len(walks') <= MaxWalks
  BY <1>0, <1>1, WalksConstruct DEF make_shared
<1>2. ASSUME NEW n \in Addresses, NEW a \in Addresses, make_lower(n, a)
      PROVE  walks' \in Seq(Walk) /\ Len(walks') <= MaxWalks
  BY <1>0, <1>2, WalksConstruct DEF make_lower
<1>3. ASSUME NEW n \in Addresses, NEW t \in Types, ForEach(n, t)
      PROVE  walks' \in Seq(Walk) /\ Len(walks') <= MaxWalks
  <2>1. walks' \in Seq(Walk) /\ Len(walks') = Len(walks) + 1
    BY <1>3, WalksForEach
  <2>2. Len(walks) < MaxWalks
    BY <1>3 DEF ForEach
  <2> QED BY <1>0, <2>1, <2>2, MaxWalksAssumption
<1>4. CASE ForEachErases \/ ForEachCalls \/ FuncReturns
  BY <1>0, <1>4, WalksStep, WalksTop
<1>5. CASE ForEachReturns
  BY <1>0, <1>5, WalksReturn, MaxWalksAssumption
<1>6. CASE Idle
  BY <1>0, <1>6, IdleWalks
<1> QED BY <1>1, <1>2, <1>3, <1>4, <1>5, <1>6, NextCases

LEMMA TypeStep ==
  ASSUME IInv, [Next]_vars
  PROVE  TypeOK'
BY TypeOfSets, TypeOfDying, TypeOfWalks DEF TypeOK

-----------------------------------------------------------------------------
(* Owners and what they own. *)

\* Lowers are let go before they die, and die only without an upper.
LEMMA LowersStep ==
  ASSUME IInv, [Next]_vars
  PROVE  LowersFit'
<1> USE DEF IInv, LowersFit
<1>t. TypeOK /\ TypeOK'
  BY TypeStep
<1>0. ASSUME NEW x, LetGo(x), \A n \in Addresses : lower'[n] \subseteq lower[n]
      PROVE  LowersFit'
  BY <1>0, LetGoCases DEF Owned
<1>1. ASSUME NEW a \in Addresses, make_shared(a) PROVE LowersFit'
  BY <1>1 DEF make_shared, Construct
<1>2. ASSUME NEW n \in Addresses, NEW a \in Addresses, make_lower(n, a) PROVE LowersFit'
  BY <1>2, <1>t DEF make_lower, Construct, TypeOK
<1>3. ASSUME NEW x \in Addresses, Release(x) PROVE LowersFit'
  BY <1>0, <1>3 DEF Release
<1>4. ASSUME NEW n \in Addresses, NEW a \in Addresses,
             AddUpper(n, a) \/ AddLower(n, a) \/ Take(n, a)
      PROVE  LowersFit'
  <2>1. AddLower(n, a) => a \in alive
    BY <1>t, InHandAlive DEF AddLower
  <2> QED BY <1>4, <1>t, <2>1 DEF AddUpper, AddLower, Take, TypeOK
<1>5. ASSUME NEW n \in Addresses, NEW T, prune_expired(n, T) PROVE LowersFit'
  BY <1>5 DEF prune_expired
<1>6. ASSUME NEW n \in Addresses, NEW t, ForEach(n, t) PROVE LowersFit'
  BY <1>6 DEF ForEach
<1>7. CASE ForEachErases \/ ForEachCalls \/ ForEachReturns
  BY <1>7 DEF ForEachErases, ForEachCalls, ForEachReturns
<1>8. CASE FuncReturns
  BY <1>0, <1>8 DEF FuncReturns
<1>9. CASE Destruct
  <2>1. ASSUME NEW y \in lower[Last(dying)], LetGo(y),
               lower' = [lower EXCEPT ![Last(dying)] = @ \ {y}]
        PROVE  LowersFit'
    BY <1>0, <1>t, <2>1 DEF TypeOK
  <2> QED BY <1>9, <2>1 DEF Destruct
<1>10. CASE UNCHANGED vars
  BY <1>10 DEF vars
<1> QED BY <1>1, <1>2, <1>3, <1>4, <1>5, <1>6, <1>7, <1>8, <1>9, <1>10, NextCases DEF Idle

\* A step takes from a living node only uppers that are gone.
LEMMA UppersStep ==
  ASSUME IInv, [Next]_vars
  PROVE  \A n \in alive \cap alive' : \A u \in upper[n] \ upper'[n] : u \notin alive
<1> DEFINE Goal == \A n \in alive \cap alive' : \A u \in upper[n] \ upper'[n] : u \notin alive
<1>t. TypeOK
  BY DEF IInv
<1>1. ASSUME NEW a \in Addresses, make_shared(a) PROVE Goal
  BY <1>1 DEF make_shared
<1>2. ASSUME NEW n \in Addresses, NEW a \in Addresses, make_lower(n, a) PROVE Goal
  BY <1>t, <1>2 DEF make_lower, Construct, Free, TypeOK
<1>3. ASSUME NEW n \in Addresses, NEW t \in Types, ForEach(n, t) PROVE Goal
  BY <1>3 DEF ForEach
<1>4. CASE ForEachErases
  <2>1. Last(walks).node \in Addresses
    BY <1>t, <1>4, LastWalk DEF ForEachErases, TypeOK
  <2> QED BY <1>t, <1>4, <2>1 DEF ForEachErases, TypeOK
<1>5. CASE ForEachCalls \/ FuncReturns \/ ForEachReturns
  BY <1>5 DEF ForEachCalls, FuncReturns, ForEachReturns
<1>6. ASSUME NEW n \in Addresses, NEW a \in Addresses, AddUpper(n, a) PROVE Goal
  BY <1>t, <1>6 DEF AddUpper, TypeOK
<1>7. ASSUME NEW n \in Addresses, NEW a \in Addresses, Release(n) \/ AddLower(n, a) \/ Take(n, a)
      PROVE  Goal
  BY <1>7 DEF Release, AddLower, Take
<1>8. ASSUME NEW n \in Addresses, NEW T, prune_expired(n, T) PROVE Goal
  BY <1>t, <1>8 DEF prune_expired, TypeOK
<1>9. CASE Destruct
  <2>1. dying # << >> /\ Last(dying) \in Addresses /\ Last(dying) \notin alive
    BY <1>t, <1>9, DropDying DEF Destruct, TypeOK
  <2> QED BY <1>t, <1>9, <2>1 DEF Destruct, TypeOK
<1>10. CASE UNCHANGED vars
  BY <1>10 DEF vars
<1> QED BY <1>1, <1>2, <1>3, <1>4, <1>5, <1>6, <1>7, <1>8, <1>9, <1>10, NextCases DEF Idle

\* Who is owned after a step has not died in it.
LEMMA OwnedStays ==
  ASSUME IInv, [Next]_vars, NEW x \in alive, Owned(x)'
  PROVE  x \in alive'
<1>0. ASSUME NEW y, LetGo(y) PROVE x \in alive'
  BY <1>0, LetGoCases
<1>1. ASSUME NEW a \in Addresses, make_shared(a) PROVE x \in alive'
  BY <1>1 DEF make_shared, Construct
<1>2. ASSUME NEW n \in Addresses, NEW a \in Addresses, make_lower(n, a) PROVE x \in alive'
  BY <1>2 DEF make_lower, Construct
<1>3. CASE FuncReturns
  BY <1>0, <1>3 DEF FuncReturns
<1>4. CASE Idle
  BY <1>0, <1>4 DEF Idle, Release, AddUpper, AddLower, Take, prune_expired, Destruct, vars
<1>5. CASE ForEachErases \/ ForEachCalls \/ ForEachReturns \/ \E n \in Addresses : \E t \in Types : ForEach(n, t)
  BY <1>5 DEF ForEachErases, ForEachCalls, ForEachReturns, ForEach
<1> QED BY <1>1, <1>2, <1>3, <1>4, <1>5, NextCases

-----------------------------------------------------------------------------
(* Walks. *)

WalkInv == Nested /\ WalkIsSafe /\ DueAhead

LEMMA WalkConstruct ==
  ASSUME IInv, NEW a \in Addresses, NEW n \in Addresses, make_shared(a) \/ make_lower(n, a)
  PROVE  WalkInv'
<1>1. Construct(a) /\ a \notin alive /\ alive' = alive \cup {a} /\ held' = held \cup {a}
  BY DEF make_shared, make_lower, Construct, Free
<1>2. /\ DOMAIN walks' = DOMAIN walks /\ Len(walks') = Len(walks)
      /\ \A i \in DOMAIN walks :
           /\ walks'[i].node = walks[i].node /\ walks'[i].of = walks[i].of
           /\ walks'[i].at = walks[i].at /\ walks'[i].phase = walks[i].phase
           /\ walks'[i].due = walks[i].due \ {a}
  BY <1>1, WalksConstruct DEF IInv
<1>3. \A m \in alive : upper'[m] = upper[m]
  BY <1>1 DEF make_shared, make_lower, IInv, TypeOK
<1>4. \A i \in DOMAIN walks : walks[i].node \in alive
  BY DEF IInv, WalkIsSafe
<1>5. Nested'
  BY <1>1, <1>2 DEF IInv, Nested
<1>6. WalkIsSafe'
  BY <1>1, <1>2, <1>3, <1>4 DEF IInv, WalkIsSafe, Set
<1>7. DueAhead'
  BY <1>1, <1>2, <1>3, <1>4 DEF IInv, DueAhead, Set
<1> QED BY <1>5, <1>6, <1>7 DEF WalkInv

LEMMA WalkForEach ==
  ASSUME IInv, NEW n \in Addresses, NEW t \in Types, ForEach(n, t)
  PROVE  WalkInv'
<1> DEFINE k == Len(walks) + 1
<1>1. /\ Len(walks) \in Nat /\ Len(walks') = k
      /\ DOMAIN walks = 1..Len(walks) /\ DOMAIN walks' = 1..k
      /\ \A i \in DOMAIN walks : walks'[i] = walks[i]
      /\ walks'[k] = [node |-> n, of |-> t, at |-> First(Set(n, t)), phase |-> "next",
                      due |-> Set(n, t) \cap alive]
  BY WalksForEach DEF IInv
<1>2. UNCHANGED <<alive, held, upper>> /\ InHand(n) /\ n \in alive
  BY InHandAlive DEF ForEach, IInv
<1>3. walks = << >> \/ walks[Len(walks)].phase = "func"
  BY DEF ForEach, Runs, Last
<1>4. \A i \in DOMAIN walks : walks[i].phase = "func"
  BY <1>1, <1>3 DEF IInv, Nested
<1>5. DOMAIN walks' = DOMAIN walks \cup {k} /\ \A i \in DOMAIN walks : i < k
  BY <1>1
<1>6. /\ walks'[k].node = n /\ walks'[k].of = t /\ walks'[k].at = First(Set(n, t))
      /\ walks'[k].phase = "next" /\ walks'[k].due = Set(n, t) \cap alive
  BY <1>1
<1> HIDE DEF k
<1>7. n \in held \/ \E j \in DOMAIN walks' : j < k /\ walks'[j].at = n
  BY <1>1, <1>2, <1>5 DEF InHand, Locked
<1>8. Nested'
  <2>1. ASSUME NEW i \in DOMAIN walks
        PROVE  /\ walks'[i].phase = "func"
               /\ walks'[i].node \in held' \/ \E j \in DOMAIN walks' : j < i /\ walks'[j].at = walks'[i].node
    BY <1>1, <1>2, <1>4, <1>5 DEF IInv, Nested
  <2>2. k \in Nat /\ Len(walks') = k
    BY <1>1 DEF k
  <2> QED BY <1>2, <1>5, <1>6, <1>7, <2>1, <2>2 DEF Nested
<1>9. WalkIsSafe'
  <2>1. First(Set(n, t)) # End => First(Set(n, t)) \in Set(n, t)
    BY FirstOfSet DEF IInv
  <2> SUFFICES ASSUME NEW i \in DOMAIN walks'
               PROVE  /\ walks'[i].node \in alive
                      /\ walks'[i].at # End => walks'[i].at \in Set(walks'[i].node, walks'[i].of)
                      /\ walks'[i].phase = "func" => walks'[i].at \in alive
    BY <1>2 DEF WalkIsSafe, Set
  <2>2. CASE i = k
    BY <1>2, <1>6, <2>1, <2>2
  <2>3. CASE i \in DOMAIN walks
    BY <1>1, <2>3 DEF IInv, WalkIsSafe
  <2> QED BY <1>5, <2>2, <2>3
<1>10. DueAhead'
  <2>1. \A u \in Set(n, t) : First(Set(n, t)) # End /\ First(Set(n, t)) <= u
    BY FirstOfSet DEF IInv
  <2> SUFFICES ASSUME NEW i \in DOMAIN walks', NEW u \in walks'[i].due \cap alive
               PROVE  /\ u \in Set(walks'[i].node, walks'[i].of)
                      /\ walks'[i].at # End /\ walks'[i].at <= u
                      /\ walks'[i].phase = "func" => walks'[i].at < u
    BY <1>2 DEF DueAhead, Set
  <2>2. CASE i = k
    BY <1>6, <2>1, <2>2
  <2>3. CASE i \in DOMAIN walks
    BY <1>1, <2>3 DEF IInv, DueAhead
  <2> QED BY <1>5, <2>2, <2>3
<1> QED BY <1>8, <1>9, <1>10 DEF WalkInv

LEMMA WalkReturns ==
  ASSUME IInv, ForEachReturns
  PROVE  WalkInv'
<1>1. /\ Len(walks') = Len(walks) - 1 /\ Len(walks) \in Nat
      /\ DOMAIN walks = 1..Len(walks) /\ DOMAIN walks' = 1..Len(walks) - 1
      /\ \A i \in DOMAIN walks' : walks'[i] = walks[i]
  BY WalksReturn DEF IInv
<1>2. UNCHANGED <<alive, held, upper>>
  BY DEF ForEachReturns
<1>3. \A i \in DOMAIN walks' : i \in DOMAIN walks /\ i < Len(walks)
  BY <1>1
<1>4. Nested'
  <2> SUFFICES ASSUME NEW i \in DOMAIN walks'
               PROVE  /\ walks'[i].phase = "func"
                      /\ \/ walks'[i].node \in held'
                         \/ \E j \in DOMAIN walks' : j < i /\ walks'[j].at = walks'[i].node
    BY DEF Nested
  <2>1. ASSUME NEW j \in DOMAIN walks, j < i PROVE j \in DOMAIN walks'
    BY <1>1, <2>1
  <2> QED BY <1>1, <1>2, <1>3, <2>1 DEF IInv, Nested
<1>5. WalkIsSafe'
  BY <1>1, <1>2, <1>3 DEF IInv, WalkIsSafe, Set
<1>6. DueAhead'
  BY <1>1, <1>2, <1>3 DEF IInv, DueAhead, Set
<1> QED BY <1>4, <1>5, <1>6 DEF WalkInv

\* What for_each has locked stays alive.
LEMMA LockedStays ==
  ASSUME IInv, [Next]_vars, NEW x \in alive, NEW i \in DOMAIN walks',
         walks'[i].phase = "func", walks'[i].at = x
  PROVE  x \in alive'
<1>1. Locked(x)'
  BY DEF Locked
<1> QED BY <1>1, OwnedStays DEF Owned

LEMMA WalkIdle ==
  ASSUME IInv, [Next]_vars, Idle
  PROVE  WalkInv'
<1> USE DEF IInv
<1>1. walks' = walks /\ TypeOK' /\ Len(walks) \in Nat /\ DOMAIN walks = 1..Len(walks)
      /\ \A i \in DOMAIN walks : walks[i] \in Walk
  BY IdleWalks, TypeStep, LenProperties DEF TypeOK
<1>2. alive' \subseteq alive
  <2>1. ASSUME NEW x, LetGo(x) PROVE alive' \subseteq alive
    BY <2>1, LetGoCases
  <2> QED BY <2>1 DEF Idle, Release, AddUpper, AddLower, Take, prune_expired, Destruct, vars
<1>3. \A i \in DOMAIN walks : walks[i].node \in held => walks[i].node \in held'
  BY DEF Idle, Release, AddUpper, AddLower, Take, prune_expired, Destruct, vars
<1>4. Nested'
  BY <1>1, <1>3 DEF Nested
<1>5. \A i \in DOMAIN walks : walks[i].phase = "func" => walks[i].at \in alive'
  BY <1>1, LockedStays DEF WalkIsSafe
<1>6. \A i \in DOMAIN walks : walks[i].node \in alive'
  <2> SUFFICES ASSUME NEW i \in DOMAIN walks PROVE walks[i].node \in alive'
    OBVIOUS
  <2>1. CASE walks[i].node \in held
    BY <1>1, <1>3, <2>1 DEF TypeOK
  <2>2. ASSUME NEW j \in DOMAIN walks, j < i, walks[j].at = walks[i].node PROVE walks[i].node \in alive'
    <3>1. j < Len(walks)
      BY <1>1, <2>2
    <3> QED BY <1>5, <2>2, <3>1 DEF Nested
  <2> QED BY <2>1, <2>2 DEF Nested
<1>7. ASSUME NEW i \in DOMAIN walks, walks[i].phase = "next"
      PROVE  upper'[walks[i].node] = upper[walks[i].node]
  <2>1. i = Len(walks)
    BY <1>1, <1>7 DEF Nested
  <2>2. walks # << >> /\ Last(walks).phase # "func"
    BY <1>7, <2>1 DEF Last
  <2>3. ~ Runs
    BY <2>2 DEF Runs
  <2>4. Destruct \/ UNCHANGED vars
    BY <2>3 DEF Idle, Release, AddUpper, AddLower, Take, prune_expired
  <2>5. Destruct => Last(dying) \notin alive /\ Last(dying) \in Addresses
    BY DropDying DEF Destruct, TypeOK
  <2>6. walks[i].node \in alive
    BY DEF WalkIsSafe
  <2> QED BY <2>4, <2>5, <2>6 DEF Destruct, TypeOK, vars
<1>8. ASSUME NEW i \in DOMAIN walks, NEW u \in Set(walks[i].node, walks[i].of) \cap alive
      PROVE  u \in Set(walks[i].node, walks[i].of)'
  <2>1. walks[i].node \in alive \cap alive'
    BY <1>2, <1>6
  <2>2. u \in upper'[walks[i].node]
    BY <1>8, <2>1, UppersStep DEF Set
  <2> QED BY <1>1, <1>8, <2>2 DEF Set
<1>9. WalkIsSafe'
  <2> SUFFICES ASSUME NEW i \in DOMAIN walks
               PROVE  walks[i].at # End => walks[i].at \in Set(walks[i].node, walks[i].of)'
    BY <1>1, <1>5, <1>6 DEF WalkIsSafe
  <2>1. CASE walks[i].phase = "func"
    BY <1>8, <2>1 DEF WalkIsSafe
  <2>2. CASE walks[i].phase = "next"
    BY <1>1, <1>7, <2>2 DEF WalkIsSafe, Set
  <2>3. walks[i].phase \in {"next", "func"}
    BY <1>1 DEF Walk
  <2> QED BY <2>1, <2>2, <2>3
<1>10. DueAhead'
  <2> SUFFICES ASSUME NEW i \in DOMAIN walks, NEW u \in walks[i].due \cap alive'
               PROVE  /\ u \in Set(walks[i].node, walks[i].of)'
                      /\ walks[i].at # End /\ walks[i].at <= u
                      /\ walks[i].phase = "func" => walks[i].at < u
    BY <1>1 DEF DueAhead
  <2>1. u \in walks[i].due \cap alive
    BY <1>2
  <2> QED BY <1>8, <2>1 DEF DueAhead
<1> QED BY <1>4, <1>9, <1>10 DEF WalkInv

LEMMA WalkTop ==
  ASSUME IInv, [Next]_vars, ForEachErases \/ ForEachCalls \/ FuncReturns
  PROVE  WalkInv'
<1> USE DEF IInv
<1> DEFINE k == Len(walks)
           l == Last(walks)
<1>1. /\ walks \in Seq(Walk) /\ walks # << >> /\ TypeOK' /\ k \in Nat /\ k \in DOMAIN walks
      /\ DOMAIN walks = 1..k /\ l = walks[k] /\ l \in Walk
      /\ \A i \in DOMAIN walks : walks[i] \in Walk
  BY WalksStep, TypeStep, LastWalk, LenProperties
<1>2. PICK w \in Walk :
        /\ SetTop(w) /\ w.node = l.node /\ w.of = l.of
        /\ \/ /\ ForEachCalls /\ w.at = l.at /\ w.phase = "func" /\ w.due = l.due \ {w.at}
           \/ /\ ForEachErases \/ FuncReturns
              /\ w.at = Behind(l) /\ w.phase = "next" /\ w.due = l.due
  BY WalksStep
<1>3. /\ Len(walks') = k /\ DOMAIN walks' = DOMAIN walks /\ walks'[k] = w
      /\ \A i \in DOMAIN walks : i # k => walks'[i] = walks[i]
  BY <1>1, <1>2, WalksTop
<1> HIDE DEF k, l
<1>4. alive' \subseteq alive /\ held' = held
  <2>1. ASSUME NEW x, LetGo(x) PROVE alive' \subseteq alive
    BY <2>1, LetGoCases
  <2> QED BY <2>1 DEF ForEachErases, ForEachCalls, FuncReturns
<1>5. ForEachCalls => l.at \in alive
  BY DEF ForEachCalls, l
<1>6. \A i \in DOMAIN walks : i # k => i < k /\ walks[i].phase = "func" /\ walks[i].at \in alive'
  <2> SUFFICES ASSUME NEW i \in DOMAIN walks, i # k
               PROVE  i < k /\ walks[i].phase = "func" /\ walks[i].at \in alive'
    OBVIOUS
  <2>1. i < k /\ walks[i].phase = "func" /\ walks[i].at \in alive
    BY <1>1 DEF Nested, WalkIsSafe, k
  <2> QED BY <1>3, <2>1, LockedStays
<1>7. \A i \in DOMAIN walks : walks'[i].node = walks[i].node /\ walks'[i].of = walks[i].of
  BY <1>1, <1>2, <1>3
<1>8. Nested'
  <2> SUFFICES ASSUME NEW i \in DOMAIN walks
               PROVE  /\ i < k => walks'[i].phase = "func"
                      /\ \/ walks'[i].node \in held
                         \/ \E j \in DOMAIN walks : j < i /\ walks'[j].at = walks'[i].node
    BY <1>3, <1>4 DEF Nested
  <2>1. \A j \in DOMAIN walks : j < i => walks'[j] = walks[j]
    BY <1>1, <1>3
  <2>2. walks[i].node \in held \/ \E j \in DOMAIN walks : j < i /\ walks[j].at = walks[i].node
    BY DEF Nested
  <2> QED BY <1>1, <1>3, <1>6, <1>7, <2>1, <2>2
<1>9. \A i \in DOMAIN walks : walks[i].node \in alive /\ walks[i].node \in alive'
  <2> SUFFICES ASSUME NEW i \in DOMAIN walks PROVE walks[i].node \in alive /\ walks[i].node \in alive'
    OBVIOUS
  <2>1. walks[i].node \in alive
    BY DEF WalkIsSafe
  <2>2. CASE walks[i].node \in held
    BY <1>1, <1>4, <2>1, <2>2 DEF TypeOK
  <2>3. ASSUME NEW j \in DOMAIN walks, j < i, walks[j].at = walks[i].node PROVE walks[i].node \in alive'
    <3>1. j # k
      BY <1>1, <2>3
    <3> QED BY <1>6, <2>3, <3>1
  <2> QED BY <2>1, <2>2, <2>3 DEF Nested
<1>10. \A i \in DOMAIN walks : \A u \in Set(walks[i].node, walks[i].of) \cap alive :
         u \in upper'[walks'[i].node] /\ type[u] = walks'[i].of
  <2> SUFFICES ASSUME NEW i \in DOMAIN walks, NEW u \in Set(walks[i].node, walks[i].of) \cap alive
               PROVE  u \in upper'[walks'[i].node] /\ type[u] = walks'[i].of
    OBVIOUS
  <2>1. u \in upper'[walks[i].node]
    BY <1>9, UppersStep DEF Set
  <2> QED BY <1>7, <2>1 DEF Set
<1>11. /\ w.at # End => w.at \in upper'[w.node] /\ type[w.at] = w.of
       /\ w.phase = "func" => w.at \in alive'
  <2>1. CASE ForEachCalls /\ w.at = l.at /\ w.phase = "func"
    <3>1. l.at \in Set(l.node, l.of) /\ l.at \in alive
      BY <1>1, <1>5, <2>1, AddressesAssumption DEF WalkIsSafe, TypeOK
    <3>2. w.at \in upper'[w.node] /\ type[w.at] = w.of
      BY <1>1, <1>2, <1>3, <1>10, <2>1, <3>1
    <3>3. w.at \in alive'
      BY <1>1, <1>3, <2>1, <3>1, LockedStays
    <3> QED BY <3>2, <3>3
  <2>2. CASE (ForEachErases \/ FuncReturns) /\ w.at = Behind(l) /\ w.phase = "next"
    <3>1. w.at # End => w.at \in Set(l.node, l.of) /\ w.at > l.at
      BY <1>1, <2>2, BehindFacts
    <3>2. CASE FuncReturns
      <4>1. upper' = upper
        BY <3>2 DEF FuncReturns
      <4> QED BY <1>2, <2>2, <3>1, <4>1 DEF Set
    <3>3. CASE ForEachErases
      <4>1. upper' = [upper EXCEPT ![l.node] = @ \ {l.at}] /\ l.at # End
        BY <3>3 DEF ForEachErases, l
      <4>2. l.at \in Nat /\ l.node \in Addresses
        BY <1>1, <4>1, AddressesAssumption DEF Walk
      <4>3. upper'[l.node] = upper[l.node] \ {l.at}
        BY <4>1, <4>2 DEF TypeOK
      <4>4. w.at # End => w.at # l.at
        BY <3>1, <4>2
      <4> QED BY <1>2, <2>2, <3>1, <4>3, <4>4 DEF Set
    <3> QED BY <2>2, <3>2, <3>3
  <2> QED BY <1>2, <2>1, <2>2
<1>12. WalkIsSafe'
  <2> SUFFICES ASSUME NEW i \in DOMAIN walks
               PROVE  /\ walks'[i].at # End => walks'[i].at \in upper'[walks'[i].node] /\ type[walks'[i].at] = walks'[i].of
                      /\ walks'[i].phase = "func" => walks'[i].at \in alive'
    BY <1>3, <1>7, <1>9 DEF WalkIsSafe, Set
  <2>1. CASE i = k
    BY <1>3, <1>11, <2>1
  <2>2. CASE i # k
    <3>1. walks'[i] = walks[i] /\ walks[i].at \in alive'
      BY <1>3, <1>6, <2>2
    <3>2. walks[i].at # End => walks[i].at \in Set(walks[i].node, walks[i].of) \cap alive
      BY <1>4, <3>1 DEF WalkIsSafe
    <3> QED BY <1>10, <3>1, <3>2
  <2> QED BY <2>1, <2>2
<1>13. DueAhead'
  <2> SUFFICES ASSUME NEW i \in DOMAIN walks, NEW u \in walks'[i].due \cap alive'
               PROVE  /\ u \in upper'[walks'[i].node] /\ type[u] = walks'[i].of
                      /\ walks'[i].at # End /\ walks'[i].at <= u
                      /\ walks'[i].phase = "func" => walks'[i].at < u
    BY <1>3 DEF DueAhead, Set
  <2>1. u \in alive /\ u \in walks[i].due
    BY <1>1, <1>2, <1>3, <1>4
  <2>2. /\ u \in Set(walks[i].node, walks[i].of)
        /\ walks[i].at # End /\ walks[i].at <= u
        /\ walks[i].phase = "func" => walks[i].at < u
    BY <2>1 DEF DueAhead
  <2>3. u \in upper'[walks'[i].node] /\ type[u] = walks'[i].of
    BY <1>10, <2>1, <2>2
  <2>4. CASE i # k
    BY <1>3, <2>2, <2>3, <2>4
  <2>5. CASE i = k /\ ForEachCalls /\ w.at = l.at /\ w.phase = "func" /\ w.due = l.due \ {w.at}
    <3>1. u # l.at /\ walks'[i] = w /\ l = walks[i]
      BY <1>1, <1>3, <2>5
    <3>2. u \in Nat /\ l.at \in Nat
      BY <1>1, <2>1, <2>2, <3>1, AddressesAssumption DEF Walk, TypeOK
    <3> QED BY <2>2, <2>3, <2>5, <3>1, <3>2
  <2>6. CASE i = k /\ (ForEachErases \/ FuncReturns) /\ w.at = Behind(l) /\ w.phase = "next"
    <3>1. walks'[i] = w /\ l = walks[i]
      BY <1>1, <1>3, <2>6
    <3>2. u \in Nat /\ l.at \in Nat
      BY <1>1, <2>1, <2>2, <3>1, AddressesAssumption DEF Walk, TypeOK
    <3>3. l.at < u
      <4>1. CASE FuncReturns
        BY <2>2, <3>1, <4>1 DEF FuncReturns, l
      <4>2. CASE ForEachErases
        <5>1. l.at \notin alive
          BY <4>2 DEF ForEachErases, l
        <5> QED BY <2>1, <2>2, <3>1, <3>2, <5>1
      <4> QED BY <2>6, <4>1, <4>2
    <3>4. Behind(l) # End /\ Behind(l) <= u
      BY <1>1, <2>2, <3>1, <3>2, <3>3, BehindFacts
    <3> QED BY <2>3, <2>6, <3>1, <3>4
  <2> QED BY <1>2, <2>4, <2>5, <2>6
<1> QED BY <1>8, <1>12, <1>13 DEF WalkInv

LEMMA WalkStep ==
  ASSUME IInv, [Next]_vars
  PROVE  WalkInv'
BY NextCases, WalkConstruct, WalkForEach, WalkTop, WalkReturns, WalkIdle

-----------------------------------------------------------------------------
(* The living have owners, and their makers know them. *)

\* A lock ends only when the function returns.
LEMMA LocksStep ==
  ASSUME IInv, [Next]_vars, NEW x, Locked(x), FuncReturns => x # Last(walks).at
  PROVE  Locked(x)'
<1> USE DEF IInv
<1>1. PICK i \in DOMAIN walks : walks[i].phase = "func" /\ walks[i].at = x
  BY DEF Locked
<1>2. ASSUME i \in DOMAIN walks', walks'[i].phase = "func", walks'[i].at = x PROVE Locked(x)'
  BY <1>2 DEF Locked
<1>3. ASSUME NEW n \in Addresses, NEW a \in Addresses, make_shared(a) \/ make_lower(n, a) PROVE Locked(x)'
  <2>1. Construct(a)
    BY <1>3 DEF make_shared, make_lower
  <2> QED BY <1>1, <1>2, <2>1, WalksConstruct
<1>4. ASSUME NEW n \in Addresses, NEW t \in Types, ForEach(n, t) PROVE Locked(x)'
  <2>0. /\ Len(walks) \in Nat /\ DOMAIN walks = 1..Len(walks) /\ DOMAIN walks' = 1..Len(walks) + 1
        /\ \A j \in DOMAIN walks : walks'[j] = walks[j]
    BY <1>4, WalksForEach
  <2>1. i \in DOMAIN walks' /\ walks'[i] = walks[i]
    BY <2>0
  <2> QED BY <1>1, <1>2, <2>1
<1>5. CASE ForEachReturns
  <2>1. Last(walks) = walks[Len(walks)] /\ walks[Len(walks)].phase = "next"
    BY <1>5 DEF ForEachReturns, Last
  <2>2. i # Len(walks)
    BY <1>1, <2>1
  <2>3. i \in DOMAIN walks' /\ walks'[i] = walks[i]
    BY <1>5, <2>2, WalksReturn
  <2> QED BY <1>1, <1>2, <2>3
<1>6. CASE ForEachErases \/ ForEachCalls \/ FuncReturns
  <2>1. Last(walks) = walks[Len(walks)]
    BY DEF Last
  <2>2. ForEachErases \/ ForEachCalls => Last(walks).phase = "next"
    <3>1. ForEachErases \/ ForEachCalls => Last(walks).phase = "next"
      BY DEF ForEachErases, ForEachCalls
    <3> QED BY <3>1
  <2>3. i # Len(walks)
    BY <1>1, <1>6, <2>1, <2>2
  <2>4. i \in DOMAIN walks' /\ walks'[i] = walks[i]
    BY <1>1, <1>6, <2>3, WalksStep, WalksTop
  <2> QED BY <1>1, <1>2, <2>4
<1>7. CASE Idle
  BY <1>1, <1>2, <1>7, IdleWalks
<1> QED BY <1>3, <1>4, <1>5, <1>6, <1>7, NextCases

LEMMA OwnerStep ==
  ASSUME IInv, [Next]_vars
  PROVE  AliveByOwner'
<1> USE DEF IInv, AliveByOwner
<1>t. TypeOK /\ lower \in [Addresses -> SUBSET Addresses]
  BY DEF TypeOK
<1> SUFFICES ASSUME NEW x, x \in alive' PROVE Owned(x)'
  OBVIOUS
<1>0. ASSUME held \subseteq held', \A n \in Addresses : lower[n] \subseteq lower'[n],
             alive' \subseteq alive, ~ FuncReturns
      PROVE  Owned(x)'
  BY <1>0, LocksStep DEF Owned
<1>1. ASSUME NEW n \in Addresses, NEW a \in Addresses, make_shared(a) \/ make_lower(n, a) PROVE Owned(x)'
  <2>1. /\ alive' = alive \cup {a} /\ held' = held \cup {a} /\ ~ FuncReturns
        /\ \A m \in Addresses : lower[m] \subseteq lower'[m]
    <3>1. Construct(a) /\ a \notin alive
      BY <1>1 DEF make_shared, make_lower, Construct, Free
    <3>2. FuncReturns => alive' \subseteq alive
      <4>1. ASSUME NEW y, LetGo(y) PROVE alive' \subseteq alive
        BY <4>1, LetGoCases
      <4> QED BY <4>1 DEF FuncReturns
    <3> QED BY <1>t, <1>1, <3>1, <3>2 DEF make_shared, make_lower, Construct
  <2>2. CASE x = a
    BY <2>1, <2>2 DEF Owned
  <2>3. CASE x \in alive
    BY <2>1, <2>3, LocksStep DEF Owned
  <2> QED BY <2>1, <2>2, <2>3
<1>2. ASSUME NEW y, LetGo(y), x # y => Owned(x)' PROVE Owned(x)'
  BY <1>2, LetGoCases
<1>3. ASSUME NEW y \in Addresses, Release(y) PROVE Owned(x)'
  <2>1. LetGo(y) /\ held' = held \ {y} /\ lower' = lower /\ walks' = walks
    BY <1>3 DEF Release
  <2>2. x \in alive
    BY <2>1, LetGoCases
  <2>3. x # y => Owned(x)'
    BY <2>1, <2>2 DEF Owned, Locked
  <2> QED BY <1>2, <2>1, <2>3
<1>4. CASE FuncReturns
  <2>1. LetGo(Last(walks).at) /\ UNCHANGED <<held, lower>>
    BY <1>4 DEF FuncReturns
  <2>2. x \in alive
    BY <2>1, LetGoCases
  <2>3. x # Last(walks).at => Owned(x)'
    BY <2>1, <2>2, LocksStep DEF Owned
  <2> QED BY <1>2, <2>1, <2>3
<1>5. CASE Destruct
  <2>1. ASSUME NEW y \in lower[Last(dying)], LetGo(y), held' = held, walks' = walks,
               lower' = [lower EXCEPT ![Last(dying)] = @ \ {y}]
        PROVE  Owned(x)'
    <3>1. x \in alive
      BY <2>1, LetGoCases
    <3>2. x # y => Owned(x)'
      BY <1>t, <2>1, <3>1 DEF Owned, Locked
    <3> QED BY <1>2, <2>1, <3>2
  <2>2. ASSUME UNCHANGED <<alive, held, lower, walks>> PROVE Owned(x)'
    BY <2>2 DEF Owned, Locked
  <2> QED BY <1>5, <2>1, <2>2 DEF Destruct
<1>6. ASSUME NEW n \in Addresses, NEW a \in Addresses,
             AddUpper(n, a) \/ AddLower(n, a) \/ Take(n, a)
      PROVE  Owned(x)'
  <2>1. walks' = walks /\ held \subseteq held' /\ alive' = alive /\ \A m \in Addresses : lower[m] \subseteq lower'[m]
    BY <1>t, <1>6 DEF AddUpper, AddLower, Take
  <2> QED BY <2>1 DEF Owned, Locked
<1>7. ASSUME NEW n \in Addresses, NEW T, prune_expired(n, T) PROVE Owned(x)'
  BY <1>7 DEF prune_expired, Owned, Locked
<1>8. CASE ForEachErases \/ ForEachCalls \/ ForEachReturns
  <2>1. UNCHANGED <<alive, held, lower>>
    BY <1>8 DEF ForEachErases, ForEachCalls, ForEachReturns
  <2>2. CASE FuncReturns
    BY <1>4, <2>2
  <2> QED BY <1>0, <2>1, <2>2
<1>9. ASSUME NEW n \in Addresses, NEW t \in Types, ForEach(n, t) PROVE Owned(x)'
  <2>1. UNCHANGED <<alive, held, lower>>
    BY <1>9 DEF ForEach
  <2>2. CASE FuncReturns
    BY <1>4, <2>2
  <2> QED BY <1>0, <2>1, <2>2
<1>10. CASE UNCHANGED vars
  BY <1>10 DEF vars, Owned, Locked
<1> QED BY <1>1, <1>3, <1>4, <1>5, <1>6, <1>7, <1>8, <1>9, <1>10, NextCases DEF Idle

\* No living node loses a lower.
LEMMA LowersKept ==
  ASSUME IInv, [Next]_vars
  PROVE  \A m \in alive : lower[m] \subseteq lower'[m]
<1> USE DEF IInv
<1>t. TypeOK /\ lower \in [Addresses -> SUBSET Addresses] /\ alive \subseteq Addresses
  BY DEF TypeOK
<1>1. CASE Destruct
  <2>1. Last(dying) \notin alive
    BY <1>1, DropDying DEF Destruct, TypeOK
  <2> QED BY <1>t, <1>1, <2>1 DEF Destruct
<1>2. ASSUME NEW n \in Addresses, NEW a \in Addresses, make_lower(n, a) \/ AddLower(n, a)
      PROVE  \A m \in alive : lower[m] \subseteq lower'[m]
  BY <1>t, <1>2 DEF make_lower, AddLower
<1>3. ASSUME lower' = lower PROVE \A m \in alive : lower[m] \subseteq lower'[m]
  BY <1>3
<1> QED BY <1>1, <1>2, <1>3, NextCases
        DEF Idle, make_shared, Release, AddUpper, Take, prune_expired, ForEach, ForEachErases,
            ForEachCalls, FuncReturns, ForEachReturns, vars

LEMMA MakerStep ==
  ASSUME IInv, [Next]_vars
  PROVE  MakerLives' /\ MakerIsKnown'
<1> USE DEF IInv
<1>t. /\ TypeOK /\ TypeOK' /\ alive \subseteq Addresses /\ alive' \subseteq Addresses
      /\ upper \in [Addresses -> SUBSET Addresses] /\ lower \in [Addresses -> SUBSET Addresses]
      /\ maker \in [Addresses -> Addresses \cup {End}]
  BY TypeStep DEF TypeOK
\* Who is left with a maker it had before, and whose maker is left, still knows it.
<1>0. ASSUME NEW x \in alive, x \in alive', maker[x] # End, maker[x] \in alive'
      PROVE  maker[x] \in upper'[x] /\ x \in lower'[maker[x]]
  <2>1. maker[x] \in upper[x] /\ x \in lower[maker[x]] /\ maker[x] \in alive
    BY <1>t, <1>0 DEF MakerLives, MakerIsKnown
  <2>2. maker[x] \in upper'[x]
    BY <1>0, <2>1, UppersStep
  <2>3. x \in lower'[maker[x]]
    BY <2>1, LowersKept
  <2> QED BY <2>2, <2>3
<1>1. ASSUME alive' = alive, maker' = maker PROVE MakerLives' /\ MakerIsKnown'
  BY <1>t, <1>0, <1>1 DEF MakerLives, MakerIsKnown
<1>2. ASSUME NEW y, LetGo(y) PROVE MakerLives' /\ MakerIsKnown'
  <2>1. CASE alive' = alive /\ maker' = maker
    BY <1>1, <2>1
  <2>2. CASE /\ y \in alive /\ alive' = alive \ {y}
             /\ maker' = [m \in Addresses |-> IF m = y \/ maker[m] = y THEN End ELSE maker[m]]
    <3>1. ASSUME NEW x \in Addresses, maker'[x] # End
          PROVE  x # y /\ maker'[x] = maker[x] /\ maker[x] # y /\ x \in alive' /\ maker[x] \in alive'
      <4>1. x # y /\ maker'[x] = maker[x] /\ maker[x] # y
        BY <2>2, <3>1
      <4> QED BY <2>2, <3>1, <4>1 DEF MakerLives
    <3>2. MakerLives'
      BY <3>1 DEF MakerLives
    <3>3. MakerIsKnown'
      BY <1>t, <1>0, <2>2, <3>1 DEF MakerIsKnown
    <3> QED BY <3>2, <3>3
  <2> QED BY <1>2, <2>1, <2>2, LetGoCases
<1>3. ASSUME NEW n \in Addresses, NEW a \in Addresses, make_shared(a) \/ make_lower(n, a)
      PROVE  MakerLives' /\ MakerIsKnown'
  <2>1. a \notin alive /\ alive' = alive \cup {a}
    BY <1>3 DEF make_shared, make_lower, Construct, Free
  <2>2. maker[a] = End /\ \A x \in Addresses : maker[x] # a \/ maker[x] = End
    BY <2>1 DEF MakerLives
  <2>3. CASE make_shared(a)
    BY <1>t, <1>0, <2>1, <2>2, <2>3 DEF make_shared, MakerLives, MakerIsKnown
  <2>4. CASE make_lower(n, a)
    <3>1. n \in alive
      BY <2>4, InHandAlive DEF make_lower
    <3>2. /\ maker' = [maker EXCEPT ![a] = n] /\ upper' = [upper EXCEPT ![a] = {n}]
          /\ lower' = [lower EXCEPT ![n] = @ \cup {a}]
      BY <2>4 DEF make_lower
    <3>3. maker'[a] = n /\ n \in upper'[a] /\ a \in lower'[n]
      BY <1>t, <3>2
    <3>4. ASSUME NEW x \in Addresses, x # a PROVE maker'[x] = maker[x]
      BY <1>t, <3>2, <3>4
    <3>5. MakerLives'
      BY <2>1, <3>1, <3>3, <3>4 DEF MakerLives
    <3>6. MakerIsKnown'
      BY <1>t, <1>0, <2>1, <3>3, <3>4 DEF MakerIsKnown, MakerLives
    <3> QED BY <3>5, <3>6
  <2> QED BY <1>3, <2>3, <2>4
<1>4. CASE Destruct
  BY <1>1, <1>2, <1>4 DEF Destruct
<1>5. CASE FuncReturns
  BY <1>2, <1>5 DEF FuncReturns
<1>6. ASSUME NEW y \in Addresses, Release(y) PROVE MakerLives' /\ MakerIsKnown'
  BY <1>2, <1>6 DEF Release
<1> QED BY <1>1, <1>3, <1>4, <1>5, <1>6, NextCases
        DEF Idle, AddUpper, AddLower, Take, prune_expired, ForEach, ForEachErases, ForEachCalls,
            ForEachReturns, vars

-----------------------------------------------------------------------------
(* The invariant. *)

LEMMA InvInit == Init => IInv
<1> SUFFICES ASSUME Init PROVE IInv
  OBVIOUS
<1>1. TypeOK
  BY MaxWalksAssumption DEF Init, TypeOK, IsInjective, ToSet
<1> QED BY <1>1 DEF Init, IInv, LowersFit, AliveByOwner, Nested, WalkIsSafe, DueAhead, MakerLives, MakerIsKnown

LEMMA InvStep == IInv /\ [Next]_vars => IInv'
<1> SUFFICES ASSUME IInv, [Next]_vars PROVE IInv'
  OBVIOUS
<1> QED BY TypeStep, LowersStep, OwnerStep, WalkStep, MakerStep DEF IInv, WalkInv

LEMMA Inv == Spec => []IInv
BY InvInit, InvStep, PTL DEF Spec

\* Every variable has its type, and no node is alive and in destruction.
THEOREM TypeCorrect == Spec => []TypeOK
<1>1. IInv => TypeOK
  BY DEF IInv
<1> QED BY <1>1, Inv, PTL

\* No node ever has a pointer to a lower that is gone.
THEOREM LowersAlwaysLive == Spec => []LowersLive
<1>1. IInv => LowersLive
  BY DEF IInv, LowersFit, LowersLive
<1> QED BY <1>1, Inv, PTL

\* No function that for_each calls makes its iterator invalid.
THEOREM WalksAreSafe == Spec => []WalkIsSafe
<1>1. IInv => WalkIsSafe
  BY DEF IInv
<1> QED BY <1>1, Inv, PTL

\* A for_each that ends has met everybody who was there all the time.
THEOREM WalksMeetAll == Spec => []WalkMeetsAll
<1>1. IInv => WalkMeetsAll
  BY DEF IInv, DueAhead, WalkMeetsAll
<1> QED BY <1>1, Inv, PTL

\* A node made by make_lower and its maker know each other while both live.
THEOREM MakersAreKnown == Spec => []MakerIsKnown
<1>1. IInv => MakerIsKnown
  BY DEF IInv
<1> QED BY <1>1, Inv, PTL

\* A living node forgets an upper only when that is gone.
THEOREM UppersAreKept == Spec => UppersKept
<1>1. IInv /\ [Next]_vars =>
        [\A n \in alive \cap alive' : \A u \in upper[n] \ upper'[n] : u \notin alive]_vars
  BY UppersStep
<1> QED BY <1>1, Inv, PTL DEF Spec, UppersKept

\* With layers, what the program cannot come to is gone: the topmost member of a set
\* of nodes has an owner outside of it.
THEOREM NothingLeaks == Spec => []NoLeak
<1>1. ASSUME IInv PROVE NoLeak
  <2> SUFFICES ASSUME dying = << >>, NEW S \in (SUBSET alive) \ {{}}
               PROVE  \E x \in S : InHand(x) \/ \E n \in alive \ S : x \in lower[n]
    BY DEF NoLeak
  <2>t. /\ S \subseteq alive /\ S # {} /\ alive \subseteq Addresses
        /\ lower \in [Addresses -> SUBSET Addresses] /\ \A a \in Addresses \ alive : lower[a] = {}
    <3>1. ToSet(dying) = {}
      BY DEF ToSet
    <3> QED BY <1>1, <3>1 DEF IInv, TypeOK
  <2> DEFINE R == {Rank[type[x]] : x \in S}
  <2>1. R \subseteq Nat /\ R # {}
    BY <2>t, RankAssumption, ClassesAssumption
  <2>2. PICK r \in R : \A q \in R : ~ (<<q, r>> \in Less)
    <3> HIDE DEF R
    <3> QED BY <2>1, LessWellFounded, WFMin, Zenon
  <2>3. PICK x \in S : Rank[type[x]] = r
    OBVIOUS
  <2>4. CASE InHand(x)
    BY <2>4
  <2>5. ASSUME NEW n \in Addresses, x \in lower[n] PROVE n \in alive \ S
    <3>1. n \in alive
      BY <2>t, <2>5
    <3>2. type[x] \in Lowers[type[n]] /\ type[n] \in Types
      BY <1>1, <2>5, ClassesAssumption DEF IInv, LowersFit
    <3>3. Rank[type[n]] < Rank[type[x]] /\ Rank[type[n]] \in Nat
      BY <3>2, RankAssumption
    <3>4. Rank[type[n]] \notin R
      BY <2>1, <2>2, <2>3, <3>3 DEF Less
    <3>5. n \notin S
      BY <3>4
    <3> QED BY <3>1, <3>5
  <2>6. InHand(x) \/ \E n \in Addresses : x \in lower[n]
    BY <1>1, <2>t DEF IInv, AliveByOwner, Owned, InHand
  <2> QED BY <2>4, <2>5, <2>6
<1> QED BY <1>1, Inv, PTL
=============================================================================
