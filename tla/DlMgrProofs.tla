---------------------------- MODULE DlMgrProofs ----------------------------
(***************************************************************************)
(* What DlMgr promises, for any number of managers, libraries, handles and *)
(* functions.  How often a handle is open is compared with its holders     *)
(* from both sides, and each step changes the two alike: a handle is open  *)
(* at most once for each holder, and at least once for each if no holder   *)
(* is exposed.  The holders of a handle are exposed together or not at all. *)
(***************************************************************************)
EXTENDS DlMgr, FiniteSetTheorems, TLAPS

\* The handles with a holder that is exposed.
Shared == {h \in Handles : Holders(h) \cap exposed # {}}

\* All holders of such a handle are exposed.
Together == \A h \in Shared : Holders(h) \subseteq exposed

\* Any other handle is open once for each holder at least.
Accounts ==
  \A h \in Handles \ Shared :
    /\ count[h] >= Cardinality(Holders(h))
    /\ \A m \in Holders(h) :
         /\ lib[h] = manager[m].path
         /\ \A i \in 1..manager[m].loaded : Functions[i] \in Exports[lib[h]]

IInv == TypeOK /\ NothingStaysOpen /\ Together /\ Accounts

\* The handles that still have such a holder when m lets go of its own.
Forget(m) == Shared \ {h \in Handles : Holders(h) \subseteq {m}}

LEMMA Loads == IInv => FunctionsAreLoaded
<1> SUFFICES ASSUME IInv, NEW m \in Managers \ exposed, manager[m].at # "gone"
             PROVE  /\ lib[manager[m].handle] = manager[m].path
                    /\ \A i \in 1..manager[m].loaded :
                         Functions[i] \in Exports[lib[manager[m].handle]]
  BY DEF FunctionsAreLoaded, Loaded
<1>1. manager[m].handle \in Handles /\ m \in Holders(manager[m].handle)
  BY DEF IInv, TypeOK, Manager, Holders
<1>2. manager[m].handle \notin Shared
  BY <1>1 DEF IInv, Together
<1> QED
  BY <1>1, <1>2 DEF IInv, Accounts

-----------------------------------------------------------------------------
(* Counting holders. *)

\* There are only so many holders of a handle.
LEMMA HoldersFinite ==
  ASSUME NEW h
  PROVE  IsFiniteSet(Holders(h)) /\ Cardinality(Holders(h)) \in Nat
<1>1. IsFiniteSet(Holders(h))
  BY FiniteAssumption, FS_Subset, Holders(h) \subseteq Managers DEF Holders
<1> QED
  BY <1>1, FS_CardinalityType

\* A manager that gets a handle is one holder more.
LEMMA HolderMore ==
  ASSUME TypeOK, NEW m \in Managers, NEW r \in Manager,
         manager[m].handle = None, r.handle \in Handles,
         manager' = [manager EXCEPT ![m] = r]
  PROVE  \A h \in Handles :
           /\ Holders(h)' = IF h = r.handle THEN Holders(h) \cup {m} ELSE Holders(h)
           /\ Cardinality(Holders(h)') =
                IF h = r.handle THEN Cardinality(Holders(h)) + 1 ELSE Cardinality(Holders(h))
<1> SUFFICES ASSUME NEW h \in Handles
             PROVE  /\ Holders(h)' = IF h = r.handle THEN Holders(h) \cup {m} ELSE Holders(h)
                    /\ Cardinality(Holders(h)') =
                         IF h = r.handle THEN Cardinality(Holders(h)) + 1
                         ELSE Cardinality(Holders(h))
  OBVIOUS
<1>1. m \notin Holders(h)
  BY NoneAssumption DEF Holders
<1>2. Holders(h)' = IF h = r.handle THEN Holders(h) \cup {m} ELSE Holders(h)
  BY NoneAssumption DEF Holders, TypeOK
<1> QED
  BY <1>1, <1>2, HoldersFinite, FS_AddElement

\* A manager that is gone is one holder less.
LEMMA HolderLess ==
  ASSUME TypeOK, NEW m \in Managers, manager[m].handle \in Handles,
         manager' = [manager EXCEPT ![m] = Gone]
  PROVE  \A h \in Handles :
           /\ Holders(h)' = Holders(h) \ {m}
           /\ Cardinality(Holders(h)') =
                IF h = manager[m].handle THEN Cardinality(Holders(h)) - 1
                ELSE Cardinality(Holders(h))
<1> SUFFICES ASSUME NEW h \in Handles
             PROVE  /\ Holders(h)' = Holders(h) \ {m}
                    /\ Cardinality(Holders(h)') =
                         IF h = manager[m].handle THEN Cardinality(Holders(h)) - 1
                         ELSE Cardinality(Holders(h))
  OBVIOUS
<1>1. m \in Holders(h) <=> h = manager[m].handle
  BY DEF Holders
<1>2. Holders(h)' = Holders(h) \ {m}
  BY NoneAssumption DEF Holders, TypeOK, Gone
<1> QED
  BY <1>1, <1>2, HoldersFinite, FS_RemoveElement

\* Nobody who holds a handle that is open once has company.
LEMMA LastHolder ==
  ASSUME NEW h, NEW m \in Holders(h), Cardinality(Holders(h)) <= 1
  PROVE  Holders(h) = {m}
<1>1. IsFiniteSet(Holders(h)) /\ Cardinality(Holders(h)) \in Nat
  BY HoldersFinite
<1>2. Cardinality(Holders(h)) # 0
  BY <1>1, FS_EmptySet
<1>3. Cardinality(Holders(h)) = 1
  BY <1>1, <1>2
<1> QED
  BY <1>1, <1>3, FS_Singleton

\* The managers keep their type.
LEMMA GoneIsManager == Gone \in Manager
  BY FunctionsAssumption DEF Gone, Manager

-----------------------------------------------------------------------------
(* The steps. *)

LEMMA InitIInv == Init => IInv
<1> SUFFICES ASSUME Init PROVE IInv
  OBVIOUS
<1>1. TypeOK
  BY GoneIsManager, NoneAssumption, FunctionsAssumption DEF Init, TypeOK, Gone
<1>2. \A h \in Handles : Holders(h) = {}
  BY NoneAssumption DEF Init, Holders, Gone
<1>3. \A h \in Handles : count[h] = 0 /\ Cardinality(Holders(h)) = 0
  BY <1>2, FS_EmptySet DEF Init
<1>4. NothingStaysOpen
  BY <1>3 DEF NothingStaysOpen
<1>5. Accounts /\ Together
  BY <1>2, <1>3 DEF Accounts, Together, Shared
<1> QED
  BY <1>1, <1>4, <1>5 DEF IInv

LEMMA ConstructStep ==
  ASSUME IInv, NEW m \in Managers, NEW path \in Libraries, Construct(m, path)
  PROVE  IInv'
<1> DEFINE r(h) == [at |-> "loading", path |-> path, handle |-> h, loaded |-> 0]
<1>1. PICK h \in Handles :
        /\ dlopen(path, h) /\ manager' = [manager EXCEPT ![m] = r(h)]
        /\ exposed' = exposed \cup (IF Holders(h) \cap exposed = {} THEN {} ELSE {m})
  BY DEF Construct
<1>2. r(h) \in Manager /\ manager[m].handle = None /\ path # None
  BY FunctionsAssumption, NoneAssumption DEF Manager, IInv, TypeOK, Construct
<1>3. UNCHANGED overwritten
  BY DEF Construct
<1>4. /\ count' = [count EXCEPT ![h] = @ + 1]
      /\ lib' = [lib EXCEPT ![h] = path]
      /\ lib[h] = path \/ (lib[h] = None /\ \A g \in Handles : lib[g] # path)
  BY <1>1 DEF dlopen
<1>5. \A g \in Handles :
        /\ Holders(g)' = IF g = h THEN Holders(g) \cup {m} ELSE Holders(g)
        /\ Cardinality(Holders(g)') =
             IF g = h THEN Cardinality(Holders(g)) + 1 ELSE Cardinality(Holders(g))
  BY <1>1, <1>2, HolderMore DEF IInv
<1>0. /\ m \notin exposed /\ \A g \in Handles : m \notin Holders(g)
      /\ exposed' \subseteq {n \in Managers : manager'[n].at # "gone"}
  <2>1. m \notin exposed /\ \A g \in Handles : m \notin Holders(g)
    BY <1>2, NoneAssumption DEF IInv, TypeOK, Construct, Holders
  <2>2. \A n \in Managers : n # m => manager'[n] = manager[n]
    BY <1>1 DEF IInv, TypeOK
  <2>3. manager'[m].at = "loading"
    BY <1>1 DEF IInv, TypeOK
  <2> QED
    BY <2>1, <2>2, <2>3, <1>1 DEF IInv, TypeOK
<1>9. Shared' = Shared /\ Together'
  <2>1. \A g \in Handles : Holders(g)' \cap exposed' # {} <=> Holders(g) \cap exposed # {}
    BY <1>0, <1>1, <1>5
  <2>2. Shared' = Shared
    BY <2>1 DEF Shared
  <2>3. ASSUME NEW g \in Shared PROVE Holders(g)' \subseteq exposed'
    <3>1. Holders(g) \subseteq exposed /\ g \in Handles /\ Holders(g) \cap exposed # {}
      BY DEF IInv, Together, Shared
    <3> QED
      BY <3>1, <1>1, <1>5
  <2> QED
    BY <2>2, <2>3 DEF Together
<1>6. TypeOK'
  <2>1. manager' \in [Managers -> Manager]
    BY <1>1, <1>2 DEF IInv, TypeOK
  <2>2. \A n \in Managers : /\ manager'[n].at = "gone" <=> manager'[n].handle = None
                            /\ manager'[n].at = "ready" <=> manager'[n].loaded = Len(Functions)
    BY <1>1, NoneAssumption, FunctionsAssumption DEF IInv, TypeOK
  <2>3. count' \in [Handles -> Nat] /\ lib' \in [Handles -> Libraries \cup {None}]
    BY <1>4 DEF IInv, TypeOK
  <2>4. \A g \in Handles : lib'[g] = None <=> count'[g] = 0
    BY <1>2, <1>4 DEF IInv, TypeOK
  <2>5. \A f, g \in Handles : lib'[f] = lib'[g] /\ f # g => lib'[f] = None
    BY <1>2, <1>4 DEF IInv, TypeOK
  <2> QED
    BY <2>1, <2>2, <2>3, <2>4, <2>5, <1>0, <1>3 DEF IInv, TypeOK
<1>7. NothingStaysOpen'
  BY <1>3, <1>4, <1>5, HoldersFinite DEF IInv, NothingStaysOpen, TypeOK
<1>8. Accounts'
  <2> SUFFICES ASSUME NEW g \in Handles, g \notin Shared
               PROVE  /\ count'[g] >= Cardinality(Holders(g)')
                      /\ \A n \in Holders(g)' :
                           /\ lib'[g] = manager'[n].path
                           /\ \A i \in 1..manager'[n].loaded : Functions[i] \in Exports[lib'[g]]
    BY <1>9 DEF Accounts
  <2>1. count'[g] >= Cardinality(Holders(g)')
    BY <1>4, <1>5, HoldersFinite DEF IInv, TypeOK, Accounts
  <2>2. ASSUME NEW n \in Holders(g)'
        PROVE  /\ lib'[g] = manager'[n].path
               /\ \A i \in 1..manager'[n].loaded : Functions[i] \in Exports[lib'[g]]
    <3>1. CASE n = m
      BY <3>1, <2>2, <1>1, <1>4 DEF IInv, TypeOK, Holders
    <3>2. CASE n # m
      <4>1. n \in Managers /\ manager'[n] = manager[n] /\ n \in Holders(g)
        BY <3>2, <2>2, <1>1 DEF IInv, TypeOK, Holders
      <4>2. /\ lib[g] = manager[n].path
            /\ count[g] >= Cardinality(Holders(g))
            /\ \A i \in 1..manager[n].loaded : Functions[i] \in Exports[lib[g]]
        BY <4>1 DEF IInv, Accounts
      <4>3. count[g] # 0
        BY <4>1, <4>2, HoldersFinite, FS_EmptySet
      <4>4. lib'[g] = lib[g]
        BY <4>3, <1>4 DEF IInv, TypeOK
      <4> QED
        BY <4>1, <4>2, <4>4
    <3> QED
      BY <3>1, <3>2
  <2> QED
    BY <2>1, <2>2
<1> QED
  BY <1>6, <1>7, <1>8, <1>9 DEF IInv

\* Finding a function changes neither holders nor the linker.
LEMMA GetSymStep ==
  ASSUME IInv, NEW m \in Managers, GetSym(m)
  PROVE  IInv'
<1> USE FunctionsAssumption, NoneAssumption
<1>1. /\ manager[m] \in Manager /\ manager[m].at = "loading"
      /\ manager[m].handle \in Handles /\ manager[m].loaded < Len(Functions)
  <2>1. manager[m] \in Manager /\ manager[m].at = "loading"
    BY DEF IInv, TypeOK, GetSym
  <2>2. manager[m].handle # None /\ manager[m].loaded # Len(Functions)
    BY <2>1 DEF IInv, TypeOK
  <2>3. manager[m].handle \in Handles /\ manager[m].loaded \in 0..Len(Functions)
    BY <2>1, <2>2 DEF Manager
  <2> QED
    BY <2>1, <2>2, <2>3
<1>2. /\ manager' = [manager EXCEPT ![m].loaded = @ + 1,
           ![m].at = IF manager[m].loaded + 1 = Len(Functions) THEN "ready" ELSE @]
      /\ UNCHANGED <<count, lib, exposed, overwritten>>
  BY DEF GetSym, linker
<1>3. \A h : Holders(h)' = Holders(h)
  BY <1>1, <1>2 DEF IInv, TypeOK, Holders
<1>7. Shared' = Shared /\ Together'
  BY <1>2, <1>3 DEF IInv, Shared, Together
<1>4. TypeOK'
  <2>1. manager[m].loaded + 1 \in 0..Len(Functions)
    BY <1>1 DEF Manager
  <2>2. manager' \in [Managers -> Manager]
    BY <2>1, <1>1, <1>2 DEF IInv, TypeOK, Manager
  <2>3. \A n \in Managers : n # m => manager'[n] = manager[n]
    BY <1>2 DEF IInv, TypeOK
  <2>4. /\ manager'[m].at # "gone" /\ manager'[m].handle = manager[m].handle
        /\ manager'[m].at = "ready" <=> manager'[m].loaded = Len(Functions)
    BY <1>1, <1>2 DEF IInv, TypeOK, Manager
  <2> QED
    BY <2>2, <2>3, <2>4, <1>1, <1>2 DEF IInv, TypeOK
<1>5. NothingStaysOpen'
  BY <1>2, <1>3 DEF IInv, NothingStaysOpen
<1>6. Accounts'
  <2> SUFFICES ASSUME NEW h \in Handles \ Shared, NEW n \in Holders(h)
               PROVE  /\ lib[h] = manager'[n].path
                      /\ \A i \in 1..manager'[n].loaded : Functions[i] \in Exports[lib[h]]
    BY <1>2, <1>3, <1>7 DEF IInv, Accounts
  <2>1. /\ n \in Managers /\ manager[n].handle = h
        /\ lib[h] = manager[n].path /\ lib[h] # None
        /\ \A i \in 1..manager[n].loaded : Functions[i] \in Exports[lib[h]]
    <3>1. count[h] # 0
      BY HoldersFinite, FS_EmptySet DEF IInv, Accounts
    <3> QED
      BY <3>1 DEF IInv, TypeOK, Accounts, Holders
  <2>2. CASE n # m
    BY <2>1, <2>2, <1>2 DEF IInv, TypeOK
  <2>3. CASE n = m
    <3>1. /\ manager'[m].loaded = manager[m].loaded + 1 /\ manager'[m].path = manager[m].path
          /\ manager[m].loaded \in Nat
      BY <1>1, <1>2 DEF IInv, TypeOK, Manager
    <3>2. Functions[manager[m].loaded + 1] \in Exports[lib[h]]
      BY <2>1, <2>3 DEF GetSym, MayFind, NextName
    <3>3. ASSUME NEW i \in 1..manager'[m].loaded
          PROVE  Functions[i] \in Exports[lib[h]]
      <4>1. i = manager[m].loaded + 1 \/ i \in 1..manager[m].loaded
        BY <3>1
      <4> QED
        BY <4>1, <3>2, <2>1, <2>3
    <3> QED
      BY <3>1, <3>3, <2>1, <2>3
  <2> QED
    BY <2>2, <2>3
<1> QED
  BY <1>4, <1>5, <1>6, <1>7 DEF IInv

\* A manager goes and closes its handle: half made or at the end of its life.
LEMMA CloseStep ==
  ASSUME IInv, NEW m \in Managers, manager[m].at # "gone",
         dlclose(manager[m].handle), manager' = [manager EXCEPT ![m] = Gone],
         exposed' = exposed \ {m}, UNCHANGED overwritten
  PROVE  IInv'
<1> DEFINE h == manager[m].handle
<1> USE NoneAssumption
<1>1. h \in Handles /\ m \in Holders(h)
  BY DEF IInv, TypeOK, Manager, Holders
<1>2. /\ count' = [count EXCEPT ![h] = IF @ = 0 THEN 0 ELSE @ - 1]
      /\ lib' = [lib EXCEPT ![h] = IF count[h] <= 1 THEN None ELSE @]
  BY DEF dlclose
<1>3. \A g \in Handles :
        /\ Holders(g)' = Holders(g) \ {m}
        /\ Cardinality(Holders(g)') =
             IF g = h THEN Cardinality(Holders(g)) - 1 ELSE Cardinality(Holders(g))
  BY <1>1, HolderLess DEF IInv
<1>4. \A g \in Handles : Cardinality(Holders(g)) \in Nat /\ Cardinality(Holders(g)') \in Nat
  <2>1. \A g \in Handles : Cardinality(Holders(g)) \in Nat
    BY HoldersFinite
  <2>2. Cardinality(Holders(h)) # 0
    BY <1>1, HoldersFinite, FS_EmptySet
  <2> QED
    BY <2>1, <2>2, <1>1, <1>3
<1> HIDE DEF h
<1>8. Shared' = Forget(m) /\ Together'
  <2>1. \A g \in Handles : g \in Shared => Holders(g) \subseteq exposed
    BY DEF IInv, Together
  <2>2. \A g \in Handles : Holders(g)' \cap exposed' # {} <=> g \in Forget(m)
    BY <2>1, <1>3 DEF Shared, Forget
  <2>3. Shared' = Forget(m)
    BY <2>2 DEF Shared, Forget
  <2>4. ASSUME NEW g \in Forget(m) PROVE Holders(g)' \subseteq exposed'
    BY <2>1, <1>3 DEF Shared, Forget
  <2> QED
    BY <2>3, <2>4 DEF Together
<1>5. TypeOK'
  <2>1. manager' \in [Managers -> Manager]
    BY GoneIsManager DEF IInv, TypeOK
  <2>2. \A n \in Managers : /\ manager'[n].at = "gone" <=> manager'[n].handle = None
                            /\ manager'[n].at = "ready" <=> manager'[n].loaded = Len(Functions)
    BY FunctionsAssumption DEF IInv, TypeOK, Gone
  <2>3. count' \in [Handles -> Nat] /\ lib' \in [Handles -> Libraries \cup {None}]
    BY <1>1, <1>2 DEF IInv, TypeOK
  <2>4. \A g \in Handles : lib'[g] = None <=> count'[g] = 0
    BY <1>1, <1>2 DEF IInv, TypeOK
  <2>5. \A f, g \in Handles : lib'[f] = lib'[g] /\ f # g => lib'[f] = None
    BY <1>1, <1>2 DEF IInv, TypeOK
  <2>6. /\ exposed' \subseteq {n \in Managers : manager'[n].at # "gone"}
        /\ overwritten' \subseteq Handles
    <3>1. \A n \in Managers : n # m => manager'[n] = manager[n]
      BY DEF IInv, TypeOK
    <3> QED
      BY <3>1 DEF IInv, TypeOK
  <2> QED
    BY <2>1, <2>2, <2>3, <2>4, <2>5, <2>6 DEF TypeOK
<1>6. NothingStaysOpen'
  <2> SUFFICES ASSUME NEW g \in Handles, g \notin overwritten
               PROVE  count'[g] <= Cardinality(Holders(g)')
    BY DEF NothingStaysOpen
  <2>1. count[g] <= Cardinality(Holders(g)) /\ count[g] \in Nat
    BY DEF IInv, NothingStaysOpen, TypeOK
  <2> QED
    BY <2>1, <1>1, <1>2, <1>3, <1>4 DEF IInv, TypeOK
<1>7. Accounts'
  <2> SUFFICES ASSUME NEW g \in Handles, g \notin Forget(m)
               PROVE  /\ count'[g] >= Cardinality(Holders(g)')
                      /\ \A n \in Holders(g)' :
                           /\ lib'[g] = manager'[n].path
                           /\ \A i \in 1..manager'[n].loaded : Functions[i] \in Exports[lib'[g]]
    BY <1>8 DEF Accounts
  <2>1. CASE Holders(g) \subseteq {m}
    <3>1. Holders(g)' = {} /\ Cardinality(Holders(g)') = 0
      BY <2>1, <1>3, FS_EmptySet
    <3>2. count'[g] \in Nat
      BY <1>5 DEF TypeOK
    <3> QED
      BY <3>1, <3>2
  <2>2. CASE ~(Holders(g) \subseteq {m})
    <3>1. g \notin Shared
      BY <2>2 DEF Forget
    <3>2. /\ count[g] >= Cardinality(Holders(g)) /\ count[g] \in Nat
          /\ \A n \in Holders(g) :
               /\ lib[g] = manager[n].path
               /\ \A i \in 1..manager[n].loaded : Functions[i] \in Exports[lib[g]]
      BY <3>1 DEF IInv, Accounts, TypeOK
    <3>3. g = h => count[g] > 1
      BY <2>2, <3>2, <1>1, <1>4, LastHolder
    <3>4. lib'[g] = lib[g] /\ count'[g] = IF g = h THEN count[g] - 1 ELSE count[g]
      BY <3>2, <3>3, <1>1, <1>2 DEF IInv, TypeOK
    <3>5. count'[g] >= Cardinality(Holders(g)')
      BY <3>2, <3>4, <1>3, <1>4
    <3>6. \A n \in Holders(g)' : n \in Holders(g) /\ manager'[n] = manager[n]
      BY <1>3 DEF IInv, TypeOK, Holders
    <3> QED
      BY <3>2, <3>4, <3>5, <3>6
  <2> QED
    BY <2>1, <2>2
<1> QED
  BY <1>5, <1>6, <1>7, <1>8 DEF IInv

\* A copy is one holder more; all holders of the handle are exposed from now on.
LEMMA CopyStep ==
  ASSUME IInv, NEW from \in Managers, NEW m \in Managers, Copy(from, m)
  PROVE  IInv'
<1> DEFINE h == manager[from].handle
<1>1. /\ manager[from] \in Manager /\ h \in Handles /\ manager[m].handle = None
      /\ manager' = [manager EXCEPT ![m] = manager[from]]
      /\ exposed' = exposed \cup Holders(h) \cup {m} /\ UNCHANGED <<count, lib, overwritten>>
      /\ from \in Holders(h) /\ manager[from].at # "gone"
  BY NoneAssumption DEF IInv, TypeOK, Manager, Copy, Exposes, linker, Holders
<1>2. \A g \in Handles :
        /\ Holders(g)' = IF g = h THEN Holders(g) \cup {m} ELSE Holders(g)
        /\ Cardinality(Holders(g)') =
             IF g = h THEN Cardinality(Holders(g)) + 1 ELSE Cardinality(Holders(g))
  BY <1>1, HolderMore DEF IInv
<1>3. TypeOK'
  <2>1. exposed' \subseteq {n \in Managers : manager'[n].at # "gone"}
    <3>1. \A n \in Holders(h) : n \in Managers /\ manager[n].at # "gone"
      BY <1>1, NoneAssumption DEF IInv, TypeOK, Holders
    <3>2. \A n \in Managers : manager'[n] = IF n = m THEN manager[from] ELSE manager[n]
      BY <1>1 DEF IInv, TypeOK
    <3> QED
      BY <3>1, <3>2, <1>1 DEF IInv, TypeOK
  <2> QED
    BY <2>1, <1>1 DEF IInv, TypeOK
<1> HIDE DEF h
<1>7. Shared' = Shared \cup {h} /\ Together'
  <2>1. \A g \in Handles : g # h => Holders(g) \cap Holders(h) = {} /\ m \notin Holders(g)
    BY <1>1, NoneAssumption DEF Holders
  <2>2. \A g \in Handles : Holders(g)' \cap exposed' # {} <=> g = h \/ Holders(g) \cap exposed # {}
    BY <2>1, <1>1, <1>2
  <2>3. Shared' = Shared \cup {h}
    BY <2>2, <1>1 DEF Shared
  <2>4. ASSUME NEW g \in Shared \cup {h} PROVE Holders(g)' \subseteq exposed'
    <3>1. g \in Handles /\ (g # h => Holders(g) \subseteq exposed)
      BY <1>1 DEF IInv, Together, Shared
    <3> QED
      BY <3>1, <1>1, <1>2
  <2> QED
    BY <2>3, <2>4 DEF Together
<1>4. \A g \in Handles : Cardinality(Holders(g)) \in Nat /\ count[g] \in Nat
  BY HoldersFinite DEF IInv, TypeOK
<1>5. NothingStaysOpen'
  <2> SUFFICES ASSUME NEW g \in Handles, g \notin overwritten
               PROVE  count[g] <= Cardinality(Holders(g)')
    BY <1>1 DEF NothingStaysOpen
  <2>1. count[g] <= Cardinality(Holders(g))
    BY DEF IInv, NothingStaysOpen
  <2> QED
    BY <2>1, <1>2, <1>4
<1>6. Accounts'
  <2> SUFFICES ASSUME NEW g \in Handles, g \notin Shared, g # h
               PROVE  /\ count[g] >= Cardinality(Holders(g)')
                      /\ \A n \in Holders(g)' :
                           /\ lib[g] = manager'[n].path
                           /\ \A i \in 1..manager'[n].loaded : Functions[i] \in Exports[lib[g]]
    BY <1>1, <1>7 DEF Accounts
  <2>1. Holders(g)' = Holders(g) /\ m \notin Holders(g)
    BY <1>1, <1>2, NoneAssumption DEF Holders
  <2>2. \A n \in Holders(g) : manager'[n] = manager[n]
    BY <1>1, <2>1 DEF IInv, TypeOK, Holders
  <2> QED
    BY <2>1, <2>2 DEF IInv, Accounts
<1> QED
  BY <1>3, <1>5, <1>6, <1>7 DEF IInv

\* An assignment takes a holder from one handle and gives it to another.
LEMMA AssignStep ==
  ASSUME IInv, NEW from \in Managers, NEW m \in Managers, Assign(from, m)
  PROVE  IInv'
<1> DEFINE h == manager[from].handle
           old == manager[m].handle
<1>1. /\ manager[from] \in Manager /\ h \in Handles /\ old \in Handles
      /\ manager' = [manager EXCEPT ![m] = manager[from]]
      /\ exposed' = exposed \cup Holders(h) \cup {m} /\ overwritten' = overwritten \cup {old}
      /\ UNCHANGED <<count, lib>>
      /\ from \in Holders(h) /\ from # m /\ manager[from].at # "gone"
  BY NoneAssumption DEF IInv, TypeOK, Manager, Assign, Exposes, linker, Holders
<1>2. \A g \in Handles : Holders(g)' = IF g = h THEN Holders(g) \cup {m}
                                       ELSE Holders(g) \ {m}
  BY <1>1 DEF IInv, TypeOK, Holders
<1>3. TypeOK'
  <2>1. exposed' \subseteq {n \in Managers : manager'[n].at # "gone"}
    <3>1. \A n \in Holders(h) : n \in Managers /\ manager[n].at # "gone"
      BY <1>1, NoneAssumption DEF IInv, TypeOK, Holders
    <3>2. \A n \in Managers : manager'[n] = IF n = m THEN manager[from] ELSE manager[n]
      BY <1>1 DEF IInv, TypeOK
    <3> QED
      BY <3>1, <3>2, <1>1 DEF IInv, TypeOK
  <2> QED
    BY <2>1, <1>1 DEF IInv, TypeOK
<1> HIDE DEF h
<1>7. Shared' = Forget(m) \cup {h} /\ Together'
  <2>1. \A g \in Handles : g # h => Holders(g) \cap Holders(h) = {}
    BY DEF Holders
  <2>2. \A g \in Handles : g \in Shared => Holders(g) \subseteq exposed
    BY DEF IInv, Together
  <2>3. \A g \in Handles : Holders(g)' \cap exposed' # {} <=> g = h \/ g \in Forget(m)
    <3>1. \A g \in Handles : g = h => from \in Holders(g)' \cap exposed'
      BY <1>1, <1>2
    <3>2. ASSUME NEW g \in Handles, g # h
          PROVE  Holders(g)' \cap exposed' # {} <=> g \in Forget(m)
      <4>1. Holders(g)' = Holders(g) \ {m}
        BY <3>2, <1>2
      <4>2. Holders(g)' \cap exposed' = (Holders(g) \ {m}) \cap exposed
        BY <4>1, <3>2, <2>1, <1>1
      <4> QED
        BY <4>2, <2>2 DEF Shared, Forget
    <3> QED
      BY <3>1, <3>2
  <2>4. Shared' = Forget(m) \cup {h}
    BY <2>3, <1>1 DEF Shared, Forget
  <2>5. ASSUME NEW g \in Forget(m) \cup {h} PROVE Holders(g)' \subseteq exposed'
    <3>1. g \in Handles /\ (g # h => Holders(g) \subseteq exposed)
      BY <2>2, <1>1 DEF Forget, Shared
    <3> QED
      BY <3>1, <1>1, <1>2
  <2> QED
    BY <2>4, <2>5 DEF Together
<1>4. \A g \in Handles : /\ IsFiniteSet(Holders(g)) /\ Cardinality(Holders(g)) \in Nat
                         /\ count[g] \in Nat
  BY HoldersFinite DEF IInv, TypeOK
<1>5. NothingStaysOpen'
  <2> SUFFICES ASSUME NEW g \in Handles, g \notin overwritten, g # old
               PROVE  count[g] <= Cardinality(Holders(g)')
    BY <1>1 DEF NothingStaysOpen
  <2>1. count[g] <= Cardinality(Holders(g))
    BY DEF IInv, NothingStaysOpen
  <2>2. m \notin Holders(g)
    BY DEF Holders
  <2>3. Holders(g)' = IF g = h THEN Holders(g) \cup {m} ELSE Holders(g)
    BY <1>2, <2>2
  <2> QED
    <3>1. Cardinality(Holders(g)') >= Cardinality(Holders(g))
      <4>1. CASE g = h
        <5>1. Holders(g)' = Holders(g) \cup {m}
          BY <4>1, <2>3
        <5>2. Cardinality(Holders(g) \cup {m}) = Cardinality(Holders(g)) + 1
          BY <2>2, <1>4, FS_AddElement
        <5> QED
          BY <5>1, <5>2, <1>4
      <4>2. CASE g # h
        BY <4>2, <2>3, <1>4
      <4> QED
        BY <4>1, <4>2
    <3>2. Cardinality(Holders(g)') \in Nat
      BY <1>4, <2>3, FS_AddElement, FS_CardinalityType
    <3> QED
      BY <3>1, <3>2, <2>1, <1>4
<1>6. Accounts'
  <2> SUFFICES ASSUME NEW g \in Handles, g \notin Forget(m), g # h
               PROVE  /\ count[g] >= Cardinality(Holders(g)')
                      /\ \A n \in Holders(g)' :
                           /\ lib[g] = manager'[n].path
                           /\ \A i \in 1..manager'[n].loaded : Functions[i] \in Exports[lib[g]]
    BY <1>1, <1>7 DEF Accounts
  <2>1. Holders(g)' = Holders(g) \ {m} /\ Cardinality(Holders(g)') <= Cardinality(Holders(g))
        /\ Cardinality(Holders(g)') \in Nat
    BY <1>2, <1>4, FS_Subset, FS_CardinalityType
  <2>2. CASE Holders(g) \subseteq {m}
    <3>1. Holders(g)' = {} /\ Cardinality(Holders(g)') = 0
      BY <2>1, <2>2, FS_EmptySet
    <3> QED
      BY <3>1, <1>4
  <2>3. CASE ~(Holders(g) \subseteq {m})
    <3>1. g \notin Shared
      BY <2>3 DEF Forget
    <3>2. \A n \in Holders(g)' : n \in Holders(g) /\ manager'[n] = manager[n]
      BY <2>1, <1>1 DEF IInv, TypeOK, Holders
    <3> QED
      BY <3>1, <3>2, <2>1, <1>4 DEF IInv, Accounts
  <2> QED
    BY <2>2, <2>3
<1> QED
  BY <1>3, <1>5, <1>6, <1>7 DEF IInv

-----------------------------------------------------------------------------
(* The theorems. *)

\* Every step of every manager keeps the accounts of the dynamic linker.
THEOREM Invariance == Spec => []IInv
<1>1. IInv /\ [Next]_vars => IInv'
  <2> SUFFICES ASSUME IInv, [Next]_vars PROVE IInv'
    OBVIOUS
  <2>1. ASSUME NEW m \in Managers, NEW path \in Libraries, Construct(m, path) PROVE IInv'
    BY <2>1, ConstructStep
  <2>2. ASSUME NEW m \in Managers, GetSym(m) PROVE IInv'
    BY <2>2, GetSymStep
  <2>3. ASSUME NEW m \in Managers, GetSymThrows(m) \/ Destroy(m) PROVE IInv'
    BY <2>3, CloseStep DEF GetSymThrows, Destroy
  <2>4. ASSUME NEW m \in Managers, NEW from \in Managers, Copy(from, m) PROVE IInv'
    BY <2>4, CopyStep
  <2>5. ASSUME NEW m \in Managers, NEW from \in Managers, Assign(from, m) PROVE IInv'
    BY <2>5, AssignStep
  <2>6. CASE UNCHANGED vars
    <3>1. \A h : Holders(h)' = Holders(h)
      BY <2>6 DEF vars, Holders
    <3>2. Shared' = Shared
      BY <2>6, <3>1 DEF vars, Shared
    <3>3. TypeOK' /\ NothingStaysOpen'
      BY <2>6, <3>1 DEF vars, linker, IInv, TypeOK, NothingStaysOpen
    <3>4. Together' /\ Accounts'
      BY <2>6, <3>1, <3>2 DEF vars, linker, IInv, Together, Accounts
    <3> QED
      BY <3>3, <3>4 DEF IInv
  <2> QED
    BY <2>1, <2>2, <2>3, <2>4, <2>5, <2>6 DEF Next
<1> QED
  BY <1>1, InitIInv, PTL DEF Spec

\* Types; a manager has a handle as long as it is there, and all its functions
\* when it is ready.
THEOREM TypeCorrect == Spec => []TypeOK
<1>1. IInv => TypeOK
  BY DEF IInv
<1> QED
  BY <1>1, Invariance, PTL

\* No handle that was not assigned over is open more often than it has
\* holders, also after a construction that failed.
THEOREM NoneStaysOpen == Spec => []NothingStaysOpen
<1>1. IInv => NothingStaysOpen
  BY DEF IInv
<1> QED
  BY <1>1, Invariance, PTL

\* The functions of a manager can be called, whatever fails and however many
\* managers use its library, if it is no copy, was not copied and did not meet
\* one that was at the address of its handle.
THEOREM FunctionsStayLoaded == Spec => []FunctionsAreLoaded
BY Loads, Invariance, PTL

CopiesOrAssigns == \E from, m \in Managers : Copy(from, m) \/ Assign(from, m)

\* In a program that neither copies nor assigns managers, every manager can
\* call its functions for all its life, whatever the others do.
THEOREM WithoutCopiesAllLoaded ==
  Spec /\ [][~CopiesOrAssigns]_vars => [](\A m \in Managers : Loaded(m))
<1>1. Init => exposed = {}
  BY DEF Init
<1>2. exposed = {} /\ [Next]_vars /\ [~CopiesOrAssigns]_vars => (exposed = {})'
  BY DEF Next, CopiesOrAssigns, Construct, GetSym, GetSymThrows, Destroy, vars
<1>3. FunctionsAreLoaded /\ exposed = {} => \A m \in Managers : Loaded(m)
  BY DEF FunctionsAreLoaded
<1> QED
  BY <1>1, <1>2, <1>3, FunctionsStayLoaded, PTL DEF Spec
=============================================================================
