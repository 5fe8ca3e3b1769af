------------------------------- MODULE DlMgr -------------------------------
(***************************************************************************)
(* The managers that dl_mgr/detail/build_mgr.hpp generates: a base with a  *)
(* library's handle and, after it, one base for each function, whose       *)
(* constructor looks its function up.  Managers are constructed, copied,   *)
(* assigned and destroyed by any threads, and their steps interleave.      *)
(* A handle is an address; the dynamic linker counts how often each is     *)
(* open, unloads a library at zero, and may then use the address again.    *)
(***************************************************************************)
EXTENDS Integers, Sequences, FiniteSets

CONSTANTS
  Managers,   \* the objects a program may construct
  Libraries,  \* the paths of libraries that can be loaded
  Handles,    \* the values dlopen may return
  None,
  Functions,  \* LTZ_DL_MGR_SEQ: the names of the functions, in order
  Exports,    \* the symbols a library has (with those it depends on)
  MaxCount    \* bound: how often a handle may be open

ASSUME NoneAssumption == None \notin Handles \cup Libraries
ASSUME FiniteAssumption == IsFiniteSet(Managers)
ASSUME MaxCountAssumption == MaxCount \in Nat
ASSUME FunctionsAssumption == Len(Functions) \in Nat \ {0}

VARIABLES
  manager,    \* the objects: how far their construction is, and their handle
  count,      \* how often each handle is open
  lib,        \* the library at each handle, or None
  exposed,    \* history: the managers that are copies, were copied, or met such
              \* a one at the address of their handle
  overwritten \* history: the handles that were assigned over

linker == <<count, lib>>
vars == <<manager, linker, exposed, overwritten>>

Gone == [at |-> "gone", path |-> None, handle |-> None, loaded |-> 0]

Holders(h) == {m \in Managers : manager[m].handle = h}

-----------------------------------------------------------------------------
(* The dynamic linker. *)

dlopen(path, h) ==
  /\ count[h] < MaxCount
  /\ lib[h] = path \/ (lib[h] = None /\ \A g \in Handles : lib[g] # path)
  /\ count' = [count EXCEPT ![h] = @ + 1]
  /\ lib' = [lib EXCEPT ![h] = path]

\* Closing what is not open is undefined: it returns an error and changes
\* nothing, or the program ends, which any program may do here at any time.
dlclose(h) ==
  /\ count' = [count EXCEPT ![h] = IF @ = 0 THEN 0 ELSE @ - 1]
  /\ lib' = [lib EXCEPT ![h] = IF count[h] <= 1 THEN None ELSE @]

\* What dlsym returns for a handle that is not open is undefined, too.
MayFind(h, name) == lib[h] # None => name \in Exports[lib[h]]
MayMiss(h, name) == lib[h] # None => name \notin Exports[lib[h]]

-----------------------------------------------------------------------------
Init ==
  /\ manager = [m \in Managers |-> Gone]
  /\ count = [h \in Handles |-> 0]
  /\ lib = [h \in Handles |-> None]
  /\ exposed = {} /\ overwritten = {}

\* The constructor of the base opens the library.  (If dlopen fails the
\* constructor throws, and nothing has changed.)  The handle may be one that
\* copies of an earlier manager still hold.
Construct(m, path) ==
  /\ manager[m].at = "gone"
  /\ \E h \in Handles :
       /\ dlopen(path, h)
       /\ manager' = [manager EXCEPT ![m] =
            [at |-> "loading", path |-> path, handle |-> h, loaded |-> 0]]
       /\ exposed' = exposed \cup (IF Holders(h) \cap exposed = {} THEN {} ELSE {m})
  /\ UNCHANGED overwritten

NextName(m) == Functions[manager[m].loaded + 1]

\* The constructor of the next function's base; after the last one the
\* manager is there.
GetSym(m) ==
  /\ manager[m].at = "loading"
  /\ MayFind(manager[m].handle, NextName(m))
  /\ manager' = [manager EXCEPT ![m].loaded = @ + 1,
       ![m].at = IF manager[m].loaded + 1 = Len(Functions) THEN "ready" ELSE @]
  /\ UNCHANGED <<linker, exposed, overwritten>>

\* Mutant: nobody closes the handle when a constructor throws.
GetSymThrows_Leaks(m) ==
  /\ manager[m].at = "loading"
  /\ MayMiss(manager[m].handle, NextName(m))
  /\ manager' = [manager EXCEPT ![m] = Gone]
  /\ exposed' = exposed \ {m}
  /\ UNCHANGED <<linker, overwritten>>

\* Mutant: the constructor closes the handle before it throws, and the base
\* closes it again.
GetSymThrows_ClosesTwice(m) ==
  /\ manager[m].at = "loading"
  /\ MayMiss(manager[m].handle, NextName(m))
  /\ LET h == manager[m].handle
     IN  /\ count' = [count EXCEPT ![h] = IF @ <= 2 THEN 0 ELSE @ - 2]
         /\ lib' = [lib EXCEPT ![h] = IF count[h] <= 2 THEN None ELSE @]
  /\ manager' = [manager EXCEPT ![m] = Gone]
  /\ exposed' = exposed \ {m}
  /\ UNCHANGED overwritten

\* A symbol is missing: the constructor throws, and the bases constructed so
\* far are destroyed.
GetSymThrows(m) ==
  /\ manager[m].at = "loading"
  /\ MayMiss(manager[m].handle, NextName(m))
  /\ dlclose(manager[m].handle)
  /\ manager' = [manager EXCEPT ![m] = Gone]
  /\ exposed' = exposed \ {m}
  /\ UNCHANGED overwritten

Destroy(m) ==
  /\ manager[m].at = "ready"
  /\ dlclose(manager[m].handle)
  /\ manager' = [manager EXCEPT ![m] = Gone]
  /\ exposed' = exposed \ {m}
  /\ UNCHANGED overwritten

\* A copy of from has nothing of its own to close.
Exposes(from, m) == exposed' = exposed \cup Holders(manager[from].handle) \cup {m}

\* The copy constructor, which the compiler makes, and which also moves.
Copy(from, m) ==
  /\ manager[from].at = "ready" /\ manager[m].at = "gone"
  /\ manager' = [manager EXCEPT ![m] = manager[from]]
  /\ Exposes(from, m)
  /\ UNCHANGED <<linker, overwritten>>

\* The assignment that the compiler makes; the handle there was is not closed.
Assign(from, m) ==
  /\ manager[from].at = "ready" /\ manager[m].at = "ready" /\ from # m
  /\ manager' = [manager EXCEPT ![m] = manager[from]]
  /\ Exposes(from, m)
  /\ overwritten' = overwritten \cup {manager[m].handle}
  /\ UNCHANGED linker

Next ==
  \E m \in Managers :
    \/ \E path \in Libraries : Construct(m, path)
    \/ GetSym(m) \/ GetSymThrows(m) \/ Destroy(m)
    \/ \E from \in Managers : Copy(from, m) \/ Assign(from, m)

Spec == Init /\ [][Next]_vars

-----------------------------------------------------------------------------
(* Properties. *)

Manager ==
  [at : {"gone", "loading", "ready"}, path : Libraries \cup {None},
   handle : Handles \cup {None}, loaded : 0..Len(Functions)]

\* Every variable has its type; a manager has a handle from the first step of
\* its construction to the end of its life, and all its functions when it is
\* ready; a library that is not open is not there, and is never there twice.
TypeOK ==
  /\ manager \in [Managers -> Manager]
  /\ \A m \in Managers :
       /\ manager[m].at = "gone" <=> manager[m].handle = None
       /\ manager[m].at = "ready" <=> manager[m].loaded = Len(Functions)
  /\ count \in [Handles -> Nat]
  /\ lib \in [Handles -> Libraries \cup {None}]
  /\ \A h \in Handles : lib[h] = None <=> count[h] = 0
  /\ \A g, h \in Handles : lib[g] = lib[h] /\ g # h => lib[g] = None
  /\ exposed \subseteq {m \in Managers : manager[m].at # "gone"}
  /\ overwritten \subseteq Handles

\* A library stays open for nobody: whatever fails half way, is destroyed, or
\* is closed once too often by a copy, a handle is open at most as often as it
\* has holders, unless one was assigned over.
NothingStaysOpen ==
  \A h \in Handles : h \in overwritten \/ count[h] <= Cardinality(Holders(h))

\* The functions found so far can be called: the library is loaded, is the one
\* the manager was constructed with, and has each of them.
Loaded(m) ==
  manager[m].at # "gone" =>
    /\ lib[manager[m].handle] = manager[m].path
    /\ \A i \in 1..manager[m].loaded : Functions[i] \in Exports[lib[manager[m].handle]]

\* The functions of a manager can be called, however many managers use the same
\* library and whatever fails half way, unless it is a copy, was copied, or met
\* one that was at the address of its handle.  In that last case the code fails
\* a manager that nobody ever copied: a copy that outlives its library closes
\* the next one opened at the same address.
FunctionsAreLoaded == \A m \in Managers \ exposed : Loaded(m)
=============================================================================
