--------------------------- MODULE EspModulesProofs ---------------------------
(* That the code a request is in stays loaded, for any number of requests.    *)
(* Without updates nothing is unloaded.  With updates of controllers and      *)
(* views a module is unloaded by a request that is alone (Alone), and what it *)
(* is in the middle of is code of the other kind (StackInv).  That holds of a *)
(* module until a load of it has failed: then a request that finds it on the  *)
(* list calls the pointer that the unloaded one has left.                     *)
EXTENDS EspModules, FiniteSetTheorems, SequenceTheorems, TLAPS

Places    == {"idle", "prepare", "compile", "create", "load", "call", "run", "finish", "close",
              "stuck"}
Guarded   == {"compile", "create", "load", "stuck"}     \* under esp->mutex, unless route.app
Preparing == {"prepare", "call"} \cup Guarded
Entry     == [modified : Nat, loaded : BOOLEAN, by : Requests \cup {None}]
Stamp     == [version : Nat, mtime : Nat]
Mapping   == [version : Nat, refs : Nat \ {0}]

TypeInv ==
    /\ route \in [app : BOOLEAN, update : BOOLEAN]
    /\ now \in Nat
    /\ source \in [Modules -> Stamp]
    /\ object \in [Modules -> Stamp \cup {None}]
    /\ modules \in [Modules -> Seq(Entry)]
    /\ entries \subseteq Kinds
    /\ lock \in Requests \cup {None}
    /\ pc \in [Requests -> Places]
    /\ doing \in [Requests -> Kinds]
    /\ frame \in [Requests -> SUBSET Kinds]
    /\ appLoaded \in [Requests -> BOOLEAN]
    /\ built \in [Requests -> Nat]
    /\ owed \in [Requests -> Nat]
    /\ failed \subseteq Modules

MappedInv == mapped \in [Modules -> Mapping \cup {None}]

\* esp->inUse counts the requests between openEsp and closeEsp, which a request that
\* is stuck has behind it.
Open == {r \in Requests : pc[r] \notin {"idle", "stuck"}}
CountInv == inUse = Cardinality(Open)

\* What can be on the stack of a request: at most its action while it prepares
\* its view, and nothing while it prepares its action.
StackInv ==
    \A r \in Requests :
        /\ pc[r] \in {"idle", "close"} => frame[r] = {}
        /\ pc[r] \in Preparing \cup {"run"} /\ doing[r] = "action" => frame[r] \subseteq {"action"}
        /\ pc[r] \in Preparing => frame[r] \subseteq (Kinds \ {doing[r]})

LockInv == ~route.app => \A r \in Requests : lock = r <=> pc[r] \in Guarded

\* The module of a kind is on the list, once, and has been loaded.
Listed(k) == modules[k] # <<>> /\ modules[k][1].loaded

\* Unless a load of it has failed, after which nothing is said of it.
Kept(k) == k \in failed \/ Listed(k)

KindInv(k) ==
    /\ Len(modules[k]) <= 1
    /\ Listed(k) => mapped[k] # None
    /\ modules[k] # <<>> /\ ~Kept(k) =>
          \E r \in Requests : pc[r] = "load" /\ doing[r] = k

\* What a request relies on, of the module it works for and of those it is in.
RequestInv(r) ==
    LET k == doing[r] IN
    /\ pc[r] = "create" => Kept(k) \/ modules[k] = <<>>
    /\ pc[r] = "compile" => modules[k] = <<>>
    /\ pc[r] = "load" => modules[k] # <<>> /\ modules[k][1].by = r
    /\ pc[r] = "call" => Kept(k)
    /\ \A c \in frame[r] : Kept(c)

UpdateInv ==
    /\ MappedInv
    /\ \A k \in Kinds : KindInv(k)
    /\ \A r \in Requests : RequestInv(r)

StayInv ==
    /\ MappedInv
    /\ \A k \in entries : mapped[Provider(k)] # None
    /\ \A r \in Requests : frame[r] \subseteq entries

Inv ==
    /\ TypeInv /\ CountInv /\ StackInv /\ LockInv
    /\ route.update /\ ~route.app => UpdateInv
    /\ ~route.update => StayInv
-----------------------------------------------------------------------------
\* All of it holds at the start.
LEMMA InitInv ==
    ASSUME IsFiniteSet(Requests)
    PROVE  Init => Inv
<1> SUFFICES ASSUME Init PROVE Inv
  OBVIOUS
<1> USE ConstantsAssumption DEF Init
<1>1. TypeInv
  BY DEF TypeInv, Places, Entry, Stamp, Modules, Kinds
<1>2. CountInv
  <2>1. Open = {}
    BY DEF Open
  <2> QED
    BY <2>1, FS_EmptySet DEF CountInv
<1>3. StackInv /\ LockInv /\ StayInv
  BY DEF StackInv, LockInv, StayInv, MappedInv, Preparing, Guarded
<1>4. UpdateInv
  BY DEF UpdateInv, KindInv, RequestInv, MappedInv, Listed, Modules, Kinds
<1> QED
  BY <1>1, <1>2, <1>3, <1>4 DEF Inv

\* "Own request will count as 1": a request that may unload is the only one that is
\* open.
LEMMA Alone ==
    ASSUME IsFiniteSet(Requests), TypeInv, CountInv, MayUnload,
           NEW r \in Requests, pc[r] \notin {"idle", "stuck"},
           NEW s \in Requests, s # r
    PROVE  pc[s] \in {"idle", "stuck"}
<1> SUFFICES ASSUME pc[s] \notin {"idle", "stuck"} PROVE FALSE
  OBVIOUS
<1>1. IsFiniteSet(Open) /\ {r, s} \subseteq Open
  BY FS_Subset DEF Open
<1>2. Cardinality({r, s}) <= Cardinality(Open)
  BY <1>1, FS_Subset
<1>3. Cardinality({r, s}) = 2
  <2>1. IsFiniteSet({r}) /\ Cardinality({r}) = 1
    BY FS_Singleton
  <2>2. Cardinality({r} \cup {s}) = Cardinality({r}) + 1
    BY <2>1, s \notin {r}, FS_AddElement
  <2>3. {r} \cup {s} = {r, s}
    OBVIOUS
  <2> QED
    BY <2>1, <2>2, <2>3
<1>4. Cardinality(Open) \in Nat
  BY <1>1, FS_CardinalityType
<1> QED
  BY <1>2, <1>3, <1>4 DEF CountInv, MayUnload

\* Functions keep their type when a value of it is assigned.
LEMMA Excepted ==
    ASSUME NEW S, NEW T, NEW f \in [S -> T], NEW x, NEW y \in T
    PROVE  [f EXCEPT ![x] = y] \in [S -> T]
  OBVIOUS

\* Also when the value is Boolean.
LEMMA BooleanAssigned ==
    ASSUME NEW S, NEW f \in [S -> BOOLEAN], NEW x, NEW y \in BOOLEAN,
           NEW g, g = [f EXCEPT ![x] = y] \/ g = f
    PROVE  g \in [S -> BOOLEAN]
  BY Zenon

\* A request goes on to a place of its code.
LEMMA GoToTypes ==
    ASSUME TypeInv, NEW r \in Requests, NEW at \in Places, GoTo(r, at)
    PROVE  pc' \in [Requests -> Places]
  BY DEF TypeInv, GoTo

\* And so it does when it returns.
LEMMA ReturnPlace ==
    ASSUME NEW r \in Requests
    PROVE  Return(r) \in Places
  BY DEF Return, Places

\* Also when it begins with its action or its view.
LEMMA BeginTypes ==
    ASSUME TypeInv, NEW r \in Requests, NEW k \in Kinds, Begin(r, k)
    PROVE  /\ pc' \in [Requests -> Places]
           /\ doing' \in [Requests -> Kinds]
           /\ owed' \in [Requests -> Nat]
<1>1. Latest(k) \in Nat
  BY DEF TypeInv, Latest, Stamp, Modules
<1> QED
  BY <1>1 DEF TypeInv, Begin, GoTo, Places

\* The entry a request has put on the list is completed.
LEMMA SetEntryTypes ==
    ASSUME TypeInv, NEW r \in Requests, NEW loaded \in BOOLEAN, SetEntry(r, loaded)
    PROVE  modules' \in [Modules -> Seq(Entry)]
<1> DEFINE m == Module(r)
           done == [modified |-> IF object[m] = None THEN 0 ELSE object[m].mtime,
                    loaded |-> loaded, by |-> None]
           list == [i \in DOMAIN modules[m] |-> IF modules[m][i].by # r THEN modules[m][i] ELSE done]
<1>1. m \in Modules /\ modules[m] \in Seq(Entry)
  BY DEF TypeInv, Module, Provider, Modules
<1>2. done \in Entry
  BY <1>1 DEF TypeInv, Entry, Stamp
<1>3. list \in Seq(Entry)
  <2>1. DOMAIN modules[m] = 1..Len(modules[m]) /\ Len(modules[m]) \in Nat
    BY <1>1
  <2>2. \A i \in 1..Len(modules[m]) : modules[m][i] \in Entry
    BY <1>1
  <2>3. list \in [1..Len(modules[m]) -> Entry]
    BY <1>2, <2>1, <2>2
  <2> QED
    BY <2>1, <2>3
<1>4. modules' = [modules EXCEPT ![m] = list]
  BY DEF SetEntry
<1> QED
  BY <1>1, <1>3, <1>4 DEF TypeInv

\* Every step keeps the types.
LEMMA TypeStep ==
    ASSUME TypeInv, Next
    PROVE  TypeInv'
<1> USE ConstantsAssumption
    DEF TypeInv, Kinds, Modules, Places, files, service, history, GoTo, Return
<1>1. CASE Tick
  BY <1>1 DEF Tick
<1>2. ASSUME NEW k \in Kinds, Edit(Provider(k)) PROVE TypeInv'
  <2> DEFINE m == Provider(k)
  <2>1. m \in Modules /\ source[m] \in Stamp
    BY DEF Provider
  <2>2. source' \in [Modules -> Stamp]
    BY SMTT(40), <1>2, <2>1 DEF Edit, Stamp
  <2> QED
    BY <1>2, <2>2 DEF Edit
<1>3. ASSUME NEW k \in Kinds, Install(Provider(k)) PROVE TypeInv'
  <2> DEFINE m == Provider(k)
  <2>1. m \in Modules /\ source[m] \in Stamp
    BY DEF Provider
  <2>2. object' \in [Modules -> Stamp \cup {None}]
    BY <1>3, <2>1 DEF Install, Stamp
  <2> QED
    BY <1>3, <2>2 DEF Install
<1>4. ASSUME NEW r \in Requests, openEsp(r) PROVE TypeInv'
  <2>1. ASSUME NEW k \in Kinds, Begin(r, k) PROVE TypeInv'
    BY <1>4, <2>1, BeginTypes DEF openEsp
  <2>2. CASE GoTo(r, "close") /\ UNCHANGED <<doing, owed>>
    BY <1>4, <2>2 DEF openEsp
  <2> QED
    BY <1>4, <2>1, <2>2 DEF openEsp
<1>5. ASSUME NEW r \in Requests, Works(r) PROVE TypeInv'
  <2> PICK m \in Modules : m = Module(r)
    BY DEF Module, Provider
  <2>m. m \in Modules /\ source[m] \in Stamp /\ modules[m] \in Seq(Entry) /\ doing[r] \in Kinds
    OBVIOUS
  <2>u. ASSUME Unload(m), modules[m] # <<>>
        PROVE  modules' \in [Modules -> Seq(Entry)]
    <3>1. Tail(modules[m]) \in Seq(Entry)
      BY <2>m, <2>u
    <3> QED
      BY <2>m, <2>u, <3>1 DEF Unload
  <2>1. CASE Prepared(r)
    BY <2>1 DEF Prepared
  <2>2. CASE CheckStale(r)
    <3>1. modules' \in [Modules -> Seq(Entry)]
      BY <2>2, <2>u DEF CheckStale, IsLoaded
    <3>2. pc' \in [Requests -> Places]
      BY <2>2, GoToTypes DEF CheckStale
    <3>3. built' = [built EXCEPT ![r] = source[m].version] \/ built' = built
      BY <2>2 DEF CheckStale
    <3>4. built' \in [Requests -> Nat]
      <4>1. source[m].version \in Nat
        BY <2>m DEF Stamp
      <4> QED
        BY <3>3, <4>1, Excepted
    <3>5. owed' \in [Requests -> Nat]
      BY ZenonT(60), <2>2 DEF CheckStale
    <3> QED
      BY <2>2, <3>1, <3>2, <3>4, <3>5 DEF CheckStale
  <2>3. CASE espCompile(r)
    <3>1. object' \in [Modules -> Stamp \cup {None}]
      <4>1. [version |-> built[r], mtime |-> now] \in Stamp
        BY DEF Stamp
      <4> QED
        BY <2>3, <2>m, <4>1 DEF espCompile, CompileFails
    <3>2. pc' \in [Requests -> Places]
      <4>1. \/ pc' = [pc EXCEPT ![r] = "create"] \/ pc' = [pc EXCEPT ![r] = "finish"]
            \/ pc' = [pc EXCEPT ![r] = "close"]
        BY <2>3 DEF espCompile, CompileFails
      <4> QED
        BY <4>1, Excepted
    <3> QED
      BY <2>3, <3>1, <3>2 DEF espCompile, CompileFails
  <2>4. CASE loadApp(r)
    <3>1. modules' \in [Modules -> Seq(Entry)]
      BY <2>4, <2>u DEF loadApp, IsLoaded
    <3>2. pc' \in [Requests -> Places]
      BY <2>4, GoToTypes DEF loadApp
    <3>3. appLoaded' = [appLoaded EXCEPT ![r] = TRUE] \/ appLoaded' = appLoaded
      BY <2>4 DEF loadApp
    <3>4. appLoaded' \in [Requests -> BOOLEAN]
      BY <3>3, BooleanAssigned, ZenonT(30)
    <3>a. owed' = [owed EXCEPT ![r] = 0] \/ owed' = owed
      BY <2>4 DEF loadApp
    <3>5. owed' \in [Requests -> Nat]
      BY <3>a, Excepted
    <3> QED
      BY <2>4, <3>1, <3>2, <3>4, <3>5 DEF loadApp
  <2>5. CASE mprCreateModule(r)
    <3> DEFINE list == Append(modules[m], [modified |-> 0, loaded |-> FALSE, by |-> r])
    <3>1. list \in Seq(Entry)
      BY <2>m DEF Entry
    <3>2. modules' = [modules EXCEPT ![m] = list] \/ modules' = modules
      BY <2>5 DEF mprCreateModule
    <3>3. modules' \in [Modules -> Seq(Entry)]
      BY <2>m, <3>1, <3>2, Excepted
    <3>4. pc' \in [Requests -> Places]
      BY <2>5, GoToTypes DEF mprCreateModule
    <3>5. lock' = None \/ lock' = lock
      BY <2>5 DEF mprCreateModule
    <3> QED
      BY <2>5, <3>3, <3>4, <3>5 DEF mprCreateModule
  <2>6. CASE mprLoadModule(r)
    <3>1. ASSUME NEW loaded \in BOOLEAN, SetEntry(r, loaded)
          PROVE  modules' \in [Modules -> Seq(Entry)]
      BY <2>m, <3>1, SetEntryTypes
    <3>2. CASE Loads(r)
      <4>2. appLoaded' = [appLoaded EXCEPT ![r] = route.app] /\ route.app \in BOOLEAN
        BY <3>2 DEF Loads
      <4>3. appLoaded' \in [Requests -> BOOLEAN]
        BY <4>2, BooleanAssigned
      <4>4. pc' \in [Requests -> Places] /\ entries' \subseteq Kinds
        BY <3>2, GoToTypes DEF Loads
      <4>5. modules' \in [Modules -> Seq(Entry)]
        BY <3>1, <3>2 DEF Loads
      <4>6. failed' = failed
        BY <3>2 DEF Loads
      <4> QED
        BY <2>6, <4>3, <4>4, <4>5, <4>6 DEF mprLoadModule
    <3>3. CASE LoadFails(r)
      <4>1. pc' \in [Requests -> Places]
        BY <3>3, GoToTypes, ReturnPlace DEF LoadFails
      <4>2. modules' \in [Modules -> Seq(Entry)]
        BY <3>1, <3>3 DEF LoadFails
      <4>3. failed' = failed \cup {m}
        BY <3>3 DEF LoadFails
      <4> QED
        BY <2>6, <3>3, <4>1, <4>2, <4>3 DEF mprLoadModule, LoadFails
    <3> QED
      BY <2>6, <3>2, <3>3 DEF mprLoadModule
  <2>7. CASE Call(r)
    <3>1. /\ pc' \in [Requests -> Places]
          /\ doing' \in [Requests -> Kinds]
          /\ owed' \in [Requests -> Nat]
      BY <2>7, BeginTypes, GoToTypes, ReturnPlace DEF Call
    <3>a. frame' = [frame EXCEPT ![r] = frame[r] \cup {doing[r]}] \/ frame' = frame
      BY <2>7 DEF Call
    <3>2. frame' \in [Requests -> SUBSET Kinds]
      BY <3>a, Excepted
    <3> QED
      BY <2>7, <3>1, <3>2 DEF Call
  <2>8. CASE RunAction(r)
    <3>1. /\ pc' \in [Requests -> Places]
          /\ doing' \in [Requests -> Kinds]
          /\ owed' \in [Requests -> Nat]
      <4>1. CASE Begin(r, "view")
        BY <4>1, BeginTypes
      <4>2. CASE ~Begin(r, "view")
        <5>1. /\ pc' = [pc EXCEPT ![r] = "close"]
              /\ owed' = [owed EXCEPT ![r] = 0] /\ doing' = doing
          BY <2>8, <4>2 DEF RunAction
        <5> QED
          BY <5>1, Excepted
      <4> QED
        BY <4>1, <4>2
    <3>a. frame' = [frame EXCEPT ![r] = {}] \/ frame' = frame
      BY <2>8 DEF RunAction
    <3>2. frame' \in [Requests -> SUBSET Kinds]
      BY <3>a, Excepted
    <3> QED
      BY <2>8, <3>1, <3>2 DEF RunAction
  <2>9. CASE RunView(r)
    BY <2>9 DEF RunView
  <2>10. CASE Finish(r)
    BY <2>10 DEF Finish
  <2>11. CASE closeEsp(r)
    BY <2>11 DEF closeEsp
  <2> QED
    BY <1>5, <2>1, <2>2, <2>3, <2>4, <2>5, <2>6, <2>7, <2>8, <2>9, <2>10, <2>11 DEF Works
<1>6. ASSUME NEW r \in Requests, connTimeout(r) PROVE TypeInv'
  BY <1>6 DEF connTimeout
<1> QED
  BY <1>1, <1>2, <1>3, <1>4, <1>5, <1>6 DEF Next

\* After a load the module is mapped, and no other has changed.
LEMMA LoadMaps ==
    ASSUME TypeInv, MappedInv, NEW r \in Requests, Loads(r)
    PROVE  /\ MappedInv'
           /\ mapped'[Module(r)] # None
           /\ \A n \in Modules : n # Module(r) => mapped'[n] = mapped[n]
<1> PICK m \in Modules : m = Module(r)
  BY DEF TypeInv, Module, Provider, Modules
<1> DEFINE new   == [version |-> object[m].version, refs |-> 1]
           again == [version |-> mapped[m].version, refs |-> mapped[m].refs + 1]
<1>1. new \in Mapping
  <2>1. object[m] \in Stamp
    BY DEF TypeInv, Loads
  <2> QED
    BY <2>1 DEF Stamp, Mapping
<1>2. mapped[m] # None => again \in Mapping
  <2> SUFFICES ASSUME mapped[m] \in Mapping PROVE again \in Mapping
    BY DEF MappedInv
  <2> QED
    BY DEF Mapping
<1>3. mapped' = [mapped EXCEPT ![m] = IF mapped[m] # None THEN again ELSE new]
  BY DEF Loads
<1>4. None \notin Mapping
  BY ConstantsAssumption DEF Mapping
<1> HIDE DEF new, again
<1> QED
  BY <1>1, <1>2, <1>3, <1>4 DEF MappedInv

\* The route of the requests stays as it is.
LEMMA RouteStays ==
    ASSUME Next
    PROVE  route' = route
  BY ZenonT(40) DEF Next, Works, Tick, Edit, Install, openEsp, connTimeout, closeEsp, Prepared,
         CheckStale, espCompile, loadApp, mprCreateModule, mprLoadModule, Call, RunAction, RunView,
         Finish

\* Every step keeps the count of the open requests.
LEMMA CountStep ==
    ASSUME IsFiniteSet(Requests), TypeInv, CountInv, Next
    PROVE  CountInv'
<1>0. IsFiniteSet(Open)
  BY FS_Subset DEF Open
<1>1. ASSUME NEW r \in Requests, openEsp(r) PROVE CountInv'
  <2>1. inUse' = inUse + 1
    BY <1>1 DEF openEsp
  <2>2. pc[r] = "idle" /\ \E at \in Places \ {"idle", "stuck"} : pc' = [pc EXCEPT ![r] = at]
    BY <1>1 DEF openEsp, Begin, GoTo, Places
  <2>3. Open' = Open \cup {r} /\ r \notin Open
    BY <2>2 DEF Open, TypeInv
  <2> QED
    BY <1>0, <2>1, <2>3, FS_AddElement DEF CountInv
<1>2. ASSUME NEW r \in Requests, closeEsp(r) PROVE CountInv'
  <2>1. inUse' = inUse - 1
    BY <1>2 DEF closeEsp
  <2>2. pc[r] = "close" /\ pc' = [pc EXCEPT ![r] = "idle"]
    BY <1>2 DEF closeEsp, GoTo
  <2>3. Open' = Open \ {r} /\ r \in Open
    BY <2>2 DEF Open, TypeInv
  <2> QED
    BY <1>0, <2>1, <2>3, FS_RemoveElement DEF CountInv
<1>3. ASSUME inUse' = inUse, Open' = Open PROVE CountInv'
  BY <1>3 DEF CountInv
<1>4. ASSUME Tick \/ \E k \in Kinds : Edit(Provider(k)) \/ Install(Provider(k)) PROVE CountInv'
  BY <1>3, <1>4 DEF Tick, Edit, Install, Open
<1>5. ASSUME NEW r \in Requests, Works(r), ~closeEsp(r) PROVE CountInv'
  <2>1. inUse' = inUse
    BY <1>5 DEF Works, Prepared, CheckStale, espCompile, loadApp, mprCreateModule, mprLoadModule,
               Call, RunAction, RunView, Finish
  <2>2. pc[r] \notin {"idle", "stuck"}
    BY <1>5 DEF Works, Prepared, CheckStale, espCompile, loadApp, mprCreateModule, mprLoadModule,
               Call, RunAction, RunView, Finish
  <2>3. \E at \in Places \ {"idle", "stuck"} : pc' = [pc EXCEPT ![r] = at]
    BY <1>5 DEF Works, Prepared, CheckStale, espCompile, CompileFails, loadApp, mprCreateModule,
               mprLoadModule, Loads, LoadFails, Call, RunAction, RunView, Finish, Begin, GoTo,
               Return, Places
  <2>4. Open' = Open
    BY <2>2, <2>3 DEF Open, TypeInv
  <2> QED
    BY <1>3, <2>1, <2>4
<1>6. ASSUME NEW r \in Requests, connTimeout(r) PROVE CountInv'
  <2>1. inUse' = inUse - 1
    BY <1>6 DEF connTimeout
  <2>2. pc[r] = "compile" /\ pc' = [pc EXCEPT ![r] = "stuck"]
    BY <1>6 DEF connTimeout, GoTo
  <2>3. Open' = Open \ {r} /\ r \in Open
    BY <2>2 DEF Open, TypeInv
  <2> QED
    BY <1>0, <2>1, <2>3, FS_RemoveElement DEF CountInv
<1> QED
  BY <1>1, <1>2, <1>4, <1>5, <1>6 DEF Next

\* A request that prepares something and has no action on its stack has nothing.
LEMMA Nothing ==
    ASSUME TypeInv, StackInv, NEW r \in Requests, pc[r] \in Preparing, "action" \notin frame[r]
    PROVE  frame[r] = {}
<1>1. frame[r] \subseteq Kinds \ {doing[r]} /\ doing[r] \in Kinds
  BY DEF TypeInv, StackInv
<1>2. doing[r] = "action" => frame[r] \subseteq {"action"}
  BY DEF StackInv
<1> QED
  BY <1>1, <1>2 DEF Kinds

\* A request begins to prepare its action, or its view.
LEMMA StackBegin ==
    ASSUME TypeInv, StackInv, NEW r \in Requests, NEW k \in Kinds, Begin(r, k),
           frame' = frame \/ frame' = [frame EXCEPT ![r] = {}],
           frame[r] = {} \/ (k = "view" /\ frame[r] \subseteq {"action"})
    PROVE  StackInv'
<1> USE DEF TypeInv, StackInv, Kinds, Places, Preparing, Guarded
<1>1. pc' = [pc EXCEPT ![r] = "prepare"] /\ doing' = [doing EXCEPT ![r] = k]
  BY DEF Begin, GoTo
<1>2. pc'[r] = "prepare" /\ doing'[r] = k
      /\ (frame'[r] = {} \/ (k = "view" /\ frame'[r] \subseteq {"action"}))
  BY <1>1
<1>3. ASSUME NEW s \in Requests, s # r
      PROVE  pc'[s] = pc[s] /\ doing'[s] = doing[s] /\ frame'[s] = frame[s]
  BY <1>1, <1>3
<1> QED
  BY ZenonT(40), <1>2, <1>3

\* A request that is opened begins with an empty stack.
LEMMA StackOpen ==
    ASSUME TypeInv, StackInv, NEW r \in Requests, NEW k \in Kinds, openEsp(r), Begin(r, k)
    PROVE  StackInv'
<1>1. pc[r] = "idle" /\ frame' = frame
  BY DEF openEsp
<1>2. frame[r] = {}
  BY <1>1 DEF StackInv
<1> QED
  BY <1>1, <1>2, StackBegin

\* Every step keeps what can be on the stacks.
LEMMA StackStep ==
    ASSUME TypeInv, StackInv, Next
    PROVE  StackInv'
<1> USE DEF TypeInv, StackInv, Kinds, Places, Preparing, Guarded
<1>1. ASSUME UNCHANGED <<pc, doing, frame>> PROVE StackInv'
  BY <1>1
<1>2. ASSUME Tick \/ \E k \in Kinds : Edit(Provider(k)) \/ Install(Provider(k)) PROVE StackInv'
  BY <1>1, <1>2 DEF Tick, Edit, Install
<1>3. ASSUME NEW r \in Requests, NEW at \in Places, pc' = [pc EXCEPT ![r] = at],
             UNCHANGED <<doing, frame>>,
             at \in {"idle", "close"} => frame[r] = {},
             at \in Preparing => pc[r] \in Preparing,
             at # "run"
      PROVE  StackInv'
  BY <1>3
<1>4. ASSUME NEW r \in Requests, openEsp(r) PROVE StackInv'
  <2>1. pc[r] = "idle" /\ frame[r] = {} /\ frame' = frame
    BY <1>4 DEF openEsp
  <2>2. ASSUME NEW k \in Kinds, Begin(r, k) PROVE StackInv'
    BY <1>4, <2>2, StackOpen
  <2>3. CASE GoTo(r, "close") /\ UNCHANGED <<doing, owed>>
    BY <2>1, <2>3, <1>3 DEF GoTo
  <2> QED
    BY <1>4, <2>2, <2>3 DEF openEsp
<1>5. ASSUME NEW r \in Requests, closeEsp(r) PROVE StackInv'
  BY <1>5 DEF closeEsp, GoTo
<1>6. ASSUME NEW r \in Requests, pc[r] \in Preparing,
             Prepared(r) \/ CheckStale(r) \/ espCompile(r) \/ loadApp(r) \/ mprCreateModule(r)
             \/ mprLoadModule(r)
      PROVE  StackInv'
  <2>1. /\ UNCHANGED <<doing, frame>>
        /\ \/ \E at \in Preparing \ {"prepare"} : pc' = [pc EXCEPT ![r] = at]
           \/ pc' = [pc EXCEPT ![r] = Return(r)]
    <3>1. ASSUME Prepared(r) \/ CheckStale(r) \/ loadApp(r) \/ mprCreateModule(r)
          PROVE  UNCHANGED <<doing, frame>> /\ \E at \in Preparing \ {"prepare"} : GoTo(r, at)
      BY <3>1 DEF Prepared, CheckStale, loadApp, mprCreateModule
    <3>2. ASSUME espCompile(r)
          PROVE  UNCHANGED <<doing, frame>> /\ (GoTo(r, "create") \/ GoTo(r, Return(r)))
      BY <3>2 DEF espCompile, CompileFails
    <3>3. ASSUME mprLoadModule(r)
          PROVE  UNCHANGED <<doing, frame>> /\ (GoTo(r, "call") \/ GoTo(r, Return(r)))
      BY <3>3 DEF mprLoadModule, Loads, LoadFails
    <3> QED
      BY <1>6, <3>1, <3>2, <3>3 DEF GoTo
  <2>2. Return(r) \in {"finish", "close"} /\ (Return(r) = "close" => frame[r] = {})
    BY <1>6, Nothing DEF Return
  <2> QED
    BY <1>3, <1>6, <2>1, <2>2
<1>7. ASSUME NEW r \in Requests, Call(r) PROVE StackInv'
  <2>1. pc[r] = "call" /\ frame[r] \subseteq Kinds \ {doing[r]}
    BY <1>7 DEF Call
  <2>2. CASE frame' = [frame EXCEPT ![r] = frame[r] \cup {doing[r]}]
             /\ pc' = [pc EXCEPT ![r] = "run"] /\ doing' = doing
    BY <2>1, <2>2
  <2>3. CASE pc' = [pc EXCEPT ![r] = Return(r)] /\ UNCHANGED <<frame, doing>>
    <3>1. Return(r) \in {"finish", "close"} /\ (Return(r) = "close" => frame[r] = {})
      BY <2>1, Nothing DEF Return
    <3> QED
      BY <2>1, <2>3, <3>1, <1>3
  <2>4. CASE doing[r] = "action" /\ Begin(r, "view") /\ frame' = frame
    <3>1. frame[r] \subseteq {"action"}
      BY <2>1, <2>4
    <3> QED
      BY <2>4, <3>1, StackBegin
  <2> QED
    BY <1>7, <2>2, <2>3, <2>4 DEF Call, GoTo
<1>8. ASSUME NEW r \in Requests, RunAction(r) PROVE StackInv'
  <2>1. pc[r] = "run" /\ doing[r] = "action" /\ frame[r] \subseteq {"action"}
    BY <1>8 DEF RunAction
  <2>2. CASE frame' = [frame EXCEPT ![r] = {}] /\ GoTo(r, "close") /\ doing' = doing
    BY <2>1, <2>2 DEF GoTo
  <2>3. CASE frame' \in {frame, [frame EXCEPT ![r] = {}]} /\ Begin(r, "view")
    BY <2>1, <2>3, StackBegin
  <2> QED
    BY <1>8, <2>2, <2>3 DEF RunAction
<1>9. ASSUME NEW r \in Requests, RunView(r) PROVE StackInv'
  BY <1>9 DEF RunView, GoTo, Return
<1>10. ASSUME NEW r \in Requests, Finish(r) PROVE StackInv'
  BY <1>10 DEF Finish, GoTo
<1>11. ASSUME NEW r \in Requests, Works(r) PROVE StackInv'
  <2>1. ASSUME Prepared(r) \/ CheckStale(r) \/ espCompile(r) \/ loadApp(r) \/ mprCreateModule(r)
               \/ mprLoadModule(r)
        PROVE  pc[r] \in Preparing
    BY <2>1 DEF Prepared, CheckStale, espCompile, loadApp, mprCreateModule, mprLoadModule
  <2> QED
    BY <1>5, <1>6, <1>7, <1>8, <1>9, <1>10, <1>11, <2>1 DEF Works
<1>12. ASSUME NEW r \in Requests, connTimeout(r) PROVE StackInv'
  <2>1. pc[r] = "compile" /\ pc' = [pc EXCEPT ![r] = "stuck"] /\ UNCHANGED <<doing, frame>>
    BY <1>12 DEF connTimeout, GoTo
  <2> QED
    BY <1>3, <2>1
<1> QED
  BY <1>2, <1>4, <1>11, <1>12 DEF Next

\* Who holds the mutex is between the check and the end of the load.
LEMMA LockStep ==
    ASSUME TypeInv, LockInv, Next
    PROVE  LockInv'
<1> USE ConstantsAssumption DEF TypeInv, LockInv, Guarded
<1>1. route' = route
  BY RouteStays
<1> SUFFICES ASSUME ~route.app PROVE LockInv'
  BY <1>1
<1>2. ASSUME UNCHANGED <<pc, lock>> PROVE LockInv'
  BY <1>1, <1>2
<1>3. ASSUME NEW r \in Requests, NEW at, pc' = [pc EXCEPT ![r] = at],
             \/ lock' = lock /\ (pc[r] \in Guarded <=> at \in Guarded)
             \/ lock = None /\ lock' = r /\ at \in Guarded
             \/ pc[r] \in Guarded /\ lock' = None /\ at \notin Guarded
      PROVE  LockInv'
  BY <1>1, <1>3
<1>4. ASSUME Tick \/ \E k \in Kinds : Edit(Provider(k)) \/ Install(Provider(k)) PROVE LockInv'
  BY <1>2, <1>4 DEF Tick, Edit, Install
<1>5. ASSUME NEW r \in Requests, openEsp(r) PROVE LockInv'
  <2>1. pc[r] \notin Guarded /\ lock' = lock
    BY <1>5 DEF openEsp
  <2>2. \E at \in {"prepare", "close"} : pc' = [pc EXCEPT ![r] = at]
    BY <1>5 DEF openEsp, Begin, GoTo
  <2> QED
    BY <1>3, <2>1, <2>2
<1>6. ASSUME NEW r \in Requests,
             \/ Prepared(r) \/ Call(r) \/ RunAction(r) \/ RunView(r) \/ Finish(r) \/ closeEsp(r)
      PROVE  LockInv'
  <2>1. pc[r] \notin Guarded /\ lock' = lock
    BY <1>6 DEF Prepared, Call, RunAction, RunView, Finish, closeEsp
  <2>2. \E at \in Places \ Guarded : pc' = [pc EXCEPT ![r] = at]
    BY <1>6 DEF Prepared, Call, RunAction, RunView, Finish, closeEsp, Begin, GoTo, Return, Places
  <2> QED
    BY <1>3, <2>1, <2>2
<1>7. ASSUME NEW r \in Requests, CheckStale(r) PROVE LockInv'
  <2>1. lock = None /\ lock' = r /\ \E at \in Guarded : pc' = [pc EXCEPT ![r] = at]
    BY <1>7 DEF CheckStale, GoTo
  <2> QED
    BY <1>3, <2>1
<1>8. ASSUME NEW r \in Requests, espCompile(r) PROVE LockInv'
  <2>1. pc[r] \in Guarded
    BY <1>8 DEF espCompile
  <2>2. \/ pc' = [pc EXCEPT ![r] = "create"] /\ lock' = lock
        \/ pc' = [pc EXCEPT ![r] = Return(r)] /\ lock' = None
    BY <1>8 DEF espCompile, CompileFails, GoTo
  <2>3. Return(r) \notin Guarded
    BY DEF Return
  <2> QED
    BY <1>3, <2>1, <2>2, <2>3
<1>9. ASSUME NEW r \in Requests, mprCreateModule(r) PROVE LockInv'
  <2>1. pc[r] \in Guarded
    BY <1>9 DEF mprCreateModule
  <2>2. \/ pc' = [pc EXCEPT ![r] = "load"] /\ lock' = lock
        \/ pc' = [pc EXCEPT ![r] = "call"] /\ lock' = None
    BY <1>9 DEF mprCreateModule, GoTo
  <2> QED
    BY <1>3, <2>1, <2>2
<1>10. ASSUME NEW r \in Requests, mprLoadModule(r) PROVE LockInv'
  <2>1. pc[r] \in Guarded /\ lock' = None
    BY <1>10 DEF mprLoadModule
  <2>2. \E at \in {"call", Return(r)} : pc' = [pc EXCEPT ![r] = at]
    BY <1>10 DEF mprLoadModule, Loads, LoadFails, GoTo
  <2>3. Return(r) \notin Guarded
    BY DEF Return
  <2> QED
    BY <1>3, <2>1, <2>2, <2>3
<1>11. ASSUME NEW r \in Requests, connTimeout(r) PROVE LockInv'
  <2>1. pc[r] \in Guarded /\ pc' = [pc EXCEPT ![r] = "stuck"] /\ lock' = lock
    BY <1>11 DEF connTimeout, GoTo
  <2> QED
    BY <1>3, <2>1
<1> QED
  BY <1>4, <1>5, <1>6, <1>7, <1>8, <1>9, <1>10, <1>11 DEF Next, Works, loadApp
-----------------------------------------------------------------------------
(* Without updates.                                                          *)

\* Without updates, code that is known stays mapped, and only such code is run.
LEMMA StayStep ==
    ASSUME TypeInv, StayInv, ~route.update, Next
    PROVE  StayInv'
<1> USE DEF StayInv
<1>1. route' = route
  BY RouteStays
<1>2. ASSUME UNCHANGED <<mapped, entries>>,
             \A r \in Requests : frame'[r] \subseteq entries
      PROVE  StayInv'
  BY <1>1, <1>2 DEF MappedInv, Provider
<1>3. ASSUME UNCHANGED <<mapped, entries, frame>> PROVE StayInv'
  BY <1>2, <1>3
<1>4. ASSUME Tick \/ \E k \in Kinds : Edit(Provider(k)) \/ Install(Provider(k)) PROVE StayInv'
  BY <1>3, <1>4 DEF Tick, Edit, Install, service
<1>5. ASSUME NEW r \in Requests,
             \/ openEsp(r) \/ connTimeout(r) \/ closeEsp(r) \/ Prepared(r) \/ CheckStale(r)
             \/ espCompile(r) \/ loadApp(r) \/ mprCreateModule(r)
      PROVE  StayInv'
  BY <1>3, <1>5 DEF openEsp, connTimeout, closeEsp, Prepared, CheckStale, espCompile, loadApp,
                    mprCreateModule, service
<1>6. ASSUME NEW r \in Requests, mprLoadModule(r) PROVE StayInv'
  <2>1. CASE Loads(r)
    <3>1. /\ MappedInv'
          /\ mapped'[Module(r)] # None
          /\ \A n \in Modules : n # Module(r) => mapped'[n] = mapped[n]
      BY <2>1, LoadMaps
    <3>2. entries' = entries \cup {k \in Kinds : Provider(k) = Module(r)} /\ frame' = frame
      BY <1>6, <2>1 DEF mprLoadModule, Loads
    <3>3. \A k \in Kinds : Provider(k) \in Modules
      BY DEF Provider, Modules
    <3>4. ASSUME NEW k \in entries' PROVE mapped'[Provider(k)'] # None
      <4>1. k \in Kinds /\ Provider(k)' = Provider(k)
        BY <1>1, <3>2 DEF TypeInv, Provider
      <4>2. CASE Provider(k) = Module(r)
        BY <3>1, <4>1, <4>2
      <4>3. CASE Provider(k) # Module(r)
        BY <3>1, <3>2, <3>3, <4>1, <4>3
      <4> QED
        BY <4>2, <4>3
    <3> QED
      BY <3>1, <3>2, <3>4
  <2>2. CASE LoadFails(r)
    BY <1>3, <1>6, <2>2 DEF mprLoadModule, LoadFails
  <2> QED
    BY <1>6, <2>1, <2>2 DEF mprLoadModule
<1>7. ASSUME NEW r \in Requests, Call(r) \/ RunAction(r) \/ RunView(r) \/ Finish(r) PROVE StayInv'
  <2>1. UNCHANGED <<mapped, entries>>
    BY <1>7 DEF Call, RunAction, RunView, Finish, service
  <2>2. \E new \in SUBSET entries : frame' = [frame EXCEPT ![r] = new] \/ frame' = frame
    BY <1>7 DEF Call, RunAction, RunView, Finish
  <2> QED
    BY <1>2, <2>1, <2>2 DEF TypeInv
<1> QED
  BY <1>4, <1>5, <1>6, <1>7 DEF Next, Works

-----------------------------------------------------------------------------
(* With updates of controllers and views.                                    *)

\* What a step has to keep that leaves the modules alone.
LEMMA UpdateKept ==
    ASSUME TypeInv, UpdateInv, UNCHANGED <<mapped, modules, failed>>,
           NEW r \in Requests, pc[r] # "load", RequestInv(r)',
           \A s \in Requests : s # r =>
               pc'[s] = pc[s] /\ doing'[s] = doing[s] /\ frame'[s] = frame[s]
    PROVE  UpdateInv'
<1>1. \A k \in Kinds : (Listed(k)' <=> Listed(k)) /\ (Kept(k)' <=> Kept(k))
  BY DEF Listed, Kept
<1>2. ASSUME NEW k \in Kinds PROVE KindInv(k)'
  BY <1>1 DEF UpdateInv, KindInv
<1>3. ASSUME NEW s \in Requests, s # r PROVE RequestInv(s)'
  <2>1. doing[s] \in Kinds /\ frame[s] \subseteq Kinds
    BY DEF TypeInv
  <2>2. RequestInv(s)
    BY DEF UpdateInv
  <2> QED
    BY <1>1, <1>3, <2>1, <2>2 DEF RequestInv
<1> QED
  BY <1>2, <1>3 DEF UpdateInv, MappedInv

\* A step that leaves the requests and the modules alone.
LEMMA UpdateSame ==
    ASSUME TypeInv, UpdateInv, UNCHANGED <<mapped, modules, failed, pc, doing, frame>>
    PROVE  UpdateInv'
<1>1. \A k \in Kinds : (Listed(k)' <=> Listed(k)) /\ (Kept(k)' <=> Kept(k))
  BY DEF Listed, Kept
<1>2. ASSUME NEW k \in Kinds PROVE KindInv(k)'
  BY <1>1 DEF UpdateInv, KindInv
<1>3. ASSUME NEW s \in Requests PROVE RequestInv(s)'
  <2>1. doing[s] \in Kinds /\ frame[s] \subseteq Kinds /\ RequestInv(s)
    BY DEF TypeInv, UpdateInv
  <2> QED
    BY <1>1, <2>1 DEF RequestInv
<1> QED
  BY <1>2, <1>3 DEF UpdateInv, MappedInv

\* A step of r that changes the list of its own module, which other requests do
\* not prepare.
LEMMA UpdateOwn ==
    ASSUME TypeInv, UpdateInv, MappedInv', UNCHANGED <<doing, frame>>,
           NEW r \in Requests, NEW m \in Kinds, m = doing[r],
           \A k \in Kinds : k # m => modules'[k] = modules[k] /\ mapped'[k] = mapped[k],
           failed' \in {failed, failed \cup {m}},
           KindInv(m)', RequestInv(r)',
           pc[r] = "load" => pc'[r] # "load",
           \A s \in Requests : s # r =>
               /\ pc'[s] = pc[s]
               /\ pc[s] \notin Guarded
               /\ pc[s] # "idle" => (Kept(m) => Kept(m)')
               /\ pc[s] = "idle" => frame[s] = {}
    PROVE  UpdateInv'
<1>1. ASSUME NEW k \in Kinds, k # m PROVE (Listed(k)' <=> Listed(k)) /\ (Kept(k)' <=> Kept(k))
  BY <1>1 DEF Listed, Kept
<1>2. ASSUME NEW k \in Kinds, k # m PROVE KindInv(k)'
  <2>1. KindInv(k) /\ modules'[k] = modules[k] /\ mapped'[k] = mapped[k]
    BY <1>2 DEF UpdateInv
  <2>2. ASSUME modules[k] # <<>>, ~Kept(k)
        PROVE  \E s \in Requests : pc'[s] = "load" /\ doing'[s] = k
    BY <1>2, <2>1, <2>2 DEF KindInv
  <2> QED
    BY <1>1, <1>2, <2>1, <2>2 DEF KindInv
<1>3. ASSUME NEW s \in Requests, s # r PROVE RequestInv(s)'
  <2>1. doing[s] \in Kinds /\ frame[s] \subseteq Kinds /\ RequestInv(s)
    BY DEF TypeInv, UpdateInv
  <2>2. pc'[s] \notin {"create", "compile", "load"} /\ pc'[s] = pc[s]
    BY <1>3 DEF Guarded
  <2>3. pc'[s] # "idle" => \A k \in Kinds : Kept(k) => Kept(k)'
    BY <1>1, <1>3
  <2> QED
    BY <1>3, <2>1, <2>2, <2>3 DEF RequestInv
<1> QED
  BY <1>2, <1>3 DEF UpdateInv

\* A list of one entry at most.
LEMMA OneEntry ==
    ASSUME NEW S, NEW s \in Seq(S), s # <<>>, Len(s) <= 1
    PROVE  Len(s) = 1 /\ Tail(s) = <<>>
<1>1. Len(s) \in Nat /\ Len(s) # 0
  BY EmptySeq
<1>2. Len(s) = 1
  BY <1>1
<1>3. Tail(s) \in Seq(S) /\ Len(Tail(s)) = 0
  BY <1>2, HeadTailProperties
<1> QED
  BY <1>2, <1>3, EmptySeq

\* A stale module is unloaded by a request that is alone, and is in code of the
\* other kind at most.
LEMMA UpdateCheck ==
    ASSUME IsFiniteSet(Requests), Inv, route.update, ~route.app, NEW r \in Requests, CheckStale(r)
    PROVE  UpdateInv'
<1> USE ConstantsAssumption
<1>0. TypeInv /\ CountInv /\ StackInv /\ LockInv /\ UpdateInv
  BY DEF Inv
<1> PICK m \in Kinds : m = doing[r] /\ m = Module(r)
  BY <1>0 DEF TypeInv, Module, Provider
<1> DEFINE stale == \/ object[m] = None \/ Outdated(m)
                    \/ IsLoaded(m) /\ object[m].mtime > Head(modules[m]).modified
<1>1. /\ pc[r] = "prepare" /\ lock = None
      /\ UNCHANGED <<doing, frame, failed>>
      /\ pc' = [pc EXCEPT ![r] = "compile"] \/ pc' = [pc EXCEPT ![r] = "create"]
  BY DEF CheckStale, GoTo, history
<1>2. \A s \in Requests : pc[s] \notin Guarded
  BY <1>0, <1>1 DEF LockInv
<1>3. \A k \in Kinds : modules[k] # <<>> => Kept(k)
  BY <1>0, <1>2 DEF UpdateInv, KindInv, Guarded
<1>4. \A s \in Requests : s # r => pc'[s] = pc[s]
  BY <1>0, <1>1 DEF TypeInv
<1>5. pc'[r] \in {"compile", "create"}
  BY <1>0, <1>1 DEF TypeInv
<1>6. frame[r] \subseteq Kinds \ {m} /\ \A k \in frame[r] : Kept(k)
  BY <1>0, <1>1 DEF TypeInv, StackInv, Preparing, UpdateInv, RequestInv
<1>8. CASE ~(IsLoaded(m) /\ stale /\ MayUnload)
  <2>1. UNCHANGED <<modules, mapped>>
    BY <1>8 DEF CheckStale
  <2>2. pc'[r] = "compile" => modules[m] = <<>>
    <3>1. pc'[r] = "compile" => (object[m] = None \/ Outdated(m)) /\ ~(IsLoaded(m) /\ ~MayUnload)
      BY <1>0, <1>1 DEF CheckStale, GoTo, TypeInv
    <3> QED
      BY <1>8, <3>1 DEF IsLoaded
  <2>4. RequestInv(r)'
    BY <1>1, <1>3, <1>5, <1>6, <2>1, <2>2 DEF RequestInv, Kept, Listed
  <2> QED
    BY <1>0, <1>1, <1>4, <2>1, <2>4, UpdateKept
<1>9. CASE IsLoaded(m) /\ stale /\ MayUnload
  <2>1. Unload(m)
    BY <1>9 DEF CheckStale
  <2>2. /\ m \in Modules /\ modules[m] \in Seq(Entry) /\ Len(modules[m]) = 1
        /\ Head(modules[m]).loaded => mapped[m] \in Mapping
    <3>1. m \in Modules /\ modules[m] \in Seq(Entry) /\ modules[m] # <<>>
      BY <1>0, <1>9 DEF TypeInv, IsLoaded, Modules
    <3>2. Len(modules[m]) <= 1 /\ (Listed(m) => mapped[m] # None)
      BY <1>0, <3>1 DEF UpdateInv, KindInv
    <3>3. Len(modules[m]) = 1 /\ Head(modules[m]) = modules[m][1]
      BY <3>1, <3>2, OneEntry
    <3>4. mapped[m] \in Mapping \cup {None}
      BY <1>0, <3>1 DEF UpdateInv, MappedInv
    <3> QED
      BY <3>1, <3>2, <3>3, <3>4 DEF Listed
  <2>3. modules' = [modules EXCEPT ![m] = <<>>]
    <3>1. Tail(modules[m]) = <<>>
      <4>1. modules[m] # <<>> /\ Len(modules[m]) <= 1 /\ modules[m] \in Seq(Entry)
        BY <1>9, <2>2 DEF IsLoaded
      <4> QED
        BY <4>1, OneEntry
    <3> QED
      BY <2>1, <3>1 DEF Unload
  <2>4. MappedInv' /\ \A k \in Kinds : k # m => mapped'[k] = mapped[k]
    <3>1. \/ mapped' = mapped
          \/ mapped' = [mapped EXCEPT ![m] = None]
          \/ /\ mapped[m] \in Mapping /\ mapped[m].refs # 1
             /\ mapped' = [mapped EXCEPT ![m].refs = @ - 1]
      BY <2>1, <2>2 DEF Unload
    <3>2. mapped \in [Modules -> Mapping \cup {None}]
      BY <1>0 DEF UpdateInv, MappedInv
    <3> QED
      BY <2>2, <3>1, <3>2 DEF MappedInv, Mapping, Kinds, Modules
  <2>5. modules'[m] = <<>> /\ \A k \in Kinds : k # m => modules'[k] = modules[k]
    BY <1>0, <2>2, <2>3 DEF TypeInv, Kinds, Modules
  <2>6. KindInv(m)'
    BY <2>5 DEF KindInv, Listed
  <2>7. RequestInv(r)'
    <3>1. \A k \in frame[r] : Kept(k)'
      BY <1>1, <1>6, <2>5 DEF Listed, Kept
    <3> QED
      BY <1>1, <1>5, <2>5, <3>1 DEF RequestInv
  <2>8. \A s \in Requests : s # r => pc[s] = "idle" /\ frame[s] = {}
    <3>1. \A s \in Requests : s # r => pc[s] = "idle"
      BY <1>0, <1>1, <1>2, <1>9, Alone DEF Guarded
    <3> QED
      BY <1>0, <3>1 DEF StackInv
  <2> QED
    BY <1>0, <1>1, <1>2, <1>4, <2>4, <2>5, <2>6, <2>7, <2>8, UpdateOwn
<1> QED
  BY <1>8, <1>9

\* A module that is not on the list is put there, to be loaded.
LEMMA UpdateCreate ==
    ASSUME Inv, route.update, ~route.app, NEW r \in Requests, mprCreateModule(r)
    PROVE  UpdateInv'
<1> USE ConstantsAssumption
<1>0. TypeInv /\ StackInv /\ LockInv /\ UpdateInv
  BY DEF Inv
<1> PICK m \in Kinds : m = doing[r] /\ m = Module(r)
  BY <1>0 DEF TypeInv, Module, Provider
<1>1. pc[r] = "create" /\ UNCHANGED <<failed, mapped, doing, frame>>
  BY DEF mprCreateModule, history
<1>2. \A s \in Requests : s # r => pc[s] \notin Guarded
  BY <1>0, <1>1 DEF LockInv, Guarded
<1>3. RequestInv(r) /\ m \in Modules /\ modules[m] \in Seq(Entry)
  BY <1>0 DEF UpdateInv, TypeInv, Kinds, Modules
<1>4. CASE IsLoaded(m)
  <2>1. modules' = modules /\ pc' = [pc EXCEPT ![r] = "call"]
    BY <1>4 DEF mprCreateModule, GoTo
  <2>2. RequestInv(r)'
    BY <1>0, <1>1, <1>3, <1>4, <2>1 DEF RequestInv, TypeInv, Kept, Listed, IsLoaded
  <2> QED
    BY <1>0, <1>1, <2>1, <2>2, UpdateKept DEF TypeInv
<1>5. CASE ~IsLoaded(m)
  <2> DEFINE entry == [modified |-> 0, loaded |-> FALSE, by |-> r]
  <2>1. modules' = [modules EXCEPT ![m] = <<entry>>] /\ pc' = [pc EXCEPT ![r] = "load"]
    <3>1. modules' = [modules EXCEPT ![m] = Append(modules[m], entry)] /\ pc' = [pc EXCEPT ![r] = "load"]
      BY <1>5 DEF mprCreateModule, GoTo
    <3>2. modules[m] = <<>>
      BY <1>5 DEF IsLoaded
    <3> QED
      BY <3>1, <3>2
  <2>2. /\ modules'[m] = <<entry>> /\ \A k \in Kinds : k # m => modules'[k] = modules[k]
        /\ pc'[r] = "load" /\ \A s \in Requests : s # r => pc'[s] = pc[s]
    BY <1>0, <1>3, <2>1 DEF TypeInv, Kinds, Modules
  <2>3. Len(modules'[m]) = 1 /\ modules'[m][1].by = r /\ ~modules'[m][1].loaded /\ modules'[m] # <<>>
    BY <2>2
  <2>4. KindInv(m)'
    <3>1. pc'[r] = "load" /\ doing'[r] = m
      BY <1>1, <2>2
    <3>2. ~Listed(m)' /\ Len(modules'[m]) <= 1
      BY <2>3 DEF Listed
    <3> QED
      BY <3>1, <3>2 DEF KindInv
  <2>5. RequestInv(r)'
    <3>1. \A k \in frame[r] : k \in Kinds /\ k # m /\ Kept(k)
      BY <1>0, <1>1, <1>3 DEF RequestInv, TypeInv, StackInv, Preparing, Guarded
    <3>2. \A k \in frame[r] : Kept(k)'
      BY <1>1, <2>2, <3>1 DEF Kept, Listed
    <3> QED
      BY <1>1, <2>2, <2>3, <3>2 DEF RequestInv
  <2>6. /\ MappedInv' /\ (Kept(m) => Kept(m)')
        /\ \A s \in Requests : pc[s] = "idle" => frame[s] = {}
    BY <1>0, <1>1, <1>5 DEF UpdateInv, MappedInv, Kept, Listed, IsLoaded, StackInv
  <2> QED
    BY <1>0, <1>1, <1>2, <2>2, <2>4, <2>5, <2>6, UpdateOwn
<1> QED
  BY <1>4, <1>5

\* A list of one entry whose load has ended.
LEMMA EntrySet ==
    ASSUME TypeInv, NEW r \in Requests, NEW m \in Modules, m = Module(r), NEW loaded \in BOOLEAN,
           SetEntry(r, loaded), Len(modules[m]) = 1, modules[m][1].by = r
    PROVE  /\ Len(modules'[m]) = 1 /\ modules'[m] # <<>>
           /\ modules'[m][1] = [modified |-> IF object[m] = None THEN 0 ELSE object[m].mtime,
                                loaded |-> loaded, by |-> None]
           /\ \A k \in Modules : k # m => modules'[k] = modules[k]
<1> DEFINE done == [modified |-> IF object[m] = None THEN 0 ELSE object[m].mtime,
                    loaded |-> loaded, by |-> None]
           list == [i \in DOMAIN modules[m] |-> IF modules[m][i].by # r THEN modules[m][i] ELSE done]
<1>1. modules'[m] = list /\ \A k \in Modules : k # m => modules'[k] = modules[k]
  <2>1. modules' = [modules EXCEPT ![m] = list]
    BY DEF SetEntry
  <2> HIDE DEF list
  <2> QED
    BY <2>1 DEF TypeInv
<1>2. list = [i \in 1..1 |-> done]
  <2>1. DOMAIN modules[m] = 1..1
    BY DEF TypeInv
  <2> QED
    BY <2>1
<1>3. list \in Seq({done}) /\ list[1] = done
  <2> HIDE DEF done
  <2>1. [i \in 1..1 |-> done] \in [1..1 -> {done}] /\ 1 \in Nat
    OBVIOUS
  <2>2. [i \in 1..1 |-> done] \in Seq({done})
    BY <2>1, SeqDef
  <2>3. [i \in 1..1 |-> done][1] = done
    OBVIOUS
  <2> QED
    BY <1>2, <2>2, <2>3
<1>4. Len(list) = 1
  BY <1>2, <1>3
<1>5. list # <<>>
  BY <1>4, EmptySeq
<1> QED
  BY <1>1, <1>3, <1>4, <1>5

\* A module is loaded, or a load of it has failed.
LEMMA UpdateLoad ==
    ASSUME Inv, route.update, ~route.app, NEW r \in Requests, mprLoadModule(r)
    PROVE  UpdateInv'
<1> USE ConstantsAssumption
<1>0. TypeInv /\ StackInv /\ LockInv /\ UpdateInv
  BY DEF Inv
<1> PICK m \in Kinds : m = doing[r] /\ m = Module(r)
  BY <1>0 DEF TypeInv, Module, Provider
<1>1. pc[r] = "load" /\ UNCHANGED <<doing, frame>>
  BY DEF mprLoadModule
<1>2. \A s \in Requests : s # r => pc[s] \notin Guarded
  BY <1>0, <1>1 DEF LockInv, Guarded
<1>3. RequestInv(r) /\ KindInv(m) /\ m \in Modules /\ modules[m] \in Seq(Entry)
  BY <1>0 DEF UpdateInv, TypeInv, Kinds, Modules
<1>4. modules[m] # <<>> /\ modules[m][1].by = r /\ Len(modules[m]) = 1
  <2>1. modules[m] # <<>> /\ modules[m][1].by = r /\ Len(modules[m]) <= 1
    BY <1>1, <1>3 DEF RequestInv, KindInv
  <2> QED
    BY <1>3, <2>1, OneEntry
<1>5. PICK loaded \in BOOLEAN :
          SetEntry(r, loaded) /\ (loaded => Loads(r)) /\ (~loaded => LoadFails(r))
  BY DEF mprLoadModule, Loads, LoadFails
<1>6. /\ Len(modules'[m]) = 1 /\ modules'[m] # <<>> /\ (modules'[m][1].loaded <=> loaded)
      /\ \A k \in Kinds : k # m => modules'[k] = modules[k]
  <2>1. /\ Len(modules'[m]) = 1 /\ modules'[m] # <<>>
        /\ modules'[m][1] = [modified |-> IF object[m] = None THEN 0 ELSE object[m].mtime,
                             loaded |-> loaded, by |-> None]
        /\ \A k \in Modules : k # m => modules'[k] = modules[k]
    BY <1>0, <1>3, <1>4, <1>5, EntrySet
  <2> QED
    BY <2>1 DEF Kinds, Modules
<1>7. /\ MappedInv' /\ (loaded => mapped'[m] # None)
      /\ \A k \in Kinds : k # m => mapped'[k] = mapped[k]
  <2>1. CASE loaded
    BY <1>0, <1>5, <2>1, LoadMaps DEF UpdateInv, Kinds, Modules
  <2>2. CASE ~loaded
    BY <1>0, <1>5, <2>2 DEF LoadFails, UpdateInv, MappedInv
  <2> QED
    BY <2>1, <2>2
<1>8. failed' = IF loaded THEN failed ELSE failed \cup {m}
  BY <1>5 DEF Loads, LoadFails
<1>9. /\ pc'[r] \in {"call", "finish", "close"}
      /\ \A s \in Requests : s # r => pc'[s] = pc[s]
  <2>1. pc' = [pc EXCEPT ![r] = "call"] \/ pc' = [pc EXCEPT ![r] = Return(r)]
    BY <1>5 DEF Loads, LoadFails, GoTo
  <2> QED
    BY <1>0, <2>1 DEF TypeInv, Return
<1>10. Kept(m)' /\ KindInv(m)'
  BY <1>6, <1>7, <1>8 DEF KindInv, Kept, Listed
<1>11. RequestInv(r)'
  <2>1. \A k \in frame[r] : k \in Kinds /\ Kept(k)
    BY <1>0, <1>3 DEF RequestInv, TypeInv
  <2>2. \A k \in frame[r] : Kept(k)'
    BY <1>6, <1>8, <1>10, <2>1 DEF Kept, Listed
  <2> QED
    BY <1>1, <1>9, <1>10, <2>2 DEF RequestInv
<1>12. \A s \in Requests : pc[s] = "idle" => frame[s] = {}
  BY <1>0 DEF StackInv
<1> QED
  BY <1>0, <1>1, <1>2, <1>6, <1>7, <1>8, <1>9, <1>10, <1>11, <1>12, UpdateOwn

\* With updates, every step keeps the modules that requests rely on.
LEMMA UpdateStep ==
    ASSUME IsFiniteSet(Requests), Inv, route.update, ~route.app, Next
    PROVE  UpdateInv'
<1> USE ConstantsAssumption
<1>0. TypeInv /\ StackInv /\ LockInv /\ UpdateInv
  BY DEF Inv
<1>1. CASE Tick \/ \E k \in Kinds : Edit(Provider(k)) \/ Install(Provider(k))
  BY <1>0, <1>1, UpdateSame DEF Tick, Edit, Install, service, history

\* A step of r that leaves the modules alone, and r not in need of them.
<1>4. ASSUME NEW r \in Requests, pc[r] # "load", UNCHANGED <<mapped, modules, failed>>,
             NEW at \in Places \ {"compile", "create", "load", "call"}, pc' = [pc EXCEPT ![r] = at],
             NEW k \in Kinds, doing' = [doing EXCEPT ![r] = k],
             NEW stack \in SUBSET Kinds, frame' = [frame EXCEPT ![r] = stack],
             \A c \in stack : Kept(c)
      PROVE  UpdateInv'
  <2>1. pc'[r] = at /\ doing'[r] = k /\ frame'[r] = stack
    BY <1>0, <1>4 DEF TypeInv
  <2>2. \A s \in Requests : s # r =>
            pc'[s] = pc[s] /\ doing'[s] = doing[s] /\ frame'[s] = frame[s]
    BY <1>0, <1>4 DEF TypeInv
  <2>3. \A c \in frame'[r] : Kept(c)'
    BY <1>4, <2>1 DEF Kept, Listed
  <2>4. RequestInv(r)'
    BY <1>4, <2>1, <2>3 DEF RequestInv
  <2> QED
    BY <1>0, <1>4, <2>2, <2>4, UpdateKept
<1>5. ASSUME NEW r \in Requests
      PROVE  /\ doing[r] \in Kinds /\ doing = [doing EXCEPT ![r] = doing[r]]
             /\ frame[r] \in SUBSET Kinds /\ frame = [frame EXCEPT ![r] = frame[r]]
             /\ Return(r) \in Places \ {"compile", "create", "load", "call"}
             /\ \A c \in frame[r] : Kept(c)
  BY <1>0 DEF TypeInv, Return, Places, UpdateInv, RequestInv
<1>6. ASSUME NEW r \in Requests, openEsp(r) PROVE UpdateInv'
  <2>1. pc[r] # "load" /\ UNCHANGED <<mapped, modules, failed, frame>>
    BY <1>6 DEF openEsp, service, history
  <2>2. \E at \in {"prepare", "close"} : \E k \in Kinds :
            pc' = [pc EXCEPT ![r] = at] /\ doing' = [doing EXCEPT ![r] = k]
    BY <1>5, <1>6 DEF openEsp, Begin, GoTo
  <2> QED
    BY <1>4, <1>5, <2>1, <2>2 DEF Places
<1>7. ASSUME NEW r \in Requests, closeEsp(r) PROVE UpdateInv'
  <2>1. pc[r] # "load" /\ UNCHANGED <<mapped, modules, failed, frame>>
    BY <1>7 DEF closeEsp, service, history
  <2>2. pc' = [pc EXCEPT ![r] = "idle"] /\ doing' = [doing EXCEPT ![r] = "action"]
    BY <1>7 DEF closeEsp, GoTo
  <2> QED
    BY <1>4, <1>5, <2>1, <2>2 DEF Places, Kinds
<1>8. ASSUME NEW r \in Requests, Prepared(r) \/ loadApp(r) PROVE UpdateInv'
  BY <1>8 DEF Prepared, loadApp
<1>9. ASSUME NEW r \in Requests, CheckStale(r) PROVE UpdateInv'
  BY <1>9, UpdateCheck
<1>10. ASSUME NEW r \in Requests, espCompile(r) PROVE UpdateInv'
  <2>1. pc[r] = "compile" /\ UNCHANGED <<mapped, modules, failed, doing, frame>>
    BY <1>10 DEF espCompile, service, history
  <2>2. CASE pc' = [pc EXCEPT ![r] = Return(r)]
    BY <1>4, <1>5, <2>1, <2>2
  <2>3. CASE pc' = [pc EXCEPT ![r] = "create"]
    <3>1. modules[doing[r]] = <<>>
      BY <1>0, <2>1 DEF UpdateInv, RequestInv
    <3>2. pc'[r] = "create" /\ \A s \in Requests : s # r => pc'[s] = pc[s]
      BY <1>0, <2>3 DEF TypeInv
    <3>3. \A c \in frame[r] : Kept(c)'
      BY <1>5, <2>1 DEF Kept, Listed
    <3>4. RequestInv(r)'
      BY <2>1, <3>1, <3>2, <3>3 DEF RequestInv
    <3> QED
      BY <1>0, <2>1, <3>2, <3>4, UpdateKept
  <2> QED
    BY <1>10, <2>2, <2>3 DEF espCompile, CompileFails, GoTo
<1>11. ASSUME NEW r \in Requests, mprCreateModule(r) PROVE UpdateInv'
  BY <1>11, UpdateCreate
<1>12. ASSUME NEW r \in Requests, mprLoadModule(r) PROVE UpdateInv'
  BY <1>12, UpdateLoad
<1>13. ASSUME NEW r \in Requests, Call(r) PROVE UpdateInv'
  <2>1. pc[r] = "call" /\ UNCHANGED <<mapped, modules, failed>> /\ Kept(doing[r])
    BY <1>0, <1>13 DEF Call, service, history, UpdateInv, RequestInv
  <2>2. CASE pc' = [pc EXCEPT ![r] = "run"] /\ doing' = doing
             /\ frame' = [frame EXCEPT ![r] = frame[r] \cup {doing[r]}]
    <3>1. /\ frame[r] \cup {doing[r]} \in SUBSET Kinds
          /\ \A c \in frame[r] \cup {doing[r]} : Kept(c)
          /\ doing' = [doing EXCEPT ![r] = doing[r]] /\ doing[r] \in Kinds
      BY <1>5, <2>1, <2>2
    <3> QED
      BY <1>4, <2>1, <2>2, <3>1 DEF Places
  <2>3. CASE pc' = [pc EXCEPT ![r] = Return(r)] /\ UNCHANGED <<doing, frame>>
    BY <1>4, <1>5, <2>1, <2>3
  <2>4. CASE pc' = [pc EXCEPT ![r] = "prepare"] /\ doing' = [doing EXCEPT ![r] = "view"]
             /\ frame' = frame
    BY <1>4, <1>5, <2>1, <2>4 DEF Places, Kinds
  <2> QED
    BY <1>13, <2>2, <2>3, <2>4 DEF Call, Begin, GoTo
<1>14. ASSUME NEW r \in Requests, RunAction(r) PROVE UpdateInv'
  <2>1. pc[r] = "run" /\ UNCHANGED <<mapped, modules, failed>>
    BY <1>14 DEF RunAction, service, history
  <2>2. \E at \in {"prepare", "close"} : pc' = [pc EXCEPT ![r] = at]
    BY <1>14 DEF RunAction, Begin, GoTo
  <2>3. \E k \in Kinds : doing' = [doing EXCEPT ![r] = k]
    BY <1>5, <1>14 DEF RunAction, Begin, Kinds
  <2>4. \E stack \in {{}, frame[r]} : frame' = [frame EXCEPT ![r] = stack]
    BY <1>5, <1>14 DEF RunAction
  <2> QED
    BY <1>4, <1>5, <2>1, <2>2, <2>3, <2>4 DEF Places
<1>15. ASSUME NEW r \in Requests, RunView(r) PROVE UpdateInv'
  <2>1. pc[r] = "run" /\ UNCHANGED <<mapped, modules, failed, doing>>
    BY <1>15 DEF RunView, service, history
  <2>2. pc' = [pc EXCEPT ![r] = Return(r)] /\ frame' = [frame EXCEPT ![r] = frame[r] \ {"view"}]
    BY <1>15 DEF RunView, GoTo
  <2>3. /\ frame[r] \ {"view"} \in SUBSET Kinds
        /\ \A c \in frame[r] \ {"view"} : Kept(c)
        /\ doing' = [doing EXCEPT ![r] = doing[r]] /\ doing[r] \in Kinds
    BY <1>5, <2>1
  <2> QED
    BY <1>4, <1>5, <2>1, <2>2, <2>3
<1>16. ASSUME NEW r \in Requests, Finish(r) PROVE UpdateInv'
  <2>1. pc[r] = "finish" /\ UNCHANGED <<mapped, modules, failed, doing>>
    BY <1>16 DEF Finish, service, history
  <2>2. pc' = [pc EXCEPT ![r] = "close"] /\ frame' = [frame EXCEPT ![r] = {}]
    BY <1>16 DEF Finish, GoTo
  <2>3. doing' = [doing EXCEPT ![r] = doing[r]] /\ doing[r] \in Kinds
    BY <1>5, <2>1
  <2>4. "close" \in Places \ {"compile", "create", "load", "call"} /\ {} \in SUBSET Kinds
        /\ \A c \in {} : Kept(c)
    BY DEF Places
  <2> QED
    BY <1>4, <2>1, <2>2, <2>3, <2>4
<1>17. ASSUME NEW r \in Requests, connTimeout(r) PROVE UpdateInv'
  <2>1. pc[r] = "compile" /\ UNCHANGED <<mapped, modules, failed, doing, frame>>
    BY <1>17 DEF connTimeout, service, history
  <2>2. pc' = [pc EXCEPT ![r] = "stuck"]
    BY <1>17 DEF connTimeout, GoTo
  <2>3. "stuck" \in Places \ {"compile", "create", "load", "call"}
    BY DEF Places
  <2> QED
    BY <1>4, <1>5, <2>1, <2>2, <2>3
<1> QED
  BY <1>1, <1>6, <1>7, <1>8, <1>9, <1>10, <1>11, <1>12, <1>13, <1>14, <1>15, <1>16, <1>17
     DEF Next, Works

\* The invariant is inductive.
LEMMA InvStep ==
    ASSUME IsFiniteSet(Requests), Inv, [Next]_vars
    PROVE  Inv'
<1>1. CASE Next
  <2>1. route' = route
    BY <1>1, RouteStays
  <2>2. TypeInv' /\ CountInv' /\ StackInv' /\ LockInv'
    BY <1>1, TypeStep, CountStep, StackStep, LockStep DEF Inv
  <2>3. route'.update /\ ~route'.app => UpdateInv'
    BY <1>1, <2>1, UpdateStep
  <2>4. ~route'.update => StayInv'
    BY <1>1, <2>1, StayStep DEF Inv
  <2> QED
    BY SMTT(40), <2>2, <2>3, <2>4 DEF Inv
<1>2. CASE UNCHANGED vars
  <2> USE <1>2 DEF vars, files, service, history
  <2>1. TypeInv' /\ LockInv' /\ StackInv' /\ StayInv' = StayInv /\ CountInv'
    BY DEF Inv, TypeInv, LockInv, StackInv, StayInv, MappedInv, Provider, CountInv, Open
  <2>2. UpdateInv => UpdateInv'
    BY UpdateSame DEF Inv
  <2> QED
    BY <2>1, <2>2 DEF Inv
<1> QED
  BY <1>1, <1>2

\* It implies that the code on every stack is mapped.
LEMMA InvStays ==
    ASSUME Inv
    PROVE  CodeStaysLoaded
<1> SUFFICES ASSUME ~(route.app /\ route.update), NEW r \in Requests, NEW k \in frame[r]
             PROVE  mapped[Provider(k)] # None \/ (route.update /\ Provider(k) \in failed)
  BY DEF CodeStaysLoaded
<1>1. k \in Kinds
  BY DEF Inv, TypeInv
<1>2. CASE route.update
  <2>1. Provider(k) = k /\ UpdateInv
    BY <1>2 DEF Inv, Provider
  <2> QED
    BY <1>1, <1>2, <2>1 DEF UpdateInv, KindInv, RequestInv, Kept
<1>3. CASE ~route.update
  BY <1>3 DEF Inv, StayInv
<1> QED
  BY <1>2, <1>3

\* The code a request is in stays loaded until it returns, however many requests
\* there are and whoever edits and installs what: when the module of a controller or
\* a view is replaced no other request is open, and the one that replaces it is not
\* in its code (espModuleIsStale and espUnloadModule).  With updates that is so of a
\* module until a load of it fails; of the others it is so after that, too.
THEOREM CodeLoaded ==
    ASSUME IsFiniteSet(Requests)
    PROVE  Spec => []CodeStaysLoaded
<1>1. Init => Inv
  BY InitInv
<1>2. Inv /\ [Next]_vars => Inv'
  BY InvStep
<1>3. Inv => CodeStaysLoaded
  BY InvStays
<1> QED
  BY <1>1, <1>2, <1>3, PTL DEF Spec
-----------------------------------------------------------------------------
(* Fresh code.  Let a route ask for updates of its controllers and views.     *)
(* Versions are compared only by way of times, so the invariant says what     *)
(* times tell of versions: a file, or a loaded module, that is not at least   *)
(* as new as its source bears a time not after that of the source.  Nothing   *)
(* is said of versions once a source was edited while it was compiled.        *)

Current(version, time, k) ==
    k \in missed \/ version >= source[k].version \/ source[k].mtime >= time

KindFresh(k) ==
    /\ source[k].mtime <= now
    /\ object[k] # None => object[k].mtime <= now /\ Current(object[k].version, object[k].mtime, k)
    /\ Len(modules[k]) <= 1
    /\ mapped[k] # None <=> Listed(k)
    /\ modules[k] # <<>> =>
          /\ modules[k][1].modified <= now
          /\ modules[k][1].by # None => pc[modules[k][1].by] = "load" /\ doing[modules[k][1].by] = k
    /\ mapped[k] # None =>
          /\ mapped[k].refs = 1
          /\ Current(mapped[k].version, modules[k][1].modified, k)

\* What is loaded, or is going to be, is what the request needs.
Fits(r) ==
    doing[r] \notin missed /\ mapped[doing[r]] # None => mapped[doing[r]].version >= owed[r]

WillFit(r) ==
    doing[r] \notin missed /\ object[doing[r]] # None => object[doing[r]].version >= owed[r]

RequestFresh(r) ==
    LET k == doing[r] IN
    /\ owed[r] <= source[k].version
    /\ pc[r] = "compile" =>
          modules[k] = <<>> /\ (k \notin missed => built[r] = source[k].version)
    /\ pc[r] = "create" => Fits(r) /\ (modules[k] = <<>> => WillFit(r))
    /\ pc[r] = "load" =>
          modules[k] # <<>> /\ modules[k][1].by = r /\ ~modules[k][1].loaded /\ WillFit(r)
    /\ pc[r] \in {"call", "run"} => modules[k] # <<>> /\ modules[k][1].by = None /\ Fits(r)

FreshInv ==
    /\ MappedInv
    /\ \A k \in Kinds : KindFresh(k)
    /\ \A r \in Requests : RequestFresh(r)

\* The values that are compared are numbers.
LEMMA KindTypes ==
    ASSUME TypeInv, NEW k \in Kinds
    PROVE  /\ k \in Modules /\ now \in Nat
           /\ source[k].version \in Nat /\ source[k].mtime \in Nat
           /\ object[k] # None => object[k].version \in Nat /\ object[k].mtime \in Nat
           /\ modules[k] \in Seq(Entry)
           /\ modules[k] # <<>> => modules[k][1] \in Entry /\ modules[k][1].modified \in Nat
<1>1. k \in Modules /\ now \in Nat /\ source[k] \in Stamp /\ modules[k] \in Seq(Entry)
      /\ object[k] \in Stamp \cup {None}
  BY DEF TypeInv, Modules
<1>2. modules[k] # <<>> => modules[k][1] \in Entry
  <2>1. modules[k] # <<>> => Len(modules[k]) \in Nat /\ Len(modules[k]) # 0
    BY <1>1, EmptySeq
  <2> QED
    BY <1>1, <2>1, ElementOfSeq
<1>3. \A e \in Entry : e.modified \in Nat
  BY DEF Entry
<1>4. \A f \in Stamp : f.version \in Nat /\ f.mtime \in Nat
  BY DEF Stamp
<1> QED
  BY <1>1, <1>2, <1>3, <1>4

\* A request works for a controller or a view, and counts in versions.
LEMMA RequestTypes ==
    ASSUME TypeInv, NEW r \in Requests
    PROVE  doing[r] \in Kinds /\ owed[r] \in Nat /\ built[r] \in Nat
  BY DEF TypeInv

\* A step of r that leaves the files and the modules alone.
LEMMA FreshKept ==
    ASSUME TypeInv, FreshInv, UNCHANGED <<files, mapped, modules, missed>>,
           NEW r \in Requests, pc[r] # "load", RequestFresh(r)',
           \A s \in Requests : s # r =>
               /\ pc'[s] = pc[s] /\ doing'[s] = doing[s]
               /\ owed'[s] = owed[s] /\ built'[s] = built[s]
    PROVE  FreshInv'
<1>1. ASSUME NEW k \in Kinds PROVE KindFresh(k)'
  <2> DEFINE b == modules[k][1].by
  <2>1. KindFresh(k)
    BY DEF FreshInv
  <2>2. modules[k] # <<>> => b \in Requests \cup {None}
    <3>1. modules[k] # <<>> => modules[k][1] \in Entry
      BY KindTypes
    <3>2. \A e \in Entry : e.by \in Requests \cup {None}
      BY DEF Entry
    <3> QED
      BY <3>1, <3>2
  <2>3. modules[k] # <<>> /\ b # None => pc'[b] = "load" /\ doing'[b] = k
    BY <2>1, <2>2 DEF KindFresh
  <2> QED
    BY <2>1, <2>3 DEF KindFresh, Listed, Current, files
<1>2. ASSUME NEW s \in Requests, s # r PROVE RequestFresh(s)'
  <2>1. RequestFresh(s)
    BY DEF FreshInv
  <2> QED
    BY <1>2, <2>1 DEF RequestFresh, Fits, WillFit, files
<1> QED
  BY <1>1, <1>2 DEF FreshInv, MappedInv

\* A step of r that changes the list of its own module, which no other request is
\* about to use.
LEMMA FreshOwn ==
    ASSUME TypeInv, FreshInv, MappedInv', UNCHANGED <<files, doing, missed>>,
           NEW r \in Requests, NEW m \in Kinds, m = doing[r],
           \A k \in Kinds : k # m => modules'[k] = modules[k] /\ mapped'[k] = mapped[k],
           KindFresh(m)', RequestFresh(r)',
           \A s \in Requests : s # r =>
               /\ pc'[s] = pc[s] /\ owed'[s] = owed[s] /\ built'[s] = built[s]
               /\ pc[s] \notin Guarded
               /\ pc[s] \in {"call", "run"} => doing[s] # m
    PROVE  FreshInv'
<1>1. ASSUME NEW k \in Kinds, k # m PROVE KindFresh(k)'
  <2> DEFINE b == modules[k][1].by
  <2>1. KindFresh(k)
    BY DEF FreshInv
  <2>2. modules[k] # <<>> => b \in Requests \cup {None}
    <3>1. modules[k] # <<>> => modules[k][1] \in Entry
      BY KindTypes
    <3>2. \A e \in Entry : e.by \in Requests \cup {None}
      BY DEF Entry
    <3> QED
      BY <3>1, <3>2
  <2>3. modules[k] # <<>> => b = None
    BY <1>1, <2>1, <2>2 DEF KindFresh, Guarded
  <2> QED
    BY <1>1, <2>1, <2>3 DEF KindFresh, Listed, Current, files
<1>2. ASSUME NEW s \in Requests, s # r PROVE RequestFresh(s)'
  <2>1. RequestFresh(s) /\ doing[s] \in Kinds
    BY RequestTypes DEF FreshInv
  <2>2. pc'[s] \notin {"compile", "create", "load"} /\ pc'[s] = pc[s]
    BY <1>2 DEF Guarded
  <2> QED
    BY <1>2, <2>1, <2>2 DEF RequestFresh, Fits, files
<1> QED
  BY <1>1, <1>2 DEF FreshInv, MappedInv

\* The clock, edits and installations.  A module that is edited while it is compiled
\* is one that was missed.
LEMMA FreshFiles ==
    ASSUME TypeInv, FreshInv, ~route.app,
           Tick \/ \E k \in Kinds : Edit(Provider(k)) \/ Install(Provider(k))
    PROVE  FreshInv'
<1>0. UNCHANGED <<modules, mapped, pc, doing, owed, built>>
  BY DEF Tick, Edit, Install, service
<1>1. CASE Tick
  <2>1. now' = now + 1 /\ UNCHANGED <<source, object, missed>>
    BY <1>1 DEF Tick, history
  <2>2. ASSUME NEW k \in Kinds PROVE KindFresh(k)'
    <3>1. KindFresh(k)
      BY DEF FreshInv
    <3> QED
      BY <1>0, <2>1, <3>1, KindTypes DEF KindFresh, Listed, Current
  <2>3. ASSUME NEW s \in Requests PROVE RequestFresh(s)'
    BY <1>0, <2>1 DEF FreshInv, RequestFresh, Fits, WillFit
  <2> QED
    BY <1>0, <2>2, <2>3 DEF FreshInv, MappedInv
<1>2. ASSUME NEW m \in Kinds, Edit(m) PROVE FreshInv'
  <2>1. m \in Modules /\ source[m].version \in Nat /\ now \in Nat /\ now' = now /\ object' = object
    BY <1>2, KindTypes DEF Edit
  <2>2. /\ source'[m].version = source[m].version + 1 /\ source'[m].mtime = now
        /\ \A k \in Kinds : k # m => source'[k] = source[k]
        /\ missed' = IF Quiet(m) THEN missed ELSE missed \cup {m}
    BY <1>2, <2>1 DEF Edit, TypeInv, Kinds, Modules
  <2>3. ASSUME NEW k \in Kinds PROVE KindFresh(k)'
    <3>1. KindFresh(k)
      BY DEF FreshInv
    <3>2. CASE k = m
      BY <1>0, <2>1, <2>2, <3>1, <3>2, KindTypes DEF KindFresh, Listed, Current
    <3>3. CASE k # m
      BY <1>0, <2>1, <2>2, <3>1, <3>3 DEF KindFresh, Listed, Current
    <3> QED
      BY <3>2, <3>3
  <2>4. ASSUME NEW s \in Requests PROVE RequestFresh(s)'
    <3>1. RequestFresh(s) /\ doing[s] \in Kinds /\ owed[s] \in Nat
      BY RequestTypes DEF FreshInv
    <3>2. CASE doing[s] = m
      <4>1. pc[s] = "compile" => m \in missed'
        BY <2>2, <3>2 DEF Quiet, Module, Provider
      <4>2. owed[s] <= source'[m].version
        BY <2>1, <2>2, <3>1, <3>2 DEF RequestFresh
      <4> QED
        BY <1>0, <2>1, <2>2, <3>1, <3>2, <4>1, <4>2 DEF RequestFresh, Fits, WillFit
    <3>3. CASE doing[s] # m
      BY <1>0, <2>1, <2>2, <3>1, <3>3 DEF RequestFresh, Fits, WillFit
    <3> QED
      BY <3>2, <3>3
  <2> QED
    BY <1>0, <2>3, <2>4 DEF FreshInv, MappedInv
<1>3. ASSUME NEW m \in Kinds, Install(m) PROVE FreshInv'
  <2>1. m \in Modules /\ source[m].version \in Nat /\ now \in Nat
        /\ UNCHANGED <<now, source, missed>>
    BY <1>3, KindTypes DEF Install, history
  <2>2. /\ object'[m].version = source[m].version /\ object'[m].mtime = now
        /\ \A k \in Kinds : k # m => object'[k] = object[k]
    BY <1>3, <2>1 DEF Install, TypeInv, Kinds, Modules
  <2>3. ASSUME NEW k \in Kinds PROVE KindFresh(k)'
    <3>1. KindFresh(k)
      BY DEF FreshInv
    <3>2. CASE k = m
      BY <1>0, <2>1, <2>2, <3>1, <3>2 DEF KindFresh, Listed, Current
    <3>3. CASE k # m
      BY <1>0, <2>1, <2>2, <3>1, <3>3 DEF KindFresh, Listed, Current
    <3> QED
      BY <3>2, <3>3
  <2>4. ASSUME NEW s \in Requests PROVE RequestFresh(s)'
    <3>1. RequestFresh(s) /\ doing[s] \in Kinds
      BY RequestTypes DEF FreshInv
    <3>2. doing[s] = m => WillFit(s)'
      BY <1>0, <2>1, <2>2, <3>1 DEF RequestFresh, WillFit
    <3>3. doing[s] # m => (WillFit(s) => WillFit(s)')
      BY <1>0, <2>1, <2>2, <3>1 DEF WillFit
    <3> QED
      BY <1>0, <2>1, <3>1, <3>2, <3>3 DEF RequestFresh, Fits
  <2> QED
    BY <1>0, <2>3, <2>4 DEF FreshInv, MappedInv
<1> QED
  BY <1>1, <1>2, <1>3 DEF Provider

\* Where no request loads a module, the entry on its list is complete.
LEMMA Complete ==
    ASSUME TypeInv, FreshInv, NEW r \in Requests, NEW k \in Kinds, modules[k] # <<>>,
           \A s \in Requests : pc[s] # "load"
    PROVE  modules[k][1].by = None
<1>1. modules[k][1] \in Entry /\ KindFresh(k)
  BY KindTypes DEF FreshInv
<1>2. modules[k][1].by \in Requests \cup {None}
  BY <1>1 DEF Entry
<1> QED
  BY <1>1, <1>2 DEF KindFresh

\* A request that finds its module old is the only one when it unloads it; one that
\* goes on with what there is has a module as new as the source, or is not owed one.
LEMMA FreshCheck ==
    ASSUME IsFiniteSet(Requests), TypeInv, CountInv, LockInv, FreshInv,
           route.update, ~route.app, NEW r \in Requests, CheckStale(r)
    PROVE  FreshInv'
<1> USE ConstantsAssumption
<1> PICK m \in Kinds : m = doing[r] /\ m = Module(r)
  BY DEF TypeInv, Module, Provider
<1> DEFINE recompile == object[m] = None \/ Outdated(m)
           newer == IsLoaded(m) /\ object[m].mtime > Head(modules[m]).modified
           stale == recompile \/ newer
           busy  == IsLoaded(m) /\ ~MayUnload
<1>1. /\ pc[r] = "prepare" /\ lock = None /\ UNCHANGED <<files, doing, missed>>
      /\ IF stale /\ IsLoaded(m) /\ ~busy THEN Unload(m) ELSE UNCHANGED <<modules, mapped>>
      /\ owed' = IF stale /\ busy THEN [owed EXCEPT ![r] = 0] ELSE owed
      /\ IF recompile /\ ~busy
         THEN pc' = [pc EXCEPT ![r] = "compile"]
              /\ built' = [built EXCEPT ![r] = source[m].version]
         ELSE pc' = [pc EXCEPT ![r] = "create"] /\ built' = built
  BY DEF CheckStale, GoTo, history
<1>2. /\ pc'[r] = IF recompile /\ ~busy THEN "compile" ELSE "create"
      /\ recompile /\ ~busy => built'[r] = source[m].version
      /\ owed'[r] = IF stale /\ busy THEN 0 ELSE owed[r]
      /\ \A s \in Requests : s # r =>
            pc'[s] = pc[s] /\ doing'[s] = doing[s] /\ owed'[s] = owed[s] /\ built'[s] = built[s]
  <2> HIDE DEF recompile, newer, busy
  <2> QED
    BY <1>1 DEF TypeInv
<1>3. \A s \in Requests : pc[s] \notin Guarded
  BY <1>1 DEF LockInv
<1>4. KindFresh(m) /\ RequestFresh(r) /\ owed[r] \in Nat /\ owed[r] <= source[m].version
  BY RequestTypes DEF FreshInv, RequestFresh
<1>5. ~recompile => /\ object[m] # None /\ source[m].mtime < object[m].mtime
                    /\ m \notin missed => object[m].version >= owed[r]
  BY <1>4, KindTypes DEF KindFresh, Current, Outdated
<1>6. CASE ~(stale /\ IsLoaded(m) /\ ~busy)
  <2>1. UNCHANGED <<modules, mapped>>
    BY <1>1, <1>6
  <2>2. CASE recompile /\ ~busy
    <3>1. modules[m] = <<>> /\ pc'[r] = "compile" /\ owed'[r] = owed[r]
      BY <1>2, <1>6, <2>2 DEF IsLoaded
    <3>2. RequestFresh(r)'
      BY <1>1, <1>2, <1>4, <2>1, <2>2, <3>1 DEF RequestFresh, files
    <3> QED
      BY <1>1, <1>2, <2>1, <3>2, FreshKept
  <2>3. CASE ~(recompile /\ ~busy)
    <3>1. owed'[r] <= source[m].version
      BY <1>2, <1>4, KindTypes
    <3>2. m \notin missed /\ mapped[m] # None => mapped[m].version >= owed'[r]
      <4>1. mapped[m] # None => /\ mapped[m].version \in Nat
                                /\ Current(mapped[m].version, modules[m][1].modified, m)
                                /\ modules[m] # <<>> /\ modules[m][1].modified \in Nat
        <5>1. mapped[m] \in Mapping \cup {None}
          BY KindTypes DEF FreshInv, MappedInv
        <5> QED
          BY <1>4, <5>1, KindTypes DEF KindFresh, Mapping, Listed
      <4>2. CASE stale /\ busy
        BY <1>2, <4>1, <4>2
      <4>3. CASE ~stale
        <5>1. mapped[m] # None => object[m].mtime <= modules[m][1].modified
          BY <1>5, <4>1, <4>3, KindTypes DEF IsLoaded
        <5> QED
          BY SMTT(40), <1>2, <1>4, <1>5, <4>1, <4>3, <5>1, KindTypes DEF Current
      <4> QED
        BY <1>6, <2>3, <4>2, <4>3
    <3>3. modules[m] = <<>> => ~stale
      BY <2>3, <1>6 DEF IsLoaded
    <3>4. RequestFresh(r)'
      <4>1. pc'[r] = "create"
        BY <1>2, <2>3
      <4>2. Fits(r)' /\ (modules'[m] = <<>> => WillFit(r)')
        BY <1>1, <1>2, <1>5, <2>1, <3>2, <3>3 DEF Fits, WillFit, files
      <4> QED
        BY <1>1, <2>1, <3>1, <4>1, <4>2 DEF RequestFresh, files
    <3> QED
      BY <1>1, <1>2, <2>1, <3>4, FreshKept
  <2> QED
    BY <2>2, <2>3
<1>7. CASE stale /\ IsLoaded(m) /\ ~busy
  <2>1. Unload(m) /\ MayUnload
    BY <1>1, <1>7
  <2>2. m \in Modules /\ modules[m] # <<>> /\ Tail(modules[m]) = <<>>
        /\ Head(modules[m]) = modules[m][1]
    <3>1. m \in Modules /\ modules[m] # <<>> /\ modules[m] \in Seq(Entry) /\ Len(modules[m]) <= 1
      BY <1>4, <1>7, KindTypes DEF KindFresh, IsLoaded
    <3> QED
      BY <3>1, OneEntry
  <2>3. modules'[m] = <<>> /\ \A k \in Kinds : k # m => modules'[k] = modules[k]
    BY <2>1, <2>2 DEF Unload, TypeInv, Kinds, Modules
  <2>4. mapped' = IF modules[m][1].loaded THEN [mapped EXCEPT ![m] = None] ELSE mapped
    BY <1>4, <2>1, <2>2 DEF Unload, KindFresh, Listed
  <2>5. /\ mapped'[m] = None /\ \A k \in Kinds : k # m => mapped'[k] = mapped[k]
        /\ MappedInv'
    <3>1. mapped[m] = None <=> ~modules[m][1].loaded
      BY <1>4, <2>2 DEF KindFresh, Listed
    <3> QED
      BY <2>2, <2>4, <3>1 DEF FreshInv, MappedInv, Kinds, Modules
  <2>6. KindFresh(m)'
    <3>1. Len(modules'[m]) <= 1 /\ ~Listed(m)'
      BY <2>3 DEF Listed
    <3> QED
      BY <1>1, <1>4, <2>3, <2>5, <3>1 DEF KindFresh, Current, files
  <2>7. RequestFresh(r)'
    <3>1. owed'[r] = owed[r]
      BY <1>2, <1>7
    <3>2. pc'[r] = "compile" => built'[r] = source[m].version
      BY <1>2
    <3>3. pc'[r] = "create" /\ m \notin missed => object[m].version >= owed[r]
      BY <1>2, <1>5, <1>7
    <3>4. pc'[r] \in {"compile", "create"}
      BY <1>2
    <3> QED
      BY <1>1, <1>4, <2>3, <2>5, <3>1, <3>2, <3>3, <3>4 DEF RequestFresh, Fits, WillFit, files
  <2>8. ASSUME NEW s \in Requests, s # r PROVE pc[s] = "idle"
    BY <1>1, <1>3, <2>1, <2>8, Alone DEF Guarded
  <2> QED
    BY ZenonT(40), <1>1, <1>2, <1>3, <2>3, <2>5, <2>6, <2>7, <2>8, FreshOwn
<1> QED
  BY <1>6, <1>7

\* A source has been compiled, and nobody else has the mutex.
LEMMA FreshCompile ==
    ASSUME TypeInv, LockInv, FreshInv, ~route.app, NEW r \in Requests, espCompile(r)
    PROVE  FreshInv'
<1> USE ConstantsAssumption
<1> PICK m \in Kinds : m = doing[r] /\ m = Module(r)
  BY DEF TypeInv, Module, Provider
<1>1. pc[r] = "compile" /\ UNCHANGED <<source, now, modules, mapped, doing, owed, missed>>
      /\ built' = [built EXCEPT ![r] = 0]
  BY DEF espCompile, service, history
<1>2. \A s \in Requests : s # r => built'[s] = built[s] /\ pc[s] \notin Guarded
  BY <1>1 DEF TypeInv, LockInv, Guarded
<1>3. /\ KindFresh(m) /\ RequestFresh(r) /\ modules[m] = <<>>
      /\ m \notin missed => built[r] = source[m].version
      /\ owed[r] \in Nat /\ owed[r] <= source[m].version
  BY ZenonT(40), <1>1, RequestTypes DEF FreshInv, RequestFresh
<1>4. CASE pc' = [pc EXCEPT ![r] = Return(r)] /\ UNCHANGED object
  <2>1. pc'[r] \in {"finish", "close"} /\ \A s \in Requests : s # r => pc'[s] = pc[s]
    BY <1>4 DEF TypeInv, Return
  <2>2. RequestFresh(r)'
    BY <1>1, <1>3, <2>1 DEF RequestFresh
  <2>3. UNCHANGED files
    BY <1>4 DEF espCompile, files
  <2> QED
    BY <1>1, <1>2, <2>1, <2>2, <2>3, FreshKept
<1>5. CASE /\ pc' = [pc EXCEPT ![r] = "create"]
           /\ object' = [object EXCEPT ![m] = [version |-> built[r], mtime |-> now]]
  <2>1. pc'[r] = "create" /\ \A s \in Requests : s # r => pc'[s] = pc[s]
    BY <1>5 DEF TypeInv
  <2>2. /\ m \notin missed => object'[m].version = source[m].version
        /\ object'[m].mtime = now
        /\ \A k \in Kinds : k # m => object'[k] = object[k]
    BY <1>3, <1>5, KindTypes DEF TypeInv
  <2>3. ASSUME NEW k \in Kinds PROVE KindFresh(k)'
    <3>1. KindFresh(k)
      BY DEF FreshInv
    <3>2. CASE k = m
      BY <1>1, <1>3, <2>2, <3>1, <3>2, KindTypes DEF KindFresh, Listed, Current
    <3>3. CASE k # m
      <4>1. modules[k] # <<>> => modules[k][1].by = None
        <5>1. \A s \in Requests : pc[s] # "load"
          BY <1>1, <1>2 DEF Guarded
        <5> QED
          BY <5>1, Complete
      <4> QED
        BY <1>1, <2>2, <3>1, <3>3, <4>1 DEF KindFresh, Listed, Current
    <3> QED
      BY <3>2, <3>3
  <2>4. RequestFresh(r)'
    BY <1>1, <1>3, <2>1, <2>2 DEF RequestFresh, Fits, WillFit, KindFresh, Listed
  <2>5. ASSUME NEW s \in Requests, s # r PROVE RequestFresh(s)'
    <3>1. RequestFresh(s) /\ pc'[s] \notin {"compile", "create", "load"} /\ pc'[s] = pc[s]
      BY <1>2, <2>1, <2>5 DEF FreshInv, Guarded
    <3> QED
      BY <1>1, <3>1 DEF RequestFresh, Fits
  <2> QED
    BY <1>1, <2>3, <2>4, <2>5 DEF FreshInv, MappedInv
<1> QED
  BY <1>4, <1>5 DEF espCompile, CompileFails, GoTo

\* A module that is not on the list is put there; no request is in code of it.
LEMMA FreshCreate ==
    ASSUME TypeInv, LockInv, FreshInv, ~route.app, NEW r \in Requests, mprCreateModule(r)
    PROVE  FreshInv'
<1> USE ConstantsAssumption
<1> PICK m \in Kinds : m = doing[r] /\ m = Module(r)
  BY DEF TypeInv, Module, Provider
<1>1. pc[r] = "create" /\ UNCHANGED <<files, mapped, doing, owed, built, missed>>
  BY DEF mprCreateModule, history
<1>2. \A s \in Requests : s # r => pc[s] \notin Guarded
  BY <1>1 DEF LockInv, Guarded
<1>3. KindFresh(m) /\ RequestFresh(r) /\ m \in Modules /\ modules[m] \in Seq(Entry) /\ MappedInv
  BY KindTypes DEF FreshInv
<1>4. CASE IsLoaded(m)
  <2>1. modules' = modules /\ pc' = [pc EXCEPT ![r] = "call"]
    BY <1>4 DEF mprCreateModule, GoTo
  <2>2. modules[m][1].by = None
    <3>1. \A s \in Requests : pc[s] # "load"
      BY <1>1, <1>2 DEF Guarded
    <3> QED
      BY <1>4, <3>1, Complete DEF IsLoaded
  <2>3. pc'[r] = "call" /\ \A s \in Requests : s # r => pc'[s] = pc[s]
    BY <2>1 DEF TypeInv
  <2>4. RequestFresh(r)'
    BY <1>1, <1>3, <1>4, <2>1, <2>2, <2>3 DEF RequestFresh, Fits, IsLoaded, files
  <2> QED
    BY <1>1, <2>1, <2>3, <2>4, FreshKept
<1>5. CASE ~IsLoaded(m)
  <2> DEFINE entry == [modified |-> 0, loaded |-> FALSE, by |-> r]
  <2>1. modules' = [modules EXCEPT ![m] = <<entry>>] /\ pc' = [pc EXCEPT ![r] = "load"]
    <3>1. modules' = [modules EXCEPT ![m] = Append(modules[m], entry)] /\ pc' = [pc EXCEPT ![r] = "load"]
      BY <1>5 DEF mprCreateModule, GoTo
    <3>2. modules[m] = <<>>
      BY <1>5 DEF IsLoaded
    <3> QED
      BY <3>1, <3>2
  <2>2. /\ modules'[m] = <<entry>> /\ \A k \in Kinds : k # m => modules'[k] = modules[k]
        /\ pc'[r] = "load" /\ \A s \in Requests : s # r => pc'[s] = pc[s]
    <3> HIDE DEF entry
    <3>1. modules'[m] = <<entry>> /\ \A k \in Kinds : k # m => modules'[k] = modules[k]
      BY <1>3, <2>1 DEF TypeInv, Kinds, Modules
    <3>2. pc'[r] = "load" /\ \A s \in Requests : s # r => pc'[s] = pc[s]
      BY <2>1 DEF TypeInv
    <3> QED
      BY <3>1, <3>2
  <2>3. /\ Len(modules'[m]) = 1 /\ modules'[m] # <<>>
        /\ modules'[m][1].by = r /\ ~modules'[m][1].loaded /\ modules'[m][1].modified = 0
    BY <2>2
  <2>4. mapped[m] = None
    BY <1>3, <1>5 DEF KindFresh, Listed, IsLoaded
  <2>5. KindFresh(m)'
    <3>1. ~Listed(m)' /\ 0 <= now /\ Len(modules'[m]) <= 1
      BY <2>3, KindTypes DEF Listed
    <3> QED
      BY <1>1, <1>3, <2>2, <2>3, <2>4, <3>1 DEF KindFresh, Current, files
  <2>6. RequestFresh(r)'
    BY <1>1, <1>3, <1>5, <2>2, <2>3 DEF RequestFresh, WillFit, IsLoaded, files
  <2>7. ASSUME NEW s \in Requests, pc[s] \in {"call", "run"} PROVE doing[s] # m
    BY <1>5, <2>7 DEF FreshInv, RequestFresh, IsLoaded
  <2>8. MappedInv'
    BY <1>1, <1>3 DEF MappedInv
  <2> QED
    BY <1>1, <1>2, <2>2, <2>5, <2>6, <2>7, <2>8, FreshOwn
<1> QED
  BY <1>4, <1>5

\* A module is loaded as its file is, or not at all; no request is in code of it.
LEMMA FreshLoad ==
    ASSUME TypeInv, LockInv, FreshInv, ~route.app, NEW r \in Requests, mprLoadModule(r)
    PROVE  FreshInv'
<1> USE ConstantsAssumption
<1> PICK m \in Kinds : m = doing[r] /\ m = Module(r)
  BY DEF TypeInv, Module, Provider
<1>1. pc[r] = "load" /\ UNCHANGED <<files, doing, owed, built, missed>>
  BY DEF mprLoadModule
<1>2. \A s \in Requests : s # r => pc[s] \notin Guarded
  BY <1>1 DEF LockInv, Guarded
<1>3. KindFresh(m) /\ RequestFresh(r) /\ m \in Modules /\ modules[m] \in Seq(Entry) /\ MappedInv
  BY KindTypes DEF FreshInv
<1>4. /\ modules[m] # <<>> /\ modules[m][1].by = r /\ Len(modules[m]) = 1
      /\ mapped[m] = None /\ WillFit(r)
  <2>1. /\ modules[m] # <<>> /\ modules[m][1].by = r /\ ~modules[m][1].loaded /\ WillFit(r)
        /\ Len(modules[m]) <= 1
    BY <1>1, <1>3 DEF RequestFresh, KindFresh
  <2>2. mapped[m] = None
    BY <1>3, <2>1 DEF KindFresh, Listed
  <2> QED
    BY <1>3, <2>1, <2>2, OneEntry
<1>5. \A s \in Requests : pc[s] \in {"call", "run"} => doing[s] # m
  BY <1>4 DEF FreshInv, RequestFresh
<1>6. PICK loaded \in BOOLEAN :
          SetEntry(r, loaded) /\ (loaded => Loads(r)) /\ (~loaded => LoadFails(r))
  BY DEF mprLoadModule, Loads, LoadFails
<1>7. /\ Len(modules'[m]) = 1 /\ modules'[m] # <<>>
      /\ modules'[m][1] = [modified |-> IF object[m] = None THEN 0 ELSE object[m].mtime,
                           loaded |-> loaded, by |-> None]
      /\ \A k \in Kinds : k # m => modules'[k] = modules[k]
  BY <1>3, <1>4, <1>6, EntrySet, KindTypes
<1>8. /\ modules'[m][1].by = None
      /\ object[m] # None => modules'[m][1].modified = object[m].mtime
      /\ modules'[m][1].modified <= now
      /\ Listed(m)' <=> loaded
  BY <1>3, <1>7, KindTypes DEF KindFresh, Listed
<1>9. CASE ~loaded
  <2>1. mapped' = mapped /\ pc' = [pc EXCEPT ![r] = Return(r)]
    BY <1>6, <1>9 DEF LoadFails, GoTo
  <2>2. pc'[r] \in {"finish", "close"} /\ \A s \in Requests : s # r => pc'[s] = pc[s]
    BY <2>1 DEF TypeInv, Return
  <2>3. KindFresh(m)'
    BY <1>1, <1>3, <1>4, <1>7, <1>8, <1>9, <2>1 DEF KindFresh, Current, files
  <2>4. RequestFresh(r)' /\ MappedInv'
    BY <1>1, <1>3, <2>1, <2>2 DEF RequestFresh, MappedInv, files
  <2> QED
    BY <1>1, <1>2, <1>5, <1>7, <2>1, <2>2, <2>3, <2>4, FreshOwn
<1>10. CASE loaded
  <2>1. object[m] # None /\ pc' = [pc EXCEPT ![r] = "call"] /\ MappedInv'
        /\ \A k \in Kinds : k # m => mapped'[k] = mapped[k]
    BY ZenonT(40), <1>3, <1>6, <1>10, LoadMaps, KindTypes DEF Loads, GoTo
  <2>2. mapped'[m] = [version |-> object[m].version, refs |-> 1]
    BY <1>3, <1>4, <1>6, <1>10 DEF Loads, MappedInv
  <2>3. pc'[r] = "call" /\ \A s \in Requests : s # r => pc'[s] = pc[s]
    BY <2>1 DEF TypeInv
  <2>4. mapped'[m] # None
    <3>1. mapped'[m] \in Mapping /\ None \notin Mapping
      BY <2>2, <2>1, KindTypes DEF Mapping
    <3> QED
      BY <3>1
  <2>5. KindFresh(m)'
    <3>1. mapped'[m].version = object[m].version /\ mapped'[m].refs = 1
      BY <2>2
    <3>2. Current(object[m].version, object[m].mtime, m)
      BY <1>3, <2>1 DEF KindFresh
    <3> QED
      BY <1>1, <1>3, <1>7, <1>8, <1>10, <2>1, <2>4, <3>1, <3>2 DEF KindFresh, Current, files
  <2>6. RequestFresh(r)'
    <3>1. m \notin missed => mapped'[m].version >= owed[r]
      BY <1>4, <2>1, <2>2 DEF WillFit
    <3> QED
      BY <1>1, <1>3, <1>7, <1>8, <2>3, <3>1 DEF RequestFresh, Fits, files
  <2> QED
    BY <1>1, <1>2, <1>5, <1>7, <2>1, <2>3, <2>5, <2>6, FreshOwn
<1> QED
  BY <1>9, <1>10

\* With updates of controllers and views, every step keeps what times tell.
LEMMA FreshStep ==
    ASSUME IsFiniteSet(Requests), TypeInv, CountInv, LockInv, FreshInv,
           route.update, ~route.app, Next
    PROVE  FreshInv'
<1>1. CASE Tick \/ \E k \in Kinds : Edit(Provider(k)) \/ Install(Provider(k))
  BY <1>1, FreshFiles

\* A step of r that leaves the files and the modules alone, and r not in need of them.
<1>2. ASSUME NEW r \in Requests, pc[r] # "load", UNCHANGED <<files, mapped, modules, missed>>,
             NEW at \in Places \ {"compile", "create", "load", "call", "run"}, pc' = [pc EXCEPT ![r] = at],
             NEW k \in Kinds, doing' = [doing EXCEPT ![r] = k],
             NEW v \in Nat, owed' = [owed EXCEPT ![r] = v], v <= source[k].version,
             UNCHANGED built
      PROVE  FreshInv'
  <2>1. /\ pc'[r] = at /\ doing'[r] = k /\ owed'[r] = v
        /\ \A s \in Requests : s # r => pc'[s] = pc[s] /\ doing'[s] = doing[s] /\ owed'[s] = owed[s]
    BY <1>2 DEF TypeInv
  <2>2. RequestFresh(r)'
    BY <1>2, <2>1 DEF RequestFresh, files
  <2> QED
    BY <1>2, <2>1, <2>2, FreshKept
<1>3. ASSUME NEW r \in Requests
      PROVE  /\ doing[r] \in Kinds /\ doing = [doing EXCEPT ![r] = doing[r]]
             /\ owed[r] \in Nat /\ owed = [owed EXCEPT ![r] = owed[r]]
             /\ owed[r] <= source[doing[r]].version
             /\ Return(r) \in Places \ {"compile", "create", "load", "call", "run"}
  BY DEF TypeInv, Return, Places, FreshInv, RequestFresh
<1>4. ASSUME NEW k \in Kinds
      PROVE  /\ Latest(k) = source[k].version
             /\ source[k].version \in Nat /\ 0 \in Nat /\ 0 <= source[k].version
  BY KindTypes DEF Latest
<1>5. {"prepare", "close", "idle", "stuck"} \subseteq Places \ {"compile", "create", "load", "call", "run"}
  BY DEF Places
<1>6. ASSUME NEW r \in Requests, pc[r] # "load", UNCHANGED <<files, mapped, modules, missed, built>>,
             NEW k \in Kinds, Begin(r, k)
      PROVE  FreshInv'
  <2>1. /\ pc' = [pc EXCEPT ![r] = "prepare"] /\ doing' = [doing EXCEPT ![r] = k]
        /\ owed' = [owed EXCEPT ![r] = source[k].version]
    BY <1>4, <1>6 DEF Begin, GoTo
  <2>2. source[k].version <= source[k].version
    BY <1>4, <1>6
  <2> QED
    BY <1>2, <1>4, <1>5, <1>6, <2>1, <2>2
<1>7. ASSUME NEW r \in Requests, openEsp(r) PROVE FreshInv'
  <2>1. pc[r] # "load" /\ UNCHANGED <<files, mapped, modules, missed, built>>
    BY <1>7 DEF openEsp, service, history
  <2>2. CASE GoTo(r, "close") /\ UNCHANGED <<doing, owed>>
    BY <1>2, <1>3, <1>5, <2>1, <2>2 DEF GoTo
  <2> QED
    BY <1>6, <1>7, <2>1, <2>2 DEF openEsp
<1>8. ASSUME NEW r \in Requests, closeEsp(r) PROVE FreshInv'
  <2>1. pc[r] # "load" /\ UNCHANGED <<files, mapped, modules, missed, built>>
    BY <1>8 DEF closeEsp, service, history
  <2>2. /\ pc' = [pc EXCEPT ![r] = "idle"] /\ doing' = [doing EXCEPT ![r] = "action"]
        /\ owed' = [owed EXCEPT ![r] = 0]
    BY <1>8 DEF closeEsp, GoTo
  <2>3. "action" \in Kinds
    BY DEF Kinds
  <2> QED
    BY <1>2, <1>4, <1>5, <2>1, <2>2, <2>3
<1>9. ASSUME NEW r \in Requests, Call(r) PROVE FreshInv'
  <2>1. pc[r] = "call" /\ UNCHANGED <<files, mapped, modules, missed, built>>
    BY <1>9 DEF Call, service, history
  <2>2. CASE GoTo(r, "run") /\ UNCHANGED <<doing, owed>>
    <3>1. pc'[r] = "run" /\ \A s \in Requests : s # r => pc'[s] = pc[s]
      BY <2>2 DEF GoTo, TypeInv
    <3>2. RequestFresh(r)'
      BY <2>1, <2>2, <3>1 DEF FreshInv, RequestFresh, Fits, files
    <3> QED
      BY <2>1, <2>2, <3>1, <3>2, FreshKept
  <2>3. CASE GoTo(r, Return(r)) /\ UNCHANGED <<doing, owed>>
    BY <1>2, <1>3, <2>1, <2>3 DEF GoTo
  <2>4. CASE Begin(r, "view")
    BY <1>6, <2>1, <2>4 DEF Kinds
  <2> QED
    BY <1>9, <2>2, <2>3, <2>4 DEF Call
<1>10. ASSUME NEW r \in Requests, RunAction(r) PROVE FreshInv'
  <2>1. pc[r] = "run" /\ UNCHANGED <<files, mapped, modules, missed, built>>
    BY <1>10 DEF RunAction, service, history
  <2>2. CASE GoTo(r, "close") /\ owed' = [owed EXCEPT ![r] = 0] /\ UNCHANGED doing
    BY <1>2, <1>3, <1>4, <1>5, <2>1, <2>2 DEF GoTo
  <2>3. CASE Begin(r, "view")
    BY <1>6, <2>1, <2>3 DEF Kinds
  <2> QED
    BY <1>10, <2>2, <2>3 DEF RunAction
<1>11. ASSUME NEW r \in Requests, RunView(r) PROVE FreshInv'
  <2>1. pc[r] = "run" /\ UNCHANGED <<files, mapped, modules, missed, built, doing>>
        /\ pc' = [pc EXCEPT ![r] = Return(r)] /\ owed' = [owed EXCEPT ![r] = 0]
    BY <1>11 DEF RunView, service, history, GoTo
  <2> QED
    BY <1>2, <1>3, <1>4, <2>1
<1>12. ASSUME NEW r \in Requests, Finish(r) PROVE FreshInv'
  <2>1. pc[r] = "finish" /\ UNCHANGED <<files, mapped, modules, missed, built, doing, owed>>
        /\ pc' = [pc EXCEPT ![r] = "close"]
    BY <1>12 DEF Finish, service, history, GoTo
  <2> QED
    BY <1>2, <1>3, <1>5, <2>1
<1>13. ASSUME NEW r \in Requests, Works(r) PROVE FreshInv'
  BY <1>8, <1>9, <1>10, <1>11, <1>12, <1>13, FreshCheck, FreshCompile, FreshCreate, FreshLoad
     DEF Works, Prepared, loadApp
<1>14. ASSUME NEW r \in Requests, connTimeout(r) PROVE FreshInv'
  <2>1. pc[r] = "compile" /\ UNCHANGED <<files, mapped, modules, missed, built, doing, owed>>
        /\ pc' = [pc EXCEPT ![r] = "stuck"]
    BY <1>14 DEF connTimeout, service, history, GoTo
  <2> QED
    BY <1>2, <1>3, <1>5, <2>1
<1> QED
  BY <1>1, <1>7, <1>13, <1>14 DEF Next
-----------------------------------------------------------------------------
(* Other routes owe no version, but what they load must have one.  Only an    *)
(* application is loaded more than once: then dlopen counts.                  *)

\* The entries of a list that hold a reference of what is mapped.
LoadedAt(list) == {i \in DOMAIN list : list[i].loaded}

References == IF mapped["app"] = None THEN 0 ELSE mapped["app"].refs

\* Every request that loads the application has one entry on the list, not loaded.
AppInv ==
    LET list == modules["app"] IN
    /\ Cardinality(LoadedAt(list)) = References
    /\ \A i \in DOMAIN list :
          list[i].by # None => pc[list[i].by] = "load" /\ ~list[i].loaded
    /\ \A r \in Requests : pc[r] = "load" =>
          \E i \in DOMAIN list : list[i].by = r /\ \A j \in DOMAIN list : list[j].by = r => j = i

OwesNothing == \A r \in Requests : owed[r] = 0

Updates == route.update /\ ~route.app

VersionInv ==
    /\ TypeInv /\ CountInv /\ LockInv /\ MappedInv
    /\ Updates => FreshInv
    /\ ~Updates => OwesNothing
    /\ route.app => AppInv

\* An application, or a route without updates, owes a request no version.
LEMMA OwedStep ==
    ASSUME TypeInv, ~Updates, OwesNothing, Next
    PROVE  OwesNothing'
<1>1. \A k \in Kinds : Latest(k) = 0
  BY DEF Latest, Updates
<1>2. ASSUME NEW r \in Requests, owed' = [owed EXCEPT ![r] = 0] PROVE OwesNothing'
  BY <1>2 DEF OwesNothing, TypeInv
<1>3. ASSUME owed' = owed PROVE OwesNothing'
  BY <1>3 DEF OwesNothing
<1>4. ASSUME NEW r \in Requests, NEW k \in Kinds, Begin(r, k) PROVE OwesNothing'
  BY <1>1, <1>2, <1>4 DEF Begin
<1>5. CASE Tick \/ \E k \in Kinds : Edit(Provider(k)) \/ Install(Provider(k))
  BY <1>3, <1>5 DEF Tick, Edit, Install
<1>6. ASSUME NEW r \in Requests, openEsp(r) PROVE OwesNothing'
  BY <1>3, <1>4, <1>6 DEF openEsp
<1>7. ASSUME NEW r \in Requests, Call(r) \/ RunAction(r) PROVE OwesNothing'
  <2>1. owed' = owed \/ owed' = [owed EXCEPT ![r] = 0] \/ Begin(r, "view")
    BY <1>7 DEF Call, RunAction
  <2> QED
    BY <1>2, <1>3, <1>4, <2>1 DEF Kinds
<1>8. ASSUME NEW r \in Requests,
             \/ connTimeout(r) \/ Prepared(r) \/ CheckStale(r) \/ espCompile(r) \/ loadApp(r)
             \/ mprCreateModule(r) \/ mprLoadModule(r) \/ RunView(r) \/ Finish(r) \/ closeEsp(r)
      PROVE  OwesNothing'
  <2>1. owed' = owed \/ owed' = [owed EXCEPT ![r] = 0]
    BY <1>8 DEF connTimeout, Prepared, CheckStale, espCompile, loadApp, mprCreateModule, mprLoadModule,
                RunView, Finish, closeEsp
  <2> QED
    BY <1>2, <1>3, <2>1
<1> QED
  BY <1>5, <1>6, <1>7, <1>8 DEF Next, Works

\* The length of a list is a number, its positions hold entries.
LEMMA EntryTypes ==
    ASSUME NEW list \in Seq(Entry)
    PROVE  /\ Len(list) \in Nat /\ DOMAIN list = 1 .. Len(list)
           /\ \A i \in DOMAIN list : list[i] \in Entry /\ list[i].loaded \in BOOLEAN
                                     /\ list[i].by \in Requests \cup {None}
           /\ IsFiniteSet(LoadedAt(list)) /\ Cardinality(LoadedAt(list)) \in Nat
<1>1. Len(list) \in Nat /\ DOMAIN list = 1 .. Len(list)
  OBVIOUS
<1>2. \A i \in DOMAIN list : list[i] \in Entry
  BY <1>1, ElementOfSeq
<1>3. \A e \in Entry : e.loaded \in BOOLEAN /\ e.by \in Requests \cup {None}
  BY DEF Entry
<1>4. IsFiniteSet(DOMAIN list)
  BY <1>1, FS_Interval
<1>5. IsFiniteSet(LoadedAt(list))
  BY <1>4, FS_Subset DEF LoadedAt
<1>6. Cardinality(LoadedAt(list)) \in Nat
  BY <1>5, FS_CardinalityType
<1> QED
  BY <1>1, <1>2, <1>3, <1>5, <1>6

\* Without its head, a list has as many loaded entries as it had behind the head.
LEMMA LoadedTail ==
    ASSUME NEW list \in Seq(Entry), list # <<>>
    PROVE  Cardinality(LoadedAt(Tail(list))) =
               Cardinality(LoadedAt(list)) - IF Head(list).loaded THEN 1 ELSE 0
<1> DEFINE tail == Tail(list)
           rest == LoadedAt(list) \ {1}
           next == [i \in LoadedAt(tail) |-> i + 1]
<1>1. /\ tail \in Seq(Entry) /\ Len(tail) = Len(list) - 1 /\ Len(list) \in Nat
      /\ DOMAIN tail = 1 .. Len(tail) /\ DOMAIN list = 1 .. Len(list)
      /\ \A i \in 1 .. Len(tail) : tail[i] = list[i + 1]
  BY HeadTailProperties, EntryTypes
<1>2. Len(list) >= 1 /\ 1 \in DOMAIN list /\ Head(list) = list[1]
  <2>1. Len(list) # 0
    BY EmptySeq
  <2> QED
    BY <1>1, <2>1
<1>3. \A i : i \in LoadedAt(tail) <=> i \in Nat \ {0} /\ i + 1 \in rest
  <2> HIDE DEF tail
  <2> QED
    BY <1>1, <1>2 DEF LoadedAt
<1>4. \A j \in rest : j \in Nat /\ j - 1 \in LoadedAt(tail)
  <2>1. \A j \in rest : j \in Nat /\ j >= 2
    BY <1>1 DEF LoadedAt
  <2> QED
    BY <1>3, <2>1
<1>5. ExistsBijection(LoadedAt(tail), rest)
  <2> HIDE DEF tail, rest
  <2>1. next \in [LoadedAt(tail) -> rest]
    BY <1>3
  <2>2. IsInjective(next)
    BY <1>3 DEF IsInjective
  <2>3. \A j \in rest : \E i \in LoadedAt(tail) : next[i] = j
    <3> TAKE j \in rest
    <3>1. j - 1 \in LoadedAt(tail) /\ next[j - 1] = j
      BY <1>4
    <3> QED
      BY <3>1
  <2> HIDE DEF next
  <2> QED
    BY <2>1, <2>2, <2>3 DEF ExistsBijection, Bijection, Injection, Surjection
<1>6. IsFiniteSet(LoadedAt(tail)) /\ Cardinality(LoadedAt(tail)) = Cardinality(rest)
  <2>1. IsFiniteSet(LoadedAt(tail))
    BY <1>1, EntryTypes
  <2> QED
    BY <1>5, <2>1, FS_Bijection
<1>7. IsFiniteSet(LoadedAt(list)) /\ Cardinality(LoadedAt(list)) \in Nat
  BY EntryTypes
<1>8. Cardinality(rest) = IF 1 \in LoadedAt(list) THEN Cardinality(LoadedAt(list)) - 1
                                                  ELSE Cardinality(LoadedAt(list))
  BY <1>7, FS_RemoveElement
<1>9. 1 \in LoadedAt(list) <=> Head(list).loaded
  BY <1>2 DEF LoadedAt
<1> QED
  BY <1>6, <1>7, <1>8, <1>9

\* A step that leaves the modules alone, with the same requests loading.
LEMMA AppKept ==
    ASSUME TypeInv, AppInv, UNCHANGED <<mapped, modules>>,
           \A s \in Requests : pc'[s] = "load" <=> pc[s] = "load"
    PROVE  AppInv'
<1> DEFINE list == modules["app"]
<1>1. list \in Seq(Entry)
  BY DEF TypeInv, Modules
<1>2. \A i \in DOMAIN list : list[i].by \in Requests \cup {None}
  BY <1>1, EntryTypes
<1>3. References' = References
  BY DEF References
<1> QED
  BY <1>2, <1>3 DEF AppInv

\* dlclose is called once for each entry that holds a reference.
LEMMA AppUnload ==
    ASSUME IsFiniteSet(Requests), TypeInv, CountInv, MappedInv, AppInv, NEW r \in Requests,
           pc[r] = "prepare", MayUnload, modules["app"] # <<>>, Unload("app"),
           pc' = [pc EXCEPT ![r] = "create"]
    PROVE  MappedInv' /\ AppInv'
<1> USE ConstantsAssumption
<1> DEFINE list == modules["app"]
<1>1. "app" \in Modules /\ list \in Seq(Entry)
  BY DEF TypeInv, Modules
<1>2. modules'["app"] = Tail(list)
  BY <1>1 DEF Unload, TypeInv
<1>3. /\ Len(Tail(list)) = Len(list) - 1 /\ Len(list) \in Nat
      /\ Tail(list) \in Seq(Entry) /\ DOMAIN Tail(list) = 1 .. Len(Tail(list))
      /\ DOMAIN list = 1 .. Len(list)
      /\ \A i \in 1 .. Len(Tail(list)) : Tail(list)[i] = list[i + 1]
  BY <1>1, HeadTailProperties, EntryTypes
<1>4. \A s \in Requests : pc[s] # "load" /\ pc'[s] # "load"
  BY Alone DEF TypeInv
<1>5. \A i \in DOMAIN list : list[i].by = None
  <2>1. \A i \in DOMAIN list : list[i].by \in Requests \cup {None}
    BY <1>1, EntryTypes
  <2> QED
    BY <1>4, <2>1 DEF AppInv
<1>6. \A i \in DOMAIN Tail(list) : Tail(list)[i].by = None
  BY <1>3, <1>5
<1>7. /\ Cardinality(LoadedAt(list)) = References /\ References \in Nat
      /\ Cardinality(LoadedAt(Tail(list))) = References - IF Head(list).loaded THEN 1 ELSE 0
      /\ Cardinality(LoadedAt(Tail(list))) \in Nat
  <2>1. Cardinality(LoadedAt(list)) = References
    BY DEF AppInv
  <2> QED
    BY <1>1, <1>3, <2>1, EntryTypes, LoadedTail
<1>8. mapped["app"] \in Mapping \cup {None} /\ None \notin Mapping
  BY <1>1 DEF MappedInv, Mapping
<1>9. MappedInv' /\ References' = References - IF Head(list).loaded THEN 1 ELSE 0
  <2>1. CASE ~Head(list).loaded
    <3>1. mapped' = mapped
      BY <2>1 DEF Unload
    <3> QED
      BY <1>7, <2>1, <3>1 DEF MappedInv, References
  <2>2. CASE Head(list).loaded /\ mapped["app"].refs = 1
    <3>1. mapped' = [mapped EXCEPT !["app"] = None]
      BY <2>2 DEF Unload
    <3>2. mapped["app"] # None
      BY <1>7, <2>2 DEF References
    <3> QED
      BY <1>1, <2>2, <3>1, <3>2 DEF MappedInv, References
  <2>3. CASE Head(list).loaded /\ mapped["app"].refs # 1
    <3>1. mapped["app"] # None
      BY <1>7, <2>3 DEF References
    <3> DEFINE less == [mapped["app"] EXCEPT !.refs = mapped["app"].refs - 1]
    <3>2. less \in Mapping /\ less.refs = mapped["app"].refs - 1
      BY <1>8, <2>3, <3>1 DEF Mapping
    <3>3. mapped' = [mapped EXCEPT !["app"] = less]
      BY <2>3 DEF Unload
    <3> HIDE DEF less
    <3>4. mapped'["app"] = less /\ MappedInv' /\ less # None
      BY <1>1, <1>8, <3>2, <3>3 DEF MappedInv
    <3> QED
      BY <2>3, <3>1, <3>2, <3>4 DEF References
  <2> QED
    BY <2>1, <2>2, <2>3
<1>10. AppInv'
  <2> HIDE DEF list
  <2>1. Cardinality(LoadedAt(modules'["app"])) = References'
    BY <1>2, <1>7, <1>9
  <2> QED
    BY <1>2, <1>4, <1>6, <2>1 DEF AppInv
<1> QED
  BY <1>9, <1>10

\* A module is put on the list, before it is loaded.
LEMMA AppCreate ==
    ASSUME TypeInv, AppInv, route.app, NEW r \in Requests, mprCreateModule(r)
    PROVE  AppInv'
<1> USE ConstantsAssumption
<1> DEFINE list == modules["app"]
           entry == [modified |-> 0, loaded |-> FALSE, by |-> r]
           longer == Append(list, entry)
<1>1. "app" \in Modules /\ list \in Seq(Entry) /\ Len(list) \in Nat /\ DOMAIN list = 1 .. Len(list)
  BY EntryTypes DEF TypeInv, Modules
<1>2. /\ modules' = [modules EXCEPT !["app"] = longer]
      /\ pc[r] = "create" /\ pc' = [pc EXCEPT ![r] = "load"] /\ mapped' = mapped
  BY DEF mprCreateModule, Module, Provider, GoTo
<1>3. modules'["app"] = longer /\ pc'[r] = "load" /\ \A s \in Requests : s # r => pc'[s] = pc[s]
  <2> HIDE DEF longer
  <2> QED
    BY <1>1, <1>2 DEF TypeInv
<1>4. entry \in Entry /\ entry.by = r /\ ~entry.loaded
  BY DEF Entry
<1>5. /\ DOMAIN longer = 1 .. (Len(list) + 1) /\ longer[Len(list) + 1] = entry
      /\ \A i \in DOMAIN list : longer[i] = list[i]
  <2> HIDE DEF entry
  <2> QED
    BY <1>1, <1>4, AppendProperties, EntryTypes
<1>6. \A i \in DOMAIN list : list[i].by \in Requests \cup {None} /\ list[i].by # r
  BY <1>1, <1>2, EntryTypes DEF AppInv
<1> HIDE DEF entry, longer
<1>7. LoadedAt(longer) = LoadedAt(list)
  BY <1>1, <1>4, <1>5 DEF LoadedAt
<1>8. ASSUME NEW i \in DOMAIN longer, longer[i].by # None
      PROVE  pc'[longer[i].by] = "load" /\ ~longer[i].loaded
  <2>1. CASE i \in DOMAIN list
    BY <1>3, <1>5, <1>6, <1>8, <2>1 DEF AppInv
  <2>2. CASE i = Len(list) + 1
    BY <1>3, <1>4, <1>5, <2>2
  <2> QED
    BY <1>1, <1>5, <2>1, <2>2
<1>9. ASSUME NEW s \in Requests, pc'[s] = "load"
      PROVE  \E i \in DOMAIN longer : longer[i].by = s /\ \A j \in DOMAIN longer : longer[j].by = s => j = i
  <2>1. CASE s = r
    <3>1. Len(list) + 1 \in DOMAIN longer /\ longer[Len(list) + 1].by = r
      BY <1>1, <1>4, <1>5
    <3>2. ASSUME NEW j \in DOMAIN longer, longer[j].by = r PROVE j = Len(list) + 1
      BY <1>1, <1>5, <1>6, <3>2
    <3> QED
      BY <2>1, <3>1, <3>2
  <2>2. CASE s # r
    <3>1. pc[s] = "load"
      BY <1>3, <1>9, <2>2
    <3>2. PICK i \in DOMAIN list : list[i].by = s /\ \A j \in DOMAIN list : list[j].by = s => j = i
      BY <3>1 DEF AppInv
    <3>3. i \in DOMAIN longer /\ longer[i].by = s
      BY <1>1, <1>5, <3>2
    <3>4. ASSUME NEW j \in DOMAIN longer, longer[j].by = s PROVE j = i
      BY SMTT(40), <1>1, <1>4, <1>5, <2>2, <3>2, <3>4
    <3> QED
      BY <3>3, <3>4
  <2> QED
    BY <2>1, <2>2
<1>10. Cardinality(LoadedAt(longer)) = References'
  BY <1>2, <1>7 DEF AppInv, References
<1> QED
  BY <1>3, <1>8, <1>9, <1>10 DEF AppInv

\* The entry of a request holds a reference after it has loaded the application.
LEMMA AppLoad ==
    ASSUME TypeInv, MappedInv, AppInv, route.app, NEW r \in Requests, mprLoadModule(r)
    PROVE  AppInv'
<1> USE ConstantsAssumption
<1> DEFINE list == modules["app"]
<1>1. "app" \in Modules /\ list \in Seq(Entry) /\ Module(r) = "app" /\ pc[r] = "load"
  BY DEF TypeInv, Modules, Module, Provider, mprLoadModule
<1>2. PICK loaded \in BOOLEAN :
          SetEntry(r, loaded) /\ (loaded => Loads(r)) /\ (~loaded => LoadFails(r))
  BY DEF mprLoadModule, Loads, LoadFails
<1> DEFINE done == [modified |-> IF object["app"] = None THEN 0 ELSE object["app"].mtime,
                    loaded |-> loaded, by |-> None]
           after == [i \in DOMAIN list |-> IF list[i].by # r THEN list[i] ELSE done]
<1>3. modules'["app"] = after
  <2>1. modules' = [modules EXCEPT !["app"] = after]
    BY <1>1, <1>2 DEF SetEntry
  <2> HIDE DEF after
  <2> QED
    BY <1>1, <2>1 DEF TypeInv
<1>4. done.loaded = loaded /\ done.by = None
  OBVIOUS
<1>5. PICK p \in DOMAIN list : list[p].by = r /\ \A j \in DOMAIN list : list[j].by = r => j = p
  BY <1>1 DEF AppInv
<1> HIDE DEF done
<1>6. /\ DOMAIN after = DOMAIN list /\ after[p] = done
      /\ \A i \in DOMAIN list : i # p => after[i] = list[i] /\ list[i].by # r
  BY <1>5
<1> HIDE DEF after
<1>7. ~list[p].loaded /\ \A i \in DOMAIN list : list[i].loaded \in BOOLEAN
                                               /\ list[i].by \in Requests \cup {None}
  BY <1>1, <1>5, EntryTypes DEF AppInv
<1>8. LoadedAt(after) = IF loaded THEN LoadedAt(list) \cup {p} ELSE LoadedAt(list)
  BY <1>4, <1>6, <1>7 DEF LoadedAt
<1>9. p \notin LoadedAt(list) /\ IsFiniteSet(LoadedAt(list)) /\ Cardinality(LoadedAt(list)) = References
  BY <1>1, <1>7, EntryTypes DEF LoadedAt, AppInv
<1>10. Cardinality(LoadedAt(after)) = References'
  <2>1. CASE loaded
    <3>1. Cardinality(LoadedAt(after)) = References + 1
      BY <1>8, <1>9, <2>1, FS_AddElement
    <3>2. References' = References + 1
      <4>1. mapped'["app"] # None
        BY <1>1, <1>2, <2>1, LoadMaps
      <4>2. mapped'["app"].refs = IF mapped["app"] # None THEN mapped["app"].refs + 1 ELSE 1
        BY <1>1, <1>2, <2>1 DEF Loads, MappedInv
      <4> QED
        BY <4>1, <4>2 DEF References
    <3> QED
      BY <3>1, <3>2
  <2>2. CASE ~loaded
    BY <1>2, <1>8, <1>9, <2>2 DEF LoadFails, References
  <2> QED
    BY <2>1, <2>2
<1>11. /\ pc'[r] # "load" /\ \A s \in Requests : s # r => pc'[s] = pc[s]
  <2>1. pc' = [pc EXCEPT ![r] = "call"] \/ pc' = [pc EXCEPT ![r] = Return(r)]
    BY <1>2 DEF Loads, LoadFails, GoTo
  <2> QED
    BY <2>1 DEF TypeInv, Return
<1>12. ASSUME NEW i \in DOMAIN after, after[i].by # None
       PROVE  pc'[after[i].by] = "load" /\ ~after[i].loaded
  BY <1>4, <1>6, <1>7, <1>11, <1>12 DEF AppInv
<1>13. ASSUME NEW s \in Requests, pc'[s] = "load"
       PROVE  \E i \in DOMAIN after : after[i].by = s /\ \A j \in DOMAIN after : after[j].by = s => j = i
  <2>1. s # r /\ pc[s] = "load"
    BY <1>11, <1>13
  <2>2. PICK i \in DOMAIN list : list[i].by = s /\ \A j \in DOMAIN list : list[j].by = s => j = i
    BY <2>1 DEF AppInv
  <2>3. i # p
    BY <1>5, <2>1, <2>2
  <2>4. ASSUME NEW j \in DOMAIN after, after[j].by = s PROVE j = i
    BY <1>4, <1>6, <2>2, <2>4
  <2> QED
    BY <1>6, <2>2, <2>3, <2>4
<1> QED
  BY <1>3, <1>10, <1>12, <1>13 DEF AppInv

\* Every step but one of a route that asks for updates keeps what is mapped counted.
LEMMA OtherStep ==
    ASSUME IsFiniteSet(Requests), TypeInv, CountInv, MappedInv, ~Updates, route.app => AppInv, Next
    PROVE  MappedInv' /\ (route.app => AppInv')
<1>1. ASSUME UNCHANGED <<mapped, modules>>,
             \A s \in Requests : pc'[s] = "load" <=> pc[s] = "load"
      PROVE  MappedInv' /\ (route.app => AppInv')
  BY <1>1, AppKept DEF MappedInv
<1>2. ASSUME NEW r \in Requests, UNCHANGED <<mapped, modules>>, pc[r] # "load",
             NEW at \in Places \ {"load"}, pc' = [pc EXCEPT ![r] = at]
      PROVE  MappedInv' /\ (route.app => AppInv')
  <2>1. \A s \in Requests : pc'[s] = "load" <=> pc[s] = "load"
    BY <1>2 DEF TypeInv
  <2> QED
    BY <1>1, <1>2, <2>1
<1>3. CASE Tick \/ \E k \in Kinds : Edit(Provider(k)) \/ Install(Provider(k))
  BY <1>1, <1>3 DEF Tick, Edit, Install, service
<1>4. ASSUME NEW r \in Requests,
             \/ openEsp(r) \/ connTimeout(r) \/ Prepared(r) \/ espCompile(r) \/ Call(r)
             \/ RunAction(r) \/ RunView(r) \/ Finish(r) \/ closeEsp(r)
      PROVE  MappedInv' /\ (route.app => AppInv')
  <2>1. pc[r] # "load" /\ UNCHANGED <<mapped, modules>>
    BY <1>4 DEF openEsp, connTimeout, Prepared, espCompile, Call, RunAction, RunView, Finish, closeEsp,
                service
  <2>2. \E at \in Places \ {"load"} : pc' = [pc EXCEPT ![r] = at]
    BY <1>4 DEF openEsp, connTimeout, Prepared, espCompile, CompileFails, Call, RunAction, RunView,
                Finish, closeEsp, Begin, GoTo, Return, Places
  <2> QED
    BY <1>2, <2>1, <2>2
<1>5. ASSUME NEW r \in Requests, CheckStale(r) PROVE MappedInv' /\ (route.app => AppInv')
  <2>1. ~route.update
    BY <1>5 DEF CheckStale, Updates
  <2>2. pc[r] # "load" /\ UNCHANGED <<mapped, modules>> /\ pc' = [pc EXCEPT ![r] = "create"]
    BY <1>5, <2>1 DEF CheckStale, GoTo
  <2> QED
    BY <1>2, <2>2 DEF Places
<1>6. ASSUME NEW r \in Requests, loadApp(r) PROVE MappedInv' /\ (route.app => AppInv')
  <2>1. Module(r) = "app" /\ pc[r] = "prepare" /\ route.app
    BY <1>6 DEF loadApp, Module, Provider
  <2>2. CASE UNCHANGED <<mapped, modules>>
    <3>1. \E at \in {"call", "create"} : pc' = [pc EXCEPT ![r] = at]
      BY <1>6 DEF loadApp, GoTo
    <3> QED
      BY <1>2, <2>1, <2>2, <3>1 DEF Places
  <2>3. CASE ~UNCHANGED <<mapped, modules>>
    <3>1. /\ modules["app"] # <<>> /\ MayUnload /\ Unload("app")
          /\ pc' = [pc EXCEPT ![r] = "create"]
      BY <1>6, <2>1, <2>3 DEF loadApp, GoTo, IsLoaded
    <3> QED
      BY <2>1, <3>1, AppUnload
  <2> QED
    BY <2>2, <2>3
<1>7. ASSUME NEW r \in Requests, mprCreateModule(r) PROVE MappedInv' /\ (route.app => AppInv')
  BY <1>7, AppCreate DEF mprCreateModule, MappedInv
<1>8. ASSUME NEW r \in Requests, mprLoadModule(r) PROVE MappedInv' /\ (route.app => AppInv')
  <2>1. MappedInv'
    BY <1>8, LoadMaps DEF mprLoadModule, LoadFails, MappedInv
  <2> QED
    BY <1>8, <2>1, AppLoad
<1> QED
  BY <1>3, <1>4, <1>5, <1>6, <1>7, <1>8 DEF Next, Works

\* At the start nothing is loaded, and what is compiled is the first version.
LEMMA VersionInit ==
    ASSUME IsFiniteSet(Requests), Init
    PROVE  VersionInv
<1> USE ConstantsAssumption
<1>1. TypeInv /\ CountInv /\ LockInv
  BY InitInv DEF Inv
<1>2. MappedInv /\ OwesNothing
  BY DEF Init, MappedInv, OwesNothing
<1>3. FreshInv
  <2>1. ASSUME NEW k \in Kinds PROVE KindFresh(k)
    <3>1. k \in Modules
      BY DEF Modules
    <3>2. modules[k] = <<>> /\ mapped[k] = None /\ source[k] = [version |-> 1, mtime |-> 0] /\ now = 0
          /\ object[k] \in {None, [version |-> 1, mtime |-> 0]}
      BY <3>1 DEF Init
    <3> QED
      BY <3>2 DEF KindFresh, Current, Listed
  <2>2. ASSUME NEW r \in Requests PROVE RequestFresh(r)
    <3>1. doing[r] \in Modules /\ owed[r] = 0 /\ pc[r] = "idle" /\ source[doing[r]].version = 1
      BY DEF Init, Modules, Kinds
    <3> QED
      BY <3>1 DEF RequestFresh
  <2> QED
    BY <1>2, <2>1, <2>2 DEF FreshInv
<1>4. AppInv
  <2>1. modules["app"] = <<>> /\ mapped["app"] = None /\ \A r \in Requests : pc[r] # "load"
    BY DEF Init, Modules
  <2>2. DOMAIN modules["app"] = {} /\ LoadedAt(modules["app"]) = {}
    BY <2>1 DEF LoadedAt
  <2>3. Cardinality(LoadedAt(modules["app"])) = 0 /\ References = 0
    BY <2>1, <2>2, FS_EmptySet DEF References
  <2> QED
    BY <2>1, <2>2, <2>3 DEF AppInv
<1> QED
  BY <1>1, <1>2, <1>3, <1>4 DEF VersionInv

\* It is inductive.
LEMMA VersionStep ==
    ASSUME IsFiniteSet(Requests), VersionInv, [Next]_vars
    PROVE  VersionInv'
<1>0. TypeInv /\ CountInv /\ LockInv /\ MappedInv
  BY DEF VersionInv
<1>1. CASE Next
  <2>1. route' = route
    BY <1>1, RouteStays
  <2>2. Updates' <=> Updates
    BY <2>1 DEF Updates
  <2>3. TypeInv' /\ CountInv' /\ LockInv'
    BY <1>0, <1>1, TypeStep, CountStep, LockStep
  <2>4. CASE Updates
    <3>1. FreshInv'
      BY <1>0, <1>1, <2>4, FreshStep DEF Updates, VersionInv
    <3>2. MappedInv' /\ ~route'.app
      BY <2>1, <2>4, <3>1 DEF FreshInv, Updates
    <3> QED
      BY <2>2, <2>3, <2>4, <3>1, <3>2 DEF VersionInv
  <2>5. CASE ~Updates
    <3>1. OwesNothing'
      BY <1>0, <1>1, <2>5, OwedStep DEF VersionInv
    <3>2. MappedInv' /\ (route.app => AppInv')
      BY <1>0, <1>1, <2>5, OtherStep DEF VersionInv
    <3> QED
      BY <2>1, <2>2, <2>3, <2>5, <3>1, <3>2 DEF VersionInv
  <2> QED
    BY SMTT(40), <2>4, <2>5
<1>2. CASE UNCHANGED vars
  <2> USE <1>2 DEF vars, service, files, history
  <2>1. TypeInv' /\ CountInv' /\ LockInv' /\ MappedInv'
    BY <1>0 DEF TypeInv, CountInv, Open, LockInv, MappedInv
  <2>2. FreshInv => FreshInv'
    BY DEF FreshInv, MappedInv, KindFresh, RequestFresh, Fits, WillFit, Current, Listed
  <2>3. AppInv => AppInv'
    BY <1>0, AppKept
  <2> QED
    BY <2>1, <2>2, <2>3 DEF VersionInv, Updates, OwesNothing
<1> QED
  BY <1>1, <1>2

\* It implies that what runs is as new as it has to be.
LEMMA VersionFresh ==
    ASSUME VersionInv
    PROVE  FreshCode
<1> SUFFICES ASSUME NEW r \in Requests, pc[r] = "run", Module(r) \notin missed,
                    mapped[Module(r)] # None
             PROVE  mapped[Module(r)].version >= owed[r]
  BY DEF FreshCode
<1>1. CASE Updates
  BY <1>1 DEF VersionInv, Updates, FreshInv, RequestFresh, Fits, Module, Provider
<1>2. CASE ~Updates
  <2>1. Module(r) \in Modules
    BY DEF VersionInv, TypeInv, Module, Provider, Modules
  <2>2. mapped[Module(r)].version \in Nat
    BY <2>1 DEF VersionInv, MappedInv, Mapping
  <2> QED
    BY <1>2, <2>2 DEF VersionInv, OwesNothing
<1> QED
  BY <1>1, <1>2

\* With EspUpdate a request runs code no older than the source was when it came to
\* need it, unless it was told that the old version stays in use, and until the source
\* is edited while it is compiled: times of seconds are enough, because a source as
\* old as its file counts as newer (espModuleIsStale, espHandler.c).
THEOREM CodeIsFresh ==
    ASSUME IsFiniteSet(Requests)
    PROVE  Spec => []FreshCode
<1>1. Init => VersionInv
  BY VersionInit
<1>2. VersionInv /\ [Next]_vars => VersionInv'
  BY VersionStep
<1>3. VersionInv => FreshCode
  BY VersionFresh
<1> QED
  BY <1>1, <1>2, <1>3, PTL DEF Spec
===============================================================================
