----------------------------- MODULE EspModules -----------------------------
(* Embedded server pages: the loading, reloading and use of compiled modules  *)
(* (espHandler.c, espModuleIsStale and espUnloadModule of espFramework.c,     *)
(* espCompile, and the module service of the MPR).                            *)
(*                                                                            *)
(* A request runs an action of a controller and then renders a view, or the   *)
(* action renders it itself.  Both are native code in a module: one module    *)
(* for each controller and each view, compiled on demand, or one module for   *)
(* the whole application, compiled and installed from outside (route.app).    *)
(* When the route asks for updates, a request replaces a stale module, unless *)
(* some other request is open.                                                *)
EXTENDS Naturals, Sequences, FiniteSets

CONSTANTS
    Requests,       \* the slots of concurrent requests
    Routes,         \* the EspRoutes to look at: appModuleName is set or not, update
    MaxEdits,       \* bound on the edits of sources
    MaxTime,        \* bound on the clock (in seconds, as mtime)
    None

ASSUME ConstantsAssumption ==
    /\ Routes \subseteq [app : BOOLEAN, update : BOOLEAN]
    /\ None \notin Requests
    /\ None \notin [version : Nat, mtime : Nat] \cup [version : Nat, refs : Nat]

Kinds == {"action", "view"}
Modules == Kinds \cup {"app"}

VARIABLES
    route,          \* the EspRoute of the requests
    now,            \* the time
    edits,          \* how many edits there were
    source,         \* of each module, the version of its source and its mtime
    object,         \* likewise of the compiled file, or None
    modules,        \* ms->modules: by name, the entries in the order of creation
    mapped,         \* what dlopen has loaded: its version and references
    entries,        \* esp->actions and esp->views: those a module has defined
    inUse,          \* esp->inUse
    lock,           \* the request whose thread holds esp->mutex, or None
    pc,             \* where each request is
    doing,          \* whether it is after its action or its view
    frame,          \* the kinds of code that are on its stack
    appLoaded,      \* req->appLoaded
    built,          \* the version of the source its compiler has read
    owed,           \* the version its code should have, at least: that of the source
                    \* when it came to need it (0: any; no updates, or after
                    \* "Continue using old version")
    failed,         \* history: the modules of which a load has failed
    missed          \* history: those that were edited while they were compiled

files == <<now, edits, source, object>>
service == <<modules, mapped, entries>>
history == <<failed, missed>>
vars == <<route, files, service, inUse, lock, pc, doing, frame, appLoaded, built, owed, history>>

\* The module that has the code of an action, or of a view.
Provider(k) == IF route.app THEN "app" ELSE k

Init ==
    /\ route \in Routes
    /\ now = 0
    /\ edits = 0
    /\ source = [m \in Modules |-> [version |-> 1, mtime |-> 0]]
    /\ \E o \in {None, [version |-> 1, mtime |-> 0]} : object = [m \in Modules |-> o]
    /\ modules = [m \in Modules |-> <<>>]
    /\ mapped = [m \in Modules |-> None]
    /\ entries = {}
    /\ inUse = 0
    /\ lock = None
    /\ pc = [r \in Requests |-> "idle"]
    /\ doing = [r \in Requests |-> "action"]
    /\ frame = [r \in Requests |-> {}]
    /\ appLoaded = [r \in Requests |-> FALSE]
    /\ built = [r \in Requests |-> 0]
    /\ owed = [r \in Requests |-> 0]
    /\ failed = {}
    /\ missed = {}

Module(r) == Provider(doing[r])

GoTo(r, at) == pc' = [pc EXCEPT ![r] = at]

-----------------------------------------------------------------------------
(* The files change. *)

Tick ==
    /\ now < MaxTime
    /\ now' = now + 1
    /\ UNCHANGED <<route, edits, source, object, service, inUse, lock, pc, doing, frame, appLoaded,
                   built, owed, history>>

\* A compiler that a request runs may have read the source before the edit.
Quiet(m) == \A r \in Requests : ~(pc[r] = "compile" /\ Module(r) = m)

Edit(m) ==
    /\ edits < MaxEdits
    /\ edits' = edits + 1
    /\ source' = [source EXCEPT ![m] = [version |-> @.version + 1, mtime |-> now]]
    /\ missed' = IF Quiet(m) THEN missed ELSE missed \cup {m}
    /\ UNCHANGED <<route, now, object, service, inUse, lock, pc, doing, frame, appLoaded,
                   built, owed, failed>>

\* A module is compiled from outside, by the esp program.
Install(m) ==
    /\ object' = [object EXCEPT ![m] = [version |-> source[m].version, mtime |-> now]]
    /\ UNCHANGED <<route, now, edits, source, service, inUse, lock, pc, doing, frame,
                   appLoaded, built, owed, history>>

-----------------------------------------------------------------------------
(* A request is opened and closed. *)

\* The version a request is to run of its action or view, at least.  Nothing like
\* it holds of an application, see FreshCode.
Latest(k) == IF route.update /\ ~route.app THEN source[k].version ELSE 0

Begin(r, k) ==
    /\ GoTo(r, "prepare")
    /\ doing' = [doing EXCEPT ![r] = k]
    /\ owed' = [owed EXCEPT ![r] = Latest(k)]

\* OPTIONS, TRACE and a route without an EspRoute leave no request to start.
openEsp(r) ==
    /\ pc[r] = "idle" /\ lock = None
    /\ inUse' = inUse + 1
    /\ \/ \E k \in Kinds : Begin(r, k)
       \/ GoTo(r, "close") /\ UNCHANGED <<doing, owed>>
    /\ UNCHANGED <<route, files, service, lock, frame, appLoaded, built, history>>

closeEsp(r) ==
    /\ pc[r] = "close" /\ lock = None
    /\ inUse' = inUse - 1
    /\ GoTo(r, "idle")
    /\ doing' = [doing EXCEPT ![r] = "action"]
    /\ appLoaded' = [appLoaded EXCEPT ![r] = FALSE]
    /\ owed' = [owed EXCEPT ![r] = 0]
    /\ UNCHANGED <<route, files, service, lock, frame, built, history>>

\* Where a request goes when its action or its view cannot be had: back into the
\* action that wanted to render the view, or to its end.
Return(r) == IF "action" \in frame[r] THEN "finish" ELSE "close"

-----------------------------------------------------------------------------
(* The module of the action or view is prepared. *)

IsLoaded(m) == modules[m] # <<>>

\* A plausible bug: another request is not waited for.
BugMayUnload == inUse <= 2

MayUnload == inUse <= 1

\* mprUnloadModule: dlclose, and off the list.  Pointers in entries stay.
Unload(m) ==
    /\ modules' = [modules EXCEPT ![m] = Tail(@)]
    /\ mapped' =
          IF ~Head(modules[m]).loaded THEN mapped
          ELSE IF mapped[m].refs = 1 THEN [mapped EXCEPT ![m] = None]
          ELSE [mapped EXCEPT ![m].refs = @ - 1]

\* A plausible bug: a source edited in the second of its compilation is missed.
BugOutdated(m) == source[m].mtime > object[m].mtime

Outdated(m) == source[m].mtime >= object[m].mtime

\* The route does not ask for updates and the code is known.
Prepared(r) ==
    /\ pc[r] = "prepare" /\ ~route.app
    /\ ~route.update /\ doing[r] \in entries
    /\ GoTo(r, "call")
    /\ UNCHANGED <<route, files, service, inUse, lock, doing, frame, appLoaded, built, owed, history>>

\* lock(req->esp), espModuleIsStale and espUnloadModule without a timeout: the
\* request goes on to compile, or with what is loaded, or to load.
CheckStale(r) ==
    LET m == Module(r)
        recompile == object[m] = None \/ Outdated(m)
        newer == IsLoaded(m) /\ object[m].mtime > Head(modules[m]).modified
        stale == recompile \/ newer
        busy == IsLoaded(m) /\ ~MayUnload
    IN
    /\ pc[r] = "prepare" /\ ~route.app
    /\ route.update \/ doing[r] \notin entries
    /\ lock = None
    /\ lock' = r
    /\ IF route.update /\ stale /\ IsLoaded(m) /\ ~busy
       THEN Unload(m) ELSE UNCHANGED <<modules, mapped>>
    /\ owed' = IF route.update /\ stale /\ busy THEN [owed EXCEPT ![r] = 0] ELSE owed
    /\ IF route.update /\ recompile /\ ~busy
       THEN GoTo(r, "compile") /\ built' = [built EXCEPT ![r] = source[m].version]
       ELSE GoTo(r, "create") /\ built' = built
    /\ UNCHANGED <<route, files, entries, inUse, doing, frame, appLoaded, history>>

\* A plausible bug: the lock is kept on the path of an error.
BugCompileFails(r) ==
    /\ GoTo(r, Return(r))
    /\ UNCHANGED <<object, lock>>

\* espCompile returns, still under the lock.
CompileFails(r) ==
    /\ lock' = None
    /\ GoTo(r, Return(r))
    /\ UNCHANGED object

espCompile(r) ==
    /\ pc[r] = "compile"
    /\ \/ /\ object' = [object EXCEPT ![Module(r)] = [version |-> built[r], mtime |-> now]]
          /\ GoTo(r, "create")
          /\ UNCHANGED lock
       \/ CompileFails(r)
    /\ built' = [built EXCEPT ![r] = 0]
    /\ UNCHANGED <<route, now, edits, source, service, inUse, doing, frame, appLoaded, owed, history>>

\* The compiler is waited for with mprWaitForEvent on the dispatcher of the
\* connection, which serves the connection's timeout too: httpDestroyConn closes the
\* request (closeEsp) and disables the dispatcher, so that the events of the compiler
\* never run, the thread waits on, and keeps the lock.
connTimeout(r) ==
    /\ pc[r] = "compile"
    /\ GoTo(r, "stuck")
    /\ inUse' = inUse - 1
    /\ UNCHANGED <<route, files, service, lock, doing, frame, appLoaded, built, owed, history>>

\* loadApp, up to the creation of the module.  It takes no lock.
loadApp(r) ==
    LET m == Module(r)
        stale == route.update /\ IsLoaded(m) /\ object[m] # None
                 /\ Head(modules[m]).modified < object[m].mtime
        ready == appLoaded[r] \/ (IsLoaded(m) /\ ~stale)
    IN
    /\ pc[r] = "prepare" /\ route.app
    /\ \/ /\ ready
          /\ GoTo(r, "call")
          /\ appLoaded' = [appLoaded EXCEPT ![r] = TRUE]
          /\ UNCHANGED <<modules, mapped, owed>>
       \/ /\ ~ready /\ stale /\ ~MayUnload
          /\ GoTo(r, "call")
          /\ owed' = [owed EXCEPT ![r] = 0]
          /\ UNCHANGED <<modules, mapped, appLoaded>>
       \/ /\ ~ready /\ stale /\ MayUnload /\ lock = None
          /\ Unload(m)
          /\ GoTo(r, "create")
          /\ UNCHANGED <<appLoaded, owed>>
       \/ /\ ~ready /\ ~stale
          /\ GoTo(r, "create")
          /\ UNCHANGED <<modules, mapped, appLoaded, owed>>
    /\ UNCHANGED <<route, files, entries, inUse, lock, doing, frame, built, history>>

\* A second look at the list, under the lock; then mprCreateModule, which puts
\* the module on the list before it is loaded.
mprCreateModule(r) ==
    LET m == Module(r) IN
    /\ pc[r] = "create"
    /\ IF ~route.app /\ IsLoaded(m)
       THEN /\ lock' = None
            /\ GoTo(r, "call")
            /\ UNCHANGED modules
       ELSE /\ modules' = [modules EXCEPT ![m] =
                              Append(@, [modified |-> 0, loaded |-> FALSE, by |-> r])]
            /\ GoTo(r, "load")
            /\ UNCHANGED lock
    /\ UNCHANGED <<route, files, mapped, entries, inUse, doing, frame, appLoaded, built, owed, history>>

\* The outcome of loading the module whose entry r has created.
SetEntry(r, loaded) ==
    LET m == Module(r) IN
    modules' = [modules EXCEPT ![m] =
        [i \in DOMAIN @ |-> IF @[i].by # r THEN @[i]
                            ELSE [modified |-> IF object[m] = None THEN 0 ELSE object[m].mtime,
                                  loaded |-> loaded, by |-> None]]]

\* dlopen gives a module that is still mapped again, whatever its file holds now.
\* Then the entry of the module defines its actions and views.
Loads(r) ==
    LET m == Module(r) IN
    /\ object[m] # None
    /\ mapped' = [mapped EXCEPT ![m] =
          IF @ # None THEN [version |-> @.version, refs |-> @.refs + 1]
          ELSE [version |-> object[m].version, refs |-> 1]]
    /\ SetEntry(r, TRUE)
    /\ entries' = entries \cup {k \in Kinds : Provider(k) = m}
    /\ GoTo(r, "call")
    /\ appLoaded' = [appLoaded EXCEPT ![r] = route.app]
    /\ UNCHANGED failed

\* mprLoadModule fails, for want of the file or in dlopen; the module stays on the list.
LoadFails(r) ==
    /\ failed' = failed \cup {Module(r)}
    /\ SetEntry(r, FALSE)
    /\ GoTo(r, Return(r))
    /\ UNCHANGED <<mapped, entries, appLoaded>>

mprLoadModule(r) ==
    /\ pc[r] = "load"
    /\ Loads(r) \/ LoadFails(r)
    /\ lock' = IF route.app THEN lock ELSE None
    /\ UNCHANGED <<route, files, inUse, doing, frame, built, owed, missed>>

-----------------------------------------------------------------------------
(* The code runs. *)

\* The pointer is looked up and called.  A missing view is an error, a missing
\* action only if there is no view; a form without its security token gets the
\* view without the action.
Call(r) ==
    LET k == doing[r] IN
    /\ pc[r] = "call"
    /\ \/ /\ k \in entries
          /\ frame' = [frame EXCEPT ![r] = @ \cup {k}]
          /\ GoTo(r, "run")
          /\ UNCHANGED <<doing, owed>>
       \/ /\ k \notin entries
          /\ GoTo(r, Return(r))
          /\ UNCHANGED <<frame, doing, owed>>
       \/ /\ k = "action"
          /\ Begin(r, "view")
          /\ UNCHANGED frame
    /\ UNCHANGED <<route, files, service, inUse, lock, appLoaded, built, history>>

\* An action finishes the request, leaves its view to startEsp, or renders it.
RunAction(r) ==
    /\ pc[r] = "run" /\ doing[r] = "action"
    /\ \/ /\ frame' = [frame EXCEPT ![r] = {}]
          /\ GoTo(r, "close")
          /\ owed' = [owed EXCEPT ![r] = 0]
          /\ UNCHANGED doing
       \/ /\ frame' \in {frame, [frame EXCEPT ![r] = {}]}
          /\ Begin(r, "view")
    /\ UNCHANGED <<route, files, service, inUse, lock, appLoaded, built, history>>

\* A view returns to the action or to startEsp.
RunView(r) ==
    /\ pc[r] = "run" /\ doing[r] = "view"
    /\ frame' = [frame EXCEPT ![r] = @ \ {"view"}]
    /\ GoTo(r, Return(r))
    /\ owed' = [owed EXCEPT ![r] = 0]
    /\ UNCHANGED <<route, files, service, inUse, lock, doing, appLoaded, built, history>>

\* The action that has rendered its view returns.
Finish(r) ==
    /\ pc[r] = "finish"
    /\ frame' = [frame EXCEPT ![r] = {}]
    /\ GoTo(r, "close")
    /\ UNCHANGED <<route, files, service, inUse, lock, doing, appLoaded, built, owed, history>>

Works(r) ==
    \/ Prepared(r) \/ CheckStale(r) \/ espCompile(r) \/ loadApp(r)
    \/ mprCreateModule(r) \/ mprLoadModule(r)
    \/ Call(r) \/ RunAction(r) \/ RunView(r) \/ Finish(r) \/ closeEsp(r)

Next ==
    \/ Tick
    \/ \E k \in Kinds : Edit(Provider(k)) \/ Install(Provider(k))
    \/ \E r \in Requests : openEsp(r) \/ connTimeout(r) \/ Works(r)

Spec == Init /\ [][Next]_vars

\* A thread that runs a request goes on, and the mutex passes over none of the
\* threads that wait for it for ever.  Actions and views return.
FairSpec == Spec /\ \A r \in Requests : SF_vars(Works(r))

-----------------------------------------------------------------------------
(* Properties. *)

\* The code a request is in is not unloaded under it, and no request calls into
\* a module that is gone (espUnloadModule: "Own request will count as 1").  It is so
\* of a module until a load of it has failed, after which the pointer of the unloaded
\* code is called.  Of an application that is replaced while requests come it does not
\* hold: loadApp takes no lock, and an action that renders its view may unload itself.
CodeStaysLoaded ==
    ~(route.app /\ route.update) =>
        \A r \in Requests : \A k \in frame[r] :
            mapped[Provider(k)] # None \/ (route.update /\ Provider(k) \in failed)

\* With EspUpdate a request runs code of a controller or a view no older than the
\* source was when the request came to need it, unless it was told that the old
\* version stays in use, and until the source has been edited while a request had it
\* compiled: the module is younger than such an edit.  An application may stay old
\* for ever: it is loaded twice when two requests come first, and the unloading of one
\* leaves the other.
FreshCode ==
    \A r \in Requests :
        pc[r] = "run" /\ Module(r) \notin missed /\ mapped[Module(r)] # None
            => mapped[Module(r)].version >= owed[r]

\* Every request ends: no path leaves esp->mutex locked or waits for itself, but one:
\* a connection that times out while its request waits for the compiler.
EveryRequestEnds ==
    \A r \in Requests :
        pc[r] # "idle" ~> (pc[r] = "idle" \/ \E s \in Requests : pc[s] = "stuck")

=============================================================================
