----------------------------- MODULE HttpClient -----------------------------
(***************************************************************************)
(* The life of HttpClient objects: who owns an easy handle, and how long   *)
(* the process-wide libcurl runtime stays up.  An object belongs to one    *)
(* thread at a time, different objects to different threads, so that the   *)
(* destructors of two objects, and the end of the process, may overlap.    *)
(***************************************************************************)
EXTENDS Integers, FiniteSets

CONSTANTS
    Objects,    \* places that may hold an HttpClient
    Impls,      \* HttpClient::Impl instances
    null        \* a null pointer

ASSUME NullAssumption == null \notin Impls

VARIABLES
    runtime,    \* "unborn", "up", "failed" or "down": libcurl's global state
    cleanups,   \* calls of curl_global_cleanup
    static_ref, \* the static shared_ptr in runtime() exists
    impl,       \* impl_ of the objects that exist
    state,      \* Impl: "unused", "live", "closing" (~Impl has run), "gone"
    handle,     \* Impl::curl: "null", "open" or "closed"
    outcome     \* what the latest get did: "none", "performed", "NetworkError"

life_vars == <<runtime, cleanups, static_ref, impl, state, handle, outcome>>

LifeInit ==
    /\ runtime = "unborn"
    /\ cleanups = 0
    /\ static_ref = FALSE
    /\ impl = [o \in {} |-> null]
    /\ state = [i \in Impls |-> "unused"]
    /\ handle = [i \in Impls |-> "null"]
    /\ outcome = "none"

Alive == DOMAIN impl

\* Mutant of Holds: an Impl keeps no reference of its own.
HoldsNone(i) == FALSE

\* Impl::global of i refers to the runtime.
Holds(i) == state[i] \in {"live", "closing"}

\* runtime(), called before the static object is destroyed: the first call
\* initialises libcurl, which may fail.
Runtime ==
    /\ runtime # "unborn" => static_ref
    /\ static_ref' = TRUE
    /\ \/ runtime = "unborn" /\ runtime' \in {"up", "failed"}
       \/ runtime # "unborn" /\ UNCHANGED runtime

Construct(o, i) ==
    /\ o \notin Alive
    /\ state[i] = "unused"
    /\ Runtime
    /\ state' = [state EXCEPT ![i] = "live"]
    /\ \E h \in IF runtime' = "up" THEN {"open", "null"} ELSE {"null"} :
           handle' = [handle EXCEPT ![i] = h]
    /\ impl' = [p \in Alive \cup {o} |-> IF p = o THEN i ELSE impl[p]]
    /\ UNCHANGED <<cleanups, outcome>>

MoveConstruct(o, from) ==
    /\ o \notin Alive
    /\ from \in Alive
    /\ impl' = [p \in Alive \cup {o} |->
                   IF p = o THEN impl[from] ELSE IF p = from THEN null ELSE impl[p]]
    /\ UNCHANGED <<runtime, cleanups, static_ref, state, handle, outcome>>

\* The body of ~Impl, when there is an Impl to destroy.
CloseImpl(i) ==
    IF i = null THEN UNCHANGED <<state, handle>>
    ELSE /\ state' = [state EXCEPT ![i] = "closing"]
         /\ handle' = [handle EXCEPT ![i] = IF @ = "open" THEN "closed" ELSE @]

\* Mutant of MoveAssign: the Impl of the target is forgotten.
MoveAssignForgets(o, from) ==
    /\ {o, from} \subseteq Alive
    /\ o # from
    /\ impl' = [impl EXCEPT ![o] = impl[from], ![from] = null]
    /\ UNCHANGED <<runtime, cleanups, static_ref, state, handle, outcome>>

\* The Impl of the target is destroyed.  Assigning an object to itself
\* changes nothing.
MoveAssign(o, from) ==
    /\ {o, from} \subseteq Alive
    /\ o # from
    /\ impl' = [impl EXCEPT ![o] = impl[from], ![from] = null]
    /\ CloseImpl(impl[o])
    /\ UNCHANGED <<runtime, cleanups, static_ref, outcome>>

Destroy(o) ==
    /\ o \in Alive
    /\ impl' = [p \in Alive \ {o} |-> impl[p]]
    /\ CloseImpl(impl[o])
    /\ UNCHANGED <<runtime, cleanups, static_ref, outcome>>

\* Mutant of DropRuntime: curl_global_cleanup is never called.
DropRuntimeLeaks(last) == UNCHANGED <<runtime, cleanups>>

\* ~CurlRuntime, when the last reference goes.
DropRuntime(last) ==
    IF last THEN /\ runtime' = IF runtime = "up" THEN "down" ELSE runtime
                 /\ cleanups' = IF runtime = "up" THEN cleanups + 1 ELSE cleanups
    ELSE UNCHANGED <<runtime, cleanups>>

\* The members of an Impl are destroyed after the body of ~Impl.
ReleaseGlobal(i) ==
    /\ state[i] = "closing"
    /\ state' = [state EXCEPT ![i] = "gone"]
    /\ DropRuntime(~static_ref /\ \A j \in Impls \ {i} : ~Holds(j))
    /\ UNCHANGED <<static_ref, impl, handle, outcome>>

\* The process ends: static objects are destroyed, objects of other modules
\* or threads may still exist.
Exit ==
    /\ static_ref
    /\ static_ref' = FALSE
    /\ DropRuntime(\A j \in Impls : ~Holds(j))
    /\ UNCHANGED <<impl, state, handle, outcome>>

\* The check at the start of get.
Usable(i) == i # null /\ handle[i] # "null"

\* get, as far as the handle: the transfer is in HttpTransfer.tla.
CheckHandle(o) ==
    /\ o \in Alive
    /\ outcome' = IF Usable(impl[o]) THEN "performed" ELSE "NetworkError"
    /\ UNCHANGED <<runtime, cleanups, static_ref, impl, state, handle>>

LifeNext ==
    \/ \E o \in Objects, i \in Impls : Construct(o, i)
    \/ \E o, from \in Objects : MoveConstruct(o, from) \/ MoveAssign(o, from)
    \/ \E o \in Objects : Destroy(o) \/ CheckHandle(o)
    \/ \E i \in Impls : ReleaseGlobal(i)
    \/ Exit

LifeSpec == LifeInit /\ [][LifeNext]_life_vars
-----------------------------------------------------------------------------
(* Properties.                                                             *)

\* "Kept alive until after this instance's easy handle has been closed":
\* libcurl is up as long as any handle is open, also when the process ends
\* first and whichever thread destroys its client last.
RuntimeOutlivesHandles ==
    \A i \in Impls : handle[i] = "open" => runtime = "up"

\* Moves neither share an Impl between two objects nor lose one: an Impl
\* that has not been destroyed has exactly one owner, and no object refers
\* to a destroyed one.
OneOwner ==
    \A i \in Impls :
        Cardinality({o \in Alive : impl[o] = i}) = IF state[i] = "live" THEN 1 ELSE 0

\* Nothing is left behind: when the static reference and the last Impl are
\* gone, every handle is closed and libcurl has been cleaned up, once.
CleanedUp ==
    ~static_ref /\ runtime # "unborn" /\ (\A i \in Impls : ~Holds(i)) =>
        /\ runtime \in {"down", "failed"}
        /\ cleanups = IF runtime = "down" THEN 1 ELSE 0
        /\ \A i \in Impls : handle[i] # "open"
=============================================================================
