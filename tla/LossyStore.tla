----------------------------- MODULE LossyStore -----------------------------
(***************************************************************************)
(* What a cache promises its users, whatever it keeps and whatever it      *)
(* drops: a lookup either misses or answers with the latest value stored   *)
(* under the key, and never with one older than ttl.  LruCache.tla         *)
(* implements this specification.                                          *)
(***************************************************************************)
EXTENDS Integers

CONSTANTS Keys, Values, Absent

VARIABLES
    ttl,        \* how long a stored value may be served
    clock,
    written,    \* latest write of each key: value and time, or Absent
    answer      \* what the latest operation returned, Absent for nothing

vars == <<ttl, clock, written, answer>>

Write == [value : Values, at : Nat]

Init ==
    /\ ttl \in Int
    /\ clock = 0
    /\ written = [k \in Keys |-> Absent]
    /\ answer = Absent

Tick ==
    /\ clock' = clock + 1
    /\ UNCHANGED <<ttl, written, answer>>

Hit(k) ==
    /\ written[k] # Absent
    /\ clock - written[k].at <= ttl
    /\ answer' = written[k].value
    /\ UNCHANGED <<ttl, clock, written>>

\* A lookup may always miss; a write may be refused.
Nothing ==
    /\ answer' = Absent
    /\ UNCHANGED <<ttl, clock, written>>

Store(k, v) ==
    /\ written' = [written EXCEPT ![k] = [value |-> v, at |-> clock]]
    /\ answer' = Absent
    /\ UNCHANGED <<ttl, clock>>

Forget(k) ==
    /\ written' = [written EXCEPT ![k] = Absent]
    /\ answer' = Absent
    /\ UNCHANGED <<ttl, clock>>

ForgetAll ==
    /\ written' = [k \in Keys |-> Absent]
    /\ answer' = Absent
    /\ UNCHANGED <<ttl, clock>>

Next ==
    \/ Tick
    \/ Nothing
    \/ ForgetAll
    \/ \E k \in Keys : Hit(k) \/ Forget(k) \/ \E v \in Values : Store(k, v)

Spec == Init /\ [][Next]_vars
=============================================================================
