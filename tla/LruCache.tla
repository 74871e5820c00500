------------------------------ MODULE LruCache ------------------------------
(***************************************************************************)
(* nws::LruCache: a list of keys in order of use and a map from key to     *)
(* entry, changed together under one mutex, so every operation is one      *)
(* step.  A key occurs at most once in the list (see Coherent), so the     *)
(* iterator an entry keeps into the list is the position of its key.       *)
(***************************************************************************)
EXTENDS Integers, Sequences, FiniteSets

CONSTANTS
    Keys, Values,
    Configs,        \* LruCache::Config values: max_entries and ttl
    Absent,         \* std::nullopt
    MaxTime,        \* bound: the clock stops here
    MaxOps          \* bound: operations performed

Config == [max_entries : Nat, ttl : Int]

ASSUME ConfigAssumption == Configs \subseteq Config
ASSUME AbsentAssumption ==
    Absent \notin Values /\ Absent \notin [value : Values, at : Nat]
ASSUME BoundsAssumption == MaxTime \in Nat /\ MaxOps \in Nat

VARIABLES
    config, order, map,     \* members of the cache; order[1] is the front
    clock, ops,             \* environment
    answer,                 \* what the latest operation returned
    \* history
    written,    \* latest write of each key since it was last removed by name
    used        \* number of the operation that last used each key

members == <<config, order, map>>
vars == <<members, clock, ops, answer, written, used>>

Entry == [value : Values, inserted_at : Nat]

enabled == config.max_entries > 0 /\ config.ttl > 0

Init ==
    /\ config \in Configs
    /\ order = <<>>
    /\ map = [k \in {} |-> Absent]
    /\ clock = 0
    /\ ops = 0
    /\ answer = Absent
    /\ written = [k \in Keys |-> Absent]
    /\ used = [k \in Keys |-> 0]

Tick ==
    /\ clock < MaxTime
    /\ clock' = clock + 1
    /\ UNCHANGED <<members, ops, answer, written, used>>
-----------------------------------------------------------------------------
(* The list and the map.                                                   *)

PushFront(s, k) == <<k>> \o s

IndexOf(s, k) == CHOOSE i \in 1..Len(s) : s[i] = k

\* list::erase of the i-th element.
EraseAt(s, i) ==
    [j \in 1..(Len(s) - 1) |-> IF j < i THEN s[j] ELSE s[j + 1]]

\* list::splice of the i-th element to the front.
MoveToFront(s, i) ==
    [j \in 1..Len(s) |-> IF j = 1 THEN s[i] ELSE IF j <= i THEN s[j - 1] ELSE s[j]]

Erase(m, k) == [x \in DOMAIN m \ {k} |-> m[x]]

Emplace(m, k, e) == [x \in DOMAIN m \cup {k} |-> IF x = k THEN e ELSE m[x]]

\* Mutant of Expired: an entry as old as ttl is still good one tick later.
ExpiredLate(k) == clock - map[k].inserted_at > config.ttl + 1

Expired(k) == clock - map[k].inserted_at > config.ttl

\* What the eviction loop leaves of the list, from the back.
Evicted(s) == SubSeq(s, 1, config.max_entries)
-----------------------------------------------------------------------------
(* The operations.                                                         *)

Operation ==
    /\ ops < MaxOps
    /\ ops' = ops + 1
    /\ UNCHANGED <<config, clock>>

Use(k) == used' = [used EXCEPT ![k] = ops + 1]

Wrote(k, v) == written' = [written EXCEPT ![k] = [value |-> v, at |-> clock]]

GetMiss(k) ==
    /\ Operation
    /\ k \notin DOMAIN map
    /\ answer' = Absent
    /\ UNCHANGED <<order, map, written, used>>

GetExpired(k) ==
    /\ Operation
    /\ k \in DOMAIN map
    /\ Expired(k)
    /\ order' = EraseAt(order, IndexOf(order, k))
    /\ map' = Erase(map, k)
    /\ answer' = Absent
    /\ UNCHANGED <<written, used>>

\* Mutant of GetHit: a hit does not count as a use.
GetHitNoSplice(k) ==
    /\ Operation
    /\ k \in DOMAIN map
    /\ ~Expired(k)
    /\ answer' = map[k].value
    /\ Use(k)
    /\ UNCHANGED <<order, map, written>>

GetHit(k) ==
    /\ Operation
    /\ k \in DOMAIN map
    /\ ~Expired(k)
    /\ order' = MoveToFront(order, IndexOf(order, k))
    /\ answer' = map[k].value
    /\ Use(k)
    /\ UNCHANGED <<map, written>>

\* put with caching switched off.
PutDisabled ==
    /\ Operation
    /\ ~enabled
    /\ answer' = Absent
    /\ UNCHANGED <<order, map, written, used>>

PutUpdate(k, v) ==
    /\ Operation
    /\ enabled
    /\ k \in DOMAIN map
    /\ map' = [map EXCEPT ![k] = [value |-> v, inserted_at |-> clock]]
    /\ order' = MoveToFront(order, IndexOf(order, k))
    /\ Use(k)
    /\ Wrote(k, v)
    /\ answer' = Absent

\* The new key goes to the front, then the list is cut back to max_entries
\* and the map with it.
PutInsert(k, v) ==
    /\ Operation
    /\ enabled
    /\ k \notin DOMAIN map
    /\ LET pushed == PushFront(order, k)
           grown == Emplace(map, k, [value |-> v, inserted_at |-> clock])
           kept == IF Len(pushed) > config.max_entries
                   THEN Evicted(pushed) ELSE pushed
       IN  /\ order' = kept
           /\ map' = [x \in {kept[i] : i \in 1..Len(kept)} |-> grown[x]]
    /\ Use(k)
    /\ Wrote(k, v)
    /\ answer' = Absent

\* Mutant of PutThrows: the list entry is not rolled back.
PutThrowsNoRollback(k) ==
    /\ Operation
    /\ enabled
    /\ k \notin DOMAIN map
    /\ order' = PushFront(order, k)
    /\ answer' = Absent
    /\ UNCHANGED <<map, written, used>>

\* Allocating the map entry throws: the list entry is rolled back.
PutThrows(k) ==
    /\ Operation
    /\ enabled
    /\ k \notin DOMAIN map
    /\ order' = Tail(PushFront(order, k))
    /\ answer' = Absent
    /\ UNCHANGED <<map, written, used>>

invalidate(k) ==
    /\ Operation
    /\ IF k \in DOMAIN map
       THEN order' = EraseAt(order, IndexOf(order, k)) /\ map' = Erase(map, k)
       ELSE UNCHANGED <<order, map>>
    /\ written' = [written EXCEPT ![k] = Absent]
    /\ answer' = Absent
    /\ UNCHANGED used

clear ==
    /\ Operation
    /\ map' = [k \in {} |-> Absent]
    /\ order' = <<>>
    /\ written' = [k \in Keys |-> Absent]
    /\ answer' = Absent
    /\ UNCHANGED used
-----------------------------------------------------------------------------
get(k) == GetMiss(k) \/ GetExpired(k) \/ GetHit(k)

put(k, v) == PutDisabled \/ PutUpdate(k, v) \/ PutInsert(k, v) \/ PutThrows(k)

\* The bounds are used up.
Done == ops = MaxOps /\ clock = MaxTime /\ UNCHANGED vars

Next ==
    \/ Tick
    \/ Done
    \/ clear
    \/ \E k \in Keys : get(k) \/ invalidate(k) \/ \E v \in Values : put(k, v)

Spec == Init /\ [][Next]_vars
-----------------------------------------------------------------------------
(* Properties.                                                             *)

\* Type correctness; a cache that is switched off by its configuration never
\* holds anything.
TypeOK ==
    /\ config \in Config
    /\ order \in Seq(Keys)
    /\ DOMAIN map \subseteq Keys
    /\ map \in [DOMAIN map -> Entry]
    /\ ~enabled => order = <<>>
    /\ clock \in Nat
    /\ ops \in Nat
    /\ answer \in Values \cup {Absent}
    /\ written \in [Keys -> [value : Values, at : Nat] \cup {Absent}]
    /\ used \in [Keys -> Nat]

\* The list holds every key of the map exactly once and no other, after every
\* operation, a put that threw included, and never more than max_entries.
Coherent ==
    /\ {order[i] : i \in 1..Len(order)} = DOMAIN map
    /\ \A i, j \in 1..Len(order) : order[i] = order[j] => i = j
    /\ Len(order) <= config.max_entries

\* The list is sorted by use, the most recently used key first.
RecencyOrder ==
    \A i, j \in 1..Len(order) : i < j => used[order[i]] > used[order[j]]

\* A key leaves the cache, other than by name or by age, only to make room for
\* a new one, which is let in, and every key that stays was used after it.
EvictsLeastRecent ==
    [][\A k \in Keys, v \in Values : PutInsert(k, v) =>
          /\ k \in DOMAIN map'
          /\ \A x \in DOMAIN map \ DOMAIN map' :
              /\ Cardinality(DOMAIN map) = config.max_entries
              /\ \A y \in DOMAIN map \cap DOMAIN map' : used[y] > used[x]]_vars

\* The latest operation's answer is that of a store that may drop what it
\* likes but never serves an outdated or an overwritten value.
Promise == INSTANCE LossyStore WITH ttl <- config.ttl

ImplementsStore == Promise!Spec
=============================================================================
