--------------------------- MODULE LruCacheProofs ---------------------------
(***************************************************************************)
(* The list and the map of the cache agree, and the cache implements the   *)
(* lossy store, for every set of keys and values and every configuration.  *)
(***************************************************************************)
EXTENDS LruCache, FiniteSetTheorems, TLAPS

Elements(s) == {s[i] : i \in 1..Len(s)}

Injective(s) == \A i, j \in 1..Len(s) : s[i] = s[j] => i = j

\* The position of a key that is in the list.
LEMMA IndexOfFacts ==
    ASSUME NEW s \in Seq(Keys), NEW k \in Elements(s)
    PROVE  IndexOf(s, k) \in 1..Len(s) /\ s[IndexOf(s, k)] = k
BY DEF Elements, IndexOf

\* Erasing removes exactly one key.
LEMMA EraseAtFacts ==
    ASSUME NEW s \in Seq(Keys), NEW i \in 1..Len(s), Injective(s)
    PROVE  /\ EraseAt(s, i) \in Seq(Keys)
           /\ Len(EraseAt(s, i)) = Len(s) - 1
           /\ Injective(EraseAt(s, i))
           /\ Elements(EraseAt(s, i)) = Elements(s) \ {s[i]}
<1> DEFINE n == Len(s)
           e == EraseAt(s, i)
<1>1. n \in Nat /\ n >= 1 /\ \A j \in 1..n : s[j] \in Keys
  OBVIOUS
<1>2. /\ \A j \in 1..(n - 1) : j \in 1..n /\ j + 1 \in 1..n
      /\ n - 1 \in Nat
  BY <1>1
<1>3. e = [j \in 1..(n - 1) |-> IF j < i THEN s[j] ELSE s[j + 1]]
  BY DEF EraseAt
<1>4. e \in Seq(Keys) /\ Len(e) = n - 1
  <2>1. \A j \in 1..(n - 1) : (IF j < i THEN s[j] ELSE s[j + 1]) \in Keys
    BY <1>1, <1>2
  <2> HIDE DEF e, n
  <2> QED BY <1>2, <1>3, <2>1
<1>5. \A j \in 1..(n - 1) : e[j] = IF j < i THEN s[j] ELSE s[j + 1]
  BY <1>3
<1> HIDE DEF e, n
<1>6. Injective(e)
  <2> SUFFICES ASSUME NEW a \in 1..(n - 1), NEW b \in 1..(n - 1), e[a] = e[b]
               PROVE  a = b
    BY <1>4 DEF Injective
  <2> DEFINE x == IF a < i THEN a ELSE a + 1
             y == IF b < i THEN b ELSE b + 1
  <2>1. x \in 1..n /\ y \in 1..n
    BY <1>2
  <2>2. s[x] = s[y]
    BY <1>5
  <2>3. x = y
    <3> HIDE DEF x, y
    <3> QED BY <2>1, <2>2 DEF Injective, n
  <2> QED BY <1>1, <2>3
<1>7. ASSUME NEW k PROVE k \in Elements(e) <=> k \in Elements(s) \ {s[i]}
  <2>1. ASSUME NEW j \in 1..(n - 1), k = e[j]
        PROVE  k \in Elements(s) \ {s[i]}
    <3> DEFINE x == IF j < i THEN j ELSE j + 1
    <3>1. x \in 1..n /\ k = s[x] /\ x # i
      BY <1>1, <1>2, <1>5, <2>1 DEF n
    <3> HIDE DEF x
    <3> QED BY <3>1 DEF Elements, Injective, n
  <2>2. ASSUME NEW j \in 1..n, k = s[j], j # i
        PROVE  k \in Elements(e)
    <3> DEFINE x == IF j < i THEN j ELSE j - 1
    <3>1. x \in 1..(n - 1) /\ e[x] = k
      BY <1>1, <1>5, <2>2 DEF n
    <3> HIDE DEF x
    <3> QED BY <1>4, <3>1 DEF Elements
  <2> QED BY <1>4, <2>1, <2>2 DEF Elements, n
<1> QED BY <1>4, <1>6, <1>7 DEF e, n

\* Splicing to the front permutes the list.
LEMMA MoveToFrontFacts ==
    ASSUME NEW s \in Seq(Keys), NEW i \in 1..Len(s), Injective(s)
    PROVE  /\ MoveToFront(s, i) \in Seq(Keys)
           /\ Len(MoveToFront(s, i)) = Len(s)
           /\ Injective(MoveToFront(s, i))
           /\ Elements(MoveToFront(s, i)) = Elements(s)
           /\ MoveToFront(s, i)[1] = s[i]
           /\ \A j \in 1..Len(s) : j # 1 =>
                 MoveToFront(s, i)[j] = IF j <= i THEN s[j - 1] ELSE s[j]
<1> DEFINE n == Len(s)
           m == MoveToFront(s, i)
           From(j) == IF j = 1 THEN i ELSE IF j <= i THEN j - 1 ELSE j
<1>1. n \in Nat /\ n >= 1 /\ \A j \in 1..n : s[j] \in Keys
  OBVIOUS
<1>2. /\ \A j \in 1..n : From(j) \in 1..n
      /\ \A a, b \in 1..n : From(a) = From(b) => a = b
  BY <1>1
<1>3. m = [j \in 1..n |-> IF j = 1 THEN s[i] ELSE IF j <= i THEN s[j - 1] ELSE s[j]]
  BY DEF MoveToFront
<1>4. m \in Seq(Keys) /\ Len(m) = n
  <2>1. \A j \in 1..n :
          (IF j = 1 THEN s[i] ELSE IF j <= i THEN s[j - 1] ELSE s[j]) \in Keys
    BY <1>1
  <2> HIDE DEF m, n
  <2> QED BY <1>1, <1>3, <2>1
<1>5. \A j \in 1..n : m[j] = s[From(j)]
  BY <1>3
<1>6. \A j \in 1..n : j # 1 => m[j] = IF j <= i THEN s[j - 1] ELSE s[j]
  BY <1>3
<1>7. m[1] = s[i]
  BY <1>1, <1>3
<1> HIDE DEF m, n
<1>8. Injective(m)
  <2> SUFFICES ASSUME NEW a \in 1..n, NEW b \in 1..n, m[a] = m[b]
               PROVE  a = b
    BY <1>4 DEF Injective
  <2>1. s[From(a)] = s[From(b)] /\ From(a) \in 1..n /\ From(b) \in 1..n
    BY <1>2, <1>5
  <2>2. From(a) = From(b)
    <3> HIDE DEF From
    <3> QED BY <2>1 DEF Injective, n
  <2> QED BY <1>2, <2>2
<1>9. ASSUME NEW k PROVE k \in Elements(m) <=> k \in Elements(s)
  <2>1. ASSUME NEW j \in 1..n PROVE m[j] \in Elements(s)
    <3>1. m[j] = s[From(j)] /\ From(j) \in 1..n
      BY <1>2, <1>5
    <3> HIDE DEF From
    <3> QED BY <3>1 DEF Elements, n
  <2>2. ASSUME NEW j \in 1..n PROVE s[j] \in Elements(m)
    <3> DEFINE To == IF j = i THEN 1 ELSE IF j < i THEN j + 1 ELSE j
    <3>1. To \in 1..n /\ From(To) = j
      BY <1>1 DEF n
    <3>2. m[To] = s[j]
      <4> HIDE DEF To, From
      <4> QED BY <1>5, <3>1
    <3> HIDE DEF To
    <3> QED BY <1>4, <3>1, <3>2 DEF Elements
  <2> QED BY <1>4, <2>1, <2>2 DEF Elements, n
<1> QED BY <1>4, <1>6, <1>7, <1>8, <1>9 DEF m, n

\* Pushing a new key and cutting the list back keeps the newest keys.
LEMMA PushFacts ==
    ASSUME NEW s \in Seq(Keys), NEW k \in Keys, k \notin Elements(s), Injective(s)
    PROVE  LET p == PushFront(s, k)
           IN  /\ p \in Seq(Keys)
               /\ Len(p) = Len(s) + 1
               /\ Injective(p)
               /\ p[1] = k
               /\ \A j \in 2..(Len(s) + 1) : p[j] = s[j - 1]
               /\ Tail(p) = s
<1> DEFINE p == PushFront(s, k)
           n == Len(s)
<1>1. /\ p \in Seq(Keys) /\ Len(p) = n + 1 /\ p[1] = k /\ n \in Nat
      /\ \A j \in 2..(n + 1) : p[j] = s[j - 1]
  BY DEF PushFront
<1>2. Tail(p) = s
  BY DEF PushFront
<1> HIDE DEF p
<1>3. \A j \in 1..n : s[j] # k
  BY DEF Elements
<1>4. Injective(p)
  <2> SUFFICES ASSUME NEW a \in 1..(n + 1), NEW b \in 1..(n + 1), p[a] = p[b], a <= b
               PROVE  a = b
    <3>1. \A a, b \in 1..(n + 1) : a <= b \/ b <= a
      BY <1>1
    <3> QED BY <1>1, <3>1 DEF Injective
  <2>1. CASE b = 1
    BY <1>1, <2>1
  <2>2. CASE a = 1 /\ b > 1
    <3>1. b - 1 \in 1..n /\ p[b] = s[b - 1]
      BY <1>1, <2>2
    <3> QED BY <1>1, <1>3, <2>2, <3>1
  <2>3. CASE a > 1 /\ b > 1
    <3>1. /\ a - 1 \in 1..n /\ p[a] = s[a - 1]
          /\ b - 1 \in 1..n /\ p[b] = s[b - 1]
      BY <1>1, <2>3
    <3>2. a - 1 = b - 1
      BY <3>1 DEF Injective
    <3> QED BY <1>1, <3>2
  <2> QED BY <1>1, <2>1, <2>2, <2>3
<1> QED BY <1>1, <1>2, <1>4 DEF p

\* A prefix of the list keeps its order and its distinct keys.
LEMMA PrefixFacts ==
    ASSUME NEW p \in Seq(Keys), NEW m \in Nat, m <= Len(p), Injective(p)
    PROVE  LET q == SubSeq(p, 1, m)
           IN  /\ q \in Seq(Keys)
               /\ Len(q) = m
               /\ Injective(q)
               /\ \A j \in 1..m : q[j] = p[j]
<1> DEFINE q == SubSeq(p, 1, m)
<1>1. q \in Seq(Keys) /\ Len(q) = m /\ \A j \in 1..m : q[j] = p[j]
  OBVIOUS
<1>2. \A j \in 1..m : j \in 1..Len(p)
  OBVIOUS
<1> HIDE DEF q
<1>3. Injective(q)
  BY <1>1, <1>2 DEF Injective
<1> QED BY <1>1, <1>3 DEF q
-----------------------------------------------------------------------------
(* The inductive invariant.                                                *)

\* No key was used by an operation yet to come.
UsedBefore == \A k \in Keys : used[k] <= ops

\* What the map holds for a key is the latest write of it.
HoldsLatest ==
    \A k \in DOMAIN map :
        written[k] = [value |-> map[k].value, at |-> map[k].inserted_at]

Inv == TypeOK /\ Coherent /\ RecencyOrder /\ UsedBefore /\ HoldsLatest

LEMMA CoherentDef ==
    Coherent <=> /\ Elements(order) = DOMAIN map
                 /\ Injective(order)
                 /\ Len(order) <= config.max_entries
BY DEF Coherent, Elements, Injective

LEMMA InitInv == Init => Inv
<1> SUFFICES ASSUME Init PROVE Inv
  OBVIOUS
<1>1. TypeOK
  BY ConfigAssumption DEF Init, TypeOK, enabled, Entry
<1>2. Coherent /\ RecencyOrder /\ UsedBefore /\ HoldsLatest
  <2>1. config.max_entries \in Nat
    BY <1>1 DEF TypeOK, Config
  <2> QED BY <2>1 DEF Init, Coherent, RecencyOrder, UsedBefore, HoldsLatest
<1> QED BY <1>1, <1>2 DEF Inv

\* Removing one key from the list and the map.
LEMMA RemoveInv ==
    ASSUME Inv, NEW k \in DOMAIN map, Operation,
           order' = EraseAt(order, IndexOf(order, k)), map' = Erase(map, k),
           answer' = Absent, used' = used,
           written' = written \/ written' = [written EXCEPT ![k] = Absent]
    PROVE  Inv'
<1> DEFINE i == IndexOf(order, k)
           n == Len(order)
<1>0. TypeOK /\ Coherent /\ RecencyOrder /\ UsedBefore /\ HoldsLatest
  BY DEF Inv
<1>1. /\ order \in Seq(Keys) /\ Elements(order) = DOMAIN map
      /\ Injective(order) /\ n <= config.max_entries /\ n \in Nat
      /\ config.max_entries \in Nat /\ k \in Keys
  BY <1>0, CoherentDef DEF TypeOK, Config
<1>2. i \in 1..n /\ order[i] = k
  BY <1>1, IndexOfFacts
<1> HIDE DEF i
<1>3. /\ order' \in Seq(Keys) /\ Len(order') = n - 1 /\ Injective(order')
      /\ Elements(order') = DOMAIN map \ {k}
  BY <1>1, <1>2, EraseAtFacts DEF i
<1>4. DOMAIN map' = DOMAIN map \ {k} /\ \A x \in DOMAIN map' : map'[x] = map[x]
  BY DEF Erase
<1>5. UNCHANGED <<config, clock>> /\ ops' = ops + 1 /\ ops \in Nat
  BY <1>0 DEF Operation, TypeOK
<1>6. TypeOK'
  <2>1. map' \in [DOMAIN map' -> Entry] /\ DOMAIN map' \subseteq Keys
    BY <1>0 DEF TypeOK, Erase
  <2>2. (~enabled => order = <<>>)'
    <3>1. enabled
      BY <1>0, <1>2 DEF TypeOK
    <3> QED BY <1>5, <3>1 DEF enabled
  <2>3. written' \in [Keys -> [value : Values, at : Nat] \cup {Absent}]
    BY <1>0 DEF TypeOK
  <2>4. ops' \in Nat
    BY <1>5
  <2> QED BY <1>0, <1>3, <1>5, <2>1, <2>2, <2>3, <2>4 DEF TypeOK
<1>7. Coherent'
  <2>1. Len(order') <= config.max_entries
    BY <1>1, <1>3
  <2> QED BY <1>3, <1>4, <1>5, <2>1 DEF Coherent, Elements, Injective
<1>8. RecencyOrder'
  <2> SUFFICES ASSUME NEW a \in 1..(n - 1), NEW b \in 1..(n - 1), a < b
               PROVE  used[order'[a]] > used[order'[b]]
    BY <1>3 DEF RecencyOrder
  <2> DEFINE x == IF a < i THEN a ELSE a + 1
             y == IF b < i THEN b ELSE b + 1
  <2>1. x \in 1..n /\ y \in 1..n /\ x < y
    BY <1>1, <1>2
  <2>2. order'[a] = order[x] /\ order'[b] = order[y]
    BY <1>1 DEF EraseAt, i
  <2> HIDE DEF x, y
  <2> QED BY <1>0, <2>1, <2>2 DEF RecencyOrder
<1>9. UsedBefore'
  BY <1>0, <1>5 DEF UsedBefore, TypeOK
<1>10. HoldsLatest'
  <2> SUFFICES ASSUME NEW x \in DOMAIN map'
               PROVE  written'[x] = [value |-> map'[x].value, at |-> map'[x].inserted_at]
    BY DEF HoldsLatest
  <2>1. x \in DOMAIN map /\ x # k /\ map'[x] = map[x] /\ x \in Keys
    BY <1>0, <1>4 DEF TypeOK
  <2>2. written'[x] = written[x]
    BY <1>0, <2>1 DEF TypeOK
  <2> QED BY <1>0, <2>1, <2>2 DEF HoldsLatest
<1> QED BY <1>6, <1>7, <1>8, <1>9, <1>10 DEF Inv

\* Moving a key that is present to the front, with or without a new value.
LEMMA TouchInv ==
    ASSUME Inv, NEW k \in DOMAIN map, Operation, Use(k),
           order' = MoveToFront(order, IndexOf(order, k)),
           answer' \in Values \cup {Absent},
           \/ UNCHANGED <<map, written>>
           \/ \E v \in Values :
                 /\ map' = [map EXCEPT ![k] = [value |-> v, inserted_at |-> clock]]
                 /\ Wrote(k, v)
    PROVE  Inv'
<1> DEFINE i == IndexOf(order, k)
           n == Len(order)
<1>0. TypeOK /\ Coherent /\ RecencyOrder /\ UsedBefore /\ HoldsLatest
  BY DEF Inv
<1>1. /\ order \in Seq(Keys) /\ Elements(order) = DOMAIN map
      /\ Injective(order) /\ n <= config.max_entries /\ n \in Nat
      /\ k \in Keys
  BY <1>0, CoherentDef DEF TypeOK
<1>2. i \in 1..n /\ order[i] = k
  BY <1>1, IndexOfFacts
<1> HIDE DEF i
<1>3. /\ order' \in Seq(Keys) /\ Len(order') = n /\ Injective(order')
      /\ Elements(order') = DOMAIN map /\ order'[1] = k
      /\ \A j \in 1..n : j # 1 => order'[j] = IF j <= i THEN order[j - 1] ELSE order[j]
  BY <1>1, <1>2, MoveToFrontFacts DEF i
<1>4. DOMAIN map' = DOMAIN map
  OBVIOUS
<1>5. UNCHANGED <<config, clock>> /\ ops' = ops + 1 /\ ops \in Nat
  BY <1>0 DEF Operation, TypeOK
<1>u. /\ used' \in [Keys -> Nat] /\ used'[k] = ops + 1
      /\ \A x \in Keys : x # k => used'[x] = used[x]
      /\ \A x \in Keys : used[x] \in Nat /\ used[x] <= ops
  BY <1>0, <1>1, <1>5 DEF Use, TypeOK, UsedBefore
<1>6. TypeOK'
  <2>1. map' \in [DOMAIN map' -> Entry] /\ DOMAIN map' \subseteq Keys
    <3>1. map \in [DOMAIN map -> Entry] /\ DOMAIN map \subseteq Keys
      BY <1>0 DEF TypeOK
    <3>2. ASSUME NEW v \in Values,
                 map' = [map EXCEPT ![k] = [value |-> v, inserted_at |-> clock]]
          PROVE  map' \in [DOMAIN map -> Entry]
      <4>1. [value |-> v, inserted_at |-> clock] \in Entry
        BY <1>0 DEF TypeOK, Entry
      <4> QED BY <3>1, <3>2, <4>1
    <3>3. CASE map' = map
      BY <3>1, <3>3
    <3> QED BY <1>4, <3>1, <3>2, <3>3
  <2>2. (~enabled => order = <<>>)'
    <3>1. enabled
      BY <1>0, <1>2 DEF TypeOK
    <3> QED BY <1>5, <3>1 DEF enabled
  <2>3. written' \in [Keys -> [value : Values, at : Nat] \cup {Absent}]
    BY <1>0 DEF TypeOK, Wrote
  <2>4. ops' \in Nat
    BY <1>5
  <2> QED BY <1>0, <1>3, <1>5, <1>u, <2>1, <2>2, <2>3, <2>4 DEF TypeOK
<1>7. Coherent'
  BY <1>1, <1>3, <1>4, <1>5 DEF Coherent, Elements, Injective
<1>8. RecencyOrder'
  <2> SUFFICES ASSUME NEW a \in 1..n, NEW b \in 1..n, a < b
               PROVE  used'[order'[a]] > used'[order'[b]]
    BY <1>3 DEF RecencyOrder
  <2> DEFINE y == IF b <= i THEN b - 1 ELSE b
  <2>1. b # 1 /\ y \in 1..n /\ order'[b] = order[y] /\ y # i
    BY <1>1, <1>2, <1>3
  <2>2. order[y] \in Keys /\ order[y] # k
    <3> HIDE DEF y
    <3> QED BY <1>1, <1>2, <2>1 DEF Injective
  <2>3. used'[order'[b]] = used[order[y]] /\ used[order[y]] \in Nat
        /\ used[order[y]] <= ops
    <3> HIDE DEF y
    <3> QED BY <1>u, <2>1, <2>2
  <2>4. CASE a = 1
    <3>1. used'[order'[a]] = ops + 1
      BY <1>3, <1>u, <2>4
    <3> HIDE DEF y
    <3> QED BY <1>5, <2>3, <3>1
  <2>5. CASE a # 1
    <3> DEFINE x == IF a <= i THEN a - 1 ELSE a
    <3>1. x \in 1..n /\ order'[a] = order[x] /\ x # i /\ x < y
      BY <1>1, <1>2, <1>3, <2>5
    <3> HIDE DEF x, y
    <3>2. order[x] \in Keys /\ order[x] # k
      BY <1>1, <1>2, <3>1 DEF Injective
    <3>3. used'[order'[a]] = used[order[x]]
      BY <1>u, <3>1, <3>2
    <3> QED BY <1>0, <2>1, <2>3, <3>1, <3>3 DEF RecencyOrder
  <2> QED BY <2>4, <2>5
<1>9. UsedBefore'
  <2>1. \A x \in Keys : used'[x] <= ops + 1
    BY <1>5, <1>u
  <2> QED BY <1>5, <2>1 DEF UsedBefore
<1>10. HoldsLatest'
  <2> SUFFICES ASSUME NEW x \in DOMAIN map
               PROVE  written'[x] = [value |-> map'[x].value, at |-> map'[x].inserted_at]
    BY <1>4 DEF HoldsLatest
  <2>1. x \in Keys
    BY <1>0 DEF TypeOK
  <2>2. CASE UNCHANGED <<map, written>>
    BY <1>0, <2>2 DEF HoldsLatest
  <2>3. ASSUME NEW v \in Values, Wrote(k, v),
               map' = [map EXCEPT ![k] = [value |-> v, inserted_at |-> clock]]
        PROVE  written'[x] = [value |-> map'[x].value, at |-> map'[x].inserted_at]
    <3>1. CASE x = k
      BY <1>0, <2>1, <2>3, <3>1 DEF Wrote, TypeOK
    <3>2. CASE x # k
      <4>1. written'[x] = written[x] /\ map'[x] = map[x]
        BY <1>0, <2>1, <2>3, <3>2 DEF Wrote, TypeOK
      <4> QED BY <1>0, <4>1 DEF HoldsLatest
    <3> QED BY <3>1, <3>2
  <2> QED BY <2>2, <2>3
<1> QED BY <1>6, <1>7, <1>8, <1>9, <1>10 DEF Inv

\* Inserting a new key, and evicting from the back when there is no room.
LEMMA InsertInv ==
    ASSUME Inv, NEW k \in Keys, NEW v \in Values, PutInsert(k, v)
    PROVE  Inv'
<1> DEFINE n == Len(order)
           p == PushFront(order, k)
           q == IF Len(p) > config.max_entries THEN Evicted(p) ELSE p
           e == [value |-> v, inserted_at |-> clock]
           g == Emplace(map, k, e)
<1>0. TypeOK /\ Coherent /\ RecencyOrder /\ UsedBefore /\ HoldsLatest
  BY DEF Inv
<1>1. /\ order \in Seq(Keys) /\ Elements(order) = DOMAIN map
      /\ Injective(order) /\ n <= config.max_entries /\ n \in Nat
      /\ k \notin DOMAIN map /\ config.max_entries \in Nat
      /\ config.max_entries > 0 /\ enabled
  BY <1>0, CoherentDef DEF TypeOK, Config, PutInsert, enabled
<1>2. /\ p \in Seq(Keys) /\ Len(p) = n + 1 /\ Injective(p) /\ p[1] = k
      /\ \A j \in 2..(n + 1) : p[j] = order[j - 1]
  BY <1>1, PushFacts
<1> HIDE DEF p
<1>3. PICK m \in 1..(n + 1) :
         /\ q \in Seq(Keys) /\ Len(q) = m /\ Injective(q)
         /\ \A j \in 1..m : q[j] = p[j]
         /\ m <= config.max_entries
  <2>1. CASE Len(p) > config.max_entries
    <3>1. q = SubSeq(p, 1, config.max_entries)
      BY <2>1 DEF Evicted
    <3>2. config.max_entries \in 1..(n + 1) /\ config.max_entries <= Len(p)
      BY <1>1, <1>2, <2>1
    <3> HIDE DEF q
    <3> QED BY <1>1, <1>2, <3>1, <3>2, PrefixFacts
  <2>2. CASE ~(Len(p) > config.max_entries)
    <3>1. n + 1 \in 1..(n + 1) /\ q = p /\ n + 1 <= config.max_entries
      BY <1>1, <1>2, <2>2
    <3> HIDE DEF q
    <3> QED BY <1>2, <3>1
  <2> QED BY <2>1, <2>2
<1>4. /\ order' = q /\ map' = [x \in Elements(q) |-> g[x]]
      /\ Use(k) /\ Wrote(k, v) /\ answer' = Absent
  BY DEF PutInsert, Elements, p
<1>5. UNCHANGED <<config, clock>> /\ ops' = ops + 1 /\ ops \in Nat
  BY <1>0 DEF PutInsert, Operation, TypeOK
<1>u. /\ used' \in [Keys -> Nat] /\ used'[k] = ops + 1
      /\ \A x \in Keys : x # k => used'[x] = used[x]
      /\ \A x \in Keys : used[x] \in Nat /\ used[x] <= ops
  BY <1>0, <1>4, <1>5 DEF Use, TypeOK, UsedBefore
<1>e. e \in Entry /\ e.value = v /\ e.inserted_at = clock
  BY <1>0 DEF TypeOK, Entry
<1> HIDE DEF q, e
<1>k. \A x \in Elements(q) :
         /\ x \in Keys
         /\ x = k \/ x \in DOMAIN map
         /\ g[x] = IF x = k THEN e ELSE map[x]
  <2> SUFFICES ASSUME NEW j \in 1..m
               PROVE  q[j] = k \/ q[j] \in DOMAIN map
    <3>1. \A x \in DOMAIN map \cup {k} : x \in Keys /\ g[x] = IF x = k THEN e ELSE map[x]
      BY <1>0 DEF Emplace, TypeOK
    <3> QED BY <1>3, <3>1 DEF Elements
  <2>1. CASE j = 1
    BY <1>2, <1>3, <2>1
  <2>2. CASE j # 1
    <3>1. j \in 2..(n + 1) /\ j - 1 \in 1..n
      BY <1>1, <2>2
    <3>2. q[j] = order[j - 1]
      BY <1>2, <1>3, <3>1
    <3> QED BY <1>1, <3>1, <3>2 DEF Elements
  <2> QED BY <2>1, <2>2
<1> HIDE DEF g
<1>6. TypeOK'
  <2>1. map' \in [DOMAIN map' -> Entry] /\ DOMAIN map' \subseteq Keys
    BY <1>0, <1>4, <1>e, <1>k DEF TypeOK
  <2>2. (~enabled => order = <<>>)'
    BY <1>1, <1>5 DEF enabled
  <2>3. written' \in [Keys -> [value : Values, at : Nat] \cup {Absent}]
    BY <1>0, <1>4 DEF TypeOK, Wrote
  <2>4. ops' \in Nat
    BY <1>5
  <2> QED BY <1>0, <1>3, <1>4, <1>5, <1>u, <2>1, <2>2, <2>3, <2>4 DEF TypeOK
<1>7. Coherent'
  <2>1. DOMAIN map' = Elements(q)
    BY <1>4
  <2> QED BY <1>3, <1>4, <1>5, <2>1 DEF Coherent, Elements, Injective
<1>8. RecencyOrder'
  <2> SUFFICES ASSUME NEW a \in 1..m, NEW b \in 1..m, a < b
               PROVE  used'[q[a]] > used'[q[b]]
    BY <1>3, <1>4 DEF RecencyOrder
  <2>1. /\ b \in 2..(n + 1) /\ b - 1 \in 1..n /\ q[b] = order[b - 1]
    BY <1>1, <1>2, <1>3
  <2>2. q[b] # k /\ q[b] \in Keys
    BY <1>1, <2>1 DEF Elements
  <2>3. used'[q[b]] = used[q[b]] /\ used[q[b]] <= ops /\ used[q[b]] \in Nat
    BY <1>u, <2>2
  <2>4. CASE a = 1
    <3>1. used'[q[a]] = ops + 1
      BY <1>2, <1>3, <1>u, <2>4
    <3> QED BY <1>5, <2>3, <3>1
  <2>5. CASE a # 1
    <3>1. /\ a - 1 \in 1..n /\ q[a] = order[a - 1] /\ a - 1 < b - 1
      BY <1>1, <1>2, <1>3, <2>1, <2>5
    <3>2. q[a] # k /\ q[a] \in Keys
      BY <1>1, <3>1 DEF Elements
    <3>3. used'[q[a]] = used[q[a]]
      BY <1>u, <3>2
    <3>4. used[order[a - 1]] > used[order[b - 1]]
      BY <1>0, <2>1, <3>1 DEF RecencyOrder
    <3> QED BY <2>1, <2>3, <3>1, <3>3, <3>4
  <2> QED BY <2>4, <2>5
<1>9. UsedBefore'
  <2>1. \A x \in Keys : used'[x] <= ops + 1
    BY <1>5, <1>u
  <2> QED BY <1>5, <2>1 DEF UsedBefore
<1>10. HoldsLatest'
  <2> SUFFICES ASSUME NEW x \in Elements(q)
               PROVE  written'[x] = [value |-> map'[x].value, at |-> map'[x].inserted_at]
    BY <1>4 DEF HoldsLatest
  <2>1. x \in Keys /\ map'[x] = IF x = k THEN e ELSE map[x]
    <3>1. map' = [y \in Elements(q) |-> g[y]]
      BY <1>4
    <3>2. map'[x] = g[x]
      BY <3>1
    <3>3. x \in Keys /\ g[x] = IF x = k THEN e ELSE map[x]
      BY <1>k
    <3> QED BY <3>2, <3>3
  <2>2. CASE x = k
    <3>1. written'[x] = [value |-> v, at |-> clock]
      BY <1>0, <1>4, <2>2 DEF Wrote, TypeOK
    <3> QED BY <1>e, <2>1, <2>2, <3>1
  <2>3. CASE x # k
    <3>1. written'[x] = written[x] /\ map'[x] = map[x] /\ x \in DOMAIN map
      BY <1>0, <1>4, <1>k, <2>1, <2>3 DEF Wrote, TypeOK
    <3> QED BY <1>0, <3>1 DEF HoldsLatest
  <2> QED BY <2>2, <2>3
<1> QED BY <1>6, <1>7, <1>8, <1>9, <1>10 DEF Inv

\* A put that throws leaves the list as it found it.
LEMMA ThrowsRollsBack ==
    ASSUME Inv, NEW k \in Keys, PutThrows(k)
    PROVE  order' = order
BY PushFacts, CoherentDef DEF Inv, TypeOK, PutThrows

\* An operation that leaves the cache alone.
LEMMA IdleInv ==
    ASSUME Inv, UNCHANGED <<config, order, map, used, written>>,
           answer' \in Values \cup {Absent},
           \/ Operation
           \/ ops' = ops /\ clock' \in {clock, clock + 1}
    PROVE  Inv'
<1>0. TypeOK /\ Coherent /\ RecencyOrder /\ UsedBefore /\ HoldsLatest
  BY DEF Inv
<1>1. ops \in Nat /\ clock \in Nat /\ used \in [Keys -> Nat]
  BY <1>0 DEF TypeOK
<1>2. ops' \in {ops, ops + 1} /\ clock' \in {clock, clock + 1}
  BY DEF Operation
<1>3. TypeOK'
  BY <1>0, <1>1, <1>2 DEF TypeOK, enabled
<1>4. Coherent' /\ RecencyOrder' /\ HoldsLatest'
  BY <1>0 DEF Coherent, RecencyOrder, HoldsLatest
<1>5. UsedBefore'
  BY <1>0, <1>1, <1>2 DEF UsedBefore
<1> QED BY <1>3, <1>4, <1>5 DEF Inv

LEMMA NextInv ==
    ASSUME Inv, [Next]_vars
    PROVE  Inv'
<1>0. TypeOK /\ Coherent
  BY DEF Inv
<1>1. CASE Tick \/ Done \/ UNCHANGED vars
  BY <1>0, <1>1, IdleInv DEF Tick, Done, vars, members, TypeOK
<1>2. CASE clear
  <2>1. /\ order' = <<>> /\ DOMAIN map' = {} /\ map' \in [DOMAIN map' -> Entry]
        /\ config' = config /\ clock' = clock /\ ops' = ops + 1 /\ used' = used
        /\ written' \in [Keys -> [value : Values, at : Nat] \cup {Absent}]
        /\ answer' = Absent
    BY <1>2 DEF clear, Operation
  <2>2. TypeOK'
    BY <1>0, <2>1 DEF TypeOK
  <2>3. Coherent' /\ RecencyOrder' /\ HoldsLatest'
    <3>1. config.max_entries \in Nat
      BY <1>0 DEF TypeOK, Config
    <3> QED BY <2>1, <3>1 DEF Coherent, RecencyOrder, HoldsLatest
  <2>4. UsedBefore'
    BY <1>0, <2>1 DEF Inv, UsedBefore, TypeOK
  <2> QED BY <2>2, <2>3, <2>4 DEF Inv
<1>3. ASSUME NEW k \in Keys, get(k) PROVE Inv'
  <2>1. CASE GetMiss(k)
    BY <2>1, IdleInv DEF GetMiss, Operation
  <2>2. CASE GetExpired(k)
    BY <2>2, RemoveInv DEF GetExpired
  <2>3. CASE GetHit(k)
    <3>1. map[k].value \in Values
      BY <1>0, <2>3 DEF GetHit, TypeOK, Entry
    <3> QED BY <2>3, <3>1, TouchInv DEF GetHit
  <2> QED BY <1>3, <2>1, <2>2, <2>3 DEF get
<1>4. ASSUME NEW k \in Keys, NEW v \in Values, put(k, v) PROVE Inv'
  <2>1. CASE PutDisabled
    BY <2>1, IdleInv DEF PutDisabled, Operation
  <2>2. CASE PutUpdate(k, v)
    BY <2>2, TouchInv DEF PutUpdate
  <2>3. CASE PutInsert(k, v)
    BY <2>3, InsertInv
  <2>4. CASE PutThrows(k)
    BY <2>4, ThrowsRollsBack, IdleInv DEF PutThrows, Operation
  <2> QED BY <1>4, <2>1, <2>2, <2>3, <2>4 DEF put
<1>5. ASSUME NEW k \in Keys, invalidate(k) PROVE Inv'
  <2>1. CASE k \in DOMAIN map
    BY <1>5, <2>1, RemoveInv DEF invalidate
  <2>2. CASE k \notin DOMAIN map
    <3>1. /\ UNCHANGED <<config, order, map, used, clock>> /\ ops' = ops + 1
          /\ answer' = Absent /\ written' = [written EXCEPT ![k] = Absent]
      BY <1>5, <2>2 DEF invalidate, Operation
    <3>2. TypeOK'
      BY <1>0, <3>1 DEF TypeOK, enabled
    <3>3. Coherent' /\ RecencyOrder'
      BY <3>1 DEF Inv, Coherent, RecencyOrder
    <3>4. UsedBefore'
      BY <1>0, <3>1 DEF Inv, UsedBefore, TypeOK
    <3>5. HoldsLatest'
      BY <1>0, <2>2, <3>1 DEF Inv, HoldsLatest, TypeOK
    <3> QED BY <3>2, <3>3, <3>4, <3>5 DEF Inv
  <2> QED BY <2>1, <2>2
<1> QED BY <1>1, <1>2, <1>3, <1>4, <1>5 DEF Next

\* The invariant holds of every behaviour: the list and the map agree, and the
\* list is in order of use.
THEOREM CacheCoherent == Spec => [](TypeOK /\ Coherent /\ RecencyOrder)
<1>1. Inv /\ [Next]_vars => Inv'
  BY NextInv
<1>2. Inv => TypeOK /\ Coherent /\ RecencyOrder
  BY DEF Inv
<1> QED BY InitInv, <1>1, <1>2, PTL DEF Spec

\* The map has as many entries as the list.
LEMMA EntriesCounted ==
    ASSUME Inv
    PROVE  Cardinality(DOMAIN map) = Len(order)
<1> DEFINE n == Len(order)
           S == DOMAIN map
<1>1. order \in Seq(Keys) /\ n \in Nat /\ Injective(order) /\ Elements(order) = S
  BY CoherentDef DEF Inv, TypeOK
<1>2. order \in [1..n -> S]
  BY <1>1 DEF Elements
<1>3. order \in Bijection(1..n, S)
  <2>1. \A i, j \in 1..n : order[i] = order[j] => i = j
    BY <1>1 DEF Injective
  <2>2. \A x \in S : \E i \in 1..n : order[i] = x
    BY <1>1 DEF Elements
  <2> HIDE DEF n, S
  <2> QED BY <1>2, <2>1, <2>2
      DEF Bijection, Injection, Surjection, IsInjective
<1>4. ExistsBijection(1..n, S)
  BY <1>3 DEF ExistsBijection
<1> HIDE DEF S
<1> QED BY <1>1, <1>4, FS_CountingElements DEF S

\* What EvictsLeastRecent says of a step.
MakesRoom(k) ==
    /\ k \in DOMAIN map'
    /\ \A x \in DOMAIN map \ DOMAIN map' :
           /\ Cardinality(DOMAIN map) = config.max_entries
           /\ \A y \in DOMAIN map \cap DOMAIN map' : used[y] > used[x]

\* Only the last key of a full list is dropped.
LEMMA InsertMakesRoom ==
    ASSUME Inv, NEW k \in Keys, NEW v \in Values, PutInsert(k, v)
    PROVE  MakesRoom(k)
<1> DEFINE n == Len(order)
           p == PushFront(order, k)
           q == IF Len(p) > config.max_entries THEN Evicted(p) ELSE p
<1>0. TypeOK /\ Coherent /\ RecencyOrder
  BY DEF Inv
<1>1. /\ order \in Seq(Keys) /\ Elements(order) = DOMAIN map
      /\ Injective(order) /\ n <= config.max_entries /\ n \in Nat
      /\ k \notin DOMAIN map /\ config.max_entries \in Nat
      /\ config.max_entries > 0
  BY <1>0, CoherentDef DEF TypeOK, Config, PutInsert, enabled
<1>2. /\ p \in Seq(Keys) /\ Len(p) = n + 1 /\ Injective(p) /\ p[1] = k
      /\ \A j \in 2..(n + 1) : p[j] = order[j - 1]
  BY <1>1, PushFacts
<1>3. DOMAIN map' = Elements(q)
  BY DEF PutInsert, Elements
<1> HIDE DEF p
<1>4. /\ Len(p) > config.max_entries =>
             /\ Len(q) = config.max_entries
             /\ \A j \in 1..config.max_entries : q[j] = p[j]
      /\ ~(Len(p) > config.max_entries) => q = p
  <2>1. CASE Len(p) > config.max_entries
    <3>1. q = SubSeq(p, 1, config.max_entries)
      BY <2>1 DEF Evicted
    <3>2. config.max_entries <= Len(p)
      BY <1>1, <1>2, <2>1
    <3> HIDE DEF q
    <3> QED BY <1>1, <1>2, <2>1, <3>1, <3>2, PrefixFacts
  <2>2. CASE ~(Len(p) > config.max_entries)
    BY <2>2
  <2> QED BY <2>1, <2>2
<1> HIDE DEF q
<1>5. k \in Elements(q)
  <2>1. 1 \in 1..Len(q) /\ q[1] = k
    BY <1>1, <1>2, <1>4
  <2> QED BY <2>1 DEF Elements
<1>6. ASSUME NEW i \in 1..n, order[i] \notin Elements(q)
      PROVE  i = n /\ n = config.max_entries
  <2>1. i + 1 \in 2..(n + 1) /\ p[i + 1] = order[i]
    BY <1>1, <1>2
  <2>2. ~(i + 1 \in 1..Len(q) /\ q[i + 1] = p[i + 1])
    BY <1>6, <2>1 DEF Elements
  <2>3. Len(p) > config.max_entries
    BY <1>1, <1>2, <1>4, <2>1, <2>2
  <2>4. i + 1 > config.max_entries
    BY <1>1, <1>4, <2>1, <2>2, <2>3
  <2> QED BY <1>1, <1>2, <2>3, <2>4
<1>7. ASSUME NEW x \in DOMAIN map, x \notin Elements(q)
      PROVE  /\ Cardinality(DOMAIN map) = config.max_entries
             /\ \A y \in DOMAIN map \cap Elements(q) : used[y] > used[x]
  <2>1. PICK i \in 1..n : order[i] = x
    BY <1>1 DEF Elements
  <2>2. i = n /\ n = config.max_entries
    BY <1>6, <1>7, <2>1
  <2>3. ASSUME NEW y \in DOMAIN map, y \in Elements(q)
        PROVE  used[y] > used[x]
    <3>1. PICK j \in 1..n : order[j] = y
      BY <1>1 DEF Elements
    <3>2. j # i
      BY <1>7, <2>1, <2>3, <3>1
    <3>3. j < i
      BY <1>1, <2>2, <3>2
    <3> QED BY <1>0, <2>1, <3>1, <3>3 DEF RecencyOrder
  <2> QED BY <2>2, <2>3, EntriesCounted
<1> QED BY <1>3, <1>5, <1>7 DEF MakesRoom

\* A key leaves the cache, other than by name or by age, only to make room
\* for a new one, which is let in, and every key that stays was used after it.
THEOREM EvictsLeastRecentTheorem == Spec => EvictsLeastRecent
<1>1. Inv /\ [Next]_vars => Inv'
  BY NextInv
<1>2. Inv /\ [Next]_vars =>
        [\A k \in Keys, v \in Values : PutInsert(k, v) =>
            /\ k \in DOMAIN map'
            /\ \A x \in DOMAIN map \ DOMAIN map' :
                /\ Cardinality(DOMAIN map) = config.max_entries
                /\ \A y \in DOMAIN map \cap DOMAIN map' : used[y] > used[x]]_vars
  BY InsertMakesRoom DEF MakesRoom
<1> QED BY InitInv, <1>1, <1>2, PTL DEF Spec, EvictsLeastRecent
-----------------------------------------------------------------------------
(* The cache implements the lossy store.                                   *)

\* A hit is answered with the latest write, and in time.
LEMMA HitIsFresh ==
    ASSUME Inv, NEW k \in Keys, GetHit(k)
    PROVE  Promise!Hit(k)
<1>1. /\ k \in DOMAIN map /\ ~Expired(k) /\ answer' = map[k].value
      /\ UNCHANGED <<config, clock, written>>
  BY DEF GetHit, Operation
<1>2. written[k] = [value |-> map[k].value, at |-> map[k].inserted_at]
  BY <1>1 DEF Inv, HoldsLatest
<1>3. written[k].value = map[k].value /\ written[k].at = map[k].inserted_at
  BY <1>2
<1>4. map[k].inserted_at \in Nat /\ clock \in Nat /\ config.ttl \in Int
  BY <1>1 DEF Inv, TypeOK, Entry, Config
<1>5. clock - written[k].at <= config.ttl
  BY <1>1, <1>3, <1>4 DEF Expired
<1>6. written[k] # Absent
  <2>1. map[k].value \in Values
    BY <1>1 DEF Inv, TypeOK, Entry
  <2> QED BY <1>2, <1>4, <2>1, AbsentAssumption
<1> QED BY <1>1, <1>3, <1>5, <1>6 DEF Promise!Hit

\* The cache is a store that may drop what it likes, but never serves an
\* outdated or an overwritten value.
THEOREM Refinement == Spec => ImplementsStore
<1>1. Init => Promise!Init
  BY ConfigAssumption DEF Init, Promise!Init, Config
<1>2. Inv /\ [Next]_vars => [Promise!Next]_(Promise!vars)
  <2> SUFFICES ASSUME Inv, [Next]_vars PROVE [Promise!Next]_(Promise!vars)
    OBVIOUS
  <2>1. CASE Tick \/ Done \/ UNCHANGED vars
    BY <2>1 DEF Tick, Done, vars, members, Promise!Next, Promise!Tick, Promise!vars
  <2>2. CASE clear
    BY <2>2 DEF clear, Operation, Promise!Next, Promise!ForgetAll
  <2>3. ASSUME NEW k \in Keys, get(k) PROVE Promise!Next
    <3>1. CASE GetHit(k)
      BY <3>1, HitIsFresh DEF Promise!Next
    <3>2. CASE GetMiss(k) \/ GetExpired(k)
      BY <3>2 DEF GetMiss, GetExpired, Operation, Promise!Next, Promise!Nothing
    <3> QED BY <2>3, <3>1, <3>2 DEF get
  <2>4. ASSUME NEW k \in Keys, NEW v \in Values, put(k, v) PROVE Promise!Next
    <3>1. CASE PutDisabled \/ PutThrows(k)
      BY <3>1 DEF PutDisabled, PutThrows, Operation, Promise!Next, Promise!Nothing
    <3>2. CASE PutUpdate(k, v) \/ PutInsert(k, v)
      BY <3>2 DEF PutUpdate, PutInsert, Wrote, Operation, Promise!Next,
                  Promise!Store
    <3> QED BY <2>4, <3>1, <3>2 DEF put
  <2>5. ASSUME NEW k \in Keys, invalidate(k) PROVE Promise!Next
    BY <2>5 DEF invalidate, Operation, Promise!Next, Promise!Forget
  <2> QED BY <2>1, <2>2, <2>3, <2>4, <2>5 DEF Next
<1>3. Spec => []Inv
  <2>1. Inv /\ [Next]_vars => Inv'
    BY NextInv
  <2> QED BY InitInv, <2>1, PTL DEF Spec
<1> QED BY <1>1, <1>2, <1>3, PTL DEF Spec, ImplementsStore, Promise!Spec
=============================================================================
