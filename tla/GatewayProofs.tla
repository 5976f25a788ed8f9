----------------------------- MODULE GatewayProofs -----------------------------
(* Theorems about Gateway, for every number of keys, sockets and partitions and *)
(* every window, age and cap of the cache.  The first part is about the cache:  *)
(* whatever eviction takes away, what an event leaves in the cache is its own   *)
(* entry and some of the entries of other keys.                                 *)
EXTENDS Gateway, FiniteSetTheorems, TLAPS

-----------------------------------------------------------------------------
(* The places that are kept.                                                    *)

RankIn(K, n) == Cardinality({m \in K : m <= n})

\* Counting up to a kept place numbers the kept places without a gap, in order.
LEMMA RanksNumber ==
  ASSUME NEW N \in Nat, NEW K \in SUBSET (1 .. N)
  PROVE  /\ IsFiniteSet(K) /\ Cardinality(K) \in 0 .. N
         /\ \A n \in K : RankIn(K, n) \in 1 .. Cardinality(K)
         /\ \A n, m \in K : n < m => RankIn(K, n) < RankIn(K, m)
         /\ \A j \in 1 .. Cardinality(K) : \E n \in K : RankIn(K, n) = j
         /\ N \in K => RankIn(K, N) = Cardinality(K)
<1> DEFINE Upto(n) == {m \in K : m <= n}
<1>0. \A n \in K : n \in Int /\ n <= N
  OBVIOUS
<1>1. IsFiniteSet(1 .. N) /\ Cardinality(1 .. N) = N
  <2>1. IsFiniteSet(1 .. N) /\ Cardinality(1 .. N) = IF 1 > N THEN 0 ELSE N - 1 + 1
    BY FS_Interval
  <2>. QED
    BY <2>1
<1>2. IsFiniteSet(K) /\ Cardinality(K) \in 0 .. N
  <2>1. IsFiniteSet(K) /\ Cardinality(K) <= N
    BY <1>1, FS_Subset
  <2>2. Cardinality(K) \in Nat
    BY <2>1, FS_CardinalityType
  <2>. QED
    BY <2>1, <2>2
<1>3. \A n \in K : /\ IsFiniteSet(Upto(n)) /\ Cardinality(Upto(n)) \in Nat
                   /\ Cardinality(Upto(n)) <= Cardinality(K)
  <2> TAKE n \in K
  <2>1. Upto(n) \in SUBSET K
    OBVIOUS
  <2>. QED
    BY <1>2, <2>1, FS_Subset, FS_CardinalityType
<1>4. \A n \in K : Cardinality(Upto(n)) # 0
  <2> TAKE n \in K
  <2>1. n \in Upto(n)
    OBVIOUS
  <2>2. IsFiniteSet(Upto(n))
    BY <1>3
  <2>. HIDE DEF Upto
  <2>. QED
    BY <2>1, <2>2, FS_EmptySet
<1>5. \A n, m \in K : n < m => Cardinality(Upto(n)) < Cardinality(Upto(m))
  <2> SUFFICES ASSUME NEW n \in K, NEW m \in K, n < m
               PROVE  Cardinality(Upto(n)) < Cardinality(Upto(m))
    OBVIOUS
  <2>1. Upto(n) \in SUBSET Upto(m) /\ m \in Upto(m) /\ m \notin Upto(n)
    <3>1. n \in Int /\ m \in Int
      BY <1>0
    <3>2. \A k \in K : k <= n => k <= m
      BY <1>0, <3>1
    <3>3. m <= m /\ ~(m <= n)
      BY <3>1
    <3>. QED
      BY <3>2, <3>3
  <2>2. Upto(n) # Upto(m)
    BY <2>1
  <2>3. /\ IsFiniteSet(Upto(m)) /\ Cardinality(Upto(m)) \in Nat
        /\ Cardinality(Upto(n)) \in Nat
    BY <1>3
  <2>. HIDE DEF Upto
  <2>4. /\ Cardinality(Upto(n)) <= Cardinality(Upto(m))
        /\ Cardinality(Upto(n)) # Cardinality(Upto(m))
    BY <2>1, <2>2, <2>3, FS_Subset
  <2>. QED
    BY <2>3, <2>4
<1>6. \A n \in K : Upto(n) = {m \in K : m <= n} /\ RankIn(K, n) = Cardinality(Upto(n))
  BY DEF RankIn
<1>. HIDE DEF Upto
<1>7. \A n \in K : RankIn(K, n) \in 1 .. Cardinality(K)
  BY <1>2, <1>3, <1>4, <1>6
<1>8. \A n, m \in K : n < m => RankIn(K, n) < RankIn(K, m)
  BY <1>5, <1>6
\* As many ranks as places, so every rank is taken.
<1>9. \A j \in 1 .. Cardinality(K) : \E n \in K : RankIn(K, n) = j
  <2> DEFINE f == [n \in K |-> RankIn(K, n)]
  <2>1. f \in [K -> 1 .. Cardinality(K)]
    BY <1>7
  <2>2. \A n, m \in K : n # m => n < m \/ m < n
    BY <1>0
  <2>3. \A n, m \in K : f[n] = f[m] => n = m
    <3> SUFFICES ASSUME NEW n \in K, NEW m \in K, n # m PROVE RankIn(K, n) # RankIn(K, m)
      OBVIOUS
    <3>1. n < m \/ m < n
      BY <2>2
    <3>. QED
      BY <1>2, <1>7, <1>8, <3>1
  <2>4. f \in Injection(K, 1 .. Cardinality(K))
    BY <2>1, <2>3 DEF Injection, IsInjective
  <2>5. /\ IsFiniteSet(1 .. Cardinality(K))
        /\ Cardinality(1 .. Cardinality(K)) = Cardinality(K)
    BY <1>2, FS_Interval
  <2>6. f \in Surjection(K, 1 .. Cardinality(K))
    BY <2>4, <2>5, FS_Injection
  <2>. QED
    BY <2>6 DEF Surjection
<1>10. N \in K => RankIn(K, N) = Cardinality(K)
  <2> SUFFICES ASSUME N \in K PROVE RankIn(K, N) = Cardinality(K)
    OBVIOUS
  <2>1. \A m \in K : m <= N
    BY <1>0
  <2>2. {m \in K : m <= N} = K
    BY <2>1
  <2>. QED
    BY <2>2 DEF RankIn
<1>. QED
  BY <1>2, <1>7, <1>8, <1>9, <1>10

-----------------------------------------------------------------------------
(* The cache.                                                                   *)

DedupKeys == {DedupKey(r) : r \in Records}
Slots == [key : DedupKeys, value : Records \cup {Placeholder}, at : Nat]

\* The entries of a cache without their places, and no key twice.
Entries(c) == {c[n] : n \in DOMAIN c}
OnePerKey(c) == \A n, m \in DOMAIN c : c[n].key = c[m].key => n = m
Fresh(e) == now - e.at <= Ttl

\* Evicting leaves the fresh entries, in their places' order.
LEMMA UnexpiredKeeps ==
  ASSUME NEW c \in Seq(Slots), OnePerKey(c), now \in Nat
  PROVE  /\ Unexpired(c) \in Seq(Slots) /\ OnePerKey(Unexpired(c))
         /\ Len(Unexpired(c)) <= Len(c)
         /\ Entries(Unexpired(c)) = {e \in Entries(c) : Fresh(e)}
         /\ Len(c) > 0 /\ Fresh(c[Len(c)])
              => /\ Len(Unexpired(c)) > 0
                 /\ Unexpired(c)[Len(Unexpired(c))] = c[Len(c)]
<1> DEFINE K == {n \in DOMAIN c : Fresh(c[n])}
           place == [j \in 1 .. Cardinality(K) |-> CHOOSE n \in K : RankIn(K, n) = j]
           d == Unexpired(c)
<1>1. Len(c) \in Nat /\ DOMAIN c = 1 .. Len(c) /\ K \in SUBSET (1 .. Len(c))
  OBVIOUS
<1>2. /\ IsFiniteSet(K) /\ Cardinality(K) \in 0 .. Len(c)
      /\ \A n \in K : RankIn(K, n) \in 1 .. Cardinality(K)
      /\ \A n, m \in K : n < m => RankIn(K, n) < RankIn(K, m)
      /\ \A j \in 1 .. Cardinality(K) : \E n \in K : RankIn(K, n) = j
      /\ Len(c) \in K => RankIn(K, Len(c)) = Cardinality(K)
  BY <1>1, RanksNumber
<1>3. d = [j \in 1 .. Cardinality(K) |-> c[place[j]]]
  BY DEF Unexpired, RankIn, Fresh
<1>4. \A j \in 1 .. Cardinality(K) : place[j] \in K /\ RankIn(K, place[j]) = j
  BY <1>2
<1>5. \A n, m \in K : RankIn(K, n) = RankIn(K, m) => n = m
  <2> SUFFICES ASSUME NEW n \in K, NEW m \in K, n # m PROVE RankIn(K, n) # RankIn(K, m)
    OBVIOUS
  <2>1. n \in Nat /\ m \in Nat
    BY <1>1
  <2>. HIDE DEF K
  <2>2. n < m \/ m < n
    BY <2>1
  <2>. QED
    BY <1>2, <2>2
<1>6. \A n \in K : \E j \in 1 .. Cardinality(K) : place[j] = n
  <2> TAKE n \in K
  <2>. HIDE DEF K, place
  <2>1. RankIn(K, n) \in 1 .. Cardinality(K)
    BY <1>2
  <2>2. place[RankIn(K, n)] = n
    BY <1>4, <1>5, <2>1
  <2>. QED
    BY <2>1, <2>2
<1>7. \A n \in K : n \in DOMAIN c /\ c[n] \in Slots /\ Fresh(c[n])
  OBVIOUS
<1>8. \A n \in DOMAIN c : Fresh(c[n]) => n \in K
  OBVIOUS
<1>. HIDE DEF K, place, d
<1>9. Cardinality(K) \in Nat /\ DOMAIN d = 1 .. Cardinality(K)
  BY <1>2, <1>3
<1>10. d \in Seq(Slots) /\ Len(d) = Cardinality(K)
  <2>1. \A j \in 1 .. Cardinality(K) : c[place[j]] \in Slots
    BY <1>4, <1>7
  <2>. QED
    BY <1>3, <1>9, <2>1
<1>11. OnePerKey(d)
  <2> SUFFICES ASSUME NEW i \in DOMAIN d, NEW j \in DOMAIN d, d[i].key = d[j].key
               PROVE  i = j
    BY DEF OnePerKey
  <2>1. c[place[i]].key = c[place[j]].key
    BY <1>3, <1>9
  <2>2. place[i] \in K /\ place[j] \in K
    BY <1>4, <1>9
  <2>3. place[i] = place[j]
    BY <1>7, <2>1, <2>2 DEF OnePerKey
  <2>. QED
    BY <1>4, <1>9, <2>3
<1>12. Entries(d) = {e \in Entries(c) : Fresh(e)}
  <2>1. \A j \in DOMAIN d : d[j] \in Entries(c) /\ Fresh(d[j])
    BY <1>3, <1>4, <1>7, <1>9 DEF Entries
  <2>2. \A n \in DOMAIN c : Fresh(c[n]) => c[n] \in Entries(d)
    <3> SUFFICES ASSUME NEW n \in DOMAIN c, Fresh(c[n]) PROVE c[n] \in Entries(d)
      OBVIOUS
    <3>1. PICK j \in 1 .. Cardinality(K) : place[j] = n
      BY <1>6, <1>8
    <3>. QED
      BY <1>3, <1>9, <3>1 DEF Entries
  <2>. QED
    BY <2>1, <2>2 DEF Entries
<1>13. ASSUME Len(c) > 0, Fresh(c[Len(c)])
       PROVE  Len(d) > 0 /\ d[Len(d)] = c[Len(c)]
  <2>1. Len(c) \in K
    BY <1>1, <1>8, <1>13
  <2>2. Cardinality(K) \in 1 .. Cardinality(K)
    BY <1>2, <2>1
  <2>3. place[Cardinality(K)] = Len(c)
    BY <1>2, <1>4, <1>5, <2>1, <2>2
  <2>. QED
    BY <1>3, <1>10, <2>2, <2>3
<1>. QED
  BY <1>1, <1>2, <1>10, <1>11, <1>12, <1>13 DEF d

Entry(key, value) == [key |-> key, value |-> value, at |-> now]

\* Setting a key replaces its entry or adds one at the end.
LEMMA PutSets ==
  ASSUME NEW c \in Seq(Slots), OnePerKey(c), now \in Nat,
         NEW key \in DedupKeys, NEW value \in Records \cup {Placeholder}
  PROVE  /\ Put(c, key, value) \in Seq(Slots) /\ OnePerKey(Put(c, key, value))
         /\ Len(Put(c, key, value)) = IF Cached(c, key) THEN Len(c) ELSE Len(c) + 1
         /\ Entries(Put(c, key, value))
              = {e \in Entries(c) : e.key # key} \cup {Entry(key, value)}
         /\ ~Cached(c, key) \/ (Len(c) > 0 /\ c[Len(c)].key = key)
              => /\ Len(Put(c, key, value)) > 0
                 /\ Put(c, key, value)[Len(Put(c, key, value))] = Entry(key, value)
<1> DEFINE e == Entry(key, value)
           d == Put(c, key, value)
<1>1. e \in Slots /\ e.key = key
  BY DEF Entry, Slots
<1>2. DOMAIN c = 1 .. Len(c) /\ Len(c) \in Nat /\ \A n \in DOMAIN c : c[n] \in Slots
  OBVIOUS
<1>. HIDE DEF e
<1>3. CASE Cached(c, key)
  <2>1. d = [n \in DOMAIN c |-> IF c[n].key = key THEN e ELSE c[n]]
    BY <1>3 DEF Put, Entry, e
  <2>2. PICK k \in DOMAIN c : c[k].key = key
    BY <1>3 DEF Cached
  <2>3. d[k] = e /\ \A n \in DOMAIN c : n # k => d[n] = c[n] /\ c[n].key # key
    BY <2>1, <2>2 DEF OnePerKey
  <2>4. DOMAIN d = DOMAIN c /\ \A n \in DOMAIN c : d[n] \in Slots
    BY <1>1, <1>2, <2>1
  <2>. HIDE DEF d
  <2>5. d \in Seq(Slots) /\ Len(d) = Len(c)
    <3>1. d = [n \in 1 .. Len(c) |-> d[n]]
      BY <1>2, <2>1
    <3>. QED
      BY <1>2, <2>4, <3>1
  <2>6. OnePerKey(d)
    BY <1>1, <2>3, <2>4 DEF OnePerKey
  <2>7. Entries(d) = {f \in Entries(c) : f.key # key} \cup {e}
    BY <1>1, <2>2, <2>3, <2>4 DEF Entries
  <2>8. ASSUME Len(c) > 0, c[Len(c)].key = key
        PROVE  Len(d) > 0 /\ d[Len(d)] = e
    <3>1. Len(c) \in DOMAIN c
      BY <1>2, <2>8
    <3>. QED
      BY <2>3, <2>5, <2>8, <3>1
  <2>. QED
    BY <1>3, <2>5, <2>6, <2>7, <2>8 DEF d, e
<1>4. CASE ~Cached(c, key)
  <2>1. d = Append(c, e)
    BY <1>4 DEF Put, Entry, e
  <2>2. \A n \in DOMAIN c : c[n].key # key
    BY <1>4 DEF Cached
  <2>. HIDE DEF d
  <2>3. d \in Seq(Slots) /\ Len(d) = Len(c) + 1 /\ DOMAIN d = 1 .. Len(c) + 1
    BY <1>1, <2>1
  <2>4. d[Len(c) + 1] = e /\ \A n \in 1 .. Len(c) : d[n] = c[n]
    BY <1>1, <2>1
  <2>5. \A n \in DOMAIN d : n \in DOMAIN c \/ n = Len(c) + 1
    BY <1>2, <2>3
  <2>6. \A n \in DOMAIN c : n \in DOMAIN d /\ d[n] = c[n]
    BY <1>2, <2>3, <2>4
  <2>7. Len(c) + 1 \in DOMAIN d
    BY <1>2, <2>3
  <2>8. OnePerKey(d)
    BY <1>1, <2>2, <2>4, <2>5, <2>6 DEF OnePerKey
  <2>9. Entries(d) = {f \in Entries(c) : f.key # key} \cup {e}
    BY <2>2, <2>4, <2>5, <2>6, <2>7 DEF Entries
  <2>10. Len(d) > 0 /\ d[Len(d)] = e
    BY <1>2, <2>3, <2>4
  <2>. QED
    BY <1>4, <2>3, <2>8, <2>9, <2>10 DEF d, e
<1>. QED
  BY <1>3, <1>4

\* What the duplicate check and cacheEvent leave when an event is no duplicate: its
\* entry, and of the other keys only entries that were there.  The event itself is
\* never what the cap takes, because beyond the cap its entry is the last.
LEMMA EventIsCached ==
  ASSUME NEW c \in Seq(Slots), OnePerKey(c), Len(c) <= MaxCache, now \in Nat,
         NEW r \in Records, ~IsDuplicate(c, DedupKey(r))
  PROVE  LET d == CacheEvent(Checked(c, DedupKey(r)), DedupKey(r), r)
             e == Entry(DedupKey(r), r)
         IN  /\ d \in Seq(Slots) /\ OnePerKey(d) /\ Len(d) <= MaxCache
             /\ e \in Entries(d)
             /\ Entries(d) \subseteq {f \in Entries(c) : f.key # DedupKey(r)} \cup {e}
<1> DEFINE key == DedupKey(r)
           e == Entry(key, r)
           h == Entry(key, Placeholder)
           c1 == Put(c, key, Placeholder)
           c2 == Unexpired(c1)
           c3 == Put(c2, key, r)
           others == {f \in Entries(c) : f.key # key}
<1>1. key \in DedupKeys /\ MaxCache \in Nat \ {0} /\ Ttl \in Nat
  BY GatewayAssumption DEF DedupKeys
<1>2. Checked(c, key) = c1
  BY DEF Checked
<1>3. CacheEvent(c1, key, r) = IF Len(c3) > MaxCache THEN Tail(c3) ELSE c3
  BY DEF CacheEvent
<1>4. h.key = key /\ Fresh(h) /\ e.key = key
  BY <1>1 DEF Entry, Fresh
<1>. HIDE DEF key
<1>5. /\ c1 \in Seq(Slots) /\ OnePerKey(c1)
      /\ Len(c1) = IF Cached(c, key) THEN Len(c) ELSE Len(c) + 1
      /\ Entries(c1) = others \cup {h}
      /\ ~Cached(c, key) => Len(c1) > 0 /\ c1[Len(c1)] = h
  BY <1>1, PutSets
<1>. HIDE DEF c1, h
<1>6. /\ c2 \in Seq(Slots) /\ OnePerKey(c2) /\ Len(c2) <= Len(c1)
      /\ Entries(c2) = {f \in others \cup {h} : Fresh(f)}
      /\ ~Cached(c, key) => Len(c2) > 0 /\ c2[Len(c2)] = h
  BY <1>4, <1>5, UnexpiredKeeps
<1>7. Cached(c2, key)
  <2>1. h \in Entries(c2)
    BY <1>4, <1>6
  <2>. QED
    BY <1>4, <2>1 DEF Entries, Cached
<1>. HIDE DEF c2
<1>8. /\ c3 \in Seq(Slots) /\ OnePerKey(c3) /\ Len(c3) = Len(c2)
      /\ Entries(c3) = {f \in Entries(c2) : f.key # key} \cup {e}
      /\ ~Cached(c, key) => Len(c3) > 0 /\ c3[Len(c3)] = e
  BY <1>1, <1>4, <1>6, <1>7, PutSets
<1>. HIDE DEF c3, e
<1>9. Entries(c3) \subseteq others \cup {e} /\ e \in Entries(c3)
  BY <1>4, <1>6, <1>8
<1>10. Len(c) \in Nat /\ Len(c1) \in Nat /\ Len(c2) \in Nat /\ Len(c3) \in Nat
  BY <1>5, <1>6, <1>8
<1>11. CASE Len(c3) <= MaxCache
  BY <1>1, <1>2, <1>3, <1>8, <1>9, <1>10, <1>11 DEF key, e
<1>12. CASE Len(c3) > MaxCache
  <2>1. ~Cached(c, key) /\ Len(c3) = MaxCache + 1 /\ Len(c3) > 1
    BY <1>1, <1>5, <1>6, <1>8, <1>10, <1>12
  <2> DEFINE d == Tail(c3)
  <2>2. /\ d \in Seq(Slots) /\ Len(d) = MaxCache
        /\ \A n \in DOMAIN d : n + 1 \in DOMAIN c3 /\ d[n] = c3[n + 1]
    BY <1>1, <1>8, <2>1
  <2>3. Len(d) \in DOMAIN d /\ d[Len(d)] = e
    BY <1>1, <1>8, <2>1, <2>2
  <2>4. DOMAIN d \subseteq Nat
    BY <2>2
  <2>. HIDE DEF d
  <2>5. OnePerKey(d)
    <3> SUFFICES ASSUME NEW n \in DOMAIN d, NEW m \in DOMAIN d, d[n].key = d[m].key
                 PROVE  n = m
      BY DEF OnePerKey
    <3>1. n + 1 = m + 1
      BY <1>8, <2>2 DEF OnePerKey
    <3>. QED
      BY <2>4, <3>1
  <2>6. Entries(d) \subseteq Entries(c3) /\ e \in Entries(d)
    BY <2>2, <2>3 DEF Entries
  <2>7. CacheEvent(Checked(c, key), key, r) = d
    BY <1>2, <1>3, <1>12 DEF d
  <2>. QED
    BY <1>1, <1>9, <2>2, <2>5, <2>6, <2>7 DEF key, e
<1>. QED
  BY <1>1, <1>10, <1>11, <1>12

\* What EntryOf returns is the one entry of the key.
LEMMA EntryOfKey ==
  ASSUME NEW c, OnePerKey(c), NEW e \in Entries(c)
  PROVE  Cached(c, e.key) /\ EntryOf(c, e.key) = e
<1>1. PICK k \in DOMAIN c : c[k] = e
  BY DEF Entries
<1>2. \A n \in DOMAIN c : c[n].key = e.key => n = k
  BY <1>1 DEF OnePerKey
<1>. QED
  BY <1>1, <1>2 DEF Cached, EntryOf

\* An event is dropped exactly if its key has an entry younger than the window.
LEMMA DuplicateIsRecent ==
  ASSUME NEW c, OnePerKey(c), NEW key
  PROVE  /\ IsDuplicate(c, key) => \E e \in Entries(c) : e.key = key /\ now - e.at < Window
         /\ \A e \in Entries(c) : e.key = key /\ now - e.at < Window => IsDuplicate(c, key)
<1>1. ASSUME Cached(c, key) PROVE \E e \in Entries(c) : e.key = key
  BY <1>1 DEF Cached, Entries
<1>. QED
  BY <1>1, EntryOfKey DEF IsDuplicate

\* Only an incident's own records have the key of the incident.
LEMMA KeyOfIncident ==
  ASSUME NEW i \in Incidents, NEW r \in Records
  PROVE  DedupKey(r) = <<"key", i>> <=> r.key = i
<1>1. i \notin Services
  BY GatewayAssumption
<1>. QED
  BY <1>1 DEF DedupKey

-----------------------------------------------------------------------------
(* Types.                                                                       *)

CacheTypes ==
  /\ cache \in Seq(Slots) /\ OnePerKey(cache) /\ Len(cache) <= MaxCache
  /\ \A e \in Entries(cache) :
       e.value \in Records /\ e.key = DedupKey(e.value) /\ e.at <= now

BridgeTypes ==
  /\ log \in [Partitions -> Seq(Records)]
  /\ position \in [Partitions -> Nat] /\ committed \in [Partitions -> Nat]
  /\ \A p \in Partitions : committed[p] <= position[p] /\ position[p] <= Len(log[p])

ClientTypes ==
  /\ connected \subseteq Sockets /\ synced \subseteq connected
  /\ left \in [Sockets -> Nat] /\ \A s \in Sockets : left[s] <= now
  /\ known \in [Sockets -> [Incidents -> Nat]]

HistoryTypes ==
  /\ pushed \in [Incidents -> [version : Nat, at : Nat]]
  /\ \A i \in Incidents : pushed[i].at <= now
  /\ handledAt \in [Incidents -> Nat] /\ evicted \subseteq Incidents

Counters == now \in 0 .. MaxTime /\ faults \in 0 .. MaxFaults

Types == CacheTypes /\ BridgeTypes /\ ClientTypes /\ HistoryTypes /\ Counters

\* Reading the next record of a partition: it is dropped, or cached and pushed.
LEMMA HandleEffect ==
  ASSUME Types, NEW p \in Partitions, Handle(p)
  PROVE  \E r \in Records :
    /\ \/ /\ IsDuplicate(cache, DedupKey(r))
          /\ UNCHANGED <<cache, known, pushed, evicted>>
       \/ /\ ~IsDuplicate(cache, DedupKey(r)) /\ Push(r)
          /\ cache' \in Seq(Slots) /\ OnePerKey(cache') /\ Len(cache') <= MaxCache
          /\ Entry(DedupKey(r), r) \in Entries(cache')
          /\ Entries(cache') \subseteq {e \in Entries(cache) : e.key # DedupKey(r)}
                                         \cup {Entry(DedupKey(r), r)}
          /\ evicted' = (evicted \cup (IncidentsIn(cache) \ IncidentsIn(cache'))) \ {r.key}
    /\ handledAt' = IF r.key \in Incidents THEN [handledAt EXCEPT ![r.key] = now]
                                           ELSE handledAt
<1> DEFINE r == log[p][position[p] + 1]
<1>1. r \in Records
  <2>1. log[p] \in Seq(Records) /\ position[p] \in Nat /\ position[p] < Len(log[p])
    BY DEF Handle, Types, BridgeTypes
  <2>. QED
    BY <2>1
<1>2. /\ IF IsDuplicate(cache, DedupKey(r))
         THEN cache' = Checked(cache, DedupKey(r)) /\ UNCHANGED <<known, pushed, evicted>>
         ELSE /\ cache' = CacheEvent(Checked(cache, DedupKey(r)), DedupKey(r), r)
              /\ Push(r)
              /\ evicted' = (evicted \cup (IncidentsIn(cache) \ IncidentsIn(cache')))
                              \ {r.key}
      /\ handledAt' = IF r.key \in Incidents THEN [handledAt EXCEPT ![r.key] = now]
                                             ELSE handledAt
  BY DEF Handle
<1>. HIDE DEF r
<1>3. CASE IsDuplicate(cache, DedupKey(r))
  <2>1. cache' = cache
    BY <1>2, <1>3 DEF Checked
  <2>. QED
    BY <1>1, <1>2, <1>3, <2>1
<1>4. CASE ~IsDuplicate(cache, DedupKey(r))
  <2>1. /\ cache \in Seq(Slots) /\ OnePerKey(cache) /\ Len(cache) <= MaxCache
        /\ now \in Nat
    BY DEF Types, CacheTypes, Counters
  <2>2. cache' = CacheEvent(Checked(cache, DedupKey(r)), DedupKey(r), r)
    BY <1>2, <1>4
  <2>3. /\ cache' \in Seq(Slots) /\ OnePerKey(cache') /\ Len(cache') <= MaxCache
        /\ Entry(DedupKey(r), r) \in Entries(cache')
        /\ Entries(cache') \subseteq {e \in Entries(cache) : e.key # DedupKey(r)}
                                       \cup {Entry(DedupKey(r), r)}
    BY <1>1, <1>4, <2>1, <2>2, EventIsCached
  <2>. QED
    BY <1>1, <1>2, <1>4, <2>3
<1>. QED
  BY <1>3, <1>4

\* What Push does to a client's version of an incident and to the last push of it.
LEMMA PushEffect ==
  ASSUME Types, NEW r \in Records, Push(r)
  PROVE  /\ known' \in [Sockets -> [Incidents -> Nat]]
         /\ \A s \in Sockets, i \in Incidents :
              known'[s][i] = IF r.key = i /\ Hears(s, i) THEN r.offset ELSE known[s][i]
         /\ pushed' \in [Incidents -> [version : Nat, at : Nat]]
         /\ \A i \in Incidents :
              pushed'[i] = IF r.key = i THEN [version |-> r.offset, at |-> now]
                                        ELSE pushed[i]
<1>1. r.offset \in Nat /\ now \in Nat
  BY DEF Records, Types, Counters
<1>2. known \in [Sockets -> [Incidents -> Nat]]
  BY DEF Types, ClientTypes
<1>3. pushed \in [Incidents -> [version : Nat, at : Nat]]
  BY DEF Types, HistoryTypes
<1>4. known' = [s \in Sockets |->
                 IF r.key \in Incidents /\ Hears(s, r.key)
                 THEN [known[s] EXCEPT ![r.key] = r.offset] ELSE known[s]]
  BY DEF Push
<1>5. pushed' = IF r.key \in Incidents
                THEN [pushed EXCEPT ![r.key] = [version |-> r.offset, at |-> now]]
                ELSE pushed
  BY DEF Push
<1>. QED
  BY <1>1, <1>2, <1>3, <1>4, <1>5

\* Producing a record is the one step that touches the log.
LEMMA ProduceTypes ==
  ASSUME Types, NEW k \in Keys, Produce(k)
  PROVE  BridgeTypes'
<1> DEFINE q == PartitionOf[k]
           r == [key |-> k, offset |-> Len(log[q]) + 1]
<1>1. q \in Partitions
  BY DEF Partitions
<1>2. /\ log \in [Partitions -> Seq(Records)]
      /\ position \in [Partitions -> Nat] /\ committed \in [Partitions -> Nat]
      /\ \A p \in Partitions : committed[p] <= position[p] /\ position[p] <= Len(log[p])
  BY DEF Types, BridgeTypes
<1>3. log[q] \in Seq(Records) /\ Len(log[q]) \in Nat
  BY <1>1, <1>2
<1>4. r \in Records
  BY <1>3 DEF Records
<1>5. log' = [log EXCEPT ![q] = Append(log[q], r)] /\ UNCHANGED <<position, committed>>
  BY DEF Produce
<1>. HIDE DEF q, r
<1>6. Append(log[q], r) \in Seq(Records) /\ Len(Append(log[q], r)) = Len(log[q]) + 1
  BY <1>3, <1>4
<1>7. log' \in [Partitions -> Seq(Records)]
  BY <1>1, <1>2, <1>5, <1>6
<1>8. \A p \in Partitions : Len(log[p]) \in Nat /\ Len(log'[p]) >= Len(log[p])
  <2> TAKE p \in Partitions
  <2>1. CASE p = q
    BY <1>1, <1>2, <1>3, <1>5, <1>6, <2>1
  <2>2. CASE p # q
    <3>1. log'[p] = log[p] /\ Len(log[p]) \in Nat
      BY <1>2, <1>5, <2>2
    <3>. QED
      BY <3>1
  <2>. QED
    BY <2>1, <2>2
<1>9. \A p \in Partitions : Len(log'[p]) \in Nat
  BY <1>7
<1>10. \A p \in Partitions : position[p] <= Len(log'[p])
  BY <1>2, <1>8, <1>9
<1>. QED
  BY <1>2, <1>5, <1>7, <1>10 DEF BridgeTypes

\* Reading a record keeps the types.
LEMMA HandleTypes ==
  ASSUME Types, NEW p \in Partitions, Handle(p)
  PROVE  Types'
<1>1. UNCHANGED <<log, committed, connected, left, synced, now, faults>>
  BY DEF Handle
<1>2. now \in Nat
  BY DEF Types, Counters
<1>3. PICK r \in Records :
    /\ \/ /\ IsDuplicate(cache, DedupKey(r))
          /\ UNCHANGED <<cache, known, pushed, evicted>>
       \/ /\ ~IsDuplicate(cache, DedupKey(r)) /\ Push(r)
          /\ cache' \in Seq(Slots) /\ OnePerKey(cache') /\ Len(cache') <= MaxCache
          /\ Entry(DedupKey(r), r) \in Entries(cache')
          /\ Entries(cache') \subseteq {e \in Entries(cache) : e.key # DedupKey(r)}
                                         \cup {Entry(DedupKey(r), r)}
          /\ evicted' = (evicted \cup (IncidentsIn(cache) \ IncidentsIn(cache'))) \ {r.key}
    /\ handledAt' = IF r.key \in Incidents THEN [handledAt EXCEPT ![r.key] = now]
                                           ELSE handledAt
  BY HandleEffect
<1>4. BridgeTypes'
  <2>1. /\ position' = [position EXCEPT ![p] = @ + 1]
        /\ position[p] < Len(log[p])
    BY DEF Handle
  <2>2. /\ log \in [Partitions -> Seq(Records)]
        /\ position \in [Partitions -> Nat] /\ committed \in [Partitions -> Nat]
        /\ \A q \in Partitions : committed[q] <= position[q] /\ position[q] <= Len(log[q])
    BY DEF Types, BridgeTypes
  <2>3. Len(log[p]) \in Nat
    BY <2>2
  <2>4. /\ position' \in [Partitions -> Nat] /\ position'[p] = position[p] + 1
        /\ \A q \in Partitions : q # p => position'[q] = position[q]
    BY <2>1, <2>2
  <2>5. committed[p] <= position'[p] /\ position'[p] <= Len(log[p])
    BY <2>1, <2>2, <2>3, <2>4
  <2>6. \A q \in Partitions : committed[q] <= position'[q] /\ position'[q] <= Len(log[q])
    BY <2>2, <2>4, <2>5
  <2>. QED
    BY <1>1, <2>2, <2>4, <2>6 DEF BridgeTypes
<1>5. handledAt' \in [Incidents -> Nat]
  BY <1>2, <1>3 DEF Types, HistoryTypes
<1>6. CASE UNCHANGED <<cache, known, pushed, evicted>>
  BY <1>1, <1>4, <1>5, <1>6 DEF Types, CacheTypes, ClientTypes, HistoryTypes, Counters
<1>7. CASE ~IsDuplicate(cache, DedupKey(r))
  <2>1. /\ cache' \in Seq(Slots) /\ OnePerKey(cache') /\ Len(cache') <= MaxCache
        /\ Entries(cache') \subseteq {e \in Entries(cache) : e.key # DedupKey(r)}
                                       \cup {Entry(DedupKey(r), r)}
        /\ evicted' \subseteq evicted \cup Incidents /\ Push(r)
    BY <1>3, <1>7 DEF IncidentsIn
  <2>2. \A e \in Entries(cache') :
          e.value \in Records /\ e.key = DedupKey(e.value) /\ e.at <= now
    BY <1>2, <2>1 DEF Types, CacheTypes, Entry
  <2>3. CacheTypes'
    BY <1>1, <2>1, <2>2 DEF CacheTypes
  <2>4. ClientTypes'
    BY <1>1, <2>1, PushEffect DEF Types, ClientTypes
  <2>5. HistoryTypes'
    <3>1. /\ pushed' \in [Incidents -> [version : Nat, at : Nat]]
          /\ \A i \in Incidents :
               pushed'[i] = IF r.key = i THEN [version |-> r.offset, at |-> now]
                                         ELSE pushed[i]
      BY <2>1, PushEffect
    <3>2. evicted \subseteq Incidents /\ \A i \in Incidents : pushed[i].at <= now
      BY DEF Types, HistoryTypes
    <3>3. \A i \in Incidents : pushed'[i].at <= now
      BY <1>2, <3>1, <3>2
    <3>4. evicted' \subseteq Incidents
      BY <2>1, <3>2
    <3>. QED
      BY <1>1, <1>5, <3>1, <3>3, <3>4 DEF HistoryTypes
  <2>. QED
    BY <1>1, <1>4, <2>3, <2>4, <2>5 DEF Types, Counters
<1>. QED
  BY <1>3, <1>6, <1>7

\* A replay leaves a client with the version it had or with a cached one.
LEMMA ReplayEffect ==
  ASSUME Types, NEW s \in Sockets, Replay(s)
  PROVE  \E since \in {left[s], now - Recent} :
    /\ known' \in [Sockets -> [Incidents -> Nat]]
    /\ \A t \in Sockets : t # s => known'[t] = known[t]
    /\ \A i \in Incidents :
         \/ known'[s][i] = known[s][i]
         \/ \E e \in Entries(cache) : /\ e.key = <<"key", i>> /\ TenantOf[i] = TenantOf[s]
                                      /\ known'[s][i] = e.value.offset
    /\ \A i \in Incidents, e \in Entries(cache) :
         e.key = <<"key", i>> /\ TenantOf[i] = TenantOf[s] /\ e.at >= since
           => known'[s][i] = e.value.offset
    /\ synced' = IF since <= left[s] THEN synced \cup {s} ELSE synced
<1>1. PICK since \in {left[s], now - Recent} :
    /\ known' = [known EXCEPT ![s] = [i \in Incidents |->
         IF \E n \in Replayed(s, since) : cache[n].value.key = i
         THEN EntryOf(cache, <<"key", i>>).value.offset ELSE @[i]]]
    /\ synced' = IF since <= left[s] THEN synced \cup {s} ELSE synced
  BY DEF Replay
<1>2. known \in [Sockets -> [Incidents -> Nat]]
  BY DEF Types, ClientTypes
<1>3. \A t \in Sockets : t # s => known'[t] = known[t]
  BY <1>1, <1>2
<1>4. \A i \in Incidents :
        known'[s][i] = IF \E n \in Replayed(s, since) : cache[n].value.key = i
                       THEN EntryOf(cache, <<"key", i>>).value.offset ELSE known[s][i]
  BY <1>1, <1>2
<1>5. OnePerKey(cache) /\ \A e \in Entries(cache) : e.value \in Records
                                                   /\ e.key = DedupKey(e.value)
  BY DEF Types, CacheTypes
\* Only an incident's records are replayed as the incident's, and only to its tenant.
<1>6. \A i \in Incidents : \A n \in Replayed(s, since) : cache[n].value.key = i =>
        \E e \in Entries(cache) : /\ e = EntryOf(cache, <<"key", i>>)
                                  /\ e.key = <<"key", i>> /\ TenantOf[i] = TenantOf[s]
                                  /\ e.value.offset \in Nat
  <2> SUFFICES ASSUME NEW i \in Incidents, NEW n \in Replayed(s, since),
                      cache[n].value.key = i
               PROVE  \E e \in Entries(cache) :
                        /\ e = EntryOf(cache, <<"key", i>>)
                        /\ e.key = <<"key", i>> /\ TenantOf[i] = TenantOf[s]
                        /\ e.value.offset \in Nat
    OBVIOUS
  <2> DEFINE e == cache[n]
  <2>1. e \in Entries(cache) /\ Owner(e.value) = TenantOf[s]
    BY DEF Replayed, Entries
  <2>2. e.value \in Records /\ e.key = DedupKey(e.value) /\ e.value.key = i
    BY <1>5, <2>1
  <2>. HIDE DEF e
  <2>3. e.key = <<"key", i>>
    BY <2>2, KeyOfIncident
  <2>4. e.value # Placeholder /\ e.value.offset \in Nat
    BY <2>2 DEF Records, Placeholder
  <2>5. TenantOf[i] = TenantOf[s]
    BY <2>1, <2>2, <2>4 DEF Owner
  <2>6. EntryOf(cache, e.key) = e
    BY <1>5, <2>1, EntryOfKey
  <2>. QED
    BY <2>1, <2>3, <2>4, <2>5, <2>6
<1>7. \A i \in Incidents : known'[s][i] \in Nat
  BY <1>2, <1>4, <1>6
<1>8. known' \in [Sockets -> [Incidents -> Nat]]
  <2> DEFINE new == [i \in Incidents |->
         IF \E n \in Replayed(s, since) : cache[n].value.key = i
         THEN EntryOf(cache, <<"key", i>>).value.offset ELSE known[s][i]]
  <2>1. known' = [known EXCEPT ![s] = new]
    BY <1>1
  <2>2. new \in [Incidents -> Nat]
    BY <1>2, <1>6
  <2>. HIDE DEF new
  <2>. QED
    BY <1>2, <2>1, <2>2
<1>9. \A i \in Incidents :
        \/ known'[s][i] = known[s][i]
        \/ \E e \in Entries(cache) : /\ e.key = <<"key", i>> /\ TenantOf[i] = TenantOf[s]
                                     /\ known'[s][i] = e.value.offset
  <2> TAKE i \in Incidents
  <2>1. CASE \E n \in Replayed(s, since) : cache[n].value.key = i
    <3>1. PICK e \in Entries(cache) :
            /\ e = EntryOf(cache, <<"key", i>>)
            /\ e.key = <<"key", i>> /\ TenantOf[i] = TenantOf[s]
      BY <1>6, <2>1
    <3>2. known'[s][i] = e.value.offset
      BY <1>4, <2>1, <3>1
    <3>. QED
      BY <3>1, <3>2
  <2>2. CASE ~ \E n \in Replayed(s, since) : cache[n].value.key = i
    BY <1>4, <2>2
  <2>. QED
    BY <2>1, <2>2
<1>10. \A i \in Incidents, e \in Entries(cache) :
         e.key = <<"key", i>> /\ TenantOf[i] = TenantOf[s] /\ e.at >= since
           => known'[s][i] = e.value.offset
  <2> SUFFICES ASSUME NEW i \in Incidents, NEW e \in Entries(cache),
                      e.key = <<"key", i>>, TenantOf[i] = TenantOf[s], e.at >= since
               PROVE  known'[s][i] = e.value.offset
    OBVIOUS
  <2>1. e.value \in Records /\ e.value.key = i
    BY <1>5, KeyOfIncident
  <2>2. e.value # Placeholder
    BY <2>1 DEF Records, Placeholder
  <2>3. Owner(e.value) = TenantOf[s]
    BY <2>1, <2>2 DEF Owner
  <2>4. PICK n \in DOMAIN cache : cache[n] = e
    BY DEF Entries
  <2>5. n \in Replayed(s, since) /\ cache[n].value.key = i
    BY <2>1, <2>3, <2>4 DEF Replayed
  <2>6. EntryOf(cache, <<"key", i>>) = e
    BY <1>5, EntryOfKey
  <2>. QED
    BY <1>4, <2>5, <2>6
<1>. QED
  BY <1>1, <1>3, <1>8, <1>9, <1>10

\* The faults stay within their bound.
LEMMA FaultTypes == Types /\ Fault => faults' \in 0 .. MaxFaults
BY GatewayAssumption DEF Types, Counters, Fault

\* Every step keeps the types.
LEMMA StepTypes == Types /\ [Next]_vars => Types'
<1> SUFFICES ASSUME Types, [Next]_vars PROVE Types'
  OBVIOUS
<1>0. now \in Nat
  BY DEF Types, Counters
<1>1. ASSUME NEW k \in Keys, Produce(k) PROVE Types'
  <2>1. UNCHANGED <<cache, clients, history, now, faults>>
    BY <1>1 DEF Produce
  <2>. QED
    BY <1>1, <2>1, ProduceTypes
       DEF Types, CacheTypes, ClientTypes, HistoryTypes, Counters, clients, history
<1>2. ASSUME NEW p \in Partitions, Handle(p) PROVE Types'
  BY <1>2, HandleTypes
<1>3. ASSUME NEW p \in Partitions, Commit(p) \/ Rebalance(p) PROVE Types'
  <2>1. /\ UNCHANGED <<log, cache, clients, history, now>>
        /\ faults' \in 0 .. MaxFaults
    BY <1>3, FaultTypes DEF Commit, Rebalance, Types, Counters
  <2>2. BridgeTypes'
    <3>1. CASE Commit(p)
      BY <2>1, <3>1 DEF Commit, Types, BridgeTypes
    <3>2. CASE Rebalance(p)
      <4>1. position' = [position EXCEPT ![p] = committed[p]] /\ UNCHANGED committed
        BY <3>2 DEF Rebalance
      <4>2. /\ log \in [Partitions -> Seq(Records)]
            /\ position \in [Partitions -> Nat] /\ committed \in [Partitions -> Nat]
            /\ \A q \in Partitions :
                 committed[q] <= position[q] /\ position[q] <= Len(log[q])
        BY DEF Types, BridgeTypes
      <4>3. \A q \in Partitions : Len(log[q]) \in Nat
        BY <4>2
      <4>4. /\ position' \in [Partitions -> Nat]
            /\ \A q \in Partitions : position'[q] \in {position[q], committed[q]}
        BY <4>1, <4>2
      <4>5. \A q \in Partitions :
              committed[q] <= position'[q] /\ position'[q] <= Len(log[q])
        <5> TAKE q \in Partitions
        <5>1. /\ committed[q] \in Nat /\ position[q] \in Nat /\ Len(log[q]) \in Nat
              /\ committed[q] <= position[q] /\ position[q] <= Len(log[q])
          BY <4>2, <4>3
        <5>2. position'[q] = position[q] \/ position'[q] = committed[q]
          BY <4>4
        <5>. QED
          BY <5>1, <5>2
      <4>. QED
        BY <2>1, <4>1, <4>2, <4>4, <4>5 DEF BridgeTypes
    <3>. QED
      BY <1>3, <3>1, <3>2
  <2>. QED
    BY <2>1, <2>2 DEF Types, CacheTypes, ClientTypes, HistoryTypes, Counters, clients,
                      history
<1>4. ASSUME NEW s \in Sockets, Break(s) PROVE Types'
  <2>1. UNCHANGED <<bridge, known, history, now>> /\ faults' \in 0 .. MaxFaults
    BY <1>4, FaultTypes DEF Break
  <2>2. ClientTypes'
    <3>1. /\ connected' = connected \ {s} /\ synced' = synced \ {s}
          /\ left' = [left EXCEPT ![s] = IF s \in synced THEN now ELSE @]
      BY <1>4 DEF Break
    <3>. QED
      BY <1>0, <2>1, <3>1 DEF Types, ClientTypes
  <2>. QED
    BY <2>1, <2>2 DEF Types, BridgeTypes, CacheTypes, HistoryTypes, Counters, bridge,
                      history
<1>5. ASSUME NEW s \in Sockets, Reconnect(s) PROVE Types'
  BY <1>5 DEF Reconnect, Types, BridgeTypes, CacheTypes, ClientTypes, HistoryTypes,
              Counters, bridge, history
<1>6. ASSUME NEW s \in Sockets, Replay(s) PROVE Types'
  <2>1. UNCHANGED <<bridge, connected, left, history, now, faults>> /\ s \in connected
    BY <1>6 DEF Replay
  <2>2. known' \in [Sockets -> [Incidents -> Nat]] /\ synced' \subseteq synced \cup {s}
    BY <1>6, ReplayEffect
  <2>. QED
    BY <2>1, <2>2 DEF Types, BridgeTypes, CacheTypes, ClientTypes, HistoryTypes,
                      Counters, bridge, history
<1>7. CASE Tick
  <2>1. /\ now' = now + 1 /\ now' \in 0 .. MaxTime
        /\ UNCHANGED <<bridge, clients, history, faults>>
    BY <1>0, <1>7, GatewayAssumption DEF Tick
  <2>2. \A t \in Nat : t <= now => t <= now'
    BY <1>0, <2>1
  <2>3. ClientTypes' /\ HistoryTypes'
    BY <2>1, <2>2 DEF Types, ClientTypes, HistoryTypes, clients, history
  <2>4. \A e \in Entries(cache) : e.at \in Nat
    <3>1. \A n \in DOMAIN cache : cache[n] \in Slots
      BY DEF Types, CacheTypes
    <3>. QED
      BY <3>1 DEF Entries, Slots
  <2>5. CacheTypes'
    BY <2>1, <2>2, <2>4 DEF Types, CacheTypes, bridge
  <2>. QED
    BY <2>1, <2>3, <2>5 DEF Types, BridgeTypes, Counters, bridge
<1>8. CASE Restart
  <2>1. /\ position' = committed /\ cache' = <<>> /\ evicted' = Incidents
        /\ connected' = {} /\ synced' = {}
        /\ left' = [s \in Sockets |-> IF s \in synced THEN now ELSE left[s]]
        /\ UNCHANGED <<log, committed, known, pushed, handledAt, now>>
        /\ faults' \in 0 .. MaxFaults
    BY <1>8, FaultTypes DEF Restart
  <2>2. BridgeTypes'
    <3>1. /\ log \in [Partitions -> Seq(Records)]
          /\ position \in [Partitions -> Nat] /\ committed \in [Partitions -> Nat]
          /\ \A q \in Partitions :
               committed[q] <= position[q] /\ position[q] <= Len(log[q])
      BY DEF Types, BridgeTypes
    <3>2. \A q \in Partitions : Len(log[q]) \in Nat
      BY <3>1
    <3>3. \A q \in Partitions : committed[q] <= committed[q] /\ committed[q] <= Len(log[q])
      BY <3>1, <3>2
    <3>. QED
      BY <2>1, <3>1, <3>3 DEF BridgeTypes
  <2>3. CacheTypes'
    <3>1. <<>> \in Seq(Slots) /\ Len(<<>>) <= MaxCache /\ Entries(<<>>) = {}
          /\ OnePerKey(<<>>)
      BY GatewayAssumption DEF Entries, OnePerKey
    <3>. QED
      BY <2>1, <3>1 DEF CacheTypes
  <2>4. ClientTypes' /\ HistoryTypes'
    BY <1>0, <2>1 DEF Types, ClientTypes, HistoryTypes
  <2>. QED
    BY <2>1, <2>2, <2>3, <2>4 DEF Types, Counters
<1>9. CASE UNCHANGED vars
  BY <1>9 DEF vars, Types, BridgeTypes, CacheTypes, ClientTypes, HistoryTypes, Counters,
              bridge, clients, history
<1>. QED
  BY <1>1, <1>2, <1>3, <1>4, <1>5, <1>6, <1>7, <1>8, <1>9 DEF Next

\* The initial state has the types.
LEMMA InitTypes == Init => Types
<1> SUFFICES ASSUME Init PROVE Types
  OBVIOUS
<1>1. CacheTypes
  <2>1. <<>> \in Seq(Slots) /\ Len(<<>>) <= MaxCache /\ Entries(<<>>) = {}
        /\ OnePerKey(<<>>)
    BY GatewayAssumption DEF Entries, OnePerKey
  <2>. QED
    BY <2>1 DEF Init, CacheTypes
<1>2. BridgeTypes
  <2>1. <<>> \in Seq(Records) /\ Len(<<>>) = 0
    OBVIOUS
  <2>. QED
    BY <2>1 DEF Init, BridgeTypes
<1>3. ClientTypes /\ HistoryTypes /\ Counters
  BY GatewayAssumption DEF Init, ClientTypes, HistoryTypes, Counters
<1>. QED
  BY <1>1, <1>2, <1>3 DEF Types

\* The types hold at all times.
LEMMA TypesInductive == Spec => []Types
BY InitTypes, StepTypes, PTL DEF Spec

\* The gateway's variables keep their types; the cache never exceeds its cap, whatever
\* expires and whatever is read again, holds a key once, and no placeholder of the
\* duplicate check is ever left in it.
THEOREM TypesHold == Spec => []TypeOK
<1>1. Types => TypeOK
  <2> SUFFICES ASSUME Types PROVE TypeOK
    OBVIOUS
  <2>1. \A n \in DOMAIN cache : cache[n] \in Entries(cache) /\ cache[n] \in Slots
    BY DEF Types, CacheTypes, Entries
  <2>2. \A n \in DOMAIN cache : cache[n].value \in Records /\ cache[n].at \in 0 .. now
    BY <2>1 DEF Types, CacheTypes, Slots, Counters
  <2>. QED
    BY <2>2 DEF Types, CacheTypes, BridgeTypes, ClientTypes, Counters, OnePerKey, TypeOK
<1>. QED
  BY <1>1, TypesInductive, PTL

-----------------------------------------------------------------------------
(* Clients and pushes.                                                          *)

\* What the cache keeps of an incident is its last push, and what was pushed and is
\* no longer kept counts as evicted.
LastPushKept ==
  \A i \in Incidents :
    /\ \A e \in Entries(cache) :
         e.key = <<"key", i>> => e.value.offset = pushed[i].version /\ e.at = pushed[i].at
    /\ pushed[i].version > 0 =>
         i \in evicted \/ \E e \in Entries(cache) : e.key = <<"key", i>>

\* A client that is out of step has missed only pushes after its connection broke,
\* which is where its next replay begins.
MissedSince ==
  \A s \in Sockets, i \in Incidents :
    TenantOf[s] = TenantOf[i] =>
      \/ known[s][i] = pushed[i].version
      \/ i \in evicted
      \/ s \notin synced /\ pushed[i].version > 0 /\ pushed[i].at >= left[s]

\* A record that was read last was pushed then, or dropped within the window.
ReadWithinWindow ==
  \A i \in Incidents : handledAt[i] = 0 \/ handledAt[i] < pushed[i].at + Window

ClientInv == LastPushKept /\ MissedSince /\ OwnTenant /\ ReadWithinWindow

\* An incident counts as in the cache exactly if the cache has an entry of its key.
LEMMA IncidentIsIn ==
  ASSUME NEW c, NEW i \in Incidents
  PROVE  i \in IncidentsIn(c) <=> \E e \in Entries(c) : e.key = <<"key", i>>
BY DEF IncidentsIn, Cached, Entries

\* A push leaves the incident's own entry as its last, and whatever other entries it
\* drives out are evicted.
LEMMA PushKeepsCache ==
  ASSUME Types, LastPushKept, NEW r \in Records, Push(r),
         Entry(DedupKey(r), r) \in Entries(cache'),
         Entries(cache') \subseteq {e \in Entries(cache) : e.key # DedupKey(r)}
                                     \cup {Entry(DedupKey(r), r)},
         evicted' = (evicted \cup (IncidentsIn(cache) \ IncidentsIn(cache'))) \ {r.key}
  PROVE  LastPushKept'
<1> SUFFICES ASSUME NEW i \in Incidents
             PROVE  /\ \A e \in Entries(cache') :
                         e.key = <<"key", i>>
                           => e.value.offset = pushed'[i].version /\ e.at = pushed'[i].at
                    /\ pushed'[i].version > 0 =>
                         i \in evicted' \/ \E e \in Entries(cache') : e.key = <<"key", i>>
  BY DEF LastPushKept
<1> DEFINE own == Entry(DedupKey(r), r)
<1>1. own.key = DedupKey(r) /\ own.value = r /\ own.at = now
  BY DEF Entry
<1>2. DedupKey(r) = <<"key", i>> <=> r.key = i
  BY KeyOfIncident
<1>3. pushed'[i] = IF r.key = i THEN [version |-> r.offset, at |-> now] ELSE pushed[i]
  BY PushEffect
<1>. HIDE DEF own
<1>4. CASE r.key = i
  <2>1. \A e \in Entries(cache') : e.key = <<"key", i>> => e = own
    BY <1>2, <1>4 DEF own
  <2>. QED
    BY <1>1, <1>2, <1>3, <1>4, <2>1 DEF own
<1>5. CASE r.key # i
  <2>1. \A e \in Entries(cache') : e.key = <<"key", i>> => e \in Entries(cache)
    BY <1>1, <1>2, <1>5 DEF own
  <2>2. pushed'[i] = pushed[i]
    BY <1>3, <1>5
  <2>3. \A e \in Entries(cache') :
          e.key = <<"key", i>>
            => e.value.offset = pushed'[i].version /\ e.at = pushed'[i].at
    BY <2>1, <2>2 DEF LastPushKept
  <2>4. ASSUME pushed'[i].version > 0
        PROVE  i \in evicted' \/ \E e \in Entries(cache') : e.key = <<"key", i>>
    <3>1. i \in evicted \/ i \in IncidentsIn(cache)
      BY <2>2, <2>4, IncidentIsIn DEF LastPushKept
    <3>2. i \in evicted' \/ i \in IncidentsIn(cache')
      BY <1>5, <3>1
    <3>. QED
      BY <3>2, IncidentIsIn
  <2>. QED
    BY <2>3, <2>4
<1>. QED
  BY <1>4, <1>5

\* Whoever is in step hears the push; whoever is not has missed it, or hears it too.
LEMMA PushKeepsClients ==
  ASSUME Types, MissedSince, NEW r \in Records, Push(r), UNCHANGED <<synced, left>>,
         \A i \in Incidents : i # r.key /\ i \in evicted => i \in evicted'
  PROVE  MissedSince'
<1> SUFFICES ASSUME NEW s \in Sockets, NEW i \in Incidents, TenantOf[s] = TenantOf[i]
             PROVE  \/ known'[s][i] = pushed'[i].version
                    \/ i \in evicted'
                    \/ s \notin synced /\ pushed'[i].version > 0 /\ pushed'[i].at >= left[s]
  BY DEF MissedSince
<1>1. /\ known'[s][i] = IF r.key = i /\ Hears(s, i) THEN r.offset ELSE known[s][i]
      /\ pushed'[i] = IF r.key = i THEN [version |-> r.offset, at |-> now] ELSE pushed[i]
  BY PushEffect
<1>2. r.offset > 0 /\ left[s] <= now /\ left[s] \in Nat /\ now \in Nat
  BY DEF Records, Types, ClientTypes, Counters
<1>3. s \in synced => Hears(s, i)
  BY DEF Types, ClientTypes, Hears
<1>4. CASE r.key = i
  BY <1>1, <1>2, <1>3, <1>4
<1>5. CASE r.key # i
  BY <1>1, <1>5 DEF MissedSince
<1>. QED
  BY <1>4, <1>5

\* Nobody hears a push of another tenant.
LEMMA PushKeepsTenant ==
  ASSUME Types, OwnTenant, NEW r \in Records, Push(r)
  PROVE  OwnTenant'
<1> SUFFICES ASSUME NEW s \in Sockets, NEW i \in Incidents, TenantOf[s] # TenantOf[i]
             PROVE  known'[s][i] = 0
  BY DEF OwnTenant
<1>1. known'[s][i] = IF r.key = i /\ Hears(s, i) THEN r.offset ELSE known[s][i]
  BY PushEffect
<1>2. ~Hears(s, i) /\ known[s][i] = 0
  BY DEF OwnTenant, Hears
<1>. QED
  BY <1>1, <1>2

\* Reading a record keeps what holds of the clients and the pushes.
LEMMA HandleKeepsClients ==
  ASSUME Types, ClientInv, NEW p \in Partitions, Handle(p)
  PROVE  ClientInv'
<1>1. UNCHANGED <<left, synced>>
  BY DEF Handle
<1>2. now \in Nat /\ Window \in Nat \ {0} /\ OnePerKey(cache)
  BY GatewayAssumption DEF Types, Counters, CacheTypes
<1>3. PICK r \in Records :
    /\ \/ /\ IsDuplicate(cache, DedupKey(r))
          /\ UNCHANGED <<cache, known, pushed, evicted>>
       \/ /\ ~IsDuplicate(cache, DedupKey(r)) /\ Push(r)
          /\ cache' \in Seq(Slots) /\ OnePerKey(cache') /\ Len(cache') <= MaxCache
          /\ Entry(DedupKey(r), r) \in Entries(cache')
          /\ Entries(cache') \subseteq {e \in Entries(cache) : e.key # DedupKey(r)}
                                         \cup {Entry(DedupKey(r), r)}
          /\ evicted' = (evicted \cup (IncidentsIn(cache) \ IncidentsIn(cache'))) \ {r.key}
    /\ handledAt' = IF r.key \in Incidents THEN [handledAt EXCEPT ![r.key] = now]
                                           ELSE handledAt
  BY HandleEffect
<1>4. \A i \in Incidents : handledAt'[i] = IF r.key = i THEN now ELSE handledAt[i]
  BY <1>3 DEF Types, HistoryTypes
\* The entry that makes a record a duplicate is the last push of its incident.
<1>5. CASE IsDuplicate(cache, DedupKey(r))
  <2>1. UNCHANGED <<cache, known, pushed, evicted>>
    BY <1>3, <1>5
  <2>2. PICK e \in Entries(cache) : e.key = DedupKey(r) /\ now - e.at < Window
    BY <1>2, <1>5, DuplicateIsRecent
  <2>3. ReadWithinWindow'
    <3> SUFFICES ASSUME NEW i \in Incidents
                 PROVE  handledAt'[i] = 0 \/ handledAt'[i] < pushed[i].at + Window
      BY <2>1 DEF ReadWithinWindow
    <3>1. CASE r.key = i
      <4>1. e.at = pushed[i].at
        BY <2>2, <3>1, KeyOfIncident DEF ClientInv, LastPushKept
      <4>2. pushed[i].at \in Nat
        BY DEF Types, HistoryTypes
      <4>. QED
        BY <1>2, <1>4, <2>2, <3>1, <4>1, <4>2
    <3>2. CASE r.key # i
      BY <1>4, <3>2 DEF ClientInv, ReadWithinWindow
    <3>. QED
      BY <3>1, <3>2
  <2>. QED
    BY <1>1, <2>1, <2>3 DEF ClientInv, LastPushKept, MissedSince, OwnTenant
<1>6. CASE ~IsDuplicate(cache, DedupKey(r))
  <2>1. /\ Push(r)
        /\ Entry(DedupKey(r), r) \in Entries(cache')
        /\ Entries(cache') \subseteq {e \in Entries(cache) : e.key # DedupKey(r)}
                                       \cup {Entry(DedupKey(r), r)}
        /\ evicted' = (evicted \cup (IncidentsIn(cache) \ IncidentsIn(cache'))) \ {r.key}
    BY <1>3, <1>6
  <2>2. LastPushKept'
    BY <2>1, PushKeepsCache DEF ClientInv
  <2>3. MissedSince'
    BY <1>1, <2>1, PushKeepsClients DEF ClientInv
  <2>4. OwnTenant'
    BY <2>1, PushKeepsTenant DEF ClientInv
  <2>5. ReadWithinWindow'
    <3> SUFFICES ASSUME NEW i \in Incidents
                 PROVE  handledAt'[i] = 0 \/ handledAt'[i] < pushed'[i].at + Window
      BY DEF ReadWithinWindow
    <3>1. pushed'[i] = IF r.key = i THEN [version |-> r.offset, at |-> now] ELSE pushed[i]
      BY <2>1, PushEffect
    <3>2. CASE r.key = i
      BY <1>2, <1>4, <3>1, <3>2
    <3>3. CASE r.key # i
      BY <1>4, <3>1, <3>3 DEF ClientInv, ReadWithinWindow
    <3>. QED
      BY <3>2, <3>3
  <2>. QED
    BY <2>2, <2>3, <2>4, <2>5 DEF ClientInv
<1>. QED
  BY <1>5, <1>6

\* A replay from no later than the break brings the client back in step, because every
\* push it missed is cached with the time of the push.
LEMMA ReplayKeepsClients ==
  ASSUME Types, ClientInv, NEW s \in Sockets, Replay(s)
  PROVE  ClientInv'
<1>1. UNCHANGED <<cache, left, pushed, handledAt, evicted>>
  BY DEF Replay, bridge, history
<1>2. PICK since \in {left[s], now - Recent} :
    /\ \A t \in Sockets : t # s => known'[t] = known[t]
    /\ \A i \in Incidents :
         \/ known'[s][i] = known[s][i]
         \/ \E e \in Entries(cache) : /\ e.key = <<"key", i>> /\ TenantOf[i] = TenantOf[s]
                                      /\ known'[s][i] = e.value.offset
    /\ \A i \in Incidents, e \in Entries(cache) :
         e.key = <<"key", i>> /\ TenantOf[i] = TenantOf[s] /\ e.at >= since
           => known'[s][i] = e.value.offset
    /\ synced' = IF since <= left[s] THEN synced \cup {s} ELSE synced
  BY ReplayEffect
<1>3. since \in Int /\ left[s] \in Nat /\ \A i \in Incidents : pushed[i].at \in Nat
  BY GatewayAssumption DEF Types, ClientTypes, HistoryTypes, Counters
<1>4. MissedSince'
  <2> SUFFICES ASSUME NEW t \in Sockets, NEW i \in Incidents, TenantOf[t] = TenantOf[i]
               PROVE  \/ known'[t][i] = pushed[i].version
                      \/ i \in evicted
                      \/ /\ t \notin synced' /\ pushed[i].version > 0
                         /\ pushed[i].at >= left[t]
    BY <1>1 DEF MissedSince
  <2>1. \/ known[t][i] = pushed[i].version
        \/ i \in evicted
        \/ t \notin synced /\ pushed[i].version > 0 /\ pushed[i].at >= left[t]
    BY DEF ClientInv, MissedSince
  <2>2. CASE t # s
    BY <1>2, <2>1, <2>2
  <2>3. CASE t = s /\ known'[s][i] # known[s][i]
    BY <1>2, <2>3 DEF ClientInv, LastPushKept
  <2>4. CASE t = s /\ known'[s][i] = known[s][i] /\ since <= left[s]
    <3>1. ASSUME pushed[i].version > 0, pushed[i].at >= left[s], i \notin evicted
          PROVE  known'[s][i] = pushed[i].version
      <4>1. PICK e \in Entries(cache) : e.key = <<"key", i>>
        BY <3>1 DEF ClientInv, LastPushKept
      <4>2. e.value.offset = pushed[i].version /\ e.at = pushed[i].at
        BY <4>1 DEF ClientInv, LastPushKept
      <4>3. e.at >= since
        BY <1>3, <2>4, <3>1, <4>2
      <4>. QED
        BY <1>2, <2>4, <4>1, <4>2, <4>3
    <3>. QED
      BY <2>1, <2>4, <3>1
  <2>5. CASE t = s /\ known'[s][i] = known[s][i] /\ ~(since <= left[s])
    BY <1>2, <2>1, <2>5
  <2>. QED
    BY <2>2, <2>3, <2>4, <2>5
<1>5. OwnTenant'
  <2> SUFFICES ASSUME NEW t \in Sockets, NEW i \in Incidents, TenantOf[t] # TenantOf[i]
               PROVE  known'[t][i] = 0
    BY DEF OwnTenant
  <2>1. known'[t][i] = known[t][i]
    BY <1>2
  <2>. QED
    BY <2>1 DEF ClientInv, OwnTenant
<1>. QED
  BY <1>1, <1>4, <1>5 DEF ClientInv, LastPushKept, ReadWithinWindow

\* Every step keeps what holds of the clients and the pushes.
LEMMA StepClients == Types /\ ClientInv /\ [Next]_vars => ClientInv'
<1> SUFFICES ASSUME Types, ClientInv, [Next]_vars PROVE ClientInv'
  OBVIOUS
<1>1. ASSUME NEW p \in Partitions, Handle(p) PROVE ClientInv'
  BY <1>1, HandleKeepsClients
<1>2. ASSUME NEW s \in Sockets, Replay(s) PROVE ClientInv'
  BY <1>2, ReplayKeepsClients
<1>3. ASSUME UNCHANGED <<cache, pushed, handledAt, evicted, known, synced, left>>
      PROVE  ClientInv'
  BY <1>3 DEF ClientInv, LastPushKept, MissedSince, OwnTenant, ReadWithinWindow
<1>4. ASSUME NEW k \in Keys, Produce(k) PROVE ClientInv'
  BY <1>3, <1>4 DEF Produce, clients, history
<1>5. ASSUME NEW p \in Partitions, Commit(p) \/ Rebalance(p) PROVE ClientInv'
  BY <1>3, <1>5 DEF Commit, Rebalance, clients, history
<1>6. ASSUME NEW s \in Sockets, Reconnect(s) PROVE ClientInv'
  BY <1>3, <1>6 DEF Reconnect, bridge, history
<1>7. CASE Tick \/ UNCHANGED vars
  BY <1>3, <1>7 DEF Tick, vars, bridge, clients, history
\* Who was in step had missed nothing before the break.
<1>8. ASSUME NEW s \in Sockets, Break(s) PROVE ClientInv'
  <2>1. /\ UNCHANGED <<cache, pushed, handledAt, evicted, known>>
        /\ synced' = synced \ {s}
        /\ left' = [left EXCEPT ![s] = IF s \in synced THEN now ELSE @]
    BY <1>8 DEF Break, bridge, history
  <2>2. \A t \in Sockets : t \notin synced => left'[t] = left[t] /\ t \notin synced'
    BY <2>1 DEF Types, ClientTypes
  <2>3. MissedSince'
    BY <2>1, <2>2 DEF ClientInv, MissedSince
  <2>. QED
    BY <2>1, <2>3 DEF ClientInv, LastPushKept, OwnTenant, ReadWithinWindow
<1>9. CASE Restart
  <2>1. /\ UNCHANGED <<pushed, handledAt, known>> /\ cache' = <<>> /\ evicted' = Incidents
    BY <1>9 DEF Restart
  <2>2. Entries(<<>>) = {}
    BY DEF Entries
  <2>. QED
    BY <2>1, <2>2 DEF ClientInv, LastPushKept, MissedSince, OwnTenant, ReadWithinWindow
<1>. QED
  BY <1>1, <1>2, <1>4, <1>5, <1>6, <1>7, <1>8, <1>9 DEF Next

\* What holds of the clients and the pushes, from the start.
LEMMA ClientsHold == Spec => []ClientInv
<1>1. Init => ClientInv
  <2> SUFFICES ASSUME Init PROVE ClientInv
    OBVIOUS
  <2>1. Entries(cache) = {}
    BY DEF Init, Entries
  <2>. QED
    BY <2>1 DEF Init, ClientInv, LastPushKept, MissedSince, OwnTenant, ReadWithinWindow
<1>. QED
  BY <1>1, StepClients, TypesInductive, PTL DEF Spec

\* A client that stayed connected, or replayed from where its connection broke, knows
\* the last version pushed of each incident of its tenant, unless the incident left
\* the cache: the cap, the age, a restart and repeated reads take nothing else away.
THEOREM ClientsAreInSync == Spec => []InSync
<1>1. Types /\ ClientInv => InSync
  BY DEF ClientInv, MissedSince, InSync, Types, ClientTypes
<1>. QED
  BY <1>1, ClientsHold, TypesInductive, PTL

\* Neither a push nor a replay shows a client an incident of another tenant.
THEOREM TenantsStayApart == Spec => []OwnTenant
<1>1. ClientInv => OwnTenant
  BY DEF ClientInv
<1>. QED
  BY <1>1, ClientsHold, PTL

\* An update is dropped only within one window of the incident's last push, however
\* many are dropped in a row.
THEOREM DroppedWithinWindow == Spec => []BehindWithinWindow
<1>1. Types /\ ClientInv => BehindWithinWindow
  BY DEF ClientInv, ReadWithinWindow, BehindWithinWindow, Types, HistoryTypes
<1>. QED
  BY <1>1, ClientsHold, TypesInductive, PTL

\* A push is followed by another push of the same incident only after the window,
\* repeated reads included, unless the incident left the cache in between.
THEOREM PushedOncePerWindow == Spec => OncePerWindow
<1> DEFINE Apart ==
      \A i \in Incidents :
        pushed'[i] # pushed[i] /\ pushed[i].version > 0
          => pushed'[i].at >= pushed[i].at + Window \/ i \in evicted
<1>1. Types /\ ClientInv /\ [Next]_vars => [Apart]_vars
  <2> SUFFICES ASSUME Types, ClientInv, Next PROVE Apart
    OBVIOUS
  <2>1. ASSUME NEW p \in Partitions, Handle(p) PROVE Apart
    <3> SUFFICES ASSUME NEW i \in Incidents, pushed'[i] # pushed[i],
                        pushed[i].version > 0, i \notin evicted
                 PROVE  pushed'[i].at >= pushed[i].at + Window
      OBVIOUS
    <3>1. PICK r \in Records :
            \/ UNCHANGED <<cache, known, pushed, evicted>>
            \/ ~IsDuplicate(cache, DedupKey(r)) /\ Push(r)
      BY <2>1, HandleEffect
    <3>2. ~IsDuplicate(cache, DedupKey(r)) /\ Push(r)
      BY <3>1
    <3>3. r.key = i /\ pushed'[i] = [version |-> r.offset, at |-> now]
      BY <3>2, PushEffect
    <3>4. PICK e \in Entries(cache) : e.key = <<"key", i>>
      BY DEF ClientInv, LastPushKept
    <3>5. e.at = pushed[i].at /\ e.key = DedupKey(r)
      BY <3>3, <3>4, KeyOfIncident DEF ClientInv, LastPushKept
    <3>6. ~(now - e.at < Window)
      BY <3>2, <3>5, DuplicateIsRecent DEF Types, CacheTypes
    <3>7. now \in Nat /\ Window \in Nat /\ pushed[i].at \in Nat
      BY GatewayAssumption DEF Types, Counters, HistoryTypes
    <3>. QED
      BY <3>3, <3>5, <3>6, <3>7
  <2>2. CASE UNCHANGED pushed
    BY <2>2
  <2>. QED
    BY <2>1, <2>2 DEF Next, Produce, Commit, Rebalance, Break, Reconnect, Replay, Tick,
                      Restart, history
<1>. QED
  BY <1>1, ClientsHold, TypesInductive, PTL DEF Spec, OncePerWindow
=============================================================================
