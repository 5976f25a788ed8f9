------------------------------- MODULE Gateway -------------------------------
(* The realtime gateway: its Kafka bridge with the deduplication and the       *)
(* bounded event cache, and the sockets that hear the pushes of their tenant   *)
(* and replay the cache after a break (realtime/src/index.js,                  *)
(* kafka/consumer.js).  JavaScript runs a handler to its end, so each is one   *)
(* action; between two of them messages arrive, time passes, sockets break,    *)
(* partitions are read again and the process may restart with an empty cache.  *)
(* An incident's updates stand for every kind of event that has a key; the     *)
(* rooms of single services and incidents repeat the dashboard's pushes.       *)
EXTENDS Integers, Sequences, FiniteSets, SequencesExt

CONSTANTS
  Incidents, Services,  \* keys of incident-updated and of raw-logs
  PartitionOf,          \* the partition of its topic a key goes to
  TenantOf,             \* the tenant of a key, and of a socket
  Sockets,
  Window,               \* EVENT_DEDUP_WINDOW_MS
  Ttl,                  \* EVENT_CACHE_TTL_MS
  MaxCache,             \* EVENT_CACHE_MAX
  Recent,               \* how far back a replay goes when the client names no time
  MaxRecords,           \* bound on the records of a partition
  MaxTime, MaxFaults    \* bounds on the clock and on breaks, rebalances and restarts

Keys == Incidents \cup Services
ASSUME GatewayAssumption ==
  /\ Incidents \cap Services = {} /\ Keys \subseteq DOMAIN PartitionOf
  /\ Keys \cup Sockets \subseteq DOMAIN TenantOf
  /\ Window \in Nat \ {0} /\ Ttl \in Nat /\ Window <= Ttl /\ MaxCache \in Nat \ {0}
  /\ Recent \in Nat /\ MaxTime \in Nat /\ MaxFaults \in Nat
  /\ MaxRecords \in [{PartitionOf[k] : k \in Keys} -> Nat]

Partitions == {PartitionOf[k] : k \in Keys}

VARIABLES
  log,        \* the records of each partition
  position,   \* records of a partition the bridge has read
  committed,  \* the group's offset, where reading starts again
  cache,      \* eventCache with eventCacheTimestamps, in the Map's order
  now,        \* Date.now()
  connected,  \* the sockets that are connected
  left,       \* when a socket's connection broke: what its client replays from
  synced,     \* the sockets that have not missed a push, or replayed it
  known,      \* the version of an incident a client has seen last
  pushed,     \* history: version and time of an incident's last push
  handledAt,  \* history: when the bridge last read a record of an incident
  evicted,    \* history: incidents that left the cache since their last push
  faults

bridge == <<log, position, committed, cache>>
clients == <<connected, left, synced, known>>
history == <<pushed, handledAt, evicted>>
vars == <<bridge, clients, history, now, faults>>

Init ==
  /\ log = [p \in Partitions |-> <<>>]
  /\ position = [p \in Partitions |-> 0] /\ committed = [p \in Partitions |-> 0]
  /\ cache = <<>> /\ now = 0
  /\ connected = Sockets /\ synced = Sockets
  /\ left = [s \in Sockets |-> 0]
  /\ known = [s \in Sockets |-> [i \in Incidents |-> 0]]
  /\ pushed = [i \in Incidents |-> [version |-> 0, at |-> 0]]
  /\ handledAt = [i \in Incidents |-> 0] /\ evicted = {} /\ faults = 0

-----------------------------------------------------------------------------
(* The cache: entries of a key, a value and a time *)

\* The bridge does not pass the partition on, so a log's key is "raw-logs", the
\* word undefined, and its offset; all else has the key of its record.
DedupKey(r) == IF r.key \in Services THEN <<"raw-logs", r.offset>> ELSE <<"key", r.key>>

Cached(c, key) == \E n \in DOMAIN c : c[n].key = key
EntryOf(c, key) == c[CHOOSE n \in DOMAIN c : c[n].key = key]

\* A Map keeps the place of a key that is set again.
Put(c, key, value) ==
  LET entry == [key |-> key, value |-> value, at |-> now] IN
  IF Cached(c, key) THEN [n \in DOMAIN c |-> IF c[n].key = key THEN entry ELSE c[n]]
                    ELSE Append(c, entry)

\* Faulty: the window is one unit short.
IsDuplicateShort(c, key) == Cached(c, key) /\ now - EntryOf(c, key).at < Window - 1

IsDuplicate(c, key) == Cached(c, key) /\ now - EntryOf(c, key).at < Window

Placeholder == [key |-> "_dedup", offset |-> 0]
\* Faulty: the placeholder is set before the window is looked at.
CheckedTooLate(c, key) == Put(c, key, Placeholder)

\* Faulty: a duplicate renews the time of its entry.
CheckedSliding(c, key) ==
  IF IsDuplicate(c, key) THEN Put(c, key, EntryOf(c, key).value) ELSE Put(c, key, Placeholder)

\* What isDuplicate leaves behind.
Checked(c, key) == IF IsDuplicate(c, key) THEN c ELSE Put(c, key, Placeholder)

\* evictExpiredEvents: the entries that are not too old, in the order they had.
Unexpired(c) ==
  LET kept == {n \in DOMAIN c : now - c[n].at <= Ttl}
      Rank(n) == Cardinality({m \in kept : m <= n})
  IN  [j \in 1 .. Cardinality(kept) |-> c[CHOOSE n \in kept : Rank(n) = j]]

\* Faulty: the cap is only noticed when it is exceeded by two.
CacheEventLate(c, key, value) ==
  LET d == Put(Unexpired(c), key, value) IN
  IF Len(d) > MaxCache + 1 THEN Tail(d) ELSE d

\* cacheEvent: expired entries go, and beyond the cap the one inserted first.
CacheEvent(c, key, value) ==
  LET d == Put(Unexpired(c), key, value) IN
  IF Len(d) > MaxCache THEN Tail(d) ELSE d

IncidentsIn(c) == {i \in Incidents : Cached(c, <<"key", i>>)}

-----------------------------------------------------------------------------
(* The bridge *)

Produce(k) ==
  /\ LET p == PartitionOf[k] IN
       /\ Len(log[p]) < MaxRecords[p]
       /\ log' = [log EXCEPT ![p] = Append(@, [key |-> k, offset |-> Len(@) + 1])]
  /\ UNCHANGED <<position, committed, cache, clients, history, now, faults>>

\* The room of the tenant's dashboard; logs go to a room of their own.
Hears(s, key) == s \in connected /\ TenantOf[s] = TenantOf[key]

Push(r) ==
  /\ known' = [s \in Sockets |->
                IF r.key \in Incidents /\ Hears(s, r.key)
                THEN [known[s] EXCEPT ![r.key] = r.offset] ELSE known[s]]
  /\ pushed' = IF r.key \in Incidents
               THEN [pushed EXCEPT ![r.key] = [version |-> r.offset, at |-> now]]
               ELSE pushed

\* eachMessage and the bridge's listener.
Handle(p) ==
  /\ position[p] < Len(log[p])
  /\ position' = [position EXCEPT ![p] = @ + 1]
  /\ LET r == log[p][position[p] + 1]
         key == DedupKey(r)
         checked == Checked(cache, key)
     IN  /\ IF IsDuplicate(cache, key)
            THEN cache' = checked /\ UNCHANGED <<known, pushed, evicted>>
            ELSE /\ cache' = CacheEvent(checked, key, r)
                 /\ Push(r)
                 /\ evicted' = (evicted \cup (IncidentsIn(cache) \ IncidentsIn(cache')))
                                 \ {r.key}
         /\ handledAt' = IF r.key \in Incidents THEN [handledAt EXCEPT ![r.key] = now]
                                                ELSE handledAt
  /\ UNCHANGED <<log, committed, connected, left, synced, now, faults>>

Commit(p) ==
  /\ committed[p] < position[p]
  /\ committed' = [committed EXCEPT ![p] = position[p]]
  /\ UNCHANGED <<log, position, cache, clients, history, now, faults>>

-----------------------------------------------------------------------------
(* Sockets *)

Fault == faults < MaxFaults /\ faults' = faults + 1

Break(s) ==
  /\ s \in connected /\ Fault
  /\ connected' = connected \ {s} /\ synced' = synced \ {s}
  /\ left' = [left EXCEPT ![s] = IF s \in synced THEN now ELSE @]
  /\ UNCHANGED <<bridge, known, history, now>>

Reconnect(s) ==
  /\ s \notin connected
  /\ connected' = connected \cup {s}
  /\ UNCHANGED <<bridge, left, synced, known, history, now, faults>>

\* Faulty: the tenant of a cached event is not looked at.
ReplayedToAll(s, since) == {n \in DOMAIN cache : cache[n].at >= since}

Owner(value) == IF value = Placeholder THEN "default" ELSE TenantOf[value.key]

\* What a replay emits to a socket.
Replayed(s, since) ==
  {n \in DOMAIN cache : /\ cache[n].at >= since
                        /\ Owner(cache[n].value) = TenantOf[s]}

\* The client asks for what came since its connection broke, or names no time.
Replay(s) ==
  /\ s \in connected \ synced
  /\ \E since \in {left[s], now - Recent} :
       /\ known' = [known EXCEPT ![s] = [i \in Incidents |->
            IF \E n \in Replayed(s, since) : cache[n].value.key = i
            THEN EntryOf(cache, <<"key", i>>).value.offset ELSE @[i]]]
       /\ synced' = IF since <= left[s] THEN synced \cup {s} ELSE synced
  /\ UNCHANGED <<bridge, connected, left, history, now, faults>>

-----------------------------------------------------------------------------
(* Time, rebalances and restarts *)

Tick ==
  /\ now < MaxTime /\ now' = now + 1
  /\ UNCHANGED <<bridge, clients, history, faults>>

\* The partition is assigned anew and read from its committed offset.
Rebalance(p) ==
  /\ committed[p] < position[p] /\ Fault
  /\ position' = [position EXCEPT ![p] = committed[p]]
  /\ UNCHANGED <<log, committed, cache, clients, history, now>>

\* The cache was all the gateway knew.
Restart ==
  /\ Fault
  /\ position' = committed /\ cache' = <<>>
  /\ evicted' = Incidents
  /\ connected' = {} /\ synced' = {}
  /\ left' = [s \in Sockets |-> IF s \in synced THEN now ELSE left[s]]
  /\ UNCHANGED <<log, committed, known, pushed, handledAt, now>>

Next ==
  \/ \E k \in Keys : Produce(k)
  \/ \E p \in Partitions : Handle(p) \/ Commit(p) \/ Rebalance(p)
  \/ \E s \in Sockets : Break(s) \/ Reconnect(s) \/ Replay(s)
  \/ Tick \/ Restart

Spec == Init /\ [][Next]_vars

-----------------------------------------------------------------------------
(* Properties *)

Records == [key : Keys, offset : Nat \ {0}]

\* Types; the cache never exceeds its cap and holds a key once, and no placeholder of
\* the duplicate check outlives the handler that set it.
TypeOK ==
  /\ log \in [Partitions -> Seq(Records)]
  /\ \A p \in Partitions : committed[p] <= position[p] /\ position[p] <= Len(log[p])
  /\ Len(cache) <= MaxCache
  /\ \A n \in DOMAIN cache : cache[n].value \in Records /\ cache[n].at \in 0 .. now
  /\ \A n, m \in DOMAIN cache : cache[n].key = cache[m].key => n = m
  /\ now \in 0 .. MaxTime /\ faults \in 0 .. MaxFaults
  /\ connected \subseteq Sockets /\ synced \subseteq connected
  /\ known \in [Sockets -> [Incidents -> Nat]]

\* A client that stayed connected, or replayed from the time its connection broke,
\* knows the last version the gateway pushed of each incident of its tenant, unless
\* the cap, the age or a restart took it from the cache: what the cache keeps of an
\* incident is always its last push.
InSync ==
  \A s \in synced, i \in Incidents :
    TenantOf[s] = TenantOf[i] => known[s][i] = pushed[i].version \/ i \in evicted

\* An incident of another tenant never reaches a socket, pushed or replayed.
OwnTenant ==
  \A s \in Sockets, i \in Incidents : TenantOf[s] # TenantOf[i] => known[s][i] = 0

\* A key is not pushed twice within the window, repeated reads of a partition
\* included, unless it left the cache in between.
OncePerWindow ==
  [][\A i \in Incidents :
       pushed'[i] # pushed[i] /\ pushed[i].version > 0
         => pushed'[i].at >= pushed[i].at + Window \/ i \in evicted]_vars

\* Dashboards may be behind the topic, because a second update within the window is
\* dropped as a duplicate, but only by records read within one window of the last
\* push: dropping does not prolong the window.
BehindWithinWindow ==
  \A i \in Incidents :
    handledAt[i] > 0 => handledAt[i] < pushed[i].at + Window
=============================================================================
