---------------------------- MODULE DashboardCache ----------------------------
(***************************************************************************)
(* The cache of dashboard results of one backend process: entries with a   *)
(* TTL under a budget of bytes that follows the available memory, least    *)
(* recently used first out, and one computation per key that concurrent    *)
(* requests share.                                                         *)
(*                                                                         *)
(* One action is one section under the cache's lock, one test made outside *)
(* it, or one computation.  A request is a thread that looks up a key and  *)
(* computes and publishes the value when it has to; one that fails outside *)
(* the calls that report it leaves its flight behind.  A size is small     *)
(* number standing for bytes; counters and logging are left out.           *)
(***************************************************************************)
EXTENDS Naturals, Sequences, SequencesExt, Subsequences

CONSTANTS
    Requests,    \* threads of the pool that serves requests
    CacheKeys,
    ItemSizes,   \* approximate_size of a result
    Budgets,     \* what effective_budget can return, 0 under memory pressure
    MaxItem,     \* max_item_bytes
    MaxEntries   \* max_entries

Nobody == "nobody"

ASSUME CacheAssumption ==
    /\ Requests # {} /\ Nobody \notin Requests /\ CacheKeys # {}
    /\ ItemSizes \subseteq Nat \ {0} /\ 0 \in Budgets /\ Budgets \subseteq Nat
    /\ MaxItem \in Nat \ {0} /\ MaxEntries \in Nat \ {0}

VARIABLES
    lru,        \* _entries, the least recently used first
    stored,     \* size_bytes of the entries
    expired,    \* entries whose TTL has run out and that nobody has purged
    bytes,      \* _current_bytes
    budget,     \* _effective_max_bytes
    flight,     \* _flights: the request that computes a key
    aged,       \* keys whose flight is older than singleflight_timeout_seconds
    request,    \* the requests
    lapsed      \* history: keys of which a flight or a wait has timed out

table == <<lru, stored, expired, bytes, budget>>
flights == <<flight, aged>>
cacheVars == <<table, flights, request, lapsed>>

Request == [pc : {"idle", "lookup", "reserve", "wait", "stranded", "compute", "size",
                  "store", "publish"},
            key : CacheKeys,
            size : ItemSizes \cup {0}]

AtRest == [pc |-> "idle", key |-> CHOOSE k \in CacheKeys : TRUE, size |-> 0]

Entries == ToSet(lru)

SumOf(size, keys) == MapThenSumSet(LAMBDA k : size[k], keys)
BytesOf(keys) == SumOf(stored, keys)

Lesser(m, n) == IF m < n THEN m ELSE n
Greater(m, n) == IF m > n THEN m ELSE n

CacheInit ==
    /\ lru = <<>> /\ expired = {} /\ bytes = 0
    /\ stored = [k \in CacheKeys |-> 0]
    /\ budget \in Budgets
    /\ flight = [k \in CacheKeys |-> Nobody] /\ aged = {}
    /\ request = [t \in Requests |-> AtRest]
    /\ lapsed = {}

-----------------------------------------------------------------------------
(* The table of entries. *)

Keep(keys) == LeftAt(lru, {i \in DOMAIN lru : lru[i] \in keys})

SizesOf(keys, size) == [k \in CacheKeys |-> IF k \in keys THEN size[k] ELSE 0]

\* _purge_expired_locked and _remove_locked
Drop(keys) ==
    /\ lru' = Keep(CacheKeys \ keys)
    /\ bytes' = Greater(bytes, BytesOf(Entries \cap keys)) - BytesOf(Entries \cap keys)
    /\ stored' = SizesOf(Entries \ keys, stored)
    /\ expired' = expired \ keys

\* _shrink_to_locked of a sequence of entries that take up `sum' bytes
Shrunk(seq, size, sum, target) ==
    LET first(n) == {seq[i] : i \in 1 .. n}
        left(n) == sum - SumOf(size, first(n))
        fits(n) == left(n) <= target /\ Len(seq) - n <= MaxEntries
        gone == CHOOSE n \in 0 .. Len(seq) :
                  /\ fits(n) \/ n = Len(seq)
                  /\ \A m \in 0 .. n - 1 : ~fits(m)
    IN  /\ lru' = SubSeq(seq, gone + 1, Len(seq))
        /\ stored' = SizesOf(ToSet(lru'), size)
        /\ bytes' = left(gone)

-----------------------------------------------------------------------------
(* A request. *)

Is(t, pc) == request[t].pc = pc
Moves(t, pc) == request' = [request EXCEPT ![t].pc = pc]
KeyOf(t) == request[t].key

Arrive(t, k) ==
    /\ Is(t, "idle")
    /\ request' = [request EXCEPT ![t] = [pc |-> "lookup", key |-> k, size |-> 0]]
    /\ UNCHANGED <<table, flights, lapsed>>

\* the first half of lookup_or_reserve
Lookup(t) ==
    LET k == KeyOf(t)
        live == Entries \ expired
    IN
    /\ Is(t, "lookup")
    /\ \/ /\ budget > 0 /\ k \in live
          /\ lru' = Append(Keep(live \ {k}), k)
          /\ bytes' = Greater(bytes, BytesOf(expired)) - BytesOf(expired)
          /\ expired' = {}
          /\ stored' = SizesOf(live, stored)
          /\ request' = [request EXCEPT ![t] = AtRest]
       \/ /\ budget > 0 /\ k \notin live
          /\ Drop(expired)
          /\ Moves(t, "reserve")
       \/ /\ budget = 0
          /\ Moves(t, "reserve")
          /\ UNCHANGED <<lru, stored, expired, bytes>>
    /\ UNCHANGED <<budget, flights, lapsed>>

\* whoever waits for the flight a request takes over is never woken by it
Owns(t) ==
    /\ flight' = [flight EXCEPT ![KeyOf(t)] = t]
    /\ aged' = aged \ {KeyOf(t)}
    /\ request' = [u \in Requests |->
         IF u = t THEN [request[t] EXCEPT !.pc = "compute"]
         ELSE IF Is(u, "wait") /\ KeyOf(u) = KeyOf(t)
              THEN [request[u] EXCEPT !.pc = "stranded"]
              ELSE request[u]]

\* slip: a flight is registered without a look at the one there is
ReserveAlways(t) ==
    Is(t, "reserve") /\ Owns(t) /\ UNCHANGED <<table, lapsed>>

\* _flight
Share(t) ==
    LET k == KeyOf(t) IN
    /\ Is(t, "reserve")
    /\ \/ (flight[k] = Nobody \/ k \in aged) /\ Owns(t)
       \/ flight[k] = t /\ k \notin aged /\ Moves(t, "compute") /\ UNCHANGED flights
       \/ flight[k] \notin {Nobody, t} /\ k \notin aged /\ Moves(t, "wait")
          /\ UNCHANGED flights
    /\ UNCHANGED <<table, lapsed>>

\* slip: only a flight that is still registered is timed
GiveUpOnFlight(t) ==
    /\ Is(t, "wait") /\ Moves(t, "compute")
    /\ lapsed' = lapsed \cup {KeyOf(t)}
    /\ UNCHANGED <<table, flights>>

\* event.wait ends without the event: the request computes for itself
GiveUp(t) ==
    /\ Is(t, "wait") \/ Is(t, "stranded")
    /\ Moves(t, "compute")
    /\ lapsed' = lapsed \cup {KeyOf(t)}
    /\ UNCHANGED <<table, flights>>

FlightAges(k) ==
    /\ flight[k] # Nobody /\ k \notin aged
    /\ aged' = aged \cup {k}
    /\ lapsed' = lapsed \cup {k}
    /\ UNCHANGED <<table, flight, request>>

\* the flights of these keys are popped and whoever waits for them is woken
Land(t, keys) ==
    /\ flight' = [k \in CacheKeys |-> IF k \in keys THEN Nobody ELSE flight[k]]
    /\ aged' = aged \ keys
    /\ request' = [u \in Requests |->
         IF u = t \/ (Is(u, "wait") /\ KeyOf(u) \in keys)
         THEN AtRest ELSE request[u]]

\* a failure is reported by fail_flight, by fail_thread_flights or not at all
Compute(t) ==
    /\ Is(t, "compute")
    /\ \/ /\ \E size \in ItemSizes :
               request' = [request EXCEPT ![t].pc = "size", ![t].size = size]
          /\ UNCHANGED flights
       \/ Land(t, {KeyOf(t)})
       \/ Land(t, {k \in CacheKeys : flight[k] = t})
       \/ request' = [request EXCEPT ![t] = AtRest] /\ UNCHANGED flights
    /\ UNCHANGED <<table, lapsed>>

Fits(size) == /\ budget > 0 /\ size <= budget
              /\ size <= Lesser(MaxItem, Greater(1, budget \div 4))

Stored(t) == request' = [request EXCEPT ![t].pc = "publish", ![t].size = 0]

\* what set tests before it takes the lock
CheckSize(t) ==
    /\ Is(t, "size")
    /\ IF Fits(request[t].size) THEN Moves(t, "store") ELSE Stored(t)
    /\ UNCHANGED <<table, flights, lapsed>>

\* slip: the entry a key has already is overwritten with its size counted
StoreOver(t) ==
    LET k == KeyOf(t)
        size == [stored EXCEPT ![k] = request[t].size]
        sum == Greater(bytes, BytesOf(expired)) - BytesOf(expired)
    IN
    /\ Is(t, "store") /\ Stored(t)
    /\ Shrunk(Append(Keep((Entries \ expired) \ {k}), k), size, sum + size[k], budget)
    /\ expired' = {}
    /\ UNCHANGED <<budget, flights, lapsed>>

Store(t) ==
    LET k == KeyOf(t)
        size == [stored EXCEPT ![k] = request[t].size]
        gone == expired \cup (Entries \cap {k})
        sum == Greater(bytes, BytesOf(gone)) - BytesOf(gone)
    IN
    /\ Is(t, "store") /\ Stored(t)
    /\ Shrunk(Append(Keep(Entries \ gone), k), size, sum + size[k], budget)
    /\ expired' = {}
    /\ UNCHANGED <<budget, flights, lapsed>>

\* the end of publish: the flight registered now, whoever owns it
Publish(t) ==
    /\ Is(t, "publish")
    /\ Land(t, {KeyOf(t)})
    /\ UNCHANGED <<table, lapsed>>

-----------------------------------------------------------------------------
(* Time, mutations by other requests, and the memory monitor. *)

Expires(k) ==
    /\ k \in Entries \ expired
    /\ expired' = expired \cup {k}
    /\ UNCHANGED <<lru, stored, bytes, budget, flights, request, lapsed>>

\* dashboard_cache_invalidate_for_http_mutation; flights are left alone
Invalidate(keys) ==
    /\ Entries \cap keys # {}
    /\ Drop(keys)
    /\ UNCHANGED <<budget, flights, request, lapsed>>

Clear ==
    /\ lru # <<>>
    /\ lru' = <<>> /\ bytes' = 0 /\ expired' = {} /\ stored' = SizesOf({}, stored)
    /\ UNCHANGED <<budget, flights, request, lapsed>>

\* evaluate_memory_pressure
MemoryCheck(effective) ==
    /\ effective # budget
    /\ budget' = effective
    /\ IF effective < budget THEN Shrunk(lru, stored, bytes, effective)
                             ELSE UNCHANGED <<lru, stored, bytes>>
    /\ expired' = expired \cap ToSet(lru')
    /\ UNCHANGED <<flights, request, lapsed>>

-----------------------------------------------------------------------------
Answering(t) ==
    \/ Lookup(t) \/ Share(t) \/ GiveUp(t) \/ Compute(t) \/ CheckSize(t)
    \/ Store(t) \/ Publish(t)

CacheNext ==
    \/ \E t \in Requests : Answering(t) \/ \E k \in CacheKeys : Arrive(t, k)
    \/ \E k \in CacheKeys : FlightAges(k) \/ Expires(k) \/ Invalidate({k})
    \/ Clear
    \/ \E effective \in Budgets : MemoryCheck(effective)

CacheSpec == CacheInit /\ [][CacheNext]_cacheVars

(* Threads run, waits time out, and a computation ends: queries have        *)
(* timeouts of their own.                                                   *)
CacheFairness == \A t \in Requests : WF_cacheVars(Answering(t))

CacheFairSpec == CacheSpec /\ CacheFairness

-----------------------------------------------------------------------------
(* Properties. *)

CacheTypeOK ==
    /\ Entries \subseteq CacheKeys /\ Len(lru) = Cardinality(Entries)
    /\ stored \in [CacheKeys -> ItemSizes \cup {0}]
    /\ expired \subseteq Entries /\ aged \subseteq CacheKeys /\ lapsed \subseteq CacheKeys
    /\ bytes \in Nat /\ budget \in Budgets
    /\ flight \in [CacheKeys -> Requests \cup {Nobody}]
    /\ request \in [Requests -> Request]

(* The entries take up what is accounted for, and never more than the       *)
(* budget of the moment, although an insertion tests its size against an    *)
(* older budget; under memory pressure nothing at all is retained           *)
(* (docs/dashboard-performance.md).                                         *)
BudgetKept == /\ bytes = BytesOf(Entries)
              /\ bytes <= budget /\ Len(lru) <= MaxEntries

(* Concurrent requests of one key share a computation, unless it has taken  *)
(* longer than the time-out: whatever fails, and whether the cache stores   *)
(* or not, no second one is started beside it.                              *)
OneComputation ==
    \A t, u \in Requests :
        t # u /\ Is(t, "compute") /\ Is(u, "compute") /\ KeyOf(t) = KeyOf(u)
          => KeyOf(t) \in lapsed

(* Every request is answered in the end, also one that waits for a flight   *)
(* its owner has left behind or another request has taken over.             *)
Answered == \A t \in Requests : ~Is(t, "idle") ~> Is(t, "idle")
=============================================================================
