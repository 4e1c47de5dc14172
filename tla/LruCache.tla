------------------------------- MODULE LruCache -------------------------------
(***************************************************************************)
(* The cache of function results for several threads                       *)
(* (resources/lib/cache/lru_cache.py), with a maxsize and with or without  *)
(* a timeout: the wrapper looks a key up under the lock, computes outside  *)
(* of it, and inserts under the lock; invalidate takes no lock and comes   *)
(* between the steps of both parts.  A del and the assignment behind it of *)
(* the same key are one step: an invalidate between them raises and        *)
(* changes nothing.                                                        *)
(*                                                                         *)
(* A result is the time it was made, in the whole seconds of int(time()).  *)
(***************************************************************************)
EXTENDS Naturals, Sequences, SequencesExt

CONSTANTS
  Threads,
  Keys,
  MaxSize,      \* maxsize
  Timeout,      \* timeout, Forever for None
  Forever,
  MaxNow        \* bound: the clock

ASSUME LruCacheAssumption ==
  /\ MaxSize \in Nat \ {0}
  /\ Timeout \in Nat \cup {Forever}
  /\ Forever \notin Nat
  /\ MaxNow \in Nat

VARIABLES
  order,        \* the keys of the OrderedDict, the first to go first
  made,         \* what it holds for them: when their results were made
  isFull,       \* is_full
  pc,           \* where a thread is in the wrapper
  key, result,  \* its call, and the result_tuple it has computed
  now,          \* the clock
  \* history, for the properties
  older,        \* the pairs of keys of which the second was used later
  cleared       \* invalidate has removed a key

cache == <<order, made, isFull>>
history == <<older, cleared>>
vars == <<cache, pc, key, result, now, history>>

(* A thread at one of these holds the lock. *)
Locked == {"found", "expired", "recount", "count"}

Cached(k) == k \in ToSet(order)
Valid(k) == Timeout = Forever \/ now - made[k] <= Timeout
LockFree == \A t \in Threads : pc[t] \notin Locked
Full_late == Len(order) > MaxSize   \* faulty variant: off by one
Full == Len(order) >= MaxSize

Init ==
  /\ order = <<>>
  /\ made = [k \in Keys |-> 0]
  /\ isFull = FALSE
  /\ pc = [t \in Threads |-> "idle"]
  /\ key \in [Threads -> Keys]
  /\ result = [t \in Threads |-> 0]
  /\ now = 0
  /\ older = {}
  /\ cleared = FALSE

Without(s, k) ==
  IF k \in ToSet(s) THEN RemoveAt(s, CHOOSE i \in 1 .. Len(s) : s[i] = k) ELSE s
Goto(t, label) == pc' = [pc EXCEPT ![t] = label]
Use(k) == older' = {p \in older : p[1] # k} \cup ((Keys \ {k}) \X {k})
Del(k) ==
  /\ order' = Without(order, k)
  /\ made' = [made EXCEPT ![k] = 0]

(* Faulty variant: the look-up does not wait for the lock. *)
Call_unlocked(t, k) ==
  /\ pc[t] = "idle"
  /\ key' = [key EXCEPT ![t] = k]
  /\ Goto(t, IF ~Cached(k) THEN "computing"
              ELSE IF Valid(k) THEN "found" ELSE "expired")
  /\ UNCHANGED <<cache, result, now, history>>

(* The look-up, which takes the lock when it has found something. *)
Call(t, k) ==
  /\ pc[t] = "idle"
  /\ LockFree
  /\ key' = [key EXCEPT ![t] = k]
  /\ Goto(t, IF ~Cached(k) THEN "computing"
              ELSE IF Valid(k) THEN "found" ELSE "expired")
  /\ UNCHANGED <<cache, result, now, history>>

(* Faulty variant: what was found stays where it is. *)
Hit_stays(t) ==
  /\ pc[t] = "found"
  /\ Cached(key[t])
  /\ Use(key[t])
  /\ Goto(t, "idle")
  /\ UNCHANGED <<cache, key, result, now, cleared>>

(* What was found is moved to the end and returned. *)
Hit(t) ==
  /\ pc[t] = "found"
  /\ Cached(key[t])
  /\ order' = Append(Without(order, key[t]), key[t])
  /\ Use(key[t])
  /\ Goto(t, "idle")
  /\ UNCHANGED <<made, isFull, key, result, now, cleared>>

(* Faulty variant: the flag is left as it was. *)
Expire_flagged(t) ==
  /\ pc[t] = "expired"
  /\ Cached(key[t])
  /\ Del(key[t])
  /\ Goto(t, "computing")
  /\ UNCHANGED <<isFull, key, result, now, history>>

Expire(t) ==
  /\ pc[t] = "expired"
  /\ Cached(key[t])
  /\ Del(key[t])
  /\ Goto(t, "recount")
  /\ UNCHANGED <<isFull, key, result, now, history>>

(* del of a key that an invalidate has removed. *)
Gone(t) ==
  /\ pc[t] \in {"found", "expired"}
  /\ ~Cached(key[t])
  /\ Goto(t, "raised")
  /\ UNCHANGED <<cache, key, result, now, history>>

(* is_full is taken from the size, behind an expiry and behind an addition. *)
Count(t) ==
  /\ pc[t] \in {"recount", "count"}
  /\ isFull' = Full
  /\ Goto(t, IF pc[t] = "recount" THEN "computing" ELSE "idle")
  /\ UNCHANGED <<order, made, key, result, now, history>>

(* result_tuple: the value, and the time it was made. *)
Compute(t) ==
  /\ pc[t] = "computing"
  /\ result' = [result EXCEPT ![t] = now]
  /\ Goto(t, "inserting")
  /\ UNCHANGED <<cache, key, now, history>>

(* Another thread has inserted the key meanwhile: its value stays. *)
KeepOther(t) ==
  /\ Cached(key[t])
  /\ Goto(t, "idle")
  /\ UNCHANGED <<order, made, older>>

Put(t, kept) ==
  /\ order' = Append(kept, key[t])
  /\ made' = [k \in Keys |->
                 IF k = key[t] THEN result[t]
                 ELSE IF k \in ToSet(kept) THEN made[k] ELSE 0]
  /\ Use(key[t])

Evict(t) ==
  /\ ~Cached(key[t])
  /\ isFull
  /\ order # <<>>
  /\ Put(t, Tail(order))
  /\ Goto(t, "idle")

(* popitem of an empty dictionary. *)
EvictNothing(t) ==
  /\ ~Cached(key[t])
  /\ isFull
  /\ order = <<>>
  /\ Goto(t, "raised")
  /\ UNCHANGED <<order, made, older>>

Add(t) ==
  /\ ~Cached(key[t])
  /\ ~isFull
  /\ Put(t, order)
  /\ Goto(t, "count")

(* The last part of the wrapper, under the lock. *)
Insert(t) ==
  /\ pc[t] = "inserting"
  /\ LockFree
  /\ KeepOther(t) \/ Evict(t) \/ EvictNothing(t) \/ Add(t)
  /\ result' = [result EXCEPT ![t] = 0]
  /\ UNCHANGED <<isFull, key, now, cleared>>

(* The caller of a call that raised goes on. *)
Recover(t) ==
  /\ pc[t] = "raised"
  /\ Goto(t, "idle")
  /\ UNCHANGED <<cache, key, result, now, history>>

(* invalidate; of a key that is not there it raises and changes nothing. *)
Invalidate(k) ==
  /\ Cached(k)
  /\ Del(k)
  /\ cleared' = TRUE
  /\ UNCHANGED <<isFull, pc, key, result, now, older>>

Tick ==
  /\ now < MaxNow
  /\ now' = now + 1
  /\ UNCHANGED <<cache, pc, key, result, history>>

ThreadStep(t) ==
  \/ \E k \in Keys : Call(t, k)
  \/ Hit(t) \/ Expire(t) \/ Gone(t) \/ Count(t)
  \/ Compute(t) \/ Insert(t) \/ Recover(t)

Next ==
  \/ \E t \in Threads : ThreadStep(t)
  \/ \E k \in Keys : Invalidate(k)
  \/ Tick

Spec == Init /\ [][Next]_vars
-------------------------------------------------------------------------------
(* The dictionary holds no key twice,                                        *)
(* and at most one thread is in a part of the wrapper that has the lock      *)
(* (lru_cache.py:32, 45).                                                    *)
TypeOK ==
  /\ order \in Seq(Keys)
  /\ IsInjective(order)
  /\ made \in [Keys -> 0 .. MaxNow]
  /\ isFull \in BOOLEAN
  /\ pc \in [Threads -> {"idle", "computing", "inserting", "raised"} \cup Locked]
  /\ key \in [Threads -> Keys]
  /\ result \in [Threads -> 0 .. MaxNow]
  /\ now \in 0 .. MaxNow
  /\ older \subseteq Keys \X Keys
  /\ cleared \in BOOLEAN
  /\ \A s, t \in Threads : pc[s] \in Locked /\ pc[t] \in Locked => s = t

(* However calls, expiries and invalidations interleave, the cache never     *)
(* holds more than maxsize results (lru_cache.py:48-53).                     *)
SizeBounded == Len(order) <= MaxSize

(* What goes when the cache is full is the result whose last use is the      *)
(* longest ago: the dictionary is in the order of the last uses, although a  *)
(* thread that lost the race to insert a key uses its own result             *)
(* (lru_cache.py:37-38, 46-49).                                              *)
LeastRecentlyUsedFirst ==
  \A i, j \in 1 .. Len(order) :
    i < j => /\ <<order[i], order[j]>> \in older
             /\ <<order[j], order[i]>> \notin older

(* When no thread is about to set it, the flag is never clear over a full    *)
(* cache, whatever invalidate has removed meanwhile: it errs on the side     *)
(* that evicts too much.  As long as nothing was invalidated it is exact,    *)
(* and no call raises (lru_cache.py:42, 48-53).                              *)
FlagExact ==
  /\ LockFree /\ Full => isFull
  /\ ~cleared => /\ LockFree /\ isFull => Full
                 /\ \A t \in Threads : pc[t] # "raised"

(* An invalidate that comes between breaks a call: see the README. *)
NeverRaises == \A t \in Threads : pc[t] # "raised"
===============================================================================
