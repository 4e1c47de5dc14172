------------------------------ MODULE CacheProofs ------------------------------
(* Theorems about the two caches of function results: LruCache, for any    *)
(* threads, keys, size and timeout, and FunctionCache, for any number of   *)
(* invocations and any time to live.                                       *)
EXTENDS LruCache, FunctionCache, SequenceTheorems, TLAPS

(* A list of different keys, each used before those behind it.             *)
Distinct(s) == \A i, j \in 1 .. Len(s) : s[i] = s[j] => i = j
Ranked(s, rel) ==
  \A i, j \in 1 .. Len(s) :
    i < j => <<s[i], s[j]>> \in rel /\ <<s[j], s[i]>> \notin rel
Good(s, rel) == s \in Seq(Keys) /\ Distinct(s) /\ Ranked(s, rel)

Holds(s, k) == \E i \in 1 .. Len(s) : s[i] = k

(* new has what old has but for its p-th element. *)
Dropped(old, p, new) ==
  /\ new \in Seq(Keys)
  /\ Len(new) = Len(old) - 1
  /\ \A i \in 1 .. Len(new) : new[i] = IF i < p THEN old[i] ELSE old[i + 1]

UsedLast(rel, k) == {p \in rel : p[1] # k} \cup ((Keys \ {k}) \X {k})

LEMMA HoldsIsToSet ==
  ASSUME NEW s \in Seq(Keys), NEW k
  PROVE  k \in ToSet(s) <=> Holds(s, k)
BY DEF ToSet, Holds

LEMMA RemoveAtDrops ==
  ASSUME NEW s \in Seq(Keys), NEW p \in 1 .. Len(s)
  PROVE  Dropped(s, p, RemoveAt(s, p))
<1> DEFINE front == SubSeq(s, 1, p - 1)
           back == SubSeq(s, p + 1, Len(s))
<1>0. Len(s) \in Nat /\ p \in Nat
  OBVIOUS
<1>1. /\ front \in Seq(Keys) /\ Len(front) = p - 1
      /\ \A i \in 1 .. p - 1 : front[i] = s[i]
  <2>1. \A i \in 1 .. p - 1 : s[i] \in Keys
    OBVIOUS
  <2> QED
    BY <1>0, <2>1, SubSeqProperties
<1>2. /\ back \in Seq(Keys) /\ Len(back) = Len(s) - p
      /\ \A i \in 1 .. Len(s) - p : back[i] = s[p + i]
  <2>1. \A i \in p + 1 .. Len(s) : s[i] \in Keys
    OBVIOUS
  <2> QED
    BY <1>0, <2>1, SubSeqProperties
<1>3. RemoveAt(s, p) = front \o back
  BY DEF RemoveAt
<1> HIDE DEF front, back
<1>4. /\ front \o back \in Seq(Keys)
      /\ Len(front \o back) = Len(s) - 1
      /\ \A i \in 1 .. Len(s) - 1 :
           (front \o back)[i] = IF i <= p - 1 THEN front[i] ELSE back[i - (p - 1)]
  <2>1. /\ front \o back \in Seq(Keys)
        /\ Len(front \o back) = Len(front) + Len(back)
        /\ \A i \in 1 .. Len(front) + Len(back) :
             (front \o back)[i] = IF i <= Len(front) THEN front[i] ELSE back[i - Len(front)]
    BY <1>1, <1>2, ConcatProperties
  <2>2. Len(front) + Len(back) = Len(s) - 1
    BY <1>0, <1>1, <1>2
  <2> QED
    BY <2>1, <2>2, <1>1
<1>5. \A i \in 1 .. Len(s) - 1 :
        (front \o back)[i] = IF i < p THEN s[i] ELSE s[i + 1]
  <2> TAKE i \in 1 .. Len(s) - 1
  <2>1. CASE i < p
    BY <2>1, <1>0, <1>1, <1>4
  <2>2. CASE ~(i < p)
    <3>1. i - (p - 1) \in 1 .. Len(s) - p /\ p + (i - (p - 1)) = i + 1
      BY <2>2, <1>0
    <3>2. back[i - (p - 1)] = s[p + (i - (p - 1))]
      BY <3>1, <1>2
    <3> QED
      BY <2>2, <3>1, <3>2, <1>0, <1>4
  <2> QED
    BY <2>1, <2>2
<1> QED
  BY <1>3, <1>4, <1>5 DEF Dropped

(* What is left of a good list is one, without what was dropped.           *)
LEMMA DroppedGood ==
  ASSUME NEW s, NEW rel, Good(s, rel), NEW p \in 1 .. Len(s), NEW new, Dropped(s, p, new)
  PROVE  /\ Good(new, rel) /\ Len(new) = Len(s) - 1 /\ ~Holds(new, s[p])
         /\ \A k : Holds(new, k) => Holds(s, k)
         /\ \A k : Holds(s, k) /\ k # s[p] => Holds(new, k)
<1> DEFINE from(i) == IF i < p THEN i ELSE i + 1
<1>0. Len(s) \in Nat /\ p \in Nat /\ Len(new) = Len(s) - 1 /\ new \in Seq(Keys)
  BY DEF Good, Dropped
<1>1. \A i \in 1 .. Len(new) :
        from(i) \in 1 .. Len(s) /\ from(i) # p /\ new[i] = s[from(i)]
  BY <1>0 DEF Dropped
<1>2. \A i, j \in 1 .. Len(new) : (i < j => from(i) < from(j)) /\ (i # j => from(i) # from(j))
  BY <1>0
<1>3. \A i \in 1 .. Len(s) : i # p => \E j \in 1 .. Len(new) : from(j) = i
  <2> TAKE i \in 1 .. Len(s)
  <2> HAVE i # p
  <2>1. CASE i < p
    <3>1. i \in 1 .. Len(new) /\ from(i) = i
      BY <2>1, <1>0
    <3> QED
      BY <3>1
  <2>2. CASE ~(i < p)
    <3>1. i - 1 \in 1 .. Len(new) /\ from(i - 1) = i
      BY <2>2, <1>0
    <3> QED
      BY <3>1
  <2> QED
    BY <2>1, <2>2
<1> HIDE DEF from
<1>4. Distinct(new)
  BY <1>1, <1>2 DEF Good, Distinct
<1>5. Ranked(new, rel)
  BY <1>1, <1>2 DEF Good, Ranked
<1>6. ~Holds(new, s[p])
  BY <1>1 DEF Good, Distinct, Holds
<1>7. \A k : Holds(new, k) => Holds(s, k)
  BY <1>1 DEF Holds
<1>8. \A k : Holds(s, k) /\ k # s[p] => Holds(new, k)
  BY <1>1, <1>3 DEF Holds
<1> QED
  BY <1>0, <1>4, <1>5, <1>6, <1>7, <1>8 DEF Good

LEMMA WithoutGood ==
  ASSUME NEW s, NEW rel, Good(s, rel), NEW k \in Keys
  PROVE  /\ Good(Without(s, k), rel)
         /\ ~Holds(Without(s, k), k)
         /\ Len(Without(s, k)) = IF Holds(s, k) THEN Len(s) - 1 ELSE Len(s)
         /\ \A x : x # k => (Holds(Without(s, k), x) <=> Holds(s, x))
<1>0. k \in ToSet(s) <=> Holds(s, k)
  BY HoldsIsToSet DEF Good
<1>1. CASE Holds(s, k)
  <2>1. PICK p \in 1 .. Len(s) : s[p] = k /\ Without(s, k) = RemoveAt(s, p)
    BY <1>0, <1>1 DEF Holds, Without
  <2>2. Dropped(s, p, Without(s, k))
    BY <2>1, RemoveAtDrops DEF Good
  <2> QED
    BY <1>1, <2>1, <2>2, DroppedGood
<1>2. CASE ~Holds(s, k)
  BY <1>0, <1>2 DEF Without
<1> QED
  BY <1>1, <1>2

LEMMA TailGood ==
  ASSUME NEW s, NEW rel, Good(s, rel), s # <<>>
  PROVE  /\ Good(Tail(s), rel)
         /\ Len(Tail(s)) = Len(s) - 1
         /\ \A k : Holds(Tail(s), k) => Holds(s, k)
<1>1. Len(s) \in Nat \ {0}
  BY EmptySeq DEF Good
<1>2. Dropped(s, 1, Tail(s))
  BY <1>1, HeadTailProperties DEF Good, Dropped
<1> QED
  BY <1>1, <1>2, DroppedGood

(* A key that is put behind a good list, and was used last of all.         *)
LEMMA AppendGood ==
  ASSUME NEW s, NEW rel, Good(s, rel), NEW k \in Keys, ~Holds(s, k)
  PROVE  /\ Good(Append(s, k), UsedLast(rel, k))
         /\ Len(Append(s, k)) = Len(s) + 1
         /\ \A x : Holds(Append(s, k), x) <=> x = k \/ Holds(s, x)
<1> DEFINE new == Append(s, k)
<1>1. /\ new \in Seq(Keys) /\ Len(new) = Len(s) + 1 /\ Len(s) \in Nat
      /\ \A i \in 1 .. Len(s) : new[i] = s[i]
      /\ new[Len(s) + 1] = k
  BY AppendProperties DEF Good
<1> HIDE DEF new
<1>2. \A i \in 1 .. Len(new) : i \in 1 .. Len(s) \/ i = Len(s) + 1
  BY <1>1
<1>3. \A i \in 1 .. Len(s) : new[i] # k /\ new[i] \in Keys
  BY <1>1 DEF Good, Holds
<1>4. Distinct(new)
  BY <1>1, <1>2, <1>3 DEF Good, Distinct
<1>5. Ranked(new, UsedLast(rel, k))
  <2> SUFFICES ASSUME NEW i \in 1 .. Len(new), NEW j \in 1 .. Len(new), i < j
               PROVE  /\ <<new[i], new[j]>> \in UsedLast(rel, k)
                      /\ <<new[j], new[i]>> \notin UsedLast(rel, k)
    BY DEF Ranked
  <2>0. i \in 1 .. Len(s) /\ new[i] # k /\ new[i] \in Keys
    BY <1>1, <1>3
  <2>1. CASE j = Len(s) + 1
    BY <2>0, <2>1, <1>1 DEF UsedLast
  <2>2. CASE j \in 1 .. Len(s)
    <3>1. new[j] # k /\ <<new[i], new[j]>> \in rel /\ <<new[j], new[i]>> \notin rel
      BY <2>0, <2>2, <1>1, <1>3 DEF Good, Ranked
    <3> QED
      BY <3>1, <2>0 DEF UsedLast
  <2> QED
    BY <1>2, <2>1, <2>2
<1>6. \A x : Holds(new, x) <=> x = k \/ Holds(s, x)
  BY <1>1, <1>2 DEF Holds
<1> QED
  BY <1>1, <1>4, <1>5, <1>6 DEF Good, new
-------------------------------------------------------------------------------
(* The inductive invariant.  Behind an addition, until the size is counted,  *)
(* the flag may be late; without an invalidate it is exact but for the two   *)
(* counts, and what was found under the lock is still there.                 *)
Labels == {"idle", "computing", "inserting", "raised"} \cup Locked

Types ==
  /\ made \in [Keys -> 0 .. MaxNow]
  /\ isFull \in BOOLEAN
  /\ pc \in [Threads -> Labels]
  /\ key \in [Threads -> Keys]
  /\ result \in [Threads -> 0 .. MaxNow]
  /\ now \in 0 .. MaxNow
  /\ older \in SUBSET (Keys \X Keys)
  /\ cleared \in BOOLEAN

OneHolder == \A s, t \in Threads : pc[s] \in Locked /\ pc[t] \in Locked => s = t

Room ==
  /\ Len(order) <= MaxSize
  /\ (\A t \in Threads : pc[t] # "count") /\ ~isFull => Len(order) < MaxSize

Counting == \E t \in Threads : pc[t] \in {"recount", "count"}

Untouched ==
  ~cleared =>
    /\ \A t \in Threads : /\ pc[t] # "raised"
                          /\ pc[t] \in {"found", "expired"} => Holds(order, key[t])
    /\ Counting \/ (isFull <=> Len(order) >= MaxSize)

OrderGood == Good(order, older)

IInv == Types /\ OneHolder /\ OrderGood /\ Room /\ Untouched

LEMMA InitIInv == Init => IInv
<1> SUFFICES ASSUME Init PROVE IInv
  OBVIOUS
<1>1. Types
  <2>1. 0 \in 0 .. MaxNow
    BY LruCacheAssumption
  <2> QED
    BY <2>1 DEF Init, Types, Labels
<1>2. OneHolder /\ ~Counting
  BY DEF Init, OneHolder, Locked, Counting
<1>3. OrderGood
  BY EmptySeq DEF Init, OrderGood, Good, Distinct, Ranked
<1>4. Len(order) = 0
  BY EmptySeq DEF Init
<1>5. Room /\ Untouched
  BY <1>2, <1>4, LruCacheAssumption DEF Init, Room, Untouched
<1> QED
  BY <1>1, <1>2, <1>3, <1>5 DEF IInv

(* A key is cached when the list holds it. *)
LEMMA CachedHolds ==
  ASSUME OrderGood, NEW k
  PROVE  Cached(k) <=> Holds(order, k)
BY HoldsIsToSet DEF OrderGood, Good, Cached

LEMMA LenNat == OrderGood => Len(order) \in Nat
BY DEF OrderGood, Good

LEMMA TypesStep ==
  ASSUME Types, OneHolder, [Next]_vars
  PROVE  Types' /\ OneHolder'
<1> USE DEF Types, OneHolder, Locked, Labels
<1>0. 0 \in 0 .. MaxNow
  BY LruCacheAssumption
<1>1. ASSUME NEW k \in Keys, NEW r, r = UsedLast(older, k)
      PROVE  r \in SUBSET (Keys \X Keys)
  BY <1>1 DEF UsedLast
<1>2. ASSUME NEW t \in Threads, ThreadStep(t)
      PROVE  Types' /\ OneHolder'
  <2>1. CASE \E k \in Keys : Call(t, k)
    BY <2>1 DEF Call, Goto, LockFree, cache, history
  <2>2. CASE Hit(t)
    <3>1. older' = UsedLast(older, key[t])
      BY <2>2 DEF Hit, Use, UsedLast
    <3> QED
      BY <2>2, <3>1, <1>1 DEF Hit, Goto
  <2>3. CASE Expire(t)
    BY <2>3, <1>0 DEF Expire, Del, Goto, history
  <2>4. CASE Gone(t)
    BY <2>4 DEF Gone, Goto, cache, history
  <2>5. CASE Count(t)
    <3>1. isFull' \in BOOLEAN
      BY <2>5 DEF Count, Full
    <3>2. pc'[t] \in Labels /\ pc' = [pc EXCEPT ![t] = pc'[t]]
      BY <2>5 DEF Count, Goto
    <3>3. pc'[t] \notin Locked
      BY <2>5 DEF Count, Goto
    <3> QED
      BY <2>5, <3>1, <3>2, <3>3 DEF Count, history
  <2>6. CASE Compute(t)
    BY <2>6 DEF Compute, Goto, cache, history
  <2>7. CASE Insert(t)
    <3>1. UNCHANGED made \/ Put(t, Tail(order)) \/ Put(t, order)
      BY <2>7 DEF Insert, KeepOther, Evict, EvictNothing, Add
    <3>2. made' \in [Keys -> 0 .. MaxNow]
      <4>1. CASE UNCHANGED made
        BY <4>1
      <4>2. ASSUME NEW kept, Put(t, kept)
            PROVE  made' \in [Keys -> 0 .. MaxNow]
        BY <4>2, <1>0 DEF Put
      <4> QED
        BY <3>1, <4>1, <4>2
    <3>3. older' = older \/ older' = UsedLast(older, key[t])
      BY <2>7 DEF Insert, KeepOther, Evict, EvictNothing, Add, Put, Use, UsedLast
    <3>4. older' \in SUBSET (Keys \X Keys)
      BY <3>3, <1>1
    <3>5. pc'[t] \in Labels /\ pc' = [pc EXCEPT ![t] = pc'[t]]
      BY <2>7 DEF Insert, KeepOther, Evict, EvictNothing, Add, Goto
    <3>6. \A s \in Threads : pc[s] \notin Locked
      BY <2>7 DEF Insert, LockFree
    <3>7. result' \in [Threads -> 0 .. MaxNow]
      BY <2>7, <1>0 DEF Insert
    <3> QED
      BY <2>7, <3>2, <3>4, <3>5, <3>6, <3>7 DEF Insert
  <2>8. CASE Recover(t)
    BY <2>8 DEF Recover, Goto, cache, history
  <2> QED
    BY <1>2, <2>1, <2>2, <2>3, <2>4, <2>5, <2>6, <2>7, <2>8 DEF ThreadStep
<1>3. ASSUME NEW k \in Keys, Invalidate(k)
      PROVE  Types' /\ OneHolder'
  BY <1>3, <1>0 DEF Invalidate, Del
<1>4. CASE Tick
  <2>1. now' \in 0 .. MaxNow
    BY <1>4, LruCacheAssumption DEF Tick
  <2> QED
    BY <1>4, <2>1 DEF Tick, cache, history
<1>5. CASE UNCHANGED vars
  BY <1>5 DEF vars, cache, history
<1> QED
  BY <1>2, <1>3, <1>4, <1>5 DEF Next

(* What a step makes of the list, and of its length. *)
LEMMA HitOrder ==
  ASSUME Types, OrderGood, NEW t \in Threads, Hit(t)
  PROVE  OrderGood' /\ Len(order') = Len(order)
<1>1. key[t] \in Keys /\ Holds(order, key[t])
  BY CachedHolds DEF Types, Hit
<1>2. /\ Good(Without(order, key[t]), older) /\ ~Holds(Without(order, key[t]), key[t])
      /\ Len(Without(order, key[t])) = Len(order) - 1
  BY <1>1, WithoutGood DEF OrderGood
<1>3. /\ order' = Append(Without(order, key[t]), key[t])
      /\ older' = UsedLast(older, key[t])
  BY DEF Hit, Use, UsedLast
<1>4. Good(order', older') /\ Len(order') = Len(order) - 1 + 1
  BY <1>1, <1>2, <1>3, AppendGood
<1> QED
  BY <1>4, LenNat DEF OrderGood

LEMMA DelOrder ==
  ASSUME OrderGood, NEW k \in Keys, Cached(k), Del(k), UNCHANGED older
  PROVE  /\ OrderGood' /\ Len(order') = Len(order) - 1
         /\ \A x : x # k => (Holds(order', x) <=> Holds(order, x))
<1>1. Holds(order, k)
  BY CachedHolds
<1> QED
  BY <1>1, WithoutGood DEF OrderGood, Del

LEMMA PutOrder ==
  ASSUME Types, OrderGood, NEW t \in Threads, ~Cached(key[t]),
         NEW kept, kept = order \/ (order # <<>> /\ kept = Tail(order)), Put(t, kept)
  PROVE  /\ OrderGood'
         /\ Len(order') = Len(kept) + 1
         /\ kept = order \/ Len(kept) = Len(order) - 1
<1>1. key[t] \in Keys /\ ~Holds(order, key[t])
  BY CachedHolds DEF Types
<1>2. Good(kept, older) /\ ~Holds(kept, key[t]) /\ (kept = order \/ Len(kept) = Len(order) - 1)
  BY <1>1, TailGood DEF OrderGood
<1>3. order' = Append(kept, key[t]) /\ older' = UsedLast(older, key[t])
  BY DEF Put, Use, UsedLast
<1>4. Good(order', older') /\ Len(order') = Len(kept) + 1
  BY <1>1, <1>2, <1>3, AppendGood
<1> QED
  BY <1>2, <1>4 DEF OrderGood

(* Insert, case by case. *)
LEMMA InsertStep ==
  ASSUME IInv, NEW t \in Threads, Insert(t)
  PROVE  OrderGood' /\ Room' /\ Untouched'
<1> USE DEF IInv, Types, Locked
<1>0. /\ \A s \in Threads : pc[s] \notin Locked
      /\ Len(order) \in Nat /\ MaxSize \in Nat \ {0}
      /\ isFull' = isFull /\ cleared' = cleared /\ key' = key
  BY LenNat, LruCacheAssumption DEF Insert, LockFree
<1>1. /\ Len(order) <= MaxSize /\ (~isFull => Len(order) < MaxSize)
      /\ ~cleared => /\ \A s \in Threads : pc[s] # "raised"
                     /\ isFull <=> Len(order) >= MaxSize
  BY <1>0 DEF Room, Untouched, Counting
<1>2. CASE KeepOther(t)
  BY <1>0, <1>1, <1>2 DEF KeepOther, Goto, OrderGood, Room, Untouched, Counting
<1>3. CASE Evict(t)
  <2>1. OrderGood' /\ Len(order') = Len(order) - 1 + 1
    <3>1. Tail(order) = order \/ Len(Tail(order)) = Len(order) - 1
      BY <1>3, TailGood DEF Evict, OrderGood
    <3>2. Len(Tail(order)) = Len(order) - 1
      BY <1>3, TailGood DEF Evict, OrderGood
    <3> QED
      BY <1>3, <3>2, PutOrder DEF Evict
  <2>2. Len(order') = Len(order)
    BY <2>1, <1>0
  <2> QED
    BY <1>0, <1>1, <1>3, <2>1, <2>2 DEF Evict, Goto, Room, Untouched, Counting
<1>4. CASE EvictNothing(t)
  <2>1. Len(order) = 0
    BY <1>4, EmptySeq DEF EvictNothing
  <2>2. cleared
    BY <1>0, <1>1, <1>4, <2>1 DEF EvictNothing
  <2> QED
    BY <1>0, <1>1, <1>4, <2>2 DEF EvictNothing, Goto, OrderGood, Room, Untouched
<1>5. CASE Add(t)
  <2>1. OrderGood' /\ Len(order') = Len(order) + 1
    BY <1>5, PutOrder DEF Add
  <2>2. pc'[t] = "count" /\ \A s \in Threads : s # t => pc'[s] = pc[s]
    BY <1>5 DEF Add, Goto
  <2>3. Room'
    BY <1>0, <1>1, <1>5, <2>1, <2>2 DEF Add, Room
  <2>4. Untouched'
    BY <1>0, <1>1, <2>2 DEF Untouched, Counting
  <2> QED
    BY <2>1, <2>3, <2>4
<1> QED
  BY <1>2, <1>3, <1>4, <1>5 DEF Insert

LEMMA OrderStep ==
  ASSUME IInv, [Next]_vars
  PROVE  OrderGood' /\ Room' /\ Untouched'
<1> USE DEF IInv, Types, Locked
<1>0. Len(order) \in Nat /\ MaxSize \in Nat \ {0}
  BY LenNat, LruCacheAssumption
<1>1. ASSUME NEW t \in Threads, ThreadStep(t)
      PROVE  OrderGood' /\ Room' /\ Untouched'
  <2>1. CASE \E k \in Keys : Call(t, k)
    <3>1. PICK k \in Keys : Call(t, k)
      BY <2>1
    <3>2. UNCHANGED <<order, older, isFull, cleared>> /\ key' = [key EXCEPT ![t] = k]
      BY <3>1 DEF Call, cache, history
    <3>3. /\ pc'[t] \in {"computing", "found", "expired"}
          /\ pc'[t] \in {"found", "expired"} => Holds(order, k)
      BY <3>1, CachedHolds DEF Call, Goto
    <3>4. \A s \in Threads : s # t => pc'[s] = pc[s]
      BY <3>1 DEF Call, Goto
    <3>5. pc[t] = "idle"
      BY <3>1 DEF Call
    <3> QED
      BY <3>2, <3>3, <3>4, <3>5 DEF OrderGood, Room, Untouched, Counting
  <2>2. CASE Hit(t)
    <3>1. OrderGood' /\ Len(order') = Len(order)
      BY <2>2, HitOrder
    <3>2. \A s \in Threads : s # t => pc[s] \notin Locked /\ pc'[s] = pc[s]
      BY <2>2 DEF Hit, Goto, OneHolder
    <3> QED
      BY <2>2, <3>1, <3>2 DEF Hit, Goto, Room, Untouched, Counting
  <2>3. CASE Expire(t)
    <3>1. OrderGood' /\ Len(order') = Len(order) - 1
      BY <2>3, DelOrder DEF Expire, history
    <3>2. \A s \in Threads : s # t => pc[s] \notin Locked /\ pc'[s] = pc[s]
      BY <2>3 DEF Expire, Goto, OneHolder
    <3>3. pc'[t] = "recount"
      BY <2>3 DEF Expire, Goto
    <3>4. Room'
      BY <2>3, <3>1, <1>0 DEF Expire, Room
    <3> QED
      BY <2>3, <3>1, <3>2, <3>3, <3>4 DEF Expire, Untouched, Counting, history
  <2>4. CASE Gone(t)
    <3>1. cleared
      BY <2>4, CachedHolds DEF Gone, Untouched
    <3> QED
      BY <2>4, <3>1 DEF Gone, Goto, OrderGood, Room, Untouched, cache, history
  <2>5. CASE Count(t)
    <3>1. UNCHANGED <<order, older, cleared, key>> /\ (isFull' <=> Len(order) >= MaxSize)
      BY <2>5 DEF Count, Full, history
    <3>2. pc'[t] \in {"computing", "idle"} /\ \A s \in Threads : s # t => pc'[s] = pc[s]
      BY <2>5 DEF Count, Goto
    <3> QED
      BY <3>1, <3>2, <1>0 DEF OrderGood, Room, Untouched, Counting
  <2>6. CASE Compute(t)
    BY <2>6 DEF Compute, Goto, OrderGood, Room, Untouched, Counting, cache, history
  <2>7. CASE Insert(t)
    BY <2>7, InsertStep
  <2>8. CASE Recover(t)
    BY <2>8 DEF Recover, Goto, OrderGood, Room, Untouched, Counting, cache, history
  <2> QED
    BY <1>1, <2>1, <2>2, <2>3, <2>4, <2>5, <2>6, <2>7, <2>8 DEF ThreadStep
<1>2. ASSUME NEW k \in Keys, Invalidate(k)
      PROVE  OrderGood' /\ Room' /\ Untouched'
  <2>1. OrderGood' /\ Len(order') = Len(order) - 1
    BY <1>2, DelOrder DEF Invalidate
  <2> QED
    BY <1>2, <2>1, <1>0 DEF Invalidate, Room, Untouched
<1>3. CASE Tick \/ UNCHANGED vars
  BY <1>3 DEF Tick, OrderGood, Room, Untouched, Counting, vars, cache, history
<1> QED
  BY <1>1, <1>2, <1>3 DEF Next

LEMMA NextIInv == IInv /\ [Next]_vars => IInv'
BY TypesStep, OrderStep DEF IInv

THEOREM Invariance == Spec => []IInv
BY InitIInv, NextIInv, PTL DEF Spec

(* The list never holds a key twice and the lock has one holder              *)
(* (lru_cache.py:32, 45), for any number of threads.                         *)
THEOREM TypeCorrect == Spec => []TypeOK
<1>1. ASSUME IInv PROVE TypeOK
  <2>1. order \in Seq(Keys) /\ IsInjective(order)
    <3>1. DOMAIN order = 1 .. Len(order)
      BY <1>1 DEF IInv, OrderGood, Good
    <3> QED
      BY <1>1, <3>1 DEF IInv, OrderGood, Good, Distinct, IsInjective
  <2> QED
    BY <1>1, <2>1 DEF IInv, Types, OneHolder, Labels, TypeOK
<1> QED
  BY <1>1, Invariance, PTL

(* Whatever is invalidated between its steps, the cache holds no more than   *)
(* maxsize results (lru_cache.py:48-53).                                     *)
THEOREM SizeBoundedAlways == Spec => []SizeBounded
<1>1. IInv => SizeBounded
  BY DEF IInv, Room, SizeBounded
<1> QED
  BY <1>1, Invariance, PTL

(* The result that goes first is the one used the longest ago                *)
(* (lru_cache.py:37-38, 46-49).                                              *)
THEOREM LeastRecentlyUsedFirstAlways == Spec => []LeastRecentlyUsedFirst
<1>1. IInv => LeastRecentlyUsedFirst
  BY DEF IInv, OrderGood, Good, Ranked, LeastRecentlyUsedFirst
<1> QED
  BY <1>1, Invariance, PTL

(* When no thread has the lock the flag is set over a full cache, also       *)
(* behind an invalidate; without one it is exact and no call raises          *)
(* (lru_cache.py:42, 48-53).                                                 *)
THEOREM FlagExactAlways == Spec => []FlagExact
<1>1. ASSUME IInv PROVE FlagExact
  <2>1. LockFree => ~Counting
    BY DEF LockFree, Counting, Locked
  <2>2. isFull \in BOOLEAN /\ Full \in BOOLEAN
    BY <1>1 DEF IInv, Types, Full
  <2>3. LockFree /\ ~isFull => ~Full
    <3>1. LockFree => \A t \in Threads : pc[t] # "count"
      BY DEF LockFree, Locked
    <3>2. Len(order) \in Nat /\ MaxSize \in Nat
      BY <1>1, LenNat, LruCacheAssumption DEF IInv
    <3>3. LockFree /\ ~isFull => Len(order) < MaxSize
      BY <1>1, <3>1 DEF IInv, Room
    <3> QED
      BY <3>2, <3>3 DEF Full
  <2>4. ~cleared => /\ LockFree /\ isFull => Full
                    /\ \A t \in Threads : pc[t] # "raised"
    BY <1>1, <2>1, <2>2 DEF IInv, Untouched, Full
  <2> QED
    BY <2>2, <2>3, <2>4, Zenon DEF FlagExact
<1> QED
  BY <1>1, Invariance, PTL
-------------------------------------------------------------------------------
(* FunctionCache. *)

(* Between the import and the end an invocation has '.functions' open, and *)
(* 'Ginpachi-Sensei' only when its view has got it.                        *)
OpenGood ==
  \A p \in Invocations :
    /\ stage[p] = "out" => open[p] = {}
    /\ stage[p] = "view" => "gin" \notin open[p]

(* Without a mishap one invocation runs at a time, and what it has in      *)
(* memory is what is on disk, or will be when it is through.               *)
Alone == \A p, q \in Invocations : stage[p] # "out" /\ stage[q] # "out" => p = q

InStep == \A p \in Invocations : stage[p] # "out" => fn[p] = entry

Pending == \E p \in Invocations : "gin" \in open[p]

Agrees ==
  Fresh(entry) => /\ Pending \/ packs = entry
                  /\ \A p \in Invocations : "gin" \in open[p] => gin[p] = entry

Serial == Alone /\ InStep /\ Agrees

FCInv == FCTypeOK /\ OpenGood /\ (~mishap => Serial)
-------------------------------------------------------------------------------
LEMMA InitFCInv == FCInit => FCInv
<1> SUFFICES ASSUME FCInit PROVE FCInv
  OBVIOUS
<1>1. Missing \in Ages /\ ~Fresh(Missing)
  BY FunctionCacheAssumption DEF Ages, Missing, Fresh
<1>2. FCTypeOK
  BY <1>1 DEF FCInit, FCTypeOK, Views, Names
<1>3. OpenGood /\ Serial
  BY <1>1 DEF FCInit, OpenGood, Serial, Alone, InStep, Agrees
<1> QED
  BY <1>2, <1>3 DEF FCInv

LEMMA OlderType ==
  ASSUME NEW age \in Ages
  PROVE  Older(age) \in Ages
BY FunctionCacheAssumption DEF Older, Ages, Old, Missing

(* A day changes whether two ages are the same, or one of them is fresh, in *)
(* one direction only.                                                      *)
LEMMA OlderFresh ==
  ASSUME NEW age \in Ages, Fresh(Older(age))
  PROVE  Fresh(age)
BY FunctionCacheAssumption DEF Older, Ages, Old, Missing, Fresh

LEMMA FCTypeStep ==
  ASSUME FCTypeOK, [FCNext]_fcvars
  PROVE  FCTypeOK'
<1> USE DEF FCTypeOK, Names
<1>0. {0, Missing} \subseteq Ages
  BY FunctionCacheAssumption DEF Ages, Missing
<1>1. ASSUME NEW p \in Invocations, Step(p)
      PROVE  FCTypeOK'
  <2>1. CASE HitEntry(p) \/ Other(p) \/ AsksForSearch(p) \/ SearchesElsewhere(p)
    BY <2>1 DEF HitEntry, Other, AsksForSearch, SearchesElsewhere
  <2>2. CASE Miss(p)
    BY <2>2, <1>0 DEF Miss
  <2>3. CASE MissFails(p) \/ NeverSearched(p) \/ ListsNothing(p) \/ End(p)
    <3>1. Leave(p) /\ UNCHANGED <<entry, packs, searched, trouble>> /\ mishap' \in BOOLEAN
      BY <2>3 DEF MissFails, NeverSearched, ListsNothing, End
    <3> QED
      BY <3>1, <1>0 DEF Leave, Views
  <2>4. CASE Lists(p)
    BY <2>4 DEF Lists
  <2>5. CASE \E s \in Names : Close(p, s)
    BY <2>5 DEF Close
  <2> QED
    BY <1>1, <2>1, <2>2, <2>3, <2>4, <2>5 DEF Step
<1>2. ASSUME NEW p \in Invocations, CutShort(p)
      PROVE  FCTypeOK'
  BY <1>2, <1>0 DEF CutShort, Leave, Views
<1>3. ASSUME NEW p \in Invocations, NEW v \in Views, Import(p, v)
      PROVE  FCTypeOK'
  <2>1. mishap' \in BOOLEAN
    BY <1>3, Zenon DEF Import
  <2> QED
    BY <1>3, <2>1 DEF Import
<1>4. CASE Day
  BY <1>4, OlderType DEF Day
<1>5. CASE TroubleEnds
  BY <1>5 DEF TroubleEnds, memory
<1>6. CASE UNCHANGED fcvars
  BY <1>6 DEF fcvars, memory
<1> QED
  BY <1>1, <1>2, <1>3, <1>4, <1>5, <1>6 DEF FCNext

LEMMA OpenStep ==
  ASSUME FCTypeOK, OpenGood, [FCNext]_fcvars
  PROVE  OpenGood'
<1> USE DEF FCTypeOK, OpenGood
<1>1. ASSUME NEW p \in Invocations, Step(p)
      PROVE  OpenGood'
  <2>1. CASE HitEntry(p) \/ Other(p) \/ AsksForSearch(p) \/ SearchesElsewhere(p)
    BY <2>1 DEF HitEntry, Other, AsksForSearch, SearchesElsewhere
  <2>2. CASE Miss(p)
    BY <2>2 DEF Miss
  <2>3. CASE MissFails(p) \/ NeverSearched(p) \/ ListsNothing(p) \/ End(p)
    BY <2>3 DEF MissFails, NeverSearched, ListsNothing, End, Leave
  <2>4. CASE Lists(p)
    BY <2>4 DEF Lists
  <2>5. CASE \E s \in Names : Close(p, s)
    BY <2>5 DEF Close
  <2> QED
    BY <1>1, <2>1, <2>2, <2>3, <2>4, <2>5 DEF Step
<1>2. ASSUME NEW p \in Invocations, CutShort(p)
      PROVE  OpenGood'
  BY <1>2 DEF CutShort, Leave
<1>3. ASSUME NEW p \in Invocations, NEW v \in Views, Import(p, v)
      PROVE  OpenGood'
  BY <1>3 DEF Import
<1>4. CASE Day \/ TroubleEnds \/ UNCHANGED fcvars
  BY <1>4 DEF Day, TroubleEnds, memory, fcvars
<1> QED
  BY <1>1, <1>2, <1>3, <1>4 DEF FCNext

(* One invocation alone: each of its steps leaves memory and disk in step. *)
LEMMA SerialStep ==
  ASSUME FCTypeOK, OpenGood, ~mishap => Serial, [FCNext]_fcvars
  PROVE  ~mishap' => Serial'
<1> SUFFICES ASSUME ~mishap' PROVE Serial'
  OBVIOUS
<1>0. ~mishap /\ Serial
  <2>1. mishap => mishap'
    BY DEF FCNext, Step, HitEntry, Miss, MissFails, AsksForSearch, NeverSearched, Lists,
           ListsNothing, SearchesElsewhere, Other, Close, End, CutShort, Import, Day, TroubleEnds, fcvars
  <2> QED
    BY <2>1
<1> USE <1>0 DEF FCTypeOK, OpenGood, Serial, Alone, InStep
<1>1. ASSUME NEW p \in Invocations, Step(p)
      PROVE  Serial'
  <2>0. stage[p] # "out" /\ \A q \in Invocations \ {p} : stage[q] = "out" /\ open[q] = {}
    BY <1>1 DEF Step, GetGin, HitEntry, Miss, MissFails, AsksForSearch, NeverSearched, Lists,
           ListsNothing, SearchesElsewhere, Other, Close, End
  <2>1. CASE HitEntry(p) \/ Other(p)
    BY <2>1 DEF HitEntry, Other, GetGin, Agrees, Pending
  <2>8. CASE AsksForSearch(p) \/ SearchesElsewhere(p)
    <3>1. \A q \in Invocations : "gin" \in open'[q] <=> "gin" \in open[q]
      BY <2>8 DEF AsksForSearch, SearchesElsewhere
    <3>2. UNCHANGED <<entry, packs, gin, fn>>
      BY <2>8 DEF AsksForSearch, SearchesElsewhere
    <3>3. \A q \in Invocations : stage'[q] # "out" <=> stage[q] # "out"
      BY <2>8 DEF AsksForSearch, SearchesElsewhere
    <3> QED
      BY <3>1, <3>2, <3>3 DEF Agrees, Pending
  <2>9. CASE NeverSearched(p)
    BY <2>9 DEF NeverSearched
  <2>2. CASE Miss(p)
    BY <2>2, <2>0 DEF Miss, GetGin, Agrees, Pending
  <2>3. CASE MissFails(p) \/ ListsNothing(p) \/ End(p)
    <3>1. "gin" \notin open[p]
      BY <2>3 DEF MissFails, ListsNothing, End, GetGin
    <3>2. ~Pending
      BY <2>0, <3>1 DEF Pending
    <3> QED
      BY <2>3, <2>0, <3>1, <3>2 DEF MissFails, ListsNothing, End, Leave, Agrees, Pending
  <2>4. CASE Lists(p)
    <3>1. ~Pending
      BY <2>4, <2>0 DEF Lists, Pending
    <3> QED
      BY <2>4, <2>0, <3>1 DEF Lists, Agrees, Pending
  <2>5. CASE Close(p, "functions")
    BY <2>5, <2>0 DEF Close, Agrees, Pending
  <2>6. CASE Close(p, "gin")
    BY <2>6, <2>0 DEF Close, Agrees, Pending
  <2>7. CASE Close(p, "last")
    BY <2>7, <2>0 DEF Close, Agrees, Pending
  <2> QED
    BY <1>1, <2>1, <2>2, <2>3, <2>4, <2>5, <2>6, <2>7, <2>8, <2>9 DEF Step, Names
<1>2. ASSUME NEW p \in Invocations, CutShort(p)
      PROVE  Serial'
  BY <1>2 DEF CutShort
<1>3. ASSUME NEW p \in Invocations, NEW v \in Views, Import(p, v)
      PROVE  Serial'
  <2>1. \A q \in Invocations : stage[q] = "out" /\ open[q] = {}
    BY <1>3 DEF Import
  <2> QED
    BY <1>3, <2>1 DEF Import, Agrees, Pending
<1>4. CASE Day
  <2>1. Alone' /\ InStep'
    BY <1>4 DEF Day
  <2>2. ASSUME Fresh(entry')
        PROVE  /\ Pending' \/ packs' = entry'
               /\ \A p \in Invocations : "gin" \in open'[p] => gin'[p] = entry'
    <3>1. Fresh(entry)
      BY <2>2, <1>4, OlderFresh DEF Day
    <3> QED
      BY <3>1, <1>4 DEF Day, Agrees, Pending
  <2> QED
    BY <2>1, <2>2 DEF Agrees
<1>5. CASE TroubleEnds \/ UNCHANGED fcvars
  BY <1>5 DEF TroubleEnds, memory, fcvars, Agrees, Pending
<1> QED
  BY <1>1, <1>2, <1>3, <1>4, <1>5 DEF FCNext

LEMMA NextFCInv == FCInv /\ [FCNext]_fcvars => FCInv'
BY FCTypeStep, OpenStep, SerialStep DEF FCInv

THEOREM FCInvariance == FCSpec => []FCInv
BY InitFCInv, NextFCInv, PTL DEF FCSpec

(* Ages stay within their bounds, and only a storage that is in use is open *)
(* (xbmcmixin.py:140-166).                                                  *)
THEOREM FCTypeCorrect == FCSpec => []FCTypeOK
<1>1. FCInv => FCTypeOK
  BY DEF FCInv
<1> QED
  BY <1>1, FCInvariance, PTL

(* Between invocations that ran one after the other to their ends, an entry *)
(* that spares the fetch stands for the packlist of its own fetch           *)
(* (xbmcmixin.py:85-87, plugin.py:311-315).                                 *)
THEOREM EntryHasPacklistAlways == FCSpec => []EntryHasPacklist
<1>1. FCInv => EntryHasPacklist
  BY DEF FCInv, OpenGood, Serial, Agrees, Pending, EntryHasPacklist, Idle
<1> QED
  BY <1>1, FCInvariance, PTL
===============================================================================
