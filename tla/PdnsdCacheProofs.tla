-------------------------- MODULE PdnsdCacheProofs --------------------------
(***************************************************************************)
(* Proofs about pdnsd's cache.  About its lock, PdnsdCacheLock: writers    *)
(* are alone, the counts of pending threads are exact, suspended readers   *)
(* are woken and no wakeup is lost, for any set of threads and any number  *)
(* of tries.  About what it holds, PdnsdCache: the books are right,        *)
(* records that exclude one another stay apart, local records stay and     *)
(* empty_cache empties, for any names, types, answers and sizes.           *)
(*                                                                         *)
(* The operations of PdnsdCache are folds over types, sets and the list.   *)
(* What a fold does is proved by induction over its steps, written as      *)
(* lemma Induction: a set of numbers with 0 and the successor of each of   *)
(* its elements has them all.                                              *)
(***************************************************************************)
EXTENDS PdnsdCacheLock, PdnsdCache, FiniteSetTheorems, WellFoundedInduction, TLAPS

\* The threads at certain places.
At(S) == {t \in All : pc[t] \in S}

RPending  == {"r_wait", "r_woken"}
RWPending == {"rw_wait", "rw_woken", "timed_wait", "timed_woken"}
Untimed   == At({"rw_wait", "rw_woken"})
RWWoken   == At({"rw_woken", "timed_woken"})
RWoken    == At({"r_woken"})

States == {"idle", "reading", "writing", "yielded"} \cup Asleep \cup Woken
Places == {"sigwait", "purge_lock", "purging", "write_lock", "writing",
           "destroy_lock", "destroyed", "exit"}

\* What the two counters say of threads inside, soft locks that are never given back
\* included.
LockInv ==
  /\ \A t, u \in Writers : t = u
  /\ Writers # {} => cache_w_lock = 1 /\ ~ MainWrites
  /\ MainWrites => cache_w_lock = 1
  /\ cache_w_lock = 1 => cache_r_lock = 0
  /\ cache_r_lock >= Cardinality(Readers) + (IF MainReads THEN 1 ELSE 0)

\* Only the control thread waits with a timeout, so readers are suspended for somebody
\* who stays until it is his turn, and whose unlock ends the suspension.
SuspInv ==
  /\ \A t \in All : pc[t] \in {"timed_wait", "timed_woken", "yielded"} => t = Control
  /\ r_susp = 1 => Writers # {} \/ Untimed # {}

\* Before the exit: readers that sleep over a lock without a writer have a pending writer
\* to wake them; writers that sleep over a free lock have a woken one, or a reader that
\* will not be suspended and whose unlock signals.
WakeInv ==
  main.pc = "sigwait" =>
    /\ cache_w_lock = 1 => Writers # {}
    /\ cache_w_lock = 0 /\ OnR # {} => Untimed # {}
    /\ cache_w_lock = 0 /\ cache_r_lock = 0 /\ OnRW # {} =>
         \/ RWWoken # {}
         \/ r_susp = 0 /\ rw_pend <= SUSP_THRESH(r_pend) /\ RWoken # {}

IInv == TypeOK /\ PendingCounted /\ LockInv /\ SuspInv /\ WakeInv

-----------------------------------------------------------------------------
(* Counting.                                                               *)

LEMMA AllFinite == IsFiniteSet(All)
<1>1. IsFiniteSet(Threads) /\ IsFiniteSet({Control})
  BY LockAssumption, FS_Singleton
<1> QED  BY <1>1, FS_Union DEF All

LEMMA AtFinite ==
  ASSUME NEW CONSTANT S
  PROVE  /\ IsFiniteSet(At(S)) /\ Cardinality(At(S)) \in Nat
         /\ Cardinality(At(S)) = 0 <=> At(S) = {}
<1>1. At(S) \in SUBSET All
  BY DEF At
<1>2. IsFiniteSet(At(S))
  BY <1>1, AllFinite, FS_Subset
<1> QED  BY <1>2, FS_CardinalityType, FS_EmptySet

\* One thread moves, the others stay on their side of S.
LEMMA Moved ==
  ASSUME NEW CONSTANT S, NEW t \in All,
         \A u \in All \ {t} : pc'[u] \in S <=> pc[u] \in S
  PROVE  Cardinality(At(S)') =
           Cardinality(At(S)) + (IF pc'[t] \in S THEN 1 ELSE 0)
                              - (IF pc[t] \in S THEN 1 ELSE 0)
<1>0. IsFiniteSet(At(S)) /\ Cardinality(At(S)) \in Nat
  BY AtFinite
<1>1. CASE pc'[t] \in S
  <2>1. At(S)' = At(S) \cup {t}
    BY <1>1 DEF At
  <2>2. t \in At(S) <=> pc[t] \in S
    BY DEF At
  <2>3. Cardinality(At(S) \cup {t}) =
          IF t \in At(S) THEN Cardinality(At(S)) ELSE Cardinality(At(S)) + 1
    BY <1>0, FS_AddElement
  <2> QED  BY <1>0, <1>1, <2>1, <2>2, <2>3
<1>2. CASE pc'[t] \notin S
  <2>1. At(S)' = At(S) \ {t}
    BY <1>2 DEF At
  <2>2. t \in At(S) <=> pc[t] \in S
    BY DEF At
  <2>3. Cardinality(At(S) \ {t}) =
          IF t \in At(S) THEN Cardinality(At(S)) - 1 ELSE Cardinality(At(S))
    BY <1>0, FS_RemoveElement
  <2> QED  BY <1>0, <1>2, <2>1, <2>2, <2>3
<1> QED  BY <1>1, <1>2

\* The sets that are counted.
LEMMA Sets ==
  /\ {t \in All : pc[t] \in {"r_wait", "r_woken"}} = At(RPending)
  /\ {t \in All : pc[t] \in {"rw_wait", "rw_woken", "timed_wait", "timed_woken"}} = At(RWPending)
  /\ Readers = At({"reading"}) /\ Writers = At({"writing"})
  /\ OnR = At({"r_wait"}) /\ OnRW = At({"rw_wait", "timed_wait"})
BY DEF At, RPending, RWPending, Readers, Writers, OnR, OnRW

\* A wakeup does not take a thread out of a count.
LEMMA WokenStays ==
  ASSUME NEW x \in States
  PROVE  /\ WakeUp(x) \in States
         /\ WakeUp(x) \in RPending <=> x \in RPending
         /\ WakeUp(x) \in RWPending <=> x \in RWPending
         /\ WakeUp(x) \in {"rw_wait", "rw_woken"} <=> x \in {"rw_wait", "rw_woken"}
         /\ WakeUp(x) \in {"timed_wait", "timed_woken", "yielded"}
              <=> x \in {"timed_wait", "timed_woken", "yielded"}
         /\ WakeUp(x) \in {"reading"} <=> x \in {"reading"}
         /\ WakeUp(x) \in {"writing"} <=> x \in {"writing"}
         /\ WakeUp(x) \notin {"rw_wait", "timed_wait"}
         /\ WakeUp(x) # "r_wait"
         /\ x = "r_wait" => WakeUp(x) = "r_woken"
         /\ x = "r_woken" => WakeUp(x) = "r_woken"
         /\ x \in {"rw_wait", "timed_wait"} => WakeUp(x) \in {"rw_woken", "timed_woken"}
         /\ x \in {"rw_woken", "timed_woken"} => WakeUp(x) \in {"rw_woken", "timed_woken"}
BY DEF WakeUp, States, Asleep, Woken, RPending, RWPending

\* A thread moves and others are woken: what becomes of the counts.
LEMMA Counted ==
  ASSUME IInv, NEW t \in All, pc' \in [All -> States],
         \A u \in All \ {t} : pc'[u] \in {pc[u], WakeUp(pc[u])}
  PROVE  /\ Cardinality(At(RPending)') = r_pend + (IF pc'[t] \in RPending THEN 1 ELSE 0)
                                                - (IF pc[t] \in RPending THEN 1 ELSE 0)
         /\ Cardinality(At(RWPending)') = rw_pend + (IF pc'[t] \in RWPending THEN 1 ELSE 0)
                                                  - (IF pc[t] \in RWPending THEN 1 ELSE 0)
         /\ Cardinality(At({"reading"})') =
              Cardinality(Readers) + (IF pc'[t] = "reading" THEN 1 ELSE 0)
                                   - (IF pc[t] = "reading" THEN 1 ELSE 0)
         /\ \A u \in All \ {t} :
              /\ pc'[u] \in {"rw_wait", "rw_woken"} <=> pc[u] \in {"rw_wait", "rw_woken"}
              /\ pc'[u] \in {"timed_wait", "timed_woken", "yielded"}
                   <=> pc[u] \in {"timed_wait", "timed_woken", "yielded"}
              /\ pc'[u] = "writing" <=> pc[u] = "writing"
<1>1. pc \in [All -> States]
  BY DEF IInv, TypeOK, States
<1>2. \A u \in All \ {t} : pc[u] \in States
  BY <1>1
<1>3. \A u \in All \ {t} :
        /\ pc'[u] \in RPending <=> pc[u] \in RPending
        /\ pc'[u] \in RWPending <=> pc[u] \in RWPending
        /\ pc'[u] \in {"reading"} <=> pc[u] \in {"reading"}
        /\ pc'[u] \in {"rw_wait", "rw_woken"} <=> pc[u] \in {"rw_wait", "rw_woken"}
        /\ pc'[u] \in {"timed_wait", "timed_woken", "yielded"}
             <=> pc[u] \in {"timed_wait", "timed_woken", "yielded"}
        /\ pc'[u] \in {"writing"} <=> pc[u] \in {"writing"}
  <2> TAKE u \in All \ {t}
  <2>1. CASE pc'[u] = pc[u]
    BY <2>1
  <2>2. CASE pc'[u] = WakeUp(pc[u])
    BY <2>2, <1>2, WokenStays
  <2> QED  BY <2>1, <2>2
<1>4. Cardinality(At(RPending)) = r_pend /\ Cardinality(At(RWPending)) = rw_pend
  BY Sets DEF IInv, PendingCounted
<1>5. Cardinality(At({"reading"})) = Cardinality(Readers)
  BY Sets
<1>6. Cardinality(At(RPending)') = Cardinality(At(RPending))
        + (IF pc'[t] \in RPending THEN 1 ELSE 0) - (IF pc[t] \in RPending THEN 1 ELSE 0)
  BY <1>3, Moved
<1>7. Cardinality(At(RWPending)') = Cardinality(At(RWPending))
        + (IF pc'[t] \in RWPending THEN 1 ELSE 0) - (IF pc[t] \in RWPending THEN 1 ELSE 0)
  BY <1>3, Moved
<1>8. Cardinality(At({"reading"})') = Cardinality(At({"reading"}))
        + (IF pc'[t] \in {"reading"} THEN 1 ELSE 0) - (IF pc[t] \in {"reading"} THEN 1 ELSE 0)
  BY <1>3, Moved
<1> QED  BY <1>3, <1>4, <1>5, <1>6, <1>7, <1>8

\* The same facts, as the sets of the next state.
LEMMA SetsPrimed ==
  /\ PendingCounted' <=> /\ r_pend' = Cardinality(At(RPending)')
                         /\ rw_pend' = Cardinality(At(RWPending)')
  /\ Cardinality(Readers)' = Cardinality(At({"reading"})')
<1>1. /\ {t \in All : pc[t] \in {"r_wait", "r_woken"}}' = At(RPending)'
      /\ {t \in All : pc[t] \in {"rw_wait", "rw_woken", "timed_wait", "timed_woken"}}'
           = At(RWPending)'
      /\ Readers' = At({"reading"})'
  BY DEF At, RPending, RWPending, Readers
<1> QED  BY <1>1 DEF PendingCounted

\* Some thread that is not the control thread stays when many writers wait.
LEMMA UntimedThere ==
  ASSUME IInv, rw_pend > 1
  PROVE  Untimed # {}
<1>1. SUFFICES ASSUME Untimed = {}  PROVE FALSE
  OBVIOUS
<1>2. At(RWPending) \in SUBSET {Control}
  BY <1>1 DEF IInv, SuspInv, At, RWPending, Untimed
<1>3. IsFiniteSet({Control}) /\ Cardinality({Control}) = 1
  BY FS_Singleton
<1>4. Cardinality(At(RWPending)) <= 1
  BY <1>2, <1>3, FS_Subset
<1>5. Cardinality(At(RWPending)) = rw_pend
  BY Sets DEF IInv, PendingCounted
<1>6. rw_pend \in Nat
  BY DEF IInv, TypeOK
<1> QED  BY <1>4, <1>5, <1>6

LEMMA Threshold ==
  ASSUME NEW n \in Nat
  PROVE  SUSP_THRESH(n) \in Nat /\ SUSP_THRESH(n) >= 2 /\ SUSP_THRESH(n) <= SUSP_THRESH(n + 1)
BY DEF SUSP_THRESH

-----------------------------------------------------------------------------
(* One lemma per kind of step.                                             *)

\* lock_cache_r and its later tests.
LEMMA ReadStep ==
  ASSUME IInv, NEW t \in All, lock_cache_r(t) \/ ReadAgain(t)
  PROVE  IInv'
<1> DEFINE pending == IF pc[t] = "idle" THEN r_pend + 1 ELSE r_pend
           susp == IF rw_pend > SUSP_THRESH(pending) THEN 1 ELSE r_susp
           stay == susp = 1 \/ cache_w_lock = 1
<1>1. /\ pc[t] \in {"idle", "r_woken"} /\ UNCHANGED <<rw_pend, main, cache_w_lock>>
      /\ r_susp' = susp
      /\ stay => /\ r_pend' = pending /\ cache_r_lock' = cache_r_lock
                 /\ pc' = [pc EXCEPT ![t] = "r_wait"]
      /\ ~ stay => /\ r_pend' = pending - 1 /\ cache_r_lock' = cache_r_lock + 1
                   /\ pc' = [pc EXCEPT ![t] = "reading"]
  BY DEF lock_cache_r, ReadAgain, TestRead, locks
<1>2. TypeOK /\ pc \in [All -> States]
  BY DEF IInv, TypeOK, States
<1>3. pc' \in [All -> States] /\ \A u \in All \ {t} : pc'[u] = pc[u]
  BY <1>1, <1>2 DEF States, Asleep
<1>4. pc'[t] = IF stay THEN "r_wait" ELSE "reading"
  BY <1>1, <1>2
<1> HIDE DEF stay
<1>5. r_pend = Cardinality(At(RPending)) /\ (pc[t] = "r_woken" => r_pend >= 1)
  <2>1. r_pend = Cardinality(At(RPending))
    BY Sets DEF IInv, PendingCounted
  <2>2. pc[t] = "r_woken" => At(RPending) # {}
    BY DEF At, RPending
  <2> QED  BY <2>1, <2>2, <1>2, AtFinite DEF TypeOK
<1>6. pending \in Nat /\ r_susp' \in {0, 1} /\ pending >= 1
  BY <1>1, <1>2, <1>5 DEF TypeOK
<1>7. TypeOK'
  BY <1>1, <1>2, <1>3, <1>6 DEF TypeOK, States
<1>8. PendingCounted'
  BY <1>1, <1>2, <1>3, <1>4, Counted, SetsPrimed DEF RPending, RWPending, TypeOK
<1>9. Writers' = Writers /\ Untimed' = Untimed
  BY <1>1, <1>3, <1>4 DEF Writers, Untimed, At
<1>10. LockInv'
  <2>1. Cardinality(Readers) \in Nat
    BY AtFinite, Sets
  <2>2. Cardinality(Readers)' = Cardinality(Readers) + (IF stay THEN 0 ELSE 1)
    BY <1>1, <1>3, <1>4, <2>1, Counted, SetsPrimed
  <2>3. ~ stay => cache_w_lock = 0
    BY <1>2 DEF stay, TypeOK
  <2> QED
    BY <1>1, <1>2, <1>9, <2>1, <2>2, <2>3 DEF IInv, LockInv, MainReads, MainWrites, TypeOK
<1>11. r_susp' = 1 => Writers # {} \/ Untimed # {}
  <2>1. CASE rw_pend > SUSP_THRESH(pending)
    BY <2>1, <1>2, <1>6, Threshold, UntimedThere DEF TypeOK
  <2>2. CASE ~ (rw_pend > SUSP_THRESH(pending))
    BY <2>2, <1>1 DEF IInv, SuspInv
  <2> QED  BY <2>1, <2>2
<1>12. SuspInv'
  BY <1>1, <1>3, <1>4, <1>9, <1>11 DEF IInv, SuspInv
<1>13. WakeInv'
  <2>1. ASSUME main.pc = "sigwait", cache_w_lock = 0, OnR' # {}
        PROVE  Untimed # {}
    <3>1. Writers = {}
      BY <2>1 DEF IInv, LockInv
    <3>2. CASE stay
      BY <1>1, <1>11, <2>1, <3>1, <3>2 DEF stay
    <3>3. CASE ~ stay
      BY <1>3, <1>4, <2>1, <3>3 DEF IInv, WakeInv, OnR
    <3> QED  BY <3>2, <3>3
  <2>2. ASSUME main.pc = "sigwait", cache_w_lock = 0, cache_r_lock' = 0, OnRW' # {}
        PROVE  RWWoken' # {}
    <3>1. stay /\ cache_r_lock = 0
      BY <1>1, <1>2, <2>2 DEF TypeOK
    <3>2. OnRW # {} /\ RWWoken' = RWWoken
      BY <1>1, <1>3, <1>4, <2>2 DEF OnRW, RWWoken, At
    <3>3. r_susp # 0 \/ rw_pend > SUSP_THRESH(r_pend)
      BY <1>1, <1>2, <1>6, <2>2, <3>1, Threshold DEF TypeOK, stay
    <3>4. rw_pend \in Nat /\ SUSP_THRESH(r_pend) \in Nat
      BY <1>2, Threshold DEF TypeOK
    <3> QED  BY <2>2, <3>1, <3>2, <3>3, <3>4 DEF IInv, WakeInv
  <2> QED  BY <1>1, <1>9, <2>1, <2>2 DEF IInv, WakeInv
<1> QED  BY <1>7, <1>8, <1>10, <1>12, <1>13 DEF IInv

\* Somebody asleep on rw_cond is signalled, if anybody is.
LEMMA Signalled ==
  ASSUME TypeOK, NEW p \in [All -> States], SignalRW(p),
         \A u \in All : p[u] # pc[u] => u \notin OnRW /\ p[u] \notin {"rw_wait", "timed_wait"}
  PROVE  /\ pc' \in [All -> States]
         /\ \A u \in All : pc'[u] \in {p[u], WakeUp(p[u])}
         /\ \A u \in All : u \notin OnRW => pc'[u] = p[u]
         /\ OnRW' # {} => RWWoken' # {}
<1>1. CASE OnRW = {}
  <2>1. pc' = p
    BY <1>1 DEF SignalRW
  <2>2. OnRW' = {}
    BY <1>1, <2>1 DEF OnRW
  <2> QED  BY <2>1, <2>2
<1>2. CASE OnRW # {}
  <2>1. PICK w \in OnRW : pc' = [p EXCEPT ![w] = WakeUp(@)]
    BY <1>2 DEF SignalRW
  <2>2. w \in All /\ p[w] = pc[w] /\ pc[w] \in {"rw_wait", "timed_wait"}
    BY <2>1 DEF OnRW
  <2>3. WakeUp(p[w]) \in States /\ WakeUp(p[w]) \in {"rw_woken", "timed_woken"}
    BY <2>2, WokenStays
  <2>4. pc'[w] = WakeUp(p[w]) /\ \A u \in All \ {w} : pc'[u] = p[u]
    BY <2>1, <2>2
  <2>5. w \in RWWoken'
    BY <2>2, <2>3, <2>4 DEF RWWoken, At
  <2>6. pc' \in [All -> States]
    BY <2>1, <2>3
  <2> QED  BY <2>1, <2>4, <2>5, <2>6
<1> QED  BY <1>1, <1>2

\* unlock_cache_r: the last reader signals a writer.
LEMMA ReadEnds ==
  ASSUME IInv, NEW t \in All, unlock_cache_r(t)
  PROVE  IInv'
<1> DEFINE p == [pc EXCEPT ![t] = "idle"]
<1>1. /\ pc[t] = "reading" /\ cache_r_lock' = Decrement(cache_r_lock)
      /\ UNCHANGED <<cache_w_lock, pends, main>>
      /\ IF cache_r_lock = 1 THEN SignalRW(p) ELSE pc' = p
  BY DEF unlock_cache_r
<1>2. TypeOK /\ pc \in [All -> States]
  BY DEF IInv, TypeOK, States
<1>3. p \in [All -> States] /\ p[t] = "idle" /\ \A u \in All \ {t} : p[u] = pc[u]
  BY <1>2 DEF States
<1>4. /\ pc' \in [All -> States]
      /\ \A u \in All : pc'[u] \in {p[u], WakeUp(p[u])}
      /\ \A u \in All : u \notin OnRW => pc'[u] = p[u]
      /\ cache_r_lock = 1 /\ OnRW' # {} => RWWoken' # {}
  <2>1. CASE cache_r_lock = 1
    BY <1>1, <1>2, <1>3, <2>1, Signalled DEF OnRW
  <2>2. CASE cache_r_lock # 1
    BY <1>1, <1>3, <2>2
  <2> QED  BY <2>1, <2>2
<1>5. pc'[t] = "idle" /\ \A u \in All \ {t} : pc'[u] \in {pc[u], WakeUp(pc[u])}
  BY <1>1, <1>3, <1>4 DEF OnRW
<1>6. Cardinality(Readers) \in Nat /\ Cardinality(Readers) >= 1
  <2>1. Readers # {}
    BY <1>1 DEF Readers
  <2> QED  BY <2>1, AtFinite, Sets
<1>7. cache_r_lock \in Nat /\ cache_r_lock >= 1 /\ cache_r_lock' = cache_r_lock - 1
      /\ cache_w_lock = 0
  BY <1>1, <1>2, <1>6 DEF IInv, LockInv, TypeOK, Decrement
<1>8. TypeOK'
  BY <1>1, <1>2, <1>4, <1>7 DEF TypeOK, States, pends
<1>9. PendingCounted'
  BY <1>1, <1>2, <1>4, <1>5, Counted, SetsPrimed DEF RPending, RWPending, TypeOK, pends
<1>10. Writers' = Writers /\ Untimed' = Untimed
  <2>1. \A u \in All \ {t} :
          /\ pc'[u] \in {"rw_wait", "rw_woken"} <=> pc[u] \in {"rw_wait", "rw_woken"}
          /\ pc'[u] = "writing" <=> pc[u] = "writing"
    BY <1>4, <1>5, Counted
  <2> QED  BY <1>1, <1>5, <2>1 DEF Writers, Untimed, At
<1>11. LockInv'
  <2>1. Cardinality(Readers)' = Cardinality(Readers) - 1
    BY <1>1, <1>4, <1>5, <1>6, Counted, SetsPrimed
  <2> QED
    BY <1>1, <1>6, <1>7, <1>10, <2>1 DEF IInv, LockInv, MainReads, MainWrites
<1>12. SuspInv'
  <2>1. \A u \in All \ {t} :
          pc'[u] \in {"timed_wait", "timed_woken", "yielded"}
            <=> pc[u] \in {"timed_wait", "timed_woken", "yielded"}
    BY <1>4, <1>5, Counted
  <2> QED  BY <1>1, <1>5, <1>10, <2>1 DEF IInv, SuspInv, pends
<1>13. WakeInv'
  <2>1. OnR' = OnR
    BY <1>1, <1>3, <1>4, <1>5 DEF OnR, OnRW, WakeUp
  <2>2. cache_r_lock' = 0 => cache_r_lock = 1
    BY <1>7
  <2> QED  BY <1>1, <1>4, <1>7, <1>10, <2>1, <2>2 DEF IInv, WakeInv
<1> QED  BY <1>8, <1>9, <1>11, <1>12, <1>13 DEF IInv

\* The tests of lock_cache_rw and timedlock_cache_rw.
LEMMA WriteStep ==
  ASSUME IInv, NEW t \in All,
         \/ lock_cache_rw(t) \/ WriteAgain(t)
         \/ t = Control /\ (timedlock_cache_rw \/ LockBack)
  PROVE  IInv'
<1> DEFINE pending == IF pc[t] \in {"idle", "yielded"} THEN rw_pend + 1 ELSE rw_pend
           stay == cache_w_lock = 1 \/ cache_r_lock > 0
<1>1. PICK sleep \in {"rw_wait", "timed_wait"} :
        /\ pc[t] \in {"idle", "yielded", "rw_woken", "timed_woken"}
        /\ UNCHANGED <<r_pend, r_susp, main>>
        /\ TestWrite(t, pending, sleep)
        /\ sleep = "timed_wait" => t = Control
        /\ pc[t] = "rw_woken" => sleep = "rw_wait"
  <2>1. CASE lock_cache_rw(t)
    BY <2>1 DEF lock_cache_rw
  <2>2. CASE WriteAgain(t)
    BY <2>2 DEF WriteAgain, IInv, SuspInv
  <2>3. CASE t = Control /\ (timedlock_cache_rw \/ LockBack)
    BY <2>3 DEF timedlock_cache_rw, LockBack
  <2> QED  BY <2>1, <2>2, <2>3
<1>2. /\ stay => /\ rw_pend' = pending /\ UNCHANGED locks
                 /\ pc' = [pc EXCEPT ![t] = sleep]
      /\ ~ stay => /\ rw_pend' = pending - 1 /\ cache_w_lock' = 1
                   /\ cache_r_lock' = cache_r_lock
                   /\ pc' = [pc EXCEPT ![t] = "writing"]
  BY <1>1 DEF TestWrite
<1>3. TypeOK /\ pc \in [All -> States]
  BY DEF IInv, TypeOK, States
<1>4. pc' \in [All -> States] /\ \A u \in All \ {t} : pc'[u] = pc[u]
  BY <1>2, <1>3 DEF States, Asleep
<1>5. pc'[t] = IF stay THEN sleep ELSE "writing"
  BY <1>2, <1>3
<1>6. ~ stay => cache_w_lock = 0 /\ cache_r_lock = 0
  BY <1>3 DEF TypeOK
<1> HIDE DEF stay
<1>7. pc[t] \in {"rw_woken", "timed_woken"} => rw_pend >= 1
  <2>1. rw_pend = Cardinality(At(RWPending))
    BY Sets DEF IInv, PendingCounted
  <2>2. pc[t] \in {"rw_woken", "timed_woken"} => At(RWPending) # {}
    BY DEF At, RWPending
  <2> QED  BY <2>1, <2>2, <1>3, AtFinite DEF TypeOK
<1>8. pending \in Nat /\ pending >= 1
  BY <1>1, <1>3, <1>7 DEF TypeOK
<1>9. TypeOK'
  BY <1>1, <1>2, <1>3, <1>4, <1>6, <1>8 DEF TypeOK, States, locks
<1>10. PendingCounted'
  BY <1>1, <1>2, <1>3, <1>4, <1>5, Counted, SetsPrimed DEF RPending, RWPending, TypeOK
<1>11. /\ stay => Writers' = Writers
       /\ ~ stay => Writers' = Writers \cup {t} /\ Writers = {}
  BY <1>1, <1>4, <1>5, <1>6 DEF Writers, IInv, LockInv
<1>12. LockInv'
  <2>1. Cardinality(Readers)' = Cardinality(Readers) /\ Cardinality(Readers) \in Nat
    BY <1>1, <1>4, <1>5, Counted, SetsPrimed, AtFinite, Sets
  <2>2. CASE stay
    BY <1>1, <1>2, <1>11, <2>1, <2>2 DEF IInv, LockInv, MainReads, MainWrites, locks
  <2>3. CASE ~ stay
    BY <1>1, <1>2, <1>3, <1>6, <1>11, <2>1, <2>3
       DEF IInv, LockInv, MainReads, MainWrites, TypeOK
  <2> QED  BY <2>2, <2>3
<1>13. stay => Untimed \subseteq Untimed'
  BY <1>1, <1>4, <1>5 DEF Untimed, At
<1>14. SuspInv'
  BY <1>1, <1>4, <1>5, <1>11, <1>13 DEF IInv, SuspInv
<1>15. WakeInv'
  <2>1. CASE ~ stay
    BY <1>1, <1>2, <1>11, <2>1 DEF WakeInv
  <2>2. CASE stay
    <3>1. OnR' = OnR
      BY <1>1, <1>4, <1>5, <2>2 DEF OnR
    <3>2. cache_w_lock = 1 \/ cache_r_lock # 0
      BY <2>2, <1>3 DEF stay, TypeOK
    <3> QED  BY <1>1, <1>2, <1>11, <1>13, <2>2, <3>1, <3>2 DEF IInv, WakeInv, locks
  <2> QED  BY <2>1, <2>2
<1> QED  BY <1>9, <1>10, <1>12, <1>14, <1>15 DEF IInv

\* The timed lock gives up: another writer still waits if readers are suspended.
LEMMA GivesUp ==
  ASSUME IInv, TimedOut
  PROVE  IInv'
<1>1. /\ pc[Control] = "timed_wait" /\ rw_pend' = rw_pend - 1
      /\ pc' = [pc EXCEPT ![Control] = "idle"]
      /\ UNCHANGED <<locks, r_pend, r_susp, main>> /\ Control \in All
  BY DEF TimedOut, All
<1>2. TypeOK /\ pc \in [All -> States]
  BY DEF IInv, TypeOK, States
<1>3. /\ pc' \in [All -> States] /\ \A u \in All \ {Control} : pc'[u] = pc[u]
      /\ pc'[Control] = "idle"
  BY <1>1, <1>2 DEF States
<1>4. rw_pend >= 1
  <2>1. rw_pend = Cardinality(At(RWPending))
    BY Sets DEF IInv, PendingCounted
  <2>2. At(RWPending) # {}
    BY <1>1 DEF At, RWPending
  <2> QED  BY <2>1, <2>2, <1>2, AtFinite DEF TypeOK
<1>5. TypeOK'
  BY <1>1, <1>2, <1>3, <1>4 DEF TypeOK, States, locks
<1>6. PendingCounted'
  BY <1>1, <1>2, <1>3, Counted, SetsPrimed DEF RPending, RWPending, TypeOK
<1>7. /\ Writers' = Writers /\ Untimed' = Untimed /\ OnR' = OnR /\ OnRW' \subseteq OnRW
      /\ RWWoken' = RWWoken /\ RWoken' = RWoken
  BY <1>1, <1>3 DEF Writers, Untimed, OnR, OnRW, RWWoken, RWoken, At
<1>8. LockInv'
  <2>1. Cardinality(Readers)' = Cardinality(Readers) /\ Cardinality(Readers) \in Nat
    BY <1>1, <1>3, Counted, SetsPrimed, AtFinite, Sets
  <2> QED  BY <1>1, <1>7, <2>1 DEF IInv, LockInv, MainReads, MainWrites, locks
<1>9. SuspInv'
  BY <1>1, <1>3, <1>7 DEF IInv, SuspInv
<1>10. WakeInv'
  <2>1. rw_pend \in Nat /\ SUSP_THRESH(r_pend) \in Nat
    BY <1>2, Threshold DEF TypeOK
  <2> QED  BY <1>1, <1>7, <2>1 DEF IInv, WakeInv, locks
<1> QED  BY <1>5, <1>6, <1>8, <1>9, <1>10 DEF IInv

\* unlock_cache_rw and yield_lock_cache_rw: one pending writer or all readers are woken.
LEMMA WriteEnds ==
  ASSUME IInv, NEW t \in All,
         unlock_cache_rw(t) \/ (t = Control /\ yield_lock_cache_rw)
  PROVE  IInv'
<1>1. PICK v \in {"idle", "yielded"} :
        /\ pc[t] = "writing" /\ Release([pc EXCEPT ![t] = v])
        /\ UNCHANGED <<cache_r_lock, r_pend, rw_pend, main>>
        /\ v = "yielded" => t = Control
  BY DEF unlock_cache_rw, yield_lock_cache_rw
<1> DEFINE p == [pc EXCEPT ![t] = v]
           some == r_pend = 0 \/ rw_pend > SUSP_THRESH(r_pend)
<1>2. TypeOK /\ pc \in [All -> States]
  BY DEF IInv, TypeOK, States
<1>3. p \in [All -> States] /\ p[t] = v /\ \A u \in All \ {t} : p[u] = pc[u]
  BY <1>2 DEF States
<1>4. /\ cache_w_lock' = 0 /\ r_susp' = 0
      /\ some => SignalRW(p)
      /\ ~ some => pc' = [u \in All |-> IF u \in OnR THEN WakeUp(p[u]) ELSE p[u]]
  BY <1>1 DEF Release
<1>5. some => /\ pc' \in [All -> States]
              /\ \A u \in All : pc'[u] \in {p[u], WakeUp(p[u])}
              /\ \A u \in All : u \notin OnRW => pc'[u] = p[u]
              /\ OnRW' # {} => RWWoken' # {}
  BY <1>1, <1>2, <1>3, <1>4, Signalled DEF OnRW
<1>6. ~ some => /\ pc' \in [All -> States]
                /\ \A u \in All : pc'[u] \in {p[u], WakeUp(p[u])}
                /\ \A u \in All : u \notin OnR => pc'[u] = p[u]
                /\ \A u \in OnR : pc'[u] = WakeUp(p[u])
  <2>1. \A u \in All : WakeUp(p[u]) \in States
    BY <1>3, WokenStays
  <2> QED  BY <1>3, <1>4, <2>1 DEF OnR
<1> HIDE DEF some
<1>7. pc' \in [All -> States] /\ \A u \in All \ {t} : pc'[u] \in {pc[u], WakeUp(pc[u])}
  BY <1>3, <1>5, <1>6
<1>8. pc'[t] = v
  BY <1>1, <1>3, <1>5, <1>6 DEF OnR, OnRW
<1>9. TypeOK'
  BY <1>1, <1>2, <1>4, <1>7 DEF TypeOK, States
<1>10. PendingCounted'
  BY <1>1, <1>2, <1>7, <1>8, Counted, SetsPrimed DEF RPending, RWPending, TypeOK
<1>11. Writers' = {}
  BY <1>1, <1>7, <1>8, Counted DEF Writers, IInv, LockInv
<1>12. Untimed' = Untimed
  BY <1>1, <1>7, <1>8, Counted DEF Untimed, At
<1>13. LockInv'
  <2>1. Cardinality(Readers)' = Cardinality(Readers) /\ Cardinality(Readers) \in Nat
    BY <1>1, <1>7, <1>8, Counted, SetsPrimed, AtFinite, Sets
  <2>2. Writers # {}
    BY <1>1 DEF Writers
  <2> QED  BY <1>1, <1>4, <1>11, <2>1, <2>2 DEF IInv, LockInv, MainReads, MainWrites
<1>14. SuspInv'
  BY <1>1, <1>4, <1>7, <1>8, Counted DEF IInv, SuspInv
<1>15. WakeInv'
  <2>1. r_pend = Cardinality(At(RPending)) /\ r_pend \in Nat /\ rw_pend \in Nat
    BY <1>2, Sets DEF IInv, PendingCounted, TypeOK
  <2>2. CASE some
    <3>1. OnR' # {} => At(RPending) # {}
      BY <1>1, <1>2, <1>3, <1>5, <1>8, <2>2, WokenStays DEF OnR, OnRW, At, RPending
    <3>2. r_pend = 0 => OnR' = {}
      BY <2>1, <3>1, AtFinite
    <3>3. r_pend # 0 => Untimed # {}
      BY <2>1, <2>2, Threshold, UntimedThere DEF some
    <3> QED  BY <1>4, <1>5, <1>12, <2>2, <3>2, <3>3 DEF WakeInv
  <2>3. CASE ~ some
    <3>1. OnR' = {}
      BY <1>1, <1>2, <1>3, <1>6, <1>8, <2>3, WokenStays DEF OnR
    <3>2. r_pend # 0 /\ rw_pend <= SUSP_THRESH(r_pend)
      BY <2>1, <2>3, Threshold DEF some
    <3>3. PICK u \in All : pc[u] \in RPending
      BY <2>1, <3>2, AtFinite DEF At
    <3>4. u # t /\ pc'[u] = "r_woken"
      BY <1>1, <1>2, <1>3, <1>6, <2>3, <3>3, WokenStays DEF RPending, OnR
    <3>5. RWoken' # {}
      BY <3>4 DEF RWoken, At
    <3> QED  BY <1>1, <1>4, <3>1, <3>2, <3>5 DEF WakeInv, SUSP_THRESH
  <2> QED  BY <2>2, <2>3
<1> QED  BY <1>9, <1>10, <1>13, <1>14, <1>15 DEF IInv

\* A wait comes back by itself.
LEMMA SpuriousStep ==
  ASSUME IInv, NEW t \in All, Spurious(t)
  PROVE  IInv'
<1>1. /\ pc[t] \in Asleep /\ pc' = [pc EXCEPT ![t] = WakeUp(@)]
      /\ UNCHANGED <<locks, pends, main>>
  BY DEF Spurious
<1>2. TypeOK /\ pc \in [All -> States]
  BY DEF IInv, TypeOK, States
<1>3. pc[t] \in States /\ WakeUp(pc[t]) \in States
  BY <1>2, WokenStays
<1>4. /\ pc' \in [All -> States] /\ pc'[t] = WakeUp(pc[t])
      /\ \A u \in All \ {t} : pc'[u] = pc[u]
  BY <1>1, <1>2, <1>3
<1>5. TypeOK'
  BY <1>1, <1>2, <1>4 DEF TypeOK, States, locks, pends
<1>6. PendingCounted'
  <2>1. pc'[t] \in RPending <=> pc[t] \in RPending
    BY <1>3, <1>4, WokenStays
  <2>2. pc'[t] \in RWPending <=> pc[t] \in RWPending
    BY <1>3, <1>4, WokenStays
  <2>3. /\ Cardinality(At(RPending)') = r_pend /\ Cardinality(At(RWPending)') = rw_pend
    BY <1>2, <1>4, <2>1, <2>2, Counted DEF TypeOK
  <2> QED  BY <1>1, <2>3, SetsPrimed DEF pends
<1>7. Writers' = Writers /\ Untimed' = Untimed
  BY <1>3, <1>4, WokenStays DEF Writers, Untimed, At
<1>8. LockInv'
  <2>1. Cardinality(Readers)' = Cardinality(Readers) /\ Cardinality(Readers) \in Nat
    BY <1>3, <1>4, Counted, SetsPrimed, WokenStays, AtFinite, Sets
  <2> QED  BY <1>1, <1>7, <2>1 DEF IInv, LockInv, MainReads, MainWrites, locks
<1>9. SuspInv'
  BY <1>1, <1>3, <1>4, <1>7, WokenStays DEF IInv, SuspInv, pends
<1>10. WakeInv'
  <2>1. /\ OnR' \subseteq OnR /\ OnRW' \subseteq OnRW
        /\ RWWoken \subseteq RWWoken' /\ RWoken \subseteq RWoken'
    BY <1>3, <1>4, WokenStays DEF OnR, OnRW, RWWoken, RWoken, At
  <2> QED  BY <1>1, <1>7, <2>1 DEF IInv, WakeInv, locks, pends
<1> QED  BY <1>5, <1>6, <1>8, <1>9, <1>10 DEF IInv

\* The main thread, once it caught its signal.
LEMMA MainStep ==
  ASSUME IInv, Signal \/ Main
  PROVE  IInv'
<1>1. TypeOK /\ UNCHANGED <<pends, pc>> /\ main.pc \in Places /\ cache_r_lock \in Nat
  BY DEF IInv, TypeOK, Places, Signal, Main, SoftStep, SoftMutexFails, softlock_cache_rw,
         softunlock_cache_rw, softlock_cache_r, softunlock_cache_r
<1>2. Writers' = Writers /\ Readers' = Readers /\ Untimed' = Untimed
  BY <1>1 DEF Writers, Readers, Untimed, At
<1>3. /\ Cardinality(Readers) \in Nat
      /\ LockInv' <=> /\ Writers # {} => cache_w_lock' = 1 /\ ~ MainWrites'
                      /\ MainWrites' => cache_w_lock' = 1
                      /\ cache_w_lock' = 1 => cache_r_lock' = 0
                      /\ cache_r_lock' >= Cardinality(Readers) + (IF MainReads' THEN 1 ELSE 0)
  BY <1>2, AtFinite, Sets DEF LockInv, IInv
<1>4. ASSUME NEW x \in Places, TryAgain(x)
      PROVE  main' \in [pc : {x, main.pc}, tries : 0..(MaxTries - 1)]
  BY <1>1, <1>4, LockAssumption DEF TryAgain, TypeOK, Places
<1>5. ASSUME NEW x, Step(x)
      PROVE  main' \in [pc : {x}, tries : 0..(MaxTries - 1)]
  BY <1>5, LockAssumption DEF Step
<1> DEFINE Good == /\ main' \in [pc : Places \ {"sigwait"}, tries : 0..(MaxTries - 1)]
                   /\ cache_r_lock' \in Nat /\ cache_w_lock' \in {0, 1}
                   /\ LockInv'
<1>6. ASSUME Signal
      PROVE  Good
  <2>1. Step("purge_lock") /\ UNCHANGED locks
    BY <1>6 DEF Signal
  <2>2. main' \in [pc : {"purge_lock"}, tries : 0..(MaxTries - 1)]
    BY <1>5, <2>1
  <2> QED
    BY <1>1, <1>3, <2>1, <2>2
       DEF Places, TypeOK, IInv, LockInv, MainReads, MainWrites, locks
<1>7. ASSUME NEW from \in {"purge_lock", "destroy_lock"}, NEW to \in {"purging", "destroyed"},
             NEW failed \in {"destroy_lock", "exit"}, softlock_cache_rw(from, to, failed)
      PROVE  Good
  <2>1. CASE cache_w_lock = 1 \/ cache_r_lock > 0
    <3>1. TryAgain(failed) /\ UNCHANGED locks /\ main.pc = from
      BY <1>7, <2>1 DEF softlock_cache_rw, locks
    <3>2. main' \in [pc : {failed, from}, tries : 0..(MaxTries - 1)]
      BY <1>4, <3>1 DEF Places
    <3> QED
      BY <1>1, <1>3, <3>1, <3>2
         DEF Places, TypeOK, IInv, LockInv, MainReads, MainWrites, locks
  <2>2. CASE ~ (cache_w_lock = 1 \/ cache_r_lock > 0)
    <3>1. Step(to) /\ cache_w_lock' = 1 /\ cache_r_lock' = cache_r_lock /\ cache_r_lock = 0
          /\ cache_w_lock # 1 /\ main.pc = from
      BY <1>1, <1>7, <2>2 DEF softlock_cache_rw
    <3>2. main' \in [pc : {to}, tries : 0..(MaxTries - 1)]
      BY <1>5, <3>1
    <3> QED
      BY <1>1, <1>3, <3>1, <3>2 DEF Places, TypeOK, IInv, LockInv, MainReads, MainWrites
  <2> QED  BY <2>1, <2>2
<1>8. ASSUME softunlock_cache_rw
      PROVE  Good
  <2>1. /\ main.pc = "purging" /\ Step("write_lock") /\ cache_w_lock' = 0
        /\ cache_r_lock' = cache_r_lock
    BY <1>8 DEF softunlock_cache_rw
  <2>2. main' \in [pc : {"write_lock"}, tries : 0..(MaxTries - 1)]
    BY <1>5, <2>1
  <2> QED
    BY <1>1, <1>3, <2>1, <2>2 DEF Places, TypeOK, IInv, LockInv, MainReads, MainWrites
<1>9. ASSUME softlock_cache_r
      PROVE  Good
  <2>1. CASE cache_w_lock = 1
    <3>1. TryAgain("destroy_lock") /\ UNCHANGED locks /\ main.pc = "write_lock"
      BY <1>9, <2>1 DEF softlock_cache_r, locks
    <3>2. main' \in [pc : {"destroy_lock", "write_lock"}, tries : 0..(MaxTries - 1)]
      BY <1>4, <3>1 DEF Places
    <3> QED
      BY <1>1, <1>3, <3>1, <3>2
         DEF Places, TypeOK, IInv, LockInv, MainReads, MainWrites, locks
  <2>2. CASE cache_w_lock # 1
    <3>1. /\ main.pc = "write_lock" /\ Step("writing") /\ cache_r_lock' = cache_r_lock + 1
          /\ cache_w_lock' = cache_w_lock
      BY <1>9, <2>2 DEF softlock_cache_r
    <3>2. main' \in [pc : {"writing"}, tries : 0..(MaxTries - 1)]
      BY <1>5, <3>1
    <3> QED
      BY <1>1, <1>3, <2>2, <3>1, <3>2
         DEF Places, TypeOK, IInv, LockInv, MainReads, MainWrites
  <2> QED  BY <2>1, <2>2
<1>10. ASSUME softunlock_cache_r
       PROVE  Good
  <2>1. /\ main.pc = "writing" /\ Step("destroy_lock") /\ cache_w_lock' = cache_w_lock
        /\ cache_r_lock' = Decrement(cache_r_lock)
    BY <1>10 DEF softunlock_cache_r
  <2>2. main' \in [pc : {"destroy_lock"}, tries : 0..(MaxTries - 1)]
    BY <1>5, <2>1
  <2>3. cache_r_lock' = cache_r_lock - 1 /\ cache_r_lock >= 1
    BY <1>1, <1>3, <2>1 DEF Decrement, IInv, LockInv, MainReads
  <2> QED
    BY <1>1, <1>3, <2>1, <2>2, <2>3
       DEF Places, TypeOK, IInv, LockInv, MainReads, MainWrites
<1>11. ASSUME NEW x \in {"destroy_lock", "exit"}, Step(x), UNCHANGED locks
       PROVE  Good
  <2>1. main' \in [pc : {x}, tries : 0..(MaxTries - 1)]
    BY <1>5, <1>11
  <2> QED
    BY <1>1, <1>3, <1>11, <2>1
       DEF Places, TypeOK, IInv, LockInv, MainReads, MainWrites, locks
<1>12. Good
  BY <1>6, <1>7, <1>8, <1>9, <1>10, <1>11 DEF Main, SoftStep, SoftMutexFails
<1> HIDE DEF Good
<1>13. /\ main' \in [pc : Places \ {"sigwait"}, tries : 0..(MaxTries - 1)]
       /\ cache_r_lock' \in Nat /\ cache_w_lock' \in {0, 1} /\ LockInv'
  BY <1>12 DEF Good
<1>14. TypeOK'
  BY <1>1, <1>13 DEF TypeOK, Places, pends
<1>15. PendingCounted'
  BY <1>1 DEF IInv, PendingCounted, pends
<1>16. SuspInv'
  BY <1>1, <1>2 DEF IInv, SuspInv, pends
<1>17. WakeInv'
  BY <1>13 DEF WakeInv
<1> QED  BY <1>13, <1>14, <1>15, <1>16, <1>17 DEF IInv

-----------------------------------------------------------------------------
(* The invariant, and what follows from it.                                *)

LEMMA InitIInv == Init => IInv
<1> SUFFICES ASSUME Init  PROVE IInv
  OBVIOUS
<1>1. \A t \in All : pc[t] = "idle"
  BY DEF Init
<1>2. TypeOK
  BY LockAssumption DEF Init, TypeOK
<1>3. At(RPending) = {} /\ At(RWPending) = {} /\ At({"reading"}) = {} /\ Writers = {}
      /\ OnR = {} /\ OnRW = {}
  BY <1>1 DEF At, RPending, RWPending, Writers, OnR, OnRW
<1>4. Cardinality(At(RPending)) = 0 /\ Cardinality(At(RWPending)) = 0
      /\ Cardinality(At({"reading"})) = 0
  BY <1>3, FS_EmptySet
<1>5. PendingCounted
  BY <1>4, Sets DEF Init, PendingCounted
<1>6. LockInv
  BY <1>3, <1>4, Sets DEF Init, LockInv, MainReads, MainWrites
<1> QED  BY <1>1, <1>2, <1>3, <1>5, <1>6 DEF Init, IInv, SuspInv, WakeInv

LEMMA NextIInv == IInv /\ [Next]_vars => IInv'
<1> SUFFICES ASSUME IInv, [Next]_vars  PROVE IInv'
  OBVIOUS
<1>1. CASE UNCHANGED vars
  <2>1. UNCHANGED <<cache_r_lock, cache_w_lock, r_pend, rw_pend, r_susp, pc, main>>
    BY <1>1 DEF vars, locks, pends
  <2> QED
    BY <2>1 DEF IInv, TypeOK, PendingCounted, LockInv, SuspInv, WakeInv, Writers, Readers,
                MainReads, MainWrites, OnR, OnRW, Untimed, RWWoken, RWoken, At
<1>2. ASSUME NEW t \in All, \/ lock_cache_r(t) \/ ReadAgain(t) \/ unlock_cache_r(t)
                            \/ lock_cache_rw(t) \/ WriteAgain(t) \/ unlock_cache_rw(t)
                            \/ Spurious(t)
      PROVE  IInv'
  BY <1>2, ReadStep, ReadEnds, WriteStep, WriteEnds, SpuriousStep
<1>3. CASE timedlock_cache_rw \/ TimedOut \/ yield_lock_cache_rw \/ LockBack
  <2>1. Control \in All
    BY DEF All
  <2> QED  BY <1>3, <2>1, WriteStep, WriteEnds, GivesUp
<1>4. CASE Signal \/ Main
  BY <1>4, MainStep
<1> QED  BY <1>1, <1>2, <1>3, <1>4 DEF Next

\* The counters of cache.c describe the threads, and every sleeper has someone to wake it.
THEOREM Invariance == Spec => []IInv
<1> QED  BY InitIInv, NextIInv, PTL DEF Spec

LEMMA WritersAlone == IInv => Exclusion
<1> SUFFICES ASSUME IInv  PROVE Exclusion
  OBVIOUS
<1>1. Cardinality(Readers) \in Nat /\ (Cardinality(Readers) = 0 <=> Readers = {})
      /\ IsFiniteSet(Writers)
  BY AtFinite, Sets
<1>2. Cardinality(Writers) <= 1
  <2>1. CASE Writers = {}
    BY <2>1, FS_EmptySet
  <2>2. CASE Writers # {}
    <3>1. PICK t \in Writers : TRUE
      BY <2>2
    <3>2. Writers = {t}
      BY <3>1 DEF IInv, LockInv
    <3> QED  BY <3>2, FS_Singleton
  <2> QED  BY <2>1, <2>2
<1>3. cache_w_lock = 1 => Readers = {} /\ ~ MainReads
  BY <1>1 DEF IInv, LockInv
<1> QED  BY <1>2, <1>3 DEF IInv, LockInv, Exclusion

LEMMA NobodyWaitsInVain == IInv => WaitersServed
<1> SUFFICES ASSUME IInv  PROVE WaitersServed
  OBVIOUS
<1>1. SuspensionEnds
  <2>1. Untimed # {} => At(RWPending) # {}
    BY DEF Untimed, RWPending, At
  <2>2. At(RWPending) # {} => rw_pend > 0
    BY AtFinite, Sets DEF IInv, PendingCounted
  <2> QED  BY <2>1, <2>2 DEF IInv, SuspInv, LockInv, SuspensionEnds
<1>2. NoLostWakeup
  <2> SUFFICES ASSUME main.pc = "sigwait", cache_w_lock = 0, cache_r_lock = 0,
                      NEW t \in All, pc[t] \in Asleep
               PROVE  \E u \in All : pc[u] \in Woken
    BY DEF NoLostWakeup
  <2>1. OnR # {} \/ OnRW # {}
    BY DEF OnR, OnRW, Asleep
  <2>2. OnRW # {} => RWWoken # {} \/ RWoken # {}
    BY DEF IInv, WakeInv
  <2>3. OnR # {} => OnRW # {} \/ RWWoken # {}
    BY DEF IInv, WakeInv, Untimed, OnRW, RWWoken, At
  <2>4. RWWoken # {} \/ RWoken # {}
    BY <2>1, <2>2, <2>3
  <2> QED  BY <2>4 DEF RWWoken, RWoken, At, Woken
<1> QED  BY <1>1, <1>2 DEF IInv, WaitersServed

\* Whoever writes is alone, by the normal, timed, yielded or soft lock, also when the main
\* thread leaves a lock taken (cache.c, the _lock_ functions).
THEOREM WriterIsAlone == Spec => []Exclusion
<1> QED  BY Invariance, WritersAlone, PTL

\* The counts of pending threads are exact, suspended readers have a writer that ends the
\* suspension, and until the exit no thread sleeps over a free lock unless another one has
\* been woken and has yet to test (lock_cache_r to unlock_cache_rw).
THEOREM WaitersAreServed == Spec => []WaitersServed
<1> QED  BY Invariance, NobodyWaitsInVain, PTL

-----------------------------------------------------------------------------
(* Induction, and sums over finite sets.                                   *)

LEMMA Least ==
  ASSUME NEW T, T \subseteq Nat, T # {}
  PROVE  \E x \in T : \A y \in T : x <= y
<1>. DEFINE R == {ss \in Nat \X Nat : ss[1] < ss[2]}
<1>1. IsWellFoundedOn(R, Nat)
  BY NatLessThanWellFounded DEF OpToRel
<1>. HIDE DEF R
<1>2. PICK x \in T : \A y \in T : ~ (<<y, x>> \in R)
  BY <1>1, WFMin
<1>3. \A y \in T : <<y, x>> \in Nat \X Nat
  OBVIOUS
<1>4. \A y \in T : ~ (y < x)
  BY <1>2, <1>3 DEF R
<1>. QED  BY <1>4

LEMMA Induction ==
  ASSUME NEW S, 0 \in S, \A n \in Nat : n \in S => n + 1 \in S
  PROVE  Nat \subseteq S
<1>1. SUFFICES ASSUME Nat \ S # {} PROVE FALSE
  OBVIOUS
<1>2. PICK x \in Nat \ S : \A y \in Nat \ S : x <= y
  BY <1>1, Least
<1>3. x - 1 \in Nat /\ x - 1 \in S
  BY <1>2
<1>. QED  BY <1>2, <1>3

LEMMA Greatest ==
  ASSUME NEW k \in Nat, NEW T, T \subseteq 0..k, T # {}
  PROVE  Max(T) \in T /\ \A y \in T : y <= Max(T)
<1>. DEFINE U == {k - y : y \in T}
<1>1. U \subseteq Nat /\ U # {}
  <2>1. \A y \in T : y \in Int /\ 0 <= y /\ y <= k
    OBVIOUS
  <2>2. \A y \in T : k - y \in Nat
    BY <2>1
  <2>. QED  BY <2>2
<1>2. PICK x \in U : \A y \in U : x <= y
  BY <1>1, Least
<1>3. k - x \in T /\ \A y \in T : k - y \in U
  OBVIOUS
<1>4. \A y \in T : k - x >= y
  BY <1>2, <1>3
<1>. QED  BY <1>3, <1>4 DEF Max

LEMMA Bounded ==
  ASSUME NEW k \in Nat, NEW T, T \subseteq 1..k, T # {}
  PROVE  Max(T) \in T /\ Max(T) \in 1..k /\ \A y \in T : y <= Max(T)
<1>1. T \subseteq 0..k
  OBVIOUS
<1>2. Max(T) \in T /\ \A y \in T : y <= Max(T)
  BY <1>1, Greatest
<1>. QED  BY <1>2
\* The largest number of a set up to k + 1 that has it.
LEMMA MaxIs ==
  ASSUME NEW k \in Nat, NEW T, T \subseteq 1..(k + 1), k + 1 \in T
  PROVE  Max(T) = k + 1
<1>1. k + 1 \in Nat /\ T # {}
  OBVIOUS
<1>2. Max(T) \in 1..(k + 1) /\ k + 1 <= Max(T)
  BY <1>1, Bounded
<1>. QED  BY <1>2
\* Some element, as the sums choose it.
Some(x) == CHOOSE z \in x : TRUE

LEMMA SomeIn == ASSUME NEW x, x # {} PROVE Some(x) \in x
BY DEF Some

LEMMA Smaller ==
  ASSUME NEW x, IsFiniteSet(x), NEW y \in x
  PROVE  /\ IsFiniteSet(x \ {y}) /\ Cardinality(x) \in Nat /\ Cardinality(x \ {y}) \in Nat
         /\ Cardinality(x \ {y}) = Cardinality(x) - 1
BY FS_RemoveElement, FS_CardinalityType

\* The sums of f over the subsets of its domain, one element after the other.
IsSum(G, f) ==
  G = [x \in SUBSET DOMAIN f |-> IF x = {} THEN 0 ELSE f[Some(x)] + G[x \ {Some(x)}]]

LEMMA SumIs == ASSUME NEW f PROVE SumFunction(f) = (CHOOSE G : IsSum(G, f))[DOMAIN f]
BY DEF SumFunction, SumFunctionOnSet, FoldFunctionOnSet, MapThenFoldSet, IsSum, Some

LEMMA SumExists ==
  ASSUME NEW D, IsFiniteSet(D), NEW f \in [D -> Int]
  PROVE  \E G \in [SUBSET D -> Int] : IsSum(G, f) /\ SumFunction(f) = G[D]
<1>. DEFINE Value(G, x) == IF x = {} THEN 0 ELSE f[Some(x)] + G[x \ {Some(x)}]
            S == {k \in Nat : \E G \in [SUBSET D -> Int] :
                                \A x \in SUBSET D : Cardinality(x) <= k => G[x] = Value(G, x)}
<1>1. \A x \in SUBSET D : IsFiniteSet(x) /\ Cardinality(x) \in Nat
  BY FS_Subset, FS_CardinalityType
<1>2. \A x \in SUBSET D : x # {} =>
        /\ Some(x) \in x /\ x \ {Some(x)} \in SUBSET D
        /\ Cardinality(x \ {Some(x)}) = Cardinality(x) - 1
  BY <1>1, SomeIn, Smaller
<1>3. \A x \in SUBSET D : Cardinality(x) <= 0 => x = {}
  BY <1>1, FS_EmptySet
<1>4. 0 \in S
  <2>. DEFINE G == [x \in SUBSET D |-> 0]
  <2>1. G \in [SUBSET D -> Int]
    OBVIOUS
  <2>2. \A x \in SUBSET D : Cardinality(x) <= 0 => x = {}
    BY <1>3
  <2>3. \A x \in SUBSET D : Cardinality(x) <= 0 => G[x] = Value(G, x)
    BY <2>2
  <2>. HIDE DEF G
  <2>. QED  BY <2>1, <2>3
<1>5. ASSUME NEW k \in Nat, k \in S PROVE k + 1 \in S
  <2>1. PICK G \in [SUBSET D -> Int] :
               \A x \in SUBSET D : Cardinality(x) <= k => G[x] = Value(G, x)
    BY <1>5
  <2>2. \A x \in SUBSET D : Value(G, x) \in Int
    BY <1>2
  <2>. DEFINE H == [x \in SUBSET D |-> IF Cardinality(x) <= k THEN G[x] ELSE Value(G, x)]
  <2>3. H \in [SUBSET D -> Int]
    BY <2>2
  <2>4. ASSUME NEW x \in SUBSET D, Cardinality(x) <= k + 1 PROVE H[x] = Value(H, x)
    <3>1. CASE x = {}
      BY <3>1, <2>1
    <3>2. CASE x # {}
      <4>. DEFINE y == x \ {Some(x)}
      <4>1. y \in SUBSET D /\ Cardinality(y) <= k
        BY <1>1, <1>2, <2>4, <3>2
      <4>2. H[y] = G[y] /\ H[x] = Value(G, x)
        BY <4>1, <2>1
      <4>. QED  BY <4>2, <3>2
    <3>. QED  BY <3>1, <3>2
  <2>. HIDE DEF H
  <2>5. \A x \in SUBSET D : Cardinality(x) <= k + 1 => H[x] = Value(H, x)
    BY <2>4
  <2>6. \E K \in [SUBSET D -> Int] :
           \A x \in SUBSET D : Cardinality(x) <= k + 1 => K[x] = Value(K, x)
    BY <2>3, <2>5
  <2>. QED  BY <2>6
<1>6. Cardinality(D) \in S
  <2>. HIDE DEF S
  <2>. QED  BY <1>1, <1>4, <1>5, Induction
<1>7. PICK G \in [SUBSET D -> Int] :
             \A x \in SUBSET D : Cardinality(x) <= Cardinality(D) => G[x] = Value(G, x)
  BY <1>6
<1>8. \A x \in SUBSET D : Cardinality(x) <= Cardinality(D)
  BY FS_Subset
<1>9. IsSum(G, f)
  BY <1>7, <1>8 DEF IsSum
<1>10. PICK K : IsSum(K, f) /\ SumFunction(f) = K[D]
  BY <1>9, SumIs
<1>11. K \in [SUBSET D -> Int]
  <2>. DEFINE T == {k \in Nat : \A x \in SUBSET D : Cardinality(x) <= k => K[x] = G[x]}
  <2>1. \A x \in SUBSET D : /\ K[x] = Value(K, x) /\ G[x] = Value(G, x)
    BY <1>9, <1>10 DEF IsSum
  <2>2. 0 \in T
    <3>. QED  BY <2>1, <1>3
  <2>3. ASSUME NEW k \in Nat, k \in T PROVE k + 1 \in T
    <3>1. ASSUME NEW x \in SUBSET D, Cardinality(x) <= k + 1 PROVE K[x] = G[x]
      <4>1. CASE x = {}
        BY <4>1, <2>1
      <4>2. CASE x # {}
        <5>. DEFINE y == x \ {Some(x)}
        <5>1. y \in SUBSET D /\ Cardinality(y) <= k
          BY <1>1, <1>2, <3>1, <4>2
        <5>2. K[y] = G[y]
          BY <5>1, <2>3
        <5>. QED  BY <5>2, <2>1, <4>2
      <4>. QED  BY <4>1, <4>2
    <3>. QED  BY <3>1
  <2>4. Cardinality(D) \in T
    <3>. HIDE DEF T
    <3>. QED  BY <1>1, <2>2, <2>3, Induction
  <2>5. \A x \in SUBSET D : K[x] = G[x]
    BY <2>4, <1>8
  <2>6. K = [x \in SUBSET D |-> K[x]]
    BY <1>10 DEF IsSum
  <2>. QED  BY <2>5, <2>6
<1>. QED  BY <1>10, <1>11

\* Induction over the subsets of a finite set, one chosen element after the other.
LEMMA SubsetInduction ==
  ASSUME NEW D, IsFiniteSet(D), NEW P,
         {} \in P, \A x \in SUBSET D : x # {} /\ x \ {Some(x)} \in P => x \in P
  PROVE  D \in P
<1>. DEFINE S == {k \in Nat : \A x \in SUBSET D : Cardinality(x) <= k => x \in P}
<1>1. \A x \in SUBSET D : IsFiniteSet(x) /\ Cardinality(x) \in Nat
  BY FS_Subset, FS_CardinalityType
<1>2. \A x \in SUBSET D : x # {} =>
        /\ x \ {Some(x)} \in SUBSET D
        /\ Cardinality(x \ {Some(x)}) = Cardinality(x) - 1
  BY <1>1, SomeIn, Smaller
<1>3. \A x \in SUBSET D : Cardinality(x) <= 0 => x = {}
  BY <1>1, FS_EmptySet
<1>4. 0 \in S
  BY <1>3
<1>5. ASSUME NEW k \in Nat, k \in S PROVE k + 1 \in S
  <2>1. ASSUME NEW x \in SUBSET D, Cardinality(x) <= k + 1, x # {} PROVE x \in P
    <3>1. Cardinality(x \ {Some(x)}) <= k
      BY <1>1, <1>2, <2>1
    <3>. QED  BY <3>1, <1>2, <1>5, <2>1
  <2>2. \A x \in SUBSET D : Cardinality(x) <= k + 1 => x \in P
    BY <2>1
  <2>. QED  BY <2>2
<1>6. Cardinality(D) \in S
  <2>. HIDE DEF S
  <2>. QED  BY <1>1, <1>4, <1>5, Induction
<1>. QED  BY <1>6, <1>1

\* What the sums of f over the subsets of D are.
Sums(G, f, D) ==
  /\ G \in [SUBSET D -> Int] /\ SumFunction(f) = G[D] /\ G[{}] = 0
  /\ \A x \in SUBSET D : x # {} =>
       /\ Some(x) \in x /\ x \ {Some(x)} \in SUBSET D
       /\ G[x] = f[Some(x)] + G[x \ {Some(x)}]

LEMMA SumStep ==
  ASSUME NEW D, IsFiniteSet(D), NEW f \in [D -> Int]
  PROVE  \E G : Sums(G, f, D)
<1>1. PICK G \in [SUBSET D -> Int] : IsSum(G, f) /\ SumFunction(f) = G[D]
  BY SumExists
<1>2. G = [x \in SUBSET D |-> IF x = {} THEN 0 ELSE f[Some(x)] + G[x \ {Some(x)}]]
  BY <1>1 DEF IsSum
<1>3. \A x \in SUBSET D : G[x] = IF x = {} THEN 0 ELSE f[Some(x)] + G[x \ {Some(x)}]
  BY <1>2
<1>. QED  BY <1>1, <1>3, SomeIn DEF Sums

LEMMA SumInt ==
  ASSUME NEW D, IsFiniteSet(D), NEW f \in [D -> Int]
  PROVE  SumFunction(f) \in Int
<1>1. PICK G : Sums(G, f, D)
  BY SumStep
<1>. QED  BY <1>1 DEF Sums

\* One summand changes.
LEMMA SumChange ==
  ASSUME NEW D, IsFiniteSet(D), NEW f \in [D -> Int], NEW g \in [D -> Int], NEW a \in D,
         \A y \in D : y # a => g[y] = f[y]
  PROVE  SumFunction(g) = SumFunction(f) + (g[a] - f[a])
<1>1. PICK G : Sums(G, f, D)
  BY SumStep
<1>2. PICK H : Sums(H, g, D)
  BY SumStep
<1>. DEFINE P == {x \in SUBSET D : H[x] = G[x] + (IF a \in x THEN g[a] - f[a] ELSE 0)}
<1>3. {} \in P
  BY <1>1, <1>2 DEF Sums
<1>4. ASSUME NEW x \in SUBSET D, x # {}, x \ {Some(x)} \in P PROVE x \in P
  <2>. DEFINE y == x \ {Some(x)}
  <2>1. /\ Some(x) \in D /\ y \in SUBSET D
        /\ H[x] = g[Some(x)] + H[y] /\ G[x] = f[Some(x)] + G[y]
        /\ H[y] = G[y] + (IF a \in y THEN g[a] - f[a] ELSE 0)
    BY <1>1, <1>2, <1>4 DEF Sums
  <2>2. H[y] \in Int /\ G[y] \in Int
    BY <1>1, <1>2, <2>1 DEF Sums
  <2>3. CASE Some(x) = a
    <3>1. a \notin y /\ a \in x
      BY <2>3, <1>1, <1>4 DEF Sums
    <3>. QED  BY <2>1, <2>2, <2>3, <3>1
  <2>4. CASE Some(x) # a
    <3>1. a \in y <=> a \in x
      BY <2>4
    <3>2. g[Some(x)] = f[Some(x)]
      BY <2>1, <2>4
    <3>. QED  BY <2>1, <2>2, <3>1, <3>2
  <2>. QED  BY <2>3, <2>4
<1>5. D \in P
  <2>. HIDE DEF P
  <2>. QED  BY <1>3, <1>4, SubsetInduction
<1>. QED  BY <1>1, <1>2, <1>5 DEF Sums

\* Smaller summands make a smaller sum.
LEMMA SumMonotone ==
  ASSUME NEW D, IsFiniteSet(D), NEW f \in [D -> Int], NEW g \in [D -> Int],
         \A y \in D : f[y] <= g[y]
  PROVE  SumFunction(f) <= SumFunction(g)
<1>1. PICK G : Sums(G, f, D)
  BY SumStep
<1>2. PICK H : Sums(H, g, D)
  BY SumStep
<1>. DEFINE P == {x \in SUBSET D : G[x] <= H[x]}
<1>3. {} \in P
  BY <1>1, <1>2 DEF Sums
<1>4. ASSUME NEW x \in SUBSET D, x # {}, x \ {Some(x)} \in P PROVE x \in P
  <2>. DEFINE y == x \ {Some(x)}
  <2>1. /\ Some(x) \in D /\ y \in SUBSET D /\ G[y] <= H[y]
        /\ H[x] = g[Some(x)] + H[y] /\ G[x] = f[Some(x)] + G[y]
    BY <1>1, <1>2, <1>4 DEF Sums
  <2>2. H[y] \in Int /\ G[y] \in Int /\ f[Some(x)] <= g[Some(x)]
    BY <1>1, <1>2, <2>1 DEF Sums
  <2>. QED  BY <2>1, <2>2
<1>5. D \in P
  <2>. HIDE DEF P
  <2>. QED  BY <1>3, <1>4, SubsetInduction
<1>. QED  BY <1>1, <1>2, <1>5 DEF Sums

LEMMA SumZero ==
  ASSUME NEW D, IsFiniteSet(D)
  PROVE  SumFunction([y \in D |-> 0]) = 0
<1>. DEFINE f == [y \in D |-> 0]
<1>1. PICK G : Sums(G, f, D)
  BY SumStep
<1>. DEFINE P == {x \in SUBSET D : G[x] = 0}
<1>2. {} \in P
  BY <1>1 DEF Sums
<1>3. ASSUME NEW x \in SUBSET D, x # {}, x \ {Some(x)} \in P PROVE x \in P
  BY <1>1, <1>3 DEF Sums
<1>4. D \in P
  <2>. HIDE DEF P
  <2>. QED  BY <1>2, <1>3, SubsetInduction
<1>. QED  BY <1>1, <1>4 DEF Sums

LEMMA SumNat ==
  ASSUME NEW D, IsFiniteSet(D), NEW f \in [D -> Int], \A y \in D : f[y] >= 0
  PROVE  SumFunction(f) \in Nat
<1>. DEFINE z == [y \in D |-> 0]
<1>1. z \in [D -> Int] /\ \A y \in D : z[y] <= f[y]
  OBVIOUS
<1>2. SumFunction(z) <= SumFunction(f)
  <2>. HIDE DEF z
  <2>. QED  BY <1>1, SumMonotone
<1>. QED  BY <1>2, SumZero, SumInt

LEMMA UpTo ==
  ASSUME NEW k \in Nat
  PROVE  /\ Max(1..(k + 1)) = k + 1 /\ (1..(k + 1)) \ {k + 1} = 1..k /\ 1..(k + 1) # {}
         /\ \A x \in SUBSET (1..(k + 1)) : x # {} =>
              /\ Max(x) \in x /\ Max(x) \in 1..(k + 1) /\ x \ {Max(x)} \in SUBSET (1..k)
              /\ k + 1 \notin x => x \in SUBSET (1..k)
              /\ k + 1 \in x => Max(x) = k + 1
<1>1. k + 1 \in Nat /\ k + 1 \in 1..(k + 1)
  OBVIOUS
<1>2. ASSUME NEW x \in SUBSET (1..(k + 1)), x # {}
      PROVE  /\ Max(x) \in x /\ Max(x) \in 1..(k + 1) /\ x \ {Max(x)} \in SUBSET (1..k)
             /\ k + 1 \notin x => x \in SUBSET (1..k)
             /\ k + 1 \in x => Max(x) = k + 1
  <2>1. Max(x) \in x /\ Max(x) \in 1..(k + 1) /\ \A y \in x : y <= Max(x)
    BY <1>1, <1>2, Bounded
  <2>2. k + 1 \in x => Max(x) = k + 1
    BY <1>2, MaxIs
  <2>3. k + 1 \notin x => x \in SUBSET (1..k)
    BY <1>2
  <2>4. \A y \in x \ {Max(x)} : y \in 1..k
    <3>1. TAKE y \in x \ {Max(x)}
    <3>2. y \in 1..(k + 1) /\ y <= Max(x) /\ y # Max(x)
      BY <2>1, <3>1
    <3>. QED  BY <3>2, <2>1
  <2>. QED  BY <2>1, <2>2, <2>3, <2>4
<1>3. Max(1..(k + 1)) = k + 1
  BY <1>1, <1>2
<1>4. (1..(k + 1)) \ {k + 1} = 1..k
  OBVIOUS
<1>. QED  BY <1>1, <1>2, <1>3, <1>4
\* One fold, step by step.
LEMMA WithoutSteps ==
  ASSUME NEW l, Len(l) \in Nat, DOMAIN l = 1..Len(l), NEW X
  PROVE  \E F : /\ F[0] = <<>> /\ Without(l, X) = F[Len(l)]
                /\ \A k \in 1..Len(l) :
                     F[k] = IF l[k] \in X THEN F[k - 1] ELSE Append(F[k - 1], l[k])
<1>. DEFINE Op(u, y) == IF l[y] \in X THEN u ELSE Append(u, l[y])
            Value(G, x) == IF x = {} THEN <<>> ELSE Op(G[x \ {Max(x)}], Max(x))
            Rec(G, D) == G = [x \in SUBSET D |-> Value(G, x)]
            Is(k) == \E G : Rec(G, 1..k)
            S == {k \in Nat : Is(k)}
<1>1. Without(l, X) = (CHOOSE G : Rec(G, 1..Len(l)))[1..Len(l)]
  BY DEF Without, FoldLeft, MapThenFoldSet
<1>. HIDE DEF Op
<1>2. 0 \in S
  <2>. DEFINE G == [x \in SUBSET (1..0) |-> <<>>]
  <2>1. \A x \in SUBSET (1..0) : Value(G, x) = <<>>
    OBVIOUS
  <2>. QED  BY <2>1
<1>3. ASSUME NEW k \in Nat, k \in S PROVE k + 1 \in S
  <2>1. PICK G : Rec(G, 1..k)
    BY <1>3
  <2>. DEFINE H == [x \in SUBSET (1..(k + 1)) |-> IF k + 1 \in x THEN Value(G, x) ELSE G[x]]
  <2>2. ASSUME NEW x \in SUBSET (1..(k + 1)) PROVE H[x] = Value(H, x)
    <3>1. CASE x = {}
      BY <3>1, <2>1
    <3>2. CASE x # {}
      <4>1. x \ {Max(x)} \in SUBSET (1..k) /\ H[x \ {Max(x)}] = G[x \ {Max(x)}]
        BY <3>2, UpTo
      <4>2. H[x] = Value(G, x)
        BY <2>1, <3>2, UpTo
      <4>. QED  BY <4>1, <4>2, <3>2
    <3>. QED  BY <3>1, <3>2
  <2>3. Rec(H, 1..(k + 1))
    BY <2>2
  <2>4. Is(k + 1)
    BY <2>3
  <2>. HIDE DEF Is
  <2>. QED  BY <2>4
<1>4. Len(l) \in S
  <2>. HIDE DEF S
  <2>. QED  BY <1>2, <1>3, Induction
<1>5. PICK G : Rec(G, 1..Len(l)) /\ Without(l, X) = G[1..Len(l)]
  BY <1>1, <1>4
<1>. DEFINE F == [k \in 0..Len(l) |-> G[1..k]]
<1>6. ASSUME NEW k \in 1..Len(l) PROVE F[k] = Op(F[k - 1], k)
  <2>1. PICK j \in Nat : k = j + 1
    <3>1. k - 1 \in Nat /\ k = (k - 1) + 1
      OBVIOUS
    <3>. QED  BY <3>1
  <2>2. 1..k \in SUBSET (1..Len(l)) /\ F[k] = G[1..k] /\ F[k - 1] = G[1..j]
    BY <2>1
  <2>3. G[1..k] = Value(G, 1..k)
    BY <2>2, <1>5
  <2>4. 1..k # {} /\ Max(1..k) = k /\ (1..k) \ {k} = 1..j
    BY <2>1, UpTo
  <2>. QED  BY <2>2, <2>3, <2>4
<1>7. F[0] = <<>>
  BY <1>5
<1>8. F[Len(l)] = Without(l, X)
  BY <1>5
<1>. HIDE DEF F
<1>. QED  BY <1>6, <1>7, <1>8 DEF Op

\* r is, in its order, what the first k elements of l have outside X; h tells the places.
Picks(h, r, l, X, k) ==
  /\ h \in [1..Len(r) -> 1..k]
  /\ \A i \in 1..Len(r) : r[i] = l[h[i]] /\ r[i] \notin X
  /\ \A i, j \in 1..Len(r) : i < j => h[i] < h[j]
  /\ \A j \in 1..k : l[j] \in X \/ \E i \in 1..Len(r) : h[i] = j

LEMMA WithoutPicks ==
  ASSUME NEW T, NEW l \in Seq(T), NEW X
  PROVE  Without(l, X) \in Seq(T) /\ \E h : Picks(h, Without(l, X), l, X, Len(l))
<1>1. PICK F : /\ F[0] = <<>> /\ Without(l, X) = F[Len(l)]
               /\ \A k \in 1..Len(l) :
                     F[k] = IF l[k] \in X THEN F[k - 1] ELSE Append(F[k - 1], l[k])
  BY WithoutSteps
<1>. DEFINE Is(k) == F[k] \in Seq(T) /\ \E h : Picks(h, F[k], l, X, k)
            S == {k \in Nat : k <= Len(l) => Is(k)}
<1>2. 0 \in S
  <2>1. Picks([i \in 1..0 |-> 1], <<>>, l, X, 0)
    BY DEF Picks
  <2>2. <<>> \in Seq(T)
    OBVIOUS
  <2>3. Is(0)
    BY <1>1, <2>1, <2>2
  <2>. HIDE DEF Is
  <2>. QED  BY <2>3
<1>3. ASSUME NEW k \in Nat, k \in S PROVE k + 1 \in S
  <2>1. SUFFICES ASSUME k + 1 <= Len(l) PROVE Is(k + 1)
    OBVIOUS
  <2>2. F[k] \in Seq(T)
    BY <1>3, <2>1
  <2>3. PICK h : Picks(h, F[k], l, X, k)
    BY <1>3, <2>1
  <2>4. k + 1 \in 1..Len(l) /\ l[k + 1] \in T /\ (k + 1) - 1 = k
    BY <2>1
  <2>5. CASE l[k + 1] \in X
    <3>1. F[k + 1] = F[k]
      BY <1>1, <2>4, <2>5
    <3>2. Picks(h, F[k], l, X, k + 1)
      <4>1. h \in [1..Len(F[k]) -> 1..(k + 1)]
        BY <2>3 DEF Picks
      <4>2. \A j \in 1..(k + 1) : j \in 1..k \/ j = k + 1
        OBVIOUS
      <4>3. \A j \in 1..(k + 1) : l[j] \in X \/ \E i \in 1..Len(F[k]) : h[i] = j
        BY <2>3, <2>5, <4>2 DEF Picks
      <4>. QED  BY <2>3, <4>1, <4>3 DEF Picks
    <3>. QED  BY <2>2, <3>1, <3>2
  <2>6. CASE l[k + 1] \notin X
    <3>. DEFINE r == F[k]
                g == [i \in 1..(Len(r) + 1) |-> IF i <= Len(r) THEN h[i] ELSE k + 1]
    <3>1. F[k + 1] = Append(r, l[k + 1])
      BY <1>1, <2>4, <2>6
    <3>2. /\ Append(r, l[k + 1]) \in Seq(T) /\ Len(Append(r, l[k + 1])) = Len(r) + 1
          /\ \A i \in 1..Len(r) : Append(r, l[k + 1])[i] = r[i]
          /\ Append(r, l[k + 1])[Len(r) + 1] = l[k + 1] /\ Len(r) \in Nat
      BY <2>2, <2>4
    <3>8. Picks(h, r, l, X, k)
      BY <2>3
    <3>. HIDE DEF r
    <3>3. g \in [1..(Len(r) + 1) -> 1..(k + 1)]
      BY <3>8, <3>2 DEF Picks
    <3>4. \A i \in 1..(Len(r) + 1) :
            Append(r, l[k + 1])[i] = l[g[i]] /\ Append(r, l[k + 1])[i] \notin X
      BY <3>8, <2>6, <3>2 DEF Picks
    <3>5. ASSUME NEW i \in 1..(Len(r) + 1), NEW j \in 1..(Len(r) + 1), i < j
          PROVE  g[i] < g[j]
      <4>1. i \in 1..Len(r)
        BY <3>2, <3>5
      <4>2. g[i] = h[i]
        BY <3>2, <4>1
      <4>5. h[i] \in 1..k
        BY <3>8, <4>1 DEF Picks
      <4>3. CASE j = Len(r) + 1
        BY <4>2, <4>3, <4>5, <3>2
      <4>4. CASE j # Len(r) + 1
        <5>1. j \in 1..Len(r) /\ g[j] = h[j]
          BY <4>4, <3>2
        <5>. QED  BY <4>1, <4>2, <5>1, <3>8, <3>5 DEF Picks
      <4>. QED  BY <4>3, <4>4
    <3>6. ASSUME NEW j \in 1..(k + 1)
          PROVE  l[j] \in X \/ \E i \in 1..(Len(r) + 1) : g[i] = j
      <4>1. CASE j = k + 1
        BY <4>1, <3>2
      <4>2. CASE j # k + 1
        <5>1. j \in 1..k
          BY <4>2
        <5>2. l[j] \in X \/ \E i \in 1..Len(r) : h[i] = j
          BY <5>1, <3>8 DEF Picks
        <5>. QED  BY <5>2, <3>2
      <4>. QED  BY <4>1, <4>2
    <3>. HIDE DEF g
    <3>7. Picks(g, Append(r, l[k + 1]), l, X, k + 1)
      BY <3>2, <3>3, <3>4, <3>5, <3>6 DEF Picks
    <3>. QED  BY <3>1, <3>2, <3>7
  <2>. QED  BY <2>5, <2>6
<1>4. Len(l) \in S
  <2>. HIDE DEF S
  <2>. QED  BY <1>2, <1>3, Induction
<1>. QED  BY <1>1, <1>4

\* The elements of a sequence, and whether it has each once.
Elements(l) == {l[k] : k \in 1..Len(l)}
Once(l) == \A j, k \in 1..Len(l) : l[j] = l[k] => j = k

LEMMA WithoutIs ==
  ASSUME NEW T, NEW l \in Seq(T), NEW X
  PROVE  /\ Without(l, X) \in Seq(T) /\ Elements(Without(l, X)) = Elements(l) \ X
         /\ Once(l) => Once(Without(l, X))
<1>1. PICK h : Picks(h, Without(l, X), l, X, Len(l))
  BY WithoutPicks
<1>2. Without(l, X) \in Seq(T)
  BY WithoutPicks
<1>. DEFINE r == Without(l, X)
<1>. HIDE DEF r
<1>3. \A i \in 1..Len(r) : h[i] \in 1..Len(l) /\ r[i] = l[h[i]] /\ r[i] \notin X
  BY <1>1 DEF Picks, r
<1>4. \A j \in 1..Len(l) : l[j] \in X \/ \E i \in 1..Len(r) : h[i] = j
  BY <1>1 DEF Picks, r
<1>5. Elements(r) = Elements(l) \ X
  BY <1>3, <1>4 DEF Elements
<1>6. ASSUME Once(l) PROVE Once(r)
  <2>1. \A i, j \in 1..Len(r) : i < j => h[i] < h[j]
    BY <1>1 DEF Picks, r
  <2>2. \A i, j \in 1..Len(r) : h[i] = h[j] => i = j
    BY <2>1, <1>3
  <2>. QED  BY <2>2, <1>3, <1>6 DEF Once
<1>. QED  BY <1>2, <1>5, <1>6 DEF r

\* A sequence with its elements in the order of f.
Ordered(l, f) == \A j, k \in 1..Len(l) : j <= k => f[l[j]] <= f[l[k]]

LEMMA InsertIs ==
  ASSUME NEW T, NEW l \in Seq(T), NEW x \in T, NEW p \in 1..(Len(l) + 1)
  PROVE  /\ InsertAt(l, p, x) \in Seq(T) /\ Len(InsertAt(l, p, x)) = Len(l) + 1
         /\ \A k \in 1..(Len(l) + 1) :
              InsertAt(l, p, x)[k] = IF k < p THEN l[k] ELSE IF k = p THEN x ELSE l[k - 1]
<1>. DEFINE a == SubSeq(l, 1, p - 1)
            b == SubSeq(l, p, Len(l))
<1>1. a \in Seq(T) /\ Len(a) = p - 1 /\ \A k \in 1..(p - 1) : a[k] = l[k]
  OBVIOUS
<1>2. b \in Seq(T) /\ Len(b) = Len(l) - p + 1 /\ \A k \in 1..(Len(l) - p + 1) : b[k] = l[k + p - 1]
  OBVIOUS
<1>3. InsertAt(l, p, x) = (a \o <<x>>) \o b
  BY DEF InsertAt
<1>. HIDE DEF a, b
<1>. DEFINE c == a \o <<x>>
<1>4. c \in Seq(T) /\ Len(c) = p /\ \A k \in 1..p : c[k] = IF k < p THEN l[k] ELSE x
  BY <1>1
<1>. HIDE DEF c
<1>5. c \in Seq(T) /\ b \in Seq(T) /\ Len(l) \in Nat
  BY <1>2, <1>4
<1>8. c \o b \in Seq(T) /\ Len(c \o b) = Len(c) + Len(b)
  BY <1>5
<1>6. \A k \in 1..(Len(l) + 1) : (c \o b)[k] = IF k <= p THEN c[k] ELSE b[k - p]
  BY <1>2, <1>4
<1>7. Len(c) + Len(b) = Len(l) + 1
  BY <1>2, <1>4, <1>5
<1>9. c \o b \in Seq(T) /\ Len(c \o b) = Len(l) + 1
  BY <1>7, <1>8
<1>10. \A k \in 1..(Len(l) + 1) :
         (c \o b)[k] = IF k < p THEN l[k] ELSE IF k = p THEN x ELSE l[k - 1]
  BY <1>2, <1>4, <1>6
<1>. QED  BY <1>3, <1>9, <1>10 DEF c

\* The place of each element of l in the order of f, and l in that order, as sort_rrl puts it.
Before(l, f, j, k) == f[l[j]] < f[l[k]] \/ (f[l[j]] = f[l[k]] /\ j < k)
Rank(l, f) ==
  [k \in 1..Len(l) |-> 1 + Cardinality({j \in 1..Len(l) : Before(l, f, j, k)})]
InOrder(l, f) == [p \in 1..Len(l) |-> l[CHOOSE k \in 1..Len(l) : Rank(l, f)[k] = p]]

LEMMA SortIs ==
  ASSUME NEW T, NEW l \in Seq(T), NEW f \in [T -> Int]
  PROVE  LET r == InOrder(l, f)
         IN  /\ r \in Seq(T) /\ Elements(r) = Elements(l)
             /\ Once(l) => Once(r)
             /\ Ordered(r, f)
<1>. DEFINE D == 1..Len(l)
            B(j, k) == Before(l, f, j, k)
            Pred(k) == {j \in D : B(j, k)}
            pos == Rank(l, f)
            h == [p \in D |-> CHOOSE k \in D : pos[k] = p]
            r == InOrder(l, f)
<1>1. Len(l) \in Nat
  OBVIOUS
<1>15. IsFiniteSet(D) /\ Cardinality(D) = Len(l)
  <2>1. Len(l) \in Int /\ 1 \in Int
    BY <1>1
  <2>2. IsFiniteSet(D) /\ Cardinality(D) = IF 1 > Len(l) THEN 0 ELSE Len(l) - 1 + 1
    BY <2>1, FS_Interval
  <2>. QED  BY <2>2, <1>1
<1>2. \A k \in D : l[k] \in T /\ f[l[k]] \in Int
  OBVIOUS
<1>3. pos = [k \in D |-> 1 + Cardinality(Pred(k))]
  BY DEF Rank
<1>16. \A j, k \in D : /\ B(j, k) => f[l[j]] <= f[l[k]]
                       /\ ~ (B(j, k) /\ B(k, j)) /\ ~ B(j, j)
                       /\ j # k => B(j, k) \/ B(k, j)
  <2>1. TAKE j, k \in D
  <2>2. f[l[j]] \in Int /\ f[l[k]] \in Int
    BY <1>2
  <2>3. B(j, k) => f[l[j]] <= f[l[k]]
    BY <2>2 DEF Before
  <2>4. ~ (B(j, k) /\ B(k, j)) /\ ~ B(j, j)
    BY <2>2 DEF Before
  <2>5. j # k => B(j, k) \/ B(k, j)
    <3>1. j \in Int /\ k \in Int
      BY <1>1
    <3>2. f[l[j]] < f[l[k]] \/ f[l[j]] = f[l[k]] \/ f[l[k]] < f[l[j]]
      BY <2>2
    <3>3. j # k => j < k \/ k < j
      BY <3>1
    <3>. QED  BY <3>2, <3>3 DEF Before
  <2>. QED  BY <2>3, <2>4, <2>5
<1>17. \A i, j, k \in D : B(i, j) /\ B(j, k) => B(i, k)
  BY <1>2 DEF Before
<1>18. r = [p \in D |-> l[h[p]]]
  BY DEF InOrder
<1>19. h = [p \in D |-> CHOOSE k \in D : pos[k] = p]
  OBVIOUS
<1>. HIDE DEF pos, B, h, r
<1>4. ASSUME NEW k \in D PROVE pos[k] \in D
  <2>1. Pred(k) \in SUBSET (D \ {k})
    BY <1>16
  <2>2. IsFiniteSet(D \ {k}) /\ Cardinality(D \ {k}) = Len(l) - 1
    BY <1>15, FS_RemoveElement
  <2>3. Cardinality(Pred(k)) \in Nat /\ Cardinality(Pred(k)) <= Len(l) - 1
    BY <2>1, <2>2, FS_Subset, FS_CardinalityType
  <2>. QED  BY <2>3, <1>1, <1>3
<1>5. ASSUME NEW j \in D, NEW k \in D, B(j, k) PROVE pos[j] < pos[k]
  <2>1. Pred(j) \in SUBSET Pred(k) /\ j \in Pred(k) /\ j \notin Pred(j)
    BY <1>5, <1>16, <1>17
  <2>2. IsFiniteSet(Pred(k)) /\ Cardinality(Pred(k)) \in Nat
    BY <1>15, FS_Subset, FS_CardinalityType
  <2>3. /\ Cardinality(Pred(j)) \in Nat /\ Cardinality(Pred(j)) <= Cardinality(Pred(k))
        /\ Cardinality(Pred(j)) # Cardinality(Pred(k))
    BY <2>1, <2>2, FS_Subset, FS_CardinalityType
  <2>. QED  BY <2>2, <2>3, <1>3
<1>6. \A j, k \in D : j # k => pos[j] # pos[k] /\ (B(j, k) \/ B(k, j))
  <2>1. TAKE j, k \in D
  <2>2. HAVE j # k
  <2>3. B(j, k) \/ B(k, j)
    BY <1>16, <2>2
  <2>4. pos[j] \in D /\ pos[k] \in D /\ (pos[j] < pos[k] \/ pos[k] < pos[j])
    BY <2>3, <1>4, <1>5
  <2>. QED  BY <2>3, <2>4
<1>7. pos \in Surjection(D, D)
  <2>1. pos \in [D -> D]
    BY <1>3, <1>4
  <2>2. pos \in Injection(D, D)
    <3>1. \A j, k \in D : pos[j] = pos[k] => j = k
      BY <1>6
    <3>. QED  BY <2>1, <3>1 DEF Injection, IsInjective
  <2>. QED  BY <2>2, <1>15, FS_Injection
<1>8. \A p \in D : h[p] \in D /\ pos[h[p]] = p
  BY <1>7, <1>19 DEF Surjection
<1>9. \A p \in D : r[p] = l[h[p]]
  BY <1>18
<1>10. \A k \in D : h[pos[k]] = k
  BY <1>4, <1>6, <1>8
<1>11. r \in Seq(T) /\ Len(r) = Len(l)
  <2>1. r \in [D -> T]
    BY <1>2, <1>8, <1>18
  <2>2. r \in Seq(T)
    BY <2>1, <1>1
  <2>3. DOMAIN r = 1..Len(r) /\ Len(r) \in Nat /\ DOMAIN r = 1..Len(l)
    BY <2>1, <2>2
  <2>. QED  BY <2>2, <2>3, <1>1
<1>12. Elements(r) = Elements(l)
  <2>1. \A p \in D : r[p] = l[h[p]] /\ h[p] \in D
    BY <1>8, <1>9
  <2>2. \A k \in D : l[k] = r[pos[k]] /\ pos[k] \in D
    BY <1>4, <1>9, <1>10
  <2>3. Elements(r) = {r[p] : p \in D}
    BY <1>11 DEF Elements
  <2>4. Elements(l) = {l[k] : k \in D}
    BY DEF Elements
  <2>. HIDE DEF D
  <2>. QED  BY <2>1, <2>2, <2>3, <2>4
<1>13. ASSUME Once(l) PROVE Once(r)
  <2>1. \A p \in D : h[p] \in D /\ pos[h[p]] = p /\ r[p] = l[h[p]]
    BY <1>8, <1>9
  <2>4. \A j, k \in D : l[j] = l[k] => j = k
    BY <1>13 DEF Once
  <2>. HIDE DEF D
  <2>2. \A p, q \in D : r[p] = r[q] => h[p] = h[q]
    BY <2>1, <2>4
  <2>3. \A p, q \in D : r[p] = r[q] => p = q
    BY <2>1, <2>2
  <2>. QED  BY <2>3, <1>11 DEF Once, D
<1>14. ASSUME NEW p \in D, NEW q \in D, p <= q PROVE f[r[p]] <= f[r[q]]
  <2>1. CASE p = q
    BY <2>1, <1>2, <1>8, <1>9
  <2>2. CASE p # q
    <3>1. ~ B(h[q], h[p])
      <4>1. h[q] \in D /\ h[p] \in D /\ pos[h[q]] = q /\ pos[h[p]] = p /\ ~ (q < p)
        BY <1>8, <1>14
      <4>. QED  BY <4>1, <1>5
    <3>2. f[l[h[p]]] <= f[l[h[q]]]
      <4>1. h[p] # h[q]
      BY <1>8, <2>2
    <4>. QED  BY <3>1, <4>1, <1>8, <1>16
    <3>. QED  BY <3>2, <1>9
  <2>. QED  BY <2>1, <2>2
<1>. QED  BY <1>11, <1>12, <1>13, <1>14 DEF Ordered, r

-----------------------------------------------------------------------------
(* Entries.                                                                *)

LEMMA Constants ==
  /\ Len(Types) \in Nat /\ Indices = 1..Len(Types) /\ 0 \notin Indices
  /\ IsFiniteSet(Indices) /\ IsFiniteSet(NameSet)
  /\ \A i \in Indices : Types[i] \in STRING
  /\ Len(IndexSeq) = Len(Types) /\ DOMAIN IndexSeq = 1..Len(Types)
  /\ \A i \in Indices : IndexSeq[i] = i
  /\ \A r \in rr_set_t : r # None
  /\ \A c \in dns_cent_t : c # None
  /\ \A n \in NameSet : n # None
<1>1. Len(Types) \in Nat /\ Indices = 1..Len(Types) /\ 0 \notin Indices
      /\ \A i \in Indices : Types[i] \in STRING
  BY CacheAssumption DEF Indices
<1>2. IsFiniteSet(Indices)
  BY <1>1, FS_Interval
<1>3. IsFiniteSet(NameSet)
  <2>1. Names \in [1..Len(Names) -> NameSet] /\ Len(Names) \in Nat
    BY CacheAssumption
  <2>2. Names \in Surjection(1..Len(Names), NameSet)
    BY <2>1 DEF Surjection, NameSet
  <2>3. IsFiniteSet(1..Len(Names))
    BY <2>1, FS_Interval
  <2>. QED  BY <2>2, <2>3, FS_Surjection
<1>4. IndexSeq \in Seq(Nat) /\ DOMAIN IndexSeq = 1..Len(Types) /\ Len(IndexSeq) = Len(Types)
      /\ \A i \in Indices : IndexSeq[i] = i
  <2>1. IndexSeq \in [1..Len(Types) -> Nat]
    BY <1>1 DEF IndexSeq
  <2>2. IndexSeq \in Seq(Nat)
    BY <1>1, <2>1
  <2>3. DOMAIN IndexSeq = 1..Len(IndexSeq) /\ Len(IndexSeq) \in Nat
    BY <2>2
  <2>. QED  BY <1>1, <2>1, <2>2, <2>3 DEF IndexSeq
<1>5. None \notin NameSet /\ None \notin rr_set_t /\ None \notin dns_cent_t
  BY CacheAssumption
<1>. QED  BY <1>1, <1>2, <1>3, <1>4, <1>5

SizeOf(r) == IF r = None THEN 0 ELSE SetSize(r)
Header(c) == CentSize + (IF c.rrext THEN ExtSize ELSE 0)

\* An entry of its type whose counts are right.
EntryOK(c) ==
  /\ c \in dns_cent_t /\ c.num_rrs = NumSets(c) /\ c.cs = Weight(c)
  /\ IsNeg(c) => \A i \in Indices : c.rr[i] = None

LEMMA SetSizeNat ==
  ASSUME NEW r \in rr_set_t \cup {None}
  PROVE  SizeOf(r) \in Nat /\ (r # None => r.rrs \subseteq Data /\ SetSize(r) = 1 + Cardinality(r.rrs)
                                           /\ Cardinality(r.rrs) \in Nat)
<1>1. CASE r = None
  BY <1>1 DEF SizeOf
<1>2. CASE r # None
  <2>1. r.rrs \subseteq Data
    BY <1>2 DEF rr_set_t
  <2>2. Cardinality(r.rrs) \in Nat
    BY <2>1, CacheAssumption, FS_Subset, FS_CardinalityType
  <2>. QED  BY <1>2, <2>1, <2>2 DEF SizeOf, SetSize
<1>. QED  BY <1>1, <1>2

LEMMA WeightNat ==
  ASSUME NEW c \in dns_cent_t
  PROVE  /\ Sizes(c) \in [Indices -> Int] /\ \A i \in Indices : Sizes(c)[i] = SizeOf(c.rr[i])
         /\ SumFunction(Sizes(c)) \in Nat /\ Header(c) \in Nat /\ Weight(c) \in Nat
         /\ Weight(c) = Header(c) + SumFunction(Sizes(c))
         /\ IsFiniteSet({i \in Indices : c.rr[i] # None}) /\ NumSets(c) \in Nat
<1>1. \A i \in Indices : c.rr[i] \in rr_set_t \cup {None}
  BY DEF dns_cent_t
<1>2. \A i \in Indices : SizeOf(c.rr[i]) \in Nat
  BY <1>1, SetSizeNat
<1>3. Sizes(c) = [i \in Indices |-> SizeOf(c.rr[i])]
  BY DEF Sizes, SizeOf
<1>4. Sizes(c) \in [Indices -> Int] /\ \A i \in Indices : Sizes(c)[i] = SizeOf(c.rr[i])
  BY <1>2, <1>3
<1>5. SumFunction(Sizes(c)) \in Nat
  BY <1>2, <1>4, Constants, SumNat
<1>6. Header(c) \in Nat /\ Weight(c) = Header(c) + SumFunction(Sizes(c))
  BY <1>5 DEF Header, Weight, CentSize, ExtSize
<1>7. IsFiniteSet({i \in Indices : c.rr[i] # None}) /\ NumSets(c) \in Nat
  BY Constants, FS_Subset, FS_CardinalityType DEF NumSets
<1>. QED  BY <1>4, <1>5, <1>6, <1>7

\* An entry with another set of type i.
LEMMA SetChange ==
  ASSUME NEW c \in dns_cent_t, NEW d \in dns_cent_t, NEW i \in Indices,
         \A j \in Indices : j # i => d.rr[j] = c.rr[j]
  PROVE  /\ Weight(d) - Header(d) = Weight(c) - Header(c) + (SizeOf(d.rr[i]) - SizeOf(c.rr[i]))
         /\ NumSets(d) = NumSets(c) + (IF d.rr[i] = None THEN 0 ELSE 1)
                                    - (IF c.rr[i] = None THEN 0 ELSE 1)
<1>1. \A j \in Indices : j # i => Sizes(d)[j] = Sizes(c)[j]
  BY WeightNat
<1>2. SumFunction(Sizes(d)) = SumFunction(Sizes(c)) + (Sizes(d)[i] - Sizes(c)[i])
  <2>1. Sizes(c) \in [Indices -> Int] /\ Sizes(d) \in [Indices -> Int] /\ IsFiniteSet(Indices)
    BY WeightNat, Constants
  <2>. QED  BY <1>1, <2>1, SumChange
<1>3. Sizes(d)[i] = SizeOf(d.rr[i]) /\ Sizes(c)[i] = SizeOf(c.rr[i])
      /\ SizeOf(d.rr[i]) \in Nat /\ SizeOf(c.rr[i]) \in Nat
  <2>1. c.rr[i] \in rr_set_t \cup {None} /\ d.rr[i] \in rr_set_t \cup {None}
    BY DEF dns_cent_t
  <2>. QED  BY <2>1, WeightNat, SetSizeNat
<1>4. Weight(d) - Header(d) = Weight(c) - Header(c) + (SizeOf(d.rr[i]) - SizeOf(c.rr[i]))
  <2>1. /\ Weight(c) = Header(c) + SumFunction(Sizes(c)) /\ Header(c) \in Nat
        /\ Weight(d) = Header(d) + SumFunction(Sizes(d)) /\ Header(d) \in Nat
        /\ SumFunction(Sizes(c)) \in Nat /\ SumFunction(Sizes(d)) \in Nat
    BY WeightNat
  <2>. QED  BY <1>2, <1>3, <2>1
<1>. DEFINE C == {j \in Indices : c.rr[j] # None}
            D == {j \in Indices : d.rr[j] # None}
<1>5. IsFiniteSet(C) /\ IsFiniteSet(D) /\ Cardinality(C) \in Nat /\ Cardinality(D) \in Nat
      /\ NumSets(c) = Cardinality(C) /\ NumSets(d) = Cardinality(D)
  BY WeightNat DEF NumSets
<1>6. C \ {i} = D \ {i} /\ (i \in C <=> c.rr[i] # None) /\ (i \in D <=> d.rr[i] # None)
  OBVIOUS
<1>. HIDE DEF C, D
<1>7. Cardinality(C \ {i}) = IF i \in C THEN Cardinality(C) - 1 ELSE Cardinality(C)
  BY <1>5, FS_RemoveElement
<1>8. Cardinality(D \ {i}) = IF i \in D THEN Cardinality(D) - 1 ELSE Cardinality(D)
  BY <1>5, FS_RemoveElement
<1>9. NumSets(d) = NumSets(c) + (IF d.rr[i] = None THEN 0 ELSE 1)
                              - (IF c.rr[i] = None THEN 0 ELSE 1)
  <2>1. Cardinality(C \ {i}) = Cardinality(D \ {i})
    BY <1>6
  <2>. QED  BY <2>1, <1>5, <1>6, <1>7, <1>8
<1>. QED  BY <1>4, <1>9

LEMMA SameSets ==
  ASSUME NEW c \in dns_cent_t, NEW d \in dns_cent_t, \A j \in Indices : d.rr[j] = c.rr[j]
  PROVE  Weight(d) - Header(d) = Weight(c) - Header(c) /\ NumSets(d) = NumSets(c)
<1>1. Sizes(d) = Sizes(c)
  BY DEF Sizes
<1>2. NumSets(d) = NumSets(c)
  BY DEF NumSets
<1>3. /\ Weight(c) = Header(c) + SumFunction(Sizes(c)) /\ Header(c) \in Nat
      /\ Weight(d) = Header(d) + SumFunction(Sizes(d)) /\ Header(d) \in Nat
      /\ SumFunction(Sizes(c)) \in Nat
  BY WeightNat
<1>. QED  BY <1>1, <1>2, <1>3

LEMMA NoSets ==
  ASSUME NEW c \in dns_cent_t
  PROVE  /\ NumSets(c) = 0 <=> \A i \in Indices : c.rr[i] = None
         /\ (\A i \in Indices : c.rr[i] = None) => Weight(c) = Header(c)
<1>1. NumSets(c) = 0 <=> {i \in Indices : c.rr[i] # None} = {}
  BY WeightNat, FS_EmptySet DEF NumSets
<1>2. ASSUME \A i \in Indices : c.rr[i] = None PROVE Weight(c) = Header(c)
  <2>1. Sizes(c) = [i \in Indices |-> 0]
    BY <1>2 DEF Sizes
  <2>2. SumFunction([i \in Indices |-> 0]) = 0
    BY Constants, SumZero
  <2>3. Weight(c) = Header(c) + 0 /\ Header(c) \in Nat
    BY <2>1, <2>2, WeightNat
  <2>. QED  BY <2>3
<1>. QED  BY <1>1, <1>2

\* An entry that gets a set, or loses one.
LEMMA WithSet ==
  ASSUME NEW c, EntryOK(c), NEW d \in dns_cent_t, NEW i \in Indices,
         c.rr[i] = None, d.rr[i] # None, \A j \in Indices : j # i => d.rr[j] = c.rr[j],
         d.num_rrs = c.num_rrs + 1, ~ IsNeg(d),
         d.cs = c.cs + (Header(d) - Header(c)) + SetSize(d.rr[i])
  PROVE  EntryOK(d)
<1>1. c \in dns_cent_t /\ c.num_rrs = NumSets(c) /\ c.cs = Weight(c)
  BY DEF EntryOK
<1>2. /\ Weight(d) - Header(d) = Weight(c) - Header(c) + (SizeOf(d.rr[i]) - SizeOf(c.rr[i]))
      /\ NumSets(d) = NumSets(c) + 1 - 0
  BY <1>1, SetChange
<1>3. SizeOf(c.rr[i]) = 0 /\ SizeOf(d.rr[i]) = SetSize(d.rr[i]) /\ SetSize(d.rr[i]) \in Nat
  <2>1. d.rr[i] \in rr_set_t
    BY DEF dns_cent_t
  <2>. QED  BY <2>1, SetSizeNat DEF SizeOf
<1>4. /\ Weight(c) \in Nat /\ Weight(d) \in Nat /\ Header(c) \in Nat /\ Header(d) \in Nat
      /\ NumSets(c) \in Nat /\ NumSets(d) \in Nat
  BY <1>1, WeightNat
<1>5. d.cs = Weight(d)
  BY <1>1, <1>2, <1>3, <1>4
<1>6. d.num_rrs = NumSets(d)
  BY <1>1, <1>2, <1>4
<1>. QED  BY <1>5, <1>6 DEF EntryOK

LEMMA WithoutSet ==
  ASSUME NEW c, EntryOK(c), NEW d \in dns_cent_t, NEW i \in Indices,
         c.rr[i] # None, d.rr[i] = None, \A j \in Indices : j # i => d.rr[j] = c.rr[j],
         d.num_rrs = c.num_rrs - 1, IsNeg(d) => IsNeg(c),
         d.cs = c.cs + (Header(d) - Header(c)) - SetSize(c.rr[i])
  PROVE  EntryOK(d)
<1>1. c \in dns_cent_t /\ c.num_rrs = NumSets(c) /\ c.cs = Weight(c)
  BY DEF EntryOK
<1>2. /\ Weight(d) - Header(d) = Weight(c) - Header(c) + (SizeOf(d.rr[i]) - SizeOf(c.rr[i]))
      /\ NumSets(d) = NumSets(c) + 0 - 1
  BY <1>1, SetChange
<1>3. SizeOf(d.rr[i]) = 0 /\ SizeOf(c.rr[i]) = SetSize(c.rr[i]) /\ SetSize(c.rr[i]) \in Nat
  <2>1. c.rr[i] \in rr_set_t
    BY <1>1 DEF dns_cent_t
  <2>. QED  BY <2>1, SetSizeNat DEF SizeOf
<1>4. /\ Weight(c) \in Nat /\ Weight(d) \in Nat /\ Header(c) \in Nat /\ Header(d) \in Nat
      /\ NumSets(c) \in Nat /\ NumSets(d) \in Nat
  BY <1>1, WeightNat
<1>5. d.cs = Weight(d)
  BY <1>1, <1>2, <1>3, <1>4
<1>6. d.num_rrs = NumSets(d)
  BY <1>1, <1>2, <1>4
<1>7. IsNeg(d) => \A j \in Indices : d.rr[j] = None
  BY DEF EntryOK
<1>. QED  BY <1>5, <1>6, <1>7 DEF EntryOK

\* An entry whose sets are the same, or changed in their time and flags.
LEMMA WithSameSets ==
  ASSUME NEW c, EntryOK(c), NEW d \in dns_cent_t,
         \A i \in Indices : \/ d.rr[i] = c.rr[i]
                            \/ d.rr[i] # None /\ c.rr[i] # None /\ d.rr[i].rrs = c.rr[i].rrs,
         d.num_rrs = c.num_rrs, d.cs = c.cs + (Header(d) - Header(c)), IsNeg(d) => IsNeg(c)
  PROVE  EntryOK(d)
<1>1. c \in dns_cent_t /\ c.num_rrs = NumSets(c) /\ c.cs = Weight(c)
  BY DEF EntryOK
<1>2. Sizes(d) = Sizes(c)
  BY DEF Sizes, SetSize
<1>3. NumSets(d) = NumSets(c)
  <2>1. {i \in Indices : d.rr[i] # None} = {i \in Indices : c.rr[i] # None}
    OBVIOUS
  <2>. QED  BY <2>1 DEF NumSets
<1>4. /\ Weight(c) = Header(c) + SumFunction(Sizes(c)) /\ Header(c) \in Nat
      /\ Weight(d) = Header(d) + SumFunction(Sizes(d)) /\ Header(d) \in Nat
      /\ SumFunction(Sizes(c)) \in Nat
  BY <1>1, WeightNat
<1>5. d.cs = Weight(d)
  BY <1>1, <1>2, <1>4
<1>6. IsNeg(d) => \A j \in Indices : d.rr[j] = None
  BY DEF EntryOK
<1>. QED  BY <1>1, <1>3, <1>5, <1>6 DEF EntryOK

\* add_cent_rrset_by_index and add_cent_rr_int, field by field.
LEMMA AddIndexIs ==
  ASSUME NEW c \in dns_cent_t, NEW i \in Indices,
         NEW ttl \in Int, NEW ts \in Int, NEW flags \in SUBSET Flags
  PROVE  LET d == add_cent_rrset_by_index(c, i, ttl, ts, flags)
         IN  /\ d \in dns_cent_t /\ d.flags = c.flags \ {"NEGATIVE"} /\ d.ref = c.ref
             /\ d.ttl = 0 /\ d.ts = 0
             /\ d.rr[i] = [ttl |-> ttl, ts |-> ts, flags |-> flags, rrs |-> {}]
             /\ \A j \in Indices : j # i => d.rr[j] = c.rr[j]
             /\ d.num_rrs = c.num_rrs + 1 /\ (c.rrext => d.rrext)
             /\ d.rrext = (c.rrext \/ Types[i] \in Ext)
             /\ d.cs = c.cs + (Header(d) - Header(c)) + 1
<1>. DEFINE alloc == Types[i] \in Ext /\ ~ c.rrext
            r == [ttl |-> ttl, ts |-> ts, flags |-> flags, rrs |-> {}]
<1>1. r \in rr_set_t
  BY DEF rr_set_t
<1>. HIDE DEF r
<1>2. PICK d : d = [c EXCEPT !.flags = @ \ {"NEGATIVE"}, !.ttl = 0, !.ts = 0,
                             !.rr[i] = r, !.rrext = @ \/ alloc,
                             !.cs = @ + 1 + (IF alloc THEN ExtSize ELSE 0),
                             !.num_rrs = @ + 1]
  OBVIOUS
<1>3. d = add_cent_rrset_by_index(c, i, ttl, ts, flags)
  BY <1>2 DEF add_cent_rrset_by_index, r
<1>. HIDE DEF alloc
<1>4. /\ c.flags \subseteq Flags /\ c.cs \in Int /\ c.num_rrs \in Int
      /\ c.rr \in [Indices -> rr_set_t \cup {None}] /\ c.rrext \in BOOLEAN
  BY DEF dns_cent_t
<1>5. /\ d.flags = c.flags \ {"NEGATIVE"} /\ d.ref = c.ref /\ d.ttl = 0 /\ d.ts = 0
      /\ d.rr = [c.rr EXCEPT ![i] = r] /\ d.num_rrs = c.num_rrs + 1
      /\ d.cs = c.cs + 1 + (IF alloc THEN ExtSize ELSE 0)
  BY <1>2 DEF dns_cent_t
<1>6. d.rrext = (c.rrext \/ alloc)
  BY <1>2 DEF dns_cent_t
<1>7. d.rr \in [Indices -> rr_set_t \cup {None}]
  BY <1>1, <1>4, <1>5
<1>8. d \in dns_cent_t
  <2>1. d.cs \in Int /\ d.num_rrs \in Int /\ d.flags \subseteq Flags
    BY <1>4, <1>5 DEF ExtSize
  <2>2. d.rrext \in BOOLEAN
    BY <1>6
  <2>3. d = [cs |-> d.cs, num_rrs |-> d.num_rrs, flags |-> d.flags, ttl |-> d.ttl,
             ts |-> d.ts, rr |-> d.rr, rrext |-> d.rrext, ref |-> d.ref]
    BY <1>2 DEF dns_cent_t
  <2>4. d.ref \in [{"NS", "SOA"} -> NameSet \cup {None}] /\ d.ttl \in Int /\ d.ts \in Int
    BY <1>5 DEF dns_cent_t
  <2>. QED  BY <2>1, <2>2, <2>3, <2>4, <1>7 DEF dns_cent_t
<1>9. d.cs = c.cs + (Header(d) - Header(c)) + 1
  <2>1. CASE alloc
    <3>1. d.rrext = TRUE /\ c.rrext = FALSE
      BY <1>4, <1>6, <2>1 DEF alloc
    <3>. QED  BY <3>1, <2>1, <1>4, <1>5 DEF Header, CentSize, ExtSize
  <2>2. CASE ~ alloc
    <3>1. d.rrext = c.rrext
      BY <1>4, <1>6, <2>2
    <3>2. Header(d) = Header(c) /\ Header(c) \in Int
      BY <3>1 DEF Header, CentSize, ExtSize
    <3>. QED  BY <3>2, <2>2, <1>4, <1>5
  <2>. QED  BY <2>1, <2>2
<1>. QED  BY <1>3, <1>4, <1>5, <1>6, <1>8, <1>9 DEF alloc, r

LEMMA RecordsIs ==
  ASSUME NEW c \in dns_cent_t, NEW i \in Indices, c.rr[i] # None, c.rr[i].rrs = {},
         NEW rrs \in SUBSET Data
  PROVE  LET d == add_cent_rr_int(c, i, rrs)
         IN  /\ d \in dns_cent_t /\ d.flags = c.flags /\ d.ref = c.ref
             /\ d.ttl = c.ttl /\ d.ts = c.ts /\ d.num_rrs = c.num_rrs /\ d.rrext = c.rrext
             /\ d.rr[i] # None /\ d.rr[i].ttl = c.rr[i].ttl /\ d.rr[i].ts = c.rr[i].ts
             /\ d.rr[i].flags = c.rr[i].flags /\ d.rr[i].rrs = rrs
             /\ \A j \in Indices : j # i => d.rr[j] = c.rr[j]
             /\ d.cs = c.cs + Cardinality(rrs)
<1>1. c.rr \in [Indices -> rr_set_t \cup {None}] /\ c.rr[i] \in rr_set_t /\ c.cs \in Int
  BY DEF dns_cent_t
<1>2. PICK r : r = [c.rr[i] EXCEPT !.rrs = @ \cup rrs]
  OBVIOUS
<1>3. /\ r \in rr_set_t /\ r.ttl = c.rr[i].ttl /\ r.ts = c.rr[i].ts
      /\ r.flags = c.rr[i].flags /\ r.rrs = rrs
  BY <1>1, <1>2 DEF rr_set_t
<1>4. Cardinality(rrs) \in Nat
  BY CacheAssumption, FS_Subset, FS_CardinalityType
<1>5. PICK d : d = [c EXCEPT !.rr[i] = r, !.cs = @ + Cardinality(rrs)]
  OBVIOUS
<1>6. d = add_cent_rr_int(c, i, rrs)
  BY <1>1, <1>2, <1>5 DEF add_cent_rr_int, dns_cent_t
<1>7. /\ d.rr = [c.rr EXCEPT ![i] = r] /\ d.cs = c.cs + Cardinality(rrs)
      /\ d.flags = c.flags /\ d.ref = c.ref /\ d.ttl = c.ttl /\ d.ts = c.ts
      /\ d.num_rrs = c.num_rrs /\ d.rrext = c.rrext
  BY <1>5 DEF dns_cent_t
<1>8. d.rr \in [Indices -> rr_set_t \cup {None}] /\ d.cs \in Int
  BY <1>1, <1>3, <1>4, <1>7
<1>9. d \in dns_cent_t
  BY <1>5, <1>8 DEF dns_cent_t
<1>10. r # None
  BY <1>3, Constants
<1>. QED  BY <1>1, <1>3, <1>6, <1>7, <1>9, <1>10

LEMMA AddSetIs ==
  ASSUME NEW c, EntryOK(c), NEW i \in Indices, c.rr[i] = None, NEW r \in rr_set_t
  PROVE  LET d == AddSet(c, i, r)
         IN  /\ EntryOK(d) /\ d.flags = c.flags \ {"NEGATIVE"} /\ d.ref = c.ref
             /\ d.rr[i] # None /\ d.rr[i].flags = r.flags
             /\ \A j \in Indices : j # i => d.rr[j] = c.rr[j]
<1>1. c \in dns_cent_t /\ r # None
  BY Constants DEF EntryOK
<1>2. r.ttl \in Int /\ r.ts \in Int /\ r.flags \in SUBSET Flags /\ r.rrs \in SUBSET Data
  BY DEF rr_set_t
<1>3. PICK e : e = add_cent_rrset_by_index(c, i, r.ttl, r.ts, r.flags)
  OBVIOUS
<1>4. /\ e \in dns_cent_t /\ e.flags = c.flags \ {"NEGATIVE"} /\ e.ref = c.ref
      /\ e.rr[i] = [ttl |-> r.ttl, ts |-> r.ts, flags |-> r.flags, rrs |-> {}]
      /\ \A j \in Indices : j # i => e.rr[j] = c.rr[j]
      /\ e.num_rrs = c.num_rrs + 1
      /\ e.cs = c.cs + (Header(e) - Header(c)) + 1
  BY <1>1, <1>2, <1>3, AddIndexIs
<1>5. e.rr[i] \in rr_set_t /\ e.rr[i] # None /\ e.rr[i].rrs = {} /\ e.rr[i].flags = r.flags
  <2>1. e.rr[i] \in rr_set_t
    BY <1>2, <1>4 DEF rr_set_t
  <2>2. e.rr[i].rrs = {} /\ e.rr[i].flags = r.flags
    BY <1>4
  <2>. QED  BY <2>1, <2>2, Constants
<1>6. ~ IsNeg(e)
  BY <1>4 DEF IsNeg
<1>7. CASE "LOCAL" \in e.flags /\ "LOCAL" \notin r.flags
  <2>1. AddSet(c, i, r) = e
    BY <1>1, <1>3, <1>7 DEF AddSet, add_cent_rr
  <2>2. SetSize(e.rr[i]) = 1
    BY <1>5, FS_EmptySet DEF SetSize
  <2>3. EntryOK(e)
    BY <1>4, <1>5, <1>6, <2>2, WithSet
  <2>. QED  BY <2>1, <2>3, <1>4, <1>5
<1>8. CASE ~ ("LOCAL" \in e.flags /\ "LOCAL" \notin r.flags)
  <2>1. PICK d : d = add_cent_rr_int(e, i, r.rrs)
    OBVIOUS
  <2>2. AddSet(c, i, r) = d
    <3>1. r.rrs \ e.rr[i].rrs = r.rrs
      BY <1>5
    <3>. QED  BY <1>1, <1>3, <1>8, <2>1, <3>1 DEF AddSet, add_cent_rr
  <2>3. /\ d \in dns_cent_t /\ d.flags = e.flags /\ d.ref = e.ref
        /\ d.num_rrs = e.num_rrs /\ d.rrext = e.rrext
        /\ d.rr[i] # None /\ d.rr[i].flags = e.rr[i].flags /\ d.rr[i].rrs = r.rrs
        /\ \A j \in Indices : j # i => d.rr[j] = e.rr[j]
        /\ d.cs = e.cs + Cardinality(r.rrs)
    BY <1>2, <1>4, <1>5, <2>1, RecordsIs
  <2>4. Header(d) = Header(e) /\ ~ IsNeg(d)
    BY <2>3, <1>6 DEF Header, IsNeg
  <2>5. SetSize(d.rr[i]) = 1 + Cardinality(r.rrs) /\ Cardinality(r.rrs) \in Nat
    BY <2>3, <1>2, CacheAssumption, FS_Subset, FS_CardinalityType DEF SetSize
  <2>6. d.cs = c.cs + (Header(d) - Header(c)) + SetSize(d.rr[i])
    <3>1. c.cs \in Int /\ Header(c) \in Nat /\ Header(d) \in Nat
      BY <1>1, <2>3, WeightNat DEF dns_cent_t
    <3>. QED  BY <3>1, <2>3, <2>4, <2>5, <1>4
  <2>7. EntryOK(d)
    BY <2>3, <2>4, <2>6, <1>4, WithSet
  <2>. QED  BY <2>2, <2>3, <2>7, <1>4, <1>5
<1>. QED  BY <1>7, <1>8

\* What Assemble begins with.
Fresh(flags, ttl, ts, ref) == [init_cent(flags, ttl, ts) EXCEPT !.ref = ref]

StartsWith(c, flags, ref) ==
  EntryOK(c) /\ c.flags = flags /\ c.ref = ref /\ \A i \in Indices : c.rr[i] = None

LEMMA InitIs ==
  ASSUME NEW flags \in SUBSET Flags, NEW ttl \in Int, NEW ts \in Int,
         NEW ref \in [{"NS", "SOA"} -> NameSet \cup {None}]
  PROVE  StartsWith(Fresh(flags, ttl, ts, ref), flags, ref)
<1>1. PICK c : c = Fresh(flags, ttl, ts, ref)
  OBVIOUS
<1>2. c = [cs |-> CentSize, num_rrs |-> 0, flags |-> flags,
           ttl |-> IF "NEGATIVE" \in flags THEN ttl ELSE 0,
           ts |-> IF "NEGATIVE" \in flags THEN ts ELSE 0,
           rr |-> [i \in Indices |-> None], rrext |-> FALSE, ref |-> ref]
  BY <1>1 DEF init_cent, Fresh
<1>3. c \in dns_cent_t
  BY <1>2 DEF dns_cent_t, CentSize
<1>4. /\ c.flags = flags /\ c.ref = ref /\ c.num_rrs = 0 /\ c.cs = CentSize
      /\ ~ c.rrext /\ \A i \in Indices : c.rr[i] = None
  BY <1>2
<1>5. NumSets(c) = 0 /\ Weight(c) = Header(c) /\ Header(c) = CentSize
  <2>1. NumSets(c) = 0 /\ Weight(c) = Header(c)
    BY <1>3, <1>4, NoSets
  <2>. QED  BY <2>1, <1>4 DEF Header, CentSize
<1>. QED  BY <1>1, <1>2, <1>3, <1>4, <1>5 DEF EntryOK, StartsWith

LEMMA AssembleSteps ==
  ASSUME NEW flags, NEW ttl, NEW ts, NEW ref, NEW sets
  PROVE  \E F : /\ F[0] = Fresh(flags, ttl, ts, ref) /\ Assemble(flags, ttl, ts, ref, sets) = F[Len(Types)]
                /\ \A k \in 1..Len(Types) : F[k] = AddSet(F[k - 1], IndexSeq[k], sets[IndexSeq[k]])
<1>. DEFINE Op(u, y) == AddSet(u, IndexSeq[y], sets[IndexSeq[y]])
            Value(G, x) == IF x = {} THEN Fresh(flags, ttl, ts, ref) ELSE Op(G[x \ {Max(x)}], Max(x))
            Rec(G, D) == G = [x \in SUBSET D |-> Value(G, x)]
            Is(k) == \E G : Rec(G, 1..k)
            S == {k \in Nat : Is(k)}
<1>0. Len(Types) \in Nat
  BY Constants
<1>1. Assemble(flags, ttl, ts, ref, sets) = (CHOOSE G : Rec(G, 1..Len(Types)))[1..Len(Types)]
  BY Constants DEF Assemble, Fresh, FoldLeft, MapThenFoldSet
<1>. HIDE DEF Op
<1>2. 0 \in S
  <2>. DEFINE G == [x \in SUBSET (1..0) |-> Fresh(flags, ttl, ts, ref)]
  <2>1. \A x \in SUBSET (1..0) : Value(G, x) = Fresh(flags, ttl, ts, ref)
    OBVIOUS
  <2>2. Is(0)
    BY <2>1
  <2>. HIDE DEF Is
  <2>. QED  BY <2>2
<1>3. ASSUME NEW k \in Nat, k \in S PROVE k + 1 \in S
  <2>1. PICK G : Rec(G, 1..k)
    BY <1>3
  <2>. DEFINE H == [x \in SUBSET (1..(k + 1)) |-> IF k + 1 \in x THEN Value(G, x) ELSE G[x]]
  <2>2. ASSUME NEW x \in SUBSET (1..(k + 1)) PROVE H[x] = Value(H, x)
    <3>1. CASE x = {}
      BY <3>1, <2>1
    <3>2. CASE x # {}
      <4>1. x \ {Max(x)} \in SUBSET (1..k) /\ H[x \ {Max(x)}] = G[x \ {Max(x)}]
        BY <3>2, UpTo
      <4>2. H[x] = Value(G, x)
        BY <2>1, <3>2, UpTo
      <4>. QED  BY <4>1, <4>2, <3>2
    <3>. QED  BY <3>1, <3>2
  <2>3. Rec(H, 1..(k + 1))
    BY <2>2
  <2>. HIDE DEF H
  <2>4. Is(k + 1)
    BY <2>3
  <2>. HIDE DEF Is
  <2>. QED  BY <2>4
<1>4. Len(Types) \in S
  <2>. HIDE DEF S
  <2>. QED  BY <1>0, <1>2, <1>3, Induction
<1>5. PICK G : Rec(G, 1..Len(Types)) /\ Assemble(flags, ttl, ts, ref, sets) = G[1..Len(Types)]
  BY <1>1, <1>4
<1>. DEFINE F == [k \in 0..Len(Types) |-> G[1..k]]
<1>6. ASSUME NEW k \in 1..Len(Types) PROVE F[k] = Op(F[k - 1], k)
  <2>1. PICK j \in Nat : k = j + 1
    <3>1. k - 1 \in Nat /\ k = (k - 1) + 1
      BY <1>0
    <3>. QED  BY <3>1
  <2>2. 1..k \in SUBSET (1..Len(Types)) /\ F[k] = G[1..k] /\ F[k - 1] = G[1..j]
    BY <1>0, <2>1
  <2>3. G[1..k] = Value(G, 1..k)
    BY <2>2, <1>5
  <2>4. 1..k # {} /\ Max(1..k) = k /\ (1..k) \ {k} = 1..j
    BY <2>1, UpTo
  <2>. QED  BY <2>2, <2>3, <2>4
<1>7. F[0] = Fresh(flags, ttl, ts, ref)
  BY <1>0, <1>5
<1>8. F[Len(Types)] = Assemble(flags, ttl, ts, ref, sets)
  BY <1>0, <1>5
<1>. HIDE DEF F
<1>. QED  BY <1>6, <1>7, <1>8 DEF Op

\* An entry put together has the sets it is put together from.
PutTogether(c, flags, ref, sets) ==
  /\ EntryOK(c) /\ c.ref = ref
  /\ c.flags = IF \A i \in Indices : sets[i] = None THEN flags ELSE flags \ {"NEGATIVE"}
  /\ \A i \in Indices : /\ c.rr[i] = None <=> sets[i] = None
                        /\ c.rr[i] # None => c.rr[i].flags = sets[i].flags

LEMMA AssembleIs ==
  ASSUME NEW flags \in SUBSET Flags, NEW ttl \in Int, NEW ts \in Int,
         NEW ref \in [{"NS", "SOA"} -> NameSet \cup {None}],
         NEW sets \in [Indices -> rr_set_t \cup {None}]
  PROVE  PutTogether(Assemble(flags, ttl, ts, ref, sets), flags, ref, sets)
<1>1. PICK F : /\ F[0] = Fresh(flags, ttl, ts, ref)
               /\ Assemble(flags, ttl, ts, ref, sets) = F[Len(Types)]
               /\ \A k \in 1..Len(Types) :
                     F[k] = AddSet(F[k - 1], IndexSeq[k], sets[IndexSeq[k]])
  BY AssembleSteps
<1>. DEFINE Is(c, k) == /\ EntryOK(c) /\ c.ref = ref
                        /\ c.flags = IF \A i \in 1..k : sets[i] = None THEN flags
                                     ELSE flags \ {"NEGATIVE"}
                        /\ \A i \in Indices :
                             IF i <= k
                             THEN /\ c.rr[i] = None <=> sets[i] = None
                                  /\ c.rr[i] # None => c.rr[i].flags = sets[i].flags
                             ELSE c.rr[i] = None
            S == {k \in Nat : k <= Len(Types) => Is(F[k], k)}
<1>2. 0 \in S
  <2>1. /\ EntryOK(F[0]) /\ F[0].flags = flags /\ F[0].ref = ref
        /\ \A i \in Indices : F[0].rr[i] = None
    <3>1. StartsWith(F[0], flags, ref)
      BY <1>1, InitIs
    <3>. QED  BY <3>1 DEF StartsWith
  <2>2. \A i \in Indices : ~ (i <= 0)
    BY Constants
  <2>3. Is(F[0], 0)
    BY <2>1, <2>2
  <2>. HIDE DEF Is
  <2>. QED  BY <2>3
<1>3. ASSUME NEW k \in Nat, k \in S PROVE k + 1 \in S
  <2>1. SUFFICES ASSUME k + 1 <= Len(Types) PROVE Is(F[k + 1], k + 1)
    OBVIOUS
  <2>2. k + 1 \in Indices /\ k <= Len(Types) /\ (k + 1) - 1 = k
    BY <2>1, Constants
  <2>3. Is(F[k], k)
    BY <1>3, <2>2
  <2>4. F[k + 1] = AddSet(F[k], k + 1, sets[k + 1])
    BY <1>1, <2>2, Constants
  <2>5. \A i \in Indices : i <= k + 1 <=> i <= k \/ i = k + 1
    BY Constants
  <2>6. \A i \in 1..(k + 1) : i \in 1..k \/ i = k + 1
    OBVIOUS
  <2>7. k + 1 \in 1..(k + 1) /\ 1..k \subseteq 1..(k + 1) /\ ~ (k + 1 <= k)
    OBVIOUS
  <2>8. CASE sets[k + 1] = None
    <3>1. F[k + 1] = F[k]
      BY <2>4, <2>8 DEF AddSet
    <3>2. (\A i \in 1..(k + 1) : sets[i] = None) <=> (\A i \in 1..k : sets[i] = None)
      BY <2>6, <2>7, <2>8
    <3>3. F[k].rr[k + 1] = None
      BY <2>2, <2>3, <2>7
    <3>. QED  BY <2>2, <2>3, <2>5, <2>8, <3>1, <3>2, <3>3
  <2>9. CASE sets[k + 1] # None
    <3>1. sets[k + 1] \in rr_set_t /\ EntryOK(F[k]) /\ F[k].rr[k + 1] = None
      BY <2>2, <2>3, <2>7, <2>9
    <3>2. /\ EntryOK(F[k + 1]) /\ F[k + 1].flags = F[k].flags \ {"NEGATIVE"}
          /\ F[k + 1].ref = F[k].ref
          /\ F[k + 1].rr[k + 1] # None /\ F[k + 1].rr[k + 1].flags = sets[k + 1].flags
          /\ \A j \in Indices : j # k + 1 => F[k + 1].rr[j] = F[k].rr[j]
      BY <2>2, <2>4, <3>1, AddSetIs
    <3>3. ~ (\A i \in 1..(k + 1) : sets[i] = None)
      BY <2>7, <2>9
    <3>4. F[k + 1].flags = flags \ {"NEGATIVE"}
      BY <2>3, <3>2
    <3>5. ASSUME NEW i \in Indices
          PROVE  IF i <= k + 1
                 THEN /\ F[k + 1].rr[i] = None <=> sets[i] = None
                      /\ F[k + 1].rr[i] # None => F[k + 1].rr[i].flags = sets[i].flags
                 ELSE F[k + 1].rr[i] = None
      <4>1. CASE i = k + 1
        BY <4>1, <3>2, <2>5, <2>9
      <4>2. CASE i # k + 1
        BY <4>2, <3>2, <2>3, <2>5
      <4>. QED  BY <4>1, <4>2
    <3>. QED  BY <2>3, <3>2, <3>3, <3>4, <3>5
  <2>. QED  BY <2>8, <2>9
<1>4. Len(Types) \in S
  <2>. HIDE DEF S
  <2>. QED  BY <1>2, <1>3, Constants, Induction
<1>5. Is(F[Len(Types)], Len(Types))
  BY <1>4, Constants
<1>6. \A i \in Indices : i <= Len(Types) /\ i \in 1..Len(Types)
  BY Constants
<1>7. (\A i \in 1..Len(Types) : sets[i] = None) <=> (\A i \in Indices : sets[i] = None)
  BY Constants
<1>. QED  BY <1>1, <1>5, <1>6, <1>7 DEF PutTogether

\* A set, or an entry, as adjust_ttl leaves it.
LEMMA AdjustedSet ==
  ASSUME NEW r \in rr_set_t
  PROVE  /\ adjust_ttl(r) \in rr_set_t /\ adjust_ttl(r) # None
         /\ adjust_ttl(r).rrs = r.rrs /\ adjust_ttl(r).ts = r.ts
         /\ \A f : f # "NOCACHE" => (f \in adjust_ttl(r).flags <=> f \in r.flags)
<1>1. Min_ttl \in Int /\ Max_ttl \in Int /\ Neg_ttl \in Int
  BY CacheAssumption
<1>2. r.ttl \in Int /\ r.flags \subseteq Flags
  BY DEF rr_set_t
<1>. DEFINE W(g, t) == [r EXCEPT !.flags = g, !.ttl = t]
<1>. HIDE DEF W
<1>3. PICK g \in SUBSET Flags, t \in Int :
        /\ adjust_ttl(r) = W(g, t)
        /\ \A f : f # "NOCACHE" => (f \in g <=> f \in r.flags)
  <2>1. CASE "NOCACHE" \in r.flags
    <3>1. PICK g : g = r.flags \ {"NOCACHE"}
      OBVIOUS
    <3>2. adjust_ttl(r) = W(g, 0)
      BY <2>1, <3>1 DEF W, adjust_ttl, Adjust
    <3>3. g \in SUBSET Flags /\ \A f : f # "NOCACHE" => (f \in g <=> f \in r.flags)
      BY <3>1, <1>2
    <3>. QED  BY <3>2, <3>3
  <2>2. CASE "NOCACHE" \notin r.flags
    <3>1. \E t \in Int : adjust_ttl(r) = [r EXCEPT !.ttl = t]
      BY <2>2, <1>1, <1>2 DEF adjust_ttl, Adjust
    <3>2. PICK t \in Int : adjust_ttl(r) = [r EXCEPT !.ttl = t]
      BY <3>1
    <3>3. [r EXCEPT !.ttl = t] = W(r.flags, t)
      BY DEF rr_set_t, W
    <3>. QED  BY <3>2, <3>3, <1>2
  <2>. QED  BY <2>1, <2>2
<1>4. PICK d : d = adjust_ttl(r)
  OBVIOUS
<1>5. d \in rr_set_t /\ d.rrs = r.rrs /\ d.ts = r.ts /\ d.flags = g
  BY <1>3, <1>4 DEF rr_set_t, W
<1>6. d # None
  BY <1>5, Constants
<1>. QED  BY <1>3, <1>4, <1>5, <1>6

\* What adjust_dom_ttl leaves of a negative entry.
Negated(d, c) ==
  /\ EntryOK(d) /\ d.rr = c.rr /\ d.ts = c.ts
  /\ \A f : f # "NOCACHE" => (f \in d.flags <=> f \in c.flags)

LEMMA AdjustedEntry ==
  ASSUME NEW c, EntryOK(c), IsNeg(c)
  PROVE  Negated(adjust_dom_ttl(c), c)
<1>1. Min_ttl \in Int /\ Max_ttl \in Int /\ Neg_ttl \in Int
  BY CacheAssumption
<1>2. c \in dns_cent_t /\ c.ttl \in Int /\ c.flags \subseteq Flags
  BY DEF EntryOK, dns_cent_t
<1>. DEFINE W(g, t) == [c EXCEPT !.flags = g, !.ttl = t]
<1>. HIDE DEF W
<1>3. PICK g \in SUBSET Flags, t \in Int :
        /\ adjust_dom_ttl(c) = W(g, t)
        /\ \A f : f # "NOCACHE" => (f \in g <=> f \in c.flags)
  <2>1. CASE "NOCACHE" \in c.flags
    <3>1. PICK g : g = c.flags \ {"NOCACHE"}
      OBVIOUS
    <3>2. adjust_dom_ttl(c) = W(g, 0)
      BY <2>1, <3>1 DEF W, adjust_dom_ttl, Adjust
    <3>3. g \in SUBSET Flags /\ \A f : f # "NOCACHE" => (f \in g <=> f \in c.flags)
      BY <3>1, <1>2
    <3>. QED  BY <3>2, <3>3
  <2>2. CASE "NOCACHE" \notin c.flags
    <3>1. \E t \in Int : adjust_dom_ttl(c) = [c EXCEPT !.ttl = t]
      BY <2>2, <1>1, <1>2 DEF adjust_dom_ttl, Adjust
    <3>2. PICK t \in Int : adjust_dom_ttl(c) = [c EXCEPT !.ttl = t]
      BY <3>1
    <3>3. [c EXCEPT !.ttl = t] = W(c.flags, t)
      BY <1>2 DEF dns_cent_t, W
    <3>. QED  BY <3>2, <3>3, <1>2
  <2>. QED  BY <2>1, <2>2
<1>4. PICK d : d = W(g, t)
  OBVIOUS
<1>5. /\ d \in dns_cent_t /\ d.rr = c.rr /\ d.ts = c.ts /\ d.flags = g
      /\ d.num_rrs = c.num_rrs /\ d.cs = c.cs /\ d.rrext = c.rrext
  BY <1>2, <1>3, <1>4 DEF dns_cent_t, W
<1>6. EntryOK(d)
  <2>1. Header(d) = Header(c) /\ Header(c) \in Nat /\ c.cs \in Int
    BY <1>2, <1>5, WeightNat DEF Header, dns_cent_t
  <2>2. d.cs = c.cs + (Header(d) - Header(c))
    BY <1>5, <2>1
  <2>3. IsNeg(d) => IsNeg(c)
    BY <1>3, <1>5 DEF IsNeg
  <2>. QED  BY <1>5, <2>2, <2>3, WithSameSets
<1>. QED  BY <1>3, <1>4, <1>5, <1>6 DEF Negated

-----------------------------------------------------------------------------
(* Answers.                                                                *)

\* Entry c conflicts in itself only as an input for name n does.
Compatible(n, c) ==
  \A i, j \in Indices :
    /\ c.rr[i] # None /\ c.rr[j] # None /\ Excludes(i, j)
    /\ "NEGATIVE" \notin c.rr[i].flags \cup c.rr[j].flags
    => \E a \in Inputs : a.name = n /\ Says(a, Types[i]) /\ Says(a, Types[j])

\* And it says nothing only as one does.
FromInput(n, c) ==
  /\ EntryOK(c) /\ Compatible(n, c)
  /\ IsEmpty(c) => \E a \in Inputs : a.name = n /\ SaysNothing(a)

LEMMA BuildIs ==
  ASSUME NEW a \in Inputs, NEW ts \in Int
  PROVE  FromInput(a.name, Build(a, ts)) /\ a.name \in NameSet
<1>. DEFINE sets == [i \in Indices |-> IF Types[i] \notin DOMAIN a.sets THEN None
                       ELSE LET r == a.sets[Types[i]]
                            IN  [ttl |-> r.ttl, ts |-> ts, flags |-> r.flags, rrs |-> r.rrs]]
<1>1. IsInput(a)
  BY CacheAssumption
<1>2. /\ a.name \in NameSet /\ a.flags \in SUBSET Flags /\ a.ttl \in Int
      /\ a.ref \in [{"NS", "SOA"} -> NameSet \cup {None}]
  BY <1>1 DEF IsInput
<1>3. \A i \in Indices :
        IF Types[i] \notin DOMAIN a.sets THEN sets[i] = None
        ELSE sets[i] \in rr_set_t /\ sets[i] # None /\ sets[i].flags = a.sets[Types[i]].flags
  <2>1. TAKE i \in Indices
  <2>2. CASE Types[i] \notin DOMAIN a.sets
    BY <2>2
  <2>3. CASE Types[i] \in DOMAIN a.sets
    <3>. DEFINE r == a.sets[Types[i]]
    <3>1. r.ttl \in Int /\ r.flags \subseteq Flags /\ r.rrs \subseteq Data
      BY <1>1, <2>3 DEF IsInput
    <3>2. sets[i] = [ttl |-> r.ttl, ts |-> ts, flags |-> r.flags, rrs |-> r.rrs]
      BY <2>3
    <3>. HIDE DEF r, sets
    <3>3. sets[i] \in rr_set_t /\ sets[i].flags = r.flags
      BY <3>1, <3>2 DEF rr_set_t
    <3>. QED  BY <2>3, <3>3, Constants DEF r
  <2>. QED  BY <2>2, <2>3
<1>4. sets \in [Indices -> rr_set_t \cup {None}]
  <2>1. \A i \in Indices : sets[i] \in rr_set_t \cup {None}
    BY <1>3
  <2>2. sets = [i \in Indices |-> sets[i]]
    OBVIOUS
  <2>. HIDE DEF sets
  <2>. QED  BY <2>1, <2>2
<1>5. Build(a, ts) = Assemble(a.flags, a.ttl, ts, a.ref, sets)
  BY DEF Build
<1>. HIDE DEF sets
<1>6. PICK c : c = Build(a, ts) /\ PutTogether(c, a.flags, a.ref, sets)
  BY <1>2, <1>4, <1>5, AssembleIs
<1>7. ASSUME NEW i \in Indices, c.rr[i] # None, "NEGATIVE" \notin c.rr[i].flags
      PROVE  Says(a, Types[i])
  <2>1. sets[i] # None /\ c.rr[i].flags = sets[i].flags
    BY <1>6, <1>7 DEF PutTogether
  <2>. QED  BY <2>1, <1>3, <1>7 DEF Says
<1>8. ASSUME IsEmpty(c) PROVE SaysNothing(a)
  <2>1. EntryOK(c) /\ NumSets(c) = 0 /\ c \in dns_cent_t /\ "NEGATIVE" \notin c.flags
    BY <1>6, <1>8 DEF PutTogether, EntryOK, IsEmpty, IsNeg
  <2>2. \A i \in Indices : sets[i] = None
    BY <1>6, <2>1, NoSets DEF PutTogether
  <2>3. c.flags = a.flags
    BY <1>6, <2>2 DEF PutTogether
  <2>4. \A i \in Indices : Types[i] \notin DOMAIN a.sets
    BY <1>3, <2>2
  <2>5. ToSet(Types) = {Types[i] : i \in Indices}
    BY CacheAssumption DEF ToSet, Indices
  <2>. QED  BY <2>1, <2>3, <2>4, <2>5 DEF SaysNothing
<1>. QED  BY <1>2, <1>6, <1>7, <1>8 DEF FromInput, Compatible, PutTogether

-----------------------------------------------------------------------------
(* The state of the cache.                                                 *)

OnList == NameSet \X (Indices \cup {0})

EntriesOK(s) == s \in cache_t /\ \A n \in NameSet : Has(s, n) => EntryOK(s.ent[n])

\* The list has what it must have, but for X, each once.
Lists(s, X) == Once(s.list) /\ Elements(s.list) = ToBeListed(s) \ X

OK(s) == EntriesOK(s) /\ Lists(s, {})

Tidy(s) == s.sort => ListSorted(s)

There(s) == {n \in NameSet : Has(s, n)}

Books(s) == s.size = SumFunction(Taken(s)) /\ s.num = Cardinality(There(s))

\* Entry d is c with less sets, cache t is s with less entries and sets.
LessEntry(d, c) ==
  /\ "LOCAL" \in d.flags <=> "LOCAL" \in c.flags
  /\ IsNeg(d) <=> IsNeg(c)
  /\ d.ts = c.ts /\ (d.rrext => c.rrext)
  /\ \A i \in Indices : d.rr[i] = None \/ d.rr[i] = c.rr[i]
Less(s, t) ==
  \A m \in NameSet : Has(t, m) => Has(s, m) /\ LessEntry(t.ent[m], s.ent[m])

\* Cache t is s purged: no local set is gone, and the books and the order are kept.
Purged(s, t) ==
  /\ OK(t) /\ Less(s, t) /\ LocalSets(s) \subseteq LocalSets(t)
  /\ Books(s) => Books(t)
  /\ Tidy(s) => Tidy(t)
  /\ s.sort => t.sort

\* Only entries that were empty, or those of Z, are empty.
NoneEmptied(s, t, Z) ==
  \A m \in NameSet \ Z : Has(t, m) /\ IsEmpty(t.ent[m]) => Has(s, m) /\ IsEmpty(s.ent[m])

LEMMA CacheFields ==
  ASSUME NEW s \in cache_t
  PROVE  /\ s.ent \in [NameSet -> dns_cent_t \cup {None}] /\ s.list \in Seq(OnList)
         /\ s.size \in Int /\ s.num \in Int /\ s.sort \in BOOLEAN
         /\ \A n \in NameSet : Has(s, n) => s.ent[n] \in dns_cent_t
         /\ \A n \in NameSet : ~ Has(s, n) => s.ent[n] = None
         /\ Len(s.list) \in Nat /\ \A k \in 1..Len(s.list) : s.list[k] \in OnList
<1>1. s.ent \in [NameSet -> dns_cent_t \cup {None}] /\ s.list \in Seq(OnList)
      /\ s.size \in Int /\ s.num \in Int /\ s.sort \in BOOLEAN
  BY DEF cache_t, OnList
<1>. HIDE DEF OnList
<1>. QED  BY <1>1 DEF Has

LEMMA LessTransitive ==
  ASSUME NEW s, NEW t, NEW u, Less(s, t), Less(t, u)
  PROVE  Less(s, u)
<1>1. ASSUME NEW m \in NameSet, Has(u, m)
      PROVE  Has(s, m) /\ LessEntry(u.ent[m], s.ent[m])
  <2>1. Has(t, m) /\ LessEntry(u.ent[m], t.ent[m])
    BY <1>1 DEF Less
  <2>2. Has(s, m) /\ LessEntry(t.ent[m], s.ent[m])
    BY <2>1 DEF Less
  <2>. QED  BY <2>1, <2>2 DEF LessEntry
<1>. QED  BY <1>1 DEF Less

LEMMA LessReflexive ==
  ASSUME NEW s
  PROVE  Less(s, s)
BY DEF Less, LessEntry

LEMMA PurgedReflexive ==
  ASSUME NEW s, OK(s)
  PROVE  Purged(s, s)
BY LessReflexive DEF Purged

LEMMA PurgedTransitive ==
  ASSUME NEW s, NEW t, NEW u, Purged(s, t), Purged(t, u)
  PROVE  Purged(s, u)
<1>1. Less(s, u)
  BY LessTransitive DEF Purged
<1>. QED  BY <1>1 DEF Purged

LEMMA NoneEmptiedTransitive ==
  ASSUME NEW s, NEW t, NEW u, NEW Z, NoneEmptied(s, t, Z), NoneEmptied(t, u, Z)
  PROVE  NoneEmptied(s, u, Z)
BY DEF NoneEmptied

\* Less weighs less.
LEMMA LessWeight ==
  ASSUME NEW c, EntryOK(c), NEW d, EntryOK(d), LessEntry(d, c)
  PROVE  d.cs <= c.cs /\ c.cs \in Nat /\ d.cs \in Nat
<1>1. c \in dns_cent_t /\ d \in dns_cent_t /\ c.cs = Weight(c) /\ d.cs = Weight(d)
  BY DEF EntryOK
<1>2. \A i \in Indices : Sizes(d)[i] <= Sizes(c)[i]
  <2>1. TAKE i \in Indices
  <2>2. Sizes(d)[i] = SizeOf(d.rr[i]) /\ Sizes(c)[i] = SizeOf(c.rr[i])
    BY <1>1, WeightNat
  <2>3. c.rr[i] \in rr_set_t \cup {None}
    BY <1>1 DEF dns_cent_t
  <2>4. SizeOf(c.rr[i]) \in Nat /\ SizeOf(None) = 0
    BY <2>3, SetSizeNat DEF SizeOf
  <2>5. d.rr[i] = None \/ d.rr[i] = c.rr[i]
    BY DEF LessEntry
  <2>. QED  BY <2>2, <2>4, <2>5
<1>3. SumFunction(Sizes(d)) <= SumFunction(Sizes(c))
  <2>1. Sizes(c) \in [Indices -> Int] /\ Sizes(d) \in [Indices -> Int] /\ IsFiniteSet(Indices)
    BY <1>1, WeightNat, Constants
  <2>. QED  BY <1>2, <2>1, SumMonotone
<1>4. Header(d) <= Header(c)
  <2>1. d.rrext => c.rrext
    BY DEF LessEntry
  <2>. QED  BY <2>1 DEF Header, CentSize, ExtSize
<1>5. /\ Weight(c) = Header(c) + SumFunction(Sizes(c)) /\ Header(c) \in Nat
      /\ Weight(d) = Header(d) + SumFunction(Sizes(d)) /\ Header(d) \in Nat
      /\ SumFunction(Sizes(c)) \in Nat /\ SumFunction(Sizes(d)) \in Nat
      /\ Weight(c) \in Nat /\ Weight(d) \in Nat
  BY <1>1, WeightNat
<1>. QED  BY <1>1, <1>3, <1>4, <1>5

LEMMA TakenNat ==
  ASSUME NEW s, EntriesOK(s)
  PROVE  /\ Taken(s) \in [NameSet -> Int]
         /\ \A n \in NameSet : Taken(s)[n] >= 0
                               /\ Taken(s)[n] = IF Has(s, n) THEN s.ent[n].cs ELSE 0
         /\ SumFunction(Taken(s)) \in Nat
         /\ IsFiniteSet(There(s)) /\ Cardinality(There(s)) \in Nat
<1>1. \A n \in NameSet : Has(s, n) => s.ent[n].cs \in Nat
  BY WeightNat DEF EntriesOK, EntryOK
<1>2. /\ Taken(s) \in [NameSet -> Int]
      /\ \A n \in NameSet : Taken(s)[n] >= 0
                            /\ Taken(s)[n] = IF Has(s, n) THEN s.ent[n].cs ELSE 0
  BY <1>1 DEF Taken
<1>3. SumFunction(Taken(s)) \in Nat
  BY <1>2, Constants, SumNat
<1>4. IsFiniteSet(There(s)) /\ Cardinality(There(s)) \in Nat
  BY Constants, FS_Subset, FS_CardinalityType DEF There
<1>. QED  BY <1>2, <1>3, <1>4

\* One entry changes, comes or goes.
LEMMA TakenChange ==
  ASSUME NEW s, EntriesOK(s), NEW t, EntriesOK(t), NEW n \in NameSet,
         \A m \in NameSet : m # n => t.ent[m] = s.ent[m]
  PROVE  SumFunction(Taken(t)) = SumFunction(Taken(s)) + (Taken(t)[n] - Taken(s)[n])
<1>1. Taken(s) \in [NameSet -> Int] /\ Taken(t) \in [NameSet -> Int] /\ IsFiniteSet(NameSet)
  BY TakenNat, Constants
<1>2. \A m \in NameSet : m # n => Taken(t)[m] = Taken(s)[m]
  BY DEF Taken, Has
<1>. QED  BY <1>1, <1>2, SumChange

LEMMA LessTotal ==
  ASSUME NEW s, EntriesOK(s), NEW t, EntriesOK(t), Less(s, t)
  PROVE  SumFunction(Taken(t)) <= SumFunction(Taken(s))
<1>1. Taken(s) \in [NameSet -> Int] /\ Taken(t) \in [NameSet -> Int] /\ IsFiniteSet(NameSet)
  BY TakenNat, Constants
<1>2. ASSUME NEW m \in NameSet PROVE Taken(t)[m] <= Taken(s)[m]
  <2>1. CASE Has(t, m)
    <3>1. Has(s, m) /\ LessEntry(t.ent[m], s.ent[m])
      BY <2>1 DEF Less
    <3>2. EntryOK(s.ent[m]) /\ EntryOK(t.ent[m])
      BY <2>1, <3>1 DEF EntriesOK
    <3>3. t.ent[m].cs <= s.ent[m].cs
      BY <3>1, <3>2, LessWeight
    <3>. QED  BY <2>1, <3>1, <3>3, TakenNat
  <2>2. CASE ~ Has(t, m)
    <3>1. Taken(t)[m] = 0 /\ Taken(s)[m] >= 0
      BY <2>2, TakenNat
    <3>. QED  BY <3>1
  <2>. QED  BY <2>1, <2>2
<1>. QED  BY <1>1, <1>2, SumMonotone

LEMMA ListedPlace ==
  ASSUME NEW s, EntriesOK(s), NEW e \in ToBeListed(s)
  PROVE  e \in OnList /\ Stamp(s, e) \in Int /\ Has(s, e[1])
<1>1. /\ e \in OnList /\ Has(s, e[1]) /\ e[1] \in NameSet /\ e[2] \in Indices \cup {0}
      /\ IF e[2] = 0 THEN TRUE ELSE s.ent[e[1]].rr[e[2]] # None
  BY DEF ToBeListed, OnList, IsListed
<1>2. s.ent[e[1]] \in dns_cent_t
  BY <1>1 DEF EntriesOK, EntryOK
<1>3. CASE e[2] = 0
  <2>1. s.ent[e[1]].ts \in Int
    BY <1>2 DEF dns_cent_t
  <2>. QED  BY <1>1, <2>1, <1>3 DEF Stamp
<1>4. CASE e[2] # 0
  <2>1. s.ent[e[1]].rr[e[2]] \in rr_set_t
    BY <1>1, <1>2, <1>4 DEF dns_cent_t
  <2>2. s.ent[e[1]].rr[e[2]].ts \in Int
    BY <2>1 DEF rr_set_t
  <2>. QED  BY <1>1, <2>2, <1>4 DEF Stamp
<1>. QED  BY <1>1, <1>3, <1>4

LEMMA LessListed ==
  ASSUME NEW s, EntriesOK(s), NEW t, EntriesOK(t), Less(s, t), NEW e \in ToBeListed(t)
  PROVE  e \in ToBeListed(s) /\ Stamp(t, e) = Stamp(s, e)
<1>1. e \in NameSet \X (Indices \cup {0}) /\ Has(t, e[1]) /\ e[1] \in NameSet
  BY DEF ToBeListed
<1>2. Has(s, e[1]) /\ LessEntry(t.ent[e[1]], s.ent[e[1]])
  BY <1>1 DEF Less
<1>3. CASE e[2] = 0
  BY <1>1, <1>2, <1>3 DEF ToBeListed, LessEntry, Stamp
<1>4. CASE e[2] # 0
  <2>1. e[2] \in Indices /\ IsListed(t.ent[e[1]].rr[e[2]])
    BY <1>1, <1>4 DEF ToBeListed
  <2>2. t.ent[e[1]].rr[e[2]] = s.ent[e[1]].rr[e[2]]
    BY <1>2, <2>1 DEF LessEntry, IsListed
  <2>. QED  BY <1>1, <1>2, <1>4, <2>1, <2>2 DEF ToBeListed, LessEntry, Stamp
<1>. QED  BY <1>3, <1>4

LEMMA KeepsOrder ==
  ASSUME NEW s, EntriesOK(s), NEW t, NEW X, t.list = Without(s.list, X), ListSorted(s),
         \A e \in Elements(t.list) : Stamp(t, e) = Stamp(s, e)
  PROVE  ListSorted(t)
<1>1. s.list \in Seq(OnList)
  BY CacheFields DEF EntriesOK
<1>. DEFINE r == t.list
<1>2. PICK h : Picks(h, r, s.list, X, Len(s.list))
  BY <1>1, WithoutPicks
<1>. HIDE DEF r
<1>3. \A i \in 1..Len(r) : h[i] \in 1..Len(s.list) /\ r[i] = s.list[h[i]]
  BY <1>2 DEF Picks
<1>4. \A i, j \in 1..Len(r) : i < j => h[i] < h[j]
  BY <1>2 DEF Picks
<1>5. \A i \in 1..Len(r) : Stamp(t, r[i]) = Stamp(s, r[i])
  BY DEF Elements, r
<1>6. ASSUME NEW i \in 1..Len(r), NEW j \in 1..Len(r), i < j
      PROVE  Stamp(t, r[i]) <= Stamp(t, r[j])
  <2>1. Stamp(s, s.list[h[i]]) <= Stamp(s, s.list[h[j]])
    BY <1>3, <1>4, <1>6 DEF ListSorted
  <2>. QED  BY <2>1, <1>3, <1>5
<1>. QED  BY <1>6 DEF ListSorted, r

\* Cache t is s with another list.
Relisted(s, t) ==
  /\ t \in cache_t /\ t.ent = s.ent /\ t.size = s.size /\ t.num = s.num /\ t.sort = s.sort

LEMMA RelistedSame ==
  ASSUME NEW s, NEW t, Relisted(s, t)
  PROVE  /\ \A n : Has(t, n) <=> Has(s, n)
         /\ ToBeListed(t) = ToBeListed(s) /\ \A e : Stamp(t, e) = Stamp(s, e)
         /\ EntriesOK(s) => EntriesOK(t)
<1>1. \A n : Has(t, n) <=> Has(s, n)
  BY DEF Has, Relisted
<1>2. ToBeListed(t) = ToBeListed(s)
  BY <1>1 DEF ToBeListed, Relisted
<1>3. \A e : Stamp(t, e) = Stamp(s, e)
  BY DEF Stamp, Relisted
<1>. QED  BY <1>1, <1>2, <1>3 DEF EntriesOK, Relisted

\* insert_rrl lists a set, or a negative entry, that belongs on the list.
Inserted(s, t, e, X) ==
  Relisted(s, t) /\ Lists(t, X \ {e}) /\ (Tidy(s) => Tidy(t))

LEMMA InsertRrl ==
  ASSUME NEW s, EntriesOK(s), NEW X, Lists(s, X), NEW n \in NameSet, Has(s, n),
         NEW i \in Indices \cup {0}, <<n, i>> \in X,
         IF i = 0 THEN IsNeg(s.ent[n]) ELSE s.ent[n].rr[i] # None
  PROVE  Inserted(s, insert_rrl(s, n, i), <<n, i>>, X)
<1>. DEFINE e == <<n, i>>
            older == {k \in 1..Len(s.list) : Stamp(s, s.list[k]) <= Stamp(s, e)}
            local == "LOCAL" \in s.ent[n].flags \/ (i # 0 /\ "LOCAL" \in s.ent[n].rr[i].flags)
            p == Max(older \cup {0}) + 1
            l == IF s.sort THEN InsertAt(s.list, p, e) ELSE Append(s.list, e)
<1>1. insert_rrl(s, n, i) = IF local THEN s ELSE [s EXCEPT !.list = l]
  BY DEF insert_rrl
<1>2. e \in ToBeListed(s) <=> ~ local
  BY DEF ToBeListed, IsListed
<1>3. CASE local
  <2>1. ToBeListed(s) \ (X \ {e}) = ToBeListed(s) \ X
    BY <1>2, <1>3
  <2>2. insert_rrl(s, n, i) = s
    BY <1>1, <1>3
  <2>3. Relisted(s, s) /\ Lists(s, X \ {e})
    BY <2>1 DEF Relisted, EntriesOK, Lists
  <2>. QED  BY <2>2, <2>3 DEF Inserted
<1>4. CASE ~ local
  <2>1. e \in ToBeListed(s) /\ e \in OnList
    BY <1>2, <1>4, ListedPlace
  <2>. HIDE DEF local
  <2>2. s \in cache_t /\ s.list \in Seq(OnList) /\ Len(s.list) \in Nat /\ s.sort \in BOOLEAN
    BY CacheFields DEF EntriesOK
  <2>3. Max(older \cup {0}) \in older \cup {0} /\ Max(older \cup {0}) \in 0..Len(s.list)
        /\ \A k \in older : k <= Max(older \cup {0})
    <3>1. older \cup {0} \subseteq 0..Len(s.list) /\ older \cup {0} # {}
      BY <2>2
    <3>. HIDE DEF older
    <3>2. /\ Max(older \cup {0}) \in older \cup {0}
          /\ \A k \in older \cup {0} : k <= Max(older \cup {0})
      BY <2>2, <3>1, Greatest
    <3>. QED  BY <3>1, <3>2
  <2>. HIDE DEF older
  <2>4. p \in 1..(Len(s.list) + 1)
    BY <2>2, <2>3
  <2>. HIDE DEF p, e
  <2>5. PICK q \in 1..(Len(s.list) + 1) :
          /\ l \in Seq(OnList) /\ Len(l) = Len(s.list) + 1
          /\ s.sort => q = p
          /\ \A k \in 1..(Len(s.list) + 1) :
               l[k] = IF k < q THEN s.list[k] ELSE IF k = q THEN e ELSE s.list[k - 1]
    <3>1. CASE s.sort
      <4>1. l = InsertAt(s.list, p, e)
        BY <3>1
      <4>2. /\ InsertAt(s.list, p, e) \in Seq(OnList) /\ Len(InsertAt(s.list, p, e)) = Len(s.list) + 1
            /\ \A k \in 1..(Len(s.list) + 1) :
                 InsertAt(s.list, p, e)[k] = IF k < p THEN s.list[k]
                                             ELSE IF k = p THEN e ELSE s.list[k - 1]
        <5>1. PICK u \in Seq(OnList) : u = s.list
          BY <2>2
        <5>2. e \in OnList /\ p \in 1..(Len(u) + 1)
          BY <2>1, <2>4, <5>1
        <5>3. /\ InsertAt(u, p, e) \in Seq(OnList) /\ Len(InsertAt(u, p, e)) = Len(u) + 1
              /\ \A k \in 1..(Len(u) + 1) :
                   InsertAt(u, p, e)[k] = IF k < p THEN u[k] ELSE IF k = p THEN e ELSE u[k - 1]
          BY ONLY <5>2, InsertIs
        <5>. QED  BY <5>1, <5>3
      <4>. HIDE DEF l
      <4>. QED  BY <4>1, <4>2, <2>4
    <3>2. CASE ~ s.sort
      <4>1. l = Append(s.list, e)
        BY <3>2
      <4>. HIDE DEF l
      <4>2. Len(s.list) + 1 \in 1..(Len(s.list) + 1)
        BY <2>2
      <4>3. /\ l \in Seq(OnList) /\ Len(l) = Len(s.list) + 1
            /\ \A k \in 1..Len(s.list) : l[k] = s.list[k]
            /\ l[Len(s.list) + 1] = e
        BY <4>1, <2>1, <2>2
      <4>4. \A k \in 1..(Len(s.list) + 1) :
              l[k] = IF k < Len(s.list) + 1 THEN s.list[k]
                     ELSE IF k = Len(s.list) + 1 THEN e ELSE s.list[k - 1]
        BY <4>3, <2>2
      <4>. QED  BY <3>2, <4>2, <4>3, <4>4
    <3>. QED  BY <3>1, <3>2
  <2>. HIDE DEF l
  <2>6. PICK t : t = [s EXCEPT !.list = l]
    OBVIOUS
  <2>7. Relisted(s, t) /\ t.list = l /\ t = insert_rrl(s, n, i)
    <3>1. t = insert_rrl(s, n, i)
      BY <1>1, <1>4, <2>6
    <3>2. t.list = l /\ t.ent = s.ent /\ t.size = s.size /\ t.num = s.num /\ t.sort = s.sort
      BY <2>2, <2>6 DEF cache_t
    <3>3. t \in cache_t
      BY <2>2, <2>5, <2>6 DEF cache_t, OnList
    <3>. QED  BY <3>1, <3>2, <3>3 DEF Relisted
  <2>8. Elements(s.list) = ToBeListed(s) \ X /\ Once(s.list) /\ e \notin Elements(s.list)
    BY DEF Lists, e
  <2>9. Elements(l) = Elements(s.list) \cup {e}
    <3>1. \A k \in 1..(Len(s.list) + 1) : l[k] \in Elements(s.list) \cup {e}
      <4>1. TAKE k \in 1..(Len(s.list) + 1)
      <4>2. CASE k < q
        <5>1. k \in 1..Len(s.list) /\ l[k] = s.list[k]
          BY <4>2, <2>2, <2>5
        <5>. QED  BY <5>1 DEF Elements
      <4>3. CASE k = q
        BY <4>3, <2>5
      <4>4. CASE k > q
        <5>1. k - 1 \in 1..Len(s.list) /\ l[k] = s.list[k - 1]
          BY <4>4, <2>2, <2>5
        <5>. QED  BY <5>1 DEF Elements
      <4>. QED  BY <4>2, <4>3, <4>4, <2>2
    <3>2. \A j \in 1..Len(s.list) : \E k \in 1..(Len(s.list) + 1) : l[k] = s.list[j]
      <4>1. TAKE j \in 1..Len(s.list)
      <4>2. CASE j < q
        <5>1. j \in 1..(Len(s.list) + 1)
          BY <2>2
        <5>. QED  BY <4>2, <5>1, <2>5
      <4>3. CASE ~ (j < q)
        <5>1. j + 1 \in 1..(Len(s.list) + 1) /\ j + 1 > q /\ (j + 1) - 1 = j
          BY <4>3, <2>2
        <5>2. l[j + 1] = s.list[j]
          BY <5>1, <2>2, <2>5
        <5>. QED  BY <5>1, <5>2
      <4>. QED  BY <4>2, <4>3
    <3>3. l[q] = e
      BY <2>2, <2>5
    <3>4. Elements(l) = {l[k] : k \in 1..(Len(s.list) + 1)}
      BY <2>5 DEF Elements
    <3>5. Elements(s.list) \subseteq {l[k] : k \in 1..(Len(s.list) + 1)}
      BY <3>2 DEF Elements
    <3>. QED  BY <3>1, <3>3, <3>4, <3>5
  <2>10. Once(l)
    <3>1. \A k \in 1..(Len(s.list) + 1) :
            /\ k < q => k \in 1..Len(s.list) /\ l[k] = s.list[k] /\ l[k] # e
            /\ k = q => l[k] = e
            /\ k > q => k - 1 \in 1..Len(s.list) /\ l[k] = s.list[k - 1] /\ l[k] # e
      <4>1. TAKE k \in 1..(Len(s.list) + 1)
      <4>2. CASE k < q
        <5>1. k \in 1..Len(s.list) /\ l[k] = s.list[k]
          BY <4>2, <2>2, <2>5
        <5>. QED  BY <4>2, <5>1, <2>8 DEF Elements
      <4>3. CASE k = q
        BY <4>3, <2>5
      <4>4. CASE k > q
        <5>1. k - 1 \in 1..Len(s.list) /\ l[k] = s.list[k - 1]
          BY <4>4, <2>2, <2>5
        <5>. QED  BY <4>4, <5>1, <2>8 DEF Elements
      <4>. QED  BY <4>2, <4>3, <4>4, <2>2
    <3>2. \A j, k \in 1..Len(s.list) : s.list[j] = s.list[k] => j = k
      BY <2>8 DEF Once
    <3>3. ASSUME NEW j \in 1..(Len(s.list) + 1), NEW k \in 1..(Len(s.list) + 1), l[j] = l[k]
          PROVE  j = k
      <4>1. CASE j < q
        <5>0. l[j] = s.list[j] /\ j \in 1..Len(s.list) /\ l[j] # e
          BY <4>1, <3>1
        <5>1. k < q
          <6>1. k # q
            BY <5>0, <3>1, <3>3
          <6>2. ASSUME k > q PROVE FALSE
            <7>1. j = k - 1
              BY <5>0, <6>2, <3>1, <3>2, <3>3
            <7>. QED  BY <7>1, <6>2, <4>1, <2>2
          <6>. QED  BY <6>1, <6>2, <2>2
        <5>. QED  BY <4>1, <5>1, <3>1, <3>2, <3>3
      <4>2. CASE j = q
        BY <4>2, <3>1, <3>3, <2>2
      <4>3. CASE j > q
        <5>0. l[j] = s.list[j - 1] /\ j - 1 \in 1..Len(s.list) /\ l[j] # e
          BY <4>3, <3>1
        <5>1. k > q
          <6>1. k # q
            BY <5>0, <3>1, <3>3
          <6>2. ASSUME k < q PROVE FALSE
            <7>1. k = j - 1
              BY <5>0, <6>2, <3>1, <3>2, <3>3
            <7>. QED  BY <7>1, <6>2, <4>3, <2>2
          <6>. QED  BY <6>1, <6>2, <2>2
        <5>2. j - 1 = k - 1
          BY <4>3, <5>1, <3>1, <3>2, <3>3
        <5>. QED  BY <5>2, <2>2
      <4>. QED  BY <4>1, <4>2, <4>3, <2>2
    <3>. QED  BY <3>3, <2>5 DEF Once
  <2>11. Lists(t, X \ {e})
    <3>1. ToBeListed(t) = ToBeListed(s)
      BY <2>7, RelistedSame
    <3>2. Elements(l) = ToBeListed(t) \ (X \ {e})
      BY <2>1, <2>8, <2>9, <3>1
    <3>. QED  BY <2>7, <2>10, <3>2 DEF Lists
  <2>12. ASSUME Tidy(s) PROVE Tidy(t)
    <3>1. SUFFICES ASSUME s.sort PROVE ListSorted(t)
      BY <2>7 DEF Tidy, Relisted
    <3>. DEFINE st(x) == Stamp(s, x)
    <3>2. \A x \in Elements(l) : st(x) \in Int
      BY <2>1, <2>8, <2>9, ListedPlace
    <3>3. \A j, k \in 1..Len(s.list) : j < k => st(s.list[j]) <= st(s.list[k])
      BY <2>12, <3>1 DEF Tidy, ListSorted
    <3>4. \A k \in 1..Len(s.list) : st(s.list[k]) \in Int /\ st(e) \in Int
      BY <2>9, <3>2 DEF Elements
    <3>. HIDE DEF st
    <3>5. q = Max(older \cup {0}) + 1
      BY <2>5, <3>1 DEF p
    <3>6. \A k \in 1..Len(s.list) : k < q => st(s.list[k]) <= st(e)
      <4>1. TAKE k \in 1..Len(s.list)
      <4>2. HAVE k < q
      <4>3. Max(older \cup {0}) \in 1..Len(s.list) /\ Max(older \cup {0}) \in older
            /\ k <= Max(older \cup {0})
        BY <4>2, <3>5, <2>2, <2>3
      <4>4. st(s.list[Max(older \cup {0})]) <= st(e)
        BY <4>3 DEF older, st, e
      <4>5. CASE k = Max(older \cup {0})
        BY <4>4, <4>5
      <4>6. CASE k < Max(older \cup {0})
        <5>1. st(s.list[k]) <= st(s.list[Max(older \cup {0})])
          BY <4>3, <4>6, <3>3
        <5>. QED  BY <5>1, <4>3, <4>4, <3>4
      <4>. QED  BY <4>3, <4>5, <4>6, <2>2
    <3>7. \A k \in 1..Len(s.list) : ~ (k < q) => st(e) <= st(s.list[k])
      <4>1. TAKE k \in 1..Len(s.list)
      <4>2. HAVE ~ (k < q)
      <4>3. k \notin older
        <5>1. SUFFICES ASSUME k \in older PROVE FALSE
          OBVIOUS
        <5>2. k <= Max(older \cup {0})
          BY <5>1, <2>3
        <5>3. Max(older \cup {0}) \in Nat
          BY <2>2, <2>3
        <5>. HIDE DEF older
        <5>. QED  BY <5>2, <5>3, <4>2, <3>5
      <4>4. ~ (st(s.list[k]) <= st(e))
        BY <4>3 DEF older, st, e
      <4>. QED  BY <4>4, <3>4
    <3>8. ASSUME NEW j \in 1..(Len(s.list) + 1), NEW k \in 1..(Len(s.list) + 1), j < k
          PROVE  st(l[j]) <= st(l[k])
      <4>1. CASE k < q
        <5>1. j \in 1..Len(s.list) /\ k \in 1..Len(s.list) /\ l[j] = s.list[j] /\ l[k] = s.list[k]
          BY <4>1, <2>2, <2>5, <3>8
        <5>. QED  BY <5>1, <3>3, <3>8
      <4>2. CASE k = q
        <5>1. j \in 1..Len(s.list) /\ l[j] = s.list[j] /\ l[k] = e /\ j < q
          BY <4>2, <2>2, <2>5, <3>8
        <5>. QED  BY <5>1, <3>6
      <4>3. CASE k > q /\ j < q
        <5>1. /\ j \in 1..Len(s.list) /\ l[j] = s.list[j] /\ k - 1 \in 1..Len(s.list)
              /\ l[k] = s.list[k - 1] /\ ~ (k - 1 < q)
          BY <4>3, <2>2, <2>5, <3>8
        <5>2. st(s.list[j]) <= st(e) /\ st(e) <= st(s.list[k - 1])
          BY <5>1, <4>3, <3>6, <3>7
        <5>. QED  BY <5>1, <5>2, <3>4
      <4>4. CASE k > q /\ j = q
        <5>1. l[j] = e /\ k - 1 \in 1..Len(s.list) /\ l[k] = s.list[k - 1] /\ ~ (k - 1 < q)
          BY <4>4, <2>2, <2>5, <3>8
        <5>. QED  BY <5>1, <3>7
      <4>5. CASE k > q /\ j > q
        <5>1. /\ j - 1 \in 1..Len(s.list) /\ l[j] = s.list[j - 1]
              /\ k - 1 \in 1..Len(s.list) /\ l[k] = s.list[k - 1] /\ j - 1 < k - 1
          BY <4>5, <2>2, <2>5, <3>8
        <5>. QED  BY <5>1, <3>3
      <4>. QED  BY <4>1, <4>2, <4>3, <4>4, <4>5, <2>2
    <3>9. \A x : Stamp(t, x) = st(x)
      BY <2>7, RelistedSame DEF st
    <3>. QED  BY <3>8, <3>9, <2>5, <2>7 DEF ListSorted
  <2>. QED  BY <2>7, <2>11, <2>12 DEF Inserted, e
<1>. QED  BY <1>3, <1>4

\* SortNow only sorts.
Sorted(s, t) ==
  /\ OK(t) /\ t.sort /\ t.ent = s.ent /\ t.size = s.size /\ t.num = s.num
  /\ Elements(t.list) = Elements(s.list)
  /\ Tidy(s) => ListSorted(t)

LEMMA SortNowIs ==
  ASSUME NEW s, OK(s)
  PROVE  Sorted(s, SortNow(s))
<1>1. CASE s.sort
  <2>1. SortNow(s) = s
    BY <1>1 DEF SortNow
  <2>2. Sorted(s, s)
    BY <1>1 DEF Sorted, Tidy
  <2>. QED  BY <2>1, <2>2
<1>2. CASE ~ s.sort
  <2>. DEFINE T == ToBeListed(s)
              f == [e \in T |-> Stamp(s, e)]
              l == s.list
              r == InOrder(l, f)
              pos == [k \in 1..Len(l) |->
                        1 + Cardinality({j \in 1..Len(l) :
                              \/ Stamp(s, l[j]) < Stamp(s, l[k])
                              \/ Stamp(s, l[j]) = Stamp(s, l[k]) /\ j < k})]
              q == [p \in 1..Len(l) |-> l[CHOOSE k \in 1..Len(l) : pos[k] = p]]
  <2>1. s \in cache_t /\ l \in Seq(OnList) /\ Len(l) \in Nat /\ Once(l) /\ Elements(l) = T
    BY CacheFields DEF OK, Lists, EntriesOK
  <2>2. l \in Seq(T)
    <3>1. \A k \in 1..Len(l) : l[k] \in T
      BY <2>1 DEF Elements
    <3>. QED  BY <2>1, <3>1
  <2>3. f \in [T -> Int] /\ \A e \in T : f[e] = Stamp(s, e)
    BY ListedPlace DEF OK
  <2>. HIDE DEF f
  <2>4. \A k \in 1..Len(l) : l[k] \in T /\ f[l[k]] = Stamp(s, l[k])
    BY <2>1, <2>3 DEF Elements
  <2>. HIDE DEF T, l
  <2>5. pos = Rank(l, f)
    <3>. DEFINE A(k) == {j \in 1..Len(l) :
                           \/ Stamp(s, l[j]) < Stamp(s, l[k])
                           \/ Stamp(s, l[j]) = Stamp(s, l[k]) /\ j < k}
                B(k) == {j \in 1..Len(l) : Before(l, f, j, k)}
    <3>1. ASSUME NEW k \in 1..Len(l)
          PROVE  A(k) = B(k)
      <4>1. ASSUME NEW j \in 1..Len(l) PROVE j \in A(k) <=> j \in B(k)
        <5>1. f[l[k]] = Stamp(s, l[k]) /\ f[l[j]] = Stamp(s, l[j])
          BY <2>4
        <5>2. j \in B(k) <=> (f[l[j]] < f[l[k]] \/ (f[l[j]] = f[l[k]] /\ j < k))
          BY DEF Before
        <5>. QED  BY <5>1, <5>2
      <4>2. A(k) \subseteq 1..Len(l) /\ B(k) \subseteq 1..Len(l)
        OBVIOUS
      <4>. HIDE DEF A, B
      <4>. QED  BY <4>1, <4>2
    <3>2. pos = [k \in 1..Len(l) |-> 1 + Cardinality(A(k))]
      OBVIOUS
    <3>3. Rank(l, f) = [k \in 1..Len(l) |-> 1 + Cardinality(B(k))]
      BY DEF Rank
    <3>. HIDE DEF A, B, pos
    <3>. QED  BY <3>1, <3>2, <3>3
  <2>. HIDE DEF pos
  <2>6. q = r
    BY <2>5 DEF InOrder
  <2>7. /\ r \in Seq(T) /\ Elements(r) = Elements(l)
        /\ Once(l) => Once(r)
        /\ Ordered(r, f)
    BY <2>2, <2>3, SortIs
  <2>. HIDE DEF q, r
  <2>8. SortNow(s) = [[s EXCEPT !.list = r] EXCEPT !.sort = TRUE]
    <3>1. sort_rrl(s) = [s EXCEPT !.list = q]
      BY DEF sort_rrl, q, pos, l
    <3>. QED  BY <3>1, <2>6, <1>2 DEF SortNow
  <2>9. PICK t : t = [[s EXCEPT !.list = r] EXCEPT !.sort = TRUE]
    OBVIOUS
  <2>10. T \subseteq OnList
    BY DEF T, ToBeListed, OnList
  <2>11. r \in Seq(OnList)
    <3>1. Len(r) \in Nat /\ DOMAIN r = 1..Len(r) /\ \A k \in 1..Len(r) : r[k] \in OnList
      BY <2>7, <2>10
    <3>2. r = [k \in 1..Len(r) |-> r[k]]
      BY <2>7
    <3>. QED  BY <3>1, <3>2
  <2>12. /\ t \in cache_t /\ t.list = r /\ t.ent = s.ent /\ t.size = s.size /\ t.num = s.num
         /\ t.sort
    BY <2>1, <2>9, <2>11 DEF cache_t, OnList
  <2>13. PICK u : u = [t EXCEPT !.sort = s.sort]
    OBVIOUS
  <2>14. /\ \A n : Has(t, n) <=> Has(s, n)
         /\ ToBeListed(t) = ToBeListed(s) /\ \A e : Stamp(t, e) = Stamp(s, e)
    BY <2>12 DEF Has, ToBeListed, Stamp
  <2>15. OK(t)
    <3>1. EntriesOK(t)
      BY <2>12, <2>14 DEF OK, EntriesOK
    <3>2. Lists(t, {})
      BY <2>1, <2>7, <2>12, <2>14 DEF Lists, T
    <3>. QED  BY <3>1, <3>2 DEF OK
  <2>16. ListSorted(t)
    <3>1. ASSUME NEW j \in 1..Len(r), NEW k \in 1..Len(r), j < k
          PROVE  Stamp(t, r[j]) <= Stamp(t, r[k])
      <4>1. f[r[j]] <= f[r[k]] /\ r[j] \in T /\ r[k] \in T
        BY <2>7, <3>1 DEF Ordered
      <4>. QED  BY <4>1, <2>3, <2>14
    <3>. QED  BY <3>1, <2>12 DEF ListSorted
  <2>17. Elements(t.list) = Elements(s.list)
    BY <2>7, <2>12 DEF l
  <2>18. Sorted(s, t)
    BY <2>12, <2>15, <2>16, <2>17 DEF Sorted
  <2>. QED  BY <2>8, <2>9, <2>18
<1>. QED  BY <1>1, <1>2

LEMMA SortedPurged ==
  ASSUME NEW s, NEW t, Sorted(s, t)
  PROVE  Purged(s, t) /\ \A Z : NoneEmptied(s, t, Z)
<1>1. \A n : (Has(t, n) <=> Has(s, n)) /\ t.ent[n] = s.ent[n]
  BY DEF Has, Sorted
<1>2. Taken(t) = Taken(s) /\ There(t) = There(s) /\ LocalSets(t) = LocalSets(s)
  BY <1>1 DEF Taken, There, LocalSets
<1>3. Books(s) => Books(t)
  BY <1>2 DEF Books, Sorted
<1>4. Less(s, t)
  BY <1>1 DEF Less, LessEntry
<1>5. (Tidy(s) => Tidy(t)) /\ OK(t) /\ t.sort
  BY DEF Sorted, Tidy
<1>6. Purged(s, t)
  BY <1>2, <1>3, <1>4, <1>5 DEF Purged
<1>. QED  BY <1>1, <1>6 DEF NoneEmptied

\* What is left of the list when sets and entries go.
LEMMA Shrunk ==
  ASSUME NEW s, OK(s), NEW t, EntriesOK(t), Less(s, t), NEW X, t.list = Without(s.list, X),
         ToBeListed(t) = ToBeListed(s) \ X, t.sort = s.sort
  PROVE  OK(t) /\ (Tidy(s) => Tidy(t))
<1>1. EntriesOK(s) /\ s.list \in Seq(OnList) /\ Once(s.list) /\ Elements(s.list) = ToBeListed(s)
  BY CacheFields DEF OK, Lists, EntriesOK
<1>2. Elements(t.list) = Elements(s.list) \ X /\ Once(t.list)
  BY <1>1, WithoutIs
<1>3. Lists(t, {})
  BY <1>1, <1>2 DEF Lists
<1>4. \A e \in Elements(t.list) : Stamp(t, e) = Stamp(s, e)
  BY <1>1, <1>3, LessListed DEF Lists
<1>5. ASSUME Tidy(s) PROVE Tidy(t)
  BY <1>1, <1>4, <1>5, KeepsOrder DEF Tidy
<1>. QED  BY <1>3, <1>5 DEF OK

\* Cache t is s but for entry n.
Frame(s, t, n) ==
  /\ OK(t) /\ t.size = s.size /\ t.num = s.num /\ t.sort = s.sort
  /\ \A m \in NameSet : Has(t, m) <=> Has(s, m)
  /\ \A m \in NameSet : m # n => t.ent[m] = s.ent[m]
  /\ Tidy(s) => Tidy(t)

LEMMA FrameReflexive == ASSUME NEW s, OK(s), NEW n PROVE Frame(s, s, n)
BY DEF Frame

LEMMA FrameTransitive ==
  ASSUME NEW s, NEW t, NEW u, NEW n, Frame(s, t, n), Frame(t, u, n)
  PROVE  Frame(s, u, n)
BY DEF Frame

\* Entry d is c without set i.
Lacks(d, c, i) ==
  /\ \A f : f # "AUTH" => (f \in d.flags <=> f \in c.flags)
  /\ d.ts = c.ts /\ d.ref = c.ref /\ d.rrext = c.rrext
  /\ d.rr[i] = None /\ \A j \in Indices : j # i => d.rr[j] = c.rr[j]

Dropped(s, t, n, i) == Frame(s, t, n) /\ Lacks(t.ent[n], s.ent[n], i)

LEMMA DelIndexIs ==
  ASSUME NEW s, OK(s), NEW n \in NameSet, Has(s, n), NEW i \in Indices
  PROVE  Dropped(s, del_cent_rrset_by_index(s, n, i), n, i)
<1>. DEFINE c == s.ent[n]
<1>1. EntriesOK(s) /\ EntryOK(c) /\ c \in dns_cent_t /\ s \in cache_t
  BY DEF OK, EntriesOK, EntryOK
<1>2. CASE IsNeg(c) \/ c.rr[i] = None
  <2>1. del_cent_rrset_by_index(s, n, i) = s
    BY <1>2 DEF del_cent_rrset_by_index
  <2>2. c.rr[i] = None
    BY <1>1, <1>2 DEF EntryOK
  <2>3. Dropped(s, s, n, i)
    BY <2>2 DEF Dropped, Frame, Lacks
  <2>. QED  BY <2>1, <2>3
<1>3. CASE ~ IsNeg(c) /\ c.rr[i] # None
  <2>. DEFINE X == {<<n, i>>}
  <2>1. c.rr[i] \in rr_set_t
    BY <1>1, <1>3 DEF dns_cent_t
  <2>2. SetSize(c.rr[i]) \in Nat
    BY <2>1, <1>3, SetSizeNat
  <2>3. PICK d : d = del_rrset(c, i)
    OBVIOUS
  <2>4. /\ d.rr[i] = None /\ \A j \in Indices : j # i => d.rr[j] = c.rr[j]
        /\ d.num_rrs = c.num_rrs - 1 /\ d.cs = c.cs - SetSize(c.rr[i])
        /\ d.flags = c.flags \ {"AUTH"} /\ d.ts = c.ts /\ d.ref = c.ref /\ d.rrext = c.rrext
    BY <1>1, <2>3 DEF dns_cent_t, del_rrset
  <2>5. d \in dns_cent_t
    <3>1. [c.rr EXCEPT ![i] = None] \in [Indices -> rr_set_t \cup {None}]
      BY <1>1 DEF dns_cent_t
    <3>2. c.num_rrs - 1 \in Int /\ c.cs - SetSize(c.rr[i]) \in Int
          /\ c.flags \ {"AUTH"} \in SUBSET Flags
      BY <1>1, <2>2 DEF dns_cent_t
    <3>. QED  BY <1>1, <2>3, <3>1, <3>2 DEF dns_cent_t, del_rrset
  <2>6. EntryOK(d) /\ ~ IsNeg(d)
    <3>1. Header(d) = Header(c) /\ Header(c) \in Nat /\ c.cs \in Int
      BY <1>1, <2>4, WeightNat DEF Header, dns_cent_t
    <3>2. d.cs = c.cs + (Header(d) - Header(c)) - SetSize(c.rr[i])
      BY <3>1, <2>2, <2>4
    <3>3. ~ IsNeg(d)
      BY <1>3, <2>4 DEF IsNeg
    <3>. QED  BY <1>1, <1>3, <2>4, <2>5, <3>2, <3>3, WithoutSet
  <2>7. PICK t : t = [s EXCEPT !.list = Without(s.list, X), !.ent[n] = d]
    OBVIOUS
  <2>8. del_cent_rrset_by_index(s, n, i) = t
    <3>1. del_cent_rrset_by_index(s, n, i)
            = [remove_rrl(s, <<n, i>>) EXCEPT !.ent[n] = del_rrset(@, i)]
      BY <1>3 DEF del_cent_rrset_by_index
    <3>2. remove_rrl(s, <<n, i>>) = [s EXCEPT !.list = Without(s.list, X)]
      BY DEF remove_rrl
    <3>3. remove_rrl(s, <<n, i>>).ent[n] = c
      BY <1>1, <3>2 DEF cache_t
    <3>. QED  BY <2>3, <2>7, <3>1, <3>2, <3>3
  <2>9. Without(s.list, X) \in Seq(OnList)
    BY <1>1, CacheFields, WithoutIs
  <2>10. /\ t \in cache_t /\ t.list = Without(s.list, X) /\ t.ent[n] = d
         /\ \A m \in NameSet : m # n => t.ent[m] = s.ent[m]
         /\ t.size = s.size /\ t.num = s.num /\ t.sort = s.sort
    BY <1>1, <2>5, <2>7, <2>9 DEF cache_t, OnList
  <2>11. \A m \in NameSet : Has(t, m) <=> Has(s, m)
    BY <2>5, <2>10, Constants DEF Has
  <2>12. EntriesOK(t)
    BY <1>1, <2>6, <2>10, <2>11 DEF EntriesOK
  <2>13. Lacks(d, c, i)
    BY <2>4 DEF Lacks
  <2>14. Less(s, t)
    <3>1. \A m : LessEntry(s.ent[m], s.ent[m])
      BY DEF LessEntry
    <3>2. LessEntry(d, c)
      BY <2>4 DEF LessEntry, IsNeg
    <3>. QED  BY <2>10, <2>11, <3>1, <3>2 DEF Less
  <2>15. ToBeListed(t) = ToBeListed(s) \ X
    <3>1. ASSUME NEW e \in OnList PROVE e \in ToBeListed(t) <=> e \in ToBeListed(s) \ X
      <4>0. e[1] \in NameSet /\ e[2] \in Indices \cup {0} /\ e = <<e[1], e[2]>>
        BY DEF OnList
      <4>1. CASE e[1] # n
        BY <4>0, <4>1, <2>10, <2>11 DEF ToBeListed
      <4>2. CASE e[1] = n
        <5>1. "LOCAL" \in d.flags <=> "LOCAL" \in c.flags
          BY <2>4
        <5>2. CASE e[2] = 0
          BY <4>0, <4>2, <5>1, <5>2, <2>6, <2>10, <2>11, <1>3, Constants DEF ToBeListed
        <5>3. CASE e[2] = i
          BY <4>0, <4>2, <5>3, <2>4, <2>10, <2>11, Constants DEF ToBeListed, IsListed
        <5>4. CASE e[2] # 0 /\ e[2] # i
          BY <4>0, <4>2, <5>1, <5>4, <2>4, <2>10, <2>11 DEF ToBeListed
        <5>. QED  BY <5>2, <5>3, <5>4
      <4>. QED  BY <4>1, <4>2
    <3>2. ToBeListed(t) \subseteq OnList /\ ToBeListed(s) \subseteq OnList
      BY DEF ToBeListed, OnList
    <3>. QED  BY <3>1, <3>2
  <2>16. OK(t) /\ (Tidy(s) => Tidy(t))
    BY <2>10, <2>12, <2>14, <2>15, Shrunk
  <2>. QED  BY <2>8, <2>10, <2>11, <2>13, <2>16 DEF Dropped, Frame
<1>. QED  BY <1>2, <1>3

\* Cache t is s without entry n.
Deleted(s, t, n) ==
  /\ OK(t) /\ t.sort = s.sort /\ ~ Has(t, n)
  /\ \A m \in NameSet : m # n => t.ent[m] = s.ent[m] /\ (Has(t, m) <=> Has(s, m))
  /\ Less(s, t) /\ (Tidy(s) => Tidy(t)) /\ (Books(s) => Books(t))

LEMMA DelCentIs ==
  ASSUME NEW s, OK(s), NEW n \in NameSet, Has(s, n)
  PROVE  Deleted(s, del_cent(s, n), n)
<1>. DEFINE X == {n} \X (Indices \cup {0})
            c == s.ent[n]
<1>1. EntriesOK(s) /\ EntryOK(c) /\ c \in dns_cent_t /\ s \in cache_t /\ c.cs \in Int
  BY DEF OK, EntriesOK, EntryOK, dns_cent_t
<1>2. PICK t : t = [s EXCEPT !.ent[n] = None, !.size = @ - c.cs, !.num = @ - 1,
                             !.list = Without(@, X)]
  OBVIOUS
<1>3. t = del_cent(s, n)
  BY <1>2 DEF del_cent
<1>4. Without(s.list, X) \in Seq(OnList)
  BY <1>1, CacheFields, WithoutIs
<1>5. /\ t.list = Without(s.list, X) /\ t.ent[n] = None
      /\ \A m \in NameSet : m # n => t.ent[m] = s.ent[m]
      /\ t.size = s.size - c.cs /\ t.num = s.num - 1 /\ t.sort = s.sort
  BY <1>1, <1>2 DEF cache_t
<1>6. t \in cache_t
  <2>1. s.size - c.cs \in Int /\ s.num - 1 \in Int
    BY <1>1, CacheFields
  <2>. QED  BY <1>1, <1>2, <1>4, <2>1 DEF cache_t, OnList
<1>7. ~ Has(t, n) /\ \A m \in NameSet : m # n => (Has(t, m) <=> Has(s, m))
  BY <1>5 DEF Has
<1>8. EntriesOK(t)
  BY <1>1, <1>5, <1>6, <1>7 DEF EntriesOK
<1>9. Less(s, t)
  BY <1>5, <1>7 DEF Less, LessEntry
<1>10. ToBeListed(t) = ToBeListed(s) \ X
  <2>1. ASSUME NEW e \in OnList PROVE e \in ToBeListed(t) <=> e \in ToBeListed(s) \ X
    <3>0. e[1] \in NameSet /\ e[2] \in Indices \cup {0} /\ (e \in X <=> e[1] = n)
      BY DEF OnList
    <3>. HIDE DEF X
    <3>1. CASE e[1] # n
      <4>1. t.ent[e[1]] = s.ent[e[1]] /\ (Has(t, e[1]) <=> Has(s, e[1]))
        BY <3>0, <3>1, <1>5, <1>7
      <4>. QED  BY <3>0, <3>1, <4>1 DEF ToBeListed
    <3>2. CASE e[1] = n
      BY <3>0, <3>2, <1>7 DEF ToBeListed
    <3>. QED  BY <3>1, <3>2
  <2>2. ToBeListed(t) \subseteq OnList /\ ToBeListed(s) \subseteq OnList
    BY DEF ToBeListed, OnList
  <2>. QED  BY <2>1, <2>2
<1>11. OK(t) /\ (Tidy(s) => Tidy(t))
  BY <1>5, <1>8, <1>9, <1>10, Shrunk
<1>12. ASSUME Books(s) PROVE Books(t)
  <2>1. SumFunction(Taken(t)) = SumFunction(Taken(s)) + (Taken(t)[n] - Taken(s)[n])
    BY <1>1, <1>5, <1>8, TakenChange
  <2>2. Taken(t)[n] = 0 /\ Taken(s)[n] = c.cs /\ SumFunction(Taken(s)) \in Nat
    BY <1>1, <1>7, <1>8, TakenNat
  <2>3. SumFunction(Taken(t)) = t.size
    BY <2>1, <2>2, <1>1, <1>5, <1>12 DEF Books
  <2>4. There(t) = There(s) \ {n} /\ n \in There(s)
    BY <1>7 DEF There
  <2>5. Cardinality(There(t)) = Cardinality(There(s)) - 1
    <3>1. IsFiniteSet(There(s))
      BY <1>1, TakenNat
    <3>. QED  BY <3>1, <2>4, Smaller
  <2>. QED  BY <2>3, <2>5, <1>5, <1>12 DEF Books
<1>. QED  BY <1>3, <1>5, <1>7, <1>9, <1>11, <1>12 DEF Deleted

\* DelRRset does what del_cent_rrset_by_index does, and keeps the books.
Booked(s, t, n) ==
  /\ OK(t) /\ t.sort = s.sort
  /\ \A m \in NameSet : Has(t, m) <=> Has(s, m)
  /\ \A m \in NameSet : m # n => t.ent[m] = s.ent[m]
  /\ Tidy(s) => Tidy(t)
  /\ Books(s) => Books(t)

\* A frame whose size is right.
LEMMA Resized ==
  ASSUME NEW s, OK(s), NEW n \in NameSet, Has(s, n), NEW u, Frame(s, u, n),
         NEW t, t = [u EXCEPT !.size = @ - (s.ent[n].cs - u.ent[n].cs)]
  PROVE  Booked(s, t, n) /\ t.ent = u.ent /\ t.list = u.list
<1>1. u \in cache_t /\ EntriesOK(u) /\ EntriesOK(s) /\ u.size = s.size /\ u.num = s.num
  BY DEF Frame, OK, EntriesOK
<1>2. /\ EntryOK(s.ent[n]) /\ EntryOK(u.ent[n]) /\ Has(u, n)
      /\ s.ent[n].cs \in Int /\ u.ent[n].cs \in Int
  BY <1>1 DEF Frame, EntriesOK, EntryOK, dns_cent_t
<1>3. /\ t.ent = u.ent /\ t.list = u.list /\ t.num = u.num /\ t.sort = u.sort
      /\ t.size = u.size - (s.ent[n].cs - u.ent[n].cs)
  BY <1>1 DEF cache_t
<1>4. t \in cache_t
  <2>1. u.size - (s.ent[n].cs - u.ent[n].cs) \in Int
    BY <1>1, <1>2, CacheFields
  <2>. QED  BY <1>1, <2>1 DEF cache_t
<1>5. /\ \A m : Has(t, m) <=> Has(u, m)
      /\ ToBeListed(t) = ToBeListed(u) /\ \A e : Stamp(t, e) = Stamp(u, e)
  BY <1>3 DEF Has, ToBeListed, Stamp
<1>6. OK(t) /\ (Tidy(s) => Tidy(t))
  <2>1. EntriesOK(t)
    BY <1>1, <1>3, <1>4, <1>5 DEF EntriesOK
  <2>2. Lists(t, {})
    BY <1>3, <1>5 DEF Frame, OK, Lists
  <2>3. Tidy(u) => Tidy(t)
    BY <1>3, <1>5 DEF Tidy, ListSorted
  <2>. QED  BY <2>1, <2>2, <2>3 DEF OK, Frame
<1>7. ASSUME Books(s) PROVE Books(t)
  <2>1. \A m \in NameSet : m # n => t.ent[m] = s.ent[m]
    BY <1>3 DEF Frame
  <2>2. SumFunction(Taken(t)) = SumFunction(Taken(s)) + (Taken(t)[n] - Taken(s)[n])
    BY <1>1, <1>6, <2>1, TakenChange DEF OK
  <2>3. /\ Taken(t)[n] = u.ent[n].cs /\ Taken(s)[n] = s.ent[n].cs
        /\ SumFunction(Taken(s)) \in Nat
    BY <1>1, <1>2, <1>3, <1>5, <1>6, TakenNat DEF OK
  <2>4. There(t) = There(s)
    BY <1>5 DEF There, Frame
  <2>. QED  BY <2>2, <2>3, <2>4, <1>1, <1>2, <1>3, <1>7 DEF Books
<1>. QED  BY <1>3, <1>5, <1>6, <1>7 DEF Booked, Frame

LEMMA DelRRsetIs ==
  ASSUME NEW s, OK(s), NEW n \in NameSet, Has(s, n), NEW i \in Indices
  PROVE  Booked(s, DelRRset(s, n, i), n) /\ Lacks(DelRRset(s, n, i).ent[n], s.ent[n], i)
<1>1. PICK u : u = del_cent_rrset_by_index(s, n, i)
  OBVIOUS
<1>2. Frame(s, u, n) /\ Lacks(u.ent[n], s.ent[n], i)
  BY <1>1, DelIndexIs DEF Dropped
<1>3. PICK t : t = [u EXCEPT !.size = @ - (s.ent[n].cs - u.ent[n].cs)]
  OBVIOUS
<1>4. t = DelRRset(s, n, i)
  BY <1>1, <1>3 DEF DelRRset
<1>5. Booked(s, t, n) /\ t.ent = u.ent
  BY <1>2, <1>3, Resized
<1>. QED  BY <1>2, <1>4, <1>5

\* A set that is not local goes.
LEMMA LackingPurged ==
  ASSUME NEW s, OK(s), NEW n \in NameSet, Has(s, n), NEW i \in Indices,
         NEW t, Booked(s, t, n), Lacks(t.ent[n], s.ent[n], i),
         s.ent[n].rr[i] # None => "LOCAL" \notin s.ent[n].rr[i].flags
  PROVE  Purged(s, t) /\ NoneEmptied(s, t, {n})
<1>1. LessEntry(t.ent[n], s.ent[n])
  <2>1. IsNeg(t.ent[n]) <=> IsNeg(s.ent[n])
    BY DEF Lacks, IsNeg
  <2>2. "LOCAL" \in t.ent[n].flags <=> "LOCAL" \in s.ent[n].flags
    BY DEF Lacks
  <2>. QED  BY <2>1, <2>2 DEF Lacks, LessEntry
<1>2. Less(s, t)
  BY <1>1 DEF Less, Booked, LessEntry
<1>3. LocalSets(s) \subseteq LocalSets(t)
  <2>1. SUFFICES ASSUME NEW e \in LocalSets(s) PROVE e \in LocalSets(t)
    OBVIOUS
  <2>2. /\ e \in NameSet \X Indices /\ e[1] \in NameSet /\ e[2] \in Indices
        /\ Has(s, e[1]) /\ s.ent[e[1]].rr[e[2]] # None /\ "LOCAL" \in s.ent[e[1]].rr[e[2]].flags
    BY DEF LocalSets
  <2>3. Has(t, e[1])
    BY <2>2 DEF Booked
  <2>4. t.ent[e[1]].rr[e[2]] = s.ent[e[1]].rr[e[2]]
    <3>1. CASE e[1] # n
      BY <2>2, <3>1 DEF Booked
    <3>2. CASE e[1] = n
      <4>1. e[2] # i
        BY <2>2, <3>2
      <4>. QED  BY <2>2, <3>2, <4>1 DEF Lacks
    <3>. QED  BY <3>1, <3>2
  <2>. QED  BY <2>2, <2>3, <2>4 DEF LocalSets
<1>4. NoneEmptied(s, t, {n})
  BY DEF NoneEmptied, Booked
<1>5. (Books(s) => Books(t)) /\ (Tidy(s) => Tidy(t)) /\ OK(t) /\ t.sort = s.sort
  BY DEF Booked
<1>. QED  BY <1>2, <1>3, <1>4, <1>5 DEF Purged

\* An entry without sets goes.
LEMMA DeletedPurged ==
  ASSUME NEW s, OK(s), NEW n \in NameSet, Has(s, n), NEW t, Deleted(s, t, n),
         \A i \in Indices : s.ent[n].rr[i] # None => "LOCAL" \notin s.ent[n].rr[i].flags
  PROVE  Purged(s, t) /\ NoneEmptied(s, t, {})
<1>1. LocalSets(s) \subseteq LocalSets(t)
  BY DEF LocalSets, Deleted
<1>2. NoneEmptied(s, t, {})
  BY DEF NoneEmptied, Deleted
<1>3. Less(s, t) /\ (Books(s) => Books(t)) /\ (Tidy(s) => Tidy(t)) /\ OK(t) /\ t.sort = s.sort
  BY DEF Deleted
<1>. QED  BY <1>1, <1>2, <1>3 DEF Purged

\* Entry d has the sets of c.
SameLists(d, c) ==
  /\ "LOCAL" \in d.flags <=> "LOCAL" \in c.flags
  /\ IsNeg(d) <=> IsNeg(c)
  /\ d.ts = c.ts /\ \A i \in Indices : d.rr[i] = c.rr[i]

\* Cache t is s with entry d under name n.
Replaced(s, t, n, d) == Frame(s, t, n) /\ t.ent[n] = d /\ t.list = s.list

LEMMA EntReplaced ==
  ASSUME NEW s, OK(s), NEW n \in NameSet, Has(s, n), NEW d, EntryOK(d), SameLists(d, s.ent[n]),
         NEW t, t = [s EXCEPT !.ent[n] = d]
  PROVE  Replaced(s, t, n, d)
<1>1. EntriesOK(s) /\ s \in cache_t /\ d \in dns_cent_t
  BY DEF OK, EntriesOK, EntryOK
<1>2. /\ t.list = s.list /\ t.ent[n] = d /\ t.size = s.size /\ t.num = s.num /\ t.sort = s.sort
      /\ \A m \in NameSet : m # n => t.ent[m] = s.ent[m]
  BY <1>1 DEF cache_t
<1>3. t \in cache_t
  BY <1>1 DEF cache_t
<1>4. \A m \in NameSet : Has(t, m) <=> Has(s, m)
  BY <1>1, <1>2, Constants DEF Has
<1>5. EntriesOK(t)
  BY <1>1, <1>2, <1>3, <1>4 DEF EntriesOK
<1>6. ToBeListed(t) = ToBeListed(s) /\ \A e \in OnList : Stamp(t, e) = Stamp(s, e)
  <2>1. ASSUME NEW e \in OnList
        PROVE  (e \in ToBeListed(t) <=> e \in ToBeListed(s)) /\ Stamp(t, e) = Stamp(s, e)
    <3>0. e[1] \in NameSet /\ e[2] \in Indices \cup {0}
      BY DEF OnList
    <3>1. CASE e[1] # n
      <4>1. t.ent[e[1]] = s.ent[e[1]] /\ (Has(t, e[1]) <=> Has(s, e[1]))
        BY <3>0, <3>1, <1>2, <1>4
      <4>. QED  BY <3>0, <4>1 DEF ToBeListed, Stamp
    <3>2. CASE e[1] = n
      <4>1. /\ "LOCAL" \in t.ent[n].flags <=> "LOCAL" \in s.ent[n].flags
            /\ IsNeg(t.ent[n]) <=> IsNeg(s.ent[n])
            /\ t.ent[n].ts = s.ent[n].ts
            /\ e[2] # 0 => t.ent[n].rr[e[2]] = s.ent[n].rr[e[2]]
        BY <3>0, <1>2 DEF SameLists
      <4>. QED  BY <3>0, <3>2, <4>1, <1>4 DEF ToBeListed, Stamp
    <3>. QED  BY <3>1, <3>2
  <2>2. ToBeListed(t) \subseteq OnList /\ ToBeListed(s) \subseteq OnList
    BY DEF ToBeListed, OnList
  <2>. QED  BY <2>1, <2>2
<1>7. OK(t)
  BY <1>2, <1>5, <1>6 DEF OK, Lists
<1>8. ASSUME Tidy(s) PROVE Tidy(t)
  <2>1. \A k \in 1..Len(s.list) : s.list[k] \in OnList
    BY <1>1, CacheFields
  <2>. QED  BY <1>2, <1>6, <1>8, <2>1 DEF Tidy, ListSorted
<1>. QED  BY <1>2, <1>4, <1>7, <1>8 DEF Replaced, Frame

\* Its size being the same, the books are kept.
LEMMA SameSize ==
  ASSUME NEW s, OK(s), NEW n \in NameSet, Has(s, n), NEW t, Frame(s, t, n),
         t.ent[n].cs = s.ent[n].cs
  PROVE  Booked(s, t, n)
<1>1. EntriesOK(s) /\ EntriesOK(t) /\ Has(t, n)
  BY DEF OK, Frame
<1>2. ASSUME Books(s) PROVE Books(t)
  <2>1. SumFunction(Taken(t)) = SumFunction(Taken(s)) + (Taken(t)[n] - Taken(s)[n])
    BY <1>1, TakenChange DEF Frame
  <2>2. Taken(t)[n] = Taken(s)[n] /\ Taken(s)[n] \in Int /\ SumFunction(Taken(s)) \in Nat
    BY <1>1, TakenNat
  <2>3. There(t) = There(s)
    BY DEF There, Frame
  <2>4. SumFunction(Taken(t)) = SumFunction(Taken(s))
    BY <2>1, <2>2
  <2>. QED  BY <2>3, <2>4, <1>2 DEF Books, Frame
<1>. QED  BY <1>2 DEF Booked, Frame

\* Nothing is purged of an entry that keeps its sets.
LEMMA ReplacedPurged ==
  ASSUME NEW s, OK(s), NEW n \in NameSet, Has(s, n), NEW t, Booked(s, t, n),
         SameLists(t.ent[n], s.ent[n]), t.ent[n].rrext => s.ent[n].rrext
  PROVE  Purged(s, t) /\ NoneEmptied(s, t, {})
<1>1. LessEntry(t.ent[n], s.ent[n])
  BY DEF LessEntry, SameLists
<1>2. Less(s, t)
  BY <1>1 DEF Less, Booked, LessEntry
<1>3. LocalSets(s) \subseteq LocalSets(t)
  BY DEF LocalSets, Booked, SameLists
<1>4. NoneEmptied(s, t, {})
  <2>1. EntryOK(s.ent[n]) /\ EntryOK(t.ent[n])
    BY DEF Booked, OK, EntriesOK
  <2>2. s.ent[n].num_rrs = t.ent[n].num_rrs
    <3>1. NumSets(s.ent[n]) = NumSets(t.ent[n])
      BY <2>1, SameSets DEF EntryOK, SameLists
    <3>. QED  BY <2>1, <3>1 DEF EntryOK
  <2>3. IsEmpty(t.ent[n]) => IsEmpty(s.ent[n])
    BY <2>2 DEF IsEmpty, SameLists
  <2>. QED  BY <2>3 DEF NoneEmptied, Booked
<1>5. (Books(s) => Books(t)) /\ (Tidy(s) => Tidy(t)) /\ OK(t) /\ t.sort = s.sort
  BY DEF Booked
<1>. QED  BY <1>2, <1>3, <1>4, <1>5 DEF Purged

\* Purging within entry n.
Within(s, t, n) ==
  /\ Purged(s, t) /\ NoneEmptied(s, t, {n}) /\ t.sort = s.sort
  /\ \A m \in NameSet : Has(t, m) <=> Has(s, m)
  /\ \A m \in NameSet : m # n => t.ent[m] = s.ent[m]

LEMMA WithinReflexive == ASSUME NEW s, OK(s), NEW n PROVE Within(s, s, n)
BY PurgedReflexive DEF Within, NoneEmptied

LEMMA WithinTransitive ==
  ASSUME NEW s, NEW t, NEW u, NEW n, Within(s, t, n), Within(t, u, n)
  PROVE  Within(s, u, n)
<1>1. Purged(s, u)
  BY PurgedTransitive DEF Within
<1>2. NoneEmptied(s, u, {n})
  BY NoneEmptiedTransitive DEF Within
<1>. QED  BY <1>1, <1>2 DEF Within

\* What is left of an entry without the array rrext.
LEMMA WithoutExtIs ==
  ASSUME NEW c, EntryOK(c), c.rrext
  PROVE  /\ EntryOK(WithoutExt(c)) /\ SameLists(WithoutExt(c), c) /\ ~ WithoutExt(c).rrext
         /\ WithoutExt(c).cs = c.cs - ExtSize /\ WithoutExt(c).flags = c.flags
         /\ WithoutExt(c).ref = c.ref
<1>1. PICK d : d = WithoutExt(c)
  OBVIOUS
<1>2. c \in dns_cent_t
  BY DEF EntryOK
<1>3. /\ d.rr = c.rr /\ d.rrext = FALSE /\ d.cs = c.cs - ExtSize /\ d.flags = c.flags
      /\ d.num_rrs = c.num_rrs /\ d.ts = c.ts /\ d.ref = c.ref
  BY <1>1, <1>2 DEF WithoutExt, dns_cent_t
<1>4. c.cs - ExtSize \in Int
  BY <1>2 DEF dns_cent_t, ExtSize
<1>5. d \in dns_cent_t
  BY <1>1, <1>2, <1>4 DEF WithoutExt, dns_cent_t
<1>6. d.cs = c.cs + (Header(d) - Header(c))
  <2>1. c.cs \in Int
    BY <1>2 DEF dns_cent_t
  <2>. QED  BY <2>1, <1>3 DEF Header, CentSize, ExtSize
<1>7. IsNeg(d) <=> IsNeg(c)
  BY <1>3 DEF IsNeg
<1>8. EntryOK(d)
  BY <1>3, <1>5, <1>6, <1>7, WithSameSets
<1>. QED  BY <1>1, <1>3, <1>7, <1>8 DEF SameLists

LEMMA FreeRrextIs ==
  ASSUME NEW s, OK(s), NEW n \in NameSet, Has(s, n)
  PROVE  Within(s, FreeRrext(s, n), n)
<1>. DEFINE c == s.ent[n]
            cond == c.rrext /\ \A i \in Indices : Types[i] \in Ext => c.rr[i] = None
<1>1. CASE ~ cond
  <2>1. FreeRrext(s, n) = s
    BY <1>1 DEF FreeRrext
  <2>. QED  BY <2>1, WithinReflexive
<1>2. CASE cond
  <2>1. EntryOK(c) /\ s \in cache_t /\ c.cs \in Int
    BY DEF OK, EntriesOK, EntryOK, dns_cent_t
  <2>2. PICK d : d = WithoutExt(c)
    OBVIOUS
  <2>3. EntryOK(d) /\ SameLists(d, c) /\ ~ d.rrext /\ d.cs = c.cs - ExtSize
    BY <1>2, <2>1, <2>2, WithoutExtIs
  <2>4. PICK u : u = [s EXCEPT !.ent[n] = d]
    OBVIOUS
  <2>5. Frame(s, u, n) /\ u.ent[n] = d /\ u.size = s.size
    <3>1. Replaced(s, u, n, d)
      BY <2>3, <2>4, EntReplaced
    <3>. QED  BY <3>1 DEF Replaced, Frame
  <2>6. PICK t : t = [u EXCEPT !.size = @ - (c.cs - d.cs)]
    OBVIOUS
  <2>7. Booked(s, t, n) /\ t.ent = u.ent
    BY <2>5, <2>6, Resized
  <2>8. FreeRrext(s, n) = t
    <3>1. FreeRrext(s, n) = [s EXCEPT !.ent[n] = WithoutExt(c), !.size = @ - ExtSize]
      BY <1>2 DEF FreeRrext
    <3>2. c.cs - d.cs = ExtSize
      BY <2>1, <2>3 DEF ExtSize
    <3>. HIDE DEF c
    <3>. QED  BY <3>1, <3>2, <2>2, <2>4, <2>6
  <2>9. Purged(s, t) /\ NoneEmptied(s, t, {})
    BY <2>3, <2>5, <2>7, ReplacedPurged
  <2>. QED  BY <2>7, <2>8, <2>9 DEF Within, Booked, NoneEmptied
<1>. QED  BY <1>1, <1>2

LEMMA PurgeRrsetIs ==
  ASSUME NEW s, OK(s), NEW n \in NameSet, Has(s, n), NEW i \in Indices
  PROVE  Within(s, purge_rrset(s, n, i), n)
<1>1. CASE ~ IsNeg(s.ent[n]) /\ Purgeable(s.ent[n].rr[i])
  <2>1. PICK t : t = DelRRset(s, n, i)
    OBVIOUS
  <2>2. purge_rrset(s, n, i) = t
    BY <1>1, <2>1 DEF purge_rrset
  <2>3. Booked(s, t, n) /\ Lacks(t.ent[n], s.ent[n], i)
    BY <2>1, DelRRsetIs
  <2>4. "LOCAL" \notin s.ent[n].rr[i].flags
    BY <1>1 DEF Purgeable
  <2>5. Purged(s, t) /\ NoneEmptied(s, t, {n})
    BY <2>3, <2>4, LackingPurged
  <2>. QED  BY <2>2, <2>3, <2>5 DEF Within, Booked
<1>2. CASE ~ (~ IsNeg(s.ent[n]) /\ Purgeable(s.ent[n].rr[i]))
  <2>1. purge_rrset(s, n, i) = s
    BY <1>2 DEF purge_rrset
  <2>. QED  BY <2>1, WithinReflexive
<1>. QED  BY <1>1, <1>2

LEMMA PurgeSetsSteps ==
  ASSUME NEW s, NEW n
  PROVE  \E F : /\ F[0] = s /\ PurgeSets(s, n) = F[Len(Types)]
                /\ \A k \in 1..Len(Types) : F[k] = purge_rrset(F[k - 1], n, IndexSeq[k])
<1>. DEFINE Op(u, y) == purge_rrset(u, n, IndexSeq[y])
            Value(G, x) == IF x = {} THEN s ELSE Op(G[x \ {Max(x)}], Max(x))
            Rec(G, D) == G = [x \in SUBSET D |-> Value(G, x)]
            Is(k) == \E G : Rec(G, 1..k)
            S == {k \in Nat : Is(k)}
<1>0. Len(Types) \in Nat
  BY Constants
<1>1. PurgeSets(s, n) = (CHOOSE G : Rec(G, 1..Len(Types)))[1..Len(Types)]
  BY Constants DEF PurgeSets, FoldLeft, MapThenFoldSet
<1>. HIDE DEF Op
<1>2. 0 \in S
  <2>. DEFINE G == [x \in SUBSET (1..0) |-> s]
  <2>1. \A x \in SUBSET (1..0) : Value(G, x) = s
    OBVIOUS
  <2>2. Is(0)
    BY <2>1
  <2>. HIDE DEF Is
  <2>. QED  BY <2>2
<1>3. ASSUME NEW k \in Nat, k \in S PROVE k + 1 \in S
  <2>1. PICK G : Rec(G, 1..k)
    BY <1>3
  <2>. DEFINE H == [x \in SUBSET (1..(k + 1)) |-> IF k + 1 \in x THEN Value(G, x) ELSE G[x]]
  <2>2. ASSUME NEW x \in SUBSET (1..(k + 1)) PROVE H[x] = Value(H, x)
    <3>1. CASE x = {}
      BY <3>1, <2>1
    <3>2. CASE x # {}
      <4>1. x \ {Max(x)} \in SUBSET (1..k) /\ H[x \ {Max(x)}] = G[x \ {Max(x)}]
        BY <3>2, UpTo
      <4>2. H[x] = Value(G, x)
        BY <2>1, <3>2, UpTo
      <4>. QED  BY <4>1, <4>2, <3>2
    <3>. QED  BY <3>1, <3>2
  <2>3. Rec(H, 1..(k + 1))
    BY <2>2
  <2>. HIDE DEF H
  <2>4. Is(k + 1)
    BY <2>3
  <2>. HIDE DEF Is
  <2>. QED  BY <2>4
<1>4. Len(Types) \in S
  <2>. HIDE DEF S
  <2>. QED  BY <1>0, <1>2, <1>3, Induction
<1>5. PICK G : Rec(G, 1..Len(Types)) /\ PurgeSets(s, n) = G[1..Len(Types)]
  BY <1>1, <1>4
<1>. DEFINE F == [k \in 0..Len(Types) |-> G[1..k]]
<1>6. ASSUME NEW k \in 1..Len(Types) PROVE F[k] = Op(F[k - 1], k)
  <2>1. PICK j \in Nat : k = j + 1
    <3>1. k - 1 \in Nat /\ k = (k - 1) + 1
      BY <1>0
    <3>. QED  BY <3>1
  <2>2. 1..k \in SUBSET (1..Len(Types)) /\ F[k] = G[1..k] /\ F[k - 1] = G[1..j]
    BY <1>0, <2>1
  <2>3. G[1..k] = Value(G, 1..k)
    BY <2>2, <1>5
  <2>4. 1..k # {} /\ Max(1..k) = k /\ (1..k) \ {k} = 1..j
    BY <2>1, UpTo
  <2>. QED  BY <2>2, <2>3, <2>4
<1>7. F[0] = s
  BY <1>0, <1>5
<1>8. F[Len(Types)] = PurgeSets(s, n)
  BY <1>0, <1>5
<1>. HIDE DEF F
<1>. QED  BY <1>6, <1>7, <1>8 DEF Op

LEMMA PurgeSetsIs ==
  ASSUME NEW s, OK(s), NEW n \in NameSet, Has(s, n)
  PROVE  Within(s, PurgeSets(s, n), n)
<1>1. PICK F : /\ F[0] = s /\ PurgeSets(s, n) = F[Len(Types)]
               /\ \A k \in 1..Len(Types) : F[k] = purge_rrset(F[k - 1], n, IndexSeq[k])
  BY PurgeSetsSteps
<1>. DEFINE S == {k \in Nat : k <= Len(Types) => Within(s, F[k], n)}
<1>2. 0 \in S
  BY <1>1, WithinReflexive
<1>3. ASSUME NEW k \in Nat, k \in S PROVE k + 1 \in S
  <2>1. SUFFICES ASSUME k + 1 <= Len(Types) PROVE Within(s, F[k + 1], n)
    OBVIOUS
  <2>2. k <= Len(Types) /\ k + 1 \in 1..Len(Types) /\ (k + 1) - 1 = k
    BY <2>1, Constants
  <2>3. Within(s, F[k], n)
    BY <1>3, <2>2
  <2>4. k + 1 \in Indices /\ IndexSeq[k + 1] = k + 1
    BY <2>2, Constants
  <2>5. F[k + 1] = purge_rrset(F[k], n, k + 1)
    BY <1>1, <2>2, <2>4
  <2>6. OK(F[k]) /\ Has(F[k], n)
    BY <2>3 DEF Within, Purged
  <2>7. Within(F[k], F[k + 1], n)
    BY <2>4, <2>5, <2>6, PurgeRrsetIs
  <2>. QED  BY <2>3, <2>7, WithinTransitive
<1>4. Len(Types) \in S
  <2>. HIDE DEF S
  <2>. QED  BY <1>2, <1>3, Induction, Constants
<1>. QED  BY <1>1, <1>4, Constants

LEMMA PurgeAllRrsetsIs ==
  ASSUME NEW s, OK(s), NEW n \in NameSet, Has(s, n)
  PROVE  Within(s, purge_all_rrsets(s, n), n)
<1>1. PICK t : t = PurgeSets(s, n)
  OBVIOUS
<1>2. Within(s, t, n)
  BY <1>1, PurgeSetsIs
<1>3. OK(t) /\ Has(t, n)
  BY <1>2 DEF Within, Purged
<1>4. Within(t, FreeRrext(t, n), n)
  BY <1>3, FreeRrextIs
<1>. QED  BY <1>1, <1>2, <1>4, WithinTransitive DEF purge_all_rrsets

\* purge_cent: the entry is deleted only if that was asked for, and an empty one is left
\* only if it was not.
Cleaned(s, t, n, delete) ==
  /\ Purged(s, t) /\ t.sort = s.sort
  /\ NoneEmptied(s, t, IF delete THEN {} ELSE {n})
  /\ \A m \in NameSet : m # n => t.ent[m] = s.ent[m] /\ (Has(t, m) <=> Has(s, m))
  /\ ~ delete => Has(t, n)

LEMMA PurgeRestIs ==
  ASSUME NEW s, OK(s), NEW n \in NameSet, Has(s, n), NEW delete \in BOOLEAN
  PROVE  /\ Purged(s, PurgeRest(s, n, delete)) /\ PurgeRest(s, n, delete).sort = s.sort
         /\ \A m \in NameSet : m # n =>
              /\ PurgeRest(s, n, delete).ent[m] = s.ent[m]
              /\ Has(PurgeRest(s, n, delete), m) <=> Has(s, m)
         /\ ~ delete => Has(PurgeRest(s, n, delete), n)
         /\ delete /\ Has(PurgeRest(s, n, delete), n) => ~ IsEmpty(PurgeRest(s, n, delete).ent[n])
<1>. DEFINE c == s.ent[n]
<1>0. EntryOK(c) /\ c \in dns_cent_t
  BY DEF OK, EntriesOK, EntryOK
<1>1. CASE delete /\ Exhausted(c, NumSets(c))
  <2>1. PICK t : t = del_cent(s, n)
    OBVIOUS
  <2>2. PurgeRest(s, n, delete) = t
    BY <1>1, <2>1 DEF PurgeRest
  <2>3. Deleted(s, t, n)
    BY <2>1, DelCentIs
  <2>4. \A i \in Indices : c.rr[i] = None
    BY <1>0, <1>1, NoSets DEF Exhausted
  <2>5. Purged(s, t)
    BY <2>3, <2>4, DeletedPurged
  <2>. QED  BY <1>1, <2>2, <2>3, <2>5 DEF Deleted
<1>2. CASE ~ (delete /\ Exhausted(c, NumSets(c)))
  <2>1. ~ delete \/ ~ IsEmpty(c)
    BY <1>0, <1>2 DEF Exhausted, IsEmpty, EntryOK
  <2>2. CASE "LOCAL" \in c.flags
    <3>1. PurgeRest(s, n, delete) = s
      BY <1>2, <2>2 DEF PurgeRest
    <3>. QED  BY <3>1, <2>1, PurgedReflexive
  <2>3. CASE "LOCAL" \notin c.flags
    <3>. DEFINE f == [r \in DOMAIN c.ref |-> IF StaleRef(s, n, r) THEN None ELSE c.ref[r]]
    <3>1. f \in [{"NS", "SOA"} -> NameSet \cup {None}]
      BY <1>0 DEF dns_cent_t
    <3>2. PICK d : d = [c EXCEPT !.ref = f]
      OBVIOUS
    <3>3. PurgeRest(s, n, delete) = [s EXCEPT !.ent[n] = d]
      <4>1. PurgeRest(s, n, delete) = [s EXCEPT !.ent[n].ref = f]
        BY <1>2, <2>3 DEF PurgeRest
      <4>2. s \in cache_t
        BY DEF OK, EntriesOK
      <4>. HIDE DEF f
      <4>. QED  BY <3>2, <4>1, <4>2 DEF cache_t
    <3>. HIDE DEF f
    <3>4. /\ d \in dns_cent_t /\ d.rr = c.rr /\ d.flags = c.flags /\ d.ts = c.ts
          /\ d.num_rrs = c.num_rrs /\ d.cs = c.cs /\ d.rrext = c.rrext
      BY <1>0, <3>1, <3>2 DEF dns_cent_t
    <3>5. SameLists(d, c)
      BY <3>4 DEF SameLists, IsNeg
    <3>6. EntryOK(d)
      <4>1. d.cs = c.cs + (Header(d) - Header(c))
        <5>1. c.cs \in Int /\ Header(c) \in Nat /\ Header(d) = Header(c)
          BY <1>0, <3>4, WeightNat DEF Header, dns_cent_t
        <5>. QED  BY <5>1, <3>4
      <4>. QED  BY <1>0, <3>4, <3>5, <4>1, WithSameSets DEF SameLists
    <3>7. PICK t : t = [s EXCEPT !.ent[n] = d]
      OBVIOUS
    <3>8. Replaced(s, t, n, d)
      BY <3>5, <3>6, <3>7, EntReplaced
    <3>9. Booked(s, t, n) /\ t.ent[n] = d
      BY <3>4, <3>8, SameSize DEF Replaced
    <3>10. Purged(s, t)
      BY <3>4, <3>5, <3>9, ReplacedPurged
    <3>11. ~ delete \/ ~ IsEmpty(d)
      BY <2>1, <3>4 DEF IsEmpty, IsNeg
    <3>. QED  BY <3>3, <3>7, <3>9, <3>10, <3>11 DEF Booked
  <2>. QED  BY <2>2, <2>3
<1>. QED  BY <1>1, <1>2

LEMMA PurgeCentIs ==
  ASSUME NEW s, OK(s), NEW n \in NameSet, Has(s, n), NEW delete \in BOOLEAN
  PROVE  Cleaned(s, purge_cent(s, n, delete), n, delete)
<1>1. PICK t : t = purge_all_rrsets(s, n)
  OBVIOUS
<1>2. Within(s, t, n)
  BY <1>1, PurgeAllRrsetsIs
<1>3. PICK u : u = PurgeRest(t, n, delete)
  OBVIOUS
<1>4. u = purge_cent(s, n, delete)
  BY <1>1, <1>3 DEF purge_cent
<1>5. OK(t) /\ Has(t, n)
  BY <1>2 DEF Within, Purged
<1>6. /\ Purged(t, u) /\ u.sort = t.sort
      /\ \A m \in NameSet : m # n => u.ent[m] = t.ent[m] /\ (Has(u, m) <=> Has(t, m))
      /\ ~ delete => Has(u, n)
      /\ delete /\ Has(u, n) => ~ IsEmpty(u.ent[n])
  BY <1>3, <1>5, PurgeRestIs
<1>7. Purged(s, u)
  BY <1>2, <1>6, PurgedTransitive DEF Within
<1>8. \A m \in NameSet : m # n => u.ent[m] = s.ent[m] /\ (Has(u, m) <=> Has(s, m))
  BY <1>2, <1>6 DEF Within
<1>9. NoneEmptied(s, u, IF delete THEN {} ELSE {n})
  BY <1>6, <1>8 DEF NoneEmptied
<1>. QED  BY <1>2, <1>4, <1>6, <1>7, <1>8, <1>9 DEF Cleaned, Within

\* A turn of purge_cache's loops takes at most e off the list.
Turn(s, t, e) ==
  /\ Purged(s, t) /\ NoneEmptied(s, t, {}) /\ ToBeListed(s) \ {e} \subseteq ToBeListed(t)

LEMMA TurnReflexive == ASSUME NEW s, OK(s), NEW e PROVE Turn(s, s, e)
BY PurgedReflexive DEF Turn, NoneEmptied

LEMMA LackingListed ==
  ASSUME NEW s, OK(s), NEW t, NEW n \in NameSet, Has(s, n), NEW i \in Indices, Booked(s, t, n),
         Lacks(t.ent[n], s.ent[n], i)
  PROVE  /\ ToBeListed(s) \ {<<n, i>>} \subseteq ToBeListed(t)
         /\ <<n, i>> \notin ToBeListed(t)
<1>1. SUFFICES ASSUME NEW e \in ToBeListed(s), e # <<n, i>> PROVE e \in ToBeListed(t)
  <2>1. <<n, i>>[2] # 0
    BY Constants
  <2>2. t.ent[n].rr[i] = None
    BY DEF Lacks
  <2>. QED  BY <2>1, <2>2 DEF ToBeListed, IsListed
<1>2. /\ e \in NameSet \X (Indices \cup {0}) /\ e[1] \in NameSet /\ e[2] \in Indices \cup {0}
      /\ e = <<e[1], e[2]>> /\ Has(s, e[1]) /\ Has(t, e[1])
  BY DEF ToBeListed, Booked
<1>3. CASE e[1] # n
  <2>1. t.ent[e[1]] = s.ent[e[1]]
    BY <1>2, <1>3 DEF Booked
  <2>. QED  BY <1>2, <2>1 DEF ToBeListed
<1>4. CASE e[1] = n
  <2>1. /\ "LOCAL" \in t.ent[n].flags <=> "LOCAL" \in s.ent[n].flags
        /\ IsNeg(t.ent[n]) <=> IsNeg(s.ent[n])
    BY DEF Lacks, IsNeg
  <2>2. e[2] # 0 => t.ent[n].rr[e[2]] = s.ent[n].rr[e[2]]
    <3>1. e[2] # i
      BY <1>1, <1>2, <1>4
    <3>. QED  BY <1>2, <3>1 DEF Lacks
  <2>. QED  BY <1>2, <1>4, <2>1, <2>2 DEF ToBeListed
<1>. QED  BY <1>3, <1>4

\* Deleting an entry without sets takes the entry itself off the list, if it is negative.
LEMMA DeletedListed ==
  ASSUME NEW s, OK(s), NEW t, NEW n \in NameSet, Has(s, n), s.ent[n].num_rrs = 0,
         Deleted(s, t, n), NEW e, IsNeg(s.ent[n]) => e = <<n, 0>>
  PROVE  /\ ToBeListed(s) \ {e} \subseteq ToBeListed(t)
         /\ \A f \in ToBeListed(t) : f[1] # n
         /\ Purged(s, t) /\ NoneEmptied(s, t, {})
<1>1. \A i \in Indices : s.ent[n].rr[i] = None
  <2>1. EntryOK(s.ent[n])
    BY DEF OK, EntriesOK
  <2>. QED  BY <2>1, NoSets DEF EntryOK
<1>2. \A f \in ToBeListed(t) : f[1] # n
  BY DEF ToBeListed, Deleted
<1>3. ASSUME NEW f \in ToBeListed(s), f # e PROVE f \in ToBeListed(t)
  <2>1. /\ f \in NameSet \X (Indices \cup {0}) /\ f[1] \in NameSet /\ f[2] \in Indices \cup {0}
        /\ f = <<f[1], f[2]>> /\ Has(s, f[1])
    BY DEF ToBeListed
  <2>2. CASE f[1] # n
    <3>1. t.ent[f[1]] = s.ent[f[1]] /\ Has(t, f[1])
      BY <2>1, <2>2 DEF Deleted
    <3>. QED  BY <2>1, <3>1 DEF ToBeListed
  <2>3. CASE f[1] = n /\ f[2] = 0
    <3>1. IsNeg(s.ent[n])
      BY <2>3 DEF ToBeListed
    <3>. QED  BY <2>1, <2>3, <3>1, <1>3
  <2>4. CASE f[1] = n /\ f[2] # 0
    <3>1. s.ent[n].rr[f[2]] # None
      BY <2>4 DEF ToBeListed, IsListed
    <3>. QED  BY <2>1, <2>4, <3>1, <1>1
  <2>. QED  BY <2>2, <2>3, <2>4
<1>4. Purged(s, t) /\ NoneEmptied(s, t, {})
  BY <1>1, DeletedPurged
<1>. QED  BY <1>2, <1>3, <1>4

\* What is on the list.
LEMMA Listed ==
  ASSUME NEW s, OK(s), NEW e \in ToBeListed(s)
  PROVE  /\ e[1] \in NameSet /\ e[2] \in Indices \cup {0} /\ e = <<e[1], e[2]>>
         /\ Has(s, e[1]) /\ ~ IsLocal(s, e)
         /\ e[2] = 0 => IsNeg(s.ent[e[1]]) /\ s.ent[e[1]].num_rrs = 0
         /\ e[2] # 0 => /\ e[2] \in Indices /\ ~ IsNeg(s.ent[e[1]])
                        /\ "LOCAL" \notin s.ent[e[1]].rr[e[2]].flags
<1>1. /\ e \in NameSet \X (Indices \cup {0}) /\ Has(s, e[1]) /\ "LOCAL" \notin s.ent[e[1]].flags
      /\ IF e[2] = 0 THEN IsNeg(s.ent[e[1]]) ELSE IsListed(s.ent[e[1]].rr[e[2]])
  BY DEF ToBeListed
<1>2. e[1] \in NameSet /\ e[2] \in Indices \cup {0} /\ e = <<e[1], e[2]>>
  BY <1>1
<1>3. EntryOK(s.ent[e[1]])
  BY <1>1, <1>2 DEF OK, EntriesOK
<1>4. e[2] = 0 => s.ent[e[1]].num_rrs = 0
  BY <1>1, <1>3, NoSets DEF EntryOK
<1>5. e[2] # 0 => ~ IsNeg(s.ent[e[1]])
  BY <1>1, <1>2, <1>3 DEF EntryOK, IsListed
<1>. QED  BY <1>1, <1>2, <1>4, <1>5 DEF IsLocal, IsListed

LEMMA TurnTransitive ==
  ASSUME NEW s, NEW t, NEW u, NEW e, Turn(s, t, e), Turn(t, u, e)
  PROVE  Turn(s, u, e)
<1>1. Purged(s, u)
  BY PurgedTransitive DEF Turn
<1>2. NoneEmptied(s, u, {})
  BY NoneEmptiedTransitive DEF Turn
<1>. QED  BY <1>1, <1>2 DEF Turn

LEMMA PurgeOldestIs ==
  ASSUME NEW s, OK(s), NEW e \in ToBeListed(s)
  PROVE  Turn(s, PurgeOldest(s, e), e) /\ e \notin ToBeListed(PurgeOldest(s, e))
<1>. DEFINE n == e[1]
<1>1. /\ n \in NameSet /\ e[2] \in Indices \cup {0} /\ e = <<n, e[2]>> /\ Has(s, n)
      /\ e[2] = 0 => IsNeg(s.ent[n]) /\ s.ent[n].num_rrs = 0
      /\ e[2] # 0 => e[2] \in Indices /\ ~ IsNeg(s.ent[n]) /\ "LOCAL" \notin s.ent[n].rr[e[2]].flags
  BY Listed
<1>2. CASE e[2] = 0
  <2>1. PICK t : t = del_cent(s, n)
    OBVIOUS
  <2>2. PurgeOldest(s, e) = t
    BY <1>1, <1>2, <2>1 DEF PurgeOldest
  <2>3. Deleted(s, t, n)
    BY <1>1, <2>1, DelCentIs
  <2>4. e = <<n, 0>>
    BY <1>1, <1>2
  <2>. HIDE DEF n
  <2>5. /\ ToBeListed(s) \ {e} \subseteq ToBeListed(t) /\ \A f \in ToBeListed(t) : f[1] # n
        /\ Purged(s, t) /\ NoneEmptied(s, t, {})
    BY <1>1, <1>2, <2>3, <2>4, DeletedListed
  <2>. QED  BY <2>2, <2>5 DEF Turn, n
<1>3. CASE e[2] # 0
  <2>. DEFINE i == e[2]
  <2>1. i \in Indices /\ e = <<n, i>>
    BY <1>1, <1>3
  <2>2. PICK t : t = DelRRset(s, n, i)
    OBVIOUS
  <2>3. Booked(s, t, n) /\ Lacks(t.ent[n], s.ent[n], i)
    BY <1>1, <2>1, <2>2, DelRRsetIs
  <2>4. ToBeListed(s) \ {<<n, i>>} \subseteq ToBeListed(t) /\ <<n, i>> \notin ToBeListed(t)
    BY <1>1, <2>1, <2>3, LackingListed
  <2>5. Purged(s, t) /\ NoneEmptied(s, t, {n})
    BY <1>1, <1>3, <2>1, <2>3, LackingPurged
  <2>6. OK(t) /\ Has(t, n) /\ ~ IsNeg(t.ent[n])
    BY <1>1, <1>3, <2>3 DEF Booked, Lacks, IsNeg
  <2>7. CASE t.ent[n].num_rrs = 0
    <3>1. PICK u : u = del_cent(t, n)
      OBVIOUS
    <3>2. PurgeOldest(s, e) = u
      BY <1>3, <2>2, <2>7, <3>1 DEF PurgeOldest
    <3>3. Deleted(t, u, n)
      BY <1>1, <2>6, <3>1, DelCentIs
    <3>4. /\ ToBeListed(t) \ {e} \subseteq ToBeListed(u) /\ \A f \in ToBeListed(u) : f[1] # n
          /\ Purged(t, u) /\ NoneEmptied(t, u, {})
      BY <1>1, <2>6, <2>7, <3>3, DeletedListed
    <3>5. Purged(s, u)
      BY <2>5, <3>4, PurgedTransitive
    <3>6. NoneEmptied(s, u, {})
      BY <2>5, <3>3, <3>4 DEF NoneEmptied, Deleted
    <3>. QED  BY <2>1, <2>4, <3>2, <3>4, <3>5, <3>6 DEF Turn
  <2>8. CASE t.ent[n].num_rrs # 0
    <3>1. PurgeOldest(s, e) = t
      BY <1>3, <2>2, <2>8 DEF PurgeOldest
    <3>2. NoneEmptied(s, t, {})
      BY <2>5, <2>8 DEF NoneEmptied, IsEmpty
    <3>. QED  BY <2>1, <2>4, <2>5, <3>1, <3>2 DEF Turn
  <2>. QED  BY <2>7, <2>8
<1>. QED  BY <1>2, <1>3

LEMMA PurgeTimedOutIs ==
  ASSUME NEW s, OK(s), NEW e \in ToBeListed(s)
  PROVE  Turn(s, PurgeTimedOut(s, e), e)
<1>. DEFINE n == e[1]
<1>1. /\ n \in NameSet /\ e[2] \in Indices \cup {0} /\ e = <<n, e[2]>> /\ Has(s, n)
      /\ e[2] = 0 => IsNeg(s.ent[n]) /\ s.ent[n].num_rrs = 0
      /\ e[2] # 0 => e[2] \in Indices /\ ~ IsNeg(s.ent[n]) /\ "LOCAL" \notin s.ent[n].rr[e[2]].flags
  BY Listed
<1>2. PICK t : t = IF e[2] = 0 THEN s ELSE purge_rrset(s, n, e[2])
  OBVIOUS
<1>3. /\ Within(s, t, n) /\ ToBeListed(s) \ {e} \subseteq ToBeListed(t)
      /\ IsNeg(t.ent[n]) => e = <<n, 0>>
      /\ e[2] = 0 => t = s
  <2>1. CASE e[2] = 0
    BY <1>1, <1>2, <2>1, WithinReflexive
  <2>2. CASE e[2] # 0 /\ Purgeable(s.ent[n].rr[e[2]])
    <3>. DEFINE i == e[2]
    <3>1. t = DelRRset(s, n, i)
      BY <1>1, <1>2, <2>2 DEF purge_rrset
    <3>2. Within(s, t, n)
      BY <1>1, <1>2, <2>2, PurgeRrsetIs
    <3>3. Booked(s, t, n) /\ Lacks(t.ent[n], s.ent[n], i)
      BY <1>1, <2>2, <3>1, DelRRsetIs
    <3>4. ToBeListed(s) \ {<<n, i>>} \subseteq ToBeListed(t)
      BY <1>1, <2>2, <3>3, LackingListed
    <3>5. ~ IsNeg(t.ent[n])
      BY <1>1, <2>2, <3>3 DEF Lacks, IsNeg
    <3>. QED  BY <1>1, <2>2, <3>2, <3>4, <3>5
  <2>3. CASE e[2] # 0 /\ ~ Purgeable(s.ent[n].rr[e[2]])
    <3>1. t = s
      BY <1>2, <2>3 DEF purge_rrset
    <3>. QED  BY <1>1, <2>3, <3>1, WithinReflexive
  <2>. QED  BY <2>1, <2>2, <2>3
<1>4. OK(t) /\ Has(t, n) /\ Purged(s, t)
  BY <1>1, <1>3 DEF Within, Purged
<1>5. CASE Exhausted(t.ent[n], t.ent[n].num_rrs)
  <2>1. PICK u : u = del_cent(t, n)
    OBVIOUS
  <2>2. PurgeTimedOut(s, e) = u
    BY <1>2, <1>5, <2>1 DEF PurgeTimedOut
  <2>3. Deleted(t, u, n)
    BY <1>1, <1>4, <2>1, DelCentIs
  <2>4. t.ent[n].num_rrs = 0
    BY <1>5 DEF Exhausted
  <2>. HIDE DEF n
  <2>5. /\ ToBeListed(t) \ {e} \subseteq ToBeListed(u)
        /\ Purged(t, u) /\ NoneEmptied(t, u, {})
    BY <1>1, <1>3, <1>4, <2>3, <2>4, DeletedListed
  <2>6. Purged(s, u)
    BY <1>4, <2>5, PurgedTransitive
  <2>7. NoneEmptied(s, u, {})
    BY <1>3, <2>3, <2>5 DEF NoneEmptied, Deleted, Within
  <2>. QED  BY <1>3, <2>2, <2>5, <2>6, <2>7 DEF Turn
<1>6. CASE ~ Exhausted(t.ent[n], t.ent[n].num_rrs)
  <2>1. PurgeTimedOut(s, e) = t
    BY <1>2, <1>6 DEF PurgeTimedOut
  <2>2. ~ IsEmpty(t.ent[n])
    BY <1>6 DEF Exhausted, IsEmpty
  <2>3. NoneEmptied(s, t, {})
    BY <1>3, <2>2 DEF NoneEmptied, Within
  <2>. QED  BY <1>3, <1>4, <2>1, <2>3 DEF Turn
<1>. QED  BY <1>5, <1>6

LEMMA PurgeAllSteps ==
  ASSUME NEW s, Len(s.list) \in Nat, DOMAIN s.list = 1..Len(s.list), NEW sz
  PROVE  \E F : /\ F[0] = s /\ PurgeAll(s, sz) = F[Len(s.list)]
                /\ \A k \in 1..Len(s.list) : F[k] = OldestTurn(F[k - 1], s.list[k], sz)
<1>. DEFINE Op(u, y) == OldestTurn(u, s.list[y], sz)
            Value(G, x) == IF x = {} THEN s ELSE Op(G[x \ {Max(x)}], Max(x))
            Rec(G, D) == G = [x \in SUBSET D |-> Value(G, x)]
            Is(k) == \E G : Rec(G, 1..k)
            S == {k \in Nat : Is(k)}
<1>0. Len(s.list) \in Nat
  OBVIOUS
<1>1. PurgeAll(s, sz) = (CHOOSE G : Rec(G, 1..Len(s.list)))[1..Len(s.list)]
  BY DEF PurgeAll, FoldLeft, MapThenFoldSet
<1>. HIDE DEF Op
<1>2. 0 \in S
  <2>. DEFINE G == [x \in SUBSET (1..0) |-> s]
  <2>1. \A x \in SUBSET (1..0) : Value(G, x) = s
    OBVIOUS
  <2>2. Is(0)
    BY <2>1
  <2>. HIDE DEF Is
  <2>. QED  BY <2>2
<1>3. ASSUME NEW k \in Nat, k \in S PROVE k + 1 \in S
  <2>1. PICK G : Rec(G, 1..k)
    BY <1>3
  <2>. DEFINE H == [x \in SUBSET (1..(k + 1)) |-> IF k + 1 \in x THEN Value(G, x) ELSE G[x]]
  <2>2. ASSUME NEW x \in SUBSET (1..(k + 1)) PROVE H[x] = Value(H, x)
    <3>1. CASE x = {}
      BY <3>1, <2>1
    <3>2. CASE x # {}
      <4>1. x \ {Max(x)} \in SUBSET (1..k) /\ H[x \ {Max(x)}] = G[x \ {Max(x)}]
        BY <3>2, UpTo
      <4>2. H[x] = Value(G, x)
        BY <2>1, <3>2, UpTo
      <4>. QED  BY <4>1, <4>2, <3>2
    <3>. QED  BY <3>1, <3>2
  <2>3. Rec(H, 1..(k + 1))
    BY <2>2
  <2>. HIDE DEF H
  <2>4. Is(k + 1)
    BY <2>3
  <2>. HIDE DEF Is
  <2>. QED  BY <2>4
<1>4. Len(s.list) \in S
  <2>. HIDE DEF S
  <2>. QED  BY <1>0, <1>2, <1>3, Induction
<1>5. PICK G : Rec(G, 1..Len(s.list)) /\ PurgeAll(s, sz) = G[1..Len(s.list)]
  BY <1>1, <1>4
<1>. DEFINE F == [k \in 0..Len(s.list) |-> G[1..k]]
<1>6. ASSUME NEW k \in 1..Len(s.list) PROVE F[k] = Op(F[k - 1], k)
  <2>1. PICK j \in Nat : k = j + 1
    <3>1. k - 1 \in Nat /\ k = (k - 1) + 1
      BY <1>0
    <3>. QED  BY <3>1
  <2>2. 1..k \in SUBSET (1..Len(s.list)) /\ F[k] = G[1..k] /\ F[k - 1] = G[1..j]
    BY <1>0, <2>1
  <2>3. G[1..k] = Value(G, 1..k)
    BY <2>2, <1>5
  <2>4. 1..k # {} /\ Max(1..k) = k /\ (1..k) \ {k} = 1..j
    BY <2>1, UpTo
  <2>. QED  BY <2>2, <2>3, <2>4
<1>7. F[0] = s
  BY <1>0, <1>5
<1>8. F[Len(s.list)] = PurgeAll(s, sz)
  BY <1>0, <1>5
<1>. HIDE DEF F
<1>. QED  BY <1>6, <1>7, <1>8 DEF Op

LEMMA PurgeAgedSteps ==
  ASSUME NEW s, Len(s.list) \in Nat, DOMAIN s.list = 1..Len(s.list), NEW sz, NEW lazy
  PROVE  \E F : /\ F[0] = s /\ PurgeAged(s, sz, lazy) = F[Len(s.list)]
                /\ \A k \in 1..Len(s.list) : F[k] = TimedOutTurn(F[k - 1], s.list[k], sz, lazy)
<1>. DEFINE Op(u, y) == TimedOutTurn(u, s.list[y], sz, lazy)
            Value(G, x) == IF x = {} THEN s ELSE Op(G[x \ {Max(x)}], Max(x))
            Rec(G, D) == G = [x \in SUBSET D |-> Value(G, x)]
            Is(k) == \E G : Rec(G, 1..k)
            S == {k \in Nat : Is(k)}
<1>0. Len(s.list) \in Nat
  OBVIOUS
<1>1. PurgeAged(s, sz, lazy) = (CHOOSE G : Rec(G, 1..Len(s.list)))[1..Len(s.list)]
  BY DEF PurgeAged, FoldLeft, MapThenFoldSet
<1>. HIDE DEF Op
<1>2. 0 \in S
  <2>. DEFINE G == [x \in SUBSET (1..0) |-> s]
  <2>1. \A x \in SUBSET (1..0) : Value(G, x) = s
    OBVIOUS
  <2>2. Is(0)
    BY <2>1
  <2>. HIDE DEF Is
  <2>. QED  BY <2>2
<1>3. ASSUME NEW k \in Nat, k \in S PROVE k + 1 \in S
  <2>1. PICK G : Rec(G, 1..k)
    BY <1>3
  <2>. DEFINE H == [x \in SUBSET (1..(k + 1)) |-> IF k + 1 \in x THEN Value(G, x) ELSE G[x]]
  <2>2. ASSUME NEW x \in SUBSET (1..(k + 1)) PROVE H[x] = Value(H, x)
    <3>1. CASE x = {}
      BY <3>1, <2>1
    <3>2. CASE x # {}
      <4>1. x \ {Max(x)} \in SUBSET (1..k) /\ H[x \ {Max(x)}] = G[x \ {Max(x)}]
        BY <3>2, UpTo
      <4>2. H[x] = Value(G, x)
        BY <2>1, <3>2, UpTo
      <4>. QED  BY <4>1, <4>2, <3>2
    <3>. QED  BY <3>1, <3>2
  <2>3. Rec(H, 1..(k + 1))
    BY <2>2
  <2>. HIDE DEF H
  <2>4. Is(k + 1)
    BY <2>3
  <2>. HIDE DEF Is
  <2>. QED  BY <2>4
<1>4. Len(s.list) \in S
  <2>. HIDE DEF S
  <2>. QED  BY <1>0, <1>2, <1>3, Induction
<1>5. PICK G : Rec(G, 1..Len(s.list)) /\ PurgeAged(s, sz, lazy) = G[1..Len(s.list)]
  BY <1>1, <1>4
<1>. DEFINE F == [k \in 0..Len(s.list) |-> G[1..k]]
<1>6. ASSUME NEW k \in 1..Len(s.list) PROVE F[k] = Op(F[k - 1], k)
  <2>1. PICK j \in Nat : k = j + 1
    <3>1. k - 1 \in Nat /\ k = (k - 1) + 1
      BY <1>0
    <3>. QED  BY <3>1
  <2>2. 1..k \in SUBSET (1..Len(s.list)) /\ F[k] = G[1..k] /\ F[k - 1] = G[1..j]
    BY <1>0, <2>1
  <2>3. G[1..k] = Value(G, 1..k)
    BY <2>2, <1>5
  <2>4. 1..k # {} /\ Max(1..k) = k /\ (1..k) \ {k} = 1..j
    BY <2>1, UpTo
  <2>. QED  BY <2>2, <2>3, <2>4
<1>7. F[0] = s
  BY <1>0, <1>5
<1>8. F[Len(s.list)] = PurgeAged(s, sz, lazy)
  BY <1>0, <1>5
<1>. HIDE DEF F
<1>. QED  BY <1>6, <1>7, <1>8 DEF Op

\* The elements of the list after the first k are still on it.
Ahead(l, k, t) == \A j \in 1..Len(l) : j > k => l[j] \in ToBeListed(t)

\* A turn with the next one keeps those behind it.
LEMMA NextTurn ==
  ASSUME NEW s, OK(s), NEW k \in Nat, k + 1 \in 1..Len(s.list), NEW t, NEW u,
         Purged(s, t), NoneEmptied(s, t, {}), Ahead(s.list, k, t), Turn(t, u, s.list[k + 1])
  PROVE  Purged(s, u) /\ NoneEmptied(s, u, {}) /\ Ahead(s.list, k + 1, u)
<1>1. Purged(s, u)
  BY PurgedTransitive DEF Turn
<1>2. NoneEmptied(s, u, {})
  BY NoneEmptiedTransitive DEF Turn
<1>3. ASSUME NEW j \in 1..Len(s.list), j > k + 1 PROVE s.list[j] \in ToBeListed(u)
  <2>1. s.list[j] # s.list[k + 1]
    BY <1>3 DEF OK, Lists, Once
  <2>2. s.list[j] \in ToBeListed(t)
    BY <1>3 DEF Ahead
  <2>. QED  BY <2>1, <2>2 DEF Turn
<1>. QED  BY <1>1, <1>2, <1>3 DEF Ahead

LEMMA ListOf ==
  ASSUME NEW s, OK(s)
  PROVE  /\ Len(s.list) \in Nat /\ DOMAIN s.list = 1..Len(s.list)
         /\ Ahead(s.list, 0, s) /\ Elements(s.list) = ToBeListed(s)
<1>1. s.list \in Seq(OnList) /\ Elements(s.list) = ToBeListed(s)
  BY CacheFields DEF OK, EntriesOK, Lists
<1>2. Ahead(s.list, 0, s)
  BY <1>1 DEF Ahead, Elements
<1>. QED  BY <1>1, <1>2

LEMMA PurgeAllIs ==
  ASSUME NEW s, OK(s), NEW sz
  PROVE  /\ Purged(s, PurgeAll(s, sz)) /\ NoneEmptied(s, PurgeAll(s, sz), {})
         /\ PurgeAll(s, sz).size <= sz \/ ToBeListed(PurgeAll(s, sz)) = {}
<1>. DEFINE l == s.list
<1>0. /\ Len(l) \in Nat /\ DOMAIN l = 1..Len(l) /\ Ahead(l, 0, s)
      /\ Elements(l) = ToBeListed(s)
  BY ListOf
<1>1. PICK F : /\ F[0] = s /\ PurgeAll(s, sz) = F[Len(l)]
               /\ \A k \in 1..Len(l) : F[k] = OldestTurn(F[k - 1], l[k], sz)
  BY <1>0, PurgeAllSteps
<1>. DEFINE Inv(k) == /\ Purged(s, F[k]) /\ NoneEmptied(s, F[k], {}) /\ Ahead(l, k, F[k])
                      /\ \/ F[k].size <= sz
                         \/ \A j \in 1..Len(l) : j <= k => l[j] \notin ToBeListed(F[k])
            S == {k \in Nat : k <= Len(l) => Inv(k)}
<1>2. 0 \in S
  <2>1. Purged(s, s) /\ NoneEmptied(s, s, {})
    BY PurgedReflexive DEF NoneEmptied
  <2>. QED  BY <2>1, <1>0, <1>1
<1>3. ASSUME NEW k \in Nat, k \in S PROVE k + 1 \in S
  <2>1. SUFFICES ASSUME k + 1 <= Len(l) PROVE Inv(k + 1)
    OBVIOUS
  <2>2. k <= Len(l) /\ k + 1 \in 1..Len(l) /\ (k + 1) - 1 = k
    BY <2>1, <1>0
  <2>3. Inv(k)
    BY <1>3, <2>2
  <2>4. F[k + 1] = OldestTurn(F[k], l[k + 1], sz)
    BY <1>1, <2>2
  <2>5. OK(F[k]) /\ l[k + 1] \in ToBeListed(F[k])
    BY <2>2, <2>3 DEF Purged, Ahead
  <2>6. ~ IsLocal(F[k], l[k + 1])
    BY <2>5, Listed
  <2>7. CASE F[k].size <= sz
    <3>1. F[k + 1] = F[k]
      BY <2>4, <2>7 DEF OldestTurn
    <3>2. Ahead(l, k + 1, F[k + 1])
      BY <2>3, <3>1 DEF Ahead
    <3>. QED  BY <2>3, <2>7, <3>1, <3>2
  <2>8. CASE ~ (F[k].size <= sz)
    <3>1. F[k + 1] = PurgeOldest(F[k], l[k + 1])
      BY <2>4, <2>6, <2>8 DEF OldestTurn
    <3>2. Turn(F[k], F[k + 1], l[k + 1]) /\ l[k + 1] \notin ToBeListed(F[k + 1])
      BY <2>5, <3>1, PurgeOldestIs
    <3>3. Purged(s, F[k + 1]) /\ NoneEmptied(s, F[k + 1], {}) /\ Ahead(l, k + 1, F[k + 1])
      BY <2>2, <2>3, <3>2, NextTurn
    <3>4. ToBeListed(F[k + 1]) \subseteq ToBeListed(F[k])
      BY <3>2, <2>5, LessListed DEF Turn, Purged, OK
    <3>5. \A j \in 1..Len(l) : j <= k + 1 => l[j] \notin ToBeListed(F[k + 1])
      <4>1. TAKE j \in 1..Len(l)
      <4>2. HAVE j <= k + 1
      <4>3. CASE j = k + 1
        BY <4>3, <3>2
      <4>4. CASE j # k + 1
        <5>1. j <= k
          BY <4>2, <4>4
        <5>2. l[j] \notin ToBeListed(F[k])
          BY <5>1, <2>3, <2>8
        <5>. QED  BY <5>2, <3>4
      <4>. QED  BY <4>3, <4>4
    <3>. QED  BY <3>3, <3>5
  <2>. QED  BY <2>7, <2>8
<1>4. Len(l) \in S
  <2>. HIDE DEF S
  <2>. QED  BY <1>0, <1>2, <1>3, Induction
<1>5. Inv(Len(l))
  BY <1>0, <1>4
<1>6. F[Len(l)].size <= sz \/ ToBeListed(F[Len(l)]) = {}
  <2>1. ToBeListed(F[Len(l)]) \subseteq Elements(l)
    BY <1>0, <1>5, LessListed DEF Purged, OK
  <2>2. CASE \A j \in 1..Len(l) : j <= Len(l) => l[j] \notin ToBeListed(F[Len(l)])
    <3>1. \A e \in Elements(l) : e \notin ToBeListed(F[Len(l)])
      BY <2>2, <1>0 DEF Elements
    <3>. QED  BY <2>1, <3>1
  <2>. QED  BY <1>5, <2>2
<1>. QED  BY <1>1, <1>5, <1>6

LEMMA PurgeAgedIs ==
  ASSUME NEW s, OK(s), NEW sz, NEW lazy
  PROVE  Purged(s, PurgeAged(s, sz, lazy)) /\ NoneEmptied(s, PurgeAged(s, sz, lazy), {})
<1>. DEFINE l == s.list
<1>0. Len(l) \in Nat /\ DOMAIN l = 1..Len(l) /\ Ahead(l, 0, s)
  BY ListOf
<1>1. PICK F : /\ F[0] = s /\ PurgeAged(s, sz, lazy) = F[Len(l)]
               /\ \A k \in 1..Len(l) : F[k] = TimedOutTurn(F[k - 1], l[k], sz, lazy)
  BY <1>0, PurgeAgedSteps
<1>. DEFINE Inv(k) == Purged(s, F[k]) /\ NoneEmptied(s, F[k], {}) /\ Ahead(l, k, F[k])
            S == {k \in Nat : k <= Len(l) => Inv(k)}
<1>2. 0 \in S
  <2>1. Purged(s, s) /\ NoneEmptied(s, s, {})
    BY PurgedReflexive DEF NoneEmptied
  <2>. QED  BY <2>1, <1>0, <1>1
<1>3. ASSUME NEW k \in Nat, k \in S PROVE k + 1 \in S
  <2>1. SUFFICES ASSUME k + 1 <= Len(l) PROVE Inv(k + 1)
    OBVIOUS
  <2>2. k <= Len(l) /\ k + 1 \in 1..Len(l) /\ (k + 1) - 1 = k
    BY <2>1, <1>0
  <2>3. Inv(k)
    BY <1>3, <2>2
  <2>4. F[k + 1] = TimedOutTurn(F[k], l[k + 1], sz, lazy)
    BY <1>1, <2>2
  <2>5. OK(F[k]) /\ l[k + 1] \in ToBeListed(F[k])
    BY <2>2, <2>3 DEF Purged, Ahead
  <2>6. Turn(F[k], F[k + 1], l[k + 1])
    <3>1. F[k + 1] = F[k] \/ F[k + 1] = PurgeTimedOut(F[k], l[k + 1])
      BY <2>4 DEF TimedOutTurn
    <3>. QED  BY <2>5, <3>1, TurnReflexive, PurgeTimedOutIs
  <2>. QED  BY <2>2, <2>3, <2>6, NextTurn
<1>4. Len(l) \in S
  <2>. HIDE DEF S
  <2>. QED  BY <1>0, <1>2, <1>3, Induction
<1>5. Inv(Len(l))
  BY <1>0, <1>4
<1>. QED  BY <1>1, <1>5

\* purge_cache leaves at most sz, or nothing that it may purge.
LEMMA PurgeCacheIs ==
  ASSUME NEW s, OK(s), NEW sz, NEW lazy
  PROVE  /\ Purged(s, purge_cache(s, sz, lazy)) /\ NoneEmptied(s, purge_cache(s, sz, lazy), {})
         /\ purge_cache(s, sz, lazy).size <= sz \/ ToBeListed(purge_cache(s, sz, lazy)) = {}
<1>1. PICK t : t = PurgeAged(s, sz, lazy)
  OBVIOUS
<1>2. purge_cache(s, sz, lazy) = PurgeExcess(t, sz)
  BY <1>1 DEF purge_cache
<1>3. Purged(s, t) /\ NoneEmptied(s, t, {}) /\ OK(t)
  BY <1>1, PurgeAgedIs DEF Purged
<1>4. CASE t.size <= sz
  BY <1>2, <1>3, <1>4 DEF PurgeExcess
<1>5. CASE ~ (t.size <= sz)
  <2>1. PICK u : u = SortNow(t)
    OBVIOUS
  <2>2. PICK v : v = PurgeAll(u, sz)
    OBVIOUS
  <2>3. purge_cache(s, sz, lazy) = v
    BY <1>2, <1>5, <2>1, <2>2 DEF PurgeExcess
  <2>4. Purged(t, u) /\ NoneEmptied(t, u, {}) /\ OK(u)
    BY <1>3, <2>1, SortNowIs, SortedPurged DEF Sorted
  <2>5. Purged(u, v) /\ NoneEmptied(u, v, {}) /\ (v.size <= sz \/ ToBeListed(v) = {})
    BY <2>2, <2>4, PurgeAllIs
  <2>6. Purged(s, v)
    BY <1>3, <2>4, <2>5, PurgedTransitive
  <2>7. NoneEmptied(s, v, {})
    BY <1>3, <2>4, <2>5, NoneEmptiedTransitive
  <2>. QED  BY <2>3, <2>5, <2>6, <2>7
<1>. QED  BY <1>4, <1>5

\* Entry d is c with set r of type i, as to its flags.
Gains(d, c, i, r) ==
  /\ d.flags = c.flags \ {"NEGATIVE"} /\ (c.rrext => d.rrext)
  /\ d.rr[i] # None /\ \A f : f # "NOCACHE" => (f \in d.rr[i].flags <=> f \in r.flags)
  /\ \A j \in Indices : j # i => d.rr[j] = c.rr[j]

\* The entry PutSet makes.
NewSet(c, i, r) ==
  [add_cent_rr_int(add_cent_rrset_by_index(c, i, r.ttl, r.ts, r.flags), i, r.rrs)
     EXCEPT !.rr[i] = adjust_ttl(@)]

LEMMA NewSetIs ==
  ASSUME NEW c, EntryOK(c), NEW i \in Indices, c.rr[i] = None, NEW r \in rr_set_t
  PROVE  EntryOK(NewSet(c, i, r)) /\ Gains(NewSet(c, i, r), c, i, r)
<1>1. c \in dns_cent_t /\ c.cs \in Int /\ c.num_rrs \in Int
  BY DEF EntryOK, dns_cent_t
<1>2. /\ r.ttl \in Int /\ r.ts \in Int /\ r.flags \in SUBSET Flags /\ r.rrs \in SUBSET Data
  BY DEF rr_set_t
<1>3. PICK e : e = add_cent_rrset_by_index(c, i, r.ttl, r.ts, r.flags)
  OBVIOUS
<1>4. /\ e \in dns_cent_t /\ e.flags = c.flags \ {"NEGATIVE"}
      /\ e.rr[i] = [ttl |-> r.ttl, ts |-> r.ts, flags |-> r.flags, rrs |-> {}]
      /\ \A j \in Indices : j # i => e.rr[j] = c.rr[j]
      /\ e.num_rrs = c.num_rrs + 1 /\ (c.rrext => e.rrext)
      /\ e.cs = c.cs + (Header(e) - Header(c)) + 1
  BY <1>1, <1>2, <1>3, AddIndexIs
<1>5. e.rr[i] \in rr_set_t /\ e.rr[i].rrs = {} /\ e.rr[i].flags = r.flags
  BY <1>2, <1>4 DEF rr_set_t
<1>6. e.rr[i] # None
  BY <1>5, Constants
<1>7. PICK f : f = add_cent_rr_int(e, i, r.rrs)
  OBVIOUS
<1>8. /\ f \in dns_cent_t /\ f.flags = e.flags /\ f.num_rrs = e.num_rrs /\ f.rrext = e.rrext
      /\ f.rr[i] # None /\ f.rr[i].flags = e.rr[i].flags /\ f.rr[i].rrs = r.rrs
      /\ \A j \in Indices : j # i => f.rr[j] = e.rr[j]
      /\ f.cs = e.cs + Cardinality(r.rrs)
  BY <1>2, <1>4, <1>5, <1>6, <1>7, RecordsIs
<1>9. f.rr[i] \in rr_set_t
  BY <1>8 DEF dns_cent_t
<1>10. PICK q : q = adjust_ttl(f.rr[i])
  OBVIOUS
<1>11. /\ q \in rr_set_t /\ q # None /\ q.rrs = r.rrs
       /\ \A x : x # "NOCACHE" => (x \in q.flags <=> x \in f.rr[i].flags)
  BY <1>8, <1>9, <1>10, AdjustedSet
<1>12. PICK g : g = [f EXCEPT !.rr[i] = q]
  OBVIOUS
<1>13. g = NewSet(c, i, r)
  BY <1>3, <1>7, <1>10, <1>12, <1>8 DEF NewSet, dns_cent_t
<1>14. /\ g.flags = f.flags /\ g.num_rrs = f.num_rrs /\ g.rrext = f.rrext /\ g.cs = f.cs
       /\ g.rr[i] = q /\ \A j \in Indices : j # i => g.rr[j] = f.rr[j]
  BY <1>8, <1>12 DEF dns_cent_t
<1>15. g \in dns_cent_t
  BY <1>8, <1>11, <1>12 DEF dns_cent_t
<1>16. g.cs = c.cs + (Header(g) - Header(c)) + SetSize(g.rr[i])
  <2>1. SetSize(q) = 1 + Cardinality(r.rrs) /\ Cardinality(r.rrs) \in Nat
    BY <1>11, SetSizeNat
  <2>2. Header(g) = Header(e) /\ Header(e) \in Nat /\ Header(c) \in Nat
    BY <1>1, <1>4, <1>8, <1>14, WeightNat DEF Header
  <2>. QED  BY <2>1, <2>2, <1>1, <1>4, <1>8, <1>14
<1>17. ~ IsNeg(g)
  BY <1>4, <1>8, <1>14 DEF IsNeg
<1>18. EntryOK(g)
  BY <1>4, <1>8, <1>11, <1>14, <1>15, <1>16, <1>17, WithSet
<1>19. Gains(g, c, i, r)
  BY <1>4, <1>5, <1>8, <1>11, <1>14 DEF Gains
<1>. QED  BY <1>13, <1>18, <1>19

Put(s, t, n, i, r) == Frame(s, t, n) /\ Gains(t.ent[n], s.ent[n], i, r)

LEMMA PutSetIs ==
  ASSUME NEW s, OK(s), NEW n \in NameSet, Has(s, n), NEW i \in Indices, s.ent[n].rr[i] = None,
         NEW r \in rr_set_t
  PROVE  Put(s, PutSet(s, n, i, r), n, i, r)
<1>. DEFINE c == s.ent[n]
<1>1. EntriesOK(s) /\ EntryOK(c) /\ c \in dns_cent_t /\ s \in cache_t
  BY DEF OK, EntriesOK, EntryOK
<1>2. PICK g : g = NewSet(c, i, r)
  OBVIOUS
<1>3. EntryOK(g) /\ Gains(g, c, i, r) /\ g \in dns_cent_t /\ g # None
  <2>1. EntryOK(g) /\ Gains(g, c, i, r)
    BY <1>1, <1>2, NewSetIs
  <2>. QED  BY <2>1, Constants DEF EntryOK
<1>4. PICK l : l = IF IsNeg(c) THEN Without(s.list, {<<n, 0>>}) ELSE s.list
  OBVIOUS
<1>5. PICK u : u = [s EXCEPT !.list = l, !.ent[n] = g]
  OBVIOUS
<1>6. PutSet(s, n, i, r) = insert_rrl(u, n, i)
  <2>1. PICK t : t = IF IsNeg(c) THEN remove_rrl(s, <<n, 0>>) ELSE s
    OBVIOUS
  <2>2. t.ent = s.ent /\ t = [s EXCEPT !.list = l]
    BY <1>1, <1>4, <2>1 DEF remove_rrl, cache_t
  <2>3. PutSet(s, n, i, r) = insert_rrl([t EXCEPT !.ent[n] = NewSet(t.ent[n], i, r)], n, i)
    BY <2>1 DEF PutSet, NewSet
  <2>4. [t EXCEPT !.ent[n] = NewSet(t.ent[n], i, r)] = u
    BY <2>2, <1>2, <1>5
  <2>. QED  BY <2>3, <2>4
<1>7. s.list \in Seq(OnList) /\ Once(s.list) /\ Elements(s.list) = ToBeListed(s)
  BY <1>1, CacheFields DEF OK, Lists
<1>8. /\ l \in Seq(OnList) /\ Once(l)
      /\ Elements(l) = IF IsNeg(c) THEN Elements(s.list) \ {<<n, 0>>} ELSE Elements(s.list)
  BY <1>4, <1>7, WithoutIs
<1>9. /\ u \in cache_t /\ u.list = l /\ u.ent[n] = g
      /\ \A m \in NameSet : m # n => u.ent[m] = s.ent[m]
      /\ u.size = s.size /\ u.num = s.num /\ u.sort = s.sort
  BY <1>1, <1>3, <1>5, <1>8 DEF cache_t, OnList
<1>10. \A m \in NameSet : Has(u, m) <=> Has(s, m)
  BY <1>3, <1>9 DEF Has
<1>11. EntriesOK(u)
  BY <1>1, <1>3, <1>9, <1>10 DEF EntriesOK
<1>12. ~ IsNeg(g) /\ ("LOCAL" \in g.flags <=> "LOCAL" \in c.flags)
  BY <1>3 DEF Gains, IsNeg
<1>13. \A j \in Indices : IsNeg(c) => c.rr[j] = None
  BY <1>1 DEF EntryOK
<1>14. Elements(l) = ToBeListed(u) \ {<<n, i>>} /\ \A e \in Elements(l) : Stamp(u, e) = Stamp(s, e)
  <2>1. ASSUME NEW e \in OnList
        PROVE  /\ e \in Elements(l) <=> e \in ToBeListed(u) \ {<<n, i>>}
               /\ e \in Elements(l) => Stamp(u, e) = Stamp(s, e)
    <3>0. e[1] \in NameSet /\ e[2] \in Indices \cup {0} /\ e = <<e[1], e[2]>>
      BY DEF OnList
    <3>1. CASE e[1] # n
      <4>1. u.ent[e[1]] = s.ent[e[1]] /\ (Has(u, e[1]) <=> Has(s, e[1]))
        BY <3>0, <3>1, <1>9, <1>10
      <4>2. e \in ToBeListed(u) <=> e \in ToBeListed(s)
        BY <3>0, <4>1 DEF ToBeListed
      <4>3. e # <<n, i>> /\ e # <<n, 0>>
        BY <3>1
      <4>4. Stamp(u, e) = Stamp(s, e)
        BY <4>1 DEF Stamp
      <4>. QED  BY <4>2, <4>3, <4>4, <1>7, <1>8
    <3>2. CASE e[1] = n /\ e[2] = 0
      <4>1. e = <<n, 0>> /\ e # <<n, i>>
        BY <3>0, <3>2, Constants
      <4>2. e \notin ToBeListed(u)
        BY <3>2, <1>9, <1>12 DEF ToBeListed
      <4>3. e \in ToBeListed(s) => IsNeg(c)
        BY <3>2 DEF ToBeListed
      <4>. QED  BY <4>1, <4>2, <4>3, <1>7, <1>8
    <3>3. CASE e[1] = n /\ e[2] = i
      <4>1. e = <<n, i>> /\ e # <<n, 0>>
        BY <3>0, <3>3, Constants
      <4>2. e \notin ToBeListed(s)
        BY <3>3, Constants DEF ToBeListed, IsListed
      <4>. QED  BY <4>1, <4>2, <1>7, <1>8
    <3>4. CASE e[1] = n /\ e[2] # 0 /\ e[2] # i
      <4>1. e # <<n, i>> /\ e # <<n, 0>> /\ e[2] \in Indices
        BY <3>0, <3>4
      <4>2. u.ent[n].rr[e[2]] = c.rr[e[2]]
        BY <4>1, <3>4, <1>3, <1>9 DEF Gains
      <4>3. e \in ToBeListed(u) <=> e \in ToBeListed(s)
        BY <3>0, <3>4, <4>2, <1>9, <1>10, <1>12 DEF ToBeListed
      <4>4. Stamp(u, e) = Stamp(s, e)
        BY <3>4, <4>2 DEF Stamp
      <4>. QED  BY <4>1, <4>3, <4>4, <1>7, <1>8
    <3>. QED  BY <3>0, <3>1, <3>2, <3>3, <3>4
  <2>2. ToBeListed(u) \subseteq OnList /\ ToBeListed(s) \subseteq OnList
    BY DEF ToBeListed, OnList
  <2>3. Elements(l) \subseteq OnList
    BY <2>2, <1>7, <1>8
  <2>. QED  BY <2>1, <2>2, <2>3
<1>15. Lists(u, {<<n, i>>})
  BY <1>8, <1>9, <1>14 DEF Lists
<1>16. ASSUME Tidy(s) PROVE Tidy(u)
  <2>1. SUFFICES ASSUME u.sort PROVE ListSorted(u)
    BY DEF Tidy
  <2>2. ListSorted(s)
    BY <2>1, <1>9, <1>16 DEF Tidy
  <2>3. CASE IsNeg(c)
    BY <2>2, <2>3, <1>1, <1>4, <1>9, <1>14, KeepsOrder
  <2>4. CASE ~ IsNeg(c)
    <3>1. u.list = s.list
      BY <2>4, <1>4, <1>9
    <3>2. \A k \in 1..Len(s.list) : Stamp(u, s.list[k]) = Stamp(s, s.list[k])
      BY <2>4, <1>4, <1>14 DEF Elements
    <3>. QED  BY <2>2, <3>1, <3>2 DEF ListSorted
  <2>. QED  BY <2>3, <2>4
<1>17. PICK v : v = insert_rrl(u, n, i)
  OBVIOUS
<1>18. Inserted(u, v, <<n, i>>, {<<n, i>>})
  <2>1. Has(u, n) /\ u.ent[n].rr[i] # None /\ i # 0
    BY <1>3, <1>9, <1>10, Constants DEF Gains
  <2>. QED  BY <2>1, <1>11, <1>15, <1>17, InsertRrl
<1>19. Relisted(u, v) /\ Lists(v, {}) /\ (Tidy(u) => Tidy(v))
  <2>1. {<<n, i>>} \ {<<n, i>>} = {}
    OBVIOUS
  <2>. QED  BY <1>18, <2>1 DEF Inserted
<1>20. OK(v)
  BY <1>11, <1>19, RelistedSame DEF OK
<1>21. \A m : Has(v, m) <=> Has(u, m)
  BY <1>19, RelistedSame
<1>. QED  BY <1>3, <1>6, <1>9, <1>10, <1>16, <1>17, <1>19, <1>20, <1>21 DEF Put, Frame, Relisted

\* One of the sets that go, or not.
DelTurn(s, n, cf, i) == IF i \in cf THEN del_cent_rrset_by_index(s, n, i) ELSE s

LEMMA DelAllSteps ==
  ASSUME NEW s, NEW n, NEW cf
  PROVE  \E F : /\ F[0] = s /\ DelAll(s, n, cf) = F[Len(Types)]
                /\ \A k \in 1..Len(Types) : F[k] = DelTurn(F[k - 1], n, cf, IndexSeq[k])
<1>. DEFINE Op(u, y) == DelTurn(u, n, cf, IndexSeq[y])
            Value(G, x) == IF x = {} THEN s ELSE Op(G[x \ {Max(x)}], Max(x))
            Rec(G, D) == G = [x \in SUBSET D |-> Value(G, x)]
            Is(k) == \E G : Rec(G, 1..k)
            S == {k \in Nat : Is(k)}
<1>0. Len(Types) \in Nat
  BY Constants
<1>1. DelAll(s, n, cf) = (CHOOSE G : Rec(G, 1..Len(Types)))[1..Len(Types)]
  BY Constants DEF DelAll, DelTurn, FoldLeft, MapThenFoldSet
<1>. HIDE DEF Op
<1>2. 0 \in S
  <2>. DEFINE G == [x \in SUBSET (1..0) |-> s]
  <2>1. \A x \in SUBSET (1..0) : Value(G, x) = s
    OBVIOUS
  <2>2. Is(0)
    BY <2>1
  <2>. HIDE DEF Is
  <2>. QED  BY <2>2
<1>3. ASSUME NEW k \in Nat, k \in S PROVE k + 1 \in S
  <2>1. PICK G : Rec(G, 1..k)
    BY <1>3
  <2>. DEFINE H == [x \in SUBSET (1..(k + 1)) |-> IF k + 1 \in x THEN Value(G, x) ELSE G[x]]
  <2>2. ASSUME NEW x \in SUBSET (1..(k + 1)) PROVE H[x] = Value(H, x)
    <3>1. CASE x = {}
      BY <3>1, <2>1
    <3>2. CASE x # {}
      <4>1. x \ {Max(x)} \in SUBSET (1..k) /\ H[x \ {Max(x)}] = G[x \ {Max(x)}]
        BY <3>2, UpTo
      <4>2. H[x] = Value(G, x)
        BY <2>1, <3>2, UpTo
      <4>. QED  BY <4>1, <4>2, <3>2
    <3>. QED  BY <3>1, <3>2
  <2>3. Rec(H, 1..(k + 1))
    BY <2>2
  <2>. HIDE DEF H
  <2>4. Is(k + 1)
    BY <2>3
  <2>. HIDE DEF Is
  <2>. QED  BY <2>4
<1>4. Len(Types) \in S
  <2>. HIDE DEF S
  <2>. QED  BY <1>0, <1>2, <1>3, Induction
<1>5. PICK G : Rec(G, 1..Len(Types)) /\ DelAll(s, n, cf) = G[1..Len(Types)]
  BY <1>1, <1>4
<1>. DEFINE F == [k \in 0..Len(Types) |-> G[1..k]]
<1>6. ASSUME NEW k \in 1..Len(Types) PROVE F[k] = Op(F[k - 1], k)
  <2>1. PICK j \in Nat : k = j + 1
    <3>1. k - 1 \in Nat /\ k = (k - 1) + 1
      BY <1>0
    <3>. QED  BY <3>1
  <2>2. 1..k \in SUBSET (1..Len(Types)) /\ F[k] = G[1..k] /\ F[k - 1] = G[1..j]
    BY <1>0, <2>1
  <2>3. G[1..k] = Value(G, 1..k)
    BY <2>2, <1>5
  <2>4. 1..k # {} /\ Max(1..k) = k /\ (1..k) \ {k} = 1..j
    BY <2>1, UpTo
  <2>. QED  BY <2>2, <2>3, <2>4
<1>7. F[0] = s
  BY <1>0, <1>5
<1>8. F[Len(Types)] = DelAll(s, n, cf)
  BY <1>0, <1>5
<1>. HIDE DEF F
<1>. QED  BY <1>6, <1>7, <1>8 DEF Op

\* Entry d is c without the sets of cf.
Reduced(d, c, cf) ==
  /\ \A f : f # "AUTH" => (f \in d.flags <=> f \in c.flags)
  /\ d.rrext = c.rrext
  /\ \A i \in Indices : d.rr[i] = IF i \in cf THEN None ELSE c.rr[i]

LEMMA DelAllIs ==
  ASSUME NEW s, OK(s), NEW n \in NameSet, Has(s, n), NEW cf
  PROVE  Frame(s, DelAll(s, n, cf), n) /\ Reduced(DelAll(s, n, cf).ent[n], s.ent[n], cf)
<1>1. PICK F : /\ F[0] = s /\ DelAll(s, n, cf) = F[Len(Types)]
               /\ \A k \in 1..Len(Types) :
                    F[k] = DelTurn(F[k - 1], n, cf, IndexSeq[k])
  BY ONLY DelAllSteps
<1>. DEFINE Inv(k) == Frame(s, F[k], n) /\ Reduced(F[k].ent[n], s.ent[n], cf \cap 1..k)
            S == {k \in Nat : k <= Len(Types) => Inv(k)}
<1>2. 0 \in S
  <2>1. \A i \in Indices : i \notin cf \cap 1..0
    BY Constants
  <2>2. Reduced(s.ent[n], s.ent[n], cf \cap 1..0)
    BY <2>1 DEF Reduced
  <2>. QED  BY <1>1, <2>2, FrameReflexive
<1>3. ASSUME NEW k \in Nat, k \in S PROVE k + 1 \in S
  <2>1. SUFFICES ASSUME k + 1 <= Len(Types) PROVE Inv(k + 1)
    OBVIOUS
  <2>2. k <= Len(Types) /\ k + 1 \in 1..Len(Types) /\ (k + 1) - 1 = k
    BY <2>1, Constants
  <2>3. Inv(k)
    BY <1>3, <2>2
  <2>4. k + 1 \in Indices /\ IndexSeq[k + 1] = k + 1
    BY <2>2, Constants
  <2>5. F[k + 1] = IF k + 1 \in cf THEN del_cent_rrset_by_index(F[k], n, k + 1) ELSE F[k]
    BY <1>1, <2>2, <2>4 DEF DelTurn
  <2>6. OK(F[k]) /\ Has(F[k], n)
    BY <2>3 DEF Frame
  <2>7. \A i \in Indices : i \in cf \cap 1..(k + 1) <=> (i \in cf \cap 1..k \/ (i = k + 1 /\ i \in cf))
    BY Constants
  <2>8. CASE k + 1 \in cf
    <3>1. Frame(F[k], F[k + 1], n) /\ Lacks(F[k + 1].ent[n], F[k].ent[n], k + 1)
      BY <2>4, <2>5, <2>6, <2>8, DelIndexIs DEF Dropped
    <3>2. Frame(s, F[k + 1], n)
      BY <2>3, <3>1, FrameTransitive
    <3>3. Reduced(F[k + 1].ent[n], s.ent[n], cf \cap 1..(k + 1))
      BY <2>3, <2>4, <2>7, <2>8, <3>1 DEF Reduced, Lacks
    <3>. QED  BY <3>2, <3>3
  <2>9. CASE k + 1 \notin cf
    BY <2>3, <2>5, <2>7, <2>9 DEF Reduced
  <2>. QED  BY <2>8, <2>9
<1>4. Len(Types) \in S
  <2>. HIDE DEF S
  <2>. QED  BY <1>2, <1>3, Induction, Constants
<1>5. Inv(Len(Types))
  BY <1>4, Constants
<1>6. \A i \in Indices : i \in cf \cap 1..Len(Types) <=> i \in cf
  BY Constants
<1>. QED  BY <1>1, <1>5, <1>6 DEF Reduced

\* A set that could not be put in goes again, and leaves nothing but the array.
Abandoned(s, t, n, i) ==
  /\ Frame(s, t, n)
  /\ "LOCAL" \in t.ent[n].flags <=> "LOCAL" \in s.ent[n].flags
  /\ t.ent[n].rr[i] = None /\ \A j \in Indices : j # i => t.ent[n].rr[j] = s.ent[n].rr[j]

LEMMA AbandonIs ==
  ASSUME NEW s, OK(s), NEW n \in NameSet, Has(s, n), NEW i \in Indices, NEW keep
  PROVE  Abandoned(s, Abandon(s, n, i, keep), n, i)
<1>1. PICK t : t = del_cent_rrset_by_index(s, n, i)
  OBVIOUS
<1>2. Frame(s, t, n) /\ Lacks(t.ent[n], s.ent[n], i)
  BY <1>1, DelIndexIs DEF Dropped
<1>3. Abandoned(s, t, n, i)
  BY <1>2 DEF Abandoned, Lacks
<1>4. CASE keep \/ ~ t.ent[n].rrext
  <2>1. Abandon(s, n, i, keep) = t
    BY <1>1, <1>4 DEF Abandon
  <2>. QED  BY <2>1, <1>3
<1>5. CASE ~ (keep \/ ~ t.ent[n].rrext)
  <2>1. PICK d : d = WithoutExt(t.ent[n])
    OBVIOUS
  <2>2. OK(t) /\ Has(t, n) /\ EntryOK(t.ent[n])
    BY <1>2 DEF Frame, OK, EntriesOK
  <2>3. EntryOK(d) /\ SameLists(d, t.ent[n])
    BY <1>5, <2>1, <2>2, WithoutExtIs
  <2>4. PICK u : u = [t EXCEPT !.ent[n] = d]
    OBVIOUS
  <2>5. Abandon(s, n, i, keep) = u
    BY <1>1, <1>5, <2>1, <2>4 DEF Abandon
  <2>6. Replaced(t, u, n, d)
    BY <2>2, <2>3, <2>4, EntReplaced
  <2>7. Frame(s, u, n)
    BY <1>2, <2>6, FrameTransitive DEF Replaced
  <2>8. u.ent[n] = d
    BY <2>6 DEF Replaced
  <2>. QED  BY <1>3, <2>3, <2>5, <2>7, <2>8 DEF Abandoned, SameLists
<1>. QED  BY <1>4, <1>5

\* With less sets there is no new conflict.
LEMMA LessCompatible ==
  ASSUME NEW n, NEW c, Compatible(n, c), NEW d,
         \A i \in Indices : d.rr[i] = None \/ d.rr[i] = c.rr[i]
  PROVE  Compatible(n, d)
BY DEF Compatible

\* What a set does to entry n: b is the cache, and whether an allocation failed.
SetStep(s, b, n) ==
  /\ Frame(s, b.s, n)
  /\ "LOCAL" \in b.s.ent[n].flags <=> "LOCAL" \in s.ent[n].flags
  /\ Compatible(n, s.ent[n]) => Compatible(n, b.s.ent[n])

\* Its local sets stay, or another one comes.
KeepsLocal(s, b, n) == HasLocalSet(s.ent[n]) => b.failed \/ HasLocalSet(b.s.ent[n])

\* It has something to say.
Speaks(b, n) == b.failed \/ "LOCAL" \in b.s.ent[n].flags \/ ~ IsEmpty(b.s.ent[n])

LEMMA SetSpeaks ==
  ASSUME NEW s, OK(s), NEW n \in NameSet, Has(s, n), NEW i \in Indices, s.ent[n].rr[i] # None
  PROVE  ~ IsEmpty(s.ent[n])
<1>1. EntryOK(s.ent[n])
  BY DEF OK, EntriesOK
<1>. QED  BY <1>1, NoSets DEF EntryOK, IsEmpty

\* The set put in in place of those it conflicts with.
LEMMA ResolvedIs ==
  ASSUME NEW s, OK(s), NEW n \in NameSet, Has(s, n), NEW i \in Indices, s.ent[n].rr[i] = None,
         NEW r \in rr_set_t, NEW t, t = PutSet(Resolve(s, n, i, r), n, i, r)
  PROVE  /\ Frame(s, t, n) /\ ("LOCAL" \in t.ent[n].flags <=> "LOCAL" \in s.ent[n].flags)
         /\ Compatible(n, s.ent[n]) => Compatible(n, t.ent[n])
         /\ t.ent[n].rr[i] # None /\ ("LOCAL" \in t.ent[n].rr[i].flags <=> "LOCAL" \in r.flags)
         /\ \A j \in Indices : j # i =>
              \/ t.ent[n].rr[j] = s.ent[n].rr[j]
              \/ /\ "NEGATIVE" \notin r.flags /\ j \in Conflicts(s.ent[n], i)
                 /\ t.ent[n].rr[j] = None
<1>. DEFINE cf == IF "NEGATIVE" \in r.flags THEN {} ELSE Conflicts(s.ent[n], i)
<1>1. PICK u : u = Resolve(s, n, i, r)
  OBVIOUS
<1>2. Frame(s, u, n) /\ Reduced(u.ent[n], s.ent[n], cf)
  <2>1. CASE "NEGATIVE" \in r.flags
    <3>1. u = s
      BY <1>1, <2>1 DEF Resolve
    <3>2. Reduced(s.ent[n], s.ent[n], cf)
      BY <2>1 DEF Reduced
    <3>. QED  BY <3>1, <3>2, FrameReflexive
  <2>2. CASE "NEGATIVE" \notin r.flags
    <3>1. u = DelAll(s, n, Conflicts(s.ent[n], i))
      BY <1>1, <2>2 DEF Resolve
    <3>. QED  BY <2>2, <3>1, DelAllIs
  <2>. QED  BY <2>1, <2>2
<1>3. OK(u) /\ Has(u, n) /\ u.ent[n].rr[i] = None
  BY <1>2 DEF Frame, Reduced
<1>4. Frame(u, t, n) /\ Gains(t.ent[n], u.ent[n], i, r)
  BY <1>1, <1>3, PutSetIs DEF Put
<1>5. Frame(s, t, n)
  BY <1>2, <1>4, FrameTransitive
<1>6. "LOCAL" \in t.ent[n].flags <=> "LOCAL" \in s.ent[n].flags
  BY <1>2, <1>4 DEF Reduced, Gains
<1>7. /\ t.ent[n].rr[i] # None /\ ("LOCAL" \in t.ent[n].rr[i].flags <=> "LOCAL" \in r.flags)
      /\ "NEGATIVE" \in t.ent[n].rr[i].flags <=> "NEGATIVE" \in r.flags
  BY <1>4 DEF Gains
<1>8. \A j \in Indices : j # i =>
        t.ent[n].rr[j] = IF j \in cf THEN None ELSE s.ent[n].rr[j]
  BY <1>2, <1>4 DEF Reduced, Gains
<1>9. ASSUME Compatible(n, s.ent[n]) PROVE Compatible(n, t.ent[n])
  <2>. DEFINE d == t.ent[n]
              c == s.ent[n]
  <2>1. IsNeg(c) => \A j \in Indices : c.rr[j] = None
    BY DEF OK, EntriesOK, EntryOK
  <2>2. ASSUME NEW j \in Indices, NEW k \in Indices, d.rr[j] # None, d.rr[k] # None, Excludes(j, k),
               "NEGATIVE" \notin d.rr[j].flags \cup d.rr[k].flags
        PROVE  \E a \in Inputs : a.name = n /\ Says(a, Types[j]) /\ Says(a, Types[k])
    <3>1. CASE j # i /\ k # i
      <4>1. d.rr[j] = c.rr[j] /\ d.rr[k] = c.rr[k]
        BY <2>2, <3>1, <1>8
      <4>. QED  BY <2>2, <4>1, <1>9 DEF Compatible
    <3>2. CASE j = i /\ k # i
      <4>1. "NEGATIVE" \notin r.flags /\ d.rr[k] = c.rr[k] /\ k \notin cf
        BY <2>2, <3>2, <1>7, <1>8
      <4>2. k \in Conflicts(c, i)
        BY <2>1, <2>2, <3>2, <4>1 DEF Conflicts
      <4>. QED  BY <4>1, <4>2
    <3>3. CASE k = i /\ j # i
      <4>1. "NEGATIVE" \notin r.flags /\ d.rr[j] = c.rr[j] /\ j \notin cf
        BY <2>2, <3>3, <1>7, <1>8
      <4>2. Excludes(i, j)
        BY <2>2, <3>3 DEF Excludes
      <4>3. j \in Conflicts(c, i)
        BY <2>1, <2>2, <4>1, <4>2 DEF Conflicts
      <4>. QED  BY <4>1, <4>3
    <3>4. CASE j = i /\ k = i
      BY <2>2, <3>4 DEF Excludes
    <3>. QED  BY <3>1, <3>2, <3>3, <3>4
  <2>. QED  BY <2>2 DEF Compatible
<1>. QED  BY <1>5, <1>6, <1>7, <1>8, <1>9

LEMMA AdmitSetIs ==
  ASSUME NEW s, OK(s), NEW n \in NameSet, Has(s, n), NEW i \in Indices, s.ent[n].rr[i] = None,
         NEW r \in rr_set_t, NEW fail, NEW b, b = AdmitSet(s, n, i, r, fail)
  PROVE  /\ SetStep(s, b, n) /\ Speaks(b, n) /\ b.failed \in BOOLEAN
         /\ b.failed => fail.at = i
         /\ HasLocalSet(s.ent[n]) \/ "LOCAL" \in r.flags => b.failed \/ HasLocalSet(b.s.ent[n])
<1>. DEFINE c == s.ent[n]
            cf == Conflicts(c, i)
<1>1. CASE ~ cr_check_add(c, i, r)
  <2>1. b.s = s /\ b.failed = FALSE
    BY <1>1 DEF AdmitSet
  <2>2. SetStep(s, b, n)
    BY <2>1, FrameReflexive DEF SetStep
  <2>3. "LOCAL" \in c.flags \/ \E j \in Indices : c.rr[j] # None
    BY <1>1 DEF cr_check_add, Conflicts
  <2>4. Speaks(b, n)
    BY <2>1, <2>3, SetSpeaks DEF Speaks
  <2>5. "LOCAL" \notin r.flags
    BY <1>1 DEF cr_check_add
  <2>. QED  BY <2>1, <2>2, <2>4, <2>5
<1>2. CASE cr_check_add(c, i, r)
  <2>1. PICK t : t = PutSet(Resolve(s, n, i, r), n, i, r)
    OBVIOUS
  <2>2. /\ Frame(s, t, n) /\ ("LOCAL" \in t.ent[n].flags <=> "LOCAL" \in c.flags)
        /\ Compatible(n, c) => Compatible(n, t.ent[n])
        /\ t.ent[n].rr[i] # None /\ ("LOCAL" \in t.ent[n].rr[i].flags <=> "LOCAL" \in r.flags)
        /\ \A j \in Indices : j # i =>
             \/ t.ent[n].rr[j] = c.rr[j]
             \/ "NEGATIVE" \notin r.flags /\ j \in cf /\ t.ent[n].rr[j] = None
    BY <2>1, ResolvedIs
  <2>3. OK(t) /\ Has(t, n)
    BY <2>2 DEF Frame
  <2>4. CASE fail.at # i
    <3>1. b.s = t /\ b.failed = FALSE
      BY <1>2, <2>1, <2>4 DEF AdmitSet
    <3>2. SetStep(s, b, n)
      BY <2>2, <3>1 DEF SetStep
    <3>3. Speaks(b, n)
      BY <2>2, <2>3, <3>1, SetSpeaks DEF Speaks
    <3>4. ASSUME HasLocalSet(c) \/ "LOCAL" \in r.flags PROVE HasLocalSet(t.ent[n])
      <4>1. CASE "LOCAL" \in r.flags
        BY <2>2, <4>1 DEF HasLocalSet
      <4>2. CASE "LOCAL" \notin r.flags
        <5>1. PICK j \in Indices : c.rr[j] # None /\ "LOCAL" \in c.rr[j].flags
          BY <3>4, <4>2 DEF HasLocalSet
        <5>2. j # i
          BY <5>1
        <5>3. "NEGATIVE" \in r.flags \/ j \notin cf
          BY <1>2, <4>2, <5>1 DEF cr_check_add
        <5>4. t.ent[n].rr[j] = c.rr[j]
          BY <2>2, <5>2, <5>3
        <5>. QED  BY <5>1, <5>4 DEF HasLocalSet
      <4>. QED  BY <4>1, <4>2
    <3>. QED  BY <3>1, <3>2, <3>3, <3>4
  <2>5. CASE fail.at = i
    <3>1. PICK u : u = Abandon(t, n, i, fail.ext \/ c.rrext)
      OBVIOUS
    <3>2. b.s = u /\ b.failed = TRUE
      BY <1>2, <2>1, <2>5, <3>1 DEF AdmitSet
    <3>3. Abandoned(t, u, n, i)
      BY <2>3, <3>1, AbandonIs
    <3>4. Frame(s, u, n)
      BY <2>2, <3>3, FrameTransitive DEF Abandoned
    <3>5. Compatible(n, t.ent[n]) => Compatible(n, u.ent[n])
      BY <3>3, LessCompatible DEF Abandoned
    <3>6. SetStep(s, b, n)
      BY <2>2, <3>2, <3>3, <3>4, <3>5 DEF SetStep, Abandoned
    <3>. QED  BY <2>5, <3>2, <3>6 DEF Speaks
  <2>. QED  BY <2>4, <2>5
<1>. QED  BY <1>1, <1>2

\* One set after another.
Turned(s, b, n, fail) ==
  /\ SetStep(s, b, n) /\ KeepsLocal(s, b, n)
  /\ b.failed \in BOOLEAN /\ (b.failed => fail # NoFail)

LEMMA ReplaceSetIs ==
  ASSUME NEW a, OK(a.s), NEW n \in NameSet, Has(a.s, n), a.failed \in BOOLEAN,
         NEW i \in Indices, NEW c \in dns_cent_t, NEW fail, a.failed => fail # NoFail,
         NEW b, b = ReplaceSet(a, n, c, i, fail)
  PROVE  /\ Turned(a.s, b, n, fail) /\ (a.failed => b.failed)
         /\ IF c.rr[i] = None THEN b = a ELSE Speaks(b, n)
<1>. DEFINE d == a.s.ent[n]
            old == IF IsNeg(d) THEN None ELSE d.rr[i]
<1>0. IsNeg(d) => \A j \in Indices : d.rr[j] = None
  BY DEF OK, EntriesOK, EntryOK
<1>1. CASE a.failed \/ c.rr[i] = None \/ Precedes(old, c.rr[i])
  <2>1. b = a
    BY <1>1 DEF ReplaceSet
  <2>2. Turned(a.s, a, n, fail)
    BY FrameReflexive DEF Turned, SetStep, KeepsLocal
  <2>3. ASSUME c.rr[i] # None PROVE Speaks(a, n)
    <3>1. a.failed \/ d.rr[i] # None
      BY <1>1, <2>3 DEF Precedes
    <3>. QED  BY <3>1, SetSpeaks DEF Speaks
  <2>. QED  BY <2>1, <2>2, <2>3
<1>2. CASE ~ (a.failed \/ c.rr[i] = None \/ Precedes(old, c.rr[i]))
  <2>1. PICK u : u = del_cent_rrset_by_index(a.s, n, i)
    OBVIOUS
  <2>2. b = AdmitSet(u, n, i, c.rr[i], fail)
    BY <1>2, <2>1 DEF ReplaceSet
  <2>3. Frame(a.s, u, n) /\ Lacks(u.ent[n], d, i)
    BY <2>1, DelIndexIs DEF Dropped
  <2>4. OK(u) /\ Has(u, n) /\ u.ent[n].rr[i] = None
    BY <2>3 DEF Frame, Lacks
  <2>5. c.rr[i] \in rr_set_t
    BY <1>2 DEF dns_cent_t
  <2>6. /\ SetStep(u, b, n) /\ Speaks(b, n) /\ b.failed \in BOOLEAN
        /\ b.failed => fail.at = i
        /\ HasLocalSet(u.ent[n]) \/ "LOCAL" \in c.rr[i].flags => b.failed \/ HasLocalSet(b.s.ent[n])
    BY <2>2, <2>4, <2>5, AdmitSetIs
  <2>7. Compatible(n, d) => Compatible(n, u.ent[n])
    BY <2>3, LessCompatible DEF Lacks
  <2>8. SetStep(a.s, b, n)
    <3>1. Frame(a.s, b.s, n)
      BY <2>3, <2>6, FrameTransitive DEF SetStep
    <3>. QED  BY <2>3, <2>6, <2>7, <3>1 DEF SetStep, Lacks
  <2>9. ASSUME HasLocalSet(d) PROVE HasLocalSet(u.ent[n]) \/ "LOCAL" \in c.rr[i].flags
    <3>1. PICK j \in Indices : d.rr[j] # None /\ "LOCAL" \in d.rr[j].flags
      BY <2>9 DEF HasLocalSet
    <3>2. CASE j = i
      BY <1>0, <1>2, <3>1, <3>2 DEF Precedes
    <3>3. CASE j # i
      <4>1. u.ent[n].rr[j] = d.rr[j]
        BY <2>3, <3>3 DEF Lacks
      <4>. QED  BY <3>1, <4>1 DEF HasLocalSet
    <3>. QED  BY <3>2, <3>3
  <2>10. b.failed => fail # NoFail
    BY <2>6, Constants DEF NoFail
  <2>. QED  BY <1>2, <2>6, <2>8, <2>9, <2>10 DEF Turned, KeepsLocal
<1>. QED  BY <1>1, <1>2

LEMMA ReplaceSetsSteps ==
  ASSUME NEW s, NEW n, NEW c, NEW fail
  PROVE  \E F : /\ F[0] = [s |-> s, failed |-> FALSE] /\ ReplaceSets(s, n, c, fail) = F[Len(Types)]
                /\ \A k \in 1..Len(Types) : F[k] = ReplaceSet(F[k - 1], n, c, IndexSeq[k], fail)
<1>. DEFINE Op(u, y) == ReplaceSet(u, n, c, IndexSeq[y], fail)
            Value(G, x) == IF x = {} THEN [s |-> s, failed |-> FALSE] ELSE Op(G[x \ {Max(x)}], Max(x))
            Rec(G, D) == G = [x \in SUBSET D |-> Value(G, x)]
            Is(k) == \E G : Rec(G, 1..k)
            S == {k \in Nat : Is(k)}
<1>0. Len(Types) \in Nat
  BY Constants
<1>1. ReplaceSets(s, n, c, fail) = (CHOOSE G : Rec(G, 1..Len(Types)))[1..Len(Types)]
  BY Constants DEF ReplaceSets, FoldLeft, MapThenFoldSet
<1>. HIDE DEF Op
<1>2. 0 \in S
  <2>. DEFINE G == [x \in SUBSET (1..0) |-> [s |-> s, failed |-> FALSE]]
  <2>1. \A x \in SUBSET (1..0) : Value(G, x) = [s |-> s, failed |-> FALSE]
    OBVIOUS
  <2>2. Is(0)
    BY <2>1
  <2>. HIDE DEF Is
  <2>. QED  BY <2>2
<1>3. ASSUME NEW k \in Nat, k \in S PROVE k + 1 \in S
  <2>1. PICK G : Rec(G, 1..k)
    BY <1>3
  <2>. DEFINE H == [x \in SUBSET (1..(k + 1)) |-> IF k + 1 \in x THEN Value(G, x) ELSE G[x]]
  <2>2. ASSUME NEW x \in SUBSET (1..(k + 1)) PROVE H[x] = Value(H, x)
    <3>1. CASE x = {}
      BY <3>1, <2>1
    <3>2. CASE x # {}
      <4>1. x \ {Max(x)} \in SUBSET (1..k) /\ H[x \ {Max(x)}] = G[x \ {Max(x)}]
        BY <3>2, UpTo
      <4>2. H[x] = Value(G, x)
        BY <2>1, <3>2, UpTo
      <4>. QED  BY <4>1, <4>2, <3>2
    <3>. QED  BY <3>1, <3>2
  <2>3. Rec(H, 1..(k + 1))
    BY <2>2
  <2>. HIDE DEF H
  <2>4. Is(k + 1)
    BY <2>3
  <2>. HIDE DEF Is
  <2>. QED  BY <2>4
<1>4. Len(Types) \in S
  <2>. HIDE DEF S
  <2>. QED  BY <1>0, <1>2, <1>3, Induction
<1>5. PICK G : Rec(G, 1..Len(Types)) /\ ReplaceSets(s, n, c, fail) = G[1..Len(Types)]
  BY <1>1, <1>4
<1>. DEFINE F == [k \in 0..Len(Types) |-> G[1..k]]
<1>6. ASSUME NEW k \in 1..Len(Types) PROVE F[k] = Op(F[k - 1], k)
  <2>1. PICK j \in Nat : k = j + 1
    <3>1. k - 1 \in Nat /\ k = (k - 1) + 1
      BY <1>0
    <3>. QED  BY <3>1
  <2>2. 1..k \in SUBSET (1..Len(Types)) /\ F[k] = G[1..k] /\ F[k - 1] = G[1..j]
    BY <1>0, <2>1
  <2>3. G[1..k] = Value(G, 1..k)
    BY <2>2, <1>5
  <2>4. 1..k # {} /\ Max(1..k) = k /\ (1..k) \ {k} = 1..j
    BY <2>1, UpTo
  <2>. QED  BY <2>2, <2>3, <2>4
<1>7. F[0] = [s |-> s, failed |-> FALSE]
  BY <1>0, <1>5
<1>8. F[Len(Types)] = ReplaceSets(s, n, c, fail)
  BY <1>0, <1>5
<1>. HIDE DEF F
<1>. QED  BY <1>6, <1>7, <1>8 DEF Op

LEMMA ReplaceSetsIs ==
  ASSUME NEW s, OK(s), NEW n \in NameSet, Has(s, n), NEW c \in dns_cent_t, NEW fail,
         NEW b, b = ReplaceSets(s, n, c, fail)
  PROVE  Turned(s, b, n, fail) /\ ((\E i \in Indices : c.rr[i] # None) => Speaks(b, n))
<1>0. \E F : /\ F[0] = [s |-> s, failed |-> FALSE] /\ ReplaceSets(s, n, c, fail) = F[Len(Types)]
             /\ \A k \in 1..Len(Types) : F[k] = ReplaceSet(F[k - 1], n, c, IndexSeq[k], fail)
  BY ONLY ReplaceSetsSteps
<1>1. PICK F : /\ F[0] = [s |-> s, failed |-> FALSE] /\ ReplaceSets(s, n, c, fail) = F[Len(Types)]
               /\ \A k \in 1..Len(Types) : F[k] = ReplaceSet(F[k - 1], n, c, IndexSeq[k], fail)
  BY <1>0
<1>. DEFINE Inv(k) == /\ Turned(s, F[k], n, fail)
                      /\ (\E i \in Indices : i <= k /\ c.rr[i] # None) => Speaks(F[k], n)
            S == {k \in Nat : k <= Len(Types) => Inv(k)}
<1>2. 0 \in S
  <2>1. F[0].s = s /\ F[0].failed = FALSE
    BY <1>1
  <2>2. Turned(s, F[0], n, fail)
    BY <2>1, FrameReflexive DEF Turned, SetStep, KeepsLocal
  <2>3. ~ \E i \in Indices : i <= 0
    BY Constants
  <2>. QED  BY <2>2, <2>3
<1>3. ASSUME NEW k \in Nat, k \in S PROVE k + 1 \in S
  <2>1. SUFFICES ASSUME k + 1 <= Len(Types) PROVE Inv(k + 1)
    OBVIOUS
  <2>2. k <= Len(Types) /\ k + 1 \in 1..Len(Types) /\ (k + 1) - 1 = k
    BY <2>1, Constants
  <2>3. Inv(k)
    BY <1>3, <2>2
  <2>4. k + 1 \in Indices /\ IndexSeq[k + 1] = k + 1
    BY <2>2, Constants
  <2>5. F[k + 1] = ReplaceSet(F[k], n, c, k + 1, fail)
    BY <1>1, <2>2, <2>4
  <2>6. /\ OK(F[k].s) /\ Has(F[k].s, n) /\ F[k].failed \in BOOLEAN
        /\ F[k].failed => fail # NoFail
    BY <2>3 DEF Turned, SetStep, Frame
  <2>7. /\ Turned(F[k].s, F[k + 1], n, fail) /\ (F[k].failed => F[k + 1].failed)
        /\ IF c.rr[k + 1] = None THEN F[k + 1] = F[k] ELSE Speaks(F[k + 1], n)
    BY <2>4, <2>5, <2>6, ReplaceSetIs
  <2>8. Frame(s, F[k + 1].s, n)
    BY <2>3, <2>7, FrameTransitive DEF Turned, SetStep
  <2>9. Turned(s, F[k + 1], n, fail)
    BY <2>3, <2>7, <2>8 DEF Turned, SetStep, KeepsLocal
  <2>10. ASSUME NEW i \in Indices, i <= k + 1, c.rr[i] # None PROVE Speaks(F[k + 1], n)
    <3>1. CASE i = k + 1
      BY <2>7, <2>10, <3>1
    <3>2. CASE i # k + 1 /\ c.rr[k + 1] # None
      BY <2>7, <3>2
    <3>3. CASE i # k + 1 /\ c.rr[k + 1] = None
      <4>1. i <= k
        BY <2>10, <3>3, Constants
      <4>. QED  BY <2>3, <2>7, <2>10, <3>3, <4>1
    <3>. QED  BY <3>1, <3>2, <3>3
  <2>. QED  BY <2>9, <2>10
<1>4. Len(Types) \in S
  <2>. HIDE DEF S
  <2>. QED  BY <1>2, <1>3, Induction, Constants
<1>5. Inv(Len(Types)) /\ \A i \in Indices : i <= Len(Types)
  BY <1>4, Constants
<1>. QED  BY <1>1, <1>5

LEMMA FlaggedIs ==
  ASSUME NEW d, EntryOK(d), NEW c \in dns_cent_t
  PROVE  /\ EntryOK(Flagged(d, c)) /\ SameLists(Flagged(d, c), d)
         /\ Flagged(d, c).cs = d.cs /\ Flagged(d, c).num_rrs = d.num_rrs
<1>1. d \in dns_cent_t
  BY DEF EntryOK
<1>2. PICK ref : ref = [x \in DOMAIN c.ref |-> NewRef(d.ref[x], c.ref[x])]
  OBVIOUS
<1>3. ref \in [{"NS", "SOA"} -> NameSet \cup {None}]
  <2>1. /\ c.ref \in [{"NS", "SOA"} -> NameSet \cup {None}]
        /\ d.ref \in [{"NS", "SOA"} -> NameSet \cup {None}]
    BY <1>1 DEF dns_cent_t
  <2>2. \A x \in {"NS", "SOA"} : NewRef(d.ref[x], c.ref[x]) \in NameSet \cup {None}
    BY <2>1 DEF NewRef
  <2>. QED  BY <1>2, <2>1, <2>2
<1>4. PICK f : f = d.flags \cup (c.flags \cap {"AUTH", "WILD"})
  OBVIOUS
<1>5. PICK e : e = [d EXCEPT !.flags = f, !.ref = ref]
  OBVIOUS
<1>6. e = Flagged(d, c)
  BY <1>1, <1>2, <1>4, <1>5 DEF Flagged, dns_cent_t
<1>7. f \in SUBSET Flags
  BY <1>1, <1>4 DEF dns_cent_t
<1>8. /\ e \in dns_cent_t /\ e.flags = f /\ e.rr = d.rr /\ e.cs = d.cs /\ e.num_rrs = d.num_rrs
      /\ e.ts = d.ts /\ e.rrext = d.rrext
  BY <1>1, <1>3, <1>5, <1>7 DEF dns_cent_t
<1>9. SameLists(e, d)
  BY <1>4, <1>8 DEF SameLists, IsNeg
<1>10. EntryOK(e)
  <2>1. c.cs \in Int /\ d.cs \in Int /\ Header(d) \in Nat /\ Header(e) = Header(d)
    BY <1>1, <1>8, WeightNat DEF Header, dns_cent_t
  <2>2. e.cs = d.cs + (Header(e) - Header(d))
    BY <1>8, <2>1
  <2>. QED  BY <1>8, <1>9, <2>2, WithSameSets DEF SameLists
<1>. QED  BY <1>6, <1>8, <1>9, <1>10

\* What the sets decide does not depend on flags and references.
LEMMA SameListsMeans ==
  ASSUME NEW n, NEW c, NEW d, SameLists(d, c)
  PROVE  (Compatible(n, c) => Compatible(n, d)) /\ (HasLocalSet(c) => HasLocalSet(d))
BY DEF SameLists, Compatible, HasLocalSet

LEMMA AddFlagsIs ==
  ASSUME NEW s, NEW n \in NameSet, Has(s, n), NEW c \in dns_cent_t, NEW fail,
         NEW a, Turned(s, a, n, fail), NEW b, b = AddFlags(a, n, c)
  PROVE  Turned(s, b, n, fail) /\ (Speaks(a, n) => Speaks(b, n))
<1>. DEFINE r == a.s
<1>0. OK(r) /\ Has(r, n) /\ EntryOK(r.ent[n]) /\ a.failed \in BOOLEAN
  BY DEF Turned, SetStep, Frame, OK, EntriesOK
<1>1. CASE a.failed
  <2>1. b = a
    BY <1>1 DEF AddFlags
  <2>. QED  BY <2>1
<1>2. CASE ~ a.failed
  <2>1. PICK d : d = Flagged(r.ent[n], c)
    OBVIOUS
  <2>2. PICK t : t = [r EXCEPT !.ent[n] = d]
    OBVIOUS
  <2>3. b.s = t /\ b.failed = FALSE
    BY <1>2, <2>1, <2>2 DEF AddFlags
  <2>4. /\ EntryOK(d) /\ SameLists(d, r.ent[n]) /\ d.num_rrs = r.ent[n].num_rrs
    BY <1>0, <2>1, FlaggedIs
  <2>5. Replaced(r, t, n, d)
    BY <1>0, <2>2, <2>4, EntReplaced
  <2>6. Frame(r, t, n) /\ t.ent[n] = d
    BY <2>5 DEF Replaced
  <2>7. Frame(s, t, n)
    BY <2>6, FrameTransitive DEF Turned, SetStep
  <2>8. (Compatible(n, r.ent[n]) => Compatible(n, d)) /\ (HasLocalSet(r.ent[n]) => HasLocalSet(d))
    BY <2>4, SameListsMeans
  <2>10. "LOCAL" \in d.flags <=> "LOCAL" \in r.ent[n].flags
    BY <2>4 DEF SameLists
  <2>11. SetStep(s, b, n)
    BY <2>3, <2>6, <2>7, <2>8, <2>10 DEF Turned, SetStep
  <2>12. KeepsLocal(s, b, n)
    BY <1>2, <2>3, <2>6, <2>8 DEF Turned, KeepsLocal
  <2>13. Speaks(a, n) => Speaks(b, n)
    BY <1>2, <2>3, <2>4, <2>6, <2>10 DEF Speaks, SameLists, IsEmpty
  <2>. QED  BY <2>3, <2>11, <2>12, <2>13 DEF Turned
<1>. QED  BY <1>0, <1>1, <1>2

\* A cache of another size.
Sized(s, t) ==
  /\ t \in cache_t /\ t.ent = s.ent /\ t.list = s.list /\ t.num = s.num /\ t.sort = s.sort

LEMMA SizedIs ==
  ASSUME NEW s \in cache_t, NEW x \in Int, NEW t, t = [s EXCEPT !.size = x]
  PROVE  Sized(s, t) /\ t.size = x
BY DEF cache_t, Sized

LEMMA SizedMeans ==
  ASSUME NEW s, OK(s), NEW t, Sized(s, t)
  PROVE  /\ OK(t) /\ (Tidy(s) => Tidy(t)) /\ \A n : Has(t, n) <=> Has(s, n)
<1>1. \A n : Has(t, n) <=> Has(s, n)
  BY DEF Has, Sized
<1>2. ToBeListed(t) = ToBeListed(s) /\ \A e : Stamp(t, e) = Stamp(s, e)
  BY <1>1 DEF ToBeListed, Stamp, Sized
<1>3. EntriesOK(t)
  BY <1>1 DEF OK, EntriesOK, Sized
<1>4. Lists(t, {})
  BY <1>2 DEF OK, Lists, Sized
<1>5. Tidy(s) => Tidy(t)
  BY <1>2 DEF Tidy, ListSorted, Sized
<1>. QED  BY <1>1, <1>3, <1>4, <1>5 DEF OK

\* What add_cache does to an entry that is there.
Joined(s, b, n, c, fail) ==
  /\ OK(b.s) /\ b.s.sort = s.sort /\ Has(b.s, n)
  /\ \A m \in NameSet : m # n => b.s.ent[m] = s.ent[m] /\ (Has(b.s, m) <=> Has(s, m))
  /\ Tidy(s) => Tidy(b.s)
  /\ Books(s) => Books(b.s)
  /\ Compatible(n, s.ent[n]) => Compatible(n, b.s.ent[n])
  /\ KeepsLocal(s, b, n)
  /\ (\E i \in Indices : c.rr[i] # None) => Speaks(b, n)
  /\ b.failed \in BOOLEAN /\ (b.failed => fail # NoFail)

LEMMA HasLocalSetIs ==
  ASSUME NEW s, NEW n \in NameSet
  PROVE  Has(s, n) /\ HasLocalSet(s.ent[n]) <=> \E i \in Indices : <<n, i>> \in LocalSets(s)
BY DEF HasLocalSet, LocalSets

LEMMA AddToEntryIs ==
  ASSUME NEW s, OK(s), NEW n \in NameSet, Has(s, n), NEW c \in dns_cent_t, NEW fail,
         NEW b, b = AddToEntry(s, n, c, fail)
  PROVE  Joined(s, b, n, c, fail)
<1>1. PICK t : t = purge_cent(s, n, FALSE)
  OBVIOUS
<1>2. Cleaned(s, t, n, FALSE)
  BY <1>1, PurgeCentIs
<1>3. OK(t) /\ Has(t, n) /\ t \in cache_t /\ EntryOK(t.ent[n])
  BY <1>2 DEF Cleaned, Purged, OK, EntriesOK
<1>4. t.size \in Int /\ t.ent[n].cs \in Int /\ t.size - t.ent[n].cs \in Int
  BY <1>3 DEF EntryOK, cache_t, dns_cent_t
<1>5. PICK u : u = SizeOut(t, n)
  OBVIOUS
<1>6. Sized(t, u) /\ u.size = t.size - t.ent[n].cs
  BY <1>3, <1>4, <1>5, SizedIs DEF SizeOut
<1>7. OK(u) /\ Has(u, n) /\ (Tidy(t) => Tidy(u))
  BY <1>3, <1>6, SizedMeans
<1>8. PICK r : r = ReplaceSets(u, n, c, fail)
  OBVIOUS
<1>9. Turned(u, r, n, fail) /\ ((\E i \in Indices : c.rr[i] # None) => Speaks(r, n))
  BY <1>7, <1>8, ReplaceSetsIs
<1>10. PICK a : a = AddFlags(r, n, c)
  OBVIOUS
<1>11. Turned(u, a, n, fail) /\ (Speaks(r, n) => Speaks(a, n))
  BY <1>7, <1>9, <1>10, AddFlagsIs
<1>12. PICK w : w = a.s
  OBVIOUS
<1>13. /\ Frame(u, w, n) /\ OK(w) /\ Has(w, n) /\ w \in cache_t /\ w.size = u.size
       /\ w.ent[n].cs \in Int
  BY <1>7, <1>11, <1>12 DEF Turned, SetStep, Frame, OK, EntriesOK, EntryOK, dns_cent_t
<1>14. PICK v : v = SizeIn(w, n)
  OBVIOUS
<1>15. b.s = v /\ b.failed = a.failed
  BY <1>1, <1>5, <1>8, <1>10, <1>12, <1>14 DEF AddToEntry
<1>16. Sized(w, v) /\ v.size = w.size + w.ent[n].cs
  <2>1. w.size + w.ent[n].cs \in Int
    BY <1>13, CacheFields
  <2>. QED  BY <1>13, <1>14, <2>1, SizedIs DEF SizeIn
<1>17. OK(v) /\ (Tidy(w) => Tidy(v)) /\ \A m : Has(v, m) <=> Has(w, m)
  BY <1>13, <1>16, SizedMeans
<1>18. /\ v.sort = s.sort /\ Has(v, n) /\ v.num = t.num /\ v.ent[n] = w.ent[n]
       /\ \A m \in NameSet : Has(v, m) <=> Has(t, m)
       /\ \A m \in NameSet : m # n => v.ent[m] = t.ent[m]
  <2>1. /\ w.sort = u.sort /\ u.sort = t.sort /\ t.sort = s.sort /\ u.num = t.num /\ w.num = u.num
        /\ u.ent = t.ent /\ v.ent = w.ent /\ v.sort = w.sort /\ v.num = w.num
    BY <1>2, <1>6, <1>13, <1>16 DEF Cleaned, Frame, Sized
  <2>2. \A m \in NameSet : (Has(w, m) <=> Has(u, m)) /\ (m # n => w.ent[m] = u.ent[m])
    BY <1>13 DEF Frame
  <2>3. \A m : Has(u, m) <=> Has(t, m)
    BY <2>1 DEF Has
  <2>. QED  BY <2>1, <2>2, <2>3, <1>13, <1>17
<1>19. ASSUME Books(t) PROVE Books(v)
  <2>1. SumFunction(Taken(v)) = SumFunction(Taken(t)) + (Taken(v)[n] - Taken(t)[n])
    BY <1>3, <1>17, <1>18, TakenChange DEF OK
  <2>2. Taken(v)[n] = w.ent[n].cs /\ Taken(t)[n] = t.ent[n].cs /\ SumFunction(Taken(t)) \in Nat
    BY <1>3, <1>17, <1>18, TakenNat DEF OK
  <2>3. There(v) = There(t)
    BY <1>18 DEF There
  <2>4. SumFunction(Taken(v)) = v.size
    BY <2>1, <2>2, <1>4, <1>6, <1>13, <1>16, <1>19 DEF Books
  <2>. QED  BY <2>3, <2>4, <1>18, <1>19 DEF Books
<1>20. Tidy(s) => Tidy(v)
  <2>1. Tidy(s) => Tidy(t)
    BY <1>2 DEF Cleaned, Purged
  <2>2. Tidy(u) => Tidy(w)
    BY <1>13 DEF Frame
  <2>. QED  BY <2>1, <2>2, <1>7, <1>17
<1>21. Books(s) => Books(v)
  BY <1>2, <1>19 DEF Cleaned, Purged
<1>22. Compatible(n, s.ent[n]) => Compatible(n, v.ent[n])
  <2>1. Less(s, t) /\ u.ent = t.ent
    BY <1>2, <1>6 DEF Cleaned, Purged, Sized
  <2>2. \A i \in Indices : t.ent[n].rr[i] = None \/ t.ent[n].rr[i] = s.ent[n].rr[i]
    BY <1>3, <2>1 DEF Less, LessEntry
  <2>3. Compatible(n, s.ent[n]) => Compatible(n, t.ent[n])
    BY <2>2, LessCompatible
  <2>4. Compatible(n, u.ent[n]) => Compatible(n, w.ent[n])
    BY <1>11, <1>12 DEF Turned, SetStep
  <2>. QED  BY <2>1, <2>3, <2>4, <1>18
<1>23. ASSUME HasLocalSet(s.ent[n]) PROVE b.failed \/ HasLocalSet(v.ent[n])
  <2>1. HasLocalSet(t.ent[n])
    <3>1. LocalSets(s) \subseteq LocalSets(t)
      BY <1>2 DEF Cleaned, Purged
    <3>. QED  BY <3>1, <1>23, HasLocalSetIs
  <2>2. u.ent = t.ent
    BY <1>6 DEF Sized
  <2>. QED  BY <2>1, <2>2, <1>11, <1>12, <1>15, <1>18 DEF Turned, KeepsLocal
<1>24. ASSUME \E i \in Indices : c.rr[i] # None PROVE Speaks(b, n)
  <2>1. Speaks(a, n)
    BY <1>9, <1>11, <1>24
  <2>. QED  BY <2>1, <1>12, <1>15, <1>18 DEF Speaks
<1>25. \A m \in NameSet : m # n => v.ent[m] = s.ent[m] /\ (Has(v, m) <=> Has(s, m))
  BY <1>2, <1>18 DEF Cleaned
<1>26. b.failed \in BOOLEAN /\ (b.failed => fail # NoFail)
  BY <1>11, <1>15 DEF Turned
<1>. QED
  BY <1>15, <1>17, <1>18, <1>20, <1>21, <1>22, <1>23, <1>24, <1>25, <1>26
  DEF Joined, KeepsLocal

ListTurn(s, u, n, i) == IF s.ent[n].rr[i] = None THEN u ELSE insert_rrl(u, n, i)

LEMMA ListSetsSteps ==
  ASSUME NEW s, NEW n
  PROVE  \E F : /\ F[0] = s /\ ListSets(s, n) = F[Len(Types)]
                /\ \A k \in 1..Len(Types) : F[k] = ListTurn(s, F[k - 1], n, IndexSeq[k])
<1>. DEFINE Op(u, y) == ListTurn(s, u, n, IndexSeq[y])
            Value(G, x) == IF x = {} THEN s ELSE Op(G[x \ {Max(x)}], Max(x))
            Rec(G, D) == G = [x \in SUBSET D |-> Value(G, x)]
            Is(k) == \E G : Rec(G, 1..k)
            S == {k \in Nat : Is(k)}
<1>0. Len(Types) \in Nat
  BY Constants
<1>1. ListSets(s, n) = (CHOOSE G : Rec(G, 1..Len(Types)))[1..Len(Types)]
  BY Constants DEF ListSets, ListTurn, FoldLeft, MapThenFoldSet
<1>. HIDE DEF Op
<1>2. 0 \in S
  <2>. DEFINE G == [x \in SUBSET (1..0) |-> s]
  <2>1. \A x \in SUBSET (1..0) : Value(G, x) = s
    OBVIOUS
  <2>2. Is(0)
    BY <2>1
  <2>. HIDE DEF Is
  <2>. QED  BY <2>2
<1>3. ASSUME NEW k \in Nat, k \in S PROVE k + 1 \in S
  <2>1. PICK G : Rec(G, 1..k)
    BY <1>3
  <2>. DEFINE H == [x \in SUBSET (1..(k + 1)) |-> IF k + 1 \in x THEN Value(G, x) ELSE G[x]]
  <2>2. ASSUME NEW x \in SUBSET (1..(k + 1)) PROVE H[x] = Value(H, x)
    <3>1. CASE x = {}
      BY <3>1, <2>1
    <3>2. CASE x # {}
      <4>1. x \ {Max(x)} \in SUBSET (1..k) /\ H[x \ {Max(x)}] = G[x \ {Max(x)}]
        BY <3>2, UpTo
      <4>2. H[x] = Value(G, x)
        BY <2>1, <3>2, UpTo
      <4>. QED  BY <4>1, <4>2, <3>2
    <3>. QED  BY <3>1, <3>2
  <2>3. Rec(H, 1..(k + 1))
    BY <2>2
  <2>. HIDE DEF H
  <2>4. Is(k + 1)
    BY <2>3
  <2>. HIDE DEF Is
  <2>. QED  BY <2>4
<1>4. Len(Types) \in S
  <2>. HIDE DEF S
  <2>. QED  BY <1>0, <1>2, <1>3, Induction
<1>5. PICK G : Rec(G, 1..Len(Types)) /\ ListSets(s, n) = G[1..Len(Types)]
  BY <1>1, <1>4
<1>. DEFINE F == [k \in 0..Len(Types) |-> G[1..k]]
<1>6. ASSUME NEW k \in 1..Len(Types) PROVE F[k] = Op(F[k - 1], k)
  <2>1. PICK j \in Nat : k = j + 1
    <3>1. k - 1 \in Nat /\ k = (k - 1) + 1
      BY <1>0
    <3>. QED  BY <3>1
  <2>2. 1..k \in SUBSET (1..Len(Types)) /\ F[k] = G[1..k] /\ F[k - 1] = G[1..j]
    BY <1>0, <2>1
  <2>3. G[1..k] = Value(G, 1..k)
    BY <2>2, <1>5
  <2>4. 1..k # {} /\ Max(1..k) = k /\ (1..k) \ {k} = 1..j
    BY <2>1, UpTo
  <2>. QED  BY <2>2, <2>3, <2>4
<1>7. F[0] = s
  BY <1>0, <1>5
<1>8. F[Len(Types)] = ListSets(s, n)
  BY <1>0, <1>5
<1>. HIDE DEF F
<1>. QED  BY <1>6, <1>7, <1>8 DEF Op

LEMMA ListSetsIs ==
  ASSUME NEW s, EntriesOK(s), NEW n \in NameSet, Has(s, n), Lists(s, {n} \X Indices)
  PROVE  /\ Relisted(s, ListSets(s, n)) /\ Lists(ListSets(s, n), {})
         /\ Tidy(s) => Tidy(ListSets(s, n))
<1>0. \E F : /\ F[0] = s /\ ListSets(s, n) = F[Len(Types)]
             /\ \A k \in 1..Len(Types) : F[k] = ListTurn(s, F[k - 1], n, IndexSeq[k])
  BY ONLY ListSetsSteps
<1>1. PICK F : /\ F[0] = s /\ ListSets(s, n) = F[Len(Types)]
               /\ \A k \in 1..Len(Types) : F[k] = ListTurn(s, F[k - 1], n, IndexSeq[k])
  BY <1>0
<1>. DEFINE X(k) == {n} \X {i \in Indices : i > k}
            Inv(k) == Relisted(s, F[k]) /\ Lists(F[k], X(k)) /\ (Tidy(s) => Tidy(F[k]))
            S == {k \in Nat : k <= Len(Types) => Inv(k)}
<1>2. 0 \in S
  <2>1. X(0) = {n} \X Indices
    <3>1. {i \in Indices : i > 0} = Indices
      BY Constants
    <3>. QED  BY <3>1
  <2>2. Relisted(s, s)
    BY DEF Relisted, EntriesOK
  <2>. HIDE DEF X
  <2>. QED  BY <2>1, <2>2, <1>1
<1>3. ASSUME NEW k \in Nat, k \in S PROVE k + 1 \in S
  <2>1. SUFFICES ASSUME k + 1 <= Len(Types) PROVE Inv(k + 1)
    OBVIOUS
  <2>2. k <= Len(Types) /\ k + 1 \in 1..Len(Types) /\ (k + 1) - 1 = k
    BY <2>1, Constants
  <2>3. Inv(k)
    BY <1>3, <2>2
  <2>4. k + 1 \in Indices /\ IndexSeq[k + 1] = k + 1
    BY <2>2, Constants
  <2>5. F[k + 1] = ListTurn(s, F[k], n, k + 1)
    BY <1>1, <2>2, <2>4
  <2>6. X(k + 1) = X(k) \ {<<n, k + 1>>} /\ <<n, k + 1>> \in X(k)
    <3>1. \A i \in Indices : i > k + 1 <=> i > k /\ i # k + 1
      BY Constants
    <3>2. \A i \in Indices : <<n, i>> \in X(k + 1) <=> <<n, i>> \in X(k) \ {<<n, k + 1>>}
      BY <3>1
    <3>3. \A e \in X(k) \cup X(k + 1) : e[1] = n /\ e[2] \in Indices /\ e = <<n, e[2]>>
      OBVIOUS
    <3>4. <<n, k + 1>> \in X(k)
      BY <2>4
    <3>. HIDE DEF X
    <3>. QED  BY <3>2, <3>3, <3>4
  <2>. HIDE DEF X
  <2>7. F[k].ent = s.ent /\ Has(F[k], n) /\ EntriesOK(F[k])
    BY <2>3, RelistedSame DEF Relisted
  <2>8. CASE s.ent[n].rr[k + 1] = None
    <3>1. F[k + 1] = F[k]
      BY <2>5, <2>8 DEF ListTurn
    <3>2. <<n, k + 1>> \notin ToBeListed(F[k])
      BY <2>4, <2>7, <2>8, Constants DEF ToBeListed, IsListed
    <3>3. ToBeListed(F[k]) \ X(k + 1) = ToBeListed(F[k]) \ X(k)
      BY <2>6, <3>2
    <3>. QED  BY <2>3, <3>1, <3>3 DEF Lists
  <2>9. CASE s.ent[n].rr[k + 1] # None
    <3>1. F[k + 1] = insert_rrl(F[k], n, k + 1)
      BY <2>5, <2>9 DEF ListTurn
    <3>2. IF k + 1 = 0 THEN IsNeg(F[k].ent[n]) ELSE F[k].ent[n].rr[k + 1] # None
      BY <2>7, <2>9
    <3>3. Inserted(F[k], F[k + 1], <<n, k + 1>>, X(k))
      BY <2>3, <2>4, <2>6, <2>7, <3>1, <3>2, InsertRrl
    <3>4. Relisted(s, F[k + 1])
      BY <2>3, <3>3 DEF Inserted, Relisted
    <3>. QED  BY <2>3, <2>6, <3>3, <3>4 DEF Inserted
  <2>. QED  BY <2>8, <2>9
<1>4. Len(Types) \in S
  <2>. HIDE DEF S
  <2>. QED  BY <1>2, <1>3, Induction, Constants
<1>5. Inv(Len(Types)) /\ X(Len(Types)) = {}
  BY <1>4, Constants
<1>. HIDE DEF X
<1>. QED  BY <1>1, <1>5

\* The sets adjusted.
AdjustedSets(c) ==
  [c EXCEPT !.rr = [i \in Indices |-> IF c.rr[i] = None THEN None ELSE adjust_ttl(c.rr[i])]]

LEMMA AdjustedSetsIs ==
  ASSUME NEW c, EntryOK(c)
  PROVE  /\ EntryOK(AdjustedSets(c)) /\ (IsNeg(AdjustedSets(c)) <=> IsNeg(c))
         /\ IsEmpty(AdjustedSets(c)) <=> IsEmpty(c)
         /\ \A n : Compatible(n, c) => Compatible(n, AdjustedSets(c))
<1>1. c \in dns_cent_t
  BY DEF EntryOK
<1>2. PICK q : q = [i \in Indices |-> IF c.rr[i] = None THEN None ELSE adjust_ttl(c.rr[i])]
  OBVIOUS
<1>3. \A i \in Indices :
        IF c.rr[i] = None THEN q[i] = None
        ELSE /\ q[i] \in rr_set_t /\ q[i] # None /\ q[i].rrs = c.rr[i].rrs
             /\ "NEGATIVE" \in q[i].flags <=> "NEGATIVE" \in c.rr[i].flags
  <2>1. TAKE i \in Indices
  <2>2. c.rr[i] # None => c.rr[i] \in rr_set_t
    BY <1>1 DEF dns_cent_t
  <2>3. q[i] = IF c.rr[i] = None THEN None ELSE adjust_ttl(c.rr[i])
    BY <1>2
  <2>. QED  BY <2>2, <2>3, AdjustedSet
<1>4. q \in [Indices -> rr_set_t \cup {None}]
  <2>1. \A i \in Indices : q[i] \in rr_set_t \cup {None}
    BY <1>3
  <2>2. q = [i \in Indices |-> q[i]]
    BY <1>2
  <2>. QED  BY <2>1, <2>2
<1>5. PICK d : d = [c EXCEPT !.rr = q]
  OBVIOUS
<1>6. d = AdjustedSets(c)
  BY <1>2, <1>5 DEF AdjustedSets
<1>7. /\ d \in dns_cent_t /\ d.rr = q /\ d.flags = c.flags /\ d.num_rrs = c.num_rrs
      /\ d.cs = c.cs /\ d.rrext = c.rrext
  BY <1>1, <1>4, <1>5 DEF dns_cent_t
<1>8. EntryOK(d)
  <2>1. c.cs \in Int /\ Header(c) \in Nat /\ Header(d) = Header(c)
    BY <1>1, <1>7, WeightNat DEF Header, dns_cent_t
  <2>2. d.cs = c.cs + (Header(d) - Header(c))
    BY <2>1, <1>7
  <2>3. \A i \in Indices : \/ d.rr[i] = c.rr[i]
                           \/ d.rr[i] # None /\ c.rr[i] # None /\ d.rr[i].rrs = c.rr[i].rrs
    BY <1>3, <1>7
  <2>. QED  BY <2>2, <2>3, <1>7, WithSameSets DEF IsNeg
<1>9. \A n : Compatible(n, c) => Compatible(n, d)
  <2>1. \A i \in Indices : d.rr[i] # None =>
          c.rr[i] # None /\ ("NEGATIVE" \in d.rr[i].flags <=> "NEGATIVE" \in c.rr[i].flags)
    BY <1>3, <1>7
  <2>. QED  BY <2>1 DEF Compatible
<1>. QED  BY <1>6, <1>7, <1>8, <1>9 DEF IsNeg, IsEmpty

\* A new entry.
Entered(s, v, n, c) ==
  /\ OK(v) /\ v.sort = s.sort /\ Has(v, n)
  /\ \A m \in NameSet : m # n => v.ent[m] = s.ent[m] /\ (Has(v, m) <=> Has(s, m))
  /\ Tidy(s) => Tidy(v)
  /\ Books(s) => Books(v)
  /\ Compatible(n, c) => Compatible(n, v.ent[n])
  /\ ~ IsEmpty(v.ent[n])

LEMMA AddEntryIs ==
  ASSUME NEW s, OK(s), NEW n \in NameSet, ~ Has(s, n), NEW c, EntryOK(c), ~ IsEmpty(c)
  PROVE  Entered(s, AddEntry(s, n, c), n, c)
<1>1. PICK e : e = IF IsNeg(c) THEN adjust_dom_ttl(c) ELSE AdjustedSets(c)
  OBVIOUS
<1>2. /\ EntryOK(e) /\ (IsNeg(e) <=> IsNeg(c)) /\ (Compatible(n, c) => Compatible(n, e))
      /\ ~ IsEmpty(e)
  <2>1. CASE IsNeg(c)
    <3>1. Negated(e, c)
      BY <1>1, <2>1, AdjustedEntry
    <3>2. EntryOK(e) /\ IsNeg(e) /\ e.rr = c.rr
      BY <2>1, <3>1 DEF Negated, IsNeg
    <3>. QED  BY <2>1, <3>2 DEF IsEmpty, Compatible
  <2>2. CASE ~ IsNeg(c)
    BY <1>1, <2>2, AdjustedSetsIs
  <2>. QED  BY <2>1, <2>2
<1>3. e \in dns_cent_t /\ e # None /\ e.cs \in Int /\ s \in cache_t /\ EntriesOK(s)
  BY <1>2, Constants DEF EntryOK, dns_cent_t, OK, EntriesOK
<1>4. PICK t : t = [s EXCEPT !.ent[n] = e, !.size = @ + e.cs, !.num = @ + 1]
  OBVIOUS
<1>5. /\ t.ent[n] = e /\ \A m \in NameSet : m # n => t.ent[m] = s.ent[m]
      /\ t.size = s.size + e.cs /\ t.num = s.num + 1 /\ t.sort = s.sort /\ t.list = s.list
  BY <1>3, <1>4 DEF cache_t
<1>6. t \in cache_t
  <2>1. s.size + e.cs \in Int /\ s.num + 1 \in Int
    BY <1>3, CacheFields
  <2>. QED  BY <1>3, <1>4, <2>1 DEF cache_t
<1>7. Has(t, n) /\ \A m \in NameSet : m # n => (Has(t, m) <=> Has(s, m))
  BY <1>3, <1>5 DEF Has
<1>8. EntriesOK(t)
  BY <1>2, <1>3, <1>5, <1>6, <1>7 DEF EntriesOK
<1>9. \A f \in ToBeListed(t) : f \in ToBeListed(s) <=> f[1] # n
  <2>1. TAKE f \in ToBeListed(t)
  <2>2. f[1] \in NameSet
    BY DEF ToBeListed
  <2>3. CASE f[1] = n
    BY <2>3 DEF ToBeListed
  <2>4. CASE f[1] # n
    <3>1. t.ent[f[1]] = s.ent[f[1]] /\ (Has(t, f[1]) <=> Has(s, f[1]))
      BY <2>2, <2>4, <1>5, <1>7
    <3>. QED  BY <2>4, <3>1 DEF ToBeListed
  <2>. QED  BY <2>3, <2>4
<1>10. \A f \in ToBeListed(s) : f \in ToBeListed(t) /\ f[1] # n /\ Stamp(t, f) = Stamp(s, f)
  <2>1. TAKE f \in ToBeListed(s)
  <2>2. f[1] \in NameSet /\ Has(s, f[1])
    BY DEF ToBeListed
  <2>3. f[1] # n
    BY <2>2
  <2>4. t.ent[f[1]] = s.ent[f[1]] /\ (Has(t, f[1]) <=> Has(s, f[1]))
    BY <2>2, <2>3, <1>5, <1>7
  <2>. QED  BY <2>3, <2>4 DEF ToBeListed, Stamp
<1>11. Elements(s.list) = ToBeListed(s) /\ Once(s.list)
  BY DEF OK, Lists
<1>12. Tidy(s) => Tidy(t)
  <2>1. \A k \in 1..Len(s.list) : Stamp(t, s.list[k]) = Stamp(s, s.list[k])
    BY <1>10, <1>11 DEF Elements
  <2>. QED  BY <2>1, <1>5 DEF Tidy, ListSorted
<1>13. Books(s) => Books(t)
  <2>1. SumFunction(Taken(t)) = SumFunction(Taken(s)) + (Taken(t)[n] - Taken(s)[n])
    BY <1>3, <1>5, <1>8, TakenChange
  <2>2. Taken(t)[n] = e.cs /\ Taken(s)[n] = 0 /\ SumFunction(Taken(s)) \in Nat
    BY <1>3, <1>5, <1>7, <1>8, TakenNat
  <2>3. There(t) = There(s) \cup {n} /\ n \notin There(s)
    BY <1>7 DEF There
  <2>4. Cardinality(There(t)) = Cardinality(There(s)) + 1
    <3>1. IsFiniteSet(There(s))
      BY <1>3, TakenNat
    <3>. QED  BY <2>3, <3>1, FS_AddElement
  <2>5. SumFunction(Taken(t)) = SumFunction(Taken(s)) + e.cs
    BY <1>3, <2>1, <2>2
  <2>. QED  BY <2>4, <2>5, <1>5 DEF Books
<1>14. PICK v : v = IF IsNeg(e) THEN insert_rrl(t, n, 0) ELSE ListSets(t, n)
  OBVIOUS
<1>15. v = AddEntry(s, n, c)
  BY <1>1, <1>4, <1>14 DEF AddEntry, AdjustedSets
<1>16. Relisted(t, v) /\ Lists(v, {}) /\ (Tidy(t) => Tidy(v))
  <2>1. CASE IsNeg(e)
    <3>1. Lists(t, {<<n, 0>>})
      <4>1. \A i \in Indices : e.rr[i] = None
        BY <1>2, <2>1 DEF EntryOK
      <4>2. \A f \in ToBeListed(t) : f[1] = n => f = <<n, 0>>
        BY <4>1, <1>5 DEF ToBeListed, IsListed
      <4>3. Elements(s.list) = ToBeListed(t) \ {<<n, 0>>}
        BY <4>2, <1>9, <1>10, <1>11
      <4>. QED  BY <4>3, <1>5, <1>11 DEF Lists
    <3>2. Inserted(t, v, <<n, 0>>, {<<n, 0>>})
      BY <2>1, <3>1, <1>5, <1>7, <1>8, <1>14, InsertRrl
    <3>3. {<<n, 0>>} \ {<<n, 0>>} = {}
      OBVIOUS
    <3>. QED  BY <3>2, <3>3 DEF Inserted
  <2>2. CASE ~ IsNeg(e)
    <3>1. Lists(t, {n} \X Indices)
      <4>1. \A f \in ToBeListed(t) : f[1] = n <=> f \in {n} \X Indices
        BY <2>2, <1>5 DEF ToBeListed
      <4>2. Elements(s.list) = ToBeListed(t) \ ({n} \X Indices)
        BY <4>1, <1>9, <1>10, <1>11
      <4>. QED  BY <4>2, <1>5, <1>11 DEF Lists
    <3>. QED  BY <2>2, <3>1, <1>7, <1>8, <1>14, ListSetsIs
  <2>. QED  BY <2>1, <2>2
<1>17. (\A m : Has(v, m) <=> Has(t, m)) /\ EntriesOK(v)
  BY <1>8, <1>16, RelistedSame
<1>18. v.ent = t.ent /\ v.sort = t.sort /\ v.size = t.size /\ v.num = t.num
  BY <1>16 DEF Relisted
<1>19. Books(t) => Books(v)
  <2>1. Taken(v) = Taken(t) /\ There(v) = There(t)
    BY <1>17, <1>18 DEF Taken, There
  <2>. QED  BY <2>1, <1>18 DEF Books
<1>20. OK(v)
  BY <1>16, <1>17 DEF OK
<1>. QED
  BY <1>2, <1>5, <1>7, <1>12, <1>13, <1>15, <1>16, <1>17, <1>18, <1>19, <1>20 DEF Entered

\* PutEntry changes entry n only.
Entering(s, a, n, fail) ==
  /\ OK(a.s) /\ a.s.sort = s.sort
  /\ \A m \in NameSet : m # n => a.s.ent[m] = s.ent[m] /\ (Has(a.s, m) <=> Has(s, m))
  /\ Tidy(s) => Tidy(a.s)
  /\ Books(s) => Books(a.s)
  /\ (Has(s, n) => Compatible(n, s.ent[n])) => (Has(a.s, n) => Compatible(n, a.s.ent[n]))
  /\ Has(a.s, n) /\ IsEmpty(a.s.ent[n]) =>
       \/ a.failed \/ "LOCAL" \in a.s.ent[n].flags
       \/ \E x \in Inputs : x.name = n /\ SaysNothing(x)
  /\ Has(s, n) /\ HasLocalSet(s.ent[n]) =>
       Has(a.s, n) /\ (a.failed \/ HasLocalSet(a.s.ent[n]))
  /\ a.failed \in BOOLEAN /\ (a.failed => fail # NoFail)

LEMMA PutEntryIs ==
  ASSUME NEW s, OK(s), NEW n \in NameSet, NEW c, FromInput(n, c), Has(s, n) => ~ IsNeg(c),
         NEW fail, NEW a, a = PutEntry(s, n, c, fail)
  PROVE  Entering(s, a, n, fail)
<1>0. EntryOK(c) /\ c \in dns_cent_t
  BY DEF FromInput, EntryOK
<1>1. CASE Has(s, n)
  <2>1. a = AddToEntry(s, n, c, fail)
    BY <1>1 DEF PutEntry
  <2>2. Joined(s, a, n, c, fail)
    BY <1>0, <1>1, <2>1, AddToEntryIs
  <2>3. ASSUME IsEmpty(a.s.ent[n])
        PROVE  \/ a.failed \/ "LOCAL" \in a.s.ent[n].flags
               \/ \E x \in Inputs : x.name = n /\ SaysNothing(x)
    <3>1. CASE \E i \in Indices : c.rr[i] # None
      BY <2>2, <2>3, <3>1 DEF Joined, Speaks
    <3>2. CASE \A i \in Indices : c.rr[i] = None
      <4>1. IsEmpty(c)
        BY <1>0, <1>1, <3>2, NoSets DEF IsEmpty, EntryOK
      <4>. QED  BY <4>1 DEF FromInput
    <3>. QED  BY <3>1, <3>2
  <2>. QED  BY <1>1, <2>2, <2>3 DEF Joined, Entering, KeepsLocal
<1>2. CASE ~ Has(s, n) /\ (IsEmpty(c) \/ fail # NoFail)
  <2>1. a.s = s /\ a.failed \in BOOLEAN /\ (a.failed => fail # NoFail)
    BY <1>2 DEF PutEntry
  <2>. QED  BY <1>2, <2>1 DEF Entering
<1>3. CASE ~ Has(s, n) /\ ~ IsEmpty(c) /\ fail = NoFail
  <2>1. PICK v : v = AddEntry(s, n, c)
    OBVIOUS
  <2>2. a.s = v /\ a.failed = FALSE
    BY <1>3, <2>1 DEF PutEntry
  <2>3. Entered(s, v, n, c)
    BY <1>0, <1>3, <2>1, AddEntryIs
  <2>. QED  BY <1>3, <2>2, <2>3 DEF Entered, Entering, FromInput
<1>. QED  BY <1>1, <1>2, <1>3

\* What the entries outside W take, and the bound on it: the cache is at most as large as
\* it may be, but for the entries of W, or nothing else may be purged.
Kept(s, W) == [n \in NameSet |-> IF n \in W THEN 0 ELSE Taken(s)[n]]
InBounds(s, W) ==
  SumFunction(Kept(s, W)) <= Perm + MCSZ \/ \A e \in ToBeListed(s) : e[1] \in W

AllCompatible(s) == \A n \in NameSet : Has(s, n) => Compatible(n, s.ent[n])

LEMMA KeptNat ==
  ASSUME NEW s, EntriesOK(s), NEW W
  PROVE  /\ Kept(s, W) \in [NameSet -> Int] /\ SumFunction(Kept(s, W)) \in Nat
         /\ \A n \in NameSet : Kept(s, W)[n] >= 0 /\ Kept(s, W)[n] <= Taken(s)[n]
         /\ SumFunction(Kept(s, W)) <= SumFunction(Taken(s))
         /\ Perm + MCSZ \in Int
<1>1. /\ Taken(s) \in [NameSet -> Int] /\ \A n \in NameSet : Taken(s)[n] >= 0
  BY TakenNat
<1>2. Kept(s, W) \in [NameSet -> Int]
      /\ \A n \in NameSet : Kept(s, W)[n] >= 0 /\ Kept(s, W)[n] <= Taken(s)[n]
  BY <1>1 DEF Kept
<1>3. SumFunction(Kept(s, W)) \in Nat
  BY <1>2, Constants, SumNat
<1>4. SumFunction(Kept(s, W)) <= SumFunction(Taken(s))
  BY <1>1, <1>2, Constants, SumMonotone
<1>5. Perm + MCSZ \in Int
  BY CacheAssumption
<1>. QED  BY <1>2, <1>3, <1>4, <1>5

\* The bound holds for less, and for more exceptions.
LEMMA BoundKept ==
  ASSUME NEW s, EntriesOK(s), NEW t, EntriesOK(t), NEW W, NEW V, InBounds(s, W),
         \A n \in NameSet : Kept(t, V)[n] <= Kept(s, W)[n],
         \A e \in ToBeListed(t) : e[1] \notin V => e \in ToBeListed(s) /\ e[1] \notin W
  PROVE  InBounds(t, V)
<1>1. SumFunction(Kept(t, V)) <= SumFunction(Kept(s, W))
  BY KeptNat, Constants, SumMonotone
<1>2. SumFunction(Kept(t, V)) \in Nat /\ SumFunction(Kept(s, W)) \in Nat /\ Perm + MCSZ \in Int
  BY KeptNat
<1>. QED  BY <1>1, <1>2 DEF InBounds

LEMMA LessInBounds ==
  ASSUME NEW s, EntriesOK(s), NEW t, EntriesOK(t), Less(s, t), NEW W, InBounds(s, W)
  PROVE  InBounds(t, W)
<1>1. ASSUME NEW m \in NameSet PROVE Taken(t)[m] <= Taken(s)[m]
  <2>1. CASE Has(t, m)
    <3>1. Has(s, m) /\ LessEntry(t.ent[m], s.ent[m])
      BY <2>1 DEF Less
    <3>2. EntryOK(s.ent[m]) /\ EntryOK(t.ent[m])
      BY <2>1, <3>1 DEF EntriesOK
    <3>3. t.ent[m].cs <= s.ent[m].cs
      BY <3>1, <3>2, LessWeight
    <3>. QED  BY <2>1, <3>1, <3>3, TakenNat
  <2>2. CASE ~ Has(t, m)
    <3>1. Taken(t)[m] = 0 /\ Taken(s)[m] >= 0
      BY <2>2, TakenNat
    <3>. QED  BY <3>1
  <2>. QED  BY <2>1, <2>2
<1>2. \A n \in NameSet : Kept(t, W)[n] <= Kept(s, W)[n]
  BY <1>1 DEF Kept
<1>. QED  BY <1>2, LessListed, BoundKept

\* Entries that are gone need no exception.
LEMMA Forgetting ==
  ASSUME NEW s, OK(s), NEW W
  PROVE  /\ InBounds(s, W) => InBounds(s, {n \in W : Has(s, n)})
         /\ NoEmptyEntry(s, W) => NoEmptyEntry(s, {n \in W : Has(s, n)})
<1>. DEFINE V == {n \in W : Has(s, n)}
<1>1. ASSUME InBounds(s, W) PROVE InBounds(s, V)
  <2>1. EntriesOK(s)
    BY DEF OK
  <2>2. \A n \in NameSet : ~ Has(s, n) => Taken(s)[n] = 0
    BY DEF Taken
  <2>3. \A n \in NameSet : Taken(s)[n] \in Int
    BY <2>1, TakenNat
  <2>4. \A n \in NameSet : Kept(s, V)[n] <= Kept(s, W)[n]
    BY <2>2, <2>3 DEF Kept
  <2>5. \A e \in ToBeListed(s) : e[1] \notin V => e[1] \notin W
    BY DEF ToBeListed
  <2>. HIDE DEF V
  <2>. QED  BY <1>1, <2>1, <2>4, <2>5, BoundKept
<1>2. NoEmptyEntry(s, W) => NoEmptyEntry(s, V)
  BY DEF NoEmptyEntry
<1>. QED  BY <1>1, <1>2

\* What purging keeps.
LEMMA PurgedMeans ==
  ASSUME NEW s, NEW t, OK(s), Purged(s, t)
  PROVE  /\ OK(t)
         /\ \A W : InBounds(s, W) => InBounds(t, W)
         /\ AllCompatible(s) => AllCompatible(t)
<1>1. OK(t) /\ Less(s, t)
  BY DEF Purged
<1>2. \A W : InBounds(s, W) => InBounds(t, W)
  BY <1>1, LessInBounds DEF OK
<1>3. ASSUME AllCompatible(s), NEW n \in NameSet, Has(t, n) PROVE Compatible(n, t.ent[n])
  <2>1. Has(s, n) /\ LessEntry(t.ent[n], s.ent[n])
    BY <1>1, <1>3 DEF Less
  <2>2. Compatible(n, s.ent[n])
    BY <1>3, <2>1 DEF AllCompatible
  <2>. QED  BY <2>1, <2>2, LessCompatible DEF LessEntry
<1>. QED  BY <1>1, <1>2, <1>3 DEF AllCompatible

LEMMA NoneEmptiedMeans ==
  ASSUME NEW s, NEW t, Less(s, t), NEW Z, NoneEmptied(s, t, Z), NEW W, NoEmptyEntry(s, W)
  PROVE  NoEmptyEntry(t, W \cup Z)
<1>1. ASSUME NEW m \in NameSet, Has(t, m), IsEmpty(t.ent[m]), m \notin Z
      PROVE  \/ m \in W \/ "LOCAL" \in t.ent[m].flags
             \/ \E a \in Inputs : a.name = m /\ SaysNothing(a)
  <2>1. Has(s, m) /\ IsEmpty(s.ent[m]) /\ LessEntry(t.ent[m], s.ent[m])
    BY <1>1 DEF NoneEmptied, Less
  <2>2. "LOCAL" \in t.ent[m].flags <=> "LOCAL" \in s.ent[m].flags
    BY <2>1 DEF LessEntry
  <2>. QED  BY <2>1, <2>2 DEF NoEmptyEntry
<1>. QED  BY <1>1 DEF NoEmptyEntry

\* The entries an allocation failed for, after one more name.
Failed(W, b, n) == IF b.failed THEN W \cup {n} ELSE W

\* The local sets that are gone are of entry n, for which an allocation failed, or there
\* is another one of their name.
Spared(s, b, n) ==
  \A e \in LocalSets(s) \ LocalSets(b.s) :
    \/ b.failed /\ e[1] = n /\ Has(b.s, n)
    \/ \E f \in LocalSets(b.s) : f[1] = e[1]

\* What add_cache keeps: b is the cache, and whether an allocation failed.
Added(s, b, n, fail) ==
  /\ OK(b.s) /\ (s.sort => b.s.sort)
  /\ Tidy(s) => Tidy(b.s)
  /\ Books(s) => Books(b.s)
  /\ AllCompatible(s) => AllCompatible(b.s)
  /\ \A W : NoEmptyEntry(s, W) => NoEmptyEntry(b.s, Failed(W, b, n))
  /\ \A W : Books(s) /\ InBounds(s, W) => InBounds(b.s, Failed(W, b, n))
  /\ Spared(s, b, n)
  /\ b.failed \in BOOLEAN /\ (b.failed => fail # NoFail)

LEMMA EnteringIs ==
  ASSUME NEW s, OK(s), NEW n \in NameSet, NEW fail, NEW a, Entering(s, a, n, fail)
  PROVE  /\ AllCompatible(s) => AllCompatible(a.s)
         /\ \A W : NoEmptyEntry(s, W) => NoEmptyEntry(a.s, Failed(W, a, n))
         /\ \A W : a.failed /\ InBounds(s, W) => InBounds(a.s, W \cup {n})
         /\ Spared(s, a, n)
<1>1. /\ OK(a.s) /\ EntriesOK(a.s) /\ EntriesOK(s)
      /\ \A m \in NameSet : m # n => a.s.ent[m] = s.ent[m] /\ (Has(a.s, m) <=> Has(s, m))
  BY DEF Entering, OK
<1>2. AllCompatible(s) => AllCompatible(a.s)
  BY DEF AllCompatible, Entering
<1>3. ASSUME NEW W, NoEmptyEntry(s, W) PROVE NoEmptyEntry(a.s, Failed(W, a, n))
  <2>1. ASSUME NEW m \in NameSet, Has(a.s, m), IsEmpty(a.s.ent[m])
        PROVE  \/ m \in Failed(W, a, n) \/ "LOCAL" \in a.s.ent[m].flags
               \/ \E x \in Inputs : x.name = m /\ SaysNothing(x)
    <3>1. CASE m = n
      BY <2>1, <3>1 DEF Entering, Failed
    <3>2. CASE m # n
      <4>1. Has(s, m) /\ IsEmpty(s.ent[m]) /\ s.ent[m] = a.s.ent[m]
        BY <1>1, <2>1, <3>2
      <4>2. W \subseteq Failed(W, a, n)
        BY DEF Failed
      <4>. QED  BY <1>3, <4>1, <4>2 DEF NoEmptyEntry
    <3>. QED  BY <3>1, <3>2
  <2>. QED  BY <2>1 DEF NoEmptyEntry
<1>4. ASSUME NEW W, InBounds(s, W) PROVE InBounds(a.s, W \cup {n})
  <2>1. \A m \in NameSet : Kept(a.s, W \cup {n})[m] <= Kept(s, W)[m]
    <3>1. \A m \in NameSet : m # n => Taken(a.s)[m] = Taken(s)[m]
      BY <1>1 DEF Taken
    <3>2. \A m \in NameSet : Taken(s)[m] \in Int /\ Taken(s)[m] >= 0
      BY <1>1, TakenNat
    <3>. QED  BY <3>1, <3>2 DEF Kept
  <2>2. \A e \in ToBeListed(a.s) : e[1] \notin W \cup {n} => e \in ToBeListed(s) /\ e[1] \notin W
    BY <1>1 DEF ToBeListed
  <2>. QED  BY <1>1, <1>4, <2>1, <2>2, BoundKept
<1>5. Spared(s, a, n)
  <2>1. ASSUME NEW e \in LocalSets(s) \ LocalSets(a.s)
        PROVE  \/ a.failed /\ e[1] = n /\ Has(a.s, n)
               \/ \E f \in LocalSets(a.s) : f[1] = e[1]
    <3>1. e[1] \in NameSet /\ e[2] \in Indices /\ e = <<e[1], e[2]>>
      BY DEF LocalSets
    <3>2. e[1] = n
      BY <1>1, <2>1, <3>1 DEF LocalSets
    <3>3. Has(s, n) /\ HasLocalSet(s.ent[n])
      BY <3>1, <3>2, HasLocalSetIs
    <3>4. Has(a.s, n) /\ (a.failed \/ HasLocalSet(a.s.ent[n]))
      BY <3>3 DEF Entering
    <3>5. CASE HasLocalSet(a.s.ent[n])
      <4>1. PICK i \in Indices : <<n, i>> \in LocalSets(a.s)
        BY <3>4, <3>5, HasLocalSetIs
      <4>2. <<n, i>>[1] = e[1]
        BY <3>2
      <4>. QED  BY <4>1, <4>2
    <3>. QED  BY <3>2, <3>4, <3>5
  <2>. QED  BY <2>1 DEF Spared
<1>. QED  BY <1>2, <1>3, <1>4, <1>5

\* purge_cache at the end of add_cache.
LEMMA PurgeAfterIs ==
  ASSUME NEW s, OK(s), NEW n \in NameSet, NEW fail, NEW a, Entering(s, a, n, fail),
         NEW b, b = PurgeAfter(a)
  PROVE  Added(s, b, n, fail)
<1>0. /\ OK(a.s) /\ a.s.sort = s.sort /\ (Tidy(s) => Tidy(a.s)) /\ (Books(s) => Books(a.s))
      /\ a.failed \in BOOLEAN /\ (a.failed => fail # NoFail)
  BY DEF Entering
<1>1. CASE a.failed
  <2>1. b = a
    BY <1>1 DEF PurgeAfter
  <2>. QED  BY <1>0, <1>1, <2>1, EnteringIs DEF Added, Failed
<1>2. CASE ~ a.failed
  <2>1. PICK t : t = purge_cache(a.s, Perm + MCSZ, TRUE)
    OBVIOUS
  <2>2. b.s = t /\ b.failed = FALSE
    BY <1>2, <2>1 DEF PurgeAfter
  <2>3. Purged(a.s, t) /\ NoneEmptied(a.s, t, {})
        /\ (t.size <= Perm + MCSZ \/ ToBeListed(t) = {})
    BY <1>0, <2>1, PurgeCacheIs
  <2>4. /\ OK(t) /\ Less(a.s, t) /\ LocalSets(a.s) \subseteq LocalSets(t)
        /\ (Books(a.s) => Books(t)) /\ (Tidy(a.s) => Tidy(t)) /\ (a.s.sort => t.sort)
    BY <2>3 DEF Purged
  <2>5. AllCompatible(s) => AllCompatible(t)
    BY <1>0, <2>3, EnteringIs, PurgedMeans
  <2>6. \A W : NoEmptyEntry(s, W) => NoEmptyEntry(t, W)
    <3>1. \A W : NoEmptyEntry(s, W) => NoEmptyEntry(a.s, W)
      BY <1>2, EnteringIs DEF Failed
    <3>2. \A W : NoEmptyEntry(a.s, W) => NoEmptyEntry(t, W \cup {})
      BY <2>3, <2>4, NoneEmptiedMeans
    <3>3. \A W : W \cup {} = W
      OBVIOUS
    <3>. QED  BY <3>1, <3>2, <3>3
  <2>7. ASSUME NEW W, Books(s) PROVE InBounds(t, W)
    <3>1. Books(t) /\ EntriesOK(t)
      BY <1>0, <2>4, <2>7 DEF OK
    <3>2. CASE ToBeListed(t) = {}
      BY <3>2 DEF InBounds
    <3>3. CASE t.size <= Perm + MCSZ
      <4>1. t.size = SumFunction(Taken(t))
        BY <3>1 DEF Books
      <4>2. SumFunction(Kept(t, W)) <= SumFunction(Taken(t)) /\ SumFunction(Kept(t, W)) \in Nat
            /\ Perm + MCSZ \in Int
        BY <3>1, KeptNat
      <4>3. SumFunction(Taken(t)) \in Nat
        BY <3>1, TakenNat
      <4>. QED  BY <3>3, <4>1, <4>2, <4>3 DEF InBounds
    <3>. QED  BY <2>3, <3>2, <3>3
  <2>8. Spared(s, b, n)
    BY <1>2, <2>2, <2>4, EnteringIs DEF Spared
  <2>9. \A W : Failed(W, b, n) = W
    BY <2>2 DEF Failed
  <2>. QED  BY <1>0, <2>2, <2>4, <2>5, <2>6, <2>7, <2>8, <2>9 DEF Added
<1>. QED  BY <1>0, <1>1, <1>2

\* Purging first, then adding.
LEMMA PurgedAdded ==
  ASSUME NEW s, OK(s), NEW p, Purged(s, p), NoneEmptied(s, p, {}), NEW b, NEW n, NEW fail,
         Added(p, b, n, fail)
  PROVE  Added(s, b, n, fail)
<1>1. /\ OK(p) /\ Less(s, p) /\ LocalSets(s) \subseteq LocalSets(p)
      /\ (Books(s) => Books(p)) /\ (Tidy(s) => Tidy(p)) /\ (s.sort => p.sort)
  BY DEF Purged
<1>2. (AllCompatible(s) => AllCompatible(p)) /\ \A W : InBounds(s, W) => InBounds(p, W)
  BY PurgedMeans
<1>3. \A W : NoEmptyEntry(s, W) => NoEmptyEntry(p, W)
  <2>1. \A W : NoEmptyEntry(s, W) => NoEmptyEntry(p, W \cup {})
    BY <1>1, NoneEmptiedMeans
  <2>2. \A W : W \cup {} = W
    OBVIOUS
  <2>. QED  BY <2>1, <2>2
<1>4. Spared(s, b, n)
  BY <1>1 DEF Spared, Added
<1>. QED  BY <1>1, <1>2, <1>3, <1>4 DEF Added

LEMMA AddCacheIs ==
  ASSUME NEW s, OK(s), NEW n \in NameSet, NEW c, FromInput(n, c), NEW fail,
         NEW b, b = add_cache(s, n, c, fail)
  PROVE  Added(s, b, n, fail)
<1>1. CASE Has(s, n) /\ IsNeg(c) /\ HasLocalSet(s.ent[n])
  <2>1. b.s = s /\ b.failed = FALSE
    BY <1>1 DEF add_cache
  <2>2. \A W : Failed(W, b, n) = W
    BY <2>1 DEF Failed
  <2>3. Spared(s, b, n)
    BY <2>1 DEF Spared
  <2>. QED  BY <2>1, <2>2, <2>3 DEF Added
<1>2. CASE Has(s, n) /\ IsNeg(c) /\ ~ HasLocalSet(s.ent[n])
  <2>1. PICK p : p = del_cent(s, n)
    OBVIOUS
  <2>2. b = PurgeAfter(PutEntry(p, n, c, fail))
    BY <1>2, <2>1 DEF add_cache
  <2>3. Deleted(s, p, n)
    BY <1>2, <2>1, DelCentIs
  <2>4. Purged(s, p) /\ NoneEmptied(s, p, {})
    BY <1>2, <2>3, DeletedPurged DEF HasLocalSet
  <2>5. OK(p) /\ ~ Has(p, n)
    BY <2>3 DEF Deleted
  <2>6. Entering(p, PutEntry(p, n, c, fail), n, fail)
    BY <2>5, PutEntryIs
  <2>7. Added(p, b, n, fail)
    BY <2>2, <2>5, <2>6, PurgeAfterIs
  <2>. QED  BY <2>4, <2>7, PurgedAdded
<1>3. CASE ~ (Has(s, n) /\ IsNeg(c))
  <2>1. b = PurgeAfter(PutEntry(s, n, c, fail))
    BY <1>3 DEF add_cache
  <2>2. Entering(s, PutEntry(s, n, c, fail), n, fail)
    BY <1>3, PutEntryIs
  <2>. QED  BY <2>1, <2>2, PurgeAfterIs
<1>. QED  BY <1>1, <1>2, <1>3

\* The books are right, but for the entries of W.
Sound(s, W) ==
  OK(s) /\ Books(s) /\ AllCompatible(s) /\ NoEmptyEntry(s, W) /\ InBounds(s, W)

LEMMA PurgedSound ==
  ASSUME NEW s, NEW W, Sound(s, W), NEW t, Purged(s, t), NoneEmptied(s, t, {})
  PROVE  Sound(t, W)
<1>1. OK(t) /\ Less(s, t) /\ Books(t)
  BY DEF Purged, Sound
<1>2. AllCompatible(t) /\ InBounds(t, W)
  BY PurgedMeans DEF Sound
<1>3. NoEmptyEntry(t, W \cup {})
  BY <1>1, NoneEmptiedMeans DEF Sound
<1>4. W \cup {} = W
  OBVIOUS
<1>. QED  BY <1>1, <1>2, <1>3, <1>4 DEF Sound

LEMMA ForgetSound ==
  ASSUME NEW s, NEW W, Sound(s, W)
  PROVE  Sound(s, {n \in W : Has(s, n)})
BY Forgetting DEF Sound

LEMMA AddedSound ==
  ASSUME NEW s, NEW W, Sound(s, W), NEW n, NEW fail, NEW b, Added(s, b, n, fail)
  PROVE  Sound(b.s, Failed(W, b, n))
BY DEF Sound, Added

LEMMA DeletedSound ==
  ASSUME NEW s, NEW W, Sound(s, W), NEW n \in NameSet, NEW t, Deleted(s, t, n)
  PROVE  Sound(t, W)
<1>1. OK(t) /\ Books(t) /\ Less(s, t)
  BY DEF Deleted, Sound
<1>2. InBounds(t, W)
  BY <1>1, LessInBounds DEF Sound, OK
<1>3. AllCompatible(t) /\ NoEmptyEntry(t, W)
  BY DEF Sound, Deleted, AllCompatible, NoEmptyEntry
<1>. QED  BY <1>1, <1>2, <1>3 DEF Sound

\* set_cent_flags changes no set.
LEMMA FlagsSetIs ==
  ASSUME NEW s, OK(s), NEW n \in NameSet, Has(s, n), NEW t, t = set_cent_flags(s, n, "WILD")
  PROVE  Purged(s, t) /\ NoneEmptied(s, t, {})
<1>1. PICK c : c = s.ent[n]
  OBVIOUS
<1>2. EntryOK(c) /\ c \in dns_cent_t
  BY <1>1 DEF OK, EntriesOK, EntryOK
<1>3. PICK f : f = c.flags \cup {"WILD"}
  OBVIOUS
<1>4. PICK d : d = [c EXCEPT !.flags = f]
  OBVIOUS
<1>5. d = Told(c, "WILD")
  BY <1>2, <1>3, <1>4 DEF Told, dns_cent_t
<1>6. f \in SUBSET Flags
  <2>1. c.flags \subseteq Flags
    BY <1>2 DEF dns_cent_t
  <2>2. "WILD" \in Flags
    BY DEF Flags
  <2>. QED  BY <1>3, <2>1, <2>2
<1>7. /\ d \in dns_cent_t /\ d.flags = f /\ d.rr = c.rr /\ d.cs = c.cs /\ d.num_rrs = c.num_rrs
      /\ d.ts = c.ts /\ d.rrext = c.rrext
  BY <1>2, <1>4, <1>6 DEF dns_cent_t
<1>8. SameLists(d, c)
  BY <1>3, <1>7 DEF SameLists, IsNeg
<1>9. EntryOK(d)
  <2>1. c.cs \in Int /\ Header(c) \in Nat /\ Header(d) = Header(c)
    BY <1>2, <1>7, WeightNat DEF Header, dns_cent_t
  <2>2. d.cs = c.cs + (Header(d) - Header(c))
    BY <1>7, <2>1
  <2>. QED  BY <1>2, <1>7, <1>8, <2>2, WithSameSets DEF SameLists
<1>10. t = [s EXCEPT !.ent[n] = d]
  BY <1>1, <1>5 DEF set_cent_flags
<1>11. Replaced(s, t, n, d)
  BY <1>1, <1>8, <1>9, <1>10, EntReplaced
<1>12. Frame(s, t, n) /\ t.ent[n] = d
  BY <1>11 DEF Replaced
<1>13. Booked(s, t, n)
  BY <1>1, <1>7, <1>12, SameSize
<1>. QED  BY <1>1, <1>7, <1>8, <1>12, <1>13, ReplacedPurged

-----------------------------------------------------------------------------
(* The start.                                                              *)

\* As the process begins: nothing has failed, nothing is aged.
Begun(s) == Sound(s, {}) /\ Tidy(s)

LEMMA NewCacheBegun == Begun(NewCache)
<1>. DEFINE s == NewCache
<1>1. s.list = <<>> /\ s.size = 0 /\ s.num = 0 /\ s.sort = TRUE /\ s.ent = [n \in NameSet |-> None]
  BY DEF NewCache
<1>2. \A n \in NameSet : ~ Has(s, n)
  BY <1>1 DEF Has
<1>3. s \in cache_t
  BY DEF NewCache, cache_t
<1>4. ToBeListed(s) = {} /\ There(s) = {}
  BY <1>2 DEF ToBeListed, There
<1>5. Lists(s, {}) /\ Tidy(s)
  BY <1>1, <1>4 DEF Lists, Once, Elements, Tidy, ListSorted
<1>6. Books(s)
  <2>1. Taken(s) = [n \in NameSet |-> 0]
    BY <1>2 DEF Taken
  <2>2. SumFunction(Taken(s)) = 0
    BY <2>1, Constants, SumZero
  <2>3. Cardinality(There(s)) = 0
    BY <1>4, FS_EmptySet
  <2>. QED  BY <1>1, <2>2, <2>3 DEF Books
<1>7. AllCompatible(s) /\ NoEmptyEntry(s, {})
  BY <1>2 DEF AllCompatible, NoEmptyEntry
<1>8. InBounds(s, {})
  BY <1>4 DEF InBounds
<1>. QED  BY <1>2, <1>3, <1>5, <1>6, <1>7, <1>8 DEF Begun, Sound, OK, EntriesOK

LEMMA AddedBegun ==
  ASSUME NEW s, Begun(s), NEW n \in NameSet, NEW c, FromInput(n, c),
         NEW t, t = add_cache(s, n, c, NoFail).s
  PROVE  Begun(t)
<1>1. PICK b : b = add_cache(s, n, c, NoFail)
  OBVIOUS
<1>2. Added(s, b, n, NoFail)
  BY <1>1, AddCacheIs DEF Begun, Sound
<1>3. Failed({}, b, n) = {}
  BY <1>2 DEF Failed, Added
<1>4. Sound(t, {})
  BY <1>1, <1>2, <1>3, AddedSound DEF Begun
<1>. QED  BY <1>1, <1>2, <1>4 DEF Added, Begun

LEMMA PurgedBegun ==
  ASSUME NEW s, Begun(s), NEW t, Purged(s, t), NoneEmptied(s, t, {})
  PROVE  Begun(t)
<1>1. Sound(t, {})
  BY PurgedSound DEF Begun
<1>. QED  BY <1>1 DEF Begun, Purged

LEMMA AddLocalIs ==
  ASSUME NEW s, Begun(s), NEW a \in Inputs
  PROVE  Begun(AddLocal(s, a))
<1>1. FromInput(a.name, Build(a, 0)) /\ a.name \in NameSet
  BY BuildIs
<1>2. CASE Base(a.name) = None
  BY <1>1, <1>2, AddedBegun DEF AddLocal
<1>3. CASE Base(a.name) # None /\ Has(s, Base(a.name))
  <2>1. PICK t : t = set_cent_flags(s, Base(a.name), "WILD")
    OBVIOUS
  <2>2. Base(a.name) \in NameSet
    BY <1>3 DEF Base
  <2>3. Begun(t)
    BY <1>3, <2>1, <2>2, FlagsSetIs, PurgedBegun DEF Begun, Sound
  <2>4. AddLocal(s, a) = add_cache(t, a.name, Build(a, 0), NoFail).s
    BY <1>3, <2>1 DEF AddLocal
  <2>. QED  BY <1>1, <2>3, <2>4, AddedBegun
<1>4. CASE Base(a.name) # None /\ ~ Has(s, Base(a.name))
  BY <1>4 DEF AddLocal
<1>. QED  BY <1>2, <1>3, <1>4

LEMMA AddLocalsSteps ==
  ASSUME Len(Local) \in Nat, DOMAIN Local = 1..Len(Local), NEW s
  PROVE  \E F : /\ F[0] = s /\ AddLocals(s) = F[Len(Local)]
                /\ \A k \in 1..Len(Local) : F[k] = AddLocal(F[k - 1], Local[k])
<1>. DEFINE Op(u, y) == AddLocal(u, Local[y])
            Value(G, x) == IF x = {} THEN s ELSE Op(G[x \ {Max(x)}], Max(x))
            Rec(G, D) == G = [x \in SUBSET D |-> Value(G, x)]
            Is(k) == \E G : Rec(G, 1..k)
            S == {k \in Nat : Is(k)}
<1>0. Len(Local) \in Nat
  OBVIOUS
<1>1. AddLocals(s) = (CHOOSE G : Rec(G, 1..Len(Local)))[1..Len(Local)]
  BY DEF AddLocals, FoldLeft, MapThenFoldSet
<1>. HIDE DEF Op
<1>2. 0 \in S
  <2>. DEFINE G == [x \in SUBSET (1..0) |-> s]
  <2>1. \A x \in SUBSET (1..0) : Value(G, x) = s
    OBVIOUS
  <2>2. Is(0)
    BY <2>1
  <2>. HIDE DEF Is
  <2>. QED  BY <2>2
<1>3. ASSUME NEW k \in Nat, k \in S PROVE k + 1 \in S
  <2>1. PICK G : Rec(G, 1..k)
    BY <1>3
  <2>. DEFINE H == [x \in SUBSET (1..(k + 1)) |-> IF k + 1 \in x THEN Value(G, x) ELSE G[x]]
  <2>2. ASSUME NEW x \in SUBSET (1..(k + 1)) PROVE H[x] = Value(H, x)
    <3>1. CASE x = {}
      BY <3>1, <2>1
    <3>2. CASE x # {}
      <4>1. x \ {Max(x)} \in SUBSET (1..k) /\ H[x \ {Max(x)}] = G[x \ {Max(x)}]
        BY <3>2, UpTo
      <4>2. H[x] = Value(G, x)
        BY <2>1, <3>2, UpTo
      <4>. QED  BY <4>1, <4>2, <3>2
    <3>. QED  BY <3>1, <3>2
  <2>3. Rec(H, 1..(k + 1))
    BY <2>2
  <2>. HIDE DEF H
  <2>4. Is(k + 1)
    BY <2>3
  <2>. HIDE DEF Is
  <2>. QED  BY <2>4
<1>4. Len(Local) \in S
  <2>. HIDE DEF S
  <2>. QED  BY <1>0, <1>2, <1>3, Induction
<1>5. PICK G : Rec(G, 1..Len(Local)) /\ AddLocals(s) = G[1..Len(Local)]
  BY <1>1, <1>4
<1>. DEFINE F == [k \in 0..Len(Local) |-> G[1..k]]
<1>6. ASSUME NEW k \in 1..Len(Local) PROVE F[k] = Op(F[k - 1], k)
  <2>1. PICK j \in Nat : k = j + 1
    <3>1. k - 1 \in Nat /\ k = (k - 1) + 1
      BY <1>0
    <3>. QED  BY <3>1
  <2>2. 1..k \in SUBSET (1..Len(Local)) /\ F[k] = G[1..k] /\ F[k - 1] = G[1..j]
    BY <1>0, <2>1
  <2>3. G[1..k] = Value(G, 1..k)
    BY <2>2, <1>5
  <2>4. 1..k # {} /\ Max(1..k) = k /\ (1..k) \ {k} = 1..j
    BY <2>1, UpTo
  <2>. QED  BY <2>2, <2>3, <2>4
<1>7. F[0] = s
  BY <1>0, <1>5
<1>8. F[Len(Local)] = AddLocals(s)
  BY <1>0, <1>5
<1>. HIDE DEF F
<1>. QED  BY <1>6, <1>7, <1>8 DEF Op

LEMMA AddLocalsBegun ==
  ASSUME NEW s, Begun(s)
  PROVE  Begun(AddLocals(s))
<1>0. Len(Local) \in Nat /\ DOMAIN Local = 1..Len(Local)
      /\ \A k \in 1..Len(Local) : Local[k] \in Inputs
  BY CacheAssumption
<1>10. \E F : /\ F[0] = s /\ AddLocals(s) = F[Len(Local)]
              /\ \A k \in 1..Len(Local) : F[k] = AddLocal(F[k - 1], Local[k])
  BY ONLY AddLocalsSteps, <1>0
<1>1. PICK F : /\ F[0] = s /\ AddLocals(s) = F[Len(Local)]
               /\ \A k \in 1..Len(Local) : F[k] = AddLocal(F[k - 1], Local[k])
  BY ONLY <1>10
<1>. DEFINE Inv(k) == Begun(F[k])
            S == {k \in Nat : k <= Len(Local) => Inv(k)}
<1>2. 0 \in S
  BY <1>1
<1>3. ASSUME NEW k \in Nat, k \in S PROVE k + 1 \in S
  <2>1. SUFFICES ASSUME k + 1 <= Len(Local) PROVE Inv(k + 1)
    OBVIOUS
  <2>2. k <= Len(Local) /\ k + 1 \in 1..Len(Local) /\ (k + 1) - 1 = k
    BY <2>1, <1>0
  <2>3. Inv(k)
    BY <1>3, <2>2
  <2>4. F[k + 1] = AddLocal(F[k], Local[k + 1])
    BY <1>1, <2>2
  <2>. QED  BY <1>0, <2>2, <2>3, <2>4, AddLocalIs
<1>4. Len(Local) \in S
  <2>. HIDE DEF S
  <2>. QED  BY <1>0, <1>2, <1>3, Induction
<1>5. Inv(Len(Local))
  BY <1>0, <1>4
<1>. QED  BY <1>1, <1>5

\* An entry of the disk cache is one that was in the cache.
DiskOK(e) ==
  /\ e.name \in NameSet /\ e.flags \in SUBSET Flags /\ e.ttl \in Int /\ e.ts \in Int
  /\ e.ref \in [{"NS", "SOA"} -> NameSet \cup {None}]
  /\ e.rr \in [Indices -> rr_set_t \cup {None}] /\ e \in disk_t
  /\ FromInput(e.name, Assemble(e.flags, e.ttl, e.ts, e.ref, e.rr))

\* The cache after each entry of the file.
ReadSteps(F, s, file) ==
  /\ F[0] = s /\ ReadAll(s, file) = F[Len(file)]
  /\ \A k \in 1..Len(file) : F[k] = ReadEntry(F[k - 1], file[k])

LEMMA ReadAllSteps ==
  ASSUME NEW file, NEW s, Len(file) \in Nat, DOMAIN file = 1..Len(file)
  PROVE  \E F : ReadSteps(F, s, file)
<1>. DEFINE Op(u, y) == ReadEntry(u, file[y])
            Value(G, x) == IF x = {} THEN s ELSE Op(G[x \ {Max(x)}], Max(x))
            Rec(G, D) == G = [x \in SUBSET D |-> Value(G, x)]
            Is(k) == \E G : Rec(G, 1..k)
            S == {k \in Nat : Is(k)}
<1>0. Len(file) \in Nat
  OBVIOUS
<1>1. ReadAll(s, file) = (CHOOSE G : Rec(G, 1..Len(file)))[1..Len(file)]
  BY DEF ReadAll, FoldLeft, MapThenFoldSet
<1>. HIDE DEF Op
<1>2. 0 \in S
  <2>. DEFINE G == [x \in SUBSET (1..0) |-> s]
  <2>1. \A x \in SUBSET (1..0) : Value(G, x) = s
    OBVIOUS
  <2>2. Is(0)
    BY <2>1
  <2>. HIDE DEF Is
  <2>. QED  BY <2>2
<1>3. ASSUME NEW k \in Nat, k \in S PROVE k + 1 \in S
  <2>1. PICK G : Rec(G, 1..k)
    BY <1>3
  <2>. DEFINE H == [x \in SUBSET (1..(k + 1)) |-> IF k + 1 \in x THEN Value(G, x) ELSE G[x]]
  <2>2. ASSUME NEW x \in SUBSET (1..(k + 1)) PROVE H[x] = Value(H, x)
    <3>1. CASE x = {}
      BY <3>1, <2>1
    <3>2. CASE x # {}
      <4>1. x \ {Max(x)} \in SUBSET (1..k) /\ H[x \ {Max(x)}] = G[x \ {Max(x)}]
        BY <3>2, UpTo
      <4>2. H[x] = Value(G, x)
        BY <2>1, <3>2, UpTo
      <4>. QED  BY <4>1, <4>2, <3>2
    <3>. QED  BY <3>1, <3>2
  <2>3. Rec(H, 1..(k + 1))
    BY <2>2
  <2>. HIDE DEF H
  <2>4. Is(k + 1)
    BY <2>3
  <2>. HIDE DEF Is
  <2>. QED  BY <2>4
<1>4. Len(file) \in S
  <2>. HIDE DEF S
  <2>. QED  BY <1>0, <1>2, <1>3, Induction
<1>5. PICK G : Rec(G, 1..Len(file)) /\ ReadAll(s, file) = G[1..Len(file)]
  BY <1>1, <1>4
<1>. DEFINE F == [k \in 0..Len(file) |-> G[1..k]]
<1>6. ASSUME NEW k \in 1..Len(file) PROVE F[k] = Op(F[k - 1], k)
  <2>1. PICK j \in Nat : k = j + 1
    <3>1. k - 1 \in Nat /\ k = (k - 1) + 1
      BY <1>0
    <3>. QED  BY <3>1
  <2>2. 1..k \in SUBSET (1..Len(file)) /\ F[k] = G[1..k] /\ F[k - 1] = G[1..j]
    BY <1>0, <2>1
  <2>3. G[1..k] = Value(G, 1..k)
    BY <2>2, <1>5
  <2>4. 1..k # {} /\ Max(1..k) = k /\ (1..k) \ {k} = 1..j
    BY <2>1, UpTo
  <2>. QED  BY <2>2, <2>3, <2>4
<1>7. F[0] = s
  BY <1>0, <1>5
<1>8. F[Len(file)] = ReadAll(s, file)
  BY <1>0, <1>5
<1>. HIDE DEF F
<1>. QED  BY <1>6, <1>7, <1>8 DEF Op, ReadSteps

LEMMA ReadAllBegun ==
  ASSUME NEW file, Len(file) \in Nat, DOMAIN file = 1..Len(file),
         \A k \in 1..Len(file) : DiskOK(file[k]), NEW s, Begun(s)
  PROVE  Begun(ReadAll(s, file))
<1>0. Len(file) \in Nat /\ DOMAIN file = 1..Len(file)
  OBVIOUS
<1>10. PICK F : ReadSteps(F, s, file)
  BY ReadAllSteps
<1>1. /\ F[0] = s /\ ReadAll(s, file) = F[Len(file)]
      /\ \A k \in 1..Len(file) : F[k] = ReadEntry(F[k - 1], file[k])
  BY <1>10 DEF ReadSteps
<1>. DEFINE Inv(k) == Begun(F[k])
            S == {k \in Nat : k <= Len(file) => Inv(k)}
<1>2. 0 \in S
  BY <1>1
<1>3. ASSUME NEW k \in Nat, k \in S PROVE k + 1 \in S
  <2>1. SUFFICES ASSUME k + 1 <= Len(file) PROVE Inv(k + 1)
    OBVIOUS
  <2>2. k <= Len(file) /\ k + 1 \in 1..Len(file) /\ (k + 1) - 1 = k
    BY <2>1, <1>0
  <2>3. Inv(k)
    BY <1>3, <2>2
  <2>4. F[k + 1] = ReadEntry(F[k], file[k + 1])
    BY <1>1, <2>2
  <2>5. PICK e : e = file[k + 1]
    OBVIOUS
  <2>6. DiskOK(e)
    BY <2>2, <2>5
  <2>7. PICK c : c = Assemble(e.flags, e.ttl, e.ts, e.ref, e.rr)
    OBVIOUS
  <2>8. FromInput(e.name, c) /\ e.name \in NameSet
    BY <2>6, <2>7 DEF DiskOK
  <2>9. F[k + 1] = add_cache(F[k], e.name, c, NoFail).s
    BY <2>4, <2>5, <2>7 DEF ReadEntry
  <2>. QED  BY <2>3, <2>8, <2>9, AddedBegun
<1>4. Len(file) \in S
  <2>. HIDE DEF S
  <2>. QED  BY <1>0, <1>2, <1>3, Induction
<1>5. Inv(Len(file))
  BY <1>0, <1>4
<1>. QED  BY <1>1, <1>5

LEMMA FromDiskBegun ==
  ASSUME NEW file, Len(file) \in Nat, DOMAIN file = 1..Len(file),
         \A k \in 1..Len(file) : DiskOK(file[k]), NEW s, Begun(s)
  PROVE  Begun(FromDisk(s, file)) /\ FromDisk(s, file).sort
<1>1. PICK t : t = [s EXCEPT !.sort = FALSE]
  OBVIOUS
<1>2. s \in cache_t
  BY DEF Begun, Sound, OK, EntriesOK
<1>3. t \in cache_t /\ t.ent = s.ent /\ t.list = s.list /\ t.size = s.size /\ t.num = s.num /\ ~ t.sort
  BY <1>1, <1>2 DEF cache_t
<1>4. /\ \A n : Has(t, n) <=> Has(s, n)
      /\ ToBeListed(t) = ToBeListed(s) /\ Taken(t) = Taken(s) /\ There(t) = There(s)
  BY <1>3 DEF Has, ToBeListed, Taken, There
<1>5. OK(t)
  BY <1>3, <1>4 DEF Begun, Sound, OK, EntriesOK, Lists
<1>6. Books(t) /\ AllCompatible(t) /\ NoEmptyEntry(t, {})
  BY <1>3, <1>4 DEF Begun, Sound, Books, AllCompatible, NoEmptyEntry
<1>7. InBounds(t, {})
  <2>1. Kept(t, {}) = Kept(s, {})
    BY <1>4 DEF Kept
  <2>. QED  BY <1>4, <2>1 DEF Begun, Sound, InBounds
<1>8. Begun(t)
  BY <1>3, <1>5, <1>6, <1>7 DEF Begun, Sound, Tidy
<1>9. PICK u : u = ReadAll(t, file)
  OBVIOUS
<1>10. Begun(u)
  BY <1>8, <1>9, ReadAllBegun
<1>11. FromDisk(s, file) = SortNow(u)
  BY <1>1, <1>9 DEF FromDisk
<1>12. Sorted(u, SortNow(u))
  BY <1>10, SortNowIs DEF Begun, Sound
<1>13. Purged(u, SortNow(u)) /\ NoneEmptied(u, SortNow(u), {})
  BY <1>12, SortedPurged
<1>14. Begun(SortNow(u))
  BY <1>10, <1>13, PurgedBegun
<1>. QED  BY <1>11, <1>12, <1>14 DEF Sorted

LEMMA StartIs ==
  ASSUME NEW file, Len(file) \in Nat, DOMAIN file = 1..Len(file),
         \A k \in 1..Len(file) : DiskOK(file[k])
  PROVE  Begun(Start(file)) /\ Start(file).sort
BY NewCacheBegun, AddLocalsBegun, FromDiskBegun DEF Start

-----------------------------------------------------------------------------
(* The disk cache is written; records are invalidated.                     *)

DiskFile(f) == f \in Seq(disk_t) /\ \A k \in 1..Len(f) : DiskOK(f[k])

LEMMA DiskEntryIs ==
  ASSUME NEW s, OK(s), AllCompatible(s), NEW n \in NameSet, Worth(s, n)
  PROVE  DiskOK(DiskEntry(s, n))
<1>1. PICK c : c = s.ent[n]
  OBVIOUS
<1>2. Has(s, n) /\ EntryOK(c) /\ Compatible(n, c) /\ c \in dns_cent_t
  BY <1>1 DEF Worth, OK, EntriesOK, AllCompatible, EntryOK
<1>3. PICK rr : rr = [i \in Indices |-> IF IsListed(c.rr[i]) THEN c.rr[i] ELSE None]
  OBVIOUS
<1>4. PICK e : e = [name |-> n, flags |-> c.flags, ttl |-> c.ttl, ts |-> c.ts, ref |-> c.ref, rr |-> rr]
  OBVIOUS
<1>5. e = DiskEntry(s, n)
  BY <1>1, <1>3, <1>4 DEF DiskEntry
<1>6. /\ c.flags \in SUBSET Flags /\ c.ttl \in Int /\ c.ts \in Int
      /\ c.ref \in [{"NS", "SOA"} -> NameSet \cup {None}]
      /\ \A i \in Indices : c.rr[i] \in rr_set_t \cup {None}
  BY <1>2 DEF dns_cent_t
<1>7. rr \in [Indices -> rr_set_t \cup {None}]
  BY <1>3, <1>6
<1>8. e \in disk_t
  BY <1>4, <1>6, <1>7 DEF disk_t
<1>9. PICK a : a = Assemble(c.flags, c.ttl, c.ts, c.ref, rr)
  OBVIOUS
<1>10. PutTogether(a, c.flags, c.ref, rr)
  BY <1>6, <1>7, <1>9, AssembleIs
<1>11. EntryOK(a) /\ a \in dns_cent_t
  BY <1>10 DEF PutTogether, EntryOK
<1>12. \A i \in Indices : a.rr[i] # None => c.rr[i] # None /\ a.rr[i].flags = c.rr[i].flags
  BY <1>3, <1>10 DEF PutTogether, IsListed
<1>13. Compatible(n, a)
  BY <1>2, <1>12 DEF Compatible
<1>14. ~ IsEmpty(a)
  <2>1. CASE IsNeg(c)
    <3>1. \A i \in Indices : rr[i] = None
      BY <1>2, <1>3, <2>1 DEF EntryOK, IsListed
    <3>2. a.flags = c.flags
      BY <1>10, <3>1 DEF PutTogether
    <3>. QED  BY <2>1, <3>2 DEF IsEmpty, IsNeg
  <2>2. CASE ~ IsNeg(c)
    <3>1. PICK i \in Indices : IsListed(c.rr[i])
      BY <1>1, <2>2 DEF Worth
    <3>2. a.rr[i] # None
      BY <1>3, <1>10, <3>1 DEF PutTogether, IsListed
    <3>. QED  BY <1>11, <3>2, NoSets DEF IsEmpty, EntryOK
  <2>. QED  BY <2>1, <2>2
<1>15. FromInput(n, a)
  BY <1>11, <1>13, <1>14 DEF FromInput
<1>. QED  BY <1>4, <1>5, <1>6, <1>7, <1>8, <1>9, <1>15 DEF DiskOK

LEMMA ToDiskIs ==
  ASSUME NEW s, OK(s), AllCompatible(s), NEW k \in 0..Len(ToDisk(s))
  PROVE  DiskFile(SubSeq(ToDisk(s), 1, k))
<1>1. PICK order : order = Without(Names, {n \in NameSet : ~ Worth(s, n)})
  OBVIOUS
<1>2. /\ order \in Seq(NameSet)
      /\ Elements(order) = Elements(Names) \ {n \in NameSet : ~ Worth(s, n)}
  BY <1>1, CacheAssumption, WithoutIs
<1>3. PICK f : f = [j \in 1..Len(order) |-> DiskEntry(s, order[j])]
  OBVIOUS
<1>4. f = ToDisk(s)
  BY <1>1, <1>3 DEF ToDisk
<1>5. Len(order) \in Nat /\ \A j \in 1..Len(order) : order[j] \in NameSet /\ order[j] \in Elements(order)
  BY <1>2 DEF Elements
<1>6. \A j \in 1..Len(order) : order[j] \in NameSet /\ Worth(s, order[j])
  BY <1>2, <1>5
<1>7. \A j \in 1..Len(order) : f[j] = DiskEntry(s, order[j]) /\ DiskOK(f[j])
  BY <1>3, <1>6, DiskEntryIs
<1>8. \A j \in 1..Len(order) : f[j] \in disk_t
  BY <1>7 DEF DiskOK
<1>9. f \in Seq(disk_t) /\ Len(f) = Len(order)
  BY <1>3, <1>5, <1>8
<1>10. /\ SubSeq(f, 1, k) \in Seq(disk_t) /\ Len(SubSeq(f, 1, k)) = k
       /\ \A j \in 1..k : SubSeq(f, 1, k)[j] = f[j] /\ j \in 1..Len(order)
  BY <1>4, <1>5, <1>9
<1>. QED  BY <1>4, <1>7, <1>10 DEF DiskFile

\* An entry whose records are invalid: the time of its sets changes, and a flag.
Aged(d, c) ==
  /\ EntryOK(d) /\ (IsNeg(d) <=> IsNeg(c)) /\ ("LOCAL" \in d.flags <=> "LOCAL" \in c.flags)
  /\ d.cs = c.cs /\ d.num_rrs = c.num_rrs
  /\ \A i \in Indices : /\ d.rr[i] = None <=> c.rr[i] = None
                        /\ c.rr[i] # None => d.rr[i].flags = c.rr[i].flags \ {"AUTH"}

LEMMA InvalidIs ==
  ASSUME NEW c, EntryOK(c)
  PROVE  Aged(InvalidEntry(c), c)
<1>1. /\ c \in dns_cent_t /\ c.flags \subseteq Flags
      /\ \A i \in Indices : c.rr[i] \in rr_set_t \cup {None}
  BY DEF EntryOK, dns_cent_t
<1>2. PICK f : f = c.flags \ {"AUTH"}
  OBVIOUS
<1>3. PICK rr : rr = [i \in Indices |-> IF c.rr[i] = None THEN None ELSE Invalid(c.rr[i])]
  OBVIOUS
<1>4. ASSUME NEW i \in Indices, c.rr[i] # None
      PROVE  rr[i] \in rr_set_t /\ rr[i].flags = c.rr[i].flags \ {"AUTH"} /\ rr[i].rrs = c.rr[i].rrs
  <2>1. PICK r \in rr_set_t : r = c.rr[i]
    BY <1>1, <1>4
  <2>2. PICK g : g = r.flags \ {"AUTH"}
    OBVIOUS
  <2>3. g \in SUBSET Flags
    BY <2>1, <2>2 DEF rr_set_t
  <2>9. PICK z \in Int : z = 0
    OBVIOUS
  <2>4. PICK q : q = [r EXCEPT !.ts = z, !.flags = g]
    OBVIOUS
  <2>5. q.flags = g /\ q.rrs = r.rrs
    BY <2>1, <2>4 DEF rr_set_t
  <2>8. q \in rr_set_t
    BY <2>1, <2>3, <2>4, <2>9 DEF rr_set_t
  <2>6. q = Invalid(r)
    BY <2>1, <2>2, <2>4, <2>9 DEF Invalid, rr_set_t
  <2>7. rr[i] = q
    BY <1>3, <1>4, <2>1, <2>6
  <2>. QED  BY <2>1, <2>2, <2>5, <2>7, <2>8
<1>5. rr \in [Indices -> rr_set_t \cup {None}]
  BY <1>3, <1>4
<1>13. PICK z \in Int : z = 0
  OBVIOUS
<1>6. PICK d : d = [c EXCEPT !.ts = z, !.flags = f, !.rr = rr]
  OBVIOUS
<1>7. f \in SUBSET Flags
  BY <1>1, <1>2
<1>8. /\ d \in dns_cent_t /\ d.flags = f /\ d.rr = rr /\ d.cs = c.cs /\ d.num_rrs = c.num_rrs
      /\ d.rrext = c.rrext
  <2>1. /\ d.flags = f /\ d.rr = rr /\ d.cs = c.cs /\ d.num_rrs = c.num_rrs
        /\ d.rrext = c.rrext
    BY <1>1, <1>6 DEF dns_cent_t
  <2>2. d \in dns_cent_t
    BY <1>1, <1>5, <1>6, <1>7 DEF dns_cent_t
  <2>. QED  BY <2>1, <2>2
<1>9. d = InvalidEntry(c)
  BY <1>1, <1>2, <1>3, <1>6, <1>13 DEF InvalidEntry, Invalid, dns_cent_t
<1>10. \A i \in Indices : /\ rr[i] = None <=> c.rr[i] = None
                          /\ c.rr[i] # None => rr[i].flags = c.rr[i].flags \ {"AUTH"}
                                               /\ rr[i].rrs = c.rr[i].rrs
  BY <1>3, <1>4, Constants
<1>11. (IsNeg(d) <=> IsNeg(c)) /\ ("LOCAL" \in d.flags <=> "LOCAL" \in c.flags)
  BY <1>2, <1>8 DEF IsNeg
<1>12. EntryOK(d)
  <2>1. c.cs \in Int /\ Header(c) \in Nat /\ Header(d) = Header(c)
    BY <1>1, <1>8, WeightNat DEF Header, dns_cent_t
  <2>2. d.cs = c.cs + (Header(d) - Header(c))
    BY <1>8, <2>1
  <2>. QED  BY <1>8, <1>10, <1>11, <2>2, WithSameSets
<1>. QED  BY <1>8, <1>9, <1>10, <1>11, <1>12 DEF Aged

LEMMA InvalidSound ==
  ASSUME NEW s, NEW W, Sound(s, W), NEW n \in NameSet, Has(s, n),
         NEW t, t = [s EXCEPT !.ent[n] = InvalidEntry(@)]
  PROVE  Sound(t, W) /\ t.sort = s.sort /\ LocalSets(t) = LocalSets(s)
<1>1. PICK c : c = s.ent[n]
  OBVIOUS
<1>2. EntryOK(c) /\ s \in cache_t
  BY <1>1 DEF Sound, OK, EntriesOK
<1>3. PICK d : d = InvalidEntry(c)
  OBVIOUS
<1>4. Aged(d, c) /\ d \in dns_cent_t /\ d # None
  BY <1>2, <1>3, InvalidIs, Constants DEF Aged, EntryOK
<1>5. t = [s EXCEPT !.ent[n] = d]
  BY <1>1, <1>3
<1>6. /\ t \in cache_t /\ t.list = s.list /\ t.size = s.size /\ t.num = s.num /\ t.sort = s.sort
      /\ t.ent[n] = d /\ \A m \in NameSet : m # n => t.ent[m] = s.ent[m]
  BY <1>2, <1>4, <1>5 DEF cache_t
<1>7. \A m \in NameSet : Has(t, m) <=> Has(s, m)
  BY <1>4, <1>6 DEF Has
<1>8. EntriesOK(t)
  BY <1>4, <1>6, <1>7 DEF Sound, OK, EntriesOK, Aged
<1>9. ASSUME NEW e \in OnList PROVE e \in ToBeListed(t) <=> e \in ToBeListed(s)
  <2>1. CASE e[1] # n
    BY <1>6, <1>7, <2>1 DEF ToBeListed, OnList
  <2>2. CASE e[1] = n
    <3>1. e[2] # 0 => (IsListed(d.rr[e[2]]) <=> IsListed(c.rr[e[2]]))
      BY <1>4 DEF Aged, IsListed, OnList
    <3>2. (IsNeg(d) <=> IsNeg(c)) /\ ("LOCAL" \in d.flags <=> "LOCAL" \in c.flags)
      BY <1>4 DEF Aged
    <3>. QED  BY <1>1, <1>6, <1>7, <2>2, <3>1, <3>2 DEF ToBeListed, OnList
  <2>. QED  BY <2>1, <2>2
<1>10. ToBeListed(t) = ToBeListed(s)
  BY <1>9 DEF ToBeListed, OnList
<1>11. OK(t)
  BY <1>6, <1>8, <1>10 DEF Sound, OK, Lists
<1>12. Taken(t) = Taken(s) /\ There(t) = There(s)
  <2>1. \A m \in NameSet : Taken(t)[m] = Taken(s)[m]
    BY <1>1, <1>4, <1>6, <1>7 DEF Taken, Aged
  <2>. QED  BY <1>7, <2>1 DEF Taken, There
<1>13. Books(t)
  BY <1>6, <1>12 DEF Sound, Books
<1>14. AllCompatible(t)
  <2>1. Compatible(n, d)
    <3>1. Compatible(n, c)
      BY <1>1 DEF Sound, AllCompatible
    <3>. QED  BY <3>1, <1>4 DEF Compatible, Aged
  <2>. QED  BY <2>1, <1>6, <1>7 DEF Sound, AllCompatible
<1>15. NoEmptyEntry(t, W)
  <2>1. (IsEmpty(d) <=> IsEmpty(c)) /\ ("LOCAL" \in d.flags <=> "LOCAL" \in c.flags)
    BY <1>4 DEF Aged, IsEmpty
  <2>. QED  BY <1>1, <1>6, <1>7, <2>1 DEF Sound, NoEmptyEntry
<1>16. InBounds(t, W)
  <2>1. Kept(t, W) = Kept(s, W)
    BY <1>12 DEF Kept
  <2>. QED  BY <1>10, <2>1 DEF Sound, InBounds
<1>17. LocalSets(t) = LocalSets(s)
  <2>1. ASSUME NEW e \in NameSet \X Indices PROVE e \in LocalSets(t) <=> e \in LocalSets(s)
    <3>1. CASE e[1] # n
      BY <1>6, <1>7, <3>1 DEF LocalSets
    <3>2. CASE e[1] = n
      <4>1. (d.rr[e[2]] = None <=> c.rr[e[2]] = None)
            /\ (c.rr[e[2]] # None => ("LOCAL" \in d.rr[e[2]].flags <=> "LOCAL" \in c.rr[e[2]].flags))
        BY <1>4 DEF Aged
      <4>. QED  BY <1>1, <1>6, <1>7, <3>2, <4>1 DEF LocalSets
    <3>. QED  BY <3>1, <3>2
  <2>. QED  BY <2>1 DEF LocalSets
<1>. QED  BY <1>6, <1>11, <1>13, <1>14, <1>15, <1>16, <1>17 DEF Sound

-----------------------------------------------------------------------------
(* The steps.                                                              *)

\* The books, whatever the threads are at.
Ledger ==
  /\ Sound(cache, wrecked) /\ cache.sort /\ (aged \/ ListSorted(cache))
  /\ DiskFile(disk)

\* While a local set goes there is another of its name, or an allocation failed.
LocalsStay ==
  \A e \in LocalSets(cache) \ LocalSets(cache') :
    e[1] \in wrecked' \/ \E f \in LocalSets(cache') : f[1] = e[1]

LEMMA QuietLedger ==
  ASSUME Ledger, UNCHANGED <<cache, wrecked, aged, disk>>
  PROVE  Ledger' /\ LocalsStay
<1>1. Ledger'
  BY DEF Ledger
<1>2. LocalsStay
  BY DEF LocalsStay
<1>. QED  BY <1>1, <1>2

LEMMA AddLedger ==
  ASSUME Ledger, NEW a \in Inputs, NEW ts \in Int, NEW fail, Add(a, ts, fail)
  PROVE  Ledger' /\ LocalsStay /\ doomed' \subseteq doomed /\ wrecked' \subseteq wrecked \cup {a.name}
<1>1. PICK b : b = add_cache(cache, a.name, Build(a, ts), fail)
  OBVIOUS
<1>2. /\ cache' = b.s /\ aged' = aged /\ disk' = disk /\ doomed' \subseteq doomed
      /\ wrecked' = {n \in wrecked : Has(b.s, n)}
                    \cup (IF b.failed /\ Has(b.s, a.name) THEN {a.name} ELSE {})
  BY <1>1 DEF Add
<1>3. Sound(cache, wrecked) /\ OK(cache) /\ cache.sort /\ (aged \/ ListSorted(cache)) /\ DiskFile(disk)
  BY DEF Ledger, Sound
<1>4. Added(cache, b, a.name, fail)
  <2>1. FromInput(a.name, Build(a, ts)) /\ a.name \in NameSet
    BY BuildIs
  <2>. QED  BY <1>1, <1>3, <2>1, AddCacheIs
<1>5. Sound(b.s, {n \in Failed(wrecked, b, a.name) : Has(b.s, n)})
  BY <1>3, <1>4, AddedSound, ForgetSound
<1>6. wrecked' = {n \in Failed(wrecked, b, a.name) : Has(b.s, n)}
  BY <1>2 DEF Failed
<1>7. b.s.sort /\ (aged \/ ListSorted(b.s))
  BY <1>3, <1>4 DEF Added, Tidy
<1>8. Ledger'
  BY <1>2, <1>3, <1>5, <1>6, <1>7 DEF Ledger
<1>9. LocalsStay
  BY <1>2, <1>4 DEF LocalsStay, Added, Spared
<1>. QED  BY <1>2, <1>8, <1>9

LEMMA PurgeLedger ==
  ASSUME Ledger, Purged(cache, cache'), NoneEmptied(cache, cache', {}), Forget(cache'), disk' = disk
  PROVE  Ledger' /\ LocalsStay
<1>1. Sound(cache, wrecked) /\ cache.sort /\ (aged \/ ListSorted(cache)) /\ DiskFile(disk)
  BY DEF Ledger
<1>2. wrecked' = {n \in wrecked : Has(cache', n)} /\ aged' = aged
  BY DEF Forget
<1>3. Sound(cache', wrecked')
  BY <1>1, <1>2, PurgedSound, ForgetSound
<1>4. cache'.sort /\ (aged \/ ListSorted(cache')) /\ LocalSets(cache) \subseteq LocalSets(cache')
  BY <1>1 DEF Purged, Tidy
<1>5. Ledger'
  BY <1>1, <1>2, <1>3, <1>4 DEF Ledger
<1>. QED  BY <1>4, <1>5 DEF LocalsStay

LEMMA DeleteLedger ==
  ASSUME Ledger, NEW n \in NameSet, Deleted(cache, cache', n), Forget(cache'), disk' = disk
  PROVE  Ledger'
<1>1. Sound(cache, wrecked) /\ cache.sort /\ (aged \/ ListSorted(cache)) /\ DiskFile(disk)
  BY DEF Ledger
<1>2. wrecked' = {m \in wrecked : Has(cache', m)} /\ aged' = aged
  BY DEF Forget
<1>3. Sound(cache', wrecked')
  BY <1>1, <1>2, DeletedSound, ForgetSound
<1>4. cache'.sort /\ (aged \/ ListSorted(cache'))
  BY <1>1 DEF Deleted, Tidy
<1>. QED  BY <1>1, <1>2, <1>3, <1>4 DEF Ledger

\* The wildcard flag.
LEMMA FlagLedger ==
  ASSUME Ledger, NEW n \in NameSet, Has(cache, n), cache' = set_cent_flags(cache, n, "WILD"),
         UNCHANGED <<wrecked, aged, disk>>
  PROVE  Ledger' /\ LocalsStay
<1>1. Sound(cache, wrecked) /\ OK(cache) /\ cache.sort /\ (aged \/ ListSorted(cache)) /\ DiskFile(disk)
  BY DEF Ledger, Sound
<1>2. Purged(cache, cache') /\ NoneEmptied(cache, cache', {})
  BY <1>1, FlagsSetIs
<1>3. Sound(cache', wrecked)
  BY <1>1, <1>2, PurgedSound
<1>4. cache'.sort /\ (aged \/ ListSorted(cache')) /\ LocalSets(cache) \subseteq LocalSets(cache')
  BY <1>1, <1>2 DEF Purged, Tidy
<1>5. Ledger'
  BY <1>1, <1>3, <1>4 DEF Ledger
<1>. QED  BY <1>4, <1>5 DEF LocalsStay

LEMMA InvalidLedger ==
  ASSUME Ledger, NEW n \in NameSet, invalidate_record(n)
  PROVE  Ledger' /\ LocalsStay
<1>1. Sound(cache, wrecked) /\ cache.sort /\ DiskFile(disk)
  BY DEF Ledger
<1>2. Sound(cache', wrecked) /\ cache'.sort = cache.sort /\ LocalSets(cache') = LocalSets(cache)
  <2>1. PICK s : s = cache
    OBVIOUS
  <2>2. PICK t : t = cache'
    OBVIOUS
  <2>3. Sound(s, wrecked) /\ Has(s, n) /\ t = [s EXCEPT !.ent[n] = InvalidEntry(@)]
    BY <1>1, <2>1, <2>2 DEF invalidate_record
  <2>4. Sound(t, wrecked) /\ t.sort = s.sort /\ LocalSets(t) = LocalSets(s)
    BY <2>3, InvalidSound
  <2>. QED  BY <2>1, <2>2, <2>4
<1>3. aged' /\ wrecked' = wrecked /\ disk' = disk
  BY DEF invalidate_record
<1>. QED  BY <1>1, <1>2, <1>3 DEF Ledger, LocalsStay

LEMMA RestartLedger ==
  ASSUME Ledger, Restart
  PROVE  Ledger'
<1>1. DiskFile(disk)
  BY DEF Ledger
<1>2. Len(disk) \in Nat /\ DOMAIN disk = 1..Len(disk) /\ \A k \in 1..Len(disk) : DiskOK(disk[k])
  BY <1>1 DEF DiskFile
<1>3. Begun(Start(disk)) /\ Start(disk).sort
  BY <1>2, StartIs
<1>4. cache' = Start(disk) /\ wrecked' = {} /\ disk' = disk
  BY DEF Restart
<1>. QED  BY <1>1, <1>3, <1>4 DEF Ledger, Begun, Tidy

LEMMA WriteLedger ==
  ASSUME Ledger, WriteDisk
  PROVE  Ledger' /\ LocalsStay
<1>1. Sound(cache, wrecked) /\ OK(cache) /\ AllCompatible(cache) /\ cache.sort
      /\ (aged \/ ListSorted(cache)) /\ DiskFile(disk)
  BY DEF Ledger, Sound
<1>2. UNCHANGED <<cache, wrecked, aged>>
  BY DEF WriteDisk, history
<1>3. DiskFile(disk')
  BY <1>1, ToDiskIs DEF WriteDisk
<1>. QED  BY <1>1, <1>2, <1>3 DEF Ledger, LocalsStay

-----------------------------------------------------------------------------
(* Lookups.                                                                *)

LEMMA AboveIs ==
  ASSUME NEW s, NEW n \in NameSet, Above(s, n) # 0
  PROVE  Up[n][Above(s, n)] \in NameSet /\ Has(s, Up[n][Above(s, n)])
<1>. DEFINE I == {k \in 1..Len(Up[n]) : Has(s, Up[n][k])}
<1>1. Up[n] \in Seq(NameSet)
  BY CacheAssumption
<1>2. Above(s, n) = IF I # {} THEN Min(I) ELSE 0
  BY DEF Above, SelectInSeq
<1>3. I # {} /\ Above(s, n) = Min(I) /\ I \subseteq Nat
  BY <1>1, <1>2
<1>4. \E x \in I : \A y \in I : x <= y
  BY <1>3, Least
<1>5. Min(I) \in I
  BY <1>4 DEF Min
<1>6. PICK j : j = Min(I)
  OBVIOUS
<1>7. j \in 1..Len(Up[n]) /\ Has(s, Up[n][j]) /\ Above(s, n) = j
  BY <1>3, <1>5, <1>6
<1>8. Up[n][j] \in NameSet
  BY <1>1, <1>7
<1>. QED  BY <1>7, <1>8

LEMMA FoundIs ==
  ASSUME NEW s, NEW n \in NameSet, NEW wild, Found(s, n, wild) # None
  PROVE  Found(s, n, wild) \in NameSet /\ Has(s, Found(s, n, wild))
<1>1. PICK m : m = Up[n][Above(s, n)]
  OBVIOUS
<1>2. Above(s, n) # 0 => m \in NameSet /\ Has(s, m)
  BY <1>1, AboveIs
<1>3. \A x \in NameSet : Star[x] \in NameSet \cup {None}
  BY CacheAssumption
<1>. QED  BY <1>1, <1>2, <1>3 DEF Found

LEMMA LookupLedger ==
  ASSUME Ledger, lookup \in [name : NameSet, wild : BOOLEAN] \cup {None}, LookupPurge
  PROVE  Ledger' /\ LocalsStay
<1>1. lookup # None /\ lookup.name \in NameSet /\ Forget(cache') /\ disk' = disk
  BY DEF LookupPurge
<1>2. PICK m : m = Found(cache, lookup.name, lookup.wild)
  OBVIOUS
<1>3. cache' = IF m = None THEN cache ELSE purge_cent(cache, m, TRUE)
  BY <1>2 DEF LookupPurge
<1>4. OK(cache)
  BY DEF Ledger, Sound
<1>5. Purged(cache, cache') /\ NoneEmptied(cache, cache', {})
  <2>1. CASE m = None
    <3>1. cache' = cache
      BY <1>3, <2>1
    <3>. QED  BY <1>4, <3>1, PurgedReflexive DEF NoneEmptied
  <2>2. CASE m # None
    <3>1. m \in NameSet /\ Has(cache, m)
      BY <1>1, <1>2, <2>2, FoundIs
    <3>2. Cleaned(cache, purge_cent(cache, m, TRUE), m, TRUE)
      BY <1>4, <3>1, PurgeCentIs
    <3>. QED  BY <1>3, <2>2, <3>2 DEF Cleaned
  <2>. QED  BY <2>1, <2>2
<1>. QED  BY <1>1, <1>5, PurgeLedger

\* What the threads are at.
Clerks ==
  /\ now \in 1..MaxTime /\ ops \in Int /\ up \in {"up", "writing", "down"}
  /\ lookup \in [name : NameSet, wild : BOOLEAN] \cup {None}
  /\ sweep \in [next : 0..Len(Names), sel : SUBSET NameSet]
  /\ ctl \in Records \cup {None}
  /\ doomed \subseteq NameSet /\ wrecked \subseteq NameSet /\ aged \in BOOLEAN

\* empty_cache has what it must still empty in the buckets before it.
Sweeping ==
  IF sweep.next = 0 THEN doomed = {}
  ELSE doomed \subseteq sweep.sel /\ \A n \in doomed : \E k \in sweep.next..Len(Names) : n = Names[k]

\* The inductive invariant.
CacheIInv == Ledger /\ Clerks /\ Sweeping

LEMMA SweepingLess ==
  ASSUME Sweeping, sweep' = sweep, doomed' \subseteq doomed
  PROVE  Sweeping'
BY DEF Sweeping

LEMMA CacheInitInv == CacheInit => CacheIInv
<1>. SUFFICES ASSUME CacheInit PROVE CacheIInv
  OBVIOUS
<1>1. Len(Names) \in Nat /\ MaxTime \in Nat /\ MaxTime >= 1
  BY CacheAssumption
<1>2. Clerks
  <2>1. sweep = [next |-> 0, sel |-> {}] /\ 0 \in 0..Len(Names)
    BY <1>1 DEF CacheInit
  <2>2. sweep \in [next : 0..Len(Names), sel : SUBSET NameSet]
    BY <2>1
  <2>3. now = 1 /\ ops = 0 /\ up = "up" /\ lookup = None /\ ctl = None /\ doomed = {}
        /\ wrecked = {} /\ aged = FALSE
    BY DEF CacheInit
  <2>4. aged \in BOOLEAN
    BY <2>3
  <2>5. now \in 1..MaxTime /\ ops \in Int
    BY <1>1, <2>3
  <2>6. doomed \subseteq NameSet /\ wrecked \subseteq NameSet /\ ctl \in Records \cup {None}
        /\ lookup \in [name : NameSet, wild : BOOLEAN] \cup {None} /\ up \in {"up", "writing", "down"}
    BY <2>3
  <2>. QED  BY <2>2, <2>4, <2>5, <2>6 DEF Clerks
<1>3. Sweeping
  BY DEF CacheInit, Sweeping
<1>4. disk = <<>> /\ cache = Start(disk) /\ wrecked = {}
  BY DEF CacheInit
<1>5. DiskFile(disk)
  BY <1>4 DEF DiskFile
<1>6. Begun(Start(disk)) /\ Start(disk).sort
  BY <1>4, StartIs
<1>7. Ledger
  BY <1>4, <1>5, <1>6 DEF Ledger, Begun, Tidy
<1>. QED  BY <1>2, <1>3, <1>7 DEF CacheIInv

LEMMA InputsAre ==
  /\ \A a \in Answers \cup Records \cup Negations : a \in Inputs /\ a.name \in NameSet
  /\ MaxTime \in Nat /\ MaxTime >= 1 /\ Len(Names) \in Nat /\ Len(Names) >= 1
  /\ \A k \in 1..Len(Names) : Names[k] \in NameSet
<1>1. \A a \in Inputs : a.name \in NameSet
  BY CacheAssumption DEF IsInput
<1>2. Names \in Seq(NameSet) /\ Names # <<>>
  BY CacheAssumption
<1>3. Len(Names) \in Nat /\ Len(Names) >= 1
  BY <1>2
<1>4. MaxTime \in Nat /\ MaxTime >= 1
  BY CacheAssumption
<1>. QED  BY <1>1, <1>3, <1>4 DEF Inputs, NameSet

LEMMA AddKeeps ==
  ASSUME CacheIInv, NEW a \in Answers \cup Records \cup Negations, NEW ts \in Int, NEW fail,
         Add(a, ts, fail), ops' \in Int, ctl' \in Records \cup {None}
  PROVE  CacheIInv' /\ LocalsStay
<1>1. a \in Inputs /\ a.name \in NameSet
  BY InputsAre
<1>2. Ledger' /\ LocalsStay /\ doomed' \subseteq doomed /\ wrecked' \subseteq wrecked \cup {a.name}
  BY <1>1, AddLedger DEF CacheIInv
<1>3. UNCHANGED <<aged, now, lookup, sweep, up>>
  BY DEF Add
<1>4. Sweeping'
  BY <1>2, <1>3, SweepingLess DEF CacheIInv
<1>5. Clerks'
  BY <1>1, <1>2, <1>3 DEF CacheIInv, Clerks
<1>. QED  BY <1>2, <1>4, <1>5 DEF CacheIInv

LEMMA EmptyBucketKeeps ==
  ASSUME CacheIInv, EmptyBucket
  PROVE  CacheIInv'
<1>. DEFINE n == Names[sweep.next]
<1>1. Ledger /\ Clerks /\ Sweeping /\ OK(cache)
  BY DEF CacheIInv, Ledger, Sound
<1>2. sweep.next \in 1..Len(Names) /\ sweep.next # 0 /\ sweep.sel \in SUBSET NameSet /\ n \in NameSet
  BY <1>1, InputsAre DEF EmptyBucket, Clerks
<1>3. /\ cache' = IF n \in sweep.sel /\ Has(cache, n) THEN del_cent(cache, n) ELSE cache
      /\ Forget(cache') /\ UNCHANGED <<ops, now, lookup, ctl, disk, up>>
      /\ sweep' = IF sweep.next < Len(Names) THEN [sweep EXCEPT !.next = @ + 1]
                                             ELSE [next |-> 0, sel |-> {}]
  BY DEF EmptyBucket
<1>4. doomed' \subseteq doomed /\ wrecked' \subseteq wrecked /\ aged' = aged
  BY <1>3 DEF Forget
<1>5. Ledger' /\ (n \in sweep.sel => ~ Has(cache', n))
  <2>1. CASE n \in sweep.sel /\ Has(cache, n)
    <3>1. Deleted(cache, cache', n)
      BY <1>1, <1>2, <1>3, <2>1, DelCentIs
    <3>. QED  BY <1>1, <1>2, <1>3, <3>1, DeleteLedger DEF Deleted
  <2>2. CASE ~ (n \in sweep.sel /\ Has(cache, n))
    <3>1. cache' = cache
      BY <1>3, <2>2
    <3>2. Purged(cache, cache') /\ NoneEmptied(cache, cache', {})
      BY <1>1, <3>1, PurgedReflexive DEF NoneEmptied
    <3>3. Ledger'
      BY <1>1, <1>3, <3>2, PurgeLedger
    <3>. QED  BY <2>2, <3>1, <3>3
  <2>. QED  BY <2>1, <2>2
<1>6. n \notin doomed'
  <2>1. n \in doomed => n \in sweep.sel
    BY <1>1, <1>2 DEF Sweeping
  <2>. QED  BY <1>3, <1>5, <2>1 DEF Forget
<1>7. \A m \in doomed' : m \in sweep.sel /\ \E k \in (sweep.next + 1)..Len(Names) : m = Names[k]
  <2>1. ASSUME NEW m \in doomed' PROVE m \in sweep.sel /\ \E k \in (sweep.next + 1)..Len(Names) : m = Names[k]
    <3>1. PICK k \in sweep.next..Len(Names) : m = Names[k]
      BY <1>1, <1>2, <1>4, <2>1 DEF Sweeping
    <3>2. k # sweep.next
      BY <1>6, <2>1, <3>1
    <3>3. k \in (sweep.next + 1)..Len(Names)
      BY <1>2, <3>1, <3>2, InputsAre
    <3>. QED  BY <1>1, <1>2, <1>4, <2>1, <3>1, <3>3 DEF Sweeping
  <2>. QED  BY <2>1
<1>8. sweep \in [next : 0..Len(Names), sel : SUBSET NameSet]
  BY <1>1 DEF Clerks
<1>9. CASE sweep.next < Len(Names)
  <2>1. PICK x \in 0..Len(Names) : x = sweep.next + 1
    BY <1>2, <1>9, InputsAre
  <2>2. sweep' = [sweep EXCEPT !.next = x]
    BY <1>3, <1>9, <2>1
  <2>3. sweep' \in [next : 0..Len(Names), sel : SUBSET NameSet] /\ sweep'.next = sweep.next + 1
        /\ sweep'.sel = sweep.sel /\ sweep'.next # 0
    BY <1>2, <1>8, <2>1, <2>2
  <2>4. Sweeping'
    BY <1>7, <2>3 DEF Sweeping
  <2>5. Clerks'
    BY <1>1, <1>3, <1>4, <2>3 DEF Clerks
  <2>. QED  BY <1>5, <2>4, <2>5 DEF CacheIInv
<1>10. CASE ~ sweep.next < Len(Names)
  <2>1. sweep' = [next |-> 0, sel |-> {}]
    BY <1>3, <1>10
  <2>2. (sweep.next + 1)..Len(Names) = {}
    BY <1>2, <1>10, InputsAre
  <2>3. doomed' = {}
    BY <1>7, <2>2
  <2>4. Sweeping'
    BY <2>1, <2>3 DEF Sweeping
  <2>5. 0 \in 0..Len(Names)
    BY InputsAre
  <2>6. Clerks'
    BY <1>1, <1>3, <1>4, <2>1, <2>5 DEF Clerks
  <2>. QED  BY <1>5, <2>4, <2>6 DEF CacheIInv
<1>. QED  BY <1>9, <1>10

LEMMA EmptyStartKeeps ==
  ASSUME CacheIInv, NEW sel \in SUBSET NameSet, EmptyStart(sel)
  PROVE  CacheIInv' /\ LocalsStay
<1>1. UNCHANGED <<cache, now, lookup, ctl, disk, up, wrecked, aged>> /\ ops' = ops + 1
      /\ sweep' = [next |-> 1, sel |-> sel] /\ doomed' = {n \in sel : Has(cache, n)}
  BY DEF EmptyStart, Command, Operation
<1>2. Ledger' /\ LocalsStay
  BY <1>1, QuietLedger DEF CacheIInv
<1>3. 1 \in 0..Len(Names)
  BY InputsAre
<1>4. Clerks'
  <2>1. sweep' \in [next : 0..Len(Names), sel : SUBSET NameSet]
    BY <1>1, <1>3
  <2>. QED  BY <1>1, <2>1 DEF CacheIInv, Clerks
<1>5. Sweeping'
  BY <1>1 DEF Sweeping, NameSet
<1>. QED  BY <1>2, <1>4, <1>5 DEF CacheIInv

\* Steps that leave the cache alone.
LEMMA IdleKeeps ==
  ASSUME CacheIInv, Tick \/ (\E n \in NameSet : LookupTest(n, TRUE) \/ LookupTest(n, FALSE)) \/ Crash
  PROVE  CacheIInv' /\ LocalsStay
<1>1. UNCHANGED <<cache, wrecked, aged, disk, sweep, doomed, ctl>>
  BY DEF Tick, LookupTest, Crash, history
<1>2. Ledger' /\ LocalsStay
  BY <1>1, QuietLedger DEF CacheIInv
<1>3. Sweeping'
  BY <1>1, SweepingLess DEF CacheIInv
<1>7. now \in 1..MaxTime /\ ops \in Int /\ up \in {"up", "writing", "down"}
      /\ lookup \in [name : NameSet, wild : BOOLEAN] \cup {None}
  BY DEF CacheIInv, Clerks
<1>4. now' \in 1..MaxTime /\ ops' \in Int /\ up' \in {"up", "writing", "down"}
  <2>1. CASE Tick
    <3>1. now < MaxTime /\ now' = now + 1 /\ ops' = ops /\ up' = up
      BY <2>1 DEF Tick
    <3>. QED  BY <1>7, <3>1, InputsAre
  <2>2. CASE \E n \in NameSet : LookupTest(n, TRUE) \/ LookupTest(n, FALSE)
    BY <1>7, <2>2 DEF LookupTest
  <2>3. CASE Crash
    <3>1. now' = now /\ ops' = ops + 1 /\ up' = "down"
      BY <2>3 DEF Crash, Operation
    <3>. QED  BY <1>7, <3>1
  <2>. QED  BY <2>1, <2>2, <2>3
<1>5. lookup' \in [name : NameSet, wild : BOOLEAN] \cup {None}
  <2>1. CASE Tick \/ Crash
    BY <1>7, <2>1 DEF Tick, Crash
  <2>2. CASE \E n \in NameSet : LookupTest(n, TRUE) \/ LookupTest(n, FALSE)
    <3>1. PICK n \in NameSet, w \in BOOLEAN : lookup' = [name |-> n, wild |-> w]
      BY <2>2 DEF LookupTest
    <3>. QED  BY <3>1
  <2>. QED  BY <2>1, <2>2
<1>6. Clerks'
  BY <1>1, <1>4, <1>5 DEF CacheIInv, Clerks
<1>. QED  BY <1>2, <1>3, <1>6 DEF CacheIInv

LEMMA CtlAddKeeps ==
  ASSUME CacheIInv, NEW a \in Records, CTL_ADD(a)
  PROVE  CacheIInv' /\ LocalsStay
<1>1. ops' \in Int
  BY DEF CTL_ADD, Command, Operation, CacheIInv, Clerks
<1>2. CASE Base(a.name) = None
  <2>1. PICK fail : Add(a, 0, fail)
    BY <1>2 DEF CTL_ADD
  <2>2. ctl' \in Records \cup {None}
    BY <1>2 DEF CTL_ADD, CacheIInv, Clerks
  <2>. QED  BY <1>1, <2>1, <2>2, AddKeeps
<1>3. CASE Base(a.name) # None
  <2>1. /\ Has(cache, Base(a.name)) /\ cache' = set_cent_flags(cache, Base(a.name), "WILD")
        /\ ctl' = a /\ UNCHANGED <<now, lookup, sweep, disk, up, doomed, wrecked, aged>>
    BY <1>3 DEF CTL_ADD, history
  <2>2. Base(a.name) \in NameSet
    BY <1>3 DEF Base
  <2>3. Ledger' /\ LocalsStay
    BY <2>1, <2>2, FlagLedger DEF CacheIInv
  <2>4. Sweeping'
    BY <2>1, SweepingLess DEF CacheIInv
  <2>5. Clerks'
    BY <1>1, <2>1 DEF CacheIInv, Clerks
  <2>. QED  BY <2>3, <2>4, <2>5 DEF CacheIInv
<1>. QED  BY <1>2, <1>3

LEMMA DelCacheKeeps ==
  ASSUME CacheIInv, NEW n \in NameSet, del_cache(n)
  PROVE  CacheIInv'
<1>1. /\ Has(cache, n) /\ cache' = del_cent(cache, n) /\ Forget(cache')
      /\ UNCHANGED <<now, lookup, sweep, ctl, disk, up>> /\ ops' = ops + 1
  BY DEF del_cache, Command, Operation
<1>2. OK(cache)
  BY DEF CacheIInv, Ledger, Sound
<1>3. Deleted(cache, cache', n)
  BY <1>1, <1>2, DelCentIs
<1>4. Ledger'
  BY <1>1, <1>3, DeleteLedger DEF CacheIInv
<1>5. doomed' \subseteq doomed /\ wrecked' \subseteq wrecked /\ aged' = aged
  BY <1>1 DEF Forget
<1>6. Sweeping'
  BY <1>1, <1>5, SweepingLess DEF CacheIInv
<1>7. Clerks'
  BY <1>1, <1>5 DEF CacheIInv, Clerks
<1>. QED  BY <1>4, <1>6, <1>7 DEF CacheIInv

LEMMA InvalidateKeeps ==
  ASSUME CacheIInv, NEW n \in NameSet, invalidate_record(n)
  PROVE  CacheIInv' /\ LocalsStay
<1>1. /\ UNCHANGED <<now, lookup, sweep, ctl, disk, up, doomed, wrecked>> /\ aged' = TRUE
      /\ ops' = ops + 1
  BY DEF invalidate_record, Command, Operation
<1>2. Ledger' /\ LocalsStay
  BY InvalidLedger DEF CacheIInv
<1>3. Sweeping'
  BY <1>1, SweepingLess DEF CacheIInv
<1>4. Clerks'
  BY <1>1 DEF CacheIInv, Clerks
<1>. QED  BY <1>2, <1>3, <1>4 DEF CacheIInv

LEMMA LookupKeeps ==
  ASSUME CacheIInv, LookupPurge
  PROVE  CacheIInv' /\ LocalsStay
<1>1. UNCHANGED <<ops, now, sweep, ctl, disk, up>> /\ lookup' = None /\ Forget(cache')
  BY DEF LookupPurge
<1>2. Ledger' /\ LocalsStay
  BY LookupLedger DEF CacheIInv, Clerks
<1>3. doomed' \subseteq doomed /\ wrecked' \subseteq wrecked /\ aged' = aged
  BY <1>1 DEF Forget
<1>4. Sweeping'
  BY <1>1, <1>3, SweepingLess DEF CacheIInv
<1>5. Clerks'
  BY <1>1, <1>3 DEF CacheIInv, Clerks
<1>. QED  BY <1>2, <1>4, <1>5 DEF CacheIInv

LEMMA ExitKeeps ==
  ASSUME CacheIInv, ExitPurge \/ WriteDisk
  PROVE  CacheIInv' /\ LocalsStay
<1>1. Ledger' /\ LocalsStay /\ doomed' \subseteq doomed /\ wrecked' \subseteq wrecked /\ aged' = aged
  <2>1. CASE ExitPurge /\ cache' = purge_cache(cache, Perm, FALSE) /\ Forget(cache')
    <3>1. OK(cache) /\ disk' = disk
      BY <2>1 DEF CacheIInv, Ledger, Sound, ExitPurge
    <3>2. Purged(cache, cache') /\ NoneEmptied(cache, cache', {})
      BY <2>1, <3>1, PurgeCacheIs
    <3>. QED  BY <2>1, <3>1, <3>2, PurgeLedger DEF CacheIInv, Forget
  <2>2. CASE ExitPurge /\ UNCHANGED <<cache, history>>
    <3>1. UNCHANGED <<cache, wrecked, aged, disk, doomed>>
      BY <2>2 DEF ExitPurge, history
    <3>. QED  BY <3>1, QuietLedger DEF CacheIInv
  <2>3. CASE WriteDisk
    <3>1. UNCHANGED <<wrecked, aged, doomed>>
      BY <2>3 DEF WriteDisk, history
    <3>. QED  BY <2>3, <3>1, WriteLedger DEF CacheIInv
  <2>. QED  BY <2>1, <2>2, <2>3 DEF ExitPurge
<1>5. ops \in Int
  BY DEF CacheIInv, Clerks
<1>2. UNCHANGED <<now, lookup, sweep, ctl>> /\ ops' \in Int /\ up' \in {"up", "writing", "down"}
  <2>1. CASE ExitPurge
    <3>1. UNCHANGED <<now, lookup, sweep, ctl>> /\ ops' = ops + 1 /\ up' \in {"writing", "down"}
      BY <2>1 DEF ExitPurge, Operation
    <3>. QED  BY <1>5, <3>1
  <2>2. CASE WriteDisk
    BY <1>5, <2>2 DEF WriteDisk
  <2>. QED  BY <2>1, <2>2
<1>3. Sweeping'
  BY <1>1, <1>2, SweepingLess DEF CacheIInv
<1>4. Clerks'
  BY <1>1, <1>2 DEF CacheIInv, Clerks
<1>. QED  BY <1>1, <1>3, <1>4 DEF CacheIInv

LEMMA RestartKeeps ==
  ASSUME CacheIInv, Restart
  PROVE  CacheIInv'
<1>1. /\ up' = "up" /\ lookup' = None /\ sweep' = [next |-> 0, sel |-> {}] /\ ctl' = None
      /\ doomed' = {} /\ wrecked' = {} /\ aged' = FALSE /\ UNCHANGED <<ops, now, disk>>
  BY DEF Restart
<1>2. Ledger'
  BY RestartLedger DEF CacheIInv
<1>3. Sweeping'
  BY <1>1 DEF Sweeping
<1>4. Clerks'
  <2>1. 0 \in 0..Len(Names)
    BY InputsAre
  <2>2. sweep' \in [next : 0..Len(Names), sel : SUBSET NameSet]
    BY <1>1, <2>1
  <2>. QED  BY <1>1, <2>2 DEF CacheIInv, Clerks
<1>. QED  BY <1>2, <1>3, <1>4 DEF CacheIInv

\* What a step may do to local sets: see LocalKept.
LocalStep ==
  \/ up = "down" \/ EmptyBucket \/ \E n \in NameSet : del_cache(n)
  \/ LocalsStay

LEMMA CacheNextInv == CacheIInv /\ [CacheNext]_cachevars => CacheIInv' /\ (LocalStep \/ UNCHANGED cachevars)
<1>. SUFFICES ASSUME CacheIInv, [CacheNext]_cachevars
     PROVE  CacheIInv' /\ (LocalStep \/ UNCHANGED cachevars)
  OBVIOUS
<1>1. CASE UNCHANGED cachevars
  <2>1. UNCHANGED <<cache, now, lookup, sweep, ctl, disk, up, ops, doomed, wrecked, aged>>
    BY <1>1 DEF cachevars
  <2>2. Ledger'
    BY <2>1, QuietLedger DEF CacheIInv
  <2>3. Sweeping'
    BY <2>1, SweepingLess DEF CacheIInv
  <2>4. Clerks'
    BY <2>1 DEF CacheIInv, Clerks
  <2>. QED  BY <1>1, <2>2, <2>3, <2>4 DEF CacheIInv
<1>2. CASE Tick \/ (\E n \in NameSet : LookupTest(n, TRUE) \/ LookupTest(n, FALSE)) \/ Crash
  BY <1>2, IdleKeeps DEF LocalStep
<1>3. CASE AddAnswer
  <2>1. PICK a \in Answers, ts \in {now, now - 1} : \E fail \in Failures(a) : Add(a, ts, fail)
    BY <1>3 DEF AddAnswer
  <2>2. PICK fail : Add(a, ts, fail)
    BY <2>1
  <2>3. ts \in Int
    BY <2>1, InputsAre DEF CacheIInv, Clerks
  <2>4. ops' \in Int /\ ctl' \in Records \cup {None}
    BY <1>3 DEF AddAnswer, Operation, CacheIInv, Clerks
  <2>. QED  BY <2>2, <2>3, <2>4, AddKeeps DEF LocalStep
<1>4. CASE LookupPurge
  BY <1>4, LookupKeeps DEF LocalStep
<1>5. CASE \E a \in Records : CTL_ADD(a)
  BY <1>5, CtlAddKeeps DEF LocalStep
<1>6. CASE \E a \in Negations : CTL_NEG(a)
  <2>1. PICK a \in Negations : CTL_NEG(a)
    BY <1>6
  <2>2. PICK fail : Add(a, 0, fail)
    BY <2>1 DEF CTL_NEG
  <2>3. ops' \in Int /\ ctl' \in Records \cup {None}
    BY <2>1 DEF CTL_NEG, Command, Operation, CacheIInv, Clerks
  <2>. QED  BY <2>2, <2>3, AddKeeps DEF LocalStep
<1>7. CASE \E sla \in Selections : CTL_EMPTY(sla)
  <2>1. PICK sla : EmptyStart(Selected(sla))
    BY <1>7 DEF CTL_EMPTY
  <2>2. Selected(sla) \in SUBSET NameSet
    BY DEF Selected
  <2>. QED  BY <2>1, <2>2, EmptyStartKeeps DEF LocalStep
<1>8. CASE AddWildcard
  <2>1. PICK fail : Add(ctl, 0, fail)
    BY <1>8 DEF AddWildcard
  <2>2. ctl \in Records /\ ops' \in Int /\ ctl' \in Records \cup {None}
    BY <1>8 DEF AddWildcard, CacheIInv, Clerks
  <2>. QED  BY <2>1, <2>2, AddKeeps DEF LocalStep
<1>9. CASE EmptyBucket
  BY <1>9, EmptyBucketKeeps DEF LocalStep
<1>10. CASE CTL_RECORD
  BY <1>10, DelCacheKeeps, InvalidateKeeps DEF CTL_RECORD, LocalStep
<1>11. CASE ExitPurge \/ WriteDisk
  BY <1>11, ExitKeeps DEF LocalStep
<1>12. CASE Restart
  <2>1. up = "down"
    BY <1>12 DEF Restart
  <2>. QED  BY <1>12, <2>1, RestartKeeps DEF LocalStep
<1>. QED
  BY <1>1, <1>2, <1>3, <1>4, <1>5, <1>6, <1>7, <1>8, <1>9, <1>10, <1>11, <1>12 DEF CacheNext

LEMMA CacheInvariant == CacheSpec => []CacheIInv
<1>1. CacheIInv /\ [CacheNext]_cachevars => CacheIInv'
  BY CacheNextInv
<1>. QED  BY <1>1, CacheInitInv, PTL DEF CacheSpec

LEMMA LedgerAccounted == CacheIInv => Accounted
<1>. SUFFICES ASSUME CacheIInv PROVE Accounted
  OBVIOUS
<1>. DEFINE s == cache
<1>1. /\ OK(s) /\ EntriesOK(s) /\ Books(s) /\ s.sort /\ InBounds(s, wrecked) /\ NoEmptyEntry(s, wrecked)
      /\ (aged \/ ListSorted(s)) /\ DiskFile(disk) /\ Clerks
  BY DEF CacheIInv, Ledger, Sound, OK
<1>2. s \in cache_t /\ s.list \in Seq(OnList)
  BY <1>1, CacheFields DEF EntriesOK
<1>3. s.size \in Nat /\ s.num \in Nat
  BY <1>1, TakenNat DEF Books
<1>4. CacheTypeOK
  BY <1>1, <1>2, <1>3 DEF CacheTypeOK, Clerks, DiskFile
<1>5. SizesExact(s)
  <2>1. s.num = Cardinality({n \in NameSet : Has(s, n)}) /\ s.size = SumFunction(Taken(s))
    BY <1>1 DEF Books, There
  <2>2. ASSUME NEW n \in NameSet, Has(s, n)
        PROVE  /\ s.ent[n].num_rrs = NumSets(s.ent[n]) /\ s.ent[n].cs = Weight(s.ent[n])
               /\ IsNeg(s.ent[n]) => s.ent[n].num_rrs = 0
    <3>1. EntryOK(s.ent[n])
      BY <1>1, <2>2 DEF EntriesOK
    <3>. QED  BY <3>1, NoSets DEF EntryOK
  <2>. QED  BY <2>1, <2>2 DEF SizesExact
<1>6. Once(s.list) /\ Elements(s.list) = ToBeListed(s)
  BY <1>1 DEF OK, Lists
<1>7. ListExact(s)
  BY <1>6 DEF ListExact, Once, Elements
<1>8. ASSUME wrecked = {} PROVE SizeBounded(s)
  <2>1. SUFFICES ASSUME s.size > Perm + MCSZ PROVE s.list = <<>>
    BY DEF SizeBounded
  <2>2. Kept(s, {}) = Taken(s)
    <3>1. Taken(s) = [n \in NameSet |-> Taken(s)[n]]
      BY DEF Taken
    <3>. QED  BY <3>1 DEF Kept
  <2>3. ~ SumFunction(Kept(s, {})) <= Perm + MCSZ
    BY <1>1, <1>3, <2>1, <2>2, KeptNat DEF Books
  <2>4. ToBeListed(s) = {}
    BY <1>1, <1>8, <2>3 DEF InBounds
  <2>5. Len(s.list) = 0
    <3>1. Len(s.list) \in Nat
      BY <1>2
    <3>2. 1 \in 1..Len(s.list) => s.list[1] \in ToBeListed(s)
      BY <1>6 DEF Elements
    <3>. QED  BY <2>4, <3>1, <3>2
  <2>. QED  BY <1>2, <2>5
<1>. QED  BY <1>1, <1>4, <1>5, <1>7, <1>8 DEF Accounted

\* The cache's books are right, after every sequence of answers, lookups, orders of
\* pdnsd-ctl, purges, failures and restarts: sizes and list agree with the table, the list
\* is by age, purge_cache reaches everything and the cache keeps its bound.
THEOREM CacheAccounted == CacheSpec => []Accounted
BY CacheInvariant, LedgerAccounted, PTL

\* Records that exclude one another are in one entry only if they came together.
THEOREM CacheNoConflict == CacheSpec => []NoConflict
<1>1. CacheIInv => NoConflict
  BY DEF CacheIInv, Ledger, Sound, AllCompatible, Compatible, NoConflict
<1>. QED  BY <1>1, CacheInvariant, PTL

\* When empty_cache ends, what was there when it began is gone, whatever ran while it had
\* yielded its lock.
THEOREM CacheEmptied == CacheSpec => []EmptyComplete
<1>1. CacheIInv => EmptyComplete
  BY DEF CacheIInv, Sweeping, EmptyComplete
<1>. QED  BY <1>1, CacheInvariant, PTL

\* A local set goes only by pdnsd-ctl, for another local one of its name, or by an
\* allocation that failed.
THEOREM CacheLocalKept == CacheSpec => LocalKept
<1>. DEFINE A == \/ up = "down" \/ EmptyBucket \/ \E n \in NameSet : del_cache(n)
                 \/ \A e \in LocalSets(cache) \ LocalSets(cache') :
                      e[1] \in wrecked' \/ \E f \in LocalSets(cache') : f[1] = e[1]
<1>1. CacheIInv /\ [CacheNext]_cachevars => [A]_cachevars
  BY CacheNextInv DEF LocalStep, LocalsStay
<1>. QED  BY <1>1, CacheInvariant, PTL DEF CacheSpec, LocalKept
=============================================================================
